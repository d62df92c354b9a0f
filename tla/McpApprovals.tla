---------------------------- MODULE McpApprovals ----------------------------
(***************************************************************************)
(* The tools of the MCP server that create and cancel jobs                 *)
(* (interfaces/mcp_server.py), the approval receipts they ask for          *)
(* (ApprovalAuthority in interfaces/mcp_policy.py) and the idempotent      *)
(* creation of jobs behind them (application/service.py, create_job of     *)
(* infra/sqlite_store.py), in production: one server process at a time     *)
(* holds the instance lock, prunes the consumed receipts as it starts and  *)
(* may die at any moment.                                                  *)
(*                                                                         *)
(* An operator signs a receipt for one principal and one exact operation;  *)
(* verifying and consuming it is one uninterrupted step of the event loop, *)
(* the operation itself runs in a thread later.  An operation is what the  *)
(* tool is asked to do, the digest of its arguments included.              *)
(***************************************************************************)
EXTENDS Naturals, Sequences, FiniteSets

CONSTANTS
  ToolCall,        \* tool calls
  Receipt,     \* receipts, by their nonce
  Tenant,
  Named,       \* jobs that cancellations name, the first created being 1
  Key,         \* idempotency keys that callers give
  Ttl,         \* approval_ttl_seconds
  MaxTime,     \* bound on the clock
  NoKey, NoReceipt, NoJob, NotIssued, Unused

\* What a tool is asked to do: a creation with the sinks sqlite and jsonl, or with
\* another one; or the cancellation of a job.
Operation ==
  [tenant : Tenant, do : {"create"}, key : Key \cup {NoKey}, sinks : {"local", "external"}, job : {NoJob}]
  \cup [tenant : Tenant, do : {"cancel"}, key : {NoKey}, sinks : {"local"}, job : Named]

ASSUME ApprovalConstants ==
  /\ Ttl \in Nat \ {0} /\ MaxTime \in Nat /\ Named \subseteq Nat
  /\ NoKey \notin Key /\ NoReceipt \notin Receipt

VARIABLES
  now,       \* the clock
  up,        \* the server runs
  issued,    \* issued[r]: what receipt r allows, and until when
  consumed,  \* receipts in mcp_approval_consumptions
  passed,    \* passed[r]: the calls that r has let through so far
  tool,      \* tool[c]: the operation, how far it is and the job it was told
  jobs       \* rows of jobs: idempotency_key, tenant and sinks, and whether cancelled

approvalVars == <<now, up, issued, consumed, passed, tool, jobs>>

NewCall == [pc |-> "new", op |-> Unused, job |-> NoJob, created |-> FALSE]

ApprovalInit ==
  /\ now = 0 /\ up = TRUE
  /\ issued = [r \in Receipt |-> NotIssued]
  /\ consumed = {} /\ passed = [r \in Receipt |-> {}]
  /\ tool = [c \in ToolCall |-> NewCall]
  /\ jobs = << >>

\* issue, run by an operator
Issue(r, op) ==
  /\ issued[r] = NotIssued
  /\ issued' = [issued EXCEPT ![r] = [op |-> op, expires |-> now + Ttl]]
  /\ UNCHANGED <<now, up, consumed, passed, tool, jobs>>

NeedsApproval(op) == op.do = "cancel" \/ op.sinks = "external"

\* verify_and_consume: the receipt is for this very operation, has not expired and
\* has no row yet
Valid(r, op) ==
  /\ r \in Receipt /\ issued[r] # NotIssued
  /\ issued[r].op = op
  /\ issued[r].expires > now
  /\ r \notin consumed

Let(c, op) == tool' = [tool EXCEPT ![c] = [NewCall EXCEPT !.pc = "allowed", !.op = op]]

\* The tool is called with an operation that needs no approval.
CallFree(c, op) ==
  /\ up /\ tool[c].pc = "new" /\ ~NeedsApproval(op)
  /\ Let(c, op)
  /\ UNCHANGED <<now, up, issued, consumed, passed, jobs>>

\* The tool is called with a receipt, that is consumed or refused.
CallApproved(c, op, r) ==
  /\ up /\ tool[c].pc = "new" /\ NeedsApproval(op)
  /\ IF Valid(r, op)
     THEN /\ Let(c, op)
          /\ consumed' = consumed \cup {r}
          /\ passed' = [passed EXCEPT ![r] = @ \cup {c}]
     ELSE /\ tool' = [tool EXCEPT ![c] = [NewCall EXCEPT !.pc = "refused", !.op = op]]
          /\ UNCHANGED <<consumed, passed>>
  /\ UNCHANGED <<now, up, issued, jobs>>
-----------------------------------------------------------------------------
(* The operation, in its thread *)

\* Bug: the key of a caller is stored as it is.
KeyOfAnyone(op) == IF op.key = NoKey THEN <<op.tenant, op.sinks>> ELSE <<op.key>>
\* The key a job is stored under: that of the caller, or a digest of the request,
\* of one tenant in either case
StorageKey(op) == <<op.tenant, IF op.key = NoKey THEN op.sinks ELSE op.key>>

\* create_job of the store: one transaction
CreateJob(c) ==
  LET op == tool[c].op
      same == {j \in DOMAIN jobs : jobs[j].key = StorageKey(op)} IN
  IF same = {}
  THEN /\ jobs' = Append(jobs, [key |-> StorageKey(op), tenant |-> op.tenant,
                                sinks |-> op.sinks, cancelled |-> FALSE])
       /\ tool' = [tool EXCEPT ![c].pc = "done", ![c].job = Len(jobs) + 1, ![c].created = TRUE]
  ELSE LET j == CHOOSE k \in same : TRUE IN
       /\ jobs' = jobs
       /\ tool' = [tool EXCEPT ![c].pc = IF jobs[j].tenant = op.tenant THEN "done" ELSE "not_found",
                               ![c].job = IF jobs[j].tenant = op.tenant THEN j ELSE NoJob]

\* request_cancel
CancelJob(c) ==
  LET op == tool[c].op IN
  IF op.job \in DOMAIN jobs /\ jobs[op.job].tenant = op.tenant
  THEN /\ jobs' = [jobs EXCEPT ![op.job].cancelled = TRUE]
       /\ tool' = [tool EXCEPT ![c].pc = "done", ![c].job = op.job]
  ELSE /\ jobs' = jobs
       /\ tool' = [tool EXCEPT ![c].pc = "not_found"]

Operate(c) ==
  /\ up /\ tool[c].pc = "allowed"
  /\ IF tool[c].op.do = "create" THEN CreateJob(c) ELSE CancelJob(c)
  /\ UNCHANGED <<now, up, issued, consumed, passed>>

\* The service refuses the request, or the call is cancelled before its thread starts:
\* the receipt remains consumed.
GiveUp(c) ==
  /\ up /\ tool[c].pc = "allowed"
  /\ tool' = [tool EXCEPT ![c].pc = "failed"]
  /\ UNCHANGED <<now, up, issued, consumed, passed, jobs>>

\* The process dies with the calls under way.
Crash ==
  /\ up /\ up' = FALSE
  /\ tool' = [c \in ToolCall |-> IF tool[c].pc = "allowed" THEN [tool[c] EXCEPT !.pc = "failed"] ELSE tool[c]]
  /\ UNCHANGED <<now, issued, consumed, passed, jobs>>

\* Bug: receipts are forgotten as soon as they have been consumed for a while.
NothingKept == {}
\* prune_mcp_security_state
Kept == {r \in consumed : issued[r].expires >= now}

Start ==
  /\ ~up /\ up' = TRUE
  /\ consumed' = Kept
  /\ UNCHANGED <<now, issued, passed, tool, jobs>>

Tick ==
  /\ now < MaxTime /\ now' = now + 1
  /\ UNCHANGED <<up, issued, consumed, passed, tool, jobs>>

ApprovalNext ==
  \/ \E r \in Receipt, op \in Operation : NeedsApproval(op) /\ Issue(r, op)
  \/ \E c \in ToolCall, op \in Operation :
       \/ CallFree(c, op)
       \/ \E r \in Receipt \cup {NoReceipt} : CallApproved(c, op, r)
  \/ \E c \in ToolCall : Operate(c) \/ GiveUp(c)
  \/ Crash \/ Start \/ Tick

ApprovalSpec == ApprovalInit /\ [][ApprovalNext]_approvalVars
-----------------------------------------------------------------------------
(* Properties *)

\* What a receipt let through: nothing, or one call for just what was signed.
ReceiptHeld(r) ==
  /\ \A c, d \in passed[r] : c = d
  /\ \A c \in passed[r] : issued[r] # NotIssued /\ tool[c].op = issued[r].op

\* However often it is presented, whatever crashed and was pruned since, a receipt lets
\* at most one call through, the one it was signed for; and nothing that needs an
\* approval is done by a call that no receipt let through (verify_and_consume,
\* prune_mcp_security_state, create_job and crawler_cancel_job of the server).
ReceiptsHold ==
  /\ \A r \in Receipt : ReceiptHeld(r)
  /\ \A c \in ToolCall :
       (tool[c].pc \in {"allowed", "done"} /\ NeedsApproval(tool[c].op))
         => \E r \in Receipt : c \in passed[r]

\* Calls that create under one key of one tenant are told the same job, at most one of them
\* that it created the job; no creation meets the job of another tenant, and a job that
\* writes to an external sink was created by a call for that (create_job of the service
\* and of the store).
KeysNameJobs ==
  /\ \A c, d \in ToolCall :
       (/\ tool[c].pc = "done" /\ tool[c].op.do = "create"
        /\ tool[d].pc = "done" /\ tool[d].op.do = "create"
        /\ tool[c].op.tenant = tool[d].op.tenant /\ tool[c].op.key = tool[d].op.key
        /\ tool[c].op.key # NoKey)
       => /\ tool[c].job = tool[d].job
          /\ (tool[c].created /\ tool[d].created) => c = d
  /\ \A c \in ToolCall :
       /\ tool[c].pc = "not_found" => tool[c].op.do = "cancel"
       /\ tool[c].pc = "done" => jobs[tool[c].job].tenant = tool[c].op.tenant
  /\ \A j \in DOMAIN jobs : jobs[j].sinks = "external" =>
       \E c \in ToolCall : tool[c].created /\ tool[c].job = j /\ tool[c].op.sinks = "external"
=============================================================================
