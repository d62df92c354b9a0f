------------------------------ MODULE McpCalls ------------------------------
(***************************************************************************)
(* MCPExecutionPolicy as the middleware of the MCP server: every governed  *)
(* call is written to the audit table, counted as in flight, checked for   *)
(* its scope, metered by the actor's token bucket, and, if it runs a job,  *)
(* kept waiting for a run slot; then the tool is invoked, and the end of   *)
(* the call is written to the audit table.                                 *)
(*                                                                         *)
(* The locks of the bucket and of the counters are never held across an    *)
(* await, so that taking them suspends nobody.  A call is suspended while  *)
(* a thread writes its audit row, while it waits for a slot, and in the    *)
(* tool.  It may be cancelled at each of these; the thread goes on.        *)
(*                                                                         *)
(* A definition whose comment starts with "Bug:" is not part of the model: *)
(* it is a faulty variant of the definition after it.                      *)
(***************************************************************************)
EXTENDS Integers, Sequences, SequencesExt

CONSTANTS
  Call,         \* the calls of one actor
  Capacity,     \* max_concurrent_runs
  Burst         \* rate_limit_burst

ASSUME CallAssumption == IsFiniteSet(Call)
ASSUME LimitAssumption == Capacity \in Nat \ {0} /\ Burst \in Nat \ {0}

VARIABLES
  call,         \* what each call is doing
  row,          \* the status of its row in mcp_audit_events, or "none"
  inflight,     \* _inflight of the tenant
  tokens,       \* the whole tokens in the actor's bucket
  slots,        \* the value of the semaphore of the run gate
  queue         \* its waiters

vars == <<call, row, inflight, tokens, slots, queue>>
gate == <<slots, queue>>

\* kind: a run of a job, something else, or a call its principal has no scope for.
\* outcome: how the tool ended.  thread: the writing of the audit row, which is to become
\* "writes".
Received(kind) == [phase |-> "starting", kind |-> kind, outcome |-> "none",
                   thread |-> "running", writes |-> "started", answer |-> "none"]
Unseen == [phase |-> "idle", kind |-> "other", outcome |-> "none",
           thread |-> "none", writes |-> "started", answer |-> "none"]

Init ==
  /\ call = [c \in Call |-> Unseen]
  /\ row = [c \in Call |-> "none"]
  /\ inflight = 0
  /\ tokens = Burst
  /\ slots = Capacity
  /\ queue = << >>

At(c, phase) == call[c].phase = phase
Go(c, next) == call' = [call EXCEPT ![c] = next]

-----------------------------------------------------------------------------
(* The audit rows, written by threads *)

Receive(c, kind) ==
  /\ At(c, "idle")
  /\ Go(c, Received(kind))
  /\ UNCHANGED <<row, inflight, tokens, gate>>

\* The store may be locked or out of reach.
Write(c) ==
  /\ call[c].thread = "running"
  /\ \/ /\ row' = [row EXCEPT ![c] = call[c].writes]
        /\ Go(c, [call[c] EXCEPT !.thread = "wrote"])
     \/ /\ Go(c, [call[c] EXCEPT !.thread = "failed"])
        /\ UNCHANGED row
  /\ UNCHANGED <<inflight, tokens, gate>>

\* The finally of __call__: the end of the call is written, also if it is cancelled.
Ending(c, outcome, answer) ==
  [phase |-> "finishing", kind |-> call[c].kind, outcome |-> outcome, thread |-> "running",
   writes |-> IF outcome = "ok" THEN "succeeded" ELSE "failed", answer |-> answer]

\* What a cancelled call is answered is not heard.
Answered(c, thread, answer) ==
  [phase |-> "done", kind |-> call[c].kind, outcome |-> call[c].outcome, thread |-> thread,
   writes |-> call[c].writes,
   answer |-> IF call[c].answer = "cancelled" THEN "cancelled" ELSE answer]

-----------------------------------------------------------------------------
(* The gate of the runs, an asyncio.Semaphore: first come, first served.  Who comes between
   the waking of the only waiter and its going on takes a slot that is left, where asyncio
   lets it wait for the first to go on. *)

HasSlot(c) == At(c, "granted") \/ (At(c, "working") /\ call[c].kind = "run")

\* The slot of c is free again: the first waiter is woken with it.
Release(c, next) ==
  \/ /\ queue = << >>
     /\ slots' = slots + 1
     /\ Go(c, next)
     /\ UNCHANGED queue
  \/ /\ queue # << >>
     /\ queue' = Tail(queue)
     /\ call' = [call EXCEPT ![c] = next, ![Head(queue)].phase = "granted"]
     /\ UNCHANGED slots

\* c goes on to next, which has no part in the gate.
Leave(c, next) ==
  \/ HasSlot(c) /\ Release(c, next)
  \/ /\ \E k \in DOMAIN queue : queue[k] = c /\ queue' = RemoveAt(queue, k)
     /\ Go(c, next)
     /\ UNCHANGED slots
  \/ ~HasSlot(c) /\ ~At(c, "queued") /\ Go(c, next) /\ UNCHANGED gate

\* The call is told, in time, that it has a slot.
Proceed(c) ==
  /\ At(c, "granted")
  /\ Go(c, [call[c] EXCEPT !.phase = "working"])
  /\ UNCHANGED <<row, inflight, tokens, gate>>

\* concurrency_rejected; a slot that was given meanwhile is given back.
TimeOut(c) ==
  /\ At(c, "queued") \/ At(c, "granted")
  /\ Leave(c, Ending(c, "none", "none"))
  /\ UNCHANGED <<row, inflight, tokens>>

-----------------------------------------------------------------------------
(* A call *)

\* The audit row could not be inserted: the call raises before it counts as in flight.
NotAudited(c) ==
  /\ At(c, "starting")
  /\ call[c].thread = "failed"
  /\ Go(c, Answered(c, "failed", "error"))
  /\ UNCHANGED <<row, inflight, tokens, gate>>

\* Bug: the insertion of the audit row is not awaited.
AuditSent(c) == call[c].thread \in {"running", "wrote"}
Audited(c) == call[c].thread = "wrote"

\* Neither a missing scope nor a missing token takes one.
Deny(c) ==
  /\ At(c, "starting")
  /\ Audited(c)
  /\ call[c].kind = "unscoped" \/ tokens = 0
  /\ inflight' = inflight + 1
  /\ Go(c, Ending(c, "none", "none"))
  /\ UNCHANGED <<row, tokens, gate>>

Admit(c) ==
  /\ At(c, "starting")
  /\ Audited(c)
  /\ call[c].kind # "unscoped"
  /\ inflight' = inflight + 1
  /\ tokens > 0
  /\ tokens' = tokens - 1
  /\ \/ /\ call[c].kind = "other"
        /\ Go(c, [call[c] EXCEPT !.phase = "working"])
        /\ UNCHANGED gate
     \/ /\ call[c].kind = "run" /\ slots > 0
        /\ slots' = slots - 1
        /\ Go(c, [call[c] EXCEPT !.phase = "working"])
        /\ UNCHANGED queue
     \/ /\ call[c].kind = "run" /\ slots = 0
        /\ queue' = Append(queue, c)
        /\ Go(c, [call[c] EXCEPT !.phase = "queued"])
        /\ UNCHANGED slots
  /\ UNCHANGED row

\* Bug: an exception of the tool does not give the slot back.
LeaveUnlessRaised(c, outcome, next) ==
  IF outcome = "raised" THEN Go(c, next) /\ UNCHANGED gate ELSE Leave(c, next)
LeaveAnyway(c, outcome, next) == Leave(c, next)

\* The tool returns a result, or one that is an error, or raises.
Handle(c) ==
  /\ At(c, "working")
  /\ \E outcome \in {"ok", "failed", "raised"} : LeaveAnyway(c, outcome, Ending(c, outcome, "none"))
  /\ UNCHANGED <<row, inflight, tokens>>

\* Bug: a failure of the audit store is not told.
ResultUnheard(c) == call[c].outcome \in {"ok", "failed"}
HasResult(c) == call[c].thread = "wrote" /\ call[c].outcome \in {"ok", "failed"}

\* Bug: a call whose audit row could not be written is not taken from those in flight.
FinishedIfWritten(c) == IF inflight > 0 /\ call[c].thread # "failed" THEN inflight - 1 ELSE inflight
Finished(c) == IF inflight > 0 THEN inflight - 1 ELSE 0

Finish(c) ==
  /\ At(c, "finishing")
  /\ call[c].thread \in {"wrote", "failed"}
  /\ inflight' = Finished(c)
  /\ Go(c, Answered(c, call[c].thread, IF HasResult(c) THEN "result" ELSE "error"))
  /\ UNCHANGED <<row, tokens, gate>>

\* A thread that has not begun may be taken back, one that has goes on.
Abandoned(c, thread) == thread = call[c].thread \/ (call[c].thread = "running" /\ thread = "none")

CancelStart(c) ==
  /\ At(c, "starting")
  /\ \E thread \in {"none", "running", "wrote", "failed"} :
       Abandoned(c, thread) /\ Go(c, Answered(c, thread, "cancelled"))
  /\ UNCHANGED <<row, inflight, tokens, gate>>

Cancel(c) ==
  /\ call[c].phase \in {"queued", "granted", "working"}
  /\ Leave(c, Ending(c, "none", "cancelled"))
  /\ UNCHANGED <<row, inflight, tokens>>

CancelFinish(c) ==
  /\ At(c, "finishing")
  /\ \E thread \in {"none", "running", "wrote", "failed"} :
       Abandoned(c, thread) /\ Go(c, Answered(c, thread, "cancelled"))
  /\ inflight' = Finished(c)
  /\ UNCHANGED <<row, tokens, gate>>

Refilled == IF tokens < Burst THEN tokens + 1 ELSE tokens

TimePasses ==
  /\ tokens' = Refilled
  /\ UNCHANGED <<call, row, inflight, gate>>

Step(c) ==
  \/ \E kind \in {"run", "other", "unscoped"} : Receive(c, kind)
  \/ Write(c) \/ NotAudited(c) \/ Deny(c) \/ Admit(c) \/ Proceed(c) \/ TimeOut(c)
  \/ Handle(c) \/ Finish(c) \/ CancelStart(c) \/ Cancel(c) \/ CancelFinish(c)

Next == (\E c \in Call : Step(c)) \/ TimePasses

Spec == Init /\ [][Next]_vars

-----------------------------------------------------------------------------
(* Properties *)

\* Every variable has values of its type; the bucket holds at most the burst.
CallRow == [phase : {"idle", "starting", "queued", "granted", "working", "finishing", "done"},
            kind : {"run", "other", "unscoped"}, outcome : {"none", "ok", "failed", "raised"},
            thread : {"none", "running", "wrote", "failed"},
            writes : {"started", "succeeded", "failed"},
            answer : {"none", "result", "error", "cancelled"}]
TypeOK ==
  /\ call \in [Call -> CallRow]
  /\ row \in [Call -> {"none", "started", "succeeded", "failed"}]
  /\ inflight \in 0 .. Cardinality(Call)
  /\ tokens \in 0 .. Burst
  /\ slots \in 0 .. Capacity
  /\ queue \in Seq(Call)

\* Whichever way calls end, the count of those in flight is that of the calls between their
\* audit rows: none is counted for ever, and none twice.
InflightExact ==
  inflight = Cardinality({c \in Call : call[c].phase \in {"queued", "granted", "working", "finishing"}})

\* No slot of the gate is lost or given twice, however runs end, time out or are cancelled,
\* and nobody waits while one is free.
SlotsSound ==
  /\ slots + Cardinality({c \in Call : HasSlot(c)}) = Capacity
  /\ ToSet(queue) = {c \in Call : At(c, "queued")}
  /\ queue # << >> => slots = 0

\* No tool is invoked before its call is in the audit table, and none is there as succeeded
\* that was not invoked with success.
AuditFirst ==
  \A c \in Call : /\ At(c, "working") => row[c] = "started"
                  /\ row[c] = "succeeded" => call[c].outcome = "ok"

\* Who is answered with a result finds it in the audit table as that; an error is there too,
\* unless the table could not be written.
AuditComplete ==
  \A c \in Call :
    /\ call[c].answer = "result" => row[c] = IF call[c].outcome = "ok" THEN "succeeded" ELSE "failed"
    /\ call[c].answer = "error" => row[c] = "failed" \/ call[c].thread = "failed"
=============================================================================
