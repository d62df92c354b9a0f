--------------------------- MODULE ScopedRunner ---------------------------
(***************************************************************************)
(* Running one root job and the jobs that follow from it to their end      *)
(* (application/scoped_runner.py, behind crawler_run_job and the command   *)
(* line), beside the worker slots of other processes.  The runner finds    *)
(* the follow-up jobs by their job.followup_created events, reads the      *)
(* status of every job it knows, and executes one item of each in turn,    *)
(* until all are over, an operator has paused one, or its time is up.      *)
(* Every read is a hop to a thread, so another worker may act in between.  *)
(*                                                                         *)
(* A job is named by the item it follows from; RootJob is the job of the   *)
(* root item.  The newest 500 events of a job are listed: the jobs here    *)
(* have fewer.                                                             *)
(***************************************************************************)
EXTENDS PageTasks

CONSTANTS
  Runner,      \* the slot of the runner, slot 0 of its process
  MaxPauses,   \* bound: pauses by an operator
  RootJob

VARIABLES
  paused,      \* jobs an operator has paused
  pauses,      \* how often that happened
  others,      \* the items other slots completed since the runner listed their job's events
  runner       \* what the runner knows and does

scopeVars == <<paused, pauses, others>>
treeVars == <<vars, scopeVars, runner>>

ASSUME RunnerIsASlot == Runner \in Slot /\ MaxPauses \in Nat
ASSUME RootJobIsNoItem == RootJob \notin Seq(Nat)

JobOf(i) == IF i = << >> THEN RootJob ELSE Front(i)
ItemsOf(j) == {i \in DOMAIN item : JobOf(i) = j}
Jobs == {JobOf(i) : i \in DOMAIN item}
\* Bug: only what follows from the root job is found.
ChildrenOfRoot(j) == IF j = RootJob THEN ItemsOf(j) \cap Jobs ELSE {}
\* The jobs named in the job.followup_created events of job j
ChildrenOf(j) == ItemsOf(j) \cap Jobs

Settled(j) == \A i \in ItemsOf(j) : item[i].status \in {"succeeded", "failed"}
WonItems(j) == {i \in ItemsOf(j) : item[i].status = "succeeded"}
JobStatus(j) ==
  IF Settled(j)
  THEN IF WonItems(j) = ItemsOf(j) THEN "succeeded" ELSE IF WonItems(j) # {} THEN "partial" ELSE "failed"
  ELSE IF j \in paused THEN "paused" ELSE "running"

\* Bug: a job that is over in part is waited for.
TerminalOnlyWhole == {"succeeded", "failed", "cancelled"}
TerminalStates == {"succeeded", "partial", "failed", "cancelled"}
OperatorStates == {"paused", "pause_requested"}
Claimable(j) == {i \in ItemsOf(j) : item[i].status = "pending" /\ j \notin paused}
-----------------------------------------------------------------------------
(* The runner.  known is scoped_job_ids, at the place in it; status what the *)
(* last reading of each job said; found whether a result was listed.         *)

ScopedInit ==
  /\ Init
  /\ paused = {} /\ pauses = 0 /\ others = {}
  /\ runner = [pc |-> "discover", known |-> <<RootJob>>, at |-> 1, status |-> << >>,
               found |-> FALSE, reason |-> "timeout"]

Current == runner.known[runner.at]
Known == ToSet(runner.known)
Later(pc) ==  \* the next known job, or the first one of phase pc
  IF runner.at < Len(runner.known) THEN [runner EXCEPT !.at = @ + 1]
  ELSE [runner EXCEPT !.at = 1, !.pc = pc]

\* list_events of the current job; the jobs found are looked at in their turn
Discover ==
  /\ runner.pc = "discover"
  /\ LET found == SetToSeq(ChildrenOf(Current) \ Known)
         known == runner.known \o found IN
     runner' = IF runner.at < Len(known)
               THEN [runner EXCEPT !.known = known, !.at = @ + 1]
               ELSE [runner EXCEPT !.known = known, !.at = 1, !.pc = "read", !.status = << >>]
  /\ others' = others \ ItemsOf(Current)
  /\ UNCHANGED <<vars, paused, pauses>>

\* get_job of the current job
Read ==
  /\ runner.pc \in {"read", "reread"}
  /\ runner' = [Later(IF runner.pc = "read" THEN "decide" ELSE "collect")
                  EXCEPT !.status = Append(@, JobStatus(Current))]
  /\ UNCHANGED <<vars, scopeVars>>

Statuses == ToSet(runner.status)
Stop(reason) ==
  runner' = [runner EXCEPT !.pc = "reread", !.at = 1, !.status = << >>, !.reason = reason]

Decide ==
  /\ runner.pc = "decide"
  /\ IF Statuses \subseteq TerminalStates THEN Stop("terminal")
     ELSE IF Statuses \cap OperatorStates # {} THEN Stop("operator_controlled")
     ELSE \/ Stop("timeout")
          \/ runner' = [runner EXCEPT !.pc = "work"]
  /\ UNCHANGED <<vars, scopeVars>>

\* process_one of the current job, when it was open as it was read
Process ==
  /\ runner.pc = "work" /\ exec[Runner] = Idle
  /\ runner.status[runner.at] \notin TerminalStates \cup OperatorStates
  /\ \E i \in Claimable(Current) : Claim(Runner, i)
  /\ runner' = [runner EXCEPT !.pc = "busy"]
  /\ UNCHANGED scopeVars

\* Nothing to claim there, an item to be tried again being due later, or the item
\* that was claimed is done
PassBy ==
  /\ \/ /\ runner.pc = "work"
        /\ \/ runner.status[runner.at] \in TerminalStates \cup OperatorStates
           \/ \A i \in Claimable(Current) : item[i].attempts > 0
     \/ runner.pc = "busy"
  /\ exec[Runner] = Idle
  /\ runner' = [Later("discover") EXCEPT !.pc = IF runner.at < Len(runner.known) THEN "work" ELSE @]
  /\ UNCHANGED <<vars, scopeVars>>

\* list_results of the current job
Collect ==
  /\ runner.pc = "collect"
  /\ runner' = [Later("done") EXCEPT !.found = @ \/ WonItems(Current) # {}]
  /\ UNCHANGED <<vars, scopeVars>>

LineageStatus ==
  IF Statuses = {"succeeded"} THEN "succeeded"
  ELSE IF runner.found THEN "partial"
  ELSE IF Statuses = {"cancelled"} THEN "cancelled"
  ELSE IF runner.reason = "terminal" THEN "failed" ELSE "incomplete"
-----------------------------------------------------------------------------
(* Everybody else *)

OtherClaims(s) ==
  /\ s # Runner /\ root.shared
  /\ \E j \in Jobs : \E i \in Claimable(j) : Claim(s, i)
  /\ UNCHANGED <<scopeVars, runner>>

Work(s) ==
  /\ Execute(s)
  /\ others' = others \cup
       {i \in {exec[s].item} : s # Runner /\ item'[i].status = "succeeded"}
  /\ UNCHANGED <<paused, pauses, runner>>

Continue == (\E k \in DOMAIN stream : LoadChunk(k)) /\ UNCHANGED <<scopeVars, runner>>

\* request_pause and resume
Pause(j) ==
  /\ pauses < MaxPauses /\ root.shared /\ j \notin paused /\ ~Settled(j)
  /\ paused' = paused \cup {j} /\ pauses' = pauses + 1
  /\ UNCHANGED <<vars, others, runner>>
Resume(j) ==
  /\ j \in paused
  /\ paused' = paused \ {j}
  /\ UNCHANGED <<vars, pauses, others, runner>>

RunnerStep == Discover \/ Read \/ Decide \/ Process \/ PassBy \/ Collect

ScopedNext ==
  \/ RunnerStep
  \/ \E s \in Slot : OtherClaims(s) \/ Work(s)
  \/ Continue
  \/ \E j \in Jobs : Pause(j) \/ Resume(j)

\* Executions, chunks and the runner go on, and an item to be tried again is due at
\* some time; nobody has to pause or resume a job, and the runner's time need not
\* run out.
ScopedSpec ==
  /\ ScopedInit /\ [][ScopedNext]_treeVars
  /\ WF_treeVars(RunnerStep) /\ SF_treeVars(Process) /\ WF_treeVars(Continue)
  /\ \A s \in Slot : WF_treeVars(Work(s))
-----------------------------------------------------------------------------
(* Properties *)

\* What a cookie and a proxy are told about a page is true of it, and all they are
\* told of it is the same; a usable page is only called unusable when a chunk of its
\* continuation could not keep its evidence, the verification page is always
\* called blocked where pages are classified, and once an attempt is over its pages are
\* all reported, those of chunks that it left behind excepted (execute, load_chunk).
ReportsFair ==
  \A id \in DOMAIN read :
    LET page == read[id].seen  said == ToSet(read[id].said)
        over == item[id[1]].attempts > id[2] \/ item[id[1]].status # "running" IN
    /\ Cardinality(said) <= 1
    /\ "success" \in said => Good(page)
    /\ (Good(page) /\ (id[3] # 0 \/ broken = 0)) => said \subseteq {"success"}
    /\ said # {} => ("blocked" \in said <=> "blocked" \in page.signs)
    /\ (over /\ said = {}) => id \in DOMAIN stream

\* An item is only given up for what its last page shows: a retryable failure after
\* the last attempt, an empty page only when nothing says that the page is a
\* verification page or, for the kinds whose old validators looked for that first,
\* a temporary error (response_policy.py, fail_item).
GivenUpRightly ==
  \A i \in DOMAIN item :
    item[i].status = "failed" =>
      LET page == read[PageId(i, 0)].seen  kind == KindOf(i) IN
      \/ item[i].code \in Retryable /\ item[i].attempts = MaxAttempts
      \/ item[i].code = "fetch_refused"
      \/ /\ item[i].code \in Terminal
         /\ "blocked" \notin page.signs
         /\ "temporary" \in page.signs =>
              kind \notin SearchKinds \cup {"category_asin_list", "merchant_home", "merchant_products"}
         /\ \/ "missing" \in page.signs
            \/ page.shape \in {"unsupported", "reversed", "zero"}
            \/ page.parsed /\ page.rows = << >> /\ kind \notin ProductKinds

\* rows are those of the pages shown, each once, in the order in which they first appear
\* there, page by page.
InListOrder(rows, shown) ==
  /\ ToSet(rows) = UNION {ToSet(shown[c]) : c \in DOMAIN shown}
  /\ \A i, j \in DOMAIN rows : rows[i] = rows[j] => i = j
  /\ \A i, j \in DOMAIN rows : i < j =>
       \E c \in DOMAIN shown : \E n \in DOMAIN shown[c] :
         /\ shown[c][n] = rows[i]
         /\ \A d \in DOMAIN shown : \A m \in DOMAIN shown[d] :
              shown[d][m] = rows[j] => c < d \/ (c = d /\ n < m)

\* A rank list that succeeds has been given rows by every chunk of its continuation, and its
\* rows are those its pages showed, none lost and none twice, in the order of the list: the
\* first page, then the chunks, in whatever order these ended and whatever rows the site
\* answered them with (load_chunk, execute).
RankRowsSound ==
  (item[<< >>].status = "succeeded" /\ root.kind = "rank_list") =>
    LET more == read[PageId(<< >>, 0)].seen.more
        shown == [c \in {0} \cup Chunks(more) |-> read[PageId(<< >>, c)].seen.rows] IN
    /\ \A c \in Chunks(more) :
         PageId(<< >>, c) \in DOMAIN read /\ read[PageId(<< >>, c)].seen.rows # << >>
    /\ InListOrder(item[<< >>].rows, shown)

\* When the runner says a job is complete, every job it names is over, and of the jobs that
\* follow from those it misses only what another slot created after the runner had last listed
\* the events of the parent; what it says of the lineage agrees with the items of the jobs it
\* names (run_scoped_job).
LineageFollowed ==
  runner.pc = "done" =>
    /\ runner.reason = "terminal" => \A j \in Known : Settled(j)
    /\ runner.reason = "terminal" => \A j \in Jobs \ Known : j \in others \/ JobOf(j) \notin Known
    /\ LineageStatus = "succeeded" => \A j \in Known : WonItems(j) = ItemsOf(j)
    /\ LineageStatus = "failed" => \A j \in Known : WonItems(j) = {}

\* When the runner says a job is complete, it has run the root job "and its durable follow-up
\* lineage" (run_scoped_job): it names every job that follows from the root.
LineageWhole == (runner.pc = "done" /\ runner.reason = "terminal") => Jobs \subseteq Known

\* The runner returns without its time running out, whatever the other slots do, however
\* the items end and whenever an operator pauses and resumes the jobs (run_scoped_job).
RunnerReturns == <>(runner.pc = "done")
=============================================================================
