----------------------------- MODULE CrawlJobs -----------------------------
(***************************************************************************)
(* Crawl jobs at work: worker slots (Worker.process_one), the clients that *)
(* create, pause, resume and cancel jobs, the passing of time, and crashes *)
(* of worker processes, all acting on one job database (JobDb).            *)
(***************************************************************************)
EXTENDS JobDb

CONSTANTS
  Slot,       \* worker slots, over all worker processes
  Owner,      \* Owner[s]: the lease_owner slot s writes, worker_id:slot
  Scopes,     \* Scopes[s]: the job_id arguments slot s passes to claim_next, AnyJob for None
  MaxClaims   \* bound: a lease is lost only before an item's MaxClaims-th claim

VARIABLES
  db,         \* the database
  slot        \* what each slot is doing

vars == <<db, slot>>

Idle == [phase |-> "idle", item |-> NoItem, token |-> 0]
Down == [Idle EXCEPT !.phase = "down"]
Busy(s) == slot[s].phase \in {"executing", "failing"}

\* _verify_owner for the claim that slot s holds
OwnsLease(s) == Owns(db, slot[s].item, Owner[s], slot[s].token)

Init ==
  /\ db = EmptyDb
  /\ slot = [s \in Slot |-> Idle]

-----------------------------------------------------------------------------
(* Clients *)

CreateJob(j, sinks) ==
  /\ j \notin Created(db)
  /\ Parent[j] = NoItem
  /\ db' = Insert(db, {j}, sinks)
  /\ UNCHANGED slot

Pause(j) ==
  /\ j \in Created(db)
  /\ db' = RequestPause(db, j)
  /\ UNCHANGED slot

Resume(j) ==
  /\ j \in Created(db)
  /\ db' = ResumeJob(db, j)
  /\ UNCHANGED slot

Cancel(j) ==
  /\ j \in Created(db)
  /\ db' = RequestCancel(db, j)
  /\ UNCHANGED slot

-----------------------------------------------------------------------------
(* Worker slots *)

\* claim_next recovers leases and reconciles controls before it looks for an item
BeforeClaim == Reconcile(Recover(db))

ClaimNothing(s) ==
  /\ slot[s] = Idle
  /\ \E d \in {BeforeClaim} :
       /\ \E scope \in Scopes[s] : First(d, scope) = {}
       /\ db' = d
  /\ UNCHANGED slot

ClaimItem(s) ==
  /\ slot[s] = Idle
  /\ \E d \in {BeforeClaim}, scope \in Scopes[s] : \E i \in First(d, scope) :
       /\ db' = Lease(d, i, Owner[s])
       /\ slot' = [slot EXCEPT ![s] = [phase |-> "executing", item |-> i,
                                       token |-> FreshToken(d, i)]]

\* The heartbeat task renews the lease while the slot is busy
Heartbeat(s) ==
  /\ Busy(s)
  /\ OwnsLease(s)
  /\ db' = [db EXCEPT !.item[slot[s].item].expired = FALSE]
  /\ UNCHANGED slot

\* The plugin returned a result, deriving some of the item's follow-ups
CompleteItem(s) ==
  /\ slot[s].phase = "executing"
  /\ OwnsLease(s)
  /\ \E J \in SUBSET Followups(slot[s].item) :
       db' = Complete(db, slot[s].item, slot[s].token, J)
  /\ slot' = [slot EXCEPT ![s] = Idle]

\* The plugin returned a failure
FailItem(s, retryable) ==
  /\ slot[s].phase = "executing"
  /\ OwnsLease(s)
  /\ db' = Fail(db, slot[s].item, retryable)
  /\ slot' = [slot EXCEPT ![s] = Idle]

\* The plugin, or the store inside a transaction it rolled back, raised
Raise(s) ==
  /\ slot[s].phase = "executing"
  /\ slot' = [slot EXCEPT ![s].phase = "failing"]
  /\ UNCHANGED db

\* The except branch records worker_internal_error, which may be retried
FailInternal(s) ==
  /\ slot[s].phase = "failing"
  /\ OwnsLease(s)
  /\ db' = Fail(db, slot[s].item, TRUE)
  /\ slot' = [slot EXCEPT ![s] = Idle]

\* A report raises ConflictError: the lease went to somebody else
LeaseLost(s) ==
  /\ Busy(s)
  /\ ~OwnsLease(s)
  /\ slot' = [slot EXCEPT ![s] = Idle]
  /\ UNCHANGED db

\* The process dies while the slot works on an item (also: fail_item raised,
\* which ends the TaskGroup of run_forever)
Crash(s) ==
  /\ Busy(s)
  /\ db.item[slot[s].item].attempts < MaxClaims
  /\ slot' = [slot EXCEPT ![s] = Down]
  /\ UNCHANGED db

\* run_forever starts with recover_expired_leases
Restart(s) ==
  /\ slot[s] = Down
  /\ db' = Recover(db)
  /\ slot' = [slot EXCEPT ![s] = Idle]

-----------------------------------------------------------------------------
(* Time *)

LeaseTimesOut(i) ==
  /\ db.item[i].status = "running"
  /\ ~db.item[i].expired
  /\ db.item[i].attempts < MaxClaims
  /\ db' = [db EXCEPT !.item[i].expired = TRUE]
  /\ UNCHANGED slot

BackoffElapses(i) ==
  /\ db.item[i].status = "pending"
  /\ ~db.item[i].ready
  /\ db' = [db EXCEPT !.item[i].ready = TRUE]
  /\ UNCHANGED slot

-----------------------------------------------------------------------------

Client(j) == (\E sinks \in SUBSET Sink : CreateJob(j, sinks))
             \/ Pause(j) \/ Resume(j) \/ Cancel(j)
Claim(s) == ClaimNothing(s) \/ ClaimItem(s)
Report(s) == CompleteItem(s) \/ (\E r \in BOOLEAN : FailItem(s, r))
             \/ FailInternal(s) \/ LeaseLost(s)
Work(s) == Claim(s) \/ Heartbeat(s) \/ Report(s) \/ Raise(s) \/ Crash(s) \/ Restart(s)
Time(i) == LeaseTimesOut(i) \/ BackoffElapses(i)

Next ==
  \/ \E j \in Job : Client(j)
  \/ \E s \in Slot : Work(s)
  \/ \E i \in Item : Time(i)

Spec == Init /\ [][Next]_vars

(***************************************************************************)
(* Slots keep polling and report what they claimed (every upstream request *)
(* has a timeout), a supervisor restarts a dead process, and clocks run: a *)
(* backoff ends and a lease nobody renews runs out.                        *)
(***************************************************************************)
Held(i) == \E s \in Slot : Busy(s) /\ slot[s].item = i /\ OwnsLease(s)

\* A step that ends the work of slot s: in a step of Next, one of Report(s)
Finishes(s) == Busy(s) /\ slot' = [slot EXCEPT ![s] = Idle]

Fairness ==
  /\ \A s \in Slot : WF_vars(Claim(s)) /\ WF_slot(Finishes(s)) /\ WF_vars(Restart(s))
  /\ \A i \in Item : /\ WF_vars(BackoffElapses(i))
                     /\ WF_vars(~Held(i) /\ LeaseTimesOut(i))

FairSpec == Spec /\ Fairness

-----------------------------------------------------------------------------
(* Properties *)

\* Every row and every slot has values of its type.
Owners == {Owner[s] : s \in Slot}
JobRow ==
  [status : JobStatus \cup {"absent"}, sinks : SUBSET Sink, created : Nat,
   succeeded : Nat, failed : Nat, cancelled : Nat, checkpoint : Nat]
ItemRow ==
  [status : ItemStatus \cup {"absent"}, attempts : Nat,
   owner : Owners \cup {NoOwner}, token : Nat,
   expired : BOOLEAN, ready : BOOLEAN]
DbType ==
  [job : [Job -> JobRow], item : [Item -> ItemRow], result : [Item -> Nat],
   outbox : SUBSET (Item \X Sink), announced : [Job -> Seq(Final)]]
TypeOK ==
  /\ db \in DbType
  /\ slot \in [Slot -> [phase : {"idle", "executing", "failing", "down"},
                        item : Item \cup {NoItem}, token : Nat]]

\* A job is over exactly when all its items are settled, the status it ends with
\* says what became of them, only a cancelled job has cancelled items, and
\* nothing runs in a job that is paused or has not started (_refresh_job,
\* _reconcile_controls and resume agree about every job).
StatusMatchesItems ==
  \A j \in Created(db) :
    LET status == db.job[j].status IN
    /\ status \in Final <=> Open(db, j) = {}
    /\ status \in {"paused", "pending"} => Running(db, j) = {}
    /\ WithStatus(db, j, {"cancelled"}) # {} => status \in {"cancel_requested", "cancelled"}
    /\ status = "succeeded" => WithStatus(db, j, {"failed"}) = {}
    /\ status = "failed" => WithStatus(db, j, {"failed"}) = ItemsOf(j)
    /\ status = "partial" => /\ WithStatus(db, j, {"failed"}) # {}
                             /\ WithStatus(db, j, {"succeeded"}) # {}

\* The counters of a job are those of its items and everything up to its checkpoint
\* is settled, the item after it open; only while a cancellation waits for running
\* items may the checkpoint and the count of cancelled items lag behind
\* (request_cancel does not refresh the job).
SettledUpTo(j, n) == n \in 0 .. Size[j] /\ \A m \in 1 .. n : db.item[<<j, m>>].status \in Settled
OpenAfter(j, n) == n < Size[j] => db.item[<<j, n + 1>>].status \notin Settled
CountersMatchItems ==
  \A j \in Created(db) :
    LET row == db.job[j] IN
    /\ SettledUpTo(j, row.checkpoint)
    /\ row.succeeded = Cardinality(WithStatus(db, j, {"succeeded"}))
    /\ row.failed = Cardinality(WithStatus(db, j, {"failed"}))
    /\ row.status # "cancel_requested" =>
         /\ OpenAfter(j, row.checkpoint)
         /\ row.cancelled = Cardinality(WithStatus(db, j, {"cancelled"}))

\* At most one slot may still report on an item, whoever else works on it after
\* losing its lease, even when two processes run under one worker_id.
OneLeaseHolder ==
  \A s, t \in Slot :
    /\ Busy(s) /\ Busy(t)
    /\ slot[s].item = slot[t].item
    /\ OwnsLease(s) /\ OwnsLease(t)
    => s = t

\* A result, its item's success and its deliveries stand or fall together, and the
\* result is that of the last claim of the item, never one that lost its lease.
ResultsAtomic ==
  \A i \in Item :
    LET row == db.item[i] IN
    /\ db.result[i] = IF row.status = "succeeded" THEN row.attempts ELSE 0
    /\ {q \in db.outbox : q[1] = i} =
         IF row.status = "succeeded" THEN Queued(db, i) ELSE {}

\* A derived job exists only once its parent item has succeeded, and delivers to
\* the sinks of its parent's job.
FollowupsAtomic ==
  \A j \in Created(db) : Parent[j] # NoItem =>
    /\ db.item[Parent[j]].status = "succeeded"
    /\ db.job[j].sinks = db.job[JobOf(Parent[j])].sinks

\* A job announces nothing before its end, and at its end, once and never again, the
\* status it ends with - but for a cancelled job whose last open item is settled by
\* the report of the slot that runs it: _refresh_job writes that status without an
\* event, and _reconcile_controls then no longer finds the job.
LastReport(j) ==
  \E i \in ItemsOf(j) : Open(db, j) = {i} /\ db'.item[i].status \in {"succeeded", "failed"}
EndAnnounced ==
  [][\A j \in Job :
       db'.announced[j] =
         IF db'.job[j].status \notin Final THEN << >>
         ELSE IF db.job[j].status \in Final THEN db.announced[j]
         ELSE IF db.job[j].status = "cancel_requested" /\ LastReport(j) THEN << >>
         ELSE <<db'.job[j].status>>]_vars

\* A claim starts no item of a job that is paused, over, or asked to pause or
\* cancel, and within a job no item starts ahead of an earlier one that is ready.
StartsRespectControls ==
  [][\A i \in Item :
       db.item[i].attempts # db'.item[i].attempts =>
         /\ db.job[JobOf(i)].status \in {"pending", "running"}
         /\ \A k \in ItemsOf(JobOf(i)) :
              db'.item[k].status = "pending" /\ db'.item[k].ready => SeqOf(i) < SeqOf(k)]_vars

\* A cancellation ends the job and a pause request is settled, crashes included.
ControlsSettle ==
  \A j \in Job :
    /\ db.job[j].status = "cancel_requested" ~> db.job[j].status \in Final
    /\ db.job[j].status = "pause_requested" ~> db.job[j].status # "pause_requested"

\* A job that is not held up by a control request ends.
JobsEnd ==
  \A j \in Job :
    db.job[j].status \in {"pending", "running"} ~> db.job[j].status \notin {"pending", "running"}

\* The store keeps the contract of JobContract: a paused job stands still, an item
\* settles once, and a job closes in the very transaction that settles its last item.
Phase(j) ==
  LET status == db.job[j].status IN
  IF status \in {"pending", "running", "pause_requested"} THEN "open"
  ELSE IF status = "paused" THEN "held"
  ELSE IF status = "cancel_requested" THEN "closing"
  ELSE status
Outcome(i) == IF db.item[i].status \in Settled THEN db.item[i].status ELSE "open"

Contract == INSTANCE JobContract WITH
  Items <- [j \in Job |-> ItemsOf(j)],
  phase <- [j \in Job |-> Phase(j)],
  outcome <- [j \in Job |-> [i \in ItemsOf(j) |-> Outcome(i)]]
KeepsContract == Contract!Spec

=============================================================================
