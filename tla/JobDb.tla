------------------------------- MODULE JobDb -------------------------------
(***************************************************************************)
(* The crawl tables of SQLiteStore (jobs, job_items, results,              *)
(* result_outbox, job_events) and the statements its methods are made of.  *)
(* Each method of the store runs inside one BEGIN IMMEDIATE transaction,   *)
(* so a method is a function from one database value to the next: the      *)
(* operators below take a database d and return the one that is committed. *)
(*                                                                         *)
(* Time is kept as the two comparisons the code makes with it:             *)
(*   expired  -  lease_expires_at <= now                                   *)
(*   ready    -  available_at <= now                                       *)
(*                                                                         *)
(* A definition whose comment starts with "Bug:" is not part of the model: *)
(* it is a faulty variant of the definition after it, kept to show which   *)
(* property notices the fault.                                             *)
(***************************************************************************)
EXTENDS Integers, Sequences, FiniteSetsExt

CONSTANTS
  Job,          \* job ids
  Size,         \* Size[j]: jobs.total_items
  Priority,     \* Priority[j]: jobs.priority
  Parent,       \* Parent[j]: the item whose result derives job j, or NoItem
  MaxAttempts,  \* MaxAttempts[j]: job_items.max_attempts of the items of j
  Sink,         \* the names result_sinks may hold, "sqlite" left out
  NoItem, NoOwner, AnyJob

ItemsOf(j) == {j} \X (1 .. Size[j])
Item == UNION {ItemsOf(j) : j \in Job}
JobOf(i) == i[1]
SeqOf(i) == i[2]
Followups(i) == {j \in Job : Parent[j] = i}

ASSUME JobAssumption == IsFiniteSet(Job)
ASSUME SizeAssumption == Size \in [Job -> Nat \ {0}]
ASSUME ParentAssumption == Parent \in [Job -> Item \cup {NoItem}]
ASSUME NoItemAssumption == NoItem \notin Item
ASSUME MaxAttemptsAssumption == MaxAttempts \in [Job -> Nat \ {0}]

Final == {"succeeded", "partial", "failed", "cancelled"}
JobStatus ==
  {"pending", "running", "pause_requested", "paused", "cancel_requested"} \cup Final

Settled == {"succeeded", "failed", "cancelled"}
ItemStatus == {"pending", "running"} \cup Settled

\* A row that has not been inserted yet has status "absent".
NoJobRow ==
  [status |-> "absent", sinks |-> {}, created |-> 0,
   succeeded |-> 0, failed |-> 0, cancelled |-> 0, checkpoint |-> 0]
NoItemRow ==
  [status |-> "absent", attempts |-> 0, owner |-> NoOwner, token |-> 0,
   expired |-> FALSE, ready |-> FALSE]
PendingRow == [NoItemRow EXCEPT !.status = "pending", !.ready = TRUE]

(***************************************************************************)
(* result[i] is the lease token under which the results row of item i was  *)
(* written, 0 when there is no row; outbox holds the (item, sink) pairs    *)
(* that have a result_outbox row; announced[j] is the sequence of the      *)
(* job.succeeded, job.partial, job.failed and job.cancelled events of j.   *)
(***************************************************************************)
EmptyDb ==
  [job       |-> [j \in Job |-> NoJobRow],
   item      |-> [i \in Item |-> NoItemRow],
   result    |-> [i \in Item |-> 0],
   outbox    |-> {},
   announced |-> [j \in Job |-> << >>]]

Created(d) == {j \in Job : d.job[j].status # "absent"}
WithStatus(d, j, S) == {i \in ItemsOf(j) : d.item[i].status \in S}
Open(d, j) == WithStatus(d, j, {"pending", "running"})
Running(d, j) == WithStatus(d, j, {"running"})

-----------------------------------------------------------------------------
(* Insertions *)

\* The rows of the jobs in J: create_job for one job, _create_followup_job for
\* each follow-up; a job that exists already (its idempotency key is taken) is
\* left as it is.
Insert(d, J, sinks) ==
  LET new == J \ Created(d)
      born == Cardinality(Created(d)) + 1
  IN  [d EXCEPT
        !.job = [j \in Job |->
          IF j \in new THEN [NoJobRow EXCEPT !.status = "pending", !.sinks = sinks,
                                             !.created = born]
                       ELSE d.job[j]],
        !.item = [i \in Item |-> IF JobOf(i) \in new THEN PendingRow ELSE d.item[i]]]

-----------------------------------------------------------------------------
(* Leases *)

\* Bug: the comparison with now never holds.
NeverExpired(row) == row.status = "running" /\ row.expired /\ ~row.expired
LeaseExpired(row) == row.status = "running" /\ row.expired

Released(row, status, ready) ==
  [row EXCEPT !.status = status, !.owner = NoOwner, !.token = 0,
              !.expired = FALSE, !.ready = ready]

\* _recover_expired
Recover(d) ==
  [d EXCEPT !.item = [i \in Item |->
     IF LeaseExpired(d.item[i]) THEN Released(d.item[i], "pending", TRUE) ELSE d.item[i]]]

\* Bug: the lease token is not compared.
OwnsByName(d, i, owner, token) ==
  d.item[i].status = "running" /\ d.item[i].owner = owner

\* _verify_owner
Owns(d, i, owner, token) ==
  /\ d.item[i].status = "running"
  /\ d.item[i].owner = owner
  /\ d.item[i].token = token

-----------------------------------------------------------------------------
(* Job refresh and control requests *)

\* Bug: the checkpoint counts settled items wherever they are.
SettledCount(d, j) == Cardinality(WithStatus(d, j, Settled))

\* checkpoint_seq: one less than the first open sequence number
Checkpoint(d, j) ==
  IF Open(d, j) = {} THEN Size[j] ELSE Min({SeqOf(i) : i \in Open(d, j)}) - 1

\* Bug: a job asked to cancel ends like any other.
VerdictByItems(d, j) ==
  IF WithStatus(d, j, {"failed", "cancelled"}) = {} THEN "succeeded"
  ELSE IF WithStatus(d, j, {"succeeded"}) # {} THEN "partial" ELSE "failed"

Verdict(d, j) ==
  IF d.job[j].status = "cancel_requested" THEN "cancelled"
  ELSE IF WithStatus(d, j, {"failed", "cancelled"}) = {} THEN "succeeded"
  ELSE IF WithStatus(d, j, {"succeeded"}) # {} THEN "partial"
  ELSE IF WithStatus(d, j, {"cancelled"}) = ItemsOf(j) THEN "cancelled"
  ELSE "failed"

Counted(d, j) ==
  [d.job[j] EXCEPT
     !.succeeded = Cardinality(WithStatus(d, j, {"succeeded"})),
     !.failed = Cardinality(WithStatus(d, j, {"failed"})),
     !.cancelled = Cardinality(WithStatus(d, j, {"cancelled"})),
     !.checkpoint = Checkpoint(d, j)]

\* _refresh_job without force_status
Refresh(d, j) ==
  IF Open(d, j) # {} THEN [d EXCEPT !.job[j] = Counted(d, j)]
  ELSE [d EXCEPT
         !.job[j] = [Counted(d, j) EXCEPT !.status = Verdict(d, j)],
         !.announced[j] = IF Verdict(d, j) = "cancelled" THEN @
                          ELSE Append(@, Verdict(d, j))]

\* The UPDATE of job_items in _reconcile_controls
CancelPending(d) ==
  [d EXCEPT !.item = [i \in Item |->
     IF d.job[JobOf(i)].status = "cancel_requested" /\ d.item[i].status = "pending"
     THEN [d.item[i] EXCEPT !.status = "cancelled"] ELSE d.item[i]]]

\* Bug: a request is settled without a look at the running items.
Requested(d, request) == {j \in Job : d.job[j].status = request}

\* Bug: a request waits for pending items too.
Finished(d, request) == {j \in Job : d.job[j].status = request /\ Open(d, j) = {}}

\* The jobs _reconcile_controls finds with a request and nothing running
Quiet(d, request) == {j \in Job : d.job[j].status = request /\ Running(d, j) = {}}

SettleControls(d) ==
  [d EXCEPT
    !.job = [j \in Job |->
      IF j \in Quiet(d, "pause_requested") THEN [d.job[j] EXCEPT !.status = "paused"]
      ELSE IF j \in Quiet(d, "cancel_requested")
           THEN [Counted(d, j) EXCEPT !.status = "cancelled"]
           ELSE d.job[j]],
    !.announced = [j \in Job |->
      IF j \in Quiet(d, "cancel_requested") THEN Append(d.announced[j], "cancelled")
      ELSE d.announced[j]]]

\* _reconcile_controls
Reconcile(d) == SettleControls(CancelPending(d))

-----------------------------------------------------------------------------
(* Claiming *)

\* Bug: the status of the job is not looked at.
AnyPending(d, scope) ==
  {i \in Item : /\ d.item[i].status = "pending"
                /\ d.item[i].ready
                /\ scope \in {AnyJob, JobOf(i)}}

Claimable(d, scope) ==
  {i \in Item :
     /\ d.item[i].status = "pending"
     /\ d.item[i].ready
     /\ d.job[JobOf(i)].status \in {"pending", "running"}
     /\ scope \in {AnyJob, JobOf(i)}}

\* ORDER BY priority DESC, created_at, seq
Before(d, i, k) ==
  LET a == JobOf(i)  b == JobOf(k)
  IN  \/ Priority[a] > Priority[b]
      \/ /\ Priority[a] = Priority[b]
         /\ \/ d.job[a].created < d.job[b].created
            \/ d.job[a].created = d.job[b].created /\ SeqOf(i) < SeqOf(k)

First(d, scope) ==
  {i \in Claimable(d, scope) : \A k \in Claimable(d, scope) : ~Before(d, k, i)}

\* Bug: every claim writes the same token.
SameToken(d, i) == 1

\* lease_token is a fresh uuid: the ordinal of the claim is fresh for the item
FreshToken(d, i) == d.item[i].attempts + 1

Leased(row, owner, token) ==
  [row EXCEPT !.status = "running", !.attempts = @ + 1, !.owner = owner,
              !.token = token, !.expired = FALSE]

\* The two UPDATEs of claim_next
Lease(d, i, owner) ==
  [d EXCEPT
    !.item[i] = Leased(@, owner, FreshToken(d, i)),
    !.job[JobOf(i)].status = IF @ = "pending" THEN "running" ELSE @]

-----------------------------------------------------------------------------
(* Settling an item, for the owner of its lease *)

Queued(d, i) == {i} \X d.job[JobOf(i)].sinks

\* Bug: derived jobs do not inherit result_sinks.
DeriveBare(d, i, J) == Insert(d, J, {})

\* _create_followup_job for each follow-up in J of the result of item i
Derive(d, i, J) == Insert(d, J, d.job[JobOf(i)].sinks)

\* complete_item, its result deriving the follow-up jobs J
Complete(d, i, token, J) ==
  LET stored == [d EXCEPT !.result[i] = IF @ = 0 THEN token ELSE @,
                          !.outbox = @ \cup Queued(d, i)]
      done == [Derive(stored, i, J) EXCEPT !.item[i] = Released(@, "succeeded", FALSE)]
  IN  Reconcile(Refresh(done, JobOf(i)))

MayRetry(row, j, retryable) == retryable /\ row.attempts < MaxAttempts[j]

\* fail_item
Fail(d, i, retryable) ==
  LET status == IF MayRetry(d.item[i], JobOf(i), retryable) THEN "pending" ELSE "failed"
      failed == [d EXCEPT !.item[i] = Released(@, status, FALSE)]
  IN  Reconcile(Refresh(failed, JobOf(i)))

-----------------------------------------------------------------------------
(* Control requests *)

\* request_pause
RequestPause(d, j) ==
  IF d.job[j].status \in {"pending", "running"}
  THEN Reconcile([d EXCEPT !.job[j].status = "pause_requested"]) ELSE d

\* Bug: resume does not look for running items.
ResumeToPending(d, j) ==
  IF d.job[j].status \in {"paused", "pause_requested"}
  THEN [d EXCEPT !.job[j].status = "pending"] ELSE d

\* resume
ResumeJob(d, j) ==
  IF d.job[j].status \in {"paused", "pause_requested"}
  THEN [d EXCEPT !.job[j].status = IF Running(d, j) # {} THEN "running" ELSE "pending"]
  ELSE d

\* request_cancel
RequestCancel(d, j) ==
  IF d.job[j].status \in Final THEN d
  ELSE Reconcile([d EXCEPT !.job[j].status = "cancel_requested"])
=============================================================================
