------------------------------ MODULE Delivery ------------------------------
(***************************************************************************)
(* Delivery of stored results to secondary sinks: the result_outbox rows   *)
(* of SQLiteStore, the slots of DeliveryWorker, and the three sinks they   *)
(* publish to.  A sink changes something outside the database before the   *)
(* database hears of it, so every step between the claim of a row and its  *)
(* receipt is an action of its own, at which a publish may raise, a        *)
(* process may die and a lease may run out.                                *)
(*                                                                         *)
(*   jsonl         appends a record to a file, then writes a receipt file  *)
(*   legacy_redis  one Lua script: marker, and rows, or nothing            *)
(*   legacy_mysql  one INSERT IGNORE transaction per table                 *)
(*                                                                         *)
(* A definition whose comment starts with "Bug:" is not part of the model: *)
(* it is a faulty variant of the definition after it, kept to show which   *)
(* property notices the fault.                                             *)
(***************************************************************************)
EXTENDS Integers, Sequences, FiniteSets, Functions

CONSTANTS
  Delivery,     \* ids of outbox rows
  ResultOf,     \* ResultOf[d]: the result row d delivers
  SinkOf,       \* SinkOf[d]: the sink_name of row d
  MaxAttempts,  \* Settings.delivery_max_attempts, stored with every row
  Holds,        \* Holds[d]: the groups of rows that project_legacy_result makes of the
                \* result of d, in the order in which the MySQL writer inserts them
  Slot,         \* delivery slots, over all worker processes
  Owner,        \* Owner[s]: the lease_owner slot s writes, worker_id:slot
  Scopes,       \* Scopes[s]: the sets of rows slot s asks for (all, or those of a job)
  NoOwner, NoDelivery, Nobody

ASSUME DeliveryAssumption == IsFiniteSet(Delivery) /\ NoDelivery \notin Delivery
ASSUME SinkAssumption == SinkOf \in [Delivery -> {"jsonl", "legacy_redis", "legacy_mysql", "removed"}]
ASSUME BoundAssumption == MaxAttempts \in Nat \ {0}
ASSUME SlotAssumption == Nobody \notin Slot
ASSUME ScopeAssumption == \A s \in Slot : Scopes[s] \subseteq SUBSET Delivery

\* result_rows, dimension_rows, child_task_rows, product_task_rows by market
Group == {"result", "dimension", "child", "product", "product_hw"}
ASSUME HoldsAssumption == Holds \in [Delivery -> Seq(Group)]

VARIABLES
  row,          \* the result_outbox rows
  slot,         \* what each slot is doing
  lock,         \* the slot that holds the lock of the JSONL file, or Nobody
  file,         \* the JSONL file: the pieces of records written to it, in order
  receipt,      \* the deliveries with a receipt file
  pushed,       \* pushed[d][g]: how often the rows of d in group g were pushed to Redis
  marker,       \* the deliveries with a marker key in Redis
  inserted      \* inserted[d]: the groups of d, by position in Holds[d], in their table

sinks == <<lock, file, receipt, pushed, marker, inserted>>
vars == <<row, slot, sinks>>

NoRow == [status |-> "absent", attempts |-> 0, owner |-> NoOwner, token |-> 0,
          expired |-> FALSE, ready |-> FALSE, created |-> 0]
Idle == [phase |-> "idle", delivery |-> NoDelivery, token |-> 0, table |-> 0]
Down == [Idle EXCEPT !.phase = "down"]

\* publish runs between "claimed" and "published"
Publishing == {"claimed", "locked", "written", "receipted"}
Busy(s) == slot[s].phase \in Publishing \cup {"published", "failing"}
At(s, phase) == slot[s].phase = phase
For(s, name) == SinkOf[slot[s].delivery] = name
Move(s, phase) == slot' = [slot EXCEPT ![s].phase = phase]

Init ==
  /\ row = [d \in Delivery |-> NoRow]
  /\ slot = [s \in Slot |-> Idle]
  /\ lock = Nobody
  /\ file = << >>
  /\ receipt = {}
  /\ pushed = [d \in Delivery |-> [g \in Group |-> 0]]
  /\ marker = {}
  /\ inserted = [d \in Delivery |-> {}]

-----------------------------------------------------------------------------
(* The outbox *)

Results == {ResultOf[d] : d \in Delivery}
RowsOf(r) == {d \in Delivery : ResultOf[d] = r}
Queued == {d \in Delivery : row[d].status # "absent"}

Waiting(created) ==
  [NoRow EXCEPT !.status = "pending", !.ready = TRUE, !.created = created]

\* complete_item commits result r and a row for each of its sinks
Enqueue(r) ==
  /\ RowsOf(r) \cap Queued = {}
  /\ row' = [d \in Delivery |->
       IF d \in RowsOf(r) THEN Waiting(Cardinality(Queued) + 1) ELSE row[d]]
  /\ UNCHANGED <<slot, sinks>>

Released(r, status, ready) ==
  [r EXCEPT !.status = status, !.owner = NoOwner, !.token = 0,
            !.expired = FALSE, !.ready = ready]

\* Bug: an expired lease always goes back to the queue.
AlwaysPending(r) == "pending"

\* A row that has had its last attempt is not queued again.
Requeued(r) == IF r.attempts < MaxAttempts THEN "pending" ELSE "dead_letter"

\* Bug: a lease that expired is never taken back.
NothingRecovered(rows) == rows

\* _recover_expired_deliveries
Recover(rows) ==
  [d \in Delivery |->
     IF rows[d].status = "running" /\ rows[d].expired
     THEN Released(rows[d], Requeued(rows[d]), TRUE) ELSE rows[d]]

Claimable(rows, scope) ==
  {d \in scope : rows[d].status = "pending" /\ rows[d].ready /\ rows[d].attempts < MaxAttempts}

\* ORDER BY created_at
Oldest(rows, scope) ==
  {d \in Claimable(rows, scope) :
     \A e \in Claimable(rows, scope) : rows[d].created <= rows[e].created}

\* _verify_delivery_owner
Owns(s) ==
  LET r == row[slot[s].delivery]
  IN  r.status = "running" /\ r.owner = Owner[s] /\ r.token = slot[s].token

-----------------------------------------------------------------------------
(* Slots *)

ClaimNothing(s) ==
  /\ slot[s] = Idle
  /\ \E scope \in Scopes[s] : Oldest(Recover(row), scope) = {}
  /\ row' = Recover(row)
  /\ UNCHANGED <<slot, sinks>>

\* Bug: every claim writes the same token.
SameToken(r) == 1

\* lease_token is a fresh uuid: the ordinal of the claim is fresh for the row
FreshToken(r) == r.attempts + 1

Leased(r, s) ==
  [r EXCEPT !.status = "running", !.attempts = r.attempts + 1, !.owner = Owner[s],
            !.token = FreshToken(r), !.expired = FALSE]

\* claim_delivery
Claim(s) ==
  /\ slot[s] = Idle
  /\ \E rows \in {Recover(row)}, scope \in Scopes[s] : \E d \in Oldest(rows, scope) :
       /\ row' = [rows EXCEPT ![d] = Leased(rows[d], s)]
       /\ slot' = [slot EXCEPT ![s] = [phase |-> "claimed", delivery |-> d,
                                       token |-> FreshToken(rows[d]), table |-> 0]]
  /\ UNCHANGED sinks

Heartbeat(s) ==
  /\ Busy(s)
  /\ Owns(s)
  /\ row' = [row EXCEPT ![slot[s].delivery].expired = FALSE]
  /\ UNCHANGED <<slot, sinks>>

\* complete_delivery
Complete(s) ==
  /\ At(s, "published")
  /\ Owns(s)
  /\ row' = [row EXCEPT ![slot[s].delivery] = Released(@, "delivered", TRUE)]
  /\ slot' = [slot EXCEPT ![s] = Idle]
  /\ UNCHANGED sinks

\* fail_delivery
Fail(s) ==
  /\ At(s, "failing")
  /\ Owns(s)
  /\ row' = [row EXCEPT ![slot[s].delivery] =
               Released(@, Requeued(@), Requeued(@) = "dead_letter")]
  /\ slot' = [slot EXCEPT ![s] = Idle]
  /\ UNCHANGED sinks

\* complete_delivery or fail_delivery raises ConflictError
LeaseLost(s) ==
  /\ slot[s].phase \in {"published", "failing"}
  /\ ~Owns(s)
  /\ slot' = [slot EXCEPT ![s] = Idle]
  /\ UNCHANGED <<row, sinks>>

\* The process dies; the operating system releases its file lock.
Crash(s) ==
  /\ Busy(s)
  /\ slot' = [slot EXCEPT ![s] = Down]
  /\ lock' = IF lock = s THEN Nobody ELSE lock
  /\ UNCHANGED <<row, file, receipt, pushed, marker, inserted>>

\* run_forever starts with recover_expired_delivery_leases
Restart(s) ==
  /\ slot[s] = Down
  /\ row' = Recover(row)
  /\ slot' = [slot EXCEPT ![s] = Idle]
  /\ UNCHANGED sinks

-----------------------------------------------------------------------------
(* Sinks *)

\* Anything publish does may raise, which closes the file it has locked.
Raise(s) ==
  /\ slot[s].phase \in Publishing \cup {"published"}
  /\ Move(s, "failing")
  /\ lock' = IF lock = s THEN Nobody ELSE lock
  /\ UNCHANGED <<row, file, receipt, pushed, marker, inserted>>

Lock(s) ==
  /\ At(s, "claimed") /\ For(s, "jsonl")
  /\ lock = Nobody
  /\ lock' = s
  /\ Move(s, "locked")
  /\ UNCHANGED <<row, file, receipt, pushed, marker, inserted>>

\* A piece of a record: whole, torn after its delivery_id, or cut before it.
Piece(d, how) == [delivery |-> d, how |-> how]

\* Bug: a file without a receipt is not searched.
NeverInFile(d) == FALSE

\* needle in handle.read(): a whole record of d, or a torn piece that shows its id
InFile(d) == \E n \in DOMAIN file : file[n].delivery = d /\ file[n].how # "stub"

\* The record is there already, by its receipt or by its delivery_id in the file.
Deduplicate(s) ==
  LET d == slot[s].delivery IN
  /\ At(s, "locked")
  /\ \/ d \in receipt /\ Move(s, "receipted")
     \/ d \notin receipt /\ InFile(d) /\ Move(s, "written")
  /\ UNCHANGED <<row, sinks>>

\* The record is appended and synced; a full disk or a crash may cut it short.
WriteRecord(s) ==
  LET d == slot[s].delivery IN
  /\ At(s, "locked")
  /\ d \notin receipt
  /\ ~InFile(d)
  /\ \E how \in {"whole", "torn", "stub"} :
       /\ file' = Append(file, Piece(d, how))
       /\ \/ how = "whole" /\ Move(s, "written") /\ lock' = lock
          \/ how # "whole" /\ Move(s, "failing") /\ lock' = Nobody
          \/ how # "whole" /\ slot' = [slot EXCEPT ![s] = Down] /\ lock' = Nobody
  /\ UNCHANGED <<row, receipt, pushed, marker, inserted>>

\* The receipt file exists from its creation, whether or not writing it raises.
WriteReceipt(s) ==
  /\ At(s, "written")
  /\ receipt' = receipt \cup {slot[s].delivery}
  /\ Move(s, "receipted")
  /\ UNCHANGED <<row, lock, file, pushed, marker, inserted>>

Unlock(s) ==
  /\ At(s, "receipted")
  /\ lock' = Nobody
  /\ Move(s, "published")
  /\ UNCHANGED <<row, file, receipt, pushed, marker, inserted>>

\* projection.result_rows or projection.child_task_rows, and the dimension rows:
\* no product tasks, and no child tasks beside result rows
Pushable(d) ==
  Range(Holds[d]) \cap
    ({"result", "dimension"} \cup (IF "result" \in Range(Holds[d]) THEN {} ELSE {"child"}))

\* The script pushes at most once for a delivery; its reply may be lost.
RunScript(s) ==
  LET d == slot[s].delivery IN
  /\ At(s, "claimed") /\ For(s, "legacy_redis")
  /\ pushed' = IF d \in marker THEN pushed
               ELSE [pushed EXCEPT ![d] = [g \in Group |->
                       IF g \in Pushable(d) THEN @[g] + 1 ELSE @[g]]]
  /\ marker' = marker \cup {d}
  /\ Move(s, "published") \/ Move(s, "failing")
  /\ UNCHANGED <<row, lock, file, receipt, inserted>>

\* Bug: the writer stops one table early.
OneTableShort(s) == slot[s].table + 1 >= Len(Holds[slot[s].delivery]) - 1

LastTable(s) == slot[s].table + 1 >= Len(Holds[slot[s].delivery])

\* INSERT IGNORE of the next group into its table, one transaction
InsertRows(s) ==
  LET d == slot[s].delivery  next == slot[s].table + 1 IN
  /\ At(s, "claimed") /\ For(s, "legacy_mysql")
  /\ inserted' = [inserted EXCEPT ![d] = @ \cup ({next} \cap DOMAIN Holds[d])]
  /\ slot' = [slot EXCEPT ![s].table = next,
                          ![s].phase = IF LastTable(s) THEN "published" ELSE "claimed"]
  /\ UNCHANGED <<row, lock, file, receipt, pushed, marker>>

-----------------------------------------------------------------------------
(* Time *)

LeaseTimesOut(d) ==
  /\ row[d].status = "running"
  /\ ~row[d].expired
  /\ row' = [row EXCEPT ![d].expired = TRUE]
  /\ UNCHANGED <<slot, sinks>>

BackoffElapses(d) ==
  /\ row[d].status = "pending"
  /\ ~row[d].ready
  /\ row' = [row EXCEPT ![d].ready = TRUE]
  /\ UNCHANGED <<slot, sinks>>

-----------------------------------------------------------------------------

Publish(s) ==
  \/ Lock(s) \/ Deduplicate(s) \/ WriteRecord(s) \/ WriteReceipt(s) \/ Unlock(s)
  \/ RunScript(s) \/ InsertRows(s)
Report(s) == Complete(s) \/ Fail(s) \/ LeaseLost(s)
Work(s) ==
  \/ ClaimNothing(s) \/ Claim(s) \/ Heartbeat(s) \/ Publish(s) \/ Raise(s)
  \/ Report(s) \/ Crash(s) \/ Restart(s)
Time(d) == LeaseTimesOut(d) \/ BackoffElapses(d)

Next ==
  \/ \E r \in Results : Enqueue(r)
  \/ \E s \in Slot : Work(s)
  \/ \E d \in Delivery : Time(d)

Spec == Init /\ [][Next]_vars

(***************************************************************************)
(* Slots poll and carry on with what they claimed, a supervisor restarts a *)
(* dead process, and clocks run: a backoff ends and a lease nobody renews  *)
(* runs out.  Nothing is assumed of the sinks: publish may always raise.   *)
(***************************************************************************)
Held(d) == \E s \in Slot : Busy(s) /\ slot[s].delivery = d /\ Owns(s)
Proceed(s) == Publish(s) \/ Raise(s) \/ Report(s)

Fairness ==
  /\ \A s \in Slot : /\ WF_vars(ClaimNothing(s) \/ Claim(s))
                     /\ WF_vars(Proceed(s))
                     /\ WF_vars(Restart(s))
  /\ \A d \in Delivery : /\ WF_vars(BackoffElapses(d))
                         /\ WF_vars(~Held(d) /\ LeaseTimesOut(d))

FairSpec == Spec /\ Fairness

-----------------------------------------------------------------------------
(* Properties *)

\* Every row, slot and sink has values of its type.
Row ==
  [status : {"absent", "pending", "running", "delivered", "dead_letter"},
   attempts : 0 .. MaxAttempts, owner : {Owner[s] : s \in Slot} \cup {NoOwner}, token : Nat,
   expired : BOOLEAN, ready : BOOLEAN, created : Nat]
SlotRow ==
  [phase : Publishing \cup {"idle", "down", "published", "failing"},
   delivery : Delivery \cup {NoDelivery}, token : Nat, table : Nat]
TypeOK ==
  /\ row \in [Delivery -> Row]
  /\ slot \in [Slot -> SlotRow]
  /\ lock \in Slot \cup {Nobody}
  /\ file \in Seq([delivery : Delivery, how : {"whole", "torn", "stub"}])
  /\ receipt \subseteq Delivery
  /\ pushed \in [Delivery -> [Group -> Nat]]
  /\ marker \subseteq Delivery
  /\ inserted \in [Delivery -> SUBSET Nat]
  /\ \A d \in Delivery : inserted[d] \subseteq DOMAIN Holds[d]

\* A row waits for a claim only while it may still be claimed, and is given up
\* exactly when its attempts are used up (fail_delivery and the recovery of an
\* expired lease agree with the condition of claim_delivery): no row is stuck.
NoRowStuck ==
  \A d \in Delivery :
    /\ row[d].status = "pending" => row[d].attempts < MaxAttempts
    /\ row[d].status = "dead_letter" => row[d].attempts = MaxAttempts
    /\ row[d].status = "running" => row[d].attempts \in 1 .. MaxAttempts

\* Whatever is retried, however many slots work on a delivery whose lease they lost,
\* and wherever a process dies, a JSONL file has at most one whole record of a
\* delivery and the Redis lists have each of its rows at most once.
PublishedOnce ==
  \A d \in Delivery :
    /\ Cardinality({n \in DOMAIN file : file[n] = Piece(d, "whole")}) <= 1
    /\ \A g \in Group : pushed[d][g] <= 1

\* A row is delivered only after its sink took what that sink takes of it, once: the
\* file has one piece that shows the delivery_id, its record or what is left of an
\* append cut short (torn_record shows what becomes of those), and a receipt; the
\* Redis lists have the result rows and the dimensions, and the child tasks when
\* there are no result rows (the script leaves out all other task rows); the tables
\* have every group of the projection.
Shown(d) == {n \in DOMAIN file : file[n].delivery = d /\ file[n].how # "stub"}
LeftOut(d) ==
  {"product", "product_hw"} \cup (IF "result" \in Range(Holds[d]) THEN {"child"} ELSE {})
DeliveredIsPublished ==
  \A d \in Delivery : row[d].status = "delivered" =>
    \/ SinkOf[d] = "jsonl" /\ d \in receipt /\ Cardinality(Shown(d)) = 1
    \/ /\ SinkOf[d] = "legacy_redis"
       /\ \A g \in Range(Holds[d]) \ LeftOut(d) : pushed[d][g] = 1
    \/ SinkOf[d] = "legacy_mysql" /\ inserted[d] = DOMAIN Holds[d]

\* A late slot never changes a row that another claim, or nobody, holds: two slots
\* that may report on one row do not exist.
OneHolder ==
  \A s, t \in Slot :
    Busy(s) /\ Busy(t) /\ slot[s].delivery = slot[t].delivery /\ Owns(s) /\ Owns(t) => s = t

\* Every queued delivery ends, delivered or as a dead letter.
DeliveriesEnd ==
  \A d \in Delivery :
    row[d].status \in {"pending", "running"} ~> row[d].status \in {"delivered", "dead_letter"}

\* README.md: a result selected for several sinks is delivered to them reliably; the
\* JSONL sink appends one line per delivery.
Readable(n) == file[n].how = "whole" /\ (n > 1 => file[n - 1].how = "whole")
DeliveredIsReadable ==
  \A d \in Delivery : row[d].status = "delivered" /\ SinkOf[d] = "jsonl" =>
    \E n \in DOMAIN file : file[n].delivery = d /\ Readable(n)
=============================================================================
