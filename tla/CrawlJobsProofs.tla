-------------------------- MODULE CrawlJobsProofs --------------------------
(***************************************************************************)
(* Theorems about CrawlJobs for every set of jobs, items, slots and sinks: *)
(* items and their counts, leases, then what a job says of its items, the  *)
(* contract the store keeps (JobContract) and the order of claims.         *)
(***************************************************************************)
EXTENDS CrawlJobs, FiniteSetTheorems, TLAPS

-----------------------------------------------------------------------------
(* Items, counts and checkpoints *)

LEMMA ItemFacts ==
  ASSUME NEW i \in Item
  PROVE  /\ JobOf(i) \in Job
         /\ SeqOf(i) \in 1 .. Size[JobOf(i)]
         /\ i = <<JobOf(i), SeqOf(i)>>
         /\ i \in ItemsOf(JobOf(i))
  BY DEF Item, ItemsOf, JobOf, SeqOf

LEMMA ItemsOfFacts ==
  ASSUME NEW j \in Job
  PROVE  /\ ItemsOf(j) \subseteq Item
         /\ \A i \in ItemsOf(j) : JobOf(i) = j
         /\ IsFiniteSet(ItemsOf(j))
         /\ <<j, 1>> \in ItemsOf(j)
  <1>1. Size[j] \in Nat \ {0}
    BY SizeAssumption
  <1>2. IsFiniteSet(1 .. Size[j]) /\ IsFiniteSet({j})
    <2>1. IsFiniteSet(1 .. Size[j])
      <3>1. Size[j] \in Int /\ 1 \in Int
        BY <1>1
      <3> QED
        BY <3>1, FS_Interval
    <2>2. IsFiniteSet({j})
      BY FS_Singleton
    <2> QED
      BY <2>1, <2>2
  <1>3. IsFiniteSet(ItemsOf(j))
    BY <1>2, FS_Product DEF ItemsOf
  <1> QED
    BY <1>1, <1>3 DEF Item, ItemsOf, JobOf

\* The least element of a set S of numbers up to n: T is the set of numbers below S,
\* and counting T shows that it is an initial segment of the naturals.
LEMMA NatMin ==
  ASSUME NEW n \in Nat, NEW S \in SUBSET (1 .. n), S # {}
  PROVE  Min(S) \in S /\ \A x \in S : Min(S) <= x
  <1> DEFINE T == {k \in 0 .. n : \A x \in S : k < x}
             c == Cardinality(T)
  <1>1. IsFiniteSet(0 .. n) /\ T \in SUBSET (0 .. n)
    BY FS_Interval
  <1>2. IsFiniteSet(T) /\ c \in Nat
    BY <1>1, FS_Subset, FS_CardinalityType
  <1>3. ASSUME NEW k \in T PROVE k + 1 <= c
    <2>1. (0 .. k) \in SUBSET T
      OBVIOUS
    <2>2. Cardinality(0 .. k) = k + 1
      BY FS_Interval
    <2> QED
      BY <1>2, <2>1, <2>2, FS_Subset
  <1>4. ASSUME NEW k \in 0 .. n, k \notin T PROVE c <= k
    <2>1. PICK x \in S : x <= k
      BY <1>4
    <2>2. T \in SUBSET (0 .. k - 1)
      BY <2>1
    <2>3. IsFiniteSet(0 .. k - 1) /\ Cardinality(0 .. k - 1) = k
      <3>1. k - 1 \in Int /\ 0 \in Int /\ k >= 1
        BY <2>1
      <3> QED
        BY <3>1, FS_Interval
    <2> QED
      BY <2>2, <2>3, FS_Subset
  <1>5. 0 \in T /\ n \notin T
    <2>1. PICK x \in S : TRUE
      OBVIOUS
    <2>2. x \in 1 .. n /\ ~(n < x)
      OBVIOUS
    <2> QED
      BY <2>2
  <1>6. c \in 1 .. n
    BY <1>2, <1>3, <1>4, <1>5
  <1>7. c \notin T /\ c - 1 \in T
    <2>1. c \notin T
      BY <1>2, <1>3
    <2>2. c - 1 \in 0 .. n
      BY <1>6
    <2>3. c - 1 \in T
      BY <1>2, <1>4, <2>2
    <2> QED
      BY <2>1, <2>3
  <1>8. c \in S /\ \A x \in S : c <= x
    BY <1>6, <1>7
  <1> HIDE DEF c, T
  <1> QED
    BY <1>8 DEF Min

LEMMA CountType ==
  ASSUME NEW d, NEW j \in Job, NEW S
  PROVE  Cardinality(WithStatus(d, j, S)) \in Nat
  <1>1. WithStatus(d, j, S) \in SUBSET ItemsOf(j)
    BY DEF WithStatus
  <1> QED
    BY <1>1, ItemsOfFacts, FS_Subset, FS_CardinalityType

LEMMA CheckpointFacts ==
  ASSUME NEW d, NEW j \in Job
  PROVE  /\ Checkpoint(d, j) \in 0 .. Size[j]
         /\ \A i \in Open(d, j) : Checkpoint(d, j) < SeqOf(i)
         /\ Open(d, j) # {} => \E i \in Open(d, j) : SeqOf(i) = Checkpoint(d, j) + 1
  <1> DEFINE S == {SeqOf(i) : i \in Open(d, j)}
  <1>1. Size[j] \in Nat \ {0}
    BY SizeAssumption
  <1>2. S \subseteq 1 .. Size[j]
    BY DEF Open, WithStatus, ItemsOf, SeqOf
  <1>3. CASE Open(d, j) = {}
    BY <1>1, <1>3 DEF Checkpoint
  <1>4. CASE Open(d, j) # {}
    <2>1. S # {}
      BY <1>4
    <2>2. Min(S) \in S /\ \A x \in S : Min(S) <= x
      <3> HIDE DEF S
      <3> QED
        BY <1>1, <1>2, <2>1, NatMin
    <2>3. Checkpoint(d, j) = Min(S) - 1
      BY <1>4 DEF Checkpoint
    <2>4. PICK i \in Open(d, j) : SeqOf(i) = Min(S)
      BY <2>2
    <2>5. \A k \in Open(d, j) : Min(S) <= SeqOf(k)
      BY <2>2
    <2>6. \A k \in Open(d, j) : SeqOf(k) \in 1 .. Size[j]
      BY <1>2
    <2> HIDE DEF S
    <2>7. Checkpoint(d, j) \in 0 .. Size[j] /\ SeqOf(i) = Checkpoint(d, j) + 1
      BY <1>1, <2>3, <2>4, <2>6
    <2>8. \A k \in Open(d, j) : Checkpoint(d, j) < SeqOf(k)
      BY <2>3, <2>4, <2>5, <2>6
    <2> QED
      BY <2>7, <2>8
  <1> QED
    BY <1>3, <1>4

-----------------------------------------------------------------------------
(* The transactions of JobDb preserve the types *)

LEMMA InsertType ==
  ASSUME NEW d \in DbType, NEW J, NEW sinks \in SUBSET Sink
  PROVE  Insert(d, J, sinks) \in DbType
  <1>1. Cardinality(Created(d)) + 1 \in Nat
    <2>1. Created(d) \in SUBSET Job
      BY DEF Created
    <2> QED
      BY <2>1, JobAssumption, FS_Subset, FS_CardinalityType
  <1>2. \A n \in Nat : [NoJobRow EXCEPT !.status = "pending", !.sinks = sinks,
                                       !.created = n] \in JobRow
    BY DEF NoJobRow, JobRow, JobStatus
  <1>3. PendingRow \in ItemRow
    BY DEF PendingRow, NoItemRow, ItemRow, ItemStatus
  <1> QED
    BY <1>1, <1>2, <1>3 DEF Insert, DbType

LEMMA RecoverType ==
  ASSUME NEW d \in DbType
  PROVE  Recover(d) \in DbType
  <1>1. ASSUME NEW r \in ItemRow PROVE Released(r, "pending", TRUE) \in ItemRow
    BY DEF Released, ItemRow, ItemStatus
  <1> QED
    BY <1>1 DEF Recover, DbType

LEMMA CountedType ==
  ASSUME NEW d \in DbType, NEW j \in Job
  PROVE  Counted(d, j) \in JobRow
  <1>1. Checkpoint(d, j) \in Nat
    BY CheckpointFacts, SizeAssumption
  <1>2. d.job[j] \in JobRow
    BY DEF DbType
  <1> QED
    BY <1>1, <1>2, CountType DEF Counted, JobRow

LEMMA RefreshType ==
  ASSUME NEW d \in DbType, NEW j \in Job
  PROVE  Refresh(d, j) \in DbType
  <1>1. Verdict(d, j) \in Final
    BY DEF Verdict, Final
  <1>2. [Counted(d, j) EXCEPT !.status = Verdict(d, j)] \in JobRow
    BY <1>1, CountedType DEF JobRow, JobStatus
  <1>3. Append(d.announced[j], Verdict(d, j)) \in Seq(Final)
    BY <1>1 DEF DbType
  <1> QED
    BY <1>2, <1>3, CountedType DEF Refresh, DbType

LEMMA CancelPendingType ==
  ASSUME NEW d \in DbType
  PROVE  CancelPending(d) \in DbType
  <1>1. ASSUME NEW r \in ItemRow PROVE [r EXCEPT !.status = "cancelled"] \in ItemRow
    BY DEF ItemRow, ItemStatus, Settled
  <1> QED
    BY <1>1 DEF CancelPending, DbType

LEMMA SettleControlsType ==
  ASSUME NEW d \in DbType
  PROVE  SettleControls(d) \in DbType
  <1>1. ASSUME NEW r \in JobRow, NEW s \in {"paused", "cancelled"}
        PROVE  [r EXCEPT !.status = s] \in JobRow
    BY DEF JobRow, JobStatus, Final
  <1>2. \A j \in Job : Append(d.announced[j], "cancelled") \in Seq(Final)
    BY DEF DbType, Final
  <1>3. \A j \in Job : /\ [d.job[j] EXCEPT !.status = "paused"] \in JobRow
                       /\ [Counted(d, j) EXCEPT !.status = "cancelled"] \in JobRow
    BY <1>1, CountedType DEF DbType
  <1> QED
    BY <1>2, <1>3 DEF SettleControls, DbType

LEMMA ReconcileType ==
  ASSUME NEW d \in DbType
  PROVE  Reconcile(d) \in DbType
  BY CancelPendingType, SettleControlsType DEF Reconcile

LEMMA StatusType ==
  ASSUME NEW d \in DbType, NEW j \in Job, NEW s \in JobStatus
  PROVE  [d EXCEPT !.job[j].status = s] \in DbType
  <1>1. d.job \in [Job -> JobRow]
    BY DEF DbType
  <1>2. [d.job EXCEPT ![j].status = s] \in [Job -> JobRow]
    BY <1>1 DEF JobRow
  <1>3. [d EXCEPT !.job[j].status = s] = [d EXCEPT !.job = [d.job EXCEPT ![j].status = s]]
    BY DEF DbType
  <1> QED
    BY <1>2, <1>3 DEF DbType

LEMMA LeaseType ==
  ASSUME NEW d \in DbType, NEW i \in Item, NEW s \in Slot
  PROVE  Lease(d, i, Owner[s]) \in DbType
  <1> DEFINE status == IF d.job[JobOf(i)].status = "pending" THEN "running"
                       ELSE d.job[JobOf(i)].status
             leased == [d EXCEPT !.item[i] = Leased(@, Owner[s], FreshToken(d, i))]
  <1>1. d.item[i] \in ItemRow /\ d.job[JobOf(i)] \in JobRow /\ JobOf(i) \in Job
    BY ItemFacts DEF DbType
  <1>2. FreshToken(d, i) \in Nat
    BY <1>1 DEF FreshToken, ItemRow
  <1>3. ASSUME NEW r \in ItemRow, NEW t \in Nat PROVE Leased(r, Owner[s], t) \in ItemRow
    <2>1. Owner[s] \in Owners
      BY DEF Owners
    <2>2. r.attempts + 1 \in Nat /\ r.ready \in BOOLEAN
      BY DEF ItemRow
    <2>3. ASSUME NEW n \in Nat, NEW o \in Owners
          PROVE  [r EXCEPT !.status = "running", !.attempts = n, !.owner = o,
                           !.token = t, !.expired = FALSE] \in ItemRow
      BY DEF ItemRow, ItemStatus
    <2> QED
      BY <2>1, <2>2, <2>3 DEF Leased
  <1>4. leased \in DbType
    BY <1>1, <1>2, <1>3 DEF DbType
  <1>5. [leased.job EXCEPT ![JobOf(i)].status = status] \in [Job -> JobRow]
    BY <1>1, <1>4 DEF DbType, JobRow, JobStatus
  <1>6. Lease(d, i, Owner[s]) =
          [leased EXCEPT !.job = [leased.job EXCEPT ![JobOf(i)].status = status]]
    BY <1>1 DEF Lease, DbType
  <1> HIDE DEF leased, status
  <1> QED
    BY <1>4, <1>5, <1>6 DEF DbType

LEMMA CompleteType ==
  ASSUME NEW d \in DbType, NEW i \in Item, NEW t \in Nat, NEW J
  PROVE  Complete(d, i, t, J) \in DbType
  <1> DEFINE stored == [d EXCEPT !.result[i] = IF @ = 0 THEN t ELSE @,
                                 !.outbox = @ \cup Queued(d, i)]
             derived == Derive(stored, i, J)
             done == [derived EXCEPT !.item[i] = Released(@, "succeeded", FALSE)]
  <1>1. JobOf(i) \in Job /\ d.job[JobOf(i)].sinks \in SUBSET Sink
    BY ItemFacts DEF DbType, JobRow
  <1>2. Queued(d, i) \subseteq Item \X Sink
    BY <1>1 DEF Queued
  <1>3. stored \in DbType /\ stored.job = d.job
    BY <1>2 DEF DbType
  <1>4. derived \in DbType
    <2> HIDE DEF stored
    <2> QED
      BY <1>1, <1>3, InsertType DEF Derive
  <1>5. ASSUME NEW r \in ItemRow PROVE Released(r, "succeeded", FALSE) \in ItemRow
    BY DEF Released, ItemRow, ItemStatus, Settled
  <1>6. done \in DbType
    <2> HIDE DEF derived
    <2> QED
      BY <1>4, <1>5 DEF DbType
  <1>7. Complete(d, i, t, J) = Reconcile(Refresh(done, JobOf(i)))
    BY DEF Complete
  <1> HIDE DEF done
  <1> QED
    BY <1>1, <1>6, <1>7, RefreshType, ReconcileType

LEMMA FailType ==
  ASSUME NEW d \in DbType, NEW i \in Item, NEW r \in BOOLEAN
  PROVE  Fail(d, i, r) \in DbType
  <1> DEFINE status == IF MayRetry(d.item[i], JobOf(i), r) THEN "pending" ELSE "failed"
             failed == [d EXCEPT !.item[i] = Released(@, status, FALSE)]
  <1>1. JobOf(i) \in Job
    BY ItemFacts
  <1>2. ASSUME NEW row \in ItemRow PROVE Released(row, status, FALSE) \in ItemRow
    BY DEF Released, ItemRow, ItemStatus, Settled
  <1>3. failed \in DbType
    <2> HIDE DEF status
    <2> QED
      BY <1>2 DEF DbType
  <1>4. Fail(d, i, r) = Reconcile(Refresh(failed, JobOf(i)))
    BY DEF Fail
  <1> HIDE DEF failed
  <1> QED
    BY <1>1, <1>3, <1>4, RefreshType, ReconcileType

LEMMA ControlTypes ==
  ASSUME NEW d \in DbType, NEW j \in Job
  PROVE  /\ RequestPause(d, j) \in DbType
         /\ ResumeJob(d, j) \in DbType
         /\ RequestCancel(d, j) \in DbType
  <1>1. {"pause_requested", "running", "pending", "cancel_requested"} \subseteq JobStatus
    BY DEF JobStatus
  <1>2. RequestPause(d, j) \in DbType /\ RequestCancel(d, j) \in DbType
    BY <1>1, StatusType, ReconcileType DEF RequestPause, RequestCancel
  <1>3. ResumeJob(d, j) \in DbType
    BY <1>1, StatusType DEF ResumeJob
  <1> QED
    BY <1>2, <1>3

-----------------------------------------------------------------------------
(* Type correctness *)

SlotRow ==
  [phase : {"idle", "executing", "failing", "down"}, item : Item \cup {NoItem}, token : Nat]

\* TypeOK is inductive together with: a busy slot holds an item.
TypeInv ==
  /\ TypeOK
  /\ \A s \in Slot : Busy(s) => slot[s].item \in Item

LEMMA InitType == Init => TypeInv
  <1> SUFFICES ASSUME Init PROVE TypeInv
    OBVIOUS
  <1>1. NoJobRow \in JobRow
    BY DEF NoJobRow, JobRow
  <1>2. NoItemRow \in ItemRow
    BY DEF NoItemRow, ItemRow
  <1>3. db \in DbType
    BY <1>1, <1>2 DEF Init, EmptyDb, DbType
  <1>4. slot \in [Slot -> SlotRow] /\ \A s \in Slot : ~Busy(s)
    BY DEF Init, Idle, Busy, SlotRow
  <1> QED
    BY <1>3, <1>4 DEF TypeInv, TypeOK, SlotRow

LEMMA BeforeClaimType ==
  ASSUME TypeInv
  PROVE  BeforeClaim \in DbType
  BY RecoverType, ReconcileType DEF TypeInv, TypeOK, BeforeClaim

LEMMA ExpiryType ==
  ASSUME NEW d \in DbType, NEW i \in Item, NEW b \in BOOLEAN
  PROVE  /\ [d EXCEPT !.item[i].expired = b] \in DbType
         /\ [d EXCEPT !.item[i].ready = b] \in DbType
  <1>1. d.item \in [Item -> ItemRow]
    BY DEF DbType
  <1>2. /\ [d.item EXCEPT ![i].expired = b] \in [Item -> ItemRow]
        /\ [d.item EXCEPT ![i].ready = b] \in [Item -> ItemRow]
    BY <1>1 DEF ItemRow
  <1>3. /\ [d EXCEPT !.item[i].expired = b] = [d EXCEPT !.item = [d.item EXCEPT ![i].expired = b]]
        /\ [d EXCEPT !.item[i].ready = b] = [d EXCEPT !.item = [d.item EXCEPT ![i].ready = b]]
    BY DEF DbType
  <1> QED
    BY <1>2, <1>3 DEF DbType

\* Whatever a slot does, its own row is replaced by one of these.
LEMMA SlotType ==
  ASSUME TypeInv, NEW s \in Slot, NEW r \in SlotRow, db' \in DbType,
         slot' = [slot EXCEPT ![s] = r],
         r.phase \in {"executing", "failing"} => r.item \in Item
  PROVE  TypeInv'
  BY DEF TypeInv, TypeOK, SlotRow, Busy

LEMMA SameSlotType ==
  ASSUME TypeInv, db' \in DbType, UNCHANGED slot
  PROVE  TypeInv'
  BY DEF TypeInv, TypeOK, Busy

\* Slot s takes item i, which the database it reads lets it take.
Claims(s, i) ==
  /\ BeforeClaim.item[i].status = "pending"
  /\ BeforeClaim.job[JobOf(i)].status \in {"pending", "running"}
  /\ db' = Lease(BeforeClaim, i, Owner[s])
  /\ slot' = [slot EXCEPT ![s] = [phase |-> "executing", item |-> i,
                                  token |-> FreshToken(BeforeClaim, i)]]

LEMMA ClaimFacts ==
  ASSUME NEW s \in Slot, ClaimItem(s)
  PROVE  \E i \in Item : Claims(s, i)
  BY DEF ClaimItem, Claims, First, Claimable

LEMMA IdleType == Idle \in SlotRow /\ Down \in SlotRow
  BY DEF Idle, Down, SlotRow

LEMMA NextType == TypeInv /\ [Next]_vars => TypeInv'
  <1> SUFFICES ASSUME TypeInv, [Next]_vars PROVE TypeInv'
    OBVIOUS
  <1> USE DEF Idle
  <1>1. db \in DbType
    BY DEF TypeInv, TypeOK
  <1>2. \A s \in Slot : /\ slot[s] \in SlotRow
                        /\ Busy(s) => slot[s].item \in Item
    BY DEF TypeInv, TypeOK, SlotRow
  <1>3. ASSUME NEW j \in Job, Client(j) PROVE TypeInv'
    <2>1. db' \in DbType /\ UNCHANGED slot
      BY <1>1, <1>3, InsertType, ControlTypes DEF Client, CreateJob, Pause, Resume, Cancel
    <2> QED
      BY <2>1, SameSlotType
  <1>4. ASSUME NEW s \in Slot, Work(s) PROVE TypeInv'
    <2>1. CASE ClaimNothing(s)
      BY <2>1, BeforeClaimType, SameSlotType DEF ClaimNothing
    <2>2. CASE ClaimItem(s)
      <3>1. PICK i \in Item : Claims(s, i)
        BY <2>2, ClaimFacts
      <3>2. i \in Item
        BY <3>1
      <3>3. db' \in DbType
        BY <3>1, BeforeClaimType, LeaseType DEF Claims
      <3>4. FreshToken(BeforeClaim, i) \in Nat
        BY <3>2, BeforeClaimType DEF FreshToken, DbType, ItemRow
      <3>5. [phase |-> "executing", item |-> i, token |-> FreshToken(BeforeClaim, i)] \in SlotRow
        BY <3>2, <3>4 DEF SlotRow
      <3> QED
        BY <3>1, <3>2, <3>3, <3>5, SlotType DEF Claims
    <2>3. CASE Heartbeat(s)
      BY <1>1, <1>2, <2>3, ExpiryType, SameSlotType DEF Heartbeat
    <2>4. CASE CompleteItem(s)
      <3>1. slot[s].item \in Item /\ slot[s].token \in Nat
        BY <1>2, <2>4 DEF CompleteItem, Busy, SlotRow
      <3>2. db' \in DbType
        BY <1>1, <2>4, <3>1, CompleteType DEF CompleteItem
      <3> QED
        BY <2>4, <3>2, IdleType, SlotType DEF CompleteItem
    <2>5. ASSUME NEW r \in BOOLEAN, FailItem(s, r) PROVE TypeInv'
      <3>1. slot[s].item \in Item
        BY <1>2, <2>5 DEF FailItem, Busy
      <3>2. db' \in DbType
        BY <1>1, <2>5, <3>1, FailType DEF FailItem
      <3> QED
        BY <2>5, <3>2, IdleType, SlotType DEF FailItem
    <2>6. CASE FailInternal(s)
      <3>1. slot[s].item \in Item
        BY <1>2, <2>6 DEF FailInternal, Busy
      <3>2. db' \in DbType
        BY <1>1, <2>6, <3>1, FailType DEF FailInternal
      <3> QED
        BY <2>6, <3>2, IdleType, SlotType DEF FailInternal
    <2>7. CASE LeaseLost(s)
      BY <1>1, <2>7, IdleType, SlotType DEF LeaseLost
    <2>8. CASE Raise(s)
      <3>1. [slot[s] EXCEPT !.phase = "failing"] \in SlotRow /\ slot[s].item \in Item
        BY <1>2, <2>8 DEF Raise, SlotRow, Busy
      <3>2. slot' = [slot EXCEPT ![s] = [slot[s] EXCEPT !.phase = "failing"]]
        BY <2>8 DEF Raise
      <3>3. [slot[s] EXCEPT !.phase = "failing"].item = slot[s].item
        BY <1>2 DEF SlotRow
      <3> QED
        BY <1>1, <2>8, <3>1, <3>2, <3>3, SlotType DEF Raise
    <2>9. CASE Crash(s)
      BY <1>1, <2>9, IdleType, SlotType DEF Crash, Down
    <2>10. CASE Restart(s)
      <3>1. db' \in DbType
        BY <1>1, <2>10, RecoverType DEF Restart
      <3> QED
        BY <2>10, <3>1, IdleType, SlotType DEF Restart
    <2> QED
      BY <1>4, <2>1, <2>2, <2>3, <2>4, <2>5, <2>6, <2>7, <2>8, <2>9, <2>10
        DEF Work, Claim, Report
  <1>5. ASSUME NEW i \in Item, Time(i) PROVE TypeInv'
    BY <1>1, <1>5, ExpiryType, SameSlotType DEF Time, LeaseTimesOut, BackoffElapses
  <1>6. CASE UNCHANGED vars
    BY <1>1, <1>6, SameSlotType DEF vars
  <1> QED
    BY <1>3, <1>4, <1>5, <1>6 DEF Next

\* Every row of the database and every slot always has values of its type.
THEOREM TypeCorrect == Spec => []TypeOK
  <1>1. TypeInv => TypeOK
    BY DEF TypeInv
  <1> QED
    BY InitType, NextType, <1>1, PTL DEF Spec

-----------------------------------------------------------------------------
(***************************************************************************)
(* Leases and results.  The token of a claim is the ordinal of the claim,  *)
(* so tokens handed out for an item are told apart, and the only token the *)
(* store accepts is that of its last claim.                                *)
(***************************************************************************)
RowSound(d, i) ==
  LET row == d.item[i] IN
  /\ d.job[JobOf(i)].status = "absent" => row.status = "absent" /\ row.attempts = 0
  /\ row.status = "running" => row.attempts > 0 /\ row.token = row.attempts
  /\ d.result[i] = IF row.status = "succeeded" THEN row.attempts ELSE 0
  /\ {q \in d.outbox : q[1] = i} = IF row.status = "succeeded" THEN Queued(d, i) ELSE {}
RowsSound(d) == \A i \in Item : RowSound(d, i)

\* Each claim a slot holds has a token of its own, no later than the item's last.
TokensDistinct ==
  /\ \A s \in Slot : Busy(s) => slot[s].token \in 1 .. db.item[slot[s].item].attempts
  /\ \A s, t \in Slot :
       /\ Busy(s) /\ Busy(t)
       /\ slot[s].item = slot[t].item /\ slot[s].token = slot[t].token
       => s = t

LeaseInv == TypeInv /\ RowsSound(db) /\ TokensDistinct

\* What every transaction but an insertion, a claim and a completion leaves alone
Preserves(d, e) ==
  /\ e.result = d.result /\ e.outbox = d.outbox
  /\ \A j \in Job : /\ e.job[j].sinks = d.job[j].sinks
                    /\ e.job[j].status = "absent" => d.job[j].status = "absent"
  /\ \A i \in Item : /\ e.item[i].attempts = d.item[i].attempts
                     /\ e.item[i].status = "succeeded" <=> d.item[i].status = "succeeded"
                     /\ e.item[i].status = "running" => /\ d.item[i].status = "running"
                                                        /\ e.item[i].token = d.item[i].token
                     /\ d.item[i].status = "absent" => e.item[i].status = "absent"

SameAttempts(d, e) == \A i \in Item : e.item[i].attempts = d.item[i].attempts

LEMMA PreservesSound ==
  ASSUME NEW d, NEW e, Preserves(d, e), RowsSound(d)
  PROVE  RowsSound(e) /\ SameAttempts(d, e)
  <1>1. ASSUME NEW i \in Item PROVE RowSound(e, i)
    <2>1. JobOf(i) \in Job
      BY ItemFacts
    <2>2. Queued(e, i) = Queued(d, i)
      BY <2>1 DEF Queued, Preserves
    <2> QED
      BY <2>1, <2>2 DEF RowsSound, RowSound, Preserves
  <1> QED
    BY <1>1 DEF RowsSound, SameAttempts, Preserves

LEMMA PreservesTransitive ==
  ASSUME NEW d, NEW e, NEW f, Preserves(d, e), Preserves(e, f)
  PROVE  Preserves(d, f)
  BY DEF Preserves

LEMMA RecoverPreserves ==
  ASSUME NEW d \in DbType
  PROVE  Preserves(d, Recover(d))
  <1>1. ASSUME NEW r \in ItemRow
        PROVE  /\ Released(r, "pending", TRUE).attempts = r.attempts
               /\ Released(r, "pending", TRUE).status = "pending"
    BY DEF Released, ItemRow
  <1> QED
    BY <1>1 DEF Recover, Preserves, DbType, LeaseExpired

LEMMA RefreshPreserves ==
  ASSUME NEW d \in DbType, NEW j \in Job
  PROVE  Preserves(d, Refresh(d, j))
  <1>1. d.job[j] \in JobRow
    BY DEF DbType
  <1>2. /\ Counted(d, j).sinks = d.job[j].sinks
        /\ Counted(d, j).status = d.job[j].status
    BY <1>1 DEF Counted, JobRow
  <1>3. Verdict(d, j) # "absent"
    BY DEF Verdict
  <1>4. /\ [Counted(d, j) EXCEPT !.status = Verdict(d, j)].sinks = d.job[j].sinks
        /\ [Counted(d, j) EXCEPT !.status = Verdict(d, j)].status = Verdict(d, j)
    BY <1>2, CountedType DEF JobRow
  <1> QED
    BY <1>2, <1>3, <1>4 DEF Refresh, Preserves, DbType

LEMMA CancelPendingPreserves ==
  ASSUME NEW d \in DbType
  PROVE  Preserves(d, CancelPending(d))
  <1>1. ASSUME NEW r \in ItemRow
        PROVE  /\ [r EXCEPT !.status = "cancelled"].attempts = r.attempts
               /\ [r EXCEPT !.status = "cancelled"].status = "cancelled"
    BY DEF ItemRow
  <1> QED
    BY <1>1 DEF CancelPending, Preserves, DbType

LEMMA SettleControlsPreserves ==
  ASSUME NEW d \in DbType
  PROVE  Preserves(d, SettleControls(d))
  <1>1. ASSUME NEW j \in Job
        PROVE  /\ [d.job[j] EXCEPT !.status = "paused"].sinks = d.job[j].sinks
               /\ [d.job[j] EXCEPT !.status = "paused"].status = "paused"
               /\ [Counted(d, j) EXCEPT !.status = "cancelled"].sinks = d.job[j].sinks
               /\ [Counted(d, j) EXCEPT !.status = "cancelled"].status = "cancelled"
    <2>1. d.job[j] \in JobRow
      BY DEF DbType
    <2>2. Counted(d, j).sinks = d.job[j].sinks
      BY <2>1 DEF Counted, JobRow
    <2> QED
      BY <2>1, <2>2, CountedType DEF JobRow
  <1>2. SettleControls(d).result = d.result /\ SettleControls(d).outbox = d.outbox
        /\ SettleControls(d).item = d.item
    BY DEF SettleControls, DbType
  <1>3. ASSUME NEW j \in Job
        PROVE  /\ SettleControls(d).job[j].sinks = d.job[j].sinks
               /\ SettleControls(d).job[j].status = "absent" => d.job[j].status = "absent"
    BY <1>1 DEF SettleControls, DbType
  <1> QED
    BY <1>2, <1>3 DEF Preserves

LEMMA ReconcilePreserves ==
  ASSUME NEW d \in DbType
  PROVE  Preserves(d, Reconcile(d))
  BY CancelPendingType, CancelPendingPreserves, SettleControlsPreserves, PreservesTransitive
    DEF Reconcile

LEMMA StatusPreserves ==
  ASSUME NEW d \in DbType, NEW j \in Job, NEW s \in JobStatus
  PROVE  Preserves(d, [d EXCEPT !.job[j].status = s])
  <1>1. s # "absent"
    BY DEF JobStatus, Final
  <1>2. [d EXCEPT !.job[j].status = s] =
          [d EXCEPT !.job = [d.job EXCEPT ![j] = [d.job[j] EXCEPT !.status = s]]]
    BY DEF DbType
  <1>3. /\ [d.job[j] EXCEPT !.status = s].sinks = d.job[j].sinks
        /\ [d.job[j] EXCEPT !.status = s].status = s
    BY DEF DbType, JobRow
  <1> QED
    BY <1>1, <1>2, <1>3 DEF Preserves, DbType

LEMMA ControlsPreserve ==
  ASSUME NEW d \in DbType, NEW j \in Job
  PROVE  /\ Preserves(d, RequestPause(d, j))
         /\ Preserves(d, ResumeJob(d, j))
         /\ Preserves(d, RequestCancel(d, j))
  <1>1. {"pause_requested", "running", "pending", "cancel_requested"} \subseteq JobStatus
    BY DEF JobStatus
  <1>2. Preserves(d, d)
    BY DEF Preserves
  <1>3. \A s \in JobStatus : Preserves(d, Reconcile([d EXCEPT !.job[j].status = s]))
    BY StatusType, StatusPreserves, ReconcilePreserves, PreservesTransitive
  <1>4. Preserves(d, RequestPause(d, j)) /\ Preserves(d, RequestCancel(d, j))
    BY <1>1, <1>2, <1>3 DEF RequestPause, RequestCancel
  <1>5. Preserves(d, ResumeJob(d, j))
    BY <1>1, <1>2, StatusPreserves DEF ResumeJob
  <1> QED
    BY <1>4, <1>5

LEMMA InsertSound ==
  ASSUME NEW d \in DbType, NEW J \in SUBSET Job, NEW sinks, RowsSound(d)
  PROVE  /\ RowsSound(Insert(d, J, sinks))
         /\ SameAttempts(d, Insert(d, J, sinks))
         /\ \A j \in Created(d) : Insert(d, J, sinks).job[j] = d.job[j]
         /\ \A i \in Item : JobOf(i) \in Created(d) => Insert(d, J, sinks).item[i] = d.item[i]
  <1> DEFINE e == Insert(d, J, sinks)
             new == J \ Created(d)
  <1>1. PendingRow.status = "pending" /\ PendingRow.attempts = 0
    BY DEF PendingRow, NoItemRow
  <1>2. /\ e.result = d.result /\ e.outbox = d.outbox
        /\ \A i \in Item : e.item[i] = IF JobOf(i) \in new THEN PendingRow ELSE d.item[i]
        /\ \A j \in Job \ new : e.job[j] = d.job[j]
    BY DEF Insert, DbType
  <1>3. \A j \in new : e.job[j].status = "pending"
    BY DEF Insert, DbType, NoJobRow
  <1>4. \A j \in new : d.job[j].status = "absent"
    BY DEF Created
  <1> HIDE DEF e
  <1>5. ASSUME NEW i \in Item, JobOf(i) \in new
        PROVE  RowSound(e, i) /\ e.item[i].attempts = d.item[i].attempts
    <2>1. d.item[i].status = "absent" /\ d.item[i].attempts = 0
      BY <1>4, <1>5 DEF RowsSound, RowSound
    <2> QED
      BY <1>1, <1>2, <1>3, <1>5, <2>1 DEF RowsSound, RowSound
  <1>6. ASSUME NEW i \in Item, JobOf(i) \notin new
        PROVE  RowSound(e, i) /\ e.item[i].attempts = d.item[i].attempts
    <2>1. e.job[JobOf(i)] = d.job[JobOf(i)] /\ e.item[i] = d.item[i]
      BY <1>2, <1>6, ItemFacts
    <2>2. Queued(e, i) = Queued(d, i)
      BY <2>1 DEF Queued
    <2> QED
      BY <1>2, <2>1, <2>2 DEF RowsSound, RowSound
  <1>7. RowsSound(e) /\ SameAttempts(d, e)
    BY <1>5, <1>6 DEF RowsSound, SameAttempts
  <1>8. \A j \in Created(d) : j \in Job \ new
    BY DEF Created
  <1> QED
    BY <1>2, <1>7, <1>8 DEF e

\* A claim takes the next token of the item, and touches no other item.
LEMMA LeaseSound ==
  ASSUME NEW d \in DbType, NEW i \in Item, NEW o, RowsSound(d),
         d.item[i].status = "pending", d.job[JobOf(i)].status \in {"pending", "running"}
  PROVE  /\ RowsSound(Lease(d, i, o))
         /\ Lease(d, i, o).item[i].attempts = d.item[i].attempts + 1
         /\ \A k \in Item \ {i} : Lease(d, i, o).item[k].attempts = d.item[k].attempts
  <1> DEFINE e == Lease(d, i, o)
             j == JobOf(i)
             status == IF d.job[j].status = "pending" THEN "running" ELSE d.job[j].status
  <1>1. j \in Job /\ d.job[j] \in JobRow /\ d.item[i] \in ItemRow
    BY ItemFacts DEF DbType
  <1>2. /\ e.result = d.result /\ e.outbox = d.outbox
        /\ e.item = [d.item EXCEPT ![i] = Leased(d.item[i], o, FreshToken(d, i))]
        /\ e.job = [d.job EXCEPT ![j] = [d.job[j] EXCEPT !.status = status]]
    BY <1>1 DEF Lease, DbType
  <1>3. /\ [d.job[j] EXCEPT !.status = status].sinks = d.job[j].sinks
        /\ [d.job[j] EXCEPT !.status = status].status # "absent"
    BY <1>1 DEF JobRow
  <1>4. /\ \A k \in Job : e.job[k].sinks = d.job[k].sinks
        /\ \A k \in Job : e.job[k].status = "absent" => d.job[k].status = "absent"
        /\ e.job[j].status # "absent"
    BY <1>1, <1>2, <1>3 DEF DbType
  <1>5. /\ Leased(d.item[i], o, FreshToken(d, i)).status = "running"
        /\ Leased(d.item[i], o, FreshToken(d, i)).attempts = d.item[i].attempts + 1
        /\ Leased(d.item[i], o, FreshToken(d, i)).token = d.item[i].attempts + 1
    BY <1>1 DEF Leased, FreshToken, ItemRow
  <1>6. /\ e.item[i].status = "running"
        /\ e.item[i].attempts = d.item[i].attempts + 1
        /\ e.item[i].token = d.item[i].attempts + 1
        /\ \A k \in Item \ {i} : e.item[k] = d.item[k]
    BY <1>2, <1>5 DEF DbType
  <1>7. d.item[i].attempts \in Nat
    BY <1>1 DEF ItemRow
  <1> HIDE DEF e, status
  <1>8. ASSUME NEW k \in Item PROVE RowSound(e, k)
    <2>1. Queued(e, k) = Queued(d, k)
      BY <1>4, ItemFacts DEF Queued
    <2>2. CASE k = i
      <3>1. d.result[i] = 0 /\ {q \in d.outbox : q[1] = i} = {}
        BY DEF RowsSound, RowSound
      <3> QED
        BY <1>2, <1>4, <1>6, <1>7, <2>2, <3>1 DEF RowSound
    <2>3. CASE k # i
      BY <1>2, <1>4, <1>6, <2>1, <2>3, ItemFacts DEF RowsSound, RowSound
    <2> QED
      BY <2>2, <2>3
  <1> QED
    BY <1>6, <1>8 DEF RowsSound, e

\* Refreshing a job and reconciling controls, as a completion and a failure do last
LEMMA WrapUp ==
  ASSUME NEW d \in DbType, NEW j \in Job, RowsSound(d)
  PROVE  RowsSound(Reconcile(Refresh(d, j))) /\ SameAttempts(d, Reconcile(Refresh(d, j)))
  <1>1. Preserves(d, Reconcile(Refresh(d, j)))
    BY RefreshType, RefreshPreserves, ReconcilePreserves, PreservesTransitive
  <1> QED
    BY <1>1, PreservesSound

LEMMA FailSound ==
  ASSUME NEW d \in DbType, NEW i \in Item, NEW r \in BOOLEAN, RowsSound(d),
         d.item[i].status = "running"
  PROVE  RowsSound(Fail(d, i, r)) /\ SameAttempts(d, Fail(d, i, r))
  <1> DEFINE status == IF MayRetry(d.item[i], JobOf(i), r) THEN "pending" ELSE "failed"
             row == Released(d.item[i], status, FALSE)
             failed == [d EXCEPT !.item[i] = Released(@, status, FALSE)]
  <1>1. JobOf(i) \in Job /\ d.item[i] \in ItemRow
    BY ItemFacts DEF DbType
  <1>2. row \in ItemRow /\ row.status = status /\ row.attempts = d.item[i].attempts
    BY <1>1 DEF Released, ItemRow, ItemStatus, Settled
  <1>3. status \in {"pending", "failed"}
    OBVIOUS
  <1>4. failed = [d EXCEPT !.item = [d.item EXCEPT ![i] = row]]
    BY DEF DbType
  <1>5. Fail(d, i, r) = Reconcile(Refresh(failed, JobOf(i)))
    BY DEF Fail
  <1> HIDE DEF failed, row, status
  <1>6. failed \in DbType
    BY <1>2, <1>4 DEF DbType
  <1>7. Preserves(d, failed)
    BY <1>2, <1>3, <1>4 DEF Preserves, DbType
  <1>8. RowsSound(failed) /\ SameAttempts(d, failed)
    BY <1>7, PreservesSound
  <1> QED
    BY <1>1, <1>5, <1>6, <1>8, WrapUp DEF SameAttempts

\* The owner of the last claim stores the result, its deliveries and the success.
LEMMA CompleteSound ==
  ASSUME NEW d \in DbType, NEW i \in Item, NEW t \in Nat, NEW J \in SUBSET Job, RowsSound(d),
         d.item[i].status = "running", d.item[i].token = t
  PROVE  RowsSound(Complete(d, i, t, J)) /\ SameAttempts(d, Complete(d, i, t, J))
  <1> DEFINE derived == Insert(d, J, d.job[JobOf(i)].sinks)
             row == Released(derived.item[i], "succeeded", FALSE)
             done == [derived EXCEPT !.item = [derived.item EXCEPT ![i] = row],
                                     !.result = [d.result EXCEPT ![i] = t],
                                     !.outbox = d.outbox \cup Queued(d, i)]
  <1>1. JobOf(i) \in Job /\ d.item[i] \in ItemRow
    BY ItemFacts DEF DbType
  <1>2. JobOf(i) \in Created(d) /\ d.result[i] = 0 /\ t = d.item[i].attempts
    BY <1>1 DEF RowsSound, RowSound, Created
  <1>3. {q \in d.outbox : q[1] = i} = {}
    BY DEF RowsSound, RowSound
  <1>4. Complete(d, i, t, J) = Reconcile(Refresh(done, JobOf(i)))
    <2> DEFINE stored == [d EXCEPT !.result[i] = IF @ = 0 THEN t ELSE @,
                                   !.outbox = @ \cup Queued(d, i)]
               derived2 == Derive(stored, i, J)
               done2 == [derived2 EXCEPT !.item[i] = Released(@, "succeeded", FALSE)]
    <2>1. stored = [d EXCEPT !.result = [d.result EXCEPT ![i] = t],
                             !.outbox = d.outbox \cup Queued(d, i)]
      BY <1>2 DEF DbType
    <2>2. stored.job = d.job /\ stored.item = d.item /\ Created(stored) = Created(d)
      BY <2>1 DEF DbType, Created
    <2>3. derived2 = [derived EXCEPT !.result = [d.result EXCEPT ![i] = t],
                                     !.outbox = d.outbox \cup Queued(d, i)]
      <3> HIDE DEF stored
      <3> QED
        BY <2>1, <2>2 DEF Derive, Insert, DbType
    <2>4. derived.item \in [Item -> ItemRow]
      BY InsertType, <1>1 DEF DbType, JobRow
    <2> HIDE DEF derived2
    <2>5. done2 = [derived2 EXCEPT !.item = [derived2.item EXCEPT ![i] =
                                              Released(derived2.item[i], "succeeded", FALSE)]]
      OBVIOUS
    <2>6. derived2.item = derived.item
      BY <2>3 DEF Insert, DbType
    <2>7. done2 = done
      BY <2>3, <2>5, <2>6 DEF Insert, DbType
    <2>8. Complete(d, i, t, J) = Reconcile(Refresh(done2, JobOf(i)))
      BY DEF Complete, derived2
    <2> QED
      BY <2>7, <2>8
  <1>5. d.job[JobOf(i)].sinks \in SUBSET Sink
    BY <1>1 DEF DbType, JobRow
  <1>6. /\ derived \in DbType /\ RowsSound(derived) /\ SameAttempts(d, derived)
        /\ derived.job[JobOf(i)] = d.job[JobOf(i)]
        /\ derived.item[i] = d.item[i]
    BY <1>2, <1>5, InsertType, InsertSound
  <1>7. derived.result = d.result /\ derived.outbox = d.outbox
    BY DEF Insert, DbType
  <1> HIDE DEF derived
  <1>8. row \in ItemRow /\ row.status = "succeeded" /\ row.attempts = t
    BY <1>1, <1>2, <1>6 DEF Released, ItemRow, ItemStatus, Settled
  <1>9. Queued(d, i) \subseteq Item \X Sink /\ \A q \in Queued(d, i) : q[1] = i
    BY <1>5 DEF Queued
  <1> HIDE DEF row
  <1>10. done \in DbType
    BY <1>6, <1>7, <1>8, <1>9 DEF DbType
  <1>11. /\ done.job = derived.job
         /\ done.item[i] = row /\ done.result[i] = t
         /\ done.outbox = d.outbox \cup Queued(d, i)
         /\ \A k \in Item \ {i} : /\ done.item[k] = derived.item[k]
                                  /\ done.result[k] = derived.result[k]
    BY <1>6, <1>7 DEF DbType
  <1> HIDE DEF done
  <1>12. RowSound(done, i)
    <2>1. Queued(done, i) = Queued(d, i)
      BY <1>6, <1>11 DEF Queued
    <2>2. {q \in done.outbox : q[1] = i} = Queued(d, i)
      BY <1>3, <1>9, <1>11
    <2>3. done.job[JobOf(i)].status # "absent"
      BY <1>2, <1>6, <1>11 DEF Created
    <2> QED
      BY <1>8, <1>11, <2>1, <2>2, <2>3 DEF RowSound
  <1>13. ASSUME NEW k \in Item \ {i} PROVE RowSound(done, k)
    <2>1. Queued(done, k) = Queued(derived, k)
      BY <1>11 DEF Queued
    <2>2. {q \in done.outbox : q[1] = k} = {q \in derived.outbox : q[1] = k}
      BY <1>7, <1>9, <1>11
    <2> QED
      BY <1>6, <1>11, <2>1, <2>2 DEF RowsSound, RowSound
  <1>14. RowsSound(done) /\ SameAttempts(d, done)
    BY <1>2, <1>6, <1>8, <1>11, <1>12, <1>13 DEF RowsSound, SameAttempts
  <1> QED
    BY <1>1, <1>4, <1>10, <1>14, WrapUp DEF SameAttempts

LEMMA InitLease == Init => LeaseInv
  <1> SUFFICES ASSUME Init PROVE LeaseInv
    OBVIOUS
  <1>1. ASSUME NEW i \in Item PROVE RowSound(db, i)
    BY ItemFacts DEF Init, EmptyDb, RowSound, NoItemRow, NoJobRow
  <1>2. \A s \in Slot : ~Busy(s)
    BY DEF Init, Idle, Busy
  <1> QED
    BY <1>1, <1>2, InitType DEF LeaseInv, RowsSound, TokensDistinct

\* A step that claims nothing hands out no token.
LEMMA NoClaim ==
  ASSUME LeaseInv, TypeInv', RowsSound(db'), SameAttempts(db, db'),
         \A s \in Slot : Busy(s)' => /\ Busy(s)
                                     /\ slot'[s].item = slot[s].item
                                     /\ slot'[s].token = slot[s].token
  PROVE  LeaseInv'
  <1>1. \A s \in Slot : Busy(s) => slot[s].item \in Item
    BY DEF LeaseInv, TypeInv
  <1>2. TokensDistinct'
    BY <1>1 DEF LeaseInv, TokensDistinct, SameAttempts
  <1>3. RowsSound(db)'
    OBVIOUS
  <1> QED
    BY <1>2, <1>3 DEF LeaseInv

LEMMA BeforeClaimSound ==
  ASSUME TypeInv, RowsSound(db)
  PROVE  BeforeClaim \in DbType /\ RowsSound(BeforeClaim) /\ SameAttempts(db, BeforeClaim)
  <1>1. Preserves(db, BeforeClaim)
    BY RecoverType, RecoverPreserves, ReconcilePreserves, PreservesTransitive
      DEF TypeInv, TypeOK, BeforeClaim
  <1> QED
    BY <1>1, BeforeClaimType, PreservesSound

LEMMA ExpiryPreserves ==
  ASSUME NEW d \in DbType, NEW i \in Item, NEW b \in BOOLEAN
  PROVE  /\ Preserves(d, [d EXCEPT !.item[i].expired = b])
         /\ Preserves(d, [d EXCEPT !.item[i].ready = b])
  <1>1. d.item \in [Item -> ItemRow]
    BY DEF DbType
  <1>2. /\ [d EXCEPT !.item[i].expired = b] =
             [d EXCEPT !.item = [d.item EXCEPT ![i] = [d.item[i] EXCEPT !.expired = b]]]
        /\ [d EXCEPT !.item[i].ready = b] =
             [d EXCEPT !.item = [d.item EXCEPT ![i] = [d.item[i] EXCEPT !.ready = b]]]
    BY DEF DbType
  <1>3. ASSUME NEW r \in ItemRow
        PROVE  /\ [r EXCEPT !.expired = b].status = r.status
               /\ [r EXCEPT !.expired = b].attempts = r.attempts
               /\ [r EXCEPT !.expired = b].token = r.token
               /\ [r EXCEPT !.ready = b].status = r.status
               /\ [r EXCEPT !.ready = b].attempts = r.attempts
               /\ [r EXCEPT !.ready = b].token = r.token
    BY DEF ItemRow
  <1> QED
    BY <1>1, <1>2, <1>3 DEF Preserves, DbType

\* A slot that ends its work keeps no claim; the other slots keep theirs.
LEMMA OthersKeep ==
  ASSUME TypeInv, NEW s \in Slot, NEW r \in SlotRow, slot' = [slot EXCEPT ![s] = r],
         r.phase \in {"executing", "failing"} =>
           Busy(s) /\ r.item = slot[s].item /\ r.token = slot[s].token
  PROVE  \A t \in Slot : Busy(t)' => /\ Busy(t)
                                     /\ slot'[t].item = slot[t].item
                                     /\ slot'[t].token = slot[t].token
  BY DEF TypeInv, TypeOK, Busy

LEMMA NextLease == LeaseInv /\ [Next]_vars => LeaseInv'
  <1> SUFFICES ASSUME LeaseInv, [Next]_vars PROVE LeaseInv'
    OBVIOUS
  <1>1. TypeInv /\ TypeInv' /\ RowsSound(db) /\ db \in DbType
    BY NextType DEF LeaseInv, TypeInv, TypeOK
  <1>2. \A s \in Slot : /\ slot[s] \in SlotRow
                        /\ Busy(s) => slot[s].item \in Item /\ slot[s].token \in Nat
    BY <1>1 DEF TypeInv, TypeOK, SlotRow
  <1>3. ASSUME UNCHANGED slot
        PROVE  \A t \in Slot : Busy(t)' => /\ Busy(t)
                                           /\ slot'[t].item = slot[t].item
                                           /\ slot'[t].token = slot[t].token
    BY <1>3 DEF Busy
  <1>4. ASSUME NEW e, db' = e, Preserves(db, e) PROVE RowsSound(db') /\ SameAttempts(db, db')
    BY <1>1, <1>4, PreservesSound
  <1>5. Preserves(db, db)
    BY DEF Preserves
  <1>6. ASSUME NEW j \in Job, Client(j) PROVE LeaseInv'
    <2>1. UNCHANGED slot
      BY <1>6 DEF Client, CreateJob, Pause, Resume, Cancel
    <2>2. CASE \E sinks \in SUBSET Sink : CreateJob(j, sinks)
      <3>1. RowsSound(db') /\ SameAttempts(db, db')
        BY <1>1, <2>2, InsertSound DEF CreateJob
      <3> QED
        BY <1>1, <1>3, <2>1, <3>1, NoClaim
    <2>3. CASE Pause(j) \/ Resume(j) \/ Cancel(j)
      <3>1. Preserves(db, db')
        BY <1>1, <2>3, ControlsPreserve DEF Pause, Resume, Cancel
      <3> QED
        BY <1>1, <1>3, <1>4, <2>1, <3>1, NoClaim
    <2> QED
      BY <1>6, <2>2, <2>3 DEF Client
  <1>7. ASSUME NEW s \in Slot, Work(s) PROVE LeaseInv'
    <2>1. CASE ClaimNothing(s)
      <3>1. RowsSound(db') /\ SameAttempts(db, db') /\ UNCHANGED slot
        BY <1>1, <2>1, BeforeClaimSound DEF ClaimNothing
      <3> QED
        BY <1>1, <1>3, <3>1, NoClaim
    <2>2. CASE ClaimItem(s)
      <3> DEFINE d == BeforeClaim
      <3>1. PICK i \in Item : Claims(s, i)
        BY <2>2, ClaimFacts
      <3>2. d \in DbType /\ RowsSound(d) /\ SameAttempts(db, d)
        BY <1>1, BeforeClaimSound
      <3>3. /\ RowsSound(db')
            /\ db'.item[i].attempts = db.item[i].attempts + 1
            /\ \A k \in Item \ {i} : db'.item[k].attempts = db.item[k].attempts
        <4> HIDE DEF d
        <4> QED
          BY <3>1, <3>2, LeaseSound DEF Claims, SameAttempts, d
      <3>4. db.item[i].attempts \in Nat
        BY <1>1 DEF DbType, ItemRow
      <3>5. FreshToken(d, i) = db.item[i].attempts + 1
        BY <3>2 DEF FreshToken, SameAttempts
      <3>6. /\ slot'[s].item = i /\ slot'[s].token = db.item[i].attempts + 1
            /\ \A t \in Slot \ {s} : slot'[t] = slot[t]
        BY <1>1, <3>1, <3>5 DEF Claims, TypeInv, TypeOK
      <3>7. \A t \in Slot \ {s} : Busy(t)' => Busy(t)
        BY <3>6 DEF Busy
      <3>8. ASSUME NEW t \in Slot, Busy(t)'
            PROVE  slot'[t].token \in 1 .. db'.item[slot'[t].item].attempts
        <4>1. CASE t = s
          BY <3>3, <3>4, <3>6, <4>1
        <4>2. CASE t # s
          <5>1. /\ slot[t].item \in Item /\ slot[t].token \in Nat
                /\ slot[t].token \in 1 .. db.item[slot[t].item].attempts
                /\ slot'[t] = slot[t]
            BY <1>2, <3>6, <3>7, <3>8, <4>2 DEF LeaseInv, TokensDistinct
          <5>2. CASE slot[t].item = i
            BY <3>3, <3>4, <5>1, <5>2
          <5>3. CASE slot[t].item # i
            BY <3>3, <5>1, <5>3
          <5> QED
            BY <5>2, <5>3
        <4> QED
          BY <4>1, <4>2
      <3>9. ASSUME NEW t \in Slot \ {s}, Busy(t)', slot'[t].item = i
            PROVE  slot'[t].token # slot'[s].token
        <4>1. slot[t].token \in 1 .. db.item[i].attempts /\ slot'[t] = slot[t]
          BY <3>6, <3>7, <3>9 DEF LeaseInv, TokensDistinct
        <4> QED
          BY <3>4, <3>6, <4>1
      <3>10. ASSUME NEW t \in Slot, NEW u \in Slot, Busy(t)', Busy(u)',
                    slot'[t].item = slot'[u].item, slot'[t].token = slot'[u].token
             PROVE  t = u
        <4>1. CASE t # s /\ u # s
          BY <3>6, <3>7, <3>10, <4>1 DEF LeaseInv, TokensDistinct
        <4>2. CASE t = s \/ u = s
          BY <3>6, <3>9, <3>10, <4>2
        <4> QED
          BY <4>1, <4>2
      <3>11. TokensDistinct'
        BY <3>8, <3>10 DEF TokensDistinct
      <3> QED
        BY <1>1, <3>3, <3>11 DEF LeaseInv
    <2>3. CASE Heartbeat(s)
      <3>1. Preserves(db, db') /\ UNCHANGED slot
        BY <1>1, <1>2, <2>3, ExpiryPreserves DEF Heartbeat
      <3> QED
        BY <1>1, <1>3, <1>4, <3>1, NoClaim
    <2>4. CASE CompleteItem(s)
      <3>1. Busy(s) /\ db.item[slot[s].item].status = "running"
            /\ db.item[slot[s].item].token = slot[s].token
        BY <2>4 DEF CompleteItem, Busy, OwnsLease, Owns
      <3>2. \A J \in SUBSET Followups(slot[s].item) : J \in SUBSET Job
        BY DEF Followups
      <3>3. RowsSound(db') /\ SameAttempts(db, db')
        BY <1>1, <1>2, <2>4, <3>1, <3>2, CompleteSound DEF CompleteItem
      <3>4. slot' = [slot EXCEPT ![s] = Idle] /\ Idle.phase = "idle"
        BY <2>4 DEF CompleteItem, Idle
      <3> QED
        BY <1>1, <3>3, <3>4, IdleType, OthersKeep, NoClaim
    <2>5. ASSUME NEW r \in BOOLEAN, FailItem(s, r) \/ (r /\ FailInternal(s)) PROVE LeaseInv'
      <3>1. Busy(s) /\ db.item[slot[s].item].status = "running"
        BY <2>5 DEF FailItem, FailInternal, Busy, OwnsLease, Owns
      <3>2. db' = Fail(db, slot[s].item, r)
        BY <2>5 DEF FailItem, FailInternal
      <3>3. RowsSound(db') /\ SameAttempts(db, db')
        BY <1>1, <1>2, <3>1, <3>2, FailSound
      <3>4. slot' = [slot EXCEPT ![s] = Idle] /\ Idle.phase = "idle"
        BY <2>5 DEF FailItem, FailInternal, Idle
      <3> QED
        BY <1>1, <3>3, <3>4, IdleType, OthersKeep, NoClaim
    <2>6. CASE LeaseLost(s)
      <3>1. slot' = [slot EXCEPT ![s] = Idle] /\ Idle.phase = "idle" /\ db' = db
        BY <2>6 DEF LeaseLost, Idle
      <3> QED
        BY <1>1, <1>4, <1>5, <3>1, IdleType, OthersKeep, NoClaim
    <2>7. CASE Raise(s)
      <3>1. slot' = [slot EXCEPT ![s] = [slot[s] EXCEPT !.phase = "failing"]]
            /\ Busy(s) /\ db' = db
        BY <2>7 DEF Raise, Busy
      <3>2. /\ [slot[s] EXCEPT !.phase = "failing"] \in SlotRow
            /\ [slot[s] EXCEPT !.phase = "failing"].item = slot[s].item
            /\ [slot[s] EXCEPT !.phase = "failing"].token = slot[s].token
        BY <1>2 DEF SlotRow
      <3> QED
        BY <1>1, <1>4, <1>5, <3>1, <3>2, OthersKeep, NoClaim
    <2>8. CASE Crash(s)
      <3>1. slot' = [slot EXCEPT ![s] = Down] /\ Down.phase = "down" /\ db' = db
        BY <2>8 DEF Crash, Down, Idle
      <3> QED
        BY <1>1, <1>4, <1>5, <3>1, IdleType, OthersKeep, NoClaim
    <2>9. CASE Restart(s)
      <3>1. slot' = [slot EXCEPT ![s] = Idle] /\ Idle.phase = "idle" /\ Preserves(db, db')
        BY <1>1, <2>9, RecoverPreserves DEF Restart, Idle
      <3> QED
        BY <1>1, <1>4, <3>1, IdleType, OthersKeep, NoClaim
    <2> QED
      BY <1>7, <2>1, <2>2, <2>3, <2>4, <2>5, <2>6, <2>7, <2>8, <2>9 DEF Work, Claim, Report
  <1>8. ASSUME NEW i \in Item, Time(i) PROVE LeaseInv'
    <2>1. Preserves(db, db') /\ UNCHANGED slot
      BY <1>1, <1>8, ExpiryPreserves DEF Time, LeaseTimesOut, BackoffElapses
    <2> QED
      BY <1>1, <1>3, <1>4, <2>1, NoClaim
  <1>9. CASE UNCHANGED vars
    BY <1>1, <1>3, <1>4, <1>5, <1>9, NoClaim DEF vars
  <1> QED
    BY <1>6, <1>7, <1>8, <1>9 DEF Next

\* At most one slot at a time may report on an item, whatever processes share a
\* worker_id, crash, restart or outlive their lease.
THEOREM LeaseExclusive == Spec => []OneLeaseHolder
  <1>1. LeaseInv => OneLeaseHolder
    BY DEF LeaseInv, TokensDistinct, OneLeaseHolder, OwnsLease, Owns
  <1> QED
    BY InitLease, NextLease, <1>1, PTL DEF Spec

\* A result, its item's success and its deliveries are always all there or all
\* absent, and the result is that of the last claim of the item.
THEOREM ResultsWithLastClaim == Spec => []ResultsAtomic
  <1>1. LeaseInv => ResultsAtomic
    BY DEF LeaseInv, RowsSound, RowSound, ResultsAtomic
  <1> QED
    BY InitLease, NextLease, <1>1, PTL DEF Spec
-----------------------------------------------------------------------------
(***************************************************************************)
(* The invariant of a job.  Beside what the properties say: a job that     *)
(* does not exist has no items and no events, and a job that is not over   *)
(* has announced nothing.                                                  *)
(***************************************************************************)
UpTo(d, j, n) == n \in 0 .. Size[j] /\ \A m \in 1 .. n : d.item[<<j, m>>].status \in Settled
NextOpen(d, j, n) == n < Size[j] => d.item[<<j, n + 1>>].status \notin Settled

ItemsExist(d, j) == \A i \in ItemsOf(j) : d.item[i].status \in ItemStatus
StatusSound(d, j) ==
  LET status == d.job[j].status IN
  /\ status \in Final <=> Open(d, j) = {}
  /\ status \in {"paused", "pending"} => Running(d, j) = {}
  /\ WithStatus(d, j, {"cancelled"}) # {} => status \in {"cancel_requested", "cancelled"}
  /\ status = "succeeded" => WithStatus(d, j, {"failed"}) = {}
  /\ status = "failed" => WithStatus(d, j, {"failed"}) = ItemsOf(j)
  /\ status = "partial" => /\ WithStatus(d, j, {"failed"}) # {}
                           /\ WithStatus(d, j, {"succeeded"}) # {}
CountsSound(d, j) ==
  LET row == d.job[j] IN
  /\ UpTo(d, j, row.checkpoint)
  /\ row.succeeded = Cardinality(WithStatus(d, j, {"succeeded"}))
  /\ row.failed = Cardinality(WithStatus(d, j, {"failed"}))
  /\ row.status # "cancel_requested" =>
       /\ NextOpen(d, j, row.checkpoint)
       /\ row.cancelled = Cardinality(WithStatus(d, j, {"cancelled"}))
EventsSound(d, j) ==
  LET status == d.job[j].status IN
  \/ status \notin {"succeeded", "partial", "failed"} /\ d.announced[j] = << >>
  \/ status \in Final /\ d.announced[j] = <<status>>

Unborn(d, j) ==
  /\ d.announced[j] = << >>
  /\ \A i \in ItemsOf(j) : d.item[i].status = "absent"
JobSound(d, j) ==
  IF d.job[j].status = "absent" THEN Unborn(d, j)
  ELSE ItemsExist(d, j) /\ StatusSound(d, j) /\ CountsSound(d, j) /\ EventsSound(d, j)
JobsSound(d) == \A j \in Job : JobSound(d, j)

\* What a derived job has to do with the item it derives from
FollowSound(d) ==
  \A j \in Created(d) : Parent[j] # NoItem =>
    /\ d.item[Parent[j]].status = "succeeded"
    /\ d.job[j].sinks = d.job[JobOf(Parent[j])].sinks

StatusInv == LeaseInv /\ JobsSound(db) /\ FollowSound(db)

-----------------------------------------------------------------------------
(* Statuses *)

SameStatuses(d, e, j) == \A i \in ItemsOf(j) : e.item[i].status = d.item[i].status

LEMMA SameSets ==
  ASSUME NEW d, NEW e, NEW j, SameStatuses(d, e, j)
  PROVE  /\ \A S : WithStatus(e, j, S) = WithStatus(d, j, S)
         /\ Open(e, j) = Open(d, j) /\ Running(e, j) = Running(d, j)
  BY DEF SameStatuses, WithStatus, Open, Running

LEMMA ItemAt ==
  ASSUME NEW j \in Job
  PROVE  /\ Size[j] \in Nat \ {0}
         /\ \A m \in 1 .. Size[j] : <<j, m>> \in ItemsOf(j)
         /\ \A i \in ItemsOf(j) : SeqOf(i) \in 1 .. Size[j] /\ i = <<j, SeqOf(i)>>
  BY SizeAssumption DEF ItemsOf, SeqOf

LEMMA SameUpTo ==
  ASSUME NEW d, NEW e, NEW j \in Job, SameStatuses(d, e, j), NEW n \in Nat
  PROVE  /\ UpTo(d, j, n) => UpTo(e, j, n)
         /\ NextOpen(d, j, n) => NextOpen(e, j, n)
  <1>1. \A m \in 1 .. Size[j] : e.item[<<j, m>>].status = d.item[<<j, m>>].status
    BY ItemAt DEF SameStatuses
  <1>2. UpTo(d, j, n) => UpTo(e, j, n)
    BY <1>1, ItemAt DEF UpTo
  <1>3. NextOpen(d, j, n) => NextOpen(e, j, n)
    <2>1. n < Size[j] => n + 1 \in 1 .. Size[j]
      BY ItemAt
    <2> QED BY <1>1, <2>1 DEF NextOpen
  <1> QED BY <1>2, <1>3

\* A job whose row and events stay, and whose items keep their statuses, stays sound.
LEMMA Untouched ==
  ASSUME NEW d \in DbType, NEW e, NEW j \in Job, SameStatuses(d, e, j),
         e.job[j] = d.job[j], e.announced[j] = d.announced[j], JobSound(d, j)
  PROVE  JobSound(e, j)
  <1>1. d.job[j].checkpoint \in Nat
    BY DEF DbType, JobRow
  <1>2. CASE d.job[j].status = "absent"
    BY <1>2 DEF JobSound, Unborn, SameStatuses
  <1>3. CASE d.job[j].status # "absent"
    <2>1. ItemsExist(e, j)
      BY <1>3 DEF JobSound, ItemsExist, SameStatuses
    <2>2. StatusSound(e, j)
      BY <1>3, SameSets DEF JobSound, StatusSound
    <2>3. CountsSound(e, j)
      BY <1>1, <1>3, SameSets, SameUpTo DEF JobSound, CountsSound
    <2>4. EventsSound(e, j)
      BY <1>3 DEF JobSound, EventsSound
    <2> QED BY <1>3, <2>1, <2>2, <2>3, <2>4 DEF JobSound
  <1> QED BY <1>2, <1>3

\* The checkpoint is where it should be: everything up to it is settled, what follows is not.
LEMMA CheckpointSound ==
  ASSUME NEW d, NEW j \in Job, ItemsExist(d, j)
  PROVE  /\ Checkpoint(d, j) \in Nat
         /\ UpTo(d, j, Checkpoint(d, j)) /\ NextOpen(d, j, Checkpoint(d, j))
  <1> DEFINE n == Checkpoint(d, j)
  <1>1. n \in 0 .. Size[j] /\ Size[j] \in Nat
    BY CheckpointFacts, ItemAt
  <1>2. \A i \in ItemsOf(j) : i \in Open(d, j) <=> d.item[i].status \notin Settled
    BY DEF ItemsExist, Open, WithStatus, ItemStatus, Settled
  <1>3. \A i \in Open(d, j) : n < SeqOf(i)
    BY CheckpointFacts
  <1>4. Open(d, j) # {} => \E i \in Open(d, j) : SeqOf(i) = n + 1
    BY CheckpointFacts
  <1>5. Open(d, j) = {} => n = Size[j]
    BY DEF Checkpoint
  <1> HIDE DEF n
  <1>6. ASSUME NEW m \in 1 .. n PROVE d.item[<<j, m>>].status \in Settled
    <2>1. m \in 1 .. Size[j] /\ ~(n < m)
      BY <1>1
    <2>2. <<j, m>> \in ItemsOf(j) /\ SeqOf(<<j, m>>) = m
      BY <2>1, ItemAt DEF SeqOf
    <2> QED BY <1>2, <1>3, <2>1, <2>2
  <1>7. ASSUME n < Size[j] PROVE d.item[<<j, n + 1>>].status \notin Settled
    <2>1. Open(d, j) # {}
      BY <1>1, <1>5, <1>7
    <2>2. PICK i \in Open(d, j) : SeqOf(i) = n + 1
      BY <1>4, <2>1
    <2>3. i \in ItemsOf(j)
      BY DEF Open, WithStatus
    <2>4. i = <<j, n + 1>>
      BY <2>2, <2>3, ItemAt
    <2> QED BY <1>2, <2>3, <2>4
  <1> QED BY <1>1, <1>6, <1>7 DEF UpTo, NextOpen, n

\* A job that was just counted has the right counters, whatever status it is given.
LEMMA CountedFields ==
  ASSUME NEW d \in DbType, NEW j \in Job
  PROVE  /\ Counted(d, j).succeeded = Cardinality(WithStatus(d, j, {"succeeded"}))
         /\ Counted(d, j).failed = Cardinality(WithStatus(d, j, {"failed"}))
         /\ Counted(d, j).cancelled = Cardinality(WithStatus(d, j, {"cancelled"}))
         /\ Counted(d, j).checkpoint = Checkpoint(d, j)
         /\ Counted(d, j).status = d.job[j].status
         /\ \A s : /\ [Counted(d, j) EXCEPT !.status = s].status = s
                   /\ [Counted(d, j) EXCEPT !.status = s].checkpoint = Counted(d, j).checkpoint
                   /\ [Counted(d, j) EXCEPT !.status = s].succeeded = Counted(d, j).succeeded
                   /\ [Counted(d, j) EXCEPT !.status = s].failed = Counted(d, j).failed
                   /\ [Counted(d, j) EXCEPT !.status = s].cancelled = Counted(d, j).cancelled
  <1>1. d.job[j] \in JobRow
    BY DEF DbType
  <1>2. /\ Counted(d, j).succeeded = Cardinality(WithStatus(d, j, {"succeeded"}))
        /\ Counted(d, j).failed = Cardinality(WithStatus(d, j, {"failed"}))
        /\ Counted(d, j).cancelled = Cardinality(WithStatus(d, j, {"cancelled"}))
        /\ Counted(d, j).checkpoint = Checkpoint(d, j)
        /\ Counted(d, j).status = d.job[j].status
    BY <1>1 DEF Counted, JobRow
  <1>3. Counted(d, j) \in JobRow
    BY CountedType
  <1>4. ASSUME NEW r \in JobRow, NEW s
        PROVE  /\ [r EXCEPT !.status = s].status = s
               /\ [r EXCEPT !.status = s].checkpoint = r.checkpoint
               /\ [r EXCEPT !.status = s].succeeded = r.succeeded
               /\ [r EXCEPT !.status = s].failed = r.failed
               /\ [r EXCEPT !.status = s].cancelled = r.cancelled
    BY DEF JobRow
  <1>5. ASSUME NEW s
        PROVE  /\ [Counted(d, j) EXCEPT !.status = s].status = s
               /\ [Counted(d, j) EXCEPT !.status = s].checkpoint = Counted(d, j).checkpoint
               /\ [Counted(d, j) EXCEPT !.status = s].succeeded = Counted(d, j).succeeded
               /\ [Counted(d, j) EXCEPT !.status = s].failed = Counted(d, j).failed
               /\ [Counted(d, j) EXCEPT !.status = s].cancelled = Counted(d, j).cancelled
    BY <1>3, <1>4
  <1> QED BY <1>2, <1>5

LEMMA CountedSound ==
  ASSUME NEW d \in DbType, NEW e, NEW j \in Job, ItemsExist(d, j), e.item = d.item,
         \/ e.job[j] = Counted(d, j)
         \/ \E s : e.job[j] = [Counted(d, j) EXCEPT !.status = s]
  PROVE  CountsSound(e, j) /\ ItemsExist(e, j)
  <1>1. /\ e.job[j].succeeded = Cardinality(WithStatus(d, j, {"succeeded"}))
        /\ e.job[j].failed = Cardinality(WithStatus(d, j, {"failed"}))
        /\ e.job[j].cancelled = Cardinality(WithStatus(d, j, {"cancelled"}))
        /\ e.job[j].checkpoint = Checkpoint(d, j)
    <2>1. CASE e.job[j] = Counted(d, j)
      BY <2>1, CountedFields
    <2>2. CASE \E s : e.job[j] = [Counted(d, j) EXCEPT !.status = s]
      <3>1. PICK s : e.job[j] = [Counted(d, j) EXCEPT !.status = s]
        BY <2>2
      <3>2. /\ [Counted(d, j) EXCEPT !.status = s].checkpoint = Counted(d, j).checkpoint
            /\ [Counted(d, j) EXCEPT !.status = s].succeeded = Counted(d, j).succeeded
            /\ [Counted(d, j) EXCEPT !.status = s].failed = Counted(d, j).failed
            /\ [Counted(d, j) EXCEPT !.status = s].cancelled = Counted(d, j).cancelled
        BY CountedFields
      <3> QED BY <3>1, <3>2, CountedFields
    <2> QED BY <2>1, <2>2
  <1>2. SameStatuses(d, e, j)
    BY DEF SameStatuses
  <1>3. \A S : WithStatus(e, j, S) = WithStatus(d, j, S)
    BY <1>2, SameSets
  <1>4. UpTo(e, j, Checkpoint(d, j)) /\ NextOpen(e, j, Checkpoint(d, j))
    BY <1>2, CheckpointSound, SameUpTo
  <1> QED BY <1>1, <1>3, <1>4 DEF CountsSound, ItemsExist

-----------------------------------------------------------------------------
(* The end of a transaction: _refresh_job, then _reconcile_controls *)

\* What an item's transaction leaves to _refresh_job
Unrefreshed(d, j) ==
  /\ d.job[j].status \in {"running", "pause_requested", "cancel_requested"}
  /\ ItemsExist(d, j)
  /\ WithStatus(d, j, {"cancelled"}) # {} => d.job[j].status = "cancel_requested"
  /\ d.announced[j] = << >>

LEMMA Outcomes ==
  ASSUME NEW d, NEW j \in Job, ItemsExist(d, j), Open(d, j) = {}
  PROVE  /\ ItemsOf(j) # {}
         /\ ItemsOf(j) = WithStatus(d, j, {"succeeded"}) \cup WithStatus(d, j, {"failed"})
                           \cup WithStatus(d, j, {"cancelled"})
         /\ Running(d, j) = {}
         /\ WithStatus(d, j, {"failed", "cancelled"}) =
              WithStatus(d, j, {"failed"}) \cup WithStatus(d, j, {"cancelled"})
  BY ItemsOfFacts DEF ItemsExist, Open, Running, WithStatus, ItemStatus, Settled

LEMMA RefreshSound ==
  ASSUME NEW d \in DbType, NEW j \in Job, Unrefreshed(d, j)
  PROVE  JobSound(Refresh(d, j), j)
  <1> DEFINE e == Refresh(d, j)
  <1>1. ItemsExist(d, j) /\ d.job[j].status \notin Final \cup {"absent", "paused", "pending"}
    BY DEF Unrefreshed, Final
  <1>2. CASE Open(d, j) # {}
    <2>1. e.job[j] = Counted(d, j) /\ e.item = d.item /\ e.announced = d.announced
      BY <1>2 DEF Refresh, DbType
    <2> HIDE DEF e
    <2>2. CountsSound(e, j) /\ ItemsExist(e, j)
      BY <1>1, <2>1, CountedSound
    <2>3. e.job[j].status = d.job[j].status
      BY <2>1, CountedFields
    <2>4. StatusSound(e, j)
      <3>1. /\ \A S : WithStatus(e, j, S) = WithStatus(d, j, S)
            /\ Open(e, j) = Open(d, j)
        BY <2>1, SameSets DEF SameStatuses
      <3>2. WithStatus(d, j, {"cancelled"}) # {} => d.job[j].status = "cancel_requested"
        BY DEF Unrefreshed
      <3> QED BY <1>1, <1>2, <2>3, <3>1, <3>2 DEF StatusSound, Final
    <2>5. EventsSound(e, j)
      BY <1>1, <2>1, <2>3 DEF EventsSound, Unrefreshed, Final
    <2> QED BY <1>1, <2>2, <2>3, <2>4, <2>5 DEF JobSound, e
  <1>3. CASE Open(d, j) = {}
    <2> DEFINE v == Verdict(d, j)
    <2>1. /\ e.job[j] = [Counted(d, j) EXCEPT !.status = v] /\ e.item = d.item
          /\ e.announced[j] = IF v = "cancelled" THEN d.announced[j]
                              ELSE Append(d.announced[j], v)
      BY <1>3 DEF Refresh, DbType
    <2> HIDE DEF e
    <2>2. CountsSound(e, j) /\ ItemsExist(e, j)
      BY <1>1, <2>1, CountedSound
    <2>3. e.job[j].status = v
      BY <2>1, CountedFields
    <2>4. v \in Final
      BY DEF Verdict, Final
    <2>5. \A S : WithStatus(e, j, S) = WithStatus(d, j, S)
      BY <2>1, SameSets DEF SameStatuses
    <2>6. Open(e, j) = {} /\ Running(e, j) = {}
      BY <1>1, <1>3, <2>5, Outcomes DEF Open, Running
    <2>7. /\ WithStatus(d, j, {"cancelled"}) # {} => v = "cancelled"
          /\ v = "succeeded" => WithStatus(d, j, {"failed"}) = {}
          /\ v = "failed" => WithStatus(d, j, {"failed"}) = ItemsOf(j)
          /\ v = "partial" => /\ WithStatus(d, j, {"failed"}) # {}
                              /\ WithStatus(d, j, {"succeeded"}) # {}
      <3> DEFINE S(x) == WithStatus(d, j, {x})
      <3>1. /\ ItemsOf(j) # {} /\ ItemsOf(j) = S("succeeded") \cup S("failed") \cup S("cancelled")
            /\ WithStatus(d, j, {"failed", "cancelled"}) = S("failed") \cup S("cancelled")
        BY <1>1, <1>3, Outcomes
      <3>2. S("cancelled") # {} => d.job[j].status = "cancel_requested"
        BY DEF Unrefreshed
      <3>3. CASE d.job[j].status = "cancel_requested"
        BY <3>3 DEF Verdict
      <3>4. CASE d.job[j].status # "cancel_requested"
        <4>1. S("cancelled") = {}
          BY <3>2, <3>4
        <4>2. v = IF S("failed") = {} THEN "succeeded"
                  ELSE IF S("succeeded") # {} THEN "partial" ELSE "failed"
          BY <3>1, <3>4, <4>1 DEF Verdict
        <4> QED BY <3>1, <4>1, <4>2
      <3> QED BY <3>3, <3>4
    <2>8. StatusSound(e, j)
      BY <2>3, <2>4, <2>5, <2>6, <2>7 DEF StatusSound, Final
    <2>9. EventsSound(e, j)
      <3>1. d.announced[j] = << >>
        BY DEF Unrefreshed
      <3>2. Append(<< >>, v) = <<v>>
        OBVIOUS
      <3> QED BY <2>1, <2>3, <2>4, <3>1, <3>2 DEF EventsSound, Final
    <2>10. v # "absent"
      BY <2>4 DEF Final
    <2> QED BY <2>2, <2>3, <2>8, <2>9, <2>10 DEF JobSound, e
  <1> QED BY <1>2, <1>3

LEMMA RefreshOthers ==
  ASSUME NEW d \in DbType, NEW j \in Job, NEW k \in Job, k # j
  PROVE  /\ Refresh(d, j).job[k] = d.job[k]
         /\ Refresh(d, j).announced[k] = d.announced[k]
         /\ SameStatuses(d, Refresh(d, j), k)
  BY DEF Refresh, SameStatuses, DbType

LEMMA CancelPendingFacts ==
  ASSUME NEW d \in DbType
  PROVE  /\ CancelPending(d).job = d.job /\ CancelPending(d).announced = d.announced
         /\ \A j \in Job : \A i \in ItemsOf(j) :
              CancelPending(d).item[i].status =
                IF d.job[j].status = "cancel_requested" /\ d.item[i].status = "pending"
                THEN "cancelled" ELSE d.item[i].status
  <1>1. ASSUME NEW r \in ItemRow PROVE [r EXCEPT !.status = "cancelled"].status = "cancelled"
    BY DEF ItemRow
  <1>2. \A j \in Job : \A i \in ItemsOf(j) : i \in Item /\ JobOf(i) = j /\ d.item[i] \in ItemRow
    BY ItemsOfFacts DEF DbType
  <1>3. CancelPending(d).item = [i \in Item |->
          IF d.job[JobOf(i)].status = "cancel_requested" /\ d.item[i].status = "pending"
          THEN [d.item[i] EXCEPT !.status = "cancelled"] ELSE d.item[i]]
    BY DEF CancelPending, DbType
  <1>4. CancelPending(d).job = d.job /\ CancelPending(d).announced = d.announced
    BY DEF CancelPending, DbType
  <1> QED BY <1>1, <1>2, <1>3, <1>4

LEMMA SettleFacts ==
  ASSUME NEW c \in DbType, NEW j \in Job
  PROVE  LET e == SettleControls(c) IN
         /\ e.item = c.item
         /\ j \in Quiet(c, "pause_requested") =>
              /\ e.job[j] = [c.job[j] EXCEPT !.status = "paused"]
              /\ e.announced[j] = c.announced[j]
         /\ j \in Quiet(c, "cancel_requested") =>
              /\ e.job[j] = [Counted(c, j) EXCEPT !.status = "cancelled"]
              /\ e.announced[j] = Append(c.announced[j], "cancelled")
         /\ j \notin Quiet(c, "pause_requested") \cup Quiet(c, "cancel_requested") =>
              e.job[j] = c.job[j] /\ e.announced[j] = c.announced[j]
  BY DEF SettleControls, DbType, Quiet

LEMMA ReconcileSound ==
  ASSUME NEW d \in DbType, NEW j \in Job, JobSound(d, j)
  PROVE  JobSound(Reconcile(d), j)
  <1> DEFINE c == CancelPending(d)
             e == SettleControls(c)
  <1>1. /\ c.job = d.job /\ c.announced = d.announced
        /\ \A i \in ItemsOf(j) : c.item[i].status =
             IF d.job[j].status = "cancel_requested" /\ d.item[i].status = "pending"
             THEN "cancelled" ELSE d.item[i].status
    BY CancelPendingFacts
  <1>2. c \in DbType /\ Reconcile(d) = e
    BY CancelPendingType DEF Reconcile
  <1> HIDE DEF c
  <1>3. /\ e.item = c.item
        /\ j \in Quiet(c, "pause_requested") =>
             /\ e.job[j] = [c.job[j] EXCEPT !.status = "paused"]
             /\ e.announced[j] = c.announced[j]
        /\ j \in Quiet(c, "cancel_requested") =>
             /\ e.job[j] = [Counted(c, j) EXCEPT !.status = "cancelled"]
             /\ e.announced[j] = Append(c.announced[j], "cancelled")
        /\ j \notin Quiet(c, "pause_requested") \cup Quiet(c, "cancel_requested") =>
             e.job[j] = c.job[j] /\ e.announced[j] = c.announced[j]
    BY <1>2, SettleFacts
  <1> HIDE DEF e
  <1>4. SameStatuses(c, e, j)
    BY <1>3 DEF SameStatuses
  <1>5. CASE d.job[j].status # "cancel_requested"
    <2>1. JobSound(c, j)
      BY <1>1, <1>5, Untouched DEF SameStatuses
    <2>2. j \notin Quiet(c, "cancel_requested")
      BY <1>1, <1>5 DEF Quiet
    <2>3. CASE j \notin Quiet(c, "pause_requested")
      BY <1>2, <1>3, <1>4, <2>1, <2>2, <2>3, Untouched
    <2>4. CASE j \in Quiet(c, "pause_requested")
      <3>1. c.job[j].status = "pause_requested" /\ Running(c, j) = {} /\ c.job[j] \in JobRow
        BY <1>2, <2>4 DEF Quiet, DbType
      <3>2. /\ e.job[j].status = "paused" /\ e.job[j].checkpoint = c.job[j].checkpoint
            /\ e.job[j].succeeded = c.job[j].succeeded /\ e.job[j].failed = c.job[j].failed
            /\ e.job[j].cancelled = c.job[j].cancelled
            /\ e.announced[j] = c.announced[j]
        BY <1>3, <2>4, <3>1 DEF JobRow
      <3>3. ItemsExist(c, j) /\ StatusSound(c, j) /\ CountsSound(c, j) /\ EventsSound(c, j)
        BY <2>1, <3>1 DEF JobSound
      <3>4. \A S : WithStatus(e, j, S) = WithStatus(c, j, S)
        BY <1>4, SameSets
      <3>5. CountsSound(e, j)
        <4>1. c.job[j].checkpoint \in Nat
          BY <3>1 DEF JobRow
        <4> QED BY <1>4, <3>1, <3>2, <3>3, <3>4, <4>1, SameUpTo DEF CountsSound
      <3>6. StatusSound(e, j)
        BY <3>1, <3>2, <3>3, <3>4 DEF StatusSound, Open, Running, Final
      <3>7. ItemsExist(e, j) /\ EventsSound(e, j)
        BY <1>4, <3>1, <3>2, <3>3 DEF ItemsExist, EventsSound, SameStatuses, Final
      <3> QED BY <1>2, <3>2, <3>5, <3>6, <3>7 DEF JobSound
    <2> QED BY <1>2, <2>3, <2>4
  <1>6. CASE d.job[j].status = "cancel_requested"
    <2>1. /\ ItemsExist(d, j) /\ StatusSound(d, j) /\ CountsSound(d, j)
          /\ d.announced[j] = << >>
      BY <1>6 DEF JobSound, EventsSound, Final
    <2>2. ItemsExist(c, j) /\ \A i \in ItemsOf(j) : c.item[i].status # "pending"
      BY <1>1, <1>6, <2>1 DEF ItemsExist, ItemStatus, Settled
    <2>3. Open(c, j) = Running(c, j)
      BY <2>2 DEF Open, Running, WithStatus
    <2>4. j \notin Quiet(c, "pause_requested")
      BY <1>1, <1>6 DEF Quiet
    <2>5. \A S : WithStatus(e, j, S) = WithStatus(c, j, S)
      BY <1>4, SameSets
    <2>6. CASE Running(c, j) = {}
      <3>1. j \in Quiet(c, "cancel_requested")
        BY <1>1, <1>6, <2>6 DEF Quiet
      <3>2. /\ e.job[j] = [Counted(c, j) EXCEPT !.status = "cancelled"]
            /\ e.announced[j] = Append(c.announced[j], "cancelled")
        BY <1>3, <3>1
      <3>3. CountsSound(e, j) /\ ItemsExist(e, j)
        BY <1>2, <1>3, <2>2, <3>2, CountedSound
      <3>4. e.job[j].status = "cancelled"
        BY <1>2, <3>2, CountedFields
      <3>5. e.announced[j] = <<"cancelled">>
        <4>1. Append(<< >>, "cancelled") = <<"cancelled">>
          OBVIOUS
        <4> QED BY <1>1, <2>1, <3>2, <4>1
      <3>6. Open(e, j) = {}
        BY <2>3, <2>5, <2>6 DEF Open, Running
      <3> QED BY <1>2, <3>3, <3>4, <3>5, <3>6 DEF JobSound, StatusSound, EventsSound, Final
    <2>7. CASE Running(c, j) # {}
      <3>1. e.job[j] = d.job[j] /\ e.announced[j] = << >>
        BY <1>1, <1>3, <2>1, <2>4, <2>7 DEF Quiet
      <3>2. Open(e, j) # {}
        BY <2>3, <2>5, <2>7 DEF Open, Running
      <3>3. ItemsExist(e, j)
        BY <1>4, <2>2 DEF ItemsExist, SameStatuses
      <3>4. /\ WithStatus(e, j, {"succeeded"}) = WithStatus(d, j, {"succeeded"})
            /\ WithStatus(e, j, {"failed"}) = WithStatus(d, j, {"failed"})
        BY <1>1, <2>5 DEF WithStatus
      <3>5. UpTo(e, j, d.job[j].checkpoint)
        <4>1. \A i \in ItemsOf(j) : d.item[i].status \in Settled => e.item[i].status \in Settled
          BY <1>1, <1>4 DEF SameStatuses, Settled
        <4>2. UpTo(d, j, d.job[j].checkpoint)
          BY <2>1 DEF CountsSound
        <4>3. \A m \in 1 .. d.job[j].checkpoint : <<j, m>> \in ItemsOf(j)
          BY <4>2, ItemAt DEF UpTo
        <4> QED BY <4>1, <4>2, <4>3 DEF UpTo
      <3>6. CountsSound(e, j)
        BY <1>6, <2>1, <3>1, <3>4, <3>5 DEF CountsSound
      <3> QED BY <1>2, <1>6, <3>1, <3>2, <3>3, <3>6 DEF JobSound, StatusSound, EventsSound, Final
    <2> QED BY <1>2, <2>6, <2>7
  <1> QED BY <1>5, <1>6

\* Every job stays sound when an item's transaction refreshes its job and reconciles all.
LEMMA WrapUpSound ==
  ASSUME NEW d \in DbType, NEW j \in Job, Unrefreshed(d, j),
         \A k \in Job \ {j} : JobSound(d, k)
  PROVE  JobsSound(Reconcile(Refresh(d, j)))
  <1>1. Refresh(d, j) \in DbType
    BY RefreshType
  <1>2. ASSUME NEW k \in Job PROVE JobSound(Refresh(d, j), k)
    BY RefreshSound, RefreshOthers, Untouched
  <1> QED BY <1>1, <1>2, ReconcileSound DEF JobsSound

-----------------------------------------------------------------------------
(* Transactions *)

LEMMA InsertJobs ==
  ASSUME NEW d \in DbType, NEW J \in SUBSET Job, NEW sinks, JobsSound(d)
  PROVE  JobsSound(Insert(d, J, sinks))
  <1> DEFINE e == Insert(d, J, sinks)
             new == J \ Created(d)
             row == [NoJobRow EXCEPT !.status = "pending", !.sinks = sinks,
                                     !.created = Cardinality(Created(d)) + 1]
  <1>1. /\ e.announced = d.announced
        /\ \A i \in Item : e.item[i] = IF JobOf(i) \in new THEN PendingRow ELSE d.item[i]
        /\ \A j \in Job : e.job[j] = IF j \in new THEN row ELSE d.job[j]
    BY DEF Insert, DbType
  <1>2. /\ row.status = "pending" /\ row.succeeded = 0 /\ row.failed = 0 /\ row.cancelled = 0
        /\ row.checkpoint = 0
    BY DEF NoJobRow
  <1>3. PendingRow.status = "pending"
    BY DEF PendingRow, NoItemRow
  <1> HIDE DEF e, row
  <1>4. ASSUME NEW j \in Job, j \notin new PROVE JobSound(e, j)
    <2>1. \A i \in ItemsOf(j) : e.item[i] = d.item[i]
      BY <1>1, <1>4, ItemsOfFacts
    <2> QED BY <1>1, <1>4, <2>1, Untouched DEF JobsSound, SameStatuses
  <1>5. ASSUME NEW j \in Job, j \in new PROVE JobSound(e, j)
    <2>1. \A i \in ItemsOf(j) : e.item[i].status = "pending"
      BY <1>1, <1>3, <1>5, ItemsOfFacts
    <2>2. d.job[j].status = "absent" /\ e.announced[j] = << >>
      BY <1>1, <1>5 DEF Created, JobsSound, JobSound, Unborn
    <2>3. e.job[j] = row
      BY <1>1, <1>5
    <2>4. \A S : "pending" \notin S => WithStatus(e, j, S) = {}
      BY <2>1 DEF WithStatus
    <2>5. Running(e, j) = {} /\ Open(e, j) # {}
      BY <2>1, ItemsOfFacts DEF Running, Open, WithStatus
    <2>6. ItemsExist(e, j)
      BY <2>1 DEF ItemsExist, ItemStatus
    <2>7. StatusSound(e, j)
      BY <1>2, <2>3, <2>4, <2>5 DEF StatusSound, Final
    <2>8. UpTo(e, j, 0) /\ NextOpen(e, j, 0)
      BY <2>1, ItemAt DEF UpTo, NextOpen, Settled
    <2>9. CountsSound(e, j)
      <3>1. Cardinality({}) = 0
        BY FS_EmptySet
      <3>2. /\ WithStatus(e, j, {"succeeded"}) = {} /\ WithStatus(e, j, {"failed"}) = {}
            /\ WithStatus(e, j, {"cancelled"}) = {}
        BY <2>4
      <3> QED BY <1>2, <2>3, <2>8, <3>1, <3>2 DEF CountsSound
    <2>10. EventsSound(e, j)
      BY <1>2, <2>2, <2>3 DEF EventsSound
    <2> QED BY <1>2, <2>3, <2>6, <2>7, <2>9, <2>10 DEF JobSound
  <1> QED BY <1>4, <1>5 DEF JobsSound, e

\* Items that only go back and forth between waiting and running leave a job sound, as
\* long as none runs in a job that stands still.
LEMMA Restless ==
  ASSUME NEW d \in DbType, NEW e, NEW j \in Job, JobSound(d, j), d.job[j].status # "absent",
         \A i \in ItemsOf(j) :
           \/ e.item[i].status = d.item[i].status
           \/ {e.item[i].status, d.item[i].status} \subseteq {"pending", "running"},
         \/ e.job[j] = d.job[j]
         \/ /\ \E s : e.job[j] = [d.job[j] EXCEPT !.status = s]
            /\ e.job[j].status \notin Final \cup {"absent"}
            /\ d.job[j].status \notin Final
            /\ d.job[j].status # "cancel_requested",
         e.job[j].status \in {"paused", "pending"} => Running(e, j) = {},
         e.announced[j] = d.announced[j]
  PROVE  JobSound(e, j)
  <1>1. ItemsExist(d, j) /\ StatusSound(d, j) /\ CountsSound(d, j) /\ EventsSound(d, j)
    BY DEF JobSound
  <1>2. /\ e.job[j].checkpoint = d.job[j].checkpoint
        /\ e.job[j].succeeded = d.job[j].succeeded
        /\ e.job[j].failed = d.job[j].failed /\ e.job[j].cancelled = d.job[j].cancelled
    BY DEF DbType, JobRow
  <1>3. /\ WithStatus(e, j, {"succeeded"}) = WithStatus(d, j, {"succeeded"})
        /\ WithStatus(e, j, {"failed"}) = WithStatus(d, j, {"failed"})
        /\ WithStatus(e, j, {"cancelled"}) = WithStatus(d, j, {"cancelled"})
        /\ Open(e, j) = Open(d, j)
    BY DEF WithStatus, Open
  <1>4. ItemsExist(e, j)
    BY <1>1 DEF ItemsExist, ItemStatus
  <1>5. \A i \in ItemsOf(j) : e.item[i].status \in Settled <=> d.item[i].status \in Settled
    BY DEF Settled
  <1>6. /\ UpTo(e, j, d.job[j].checkpoint)
        /\ NextOpen(d, j, d.job[j].checkpoint) => NextOpen(e, j, d.job[j].checkpoint)
    <2>1. UpTo(d, j, d.job[j].checkpoint)
      BY <1>1 DEF CountsSound
    <2>2. \A m \in 1 .. d.job[j].checkpoint : <<j, m>> \in ItemsOf(j)
      BY <2>1, ItemAt DEF UpTo
    <2>3. d.job[j].checkpoint < Size[j] => <<j, d.job[j].checkpoint + 1>> \in ItemsOf(j)
      BY <2>1, ItemAt DEF UpTo
    <2> QED BY <1>5, <2>1, <2>2, <2>3 DEF UpTo, NextOpen
  <1>7. CASE e.job[j] = d.job[j]
    <2>1. StatusSound(e, j)
      BY <1>1, <1>3, <1>7 DEF StatusSound
    <2>2. CountsSound(e, j)
      BY <1>1, <1>2, <1>3, <1>6, <1>7 DEF CountsSound
    <2>3. EventsSound(e, j)
      BY <1>1, <1>7 DEF EventsSound
    <2> QED BY <1>4, <1>7, <2>1, <2>2, <2>3 DEF JobSound
  <1>8. CASE /\ e.job[j].status \notin Final \cup {"absent"}
             /\ d.job[j].status \notin Final
             /\ d.job[j].status # "cancel_requested"
    <2>1. StatusSound(e, j)
      BY <1>1, <1>3, <1>8 DEF StatusSound, Final
    <2>2. CountsSound(e, j)
      BY <1>1, <1>2, <1>3, <1>6, <1>8 DEF CountsSound
    <2>3. EventsSound(e, j)
      BY <1>1, <1>8 DEF EventsSound, Final
    <2> QED BY <1>4, <1>8, <2>1, <2>2, <2>3 DEF JobSound
  <1> QED BY <1>7, <1>8

LEMMA RecoverJobs ==
  ASSUME NEW d \in DbType, JobsSound(d)
  PROVE  JobsSound(Recover(d))
  <1> DEFINE e == Recover(d)
  <1>1. ASSUME NEW r \in ItemRow PROVE Released(r, "pending", TRUE).status = "pending"
    BY DEF Released, ItemRow
  <1>2. /\ e.job = d.job /\ e.announced = d.announced
        /\ \A i \in Item : \/ e.item[i].status = d.item[i].status
                           \/ d.item[i].status = "running" /\ e.item[i].status = "pending"
    BY <1>1 DEF Recover, DbType, LeaseExpired
  <1> HIDE DEF e
  <1>3. ASSUME NEW j \in Job PROVE JobSound(e, j)
    <2>1. \A i \in ItemsOf(j) : \/ e.item[i].status = d.item[i].status
                                \/ d.item[i].status = "running" /\ e.item[i].status = "pending"
      BY <1>2, ItemsOfFacts
    <2>2. CASE d.job[j].status = "absent"
      BY <1>2, <2>1, <2>2 DEF JobsSound, JobSound, Unborn
    <2>3. CASE d.job[j].status # "absent"
      <3>1. Running(e, j) \subseteq Running(d, j)
        BY <2>1 DEF Running, WithStatus
      <3>2. d.job[j].status \in {"paused", "pending"} => Running(d, j) = {}
        BY <2>3 DEF JobsSound, JobSound, StatusSound
      <3> QED BY <1>2, <2>1, <2>3, <3>1, <3>2, Restless DEF JobsSound
    <2> QED BY <2>2, <2>3
  <1> QED BY <1>3 DEF JobsSound, e

LEMMA LeaseJobs ==
  ASSUME NEW d \in DbType, NEW i \in Item, NEW o, JobsSound(d),
         d.item[i].status = "pending", d.job[JobOf(i)].status \in {"pending", "running"}
  PROVE  JobsSound(Lease(d, i, o))
  <1> DEFINE e == Lease(d, i, o)
             b == JobOf(i)
             status == IF d.job[b].status = "pending" THEN "running" ELSE d.job[b].status
  <1>1. b \in Job /\ d.job[b] \in JobRow /\ d.item[i] \in ItemRow
    BY ItemFacts DEF DbType
  <1>2. /\ e.announced = d.announced
        /\ e.item = [d.item EXCEPT ![i] = Leased(d.item[i], o, FreshToken(d, i))]
        /\ e.job = [d.job EXCEPT ![b] = [d.job[b] EXCEPT !.status = status]]
    BY <1>1 DEF Lease, DbType
  <1>3. Leased(d.item[i], o, FreshToken(d, i)).status = "running"
    BY <1>1 DEF Leased, ItemRow
  <1>4. /\ e.item[i].status = "running"
        /\ \A k \in Item \ {i} : e.item[k] = d.item[k]
    BY <1>1, <1>2, <1>3 DEF DbType
  <1>5. /\ e.job[b] = [d.job[b] EXCEPT !.status = status]
        /\ \A k \in Job \ {b} : e.job[k] = d.job[k]
    BY <1>1, <1>2 DEF DbType
  <1> HIDE DEF e
  <1>6. ASSUME NEW k \in Job, k # b PROVE JobSound(e, k)
    <2>1. \A m \in ItemsOf(k) : m \in Item \ {i}
      BY <1>6, ItemsOfFacts
    <2> QED BY <1>2, <1>4, <1>5, <1>6, <2>1, Untouched DEF JobsSound, SameStatuses
  <1>7. JobSound(e, b)
    <2>1. \A k \in ItemsOf(b) :
            \/ e.item[k].status = d.item[k].status
            \/ {e.item[k].status, d.item[k].status} \subseteq {"pending", "running"}
      BY <1>1, <1>4, ItemsOfFacts
    <2>2. status = "running" /\ e.job[b].status = "running"
      BY <1>1, <1>5 DEF JobRow
    <2>3. \E s : e.job[b] = [d.job[b] EXCEPT !.status = s]
      BY <1>5
    <2> QED BY <1>1, <1>2, <2>1, <2>2, <2>3, Restless DEF JobsSound, Final
  <1> QED BY <1>6, <1>7 DEF JobsSound, e

\* A control request gives a job that is not over another status that is not the end.
LEMMA StatusJobs ==
  ASSUME NEW d \in DbType, NEW j \in Job, JobsSound(d),
         d.job[j].status \notin Final \cup {"absent"},
         NEW s \in JobStatus \ Final,
         d.job[j].status = "cancel_requested" => s = "cancel_requested",
         s \in {"paused", "pending"} => Running(d, j) = {}
  PROVE  JobsSound([d EXCEPT !.job[j].status = s])
  <1> DEFINE e == [d EXCEPT !.job[j].status = s]
  <1>1. e = [d EXCEPT !.job = [d.job EXCEPT ![j] = [d.job[j] EXCEPT !.status = s]]]
    BY DEF DbType
  <1>2. /\ e.item = d.item /\ e.announced = d.announced
        /\ e.job[j] = [d.job[j] EXCEPT !.status = s]
        /\ \A k \in Job \ {j} : e.job[k] = d.job[k]
    BY <1>1 DEF DbType
  <1>3. d.job[j] \in JobRow
    BY DEF DbType
  <1> HIDE DEF e
  <1>4. e.job[j].status = s /\ s \notin Final \cup {"absent"}
    BY <1>2, <1>3 DEF JobRow, JobStatus
  <1>5. d.job[j].status = "cancel_requested" => e.job[j] = d.job[j]
    BY <1>2, <1>3 DEF JobRow
  <1>6. Running(e, j) = Running(d, j)
    BY <1>2 DEF Running, WithStatus
  <1>7. \E q : e.job[j] = [d.job[j] EXCEPT !.status = q]
    BY <1>2
  <1>8. JobSound(e, j)
    BY <1>2, <1>4, <1>5, <1>6, <1>7, Restless DEF JobsSound
  <1>9. ASSUME NEW k \in Job, k # j PROVE JobSound(e, k)
    BY <1>2, <1>9, Untouched DEF JobsSound, SameStatuses
  <1> QED BY <1>8, <1>9 DEF JobsSound, e

LEMMA ReconcileJobs ==
  ASSUME NEW d \in DbType, JobsSound(d)
  PROVE  JobsSound(Reconcile(d))
  BY ReconcileSound DEF JobsSound

LEMMA ControlJobs ==
  ASSUME NEW d \in DbType, NEW j \in Created(d), JobsSound(d)
  PROVE  /\ JobsSound(RequestPause(d, j))
         /\ JobsSound(ResumeJob(d, j))
         /\ JobsSound(RequestCancel(d, j))
  <1>1. j \in Job /\ d.job[j].status # "absent" /\ d.job[j].status \in JobStatus \cup {"absent"}
    BY DEF Created, DbType, JobRow
  <1>2. {"pause_requested", "running", "pending", "cancel_requested"} \subseteq JobStatus \ Final
    BY DEF JobStatus, Final
  <1>3. JobsSound(RequestPause(d, j))
    <2>1. CASE d.job[j].status \in {"pending", "running"}
      <3>1. JobsSound([d EXCEPT !.job[j].status = "pause_requested"])
        BY <1>1, <1>2, <2>1, StatusJobs DEF Final
      <3> QED BY <1>1, <1>2, <2>1, <3>1, StatusType, ReconcileJobs DEF RequestPause
    <2> QED BY <2>1 DEF RequestPause
  <1>4. JobsSound(ResumeJob(d, j))
    <2> DEFINE s == IF Running(d, j) # {} THEN "running" ELSE "pending"
    <2>1. CASE d.job[j].status \in {"paused", "pause_requested"}
      <3>1. s \in JobStatus \ Final /\ (s \in {"paused", "pending"} => Running(d, j) = {})
        BY <1>2
      <3>2. ResumeJob(d, j) = [d EXCEPT !.job[j].status = s]
        BY <2>1 DEF ResumeJob
      <3> HIDE DEF s
      <3> QED BY <1>1, <2>1, <3>1, <3>2, StatusJobs DEF Final
    <2> QED BY <2>1 DEF ResumeJob
  <1>5. JobsSound(RequestCancel(d, j))
    <2>1. CASE d.job[j].status \notin Final
      <3>1. JobsSound([d EXCEPT !.job[j].status = "cancel_requested"])
        BY <1>1, <1>2, <2>1, StatusJobs
      <3> QED BY <1>1, <1>2, <2>1, <3>1, StatusType, ReconcileJobs DEF RequestCancel
    <2> QED BY <2>1 DEF RequestCancel
  <1> QED BY <1>3, <1>4, <1>5

\* An item that ran leaves its job to _refresh_job.
LEMMA ItemLeaves ==
  ASSUME NEW d \in DbType, NEW i \in Item, NEW e, JobSound(d, JobOf(i)),
         d.item[i].status = "running",
         e.job[JobOf(i)] = d.job[JobOf(i)], e.announced[JobOf(i)] = d.announced[JobOf(i)],
         e.item[i].status \in {"pending", "failed", "succeeded"},
         \A k \in ItemsOf(JobOf(i)) \ {i} : e.item[k].status = d.item[k].status
  PROVE  Unrefreshed(e, JobOf(i)) /\ d.job[JobOf(i)].status # "absent"
  <1> DEFINE j == JobOf(i)
  <1>1. j \in Job /\ i \in ItemsOf(j) /\ d.job[j].status \in JobStatus \cup {"absent"}
    BY ItemFacts DEF DbType, JobRow
  <1>2. d.job[j].status # "absent"
    BY <1>1 DEF JobSound, Unborn
  <1>3. ItemsExist(d, j) /\ StatusSound(d, j) /\ EventsSound(d, j)
    BY <1>2 DEF JobSound
  <1>4. i \in Running(d, j) /\ i \in Open(d, j)
    BY <1>1 DEF Running, Open, WithStatus
  <1>5. d.job[j].status \in {"running", "pause_requested", "cancel_requested"}
    BY <1>1, <1>2, <1>3, <1>4 DEF StatusSound, JobStatus
  <1>6. ItemsExist(e, j)
    BY <1>3 DEF ItemsExist, ItemStatus, Settled
  <1>7. WithStatus(e, j, {"cancelled"}) \subseteq WithStatus(d, j, {"cancelled"})
    BY DEF WithStatus
  <1>8. WithStatus(e, j, {"cancelled"}) # {} => d.job[j].status = "cancel_requested"
    BY <1>3, <1>5, <1>7 DEF StatusSound
  <1>9. d.announced[j] = << >>
    BY <1>3, <1>5 DEF EventsSound, Final
  <1> QED BY <1>2, <1>5, <1>6, <1>8, <1>9 DEF Unrefreshed

LEMMA FailJobs ==
  ASSUME NEW d \in DbType, NEW i \in Item, NEW r \in BOOLEAN, JobsSound(d),
         d.item[i].status = "running"
  PROVE  JobsSound(Fail(d, i, r))
  <1> DEFINE status == IF MayRetry(d.item[i], JobOf(i), r) THEN "pending" ELSE "failed"
             row == Released(d.item[i], status, FALSE)
             failed == [d EXCEPT !.item[i] = Released(@, status, FALSE)]
  <1>1. JobOf(i) \in Job /\ d.item[i] \in ItemRow
    BY ItemFacts DEF DbType
  <1>2. failed = [d EXCEPT !.item = [d.item EXCEPT ![i] = row]]
    BY DEF DbType
  <1>3. status \in {"pending", "failed"}
    OBVIOUS
  <1>4. Fail(d, i, r) = Reconcile(Refresh(failed, JobOf(i)))
    BY DEF Fail
  <1> HIDE DEF status, failed
  <1>5. row \in ItemRow /\ row.status = status
    BY <1>1, <1>3 DEF Released, ItemRow, ItemStatus, Settled
  <1> HIDE DEF row
  <1>6. /\ failed \in DbType /\ failed.job = d.job /\ failed.announced = d.announced
        /\ failed.item[i] = row /\ \A k \in Item \ {i} : failed.item[k] = d.item[k]
    BY <1>2, <1>5 DEF DbType
  <1>7. Unrefreshed(failed, JobOf(i))
    BY <1>1, <1>3, <1>5, <1>6, ItemsOfFacts, ItemLeaves DEF JobsSound
  <1>8. ASSUME NEW k \in Job \ {JobOf(i)} PROVE JobSound(failed, k)
    <2>1. \A m \in ItemsOf(k) : m \in Item \ {i}
      BY ItemsOfFacts
    <2> QED BY <1>6, <2>1, Untouched DEF JobsSound, SameStatuses
  <1> QED BY <1>1, <1>4, <1>6, <1>7, <1>8, WrapUpSound

\* The database a completion leaves to _refresh_job: the follow-ups are there, the item is done.
LEMMA CompleteParts ==
  ASSUME NEW d \in DbType, NEW i \in Item, NEW t \in Nat, NEW J
  PROVE  \E done \in DbType :
           LET born == Insert(d, J, d.job[JobOf(i)].sinks) IN
           /\ Complete(d, i, t, J) = Reconcile(Refresh(done, JobOf(i)))
           /\ done.job = born.job /\ done.announced = d.announced
           /\ \A k \in Item : done.item[k].status = IF k = i THEN "succeeded" ELSE born.item[k].status
  <1> DEFINE born == Insert(d, J, d.job[JobOf(i)].sinks)
             stored == [d EXCEPT !.result[i] = IF @ = 0 THEN t ELSE @,
                                 !.outbox = @ \cup Queued(d, i)]
             derived == Derive(stored, i, J)
             done == [derived EXCEPT !.item[i] = Released(@, "succeeded", FALSE)]
  <1>1. JobOf(i) \in Job /\ d.job[JobOf(i)].sinks \in SUBSET Sink
    BY ItemFacts DEF DbType, JobRow
  <1>2. Queued(d, i) \subseteq Item \X Sink
    BY <1>1 DEF Queued
  <1>3. /\ stored \in DbType /\ stored.job = d.job /\ stored.item = d.item
        /\ stored.announced = d.announced /\ Created(stored) = Created(d)
    BY <1>2 DEF DbType, Created
  <1>4. /\ derived \in DbType /\ derived.job = born.job /\ derived.item = born.item
        /\ derived.announced = d.announced
    <2> HIDE DEF stored
    <2>1. derived \in DbType
      BY <1>1, <1>3, InsertType DEF Derive
    <2>2. /\ derived.job = born.job /\ derived.item = born.item
          /\ derived.announced = d.announced
      BY <1>3 DEF Derive, Insert, DbType
    <2> QED BY <2>1, <2>2
  <1>5. ASSUME NEW r \in ItemRow
        PROVE  Released(r, "succeeded", FALSE) \in ItemRow
               /\ Released(r, "succeeded", FALSE).status = "succeeded"
    BY DEF Released, ItemRow, ItemStatus, Settled
  <1>6. Complete(d, i, t, J) = Reconcile(Refresh(done, JobOf(i)))
    BY DEF Complete
  <1> HIDE DEF derived, born
  <1>7. done = [derived EXCEPT !.item = [derived.item EXCEPT ![i] =
                                          Released(derived.item[i], "succeeded", FALSE)]]
    BY <1>4 DEF DbType
  <1>8. /\ done \in DbType /\ done.job = derived.job /\ done.announced = derived.announced
        /\ \A k \in Item : done.item[k].status =
             IF k = i THEN "succeeded" ELSE derived.item[k].status
    BY <1>4, <1>5, <1>7 DEF DbType
  <1> HIDE DEF done
  <1> QED BY <1>4, <1>6, <1>8 DEF born

LEMMA CompleteJobs ==
  ASSUME NEW d \in DbType, NEW i \in Item, NEW t \in Nat, NEW J \in SUBSET Job, JobsSound(d),
         d.item[i].status = "running"
  PROVE  JobsSound(Complete(d, i, t, J))
  <1> DEFINE born == Insert(d, J, d.job[JobOf(i)].sinks)
             j == JobOf(i)
  <1>1. j \in Job /\ i \in ItemsOf(j) /\ d.job[j].sinks \in SUBSET Sink
    BY ItemFacts DEF DbType, JobRow
  <1>2. PICK done \in DbType :
          /\ Complete(d, i, t, J) = Reconcile(Refresh(done, j))
          /\ done.job = born.job /\ done.announced = d.announced
          /\ \A k \in Item : done.item[k].status = IF k = i THEN "succeeded" ELSE born.item[k].status
    BY CompleteParts
  <1>3. born \in DbType /\ JobsSound(born)
    BY <1>1, InsertType, InsertJobs
  <1>4. j \in Created(d)
    BY <1>1 DEF Created, JobsSound, JobSound, Unborn
  <1>5. /\ born.job[j] = d.job[j] /\ born.announced = d.announced
        /\ \A k \in ItemsOf(j) : born.item[k] = d.item[k]
    BY <1>1, <1>4, ItemsOfFacts DEF Insert, DbType
  <1> HIDE DEF born
  <1>6. Unrefreshed(done, j)
    BY <1>1, <1>2, <1>5, ItemsOfFacts, ItemLeaves DEF JobsSound
  <1>7. ASSUME NEW k \in Job \ {j} PROVE JobSound(done, k)
    <2>1. \A m \in ItemsOf(k) : m \in Item \ {i}
      BY ItemsOfFacts
    <2>2. SameStatuses(born, done, k)
      BY <1>2, <2>1 DEF SameStatuses
    <2> QED BY <1>2, <1>3, <1>5, <2>2, Untouched DEF JobsSound
  <1> QED BY <1>1, <1>2, <1>6, <1>7, WrapUpSound

-----------------------------------------------------------------------------
(* Derived jobs *)

LEMMA FollowKept ==
  ASSUME NEW d, NEW e, FollowSound(d), Preserves(d, e), Created(e) \subseteq Created(d)
  PROVE  FollowSound(e)
  <1> SUFFICES ASSUME NEW j \in Created(e), Parent[j] # NoItem
               PROVE  /\ e.item[Parent[j]].status = "succeeded"
                      /\ e.job[j].sinks = e.job[JobOf(Parent[j])].sinks
    BY DEF FollowSound
  <1>1. j \in Job /\ j \in Created(d) /\ Parent[j] \in Item
    BY ParentAssumption DEF Created
  <1>2. JobOf(Parent[j]) \in Job
    BY <1>1, ItemFacts
  <1> QED BY <1>1, <1>2 DEF FollowSound, Preserves

\* No statement but an insertion makes a job.
LEMMA SameCreated ==
  ASSUME NEW d \in DbType, NEW j \in Job
  PROVE  /\ Created(Recover(d)) = Created(d)
         /\ Created(Reconcile(d)) \subseteq Created(d)
         /\ d.job[j].status # "absent" => Created(Refresh(d, j)) \subseteq Created(d)
         /\ d.job[j].status # "absent" =>
              \A s : Created([d EXCEPT !.job[j].status = s]) \subseteq Created(d)
  <1>1. Created(Recover(d)) = Created(d)
    BY DEF Created, Recover, DbType
  <1>2. Created(Reconcile(d)) \subseteq Created(d)
    <2> DEFINE c == CancelPending(d)
    <2>1. c \in DbType /\ c.job = d.job
      BY CancelPendingType, CancelPendingFacts
    <2> HIDE DEF c
    <2>2. ASSUME NEW k \in Job, d.job[k].status = "absent"
          PROVE  SettleControls(c).job[k] = d.job[k]
      <3>1. c.job[k].status \notin {"pause_requested", "cancel_requested"}
        BY <2>1, <2>2
      <3> QED BY <2>1, <3>1 DEF SettleControls, DbType, Quiet
    <2> QED BY <2>2 DEF Created, Reconcile, c
  <1>3. ASSUME d.job[j].status # "absent" PROVE Created(Refresh(d, j)) \subseteq Created(d)
    BY <1>3, RefreshOthers DEF Created
  <1>4. ASSUME d.job[j].status # "absent", NEW s
        PROVE  Created([d EXCEPT !.job[j].status = s]) \subseteq Created(d)
    BY <1>4 DEF Created, DbType
  <1> QED BY <1>1, <1>2, <1>3, <1>4

LEMMA WrapUpFollow ==
  ASSUME NEW d \in DbType, NEW j \in Created(d), FollowSound(d)
  PROVE  FollowSound(Reconcile(Refresh(d, j)))
  <1>1. j \in Job /\ d.job[j].status # "absent"
    BY DEF Created
  <1>2. /\ Refresh(d, j) \in DbType /\ Preserves(d, Refresh(d, j))
        /\ Created(Refresh(d, j)) \subseteq Created(d)
    BY <1>1, RefreshType, RefreshPreserves, SameCreated
  <1>3. FollowSound(Refresh(d, j))
    BY <1>2, FollowKept
  <1> QED BY <1>1, <1>2, <1>3, ReconcilePreserves, SameCreated, FollowKept

LEMMA ControlFollow ==
  ASSUME NEW d \in DbType, NEW j \in Created(d), FollowSound(d)
  PROVE  /\ FollowSound(RequestPause(d, j))
         /\ FollowSound(ResumeJob(d, j))
         /\ FollowSound(RequestCancel(d, j))
  <1>1. j \in Job /\ d.job[j].status # "absent"
    BY DEF Created
  <1>2. {"pause_requested", "running", "pending", "cancel_requested"} \subseteq JobStatus
    BY DEF JobStatus
  <1>3. ASSUME NEW s \in JobStatus
        PROVE  /\ FollowSound([d EXCEPT !.job[j].status = s])
               /\ FollowSound(Reconcile([d EXCEPT !.job[j].status = s]))
    <2>1. FollowSound([d EXCEPT !.job[j].status = s])
      BY <1>1, StatusPreserves, SameCreated, FollowKept
    <2>2. [d EXCEPT !.job[j].status = s] \in DbType
      BY <1>1, StatusType
    <2> HIDE DEF FollowSound
    <2> QED BY <1>1, <2>1, <2>2, ReconcilePreserves, SameCreated, FollowKept
  <1> QED BY <1>2, <1>3 DEF RequestPause, ResumeJob, RequestCancel

\* An insertion keeps what exists, and its jobs derive from an item that has succeeded.
LEMMA InsertFollow ==
  ASSUME NEW d \in DbType, JobsSound(d), FollowSound(d), NEW J \in SUBSET Job, NEW sinks,
         NEW e, e.job = Insert(d, J, sinks).job,
         \A k \in Item : d.item[k].status = "succeeded" => e.item[k].status = "succeeded",
         \A j \in J \ Created(d) : Parent[j] # NoItem =>
           /\ e.item[Parent[j]].status = "succeeded"
           /\ JobOf(Parent[j]) \in Created(d)
           /\ sinks = d.job[JobOf(Parent[j])].sinks
  PROVE  FollowSound(e)
  <1>1. ASSUME NEW j \in Job \ (J \ Created(d)) PROVE e.job[j] = d.job[j]
    BY DEF Insert, DbType
  <1>2. ASSUME NEW j \in J \ Created(d) PROVE e.job[j].sinks = sinks
    BY DEF Insert, DbType, NoJobRow
  <1>3. ASSUME NEW i \in Item, d.item[i].status = "succeeded" PROVE JobOf(i) \in Created(d)
    <2>1. JobOf(i) \in Job /\ i \in ItemsOf(JobOf(i))
      BY ItemFacts
    <2> QED BY <1>3, <2>1 DEF JobsSound, JobSound, Unborn, Created
  <1> SUFFICES ASSUME NEW j \in Created(e), Parent[j] # NoItem
               PROVE  /\ e.item[Parent[j]].status = "succeeded"
                      /\ e.job[j].sinks = e.job[JobOf(Parent[j])].sinks
    BY DEF FollowSound
  <1>4. j \in Job /\ Parent[j] \in Item
    BY ParentAssumption DEF Created
  <1>5. CASE j \in J \ Created(d)
    <2>1. JobOf(Parent[j]) \in Job \ (J \ Created(d))
      BY <1>5 DEF Created
    <2> QED BY <1>1, <1>2, <1>5, <2>1
  <1>6. CASE j \notin J \ Created(d)
    <2>1. j \in Created(d) /\ e.job[j] = d.job[j]
      BY <1>1, <1>4, <1>6 DEF Created
    <2>2. d.item[Parent[j]].status = "succeeded" /\ d.job[j].sinks = d.job[JobOf(Parent[j])].sinks
      BY <1>4, <2>1 DEF FollowSound
    <2>3. JobOf(Parent[j]) \in Created(d)
      BY <1>3, <1>4, <2>2
    <2>4. e.job[JobOf(Parent[j])] = d.job[JobOf(Parent[j])]
      BY <1>1, <2>3 DEF Created
    <2> QED BY <1>4, <2>1, <2>2, <2>4
  <1> QED BY <1>5, <1>6

LEMMA CompleteFollow ==
  ASSUME NEW d \in DbType, NEW i \in Item, NEW t \in Nat, NEW J \in SUBSET Followups(i),
         JobsSound(d), FollowSound(d), d.item[i].status = "running"
  PROVE  FollowSound(Complete(d, i, t, J))
  <1> DEFINE sinks == d.job[JobOf(i)].sinks
             born == Insert(d, J, sinks)
             j == JobOf(i)
  <1>1. j \in Job /\ i \in ItemsOf(j) /\ J \in SUBSET Job
    BY ItemFacts DEF Followups
  <1>2. PICK done \in DbType :
          /\ Complete(d, i, t, J) = Reconcile(Refresh(done, j))
          /\ done.job = born.job /\ done.announced = d.announced
          /\ \A k \in Item : done.item[k].status = IF k = i THEN "succeeded" ELSE born.item[k].status
    BY CompleteParts
  <1>3. j \in Created(d)
    BY <1>1 DEF Created, JobsSound, JobSound, Unborn
  <1>4. ASSUME NEW k \in Item, d.item[k].status = "succeeded" PROVE done.item[k].status = "succeeded"
    <2>1. JobOf(k) \in Job /\ k \in ItemsOf(JobOf(k))
      BY ItemFacts
    <2>2. JobOf(k) \in Created(d)
      BY <1>4, <2>1 DEF JobsSound, JobSound, Unborn, Created
    <2>3. born.item[k] = d.item[k]
      BY <2>1, <2>2 DEF Insert, DbType
    <2> QED BY <1>2, <1>4, <2>3
  <1>5. born.job[j] = d.job[j]
    BY <1>1, <1>3 DEF Insert, DbType
  <1>6. FollowSound(done)
    <2>1. \A k \in J : Parent[k] = i
      BY DEF Followups
    <2>2. done.item[i].status = "succeeded"
      BY <1>2
    <2>3. \A k \in J \ Created(d) : Parent[k] # NoItem =>
            /\ done.item[Parent[k]].status = "succeeded"
            /\ JobOf(Parent[k]) \in Created(d)
            /\ sinks = d.job[JobOf(Parent[k])].sinks
      BY <1>3, <2>1, <2>2
    <2>4. done.job = Insert(d, J, sinks).job
      BY <1>2
    <2> HIDE DEF sinks
    <2> QED BY <1>1, <1>4, <2>3, <2>4, InsertFollow
  <1>7. j \in Created(done)
    BY <1>2, <1>3, <1>5 DEF Created
  <1> QED BY <1>2, <1>6, <1>7, WrapUpFollow

LEMMA RecoverFollow ==
  ASSUME NEW d \in DbType, FollowSound(d)
  PROVE  FollowSound(Recover(d))
  <1>1. CASE Job = {}
    BY <1>1 DEF FollowSound, Created
  <1>2. CASE Job # {}
    <2>1. PICK j \in Job : TRUE
      BY <1>2
    <2> QED BY <2>1, RecoverPreserves, SameCreated, FollowKept
  <1> QED BY <1>1, <1>2

LEMMA ReconcileFollow ==
  ASSUME NEW d \in DbType, FollowSound(d)
  PROVE  FollowSound(Reconcile(d))
  <1>1. CASE Job = {}
    BY <1>1 DEF FollowSound, Created
  <1>2. CASE Job # {}
    <2>1. PICK j \in Job : TRUE
      BY <1>2
    <2> QED BY <2>1, ReconcilePreserves, SameCreated, FollowKept
  <1> QED BY <1>1, <1>2

\* A claim starts an item that has derived nothing yet.
LEMMA LeaseFollow ==
  ASSUME NEW d \in DbType, NEW i \in Item, NEW o, FollowSound(d),
         d.item[i].status = "pending", d.job[JobOf(i)].status \in {"pending", "running"}
  PROVE  FollowSound(Lease(d, i, o))
  <1> DEFINE e == Lease(d, i, o)
             b == JobOf(i)
             status == IF d.job[b].status = "pending" THEN "running" ELSE d.job[b].status
  <1>1. b \in Job /\ d.job[b] \in JobRow /\ d.item[i] \in ItemRow
    BY ItemFacts DEF DbType
  <1>2. /\ e.item = [d.item EXCEPT ![i] = Leased(d.item[i], o, FreshToken(d, i))]
        /\ e.job = [d.job EXCEPT ![b] = [d.job[b] EXCEPT !.status = status]]
    BY <1>1 DEF Lease, DbType
  <1>3. \A k \in Item \ {i} : e.item[k] = d.item[k]
    BY <1>2 DEF DbType
  <1>4. [d.job[b] EXCEPT !.status = status].sinks = d.job[b].sinks
    BY <1>1 DEF JobRow
  <1>5. \A k \in Job : e.job[k].sinks = d.job[k].sinks
    BY <1>1, <1>2, <1>4 DEF DbType
  <1>6. \A k \in Job \ {b} : e.job[k] = d.job[k]
    BY <1>1, <1>2 DEF DbType
  <1> HIDE DEF e, status
  <1> SUFFICES ASSUME NEW j \in Created(e), Parent[j] # NoItem
               PROVE  /\ e.item[Parent[j]].status = "succeeded"
                      /\ e.job[j].sinks = e.job[JobOf(Parent[j])].sinks
    BY DEF FollowSound, e
  <1>7. j \in Job /\ Parent[j] \in Item /\ JobOf(Parent[j]) \in Job
    BY ParentAssumption, ItemFacts DEF Created
  <1>8. j \in Created(d)
    BY <1>6, <1>7 DEF Created
  <1>9. /\ d.item[Parent[j]].status = "succeeded"
        /\ d.job[j].sinks = d.job[JobOf(Parent[j])].sinks
    BY <1>8 DEF FollowSound
  <1> QED BY <1>3, <1>5, <1>7, <1>9

LEMMA FailFollow ==
  ASSUME NEW d \in DbType, NEW i \in Item, NEW r \in BOOLEAN, JobsSound(d), FollowSound(d),
         d.item[i].status = "running"
  PROVE  FollowSound(Fail(d, i, r))
  <1> DEFINE status == IF MayRetry(d.item[i], JobOf(i), r) THEN "pending" ELSE "failed"
             row == Released(d.item[i], status, FALSE)
             failed == [d EXCEPT !.item[i] = Released(@, status, FALSE)]
  <1>1. JobOf(i) \in Job /\ i \in ItemsOf(JobOf(i)) /\ d.item[i] \in ItemRow
    BY ItemFacts DEF DbType
  <1>2. row \in ItemRow /\ row.status = status /\ row.attempts = d.item[i].attempts
    BY <1>1 DEF Released, ItemRow, ItemStatus, Settled
  <1>3. status \in {"pending", "failed"}
    OBVIOUS
  <1>4. failed = [d EXCEPT !.item = [d.item EXCEPT ![i] = row]]
    BY DEF DbType
  <1>5. Fail(d, i, r) = Reconcile(Refresh(failed, JobOf(i)))
    BY DEF Fail
  <1> HIDE DEF failed, row, status
  <1>6. failed \in DbType
    BY <1>2, <1>4 DEF DbType
  <1>7. Preserves(d, failed)
    BY <1>2, <1>3, <1>4 DEF Preserves, DbType
  <1>8. failed.job = d.job
    BY <1>4 DEF DbType
  <1>9. Created(failed) = Created(d) /\ JobOf(i) \in Created(d)
    BY <1>1, <1>8 DEF Created, JobsSound, JobSound, Unborn
  <1>10. FollowSound(failed)
    BY <1>7, <1>9, FollowKept
  <1> QED BY <1>5, <1>6, <1>9, <1>10, WrapUpFollow

\* The passing of time changes no status.
LEMMA ExpirySound ==
  ASSUME NEW d \in DbType, NEW i \in Item, NEW b \in BOOLEAN, NEW e,
         \/ e = [d EXCEPT !.item[i].expired = b]
         \/ e = [d EXCEPT !.item[i].ready = b],
         JobsSound(d), FollowSound(d)
  PROVE  JobsSound(e) /\ FollowSound(e)
  <1>1. Preserves(d, e)
    BY ExpiryPreserves
  <1>2. e.job = d.job /\ e.announced = d.announced
    BY DEF DbType
  <1>3. FollowSound(e)
    BY <1>1, <1>2, FollowKept DEF Created
  <1>4. ASSUME NEW row \in ItemRow
        PROVE  [row EXCEPT !.expired = b].status = row.status
               /\ [row EXCEPT !.ready = b].status = row.status
    BY DEF ItemRow
  <1>5. \/ e.item = [d.item EXCEPT ![i] = [d.item[i] EXCEPT !.expired = b]]
        \/ e.item = [d.item EXCEPT ![i] = [d.item[i] EXCEPT !.ready = b]]
    BY DEF DbType
  <1>6. \A k \in Item : e.item[k].status = d.item[k].status
    <2>1. d.item \in [Item -> ItemRow] /\ d.item[i] \in ItemRow
      BY DEF DbType
    <2>2. [d.item[i] EXCEPT !.expired = b].status = d.item[i].status
          /\ [d.item[i] EXCEPT !.ready = b].status = d.item[i].status
      BY <1>4, <2>1
    <2> QED BY <1>5, <2>1, <2>2
  <1>7. ASSUME NEW j \in Job PROVE JobSound(e, j)
    BY <1>2, <1>6, Untouched, ItemsOfFacts DEF SameStatuses, JobsSound
  <1> QED BY <1>3, <1>7 DEF JobsSound

-----------------------------------------------------------------------------
(* The theorems *)

LEMMA InitStatus == Init => StatusInv
  <1> SUFFICES ASSUME Init PROVE StatusInv
    OBVIOUS
  <1>1. ASSUME NEW j \in Job PROVE JobSound(db, j) /\ j \notin Created(db)
    <2>1. db.job[j].status = "absent" /\ db.announced[j] = << >>
      BY DEF Init, EmptyDb, NoJobRow
    <2>2. \A i \in ItemsOf(j) : db.item[i].status = "absent"
      BY ItemsOfFacts DEF Init, EmptyDb, NoItemRow
    <2> QED BY <2>1, <2>2 DEF JobSound, Unborn, Created
  <1>2. Created(db) = {}
    BY <1>1 DEF Created
  <1> QED BY <1>1, <1>2, InitLease DEF StatusInv, JobsSound, FollowSound

\* What a claim begins with: recovered leases, then settled requests
LEMMA BeforeClaimStatus ==
  ASSUME db \in DbType, JobsSound(db), FollowSound(db)
  PROVE  BeforeClaim \in DbType /\ JobsSound(BeforeClaim) /\ FollowSound(BeforeClaim)
  BY RecoverType, ReconcileType, RecoverJobs, RecoverFollow, ReconcileJobs, ReconcileFollow
    DEF BeforeClaim

LEMMA NextStatus == StatusInv /\ [Next]_vars => StatusInv'
  <1> SUFFICES ASSUME StatusInv, [Next]_vars PROVE StatusInv'
    OBVIOUS
  <1>1. LeaseInv' /\ JobsSound(db) /\ FollowSound(db) /\ db \in DbType
    BY NextLease DEF StatusInv, LeaseInv, TypeInv, TypeOK
  <1>2. \A s \in Slot : Busy(s) => slot[s].item \in Item /\ slot[s].token \in Nat
    BY DEF StatusInv, LeaseInv, TypeInv, TypeOK
  <1> SUFFICES JobsSound(db') /\ FollowSound(db')
    BY <1>1 DEF StatusInv
  <1>3. ASSUME NEW j \in Job, Client(j) PROVE JobsSound(db') /\ FollowSound(db')
    <2>1. ASSUME NEW sinks \in SUBSET Sink, CreateJob(j, sinks)
          PROVE  JobsSound(db') /\ FollowSound(db')
      <3>1. /\ db' = Insert(db, {j}, sinks) /\ {j} \in SUBSET Job
            /\ \A k \in {j} : Parent[k] = NoItem
        BY <2>1 DEF CreateJob
      <3>2. JobsSound(db')
        BY <1>1, <3>1, InsertJobs
      <3>3. ASSUME NEW k \in Item, db.item[k].status = "succeeded"
            PROVE  db'.item[k].status = "succeeded"
        <4>1. JobOf(k) \in Job /\ k \in ItemsOf(JobOf(k))
          BY ItemFacts
        <4>2. JobOf(k) \in Created(db)
          BY <1>1, <3>3, <4>1 DEF JobsSound, JobSound, Unborn, Created
        <4> QED BY <1>1, <3>1, <3>3, <4>2 DEF Insert, DbType
      <3>4. FollowSound(db')
        BY <1>1, <3>1, <3>3, InsertFollow
      <3> QED BY <3>2, <3>4
    <2>2. CASE Pause(j) \/ Resume(j) \/ Cancel(j)
      BY <1>1, <2>2, ControlJobs, ControlFollow DEF Pause, Resume, Cancel
    <2> QED BY <1>3, <2>1, <2>2 DEF Client
  <1>4. ASSUME NEW s \in Slot, Work(s) PROVE JobsSound(db') /\ FollowSound(db')
    <2>1. CASE ClaimNothing(s)
      BY <1>1, <2>1, BeforeClaimStatus DEF ClaimNothing
    <2>2. CASE ClaimItem(s)
      <3>1. PICK i \in Item : Claims(s, i)
        BY <2>2, ClaimFacts
      <3>2. BeforeClaim \in DbType /\ JobsSound(BeforeClaim) /\ FollowSound(BeforeClaim)
        BY <1>1, BeforeClaimStatus
      <3> QED BY <3>1, <3>2, LeaseJobs, LeaseFollow DEF Claims
    <2>3. CASE Heartbeat(s)
      <3>1. slot[s].item \in Item /\ db' = [db EXCEPT !.item[slot[s].item].expired = FALSE]
        BY <1>2, <2>3 DEF Heartbeat
      <3>2. \A i \in Item : \A e : e = [db EXCEPT !.item[i].expired = FALSE] =>
              JobsSound(e) /\ FollowSound(e)
        BY <1>1, ExpirySound
      <3> QED BY <3>1, <3>2
    <2>4. CASE CompleteItem(s)
      <3>1. Busy(s) /\ db.item[slot[s].item].status = "running"
        BY <2>4 DEF CompleteItem, Busy, OwnsLease, Owns
      <3>2. PICK J \in SUBSET Followups(slot[s].item) :
              db' = Complete(db, slot[s].item, slot[s].token, J)
        BY <2>4 DEF CompleteItem
      <3>3. J \in SUBSET Job
        BY DEF Followups
      <3> QED BY <1>1, <1>2, <3>1, <3>2, <3>3, CompleteJobs, CompleteFollow
    <2>5. ASSUME NEW r \in BOOLEAN, FailItem(s, r) \/ (r /\ FailInternal(s))
          PROVE  JobsSound(db') /\ FollowSound(db')
      <3>1. Busy(s) /\ db.item[slot[s].item].status = "running"
        BY <2>5 DEF FailItem, FailInternal, Busy, OwnsLease, Owns
      <3>2. db' = Fail(db, slot[s].item, r)
        BY <2>5 DEF FailItem, FailInternal
      <3> QED BY <1>1, <1>2, <3>1, <3>2, FailJobs, FailFollow
    <2>6. CASE LeaseLost(s) \/ Raise(s) \/ Crash(s)
      BY <1>1, <2>6 DEF LeaseLost, Raise, Crash
    <2>7. CASE Restart(s)
      BY <1>1, <2>7, RecoverJobs, RecoverFollow DEF Restart
    <2> QED
      BY <1>4, <2>1, <2>2, <2>3, <2>4, <2>5, <2>6, <2>7 DEF Work, Claim, Report
  <1>5. ASSUME NEW i \in Item, Time(i) PROVE JobsSound(db') /\ FollowSound(db')
    BY <1>1, <1>5, ExpirySound DEF Time, LeaseTimesOut, BackoffElapses
  <1>6. CASE UNCHANGED vars
    BY <1>1, <1>6 DEF vars
  <1> QED BY <1>3, <1>4, <1>5, <1>6 DEF Next

\* A job is over exactly when all its items are settled, ends with the status that
\* says what became of them, and nothing runs in a job that is paused or not started.
THEOREM StatusMatches == Spec => []StatusMatchesItems
  <1>1. StatusInv => StatusMatchesItems
    BY DEF StatusInv, JobsSound, JobSound, StatusSound, StatusMatchesItems, Created
  <1> QED BY InitStatus, NextStatus, <1>1, PTL DEF Spec

\* The counters of a job are those of its items, and its checkpoint stands right
\* before its first open item, except while a cancellation waits for running items.
THEOREM CountersMatch == Spec => []CountersMatchItems
  <1>1. StatusInv => CountersMatchItems
    BY DEF StatusInv, JobsSound, JobSound, CountsSound, UpTo, NextOpen, CountersMatchItems,
           SettledUpTo, OpenAfter, Created
  <1> QED BY InitStatus, NextStatus, <1>1, PTL DEF Spec

\* A derived job exists only once its parent item has succeeded, and delivers to
\* the sinks of its parent's job.
THEOREM FollowupsSound == Spec => []FollowupsAtomic
  <1>1. StatusInv => FollowupsAtomic
    BY DEF StatusInv, FollowSound, FollowupsAtomic
  <1> QED BY InitStatus, NextStatus, <1>1, PTL DEF Spec

-----------------------------------------------------------------------------
(* The contract of JobContract *)

\* The contract's view of a database
PhaseIn(d, j) ==
  LET status == d.job[j].status IN
  IF status \in {"pending", "running", "pause_requested"} THEN "open"
  ELSE IF status = "paused" THEN "held"
  ELSE IF status = "cancel_requested" THEN "closing"
  ELSE status
OutcomeIn(d, i) == IF d.item[i].status \in Settled THEN d.item[i].status ELSE "open"

SettlesInto(d, e, j, S) ==
  \A i \in ItemsOf(j) :
    \/ OutcomeIn(e, i) = OutcomeIn(d, i)
    \/ OutcomeIn(d, i) = "open" /\ OutcomeIn(e, i) \in S
SameOutcomes(d, e, j) == SettlesInto(d, e, j, {})
SameView(d, e, j) == PhaseIn(e, j) = PhaseIn(d, j) /\ SameOutcomes(d, e, j)

\* What the statements that end a transaction (Refresh, Reconcile) may do to a job
WindsUp(d, e, j) ==
  \/ SameView(d, e, j)
  \/ /\ PhaseIn(d, j) = "open" /\ PhaseIn(e, j) \in {"held", "succeeded", "partial", "failed"}
     /\ SameOutcomes(d, e, j)
  \/ /\ PhaseIn(d, j) = "closing" /\ PhaseIn(e, j) \in {"closing", "cancelled"}
     /\ SettlesInto(d, e, j, {"cancelled"})

\* What a transaction may do to a job that exists and is not released
Advances(d, e, j) ==
  \/ SameView(d, e, j)
  \/ /\ PhaseIn(d, j) = "open"
     /\ PhaseIn(e, j) \in {"open", "held", "succeeded", "partial", "failed"}
     /\ SettlesInto(d, e, j, {"succeeded", "failed"})
  \/ /\ PhaseIn(d, j) \in {"open", "held"} /\ PhaseIn(e, j) \in {"closing", "cancelled"}
     /\ SettlesInto(d, e, j, {"cancelled"})
  \/ /\ PhaseIn(d, j) = "closing" /\ PhaseIn(e, j) \in {"closing", "cancelled"}
     /\ SettlesInto(d, e, j, Settled)

\* What it may do to any job
Moves(d, e, j) ==
  \/ Advances(d, e, j)
  \/ PhaseIn(d, j) = "absent" /\ PhaseIn(e, j) = "open" /\ SameOutcomes(d, e, j)
  \/ PhaseIn(d, j) = "held" /\ PhaseIn(e, j) = "open" /\ SameOutcomes(d, e, j)

LEMMA WindUpAdvances ==
  ASSUME NEW d, NEW m, NEW e, NEW j, Advances(d, m, j), WindsUp(m, e, j)
  PROVE  Advances(d, e, j)
  <1>1. CASE SameView(m, e, j)
    BY <1>1 DEF Advances, SameView, SameOutcomes, SettlesInto
  <1>2. CASE /\ PhaseIn(m, j) = "open"
             /\ PhaseIn(e, j) \in {"held", "succeeded", "partial", "failed"}
             /\ SameOutcomes(m, e, j)
    BY <1>2 DEF Advances, SameView, SameOutcomes, SettlesInto
  <1>3. CASE /\ PhaseIn(m, j) = "closing" /\ PhaseIn(e, j) \in {"closing", "cancelled"}
             /\ SettlesInto(m, e, j, {"cancelled"})
    <2>1. "cancelled" \in Settled
      BY DEF Settled
    <2> QED BY <1>3, <2>1 DEF Advances, SameView, SameOutcomes, SettlesInto
  <1> QED BY <1>1, <1>2, <1>3 DEF WindsUp

LEMMA SameStatusesView ==
  ASSUME NEW d, NEW e, NEW j, SameStatuses(d, e, j)
  PROVE  SameOutcomes(d, e, j)
  BY DEF SameStatuses, SameOutcomes, SettlesInto, OutcomeIn

LEMMA RecoverView ==
  ASSUME NEW d \in DbType, NEW j \in Job
  PROVE  SameView(d, Recover(d), j)
  <1> DEFINE e == Recover(d)
  <1>1. ASSUME NEW r \in ItemRow PROVE Released(r, "pending", TRUE).status = "pending"
    BY DEF Released, ItemRow
  <1>2. /\ e.job = d.job
        /\ \A i \in Item : \/ e.item[i].status = d.item[i].status
                           \/ d.item[i].status = "running" /\ e.item[i].status = "pending"
    BY <1>1 DEF Recover, DbType, LeaseExpired
  <1> HIDE DEF e
  <1>3. \A i \in ItemsOf(j) : OutcomeIn(e, i) = OutcomeIn(d, i)
    BY <1>2, ItemsOfFacts DEF OutcomeIn, Settled
  <1> QED BY <1>2, <1>3 DEF SameView, SameOutcomes, SettlesInto, PhaseIn, e

LEMMA ReconcileWindsUp ==
  ASSUME NEW d \in DbType, NEW j \in Job
  PROVE  /\ WindsUp(d, Reconcile(d), j)
         /\ d.job[j].status \notin {"pause_requested", "cancel_requested"} =>
              SameView(d, Reconcile(d), j)
  <1> DEFINE c == CancelPending(d)
             e == SettleControls(c)
  <1>1. /\ c.job = d.job
        /\ \A i \in ItemsOf(j) : c.item[i].status =
             IF d.job[j].status = "cancel_requested" /\ d.item[i].status = "pending"
             THEN "cancelled" ELSE d.item[i].status
    BY CancelPendingFacts
  <1>2. c \in DbType /\ Reconcile(d) = e
    BY CancelPendingType DEF Reconcile
  <1> HIDE DEF c
  <1>3. /\ e.item = c.item
        /\ j \in Quiet(c, "pause_requested") => e.job[j] = [c.job[j] EXCEPT !.status = "paused"]
        /\ j \in Quiet(c, "cancel_requested") =>
             e.job[j] = [Counted(c, j) EXCEPT !.status = "cancelled"]
        /\ j \notin Quiet(c, "pause_requested") \cup Quiet(c, "cancel_requested") =>
             e.job[j] = c.job[j]
    BY <1>2, SettleFacts
  <1> HIDE DEF e
  <1>4. /\ [c.job[j] EXCEPT !.status = "paused"].status = "paused"
        /\ [Counted(c, j) EXCEPT !.status = "cancelled"].status = "cancelled"
    <2>1. c.job[j] \in JobRow
      BY <1>2 DEF DbType
    <2>2. [c.job[j] EXCEPT !.status = "paused"].status = "paused"
      BY <2>1 DEF JobRow
    <2>3. [Counted(c, j) EXCEPT !.status = "cancelled"].status = "cancelled"
      BY <1>2, CountedFields
    <2> QED BY <2>2, <2>3
  <1>5. \/ e.job[j].status = d.job[j].status
        \/ d.job[j].status = "pause_requested" /\ e.job[j].status = "paused"
        \/ d.job[j].status = "cancel_requested" /\ e.job[j].status = "cancelled"
    BY <1>1, <1>3, <1>4 DEF Quiet
  <1>6. CASE d.job[j].status # "cancel_requested"
    <2>1. SameOutcomes(d, e, j)
      BY <1>1, <1>3, <1>6, SameStatusesView DEF SameStatuses
    <2> QED BY <1>2, <1>5, <1>6, <2>1 DEF WindsUp, SameView, PhaseIn
  <1>7. CASE d.job[j].status = "cancel_requested"
    <2>1. SettlesInto(d, e, j, {"cancelled"})
      BY <1>1, <1>3, <1>7 DEF SettlesInto, OutcomeIn, Settled
    <2>2. PhaseIn(d, j) = "closing" /\ PhaseIn(e, j) \in {"closing", "cancelled"}
      BY <1>5, <1>7 DEF PhaseIn
    <2> QED BY <1>2, <1>7, <2>1, <2>2 DEF WindsUp
  <1> QED BY <1>6, <1>7

LEMMA RefreshWindsUp ==
  ASSUME NEW d \in DbType, NEW j \in Job, Unrefreshed(d, j), NEW k \in Job
  PROVE  WindsUp(d, Refresh(d, j), k)
  <1> DEFINE e == Refresh(d, j)
  <1>1. CASE k # j
    BY <1>1, RefreshOthers, SameStatusesView DEF WindsUp, SameView, PhaseIn
  <1>2. CASE k = j /\ Open(d, j) # {}
    <2>1. e.job[j] = Counted(d, j) /\ e.item = d.item
      BY <1>2 DEF Refresh, DbType
    <2> HIDE DEF e
    <2>2. e.job[j].status = d.job[j].status /\ SameStatuses(d, e, j)
      BY <2>1, CountedFields DEF SameStatuses
    <2>3. SameView(d, e, j)
      BY <2>2, SameStatusesView DEF SameView, PhaseIn
    <2> QED BY <1>2, <2>3 DEF WindsUp, e
  <1>3. CASE k = j /\ Open(d, j) = {}
    <2> DEFINE v == Verdict(d, j)
    <2>1. e.job[j] = [Counted(d, j) EXCEPT !.status = v] /\ e.item = d.item
      BY <1>3 DEF Refresh, DbType
    <2> HIDE DEF e, v
    <2>2. e.job[j].status = v /\ SameStatuses(d, e, j)
      BY <2>1, CountedFields DEF SameStatuses
    <2>3. SameOutcomes(d, e, j)
      BY <2>2, SameStatusesView
    <2>4. SettlesInto(d, e, j, {"cancelled"})
      BY <2>3 DEF SameOutcomes, SettlesInto
    <2>5. CASE d.job[j].status = "cancel_requested"
      <3>1. v = "cancelled"
        BY <2>5 DEF Verdict, v
      <3> QED BY <1>3, <2>2, <2>4, <2>5, <3>1 DEF WindsUp, PhaseIn, e
    <2>6. CASE d.job[j].status # "cancel_requested"
      <3>1. WithStatus(d, j, {"cancelled"}) # ItemsOf(j)
        <4>1. WithStatus(d, j, {"cancelled"}) = {}
          BY <2>6 DEF Unrefreshed
        <4>2. ItemsOf(j) # {}
          BY ItemsOfFacts
        <4> QED BY <4>1, <4>2
      <3>2. v \in {"succeeded", "partial", "failed"}
        BY <2>6, <3>1 DEF Verdict, v
      <3>3. d.job[j].status \in {"running", "pause_requested"}
        BY <2>6 DEF Unrefreshed
      <3> QED BY <1>3, <2>2, <2>3, <3>2, <3>3 DEF WindsUp, PhaseIn, e
    <2> QED BY <2>5, <2>6
  <1> QED BY <1>1, <1>2, <1>3

\* An item that ran settles, or goes back to wait.
LEMMA ItemAdvances ==
  ASSUME NEW d \in DbType, NEW i \in Item, NEW e, JobSound(d, JobOf(i)),
         d.item[i].status = "running",
         e.job[JobOf(i)] = d.job[JobOf(i)], e.announced[JobOf(i)] = d.announced[JobOf(i)],
         e.item[i].status \in {"pending", "failed", "succeeded"},
         \A k \in ItemsOf(JobOf(i)) \ {i} : e.item[k].status = d.item[k].status
  PROVE  Advances(d, e, JobOf(i)) /\ Unrefreshed(e, JobOf(i))
  <1> DEFINE j == JobOf(i)
  <1>1. Unrefreshed(e, j)
    BY ItemLeaves
  <1>2. SettlesInto(d, e, j, {"succeeded", "failed"})
    BY DEF SettlesInto, OutcomeIn, Settled
  <1>3. SettlesInto(d, e, j, Settled)
    BY <1>2 DEF SettlesInto, Settled
  <1>4. PhaseIn(e, j) = PhaseIn(d, j)
    BY DEF PhaseIn
  <1>5. PhaseIn(d, j) \in {"open", "closing"}
    BY <1>1 DEF Unrefreshed, PhaseIn
  <1> QED BY <1>1, <1>2, <1>3, <1>4, <1>5 DEF Advances

LEMMA WrapUpMoves ==
  ASSUME NEW d, NEW m \in DbType, NEW j \in Job, Unrefreshed(m, j), NEW k \in Job,
         \/ Advances(d, m, k)
         \/ /\ k # j /\ m.job[k].status = "pending"
            /\ PhaseIn(d, k) = "absent" /\ SameOutcomes(d, m, k)
  PROVE  Moves(d, Reconcile(Refresh(m, j)), k)
  <1> DEFINE f == Refresh(m, j)
  <1>1. f \in DbType
    BY RefreshType
  <1>2. WindsUp(m, f, k)
    BY RefreshWindsUp
  <1>3. CASE Advances(d, m, k)
    BY <1>1, <1>2, <1>3, ReconcileWindsUp, WindUpAdvances DEF Moves
  <1>4. CASE /\ k # j /\ m.job[k].status = "pending"
             /\ PhaseIn(d, k) = "absent" /\ SameOutcomes(d, m, k)
    <2>1. f.job[k] = m.job[k] /\ SameOutcomes(m, f, k)
      BY <1>4, RefreshOthers, SameStatusesView
    <2> HIDE DEF f
    <2>2. SameView(f, Reconcile(f), k)
      BY <1>1, <1>4, <2>1, ReconcileWindsUp
    <2>3. PhaseIn(f, k) = "open"
      BY <1>4, <2>1 DEF PhaseIn
    <2> QED BY <1>4, <2>1, <2>2, <2>3 DEF Moves, SameView, SameOutcomes, SettlesInto, f
  <1> QED BY <1>3, <1>4

-----------------------------------------------------------------------------
(* What each transaction does to the contract's view *)

LEMMA InsertMoves ==
  ASSUME NEW d \in DbType, NEW J \in SUBSET Job, NEW sinks, JobsSound(d), NEW k \in Job
  PROVE  \/ SameView(d, Insert(d, J, sinks), k)
         \/ /\ PhaseIn(d, k) = "absent" /\ Insert(d, J, sinks).job[k].status = "pending"
            /\ SameOutcomes(d, Insert(d, J, sinks), k)
  <1> DEFINE e == Insert(d, J, sinks)
             new == J \ Created(d)
  <1>1. /\ \A i \in Item : e.item[i] = IF JobOf(i) \in new THEN PendingRow ELSE d.item[i]
        /\ k \notin new => e.job[k] = d.job[k]
        /\ k \in new => e.job[k].status = "pending"
    BY DEF Insert, DbType, NoJobRow
  <1>2. PendingRow.status = "pending"
    BY DEF PendingRow, NoItemRow
  <1> HIDE DEF e
  <1>3. CASE k \notin new
    <2>1. SameStatuses(d, e, k)
      BY <1>1, <1>3, ItemsOfFacts DEF SameStatuses
    <2> QED BY <1>1, <1>3, <2>1, SameStatusesView DEF SameView, PhaseIn, e
  <1>4. CASE k \in new
    <2>1. d.job[k].status = "absent" /\ \A i \in ItemsOf(k) : d.item[i].status = "absent"
      BY <1>4 DEF Created, JobsSound, JobSound, Unborn
    <2>2. \A i \in ItemsOf(k) : e.item[i].status = "pending"
      BY <1>1, <1>2, <1>4, ItemsOfFacts
    <2>3. SameOutcomes(d, e, k)
      BY <2>1, <2>2 DEF SameOutcomes, SettlesInto, OutcomeIn, Settled
    <2>4. PhaseIn(d, k) = "absent"
      BY <2>1 DEF PhaseIn
    <2> QED BY <1>1, <1>4, <2>3, <2>4 DEF e
  <1> QED BY <1>3, <1>4

LEMMA LeaseView ==
  ASSUME NEW d \in DbType, NEW i \in Item, NEW o, NEW k \in Job,
         d.item[i].status = "pending", d.job[JobOf(i)].status \in {"pending", "running"}
  PROVE  SameView(d, Lease(d, i, o), k)
  <1> DEFINE e == Lease(d, i, o)
             b == JobOf(i)
             status == IF d.job[b].status = "pending" THEN "running" ELSE d.job[b].status
  <1>1. b \in Job /\ d.job[b] \in JobRow /\ d.item[i] \in ItemRow
    BY ItemFacts DEF DbType
  <1>2. /\ e.item = [d.item EXCEPT ![i] = Leased(d.item[i], o, FreshToken(d, i))]
        /\ e.job = [d.job EXCEPT ![b] = [d.job[b] EXCEPT !.status = status]]
    BY <1>1 DEF Lease, DbType
  <1>3. /\ Leased(d.item[i], o, FreshToken(d, i)).status = "running"
        /\ [d.job[b] EXCEPT !.status = status].status = "running"
    BY <1>1 DEF Leased, ItemRow, JobRow
  <1>4. /\ e.item[i].status = "running" /\ \A m \in Item \ {i} : e.item[m] = d.item[m]
        /\ e.job[b].status = "running" /\ \A m \in Job \ {b} : e.job[m] = d.job[m]
    BY <1>1, <1>2, <1>3 DEF DbType
  <1> HIDE DEF e
  <1>5. \A m \in ItemsOf(k) : OutcomeIn(e, m) = OutcomeIn(d, m)
    BY <1>4, ItemsOfFacts DEF OutcomeIn, Settled
  <1>6. PhaseIn(e, k) = PhaseIn(d, k)
    BY <1>4 DEF PhaseIn
  <1> QED BY <1>5, <1>6 DEF SameView, SameOutcomes, SettlesInto, e

LEMMA FailMoves ==
  ASSUME NEW d \in DbType, NEW i \in Item, NEW r \in BOOLEAN, JobsSound(d),
         d.item[i].status = "running", NEW k \in Job
  PROVE  Moves(d, Fail(d, i, r), k)
  <1> DEFINE status == IF MayRetry(d.item[i], JobOf(i), r) THEN "pending" ELSE "failed"
             row == Released(d.item[i], status, FALSE)
             failed == [d EXCEPT !.item[i] = Released(@, status, FALSE)]
  <1>1. JobOf(i) \in Job /\ d.item[i] \in ItemRow
    BY ItemFacts DEF DbType
  <1>2. failed = [d EXCEPT !.item = [d.item EXCEPT ![i] = row]]
    BY DEF DbType
  <1>3. status \in {"pending", "failed"}
    OBVIOUS
  <1>4. Fail(d, i, r) = Reconcile(Refresh(failed, JobOf(i)))
    BY DEF Fail
  <1> HIDE DEF status, failed
  <1>5. row \in ItemRow /\ row.status = status
    BY <1>1, <1>3 DEF Released, ItemRow, ItemStatus, Settled
  <1> HIDE DEF row
  <1>6. /\ failed \in DbType /\ failed.job = d.job /\ failed.announced = d.announced
        /\ failed.item[i] = row /\ \A m \in Item \ {i} : failed.item[m] = d.item[m]
    BY <1>2, <1>5 DEF DbType
  <1>7. Advances(d, failed, JobOf(i)) /\ Unrefreshed(failed, JobOf(i))
    BY <1>1, <1>3, <1>5, <1>6, ItemsOfFacts, ItemAdvances DEF JobsSound
  <1>8. Advances(d, failed, k)
    <2>1. CASE k # JobOf(i)
      <3>1. \A m \in ItemsOf(k) : m \in Item \ {i}
        BY <2>1, ItemsOfFacts
      <3>2. SameStatuses(d, failed, k)
        BY <1>6, <3>1 DEF SameStatuses
      <3> QED BY <1>6, <3>2, SameStatusesView DEF Advances, SameView, PhaseIn
    <2> QED BY <1>7, <2>1
  <1> QED BY <1>1, <1>4, <1>6, <1>7, <1>8, WrapUpMoves

LEMMA CompleteMoves ==
  ASSUME NEW d \in DbType, NEW i \in Item, NEW t \in Nat, NEW J \in SUBSET Job, JobsSound(d),
         d.item[i].status = "running", NEW k \in Job
  PROVE  Moves(d, Complete(d, i, t, J), k)
  <1> DEFINE born == Insert(d, J, d.job[JobOf(i)].sinks)
             j == JobOf(i)
  <1>1. j \in Job /\ i \in ItemsOf(j) /\ d.job[j].sinks \in SUBSET Sink
    BY ItemFacts DEF DbType, JobRow
  <1>2. PICK done \in DbType :
          /\ Complete(d, i, t, J) = Reconcile(Refresh(done, j))
          /\ done.job = born.job /\ done.announced = d.announced
          /\ \A m \in Item : done.item[m].status = IF m = i THEN "succeeded" ELSE born.item[m].status
    BY CompleteParts
  <1>3. j \in Created(d)
    BY <1>1 DEF Created, JobsSound, JobSound, Unborn
  <1>4. /\ born.job[j] = d.job[j]
        /\ \A m \in ItemsOf(j) : born.item[m] = d.item[m]
    BY <1>1, <1>3, ItemsOfFacts DEF Insert, DbType
  <1>5. \/ SameView(d, born, k)
        \/ /\ PhaseIn(d, k) = "absent" /\ born.job[k].status = "pending"
           /\ SameOutcomes(d, born, k)
    BY InsertMoves
  <1> HIDE DEF born
  <1>6. Advances(d, done, j) /\ Unrefreshed(done, j)
    BY <1>1, <1>2, <1>4, ItemsOfFacts, ItemAdvances DEF JobsSound
  <1>7. CASE k = j
    BY <1>1, <1>2, <1>6, <1>7, WrapUpMoves
  <1>8. CASE k # j
    <2>1. \A m \in ItemsOf(k) : m \in Item \ {i}
      BY <1>8, ItemsOfFacts
    <2>2. SameOutcomes(born, done, k)
      BY <1>2, <2>1, SameStatusesView DEF SameStatuses
    <2>3. PhaseIn(done, k) = PhaseIn(born, k) /\ done.job[k] = born.job[k]
      BY <1>2 DEF PhaseIn
    <2>4. \/ Advances(d, done, k)
          \/ /\ done.job[k].status = "pending"
             /\ PhaseIn(d, k) = "absent" /\ SameOutcomes(d, done, k)
      BY <1>5, <2>2, <2>3 DEF Advances, SameView, SameOutcomes, SettlesInto
    <2> QED BY <1>1, <1>2, <1>6, <1>8, <2>4, WrapUpMoves
  <1> QED BY <1>7, <1>8

\* Giving a job another status changes its phase and nothing else.
LEMMA StatusView ==
  ASSUME NEW d \in DbType, NEW j \in Job, NEW k \in Job
  PROVE  \A s, e : e = [d EXCEPT !.job[j].status = s] =>
           /\ SameOutcomes(d, e, k) /\ e.job[j].status = s
           /\ k # j => e.job[k].status = d.job[k].status
  <1> SUFFICES ASSUME NEW s, NEW e, e = [d EXCEPT !.job[j].status = s]
               PROVE  /\ SameOutcomes(d, e, k) /\ e.job[j].status = s
                      /\ k # j => e.job[k].status = d.job[k].status
    OBVIOUS
  <1>1. e = [d EXCEPT !.job = [d.job EXCEPT ![j] = [d.job[j] EXCEPT !.status = s]]]
    BY DEF DbType
  <1>2. /\ e.item = d.item /\ e.job[j] = [d.job[j] EXCEPT !.status = s]
        /\ \A m \in Job \ {j} : e.job[m] = d.job[m]
    BY <1>1 DEF DbType
  <1>3. [d.job[j] EXCEPT !.status = s].status = s
    BY DEF DbType, JobRow
  <1>4. SameOutcomes(d, e, k)
    BY <1>2, SameStatusesView DEF SameStatuses
  <1> QED BY <1>2, <1>3, <1>4

LEMMA ControlMoves ==
  ASSUME NEW d \in DbType, NEW j \in Created(d), NEW k \in Job
  PROVE  /\ Moves(d, RequestPause(d, j), k)
         /\ Moves(d, ResumeJob(d, j), k)
         /\ Moves(d, RequestCancel(d, j), k)
  <1>1. /\ j \in Job /\ d.job[j].status \in JobStatus
        /\ {"pause_requested", "running", "pending", "cancel_requested"} \subseteq JobStatus
    BY DEF Created, DbType, JobRow, JobStatus
  <1>2. Moves(d, d, k)
    BY DEF Moves, Advances, SameView, SameOutcomes, SettlesInto
  <1>3. \A s, e : e = [d EXCEPT !.job[j].status = s] =>
          /\ SameOutcomes(d, e, k) /\ e.job[j].status = s
          /\ k # j => e.job[k].status = d.job[k].status
    BY <1>1, StatusView
  <1>4. ASSUME NEW s \in JobStatus, Advances(d, [d EXCEPT !.job[j].status = s], k)
        PROVE  Moves(d, Reconcile([d EXCEPT !.job[j].status = s]), k)
    BY <1>1, <1>4, StatusType, ReconcileWindsUp, WindUpAdvances DEF Moves
  <1>5. Moves(d, RequestPause(d, j), k)
    <2>1. ASSUME d.job[j].status \in {"pending", "running"}
          PROVE  Advances(d, [d EXCEPT !.job[j].status = "pause_requested"], k)
      BY <1>1, <2>1, StatusView DEF Advances, SameView, PhaseIn
    <2> QED BY <1>1, <1>2, <1>4, <2>1 DEF RequestPause
  <1>6. Moves(d, RequestCancel(d, j), k)
    <2> DEFINE e == [d EXCEPT !.job[j].status = "cancel_requested"]
    <2>1. ASSUME d.job[j].status \notin Final PROVE Advances(d, e, k)
      <3>1. /\ SameOutcomes(d, e, k) /\ e.job[j].status = "cancel_requested"
            /\ k # j => e.job[k].status = d.job[k].status
        BY <1>3
      <3> HIDE DEF e
      <3>2. CASE k # j
        BY <3>1, <3>2 DEF Advances, SameView, PhaseIn
      <3>3. CASE k = j
        <4>1. PhaseIn(d, k) \in {"open", "held", "closing"} /\ PhaseIn(e, k) = "closing"
          BY <1>1, <2>1, <3>1, <3>3 DEF PhaseIn, JobStatus
        <4>2. \A S : SettlesInto(d, e, k, S)
          BY <3>1 DEF SameOutcomes, SettlesInto
        <4> QED BY <4>1, <4>2 DEF Advances
      <3> QED BY <3>2, <3>3
    <2> QED BY <1>1, <1>2, <1>4, <2>1 DEF RequestCancel
  <1>7. Moves(d, ResumeJob(d, j), k)
    <2> DEFINE s == IF Running(d, j) # {} THEN "running" ELSE "pending"
               e == [d EXCEPT !.job[j].status = s]
    <2>1. ASSUME d.job[j].status \in {"paused", "pause_requested"} PROVE Moves(d, e, k)
      <3>1. s \in {"running", "pending"}
        OBVIOUS
      <3> HIDE DEF s
      <3>2. /\ SameOutcomes(d, e, k) /\ e.job[j].status = s
            /\ k # j => e.job[k].status = d.job[k].status
        BY <1>3
      <3> HIDE DEF e
      <3> QED BY <2>1, <3>1, <3>2 DEF Moves, Advances, SameView, PhaseIn
    <2> QED BY <1>2, <2>1 DEF ResumeJob
  <1> QED BY <1>5, <1>6, <1>7

LEMMA ExpiryView ==
  ASSUME NEW d \in DbType, NEW i \in Item, NEW b \in BOOLEAN, NEW e,
         \/ e = [d EXCEPT !.item[i].expired = b]
         \/ e = [d EXCEPT !.item[i].ready = b],
         NEW k \in Job
  PROVE  SameView(d, e, k)
  <1>1. ASSUME NEW row \in ItemRow
        PROVE  [row EXCEPT !.expired = b].status = row.status
               /\ [row EXCEPT !.ready = b].status = row.status
    BY DEF ItemRow
  <1>2. \/ e.item = [d.item EXCEPT ![i] = [d.item[i] EXCEPT !.expired = b]]
        \/ e.item = [d.item EXCEPT ![i] = [d.item[i] EXCEPT !.ready = b]]
    BY DEF DbType
  <1>3. \A m \in Item : e.item[m].status = d.item[m].status
    <2>1. d.item \in [Item -> ItemRow] /\ d.item[i] \in ItemRow
      BY DEF DbType
    <2>2. [d.item[i] EXCEPT !.expired = b].status = d.item[i].status
          /\ [d.item[i] EXCEPT !.ready = b].status = d.item[i].status
      BY <1>1, <2>1
    <2> QED BY <1>2, <2>1, <2>2
  <1>4. e.job = d.job
    BY DEF DbType
  <1>5. SameOutcomes(d, e, k)
    BY <1>3, ItemsOfFacts, SameStatusesView DEF SameStatuses
  <1> QED BY <1>4, <1>5 DEF SameView, PhaseIn

\* Every step of the system moves each job as the contract lets it.
LEMMA NextMoves ==
  ASSUME StatusInv, [Next]_vars, NEW k \in Job
  PROVE  Moves(db, db', k)
  <1>1. JobsSound(db) /\ db \in DbType
    BY DEF StatusInv, LeaseInv, TypeInv, TypeOK
  <1>2. \A s \in Slot : Busy(s) => slot[s].item \in Item /\ slot[s].token \in Nat
    BY DEF StatusInv, LeaseInv, TypeInv, TypeOK
  <1>3. Moves(db, db, k)
    BY DEF Moves, Advances, SameView, SameOutcomes, SettlesInto
  <1>4. SameView(db, Recover(db), k) /\ Recover(db) \in DbType
    BY <1>1, RecoverView, RecoverType
  <1>5. Advances(db, BeforeClaim, k)
    <2>1. WindsUp(Recover(db), BeforeClaim, k)
      BY <1>4, ReconcileWindsUp DEF BeforeClaim
    <2> QED BY <1>4, <2>1, WindUpAdvances DEF Advances
  <1>6. ASSUME NEW j \in Job, Client(j) PROVE Moves(db, db', k)
    <2>1. ASSUME NEW sinks \in SUBSET Sink, CreateJob(j, sinks) PROVE Moves(db, db', k)
      <3>1. db' = Insert(db, {j}, sinks) /\ {j} \in SUBSET Job
        BY <2>1 DEF CreateJob
      <3>2. \/ SameView(db, db', k)
            \/ /\ PhaseIn(db, k) = "absent" /\ db'.job[k].status = "pending"
               /\ SameOutcomes(db, db', k)
        BY <1>1, <3>1, InsertMoves
      <3> QED BY <3>2 DEF Moves, Advances, PhaseIn
    <2>2. CASE Pause(j) \/ Resume(j) \/ Cancel(j)
      BY <1>1, <2>2, ControlMoves DEF Pause, Resume, Cancel
    <2> QED BY <1>6, <2>1, <2>2 DEF Client
  <1>7. ASSUME NEW s \in Slot, Work(s) PROVE Moves(db, db', k)
    <2>1. CASE ClaimNothing(s)
      BY <1>5, <2>1 DEF ClaimNothing, Moves
    <2>2. CASE ClaimItem(s)
      <3>1. PICK i \in Item : Claims(s, i)
        BY <2>2, ClaimFacts
      <3>2. BeforeClaim \in DbType
        BY <1>4, ReconcileType DEF BeforeClaim
      <3>3. SameView(BeforeClaim, db', k)
        BY <3>1, <3>2, LeaseView DEF Claims
      <3> QED BY <1>5, <3>3, WindUpAdvances DEF WindsUp, Moves
    <2>3. CASE Heartbeat(s)
      <3>1. slot[s].item \in Item /\ db' = [db EXCEPT !.item[slot[s].item].expired = FALSE]
        BY <1>2, <2>3 DEF Heartbeat
      <3>2. \A i \in Item : \A e : e = [db EXCEPT !.item[i].expired = FALSE] => SameView(db, e, k)
        BY <1>1, ExpiryView
      <3> QED BY <3>1, <3>2 DEF Moves, Advances
    <2>4. CASE CompleteItem(s)
      <3>1. Busy(s) /\ db.item[slot[s].item].status = "running"
        BY <2>4 DEF CompleteItem, Busy, OwnsLease, Owns
      <3>2. PICK J \in SUBSET Followups(slot[s].item) :
              db' = Complete(db, slot[s].item, slot[s].token, J)
        BY <2>4 DEF CompleteItem
      <3>3. J \in SUBSET Job
        BY DEF Followups
      <3> QED BY <1>1, <1>2, <3>1, <3>2, <3>3, CompleteMoves
    <2>5. ASSUME NEW r \in BOOLEAN, FailItem(s, r) \/ (r /\ FailInternal(s))
          PROVE  Moves(db, db', k)
      <3>1. Busy(s) /\ db.item[slot[s].item].status = "running"
        BY <2>5 DEF FailItem, FailInternal, Busy, OwnsLease, Owns
      <3>2. db' = Fail(db, slot[s].item, r)
        BY <2>5 DEF FailItem, FailInternal
      <3> QED BY <1>1, <1>2, <3>1, <3>2, FailMoves
    <2>6. CASE LeaseLost(s) \/ Raise(s) \/ Crash(s)
      BY <1>3, <2>6 DEF LeaseLost, Raise, Crash
    <2>7. CASE Restart(s)
      BY <1>4, <2>7 DEF Restart, Moves, Advances
    <2> QED
      BY <1>7, <2>1, <2>2, <2>3, <2>4, <2>5, <2>6, <2>7 DEF Work, Claim, Report
  <1>8. ASSUME NEW i \in Item, Time(i) PROVE Moves(db, db', k)
    BY <1>1, <1>8, ExpiryView DEF Time, LeaseTimesOut, BackoffElapses, Moves, Advances
  <1>9. CASE UNCHANGED vars
    BY <1>3, <1>9 DEF vars
  <1> QED BY <1>6, <1>7, <1>8, <1>9 DEF Next

\* A job is over when none of its items is open, and its verdict is theirs.
LEMMA VerdictView ==
  ASSUME NEW e, NEW j, JobSound(e, j), PhaseIn(e, j) # "absent"
  PROVE  LET Became(o) == {i \in ItemsOf(j) : OutcomeIn(e, i) = o} IN
         /\ PhaseIn(e, j) \in Final <=> Became("open") = {}
         /\ PhaseIn(e, j) = "succeeded" => Became("failed") = {}
         /\ PhaseIn(e, j) = "failed" => Became("succeeded") = {}
         /\ PhaseIn(e, j) = "partial" => Became("failed") # {} /\ Became("succeeded") # {}
  <1> DEFINE Became(o) == {i \in ItemsOf(j) : OutcomeIn(e, i) = o}
  <1>1. e.job[j].status # "absent" /\ ItemsExist(e, j) /\ StatusSound(e, j)
    BY DEF JobSound, PhaseIn
  <1>2. /\ Became("failed") = WithStatus(e, j, {"failed"})
        /\ Became("succeeded") = WithStatus(e, j, {"succeeded"})
        /\ Became("open") = Open(e, j)
    BY <1>1 DEF WithStatus, Open, OutcomeIn, ItemsExist, ItemStatus, Settled
  <1>3. PhaseIn(e, j) \in Final <=> e.job[j].status \in Final
    BY DEF PhaseIn, Final
  <1>4. \A s \in {"succeeded", "failed", "partial"} : PhaseIn(e, j) = s => e.job[j].status = s
    BY DEF PhaseIn
  <1>5. PhaseIn(e, j) = "failed" => Became("succeeded") = {}
    <2>1. WithStatus(e, j, {"failed"}) = ItemsOf(j) => Became("succeeded") = {}
      BY <1>2 DEF WithStatus
    <2> QED BY <1>1, <1>4, <2>1 DEF StatusSound
  <1>6. PhaseIn(e, j) \in Final <=> Became("open") = {}
    BY <1>1, <1>2, <1>3 DEF StatusSound
  <1>7. /\ PhaseIn(e, j) = "succeeded" => Became("failed") = {}
        /\ PhaseIn(e, j) = "partial" => Became("failed") # {} /\ Became("succeeded") # {}
    BY <1>1, <1>2, <1>4 DEF StatusSound
  <1> QED BY <1>5, <1>6, <1>7

LEMMA ViewInContract ==
  ASSUME NEW j \in Job
  PROVE  /\ [k \in Job |-> Phase(k)][j] = PhaseIn(db, j)
         /\ [k \in Job |-> Phase(k)]'[j] = PhaseIn(db', j)
         /\ [k \in Job |-> ItemsOf(k)][j] = ItemsOf(j)
         /\ \A i \in ItemsOf(j) :
              /\ [k \in Job |-> [m \in ItemsOf(k) |-> Outcome(m)]][j][i] = OutcomeIn(db, i)
              /\ [k \in Job |-> [m \in ItemsOf(k) |-> Outcome(m)]]'[j][i] = OutcomeIn(db', i)
  BY DEF Phase, PhaseIn, Outcome, OutcomeIn

LEMMA MovesLawful == StatusInv /\ [Next]_vars => Contract!Next
  <1> SUFFICES ASSUME StatusInv, [Next]_vars, NEW j \in Job
               PROVE  Contract!Stay(j) \/ Contract!Create(j) \/ Contract!Progress(j)
                      \/ Contract!Release(j) \/ Contract!Close(j)
    BY DEF Contract!Next
  <1>1. Moves(db, db', j)
    BY NextMoves
  <1>2. JobSound(db', j)
    BY NextStatus DEF StatusInv, JobsSound
  <1> DEFINE Became(o) == {i \in ItemsOf(j) : OutcomeIn(db', i) = o}
  <1>3. PhaseIn(db', j) # "absent" =>
          /\ PhaseIn(db', j) \in Final <=> Became("open") = {}
          /\ PhaseIn(db', j) = "succeeded" => Became("failed") = {}
          /\ PhaseIn(db', j) = "failed" => Became("succeeded") = {}
          /\ PhaseIn(db', j) = "partial" => Became("failed") # {} /\ Became("succeeded") # {}
    BY <1>2, VerdictView
  <1>4. /\ Contract!OpenNext(j) = Became("open")
        /\ \A o : Contract!Became(j, o) = Became(o)
    BY ViewInContract DEF Contract!OpenNext, Contract!Became
  <1>5. \A S : Contract!SettleInto(j, S) <=> SettlesInto(db, db', j, S)
    BY ViewInContract DEF Contract!SettleInto, SettlesInto
  <1>6. SameOutcomes(db, db', j) =>
          [k \in Job |-> [m \in ItemsOf(k) |-> Outcome(m)]]'[j] =
          [k \in Job |-> [m \in ItemsOf(k) |-> Outcome(m)]][j]
    BY DEF SameOutcomes, SettlesInto, Outcome, OutcomeIn
  <1>7. /\ [k \in Job |-> Phase(k)][j] = PhaseIn(db, j)
        /\ [k \in Job |-> Phase(k)]'[j] = PhaseIn(db', j)
    BY ViewInContract
  <1> HIDE DEF Became
  <1>8. CASE SameView(db, db', j)
    BY <1>6, <1>7, <1>8 DEF SameView, Contract!Stay
  <1>9. CASE PhaseIn(db, j) = "absent" /\ PhaseIn(db', j) = "open" /\ SameOutcomes(db, db', j)
    BY <1>6, <1>7, <1>9 DEF Contract!Create
  <1>10. CASE PhaseIn(db, j) = "held" /\ PhaseIn(db', j) = "open" /\ SameOutcomes(db, db', j)
    BY <1>6, <1>7, <1>10 DEF Contract!Release
  <1>11. CASE /\ PhaseIn(db, j) = "open"
              /\ PhaseIn(db', j) \in {"open", "held", "succeeded", "partial", "failed"}
              /\ SettlesInto(db, db', j, {"succeeded", "failed"})
    <2>1. \/ Became("open") # {} /\ PhaseIn(db', j) \in {"open", "held"}
          \/ /\ Became("open") = {}
             /\ \/ Became("failed") = {} /\ PhaseIn(db', j) = "succeeded"
                \/ Became("succeeded") = {} /\ PhaseIn(db', j) = "failed"
                \/ /\ Became("failed") # {} /\ Became("succeeded") # {}
                   /\ PhaseIn(db', j) = "partial"
      BY <1>3, <1>11 DEF Final
    <2> QED BY <1>4, <1>5, <1>7, <1>11, <2>1 DEF Contract!Progress
  <1>12. CASE /\ PhaseIn(db, j) \in {"open", "held", "closing"}
              /\ PhaseIn(db', j) \in {"closing", "cancelled"}
              /\ SettlesInto(db, db', j, IF PhaseIn(db, j) = "closing" THEN Settled ELSE {"cancelled"})
    <2>1. PhaseIn(db', j) = IF Became("open") = {} THEN "cancelled" ELSE "closing"
      BY <1>3, <1>12 DEF Final
    <2>2. SettlesInto(db, db', j,
            IF PhaseIn(db, j) = "closing" THEN Contract!Outcomes ELSE {"cancelled"})
      BY <1>12 DEF SettlesInto, Settled, Contract!Outcomes
    <2> QED BY <1>4, <1>5, <1>7, <1>12, <2>1, <2>2 DEF Contract!Close
  <1> QED BY <1>1, <1>8, <1>9, <1>10, <1>11, <1>12 DEF Moves, Advances

\* The store keeps the contract of JobContract: a paused job stands still, an item
\* settles once, and a job closes in the very transaction that settles its last item.
THEOREM ContractKept == Spec => KeepsContract
  <1>1. Init => Contract!Init
    <2> SUFFICES ASSUME Init PROVE Contract!Init
      OBVIOUS
    <2>1. \A j \in Job : db.job[j].status = "absent"
      BY DEF Init, EmptyDb, NoJobRow
    <2>2. \A i \in Item : db.item[i].status = "absent"
      BY DEF Init, EmptyDb, NoItemRow
    <2>3. \A j \in Job : Phase(j) = "absent"
      BY <2>1 DEF Phase
    <2>4. \A j \in Job : \A i \in ItemsOf(j) : Outcome(i) = "open"
      BY <2>2, ItemsOfFacts DEF Outcome, Settled
    <2> QED BY <2>3, <2>4 DEF Contract!Init
  <1>2. StatusInv /\ [Next]_vars => Contract!Next
    BY MovesLawful
  <1> QED BY InitStatus, NextStatus, <1>1, <1>2, PTL DEF Spec, KeepsContract, Contract!Spec

-----------------------------------------------------------------------------
(* What a job announces *)

Over(d, j) == d.job[j].status \in Final

\* The last open item of job j in d has settled in e otherwise than by being cancelled.
Reported(d, e, j) ==
  \E i \in ItemsOf(j) : Open(d, j) = {i} /\ e.item[i].status \in {"succeeded", "failed"}

\* What EndAnnounced says of a step from d to e
Told(d, e, j) ==
  e.announced[j] =
    IF ~Over(e, j) THEN << >>
    ELSE IF Over(d, j) THEN d.announced[j]
    ELSE IF d.job[j].status = "cancel_requested" /\ Reported(d, e, j) THEN << >>
    ELSE <<e.job[j].status>>

\* Neither an end nor an event of job j
Hush(d, e, j) == e.announced[j] = d.announced[j] /\ (Over(e, j) <=> Over(d, j))

LEMMA SilentSoFar ==
  ASSUME NEW d, NEW j \in Job, JobsSound(d)
  PROVE  ~Over(d, j) => d.announced[j] = << >>
  BY DEF JobsSound, JobSound, Unborn, EventsSound, Over, Final

LEMMA HushTold ==
  ASSUME NEW d, NEW e, NEW j \in Job, JobsSound(d), Hush(d, e, j)
  PROVE  Told(d, e, j)
  BY SilentSoFar DEF Told, Hush

LEMMA ReconcileEvents ==
  ASSUME NEW m \in DbType, NEW j \in Job
  PROVE  LET e == Reconcile(m) IN
         /\ \/ e.job[j].status = m.job[j].status /\ e.announced[j] = m.announced[j]
            \/ /\ m.job[j].status = "pause_requested" /\ e.job[j].status = "paused"
               /\ e.announced[j] = m.announced[j]
            \/ /\ m.job[j].status = "cancel_requested" /\ e.job[j].status = "cancelled"
               /\ e.announced[j] = Append(m.announced[j], "cancelled")
         /\ \A i \in ItemsOf(j) : e.item[i].status \in {"succeeded", "failed"} =>
                                    m.item[i].status \in {"succeeded", "failed"}
  <1> DEFINE c == CancelPending(m)
             e == SettleControls(c)
  <1>1. /\ c.job = m.job /\ c.announced = m.announced
        /\ \A i \in ItemsOf(j) : c.item[i].status =
             IF m.job[j].status = "cancel_requested" /\ m.item[i].status = "pending"
             THEN "cancelled" ELSE m.item[i].status
    BY CancelPendingFacts
  <1>2. c \in DbType /\ Reconcile(m) = e
    BY CancelPendingType DEF Reconcile
  <1> HIDE DEF c
  <1>3. /\ e.item = c.item
        /\ j \in Quiet(c, "pause_requested") =>
             /\ e.job[j] = [c.job[j] EXCEPT !.status = "paused"]
             /\ e.announced[j] = c.announced[j]
        /\ j \in Quiet(c, "cancel_requested") =>
             /\ e.job[j] = [Counted(c, j) EXCEPT !.status = "cancelled"]
             /\ e.announced[j] = Append(c.announced[j], "cancelled")
        /\ j \notin Quiet(c, "pause_requested") \cup Quiet(c, "cancel_requested") =>
             e.job[j] = c.job[j] /\ e.announced[j] = c.announced[j]
    BY <1>2, SettleFacts
  <1> HIDE DEF e
  <1>4. /\ [c.job[j] EXCEPT !.status = "paused"].status = "paused"
        /\ [Counted(c, j) EXCEPT !.status = "cancelled"].status = "cancelled"
    <2>1. c.job[j] \in JobRow
      BY <1>2 DEF DbType
    <2>2. [c.job[j] EXCEPT !.status = "paused"].status = "paused"
      BY <2>1 DEF JobRow
    <2>3. [Counted(c, j) EXCEPT !.status = "cancelled"].status = "cancelled"
      BY <1>2, CountedFields
    <2> QED BY <2>2, <2>3
  <1>5. \/ e.job[j].status = m.job[j].status /\ e.announced[j] = m.announced[j]
        \/ /\ m.job[j].status = "pause_requested" /\ e.job[j].status = "paused"
           /\ e.announced[j] = m.announced[j]
        \/ /\ m.job[j].status = "cancel_requested" /\ e.job[j].status = "cancelled"
           /\ e.announced[j] = Append(m.announced[j], "cancelled")
    BY <1>1, <1>3, <1>4 DEF Quiet
  <1>6. \A i \in ItemsOf(j) : e.item[i].status \in {"succeeded", "failed"} =>
                                m.item[i].status \in {"succeeded", "failed"}
    BY <1>1, <1>3
  <1> QED BY <1>2, <1>5, <1>6

\* _reconcile_controls announces whatever it ends.
LEMMA ReconcileTold ==
  ASSUME NEW d, NEW m \in DbType, NEW j \in Job, JobsSound(d),
         Hush(d, m, j), ~Reported(d, m, j)
  PROVE  Told(d, Reconcile(m), j)
  <1> DEFINE e == Reconcile(m)
  <1>1. /\ \/ e.job[j].status = m.job[j].status /\ e.announced[j] = m.announced[j]
           \/ /\ m.job[j].status = "pause_requested" /\ e.job[j].status = "paused"
              /\ e.announced[j] = m.announced[j]
           \/ /\ m.job[j].status = "cancel_requested" /\ e.job[j].status = "cancelled"
              /\ e.announced[j] = Append(m.announced[j], "cancelled")
        /\ \A i \in ItemsOf(j) : e.item[i].status \in {"succeeded", "failed"} =>
                                   m.item[i].status \in {"succeeded", "failed"}
    BY ReconcileEvents
  <1> HIDE DEF e
  <1>2. ~Reported(d, e, j)
    BY <1>1 DEF Reported
  <1>3. ~Over(d, j) => d.announced[j] = << >>
    BY SilentSoFar
  <1>4. CASE /\ m.job[j].status = "cancel_requested" /\ e.job[j].status = "cancelled"
             /\ e.announced[j] = Append(m.announced[j], "cancelled")
    <2>1. ~Over(m, j) /\ Over(e, j) /\ ~Over(d, j)
      BY <1>4 DEF Over, Hush, Final
    <2>2. e.announced[j] = Append(<< >>, "cancelled")
      BY <1>3, <1>4, <2>1 DEF Hush
    <2>3. Append(<< >>, "cancelled") = <<"cancelled">>
      OBVIOUS
    <2> QED BY <1>2, <1>4, <2>1, <2>2, <2>3 DEF Told, e
  <1>5. CASE e.announced[j] = m.announced[j] /\ (Over(e, j) <=> Over(m, j))
    <2>1. Told(d, e, j)
      BY <1>5, HushTold DEF Hush
    <2> QED BY <2>1 DEF e
  <1> QED BY <1>1, <1>4, <1>5 DEF Over, Final

\* A job ends as cancelled in _refresh_job just when it was asked to cancel.
LEMMA VerdictOfCancel ==
  ASSUME NEW m, NEW j \in Job, Unrefreshed(m, j)
  PROVE  Verdict(m, j) = "cancelled" <=> m.job[j].status = "cancel_requested"
  <1>1. CASE m.job[j].status = "cancel_requested"
    BY <1>1 DEF Verdict
  <1>2. CASE m.job[j].status # "cancel_requested"
    <2>1. WithStatus(m, j, {"cancelled"}) = {} /\ ItemsOf(j) # {}
      BY <1>2, ItemsOfFacts DEF Unrefreshed
    <2> QED BY <1>2, <2>1 DEF Verdict
  <1> QED BY <1>1, <1>2

\* The end of an item's transaction: m is what it leaves to _refresh_job.
LEMMA WrapUpTold ==
  ASSUME NEW d \in DbType, JobsSound(d), NEW i \in Item, d.item[i].status = "running",
         NEW m \in DbType, m.job[JobOf(i)] = d.job[JobOf(i)], Unrefreshed(m, JobOf(i)),
         m.item[i].status \in {"pending", "failed", "succeeded"},
         \A x \in ItemsOf(JobOf(i)) \ {i} : m.item[x].status = d.item[x].status,
         NEW k \in Job, Hush(d, m, k), k # JobOf(i) => ~Reported(d, m, k)
  PROVE  Told(d, Reconcile(Refresh(m, JobOf(i))), k)
  <1> DEFINE j == JobOf(i)
             f == Refresh(m, j)
  <1>1. j \in Job /\ i \in ItemsOf(j) /\ i \in Open(d, j)
    BY ItemFacts DEF Open, WithStatus
  <1>2. f \in DbType
    BY <1>1, RefreshType
  <1>3. CASE k # j
    <2>1. f.job[k] = m.job[k] /\ f.announced[k] = m.announced[k] /\ SameStatuses(m, f, k)
      BY <1>1, <1>3, RefreshOthers
    <2> HIDE DEF f
    <2>2. Hush(d, f, k) /\ ~Reported(d, f, k)
      BY <1>3, <2>1 DEF Hush, Over, Reported, SameStatuses
    <2>3. Told(d, Reconcile(f), k)
      BY <1>2, <2>2, ReconcileTold
    <2> QED BY <2>3 DEF f
  <1>4. CASE k = j /\ Open(m, j) # {}
    <2>1. f.job[j] = Counted(m, j) /\ f.item = m.item /\ f.announced = m.announced
      BY <1>1, <1>4 DEF Refresh, DbType
    <2> HIDE DEF f
    <2>2. f.job[j].status = m.job[j].status
      BY <1>1, <2>1, CountedFields
    <2>3. Hush(d, f, j)
      BY <1>4, <2>1, <2>2 DEF Hush, Over
    <2>4. ~Reported(d, f, j)
      <3> SUFFICES ASSUME Open(d, j) = {i}, m.item[i].status \in {"succeeded", "failed"}
                   PROVE  FALSE
        BY <1>1, <2>1 DEF Reported
      <3>1. \A x \in ItemsOf(j) : x \notin Open(m, j)
        BY <1>1 DEF Open, WithStatus
      <3> QED BY <1>4, <3>1 DEF Open, WithStatus
    <2>5. Told(d, Reconcile(f), j)
      BY <1>1, <1>2, <2>3, <2>4, ReconcileTold
    <2> QED BY <1>4, <2>5 DEF f
  <1>5. CASE k = j /\ Open(m, j) = {}
    <2> DEFINE v == Verdict(m, j)
               e == Reconcile(f)
    <2>1. /\ f.job[j] = [Counted(m, j) EXCEPT !.status = v] /\ f.item = m.item
          /\ f.announced[j] = IF v = "cancelled" THEN m.announced[j]
                              ELSE Append(m.announced[j], v)
      BY <1>1, <1>5 DEF Refresh, DbType
    <2>2. v \in Final /\ (v = "cancelled" <=> m.job[j].status = "cancel_requested")
      BY <1>1, VerdictOfCancel DEF Verdict, Final
    <2>3. /\ \/ e.job[j].status = f.job[j].status /\ e.announced[j] = f.announced[j]
             \/ f.job[j].status \in {"pause_requested", "cancel_requested"}
          /\ \A x \in ItemsOf(j) : e.item[x].status \in {"succeeded", "failed"} =>
                                     f.item[x].status \in {"succeeded", "failed"}
      BY <1>1, <1>2, ReconcileEvents
    <2> HIDE DEF f, v
    <2>4. f.job[j].status = v
      BY <1>1, <2>1, CountedFields
    <2>5. e.job[j].status = v /\ e.announced[j] = f.announced[j]
      BY <2>2, <2>3, <2>4 DEF Final
    <2>6. ~Over(d, j) /\ m.announced[j] = << >>
      BY <1>1 DEF Unrefreshed, Over, Final
    <2>7. Open(d, j) = {i} /\ m.item[i].status \in {"succeeded", "failed"}
      BY <1>1, <1>5 DEF Open, WithStatus
    <2>8. e.item[i].status \in {"succeeded", "failed"}
      <3>1. SameView(f, e, j)
        BY <1>1, <1>2, <2>2, <2>4, ReconcileWindsUp DEF Final
      <3>2. OutcomeIn(e, i) = OutcomeIn(f, i)
        BY <1>1, <3>1 DEF SameView, SameOutcomes, SettlesInto
      <3> QED BY <2>1, <2>7, <3>2 DEF OutcomeIn, Settled
    <2>9. Reported(d, e, j) /\ Over(e, j)
      BY <1>1, <2>2, <2>5, <2>7, <2>8 DEF Reported, Over
    <2>10. Append(<< >>, v) = <<v>>
      OBVIOUS
    <2>11. Told(d, e, j)
      <3>1. d.job[j].status = m.job[j].status
        BY <1>1
      <3>2. CASE v = "cancelled"
        BY <2>1, <2>2, <2>5, <2>6, <2>9, <3>1, <3>2 DEF Told
      <3>3. CASE v # "cancelled"
        BY <2>1, <2>2, <2>5, <2>6, <2>9, <2>10, <3>1, <3>3 DEF Told
      <3> QED BY <3>2, <3>3
    <2> QED BY <1>5, <2>11 DEF f
  <1> QED BY <1>3, <1>4, <1>5

LEMMA FailTold ==
  ASSUME NEW d \in DbType, NEW i \in Item, NEW r \in BOOLEAN, JobsSound(d),
         d.item[i].status = "running", NEW k \in Job
  PROVE  Told(d, Fail(d, i, r), k)
  <1> DEFINE status == IF MayRetry(d.item[i], JobOf(i), r) THEN "pending" ELSE "failed"
             row == Released(d.item[i], status, FALSE)
             failed == [d EXCEPT !.item[i] = Released(@, status, FALSE)]
  <1>1. JobOf(i) \in Job /\ d.item[i] \in ItemRow
    BY ItemFacts DEF DbType
  <1>2. failed = [d EXCEPT !.item = [d.item EXCEPT ![i] = row]]
    BY DEF DbType
  <1>3. status \in {"pending", "failed"}
    OBVIOUS
  <1>4. Fail(d, i, r) = Reconcile(Refresh(failed, JobOf(i)))
    BY DEF Fail
  <1> HIDE DEF status, failed
  <1>5. row \in ItemRow /\ row.status = status
    BY <1>1, <1>3 DEF Released, ItemRow, ItemStatus, Settled
  <1> HIDE DEF row
  <1>6. /\ failed \in DbType /\ failed.job = d.job /\ failed.announced = d.announced
        /\ failed.item[i] = row /\ \A m \in Item \ {i} : failed.item[m] = d.item[m]
    BY <1>2, <1>5 DEF DbType
  <1>7. /\ Unrefreshed(failed, JobOf(i))
        /\ \A x \in ItemsOf(JobOf(i)) \ {i} : failed.item[x].status = d.item[x].status
    BY <1>1, <1>3, <1>5, <1>6, ItemsOfFacts, ItemLeaves DEF JobsSound
  <1>8. Hush(d, failed, k)
    BY <1>6 DEF Hush, Over
  <1>9. k # JobOf(i) => ~Reported(d, failed, k)
    <2>1. \A x \in ItemsOf(k) : x \in Item /\ JobOf(x) = k
      BY ItemsOfFacts
    <2> QED BY <1>6, <2>1 DEF Reported, Open, WithStatus
  <1> QED BY <1>3, <1>4, <1>5, <1>6, <1>7, <1>8, <1>9, WrapUpTold

\* Inserting jobs ends none, announces nothing and settles no item.
LEMMA InsertHush ==
  ASSUME NEW d \in DbType, NEW J \in SUBSET Job, NEW sinks, JobsSound(d), NEW k \in Job
  PROVE  LET e == Insert(d, J, sinks) IN
         /\ Hush(d, e, k)
         /\ \A x \in ItemsOf(k) :
              e.item[x].status \in {"succeeded", "failed"} => e.item[x] = d.item[x]
  <1> DEFINE e == Insert(d, J, sinks)
             new == J \ Created(d)
  <1>1. /\ \A i \in Item : e.item[i] = IF JobOf(i) \in new THEN PendingRow ELSE d.item[i]
        /\ e.announced = d.announced
        /\ k \notin new => e.job[k] = d.job[k]
        /\ k \in new => e.job[k].status = "pending"
    BY DEF Insert, DbType, NoJobRow
  <1>2. PendingRow.status = "pending"
    BY DEF PendingRow, NoItemRow
  <1> HIDE DEF e
  <1>3. k \in new => d.job[k].status = "absent"
    BY DEF Created
  <1>4. Hush(d, e, k)
    BY <1>1, <1>3 DEF Hush, Over, Final
  <1>5. \A x \in ItemsOf(k) :
          e.item[x].status \in {"succeeded", "failed"} => e.item[x] = d.item[x]
    BY <1>1, <1>2, ItemsOfFacts
  <1> QED BY <1>4, <1>5 DEF e

LEMMA CompleteTold ==
  ASSUME NEW d \in DbType, NEW i \in Item, NEW t \in Nat, NEW J \in SUBSET Job, JobsSound(d),
         d.item[i].status = "running", NEW k \in Job
  PROVE  Told(d, Complete(d, i, t, J), k)
  <1> DEFINE born == Insert(d, J, d.job[JobOf(i)].sinks)
             j == JobOf(i)
  <1>1. j \in Job /\ i \in ItemsOf(j) /\ d.job[j].sinks \in SUBSET Sink
    BY ItemFacts DEF DbType, JobRow
  <1>2. PICK done \in DbType :
          /\ Complete(d, i, t, J) = Reconcile(Refresh(done, j))
          /\ done.job = born.job /\ done.announced = d.announced
          /\ \A m \in Item : done.item[m].status = IF m = i THEN "succeeded" ELSE born.item[m].status
    BY CompleteParts
  <1>3. j \in Created(d)
    BY <1>1 DEF Created, JobsSound, JobSound, Unborn
  <1>4. /\ born.job[j] = d.job[j]
        /\ \A m \in ItemsOf(j) : born.item[m] = d.item[m]
    BY <1>1, <1>3, ItemsOfFacts DEF Insert, DbType
  <1>5. /\ Hush(d, born, k)
        /\ \A x \in ItemsOf(k) :
             born.item[x].status \in {"succeeded", "failed"} => born.item[x] = d.item[x]
    BY InsertHush
  <1> HIDE DEF born
  <1>6. /\ Unrefreshed(done, j)
        /\ \A x \in ItemsOf(j) \ {i} : done.item[x].status = d.item[x].status
    BY <1>1, <1>2, <1>4, ItemsOfFacts, ItemLeaves DEF JobsSound
  <1>7. Hush(d, done, k)
    BY <1>2, <1>5 DEF Hush, Over
  <1>8. k # j => ~Reported(d, done, k)
    <2>1. \A x \in ItemsOf(k) : x \in Item /\ JobOf(x) = k
      BY ItemsOfFacts
    <2> QED BY <1>2, <1>5, <2>1 DEF Reported, Open, WithStatus
  <1> QED BY <1>1, <1>2, <1>4, <1>6, <1>7, <1>8, WrapUpTold

LEMMA ControlTold ==
  ASSUME NEW d \in DbType, NEW j \in Created(d), JobsSound(d), NEW k \in Job
  PROVE  /\ Told(d, RequestPause(d, j), k)
         /\ Told(d, ResumeJob(d, j), k)
         /\ Told(d, RequestCancel(d, j), k)
  <1>1. j \in Job
    BY DEF Created
  <1>2. Told(d, d, k)
    BY HushTold DEF Hush
  <1>3. \A s, e : e = [d EXCEPT !.job[j].status = s] =>
          /\ SameOutcomes(d, e, k) /\ e.job[j].status = s
          /\ k # j => e.job[k].status = d.job[k].status
    BY <1>1, StatusView
  <1>4. ASSUME NEW s \in JobStatus \ Final, d.job[j].status \notin Final,
               NEW e, e = [d EXCEPT !.job[j].status = s]
        PROVE  Hush(d, e, k) /\ ~Reported(d, e, k) /\ e \in DbType
    <2>1. /\ e.job[j].status = s /\ (k # j => e.job[k].status = d.job[k].status)
      BY <1>4, <1>3, Zenon
    <2>2. e.item = d.item /\ e.announced = d.announced /\ e \in DbType
      BY <1>1, <1>4, StatusType DEF DbType
    <2>3. ~Reported(d, e, k)
      BY <2>2 DEF Reported, Open, WithStatus
    <2> QED BY <1>4, <2>1, <2>2, <2>3 DEF Hush, Over
  <1>5. {"pause_requested", "running", "pending", "cancel_requested"} \subseteq JobStatus \ Final
    BY DEF JobStatus, Final
  <1>6. Told(d, RequestPause(d, j), k)
    BY <1>2, <1>4, <1>5, ReconcileTold DEF RequestPause, Final
  <1>7. Told(d, ResumeJob(d, j), k)
    <2> DEFINE s == IF Running(d, j) # {} THEN "running" ELSE "pending"
    <2>1. s \in JobStatus \ Final
      BY <1>5
    <2>2. ResumeJob(d, j) = IF d.job[j].status \in {"paused", "pause_requested"}
                            THEN [d EXCEPT !.job[j].status = s] ELSE d
      BY DEF ResumeJob
    <2> HIDE DEF s
    <2> QED BY <1>2, <1>4, <2>1, <2>2, HushTold DEF Final
  <1>8. Told(d, RequestCancel(d, j), k)
    BY <1>2, <1>4, <1>5, ReconcileTold DEF RequestCancel
  <1> QED BY <1>6, <1>7, <1>8

\* Recovering leases ends no job and settles no item.
LEMMA RecoverHush ==
  ASSUME NEW d \in DbType, NEW k \in Job
  PROVE  Hush(d, Recover(d), k) /\ ~Reported(d, Recover(d), k)
  <1>1. Recover(d).job = d.job /\ Recover(d).announced = d.announced
    BY DEF Recover, DbType
  <1>2. SameOutcomes(d, Recover(d), k)
    BY RecoverView DEF SameView
  <1>3. ~Reported(d, Recover(d), k)
    BY <1>2 DEF Reported, SameOutcomes, SettlesInto, OutcomeIn, Open, WithStatus, Settled
  <1> QED BY <1>1, <1>3 DEF Hush, Over

\* Every step of the system announces what ends in it.
LEMMA NextTold ==
  ASSUME StatusInv, [Next]_vars, NEW k \in Job
  PROVE  Told(db, db', k)
  <1>1. JobsSound(db) /\ FollowSound(db) /\ db \in DbType
    BY DEF StatusInv, LeaseInv, TypeInv, TypeOK
  <1>2. \A s \in Slot : Busy(s) => slot[s].item \in Item /\ slot[s].token \in Nat
    BY DEF StatusInv, LeaseInv, TypeInv, TypeOK
  <1>3. Told(db, db, k)
    BY <1>1, HushTold DEF Hush
  <1>4. /\ Hush(db, Recover(db), k) /\ ~Reported(db, Recover(db), k)
        /\ Recover(db) \in DbType /\ Told(db, Recover(db), k)
    BY <1>1, RecoverHush, RecoverType, HushTold
  <1>5. Told(db, BeforeClaim, k)
    BY <1>1, <1>4, ReconcileTold DEF BeforeClaim
  <1>6. ASSUME NEW j \in Job, Client(j) PROVE Told(db, db', k)
    <2>1. ASSUME NEW sinks \in SUBSET Sink, CreateJob(j, sinks) PROVE Told(db, db', k)
      <3>1. db' = Insert(db, {j}, sinks) /\ {j} \in SUBSET Job
        BY <2>1 DEF CreateJob
      <3> QED BY <1>1, <3>1, InsertHush, HushTold
    <2>2. CASE Pause(j) \/ Resume(j) \/ Cancel(j)
      BY <1>1, <2>2, ControlTold DEF Pause, Resume, Cancel
    <2> QED BY <1>6, <2>1, <2>2 DEF Client
  <1>7. ASSUME NEW s \in Slot, Work(s) PROVE Told(db, db', k)
    <2>1. CASE ClaimNothing(s)
      BY <1>5, <2>1 DEF ClaimNothing
    <2>2. CASE ClaimItem(s)
      <3>1. PICK i \in Item : Claims(s, i)
        BY <2>2, ClaimFacts
      <3>2. BeforeClaim \in DbType
        BY <1>4, ReconcileType DEF BeforeClaim
      <3>3. SameView(BeforeClaim, db', k) /\ db'.announced = BeforeClaim.announced
        <4>1. \A o : \A d \in DbType : Lease(d, i, o).announced = d.announced
          BY DEF Lease, DbType
        <4> QED BY <3>1, <3>2, <4>1, LeaseView DEF Claims
      <3>4. \/ db'.job[k].status = BeforeClaim.job[k].status
            \/ ~Over(BeforeClaim, k) /\ ~Over(db', k)
        BY <3>3 DEF SameView, PhaseIn, Over, Final
      <3>5. Reported(db, db', k) <=> Reported(db, BeforeClaim, k)
        BY <3>3 DEF Reported, SameView, SameOutcomes, SettlesInto, OutcomeIn, Settled
      <3> QED BY <1>5, <3>3, <3>4, <3>5 DEF Told, Over
    <2>3. CASE Heartbeat(s)
      <3>1. db'.job = db.job /\ db'.announced = db.announced
        BY <1>1, <2>3 DEF Heartbeat, DbType
      <3> QED BY <1>1, <3>1, HushTold DEF Hush, Over
    <2>4. CASE CompleteItem(s)
      <3>1. Busy(s) /\ db.item[slot[s].item].status = "running"
        BY <2>4 DEF CompleteItem, Busy, OwnsLease, Owns
      <3>2. PICK J \in SUBSET Followups(slot[s].item) :
              db' = Complete(db, slot[s].item, slot[s].token, J)
        BY <2>4 DEF CompleteItem
      <3>3. J \in SUBSET Job
        BY DEF Followups
      <3> QED BY <1>1, <1>2, <3>1, <3>2, <3>3, CompleteTold
    <2>5. ASSUME NEW r \in BOOLEAN, FailItem(s, r) \/ (r /\ FailInternal(s))
          PROVE  Told(db, db', k)
      <3>1. Busy(s) /\ db.item[slot[s].item].status = "running"
        BY <2>5 DEF FailItem, FailInternal, Busy, OwnsLease, Owns
      <3>2. db' = Fail(db, slot[s].item, r)
        BY <2>5 DEF FailItem, FailInternal
      <3> QED BY <1>1, <1>2, <3>1, <3>2, FailTold
    <2>6. CASE LeaseLost(s) \/ Raise(s) \/ Crash(s)
      BY <1>3, <2>6 DEF LeaseLost, Raise, Crash
    <2>7. CASE Restart(s)
      BY <1>4, <2>7 DEF Restart
    <2> QED
      BY <1>7, <2>1, <2>2, <2>3, <2>4, <2>5, <2>6, <2>7 DEF Work, Claim, Report
  <1>8. ASSUME NEW i \in Item, Time(i) PROVE Told(db, db', k)
    <2>1. db'.job = db.job /\ db'.announced = db.announced
      BY <1>1, <1>8 DEF Time, LeaseTimesOut, BackoffElapses, DbType
    <2> QED BY <1>1, <2>1, HushTold DEF Hush, Over
  <1>9. CASE UNCHANGED vars
    BY <1>3, <1>9 DEF vars
  <1> QED BY <1>6, <1>7, <1>8, <1>9 DEF Next

\* A job announces nothing before its end, and at its end, once, the status it ends
\* with; only a cancelled job whose last open item is settled by the report of the
\* slot that runs it ends unannounced.
THEOREM AnnouncedSound == Spec => EndAnnounced
  <1>1. StatusInv /\ [Next]_vars =>
          [\A j \in Job :
             db'.announced[j] =
               IF db'.job[j].status \notin Final THEN << >>
               ELSE IF db.job[j].status \in Final THEN db.announced[j]
               ELSE IF db.job[j].status = "cancel_requested" /\ LastReport(j) THEN << >>
               ELSE <<db'.job[j].status>>]_vars
    BY NextTold DEF Told, Over, Reported, LastReport
  <1> QED BY InitStatus, NextStatus, <1>1, PTL DEF Spec, EndAnnounced

-----------------------------------------------------------------------------
(* Claims *)

\* Recovering leases and settling requests make no job pending or running.
LEMMA StartableBefore ==
  ASSUME NEW d \in DbType, NEW j \in Job,
         Reconcile(Recover(d)).job[j].status \in {"pending", "running"}
  PROVE  d.job[j].status \in {"pending", "running"}
  <1> DEFINE c == CancelPending(Recover(d))
             e == SettleControls(c)
  <1>1. Recover(d).job = d.job /\ Recover(d) \in DbType
    BY RecoverType DEF Recover, DbType
  <1>2. c \in DbType /\ c.job = d.job /\ Reconcile(Recover(d)) = e
    BY <1>1, CancelPendingType, CancelPendingFacts DEF Reconcile
  <1> HIDE DEF c
  <1>3. /\ j \in Quiet(c, "pause_requested") => e.job[j] = [c.job[j] EXCEPT !.status = "paused"]
        /\ j \in Quiet(c, "cancel_requested") =>
             e.job[j] = [Counted(c, j) EXCEPT !.status = "cancelled"]
        /\ j \notin Quiet(c, "pause_requested") \cup Quiet(c, "cancel_requested") =>
             e.job[j] = c.job[j]
    BY <1>2, SettleFacts
  <1> HIDE DEF e
  <1>4. [c.job[j] EXCEPT !.status = "paused"].status = "paused"
    BY <1>2 DEF DbType, JobRow
  <1>5. [Counted(c, j) EXCEPT !.status = "cancelled"].status = "cancelled"
    BY <1>2, CountedFields
  <1> QED BY <1>2, <1>3, <1>4, <1>5

\* The item a claim takes is the first of its job that is ready.
LEMMA FirstOfJob ==
  ASSUME NEW d \in DbType, NEW scope, NEW i \in First(d, scope), NEW k \in ItemsOf(JobOf(i)),
         d.item[k].status = "pending", d.item[k].ready, k # i
  PROVE  SeqOf(i) < SeqOf(k)
  <1>1. i \in Item /\ JobOf(i) \in Job /\ i \in Claimable(d, scope)
    BY ItemFacts DEF First, Claimable
  <1>2. k \in Item /\ JobOf(k) = JobOf(i)
    BY <1>1, ItemsOfFacts
  <1>3. k \in Claimable(d, scope)
    BY <1>1, <1>2 DEF Claimable
  <1>4. ~(SeqOf(k) < SeqOf(i))
    BY <1>2, <1>3 DEF First, Before
  <1>5. SeqOf(i) # SeqOf(k)
    BY <1>1, <1>2, ItemFacts
  <1>6. SeqOf(i) \in Nat /\ SeqOf(k) \in Nat
    BY <1>1, <1>2, ItemFacts, SizeAssumption
  <1> QED BY <1>4, <1>5, <1>6

LEMMA ClaimStarts ==
  ASSUME StatusInv, NEW s \in Slot, ClaimItem(s), NEW i \in Item,
         db.item[i].attempts # db'.item[i].attempts
  PROVE  /\ db.job[JobOf(i)].status \in {"pending", "running"}
         /\ \A k \in ItemsOf(JobOf(i)) :
              db'.item[k].status = "pending" /\ db'.item[k].ready => SeqOf(i) < SeqOf(k)
  <1> DEFINE d == BeforeClaim
  <1>1. TypeInv /\ RowsSound(db) /\ db \in DbType
    BY DEF StatusInv, LeaseInv, TypeInv, TypeOK
  <1>2. d \in DbType /\ RowsSound(d) /\ SameAttempts(db, d)
    BY <1>1, BeforeClaimSound
  <1> HIDE DEF d
  <1>3. PICK scope \in Scopes[s] : \E m \in First(d, scope) : db' = Lease(d, m, Owner[s])
    BY DEF ClaimItem, d
  <1>4. PICK m \in First(d, scope) : db' = Lease(d, m, Owner[s])
    BY <1>3
  <1>5. /\ m \in Item /\ d.item[m].status = "pending"
        /\ d.job[JobOf(m)].status \in {"pending", "running"}
    BY <1>4 DEF First, Claimable
  <1>6. m = i
    BY <1>2, <1>4, <1>5, LeaseSound DEF SameAttempts
  <1>7. db.job[JobOf(i)].status \in {"pending", "running"}
    BY <1>1, <1>5, <1>6, ItemFacts, StartableBefore DEF BeforeClaim, d
  <1>8. db'.item = [d.item EXCEPT ![i] = Leased(d.item[i], Owner[s], FreshToken(d, i))]
    BY <1>2, <1>4, <1>6, ItemFacts DEF Lease, DbType
  <1>9. /\ db'.item[i].status = "running"
        /\ \A k \in Item \ {i} : db'.item[k] = d.item[k]
    <2>1. Leased(d.item[i], Owner[s], FreshToken(d, i)).status = "running"
      BY <1>2 DEF Leased, DbType, ItemRow
    <2> QED BY <1>2, <1>8, <2>1 DEF DbType
  <1>10. ASSUME NEW k \in ItemsOf(JobOf(i)), db'.item[k].status = "pending", db'.item[k].ready
         PROVE  SeqOf(i) < SeqOf(k)
    <2>1. k # i /\ k \in Item
      BY <1>9, <1>10, ItemFacts, ItemsOfFacts
    <2>2. db'.item[k] = d.item[k]
      BY <1>9, <2>1
    <2> QED BY <1>2, <1>4, <1>6, <1>10, <2>1, <2>2, FirstOfJob
  <1> QED BY <1>7, <1>10

\* Every other step leaves the claims counted as they are.
LEMMA NoStart ==
  ASSUME StatusInv, [Next]_vars, \A s \in Slot : ~ClaimItem(s)
  PROVE  SameAttempts(db, db')
  <1>1. TypeInv /\ RowsSound(db) /\ db \in DbType
    BY DEF StatusInv, LeaseInv, TypeInv, TypeOK
  <1>2. \A s \in Slot : Busy(s) => slot[s].item \in Item /\ slot[s].token \in Nat
    BY <1>1 DEF TypeInv, TypeOK
  <1>3. SameAttempts(db, db)
    BY DEF SameAttempts
  <1>4. ASSUME NEW e, Preserves(db, e), db' = e PROVE SameAttempts(db, db')
    BY <1>1, <1>4, PreservesSound
  <1>5. ASSUME NEW j \in Job, Client(j) PROVE SameAttempts(db, db')
    <2>1. ASSUME NEW sinks \in SUBSET Sink, CreateJob(j, sinks) PROVE SameAttempts(db, db')
      <3>1. db' = Insert(db, {j}, sinks) /\ {j} \in SUBSET Job
        BY <2>1 DEF CreateJob
      <3> QED BY <1>1, <3>1, InsertSound
    <2>2. CASE Pause(j) \/ Resume(j) \/ Cancel(j)
      BY <1>1, <1>4, <2>2, ControlsPreserve DEF Pause, Resume, Cancel
    <2> QED BY <1>5, <2>1, <2>2 DEF Client
  <1>6. ASSUME NEW s \in Slot, Work(s) PROVE SameAttempts(db, db')
    <2>1. CASE ClaimNothing(s)
      BY <1>1, <2>1, BeforeClaimSound DEF ClaimNothing
    <2>2. CASE Heartbeat(s)
      <3>1. slot[s].item \in Item /\ db' = [db EXCEPT !.item[slot[s].item].expired = FALSE]
        BY <1>2, <2>2 DEF Heartbeat
      <3> QED BY <1>1, <1>4, <3>1, ExpiryPreserves
    <2>3. CASE CompleteItem(s)
      <3>1. /\ Busy(s) /\ db.item[slot[s].item].status = "running"
            /\ db.item[slot[s].item].token = slot[s].token
        BY <2>3 DEF CompleteItem, Busy, OwnsLease, Owns
      <3>2. PICK J \in SUBSET Followups(slot[s].item) :
              db' = Complete(db, slot[s].item, slot[s].token, J)
        BY <2>3 DEF CompleteItem
      <3>3. J \in SUBSET Job
        BY DEF Followups
      <3> QED BY <1>1, <1>2, <3>1, <3>2, <3>3, CompleteSound
    <2>4. ASSUME NEW r \in BOOLEAN, FailItem(s, r) \/ (r /\ FailInternal(s))
          PROVE  SameAttempts(db, db')
      <3>1. Busy(s) /\ db.item[slot[s].item].status = "running"
        BY <2>4 DEF FailItem, FailInternal, Busy, OwnsLease, Owns
      <3>2. db' = Fail(db, slot[s].item, r)
        BY <2>4 DEF FailItem, FailInternal
      <3> QED BY <1>1, <1>2, <3>1, <3>2, FailSound
    <2>5. CASE LeaseLost(s) \/ Raise(s) \/ Crash(s)
      BY <1>3, <2>5 DEF LeaseLost, Raise, Crash
    <2>6. CASE Restart(s)
      BY <1>1, <1>4, <2>6, RecoverPreserves DEF Restart
    <2> QED
      BY <1>6, <2>1, <2>2, <2>3, <2>4, <2>5, <2>6 DEF Work, Claim, Report
  <1>7. ASSUME NEW i \in Item, Time(i) PROVE SameAttempts(db, db')
    BY <1>1, <1>4, <1>7, ExpiryPreserves DEF Time, LeaseTimesOut, BackoffElapses
  <1>8. CASE UNCHANGED vars
    BY <1>3, <1>8 DEF vars
  <1> QED BY <1>5, <1>6, <1>7, <1>8 DEF Next

\* A claim starts no item of a job that is paused, over, or asked to pause or
\* cancel, and within a job no item starts ahead of an earlier one that is ready.
THEOREM StartsInOrder == Spec => StartsRespectControls
  <1>1. ASSUME StatusInv, [Next]_vars
        PROVE  \A i \in Item :
                 db.item[i].attempts # db'.item[i].attempts =>
                   /\ db.job[JobOf(i)].status \in {"pending", "running"}
                   /\ \A k \in ItemsOf(JobOf(i)) :
                        db'.item[k].status = "pending" /\ db'.item[k].ready => SeqOf(i) < SeqOf(k)
    <2>1. CASE \E s \in Slot : ClaimItem(s)
      BY <1>1, <2>1, ClaimStarts
    <2>2. CASE \A s \in Slot : ~ClaimItem(s)
      BY <1>1, <2>2, NoStart DEF SameAttempts
    <2> QED BY <2>1, <2>2
  <1> QED BY InitStatus, NextStatus, <1>1, PTL DEF Spec, StartsRespectControls
=============================================================================
