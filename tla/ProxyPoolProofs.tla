-------------------------- MODULE ProxyPoolProofs --------------------------
(* Theorems about ProxyPool, for any number of tasks and proxies. *)
EXTENDS ProxyPool, FiniteSetTheorems, TLAPS

(***************************************************************************)
(* The invariant: who loads holds the lock, and a proxy that is owed a     *)
(* turn is free and stands before the one it is owed to.                   *)
(***************************************************************************)
LockSound == \A t \in Task : At(t, "loading") <=> lock = t

Before(q, p, r) == \E i, j \in DOMAIN q : i < j /\ q[i] = p /\ q[j] = r
OwedSound == \A p, r \in Proxy : <<p, r>> \in owed => r \notin benched /\ Before(queue, r, p)

Inv == TypeOK /\ LockSound /\ OwedSound

\* A queue in which each proxy is once
IsQueue(q) == q \in Seq(Proxy) /\ \A i, j \in DOMAIN q : q[i] = q[j] => i = j

-----------------------------------------------------------------------------
(* Queues *)

\* A rotation is a queue of the same proxies.
LEMMA RotatedQueue ==
  ASSUME NEW q, IsQueue(q), NEW k \in DOMAIN q
  PROVE  /\ IsQueue(Rotated(q, k))
         /\ Len(Rotated(q, k)) = Len(q)
         /\ \A i \in 1 .. k : Rotated(q, k)[i + Len(q) - k] = q[i]
         /\ \A i \in k + 1 .. Len(q) : Rotated(q, k)[i - k] = q[i]
  <1> DEFINE n == Len(q)
             r == Rotated(q, k)
  <1>1. n \in Nat /\ q \in [1 .. n -> Proxy] /\ k \in 1 .. n
    BY DEF IsQueue
  <1>2. r = [i \in 1 .. n |-> IF i <= n - k THEN q[i + k] ELSE q[i + k - n]]
    BY DEF Rotated
  <1> HIDE DEF n, r
  <1>3. r \in [1 .. n -> Proxy]
    BY <1>1, <1>2
  <1>4. r \in Seq(Proxy) /\ Len(r) = n
    BY <1>1, <1>3
  <1>5. ASSUME NEW i \in 1 .. k PROVE r[i + n - k] = q[i]
    <2>1. i + n - k \in 1 .. n /\ ~(i + n - k <= n - k) /\ (i + n - k) + k - n = i
      BY <1>1
    <2> QED BY <1>2, <2>1
  <1>6. ASSUME NEW i \in k + 1 .. n PROVE r[i - k] = q[i]
    <2>1. i - k \in 1 .. n /\ i - k <= n - k /\ (i - k) + k = i
      BY <1>1
    <2> QED BY <1>2, <2>1
  <1>7. ASSUME NEW i \in 1 .. n, NEW j \in 1 .. n, r[i] = r[j] PROVE i = j
    <2> DEFINE at(x) == IF x <= n - k THEN x + k ELSE x + k - n
    <2>1. at(i) \in 1 .. n /\ at(j) \in 1 .. n
      BY <1>1
    <2>2. r[i] = q[at(i)] /\ r[j] = q[at(j)]
      BY <1>1, <1>2
    <2>3. at(i) = at(j)
      <3> HIDE DEF at
      <3> QED BY <1>1, <1>7, <2>1, <2>2 DEF IsQueue
    <2> QED BY <1>1, <2>3
  <1>8. IsQueue(r)
    BY <1>3, <1>4, <1>7 DEF IsQueue
  <1> QED BY <1>4, <1>5, <1>6, <1>8 DEF n, r

\* Proxies that are not in the queue may be appended to it.
LEMMA AppendedQueue ==
  ASSUME NEW q, IsQueue(q), NEW S \in SUBSET Proxy, S \cap Members(q) = {},
         NEW new \in SetToSeqs(S)
  PROVE  /\ IsQueue(q \o new)
         /\ \A i \in DOMAIN q : i \in DOMAIN (q \o new) /\ (q \o new)[i] = q[i]
  <1>1. Cardinality(S) \in Nat
    BY ProxyAssumption, FS_Subset, FS_CardinalityType
  <1>2. new \in [1 .. Cardinality(S) -> S] /\ \A i, j \in 1 .. Cardinality(S) : i # j => new[i] # new[j]
    BY DEF SetToSeqs
  <1>3. new \in Seq(Proxy) /\ Len(new) = Cardinality(S)
    BY <1>1, <1>2
  <1>4. \A i \in 1 .. Len(new) : new[i] \notin Members(q)
    BY <1>2, <1>3
  <1>5. q \in Seq(Proxy) /\ q \o new \in Seq(Proxy) /\ Len(q \o new) = Len(q) + Len(new)
    BY <1>3 DEF IsQueue
  <1>6. \A i \in 1 .. Len(q) : (q \o new)[i] = q[i]
    BY <1>3 DEF IsQueue
  <1>7. \A i \in Len(q) + 1 .. Len(q) + Len(new) : (q \o new)[i] = new[i - Len(q)]
    BY <1>3 DEF IsQueue
  <1>8. ASSUME NEW i \in 1 .. Len(q \o new), NEW j \in 1 .. Len(q \o new),
               (q \o new)[i] = (q \o new)[j]
        PROVE  i = j
    <2>1. CASE i <= Len(q) /\ j <= Len(q)
      BY <1>5, <1>6, <1>8, <2>1 DEF IsQueue
    <2>2. CASE i > Len(q) /\ j > Len(q)
      BY <1>2, <1>3, <1>5, <1>7, <1>8, <2>2
    <2>3. CASE i <= Len(q) /\ j > Len(q)
      BY <1>3, <1>4, <1>5, <1>6, <1>7, <1>8, <2>3 DEF Members
    <2>4. CASE i > Len(q) /\ j <= Len(q)
      BY <1>3, <1>4, <1>5, <1>6, <1>7, <1>8, <2>4 DEF Members
    <2> QED BY <2>1, <2>2, <2>3, <2>4, <1>5
  <1> QED BY <1>5, <1>6, <1>8 DEF IsQueue

-----------------------------------------------------------------------------
(* Handing out *)

\* HandOut on a queue in which everybody owed stands before those it is owed to: nobody
\* owed is passed over, and the invariant holds of what is handed out.
LEMMA HandOutSound ==
  ASSUME Inv, NEW t \in Task, NEW q, IsQueue(q), HandOut(t, q),
         \A p, r \in Proxy : <<p, r>> \in owed => Before(q, r, p)
  PROVE  /\ IsQueue(queue')
         /\ owed' \subseteq Proxy \X Proxy
         /\ \A p, r \in Proxy : <<p, r>> \in owed' => r \notin benched /\ Before(queue', r, p)
         /\ \E x \in Proxy \cup {Direct} : task' = [task EXCEPT ![t] = Using(x)]
         /\ \A o \in owed : o[1] # task'[t].proxy
  <1>0. q \in Seq(Proxy) /\ task \in [Task -> TaskRow] /\ owed \subseteq Proxy \X Proxy
    BY DEF Inv, TypeOK, IsQueue
  <1>1. CASE Free(q) = {} /\ queue' = q /\ Move(t, Using(Direct)) /\ UNCHANGED owed
    <2>1. \A o \in owed : o[1] # Direct
      BY <1>0, ProxyAssumption
    <2> QED BY <1>0, <1>1, <2>1 DEF Inv, OwedSound, Move, Using
  <1>2. ASSUME NEW k \in DOMAIN q, IsFirstFree(q, k), queue' = Rotated(q, k), Move(t, Using(q[k])),
               owed' = {o \in owed : q[k] \notin {o[1], o[2]}}
                         \cup {<<q[k], p>> : p \in Free(q) \ {q[k]}}
        PROVE  /\ IsQueue(queue')
               /\ owed' \subseteq Proxy \X Proxy
               /\ \A p, r \in Proxy : <<p, r>> \in owed' => r \notin benched /\ Before(queue', r, p)
               /\ \E x \in Proxy \cup {Direct} : task' = [task EXCEPT ![t] = Using(x)]
               /\ \A o \in owed : o[1] # task'[t].proxy
    <2>1. /\ IsQueue(queue') /\ Len(queue') = Len(q)
          /\ \A i \in 1 .. k : queue'[i + Len(q) - k] = q[i]
          /\ \A i \in k + 1 .. Len(q) : queue'[i - k] = q[i]
      BY <1>2, RotatedQueue
    <2>2. k \in 1 .. Len(q) /\ Len(q) \in Nat /\ q[k] \in Proxy /\ DOMAIN q = 1 .. Len(q)
      BY <1>0, <1>2
    <2>2a. DOMAIN queue' = 1 .. Len(q)
      BY <2>1 DEF IsQueue
    <2>3. Free(q) \subseteq Proxy
      BY <1>0 DEF Free, Members
    <2>4. owed' \subseteq Proxy \X Proxy
      BY <1>0, <1>2, <2>2, <2>3
    <2>5. ASSUME NEW p \in Proxy, NEW r \in Proxy, <<p, r>> \in owed'
          PROVE  r \notin benched /\ Before(queue', r, p)
      <3>1. CASE <<p, r>> \in owed /\ q[k] \notin {p, r}
        <4>1. r \notin benched
          BY <3>1 DEF Inv, OwedSound
        <4>2. PICK i, j \in DOMAIN q : i < j /\ q[i] = r /\ q[j] = p
          BY <3>1 DEF Before
        <4>3. i > k
          <5>1. i # k
            BY <3>1, <4>2
          <5>2. ~(i < k)
            BY <1>2, <2>2, <4>1, <4>2 DEF IsFirstFree
          <5> QED BY <2>2, <4>2, <5>1, <5>2
        <4>4. queue'[i - k] = r /\ queue'[j - k] = p
          <5>1. i \in k + 1 .. Len(q) /\ j \in k + 1 .. Len(q)
            BY <2>2, <4>2, <4>3
          <5> QED BY <2>1, <4>2, <5>1
        <4>5. i - k \in DOMAIN queue' /\ j - k \in DOMAIN queue' /\ i - k < j - k
          BY <2>2, <2>2a, <4>2, <4>3
        <4> QED BY <4>1, <4>4, <4>5 DEF Before
      <3>2. CASE p = q[k] /\ r \in Free(q) \ {q[k]}
        <4>1. PICK i \in DOMAIN q : q[i] = r
          BY <3>2 DEF Free, Members
        <4>2. r \notin benched /\ i # k
          BY <3>2, <4>1 DEF Free
        <4>3. i > k
          BY <1>2, <2>2, <4>1, <4>2 DEF IsFirstFree
        <4>4. queue'[i - k] = r /\ queue'[k + Len(q) - k] = p
          <5>1. i \in k + 1 .. Len(q) /\ k \in 1 .. k
            BY <2>2, <4>1, <4>3
          <5> QED BY <2>1, <3>2, <4>1, <5>1
        <4>5. i - k \in DOMAIN queue' /\ Len(q) \in DOMAIN queue' /\ i - k < Len(q) /\ k + Len(q) - k = Len(q)
          BY <2>2, <2>2a, <4>1, <4>3
        <4> QED BY <4>2, <4>4, <4>5 DEF Before
      <3> QED BY <1>2, <2>5, <3>1, <3>2
    <2>6. task'[t].proxy = q[k] /\ task' = [task EXCEPT ![t] = Using(q[k])]
      BY <1>0, <1>2 DEF Move, Using
    <2>7. ASSUME NEW o \in owed, o[1] = q[k] PROVE FALSE
      <3>1. PICK r \in Proxy : o = <<q[k], r>>
        BY <1>0, <2>7
      <3>2. r \notin benched /\ Before(q, r, q[k])
        BY <2>2, <2>7, <3>1 DEF Inv, OwedSound
      <3>3. PICK i, j \in DOMAIN q : i < j /\ q[i] = r /\ q[j] = q[k]
        BY <3>2 DEF Before
      <3>4. j = k
        BY <1>2, <3>3 DEF IsQueue
      <3> QED BY <1>2, <2>2, <3>2, <3>3, <3>4 DEF IsFirstFree
    <2> QED BY <2>1, <2>2, <2>4, <2>5, <2>6, <2>7
  <1> QED BY <1>1, <1>2 DEF HandOut

-----------------------------------------------------------------------------
(* The invariant *)

LEMMA InitInv == Init => Inv
  <1> SUFFICES ASSUME Init PROVE Inv
    OBVIOUS
  <1>1. TypeOK
    <2>1. queue \in Seq(Proxy) /\ \A i, j \in DOMAIN queue : queue[i] = queue[j] => i = j
      BY DEF Init
    <2>2. task \in [Task -> TaskRow]
      BY DEF Init, Idle, TaskRow
    <2> QED BY <2>1, <2>2 DEF Init, TypeOK
  <1>2. LockSound
    BY TaskAssumption DEF Init, LockSound, At, Idle
  <1>3. OwedSound
    BY DEF Init, OwedSound
  <1> QED BY <1>1, <1>2, <1>3 DEF Inv

\* Steps that hand out a proxy
LEMMA HandingOutInv ==
  ASSUME Inv, NEW t \in Task, NEW q, IsQueue(q), HandOut(t, q),
         \A p, r \in Proxy : <<p, r>> \in owed => Before(q, r, p),
         UNCHANGED benched, cooling' \in BOOLEAN,
         lock' = IF At(t, "loading") THEN Nobody ELSE lock
  PROVE  Inv'
  <1>1. /\ IsQueue(queue')
        /\ owed' \subseteq Proxy \X Proxy
        /\ \A p, r \in Proxy : <<p, r>> \in owed' => r \notin benched /\ Before(queue', r, p)
        /\ \E x \in Proxy \cup {Direct} : task' = [task EXCEPT ![t] = Using(x)]
    BY HandOutSound
  <1>2. PICK x \in Proxy \cup {Direct} : task' = [task EXCEPT ![t] = Using(x)]
    BY <1>1
  <1>3. task \in [Task -> TaskRow] /\ Using(x) \in TaskRow /\ lock \in Task \cup {Nobody}
    BY DEF Inv, TypeOK, TaskRow, Using
  <1>4. TypeOK'
    BY <1>1, <1>2, <1>3 DEF Inv, TypeOK, IsQueue
  <1>5. LockSound'
    BY <1>2, <1>3, TaskAssumption DEF Inv, LockSound, At, Using
  <1>6. OwedSound'
    <2> SUFFICES ASSUME NEW p \in Proxy, NEW r \in Proxy, (<<p, r>> \in owed)'
                 PROVE  r \notin benched' /\ Before(queue', r, p)
      BY DEF OwedSound, Before
    <2> QED BY <1>1
  <1> QED BY <1>4, <1>5, <1>6 DEF Inv

\* Steps that leave the queue alone
LEMMA QueueStaysInv ==
  ASSUME Inv, UNCHANGED queue, TypeOK', LockSound', owed' \subseteq owed,
         \A o \in owed' : o[2] \notin benched'
  PROVE  Inv'
  <1>1. ASSUME NEW p \in Proxy, NEW r \in Proxy, <<p, r>> \in owed'
        PROVE  r \notin benched' /\ Before(queue', r, p)
    <2>1. Before(queue, r, p) /\ <<p, r>>[2] \notin benched'
      BY <1>1 DEF Inv, OwedSound
    <2> QED BY <2>1 DEF Before
  <1>2. OwedSound'
    <2> SUFFICES ASSUME NEW p \in Proxy, NEW r \in Proxy, (<<p, r>> \in owed)'
                 PROVE  r \notin benched' /\ Before(queue', r, p)
      BY DEF OwedSound, Before
    <2> QED BY <1>1
  <1> QED BY <1>2 DEF Inv

LEMMA OwedFree == ASSUME Inv PROVE \A o \in owed : o[2] \notin benched
  BY DEF Inv, TypeOK, OwedSound

\* The queue a load makes, which everybody owed stands in as before
LEMMA LoadedQueue ==
  ASSUME Inv, NEW loaded \in SUBSET Proxy, NEW new \in SetToSeqs(Unqueued(loaded))
  PROVE  /\ IsQueue(queue \o new)
         /\ \A p, r \in Proxy : <<p, r>> \in owed => Before(queue \o new, r, p)
  <1>1. IsQueue(queue)
    BY DEF Inv, TypeOK, IsQueue
  <1>2. Unqueued(loaded) \in SUBSET Proxy /\ Unqueued(loaded) \cap Members(queue) = {}
    BY DEF Unqueued
  <1>3. /\ IsQueue(queue \o new)
        /\ \A i \in DOMAIN queue : i \in DOMAIN (queue \o new) /\ (queue \o new)[i] = queue[i]
    BY <1>1, <1>2, AppendedQueue
  <1>4. ASSUME NEW p \in Proxy, NEW r \in Proxy, <<p, r>> \in owed
        PROVE  Before(queue \o new, r, p)
    <2>1. PICK i, j \in DOMAIN queue : i < j /\ queue[i] = r /\ queue[j] = p
      BY <1>4 DEF Inv, OwedSound, Before
    <2> QED BY <1>3, <2>1 DEF Before
  <1> QED BY <1>3, <1>4

LEMMA NextInv == Inv /\ [Next]_vars => Inv'
  <1> SUFFICES ASSUME Inv, [Next]_vars PROVE Inv'
    OBVIOUS
  <1>q. IsQueue(queue) /\ \A p, r \in Proxy : <<p, r>> \in owed => Before(queue, r, p)
    BY DEF Inv, TypeOK, IsQueue, OwedSound
  <1>o. \A o \in owed : o[2] \notin benched
    BY OwedFree
  <1>1. ASSUME NEW t \in Task, AcquireFree(t) PROVE Inv'
    <2>1. /\ HandOut(t, queue) /\ UNCHANGED benched
          /\ lock' = IF At(t, "loading") THEN Nobody ELSE lock
      BY <1>1 DEF AcquireFree, At
    <2>2. cooling' \in BOOLEAN
      BY <1>1 DEF Inv, TypeOK, AcquireFree
    <2>3. IsQueue(queue) /\ \A p, r \in Proxy : <<p, r>> \in owed => Before(queue, r, p)
      BY <1>q
    <2> QED BY <2>1, <2>2, <2>3, HandingOutInv
  <1>2. ASSUME NEW t \in Task, AcquireWaits(t) PROVE Inv'
    <2>1. TypeOK'
      BY <1>2 DEF Inv, TypeOK, TaskRow, AcquireWaits, Move, Waiting
    <2>2. LockSound'
      BY <1>2 DEF Inv, TypeOK, LockSound, AcquireWaits, Move, Waiting, At
    <2> QED BY <1>2, <1>o, <2>1, <2>2, QueueStaysInv DEF AcquireWaits
  <1>3. ASSUME NEW t \in Task, Lock(t) PROVE Inv'
    <2>1. TypeOK'
      BY <1>3 DEF Inv, TypeOK, TaskRow, Lock, Move, Loading
    <2>2. LockSound'
      BY <1>3, TaskAssumption DEF Inv, TypeOK, LockSound, Lock, Move, Loading, At
    <2> QED BY <1>3, <1>o, <2>1, <2>2, QueueStaysInv DEF Lock
  <1>4. ASSUME NEW t \in Task, FindFree(t) PROVE Inv'
    <2>1. /\ HandOut(t, queue) /\ UNCHANGED benched
          /\ lock' = IF At(t, "loading") THEN Nobody ELSE lock
      BY <1>4 DEF FindFree, At
    <2>2. cooling' \in BOOLEAN
      BY <1>4 DEF Inv, TypeOK, FindFree
    <2>3. IsQueue(queue) /\ \A p, r \in Proxy : <<p, r>> \in owed => Before(queue, r, p)
      BY <1>q
    <2> QED BY <2>1, <2>2, <2>3, HandingOutInv
  <1>5. ASSUME NEW t \in Task, FindCooling(t) PROVE Inv'
    <2>1. TypeOK'
      BY <1>5 DEF Inv, TypeOK, TaskRow, FindCooling, Move, Idle
    <2>2. LockSound'
      BY <1>5, TaskAssumption DEF Inv, TypeOK, LockSound, FindCooling, Move, Idle, At
    <2> QED BY <1>5, <1>o, <2>1, <2>2, QueueStaysInv DEF FindCooling
  <1>6. ASSUME NEW t \in Task, Load(t) PROVE Inv'
    <2>1. PICK loaded \in (SUBSET Proxy) \ {{}} :
            \E new \in SetToSeqs(Unqueued(loaded)) : HandOut(t, queue \o new)
      BY <1>6 DEF Load
    <2>2. PICK new \in SetToSeqs(Unqueued(loaded)) : HandOut(t, queue \o new)
      BY <2>1
    <2>3. /\ IsQueue(queue \o new)
          /\ \A p, r \in Proxy : <<p, r>> \in owed => Before(queue \o new, r, p)
      BY LoadedQueue
    <2>4. /\ lock' = IF At(t, "loading") THEN Nobody ELSE lock
          /\ cooling' \in BOOLEAN /\ UNCHANGED benched
      BY <1>6 DEF Load
    <2> QED BY <2>2, <2>3, <2>4, HandingOutInv
  <1>7. ASSUME NEW t \in Task, LoadFails(t) PROVE Inv'
    <2>1. TypeOK'
      BY <1>7 DEF Inv, TypeOK, TaskRow, LoadFails, Released, Move, Idle
    <2>2. LockSound'
      BY <1>7, TaskAssumption DEF Inv, TypeOK, LockSound, LoadFails, Released, Move, Idle, At
    <2> QED BY <1>7, <1>o, <2>1, <2>2, QueueStaysInv DEF LoadFails
  <1>8. ASSUME NEW t \in Task, Report(t) PROVE Inv'
    <2>1. Members(queue) \subseteq Proxy
      BY DEF Inv, TypeOK, Members
    <2>2. benched' \subseteq Proxy
      BY <1>8, <2>1 DEF Inv, TypeOK, Report
    <2>3. /\ UNCHANGED <<queue, cooling, lock>> /\ task' = [task EXCEPT ![t] = Idle]
          /\ owed' = {o \in owed : o[2] \notin benched'} /\ At(t, "using")
      BY <1>8 DEF Report, Move
    <2>4. TypeOK'
      BY <2>2, <2>3 DEF Inv, TypeOK, TaskRow, Idle
    <2>5. LockSound'
      BY <2>3 DEF Inv, TypeOK, LockSound, Idle, At
    <2> QED BY <2>3, <2>4, <2>5, QueueStaysInv
  <1>9. ASSUME NEW t \in Task, Cancel(t) PROVE Inv'
    <2>1. TypeOK'
      BY <1>9 DEF Inv, TypeOK, TaskRow, Cancel, Move, Idle
    <2>2. LockSound'
      BY <1>9, TaskAssumption DEF Inv, TypeOK, LockSound, Cancel, Move, Idle, At
    <2> QED BY <1>9, <1>o, <2>1, <2>2, QueueStaysInv DEF Cancel
  <1>10. ASSUME NEW p \in Proxy, QuarantineElapses(p) PROVE Inv'
    <2>1. TypeOK' /\ LockSound'
      BY <1>10 DEF Inv, TypeOK, LockSound, At, QuarantineElapses
    <2>2. \A o \in owed' : o[2] \notin benched'
      BY <1>10, <1>o DEF QuarantineElapses
    <2> QED BY <1>10, <2>1, <2>2, QueueStaysInv DEF QuarantineElapses
  <1>11. CASE CooldownElapses
    <2>1. TypeOK' /\ LockSound'
      BY <1>11 DEF Inv, TypeOK, LockSound, At, CooldownElapses
    <2> QED BY <1>11, <1>o, <2>1, QueueStaysInv DEF CooldownElapses
  <1>12. CASE UNCHANGED vars
    <2>1. TypeOK' /\ LockSound'
      BY <1>12 DEF Inv, TypeOK, LockSound, At, vars
    <2> QED BY <1>12, <1>o, <2>1, QueueStaysInv DEF vars
  <1> QED
    BY <1>1, <1>2, <1>3, <1>4, <1>5, <1>6, <1>7, <1>8, <1>9, <1>10, <1>11, <1>12
    DEF Next, Run, Enter

THEOREM Invariance == Spec => []Inv
  BY InitInv, NextInv, PTL DEF Spec

\* The type invariant of the pool, which says that no proxy is queued twice
THEOREM TypeCorrect == Spec => []TypeOK
  <1>1. Inv => TypeOK
    BY DEF Inv
  <1> QED BY <1>1, Invariance, PTL

-----------------------------------------------------------------------------
(* What a step may do *)

\* The service is asked only when it must be, by one task at a time
THEOREM LoadsOnlyNeeded == Spec => LoadsNeeded
  <1> DEFINE A == \A t \in Task : ~At(t, "loading") /\ task'[t].phase = "loading" =>
                    /\ Free(queue) = {}
                    /\ ~cooling
                    /\ \A u \in Task : ~At(u, "loading")
  <1>1. ASSUME Inv, Next, NEW t \in Task, ~At(t, "loading"), task'[t].phase = "loading"
        PROVE  Lock(t)
    <2>1. ASSUME NEW u \in Task, NEW next, task' = [task EXCEPT ![u] = next],
                 next.phase # "loading"
          PROVE  FALSE
      BY <1>1, <2>1 DEF Inv, TypeOK, At
    <2>2. ASSUME NEW u \in Task, NEW q, HandOut(u, q) PROVE FALSE
      <3>1. PICK x : task' = [task EXCEPT ![u] = Using(x)]
        BY <2>2 DEF HandOut, Move
      <3>2. Using(x).phase # "loading"
        BY DEF Using
      <3> QED BY <2>1, <3>1, <3>2
    <2>3. ASSUME NEW u \in Task,
                 AcquireFree(u) \/ FindFree(u) \/ Load(u)
          PROVE  FALSE
      <3>1. \E q : HandOut(u, q)
        BY <2>3 DEF AcquireFree, FindFree, Load
      <3> QED BY <2>2, <3>1
    <2>4. ASSUME NEW u \in Task,
                 AcquireWaits(u) \/ FindCooling(u) \/ LoadFails(u) \/ Report(u) \/ Cancel(u)
          PROVE  FALSE
      <3>1. Idle.phase # "loading" /\ Waiting.phase # "loading"
        BY DEF Idle, Waiting
      <3>2. task' = [task EXCEPT ![u] = Idle] \/ task' = [task EXCEPT ![u] = Waiting]
        BY <2>4 DEF AcquireWaits, FindCooling, LoadFails, Report, Cancel, Move
      <3> QED BY <2>1, <3>1, <3>2
    <2>5. ASSUME NEW u \in Task, Lock(u) PROVE Lock(t)
      BY <1>1, <2>5 DEF Lock, Move, Inv, TypeOK, At
    <2>6. task' = task => FALSE
      BY <1>1 DEF At
    <2> QED
      BY <1>1, <2>3, <2>4, <2>5, <2>6 DEF Next, Run, Enter, QuarantineElapses, CooldownElapses
  <1>2. Inv /\ [Next]_vars => [A]_vars
    <2> SUFFICES ASSUME Inv, Next, NEW t \in Task, ~At(t, "loading"), task'[t].phase = "loading"
                 PROVE  Free(queue) = {} /\ ~cooling /\ \A u \in Task : ~At(u, "loading")
      BY DEF vars
    <2>1. Lock(t)
      BY <1>1
    <2> QED BY <2>1, TaskAssumption DEF Lock, MustLoad, Inv, LockSound
  <1>3. Spec => [][A]_vars
    BY <1>2, Invariance, PTL DEF Spec
  <1> QED BY <1>3 DEF LoadsNeeded

\* Nobody has two turns while another waits
THEOREM TurnsShared == Spec => RoundRobin
  <1> DEFINE A == \A t \in Task : ~At(t, "using") /\ task'[t].phase = "using" =>
                    \A o \in owed : o[1] # task'[t].proxy
  <1>1. ASSUME Inv, Next, NEW t \in Task, ~At(t, "using"), task'[t].phase = "using"
        PROVE  \A o \in owed : o[1] # task'[t].proxy
    <2>1. ASSUME NEW u \in Task, NEW next, task' = [task EXCEPT ![u] = next]
          PROVE  u = t /\ next.phase = "using"
      BY <1>1, <2>1 DEF Inv, TypeOK, At
    <2>2. ASSUME NEW u \in Task, NEW q, IsQueue(q), HandOut(u, q),
                 \A p, r \in Proxy : <<p, r>> \in owed => Before(q, r, p)
          PROVE  \A o \in owed : o[1] # task'[t].proxy
      <3>1. /\ \E x : task' = [task EXCEPT ![u] = Using(x)]
            /\ \A o \in owed : o[1] # task'[u].proxy
        BY <1>1, <2>2, HandOutSound
      <3> QED BY <2>1, <3>1
    <2>3. IsQueue(queue) /\ \A p, r \in Proxy : <<p, r>> \in owed => Before(queue, r, p)
      BY <1>1 DEF Inv, TypeOK, IsQueue, OwedSound
    <2>4. ASSUME NEW u \in Task, AcquireFree(u) \/ FindFree(u)
          PROVE  \A o \in owed : o[1] # task'[t].proxy
      <3>1. HandOut(u, queue)
        BY <2>4 DEF AcquireFree, FindFree
      <3> QED BY <2>2, <2>3, <3>1
    <2>5. ASSUME NEW u \in Task, Load(u)
          PROVE  \A o \in owed : o[1] # task'[t].proxy
      <3>1. PICK loaded \in (SUBSET Proxy) \ {{}} :
              \E new \in SetToSeqs(Unqueued(loaded)) : HandOut(u, queue \o new)
        BY <2>5 DEF Load
      <3>2. PICK new \in SetToSeqs(Unqueued(loaded)) : HandOut(u, queue \o new)
        BY <3>1
      <3>3. /\ IsQueue(queue \o new)
            /\ \A p, r \in Proxy : <<p, r>> \in owed => Before(queue \o new, r, p)
        BY <1>1, LoadedQueue
      <3> QED BY <2>2, <3>2, <3>3
    <2>6. ASSUME NEW u \in Task,
                 \/ AcquireWaits(u) \/ Lock(u) \/ FindCooling(u) \/ LoadFails(u)
                 \/ Report(u) \/ Cancel(u)
          PROVE  FALSE
      <3>1. Idle.phase # "using" /\ Waiting.phase # "using" /\ Loading.phase # "using"
        BY DEF Idle, Waiting, Loading
      <3>2. \/ task' = [task EXCEPT ![u] = Idle] \/ task' = [task EXCEPT ![u] = Waiting]
            \/ task' = [task EXCEPT ![u] = Loading]
        BY <2>6 DEF AcquireWaits, Lock, FindCooling, LoadFails, Report, Cancel, Move
      <3> QED BY <2>1, <3>1, <3>2
    <2>7. task' = task => FALSE
      BY <1>1 DEF At
    <2> QED
      BY <1>1, <2>4, <2>5, <2>6, <2>7 DEF Next, Run, Enter, QuarantineElapses, CooldownElapses
  <1>2. Inv /\ [Next]_vars => [A]_vars
    BY <1>1 DEF vars
  <1>3. Spec => [][A]_vars
    BY <1>2, Invariance, PTL DEF Spec
  <1> QED BY <1>3 DEF RoundRobin
=============================================================================
