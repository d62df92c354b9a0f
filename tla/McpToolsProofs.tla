--------------------------- MODULE McpToolsProofs ---------------------------
(***************************************************************************)
(* Theorems about the tools of the MCP server, for any number of calls,    *)
(* run slots, tokens, receipts, tenants, keys and rows and an unbounded    *)
(* clock: McpCalls, McpApprovals and McpListings, one after another.       *)
(***************************************************************************)
EXTENDS McpCalls, McpApprovals, McpListings, FiniteSetTheorems, TLAPS
-----------------------------------------------------------------------------
(***************************************************************************)
(* The invariant: how far a call has come says what its audit row can hold *)
(* and what it can be answered; the queue holds each waiter once, and the  *)
(* slots are shared out between the semaphore and the holders.             *)
(***************************************************************************)
Status == {"none", "started", "succeeded", "failed"}
Waiting == {"queued", "granted"}
Counted == {"queued", "granted", "working", "finishing"}

\* r is what a call is doing, s the status of its audit row
CallSound(r, s) ==
  /\ r \in CallRow /\ s \in Status
  /\ r.outcome = "ok" <=> r.writes = "succeeded"
  /\ s = "succeeded" => r.outcome = "ok"
  /\ r.phase \in Waiting => r.kind = "run"
  /\ r.phase = "idle" => r = Unseen /\ s = "none"
  /\ r.phase = "starting" =>
       r.writes = "started" /\ r.answer = "none" /\ (r.thread = "wrote" => s = "started")
  /\ r.phase \in Waiting \cup {"working"} =>
       r.writes = "started" /\ r.answer = "none" /\ r.thread = "wrote" /\ s = "started"
  /\ r.phase = "finishing" =>
       /\ r.writes # "started" /\ r.answer \in {"none", "cancelled"}
       /\ r.thread = "wrote" => s = r.writes
  /\ r.answer = "result" =>
       r.thread = "wrote" /\ r.outcome \in {"ok", "failed"} /\ s = r.writes /\ s # "started"
  /\ r.answer = "error" => r.thread = "failed" \/ (r.thread = "wrote" /\ s = "failed")

CallsSound ==
  /\ call \in [Call -> CallRow] /\ row \in [Call -> Status]
  /\ \A c \in Call : CallSound(call[c], row[c])

InFlight == {c \in Call : call[c].phase \in Counted}
CountSound == inflight = Cardinality(InFlight)

Holders == {c \in Call : HasSlot(c)}
GateSound ==
  /\ queue \in Seq(Call)
  /\ \A i, j \in DOMAIN queue : queue[i] = queue[j] => i = j
  /\ \A c \in Call : At(c, "queued") <=> \E i \in DOMAIN queue : queue[i] = c
  /\ slots \in Nat /\ slots + Cardinality(Holders) = Capacity
  /\ queue # << >> => slots = 0

Inv == CallsSound /\ CountSound /\ GateSound /\ tokens \in 0 .. Burst

-----------------------------------------------------------------------------
(* One call goes on *)

\* c goes on to next, and the first waiter may be given a slot.
Moved(c, next) ==
  \E S \in SUBSET Call :
    /\ c \notin S /\ \A d \in S : At(d, "queued")
    /\ call' = [d \in Call |-> IF d = c THEN next
                               ELSE IF d \in S THEN [call[d] EXCEPT !.phase = "granted"]
                               ELSE call[d]]

LEMMA GoMoves ==
  ASSUME call \in [Call -> CallRow], NEW c \in Call, NEW next, Go(c, next)
  PROVE  Moved(c, next)
  <1>1. call' = [d \in Call |-> IF d = c THEN next
                                ELSE IF d \in {} THEN [call[d] EXCEPT !.phase = "granted"]
                                ELSE call[d]]
    BY DEF Go
  <1>2. {} \in SUBSET Call /\ c \notin {} /\ \A d \in {} : At(d, "queued")
    OBVIOUS
  <1> QED BY <1>1, <1>2 DEF Moved

\* Being granted a slot changes nothing of what is sound about a waiter.
LEMMA MovedCallsSound ==
  ASSUME CallsSound, NEW c \in Call, NEW next, Moved(c, next),
         NEW s, row' = [row EXCEPT ![c] = s], CallSound(next, s)
  PROVE  CallsSound'
  <1>1. PICK S \in SUBSET Call :
          /\ c \notin S /\ \A d \in S : At(d, "queued")
          /\ call' = [d \in Call |-> IF d = c THEN next
                                     ELSE IF d \in S THEN [call[d] EXCEPT !.phase = "granted"]
                                     ELSE call[d]]
    BY DEF Moved
  <1>2. ASSUME NEW d \in Call PROVE CallSound(call'[d], row'[d])
    <2>1. CASE d = c
      BY <1>1, <2>1 DEF CallsSound
    <2>2. CASE d \in S
      <3>1. call'[d] = [call[d] EXCEPT !.phase = "granted"] /\ row'[d] = row[d]
        BY <1>1, <2>2 DEF CallsSound
      <3>2. CallSound(call[d], row[d]) /\ call[d].phase = "queued"
        BY <1>1, <2>2 DEF CallsSound, At
      <3> QED BY <3>1, <3>2 DEF CallSound, CallRow, Waiting, Status
    <2>3. CASE d # c /\ d \notin S
      BY <1>1, <2>3 DEF CallsSound
    <2> QED BY <2>1, <2>2, <2>3
  <1>3. call' \in [Call -> CallRow] /\ row' \in [Call -> Status]
    <2>1. \A d \in Call : call'[d] \in CallRow /\ row'[d] \in Status
      BY <1>2 DEF CallSound
    <2>2. row' = [d \in Call |-> row'[d]] /\ call' = [d \in Call |-> call'[d]]
      BY <1>1 DEF CallsSound
    <2> QED BY <2>1, <2>2
  <1> QED BY <1>2, <1>3 DEF CallsSound

\* The calls in flight change by c at most.
LEMMA MovedInFlight ==
  ASSUME CallsSound, NEW c \in Call, NEW next, Moved(c, next)
  PROVE  /\ InFlight \in SUBSET Call /\ IsFiniteSet(InFlight) /\ Cardinality(InFlight) \in Nat
         /\ next.phase \in Counted => InFlight' = InFlight \cup {c}
         /\ next.phase \notin Counted => InFlight' = InFlight \ {c}
  <1>1. PICK S \in SUBSET Call :
          /\ c \notin S /\ \A d \in S : At(d, "queued")
          /\ call' = [d \in Call |-> IF d = c THEN next
                                     ELSE IF d \in S THEN [call[d] EXCEPT !.phase = "granted"]
                                     ELSE call[d]]
    BY DEF Moved
  <1>2. ASSUME NEW d \in Call, d # c PROVE call'[d].phase \in Counted <=> call[d].phase \in Counted
    <2>1. CASE d \in S
      BY <1>1, <1>2, <2>1 DEF Counted, At, CallsSound, CallRow
    <2>2. CASE d \notin S
      BY <1>1, <1>2, <2>2
    <2> QED BY <2>1, <2>2
  <1>3. call'[c] = next
    BY <1>1
  <1>4. IsFiniteSet(InFlight) /\ Cardinality(InFlight) \in Nat
    BY CallAssumption, FS_Subset, FS_CardinalityType DEF InFlight
  <1> QED BY <1>2, <1>3, <1>4 DEF InFlight

LEMMA CountKeeps ==
  ASSUME CallsSound, CountSound, NEW c \in Call, NEW next, Moved(c, next),
         \/ (c \in InFlight <=> next.phase \in Counted) /\ inflight' = inflight
         \/ c \notin InFlight /\ next.phase \in Counted /\ inflight' = inflight + 1
         \/ c \in InFlight /\ next.phase \notin Counted /\ inflight' = Finished(c)
  PROVE  CountSound'
  <1>1. /\ IsFiniteSet(InFlight) /\ Cardinality(InFlight) \in Nat
        /\ next.phase \in Counted => InFlight' = InFlight \cup {c}
        /\ next.phase \notin Counted => InFlight' = InFlight \ {c}
    BY MovedInFlight
  <1>2. CASE (c \in InFlight <=> next.phase \in Counted) /\ inflight' = inflight
    <2>1. InFlight' = InFlight
      BY <1>1, <1>2
    <2> QED BY <1>2, <2>1 DEF CountSound
  <1>3. CASE c \notin InFlight /\ next.phase \in Counted /\ inflight' = inflight + 1
    <2>1. Cardinality(InFlight \cup {c}) = Cardinality(InFlight) + 1
      BY <1>1, <1>3, FS_AddElement
    <2> QED BY <1>1, <1>3, <2>1 DEF CountSound
  <1>4. CASE c \in InFlight /\ next.phase \notin Counted /\ inflight' = Finished(c)
    <2>1. Cardinality(InFlight \ {c}) = Cardinality(InFlight) - 1
      BY <1>1, <1>4, FS_RemoveElement
    <2>2. Cardinality(InFlight \ {c}) \in Nat
      BY <1>1, FS_Subset, FS_CardinalityType
    <2>3. inflight > 0 /\ inflight' = inflight - 1
      BY <1>1, <1>4, <2>1, <2>2 DEF CountSound, Finished
    <2> QED BY <1>1, <1>4, <2>1, <2>3 DEF CountSound
  <1> QED BY <1>2, <1>3, <1>4
-----------------------------------------------------------------------------
(* Queues *)

IsQueue(q) == q \in Seq(Call) /\ \A i, j \in DOMAIN q : q[i] = q[j] => i = j
InQueue(q, c) == \E i \in DOMAIN q : q[i] = c

\* The second half of a concatenation.
LEMMA SecondHalf ==
  ASSUME NEW S, NEW a \in Seq(S), NEW b \in Seq(S),
         NEW x \in Len(a) + 1 .. Len(a) + Len(b)
  PROVE  (a \o b)[x] = b[x - Len(a)]
  OBVIOUS

LEMMA RemovedFrom ==
  ASSUME NEW q, IsQueue(q), NEW k \in DOMAIN q,
         NEW r, (r = Tail(q) /\ k = 1) \/ r = RemoveAt(q, k)
  PROVE  IsQueue(r) /\ \A c \in Call : InQueue(r, c) <=> InQueue(q, c) /\ c # q[k]
  <1>1. q \in Seq(Call) /\ k \in 1 .. Len(q) /\ Len(q) \in Nat
    BY DEF IsQueue
  <1> DEFINE n == Len(q)
             at(i) == IF i < k THEN i ELSE i + 1
  <1>2. r \in Seq(Call) /\ Len(r) = n - 1 /\ \A i \in 1 .. n - 1 : r[i] = q[at(i)]
    <2>1. CASE r = Tail(q) /\ k = 1
      BY <1>1, <2>1
    <2>2. CASE r = RemoveAt(q, k)
      <3> DEFINE a == SubSeq(q, 1, k - 1)
                 b == SubSeq(q, k + 1, n)
      <3>1. a \in Seq(Call) /\ Len(a) = k - 1 /\ \A i \in 1 .. k - 1 : a[i] = q[i]
        BY <1>1
      <3>2. b \in Seq(Call) /\ Len(b) = n - k /\ \A i \in 1 .. n - k : b[i] = q[i + k]
        BY <1>1
      <3>3. r = a \o b
        BY <2>2 DEF RemoveAt
      <3> HIDE DEF a, b
      <3>4. r \in Seq(Call) /\ Len(r) = n - 1
        BY <1>1, <3>1, <3>2, <3>3
      <3>5. \A i \in 1 .. k - 1 : r[i] = a[i]
        BY <1>1, <3>1, <3>2, <3>3
      <3>6. ASSUME NEW i \in k .. n - 1 PROVE r[i] = q[i + 1]
        <4>1. i \in Len(a) + 1 .. Len(a) + Len(b)
          BY <1>1, <3>1, <3>2, <3>6
        <4>2. (a \o b)[i] = b[i - Len(a)]
          BY <3>1, <3>2, <4>1, SecondHalf
        <4>3. r[i] = b[i - Len(a)]
          BY <3>3, <4>2
        <4>4. i - (k - 1) \in 1 .. n - k /\ (i - (k - 1)) + k = i + 1
          BY <1>1, <3>6
        <4> QED BY <3>1, <3>2, <4>3, <4>4
      <3> QED BY <1>1, <3>1, <3>4, <3>5, <3>6
    <2> QED BY <2>1, <2>2
  <1>3. \A i, j \in 1 .. n - 1 : at(i) \in 1 .. n /\ at(i) # k /\ (at(i) = at(j) => i = j)
    BY <1>1
  <1>4. \A m \in 1 .. n : m # k => \E i \in 1 .. n - 1 : at(i) = m
    <2> SUFFICES ASSUME NEW m \in 1 .. n, m # k PROVE \E i \in 1 .. n - 1 : at(i) = m
      OBVIOUS
    <2>1. CASE m < k
      BY <1>1, <2>1
    <2>2. CASE m > k
      <3>1. m - 1 \in 1 .. n - 1 /\ at(m - 1) = m
        BY <1>1, <2>2
      <3> QED BY <3>1
    <2> QED BY <1>1, <2>1, <2>2
  <1> HIDE DEF at, n
  <1>5. DOMAIN r = 1 .. n - 1 /\ DOMAIN q = 1 .. n
    BY <1>1, <1>2 DEF n
  <1>6. IsQueue(r)
    BY <1>2, <1>3, <1>5 DEF IsQueue
  <1>7. ASSUME NEW c \in Call PROVE InQueue(r, c) <=> InQueue(q, c) /\ c # q[k]
    BY <1>2, <1>3, <1>4, <1>5 DEF InQueue, IsQueue
  <1> QED BY <1>6, <1>7

LEMMA AppendedTo ==
  ASSUME NEW q, IsQueue(q), NEW d \in Call, ~InQueue(q, d)
  PROVE  IsQueue(Append(q, d)) /\ \A c \in Call : InQueue(Append(q, d), c) <=> InQueue(q, c) \/ c = d
  <1> DEFINE n == Len(q)
             r == Append(q, d)
  <1>1. q \in Seq(Call) /\ n \in Nat /\ DOMAIN q = 1 .. n
    BY DEF IsQueue
  <1>2. r \in Seq(Call) /\ Len(r) = n + 1 /\ r[n + 1] = d /\ \A i \in 1 .. n : r[i] = q[i]
    BY <1>1
  <1> HIDE DEF n, r
  <1>3. DOMAIN r = 1 .. n + 1
    BY <1>1, <1>2
  <1>4. IsQueue(r)
    BY <1>1, <1>2, <1>3 DEF IsQueue, InQueue
  <1>5. \A c \in Call : InQueue(r, c) <=> InQueue(q, c) \/ c = d
    BY <1>1, <1>2, <1>3 DEF InQueue
  <1> QED BY <1>4, <1>5 DEF r

-----------------------------------------------------------------------------
(* The gate *)

GateFacts ==
  /\ IsQueue(queue)
  /\ \A c \in Call : At(c, "queued") <=> InQueue(queue, c)
  /\ slots \in Nat /\ slots + Cardinality(Holders) = Capacity
  /\ queue # << >> => slots = 0

LEMMA GateIs == GateSound <=> GateFacts
  BY DEF GateSound, GateFacts, IsQueue, InQueue

LEMMA HoldersFinite ==
  /\ Holders \in SUBSET Call /\ IsFiniteSet(Holders) /\ Cardinality(Holders) \in Nat
  BY CallAssumption, FS_Subset, FS_CardinalityType DEF Holders

Holds(r) == r.phase = "granted" \/ (r.phase = "working" /\ r.kind = "run")

\* c leaves the gate alone.
LEMMA GateStays ==
  ASSUME call \in [Call -> CallRow], GateSound, NEW c \in Call, NEW next, Go(c, next),
         UNCHANGED gate, HasSlot(c) <=> Holds(next), ~At(c, "queued"), next.phase # "queued"
  PROVE  GateSound'
  <1>1. slots' = slots /\ queue' = queue
    BY DEF gate
  <1>2. \A d \in Call : HasSlot(d)' <=> HasSlot(d)
    BY DEF Go, HasSlot, At, Holds
  <1>3. Holders' = Holders
    BY <1>2 DEF Holders
  <1>4. \A d \in Call : At(d, "queued")' <=> At(d, "queued")
    BY DEF Go, At
  <1> QED BY <1>1, <1>3, <1>4 DEF GateSound

LEMMA ReleaseKeeps ==
  ASSUME call \in [Call -> CallRow], GateSound, NEW c \in Call, NEW next, Release(c, next),
         HasSlot(c), ~Holds(next), next.phase # "queued"
  PROVE  GateSound' /\ Moved(c, next)
  <1>0. GateFacts
    BY GateIs
  <1>1. CASE queue = << >> /\ slots' = slots + 1 /\ Go(c, next) /\ UNCHANGED queue
    <2>1. Holders' = Holders \ {c} /\ c \in Holders
      BY <1>1 DEF Holders, Go, HasSlot, At, Holds
    <2>2. Cardinality(Holders') = Cardinality(Holders) - 1
      BY <2>1, HoldersFinite, FS_RemoveElement
    <2>3. \A d \in Call : At(d, "queued")' <=> At(d, "queued")
      BY <1>1 DEF Go, At, HasSlot
    <2>4. slots' \in Nat /\ slots' + Cardinality(Holders') = Capacity
      BY <1>0, <1>1, <2>2, HoldersFinite, LimitAssumption DEF GateFacts
    <2>5. GateSound'
      BY <1>1, <2>3, <2>4 DEF GateSound
    <2> QED BY <1>1, <2>5, GoMoves
  <1>2. CASE /\ queue # << >> /\ queue' = Tail(queue) /\ UNCHANGED slots
             /\ call' = [call EXCEPT ![c] = next, ![Head(queue)].phase = "granted"]
    <2> DEFINE d == queue[1]
    <2>1. queue \in Seq(Call) /\ 1 \in DOMAIN queue /\ d \in Call /\ d = Head(queue)
      BY <1>0, <1>2 DEF GateFacts, IsQueue
    <2>2. At(d, "queued") /\ d # c
      BY <1>0, <2>1 DEF GateFacts, InQueue, At, HasSlot
    <2> HIDE DEF d
    <2>3. call' = [x \in Call |-> IF x = c THEN next
                                  ELSE IF x \in {d} THEN [call[x] EXCEPT !.phase = "granted"]
                                  ELSE call[x]]
      BY <1>2, <2>1, <2>2
    <2>4. Moved(c, next)
      BY <2>1, <2>2, <2>3 DEF Moved
    <2>5. call[d] \in CallRow
      BY <2>1
    <2>6. \A x \in Call : HasSlot(x)' <=> ((HasSlot(x) /\ x # c) \/ x = d)
      BY <2>2, <2>3, <2>5 DEF HasSlot, At, Holds, CallRow
    <2>7. Holders' = (Holders \ {c}) \cup {d} /\ c \in Holders /\ d \notin Holders
      BY <2>1, <2>2, <2>6 DEF Holders, HasSlot, At
    <2>8. Cardinality(Holders \ {c}) = Cardinality(Holders) - 1 /\ IsFiniteSet(Holders \ {c})
      BY <2>7, HoldersFinite, FS_RemoveElement
    <2>9. Cardinality(Holders') = Cardinality(Holders)
      <3>1. d \notin Holders \ {c}
        BY <2>7
      <3>2. Cardinality((Holders \ {c}) \cup {d}) = Cardinality(Holders \ {c}) + 1
        BY <2>8, <3>1, FS_AddElement
      <3> QED BY <2>7, <2>8, <3>2, HoldersFinite
    <2>10. \A x \in Call : At(x, "queued")' <=> At(x, "queued") /\ x # d
      BY <2>2, <2>3, <2>5 DEF HasSlot, At, CallRow
    <2>11. IsQueue(queue') /\ \A x \in Call : InQueue(queue', x) <=> InQueue(queue, x) /\ x # d
      <3>1. IsQueue(queue)
        BY <1>0 DEF GateFacts
      <3>2. \A r : r = Tail(queue) =>
              IsQueue(r) /\ \A x \in Call : InQueue(r, x) <=> InQueue(queue, x) /\ x # queue[1]
        BY <2>1, <3>1, RemovedFrom
      <3> QED BY <1>2, <3>2 DEF d
    <2>12. GateFacts'
      BY <1>0, <1>2, <2>9, <2>10, <2>11 DEF GateFacts
    <2> QED BY <2>4, <2>12 DEF GateFacts, GateSound, IsQueue, InQueue
  <1> QED BY <1>1, <1>2 DEF Release

LEMMA LeaveKeeps ==
  ASSUME call \in [Call -> CallRow], GateSound, NEW c \in Call, NEW next, Leave(c, next),
         ~Holds(next), next.phase # "queued"
  PROVE  GateSound' /\ Moved(c, next)
  <1>1. CASE HasSlot(c) /\ Release(c, next)
    BY <1>1, ReleaseKeeps
  <1>2. CASE /\ \E k \in DOMAIN queue : queue[k] = c /\ queue' = RemoveAt(queue, k)
             /\ Go(c, next) /\ UNCHANGED slots
    <2>0. GateFacts
      BY GateIs
    <2>1. PICK k \in DOMAIN queue : queue[k] = c /\ queue' = RemoveAt(queue, k)
      BY <1>2
    <2>2. IsQueue(queue') /\ \A x \in Call : InQueue(queue', x) <=> InQueue(queue, x) /\ x # c
      <3>1. IsQueue(queue)
        BY <2>0 DEF GateFacts
      <3>2. \A r : r = RemoveAt(queue, k) =>
              IsQueue(r) /\ \A x \in Call : InQueue(r, x) <=> InQueue(queue, x) /\ x # queue[k]
        BY <3>1, RemovedFrom
      <3> QED BY <2>1, <3>2
    <2>3. At(c, "queued")
      BY <2>0, <2>1 DEF GateFacts, InQueue
    <2>4. \A x \in Call : At(x, "queued")' <=> At(x, "queued") /\ x # c
      BY <1>2 DEF Go, At
    <2>5. \A x \in Call : HasSlot(x)' <=> HasSlot(x)
      BY <1>2, <2>3 DEF Go, At, HasSlot, Holds
    <2>6. Holders' = Holders
      BY <2>5 DEF Holders
    <2>7. queue # << >>
      BY <2>1
    <2>8. GateFacts'
      BY <1>2, <2>0, <2>2, <2>4, <2>6, <2>7 DEF GateFacts
    <2>9. GateSound'
      BY <2>8 DEF GateFacts, GateSound, IsQueue, InQueue
    <2> QED BY <1>2, <2>9, GoMoves
  <1>3. CASE ~HasSlot(c) /\ ~At(c, "queued") /\ Go(c, next) /\ UNCHANGED gate
    BY <1>3, GateStays, GoMoves
  <1> QED BY <1>1, <1>2, <1>3 DEF Leave
-----------------------------------------------------------------------------
(* Every step keeps the invariant *)

LEMMA InitSound == Init => Inv
  <1> SUFFICES ASSUME Init PROVE Inv
    OBVIOUS
  <1>1. CallsSound
    <2>1. Unseen \in CallRow
      BY DEF Unseen, CallRow
    <2>2. CallSound(Unseen, "none")
      BY <2>1 DEF Unseen, CallSound, Status, Waiting
    <2> QED BY <2>1, <2>2 DEF Init, CallsSound, Status
  <1>2. CountSound
    <2>1. InFlight = {}
      BY DEF Init, Unseen, InFlight, Counted
    <2> QED BY <2>1, FS_EmptySet DEF Init, CountSound
  <1>3. GateSound
    <2>1. Holders = {}
      BY DEF Init, Unseen, Holders, HasSlot, At
    <2>2. Cardinality(Holders) = 0
      BY <2>1, FS_EmptySet
    <2>3. \A c \in Call : ~At(c, "queued")
      BY DEF Init, Unseen, At
    <2> QED BY <2>2, <2>3, LimitAssumption DEF Init, GateSound
  <1> QED BY <1>1, <1>2, <1>3, LimitAssumption DEF Init, Inv

LEMMA MoveKeeps ==
  ASSUME Inv, NEW c \in Call, NEW next, Moved(c, next),
         NEW s, row' = [row EXCEPT ![c] = s], CallSound(next, s),
         \/ (c \in InFlight <=> next.phase \in Counted) /\ inflight' = inflight
         \/ c \notin InFlight /\ next.phase \in Counted /\ inflight' = inflight + 1
         \/ c \in InFlight /\ next.phase \notin Counted /\ inflight' = Finished(c),
         GateSound', tokens' \in 0 .. Burst
  PROVE  Inv'
  <1>1. CallsSound'
    BY MovedCallsSound DEF Inv
  <1>2. CountSound'
    BY CountKeeps DEF Inv
  <1> QED BY <1>1, <1>2 DEF Inv

\* A step of c that stays out of the gate, or keeps its part of it
LEMMA GoKeeps ==
  ASSUME Inv, NEW c \in Call, NEW next, Go(c, next), UNCHANGED gate,
         HasSlot(c) <=> Holds(next), ~At(c, "queued"), next.phase # "queued",
         NEW s, row' = [row EXCEPT ![c] = s], CallSound(next, s),
         \/ (c \in InFlight <=> next.phase \in Counted) /\ inflight' = inflight
         \/ c \notin InFlight /\ next.phase \in Counted /\ inflight' = inflight + 1
         \/ c \in InFlight /\ next.phase \notin Counted /\ inflight' = Finished(c),
         tokens' \in 0 .. Burst
  PROVE  Inv'
  <1>1. call \in [Call -> CallRow] /\ GateSound
    BY DEF Inv, CallsSound
  <1>2. GateSound' /\ Moved(c, next)
    BY <1>1, GateStays, GoMoves
  <1> QED BY <1>2, MoveKeeps

\* A step of c, which is in flight and remains so, that leaves the gate
LEMMA LeavingKeeps ==
  ASSUME Inv, NEW c \in Call, call[c].phase \in {"queued", "granted", "working"},
         NEW outcome \in {"none", "ok", "failed", "raised"}, NEW answer \in {"none", "cancelled"},
         Leave(c, Ending(c, outcome, answer)), UNCHANGED <<row, inflight, tokens>>
  PROVE  Inv'
  <1> DEFINE next == Ending(c, outcome, answer)
  <1>1. /\ call \in [Call -> CallRow] /\ GateSound /\ row \in [Call -> Status]
        /\ call[c] \in CallRow /\ CallSound(call[c], row[c]) /\ tokens \in 0 .. Burst
    BY DEF Inv, CallsSound
  <1>2. next.phase = "finishing" /\ ~Holds(next)
    BY DEF Ending, Holds
  <1>3. CallSound(next, row[c])
    BY <1>1 DEF Ending, CallSound, CallRow, Status, Waiting
  <1>4. c \in InFlight /\ next.phase \in Counted
    BY <1>2 DEF InFlight, Counted
  <1>5. row' = [row EXCEPT ![c] = row[c]] /\ inflight' = inflight /\ tokens' = tokens
    BY <1>1
  <1> HIDE DEF next
  <1>6. GateSound' /\ Moved(c, next)
    BY <1>1, <1>2, LeaveKeeps DEF next
  <1> QED BY <1>1, <1>3, <1>4, <1>5, <1>6, MoveKeeps

\* c takes a slot that is free, or becomes the last to wait.
LEMMA EnterKeeps ==
  ASSUME call \in [Call -> CallRow], GateSound, NEW c \in Call, At(c, "starting"),
         NEW phase, phase \in {"working", "queued"},
         Go(c, [call[c] EXCEPT !.phase = phase]), call[c].kind = "run",
         \/ phase = "working" /\ slots > 0 /\ slots' = slots - 1 /\ UNCHANGED queue
         \/ phase = "queued" /\ slots = 0 /\ queue' = Append(queue, c) /\ UNCHANGED slots
  PROVE  GateSound'
  <1>0. GateFacts
    BY GateIs
  <1>1. call' = [call EXCEPT ![c] = [call[c] EXCEPT !.phase = phase]] /\ call[c] \in CallRow
    BY DEF Go
  <1>2. \A x \in Call : x # c => call'[x] = call[x]
    BY <1>1
  <1>3. call'[c].phase = phase /\ call'[c].kind = "run"
    BY <1>1 DEF CallRow
  <1>4. ~HasSlot(c) /\ ~At(c, "queued")
    BY DEF HasSlot, At
  <1>5. CASE phase = "working" /\ slots > 0 /\ slots' = slots - 1 /\ UNCHANGED queue
    <2>1. Holders' = Holders \cup {c} /\ c \notin Holders
      BY <1>2, <1>3, <1>4, <1>5 DEF Holders, HasSlot, At
    <2>2. Cardinality(Holders') = Cardinality(Holders) + 1
      BY <2>1, HoldersFinite, FS_AddElement
    <2>3. \A x \in Call : At(x, "queued")' <=> At(x, "queued")
      BY <1>2, <1>3, <1>4, <1>5 DEF At
    <2>4. slots' \in Nat /\ slots' + Cardinality(Holders') = Capacity /\ queue = << >>
      BY <1>0, <1>5, <2>2, HoldersFinite DEF GateFacts
    <2> QED BY <1>5, <2>3, <2>4 DEF GateSound
  <1>6. CASE phase = "queued" /\ slots = 0 /\ queue' = Append(queue, c) /\ UNCHANGED slots
    <2>1. \A x \in Call : HasSlot(x)' <=> HasSlot(x)
      BY <1>2, <1>3, <1>4, <1>6 DEF HasSlot, At
    <2>2. Holders' = Holders
      BY <2>1 DEF Holders
    <2>3. \A x \in Call : At(x, "queued")' <=> At(x, "queued") \/ x = c
      BY <1>2, <1>3, <1>6 DEF At
    <2>4. IsQueue(queue') /\ \A x \in Call : InQueue(queue', x) <=> InQueue(queue, x) \/ x = c
      BY <1>0, <1>4, <1>6, AppendedTo DEF GateFacts
    <2>5. GateFacts'
      BY <1>0, <1>6, <2>2, <2>3, <2>4 DEF GateFacts
    <2> QED BY <2>5 DEF GateFacts, GateSound, IsQueue, InQueue
  <1> QED BY <1>5, <1>6

LEMMA StepKeeps ==
  ASSUME Inv, NEW c \in Call, Step(c)
  PROVE  Inv'
  <1>1. /\ call \in [Call -> CallRow] /\ GateSound /\ row \in [Call -> Status]
        /\ call[c] \in CallRow /\ CallSound(call[c], row[c]) /\ tokens \in 0 .. Burst
    BY DEF Inv, CallsSound
  <1>2. row = [row EXCEPT ![c] = row[c]]
    BY <1>1
  <1>3. ASSUME NEW kind \in {"run", "other", "unscoped"}, Receive(c, kind) PROVE Inv'
    <2>1. CallSound(Received(kind), row[c])
      BY <1>1, <1>3 DEF Receive, Received, At, CallSound, CallRow, Status, Waiting
    <2>2. HasSlot(c) <=> Holds(Received(kind))
      BY <1>3 DEF Receive, Received, At, HasSlot, Holds
    <2>3. ~At(c, "queued") /\ c \notin InFlight /\ Received(kind).phase = "starting"
      BY <1>3 DEF Receive, Received, At, InFlight, Counted
    <2> QED BY <1>1, <1>2, <1>3, <2>1, <2>2, <2>3, GoKeeps DEF Receive, Counted
  <1>4. ASSUME Write(c) PROVE Inv'
    <2>1. PICK thread \in {"wrote", "failed"} :
            /\ Go(c, [call[c] EXCEPT !.thread = thread])
            /\ row' = [row EXCEPT ![c] = IF thread = "wrote" THEN call[c].writes ELSE row[c]]
      BY <1>2, <1>4 DEF Write
    <2> DEFINE next == [call[c] EXCEPT !.thread = thread]
               s == IF thread = "wrote" THEN call[c].writes ELSE row[c]
    <2>2. call[c].thread = "running" /\ UNCHANGED <<inflight, tokens, gate>>
      BY <1>4 DEF Write
    <2>3. call[c].phase \in {"starting", "finishing", "done"}
      BY <1>1, <2>2 DEF CallSound, CallRow, Waiting, Unseen
    <2>4. CallSound(next, s)
      BY <1>1, <2>2, <2>3 DEF CallSound, CallRow, Status, Waiting
    <2>5. next.phase = call[c].phase
      BY <1>1 DEF CallRow
    <2>6. (HasSlot(c) <=> Holds(next)) /\ ~At(c, "queued") /\ next.phase # "queued"
      BY <2>3, <2>5 DEF HasSlot, Holds, At
    <2>7. c \in InFlight <=> next.phase \in Counted
      BY <2>5 DEF InFlight
    <2>8. UNCHANGED gate /\ inflight' = inflight /\ tokens' \in 0 .. Burst
      BY <1>1, <2>2
    <2> HIDE DEF next, s
    <2>9. Go(c, next) /\ row' = [row EXCEPT ![c] = s]
      BY <2>1 DEF next, s
    <2> QED BY <2>4, <2>6, <2>7, <2>8, <2>9, GoKeeps
  \* What ends a call that was not counted, or is counted no longer
  <1>5. ASSUME NEW thread, NEW answer, Go(c, Answered(c, thread, answer)),
               CallSound(Answered(c, thread, answer), row[c]),
               UNCHANGED <<row, tokens, gate>>,
               \/ At(c, "starting") /\ inflight' = inflight
               \/ At(c, "finishing") /\ inflight' = Finished(c)
        PROVE  Inv'
    <2> DEFINE next == Answered(c, thread, answer)
    <2>1. next.phase = "done"
      BY DEF Answered
    <2>2. (HasSlot(c) <=> Holds(next)) /\ ~At(c, "queued") /\ next.phase # "queued"
      BY <1>5, <2>1 DEF HasSlot, Holds, At
    <2>3. \/ (c \in InFlight <=> next.phase \in Counted) /\ inflight' = inflight
          \/ c \in InFlight /\ next.phase \notin Counted /\ inflight' = Finished(c)
      BY <1>5, <2>1 DEF InFlight, Counted, At
    <2>4. UNCHANGED gate /\ tokens' \in 0 .. Burst /\ row' = [row EXCEPT ![c] = row[c]]
      BY <1>1, <1>2, <1>5
    <2> HIDE DEF next
    <2>5. Go(c, next) /\ CallSound(next, row[c])
      BY <1>5 DEF next
    <2> QED BY <2>2, <2>3, <2>4, <2>5, GoKeeps
  <1>6. ASSUME NotAudited(c) PROVE Inv'
    <2>1. CallSound(Answered(c, "failed", "error"), row[c])
      BY <1>1, <1>6 DEF NotAudited, Answered, At, CallSound, CallRow, Status, Waiting
    <2> QED BY <1>5, <1>6, <2>1 DEF NotAudited
  <1>7. ASSUME Deny(c) PROVE Inv'
    <2> DEFINE next == Ending(c, "none", "none")
    <2>1. At(c, "starting") /\ call[c].thread = "wrote" /\ inflight' = inflight + 1
          /\ UNCHANGED <<row, tokens, gate>>
      BY <1>7 DEF Deny, Audited
    <2>2. CallSound(next, row[c])
      BY <1>1, <2>1 DEF Ending, At, CallSound, CallRow, Status, Waiting
    <2>3. next.phase = "finishing"
      BY DEF Ending
    <2>4. (HasSlot(c) <=> Holds(next)) /\ ~At(c, "queued") /\ next.phase # "queued"
      BY <2>1, <2>3 DEF HasSlot, Holds, At
    <2>5. c \notin InFlight /\ next.phase \in Counted
      BY <2>1, <2>3 DEF InFlight, Counted, At
    <2>6. UNCHANGED gate /\ tokens' \in 0 .. Burst /\ row' = [row EXCEPT ![c] = row[c]]
      BY <1>1, <1>2, <2>1
    <2> HIDE DEF next
    <2>7. Go(c, next)
      BY <1>7 DEF Deny, next
    <2> QED BY <2>1, <2>2, <2>4, <2>5, <2>6, <2>7, GoKeeps
  <1>8. ASSUME Admit(c) PROVE Inv'
    <2>1. PICK phase \in {"working", "queued"} :
            /\ Go(c, [call[c] EXCEPT !.phase = phase])
            /\ \/ phase = "working" /\ call[c].kind = "other" /\ UNCHANGED gate
               \/ /\ call[c].kind = "run"
                  /\ \/ phase = "working" /\ slots > 0 /\ slots' = slots - 1 /\ UNCHANGED queue
                     \/ phase = "queued" /\ slots = 0 /\ queue' = Append(queue, c) /\ UNCHANGED slots
      BY <1>8 DEF Admit
    <2> DEFINE next == [call[c] EXCEPT !.phase = phase]
    <2>2. /\ At(c, "starting") /\ call[c].thread = "wrote" /\ inflight' = inflight + 1
          /\ tokens > 0 /\ tokens' = tokens - 1 /\ row' = row
      BY <1>8 DEF Admit, Audited
    <2>3. next.phase = phase /\ next.kind = call[c].kind
      BY <1>1 DEF CallRow
    <2>4. call[c].outcome # "ok"
      BY <1>1, <2>2 DEF At, CallSound
    <2>5. CallSound(next, row[c])
      BY <1>1, <2>1, <2>2, <2>4 DEF At, CallSound, CallRow, Status, Waiting
    <2>6. c \notin InFlight /\ next.phase \in Counted
      BY <2>2, <2>3 DEF InFlight, Counted, At
    <2>7. tokens' \in 0 .. Burst /\ row' = [row EXCEPT ![c] = row[c]]
      BY <1>1, <1>2, <2>2, LimitAssumption
    <2>8. GateSound' /\ Moved(c, next)
      <3>1. Moved(c, next)
        BY <1>1, <2>1, GoMoves
      <3>2. CASE phase = "working" /\ call[c].kind = "other" /\ UNCHANGED gate
        <4>1. (HasSlot(c) <=> Holds(next)) /\ ~At(c, "queued") /\ next.phase # "queued"
          BY <2>2, <2>3, <3>2 DEF HasSlot, Holds, At
        <4> QED BY <1>1, <2>1, <3>1, <3>2, <4>1, GateStays
      <3>3. CASE call[c].kind = "run"
        BY <1>1, <2>1, <2>2, <3>1, <3>3, EnterKeeps
      <3> QED BY <2>1, <3>2, <3>3
    <2> HIDE DEF next
    <2> QED BY <2>2, <2>5, <2>6, <2>7, <2>8, MoveKeeps
  <1>9. ASSUME Proceed(c) PROVE Inv'
    <2> DEFINE next == [call[c] EXCEPT !.phase = "working"]
    <2>1. At(c, "granted") /\ UNCHANGED <<row, inflight, tokens, gate>>
      BY <1>9 DEF Proceed
    <2>2. call[c].kind = "run" /\ next.phase = "working" /\ next.kind = "run"
      BY <1>1, <2>1 DEF At, CallSound, CallRow, Waiting
    <2>3. CallSound(next, row[c])
      BY <1>1, <2>1 DEF At, CallSound, CallRow, Status, Waiting
    <2>4. (HasSlot(c) <=> Holds(next)) /\ ~At(c, "queued") /\ next.phase # "queued"
      BY <2>1, <2>2 DEF HasSlot, Holds, At
    <2>5. c \in InFlight <=> next.phase \in Counted
      BY <2>1, <2>2 DEF InFlight, Counted, At
    <2>6. /\ UNCHANGED gate /\ tokens' \in 0 .. Burst /\ inflight' = inflight
          /\ row' = [row EXCEPT ![c] = row[c]]
      BY <1>1, <1>2, <2>1
    <2> HIDE DEF next
    <2>7. Go(c, next)
      BY <1>9 DEF Proceed, next
    <2> QED BY <2>3, <2>4, <2>5, <2>6, <2>7, GoKeeps
  <1>10. ASSUME TimeOut(c) PROVE Inv'
    BY <1>10, LeavingKeeps DEF TimeOut, At
  <1>11. ASSUME Handle(c) PROVE Inv'
    BY <1>11, LeavingKeeps DEF Handle, LeaveAnyway, At
  <1>12. ASSUME Cancel(c) PROVE Inv'
    BY <1>12, LeavingKeeps DEF Cancel
  <1>13. ASSUME Finish(c) PROVE Inv'
    <2> DEFINE answer == IF HasResult(c) THEN "result" ELSE "error"
    <2>1. At(c, "finishing") /\ call[c].thread \in {"wrote", "failed"}
      BY <1>13 DEF Finish
    <2>2. CallSound(Answered(c, call[c].thread, answer), row[c])
      BY <1>1, <2>1 DEF HasResult, Answered, At, CallSound, CallRow, Status, Waiting
    <2> QED BY <1>5, <1>13, <2>2 DEF Finish
  <1>14. ASSUME CancelStart(c) PROVE Inv'
    <2>1. PICK thread \in {"none", "running", "wrote", "failed"} :
            Abandoned(c, thread) /\ Go(c, Answered(c, thread, "cancelled"))
      BY <1>14 DEF CancelStart
    <2>2. CallSound(Answered(c, thread, "cancelled"), row[c])
      BY <1>1, <1>14, <2>1 DEF CancelStart, Answered, At, CallSound, CallRow, Status, Waiting
    <2> QED BY <1>5, <1>14, <2>1, <2>2 DEF CancelStart
  <1>15. ASSUME CancelFinish(c) PROVE Inv'
    <2>1. PICK thread \in {"none", "running", "wrote", "failed"} :
            Abandoned(c, thread) /\ Go(c, Answered(c, thread, "cancelled"))
      BY <1>15 DEF CancelFinish
    <2>2. CallSound(Answered(c, thread, "cancelled"), row[c])
      BY <1>1, <1>15, <2>1 DEF CancelFinish, Answered, At, CallSound, CallRow, Status, Waiting
    <2> QED BY <1>5, <1>15, <2>1, <2>2 DEF CancelFinish
  <1> QED
    BY <1>3, <1>4, <1>6, <1>7, <1>8, <1>9, <1>10, <1>11, <1>12, <1>13, <1>14, <1>15 DEF Step

LEMMA NextKeeps == Inv /\ [Next]_vars => Inv'
  <1> SUFFICES ASSUME Inv, [Next]_vars PROVE Inv'
    OBVIOUS
  <1>1. ASSUME NEW c \in Call, Step(c) PROVE Inv'
    BY <1>1, StepKeeps
  <1>2. ASSUME TimePasses PROVE Inv'
    <2>1. UNCHANGED call /\ UNCHANGED row /\ UNCHANGED inflight /\ UNCHANGED slots /\ UNCHANGED queue
      BY <1>2 DEF TimePasses, gate
    <2>2. tokens' \in 0 .. Burst
      BY <1>2, LimitAssumption DEF TimePasses, Refilled, Inv
    <2> QED BY <2>1, <2>2 DEF Inv, CallsSound, CountSound, InFlight, GateSound, Holders, HasSlot, At
  <1>3. CASE UNCHANGED vars
    <2>1. /\ UNCHANGED call /\ UNCHANGED row /\ UNCHANGED inflight /\ UNCHANGED tokens
          /\ UNCHANGED slots /\ UNCHANGED queue
      BY <1>3 DEF vars
    <2> QED BY <2>1 DEF Inv, CallsSound, CountSound, InFlight, GateSound, Holders, HasSlot, At
  <1> QED BY <1>1, <1>2, <1>3 DEF Next

LEMMA Invariance == Spec => []Inv
  BY InitSound, NextKeeps, PTL DEF Spec

-----------------------------------------------------------------------------
(* Theorems *)

\* Every variable keeps its type, the bucket its limit and the semaphore its capacity.
THEOREM TypeCorrect == Spec => []TypeOK
  <1>1. Inv => TypeOK
    <2> SUFFICES ASSUME Inv PROVE TypeOK
      OBVIOUS
    <2>1. inflight \in 0 .. Cardinality(Call)
      <3>1. Cardinality(InFlight) \in Nat /\ Cardinality(InFlight) <= Cardinality(Call)
        BY CallAssumption, FS_Subset, FS_CardinalityType DEF InFlight
      <3>2. Cardinality(Call) \in Nat
        BY CallAssumption, FS_CardinalityType
      <3> QED BY <3>1, <3>2 DEF Inv, CountSound
    <2>2. slots \in 0 .. Capacity
      BY HoldersFinite, LimitAssumption DEF Inv, GateSound
    <2> QED BY <2>1, <2>2 DEF Inv, CallsSound, GateSound, Status, TypeOK
  <1> QED BY <1>1, Invariance, PTL

\* The in-flight count is that of the calls between their audit rows, for any number of
\* calls: finish takes away exactly what begin has added, however the call ended.
THEOREM CountExact == Spec => []InflightExact
  <1>1. Inv => InflightExact
    BY DEF Inv, CountSound, InFlight, Counted, InflightExact
  <1> QED BY <1>1, Invariance, PTL

\* The run gate loses no slot and gives none twice, for any capacity and number of calls.
THEOREM GateExact == Spec => []SlotsSound
  <1>1. Inv => SlotsSound
    <2> SUFFICES ASSUME Inv PROVE SlotsSound
      OBVIOUS
    <2>1. ToSet(queue) = {c \in Call : At(c, "queued")}
      BY DEF Inv, GateSound, ToSet
    <2> QED BY <2>1 DEF Inv, GateSound, Holders, SlotsSound
  <1> QED BY <1>1, Invariance, PTL

\* No tool runs before its call is in the audit table, and none is there as succeeded that
\* was not.
THEOREM AuditedFirst == Spec => []AuditFirst
  <1>1. Inv => AuditFirst
    BY DEF Inv, CallsSound, CallSound, AuditFirst, At
  <1> QED BY <1>1, Invariance, PTL

\* The answer of a call agrees with its audit row.
THEOREM AuditedCompletely == Spec => []AuditComplete
  <1>1. Inv => AuditComplete
    BY DEF Inv, CallsSound, CallSound, CallRow, AuditComplete
  <1> QED BY <1>1, Invariance, PTL
-----------------------------------------------------------------------------
(***************************************************************************)
(* McpApprovals.  ReceiptsHold is not inductive: a receipt that has let a  *)
(* call through must stay refused although Start forgets rows of consumed  *)
(* receipts.  Spent adds that its row is kept until it has expired for     *)
(* good.  KeysNameJobs needs that no two jobs have one key and that each   *)
(* call is told a job stored under its own key (Told).                     *)
(***************************************************************************)
StoredKey == {StorageKey(op) : op \in Operation}

Types ==
  /\ now \in Nat
  /\ issued \in [Receipt -> [op : Operation, expires : Nat] \cup {NotIssued}]
  /\ consumed \subseteq Receipt
  /\ passed \in [Receipt -> SUBSET ToolCall]
  /\ tool \in [ToolCall -> [pc : {"new", "allowed", "refused", "done", "not_found", "failed"},
                            op : Operation \cup {Unused}, job : Nat \cup {NoJob}, created : BOOLEAN]]
  /\ \A c \in ToolCall : tool[c].pc # "new" => tool[c].op \in Operation
  /\ jobs \in Seq([key : StoredKey, tenant : Tenant, sinks : {"local", "external"}, cancelled : BOOLEAN])

\* A receipt that let a call through is refused from then on.
Spent(r) ==
  passed[r] # {} =>
    /\ issued[r] # NotIssued
    /\ r \in consumed \/ issued[r].expires < now

Approved(c) ==
  (tool[c].pc \in {"allowed", "done"} /\ NeedsApproval(tool[c].op))
    => \E r \in Receipt : c \in passed[r]

Receipts ==
  /\ \A r \in Receipt : Spent(r) /\ ReceiptHeld(r) /\ (\A c \in passed[r] : tool[c].pc # "new")
  /\ \A c \in ToolCall : Approved(c)

\* The fields of a new row and of the operations.
LEMMA OperationFields ==
  ASSUME NEW op \in Operation
  PROVE  /\ op.tenant \in Tenant /\ op.sinks \in {"local", "external"}
         /\ op.do \in {"create", "cancel"}
BY DEF Operation

LEMMA KeyTenant ==
  ASSUME NEW op \in Operation, NEW other \in Operation, StorageKey(op) = StorageKey(other)
  PROVE  op.tenant = other.tenant
BY DEF StorageKey

\* A cancellation leaves all of a row but its flag.
LEMMA CancelRow ==
  ASSUME Types, NEW j \in DOMAIN jobs, jobs' = [jobs EXCEPT ![j].cancelled = TRUE]
  PROVE  /\ DOMAIN jobs' = DOMAIN jobs /\ Len(jobs') = Len(jobs)
         /\ jobs' \in Seq([key : StoredKey, tenant : Tenant, sinks : {"local", "external"}, cancelled : BOOLEAN])
         /\ \A k \in DOMAIN jobs : /\ jobs'[k].key = jobs[k].key
                                   /\ jobs'[k].tenant = jobs[k].tenant
                                   /\ jobs'[k].sinks = jobs[k].sinks
<1> DEFINE Rows == [key : StoredKey, tenant : Tenant, sinks : {"local", "external"}, cancelled : BOOLEAN]
<1>1. jobs \in Seq(Rows)
  BY DEF Types
<1> HIDE DEF Rows
<1>2. \A k \in DOMAIN jobs : jobs[k] \in Rows
  BY <1>1
<1>3. \A k \in DOMAIN jobs : jobs'[k] = IF k = j THEN [jobs[j] EXCEPT !.cancelled = TRUE] ELSE jobs[k]
  BY <1>1
<1>4. [jobs[j] EXCEPT !.cancelled = TRUE] \in Rows
  BY <1>2 DEF Rows
<1>5. \A k \in DOMAIN jobs : /\ jobs'[k].key = jobs[k].key
                             /\ jobs'[k].tenant = jobs[k].tenant
                             /\ jobs'[k].sinks = jobs[k].sinks
  BY <1>2, <1>3 DEF Rows
<1>6. jobs' \in Seq(Rows) /\ DOMAIN jobs' = DOMAIN jobs /\ Len(jobs') = Len(jobs)
  BY <1>1, <1>4
<1> QED BY <1>5, <1>6 DEF Rows

\* A creation appends one row, or none.
LEMMA AppendRow ==
  ASSUME Types, NEW op \in Operation,
         jobs' = Append(jobs, [key |-> StorageKey(op), tenant |-> op.tenant,
                               sinks |-> op.sinks, cancelled |-> FALSE])
  PROVE  /\ DOMAIN jobs' = DOMAIN jobs \cup {Len(jobs) + 1}
         /\ Len(jobs) + 1 \notin DOMAIN jobs /\ Len(jobs) \in Nat
         /\ jobs' \in Seq([key : StoredKey, tenant : Tenant, sinks : {"local", "external"}, cancelled : BOOLEAN])
         /\ \A k \in DOMAIN jobs : jobs'[k] = jobs[k]
         /\ jobs'[Len(jobs) + 1] = [key |-> StorageKey(op), tenant |-> op.tenant,
                                    sinks |-> op.sinks, cancelled |-> FALSE]
<1> DEFINE Rows == [key : StoredKey, tenant : Tenant, sinks : {"local", "external"}, cancelled : BOOLEAN]
           next == [key |-> StorageKey(op), tenant |-> op.tenant, sinks |-> op.sinks, cancelled |-> FALSE]
<1>1. jobs \in Seq(Rows)
  BY DEF Types
<1>2. next \in Rows
  BY OperationFields DEF StoredKey
<1>3. jobs' = Append(jobs, next)
  OBVIOUS
<1> HIDE DEF Rows, next
<1>4. /\ DOMAIN jobs' = DOMAIN jobs \cup {Len(jobs) + 1}
      /\ Len(jobs) + 1 \notin DOMAIN jobs /\ Len(jobs) \in Nat
      /\ jobs' \in Seq(Rows)
      /\ \A k \in DOMAIN jobs : jobs'[k] = jobs[k]
      /\ jobs'[Len(jobs) + 1] = next
  BY <1>1, <1>2, <1>3
<1> QED BY <1>4 DEF Rows, next

\* What Operate does: a creation that appends its row, one that meets the row of its
\* key, a cancellation, or a job that is not found.
Appended(c) ==
  /\ tool[c].op.do = "create"
  /\ \A j \in DOMAIN jobs : jobs[j].key # StorageKey(tool[c].op)
  /\ jobs' = Append(jobs, [key |-> StorageKey(tool[c].op), tenant |-> tool[c].op.tenant,
                           sinks |-> tool[c].op.sinks, cancelled |-> FALSE])
  /\ tool' = [tool EXCEPT ![c].pc = "done", ![c].job = Len(jobs) + 1, ![c].created = TRUE]
Met(c, j) ==
  /\ tool[c].op.do = "create" /\ j \in DOMAIN jobs
  /\ jobs[j].key = StorageKey(tool[c].op)
  /\ jobs' = jobs
  /\ tool' = [tool EXCEPT ![c].pc = IF jobs[j].tenant = tool[c].op.tenant THEN "done" ELSE "not_found",
                          ![c].job = IF jobs[j].tenant = tool[c].op.tenant THEN j ELSE NoJob]
Cancelled(c) ==
  /\ tool[c].op.do # "create"
  /\ tool[c].op.job \in DOMAIN jobs /\ jobs[tool[c].op.job].tenant = tool[c].op.tenant
  /\ jobs' = [jobs EXCEPT ![tool[c].op.job].cancelled = TRUE]
  /\ tool' = [tool EXCEPT ![c].pc = "done", ![c].job = tool[c].op.job]
Missed(c) ==
  /\ tool[c].op.do # "create" /\ jobs' = jobs
  /\ tool' = [tool EXCEPT ![c].pc = "not_found"]

LEMMA OperateCases ==
  ASSUME NEW c \in ToolCall, Operate(c)
  PROVE  Appended(c) \/ (\E j \in DOMAIN jobs : Met(c, j)) \/ Cancelled(c) \/ Missed(c)
<1> DEFINE same == {j \in DOMAIN jobs : jobs[j].key = StorageKey(tool[c].op)}
<1>1. CASE tool[c].op.do = "create" /\ same = {}
  <2>1. \A j \in DOMAIN jobs : jobs[j].key # StorageKey(tool[c].op)
    BY <1>1
  <2> QED BY <1>1, <2>1 DEF Operate, CreateJob, Appended
<1>2. CASE tool[c].op.do = "create" /\ same # {}
  <2> DEFINE j == CHOOSE k \in same : TRUE
  <2>1. j \in same
    BY <1>2
  <2>2. /\ jobs' = jobs
        /\ tool' = [tool EXCEPT ![c].pc = IF jobs[j].tenant = tool[c].op.tenant THEN "done" ELSE "not_found",
                                ![c].job = IF jobs[j].tenant = tool[c].op.tenant THEN j ELSE NoJob]
    BY <1>2 DEF Operate, CreateJob
  <2> HIDE DEF j
  <2>3. Met(c, j)
    BY <1>2, <2>1, <2>2 DEF Met
  <2> QED BY <2>1, <2>3
<1>3. CASE tool[c].op.do # "create"
  BY <1>3 DEF Operate, CancelJob, Cancelled, Missed
<1> QED BY <1>1, <1>2, <1>3

LEMMA NewRowTypes ==
  ASSUME Types, NEW c \in ToolCall, NEW op \in Operation, NEW pc \in {"allowed", "refused"},
         tool' = [tool EXCEPT ![c] = [NewCall EXCEPT !.pc = pc, !.op = op]]
  PROVE  /\ tool' \in [ToolCall -> [pc : {"new", "allowed", "refused", "done", "not_found", "failed"},
                                op : Operation \cup {Unused}, job : Nat \cup {NoJob}, created : BOOLEAN]]
         /\ \A d \in ToolCall : tool'[d].pc # "new" => tool'[d].op \in Operation
<1> DEFINE next == [NewCall EXCEPT !.pc = pc, !.op = op]
<1>1. next.op = op /\ next \in [pc : {"new", "allowed", "refused", "done", "not_found", "failed"},
                              op : Operation \cup {Unused}, job : Nat \cup {NoJob}, created : BOOLEAN]
  BY DEF NewCall
<1>2. tool' = [tool EXCEPT ![c] = next]
  OBVIOUS
<1> HIDE DEF next
<1> DEFINE Rows == [pc : {"new", "allowed", "refused", "done", "not_found", "failed"},
                    op : Operation \cup {Unused}, job : Nat \cup {NoJob}, created : BOOLEAN]
<1>3. tool \in [ToolCall -> Rows] /\ next \in Rows
  BY <1>1 DEF Types
<1> HIDE DEF Rows
<1>4. tool' \in [ToolCall -> Rows] /\ tool'[c] = next /\ \A d \in ToolCall \ {c} : tool'[d] = tool[d]
  BY <1>2, <1>3
<1> QED BY <1>1, <1>4 DEF Types, Rows

LEMMA TypesInit == ApprovalInit => Types
BY ApprovalConstants DEF ApprovalInit, Types, NewCall

LEMMA TypesOperate ==
  ASSUME Types, NEW c \in ToolCall, Operate(c)
  PROVE  Types'
<1>1. tool[c].op \in Operation /\ tool[c].pc = "allowed"
  BY DEF Types, Operate
<1>2. UNCHANGED <<now, issued, consumed, passed>>
  BY DEF Operate
<1>3. CASE Appended(c)
  <2>1. Len(jobs) + 1 \in Nat
    BY DEF Types
  <2>2. jobs' \in Seq([key : StoredKey, tenant : Tenant, sinks : {"local", "external"}, cancelled : BOOLEAN])
    BY <1>1, <1>3, AppendRow DEF Appended
  <2> DEFINE n == Len(jobs) + 1
  <2>3. tool' = [tool EXCEPT ![c].pc = "done", ![c].job = n, ![c].created = TRUE]
    BY <1>3 DEF Appended
  <2>4. n \in Nat
    BY <2>1
  <2> HIDE DEF n
  <2> DEFINE Rows == [pc : {"new", "allowed", "refused", "done", "not_found", "failed"},
                      op : Operation \cup {Unused}, job : Nat \cup {NoJob}, created : BOOLEAN]
             next == [tool[c] EXCEPT !.pc = "done", !.job = n, !.created = TRUE]
  <2>5. tool \in [ToolCall -> Rows] /\ tool' = [tool EXCEPT ![c] = next]
    BY <2>3 DEF Types
  <2>6. next \in Rows /\ next.op = tool[c].op
    BY <2>4, <2>5
  <2> HIDE DEF Rows, next
  <2>7. /\ tool' \in [ToolCall -> Rows]
        /\ tool'[c] = next
        /\ \A d \in ToolCall \ {c} : tool'[d] = tool[d]
    BY <2>5, <2>6
  <2>8. \A d \in ToolCall : tool'[d].pc # "new" => tool'[d].op \in Operation
    BY <1>1, <2>6, <2>7 DEF Types
  <2> QED BY <1>2, <2>2, <2>7, <2>8 DEF Types, Rows
<1>4. ASSUME NEW j \in DOMAIN jobs, Met(c, j) PROVE Types'
  <2>1. j \in Nat
    BY <1>4 DEF Types
  <2>2. CASE jobs[j].tenant = tool[c].op.tenant
    <3>1. jobs' = jobs /\ tool' = [tool EXCEPT ![c].pc = "done", ![c].job = j]
      BY <1>4, <2>2 DEF Met
    <3> QED BY <1>1, <1>2, <2>1, <3>1 DEF Types
  <2>3. CASE jobs[j].tenant # tool[c].op.tenant
    <3>1. jobs' = jobs /\ tool' = [tool EXCEPT ![c].pc = "not_found", ![c].job = NoJob]
      BY <1>4, <2>3 DEF Met
    <3> QED BY <1>1, <1>2, <3>1 DEF Types
  <2> QED BY <2>2, <2>3
<1>5. CASE Cancelled(c)
  <2>1. tool[c].op.job \in Nat
    BY <1>5 DEF Types, Cancelled
  <2>2. jobs' \in Seq([key : StoredKey, tenant : Tenant, sinks : {"local", "external"}, cancelled : BOOLEAN])
    BY <1>5, CancelRow DEF Cancelled
  <2> QED BY <1>1, <1>2, <1>5, <2>1, <2>2 DEF Types, Cancelled
<1>6. CASE Missed(c)
  BY <1>1, <1>2, <1>6 DEF Types, Missed
<1> QED BY <1>3, <1>4, <1>5, <1>6, OperateCases

LEMMA TypesNext ==
  ASSUME Types, [ApprovalNext]_approvalVars
  PROVE  Types'
<1> USE ApprovalConstants
<1>1. ASSUME NEW r \in Receipt, NEW op \in Operation, Issue(r, op) PROVE Types'
  BY <1>1 DEF Types, Issue
<1>2. ASSUME NEW c \in ToolCall, NEW op \in Operation, CallFree(c, op) PROVE Types'
  BY <1>2 DEF Types, CallFree, Let, NewCall
<1>3. ASSUME NEW c \in ToolCall, NEW op \in Operation, NEW r \in Receipt \cup {NoReceipt},
             CallApproved(c, op, r)
      PROVE  Types'
  <2>1. CASE Valid(r, op)
    <3>1. r \in Receipt /\ tool' = [tool EXCEPT ![c] = [NewCall EXCEPT !.pc = "allowed", !.op = op]]
      BY <1>3, <2>1 DEF CallApproved, Valid, Let
    <3>2. UNCHANGED <<now, issued, jobs>> /\ consumed' = consumed \cup {r}
          /\ passed' = [passed EXCEPT ![r] = @ \cup {c}]
      BY <1>3, <2>1 DEF CallApproved
    <3> QED BY <3>1, <3>2, NewRowTypes DEF Types
  <2>2. CASE ~Valid(r, op)
    <3>1. tool' = [tool EXCEPT ![c] = [NewCall EXCEPT !.pc = "refused", !.op = op]]
      BY <1>3, <2>2 DEF CallApproved
    <3>2. UNCHANGED <<now, issued, jobs, consumed, passed>>
      BY <1>3, <2>2 DEF CallApproved
    <3> QED BY <3>1, <3>2, NewRowTypes DEF Types
  <2> QED BY <2>1, <2>2
<1>4. ASSUME NEW c \in ToolCall, Operate(c) PROVE Types'
  BY <1>4, TypesOperate
<1>5. ASSUME NEW c \in ToolCall, GiveUp(c) PROVE Types'
  BY <1>5 DEF Types, GiveUp
<1>6. CASE Crash
  BY <1>6 DEF Types, Crash
<1>7. CASE Start
  BY <1>7 DEF Types, Start, Kept
<1>8. CASE Tick
  BY <1>8 DEF Types, Tick
<1>9. CASE UNCHANGED approvalVars
  BY <1>9 DEF Types, approvalVars
<1> QED BY <1>1, <1>2, <1>3, <1>4, <1>5, <1>6, <1>7, <1>8, <1>9 DEF ApprovalNext
-----------------------------------------------------------------------------
(* Receipts *)

\* A step that lets no call through: receipts, and the operations of calls that were
\* let through, are what they were.
Quiet ==
  /\ passed' = passed
  /\ \A r \in Receipt : issued[r] # NotIssued => issued'[r] = issued[r]
  /\ \A c \in ToolCall : tool[c].pc # "new" => tool'[c].op = tool[c].op /\ tool'[c].pc # "new"
  /\ \A c \in ToolCall : tool'[c].pc \in {"allowed", "done"} =>
       \/ tool[c].pc \in {"allowed", "done"} /\ tool'[c].op = tool[c].op
       \/ ~NeedsApproval(tool'[c].op)

LEMMA QuietKeeps ==
  ASSUME Types, Receipts, Quiet, \A r \in Receipt : Spent(r)'
  PROVE  Receipts'
<1>1. ASSUME NEW r \in Receipt
      PROVE  ReceiptHeld(r)' /\ (\A c \in passed[r] : tool[c].pc # "new")'
  <2>1. passed[r] \subseteq ToolCall
    BY DEF Types
  <2> QED BY <2>1 DEF Receipts, Quiet, ReceiptHeld, Spent
<1>2. ASSUME NEW c \in ToolCall PROVE Approved(c)'
  BY DEF Receipts, Quiet, Approved, NeedsApproval
<1> QED BY <1>1, <1>2 DEF Receipts

LEMMA QuietSpent ==
  ASSUME Types, Receipts, Quiet, consumed \subseteq consumed', now' \in Nat, now <= now'
  PROVE  \A r \in Receipt : Spent(r)'
<1> SUFFICES ASSUME NEW r \in Receipt, passed'[r] # {}
             PROVE  issued'[r] # NotIssued /\ (r \in consumed' \/ issued'[r].expires < now')
  BY DEF Spent
<1>1. issued[r] # NotIssued /\ (r \in consumed \/ issued[r].expires < now)
  BY DEF Receipts, Spent, Quiet
<1>2. issued'[r] = issued[r] /\ issued[r].expires \in Nat /\ now \in Nat
  BY <1>1 DEF Quiet, Types
<1> QED BY <1>1, <1>2

\* The receipt that lets a call through has let none through before.
LEMMA LetKeeps ==
  ASSUME Types, Receipts, NEW c \in ToolCall, NEW op \in Operation, NEW r \in Receipt \cup {NoReceipt},
         CallApproved(c, op, r), Valid(r, op)
  PROVE  Receipts'
<1>1. r \in Receipt /\ issued[r] # NotIssued /\ issued[r].op = op /\ r \notin consumed
      /\ issued[r].expires \in Nat /\ now \in Nat /\ issued[r].expires > now
  BY DEF Valid, Types
<1>2. passed[r] = {}
  BY <1>1 DEF Receipts, Spent
<1>3. /\ UNCHANGED <<now, issued>> /\ consumed' = consumed \cup {r}
      /\ passed' = [passed EXCEPT ![r] = {c}]
  BY <1>2 DEF CallApproved
<1>4. /\ tool[c].pc = "new" /\ tool'[c].pc = "allowed" /\ tool'[c].op = op
      /\ \A d \in ToolCall \ {c} : tool'[d] = tool[d]
  <2>1. tool[c].pc = "new" /\ tool' = [tool EXCEPT ![c] = [NewCall EXCEPT !.pc = "allowed", !.op = op]]
    BY DEF CallApproved, Let
  <2> HIDE DEF CallApproved
  <2> QED BY <2>1 DEF NewCall, Types
<1>5. ASSUME NEW q \in Receipt
      PROVE  Spent(q)' /\ ReceiptHeld(q)' /\ (\A d \in passed[q] : tool[d].pc # "new")'
  <2>1. CASE q = r
    <3>1. passed'[q] = {c} /\ issued'[q] = issued[q] /\ q \in consumed'
      BY <1>3, <2>1 DEF Types
    <3> QED BY <1>1, <1>4, <2>1, <3>1 DEF Spent, ReceiptHeld
  <2>2. CASE q # r
    <3>1. passed'[q] = passed[q] /\ c \notin passed[q] /\ passed[q] \subseteq ToolCall
      BY <1>3, <1>4, <2>2 DEF Types, Receipts
    <3>2. Spent(q)'
      BY <1>3, <3>1 DEF Receipts, Spent
    <3>3. ReceiptHeld(q)' /\ (\A d \in passed[q] : tool[d].pc # "new")'
      BY <1>3, <1>4, <3>1 DEF Receipts, ReceiptHeld
    <3> QED BY <3>2, <3>3
  <2> QED BY <2>1, <2>2
<1>6. ASSUME NEW d \in ToolCall PROVE Approved(d)'
  <2>1. CASE d = c
    BY <1>1, <1>3, <2>1 DEF Approved, Types
  <2>2. CASE d # c
    <3>1. \A q \in Receipt : d \in passed[q] => d \in passed'[q]
      BY <1>2, <1>3 DEF Types
    <3> QED BY <1>4, <2>2, <3>1 DEF Approved, Receipts, NeedsApproval
  <2> QED BY <2>1, <2>2
<1> QED BY <1>5, <1>6 DEF Receipts

LEMMA ReceiptsNext ==
  ASSUME Types, Receipts, [ApprovalNext]_approvalVars
  PROVE  Receipts'
<1>1. ASSUME NEW r \in Receipt, NEW op \in Operation, Issue(r, op) PROVE Receipts'
  <2>1. Quiet /\ consumed \subseteq consumed' /\ now' = now
    BY <1>1 DEF Quiet, Issue, Types
  <2> QED BY <2>1, QuietSpent, QuietKeeps DEF Types
<1>2. ASSUME NEW c \in ToolCall, NEW op \in Operation, CallFree(c, op) PROVE Receipts'
  <2>1. Quiet /\ consumed \subseteq consumed' /\ now' = now
    BY <1>2 DEF Quiet, CallFree, Let, NewCall, Types
  <2> QED BY <2>1, QuietSpent, QuietKeeps DEF Types
<1>3. ASSUME NEW c \in ToolCall, NEW op \in Operation, NEW r \in Receipt \cup {NoReceipt},
             CallApproved(c, op, r)
      PROVE  Receipts'
  <2>1. CASE Valid(r, op)
    BY <1>3, <2>1, LetKeeps
  <2>2. CASE ~Valid(r, op)
    <3>1. Quiet /\ consumed \subseteq consumed' /\ now' = now
      BY <1>3, <2>2 DEF Quiet, CallApproved, NewCall, Types
    <3> QED BY <3>1, QuietSpent, QuietKeeps DEF Types
  <2> QED BY <2>1, <2>2
<1>4. ASSUME NEW c \in ToolCall, Operate(c) PROVE Receipts'
  <2>1. UNCHANGED <<now, issued, consumed, passed>> /\ tool[c].pc = "allowed"
    BY <1>4 DEF Operate
  <2>2. /\ tool'[c].op = tool[c].op /\ tool'[c].pc \in {"done", "not_found"}
        /\ \A d \in ToolCall \ {c} : tool'[d] = tool[d]
    <3>1. CASE Appended(c)
      BY <3>1 DEF Appended, Types
    <3>2. ASSUME NEW j \in DOMAIN jobs, Met(c, j) PROVE <2>2!1 /\ <2>2!2
      BY <3>2 DEF Met, Types
    <3>3. CASE Cancelled(c)
      BY <3>3 DEF Cancelled, Types
    <3>4. CASE Missed(c)
      BY <3>4 DEF Missed, Types
    <3> QED BY <1>4, <3>1, <3>2, <3>3, <3>4, OperateCases
  <2>3. Quiet /\ consumed \subseteq consumed' /\ now' = now
    BY <2>1, <2>2 DEF Quiet
  <2> QED BY <2>3, QuietSpent, QuietKeeps DEF Types
<1>5. ASSUME NEW c \in ToolCall, GiveUp(c) PROVE Receipts'
  <2>1. Quiet /\ consumed \subseteq consumed' /\ now' = now
    BY <1>5 DEF Quiet, GiveUp, Types
  <2> QED BY <2>1, QuietSpent, QuietKeeps DEF Types
<1>6. CASE Crash
  <2>1. Quiet /\ consumed \subseteq consumed' /\ now' = now
    BY <1>6 DEF Quiet, Crash, Types
  <2> QED BY <2>1, QuietSpent, QuietKeeps DEF Types
<1>7. CASE Start
  <2>1. Quiet /\ issued' = issued /\ now' = now /\ passed' = passed /\ consumed' = Kept
    BY <1>7 DEF Quiet, Start
  <2>2. ASSUME NEW r \in Receipt, passed[r] # {}
        PROVE  issued[r] # NotIssued /\ (r \in Kept \/ issued[r].expires < now)
    <3>1. issued[r] # NotIssued /\ (r \in consumed \/ issued[r].expires < now)
      BY <2>2 DEF Receipts, Spent
    <3>2. issued[r].expires \in Nat /\ now \in Nat
      BY <3>1 DEF Types
    <3> QED BY <3>1, <3>2 DEF Kept
  <2>3. \A r \in Receipt : Spent(r)'
    BY <2>1, <2>2 DEF Spent
  <2> QED BY <2>1, <2>3, QuietKeeps
<1>8. CASE Tick
  <2>1. Quiet /\ consumed \subseteq consumed' /\ now' \in Nat /\ now <= now'
    BY <1>8 DEF Quiet, Tick, Types
  <2> QED BY <2>1, QuietSpent, QuietKeeps
<1>9. CASE UNCHANGED approvalVars
  BY <1>9 DEF Receipts, Spent, ReceiptHeld, Approved, NeedsApproval, approvalVars
<1> QED BY <1>1, <1>2, <1>3, <1>4, <1>5, <1>6, <1>7, <1>8, <1>9 DEF ApprovalNext

LEMMA ReceiptsInit == ApprovalInit => Receipts
BY DEF ApprovalInit, Receipts, Spent, ReceiptHeld, Approved, NewCall

\* In every reachable state the variables have their types, for any number of calls,
\* receipts, tenants and keys (the MCP server's approvals and job creation).
THEOREM ApprovalsTypeCorrect == ApprovalSpec => []Types
<1>1. Types /\ [ApprovalNext]_approvalVars => Types'
  BY TypesNext
<1> QED BY <1>1, TypesInit, PTL DEF ApprovalSpec

\* However often it is presented, over crashes, restarts and prunings, a receipt lets at
\* most one call through, and nothing that needs an approval is done without one
\* (verify_and_consume, prune_mcp_security_state).
THEOREM ApprovalsHold == ApprovalSpec => []ReceiptsHold
<1>1. Types /\ Receipts /\ [ApprovalNext]_approvalVars => Types' /\ Receipts'
  BY TypesNext, ReceiptsNext
<1>2. Receipts => ReceiptsHold
  BY DEF Receipts, ReceiptsHold, Approved
<1> QED BY <1>1, <1>2, TypesInit, ReceiptsInit, PTL DEF ApprovalSpec
-----------------------------------------------------------------------------
(* Keys *)

Keys ==
  /\ \A i, j \in DOMAIN jobs : jobs[i].key = jobs[j].key => i = j
  /\ \A j \in DOMAIN jobs, op \in Operation :
       jobs[j].key = StorageKey(op) => jobs[j].tenant = op.tenant

\* The job that a call was told is of its tenant, and of its key if it creates.
Told(c) ==
  /\ tool[c].pc = "done" =>
       /\ tool[c].job \in DOMAIN jobs
       /\ jobs[tool[c].job].tenant = tool[c].op.tenant
       /\ tool[c].op.do = "create" => jobs[tool[c].job].key = StorageKey(tool[c].op)
  /\ tool[c].created => tool[c].pc = "done"
  /\ tool[c].pc = "not_found" => tool[c].op.do = "cancel"

Creator(c, j) == tool[c].created /\ tool[c].job = j
Creators ==
  /\ \A c, d \in ToolCall : (Creator(c, tool[c].job) /\ Creator(d, tool[c].job)) => c = d
  /\ \A j \in DOMAIN jobs : jobs[j].sinks = "external" =>
       \E c \in ToolCall : Creator(c, j) /\ tool[c].op.sinks = "external"

Naming == Keys /\ (\A c \in ToolCall : Told(c)) /\ Creators

\* A step that ends no call and touches no job.
Idle ==
  /\ jobs' = jobs
  /\ \A c \in ToolCall :
       \/ tool'[c] = tool[c]
       \/ ~tool[c].created /\ ~tool'[c].created /\ tool'[c].pc \notin {"done", "not_found"}

LEMMA IdleKeeps ==
  ASSUME Types, Naming, Idle
  PROVE  Naming'
<1>1. Keys'
  BY DEF Naming, Keys, Idle
<1>2. ASSUME NEW c \in ToolCall PROVE Told(c)'
  BY DEF Naming, Told, Idle
<1>3. Creators'
  <2>1. \A c \in ToolCall : tool'[c].created => tool'[c] = tool[c]
    BY DEF Idle
  <2>2. \A c \in ToolCall : tool[c].created => tool'[c] = tool[c]
    BY DEF Idle
  <2> QED BY <2>1, <2>2 DEF Naming, Creators, Creator, Idle
<1> QED BY <1>1, <1>2, <1>3 DEF Naming

LEMMA AppendedKeeps ==
  ASSUME Types, Naming, NEW c \in ToolCall, tool[c].pc = "allowed", Appended(c)
  PROVE  Naming'
<1> DEFINE n == Len(jobs) + 1
           op == tool[c].op
<1>1. op \in Operation /\ ~tool[c].created
  BY DEF Types, Naming, Told
<1>2. /\ DOMAIN jobs' = DOMAIN jobs \cup {n} /\ n \notin DOMAIN jobs
      /\ \A k \in DOMAIN jobs : jobs'[k] = jobs[k]
      /\ jobs'[n].key = StorageKey(op) /\ jobs'[n].tenant = op.tenant /\ jobs'[n].sinks = op.sinks
  BY <1>1, AppendRow DEF Appended
<1>3. /\ tool'[c].pc = "done" /\ tool'[c].job = n /\ tool'[c].created /\ tool'[c].op = op
      /\ \A d \in ToolCall \ {c} : tool'[d] = tool[d]
  BY DEF Appended, Types
<1>4. \A k \in DOMAIN jobs : jobs[k].key # StorageKey(op)
  BY DEF Appended
<1> HIDE DEF n, op
<1>5. Keys'
  <2>1. ASSUME NEW other \in Operation, StorageKey(op) = StorageKey(other)
        PROVE  op.tenant = other.tenant
    BY <1>1, <2>1, KeyTenant
  <2>2. \A i, j \in DOMAIN jobs' : jobs'[i].key = jobs'[j].key => i = j
    BY <1>2, <1>4 DEF Naming, Keys
  <2>3. \A j \in DOMAIN jobs', other \in Operation :
          jobs'[j].key = StorageKey(other) => jobs'[j].tenant = other.tenant
    BY <1>2, <2>1 DEF Naming, Keys
  <2> QED BY <2>2, <2>3 DEF Keys, StorageKey
<1>6. ASSUME NEW d \in ToolCall PROVE Told(d)'
  <2>1. CASE d = c
    BY <1>2, <1>3, <2>1 DEF Told, StorageKey
  <2>2. CASE d # c
    BY <1>2, <1>3, <2>2 DEF Naming, Told, StorageKey
  <2> QED BY <2>1, <2>2
<1>7. Creators'
  <2>1. \A d \in ToolCall \ {c} : tool'[d].created => tool'[d].job \in DOMAIN jobs
    BY <1>3 DEF Naming, Told
  <2>2. \A d, e \in ToolCall : (Creator(d, tool[d].job) /\ Creator(e, tool[d].job))' => d = e
    BY <1>2, <1>3, <2>1 DEF Naming, Creators, Creator
  <2>3. ASSUME NEW j \in DOMAIN jobs', jobs'[j].sinks = "external"
        PROVE  \E d \in ToolCall : Creator(d, j)' /\ tool'[d].op.sinks = "external"
    <3>1. CASE j = n
      BY <1>2, <1>3, <2>3, <3>1 DEF Creator
    <3>2. CASE j # n
      <4>1. j \in DOMAIN jobs /\ jobs[j].sinks = "external"
        BY <1>2, <2>3, <3>2
      <4>2. PICK d \in ToolCall : Creator(d, j) /\ tool[d].op.sinks = "external"
        BY <4>1 DEF Naming, Creators
      <4>3. d # c
        BY <1>1, <4>2 DEF Creator
      <4> QED BY <1>3, <4>2, <4>3 DEF Creator
    <3> QED BY <3>1, <3>2
  <2> QED BY <2>2, <2>3 DEF Creators
<1> QED BY <1>5, <1>6, <1>7 DEF Naming

\* A call that is told a job which exists already.
LEMMA FoundKeeps ==
  ASSUME Types, Naming, NEW c \in ToolCall, tool[c].pc = "allowed", NEW j \in DOMAIN jobs,
         tool' = [tool EXCEPT ![c].pc = "done", ![c].job = j],
         jobs[j].tenant = tool[c].op.tenant,
         tool[c].op.do = "create" => jobs[j].key = StorageKey(tool[c].op),
         DOMAIN jobs' = DOMAIN jobs,
         \A k \in DOMAIN jobs : /\ jobs'[k].key = jobs[k].key
                                /\ jobs'[k].tenant = jobs[k].tenant
                                /\ jobs'[k].sinks = jobs[k].sinks
  PROVE  Naming'
<1>1. /\ tool'[c].pc = "done" /\ tool'[c].job = j /\ tool'[c].op = tool[c].op
      /\ tool'[c].created = tool[c].created
      /\ \A d \in ToolCall \ {c} : tool'[d] = tool[d]
  BY DEF Types
<1>2. ~tool[c].created
  BY DEF Naming, Told
<1>3. Keys'
  BY DEF Naming, Keys, StorageKey
<1>4. ASSUME NEW d \in ToolCall PROVE Told(d)'
  <2>1. CASE d = c
    <3>1. jobs'[j].tenant = tool'[c].op.tenant
      BY <1>1
    <3>2. tool'[c].op.do = "create" => jobs'[j].key = StorageKey(tool'[c].op)
      BY <1>1
    <3>3. jobs'[tool'[c].job].tenant = tool'[c].op.tenant /\ tool'[c].job \in DOMAIN jobs'
      BY <1>1, <3>1
    <3>4. tool'[c].op.do = "create" => jobs'[tool'[c].job].key = StorageKey(tool'[c].op)
      BY <1>1, <3>2
    <3> QED BY <1>1, <1>2, <2>1, <3>3, <3>4, Zenon DEF Told
  <2>2. CASE d # c
    <3>1. Told(d) /\ tool'[d] = tool[d]
      BY <1>1, <2>2 DEF Naming
    <3>2. tool'[d].pc = "done" => /\ tool'[d].job \in DOMAIN jobs'
                                 /\ jobs'[tool'[d].job].tenant = tool'[d].op.tenant
      BY <3>1 DEF Told
    <3>3. (tool'[d].pc = "done" /\ tool'[d].op.do = "create")
            => jobs'[tool'[d].job].key = StorageKey(tool'[d].op)
      BY <3>1 DEF Told
    <3> QED BY <3>1, <3>2, <3>3, Zenon DEF Told
  <2> QED BY <2>1, <2>2
<1>5. Creators'
  <2>1. \A d \in ToolCall : tool'[d].created = tool[d].created
    BY <1>1
  <2>2. \A d \in ToolCall : tool[d].created => tool'[d] = tool[d]
    BY <1>1, <1>2
  <2>3. ASSUME NEW d \in ToolCall, NEW e \in ToolCall, Creator(d, tool[d].job)', Creator(e, tool[d].job)'
        PROVE  d = e
    <3>1. tool[d].created /\ tool[e].created
      BY <2>1, <2>3 DEF Creator
    <3>2. tool'[d] = tool[d] /\ tool'[e] = tool[e]
      BY <2>2, <3>1
    <3>3. tool[e].job = tool[d].job
      BY <2>3, <3>2 DEF Creator
    <3> QED BY <3>1, <3>3 DEF Naming, Creators, Creator
  <2>4. ASSUME NEW k \in DOMAIN jobs', jobs'[k].sinks = "external"
        PROVE  \E d \in ToolCall : Creator(d, k)' /\ tool'[d].op.sinks = "external"
    <3>1. PICK d \in ToolCall : Creator(d, k) /\ tool[d].op.sinks = "external"
      BY <2>4 DEF Naming, Creators
    <3>2. tool'[d] = tool[d]
      BY <2>2, <3>1 DEF Creator
    <3> QED BY <3>1, <3>2 DEF Creator
  <2> QED BY <2>3, <2>4 DEF Creators
<1> QED BY <1>3, <1>4, <1>5 DEF Naming

LEMMA NamingOperate ==
  ASSUME Types, Naming, NEW c \in ToolCall, Operate(c)
  PROVE  Naming'
<1>1. tool[c].pc = "allowed" /\ tool[c].op \in Operation /\ ~tool[c].created
  BY DEF Operate, Types, Naming, Told
<1>2. CASE Appended(c)
  BY <1>1, <1>2, AppendedKeeps
<1>3. ASSUME NEW j \in DOMAIN jobs, Met(c, j) PROVE Naming'
  <2>1. jobs[j].tenant = tool[c].op.tenant
    BY <1>1, <1>3 DEF Met, Naming, Keys
  <2>2. jobs' = jobs /\ tool' = [tool EXCEPT ![c].pc = "done", ![c].job = j]
    BY <1>3, <2>1 DEF Met
  <2>3. jobs[j].key = StorageKey(tool[c].op)
    BY <1>3 DEF Met
  <2> QED BY <1>1, <2>1, <2>2, <2>3, FoundKeeps
<1>4. CASE Cancelled(c)
  <2> DEFINE j == tool[c].op.job
  <2>1. /\ j \in DOMAIN jobs /\ jobs[j].tenant = tool[c].op.tenant /\ tool[c].op.do # "create"
        /\ jobs' = [jobs EXCEPT ![j].cancelled = TRUE]
        /\ tool' = [tool EXCEPT ![c].pc = "done", ![c].job = j]
    BY <1>4 DEF Cancelled
  <2> HIDE DEF j
  <2>2. /\ DOMAIN jobs' = DOMAIN jobs
        /\ \A k \in DOMAIN jobs : /\ jobs'[k].key = jobs[k].key
                                  /\ jobs'[k].tenant = jobs[k].tenant
                                  /\ jobs'[k].sinks = jobs[k].sinks
    BY <2>1, CancelRow
  <2> QED BY <1>1, <2>1, <2>2, FoundKeeps
<1>5. CASE Missed(c)
  <2>1. /\ tool'[c].pc = "not_found" /\ tool'[c].op = tool[c].op /\ ~tool'[c].created
        /\ \A d \in ToolCall \ {c} : tool'[d] = tool[d]
        /\ tool[c].op.do = "cancel" /\ jobs' = jobs
    BY <1>1, <1>5, OperationFields DEF Missed, Types
  <2>2. Keys'
    BY <2>1 DEF Naming, Keys, StorageKey
  <2>3. ASSUME NEW d \in ToolCall PROVE Told(d)'
    <3>1. CASE d = c
      BY <2>1, <3>1 DEF Told
    <3>2. CASE d # c
      BY <2>1, <3>2 DEF Naming, Told, StorageKey
    <3> QED BY <3>1, <3>2
  <2>4. Creators'
    <3>1. \A d \in ToolCall : tool'[d].created => tool[d].created
      BY <1>1, <2>1
    <3>2. \A d \in ToolCall : tool[d].created => tool'[d] = tool[d]
      BY <1>1, <2>1
    <3> QED BY <2>1, <3>1, <3>2 DEF Naming, Creators, Creator
  <2> QED BY <2>2, <2>3, <2>4 DEF Naming
<1> QED BY <1>2, <1>3, <1>4, <1>5, OperateCases

LEMMA NewIdle ==
  ASSUME Types, Naming, NEW c \in ToolCall, NEW op \in Operation, NEW pc \in {"allowed", "refused"},
         tool[c].pc = "new", jobs' = jobs,
         tool' = [tool EXCEPT ![c] = [NewCall EXCEPT !.pc = pc, !.op = op]]
  PROVE  Idle
<1>1. ~tool[c].created
  BY DEF Naming, Told
<1>2. tool'[c].pc = pc /\ ~tool'[c].created /\ \A d \in ToolCall \ {c} : tool'[d] = tool[d]
  BY DEF Types, NewCall
<1> QED BY <1>1, <1>2 DEF Idle

LEMMA NamingNext ==
  ASSUME Types, Naming, [ApprovalNext]_approvalVars
  PROVE  Naming'
<1>1. ASSUME NEW r \in Receipt, NEW op \in Operation, Issue(r, op) PROVE Naming'
  BY <1>1, IdleKeeps DEF Issue, Idle
<1>2. ASSUME NEW c \in ToolCall, NEW op \in Operation, CallFree(c, op) PROVE Naming'
  <2>1. /\ tool[c].pc = "new" /\ jobs' = jobs
        /\ tool' = [tool EXCEPT ![c] = [NewCall EXCEPT !.pc = "allowed", !.op = op]]
    BY <1>2 DEF CallFree, Let
  <2> QED BY <2>1, NewIdle, IdleKeeps
<1>3. ASSUME NEW c \in ToolCall, NEW op \in Operation, NEW r \in Receipt \cup {NoReceipt},
             CallApproved(c, op, r)
      PROVE  Naming'
  <2>1. CASE Valid(r, op)
    <3>1. /\ tool[c].pc = "new" /\ jobs' = jobs
          /\ tool' = [tool EXCEPT ![c] = [NewCall EXCEPT !.pc = "allowed", !.op = op]]
      BY <1>3, <2>1 DEF CallApproved, Let
    <3> QED BY <3>1, NewIdle, IdleKeeps
  <2>2. CASE ~Valid(r, op)
    <3>1. /\ tool[c].pc = "new" /\ jobs' = jobs
          /\ tool' = [tool EXCEPT ![c] = [NewCall EXCEPT !.pc = "refused", !.op = op]]
      BY <1>3, <2>2 DEF CallApproved
    <3> QED BY <3>1, NewIdle, IdleKeeps
  <2> QED BY <2>1, <2>2
<1>4. ASSUME NEW c \in ToolCall, Operate(c) PROVE Naming'
  BY <1>4, NamingOperate
<1>5. ASSUME NEW c \in ToolCall, GiveUp(c) PROVE Naming'
  <2>1. tool[c].pc = "allowed" /\ ~tool[c].created /\ jobs' = jobs
    BY <1>5 DEF GiveUp, Naming, Told
  <2>2. /\ tool'[c].pc = "failed" /\ ~tool'[c].created
        /\ \A d \in ToolCall \ {c} : tool'[d] = tool[d]
    BY <1>5, <2>1 DEF GiveUp, Types
  <2>3. Idle
    BY <2>1, <2>2 DEF Idle
  <2> QED BY <2>3, IdleKeeps
<1>6. CASE Crash
  <2>1. jobs' = jobs
    BY <1>6 DEF Crash
  <2>2. ASSUME NEW c \in ToolCall
        PROVE  \/ tool'[c] = tool[c]
               \/ ~tool[c].created /\ ~tool'[c].created /\ tool'[c].pc \notin {"done", "not_found"}
    <3>1. CASE tool[c].pc = "allowed"
      <4>1. tool'[c] = [tool[c] EXCEPT !.pc = "failed"]
        BY <1>6, <3>1 DEF Crash
      <4>2. ~tool[c].created
        BY <3>1 DEF Naming, Told
      <4> QED BY <4>1, <4>2 DEF Types
    <3>2. CASE tool[c].pc # "allowed"
      BY <1>6, <3>2 DEF Crash
    <3> QED BY <3>1, <3>2
  <2>3. Idle
    BY <2>1, <2>2 DEF Idle
  <2> QED BY <2>3, IdleKeeps
<1>7. CASE Start
  BY <1>7, IdleKeeps DEF Start, Idle
<1>8. CASE Tick
  BY <1>8, IdleKeeps DEF Tick, Idle
<1>9. CASE UNCHANGED approvalVars
  BY <1>9, IdleKeeps DEF approvalVars, Idle
<1> QED BY <1>1, <1>2, <1>3, <1>4, <1>5, <1>6, <1>7, <1>8, <1>9 DEF ApprovalNext

LEMMA NamingInit == ApprovalInit => Naming
BY DEF ApprovalInit, Naming, Keys, Told, Creators, Creator, NewCall

LEMMA NamingNames == Types /\ Naming => KeysNameJobs
<1> SUFFICES ASSUME Types, Naming PROVE KeysNameJobs
  OBVIOUS
<1>1. ASSUME NEW c \in ToolCall, NEW d \in ToolCall,
             tool[c].pc = "done", tool[c].op.do = "create",
             tool[d].pc = "done", tool[d].op.do = "create",
             tool[c].op.tenant = tool[d].op.tenant, tool[c].op.key = tool[d].op.key,
             tool[c].op.key # NoKey
      PROVE  tool[c].job = tool[d].job /\ ((tool[c].created /\ tool[d].created) => c = d)
  <2>1. StorageKey(tool[c].op) = StorageKey(tool[d].op)
    BY <1>1 DEF StorageKey
  <2>2. tool[c].job = tool[d].job
    BY <1>1, <2>1 DEF Naming, Keys, Told
  <2> QED BY <2>2 DEF Naming, Creators, Creator
<1>2. \A c \in ToolCall :
        /\ tool[c].pc = "not_found" => tool[c].op.do = "cancel"
        /\ tool[c].pc = "done" => jobs[tool[c].job].tenant = tool[c].op.tenant
  BY DEF Naming, Told
<1>3. \A j \in DOMAIN jobs : jobs[j].sinks = "external" =>
        \E c \in ToolCall : tool[c].created /\ tool[c].job = j /\ tool[c].op.sinks = "external"
  BY DEF Naming, Creators, Creator
<1>4. \A c, d \in ToolCall :
        (/\ tool[c].pc = "done" /\ tool[c].op.do = "create"
         /\ tool[d].pc = "done" /\ tool[d].op.do = "create"
         /\ tool[c].op.tenant = tool[d].op.tenant /\ tool[c].op.key = tool[d].op.key
         /\ tool[c].op.key # NoKey)
        => /\ tool[c].job = tool[d].job
           /\ (tool[c].created /\ tool[d].created) => c = d
  BY <1>1, Zenon
<1> QED BY <1>2, <1>3, <1>4, Zenon DEF KeysNameJobs

\* Under one key of one tenant there is one job, whoever created it and however the
\* calls overlap, and a job writes to an external sink only if it was created to
\* (create_job of the service and of the store).
THEOREM KeysSound == ApprovalSpec => []KeysNameJobs
<1>1. Types /\ Naming /\ [ApprovalNext]_approvalVars => Types' /\ Naming'
  BY TypesNext, NamingNext
<1> QED BY <1>1, NamingNames, TypesInit, NamingInit, PTL DEF ApprovalSpec
-----------------------------------------------------------------------------
(***************************************************************************)
(* McpListings.  A row that is written between two pages moves rows of the *)
(* listing to later places, never to earlier ones, so a row that there was *)
(* and was not shown stays behind the cursor.  A row that is written later *)
(* is put behind the cursor as well, but for one whose stamp is older than *)
(* that of a row already shown.                                            *)
(***************************************************************************)

\* A set of naturals has a least member: T is the set of the numbers below all of S, and
\* counting T shows that it ends where S begins.
LEMMA Least ==
  ASSUME NEW S \in SUBSET Nat, NEW w \in S
  PROVE  \E m \in S : \A x \in S : m <= x
  <1> DEFINE T == {k \in 0 .. w : \A x \in S : k < x}
             c == Cardinality(T)
  <1>1. IsFiniteSet(0 .. w) /\ T \in SUBSET (0 .. w)
    <2>1. 0 \in Int /\ w \in Int
      OBVIOUS
    <2> QED
      BY <2>1, FS_Interval
  <1>2. IsFiniteSet(T) /\ c \in Nat
    BY <1>1, FS_Subset, FS_CardinalityType
  <1>3. ASSUME NEW k \in T PROVE k + 1 <= c
    <2>1. (0 .. k) \in SUBSET T
      OBVIOUS
    <2>2. Cardinality(0 .. k) = k + 1
      BY FS_Interval
    <2> QED
      BY <1>2, <2>1, <2>2, FS_Subset
  <1>4. ASSUME NEW k \in Nat, k \notin T PROVE c <= k
    <2>1. PICK x \in S : x <= k
      <3>1. CASE k <= w
        BY <1>4, <3>1
      <3>2. CASE ~(k <= w)
        BY <3>2
      <3> QED
        BY <3>1, <3>2
    <2>2. T \in SUBSET (0 .. k - 1)
      BY <2>1
    <2>3. IsFiniteSet(0 .. k - 1) /\ Cardinality(0 .. k - 1) = k
      <3>1. k - 1 \in Int /\ 0 \in Int
        OBVIOUS
      <3> QED
        BY <3>1, FS_Interval
    <2> QED
      BY <2>2, <2>3, FS_Subset
  <1>5. c \notin T
    <2>1. \A k \in T : k + 1 <= c
      BY <1>3
    <2>2. c + 1 > c
      BY <1>2
    <2> HIDE DEF c, T
    <2> QED
      BY <1>2, <2>1, <2>2
  <1>6. \A x \in S : x \notin T
    OBVIOUS
  <1> HIDE DEF c
  <1>7. \A x \in S : c <= x
    BY <1>4, <1>6
  <1>8. \E x \in S : x <= c
    BY <1>2, <1>5, <1>7
  <1> QED
    BY <1>2, <1>7, <1>8

LEMMA Greatest ==
  ASSUME NEW b \in Nat, NEW S \in SUBSET (0 .. b), NEW w \in S
  PROVE  Max(S) \in S /\ \A x \in S : x <= Max(S)
  <1> DEFINE T == {b - x : x \in S}
  <1>1. T \in SUBSET Nat /\ b - w \in T
    OBVIOUS
  <1>2. PICK m \in T : \A x \in T : m <= x
    BY <1>1, Least
  <1>3. PICK g \in S : m = b - g
    OBVIOUS
  <1>4. \A x \in S : b - x \in T
    OBVIOUS
  <1>5. ASSUME NEW x \in S PROVE g <= b /\ x <= b /\ g \in Nat /\ x \in Nat /\ b - g <= b - x
    <2>1. g \in 0 .. b /\ x \in 0 .. b
      OBVIOUS
    <2>2. m <= b - x
      BY <1>2, <1>4
    <2> QED
      BY <1>3, <2>1, <2>2
  <1>6. \A x \in S : g >= x
    <2> SUFFICES ASSUME NEW x \in S PROVE g >= x
      OBVIOUS
    <2> QED
      BY <1>5
  <1>7. Max(S) \in S /\ \A x \in S : Max(S) >= x
    BY <1>6 DEF Max
  <1>8. \A x \in S : x \in Nat
    <2> SUFFICES ASSUME NEW x \in S PROVE x \in Nat
      OBVIOUS
    <2>1. x \in 0 .. b
      OBVIOUS
    <2> QED
      BY <2>1
  <1>9. ASSUME NEW x \in S, NEW y \in S, y >= x PROVE x <= y
    BY <1>8, <1>9
  <1> QED
    BY <1>7, <1>9

LEMMA LeastOfThree ==
  ASSUME NEW a \in Int, NEW b \in Int, NEW c \in Int
  PROVE  LET m == Min({a, b, c}) IN m \in {a, b, c} /\ m <= a /\ m <= b /\ m <= c
  BY DEF Min

\* A sequence without repetitions has as many elements as places.
LEMMA InjectiveSeq ==
  ASSUME NEW R, NEW s \in Seq(R), \A n, m \in DOMAIN s : s[n] = s[m] => n = m
  PROVE  IsFiniteSet(ToSet(s)) /\ Cardinality(ToSet(s)) = Len(s)
  <1>1. Len(s) \in Nat /\ DOMAIN s = 1 .. Len(s)
    OBVIOUS
  <1>2. IsFiniteSet(1 .. Len(s)) /\ Cardinality(1 .. Len(s)) = Len(s)
    <2>1. 1 \in Int /\ Len(s) \in Int
      BY <1>1
    <2> QED
      BY <1>1, <2>1, FS_Interval
  <1>3. s \in Bijection(1 .. Len(s), ToSet(s))
    <2>1. s \in [1 .. Len(s) -> ToSet(s)]
      BY <1>1 DEF ToSet
    <2>2. \A x \in ToSet(s) : \E n \in 1 .. Len(s) : s[n] = x
      BY <1>1 DEF ToSet
    <2> QED
      BY <1>1, <2>1, <2>2 DEF Bijection, Injection, Surjection, IsInjective
  <1>4. ExistsBijection(1 .. Len(s), ToSet(s))
    BY <1>3 DEF ExistsBijection
  <1> QED
    BY <1>2, <1>4, FS_Bijection
-----------------------------------------------------------------------------
Once(s) == \A n, m \in DOMAIN s : s[n] = s[m] => n = m
Written == ToSet(written)
ReaderType ==
  [pc : {"reading", "done"}, cursor : Nat, shown : Seq(Row), first : Seq(Row), last : Seq(Row),
   full : BOOLEAN, late : SUBSET Row]
RowsSound ==
  /\ listing \in {"results", "events", "deliveries"}
  /\ stamped \in Seq(Row) /\ Once(stamped)
  /\ written \in Seq(Row) /\ Once(written) /\ Written \subseteq ToSet(stamped)

Ordered == \A u, w \in Written :
  /\ ~Before(u, u)
  /\ u # w => Before(u, w) \/ Before(w, u)
  /\ \A v \in Written : Before(u, v) /\ Before(v, w) => Before(u, w)

LEMMA StampFacts ==
  ASSUME RowsSound, NEW w \in ToSet(stamped)
  PROVE  StampOf(w) \in DOMAIN stamped /\ stamped[StampOf(w)] = w /\ StampOf(w) \in Nat
  BY DEF StampOf, ToSet, RowsSound

LEMMA WriteFacts ==
  ASSUME RowsSound, NEW w \in Written
  PROVE  WriteOf(w) \in DOMAIN written /\ written[WriteOf(w)] = w /\ WriteOf(w) \in Nat
  BY DEF WriteOf, Written, ToSet, RowsSound

LEMMA OrderFacts ==
  ASSUME RowsSound
  PROVE  Ordered
  <1> SUFFICES ASSUME NEW u \in Written, NEW w \in Written
               PROVE  /\ ~Before(u, u)
                      /\ u # w => Before(u, w) \/ Before(w, u)
                      /\ \A v \in Written : Before(u, v) /\ Before(v, w) => Before(u, w)
    BY DEF Ordered
  <1>1. \A v \in Written : /\ StampOf(v) \in Nat /\ stamped[StampOf(v)] = v
                           /\ WriteOf(v) \in Nat /\ written[WriteOf(v)] = v
    BY StampFacts, WriteFacts DEF RowsSound
  <1>2. u # w => StampOf(u) # StampOf(w) /\ WriteOf(u) # WriteOf(w)
    BY <1>1
  <1>3. listing \in {"results", "events", "deliveries"}
    BY DEF RowsSound
  <1>4. CASE listing = "results"
    BY <1>1, <1>2, <1>4 DEF Before
  <1>5. CASE listing = "deliveries"
    BY <1>1, <1>2, <1>5 DEF Before
  <1>6. CASE listing = "events"
    BY <1>1, <1>2, <1>6 DEF Before
  <1> QED
    BY <1>3, <1>4, <1>5, <1>6

\* Every written row has a place of its own in the listing.
LEMMA PlaceFacts ==
  ASSUME RowsSound
  PROVE  /\ IsFiniteSet(Written) /\ Cardinality(Written) = Len(written) /\ Len(written) \in Nat
         /\ \A w \in Written : Place(w) \in 1 .. Len(written)
         /\ \A u, w \in Written : Before(u, w) => Place(u) < Place(w)
         /\ \A u, w \in Written : Place(u) = Place(w) => u = w
  <1> DEFINE Prior(w) == {u \in Written : Before(u, w)}
  <1>1. IsFiniteSet(Written) /\ Cardinality(Written) = Len(written) /\ Len(written) \in Nat
    BY InjectiveSeq DEF RowsSound, Once, Written
  <1>2. Ordered
    BY OrderFacts
  <1>3. \A w \in Written : IsFiniteSet(Prior(w)) /\ Cardinality(Prior(w)) \in Nat
                           /\ Place(w) = 1 + Cardinality(Prior(w))
    BY <1>1, FS_Subset, FS_CardinalityType DEF Place, Written
  <1>4. ASSUME NEW u \in Written, NEW w \in Written, Before(u, w) PROVE Place(u) < Place(w)
    <2>1. Prior(u) \cup {u} \subseteq Prior(w)
      BY <1>2, <1>4 DEF Ordered
    <2>2. u \notin Prior(u)
      BY <1>2 DEF Ordered
    <2>3. Cardinality(Prior(u) \cup {u}) = Cardinality(Prior(u)) + 1
      BY <1>3, <2>2, FS_AddElement
    <2>4. Cardinality(Prior(u) \cup {u}) <= Cardinality(Prior(w))
      BY <1>3, <2>1, FS_Subset
    <2> QED
      BY <1>3, <2>3, <2>4
  <1>5. ASSUME NEW w \in Written PROVE Place(w) \in 1 .. Len(written)
    <2>1. Prior(w) \cup {w} \subseteq Written
      OBVIOUS
    <2>2. w \notin Prior(w)
      BY <1>2 DEF Ordered
    <2>3. Cardinality(Prior(w) \cup {w}) = Cardinality(Prior(w)) + 1
      BY <1>3, <2>2, FS_AddElement
    <2>4. Cardinality(Prior(w) \cup {w}) <= Len(written)
      BY <1>1, <2>1, FS_Subset
    <2>5. Cardinality(Prior(w)) \in Nat /\ Place(w) = 1 + Cardinality(Prior(w))
      BY <1>3
    <2> HIDE DEF Prior
    <2> QED
      BY <1>1, <2>3, <2>4, <2>5
  <1>6. ASSUME NEW u \in Written, NEW w \in Written, Place(u) = Place(w) PROVE u = w
    <2>1. Place(u) \in Nat /\ ~(Place(u) < Place(w)) /\ ~(Place(w) < Place(u))
      BY <1>5, <1>6
    <2> QED
      BY <1>2, <1>4, <2>1 DEF Ordered
  <1> QED
    BY <1>1, <1>4, <1>5, <1>6

\* The listing holds each written row at its place.
LEMMA ListedFacts ==
  ASSUME RowsSound
  PROVE  /\ Listed \in Seq(Written) /\ Len(Listed) = Len(written) /\ DOMAIN Listed = 1 .. Len(written)
         /\ \A n \in 1 .. Len(written) : Listed[n] \in Written /\ Place(Listed[n]) = n
         /\ \A w \in Written : Listed[Place(w)] = w
  <1> DEFINE N == Len(written)
             f == [w \in Written |-> Place(w)]
  <1>1. IsFiniteSet(Written) /\ Cardinality(Written) = N /\ N \in Nat
    BY PlaceFacts
  <1>2. f \in Injection(Written, 1 .. N)
    <2>1. f \in [Written -> 1 .. N]
      BY PlaceFacts
    <2>2. \A u, w \in Written : f[u] = f[w] => u = w
      BY PlaceFacts
    <2> HIDE DEF f
    <2> QED
      BY <2>1, <2>2 DEF Injection, IsInjective
  <1>3. IsFiniteSet(1 .. N) /\ Cardinality(1 .. N) = N
    <2>1. 1 \in Int /\ N \in Int
      BY <1>1
    <2> HIDE DEF N
    <2>2. IsFiniteSet(1 .. N) /\ Cardinality(1 .. N) = IF 1 > N THEN 0 ELSE N - 1 + 1
      BY <2>1, FS_Interval
    <2> QED
      BY <1>1, <2>2
  <1>4. f \in Surjection(Written, 1 .. N)
    BY <1>1, <1>2, <1>3, FS_Injection
  <1>5. \A n \in 1 .. N : \E w \in Written : Place(w) = n
    <2>1. \A n \in 1 .. N : \E w \in Written : f[w] = n
      <3> HIDE DEF f
      <3> QED
        BY <1>4 DEF Surjection
    <2> QED
      BY <2>1
  <1>6. \A n \in 1 .. N : Listed[n] \in Written /\ Place(Listed[n]) = n
    BY <1>5 DEF Listed, Written
  <1>7. \A w \in Written : Listed[Place(w)] = w
    BY <1>6, PlaceFacts
  <1>8. Listed \in [1 .. N -> Written]
    <2>1. DOMAIN Listed = 1 .. N /\ Listed = [n \in 1 .. N |-> Listed[n]]
      BY DEF Listed
    <2> QED
      BY <1>6, <2>1
  <1> QED
    BY <1>1, <1>6, <1>7, <1>8
-----------------------------------------------------------------------------
LEMMA SameSeq ==
  ASSUME NEW R, NEW a \in Seq(R), NEW b \in Seq(R), Len(a) = Len(b),
         \A n \in 1 .. Len(a) : a[n] = b[n]
  PROVE  a = b
  OBVIOUS

Behind(w) == Place(w) > reader.cursor
Shown == ToSet(reader.shown)
ReaderSound ==
  /\ reader \in ReaderType
  /\ reader.cursor = Len(reader.shown) /\ reader.cursor <= Len(written)
  /\ Shown \subseteq Written /\ ToSet(reader.first) \subseteq Written
  /\ Len(reader.first) <= Len(written)
\* What a client has been shown that goes on reading
ReadingSound ==
  /\ \A w \in ToSet(reader.first) : w \in Shown \/ Behind(w)
  /\ reader.cursor > 0 /\ Len(reader.first) = Len(written) =>
       reader.first = Listed /\ reader.shown = SubSeq(Listed, 1, reader.cursor)
  /\ reader.cursor = 0 => reader.first = << >>
  /\ listing = "results" =>
       /\ \A w \in Written : w \in Shown \/ w \in reader.late \/ Behind(w)
       /\ \A w \in Written : ~Behind(w) => \E u \in Shown : StampOf(w) <= StampOf(u)
\* What of the first listing was not shown comes after all that was.
Rear == \A u \in ToSet(reader.first) \ Shown : \A w \in Shown : Before(w, u)
ListingInv ==
  /\ RowsSound /\ ReaderSound /\ Rear
  /\ reader.pc = "reading" => ReadingSound
  /\ PagesComplete

\* What a page holds: the rows from the cursor on, one at least, and all that are left when
\* the listing ends with it, unless it is a page of events as long as one call returns.
LEMMA PageFacts ==
  ASSUME RowsSound, ReaderSound, NEW limit \in 1 .. MaxPageSize
  PROVE  LET k == Len(Emitted(limit)) IN
         /\ k \in Nat /\ reader.cursor + k <= Len(written)
         /\ Emitted(limit) = SubSeq(Listed, reader.cursor + 1, reader.cursor + k)
         /\ HasMore(limit) => k > 0
         /\ ~HasMore(limit) => \/ reader.cursor + k = Len(written)
                               \/ listing = "events" /\ k = StoreLimit[listing]
  <1> DEFINE c == reader.cursor
             N == Len(written)
             cap == StoreLimit[listing]
             m == Min({Len(Listed), c + limit + 1, c + cap})
             L == Loaded(limit)
             most == Min({Len(L), limit})
             fits == {n \in 0 .. most : n <= 1 \/ Used(SubSeq(L, 1, n)) <= Budget}
             k == Max(fits)
  <1>1. /\ Listed \in Seq(Written) /\ Len(Listed) = N /\ N \in Nat
        /\ c \in Nat /\ c <= N /\ limit \in Nat /\ 1 <= limit /\ limit <= cap /\ cap \in Nat
        /\ limit = cap => listing = "events"
    <2>1. /\ listing \in {"results", "events", "deliveries"} /\ cap \in Nat /\ MaxPageSize <= cap
          /\ listing # "events" => MaxPageSize < cap
      BY ListingConstants DEF RowsSound
    <2>2. limit \in Nat /\ MaxPageSize \in Nat /\ 1 <= limit /\ limit <= MaxPageSize
      BY ListingConstants
    <2>3. limit <= cap /\ (limit = cap => listing = "events")
      <3> HIDE DEF cap
      <3> QED
        BY <2>1, <2>2
    <2> HIDE DEF cap
    <2> QED
      BY <2>1, <2>2, <2>3, ListedFacts, PlaceFacts DEF ReaderSound, ReaderType
  <1>2. /\ m \in Nat /\ c <= m /\ m <= N /\ m <= c + limit + 1
        /\ m \in {N, c + limit + 1} \/ (listing = "events" /\ m = c + limit /\ limit = cap)
    <2>1. m \in {N, c + limit + 1, c + cap} /\ m <= N /\ m <= c + limit + 1 /\ m <= c + cap
      <3>1. N \in Int /\ c + limit + 1 \in Int /\ c + cap \in Int
        BY <1>1
      <3> HIDE DEF N, c, cap
      <3> QED
        BY <1>1, <3>1, LeastOfThree
    <2> HIDE DEF m, N, c, cap
    <2> QED
      BY <1>1, <2>1
  <1>3. L = SubSeq(Listed, c + 1, m)
    BY DEF Loaded
  <1>4. L \in Seq(Written) /\ Len(L) = m - c /\ \A n \in 1 .. m - c : L[n] = Listed[c + n]
    <2> HIDE DEF m, N, c, L
    <2>1. Listed \in Seq(Written) /\ c + 1 \in 1 .. N + 1 /\ m \in 0 .. N
      BY <1>1, <1>2
    <2> QED
      BY <1>1, <1>2, <1>3, <2>1
  <1>5. most \in Nat /\ most <= m - c /\ most <= limit /\ most \in {m - c, limit}
    <2>1. Min({Len(L), limit, limit}) \in {Len(L), limit} /\ Min({Len(L), limit, limit}) <= Len(L)
          /\ Min({Len(L), limit, limit}) <= limit
      <3>1. Len(L) \in Int /\ limit \in Int
        BY <1>1, <1>2, <1>4
      <3> HIDE DEF L
      <3> QED
        BY <3>1, LeastOfThree
    <2>2. {Len(L), limit, limit} = {Len(L), limit}
      OBVIOUS
    <2>3. most \in {Len(L), limit} /\ most <= Len(L) /\ most <= limit
      BY <2>1, <2>2
    <2> HIDE DEF m, c, L, most
    <2> QED
      BY <1>1, <1>2, <1>4, <2>3
  <1>6. k \in 0 .. most /\ (most > 0 => k > 0)
    <2>1. 0 \in fits /\ fits \in SUBSET (0 .. most)
      BY <1>5
    <2>2. most > 0 => 1 \in fits
      BY <1>5
    <2> HIDE DEF fits, most
    <2>3. k \in fits /\ \A x \in fits : x <= k
      BY <1>5, <2>1, Greatest
    <2>4. k \in 0 .. most
      BY <2>1, <2>3
    <2> HIDE DEF k
    <2> QED
      BY <1>5, <2>2, <2>3, <2>4
  <1>7. Emitted(limit) = SubSeq(L, 1, k)
    BY DEF Emitted
  <1> HIDE DEF m, L, most, fits, k, cap
  <1>8. /\ SubSeq(L, 1, k) \in Seq(Written) /\ Len(SubSeq(L, 1, k)) = k
        /\ \A n \in 1 .. k : SubSeq(L, 1, k)[n] = Listed[c + n]
    BY <1>2, <1>4, <1>5, <1>6
  <1>9. SubSeq(L, 1, k) = SubSeq(Listed, c + 1, c + k)
    <2> HIDE DEF c, N
    <2>1. k \in Nat /\ c + k <= N
      BY <1>1, <1>2, <1>5, <1>6
    <2>2. /\ SubSeq(Listed, c + 1, c + k) \in Seq(Written) /\ Len(SubSeq(Listed, c + 1, c + k)) = k
          /\ \A n \in 1 .. k : SubSeq(Listed, c + 1, c + k)[n] = Listed[c + n]
      BY <1>1, <2>1
    <2> DEFINE a == SubSeq(L, 1, k)
               b == SubSeq(Listed, c + 1, c + k)
    <2>3. a \in Seq(Written) /\ b \in Seq(Written) /\ Len(a) = k /\ Len(b) = k
      BY <1>8, <2>2
    <2>4. \A n \in 1 .. k : a[n] = b[n]
      BY <1>8, <2>2
    <2> HIDE DEF a, b
    <2>5. a = b
      BY <2>3, <2>4, SameSeq
    <2> QED
      BY <2>5 DEF a, b
  <1>10. HasMore(limit) <=> k # m - c
    <2>1. k = m - c => SubSeq(L, 1, k) = L
      BY <1>2, <1>4, <1>5, <1>6
    <2>2. k # m - c => SubSeq(L, 1, k) # L
      BY <1>4, <1>8
    <2> QED
      BY <1>7, <2>1, <2>2 DEF HasMore, L
  <1> HIDE DEF c, N
  <1>11. k \in Nat /\ c + k <= N /\ (HasMore(limit) => k > 0) 
         /\ (~HasMore(limit) => c + k = N \/ (listing = "events" /\ k = cap))
    BY <1>1, <1>2, <1>5, <1>6, <1>10
  <1> QED
    BY <1>7, <1>8, <1>9, <1>11 DEF c, N, cap

\* What comes to the end of a sequence changes no earlier place.
LEMMA AppendedOnce ==
  ASSUME NEW R, NEW s \in Seq(R), NEW x \in R, Once(s), x \notin ToSet(s)
  PROVE  LET t == Append(s, x) IN
         /\ t \in Seq(R) /\ Len(t) = Len(s) + 1 /\ Once(t) /\ ToSet(t) = ToSet(s) \cup {x}
         /\ \A n \in 1 .. Len(s) : t[n] = s[n]
         /\ t[Len(s) + 1] = x
  <1> DEFINE t == Append(s, x)
  <1>1. /\ t \in Seq(R) /\ Len(t) = Len(s) + 1 /\ Len(s) \in Nat
        /\ DOMAIN s = 1 .. Len(s) /\ DOMAIN t = 1 .. Len(s) + 1
        /\ \A n \in 1 .. Len(s) : t[n] = s[n]
        /\ t[Len(s) + 1] = x
    OBVIOUS
  <1> HIDE DEF t
  <1>2. ToSet(t) = ToSet(s) \cup {x}
    BY <1>1 DEF ToSet
  <1>3. \A n \in 1 .. Len(s) : s[n] # x
    BY <1>1 DEF ToSet
  <1>4. Once(t)
    <2> SUFFICES ASSUME NEW n \in 1 .. Len(s) + 1, NEW m \in 1 .. Len(s) + 1, t[n] = t[m] PROVE n = m
      BY <1>1 DEF Once
    <2>1. \A i \in 1 .. Len(s) + 1 : i \in 1 .. Len(s) \/ i = Len(s) + 1
      BY <1>1
    <2> QED
      BY <1>1, <1>3, <2>1 DEF Once
  <1> QED
    BY <1>1, <1>2, <1>4 DEF t

LEMMA SameBefore ==
  ASSUME RowsSound, listing' = listing, NEW u, NEW w,
         StampOf(u)' = StampOf(u), StampOf(w)' = StampOf(w),
         WriteOf(u)' = WriteOf(u), WriteOf(w)' = WriteOf(w)
  PROVE  Before(u, w)' <=> Before(u, w)
  <1>1. CASE listing = "results"
    BY <1>1 DEF Before
  <1>2. CASE listing = "deliveries"
    BY <1>2 DEF Before
  <1>3. CASE listing = "events"
    BY <1>3 DEF Before
  <1> QED
    BY <1>1, <1>2, <1>3 DEF RowsSound

LEMMA StampStep ==
  ASSUME ListingInv, NEW w \in Row, Stamp(w)
  PROVE  ListingInv'
  <1>1. /\ RowsSound /\ stamped' = Append(stamped, w) /\ w \notin ToSet(stamped)
        /\ listing' = listing /\ written' = written /\ reader' = reader /\ Written' = Written
    BY DEF Stamp, ListingInv, Written
  <1>2. /\ stamped' \in Seq(Row) /\ Once(stamped') /\ ToSet(stamped') = ToSet(stamped) \cup {w}
        /\ \A n \in 1 .. Len(stamped) : stamped'[n] = stamped[n]
        /\ Len(stamped') = Len(stamped) + 1 /\ Len(stamped) \in Nat
        /\ DOMAIN stamped = 1 .. Len(stamped) /\ DOMAIN stamped' = 1 .. Len(stamped) + 1
    <2>1. stamped \in Seq(Row) /\ Once(stamped)
      BY <1>1 DEF RowsSound
    <2> QED
      BY <1>1, <2>1, AppendedOnce
  <1>3. RowsSound'
    BY <1>1, <1>2 DEF RowsSound
  <1>4. ASSUME NEW u \in Written PROVE StampOf(u)' = StampOf(u) /\ WriteOf(u)' = WriteOf(u)
    <2>1. u \in ToSet(stamped) /\ u \in ToSet(stamped)'
      BY <1>1, <1>2 DEF RowsSound
    <2>2. StampOf(u) \in DOMAIN stamped /\ stamped[StampOf(u)] = u
      BY <1>1, <2>1, StampFacts
    <2>3. StampOf(u)' \in DOMAIN stamped' /\ stamped'[StampOf(u)'] = u
      <3>1. \E n \in DOMAIN stamped' : stamped'[n] = u
        BY <1>2, <2>2
      <3> QED
        BY <3>1 DEF StampOf
    <2>4. StampOf(u) \in DOMAIN stamped' /\ stamped'[StampOf(u)] = u
      BY <1>2, <2>2
    <2>5. StampOf(u)' = StampOf(u)
      BY <1>2, <2>3, <2>4 DEF Once
    <2> QED
      BY <1>1, <2>5 DEF WriteOf
  <1>5. \A u, v \in Written : Before(u, v)' <=> Before(u, v)
    BY <1>1, <1>4, SameBefore
  <1>6. \A u \in Written : Place(u)' = Place(u)
    BY <1>1, <1>5 DEF Place, Written
  <1>7. Listed' = Listed
    BY <1>1, <1>6 DEF Listed, Written
  <1>8. ReaderSound'
    BY <1>1 DEF ListingInv, ReaderSound, Shown
  <1>9. reader.pc = "reading" => ReadingSound'
    <2> SUFFICES ASSUME reader.pc = "reading" PROVE ReadingSound'
      OBVIOUS
    <2>1. \A u \in Written : Behind(u)' <=> Behind(u)
      BY <1>1, <1>6 DEF Behind
    <2>2. Shown \subseteq Written /\ ToSet(reader.first) \subseteq Written /\ Shown' = Shown
      BY <1>1 DEF ListingInv, ReaderSound, Shown
    <2>3. \A u \in ToSet(reader.first) : u \in Shown \/ Behind(u)'
      BY <2>1, <2>2 DEF ListingInv, ReadingSound
    <2>4. listing = "results" =>
            /\ \A u \in Written : u \in Shown \/ u \in reader.late \/ Behind(u)'
            /\ \A u \in Written : ~Behind(u)' => \E v \in Shown : StampOf(u)' <= StampOf(v)'
      BY <1>4, <2>1, <2>2 DEF ListingInv, ReadingSound
    <2> QED
      BY <1>1, <1>7, <2>2, <2>3, <2>4 DEF ListingInv, ReadingSound
  <1>11. Rear'
    <2>1. Shown \subseteq Written /\ ToSet(reader.first) \subseteq Written /\ Shown' = Shown
      BY <1>1 DEF ListingInv, ReaderSound, Shown
    <2> QED
      BY <1>1, <1>5, <2>1 DEF ListingInv, Rear
  <1>10. PagesComplete'
    BY <1>1, <1>11 DEF ListingInv, PagesComplete, Rear, Shown
  <1> QED
    BY <1>1, <1>3, <1>8, <1>9, <1>10, <1>11 DEF ListingInv

LEMMA CommitStep ==
  ASSUME ListingInv, NEW w \in Row, Commit(w)
  PROVE  ListingInv'
  <1>1. /\ RowsSound /\ ReaderSound /\ w \in ToSet(stamped) /\ w \notin Written
        /\ written' = Append(written, w)
        /\ listing' = listing /\ stamped' = stamped
    BY DEF Commit, ListingInv, Written
  <1>2. /\ written' \in Seq(Row) /\ Once(written') /\ Written' = Written \cup {w}
        /\ \A n \in 1 .. Len(written) : written'[n] = written[n]
        /\ Len(written') = Len(written) + 1 /\ Len(written) \in Nat
        /\ DOMAIN written = 1 .. Len(written) /\ DOMAIN written' = 1 .. Len(written) + 1
    <2>1. written \in Seq(Row) /\ Once(written)
      BY <1>1 DEF RowsSound
    <2> QED
      BY <1>1, <2>1, AppendedOnce DEF Written
  <1>3. RowsSound'
    BY <1>1, <1>2 DEF RowsSound
  <1>4. ASSUME NEW u \in Written PROVE StampOf(u)' = StampOf(u) /\ WriteOf(u)' = WriteOf(u)
    <2>1. WriteOf(u) \in DOMAIN written /\ written[WriteOf(u)] = u
      BY <1>1, WriteFacts
    <2>2. WriteOf(u)' \in DOMAIN written' /\ written'[WriteOf(u)'] = u
      <3>1. \E n \in DOMAIN written' : written'[n] = u
        BY <1>2, <2>1
      <3> QED
        BY <3>1 DEF WriteOf
    <2>3. WriteOf(u) \in DOMAIN written' /\ written'[WriteOf(u)] = u
      BY <1>2, <2>1
    <2>4. WriteOf(u)' = WriteOf(u)
      BY <1>2, <2>2, <2>3 DEF Once
    <2> QED
      BY <1>1, <2>4 DEF StampOf
  <1>5. StampOf(w)' = StampOf(w) /\ \A u \in Written' : StampOf(u) \in Nat
    BY <1>1, <1>2, StampFacts DEF StampOf, RowsSound
  <1>6. \A u, v \in Written : Before(u, v)' <=> Before(u, v)
    BY <1>1, <1>4, SameBefore
  <1>7. ASSUME NEW u \in Written PROVE Place(u) <= Place(u)' /\ Place(u)' \in Nat /\ Place(u) \in Nat
    <2> DEFINE old == {v \in Written : Before(v, u)}
               new == {v \in Written' : Before(v, u)'}
    <2>1. old \subseteq new
      BY <1>2, <1>6
    <2>2. IsFiniteSet(Written) /\ IsFiniteSet(Written')
      BY <1>1, <1>2, PlaceFacts, FS_AddElement
    <2>3. IsFiniteSet(old) /\ IsFiniteSet(new) /\ Cardinality(old) \in Nat /\ Cardinality(new) \in Nat
      BY <2>2, FS_Subset, FS_CardinalityType
    <2>4. Cardinality(old) <= Cardinality(new)
      BY <2>1, <2>3, FS_Subset
    <2>5. Place(u) = 1 + Cardinality(old) /\ Place(u)' = 1 + Cardinality(new)
      BY DEF Place, Written
    <2> HIDE DEF old, new
    <2> QED
      BY <2>3, <2>4, <2>5
  <1>8. /\ reader' \in ReaderType /\ reader'.pc = reader.pc /\ reader'.cursor = reader.cursor
        /\ reader'.shown = reader.shown /\ reader'.first = reader.first /\ reader'.last = reader.last
        /\ reader'.full = reader.full /\ reader.late \subseteq reader'.late
        /\ reader.cursor \in Nat
        /\ (\E u \in Shown : StampOf(u) > StampOf(w)) => w \in reader'.late
    <2>1. reader' = [reader EXCEPT
            !.late = IF \E u \in Shown : StampOf(u) > StampOf(w) THEN @ \cup {w} ELSE @]
      BY DEF Commit, Shown
    <2>2. reader \in ReaderType
      BY <1>1 DEF ReaderSound
    <2>3. PICK late \in SUBSET Row :
            /\ reader' = [reader EXCEPT !.late = late] /\ reader.late \subseteq late
            /\ (\E u \in Shown : StampOf(u) > StampOf(w)) => w \in late
      <3>1. CASE \E u \in Shown : StampOf(u) > StampOf(w)
        <4>1. PICK late : late = reader.late \cup {w}
          OBVIOUS
        <4>2. late \in SUBSET Row /\ reader.late \subseteq late /\ w \in late
          BY <2>2, <4>1 DEF ReaderType
        <4>3. reader' = [reader EXCEPT !.late = late]
          BY <2>1, <3>1, <4>1
        <4> QED
          BY <4>2, <4>3
      <3>2. CASE ~\E u \in Shown : StampOf(u) > StampOf(w)
        <4>1. reader' = [reader EXCEPT !.late = reader.late]
          BY <2>1, <3>2
        <4> QED
          BY <2>2, <3>2, <4>1 DEF ReaderType
      <3> QED
        BY <3>1, <3>2
    <2> QED
      BY <2>2, <2>3 DEF ReaderType
  <1>9. ReaderSound'
    <2>1. Shown' = Shown
      BY <1>8 DEF Shown
    <2>2. Len(reader.first) \in Nat
      BY <1>1 DEF ReaderSound, ReaderType
    <2> QED
      BY <1>1, <1>2, <1>8, <2>1, <2>2 DEF ReaderSound
  <1>10. ASSUME reader.pc = "reading" PROVE ReadingSound'
    <2>1. Shown' = Shown /\ Shown \subseteq Written /\ ToSet(reader.first) \subseteq Written
      BY <1>1, <1>8 DEF Shown, ReaderSound
    <2>2. \A u \in Written : Behind(u) => Behind(u)'
      BY <1>7, <1>8 DEF Behind
    <2>3. \A u \in ToSet(reader.first) : u \in Shown \/ Behind(u)'
      BY <1>10, <2>1, <2>2 DEF ListingInv, ReadingSound
    <2>4. Len(reader'.first) # Len(written')
      <3>1. Len(reader.first) \in Nat
        BY <1>1 DEF ReaderSound, ReaderType
      <3> QED
        BY <1>1, <1>2, <1>8, <3>1 DEF ReaderSound
    <2>5. ASSUME listing = "results", NEW u \in Written', ~Behind(u)'
          PROVE  \E v \in Shown : StampOf(u) <= StampOf(v)
      <3>1. CASE u \in Written
        BY <1>10, <2>2, <2>5, <3>1 DEF ListingInv, ReadingSound
      <3>2. CASE u = w
        <4> DEFINE c == reader.cursor
                   prior == {v \in Written' : Before(v, w)'}
        <4>1. IsFiniteSet(Written) /\ IsFiniteSet(Written')
          BY <1>1, <1>2, PlaceFacts, FS_AddElement
        <4>2. IsFiniteSet(prior) /\ Cardinality(prior) \in Nat /\ Place(w)' = 1 + Cardinality(prior)
          BY <4>1, FS_Subset, FS_CardinalityType DEF Place, Written
        <4>3. Cardinality(prior) < c /\ c \in 1 .. Len(written)
          <5>1. ~(Place(w)' > c)
            BY <1>8, <2>5, <3>2 DEF Behind
          <5> HIDE DEF prior
          <5>2. c <= Len(written)
            BY <1>1 DEF ReaderSound
          <5> QED
            BY <1>2, <1>8, <4>2, <5>1, <5>2
        <4>4. PICK y \in Written : Place(y) = c
          BY <1>1, <4>3, ListedFacts
        <4>5. ASSUME StampOf(y) < StampOf(w) PROVE FALSE
          <5> DEFINE earlier == {v \in Written : Before(v, y)}
          <5>1. earlier \cup {y} \subseteq prior
            <6>1. \A v \in Written : Before(v, w)' <=> StampOf(v) < StampOf(w)
              BY <1>1, <1>4, <1>5, <2>5 DEF Before
            <6>2. \A v \in Written : Before(v, y) <=> StampOf(v) < StampOf(y)
              BY <2>5 DEF Before
            <6>3. \A v \in Written : StampOf(v) \in Nat
              BY <1>2, <1>5
            <6>4. StampOf(w) \in Nat
              BY <1>2, <1>5
            <6> QED
              BY <1>2, <4>5, <6>1, <6>2, <6>3, <6>4
          <5>2. IsFiniteSet(earlier) /\ Cardinality(earlier) \in Nat /\ c = 1 + Cardinality(earlier)
            BY <4>1, <4>4, FS_Subset, FS_CardinalityType DEF Place, Written
          <5>3. y \notin earlier
            BY <1>1, OrderFacts DEF Ordered
          <5>4. Cardinality(earlier \cup {y}) = Cardinality(earlier) + 1
            BY <5>2, <5>3, FS_AddElement
          <5>5. Cardinality(earlier \cup {y}) <= Cardinality(prior)
            BY <4>2, <5>1, FS_Subset
          <5> HIDE DEF earlier, prior, c
          <5> QED
            BY <4>2, <4>3, <5>2, <5>4, <5>5
        <4>6. ~Behind(y)
          BY <1>8, <4>4 DEF Behind
        <4>7. PICK v \in Shown : StampOf(y) <= StampOf(v)
          BY <1>10, <2>5, <4>6 DEF ListingInv, ReadingSound
        <4>8. StampOf(w) \in Nat /\ StampOf(y) \in Nat /\ StampOf(v) \in Nat
          BY <1>2, <1>5, <2>1
        <4>9. StampOf(w) <= StampOf(v)
          BY <4>5, <4>7, <4>8
        <4> QED
          BY <3>2, <4>9
      <3> QED
        BY <1>2, <3>1, <3>2
    <2>6. ASSUME listing = "results", NEW u \in Written'
          PROVE  u \in Shown \/ u \in reader'.late \/ Behind(u)'
      <3>1. CASE u \in Written
        BY <1>8, <1>10, <2>2, <2>6, <3>1 DEF ListingInv, ReadingSound
      <3>2. CASE u = w /\ ~Behind(u)'
        <4>1. PICK v \in Shown : StampOf(w) <= StampOf(v)
          BY <2>5, <2>6, <3>2
        <4>2. v # w /\ v \in ToSet(stamped) /\ w \in ToSet(stamped)
          BY <1>1, <2>1 DEF RowsSound
        <4>3. StampOf(v) # StampOf(w) /\ StampOf(v) \in Nat /\ StampOf(w) \in Nat
          BY <1>1, <4>2, StampFacts
        <4>4. StampOf(v) > StampOf(w)
          BY <4>1, <4>3
        <4> QED
          BY <1>8, <3>2, <4>4
      <3> QED
        BY <1>2, <3>1, <3>2
    <2>7. \A u \in Written' : StampOf(u)' = StampOf(u)
      BY <1>2, <1>4, <1>5
    <2>8. listing = "results" =>
            /\ \A u \in Written' : u \in Shown' \/ u \in reader'.late \/ Behind(u)'
            /\ \A u \in Written' : ~Behind(u)' => \E v \in Shown' : StampOf(u)' <= StampOf(v)'
      BY <1>2, <2>1, <2>5, <2>6, <2>7
    <2>9. reader'.cursor = 0 => reader'.first = << >>
      BY <1>8, <1>10 DEF ListingInv, ReadingSound
    <2> QED
      BY <1>1, <1>8, <2>1, <2>3, <2>4, <2>8, <2>9 DEF ReadingSound
  <1>12. Rear'
    <2>1. Shown' = Shown /\ Shown \subseteq Written /\ ToSet(reader.first) \subseteq Written
      BY <1>1, <1>8 DEF Shown, ReaderSound
    <2> QED
      BY <1>6, <1>8, <2>1 DEF ListingInv, Rear
  <1>11. PagesComplete'
    BY <1>1, <1>8, <1>12 DEF ListingInv, PagesComplete, Rear, Shown
  <1> QED
    BY <1>3, <1>8, <1>9, <1>10, <1>11, <1>12 DEF ListingInv

LEMMA ReadPageStep ==
  ASSUME ListingInv, NEW limit \in 1 .. MaxPageSize, ReadPage(limit)
  PROVE  ListingInv'
  <1> DEFINE c == reader.cursor
             E == Emitted(limit)
             k == Len(E)
             N == Len(written)
             L == Listed
  <1>1. /\ RowsSound /\ ReaderSound /\ ReadingSound /\ reader.pc = "reading" /\ reader \in ReaderType
        /\ listing' = listing /\ stamped' = stamped /\ written' = written /\ Written' = Written
    BY DEF ReadPage, ListingInv, Written, ReaderSound
  <1>2. reader' = [pc |-> IF HasMore(limit) THEN "reading" ELSE "done", cursor |-> c + k,
                   shown |-> reader.shown \o E, first |-> IF c = 0 THEN L ELSE reader.first,
                   last |-> L, full |-> (k = StoreLimit[listing]), late |-> reader.late]
    <2>1. PICK pc : pc = IF HasMore(limit) THEN "reading" ELSE "done"
      OBVIOUS
    <2>2. PICK cursor : cursor = c + k
      OBVIOUS
    <2>3. PICK shown : shown = reader.shown \o E
      OBVIOUS
    <2>4. PICK first : first = IF c = 0 THEN L ELSE reader.first
      OBVIOUS
    <2>5. PICK last : last = L
      OBVIOUS
    <2>8. PICK full : full = (k = StoreLimit[listing])
      OBVIOUS
    <2>6. reader' = [reader EXCEPT !.pc = pc, !.cursor = cursor, !.shown = shown,
                                   !.first = first, !.last = last, !.full = full]
      BY <2>1, <2>2, <2>3, <2>4, <2>5, <2>8 DEF ReadPage, NextCursor
    <2>7. reader' = [pc |-> pc, cursor |-> cursor, shown |-> shown, first |-> first, last |-> last,
                     full |-> full, late |-> reader.late]
      BY <1>1, <2>6 DEF ReaderType
    <2> HIDE DEF E, L, c, k
    <2> QED
      BY <2>1, <2>2, <2>3, <2>4, <2>5, <2>7, <2>8
  <1>3. /\ L \in Seq(Written) /\ Len(L) = N /\ DOMAIN L = 1 .. N /\ N \in Nat
        /\ \A n \in 1 .. N : L[n] \in Written /\ Place(L[n]) = n
        /\ \A w \in Written : Place(w) \in 1 .. N /\ L[Place(w)] = w
    BY <1>1, ListedFacts, PlaceFacts
  <1>4. /\ k \in Nat /\ c + k <= N /\ c \in Nat
        /\ E = SubSeq(L, c + 1, c + k)
        /\ HasMore(limit) => k > 0
        /\ ~HasMore(limit) => c + k = N \/ (listing = "events" /\ k = StoreLimit[listing])
    BY <1>1, PageFacts DEF ReaderType
  <1>5. /\ reader.shown \in Seq(Row) /\ Len(reader.shown) = c /\ reader.first \in Seq(Row)
        /\ Shown \subseteq Written /\ ToSet(reader.first) \subseteq Written
        /\ Len(reader.first) <= N /\ Written \subseteq Row
    <2>1. written \in Seq(Row) /\ DOMAIN written = 1 .. N
      BY <1>1 DEF RowsSound
    <2>2. Written \subseteq Row
      BY <2>1 DEF Written, ToSet
    <2> QED
      BY <1>1, <2>2 DEF ReaderSound, ReaderType
  <1> DEFINE S == reader.shown \o E
  <1> HIDE DEF E, L, k, c, N
  <1>6. /\ E \in Seq(Written) /\ DOMAIN E = 1 .. k
        /\ \A n \in 1 .. k : E[n] = L[c + n] /\ E[n] \in Written
    <2>1. c + 1 \in 1 .. N + 1 /\ c + k \in 0 .. N /\ c + k >= c
      BY <1>3, <1>4
    <2>2. /\ SubSeq(L, c + 1, c + k) \in Seq(Written)
          /\ Len(SubSeq(L, c + 1, c + k)) = k
          /\ \A n \in 1 .. k : SubSeq(L, c + 1, c + k)[n] = L[c + n]
      BY <1>3, <1>4, <2>1
    <2>3. E \in Seq(Written) /\ Len(E) = k /\ \A n \in 1 .. k : E[n] = L[c + n]
      BY <1>4, <2>2
    <2>4. DOMAIN E = 1 .. k
      BY <2>3
    <2>5. \A n \in 1 .. k : E[n] \in Written
      BY <2>3, <2>4
    <2> QED
      BY <2>3, <2>4, <2>5
  <1>7. L \in Seq(Row) /\ E \in Seq(Row)
    <2>1. \A n \in DOMAIN L : L[n] \in Row
      BY <1>3, <1>5
    <2>2. \A n \in DOMAIN E : E[n] \in Row
      <3> SUFFICES ASSUME NEW n \in DOMAIN E PROVE E[n] \in Row
        OBVIOUS
      <3> QED
        BY <1>5, <1>6
    <2> QED
      BY <1>3, <1>6, <2>1, <2>2
  <1>8. /\ S \in Seq(Row) /\ Len(S) = c + k /\ ToSet(S) = Shown \cup ToSet(E)
        /\ \A n \in 1 .. c : S[n] = reader.shown[n]
        /\ \A n \in 1 .. k : S[c + n] = E[n]
    <2> DEFINE r == reader.shown
    <2>1. r \in Seq(Row) /\ Len(r) = c /\ Len(E) = k /\ Shown = ToSet(r) /\ DOMAIN r = 1 .. c
      BY <1>4, <1>5 DEF k, Shown
    <2>0. c \in Nat /\ k \in Nat /\ E \in Seq(Row)
      BY <1>4, <1>7
    <2> HIDE DEF r
    <2>2. /\ r \o E \in Seq(Row) /\ Len(r \o E) = c + k /\ DOMAIN (r \o E) = 1 .. c + k
          /\ \A n \in 1 .. c : (r \o E)[n] = r[n]
          /\ \A n \in 1 .. k : (r \o E)[c + n] = E[n]
      BY <2>0, <2>1
    <2>3. \A n \in 1 .. c + k : n \in 1 .. c \/ (n - c \in 1 .. k /\ n = c + (n - c))
      BY <1>4
    <2>4. \A n \in 1 .. k : c + n \in 1 .. c + k
      BY <1>4
    <2>5. \A n \in 1 .. c : n \in 1 .. c + k
      BY <1>4
    <2>6. ToSet(r \o E) \subseteq ToSet(r) \cup ToSet(E)
      <3> SUFFICES ASSUME NEW n \in 1 .. c + k PROVE (r \o E)[n] \in ToSet(r) \cup ToSet(E)
        BY <2>2 DEF ToSet
      <3>1. CASE n \in 1 .. c
        BY <2>1, <2>2, <3>1 DEF ToSet
      <3>2. CASE n \notin 1 .. c
        <4>1. (r \o E)[n] = E[n - c] /\ n - c \in DOMAIN E
          BY <1>6, <2>2, <2>3, <3>2
        <4> QED
          BY <4>1 DEF ToSet
      <3> QED
        BY <3>1, <3>2
    <2>7. ToSet(r) \cup ToSet(E) \subseteq ToSet(r \o E)
      <3>1. \A n \in 1 .. c : r[n] \in ToSet(r \o E)
        BY <2>2, <2>5 DEF ToSet
      <3>2. \A n \in 1 .. k : E[n] \in ToSet(r \o E)
        BY <2>2, <2>4 DEF ToSet
      <3> QED
        BY <1>6, <2>1, <3>1, <3>2 DEF ToSet
    <2> QED
      BY <2>1, <2>2, <2>6, <2>7 DEF r
  <1> HIDE DEF S
  \* The rows of the page are those at the places after the cursor.
  <1>9. \A w \in Written : w \in ToSet(E) <=> (c < Place(w) /\ Place(w) <= c + k)
    <2>1. ASSUME NEW w \in ToSet(E) PROVE c < Place(w) /\ Place(w) <= c + k
      <3>1. PICK n \in 1 .. k : w = L[c + n]
        BY <1>6 DEF ToSet
      <3>2. c + n \in 1 .. N
        BY <1>3, <1>4
      <3>3. Place(w) = c + n
        BY <1>3, <3>1, <3>2
      <3> QED
        BY <1>4, <3>3
    <2>2. ASSUME NEW w \in Written, c < Place(w), Place(w) <= c + k PROVE w \in ToSet(E)
      <3>1. Place(w) \in Nat /\ L[Place(w)] = w
        BY <1>3
      <3>0. PICK p \in Nat : p = Place(w)
        BY <3>1
      <3>2. Place(w) - c \in 1 .. k /\ c + (Place(w) - c) = Place(w)
        BY <1>4, <2>2, <3>0
      <3>3. E[Place(w) - c] = w /\ Place(w) - c \in DOMAIN E
        BY <1>6, <3>1, <3>2
      <3> QED
        BY <3>3 DEF ToSet
    <2> QED
      BY <2>1, <2>2
  <1>10. ToSet(E) \subseteq Written
    <2>1. \A n \in DOMAIN E : E[n] \in Written
      BY <1>6
    <2> QED
      BY <2>1 DEF ToSet
  <1>11. /\ reader'.cursor = c + k /\ reader'.shown = S /\ reader'.last = L /\ reader'.late = reader.late
         /\ reader'.first = (IF c = 0 THEN L ELSE reader.first)
         /\ reader'.pc = (IF HasMore(limit) THEN "reading" ELSE "done")
         /\ reader'.full = (k = StoreLimit[listing])
         /\ Shown' = Shown \cup ToSet(E)
    BY <1>2, <1>8 DEF S, Shown
  <1>12. Len(L) = N /\ Len(written) = N /\ ToSet(L) \subseteq Written
    BY <1>3 DEF N, ToSet
  <1>13. \A u, w \in Written : Before(u, w)' <=> Before(u, w)
    BY <1>1 DEF Before, StampOf, WriteOf
  <1>14. (\A w \in Written : Place(w)' = Place(w)) /\ Listed' = L
    <2>1. \A w \in Written : Place(w)' = Place(w)
      BY <1>1, <1>13 DEF Place, Written
    <2> QED
      BY <1>1, <2>1 DEF Listed, Written, L
  <1>15. \A w \in Written : StampOf(w)' = StampOf(w)
    BY <1>1 DEF StampOf
  <1>16. RowsSound'
    BY <1>1 DEF RowsSound
  <1>17. ReaderSound'
    <2>1. reader.late \in SUBSET Row
      BY <1>1 DEF ReaderType
    <2>2. reader' \in ReaderType
      <3>1. /\ reader'.pc \in {"reading", "done"} /\ reader'.cursor \in Nat /\ reader'.shown \in Seq(Row)
            /\ reader'.first \in Seq(Row) /\ reader'.last \in Seq(Row) /\ reader'.late \in SUBSET Row
            /\ reader'.full \in BOOLEAN
        <4>1. reader'.pc \in {"reading", "done"}
          BY <1>11
        <4>2. reader'.cursor \in Nat
          BY <1>4, <1>11
        <4>3. reader'.first \in Seq(Row)
          BY <1>5, <1>7, <1>11
        <4> QED
          BY <1>7, <1>8, <1>11, <2>1, <4>1, <4>2, <4>3
      <3>2. reader' = [pc |-> reader'.pc, cursor |-> reader'.cursor, shown |-> reader'.shown,
                       first |-> reader'.first, last |-> reader'.last, full |-> reader'.full,
                       late |-> reader'.late]
        BY <1>2
      <3> QED
        BY <3>1, <3>2 DEF ReaderType
    <2>3. ToSet(reader'.first) \subseteq Written /\ Len(reader'.first) <= N
      BY <1>3, <1>5, <1>11, <1>12
    <2> QED
      BY <1>1, <1>4, <1>5, <1>8, <1>10, <1>11, <1>12, <2>2, <2>3 DEF ReaderSound
  \* What was behind the cursor is in the page or behind the next cursor.
  <1>18. ASSUME NEW w \in Written, Behind(w) PROVE w \in ToSet(E) \/ Behind(w)'
    <2>1. Place(w) > c /\ Place(w) \in Nat
      BY <1>3, <1>18 DEF Behind, c
    <2>2. Place(w)' = Place(w)
      BY <1>14
    <2> QED
      BY <1>4, <1>9, <1>11, <2>1, <2>2 DEF Behind
  <1>19. \A w \in ToSet(reader'.first) : w \in Shown' \/ Behind(w)'
    <2>1. CASE c = 0
      <3>1. ASSUME NEW w \in Written PROVE w \in Shown' \/ Behind(w)'
        <4>1. Behind(w)
          BY <1>3, <2>1 DEF Behind, c
        <4> QED
          BY <1>11, <1>18, <4>1
      <3> QED
        BY <1>11, <1>12, <2>1, <3>1
    <2>2. CASE c # 0
      BY <1>1, <1>5, <1>11, <1>18, <2>2 DEF ReadingSound
    <2> QED
      BY <2>1, <2>2
  <1>20. ASSUME Len(reader'.first) = N
         PROVE  reader'.first = L /\ S = SubSeq(L, 1, c + k)
    <2>1. reader'.first = L
      <3>1. CASE c = 0
        BY <1>11, <3>1
      <3>2. CASE c # 0
        <4>1. c > 0
          BY <1>4, <3>2
        <4> QED
          BY <1>1, <1>11, <1>12, <1>20, <3>2, <4>1 DEF ReadingSound, c, L
      <3> QED
        BY <3>1, <3>2
    <2>2. \A n \in 1 .. c : reader.shown[n] = L[n]
      <3> SUFFICES ASSUME NEW n \in 1 .. c PROVE reader.shown[n] = L[n]
        OBVIOUS
      <3>1. c > 0 /\ c # 0
        BY <1>4
      <3>2. reader.shown = SubSeq(L, 1, c)
        BY <1>1, <1>11, <1>12, <1>20, <3>1 DEF ReadingSound, c, L
      <3>3. c <= N
        BY <1>3, <1>4
      <3> QED
        BY <1>3, <1>4, <3>2, <3>3
    <2>3. \A n \in 1 .. c + k : S[n] = L[n]
      <3> SUFFICES ASSUME NEW n \in 1 .. c + k PROVE S[n] = L[n]
        OBVIOUS
      <3>1. CASE n \in 1 .. c
        BY <1>8, <2>2, <3>1
      <3>2. CASE n \notin 1 .. c
        <4>1. n - c \in 1 .. k /\ c + (n - c) = n
          BY <1>4, <3>2
        <4> QED
          BY <1>6, <1>8, <4>1
      <3> QED
        BY <3>1, <3>2
    <2>4. /\ SubSeq(L, 1, c + k) \in Seq(Row) /\ Len(SubSeq(L, 1, c + k)) = c + k
          /\ \A n \in 1 .. c + k : SubSeq(L, 1, c + k)[n] = L[n]
      <3>1. PICK m \in Nat : m = c + k /\ m <= N
        BY <1>4
      <3>2. L \in Seq(Row) /\ Len(L) = N /\ N \in Nat
        BY <1>3, <1>7
      <3>3. /\ SubSeq(L, 1, m) \in Seq(Row) /\ Len(SubSeq(L, 1, m)) = m
            /\ \A n \in 1 .. m : SubSeq(L, 1, m)[n] = L[n]
        BY <3>1, <3>2
      <3> QED
        BY <3>1, <3>3
    <2>5. S = SubSeq(L, 1, c + k)
      <3>1. \A n \in 1 .. c + k : S[n] = SubSeq(L, 1, c + k)[n]
        BY <2>3, <2>4
      <3> QED
        BY <1>8, <2>4, <3>1, SameSeq
    <2> QED
      BY <2>1, <2>5
  <1>21. ASSUME listing = "results", NEW w \in Written
         PROVE  /\ w \in Shown' \/ w \in reader'.late \/ Behind(w)'
                /\ ~Behind(w)' /\ k > 0 => \E u \in Shown' : StampOf(w) <= StampOf(u)
    <2>1. w \in Shown' \/ w \in reader'.late \/ Behind(w)'
      BY <1>1, <1>11, <1>18, <1>21 DEF ReadingSound
    <2>2. ASSUME ~Behind(w)', k > 0 PROVE \E u \in Shown' : StampOf(w) <= StampOf(u)
      <3>1. Place(w) \in Nat /\ Place(w) <= c + k
        BY <1>3, <1>4, <1>11, <1>14, <2>2 DEF Behind
      <3>2. c + k \in 1 .. N
        BY <1>3, <1>4, <2>2
      <3>3. PICK u \in Written : u = L[c + k] /\ Place(u) = c + k
        BY <1>3, <3>2
      <3>4. u \in ToSet(E)
        BY <1>4, <1>9, <2>2, <3>3
      <3>5. StampOf(u) \in Nat /\ StampOf(w) \in Nat
        BY <1>1, StampFacts DEF RowsSound
      <3>6. ~(StampOf(u) < StampOf(w))
        <4>1. Before(u, w) => Place(u) < Place(w)
          BY <1>1, PlaceFacts
        <4>2. StampOf(u) < StampOf(w) => Before(u, w)
          BY <1>21 DEF Before
        <4> QED
          BY <1>4, <3>1, <3>3, <4>1, <4>2
      <3>7. StampOf(w) <= StampOf(u)
        BY <3>5, <3>6
      <3> QED
        BY <1>11, <3>4, <3>7
    <2> QED
      BY <2>1, <2>2
  \* The rows shown before the page and those on it come before what is left of the first
  \* listing.
  <1>24. Rear'
    <2> SUFFICES ASSUME NEW u \in ToSet(reader'.first) \ Shown', NEW w \in Shown'
                 PROVE  Before(w, u)'
      BY DEF Rear
    <2>1. u \in Written /\ w \in Written /\ u \notin Shown
      BY <1>5, <1>10, <1>11, <1>12
    <2>2. Behind(u)'
      BY <1>19
    <2>3. Place(u) > c + k /\ Place(u) \in Nat /\ Place(w) \in Nat
      BY <1>3, <1>11, <1>14, <2>1, <2>2 DEF Behind
    <2>4. CASE w \in ToSet(E)
      <3>1. Place(w) <= c + k
        BY <1>9, <2>1, <2>4
      <3>2. u # w /\ ~(Place(u) < Place(w))
        BY <1>4, <2>3, <3>1
      <3> QED
        BY <1>1, <1>13, <2>1, <3>2, OrderFacts, PlaceFacts DEF Ordered
    <2>5. CASE w \in Shown
      <3>1. c # 0
        BY <1>5, <2>5 DEF Shown, ToSet
      <3> QED
        BY <1>11, <1>13, <2>1, <2>5, <3>1 DEF ListingInv, Rear
    <2> QED
      BY <1>11, <2>4, <2>5
  <1>22. CASE HasMore(limit)
    <2>1. reader'.pc = "reading" /\ k > 0 /\ reader'.cursor > 0
      BY <1>4, <1>11, <1>22
    <2>2. listing = "results" =>
            /\ \A w \in Written : w \in Shown' \/ w \in reader'.late \/ Behind(w)'
            /\ \A w \in Written : ~Behind(w)' => \E u \in Shown' : StampOf(w)' <= StampOf(u)'
      <3>1. Shown' \subseteq Written
        BY <1>5, <1>10, <1>11
      <3> QED
        BY <1>15, <1>21, <2>1, <3>1
    <2>3. ReadingSound'
      BY <1>1, <1>11, <1>12, <1>14, <1>19, <1>20, <2>1, <2>2 DEF ReadingSound
    <2>4. PagesComplete'
      BY <2>1 DEF PagesComplete
    <2> QED
      BY <1>16, <1>17, <1>24, <2>3, <2>4 DEF ListingInv
  <1>23. CASE ~HasMore(limit)
    <2>1. /\ reader'.pc = "done"
          /\ c + k = N \/ (listing = "events" /\ reader'.full)
      BY <1>4, <1>11, <1>23
    <2>2. c + k = N => \A w \in Written : ~Behind(w)'
      BY <1>3, <1>11, <1>14, <2>1 DEF Behind
    <2>3. ToSet(reader'.first) \subseteq Shown' \/ (listing = "events" /\ reader'.full)
      <3>1. ToSet(reader'.first) \subseteq Written
        BY <1>5, <1>11, <1>12
      <3> QED
        BY <1>19, <2>1, <2>2, <3>1
    <2>4. reader'.first = reader'.last =>
            reader'.shown = SubSeq(reader'.last, 1, Len(reader'.shown))
      BY <1>8, <1>11, <1>12, <1>20
    <2>5. listing = "results" => ToSet(reader'.last) \ Shown' \subseteq reader'.late
      BY <1>11, <1>12, <1>21, <2>1, <2>2
    <2>6. PagesComplete'
      BY <1>1, <1>24, <2>3, <2>4, <2>5 DEF PagesComplete, Rear, Shown
    <2> QED
      BY <1>16, <1>17, <1>24, <2>1, <2>6 DEF ListingInv
  <1> QED
    BY <1>22, <1>23

LEMMA InitListing ==
  ASSUME ListingInit
  PROVE  ListingInv
  <1>1. /\ listing \in {"results", "events", "deliveries"} /\ stamped = << >> /\ written = << >>
        /\ reader = [pc |-> "reading", cursor |-> 0, shown |-> << >>, first |-> << >>, last |-> << >>,
                     full |-> FALSE, late |-> {}]
    BY DEF ListingInit
  <1>2. Written = {} /\ Shown = {} /\ ToSet(reader.first) = {} /\ ToSet(stamped) = {}
    BY <1>1 DEF Written, Shown, ToSet
  <1>3. RowsSound
    BY <1>1, <1>2 DEF RowsSound, Once
  <1>4. ReaderSound
    BY <1>1, <1>2 DEF ReaderSound, ReaderType
  <1>5. ReadingSound
    BY <1>1, <1>2 DEF ReadingSound
  <1>6. Rear
    BY <1>2 DEF Rear
  <1> QED
    BY <1>1, <1>3, <1>4, <1>5, <1>6 DEF ListingInv, PagesComplete

THEOREM ListingInvariant == ListingSpec => []ListingInv
  <1>1. ListingInit => ListingInv
    BY InitListing
  <1>2. ListingInv /\ [ListingNext]_listingVars => ListingInv'
    <2> SUFFICES ASSUME ListingInv, [ListingNext]_listingVars PROVE ListingInv'
      OBVIOUS
    <2>1. CASE ListingNext
      BY <2>1, StampStep, CommitStep, ReadPageStep DEF ListingNext
    <2>2. CASE UNCHANGED listingVars
      <3>1. /\ listing' = listing /\ stamped' = stamped /\ written' = written /\ reader' = reader
        BY <2>2 DEF listingVars
      <3>2. \A u, w : Before(u, w)' <=> Before(u, w)
        BY <3>1 DEF Before, StampOf, WriteOf
      <3>3. \A w : Place(w)' = Place(w) /\ StampOf(w)' = StampOf(w)
        BY <3>1, <3>2 DEF Place, StampOf
      <3>4. Listed' = Listed
        BY <3>1, <3>3 DEF Listed
      <3>5. Rear' /\ PagesComplete'
        BY <3>1, <3>2 DEF ListingInv, Rear, PagesComplete, Shown
      <3> QED
        BY <3>1, <3>3, <3>4, <3>5
           DEF ListingInv, RowsSound, ReaderSound, ReadingSound, Written, Shown, Behind
    <2> QED
      BY <2>1, <2>2
  <1> QED
    BY <1>1, <1>2, PTL DEF ListingSpec

\* (PagesComplete) Whatever the sizes of rows and pages, up to the largest the configuration
\* admits, and however many rows are written meanwhile, a client that follows the cursors to
\* the end has been shown every row that there was at the beginning, unless it read events
\* and ended with a page of as many as one call returns; then it misses older events only.
\* Of later results it misses none but ones stamped before a row it had seen (_bounded_page,
\* paged_job_values).
THEOREM PagesAreComplete == ListingSpec => []PagesComplete
  <1>1. ListingInv => PagesComplete
    BY DEF ListingInv
  <1> QED
    BY <1>1, ListingInvariant, PTL
=============================================================================
