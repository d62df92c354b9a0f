-------------------------- MODULE DeliveryProofs --------------------------
(* Theorems about Delivery, for any number of rows, sinks, slots and groups. *)
EXTENDS Delivery, FiniteSetTheorems, TLAPS

(***************************************************************************)
(* The invariant, in three parts.  OutboxSound is about rows and the slots *)
(* that work on them: the token of a running row is the number of its      *)
(* attempts, and no two slots work on a row under one token, even after    *)
(* they have lost it.  FileSound is about the JSONL file: who works on it  *)
(* has locked it, and one piece at most shows a record; and about Redis:   *)
(* a script pushes together with its marker.  PhasesSound says what a slot *)
(* that has come so far has brought its sink to hold.                      *)
(***************************************************************************)
RowSound(r) ==
  /\ r.status = "pending" => r.attempts < MaxAttempts
  /\ r.status = "dead_letter" => r.attempts = MaxAttempts
  /\ r.status = "running" => r.attempts \in 1 .. MaxAttempts /\ r.token = r.attempts
Works(s) ==
  /\ slot[s].delivery \in Delivery
  /\ row[slot[s].delivery].status # "absent"
  /\ slot[s].token \in 1 .. row[slot[s].delivery].attempts
OutboxSound ==
  /\ \A d \in Delivery : RowSound(row[d])
  /\ \A s \in Slot : Busy(s) => Works(s)
  /\ \A s, t \in Slot :
       (Busy(s) /\ Busy(t) /\ slot[s].delivery = slot[t].delivery /\ slot[s].token = slot[t].token)
         => s = t

Locked(s) == slot[s].phase \in {"locked", "written", "receipted"}
ScriptSound(d) ==
  \A g \in Group : pushed[d][g] = IF d \in marker /\ g \in Pushable(d) THEN 1 ELSE 0
FileSound ==
  /\ \A s \in Slot : Locked(s) <=> lock = s
  /\ \A d \in Delivery, m, n \in DOMAIN file :
       m \in Shown(d) /\ n \in Shown(d) => m = n
  /\ \A d \in receipt : InFile(d)
  /\ \A d \in Delivery : ScriptSound(d)

Published(d) ==
  \/ SinkOf[d] = "jsonl" /\ d \in receipt
  \/ SinkOf[d] = "legacy_redis" /\ d \in marker
  \/ SinkOf[d] = "legacy_mysql" /\ inserted[d] = DOMAIN Holds[d]
PhaseSound(s) ==
  LET d == slot[s].delivery IN
  /\ Locked(s) => SinkOf[d] = "jsonl"
  /\ At(s, "written") => InFile(d)
  /\ At(s, "receipted") => d \in receipt
  /\ At(s, "claimed") =>
       /\ slot[s].table = 0 \/ slot[s].table < Len(Holds[d])
       /\ SinkOf[d] = "legacy_mysql" => 1 .. slot[s].table \subseteq inserted[d]
  /\ At(s, "published") => Published(d)
PhasesSound ==
  /\ \A s \in Slot : PhaseSound(s)
  /\ \A d \in Delivery : row[d].status = "delivered" => Published(d)

Inv == TypeOK /\ OutboxSound /\ FileSound /\ PhasesSound

-----------------------------------------------------------------------------
(* Rows *)

LEMMA RowFields ==
  ASSUME NEW r \in Row
  PROVE  /\ r.status \in {"absent", "pending", "running", "delivered", "dead_letter"}
         /\ r.attempts \in 0 .. MaxAttempts /\ r.attempts \in Nat /\ MaxAttempts \in Nat \ {0}
         /\ r.token \in Nat /\ r.expired \in BOOLEAN /\ r.ready \in BOOLEAN /\ r.created \in Nat
  BY BoundAssumption DEF Row

\* A row is given back with a status and stays a row.
LEMMA ReleasedRow ==
  \A r \in Row, status \in {"pending", "delivered", "dead_letter"}, ready \in BOOLEAN :
    /\ Released(r, status, ready) \in Row
    /\ Released(r, status, ready).status = status
    /\ Released(r, status, ready).attempts = r.attempts
  BY DEF Released, Row

\* The status a row gets back is right for its attempts.
WellRequeued(r, ready) ==
  LET x == Released(r, Requeued(r), ready) IN
  /\ Requeued(r) \in {"pending", "dead_letter"}
  /\ x \in Row /\ x.status = Requeued(r) /\ x.attempts = r.attempts
  /\ RowSound(x)

LEMMA RequeuedRow == \A r \in Row, ready \in BOOLEAN : WellRequeued(r, ready)
  <1> SUFFICES ASSUME NEW r \in Row, NEW ready \in BOOLEAN
               PROVE  WellRequeued(r, ready)
    OBVIOUS
  <1>1. Requeued(r) = "pending" \/ Requeued(r) = "dead_letter"
    BY DEF Requeued
  <1>2. /\ Released(r, Requeued(r), ready) \in Row
        /\ Released(r, Requeued(r), ready).status = Requeued(r)
        /\ Released(r, Requeued(r), ready).attempts = r.attempts
    <2>1. CASE Requeued(r) = "pending"
      BY <2>1, ReleasedRow
    <2>2. CASE Requeued(r) = "dead_letter"
      BY <2>2, ReleasedRow
    <2> QED BY <1>1, <2>1, <2>2
  <1>3. RowSound(Released(r, Requeued(r), ready))
    BY <1>1, <1>2, RowFields DEF Requeued, RowSound
  <1> QED BY <1>1, <1>2, <1>3 DEF WellRequeued

\* Recovery gives rows back and changes nothing else.
LEMMA Recovered ==
  ASSUME TypeOK, OutboxSound
  PROVE  /\ Recover(row) \in [Delivery -> Row]
         /\ \A d \in Delivery :
              /\ RowSound(Recover(row)[d])
              /\ Recover(row)[d].attempts = row[d].attempts
              /\ Recover(row)[d].status = "absent" <=> row[d].status = "absent"
              /\ Recover(row)[d].status = "delivered" => row[d].status = "delivered"
  <1> SUFFICES ASSUME NEW d \in Delivery
               PROVE  /\ Recover(row)[d] \in Row
                      /\ RowSound(Recover(row)[d])
                      /\ Recover(row)[d].attempts = row[d].attempts
                      /\ Recover(row)[d].status = "absent" <=> row[d].status = "absent"
                      /\ Recover(row)[d].status = "delivered" => row[d].status = "delivered"
    BY DEF Recover
  <1>1. row[d] \in Row /\ RowSound(row[d])
    BY DEF TypeOK, OutboxSound
  <1>2. CASE row[d].status = "running" /\ row[d].expired
    <2>1. Recover(row)[d] = Released(row[d], Requeued(row[d]), TRUE)
      BY <1>2 DEF Recover
    <2>2. WellRequeued(row[d], TRUE)
      BY <1>1, RequeuedRow
    <2>3. /\ Requeued(row[d]) \in {"pending", "dead_letter"}
          /\ Recover(row)[d] \in Row
          /\ Recover(row)[d].status = Requeued(row[d])
          /\ Recover(row)[d].attempts = row[d].attempts
          /\ RowSound(Recover(row)[d])
      BY <2>1, <2>2 DEF WellRequeued
    <2> QED BY <1>2, <2>3
  <1>3. CASE ~(row[d].status = "running" /\ row[d].expired)
    BY <1>1, <1>3 DEF Recover
  <1> QED BY <1>2, <1>3

\* What becomes of rows when nobody claims: they keep or get a sound state, and whoever
\* still works on one did so before.
LEMMA OutboxKept ==
  ASSUME TypeOK, OutboxSound,
         \A d \in Delivery : /\ RowSound(row'[d])
                             /\ row[d].status # "absent" =>
                                  row'[d].status # "absent" /\ row'[d].attempts = row[d].attempts,
         \A s \in Slot : Busy(s)' => /\ Busy(s)
                                     /\ slot'[s].delivery = slot[s].delivery
                                     /\ slot'[s].token = slot[s].token
  PROVE  OutboxSound'
  <1>1. \A s \in Slot : Busy(s)' => Works(s)'
    BY DEF OutboxSound, Works
  <1>2. \A s, t \in Slot :
          (Busy(s)' /\ Busy(t)' /\ slot'[s].delivery = slot'[t].delivery
             /\ slot'[s].token = slot'[t].token) => s = t
    BY DEF OutboxSound
  <1> QED BY <1>1, <1>2 DEF OutboxSound, RowSound

-----------------------------------------------------------------------------
(* Types *)

LEMMA SlotFields ==
  ASSUME TypeOK, NEW s \in Slot
  PROVE  /\ slot[s] \in SlotRow /\ slot[s].token \in Nat /\ slot[s].table \in Nat
         /\ slot[s].delivery \in Delivery \cup {NoDelivery}
         /\ slot[s].phase \in Publishing \cup {"idle", "down", "published", "failing"}
  BY DEF TypeOK, SlotRow

\* A slot that changes its phase only keeps its type.
LEMMA MovedType ==
  ASSUME TypeOK, NEW s \in Slot,
         NEW phase \in Publishing \cup {"idle", "down", "published", "failing"}, Move(s, phase)
  PROVE  /\ slot' \in [Slot -> SlotRow]
         /\ \A t \in Slot : t # s => slot'[t] = slot[t]
         /\ slot'[s] = [slot[s] EXCEPT !.phase = phase]
  BY DEF TypeOK, Move, SlotRow

LEMMA IdleType == Idle \in SlotRow /\ Down \in SlotRow
  BY BoundAssumption DEF Idle, Down, SlotRow, Publishing

LEMMA SlotSetType ==
  ASSUME TypeOK, NEW s \in Slot, NEW x \in SlotRow, slot' = [slot EXCEPT ![s] = x]
  PROVE  /\ slot' \in [Slot -> SlotRow] /\ slot'[s] = x
         /\ \A t \in Slot : t # s => slot'[t] = slot[t]
  BY DEF TypeOK

LEMMA RowSetType ==
  ASSUME TypeOK, NEW d \in Delivery, NEW x \in Row, row' = [row EXCEPT ![d] = x]
  PROVE  /\ row' \in [Delivery -> Row] /\ row'[d] = x
         /\ \A e \in Delivery : e # d => row'[e] = row[e]
  BY DEF TypeOK

-----------------------------------------------------------------------------
(* Sinks: what they hold only grows, and a slot that has done nothing with *)
(* one keeps the invariant.                                                *)

LEMMA FileGrows ==
  ASSUME TypeOK, NEW d,
         \A n \in DOMAIN file : n \in DOMAIN file' /\ file'[n] = file[n]
  PROVE  InFile(d) => InFile(d)'
  BY DEF InFile

LEMMA ScriptKept ==
  ASSUME Inv, UNCHANGED <<pushed, marker>>
  PROVE  \A d \in Delivery : ScriptSound(d)'
  BY DEF Inv, FileSound, ScriptSound

\* The file as it was.
LEMMA FileKept ==
  ASSUME Inv, UNCHANGED file, \A s \in Slot : Locked(s)' <=> lock' = s,
         \A d \in receipt' : InFile(d), \A d \in Delivery : ScriptSound(d)'
  PROVE  FileSound'
  <1>1. \A d \in Delivery, m, n \in DOMAIN file' : m \in Shown(d)' /\ n \in Shown(d)' => m = n
    BY DEF Inv, FileSound, Shown
  <1>2. \A d \in receipt' : InFile(d)'
    BY DEF InFile
  <1> QED BY <1>1, <1>2 DEF FileSound

LEMMA PublishedStays ==
  ASSUME TypeOK, NEW d \in Delivery, Published(d),
         receipt \subseteq receipt', marker \subseteq marker', inserted[d] \subseteq inserted'[d],
         inserted'[d] \subseteq DOMAIN Holds[d]
  PROVE  Published(d)'
  BY DEF Published

LEMMA SinksUntouched ==
  ASSUME Inv, UNCHANGED sinks,
         \A s \in Slot : \/ slot'[s] = slot[s]
                         \/ /\ ~Locked(s)
                            /\ \/ slot'[s].phase \in {"idle", "down", "failing"}
                               \/ slot'[s].phase = "claimed" /\ slot'[s].table = 0,
         \A d \in Delivery : row'[d].status = "delivered" => row[d].status = "delivered" \/ Published(d)
  PROVE  FileSound' /\ PhasesSound'
  <1>1. FileSound'
    <2>1. \A s \in Slot : Locked(s)' <=> lock' = s
      BY DEF Inv, FileSound, sinks, Locked
    <2>2. \A d \in receipt' : InFile(d)
      BY DEF Inv, FileSound, sinks
    <2> QED BY <2>1, <2>2, ScriptKept, FileKept DEF sinks
  <1>2. ASSUME NEW s \in Slot PROVE PhaseSound(s)'
    <2>1. CASE slot'[s] = slot[s]
      BY <2>1 DEF Inv, PhasesSound, PhaseSound, sinks, Locked, At, InFile, Published
    <2>2. CASE slot'[s].phase \in {"idle", "down", "failing"}
      BY <2>2 DEF PhaseSound, Locked, At
    <2>3. CASE slot'[s].phase = "claimed" /\ slot'[s].table = 0
      <3>1. 1 .. slot'[s].table = {}
        BY <2>3
      <3> QED BY <2>3, <3>1, BoundAssumption DEF PhaseSound, Locked, At
    <2> QED BY <2>1, <2>2, <2>3
  <1>3. \A d \in Delivery : row'[d].status = "delivered" => Published(d)'
    BY DEF Inv, PhasesSound, Published, sinks
  <1> QED BY <1>1, <1>2, <1>3 DEF PhasesSound

\* A slot that gives up its publication leaves the file's lock, if it holds it.
LEMMA GivenUp ==
  ASSUME Inv, NEW s \in Slot,
         \A t \in Slot : t # s => slot'[t] = slot[t],
         slot'[s].phase \in {"down", "failing"},
         lock' = IF lock = s THEN Nobody ELSE lock,
         UNCHANGED <<row, file, receipt, pushed, marker, inserted>>
  PROVE  FileSound' /\ PhasesSound'
  <1>1. \A t \in Slot : Locked(t)' <=> lock' = t
    BY SlotAssumption DEF Inv, FileSound, Locked
  <1>2. FileSound'
    <2>1. \A d \in receipt' : InFile(d)
      BY DEF Inv, FileSound
    <2> QED BY <1>1, <2>1, ScriptKept, FileKept
  <1>3. ASSUME NEW t \in Slot PROVE PhaseSound(t)'
    <2>1. CASE t = s
      BY <2>1 DEF PhaseSound, Locked, At
    <2>2. CASE t # s
      BY <2>2 DEF Inv, PhasesSound, PhaseSound, Locked, At, InFile, Published
    <2> QED BY <2>1, <2>2
  <1>4. \A d \in Delivery : row'[d].status = "delivered" => Published(d)'
    BY DEF Inv, PhasesSound, Published
  <1> QED BY <1>2, <1>3, <1>4 DEF PhasesSound

\* A slot whose publication goes on: it may lock the file, write a whole record where there
\* is none, and add to what its sink holds.
LEMMA GoneOn ==
  ASSUME Inv, TypeOK', NEW s \in Slot,
         \A t \in Slot : t # s => slot'[t] = slot[t],
         PhaseSound(s)',
         \A t \in Slot : Locked(t)' <=> lock' = t,
         UNCHANGED <<row, file>>,
         receipt \subseteq receipt', \A d \in receipt' : InFile(d),
         marker \subseteq marker', \A d \in Delivery : ScriptSound(d)',
         \A d \in Delivery : inserted[d] \subseteq inserted'[d]
  PROVE  FileSound' /\ PhasesSound'
  <1>1. FileSound'
    BY FileKept
  <1>2. \A d \in Delivery : Published(d) => Published(d)'
    BY PublishedStays DEF Inv, TypeOK
  <1>3. ASSUME NEW t \in Slot, t # s PROVE PhaseSound(t)'
    <2>1. PhaseSound(t) /\ slot'[t] = slot[t]
      BY <1>3 DEF Inv, PhasesSound
    <2>2. Busy(t) => slot[t].delivery \in Delivery
      BY DEF Inv, OutboxSound, Works
    <2> QED BY <1>2, <2>1, <2>2 DEF PhaseSound, Locked, At, InFile, Busy, Publishing
  <1>4. \A d \in Delivery : row'[d].status = "delivered" => Published(d)'
    BY <1>2 DEF Inv, PhasesSound
  <1> QED BY <1>1, <1>3, <1>4 DEF PhasesSound

-----------------------------------------------------------------------------
(* Steps: each keeps the types, the outbox and the sinks sound *)

LEMMA InitInv == Init => Inv
  <1> SUFFICES ASSUME Init PROVE Inv
    OBVIOUS
  <1>1. TypeOK
    <2>1. row \in [Delivery -> Row]
      BY BoundAssumption DEF Init, NoRow, Row
    <2> QED BY <2>1, IdleType DEF Init, TypeOK
  <1>2. OutboxSound
    BY DEF Init, OutboxSound, RowSound, NoRow, Busy, Publishing, Idle
  <1>3. FileSound
    BY SlotAssumption DEF Init, FileSound, Locked, Idle, ScriptSound
  <1>4. PhasesSound
    BY DEF Init, PhasesSound, PhaseSound, Locked, At, Idle, NoRow
  <1> QED BY <1>1, <1>2, <1>3, <1>4 DEF Inv

\* A step of the outbox in which nobody claims: rows change, and slots stay or are done.
LEMMA OutboxStep ==
  ASSUME Inv, UNCHANGED sinks, row' \in [Delivery -> Row], slot' \in [Slot -> SlotRow],
         \A d \in Delivery :
           /\ RowSound(row'[d])
           /\ row[d].status # "absent" =>
                row'[d].status # "absent" /\ row'[d].attempts = row[d].attempts
           /\ row'[d].status = "delivered" => row[d].status = "delivered" \/ Published(d),
         \A s \in Slot : slot'[s] = slot[s] \/ (~Locked(s) /\ slot'[s] = Idle)
  PROVE  Inv'
  <1>1. TypeOK'
    BY DEF Inv, TypeOK, sinks
  <1>2. OutboxSound'
    BY OutboxKept DEF Inv, Busy, Idle, Publishing
  <1>3. FileSound' /\ PhasesSound'
    BY SinksUntouched DEF Idle
  <1> QED BY <1>1, <1>2, <1>3 DEF Inv

\* A step of slot s in its publication: rows stay, and s works on the same row.
LEMMA PublishStep ==
  ASSUME Inv, TypeOK', UNCHANGED row, NEW s \in Slot,
         \A t \in Slot : t # s => slot'[t] = slot[t],
         Busy(s)', Busy(s), slot'[s].delivery = slot[s].delivery, slot'[s].token = slot[s].token,
         FileSound' /\ PhasesSound'
  PROVE  Inv'
  <1>1. \A d \in Delivery : RowSound(row'[d])
    BY DEF Inv, OutboxSound
  <1>2. OutboxSound'
    BY <1>1, OutboxKept DEF Inv, Busy
  <1> QED BY <1>2 DEF Inv

\* A result's new row.
LEMMA NewRow ==
  ASSUME NEW n \in Nat
  PROVE  Waiting(n) \in Row /\ RowSound(Waiting(n)) /\ Waiting(n).status = "pending"
  <1>1. Waiting(n) \in Row
    <2>1. NoRow \in Row
      BY BoundAssumption DEF NoRow, Row
    <2>2. \A r \in Row :
            [r EXCEPT !.status = "pending", !.ready = TRUE, !.created = n] \in Row
      BY DEF Row
    <2> QED BY <2>1, <2>2 DEF Waiting
  <1>2. Waiting(n).status = "pending" /\ Waiting(n).attempts = 0
    BY DEF Waiting, NoRow
  <1> QED BY <1>1, <1>2, BoundAssumption DEF RowSound

LEMMA EnqueueKeeps ==
  ASSUME Inv, NEW r \in Results, Enqueue(r)
  PROVE  Inv'
  <1> DEFINE new == Waiting(Cardinality(Queued) + 1)
  <1>1. Cardinality(Queued) \in Nat
    BY DeliveryAssumption, FS_Subset, FS_CardinalityType DEF Queued
  <1>2. new \in Row /\ RowSound(new) /\ new.status = "pending"
    <2>1. Cardinality(Queued) + 1 \in Nat
      BY <1>1
    <2> QED BY <2>1, NewRow
  <1>3. /\ row' = [d \in Delivery |-> IF d \in RowsOf(r) THEN new ELSE row[d]]
        /\ RowsOf(r) \cap Queued = {} /\ UNCHANGED <<slot, sinks>>
    BY DEF Enqueue
  <1> HIDE DEF new
  <1>4. \A d \in RowsOf(r) : row[d].status = "absent"
    BY <1>3 DEF RowsOf, Queued
  <1>5. row' \in [Delivery -> Row]
    BY <1>2, <1>3 DEF Inv, TypeOK
  <1>6. ASSUME NEW d \in Delivery
        PROVE  /\ RowSound(row'[d])
               /\ row[d].status # "absent" =>
                    row'[d].status # "absent" /\ row'[d].attempts = row[d].attempts
               /\ row'[d].status = "delivered" => row[d].status = "delivered" \/ Published(d)
    <2>1. CASE d \in RowsOf(r)
      BY <1>2, <1>3, <1>4, <2>1
    <2>2. CASE d \notin RowsOf(r)
      BY <1>3, <2>2 DEF Inv, OutboxSound
    <2> QED BY <2>1, <2>2
  <1>7. slot' \in [Slot -> SlotRow]
    BY <1>3 DEF Inv, TypeOK
  <1> QED BY <1>3, <1>5, <1>6, <1>7, OutboxStep

\* Recovery alone: a poll that claims nothing, or the start of a process.
LEMMA RecoverKeeps ==
  ASSUME Inv, row' = Recover(row), UNCHANGED sinks, slot' \in [Slot -> SlotRow],
         \A s \in Slot : slot'[s] = slot[s] \/ (~Locked(s) /\ slot'[s] = Idle)
  PROVE  Inv'
  <1>1. TypeOK /\ OutboxSound
    BY DEF Inv
  <1>2. row' \in [Delivery -> Row]
    BY <1>1, Recovered
  <1>3. \A d \in Delivery :
          /\ RowSound(row'[d])
          /\ row[d].status # "absent" =>
               row'[d].status # "absent" /\ row'[d].attempts = row[d].attempts
          /\ row'[d].status = "delivered" => row[d].status = "delivered" \/ Published(d)
    BY <1>1, Recovered
  <1> QED BY <1>2, <1>3, OutboxStep

\* One row changes otherwise, and slots stay or are done.
LEMMA RowStep ==
  ASSUME Inv, NEW d \in Delivery, NEW x \in Row, row' = [row EXCEPT ![d] = x],
         RowSound(x), x.status # "absent", x.attempts = row[d].attempts,
         x.status = "delivered" => row[d].status = "delivered" \/ Published(d),
         UNCHANGED sinks, slot' \in [Slot -> SlotRow],
         \A s \in Slot : slot'[s] = slot[s] \/ (~Locked(s) /\ slot'[s] = Idle)
  PROVE  Inv'
  <1>1. row' \in [Delivery -> Row] /\ row'[d] = x /\ \A e \in Delivery : e # d => row'[e] = row[e]
    BY RowSetType DEF Inv
  <1>2. ASSUME NEW e \in Delivery
        PROVE  /\ RowSound(row'[e])
               /\ row[e].status # "absent" =>
                    row'[e].status # "absent" /\ row'[e].attempts = row[e].attempts
               /\ row'[e].status = "delivered" => row[e].status = "delivered" \/ Published(e)
    <2>1. CASE e = d
      BY <1>1, <2>1
    <2>2. CASE e # d
      BY <1>1, <2>2 DEF Inv, OutboxSound
    <2> QED BY <2>1, <2>2
  <1> QED BY <1>1, <1>2, OutboxStep

LEMMA ClaimNothingKeeps ==
  ASSUME Inv, NEW s \in Slot, ClaimNothing(s)
  PROVE  Inv'
  BY RecoverKeeps DEF ClaimNothing, Inv, TypeOK

LEMMA RestartKeeps ==
  ASSUME Inv, NEW s \in Slot, Restart(s)
  PROVE  Inv'
  <1>1. /\ slot' \in [Slot -> SlotRow] /\ slot'[s] = Idle
        /\ \A t \in Slot : t # s => slot'[t] = slot[t]
    BY IdleType, SlotSetType DEF Restart, Inv
  <1>2. ~Locked(s)
    BY DEF Restart, Locked, Down, Idle
  <1> QED BY <1>1, <1>2, RecoverKeeps DEF Restart

\* The leased row and the token of its claim.
LEMMA LeasedRow ==
  ASSUME NEW s \in Slot, NEW r \in Row, r.attempts < MaxAttempts
  PROVE  /\ Leased(r, s) \in Row /\ RowSound(Leased(r, s))
         /\ Leased(r, s).status = "running"
         /\ Leased(r, s).attempts = r.attempts + 1
         /\ FreshToken(r) = r.attempts + 1
  <1>1. r.attempts + 1 \in 1 .. MaxAttempts
    BY RowFields
  <1>2. /\ Leased(r, s).status = "running" /\ Leased(r, s).attempts = r.attempts + 1
        /\ Leased(r, s).token = r.attempts + 1
    BY DEF Leased, FreshToken, Row
  <1>3. Leased(r, s) \in Row
    <2>1. /\ r.attempts + 1 \in 0 .. MaxAttempts /\ r.attempts + 1 \in Nat
          /\ Owner[s] \in {Owner[t] : t \in Slot} \cup {NoOwner}
      BY <1>1, RowFields
    <2> QED BY <2>1 DEF Leased, FreshToken, Row
  <1> QED BY <1>1, <1>2, <1>3 DEF RowSound, FreshToken

LEMMA ClaimKeeps ==
  ASSUME Inv, NEW s \in Slot, Claim(s)
  PROVE  Inv'
  <1> DEFINE rows == Recover(row)
  <1>1. PICK scope \in Scopes[s] : \E d \in Oldest(rows, scope) :
          /\ row' = [rows EXCEPT ![d] = Leased(rows[d], s)]
          /\ slot' = [slot EXCEPT ![s] = [phase |-> "claimed", delivery |-> d,
                                          token |-> FreshToken(rows[d]), table |-> 0]]
    BY DEF Claim
  <1>2. PICK d \in Oldest(rows, scope) :
          /\ row' = [rows EXCEPT ![d] = Leased(rows[d], s)]
          /\ slot' = [slot EXCEPT ![s] = [phase |-> "claimed", delivery |-> d,
                                          token |-> FreshToken(rows[d]), table |-> 0]]
    BY <1>1
  <1>3. slot[s] = Idle /\ UNCHANGED sinks
    BY DEF Claim
  <1>4. rows[d].status = "pending" /\ rows[d].attempts < MaxAttempts
    BY DEF Oldest, Claimable
  <1>5. /\ rows \in [Delivery -> Row]
        /\ \A e \in Delivery :
             /\ RowSound(rows[e])
             /\ rows[e].attempts = row[e].attempts
             /\ rows[e].status = "absent" <=> row[e].status = "absent"
             /\ rows[e].status = "delivered" => row[e].status = "delivered"
    BY Recovered DEF Inv
  <1> HIDE DEF rows
  <1>6. d \in Delivery
    BY <1>2, <1>4, <1>5, ScopeAssumption DEF Oldest, Claimable
  <1> DEFINE x == Leased(rows[d], s)
             taken == [phase |-> "claimed", delivery |-> d, token |-> FreshToken(rows[d]), table |-> 0]
  <1>7. /\ x \in Row /\ RowSound(x) /\ x.status = "running"
        /\ x.attempts = row[d].attempts + 1 /\ FreshToken(rows[d]) = row[d].attempts + 1
    BY <1>4, <1>5, <1>6, LeasedRow
  <1>8. row[d].attempts \in Nat
    BY <1>6, RowFields DEF Inv, TypeOK
  <1>9. taken \in SlotRow
    BY <1>6, <1>7, <1>8, BoundAssumption DEF SlotRow, Publishing
  <1>10. /\ slot' \in [Slot -> SlotRow] /\ slot'[s] = taken
         /\ \A t \in Slot : t # s => slot'[t] = slot[t]
    BY <1>2, <1>9, SlotSetType DEF Inv
  <1>11. /\ row' \in [Delivery -> Row] /\ row'[d] = x
         /\ \A e \in Delivery : e # d => row'[e] = rows[e]
    BY <1>2, <1>5, <1>6, <1>7
  <1>12. TypeOK'
    BY <1>3, <1>10, <1>11 DEF Inv, TypeOK, sinks
  <1> HIDE DEF x
  <1>13. \A e \in Delivery : RowSound(row'[e])
    BY <1>5, <1>7, <1>11
  <1>14. \A e \in Delivery :
           /\ row'[e].attempts \in Nat /\ row[e].attempts \in Nat
           /\ row[e].attempts <= row'[e].attempts
           /\ row[e].status # "absent" => row'[e].status # "absent"
    <2> SUFFICES ASSUME NEW e \in Delivery
                 PROVE  /\ row'[e].attempts \in Nat /\ row[e].attempts \in Nat
                        /\ row[e].attempts <= row'[e].attempts
                        /\ row[e].status # "absent" => row'[e].status # "absent"
      OBVIOUS
    <2>1. row'[e].attempts \in Nat /\ row[e].attempts \in Nat
      BY <1>11, RowFields DEF Inv, TypeOK
    <2>2. CASE e = d
      BY <1>7, <1>8, <1>11, <2>1, <2>2
    <2>3. CASE e # d
      BY <1>5, <1>11, <2>1, <2>3
    <2> QED BY <2>2, <2>3
  <1>15. \A t \in Slot : t # s /\ Busy(t)' =>
           /\ Busy(t) /\ Works(t)
           /\ slot'[t].delivery = slot[t].delivery /\ slot'[t].token = slot[t].token
    BY <1>10 DEF Inv, OutboxSound, Busy
  <1>16. ASSUME NEW t \in Slot, Busy(t)' PROVE Works(t)'
    <2>1. CASE t = s
      <3>1. slot'[s].delivery = d /\ slot'[s].token = row[d].attempts + 1
        BY <1>7, <1>10
      <3>2. row'[d].status = "running" /\ row'[d].attempts = row[d].attempts + 1
        BY <1>7, <1>11
      <3> QED BY <1>6, <1>8, <2>1, <3>1, <3>2 DEF Works
    <2>2. CASE t # s
      <3>1. /\ Works(t) /\ slot'[t].delivery = slot[t].delivery /\ slot'[t].token = slot[t].token
        BY <1>15, <1>16, <2>2
      <3> QED BY <1>14, <3>1 DEF Works
    <2> QED BY <2>1, <2>2
  <1>17. ASSUME NEW t \in Slot, t # s, Busy(t)', slot'[t].delivery = d
         PROVE  slot'[t].token # slot'[s].token
    <2>1. slot'[t].token \in 1 .. row[d].attempts
      BY <1>15, <1>17 DEF Works
    <2>2. slot'[s].token = row[d].attempts + 1
      BY <1>7, <1>10
    <2> QED BY <1>8, <2>1, <2>2
  <1>18. slot'[s].delivery = d
    BY <1>10
  <1>19. ASSUME NEW t \in Slot, NEW u \in Slot, Busy(t)', Busy(u)',
                slot'[t].delivery = slot'[u].delivery, slot'[t].token = slot'[u].token
         PROVE  t = u
    <2>1. CASE t = s \/ u = s
      BY <1>17, <1>18, <1>19, <2>1
    <2>2. CASE t # s /\ u # s
      BY <1>15, <1>19, <2>2 DEF Inv, OutboxSound
    <2> QED BY <2>1, <2>2
  <1>20. OutboxSound'
    <2>1. \A e \in Delivery : RowSound(row[e])'
      BY <1>13 DEF RowSound
    <2> QED BY <2>1, <1>16, <1>19 DEF OutboxSound
  <1>21. ~Locked(s)
    BY <1>3 DEF Locked, Idle
  <1>22. slot'[s].phase = "claimed" /\ slot'[s].table = 0
    BY <1>10
  <1>23. \A e \in Delivery : row'[e].status = "delivered" => row[e].status = "delivered"
    BY <1>5, <1>7, <1>11
  <1>24. FileSound' /\ PhasesSound'
    BY <1>3, <1>10, <1>21, <1>22, <1>23, SinksUntouched
  <1> QED BY <1>12, <1>20, <1>24 DEF Inv

\* The row a slot owns is the one it works on.
LEMMA OwnedRow ==
  ASSUME Inv, NEW s \in Slot, Busy(s)
  PROVE  /\ slot[s].delivery \in Delivery
         /\ row[slot[s].delivery] \in Row /\ RowSound(row[slot[s].delivery])
  BY DEF Inv, TypeOK, OutboxSound, Works

LEMMA HeartbeatKeeps ==
  ASSUME Inv, NEW s \in Slot, Heartbeat(s)
  PROVE  Inv'
  <1> DEFINE d == slot[s].delivery
             x == [row[d] EXCEPT !.expired = FALSE]
  <1>1. d \in Delivery /\ row[d] \in Row /\ RowSound(row[d])
    BY OwnedRow DEF Heartbeat
  <1>2. row' = [row EXCEPT ![d] = x] /\ row[d].status = "running"
    BY DEF Heartbeat, Owns
  <1>3. x \in Row /\ x.status = row[d].status /\ x.attempts = row[d].attempts /\ x.token = row[d].token
    BY <1>1 DEF Row
  <1> HIDE DEF x
  <1>4. RowSound(x)
    BY <1>1, <1>3 DEF RowSound
  <1> QED BY <1>1, <1>2, <1>3, <1>4, RowStep DEF Heartbeat, Inv, TypeOK

\* A slot that reports leaves the row, and is idle.
LEMMA ReportStep ==
  ASSUME Inv, NEW s \in Slot, Busy(s), ~Locked(s), UNCHANGED sinks,
         NEW x \in Row, row' = [row EXCEPT ![slot[s].delivery] = x],
         slot' = [slot EXCEPT ![s] = Idle],
         RowSound(x), x.status # "absent", x.attempts = row[slot[s].delivery].attempts,
         x.status = "delivered" => Published(slot[s].delivery)
  PROVE  Inv'
  <1>1. slot[s].delivery \in Delivery
    BY OwnedRow
  <1>2. /\ slot' \in [Slot -> SlotRow] /\ slot'[s] = Idle
        /\ \A t \in Slot : t # s => slot'[t] = slot[t]
    BY IdleType, SlotSetType DEF Inv
  <1> QED BY <1>1, <1>2, RowStep

LEMMA CompleteKeeps ==
  ASSUME Inv, NEW s \in Slot, Complete(s)
  PROVE  Inv'
  <1> DEFINE d == slot[s].delivery
             x == Released(row[d], "delivered", TRUE)
  <1>1. Busy(s) /\ ~Locked(s) /\ Published(d)
    BY DEF Complete, At, Busy, Locked, Inv, PhasesSound, PhaseSound
  <1>2. row[d] \in Row
    BY <1>1, OwnedRow
  <1>3. x \in Row /\ x.status = "delivered" /\ x.attempts = row[d].attempts
    BY <1>2, ReleasedRow
  <1>4. row' = [row EXCEPT ![d] = x] /\ slot' = [slot EXCEPT ![s] = Idle] /\ UNCHANGED sinks
    BY DEF Complete
  <1> HIDE DEF x
  <1>5. RowSound(x)
    BY <1>3 DEF RowSound
  <1> QED BY <1>1, <1>3, <1>4, <1>5, ReportStep

LEMMA FailKeeps ==
  ASSUME Inv, NEW s \in Slot, Fail(s)
  PROVE  Inv'
  <1> DEFINE d == slot[s].delivery
             ready == Requeued(row[d]) = "dead_letter"
             x == Released(row[d], Requeued(row[d]), ready)
  <1>1. Busy(s) /\ ~Locked(s)
    BY DEF Fail, At, Busy, Locked
  <1>2. row[d] \in Row
    BY <1>1, OwnedRow
  <1>3. ready \in BOOLEAN
    OBVIOUS
  <1>4. row' = [row EXCEPT ![d] = x] /\ slot' = [slot EXCEPT ![s] = Idle] /\ UNCHANGED sinks
    BY DEF Fail
  <1> HIDE DEF ready
  <1>5. WellRequeued(row[d], ready)
    BY <1>2, <1>3, RequeuedRow
  <1>6. /\ Requeued(row[d]) \in {"pending", "dead_letter"}
        /\ x \in Row /\ x.status = Requeued(row[d]) /\ x.attempts = row[d].attempts /\ RowSound(x)
    BY <1>5 DEF WellRequeued
  <1> HIDE DEF x
  <1>7. x.status # "absent" /\ x.status # "delivered"
    BY <1>6
  <1> QED BY <1>1, <1>4, <1>6, <1>7, ReportStep

LEMMA LeaseLostKeeps ==
  ASSUME Inv, NEW s \in Slot, LeaseLost(s)
  PROVE  Inv'
  <1>1. /\ slot' \in [Slot -> SlotRow] /\ slot'[s] = Idle
        /\ \A t \in Slot : t # s => slot'[t] = slot[t]
    BY IdleType, SlotSetType DEF LeaseLost, Inv
  <1>2. ~Locked(s)
    BY DEF LeaseLost, Locked
  <1> QED BY <1>1, <1>2, OutboxStep DEF LeaseLost, Inv, TypeOK, OutboxSound

LEMMA TimeKeeps ==
  ASSUME Inv, NEW d \in Delivery, Time(d)
  PROVE  Inv'
  <1>1. row[d] \in Row /\ RowSound(row[d])
    BY DEF Inv, TypeOK, OutboxSound
  <1>2. CASE LeaseTimesOut(d)
    <2> DEFINE x == [row[d] EXCEPT !.expired = TRUE]
    <2>1. x \in Row /\ x.status = row[d].status /\ x.attempts = row[d].attempts /\ x.token = row[d].token
      BY <1>1 DEF Row
    <2>2. row' = [row EXCEPT ![d] = x] /\ row[d].status = "running"
      BY <1>2 DEF LeaseTimesOut
    <2> HIDE DEF x
    <2>3. RowSound(x)
      BY <1>1, <2>1 DEF RowSound
    <2> QED BY <1>2, <2>1, <2>2, <2>3, RowStep DEF LeaseTimesOut, Inv, TypeOK
  <1>3. CASE BackoffElapses(d)
    <2> DEFINE x == [row[d] EXCEPT !.ready = TRUE]
    <2>1. x \in Row /\ x.status = row[d].status /\ x.attempts = row[d].attempts /\ x.token = row[d].token
      BY <1>1 DEF Row
    <2>2. row' = [row EXCEPT ![d] = x] /\ row[d].status = "pending"
      BY <1>3 DEF BackoffElapses
    <2> HIDE DEF x
    <2>3. RowSound(x)
      BY <1>1, <2>1 DEF RowSound
    <2> QED BY <1>3, <2>1, <2>2, <2>3, RowStep DEF BackoffElapses, Inv, TypeOK
  <1> QED BY <1>2, <1>3 DEF Time

-----------------------------------------------------------------------------
(* Steps of a publication *)

\* A slot that changes its phase keeps the rest, and no other slot moves.
LEMMA Moved ==
  ASSUME TypeOK, NEW s \in Slot,
         NEW phase \in Publishing \cup {"idle", "down", "published", "failing"}, Move(s, phase)
  PROVE  /\ slot' \in [Slot -> SlotRow]
         /\ \A t \in Slot : t # s => slot'[t] = slot[t]
         /\ slot'[s].phase = phase /\ slot'[s].delivery = slot[s].delivery
         /\ slot'[s].token = slot[s].token /\ slot'[s].table = slot[s].table
  <1>1. slot'[s] = [slot[s] EXCEPT !.phase = phase]
    BY MovedType
  <1>2. slot[s] \in SlotRow
    BY DEF TypeOK
  <1> QED BY <1>1, <1>2, MovedType DEF SlotRow

\* Who holds the lock after a step of s, by what s does with it.
LEMMA LockMoves ==
  ASSUME Inv, NEW s \in Slot, \A t \in Slot : t # s => slot'[t] = slot[t],
         \/ lock' = lock /\ (Locked(s) <=> Locked(s)')
         \/ lock = Nobody /\ lock' = s /\ Locked(s)'
         \/ lock = s /\ lock' = Nobody /\ ~Locked(s)'
  PROVE  \A t \in Slot : Locked(t)' <=> lock' = t
  BY SlotAssumption DEF Inv, FileSound, Locked

\* The invariant of the slot that is about to take a step.
LEMMA Publisher ==
  ASSUME Inv, NEW s \in Slot, Busy(s)
  PROVE  /\ TypeOK /\ PhaseSound(s) /\ slot[s].delivery \in Delivery
         /\ Locked(s) <=> lock = s
  BY OwnedRow DEF Inv, PhasesSound, FileSound

LEMMA CrashKeeps ==
  ASSUME Inv, NEW s \in Slot, Crash(s)
  PROVE  Inv'
  <1>1. /\ slot' \in [Slot -> SlotRow] /\ slot'[s] = Down
        /\ \A t \in Slot : t # s => slot'[t] = slot[t]
    BY IdleType, SlotSetType DEF Crash, Inv
  <1>2. TypeOK'
    BY <1>1, SlotAssumption DEF Inv, TypeOK, Crash
  <1>3. OutboxSound'
    <2>1. ~Busy(s)'
      BY <1>1 DEF Busy, Publishing, Down, Idle
    <2>2. \A d \in Delivery : RowSound(row'[d])
      BY DEF Crash, Inv, OutboxSound
    <2> QED BY <1>1, <2>1, <2>2, OutboxKept DEF Crash, Inv, Busy
  <1>4. slot'[s].phase \in {"down", "failing"}
    BY <1>1 DEF Down, Idle
  <1>5. FileSound' /\ PhasesSound'
    BY <1>1, <1>4, GivenUp DEF Crash
  <1> QED BY <1>2, <1>3, <1>5 DEF Inv

LEMMA RaiseKeeps ==
  ASSUME Inv, NEW s \in Slot, Raise(s)
  PROVE  Inv'
  <1>1. /\ slot' \in [Slot -> SlotRow]
        /\ \A t \in Slot : t # s => slot'[t] = slot[t]
        /\ slot'[s].phase = "failing" /\ slot'[s].delivery = slot[s].delivery
        /\ slot'[s].token = slot[s].token
    BY Moved DEF Raise, Inv
  <1>2. TypeOK'
    BY <1>1, SlotAssumption DEF Inv, TypeOK, Raise
  <1>3. Busy(s) /\ Busy(s)'
    BY <1>1 DEF Busy, Raise
  <1>4. FileSound' /\ PhasesSound'
    BY <1>1, GivenUp DEF Raise
  <1> QED BY <1>1, <1>2, <1>3, <1>4, PublishStep DEF Raise

LEMMA LockKeeps ==
  ASSUME Inv, NEW s \in Slot, Lock(s)
  PROVE  Inv'
  <1>1. /\ slot' \in [Slot -> SlotRow]
        /\ \A t \in Slot : t # s => slot'[t] = slot[t]
        /\ slot'[s].phase = "locked" /\ slot'[s].delivery = slot[s].delivery
        /\ slot'[s].token = slot[s].token
    BY Moved DEF Lock, Inv, Publishing
  <1>2. TypeOK'
    BY <1>1 DEF Inv, TypeOK, Lock
  <1>3. Busy(s) /\ Busy(s)' /\ Locked(s)'
    BY <1>1 DEF Busy, Lock, At, Locked, Publishing
  <1>4. PhaseSound(s)'
    BY <1>1 DEF PhaseSound, Locked, At, Lock, For
  <1>5. \A t \in Slot : Locked(t)' <=> lock' = t
    BY <1>1, <1>3, LockMoves DEF Lock
  <1>6. \A d \in Delivery : ScriptSound(d)'
    BY ScriptKept DEF Lock
  <1>7. \A d \in receipt : InFile(d)
    BY DEF Inv, FileSound
  <1>8. FileSound' /\ PhasesSound'
    BY <1>1, <1>2, <1>4, <1>5, <1>6, <1>7, GoneOn DEF Lock
  <1> QED BY <1>1, <1>2, <1>3, <1>8, PublishStep DEF Lock

LEMMA DeduplicateKeeps ==
  ASSUME Inv, NEW s \in Slot, Deduplicate(s)
  PROVE  Inv'
  <1> DEFINE d == slot[s].delivery
  <1>1. PICK phase \in {"receipted", "written"} :
          /\ Move(s, phase)
          /\ phase = "receipted" => d \in receipt
          /\ phase = "written" => InFile(d)
    BY DEF Deduplicate
  <1>2. /\ slot' \in [Slot -> SlotRow]
        /\ \A t \in Slot : t # s => slot'[t] = slot[t]
        /\ slot'[s].phase = phase /\ slot'[s].delivery = d
        /\ slot'[s].token = slot[s].token
    BY <1>1, Moved DEF Inv, Publishing
  <1>3. TypeOK'
    BY <1>2 DEF Inv, TypeOK, Deduplicate, sinks
  <1>4. Busy(s) /\ Busy(s)' /\ Locked(s) /\ Locked(s)'
    BY <1>2 DEF Busy, Deduplicate, At, Locked, Publishing
  <1>5. SinkOf[d] = "jsonl"
    BY <1>4, Publisher DEF PhaseSound
  <1>6. PhaseSound(s)'
    BY <1>1, <1>2, <1>5 DEF PhaseSound, Locked, At, Deduplicate, sinks, InFile
  <1>7. /\ \A t \in Slot : Locked(t)' <=> lock' = t
        /\ \A e \in Delivery : ScriptSound(e)'
        /\ \A e \in receipt : InFile(e)
    BY <1>2, <1>4, LockMoves, ScriptKept DEF Deduplicate, sinks, Inv, FileSound
  <1>8. FileSound' /\ PhasesSound'
    BY <1>2, <1>3, <1>6, <1>7, GoneOn DEF Deduplicate, sinks
  <1> QED BY <1>2, <1>3, <1>4, <1>8, PublishStep DEF Deduplicate

LEMMA WriteReceiptKeeps ==
  ASSUME Inv, NEW s \in Slot, WriteReceipt(s)
  PROVE  Inv'
  <1> DEFINE d == slot[s].delivery
  <1>1. /\ slot' \in [Slot -> SlotRow]
        /\ \A t \in Slot : t # s => slot'[t] = slot[t]
        /\ slot'[s].phase = "receipted" /\ slot'[s].delivery = d
        /\ slot'[s].token = slot[s].token
    BY Moved DEF WriteReceipt, Inv, Publishing
  <1>2. Busy(s) /\ Busy(s)' /\ Locked(s) /\ Locked(s)'
    BY <1>1 DEF Busy, WriteReceipt, At, Locked, Publishing
  <1>3. d \in Delivery /\ SinkOf[d] = "jsonl" /\ InFile(d)
    BY <1>2, Publisher DEF PhaseSound, WriteReceipt
  <1>4. TypeOK'
    BY <1>1, <1>3 DEF Inv, TypeOK, WriteReceipt
  <1>5. PhaseSound(s)'
    BY <1>1, <1>3 DEF PhaseSound, Locked, At, WriteReceipt
  <1>6. /\ \A t \in Slot : Locked(t)' <=> lock' = t
        /\ \A e \in Delivery : ScriptSound(e)'
        /\ \A e \in receipt : InFile(e)
    BY <1>1, <1>2, LockMoves, ScriptKept DEF WriteReceipt, Inv, FileSound
  <1>7. receipt \subseteq receipt' /\ \A e \in receipt' : InFile(e)
    BY <1>3, <1>6 DEF WriteReceipt
  <1>8. FileSound' /\ PhasesSound'
    BY <1>1, <1>4, <1>5, <1>6, <1>7, GoneOn DEF WriteReceipt
  <1> QED BY <1>1, <1>2, <1>4, <1>8, PublishStep DEF WriteReceipt

LEMMA UnlockKeeps ==
  ASSUME Inv, NEW s \in Slot, Unlock(s)
  PROVE  Inv'
  <1> DEFINE d == slot[s].delivery
  <1>1. /\ slot' \in [Slot -> SlotRow]
        /\ \A t \in Slot : t # s => slot'[t] = slot[t]
        /\ slot'[s].phase = "published" /\ slot'[s].delivery = d
        /\ slot'[s].token = slot[s].token
    BY Moved DEF Unlock, Inv
  <1>2. Busy(s) /\ Busy(s)' /\ Locked(s) /\ ~Locked(s)'
    BY <1>1 DEF Busy, Unlock, At, Locked, Publishing
  <1>3. d \in Delivery /\ SinkOf[d] = "jsonl" /\ d \in receipt /\ lock = s
    BY <1>2, Publisher DEF PhaseSound, Unlock
  <1>4. TypeOK'
    BY <1>1 DEF Inv, TypeOK, Unlock
  <1>5. PhaseSound(s)'
    BY <1>1, <1>3 DEF PhaseSound, Locked, At, Unlock, Published
  <1>6. /\ \A t \in Slot : Locked(t)' <=> lock' = t
        /\ \A e \in Delivery : ScriptSound(e)'
        /\ \A e \in receipt : InFile(e)
    BY <1>1, <1>2, <1>3, LockMoves, ScriptKept DEF Unlock, Inv, FileSound
  <1>7. FileSound' /\ PhasesSound'
    BY <1>1, <1>4, <1>5, <1>6, GoneOn DEF Unlock
  <1> QED BY <1>1, <1>2, <1>4, <1>7, PublishStep DEF Unlock

LEMMA RunScriptKeeps ==
  ASSUME Inv, NEW s \in Slot, RunScript(s)
  PROVE  Inv'
  <1> DEFINE d == slot[s].delivery
  <1>1. PICK phase \in {"published", "failing"} : Move(s, phase)
    BY DEF RunScript
  <1>2. /\ slot' \in [Slot -> SlotRow]
        /\ \A t \in Slot : t # s => slot'[t] = slot[t]
        /\ slot'[s].phase = phase /\ slot'[s].delivery = d
        /\ slot'[s].token = slot[s].token
    BY <1>1, Moved DEF Inv
  <1>3. Busy(s) /\ Busy(s)' /\ ~Locked(s) /\ ~Locked(s)'
    BY <1>2 DEF Busy, RunScript, At, Locked, Publishing
  <1>4. d \in Delivery
    BY <1>3, Publisher
  <1>5. pushed \in [Delivery -> [Group -> Nat]] /\ \A e \in Delivery : ScriptSound(e)
    BY DEF Inv, TypeOK, FileSound
  <1>6. /\ pushed' \in [Delivery -> [Group -> Nat]]
        /\ marker' = marker \cup {d}
        /\ \A e \in Delivery : ScriptSound(e)'
    <2>1. marker' = marker \cup {d}
      BY DEF RunScript
    <2>2. CASE d \in marker
      <3>1. pushed' = pushed /\ marker' = marker
        BY <2>1, <2>2 DEF RunScript
      <3> QED BY <1>5, <2>1, <3>1 DEF ScriptSound
    <2>3. CASE d \notin marker
      <3> DEFINE more == [g \in Group |->
                            IF g \in Pushable(d) THEN pushed[d][g] + 1 ELSE pushed[d][g]]
      <3>1. pushed' = [pushed EXCEPT ![d] = more]
        BY <2>3 DEF RunScript
      <3>2. more \in [Group -> Nat]
        BY <1>4, <1>5
      <3>3. \A g \in Group : more[g] = IF g \in Pushable(d) THEN 1 ELSE 0
        BY <1>4, <1>5, <2>3 DEF ScriptSound
      <3> HIDE DEF more
      <3>4. /\ pushed' \in [Delivery -> [Group -> Nat]] /\ pushed'[d] = more
            /\ \A e \in Delivery : e # d => pushed'[e] = pushed[e]
        BY <1>4, <1>5, <3>1, <3>2
      <3>5. ASSUME NEW e \in Delivery PROVE ScriptSound(e)'
        <4>1. CASE e = d
          BY <2>1, <3>3, <3>4, <4>1 DEF ScriptSound
        <4>2. CASE e # d
          BY <1>5, <2>1, <3>4, <4>2 DEF ScriptSound
        <4> QED BY <4>1, <4>2
      <3> QED BY <2>1, <3>4, <3>5
    <2> QED BY <2>2, <2>3
  <1>7. TypeOK'
    BY <1>2, <1>4, <1>6 DEF Inv, TypeOK, RunScript
  <1>8. PhaseSound(s)'
    BY <1>2, <1>6 DEF PhaseSound, Locked, At, RunScript, For, Published
  <1>9. /\ \A t \in Slot : Locked(t)' <=> lock' = t
        /\ \A e \in receipt : InFile(e)
    BY <1>2, <1>3, LockMoves DEF RunScript, Inv, FileSound
  <1>10. FileSound' /\ PhasesSound'
    BY <1>2, <1>6, <1>7, <1>8, <1>9, GoneOn DEF RunScript
  <1> QED BY <1>2, <1>3, <1>7, <1>10, PublishStep DEF RunScript

LEMMA InsertRowsKeeps ==
  ASSUME Inv, NEW s \in Slot, InsertRows(s)
  PROVE  Inv'
  <1> DEFINE d == slot[s].delivery
             n == slot[s].table
             phase == IF LastTable(s) THEN "published" ELSE "claimed"
  <1>1. /\ Busy(s) /\ ~Locked(s) /\ At(s, "claimed") /\ SinkOf[d] = "legacy_mysql"
    BY DEF InsertRows, At, Busy, Locked, Publishing, For
  <1>2. d \in Delivery /\ slot[s] \in SlotRow /\ n \in Nat
    BY <1>1, Publisher, SlotFields
  <1>3. /\ DOMAIN Holds[d] = 1 .. Len(Holds[d]) /\ Len(Holds[d]) \in Nat
        /\ inserted[d] \subseteq DOMAIN Holds[d]
    BY <1>2, HoldsAssumption DEF Inv, TypeOK
  <1>4. (n = 0 \/ n < Len(Holds[d])) /\ 1 .. n \subseteq inserted[d]
    BY <1>1, Publisher DEF PhaseSound
  <1>5. phase \in {"published", "claimed"} /\ (phase = "published" <=> n + 1 >= Len(Holds[d]))
    BY DEF LastTable
  <1>6. slot' = [slot EXCEPT ![s] = [slot[s] EXCEPT !.table = n + 1, !.phase = phase]]
    <2>1. slot' = [slot EXCEPT ![s].table = n + 1, ![s].phase = phase]
      BY DEF InsertRows
    <2>2. slot \in [Slot -> SlotRow]
      BY DEF Inv, TypeOK
    <2> HIDE DEF phase
    <2> QED BY <2>1, <2>2
  <1> DEFINE x == [slot[s] EXCEPT !.table = n + 1, !.phase = phase]
  <1> HIDE DEF phase
  <1>7. x \in SlotRow /\ x.phase = phase /\ x.table = n + 1 /\ x.delivery = d /\ x.token = slot[s].token
    <2> DEFINE next == n + 1
    <2>1. next \in Nat
      BY <1>2
    <2> HIDE DEF next
    <2>2. /\ [slot[s] EXCEPT !.table = next, !.phase = phase] \in SlotRow
          /\ [slot[s] EXCEPT !.table = next, !.phase = phase].phase = phase
          /\ [slot[s] EXCEPT !.table = next, !.phase = phase].table = next
          /\ [slot[s] EXCEPT !.table = next, !.phase = phase].delivery = slot[s].delivery
          /\ [slot[s] EXCEPT !.table = next, !.phase = phase].token = slot[s].token
      BY <1>2, <1>5, <2>1 DEF SlotRow, Publishing
    <2> QED BY <2>2 DEF next
  <1> HIDE DEF x
  <1>8. /\ slot' \in [Slot -> SlotRow] /\ slot'[s] = x
        /\ \A t \in Slot : t # s => slot'[t] = slot[t]
    BY <1>6, <1>7, SlotSetType DEF Inv, x
  <1>9. /\ inserted' \in [Delivery -> SUBSET Nat]
        /\ inserted'[d] = inserted[d] \cup ({n + 1} \cap DOMAIN Holds[d])
        /\ \A e \in Delivery : /\ inserted[e] \subseteq inserted'[e]
                               /\ inserted'[e] \subseteq DOMAIN Holds[e]
    <2> DEFINE more == inserted[d] \cup ({n + 1} \cap DOMAIN Holds[d])
    <2>1. inserted' = [inserted EXCEPT ![d] = more]
      BY DEF InsertRows
    <2>2. /\ inserted \in [Delivery -> SUBSET Nat]
          /\ \A e \in Delivery : inserted[e] \subseteq DOMAIN Holds[e]
      BY DEF Inv, TypeOK
    <2>3. more \in SUBSET Nat /\ more \subseteq DOMAIN Holds[d] /\ inserted[d] \subseteq more
      BY <1>2, <2>2
    <2> HIDE DEF more
    <2>4. /\ inserted' \in [Delivery -> SUBSET Nat] /\ inserted'[d] = more
          /\ \A e \in Delivery : e # d => inserted'[e] = inserted[e]
      BY <1>2, <2>1, <2>2, <2>3
    <2> QED BY <2>2, <2>3, <2>4 DEF more
  <1>10. TypeOK'
    BY <1>8, <1>9 DEF Inv, TypeOK, InsertRows
  <1>11. Busy(s)' /\ ~Locked(s)'
    BY <1>5, <1>7, <1>8 DEF Busy, Locked, Publishing
  <1>12. (1 .. n + 1) \cap DOMAIN Holds[d] \subseteq inserted'[d]
    BY <1>2, <1>4, <1>9
  <1>13. PhaseSound(s)'
    <2>1. CASE phase = "published"
      <3>1. inserted'[d] \subseteq DOMAIN Holds[d] /\ DOMAIN Holds[d] \subseteq 1 .. n + 1
        BY <1>2, <1>3, <1>5, <1>9, <2>1
      <3>2. inserted'[d] = DOMAIN Holds[d]
        BY <1>12, <3>1
      <3>3. slot'[s].phase = "published" /\ slot'[s].delivery = d
        BY <1>7, <1>8, <2>1
      <3> QED BY <1>1, <3>2, <3>3 DEF PhaseSound, Locked, At, Published
    <2>2. CASE phase = "claimed"
      <3>1. n + 1 < Len(Holds[d]) /\ 1 .. n + 1 \subseteq DOMAIN Holds[d]
        BY <1>2, <1>3, <1>5, <2>2
      <3>2. slot'[s].phase = "claimed" /\ slot'[s].delivery = d /\ slot'[s].table = n + 1
        BY <1>7, <1>8, <2>2
      <3> QED BY <1>12, <3>1, <3>2 DEF PhaseSound, Locked, At
    <2> QED BY <1>5, <2>1, <2>2
  <1>14. /\ \A t \in Slot : Locked(t)' <=> lock' = t
         /\ \A e \in Delivery : ScriptSound(e)'
         /\ \A e \in receipt : InFile(e)
    BY <1>1, <1>8, <1>11, LockMoves, ScriptKept DEF InsertRows, Inv, FileSound
  <1>15. FileSound' /\ PhasesSound'
    BY <1>8, <1>9, <1>10, <1>13, <1>14, GoneOn DEF InsertRows
  <1> QED BY <1>1, <1>7, <1>8, <1>10, <1>11, <1>15, PublishStep DEF InsertRows

LEMMA WriteRecordKeeps ==
  ASSUME Inv, NEW s \in Slot, WriteRecord(s)
  PROVE  Inv'
  <1> DEFINE d == slot[s].delivery
             N == Len(file) + 1
  <1>1. PICK how \in {"whole", "torn", "stub"} :
          /\ file' = Append(file, Piece(d, how))
          /\ \/ how = "whole" /\ Move(s, "written") /\ lock' = lock
             \/ how # "whole" /\ Move(s, "failing") /\ lock' = Nobody
             \/ how # "whole" /\ slot' = [slot EXCEPT ![s] = Down] /\ lock' = Nobody
    BY DEF WriteRecord
  <1>2. Busy(s) /\ Locked(s) /\ ~InFile(d) /\ UNCHANGED <<row, receipt, pushed, marker, inserted>>
    BY DEF WriteRecord, At, Busy, Locked, Publishing
  <1>3. /\ d \in Delivery /\ SinkOf[d] = "jsonl" /\ lock = s
        /\ file \in Seq([delivery : Delivery, how : {"whole", "torn", "stub"}])
    BY <1>2, Publisher DEF PhaseSound, TypeOK
  <1>4. PICK phase \in {"written", "failing", "down"} :
          /\ slot' \in [Slot -> SlotRow]
          /\ \A t \in Slot : t # s => slot'[t] = slot[t]
          /\ slot'[s].phase = phase
          /\ phase # "down" => slot'[s].delivery = d /\ slot'[s].token = slot[s].token
          /\ phase = "written" => how = "whole"
          /\ lock' = IF phase = "written" THEN s ELSE Nobody
    <2>1. CASE how = "whole" /\ Move(s, "written") /\ lock' = lock
      <3>1. /\ slot' \in [Slot -> SlotRow]
            /\ \A t \in Slot : t # s => slot'[t] = slot[t]
            /\ slot'[s].phase = "written" /\ slot'[s].delivery = d
            /\ slot'[s].token = slot[s].token
        BY <2>1, Moved DEF Inv, Publishing
      <3> QED BY <1>3, <2>1, <3>1
    <2>2. CASE how # "whole" /\ Move(s, "failing") /\ lock' = Nobody
      <3>1. /\ slot' \in [Slot -> SlotRow]
            /\ \A t \in Slot : t # s => slot'[t] = slot[t]
            /\ slot'[s].phase = "failing" /\ slot'[s].delivery = d
            /\ slot'[s].token = slot[s].token
        BY <2>2, Moved DEF Inv
      <3> QED BY <2>2, <3>1
    <2>3. CASE how # "whole" /\ slot' = [slot EXCEPT ![s] = Down] /\ lock' = Nobody
      <3>1. /\ slot' \in [Slot -> SlotRow] /\ slot'[s] = Down
            /\ \A t \in Slot : t # s => slot'[t] = slot[t]
        BY <2>3, IdleType, SlotSetType DEF Inv
      <3>2. Down.phase = "down"
        BY DEF Down, Idle
      <3> QED BY <2>3, <3>1, <3>2
    <2> QED BY <1>1, <2>1, <2>2, <2>3
  <1>5. Piece(d, how) \in [delivery : Delivery, how : {"whole", "torn", "stub"}]
    BY <1>3 DEF Piece
  <1>6. /\ N \in Nat /\ DOMAIN file = 1 .. N - 1 /\ DOMAIN file' = 1 .. N
        /\ file' \in Seq([delivery : Delivery, how : {"whole", "torn", "stub"}])
        /\ \A n \in 1 .. N - 1 : file'[n] = file[n]
        /\ file'[N] = Piece(d, how)
    BY <1>1, <1>3, <1>5
  <1>7. TypeOK'
    BY <1>2, <1>4, <1>6 DEF Inv, TypeOK
  <1>8. \A e \in Delivery : InFile(e) => InFile(e)'
    BY <1>6 DEF InFile
  <1>9. how = "whole" => \E n \in DOMAIN file' : file'[n].delivery = d /\ file'[n].how # "stub"
    <2>1. N \in DOMAIN file'
      BY <1>6
    <2>2. file'[N].delivery = d /\ file'[N].how = how
      BY <1>6 DEF Piece
    <2> QED BY <2>1, <2>2
  <1>10. \A n \in 1 .. N - 1 : ~(file'[n].delivery = d /\ file'[n].how # "stub")
    BY <1>2, <1>6 DEF InFile
  <1>11. ASSUME NEW e \in Delivery, NEW m \in DOMAIN file', NEW n \in DOMAIN file',
                m \in Shown(e)', n \in Shown(e)'
         PROVE  m = n
    <2>1. CASE m = N \/ n = N
      <3>1. e = d
        BY <1>6, <1>11, <2>1 DEF Piece, Shown
      <3> QED BY <1>6, <1>10, <1>11, <2>1, <3>1 DEF Shown
    <2>2. CASE m \in 1 .. N - 1 /\ n \in 1 .. N - 1
      <3>1. m \in Shown(e) /\ n \in Shown(e)
        BY <1>6, <1>11, <2>2 DEF Shown
      <3> QED BY <1>6, <2>2, <3>1 DEF Inv, FileSound
    <2> QED BY <1>6, <2>1, <2>2
  <1>12. \A t \in Slot : Locked(t)' <=> lock' = t
    <2>1. \A t \in Slot : t # s => ~Locked(t) /\ ~Locked(t)'
      BY <1>3, <1>4 DEF Inv, FileSound, Locked
    <2>2. Locked(s)' <=> phase = "written"
      BY <1>4 DEF Locked
    <2> QED BY <1>4, <2>1, <2>2, SlotAssumption
  <1>13. FileSound'
    <2>1. /\ \A e \in receipt' : InFile(e)'
          /\ \A e \in Delivery : ScriptSound(e)'
      BY <1>2, <1>8, ScriptKept DEF Inv, FileSound, TypeOK
    <2> QED BY <1>11, <1>12, <2>1 DEF FileSound
  <1>14. ASSUME NEW t \in Slot PROVE PhaseSound(t)'
    <2>1. CASE t = s
      BY <1>3, <1>4, <1>9, <2>1 DEF PhaseSound, Locked, At, InFile
    <2>2. CASE t # s
      <3>1. PhaseSound(t) /\ slot'[t] = slot[t]
        BY <1>4, <2>2 DEF Inv, PhasesSound
      <3>2. Busy(t) => slot[t].delivery \in Delivery
        BY DEF Inv, OutboxSound, Works
      <3> QED BY <1>2, <1>8, <3>1, <3>2 DEF PhaseSound, Locked, At, Busy, Publishing, Published
    <2> QED BY <2>1, <2>2
  <1>15. \A e \in Delivery : row'[e].status = "delivered" => Published(e)'
    BY <1>2 DEF Inv, PhasesSound, Published
  <1>16. PhasesSound'
    BY <1>14, <1>15 DEF PhasesSound
  <1>17. OutboxSound'
    <2>1. \A e \in Delivery : RowSound(row'[e])
      BY <1>2 DEF Inv, OutboxSound
    <2>2. Busy(s)' => slot'[s].delivery = d /\ slot'[s].token = slot[s].token
      BY <1>4 DEF Busy, Publishing
    <2>3. \A t \in Slot : Busy(t)' => /\ Busy(t)
                                      /\ slot'[t].delivery = slot[t].delivery
                                      /\ slot'[t].token = slot[t].token
      BY <1>2, <1>4, <2>2 DEF Busy
    <2> QED BY <1>2, <2>1, <2>3, OutboxKept DEF Inv
  <1> QED BY <1>7, <1>13, <1>16, <1>17 DEF Inv

-----------------------------------------------------------------------------

LEMMA NextKeeps == Inv /\ [Next]_vars => Inv'
  <1> SUFFICES ASSUME Inv, [Next]_vars PROVE Inv'
    OBVIOUS
  <1>1. ASSUME NEW r \in Results, Enqueue(r) PROVE Inv'
    BY <1>1, EnqueueKeeps
  <1>2. ASSUME NEW s \in Slot, Work(s) PROVE Inv'
    <2>1. ASSUME Publish(s) PROVE Inv'
      BY <2>1, LockKeeps, DeduplicateKeeps, WriteRecordKeeps, WriteReceiptKeeps, UnlockKeeps,
         RunScriptKeeps, InsertRowsKeeps DEF Publish
    <2>2. ASSUME Report(s) PROVE Inv'
      BY <2>2, CompleteKeeps, FailKeeps, LeaseLostKeeps DEF Report
    <2> QED BY <1>2, <2>1, <2>2, ClaimNothingKeeps, ClaimKeeps, HeartbeatKeeps, RaiseKeeps,
               CrashKeeps, RestartKeeps DEF Work
  <1>3. ASSUME NEW d \in Delivery, Time(d) PROVE Inv'
    BY <1>3, TimeKeeps
  <1>4. ASSUME UNCHANGED vars PROVE Inv'
    <2>1. UNCHANGED <<row, slot>> /\ UNCHANGED sinks
      BY <1>4 DEF vars
    <2> QED BY <2>1, OutboxStep DEF Inv, TypeOK, OutboxSound
  <1> QED BY <1>1, <1>2, <1>3, <1>4 DEF Next

LEMMA Invariance == Spec => []Inv
  BY InitInv, NextKeeps, PTL DEF Spec

\* Rows, slots and sinks always have values of their types.
THEOREM DeliveryTypeCorrect == Spec => []TypeOK
  <1>1. Inv => TypeOK
    BY DEF Inv
  <1> QED BY <1>1, Invariance, PTL

\* No row of the outbox is ever stuck: a waiting row has attempts left, so claim_delivery
\* takes it, and only a row whose attempts are used up is a dead letter.
THEOREM RowsMoveOn == Spec => []NoRowStuck
  <1>1. Inv => NoRowStuck
    BY DEF Inv, OutboxSound, RowSound, NoRowStuck
  <1> QED BY <1>1, Invariance, PTL

\* However many slots still work on a delivery they have lost, at most one of them may
\* complete or fail it.
THEOREM OneReports == Spec => []OneHolder
  <1>1. Inv => OneHolder
    BY DEF Inv, OutboxSound, OneHolder, Owns
  <1> QED BY <1>1, Invariance, PTL

\* A set in which any two elements are one has at most one element.
LEMMA AtMostOne ==
  ASSUME NEW S, \A m, n \in S : m = n
  PROVE  Cardinality(S) <= 1
  <1>1. CASE S = {}
    BY <1>1, FS_EmptySet
  <1>2. CASE S # {}
    <2>1. PICK m : m \in S
      BY <1>2
    <2>2. S = {m}
      BY <2>1
    <2>3. Cardinality({m}) = 1
      BY FS_Singleton
    <2> QED BY <2>2, <2>3
  <1> QED BY <1>1, <1>2

\* Retries, lost leases and crashes never put a delivery's whole record into the JSONL
\* file twice, nor push its rows to Redis twice.
THEOREM NothingPublishedTwice == Spec => []PublishedOnce
  <1>1. ASSUME Inv PROVE PublishedOnce
    <2> SUFFICES ASSUME NEW d \in Delivery
                 PROVE  /\ Cardinality({n \in DOMAIN file : file[n] = Piece(d, "whole")}) <= 1
                        /\ \A g \in Group : pushed[d][g] <= 1
      BY DEF PublishedOnce
    <2>1. \A m, n \in {k \in DOMAIN file : file[k] = Piece(d, "whole")} : m = n
      BY <1>1 DEF Inv, FileSound, Shown, Piece
    <2>2. \A g \in Group : pushed[d][g] <= 1
      BY <1>1 DEF Inv, FileSound, ScriptSound
    <2> QED BY <2>1, <2>2, AtMostOne
  <1> QED BY <1>1, Invariance, PTL

\* A row marked delivered has been published, once: one piece of the file shows it and
\* its receipt is there, or Redis has every group that the script does not leave out, or
\* every group is in its table.
THEOREM DeliveredWasPublished == Spec => []DeliveredIsPublished
  <1>1. ASSUME Inv PROVE DeliveredIsPublished
    <2> SUFFICES ASSUME NEW d \in Delivery, row[d].status = "delivered"
                 PROVE  \/ SinkOf[d] = "jsonl" /\ d \in receipt /\ Cardinality(Shown(d)) = 1
                        \/ /\ SinkOf[d] = "legacy_redis"
                           /\ \A g \in Range(Holds[d]) \ LeftOut(d) : pushed[d][g] = 1
                        \/ SinkOf[d] = "legacy_mysql" /\ inserted[d] = DOMAIN Holds[d]
      BY DEF DeliveredIsPublished
    <2>1. Published(d)
      BY <1>1 DEF Inv, PhasesSound
    <2>2. CASE SinkOf[d] = "jsonl" /\ d \in receipt
      <3>1. PICK n \in DOMAIN file : n \in Shown(d)
        BY <1>1, <2>2 DEF Inv, FileSound, InFile, Shown
      <3>2. \A m \in Shown(d) : m = n
        BY <1>1, <3>1 DEF Inv, FileSound, Shown
      <3>3. Shown(d) = {n}
        BY <3>1, <3>2
      <3> QED BY <2>2, <3>3, FS_Singleton
    <2>3. CASE SinkOf[d] = "legacy_redis" /\ d \in marker
      <3>1. \A g \in Range(Holds[d]) \ LeftOut(d) : g \in Group /\ g \in Pushable(d)
        BY HoldsAssumption DEF Range, LeftOut, Pushable, Group
      <3> QED BY <1>1, <2>3, <3>1 DEF Inv, FileSound, ScriptSound
    <2> QED BY <2>1, <2>2, <2>3 DEF Published
  <1> QED BY <1>1, Invariance, PTL
=============================================================================
