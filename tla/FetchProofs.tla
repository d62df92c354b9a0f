---------------------------- MODULE FetchProofs ----------------------------
(***************************************************************************)
(* Theorems about Fetch for any number of tasks, hosts and leases, any     *)
(* failure threshold and any redirect limit.                               *)
(*                                                                         *)
(* The inductive invariant has four parts: the types, the soundness of the *)
(* circuits, that a task which is not idle has a host (Placed), and that   *)
(* the task which sleeps is the one that holds the limiter's lock, and is  *)
(* rested only when its host may be asked again (LimiterSound).            *)
(***************************************************************************)
EXTENDS Fetch, TLAPS

Placed == \A t \in Task : task[t].phase # "idle" => task[t].url \in Origin /\ task[t].at \in Host

LimiterSound ==
  \A t \in Task :
    /\ task[t].phase = "sleeping" <=> lock = t
    /\ task[t].rested => task[t].phase = "sleeping" /\ task[t].at \in spaced

Inv == TypeOK /\ Placed /\ BreakerSound /\ LimiterSound

\* What BreakerSound says of a circuit alone
CircuitSound(b) ==
  /\ b.open <=> b.failures = Threshold
  /\ b.cooled => b.open
  /\ b.probe => b.cooled

-----------------------------------------------------------------------------
(* Steps by what they do to tasks and circuits *)

\* A new circuit, and one that has just failed, are sound and have no probe out.
LEMMA ClosedSound == Closed \in Circuit /\ CircuitSound(Closed) /\ ~Closed.probe
  BY BoundAssumption DEF Closed, Circuit, CircuitSound

LEMMA FailedSound ==
  ASSUME NEW b \in Circuit, CircuitSound(b)
  PROVE  Failed(b) \in Circuit /\ CircuitSound(Failed(b)) /\ ~Failed(b).probe
<1>1. /\ b = [failures |-> b.failures, open |-> b.open, cooled |-> b.cooled, probe |-> b.probe]
      /\ b.failures \in 0 .. Threshold
  BY DEF Circuit
<1>2. CASE b.failures + 1 < Threshold
  <2> DEFINE m == b.failures + 1
  <2>1. m \in 0 .. Threshold BY <1>1, <1>2, BoundAssumption
  <2>2. Failed(b) = [b EXCEPT !.failures = m, !.probe = FALSE] BY <1>2 DEF Failed
  <2> HIDE DEF m
  <2>3. /\ Failed(b) \in Circuit
        /\ Failed(b).failures = m
        /\ Failed(b).open = b.open /\ Failed(b).cooled = b.cooled /\ Failed(b).probe = FALSE
    BY <2>1, <2>2 DEF Circuit
  <2>4. m # Threshold /\ b.failures # Threshold BY <1>1, <1>2, BoundAssumption DEF m
  <2> QED BY <2>3, <2>4 DEF CircuitSound
<1>3. CASE ~(b.failures + 1 < Threshold)
  BY <1>3, BoundAssumption DEF Failed, Circuit, CircuitSound
<1> QED BY <1>2, <1>3

\* A task may go to a row of its type that has a host unless it is idle, and that is
\* no new probe.
Fit(t, next) ==
  /\ next \in TaskRow
  /\ next.phase # "idle" => next.url \in Origin /\ next.at \in Host
  /\ next.probe = "no" \/ (next.probe = task[t].probe /\ next.url = task[t].url)

LEMMA IdleFits == ASSUME NEW t PROVE Fit(t, Idle)
  BY BoundAssumption DEF Fit, Idle, TaskRow, Outcome

\* A row in which a task is neither asleep nor rested, nor sending, and no probe
Still(next) ==
  next.phase \notin {"sleeping", "sending"} /\ ~next.rested /\ next.probe = "no"

LEMMA IdleStill == Still(Idle)
  BY DEF Still, Idle

\* That is so of a task that reports.
LEMMA ReportingFits ==
  ASSUME NEW t, task[t] \in TaskRow, task[t].url \in Origin, NEW outcome \in Outcome,
         NEW caught \in BOOLEAN
  PROVE  LET next == Reporting(t, outcome, caught) IN Fit(t, next) /\ Still(next)
<1>1. CASE task[t].leases = {}
  BY <1>1, IdleFits, IdleStill DEF Reporting
<1>2. CASE task[t].leases # {}
  <2> DEFINE next == [phase |-> "reporting", url |-> task[t].url, at |-> task[t].url,
                      leases |-> task[t].leases, redirects |-> 0, rested |-> FALSE,
                      probe |-> "no", outcome |-> outcome, caught |-> caught]
  <2>1. Reporting(t, outcome, caught) = next
    BY <1>2 DEF Reporting, Started, Idle
  <2>2. next \in TaskRow
    BY HostAssumption, BoundAssumption DEF TaskRow
  <2> QED BY <2>1, <2>2, HostAssumption DEF Fit, Still
<1> QED BY <1>1, <1>2

\* A task that moves alone leaves the circuits sound.
LEMMA MoveSound ==
  ASSUME TypeOK, Placed, BreakerSound, NEW t \in Task, NEW next, Fit(t, next),
         Move(t, next), UNCHANGED breaker
  PROVE  /\ task' \in [Task -> TaskRow]
         /\ Placed'
         /\ BreakerSound'
  BY DEF TypeOK, Placed, BreakerSound, Fit, Move

\* So does the outcome of a fetch, whenever it comes.
LEMMA LearnSound ==
  ASSUME TypeOK, Placed, BreakerSound, NEW t \in Task, task[t].phase # "idle",
         NEW state \in Circuit, CircuitSound(state), ~state.probe,
         NEW next, Fit(t, next), next.probe = "no", Learn(t, state, next)
  PROVE  /\ task' \in [Task -> TaskRow]
         /\ breaker' \in [Origin -> Circuit]
         /\ Placed'
         /\ BreakerSound'
         /\ \A u \in Task \ {t} : /\ task'[u].phase = task[u].phase
                                  /\ task'[u].at = task[u].at
                                  /\ task'[u].rested = task[u].rested
         /\ task'[t] = next
<1> DEFINE h == task[t].url
<1>1. h \in Origin BY DEF Placed
<1>2. breaker' = [breaker EXCEPT ![h] = state] BY DEF Learn
<1>3. /\ task'[t] = next
      /\ \A u \in Task \ {t} :
           task'[u] = IF task[u].url = h /\ task[u].probe = "current"
                      THEN [task[u] EXCEPT !.probe = "late"] ELSE task[u]
      /\ task' = [u \in Task |-> task'[u]]
  BY DEF Learn
<1>4. \A u \in Task \ {t} :
        /\ task'[u] \in TaskRow
        /\ task'[u].phase = task[u].phase
        /\ task'[u].url = task[u].url
        /\ task'[u].at = task[u].at
        /\ task'[u].rested = task[u].rested
        /\ task'[u].probe = "current" => task[u].probe = "current" /\ task[u].url # h
  BY <1>3 DEF TypeOK, TaskRow
<1>5. task' \in [Task -> TaskRow] BY <1>3, <1>4 DEF Fit
<1>6. breaker' \in [Origin -> Circuit] BY <1>1, <1>2 DEF TypeOK
<1>7. Placed' BY <1>3, <1>4 DEF Placed, Fit
<1>8. BreakerSound'
  <2> SUFFICES ASSUME NEW g \in Origin
               PROVE  /\ CircuitSound(breaker'[g])
                      /\ \A u \in Task : task'[u].url = g /\ task'[u].probe = "current"
                                           => breaker'[g].probe
                      /\ \A u, v \in Task :
                           /\ task'[u].url = g /\ task'[u].probe = "current"
                           /\ task'[v].url = g /\ task'[v].probe = "current"
                           => u = v
    BY DEF BreakerSound, CircuitSound
  <2>1. \A u \in Task : task'[u].url = g /\ task'[u].probe = "current"
          => u # t /\ g # h /\ task[u].url = g /\ task[u].probe = "current"
    BY <1>3, <1>4
  <2>2. CASE g = h
    BY <2>1, <2>2, <1>1, <1>2 DEF TypeOK
  <2>3. CASE g # h
    <3>1. breaker'[g] = breaker[g] BY <2>3, <1>2 DEF TypeOK
    <3> QED BY <2>1, <3>1 DEF BreakerSound, CircuitSound
  <2> QED BY <2>2, <2>3
<1> QED BY <1>3, <1>4, <1>5, <1>6, <1>7, <1>8

LEMMA CircuitsSound ==
  ASSUME TypeOK, BreakerSound, NEW h \in Origin
  PROVE  breaker[h] \in Circuit /\ CircuitSound(breaker[h])
  BY DEF TypeOK, BreakerSound, CircuitSound

\* The quarantine stays a set of leases.
LEMMA ReportType ==
  ASSUME TypeOK, NEW t \in Task, Report(t)
  PROVE  benched' \subseteq Lease
  BY DEF TypeOK, TaskRow, Report

\* A task that ends, and gives back the lock if it has it, leaves the limiter sound.
LEMMA EndLimiter ==
  ASSUME TypeOK, LimiterSound, NEW t \in Task,
         lock' = Unlocked(t), spaced' = spaced,
         task'[t].phase # "sleeping", ~task'[t].rested,
         \A u \in Task \ {t} : /\ task'[u].phase = task[u].phase
                               /\ task'[u].at = task[u].at
                               /\ task'[u].rested = task[u].rested
  PROVE  LimiterSound' /\ lock' \in Task \cup {Nobody}
  BY TaskAssumption DEF TypeOK, LimiterSound, Unlocked

\* A task that moves alone, and neither goes to sleep nor leaves the limiter with its
\* lock, leaves the limiter sound.
LEMMA QuietLimiter ==
  ASSUME TypeOK, LimiterSound, NEW t \in Task, NEW next, Move(t, next),
         task[t].phase # "sleeping", next.phase # "sleeping", ~next.rested,
         UNCHANGED <<lock, spaced>>
  PROVE  LimiterSound'
  BY DEF TypeOK, LimiterSound, Move

-----------------------------------------------------------------------------
(* The invariant *)

LEMMA InitInv == Init => Inv
<1> SUFFICES ASSUME Init PROVE Inv OBVIOUS
<1> USE DEF Init
<1>1. TypeOK
  BY ClosedSound, IdleFits DEF TypeOK, Fit
<1>2. Placed BY DEF Placed, Idle
<1>3. BreakerSound
  BY ClosedSound DEF BreakerSound, CircuitSound, Idle
<1>4. LimiterSound BY TaskAssumption DEF LimiterSound, Idle
<1> QED BY <1>1, <1>2, <1>3, <1>4 DEF Inv

\* The outcome of a fetch leaves everything sound, also one that comes second.
LEMMA OutcomeInv ==
  ASSUME Inv, NEW t \in Task, task[t].phase # "idle",
         NEW next, Fit(t, next), Still(next), Failure(t, next) \/ Success(t, next),
         lock' = Unlocked(t), UNCHANGED <<spaced, benched>>
  PROVE  Inv'
<1>1. TypeOK /\ Placed /\ BreakerSound /\ LimiterSound BY DEF Inv
<1>2. task[t].url \in Origin BY <1>1 DEF Placed
<1>3. \E state \in Circuit : CircuitSound(state) /\ ~state.probe /\ Learn(t, state, next)
  BY <1>1, <1>2, ClosedSound, CircuitsSound, FailedSound DEF Failure, Success
<1>4. /\ task' \in [Task -> TaskRow]
      /\ breaker' \in [Origin -> Circuit]
      /\ Placed' /\ BreakerSound'
      /\ \A u \in Task \ {t} : /\ task'[u].phase = task[u].phase
                               /\ task'[u].at = task[u].at
                               /\ task'[u].rested = task[u].rested
      /\ task'[t] = next
  BY <1>1, <1>3, LearnSound DEF Still
<1>5. LimiterSound' /\ lock' \in Task \cup {Nobody}
  BY <1>1, <1>4, EndLimiter DEF Still
<1>6. spaced' \subseteq Host /\ benched' \subseteq Lease BY <1>1 DEF TypeOK
<1> QED BY <1>4, <1>5, <1>6 DEF Inv, TypeOK

\* So does one of a fetch that does not sleep.
LEMMA AnswerInv ==
  ASSUME Inv, NEW t \in Task, task[t].phase = "sending",
         NEW next, Fit(t, next), Still(next), Failure(t, next) \/ Success(t, next),
         UNCHANGED <<lock, spaced, benched>>
  PROVE  Inv'
<1>1. lock' = Unlocked(t) BY DEF Inv, LimiterSound, Unlocked
<1> QED BY <1>1, OutcomeInv

\* A task moving alone between the limiter and its ends
LEMMA QuietInv ==
  ASSUME Inv, NEW t \in Task, NEW next, Fit(t, next), Move(t, next),
         task[t].phase # "sleeping", next.phase # "sleeping", ~next.rested,
         UNCHANGED <<breaker, lock, spaced>>, benched' \subseteq Lease
  PROVE  Inv'
<1>1. TypeOK /\ Placed /\ BreakerSound /\ LimiterSound BY DEF Inv
<1>2. /\ task' \in [Task -> TaskRow] /\ Placed' /\ BreakerSound'
  BY <1>1, MoveSound
<1>3. LimiterSound' BY <1>1, QuietLimiter
<1> QED BY <1>1, <1>2, <1>3 DEF Inv, TypeOK

LEMMA NextInv == Inv /\ [Next]_vars => Inv'
<1> SUFFICES ASSUME Inv, [Next]_vars PROVE Inv' OBVIOUS
<1>0. TypeOK /\ Placed /\ BreakerSound /\ LimiterSound BY DEF Inv
<1>1. ASSUME NEW t \in Task, Acquire(t) PROVE Inv'
  <2>1. PICK h \in Origin, L \in Contexts : Move(t, Started(h, L)) BY <1>1 DEF Acquire
  <2>2. /\ Fit(t, Started(h, L))
        /\ Started(h, L).phase # "sleeping"
        /\ ~Started(h, L).rested
    <3>1. L \in SUBSET Lease BY DEF Contexts
    <3> QED BY <3>1, HostAssumption, BoundAssumption DEF Fit, Started, TaskRow, Outcome
  <2>3. /\ task[t].phase # "sleeping"
        /\ UNCHANGED <<breaker, lock, spaced>>
        /\ benched' \subseteq Lease
    BY <1>0, <1>1 DEF Acquire, Idle, TypeOK
  <2> QED BY <2>1, <2>2, <2>3, QuietInv
<1>2. ASSUME NEW t \in Task, NoCookie(t) \/ Refuse(t) \/ Parsed(t) PROVE Inv'
  <2>1. PICK outcome \in Outcome : Move(t, Reporting(t, outcome, FALSE))
    BY <1>2 DEF NoCookie, Refuse, Parsed, Ending, Outcome
  <2>2. /\ task[t].phase \in {"acquired", "parsing"}
        /\ UNCHANGED <<breaker, lock, spaced, benched>>
    BY <1>2 DEF NoCookie, Refuse, Parsed, At
  <2>3. task[t] \in TaskRow /\ task[t].url \in Origin /\ benched \subseteq Lease
    BY <1>0, <2>2 DEF TypeOK, Placed
  <2> QED BY <2>1, <2>2, <2>3, ReportingFits, QuietInv DEF Still
<1>2a. ASSUME NEW t \in Task, Report(t) PROVE Inv'
  <2> DEFINE next == [task[t] EXCEPT !.phase = "reported"]
  <2>1. /\ task[t].phase = "reporting"
        /\ Move(t, next)
        /\ UNCHANGED <<breaker, lock, spaced>>
    BY <1>2a DEF Report, At
  <2>2. /\ task[t] \in TaskRow /\ ~task[t].rested
        /\ task[t].url \in Origin /\ task[t].at \in Host
    BY <1>0, <2>1 DEF TypeOK, LimiterSound, Placed
  <2>3. Fit(t, next) /\ next.phase = "reported" /\ ~next.rested
    BY <2>2 DEF Fit, TaskRow
  <2> HIDE DEF next
  <2>4. benched' \subseteq Lease BY <1>0, <1>2a, ReportType
  <2> QED BY <2>1, <2>3, <2>4, QuietInv
<1>2b. ASSUME NEW t \in Task, Return(t) PROVE Inv'
  <2>1. /\ task[t].phase = "reported"
        /\ Move(t, Idle)
        /\ UNCHANGED <<breaker, lock, spaced, benched>>
    BY <1>2b DEF Return, At
  <2>2. benched' \subseteq Lease BY <1>0, <2>1 DEF TypeOK
  <2> QED BY <2>1, <2>2, IdleFits, IdleStill, QuietInv DEF Still
<1>3. ASSUME NEW t \in Task, Admit(t) PROVE Inv'
  <2> DEFINE h == task[t].url
             probe == IF breaker[h].open THEN "current" ELSE "no"
             next == [task[t] EXCEPT !.phase = "queued", !.probe = probe]
  <2>1. /\ task[t].phase = "acquired"
        /\ Allows(breaker[h])
        /\ breaker' = [breaker EXCEPT ![h] = Admitting(breaker[h])]
        /\ Move(t, next)
        /\ UNCHANGED <<lock, spaced, benched>>
    BY <1>3 DEF Admit, At
  <2>2. /\ h \in Origin /\ task[t].at \in Host
        /\ breaker[h] \in Circuit /\ CircuitSound(breaker[h])
        /\ task[t] \in TaskRow /\ ~task[t].rested
    BY <1>0, <2>1, CircuitsSound DEF Placed, TypeOK, LimiterSound
  <2>3. /\ next \in TaskRow
        /\ next.phase = "queued" /\ ~next.rested
        /\ next.url = h /\ next.at = task[t].at
        /\ next.probe = probe
    BY <2>2 DEF TaskRow
  <2>4. /\ Admitting(breaker[h]) \in Circuit
        /\ CircuitSound(Admitting(breaker[h]))
        /\ Admitting(breaker[h]).probe = breaker[h].open
    BY <2>1, <2>2 DEF Admitting, Allows, Circuit, CircuitSound
  <2> HIDE DEF next
  <2>5. /\ task'[t] = next
        /\ \A u \in Task \ {t} : task'[u] = task[u]
        /\ task' \in [Task -> TaskRow]
        /\ breaker' \in [Origin -> Circuit]
        /\ breaker'[h] = Admitting(breaker[h])
        /\ \A g \in Origin \ {h} : breaker'[g] = breaker[g]
    BY <1>0, <2>1, <2>2, <2>3, <2>4 DEF Move, TypeOK
  <2>6. Placed' BY <1>0, <2>2, <2>3, <2>5 DEF Placed
  <2>7. LimiterSound' BY <1>0, <2>1, <2>3, QuietLimiter
  <2>8. BreakerSound'
    <3> SUFFICES ASSUME NEW g \in Origin
                 PROVE  /\ CircuitSound(breaker'[g])
                        /\ \A u \in Task : task'[u].url = g /\ task'[u].probe = "current"
                                             => breaker'[g].probe
                        /\ \A u, v \in Task :
                             /\ task'[u].url = g /\ task'[u].probe = "current"
                             /\ task'[v].url = g /\ task'[v].probe = "current"
                             => u = v
      BY DEF BreakerSound, CircuitSound
    <3>1. CASE g = h
      <4>1. ~breaker[h].probe
        BY <2>1, <2>2 DEF Allows, CircuitSound
      <4>2. \A u \in Task \ {t} : ~(task'[u].url = h /\ task'[u].probe = "current")
        BY <1>0, <2>2, <2>5, <4>1 DEF BreakerSound
      <4>3. task'[t].probe = "current" => breaker'[h].probe
        BY <2>3, <2>4, <2>5
      <4> QED BY <2>4, <2>5, <3>1, <4>2, <4>3
    <3>2. CASE g # h
      <4>1. \A u \in Task : task'[u].url = g /\ task'[u].probe = "current"
              => task[u].url = g /\ task[u].probe = "current"
        BY <2>3, <2>5, <3>2
      <4>2. breaker'[g] = breaker[g] BY <2>5, <3>2
      <4> QED BY <1>0, <4>1, <4>2 DEF BreakerSound, CircuitSound
    <3> QED BY <3>1, <3>2
  <2>9. lock' \in Task \cup {Nobody} /\ spaced' \subseteq Host /\ benched' \subseteq Lease
    BY <1>0, <2>1 DEF TypeOK
  <2> QED BY <2>5, <2>6, <2>7, <2>8, <2>9 DEF Inv, TypeOK
<1>4. ASSUME NEW t \in Task, TakeTurn(t) PROVE Inv'
  <2>1. task[t].phase = "queued" /\ lock = Nobody BY <1>4 DEF TakeTurn, At
  <2>2. /\ task[t] \in TaskRow /\ ~task[t].rested
        /\ task[t].url \in Origin /\ task[t].at \in Host
        /\ \A u \in Task : task[u].phase # "sleeping" /\ ~task[u].rested
    BY <1>0, <2>1, TaskAssumption DEF TypeOK, LimiterSound, Placed
  <2>3. UNCHANGED <<breaker, benched>> BY <1>4 DEF TakeTurn
  <2>4. CASE spaced' = spaced \ {task[t].at} /\ Sending(t) /\ UNCHANGED lock
    <3> DEFINE next == [task[t] EXCEPT !.phase = "sending", !.rested = FALSE]
    <3>1. Fit(t, next) /\ next.phase = "sending" /\ ~next.rested
      BY <2>2 DEF Fit, TaskRow
    <3>2. Move(t, next) BY <2>4 DEF Sending
    <3> HIDE DEF next
    <3>3. task' \in [Task -> TaskRow] /\ Placed' /\ BreakerSound'
      BY <1>0, <2>3, <3>1, <3>2, MoveSound
    <3>4. LimiterSound'
      BY <1>0, <2>1, <2>2, <2>4, <3>1, <3>2, TaskAssumption DEF LimiterSound, Move, TypeOK
    <3> QED BY <1>0, <2>3, <2>4, <3>3, <3>4 DEF Inv, TypeOK
  <2>5. CASE /\ lock' = Sleeper(t)
             /\ Move(t, [task[t] EXCEPT !.phase = "sleeping"])
             /\ UNCHANGED spaced
    <3> DEFINE next == [task[t] EXCEPT !.phase = "sleeping"]
    <3>1. Fit(t, next) /\ next.phase = "sleeping" /\ ~next.rested
      BY <2>2 DEF Fit, TaskRow
    <3>2. Move(t, next) BY <2>5
    <3> HIDE DEF next
    <3>3. task' \in [Task -> TaskRow] /\ Placed' /\ BreakerSound'
      BY <1>0, <2>3, <3>1, <3>2, MoveSound
    <3>4. LimiterSound'
      BY <1>0, <2>2, <2>5, <3>1, <3>2 DEF LimiterSound, Move, TypeOK, Sleeper
    <3> QED BY <1>0, <2>3, <2>5, <3>3, <3>4 DEF Inv, TypeOK, Sleeper
  <2> QED BY <1>4, <2>4, <2>5 DEF TakeTurn
<1>5. ASSUME NEW t \in Task, Wake(t) PROVE Inv'
  <2>1. /\ task[t].phase = "sleeping"
        /\ spaced' = spaced \ {task[t].at}
        /\ lock' = Unlocked(t)
        /\ Sending(t)
        /\ UNCHANGED <<breaker, benched>>
    BY <1>5 DEF Wake, At
  <2>2. /\ task[t] \in TaskRow
        /\ task[t].url \in Origin /\ task[t].at \in Host
        /\ lock = t
        /\ \A u \in Task \ {t} : task[u].phase # "sleeping" /\ ~task[u].rested
    BY <1>0, <2>1 DEF TypeOK, LimiterSound, Placed
  <2> DEFINE next == [task[t] EXCEPT !.phase = "sending", !.rested = FALSE]
  <2>3. Fit(t, next) /\ next.phase = "sending" /\ ~next.rested
    BY <2>2 DEF Fit, TaskRow
  <2>4. Move(t, next) BY <2>1 DEF Sending
  <2> HIDE DEF next
  <2>5. task' \in [Task -> TaskRow] /\ Placed' /\ BreakerSound'
    BY <1>0, <2>1, <2>3, <2>4, MoveSound
  <2>6. LimiterSound'
    BY <1>0, <2>1, <2>2, <2>3, <2>4, TaskAssumption DEF LimiterSound, Move, TypeOK, Unlocked
  <2> QED BY <1>0, <2>1, <2>5, <2>6 DEF Inv, TypeOK, Unlocked
<1>6. ASSUME NEW t \in Task, Redirect(t) PROVE Inv'
  <2>1. PICK h \in Host :
          Move(t, [task[t] EXCEPT !.phase = "queued", !.at = h,
                                  !.redirects = task[t].redirects + 1])
    BY <1>6 DEF Redirect
  <2>2. /\ task[t].phase = "sending" /\ task[t].redirects < MaxRedirects
        /\ UNCHANGED <<breaker, lock, spaced, benched>>
    BY <1>6 DEF Redirect, MayFollow, At
  <2>3. /\ task[t] \in TaskRow /\ ~task[t].rested /\ task[t].url \in Origin
    BY <1>0, <2>2 DEF TypeOK, LimiterSound, Placed
  <2> DEFINE n == task[t].redirects + 1
             next == [task[t] EXCEPT !.phase = "queued", !.at = h, !.redirects = n]
  <2>4. n \in 0 .. MaxRedirects BY <2>2, <2>3, BoundAssumption DEF TaskRow
  <2>5. Move(t, next) BY <2>1
  <2> HIDE DEF n
  <2>6. Fit(t, next) /\ next.phase = "queued" /\ ~next.rested
    BY <2>3, <2>4 DEF Fit, TaskRow
  <2> HIDE DEF next
  <2>7. benched' \subseteq Lease BY <1>0, <2>2 DEF TypeOK
  <2> QED BY <2>2, <2>5, <2>6, <2>7, QuietInv
<1>7. ASSUME NEW t \in Task, RedirectLimit(t) \/ TransportFails(t) \/ Rejected(t)
                             \/ RedirectAway(t) \/ Unusable(t)
      PROVE  Inv'
  <2>1. task[t].phase = "sending" /\ UNCHANGED <<lock, spaced, benched>>
    BY <1>7 DEF RedirectLimit, TransportFails, Rejected, RedirectAway, Unusable, At
  <2>2. \E outcome \in Outcome, caught \in BOOLEAN :
          LET next == Reporting(t, outcome, caught) IN Failure(t, next) \/ Success(t, next)
    BY <1>7 DEF RedirectLimit, TransportFails, Rejected, RedirectAway, Unusable, Ending,
                EndingInTry, Outcome
  <2>3. task[t] \in TaskRow /\ task[t].url \in Origin
    BY <1>0, <2>1 DEF TypeOK, Placed
  <2> QED BY <2>1, <2>2, <2>3, ReportingFits, AnswerInv
<1>8. ASSUME NEW t \in Task, Respond(t) PROVE Inv'
  <2> DEFINE next == [task[t] EXCEPT !.phase = "parsing", !.probe = "no"]
  <2>1. /\ task[t].phase = "sending"
        /\ Learn(t, Closed, next)
        /\ UNCHANGED <<lock, spaced, benched>>
    BY <1>8 DEF Respond, Success, At
  <2>2. /\ task[t] \in TaskRow /\ ~task[t].rested /\ lock # t
        /\ task[t].url \in Origin /\ task[t].at \in Host
    BY <1>0, <2>1 DEF TypeOK, LimiterSound, Placed
  <2>3. Fit(t, next) /\ next.phase = "parsing" /\ next.probe = "no" /\ ~next.rested
    BY <2>2 DEF Fit, TaskRow
  <2> HIDE DEF next
  <2>4. /\ task' \in [Task -> TaskRow]
        /\ breaker' \in [Origin -> Circuit]
        /\ Placed' /\ BreakerSound'
        /\ \A u \in Task \ {t} : /\ task'[u].phase = task[u].phase
                                 /\ task'[u].at = task[u].at
                                 /\ task'[u].rested = task[u].rested
        /\ task'[t] = next
    BY <1>0, <2>1, <2>3, ClosedSound, LearnSound
  <2>5. lock' = Unlocked(t) BY <2>1, <2>2 DEF Unlocked
  <2>6. LimiterSound' BY <1>0, <2>1, <2>3, <2>4, <2>5, EndLimiter
  <2> QED BY <1>0, <2>1, <2>4, <2>6 DEF Inv, TypeOK
<1>9. ASSUME NEW t \in Task, Cancel(t) PROVE Inv'
  <2>1. /\ task[t].phase # "idle"
        /\ Failure(t, Reporting(t, "network_error", FALSE))
        /\ lock' = Unlocked(t) /\ UNCHANGED <<spaced, benched>>
    BY <1>9 DEF Cancel, Ending, At
  <2>2. task[t] \in TaskRow /\ task[t].url \in Origin
    BY <1>0, <2>1 DEF TypeOK, Placed
  <2>3. "network_error" \in Outcome BY DEF Outcome
  <2> QED BY <2>1, <2>2, <2>3, ReportingFits, OutcomeInv
<1>10. ASSUME NEW t \in Task, Abandon(t) PROVE Inv'
  <2>1. Move(t, Idle) /\ lock' = Unlocked(t) /\ UNCHANGED <<breaker, spaced, benched>>
    BY <1>10 DEF Abandon
  <2>2. /\ task' \in [Task -> TaskRow] /\ Placed' /\ BreakerSound'
    BY <1>0, <2>1, IdleFits, MoveSound
  <2>3. task'[t] = Idle /\ \A u \in Task \ {t} : task'[u] = task[u]
    BY <1>0, <2>1 DEF Move, TypeOK
  <2>4. LimiterSound' /\ lock' \in Task \cup {Nobody}
    BY <1>0, <2>1, <2>3, EndLimiter DEF Idle
  <2> QED BY <1>0, <2>1, <2>2, <2>4 DEF Inv, TypeOK
<1>11. ASSUME NEW h \in Origin, RecoveryElapses(h) PROVE Inv'
  <2>1. /\ breaker[h].open /\ ~breaker[h].cooled
        /\ breaker' = [breaker EXCEPT ![h] = [breaker[h] EXCEPT !.cooled = TRUE]]
        /\ UNCHANGED <<task, lock, spaced, benched>>
    BY <1>11 DEF RecoveryElapses
  <2> DEFINE b == [breaker[h] EXCEPT !.cooled = TRUE]
  <2>2. breaker[h] \in Circuit /\ CircuitSound(breaker[h]) BY <1>0, CircuitsSound
  <2>3. b \in Circuit /\ CircuitSound(b) /\ b.probe = breaker[h].probe
    BY <2>1, <2>2 DEF Circuit, CircuitSound
  <2> HIDE DEF b
  <2>4. breaker' \in [Origin -> Circuit] BY <1>0, <2>1, <2>3 DEF TypeOK, b
  <2>5. /\ breaker'[h] = b
        /\ \A g \in Origin \ {h} : breaker'[g] = breaker[g]
    BY <1>0, <2>1 DEF TypeOK, b
  <2>6. BreakerSound'
    BY <1>0, <2>1, <2>3, <2>5 DEF BreakerSound, CircuitSound
  <2> QED BY <1>0, <2>1, <2>4, <2>6 DEF Inv, TypeOK, Placed, LimiterSound
<1>12. ASSUME NEW h \in Host, IntervalElapses(h) PROVE Inv'
  <2>1. /\ spaced' = spaced \cup {h}
        /\ task' = [t \in Task |-> IF task[t].phase = "sleeping" /\ task[t].at = h
                                   THEN [task[t] EXCEPT !.rested = TRUE] ELSE task[t]]
        /\ UNCHANGED <<breaker, lock, benched>>
    BY <1>12 DEF IntervalElapses, At
  <2>2. ASSUME NEW t \in Task
        PROVE  /\ task'[t] \in TaskRow
               /\ task'[t].phase = task[t].phase /\ task'[t].url = task[t].url
               /\ task'[t].at = task[t].at /\ task'[t].probe = task[t].probe
               /\ task'[t].rested =>
                    task[t].rested \/ (task[t].phase = "sleeping" /\ task[t].at = h)
    <3>1. task[t] \in TaskRow BY <1>0 DEF TypeOK
    <3>2. CASE task[t].phase = "sleeping" /\ task[t].at = h
      <4>1. task'[t] = [task[t] EXCEPT !.rested = TRUE] BY <2>1, <3>2
      <4> QED BY <3>1, <3>2, <4>1 DEF TaskRow
    <3>3. CASE ~(task[t].phase = "sleeping" /\ task[t].at = h)
      <4>1. task'[t] = task[t] BY <2>1, <3>3
      <4> QED BY <3>1, <4>1
    <3> QED BY <3>2, <3>3
  <2>3. task' \in [Task -> TaskRow] BY <2>1, <2>2
  <2>4. Placed' BY <1>0, <2>2 DEF Placed
  <2>5. BreakerSound' BY <1>0, <2>1, <2>2 DEF BreakerSound
  <2>6. LimiterSound' BY <1>0, <2>1, <2>2 DEF LimiterSound
  <2> QED BY <1>0, <2>1, <2>3, <2>4, <2>5, <2>6 DEF Inv, TypeOK
<1>13. ASSUME NEW l \in Lease, QuarantineElapses(l) PROVE Inv'
  BY <1>0, <1>13 DEF QuarantineElapses, Inv, TypeOK, Placed, BreakerSound, LimiterSound
<1>14. CASE UNCHANGED vars
  BY <1>0, <1>14 DEF vars, Inv, TypeOK, Placed, BreakerSound, LimiterSound
<1> QED
  BY <1>1, <1>2, <1>2a, <1>2b, <1>3, <1>4, <1>5, <1>6, <1>7, <1>8, <1>9, <1>10, <1>11,
     <1>12, <1>13, <1>14
  DEF Next, Run, Proceed, Enter, Answer

LEMMA InvAlways == Spec => []Inv
  BY InitInv, NextInv, PTL DEF Spec

-----------------------------------------------------------------------------
(* Pacing *)

\* A task that is not sending begins to send only at its own turn, when its host may be
\* asked.
Paced(t) == task[t].phase # "sending" /\ task'[t].phase = "sending" => task[t].at \in spaced

LEMMA MoveQuietly ==
  ASSUME TypeOK, NEW t \in Task, NEW u \in Task, NEW next, Move(u, next),
         next.phase # "sending"
  PROVE  Paced(t)
  BY DEF TypeOK, Move, Paced

LEMMA LearnQuietly ==
  ASSUME TypeOK, NEW t \in Task, NEW u \in Task, NEW state, NEW next,
         Learn(u, state, next), next.phase # "sending"
  PROVE  Paced(t)
<1>1. task'[t] = IF t = u THEN next
                 ELSE IF task[t].url = task[u].url /\ task[t].probe = "current"
                      THEN [task[t] EXCEPT !.probe = "late"] ELSE task[t]
  BY DEF Learn
<1>2. t # u => task'[t].phase = task[t].phase BY <1>1 DEF TypeOK, TaskRow
<1> QED BY <1>1, <1>2 DEF Paced

LEMMA SendingPaced ==
  ASSUME TypeOK, NEW t \in Task, NEW u \in Task, Sending(u), task[u].at \in spaced
  PROVE  Paced(t)
  BY DEF TypeOK, Sending, Move, Paced

LEMMA ReportsQuietly ==
  ASSUME NEW u, NEW outcome, NEW caught
  PROVE  Reporting(u, outcome, caught).phase # "sending"
  BY DEF Reporting, Started, Idle

LEMMA StepPaced ==
  ASSUME Inv, [Next]_vars, NEW t \in Task
  PROVE  Paced(t)
<1>0. TypeOK /\ LimiterSound BY DEF Inv
<1>1. ASSUME NEW u \in Task, TakeTurn(u) PROVE Paced(t)
  <2>1. CASE task[u].at \in spaced /\ Sending(u)
    BY <1>0, <2>1, SendingPaced
  <2>2. CASE Move(u, [task[u] EXCEPT !.phase = "sleeping"])
    <3>1. [task[u] EXCEPT !.phase = "sleeping"].phase # "sending"
      BY <1>0 DEF TypeOK, TaskRow
    <3> QED BY <1>0, <2>2, <3>1, MoveQuietly
  <2> QED BY <1>1, <2>1, <2>2 DEF TakeTurn
<1>2. ASSUME NEW u \in Task, Wake(u) PROVE Paced(t)
  BY <1>0, <1>2, SendingPaced DEF Wake, LimiterSound
<1>3. ASSUME NEW u \in Task, Acquire(u) PROVE Paced(t)
  <2>1. PICK h \in Origin, L \in Contexts : Move(u, Started(h, L)) BY <1>3 DEF Acquire
  <2>2. Started(h, L).phase # "sending" BY DEF Started, Idle
  <2> QED BY <1>0, <2>1, <2>2, MoveQuietly
<1>4. ASSUME NEW u \in Task, NoCookie(u) \/ Refuse(u) \/ Parsed(u) PROVE Paced(t)
  <2>1. PICK outcome : Move(u, Reporting(u, outcome, FALSE))
    BY <1>4 DEF NoCookie, Refuse, Parsed, Ending
  <2> QED BY <1>0, <2>1, ReportsQuietly, MoveQuietly
<1>4a. ASSUME NEW u \in Task, Abandon(u) \/ Return(u) PROVE Paced(t)
  <2>1. Move(u, Idle) BY <1>4a DEF Abandon, Return
  <2>2. Idle.phase # "sending" BY DEF Idle
  <2> QED BY <1>0, <2>1, <2>2, MoveQuietly
<1>4b. ASSUME NEW u \in Task, Report(u) PROVE Paced(t)
  <2> DEFINE next == [task[u] EXCEPT !.phase = "reported"]
  <2>1. Move(u, next) BY <1>4b DEF Report
  <2>2. next.phase # "sending" BY <1>0 DEF TypeOK, TaskRow
  <2> QED BY <1>0, <2>1, <2>2, MoveQuietly
<1>5. ASSUME NEW u \in Task, Admit(u) PROVE Paced(t)
  <2> DEFINE next == [task[u] EXCEPT !.phase = "queued",
                        !.probe = IF breaker[task[u].url].open THEN "current" ELSE "no"]
  <2>1. Move(u, next) BY <1>5 DEF Admit
  <2>2. next.phase # "sending" BY <1>0 DEF TypeOK, TaskRow
  <2> QED BY <1>0, <2>1, <2>2, MoveQuietly
<1>6. ASSUME NEW u \in Task, Redirect(u) PROVE Paced(t)
  <2>1. task[u].phase = "sending" BY <1>6 DEF Redirect, At
  <2>2. PICK h \in Host :
          Move(u, [task[u] EXCEPT !.phase = "queued", !.at = h,
                                  !.redirects = task[u].redirects + 1])
    BY <1>6 DEF Redirect
  <2> DEFINE n == task[u].redirects + 1
             next == [task[u] EXCEPT !.phase = "queued", !.at = h, !.redirects = n]
  <2>3. Move(u, next) BY <2>2
  <2> HIDE DEF n
  <2>4. next.phase # "sending" BY <1>0 DEF TypeOK, TaskRow
  <2> HIDE DEF next
  <2> QED BY <1>0, <2>3, <2>4, MoveQuietly
<1>7. ASSUME NEW u \in Task,
             \/ RedirectLimit(u) \/ TransportFails(u) \/ Rejected(u)
             \/ RedirectAway(u) \/ Unusable(u) \/ Cancel(u)
      PROVE  Paced(t)
  <2>1. \E state, outcome, caught : Learn(u, state, Reporting(u, outcome, caught))
    BY <1>7 DEF RedirectLimit, TransportFails, Rejected, RedirectAway, Unusable, Cancel,
                Failure, Success, Ending, EndingInTry
  <2> QED BY <1>0, <2>1, ReportsQuietly, LearnQuietly
<1>8. ASSUME NEW u \in Task, Respond(u) PROVE Paced(t)
  <2> DEFINE next == [task[u] EXCEPT !.phase = "parsing", !.probe = "no"]
  <2>1. Learn(u, Closed, next) BY <1>8 DEF Respond, Success
  <2>2. next.phase # "sending" BY <1>0 DEF TypeOK, TaskRow
  <2> HIDE DEF next
  <2> QED BY <1>0, <2>1, <2>2, LearnQuietly
<1>9. ASSUME NEW h \in Host, IntervalElapses(h) PROVE Paced(t)
  <2>1. task'[t] = IF At(t, "sleeping") /\ task[t].at = h
                   THEN [task[t] EXCEPT !.rested = TRUE] ELSE task[t]
    BY <1>9 DEF IntervalElapses
  <2>2. task'[t].phase = task[t].phase BY <1>0, <2>1 DEF TypeOK, TaskRow
  <2> QED BY <2>2 DEF Paced
<1>10. ASSUME UNCHANGED task PROVE Paced(t)
  BY <1>10 DEF Paced
<1> QED
  BY <1>1, <1>2, <1>3, <1>4, <1>4a, <1>4b, <1>5, <1>6, <1>7, <1>8, <1>9, <1>10
  DEF Next, Run, Proceed, Enter, Answer, vars, RecoveryElapses, QuarantineElapses

-----------------------------------------------------------------------------
(* Theorems *)

\* Every task, circuit and shared variable of the fetcher always has values of its type.
THEOREM TypeCorrect == Spec => []TypeOK
<1>1. Inv => TypeOK BY DEF Inv
<1> QED BY <1>1, InvAlways, PTL

\* However late the outcome of a fetch comes (HostCircuitBreaker.failure and success do
\* not ask when it was admitted), the circuits stay sound.
THEOREM BreakerAlwaysSound == Spec => []BreakerSound
<1>1. Inv => BreakerSound BY DEF Inv
<1> QED BY <1>1, InvAlways, PTL

\* HostRateLimiter.wait lets no two requests to one host come closer than the minimum
\* interval, whoever sleeps, is cancelled or is redirected meanwhile.
THEOREM RequestsPaced == Spec => PacedRequests
<1>1. Inv /\ [Next]_vars =>
        [\A t \in Task : ~At(t, "sending") /\ task'[t].phase = "sending"
                           => task[t].at \in spaced]_vars
  BY StepPaced DEF Paced, At
<1> QED BY <1>1, InvAlways, PTL DEF Spec, PacedRequests
=============================================================================
