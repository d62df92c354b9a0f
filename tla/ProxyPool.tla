----------------------------- MODULE ProxyPool -----------------------------
(***************************************************************************)
(* RotatingProxyProvider: a queue of proxies that is filled from an        *)
(* extraction service when none of them can be used, shared by all the     *)
(* concurrent fetches of a process.                                        *)
(*                                                                         *)
(* A task is suspended in two places: waiting for the lock, and waiting    *)
(* for the extraction service while it holds the lock.  What it does       *)
(* between them is one step.                                               *)
(*                                                                         *)
(* A definition whose comment starts with "Bug:" is not part of the model: *)
(* it is a faulty variant of the definition after it.                      *)
(***************************************************************************)
EXTENDS Integers, Sequences, SequencesExt

CONSTANTS
  Task,         \* the concurrent callers of acquire
  Proxy,        \* the proxies the extraction service may return
  Direct,       \* stands for no proxy
  Nobody

ASSUME ProxyAssumption == IsFiniteSet(Proxy) /\ Direct \notin Proxy
ASSUME TaskAssumption == Nobody \notin Task

VARIABLES
  queue,        \* _queue; _by_id holds the same proxies
  benched,      \* the proxies whose _quarantined_until is to come
  cooling,      \* _load_retry_after is to come
  lock,         \* the task that holds _lock, or Nobody
  task,         \* what each task is doing, and the proxy it has
  owed          \* history: <<p, q>> if q is free since before p was last handed out

vars == <<queue, benched, cooling, lock, task, owed>>

Idle == [phase |-> "idle", proxy |-> Direct]
Waiting == [phase |-> "waiting", proxy |-> Direct]
Loading == [phase |-> "loading", proxy |-> Direct]
Using(p) == [phase |-> "using", proxy |-> p]

Init ==
  /\ queue = << >>
  /\ benched = {}
  /\ cooling = FALSE
  /\ lock = Nobody
  /\ task = [t \in Task |-> Idle]
  /\ owed = {}

At(t, phase) == task[t].phase = phase
Move(t, next) == task' = [task EXCEPT ![t] = next]

Members(q) == {q[i] : i \in DOMAIN q}
Free(q) == Members(q) \ benched

-----------------------------------------------------------------------------
(* The end of acquire *)

\* Bug: a proxy that is handed out keeps its place in the queue.
KeepsPlace(q, k) == q

\* The first k proxies of the queue go to its end.
Rotated(q, k) ==
  [i \in 1 .. Len(q) |-> IF i <= Len(q) - k THEN q[i + k] ELSE q[i + k - Len(q)]]

IsFirstFree(q, k) ==
  /\ k \in DOMAIN q
  /\ q[k] \notin benched
  /\ \A i \in 1 .. k - 1 : q[i] \in benched

\* Of the queue q the first free proxy, or none, which lets the fetch go out directly
HandOut(t, q) ==
  \/ /\ Free(q) = {}
     /\ queue' = q
     /\ Move(t, Using(Direct))
     /\ UNCHANGED owed
  \/ \E k \in DOMAIN q :
       /\ IsFirstFree(q, k)
       /\ queue' = Rotated(q, k)
       /\ Move(t, Using(q[k]))
       /\ owed' = {o \in owed : q[k] \notin {o[1], o[2]}}
                    \cup {<<q[k], p>> : p \in Free(q) \ {q[k]}}

-----------------------------------------------------------------------------
(* acquire *)

\* A free proxy needs no lock.
AcquireFree(t) ==
  /\ At(t, "idle")
  /\ Free(queue) # {}
  /\ HandOut(t, queue)
  /\ UNCHANGED <<benched, cooling, lock>>

\* While the last failure cools down acquire raises and nothing changes.
AcquireWaits(t) ==
  /\ At(t, "idle")
  /\ Free(queue) = {}
  /\ ~cooling
  /\ Move(t, Waiting)
  /\ UNCHANGED <<queue, benched, cooling, lock, owed>>

\* Bug: a task that has waited for the lock does not look at the pool again.
LoadsAnyway == TRUE
MustLoad == Free(queue) = {} /\ ~cooling

\* Under the lock the pool is looked at again.
Lock(t) ==
  /\ At(t, "waiting")
  /\ lock = Nobody
  /\ MustLoad
  /\ lock' = t
  /\ Move(t, Loading)
  /\ UNCHANGED <<queue, benched, cooling, owed>>

FindFree(t) ==
  /\ At(t, "waiting")
  /\ lock = Nobody
  /\ ~MustLoad
  /\ Free(queue) # {}
  /\ HandOut(t, queue)
  /\ UNCHANGED <<benched, cooling, lock>>

FindCooling(t) ==
  /\ At(t, "waiting")
  /\ lock = Nobody
  /\ ~MustLoad
  /\ Free(queue) = {}
  /\ Move(t, Idle)
  /\ UNCHANGED <<queue, benched, cooling, lock, owed>>

Enter(t) == Lock(t) \/ FindFree(t) \/ FindCooling(t)

Unqueued(loaded) == loaded \ Members(queue)

Load(t) ==
  /\ At(t, "loading")
  /\ \E loaded \in (SUBSET Proxy) \ {{}} :
       \E new \in SetToSeqs(Unqueued(loaded)) : HandOut(t, queue \o new)
  /\ lock' = Nobody
  /\ cooling' = FALSE
  /\ UNCHANGED benched

\* Bug: the lock is not released by an exception.
Kept(t) == t
Released(t) == Nobody

\* The service raises or returns nothing that is a proxy: acquire raises.
LoadFails(t) ==
  /\ At(t, "loading")
  /\ lock' = Released(t)
  /\ cooling' = TRUE
  /\ Move(t, Idle)
  /\ UNCHANGED <<queue, benched, owed>>

-----------------------------------------------------------------------------

\* RequestContextFactory.report, once for each fetch
Report(t) ==
  /\ At(t, "using")
  /\ \E outcome \in {"success", "blocked", "proxy_error", "other"} :
       benched' = IF task[t].proxy \notin Members(queue) THEN benched
                  ELSE CASE outcome \in {"blocked", "proxy_error"} -> benched \cup {task[t].proxy}
                         [] outcome = "success" -> benched \ {task[t].proxy}
                         [] OTHER -> benched
  /\ owed' = {o \in owed : o[2] \notin benched'}
  /\ Move(t, Idle)
  /\ UNCHANGED <<queue, cooling, lock>>

\* A cancellation is no exception of the service: nothing cools down.  A fetch that is
\* cancelled does not always report.
Cancel(t) ==
  /\ ~At(t, "idle")
  /\ lock' = IF lock = t THEN Nobody ELSE lock
  /\ Move(t, Idle)
  /\ UNCHANGED <<queue, benched, cooling, owed>>

QuarantineElapses(p) ==
  /\ p \in benched
  /\ benched' = benched \ {p}
  /\ UNCHANGED <<queue, cooling, lock, task, owed>>

CooldownElapses ==
  /\ cooling
  /\ cooling' = FALSE
  /\ UNCHANGED <<queue, benched, lock, task, owed>>

Run(t) ==
  \/ AcquireFree(t) \/ AcquireWaits(t) \/ Enter(t) \/ Load(t) \/ LoadFails(t)
  \/ Report(t) \/ Cancel(t)

Next ==
  \/ \E t \in Task : Run(t)
  \/ \E p \in Proxy : QuarantineElapses(p)
  \/ CooldownElapses

Spec == Init /\ [][Next]_vars

(***************************************************************************)
(* The extraction client has a timeout, and asyncio.Lock is given to its   *)
(* waiters in the order they came.                                         *)
(***************************************************************************)
Fairness == \A t \in Task : SF_vars(Enter(t)) /\ WF_vars(Load(t) \/ LoadFails(t))

FairSpec == Spec /\ Fairness

-----------------------------------------------------------------------------
(* Properties *)

\* Every variable has values of its type; a proxy is in the queue once.
TaskRow == [phase : {"idle", "waiting", "loading", "using"}, proxy : Proxy \cup {Direct}]
TypeOK ==
  /\ queue \in Seq(Proxy)
  /\ \A i, j \in DOMAIN queue : queue[i] = queue[j] => i = j
  /\ benched \subseteq Proxy
  /\ cooling \in BOOLEAN
  /\ lock \in Task \cup {Nobody}
  /\ task \in [Task -> TaskRow]
  /\ owed \subseteq Proxy \X Proxy

\* The extraction service is asked only when there is no free proxy and no failure cools
\* down, and by one task at a time, however many wait and whatever happened while they did.
LoadsNeeded ==
  [][\A t \in Task : ~At(t, "loading") /\ task'[t].phase = "loading" =>
       /\ Free(queue) = {}
       /\ ~cooling
       /\ \A u \in Task : ~At(u, "loading")]_vars

\* The load is shared: no proxy is handed out twice while another is free all the time and
\* is not handed out, whatever quarantines begin and end and whatever a load adds.
RoundRobin ==
  [][\A t \in Task : ~At(t, "using") /\ task'[t].phase = "using" =>
       \A o \in owed : o[1] # task'[t].proxy]_vars

\* Whoever fails or is cancelled under the lock, acquire comes to an end.
AcquireEnds == \A t \in Task : task[t].phase \in {"waiting", "loading"} ~> task[t].phase \in {"idle", "using"}
=============================================================================
