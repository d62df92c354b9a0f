------------------------------- MODULE Fetch -------------------------------
(***************************************************************************)
(* HttpFetcher.fetch run by several tasks at once, with what they share:   *)
(* HostCircuitBreaker, HostRateLimiter, and the cookies and proxies of the *)
(* RequestContextFactory, which an outcome may put into quarantine.        *)
(*                                                                         *)
(* A step of a task goes from one await at which it can be suspended to    *)
(* the next.  Time is kept as the comparisons the code makes with it:      *)
(*   cooled  -  the recovery period has passed since opened_at             *)
(*   spaced  -  the minimum interval has passed since the last request     *)
(*   rested  -  the delay a task went to sleep for has passed              *)
(*                                                                         *)
(* A definition whose comment starts with "Bug:" is not part of the model: *)
(* it is a faulty variant of the definition after it, kept to show which   *)
(* property notices the fault.                                             *)
(***************************************************************************)
EXTENDS Integers, FiniteSetsExt

CONSTANTS
  Task,         \* the concurrent callers of fetch
  Host,         \* host names, with and without "www."
  Origin,       \* the hosts of the URLs that fetch is called with
  Bare,         \* Bare[h]: h without "www."
  Lease,        \* the cookies and proxies the providers hold
  Kind,         \* Kind[l]: "cookie" or "proxy"
  Threshold,    \* circuit_failure_threshold
  MaxRedirects, \* redirects a fetch follows, 5 in the code
  NoHost, Nobody

ASSUME TaskAssumption == IsFiniteSet(Task) /\ Nobody \notin Task
ASSUME HostAssumption == Origin \subseteq Host /\ NoHost \notin Host
ASSUME LeaseAssumption == Kind \in [Lease -> {"cookie", "proxy"}]
ASSUME BoundAssumption == Threshold \in Nat \ {0} /\ MaxRedirects \in Nat

VARIABLES
  task,         \* what each task is doing
  breaker,      \* HostCircuitBreaker._states; failures are counted up to Threshold
  lock,         \* the task that holds HostRateLimiter._lock, or Nobody
  spaced,       \* the hosts whose last request is the minimum interval ago
  benched       \* the leases in quarantine

vars == <<task, breaker, lock, spaced, benched>>

\* probe is history: "current" from the admission of a fetch through an open circuit
\* to the next outcome its host reports, "late" from then on.
Idle == [phase |-> "idle", url |-> NoHost, at |-> NoHost, leases |-> {},
         redirects |-> 0, rested |-> FALSE, probe |-> "no",
         outcome |-> "none", caught |-> FALSE]
Started(h, L) == [phase |-> "acquired", url |-> h, at |-> h, leases |-> L,
                  redirects |-> 0, rested |-> FALSE, probe |-> "no",
                  outcome |-> "none", caught |-> FALSE]
Closed == [failures |-> 0, open |-> FALSE, cooled |-> FALSE, probe |-> FALSE]

Init ==
  /\ task = [t \in Task |-> Idle]
  /\ breaker = [h \in Origin |-> Closed]
  /\ lock = Nobody
  /\ spaced = Host
  /\ benched = {}

At(t, phase) == task[t].phase = phase

-----------------------------------------------------------------------------
(* Circuit breaker *)

\* Bug: an open circuit admits everybody once it has cooled.
AdmitsAll(b) == ~b.open \/ b.cooled

Allows(b) == ~b.open \/ (b.cooled /\ ~b.probe)
Admitting(b) == [b EXCEPT !.probe = b.open]

Failed(b) ==
  IF b.failures + 1 < Threshold
  THEN [b EXCEPT !.failures = b.failures + 1, !.probe = FALSE]
  ELSE [failures |-> Threshold, open |-> TRUE, cooled |-> FALSE, probe |-> FALSE]

\* A task goes on as `next` while the breaker of its host learns an outcome, which
\* makes the probes of that host late.
Move(t, next) == task' = [task EXCEPT ![t] = next]
Learn(t, state, next) ==
  LET h == task[t].url IN
  /\ breaker' = [breaker EXCEPT ![h] = state]
  /\ task' = [u \in Task |->
       IF u = t THEN next
       ELSE IF task[u].url = h /\ task[u].probe = "current"
            THEN [task[u] EXCEPT !.probe = "late"] ELSE task[u]]
Success(t, next) == Learn(t, Closed, next)
Failure(t, next) == Learn(t, Failed(breaker[task[t].url]), next)

-----------------------------------------------------------------------------
(* Cookies and proxies *)

Contexts ==
  {L \in SUBSET (Lease \ benched) : \A a, b \in L : Kind[a] = Kind[b] => a = b}
HasCookie(t) == \E l \in task[t].leases : Kind[l] = "cookie"
HasProxy(t) == \E l \in task[t].leases : Kind[l] = "proxy"

\* The outcomes that put a lease into quarantine
Benches(l) == IF Kind[l] = "cookie" THEN {"blocked"} ELSE {"blocked", "proxy_error"}

\* RequestContextFactory.report hands the outcome to the providers of its leases and waits
\* for them.  Whether a cancellation while it waits is caught depends on where in fetch it
\* was called.
Reporting(t, outcome, caught) ==
  IF task[t].leases = {} THEN Idle
  ELSE [Started(task[t].url, task[t].leases) EXCEPT
          !.phase = "reporting", !.outcome = outcome, !.caught = caught]

Ending(t, outcome) == Reporting(t, outcome, FALSE)
EndingInTry(t, outcome) == Reporting(t, outcome, TRUE)

Report(t) ==
  /\ At(t, "reporting")
  /\ benched' = IF task[t].outcome = "success" THEN benched \ task[t].leases
                ELSE benched \cup {l \in task[t].leases : task[t].outcome \in Benches(l)}
  /\ Move(t, [task[t] EXCEPT !.phase = "reported"])
  /\ UNCHANGED <<breaker, lock, spaced>>

Return(t) ==
  /\ At(t, "reported")
  /\ Move(t, Idle)
  /\ UNCHANGED <<breaker, lock, spaced, benched>>

-----------------------------------------------------------------------------
(* A fetch *)

\* The providers hand out leases that are not in quarantine; the fetch waits for the
\* last of them.
Acquire(t) ==
  /\ task[t] = Idle
  /\ \E h \in Origin, L \in Contexts : Move(t, Started(h, L))
  /\ UNCHANGED <<breaker, lock, spaced, benched>>

\* cookie_unavailable
NoCookie(t) ==
  /\ At(t, "acquired")
  /\ ~HasCookie(t)
  /\ Move(t, Ending(t, "success"))
  /\ UNCHANGED <<breaker, lock, spaced, benched>>

\* upstream_circuit_open
Refuse(t) ==
  /\ At(t, "acquired")
  /\ ~Allows(breaker[task[t].url])
  /\ Move(t, Ending(t, "success"))
  /\ UNCHANGED <<breaker, lock, spaced, benched>>

\* A fetch that does not require a cookie is admitted without one.
Admit(t) ==
  LET h == task[t].url IN
  /\ At(t, "acquired")
  /\ Allows(breaker[h])
  /\ breaker' = [breaker EXCEPT ![h] = Admitting(@)]
  /\ Move(t, [task[t] EXCEPT !.phase = "queued",
                             !.probe = IF breaker[h].open THEN "current" ELSE "no"])
  /\ UNCHANGED <<lock, spaced, benched>>

\* HostRateLimiter.wait: the lock, one for all hosts, is held while sleeping.
Sending(t) == Move(t, [task[t] EXCEPT !.phase = "sending", !.rested = FALSE])

\* Bug: the lock is released before the task sleeps.
NobodySleeps(t) == Nobody
Sleeper(t) == t

TakeTurn(t) ==
  /\ At(t, "queued")
  /\ lock = Nobody
  /\ \/ /\ task[t].at \in spaced
        /\ spaced' = spaced \ {task[t].at}
        /\ Sending(t)
        /\ UNCHANGED lock
     \/ /\ task[t].at \notin spaced
        /\ lock' = Sleeper(t)
        /\ Move(t, [task[t] EXCEPT !.phase = "sleeping"])
        /\ UNCHANGED spaced
  /\ UNCHANGED <<breaker, benched>>

\* Bug: a task that is cancelled in its sleep keeps the lock.
KeepsLock(t) == IF lock = t /\ task[t].rested THEN Nobody ELSE lock
Unlocked(t) == IF lock = t THEN Nobody ELSE lock

Wake(t) ==
  /\ At(t, "sleeping")
  /\ task[t].rested
  /\ spaced' = spaced \ {task[t].at}
  /\ lock' = Unlocked(t)
  /\ Sending(t)
  /\ UNCHANGED <<breaker, benched>>

-----------------------------------------------------------------------------
(* Answers *)

MayFollow(t) == task[t].redirects < MaxRedirects

\* A redirect within the site goes through the limiter again, under its own host.
Redirect(t) ==
  /\ At(t, "sending")
  /\ MayFollow(t)
  /\ \E h \in Host :
       /\ Bare[h] = Bare[task[t].url]
       /\ Move(t, [task[t] EXCEPT !.phase = "queued", !.at = h,
                                  !.redirects = task[t].redirects + 1])
  /\ UNCHANGED <<breaker, lock, spaced, benched>>

\* redirect_limit_exceeded
RedirectLimit(t) ==
  /\ At(t, "sending")
  /\ ~MayFollow(t)
  /\ Failure(t, EndingInTry(t, "network_error"))
  /\ UNCHANGED <<lock, spaced, benched>>

\* network_error, proxy_error, http_client_error
TransportFails(t) ==
  /\ At(t, "sending")
  /\ \/ Failure(t, Ending(t, "network_error"))
     \/ HasProxy(t) /\ Failure(t, Ending(t, "proxy_error"))
  /\ UNCHANGED <<lock, spaced, benched>>

\* upstream_blocked, upstream_retryable
Rejected(t) ==
  /\ At(t, "sending")
  /\ \E outcome \in {"blocked", "network_error"} : Failure(t, Ending(t, outcome))
  /\ UNCHANGED <<lock, spaced, benched>>

\* A redirect to another site: redirect_host_not_allowed
RedirectAway(t) ==
  /\ At(t, "sending")
  /\ Success(t, EndingInTry(t, "blocked"))
  /\ UNCHANGED <<lock, spaced, benched>>

\* The host answered, with nothing that can be used: an answer from another host,
\* response_too_large, proxy_authentication_error, a missing page, upstream_http_error
Unusable(t) ==
  /\ At(t, "sending")
  /\ \E outcome \in {"blocked", "parse_error", "proxy_error", "network_error"} :
       Success(t, Ending(t, outcome))
  /\ UNCHANGED <<lock, spaced, benched>>

\* A FetchResponse, with its context, goes to the plugin.
Respond(t) ==
  /\ At(t, "sending")
  /\ Success(t, [task[t] EXCEPT !.phase = "parsing", !.probe = "no"])
  /\ UNCHANGED <<lock, spaced, benched>>

\* The plugin reports what became of the page.
Parsed(t) ==
  /\ At(t, "parsing")
  /\ \E outcome \in {"success", "blocked", "parse_error"} : Move(t, Ending(t, outcome))
  /\ UNCHANGED <<breaker, lock, spaced, benched>>

\* Cancelled inside the try statement, which counts as a failure of the host, the second
\* outcome of a fetch that is reporting its first
Cancel(t) ==
  /\ \/ At(t, "sending")
     \/ task[t].phase \in {"queued", "sleeping"} /\ task[t].redirects > 0
     \/ task[t].phase \in {"reporting", "reported"} /\ task[t].caught
  /\ Failure(t, Ending(t, "network_error"))
  /\ lock' = Unlocked(t)
  /\ UNCHANGED <<spaced, benched>>

\* Cancelled outside of it, or ended by an exception it does not catch (a redirect to
\* a location that is no URL, a parser that raises): nobody is told, and what was still
\* being reported is lost.
Abandon(t) ==
  /\ \/ task[t].phase \in {"acquired", "sending", "parsing"}
     \/ task[t].phase \in {"queued", "sleeping"} /\ task[t].redirects = 0
     \/ task[t].phase \in {"reporting", "reported"} /\ ~task[t].caught
  /\ Move(t, Idle)
  /\ lock' = Unlocked(t)
  /\ UNCHANGED <<breaker, spaced, benched>>

-----------------------------------------------------------------------------
(* Time *)

RecoveryElapses(h) ==
  /\ breaker[h].open
  /\ ~breaker[h].cooled
  /\ breaker' = [breaker EXCEPT ![h].cooled = TRUE]
  /\ UNCHANGED <<task, lock, spaced, benched>>

\* The interval since the last request to h, which those who sleep have waited for
IntervalElapses(h) ==
  /\ h \notin spaced
  /\ spaced' = spaced \cup {h}
  /\ task' = [t \in Task |-> IF At(t, "sleeping") /\ task[t].at = h
                             THEN [task[t] EXCEPT !.rested = TRUE] ELSE task[t]]
  /\ UNCHANGED <<breaker, lock, benched>>

QuarantineElapses(l) ==
  /\ l \in benched
  /\ benched' = benched \ {l}
  /\ UNCHANGED <<task, breaker, lock, spaced>>

-----------------------------------------------------------------------------

Enter(t) == NoCookie(t) \/ Refuse(t) \/ Admit(t)
Answer(t) ==
  \/ Redirect(t) \/ RedirectAway(t) \/ RedirectLimit(t) \/ TransportFails(t)
  \/ Rejected(t) \/ Unusable(t) \/ Respond(t)
Proceed(t) ==
  Enter(t) \/ Wake(t) \/ Answer(t) \/ Parsed(t) \/ Report(t) \/ Return(t)
Run(t) == Acquire(t) \/ Proceed(t) \/ TakeTurn(t) \/ Cancel(t) \/ Abandon(t)

Next ==
  \/ \E t \in Task : Run(t)
  \/ \E h \in Origin : RecoveryElapses(h)
  \/ \E h \in Host : IntervalElapses(h)
  \/ \E l \in Lease : QuarantineElapses(l)

Spec == Init /\ [][Next]_vars

(***************************************************************************)
(* The event loop runs every task that can run, every request and every    *)
(* sleep ends (each send has a timeout), and the limiter's asyncio.Lock is *)
(* given to its waiters in the order they came.                            *)
(***************************************************************************)
Fairness ==
  /\ \A t \in Task : WF_vars(Proceed(t)) /\ SF_vars(TakeTurn(t))
  /\ \A h \in Host : WF_vars(IntervalElapses(h))

FairSpec == Spec /\ Fairness

-----------------------------------------------------------------------------
(* Properties *)

\* Every task, circuit and shared variable has values of its type.
Busy(t) == ~At(t, "idle")
Outcome == {"none", "success", "blocked", "parse_error", "proxy_error", "network_error"}
TaskRow ==
  [phase : {"idle", "acquired", "queued", "sleeping", "sending", "parsing", "reporting",
            "reported"},
   url : Origin \cup {NoHost}, at : Host \cup {NoHost}, leases : SUBSET Lease,
   redirects : 0 .. MaxRedirects, rested : BOOLEAN, probe : {"no", "current", "late"},
   outcome : Outcome, caught : BOOLEAN]
Circuit == [failures : 0 .. Threshold, open : BOOLEAN, cooled : BOOLEAN, probe : BOOLEAN]
TypeOK ==
  /\ task \in [Task -> TaskRow]
  /\ breaker \in [Origin -> Circuit]
  /\ lock \in Task \cup {Nobody}
  /\ spaced \subseteq Host
  /\ benched \subseteq Lease

\* Whatever outcomes of fetches admitted before, during and after an opening arrive,
\* in whatever order, the state of a circuit makes sense: it is open exactly when
\* Threshold failures came since the last success, a probe is only out when it is open
\* and has cooled, and of the fetches admitted through it since the last outcome of its
\* host there is at most one.
BreakerSound ==
  \A h \in Origin :
    LET b == breaker[h]
        Probes(t) == task[t].url = h /\ task[t].probe = "current"
    IN  /\ b.open <=> b.failures = Threshold
        /\ b.cooled => b.open
        /\ b.probe => b.cooled
        /\ \A t \in Task : Probes(t) => b.probe
        /\ \A t, u \in Task : Probes(t) /\ Probes(u) => t = u

\* Two requests to one host are always the minimum interval apart, also when several
\* tasks ask for a turn while one sleeps and tasks are cancelled in their sleep.
PacedRequests ==
  [][\A t \in Task : ~At(t, "sending") /\ task'[t].phase = "sending" => task[t].at \in spaced]_vars

\* No fetch waits for its turn for ever, whoever is cancelled: every fetch ends.
FetchesEnd == \A t \in Task : Busy(t) ~> ~Busy(t)

\* docs/OPERATIONS.md and README.md: after the recovery window one probe is let through.
OneProbe ==
  \A h \in Origin : breaker[h].open =>
    Cardinality({t \in Task : task[t].url = h /\ task[t].probe # "no"}) <= 1

=============================================================================
