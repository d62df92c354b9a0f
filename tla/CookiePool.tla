----------------------------- MODULE CookiePool -----------------------------
(***************************************************************************)
(* LegacyRedisCookieProvider: a cache of the cookies in Redis, read anew   *)
(* when it is stale, with a direct lookup when it holds none that fits, a  *)
(* memory of the lookups that found nothing, and a quarantine.             *)
(*                                                                         *)
(* Redis is read by a worker thread while the event loop goes on, so a     *)
(* load is three steps: it begins, Redis is read, and what was read is     *)
(* applied later.  A SCAN returns at least the keys that are there all the *)
(* time, and MGET drops those that have expired since.                     *)
(*                                                                         *)
(* The keys of cookies are unique: one that has expired does not return.   *)
(*                                                                         *)
(* A definition whose comment starts with "Bug:" is not part of the model: *)
(* it is a faulty variant of the definition after it.                      *)
(***************************************************************************)
EXTENDS Integers, FiniteSets

CONSTANTS
  Caller,       \* the concurrent callers of the provider
  Fetcher,      \* those of them that acquire cookies
  Cookie,       \* the cookies that may ever be stored for one marketplace
  Request,      \* what is asked for: a postal code, or any
  Matches,      \* Matches[r]: the cookies that fit request r
  Refresh,      \* the "request" of refresh(), which wants no cookie
  Nobody, NoCookie

ASSUME CallerAssumption == Fetcher \subseteq Caller /\ Nobody \notin Caller
ASSUME RequestAssumption == Matches \in [Request -> SUBSET Cookie] /\ Refresh \notin Request
ASSUME CookieAssumption == NoCookie \notin Cookie

VARIABLES
  unborn,       \* the cookies that have not been stored yet
  stored,       \* the cookies in Redis
  known,        \* _cache and _by_lease_id, which hold the same cookies
  benched,      \* the cookies whose _quarantined_until is to come
  fresh,        \* _last_refresh_monotonic is less than refresh_seconds ago
  missed,       \* the requests whose _direct_miss_until is to come
  refreshing,   \* the holder of _refresh_lock, or Nobody
  looking,      \* the holder of _direct_lookup_lock, or Nobody
  call,         \* what each caller is doing
  blocked,      \* history: the cookies a fetch has reported blocked less than
                \* quarantine_seconds ago, and none has reported a success for since
  dropped       \* history: the cookies a refresh has removed from the cache, until a
                \* report that they are blocked is counted

redis == <<unborn, stored>>
history == <<blocked, dropped>>
cache == <<known, benched, fresh, missed, history>>
locks == <<refreshing, looking>>
poolVars == <<redis, cache, locks, call>>

\* read: the thread has read Redis.  seen: until then the cookies that were stored when
\* the load began, from then on what was read.  rests: the quarantines at that moment.
NoCall == [phase |-> "idle", request |-> Refresh, cookie |-> NoCookie,
           read |-> FALSE, seen |-> {}, rests |-> {}]
Waiting(phase, r) == [phase |-> phase, request |-> r, cookie |-> NoCookie,
                      read |-> FALSE, seen |-> {}, rests |-> {}]
Loading(phase, r, rests) == [phase |-> phase, request |-> r, cookie |-> NoCookie,
                             read |-> FALSE, seen |-> stored, rests |-> rests]
Using(r, x) == [phase |-> "using", request |-> r, cookie |-> x,
                read |-> FALSE, seen |-> {}, rests |-> {}]

PoolInit ==
  /\ unborn = Cookie
  /\ stored = {}
  /\ known = {}
  /\ benched = {}
  /\ fresh = FALSE
  /\ missed = {}
  /\ refreshing = Nobody
  /\ looking = Nobody
  /\ call = [c \in Caller |-> NoCall]
  /\ blocked = {} /\ dropped = {}

At(c, phase) == call[c].phase = phase
Move(c, next) == call' = [call EXCEPT ![c] = next]

-----------------------------------------------------------------------------
(* _ensure_fresh and refresh *)

\* The rest of acquire once the cache is fresh: a cookie of the cache, nothing while a miss
\* is remembered, or a direct lookup.
Search(c, r, cookies, rests, misses) ==
  LET fit == (Matches[r] \cap cookies) \ rests IN
  \/ \E x \in fit : Move(c, Using(r, x))
  \/ fit = {} /\ r \in misses /\ Move(c, NoCall)
  \/ fit = {} /\ r \notin misses /\ Move(c, Waiting("unfound", r))

Acquire(c, r) ==
  /\ At(c, "idle")
  /\ IF fresh THEN Search(c, r, known, benched, missed)
     ELSE Move(c, Waiting("stale", r))
  /\ UNCHANGED <<redis, cache, locks>>

\* refresh(), which reads Redis also if the cache is fresh
BeginRefresh(c) ==
  /\ At(c, "idle")
  /\ Move(c, Waiting("stale", Refresh))

\* Bug: refresh() is _ensure_fresh().
FreshForAll(c) == fresh
\* Bug: who has waited for the lock reads Redis again.
NeverFresh(c) == FALSE
FreshFor(c) == fresh /\ call[c].request # Refresh

\* Under the lock the age of the cache is looked at again.
EnterRefresh(c) ==
  /\ At(c, "stale")
  /\ refreshing = Nobody
  /\ IF FreshFor(c)
     THEN /\ IF call[c].request = Refresh THEN Move(c, NoCall)
             ELSE Search(c, call[c].request, known, benched, missed)
          /\ UNCHANGED refreshing
     ELSE /\ Move(c, Loading("refreshing", call[c].request, {}))
          /\ refreshing' = c
  /\ UNCHANGED <<redis, cache, looking>>

\* The thread of c reads Redis.
Read(c) ==
  /\ call[c].phase \in {"refreshing", "looking"}
  /\ ~call[c].read
  /\ \E s \in SUBSET stored :
       /\ call[c].seen \cap stored \subseteq s
       /\ Move(c, [call[c] EXCEPT !.read = TRUE, !.seen = s])
  /\ UNCHANGED <<redis, cache, locks>>

\* Bug: a refresh forgets all quarantines.
NoneResting(cookies) == {}
\* _remove_expired_quarantines
StillResting(cookies) == benched \cap cookies

ApplyRefresh(c) ==
  /\ At(c, "refreshing")
  /\ call[c].read
  /\ known' = call[c].seen
  /\ benched' = StillResting(call[c].seen)
  /\ dropped' = dropped \cup (known \ call[c].seen)
  /\ fresh' = TRUE
  /\ missed' = {}
  /\ refreshing' = Nobody
  /\ IF call[c].request = Refresh THEN Move(c, NoCall)
     ELSE Search(c, call[c].request, known', benched', {})
  /\ UNCHANGED <<redis, looking, blocked>>

-----------------------------------------------------------------------------
(* _direct_lookup *)

EnterLookup(c) ==
  LET r == call[c].request IN
  /\ At(c, "unfound")
  /\ looking = Nobody
  /\ \/ /\ r \in missed
        /\ Move(c, NoCall)
        /\ UNCHANGED looking
     \/ /\ r \notin missed
        /\ Move(c, Loading("looking", r, benched))
        /\ looking' = c
  /\ UNCHANGED <<redis, cache, refreshing>>

\* The clock was read before Redis: a quarantine that was over meanwhile still counts,
\* unless its entry was removed.
ApplyLookup(c) ==
  LET r == call[c].request
      fit == (Matches[r] \cap call[c].seen) \ benched
  IN
  /\ At(c, "looking")
  /\ call[c].read
  /\ \/ \E x \in fit :
          /\ known' = known \cup {x}
          /\ missed' = missed \ {r}
          /\ Move(c, Using(r, x))
     \/ /\ fit \subseteq call[c].rests
        /\ missed' = missed \cup {r}
        /\ Move(c, NoCall)
        /\ UNCHANGED known
  /\ looking' = Nobody
  /\ UNCHANGED <<redis, benched, fresh, history, refreshing>>

-----------------------------------------------------------------------------
(* How a call ends otherwise *)

Without(lock, c) == IF lock = c THEN Nobody ELSE lock

Unlock(c) ==
  /\ refreshing' = Without(refreshing, c)
  /\ looking' = Without(looking, c)

\* Redis cannot be read: the call raises.
LoadFails(c) ==
  /\ call[c].phase \in {"refreshing", "looking"}
  /\ ~call[c].read
  /\ Unlock(c)
  /\ Move(c, NoCall)
  /\ UNCHANGED <<redis, cache>>

\* The call is cancelled, or the fetch it was for never reports.
Cancel(c) ==
  /\ ~At(c, "idle")
  /\ Unlock(c)
  /\ Move(c, NoCall)
  /\ UNCHANGED <<redis, cache>>

\* The report for a cookie that is not in the cache (any more) is ignored.
Report(c) ==
  LET x == call[c].cookie  counted == {x} \cap known IN
  /\ At(c, "using")
  /\ \/ /\ benched' = benched \cup counted     \* blocked, auth_invalid
        /\ blocked' = blocked \cup {x}
        /\ dropped' = dropped \ counted
     \/ /\ benched' = benched \ counted        \* success
        /\ blocked' = blocked \ {x}
        /\ UNCHANGED dropped
     \/ UNCHANGED <<benched, history>>          \* others
  /\ Move(c, NoCall)
  /\ UNCHANGED <<redis, known, fresh, missed, locks>>

-----------------------------------------------------------------------------
(* Redis and time *)

Store(x) ==
  /\ x \in unborn
  /\ unborn' = unborn \ {x}
  /\ stored' = stored \cup {x}

Expire(x) ==
  /\ x \in stored
  /\ stored' = stored \ {x}
  /\ UNCHANGED <<unborn, cache, locks, call>>

CacheAges ==
  /\ fresh
  /\ fresh' = FALSE
  /\ UNCHANGED <<redis, known, benched, missed, history, locks, call>>

QuarantineElapses(x) ==
  /\ x \in benched \cup blocked
  /\ benched' = benched \ {x}
  /\ blocked' = blocked \ {x}
  /\ UNCHANGED <<redis, known, fresh, missed, dropped, locks, call>>

MissElapses(r) ==
  /\ r \in missed
  /\ missed' = missed \ {r}
  /\ UNCHANGED <<redis, known, benched, fresh, history, locks, call>>

Load(c) == Read(c) \/ ApplyRefresh(c) \/ ApplyLookup(c) \/ LoadFails(c)

Use(c) ==
  \/ \E r \in Request : Acquire(c, r)
  \/ Report(c)
  \/ Cancel(c)

-----------------------------------------------------------------------------
(* Properties *)

\* Every variable of the pool has values of its type.
CallRow == [phase : {"idle", "stale", "refreshing", "unfound", "looking", "using"},
            request : Request \cup {Refresh}, cookie : Cookie \cup {NoCookie},
            read : BOOLEAN, seen : SUBSET Cookie, rests : SUBSET Cookie]
PoolTypeOK ==
  /\ unborn \subseteq Cookie /\ stored \subseteq Cookie \ unborn
  /\ known \subseteq Cookie /\ benched \subseteq Cookie
  /\ fresh \in BOOLEAN
  /\ missed \subseteq Request
  /\ refreshing \in Caller \cup {Nobody} /\ looking \in Caller \cup {Nobody}
  /\ call \in [Caller -> CallRow]
  /\ blocked \subseteq Cookie /\ dropped \subseteq Cookie

\* A cookie that a fetch has found blocked rests, unless a refresh dropped it from the
\* cache while it was in use or resting: nothing else loses its quarantine, in whatever
\* order loads, lookups and reports of several fetches are applied.
RestsUnlessDropped == blocked \subseteq benched \cup dropped

\* ARCHITECTURE.md: failed cookies enter a quarantine period.  No cookie that is stored, and
\* that the pool may hand out, was found blocked less than that period ago.
BlockedRests == blocked \cap known \cap stored \subseteq benched

\* Of the callers that found the cache stale at the same time, one reads Redis, and the
\* others see what it found.  Direct lookups read Redis one at a time, and once one has
\* found nothing those that wait do not read it until the miss is forgotten; but after a
\* lookup that found a cookie each of them reads Redis again.
LoadsNeeded ==
  [][\A c \in Caller :
       /\ ~At(c, "refreshing") /\ call'[c].phase = "refreshing" /\ call[c].request # Refresh
          => ~fresh /\ \A d \in Caller : ~At(d, "refreshing")
       /\ ~At(c, "looking") /\ call'[c].phase = "looking"
          => call[c].request \notin missed /\ \A d \in Caller : ~At(d, "looking")]_poolVars
=============================================================================
