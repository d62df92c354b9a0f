------------------------ MODULE CookieHarvestProofs ------------------------
(* Theorems about CookieHarvest and CookiePool, for any number of callers and cookies. *)
EXTENDS CookieHarvest, FiniteSetTheorems, TLAPS

(***************************************************************************)
(* The invariant.  The cookies of a fill are old: they were stored, so     *)
(* none of them will be stored again.  Once the fill has refreshed the     *)
(* pool, they are known as long as they are stored, and so they are to     *)
(* every refresh that is under way, which the lock keeps from having begun *)
(* before.                                                                 *)
(***************************************************************************)
LockSound ==
  \A c \in Caller : /\ At(c, "refreshing") <=> refreshing = c
                    /\ At(c, "looking") <=> looking = c

FillerCalls ==
  \A f \in Filler :
    /\ ~In(f, "refreshing") => At(f, "idle")
    /\ call[f].phase \in {"idle", "stale", "refreshing"}
    /\ call[f].request = Refresh

LookupsAsked ==
  \A c \in Caller : At(c, "unfound") \/ At(c, "looking") => call[c].request \in Request

\* A quarantine is lost only with the cookie's place in the cache, and so is the cookie
\* that a fetch uses.
Rested ==
  /\ benched \subseteq known
  /\ RestsUnlessDropped
  /\ \A c \in Caller : At(c, "using") => call[c].cookie \in known \cup dropped

MadeOld == \A f \in Filler : fill[f].made \cap unborn = {}

Ready(f) == In(f, "done") \/ (In(f, "refreshing") /\ At(f, "idle"))
Covered(f, S) == fill[f].made \cap stored \subseteq S
Visible ==
  \A f \in Filler :
    /\ Ready(f) => Covered(f, known)
    /\ \A c \in Caller : Ready(f) /\ At(c, "refreshing") => Covered(f, call[c].seen)
    /\ At(f, "refreshing") => Covered(f, call[f].seen)

Inv ==
  /\ TypeOK /\ LockSound /\ FillerCalls /\ LookupsAsked /\ Rested
  /\ MadeOld /\ FillBounded /\ Visible

-----------------------------------------------------------------------------
(* The rows of calls *)

LEMMA NoCallType == NoCall \in CallRow /\ NoCall.phase = "idle" /\ NoCall.request = Refresh
  BY DEF NoCall, CallRow

LEMMA WaitingType ==
  ASSUME NEW r \in Request \cup {Refresh}, NEW p \in {"stale", "unfound"}
  PROVE  Waiting(p, r) \in CallRow /\ Waiting(p, r).phase = p /\ Waiting(p, r).request = r
  BY DEF Waiting, CallRow

LEMMA LoadingType ==
  ASSUME NEW r \in Request \cup {Refresh}, NEW p \in {"refreshing", "looking"},
         NEW b \in SUBSET Cookie, stored \subseteq Cookie
  PROVE  /\ Loading(p, r, b) \in CallRow
         /\ Loading(p, r, b).phase = p
         /\ Loading(p, r, b).request = r
         /\ Loading(p, r, b).seen = stored
  BY DEF Loading, CallRow

LEMMA UsingType ==
  ASSUME NEW r \in Request, NEW x \in Cookie
  PROVE  /\ Using(r, x) \in CallRow /\ Using(r, x).phase = "using"
         /\ Using(r, x).cookie = x
  BY DEF Using, CallRow

\* A search ends the call, finds a cookie, or goes on to a lookup.
LEMMA SearchEnds ==
  ASSUME NEW c, NEW r \in Request, NEW K \in SUBSET Cookie, NEW b, NEW ms,
         Search(c, r, K, b, ms)
  PROVE  \E next \in CallRow : /\ Move(c, next)
                               /\ next.phase \in {"idle", "using", "unfound"}
                               /\ next.phase = "unfound" => next.request \in Request
                               /\ next.phase = "using" => next.cookie \in K
  <1>1. CASE \E x \in (Matches[r] \cap K) \ b : Move(c, Using(r, x))
    BY <1>1, UsingType
  <1>2. CASE Move(c, NoCall)
    BY <1>2, NoCallType
  <1>3. CASE Move(c, Waiting("unfound", r))
    BY <1>3, WaitingType
  <1> QED BY <1>1, <1>2, <1>3 DEF Search

-----------------------------------------------------------------------------
(* Steps of a fetch: a call moves, the fills stay *)

\* What a step of c does to the locks: it takes one, or has none afterwards.
Locked(c, next) ==
  /\ refreshing' = IF next.phase = "refreshing" THEN c ELSE Without(refreshing, c)
  /\ looking' = IF next.phase = "looking" THEN c ELSE Without(looking, c)
Grabs(c, next) ==
  /\ next.phase = "refreshing" => refreshing \in {c, Nobody}
  /\ next.phase = "looking" => looking \in {c, Nobody}

LEMMA LocksKept ==
  ASSUME TypeOK, LockSound, NEW c \in Caller, NEW next, Move(c, next),
         Locked(c, next), Grabs(c, next)
  PROVE  LockSound'
  BY CallerAssumption DEF TypeOK, PoolTypeOK, LockSound, At, Move, Locked, Grabs, Without

\* What the fills may rely on when c takes a step of the pool: Redis stays, the cache keeps
\* its cookies unless c applies its refresh, and a refresh misses none that stays stored.
Effect(c, next) ==
  /\ next \in CallRow
  /\ next.phase \in {"unfound", "looking"} => next.request \in Request
  /\ Move(c, next) /\ Locked(c, next) /\ Grabs(c, next)
  /\ next.phase = "refreshing" /\ ~At(c, "refreshing") =>
       refreshing = Nobody /\ (call[c].request # Refresh => ~fresh)
  /\ next.phase = "looking" /\ ~At(c, "looking") =>
       looking = Nobody /\ call[c].request \notin missed
  /\ UNCHANGED redis
  /\ known' \subseteq Cookie /\ benched' \subseteq known'
  /\ blocked' \subseteq benched' \cup dropped' /\ blocked' \subseteq Cookie
  /\ dropped' \subseteq Cookie /\ known \cup dropped \subseteq known' \cup dropped'
  /\ next.phase = "using" => next.cookie \in known'
  /\ fresh' \in BOOLEAN /\ missed' \subseteq Request
  /\ \/ known \subseteq known'
     \/ At(c, "refreshing") /\ known' = call[c].seen /\ next.phase # "refreshing"
  /\ next.phase = "refreshing" =>
       \/ stored \subseteq next.seen
       \/ At(c, "refreshing") /\ call[c].seen \cap stored \subseteq next.seen

\* A filler that takes such a step is refreshing the pool, and done with it only when it has
\* applied what it read.
Proper(c, next) ==
  c \in Filler =>
    /\ In(c, "refreshing")
    /\ next.request = Refresh
    /\ next.phase \in {"idle", "stale", "refreshing"}
    /\ next.phase = "idle" => At(c, "refreshing") /\ known' = call[c].seen

LEMMA CallKeeps ==
  ASSUME Inv, NEW c \in Caller, NEW next, Effect(c, next), Proper(c, next),
         UNCHANGED <<fill, strays>>
  PROVE  Inv'
  <1> USE FillerAssumption
  <1>1. call' = [call EXCEPT ![c] = next] /\ call \in [Caller -> CallRow] /\ next \in CallRow
    BY DEF Inv, TypeOK, PoolTypeOK, Effect, Move
  <1>2. TypeOK'
    BY <1>1, CallerAssumption
    DEF Inv, TypeOK, PoolTypeOK, Effect, Locked, Without, redis
  <1>3. LockSound'
    BY LocksKept DEF Inv, Effect
  <1>4. FillerCalls'
    BY <1>1 DEF Inv, FillerCalls, Proper, In, At
  <1>5. Rested'
    BY <1>1 DEF Inv, Effect, Rested, RestsUnlessDropped, At
  <1>6. MadeOld' /\ FillBounded'
    BY DEF Inv, MadeOld, FillBounded, In, Effect, redis
  <1>7. LookupsAsked'
    BY <1>1 DEF Inv, LookupsAsked, At, Effect
  <1>8. Visible'
    <2> SUFFICES ASSUME NEW f \in Filler
                 PROVE  /\ Ready(f)' => Covered(f, known)'
                        /\ \A d \in Caller : Ready(f)' /\ At(d, "refreshing")'
                                               => Covered(f, call[d].seen)'
                        /\ At(f, "refreshing")' => Covered(f, call[f].seen)'
      BY DEF Visible
    <2>1. /\ Ready(f) => Covered(f, known)
          /\ \A d \in Caller : Ready(f) /\ At(d, "refreshing") => Covered(f, call[d].seen)
          /\ At(f, "refreshing") => Covered(f, call[f].seen)
      BY DEF Inv, Visible
    <2>2. fill' = fill /\ stored' = stored
      BY DEF Effect, redis
    <2>3. Ready(f)' => \/ Ready(f)
                       \/ /\ f = c /\ At(f, "refreshing")
                          /\ known' = call[f].seen /\ next.phase = "idle"
      BY <1>1, <2>2 DEF Ready, In, At, Proper
    <2>4. Ready(f)' => Covered(f, known)'
      BY <2>1, <2>2, <2>3 DEF Covered, Effect
    <2>5. ASSUME NEW d \in Caller, Ready(f)', At(d, "refreshing")'
          PROVE  Covered(f, call[d].seen)'
      <3>1. CASE Ready(f)
        BY <3>1, <2>5, <1>1, <2>1, <2>2 DEF Covered, At, Effect
      <3>2. CASE f = c /\ At(f, "refreshing") /\ next.phase = "idle"
        <4>1. refreshing = c /\ refreshing' = d
          BY <3>2, <2>5, <1>3 DEF Inv, LockSound
        <4>2. refreshing' = Nobody
          BY <3>2, <4>1 DEF Effect, Locked, Without
        <4> QED BY <4>1, <4>2, CallerAssumption
      <3> QED BY <3>1, <3>2, <2>3, <2>5
    <2>6. At(f, "refreshing")' => Covered(f, call[f].seen)'
      BY <1>1, <2>1, <2>2 DEF Covered, At, Effect
    <2> QED BY <2>4, <2>5, <2>6
  <1> QED BY <1>2, <1>3, <1>4, <1>5, <1>6, <1>7, <1>8 DEF Inv

\* The steps of _ensure_fresh, which fetches and fillers take.
LEMMA RefreshEffect ==
  ASSUME Inv, NEW c \in Caller, EnterRefresh(c) \/ Read(c) \/ ApplyRefresh(c)
  PROVE  \E next : Effect(c, next) /\ Proper(c, next)
  <1>1. /\ call[c] \in CallRow /\ stored \subseteq Cookie /\ known \subseteq Cookie
        /\ benched \subseteq known /\ fresh \in BOOLEAN /\ missed \subseteq Request
        /\ call[c].request \in Request \cup {Refresh}
        /\ call[c].seen \subseteq Cookie /\ call[c].rests \subseteq Cookie
        /\ blocked \subseteq Cookie /\ dropped \subseteq Cookie
        /\ blocked \subseteq benched \cup dropped
    BY DEF Inv, TypeOK, PoolTypeOK, Rested, RestsUnlessDropped, CallRow
  <1>2. /\ At(c, "refreshing") <=> refreshing = c
        /\ At(c, "looking") <=> looking = c
        /\ At(c, "unfound") \/ At(c, "looking") => call[c].request \in Request
    BY DEF Inv, LockSound, LookupsAsked
  <1>3. c \in Filler => /\ In(c, "refreshing") \/ At(c, "idle")
                        /\ call[c].phase \in {"idle", "stale", "refreshing"}
                        /\ call[c].request = Refresh
    BY DEF Inv, FillerCalls
  <1>4. CASE EnterRefresh(c)
    <2>1. refreshing # c /\ looking # c /\ ~At(c, "idle") /\ refreshing = Nobody
      BY <1>2, <1>4 DEF EnterRefresh, At
    <2>2. CASE FreshFor(c)
      <3>1. call[c].request \in Request /\ c \notin Filler
        BY <2>2, <1>1, <1>3 DEF FreshFor
      <3>2. Search(c, call[c].request, known, benched, missed) /\ UNCHANGED refreshing
        BY <1>4, <2>2, <3>1, RequestAssumption DEF EnterRefresh
      <3>3. PICK next \in CallRow : /\ Move(c, next) /\ next.phase \in {"idle", "using", "unfound"}
                                    /\ next.phase = "unfound" => next.request \in Request
                                    /\ next.phase = "using" => next.cookie \in known
        BY <3>1, <3>2, <1>1, SearchEnds
      <3>4. Effect(c, next)
        BY <3>2, <3>3, <1>1, <1>4, <2>1
        DEF Effect, EnterRefresh, Locked, Grabs, Without, redis, cache, history
      <3> QED BY <3>1, <3>4 DEF Proper
    <2>3. CASE ~FreshFor(c)
      <3> DEFINE next == Loading("refreshing", call[c].request, {})
      <3>1. /\ next \in CallRow /\ next.phase = "refreshing"
            /\ next.request = call[c].request /\ next.seen = stored
        BY <1>1, LoadingType
      <3> HIDE DEF next
      <3>2. Move(c, next) /\ refreshing' = c /\ UNCHANGED <<redis, cache, looking>>
        BY <1>4, <2>3 DEF EnterRefresh, next
      <3>3. Effect(c, next)
        BY <2>3, <3>1, <3>2, <1>1, <2>1
        DEF Effect, Locked, Grabs, Without, FreshFor, redis, cache, history
      <3>4. Proper(c, next)
        BY <3>1, <1>3, <2>1 DEF Proper
      <3> QED BY <3>3, <3>4
    <2> QED BY <2>2, <2>3
  <1>5. CASE Read(c)
    <2>1. PICK S \in SUBSET stored : /\ call[c].seen \cap stored \subseteq S
                                     /\ Move(c, [call[c] EXCEPT !.read = TRUE, !.seen = S])
      BY <1>5 DEF Read
    <2> DEFINE next == [call[c] EXCEPT !.read = TRUE, !.seen = S]
    <2>2. /\ next \in CallRow /\ next.phase = call[c].phase
          /\ next.request = call[c].request /\ next.seen = S
      BY <1>1, <2>1 DEF CallRow
    <2> HIDE DEF next
    <2>3. call[c].phase \in {"refreshing", "looking"} /\ UNCHANGED <<redis, cache, locks>>
      BY <1>5 DEF Read
    <2>4. Move(c, next)
      BY <2>1 DEF next
    <2>5. Effect(c, next)
      BY <2>1, <2>2, <2>3, <2>4, <1>1, <1>2
      DEF Effect, Locked, Grabs, Without, redis, cache, history, locks, At
    <2>6. Proper(c, next)
      BY <2>2, <2>3, <1>3 DEF Proper, At
    <2> QED BY <2>5, <2>6
  <1>6. CASE ApplyRefresh(c)
    <2>1. /\ At(c, "refreshing") /\ refreshing = c /\ looking # c
          /\ known' = call[c].seen /\ benched' = benched \cap call[c].seen
          /\ dropped' = dropped \cup (known \ call[c].seen) /\ blocked' = blocked
          /\ fresh' = TRUE /\ missed' = {} /\ refreshing' = Nobody
          /\ UNCHANGED <<redis, looking>>
      BY <1>6, <1>2 DEF ApplyRefresh, StillResting, At
    <2>2. \E next \in CallRow : /\ Move(c, next) /\ next.phase \in {"idle", "using", "unfound"}
                                /\ next.phase = "unfound" => next.request \in Request
                                /\ next.phase = "using" => next.cookie \in known'
                                /\ c \in Filler => next = NoCall
      <3>1. CASE call[c].request = Refresh
        BY <1>6, <3>1, NoCallType DEF ApplyRefresh
      <3>2. CASE call[c].request # Refresh
        <4>1. Search(c, call[c].request, known', benched', {})
          BY <1>6, <3>2 DEF ApplyRefresh
        <4>2. call[c].request \in Request /\ known' \in SUBSET Cookie /\ c \notin Filler
          BY <3>2, <1>1, <1>3, <2>1
        <4> QED BY <4>1, <4>2, SearchEnds
      <3> QED BY <3>1, <3>2
    <2>3. PICK next \in CallRow : /\ Move(c, next) /\ next.phase \in {"idle", "using", "unfound"}
                                  /\ next.phase = "unfound" => next.request \in Request
                                  /\ next.phase = "using" => next.cookie \in known'
                                  /\ c \in Filler => next = NoCall
      BY <2>2
    <2>4. Effect(c, next)
      BY <2>1, <2>3, <1>1 DEF Effect, Locked, Grabs, Without, redis
    <2>5. Proper(c, next)
      BY <2>1, <2>3, <1>3, NoCallType DEF Proper, At
    <2> QED BY <2>4, <2>5
  <1> QED BY <1>4, <1>5, <1>6

\* The other steps of a fetch
LEMMA FetchEffect ==
  ASSUME Inv, NEW c \in Fetcher, EnterLookup(c) \/ ApplyLookup(c) \/ LoadFails(c) \/ Use(c)
  PROVE  \E next : Effect(c, next) /\ Proper(c, next)
  <1> c \in Caller
    BY CallerAssumption
  <1>0. \A next : Proper(c, next)
    BY FillerAssumption DEF Proper
  <1>1. /\ call[c] \in CallRow /\ stored \subseteq Cookie /\ known \subseteq Cookie
        /\ benched \subseteq known /\ fresh \in BOOLEAN /\ missed \subseteq Request
        /\ call[c].seen \subseteq Cookie /\ benched \in SUBSET Cookie
        /\ call[c].cookie \in Cookie \cup {NoCookie}
        /\ call[c].request \in Request \cup {Refresh}
        /\ blocked \subseteq Cookie /\ dropped \subseteq Cookie
        /\ blocked \subseteq benched \cup dropped
        /\ At(c, "using") => call[c].cookie \in known \cup dropped
    BY DEF Inv, TypeOK, PoolTypeOK, Rested, RestsUnlessDropped, CallRow
  <1>2. /\ At(c, "refreshing") <=> refreshing = c
        /\ At(c, "looking") <=> looking = c
        /\ At(c, "unfound") \/ At(c, "looking") => call[c].request \in Request
    BY DEF Inv, LockSound, LookupsAsked
  <1>3. NoCall \in CallRow /\ NoCall.phase = "idle"
    BY NoCallType
  <1>4. CASE LoadFails(c) \/ Cancel(c)
    <2>1. Effect(c, NoCall)
      BY <1>1, <1>3, <1>4
      DEF LoadFails, Cancel, Unlock, Effect, Locked, Grabs, Without, redis, cache, history
    <2> QED BY <2>1, <1>0
  <1>5. CASE Report(c)
    <2>1. refreshing # c /\ looking # c
      BY <1>5, <1>2 DEF Report, At
    <2>2. /\ benched' \subseteq known /\ blocked' \subseteq benched' \cup dropped'
          /\ blocked' \subseteq Cookie /\ dropped' \subseteq Cookie
          /\ dropped \subseteq known \cup dropped'
      BY <1>5, <1>1 DEF Report, history
    <2>3. Move(c, NoCall) /\ UNCHANGED <<redis, known, fresh, missed, locks>>
      BY <1>5 DEF Report
    <2>4. Effect(c, NoCall)
      BY <1>1, <1>3, <2>1, <2>2, <2>3 DEF Effect, Locked, Grabs, Without, redis, locks
    <2> QED BY <2>4, <1>0
  <1>6. CASE \E r \in Request : Acquire(c, r)
    <2>1. PICK r \in Request : Acquire(c, r)
      BY <1>6
    <2>2. refreshing # c /\ looking # c
      BY <2>1, <1>2 DEF Acquire, At
    <2>3. PICK next \in CallRow : /\ Move(c, next)
                                  /\ next.phase \in {"idle", "using", "unfound", "stale"}
                                  /\ next.phase = "unfound" => next.request \in Request
                                  /\ next.phase = "using" => next.cookie \in known
      <3>1. CASE fresh
        BY <2>1, <3>1, <1>1, SearchEnds DEF Acquire
      <3>2. CASE ~fresh
        BY <2>1, <3>2, WaitingType DEF Acquire
      <3> QED BY <3>1, <3>2
    <2>4. UNCHANGED <<redis, cache, locks>>
      BY <2>1 DEF Acquire
    <2>5. Effect(c, next)
      BY <1>1, <2>2, <2>3, <2>4 DEF Effect, Locked, Grabs, Without, redis, cache, history, locks
    <2> QED BY <2>5, <1>0
  <1>7. CASE EnterLookup(c)
    <2>1. /\ refreshing # c /\ looking = Nobody /\ call[c].request \in Request
          /\ UNCHANGED <<redis, cache, refreshing>>
      BY <1>7, <1>2 DEF EnterLookup, At
    <2>2. CASE call[c].request \in missed /\ Move(c, NoCall) /\ UNCHANGED looking
      <3>1. Effect(c, NoCall)
        BY <1>1, <1>3, <2>1, <2>2, CallerAssumption
        DEF Effect, Locked, Grabs, Without, redis, cache, history
      <3> QED BY <3>1, <1>0
    <2>3. CASE /\ Move(c, Loading("looking", call[c].request, benched)) /\ looking' = c
                /\ call[c].request \notin missed
      <3> DEFINE next == Loading("looking", call[c].request, benched)
      <3>1. next \in CallRow /\ next.phase = "looking" /\ next.request \in Request
        BY <1>1, <2>1, LoadingType
      <3> HIDE DEF next
      <3>2. Move(c, next) /\ looking' = c
        BY <2>3 DEF next
      <3>3. Effect(c, next)
        BY <1>1, <2>1, <2>3, <3>1, <3>2 DEF Effect, Locked, Grabs, Without, redis, cache, history
      <3> QED BY <3>3, <1>0
    <2> QED BY <1>7, <2>2, <2>3 DEF EnterLookup
  <1>8. CASE ApplyLookup(c)
    <2>1. /\ looking = c /\ refreshing # c /\ looking' = Nobody
          /\ call[c].request \in Request
          /\ UNCHANGED <<redis, benched, fresh, history, refreshing>>
      BY <1>8, <1>1, <1>2 DEF ApplyLookup, At
    <2>2. PICK next \in CallRow : /\ Move(c, next) /\ next.phase \in {"idle", "using"}
                                  /\ known \subseteq known' /\ known' \subseteq Cookie
                                  /\ next.phase = "using" => next.cookie \in known'
                                  /\ missed' \subseteq Request
      <3>1. CASE \E x \in (Matches[call[c].request] \cap call[c].seen) \ benched :
                   /\ known' = known \cup {x}
                   /\ missed' = missed \ {call[c].request}
                   /\ Move(c, Using(call[c].request, x))
        <4>1. PICK x \in Cookie : /\ known' = known \cup {x}
                                  /\ missed' = missed \ {call[c].request}
                                  /\ Move(c, Using(call[c].request, x))
          BY <3>1, <1>1
        <4>2. /\ Using(call[c].request, x) \in CallRow
              /\ Using(call[c].request, x).phase = "using"
              /\ Using(call[c].request, x).cookie = x
          BY <2>1, UsingType
        <4> QED BY <4>1, <4>2, <1>1
      <3>2. CASE missed' = missed \cup {call[c].request} /\ Move(c, NoCall) /\ UNCHANGED known
        BY <3>2, <1>1, <1>3, <2>1
      <3> QED BY <1>8, <3>1, <3>2 DEF ApplyLookup
    <2>3. Effect(c, next)
      BY <1>1, <2>1, <2>2 DEF Effect, Locked, Grabs, Without, redis, history
    <2> QED BY <2>3, <1>0
  <1> QED BY <1>4, <1>5, <1>6, <1>7, <1>8 DEF Use

-----------------------------------------------------------------------------
(* Steps of a fill, of Redis and of time *)

LEMMA FinalRows ==
  ASSUME NEW m \in SUBSET Cookie
  PROVE  /\ NoFill \in FillRow /\ NoFill.phase = "idle" /\ NoFill.made = {}
         /\ Done(m) \in FillRow /\ Done(m).phase = "done" /\ Done(m).made = m
  BY TargetAssumption DEF NoFill, Done, FillRow

\* A step of f alone keeps the invariant if it does not announce what f has made.
LEMMA FillKeeps ==
  ASSUME Inv, NEW f \in Filler, NEW next \in FillRow, Go(f, next),
         UNCHANGED <<poolVars, redis>>, strays' \in Nat,
         next.made \cap unborn = {},
         next.phase = "filling" => Cardinality(next.made) + next.flying <= next.deficit,
         next.phase # "refreshing", At(f, "idle"),
         next.phase = "done" => next.made = {} \/ (Ready(f) /\ next.made = fill[f].made)
  PROVE  Inv'
  <1>1. fill' = [fill EXCEPT ![f] = next] /\ fill \in [Filler -> FillRow]
    BY DEF Inv, TypeOK, Go
  <1>2. UNCHANGED <<unborn, stored, known, benched, fresh, missed, refreshing, looking, call,
                  blocked, dropped>>
    BY DEF poolVars, redis, cache, history, locks
  <1>3. TypeOK'
    BY <1>1, <1>2 DEF Inv, TypeOK, PoolTypeOK
  <1>4. LockSound' /\ LookupsAsked' /\ Rested'
    BY <1>2 DEF Inv, LockSound, LookupsAsked, Rested, RestsUnlessDropped, At
  <1>5. FillerCalls'
    BY <1>1, <1>2 DEF Inv, FillerCalls, In, At
  <1>6. MadeOld' /\ FillBounded'
    BY <1>1, <1>2 DEF Inv, MadeOld, FillBounded, In
  <1>7. Visible'
    BY <1>1, <1>2 DEF Inv, Visible, Ready, Covered, In, At
  <1> QED BY <1>3, <1>4, <1>5, <1>6, <1>7 DEF Inv

\* A call that raises or is cancelled leaves the fill as it was before any.
LEMMA GivesUp ==
  ASSUME Inv, NEW f \in Filler, Go(f, NoFill), Unlock(f), Move(f, NoCall),
         UNCHANGED <<redis, cache, strays>>
  PROVE  Inv'
  <1> f \in Caller
    BY FillerAssumption
  <1>1. fill' = [fill EXCEPT ![f] = NoFill] /\ fill \in [Filler -> FillRow]
    BY DEF Inv, TypeOK, Go
  <1>2. call' = [call EXCEPT ![f] = NoCall] /\ call \in [Caller -> CallRow]
    BY DEF Inv, TypeOK, PoolTypeOK, Move
  <1>3. UNCHANGED <<unborn, stored, known, benched, fresh, missed, blocked, dropped, strays>>
    BY DEF redis, cache, history
  <1>4. /\ NoFill \in FillRow /\ NoFill.phase = "idle" /\ NoFill.made = {}
        /\ NoCall \in CallRow /\ NoCall.phase = "idle" /\ NoCall.request = Refresh
    BY FinalRows, NoCallType
  <1>5. TypeOK'
    BY <1>1, <1>2, <1>3, <1>4 DEF Inv, TypeOK, PoolTypeOK, Unlock, Without
  <1>6. LockSound'
    <2>1. Locked(f, NoCall) /\ Grabs(f, NoCall)
      BY <1>4 DEF Unlock, Locked, Grabs
    <2> QED BY <2>1, LocksKept DEF Inv
  <1>7. FillerCalls' /\ LookupsAsked' /\ Rested'
    BY <1>1, <1>2, <1>3, <1>4, FillerAssumption
    DEF Inv, FillerCalls, LookupsAsked, Rested, RestsUnlessDropped, In, At
  <1>8. MadeOld' /\ FillBounded'
    BY <1>1, <1>3, <1>4 DEF Inv, MadeOld, FillBounded, In
  <1>9. Visible'
    BY <1>1, <1>2, <1>3, <1>4, FillerAssumption DEF Inv, Visible, Ready, Covered, In, At
  <1> QED BY <1>5, <1>6, <1>7, <1>8, <1>9 DEF Inv

\* A cookie that is stored is none that any fill has announced.
LEMMA StoreKeeps ==
  ASSUME Inv, NEW x \in unborn, Store(x), UNCHANGED <<cache, locks, call, fill>>, strays' \in Nat
  PROVE  Inv'
  <1>1. /\ unborn' = unborn \ {x} /\ stored' = stored \cup {x}
        /\ UNCHANGED <<known, benched, fresh, missed, refreshing, looking, call,
                       blocked, dropped, fill>>
    BY DEF Store, cache, history, locks
  <1>2. TypeOK'
    BY <1>1 DEF Inv, TypeOK, PoolTypeOK
  <1>3. LockSound' /\ FillerCalls' /\ LookupsAsked' /\ Rested'
    BY <1>1 DEF Inv, LockSound, FillerCalls, LookupsAsked, Rested, RestsUnlessDropped, In, At
  <1>4. MadeOld' /\ FillBounded'
    BY <1>1 DEF Inv, MadeOld, FillBounded, In
  <1>5. \A f \in Filler : fill'[f].made \cap stored' = fill[f].made \cap stored
    BY <1>1 DEF Inv, MadeOld
  <1>6. Visible'
    BY <1>1, <1>5 DEF Inv, Visible, Ready, Covered, In, At
  <1> QED BY <1>2, <1>3, <1>4, <1>6 DEF Inv

LEMMA TimeKeeps ==
  ASSUME Inv, UNCHANGED <<fill, strays>>,
         \/ \E x \in Cookie : Expire(x) \/ QuarantineElapses(x)
         \/ \E r \in Request : MissElapses(r)
         \/ CacheAges
  PROVE  Inv'
  <1>1. /\ UNCHANGED <<unborn, known, refreshing, looking, call, fill, strays>>
        /\ stored' \subseteq stored /\ benched' \subseteq benched /\ missed' \subseteq missed
        /\ fresh' \in BOOLEAN /\ dropped' = dropped /\ blocked' \subseteq blocked
        /\ blocked' \cap benched \subseteq benched'
    BY DEF Inv, TypeOK, PoolTypeOK, Expire, QuarantineElapses, MissElapses, CacheAges,
           redis, cache, history, locks
  <1>2. TypeOK'
    BY <1>1 DEF Inv, TypeOK, PoolTypeOK
  <1>3. LockSound' /\ FillerCalls' /\ LookupsAsked' /\ Rested'
    BY <1>1 DEF Inv, LockSound, FillerCalls, LookupsAsked, Rested, RestsUnlessDropped, In, At
  <1>4. MadeOld' /\ FillBounded'
    BY <1>1 DEF Inv, MadeOld, FillBounded, In
  <1>5. Visible'
    BY <1>1 DEF Inv, Visible, Ready, Covered, In, At
  <1> QED BY <1>2, <1>3, <1>4, <1>5 DEF Inv

\* What one row of the fills satisfies.
LEMMA RowFacts ==
  ASSUME Inv, NEW f \in Filler
  PROVE  /\ fill[f] \in FillRow /\ f \in Caller
         /\ fill[f].deficit \in 0 .. Target /\ fill[f].rounds \in 0 .. MaxRounds
         /\ fill[f].flying \in 0 .. Target /\ fill[f].made \in SUBSET Cookie
         /\ IsFiniteSet(fill[f].made) /\ Cardinality(fill[f].made) \in Nat
         /\ fill[f].made \cap unborn = {}
         /\ In(f, "filling") => Cardinality(fill[f].made) + fill[f].flying <= fill[f].deficit
         /\ ~In(f, "refreshing") => At(f, "idle")
  <1>1. /\ fill[f] \in FillRow /\ fill[f].made \in SUBSET Cookie
        /\ fill[f].deficit \in 0 .. Target /\ fill[f].rounds \in 0 .. MaxRounds
        /\ fill[f].flying \in 0 .. Target
    BY DEF Inv, TypeOK, FillRow
  <1>2. IsFiniteSet(fill[f].made) /\ Cardinality(fill[f].made) \in Nat
    BY <1>1, FiniteCookies, FS_Subset, FS_CardinalityType
  <1> QED BY <1>1, <1>2, FillerAssumption DEF Inv, MadeOld, FillBounded, FillerCalls

LEMMA BeginKeeps ==
  ASSUME Inv, NEW f \in Filler, BeginFill(f)
  PROVE  Inv'
  <1>1. IsFiniteSet(stored) /\ Cardinality(stored) \in Nat /\ Cardinality({}) = 0
    BY FiniteCookies, FS_Subset, FS_CardinalityType, FS_EmptySet DEF Inv, TypeOK, PoolTypeOK
  <1>2. At(f, "idle") /\ UNCHANGED <<poolVars, strays>> /\ strays \in Nat
    BY RowFacts DEF BeginFill, In, Inv, TypeOK
  <1>3. CASE Cardinality(stored) < Target
    <2> DEFINE n == Target - Cardinality(stored)
    <2>1. n \in 0 .. Target
      BY <1>1, <1>3, TargetAssumption
    <2>2. Go(f, Filling(n))
      BY <1>3 DEF BeginFill
    <2> HIDE DEF n
    <2>3. Filling(n) \in FillRow
      BY <2>1, TargetAssumption DEF Filling, FillRow
    <2>4. /\ Filling(n).phase = "filling" /\ Filling(n).made = {}
          /\ Filling(n).flying = n /\ Filling(n).deficit = n
      BY DEF Filling
    <2>5. Filling(n).made \cap unborn = {} /\ Cardinality(Filling(n).made) + n <= n
      BY <2>1, <2>4, <1>1, TargetAssumption
    <2> QED BY <1>2, <2>2, <2>3, <2>4, <2>5, FillKeeps DEF redis, poolVars
  <1>4. CASE ~(Cardinality(stored) < Target)
    <2> DEFINE next == [NoFill EXCEPT !.phase = "counting"]
    <2>1. next \in FillRow /\ next.phase = "counting" /\ next.made = {}
      BY TargetAssumption DEF NoFill, FillRow
    <2>2. Go(f, next)
      BY <1>4 DEF BeginFill
    <2> HIDE DEF next
    <2> QED BY <1>2, <2>1, <2>2, FillKeeps DEF redis, poolVars
  <1> QED BY <1>3, <1>4

LEMMA AttemptKeeps ==
  ASSUME Inv, NEW f \in Filler, Reject(f) \/ SaveFails(f)
  PROVE  Inv'
  <1>1. At(f, "idle") /\ UNCHANGED poolVars /\ strays \in Nat
    BY RowFacts DEF Reject, SaveFails, In, Inv, TypeOK
  <1>2. CASE Reject(f)
    <2> DEFINE m == fill[f].flying - 1
               next == [fill[f] EXCEPT !.flying = m]
    <2>1. m \in 0 .. Target /\ Cardinality(fill[f].made) + m <= fill[f].deficit
      BY <1>2, RowFacts, TargetAssumption DEF Reject
    <2>2. Go(f, next) /\ fill[f].phase = "filling" /\ strays' = strays
      BY <1>2 DEF Reject, In
    <2> HIDE DEF m
    <2>3. /\ next \in FillRow /\ next.phase = "filling" /\ next.made = fill[f].made
          /\ next.flying = m /\ next.deficit = fill[f].deficit
      BY <2>1, <2>2, RowFacts DEF FillRow
    <2> HIDE DEF next
    <2> QED BY <1>1, <2>1, <2>2, <2>3, RowFacts, FillKeeps DEF redis, poolVars
  <1>3. CASE SaveFails(f)
    <2>1. Go(f, NoFill) /\ strays' = strays + fill[f].flying - 1
          /\ fill[f].flying \in Nat /\ fill[f].flying > 0
      BY <1>3, RowFacts, TargetAssumption DEF SaveFails
    <2>2. strays' \in Nat
      BY <1>1, <2>1
    <2>3. NoFill \in FillRow /\ NoFill.phase = "idle" /\ NoFill.made = {}
      BY FinalRows
    <2> QED BY <1>1, <2>1, <2>2, <2>3, FillKeeps DEF redis, poolVars
  <1> QED BY <1>2, <1>3

LEMMA RoundKeeps ==
  ASSUME Inv, NEW f \in Filler, NextRound(f)
  PROVE  Inv'
  <1>1. At(f, "idle") /\ UNCHANGED <<poolVars, strays>> /\ strays \in Nat
    BY RowFacts DEF NextRound, In, Inv, TypeOK
  <1>2. CASE Remaining(f) > 0 /\ RoundsLeft(f)
    <2> DEFINE m == fill[f].deficit - Cardinality(fill[f].made)
               k == fill[f].rounds + 1
               next == [fill[f] EXCEPT !.rounds = k, !.flying = m]
    <2>1. /\ m \in 0 .. Target /\ k \in 0 .. MaxRounds
          /\ Cardinality(fill[f].made) + m <= fill[f].deficit
      BY <1>2, RowFacts, TargetAssumption DEF Remaining, RoundsLeft
    <2>2. Go(f, next) /\ fill[f].phase = "filling"
      BY <1>2 DEF NextRound, In, Remaining
    <2> HIDE DEF m, k
    <2>3. /\ next \in FillRow /\ next.phase = "filling" /\ next.made = fill[f].made
          /\ next.flying = m /\ next.deficit = fill[f].deficit
      BY <2>1, <2>2, RowFacts DEF FillRow
    <2> HIDE DEF next
    <2> QED BY <1>1, <2>1, <2>2, <2>3, RowFacts, FillKeeps DEF redis, poolVars
  <1>3. CASE ~(Remaining(f) > 0 /\ RoundsLeft(f))
    <2> DEFINE next == [fill[f] EXCEPT !.phase = "counting"]
    <2>1. Go(f, next)
      BY <1>3 DEF NextRound
    <2>2. next \in FillRow /\ next.phase = "counting" /\ next.made = fill[f].made
      BY RowFacts DEF FillRow
    <2> HIDE DEF next
    <2> QED BY <1>1, <2>1, <2>2, RowFacts, FillKeeps DEF redis, poolVars
  <1> QED BY <1>2, <1>3

LEMMA SaveKeeps ==
  ASSUME Inv, NEW f \in Filler, Save(f)
  PROVE  Inv'
  <1>1. PICK x \in unborn :
          /\ Store(x)
          /\ Go(f, [fill[f] EXCEPT !.flying = fill[f].flying - 1, !.made = fill[f].made \cup {x}])
    BY DEF Save
  <1> DEFINE m == fill[f].flying - 1
             made == fill[f].made \cup {x}
             next == [fill[f] EXCEPT !.flying = m, !.made = made]
  <1>2. /\ m \in 0 .. Target /\ m = fill[f].flying - 1
        /\ made \in SUBSET Cookie /\ made = fill[f].made \cup {x}
    BY <1>1, RowFacts, TargetAssumption DEF Save, Inv, TypeOK, PoolTypeOK
  <1>3. Cardinality(made) = Cardinality(fill[f].made) + 1
    BY <1>1, RowFacts, FS_AddElement
  <1>4. Cardinality(made) + m <= fill[f].deficit
    BY <1>2, <1>3, RowFacts, TargetAssumption DEF Save
  <1>5. /\ unborn' = unborn \ {x} /\ stored' = stored \cup {x} /\ At(f, "idle")
        /\ fill[f].phase = "filling" /\ fill' = [fill EXCEPT ![f] = next]
        /\ UNCHANGED <<known, benched, fresh, missed, refreshing, looking, call, blocked, dropped,
                       strays>>
    BY <1>1, RowFacts DEF Save, Store, Go, In, cache, history, locks
  <1> HIDE DEF m, made
  <1>6. /\ next \in FillRow /\ next.phase = "filling" /\ next.made = made
        /\ next.flying = m /\ next.deficit = fill[f].deficit
    BY <1>2, <1>5, RowFacts DEF FillRow
  <1> HIDE DEF next
  <1>7. TypeOK'
    BY <1>1, <1>5, <1>6 DEF Inv, TypeOK, PoolTypeOK
  <1>8. LockSound' /\ FillerCalls' /\ LookupsAsked' /\ Rested'
    BY <1>5, <1>6
    DEF Inv, TypeOK, LockSound, FillerCalls, LookupsAsked, Rested, RestsUnlessDropped, In, At
  <1>9. MadeOld'
    BY <1>2, <1>5, <1>6 DEF Inv, TypeOK, MadeOld
  <1>10. FillBounded'
    BY <1>4, <1>5, <1>6 DEF Inv, TypeOK, FillBounded, In
  <1>11. Visible'
    <2>1. \A g \in Filler : g # f => /\ fill'[g] = fill[g]
                                     /\ fill'[g].made \cap stored' = fill[g].made \cap stored
      BY <1>1, <1>5 DEF Inv, TypeOK, MadeOld
    <2>2. ~Ready(f)' /\ ~At(f, "refreshing")'
      BY <1>5, <1>6 DEF Inv, TypeOK, Ready, In, At
    <2> QED BY <1>5, <2>1, <2>2 DEF Inv, Visible, Ready, Covered, In, At
  <1> QED BY <1>7, <1>8, <1>9, <1>10, <1>11 DEF Inv

LEMMA CountedKeeps ==
  ASSUME Inv, NEW f \in Filler, Counted(f)
  PROVE  Inv'
  <1>1. fill[f] \in FillRow /\ In(f, "counting") /\ At(f, "idle")
    BY RowFacts DEF Counted, In
  <1>2. CASE fill[f].made = {}
    <2>1. Go(f, Done({})) /\ UNCHANGED <<poolVars, redis, strays>> /\ strays \in Nat
      BY <1>2 DEF Counted, redis, cache, history, locks, poolVars, Inv, TypeOK
    <2>2. Done({}) \in FillRow /\ Done({}).phase = "done" /\ Done({}).made = {}
      BY FinalRows
    <2> QED BY <1>1, <2>1, <2>2, FillKeeps
  <1>3. CASE fill[f].made # {}
    <2> DEFINE next == [fill[f] EXCEPT !.phase = "refreshing"]
               wait == Waiting("stale", Refresh)
    <2>1. next \in FillRow /\ next.phase = "refreshing" /\ next.made = fill[f].made
      BY <1>1 DEF FillRow
    <2>2. wait \in CallRow /\ wait.phase = "stale" /\ wait.request = Refresh
      BY WaitingType
    <2>3. /\ fill' = [fill EXCEPT ![f] = next] /\ call' = [call EXCEPT ![f] = wait]
          /\ UNCHANGED <<unborn, stored, known, benched, fresh, missed, refreshing, looking,
                         blocked, dropped, strays>>
      BY <1>3 DEF Counted, BeginRefresh, Go, Move, redis, cache, history, locks
    <2> HIDE DEF next, wait
    <2> f \in Caller /\ fill \in [Filler -> FillRow] /\ call \in [Caller -> CallRow]
      BY FillerAssumption DEF Inv, TypeOK, PoolTypeOK
    <2>4. TypeOK'
      BY <2>1, <2>2, <2>3 DEF Inv, TypeOK, PoolTypeOK
    <2>5. LockSound' /\ LookupsAsked' /\ Rested'
      BY <1>1, <2>2, <2>3 DEF Inv, LockSound, LookupsAsked, Rested, RestsUnlessDropped, At
    <2>6. FillerCalls'
      BY <2>1, <2>2, <2>3, FillerAssumption DEF Inv, FillerCalls, In, At
    <2>7. MadeOld' /\ FillBounded'
      BY <2>1, <2>3 DEF Inv, MadeOld, FillBounded, In
    <2>8. Visible'
      BY <1>1, <2>1, <2>2, <2>3, FillerAssumption DEF Inv, Visible, Ready, Covered, In, At
    <2> QED BY <2>4, <2>5, <2>6, <2>7, <2>8 DEF Inv
  <1> QED BY <1>2, <1>3

LEMMA FillStep ==
  ASSUME Inv, NEW f \in Filler, Fill(f)
  PROVE  Inv'
  <1> f \in Caller
    BY FillerAssumption
  <1>1. CASE BeginFill(f)
    BY <1>1, BeginKeeps
  <1>2. CASE Save(f)
    BY <1>2, SaveKeeps
  <1>3. CASE Reject(f) \/ SaveFails(f)
    BY <1>3, AttemptKeeps
  <1>4. CASE NextRound(f)
    BY <1>4, RoundKeeps
  <1>5. CASE Counted(f)
    BY <1>5, CountedKeeps
  <1>6. CASE CountFails(f)
    <2>1. Go(f, NoFill) /\ At(f, "idle") /\ UNCHANGED <<poolVars, redis, strays>> /\ strays \in Nat
      BY <1>6, RowFacts DEF CountFails, In, Inv, TypeOK, redis, poolVars
    <2>2. NoFill \in FillRow /\ NoFill.phase = "idle" /\ NoFill.made = {}
      BY FinalRows
    <2> QED BY <2>1, <2>2, FillKeeps
  <1>7. CASE Refreshes(f)
    <2>1. \E next : Effect(f, next) /\ Proper(f, next)
      BY <1>7, RefreshEffect DEF Refreshes
    <2>2. UNCHANGED <<fill, strays>>
      BY <1>7 DEF Refreshes
    <2> QED BY <2>1, <2>2, CallKeeps
  <1>8. CASE RefreshFails(f)
    BY <1>8, GivesUp DEF RefreshFails, LoadFails
  <1>9. CASE CancelFill(f)
    BY <1>9, GivesUp DEF CancelFill
  <1>10. CASE Refreshed(f)
    <2>1. /\ Go(f, Done(fill[f].made)) /\ At(f, "idle") /\ In(f, "refreshing")
          /\ UNCHANGED <<poolVars, redis, strays>> /\ strays \in Nat
      BY <1>10 DEF Refreshed, Inv, TypeOK, redis, poolVars
    <2>2. /\ Done(fill[f].made) \in FillRow /\ Done(fill[f].made).phase = "done"
          /\ Done(fill[f].made).made = fill[f].made /\ fill[f].made \cap unborn = {}
      BY FinalRows, RowFacts
    <2>3. Ready(f)
      BY <2>1 DEF Ready
    <2> QED BY <2>1, <2>2, <2>3, FillKeeps
  <1> QED BY <1>1, <1>2, <1>3, <1>4, <1>5, <1>6, <1>7, <1>8, <1>9, <1>10 DEF Fill

LEMMA FetchStep ==
  ASSUME Inv, Fetch
  PROVE  Inv'
  <1>1. UNCHANGED <<fill, strays>>
    BY DEF Fetch
  <1>2. ASSUME NEW c \in Fetcher, EnterRefresh(c) \/ EnterLookup(c) \/ Load(c) \/ Use(c)
        PROVE  Inv'
    <2> c \in Caller
      BY CallerAssumption
    <2>1. \E next : Effect(c, next) /\ Proper(c, next)
      BY <1>2, RefreshEffect, FetchEffect DEF Load
    <2> QED BY <1>1, <2>1, CallKeeps
  <1>3. CASE \/ \E x \in Cookie : Expire(x) \/ QuarantineElapses(x)
             \/ \E r \in Request : MissElapses(r)
             \/ CacheAges
    BY <1>1, <1>3, TimeKeeps
  <1> QED BY <1>2, <1>3 DEF Fetch

LEMMA StrayStep ==
  ASSUME Inv, StrayEnds \/ \E x \in Cookie : StoreElsewhere(x)
  PROVE  Inv'
  <1>1. CASE \E x \in Cookie : StoreElsewhere(x)
    BY <1>1, StoreKeeps DEF StoreElsewhere, Store, Inv, TypeOK
  <1>2. CASE StrayEnds
    <2>1. strays' \in Nat /\ UNCHANGED <<cache, locks, call, fill>>
      BY <1>2 DEF StrayEnds, Inv, TypeOK
    <2>2. CASE \E x \in unborn : Store(x)
      BY <2>1, <2>2, StoreKeeps
    <2>3. CASE UNCHANGED redis
      <3>1. UNCHANGED <<unborn, stored, known, benched, fresh, missed, refreshing, looking, call,
                        blocked, dropped, fill>>
        BY <2>1, <2>3 DEF redis, cache, history, locks
      <3> QED BY <2>1, <3>1
          DEF Inv, TypeOK, PoolTypeOK, LockSound, FillerCalls, LookupsAsked, Rested,
              RestsUnlessDropped, MadeOld, FillBounded, Visible, Ready, Covered, In, At
    <2> QED BY <1>2, <2>2, <2>3 DEF StrayEnds
  <1> QED BY <1>1, <1>2

-----------------------------------------------------------------------------
(* The theorems *)

LEMMA InitInv == Init => Inv
  <1> SUFFICES ASSUME Init PROVE Inv
    OBVIOUS
  <1> USE FillerAssumption, CallerAssumption
  <1>1. NoCall \in CallRow /\ NoCall.phase = "idle" /\ NoCall.request = Refresh
    BY NoCallType
  <1>2. NoFill \in FillRow /\ NoFill.phase = "idle" /\ NoFill.made = {}
    BY FinalRows
  <1> QED BY <1>1, <1>2
      DEF Init, PoolInit, Inv, TypeOK, PoolTypeOK, LockSound, FillerCalls, LookupsAsked,
          Rested, RestsUnlessDropped, MadeOld, FillBounded, Visible, Ready, Covered, In, At

LEMMA NextInv == Inv /\ [Next]_vars => Inv'
  <1> SUFFICES ASSUME Inv, [Next]_vars PROVE Inv'
    OBVIOUS
  <1>1. CASE Next
    BY <1>1, FetchStep, FillStep, StrayStep DEF Next
  <1>2. CASE UNCHANGED vars
    <2>1. UNCHANGED <<unborn, stored, known, benched, fresh, missed, refreshing, looking, call,
                      blocked, dropped, fill, strays>>
      BY <1>2 DEF vars, poolVars, redis, cache, history, locks
    <2> QED BY <2>1
        DEF Inv, TypeOK, PoolTypeOK, LockSound, FillerCalls, LookupsAsked, Rested,
            RestsUnlessDropped, MadeOld, FillBounded, Visible, Ready, Covered, In, At
  <1> QED BY <1>1, <1>2

\* The invariant holds in every state of the provider and of the harvester.
THEOREM Invariance == Spec => []Inv
  BY InitInv, NextInv, PTL DEF Spec

\* Every variable keeps its type, with any number of fetches, fills and cookies: in particular
\* no fill tries more rounds than max_attempts_per_cookie.
THEOREM TypeCorrect == Spec => []TypeOK
  <1>1. Inv => TypeOK
    BY DEF Inv
  <1> QED BY <1>1, Invariance, PTL

\* A cookie found blocked rests, unless a refresh dropped it while it was in use or resting.
THEOREM QuarantinesSound == Spec => []RestsUnlessDropped
  <1>1. Inv => RestsUnlessDropped
    BY DEF Inv, Rested
  <1> QED BY <1>1, Invariance, PTL

\* A fill never creates more cookies than were missing, however its attempts end.
THEOREM FillsBounded == Spec => []FillBounded
  <1>1. Inv => FillBounded
    BY DEF Inv
  <1> QED BY <1>1, Invariance, PTL

\* The cookies a fill has created are, once it has returned, never lost from the cache before
\* they expire, however old the loads that are applied to it are.
THEOREM HarvestStaysVisible == Spec => []HarvestVisible
  <1>1. Inv => HarvestVisible
    BY DEF Inv, Visible, HarvestVisible, Ready, Covered
  <1> QED BY <1>1, Invariance, PTL

\* A step that begins to read Redis has found nobody doing it, and the cache in need of it.
LoadNeeded(c) ==
  /\ ~At(c, "refreshing") /\ call'[c].phase = "refreshing" /\ call[c].request # Refresh
     => ~fresh /\ \A d \in Caller : ~At(d, "refreshing")
  /\ ~At(c, "looking") /\ call'[c].phase = "looking"
     => call[c].request \notin missed /\ \A d \in Caller : ~At(d, "looking")

LEMMA EffectLoads ==
  ASSUME Inv, NEW c \in Caller, NEW next, Effect(c, next)
  PROVE  \A d \in Caller : LoadNeeded(d)
  <1>1. call' = [call EXCEPT ![c] = next] /\ call \in [Caller -> CallRow]
    BY DEF Inv, TypeOK, PoolTypeOK, Effect, Move
  <1>2. /\ refreshing = Nobody => \A d \in Caller : ~At(d, "refreshing")
        /\ looking = Nobody => \A d \in Caller : ~At(d, "looking")
    BY CallerAssumption DEF Inv, LockSound
  <1> QED BY <1>1, <1>2 DEF LoadNeeded, Effect, At

LEMMA QuietLoads ==
  ASSUME Inv, \/ UNCHANGED call
              \/ \E c \in Caller, next \in CallRow :
                   Move(c, next) /\ next.phase \in {"idle", "stale"}
  PROVE  \A d \in Caller : LoadNeeded(d)
  <1>1. call \in [Caller -> CallRow]
    BY DEF Inv, TypeOK, PoolTypeOK
  <1>2. \A d \in Caller : \/ call'[d].phase \in {"idle", "stale"}
                          \/ call'[d] = call[d]
    BY <1>1 DEF Move
  <1> QED BY <1>2 DEF LoadNeeded, At

LEMMA FillLoads ==
  ASSUME Inv, NEW f \in Filler, Fill(f)
  PROVE  \A d \in Caller : LoadNeeded(d)
  <1> f \in Caller
    BY FillerAssumption
  <1>1. /\ NoCall \in CallRow /\ NoCall.phase = "idle"
        /\ Waiting("stale", Refresh) \in CallRow /\ Waiting("stale", Refresh).phase = "stale"
    BY NoCallType, WaitingType
  <1>2. CASE BeginFill(f) \/ Save(f) \/ Reject(f) \/ SaveFails(f) \/ NextRound(f)
             \/ CountFails(f) \/ Refreshed(f)
    <2>1. UNCHANGED call
      BY <1>2
      DEF BeginFill, Save, Reject, SaveFails, NextRound, CountFails, Refreshed, poolVars
    <2> QED BY <2>1, QuietLoads
  <1>3. CASE Counted(f) \/ RefreshFails(f) \/ CancelFill(f)
    <2>1. UNCHANGED call \/ Move(f, NoCall) \/ Move(f, Waiting("stale", Refresh))
      BY <1>3 DEF Counted, BeginRefresh, RefreshFails, LoadFails, CancelFill
    <2> QED BY <1>1, <2>1, QuietLoads
  <1>4. CASE Refreshes(f)
    <2>1. PICK next : Effect(f, next)
      BY <1>4, RefreshEffect DEF Refreshes
    <2> QED BY <2>1, EffectLoads
  <1> QED BY <1>2, <1>3, <1>4 DEF Fill

LEMMA LoadsStep ==
  ASSUME Inv, [Next]_vars
  PROVE  \A c \in Caller : LoadNeeded(c)
  <1>1. ASSUME NEW c \in Fetcher, EnterRefresh(c) \/ EnterLookup(c) \/ Load(c) \/ Use(c)
        PROVE  \A d \in Caller : LoadNeeded(d)
    <2> c \in Caller
      BY CallerAssumption
    <2>1. PICK next : Effect(c, next)
      BY <1>1, RefreshEffect, FetchEffect DEF Load
    <2> QED BY <2>1, EffectLoads
  <1>2. CASE \/ \E x \in Cookie : Expire(x) \/ QuarantineElapses(x) \/ StoreElsewhere(x)
             \/ \E r \in Request : MissElapses(r)
             \/ CacheAges \/ StrayEnds \/ UNCHANGED vars
    <2>1. UNCHANGED call
      BY <1>2 DEF Expire, QuarantineElapses, MissElapses, CacheAges, StrayEnds,
                  StoreElsewhere, vars, poolVars
    <2> QED BY <2>1, QuietLoads
  <1> QED BY <1>1, <1>2, FillLoads DEF Next, Fetch

\* However many fetches find the cache stale at once, one of them reads Redis; and none looks
\* for a cookie in Redis while another does, nor before a lookup that found nothing is
\* forgotten.
THEOREM LoadsOnlyNeeded == Spec => LoadsNeeded
  <1>1. Inv /\ [Next]_vars => [\A c \in Caller : LoadNeeded(c)]_poolVars
    BY LoadsStep
  <1>2. Spec => [][\A c \in Caller : LoadNeeded(c)]_poolVars
    BY <1>1, Invariance, PTL DEF Spec
  <1> QED BY <1>2 DEF LoadsNeeded, LoadNeeded
=============================================================================
