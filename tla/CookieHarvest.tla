---------------------------- MODULE CookieHarvest ----------------------------
(***************************************************************************)
(* AmazonCookieHarvester.ensure_capacity, called by CookieMaintenance-     *)
(* Service, the API or the command line, and the pool of cookies it fills: *)
(* the harvester counts the cookies in Redis, tries to create those that   *)
(* are missing, and has the provider of the fetches read them.             *)
(*                                                                         *)
(* An attempt creates a session, sets its delivery address and saves its   *)
(* cookie; the answers of the site on the way to it are left out.          *)
(*                                                                         *)
(* A definition whose comment starts with "Bug:" is not part of the model: *)
(* it is a faulty variant of the definition after it.                      *)
(***************************************************************************)
EXTENDS CookiePool

CONSTANTS
  Filler,       \* the concurrent calls of ensure_capacity, with one target
  Target,       \* target_count
  MaxRounds,    \* max_attempts_per_cookie
  MaxStrays     \* bound: no fill begins while more attempts than this are astray

ASSUME FillerAssumption == Caller = Fetcher \cup Filler /\ Fetcher \cap Filler = {}
ASSUME TargetAssumption == Target \in Nat /\ MaxRounds \in Nat \ {0} /\ MaxStrays \in Nat
ASSUME FiniteCookies == IsFiniteSet(Cookie)

VARIABLES
  fill,         \* what each filler is doing
  strays        \* the attempts that go on after the call they belong to has raised

vars == <<poolVars, fill, strays>>

NoFill == [phase |-> "idle", deficit |-> 0, rounds |-> 0, flying |-> 0, made |-> {}]
Filling(n) == [phase |-> "filling", deficit |-> n, rounds |-> 1, flying |-> n, made |-> {}]
Done(made) == [phase |-> "done", deficit |-> 0, rounds |-> 0, flying |-> 0, made |-> made]

Init == PoolInit /\ fill = [f \in Filler |-> NoFill] /\ strays = 0

In(f, phase) == fill[f].phase = phase
Go(f, next) == fill' = [fill EXCEPT ![f] = next]

-----------------------------------------------------------------------------

\* The cookies in Redis are counted; if that fails, the call raises and changes nothing.
BeginFill(f) ==
  LET existing == Cardinality(stored) IN
  /\ fill[f].phase \in {"idle", "done"}
  /\ strays <= MaxStrays
  /\ IF existing < Target THEN Go(f, Filling(Target - existing))
     ELSE Go(f, [NoFill EXCEPT !.phase = "counting"])
  /\ UNCHANGED <<poolVars, strays>>

Save(f) ==
  /\ In(f, "filling")
  /\ fill[f].flying > 0
  /\ \E x \in unborn :
       /\ Store(x)
       /\ Go(f, [fill[f] EXCEPT !.flying = fill[f].flying - 1, !.made = fill[f].made \cup {x}])
  /\ UNCHANGED <<cache, locks, call, strays>>

\* An attempt is blocked, rejected or has no proxy.
Reject(f) ==
  /\ In(f, "filling")
  /\ fill[f].flying > 0
  /\ Go(f, [fill[f] EXCEPT !.flying = fill[f].flying - 1])
  /\ UNCHANGED <<poolVars, strays>>

\* An exception of the store goes through gather at once, and the other attempts go on.
SaveFails(f) ==
  /\ In(f, "filling")
  /\ fill[f].flying > 0
  /\ Go(f, NoFill)
  /\ strays' = strays + fill[f].flying - 1
  /\ UNCHANGED poolVars

\* Bug: the next round tries for the whole deficit again.
WholeDeficit(f) == fill[f].deficit
Remaining(f) == fill[f].deficit - Cardinality(fill[f].made)

RoundsLeft(f) == fill[f].rounds < MaxRounds

NextRound(f) ==
  /\ In(f, "filling")
  /\ fill[f].flying = 0
  /\ IF Remaining(f) > 0 /\ RoundsLeft(f)
     THEN Go(f, [fill[f] EXCEPT !.rounds = fill[f].rounds + 1, !.flying = Remaining(f)])
     ELSE Go(f, [fill[f] EXCEPT !.phase = "counting"])
  /\ UNCHANGED <<poolVars, strays>>

\* The cookies are counted again.  If that fails, the call raises without a refresh.
Counted(f) ==
  /\ In(f, "counting")
  /\ IF fill[f].made = {}
     THEN Go(f, Done({})) /\ UNCHANGED call
     ELSE Go(f, [fill[f] EXCEPT !.phase = "refreshing"]) /\ BeginRefresh(f)
  /\ UNCHANGED <<redis, cache, locks, strays>>

CountFails(f) ==
  /\ In(f, "counting")
  /\ Go(f, NoFill)
  /\ UNCHANGED <<poolVars, strays>>

Refreshed(f) ==
  /\ In(f, "refreshing")
  /\ At(f, "idle")
  /\ Go(f, Done(fill[f].made))
  /\ UNCHANGED <<poolVars, strays>>

RefreshFails(f) ==
  /\ In(f, "refreshing")
  /\ LoadFails(f)
  /\ Go(f, NoFill)
  /\ UNCHANGED strays

Refreshes(f) ==
  /\ EnterRefresh(f) \/ Read(f) \/ ApplyRefresh(f)
  /\ UNCHANGED <<fill, strays>>

\* The attempts of a cancelled call are cancelled with it.
CancelFill(f) ==
  /\ fill[f].phase \notin {"idle", "done"}
  /\ Go(f, NoFill)
  /\ Unlock(f)
  /\ Move(f, NoCall)
  /\ UNCHANGED <<redis, cache, strays>>

StrayEnds ==
  /\ strays > 0
  /\ strays' = strays - 1
  /\ \/ \E x \in unborn : Store(x)
     \/ UNCHANGED redis
  /\ UNCHANGED <<cache, locks, call, fill>>

\* Another process fills the pool too.
StoreElsewhere(x) ==
  /\ Store(x)
  /\ UNCHANGED <<cache, locks, call, fill, strays>>

Fill(f) ==
  \/ BeginFill(f) \/ Save(f) \/ Reject(f) \/ SaveFails(f) \/ NextRound(f)
  \/ Counted(f) \/ CountFails(f) \/ Refreshes(f) \/ RefreshFails(f) \/ Refreshed(f)
  \/ CancelFill(f)

Fetch ==
  /\ \/ \E c \in Fetcher : EnterRefresh(c) \/ EnterLookup(c) \/ Load(c) \/ Use(c)
     \/ \E x \in Cookie : Expire(x) \/ QuarantineElapses(x)
     \/ \E r \in Request : MissElapses(r)
     \/ CacheAges
  /\ UNCHANGED <<fill, strays>>

Next ==
  \/ Fetch
  \/ \E f \in Filler : Fill(f)
  \/ \E x \in Cookie : StoreElsewhere(x)
  \/ StrayEnds

Spec == Init /\ [][Next]_vars

-----------------------------------------------------------------------------
(* Properties *)

\* Every variable has values of its type.
FillRow == [phase : {"idle", "filling", "counting", "refreshing", "done"},
            deficit : 0 .. Target, rounds : 0 .. MaxRounds, flying : 0 .. Target,
            made : SUBSET Cookie]
TypeOK == PoolTypeOK /\ fill \in [Filler -> FillRow] /\ strays \in Nat

\* What a fill has created is known to the fetches when it returns, and as long as it is
\* stored: no load that read Redis before, and no lookup, makes them forget it.
HarvestVisible ==
  \A f \in Filler : In(f, "done") => fill[f].made \cap stored \subseteq known

\* However the attempts of its rounds end, a fill never tries for more than was missing.
FillBounded ==
  \A f \in Filler : In(f, "filling") =>
    Cardinality(fill[f].made) + fill[f].flying <= fill[f].deficit
=============================================================================
