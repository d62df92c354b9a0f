--------------------------- MODULE ParityEvidence ---------------------------
(***************************************************************************)
(* How controlled runs become the evidence behind the parity manifest      *)
(* (src/scripts): a collector executes the scenarios of a plan and writes  *)
(* a batch or a bundle that names the fingerprint of the runtime source;   *)
(* batches are merged into a bundle, a bundle is built into a report, a    *)
(* report is compiled into a comparison and a receipt for every task kind, *)
(* and the promoter reads them all and marks the manifest complete.  Each  *)
(* step is a command of its own, started by an operator at any time, that  *)
(* may be killed; the source tree may be edited between any two steps.     *)
(*                                                                         *)
(* A scenario's payloads (inputs, rows, hashes of responses) are reduced   *)
(* to what the gates decide on: how the V2 plugin ended and whether the    *)
(* legacy rows equal the V2 rows.  A hash stands for the content it is of. *)
(* Schema and type checks of hand-written files, the scan for secrets and  *)
(* the checks of paths are left out: every file here is one the commands   *)
(* wrote, where the code expects it.                                       *)
(***************************************************************************)
EXTENDS Naturals, Sequences, FiniteSets, FiniteSetsExt, SequencesExt

CONSTANTS
  KindOrder,   \* the task kinds, in the order compile_evidence sorts them
  Family,      \* "product", "collection" or "merchant", for each kind
  NoResult,    \* the end that means "no result" for a kind: "not_found" or "no_rows"
  Work,        \* the operator's commands: sequences of plans, one command after another
  Required,    \* --require-observed-case of a campaign, or NoFile
  AcceptThrottle,  \* --accept-observed-throttle
  OddSight,    \* bound: the ways in which a scenario may end other than planned
  MaxTrouble,  \* bound: scenarios that do so, edits of the source and kills in a behaviour
  Idle, NoFile, Torn

Kind == ToSet(KindOrder)
Case == {"success", "no_result", "throttle"}
Matrix == Kind \X Case
Plan == UNION {ToSet(Work[i]) : i \in DOMAIN Work}
Source == 0 .. MaxTrouble  \* versions of the runtime source tree
End == {"success", "not_found", "no_rows", "unsupported", "throttled", "unanswered"}

\* Only the exporter of batch plans marks one historical; and a campaign, which refuses to
\* overwrite a file, keeps its files under names no other command writes to.
ASSUME ParityConstants ==
  /\ KindOrder \in Seq(Kind)
  /\ Family \in [Kind -> {"product", "collection", "merchant"}]
  /\ NoResult \in [Kind -> {"not_found", "no_rows"}]
  /\ Work \in Seq(Seq(Plan))
  /\ \A p \in Plan : IsFiniteSet(p.scenarios) /\ (p.historical => p.tool = "batch")
  /\ \A i, j \in DOMAIN Work : Len(Work[i]) > 1 =>
       \A n \in DOMAIN Work[i], m \in DOMAIN Work[j] :
         Work[i][n].id = Work[j][m].id => i = j /\ n = m
  /\ Required \in {"no_result", "throttle", NoFile}
  /\ AcceptThrottle \in BOOLEAN
  /\ OddSight \subseteq [end : End, same : BOOLEAN] /\ MaxTrouble \in Nat

VARIABLES
  source,    \* the runtime source tree in the project now
  turn,      \* the command of Work that is next
  trouble,   \* how many scenarios did not end as planned, edits and kills there were
  proc,      \* the collecting process, or Idle
  batches,   \* the batch file of each plan
  bundle, report,     \* the bundle and the report file
  compiler,           \* the compiling process, or Idle
  evidence,           \* evidence/controlled: comparison and receipt of each kind
  rawCookie, cookie,  \* the receipt of cookie production, raw and compiled
  promoter,           \* the promoting process, or Idle
  manifest            \* the comparisons behind a complete manifest, or NoFile

collecting == <<turn, proc, batches>>
compiling == <<compiler, evidence>>
promoting == <<promoter, manifest>>
vars == <<source, trouble, collecting, bundle, report, compiling, rawCookie, cookie, promoting>>
-----------------------------------------------------------------------------
(* Plans.  A place is a marketplace and a postal code. *)

Identity(s) == <<s.kind, s.case>>
Identities(S) == {Identity(s) : s \in S}
Unique(S) == Cardinality(Identities(S)) = Cardinality(S)
Covers(S) ==
  /\ {"US", "JP"} \subseteq {s.place.market : s \in S}
  /\ Cardinality({s.place.postal : s \in S}) >= 2

PlanFile(id, tool, run, historical, S) ==
  [id |-> id, tool |-> tool, run |-> run, historical |-> historical, scenarios |-> S]
Scenarios(kinds, case, place) == {[kind |-> k, case |-> case, place |-> place] : k \in kinds}

ExportedPlan(id, run, kind, place, exactJoin) ==
  PlanFile(id, "batch", run, ~exactJoin, Scenarios({kind}, "success", place))
ConvertedPlan(id, run, kinds, place) ==
  PlanFile(id, "product", run, FALSE, Scenarios(kinds, "success", place))
CollectionPlan(id, run, kinds, place) ==
  PlanFile(id, "collection", run, FALSE, Scenarios(kinds, "success", place))
MerchantPlan(id, run, kinds, place) ==
  PlanFile(id, "merchant", run, FALSE, Scenarios(kinds, "success", place))
FailurePlan(id, run, kinds, case, place) ==
  PlanFile(id, "failure", run, FALSE, Scenarios(kinds, case, place))
CookiePlan(id, run) == PlanFile(id, "cookie", run, FALSE, {})

SuccessPlan(p, family) ==
  /\ p.tool = family /\ Unique(p.scenarios) /\ p.scenarios # {}
  /\ \A s \in p.scenarios : Family[s.kind] = family /\ s.case = "success"
ProductPlanValid(p) == SuccessPlan(p, "product")
CollectionPlanValid(p) == SuccessPlan(p, "collection")
MerchantPlanValid(p) == SuccessPlan(p, "merchant")
FailurePlanValid(p) ==
  /\ p.tool = "failure" /\ Unique(p.scenarios) /\ p.scenarios # {}
  /\ \A s \in p.scenarios : s.case # "success"
ShadowPlanValid(p) ==
  /\ Unique(p.scenarios)
  /\ \/ p.tool = "batch"
     \/ p.tool = "final" /\ Identities(p.scenarios) = Matrix /\ Covers(p.scenarios)

\* What a campaign of single failures may write for the plan p.
Targets(p) ==
  LET s == CHOOSE s \in p.scenarios : TRUE
      cases == {s.case} \cup {c \in {"throttle"} : AcceptThrottle} IN
  {s.kind} \X (IF Required = NoFile THEN cases ELSE cases \cap {Required})
CampaignValid(ps) ==
  /\ \A i \in DOMAIN ps : /\ FailurePlanValid(ps[i]) /\ Cardinality(ps[i].scenarios) = 1
                          /\ ps[i].run = ps[1].run /\ Targets(ps[i]) # {}
  /\ \A i, j \in DOMAIN ps : i # j => Targets(ps[i]) \cap Targets(ps[j]) = {}

CommandValid(ps) ==
  \/ Len(ps) > 1 /\ CampaignValid(ps)
  \/ /\ Len(ps) = 1
     /\ \/ ShadowPlanValid(ps[1]) \/ ProductPlanValid(ps[1]) \/ CollectionPlanValid(ps[1])
        \/ MerchantPlanValid(ps[1]) \/ FailurePlanValid(ps[1]) \/ ps[1].tool = "cookie"
-----------------------------------------------------------------------------
(* Observations: how the V2 plugin ended, and whether the legacy side agrees *)
(* (the rows of a success, the state the legacy parser gives a failure).     *)

LegacyState(end) ==
  CASE end = "success" -> 1 [] end = "not_found" -> 3 [] end = "no_rows" -> 4
    [] end = "unsupported" -> 2 [] OTHER -> 0
Expected(kind, case) ==
  CASE case = "success" -> "success" [] case = "throttle" -> "throttled"
    [] OTHER -> NoResult[kind]

\* Every way the scenarios S may end: as planned but for what MaxTrouble leaves.
Sights(S) ==
  LET usual == [s \in S |-> [end |-> Expected(s.kind, s.case), same |-> TRUE]] IN
  UNION {{[s \in S |-> IF s \in D THEN strange[s] ELSE usual[s]] : strange \in [D -> OddSight]} :
         D \in UNION {kSubset(n, S) : n \in 0 .. MaxTrouble - trouble}}
Oddities(sight) ==
  Cardinality({s \in DOMAIN sight :
                 sight[s] # [end |-> Expected(s.kind, s.case), same |-> TRUE]})

\* The case a failure is recorded as, or "mismatch".
ObservedCase(s, end) ==
  CASE s.case = "no_result" /\ end = NoResult[s.kind] -> "no_result"
    [] end = "throttled" /\ (s.case = "throttle" \/ AcceptThrottle) -> "throttle"
    [] OTHER -> "mismatch"

\* Scenarios as a collector records them.  The fingerprint is taken of the source
\* tree when the last one has ended, not of the code that was executed; hash and
\* joined repeat what the file says, for the properties.
Observations(p, sight, case) ==
  {[kind |-> s.kind, case |-> case[s], place |-> s.place, end |-> sight[s].end,
    same |-> sight[s].same, hash |-> source, joined |-> p.historical] :
     s \in p.scenarios}
Collected(p, S) ==
  [run |-> p.run, historical |-> p.historical, source |-> source, scenarios |-> S]

\* _build_scenario raises for a success without rows and a failure with a result.
Buildable(o) == o.case = "success" <=> o.end = "success"
\* Bug: a difference between the rows is reported, but does not fail the scenario.
PassedByOutcome(o) == LegacyState(o.end) = LegacyState(Expected(o.kind, o.case))
Passed(o) ==
  /\ o.same
  /\ LegacyState(o.end) = LegacyState(Expected(o.kind, o.case))
  /\ o.case = "throttle" <=> o.end = "throttled"
-----------------------------------------------------------------------------
Init ==
  /\ source = 0 /\ turn = 1 /\ trouble = 0
  /\ proc = Idle /\ compiler = Idle /\ promoter = Idle
  /\ batches = [id \in {p.id : p \in Plan} |-> NoFile]
  /\ bundle = NoFile /\ report = NoFile
  /\ evidence = [k \in Kind |-> [comparison |-> NoFile, receipt |-> NoFile]]
  /\ rawCookie = NoFile /\ cookie = NoFile /\ manifest = NoFile

EditSource ==
  /\ trouble < MaxTrouble /\ trouble' = trouble + 1
  /\ source' = source + 1
  /\ UNCHANGED <<collecting, bundle, report, compiling, rawCookie, cookie, promoting>>

Start ==
  /\ proc = Idle /\ turn <= Len(Work)
  /\ turn' = turn + 1
  /\ proc' = IF CommandValid(Work[turn])
             THEN [plans |-> Work[turn], hashes |-> {}] ELSE Idle
  /\ UNCHANGED <<source, trouble, batches, bundle, report, compiling, rawCookie, cookie, promoting>>

Doing(tools) == proc # Idle /\ Head(proc.plans).tool \in tools
Current == Head(proc.plans)
PlannedCases == [s \in Current.scenarios |-> s.case]
Writes(id, file) == batches' = [batches EXCEPT ![id] = file]

Answered(x) == x.end # "unanswered"
CollectShadow ==
  /\ Doing({"final", "batch"})
  /\ \E sight \in Sights(Current.scenarios) :
       LET file == Collected(Current, Observations(Current, sight, PlannedCases))
           answered == \A s \in Current.scenarios : Answered(sight[s]) IN
       /\ trouble' = trouble + Oddities(sight)
       /\ bundle' = IF answered /\ Current.tool = "final" THEN file ELSE bundle
       /\ IF answered /\ Current.tool = "batch" THEN Writes(Current.id, file)
                                                ELSE UNCHANGED batches
  /\ proc' = Idle
  /\ UNCHANGED <<source, turn, report, compiling, rawCookie, cookie, promoting>>

\* The collectors of successes: one scenario that fails ends the command without a file.
CollectSuccesses(tool, usable) ==
  /\ Doing({tool})
  /\ \E sight \in Sights(Current.scenarios) :
       /\ trouble' = trouble + Oddities(sight)
       /\ IF \A s \in Current.scenarios : sight[s].end \in usable
          THEN Writes(Current.id, Collected(Current, Observations(Current, sight, PlannedCases)))
          ELSE UNCHANGED batches
  /\ proc' = Idle
  /\ UNCHANGED <<source, turn, bundle, report, compiling, rawCookie, cookie, promoting>>
ProductUsable == {"success"}
CollectionUsable == {"success"}
MerchantUsable == {"success"}
CollectProducts == CollectSuccesses("product", ProductUsable)
CollectCollections == CollectSuccesses("collection", CollectionUsable)
CollectMerchants == CollectSuccesses("merchant", MerchantUsable)

\* The collector of failures replays the legacy parser itself and insists that it agrees.
FailureUsable(s, x) == ObservedCase(s, x.end) # "mismatch" /\ x.same
FailureFile(p, sight) ==
  Collected(p, Observations(p, sight, [s \in p.scenarios |-> ObservedCase(s, sight[s].end)]))
CollectFailures ==
  /\ Doing({"failure"}) /\ Cardinality(Current.scenarios) > 1
  /\ \E sight \in Sights(Current.scenarios) :
       /\ trouble' = trouble + Oddities(sight)
       /\ IF \A s \in Current.scenarios : FailureUsable(s, sight[s])
          THEN Writes(Current.id, FailureFile(Current, sight))
          ELSE UNCHANGED batches
  /\ proc' = Idle
  /\ UNCHANGED <<source, turn, bundle, report, compiling, rawCookie, cookie, promoting>>

\* Bug: only the fingerprint of the file at hand is looked at.
NextPlanForgets == IF Len(proc.plans) = 1 THEN Idle ELSE [proc EXCEPT !.plans = Tail(@)]
NextPlan == IF Len(proc.plans) = 1 THEN Idle
            ELSE [proc EXCEPT !.plans = Tail(@), !.hashes = @ \cup {source}]

SingleValid(o) == Buildable(o) /\ Passed(o)
\* A campaign goes on after a candidate that ended otherwise, and stops at an error.
CampaignStep ==
  /\ Doing({"failure"}) /\ Cardinality(Current.scenarios) = 1
  /\ \E sight \in Sights(Current.scenarios) :
       LET file == FailureFile(Current, sight)
           o == CHOOSE o \in file.scenarios : TRUE
           mismatch == o.case = "mismatch"
           error == ~mismatch /\ ~(SingleValid(o) /\ proc.hashes \subseteq {source})
           kept == ~mismatch /\ ~error /\ Required \in {NoFile, o.case} IN
       /\ trouble' = trouble + Oddities(sight)
       /\ IF kept THEN Writes(Current.id, file) ELSE UNCHANGED batches
       /\ proc' = IF error THEN Idle
                  ELSE IF mismatch /\ Len(proc.plans) > 1 THEN [proc EXCEPT !.plans = Tail(@)]
                  ELSE NextPlan
  /\ UNCHANGED <<source, turn, bundle, report, compiling, rawCookie, cookie, promoting>>

\* One target after another, US then JP: the receipt exists when both made a cookie
\* that the pool and its consumer show.
CollectCookies ==
  /\ Doing({"cookie"})
  /\ \E shown \in BOOLEAN :
       rawCookie' = IF shown THEN [source |-> source] ELSE rawCookie
  /\ proc' = Idle
  /\ UNCHANGED <<source, trouble, turn, batches, bundle, report, compiling, cookie, promoting>>
-----------------------------------------------------------------------------
(* Merging, building and compiling. *)

BatchValid(b) == b # NoFile /\ Unique(b.scenarios) /\ \A o \in b.scenarios : Buildable(o)
BatchFiles == {b \in {batches[id] : id \in DOMAIN batches} : BatchValid(b)}
MergedScenarios(B) == UNION {b.scenarios : b \in B}
SameRun(B) == \A b, c \in B : b.run = c.run
Disjoint(B) == \A b, c \in B : b # c => Identities(b.scenarios) \cap Identities(c.scenarios) = {}
\* Bug: batches of different versions of the source are merged.
BoundToAny(B) == \A b \in B : b.source \in Source
BoundToSource(B) == \A b \in B : b.source = source
Merge(B) ==
  /\ Identities(MergedScenarios(B)) = Matrix
  /\ SameRun(B) /\ Disjoint(B) /\ BoundToSource(B)
  /\ \A b \in B : ~b.historical
  /\ Covers(MergedScenarios(B))
  /\ bundle' = [run |-> (CHOOSE b \in B : TRUE).run, historical |-> FALSE,
                source |-> source, scenarios |-> MergedScenarios(B)]
  /\ UNCHANGED <<source, trouble, collecting, report, compiling, rawCookie, cookie, promoting>>

Reported(o) ==
  [kind |-> o.kind, case |-> o.case, place |-> o.place, end |-> o.end, same |-> o.same,
   hash |-> o.hash, joined |-> o.joined, passed |-> Passed(o)]
BuildReport ==
  /\ bundle # NoFile /\ bundle.source = source
  /\ \A o \in bundle.scenarios : Buildable(o)
  /\ report' = [run |-> bundle.run, source |-> bundle.source,
                scenarios |-> {Reported(o) : o \in bundle.scenarios}]
  /\ UNCHANGED <<source, trouble, collecting, bundle, compiling, rawCookie, cookie, promoting>>

ReportValid(r) ==
  /\ r.source = source
  /\ Unique(r.scenarios) /\ Identities(r.scenarios) = Matrix
  /\ \A s \in r.scenarios : s.passed
  /\ Covers(r.scenarios)
Comparison(r, k) ==
  [kind |-> k, run |-> r.run, source |-> r.source,
   scenarios |-> {s \in r.scenarios : s.kind = k}]

StartCompiling ==
  /\ compiler = Idle /\ report # NoFile /\ ReportValid(report)
  /\ compiler' = [report |-> report, todo |-> KindOrder, file |-> "comparison", open |-> FALSE]
  /\ UNCHANGED <<source, trouble, collecting, bundle, report, evidence, rawCookie, cookie, promoting>>

\* write_bytes empties the file, then fills it.
OpenArtifact ==
  /\ compiler # Idle /\ ~compiler.open
  /\ evidence' = [evidence EXCEPT ![Head(compiler.todo)][compiler.file] = Torn]
  /\ compiler' = [compiler EXCEPT !.open = TRUE]
  /\ UNCHANGED <<source, trouble, collecting, bundle, report, rawCookie, cookie, promoting>>

\* The receipt names the comparison by the hash of its content.
WriteArtifact ==
  /\ compiler # Idle /\ compiler.open
  /\ LET k == Head(compiler.todo) IN
       evidence' = [evidence EXCEPT ![k][compiler.file] = Comparison(compiler.report, k)]
  /\ compiler' = IF compiler.file = "comparison"
                   THEN [compiler EXCEPT !.file = "receipt", !.open = FALSE]
                 ELSE IF Len(compiler.todo) > 1
                   THEN [compiler EXCEPT !.file = "comparison", !.open = FALSE, !.todo = Tail(@)]
                 ELSE Idle
  /\ UNCHANGED <<source, trouble, collecting, bundle, report, rawCookie, cookie, promoting>>

CookieValid(c) == c # NoFile /\ c.source = source
CompileCookie ==
  /\ CookieValid(rawCookie)
  /\ cookie' = rawCookie
  /\ UNCHANGED <<source, trouble, collecting, bundle, report, compiling, rawCookie, promoting>>
-----------------------------------------------------------------------------
(* Promotion: every pair of files is read and checked, then all of them      *)
(* again from a candidate manifest, which then replaces the manifest.        *)

PairValid(k, receipt, comparison) ==
  /\ receipt \notin {NoFile, Torn} /\ comparison \notin {NoFile, Torn}
  /\ receipt.kind = k /\ comparison.kind = k
  /\ receipt.run = comparison.run /\ receipt.source = comparison.source
  /\ receipt.scenarios = comparison.scenarios
  /\ {s.case : s \in comparison.scenarios} = Case
  /\ \A s \in comparison.scenarios : s.kind = k /\ s.passed
EvidenceValid(k, receipt, comparison) ==
  /\ PairValid(k, receipt, comparison)
  /\ receipt = comparison
  /\ receipt.source = source

StartPromotion ==
  /\ promoter = Idle /\ manifest = NoFile  \* bound: one promotion succeeds
  /\ promoter' = [pass |-> "pairs", todo |-> Kind, receipt |-> NoFile, seen |-> <<>>]
  /\ UNCHANGED <<source, trouble, collecting, bundle, report, compiling, rawCookie, cookie, manifest>>

Checking(pass) == promoter # Idle /\ promoter.pass \in pass /\ promoter.todo # {}
NextKind == CHOOSE k \in promoter.todo : TRUE
ReadReceipt ==
  /\ Checking({"pairs", "files", "gate"}) /\ promoter.receipt = NoFile
  /\ LET r == evidence[NextKind].receipt IN
       promoter' = IF r \in {NoFile, Torn} THEN Idle ELSE [promoter EXCEPT !.receipt = r]
  /\ UNCHANGED <<source, trouble, collecting, bundle, report, compiling, rawCookie, cookie, manifest>>

\* The first pass looks at a pair twice, by validate_compiled_pair and by the gate.
ReadComparison ==
  /\ Checking({"pairs", "files"}) /\ promoter.receipt # NoFile
  /\ LET k == NextKind
         c == evidence[k].comparison IN
       promoter' =
         CASE promoter.pass = "pairs" /\ PairValid(k, promoter.receipt, c) ->
                [promoter EXCEPT !.pass = "files", !.receipt = NoFile]
           [] promoter.pass = "files" /\ EvidenceValid(k, promoter.receipt, c) ->
                [promoter EXCEPT !.pass = "pairs", !.receipt = NoFile, !.todo = @ \ {k}]
           [] OTHER -> Idle
  /\ UNCHANGED <<source, trouble, collecting, bundle, report, compiling, rawCookie, cookie, manifest>>

\* The second pass is validate_manifest on the candidate.
GateComparison ==
  /\ Checking({"gate"}) /\ promoter.receipt # NoFile
  /\ LET k == NextKind
         c == evidence[k].comparison IN
       promoter' = IF EvidenceValid(k, promoter.receipt, c)
                   THEN [promoter EXCEPT !.receipt = NoFile, !.todo = @ \ {k}, !.seen = Append(@, c)]
                   ELSE Idle
  /\ UNCHANGED <<source, trouble, collecting, bundle, report, compiling, rawCookie, cookie, manifest>>

\* After the first pass, and again at the head of the second.
ReadCookie ==
  /\ promoter # Idle /\ promoter.todo = {} /\ promoter.pass = "pairs"
  /\ promoter' = IF CookieValid(cookie) THEN [promoter EXCEPT !.pass = "gate", !.todo = Kind]
                                        ELSE Idle
  /\ UNCHANGED <<source, trouble, collecting, bundle, report, compiling, rawCookie, cookie, manifest>>

ReplaceManifest ==
  /\ promoter # Idle /\ promoter.todo = {} /\ promoter.pass = "gate"
  /\ manifest' = ToSet(promoter.seen)
  /\ promoter' = Idle
  /\ UNCHANGED <<source, trouble, collecting, bundle, report, compiling, rawCookie, cookie>>

\* A command is killed; a temporary file it leaves is nobody's input.
Killed ==
  /\ trouble < MaxTrouble /\ trouble' = trouble + 1
  /\ \/ proc # Idle /\ proc' = Idle /\ UNCHANGED <<compiler, promoter>>
     \/ compiler # Idle /\ compiler' = Idle /\ UNCHANGED <<proc, promoter>>
     \/ promoter # Idle /\ promoter' = Idle /\ UNCHANGED <<proc, compiler>>
  /\ UNCHANGED <<source, turn, batches, bundle, report, evidence, rawCookie, cookie, manifest>>

Collect ==
  \/ Start \/ CollectShadow \/ CollectProducts \/ CollectCollections \/ CollectMerchants
  \/ CollectFailures \/ CampaignStep \/ CollectCookies
Promote ==
  \/ StartPromotion \/ ReadReceipt \/ ReadComparison \/ ReadCookie
  \/ GateComparison \/ ReplaceManifest
Next ==
  \/ EditSource \/ Collect
  \/ \E B \in SUBSET BatchFiles : Merge(B)
  \/ BuildReport \/ StartCompiling \/ OpenArtifact \/ WriteArtifact \/ CompileCookie
  \/ Promote \/ Killed

Spec == Init /\ [][Next]_vars
-----------------------------------------------------------------------------
(* Properties. *)

\* A bundle that reaches the builder covers the whole matrix once and the places it
\* must cover, and each of its scenarios was fingerprinted as the bundle says and is
\* not a join with some earlier legacy row (merge_batches, validate_shadow_plan).
BundleSound ==
  bundle # NoFile =>
    /\ Unique(bundle.scenarios) /\ Identities(bundle.scenarios) = Matrix
    /\ Covers(bundle.scenarios)
    /\ \A o \in bundle.scenarios : o.hash = bundle.source /\ ~o.joined

\* Behind a manifest marked complete there is, for each kind and case, one scenario
\* whose V2 run ended as the case demands and with which the legacy side agreed,
\* whatever was killed, rewritten or edited while the files were made and read.
PromotedObserved ==
  manifest # NoFile =>
    \A k \in Kind, case \in Case :
      \E c \in manifest :
        /\ c.kind = k
        /\ Cardinality({s \in c.scenarios : s.case = case}) = 1
        /\ \A s \in c.scenarios :
             s.case = case => /\ s.kind = k /\ s.end = Expected(k, case)
                              /\ s.same /\ ~s.joined /\ s.hash = c.source

\* The files one campaign keeps bear one fingerprint, although the source may be
\* edited between its plans (run_failure_campaign; a command runs once).
CampaignOneSource ==
  \A i \in DOMAIN Work : \A p, q \in ToSet(Work[i]) :
    NoFile \notin {batches[p.id], batches[q.id]} => batches[p.id].source = batches[q.id].source
=============================================================================
