------------------------ MODULE ParityEvidenceProofs ------------------------
(***************************************************************************)
(* Proofs about ParityEvidence: what every file between a collector and    *)
(* the manifest rests on, for any matrix, plans and number of troubles.    *)
(*                                                                         *)
(* The inductive invariant EvidenceInv follows the chain file by file: a   *)
(* batch names the source its scenarios were fingerprinted from, a bundle  *)
(* holds each identity once, a report says which scenarios passed and the  *)
(* compiler's copy that all did, a file of the evidence is missing, torn   *)
(* or a whole comparison, and the promoter has seen one of every kind it   *)
(* is done with.  For campaigns it ties the files a running command kept   *)
(* to the fingerprints it remembers.                                       *)
(***************************************************************************)
EXTENDS ParityEvidence, FiniteSetTheorems, TLAPS

(* The scenarios of a set are told apart by their identities. *)
Distinct(S) == \A a, b \in S : Identity(a) = Identity(b) => a = b

(* What is true of every file a collector wrote. *)
FileSound(b) ==
  /\ IsFiniteSet(b.scenarios)
  /\ \A o \in b.scenarios : o.hash = b.source /\ o.joined = b.historical
BatchesSound ==
  /\ DOMAIN batches = {p.id : p \in Plan}
  /\ \A id \in DOMAIN batches : batches[id] # NoFile => FileSound(batches[id])

BundleWhole ==
  bundle # NoFile =>
    /\ IsFiniteSet(bundle.scenarios) /\ Distinct(bundle.scenarios)
    /\ Identities(bundle.scenarios) = Matrix /\ Covers(bundle.scenarios)
    /\ \A o \in bundle.scenarios : o.hash = bundle.source /\ ~o.joined

(* What is true of a report that was built, and of one that is being compiled. *)
ReportSound(r) ==
  /\ IsFiniteSet(r.scenarios)
  /\ \A s \in r.scenarios : /\ s.hash = r.source /\ ~s.joined
                            /\ Buildable(s) /\ (s.passed => Passed(s))
Passing(r) ==
  /\ Distinct(r.scenarios) /\ Identities(r.scenarios) = Matrix
  /\ \A s \in r.scenarios : s.passed
ReportsSound ==
  /\ report # NoFile => ReportSound(report)
  /\ compiler # Idle =>
       /\ ReportSound(compiler.report) /\ Passing(compiler.report)
       /\ compiler = [report |-> compiler.report, todo |-> compiler.todo,
                       file |-> compiler.file, open |-> compiler.open]
       /\ compiler.file \in {"comparison", "receipt"}

(* What a comparison says of its kind when it is whole. *)
Observed(c, k, case) ==
  \E s : /\ {t \in c.scenarios : t.case = case} = {s}
         /\ s.kind = k /\ s.end = Expected(k, case)
         /\ s.same /\ ~s.joined /\ s.hash = c.source
ComparisonSound(c, k) == c.kind = k /\ \A case \in Case : Observed(c, k, case)
FileOf(f, k) == f \in {NoFile, Torn} \/ ComparisonSound(f, k)
EvidenceSound ==
  /\ evidence = [k \in Kind |-> [comparison |-> evidence[k].comparison,
                                 receipt |-> evidence[k].receipt]]
  /\ \A k \in Kind : FileOf(evidence[k].comparison, k) /\ FileOf(evidence[k].receipt, k)

PromoterSound(p) ==
  /\ p = [pass |-> p.pass, todo |-> p.todo, receipt |-> p.receipt, seen |-> p.seen]
  /\ p.seen \in Seq(ToSet(p.seen)) /\ p.todo \subseteq Kind
  /\ p.pass = "gate" => \A k \in Kind \ p.todo : \E c \in ToSet(p.seen) : ComparisonSound(c, k)
PromotionSound ==
  /\ promoter # Idle => PromoterSound(promoter)
  /\ manifest # NoFile => \A k \in Kind : \E c \in manifest : ComparisonSound(c, k)

(* The command at hand has done its first plans; each file it kept has a          *)
(* fingerprint it remembers, and the commands that are next have written nothing. *)
Doer(i, d) ==
  /\ proc.plans = SubSeq(Work[i], d + 1, Len(Work[i]))
  /\ Len(Work[i]) > 1 =>
       /\ \A n \in 1 .. d : batches[Work[i][n].id] # NoFile =>
                              batches[Work[i][n].id].source \in proc.hashes
       /\ \A n \in d + 1 .. Len(Work[i]) : batches[Work[i][n].id] = NoFile
CommandsSound ==
  /\ turn \in 1 .. Len(Work) + 1
  /\ \A i \in turn .. Len(Work) : Len(Work[i]) > 1 =>
       \A n \in DOMAIN Work[i] : batches[Work[i][n].id] = NoFile
  /\ proc # Idle => /\ proc = [plans |-> proc.plans, hashes |-> proc.hashes]
                    /\ turn > 1 /\ CommandValid(Work[turn - 1])
                    /\ \E d \in 0 .. Len(Work[turn - 1]) - 1 : Doer(turn - 1, d)

EvidenceInv ==
  /\ BatchesSound /\ BundleWhole /\ ReportsSound /\ EvidenceSound /\ PromotionSound
  /\ CommandsSound /\ CampaignOneSource

-----------------------------------------------------------------------------
(* Scenarios and their identities. *)

(* A finite set of scenarios is told apart when it has as many identities. *)
LEMMA UniqueDistinct ==
  ASSUME NEW S, IsFiniteSet(S), Unique(S)
  PROVE  Distinct(S)
<1> DEFINE T == Identities(S)
           f == [o \in S |-> Identity(o)]
<1>1. f \in Surjection(S, T)
  BY DEF Surjection, Identities
<1>2. Cardinality(T) = Cardinality(S)
  BY DEF Unique
<1>3. f \in Injection(S, T)
  <2> HIDE DEF T, f
  <2> QED BY <1>1, <1>2, FS_SurjSameCardinalityImpliesInj
<1> QED BY <1>3 DEF Injection, IsInjective, Distinct

(* And a set that is told apart is finite and has as many, when they are finitely many. *)
LEMMA DistinctUnique ==
  ASSUME NEW S, Distinct(S), IsFiniteSet(Identities(S))
  PROVE  IsFiniteSet(S) /\ Unique(S)
<1> DEFINE T == Identities(S)
           f == [o \in S |-> Identity(o)]
<1>1. f \in Surjection(S, T)
  BY DEF Surjection, Identities
<1>2. f \in Injection(S, T)
  BY DEF Injection, IsInjective, Distinct, Identities
<1>3. IsFiniteSet(S) /\ Cardinality(S) = Cardinality(T)
  <2>1. IsFiniteSet(T)
    OBVIOUS
  <2> HIDE DEF T, f
  <2> QED BY <1>1, <1>2, <2>1, FS_Injection
<1> QED BY <1>3 DEF Unique

LEMMA MatrixFinite == IsFiniteSet(Matrix)
<1>1. IsFiniteSet(Kind)
  <2> DEFINE D == 1 .. Len(KindOrder)
             f == [i \in D |-> KindOrder[i]]
  <2>1. KindOrder \in Seq(Kind)
    BY ParityConstants
  <2>2. f \in Surjection(D, Kind)
    BY <2>1 DEF Surjection, Kind, ToSet
  <2>3. IsFiniteSet(D)
    BY <2>1, FS_Interval
  <2> HIDE DEF D, f
  <2> QED BY <2>2, <2>3, FS_Surjection
<1>2. IsFiniteSet(Case)
  <2>1. IsFiniteSet({"success"})
    BY FS_Singleton
  <2>2. IsFiniteSet({"success"} \cup {"no_result"})
    BY <2>1, FS_AddElement
  <2>3. IsFiniteSet(({"success"} \cup {"no_result"}) \cup {"throttle"})
    BY <2>2, FS_AddElement
  <2>4. Case = ({"success"} \cup {"no_result"}) \cup {"throttle"}
    BY DEF Case
  <2> QED BY <2>3, <2>4
<1> QED BY <1>1, <1>2, FS_Product DEF Matrix

(* The observations of a plan: one for each scenario, and finitely many. *)
LEMMA ObservationsFinite ==
  ASSUME NEW p, NEW sight, NEW case, IsFiniteSet(p.scenarios)
  PROVE  /\ IsFiniteSet(Observations(p, sight, case))
         /\ \A o \in Observations(p, sight, case) : o.hash = source /\ o.joined = p.historical
<1> DEFINE S == p.scenarios
           T == Observations(p, sight, case)
           f == [s \in S |-> [kind |-> s.kind, case |-> case[s], place |-> s.place,
                              end |-> sight[s].end, same |-> sight[s].same,
                              hash |-> source, joined |-> p.historical]]
<1>1. f \in Surjection(S, T)
  BY DEF Surjection, Observations
<1>2. IsFiniteSet(T)
  <2> HIDE DEF S, T, f
  <2>1. IsFiniteSet(S)
    BY DEF S
  <2> QED BY <1>1, <2>1, FS_Surjection
<1> QED BY <1>2 DEF Observations

(* Those that are recorded as planned have the identities and the places of the plan. *)
LEMMA ObservedAsPlanned ==
  ASSUME NEW p, NEW sight, NEW case, case = [s \in p.scenarios |-> s.case],
         Distinct(p.scenarios)
  PROVE  LET T == Observations(p, sight, case) IN
         /\ Distinct(T) /\ Identities(T) = Identities(p.scenarios)
         /\ Covers(p.scenarios) => Covers(T)
<1> DEFINE S == p.scenarios
           T == Observations(p, sight, case)
<1>1. \A o \in T : \E s \in S : /\ o = [kind |-> s.kind, case |-> s.case, place |-> s.place,
                                     end |-> sight[s].end, same |-> sight[s].same,
                                     hash |-> source, joined |-> p.historical]
  BY DEF Observations
<1>2. \A s \in S : \E o \in T : o.kind = s.kind /\ o.case = s.case /\ o.place = s.place
  <2> SUFFICES ASSUME NEW s \in S
               PROVE  \E o \in T : o.kind = s.kind /\ o.case = s.case /\ o.place = s.place
    OBVIOUS
  <2> DEFINE o == [kind |-> s.kind, case |-> s.case, place |-> s.place,
                   end |-> sight[s].end, same |-> sight[s].same,
                   hash |-> source, joined |-> p.historical]
  <2>1. o \in T
    BY DEF Observations
  <2> QED BY <2>1
<1>3. \A o \in T : \E s \in S : o.kind = s.kind /\ o.case = s.case /\ o.place = s.place
  BY <1>1
<1>4. Distinct(T)
  <2> SUFFICES ASSUME NEW a \in T, NEW b \in T, Identity(a) = Identity(b)
               PROVE  a = b
    BY DEF Distinct
  <2>1. PICK s \in S : a = [kind |-> s.kind, case |-> s.case, place |-> s.place,
                          end |-> sight[s].end, same |-> sight[s].same,
                          hash |-> source, joined |-> p.historical]
    BY <1>1
  <2>2. PICK t \in S : b = [kind |-> t.kind, case |-> t.case, place |-> t.place,
                          end |-> sight[t].end, same |-> sight[t].same,
                          hash |-> source, joined |-> p.historical]
    BY <1>1
  <2>3. Identity(s) = Identity(t)
    BY <2>1, <2>2 DEF Identity
  <2>4. s = t
    BY <2>3 DEF Distinct
  <2> QED BY <2>1, <2>2, <2>4
<1>5. Identities(T) = Identities(S)
  <2> HIDE DEF T, S
  <2> QED BY <1>2, <1>3 DEF Identities, Identity
<1>6. /\ {o.place.market : o \in T} = {s.place.market : s \in S}
      /\ {o.place.postal : o \in T} = {s.place.postal : s \in S}
  <2> HIDE DEF T, S
  <2> QED BY <1>2, <1>3
<1>7. Covers(S) => Covers(T)
  BY <1>6 DEF Covers
<1> QED BY <1>4, <1>5, <1>7

-----------------------------------------------------------------------------
(* The command that is running, and the plan it is at. *)

LEMMA AtHand ==
  ASSUME CommandsSound, proc # Idle
  PROVE  \E d \in Nat : LET w == Work[turn - 1] IN
           /\ turn - 1 \in DOMAIN Work /\ turn - 1 \in Nat
           /\ w \in Seq(Plan) /\ d + 1 \in DOMAIN w
           /\ Doer(turn - 1, d) /\ CommandValid(w)
           /\ Current = w[d + 1] /\ Current \in Plan
           /\ Len(proc.plans) = Len(w) - d
           /\ Tail(proc.plans) = SubSeq(w, d + 2, Len(w))
<1> DEFINE i == turn - 1
           w == Work[i]
<1>1. Work \in Seq(Seq(Plan)) /\ turn \in 1 .. Len(Work) + 1 /\ turn > 1
  BY ParityConstants DEF CommandsSound
<1>2. i \in 1 .. Len(Work) /\ DOMAIN Work = 1 .. Len(Work) /\ i \in Nat
  BY <1>1
<1>3. w \in Seq(Plan)
  BY <1>1, <1>2
<1>4. PICK d \in 0 .. Len(w) - 1 : Doer(i, d)
  BY DEF CommandsSound
<1>5. Len(w) \in Nat /\ DOMAIN w = 1 .. Len(w)
  BY <1>3
<1>6. d \in Nat /\ d + 1 \in 1 .. Len(w)
  BY <1>4, <1>5
<1>7. proc.plans = SubSeq(w, d + 1, Len(w))
  BY <1>4 DEF Doer
<1>8. proc.plans = [m \in 1 .. Len(w) - d |-> w[m + d]]
  <2> HIDE DEF w, i
  <2>1. SubSeq(w, d + 1, Len(w)) = [m \in 1 .. Len(w) - d |-> w[m + d]]
    BY <1>3, <1>5, <1>6
  <2> QED BY <1>7, <2>1
<1>9. Len(proc.plans) = Len(w) - d /\ proc.plans \in Seq(Plan)
  <2> HIDE DEF w, i
  <2>1. \A m \in 1 .. Len(w) - d : w[m + d] \in Plan
    BY <1>3, <1>5, <1>6
  <2>2. Len(w) - d \in Nat
    BY <1>5, <1>6
  <2>3. [m \in 1 .. Len(w) - d |-> w[m + d]] \in Seq(Plan)
    BY <2>1, <2>2
  <2> QED BY <1>8, <2>2, <2>3
<1>10. Current = w[d + 1] /\ Current \in Plan
  <2> HIDE DEF w, i
  <2>0. PICK q : q = proc.plans
    OBVIOUS
  <2>1. Current = q[1]
    <3>0. q \in Seq(Plan) /\ Len(q) = Len(w) - d
      BY <2>0, <1>9
    <3>01. Len(w) - d >= 1
      BY <1>6, <1>5
    <3>1. q \in Seq(Plan) /\ Len(q) >= 1
      BY <3>0, <3>01
    <3>2. Current = Head(q)
      BY <2>0 DEF Current
    <3>3. Head(q) = q[1]
      BY <3>1
    <3> QED BY <3>2, <3>3
  <2> QED BY <2>0, <2>1, <1>8, <1>6, <1>5, <1>3
<1>11. Tail(proc.plans) = SubSeq(w, d + 2, Len(w))
  <2> HIDE DEF w, i
  <2> QED BY <1>3, <1>5, <1>6, <1>8, <1>9
<1> QED BY <1>2, <1>3, <1>4, <1>5, <1>6, <1>9, <1>10, <1>11 DEF CommandsSound

LEMMA PlanFacts ==
  ASSUME NEW p \in Plan
  PROVE  IsFiniteSet(p.scenarios) /\ (p.historical => p.tool = "batch")
BY ParityConstants

(* A collector that executes a plan writes a file that says what it is of. *)
LEMMA CollectedSound ==
  ASSUME NEW p \in Plan, NEW sight, NEW case
  PROVE  FileSound(Collected(p, Observations(p, sight, case)))
<1>1. /\ IsFiniteSet(Observations(p, sight, case))
      /\ \A o \in Observations(p, sight, case) : o.hash = source /\ o.joined = p.historical
  BY PlanFacts, ObservationsFinite
<1> QED BY <1>1 DEF FileSound, Collected

LEMMA WrittenSound ==
  ASSUME BatchesSound, NEW id, NEW file, FileSound(file), Writes(id, file)
  PROVE  BatchesSound'
<1>1. DOMAIN batches' = DOMAIN batches
  BY DEF Writes
<1>2. \A x \in DOMAIN batches : batches'[x] = batches[x] \/ batches'[x] = file
  BY DEF Writes
<1> QED BY <1>1, <1>2 DEF BatchesSound, FileSound

LEMMA BatchesStep ==
  ASSUME BatchesSound, CommandsSound, [Next]_vars
  PROVE  BatchesSound'
<1> SUFFICES ASSUME batches' # batches
             PROVE  BatchesSound'
  BY DEF BatchesSound, FileSound
<1>1. CASE CollectShadow
  <2>0. proc # Idle
    BY <1>1 DEF CollectShadow, Doing
  <2>1. Current \in Plan
    BY AtHand, <2>0
  <2>2. PICK sight : Writes(Current.id, Collected(Current, Observations(Current, sight, PlannedCases)))
    BY <1>1 DEF CollectShadow
  <2>3. FileSound(Collected(Current, Observations(Current, sight, PlannedCases)))
    BY <2>1, CollectedSound
  <2> QED BY <2>2, <2>3, WrittenSound
<1>2. ASSUME NEW tool, NEW usable, CollectSuccesses(tool, usable)
      PROVE  BatchesSound'
  <2>0. proc # Idle
    BY <1>2 DEF CollectSuccesses, Doing
  <2>1. Current \in Plan
    BY AtHand, <2>0
  <2>2. PICK sight : Writes(Current.id, Collected(Current, Observations(Current, sight, PlannedCases)))
    BY <1>2 DEF CollectSuccesses
  <2>3. FileSound(Collected(Current, Observations(Current, sight, PlannedCases)))
    BY <2>1, CollectedSound
  <2> QED BY <2>2, <2>3, WrittenSound
<1>3. CASE CollectFailures \/ CampaignStep
  <2>0. proc # Idle
    BY <1>3 DEF CollectFailures, CampaignStep, Doing
  <2>1. Current \in Plan
    BY AtHand, <2>0
  <2>2. PICK sight : Writes(Current.id, FailureFile(Current, sight))
    BY <1>3 DEF CollectFailures, CampaignStep
  <2>3. FileSound(FailureFile(Current, sight))
    BY <2>1, CollectedSound DEF FailureFile
  <2> QED BY <2>2, <2>3, WrittenSound
<1>4. CASE CollectProducts \/ CollectCollections \/ CollectMerchants
  BY <1>2, <1>4 DEF CollectProducts, CollectCollections, CollectMerchants
<1>5. ~(\/ EditSource \/ Start \/ CollectCookies \/ \E B \in SUBSET BatchFiles : Merge(B)
        \/ BuildReport \/ StartCompiling \/ OpenArtifact \/ WriteArtifact \/ CompileCookie
        \/ Promote \/ Killed \/ UNCHANGED vars)
  BY DEF EditSource, Start, CollectCookies, Merge, BuildReport, StartCompiling, OpenArtifact,
         WriteArtifact, CompileCookie, Promote, StartPromotion, ReadReceipt, ReadComparison,
         ReadCookie, GateComparison, ReplaceManifest, Killed, vars, collecting
<1> QED BY <1>1, <1>3, <1>4, <1>5 DEF Next, Collect

-----------------------------------------------------------------------------
(* The bundle. *)

LEMMA FinalPlan ==
  ASSUME CommandsSound, proc # Idle, Current.tool = "final"
  PROVE  /\ ~Current.historical /\ IsFiniteSet(Current.scenarios)
         /\ Distinct(Current.scenarios) /\ Identities(Current.scenarios) = Matrix
         /\ Covers(Current.scenarios)
<1>1. PICK d \in Nat : LET w == Work[turn - 1] IN
           /\ turn - 1 \in DOMAIN Work /\ turn - 1 \in Nat
           /\ w \in Seq(Plan) /\ d + 1 \in DOMAIN w
           /\ Doer(turn - 1, d) /\ CommandValid(w)
           /\ Current = w[d + 1] /\ Current \in Plan
           /\ Len(proc.plans) = Len(w) - d
           /\ Tail(proc.plans) = SubSeq(w, d + 2, Len(w))
  BY AtHand
<1> PICK w : w = Work[turn - 1]
  OBVIOUS
<1>2. w \in Seq(Plan) /\ d + 1 \in DOMAIN w /\ CommandValid(w) /\ Current = w[d + 1]
  BY <1>1
<1>3. ~CampaignValid(w)
  BY <1>2 DEF CampaignValid, FailurePlanValid
<1>4. Len(w) = 1
  BY <1>2, <1>3 DEF CommandValid
<1>5. DOMAIN w = {1} /\ d + 1 = 1
  BY <1>2, <1>4
<1>6. ShadowPlanValid(Current)
  BY <1>2, <1>3, <1>5 DEF CommandValid, ProductPlanValid, CollectionPlanValid, MerchantPlanValid,
                          SuccessPlan, FailurePlanValid
<1>7. ~Current.historical /\ IsFiniteSet(Current.scenarios)
  BY <1>1, PlanFacts
<1>8. Unique(Current.scenarios) /\ Identities(Current.scenarios) = Matrix /\ Covers(Current.scenarios)
  BY <1>6 DEF ShadowPlanValid
<1>9. Distinct(Current.scenarios)
  BY <1>7, <1>8, UniqueDistinct
<1> QED BY <1>7, <1>8, <1>9

(* The bundle that is merged of sound batches of one source. *)
LEMMA MergedWhole ==
  ASSUME BatchesSound, NEW B \in SUBSET BatchFiles, Merge(B)
  PROVE  BundleWhole'
<1> DEFINE M == MergedScenarios(B)
<1>1. \A b \in B : /\ FileSound(b) /\ Unique(b.scenarios) /\ Distinct(b.scenarios)
                   /\ b.source = source /\ ~b.historical
  <2> SUFFICES ASSUME NEW b \in B
               PROVE  /\ FileSound(b) /\ Unique(b.scenarios) /\ Distinct(b.scenarios)
                      /\ b.source = source /\ ~b.historical
    OBVIOUS
  <2>1. FileSound(b) /\ Unique(b.scenarios)
    BY DEF BatchFiles, BatchValid, BatchesSound
  <2>2. Distinct(b.scenarios)
    BY <2>1, UniqueDistinct DEF FileSound
  <2> QED BY <2>1, <2>2 DEF Merge, BoundToSource
<1>2. Distinct(M)
  <2> SUFFICES ASSUME NEW o \in M, NEW q \in M, Identity(o) = Identity(q)
               PROVE  o = q
    BY DEF Distinct
  <2>1. PICK b \in B : o \in b.scenarios
    BY DEF MergedScenarios
  <2>2. PICK c \in B : q \in c.scenarios
    BY DEF MergedScenarios
  <2>3. Identity(o) \in Identities(b.scenarios) \cap Identities(c.scenarios)
    BY <2>1, <2>2 DEF Identities
  <2>4. b = c
    BY <2>3 DEF Merge, Disjoint
  <2> QED BY <2>1, <2>2, <2>4, <1>1 DEF Distinct
<1>3. IsFiniteSet(M) /\ Identities(M) = Matrix /\ Covers(M)
  <2>1. Identities(M) = Matrix /\ Covers(M)
    BY DEF Merge
  <2>2. IsFiniteSet(Identities(M))
    BY <2>1, MatrixFinite
  <2> QED BY <1>2, <2>1, <2>2, DistinctUnique
<1>4. \A o \in M : o.hash = source /\ ~o.joined
  <2> SUFFICES ASSUME NEW o \in M
               PROVE  o.hash = source /\ ~o.joined
    OBVIOUS
  <2>1. PICK b \in B : o \in b.scenarios
    BY DEF MergedScenarios
  <2> QED BY <2>1, <1>1 DEF FileSound
<1>5. bundle'.source = source /\ bundle'.scenarios = M
  BY DEF Merge
<1>6. Distinct(bundle'.scenarios) /\ Identities(bundle'.scenarios) = Matrix /\ Covers(bundle'.scenarios)
  BY <1>2, <1>3, <1>5
<1>7. IsFiniteSet(bundle'.scenarios) /\ \A o \in bundle'.scenarios : o.hash = bundle'.source /\ ~o.joined
  BY <1>3, <1>4, <1>5
<1> QED BY <1>6, <1>7 DEF BundleWhole, Distinct, Identities, Identity, Matrix, Covers

LEMMA BundleStep ==
  ASSUME BatchesSound, BundleWhole, CommandsSound, [Next]_vars
  PROVE  BundleWhole'
<1> SUFFICES ASSUME bundle' # bundle
             PROVE  BundleWhole'
  BY DEF BundleWhole, Distinct, Identities, Identity, Matrix, Covers
<1>1. CASE CollectShadow
  <2>1. proc # Idle /\ Current.tool = "final"
    BY <1>1 DEF CollectShadow, Doing, Current
  <2> PICK p : p = Current
    OBVIOUS
  <2>2. /\ ~p.historical /\ IsFiniteSet(p.scenarios)
        /\ Distinct(p.scenarios) /\ Identities(p.scenarios) = Matrix
        /\ Covers(p.scenarios)
    BY <2>1, FinalPlan
  <2>3. PICK sight : bundle' = Collected(p, Observations(p, sight, PlannedCases))
    BY <1>1 DEF CollectShadow
  <2> PICK case : case = PlannedCases
    OBVIOUS
  <2>4. case = [s \in p.scenarios |-> s.case]
    BY DEF PlannedCases
  <2> PICK T : T = Observations(p, sight, case)
    OBVIOUS
  <2>5. IsFiniteSet(T) /\ \A o \in T : o.hash = source /\ o.joined = p.historical
    BY <2>2, ObservationsFinite
  <2>6. Distinct(T) /\ Identities(T) = Identities(p.scenarios) /\ Covers(T)
    BY <2>2, <2>4, ObservedAsPlanned
  <2>7. bundle'.source = source /\ bundle'.scenarios = T
    BY <2>3 DEF Collected
  <2>8. /\ Distinct(bundle'.scenarios) /\ Identities(bundle'.scenarios) = Matrix
        /\ Covers(bundle'.scenarios)
    BY <2>2, <2>6, <2>7
  <2>9. IsFiniteSet(bundle'.scenarios) /\ \A o \in bundle'.scenarios : o.hash = bundle'.source /\ ~o.joined
    BY <2>2, <2>5, <2>7
  <2> QED BY <2>8, <2>9 DEF BundleWhole, Distinct, Identities, Identity, Matrix, Covers
<1>2. CASE \E B \in SUBSET BatchFiles : Merge(B)
  BY <1>2, MergedWhole
<1>3. ~(\/ EditSource \/ Start \/ CollectProducts \/ CollectCollections \/ CollectMerchants
        \/ CollectFailures \/ CampaignStep \/ CollectCookies
        \/ BuildReport \/ StartCompiling \/ OpenArtifact \/ WriteArtifact \/ CompileCookie
        \/ Promote \/ Killed \/ UNCHANGED vars)
  BY DEF EditSource, Start, CollectCookies, CollectProducts, CollectCollections, CollectMerchants,
         CollectSuccesses, CollectFailures, CampaignStep,
         BuildReport, StartCompiling, OpenArtifact,
         WriteArtifact, CompileCookie, Promote, StartPromotion, ReadReceipt, ReadComparison,
         ReadCookie, GateComparison, ReplaceManifest, Killed, vars
<1> QED BY <1>1, <1>2, <1>3 DEF Next, Collect
-----------------------------------------------------------------------------
(* The report and the compiler's copy of it. *)

LEMMA BuiltReport ==
  ASSUME BundleWhole, BuildReport
  PROVE  ReportSound(report')
<1> DEFINE S == bundle.scenarios
           T == {Reported(o) : o \in S}
           f == [o \in S |-> Reported(o)]
<1>1. bundle # NoFile /\ report'.source = bundle.source /\ report'.scenarios = T
  BY DEF BuildReport
<1>2. f \in Surjection(S, T)
  BY DEF Surjection
<1>3. IsFiniteSet(S) /\ \A o \in S : o.hash = bundle.source /\ ~o.joined /\ Buildable(o)
  BY <1>1 DEF BundleWhole, BuildReport
<1>4. IsFiniteSet(T)
  <2> HIDE DEF f, S, T
  <2> QED BY <1>2, <1>3, FS_Surjection
<1>5. ASSUME NEW s \in T
      PROVE  s.hash = bundle.source /\ ~s.joined /\ Buildable(s) /\ (s.passed => Passed(s))
  <2>1. PICK o \in S : s = Reported(o)
    OBVIOUS
  <2>2. /\ s.kind = o.kind /\ s.case = o.case /\ s.end = o.end /\ s.same = o.same
        /\ s.hash = o.hash /\ s.joined = o.joined
    BY <2>1 DEF Reported
  <2>3. s.passed = Passed(o)
    BY <2>1 DEF Reported
  <2>4. Buildable(s)
    BY <2>2, <1>3 DEF Buildable
  <2>5. Passed(o) => Passed(s)
    BY <2>2 DEF Passed
  <2> QED BY <2>2, <2>3, <2>4, <2>5, <1>3
<1> QED BY <1>1, <1>4, <1>5 DEF ReportSound

LEMMA ReportsStep ==
  ASSUME BundleWhole, ReportsSound, [Next]_vars
  PROVE  ReportsSound'
<1>1. CASE BuildReport
  <2>1. ReportSound(report') /\ compiler' = compiler
    BY <1>1, BuiltReport DEF BuildReport, compiling
  <2> QED BY <2>1 DEF ReportsSound, ReportSound, Passing, Distinct, Identities, Identity, Matrix,
                       Buildable, Passed
<1>2. CASE StartCompiling
  <2> PICK r : r = report
    OBVIOUS
  <2>1. /\ report' = r /\ r # NoFile
        /\ compiler' = [report |-> r, todo |-> KindOrder, file |-> "comparison", open |-> FALSE]
    BY <1>2 DEF StartCompiling
  <2>2. ReportSound(r)
    BY <2>1 DEF ReportsSound
  <2>3. Unique(r.scenarios) /\ Identities(r.scenarios) = Matrix /\ \A s \in r.scenarios : s.passed
    BY <1>2 DEF StartCompiling, ReportValid
  <2>4. Passing(r)
    BY <2>2, <2>3, UniqueDistinct DEF Passing, ReportSound
  <2>5. /\ compiler'.report = r /\ compiler'.file = "comparison"
        /\ compiler' = [report |-> compiler'.report, todo |-> compiler'.todo,
                        file |-> compiler'.file, open |-> compiler'.open]
    BY <2>1
  <2> QED BY <2>1, <2>2, <2>4, <2>5 DEF ReportsSound
<1>3. CASE OpenArtifact \/ WriteArtifact \/ Killed
  <2>1. report' = report /\ (compiler # Idle \/ compiler' = compiler)
    BY <1>3 DEF OpenArtifact, WriteArtifact, Killed
  <2>2. \/ compiler' = Idle \/ compiler' = compiler
        \/ compiler' = [compiler EXCEPT !.open = TRUE]
        \/ compiler' = [compiler EXCEPT !.file = "receipt", !.open = FALSE]
        \/ compiler' = [compiler EXCEPT !.file = "comparison", !.open = FALSE, !.todo = Tail(@)]
    BY <1>3 DEF OpenArtifact, WriteArtifact, Killed
  <2>3. compiler' # Idle => /\ compiler # Idle /\ compiler'.report = compiler.report
                            /\ compiler'.file \in {"comparison", "receipt"}
                            /\ compiler' = [report |-> compiler'.report, todo |-> compiler'.todo,
                                             file |-> compiler'.file, open |-> compiler'.open]
    <3> SUFFICES ASSUME compiler' # Idle
                 PROVE  /\ compiler # Idle /\ compiler'.report = compiler.report
                        /\ compiler'.file \in {"comparison", "receipt"}
                        /\ compiler' = [report |-> compiler'.report, todo |-> compiler'.todo,
                                         file |-> compiler'.file, open |-> compiler'.open]
      OBVIOUS
    <3>1. compiler # Idle
      BY <2>1
    <3> PICK r, l, f, b : r = compiler.report /\ l = compiler.todo /\ f = compiler.file /\ b = compiler.open
      OBVIOUS
    <3>2. compiler = [report |-> r, todo |-> l, file |-> f, open |-> b] /\ f \in {"comparison", "receipt"}
      BY <3>1 DEF ReportsSound
    <3>3. \/ compiler' = [report |-> r, todo |-> l, file |-> f, open |-> b]
          \/ compiler' = [report |-> r, todo |-> l, file |-> f, open |-> TRUE]
          \/ compiler' = [report |-> r, todo |-> l, file |-> "receipt", open |-> FALSE]
          \/ compiler' = [report |-> r, todo |-> Tail(l), file |-> "comparison", open |-> FALSE]
      BY <2>2, <3>2
    <3> QED BY <3>1, <3>2, <3>3
  <2> QED BY <2>1, <2>3 DEF ReportsSound
<1>4. CASE ~(BuildReport \/ StartCompiling \/ OpenArtifact \/ WriteArtifact \/ Killed)
  <2>1. UNCHANGED <<report, compiler>>
    <3>1. CASE Collect
      BY <3>1 DEF Collect, Start, CollectShadow, CollectCookies, CollectProducts, CollectCollections,
         CollectMerchants, CollectSuccesses, CollectFailures, CampaignStep, compiling
    <3>2. CASE Promote
      BY <3>2 DEF Promote, StartPromotion, ReadReceipt, ReadComparison,
         ReadCookie, GateComparison, ReplaceManifest, compiling
    <3>3. CASE EditSource \/ CompileCookie \/ (\E B \in SUBSET BatchFiles : Merge(B)) \/ UNCHANGED vars
      BY <3>3 DEF EditSource, CompileCookie, Merge, vars, compiling
    <3> QED BY <1>4, <3>1, <3>2, <3>3 DEF Next
  <2> QED BY <2>1 DEF ReportsSound
<1> QED BY <1>1, <1>2, <1>3, <1>4

-----------------------------------------------------------------------------
(* The evidence of a kind. *)

(* A scenario that passed ended as its case demands, with which the legacy side agreed. *)
LEMMA PassedEnd ==
  ASSUME NEW o, o.kind \in Kind, o.case \in Case, Buildable(o), Passed(o)
  PROVE  o.end = Expected(o.kind, o.case) /\ o.same
<1>1. o.same /\ LegacyState(o.end) = LegacyState(Expected(o.kind, o.case))
             /\ (o.case = "throttle" <=> o.end = "throttled")
  BY DEF Passed
<1>2. CASE o.case = "success"
  BY <1>1, <1>2 DEF Buildable, Expected
<1>3. CASE o.case = "throttle"
  BY <1>1, <1>3 DEF Expected
<1>4. CASE o.case = "no_result"
  <2> PICK e : e = o.end
    OBVIOUS
  <2>1. Expected(o.kind, o.case) = NoResult[o.kind] /\ NoResult[o.kind] \in {"not_found", "no_rows"}
    BY <1>4, ParityConstants DEF Expected
  <2>2. LegacyState("not_found") = 3 /\ LegacyState("no_rows") = 4
    BY DEF LegacyState
  <2>3. e \notin {"not_found", "no_rows"} => LegacyState(e) \in {0, 1, 2}
    BY DEF LegacyState
  <2>4. e \in {"not_found", "no_rows"}
    BY <1>1, <2>1, <2>2, <2>3
  <2> QED BY <1>1, <2>1, <2>2, <2>4
<1> QED BY <1>2, <1>3, <1>4 DEF Case

LEMMA ComparisonOfReport ==
  ASSUME NEW r, ReportSound(r), Passing(r), NEW k \in Kind
  PROVE  ComparisonSound(Comparison(r, k), k)
<1> DEFINE c == Comparison(r, k)
<1>1. c.kind = k /\ c.source = r.source /\ c.scenarios = {s \in r.scenarios : s.kind = k}
  BY DEF Comparison
<1>2. ASSUME NEW case \in Case
      PROVE  Observed(c, k, case)
  <2>1. <<k, case>> \in Identities(r.scenarios)
    BY DEF Passing, Matrix
  <2>2. PICK s \in r.scenarios : s.kind = k /\ s.case = case
    BY <2>1 DEF Identities, Identity
  <2>3. s \in c.scenarios
    BY <1>1, <2>2
  <2>4. ASSUME NEW t \in c.scenarios, t.case = case
        PROVE  t = s
    <3>1. t \in r.scenarios /\ t.kind = k
      BY <1>1
    <3>2. Identity(t) = Identity(s)
      BY <3>1, <2>2, <2>4 DEF Identity
    <3> QED BY <3>1, <3>2 DEF Passing, Distinct
  <2>5. {t \in c.scenarios : t.case = case} = {s}
    <3> HIDE DEF c
    <3> QED BY <2>2, <2>3, <2>4
  <2>6. s.hash = c.source /\ ~s.joined /\ Buildable(s) /\ Passed(s)
    BY <1>1 DEF ReportSound, Passing
  <2>7. s.end = Expected(k, case) /\ s.same
    BY <2>2, <2>6, PassedEnd
  <2> HIDE DEF c
  <2> QED BY <2>2, <2>5, <2>6, <2>7 DEF Observed
<1> HIDE DEF c
<1>3. ComparisonSound(c, k)
  BY <1>1, <1>2 DEF ComparisonSound
<1> QED BY <1>3 DEF c

LEMMA EvidenceStep ==
  ASSUME ReportsSound, EvidenceSound, [Next]_vars
  PROVE  EvidenceSound'
<1> SUFFICES ASSUME evidence' # evidence
             PROVE  EvidenceSound'
  BY DEF EvidenceSound
<1>1. OpenArtifact \/ WriteArtifact
  <2>1. CASE Collect
    BY <2>1 DEF Collect, Start, CollectShadow, CollectCookies, CollectProducts, CollectCollections,
         CollectMerchants, CollectSuccesses, CollectFailures, CampaignStep, compiling
  <2>2. CASE Promote
    BY <2>2 DEF Promote, StartPromotion, ReadReceipt, ReadComparison,
         ReadCookie, GateComparison, ReplaceManifest, compiling
  <2>3. ~(EditSource \/ CompileCookie \/ (\E B \in SUBSET BatchFiles : Merge(B)) \/ UNCHANGED vars
          \/ BuildReport \/ StartCompiling \/ Killed)
    BY DEF EditSource, CompileCookie, Merge, BuildReport, StartCompiling, Killed, vars, compiling
  <2> QED BY <2>1, <2>2, <2>3 DEF Next
<1> PICK j, f, x : j = Head(compiler.todo) /\ f = compiler.file
                   /\ x = IF OpenArtifact THEN Torn ELSE Comparison(compiler.report, j)
  OBVIOUS
<1>2. compiler # Idle /\ evidence' = [evidence EXCEPT ![j][f] = x]
  BY <1>1 DEF OpenArtifact, WriteArtifact
<1>3. f \in {"comparison", "receipt"} /\ ReportSound(compiler.report) /\ Passing(compiler.report)
  BY <1>2 DEF ReportsSound
<1>4. j \in Kind => FileOf(x, j)
  BY <1>3, ComparisonOfReport DEF FileOf
<1>5. ASSUME NEW k \in Kind
      PROVE  /\ evidence'[k] = [comparison |-> evidence'[k].comparison, receipt |-> evidence'[k].receipt]
             /\ FileOf(evidence'[k].comparison, k) /\ FileOf(evidence'[k].receipt, k)
  <2> PICK c, r : c = evidence[k].comparison /\ r = evidence[k].receipt
    OBVIOUS
  <2>1. evidence[k] = [comparison |-> c, receipt |-> r] /\ FileOf(c, k) /\ FileOf(r, k)
    BY DEF EvidenceSound
  <2>2. k \in DOMAIN evidence
    BY DEF EvidenceSound
  <2>3. CASE k # j
    <3>1. evidence'[k] = evidence[k]
      BY <1>2, <2>2, <2>3
    <3> QED BY <2>1, <3>1
  <2>4. CASE k = j /\ f = "comparison"
    <3>1. evidence'[k] = [comparison |-> x, receipt |-> r]
      BY <1>2, <2>1, <2>2, <2>4
    <3> QED BY <1>4, <2>1, <2>4, <3>1
  <2>5. CASE k = j /\ f = "receipt"
    <3>1. evidence'[k] = [comparison |-> c, receipt |-> x]
      BY <1>2, <2>1, <2>2, <2>5
    <3> QED BY <1>4, <2>1, <2>5, <3>1
  <2> QED BY <1>3, <2>3, <2>4, <2>5
<1>6. \A k \in Kind : FileOf(evidence'[k].comparison, k) /\ FileOf(evidence'[k].receipt, k)
  BY <1>5
<1>7. evidence' = [k \in Kind |-> [comparison |-> evidence'[k].comparison,
                                   receipt |-> evidence'[k].receipt]]
  <2>1. evidence' = [k \in Kind |-> evidence'[k]]
    BY <1>2 DEF EvidenceSound
  <2> QED BY <1>5, <2>1
<1> QED BY <1>6, <1>7 DEF EvidenceSound
-----------------------------------------------------------------------------
(* The promotion and the manifest. *)

LEMMA AppendedOne ==
  ASSUME NEW s, s \in Seq(ToSet(s)), NEW c
  PROVE  /\ Append(s, c) \in Seq(ToSet(Append(s, c)))
         /\ ToSet(Append(s, c)) = ToSet(s) \cup {c}
<1> DEFINE T == ToSet(s) \cup {c}
           a == Append(s, c)
<1>1. s \in Seq(T) /\ DOMAIN s = 1 .. Len(s) /\ Len(s) \in Nat
  <2> PICK U : U = ToSet(s)
    OBVIOUS
  <2>1. s \in Seq(U) /\ T = U \cup {c}
    OBVIOUS
  <2> HIDE DEF T
  <2> QED BY <2>1
<1>2. a \in Seq(T) /\ Len(a) = Len(s) + 1 /\ DOMAIN a = 1 .. Len(s) + 1
  <2> HIDE DEF T
  <2>1. c \in T
    BY DEF T
  <2> QED BY <1>1, <2>1
<1>3. /\ \A i \in 1 .. Len(s) : a[i] = s[i]
      /\ a[Len(s) + 1] = c
  <2> HIDE DEF T
  <2>1. c \in T
    BY DEF T
  <2> QED BY <1>1, <2>1
<1>4. ToSet(a) = T
  <2>1. ToSet(a) \subseteq T
    <3> SUFFICES ASSUME NEW i \in 1 .. Len(s) + 1
                 PROVE  a[i] \in T
      BY <1>2 DEF ToSet
    <3>1. CASE i \in 1 .. Len(s)
      BY <1>1, <1>3, <3>1 DEF ToSet
    <3>2. CASE i = Len(s) + 1
      BY <1>3, <3>2
    <3> QED BY <1>1, <3>1, <3>2
  <2>2. \A i \in 1 .. Len(s) : i \in DOMAIN a
    BY <1>1, <1>2
  <2>3. Len(s) + 1 \in DOMAIN a
    BY <1>1, <1>2
  <2> HIDE DEF a
  <2> QED BY <1>1, <1>3, <2>1, <2>2, <2>3 DEF ToSet
<1> QED BY <1>2, <1>4

-----------------------------------------------------------------------------
LEMMA PromoterStep ==
  ASSUME EvidenceSound, PromotionSound, Promote, promoter' # Idle
  PROVE  PromoterSound(promoter')
<1>1. CASE StartPromotion
  <2> PICK p : p = promoter'
    OBVIOUS
  <2>1. p = [pass |-> "pairs", todo |-> Kind, receipt |-> NoFile, seen |-> <<>>]
    BY <1>1 DEF StartPromotion
  <2>2. <<>> \in Seq(ToSet(<<>>))
    OBVIOUS
  <2>3. p.pass = "pairs" /\ p.todo = Kind /\ p.seen = <<>> /\ p.receipt = NoFile
    BY <2>1
  <2> QED BY <2>1, <2>2, <2>3 DEF PromoterSound
<1>2. ASSUME promoter # Idle
      PROVE  PromoterSound(promoter')
  <2> PICK a, t, r, s : a = promoter.pass /\ t = promoter.todo /\ r = promoter.receipt /\ s = promoter.seen
    OBVIOUS
  <2>1. /\ promoter = [pass |-> a, todo |-> t, receipt |-> r, seen |-> s]
        /\ s \in Seq(ToSet(s)) /\ t \subseteq Kind
        /\ a = "gate" => \A k \in Kind \ t : \E c \in ToSet(s) : ComparisonSound(c, k)
    BY <1>2 DEF PromotionSound, PromoterSound
  <2> PICK p : p = promoter'
    OBVIOUS
  <2>2. ASSUME NEW a2, NEW t2, NEW r2, NEW s2,
               p = [pass |-> a2, todo |-> t2, receipt |-> r2, seen |-> s2],
               s2 \in Seq(ToSet(s2)), t2 \subseteq Kind,
               a2 = "gate" => \A k \in Kind \ t2 : \E c \in ToSet(s2) : ComparisonSound(c, k)
        PROVE  PromoterSound(p)
    <3>1. p.pass = a2 /\ p.todo = t2 /\ p.receipt = r2 /\ p.seen = s2
      BY <2>2
    <3> QED BY <2>2, <3>1 DEF PromoterSound
  <2>3. CASE ReadReceipt
    <3>1. PICK r2 : p = [pass |-> a, todo |-> t, receipt |-> r2, seen |-> s]
      BY <2>1, <2>3 DEF ReadReceipt
    <3> QED BY <2>1, <2>2, <3>1
  <2>4. CASE ReadComparison
    <3>1. \/ p = [pass |-> "files", todo |-> t, receipt |-> NoFile, seen |-> s]
          \/ p = [pass |-> "pairs", todo |-> t \ {NextKind}, receipt |-> NoFile, seen |-> s]
      BY <2>1, <2>4 DEF ReadComparison, Checking
    <3> QED BY <2>1, <2>2, <3>1
  <2>5. CASE ReadCookie
    <3>1. p = [pass |-> "gate", todo |-> Kind, receipt |-> r, seen |-> s]
      BY <2>1, <2>5 DEF ReadCookie
    <3> QED BY <2>1, <2>2, <3>1
  <2>6. CASE GateComparison
    <3> PICK k, c : k = NextKind /\ c = evidence[k].comparison
      OBVIOUS
    <3>1. /\ a = "gate" /\ t # {} /\ EvidenceValid(k, r, c)
          /\ p = [pass |-> a, todo |-> t \ {k}, receipt |-> NoFile, seen |-> Append(s, c)]
      BY <2>1, <2>6 DEF GateComparison, Checking
    <3>2. k \in t /\ k \in Kind
      BY <2>1, <3>1 DEF NextKind
    <3>3. ComparisonSound(c, k)
      BY <3>1, <3>2 DEF EvidenceSound, FileOf, EvidenceValid, PairValid
    <3> PICK t2, s2 : t2 = t \ {k} /\ s2 = Append(s, c)
      OBVIOUS
    <3>4. s2 \in Seq(ToSet(s2)) /\ ToSet(s2) = ToSet(s) \cup {c} /\ t2 \subseteq Kind
      BY <2>1, AppendedOne
    <3>5. \A j \in Kind \ t2 : \E x \in ToSet(s2) : ComparisonSound(x, j)
      BY <2>1, <3>1, <3>3, <3>4
    <3>6. p = [pass |-> a, todo |-> t2, receipt |-> NoFile, seen |-> s2]
      BY <3>1
    <3>7. p.pass = a /\ p.todo = t2 /\ p.receipt = NoFile /\ p.seen = s2
      BY <3>6
    <3> QED BY <3>4, <3>5, <3>6, <3>7 DEF PromoterSound
  <2>7. ~StartPromotion /\ ~ReplaceManifest
    BY <1>2 DEF StartPromotion, ReplaceManifest
  <2> QED BY <2>3, <2>4, <2>5, <2>6, <2>7 DEF Promote
<1> QED BY <1>1, <1>2 DEF Promote, ReadReceipt, ReadComparison, ReadCookie, GateComparison,
                          ReplaceManifest, Checking

LEMMA PromotionStep ==
  ASSUME EvidenceSound, PromotionSound, [Next]_vars
  PROVE  PromotionSound'
<1>1. CASE Promote
  <2>1. promoter' # Idle => PromoterSound(promoter')
    BY <1>1, PromoterStep
  <2>2. CASE ReplaceManifest
    <3> PICK p : p = promoter
      OBVIOUS
    <3>1. p # Idle /\ p.todo = {} /\ p.pass = "gate" /\ manifest' = ToSet(p.seen)
      BY <2>2 DEF ReplaceManifest
    <3>2. \A k \in Kind : \E c \in manifest' : ComparisonSound(c, k)
      BY <3>1 DEF PromotionSound, PromoterSound
    <3> QED BY <2>1, <3>2 DEF PromotionSound
  <2>3. CASE ~ReplaceManifest
    <3>1. manifest' = manifest
      BY <1>1, <2>3 DEF Promote, StartPromotion, ReadReceipt, ReadComparison, ReadCookie, GateComparison
    <3> QED BY <2>1, <3>1 DEF PromotionSound
  <2> QED BY <2>2, <2>3
<1>2. CASE ~Promote
  <2>1. manifest' = manifest /\ promoter' \in {promoter, Idle}
    <3>1. CASE Collect
      BY <3>1 DEF Collect, Start, CollectShadow, CollectCookies, CollectProducts, CollectCollections,
         CollectMerchants, CollectSuccesses, CollectFailures, CampaignStep, promoting
    <3>2. CASE ~Collect
      BY <1>2, <3>2 DEF Next, EditSource, CompileCookie, Merge, BuildReport, StartCompiling, OpenArtifact,
         WriteArtifact, Killed, vars, promoting
    <3> QED BY <3>1, <3>2
  <2> QED BY <2>1 DEF PromotionSound
<1> QED BY <1>1, <1>2
-----------------------------------------------------------------------------
(* Commands and the files of a campaign. *)

(* A file that no campaign but the one at hand writes leaves the others as they are. *)
LEMMA CommandsKept ==
  ASSUME CommandsSound, proc' \in {proc, Idle}, turn' = turn,
         \A i \in DOMAIN Work : Len(Work[i]) > 1 =>
           \A n \in DOMAIN Work[i] : batches'[Work[i][n].id] = batches[Work[i][n].id]
  PROVE  CommandsSound'
<1>1. turn \in 1 .. Len(Work) + 1 /\ Work \in Seq(Seq(Plan))
  BY ParityConstants DEF CommandsSound
<1>2. \A i \in turn .. Len(Work) : i \in DOMAIN Work
  BY <1>1
<1>3. \A i \in turn' .. Len(Work) : Len(Work[i]) > 1 =>
       \A n \in DOMAIN Work[i] : batches'[Work[i][n].id] = NoFile
  BY <1>2 DEF CommandsSound
<1>4. ASSUME proc' # Idle
      PROVE  /\ proc' = [plans |-> proc'.plans, hashes |-> proc'.hashes]
             /\ turn' > 1 /\ CommandValid(Work[turn' - 1])
             /\ \E d \in 0 .. Len(Work[turn' - 1]) - 1 : Doer(turn - 1, d)'
  <2>1. proc' = proc /\ proc # Idle
    BY <1>4
  <2>2. PICK d \in 0 .. Len(Work[turn - 1]) - 1 : Doer(turn - 1, d)
    BY <2>1 DEF CommandsSound
  <2>3. turn > 1
    BY <2>1 DEF CommandsSound
  <2>4. turn - 1 \in DOMAIN Work
    BY <1>1, <2>3
  <2> PICK w : w = Work[turn - 1]
    OBVIOUS
  <2>5. w \in Seq(Plan) /\ DOMAIN w = 1 .. Len(w) /\ Len(w) \in Nat
    BY <1>1, <2>4
  <2>6. Len(w) > 1 => \A n \in 1 .. Len(w) : batches'[w[n].id] = batches[w[n].id]
    BY <2>4, <2>5
  <2>7. /\ proc.plans = SubSeq(w, d + 1, Len(w))
        /\ Len(w) > 1 =>
             /\ \A n \in 1 .. d : batches[w[n].id] # NoFile => batches[w[n].id].source \in proc.hashes
             /\ \A n \in d + 1 .. Len(w) : batches[w[n].id] = NoFile
    BY <2>2 DEF Doer
  <2>8. /\ proc'.plans = SubSeq(w, d + 1, Len(w))
        /\ Len(w) > 1 =>
             /\ \A n \in 1 .. d : batches'[w[n].id] # NoFile => batches'[w[n].id].source \in proc'.hashes
             /\ \A n \in d + 1 .. Len(w) : batches'[w[n].id] = NoFile
    <3>1. \A n \in 1 .. d : n \in 1 .. Len(w)
      BY <2>5, <2>2
    <3>2. \A n \in d + 1 .. Len(w) : n \in 1 .. Len(w)
      BY <2>5, <2>2
    <3> QED BY <2>1, <2>6, <2>7, <3>1, <3>2
  <2>9. w = Work[turn' - 1]
    OBVIOUS
  <2>10. Doer(turn - 1, d)'
    BY <2>8, <2>9 DEF Doer
  <2> QED BY <2>1, <2>2, <2>3, <2>10 DEF CommandsSound
<1> QED BY <1>1, <1>3, <1>4 DEF CommandsSound

LEMMA CampaignShape ==
  ASSUME CommandsSound, proc # Idle, Len(Work[turn - 1]) > 1
  PROVE  Current.tool = "failure" /\ Cardinality(Current.scenarios) = 1
<1>1. PICK d \in Nat : LET w == Work[turn - 1] IN
           /\ turn - 1 \in DOMAIN Work /\ turn - 1 \in Nat
           /\ w \in Seq(Plan) /\ d + 1 \in DOMAIN w
           /\ Doer(turn - 1, d) /\ CommandValid(w)
           /\ Current = w[d + 1] /\ Current \in Plan
           /\ Len(proc.plans) = Len(w) - d
           /\ Tail(proc.plans) = SubSeq(w, d + 2, Len(w))
  BY AtHand
<1>2. CampaignValid(Work[turn - 1])
  BY <1>1 DEF CommandValid
<1> QED BY <1>1, <1>2 DEF CampaignValid, FailurePlanValid

(* A command of one plan writes the file of no campaign. *)
LEMMA SingleWrites ==
  ASSUME CommandsSound, BatchesSound, proc # Idle, Len(Work[turn - 1]) <= 1,
         NEW file, Writes(Current.id, file) \/ UNCHANGED batches
  PROVE  \A i \in DOMAIN Work : Len(Work[i]) > 1 =>
           \A n \in DOMAIN Work[i] : batches'[Work[i][n].id] = batches[Work[i][n].id]
<1> SUFFICES ASSUME NEW i \in DOMAIN Work, Len(Work[i]) > 1, NEW n \in DOMAIN Work[i]
             PROVE  batches'[Work[i][n].id] = batches[Work[i][n].id]
  OBVIOUS
<1>1. PICK d \in Nat : LET w == Work[turn - 1] IN
           /\ turn - 1 \in DOMAIN Work /\ turn - 1 \in Nat
           /\ w \in Seq(Plan) /\ d + 1 \in DOMAIN w
           /\ Doer(turn - 1, d) /\ CommandValid(w)
           /\ Current = w[d + 1] /\ Current \in Plan
           /\ Len(proc.plans) = Len(w) - d
           /\ Tail(proc.plans) = SubSeq(w, d + 2, Len(w))
  BY AtHand
<1> PICK w : w = Work[turn - 1]
  OBVIOUS
<1>2. turn - 1 \in DOMAIN Work /\ d + 1 \in DOMAIN w /\ Current = w[d + 1] /\ Len(w) \in Nat
  BY <1>1
<1>3. i # turn - 1
  BY <1>2
<1>4. Work[i][n].id # Current.id
  BY <1>2, <1>3, ParityConstants
<1>5. Work[i][n].id \in DOMAIN batches
  <2>1. Work[i][n] \in Plan
    BY DEF Plan, ToSet
  <2> QED BY <2>1 DEF BatchesSound
<1> QED BY <1>4, <1>5 DEF Writes

LEMMA StartSound ==
  ASSUME CommandsSound, Start
  PROVE  CommandsSound'
<1>1. /\ turn \in 1 .. Len(Work) + 1 /\ Work \in Seq(Seq(Plan)) /\ turn <= Len(Work)
      /\ turn' = turn + 1 /\ batches' = batches
  BY ParityConstants DEF CommandsSound, Start
<1>2. turn' \in 1 .. Len(Work) + 1 /\ turn' > 1 /\ turn' - 1 = turn /\ turn \in DOMAIN Work
  BY <1>1
<1>3. \A i \in turn' .. Len(Work) : Len(Work[i]) > 1 =>
       \A n \in DOMAIN Work[i] : batches'[Work[i][n].id] = NoFile
  <2>1. \A i \in turn' .. Len(Work) : i \in turn .. Len(Work)
    BY <1>1
  <2> QED BY <1>1, <2>1 DEF CommandsSound
<1> PICK w : w = Work[turn]
  OBVIOUS
<1>4. w \in Seq(Plan) /\ DOMAIN w = 1 .. Len(w) /\ Len(w) \in Nat
  BY <1>1, <1>2
<1>5. Len(w) > 1 => \A n \in 1 .. Len(w) : batches[w[n].id] = NoFile
  <2>1. turn \in turn .. Len(Work)
    BY <1>1
  <2> QED BY <1>4, <2>1 DEF CommandsSound
<1>6. ASSUME proc' # Idle
      PROVE  /\ proc' = [plans |-> proc'.plans, hashes |-> proc'.hashes]
             /\ CommandValid(Work[turn' - 1])
             /\ \E d \in 0 .. Len(Work[turn' - 1]) - 1 : Doer(turn - 1, d)'
  <2>1. proc' = [plans |-> w, hashes |-> {}] /\ CommandValid(w)
    BY <1>6 DEF Start
  <2>2. Len(w) >= 1
    BY <2>1, <1>4 DEF CommandValid
  <2>3. SubSeq(w, 0 + 1, Len(w)) = w
    BY <1>4
  <2>4. 0 \in 0 .. Len(w) - 1
    BY <2>2, <1>4
  <2>5. /\ proc'.plans = SubSeq(w, 0 + 1, Len(w))
        /\ Len(w) > 1 =>
             /\ \A n \in 1 .. 0 : batches'[w[n].id] # NoFile => batches'[w[n].id].source \in proc'.hashes
             /\ \A n \in 0 + 1 .. Len(w) : batches'[w[n].id] = NoFile
    BY <1>1, <1>5, <2>1, <2>3
  <2>6. w = Work[turn' - 1]
    BY <1>2
  <2>7. Doer(turn - 1, 0)'
    BY <2>5, <2>6 DEF Doer
  <2> QED BY <2>1, <2>4, <2>6, <2>7
<1> QED BY <1>2, <1>3, <1>6 DEF CommandsSound

(* What the step of a campaign does with the file and with the process. *)
LEMMA CampaignOutcome ==
  ASSUME CampaignStep
  PROVE  \E file : /\ file.source = source
                   /\ \/ UNCHANGED batches /\ proc' = Idle
                      \/ /\ UNCHANGED batches /\ Len(proc.plans) > 1
                         /\ proc' = [proc EXCEPT !.plans = Tail(@)]
                      \/ UNCHANGED batches /\ proc' = NextPlan
                      \/ /\ Writes(Current.id, file) /\ proc.hashes \subseteq {source}
                         /\ proc' = NextPlan
<1>1. PICK sight :
       LET file == FailureFile(Current, sight)
           o == CHOOSE o \in file.scenarios : TRUE
           mismatch == o.case = "mismatch"
           error == ~mismatch /\ ~(SingleValid(o) /\ proc.hashes \subseteq {source})
           kept == ~mismatch /\ ~error /\ Required \in {NoFile, o.case} IN
       /\ IF kept THEN Writes(Current.id, file) ELSE UNCHANGED batches
       /\ proc' = IF error THEN Idle
                  ELSE IF mismatch /\ Len(proc.plans) > 1 THEN [proc EXCEPT !.plans = Tail(@)]
                  ELSE NextPlan
  BY DEF CampaignStep
<1> DEFINE file == FailureFile(Current, sight)
<1>2. file.source = source
  BY DEF FailureFile, Collected
<1> HIDE DEF file
<1> QED BY <1>1, <1>2 DEF file

(* The process afterwards, by what it remembers. *)
LEMMA ProcessAfter ==
  ASSUME NEW l, NEW h, NEW t, t = Tail(l), proc = [plans |-> l, hashes |-> h]
  PROVE  /\ [proc EXCEPT !.plans = Tail(@)] = [plans |-> t, hashes |-> h]
         /\ Len(l) # 1 => NextPlan = [plans |-> t, hashes |-> h \cup {source}]
         /\ Len(l) = 1 => NextPlan = Idle
<1> PICK p, g : p = proc /\ g = h \cup {source}
  OBVIOUS
<1>1. proc.plans = l /\ proc.hashes = h /\ p = [plans |-> l, hashes |-> h]
  OBVIOUS
<1>2. /\ [p EXCEPT !.plans = t] = [plans |-> t, hashes |-> h]
      /\ [p EXCEPT !.plans = t, !.hashes = g] = [plans |-> t, hashes |-> g]
  <2> PICK q, r : q = [p EXCEPT !.plans = t] /\ r = [p EXCEPT !.plans = t, !.hashes = g]
    OBVIOUS
  <2>1. q = [plans |-> t, hashes |-> h]
    BY <1>1
  <2>2. r = [plans |-> t, hashes |-> g]
    BY <1>1
  <2> QED BY <2>1, <2>2
<1>4. [proc EXCEPT !.plans = Tail(@)] = [p EXCEPT !.plans = t]
  BY <1>1, Zenon
<1>5. [proc EXCEPT !.plans = Tail(@), !.hashes = @ \cup {source}] = [p EXCEPT !.plans = t, !.hashes = g]
  BY <1>1, Zenon
<1>6. NextPlan = IF Len(l) = 1 THEN Idle ELSE [plans |-> t, hashes |-> g]
  BY <1>1, <1>2, <1>5, Zenon DEF NextPlan
<1> QED BY <1>2, <1>4, <1>6

LEMMA CampaignStepSound ==
  ASSUME BatchesSound, CommandsSound, CampaignOneSource, CampaignStep
  PROVE  CommandsSound' /\ CampaignOneSource'
<1>1. PICK d \in Nat : LET w == Work[turn - 1] IN
           /\ turn - 1 \in DOMAIN Work /\ turn - 1 \in Nat
           /\ w \in Seq(Plan) /\ d + 1 \in DOMAIN w
           /\ Doer(turn - 1, d) /\ CommandValid(w)
           /\ Current = w[d + 1] /\ Current \in Plan
           /\ Len(proc.plans) = Len(w) - d
           /\ Tail(proc.plans) = SubSeq(w, d + 2, Len(w))
  BY AtHand DEF CampaignStep, Doing
<1> PICK j, w : j = turn - 1 /\ w = Work[j]
  OBVIOUS
<1>2. /\ j \in DOMAIN Work /\ w \in Seq(Plan) /\ d + 1 \in 1 .. Len(w) /\ Len(w) \in Nat
      /\ DOMAIN w = 1 .. Len(w) /\ Current = w[d + 1] /\ Len(proc.plans) = Len(w) - d
      /\ Tail(proc.plans) = SubSeq(w, d + 2, Len(w)) /\ j = turn - 1 /\ Doer(j, d)
      /\ turn \in Int
  <2>1. turn \in Int
    <3>1. turn \in 1 .. Len(Work) + 1
      BY DEF CommandsSound
    <3> QED BY <3>1
  <2>2. w \in Seq(Plan) /\ d + 1 \in DOMAIN w
    BY <1>1
  <2>3. Len(w) \in Nat /\ DOMAIN w = 1 .. Len(w)
    BY <2>2
  <2>4. /\ j \in DOMAIN Work /\ Current = w[d + 1] /\ Len(proc.plans) = Len(w) - d
        /\ Tail(proc.plans) = SubSeq(w, d + 2, Len(w)) /\ Doer(j, d)
    BY <1>1, Zenon
  <2> QED BY <2>1, <2>2, <2>3, <2>4, Zenon
<1>3. proc # Idle /\ turn' = turn /\ turn > 1
  BY DEF CampaignStep, Doing, CommandsSound
<1>4. PICK file : /\ file.source = source
                  /\ \/ UNCHANGED batches /\ proc' = Idle
                     \/ /\ UNCHANGED batches /\ Len(proc.plans) > 1
                        /\ proc' = [proc EXCEPT !.plans = Tail(@)]
                     \/ UNCHANGED batches /\ proc' = NextPlan
                     \/ /\ Writes(Current.id, file) /\ proc.hashes \subseteq {source}
                        /\ proc' = NextPlan
  BY CampaignOutcome
<1>5. \A i \in DOMAIN Work : \A n \in DOMAIN Work[i] : Work[i][n].id \in DOMAIN batches
  BY DEF Plan, ToSet, BatchesSound
<1>6. ASSUME UNCHANGED batches
      PROVE  CampaignOneSource'
  BY <1>6 DEF CampaignOneSource
<1>7. CASE Len(w) <= 1
  <2>1. proc' = Idle
    <3>1. Len(proc.plans) = 1
      BY <1>2, <1>7
    <3> QED BY <1>4, <3>1 DEF NextPlan
  <2>2. \A i \in DOMAIN Work : Len(Work[i]) > 1 =>
           \A n \in DOMAIN Work[i] : batches'[Work[i][n].id] = batches[Work[i][n].id]
    <3>1. Writes(Current.id, file) \/ UNCHANGED batches
      BY <1>4
    <3> QED BY <1>2, <1>3, <1>7, <3>1, SingleWrites
  <2>3. CommandsSound'
    BY <1>3, <2>1, <2>2, CommandsKept
  <2>4. CampaignOneSource'
    <3> SUFFICES ASSUME NEW i \in DOMAIN Work, NEW p \in ToSet(Work[i]), NEW q \in ToSet(Work[i]),
                        NoFile \notin {batches'[p.id], batches'[q.id]}
                 PROVE  batches'[p.id].source = batches'[q.id].source
      BY DEF CampaignOneSource
    <3>1. PICK n \in DOMAIN Work[i] : p = Work[i][n]
      BY DEF ToSet
    <3>2. PICK m \in DOMAIN Work[i] : q = Work[i][m]
      BY DEF ToSet
    <3>3. CASE Len(Work[i]) > 1
      BY <2>2, <3>1, <3>2, <3>3 DEF CampaignOneSource
    <3>4. CASE ~(Len(Work[i]) > 1)
      <4>1. Work[i] \in Seq(Plan)
        BY ParityConstants
      <4>2. n = m
        BY <3>4, <4>1
      <4> QED BY <4>2, <3>1, <3>2
    <3> QED BY <3>3, <3>4
  <2> QED BY <2>3, <2>4
<1>8. CASE Len(w) > 1
  <2>1. /\ \A n \in 1 .. d : batches[w[n].id] # NoFile => batches[w[n].id].source \in proc.hashes
        /\ \A n \in d + 1 .. Len(w) : batches[w[n].id] = NoFile
    BY <1>2, <1>8 DEF Doer
  (* Only the file of this plan changes. *)
  <2>2. ASSUME NEW i \in DOMAIN Work, Len(Work[i]) > 1, NEW n \in DOMAIN Work[i], i # j \/ n # d + 1
        PROVE  batches'[Work[i][n].id] = batches[Work[i][n].id]
    <3>1. Work[i][n].id # Current.id
      BY <1>2, <2>2, <1>8, ParityConstants
    <3> QED BY <1>4, <1>5, <3>1 DEF Writes
  <2>3. batches'[w[d + 1].id] \in {NoFile, file}
    <3>1. batches[w[d + 1].id] = NoFile /\ w[d + 1].id \in DOMAIN batches
      BY <1>2, <1>5, <2>1
    <3> QED BY <1>2, <1>4, <3>1 DEF Writes
  <2>4. \A i \in turn .. Len(Work) : Len(Work[i]) > 1 =>
          \A n \in DOMAIN Work[i] : batches'[Work[i][n].id] = NoFile
    <3>1. \A i \in turn .. Len(Work) : i \in DOMAIN Work /\ i # j
      <4>1. Work \in Seq(Seq(Plan)) /\ turn \in 1 .. Len(Work) + 1
        BY ParityConstants DEF CommandsSound
      <4> QED BY <4>1, <1>2
    <3> QED BY <2>2, <3>1 DEF CommandsSound
  <2>5. \A n \in 1 .. Len(w) : n # d + 1 => batches'[w[n].id] = batches[w[n].id]
    BY <1>2, <1>8, <2>2
  <2>6. CommandsSound'
    <3>1. ASSUME proc' # Idle
          PROVE  /\ proc' = [plans |-> proc'.plans, hashes |-> proc'.hashes]
                 /\ CommandValid(w) /\ \E e \in 0 .. Len(w) - 1 : Doer(turn - 1, e)'
      <4> PICK l, h : l = proc.plans /\ h = proc.hashes
        OBVIOUS
      <4>1. proc = [plans |-> l, hashes |-> h]
        BY <1>3 DEF CommandsSound
      <4> PICK t : t = Tail(l)
        OBVIOUS
      <4>2. /\ [proc EXCEPT !.plans = Tail(@)] = [plans |-> t, hashes |-> h]
            /\ Len(l) # 1 => NextPlan = [plans |-> t, hashes |-> h \cup {source}]
            /\ Len(l) = 1 => NextPlan = Idle
        BY <4>1, ProcessAfter
      <4>12. Len(l) = Len(w) - d /\ t = SubSeq(w, d + 2, Len(w))
        BY <1>2
      <4>13. Len(l) > 1 => Len(l) # 1
        BY <4>12, <1>2
      <4>3. /\ Len(l) # 1
            /\ \/ proc' = [plans |-> t, hashes |-> h] /\ UNCHANGED batches
               \/ proc' = [plans |-> t, hashes |-> h \cup {source}]
        <5> PICK x, y : x = [proc EXCEPT !.plans = Tail(@)] /\ y = NextPlan
          OBVIOUS
        <5>1. \/ UNCHANGED batches /\ Len(l) > 1 /\ proc' = x
              \/ proc' = y
          BY <1>4, <3>1
        <5> QED BY <5>1, <4>2, <4>13, <3>1
      <4>4. PICK g : /\ proc' = [plans |-> t, hashes |-> g] /\ h \subseteq g
                     /\ (source \in g \/ UNCHANGED batches)
        BY <4>3
      <4>5. proc'.plans = SubSeq(w, d + 2, Len(w)) /\ proc'.hashes = g
        BY <4>4, <4>12
      <4>6. \A n \in 1 .. d + 1 : batches'[w[n].id] # NoFile => batches'[w[n].id].source \in g
        <5> SUFFICES ASSUME NEW n \in 1 .. d + 1, batches'[w[n].id] # NoFile
                     PROVE  batches'[w[n].id].source \in g
          OBVIOUS
        <5>1. CASE n = d + 1
          <6>1. batches'[w[n].id] = file
            BY <5>1, <2>3
          <6>2. batches[w[n].id] = NoFile
            BY <5>1, <1>2, <2>1
          <6>3. source \in g
            BY <4>4, <6>2
          <6> QED BY <6>1, <6>3, <1>4
        <5>2. CASE n # d + 1
          <6>1. n \in 1 .. d /\ n \in 1 .. Len(w)
            BY <5>2, <1>2
          <6>2. batches'[w[n].id] = batches[w[n].id]
            BY <5>2, <6>1, <2>5
          <6> QED BY <6>1, <6>2, <2>1, <4>4
        <5> QED BY <5>1, <5>2
      <4>7. \A n \in d + 2 .. Len(w) : batches'[w[n].id] = NoFile
        <5>1. \A n \in d + 2 .. Len(w) : n \in d + 1 .. Len(w) /\ n \in 1 .. Len(w) /\ n # d + 1
          BY <1>2
        <5> QED BY <5>1, <2>1, <2>5
      <4> PICK e : e = d + 1
        OBVIOUS
      <4>8. e \in 0 .. Len(w) - 1 /\ e + 1 = d + 2
        BY <1>2, <4>3, <4>12
      <4>9. w = Work[turn' - 1]
        BY <1>2, <1>3
      <4>10. Doer(turn - 1, e)'
        <5>1. proc'.plans = SubSeq(w, e + 1, Len(w))
          BY <4>5, <4>8
        <5>2. \A n \in 1 .. e : batches'[w[n].id] # NoFile => batches'[w[n].id].source \in proc'.hashes
          BY <4>5, <4>6
        <5>3. \A n \in e + 1 .. Len(w) : batches'[w[n].id] = NoFile
          BY <4>7, <4>8
        <5> QED BY <5>1, <5>2, <5>3, <4>9 DEF Doer
      <4>11. proc' = [plans |-> proc'.plans, hashes |-> proc'.hashes]
        BY <4>4
      <4> QED BY <4>8, <4>10, <4>11, <1>1, <1>2
    <3>2. w = Work[turn' - 1]
      BY <1>2, <1>3
    <3>3. turn' \in 1 .. Len(Work) + 1 /\ turn' > 1
      BY <1>3 DEF CommandsSound
    <3>4. \A i \in turn' .. Len(Work) : Len(Work[i]) > 1 =>
            \A n \in DOMAIN Work[i] : batches'[Work[i][n].id] = NoFile
      BY <1>3, <2>4
    <3> QED BY <3>1, <3>2, <3>3, <3>4 DEF CommandsSound
  <2>7. CampaignOneSource'
    <3> SUFFICES ASSUME NEW i \in DOMAIN Work, NEW p \in ToSet(Work[i]), NEW q \in ToSet(Work[i]),
                        NoFile \notin {batches'[p.id], batches'[q.id]}
                 PROVE  batches'[p.id].source = batches'[q.id].source
      BY DEF CampaignOneSource
    <3>1. PICK n \in DOMAIN Work[i] : p = Work[i][n]
      BY DEF ToSet
    <3>2. PICK m \in DOMAIN Work[i] : q = Work[i][m]
      BY DEF ToSet
    <3>3. CASE ~(Len(Work[i]) > 1)
      <4>1. Work[i] \in Seq(Plan)
        BY ParityConstants
      <4>2. n = m
        BY <3>3, <4>1
      <4> QED BY <4>2, <3>1, <3>2
    <3>4. CASE Len(Work[i]) > 1 /\ i # j
      BY <2>2, <3>1, <3>2, <3>4 DEF CampaignOneSource
    <3>5. CASE i = j /\ UNCHANGED batches
      BY <3>5 DEF CampaignOneSource
    <3>6. CASE i = j /\ proc.hashes \subseteq {source}
      <4>1. ASSUME NEW x \in 1 .. Len(w), batches'[w[x].id] # NoFile
            PROVE  batches'[w[x].id].source = source
        <5>1. CASE x = d + 1
          BY <5>1, <4>1, <2>3, <1>4
        <5>2. CASE x # d + 1
          <6>1. batches'[w[x].id] = batches[w[x].id]
            BY <5>2, <2>5
          <6>2. x \notin d + 1 .. Len(w)
            BY <6>1, <4>1, <2>1
          <6>3. x \in 1 .. d
            BY <6>2, <1>2
          <6>4. batches[w[x].id].source \in proc.hashes
            BY <6>1, <6>3, <4>1, <2>1
          <6> QED BY <6>1, <6>4, <3>6
        <5> QED BY <5>1, <5>2
      <4>2. n \in 1 .. Len(w) /\ m \in 1 .. Len(w) /\ p = w[n] /\ q = w[m]
        BY <3>1, <3>2, <3>6, <1>2
      <4> QED BY <4>1, <4>2
    <3> QED BY <3>3, <3>4, <3>5, <3>6, <1>4
  <2> QED BY <2>6, <2>7
<1> QED BY <1>2, <1>7, <1>8

LEMMA CommandsStep ==
  ASSUME BatchesSound, CommandsSound, CampaignOneSource, [Next]_vars
  PROVE  CommandsSound' /\ CampaignOneSource'
<1>1. CASE Start
  <2>1. CampaignOneSource'
    BY <1>1 DEF Start, CampaignOneSource
  <2> QED BY <1>1, <2>1, StartSound
<1>2. CASE CampaignStep
  BY <1>2, CampaignStepSound
<1>3. CASE Collect /\ ~Start /\ ~CampaignStep
  <2>1. /\ proc # Idle /\ proc' = Idle /\ turn' = turn
        /\ Current.tool = "failure" => Cardinality(Current.scenarios) > 1
        /\ UNCHANGED batches \/ \E file : Writes(Current.id, file)
    <3>1. CASE CollectShadow
      BY <3>1 DEF CollectShadow, Doing, Current
    <3>2. ASSUME NEW tool, NEW usable, CollectSuccesses(tool, usable), tool # "failure"
          PROVE  /\ proc # Idle /\ proc' = Idle /\ turn' = turn
                 /\ Current.tool = "failure" => Cardinality(Current.scenarios) > 1
                 /\ UNCHANGED batches \/ \E file : Writes(Current.id, file)
      BY <3>2 DEF CollectSuccesses, Doing, Current
    <3>3. CASE CollectProducts \/ CollectCollections \/ CollectMerchants
      BY <3>2, <3>3 DEF CollectProducts, CollectCollections, CollectMerchants
    <3>4. CASE CollectFailures
      BY <3>4 DEF CollectFailures, Doing
    <3>5. CASE CollectCookies
      BY <3>5 DEF CollectCookies, Doing, Current
    <3> QED BY <1>3, <3>1, <3>3, <3>4, <3>5 DEF Collect
  <2>2. ~(Len(Work[turn - 1]) > 1)
    <3> SUFFICES ASSUME Len(Work[turn - 1]) > 1
                 PROVE  FALSE
      OBVIOUS
    <3>1. Current.tool = "failure" /\ Cardinality(Current.scenarios) = 1
      BY <2>1, CampaignShape
    <3> QED BY <2>1, <3>1
  <2>3. Len(Work[turn - 1]) <= 1
    <3>1. PICK d \in Nat : Work[turn - 1] \in Seq(Plan)
      BY <2>1, AtHand
    <3> QED BY <2>2, <3>1
  <2>4. \A i \in DOMAIN Work : Len(Work[i]) > 1 =>
          \A n \in DOMAIN Work[i] : batches'[Work[i][n].id] = batches[Work[i][n].id]
    BY <2>1, <2>3, SingleWrites
  <2>5. CommandsSound'
    BY <2>1, <2>4, CommandsKept
  <2>6. CampaignOneSource'
    <3> SUFFICES ASSUME NEW i \in DOMAIN Work, NEW p \in ToSet(Work[i]), NEW q \in ToSet(Work[i]),
                        NoFile \notin {batches'[p.id], batches'[q.id]}
                 PROVE  batches'[p.id].source = batches'[q.id].source
      BY DEF CampaignOneSource
    <3>1. PICK n \in DOMAIN Work[i] : p = Work[i][n]
      BY DEF ToSet
    <3>2. PICK m \in DOMAIN Work[i] : q = Work[i][m]
      BY DEF ToSet
    <3>3. CASE Len(Work[i]) > 1
      BY <2>4, <3>1, <3>2, <3>3 DEF CampaignOneSource
    <3>4. CASE ~(Len(Work[i]) > 1)
      <4>1. Work[i] \in Seq(Plan)
        BY ParityConstants
      <4>2. n = m
        BY <3>4, <4>1
      <4> QED BY <4>2, <3>1, <3>2
    <3> QED BY <3>3, <3>4
  <2> QED BY <2>5, <2>6
<1>4. CASE ~Collect
  <2>1. proc' \in {proc, Idle} /\ turn' = turn /\ batches' = batches
    <3>1. CASE Promote
      BY <3>1 DEF Promote, StartPromotion, ReadReceipt, ReadComparison,
         ReadCookie, GateComparison, ReplaceManifest, collecting
    <3>2. CASE ~Promote
      BY <1>4, <3>2 DEF Next, EditSource, CompileCookie, Merge, BuildReport, StartCompiling, OpenArtifact,
         WriteArtifact, Killed, vars, collecting
    <3> QED BY <3>1, <3>2
  <2>2. CommandsSound'
    BY <2>1, CommandsKept
  <2> QED BY <2>1, <2>2 DEF CampaignOneSource
<1> QED BY <1>1, <1>2, <1>3, <1>4
-----------------------------------------------------------------------------
(* The theorems. *)

LEMMA EvidenceInit == Init => EvidenceInv
<1> SUFFICES ASSUME Init
             PROVE  EvidenceInv
  OBVIOUS
<1>1. \A id \in DOMAIN batches : batches[id] = NoFile
  BY DEF Init
<1>2. \A i \in DOMAIN Work : \A n \in DOMAIN Work[i] : batches[Work[i][n].id] = NoFile
  <2> SUFFICES ASSUME NEW i \in DOMAIN Work, NEW n \in DOMAIN Work[i]
               PROVE  batches[Work[i][n].id] = NoFile
    OBVIOUS
  <2>1. Work[i][n] \in Plan
    BY DEF Plan, ToSet
  <2> QED BY <2>1 DEF Init
<1>3. BatchesSound /\ BundleWhole /\ ReportsSound
  BY <1>1 DEF Init, BatchesSound, BundleWhole, ReportsSound
<1>4. EvidenceSound
  BY DEF Init, EvidenceSound, FileOf
<1>5. PromotionSound
  BY DEF Init, PromotionSound
<1>6. CommandsSound
  <2>1. Work \in Seq(Seq(Plan))
    BY ParityConstants
  <2>2. turn = 1 /\ proc = Idle
    BY DEF Init
  <2> QED BY <1>2, <2>1, <2>2 DEF CommandsSound
<1>7. CampaignOneSource
  BY <1>2 DEF CampaignOneSource, ToSet
<1> QED BY <1>3, <1>4, <1>5, <1>6, <1>7 DEF EvidenceInv

LEMMA EvidenceNext == EvidenceInv /\ [Next]_vars => EvidenceInv'
<1> SUFFICES ASSUME EvidenceInv, [Next]_vars
             PROVE  EvidenceInv'
  OBVIOUS
<1>1. /\ BatchesSound /\ BundleWhole /\ ReportsSound /\ EvidenceSound /\ PromotionSound
      /\ CommandsSound /\ CampaignOneSource
  BY DEF EvidenceInv
<1>2. BatchesSound' /\ BundleWhole' /\ ReportsSound'
  BY <1>1, BatchesStep, BundleStep, ReportsStep
<1>3. EvidenceSound' /\ PromotionSound'
  BY <1>1, EvidenceStep, PromotionStep
<1>4. CommandsSound' /\ CampaignOneSource'
  BY <1>1, CommandsStep
<1> QED BY <1>2, <1>3, <1>4 DEF EvidenceInv

(* Every file of the chain says what it rests on: the inductive invariant from  *)
(* which the others follow (collect, merge, build, compile and promote).        *)
THEOREM EvidenceInvariant == Spec => []EvidenceInv
  BY EvidenceInit, EvidenceNext, PTL DEF Spec

(* The bundle that reaches the builder covers the matrix once, from one source *)
(* (merge_batches, validate_shadow_plan).                                      *)
THEOREM BundlesAreSound == Spec => []BundleSound
<1>1. EvidenceInv => BundleSound
  <2> SUFFICES ASSUME EvidenceInv, bundle # NoFile
               PROVE  /\ Unique(bundle.scenarios) /\ Identities(bundle.scenarios) = Matrix
                      /\ Covers(bundle.scenarios)
                      /\ \A o \in bundle.scenarios : o.hash = bundle.source /\ ~o.joined
    BY DEF BundleSound
  <2>1. /\ Distinct(bundle.scenarios) /\ Identities(bundle.scenarios) = Matrix
        /\ Covers(bundle.scenarios)
        /\ \A o \in bundle.scenarios : o.hash = bundle.source /\ ~o.joined
    BY DEF EvidenceInv, BundleWhole
  <2>2. IsFiniteSet(Identities(bundle.scenarios))
    BY <2>1, MatrixFinite
  <2>3. Unique(bundle.scenarios)
    BY <2>1, <2>2, DistinctUnique
  <2> QED BY <2>1, <2>3
<1> QED BY <1>1, EvidenceInvariant, PTL

(* A manifest that is marked complete rests, for each kind and case, on one     *)
(* scenario that passed (promote_manifest, validate_manifest).                  *)
THEOREM ManifestsAreObserved == Spec => []PromotedObserved
<1>1. EvidenceInv => PromotedObserved
  <2> SUFFICES ASSUME EvidenceInv, manifest # NoFile, NEW k \in Kind, NEW case \in Case
               PROVE  \E c \in manifest :
                        /\ c.kind = k
                        /\ Cardinality({s \in c.scenarios : s.case = case}) = 1
                        /\ \A s \in c.scenarios :
                             s.case = case => /\ s.kind = k /\ s.end = Expected(k, case)
                                              /\ s.same /\ ~s.joined /\ s.hash = c.source
    BY DEF PromotedObserved
  <2>1. PICK c \in manifest : ComparisonSound(c, k)
    BY DEF EvidenceInv, PromotionSound
  <2>2. PICK s : /\ {t \in c.scenarios : t.case = case} = {s}
                 /\ s.kind = k /\ s.end = Expected(k, case)
                 /\ s.same /\ ~s.joined /\ s.hash = c.source
    BY <2>1 DEF ComparisonSound, Observed
  <2>3. Cardinality({t \in c.scenarios : t.case = case}) = 1
    BY <2>2, FS_Singleton
  <2>4. \A t \in c.scenarios : t.case = case => t = s
    BY <2>2
  <2> QED BY <2>1, <2>2, <2>3, <2>4 DEF ComparisonSound
<1> QED BY <1>1, EvidenceInvariant, PTL

(* The files that one campaign keeps are of one version of the source           *)
(* (run_failure_campaign).                                                      *)
THEOREM CampaignsAreOfOneSource == Spec => []CampaignOneSource
<1>1. EvidenceInv => CampaignOneSource
  BY DEF EvidenceInv
<1> QED BY <1>1, EvidenceInvariant, PTL
=============================================================================
