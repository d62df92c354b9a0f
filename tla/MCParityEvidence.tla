-------------------------- MODULE MCParityEvidence --------------------------
(* Three kinds, one of each family; a run collected in batches and merged, and *)
(* a run collected whole; a failed join that must not be merged.               *)
EXTENDS ParityEvidence

us == [market |-> "US", postal |-> "10001"]
jp == [market |-> "JP", postal |-> "100-0001"]
kinds == {"merchant", "product", "reviews"}
MCKindOrder == <<"merchant", "product", "reviews">>
MCFamily == [merchant |-> "merchant", product |-> "product", reviews |-> "collection"]
MCNoResult == [merchant |-> "not_found", product |-> "not_found", reviews |-> "no_rows"]
Whole == PlanFile("whole", "final", "B", FALSE,
           Scenarios(kinds, "success", us) \cup Scenarios(kinds, "no_result", jp)
           \cup Scenarios(kinds, "throttle", us))
MCWork == <<
  <<CookiePlan("cookie", "A")>>,
  <<ExportedPlan("joined", "A", "product", us, FALSE)>>,
  <<ConvertedPlan("product", "A", {"product"}, jp)>>,
  <<CollectionPlan("reviews", "A", {"reviews"}, us)>>,
  <<MerchantPlan("merchant", "A", {"merchant"}, us)>>,
  <<FailurePlan("none", "A", kinds, "no_result", us)>>,
  <<FailurePlan("slow1", "A", {"merchant"}, "throttle", us),
    FailurePlan("slow2", "A", {"product"}, "throttle", us),
    FailurePlan("slow3", "A", {"reviews"}, "throttle", us)>>,
  <<Whole>> >>
MCOddSight == {[end |-> "throttled", same |-> TRUE], [end |-> "success", same |-> FALSE]}
=============================================================================
