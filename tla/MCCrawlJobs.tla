---------------------------- MODULE MCCrawlJobs ----------------------------
(* An instance of CrawlJobs for TLC. *)
EXTENDS CrawlJobs, TLC

\* A root job of two items, the first of which may derive a job of one item.
MCJob == {"root", "child"}
MCSize == "root" :> 2 @@ "child" :> 1
MCPriority == "root" :> 0 @@ "child" :> 1
MCParent == "root" :> NoItem @@ "child" :> <<"root", 1>>
MCMaxAttempts == [j \in MCJob |-> 2]

\* Two slots that write the same lease_owner (one worker_id in two processes).
MCOwner == [s \in Slot |-> "w"]
MCScopes == [s \in Slot |-> {AnyJob, "child"}]
MCSymmetry == Permutations(Slot)
=============================================================================
