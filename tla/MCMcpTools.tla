----------------------------- MODULE MCMcpTools -----------------------------
(* Three governed calls that may compete for one run slot and two tokens;   *)
(* three calls of the tools that create and cancel, with two receipts;      *)
(* three rows, one of them larger than a page, of which two at most are     *)
(* read at a time: all that one call returns of events, and half of what it *)
(* returns of the other listings.  The three models share no state: a       *)
(* behaviour is about one of them.                                          *)
EXTENDS McpCalls, McpApprovals, McpListings, TLC

CONSTANTS w1, w2, w3

VARIABLE about

allVars == <<vars, approvalVars, listingVars, about>>

MCSymmetry == Permutations(Call) \cup Permutations(Receipt) \cup Permutations(Tenant)
MCStoreLimit == "events" :> 2 @@ "results" :> 4 @@ "deliveries" :> 4
MCSize == w1 :> 2 @@ w2 :> 3 @@ w3 :> 5

ToolsInit ==
  /\ about \in {"calls", "approvals", "listings"}
  /\ Init /\ ApprovalInit /\ ListingInit
  /\ about # "listings" => listing = "events"

ToolsNext ==
  \/ about = "calls" /\ Next /\ UNCHANGED <<approvalVars, listingVars, about>>
  \/ about = "approvals" /\ ApprovalNext /\ UNCHANGED <<vars, listingVars, about>>
  \/ about = "listings" /\ ListingNext /\ UNCHANGED <<vars, approvalVars, about>>

ToolsSpec == ToolsInit /\ [][ToolsNext]_allVars
=============================================================================
