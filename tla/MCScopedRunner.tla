--------------------------- MODULE MCScopedRunner ---------------------------
(* One root of each shape; a rank list of two chunks loaded at one time,   *)
(* and a merchant of two pages that list one product twice.                *)
EXTENDS ScopedRunner

Root(kind, page, expand, total) ==
  [kind |-> kind, page |-> page, expand |-> expand, total |-> total,
   shared |-> kind # "rank_list"]
MCRoots ==
  {Root("product", 1, FALSE, 0), Root("search", 1, FALSE, 0), Root("search", 2, FALSE, 0),
   Root("reviews", 1, FALSE, 0), Root("rank_list", 1, FALSE, 0), Root("merchant", 1, FALSE, 0),
   Root("merchant_home", 1, TRUE, 16), Root("merchant_home", 1, FALSE, 17)}
MCSigns == {{}, {"blocked"}, {"missing"}, {"missing", "temporary"}}
MCListings == {<< >>, <<1, 1, 0>>}
MCRankRows == {<<3, 1>>, <<2, 1, 2>>}
MCMaxTrouble ==
  [k \in Kind |-> CASE k = "merchant_home" -> 1 [] k = "rank_list" -> 2 [] OTHER -> 3]
=============================================================================
