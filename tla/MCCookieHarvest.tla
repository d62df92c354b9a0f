-------------------------- MODULE MCCookieHarvest --------------------------
(* An instance of CookieHarvest for TLC: fetches of one marketplace and postal code. *)
EXTENDS CookieHarvest, TLC

MCCaller == Fetcher \cup Filler
MCMatches == [r \in Request |-> Cookie]
MCSymmetry == Permutations(Cookie) \cup Permutations(Fetcher)
=============================================================================
