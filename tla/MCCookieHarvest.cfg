\* Two fetches and a fill of a pool of two cookies.
CONSTANTS
  Fetcher = {t1, t2}
  Filler = {f1}
  Caller <- MCCaller
  Cookie = {c1, c2}
  Request = {"zip"}
  Matches <- MCMatches
  Target = 2
  MaxRounds = 2
  MaxStrays = 0
  Refresh = Refresh
  Nobody = Nobody
  NoCookie = NoCookie
SPECIFICATION Spec
SYMMETRY MCSymmetry
INVARIANTS
  RestsUnlessDropped
  HarvestVisible
  FillBounded
PROPERTIES
  LoadsNeeded
