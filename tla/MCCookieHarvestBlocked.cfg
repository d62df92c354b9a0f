\* What becomes of a quarantine when a refresh applies an older read.
CONSTANTS
  Fetcher = {t1, t2}
  Filler = {f1}
  Caller <- MCCaller
  Cookie = {c1, c2}
  Request = {"zip"}
  Matches <- MCMatches
  Target = 2
  MaxRounds = 2
  MaxStrays = 0
  Refresh = Refresh
  Nobody = Nobody
  NoCookie = NoCookie
SPECIFICATION Spec
INVARIANT BlockedRests
