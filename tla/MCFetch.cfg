\* Two fetches, each following up to one redirect to the other name of the site.
CONSTANTS
  Task = {t1, t2}
  Host <- MCHost
  Origin <- MCOrigin
  Bare <- MCBare
  Lease <- OneLease
  Kind <- MCKind
  Threshold = 2
  MaxRedirects = 1
  NoHost = NoHost
  Nobody = Nobody
SPECIFICATION FairSpec
INVARIANTS
  BreakerSound
PROPERTIES
  PacedRequests
  FetchesEnd
