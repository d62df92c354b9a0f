\* How many probes an open circuit lets out.
CONSTANTS
  Task = {t1, t2}
  Host <- MCHost
  Origin <- MCOrigin
  Bare <- MCBare
  Lease <- MCLease
  Kind <- MCKind
  Threshold = 1
  MaxRedirects = 1
  NoHost = NoHost
  Nobody = Nobody
SPECIFICATION Spec
INVARIANTS
  OneProbe
