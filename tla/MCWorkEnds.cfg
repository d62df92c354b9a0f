\* Leases may be lost before the third claim, publishing may always raise, processes
\* may crash.
CONSTANTS
  Slot = {s1, s2}
  Owner <- EndsOwner
  Job <- EndsJob
  Size <- EndsSize
  Priority <- EndsPriority
  Parent <- EndsParent
  MaxAttempts <- EndsMaxAttempts
  Sink = {}
  MaxClaims = 3
  AnyOf <- EndsAnyOf
  Delivery <- EndsDelivery
  ResultOf <- EndsResultOf
  SinkOf <- EndsSinkOf
  DeliveryAttempts = 3
  Holds <- EndsHolds
  AllOf <- EndsAllOf
  NoItem = NoItem
  NoOwner = NoOwner
  AnyJob = AnyJob
  NoDelivery = NoDelivery
  Task = {t1, t2}
  Proxy = {p1, p2, p3}
  Direct = Direct
  Nobody = Nobody
SPECIFICATION EndsSpec
PROPERTIES
  ControlsSettle
  JobsEnd
  DeliveriesEnd
  LoadsNeeded
  RoundRobin
  AcquireEnds
