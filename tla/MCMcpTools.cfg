\* A client that has read the last page, and calls that were all answered, stop.
CONSTANTS
  Call = {c1, c2, c3}
  Capacity = 1
  Burst = 2
  ToolCall = {c1, c2, c3}
  Receipt = {r1, r2}
  Tenant = {t1, t2}
  Named = {1}
  Key = {k}
  Ttl = 1
  MaxTime = 2
  NoKey = NoKey
  NoReceipt = NoReceipt
  NoJob = NoJob
  NotIssued = NotIssued
  Unused = Unused
  w1 = w1
  w2 = w2
  w3 = w3
  Row = {w1, w2, w3}
  Size <- MCSize
  Budget = 3
  MaxPageSize = 2
  StoreLimit <- MCStoreLimit
SPECIFICATION ToolsSpec
SYMMETRY MCSymmetry
CHECK_DEADLOCK FALSE
INVARIANTS
  InflightExact
  SlotsSound
  AuditFirst
  AuditComplete
  ReceiptsHold
  KeysNameJobs
  PagesComplete
