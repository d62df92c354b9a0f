\* Safety: two slots under one owner name, a root job of two items and a derived
\* job, up to three claims of an item.
CONSTANTS
  Job <- MCJob
  Size <- MCSize
  Priority <- MCPriority
  Parent <- MCParent
  MaxAttempts <- MCMaxAttempts
  Sink = {k1}
  Slot = {s1, s2}
  Owner <- MCOwner
  Scopes <- MCScopes
  MaxClaims = 3
  NoItem = NoItem
  NoOwner = NoOwner
  AnyJob = AnyJob
SPECIFICATION Spec
SYMMETRY MCSymmetry
INVARIANTS
  StatusMatchesItems
  CountersMatchItems
  OneLeaseHolder
  ResultsAtomic
  FollowupsAtomic
PROPERTIES
  EndAnnounced
  StartsRespectControls
  KeepsContract
