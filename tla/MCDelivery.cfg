\* Safety: a delivery to each kind of sink, two slots under one owner name.
CONSTANTS
  Delivery <- MCDeliveries
  ResultOf <- MCResultOf
  SinkOf <- MCSinkOf
  MaxAttempts = 2
  Holds <- MCHolds
  Slot = {s1, s2}
  Owner <- MCOwner
  Scopes <- MCScopes
  NoOwner = NoOwner
  NoDelivery = NoDelivery
  Nobody = Nobody
SPECIFICATION Spec
SYMMETRY MCSymmetry
INVARIANTS
  NoRowStuck
  PublishedOnce
  DeliveredIsPublished
  OneHolder
