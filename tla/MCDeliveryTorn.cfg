\* A record that a full disk or a crash cut short, and the retry of its delivery.
CONSTANTS
  Delivery <- FileDeliveries
  ResultOf <- FileResultOf
  SinkOf <- FileSinkOf
  MaxAttempts = 2
  Holds <- FileHolds
  Slot = {s1, s2}
  Owner <- MCOwner
  Scopes <- FileScopes
  NoOwner = NoOwner
  NoDelivery = NoDelivery
  Nobody = Nobody
SPECIFICATION Spec
SYMMETRY MCSymmetry
INVARIANTS
  DeliveredIsReadable
