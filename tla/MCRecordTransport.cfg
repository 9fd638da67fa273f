CONSTANTS
  Threads = {t1, t2}
  Nodes = {n1}
  NoOne = NoOne
  HistoryCapacity = 2
  Capacity = 1
  TransportCapacity = 2
  MaxAttempts = 3
  MaxTakes = 3
  MaxCopies = 1
  MaxMishaps = 2
SPECIFICATION Spec
SYMMETRY Symmetry
INVARIANTS
  DeliveredOnce
  RefusedIsNeverDelivered
  OnlyDenialsAreSilent
CHECK_DEADLOCK FALSE
