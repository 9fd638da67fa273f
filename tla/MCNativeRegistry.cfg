CONSTANTS
  Threads = {t1, t2}
  Nodes = {n1, n2}
  Engines = {1}
  NoOne = NoOne
  HistoryCapacity = 2
  Capacity = 2
  MaxNodes = 1
  TicketLimit = 2
  MaxInvocations = 4
  MaxMishaps = 2
SPECIFICATION Spec
SYMMETRY Symmetry
INVARIANTS
  BirthsAreObserved
  RetirementsFindTheirBirth
  ExportsAreHonest
  AbsentForGood
CHECK_DEADLOCK FALSE
