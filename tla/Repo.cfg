CONSTANTS
  Key = {1, 2}
  Peer = {p1}
  PageLimit = 1
  PerDay = 2
  Start = {"like"}
  MaxTime = 2
  MaxWrites = 2
  MaxDepth = 1
SPECIFICATION Spec
INVARIANTS
  EachOnce
  SameRevSameRepo
  LookupsAreRight
PROPERTIES
  RevGoesForward
