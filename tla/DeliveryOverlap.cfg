CONSTANTS
  Delivery = {d1}
  NoMessage = NoMessage
  Message = {m1, m2}
  Worker = {w1, w2}
  RetryLimit = 1
  MaxRetries = 1
  MaxReopens = 1
  MaxAdmin = 0
  MaxFaults = 1
SYMMETRY Symmetry
SPECIFICATION Spec
INVARIANTS
  NoEarlyGiveUp
  OpenRowIsCarried
PROPERTIES
  CancelHoldsWhenIdle
  PromiseKept
