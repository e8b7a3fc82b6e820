CONSTANTS
  Delivery = {d1}
  NoMessage = NoMessage
  Message = {m1}
  Worker = {w1}
  RetryLimit = 3
  MaxRetries = 3
  MaxReopens = 1
  MaxAdmin = 1
  MaxFaults = 1
SPECIFICATION FairSpec
INVARIANTS
  DeadLetterNeedsFault
PROPERTIES
  CarriedRowSettles
