SPECIFICATION FairSpec
CONSTANTS
  Record = {p}
  Edge = {}
  Conn = {c1}
  None = None
  FlushEvery = 1
  Budget = 1
  MaxEvents = 1
  MaxTicks = 1
  MaxDay = 2
  MaxEdits = 1
  MaxFaults = 2
INVARIANTS
  SecondsCountedOnce
PROPERTIES
  Reconnects
