SPECIFICATION Spec
CONSTANTS
  Record = {p, e}
  Edge = {e}
  Conn = {c1}
  None = None
  FlushEvery = 2
  Budget = 1
  MaxEvents = 3
  MaxTicks = 0
  MaxDay = 1
  MaxEdits = 0
  MaxFaults = 2
INVARIANTS
  CursorMeansStored
PROPERTIES
  IndexNeverRegresses
  IndexIsKept
