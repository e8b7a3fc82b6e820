SPECIFICATION Spec
CONSTANTS
  Record = {p}
  Edge = {}
  Conn = {c1, c2}
  None = None
  FlushEvery = 2
  Budget = 1
  MaxEvents = 2
  MaxTicks = 0
  MaxDay = 1
  MaxEdits = 0
  MaxFaults = 1
SYMMETRY Symmetry
PROPERTIES
  ReplayIsHarmless
