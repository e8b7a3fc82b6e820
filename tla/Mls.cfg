SPECIFICATION MlsSpec
CONSTANTS
  MlsMessage = {m1, m2, m3}
  Sender = {s1, s2}
  Reader = {r1, r2}
  Window = 1
  MaxInits = 1
  MaxFaults = 1
SYMMETRY Symmetry
CHECK_DEADLOCK FALSE
INVARIANTS
  KeysAreFresh
  NothingIsStranded
