CONSTANTS
  Feed = {f}
  Watch = {w}
  Limit = 1
  Window = 2
  MaxVersion = 1
  MaxActs = 2
  MaxFollows = 2
  MaxFaults = 1
SPECIFICATION Spec
INVARIANTS
  TypeOK
  EtagMeansStored
  HandWatchStays
PROPERTIES
  UnfollowedIsPaused
  DueIsRefreshed
