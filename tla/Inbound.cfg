CONSTANTS
  Note = {n1}
  Handler = {h1, h2}
  MaxTaken = 3
  MaxChanges = 1
  Policy = {"approved", "hidden"}
  Job = {j1, j2}
  MaxSaves = 2
SYMMETRY Symmetry
SPECIFICATION ModSpec
INVARIANTS
  NoticesAreDue
  HiddenIsQuiet
  WithdrawnStaysAway
  DecisionStands
  PolicyIsInForce
CHECK_DEADLOCK FALSE
