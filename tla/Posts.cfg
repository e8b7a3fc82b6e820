CONSTANTS
  Post = {p1}
  Peer = {a, b}
  Hub = {b}
  HubInbox = hub
  Deletion = {r1, r2}
  Save = {s1, s2}
  NoOne = NoOne
  MaxChanges = 1
  MaxSaves = 2
  MaxTimes = 2
SYMMETRY Symmetry
SPECIFICATION Spec
INVARIANTS
  HoldersAreTold
  DirectIsMeant
  FollowersAreQueued
  NoTwins
PROPERTIES
  GoneStaysGone
CHECK_DEADLOCK FALSE
