SPECIFICATION Spec
CONSTANTS
  Peer = {p1}
  Request = {r1, r2}
  Handler = {h1}
  MaxFollows = 2
SYMMETRY Symmetry
INVARIANTS OwnerDecides FriendsConsent PeerIsTold
PROPERTIES BlockedIsHeldOff
CHECK_DEADLOCK FALSE
