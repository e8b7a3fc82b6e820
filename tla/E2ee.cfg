SPECIFICATION Spec
CONSTANTS
  Device = {d1}
  Material = {m1, m2}
  NoMaterial = none
  Own = {o1}
  Theirs = {t1}
  Request = {r1, r2}
SYMMETRY Symmetry
INVARIANTS
  TrustIsExplicit
  SentToVouched
  DeletedIsGone
  DeletionTakesNoOther
