CONSTANTS
  Proc = {p1, p2}
  MaxImages = 2
  MaxKeys = 5
SPECIFICATION Spec
SYMMETRY Symmetric
INVARIANTS
  TypeOK
  NoDeadLinks
  BoundedExcess
PROPERTY NoOrphans
