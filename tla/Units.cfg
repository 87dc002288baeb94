CONSTANTS
  Department = {a, b}
  Location = {l}
  Device = {d1, d2}
  Employee = {e}
  Proc = {p1, p2}
  None = None
SPECIFICATION Spec
SYMMETRY Symmetric
INVARIANTS
  TypeOK
  LinksLive
PROPERTIES
  DevicesFollow
  NeverStranded
