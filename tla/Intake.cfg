CONSTANTS
  Serial = {s1, s2}
  Department = {a}
  Hook = {w1, w2}
  Proc = {p1, p2}
  MaxRows = 2
  None = None
SPECIFICATION Spec
SYMMETRY Symmetric
INVARIANTS
  TypeOK
  NeverOverstated
PROPERTIES
  CountsLost
  WebhookKept
