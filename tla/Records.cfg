CONSTANTS
  User = {u1, u2}
  Proc = {p1, p2}
  MaxAssignments = 2
  MaxRepairs = 1
SPECIFICATION Spec
SYMMETRY Symmetric
INVARIANT TypeOK
PROPERTIES
  AssignedByRight
  ChangesRecorded
  ReceiptStands
  RepairStands
