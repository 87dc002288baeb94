CONSTANTS
  Device = {d1}
  Employee = {e1, e2}
  Proc = {p1, p2}
  None = None
  MaxAssignments = 2
  MaxApprovals = 2
  Contention = TRUE
  Faults = FALSE
SPECIFICATION Spec
SYMMETRY Symmetric
INVARIANT AtMostOneOpen
