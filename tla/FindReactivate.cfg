CONSTANTS
  Device = {d1}
  Employee = {e1}
  Proc = {p1}
  None = None
  MaxAssignments = 1
  MaxApprovals = 1
  Contention = FALSE
  Faults = FALSE
SPECIFICATION Spec
SYMMETRY Symmetric
PROPERTY OnlyAdminReactivates
