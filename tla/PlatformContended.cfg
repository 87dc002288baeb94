CONSTANTS
  Device = {d1}
  Employee = {e1}
  Proc = {p1, p2}
  None = None
  MaxAssignments = 2
  MaxApprovals = 2
  Contention = TRUE
  Faults = TRUE
SPECIFICATION Spec
SYMMETRY Symmetric
INVARIANT TypeOK
PROPERTIES
  ApprovalTakesEffect
  AssignmentHistory
  OperatorsOnlyRequest
  SecondHolderByRace
  SecondRequestByRace
  SettledAgainByRace
  StatusFollowsTable
