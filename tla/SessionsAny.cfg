CONSTANTS
  Proc = {p1, p2}
  MaxFailed = 2
  MaxTokens = 2
  MaxResets = 2
  MaxPasswords = 2
  MaxAttempts = 3
  Faults = TRUE
SPECIFICATION Spec
SYMMETRY Symmetric
INVARIANT TypeOK
PROPERTIES
  LinkSetsOnePassword
  OneResetLink
  LockHolds
