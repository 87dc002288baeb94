CONSTANTS
  Proc = {p1, p2}
  MaxFailed = 2
  MaxTokens = 3
  MaxResets = 0
  MaxPasswords = 1
  MaxAttempts = 1
  Faults = FALSE
SPECIFICATION Spec
SYMMETRY Symmetric
PROPERTIES
  RevokedForGood
  OneTokenPerLogin
  SessionsMatchAccount
  ImplementsSignIns
