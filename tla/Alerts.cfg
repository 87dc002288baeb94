CONSTANTS
  Device = {d1, d2}
  MaxOutages = 1
SPECIFICATION FairSpec
INVARIANTS
  TypeOK
  OneOpenAlert
PROPERTIES
  HeldHasNoAlert
  DueDevicesAlerted
