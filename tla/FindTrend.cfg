CONSTANTS
  FirstYear = 2026
  LastYear = 2028
SPECIFICATION Spec
INVARIANT TrendHasEveryMonth
CHECK_DEADLOCK FALSE
