SPECIFICATION Spec
CONSTANTS
  Runs <- AllRuns
  MaxRuns = 4
  Versions = {0, 10}
  Strings <- MCStrings
INVARIANTS TextKept NeverRefused PairsWhole CaseOnly NoRepeatedHead
CHECK_DEADLOCK FALSE
