SPECIFICATION Spec
CONSTANTS
  Configs <- FlagConfigs
  Files <- AllFiles
  FaultSets <- NoFaults
  MaxTokens = 4
  MaxOthers = 0
  MaxSessions = 1
CHECK_DEADLOCK FALSE
INVARIANT StartsWithEnsured
