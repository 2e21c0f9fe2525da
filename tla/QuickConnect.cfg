SPECIFICATION FairSpec
CONSTANTS
  Configs <- StoredConfigs
  Files <- AllFiles
  FaultSets <- MCFaultSets
  MaxTokens = 5
  MaxOthers = 1
  MaxSessions = 2
CHECK_DEADLOCK FALSE
INVARIANTS TypeOK StartsWithEnsured RenewalKeepsClientToken CredentialsSuffice
PROPERTY CancelEnds
