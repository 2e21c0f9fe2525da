SPECIFICATION FairSpec
CONSTANTS
  Addr <- MCAddr
  LowHalf <- MCLowHalf
  Device <- MCDevice
  Gateway <- MCGateway
  Answer <- MCAnswer
  Configs <- AllConfigs
  HostTables <- CleanHosts
  Resolver = "res"
  FaultSets <- MCFaultSets
  MaxSessions = 2
INVARIANTS TypeOK KillSwitchSeals RestoresHostRoutes TunnelsEverything ControlPlaneBypassed ConnectivityKept
PROPERTIES KeepsPromise Terminates
