SPECIFICATION Spec
CONSTANTS
  Addr <- MCAddr
  LowHalf <- MCLowHalf
  Device <- MCDevice
  Gateway <- MCGateway
  Answer <- MCAnswer
  Configs <- ClashConfigs
  HostTables <- ClashHosts
  Resolver = "res"
  FaultSets <- NoFaults
  MaxSessions = 1
INVARIANT RestoresHostRoutes
