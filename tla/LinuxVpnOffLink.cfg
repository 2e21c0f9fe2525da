SPECIFICATION Spec
CONSTANTS
  Addr <- MCAddr
  LowHalf <- MCLowHalf
  Device <- MCDevice
  Gateway <- MCGateway
  Answer <- MCAnswer
  Configs <- SealConfigs
  HostTables <- EthHosts
  Resolver = "web"
  FaultSets <- NoFaults
  MaxSessions = 1
INVARIANT ControlPlaneBypassed
