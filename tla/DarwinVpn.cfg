SPECIFICATION FairSpec
CONSTANTS
  Addr <- MCAddr
  LowHalf <- MCLowHalf
  Device <- MCDevice
  Gateway <- MCGateway
  Answer <- MCAnswer
  Resolvers <- MCResolvers
  Configs <- MCConfigs
  HostTables <- MCHosts
  FaultSets <- MCFaultSets
  MaxSessions = 2
INVARIANTS RestoresHost TunnelsEverything ControlPlaneBypassed DnsFollowsBootstrap SocksOnlyScoped
PROPERTIES KeepsPromise Terminates BypassEnds
