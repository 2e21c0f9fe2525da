SPECIFICATION FairSpec
CONSTANTS
  Value <- MCValue
  Id <- MCId
  NoId = "none"
  Source <- MCSource
  OptionSets <- MCOptionSets
  Files <- MCFiles
  ParseId <- MCParseId
  Query <- MCQuery
  Nets <- MCNets
  LocalNets <- MCLocalNets
  TunNet <- MCTunNet
  Found <- MCFound
  Listings <- MCListings
  Packets <- MCPackets
CHECK_DEADLOCK FALSE
INVARIANTS  SpecsServeRequest InboundPolicy
PROPERTIES CoreEnds
