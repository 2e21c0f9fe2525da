SPECIFICATION FairSpec
CONSTANTS
  AllowDomains <- MCAllow
  ExcludeDomains <- MCExclude
  Clients = {"c1", "c2"}
  Dests <- MCDests
  BindIf = TRUE
  Channels = {"silent"}
  Faults = {"vpnSocket", "sysSocket", "reply"}
  MaxPackets = 2
  MaxReplies = 1
CHECK_DEADLOCK FALSE
INVARIANTS TypeOK PathFollowsLists RepliesToKnownAddress
PROPERTIES NoAnswerDropped ReaderEnds
