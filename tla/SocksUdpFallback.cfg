SPECIFICATION Spec
CONSTANTS
  AllowDomains <- MCAllow
  ExcludeDomains <- MCExclude
  Clients = {"c1"}
  Dests <- MCDests
  BindIf = TRUE
  Channels = {"silent"}
  Faults = {"bind"}
  MaxPackets = 1
  MaxReplies = 1
CHECK_DEADLOCK FALSE
INVARIANT ListedThroughVPN
