SPECIFICATION Spec
CONSTANTS
  AllowDomains <- MCAllow
  ExcludeDomains <- MCExclude
  Clients = {"c1"}
  Dests <- BadDests
  BindIf = TRUE
  Channels = {"unread"}
  Faults = {}
  MaxPackets = 1
  MaxReplies = 1
CHECK_DEADLOCK FALSE
INVARIANT OpenUntilClientCloses
