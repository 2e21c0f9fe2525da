SPECIFICATION PoliteSpec
CONSTANTS
  AllowDomains <- MCAllow
  ExcludeDomains <- MCExclude
  Conns = {"a"}
  Requests <- MCRequests
  BindIf = TRUE
  Faults = {"accept", "bind", "write"}
CHECK_DEADLOCK FALSE
INVARIANTS TypeOK OneTrueReply NothingLeftOpen TunnelFollowsLists TunnelOutlivesHandshake
PROPERTIES NoHandlerAfterStop HandshakesEnd StopEnds EndsTravel
