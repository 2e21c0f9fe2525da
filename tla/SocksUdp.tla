------------------------------ MODULE SocksUdp ------------------------------
(***************************************************************************)
(* One SOCKS5 UDP association: runUDPAssociate in socks.go.  Four          *)
(* goroutines share it: the handler, which waits on the TCP control        *)
(* connection, the reader of the client's datagrams, and one sendBack loop *)
(* for each of the two outbound sockets.  The reader and the sendBack      *)
(* loops share lastClientAddr (an atomic pointer) and clientAddrCh (a      *)
(* channel of capacity one); each access to either is a step.              *)
(* A definition Name_Word that stands before Name is a mutation of it: a   *)
(* mistake the code could have contained, which a property must catch.     *)
(***************************************************************************)
EXTENDS Naturals, SocksPolicy

CONSTANTS
  Clients,     \* source addresses of the client's datagrams
  Dests,       \* what a datagram may ask for
  BindIf,      \* the server is given an interface to bind to
  Channels,    \* states the control channel may be in when the association begins
  Faults,      \* a subset of FaultKinds
  MaxPackets,  \* bound: datagrams the client sends
  MaxReplies   \* bound: datagrams that reach each outbound socket

\* The outbound sockets may not open, the VPN socket's binding may be refused,
\* and the reply to the client may not be written.
FaultKinds == {"vpnSocket", "sysSocket", "bind", "reply"}

ASSUME SocksUdpAssumption ==
  \* "good": the header parses and its name, if it has one, resolves.
  /\ Dests \subseteq [name: Name, good: BOOLEAN]
  /\ BindIf \in BOOLEAN
  /\ Channels \subseteq {"silent", "unread"}
  /\ Faults \subseteq FaultKinds
  /\ MaxPackets \in Nat /\ MaxReplies \in Nat
  /\ "none" \notin Clients

Sockets == {"vpn", "sys"}

VARIABLES
  handler,   \* the handler's next statement
  deadline,  \* the handshake deadline of the control connection has passed
  channel,   \* the control connection: "silent" while nothing is to be read from it,
             \* "unread" when the rest of the request is, then "wrote" or "closed"
  pcClient,  \* the loopback socket is open
  sock,      \* pcVPN and pcSys: "nil", or open and "bound" to the VPN or "unbound"
  inbox,     \* datagrams waiting at pcClient
  sent,      \* number of datagrams the client has sent
  reader,    \* the reader's next statement and the datagram it handles
  lastAddr,  \* lastClientAddr
  addrCh,    \* clientAddrCh: the address in it, or "none"
  arrived,   \* datagrams that reached each outbound socket so far
  waiting,   \* of these, the ones sendBack has not read
  back,      \* each sendBack's next statement and the address it holds
  seen,      \* history: the sources of the datagrams the reader stored, in order
  routed,    \* history: what was sent out, through which socket
  answered   \* history: the addresses replies were written to

vars == <<handler, deadline, channel, pcClient, sock, inbox, sent, reader, lastAddr, addrCh,
          arrived, waiting, back, seen, routed, answered>>
control == <<handler, deadline, channel, pcClient, sock>>
history == <<seen, routed, answered>>

NoDatagram == <<>>

Init ==
  /\ handler = "listen" /\ deadline = FALSE /\ channel \in Channels
  /\ pcClient = FALSE /\ sock = [s \in Sockets |-> "nil"]
  /\ inbox = <<>> /\ sent = 0
  /\ reader = [at |-> "off", pkt |-> NoDatagram]
  /\ lastAddr = "none" /\ addrCh = "none"
  /\ arrived = [s \in Sockets |-> 0] /\ waiting = [s \in Sockets |-> 0]
  /\ back = [s \in Sockets |-> [at |-> "off", addr |-> "none"]]
  /\ seen = <<>> /\ routed = {} /\ answered = {}

(***************************************************************************)
(* The handler.                                                            *)
(***************************************************************************)
\* The loopback socket is opened and its address written to the client.
Listen ==
  /\ handler = "listen"
  /\ \/ ~deadline /\ pcClient' = TRUE /\ handler' = "open"
     \/ (deadline \/ "reply" \in Faults) /\ handler' = "ended" /\ UNCHANGED pcClient
  /\ UNCHANGED <<deadline, channel, sock, inbox, sent, reader, lastAddr, addrCh, arrived, waiting,
                 back, history>>

\* bindFDToInterface hides a refused binding: the socket is then an ordinary one.
VPNSocket ==
  IF ~BindIf THEN {"nil"}
  ELSE {"bound"} \cup (IF "vpnSocket" \in Faults THEN {"nil"} ELSE {})
                 \cup (IF "bind" \in Faults THEN {"unbound"} ELSE {})
SysSocket == {"unbound"} \cup (IF "sysSocket" \in Faults THEN {"nil"} ELSE {})

\* The outbound sockets are opened; the association goes on if either is there.
OpenSockets ==
  /\ handler = "open"
  /\ \E v \in VPNSocket, s \in SysSocket : sock' = [vpn |-> v, sys |-> s]
  /\ IF \A s \in Sockets : sock'[s] = "nil"
     THEN /\ handler' = "ended" /\ pcClient' = FALSE
          /\ UNCHANGED <<reader, back>>
     ELSE /\ handler' = "serving"
          /\ reader' = [reader EXCEPT !.at = "read"]
          /\ back' = [s \in Sockets |->
                        [back[s] EXCEPT !.at = IF sock'[s] = "nil" THEN "off" ELSE "read"]]
          /\ UNCHANGED pcClient
  /\ UNCHANGED <<deadline, channel, inbox, sent, lastAddr, addrCh, arrived, waiting, history>>

\* ctrl.Read returns: there is something to read, the client closed, or the deadline
\* has passed.  handleSocksConn reads four bytes of the request and not the address
\* and port that follow, so these are there to read.
\* The deferred calls close pcClient and the control connection, nothing else.
\* Mutation: pcClient is left open.
ControlEnds_LeavesSocket ==
  /\ handler = "serving"
  /\ channel # "silent" \/ deadline
  /\ handler' = "ended"
  /\ UNCHANGED <<deadline, channel, pcClient, sock, inbox, sent, reader, lastAddr, addrCh, arrived,
                 waiting, back, history>>

ControlEnds ==
  /\ handler = "serving"
  /\ channel # "silent" \/ deadline
  /\ handler' = "ended" /\ pcClient' = FALSE
  /\ UNCHANGED <<deadline, channel, sock, inbox, sent, reader, lastAddr, addrCh, arrived, waiting,
                 back, history>>

(***************************************************************************)
(* The reader.                                                             *)
(***************************************************************************)
\* The order of the reader's statements.
\* Mutation: the address is noted after the datagram was sent on.
Then_RoutesFirst == [read |-> "route", route |-> "store", store |-> "offer", offer |-> "read"]
Then == [read |-> "store", store |-> "offer", offer |-> "route", route |-> "read"]

ReaderReads ==
  /\ reader.at = "read"
  /\ IF pcClient
     THEN /\ inbox # <<>>
          /\ reader' = [at |-> Then["read"], pkt |-> Head(inbox)]
          /\ inbox' = Tail(inbox)
     ELSE /\ reader' = [reader EXCEPT !.at = "off"]
          /\ UNCHANGED inbox
  /\ UNCHANGED <<control, sent, lastAddr, addrCh, arrived, waiting, back, history>>

ReaderStores ==
  /\ reader.at = "store"
  /\ lastAddr' = reader.pkt.from
  /\ seen' = Append(seen, reader.pkt.from)
  /\ reader' = [reader EXCEPT !.at = Then["store"]]
  /\ UNCHANGED <<control, inbox, sent, addrCh, arrived, waiting, back, routed, answered>>

\* select { case clientAddrCh <- addr: default: }
ReaderOffers ==
  /\ reader.at = "offer"
  /\ addrCh' = IF addrCh = "none" THEN reader.pkt.from ELSE addrCh
  /\ reader' = [reader EXCEPT !.at = Then["offer"]]
  /\ UNCHANGED <<control, inbox, sent, lastAddr, arrived, waiting, back, history>>

\* The socket a datagram leaves through; "none" if it cannot.
Path(name) ==
  LET s == IF UseVPN(name) /\ sock["vpn"] # "nil" THEN "vpn" ELSE "sys"
  IN  IF sock[s] # "nil" THEN s ELSE "none"

\* Parse, resolve, choose the path, send.
ReaderRoutes ==
  /\ reader.at = "route"
  /\ LET d == reader.pkt.to
     IN  routed' = IF d.good /\ Path(d.name) # "none"
                   THEN routed \cup {[name |-> d.name, through |-> Path(d.name)]} ELSE routed
  /\ reader' = [reader EXCEPT !.at = Then["route"]]
  /\ UNCHANGED <<control, inbox, sent, lastAddr, addrCh, arrived, waiting, back, seen, answered>>

(***************************************************************************)
(* sendBack, one loop for each socket that was opened.                     *)
(***************************************************************************)
BackAt(s, at) == back' = [back EXCEPT ![s].at = at]

BackReads(s) ==
  /\ back[s].at = "read" /\ waiting[s] > 0
  /\ waiting' = [waiting EXCEPT ![s] = @ - 1]
  /\ BackAt(s, "load")
  /\ UNCHANGED <<control, inbox, sent, reader, lastAddr, addrCh, arrived, history>>

\* Mutation: the pointer is used without a look at it.
BackLoads_Unchecked(s) ==
  /\ back[s].at = "load"
  /\ back' = [back EXCEPT ![s] = [at |-> "write", addr |-> lastAddr]]
  /\ UNCHANGED <<control, inbox, sent, reader, lastAddr, addrCh, arrived, waiting, history>>

BackLoads(s) ==
  /\ back[s].at = "load"
  /\ back' = [back EXCEPT ![s] = [at |-> IF lastAddr = "none" THEN "select" ELSE "write",
                                  addr |-> lastAddr]]
  /\ UNCHANGED <<control, inbox, sent, reader, lastAddr, addrCh, arrived, waiting, history>>

\* select { case a := <-clientAddrCh: default: }: with nothing there the reply
\* is dropped.
BackSelects(s) ==
  /\ back[s].at = "select"
  /\ IF addrCh # "none"
     THEN /\ back' = [back EXCEPT ![s] = [at |-> "store", addr |-> addrCh]]
          /\ addrCh' = "none"
     ELSE BackAt(s, "read") /\ UNCHANGED addrCh
  /\ UNCHANGED <<control, inbox, sent, reader, lastAddr, arrived, waiting, history>>

BackStores(s) ==
  /\ back[s].at = "store"
  /\ lastAddr' = back[s].addr
  /\ BackAt(s, "write")
  /\ UNCHANGED <<control, inbox, sent, reader, addrCh, arrived, waiting, history>>

\* pcClient.WriteTo: its error, on a closed socket, is ignored.
BackWrites(s) ==
  /\ back[s].at = "write"
  /\ answered' = IF pcClient THEN answered \cup {back[s].addr} ELSE answered
  /\ BackAt(s, "read")
  /\ UNCHANGED <<control, inbox, sent, reader, lastAddr, addrCh, arrived, waiting, seen, routed>>

(***************************************************************************)
(* The environment.                                                        *)
(***************************************************************************)
ClientSends ==
  /\ channel \in {"silent", "unread"} /\ handler \in {"open", "serving"} /\ sent < MaxPackets
  /\ \E c \in Clients, d \in Dests : inbox' = Append(inbox, [from |-> c, to |-> d])
  /\ sent' = sent + 1
  /\ UNCHANGED <<control, reader, lastAddr, addrCh, arrived, waiting, back, history>>

\* The rest of the request arrives late, the client writes more, or it closes.
ChannelStirs ==
  /\ handler # "ended"
  /\ \/ channel = "silent" /\ channel' \in {"unread", "wrote", "closed"}
     \/ channel = "unread" /\ channel' \in {"wrote", "closed"}
  /\ UNCHANGED <<handler, deadline, pcClient, sock, inbox, sent, reader, lastAddr, addrCh, arrived,
                 waiting, back, history>>

\* Ten seconds after the connection was accepted.
DeadlinePasses ==
  /\ ~deadline /\ handler # "ended"
  /\ deadline' = TRUE
  /\ UNCHANGED <<handler, channel, pcClient, sock, inbox, sent, reader, lastAddr, addrCh, arrived,
                 waiting, back, history>>

\* An answer, or a stray datagram: the sockets take them from anyone.
Arrives(s) ==
  /\ sock[s] # "nil" /\ arrived[s] < MaxReplies
  /\ arrived' = [arrived EXCEPT ![s] = @ + 1]
  /\ waiting' = [waiting EXCEPT ![s] = @ + 1]
  /\ UNCHANGED <<control, inbox, sent, reader, lastAddr, addrCh, back, history>>

Handler == Listen \/ OpenSockets \/ ControlEnds
Reader == ReaderReads \/ ReaderStores \/ ReaderOffers \/ ReaderRoutes
SendBack(s) == BackReads(s) \/ BackLoads(s) \/ BackSelects(s) \/ BackStores(s) \/ BackWrites(s)
Environment ==
  ClientSends \/ ChannelStirs \/ DeadlinePasses \/ \E s \in Sockets : Arrives(s)

Next == Handler \/ Reader \/ (\E s \in Sockets : SendBack(s)) \/ Environment

Spec == Init /\ [][Next]_vars

\* Each goroutine runs on; clients, peers and the deadline owe nothing.
FairSpec ==
  Spec /\ WF_vars(Handler) /\ WF_vars(Reader) /\ \A s \in Sockets : WF_vars(SendBack(s))

(***************************************************************************)
(* Properties.                                                             *)
(***************************************************************************)
Datagram == [from: Clients, to: Dests]
Addr == Clients \cup {"none"}
Route == [name: Name, through: Sockets]

TypeOK ==
  /\ handler \in {"listen", "open", "serving", "ended"}
  /\ deadline \in BOOLEAN /\ channel \in {"silent", "unread", "wrote", "closed"} /\ pcClient \in BOOLEAN
  /\ sock \in [Sockets -> {"nil", "bound", "unbound"}]
  /\ inbox \in Seq(Datagram) /\ sent \in 0..MaxPackets
  /\ reader \in [at: {"off", "read", "store", "offer", "route"}, pkt: Datagram \cup {NoDatagram}]
  /\ reader.at \in {"store", "offer", "route"} => reader.pkt \in Datagram
  /\ lastAddr \in Addr /\ addrCh \in Addr
  /\ arrived \in [Sockets -> 0..MaxReplies] /\ waiting \in [Sockets -> 0..MaxReplies]
  /\ \A s \in Sockets : waiting[s] <= arrived[s]
  /\ back \in [Sockets -> [at: {"off", "read", "load", "select", "store", "write"}, addr: Addr]]
  /\ \A s \in Sockets : back[s].at \in {"store", "write"} => back[s].addr # "none"
  /\ seen \in Seq(Clients) /\ routed \subseteq Route /\ answered \subseteq Clients

\* socks.go:407-428: an association that has its VPN socket sends over it exactly what the
\* lists send through the VPN; one without it claims nothing (see ListedThroughVPN).
PathFollowsLists ==
  \A r \in routed : sock["vpn"] # "nil" => (r.through = "vpn" <=> MustUseVPN(r.name))

\* docs/command-reference.md:71, `--domain`: "Comma-separated domains that must route through
\* VPN".  A datagram for one of them, not excluded, leaves by a socket bound to the VPN.
ListedThroughVPN ==
  \A r \in routed :
    Under(r.name, AllowDomains) /\ ~Under(r.name, ExcludeDomains) =>
      r.through = "vpn" /\ sock["vpn"] = "bound"

\* socks.go:448-478: a reply goes only to an address a datagram was already taken
\* from, whichever way the goroutines, the pointer and the channel interleave.
RepliesToKnownAddress == answered \subseteq ToSet(seen)

\* socks.go:339 before :432: once something was sent out no sendBack finds the
\* pointer empty, so no answer to it is dropped.
NoAnswerDropped ==
  [][\A s \in Sockets : routed # {} /\ back[s].at = "load" => back'[s].at # "select"]_vars

\* socks.go:484, "Keep TCP control channel open until client closes": an association in
\* use does not end before the client has closed the channel or sent more than its
\* request over it.
OpenUntilClientCloses == handler = "ended" /\ sent > 0 => channel \in {"wrote", "closed"}

\* socks.go:290, 335: when the client closes, the loopback socket closes under the
\* reader, which ends.
ReaderEnds == channel = "closed" ~> reader.at = "off"
=============================================================================
