--------------------------- MODULE SocksUdpProofs ---------------------------
(***************************************************************************)
(* Theorems about SocksUdp, for every set of client addresses and          *)
(* destinations, all domain lists and faults, and any number of datagrams. *)
(***************************************************************************)
EXTENDS SocksUdp, SocksPolicyProofs

\* The types, by who keeps them.
ControlType ==
  /\ handler \in {"listen", "open", "serving", "ended"}
  /\ channel \in {"silent", "unread", "wrote", "closed"}
  /\ sock \in [Sockets -> {"nil", "bound", "unbound"}]
FlagType == deadline \in BOOLEAN /\ pcClient \in BOOLEAN
ReaderType ==
  /\ inbox \in Seq(Datagram)
  /\ reader \in [at: {"off", "read", "store", "offer", "route"}, pkt: Datagram \cup {NoDatagram}]
  /\ reader.at \in {"store", "offer", "route"} => reader.pkt \in Datagram
AddrType == lastAddr \in Addr /\ addrCh \in Addr
BackType ==
  /\ back \in [Sockets -> [at: {"off", "read", "load", "select", "store", "write"}, addr: Addr]]
  /\ \A s \in Sockets : back[s].at \in {"store", "write"} => back[s].addr # "none"
CountType ==
  /\ sent \in 0..MaxPackets
  /\ arrived \in [Sockets -> 0..MaxReplies] /\ waiting \in [Sockets -> 0..MaxReplies]
  /\ \A s \in Sockets : waiting[s] <= arrived[s]
HistoryType == seen \in Seq(Clients) /\ routed \subseteq Route /\ answered \subseteq Clients

LEMMA TypeParts ==
  TypeOK <=> /\ ControlType /\ FlagType /\ ReaderType /\ AddrType /\ BackType /\ CountType
             /\ HistoryType
BY DEF TypeOK, ControlType, FlagType, ReaderType, AddrType, BackType, CountType, HistoryType

\* Every address the goroutines hold was the source of a datagram the reader noted.
Known ==
  /\ lastAddr \in ToSet(seen) \cup {"none"} /\ addrCh \in ToSet(seen) \cup {"none"}
  /\ \A s \in Sockets : back[s].addr \in ToSet(seen) \cup {"none"}
  /\ reader.at \in {"offer", "route"} => reader.pkt.from \in ToSet(seen)
  /\ answered \subseteq ToSet(seen)

\* The pointer is set before anything is sent out, and never cleared.
Noted == routed # {} \/ reader.at \in {"offer", "route"} => lastAddr # "none"

\* The sockets are the same from the first datagram to the last.
Routed ==
  /\ handler \in {"listen", "open"} => routed = {} /\ reader.at = "off"
  /\ \A r \in routed : r.through = "vpn" <=> UseVPN(r.name) /\ sock["vpn"] # "nil"

Inv == TypeOK /\ Known /\ Noted /\ Routed

\* The addresses seen once one more is noted.
LEMMA SeenGrows ==
  ASSUME NEW s \in Seq(Clients), NEW c \in Clients
  PROVE  ToSet(Append(s, c)) = ToSet(s) \cup {c} /\ Append(s, c) \in Seq(Clients)
<1>1. Append(s, c) \in Seq(Clients) /\ Len(Append(s, c)) = Len(s) + 1
      OBVIOUS
<1>2. \A i \in 1..Len(s) : Append(s, c)[i] = s[i]
      OBVIOUS
<1>3. Append(s, c)[Len(s) + 1] = c
      OBVIOUS
<1>4. \A i \in 1..(Len(s) + 1) : i \in 1..Len(s) \/ i = Len(s) + 1
      OBVIOUS
<1>5. QED
      BY <1>1, <1>2, <1>3, <1>4 DEF ToSet

(***************************************************************************)
(* The types.                                                              *)
(***************************************************************************)
LEMMA TypeInit == Init => TypeOK
<1>1. Init => ControlType /\ ReaderType /\ AddrType /\ CountType /\ HistoryType
      BY SocksUdpAssumption
      DEF Init, Sockets, ControlType, ReaderType, AddrType, CountType, HistoryType, Addr
<1>2. Init => BackType
      BY DEF Init, BackType, Addr
<1>3. Init => FlagType
      BY Zenon DEF Init, FlagType
<1>4. QED
      BY <1>1, <1>2, <1>3, TypeParts

LEMMA ControlTyped == TypeOK /\ [Next]_vars => ControlType'
<1> SUFFICES ASSUME ControlType, [Next]_vars PROVE ControlType'
    BY TypeParts
<1>1. CASE OpenSockets
  <2>1. \E v, s \in {"nil", "bound", "unbound"} : sock' = [vpn |-> v, sys |-> s]
        BY <1>1 DEF OpenSockets, VPNSocket, SysSocket
  <2>2. sock' \in [Sockets -> {"nil", "bound", "unbound"}]
        BY <2>1 DEF Sockets
  <2>3. QED
        BY <1>1, <2>2 DEF OpenSockets, ControlType
<1>2. CASE Listen \/ ControlEnds \/ Reader \/ (\E s \in Sockets : SendBack(s)) \/ Environment
      BY <1>2
      DEF ControlType, control, Listen, ControlEnds,
          Reader, ReaderReads, ReaderStores, ReaderOffers, ReaderRoutes,
          SendBack, BackReads, BackLoads, BackSelects, BackStores, BackWrites,
          Environment, ClientSends, ChannelStirs, DeadlinePasses, Arrives
<1>3. CASE UNCHANGED vars
      BY <1>3 DEF vars, ControlType
<1>4. QED
      BY <1>1, <1>2, <1>3 DEF Next, Handler

LEMMA FlagTyped == TypeOK /\ [Next]_vars => FlagType'
<1> SUFFICES ASSUME FlagType, [Next]_vars PROVE FlagType'
    BY TypeParts
<1>1. QED
      BY Zenon
      DEF FlagType, control, Next, Handler, Listen, OpenSockets, ControlEnds,
          Reader, ReaderReads, ReaderStores, ReaderOffers, ReaderRoutes,
          SendBack, BackReads, BackLoads, BackSelects, BackStores, BackWrites,
          Environment, ClientSends, ChannelStirs, DeadlinePasses, Arrives, vars

LEMMA ReaderTyped == TypeOK /\ [Next]_vars => ReaderType'
<1> SUFFICES ASSUME ReaderType, [Next]_vars PROVE ReaderType'
    BY TypeParts
<1>1. CASE ClientSends
  <2>1. PICK c \in Clients, d \in Dests : inbox' = Append(inbox, [from |-> c, to |-> d])
        BY <1>1 DEF ClientSends
  <2>2. [from |-> c, to |-> d] \in Datagram
        BY DEF Datagram
  <2>3. inbox' \in Seq(Datagram)
        BY <2>1, <2>2 DEF ReaderType
  <2>4. QED
        BY <1>1, <2>3 DEF ClientSends, ReaderType
<1>2. CASE ReaderReads
  <2>1. CASE pcClient
    <3>1. inbox # <<>> /\ reader' = [at |-> "store", pkt |-> Head(inbox)] /\ inbox' = Tail(inbox)
          BY <1>2, <2>1 DEF ReaderReads, Then
    <3>2. Head(inbox) \in Datagram /\ Tail(inbox) \in Seq(Datagram)
          BY <3>1 DEF ReaderType
    <3>3. QED
          BY <3>1, <3>2 DEF ReaderType
  <2>2. CASE ~pcClient
        BY <1>2, <2>2 DEF ReaderReads, ReaderType
  <2>3. QED
        BY <2>1, <2>2
<1>3. CASE ReaderStores \/ ReaderOffers \/ ReaderRoutes
      BY <1>3 DEF ReaderStores, ReaderOffers, ReaderRoutes, Then, ReaderType
<1>4. CASE OpenSockets
      BY <1>4 DEF OpenSockets, ReaderType
<1>5. CASE \/ Listen \/ ControlEnds \/ (\E s \in Sockets : SendBack(s) \/ Arrives(s))
           \/ ChannelStirs \/ DeadlinePasses
      BY <1>5
      DEF ReaderType, Listen, ControlEnds,
          SendBack, BackReads, BackLoads, BackSelects, BackStores, BackWrites,
          ChannelStirs, DeadlinePasses, Arrives
<1>6. CASE UNCHANGED vars
      BY <1>6 DEF vars, ReaderType
<1>7. QED
      BY <1>1, <1>2, <1>3, <1>4, <1>5, <1>6 DEF Next, Handler, Reader, Environment

LEMMA AddrTyped == TypeOK /\ [Next]_vars => AddrType'
<1> SUFFICES ASSUME AddrType, ReaderType, BackType, [Next]_vars PROVE AddrType'
    BY TypeParts
<1>1. reader.at \in {"store", "offer"} => reader.pkt.from \in Addr
      BY DEF ReaderType, Datagram, Addr
<1>2. \A s \in Sockets : back[s].addr \in Addr
      BY DEF BackType
<1>3. CASE \/ ReaderStores \/ ReaderOffers \/ \E s \in Sockets : BackSelects(s) \/ BackStores(s)
      BY <1>1, <1>2, <1>3
      DEF AddrType, Addr, ReaderStores, ReaderOffers, BackSelects, BackStores
<1>4. CASE \/ Handler \/ ReaderReads \/ ReaderRoutes \/ Environment \/ UNCHANGED vars
           \/ \E s \in Sockets : BackReads(s) \/ BackLoads(s) \/ BackWrites(s)
      BY <1>4
      DEF AddrType, Handler, Listen, OpenSockets, ControlEnds, ReaderReads, ReaderRoutes,
          BackReads, BackLoads, BackWrites,
          Environment, ClientSends, ChannelStirs, DeadlinePasses, Arrives, vars
<1>5. QED
      BY <1>3, <1>4 DEF Next, Reader, SendBack

LEMMA BackTyped == TypeOK /\ [Next]_vars => BackType'
<1> SUFFICES ASSUME BackType, AddrType, [Next]_vars PROVE BackType'
    BY TypeParts
<1>1. CASE OpenSockets
      BY <1>1 DEF OpenSockets, BackType
<1>2. ASSUME NEW s \in Sockets, SendBack(s) PROVE BackType'
  <2>1. CASE BackReads(s) \/ BackWrites(s)
        BY <1>2, <2>1 DEF BackReads, BackWrites, BackAt, BackType
  <2>2. CASE BackLoads(s)
        BY <1>2, <2>2 DEF BackLoads, BackType, AddrType
  <2>3. CASE BackSelects(s)
        BY <1>2, <2>3 DEF BackSelects, BackAt, BackType, AddrType
  <2>4. CASE BackStores(s)
        BY <1>2, <2>4 DEF BackStores, BackAt, BackType
  <2>5. QED
        BY <1>2, <2>1, <2>2, <2>3, <2>4 DEF SendBack
<1>3. CASE Listen \/ ControlEnds \/ Reader \/ Environment \/ UNCHANGED vars
      BY <1>3
      DEF BackType, Listen, ControlEnds, Reader, ReaderReads, ReaderStores, ReaderOffers,
          ReaderRoutes, Environment, ClientSends, ChannelStirs, DeadlinePasses, Arrives, vars
<1>4. QED
      BY <1>1, <1>2, <1>3 DEF Next, Handler

LEMMA CountTyped == TypeOK /\ [Next]_vars => CountType'
<1> SUFFICES ASSUME CountType, [Next]_vars PROVE CountType'
    BY TypeParts
<1>1. CASE ClientSends
      BY <1>1, SocksUdpAssumption DEF ClientSends, CountType
<1>2. ASSUME NEW s \in Sockets, BackReads(s) \/ Arrives(s) PROVE CountType'
      BY <1>2, SocksUdpAssumption DEF BackReads, Arrives, CountType
<1>3. CASE \/ Handler \/ Reader \/ ChannelStirs \/ DeadlinePasses \/ UNCHANGED vars
           \/ \E s \in Sockets : BackLoads(s) \/ BackSelects(s) \/ BackStores(s) \/ BackWrites(s)
      BY <1>3
      DEF CountType, Handler, Listen, OpenSockets, ControlEnds,
          Reader, ReaderReads, ReaderStores, ReaderOffers, ReaderRoutes,
          BackLoads, BackSelects, BackStores, BackWrites, ChannelStirs, DeadlinePasses, vars
<1>4. QED
      BY <1>1, <1>2, <1>3 DEF Next, SendBack, Environment

LEMMA HistoryTyped == TypeOK /\ [Next]_vars => HistoryType'
<1> SUFFICES ASSUME HistoryType, ReaderType, BackType, ControlType, [Next]_vars PROVE HistoryType'
    BY TypeParts
<1>1. CASE ReaderStores
  <2>1. reader.pkt.from \in Clients
        BY <1>1 DEF ReaderStores, ReaderType, Datagram
  <2>2. QED
        BY <1>1, <2>1 DEF ReaderStores, HistoryType, history
<1>2. CASE ReaderRoutes
  <2>1. reader.pkt.to \in Dests /\ reader.pkt.to.name \in Name
        BY <1>2, SocksUdpAssumption DEF ReaderRoutes, ReaderType, Datagram
  <2>2. Path(reader.pkt.to.name) \in Sockets \cup {"none"}
        BY DEF Path, Sockets
  <2>3. routed' \subseteq Route
        BY <1>2, <2>1, <2>2 DEF ReaderRoutes, HistoryType, Route
  <2>4. QED
        BY <1>2, <2>3 DEF ReaderRoutes, HistoryType
<1>3. ASSUME NEW s \in Sockets, BackWrites(s) PROVE HistoryType'
  <2>1. back[s].addr \in Clients
        BY <1>3 DEF BackWrites, BackType, Addr
  <2>2. QED
        BY <1>3, <2>1 DEF BackWrites, HistoryType
<1>4. CASE \/ Handler \/ ReaderReads \/ ReaderOffers \/ Environment \/ UNCHANGED vars
           \/ \E s \in Sockets : BackReads(s) \/ BackLoads(s) \/ BackSelects(s) \/ BackStores(s)
      BY <1>4
      DEF HistoryType, history, Handler, Listen, OpenSockets, ControlEnds,
          ReaderReads, ReaderOffers, BackReads, BackLoads, BackSelects, BackStores,
          Environment, ClientSends, ChannelStirs, DeadlinePasses, Arrives, vars
<1>5. QED
      BY <1>1, <1>2, <1>3, <1>4 DEF Next, Reader, SendBack

LEMMA TypeStep == TypeOK /\ [Next]_vars => TypeOK'
<1>1. (TypeOK <=> /\ ControlType /\ FlagType /\ ReaderType /\ AddrType /\ BackType /\ CountType
                  /\ HistoryType)'
      BY TypeParts, PTL
<1>2. QED
      BY <1>1, ControlTyped, FlagTyped, ReaderTyped, AddrTyped, BackTyped, CountTyped, HistoryTyped

(***************************************************************************)
(* Addresses.                                                              *)
(***************************************************************************)
\* The addresses that are known only grow.
LEMMA SeenStep ==
  TypeOK /\ [Next]_vars => \/ ReaderStores /\ ToSet(seen') = ToSet(seen) \cup {reader.pkt.from}
                           \/ ~ReaderStores /\ seen' = seen
<1> SUFFICES ASSUME TypeOK, [Next]_vars
             PROVE  \/ ReaderStores /\ ToSet(seen') = ToSet(seen) \cup {reader.pkt.from}
                    \/ ~ReaderStores /\ seen' = seen
    OBVIOUS
<1>1. CASE ReaderStores
  <2>1. reader.pkt.from \in Clients /\ seen \in Seq(Clients)
        BY <1>1 DEF ReaderStores, TypeOK, Datagram
  <2>2. seen' = Append(seen, reader.pkt.from)
        BY <1>1 DEF ReaderStores
  <2>3. QED
        BY <1>1, <2>1, <2>2, SeenGrows
<1>2. CASE ~ReaderStores
      BY <1>2
      DEF history, Next, Handler, Listen, OpenSockets, ControlEnds,
          Reader, ReaderReads, ReaderOffers, ReaderRoutes,
          SendBack, BackReads, BackLoads, BackSelects, BackStores, BackWrites,
          Environment, ClientSends, ChannelStirs, DeadlinePasses, Arrives, vars
<1>3. QED
      BY <1>1, <1>2

LEMMA KnownStep == TypeOK /\ Known /\ [Next]_vars => Known'
<1> SUFFICES ASSUME TypeOK, Known, [Next]_vars PROVE Known'
    OBVIOUS
<1> DEFINE K == ToSet(seen)
           N == ToSet(seen')
<1>0. K \subseteq N /\ (ReaderStores => N = K \cup {reader.pkt.from})
      BY SeenStep
<1>1. /\ lastAddr \in K \cup {"none"} /\ addrCh \in K \cup {"none"}
      /\ \A s \in Sockets : back[s].addr \in K \cup {"none"}
      /\ reader.at \in {"offer", "route"} => reader.pkt.from \in K
      /\ answered \subseteq K
      BY DEF Known
<1>2. /\ back \in [Sockets -> [at: {"off", "read", "load", "select", "store", "write"}, addr: Addr]]
      /\ \A s \in Sockets : back[s].at = "write" => back[s].addr # "none"
      BY DEF TypeOK
<1>3. reader \in [at: {"off", "read", "store", "offer", "route"}, pkt: Datagram \cup {NoDatagram}]
      BY DEF TypeOK
<1> SUFFICES /\ lastAddr' \in N \cup {"none"} /\ addrCh' \in N \cup {"none"}
             /\ \A s \in Sockets : back'[s].addr \in N \cup {"none"}
             /\ reader'.at \in {"offer", "route"} => reader'.pkt.from \in N
             /\ answered' \subseteq N
    BY DEF Known
<1> HIDE DEF K, N
<1>4. CASE ReaderReads \/ OpenSockets
      BY <1>0, <1>1, <1>2, <1>3, <1>4 DEF ReaderReads, OpenSockets, Then, history
<1>5. CASE ReaderStores \/ ReaderOffers \/ ReaderRoutes
      BY <1>0, <1>1, <1>3, <1>5 DEF ReaderStores, ReaderOffers, ReaderRoutes, Then, history
<1>6. ASSUME NEW s \in Sockets, SendBack(s)
      PROVE  /\ lastAddr' \in N \cup {"none"} /\ addrCh' \in N \cup {"none"}
             /\ \A r \in Sockets : back'[r].addr \in N \cup {"none"}
             /\ answered' \subseteq N /\ reader' = reader
  <2>1. CASE BackReads(s)
        BY <1>0, <1>1, <1>2, <2>1 DEF BackReads, BackAt, history
  <2>2. CASE BackLoads(s)
        BY <1>0, <1>1, <1>2, <2>2 DEF BackLoads, history
  <2>3. CASE BackSelects(s)
        BY <1>0, <1>1, <1>2, <2>3 DEF BackSelects, BackAt, history
  <2>4. CASE BackStores(s)
        BY <1>0, <1>1, <1>2, <2>4 DEF BackStores, BackAt, history
  <2>5. CASE BackWrites(s)
        BY <1>0, <1>1, <1>2, <2>5 DEF BackWrites, BackAt
  <2>6. QED
        BY <1>6, <2>1, <2>2, <2>3, <2>4, <2>5 DEF SendBack
<1>7. CASE Listen \/ ControlEnds \/ Environment \/ UNCHANGED vars
      BY <1>0, <1>1, <1>7
      DEF Listen, ControlEnds, history, Environment, ClientSends, ChannelStirs, DeadlinePasses,
          Arrives, vars
<1>8. QED
      BY <1>0, <1>1, <1>4, <1>5, <1>6, <1>7 DEF Next, Handler, Reader

LEMMA NotedStep == TypeOK /\ Noted /\ [Next]_vars => Noted'
<1> SUFFICES ASSUME TypeOK, Noted, [Next]_vars PROVE Noted'
    OBVIOUS
<1>1. /\ reader \in [at: {"off", "read", "store", "offer", "route"}, pkt: Datagram \cup {NoDatagram}]
      /\ reader.at = "store" => reader.pkt.from # "none"
      /\ \A s \in Sockets : back[s].at = "store" => back[s].addr # "none"
      BY SocksUdpAssumption DEF TypeOK, Datagram
<1>2. CASE Reader \/ OpenSockets
      BY <1>1, <1>2
      DEF Noted, Reader, ReaderReads, ReaderStores, ReaderOffers, ReaderRoutes, OpenSockets, Then,
          history
<1>3. CASE \/ Listen \/ ControlEnds \/ (\E s \in Sockets : SendBack(s)) \/ Environment
           \/ UNCHANGED vars
      BY <1>1, <1>3
      DEF Noted, Listen, ControlEnds, history,
          SendBack, BackReads, BackLoads, BackSelects, BackStores, BackWrites,
          Environment, ClientSends, ChannelStirs, DeadlinePasses, Arrives, vars
<1>4. QED
      BY <1>2, <1>3 DEF Next, Handler

(***************************************************************************)
(* Paths.                                                                  *)
(***************************************************************************)
LEMMA RoutedStep == TypeOK /\ Routed /\ [Next]_vars => Routed'
<1> SUFFICES ASSUME TypeOK, Routed, [Next]_vars PROVE Routed'
    OBVIOUS
<1>1. CASE ReaderRoutes
  <2>1. handler \notin {"listen", "open"} /\ handler' = handler /\ sock' = sock
        BY <1>1 DEF ReaderRoutes, Routed, control
  <2>2. \A name : Path(name) = "vpn" <=> UseVPN(name) /\ sock["vpn"] # "nil"
        BY DEF Path
  <2>3. \A r \in routed' : r.through = "vpn" <=> UseVPN(r.name) /\ sock["vpn"] # "nil"
        BY <1>1, <2>2 DEF ReaderRoutes, Routed
  <2>4. QED
        BY <2>1, <2>3 DEF Routed
<1>2. CASE OpenSockets
      BY <1>2 DEF OpenSockets, Routed, history
<1>3. CASE ReaderReads \/ ReaderStores \/ ReaderOffers
      BY <1>3 DEF ReaderReads, ReaderStores, ReaderOffers, Routed, control, history
<1>4. CASE \/ Listen \/ ControlEnds \/ (\E s \in Sockets : SendBack(s)) \/ Environment
           \/ UNCHANGED vars
      BY <1>4
      DEF Routed, control, Listen, ControlEnds, history,
          SendBack, BackReads, BackLoads, BackSelects, BackStores, BackWrites,
          Environment, ClientSends, ChannelStirs, DeadlinePasses, Arrives, vars
<1>5. QED
      BY <1>1, <1>2, <1>3, <1>4 DEF Next, Handler, Reader

LEMMA InvHolds == Spec => []Inv
<1>1. Init => Known /\ Noted /\ Routed
      BY DEF Init, Known, Noted, Routed, Sockets
<1>2. Init => Inv
      BY <1>1, TypeInit DEF Inv
<1>3. Inv /\ [Next]_vars => Inv'
      BY TypeStep, KnownStep, NotedStep, RoutedStep DEF Inv
<1>4. QED
      BY <1>2, <1>3, PTL DEF Spec

(***************************************************************************)
(* The theorems.                                                           *)
(***************************************************************************)
\* Every variable of an association keeps its type: no reply is ever written to an
\* address nobody wrote, and no socket read holds more datagrams than arrived
\* (runUDPAssociate, socks.go:287-484).
THEOREM TypeCorrect == Spec => []TypeOK
BY InvHolds, PTL DEF Inv

\* An association that has its VPN socket sends over it exactly what the lists send
\* through the VPN, for all lists and every name (socks.go:407-428).
THEOREM ListsFollowed == Spec => []PathFollowsLists
<1>1. Inv => PathFollowsLists
  <2> SUFFICES ASSUME Inv, NEW r \in routed, sock["vpn"] # "nil"
               PROVE  r.through = "vpn" <=> MustUseVPN(r.name)
      BY DEF PathFollowsLists
  <2>1. r.name \in Name
        BY DEF Inv, TypeOK, Route
  <2>2. r.through = "vpn" <=> UseVPN(r.name) /\ sock["vpn"] # "nil"
        BY DEF Inv, Routed
  <2>3. QED
        BY <2>1, <2>2, PolicyAsDocumented
<1>2. QED
      BY <1>1, InvHolds, PTL

\* Replies go only to addresses a datagram came from, whichever way the four goroutines
\* interleave and however many datagrams there are (socks.go:448-478).
THEOREM RepliesOnlyToClients == Spec => []RepliesToKnownAddress
<1>1. Inv => RepliesToKnownAddress
      BY DEF Inv, Known, RepliesToKnownAddress
<1>2. QED
      BY <1>1, InvHolds, PTL

\* Once something was sent out no sendBack finds the pointer empty (socks.go:339
\* before :432), so no answer is dropped for want of an address.
THEOREM AnswersKept == Spec => NoAnswerDropped
<1>1. Inv /\ [Next]_vars =>
        [\A s \in Sockets : routed # {} /\ back[s].at = "load" => back'[s].at # "select"]_vars
  <2> SUFFICES ASSUME Inv, [Next]_vars, NEW s \in Sockets, routed # {}, back[s].at = "load"
               PROVE  back'[s].at # "select"
      BY DEF vars
  <2>1. /\ lastAddr # "none"
        /\ back \in [Sockets -> [at: {"off", "read", "load", "select", "store", "write"}, addr: Addr]]
        BY DEF Inv, Noted, TypeOK
  <2>2. CASE \E r \in Sockets : SendBack(r)
        BY <2>1, <2>2
        DEF SendBack, BackReads, BackLoads, BackSelects, BackStores, BackWrites, BackAt
  <2>3. CASE OpenSockets
        BY <2>1, <2>3 DEF OpenSockets
  <2>4. CASE Listen \/ ControlEnds \/ Reader \/ Environment \/ UNCHANGED vars
        BY <2>4
        DEF Listen, ControlEnds, Reader, ReaderReads, ReaderStores, ReaderOffers, ReaderRoutes,
            Environment, ClientSends, ChannelStirs, DeadlinePasses, Arrives, vars
  <2>5. QED
        BY <2>2, <2>3, <2>4 DEF Next, Handler
<1>2. QED
      BY <1>1, InvHolds, PTL DEF Spec, NoAnswerDropped
=============================================================================
