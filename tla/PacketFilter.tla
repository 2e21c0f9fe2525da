---------------------------- MODULE PacketFilter ----------------------------
(***************************************************************************)
(* vpn_core.go: which packets from the provider reach the TUN.  A packet   *)
(* is its length, its version nibble, the length of its IPv4 header in     *)
(* bytes, its protocol, the bits where TCP keeps SYN and ACK, its source,  *)
(* and whether it is a later fragment, which holds no TCP header.          *)
(* A definition Name_Word that stands before Name is a mutation of it.     *)
(***************************************************************************)
EXTENDS Naturals

CONSTANT Source     \* source addresses

Packet == [len: Nat, version: 0..15, ihl: 0..60, tcp: BOOLEAN, syn: BOOLEAN, ack: BOOLEAN,
           src: Source, fragment: BOOLEAN]

\* The tail of both functions: a new connection from a listed source, or an answer.
DropTCP(p, allow) ==
  IF p.syn /\ ~p.ack THEN ~\E net \in allow : p.src \in net ELSE ~p.ack

\* Mutation: the check of the length misses the options of the IPv4 header.
ShouldDropInboundIPv4_FixedHeader(p, allow) ==
  p.len >= 40 /\ p.ihl = 20 /\ p.tcp /\ DropTCP(p, allow)

ShouldDropInboundIPv4(p, allow) ==
  p.len >= 20 /\ p.ihl >= 20 /\ p.len >= p.ihl + 20 /\ p.tcp /\ DropTCP(p, allow)

ShouldDropInboundIPv6(p, allow) == p.len >= 60 /\ p.tcp /\ DropTCP(p, allow)

ShouldDropInbound(p, allow) ==
  /\ p.len >= 1
  /\ \/ p.version = 4 /\ ShouldDropInboundIPv4(p, allow)
     \/ p.version = 6 /\ ShouldDropInboundIPv6(p, allow)

\* The receive callback: whether the packet is written.
Passes(p, ipv6, block, allow) ==
  /\ ~(p.len > 0 /\ p.version = 6 /\ ~ipv6)
  /\ ~(block /\ ShouldDropInbound(p, allow))

(***************************************************************************)
(* The reference.                                                          *)
(***************************************************************************)
\* The packet holds a TCP header where its version says it is.
HoldsTCP(p) ==
  /\ p.tcp /\ ~p.fragment
  /\ \/ p.version = 4 /\ p.ihl >= 20 /\ p.len >= p.ihl + 20
     \/ p.version = 6 /\ p.len >= 60

\* It asks for a new connection; it belongs to no connection at all.
Opens(p)  == HoldsTCP(p) /\ p.syn /\ ~p.ack
Strays(p) == HoldsTCP(p) /\ ~p.syn /\ ~p.ack
=============================================================================
