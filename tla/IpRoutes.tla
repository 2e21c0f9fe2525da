------------------------------ MODULE IpRoutes ------------------------------
(***************************************************************************)
(* The kernel's IPv4 routing table as the route managers use it, through   *)
(* the `ip route` command on Linux and `route` on macOS (where every metric*)
(* is 0).  The table is external to the repository: only what its callers  *)
(* can tell apart is modelled.                                             *)
(*                                                                         *)
(* A prefix is the set of addresses it covers, so "more specific" is       *)
(* strict inclusion, the default prefix is the whole address space, and    *)
(* 0.0.0.0/1 and 128.0.0.0/1 are LowHalf and its complement.               *)
(***************************************************************************)
EXTENDS Naturals

CONSTANTS Addr,     \* destination addresses
          LowHalf,  \* the addresses of 0.0.0.0/1
          Device,   \* the host's physical interfaces
          Gateway   \* the gateways the host's default routes name

ASSUME AddrAssumption ==
  /\ LowHalf \subseteq Addr
  /\ LowHalf # {}
  /\ Addr \ LowHalf # {}
  /\ \A a \in Addr : {a} # LowHalf /\ {a} # Addr \ LowHalf

ASSUME DeviceAssumption ==
  /\ Device \cap {"none", "tun", "blackhole", "unreachable"} = {}
  /\ "none" \notin Gateway

Default  == Addr                  \* 0.0.0.0/0
HighHalf == Addr \ LowHalf        \* 128.0.0.0/1
Host(a)  == {a}                   \* a /32
Prefix   == SUBSET Addr

\* Where a route sends a packet.  "tun" is the client's interface.
Target == Device \cup {"tun", "blackhole", "unreachable"}

Route == [dst: Prefix, gw: Gateway \cup {"none"}, dev: Target, metric: Nat]

\* Longest prefix first, lowest metric among routes to the same prefix.
Beats(s, r) == \/ s.dst \subseteq r.dst /\ s.dst # r.dst
               \/ s.dst = r.dst /\ s.metric < r.metric

\* Packets to address a leave through one of the devices in D.
GoesTo(t, a, D) ==
  \E r \in t : /\ a \in r.dst
               /\ r.dev \in D
               /\ \A s \in t : a \in s.dst => ~Beats(s, r)

\* `ip route add`: refused (EEXIST) when the prefix has a route of that metric.
Add(t, r) ==
  IF \E s \in t : s.dst = r.dst /\ s.metric = r.metric THEN t ELSE t \cup {r}

\* `ip route del`: removes the lowest-metric route among those that match the
\* command's arguments, and fails when there is none.
Delete(t, match) ==
  t \ {r \in match : \A s \in match : r.metric <= s.metric}

Matching(t, dst) == {r \in t : r.dst = dst}
Defaults(t, D)   == {r \in t : r.dst = Default /\ r.dev \in D}

\* The kernel removes the routes of an interface that goes down or away.
Flush(t, dev) == {r \in t : r.dev # dev}

BlackholeDefault == [dst |-> Default, gw |-> "none", dev |-> "blackhole", metric |-> 0]

=============================================================================
