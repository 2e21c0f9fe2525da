---------------------------- MODULE MCLinuxVpn ----------------------------
(***************************************************************************)
(* Small hosts and command lines for LinuxVpn: the provider's endpoints,   *)
(* the DNS resolver, a LAN host, two sites the user names, and one address *)
(* in each half of the address space that nobody names.                    *)
(***************************************************************************)
EXTENDS LinuxVpn

MCAddr == {"api", "conn", "res", "lan", "web", "site", "near", "far"}
MCLowHalf == {"api", "res", "lan", "near"}
MCDevice == {"eth0", "wlan0", "ppp0"}
MCGateway == {"gw", "wgw"}
\* Both URLs may resolve to the same address: it is then recorded twice.
MCAnswer == [api |-> <<{"api"}>>, connect |-> <<{"conn"}, {"api"}>>]

Lan == {"lan", "res"}
R(dst, gw, dev, metric) == [dst |-> dst, gw |-> gw, dev |-> dev, metric |-> metric]
LanRoute == R(Lan, "none", "eth0", 100)

Eth  == {R(MCAddr, "gw", "eth0", 100), LanRoute}
Two  == Eth \cup {R(MCAddr, "wgw", "wlan0", 600)}
Ppp  == {R(MCAddr, "none", "ppp0", 0), LanRoute}
Mix  == {R(MCAddr, "none", "ppp0", 0), R(MCAddr, "gw", "eth0", 100), LanRoute}
None == {LanRoute}

C(tun, socks, default, ks, excludes, extras, dns) ==
  [tun |-> tun, socks |-> socks, defaultRoute |-> default, killSwitch |-> ks,
   excludes |-> excludes, extras |-> extras, dns |-> dns]

TunLess == {C(FALSE, s, FALSE, FALSE, <<>>, <<>>, <<>>) : s \in BOOLEAN}
Plain   == C(TRUE, FALSE, TRUE, FALSE, <<{"site"}>>, <<{"web", "site"}>>, <<{"res"}>>)
Sealing == [Plain EXCEPT !.killSwitch = TRUE]
Routed  == C(TRUE, FALSE, FALSE, TRUE, <<{"site"}>>, <<{"site"}, MCLowHalf>>, <<{"res"}>>)

CleanConfigs == TunLess \cup {Plain, Routed}
AllConfigs   == CleanConfigs \cup {Sealing}
SealConfigs  == {Sealing}
\* --route names a prefix the host already routes.
ClashConfigs == {[Plain EXCEPT !.extras = <<Lan>>]}

\* Crashes and blocks that are refused; adds that are refused beside them; and
\* deletes, look-ups and listings that fail.
NoFaults    == {{}}
MCFaultSets == {{"tun", "crash", "renew", "blackhole"},
                {"link", "add", "crash", "renew", "blackhole"},
                {"link", "del", "dns", "list", "crash", "renew", "blackhole"}}

CleanHosts == {Eth, Two, Ppp, Mix, None}
EthHosts   == {Eth}
\* An interface configured by hand: its LAN route has metric 0.
ClashHosts == {{R(MCAddr, "gw", "eth0", 100), R(Lan, "none", "eth0", 0)}}
=============================================================================
