---------------------------- MODULE MCDarwinVpn ----------------------------
(***************************************************************************)
(* Small hosts and command lines for DarwinVpn: the two endpoints, the     *)
(* host's resolver, a public one the user names, a LAN host, a site the    *)
(* user names, and an address in each half that nobody names.              *)
(***************************************************************************)
EXTENDS DarwinVpn

MCAddr == {"api", "conn", "res", "pub", "lan", "site", "near", "far"}
MCLowHalf == {"api", "res", "lan", "near"}
MCDevice == {"en0", "ppp0"}
MCGateway == {"gw"}
MCAnswer == [api |-> <<{"api"}>>, connect |-> <<{"conn"}, {"api"}>>]
MCResolvers == <<{"res"}>>

R(d, g, dev) == [dst |-> d, gw |-> g, dev |-> dev, metric |-> 0]
DefaultRoute == R(MCAddr, "gw", "en0")

\* The resolver beyond the gateway, on the LAN, or with a route of its own; no gateway.
Far    == {DefaultRoute, R({"lan"}, "none", "en0")}
Near   == {DefaultRoute, R({"lan", "res"}, "none", "en0")}
Own    == {DefaultRoute, R({"res"}, "none", "en0"), R({"site"}, "gw", "en0")}
OnLink == {R(MCAddr, "none", "ppp0"), R({"lan", "res"}, "none", "en0")}

MCHosts == {Far, Near, Own, OnLink}

Plain == [tun |-> TRUE, socks |-> FALSE, defaultRoute |-> TRUE, killSwitch |-> FALSE,
          excludes |-> <<{"site"}>>, extras |-> <<>>, dns |-> <<>>, service |-> FALSE,
          bootstrap |-> "bypass"]
Split == [Plain EXCEPT !.defaultRoute = FALSE, !.socks = TRUE, !.excludes = <<>>]

MCConfigs ==
  { Plain, [Plain EXCEPT !.bootstrap = "none"],
    [Plain EXCEPT !.bootstrap = "cache", !.dns = <<{"pub"}, {"near"}>>, !.service = TRUE],
    [Plain EXCEPT !.bootstrap = "cache"],
    [Plain EXCEPT !.killSwitch = TRUE, !.bootstrap = "cache"],
    Split, [Split EXCEPT !.tun = FALSE], [Split EXCEPT !.tun = FALSE, !.socks = FALSE],
    [Split EXCEPT !.excludes = <<{"near"}, {"near"}>>],
    [Split EXCEPT !.socks = FALSE, !.extras = <<{"pub"}, {"near", "pub"}>>, !.dns = <<{"pub"}>>,
                  !.service = TRUE] }

\* A lease renewed; commands of the set-up that fail; lookups; deletes.
MCFaultSets == {{"tun", "crash", "renew"}, {"get", "add", "blackhole"}, {"dns", "crash"},
                {"del", "crash"}}
=============================================================================
