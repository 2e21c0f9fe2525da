------------------------------ MODULE LinuxVpn ------------------------------
(***************************************************************************)
(* `urnet-client vpn` on Linux: cmdVpn (vpn_linux.go) and the route        *)
(* manager it drives (routes_linux.go), over several sessions on one host. *)
(* Every `ip` command is a step of its own, so a crash, a signal or a      *)
(* change made by the host can fall between any two of them.               *)
(* A definition Name_Word that stands before Name is a mutation of it: a   *)
(* mistake the code could have contained, which a property must catch.     *)
(***************************************************************************)
EXTENDS IpRoutes, Sequences, FiniteSets

CONSTANTS
  Configs,      \* the command lines tried
  HostTables,   \* the routing tables a session may find on the host
  Answer,       \* the /32s "api" and "connect" resolve to (--api_url, --connect_url)
  Resolver,     \* the address of the host's DNS resolver
  FaultSets,    \* the combinations of failures tried, subsets of FaultKinds
  MaxSessions   \* bound: how many times the client is started

FaultKinds == {"tun", "link", "add", "del", "blackhole", "dns", "list", "crash", "renew"}

Config == [tun: BOOLEAN, socks: BOOLEAN, defaultRoute: BOOLEAN, killSwitch: BOOLEAN,
           excludes: Seq(Prefix), extras: Seq(Prefix), dns: Seq(Prefix)]

ASSUME ConfigAssumption ==
  /\ Configs \subseteq Config
  /\ HostTables \subseteq SUBSET Route
  /\ Answer \in [{"api", "connect"} -> Seq({Host(a) : a \in Addr})]
  /\ FaultSets \subseteq SUBSET FaultKinds
  /\ MaxSessions \in Nat \ {0}

\* A host starts with one route per prefix and metric, none of them the client's.
ASSUME HostTablesAssumption ==
  \A t \in HostTables :
    /\ IsFiniteSet(t)
    /\ \A r, s \in t : r.dst = s.dst /\ r.metric = s.metric => r = s
    /\ \A r \in t : r.dev # "tun"

VARIABLES
  pc,         \* the next statement of cmdVpn or of the method it is in
  todo,       \* the elements the current loop has not reached
  hosts,      \* the URLs AddBypassEndpoint has not been called with
  table,      \* the kernel's routing table
  tunUp,      \* the TUN interface exists and is up
  orig,       \* origGw and origDev
  rm,         \* what linuxRouteManager recorded
  cancelled,  \* ctx.Done() is closed
  cfg,        \* the command line; the same in every session
  host,       \* the routing table before the first session
  faults,     \* the failures of this behaviour
  sealed,     \* "blackhole default route installed" was announced, not lifted since
  sessions    \* sessions started so far

vars == <<pc, todo, hosts, table, tunUp, orig, rm, cancelled, cfg, host, faults, sealed, sessions>>

\* newLinuxRouteManager: nothing recorded.
NewRouteManager == [bypass |-> <<>>, exclude |-> <<>>, extra |-> <<>>, dnsTun |-> <<>>,
                    splits |-> FALSE, ks |-> FALSE, ksAdded |-> FALSE]

RouteManager == [bypass: Seq(Prefix), exclude: Seq(Prefix), extra: Seq(Prefix),
                 dnsTun: Seq(Prefix), splits: BOOLEAN, ks: BOOLEAN, ksAdded: BOOLEAN]

AddLoops == {"bypass", "exclude", "extra", "dns"}
DelLoops == {"delBypass", "delExclude", "delExtra", "delDns"}
Terminal == {"exited", "failed", "crashed"}
Label == {"start", "socksOnly", "configure", "detect", "ksDel", "ksAdd", "ksRestore",
          "lookup", "splitLow", "splitHigh", "running", "cleanup", "delLow", "delHigh",
          "down", "default", "close"} \cup AddLoops \cup DelLoops \cup Terminal

Init ==
  /\ pc = "start" /\ todo = <<>> /\ hosts = <<>>
  /\ cfg \in Configs
  /\ host \in HostTables /\ table = host
  /\ faults \in FaultSets
  /\ tunUp = FALSE
  /\ orig = [gw |-> "none", dev |-> "none"]
  /\ rm = NewRouteManager
  /\ cancelled = FALSE /\ sealed = FALSE /\ sessions = 1

(***************************************************************************)
(* `ip` commands.  run() returns the command's error and almost every      *)
(* caller drops it; a command may fail although its arguments are right    *)
(* (Ctrl-C reaches the child too, netlink errors), which leaves the table  *)
(* as it was.                                                              *)
(***************************************************************************)
Outcomes(fault, t) == IF fault \in faults THEN {t, table} ELSE {t}

\* `ip route add dst via origGw dev origDev`, or without "via".
ViaOriginal(dst) == [dst |-> dst, gw |-> orig.gw, dev |-> orig.dev, metric |-> 0]

\* `ip route add dst dev tunName`: refused while the interface is down.
AddDevTun(dst) ==
  table' \in IF tunUp
             THEN Outcomes("add", Add(table, [dst |-> dst, gw |-> "none", dev |-> "tun", metric |-> 0]))
             ELSE {table}

\* `ip route del dst`.
DelPrefix(dst) == table' \in Outcomes("del", Delete(table, Matching(table, dst)))

(***************************************************************************)
(* Start of the session.                                                   *)
(***************************************************************************)
\* --tun=none: only the SOCKS server, no interface and no route.
StartWithoutTun ==
  /\ pc = "start" /\ ~cfg.tun
  /\ pc' \in IF cfg.socks THEN {"socksOnly", "failed"} ELSE {"exited"}
  /\ UNCHANGED <<todo, hosts, table, tunUp, orig, rm, cancelled, cfg, host, faults, sealed, sessions>>

CreateTun ==
  /\ pc = "start" /\ cfg.tun
  /\ pc' \in {"configure"} \cup (IF "tun" \in faults THEN {"failed"} ELSE {})
  /\ UNCHANGED <<todo, hosts, table, tunUp, orig, rm, cancelled, cfg, host, faults, sealed, sessions>>

ConfigureTun ==
  /\ pc = "configure"
  /\ tunUp' \in {TRUE} \cup (IF "link" \in faults THEN {FALSE} ELSE {})
  /\ pc' = "detect"
  /\ UNCHANGED <<todo, hosts, table, orig, rm, cancelled, cfg, host, faults, sealed, sessions>>

\* The default routes are listed by metric; the first wins, but one with a
\* gateway wins over one without.  A blackhole names no device and is skipped.
DetectGateway ==
  /\ pc = "detect"
  /\ LET listed == Defaults(table, Device)
         gated  == {r \in listed : r.gw # "none"}
         best   == IF gated # {} THEN gated ELSE listed
     IN  \/ /\ best = {} \/ "list" \in faults
            /\ orig' = [gw |-> "none", dev |-> "none"]
         \/ \E r \in best : /\ \A s \in best : r.metric <= s.metric
                             /\ orig' = [gw |-> r.gw, dev |-> r.dev]
  /\ rm' = NewRouteManager
  /\ pc' = IF ~cfg.defaultRoute THEN "extra" ELSE IF cfg.killSwitch THEN "ksDel" ELSE "lookup"
  /\ todo' = IF cfg.defaultRoute THEN <<>> ELSE cfg.extras
  /\ hosts' = IF cfg.defaultRoute THEN <<"api", "connect">> ELSE <<>>
  /\ UNCHANGED <<table, tunUp, cancelled, cfg, host, faults, sealed, sessions>>

(***************************************************************************)
(* AddKillSwitchRoute.                                                     *)
(***************************************************************************)
\* The original default is removed first; with no device known, any default is.
KsDelete ==
  /\ pc = "ksDel"
  /\ LET match == {r \in Matching(table, Default) :
                     /\ orig.dev # "none" => r.dev = orig.dev
                     /\ orig.dev # "none" /\ orig.gw # "none" => r.gw = orig.gw}
     IN  table' \in Outcomes("del", Delete(table, match))
  /\ sealed' = (sealed /\ BlackholeDefault \in table')
  /\ rm' = [rm EXCEPT !.ks = TRUE]
  /\ pc' = "ksAdd"
  /\ UNCHANGED <<todo, hosts, tunUp, orig, cancelled, cfg, host, faults, sessions>>

\* `ip route add blackhole default` succeeds.
KsAdd ==
  /\ pc = "ksAdd"
  /\ Matching(table, Default) \cap {r \in table : r.metric = 0} = {}
  /\ table' = Add(table, BlackholeDefault)
  /\ rm' = [rm EXCEPT !.ksAdded = TRUE]
  /\ sealed' = TRUE
  /\ pc' = "lookup"
  /\ UNCHANGED <<todo, hosts, tunUp, orig, cancelled, cfg, host, faults, sessions>>

\* It fails: a default of metric 0 is still there, or the command was killed.
KsAddFails ==
  /\ pc = "ksAdd"
  /\ \/ "blackhole" \in faults
     \/ \E r \in Matching(table, Default) : r.metric = 0
  /\ pc' = "ksRestore"
  /\ UNCHANGED <<todo, hosts, table, tunUp, orig, rm, cancelled, cfg, host, faults, sealed, sessions>>

\* Mutation: the default is put back whatever is known of it.
KsRestore_Unguarded ==
  /\ pc = "ksRestore"
  /\ table' \in Outcomes("add", Add(table, ViaOriginal(Default)))
  /\ pc' = "lookup"
  /\ UNCHANGED <<todo, hosts, tunUp, orig, rm, cancelled, cfg, host, faults, sealed, sessions>>

\* Mutation: nothing is put back.
KsRestore_Missing ==
  /\ pc = "ksRestore"
  /\ pc' = "lookup"
  /\ UNCHANGED <<todo, hosts, table, tunUp, orig, rm, cancelled, cfg, host, faults, sealed, sessions>>

\* "Restore original default": only when it had a gateway, and without its metric.
KsRestore ==
  /\ pc = "ksRestore"
  /\ IF orig.gw # "none" /\ orig.dev # "none"
     THEN table' \in Outcomes("add", Add(table, ViaOriginal(Default)))
     ELSE UNCHANGED table
  /\ pc' = "lookup"
  /\ UNCHANGED <<todo, hosts, tunUp, orig, rm, cancelled, cfg, host, faults, sealed, sessions>>

(***************************************************************************)
(* AddBypassEndpoint.  The lookup is answered only when the resolver is    *)
(* reached through a physical device: the tunnel carries nothing yet.      *)
(***************************************************************************)
\* Mutation: an on-link default counts as none.
LookupEndpoint_NeedsGateway ==
  /\ pc = "lookup" /\ hosts # <<>>
  /\ hosts' = Tail(hosts)
  /\ todo' \in IF orig.gw # "none" /\ GoesTo(table, Resolver, Device)
               THEN {Answer[Head(hosts)]} ELSE {<<>>}
  /\ pc' = "bypass"
  /\ UNCHANGED <<table, tunUp, orig, rm, cancelled, cfg, host, faults, sealed, sessions>>

LookupEndpoint ==
  /\ pc = "lookup" /\ hosts # <<>>
  /\ hosts' = Tail(hosts)
  /\ todo' \in IF orig.dev # "none" /\ GoesTo(table, Resolver, Device)
               THEN {Answer[Head(hosts)]} \cup (IF "dns" \in faults THEN {<<>>} ELSE {})
               ELSE {<<>>}
  /\ pc' = "bypass"
  /\ UNCHANGED <<table, tunUp, orig, rm, cancelled, cfg, host, faults, sealed, sessions>>

\* Mutation: a refused route is not recorded, though a crashed session left it.
AddBypass_RecordsOnSuccess ==
  /\ pc = "bypass" /\ todo # <<>>
  /\ table' \in Outcomes("add", Add(table, ViaOriginal(Head(todo))))
  /\ rm' = IF table' = table THEN rm ELSE [rm EXCEPT !.bypass = Append(@, Head(todo))]
  /\ todo' = Tail(todo)
  /\ UNCHANGED <<pc, hosts, tunUp, orig, cancelled, cfg, host, faults, sealed, sessions>>

AddBypass ==
  /\ pc = "bypass" /\ todo # <<>>
  /\ table' \in Outcomes("add", Add(table, ViaOriginal(Head(todo))))
  /\ rm' = [rm EXCEPT !.bypass = Append(@, Head(todo))]
  /\ todo' = Tail(todo)
  /\ UNCHANGED <<pc, hosts, tunUp, orig, cancelled, cfg, host, faults, sealed, sessions>>

(***************************************************************************)
(* AddSplitDefault, AddExclude, AddExtraRoute, AddDNSServerRoutes.         *)
(***************************************************************************)
AddSplitLow ==
  /\ pc = "splitLow"
  /\ AddDevTun(LowHalf)
  /\ pc' = "splitHigh"
  /\ UNCHANGED <<todo, hosts, tunUp, orig, rm, cancelled, cfg, host, faults, sealed, sessions>>

\* Mutation: the same half twice.
AddSplitHigh_LowTwice ==
  /\ pc = "splitHigh"
  /\ AddDevTun(LowHalf)
  /\ rm' = [rm EXCEPT !.splits = TRUE]
  /\ pc' = "exclude" /\ todo' = cfg.excludes
  /\ UNCHANGED <<hosts, tunUp, orig, cancelled, cfg, host, faults, sealed, sessions>>

AddSplitHigh ==
  /\ pc = "splitHigh"
  /\ AddDevTun(HighHalf)
  /\ rm' = [rm EXCEPT !.splits = TRUE]
  /\ pc' = "exclude" /\ todo' = cfg.excludes
  /\ UNCHANGED <<hosts, tunUp, orig, cancelled, cfg, host, faults, sealed, sessions>>

\* Without an original device the prefix is to become unreachable; `ip` takes
\* the words in that order or refuses them, according to its version.
AddExclude ==
  /\ pc = "exclude" /\ todo # <<>>
  /\ table' \in IF orig.dev # "none"
                THEN Outcomes("add", Add(table, ViaOriginal(Head(todo))))
                ELSE {table, Add(table, [dst |-> Head(todo), gw |-> "none",
                                         dev |-> "unreachable", metric |-> 0])}
  /\ rm' = [rm EXCEPT !.exclude = Append(@, Head(todo))]
  /\ todo' = Tail(todo)
  /\ UNCHANGED <<pc, hosts, tunUp, orig, cancelled, cfg, host, faults, sealed, sessions>>

AddExtraRoute ==
  /\ pc = "extra" /\ todo # <<>>
  /\ AddDevTun(Head(todo))
  /\ rm' = [rm EXCEPT !.extra = Append(@, Head(todo))]
  /\ todo' = Tail(todo)
  /\ UNCHANGED <<pc, hosts, tunUp, orig, cancelled, cfg, host, faults, sealed, sessions>>

AddDNSServerRoute ==
  /\ pc = "dns" /\ todo # <<>>
  /\ AddDevTun(Head(todo))
  /\ rm' = [rm EXCEPT !.dnsTun = Append(@, Head(todo))]
  /\ todo' = Tail(todo)
  /\ UNCHANGED <<pc, hosts, tunUp, orig, cancelled, cfg, host, faults, sealed, sessions>>

(***************************************************************************)
(* A loop ends and the next statement begins.                              *)
(***************************************************************************)
After == [bypass |-> "lookup", lookup |-> "splitLow", exclude |-> "extra",
          extra |-> "dns", dns |-> "running", delBypass |-> "delExclude",
          delExclude |-> "delExtra", delExtra |-> "delDns", delDns |-> "down"]

\* Mutation: Cleanup forgets the excludes.
LoopOver_SkipsExcludes(l) ==
  CASE l = "extra"      -> cfg.extras
    [] l = "dns"        -> IF cfg.defaultRoute THEN <<>> ELSE cfg.dns
    [] l = "delBypass"  -> rm.bypass
    [] l = "delExtra"   -> rm.extra
    [] l = "delDns"     -> rm.dnsTun
    [] OTHER            -> <<>>

\* What the loop at label l ranges over.
LoopOver(l) ==
  CASE l = "extra"      -> cfg.extras
    [] l = "dns"        -> IF cfg.defaultRoute THEN <<>> ELSE cfg.dns
    [] l = "delBypass"  -> rm.bypass
    [] l = "delExclude" -> rm.exclude
    [] l = "delExtra"   -> rm.extra
    [] l = "delDns"     -> rm.dnsTun
    [] OTHER            -> <<>>

LoopEnds ==
  /\ pc \in AddLoops \cup DelLoops \cup {"lookup"}
  /\ todo = <<>>
  /\ pc = "lookup" => hosts = <<>>
  /\ pc' = After[pc] /\ todo' = LoopOver(After[pc])
  /\ UNCHANGED <<hosts, table, tunUp, orig, rm, cancelled, cfg, host, faults, sealed, sessions>>

(***************************************************************************)
(* End of the session: vpnRunCore returns, the deferred calls run.         *)
(***************************************************************************)
CtxDone ==
  /\ pc \in {"running", "socksOnly"} /\ cancelled
  /\ pc' = IF pc = "running" THEN "cleanup" ELSE "exited"
  /\ UNCHANGED <<todo, hosts, table, tunUp, orig, rm, cancelled, cfg, host, faults, sealed, sessions>>

CleanupStarts ==
  /\ pc = "cleanup"
  /\ pc' = IF rm.splits THEN "delLow" ELSE "delBypass"
  /\ todo' = IF rm.splits THEN <<>> ELSE rm.bypass
  /\ UNCHANGED <<hosts, table, tunUp, orig, rm, cancelled, cfg, host, faults, sealed, sessions>>

DelSplitLow ==
  /\ pc = "delLow"
  /\ DelPrefix(LowHalf)
  /\ pc' = "delHigh"
  /\ UNCHANGED <<todo, hosts, tunUp, orig, rm, cancelled, cfg, host, faults, sealed, sessions>>

DelSplitHigh ==
  /\ pc = "delHigh"
  /\ DelPrefix(HighHalf)
  /\ pc' = "delBypass" /\ todo' = rm.bypass
  /\ UNCHANGED <<hosts, tunUp, orig, rm, cancelled, cfg, host, faults, sealed, sessions>>

\* Mutation: the loop does not advance.
DelRecorded_Stuck ==
  /\ pc \in DelLoops /\ todo # <<>>
  /\ DelPrefix(Head(todo))
  /\ UNCHANGED <<pc, todo, hosts, tunUp, orig, rm, cancelled, cfg, host, faults, sealed, sessions>>

\* One iteration of any of Cleanup's four loops.
DelRecorded ==
  /\ pc \in DelLoops /\ todo # <<>>
  /\ DelPrefix(Head(todo))
  /\ todo' = Tail(todo)
  /\ UNCHANGED <<pc, hosts, tunUp, orig, rm, cancelled, cfg, host, faults, sealed, sessions>>

\* `ip link set tunName down`, `ip addr flush dev tunName`.
TunDown ==
  /\ pc = "down"
  /\ \/ tunUp' = FALSE /\ table' = Flush(table, "tun")
     \/ "del" \in faults /\ UNCHANGED <<tunUp, table>>
  /\ pc' = "default"
  /\ UNCHANGED <<todo, hosts, orig, rm, cancelled, cfg, host, faults, sealed, sessions>>

\* Mutation: Cleanup lifts the block of its own session, and owns up to it.
CleanupDefault_Unseals ==
  /\ pc = "default"
  /\ table' = table \ {BlackholeDefault}
  /\ sealed' = FALSE
  /\ pc' = "close"
  /\ UNCHANGED <<todo, hosts, tunUp, orig, rm, cancelled, cfg, host, faults, sessions>>

\* Mutation: the mode is not looked at.
CleanupDefault_IgnoresKillSwitch ==
  /\ pc = "default"
  /\ IF rm.ksAdded
     THEN LET without == table \ {BlackholeDefault}
          IN  table' = IF orig.gw # "none" /\ orig.dev # "none"
                       THEN Add(without, ViaOriginal(Default)) ELSE without
     ELSE UNCHANGED table
  /\ pc' = "close"
  /\ UNCHANGED <<todo, hosts, tunUp, orig, rm, cancelled, cfg, host, faults, sealed, sessions>>

\* The blackhole is kept in kill-switch mode; otherwise it would be removed
\* and the original default put back.
CleanupDefault ==
  /\ pc = "default"
  /\ IF rm.ksAdded /\ ~rm.ks
     THEN LET without == table \ {BlackholeDefault}
          IN  table' = IF orig.gw # "none" /\ orig.dev # "none"
                       THEN Add(without, ViaOriginal(Default)) ELSE without
     ELSE UNCHANGED table
  /\ pc' = "close"
  /\ UNCHANGED <<todo, hosts, tunUp, orig, rm, cancelled, cfg, host, faults, sealed, sessions>>

\* dev.Close(): the interface goes away, with any route still through it.
CloseTun ==
  /\ pc = "close"
  /\ tunUp' = FALSE /\ table' = Flush(table, "tun")
  /\ pc' = "exited"
  /\ UNCHANGED <<todo, hosts, orig, rm, cancelled, cfg, host, faults, sealed, sessions>>

(***************************************************************************)
(* The environment.                                                        *)
(***************************************************************************)
\* SIGINT or SIGTERM: only vpnRunCore's wait looks at the context.
Signal ==
  /\ pc \notin Terminal /\ ~cancelled
  /\ cancelled' = TRUE
  /\ UNCHANGED <<pc, todo, hosts, table, tunUp, orig, rm, cfg, host, faults, sealed, sessions>>

\* SIGKILL or a panic: the kernel removes the TUN device, nothing else is undone.
Crash ==
  /\ "crash" \in faults
  /\ pc \notin Terminal \cup {"start"}
  /\ pc' = "crashed" /\ todo' = <<>> /\ hosts' = <<>>
  /\ tunUp' = FALSE /\ table' = Flush(table, "tun")
  /\ UNCHANGED <<orig, rm, cancelled, cfg, host, faults, sealed, sessions>>

\* The interface is taken down from outside while the client runs.
TunLost ==
  /\ "link" \in faults
  /\ tunUp
  /\ tunUp' = FALSE /\ table' = Flush(table, "tun")
  /\ UNCHANGED <<pc, todo, hosts, orig, rm, cancelled, cfg, host, faults, sealed, sessions>>

\* A DHCP lease is renewed: the host adds its own default route again.
RenewDefault ==
  /\ "renew" \in faults
  /\ \E r \in Defaults(host, Device) :
       /\ Add(table, r) # table
       /\ table' = Add(table, r)
  /\ UNCHANGED <<pc, todo, hosts, tunUp, orig, rm, cancelled, cfg, host, faults, sealed, sessions>>

\* The user follows the message Cleanup prints: `ip route del blackhole default
\* && ip route add default via <gateway>`.
LiftKillSwitch ==
  /\ pc \in Terminal /\ BlackholeDefault \in table
  /\ \E r \in Defaults(host, Device) : table' = Add(table \ {BlackholeDefault}, r)
  /\ sealed' = FALSE
  /\ UNCHANGED <<pc, todo, hosts, tunUp, orig, rm, cancelled, cfg, host, faults, sessions>>

Restart ==
  /\ pc \in Terminal /\ sessions < MaxSessions
  /\ sessions' = sessions + 1
  /\ pc' = "start" /\ todo' = <<>> /\ hosts' = <<>> /\ cancelled' = FALSE
  /\ UNCHANGED <<table, tunUp, orig, rm, cfg, host, faults, sealed>>

\* The bound on sessions is reached: nothing is left to model.
Finished == pc \in Terminal /\ sessions = MaxSessions /\ UNCHANGED vars

Process ==
  \/ StartWithoutTun \/ CreateTun \/ ConfigureTun \/ DetectGateway
  \/ KsDelete \/ KsAdd \/ KsAddFails \/ KsRestore
  \/ LookupEndpoint \/ AddBypass \/ AddSplitLow \/ AddSplitHigh
  \/ AddExclude \/ AddExtraRoute \/ AddDNSServerRoute \/ LoopEnds
  \/ CtxDone \/ CleanupStarts \/ DelSplitLow \/ DelSplitHigh \/ DelRecorded
  \/ TunDown \/ CleanupDefault \/ CloseTun

Environment ==
  \/ Signal \/ Crash \/ TunLost \/ RenewDefault \/ LiftKillSwitch \/ Restart \/ Finished

Next == Process \/ Environment

Spec == Init /\ [][Next]_vars

\* The client's own statements do not stop half-way; signals, crashes, restarts
\* and the host's own changes are under no obligation.
FairSpec == Spec /\ WF_vars(Process)

(***************************************************************************)
(* Properties.                                                             *)
(***************************************************************************)
\* Every variable keeps its type; a route never names a missing device.
TypeOK ==
  /\ pc \in Label
  /\ todo \in Seq(Prefix)
  /\ hosts \in Seq({"api", "connect"})
  /\ table \subseteq Route
  /\ tunUp \in BOOLEAN /\ cancelled \in BOOLEAN /\ sealed \in BOOLEAN
  /\ orig \in [gw: Gateway \cup {"none"}, dev: Device \cup {"none"}]
  /\ rm \in RouteManager
  /\ cfg \in Configs /\ host \in HostTables /\ faults \in FaultSets
  /\ sessions \in 1..MaxSessions

\* AddBypassEndpoint's early return: without a device there is nothing to add; and
\* AddKillSwitchRoute's first statement.
TypeInv == /\ TypeOK
           /\ pc = "bypass" /\ todo # <<>> => orig.dev # "none"
           /\ pc = "ksAdd" => rm.ks

EndpointAddrs == UNION {UNION {Answer[h][i] : i \in DOMAIN Answer[h]} : h \in {"api", "connect"}}

\* What the client itself routes around the tunnel.
Around == EndpointAddrs \cup UNION {cfg.excludes[i] : i \in DOMAIN cfg.excludes}

\* What the host routes by more than one of the given general prefixes.
HostRouted(general) == UNION {r.dst : r \in {s \in host : s.dst \notin general}}

\* The addresses a sealed host may still send to a physical device.
Allowed == Around \cup HostRouted({Default})

\* routes_linux.go:64 and :164, "all traffic is blocked until you run": once the
\* blackhole is announced, whatever crashes, is signalled, restarts or renews a
\* lease, no address outside Allowed is ever routed to a physical device.
KillSwitchSeals ==
  sealed => \A a \in Addr \ Allowed : ~GoesTo(table, a, Device)

\* How far the running session is with the switch.
SwitchPhase ==
  IF pc \in Terminal THEN "idle"
  ELSE IF rm.ksAdded /\ pc \notin {"start", "configure", "detect"} THEN "holding" ELSE "open"

Promise == INSTANCE KillSwitch WITH
  Address <- Addr,
  phase   <- SwitchPhase,
  leak    <- {a \in Addr \ Allowed : GoesTo(table, a, Device)}

\* The route manager keeps the promise of KillSwitch over all its sessions: no step
\* of a session that announced the block, and none of its end, takes it away.
KeepsPromise == Promise!Spec

\* Prefixes that `ip route del` cannot confuse with the blackhole.
Specific == Prefix \ {Default}

\* No list of prefixes on a command line names the whole address space: the
\* condition under which the kill switch seals.  With --route=0.0.0.0/0 the add is
\* refused but recorded, and Cleanup's `ip route del 0.0.0.0/0` takes the blackhole.
ListsOmitDefault ==
  \A c \in Configs : /\ c.excludes \in Seq(Specific)
                     /\ c.extras \in Seq(Specific)
                     /\ c.dns \in Seq(Specific)

\* A prefix has one route per metric, so nothing shares the blackhole's place.
OneRoutePerMetric(t) == \A r, s \in t : r.dst = s.dst /\ r.metric = s.metric => r = s

\* Every route to a device is the host's, or one the user asked for.
OnlyAllowed(t) == \A r \in t : r.dev \in Device => r.dst = Default \/ r.dst \subseteq Allowed

\* What Cleanup deletes by prefix alone never names the default.
RecordsSpecific == /\ rm.bypass \in Seq(Specific) /\ rm.exclude \in Seq(Specific)
                   /\ rm.extra \in Seq(Specific) /\ rm.dnsTun \in Seq(Specific)

\* Why KillSwitchSeals holds: an announced blackhole stays in the table, and
\* whatever else the table sends to a device is allowed.
SealInv ==
  /\ sealed => BlackholeDefault \in table
  /\ OneRoutePerMetric(table)
  /\ OnlyAllowed(table)
  /\ RecordsSpecific /\ todo \in Seq(Specific)
  /\ pc \in {"bypass", "exclude"} => todo \in Seq(SUBSET Around)
  /\ rm.ksAdded => rm.ks

\* routes_linux.go:10 and routes.go:4, "Cleanup undoes all of it": after an exit
\* that ran Cleanup, even one that follows a crashed session, the host's table is
\* what it was.  Kill-switch mode trades the default for a blackhole, or puts it
\* back without its metric when the blackhole could not be installed; and a session
\* that finds no default, since a crashed one sealed the host, clears up less.  What
\* a delete, a look-up or a listing that fails leaves behind is left out.
RestoresHostRoutes ==
  pc = "exited" /\ faults \cap {"del", "dns", "list"} = {} =>
    IF cfg.defaultRoute /\ cfg.killSwitch
    THEN orig.dev # "none" \/ Defaults(host, Device) = {} =>
           /\ table \ host \subseteq {BlackholeDefault, ViaOriginal(Default)}
           /\ host \ table \subseteq Defaults(host, Device)
    ELSE table = host

\* routes.go:12, "making it the effective default gateway": while a default-route
\* session runs whose interface is up and whose adds were carried out, every address
\* that neither the client nor a host route more specific than half of the address
\* space lets around goes into the tunnel.
TunnelsEverything ==
  pc = "running" /\ cfg.defaultRoute /\ faults \cap {"add", "link"} = {} =>
    \A a \in Addr \ (Around \cup HostRouted({Default, LowHalf, HighHalf})) :
      GoesTo(table, a, {"tun"})

\* routes.go:7, "so control-plane traffic bypasses the TUN": while such a session
\* runs on a host that had a default route, the endpoints go around the tunnel,
\* provided that they were looked up and that routes are added and deleted.
ControlPlaneBypassed ==
  /\ pc = "running" /\ cfg.defaultRoute /\ orig.dev # "none"
  /\ faults \cap {"add", "del", "dns", "list"} = {}
  => \A a \in EndpointAddrs : GoesTo(table, a, Device)

\* routes_linux.go:83, "restore original default so connectivity isn't broken": a
\* session whose kill switch could not be installed leaves a default route that goes
\* out, if the one it removed had a gateway (only then is it put back).  Not on a host
\* where the blackhole of an earlier session stands: there the add and the restore
\* are both refused, and only the default that a renewed lease brought is gone.
ConnectivityKept ==
  /\ pc = "running" /\ rm.ks /\ ~rm.ksAdded /\ orig.gw # "none" /\ "add" \notin faults
  /\ Defaults(table, {"blackhole"}) = {}
  => Defaults(table, Device) # {}

\* vpn_core.go:275 and the deferred calls of cmdVpn: a signal, whenever it comes,
\* ends the session.
Terminates == cancelled ~> pc \in Terminal
=============================================================================
