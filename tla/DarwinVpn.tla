------------------------------ MODULE DarwinVpn ------------------------------
(***************************************************************************)
(* `urnet-client vpn` on macOS: cmdVpn (vpn_darwin.go) and its route       *)
(* manager (routes_darwin.go), over several sessions on one host.          *)
(*                                                                         *)
(* The kernel keeps one route for a prefix, so the table is IpRoutes' with *)
(* every metric 0: an add to a taken prefix is "File exists", and `route   *)
(* delete` names the prefix alone.  Routes with -ifscope are kept apart:   *)
(* only sockets bound to the TUN look at them.                             *)
(*                                                                         *)
(* Statements that run one command each are a list, todo, worked off in    *)
(* order; the goroutine that ends the DNS bypass runs beside it.           *)
(* A definition Name_Word that stands before Name is a mutation of it.     *)
(***************************************************************************)
EXTENDS IpRoutes, Sequences, FiniteSets

CONSTANTS
  Configs,      \* the command lines tried
  HostTables,   \* the routing tables a session may find on the host
  Answer,       \* the /32s "api" and "connect" resolve to (--api_url, --connect_url)
  Resolvers,    \* the /32s of the host's own DNS resolvers
  FaultSets,    \* the combinations of failures tried
  MaxSessions   \* bound: how many times the client is started

\* "tun": no utun can be made; "get": `route get default` fails; "add": a `route`
\* command that adds or changes fails; "blackhole": the one of the kill switch; "del": a
\* `route delete` fails; "dns": lookups, scutil and networksetup fail; "crash": SIGKILL;
\* "renew": a DHCP lease is renewed.
FaultKinds == {"tun", "get", "add", "blackhole", "del", "dns", "crash", "renew"}

Config == [tun: BOOLEAN, socks: BOOLEAN, defaultRoute: BOOLEAN, killSwitch: BOOLEAN,
           excludes: Seq(Prefix), extras: Seq(Prefix), dns: Seq({Host(a) : a \in Addr}),
           service: BOOLEAN, bootstrap: {"bypass", "cache", "none"}]

ASSUME DarwinAssumption ==
  /\ Configs \subseteq Config
  /\ HostTables \subseteq SUBSET Route
  /\ \A t \in HostTables :
       /\ IsFiniteSet(t)
       /\ \A r, s \in t : (r.dst = s.dst => r = s) /\ r.metric = 0 /\ r.dev # "tun"
  /\ Answer \in [{"api", "connect"} -> Seq({Host(a) : a \in Addr})]
  /\ Resolvers \in Seq({Host(a) : a \in Addr})
  /\ FaultSets \subseteq SUBSET FaultKinds
  /\ MaxSessions \in Nat \ {0}

VARIABLES
  pc,         \* where cmdVpn is
  todo,       \* the commands still to be run, of the set-up or of Cleanup
  table,      \* the kernel's routing table
  scoped,     \* the routes scoped to the TUN
  dns,        \* the resolvers of the network service: "host", "client" or "empty"
  gw,         \* defGw, with the interface it is reached by
  rm,         \* what darwinRouteManager recorded
  job,        \* the goroutine that ends the DNS bypass
  cancelled,  \* ctx.Done() is closed
  cfg,        \* the command line, the same in every session
  faults,     \* the failures of this behaviour
  host,       \* the routing table before the first session
  before,     \* the routing table this session found
  sealed,     \* "blackhole default route installed" was announced, not lifted since
  sessions    \* sessions started so far

vars == <<pc, todo, table, scoped, dns, gw, rm, job, cancelled, cfg, faults, host, before, sealed,
          sessions>>
session == <<cancelled, cfg, faults, host, before, sessions>>

Terminal == {"exited", "failed", "crashed"}
NoGateway == [gw |-> "none", dev |-> "none"]
NoJob == [at |-> "off", todo |-> <<>>]
NewRouteManager == [ctrl |-> <<>>, dnsBypass |-> <<>>, exclude |-> <<>>, scopedExclude |-> <<>>,
                    split |-> <<>>, extra |-> <<>>, dnsTun |-> <<>>,
                    ks |-> FALSE, ksAdded |-> FALSE, dnsSet |-> FALSE]

Init ==
  /\ pc = "start" /\ todo = <<>>
  /\ cfg \in Configs /\ faults \in FaultSets
  /\ host \in HostTables /\ table = host /\ before = host
  /\ scoped = {} /\ dns = "host" /\ gw = NoGateway
  /\ rm = NewRouteManager /\ job = NoJob
  /\ cancelled = FALSE /\ sealed = FALSE /\ sessions = 1

(***************************************************************************)
(* The statements of cmdVpn between the detection of the gateway and       *)
(* vpnRunCore, as the list of what they do.                                *)
(***************************************************************************)
Each(op, dsts) == [i \in DOMAIN dsts |-> [op |-> op, dst |-> dsts[i]]]
Do(op) == <<[op |-> op, dst |-> {}]>>
When(condition, commands) == IF condition THEN commands ELSE <<>>

\* AddSplitDefault, AddScopedDefault: 0.0.0.0/1 and 128.0.0.0/1.
Halves == <<LowHalf, HighHalf>>

KnownGateway(g) == g.gw # "none"
KeepsDns == cfg.defaultRoute /\ cfg.bootstrap # "none"

\* Mutation: the tunnel takes the traffic before the endpoints have been looked up.
DefaultMode_SplitsFirst(g) ==
  When(cfg.killSwitch, When(KnownGateway(g), Do("ksDelete")) \o Do("ksAdd"))
    \o Each("split", Halves) \o Do("api") \o Do("connect") \o Each("exclude", cfg.excludes)

DefaultMode(g) ==
  When(cfg.killSwitch, When(KnownGateway(g), Do("ksDelete")) \o Do("ksAdd"))
    \o Do("api") \o Do("connect") \o Each("split", Halves) \o Each("exclude", cfg.excludes)

SocksMode ==
  When(cfg.extras = <<>> /\ cfg.excludes = <<>>, Each("scopedSplit", Halves))
    \o Each("scopedExclude", cfg.excludes)

\* --dns without the default route asks twice for each route through the TUN.
DnsMode(g) ==
  IF cfg.dns # <<>>
  THEN When(cfg.service, Do("setDns"))
         \o Each(IF KeepsDns THEN "dnsBypass" ELSE "dnsTun", cfg.dns)
         \o When(~cfg.defaultRoute, Each("dnsTun", cfg.dns))
  ELSE When(KeepsDns /\ KnownGateway(g), Do("resolvers"))

SetUp(g) ==
  When(cfg.defaultRoute, DefaultMode(g)) \o When(~cfg.defaultRoute /\ cfg.socks, SocksMode)
    \o Each("extra", cfg.extras) \o DnsMode(g)
    \o When(cfg.defaultRoute /\ cfg.bootstrap = "cache", Do("startCache"))

\* --tun=none: only the SOCKS server, no interface and no route.
StartWithoutTun ==
  /\ pc = "start" /\ ~cfg.tun
  /\ pc' \in IF cfg.socks THEN {"socksOnly", "failed"} ELSE {"exited"}
  /\ UNCHANGED <<session, todo, table, scoped, dns, gw, rm, job, sealed>>

\* A utun of the given name, or else of any name.
CreateTun ==
  /\ pc = "start" /\ cfg.tun
  /\ pc' \in {"detect"} \cup (IF "tun" \in faults THEN {"failed"} ELSE {})
  /\ UNCHANGED <<session, todo, table, scoped, dns, gw, rm, job, sealed>>

\* `route get default`: an on-link or a blackhole default has no gateway to tell.
DetectGateway ==
  /\ pc = "detect"
  /\ LET gated == {r \in Defaults(table, Device) : r.gw # "none"}
     IN  \/ (gated = {} \/ "get" \in faults) /\ gw' = NoGateway
         \/ \E r \in gated : gw' = [gw |-> r.gw, dev |-> r.dev]
  /\ rm' = NewRouteManager
  /\ todo' = SetUp(gw') /\ pc' = "setup"
  /\ UNCHANGED <<session, table, scoped, dns, job, sealed>>

(***************************************************************************)
(* One command of the list.                                                *)
(***************************************************************************)
At(op) == todo # <<>> /\ Head(todo).op = op
Done(then) == todo' = then \o Tail(todo)
dst == Head(todo).dst

ViaGateway(d) == [dst |-> d, gw |-> gw.gw, dev |-> gw.dev, metric |-> 0]
ToTun(d)      == [dst |-> d, gw |-> "none", dev |-> "tun", metric |-> 0]
Reject(d)     == [dst |-> d, gw |-> "none", dev |-> "unreachable", metric |-> 0]
Exists(d)     == Matching(table, d) # {}
Record(list)  == rm' = [rm EXCEPT ![list] = Append(@, dst)]
MayFail       == "add" \in faults

\* `route delete` of a prefix: it may fail, and no caller looks at its error.
DeleteRoute(d) ==
  \/ table' = table \ Matching(table, d)
  \/ "del" \in faults /\ UNCHANGED table

\* `route delete` and `route add -blackhole default`; no way back when the second fails.
KsDelete ==
  /\ At("ksDelete") /\ Done(<<>>)
  /\ DeleteRoute(Default)
  /\ rm' = [rm EXCEPT !.ks = TRUE]
  /\ UNCHANGED <<session, pc, scoped, dns, gw, job, sealed>>

KsAdd ==
  /\ At("ksAdd") /\ Done(<<>>)
  /\ \/ /\ ~Exists(Default)
        /\ table' = table \cup {BlackholeDefault}
        /\ rm' = [rm EXCEPT !.ks = TRUE, !.ksAdded = TRUE] /\ sealed' = TRUE
     \/ /\ Exists(Default) \/ "blackhole" \in faults
        /\ rm' = [rm EXCEPT !.ks = TRUE] /\ UNCHANGED <<table, sealed>>
  /\ UNCHANGED <<session, pc, scoped, dns, gw, job>>

\* AddBypassEndpoint: the lookup is answered only when the resolvers are reached through
\* a physical interface, for the tunnel carries nothing yet.
Reachable(d) == \A a \in d : GoesTo(table, a, Device)

LookupEndpoint ==
  /\ \E h \in {"api", "connect"} :
       /\ At(h)
       /\ \/ /\ KnownGateway(gw) /\ \E i \in DOMAIN Resolvers : Reachable(Resolvers[i])
             /\ Done(Each("ctrl", Answer[h]))
          \/ /\ \/ ~KnownGateway(gw) \/ "dns" \in faults
                \/ \A i \in DOMAIN Resolvers : ~Reachable(Resolvers[i])
             /\ Done(<<>>)
  /\ UNCHANGED <<session, pc, table, scoped, dns, gw, rm, job, sealed>>

\* Mutation: a route that exists already is recorded as if it had been added.
AddRecorded_AlsoExisting ==
  /\ \E list \in {"ctrl", "dnsBypass", "dnsTun"} :
       /\ At(list) /\ Done(<<>>)
       /\ LET r == IF list = "dnsTun" THEN ToTun(dst) ELSE ViaGateway(dst)
          IN  /\ table' = Add(table, r)
              /\ Record(list)
  /\ UNCHANGED <<session, pc, scoped, dns, gw, job, sealed>>

\* The last statement of AddBypassEndpoint, and AddDNSServerRoutes: a route is recorded
\* when the command succeeds, not when it is refused; no bypass without a gateway.
AddRecorded ==
  /\ \E list \in {"ctrl", "dnsBypass", "dnsTun"} :
       /\ At(list) /\ Done(<<>>)
       /\ LET r == IF list = "dnsTun" THEN ToTun(dst) ELSE ViaGateway(dst)
          IN  \/ /\ ~Exists(dst) /\ (list = "dnsTun" \/ KnownGateway(gw))
                 /\ table' = Add(table, r) /\ Record(list)
              \/ /\ Exists(dst) \/ (list # "dnsTun" /\ ~KnownGateway(gw)) \/ MayFail
                 /\ UNCHANGED <<table, rm>>
  /\ UNCHANGED <<session, pc, scoped, dns, gw, job, sealed>>

\* Via the gateway, or else a reject route; nothing is recorded when the prefix is taken.
AddExclude ==
  /\ At("exclude") /\ Done(<<>>)
  /\ \/ /\ ~Exists(dst)
        /\ \/ KnownGateway(gw) /\ table' = Add(table, ViaGateway(dst))
           \/ (~KnownGateway(gw) \/ MayFail) /\ table' = Add(table, Reject(dst))
        /\ Record("exclude")
     \/ (Exists(dst) \/ MayFail) /\ UNCHANGED <<table, rm>>
  /\ UNCHANGED <<session, pc, scoped, dns, gw, job, sealed>>

\* Recorded also when the prefix is taken; on any other failure a scoped route is tried.
AddExtraRoute ==
  /\ At("extra") /\ Done(<<>>)
  /\ \/ table' = Add(table, ToTun(dst)) /\ Record("extra") /\ UNCHANGED scoped
     \/ /\ MayFail /\ ~Exists(dst)
        /\ \/ scoped' = scoped \cup {ToTun(dst)} /\ Record("extra")
           \/ UNCHANGED <<scoped, rm>>
        /\ UNCHANGED table
  /\ UNCHANGED <<session, pc, dns, gw, job, sealed>>

\* Mutation: only the variants with -ifscope.
AddSplitDefault_OnlyScoped ==
  /\ At("split") /\ Done(<<>>)
  /\ scoped' = scoped \cup {ToTun(dst)} /\ Record("split")
  /\ UNCHANGED <<session, pc, table, dns, gw, job, sealed>>

\* addVariant: an unscoped route, added or changed, else a scoped one, else a warning.
AddSplitDefault ==
  /\ At("split") /\ Done(<<>>)
  /\ \/ /\ table' = (table \ Matching(table, dst)) \cup {ToTun(dst)}
        /\ Record("split") /\ UNCHANGED scoped
     \/ /\ MayFail
        /\ \/ scoped' = scoped \cup {ToTun(dst)} /\ Record("split")
           \/ UNCHANGED <<scoped, rm>>
        /\ UNCHANGED table
  /\ UNCHANGED <<session, pc, dns, gw, job, sealed>>

\* Mutation: without -ifscope.
AddScoped_Unscoped ==
  /\ \E list \in {"split", "scopedExclude"} :
       /\ At(IF list = "split" THEN "scopedSplit" ELSE list) /\ Done(<<>>)
       /\ table' = Add(table, IF list = "split" THEN ToTun(dst) ELSE Reject(dst)) /\ Record(list)
  /\ UNCHANGED <<session, pc, scoped, dns, gw, job, sealed>>

\* AddScopedDefault and AddScopedExclude: a scoped prefix is taken only by our own route.
AddScoped ==
  /\ \E list \in {"split", "scopedExclude"} :
       /\ At(IF list = "split" THEN "scopedSplit" ELSE list) /\ Done(<<>>)
       /\ \/ /\ Matching(scoped, dst) = {}
             /\ scoped' = scoped \cup {IF list = "split" THEN ToTun(dst) ELSE Reject(dst)}
             /\ Record(list)
          \/ (MayFail \/ Matching(scoped, dst) # {}) /\ UNCHANGED <<scoped, rm>>
  /\ UNCHANGED <<session, pc, table, dns, gw, job, sealed>>

\* `networksetup -setdnsservers`.
SetDNS ==
  /\ At("setDns") /\ Done(<<>>)
  /\ \/ dns' = "client" /\ rm' = [rm EXCEPT !.dnsSet = TRUE]
     \/ "dns" \in faults /\ UNCHANGED <<dns, rm>>
  /\ UNCHANGED <<session, pc, table, scoped, gw, job, sealed>>

\* getSystemDNSResolvers.
SystemResolvers ==
  /\ At("resolvers")
  /\ \/ Done(Each("dnsBypass", Resolvers))
     \/ "dns" \in faults /\ Done(<<>>)
  /\ UNCHANGED <<session, pc, table, scoped, dns, gw, rm, job, sealed>>

StartCache ==
  /\ At("startCache") /\ Done(<<>>)
  /\ job' = [at |-> "wait", todo |-> <<>>]
  /\ UNCHANGED <<session, pc, table, scoped, dns, gw, rm, sealed>>

CoreStarts ==
  /\ pc = "setup" /\ todo = <<>>
  /\ pc' = "running"
  /\ UNCHANGED <<session, todo, table, scoped, dns, gw, rm, job, sealed>>

(***************************************************************************)
(* The goroutine: packets went both ways or three seconds have passed;     *)
(* neither the context nor Cleanup stops it.                               *)
(***************************************************************************)
CacheOver ==
  /\ job.at = "wait"
  /\ job' = [at |-> "remove", todo |-> rm.dnsBypass]
  /\ UNCHANGED <<session, pc, todo, table, scoped, dns, gw, rm, sealed>>

\* Mutation: the list is emptied first and then ranged over.
RemoveDNSBypass_ClearsFirst ==
  /\ job.at = "remove"
  /\ rm' = [rm EXCEPT !.dnsBypass = <<>>] /\ job' = [at |-> "done", todo |-> <<>>]
  /\ UNCHANGED <<session, pc, todo, table, scoped, dns, gw, sealed>>

\* The record goes also when a delete failed.
RemoveDNSBypass ==
  /\ job.at = "remove"
  /\ IF job.todo # <<>>
     THEN /\ DeleteRoute(Head(job.todo))
          /\ job' = [job EXCEPT !.todo = Tail(@)] /\ UNCHANGED rm
     ELSE /\ rm' = [rm EXCEPT !.dnsBypass = <<>>]
          /\ job' = [at |-> "done", todo |-> <<>>] /\ UNCHANGED table
  /\ UNCHANGED <<session, pc, todo, scoped, dns, gw, sealed>>

(***************************************************************************)
(* vpnRunCore returns; Cleanup and dev.Close are deferred.                 *)
(***************************************************************************)
\* The DNS bypass routes are read when their loop is reached.
CleanUp ==
  Each("del", rm.split) \o Each("del", rm.exclude) \o Each("del", rm.scopedExclude)
    \o Each("del", rm.ctrl) \o Do("delDns") \o Each("del", rm.extra) \o Each("del", rm.dnsTun)
    \o When(rm.dnsSet, Do("clearDns")) \o Do("down") \o Do("default")

CtxDone ==
  /\ pc \in {"running", "socksOnly"} /\ cancelled
  /\ IF pc = "running" THEN pc' = "cleanup" /\ todo' = CleanUp
     ELSE pc' = "exited" /\ UNCHANGED todo
  /\ UNCHANGED <<session, table, scoped, dns, gw, rm, job, sealed>>

DeleteDNSBypass ==
  /\ At("delDns") /\ Done(Each("del", rm.dnsBypass))
  /\ UNCHANGED <<session, pc, table, scoped, dns, gw, rm, job, sealed>>

\* Mutation: the list does not advance.
DeleteRecorded_Stuck ==
  /\ At("del")
  /\ DeleteRoute(dst)
  /\ UNCHANGED <<session, pc, todo, scoped, dns, gw, rm, job, sealed>>

\* `route delete` names no interface: a scoped route is left to dev.Close.
DeleteRecorded ==
  /\ At("del") /\ Done(<<>>)
  /\ DeleteRoute(dst)
  /\ UNCHANGED <<session, pc, scoped, dns, gw, rm, job, sealed>>

\* `networksetup -setdnsservers service Empty`, whatever was set before the session; when
\* it fails a warning is all there is.
ClearDNS ==
  /\ At("clearDns") /\ Done(<<>>)
  /\ dns' = "empty" \/ ("dns" \in faults /\ UNCHANGED dns)
  /\ UNCHANGED <<session, pc, table, scoped, gw, rm, job, sealed>>

\* `ifconfig utun down`; whether its routes go now or with the device makes no odds.
TunDown ==
  /\ At("down") /\ Done(<<>>)
  /\ table' \in {table, Flush(table, "tun")}
  /\ UNCHANGED <<session, pc, scoped, dns, gw, rm, job, sealed>>

\* Mutation: the block is lifted at the end of the session, and the user told so.
CleanupDefault_Unseals ==
  /\ At("default") /\ Done(<<>>)
  /\ table' = table \ {BlackholeDefault} /\ sealed' = FALSE
  /\ UNCHANGED <<session, pc, scoped, dns, gw, rm, job>>

\* The blackhole stays in kill-switch mode; it is never added without.
CleanupDefault ==
  /\ At("default") /\ Done(<<>>)
  /\ IF rm.ksAdded /\ ~rm.ks
     THEN table' = (table \ Matching(table, Default))
                     \cup (IF KnownGateway(gw) THEN {ViaGateway(Default)} ELSE {})
     ELSE UNCHANGED table
  /\ UNCHANGED <<session, pc, scoped, dns, gw, rm, job, sealed>>

\* dev.Close() and the end of the process, which takes the goroutine with it.
CloseTun ==
  /\ pc = "cleanup" /\ todo = <<>>
  /\ pc' = "exited"
  /\ table' = Flush(table, "tun") /\ scoped' = {} /\ job' = NoJob
  /\ UNCHANGED <<session, todo, dns, gw, rm, sealed>>

(***************************************************************************)
(* The environment.                                                        *)
(***************************************************************************)
Signal ==
  /\ pc \notin Terminal /\ ~cancelled
  /\ cancelled' = TRUE
  /\ UNCHANGED <<pc, todo, table, scoped, dns, gw, rm, job, cfg, faults, host, before, sealed,
                 sessions>>

\* SIGKILL or a panic: the utun goes with the process, nothing else is undone.
Crash ==
  /\ "crash" \in faults /\ pc \notin Terminal \cup {"start"}
  /\ pc' = "crashed" /\ todo' = <<>> /\ job' = NoJob
  /\ table' = Flush(table, "tun") /\ scoped' = {}
  /\ UNCHANGED <<session, dns, gw, rm, sealed>>

\* The host adds its own default route again, unless something is in its place.
RenewDefault ==
  /\ "renew" \in faults
  /\ \E r \in Defaults(host, Device) : Add(table, r) # table /\ table' = Add(table, r)
  /\ UNCHANGED <<session, pc, todo, scoped, dns, gw, rm, job, sealed>>

\* The user follows the message: `route delete default && route add default <gateway>`.
LiftKillSwitch ==
  /\ pc \in Terminal /\ BlackholeDefault \in table
  /\ \E r \in Defaults(host, Device) : table' = Add(table \ {BlackholeDefault}, r)
  /\ sealed' = FALSE
  /\ UNCHANGED <<session, pc, todo, scoped, dns, gw, rm, job>>

Restart ==
  /\ pc \in Terminal /\ sessions < MaxSessions
  /\ pc' = "start" /\ before' = table /\ cancelled' = FALSE /\ sessions' = sessions + 1
  /\ UNCHANGED <<todo, table, scoped, dns, gw, rm, job, cfg, faults, host, sealed>>

\* The bound on sessions is reached: nothing is left to model.
Finished == pc \in Terminal /\ sessions = MaxSessions /\ UNCHANGED vars

Process ==
  \/ StartWithoutTun \/ CreateTun \/ DetectGateway
  \/ KsDelete \/ KsAdd \/ LookupEndpoint \/ AddRecorded \/ AddExclude \/ AddExtraRoute
  \/ AddSplitDefault \/ AddScoped \/ SetDNS \/ SystemResolvers \/ StartCache \/ CoreStarts
  \/ CtxDone \/ DeleteDNSBypass \/ DeleteRecorded \/ ClearDNS \/ TunDown \/ CleanupDefault
  \/ CloseTun

CacheJob == CacheOver \/ RemoveDNSBypass

Environment == Signal \/ Crash \/ RenewDefault \/ LiftKillSwitch \/ Restart \/ Finished

Next == Process \/ CacheJob \/ Environment

Spec == Init /\ [][Next]_vars

\* cmdVpn's statements and the goroutine run on, and the goroutine's deadline passes;
\* signals, crashes, restarts and the host's own changes are under no obligation.
FairSpec == Spec /\ WF_vars(Process) /\ WF_vars(CacheJob)

(***************************************************************************)
(* Properties.                                                             *)
(***************************************************************************)
Addresses(list) == UNION {list[i] : i \in DOMAIN list}
Endpoints  == Addresses(Answer["api"]) \cup Addresses(Answer["connect"])
DnsServers == Addresses(IF cfg.dns # <<>> THEN cfg.dns ELSE Resolvers)

\* What the client itself routes around the tunnel.
Around == Endpoints \cup Addresses(cfg.excludes) \cup (IF KeepsDns THEN DnsServers ELSE {})

\* What table t routes by more than the given general prefixes.
Specifics(t, general) == UNION {r.dst : r \in {s \in t : s.dst \notin general}}
General == {Default, LowHalf, HighHalf}

\* routes_darwin.go:15, "recorded so Cleanup can reverse them precisely": a session that
\* ends in order takes no route of the host's with it but the default in kill-switch mode;
\* and, whichever of its other commands failed and whenever the goroutine took the DNS
\* bypass away, it leaves none of its own but the blackhole where its deletes worked, nor
\* the client's resolvers where networksetup did.  Nobody looks at a delete that fails.
RestoresHost ==
  pc = "exited" =>
    LET sealing == cfg.defaultRoute /\ cfg.killSwitch
    IN  /\ (before \cap host) \ table \subseteq (IF sealing THEN Defaults(host, Device) ELSE {})
        /\ "del" \notin faults =>
             table \ before \subseteq
               Defaults(host, Device) \cup (IF sealing THEN {BlackholeDefault} ELSE {})
        /\ cfg.tun /\ "dns" \notin faults => dns # "client"

\* routes.go:11, "making it the effective default gateway": while a default-route session
\* runs whose commands worked, an address nobody routes more specifically goes into the tunnel.
TunnelsEverything ==
  pc = "running" /\ cfg.defaultRoute /\ "add" \notin faults =>
    \A a \in Addr \ (Around \cup Specifics(before, General)) : GoesTo(table, a, {"tun"})

\* routes.go:7, "so control-plane traffic bypasses the TUN": the endpoints are looked up
\* before the tunnel takes the traffic, so they go around it.  With the kill switch this
\* needs a resolver that is reached without the default route.
ControlPlaneBypassed ==
  /\ pc = "running" /\ cfg.defaultRoute /\ KnownGateway(gw) /\ faults \cap {"add", "dns"} = {}
  /\ cfg.killSwitch => Addresses(Resolvers) \cap Specifics(before, General) # {}
  => \A a \in Endpoints : GoesTo(table, a, Device)

\* command-reference.md:64 and vpn_darwin.go:146, "remove DNS bypass once the tunnel has
\* traffic": the servers are reached around the tunnel for as long as --dns_bootstrap says,
\* and through it from then on, unless somebody routes them by name.
DnsFollowsBootstrap ==
  /\ pc = "running" /\ cfg.defaultRoute /\ KnownGateway(gw)
  /\ faults \cap {"add", "del", "dns"} = {}
  => \A a \in DnsServers :
       CASE cfg.bootstrap = "bypass" \/ job.at = "wait" -> GoesTo(table, a, Device)
         [] cfg.bootstrap = "none" \/ job.at = "done" ->
              \/ a \in Endpoints \cup Addresses(cfg.excludes) \cup Specifics(before, General)
              \/ GoesTo(table, a, {"tun"})
         [] OTHER -> TRUE

\* routes_darwin.go:88, "Only SOCKS-bound sockets will use the TUN; system traffic keeps its
\* normal path": without --route and --dns a SOCKS-only session leaves the system's table
\* alone, and a bound socket finds the tunnel, or a reject route for an excluded prefix.
SocksOnlyScoped ==
  /\ pc = "running" /\ ~cfg.defaultRoute /\ cfg.socks
  /\ cfg.extras = <<>> /\ cfg.dns = <<>> /\ "add" \notin faults
  => /\ table = before
     /\ IF cfg.excludes = <<>> THEN \A a \in Addr : GoesTo(scoped, a, {"tun"})
        ELSE \A a \in Addresses(cfg.excludes) : GoesTo(scoped, a, {"unreachable"})

\* The addresses a sealed host may still send to a physical device.
Allowed == Around \cup Specifics(host, {Default})

SwitchPhase ==
  IF pc \in Terminal THEN "idle"
  ELSE IF rm.ksAdded /\ pc \notin {"start", "detect"} THEN "holding" ELSE "open"

Promise == INSTANCE KillSwitch WITH
  Address <- Addr,
  phase   <- SwitchPhase,
  leak    <- {a \in Addr \ Allowed : GoesTo(table, a, Device)}

\* The macOS route manager keeps the promise of KillSwitch over all its sessions.
KeepsPromise == Promise!Spec

\* A signal, whenever it comes, ends the session.
Terminates == cancelled ~> pc \in Terminal

\* vpn_darwin.go:149: three seconds after a cache session has started, no server is
\* routed around the tunnel any more for the sake of DNS, where the deletes worked; the
\* message says so in any case, and the record is gone.
BypassEnds ==
  job.at = "wait" /\ "del" \notin faults ~>
    \/ pc \in Terminal
    \/ \A a \in DnsServers \ (Endpoints \cup Addresses(cfg.excludes) \cup Specifics(before, General)) :
         Matching(table, Host(a)) = {}
=============================================================================
