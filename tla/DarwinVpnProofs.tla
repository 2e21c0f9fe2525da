--------------------------- MODULE DarwinVpnProofs ---------------------------
(***************************************************************************)
(* Theorems about DarwinVpn, for every set of command lines, host tables,  *)
(* faults and number of sessions.                                          *)
(***************************************************************************)
EXTENDS DarwinVpn, IpRoutesProofs, SequenceTheorems

Specific   == Prefix \ {Default}
HostPrefix == {Host(a) : a \in Addr}

\* No list of prefixes on a command line names the whole address space: with
\* --route=0.0.0.0/0 the add is refused but recorded, and Cleanup's `route delete`
\* takes the blackhole.
ListsOmitDefault ==
  \A c \in Configs : c.excludes \in Seq(Specific) /\ c.extras \in Seq(Specific)

\* What the lists name.
Listed == IF ListsOmitDefault THEN Specific ELSE Prefix

(***************************************************************************)
(* The list of commands.                                                   *)
(***************************************************************************)
KsDeleteCommand == [op |-> "ksDelete", dst |-> {}]
KsAddCommand    == [op |-> "ksAdd", dst |-> {}]

Routing == {"ctrl", "exclude", "dnsBypass"}
Named   == {"split", "scopedSplit", "scopedExclude", "extra", "dnsTun", "del"}
Single  == {"api", "connect", "setDns", "resolvers", "startCache", "delDns", "clearDns", "down",
            "default"}

\* A command that is not the kill switch's: what it routes around the tunnel is what the
\* user or the endpoints name, and no command but the kill switch's names the default.
Good ==
  {c \in [op: Routing \cup Named \cup Single, dst: Prefix] :
     /\ c.op \in Routing => c.dst \subseteq Around
     /\ c.op \in Routing \cup Named => c.dst \in Listed
     /\ c.op = "dnsBypass" => c.dst \in HostPrefix
     /\ c.op = "resolvers" => KeepsDns /\ cfg.dns = <<>>
     /\ c.op = "startCache" => cfg.defaultRoute}

\* The kill switch comes first, and only where no announcement of an earlier session stands.
Commands ==
  \/ todo \in Seq(Good)
  \/ /\ \E rest \in Seq(Good) : todo = <<KsAddCommand>> \o rest
     /\ ~rm.ksAdded /\ cfg.tun /\ cfg.defaultRoute
  \/ /\ \E rest \in Seq(Good) : todo = <<KsDeleteCommand>> \o (<<KsAddCommand>> \o rest)
     /\ ~rm.ksAdded /\ cfg.tun /\ cfg.defaultRoute /\ (ListsOmitDefault => ~sealed)

\* Recorded routes, and the list the goroutine ranges over.
RouteManager == [ctrl: Seq(Listed), dnsBypass: Seq(HostPrefix), exclude: Seq(Listed),
                 scopedExclude: Seq(Listed), split: Seq(Listed), extra: Seq(Listed),
                 dnsTun: Seq(Listed), ks: BOOLEAN, ksAdded: BOOLEAN, dnsSet: BOOLEAN]
Recorded ==
  /\ rm \in RouteManager /\ (rm.ksAdded => rm.ks /\ cfg.tun)
  /\ job \in [at: {"off", "wait", "remove", "done"}, todo: Seq(HostPrefix)]

Control ==
  /\ pc \in {"start", "socksOnly", "detect", "setup", "running", "cleanup"} \cup Terminal
  /\ todo # <<>> => pc \in {"setup", "cleanup"}
  /\ pc \notin {"start", "socksOnly"} \cup Terminal => cfg.tun
  /\ cfg \in Configs /\ host \in HostTables /\ sealed \in BOOLEAN

\* The kernel keeps one route for a prefix.
OnePerPrefix(t) ==
  /\ \A r, s \in t : r.dst = s.dst => r = s
  /\ \A r \in t : r.dst \in Prefix /\ r.metric = 0

\* Every route to a device is the host's, or one the user asked for.
OnlyAllowed(t) == \A r \in t : r.dev \in Device => r.dst = Default \/ r.dst \subseteq Allowed

\* Why the host stays sealed: an announced blackhole stays in the table, and whatever
\* else the table sends to a device is allowed.
Seal == /\ ListsOmitDefault /\ sealed => BlackholeDefault \in table
        /\ OnePerPrefix(table) /\ OnlyAllowed(table)

Inv == Commands /\ Recorded /\ Control /\ Seal

LEMMA ListedPrefixes ==
  /\ LowHalf \in Listed /\ HighHalf \in Listed
  /\ HostPrefix \subseteq Listed /\ Seq(HostPrefix) \subseteq Seq(Listed)
  /\ Listed \subseteq Prefix
<1>1. LowHalf \in Specific /\ HighHalf \in Specific /\ HostPrefix \subseteq Specific
      BY AddrAssumption DEF AddrAssumption, Specific, Prefix, Default, HighHalf, Host, HostPrefix
<1>2. Specific \subseteq Listed /\ Listed \subseteq Prefix
      BY DEF Listed, Specific
<1>3. QED
      BY <1>1, <1>2, SeqMonotonic

\* The lists of a command line and the answers of the resolver.
LEMMA Inputs ==
  ASSUME cfg \in Configs
  PROVE  /\ cfg \in Config
         /\ cfg.excludes \in Seq(Listed) /\ cfg.extras \in Seq(Listed)
         /\ cfg.dns \in Seq(HostPrefix) /\ Resolvers \in Seq(HostPrefix)
         /\ \A h \in {"api", "connect"} : Answer[h] \in Seq(HostPrefix)
<1>1. cfg \in Config
      BY DarwinAssumption DEF DarwinAssumption
<1>2. cfg.dns \in Seq(HostPrefix)
      BY <1>1 DEF Config, HostPrefix
<1>3. Resolvers \in Seq(HostPrefix)
      BY DarwinAssumption DEF DarwinAssumption, HostPrefix
<1>4. \A h \in {"api", "connect"} : Answer[h] \in Seq(HostPrefix)
      BY DarwinAssumption DEF DarwinAssumption, HostPrefix
<1>5. cfg.excludes \in Seq(Listed) /\ cfg.extras \in Seq(Listed)
      BY <1>1 DEF Config, ListsOmitDefault, Listed
<1>6. QED
      BY <1>1, <1>2, <1>3, <1>4, <1>5

LEMMA EachGood ==
  ASSUME NEW op \in Routing \cup Named, NEW dsts \in Seq(Listed),
         op \in Routing => \A i \in DOMAIN dsts : dsts[i] \subseteq Around,
         op = "dnsBypass" => dsts \in Seq(HostPrefix)
  PROVE  Each(op, dsts) \in Seq(Good)
<1>1. \A i \in 1..Len(dsts) : dsts[i] \in Listed /\ (op = "dnsBypass" => dsts[i] \in HostPrefix)
      OBVIOUS
<1>2. \A i \in 1..Len(dsts) : [op |-> op, dst |-> dsts[i]] \in Good
      BY <1>1, ListedPrefixes DEF Good, Routing, Named
<1>3. Each(op, dsts) = [i \in 1..Len(dsts) |-> [op |-> op, dst |-> dsts[i]]]
      BY DEF Each
<1>4. QED
      BY <1>2, <1>3

LEMMA DoGood ==
  ASSUME NEW op \in Single, op = "resolvers" => KeepsDns /\ cfg.dns = <<>>,
         op = "startCache" => cfg.defaultRoute
  PROVE  Do(op) \in Seq(Good)
<1>1. [op |-> op, dst |-> {}] \in Good
      BY DEF Good, Single, Routing, Named, Prefix
<1>2. QED
      BY <1>1 DEF Do

LEMMA WhenGood ==
  ASSUME NEW s, NEW condition \in BOOLEAN, condition => s \in Seq(Good)
  PROVE  When(condition, s) \in Seq(Good)
BY EmptySeq DEF When

LEMMA ConcatGood ==
  ASSUME NEW s \in Seq(Good), NEW t \in Seq(Good) PROVE s \o t \in Seq(Good)
OBVIOUS

\* A list that may begin with the kill switch's commands.
Leads(s, g) ==
  \E rest \in Seq(Good) :
    \/ s = rest
    \/ cfg.defaultRoute /\ s = <<KsAddCommand>> \o rest
    \/ cfg.defaultRoute /\ KnownGateway(g) /\ s = <<KsDeleteCommand>> \o (<<KsAddCommand>> \o rest)

LEMMA LeadsConcat ==
  ASSUME NEW g, NEW s, Leads(s, g), NEW t \in Seq(Good) PROVE Leads(s \o t, g)
<1> DEFINE U == Good \cup {KsAddCommand, KsDeleteCommand}
<1>1. PICK rest \in Seq(Good) :
        \/ s = rest
        \/ cfg.defaultRoute /\ s = <<KsAddCommand>> \o rest
        \/ cfg.defaultRoute /\ KnownGateway(g) /\ s = <<KsDeleteCommand>> \o (<<KsAddCommand>> \o rest)
      BY DEF Leads
<1>2. rest \in Seq(U) /\ t \in Seq(U) /\ <<KsAddCommand>> \in Seq(U)
      /\ <<KsDeleteCommand>> \in Seq(U) /\ rest \o t \in Seq(Good)
      BY SeqMonotonic
<1> HIDE DEF U
<1>3. (<<KsAddCommand>> \o rest) \o t = <<KsAddCommand>> \o (rest \o t)
      BY <1>2, ConcatAssociative
<1>4. (<<KsDeleteCommand>> \o (<<KsAddCommand>> \o rest)) \o t
        = <<KsDeleteCommand>> \o (<<KsAddCommand>> \o (rest \o t))
  <2>1. <<KsAddCommand>> \o rest \in Seq(U)
        BY <1>2, ConcatProperties
  <2>2. QED
        BY <1>2, <1>3, <2>1, ConcatAssociative
<1>5. QED
      BY <1>1, <1>2, <1>3, <1>4 DEF Leads

\* What cmdVpn sets up.
LEMMA SetUpLeads ==
  ASSUME cfg \in Configs, NEW g PROVE Leads(SetUp(g), g)
<1> DEFINE Switch == When(cfg.killSwitch, When(KnownGateway(g), Do("ksDelete")) \o Do("ksAdd"))
<1>0. /\ cfg \in Config
      /\ cfg.excludes \in Seq(Listed) /\ cfg.extras \in Seq(Listed)
      /\ cfg.dns \in Seq(HostPrefix) /\ cfg.dns \in Seq(Listed)
      /\ Halves \in Seq(Listed)
      BY Inputs, ListedPrefixes DEF Halves
<1>1. <<>> \in Seq(Good)
      BY EmptySeq
<1>2. cfg.defaultRoute => Leads(Switch, g)
  <2> SUFFICES ASSUME cfg.defaultRoute PROVE Leads(Switch, g)
      OBVIOUS
  <2>1. Do("ksAdd") = <<KsAddCommand>> \o <<>> /\ Do("ksDelete") = <<KsDeleteCommand>>
        BY ConcatEmptySeq DEF Do, KsAddCommand, KsDeleteCommand
  <2>2. CASE ~cfg.killSwitch
    <3>1. Switch = <<>>
          BY <2>2 DEF When
    <3>2. QED
          BY <1>1, <3>1 DEF Leads
  <2>3. CASE cfg.killSwitch /\ ~KnownGateway(g)
    <3>1. Switch = <<>> \o Do("ksAdd")
          BY <2>3 DEF When
    <3>2. Switch = <<KsAddCommand>> \o <<>>
          BY <3>1 DEF Do, KsAddCommand
    <3>3. QED
          BY <1>1, <3>2 DEF Leads
  <2>4. CASE cfg.killSwitch /\ KnownGateway(g)
    <3>1. Switch = <<KsDeleteCommand>> \o (<<KsAddCommand>> \o <<>>)
          BY <2>1, <2>4 DEF When
    <3>2. QED
          BY <1>1, <2>4, <3>1 DEF Leads
  <2>5. QED
        BY <2>2, <2>3, <2>4
<1>3. Do("api") \in Seq(Good) /\ Do("connect") \in Seq(Good) /\ Do("setDns") \in Seq(Good)
      /\ (cfg.defaultRoute => Do("startCache") \in Seq(Good))
      BY DoGood DEF Single
<1>4. Each("split", Halves) \in Seq(Good) /\ Each("scopedSplit", Halves) \in Seq(Good)
      /\ Each("scopedExclude", cfg.excludes) \in Seq(Good) /\ Each("extra", cfg.extras) \in Seq(Good)
      /\ Each("dnsTun", cfg.dns) \in Seq(Good)
      BY <1>0, EachGood DEF Named, Routing
<1>5. Each("exclude", cfg.excludes) \in Seq(Good)
  <2>1. \A i \in DOMAIN cfg.excludes : cfg.excludes[i] \subseteq Around
        BY DEF Around, Addresses
  <2>2. QED
        BY <1>0, <2>1, EachGood DEF Routing, Named
<1>6. KeepsDns => Each("dnsBypass", cfg.dns) \in Seq(Good)
  <2>1. KeepsDns => \A i \in DOMAIN cfg.dns : cfg.dns[i] \subseteq Around
        BY DEF Around, Addresses, DnsServers
  <2>2. QED
        BY <1>0, <2>1, EachGood DEF Routing, Named
<1>7. cfg.defaultRoute => Leads(DefaultMode(g), g)
      BY <1>2, <1>3, <1>4, <1>5, LeadsConcat DEF DefaultMode
<1>8. SocksMode \in Seq(Good)
      BY <1>1, <1>4, ConcatGood DEF SocksMode, When
<1>9. DnsMode(g) \in Seq(Good)
  <2>1. CASE cfg.dns # <<>>
    <3>1. Each(IF KeepsDns THEN "dnsBypass" ELSE "dnsTun", cfg.dns) \in Seq(Good)
          BY <1>4, <1>6
    <3>2. When(cfg.service, Do("setDns")) \in Seq(Good)
          /\ When(~cfg.defaultRoute, Each("dnsTun", cfg.dns)) \in Seq(Good)
          BY <1>1, <1>3, <1>4 DEF When
    <3>3. QED
          BY <2>1, <3>1, <3>2, ConcatGood DEF DnsMode
  <2>2. CASE cfg.dns = <<>>
    <3>1. KeepsDns => Do("resolvers") \in Seq(Good)
          BY <2>2, DoGood DEF Single
    <3>2. QED
          BY <1>1, <2>2, <3>1 DEF DnsMode, When
  <2>3. QED
        BY <2>1, <2>2
<1>10. Leads(When(cfg.defaultRoute, DefaultMode(g)), g)
       BY <1>1, <1>7 DEF When, Leads
<1>11. When(~cfg.defaultRoute /\ cfg.socks, SocksMode) \in Seq(Good)
       /\ When(cfg.defaultRoute /\ cfg.bootstrap = "cache", Do("startCache")) \in Seq(Good)
       BY <1>1, <1>3, <1>8 DEF When
<1>12. QED
       BY <1>4, <1>9, <1>10, <1>11, LeadsConcat DEF SetUp

LEMMA CleanUpGood == ASSUME Recorded PROVE CleanUp \in Seq(Good)
<1>1. \A s \in Seq(Listed) : Each("del", s) \in Seq(Good)
      BY EachGood DEF Named, Routing
<1>2. Do("delDns") \in Seq(Good) /\ Do("down") \in Seq(Good) /\ Do("default") \in Seq(Good)
      /\ Do("clearDns") \in Seq(Good) /\ <<>> \in Seq(Good)
      BY DoGood, EmptySeq DEF Single
<1>3. When(rm.dnsSet, Do("clearDns")) \in Seq(Good)
      BY <1>2 DEF When
<1>4. rm.split \in Seq(Listed) /\ rm.exclude \in Seq(Listed) /\ rm.scopedExclude \in Seq(Listed)
      /\ rm.ctrl \in Seq(Listed) /\ rm.extra \in Seq(Listed) /\ rm.dnsTun \in Seq(Listed)
      BY DEF Recorded, RouteManager
<1>5. QED
      BY <1>1, <1>2, <1>3, <1>4, ConcatGood DEF CleanUp

(***************************************************************************)
(* The steps.                                                              *)
(***************************************************************************)
\* The command line and the host stay what they were, and so does what they allow.
LEMMA Fixed ==
  [Next]_vars =>
    UNCHANGED <<cfg, faults, host>> /\ Around' = Around /\ Allowed' = Allowed /\ Good' = Good
<1> SUFFICES ASSUME [Next]_vars
             PROVE  UNCHANGED <<cfg, faults, host>> /\ Around' = Around /\ Allowed' = Allowed
                    /\ Good' = Good
    OBVIOUS
<1>1. UNCHANGED <<cfg, faults, host>>
  <2>1. CASE Process
        BY <2>1 DEF Process, StartWithoutTun, CreateTun, DetectGateway, KsDelete, KsAdd,
             LookupEndpoint, AddRecorded, AddExclude, AddExtraRoute, AddSplitDefault, AddScoped,
             SetDNS, SystemResolvers, StartCache, CoreStarts, CtxDone, DeleteDNSBypass,
             DeleteRecorded, ClearDNS, TunDown, CleanupDefault, CloseTun, session
  <2>2. CASE CacheJob
        BY <2>2 DEF CacheJob, CacheOver, RemoveDNSBypass, session
  <2>3. CASE Environment
        BY <2>3 DEF Environment, Signal, Crash, RenewDefault, LiftKillSwitch, Restart, Finished,
             vars, session
  <2>4. CASE UNCHANGED vars
        BY <2>4 DEF vars
  <2>5. QED
        BY <2>1, <2>2, <2>3, <2>4 DEF Next
<1>2. KeepsDns' = KeepsDns /\ DnsServers' = DnsServers
      BY <1>1 DEF KeepsDns, DnsServers
<1>3. Around' = Around
      BY <1>1, <1>2 DEF Around, Endpoints
<1>4. Allowed' = Allowed
      BY <1>1, <1>3 DEF Allowed
<1>5. QED
      BY <1>1, <1>2, <1>3, <1>4 DEF Good

\* A command that is not the kill switch's, and what is left after it.
LEMMA OneCommand ==
  ASSUME Commands, NEW op, At(op), op \notin {"ksDelete", "ksAdd"}
  PROVE  /\ todo \in Seq(Good) /\ Head(todo) \in Good /\ Tail(todo) \in Seq(Good)
         /\ Head(todo).op = op
<1>1. \A x, s : x \in {KsAddCommand, KsDeleteCommand} /\ todo = <<x>> \o s /\ s \in Seq(Good \cup {KsAddCommand})
                  => Head(todo) = x
      OBVIOUS
<1>2. todo \in Seq(Good)
  <2>1. Seq(Good) \subseteq Seq(Good \cup {KsAddCommand})
        BY SeqMonotonic
  <2>2. \A rest \in Seq(Good) : <<KsAddCommand>> \o rest \in Seq(Good \cup {KsAddCommand})
        OBVIOUS
  <2>3. Head(todo) # KsAddCommand /\ Head(todo) # KsDeleteCommand
        BY DEF At, KsAddCommand, KsDeleteCommand
  <2>4. QED
        BY <1>1, <2>1, <2>2, <2>3 DEF Commands
<1>3. QED
      BY <1>2, HeadTailProperties DEF At

\* What has been done leaves the rest, behind what it calls for.
LEMMA DoneGood ==
  ASSUME Commands, NEW op, At(op), op \notin {"ksDelete", "ksAdd"}, NEW then \in Seq(Good), Done(then),
         [Next]_vars
  PROVE  Commands'
<1>1. todo' \in Seq(Good)
      BY OneCommand, ConcatGood DEF Done
<1>2. QED
      BY <1>1, Fixed DEF Commands

LEMMA KsSteps ==
  ASSUME Commands, [Next]_vars
  PROVE  /\ KsDelete => Commands' /\ (ListsOmitDefault => ~sealed) /\ ~rm.ksAdded /\ cfg.defaultRoute
         /\ KsAdd => todo' \in Seq(Good) /\ ~rm.ksAdded /\ cfg.tun /\ cfg.defaultRoute
<1>1. \A rest \in Seq(Good) : /\ Head(<<KsAddCommand>> \o rest) = KsAddCommand
                              /\ Tail(<<KsAddCommand>> \o rest) = rest
      OBVIOUS
<1>2. \A rest \in Seq(Good) :
        /\ Head(<<KsDeleteCommand>> \o (<<KsAddCommand>> \o rest)) = KsDeleteCommand
        /\ Tail(<<KsDeleteCommand>> \o (<<KsAddCommand>> \o rest)) = <<KsAddCommand>> \o rest
        /\ <<>> \o (<<KsAddCommand>> \o rest) = <<KsAddCommand>> \o rest
      OBVIOUS
<1>3. \A s \in Seq(Good) : s # <<>> => Head(s).op \notin {"ksDelete", "ksAdd"}
      BY HeadTailProperties DEF Good, Routing, Named, Single
<1>4. ASSUME KsDelete PROVE Commands' /\ (ListsOmitDefault => ~sealed) /\ ~rm.ksAdded /\ cfg.defaultRoute
  <2>1. todo # <<>> /\ Head(todo).op = "ksDelete"
        BY <1>4 DEF KsDelete, At
  <2>2. todo \notin Seq(Good)
        BY <1>3, <2>1
  <2>3. \A rest \in Seq(Good) : todo # <<KsAddCommand>> \o rest
        BY <1>1, <2>1 DEF KsAddCommand
  <2>4. (ListsOmitDefault => ~sealed) /\ ~rm.ksAdded /\ cfg.tun /\ cfg.defaultRoute
        BY <2>2, <2>3 DEF Commands
  <2>5. PICK rest \in Seq(Good) : todo = <<KsDeleteCommand>> \o (<<KsAddCommand>> \o rest)
        BY <2>2, <2>3 DEF Commands
  <2>6. todo' = <<KsAddCommand>> \o rest
        BY <1>2, <1>4, <2>5 DEF KsDelete, Done
  <2>7. ~rm'.ksAdded /\ cfg'.tun /\ cfg'.defaultRoute
    <3>1. rm' = [rm EXCEPT !.ks = TRUE]
          BY <1>4 DEF KsDelete
    <3>2. QED
          BY <2>4, <3>1, Fixed
  <2>8. Commands'
        BY <2>6, <2>7, Fixed DEF Commands
  <2>9. QED
        BY <2>4, <2>8
<1>5. ASSUME KsAdd PROVE todo' \in Seq(Good) /\ ~rm.ksAdded /\ cfg.tun /\ cfg.defaultRoute
  <2>1. todo # <<>> /\ Head(todo).op = "ksAdd"
        BY <1>5 DEF KsAdd, At
  <2>2. todo \notin Seq(Good)
        BY <1>3, <2>1
  <2>3. \A rest \in Seq(Good) : todo # <<KsDeleteCommand>> \o (<<KsAddCommand>> \o rest)
        BY <1>2, <2>1 DEF KsDeleteCommand
  <2>4. ~rm.ksAdded /\ cfg.tun /\ cfg.defaultRoute
        BY <2>2, <2>3 DEF Commands
  <2>5. PICK rest \in Seq(Good) : todo = <<KsAddCommand>> \o rest
        BY <2>2, <2>3 DEF Commands
  <2>6. todo' = <<>> \o rest
        BY <1>1, <1>5, <2>5 DEF KsAdd, Done
  <2>7. QED
        BY <2>4, <2>6
<1>6. QED
      BY <1>4, <1>5

LEMMA SameCommands ==
  ASSUME Commands, [Next]_vars, UNCHANGED todo, rm'.ksAdded = rm.ksAdded, sealed' => sealed
  PROVE  Commands'
BY Fixed DEF Commands

\* A known gateway stands in a default route, and so no blackhole does.
LEMMA GatewayUnsealed ==
  ASSUME Seal, DetectGateway, KnownGateway(gw') PROVE ListsOmitDefault => ~sealed
<1>1. PICK r \in Defaults(table, Device) : gw' = [gw |-> r.gw, dev |-> r.dev]
      BY DEF DetectGateway, KnownGateway, NoGateway
<1>2. r \in table /\ r.dst = Default /\ r.dev \in Device
      BY <1>1 DEF Defaults
<1>3. BlackholeDefault.dst = Default /\ BlackholeDefault.dev = "blackhole"
      BY DEF BlackholeDefault
<1>4. r # BlackholeDefault
      BY <1>2, <1>3, DeviceAssumption DEF DeviceAssumption
<1>5. QED
      BY <1>2, <1>3, <1>4 DEF Seal, OnePerPrefix

LEMMA CommandsStep ==
  ASSUME Inv, [Next]_vars PROVE Commands'
<1>0. /\ Commands /\ Recorded /\ cfg \in Configs
      /\ <<>> \in Seq(Good)
      BY EmptySeq DEF Inv, Control
<1>1. CASE StartWithoutTun \/ CreateTun \/ CoreStarts \/ CloseTun \/ Signal \/ RenewDefault
           \/ CacheOver \/ Finished \/ UNCHANGED vars
  <2>1. UNCHANGED <<todo, rm, sealed>>
        BY <1>1 DEF StartWithoutTun, CreateTun, CoreStarts, CloseTun, Signal, RenewDefault, CacheOver,
             Finished, vars
  <2>2. QED
        BY <1>0, <2>1, SameCommands
<1>2. CASE LiftKillSwitch \/ Restart
  <2>1. UNCHANGED <<todo, rm>> /\ (sealed' => sealed)
        BY <1>2 DEF LiftKillSwitch, Restart
  <2>2. QED
        BY <1>0, <2>1, SameCommands
<1>3. CASE RemoveDNSBypass
  <2>1. UNCHANGED <<todo, sealed>> /\ (rm' = rm \/ rm' = [rm EXCEPT !.dnsBypass = <<>>])
        BY <1>3 DEF RemoveDNSBypass
  <2>2. rm'.ksAdded = rm.ksAdded
        BY <1>0, <2>1 DEF Recorded, RouteManager
  <2>3. QED
        BY <1>0, <2>1, <2>2, SameCommands
<1>4. CASE Crash
      BY <1>0, <1>4, Fixed DEF Crash, Commands
<1>5. CASE DetectGateway
  <2>1. todo' = SetUp(gw') /\ rm' = NewRouteManager /\ UNCHANGED <<sealed, cfg>> /\ pc = "detect"
        BY <1>5 DEF DetectGateway, session
  <2>2. ~rm'.ksAdded /\ cfg'.tun
        BY <2>1 DEF NewRouteManager, Inv, Control, Terminal
  <2>3. Leads(todo', gw')
        BY <1>0, <2>1, SetUpLeads
  <2>4. KnownGateway(gw') /\ ListsOmitDefault => ~sealed
        BY <1>5, GatewayUnsealed DEF Inv
  <2>5. QED
        BY <2>1, <2>2, <2>3, <2>4, Fixed DEF Commands, Leads
<1>6. CASE KsDelete
      BY <1>0, <1>6, KsSteps
<1>7. CASE KsAdd
      BY <1>0, <1>7, KsSteps, Fixed DEF Commands
<1>8. CASE CtxDone
  <2>1. todo' \in Seq(Good) \/ UNCHANGED <<todo, rm, sealed>>
        BY <1>0, <1>8, CleanUpGood DEF CtxDone
  <2>2. QED
        BY <1>0, <2>1, SameCommands, Fixed DEF Commands
<1>9. CASE LookupEndpoint
  <2>1. PICK h \in {"api", "connect"} : At(h) /\ (Done(Each("ctrl", Answer[h])) \/ Done(<<>>))
        BY <1>9 DEF LookupEndpoint
  <2>2. \A i \in DOMAIN Answer[h] : Answer[h][i] \subseteq Around
        BY DEF Around, Endpoints, Addresses
  <2>3. Each("ctrl", Answer[h]) \in Seq(Good)
        BY <1>0, <2>2, Inputs, ListedPrefixes, EachGood DEF Routing, Named
  <2>4. QED
        BY <1>0, <2>1, <2>3, DoneGood
<1>10. CASE SystemResolvers
  <2>1. At("resolvers") /\ (Done(Each("dnsBypass", Resolvers)) \/ Done(<<>>))
        BY <1>10 DEF SystemResolvers
  <2>2. KeepsDns /\ cfg.dns = <<>>
        BY <1>0, <2>1, OneCommand DEF Good
  <2>3. \A i \in DOMAIN Resolvers : Resolvers[i] \subseteq Around
        BY <2>2 DEF Around, DnsServers, Addresses
  <2>4. Each("dnsBypass", Resolvers) \in Seq(Good)
        BY <1>0, <2>3, Inputs, ListedPrefixes, EachGood DEF Routing, Named
  <2>5. QED
        BY <1>0, <2>1, <2>4, DoneGood
<1>11. CASE DeleteDNSBypass
  <2>1. At("delDns") /\ Done(Each("del", rm.dnsBypass))
        BY <1>11 DEF DeleteDNSBypass
  <2>2. Each("del", rm.dnsBypass) \in Seq(Good)
        BY <1>0, ListedPrefixes, EachGood DEF Recorded, RouteManager, Named, Routing
  <2>3. QED
        BY <1>0, <2>1, <2>2, DoneGood
<1>12. CASE AddRecorded \/ AddExclude \/ AddExtraRoute \/ AddSplitDefault \/ AddScoped \/ SetDNS
            \/ StartCache \/ DeleteRecorded \/ ClearDNS \/ TunDown \/ CleanupDefault
  <2>1. \E op : At(op) /\ op \notin {"ksDelete", "ksAdd"} /\ Done(<<>>)
        BY <1>12 DEF AddRecorded, AddExclude, AddExtraRoute, AddSplitDefault, AddScoped, SetDNS,
             StartCache, DeleteRecorded, ClearDNS, TunDown, CleanupDefault
  <2>2. QED
        BY <1>0, <2>1, DoneGood
<1>13. QED
       BY <1>1, <1>2, <1>3, <1>4, <1>5, <1>6, <1>7, <1>8, <1>9, <1>10, <1>11, <1>12
       DEF Next, Process, CacheJob, Environment

Lists == {"ctrl", "dnsBypass", "exclude", "scopedExclude", "split", "extra", "dnsTun"}

LEMMA RecordListed ==
  ASSUME rm \in RouteManager, dst \in Listed, NEW list \in Lists, Record(list),
         list = "dnsBypass" => dst \in HostPrefix
  PROVE  rm' \in RouteManager /\ rm'.ks = rm.ks /\ rm'.ksAdded = rm.ksAdded
<1>1. rm' = [rm EXCEPT ![list] = Append(@, dst)]
      BY DEF Record
<1>2. rm[list] \in Seq(IF list = "dnsBypass" THEN HostPrefix ELSE Listed)
      BY DEF RouteManager, Lists
<1>3. Append(rm[list], dst) \in Seq(IF list = "dnsBypass" THEN HostPrefix ELSE Listed)
      BY <1>2, AppendProperties
<1>4. rm' = [rm EXCEPT ![list] = Append(rm[list], dst)]
      BY <1>1
<1>5. QED
      BY <1>3, <1>4 DEF RouteManager, Lists

LEMMA RecordedStep ==
  ASSUME Inv, [Next]_vars PROVE Recorded'
<1>0. /\ Commands /\ Recorded /\ rm \in RouteManager /\ (rm.ksAdded => rm.ks /\ cfg.tun)
      /\ cfg' = cfg /\ <<>> \in Seq(Listed) /\ <<>> \in Seq(HostPrefix)
      BY Fixed, EmptySeq DEF Inv, Recorded
<1>1. CASE StartWithoutTun \/ CreateTun \/ CoreStarts \/ Signal \/ RenewDefault \/ Finished
           \/ LiftKillSwitch \/ Restart \/ CtxDone \/ LookupEndpoint \/ SystemResolvers
           \/ DeleteDNSBypass \/ DeleteRecorded \/ ClearDNS \/ TunDown \/ CleanupDefault
           \/ UNCHANGED vars
  <2>1. UNCHANGED <<rm, job>>
        BY <1>1 DEF StartWithoutTun, CreateTun, CoreStarts, Signal, RenewDefault, Finished,
             LiftKillSwitch, Restart, CtxDone, LookupEndpoint, SystemResolvers, DeleteDNSBypass,
             DeleteRecorded, ClearDNS, TunDown, CleanupDefault, vars
  <2>2. QED
        BY <1>0, <2>1 DEF Recorded
<1>2. CASE CloseTun \/ Crash \/ StartCache
  <2>1. UNCHANGED rm /\ job' \in {NoJob, [at |-> "wait", todo |-> <<>>]}
        BY <1>2 DEF CloseTun, Crash, StartCache
  <2>2. \A s \in Seq(HostPrefix), a \in {"off", "wait"} :
          [at |-> a, todo |-> s] \in [at: {"off", "wait", "remove", "done"}, todo: Seq(HostPrefix)]
        OBVIOUS
  <2>3. job' \in [at: {"off", "wait", "remove", "done"}, todo: Seq(HostPrefix)]
    <3>1. CASE job' = NoJob
          BY <1>0, <2>2, <3>1 DEF NoJob
    <3>2. CASE job' = [at |-> "wait", todo |-> <<>>]
          BY <1>0, <2>2, <3>2
    <3>3. QED
          BY <2>1, <3>1, <3>2
  <2>4. QED
        BY <1>0, <2>1, <2>3 DEF Recorded
<1>3. CASE DetectGateway
  <2>1. rm' = NewRouteManager /\ UNCHANGED job
        BY <1>3 DEF DetectGateway
  <2>2. NewRouteManager \in RouteManager
        BY <1>0 DEF NewRouteManager, RouteManager
  <2>3. QED
        BY <1>0, <2>1, <2>2 DEF Recorded, NewRouteManager
<1>4. CASE KsDelete
  <2>1. rm' = [rm EXCEPT !.ks = TRUE] /\ UNCHANGED job
        BY <1>4 DEF KsDelete
  <2>2. rm' \in RouteManager /\ rm'.ks /\ rm'.ksAdded = rm.ksAdded
        BY <1>0, <2>1 DEF RouteManager
  <2>3. QED
        BY <1>0, <2>1, <2>2 DEF Recorded
<1>5. CASE KsAdd
  <2>1. cfg.tun
        BY <1>0, <1>5, KsSteps
  <2>2. UNCHANGED job
        /\ (rm' = [rm EXCEPT !.ks = TRUE, !.ksAdded = TRUE] \/ rm' = [rm EXCEPT !.ks = TRUE])
        BY <1>5 DEF KsAdd
  <2>3. rm' \in RouteManager /\ rm'.ks
        BY <1>0, <2>2 DEF RouteManager
  <2>4. QED
        BY <1>0, <2>1, <2>2, <2>3 DEF Recorded
<1>6. CASE AddRecorded \/ AddExclude \/ AddExtraRoute \/ AddSplitDefault \/ AddScoped
  <2>1. \E op \in Routing \cup Named : At(op)
        BY <1>6 DEF AddRecorded, AddExclude, AddExtraRoute, AddSplitDefault, AddScoped, Routing, Named
  <2>2. \A op \in Routing \cup Named : op \notin {"ksDelete", "ksAdd"}
        BY DEF Routing, Named
  <2>3. dst \in Listed
        BY <1>0, <2>1, <2>2, OneCommand DEF Good, dst
  <2>4. /\ UNCHANGED job
        /\ UNCHANGED rm \/ \E list \in Lists : Record(list) /\ (list = "dnsBypass" => At(list))
        BY <1>6 DEF AddRecorded, AddExclude, AddExtraRoute, AddSplitDefault, AddScoped, Lists
  <2>5. At("dnsBypass") => dst \in HostPrefix
        BY <1>0, OneCommand DEF Good, dst
  <2>6. rm' \in RouteManager /\ rm'.ks = rm.ks /\ rm'.ksAdded = rm.ksAdded
        BY <1>0, <2>3, <2>4, <2>5, RecordListed
  <2>7. QED
        BY <1>0, <2>4, <2>6 DEF Recorded
<1>7. CASE SetDNS
  <2>1. (rm' = [rm EXCEPT !.dnsSet = TRUE] \/ UNCHANGED rm) /\ UNCHANGED job
        BY <1>7 DEF SetDNS
  <2>2. rm' \in RouteManager /\ rm'.ks = rm.ks /\ rm'.ksAdded = rm.ksAdded
        BY <1>0, <2>1 DEF RouteManager
  <2>3. QED
        BY <1>0, <2>1, <2>2 DEF Recorded
<1>8. CASE CacheOver
  <2>1. job' = [at |-> "remove", todo |-> rm.dnsBypass] /\ UNCHANGED rm
        BY <1>8 DEF CacheOver
  <2>2. rm.dnsBypass \in Seq(HostPrefix)
        BY <1>0 DEF RouteManager
  <2>3. QED
        BY <1>0, <2>1, <2>2 DEF Recorded
<1>9. CASE RemoveDNSBypass
  <2>1. CASE job.todo # <<>>
    <3>1. job' = [job EXCEPT !.todo = Tail(@)] /\ UNCHANGED rm
          BY <1>9, <2>1 DEF RemoveDNSBypass
    <3>2. Tail(job.todo) \in Seq(HostPrefix)
          BY <1>0, <2>1, HeadTailProperties DEF Recorded
    <3>3. QED
          BY <1>0, <3>1, <3>2 DEF Recorded
  <2>2. CASE job.todo = <<>>
    <3>1. job' = [at |-> "done", todo |-> <<>>] /\ rm' = [rm EXCEPT !.dnsBypass = <<>>]
          BY <1>9, <2>2 DEF RemoveDNSBypass
    <3>2. rm' \in RouteManager /\ rm'.ks = rm.ks /\ rm'.ksAdded = rm.ksAdded
          BY <1>0, <3>1 DEF RouteManager
    <3>3. QED
          BY <1>0, <3>1, <3>2 DEF Recorded
  <2>3. QED
        BY <2>1, <2>2
<1>10. QED
       BY <1>1, <1>2, <1>3, <1>4, <1>5, <1>6, <1>7, <1>8, <1>9
       DEF Next, Process, CacheJob, Environment

LEMMA ControlStep ==
  ASSUME Inv, [Next]_vars PROVE Control'
<1> USE DEF Terminal
<1>0. Control /\ cfg' = cfg /\ host' = host
      BY Fixed DEF Inv
<1>1. CASE StartWithoutTun \/ CreateTun \/ DetectGateway
      BY <1>0, <1>1 DEF Control, StartWithoutTun, CreateTun, DetectGateway
<1>2. CASE KsDelete \/ KsAdd \/ LookupEndpoint \/ AddRecorded \/ AddExclude \/ AddExtraRoute
           \/ AddSplitDefault \/ AddScoped \/ SetDNS \/ SystemResolvers \/ StartCache
           \/ DeleteDNSBypass \/ DeleteRecorded \/ ClearDNS \/ TunDown \/ CleanupDefault
  <2>1. UNCHANGED pc /\ todo # <<>> /\ (sealed' = sealed \/ sealed' = TRUE)
        BY <1>2 DEF KsDelete, KsAdd, LookupEndpoint, AddRecorded, AddExclude, AddExtraRoute,
             AddSplitDefault, AddScoped, SetDNS, SystemResolvers, StartCache, DeleteDNSBypass,
             DeleteRecorded, ClearDNS, TunDown, CleanupDefault, At
  <2>2. QED
        BY <1>0, <2>1 DEF Control
<1>3. CASE CoreStarts \/ CtxDone \/ CloseTun
      BY <1>0, <1>3 DEF Control, CoreStarts, CtxDone, CloseTun
<1>4. CASE CacheOver \/ RemoveDNSBypass \/ Signal \/ RenewDefault \/ Finished \/ UNCHANGED vars
  <2>1. UNCHANGED <<pc, todo, sealed>>
        BY <1>4 DEF CacheOver, RemoveDNSBypass, Signal, RenewDefault, Finished, vars
  <2>2. QED
        BY <1>0, <2>1 DEF Control
<1>5. CASE Crash \/ LiftKillSwitch \/ Restart
      BY <1>0, <1>5 DEF Control, Crash, LiftKillSwitch, Restart
<1>6. QED
      BY <1>1, <1>2, <1>3, <1>4, <1>5 DEF Next, Process, CacheJob, Environment

(***************************************************************************)
(* The table under the commands.                                           *)
(***************************************************************************)
LEMMA Routes ==
  /\ \A d : /\ ToTun(d).dst = d /\ ToTun(d).metric = 0 /\ ToTun(d).dev = "tun"
            /\ Reject(d).dst = d /\ Reject(d).metric = 0 /\ Reject(d).dev = "unreachable"
            /\ ViaGateway(d).dst = d /\ ViaGateway(d).metric = 0
  /\ BlackholeDefault.dst = Default /\ BlackholeDefault.metric = 0
  /\ BlackholeDefault.dev = "blackhole"
  /\ Default \in Prefix /\ Listed \subseteq Prefix /\ (ListsOmitDefault => Default \notin Listed)
  /\ "tun" \notin Device /\ "unreachable" \notin Device /\ "blackhole" \notin Device
BY DeviceAssumption
DEF ToTun, Reject, ViaGateway, BlackholeDefault, DeviceAssumption, Default, Prefix, Listed, Specific

\* Taking routes away that are not the announced blackhole.
LEMMA SealLess ==
  ASSUME Seal, [Next]_vars, table' \subseteq table,
         ListsOmitDefault /\ sealed' =>
           sealed /\ (BlackholeDefault \in table => BlackholeDefault \in table')
  PROVE  Seal'
BY Fixed DEF Seal, OnePerPrefix, OnlyAllowed

\* A table with a route for a free prefix more.
LEMMA AddKeeps ==
  ASSUME NEW t, OnePerPrefix(t), OnlyAllowed(t), NEW r, r.dst \in Prefix, r.metric = 0,
         r.dev \in Device => r.dst = Default \/ r.dst \subseteq Allowed
  PROVE  OnePerPrefix(Add(t, r)) /\ OnlyAllowed(Add(t, r))
<1>1. CASE \E s \in t : s.dst = r.dst
  <2>1. Add(t, r) = t
        BY <1>1 DEF Add, OnePerPrefix
  <2>2. QED
        BY <2>1
<1>2. CASE ~\E s \in t : s.dst = r.dst
      BY <1>2, AddSubset DEF OnePerPrefix, OnlyAllowed
<1>3. QED
      BY <1>1, <1>2

LEMMA SealAdd ==
  ASSUME Seal, [Next]_vars, NEW r, r.dst \in Prefix, r.metric = 0,
         r.dev \in Device => r.dst = Default \/ r.dst \subseteq Allowed,
         table' = Add(table, r), sealed' = sealed
  PROVE  Seal'
<1>1. OnePerPrefix(table') /\ OnlyAllowed(table')
      BY AddKeeps DEF Seal
<1>2. OnlyAllowed(table)'
      BY <1>1, Fixed DEF OnlyAllowed
<1>3. table \subseteq table'
      BY AddSubset
<1>4. QED
      BY <1>1, <1>2, <1>3 DEF Seal, OnePerPrefix

LEMMA SealStep ==
  ASSUME Inv, [Next]_vars PROVE Seal'
<1>0. Seal /\ Commands /\ Recorded /\ Control
      BY DEF Inv
<1>1. CASE StartWithoutTun \/ CreateTun \/ DetectGateway \/ LookupEndpoint \/ AddScoped \/ SetDNS
           \/ SystemResolvers \/ StartCache \/ CoreStarts \/ CtxDone \/ DeleteDNSBypass \/ ClearDNS
           \/ CacheOver \/ Signal \/ Restart \/ Finished \/ UNCHANGED vars
  <2>1. UNCHANGED <<table, sealed>>
        BY <1>1 DEF StartWithoutTun, CreateTun, DetectGateway, LookupEndpoint, AddScoped, SetDNS,
             SystemResolvers, StartCache, CoreStarts, CtxDone, DeleteDNSBypass, ClearDNS,
             CacheOver, Signal, Restart, Finished, vars
  <2>2. QED
        BY <1>0, <2>1, SealLess
<1>2. CASE KsDelete
  <2>1. (ListsOmitDefault => ~sealed) /\ sealed' = sealed /\ table' \subseteq table
        BY <1>0, <1>2, KsSteps DEF KsDelete, DeleteRoute
  <2>2. QED
        BY <1>0, <2>1, SealLess
<1>3. CASE KsAdd
  <2>1. CASE UNCHANGED <<table, sealed>>
        BY <1>0, <2>1, SealLess
  <2>2. CASE ~Exists(Default) /\ table' = table \cup {BlackholeDefault} /\ sealed' = TRUE
    <3>1. \A s \in table : s.dst # Default
          BY <2>2 DEF Exists, Matching
    <3>2. OnePerPrefix(table)'
          BY <1>0, <2>2, <3>1, Routes DEF Seal, OnePerPrefix
    <3>3. OnlyAllowed(table)'
          BY <1>0, <2>2, Routes, Fixed DEF Seal, OnlyAllowed
    <3>4. QED
          BY <2>2, <3>2, <3>3 DEF Seal
  <2>3. QED
        BY <1>3, <2>1, <2>2 DEF KsAdd
<1>4. CASE AddRecorded \/ AddExclude \/ AddExtraRoute \/ AddSplitDefault \/ DeleteRecorded
  <2>1. PICK op \in Routing \cup Named : At(op)
        BY <1>4 DEF AddRecorded, AddExclude, AddExtraRoute, AddSplitDefault, DeleteRecorded,
             Routing, Named
  <2>2. dst \in Listed /\ (Head(todo).op \in Routing => dst \subseteq Allowed)
    <3>1. Head(todo) \in Good /\ Head(todo).op = op
          BY <1>0, <2>1, OneCommand DEF Routing, Named
    <3>2. QED
          BY <3>1 DEF Good, dst, Allowed
  <2>3. sealed' = sealed
        BY <1>4 DEF AddRecorded, AddExclude, AddExtraRoute, AddSplitDefault, DeleteRecorded
  <2>4. CASE UNCHANGED table
        BY <1>0, <2>3, <2>4, SealLess
  <2>5. ASSUME NEW r \in {ToTun(dst), Reject(dst)}, table' = Add(table, r) PROVE Seal'
        BY <1>0, <2>2, <2>3, <2>5, Routes, SealAdd
  <2>6. ASSUME Head(todo).op \in Routing, table' = Add(table, ViaGateway(dst)) PROVE Seal'
        BY <1>0, <2>2, <2>3, <2>6, Routes, SealAdd
  <2>7. ASSUME table' = (table \ Matching(table, dst)) \cup {ToTun(dst)} PROVE Seal'
    <3>1. ListsOmitDefault /\ BlackholeDefault \in table => BlackholeDefault \in table'
          BY <2>2, <2>7, Routes DEF Matching
    <3>2. OnePerPrefix(table)'
          BY <1>0, <2>2, <2>7, Routes DEF Seal, OnePerPrefix, Matching
    <3>3. OnlyAllowed(table)'
          BY <1>0, <2>7, Routes, Fixed DEF Seal, OnlyAllowed
    <3>4. QED
          BY <1>0, <2>3, <3>1, <3>2, <3>3 DEF Seal
  <2>8. ASSUME table' = table \ Matching(table, dst) PROVE Seal'
    <3>1. ListsOmitDefault => BlackholeDefault \notin Matching(table, dst)
          BY <2>2, Routes DEF Matching
    <3>2. QED
          BY <1>0, <2>3, <2>8, <3>1, SealLess
  <2>9. CASE AddRecorded
    <3>1. PICK list \in {"ctrl", "dnsBypass", "dnsTun"} :
            /\ At(list)
            /\ \/ table' = Add(table, IF list = "dnsTun" THEN ToTun(dst) ELSE ViaGateway(dst))
               \/ UNCHANGED table
          BY <2>9 DEF AddRecorded
    <3>2. QED
          BY <2>4, <2>5, <2>6, <3>1 DEF At, Routing
  <2>10. CASE AddExclude
    <3>1. Head(todo).op \in Routing
          BY <2>10 DEF AddExclude, At, Routing
    <3>2. \/ table' = Add(table, ViaGateway(dst)) \/ table' = Add(table, Reject(dst))
          \/ UNCHANGED table
          BY <2>10 DEF AddExclude
    <3>3. QED
          BY <2>4, <2>5, <2>6, <3>1, <3>2
  <2>11. CASE AddExtraRoute
         BY <2>4, <2>5, <2>11 DEF AddExtraRoute
  <2>12. CASE AddSplitDefault
         BY <2>4, <2>7, <2>12 DEF AddSplitDefault
  <2>13. CASE DeleteRecorded
         BY <2>4, <2>8, <2>13 DEF DeleteRecorded, DeleteRoute
  <2>14. QED
         BY <1>4, <2>9, <2>10, <2>11, <2>12, <2>13
<1>5. CASE RemoveDNSBypass
  <2>1. CASE job.todo = <<>>
    <3>1. UNCHANGED <<table, sealed>>
          BY <1>5, <2>1 DEF RemoveDNSBypass
    <3>2. QED
          BY <1>0, <3>1, SealLess
  <2>2. CASE job.todo # <<>>
    <3>1. Head(job.todo) \in Listed
          BY <1>0, <2>2, ListedPrefixes, HeadTailProperties DEF Recorded
    <3>2. /\ table' \subseteq table /\ table \ Matching(table, Head(job.todo)) \subseteq table'
          /\ sealed' = sealed
          BY <1>5, <2>2 DEF RemoveDNSBypass, DeleteRoute
    <3>3. ListsOmitDefault => BlackholeDefault \notin Matching(table, Head(job.todo))
          BY <3>1, Routes DEF Matching
    <3>4. QED
          BY <1>0, <3>2, <3>3, SealLess
  <2>3. QED
        BY <2>1, <2>2
<1>6. CASE TunDown \/ CloseTun \/ Crash
  <2>1. table' \in {table, Flush(table, "tun")} /\ sealed' = sealed
        BY <1>6 DEF TunDown, CloseTun, Crash
  <2>2. BlackholeDefault \in table => BlackholeDefault \in Flush(table, "tun")
        BY Routes DEF Flush
  <2>3. table' \subseteq table
        BY <2>1, RemovalSubset
  <2>4. QED
        BY <1>0, <2>1, <2>2, <2>3, SealLess
<1>7. CASE CleanupDefault
  <2>1. ~(rm.ksAdded /\ ~rm.ks)
        BY <1>0 DEF Recorded
  <2>2. UNCHANGED <<table, sealed>>
        BY <1>7, <2>1 DEF CleanupDefault
  <2>3. QED
        BY <1>0, <2>2, SealLess
<1>8. \A r \in Defaults(host, Device) : r.dst = Default /\ r.metric = 0
      BY <1>0, DarwinAssumption DEF Control, DarwinAssumption, Defaults
<1>9. CASE RenewDefault
  <2>1. PICK r \in Defaults(host, Device) : table' = Add(table, r)
        BY <1>9 DEF RenewDefault
  <2>2. sealed' = sealed
        BY <1>9 DEF RenewDefault
  <2>3. QED
        BY <1>0, <1>8, <2>1, <2>2, Routes, SealAdd
<1>10. CASE LiftKillSwitch
  <2>1. PICK r \in Defaults(host, Device) : table' = Add(table \ {BlackholeDefault}, r)
        BY <1>10 DEF LiftKillSwitch
  <2>2. OnePerPrefix(table \ {BlackholeDefault}) /\ OnlyAllowed(table \ {BlackholeDefault})
        BY <1>0 DEF Seal, OnePerPrefix, OnlyAllowed
  <2>3. OnePerPrefix(table') /\ OnlyAllowed(table')
        BY <1>8, <2>1, <2>2, Routes, AddKeeps
  <2>4. OnlyAllowed(table)' /\ ~sealed'
        BY <1>10, <2>3, Fixed DEF OnlyAllowed, LiftKillSwitch
  <2>5. QED
        BY <2>3, <2>4 DEF Seal, OnePerPrefix
<1>11. QED
       BY <1>1, <1>2, <1>3, <1>4, <1>5, <1>6, <1>7, <1>9, <1>10
       DEF Next, Process, CacheJob, Environment

LEMMA InvInit == Init => Inv
<1> SUFFICES ASSUME Init PROVE Inv
    OBVIOUS
<1>1. /\ todo = <<>> /\ rm = NewRouteManager /\ job = NoJob /\ sealed = FALSE /\ pc = "start"
      /\ table = host /\ cfg \in Configs /\ host \in HostTables
      BY DEF Init
<1>2. <<>> \in Seq(Good) /\ <<>> \in Seq(Listed) /\ <<>> \in Seq(HostPrefix)
      BY EmptySeq
<1>3. Commands /\ Control
      BY <1>1, <1>2 DEF Commands, Control, Terminal
<1>4. Recorded
  <2>1. NewRouteManager \in RouteManager /\ ~NewRouteManager.ksAdded
        BY <1>2 DEF NewRouteManager, RouteManager
  <2>2. NoJob \in [at: {"off", "wait", "remove", "done"}, todo: Seq(HostPrefix)]
        BY <1>2 DEF NoJob
  <2>3. QED
        BY <1>1, <2>1, <2>2 DEF Recorded
<1>5. Seal
  <2>1. /\ host \subseteq Route
        /\ \A r, s \in host : (r.dst = s.dst => r = s) /\ r.metric = 0
        BY <1>1, DarwinAssumption DEF DarwinAssumption
  <2>2. OnePerPrefix(table)
        BY <1>1, <2>1 DEF OnePerPrefix, Route
  <2>3. OnlyAllowed(table)
    <3>1. \A r \in host : r.dst # Default => r.dst \subseteq Specifics(host, {Default})
          BY DEF Specifics
    <3>2. QED
          BY <1>1, <3>1 DEF OnlyAllowed, Allowed
  <2>4. QED
        BY <1>1, <2>2, <2>3 DEF Seal
<1>6. QED
      BY <1>3, <1>4, <1>5 DEF Inv

LEMMA InvStep == Inv /\ [Next]_vars => Inv'
<1> SUFFICES ASSUME Inv, [Next]_vars PROVE Inv'
    OBVIOUS
<1>1. Commands' /\ Recorded' /\ Control' /\ Seal'
      BY CommandsStep, RecordedStep, ControlStep, SealStep
<1>2. QED
      BY <1>1 DEF Inv

(***************************************************************************)
(* The refinement: DarwinVpn implements KillSwitch.                        *)
(***************************************************************************)
Leak == {a \in Addr \ Allowed : GoesTo(table, a, Device)}

\* A device route that covers an address nobody may reach is a default, and the
\* blackhole is the only default there is.
LEMMA SealedIsTight == ASSUME ListsOmitDefault PROVE Seal => (sealed => Leak = {})
<1> SUFFICES ASSUME Seal, sealed, NEW a \in Addr \ Allowed, GoesTo(table, a, Device) PROVE FALSE
    BY DEF Leak
<1>1. PICK r \in table : a \in r.dst /\ r.dev \in Device
      BY DEF GoesTo
<1>2. r.dst = Default
      BY <1>1 DEF Seal, OnlyAllowed
<1>3. r = BlackholeDefault
      BY <1>2, Routes DEF Seal, OnePerPrefix
<1>4. QED
      BY <1>1, <1>3, Routes

\* What a step does to the announcement and to the session's part in it.  No session on
\* macOS takes a standing announcement away: the kill switch deletes a default only where
\* a gateway was found.
LEMMA PhaseSteps ==
  Inv /\ Inv' /\ [Next]_vars =>
    \/ SwitchPhase = "idle" /\ SwitchPhase' = "open" /\ sealed' = sealed
    \/ SwitchPhase # "idle" /\ SwitchPhase' = "idle" /\ sealed' = sealed
    \/ SwitchPhase = "open" /\ SwitchPhase' = "holding" /\ sealed' = TRUE
    \/ SwitchPhase = "idle" /\ SwitchPhase' = SwitchPhase /\ sealed /\ sealed' = FALSE
    \/ SwitchPhase' = SwitchPhase /\ sealed' = sealed
<1> SUFFICES ASSUME Inv, Inv', [Next]_vars
             PROVE  \/ SwitchPhase = "idle" /\ SwitchPhase' = "open" /\ sealed' = sealed
                    \/ SwitchPhase # "idle" /\ SwitchPhase' = "idle" /\ sealed' = sealed
                    \/ SwitchPhase = "open" /\ SwitchPhase' = "holding" /\ sealed' = TRUE
                    \/ SwitchPhase = "idle" /\ SwitchPhase' = SwitchPhase /\ sealed /\ sealed' = FALSE
                    \/ SwitchPhase' = SwitchPhase /\ sealed' = sealed
    OBVIOUS
<1> USE DEF SwitchPhase, Terminal
<1>0. /\ Commands /\ Control /\ rm \in RouteManager /\ sealed \in BOOLEAN
      /\ (rm.ksAdded => cfg.tun) /\ cfg' = cfg
      BY Fixed DEF Inv, Recorded, Control
<1>1. CASE StartWithoutTun \/ CreateTun
      BY <1>0, <1>1 DEF StartWithoutTun, CreateTun
<1>2. CASE DetectGateway
      BY <1>2 DEF DetectGateway, NewRouteManager
<1>3. CASE KsDelete \/ LookupEndpoint \/ AddRecorded \/ AddExclude \/ AddExtraRoute
           \/ AddSplitDefault \/ AddScoped \/ SetDNS \/ SystemResolvers \/ StartCache
           \/ DeleteDNSBypass \/ DeleteRecorded \/ ClearDNS \/ TunDown \/ CleanupDefault
           \/ RemoveDNSBypass
  <2>1. UNCHANGED <<pc, sealed>>
        BY <1>3 DEF KsDelete, LookupEndpoint, AddRecorded, AddExclude, AddExtraRoute,
             AddSplitDefault, AddScoped, SetDNS, SystemResolvers, StartCache, DeleteDNSBypass,
             DeleteRecorded, ClearDNS, TunDown, CleanupDefault, RemoveDNSBypass
  <2>2. \/ UNCHANGED rm \/ (\E list \in Lists : Record(list)) \/ rm' = [rm EXCEPT !.ks = TRUE]
        \/ rm' = [rm EXCEPT !.dnsSet = TRUE] \/ rm' = [rm EXCEPT !.dnsBypass = <<>>]
        BY <1>3 DEF KsDelete, LookupEndpoint, AddRecorded, AddExclude, AddExtraRoute,
             AddSplitDefault, AddScoped, SetDNS, SystemResolvers, StartCache, DeleteDNSBypass,
             DeleteRecorded, ClearDNS, TunDown, CleanupDefault, RemoveDNSBypass, Lists
  <2>3. rm'.ksAdded = rm.ksAdded
        BY <1>0, <2>2 DEF RouteManager, Record, Lists
  <2>4. QED
        BY <2>1, <2>3
<1>4. CASE KsAdd
  <2>1. ~rm.ksAdded /\ pc \in {"setup", "cleanup"} /\ pc' = pc
        BY <1>0, <1>4, KsSteps DEF KsAdd, Control, At
  <2>2. CASE rm' = [rm EXCEPT !.ks = TRUE, !.ksAdded = TRUE] /\ sealed' = TRUE
    <3>1. rm'.ksAdded
          BY <1>0, <2>2 DEF RouteManager
    <3>2. QED
          BY <2>1, <2>2, <3>1
  <2>3. CASE rm' = [rm EXCEPT !.ks = TRUE] /\ UNCHANGED sealed
    <3>1. ~rm'.ksAdded
          BY <1>0, <2>1, <2>3 DEF RouteManager
    <3>2. QED
          BY <2>1, <2>3, <3>1
  <2>4. QED
        BY <1>4, <2>2, <2>3 DEF KsAdd
<1>5. CASE CoreStarts \/ CtxDone \/ CloseTun
      BY <1>0, <1>5 DEF CoreStarts, CtxDone, CloseTun
<1>6. CASE CacheOver \/ Signal \/ RenewDefault \/ Finished \/ UNCHANGED vars
  <2>1. UNCHANGED <<pc, rm, sealed>>
        BY <1>6 DEF CacheOver, Signal, RenewDefault, Finished, vars
  <2>2. QED
        BY <2>1
<1>7. CASE Crash \/ Restart
      BY <1>7 DEF Crash, Restart
<1>8. CASE LiftKillSwitch
      BY <1>0, <1>8 DEF LiftKillSwitch
<1>9. QED
      BY <1>1, <1>2, <1>3, <1>4, <1>5, <1>6, <1>7, <1>8 DEF Next, Process, CacheJob, Environment

\* As long as no list on the command line names 0.0.0.0/0, the sessions of the macOS
\* client are behaviours of KillSwitch: in every interleaving of its commands and of the
\* goroutine that ends the DNS bypass with failures, crashes, restarts and lease renewals,
\* nothing but what the user and the endpoints name leaves a host that was told to be
\* sealed, until the user lifts the block (routes_darwin.go:236-250 and :254-325).
THEOREM PromiseKept ==
  ASSUME ListsOmitDefault PROVE Spec => KeepsPromise
<1>1. Init => Inv
      BY InvInit
<1>2. Inv /\ [Next]_vars => Inv'
      BY InvStep
<1>3. (Seal => (sealed => Leak = {}))'
      BY SealedIsTight, PTL
<1>4. Init => Promise!Init
      BY DEF Init, Promise!Init, SwitchPhase, Terminal, NewRouteManager
<1>5. Inv /\ Inv' /\ [Next]_vars => [Promise!Next]_Promise!vars
  <2> SUFFICES ASSUME Inv, Inv', [Next]_vars PROVE Promise!Next
      OBVIOUS
  <2>1. Promise!Blocked
        BY <1>3 DEF Promise!Blocked, Leak, Inv
  <2>2. QED
        BY <2>1, PhaseSteps
        DEF Promise!Next, Promise!Start, Promise!Stop, Promise!Seal, Promise!Lift, Promise!Route
<1>6. QED
      BY <1>1, <1>2, <1>4, <1>5, PTL DEF Spec, KeepsPromise, Promise!Spec

(***************************************************************************)
(* The tunnel takes the traffic.                                           *)
(***************************************************************************)
Has(s, x) == \E i \in DOMAIN s : s[i] = x

LEMMA HasConcat ==
  ASSUME NEW S, NEW s \in Seq(S), NEW t \in Seq(S), NEW x, Has(s, x) \/ Has(t, x)
  PROVE  Has(s \o t, x)
<1>1. /\ DOMAIN s = 1..Len(s) /\ DOMAIN t = 1..Len(t) /\ Len(s) \in Nat /\ Len(t) \in Nat
      /\ DOMAIN (s \o t) = 1..(Len(s) + Len(t))
      /\ \A i \in 1..Len(s) : (s \o t)[i] = s[i]
      /\ \A i \in 1..Len(t) : (s \o t)[Len(s) + i] = t[i]
      OBVIOUS
<1>2. CASE Has(s, x)
      BY <1>1, <1>2 DEF Has
<1>3. CASE Has(t, x)
  <2>1. PICK i \in 1..Len(t) : t[i] = x
        BY <1>1, <1>3 DEF Has
  <2>2. Len(s) + i \in DOMAIN (s \o t) /\ (s \o t)[Len(s) + i] = x
        BY <1>1, <2>1
  <2>3. QED
        BY <2>2 DEF Has
<1>4. QED
      BY <1>2, <1>3

\* A command that is not the one being run is still to be run afterwards.
LEMMA HasLater ==
  ASSUME NEW S, todo \in Seq(S), todo # <<>>, NEW then \in Seq(S), Done(then),
         NEW x, Has(todo, x), x # Head(todo)
  PROVE  Has(todo', x)
<1>1. Has(Tail(todo), x)
  <2>1. PICK i \in DOMAIN todo : todo[i] = x
        BY DEF Has
  <2>2. i \in 1..Len(todo) /\ i # 1
        BY <2>1
  <2>3. i - 1 \in DOMAIN Tail(todo) /\ Tail(todo)[i - 1] = x
        BY <2>1, <2>2
  <2>4. QED
        BY <2>3 DEF Has
<1>2. Tail(todo) \in Seq(S)
      OBVIOUS
<1>3. QED
      BY <1>1, <1>2, HasConcat DEF Done

\* The commands of the set-up take no route away, but for the kill switch's.
SetUpCommand ==
  [op: Routing \cup (Named \ {"del"})
         \cup {"ksDelete", "ksAdd", "api", "connect", "setDns", "resolvers", "startCache"},
   dst: Prefix]
SplitCommand(h) == [op |-> "split", dst |-> h]

LEMMA EachSetUp ==
  ASSUME NEW op \in Routing \cup (Named \ {"del"}), NEW dsts \in Seq(Prefix)
  PROVE  Each(op, dsts) \in Seq(SetUpCommand)
<1>1. \A i \in 1..Len(dsts) : [op |-> op, dst |-> dsts[i]] \in SetUpCommand
      BY DEF SetUpCommand
<1>2. Each(op, dsts) = [i \in 1..Len(dsts) |-> [op |-> op, dst |-> dsts[i]]]
      BY DEF Each
<1>3. QED
      BY <1>1, <1>2

LEMMA ConcatSetUp ==
  ASSUME NEW s \in Seq(SetUpCommand), NEW t \in Seq(SetUpCommand)
  PROVE  s \o t \in Seq(SetUpCommand)
OBVIOUS

LEMMA SetUpCommands ==
  ASSUME cfg \in Configs, NEW g
  PROVE  /\ SetUp(g) \in Seq(SetUpCommand)
         /\ cfg.defaultRoute => \A h \in {LowHalf, HighHalf} : Has(SetUp(g), SplitCommand(h))
<1>1. /\ cfg \in Config
      /\ cfg.excludes \in Seq(Prefix) /\ cfg.extras \in Seq(Prefix) /\ cfg.dns \in Seq(Prefix)
      /\ Halves \in Seq(Prefix)
  <2>1. LowHalf \in Prefix /\ HighHalf \in Prefix /\ Seq(Listed) \subseteq Seq(Prefix)
        /\ Seq(HostPrefix) \subseteq Seq(Listed)
        BY ListedPrefixes, SeqMonotonic
  <2>2. QED
        BY <2>1, Inputs DEF Halves
<1>2. /\ <<>> \in Seq(SetUpCommand) /\ Do("api") \in Seq(SetUpCommand)
      /\ Do("connect") \in Seq(SetUpCommand) /\ Do("ksDelete") \in Seq(SetUpCommand)
      /\ Do("ksAdd") \in Seq(SetUpCommand) /\ Do("setDns") \in Seq(SetUpCommand)
      /\ Do("resolvers") \in Seq(SetUpCommand) /\ Do("startCache") \in Seq(SetUpCommand)
  <2>1. \A op \in {"api", "connect", "ksDelete", "ksAdd", "setDns", "resolvers", "startCache"} :
          [op |-> op, dst |-> {}] \in SetUpCommand
        BY DEF SetUpCommand, Prefix
  <2>2. QED
        BY <2>1, EmptySeq DEF Do
<1>3. /\ Each("split", Halves) \in Seq(SetUpCommand)
      /\ Each("scopedSplit", Halves) \in Seq(SetUpCommand)
      /\ Each("exclude", cfg.excludes) \in Seq(SetUpCommand)
      /\ Each("scopedExclude", cfg.excludes) \in Seq(SetUpCommand)
      /\ Each("extra", cfg.extras) \in Seq(SetUpCommand)
      /\ \A op \in {"dnsBypass", "dnsTun"} : Each(op, cfg.dns) \in Seq(SetUpCommand)
      BY <1>1, EachSetUp DEF Routing, Named
<1>4. \A condition \in BOOLEAN, s \in Seq(SetUpCommand) : When(condition, s) \in Seq(SetUpCommand)
      BY <1>2 DEF When
<1> DEFINE Switch == When(cfg.killSwitch, When(KnownGateway(g), Do("ksDelete")) \o Do("ksAdd"))
<1>5. Switch \in Seq(SetUpCommand)
      BY <1>1, <1>2, <1>4, ConcatSetUp DEF Config, KnownGateway
<1> DEFINE First == (Switch \o Do("api")) \o Do("connect")
<1>6. First \in Seq(SetUpCommand)
      BY <1>2, <1>5, ConcatSetUp
<1>7. DefaultMode(g) = (First \o Each("split", Halves)) \o Each("exclude", cfg.excludes)
      BY DEF DefaultMode
<1> HIDE DEF Switch, First
<1>8. First \o Each("split", Halves) \in Seq(SetUpCommand)
      BY <1>3, <1>6, ConcatSetUp
<1>9. DefaultMode(g) \in Seq(SetUpCommand)
      BY <1>3, <1>7, <1>8, ConcatSetUp
<1>10. SocksMode \in Seq(SetUpCommand)
       BY <1>1, <1>3, <1>4, ConcatSetUp DEF SocksMode
<1>11. DnsMode(g) \in Seq(SetUpCommand)
  <2>1. CASE cfg.dns # <<>>
    <3>1. Each(IF KeepsDns THEN "dnsBypass" ELSE "dnsTun", cfg.dns) \in Seq(SetUpCommand)
          BY <1>3
    <3>2. When(cfg.service, Do("setDns")) \in Seq(SetUpCommand)
          /\ When(~cfg.defaultRoute, Each("dnsTun", cfg.dns)) \in Seq(SetUpCommand)
          BY <1>2, <1>3 DEF When
    <3>3. QED
          BY <2>1, <3>1, <3>2, ConcatSetUp DEF DnsMode
  <2>2. CASE cfg.dns = <<>>
        BY <1>2, <2>2 DEF DnsMode, When
  <2>3. QED
        BY <2>1, <2>2
<1> DEFINE Mode  == When(cfg.defaultRoute, DefaultMode(g))
           Rest1 == When(~cfg.defaultRoute /\ cfg.socks, SocksMode)
           Rest2 == Each("extra", cfg.extras)
           Rest4 == When(cfg.defaultRoute /\ cfg.bootstrap = "cache", Do("startCache"))
<1>12. /\ Mode \in Seq(SetUpCommand) /\ Rest1 \in Seq(SetUpCommand) /\ Rest2 \in Seq(SetUpCommand)
       /\ Rest4 \in Seq(SetUpCommand)
       BY <1>2, <1>3, <1>9, <1>10 DEF When
<1>13. SetUp(g) = (((Mode \o Rest1) \o Rest2) \o DnsMode(g)) \o Rest4
       BY DEF SetUp
<1>14. ASSUME cfg.defaultRoute, NEW h \in {LowHalf, HighHalf} PROVE Has(Mode, SplitCommand(h))
  <2>1. Mode = DefaultMode(g)
        BY <1>14 DEF When
  <2>2. Has(Each("split", Halves), SplitCommand(h))
    <3>1. DOMAIN Halves = {1, 2} /\ Halves[1] = LowHalf /\ Halves[2] = HighHalf
          BY DEF Halves
    <3>2. Each("split", Halves) = [i \in {1, 2} |-> [op |-> "split", dst |-> Halves[i]]]
          BY <3>1 DEF Each
    <3>3. QED
          BY <3>1, <3>2 DEF Has, SplitCommand
  <2>3. Has(First \o Each("split", Halves), SplitCommand(h))
        BY <1>3, <1>6, <2>2, HasConcat
  <2>4. Has((First \o Each("split", Halves)) \o Each("exclude", cfg.excludes), SplitCommand(h))
        BY <1>3, <1>8, <2>3, HasConcat
  <2>5. QED
        BY <1>7, <2>1, <2>4
<1> HIDE DEF Mode, Rest1, Rest2, Rest4
<1>15. /\ Mode \o Rest1 \in Seq(SetUpCommand) /\ (Mode \o Rest1) \o Rest2 \in Seq(SetUpCommand)
       /\ ((Mode \o Rest1) \o Rest2) \o DnsMode(g) \in Seq(SetUpCommand)
       BY <1>11, <1>12, ConcatSetUp
<1>16. SetUp(g) \in Seq(SetUpCommand)
       BY <1>12, <1>13, <1>15, ConcatSetUp
<1>17. ASSUME cfg.defaultRoute, NEW h \in {LowHalf, HighHalf} PROVE Has(SetUp(g), SplitCommand(h))
  <2>1. Has(Mode \o Rest1, SplitCommand(h))
        BY <1>12, <1>14, <1>17, HasConcat
  <2>2. Has((Mode \o Rest1) \o Rest2, SplitCommand(h))
        BY <1>12, <1>15, <2>1, HasConcat
  <2>3. Has(((Mode \o Rest1) \o Rest2) \o DnsMode(g), SplitCommand(h))
        BY <1>11, <1>15, <2>2, HasConcat
  <2>4. Has((((Mode \o Rest1) \o Rest2) \o DnsMode(g)) \o Rest4, SplitCommand(h))
        BY <1>12, <1>15, <2>3, HasConcat
  <2>5. QED
        BY <1>13, <2>4
<1>18. QED
       BY <1>16, <1>17

\* A route that is not the session's tunnel is general, or around the tunnel.
Tame(r) == r.dst \in General \/ r.dev = "tun" \/ r.dst \subseteq Around

\* What is specific and goes elsewhere was there before the session or is meant to, and
\* while the session is set up each half goes into the tunnel or will be sent there.
Tunnel ==
  /\ IsFiniteSet(table)
  /\ \A r \in table : Tame(r) \/ \E s \in before : s.dst = r.dst
  /\ pc = "setup" => todo \in Seq(SetUpCommand)
  /\ cfg.defaultRoute /\ "add" \notin faults /\ pc \in {"setup", "running"} =>
       \A h \in {LowHalf, HighHalf} : ToTun(h) \in table \/ Has(todo, SplitCommand(h))

\* No step adds more than one route.
LEMMA OneRouteAStep ==
  ASSUME Inv, [Next]_vars PROVE \E x : table' \subseteq table \cup {x} /\ Tame(x)
<1>0. Recorded /\ Control /\ Commands
      BY DEF Inv
<1> DEFINE Goal == \E x : table' \subseteq table \cup {x} /\ Tame(x)
<1>1. Tame(BlackholeDefault) /\ \A d : Tame(ToTun(d))
      BY Routes DEF Tame, General, Default
<1>2. ASSUME table' \subseteq table PROVE Goal
      BY <1>1, <1>2
<1>3. ASSUME NEW x, Tame(x), NEW t, t \subseteq table, table' = Add(t, x) \/ table' = t \cup {x} PROVE Goal
      BY <1>3, AddSubset
<1> SUFFICES Goal
    OBVIOUS
<1> HIDE DEF Goal
<1>4. CASE StartWithoutTun \/ CreateTun \/ DetectGateway \/ LookupEndpoint \/ AddScoped \/ SetDNS
           \/ SystemResolvers \/ StartCache \/ CoreStarts \/ CtxDone \/ DeleteDNSBypass \/ ClearDNS
           \/ CacheOver \/ Signal \/ Restart \/ Finished \/ UNCHANGED vars
      BY <1>2, <1>4 DEF StartWithoutTun, CreateTun, DetectGateway, LookupEndpoint, AddScoped, SetDNS,
         SystemResolvers, StartCache, CoreStarts, CtxDone, DeleteDNSBypass, ClearDNS,
         CacheOver, Signal, Restart, Finished, vars
<1>5. CASE KsDelete \/ DeleteRecorded \/ RemoveDNSBypass \/ TunDown \/ CloseTun \/ Crash
      BY <1>2, <1>5, RemovalSubset
      DEF KsDelete, DeleteRecorded, RemoveDNSBypass, DeleteRoute, TunDown, CloseTun, Crash
<1>6. CASE KsAdd
      BY <1>1, <1>2, <1>3, <1>6 DEF KsAdd
<1>7. CASE AddExtraRoute \/ AddSplitDefault
      BY <1>1, <1>2, <1>3, <1>7 DEF AddExtraRoute, AddSplitDefault
<1>8. ASSUME Head(todo).op \in Routing, Head(todo) \in Good
      PROVE  Tame(ViaGateway(dst)) /\ Tame(Reject(dst))
      BY <1>8, Routes DEF Good, Tame, dst
<1>9. CASE AddRecorded
  <2>1. PICK list \in {"ctrl", "dnsBypass", "dnsTun"} :
          /\ At(list)
          /\ \/ table' = Add(table, IF list = "dnsTun" THEN ToTun(dst) ELSE ViaGateway(dst))
             \/ UNCHANGED table
        BY <1>9 DEF AddRecorded
  <2>2. Head(todo) \in Good /\ Head(todo).op = list
        BY <1>0, <2>1, OneCommand
  <2>3. list # "dnsTun" => Head(todo).op \in Routing
        BY <2>2 DEF Routing
  <2>4. QED
        BY <1>1, <1>2, <1>3, <1>8, <2>1, <2>2, <2>3
<1>10. CASE AddExclude
  <2>1. At("exclude")
        BY <1>10 DEF AddExclude
  <2>2. Head(todo) \in Good /\ Head(todo).op \in Routing
        BY <1>0, <2>1, OneCommand DEF Routing
  <2>3. table' = Add(table, ViaGateway(dst)) \/ table' = Add(table, Reject(dst)) \/ UNCHANGED table
        BY <1>10 DEF AddExclude
  <2>4. QED
        BY <1>2, <1>3, <1>8, <2>2, <2>3
<1>11. CASE CleanupDefault
  <2>1. UNCHANGED table
        BY <1>0, <1>11 DEF CleanupDefault, Recorded
  <2>2. QED
        BY <1>2, <2>1
<1>12. \A r \in Defaults(host, Device) : Tame(r)
       BY DEF Defaults, Tame, General
<1>13. CASE RenewDefault \/ LiftKillSwitch
  <2>1. PICK r \in Defaults(host, Device) :
          table' = Add(table, r) \/ table' = Add(table \ {BlackholeDefault}, r)
        BY <1>13 DEF RenewDefault, LiftKillSwitch
  <2>2. QED
        BY <1>3, <1>12, <2>1
<1>14. QED
       BY <1>4, <1>5, <1>6, <1>7, <1>9, <1>10, <1>11, <1>13
       DEF Next, Process, CacheJob, Environment

LEMMA SetUpStep ==
  ASSUME Inv, Tunnel, [Next]_vars, pc' \in {"setup", "running"}
  PROVE  /\ pc' = "setup" => todo' \in Seq(SetUpCommand)
         /\ cfg.defaultRoute /\ "add" \notin faults =>
              \A h \in {LowHalf, HighHalf} : ToTun(h) \in table' \/ Has(todo', SplitCommand(h))
<1> DEFINE Goal == /\ pc' = "setup" => todo' \in Seq(SetUpCommand)
                   /\ cfg.defaultRoute /\ "add" \notin faults =>
                        \A h \in {LowHalf, HighHalf} :
                          ToTun(h) \in table' \/ Has(todo', SplitCommand(h))
<1>0. /\ Recorded /\ Control /\ Commands /\ cfg \in Configs
      /\ <<>> \in Seq(SetUpCommand)
      BY EmptySeq DEF Inv, Control
<1>1. ASSUME UNCHANGED todo, pc' = pc \/ (pc = "setup" /\ pc' = "running"), NEW d,
             table \ Matching(table, d) \subseteq table', d \notin {LowHalf, HighHalf}
      PROVE  Goal
  <2>1. \A h \in {LowHalf, HighHalf} : ToTun(h) \in table => ToTun(h) \in table'
        BY <1>1, Routes DEF Matching
  <2>2. QED
        BY <1>1, <2>1 DEF Tunnel
<1>2. ASSUME NEW then \in Seq(SetUpCommand), Done(then), pc' = pc, todo # <<>>, pc = "setup",
             Head(todo).op # "split", NEW d,
             table \ Matching(table, d) \subseteq table', d \notin {LowHalf, HighHalf}
      PROVE  Goal
  <2>1. todo \in Seq(SetUpCommand)
        BY <1>2 DEF Tunnel
  <2>2. Tail(todo) \in Seq(SetUpCommand)
        BY <1>2, <2>1
  <2>3. todo' \in Seq(SetUpCommand)
        BY <1>2, <2>2, ConcatSetUp DEF Done
  <2>4. \A h \in {LowHalf, HighHalf} : ToTun(h) \in table => ToTun(h) \in table'
        BY <1>2, Routes DEF Matching
  <2>5. \A h : SplitCommand(h) # Head(todo)
        BY <1>2 DEF SplitCommand
  <2>6. \A h : Has(todo, SplitCommand(h)) => Has(todo', SplitCommand(h))
        BY <1>2, <2>1, <2>5, HasLater
  <2>7. QED
        BY <1>2, <2>3, <2>4, <2>6 DEF Tunnel
<1>3. Default \notin {LowHalf, HighHalf} /\ \A x \in HostPrefix : x \notin {LowHalf, HighHalf}
      BY AddrAssumption DEF AddrAssumption, Default, HighHalf, HostPrefix, Host
<1> SUFFICES Goal
    OBVIOUS
<1> HIDE DEF Goal
<1>4. CASE CoreStarts \/ CacheOver \/ Signal \/ Finished \/ UNCHANGED vars
  <2>1. UNCHANGED <<todo, table>> /\ (pc' = pc \/ (pc = "setup" /\ pc' = "running"))
        BY <1>4 DEF CoreStarts, CacheOver, Signal, Finished, vars
  <2>2. QED
        BY <1>1, <1>3, <2>1
<1>5. CASE RenewDefault
  <2>1. UNCHANGED <<todo, pc>> /\ table \subseteq table'
        BY <1>5, AddSubset DEF RenewDefault
  <2>2. QED
        BY <1>1, <1>3, <2>1
<1>6. CASE RemoveDNSBypass
  <2>1. UNCHANGED <<todo, pc>>
        BY <1>6 DEF RemoveDNSBypass
  <2>2. CASE job.todo = <<>>
    <3>1. UNCHANGED table
          BY <1>6, <2>2 DEF RemoveDNSBypass
    <3>2. QED
          BY <1>1, <1>3, <2>1, <3>1
  <2>3. CASE job.todo # <<>>
    <3>1. Head(job.todo) \in HostPrefix
          BY <1>0, <2>3, HeadTailProperties DEF Recorded
    <3>2. table \ Matching(table, Head(job.todo)) \subseteq table'
          BY <1>6, <2>3 DEF RemoveDNSBypass, DeleteRoute
    <3>3. QED
          BY <1>1, <1>3, <2>1, <3>1, <3>2
  <2>4. QED
        BY <2>2, <2>3
<1>7. CASE StartWithoutTun \/ CreateTun \/ CtxDone \/ CloseTun \/ Crash \/ LiftKillSwitch \/ Restart
  <2>1. pc' \notin {"setup", "running"}
        BY <1>7 DEF StartWithoutTun, CreateTun, CtxDone, CloseTun, Crash, LiftKillSwitch, Restart,
           Terminal
  <2>2. QED
        BY <2>1
<1>8. CASE DetectGateway
  <2>1. todo' = SetUp(gw')
        BY <1>8 DEF DetectGateway
  <2>2. QED
        BY <1>0, <2>1, SetUpCommands DEF Goal
<1>9. ASSUME todo # <<>>, pc' = pc
      PROVE  pc = "setup" /\ Head(todo) \in SetUpCommand /\ todo \in Seq(SetUpCommand)
  <2>1. pc = "setup"
        BY <1>0, <1>9 DEF Control
  <2>2. todo \in Seq(SetUpCommand)
        BY <2>1 DEF Tunnel
  <2>3. QED
        BY <1>9, <2>1, <2>2, HeadTailProperties
<1>10. CASE KsDelete
  <2>1. /\ todo # <<>> /\ Head(todo).op = "ksDelete" /\ Done(<<>>) /\ pc' = pc
        /\ table \ Matching(table, Default) \subseteq table'
        BY <1>10 DEF KsDelete, DeleteRoute, At
  <2>2. QED
        BY <1>0, <1>2, <1>3, <1>9, <2>1
<1>11. CASE KsAdd \/ AddRecorded \/ AddExclude \/ AddExtraRoute \/ AddScoped \/ SetDNS \/ StartCache
  <2>1. /\ todo # <<>> /\ Head(todo).op # "split" /\ Done(<<>>) /\ pc' = pc
        BY <1>11 DEF KsAdd, AddRecorded, AddExclude, AddExtraRoute, AddScoped, SetDNS, StartCache, At
  <2>2. table \subseteq table'
        BY <1>11, AddSubset
        DEF KsAdd, AddRecorded, AddExclude, AddExtraRoute, AddScoped, SetDNS, StartCache
  <2>3. QED
        BY <1>0, <1>2, <1>3, <1>9, <2>1, <2>2
<1>12. CASE LookupEndpoint
  <2>1. PICK h \in {"api", "connect"} : At(h) /\ (Done(Each("ctrl", Answer[h])) \/ Done(<<>>))
        BY <1>12 DEF LookupEndpoint
  <2>2. Answer[h] \in Seq(Prefix)
        BY <1>0, Inputs, ListedPrefixes, SeqMonotonic
  <2>3. Each("ctrl", Answer[h]) \in Seq(SetUpCommand)
        BY <2>2, EachSetUp DEF Routing
  <2>4. todo # <<>> /\ Head(todo).op # "split" /\ UNCHANGED <<pc, table>>
        BY <1>12, <2>1 DEF LookupEndpoint, At
  <2>5. QED
        BY <1>0, <1>2, <1>3, <1>9, <2>1, <2>3, <2>4
<1>13. CASE SystemResolvers
  <2>1. At("resolvers") /\ (Done(Each("dnsBypass", Resolvers)) \/ Done(<<>>))
        BY <1>13 DEF SystemResolvers
  <2>2. Resolvers \in Seq(Prefix)
        BY <1>0, Inputs, ListedPrefixes, SeqMonotonic
  <2>3. Each("dnsBypass", Resolvers) \in Seq(SetUpCommand)
        BY <2>2, EachSetUp DEF Routing
  <2>4. todo # <<>> /\ Head(todo).op # "split" /\ UNCHANGED <<pc, table>>
        BY <1>13, <2>1 DEF SystemResolvers, At
  <2>5. QED
        BY <1>0, <1>2, <1>3, <1>9, <2>1, <2>3, <2>4
<1>14. CASE DeleteDNSBypass \/ DeleteRecorded \/ ClearDNS \/ TunDown \/ CleanupDefault
  <2>1. todo # <<>> /\ Head(todo).op \in {"del", "delDns", "clearDns", "down", "default"} /\ pc' = pc
        BY <1>14 DEF DeleteDNSBypass, DeleteRecorded, ClearDNS, TunDown, CleanupDefault, At
  <2>2. \A c \in SetUpCommand : c.op \notin {"del", "delDns", "clearDns", "down", "default"}
        BY DEF SetUpCommand, Routing, Named
  <2>3. QED
        BY <1>9, <2>1, <2>2
<1>15. CASE AddSplitDefault
  <2>1. /\ todo # <<>> /\ Head(todo).op = "split" /\ Done(<<>>) /\ pc' = pc
        BY <1>15 DEF AddSplitDefault, At
  <2>2. "add" \notin faults => table' = (table \ Matching(table, dst)) \cup {ToTun(dst)}
        BY <1>15 DEF AddSplitDefault, MayFail
  <2>3. todo \in Seq(SetUpCommand) /\ pc = "setup" /\ Head(todo) \in SetUpCommand
        BY <1>9, <2>1
  <2>4. todo' \in Seq(SetUpCommand)
    <3>1. Tail(todo) \in Seq(SetUpCommand)
          BY <2>1, <2>3
    <3>2. QED
          BY <1>0, <2>1, <3>1, ConcatSetUp DEF Done
  <2>5. ASSUME cfg.defaultRoute, "add" \notin faults, NEW h \in {LowHalf, HighHalf}
        PROVE  ToTun(h) \in table' \/ Has(todo', SplitCommand(h))
    <3>1. CASE h = dst
          BY <2>2, <2>5, <3>1
    <3>2. CASE h # dst
      <4>1. ToTun(h) \in table => ToTun(h) \in table'
            BY <2>2, <2>5, <3>2, Routes DEF Matching
      <4>2. SplitCommand(h) # Head(todo)
            BY <3>2 DEF SplitCommand, dst
      <4>3. Has(todo, SplitCommand(h)) => Has(todo', SplitCommand(h))
            BY <1>0, <2>1, <2>3, <4>2, HasLater
      <4>4. QED
            BY <2>3, <2>5, <4>1, <4>3 DEF Tunnel
    <3>3. QED
          BY <3>1, <3>2
  <2>6. QED
        BY <2>4, <2>5 DEF Goal
<1>16. QED
       BY <1>4, <1>5, <1>6, <1>7, <1>8, <1>10, <1>11, <1>12, <1>13, <1>14, <1>15
       DEF Next, Process, CacheJob, Environment

LEMMA TunnelInit == Init => Tunnel
<1> SUFFICES ASSUME Init PROVE Tunnel
    OBVIOUS
<1>1. table = before /\ table = host /\ pc = "start" /\ host \in HostTables
      BY DEF Init
<1>2. IsFiniteSet(table)
      BY <1>1, DarwinAssumption DEF DarwinAssumption
<1>3. QED
      BY <1>1, <1>2 DEF Tunnel

LEMMA TunnelStep == Inv /\ Tunnel /\ [Next]_vars => Tunnel'
<1> SUFFICES ASSUME Inv, Tunnel, [Next]_vars PROVE Tunnel'
    OBVIOUS
<1>1. PICK x : table' \subseteq table \cup {x} /\ Tame(x)
      BY OneRouteAStep
<1>2. IsFiniteSet(table')
  <2>1. IsFiniteSet(table \cup {x})
        BY FS_AddElement DEF Tunnel
  <2>2. QED
        BY <1>1, <2>1, FS_Subset
<1>3. \A r : Tame(r)' <=> Tame(r)
      BY Fixed DEF Tame
<1>4. before' = before \/ before' = table'
  <2>1. CASE Restart
        BY <2>1 DEF Restart
  <2>2. CASE ~Restart
        BY <2>2 DEF Next, Process, CacheJob, Environment, StartWithoutTun, CreateTun, DetectGateway,
           KsDelete, KsAdd, LookupEndpoint, AddRecorded, AddExclude, AddExtraRoute, AddSplitDefault,
           AddScoped, SetDNS, SystemResolvers, StartCache, CoreStarts, CtxDone, DeleteDNSBypass,
           DeleteRecorded, ClearDNS, TunDown, CleanupDefault, CloseTun, CacheOver, RemoveDNSBypass,
           Signal, Crash, RenewDefault, LiftKillSwitch, Finished, vars, session
  <2>3. QED
        BY <2>1, <2>2
<1>5. \A r \in table' : Tame(r)' \/ \E s \in before' : s.dst = r.dst
      BY <1>1, <1>3, <1>4 DEF Tunnel
<1>6. QED
      BY <1>2, <1>5, SetUpStep, Fixed DEF Tunnel

\* An address nobody routes more specifically matches a half, and nothing better but
\* what goes into the tunnel as well.
LEMMA HalvesTake ==
  ASSUME Inv, Tunnel, pc = "running", cfg.defaultRoute, "add" \notin faults, NEW a \in Addr,
         \A r \in table : a \in r.dst => r.dst \in General \/ r.dev = "tun"
  PROVE  GoesTo(table, a, {"tun"})
<1>1. todo = <<>>
      BY DEF Inv, Control
<1>2. \A h \in {LowHalf, HighHalf} : ToTun(h) \in table
      BY <1>1 DEF Tunnel, Has
<1>3. PICK h \in {LowHalf, HighHalf} : a \in h
      BY DEF HighHalf
<1>4. PICK r \in table : a \in r.dst /\ \A s \in table : a \in s.dst => ~Beats(s, r)
  <2>1. IsFiniteSet(table) /\ (\A r \in table : r.metric \in Nat)
        BY DEF Tunnel, Inv, Seal, OnePerPrefix
  <2>2. ToTun(h) \in table /\ a \in ToTun(h).dst
        BY <1>2, <1>3, Routes
  <2>3. QED
        BY <2>1, <2>2, BestMatch
<1>5. r.dev = "tun"
  <2>1. CASE r.dst = Default
    <3>1. Beats(ToTun(h), r)
          BY <1>3, <2>1, Routes, AddrAssumption DEF Beats, Default, HighHalf, AddrAssumption
    <3>2. QED
          BY <1>2, <1>3, <1>4, <3>1, Routes
  <2>2. CASE r.dst \in {LowHalf, HighHalf}
    <3>1. r = ToTun(r.dst)
          BY <1>2, <2>2, Routes DEF Inv, Seal, OnePerPrefix
    <3>2. QED
          BY <3>1, Routes
  <2>3. QED
        BY <1>4, <2>1, <2>2 DEF General
<1>6. QED
      BY <1>4, <1>5 DEF GoesTo

LEMMA TunnelTakes == Inv /\ Tunnel => TunnelsEverything
<1> SUFFICES ASSUME Inv, Tunnel, pc = "running", cfg.defaultRoute, "add" \notin faults,
                    NEW a \in Addr \ (Around \cup Specifics(before, General))
             PROVE  GoesTo(table, a, {"tun"})
    BY DEF TunnelsEverything
<1>1. ASSUME NEW r \in table, a \in r.dst PROVE r.dst \in General \/ r.dev = "tun"
  <2>1. r.dst \notin General => ~\E s \in before : s.dst = r.dst
        BY <1>1 DEF Specifics
  <2>2. QED
        BY <1>1, <2>1 DEF Tunnel, Tame
<1>2. QED
      BY <1>1, HalvesTake

\* While a default-route session runs whose commands worked, whatever table it found, what
\* its user did, and whenever the goroutine takes the DNS bypass away, an address nobody
\* routes more specifically goes into the tunnel (routes.go:11, routes_darwin.go:85-90).
THEOREM TunnelTakesAll == Spec => []TunnelsEverything
<1>1. Init => Tunnel
      BY TunnelInit
<1>2. QED
      BY <1>1, InvInit, InvStep, TunnelStep, TunnelTakes, PTL DEF Spec

(***************************************************************************)
(* A SOCKS-only session leaves the system's table alone.                   *)
(***************************************************************************)
\* Without --route nobody takes the host's default away, and no goroutine runs.
Bare == ~cfg.defaultRoute => Defaults(host, Device) \subseteq table /\ job.at = "off"

LEMMA BareStep == ASSUME ListsOmitDefault, Inv, Bare, [Next]_vars PROVE Bare'
<1> SUFFICES ASSUME ~cfg.defaultRoute
             PROVE  Defaults(host, Device) \subseteq table' /\ job'.at = "off"
    BY Fixed DEF Bare
<1>0. /\ Commands /\ Recorded
      /\ Defaults(host, Device) \subseteq table /\ job.at = "off"
      BY DEF Inv, Bare
<1>1. \A d : d # Default =>
         Defaults(host, Device) \subseteq table \ Matching(table, d)
      BY <1>0 DEF Matching, Defaults
<1>2. Defaults(host, Device) \subseteq table \ {BlackholeDefault}
      BY <1>0, Routes DEF Defaults
<1>3. CASE StartWithoutTun \/ CreateTun \/ DetectGateway \/ LookupEndpoint \/ AddScoped \/ SetDNS
           \/ SystemResolvers \/ CoreStarts \/ CtxDone \/ DeleteDNSBypass \/ ClearDNS
           \/ Signal \/ Restart \/ Finished \/ UNCHANGED vars
  <2>1. UNCHANGED <<table, job>>
        BY <1>3 DEF StartWithoutTun, CreateTun, DetectGateway, LookupEndpoint, AddScoped, SetDNS,
             SystemResolvers, CoreStarts, CtxDone, DeleteDNSBypass, ClearDNS,
             Signal, Restart, Finished, vars
  <2>2. QED
        BY <1>0, <2>1
<1>4. CASE KsDelete \/ KsAdd
  <2>1. todo # <<>> /\ Head(todo).op \in {"ksDelete", "ksAdd"}
        BY <1>4 DEF KsDelete, KsAdd, At
  <2>2. todo \in Seq(Good)
        BY <1>0 DEF Commands
  <2>3. Head(todo) \in Good
        BY <2>1, <2>2
  <2>4. QED
        BY <2>1, <2>3 DEF Good, Routing, Named, Single
<1>5. CASE StartCache
  <2>1. At("startCache")
        BY <1>5 DEF StartCache
  <2>2. Head(todo) \in Good /\ Head(todo).op = "startCache"
        BY <1>0, <2>1, OneCommand
  <2>3. QED
        BY <2>2 DEF Good
<1>6. CASE CacheOver \/ RemoveDNSBypass
      BY <1>0, <1>6 DEF CacheOver, RemoveDNSBypass
<1>7. CASE AddRecorded \/ AddExclude \/ AddExtraRoute
  <2>1. table \subseteq table' /\ UNCHANGED job
        BY <1>7, AddSubset DEF AddRecorded, AddExclude, AddExtraRoute
  <2>2. QED
        BY <1>0, <2>1
<1>8. CASE AddSplitDefault \/ DeleteRecorded
  <2>1. PICK op \in {"split", "del"} : At(op)
        BY <1>8 DEF AddSplitDefault, DeleteRecorded
  <2>2. dst \in Listed
    <3>1. Head(todo) \in Good /\ Head(todo).op = op
          BY <1>0, <2>1, OneCommand
    <3>2. QED
          BY <3>1 DEF Good, Named, dst
  <2>3. dst # Default
        BY <2>2, Routes
  <2>4. table \ Matching(table, dst) \subseteq table' /\ UNCHANGED job
        BY <1>8 DEF AddSplitDefault, DeleteRecorded, DeleteRoute
  <2>5. QED
        BY <1>0, <1>1, <2>3, <2>4
<1>9. CASE TunDown \/ CloseTun \/ Crash
  <2>1. table' \in {table, Flush(table, "tun")} /\ (job' = job \/ job' = NoJob)
        BY <1>9 DEF TunDown, CloseTun, Crash
  <2>2. Defaults(host, Device) \subseteq Flush(table, "tun")
        BY <1>0, Routes DEF Flush, Defaults
  <2>3. QED
        BY <1>0, <2>1, <2>2 DEF NoJob
<1>10. CASE CleanupDefault
  <2>1. UNCHANGED <<table, job>>
        BY <1>0, <1>10 DEF CleanupDefault, Recorded
  <2>2. QED
        BY <1>0, <2>1
<1>11. CASE RenewDefault \/ LiftKillSwitch
  <2>1. table \ {BlackholeDefault} \subseteq table' /\ UNCHANGED job
        BY <1>11, AddSubset DEF RenewDefault, LiftKillSwitch
  <2>2. QED
        BY <1>0, <1>2, <2>1
<1>12. QED
       BY <1>3, <1>4, <1>5, <1>6, <1>7, <1>8, <1>9, <1>10, <1>11
       DEF Next, Process, CacheJob, Environment

\* What such a session wants scoped to the TUN: the halves, or else the excluded prefixes.
Wanted       == IF cfg.excludes = <<>> THEN Halves ELSE cfg.excludes
WantedOp     == IF cfg.excludes = <<>> THEN "scopedSplit" ELSE "scopedExclude"
WantedSet    == {Wanted[i] : i \in DOMAIN Wanted}
ScopedCommand(d) == [op |-> WantedOp, dst |-> d]
ScopedRoute(d)   == IF cfg.excludes = <<>> THEN ToTun(d) ELSE Reject(d)

OnlySocks == /\ ~cfg.defaultRoute /\ cfg.socks /\ cfg.extras = <<>> /\ cfg.dns = <<>>
             /\ "add" \notin faults

LEMMA ScopedSetUp ==
  ASSUME cfg \in Configs, OnlySocks, NEW g
  PROVE  /\ SetUp(g) \in Seq({ScopedCommand(d) : d \in WantedSet})
         /\ \A d \in WantedSet : Has(SetUp(g), ScopedCommand(d))
<1>1. cfg.excludes \in Seq(Prefix)
      BY DarwinAssumption DEF DarwinAssumption, Config
<1>2. Each("extra", cfg.extras) = <<>>
  <2>1. DOMAIN <<>> = {}
        OBVIOUS
  <2>2. QED
        BY <2>1 DEF OnlySocks, Each
<1>3. DnsMode(g) = <<>>
      BY DEF DnsMode, OnlySocks, KeepsDns, When
<1>4. Each(WantedOp, Wanted) = [i \in 1..Len(Wanted) |-> ScopedCommand(Wanted[i])]
      /\ Wanted \in Seq(Prefix) /\ DOMAIN Wanted = 1..Len(Wanted)
  <2>1. Halves \in Seq(Prefix)
        BY AddrAssumption DEF AddrAssumption, Halves, Prefix, HighHalf
  <2>2. Wanted \in Seq(Prefix)
        BY <1>1, <2>1 DEF Wanted
  <2>3. DOMAIN Wanted = 1..Len(Wanted)
        BY <2>2
  <2>4. QED
        BY <2>2, <2>3 DEF Each, ScopedCommand
<1>5. Each(WantedOp, Wanted) \in Seq({ScopedCommand(d) : d \in WantedSet})
      BY <1>4 DEF WantedSet
<1>6. SocksMode = Each(WantedOp, Wanted)
  <2>1. CASE cfg.excludes = <<>>
    <3>1. Each("scopedExclude", cfg.excludes) = <<>>
      <4>1. DOMAIN <<>> = {}
            OBVIOUS
      <4>2. QED
            BY <2>1, <4>1 DEF Each
    <3>2. SocksMode = Each(WantedOp, Wanted) \o <<>>
          BY <2>1, <3>1 DEF SocksMode, OnlySocks, When, WantedOp, Wanted
    <3>3. QED
          BY <1>5, <3>2, ConcatEmptySeq
  <2>2. CASE cfg.excludes # <<>>
    <3>1. SocksMode = <<>> \o Each(WantedOp, Wanted)
          BY <2>2 DEF SocksMode, OnlySocks, When, WantedOp, Wanted
    <3>2. QED
          BY <1>5, <3>1, ConcatEmptySeq
  <2>3. QED
        BY <2>1, <2>2
<1>7. SetUp(g) = Each(WantedOp, Wanted)
  <2>1. SetUp(g) = (((<<>> \o Each(WantedOp, Wanted)) \o <<>>) \o <<>>) \o <<>>
        BY <1>2, <1>3, <1>6 DEF SetUp, OnlySocks, When
  <2>2. QED
        BY <1>5, <2>1, ConcatEmptySeq
<1>8. \A d \in WantedSet : Has(SetUp(g), ScopedCommand(d))
      BY <1>4, <1>7 DEF WantedSet, Has
<1>9. QED
      BY <1>5, <1>7, <1>8

\* The system's table is as it was, nothing is scoped before the set-up, and each wanted
\* prefix has its scoped route or will get it.
Scoped ==
  OnlySocks =>
    /\ pc \in {"start", "socksOnly", "detect"} \cup Terminal => scoped = {}
    /\ pc \in {"start", "detect", "setup", "running"} => table = before
    /\ pc \in {"setup", "running"} =>
         /\ todo \in Seq({ScopedCommand(d) : d \in WantedSet})
         /\ \A d \in WantedSet : ScopedRoute(d) \in scoped \/ Has(todo, ScopedCommand(d))
         /\ scoped \subseteq {ScopedRoute(d) : d \in WantedSet}

LEMMA ScopedFixed ==
  [Next]_vars =>
    /\ OnlySocks' = OnlySocks /\ WantedSet' = WantedSet
    /\ \A d : ScopedCommand(d)' = ScopedCommand(d) /\ ScopedRoute(d)' = ScopedRoute(d)
<1> SUFFICES ASSUME [Next]_vars
             PROVE  /\ OnlySocks' = OnlySocks /\ WantedSet' = WantedSet
                    /\ \A d : ScopedCommand(d)' = ScopedCommand(d) /\ ScopedRoute(d)' = ScopedRoute(d)
    OBVIOUS
<1>1. UNCHANGED <<cfg, faults>>
      BY Fixed
<1>2. OnlySocks' = OnlySocks
      BY <1>1 DEF OnlySocks
<1>3. Wanted' = Wanted /\ WantedOp' = WantedOp
      BY <1>1 DEF Wanted, WantedOp
<1>4. QED
      BY <1>1, <1>2, <1>3 DEF WantedSet, ScopedCommand, ScopedRoute, ToTun, Reject

LEMMA ScopedStep == ASSUME ListsOmitDefault, Inv, Bare, Scoped, [Next]_vars PROVE Scoped'
<1> DEFINE Commands2 == {ScopedCommand(d) : d \in WantedSet}
           Wish == /\ todo' \in Seq(Commands2)
                   /\ \A d \in WantedSet : ScopedRoute(d) \in scoped' \/ Has(todo', ScopedCommand(d))
                   /\ scoped' \subseteq {ScopedRoute(d) : d \in WantedSet}
           Goal == /\ pc' \in {"start", "socksOnly", "detect"} \cup Terminal => scoped' = {}
                   /\ pc' \in {"start", "detect", "setup", "running"} => table' = before'
                   /\ pc' \in {"setup", "running"} => Wish
<1> SUFFICES ASSUME OnlySocks PROVE Goal
    BY ScopedFixed DEF Scoped
<1>0. /\ Control /\ Recorded /\ Commands /\ cfg \in Configs
      /\ Defaults(host, Device) \subseteq table /\ job.at = "off"
      /\ pc \in {"start", "socksOnly", "detect"} \cup Terminal => scoped = {}
      /\ pc \in {"start", "detect", "setup", "running"} => table = before
      /\ pc \in {"setup", "running"} =>
           /\ todo \in Seq(Commands2)
           /\ \A d \in WantedSet : ScopedRoute(d) \in scoped \/ Has(todo, ScopedCommand(d))
           /\ scoped \subseteq {ScopedRoute(d) : d \in WantedSet}
      BY DEF Inv, Bare, Scoped, OnlySocks, Control
<1>1. \A c \in Commands2 : c.op \in {"scopedSplit", "scopedExclude"}
      BY DEF ScopedCommand, WantedOp
<1>2. CASE UNCHANGED <<table, scoped, before, pc, todo>>
      BY <1>0, <1>2
<1>3. CASE CacheOver \/ RemoveDNSBypass
      BY <1>0, <1>3 DEF CacheOver, RemoveDNSBypass
<1>4. CASE Signal \/ Finished \/ UNCHANGED vars
      BY <1>2, <1>4 DEF Signal, Finished, vars
<1>5. CASE RenewDefault
  <2>1. PICK r \in Defaults(host, Device) : Add(table, r) # table
        BY <1>5 DEF RenewDefault
  <2>2. r \in table
        BY <1>0
  <2>3. QED
        BY <2>1, <2>2 DEF Add
<1>6. CASE StartWithoutTun \/ CreateTun
  <2>1. /\ UNCHANGED <<table, scoped, before>> /\ pc = "start"
        /\ pc' \in {"socksOnly", "failed", "exited", "detect"}
        BY <1>6 DEF StartWithoutTun, CreateTun, session
  <2>2. QED
        BY <1>0, <2>1 DEF Terminal
<1>7. CASE DetectGateway
  <2>1. /\ todo' = SetUp(gw') /\ pc' = "setup" /\ pc = "detect"
        /\ UNCHANGED <<table, scoped, before>>
        BY <1>7 DEF DetectGateway, session
  <2>2. QED
        BY <1>0, <2>1, ScopedSetUp DEF Terminal
<1>8. CASE CoreStarts
      BY <1>0, <1>8 DEF CoreStarts, Terminal, session
<1>9. CASE CtxDone
      BY <1>0, <1>9 DEF CtxDone, Terminal, session
<1>10. CASE CloseTun \/ Crash
       BY <1>10 DEF CloseTun, Crash, Terminal
<1>11. CASE LiftKillSwitch
       BY <1>0, <1>11 DEF LiftKillSwitch, Terminal
<1>12. CASE Restart
       BY <1>0, <1>12 DEF Restart, Terminal
<1>13. ASSUME todo # <<>>, pc' = pc, pc = "setup" => Goal
       PROVE  Goal
       BY <1>0, <1>13 DEF Control, Terminal
<1>14. ASSUME todo # <<>>, pc = "setup"
       PROVE  /\ Head(todo) \in Commands2 /\ todo \in Seq(Commands2)
              /\ Head(todo).op \in {"scopedSplit", "scopedExclude"}
       BY <1>0, <1>1, <1>14, HeadTailProperties
<1>15. CASE KsDelete \/ KsAdd \/ LookupEndpoint \/ AddRecorded \/ AddExclude \/ AddExtraRoute
            \/ AddSplitDefault \/ SetDNS \/ SystemResolvers \/ StartCache
            \/ DeleteDNSBypass \/ DeleteRecorded \/ ClearDNS \/ TunDown \/ CleanupDefault
  <2>1. todo # <<>> /\ pc' = pc /\ Head(todo).op \notin {"scopedSplit", "scopedExclude"}
        BY <1>15 DEF KsDelete, KsAdd, LookupEndpoint, AddRecorded, AddExclude, AddExtraRoute,
             AddSplitDefault, SetDNS, SystemResolvers, StartCache, DeleteDNSBypass,
             DeleteRecorded, ClearDNS, TunDown, CleanupDefault, At
  <2>2. QED
        BY <1>13, <1>14, <2>1
<1>16. CASE AddScoped
  <2>1. PICK list \in {"split", "scopedExclude"} :
          /\ At(IF list = "split" THEN "scopedSplit" ELSE list) /\ Done(<<>>)
          /\ \/ scoped' = scoped \cup {IF list = "split" THEN ToTun(dst) ELSE Reject(dst)}
             \/ Matching(scoped, dst) # {} /\ UNCHANGED scoped
        BY <1>16 DEF AddScoped, MayFail, OnlySocks
  <2>2. todo # <<>> /\ pc' = pc /\ UNCHANGED <<table, before>>
        BY <1>16 DEF AddScoped, At, session
  <2>3. CASE pc = "setup"
    <3>1. PICK d \in WantedSet : Head(todo) = ScopedCommand(d)
          BY <1>14, <2>2, <2>3
    <3>2. dst = d /\ Head(todo).op = WantedOp
          BY <3>1 DEF dst, ScopedCommand
    <3>3. (IF list = "split" THEN ToTun(dst) ELSE Reject(dst)) = ScopedRoute(d)
          BY <2>1, <3>2 DEF At, ScopedRoute, WantedOp
    <3>4. ScopedRoute(d) \in scoped' /\ scoped \subseteq scoped'
          /\ scoped' \subseteq scoped \cup {ScopedRoute(d)}
      <4>1. \A e : ScopedRoute(e).dst = e
            BY Routes DEF ScopedRoute
      <4>2. Matching(scoped, dst) # {} => ScopedRoute(d) \in scoped
            BY <1>0, <2>3, <3>2, <4>1 DEF Matching
      <4>3. QED
            BY <2>1, <3>3, <4>2
    <3>5. todo' \in Seq(Commands2)
      <4>1. todo' = <<>> \o Tail(todo)
            BY <2>1 DEF Done
      <4>2. Tail(todo) \in Seq(Commands2)
            BY <1>14, <2>2, <2>3, HeadTailProperties
      <4>3. QED
            BY <4>1, <4>2, ConcatEmptySeq
    <3>6. \A e \in WantedSet : e # d /\ Has(todo, ScopedCommand(e)) => Has(todo', ScopedCommand(e))
      <4>1. \A e : e # d => ScopedCommand(e) # Head(todo)
            BY <3>1 DEF ScopedCommand
      <4>2. <<>> \in Seq(Commands2) /\ todo \in Seq(Commands2)
            BY <1>14, <2>2, <2>3, EmptySeq
      <4>3. QED
            BY <2>1, <2>2, <4>1, <4>2, HasLater
    <3>7. Wish
      <4>1. \A e \in WantedSet : ScopedRoute(e) \in scoped' \/ Has(todo', ScopedCommand(e))
            BY <1>0, <2>3, <3>4, <3>6
      <4>2. QED
            BY <1>0, <2>3, <3>4, <3>5, <4>1
    <3>8. QED
          BY <1>0, <2>2, <2>3, <3>7 DEF Terminal
  <2>4. QED
        BY <1>13, <2>2, <2>3
<1>17. QED
       BY <1>3, <1>4, <1>5, <1>6, <1>7, <1>8, <1>9, <1>10, <1>11, <1>12, <1>15, <1>16
       DEF Next, Process, CacheJob, Environment

\* The halves cover every address, and a bound socket sees no other route; where prefixes
\* are excluded, the best match of an excluded address is one of theirs.
LEMMA ScopedIsAll == ASSUME Inv, Scoped PROVE SocksOnlyScoped
<1> SUFFICES ASSUME pc = "running", OnlySocks
             PROVE  /\ table = before
                    /\ IF cfg.excludes = <<>> THEN \A a \in Addr : GoesTo(scoped, a, {"tun"})
                       ELSE \A a \in Addresses(cfg.excludes) : GoesTo(scoped, a, {"unreachable"})
    BY DEF SocksOnlyScoped, OnlySocks
<1>1. todo = <<>> /\ table = before /\ scoped \subseteq {ScopedRoute(d) : d \in WantedSet}
      BY DEF Inv, Control, Scoped, Terminal
<1>2. \A d \in WantedSet : ScopedRoute(d) \in scoped
      BY <1>1 DEF Scoped, Has
<1>3. CASE cfg.excludes = <<>>
  <2>1. WantedSet = {LowHalf, HighHalf} /\ \A d : ScopedRoute(d) = ToTun(d)
    <3>1. DOMAIN Halves = {1, 2} /\ Halves[1] = LowHalf /\ Halves[2] = HighHalf
          BY DEF Halves
    <3>2. QED
          BY <1>3, <3>1 DEF WantedSet, Wanted, ScopedRoute
  <2>2. ASSUME NEW a \in Addr PROVE GoesTo(scoped, a, {"tun"})
    <3>1. PICK h \in {LowHalf, HighHalf} : a \in h
          BY DEF HighHalf
    <3>2. \A s \in scoped : a \in s.dst => s = ToTun(h)
      <4>1. \A d \in {LowHalf, HighHalf} : a \in d => d = h
            BY <3>1 DEF HighHalf
      <4>2. \A s \in scoped : \E d \in {LowHalf, HighHalf} : s = ToTun(d)
            BY <1>1, <2>1
      <4>3. QED
            BY <4>1, <4>2, Routes
    <3>3. ~Beats(ToTun(h), ToTun(h))
          BY Routes DEF Beats
    <3>4. QED
          BY <1>2, <2>1, <3>1, <3>2, <3>3, Routes DEF GoesTo
  <2>3. QED
        BY <1>1, <1>3, <2>2
<1>4. CASE cfg.excludes # <<>>
  <2>1. WantedSet = {cfg.excludes[i] : i \in DOMAIN cfg.excludes} /\ \A d : ScopedRoute(d) = Reject(d)
        BY <1>4 DEF WantedSet, Wanted, ScopedRoute
  <2>2. IsFiniteSet(scoped)
    <3>1. cfg.excludes \in Seq(Prefix)
          BY DarwinAssumption DEF DarwinAssumption, Config, Inv, Control
    <3>2. IsFiniteSet(DOMAIN cfg.excludes)
      <4>1. DOMAIN cfg.excludes = 1..Len(cfg.excludes) /\ Len(cfg.excludes) \in Nat
            BY <3>1
      <4>2. QED
            BY <4>1, FS_Interval
    <3>3. IsFiniteSet({Reject(cfg.excludes[i]) : i \in DOMAIN cfg.excludes})
      <4> DEFINE T == {Reject(cfg.excludes[i]) : i \in DOMAIN cfg.excludes}
                 f == [i \in DOMAIN cfg.excludes |-> Reject(cfg.excludes[i])]
      <4>1. f \in Surjection(DOMAIN cfg.excludes, T)
            BY DEF Surjection
      <4>2. QED
            BY <3>2, <4>1, FS_Surjection
    <3>4. scoped \subseteq {Reject(cfg.excludes[i]) : i \in DOMAIN cfg.excludes}
          BY <1>1, <2>1
    <3>5. QED
          BY <3>3, <3>4, FS_Subset
  <2>3. \A r \in scoped : r.metric \in Nat /\ r.dev = "unreachable"
        BY <1>1, <2>1, Routes
  <2>4. ASSUME NEW a \in Addresses(cfg.excludes) PROVE GoesTo(scoped, a, {"unreachable"})
    <3>1. PICK d \in WantedSet : a \in d
          BY <2>1 DEF Addresses
    <3>2. Reject(d) \in scoped /\ a \in Reject(d).dst
          BY <1>2, <2>1, <3>1, Routes
    <3>3. PICK r \in scoped : a \in r.dst /\ \A s \in scoped : a \in s.dst => ~Beats(s, r)
          BY <2>2, <2>3, <3>2, BestMatch
    <3>4. QED
          BY <2>3, <3>3 DEF GoesTo
  <2>5. QED
        BY <1>1, <1>4, <2>4
<1>5. QED
      BY <1>3, <1>4

\* vpn_darwin.go:107: as long as no list on the command line names 0.0.0.0/0, a SOCKS-only
\* session without --route and --dns whose commands worked leaves the system's table as it
\* found it, while the host may renew its lease, and gives bound sockets their routes.
THEOREM SocksSessionsScoped ==
  ASSUME ListsOmitDefault PROVE Spec => []SocksOnlyScoped
<1>1. Init => Inv /\ Bare /\ Scoped
  <2>1. Init => Bare
        BY DEF Init, Bare, Defaults, NoJob
  <2>2. Init => Scoped
        BY DEF Init, Scoped
  <2>3. QED
        BY <2>1, <2>2, InvInit
<1>2. Inv /\ Bare /\ Scoped /\ [Next]_vars => (Inv /\ Bare /\ Scoped)'
      BY InvStep, BareStep, ScopedStep
<1>3. Inv /\ Scoped => SocksOnlyScoped
      BY ScopedIsAll
<1>4. QED
      BY <1>1, <1>2, <1>3, PTL DEF Spec

(***************************************************************************)
(* A session leaves the host's routes and resolvers as they were.          *)
(***************************************************************************)
Sealing == cfg.defaultRoute /\ cfg.killSwitch
Active == {"setup", "running", "cleanup"}

\* No host routes by itself what a session routes into its tunnel, or deletes though it
\* has not added it: the halves, --route, and what is excluded from a SOCKS-only session.
NoClash ==
  \A t \in HostTables, c \in Configs : \A r \in t :
    /\ r.dst \notin {LowHalf, HighHalf} /\ ~Has(c.extras, r.dst)
    /\ ~c.defaultRoute /\ c.socks => ~Has(c.excludes, r.dst)

\* Every default route of a host goes to a device.
DefaultsGoOut == \A t \in HostTables : \A r \in t : r.dst = Default => r.dev \in Device

\* The prefixes that may be deleted: the host has no route there that is to be kept.
Gone == {p \in Prefix : \A q \in before \cap host : q.dst = p => Sealing /\ p = Default}

\* Commands that matter for what is left at the end.
DelCommand(p) == [op |-> "del", dst |-> p]
DelDnsCommand == [op |-> "delDns", dst |-> {}]
SetDnsCommand == [op |-> "setDns", dst |-> {}]
ClearDnsCommand == [op |-> "clearDns", dst |-> {}]

\* What a set-up may consist of, and what Cleanup may.
Planned ==
  {c \in SetUpCommand :
     /\ c.op \in {"ksDelete", "ksAdd"} => Sealing
     /\ c.op \in {"split", "scopedSplit"} => c.dst \in {LowHalf, HighHalf}
     /\ c.op = "extra" => Has(cfg.extras, c.dst)
     /\ c.op = "exclude" => Has(cfg.excludes, c.dst)
     /\ c.op = "scopedExclude" => ~cfg.defaultRoute /\ cfg.socks /\ Has(cfg.excludes, c.dst)
     /\ c.op = "setDns" => cfg.tun /\ cfg.service /\ cfg.dns # <<>>
     /\ c.op = "ctrl" => c.dst \subseteq Endpoints
     /\ c.op = "dnsTun" => ~KeepsDns
     /\ c.op = "startCache" => KeepsDns /\ cfg.bootstrap = "cache"}
UndoOp == {"del", "delDns", "clearDns", "down", "default"}
Undo(prefixes) == {c \in [op: UndoOp, dst: Prefix] : c.op = "del" => c.dst \in prefixes}

\* Only the last command starts the goroutine.
CacheLast(s) == \A i \in DOMAIN s : s[i].op = "startCache" => i = Len(s)

\* The DNS bypass is still to be taken away, by the goroutine if it has begun.
Dns(p) == Has(rm.dnsBypass, p) /\ (job.at = "remove" => Has(job.todo, p))

\* The prefixes that the rest of the session deletes.
Pending(p) ==
  \/ pc \in {"setup", "running"} /\ (Has(rm.ctrl, p) \/ Has(rm.exclude, p) \/ Dns(p))
  \/ pc = "cleanup" /\ (Has(todo, DelCommand(p)) \/ (Has(todo, DelDnsCommand) /\ Dns(p)))

\* Why a route stands in the table.
Accounted(r) ==
  \/ r \in before \/ r \in Defaults(host, Device) \/ r.dev = "tun"
  \/ Sealing /\ r = BlackholeDefault
  \/ Pending(r.dst)

\* The host's own routes stand, but for the default in kill-switch mode.
HostKept == \A q \in before \cap host : q \in table \/ (Sealing /\ q.dst = Default)

\* Unless the process was killed, or deletes fail, every route has its reason.
AllAccounted == "del" \notin faults /\ pc # "crashed" => \A r \in table : Accounted(r)

\* Outside a session no goroutine runs and nothing is routed into a tunnel.
NoTun == pc \notin Active => job = NoJob /\ \A r \in table : r.dev # "tun"

\* What is recorded, and so deleted later, is not the host's.
Free == pc \in Active =>
  /\ \A list \in Lists : rm[list] \in Seq(Gone)
  /\ job.todo \in Seq(Gone)
  /\ pc = "cleanup" => todo \in Seq(Undo(Gone))

\* The list of commands is a set-up's or Cleanup's, and the goroutine starts after the set-up.
Course ==
  /\ pc = "setup" => todo \in Seq(Planned) /\ CacheLast(todo) /\ (job.at # "off" => todo = <<>>)
  /\ pc = "cleanup" => todo \in Seq(Undo(Prefix))

\* The resolvers are the client's only while the session knows, or will set them again,
\* unless networksetup fails.
Resolving ==
  /\ faults \in FaultSets
  /\ dns = "client" /\ "dns" \notin faults =>
       /\ cfg.tun /\ cfg.service /\ cfg.dns # <<>>
       /\ \/ pc \in {"setup", "running"} /\ rm.dnsSet
          \/ pc = "cleanup" /\ Has(todo, ClearDnsCommand)
          \/ "crash" \in faults /\ pc \in {"start", "detect", "failed", "crashed"}
          \/ "crash" \in faults /\ pc = "setup" /\ Has(todo, SetDnsCommand)

Restorable == HostKept /\ AllAccounted /\ NoTun /\ Free /\ Course /\ Resolving

\* What has been run is what was at the head.
LEMMA HasTail ==
  ASSUME NEW S, NEW s \in Seq(S), NEW x, Has(s, x)
  PROVE  s # <<>> /\ (x = Head(s) \/ Has(Tail(s), x))
<1>1. PICK i \in DOMAIN s : s[i] = x
      BY DEF Has
<1>2. i \in 1..Len(s) /\ s # <<>>
      BY <1>1
<1>3. CASE i = 1
      BY <1>1, <1>2, <1>3
<1>4. CASE i # 1
  <2>1. i - 1 \in DOMAIN Tail(s) /\ Tail(s)[i - 1] = x
        BY <1>1, <1>2, <1>4
  <2>2. QED
        BY <1>2, <2>1 DEF Has
<1>5. QED
      BY <1>3, <1>4

LEMMA HasEach ==
  ASSUME NEW op, NEW s, NEW x, Has(s, x) PROVE Has(Each(op, s), [op |-> op, dst |-> x])
<1>1. PICK i \in DOMAIN s : s[i] = x
      BY DEF Has
<1>2. i \in DOMAIN Each(op, s) /\ Each(op, s)[i] = [op |-> op, dst |-> x]
      BY <1>1 DEF Each
<1>3. QED
      BY <1>2 DEF Has

LEMMA HasAppend ==
  ASSUME NEW S, NEW s \in Seq(S), NEW y \in S, NEW x, Has(s, x) \/ x = y
  PROVE  Has(Append(s, y), x)
<1>1. /\ DOMAIN Append(s, y) = 1..(Len(s) + 1) /\ DOMAIN s = 1..Len(s) /\ Len(s) \in Nat
      /\ Append(s, y)[Len(s) + 1] = y
      /\ \A i \in 1..Len(s) : Append(s, y)[i] = s[i]
  <2>1. /\ Append(s, y) \in Seq(S) /\ Len(Append(s, y)) = Len(s) + 1
        /\ \A i \in 1..Len(s) : Append(s, y)[i] = s[i]
        /\ Append(s, y)[Len(s) + 1] = y
        BY AppendProperties
  <2>2. DOMAIN Append(s, y) = 1..Len(Append(s, y)) /\ DOMAIN s = 1..Len(s) /\ Len(s) \in Nat
        BY <2>1, LenProperties
  <2>3. QED
        BY <2>1, <2>2
<1>2. CASE Has(s, x)
  <2>1. PICK i \in 1..Len(s) : s[i] = x
        BY <1>1, <1>2 DEF Has
  <2>2. i \in 1..(Len(s) + 1) /\ Append(s, y)[i] = x
        BY <1>1, <2>1
  <2>3. QED
        BY <1>1, <2>2 DEF Has
<1>3. CASE x = y
      BY <1>1, <1>3 DEF Has
<1>4. QED
      BY <1>2, <1>3

\* The goroutine is started by the last command.
LEMMA CacheLastConcat ==
  ASSUME NEW S, NEW s \in Seq(S), NEW t \in Seq(S),
         \A i \in DOMAIN s : s[i].op # "startCache", CacheLast(t)
  PROVE  CacheLast(s \o t)
<1>1. /\ DOMAIN s = 1..Len(s) /\ DOMAIN t = 1..Len(t) /\ Len(s) \in Nat /\ Len(t) \in Nat
      /\ DOMAIN (s \o t) = 1..(Len(s) + Len(t)) /\ Len(s \o t) = Len(s) + Len(t)
      /\ \A i \in 1..Len(s) : (s \o t)[i] = s[i]
      /\ \A i \in 1..Len(t) : (s \o t)[Len(s) + i] = t[i]
      OBVIOUS
<1>2. SUFFICES ASSUME NEW i \in DOMAIN (s \o t), (s \o t)[i].op = "startCache"
               PROVE  i = Len(s \o t)
      BY DEF CacheLast
<1>3. i \notin 1..Len(s)
      BY <1>1, <1>2
<1>4. i - Len(s) \in 1..Len(t) /\ (s \o t)[i] = t[i - Len(s)]
  <2>1. i - Len(s) \in 1..Len(t) /\ Len(s) + (i - Len(s)) = i
        BY <1>1, <1>2, <1>3
  <2>2. QED
        BY <1>1, <2>1
<1>5. i - Len(s) = Len(t)
      BY <1>1, <1>2, <1>4 DEF CacheLast
<1>6. i = Len(s) + Len(t)
  <2>1. i \in 1..(Len(s) + Len(t)) /\ Len(s) \in Nat /\ Len(t) \in Nat
        BY <1>1, <1>2
  <2>2. \A a, b, c \in Nat : a - b = c => a = b + c
        OBVIOUS
  <2>3. QED
        BY <1>5, <2>1, <2>2
<1>7. QED
      BY <1>1, <1>6

LEMMA CacheLastTail ==
  ASSUME NEW S, NEW s \in Seq(S), s # <<>>, CacheLast(s)
  PROVE  CacheLast(Tail(s)) /\ (Head(s).op = "startCache" => Tail(s) = <<>>)
<1>1. /\ Len(s) \in Nat /\ Len(s) > 0 /\ DOMAIN s = 1..Len(s)
      /\ Tail(s) \in Seq(S) /\ Len(Tail(s)) = Len(s) - 1 /\ DOMAIN Tail(s) = 1..(Len(s) - 1)
      /\ \A i \in 1..(Len(s) - 1) : Tail(s)[i] = s[i + 1]
      OBVIOUS
<1>2. CacheLast(Tail(s))
  <2>1. SUFFICES ASSUME NEW i \in DOMAIN Tail(s), Tail(s)[i].op = "startCache"
                 PROVE  i = Len(Tail(s))
        BY DEF CacheLast
  <2>2. i + 1 \in DOMAIN s /\ s[i + 1].op = "startCache"
        BY <1>1, <2>1
  <2>3. i + 1 = Len(s)
        BY <2>2 DEF CacheLast
  <2>4. QED
        BY <1>1, <2>1, <2>3
<1>3. ASSUME Head(s).op = "startCache" PROVE Tail(s) = <<>>
  <2>1. 1 \in DOMAIN s /\ s[1].op = "startCache"
        BY <1>1, <1>3
  <2>2. Len(s) = 1
        BY <2>1 DEF CacheLast
  <2>3. QED
        BY <1>1, <2>2, EmptySeq
<1>4. QED
      BY <1>2, <1>3

\* What is planned before the goroutine is started.
Early == {c \in Planned : c.op # "startCache"}

LEMMA EachEarly ==
  ASSUME NEW op \in Routing \cup (Named \ {"del"}), NEW dsts \in Seq(Prefix),
         op \in {"split", "scopedSplit"} => \A p : Has(dsts, p) => p \in {LowHalf, HighHalf},
         op = "extra" => dsts = cfg.extras, op = "exclude" => dsts = cfg.excludes,
         op = "scopedExclude" => ~cfg.defaultRoute /\ cfg.socks /\ dsts = cfg.excludes,
         op = "ctrl" => \A p : Has(dsts, p) => p \subseteq Endpoints, op = "dnsTun" => ~KeepsDns
  PROVE  Each(op, dsts) \in Seq(Early)
<1>1. DOMAIN dsts = 1..Len(dsts) /\ \A i \in 1..Len(dsts) : dsts[i] \in Prefix /\ Has(dsts, dsts[i])
      BY DEF Has
<1>2. ASSUME NEW i \in 1..Len(dsts) PROVE [op |-> op, dst |-> dsts[i]] \in Early
  <2>1. [op |-> op, dst |-> dsts[i]] \in SetUpCommand
        BY <1>1 DEF SetUpCommand
  <2>2. op \notin {"ksDelete", "ksAdd", "setDns", "startCache"}
        BY DEF Routing, Named
  <2>3. dsts[i] \in Prefix /\ Has(dsts, dsts[i])
        BY <1>1
  <2>4. /\ op \in {"split", "scopedSplit"} => dsts[i] \in {LowHalf, HighHalf}
        /\ op = "ctrl" => dsts[i] \subseteq Endpoints
        BY <2>3
  <2>5. QED
        BY <2>1, <2>2, <2>3, <2>4 DEF Early, Planned
<1>3. Each(op, dsts) = [i \in 1..Len(dsts) |-> [op |-> op, dst |-> dsts[i]]]
      BY <1>1 DEF Each
<1>4. QED
      BY <1>2, <1>3

\* What a lookup's answer calls for.
LEMMA AnswersEarly ==
  ASSUME cfg \in Configs
  PROVE  /\ Each("dnsBypass", Resolvers) \in Seq(Early)
         /\ \A h \in {"api", "connect"} : Each("ctrl", Answer[h]) \in Seq(Early)
<1>1. Seq(HostPrefix) \subseteq Seq(Prefix)
      BY ListedPrefixes, SeqMonotonic
<1>2. \A q : \A h \in {"api", "connect"} : Has(Answer[h], q) => q \subseteq Endpoints
      BY DEF Has, Endpoints, Addresses
<1>3. QED
      BY <1>1, <1>2, Inputs, EachEarly DEF Routing

LEMMA EarlyConcat == ASSUME NEW s \in Seq(Early), NEW t \in Seq(Early) PROVE s \o t \in Seq(Early)
OBVIOUS

LEMMA EarlyCommands ==
  /\ Seq(Early) \subseteq Seq(Planned)
  /\ \A s \in Seq(Early) : \A i \in DOMAIN s : s[i].op # "startCache"
<1>1. Seq(Early) \subseteq Seq(Planned)
      BY SeqMonotonic DEF Early
<1>2. \A s \in Seq(Early) : \A i \in DOMAIN s : s[i] \in Early
      OBVIOUS
<1>3. QED
      BY <1>1, <1>2 DEF Early

LEMMA SetUpPlanned ==
  ASSUME cfg \in Configs, cfg.tun, NEW g
  PROVE  /\ SetUp(g) \in Seq(Planned) /\ CacheLast(SetUp(g))
         /\ cfg.service /\ cfg.dns # <<>> => Has(SetUp(g), SetDnsCommand)
<1>1. /\ cfg \in Config
      /\ cfg.excludes \in Seq(Prefix) /\ cfg.extras \in Seq(Prefix) /\ cfg.dns \in Seq(Prefix)
      /\ Halves \in Seq(Prefix)
  <2>1. LowHalf \in Prefix /\ HighHalf \in Prefix /\ Seq(Listed) \subseteq Seq(Prefix)
        /\ Seq(HostPrefix) \subseteq Seq(Listed)
        BY ListedPrefixes, SeqMonotonic
  <2>2. QED
        BY <2>1, Inputs DEF Halves
<1>2. /\ <<>> \in Seq(Early) /\ Do("api") \in Seq(Early) /\ Do("connect") \in Seq(Early)
      /\ Do("resolvers") \in Seq(Early)
      /\ (Sealing => Do("ksDelete") \in Seq(Early) /\ Do("ksAdd") \in Seq(Early))
      /\ (cfg.service /\ cfg.dns # <<>> => Do("setDns") \in Seq(Early))
  <2>1. \A op \in {"api", "connect", "ksDelete", "ksAdd", "setDns", "resolvers"} :
          [op |-> op, dst |-> {}] \in SetUpCommand
        BY DEF SetUpCommand, Prefix
  <2>2. [op |-> "api", dst |-> {}] \in Early /\ [op |-> "connect", dst |-> {}] \in Early
        /\ [op |-> "resolvers", dst |-> {}] \in Early
        BY <2>1 DEF Early, Planned
  <2>3. Sealing => [op |-> "ksDelete", dst |-> {}] \in Early /\ [op |-> "ksAdd", dst |-> {}] \in Early
        BY <2>1 DEF Early, Planned
  <2>4. cfg.service /\ cfg.dns # <<>> => [op |-> "setDns", dst |-> {}] \in Early
        BY <2>1 DEF Early, Planned
  <2>5. QED
        BY <2>2, <2>3, <2>4, EmptySeq DEF Do
<1>3. \A p : Has(Halves, p) => p \in {LowHalf, HighHalf}
  <2>1. DOMAIN Halves = {1, 2} /\ Halves[1] = LowHalf /\ Halves[2] = HighHalf
        BY DEF Halves
  <2>2. QED
        BY <2>1 DEF Has
<1>4. /\ Each("split", Halves) \in Seq(Early) /\ Each("scopedSplit", Halves) \in Seq(Early)
      /\ Each("exclude", cfg.excludes) \in Seq(Early) /\ Each("extra", cfg.extras) \in Seq(Early)
      /\ Each("dnsBypass", cfg.dns) \in Seq(Early)
      /\ ~KeepsDns => Each("dnsTun", cfg.dns) \in Seq(Early)
      BY <1>1, <1>3, EachEarly DEF Routing, Named
<1>5. ~cfg.defaultRoute /\ cfg.socks => Each("scopedExclude", cfg.excludes) \in Seq(Early)
      BY <1>1, EachEarly DEF Routing, Named
<1> DEFINE Switch == When(cfg.killSwitch, When(KnownGateway(g), Do("ksDelete")) \o Do("ksAdd"))
<1>6. cfg.defaultRoute => Switch \in Seq(Early)
  <2>1. CASE cfg.defaultRoute /\ cfg.killSwitch
    <3>1. Do("ksDelete") \in Seq(Early) /\ Do("ksAdd") \in Seq(Early)
          BY <1>2, <2>1 DEF Sealing
    <3>2. When(KnownGateway(g), Do("ksDelete")) \in Seq(Early)
          BY <1>2, <3>1 DEF When
    <3>3. QED
          BY <2>1, <3>1, <3>2, EarlyConcat DEF When
  <2>2. CASE ~cfg.killSwitch
        BY <1>2, <2>2 DEF When
  <2>3. QED
        BY <2>1, <2>2
<1>7. cfg.defaultRoute => DefaultMode(g) \in Seq(Early)
  <2> HIDE DEF Switch
  <2>1. DefaultMode(g) = (((Switch \o Do("api")) \o Do("connect")) \o Each("split", Halves))
                           \o Each("exclude", cfg.excludes)
        BY DEF DefaultMode, Switch
  <2>2. QED
        BY <1>2, <1>4, <1>6, <2>1, EarlyConcat
<1>8. ~cfg.defaultRoute /\ cfg.socks => SocksMode \in Seq(Early)
  <2>1. When(cfg.extras = <<>> /\ cfg.excludes = <<>>, Each("scopedSplit", Halves)) \in Seq(Early)
        BY <1>2, <1>4 DEF When
  <2>2. QED
        BY <1>5, <2>1, EarlyConcat DEF SocksMode
<1> DEFINE SetDns == When(cfg.service, Do("setDns"))
           DnsRoutes == Each(IF KeepsDns THEN "dnsBypass" ELSE "dnsTun", cfg.dns)
           DnsAgain == When(~cfg.defaultRoute, Each("dnsTun", cfg.dns))
<1>9. ASSUME cfg.dns # <<>>
      PROVE  /\ DnsMode(g) = (SetDns \o DnsRoutes) \o DnsAgain
             /\ SetDns \in Seq(Early) /\ DnsRoutes \in Seq(Early) /\ DnsAgain \in Seq(Early)
             /\ SetDns \o DnsRoutes \in Seq(Early)
  <2>1. SetDns \in Seq(Early)
        BY <1>2, <1>9 DEF When
  <2>2. DnsRoutes \in Seq(Early)
        BY <1>4
  <2>3. DnsAgain \in Seq(Early)
        BY <1>2, <1>4 DEF When, KeepsDns
  <2>4. DnsMode(g) = (SetDns \o DnsRoutes) \o DnsAgain
        BY <1>9 DEF DnsMode
  <2>5. SetDns \o DnsRoutes \in Seq(Early)
        BY <2>1, <2>2, EarlyConcat
  <2>6. QED
        BY <2>1, <2>2, <2>3, <2>4, <2>5
<1>10. DnsMode(g) \in Seq(Early)
  <2>1. CASE cfg.dns # <<>>
        BY <1>9, <2>1, EarlyConcat
  <2>2. CASE cfg.dns = <<>>
        BY <1>2, <2>2 DEF DnsMode, When
  <2>3. QED
        BY <2>1, <2>2
<1>11. cfg.service /\ cfg.dns # <<>> => Has(DnsMode(g), SetDnsCommand)
  <2> SUFFICES ASSUME cfg.service, cfg.dns # <<>> PROVE Has(DnsMode(g), SetDnsCommand)
      OBVIOUS
  <2>1. SetDns = <<SetDnsCommand>>
        BY DEF When, Do, SetDnsCommand
  <2>2. Has(SetDns, SetDnsCommand)
    <3>1. DOMAIN <<SetDnsCommand>> = {1} /\ <<SetDnsCommand>>[1] = SetDnsCommand
          OBVIOUS
    <3>2. QED
          BY <2>1, <3>1 DEF Has
  <2> HIDE DEF SetDns, DnsRoutes, DnsAgain
  <2>3. Has(SetDns \o DnsRoutes, SetDnsCommand)
        BY <1>9, <2>2, HasConcat
  <2>4. Has((SetDns \o DnsRoutes) \o DnsAgain, SetDnsCommand)
        BY <1>9, <2>3, HasConcat
  <2>5. DnsMode(g) = (SetDns \o DnsRoutes) \o DnsAgain
        BY <1>9
  <2>6. QED
        BY <2>4, <2>5
<1> DEFINE Mode == When(cfg.defaultRoute, DefaultMode(g))
           Rest == When(~cfg.defaultRoute /\ cfg.socks, SocksMode)
           Extra == Each("extra", cfg.extras)
           Last == When(cfg.defaultRoute /\ cfg.bootstrap = "cache", Do("startCache"))
           Body == ((Mode \o Rest) \o Extra) \o DnsMode(g)
<1>12. Mode \in Seq(Early) /\ Rest \in Seq(Early) /\ Extra \in Seq(Early)
       BY <1>2, <1>4, <1>7, <1>8 DEF When
<1>13. Last \in Seq(Planned) /\ CacheLast(Last)
  <2>1. <<>> \in Seq(Planned) /\ CacheLast(<<>>)
    <3>1. DOMAIN <<>> = {}
          OBVIOUS
    <3>2. QED
          BY <3>1, EmptySeq DEF CacheLast
  <2>2. cfg.defaultRoute /\ cfg.bootstrap = "cache" => Do("startCache") \in Seq(Planned)
    <3>1. [op |-> "startCache", dst |-> {}] \in SetUpCommand
          BY DEF SetUpCommand, Prefix
    <3>2. cfg.defaultRoute /\ cfg.bootstrap = "cache" => [op |-> "startCache", dst |-> {}] \in Planned
          BY <3>1 DEF Planned, KeepsDns
    <3>3. QED
          BY <3>2 DEF Do
  <2>3. CacheLast(Do("startCache"))
    <3>1. DOMAIN Do("startCache") = {1} /\ Len(Do("startCache")) = 1
          BY DEF Do
    <3>2. \A s : DOMAIN s = {1} /\ Len(s) = 1 => CacheLast(s)
          BY DEF CacheLast
    <3>3. QED
          BY <3>1, <3>2
  <2>4. QED
        BY <2>1, <2>2, <2>3 DEF When
<1>14. SetUp(g) = Body \o Last
       BY DEF SetUp
<1> HIDE DEF Mode, Rest, Extra, Last
<1>15. (Mode \o Rest) \o Extra \in Seq(Early) /\ Body \in Seq(Early)
       BY <1>10, <1>12, EarlyConcat
<1>16. cfg.service /\ cfg.dns # <<>> => Has(Body, SetDnsCommand)
       BY <1>10, <1>11, <1>15, HasConcat
<1> HIDE DEF Body
<1>17. Body \in Seq(Planned) /\ \A i \in DOMAIN Body : Body[i].op # "startCache"
       BY <1>15, EarlyCommands
<1>18. CacheLast(Body \o Last)
       BY <1>13, <1>17, CacheLastConcat
<1>19. Body \o Last \in Seq(Planned)
       BY <1>13, <1>17
<1>20. cfg.service /\ cfg.dns # <<>> => Has(Body \o Last, SetDnsCommand)
       BY <1>13, <1>16, <1>17, HasConcat
<1>21. QED
       BY <1>14, <1>18, <1>19, <1>20

LEMMA UndoConcat ==
  ASSUME NEW G, NEW s \in Seq(Undo(G)), NEW t \in Seq(Undo(G))
  PROVE  s \o t \in Seq(Undo(G)) /\ \A x : Has(s, x) \/ Has(t, x) => Has(s \o t, x)
BY HasConcat

LEMMA EachUndo ==
  ASSUME NEW G, G \subseteq Prefix, NEW s \in Seq(G)
  PROVE  /\ Each("del", s) \in Seq(Undo(G))
         /\ \A p : Has(s, p) => Has(Each("del", s), DelCommand(p))
<1>1. DOMAIN s = 1..Len(s) /\ \A i \in 1..Len(s) : s[i] \in G
      OBVIOUS
<1>2. \A i \in 1..Len(s) : [op |-> "del", dst |-> s[i]] \in Undo(G)
      BY <1>1 DEF Undo, UndoOp
<1>3. Each("del", s) = [i \in 1..Len(s) |-> [op |-> "del", dst |-> s[i]]]
      BY <1>1 DEF Each
<1>4. QED
      BY <1>2, <1>3, HasEach DEF DelCommand

\* What Cleanup undoes: all that is recorded.
LEMMA CleanUpUndo ==
  ASSUME NEW K, K \subseteq Prefix, \A list \in Lists : rm[list] \in Seq(K)
  PROVE  /\ CleanUp \in Seq(Undo(K))
         /\ \A p : Has(rm.ctrl, p) \/ Has(rm.exclude, p) => Has(CleanUp, DelCommand(p))
         /\ Has(CleanUp, DelDnsCommand)
         /\ rm.dnsSet => Has(CleanUp, ClearDnsCommand)
<1> DEFINE A == Each("del", rm.split)
           B == Each("del", rm.exclude)
           C == Each("del", rm.scopedExclude)
           D == Each("del", rm.ctrl)
           E == Do("delDns")
           F == Each("del", rm.extra)
           G == Each("del", rm.dnsTun)
           H == When(rm.dnsSet, Do("clearDns"))
           I == Do("down")
           J == Do("default")
           S1 == ((A \o B) \o C) \o D
           S2 == S1 \o E
           S3 == (S2 \o F) \o G
           S4 == S3 \o H
<1>1. /\ A \in Seq(Undo(K)) /\ B \in Seq(Undo(K)) /\ C \in Seq(Undo(K)) /\ D \in Seq(Undo(K))
      /\ F \in Seq(Undo(K)) /\ G \in Seq(Undo(K))
      /\ \A p : Has(rm.ctrl, p) => Has(D, DelCommand(p))
      /\ \A p : Has(rm.exclude, p) => Has(B, DelCommand(p))
  <2>1. /\ rm["split"] \in Seq(K) /\ rm["exclude"] \in Seq(K)
        /\ rm["scopedExclude"] \in Seq(K) /\ rm["ctrl"] \in Seq(K)
        /\ rm["extra"] \in Seq(K) /\ rm["dnsTun"] \in Seq(K)
        BY DEF Lists
  <2>2. QED
        BY <2>1, EachUndo
<1>2. \A op \in {"delDns", "clearDns", "down", "default"} : Do(op) \in Seq(Undo(K))
  <2>1. \A op \in {"delDns", "clearDns", "down", "default"} : [op |-> op, dst |-> {}] \in Undo(K)
        BY DEF Undo, UndoOp, Prefix
  <2>2. \A c \in Undo(K) : <<c>> \in Seq(Undo(K))
        OBVIOUS
  <2>3. QED
        BY <2>1, <2>2 DEF Do
<1>3. Has(E, DelDnsCommand) /\ Has(Do("clearDns"), ClearDnsCommand)
  <2>1. \A x : Has(<<x>>, x)
    <3>1. \A x : DOMAIN <<x>> = {1} /\ <<x>>[1] = x
          OBVIOUS
    <3>2. QED
          BY <3>1 DEF Has
  <2>2. Has(<<DelDnsCommand>>, DelDnsCommand) /\ Has(<<ClearDnsCommand>>, ClearDnsCommand)
        BY <2>1
  <2>3. Do("delDns") = <<DelDnsCommand>> /\ Do("clearDns") = <<ClearDnsCommand>>
        BY DEF Do, DelDnsCommand, ClearDnsCommand
  <2>4. QED
        BY <2>2, <2>3
<1>4. H \in Seq(Undo(K)) /\ (rm.dnsSet => Has(H, ClearDnsCommand))
  <2>1. CASE rm.dnsSet
    <3>1. H = Do("clearDns")
          BY <2>1 DEF When
    <3>2. QED
          BY <1>2, <1>3, <3>1
  <2>2. CASE ~rm.dnsSet
    <3>1. H = <<>>
          BY <2>2 DEF When
    <3>2. QED
          BY <2>2, <3>1, EmptySeq
  <2>3. QED
        BY <2>1, <2>2
<1>5. E \in Seq(Undo(K)) /\ I \in Seq(Undo(K)) /\ J \in Seq(Undo(K))
      BY <1>2
<1>6. CleanUp = (S4 \o I) \o J
      BY DEF CleanUp
<1> HIDE DEF A, B, C, D, E, F, G, H, I, J
<1>7. A \o B \in Seq(Undo(K)) /\ \A p : Has(rm.exclude, p) => Has(A \o B, DelCommand(p))
      BY <1>1, UndoConcat
<1>8. (A \o B) \o C \in Seq(Undo(K)) /\ \A p : Has(rm.exclude, p) => Has((A \o B) \o C, DelCommand(p))
      BY <1>1, <1>7, UndoConcat
<1>9. S1 \in Seq(Undo(K)) /\ \A p : Has(rm.ctrl, p) \/ Has(rm.exclude, p) => Has(S1, DelCommand(p))
      BY <1>1, <1>8, UndoConcat
<1> HIDE DEF S1
<1>10. S2 \in Seq(Undo(K)) /\ (\A x : Has(S1, x) => Has(S2, x)) /\ Has(S2, DelDnsCommand)
       BY <1>3, <1>5, <1>9, UndoConcat
<1> HIDE DEF S2
<1>11. S2 \o F \in Seq(Undo(K)) /\ (\A x : Has(S2, x) => Has(S2 \o F, x))
       BY <1>1, <1>10, UndoConcat
<1>12. S3 \in Seq(Undo(K)) /\ (\A x : Has(S2 \o F, x) => Has(S3, x))
       BY <1>1, <1>11, UndoConcat
<1> HIDE DEF S3
<1>13. S4 \in Seq(Undo(K)) /\ (\A x : Has(S3, x) => Has(S4, x)) /\ (rm.dnsSet => Has(S4, ClearDnsCommand))
       BY <1>4, <1>12, UndoConcat
<1> HIDE DEF S4
<1>14. S4 \o I \in Seq(Undo(K)) /\ (\A x : Has(S4, x) => Has(S4 \o I, x))
       BY <1>5, <1>13, UndoConcat
<1>15. CleanUp \in Seq(Undo(K)) /\ (\A x : Has(S4 \o I, x) => Has(CleanUp, x))
       BY <1>5, <1>6, <1>14, UndoConcat
<1>16. \A x : Has(S1, x) \/ Has(S2, x) \/ Has(S4, x) => Has(CleanUp, x)
       BY <1>10, <1>11, <1>12, <1>13, <1>14, <1>15
<1>17. QED
       BY <1>9, <1>10, <1>13, <1>15, <1>16

LEMMA RecordedPrefixes ==
  ASSUME Recorded PROVE (\A list \in Lists : rm[list] \in Seq(Prefix)) /\ job.todo \in Seq(Prefix)
<1>1. Seq(HostPrefix) \subseteq Seq(Prefix) /\ Seq(Listed) \subseteq Seq(Prefix)
      BY ListedPrefixes, SeqMonotonic
<1>2. \A list \in Lists : rm[list] \in Seq(HostPrefix) \/ rm[list] \in Seq(Listed)
      BY DEF Recorded, RouteManager, Lists
<1>3. job.todo \in Seq(HostPrefix)
      BY DEF Recorded
<1>4. QED
      BY <1>1, <1>2, <1>3

\* What a session plans and may delete does not change while it lasts.
LEMMA Unchanging ==
  ASSUME [Next]_vars
  PROVE  /\ Sealing' = Sealing /\ Planned' = Planned
         /\ before' = before => Gone' = Gone
<1>1. UNCHANGED <<cfg, faults, host>>
      BY Fixed
<1>2. Sealing' = Sealing
      BY <1>1 DEF Sealing
<1>3. Planned' = Planned
      BY <1>1, <1>2 DEF Planned, KeepsDns, Endpoints
<1>4. before' = before => Gone' = Gone
      BY <1>1, <1>2 DEF Gone
<1>5. QED
      BY <1>2, <1>3, <1>4

\* The operations of the set-up.
SetUpOp == Routing \cup (Named \ {"del"})
             \cup {"ksDelete", "ksAdd", "api", "connect", "setDns", "resolvers", "startCache"}

\* A command says in which part of the session it runs.
LEMMA Running ==
  ASSUME Inv, Course, NEW op, At(op)
  PROVE  /\ todo # <<>>
         /\ op \in SetUpOp =>
              /\ pc = "setup" /\ todo \in Seq(Planned) /\ Head(todo) \in Planned
              /\ Tail(todo) \in Seq(Planned) /\ CacheLast(todo) /\ CacheLast(Tail(todo))
              /\ job.at = "off"
         /\ op \in UndoOp =>
              /\ pc = "cleanup" /\ todo \in Seq(Undo(Prefix)) /\ Head(todo) \in Undo(Prefix)
              /\ Tail(todo) \in Seq(Undo(Prefix))
<1>1. todo # <<>> /\ Head(todo).op = op /\ pc \in {"setup", "cleanup"}
      BY DEF At, Inv, Control
<1>2. \A S : todo \in Seq(S) => Head(todo) \in S /\ Tail(todo) \in Seq(S)
      BY <1>1, HeadTailProperties
<1>3. (\A c \in Planned : c.op \in SetUpOp) /\ (\A c \in Undo(Prefix) : c.op \in UndoOp)
      BY DEF Planned, SetUpCommand, SetUpOp, Undo
<1>4. SetUpOp \cap UndoOp = {}
      BY DEF SetUpOp, UndoOp, Routing, Named
<1>5. CASE pc = "setup"
  <2>1. todo \in Seq(Planned) /\ CacheLast(todo) /\ (job.at # "off" => todo = <<>>)
        BY <1>5 DEF Course
  <2>2. job.at = "off"
        BY <1>1, <2>1
  <2>3. Head(todo) \in Planned /\ Tail(todo) \in Seq(Planned)
        BY <1>2, <2>1
  <2>4. CacheLast(Tail(todo))
        BY <1>1, <2>1, CacheLastTail
  <2>5. op \notin UndoOp
        BY <1>1, <1>3, <1>4, <2>3
  <2>6. QED
        BY <1>1, <1>5, <2>1, <2>2, <2>3, <2>4, <2>5
<1>6. CASE pc = "cleanup"
  <2>1. todo \in Seq(Undo(Prefix))
        BY <1>6 DEF Course
  <2>2. Head(todo) \in Undo(Prefix) /\ Tail(todo) \in Seq(Undo(Prefix))
        BY <1>2, <2>1
  <2>3. op \notin SetUpOp
        BY <1>1, <1>3, <1>4, <2>2
  <2>4. QED
        BY <1>1, <1>6, <2>1, <2>2, <2>3
<1>7. QED
      BY <1>1, <1>5, <1>6

\* What the host routes by itself is no session's to delete.
LEMMA HostRoutes ==
  ASSUME NoClash, DefaultsGoOut, Inv, NEW q \in before \cap host
  PROVE  /\ q.dst \notin {LowHalf, HighHalf} /\ ~Has(cfg.extras, q.dst)
         /\ ~cfg.defaultRoute /\ cfg.socks => ~Has(cfg.excludes, q.dst)
         /\ q.dst = Default => q.dev \in Device
         /\ q.dev # "tun" /\ q # BlackholeDefault
<1>1. host \in HostTables /\ cfg \in Configs /\ q \in host
      BY DEF Inv, Control
<1>2. q.dev # "tun"
      BY <1>1, DarwinAssumption DEF DarwinAssumption
<1>3. q.dst = Default => q.dev \in Device
      BY <1>1 DEF DefaultsGoOut
<1>4. q # BlackholeDefault
      BY <1>3, Routes
<1>5. QED
      BY <1>1, <1>2, <1>3, <1>4 DEF NoClash

\* Only a restart finds another table to begin with.
LEMMA SameBefore == [Next]_vars => before' = before \/ Restart
BY DEF Next, Process, CacheJob, Environment, session, vars, StartWithoutTun, CreateTun,
   DetectGateway, KsDelete, KsAdd, LookupEndpoint, AddRecorded, AddExclude, AddExtraRoute,
   AddSplitDefault, AddScoped, SetDNS, SystemResolvers, StartCache, CoreStarts, CtxDone,
   DeleteDNSBypass, DeleteRecorded, ClearDNS, TunDown, CleanupDefault, CloseTun, CacheOver,
   RemoveDNSBypass, Signal, Crash, RenewDefault, LiftKillSwitch, Finished

\* A session records only prefixes that it may delete.
LEMMA RecordsGone ==
  ASSUME NoClash, DefaultsGoOut, Inv, HostKept, Course, NEW op \in SetUpOp, At(op)
  PROVE  /\ dst \in Prefix
         /\ ~Exists(dst) => dst \in Gone
         /\ op \in {"split", "scopedSplit", "scopedExclude", "extra"} => dst \in Gone
<1>1. Head(todo) \in Planned /\ Head(todo).op = op /\ dst = Head(todo).dst
      BY Running DEF At, dst
<1>2. dst \in Prefix
      BY <1>1 DEF Planned, SetUpCommand
<1>3. ~Exists(dst) => dst \in Gone
      BY <1>2 DEF Exists, Matching, HostKept, Gone
<1>4. op \in {"split", "scopedSplit"} => dst \in {LowHalf, HighHalf}
      BY <1>1 DEF Planned
<1>5. op = "extra" => Has(cfg.extras, dst)
      BY <1>1 DEF Planned
<1>6. op = "scopedExclude" => ~cfg.defaultRoute /\ cfg.socks /\ Has(cfg.excludes, dst)
      BY <1>1 DEF Planned
<1>7. op \in {"split", "scopedSplit", "scopedExclude", "extra"} =>
        \A q \in before \cap host : q.dst # dst
      BY <1>4, <1>5, <1>6, HostRoutes
<1>8. QED
      BY <1>2, <1>3, <1>7 DEF Gone

LEMMA KeptStep ==
  ASSUME NoClash, DefaultsGoOut, Inv, HostKept, NoTun, Free, Course, [Next]_vars
  PROVE  HostKept'
<1>0. /\ Recorded /\ Sealing' = Sealing /\ host' = host
      BY Fixed, Unchanging DEF Inv
<1>1. SUFFICES ASSUME before' = before, NEW q \in before \cap host, q \in table
               PROVE  q \in table' \/ (Sealing /\ q.dst = Default)
  <2>1. CASE before' = before
        BY <1>0, <1>1, <2>1 DEF HostKept
  <2>2. CASE Restart
        BY <2>2 DEF Restart, HostKept
  <2>3. before' = before \/ Restart
        BY SameBefore
  <2>4. QED
        BY <2>1, <2>2, <2>3
<1>2. CASE StartWithoutTun \/ CreateTun \/ DetectGateway \/ LookupEndpoint \/ AddScoped \/ SetDNS
           \/ SystemResolvers \/ StartCache \/ CoreStarts \/ CacheOver \/ CtxDone
           \/ DeleteDNSBypass \/ ClearDNS \/ Signal \/ Restart \/ Finished \/ UNCHANGED vars
  <2>1. UNCHANGED table
        BY <1>2 DEF StartWithoutTun, CreateTun, DetectGateway, LookupEndpoint, AddScoped, SetDNS,
           SystemResolvers, StartCache, CoreStarts, CacheOver, CtxDone, DeleteDNSBypass, ClearDNS,
           Signal, Restart, Finished, vars
  <2>2. QED
        BY <1>1, <2>1
<1>3. CASE KsAdd \/ AddRecorded \/ AddExclude \/ AddExtraRoute \/ RenewDefault
  <2>1. table \subseteq table'
        BY <1>3, AddSubset DEF KsAdd, AddRecorded, AddExclude, AddExtraRoute, RenewDefault
  <2>2. QED
        BY <1>1, <2>1
<1>4. CASE CleanupDefault
      BY <1>0, <1>1, <1>4 DEF CleanupDefault, Recorded
<1>5. CASE KsDelete
  <2>1. At("ksDelete") /\ table \ Matching(table, Default) \subseteq table'
        BY <1>5 DEF KsDelete, DeleteRoute
  <2>2. Head(todo) \in Planned /\ Head(todo).op = "ksDelete"
        BY <2>1, Running DEF At, SetUpOp
  <2>3. Sealing
        BY <2>2 DEF Planned
  <2>4. QED
        BY <1>1, <2>1, <2>3 DEF Matching
<1>6. CASE AddSplitDefault
  <2>1. At("split") /\ table \ Matching(table, dst) \subseteq table'
        BY <1>6 DEF AddSplitDefault
  <2>2. Head(todo) \in Planned /\ Head(todo).op = "split"
        BY <2>1, Running DEF At, SetUpOp, Named
  <2>3. dst \in {LowHalf, HighHalf}
        BY <2>2 DEF Planned, dst
  <2>4. QED
        BY <1>1, <2>1, <2>3, HostRoutes DEF Matching
<1>7. CASE DeleteRecorded
  <2>1. At("del") /\ table \ Matching(table, dst) \subseteq table'
        BY <1>7 DEF DeleteRecorded, DeleteRoute
  <2>2. Head(todo) \in Undo(Gone) /\ Head(todo).op = "del"
    <3>1. pc = "cleanup" /\ todo # <<>> /\ Head(todo).op = "del"
          BY <2>1, Running DEF At, UndoOp
    <3>2. todo \in Seq(Undo(Gone))
          BY <3>1 DEF Free, Active
    <3>3. QED
          BY <3>1, <3>2, HeadTailProperties
  <2>3. dst \in Gone
        BY <2>2 DEF Undo, dst
  <2>4. QED
        BY <1>1, <2>1, <2>3 DEF Matching, Gone
<1>8. CASE RemoveDNSBypass
  <2>1. CASE job.todo # <<>>
    <3>1. pc \in Active
          BY <1>8 DEF RemoveDNSBypass, NoTun, NoJob
    <3>2. Head(job.todo) \in Gone
          BY <2>1, <3>1, HeadTailProperties DEF Free
    <3>3. table \ Matching(table, Head(job.todo)) \subseteq table'
          BY <1>8, <2>1 DEF RemoveDNSBypass, DeleteRoute
    <3>4. QED
          BY <1>1, <3>2, <3>3 DEF Matching, Gone
  <2>2. CASE job.todo = <<>>
        BY <1>1, <1>8, <2>2 DEF RemoveDNSBypass
  <2>3. QED
        BY <2>1, <2>2
<1>9. CASE TunDown \/ CloseTun \/ Crash
  <2>1. table' \in {table, Flush(table, "tun")}
        BY <1>9 DEF TunDown, CloseTun, Crash
  <2>2. QED
        BY <1>1, <2>1, HostRoutes DEF Flush
<1>10. CASE LiftKillSwitch
  <2>1. table \ {BlackholeDefault} \subseteq table'
        BY <1>10, AddSubset DEF LiftKillSwitch
  <2>2. QED
        BY <1>1, <2>1, HostRoutes
<1>11. QED
       BY <1>2, <1>3, <1>4, <1>5, <1>6, <1>7, <1>8, <1>9, <1>10
       DEF Next, Process, CacheJob, Environment

\* What is still to be deleted was recorded.
LEMMA DeletesStep ==
  ASSUME Inv, Free, Course, [Next]_vars, pc' = "cleanup" PROVE todo' \in Seq(Undo(Gone))
<1>0. /\ Gone \subseteq Prefix /\ <<>> \in Seq(Undo(Gone))
      /\ pc \in Active => \A list \in Lists : rm[list] \in Seq(Gone)
      /\ pc = "cleanup" => todo \in Seq(Undo(Gone))
      BY EmptySeq DEF Gone, Free, Active
<1>1. CASE StartWithoutTun \/ CreateTun \/ DetectGateway \/ CoreStarts \/ CloseTun \/ Crash \/ Restart
      BY <1>1 DEF StartWithoutTun, CreateTun, DetectGateway, CoreStarts, CloseTun, Crash, Restart
<1>2. CASE CacheOver \/ RemoveDNSBypass \/ Signal \/ RenewDefault \/ LiftKillSwitch \/ Finished
           \/ UNCHANGED vars
  <2>1. UNCHANGED <<pc, todo>>
        BY <1>2 DEF CacheOver, RemoveDNSBypass, Signal, RenewDefault, LiftKillSwitch, Finished, vars
  <2>2. QED
        BY <1>0, <2>1
<1>3. CASE CtxDone
  <2>1. pc = "running" /\ todo' = CleanUp
        BY <1>3 DEF CtxDone
  <2>2. QED
        BY <1>0, <2>1, CleanUpUndo DEF Active
<1>4. CASE KsDelete \/ KsAdd \/ AddRecorded \/ AddExclude \/ AddExtraRoute \/ AddSplitDefault
           \/ AddScoped \/ SetDNS \/ StartCache \/ LookupEndpoint \/ SystemResolvers
  <2>1. UNCHANGED pc /\
        \E op \in {"ksDelete", "ksAdd", "ctrl", "dnsBypass", "dnsTun", "exclude", "extra", "split",
                   "scopedSplit", "scopedExclude", "setDns", "startCache", "api", "connect",
                   "resolvers"} : At(op)
        BY <1>4 DEF KsDelete, KsAdd, AddRecorded, AddExclude, AddExtraRoute, AddSplitDefault,
           AddScoped, SetDNS, StartCache, LookupEndpoint, SystemResolvers
  <2>2. {"ksDelete", "ksAdd", "ctrl", "dnsBypass", "dnsTun", "exclude", "extra", "split",
         "scopedSplit", "scopedExclude", "setDns", "startCache", "api", "connect",
         "resolvers"} \subseteq SetUpOp
        BY DEF SetUpOp, Routing, Named
  <2>3. QED
        BY <2>1, <2>2, Running
<1>5. ASSUME UNCHANGED pc, todo # <<>>, NEW then \in Seq(Undo(Gone)), Done(then)
      PROVE  todo' \in Seq(Undo(Gone))
  <2>1. Tail(todo) \in Seq(Undo(Gone))
        BY <1>0, <1>5, HeadTailProperties
  <2>2. QED
        BY <1>5, <2>1 DEF Done
<1>6. CASE DeleteDNSBypass
  <2>1. At("delDns") /\ Done(Each("del", rm.dnsBypass)) /\ UNCHANGED pc
        BY <1>6 DEF DeleteDNSBypass, session
  <2>2. rm["dnsBypass"] \in Seq(Gone)
        BY <1>0, <2>1 DEF Lists, Active
  <2>3. Each("del", rm.dnsBypass) \in Seq(Undo(Gone))
        BY <1>0, <2>2, EachUndo
  <2>4. QED
        BY <1>5, <2>1, <2>3 DEF At
<1>7. CASE DeleteRecorded \/ ClearDNS \/ TunDown \/ CleanupDefault
  <2>1. UNCHANGED pc /\ todo # <<>> /\ Done(<<>>)
        BY <1>7 DEF DeleteRecorded, ClearDNS, TunDown, CleanupDefault, session, At
  <2>2. QED
        BY <1>0, <1>5, <2>1
<1>8. QED
      BY <1>1, <1>2, <1>3, <1>4, <1>6, <1>7 DEF Next, Process, CacheJob, Environment

LEMMA FreeStep ==
  ASSUME NoClash, DefaultsGoOut, Inv, HostKept, NoTun, Free, Course, [Next]_vars
  PROVE  Free'
<1> DEFINE Goal == /\ \A list \in Lists : rm'[list] \in Seq(Gone)
                   /\ job'.todo \in Seq(Gone)
<1>0. /\ Recorded /\ rm \in RouteManager /\ <<>> \in Seq(Gone)
      /\ pc \in Active => /\ \A list \in Lists : rm[list] \in Seq(Gone)
                          /\ job.todo \in Seq(Gone)
      BY EmptySeq DEF Inv, Recorded, Free
<1>1. SUFFICES ASSUME pc' \in Active PROVE Goal
  <2>1. Restart => pc' \notin Active
        BY DEF Restart, Active
  <2>2. pc' \in Active => Gone' = Gone
        BY <2>1, SameBefore, Unchanging
  <2>3. QED
        BY <1>1, <2>2, DeletesStep DEF Free
<1> SUFFICES Goal
    OBVIOUS
<1> HIDE DEF Goal
<1>2. CASE LookupEndpoint \/ SystemResolvers \/ CoreStarts \/ CtxDone \/ DeleteDNSBypass
           \/ DeleteRecorded \/ ClearDNS \/ TunDown \/ CleanupDefault \/ Signal \/ RenewDefault
           \/ LiftKillSwitch \/ Finished \/ UNCHANGED vars
  <2>1. UNCHANGED <<rm, job>>
        BY <1>2 DEF LookupEndpoint, SystemResolvers, CoreStarts, CtxDone, DeleteDNSBypass,
           DeleteRecorded, ClearDNS, TunDown, CleanupDefault, Signal, RenewDefault,
           LiftKillSwitch, Finished, vars
  <2>2. pc' = pc \/ pc \in Active \/ pc' = "exited"
        BY <1>2 DEF LookupEndpoint, SystemResolvers, CoreStarts, CtxDone, DeleteDNSBypass,
           DeleteRecorded, ClearDNS, TunDown, CleanupDefault, Signal, RenewDefault,
           LiftKillSwitch, Finished, vars, Active
  <2>3. QED
        BY <1>0, <1>1, <2>1, <2>2 DEF Goal, Active
<1>3. CASE StartWithoutTun \/ CreateTun \/ CloseTun \/ Crash \/ Restart
      BY <1>1, <1>3 DEF StartWithoutTun, CreateTun, CloseTun, Crash, Restart, Active
<1>4. CASE DetectGateway
  <2>1. rm' = NewRouteManager /\ UNCHANGED job /\ job = NoJob
        BY <1>4 DEF DetectGateway, NoTun, Active
  <2>2. \A list \in Lists : NewRouteManager[list] = <<>>
        BY DEF NewRouteManager, Lists
  <2>3. QED
        BY <1>0, <2>1, <2>2 DEF Goal, NoJob
<1>5. CASE KsDelete \/ KsAdd \/ SetDNS
  <2>1. /\ UNCHANGED <<pc, job>>
        /\ \/ rm' = rm \/ rm' = [rm EXCEPT !.ks = TRUE] \/ rm' = [rm EXCEPT !.dnsSet = TRUE]
           \/ rm' = [rm EXCEPT !.ks = TRUE, !.ksAdded = TRUE]
        BY <1>5 DEF KsDelete, KsAdd, SetDNS
  <2>2. \A list \in Lists : rm'[list] = rm[list]
        BY <1>0, <2>1 DEF RouteManager, Lists
  <2>3. QED
        BY <1>0, <1>1, <2>1, <2>2 DEF Goal
<1>6. CASE AddRecorded \/ AddExclude \/ AddExtraRoute \/ AddSplitDefault \/ AddScoped
  <2>1. UNCHANGED <<pc, job>>
        BY <1>6 DEF AddRecorded, AddExclude, AddExtraRoute, AddSplitDefault, AddScoped
  <2>2. UNCHANGED rm \/ \E list \in Lists : Record(list) /\ dst \in Gone
    <3>1. CASE AddRecorded \/ AddExclude
      <4>1. UNCHANGED rm \/ \E op \in {"ctrl", "dnsBypass", "dnsTun", "exclude"} :
                              At(op) /\ Record(op) /\ ~Exists(dst)
            BY <3>1 DEF AddRecorded, AddExclude
      <4>2. {"ctrl", "dnsBypass", "dnsTun", "exclude"} \subseteq SetUpOp \cap Lists
            BY DEF SetUpOp, Lists, Routing, Named
      <4>3. QED
            BY <4>1, <4>2, RecordsGone
    <3>2. CASE AddExtraRoute \/ AddSplitDefault \/ AddScoped
      <4>1. \E op \in {"extra", "split", "scopedSplit", "scopedExclude"} : At(op)
            BY <3>2 DEF AddExtraRoute, AddSplitDefault, AddScoped
      <4>2. {"extra", "split", "scopedSplit", "scopedExclude"} \subseteq SetUpOp
            BY DEF SetUpOp, Routing, Named
      <4>3. dst \in Gone
            BY <4>1, <4>2, RecordsGone
      <4>4. UNCHANGED rm \/ \E list \in Lists : Record(list)
            BY <3>2 DEF AddExtraRoute, AddSplitDefault, AddScoped, Lists
      <4>5. QED
            BY <4>3, <4>4
    <3>3. QED
          BY <1>6, <3>1, <3>2
  <2>3. CASE UNCHANGED rm
        BY <1>0, <1>1, <2>1, <2>3 DEF Goal
  <2>4. ASSUME NEW list \in Lists, Record(list), dst \in Gone PROVE Goal
    <3>1. rm' = [rm EXCEPT ![list] = Append(rm[list], dst)]
          BY <2>4 DEF Record
    <3>2. Append(rm[list], dst) \in Seq(Gone)
          BY <1>0, <1>1, <2>1, <2>4, AppendProperties
    <3>3. \A l \in Lists : rm'[l] = IF l = list THEN Append(rm[list], dst) ELSE rm[l]
          BY <1>0, <3>1 DEF RouteManager, Lists
    <3>4. QED
          BY <1>0, <1>1, <2>1, <3>2, <3>3 DEF Goal
  <2>5. QED
        BY <2>2, <2>3, <2>4
<1>7. CASE StartCache
  <2>1. job' = [at |-> "wait", todo |-> <<>>] /\ UNCHANGED <<pc, rm>>
        BY <1>7 DEF StartCache
  <2>2. QED
        BY <1>0, <1>1, <2>1 DEF Goal
<1>8. CASE CacheOver
  <2>1. job' = [at |-> "remove", todo |-> rm["dnsBypass"]] /\ UNCHANGED <<pc, rm>>
        BY <1>8 DEF CacheOver
  <2>2. QED
        BY <1>0, <1>1, <2>1 DEF Goal, Lists
<1>9. CASE RemoveDNSBypass
  <2>1. UNCHANGED pc
        BY <1>9 DEF RemoveDNSBypass
  <2>2. CASE job.todo # <<>>
    <3>1. job' = [job EXCEPT !.todo = Tail(job.todo)] /\ UNCHANGED rm
          BY <1>9, <2>2 DEF RemoveDNSBypass
    <3>2. Tail(job.todo) \in Seq(Gone)
          BY <1>0, <1>1, <2>1, <2>2, HeadTailProperties
    <3>3. job'.todo = Tail(job.todo)
          BY <1>0, <3>1 DEF Recorded
    <3>4. QED
          BY <1>0, <1>1, <2>1, <3>1, <3>2, <3>3 DEF Goal
  <2>3. CASE job.todo = <<>>
    <3>1. job' = [at |-> "done", todo |-> <<>>] /\ rm' = [rm EXCEPT !.dnsBypass = <<>>]
          BY <1>9, <2>3 DEF RemoveDNSBypass
    <3>2. \A l \in Lists : rm'[l] = IF l = "dnsBypass" THEN <<>> ELSE rm[l]
          BY <1>0, <3>1 DEF RouteManager, Lists
    <3>3. QED
          BY <1>0, <1>1, <2>1, <3>1, <3>2 DEF Goal
  <2>4. QED
        BY <2>2, <2>3
<1>10. QED
       BY <1>2, <1>3, <1>4, <1>5, <1>6, <1>7, <1>8, <1>9
       DEF Next, Process, CacheJob, Environment

\* What is done in the set-up, or in Cleanup, leaves the rest of it.
LEMMA CourseSetUp ==
  ASSUME Inv, Course, [Next]_vars, NEW op \in SetUpOp, At(op), NEW then \in Seq(Planned),
         \A i \in DOMAIN then : then[i].op # "startCache", Done(then), UNCHANGED <<pc, job>>
  PROVE  Course'
<1>1. /\ pc = "setup" /\ Tail(todo) \in Seq(Planned) /\ CacheLast(Tail(todo)) /\ job.at = "off"
      BY Running
<1>2. todo' = then \o Tail(todo)
      BY DEF Done
<1>3. then \o Tail(todo) \in Seq(Planned)
      BY <1>1
<1>4. CacheLast(then \o Tail(todo))
      BY <1>1, CacheLastConcat
<1>5. QED
      BY <1>1, <1>2, <1>3, <1>4, Unchanging DEF Course

LEMMA CourseCleanUp ==
  ASSUME Inv, Course, [Next]_vars, NEW op \in UndoOp, At(op), NEW then \in Seq(Undo(Prefix)),
         Done(then), UNCHANGED pc
  PROVE  Course'
<1>1. pc = "cleanup" /\ Tail(todo) \in Seq(Undo(Prefix))
      BY Running
<1>2. todo' = then \o Tail(todo)
      BY DEF Done
<1>3. then \o Tail(todo) \in Seq(Undo(Prefix))
      BY <1>1
<1>4. QED
      BY <1>1, <1>2, <1>3, Unchanging DEF Course

LEMMA EmptyCourse ==
  /\ <<>> \in Seq(Planned) /\ (\A G : <<>> \in Seq(Undo(G))) /\ CacheLast(<<>>)
  /\ \A i \in DOMAIN <<>> : FALSE
<1>1. DOMAIN <<>> = {}
      OBVIOUS
<1>2. QED
      BY <1>1, EmptySeq DEF CacheLast

LEMMA CourseStep ==
  ASSUME Inv, NoTun, Course, [Next]_vars
  PROVE  Course'
<1>0. /\ Recorded /\ cfg \in Configs /\ cfg' = cfg /\ Control
      /\ Planned' = Planned /\ \A list \in Lists : rm[list] \in Seq(Prefix)
      BY Fixed, Unchanging, RecordedPrefixes DEF Inv, Control
<1>1. CASE StartWithoutTun \/ CreateTun \/ CoreStarts \/ CloseTun \/ Crash \/ Restart
      BY <1>1 DEF StartWithoutTun, CreateTun, CoreStarts, CloseTun, Crash, Restart, Course
<1>2. CASE Signal \/ RenewDefault \/ LiftKillSwitch \/ Finished \/ UNCHANGED vars
  <2>1. UNCHANGED <<pc, todo, job>>
        BY <1>2 DEF Signal, RenewDefault, LiftKillSwitch, Finished, session, vars
  <2>2. QED
        BY <1>0, <2>1 DEF Course
<1>3. CASE DetectGateway
  <2>1. pc = "detect" /\ todo' = SetUp(gw') /\ pc' = "setup" /\ UNCHANGED job
        BY <1>3 DEF DetectGateway
  <2>2. job.at = "off"
        BY <2>1 DEF NoTun, Active, NoJob
  <2>3. cfg.tun
        BY <1>0, <2>1 DEF Control, Terminal
  <2>4. SetUp(gw') \in Seq(Planned) /\ CacheLast(SetUp(gw'))
        BY <1>0, <2>3, SetUpPlanned
  <2>5. QED
        BY <1>0, <2>1, <2>2, <2>4 DEF Course
<1>4. CASE CtxDone
  <2>1. pc' = "exited" \/ (pc = "running" /\ pc' = "cleanup" /\ todo' = CleanUp)
        BY <1>4 DEF CtxDone
  <2>2. pc = "running" => CleanUp \in Seq(Undo(Prefix))
        BY <1>0, CleanUpUndo
  <2>3. QED
        BY <1>0, <2>1, <2>2 DEF Course
<1>5. CASE KsDelete \/ KsAdd \/ AddRecorded \/ AddExclude \/ AddExtraRoute \/ AddSplitDefault
           \/ AddScoped \/ SetDNS
  <2>1. UNCHANGED <<pc, job>> /\
        \E op \in {"ksDelete", "ksAdd", "ctrl", "dnsBypass", "dnsTun", "exclude", "extra", "split",
                   "scopedSplit", "scopedExclude", "setDns"} : At(op) /\ Done(<<>>)
        BY <1>5 DEF KsDelete, KsAdd, AddRecorded, AddExclude, AddExtraRoute, AddSplitDefault,
           AddScoped, SetDNS
  <2>2. {"ksDelete", "ksAdd", "ctrl", "dnsBypass", "dnsTun", "exclude", "extra", "split",
         "scopedSplit", "scopedExclude", "setDns"} \subseteq SetUpOp
        BY DEF SetUpOp, Routing, Named
  <2>3. QED
        BY <2>1, <2>2, CourseSetUp, EmptyCourse
<1>6. CASE LookupEndpoint \/ SystemResolvers
  <2>1. UNCHANGED <<pc, job>>
        BY <1>6 DEF LookupEndpoint, SystemResolvers
  <2>2. PICK op \in {"api", "connect", "resolvers"} :
          /\ At(op)
          /\ Done(<<>>) \/ \E h \in {"api", "connect"} : Done(Each("ctrl", Answer[h]))
                        \/ Done(Each("dnsBypass", Resolvers))
        BY <1>6 DEF LookupEndpoint, SystemResolvers
  <2>3. op \in SetUpOp
        BY DEF SetUpOp
  <2>4. ASSUME NEW then \in Seq(Early), Done(then) PROVE Course'
        BY <2>1, <2>2, <2>3, <2>4, EarlyCommands, CourseSetUp
  <2>5. ASSUME Done(<<>>) PROVE Course'
        BY <2>1, <2>2, <2>3, <2>5, EmptyCourse, CourseSetUp
  <2>6. QED
        BY <1>0, <2>2, <2>4, <2>5, AnswersEarly
<1>7. CASE StartCache
  <2>1. At("startCache") /\ todo' = <<>> \o Tail(todo) /\ UNCHANGED pc
        BY <1>7 DEF StartCache, Done
  <2>2. /\ pc = "setup" /\ todo # <<>> /\ todo \in Seq(Planned) /\ CacheLast(todo)
        /\ Head(todo).op = "startCache"
        BY <2>1, Running DEF SetUpOp, At
  <2>3. Tail(todo) = <<>>
        BY <2>2, CacheLastTail
  <2>4. todo' = <<>>
        BY <2>1, <2>3, EmptyCourse
  <2>5. QED
        BY <2>1, <2>2, <2>4, EmptyCourse, <1>0 DEF Course
<1>8. CASE CacheOver \/ RemoveDNSBypass
  <2>1. UNCHANGED <<pc, todo>> /\ job.at # "off"
        BY <1>8 DEF CacheOver, RemoveDNSBypass, session
  <2>2. QED
        BY <1>0, <2>1 DEF Course
<1>9. CASE DeleteDNSBypass
  <2>1. At("delDns") /\ Done(Each("del", rm.dnsBypass)) /\ UNCHANGED pc
        BY <1>9 DEF DeleteDNSBypass, session
  <2>2. rm["dnsBypass"] \in Seq(Prefix)
        BY <1>0 DEF Lists
  <2>3. Each("del", rm.dnsBypass) \in Seq(Undo(Prefix))
        BY <2>2, EachUndo
  <2>4. QED
        BY <2>1, <2>3, CourseCleanUp DEF UndoOp
<1>10. CASE DeleteRecorded \/ ClearDNS \/ TunDown \/ CleanupDefault
  <2>1. UNCHANGED pc /\ \E op \in UndoOp : At(op) /\ Done(<<>>)
        BY <1>10 DEF DeleteRecorded, ClearDNS, TunDown, CleanupDefault, session, UndoOp
  <2>2. QED
        BY <2>1, EmptyCourse, CourseCleanUp
<1>11. QED
       BY <1>1, <1>2, <1>3, <1>4, <1>5, <1>6, <1>7, <1>8, <1>9, <1>10
       DEF Next, Process, CacheJob, Environment

LEMMA NoTunStep ==
  ASSUME Inv, NoTun, [Next]_vars
  PROVE  NoTun'
<1>1. SUFFICES ASSUME pc' \notin Active PROVE job' = NoJob /\ \A r \in table' : r.dev # "tun"
      BY DEF NoTun, Active
<1>2. CASE CloseTun \/ Crash
      BY <1>2 DEF CloseTun, Crash, Flush
<1>3. CASE CtxDone \/ StartWithoutTun \/ CreateTun \/ Restart \/ Signal \/ Finished \/ UNCHANGED vars
  <2>1. UNCHANGED <<table, job>> /\ pc \notin Active
        BY <1>1, <1>3 DEF CtxDone, StartWithoutTun, CreateTun, Restart, Signal, Finished, vars, Active,
           Terminal
  <2>2. QED
        BY <2>1 DEF NoTun
<1>4. CASE RenewDefault \/ LiftKillSwitch
  <2>1. UNCHANGED <<pc, job>>
        BY <1>4 DEF RenewDefault, LiftKillSwitch
  <2>2. PICK r \in Defaults(host, Device) : table' \subseteq table \cup {r}
        BY <1>4, AddSubset DEF RenewDefault, LiftKillSwitch
  <2>3. r.dev # "tun"
        BY Routes DEF Defaults
  <2>4. QED
        BY <1>1, <2>1, <2>2, <2>3 DEF NoTun
<1>5. CASE DetectGateway \/ CoreStarts
      BY <1>1, <1>5 DEF DetectGateway, CoreStarts, Active
<1>6. CASE KsDelete \/ KsAdd \/ LookupEndpoint \/ AddRecorded \/ AddExclude \/ AddExtraRoute
           \/ AddSplitDefault \/ AddScoped \/ SetDNS \/ SystemResolvers \/ StartCache
           \/ DeleteDNSBypass \/ DeleteRecorded \/ ClearDNS \/ TunDown \/ CleanupDefault
  <2>1. UNCHANGED pc /\ todo # <<>>
        BY <1>6 DEF KsDelete, KsAdd, LookupEndpoint, AddRecorded, AddExclude, AddExtraRoute,
           AddSplitDefault, AddScoped, SetDNS, SystemResolvers, StartCache, DeleteDNSBypass,
           DeleteRecorded, ClearDNS, TunDown, CleanupDefault, At
  <2>2. QED
        BY <1>1, <2>1 DEF Inv, Control, Active
<1>7. CASE CacheOver \/ RemoveDNSBypass
  <2>1. UNCHANGED pc /\ job.at # "off"
        BY <1>7 DEF CacheOver, RemoveDNSBypass
  <2>2. QED
        BY <1>1, <2>1 DEF NoTun, NoJob
<1>8. QED
      BY <1>2, <1>3, <1>4, <1>5, <1>6, <1>7 DEF Next, Process, CacheJob, Environment

LEMMA ResolvingStep ==
  ASSUME Inv, Course, Resolving, [Next]_vars
  PROVE  Resolving'
<1>0. /\ Recorded /\ rm \in RouteManager /\ cfg \in Configs /\ cfg' = cfg /\ faults' = faults
      /\ faults \in FaultSets /\ \A list \in Lists : rm[list] \in Seq(Prefix)
      BY Fixed, RecordedPrefixes DEF Inv, Control, Recorded, Resolving
<1>1. SUFFICES ASSUME dns' = "client", "dns" \notin faults
               PROVE  /\ cfg.tun /\ cfg.service /\ cfg.dns # <<>>
                      /\ \/ pc' \in {"setup", "running"} /\ rm'.dnsSet
                         \/ pc' = "cleanup" /\ Has(todo', ClearDnsCommand)
                         \/ "crash" \in faults /\ pc' \in {"start", "detect", "failed", "crashed"}
                         \/ "crash" \in faults /\ pc' = "setup" /\ Has(todo', SetDnsCommand)
      BY <1>0 DEF Resolving
<1> DEFINE Goal == /\ cfg.tun /\ cfg.service /\ cfg.dns # <<>>
                   /\ \/ pc' \in {"setup", "running"} /\ rm'.dnsSet
                      \/ pc' = "cleanup" /\ Has(todo', ClearDnsCommand)
                      \/ "crash" \in faults /\ pc' \in {"start", "detect", "failed", "crashed"}
                      \/ "crash" \in faults /\ pc' = "setup" /\ Has(todo', SetDnsCommand)
<1> SUFFICES Goal
    OBVIOUS
<1>2. CASE SetDNS
  <2>1. At("setDns") /\ UNCHANGED pc
        BY <1>2 DEF SetDNS
  <2>2. pc = "setup" /\ Head(todo) \in Planned /\ Head(todo).op = "setDns"
        BY <2>1, Running DEF SetUpOp, At
  <2>3. cfg.tun /\ cfg.service /\ cfg.dns # <<>>
        BY <2>2 DEF Planned
  <2>4. rm' = [rm EXCEPT !.dnsSet = TRUE]
        BY <1>1, <1>2 DEF SetDNS
  <2>5. rm'.dnsSet
        BY <1>0, <2>4 DEF RouteManager
  <2>6. QED
        BY <2>1, <2>2, <2>3, <2>5
<1>3. CASE ClearDNS
      BY <1>1, <1>3 DEF ClearDNS
<1>4. ASSUME dns' = dns, ~SetDNS, ~ClearDNS PROVE Goal
  <2>1. /\ cfg.tun /\ cfg.service /\ cfg.dns # <<>>
        /\ \/ pc \in {"setup", "running"} /\ rm.dnsSet
           \/ pc = "cleanup" /\ Has(todo, ClearDnsCommand)
           \/ "crash" \in faults /\ pc \in {"start", "detect", "failed", "crashed"}
           \/ "crash" \in faults /\ pc = "setup" /\ Has(todo, SetDnsCommand)
        BY <1>1, <1>4 DEF Resolving
  <2>2. CASE CacheOver \/ RemoveDNSBypass \/ Signal \/ RenewDefault \/ LiftKillSwitch \/ Finished
             \/ UNCHANGED vars
    <3>1. UNCHANGED <<pc, todo>> /\ (rm' = rm \/ rm' = [rm EXCEPT !.dnsBypass = <<>>])
          BY <2>2 DEF CacheOver, RemoveDNSBypass, Signal, RenewDefault, LiftKillSwitch, Finished, vars
    <3>2. rm'.dnsSet = rm.dnsSet
          BY <1>0, <3>1 DEF RouteManager
    <3>3. QED
          BY <2>1, <3>1, <3>2
  <2>3. CASE StartWithoutTun
        BY <2>1, <2>3 DEF StartWithoutTun
  <2>4. CASE CreateTun
        BY <2>1, <2>4 DEF CreateTun
  <2>5. CASE DetectGateway
    <3>1. "crash" \in faults /\ pc' = "setup" /\ todo' = SetUp(gw')
          BY <2>1, <2>5 DEF DetectGateway
    <3>2. Has(SetUp(gw'), SetDnsCommand)
          BY <1>0, <2>1, SetUpPlanned
    <3>3. QED
          BY <2>1, <3>1, <3>2
  <2>6. CASE CoreStarts
    <3>1. pc = "setup" /\ todo = <<>> /\ pc' = "running" /\ rm' = rm
          BY <2>6 DEF CoreStarts
    <3>2. ~Has(<<>>, SetDnsCommand)
          BY EmptyCourse DEF Has
    <3>3. QED
          BY <2>1, <3>1, <3>2
  <2>7. CASE CtxDone
    <3>1. pc = "running" /\ pc' = "cleanup" /\ todo' = CleanUp /\ rm.dnsSet
          BY <2>1, <2>7 DEF CtxDone
    <3>2. Has(CleanUp, ClearDnsCommand)
          BY <1>0, <3>1, CleanUpUndo
    <3>3. QED
          BY <2>1, <3>1, <3>2
  <2>8. CASE CloseTun
    <3>1. pc = "cleanup" /\ todo = <<>>
          BY <2>8 DEF CloseTun
    <3>2. ~Has(<<>>, ClearDnsCommand)
          BY EmptyCourse DEF Has
    <3>3. QED
          BY <2>1, <3>1, <3>2
  <2>9. CASE Crash
        BY <2>1, <2>9 DEF Crash
  <2>10. CASE Restart
        BY <2>1, <2>10 DEF Restart, Terminal
  <2>11. CASE KsDelete \/ KsAdd \/ LookupEndpoint \/ AddRecorded \/ AddExclude \/ AddExtraRoute
              \/ AddSplitDefault \/ AddScoped \/ SystemResolvers \/ StartCache
    <3>1. UNCHANGED pc
          /\ \/ rm' = rm \/ rm' = [rm EXCEPT !.ks = TRUE] \/ rm' = [rm EXCEPT !.ks = TRUE, !.ksAdded = TRUE]
             \/ \E list \in Lists : Record(list)
          BY <2>11 DEF KsDelete, KsAdd, LookupEndpoint, AddRecorded, AddExclude, AddExtraRoute,
             AddSplitDefault, AddScoped, SystemResolvers, StartCache, Lists
    <3>2. rm'.dnsSet = rm.dnsSet
      <4>1. CASE rm' = rm \/ rm' = [rm EXCEPT !.ks = TRUE]
                 \/ rm' = [rm EXCEPT !.ks = TRUE, !.ksAdded = TRUE]
            BY <1>0, <4>1 DEF RouteManager
      <4>2. ASSUME NEW list \in Lists, Record(list) PROVE rm'.dnsSet = rm.dnsSet
            BY <1>0, <4>2 DEF RouteManager, Record, Lists
      <4>3. QED
            BY <3>1, <4>1, <4>2
    <3>3. PICK op \in SetUpOp, then \in {<<>>} \cup {Each("ctrl", Answer[h]) : h \in {"api", "connect"}}
                                     \cup {Each("dnsBypass", Resolvers)} :
            op # "setDns" /\ At(op) /\ Done(then)
      <4>1. \E op \in {"ksDelete", "ksAdd", "ctrl", "dnsBypass", "dnsTun", "exclude", "extra", "split",
                       "scopedSplit", "scopedExclude", "api", "connect", "resolvers", "startCache"} :
              At(op) /\ \/ Done(<<>>) \/ Done(Each("dnsBypass", Resolvers))
                        \/ \E h \in {"api", "connect"} : Done(Each("ctrl", Answer[h]))
            BY <2>11 DEF KsDelete, KsAdd, LookupEndpoint, AddRecorded, AddExclude, AddExtraRoute,
               AddSplitDefault, AddScoped, SystemResolvers, StartCache
      <4>2. {"ksDelete", "ksAdd", "ctrl", "dnsBypass", "dnsTun", "exclude", "extra", "split",
             "scopedSplit", "scopedExclude", "api", "connect", "resolvers", "startCache"}
              \subseteq SetUpOp \ {"setDns"}
            BY DEF SetUpOp, Routing, Named
      <4>3. QED
            BY <4>1, <4>2
    <3>4. then \in Seq(Planned)
      <4>1. /\ Each("dnsBypass", Resolvers) \in Seq(Early)
            /\ \A h \in {"api", "connect"} : Each("ctrl", Answer[h]) \in Seq(Early)
            BY <1>0, AnswersEarly
      <4>2. QED
            BY <3>3, <4>1, EarlyCommands, EmptyCourse
    <3>5. pc = "setup" /\ todo \in Seq(Planned) /\ todo # <<>> /\ Head(todo).op # "setDns"
          BY <3>3, Running DEF At
    <3>6. Has(todo, SetDnsCommand) => Has(todo', SetDnsCommand)
          BY <3>3, <3>4, <3>5, HasLater DEF SetDnsCommand
    <3>7. QED
          BY <2>1, <3>1, <3>2, <3>5, <3>6
  <2>12. CASE DeleteDNSBypass \/ DeleteRecorded \/ TunDown \/ CleanupDefault
    <3>1. PICK op \in {"del", "delDns", "down", "default"} :
            At(op) /\ (Done(<<>>) \/ (op = "delDns" /\ Done(Each("del", rm.dnsBypass))))
          BY <2>12 DEF DeleteDNSBypass, DeleteRecorded, TunDown, CleanupDefault
    <3>2. UNCHANGED pc
          BY <2>12 DEF DeleteDNSBypass, DeleteRecorded, TunDown, CleanupDefault
    <3>3. pc = "cleanup" /\ todo \in Seq(Undo(Prefix)) /\ todo # <<>> /\ Head(todo).op # "clearDns"
          BY <3>1, Running DEF At, UndoOp
    <3>4. rm["dnsBypass"] \in Seq(Prefix)
          BY <1>0 DEF Lists
    <3>5. Each("del", rm.dnsBypass) \in Seq(Undo(Prefix))
          BY <3>4, EachUndo
    <3>6. Has(todo, ClearDnsCommand) => Has(todo', ClearDnsCommand)
      <4>1. ClearDnsCommand # Head(todo)
            BY <3>3 DEF ClearDnsCommand
      <4>2. ASSUME NEW then \in Seq(Undo(Prefix)), Done(then), Has(todo, ClearDnsCommand)
            PROVE  Has(todo', ClearDnsCommand)
            BY <3>3, <4>1, <4>2, HasLater
      <4>3. QED
            BY <3>1, <3>5, <4>2, EmptyCourse
    <3>7. QED
          BY <2>1, <3>2, <3>3, <3>6
  <2>13. QED
         BY <1>4, <2>2, <2>3, <2>4, <2>5, <2>6, <2>7, <2>8, <2>9, <2>10, <2>11, <2>12
         DEF Next, Process, CacheJob, Environment
<1>5. dns' = dns \/ SetDNS \/ ClearDNS
      BY DEF Next, Process, CacheJob, Environment, vars, StartWithoutTun, CreateTun,
         DetectGateway, KsDelete, KsAdd, LookupEndpoint, AddRecorded, AddExclude, AddExtraRoute,
         AddSplitDefault, AddScoped, SystemResolvers, StartCache, CoreStarts, CtxDone,
         DeleteDNSBypass, DeleteRecorded, TunDown, CleanupDefault, CloseTun, CacheOver,
         RemoveDNSBypass, Signal, Crash, RenewDefault, LiftKillSwitch, Restart, Finished
<1>6. QED
      BY <1>2, <1>3, <1>4, <1>5

\* In the set-up what is recorded grows and no goroutine has begun to take it away.
LEMMA PendingSetUp ==
  ASSUME pc = "setup", pc' = "setup", job'.at # "remove",
         \A p : /\ Has(rm.ctrl, p) => Has(rm'.ctrl, p)
                /\ Has(rm.exclude, p) => Has(rm'.exclude, p)
                /\ Has(rm.dnsBypass, p) => Has(rm'.dnsBypass, p),
         NEW p, Pending(p)
  PROVE  Pending(p)'
BY DEF Pending, Dns

LEMMA PendingCleanUp ==
  ASSUME Inv, Course, [Next]_vars, NEW op \in UndoOp, At(op), NEW then \in Seq(Undo(Prefix)), Done(then),
         UNCHANGED <<pc, rm, job>>, NEW p, Pending(p),
         op = "del" => p # dst,
         op = "delDns" => (Has(rm.dnsBypass, p) => Has(then, DelCommand(p)))
  PROVE  Pending(p)'
<1>1. /\ pc = "cleanup" /\ todo \in Seq(Undo(Prefix)) /\ todo # <<>> /\ Head(todo).op = op
      /\ Tail(todo) \in Seq(Undo(Prefix)) /\ todo' = then \o Tail(todo)
      BY Running DEF At, Done
<1>2. Has(todo, DelCommand(p)) => Has(todo', DelCommand(p))
  <2>1. DelCommand(p) # Head(todo)
    <3>1. DelCommand(p).op = "del" /\ DelCommand(p).dst = p
          BY DEF DelCommand
    <3>2. QED
          BY <1>1, <3>1 DEF dst
  <2>2. QED
        BY <1>1, <2>1, HasLater
<1>3. Has(todo, DelDnsCommand) /\ op # "delDns" => Has(todo', DelDnsCommand)
  <2>1. op # "delDns" => DelDnsCommand # Head(todo)
        BY <1>1 DEF DelDnsCommand
  <2>2. QED
        BY <1>1, <2>1, HasLater
<1>4. op = "delDns" /\ Has(rm.dnsBypass, p) => Has(todo', DelCommand(p))
      BY <1>1, HasConcat
<1>5. Has(todo, DelCommand(p)) \/ (Has(todo, DelDnsCommand) /\ Dns(p))
      BY <1>1 DEF Pending
<1>6. Dns(p)' = Dns(p)
      BY DEF Dns
<1>7. DelCommand(p)' = DelCommand(p) /\ DelDnsCommand' = DelDnsCommand
      BY DEF DelCommand, DelDnsCommand
<1>8. CASE Has(todo', DelCommand(p))
      BY <1>1, <1>7, <1>8 DEF Pending
<1>9. CASE Has(todo', DelDnsCommand) /\ Dns(p)
      BY <1>1, <1>6, <1>7, <1>9 DEF Pending
<1>10. QED
       BY <1>2, <1>3, <1>4, <1>5, <1>8, <1>9 DEF Dns

LEMMA RecordHas ==
  ASSUME rm \in RouteManager, dst \in Prefix, NEW list \in Lists, Record(list)
  PROVE  /\ \A l \in Lists : \A p : Has(rm[l], p) => Has(rm'[l], p)
         /\ Has(rm'[list], dst)
<1>1. rm[list] \in Seq(Prefix)
  <2>1. Seq(HostPrefix) \subseteq Seq(Prefix) /\ Seq(Listed) \subseteq Seq(Prefix)
        BY ListedPrefixes, SeqMonotonic
  <2>2. rm[list] \in Seq(HostPrefix) \/ rm[list] \in Seq(Listed)
        BY DEF RouteManager, Lists
  <2>3. QED
        BY <2>1, <2>2
<1>2. rm' = [rm EXCEPT ![list] = Append(rm[list], dst)]
      BY DEF Record
<1>3. \A l \in Lists : rm'[l] = IF l = list THEN Append(rm[list], dst) ELSE rm[l]
      BY <1>2 DEF RouteManager, Lists
<1>4. QED
      BY <1>1, <1>3, HasAppend

LEMMA AccountStep ==
  ASSUME NoClash, DefaultsGoOut, Inv, HostKept, AllAccounted, NoTun, Course, [Next]_vars
  PROVE  AllAccounted'
<1>0. /\ Recorded /\ rm \in RouteManager /\ Commands /\ Control
      /\ Sealing' = Sealing /\ host' = host /\ faults' = faults
      /\ \A list \in Lists : rm[list] \in Seq(Prefix)
      BY Fixed, Unchanging, RecordedPrefixes DEF Inv, Recorded
<1>1. SUFFICES ASSUME "del" \notin faults, pc' # "crashed", NEW r \in table' PROVE Accounted(r)'
      BY <1>0 DEF AllAccounted
<1>2. CASE Restart
      BY <1>2 DEF Restart, Accounted
<1>3. ASSUME ~Restart PROVE before' = before /\ (r \in table => Accounted(r))
  <2>1. before' = before
        BY <1>3, SameBefore
  <2>2. pc = "crashed" => pc' = "crashed"
    <3>1. pc = "crashed" => todo = <<>> /\ job.at = "off"
          BY <1>0 DEF Control, NoTun, Active, NoJob
    <3>2. QED
          BY <1>3, <3>1 DEF Next, Process, CacheJob, Environment, vars, StartWithoutTun, CreateTun,
             DetectGateway, KsDelete, KsAdd, LookupEndpoint, AddRecorded, AddExclude, AddExtraRoute,
             AddSplitDefault, AddScoped, SetDNS, SystemResolvers, StartCache, CoreStarts, CtxDone,
             DeleteDNSBypass, DeleteRecorded, ClearDNS, TunDown, CleanupDefault, CloseTun, CacheOver,
             RemoveDNSBypass, Signal, Crash, RenewDefault, LiftKillSwitch, Finished, At
  <2>3. QED
        BY <1>1, <2>1, <2>2 DEF AllAccounted
<1> DEFINE Explained == \/ r \in before \/ r \in Defaults(host, Device) \/ r.dev = "tun"
                        \/ Sealing /\ r = BlackholeDefault
                        \/ Pending(r.dst)'
<1>4. ASSUME ~Restart, Explained PROVE Accounted(r)'
      BY <1>0, <1>3, <1>4 DEF Accounted, Defaults
<1>5. ASSUME ~Restart, r \in table, Pending(r.dst) => Pending(r.dst)' PROVE Explained
      BY <1>3, <1>5 DEF Accounted
<1> SUFFICES ASSUME ~Restart PROVE Explained
    BY <1>2, <1>4
<1> HIDE DEF Explained
<1>6. CASE Signal \/ RenewDefault \/ LiftKillSwitch \/ Finished \/ UNCHANGED vars
  <2>1. UNCHANGED <<pc, todo, rm, job>>
        BY <1>6 DEF Signal, RenewDefault, LiftKillSwitch, Finished, vars
  <2>2. Pending(r.dst)' = Pending(r.dst)
        BY <2>1 DEF Pending, Dns, DelCommand, DelDnsCommand
  <2>3. r \in table \/ r \in Defaults(host, Device)
        BY <1>6, AddSubset DEF Signal, RenewDefault, LiftKillSwitch, Finished, vars
  <2>4. QED
        BY <1>5, <2>2, <2>3 DEF Explained
<1>7. CASE StartWithoutTun \/ CreateTun \/ DetectGateway
  <2>1. UNCHANGED table /\ ~Pending(r.dst)
        BY <1>7 DEF StartWithoutTun, CreateTun, DetectGateway, Pending
  <2>2. QED
        BY <1>5, <2>1
<1>8. CASE Crash
      BY <1>1, <1>8 DEF Crash
<1>9. CASE CloseTun
  <2>1. pc = "cleanup" /\ todo = <<>> /\ table' \subseteq table
        BY <1>9 DEF CloseTun, Flush
  <2>2. ~Pending(r.dst)
        BY <2>1, EmptyCourse DEF Pending, Has
  <2>3. QED
        BY <1>5, <2>1, <2>2
<1>10. CASE CoreStarts
  <2>1. pc = "setup" /\ pc' = "running" /\ UNCHANGED <<rm, job, table>>
        BY <1>10 DEF CoreStarts
  <2>2. Pending(r.dst) => Pending(r.dst)'
        BY <2>1 DEF Pending, Dns
  <2>3. QED
        BY <1>5, <2>1, <2>2
<1>11. CASE CtxDone
  <2>1. UNCHANGED <<table, rm, job>>
        BY <1>11 DEF CtxDone
  <2>2. ASSUME Pending(r.dst) PROVE Pending(r.dst)'
    <3>1. pc = "running" /\ pc' = "cleanup" /\ todo' = CleanUp
          BY <1>11, <2>2 DEF CtxDone, Pending
    <3>2. /\ Has(rm.ctrl, r.dst) \/ Has(rm.exclude, r.dst) => Has(CleanUp, DelCommand(r.dst))
          /\ Has(CleanUp, DelDnsCommand)
          BY <1>0, CleanUpUndo
    <3>3. Has(rm.ctrl, r.dst) \/ Has(rm.exclude, r.dst) \/ Dns(r.dst)
          BY <2>2, <3>1 DEF Pending
    <3>4. Dns(r.dst)' = Dns(r.dst)
          BY <2>1 DEF Dns
    <3>5. Has(todo', DelCommand(r.dst)) \/ (Has(todo', DelDnsCommand) /\ Dns(r.dst)')
          BY <3>1, <3>2, <3>3, <3>4
    <3>6. QED
          BY <3>1, <3>5 DEF Pending, DelCommand, DelDnsCommand
  <2>3. QED
        BY <1>5, <2>1, <2>2
<1>12. CASE CacheOver
  <2>1. UNCHANGED <<pc, todo, rm, table>> /\ job' = [at |-> "remove", todo |-> rm.dnsBypass]
        BY <1>12 DEF CacheOver
  <2>2. Dns(r.dst) => Dns(r.dst)'
        BY <2>1 DEF Dns
  <2>3. Pending(r.dst) => Pending(r.dst)'
        BY <2>1, <2>2 DEF Pending, DelCommand, DelDnsCommand
  <2>4. QED
        BY <1>5, <2>1, <2>3
<1>13. CASE RemoveDNSBypass
  <2>1. UNCHANGED <<pc, todo>> /\ job.at = "remove"
        BY <1>13 DEF RemoveDNSBypass
  <2>2. ASSUME Dns(r.dst) => Dns(r.dst)', r \in table,
               \A p : (Has(rm.ctrl, p) => Has(rm'.ctrl, p)) /\ (Has(rm.exclude, p) => Has(rm'.exclude, p))
        PROVE  Explained
    <3>1. Pending(r.dst) => Pending(r.dst)'
          BY <2>1, <2>2 DEF Pending, DelCommand, DelDnsCommand
    <3>2. QED
          BY <1>5, <2>2, <3>1
  <2>3. CASE job.todo # <<>>
    <3>1. /\ table' = table \ Matching(table, Head(job.todo)) /\ UNCHANGED rm
          /\ job' = [job EXCEPT !.todo = Tail(job.todo)]
          BY <1>1, <1>13, <2>3 DEF RemoveDNSBypass, DeleteRoute
    <3>2. r \in table /\ r.dst # Head(job.todo)
          BY <3>1 DEF Matching
    <3>3. job'.todo = Tail(job.todo) /\ job'.at = "remove" /\ job.todo \in Seq(HostPrefix)
          BY <1>0, <2>1, <3>1 DEF Recorded
    <3>4. Has(job.todo, r.dst) => Has(Tail(job.todo), r.dst)
          BY <3>2, <3>3, HasTail
    <3>5. Dns(r.dst) => Dns(r.dst)'
          BY <2>1, <3>1, <3>3, <3>4 DEF Dns
    <3>6. QED
          BY <2>2, <3>1, <3>2, <3>5
  <2>4. CASE job.todo = <<>>
    <3>1. UNCHANGED table /\ rm' = [rm EXCEPT !.dnsBypass = <<>>]
          BY <1>13, <2>4 DEF RemoveDNSBypass
    <3>2. rm'.ctrl = rm.ctrl /\ rm'.exclude = rm.exclude
          BY <1>0, <3>1 DEF RouteManager
    <3>3. ~Dns(r.dst)
          BY <2>1, <2>4, EmptyCourse DEF Dns, Has
    <3>4. QED
          BY <2>2, <3>1, <3>2, <3>3
  <2>5. QED
        BY <2>3, <2>4
<1>14. CASE DeleteDNSBypass
  <2>1. At("delDns") /\ Done(Each("del", rm.dnsBypass)) /\ UNCHANGED <<pc, rm, job, table>>
        BY <1>14 DEF DeleteDNSBypass
  <2>2. "delDns" \in UndoOp /\ "delDns" # "del"
        BY DEF UndoOp
  <2>3. pc = "cleanup"
        BY <2>1, <2>2, Running
  <2>4. rm["dnsBypass"] \in Seq(Prefix)
        BY <1>0 DEF Lists
  <2>5. Each("del", rm.dnsBypass) \in Seq(Undo(Prefix))
        /\ \A p : Has(rm.dnsBypass, p) => Has(Each("del", rm.dnsBypass), DelCommand(p))
        BY <2>4, EachUndo
  <2>6. Pending(r.dst) => Pending(r.dst)'
        BY <2>1, <2>2, <2>5, PendingCleanUp
  <2>7. QED
        BY <1>5, <2>1, <2>6
<1>15. CASE DeleteRecorded \/ ClearDNS \/ TunDown \/ CleanupDefault
  <2>1. PICK op \in UndoOp : /\ At(op) /\ Done(<<>>) /\ op # "delDns"
                             /\ op = "del" => table' = table \ Matching(table, dst)
        BY <1>1, <1>15 DEF DeleteRecorded, DeleteRoute, ClearDNS, TunDown, CleanupDefault, UndoOp
  <2>2. UNCHANGED <<pc, rm, job>>
        BY <1>15 DEF DeleteRecorded, ClearDNS, TunDown, CleanupDefault
  <2>3. table' \subseteq table
        BY <1>0, <1>15
        DEF DeleteRecorded, DeleteRoute, ClearDNS, TunDown, CleanupDefault, Recorded, Flush
  <2>4. op = "del" => r.dst # dst
        BY <2>1, <2>3 DEF Matching
  <2>5. Pending(r.dst) => Pending(r.dst)'
        BY <2>1, <2>2, <2>4, EmptyCourse, PendingCleanUp
  <2>6. QED
        BY <1>5, <2>3, <2>5
<1>16. ASSUME pc = "setup", pc' = "setup", job'.at # "remove",
              rm' = rm \/ (dst \in Prefix /\ \E list \in Lists : Record(list)),
              Pending(r.dst)
       PROVE  Pending(r.dst)'
  <2>1. \A l \in Lists : \A p : Has(rm[l], p) => Has(rm'[l], p)
        BY <1>0, <1>16, RecordHas
  <2>2. \A p : /\ Has(rm["ctrl"], p) => Has(rm'["ctrl"], p)
               /\ Has(rm["exclude"], p) => Has(rm'["exclude"], p)
               /\ Has(rm["dnsBypass"], p) => Has(rm'["dnsBypass"], p)
        BY <2>1 DEF Lists
  <2>3. QED
        BY <1>16, <2>2, PendingSetUp
<1>17. CASE KsDelete \/ KsAdd \/ SetDNS \/ LookupEndpoint \/ SystemResolvers \/ StartCache
  <2>1. PICK op \in {"ksDelete", "ksAdd", "setDns", "api", "connect", "resolvers", "startCache"} :
          At(op) /\ (KsAdd => op = "ksAdd")
        BY <1>17 DEF KsDelete, KsAdd, SetDNS, LookupEndpoint, SystemResolvers, StartCache
  <2>2. pc = "setup" /\ Head(todo) \in Planned /\ Head(todo).op = op /\ job.at = "off"
        BY <2>1, Running DEF At, SetUpOp
  <2>3. /\ UNCHANGED pc /\ job'.at # "remove"
        /\ \/ rm' = rm \/ rm' = [rm EXCEPT !.ks = TRUE] \/ rm' = [rm EXCEPT !.dnsSet = TRUE]
           \/ rm' = [rm EXCEPT !.ks = TRUE, !.ksAdded = TRUE]
        BY <1>17, <2>2 DEF KsDelete, KsAdd, SetDNS, LookupEndpoint, SystemResolvers, StartCache
  <2>4. rm'.ctrl = rm.ctrl /\ rm'.exclude = rm.exclude /\ rm'.dnsBypass = rm.dnsBypass
        BY <1>0, <2>3 DEF RouteManager
  <2>5. Pending(r.dst) => Pending(r.dst)'
        BY <2>2, <2>3, <2>4, PendingSetUp
  <2>6. CASE r \in table
        BY <1>5, <2>5, <2>6
  <2>7. CASE r \notin table
    <3>1. KsAdd /\ r = BlackholeDefault
          BY <1>17, <2>7
          DEF KsDelete, DeleteRoute, KsAdd, SetDNS, LookupEndpoint, SystemResolvers, StartCache
    <3>2. Sealing
          BY <2>1, <2>2, <3>1 DEF Planned
    <3>3. QED
          BY <3>1, <3>2 DEF Explained
  <2>8. QED
        BY <2>6, <2>7
<1>18. CASE AddRecorded \/ AddExclude
  <2>1. PICK list \in {"ctrl", "dnsBypass", "dnsTun", "exclude"} :
          /\ At(list) /\ UNCHANGED <<pc, job>>
          /\ \/ UNCHANGED <<table, rm>>
             \/ Record(list) /\ \E s : /\ s.dst = dst /\ table' = Add(table, s)
                                       /\ list = "dnsTun" => s.dev = "tun"
        BY <1>18, Routes DEF AddRecorded, AddExclude
  <2>2. list \in SetUpOp /\ list \in Lists
        BY DEF SetUpOp, Lists, Routing, Named
  <2>3. pc = "setup" /\ job.at = "off" /\ dst \in Prefix
        BY <2>1, <2>2, Running, RecordsGone
  <2>4. Pending(r.dst) => Pending(r.dst)'
        BY <1>16, <2>1, <2>2, <2>3
  <2>5. CASE r \in table
        BY <1>5, <2>4, <2>5
  <2>6. CASE r \notin table
    <3>1. Record(list) /\ r.dst = dst /\ (list = "dnsTun" => r.dev = "tun")
          BY <2>1, <2>6, AddSubset
    <3>2. CASE list = "dnsTun"
          BY <3>1, <3>2 DEF Explained
    <3>3. CASE list # "dnsTun"
      <4>1. Has(rm'[list], r.dst)
            BY <1>0, <2>2, <2>3, <3>1, RecordHas
      <4>2. Pending(r.dst)'
            BY <2>1, <2>3, <3>3, <4>1 DEF Pending, Dns
      <4>3. QED
            BY <4>2 DEF Explained
    <3>4. QED
          BY <3>2, <3>3
  <2>7. QED
        BY <2>5, <2>6
<1>19. CASE AddExtraRoute \/ AddSplitDefault \/ AddScoped
  <2>1. PICK op \in {"extra", "split", "scopedSplit", "scopedExclude"} : At(op)
        BY <1>19 DEF AddExtraRoute, AddSplitDefault, AddScoped
  <2>2. op \in SetUpOp
        BY DEF SetUpOp, Routing, Named
  <2>3. pc = "setup" /\ job.at = "off" /\ dst \in Prefix
        BY <2>1, <2>2, Running, RecordsGone
  <2>4. UNCHANGED <<pc, job>> /\ (rm' = rm \/ \E list \in Lists : Record(list))
        BY <1>19 DEF AddExtraRoute, AddSplitDefault, AddScoped, Lists
  <2>5. Pending(r.dst) => Pending(r.dst)'
        BY <1>16, <2>3, <2>4
  <2>6. r \in table \/ r.dev = "tun"
        BY <1>19, AddSubset, Routes DEF AddExtraRoute, AddSplitDefault, AddScoped
  <2>7. QED
        BY <1>5, <2>5, <2>6 DEF Explained
<1>20. QED
       BY <1>6, <1>7, <1>8, <1>9, <1>10, <1>11, <1>12, <1>13, <1>14, <1>15, <1>17, <1>18, <1>19
       DEF Next, Process, CacheJob, Environment

LEMMA CourseInit == Init => NoTun /\ Course
<1> SUFFICES ASSUME Init PROVE NoTun /\ Course
    OBVIOUS
<1>1. pc = "start" /\ table = host /\ host \in HostTables /\ job = NoJob
      BY DEF Init
<1>2. NoTun
      BY <1>1, DarwinAssumption DEF NoTun, DarwinAssumption
<1>3. QED
      BY <1>1, <1>2 DEF Course

LEMMA RestorableInit ==
  ASSUME DefaultsGoOut PROVE Init => Restorable
<1> SUFFICES ASSUME Init PROVE Restorable
    OBVIOUS
<1>1. /\ pc = "start" /\ table = host /\ before = host /\ host \in HostTables
      /\ dns = "host" /\ job = NoJob /\ faults \in FaultSets
      BY DEF Init
<1>2. HostKept /\ AllAccounted
      BY <1>1 DEF HostKept, AllAccounted, Accounted
<1>3. Free /\ Resolving
      BY <1>1 DEF Free, Resolving, Active
<1>4. QED
      BY <1>2, <1>3, CourseInit DEF Restorable

LEMMA RestorableStep ==
  ASSUME NoClash, DefaultsGoOut
  PROVE  Inv /\ Restorable /\ [Next]_vars => Restorable'
BY KeptStep, AccountStep, NoTunStep, FreeStep, CourseStep, ResolvingStep DEF Restorable

LEMMA RestorableRestores ==
  ASSUME DefaultsGoOut, Inv, Restorable PROVE RestoresHost
<1> SUFFICES ASSUME pc = "exited"
             PROVE  /\ "del" \notin faults =>
                         \A r \in table : \/ r \in before \/ r \in Defaults(host, Device)
                                          \/ Sealing /\ r = BlackholeDefault
                    /\ \A q \in before \cap host :
                         q \in table \/ (Sealing /\ q \in Defaults(host, Device))
                    /\ cfg.tun /\ "dns" \notin faults => dns # "client"
    BY DEF RestoresHost, Sealing
<1>1. ASSUME "del" \notin faults, NEW r \in table
      PROVE  r \in before \/ r \in Defaults(host, Device) \/ (Sealing /\ r = BlackholeDefault)
  <2>1. Accounted(r) /\ r.dev # "tun"
        BY <1>1 DEF Restorable, AllAccounted, NoTun, Active
  <2>2. ~Pending(r.dst)
        BY DEF Pending
  <2>3. QED
        BY <2>1, <2>2 DEF Accounted
<1>2. ASSUME NEW q \in before \cap host
      PROVE  q \in table \/ (Sealing /\ q \in Defaults(host, Device))
  <2>1. q \in table \/ (Sealing /\ q.dst = Default)
        BY DEF Restorable, HostKept
  <2>2. q.dst = Default => q.dev \in Device
        BY DEF Inv, Control, DefaultsGoOut
  <2>3. QED
        BY <2>1, <2>2 DEF Defaults
<1>3. "dns" \notin faults => dns # "client"
      BY DEF Restorable, Resolving
<1>4. QED
      BY <1>1, <1>2, <1>3

\* routes_darwin.go:15, "recorded so Cleanup can reverse them precisely": a session that ends
\* in order takes no route of the host's with it, whichever commands failed, whatever a
\* crashed session left, and whenever the goroutine ran; it leaves no route of its own where
\* its deletes worked, and no resolvers of its own where networksetup did.  Asked of the
\* hosts: no route of theirs to a prefix that Cleanup deletes whoever added it, and no
\* default that is no device's.
THEOREM HostRestored ==
  ASSUME NoClash, DefaultsGoOut
  PROVE  Spec => []RestoresHost
<1>1. Init => Inv /\ Restorable
      BY InvInit, RestorableInit
<1>2. Inv /\ Restorable /\ [Next]_vars => (Inv /\ Restorable)'
      BY InvStep, RestorableStep
<1>3. Inv /\ Restorable => RestoresHost
      BY RestorableRestores
<1>4. QED
      BY <1>1, <1>2, <1>3, PTL DEF Spec

(***************************************************************************)
(* The endpoints are reached around the tunnel.                            *)
(***************************************************************************)
\* The addresses that are looked up, and those that answer.
Looked == Endpoints \cup Addresses(Resolvers)

\* The host sends them to its devices, and no command line excludes them: a session without
\* a gateway makes what is excluded unreachable, and a crash leaves that to the next one.
LookedGoOut == \A t \in HostTables : \A r \in t : r.dst \cap Looked # {} => r.dev \in Device
NotExcluded == \A c \in Configs : Addresses(c.excludes) \cap Looked = {}

LookupCommand(h) == [op |-> h, dst |-> {}]
CtrlCommand(p) == [op |-> "ctrl", dst |-> p]

\* The lookups and their routes come first: only the kill switch's commands precede them.
Looking == {"api", "connect", "ctrl"}
Looks(s) == \E i \in DOMAIN s : s[i].op \in Looking
LookFirst(s) ==
  \A i, j \in DOMAIN s :
    i < j /\ s[j].op \in Looking => s[i].op \in Looking \cup {"ksDelete", "ksAdd"}

\* When ControlPlaneBypassed promises anything.
Promising ==
  /\ cfg.defaultRoute /\ KnownGateway(gw) /\ faults \cap {"add", "dns"} = {}
  /\ cfg.killSwitch => Addresses(Resolvers) \cap Specifics(before, General) # {}

Answers == {Answer["api"][i] : i \in DOMAIN Answer["api"]}
             \cup {Answer["connect"][i] : i \in DOMAIN Answer["connect"]}
Out(p) == \E r \in table : r.dst = p /\ r.dev \in Device

\* Where a route that concerns one of the known addresses may go.
Way(r, known) == r.dst \cap known # {} => r.dev \in Device \/ r.dev = "tun" \/ r = BlackholeDefault
Ways(known)   == \A r \in table : Way(r, known)

Gateways == KnownGateway(gw) => gw.dev \in Device
Fresh    == pc \in {"start", "detect"} => before \subseteq table
Order    == pc = "setup" => LookFirst(todo)

\* While something is to be looked up, nothing goes into a tunnel and a resolver is reached.
Answering ==
  Promising /\ pc = "setup" /\ Looks(todo) =>
    /\ \A r \in table : r.dev # "tun"
    /\ IF cfg.killSwitch
       THEN \E r \in table : r.dst \notin General /\ r.dst \cap Addresses(Resolvers) # {}
       ELSE \E r \in table : r.dst = Default /\ r.dev \in Device

\* Each address of an endpoint has its route, or will get it.
Answered ==
  Promising /\ pc \in {"setup", "running"} =>
    \A h \in {"api", "connect"} : \A i \in DOMAIN Answer[h] :
      \/ Out(Answer[h][i])
      \/ Has(todo, LookupCommand(h)) \/ Has(todo, CtrlCommand(Answer[h][i]))

\* The goroutine takes none of these routes away.
Untouched ==
  Promising /\ pc \in {"setup", "running"} =>
    \A p \in Answers : ~Has(rm.dnsBypass, p) /\ ~Has(job.todo, p)

GoneAround == Gateways /\ Fresh /\ Ways(Looked) /\ Order /\ Answering /\ Answered /\ Untouched

\* The order of the set-up.
LEMMA LookFirstConcat ==
  ASSUME NEW S, NEW s \in Seq(S), NEW t \in Seq(S),
         \/ LookFirst(s) /\ ~Looks(t)
         \/ LookFirst(t) /\ \A i \in DOMAIN s : s[i].op \in Looking \cup {"ksDelete", "ksAdd"}
  PROVE  LookFirst(s \o t)
<1>1. /\ DOMAIN s = 1..Len(s) /\ DOMAIN t = 1..Len(t) /\ Len(s) \in Nat /\ Len(t) \in Nat
      /\ DOMAIN (s \o t) = 1..(Len(s) + Len(t))
      /\ \A i \in 1..Len(s) : (s \o t)[i] = s[i]
      /\ \A i \in 1..Len(t) : (s \o t)[Len(s) + i] = t[i]
      OBVIOUS
<1>2. \A i \in 1..(Len(s) + Len(t)) :
        \/ i \in 1..Len(s) /\ (s \o t)[i] = s[i]
        \/ i - Len(s) \in 1..Len(t) /\ (s \o t)[i] = t[i - Len(s)] /\ i > Len(s)
  <2>1. \A i \in 1..(Len(s) + Len(t)) :
          i \in 1..Len(s) \/ (i - Len(s) \in 1..Len(t) /\ Len(s) + (i - Len(s)) = i /\ i > Len(s))
        BY <1>1
  <2>2. QED
        BY <1>1, <2>1
<1> DEFINE u == s \o t
<1>3. DOMAIN u = 1..(Len(s) + Len(t))
      BY <1>1
<1>4. SUFFICES ASSUME NEW i \in 1..(Len(s) + Len(t)), NEW j \in 1..(Len(s) + Len(t)), i < j,
                      u[j].op \in Looking
               PROVE  u[i].op \in Looking \cup {"ksDelete", "ksAdd"}
      BY <1>3 DEF LookFirst
<1>5. CASE LookFirst(s) /\ ~Looks(t)
  <2>1. j \in 1..Len(s) /\ u[j] = s[j]
        BY <1>1, <1>2, <1>4, <1>5 DEF Looks
  <2>2. i \in 1..Len(s) /\ u[i] = s[i]
        BY <1>1, <1>4, <2>1
  <2>3. QED
        BY <1>1, <1>4, <1>5, <2>1, <2>2 DEF LookFirst
<1>6. CASE LookFirst(t) /\ \A k \in DOMAIN s : s[k].op \in Looking \cup {"ksDelete", "ksAdd"}
  <2>1. CASE i \in 1..Len(s) /\ u[i] = s[i]
        BY <1>1, <1>6, <2>1
  <2>2. CASE i - Len(s) \in 1..Len(t) /\ u[i] = t[i - Len(s)] /\ i > Len(s)
    <3>1. j - Len(s) \in 1..Len(t) /\ u[j] = t[j - Len(s)]
      <4>1. j \notin 1..Len(s)
            BY <1>1, <1>4, <2>2
      <4>2. QED
            BY <1>2, <1>4, <4>1
    <3>2. i - Len(s) < j - Len(s)
          BY <1>1, <1>4
    <3>3. QED
          BY <1>1, <1>4, <1>6, <2>2, <3>1, <3>2 DEF LookFirst
  <2>3. QED
        BY <1>2, <1>4, <2>1, <2>2
<1>7. QED
      BY <1>5, <1>6

LEMMA LookFirstTail ==
  ASSUME NEW S, NEW s \in Seq(S), s # <<>>, LookFirst(s)
  PROVE  /\ LookFirst(Tail(s))
         /\ Looks(Tail(s)) => Looks(s) /\ Head(s).op \in Looking \cup {"ksDelete", "ksAdd"}
<1>1. /\ Len(s) \in Nat /\ Len(s) > 0 /\ DOMAIN s = 1..Len(s)
      /\ DOMAIN Tail(s) = 1..(Len(s) - 1)
      /\ \A i \in 1..(Len(s) - 1) : Tail(s)[i] = s[i + 1]
      /\ Head(s) = s[1]
      OBVIOUS
<1>2. \A i \in 1..(Len(s) - 1) : i + 1 \in 1..Len(s) /\ 1 < i + 1
      BY <1>1
<1>3. LookFirst(Tail(s))
  <2>1. SUFFICES ASSUME NEW i \in 1..(Len(s) - 1), NEW j \in 1..(Len(s) - 1), i < j,
                        Tail(s)[j].op \in Looking
                 PROVE  Tail(s)[i].op \in Looking \cup {"ksDelete", "ksAdd"}
        BY <1>1 DEF LookFirst
  <2>2. i + 1 < j + 1 /\ s[j + 1].op \in Looking
        BY <1>1, <2>1
  <2>3. s[i + 1].op \in Looking \cup {"ksDelete", "ksAdd"}
        BY <1>1, <1>2, <2>2 DEF LookFirst
  <2>4. QED
        BY <1>1, <2>3
<1>4. ASSUME Looks(Tail(s))
      PROVE  Looks(s) /\ Head(s).op \in Looking \cup {"ksDelete", "ksAdd"}
  <2>1. PICK i \in 1..(Len(s) - 1) : s[i + 1].op \in Looking
        BY <1>1, <1>4 DEF Looks
  <2>2. i + 1 \in DOMAIN s /\ 1 \in DOMAIN s /\ 1 < i + 1
        BY <1>1, <1>2
  <2>3. QED
        BY <1>1, <2>1, <2>2 DEF LookFirst, Looks
<1>5. QED
      BY <1>3, <1>4

\* Commands after which nothing is looked up, and those before.
Others == {c \in SetUpCommand : c.op \notin Looking}
Firsts == {c \in SetUpCommand : c.op \in Looking \cup {"ksDelete", "ksAdd"}}

LEMMA OthersLookNot ==
  /\ Seq(Others) \subseteq Seq(SetUpCommand) /\ Seq(Firsts) \subseteq Seq(SetUpCommand)
  /\ \A s \in Seq(Others) : ~Looks(s)
  /\ \A s \in Seq(Firsts) : LookFirst(s) /\ \A i \in DOMAIN s : s[i].op \in Looking \cup {"ksDelete", "ksAdd"}
  /\ \A s \in Seq(Others), t \in Seq(Others) : s \o t \in Seq(Others)
  /\ \A s \in Seq(Firsts), t \in Seq(Firsts) : s \o t \in Seq(Firsts)
<1>1. Seq(Others) \subseteq Seq(SetUpCommand) /\ Seq(Firsts) \subseteq Seq(SetUpCommand)
      BY SeqMonotonic DEF Others, Firsts
<1>2. \A S : \A s \in Seq(S) : \A i \in DOMAIN s : s[i] \in S
      OBVIOUS
<1>3. \A S : \A s \in Seq(S), t \in Seq(S) : s \o t \in Seq(S)
      OBVIOUS
<1>4. \A s \in Seq(Others) : ~Looks(s)
      BY <1>2 DEF Looks, Others
<1>5. \A s \in Seq(Firsts) : \A i \in DOMAIN s : s[i].op \in Looking \cup {"ksDelete", "ksAdd"}
      BY <1>2 DEF Firsts
<1>6. QED
      BY <1>1, <1>3, <1>4, <1>5 DEF LookFirst

LEMMA EachOther ==
  ASSUME NEW op \in {"split", "exclude", "scopedSplit", "scopedExclude", "extra", "dnsBypass", "dnsTun"},
         NEW dsts \in Seq(Prefix)
  PROVE  Each(op, dsts) \in Seq(Others)
<1>1. \A i \in 1..Len(dsts) : [op |-> op, dst |-> dsts[i]] \in Others
      BY DEF Others, SetUpCommand, Routing, Named, Looking
<1>2. Each(op, dsts) = [i \in 1..Len(dsts) |-> [op |-> op, dst |-> dsts[i]]]
      BY DEF Each
<1>3. QED
      BY <1>1, <1>2

LEMMA SetUpLooks ==
  ASSUME cfg \in Configs, NEW g
  PROVE  /\ LookFirst(SetUp(g))
         /\ cfg.defaultRoute => \A h \in {"api", "connect"} : Has(SetUp(g), LookupCommand(h))
         /\ \A x : Has(DnsMode(g), x) => Has(SetUp(g), x)
<1>1. /\ cfg \in Config
      /\ cfg.excludes \in Seq(Prefix) /\ cfg.extras \in Seq(Prefix) /\ cfg.dns \in Seq(Prefix)
      /\ Halves \in Seq(Prefix)
  <2>1. LowHalf \in Prefix /\ HighHalf \in Prefix /\ Seq(Listed) \subseteq Seq(Prefix)
        /\ Seq(HostPrefix) \subseteq Seq(Listed)
        BY ListedPrefixes, SeqMonotonic
  <2>2. QED
        BY <2>1, Inputs DEF Halves
<1>2. /\ <<>> \in Seq(Others) /\ <<>> \in Seq(Firsts)
      /\ Do("api") \in Seq(Firsts) /\ Do("connect") \in Seq(Firsts) /\ Do("ksDelete") \in Seq(Firsts)
      /\ Do("ksAdd") \in Seq(Firsts)
      /\ Do("setDns") \in Seq(Others) /\ Do("resolvers") \in Seq(Others) /\ Do("startCache") \in Seq(Others)
  <2>1. \A op \in {"api", "connect", "ksDelete", "ksAdd"} : [op |-> op, dst |-> {}] \in Firsts
        BY DEF Firsts, SetUpCommand, Prefix, Looking
  <2>2. \A op \in {"setDns", "resolvers", "startCache"} : [op |-> op, dst |-> {}] \in Others
        BY DEF Others, SetUpCommand, Prefix, Looking
  <2>3. (\A c \in Firsts : <<c>> \in Seq(Firsts)) /\ (\A c \in Others : <<c>> \in Seq(Others))
        OBVIOUS
  <2>4. QED
        BY <2>1, <2>2, <2>3, EmptySeq DEF Do
<1> DEFINE Switch == When(cfg.killSwitch, When(KnownGateway(g), Do("ksDelete")) \o Do("ksAdd"))
           First == (Switch \o Do("api")) \o Do("connect")
           Splits == Each("split", Halves)
           Excludes == Each("exclude", cfg.excludes)
<1>3. Splits \in Seq(Others) /\ Excludes \in Seq(Others) /\ Each("scopedSplit", Halves) \in Seq(Others)
      /\ Each("scopedExclude", cfg.excludes) \in Seq(Others) /\ Each("extra", cfg.extras) \in Seq(Others)
      /\ Each("dnsBypass", cfg.dns) \in Seq(Others) /\ Each("dnsTun", cfg.dns) \in Seq(Others)
      BY <1>1, EachOther
<1>4. Switch \in Seq(Firsts)
  <2>1. When(KnownGateway(g), Do("ksDelete")) \in Seq(Firsts)
        BY <1>2 DEF When
  <2>2. QED
        BY <1>2, <2>1, OthersLookNot DEF When
<1>5. DefaultMode(g) = (First \o Splits) \o Excludes
      BY DEF DefaultMode
<1> HIDE DEF Switch
<1>6. Switch \o Do("api") \in Seq(Firsts) /\ First \in Seq(Firsts)
      BY <1>2, <1>4, OthersLookNot
<1>7. \A h \in {"api", "connect"} : Has(First, LookupCommand(h))
  <2>1. \A x : Has(<<x>>, x)
    <3>1. \A x : DOMAIN <<x>> = {1} /\ <<x>>[1] = x
          OBVIOUS
    <3>2. QED
          BY <3>1 DEF Has
  <2>2. \A h : Do(h) = <<LookupCommand(h)>>
        BY DEF Do, LookupCommand
  <2>3. Has(Do("api"), LookupCommand("api")) /\ Has(Do("connect"), LookupCommand("connect"))
        BY <2>1, <2>2
  <2>4. Has(Switch \o Do("api"), LookupCommand("api"))
        BY <1>2, <1>4, <2>3, HasConcat
  <2>5. Has(First, LookupCommand("api")) /\ Has(First, LookupCommand("connect"))
        BY <1>2, <1>6, <2>3, <2>4, HasConcat
  <2>6. QED
        BY <2>5
<1> HIDE DEF First, Splits, Excludes
<1>8. First \in Seq(SetUpCommand) /\ Splits \in Seq(SetUpCommand) /\ Excludes \in Seq(SetUpCommand)
       /\ LookFirst(First) /\ ~Looks(Splits) /\ ~Looks(Excludes)
       BY <1>3, <1>6, OthersLookNot
<1>9. First \o Splits \in Seq(SetUpCommand) /\ LookFirst(First \o Splits)
  <2>1. First \o Splits \in Seq(SetUpCommand)
        BY <1>8, ConcatSetUp
  <2>2. LookFirst(First \o Splits)
        BY <1>8, LookFirstConcat
  <2>3. QED
        BY <2>1, <2>2
<1>10. DefaultMode(g) \in Seq(SetUpCommand) /\ LookFirst(DefaultMode(g))
  <2>1. (First \o Splits) \o Excludes \in Seq(SetUpCommand)
        BY <1>9, <1>8, ConcatSetUp
  <2>2. LookFirst((First \o Splits) \o Excludes)
        BY <1>9, <1>8, LookFirstConcat
  <2>3. QED
        BY <1>5, <2>1, <2>2
<1>11. \A h \in {"api", "connect"} : Has(DefaultMode(g), LookupCommand(h))
  <2>1. \A h \in {"api", "connect"} : Has(First \o Splits, LookupCommand(h))
        BY <1>7, <1>8, HasConcat
  <2>2. QED
        BY <1>5, <1>8, <1>9, <2>1, HasConcat
<1>12. SocksMode \in Seq(Others)
  <2>1. When(cfg.extras = <<>> /\ cfg.excludes = <<>>, Each("scopedSplit", Halves)) \in Seq(Others)
        BY <1>2, <1>3 DEF When
  <2>2. QED
        BY <1>3, <2>1, OthersLookNot DEF SocksMode
<1>13. DnsMode(g) \in Seq(Others)
  <2>1. CASE cfg.dns # <<>>
    <3>1. Each(IF KeepsDns THEN "dnsBypass" ELSE "dnsTun", cfg.dns) \in Seq(Others)
          BY <1>3
    <3>2. When(cfg.service, Do("setDns")) \in Seq(Others)
          /\ When(~cfg.defaultRoute, Each("dnsTun", cfg.dns)) \in Seq(Others)
          BY <1>2, <1>3 DEF When
    <3>3. QED
          BY <2>1, <3>1, <3>2, OthersLookNot DEF DnsMode
  <2>2. CASE cfg.dns = <<>>
        BY <1>2, <2>2 DEF DnsMode, When
  <2>3. QED
        BY <2>1, <2>2
<1> DEFINE Mode == When(cfg.defaultRoute, DefaultMode(g))
           Rest == When(~cfg.defaultRoute /\ cfg.socks, SocksMode)
           Extra == Each("extra", cfg.extras)
           Last == When(cfg.defaultRoute /\ cfg.bootstrap = "cache", Do("startCache"))
<1>14. Rest \in Seq(Others) /\ Extra \in Seq(Others) /\ Last \in Seq(Others)
       BY <1>2, <1>3, <1>12 DEF When
<1>15. Mode \in Seq(SetUpCommand) /\ LookFirst(Mode)
  <2>1. CASE cfg.defaultRoute
        BY <1>10, <2>1 DEF When
  <2>2. CASE ~cfg.defaultRoute
    <3>1. Mode = <<>>
          BY <2>2 DEF When
    <3>2. QED
          BY <1>2, <3>1, OthersLookNot
  <2>3. QED
        BY <2>1, <2>2
<1>16. cfg.defaultRoute => Mode = DefaultMode(g)
       BY DEF When
<1>17. SetUp(g) = (((Mode \o Rest) \o Extra) \o DnsMode(g)) \o Last
       BY DEF SetUp
<1> HIDE DEF Mode, Rest, Extra, Last
<1> DEFINE Look(s) == s \in Seq(SetUpCommand) /\ LookFirst(s)
<1>18. ASSUME NEW s, NEW t \in Seq(Others), Look(s)
       PROVE  Look(s \o t) /\ \A x : Has(s, x) \/ Has(t, x) => Has(s \o t, x)
       BY <1>18, OthersLookNot, ConcatSetUp, LookFirstConcat, HasConcat
<1>19. Look(Mode)
       BY <1>15
<1> HIDE DEF Look
<1>20. Look(Mode \o Rest) /\ \A x : Has(Mode, x) => Has(Mode \o Rest, x)
       BY <1>14, <1>18, <1>19
<1>21. Look((Mode \o Rest) \o Extra) /\ \A x : Has(Mode, x) => Has((Mode \o Rest) \o Extra, x)
       BY <1>14, <1>18, <1>20
<1>22. Look(((Mode \o Rest) \o Extra) \o DnsMode(g))
       /\ \A x : Has(Mode, x) \/ Has(DnsMode(g), x) => Has(((Mode \o Rest) \o Extra) \o DnsMode(g), x)
       BY <1>13, <1>18, <1>21
<1>23. Look(SetUp(g)) /\ \A x : Has(Mode, x) \/ Has(DnsMode(g), x) => Has(SetUp(g), x)
       BY <1>14, <1>17, <1>18, <1>22
<1>24. QED
       BY <1>11, <1>16, <1>23 DEF Look

\* What is taken out of the table while the session is set up or runs.
LEMMA Removals ==
  ASSUME Inv, Course, [Next]_vars, pc' \in {"setup", "running"}, NEW r \in table, r \notin table'
  PROVE  \/ r.dst = Default /\ Sealing
         \/ r.dst \in {LowHalf, HighHalf} /\ At("split")
         \/ job.at = "remove" /\ job.todo # <<>> /\ r.dst = Head(job.todo)
<1> DEFINE Goal == \/ r.dst = Default /\ Sealing
                   \/ r.dst \in {LowHalf, HighHalf} /\ At("split")
                   \/ job.at = "remove" /\ job.todo # <<>> /\ r.dst = Head(job.todo)
<1> SUFFICES Goal
    OBVIOUS
<1> HIDE DEF Goal
<1>1. CASE StartWithoutTun \/ CreateTun \/ DetectGateway \/ LookupEndpoint \/ AddScoped \/ SetDNS
           \/ SystemResolvers \/ StartCache \/ CoreStarts \/ CacheOver \/ CtxDone
           \/ DeleteDNSBypass \/ ClearDNS \/ Signal \/ Restart \/ Finished \/ UNCHANGED vars
  <2>1. UNCHANGED table
        BY <1>1 DEF StartWithoutTun, CreateTun, DetectGateway, LookupEndpoint, AddScoped, SetDNS,
           SystemResolvers, StartCache, CoreStarts, CacheOver, CtxDone, DeleteDNSBypass, ClearDNS,
           Signal, Restart, Finished, vars
  <2>2. QED
        BY <2>1
<1>2. CASE KsAdd \/ AddRecorded \/ AddExclude \/ AddExtraRoute \/ RenewDefault
  <2>1. table \subseteq table'
        BY <1>2, AddSubset DEF KsAdd, AddRecorded, AddExclude, AddExtraRoute, RenewDefault
  <2>2. QED
        BY <2>1
<1>3. CASE KsDelete
  <2>1. At("ksDelete") /\ table \ Matching(table, Default) \subseteq table'
        BY <1>3 DEF KsDelete, DeleteRoute
  <2>2. Head(todo) \in Planned /\ Head(todo).op = "ksDelete"
        BY <2>1, Running DEF At, SetUpOp
  <2>3. Sealing
        BY <2>2 DEF Planned
  <2>4. QED
        BY <2>1, <2>3 DEF Matching, Goal
<1>4. CASE AddSplitDefault
  <2>1. At("split") /\ table \ Matching(table, dst) \subseteq table'
        BY <1>4 DEF AddSplitDefault
  <2>2. Head(todo) \in Planned /\ Head(todo).op = "split"
        BY <2>1, Running DEF At, SetUpOp, Named
  <2>3. dst \in {LowHalf, HighHalf}
        BY <2>2 DEF Planned, dst
  <2>4. QED
        BY <2>1, <2>3 DEF Matching, Goal
<1>5. CASE RemoveDNSBypass
  <2>1. /\ job.at = "remove" /\ job.todo # <<>>
        /\ table \ Matching(table, Head(job.todo)) \subseteq table'
        BY <1>5 DEF RemoveDNSBypass, DeleteRoute
  <2>2. QED
        BY <2>1 DEF Matching, Goal
<1>6. CASE DeleteRecorded \/ TunDown \/ CleanupDefault
  <2>1. UNCHANGED pc /\ \E op \in UndoOp : At(op)
        BY <1>6 DEF DeleteRecorded, TunDown, CleanupDefault, UndoOp, session
  <2>2. QED
        BY <2>1, Running
<1>7. CASE CloseTun \/ Crash \/ LiftKillSwitch
      BY <1>7 DEF CloseTun, Crash, LiftKillSwitch, Terminal
<1>8. QED
      BY <1>1, <1>2, <1>3, <1>4, <1>5, <1>6, <1>7
      DEF Next, Process, CacheJob, Environment

\* What is promised is settled by the detection of the gateway.
LEMMA Settled ==
  ASSUME [Next]_vars, pc' \in {"setup", "running"}, ~DetectGateway
  PROVE  /\ pc \in {"setup", "running"} /\ (pc' = "setup" => pc = "setup")
         /\ UNCHANGED <<gw, before>> /\ Promising' = Promising
<1>1. pc \in {"setup", "running"} /\ (pc' = "setup" => pc = "setup") /\ UNCHANGED <<gw, before>>
      BY DEF Next, Process, CacheJob, Environment, session, vars, StartWithoutTun, CreateTun,
         KsDelete, KsAdd, LookupEndpoint, AddRecorded, AddExclude, AddExtraRoute,
         AddSplitDefault, AddScoped, SetDNS, SystemResolvers, StartCache, CoreStarts, CtxDone,
         DeleteDNSBypass, DeleteRecorded, ClearDNS, TunDown, CleanupDefault, CloseTun, CacheOver,
         RemoveDNSBypass, Signal, Crash, RenewDefault, LiftKillSwitch, Restart, Finished, Terminal
<1>2. QED
      BY <1>1, Fixed DEF Promising

LEMMA GatewaysStep == ASSUME [Next]_vars, Gateways PROVE Gateways'
<1>1. gw' = gw \/ DetectGateway
      BY DEF Next, Process, CacheJob, Environment, session, vars, StartWithoutTun, CreateTun,
         KsDelete, KsAdd, LookupEndpoint, AddRecorded, AddExclude, AddExtraRoute,
         AddSplitDefault, AddScoped, SetDNS, SystemResolvers, StartCache, CoreStarts, CtxDone,
         DeleteDNSBypass, DeleteRecorded, ClearDNS, TunDown, CleanupDefault, CloseTun, CacheOver,
         RemoveDNSBypass, Signal, Crash, RenewDefault, LiftKillSwitch, Restart, Finished
<1>2. CASE DetectGateway
      BY <1>2 DEF DetectGateway, Gateways, KnownGateway, NoGateway, Defaults
<1>3. QED
      BY <1>1, <1>2 DEF Gateways

LEMMA FreshStep == ASSUME Inv, NoTun, [Next]_vars, Fresh PROVE Fresh'
<1>1. SUFFICES ASSUME pc' \in {"start", "detect"} PROVE before' \subseteq table'
      BY DEF Fresh
<1>2. CASE Restart
      BY <1>2 DEF Restart
<1>3. CASE CreateTun \/ Signal \/ RenewDefault \/ UNCHANGED vars
  <2>1. before' = before /\ table \subseteq table' /\ pc \in {"start", "detect"}
        BY <1>1, <1>3, AddSubset DEF CreateTun, Signal, RenewDefault, vars, session
  <2>2. QED
        BY <2>1 DEF Fresh
<1>4. CASE CacheJob
  <2>1. pc' = pc /\ job.at # "off"
        BY <1>4 DEF CacheJob, CacheOver, RemoveDNSBypass
  <2>2. QED
        BY <1>1, <2>1 DEF NoTun, NoJob, Active
<1>5. CASE KsDelete \/ KsAdd \/ LookupEndpoint \/ AddRecorded \/ AddExclude \/ AddExtraRoute
           \/ AddSplitDefault \/ AddScoped \/ SetDNS \/ SystemResolvers \/ StartCache
           \/ DeleteDNSBypass \/ DeleteRecorded \/ ClearDNS \/ TunDown \/ CleanupDefault
  <2>1. UNCHANGED pc /\ todo # <<>>
        BY <1>5 DEF KsDelete, KsAdd, LookupEndpoint, AddRecorded, AddExclude, AddExtraRoute,
           AddSplitDefault, AddScoped, SetDNS, SystemResolvers, StartCache, DeleteDNSBypass,
           DeleteRecorded, ClearDNS, TunDown, CleanupDefault, At
  <2>2. QED
        BY <1>1, <2>1 DEF Inv, Control
<1>6. CASE StartWithoutTun \/ DetectGateway \/ CoreStarts \/ CtxDone \/ CloseTun \/ Crash
           \/ LiftKillSwitch \/ Finished
      BY <1>1, <1>6 DEF StartWithoutTun, DetectGateway, CoreStarts, CtxDone, CloseTun, Crash,
         LiftKillSwitch, Finished, Terminal, vars
<1>7. QED
      BY <1>2, <1>3, <1>4, <1>5, <1>6 DEF Next, Process, CacheJob, Environment

LEMMA WaysStep ==
  ASSUME NEW known, Addresses(cfg.excludes) \cap known = {}, Inv, Course, Gateways, Ways(known),
         [Next]_vars
  PROVE  Ways(known)'
<1>0. Recorded /\ Control /\ Commands /\ cfg \in Configs
      BY DEF Inv, Control
<1> DEFINE Goal == \E x : table' \subseteq table \cup {x} /\ Way(x, known)
<1>1. Way(BlackholeDefault, known) /\ \A d : Way(ToTun(d), known) /\ (KnownGateway(gw) => Way(ViaGateway(d), known))
      BY Routes DEF Way, Gateways, ViaGateway
<1>2. ASSUME table' \subseteq table PROVE Goal
      BY <1>1, <1>2
<1>3. ASSUME NEW x, Way(x, known), NEW t, t \subseteq table, table' = Add(t, x) \/ table' = t \cup {x} PROVE Goal
      BY <1>3, AddSubset
<1>4. SUFFICES Goal
  <2>1. \A r : Way(r, known)' <=> Way(r, known)
        BY DEF Way
  <2>2. QED
        BY <1>4, <2>1 DEF Ways
<1> HIDE DEF Goal
<1>5. CASE StartWithoutTun \/ CreateTun \/ DetectGateway \/ LookupEndpoint \/ AddScoped \/ SetDNS
           \/ SystemResolvers \/ StartCache \/ CoreStarts \/ CtxDone \/ DeleteDNSBypass \/ ClearDNS
           \/ CacheOver \/ Signal \/ Restart \/ Finished \/ UNCHANGED vars
      BY <1>2, <1>5 DEF StartWithoutTun, CreateTun, DetectGateway, LookupEndpoint, AddScoped, SetDNS,
         SystemResolvers, StartCache, CoreStarts, CtxDone, DeleteDNSBypass, ClearDNS,
         CacheOver, Signal, Restart, Finished, vars
<1>6. CASE KsDelete \/ DeleteRecorded \/ RemoveDNSBypass \/ TunDown \/ CloseTun \/ Crash
      BY <1>2, <1>6, RemovalSubset
      DEF KsDelete, DeleteRecorded, RemoveDNSBypass, DeleteRoute, TunDown, CloseTun, Crash
<1>7. CASE KsAdd
      BY <1>1, <1>2, <1>3, <1>7 DEF KsAdd
<1>8. CASE AddExtraRoute \/ AddSplitDefault
      BY <1>1, <1>2, <1>3, <1>8 DEF AddExtraRoute, AddSplitDefault
<1>9. CASE AddRecorded
      BY <1>1, <1>2, <1>3, <1>9 DEF AddRecorded
<1>10. CASE AddExclude
  <2>1. At("exclude") /\ (\/ KnownGateway(gw) /\ table' = Add(table, ViaGateway(dst))
                          \/ table' = Add(table, Reject(dst)) \/ UNCHANGED table)
        BY <1>10 DEF AddExclude
  <2>2. Head(todo) \in Planned /\ Head(todo).op = "exclude"
        BY <2>1, Running DEF At, SetUpOp, Routing
  <2>3. Has(cfg.excludes, dst)
        BY <2>2 DEF Planned, dst
  <2>4. dst \subseteq Addresses(cfg.excludes)
        BY <2>3 DEF Has, Addresses
  <2>5. Way(Reject(dst), known)
        BY <1>0, <2>4, Routes DEF Way
  <2>6. QED
        BY <1>1, <1>2, <1>3, <2>1, <2>5
<1>11. CASE CleanupDefault
  <2>1. UNCHANGED table
        BY <1>0, <1>11 DEF CleanupDefault, Recorded
  <2>2. QED
        BY <1>2, <2>1
<1>12. CASE RenewDefault \/ LiftKillSwitch
  <2>1. PICK r \in Defaults(host, Device) :
          table' = Add(table, r) \/ table' = Add(table \ {BlackholeDefault}, r)
        BY <1>12 DEF RenewDefault, LiftKillSwitch
  <2>2. Way(r, known)
        BY DEF Defaults, Way
  <2>3. QED
        BY <1>3, <2>1, <2>2
<1>13. QED
       BY <1>5, <1>6, <1>7, <1>8, <1>9, <1>10, <1>11, <1>12
       DEF Next, Process, CacheJob, Environment

\* One command, and what its answer calls for.
LEMMA Progress ==
  ASSUME Inv, Course, [Next]_vars, pc' = "setup", ~DetectGateway
  PROVE  \/ UNCHANGED todo
         \/ /\ pc = "setup" /\ todo # <<>> /\ job.at = "off" /\ todo \in Seq(SetUpCommand)
            /\ \/ Done(<<>>)
               \/ Head(todo).op \in {"api", "connect"} /\ Done(Each("ctrl", Answer[Head(todo).op]))
               \/ Head(todo).op = "resolvers" /\ Done(Each("dnsBypass", Resolvers))
<1> DEFINE Then == \/ Done(<<>>)
                   \/ Head(todo).op \in {"api", "connect"} /\ Done(Each("ctrl", Answer[Head(todo).op]))
                   \/ Head(todo).op = "resolvers" /\ Done(Each("dnsBypass", Resolvers))
<1>1. pc = "setup"
      BY Settled
<1>2. UNCHANGED todo \/ (todo # <<>> /\ Then)
  <2>1. CASE KsDelete \/ KsAdd \/ AddRecorded \/ AddExclude \/ AddExtraRoute \/ AddSplitDefault
             \/ AddScoped \/ SetDNS \/ StartCache \/ DeleteRecorded \/ ClearDNS \/ TunDown
             \/ CleanupDefault
    <3>1. todo # <<>> /\ Done(<<>>)
          BY <2>1 DEF KsDelete, KsAdd, AddRecorded, AddExclude, AddExtraRoute, AddSplitDefault,
             AddScoped, SetDNS, StartCache, DeleteRecorded, ClearDNS, TunDown, CleanupDefault, At
    <3>2. QED
          BY <3>1
  <2>2. CASE LookupEndpoint
        BY <2>2 DEF LookupEndpoint, At
  <2>3. CASE SystemResolvers
        BY <2>3 DEF SystemResolvers, At
  <2>4. CASE DeleteDNSBypass
    <3>1. At("delDns")
          BY <2>4 DEF DeleteDNSBypass
    <3>2. QED
          BY <1>1, <3>1, Running DEF UndoOp
  <2>5. CASE CoreStarts \/ CacheOver \/ RemoveDNSBypass \/ Signal \/ RenewDefault \/ LiftKillSwitch
             \/ Finished \/ UNCHANGED vars \/ StartWithoutTun \/ CreateTun \/ Restart
        BY <2>5 DEF CoreStarts, CacheOver, RemoveDNSBypass, Signal, RenewDefault, LiftKillSwitch,
           Finished, vars, session, StartWithoutTun, CreateTun, Restart
  <2>6. CASE CtxDone \/ CloseTun \/ Crash
        BY <1>1, <2>6 DEF CtxDone, CloseTun, Crash
  <2>7. QED
        BY <2>1, <2>2, <2>3, <2>4, <2>5, <2>6 DEF Next, Process, CacheJob, Environment
<1>3. Seq(Planned) \subseteq Seq(SetUpCommand)
      BY SeqMonotonic DEF Planned
<1>4. QED
      BY <1>1, <1>2, <1>3 DEF Course

LEMMA LooksConcat ==
  ASSUME NEW S, NEW s \in Seq(S), NEW t \in Seq(S), Looks(s \o t) PROVE Looks(s) \/ Looks(t)
<1>1. PICK i \in DOMAIN (s \o t) : (s \o t)[i].op \in Looking
      BY DEF Looks
<1>2. CASE i \in 1..Len(s)
      BY <1>1, <1>2 DEF Looks
<1>3. CASE i \notin 1..Len(s)
  <2>1. i - Len(s) \in 1..Len(t) /\ (s \o t)[i] = t[i - Len(s)]
        BY <1>1, <1>3
  <2>2. QED
        BY <1>1, <2>1 DEF Looks
<1>4. QED
      BY <1>2, <1>3

\* While anything is still to be looked up, only the kill switch and the lookups run.
LEMMA LookHead ==
  ASSUME NEW S, NEW s \in Seq(S), LookFirst(s), Looks(s)
  PROVE  Head(s).op \in Looking \cup {"ksDelete", "ksAdd"}
<1>1. PICK j \in DOMAIN s : s[j].op \in Looking
      BY DEF Looks
<1>2. 1 \in DOMAIN s /\ s[1] = Head(s) /\ (j = 1 \/ 1 < j)
      BY <1>1
<1>3. QED
      BY <1>1, <1>2 DEF LookFirst

LEMMA StillLooks ==
  ASSUME Inv, Course, Order, [Next]_vars, pc' = "setup", ~DetectGateway
  PROVE  LookFirst(todo') /\ (Looks(todo') => Looks(todo))
<1>1. pc = "setup" /\ LookFirst(todo) /\ cfg \in Configs
      BY Settled DEF Order, Inv, Control
<1>2. CASE UNCHANGED todo
      BY <1>1, <1>2
<1>3. ASSUME ~UNCHANGED todo
      PROVE  LookFirst(todo') /\ (Looks(todo') => Looks(todo))
  <2>1. /\ todo # <<>> /\ todo \in Seq(SetUpCommand)
        /\ \/ Done(<<>>)
           \/ Head(todo).op \in {"api", "connect"} /\ Done(Each("ctrl", Answer[Head(todo).op]))
           \/ Head(todo).op = "resolvers" /\ Done(Each("dnsBypass", Resolvers))
        BY <1>3, Progress
  <2>2. /\ Tail(todo) \in Seq(SetUpCommand) /\ LookFirst(Tail(todo))
        /\ Looks(Tail(todo)) => Looks(todo) /\ Head(todo).op \in Looking \cup {"ksDelete", "ksAdd"}
        BY <1>1, <2>1, LookFirstTail
  <2>3. CASE Done(<<>>)
    <3>1. todo' = Tail(todo)
          BY <2>2, <2>3 DEF Done
    <3>2. QED
          BY <2>2, <3>1
  <2>4. CASE Head(todo).op \in {"api", "connect"} /\ Done(Each("ctrl", Answer[Head(todo).op]))
    <3>1. Looks(todo)
      <4>1. 1 \in DOMAIN todo /\ todo[1] = Head(todo)
            BY <2>1
      <4>2. QED
            BY <2>4, <4>1 DEF Looks, Looking
    <3> DEFINE s == Each("ctrl", Answer[Head(todo).op])
    <3>2. Answer[Head(todo).op] \in Seq(Prefix)
          BY <1>1, <2>4, Inputs, ListedPrefixes, SeqMonotonic
    <3>3. s \in Seq(SetUpCommand)
          BY <3>2, EachSetUp DEF Routing
    <3>4. \A i \in DOMAIN s : s[i].op \in Looking \cup {"ksDelete", "ksAdd"}
          BY DEF Each, Looking
    <3>5. todo' = s \o Tail(todo)
          BY <2>4 DEF Done
    <3> HIDE DEF s
    <3>6. LookFirst(s \o Tail(todo))
          BY <2>2, <3>3, <3>4, LookFirstConcat
    <3>7. QED
          BY <3>1, <3>5, <3>6
  <2>5. CASE Head(todo).op = "resolvers" /\ Done(Each("dnsBypass", Resolvers))
    <3> DEFINE s == Each("dnsBypass", Resolvers)
    <3>1. Resolvers \in Seq(Prefix)
          BY <1>1, Inputs, ListedPrefixes, SeqMonotonic
    <3>2. s \in Seq(Others)
          BY <3>1, EachOther
    <3>3. s \in Seq(SetUpCommand) /\ ~Looks(s)
          BY <3>2, OthersLookNot
    <3>4. todo' = s \o Tail(todo)
          BY <2>5 DEF Done
    <3> HIDE DEF s
    <3>5. ~Looks(Tail(todo))
          BY <2>2, <2>5 DEF Looking
    <3>6. ~Looks(s \o Tail(todo))
          BY <2>2, <3>3, <3>5, LooksConcat
    <3>7. LookFirst(s \o Tail(todo))
          BY <3>6 DEF LookFirst, Looks
    <3>8. QED
          BY <3>4, <3>6, <3>7
  <2>6. QED
        BY <2>1, <2>3, <2>4, <2>5
<1>4. QED
      BY <1>2, <1>3

LEMMA OrderStep == ASSUME Inv, Course, Order, [Next]_vars PROVE Order'
<1>1. CASE DetectGateway
  <2>1. todo' = SetUp(gw') /\ cfg \in Configs
        BY <1>1 DEF DetectGateway, Inv, Control
  <2>2. QED
        BY <2>1, SetUpLooks DEF Order
<1>2. CASE ~DetectGateway
      BY <1>2, StillLooks DEF Order
<1>3. QED
      BY <1>1, <1>2

LEMMA AnsweringStep ==
  ASSUME Inv, NoTun, Course, Fresh, Order, Gateways, Answering, [Next]_vars PROVE Answering'
<1> DEFINE Way1(t) ==
             IF cfg.killSwitch
             THEN \E r \in t : r.dst \notin General /\ r.dst \cap Addresses(Resolvers) # {}
             ELSE \E r \in t : r.dst = Default /\ r.dev \in Device
<1>0. cfg' = cfg /\ faults' = faults /\ Recorded /\ General' = General
      /\ Addresses(Resolvers)' = Addresses(Resolvers)
      BY Fixed DEF Inv, General, Addresses
<1>1. SUFFICES ASSUME Promising', pc' = "setup", Looks(todo')
               PROVE  (\A r \in table' : r.dev # "tun") /\ Way1(table')
      BY <1>0 DEF Answering
<1> HIDE DEF Way1
<1>2. CASE DetectGateway
  <2>1. /\ pc = "detect" /\ UNCHANGED <<table, before>>
        /\ gw' = NoGateway \/ \E r \in Defaults(table, Device) : TRUE
        BY <1>2 DEF DetectGateway, session
  <2>2. \A r \in table' : r.dev # "tun"
        BY <2>1 DEF NoTun, Active
  <2>3. CASE cfg.killSwitch
    <3>1. Addresses(Resolvers) \cap Specifics(before, General) # {}
          BY <1>0, <1>1, <2>1, <2>3 DEF Promising, Specifics
    <3>2. before \subseteq table
          BY <2>1 DEF Fresh
    <3>3. PICK r \in before : r.dst \notin General /\ r.dst \cap Addresses(Resolvers) # {}
          BY <3>1 DEF Specifics
    <3>4. QED
          BY <2>1, <2>2, <2>3, <3>2, <3>3 DEF Way1
  <2>4. CASE ~cfg.killSwitch
    <3>1. KnownGateway(gw')
          BY <1>1 DEF Promising, KnownGateway
    <3>2. \E r \in table : r.dst = Default /\ r.dev \in Device
          BY <2>1, <3>1 DEF KnownGateway, NoGateway, Defaults
    <3>3. QED
          BY <2>1, <2>2, <2>4, <3>2 DEF Way1
  <2>5. QED
        BY <2>3, <2>4
<1>3. CASE ~DetectGateway
  <2>1. pc = "setup" /\ Promising /\ Looks(todo)
        BY <1>1, <1>3, Settled, StillLooks
  <2>2. (\A r \in table : r.dev # "tun") /\ Way1(table) /\ todo # <<>>
    <3>1. todo # <<>>
          BY <2>1 DEF Looks
    <3>2. QED
          BY <2>1, <3>1 DEF Answering, Way1
  <2>3. job.at = "off"
        BY <2>1, <2>2 DEF Course
  <2>4. Head(todo).op \in Looking \cup {"ksDelete", "ksAdd"}
        BY <2>1, <2>2, LookHead DEF Order, Course
  <2>5. \A r \in table : r \in table' \/ (r.dst = Default /\ Sealing)
        BY <1>1, <2>3, <2>4, Removals DEF At, Looking
  <2>6. Way1(table')
    <3>1. CASE cfg.killSwitch
          BY <2>2, <2>5, <3>1 DEF Way1, General
    <3>2. CASE ~cfg.killSwitch
          BY <2>2, <2>5, <3>2 DEF Way1, Sealing
    <3>3. QED
          BY <3>1, <3>2
  <2>7. \A r \in table' : r.dev # "tun"
    <3>1. ASSUME table' \subseteq table PROVE \A r \in table' : r.dev # "tun"
          BY <2>2, <3>1
    <3>2. ASSUME NEW x, x.dev # "tun", table' \subseteq table \cup {x}
          PROVE  \A r \in table' : r.dev # "tun"
          BY <2>2, <3>2
    <3>3. CASE StartWithoutTun \/ CreateTun \/ DetectGateway \/ LookupEndpoint \/ AddScoped \/ SetDNS
               \/ SystemResolvers \/ StartCache \/ CoreStarts \/ CtxDone \/ DeleteDNSBypass \/ ClearDNS
               \/ CacheOver \/ Signal \/ Restart \/ Finished \/ UNCHANGED vars
      <4>1. UNCHANGED table
            BY <3>3 DEF StartWithoutTun, CreateTun, DetectGateway, LookupEndpoint, AddScoped, SetDNS,
               SystemResolvers, StartCache, CoreStarts, CtxDone, DeleteDNSBypass, ClearDNS,
               CacheOver, Signal, Restart, Finished, vars
      <4>2. QED
            BY <3>1, <4>1
    <3>4. CASE KsDelete \/ DeleteRecorded \/ RemoveDNSBypass \/ TunDown \/ CloseTun \/ Crash
          BY <3>1, <3>4, RemovalSubset
          DEF KsDelete, DeleteRecorded, RemoveDNSBypass, DeleteRoute, TunDown, CloseTun, Crash
    <3>5. CASE KsAdd
          BY <3>1, <3>2, <3>5, Routes DEF KsAdd
    <3>6. CASE AddRecorded
      <4>1. \/ UNCHANGED table
            \/ \E list \in {"ctrl", "dnsBypass"} : table' = Add(table, ViaGateway(dst)) /\ KnownGateway(gw)
            \/ At("dnsTun")
            BY <3>6 DEF AddRecorded
      <4>2. ~At("dnsTun")
            BY <2>4 DEF At, Looking
      <4>3. KnownGateway(gw) => ViaGateway(dst).dev # "tun"
            BY Routes DEF Gateways, ViaGateway
      <4>4. QED
            BY <3>1, <3>2, <4>1, <4>2, <4>3, AddSubset
    <3>7. CASE AddExclude \/ AddExtraRoute \/ AddSplitDefault
          BY <2>4, <3>7 DEF AddExclude, AddExtraRoute, AddSplitDefault, At, Looking
    <3>8. CASE CleanupDefault
      <4>1. UNCHANGED table
            BY <1>0, <3>8 DEF CleanupDefault, Recorded
      <4>2. QED
            BY <3>1, <4>1
    <3>9. CASE RenewDefault \/ LiftKillSwitch
      <4>1. PICK r \in Defaults(host, Device) :
              table' = Add(table, r) \/ table' = Add(table \ {BlackholeDefault}, r)
            BY <3>9 DEF RenewDefault, LiftKillSwitch
      <4>2. r.dev # "tun" /\ table' \subseteq table \cup {r}
            BY <4>1, Routes, AddSubset DEF Defaults
      <4>3. QED
            BY <3>2, <4>2
    <3>10. QED
           BY <3>3, <3>4, <3>5, <3>6, <3>7, <3>8, <3>9
           DEF Next, Process, CacheJob, Environment
  <2>8. QED
        BY <2>6, <2>7
<1>4. QED
      BY <1>2, <1>3

\* As long as anything is to be looked up, there is a resolver that answers.
LEMMA ResolverAnswers ==
  ASSUME Resolvers # <<>>, Inv, Tunnel, Ways(Looked), Answering, Promising, pc = "setup", Looks(todo)
  PROVE  \E i \in DOMAIN Resolvers : Reachable(Resolvers[i])
<1>0. OnePerPrefix(table) /\ IsFiniteSet(table) /\ Resolvers \in Seq(HostPrefix)
      BY DarwinAssumption DEF Inv, Seal, Tunnel, DarwinAssumption, HostPrefix
<1>1. \A r \in table : r.dev # "tun"
      BY DEF Answering
<1>2. PICK i \in DOMAIN Resolvers :
        IF cfg.killSwitch THEN \E r \in table : r.dst \notin General /\ r.dst \cap Resolvers[i] # {}
        ELSE \E r \in table : r.dst = Default /\ r.dev \in Device
  <2>1. CASE cfg.killSwitch
    <3>1. PICK r \in table : r.dst \notin General /\ r.dst \cap Addresses(Resolvers) # {}
          BY <2>1 DEF Answering
    <3>2. PICK i \in DOMAIN Resolvers : r.dst \cap Resolvers[i] # {}
          BY <3>1 DEF Addresses
    <3>3. QED
          BY <2>1, <3>1, <3>2
  <2>2. CASE ~cfg.killSwitch
    <3>1. 1 \in DOMAIN Resolvers
          BY <1>0
    <3>2. QED
          BY <2>2, <3>1 DEF Answering
  <2>3. QED
        BY <2>1, <2>2
<1>3. PICK a \in Addr : Resolvers[i] = {a}
      BY <1>0, <1>2 DEF HostPrefix, Host
<1>4. a \in Looked
      BY <1>2, <1>3 DEF Looked, Addresses
<1>5. PICK q \in table : a \in q.dst /\ (q.dst = Default => q.dev \in Device)
  <2>1. CASE cfg.killSwitch
        BY <1>2, <1>3, <2>1 DEF General
  <2>2. CASE ~cfg.killSwitch
        BY <1>2, <1>3, <2>2 DEF Default
  <2>3. QED
        BY <2>1, <2>2
<1>6. PICK r \in table : a \in r.dst /\ \A s \in table : a \in s.dst => ~Beats(s, r)
  <2>1. \A r \in table : r.metric \in Nat
        BY <1>0 DEF OnePerPrefix
  <2>2. QED
        BY <1>0, <1>5, <2>1, BestMatch
<1>7. r # BlackholeDefault
  <2>1. SUFFICES ASSUME r = BlackholeDefault PROVE FALSE
        OBVIOUS
  <2>2. r.dst = Default /\ r.dev = "blackhole"
        BY <2>1, Routes
  <2>3. CASE q.dst = Default
    <3>1. q = r
          BY <1>0, <2>2, <2>3 DEF OnePerPrefix
    <3>2. QED
          BY <1>5, <2>2, <2>3, <3>1, Routes
  <2>4. CASE q.dst # Default
    <3>1. q.dst \in Prefix
          BY <1>0 DEF OnePerPrefix
    <3>2. Beats(q, r)
          BY <2>2, <2>4, <3>1 DEF Beats, Prefix, Default
    <3>3. QED
          BY <1>5, <1>6, <3>2
  <2>5. QED
        BY <2>3, <2>4
<1>8. r.dev \in Device
  <2>1. r.dst \cap Looked # {}
        BY <1>4, <1>6
  <2>2. QED
        BY <1>1, <1>7, <2>1 DEF Ways, Way
<1>9. GoesTo(table, a, Device)
      BY <1>6, <1>8 DEF GoesTo
<1>10. QED
       BY <1>2, <1>3, <1>9 DEF Reachable

\* An address of an endpoint whose lookup is over has its route.
LEMMA AnswersRouted ==
  ASSUME Answered, Promising, pc \in {"setup", "running"}, ~Looks(todo), NEW p \in Answers
  PROVE  Out(p)
<1>1. PICK h \in {"api", "connect"} : \E i \in DOMAIN Answer[h] : Answer[h][i] = p
      BY DEF Answers
<1>2. ~Has(todo, LookupCommand(h)) /\ ~Has(todo, CtrlCommand(p))
      BY DEF Looks, Has, LookupCommand, CtrlCommand, Looking
<1>3. QED
      BY <1>1, <1>2 DEF Answered

LEMMA AnswersHosts ==
  \A p \in Answers : /\ p \in HostPrefix /\ p \notin {Default, LowHalf, HighHalf}
                     /\ p \cap Looked # {}
<1> SUFFICES ASSUME NEW p \in Answers
             PROVE  /\ p \in HostPrefix /\ p \notin {Default, LowHalf, HighHalf}
                    /\ p \cap Looked # {}
    OBVIOUS
<1>1. PICK h \in {"api", "connect"} : \E i \in DOMAIN Answer[h] : Answer[h][i] = p
      BY DEF Answers
<1>2. Answer[h] \in Seq(HostPrefix)
      BY DarwinAssumption DEF DarwinAssumption, HostPrefix
<1>3. p \in HostPrefix /\ p \subseteq Looked
      BY <1>1, <1>2 DEF Looked, Endpoints, Addresses
<1>4. p # {} /\ p \notin {Default, LowHalf, HighHalf}
      BY <1>3, AddrAssumption DEF AddrAssumption, Default, HighHalf, HostPrefix, Host
<1>5. QED
      BY <1>3, <1>4

\* The routes of the endpoints stay.
LEMMA OutStays ==
  ASSUME Inv, Course, Untouched, [Next]_vars, ~DetectGateway, pc' \in {"setup", "running"},
         Promising, NEW p \in Answers, Out(p)
  PROVE  Out(p)'
<1>1. PICK r \in table : r.dst = p /\ r.dev \in Device
      BY DEF Out
<1>2. p \notin {Default, LowHalf, HighHalf}
      BY AnswersHosts
<1>3. pc \in {"setup", "running"}
      BY Settled
<1>4. job.todo # <<>> => Head(job.todo) # p
  <2>1. SUFFICES ASSUME job.todo # <<>>, Head(job.todo) = p PROVE Has(job.todo, p)
        BY <1>3 DEF Untouched
  <2>2. job.todo \in Seq(HostPrefix)
        BY DEF Inv, Recorded
  <2>3. 1 \in DOMAIN job.todo /\ job.todo[1] = p
        BY <2>1, <2>2
  <2>4. QED
        BY <2>3 DEF Has
<1>5. r \in table'
      BY <1>1, <1>2, <1>4, Removals
<1>6. QED
      BY <1>1, <1>5 DEF Out

\* The command at the head says which action runs it.
LEMMA OtherActions ==
  ASSUME [Next]_vars, ~UNCHANGED todo, pc = "setup", pc' = "setup", ~DetectGateway
  PROVE  /\ (\A op : op \notin {"api", "connect"} => ~At(op)) => LookupEndpoint
         /\ (\A op : op \notin {"ctrl", "dnsBypass"} => ~At(op)) => AddRecorded
         /\ (\A op : op # "resolvers" => ~At(op)) => SystemResolvers
<1>1. CASE KsDelete \/ KsAdd \/ AddExclude \/ AddExtraRoute \/ AddSplitDefault \/ AddScoped
           \/ SetDNS \/ StartCache \/ DeleteDNSBypass \/ DeleteRecorded \/ ClearDNS \/ TunDown
           \/ CleanupDefault
  <2>1. \E op \in {"ksDelete", "ksAdd", "exclude", "extra", "split", "scopedSplit", "scopedExclude",
                   "setDns", "startCache", "delDns", "del", "clearDns", "down", "default"} : At(op)
        BY <1>1 DEF KsDelete, KsAdd, AddExclude, AddExtraRoute, AddSplitDefault, AddScoped, SetDNS,
           StartCache, DeleteDNSBypass, DeleteRecorded, ClearDNS, TunDown, CleanupDefault
  <2>2. QED
        BY <2>1
<1>2. CASE LookupEndpoint
  <2>1. \E op \in {"api", "connect"} : At(op)
        BY <1>2 DEF LookupEndpoint
  <2>2. QED
        BY <1>2, <2>1
<1>3. CASE AddRecorded
  <2>1. \E op \in {"ctrl", "dnsBypass", "dnsTun"} : At(op)
        BY <1>3 DEF AddRecorded
  <2>2. QED
        BY <1>3, <2>1
<1>4. CASE SystemResolvers
  <2>1. At("resolvers")
        BY <1>4 DEF SystemResolvers
  <2>2. QED
        BY <1>4, <2>1
<1>5. CASE CoreStarts \/ CtxDone \/ CloseTun \/ Crash
      BY <1>5 DEF CoreStarts, CtxDone, CloseTun, Crash
<1>6. CASE StartWithoutTun \/ CreateTun \/ CacheOver \/ RemoveDNSBypass \/ Signal \/ RenewDefault
           \/ LiftKillSwitch \/ Restart \/ Finished \/ UNCHANGED vars
      BY <1>6 DEF StartWithoutTun, CreateTun, CacheOver, RemoveDNSBypass, Signal, RenewDefault,
         LiftKillSwitch, Restart, Finished, vars
<1>7. QED
      BY <1>1, <1>2, <1>3, <1>4, <1>5, <1>6 DEF Next, Process, CacheJob, Environment

\* A command of the set-up leaves it to go on.
LEMMA StillSetUp ==
  ASSUME Inv, [Next]_vars, pc' \in {"setup", "running"}, ~DetectGateway, ~UNCHANGED todo
  PROVE  pc = "setup" /\ pc' = "setup"
<1>1. pc \in {"setup", "running"} /\ (pc' = "setup" => pc = "setup")
      BY Settled
<1>2. todo # <<>> => pc \in {"setup", "cleanup"}
      BY DEF Inv, Control
<1>3. CASE KsDelete \/ KsAdd \/ LookupEndpoint \/ AddRecorded \/ AddExclude \/ AddExtraRoute
           \/ AddSplitDefault \/ AddScoped \/ SetDNS \/ SystemResolvers \/ StartCache
           \/ DeleteDNSBypass \/ DeleteRecorded \/ ClearDNS \/ TunDown \/ CleanupDefault
  <2>1. UNCHANGED pc /\ todo # <<>>
        BY <1>3 DEF KsDelete, KsAdd, LookupEndpoint, AddRecorded, AddExclude, AddExtraRoute,
           AddSplitDefault, AddScoped, SetDNS, SystemResolvers, StartCache, DeleteDNSBypass,
           DeleteRecorded, ClearDNS, TunDown, CleanupDefault, At
  <2>2. QED
        BY <1>1, <1>2, <2>1
<1>4. CASE StartWithoutTun \/ CreateTun \/ CoreStarts \/ CtxDone \/ CloseTun \/ CacheJob
           \/ Signal \/ Crash \/ RenewDefault \/ LiftKillSwitch \/ Restart \/ Finished
           \/ UNCHANGED vars
      BY <1>4 DEF StartWithoutTun, CreateTun, CoreStarts, CtxDone, CloseTun, CacheJob, CacheOver,
         RemoveDNSBypass, Signal, Crash, RenewDefault, LiftKillSwitch, Restart, Finished, vars
<1>5. QED
      BY <1>3, <1>4 DEF Next, Process, Environment

LEMMA AnsweredStep ==
  ASSUME Resolvers # <<>>, Inv, Tunnel, Course, Gateways, Ways(Looked), Order, Answering, Answered, Untouched,
         [Next]_vars
  PROVE  Answered'
<1>0. /\ cfg' = cfg /\ faults' = faults /\ Recorded /\ cfg \in Configs
      BY Fixed DEF Inv, Control
<1>1. SUFFICES ASSUME Promising', pc' \in {"setup", "running"}, NEW h \in {"api", "connect"},
                      NEW i \in DOMAIN Answer[h]
               PROVE  \/ Out(Answer[h][i])'
                      \/ Has(todo', LookupCommand(h)) \/ Has(todo', CtrlCommand(Answer[h][i]))
      BY DEF Answered, LookupCommand, CtrlCommand, Out
<1> DEFINE p == Answer[h][i]
           Goal == Out(p)' \/ Has(todo', LookupCommand(h)) \/ Has(todo', CtrlCommand(p))
<1> SUFFICES Goal
    OBVIOUS
<1>2. p \in Answers
      BY DEF Answers
<1> HIDE DEF Goal, p
<1>3. CASE DetectGateway
  <2>1. todo' = SetUp(gw') /\ cfg.defaultRoute
        BY <1>0, <1>1, <1>3 DEF DetectGateway, Promising
  <2>2. QED
        BY <1>0, <2>1, SetUpLooks DEF Goal
<1>4. CASE ~DetectGateway
  <2>1. /\ pc \in {"setup", "running"} /\ Promising /\ (pc' = "setup" => pc = "setup")
        /\ Out(p) \/ Has(todo, LookupCommand(h)) \/ Has(todo, CtrlCommand(p))
        BY <1>1, <1>4, Settled DEF Answered, p
  <2>2. CASE Out(p)
        BY <1>1, <1>2, <1>4, <2>1, <2>2, OutStays DEF Goal
  <2>3. CASE UNCHANGED todo
        BY <1>1, <1>2, <1>4, <2>1, <2>2, <2>3, OutStays DEF Goal
  <2>4. ASSUME ~Out(p), ~UNCHANGED todo PROVE Goal
    <3>1. pc = "setup" /\ pc' = "setup"
          BY <1>1, <1>4, <2>4, StillSetUp
    <3>2. /\ todo # <<>> /\ todo \in Seq(SetUpCommand)
          /\ \/ Done(<<>>)
             \/ Head(todo).op \in {"api", "connect"} /\ Done(Each("ctrl", Answer[Head(todo).op]))
             \/ Head(todo).op = "resolvers" /\ Done(Each("dnsBypass", Resolvers))
          BY <1>4, <2>4, <3>1, Progress
    <3>3. PICK then \in Seq(SetUpCommand) : Done(then)
      <4>1. \A l \in {"api", "connect"} : Answer[l] \in Seq(Prefix)
            BY <1>0, Inputs, ListedPrefixes, SeqMonotonic
      <4>2. Resolvers \in Seq(Prefix)
            BY <1>0, Inputs, ListedPrefixes, SeqMonotonic
      <4>3. /\ \A l \in {"api", "connect"} : Each("ctrl", Answer[l]) \in Seq(SetUpCommand)
            /\ Each("dnsBypass", Resolvers) \in Seq(SetUpCommand)
            BY <4>1, <4>2, EachSetUp DEF Routing
      <4>4. <<>> \in Seq(SetUpCommand)
            BY EmptySeq
      <4>5. QED
            BY <3>2, <4>3, <4>4
    <3>4. CASE Head(todo) \notin {LookupCommand(h), CtrlCommand(p)}
          BY <2>1, <2>4, <3>2, <3>3, <3>4, HasLater DEF Goal
    <3>5. Head(todo) \in {LookupCommand(h), CtrlCommand(p)} => Looks(todo)
      <4>1. 1 \in DOMAIN todo /\ todo[1] = Head(todo)
            BY <3>2
      <4>2. QED
            BY <4>1 DEF Looks, Looking, LookupCommand, CtrlCommand
    <3>6. CASE Head(todo) = LookupCommand(h)
      <4>1. \E j \in DOMAIN Resolvers : Reachable(Resolvers[j])
            BY <2>1, <3>1, <3>5, <3>6, ResolverAnswers
      <4>2. At(h) /\ \A op : op # h => ~At(op)
            BY <3>2, <3>6 DEF At, LookupCommand
      <4>3. LookupEndpoint
            BY <1>4, <2>4, <3>1, <4>2, OtherActions
      <4>4. PICK l \in {"api", "connect"} :
              /\ At(l)
              /\ \/ Done(Each("ctrl", Answer[l]))
                 \/ ~KnownGateway(gw) \/ "dns" \in faults
                 \/ \A j \in DOMAIN Resolvers : ~Reachable(Resolvers[j])
            BY <4>3 DEF LookupEndpoint
      <4>5. Done(Each("ctrl", Answer[h]))
            BY <2>1, <4>1, <4>2, <4>4 DEF Promising
      <4>6. Has(Each("ctrl", Answer[h]), CtrlCommand(p))
        <5>1. Has(Answer[h], p)
              BY DEF Has, p
        <5>2. QED
              BY <5>1, HasEach DEF CtrlCommand
      <4>7. Each("ctrl", Answer[h]) \in Seq(SetUpCommand) /\ Tail(todo) \in Seq(SetUpCommand)
        <5>1. Answer[h] \in Seq(Prefix)
              BY <1>0, Inputs, ListedPrefixes, SeqMonotonic
        <5>2. QED
              BY <3>2, <5>1, EachSetUp, HeadTailProperties DEF Routing
      <4>8. QED
            BY <4>5, <4>6, <4>7, HasConcat DEF Done, Goal
    <3>7. CASE Head(todo) = CtrlCommand(p)
      <4>1. At("ctrl") /\ dst = p /\ \A op : op # "ctrl" => ~At(op)
            BY <3>2, <3>7 DEF At, CtrlCommand, dst
      <4>2. AddRecorded
            BY <1>4, <2>4, <3>1, <4>1, OtherActions
      <4>3. table' = Add(table, ViaGateway(dst)) \/ Exists(dst)
            BY <2>1, <4>1, <4>2 DEF AddRecorded, Promising, MayFail
      <4>4. ~Exists(p)
        <5>1. SUFFICES ASSUME NEW r \in table, r.dst = p PROVE FALSE
              BY DEF Exists, Matching
        <5>2. p # Default /\ p \cap Looked # {}
              BY <1>2, AnswersHosts
        <5>3. r.dev # "tun"
              BY <2>1, <3>1, <3>5, <3>7 DEF Answering
        <5>4. r # BlackholeDefault
              BY <5>1, <5>2, Routes
        <5>5. r.dev \in Device
              BY <5>1, <5>2, <5>3, <5>4 DEF Ways, Way
        <5>6. QED
              BY <2>4, <5>1, <5>5 DEF Out
      <4>5. ViaGateway(p) \in table'
        <5>1. table' = Add(table, ViaGateway(p)) /\ \A r \in table : r.dst # p
              BY <4>1, <4>3, <4>4 DEF Exists, Matching
        <5>2. QED
              BY <5>1, Routes DEF Add
      <4>6. ViaGateway(p).dst = p /\ ViaGateway(p).dev \in Device
            BY <2>1, Routes DEF Promising, Gateways, ViaGateway
      <4>7. Out(p)'
            BY <4>5, <4>6 DEF Out
      <4>8. QED
            BY <4>7 DEF Goal
    <3>8. QED
          BY <3>4, <3>6, <3>7
  <2>5. QED
        BY <2>2, <2>3, <2>4
<1>5. QED
      BY <1>3, <1>4

LEMMA HasAppended ==
  ASSUME NEW S, NEW s \in Seq(S), NEW y \in S, NEW x, Has(Append(s, y), x) PROVE Has(s, x) \/ x = y
<1>1. /\ Append(s, y) \in Seq(S) /\ Len(Append(s, y)) = Len(s) + 1
      /\ \A i \in 1..Len(s) : Append(s, y)[i] = s[i]
      /\ Append(s, y)[Len(s) + 1] = y
      BY AppendProperties
<1>2. DOMAIN Append(s, y) = 1..Len(Append(s, y)) /\ DOMAIN s = 1..Len(s) /\ Len(s) \in Nat
      BY <1>1, LenProperties
<1>3. PICK i \in 1..(Len(s) + 1) : Append(s, y)[i] = x
      BY <1>1, <1>2 DEF Has
<1>4. CASE i = Len(s) + 1
      BY <1>1, <1>3, <1>4
<1>5. CASE i # Len(s) + 1
  <2>1. i \in 1..Len(s)
        BY <1>2, <1>3, <1>5
  <2>2. QED
        BY <1>1, <1>2, <1>3, <2>1 DEF Has
<1>6. QED
      BY <1>4, <1>5

LEMMA UntouchedStep ==
  ASSUME Inv, NoTun, Course, Order, Answered, Untouched, [Next]_vars PROVE Untouched'
<1>0. Recorded /\ rm \in RouteManager /\ ~Has(<<>>, 0) /\ \A x : ~Has(<<>>, x)
      BY DEF Inv, Recorded, Has
<1>1. SUFFICES ASSUME Promising', pc' \in {"setup", "running"}, NEW p \in Answers
               PROVE  ~Has(rm'.dnsBypass, p) /\ ~Has(job'.todo, p)
      BY DEF Untouched, Answers
<1> DEFINE Goal == ~Has(rm'.dnsBypass, p) /\ ~Has(job'.todo, p)
<1> SUFFICES Goal
    OBVIOUS
<1>2. CASE DetectGateway
  <2>1. rm'.dnsBypass = <<>> /\ job' = NoJob
        BY <1>2 DEF DetectGateway, NewRouteManager, NoTun, Active
  <2>2. job'.todo = <<>>
        BY <2>1 DEF NoJob
  <2>3. QED
        BY <1>0, <2>1, <2>2
<1>3. ASSUME ~DetectGateway
      PROVE  pc \in {"setup", "running"} /\ Promising /\ ~Has(rm.dnsBypass, p) /\ ~Has(job.todo, p)
      BY <1>1, <1>3, Settled DEF Untouched
<1>4. CASE StartWithoutTun \/ CreateTun \/ LookupEndpoint \/ SystemResolvers \/ CoreStarts \/ CtxDone
           \/ DeleteDNSBypass \/ DeleteRecorded \/ ClearDNS \/ TunDown \/ CleanupDefault \/ Signal
           \/ RenewDefault \/ LiftKillSwitch \/ Restart \/ Finished \/ UNCHANGED vars
  <2>1. UNCHANGED <<rm, job>>
        BY <1>4 DEF StartWithoutTun, CreateTun, LookupEndpoint, SystemResolvers, CoreStarts, CtxDone,
           DeleteDNSBypass, DeleteRecorded, ClearDNS, TunDown, CleanupDefault, Signal,
           RenewDefault, LiftKillSwitch, Restart, Finished, vars
  <2>2. QED
        BY <1>2, <1>3, <2>1
<1>5. CASE KsDelete \/ KsAdd \/ SetDNS
  <2>1. /\ UNCHANGED job
        /\ \/ rm' = rm \/ rm' = [rm EXCEPT !.ks = TRUE] \/ rm' = [rm EXCEPT !.dnsSet = TRUE]
           \/ rm' = [rm EXCEPT !.ks = TRUE, !.ksAdded = TRUE]
        BY <1>5 DEF KsDelete, KsAdd, SetDNS
  <2>2. rm'.dnsBypass = rm.dnsBypass
        BY <1>0, <2>1 DEF RouteManager
  <2>3. QED
        BY <1>2, <1>3, <2>1, <2>2
<1>6. CASE AddExclude \/ AddExtraRoute \/ AddSplitDefault \/ AddScoped
  <2>1. UNCHANGED job /\ (UNCHANGED rm \/ \E list \in Lists \ {"dnsBypass"} : Record(list))
        BY <1>6 DEF AddExclude, AddExtraRoute, AddSplitDefault, AddScoped, Lists
  <2>2. rm'.dnsBypass = rm.dnsBypass
        BY <1>0, <2>1 DEF RouteManager, Lists, Record
  <2>3. QED
        BY <1>2, <1>3, <2>1, <2>2
<1>7. CASE AddRecorded /\ ~DetectGateway
  <2>1. UNCHANGED job /\ (\/ UNCHANGED rm \/ Record("ctrl") \/ Record("dnsTun")
                          \/ At("dnsBypass") /\ ~Exists(dst) /\ Record("dnsBypass"))
        BY <1>7 DEF AddRecorded
  <2>2. CASE UNCHANGED rm
        BY <1>3, <1>7, <2>1, <2>2
  <2>3. CASE Record("ctrl") \/ Record("dnsTun")
    <3>1. rm'.dnsBypass = rm.dnsBypass
          BY <1>0, <2>3 DEF RouteManager, Record
    <3>2. QED
          BY <1>3, <1>7, <2>1, <3>1
  <2>4. CASE At("dnsBypass") /\ ~Exists(dst) /\ Record("dnsBypass")
    <3>1. /\ pc = "setup" /\ todo # <<>> /\ todo \in Seq(Planned) /\ Head(todo).op = "dnsBypass"
          /\ dst \in Prefix
      <4>1. pc = "setup" /\ todo # <<>> /\ todo \in Seq(Planned) /\ Head(todo) \in Planned
            BY <2>4, Running DEF SetUpOp, Routing
      <4>2. QED
            BY <2>4, <4>1 DEF At, dst, Planned, SetUpCommand
    <3>2. ~Looks(todo)
          BY <3>1, LookHead DEF Order, Looking
    <3>3. Out(p)
          BY <1>3, <1>7, <3>1, <3>2, AnswersRouted
    <3>4. p # dst
          BY <2>4, <3>3 DEF Out, Exists, Matching
    <3>5. rm'.dnsBypass = Append(rm.dnsBypass, dst)
          BY <1>0, <2>4 DEF RouteManager, Record
    <3>6. rm.dnsBypass \in Seq(Prefix)
      <4>1. Seq(HostPrefix) \subseteq Seq(Prefix)
            BY ListedPrefixes, SeqMonotonic
      <4>2. QED
            BY <1>0, <4>1 DEF RouteManager
    <3>7. Has(rm'.dnsBypass, p) => Has(rm.dnsBypass, p)
          BY <3>1, <3>4, <3>5, <3>6, HasAppended
    <3>8. QED
          BY <1>3, <1>7, <2>1, <3>7
  <2>5. QED
        BY <2>1, <2>2, <2>3, <2>4
<1>8. CASE StartCache \/ CacheOver
  <2>1. UNCHANGED rm /\ (job'.todo = <<>> \/ job'.todo = rm.dnsBypass)
        BY <1>8 DEF StartCache, CacheOver
  <2>2. QED
        BY <1>0, <1>2, <1>3, <2>1
<1>9. CASE RemoveDNSBypass /\ ~DetectGateway
  <2>1. CASE job.todo # <<>>
    <3>1. UNCHANGED rm /\ job'.todo = Tail(job.todo)
          BY <1>0, <1>9, <2>1 DEF RemoveDNSBypass, Recorded
    <3>2. job.todo \in Seq(HostPrefix)
          BY <1>0 DEF Recorded
    <3>3. \A i \in DOMAIN Tail(job.todo) : i + 1 \in DOMAIN job.todo /\ job.todo[i + 1] = Tail(job.todo)[i]
          BY <2>1, <3>2
    <3>4. Has(Tail(job.todo), p) => Has(job.todo, p)
          BY <3>3 DEF Has
    <3>5. QED
          BY <1>3, <1>9, <3>1, <3>4
  <2>2. CASE job.todo = <<>>
    <3>1. rm'.dnsBypass = <<>> /\ job'.todo = <<>>
          BY <1>0, <1>9, <2>2 DEF RemoveDNSBypass, RouteManager
    <3>2. QED
          BY <1>0, <3>1
  <2>3. QED
        BY <2>1, <2>2
<1>10. CASE CloseTun \/ Crash
       BY <1>1, <1>10 DEF CloseTun, Crash
<1>11. QED
       BY <1>2, <1>4, <1>5, <1>6, <1>7, <1>8, <1>9, <1>10
       DEF Next, Process, CacheJob, Environment

LEMMA GoneAroundInit == LookedGoOut /\ Init => GoneAround
<1> SUFFICES ASSUME LookedGoOut, Init PROVE GoneAround
    OBVIOUS
<1>1. /\ pc = "start" /\ host \in HostTables /\ table = host /\ before = host /\ gw = NoGateway
      BY DEF Init
<1>2. Gateways /\ Fresh /\ Order /\ Answering /\ Answered /\ Untouched
      BY <1>1 DEF Gateways, KnownGateway, NoGateway, Fresh, Order, Answering, Answered, Untouched
<1>3. Ways(Looked)
      BY <1>1 DEF LookedGoOut, Ways, Way
<1>4. QED
      BY <1>2, <1>3 DEF GoneAround

LEMMA EndpointsRouted == ASSUME Inv, GoneAround PROVE ControlPlaneBypassed
<1>1. SUFFICES ASSUME pc = "running", Promising, NEW a \in Endpoints PROVE GoesTo(table, a, Device)
      BY DEF ControlPlaneBypassed, Promising
<1>2. PICK h \in {"api", "connect"} : \E i \in DOMAIN Answer[h] : a \in Answer[h][i]
      BY DEF Endpoints, Addresses
<1>3. PICK p \in Answers : a \in p
      BY <1>2 DEF Answers
<1>4. p = {a}
      BY <1>3, AnswersHosts DEF HostPrefix, Host
<1>5. Out(p)
  <2>1. todo = <<>>
        BY <1>1 DEF Inv, Control
  <2>2. ~Looks(todo)
        BY <2>1 DEF Looks
  <2>3. QED
        BY <1>1, <2>2, AnswersRouted DEF GoneAround
<1>6. PICK r \in table : r.dst = p /\ r.dev \in Device
      BY <1>5 DEF Out
<1>7. \A s \in table : a \in s.dst => ~Beats(s, r)
      BY <1>4, <1>6 DEF Beats, Inv, Seal, OnePerPrefix
<1>8. QED
      BY <1>3, <1>6, <1>7 DEF GoesTo

\* While a default-route session runs that found a gateway, whose route commands and lookups
\* worked, its two endpoints are reached around the tunnel, whatever the user, other sessions
\* and the goroutine do (routes.go:7, routes_darwin.go:52-72).
THEOREM EndpointsGoAround ==
  ASSUME LookedGoOut, NotExcluded, Resolvers # <<>> PROVE Spec => []ControlPlaneBypassed
<1> DEFINE All == Inv /\ Tunnel /\ NoTun /\ Course /\ GoneAround
<1>1. Init => All
  <2>1. Init => Tunnel
        BY TunnelInit
  <2>2. Init => NoTun /\ Course
        BY CourseInit
  <2>3. QED
        BY <2>1, <2>2, InvInit, GoneAroundInit
<1>2. All /\ [Next]_vars => All'
  <2> SUFFICES ASSUME Inv, Tunnel, NoTun, Course, GoneAround, [Next]_vars PROVE All'
      OBVIOUS
  <2>1. Gateways' /\ Fresh' /\ Order'
        BY GatewaysStep, FreshStep, OrderStep DEF GoneAround
  <2>2. Answering' /\ Answered' /\ Untouched'
        BY AnsweringStep, AnsweredStep, UntouchedStep DEF GoneAround
  <2>3. Ways(Looked)'
    <3>1. Addresses(cfg.excludes) \cap Looked = {}
          BY DEF NotExcluded, Inv, Control
    <3>2. PICK known : known = Looked
          OBVIOUS
    <3>3. Ways(known)'
          BY <3>1, <3>2, WaysStep DEF GoneAround
    <3>4. QED
          BY <3>2, <3>3 DEF Looked, Endpoints, Addresses
  <2>4. QED
        BY <2>1, <2>2, <2>3, InvStep, TunnelStep, NoTunStep, CourseStep DEF GoneAround
<1>3. All => ControlPlaneBypassed
      BY EndpointsRouted
<1>4. QED
      BY <1>1, <1>2, <1>3, PTL DEF Spec

(***************************************************************************)
(* The DNS servers are reached as --dns_bootstrap says.                    *)
(***************************************************************************)
Servers(c) == IF c.dns # <<>> THEN c.dns ELSE Resolvers

\* The host sends the servers to its devices, and the command line neither excludes them nor
\* routes one of them into the tunnel by name: that route would be in the bypass's place.
ServersApart ==
  \A c \in Configs : c.defaultRoute /\ c.bootstrap # "none" =>
    \A a \in Addresses(Servers(c)) :
      /\ \A t \in HostTables : \A r \in t : a \in r.dst => r.dev \in Device
      /\ a \notin Addresses(c.excludes) /\ ~Has(c.extras, Host(a))

BypassCommand(p) == [op |-> "dnsBypass", dst |-> p]
ResolversCommand == [op |-> "resolvers", dst |-> {}]

\* When the servers are to be routed around the tunnel.
Serving == KeepsDns /\ KnownGateway(gw) /\ faults \cap {"add", "dns"} = {}

\* Only a cache session has the goroutine, which leaves no record behind.
CacheOnly == /\ job.at # "off" => cfg.bootstrap = "cache"
             /\ job.at = "done" => rm.dnsBypass = <<>>

\* What goes into a tunnel beside the halves was named with --route.
Straight ==
  KeepsDns => \A r \in table : r.dev = "tun" => r.dst \in {LowHalf, HighHalf} \/ Has(cfg.extras, r.dst)

\* The routes to a server, as Ways says of the endpoints.
ServerWays == KeepsDns => Ways(DnsServers)

\* Until the goroutine begins, each server has its route or will get it.
Served ==
  Serving /\ pc \in {"setup", "running"} /\ job.at \in {"off", "wait"} =>
    \A a \in DnsServers :
      \/ Out(Host(a)) \/ Has(todo, BypassCommand(Host(a)))
      \/ cfg.dns = <<>> /\ Has(todo, ResolversCommand)

\* Why a specific route goes around the tunnel.
Placed(r) ==
  \/ r.dst \in General \/ r.dev = "tun" \/ r.dst \subseteq Endpoints \cup Addresses(cfg.excludes)
  \/ \E s \in before : s.dst = r.dst
  \/ pc \in {"setup", "running"} /\ Dns(r.dst)
AllPlaced ==
  "del" \notin faults /\ pc \in {"start", "detect", "setup", "running"} =>
    \A r \in table : Placed(r)

Following == CacheOnly /\ Straight /\ ServerWays /\ Served /\ AllPlaced

LEMMA SetUpServes ==
  ASSUME cfg \in Configs, KeepsDns, NEW g, KnownGateway(g)
  PROVE  /\ cfg.dns # <<>> => \A i \in DOMAIN cfg.dns : Has(SetUp(g), BypassCommand(cfg.dns[i]))
         /\ cfg.dns = <<>> => Has(SetUp(g), ResolversCommand)
<1>1. \A x : DOMAIN <<x>> = {1} /\ <<x>>[1] = x
      OBVIOUS
<1>2. CASE cfg.dns # <<>>
  <2> DEFINE A == When(cfg.service, Do("setDns"))
             B == Each("dnsBypass", cfg.dns)
             C == When(~cfg.defaultRoute, Each("dnsTun", cfg.dns))
  <2>1. DnsMode(g) = (A \o B) \o C
        BY <1>2 DEF DnsMode
  <2>2. cfg.dns \in Seq(Prefix)
        BY Inputs, ListedPrefixes, SeqMonotonic
  <2>3. <<>> \in Seq(SetUpCommand) /\ Do("setDns") \in Seq(SetUpCommand)
    <3>1. [op |-> "setDns", dst |-> {}] \in SetUpCommand
          BY DEF SetUpCommand, Prefix
    <3>2. QED
          BY <3>1, EmptySeq DEF Do
  <2>4. A \in Seq(SetUpCommand) /\ B \in Seq(SetUpCommand) /\ C \in Seq(SetUpCommand)
        BY <2>2, <2>3, EachSetUp DEF When, Routing, Named
  <2>5. \A i \in DOMAIN cfg.dns : Has(B, BypassCommand(cfg.dns[i]))
    <3>1. \A i \in DOMAIN cfg.dns : Has(cfg.dns, cfg.dns[i])
          BY DEF Has
    <3>2. QED
          BY <3>1, HasEach DEF BypassCommand
  <2> HIDE DEF A, B, C
  <2>6. A \o B \in Seq(SetUpCommand) /\ \A x : Has(B, x) => Has(A \o B, x)
        BY <2>4, ConcatSetUp, HasConcat
  <2>7. \A x : Has(A \o B, x) => Has((A \o B) \o C, x)
        BY <2>4, <2>6, HasConcat
  <2>8. QED
        BY <1>2, <2>1, <2>5, <2>6, <2>7, SetUpLooks
<1>3. CASE cfg.dns = <<>>
  <2>1. DnsMode(g) = <<ResolversCommand>>
        BY <1>3 DEF DnsMode, When, Do, ResolversCommand
  <2>2. Has(DnsMode(g), ResolversCommand)
        BY <1>1, <2>1 DEF Has
  <2>3. QED
        BY <1>3, <2>2, SetUpLooks
<1>4. QED
      BY <1>2, <1>3

LEMMA CacheOnlyStep == ASSUME Inv, NoTun, Course, CacheOnly, [Next]_vars PROVE CacheOnly'
<1>0. cfg' = cfg /\ Recorded /\ rm \in RouteManager
      BY Fixed DEF Inv, Recorded
<1>1. CASE StartWithoutTun \/ CreateTun \/ LookupEndpoint \/ SystemResolvers \/ CoreStarts \/ CtxDone
           \/ DeleteDNSBypass \/ DeleteRecorded \/ ClearDNS \/ TunDown \/ CleanupDefault \/ Signal
           \/ RenewDefault \/ LiftKillSwitch \/ Restart \/ Finished \/ UNCHANGED vars
  <2>1. UNCHANGED <<rm, job>>
        BY <1>1 DEF StartWithoutTun, CreateTun, LookupEndpoint, SystemResolvers, CoreStarts, CtxDone,
           DeleteDNSBypass, DeleteRecorded, ClearDNS, TunDown, CleanupDefault, Signal,
           RenewDefault, LiftKillSwitch, Restart, Finished, vars
  <2>2. QED
        BY <1>0, <2>1 DEF CacheOnly
<1>2. CASE CloseTun \/ Crash
      BY <1>2 DEF CloseTun, Crash, CacheOnly, NoJob
<1>3. CASE DetectGateway
  <2>1. job' = NoJob
        BY <1>3 DEF DetectGateway, NoTun, Active
  <2>2. QED
        BY <2>1 DEF CacheOnly, NoJob
<1>4. CASE KsDelete \/ KsAdd \/ AddRecorded \/ AddExclude \/ AddExtraRoute \/ AddSplitDefault
           \/ AddScoped \/ SetDNS
  <2>1. UNCHANGED job /\
        \E op \in {"ksDelete", "ksAdd", "ctrl", "dnsBypass", "dnsTun", "exclude", "extra", "split",
                   "scopedSplit", "scopedExclude", "setDns"} : At(op)
        BY <1>4 DEF KsDelete, KsAdd, AddRecorded, AddExclude, AddExtraRoute, AddSplitDefault,
           AddScoped, SetDNS
  <2>2. job.at = "off"
        BY <2>1, Running DEF SetUpOp, Routing, Named
  <2>3. QED
        BY <2>1, <2>2 DEF CacheOnly
<1>5. CASE StartCache
  <2>1. At("startCache") /\ job'.at = "wait"
        BY <1>5 DEF StartCache
  <2>2. Head(todo) \in Planned /\ Head(todo).op = "startCache"
        BY <2>1, Running DEF SetUpOp, At
  <2>3. QED
        BY <1>0, <2>1, <2>2 DEF CacheOnly, Planned
<1>6. CASE CacheOver
  <2>1. job.at = "wait" /\ job'.at = "remove"
        BY <1>6 DEF CacheOver
  <2>2. QED
        BY <1>0, <2>1 DEF CacheOnly
<1>7. CASE RemoveDNSBypass
  <2>1. job.at = "remove"
        BY <1>7 DEF RemoveDNSBypass
  <2>2. CASE job.todo # <<>>
    <3>1. job'.at = "remove"
          BY <1>0, <1>7, <2>1, <2>2 DEF RemoveDNSBypass, Recorded
    <3>2. QED
          BY <1>0, <2>1, <3>1 DEF CacheOnly
  <2>3. CASE job.todo = <<>>
    <3>1. job'.at = "done" /\ rm'.dnsBypass = <<>>
          BY <1>0, <1>7, <2>3 DEF RemoveDNSBypass, RouteManager
    <3>2. QED
          BY <1>0, <2>1, <3>1 DEF CacheOnly
  <2>4. QED
        BY <2>2, <2>3
<1>8. QED
      BY <1>1, <1>2, <1>3, <1>4, <1>5, <1>6, <1>7 DEF Next, Process, CacheJob, Environment

LEMMA StraightStep == ASSUME Inv, Course, Gateways, Straight, [Next]_vars PROVE Straight'
<1> DEFINE Plain(x) == x.dev = "tun" => x.dst \in {LowHalf, HighHalf} \/ Has(cfg.extras, x.dst)
           Goal == \E x : table' \subseteq table \cup {x} /\ Plain(x)
<1>0. Recorded /\ Control /\ cfg' = cfg /\ KeepsDns' = KeepsDns
      BY Fixed DEF Inv, KeepsDns
<1>1. Plain(BlackholeDefault) /\ \A d : Plain(Reject(d)) /\ (KnownGateway(gw) => Plain(ViaGateway(d)))
      BY Routes DEF Gateways, ViaGateway
<1>2. ASSUME table' \subseteq table PROVE Goal
      BY <1>1, <1>2
<1>3. ASSUME NEW x, Plain(x), NEW t, t \subseteq table, table' = Add(t, x) \/ table' = t \cup {x} PROVE Goal
      BY <1>3, AddSubset
<1>4. SUFFICES ASSUME KeepsDns PROVE Goal
      BY <1>0, <1>4 DEF Straight
<1> HIDE DEF Goal
<1>5. CASE StartWithoutTun \/ CreateTun \/ DetectGateway \/ LookupEndpoint \/ AddScoped \/ SetDNS
           \/ SystemResolvers \/ StartCache \/ CoreStarts \/ CtxDone \/ DeleteDNSBypass \/ ClearDNS
           \/ CacheOver \/ Signal \/ Restart \/ Finished \/ UNCHANGED vars
      BY <1>2, <1>5 DEF StartWithoutTun, CreateTun, DetectGateway, LookupEndpoint, AddScoped, SetDNS,
         SystemResolvers, StartCache, CoreStarts, CtxDone, DeleteDNSBypass, ClearDNS,
         CacheOver, Signal, Restart, Finished, vars
<1>6. CASE KsDelete \/ DeleteRecorded \/ RemoveDNSBypass \/ TunDown \/ CloseTun \/ Crash
      BY <1>2, <1>6, RemovalSubset
      DEF KsDelete, DeleteRecorded, RemoveDNSBypass, DeleteRoute, TunDown, CloseTun, Crash
<1>7. CASE KsAdd
      BY <1>1, <1>2, <1>3, <1>7 DEF KsAdd
<1>8. CASE AddExtraRoute \/ AddSplitDefault
  <2>1. PICK op \in {"extra", "split"} :
          /\ At(op)
          /\ \/ table' = Add(table, ToTun(dst)) \/ UNCHANGED table
             \/ table' = (table \ Matching(table, dst)) \cup {ToTun(dst)}
        BY <1>8 DEF AddExtraRoute, AddSplitDefault
  <2>2. Head(todo) \in Planned /\ Head(todo).op = op
        BY <2>1, Running DEF At, SetUpOp, Named
  <2>3. Plain(ToTun(dst))
        BY <2>1, <2>2, Routes DEF Planned, dst
  <2>4. table \ Matching(table, dst) \subseteq table
        OBVIOUS
  <2>5. QED
        BY <1>2, <1>3, <2>1, <2>3, <2>4
<1>9. CASE AddRecorded
  <2>1. \/ UNCHANGED table \/ At("dnsTun")
        \/ KnownGateway(gw) /\ table' = Add(table, ViaGateway(dst))
        BY <1>9 DEF AddRecorded
  <2>2. ~At("dnsTun")
    <3>1. SUFFICES ASSUME At("dnsTun") PROVE FALSE
          OBVIOUS
    <3>2. Head(todo) \in Planned /\ Head(todo).op = "dnsTun"
          BY <3>1, Running DEF At, SetUpOp, Named
    <3>3. QED
          BY <1>4, <3>2 DEF Planned
  <2>3. QED
        BY <1>1, <1>2, <1>3, <2>1, <2>2
<1>10. CASE AddExclude
  <2>1. \/ UNCHANGED table \/ table' = Add(table, Reject(dst))
        \/ KnownGateway(gw) /\ table' = Add(table, ViaGateway(dst))
        BY <1>10 DEF AddExclude
  <2>2. QED
        BY <1>1, <1>2, <1>3, <2>1
<1>11. CASE CleanupDefault
  <2>1. UNCHANGED table
        BY <1>0, <1>11 DEF CleanupDefault, Recorded
  <2>2. QED
        BY <1>2, <2>1
<1>12. CASE RenewDefault \/ LiftKillSwitch
  <2>1. PICK r \in Defaults(host, Device) :
          table' = Add(table, r) \/ table' = Add(table \ {BlackholeDefault}, r)
        BY <1>12 DEF RenewDefault, LiftKillSwitch
  <2>2. Plain(r)
        BY Routes DEF Defaults
  <2>3. QED
        BY <1>3, <2>1, <2>2
<1>13. QED
       BY <1>5, <1>6, <1>7, <1>8, <1>9, <1>10, <1>11, <1>12
       DEF Next, Process, CacheJob, Environment

LEMMA ServersKnown ==
  ASSUME ServersApart, cfg \in Configs, KeepsDns, NEW a \in DnsServers
  PROVE  /\ a \in Addr /\ a \notin Addresses(cfg.excludes) /\ ~Has(cfg.extras, Host(a))
         /\ Host(a) \notin General
         /\ \A t \in HostTables : \A r \in t : a \in r.dst => r.dev \in Device
<1>1. a \in Addresses(Servers(cfg)) /\ cfg.defaultRoute /\ cfg.bootstrap # "none"
      BY DEF DnsServers, Servers, KeepsDns
<1>2. cfg.dns \in Seq(HostPrefix) /\ Resolvers \in Seq(HostPrefix)
      BY Inputs
<1>3. a \in Addr
      BY <1>2 DEF DnsServers, Addresses, HostPrefix, Host
<1>4. Host(a) \notin General
      BY <1>3, AddrAssumption DEF AddrAssumption, General, Default, HighHalf, Host
<1>5. QED
      BY <1>1, <1>3, <1>4 DEF ServersApart

LEMMA ServerWaysStep ==
  ASSUME ServersApart, Inv, Course, Gateways, ServerWays, [Next]_vars PROVE ServerWays'
<1>1. KeepsDns' = KeepsDns /\ DnsServers' = DnsServers /\ cfg \in Configs
      BY Fixed DEF KeepsDns, DnsServers, Inv, Control
<1>2. SUFFICES ASSUME KeepsDns PROVE Ways(DnsServers)'
      BY <1>1 DEF ServerWays
<1>3. PICK known : known = DnsServers
      OBVIOUS
<1>4. Addresses(cfg.excludes) \cap known = {}
      BY <1>1, <1>2, <1>3, ServersKnown
<1>5. Ways(known)'
      BY <1>2, <1>3, <1>4, WaysStep DEF ServerWays
<1>6. QED
      BY <1>1, <1>3, <1>5

\* The goroutine, once begun, does not wait again.
LEMMA JobWaits ==
  ASSUME Inv, Course, [Next]_vars, pc' \in {"setup", "running"}, ~DetectGateway,
         job'.at \in {"off", "wait"}
  PROVE  job.at \in {"off", "wait"}
<1>0. Recorded
      BY DEF Inv
<1>1. CASE StartCache
  <2>1. At("startCache")
        BY <1>1 DEF StartCache
  <2>2. QED
        BY <2>1, Running DEF SetUpOp
<1>2. CASE CacheOver
      BY <1>2 DEF CacheOver
<1>3. CASE RemoveDNSBypass
  <2>1. job'.at \in {"remove", "done"}
        BY <1>0, <1>3 DEF RemoveDNSBypass, Recorded
  <2>2. QED
        BY <2>1
<1>4. CASE CloseTun \/ Crash
      BY <1>4 DEF CloseTun, Crash
<1>5. CASE StartWithoutTun \/ CreateTun \/ LookupEndpoint \/ SystemResolvers \/ CoreStarts \/ CtxDone
           \/ DeleteDNSBypass \/ DeleteRecorded \/ ClearDNS \/ TunDown \/ CleanupDefault \/ Signal
           \/ RenewDefault \/ LiftKillSwitch \/ Restart \/ Finished \/ UNCHANGED vars \/ KsDelete
           \/ KsAdd \/ AddRecorded \/ AddExclude \/ AddExtraRoute \/ AddSplitDefault \/ AddScoped
           \/ SetDNS
  <2>1. UNCHANGED job
        BY <1>5 DEF StartWithoutTun, CreateTun, LookupEndpoint, SystemResolvers, CoreStarts, CtxDone,
           DeleteDNSBypass, DeleteRecorded, ClearDNS, TunDown, CleanupDefault, Signal,
           RenewDefault, LiftKillSwitch, Restart, Finished, vars, KsDelete,
           KsAdd, AddRecorded, AddExclude, AddExtraRoute, AddSplitDefault, AddScoped, SetDNS
  <2>2. QED
        BY <2>1
<1>6. QED
      BY <1>1, <1>2, <1>3, <1>4, <1>5 DEF Next, Process, CacheJob, Environment

\* No tunnel stands in the place of a bypass, for want of a route that the session itself
\* would have put there.
LEMMA ServerPlace ==
  ASSUME ServersApart, Inv, Straight, ServerWays, KeepsDns, NEW a \in DnsServers,
         NEW r \in table, r.dst = Host(a)
  PROVE  r.dev \in Device
<1>1. Host(a) \notin General /\ ~Has(cfg.extras, Host(a))
      BY ServersKnown DEF Inv, Control
<1>2. r.dst \cap DnsServers # {}
      BY DEF Host
<1>3. r # BlackholeDefault
      BY <1>1, Routes DEF General
<1>4. r.dev # "tun"
      BY <1>1 DEF Straight, General
<1>5. QED
      BY <1>2, <1>3, <1>4 DEF ServerWays, Ways, Way

LEMMA BypassStays ==
  ASSUME ServersApart, Inv, Course, KeepsDns, [Next]_vars, ~DetectGateway,
         pc' \in {"setup", "running"}, job.at # "remove", NEW a \in DnsServers, Out(Host(a))
  PROVE  Out(Host(a))'
<1>1. Host(a) \notin General
      BY ServersKnown DEF Inv, Control
<1>2. PICK p : p = Host(a)
      OBVIOUS
<1>3. PICK r \in table : r.dst = p /\ r.dev \in Device
      BY <1>2 DEF Out
<1>4. r \in table'
      BY <1>1, <1>2, <1>3, Removals DEF General
<1>5. QED
      BY <1>2, <1>3, <1>4 DEF Out

LEMMA ServedStep ==
  ASSUME ServersApart, Inv, Course, Gateways, Straight, ServerWays, Served, [Next]_vars
  PROVE  Served'
<1>0. /\ cfg' = cfg /\ faults' = faults /\ KeepsDns' = KeepsDns /\ DnsServers' = DnsServers
      /\ Recorded /\ cfg \in Configs
      BY Fixed DEF KeepsDns, DnsServers, Inv, Control
<1>1. SUFFICES ASSUME KeepsDns, KnownGateway(gw'), faults \cap {"add", "dns"} = {},
                      pc' \in {"setup", "running"}, job'.at \in {"off", "wait"},
                      NEW a \in DnsServers
               PROVE  \/ Out(Host(a))' \/ Has(todo', BypassCommand(Host(a)))
                      \/ cfg.dns = <<>> /\ Has(todo', ResolversCommand)
      BY <1>0 DEF Served, Serving, KnownGateway, BypassCommand, ResolversCommand, Out, Host
<1> DEFINE Goal == \/ Out(Host(a))' \/ Has(todo', BypassCommand(Host(a)))
                   \/ cfg.dns = <<>> /\ Has(todo', ResolversCommand)
<1> SUFFICES Goal
    OBVIOUS
<1> HIDE DEF Goal
<1>2. cfg.dns \in Seq(HostPrefix) /\ Resolvers \in Seq(HostPrefix)
      BY <1>0, Inputs
<1>3. Has(IF cfg.dns # <<>> THEN cfg.dns ELSE Resolvers, Host(a))
  <2>1. PICK list : list = IF cfg.dns # <<>> THEN cfg.dns ELSE Resolvers
        OBVIOUS
  <2>2. list \in Seq(HostPrefix) /\ a \in Addresses(list)
        BY <1>2, <2>1 DEF DnsServers
  <2>3. PICK i \in DOMAIN list : a \in list[i]
        BY <2>2 DEF Addresses
  <2>4. list[i] = Host(a)
        BY <2>2, <2>3 DEF HostPrefix, Host
  <2>5. QED
        BY <2>1, <2>4 DEF Has
<1>4. CASE DetectGateway
  <2>1. PICK g : g = gw' /\ todo' = SetUp(g)
        BY <1>4 DEF DetectGateway
  <2>2. KnownGateway(g)
        BY <1>1, <2>1 DEF KnownGateway
  <2>3. CASE cfg.dns # <<>>
    <3>1. PICK i \in DOMAIN cfg.dns : cfg.dns[i] = Host(a)
          BY <1>3, <2>3 DEF Has
    <3>2. Has(SetUp(g), BypassCommand(cfg.dns[i]))
          BY <1>0, <1>1, <2>2, <2>3, SetUpServes
    <3>3. QED
          BY <2>1, <3>1, <3>2 DEF Goal
  <2>4. CASE cfg.dns = <<>>
    <3>1. Has(SetUp(g), ResolversCommand)
          BY <1>0, <1>1, <2>2, <2>4, SetUpServes
    <3>2. QED
          BY <2>1, <2>4, <3>1 DEF Goal
  <2>5. QED
        BY <2>3, <2>4
<1>5. ASSUME ~DetectGateway PROVE Goal
  <2>1. /\ pc \in {"setup", "running"} /\ gw' = gw /\ job.at \in {"off", "wait"}
        /\ KnownGateway(gw)
        BY <1>1, <1>5, Settled, JobWaits DEF KnownGateway
  <2>2. \/ Out(Host(a)) \/ Has(todo, BypassCommand(Host(a)))
        \/ cfg.dns = <<>> /\ Has(todo, ResolversCommand)
        BY <1>1, <2>1 DEF Served, Serving
  <2>3. Out(Host(a)) => Goal
        BY <1>1, <1>5, <2>1, BypassStays DEF Goal
  <2>4. CASE UNCHANGED todo
        BY <2>2, <2>3, <2>4 DEF Goal
  <2>5. ASSUME ~Out(Host(a)), ~UNCHANGED todo PROVE Goal
    <3>1. pc = "setup" /\ pc' = "setup"
          BY <1>1, <1>5, <2>5, StillSetUp
    <3>2. /\ todo # <<>> /\ todo \in Seq(SetUpCommand)
          /\ \/ Done(<<>>)
             \/ Head(todo).op \in {"api", "connect"} /\ Done(Each("ctrl", Answer[Head(todo).op]))
             \/ Head(todo).op = "resolvers" /\ Done(Each("dnsBypass", Resolvers))
          BY <1>5, <2>5, <3>1, Progress
    <3>3. Resolvers \in Seq(Prefix) /\ Each("dnsBypass", Resolvers) \in Seq(SetUpCommand)
      <4>1. Resolvers \in Seq(Prefix)
            BY <1>0, Inputs, ListedPrefixes, SeqMonotonic
      <4>2. QED
            BY <4>1, EachSetUp DEF Routing
    <3>4. PICK then \in Seq(SetUpCommand) : Done(then)
      <4>1. \A l \in {"api", "connect"} : Answer[l] \in Seq(Prefix)
            BY <1>0, Inputs, ListedPrefixes, SeqMonotonic
      <4>2. \A l \in {"api", "connect"} : Each("ctrl", Answer[l]) \in Seq(SetUpCommand)
            BY <4>1, EachSetUp DEF Routing
      <4>3. <<>> \in Seq(SetUpCommand)
            BY EmptySeq
      <4>4. QED
            BY <3>2, <3>3, <4>2, <4>3
    <3>5. \A x : Has(todo, x) /\ x # Head(todo) => Has(todo', x)
          BY <3>2, <3>4, HasLater
    <3>6. CASE Head(todo) = BypassCommand(Host(a))
      <4>1. At("dnsBypass") /\ dst = Host(a) /\ \A op : op # "dnsBypass" => ~At(op)
            BY <3>2, <3>6 DEF At, BypassCommand, dst
      <4>2. AddRecorded
            BY <1>5, <2>5, <3>1, <4>1, OtherActions
      <4>3. table' = Add(table, ViaGateway(dst)) \/ Exists(dst)
        <5>1. "add" \notin faults
              BY <1>1
        <5>2. QED
              BY <2>1, <4>1, <4>2, <5>1 DEF AddRecorded, MayFail
      <4>4. \A r \in table : r.dst # Host(a)
            BY <1>1, <2>5, ServerPlace DEF Out
      <4>5. table' = Add(table, ViaGateway(dst))
            BY <4>1, <4>3, <4>4 DEF Exists, Matching
      <4>6. ViaGateway(dst) \in table'
            BY <4>1, <4>4, <4>5, Routes DEF Add
      <4>7. ViaGateway(dst).dst = Host(a) /\ ViaGateway(dst).dev \in Device
            BY <2>1, <4>1, Routes DEF Gateways, ViaGateway
      <4>8. PICK r \in table' : r.dst = Host(a) /\ r.dev \in Device
            BY <4>6, <4>7
      <4>9. Out(Host(a))'
            BY <4>8 DEF Out, Host
      <4>10. QED
             BY <4>9 DEF Goal
    <3>7. CASE cfg.dns = <<>> /\ Head(todo) = ResolversCommand
      <4>1. \A op : op # "resolvers" => ~At(op)
            BY <3>2, <3>7 DEF At, ResolversCommand
      <4>2. SystemResolvers
            BY <1>5, <2>5, <3>1, <4>1, OtherActions
      <4>3. Done(Each("dnsBypass", Resolvers))
        <5>1. "dns" \notin faults
              BY <1>1
        <5>2. QED
              BY <4>2, <5>1 DEF SystemResolvers
      <4>4. Has(Each("dnsBypass", Resolvers), BypassCommand(Host(a)))
            BY <1>3, <3>7, HasEach DEF BypassCommand
      <4>5. Tail(todo) \in Seq(SetUpCommand)
            BY <3>2, HeadTailProperties
      <4>6. QED
            BY <3>3, <4>3, <4>4, <4>5, HasConcat DEF Done, Goal
    <3>8. QED
          BY <2>2, <2>5, <3>5, <3>6, <3>7 DEF Goal
  <2>6. QED
        BY <2>3, <2>4, <2>5
<1>6. QED
      BY <1>4, <1>5

LEMMA PlacedStep == ASSUME Inv, NoTun, Course, AllPlaced, [Next]_vars PROVE AllPlaced'
<1>0. /\ Recorded /\ rm \in RouteManager /\ cfg' = cfg /\ faults' = faults
      /\ \A list \in Lists : rm[list] \in Seq(Prefix)
      BY Fixed, RecordedPrefixes DEF Inv, Recorded
<1>1. SUFFICES ASSUME "del" \notin faults, pc' \in {"start", "detect", "setup", "running"},
                      NEW r \in table'
               PROVE  Placed(r)'
      BY <1>0 DEF AllPlaced
<1>2. CASE Restart
      BY <1>2 DEF Restart, Placed
<1>3. ASSUME ~Restart
      PROVE  /\ before' = before /\ (r \in table => Placed(r))
             /\ pc \in {"setup", "running"} => pc' \in {"setup", "running"}
  <2>1. before' = before
        BY <1>3, SameBefore
  <2>2. /\ pc \in {"start", "detect", "setup", "running"}
        /\ pc \in {"setup", "running"} => pc' \in {"setup", "running"}
        BY <1>1, <1>3 DEF Next, Process, CacheJob, Environment, vars, StartWithoutTun, CreateTun,
           DetectGateway, KsDelete, KsAdd, LookupEndpoint, AddRecorded, AddExclude, AddExtraRoute,
           AddSplitDefault, AddScoped, SetDNS, SystemResolvers, StartCache, CoreStarts, CtxDone,
           DeleteDNSBypass, DeleteRecorded, ClearDNS, TunDown, CleanupDefault, CloseTun, CacheOver,
           RemoveDNSBypass, Signal, Crash, RenewDefault, LiftKillSwitch, Finished, Terminal
  <2>3. QED
        BY <1>1, <2>1, <2>2 DEF AllPlaced
<1> DEFINE Explained == \/ r.dst \in General \/ r.dev = "tun"
                        \/ r.dst \subseteq Endpoints \cup Addresses(cfg.excludes)
                        \/ \E s \in before : s.dst = r.dst
                        \/ pc' \in {"setup", "running"} /\ Dns(r.dst)'
<1>4. ASSUME ~Restart, Explained PROVE Placed(r)'
      BY <1>0, <1>3, <1>4 DEF Placed, Endpoints
<1>5. ASSUME ~Restart, r \in table, pc \in {"setup", "running"} /\ Dns(r.dst) => Dns(r.dst)'
      PROVE  Explained
      BY <1>3, <1>5 DEF Placed
<1> SUFFICES ASSUME ~Restart PROVE Explained
    BY <1>2, <1>4
<1> HIDE DEF Explained
<1>6. CASE StartWithoutTun \/ CreateTun \/ LookupEndpoint \/ SystemResolvers \/ CoreStarts \/ CtxDone
           \/ DeleteDNSBypass \/ DeleteRecorded \/ ClearDNS \/ TunDown \/ CleanupDefault \/ Signal
           \/ RenewDefault \/ LiftKillSwitch \/ Finished \/ UNCHANGED vars
  <2>1. UNCHANGED <<rm, job>>
        BY <1>6 DEF StartWithoutTun, CreateTun, LookupEndpoint, SystemResolvers, CoreStarts, CtxDone,
           DeleteDNSBypass, DeleteRecorded, ClearDNS, TunDown, CleanupDefault, Signal,
           RenewDefault, LiftKillSwitch, Finished, vars
  <2>2. Dns(r.dst)' = Dns(r.dst)
        BY <2>1 DEF Dns
  <2>3. r \in table \/ r \in Defaults(host, Device)
        BY <1>0, <1>6, AddSubset DEF StartWithoutTun, CreateTun, LookupEndpoint, SystemResolvers,
           CoreStarts, CtxDone, DeleteDNSBypass, DeleteRecorded, DeleteRoute, ClearDNS, TunDown,
           CleanupDefault, Signal, RenewDefault, LiftKillSwitch, Finished, vars, Recorded, Flush
  <2>4. r \in Defaults(host, Device) => r.dst \in General
        BY DEF Defaults, General
  <2>5. QED
        BY <1>5, <2>2, <2>3, <2>4 DEF Explained
<1>7. CASE DetectGateway
  <2>1. pc = "detect" /\ UNCHANGED table
        BY <1>7 DEF DetectGateway
  <2>2. QED
        BY <1>5, <2>1
<1>8. CASE KsDelete \/ KsAdd \/ SetDNS
  <2>1. /\ UNCHANGED job
        /\ \/ rm' = rm \/ rm' = [rm EXCEPT !.ks = TRUE] \/ rm' = [rm EXCEPT !.dnsSet = TRUE]
           \/ rm' = [rm EXCEPT !.ks = TRUE, !.ksAdded = TRUE]
        /\ r \in table \/ r = BlackholeDefault
        BY <1>8 DEF KsDelete, DeleteRoute, KsAdd, SetDNS
  <2>2. rm'.dnsBypass = rm.dnsBypass
        BY <1>0, <2>1 DEF RouteManager
  <2>3. Dns(r.dst)' = Dns(r.dst)
        BY <2>1, <2>2 DEF Dns
  <2>4. r = BlackholeDefault => r.dst \in General
        BY Routes DEF General
  <2>5. QED
        BY <1>5, <2>1, <2>3, <2>4 DEF Explained
<1>9. CASE AddExtraRoute \/ AddSplitDefault \/ AddScoped
  <2>1. UNCHANGED job /\ (UNCHANGED rm \/ \E list \in Lists \ {"dnsBypass"} : Record(list))
        BY <1>9 DEF AddExtraRoute, AddSplitDefault, AddScoped, Lists
  <2>2. rm'.dnsBypass = rm.dnsBypass
        BY <1>0, <2>1 DEF RouteManager, Lists, Record
  <2>3. Dns(r.dst)' = Dns(r.dst)
        BY <2>1, <2>2 DEF Dns
  <2>4. r \in table \/ r.dev = "tun"
        BY <1>9, AddSubset, Routes DEF AddExtraRoute, AddSplitDefault, AddScoped
  <2>5. QED
        BY <1>5, <2>3, <2>4 DEF Explained
<1>10. CASE AddRecorded \/ AddExclude
  <2>1. PICK list \in {"ctrl", "dnsBypass", "dnsTun", "exclude"} :
          /\ At(list) /\ UNCHANGED <<pc, job>>
          /\ \/ UNCHANGED <<table, rm>>
             \/ Record(list) /\ \E s : /\ s.dst = dst /\ table' = Add(table, s)
                                       /\ list = "dnsTun" => s.dev = "tun"
        BY <1>10, Routes DEF AddRecorded, AddExclude
  <2>2. list \in SetUpOp /\ list \in Lists /\ "dnsBypass" \in Lists
        BY DEF SetUpOp, Lists, Routing, Named
  <2>3. /\ pc = "setup" /\ job.at = "off" /\ Head(todo) \in Planned /\ Head(todo).op = list
        BY <2>1, <2>2, Running DEF At
  <2>4. dst \in Prefix
        BY <2>3 DEF Planned, SetUpCommand, dst
  <2>5. rm' = rm \/ \A p : Has(rm["dnsBypass"], p) => Has(rm'["dnsBypass"], p)
        BY <1>0, <2>1, <2>2, <2>4, RecordHas
  <2>6. Dns(r.dst) => Dns(r.dst)'
        BY <2>1, <2>3, <2>5 DEF Dns
  <2>7. CASE r \in table
        BY <1>5, <2>6, <2>7
  <2>8. CASE r \notin table
    <3>1. Record(list) /\ r.dst = dst /\ (list = "dnsTun" => r.dev = "tun")
          BY <2>1, <2>8, AddSubset
    <3>2. CASE list = "dnsTun"
          BY <3>1, <3>2 DEF Explained
    <3>3. CASE list = "ctrl"
      <4>1. dst \subseteq Endpoints
            BY <2>3, <3>3 DEF Planned, dst
      <4>2. QED
            BY <3>1, <4>1 DEF Explained
    <3>4. CASE list = "exclude"
      <4>1. Has(cfg.excludes, dst)
            BY <2>3, <3>4 DEF Planned, dst
      <4>2. dst \subseteq Addresses(cfg.excludes)
            BY <4>1 DEF Has, Addresses
      <4>3. QED
            BY <3>1, <4>2 DEF Explained
    <3>5. CASE list = "dnsBypass"
      <4>1. Has(rm'[list], r.dst)
            BY <1>0, <2>2, <2>4, <3>1, RecordHas
      <4>2. pc' = "setup" /\ Dns(r.dst)'
            BY <2>1, <2>3, <3>5, <4>1 DEF Dns
      <4>3. QED
            BY <4>2 DEF Explained
    <3>6. QED
          BY <3>2, <3>3, <3>4, <3>5
  <2>9. QED
        BY <2>7, <2>8
<1>11. CASE StartCache \/ CacheOver
  <2>1. /\ UNCHANGED <<rm, table>>
        /\ job'.at = "wait" \/ job' = [at |-> "remove", todo |-> rm.dnsBypass]
        BY <1>11 DEF StartCache, CacheOver
  <2>2. Dns(r.dst) => Dns(r.dst)'
        BY <2>1 DEF Dns
  <2>3. QED
        BY <1>5, <2>1, <2>2
<1>12. CASE RemoveDNSBypass
  <2>1. job.at = "remove"
        BY <1>12 DEF RemoveDNSBypass
  <2>2. CASE job.todo # <<>>
    <3>1. /\ table' = table \ Matching(table, Head(job.todo)) /\ UNCHANGED rm
          /\ job' = [job EXCEPT !.todo = Tail(job.todo)]
          BY <1>1, <1>12, <2>2 DEF RemoveDNSBypass, DeleteRoute
    <3>2. r \in table /\ r.dst # Head(job.todo)
          BY <3>1 DEF Matching
    <3>3. job'.todo = Tail(job.todo) /\ job'.at = "remove" /\ job.todo \in Seq(HostPrefix)
          BY <1>0, <2>1, <3>1 DEF Recorded
    <3>4. Has(job.todo, r.dst) => Has(Tail(job.todo), r.dst)
          BY <3>2, <3>3, HasTail
    <3>5. Dns(r.dst) => Dns(r.dst)'
          BY <2>1, <3>1, <3>3, <3>4 DEF Dns
    <3>6. QED
          BY <1>5, <3>2, <3>5
  <2>3. CASE job.todo = <<>>
    <3>1. UNCHANGED table
          BY <1>12, <2>3 DEF RemoveDNSBypass
    <3>2. ~Dns(r.dst)
          BY <2>1, <2>3, EmptyCourse DEF Dns, Has
    <3>3. QED
          BY <1>5, <3>1, <3>2
  <2>4. QED
        BY <2>2, <2>3
<1>13. CASE CloseTun \/ Crash
       BY <1>1, <1>13 DEF CloseTun, Crash
<1>14. QED
       BY <1>6, <1>7, <1>8, <1>9, <1>10, <1>11, <1>12, <1>13
       DEF Next, Process, CacheJob, Environment

LEMMA FollowingInit == ServersApart /\ Init => Following
<1> SUFFICES ASSUME ServersApart, Init PROVE Following
    OBVIOUS
<1>1. /\ pc = "start" /\ host \in HostTables /\ table = host /\ before = host /\ job = NoJob
      /\ cfg \in Configs
      BY DEF Init
<1>2. CacheOnly /\ Served /\ AllPlaced
      BY <1>1 DEF CacheOnly, NoJob, Served, AllPlaced, Placed
<1>3. Straight
      BY <1>1, DarwinAssumption DEF Straight, DarwinAssumption
<1>4. ServerWays
  <2>1. SUFFICES ASSUME KeepsDns, NEW r \in table, NEW a \in DnsServers, a \in r.dst
                 PROVE  r.dev \in Device
        BY DEF ServerWays, Ways, Way
  <2>2. QED
        BY <1>1, <2>1, ServersKnown
<1>5. QED
      BY <1>2, <1>3, <1>4 DEF Following

LEMMA ServersFollow ==
  ASSUME ServersApart, Inv, Tunnel, Following PROVE DnsFollowsBootstrap
<1>1. SUFFICES ASSUME pc = "running", cfg.defaultRoute, KnownGateway(gw),
                      faults \cap {"add", "del", "dns"} = {}, NEW a \in DnsServers
               PROVE  CASE cfg.bootstrap = "bypass" \/ job.at = "wait" -> GoesTo(table, a, Device)
                        [] cfg.bootstrap = "none" \/ job.at = "done" ->
                             \/ a \in Endpoints \cup Addresses(cfg.excludes) \cup Specifics(before, General)
                             \/ GoesTo(table, a, {"tun"})
                        [] OTHER -> TRUE
      BY DEF DnsFollowsBootstrap
<1>2. todo = <<>> /\ cfg \in Configs /\ OnePerPrefix(table)
      /\ "add" \notin faults /\ "del" \notin faults /\ faults \cap {"add", "dns"} = {}
      BY <1>1 DEF Inv, Control, Seal
<1>3. a \in Addr
  <2>1. cfg.dns \in Seq(HostPrefix) /\ Resolvers \in Seq(HostPrefix)
        BY <1>2, Inputs
  <2>2. QED
        BY <2>1 DEF DnsServers, Addresses, HostPrefix, Host
<1>4. job.at # "off" => cfg.bootstrap = "cache"
      BY DEF Following, CacheOnly
<1>5. ASSUME cfg.bootstrap = "bypass" \/ job.at = "wait" PROVE GoesTo(table, a, Device)
  <2>1. job.at \in {"off", "wait"} /\ Serving
        BY <1>1, <1>2, <1>4, <1>5 DEF Serving, KeepsDns
  <2>2. \A x : ~Has(todo, x)
        BY <1>2 DEF Has
  <2>3. Out(Host(a))
        BY <1>1, <2>1, <2>2 DEF Following, Served
  <2>4. PICK r \in table : r.dst = {a} /\ r.dev \in Device
        BY <2>3 DEF Out, Host
  <2>5. \A s \in table : a \in s.dst => ~Beats(s, r)
        BY <1>2, <2>4 DEF Beats, OnePerPrefix
  <2>6. QED
        BY <2>4, <2>5 DEF GoesTo
<1>6. ASSUME cfg.bootstrap = "none" \/ job.at = "done",
             a \notin Endpoints \cup Addresses(cfg.excludes) \cup Specifics(before, General)
      PROVE  GoesTo(table, a, {"tun"})
  <2>1. SUFFICES ASSUME NEW r \in table, a \in r.dst PROVE r.dst \in General \/ r.dev = "tun"
        BY <1>1, <1>2, <1>3, HalvesTake
  <2>2. r.dst \notin General => ~\E s \in before : s.dst = r.dst
        BY <1>6, <2>1 DEF Specifics
  <2>3. ~(r.dst \subseteq Endpoints \cup Addresses(cfg.excludes))
        BY <1>6, <2>1
  <2>4. CASE cfg.bootstrap = "none"
    <3>1. Around = Endpoints \cup Addresses(cfg.excludes)
          BY <2>4 DEF Around, KeepsDns
    <3>2. QED
          BY <2>2, <2>3, <3>1 DEF Tunnel, Tame
  <2>5. CASE job.at = "done"
    <3>1. rm.dnsBypass = <<>>
          BY <2>5 DEF Following, CacheOnly
    <3>2. ~Dns(r.dst)
          BY <3>1 DEF Dns, Has
    <3>3. QED
          BY <1>1, <1>2, <2>1, <2>2, <2>3, <3>2 DEF Following, AllPlaced, Placed
  <2>6. QED
        BY <1>6, <2>4, <2>5
<1>7. ~(cfg.bootstrap = "bypass" /\ cfg.bootstrap = "none") /\ ~(job.at = "wait" /\ job.at = "done")
      BY <1>4
<1>8. QED
      BY <1>4, <1>5, <1>6, <1>7

\* While a default-route session runs that found a gateway and whose route commands, deletes
\* and lookups worked, the DNS servers are reached around the tunnel for as long as
\* --dns_bootstrap says, and through it from then on, unless somebody else routes them by
\* name; whatever other sessions did, and whenever the goroutine runs (vpn_darwin.go:125-160).
THEOREM BootstrapFollowed ==
  ASSUME ServersApart PROVE Spec => []DnsFollowsBootstrap
<1> DEFINE All == Inv /\ Tunnel /\ NoTun /\ Course /\ Gateways /\ Following
<1>1. Init => All
  <2>1. Init => Tunnel
        BY TunnelInit
  <2>2. Init => NoTun /\ Course
        BY CourseInit
  <2>3. Init => Gateways
        BY DEF Init, Gateways, KnownGateway, NoGateway
  <2>4. QED
        BY <2>1, <2>2, <2>3, InvInit, FollowingInit
<1>2. All /\ [Next]_vars => All'
  <2> SUFFICES ASSUME Inv, Tunnel, NoTun, Course, Gateways, Following, [Next]_vars PROVE All'
      OBVIOUS
  <2>1. CacheOnly' /\ Straight' /\ ServerWays'
        BY CacheOnlyStep, StraightStep, ServerWaysStep DEF Following
  <2>2. Served' /\ AllPlaced'
        BY ServedStep, PlacedStep DEF Following
  <2>3. QED
        BY <2>1, <2>2, InvStep, TunnelStep, NoTunStep, CourseStep, GatewaysStep DEF Following
<1>3. All => DnsFollowsBootstrap
      BY ServersFollow
<1>4. QED
      BY <1>1, <1>2, <1>3, PTL DEF Spec

=============================================================================
