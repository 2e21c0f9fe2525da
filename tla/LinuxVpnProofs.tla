--------------------------- MODULE LinuxVpnProofs ---------------------------
(***************************************************************************)
(* Theorems about LinuxVpn, for every set of command lines, host tables,   *)
(* faults and number of sessions.                                          *)
(***************************************************************************)
EXTENDS LinuxVpn, IpRoutesProofs

(***************************************************************************)
(* What the commands do to the routing table.                              *)
(***************************************************************************)
TunRoute(dst) == [dst |-> dst, gw |-> "none", dev |-> "tun", metric |-> 0]
Unreachable(dst) == [dst |-> dst, gw |-> "none", dev |-> "unreachable", metric |-> 0]

Removing == KsDelete \/ DelSplitLow \/ DelSplitHigh \/ DelRecorded \/ TunDown \/ CloseTun
              \/ Crash \/ TunLost
ThroughTun == AddSplitLow \/ AddSplitHigh \/ AddExtraRoute \/ AddDNSServerRoute
Idle == \/ StartWithoutTun \/ CreateTun \/ ConfigureTun \/ DetectGateway \/ KsAddFails
        \/ LookupEndpoint \/ LoopEnds \/ CtxDone \/ CleanupStarts \/ Signal \/ Restart
        \/ Finished \/ UNCHANGED vars

\* The steps that only take routes away.
LEMMA Removals == Removing => table' \subseteq table
<1>1. DelSplitLow \/ DelSplitHigh \/ DelRecorded => table' \subseteq table
      BY RemovalSubset DEF DelSplitLow, DelSplitHigh, DelRecorded, DelPrefix, Outcomes
<1>2. KsDelete => table' \subseteq table
  <2>1. KsDelete => \E match : table' \in {Delete(table, match), table}
        BY Zenon DEF KsDelete, Outcomes
  <2>2. QED
        BY <2>1, RemovalSubset
<1>3. TunDown \/ CloseTun \/ Crash \/ TunLost => table' \subseteq table
      BY RemovalSubset DEF TunDown, CloseTun, Crash, TunLost
<1>4. QED
      BY <1>1, <1>2, <1>3 DEF Removing

\* The steps that add a route, and the route.
LEMMA Additions ==
  /\ ThroughTun => \E dst \in {LowHalf, HighHalf, Head(todo)} :
                     table' \in {table, Add(table, TunRoute(dst))}
  /\ KsAdd => table' = Add(table, BlackholeDefault)
  /\ KsRestore => \/ table' = table
                  \/ orig.dev # "none" /\ table' = Add(table, ViaOriginal(Default))
  /\ AddBypass => table' \in {table, Add(table, ViaOriginal(Head(todo)))}
  /\ AddExclude => \/ table' \in {table, Add(table, Unreachable(Head(todo)))}
                   \/ orig.dev # "none" /\ table' = Add(table, ViaOriginal(Head(todo)))
<1>1. ThroughTun => \E dst \in {LowHalf, HighHalf, Head(todo)} :
                      table' \in {table, Add(table, TunRoute(dst))}
  BY DEF ThroughTun, AddSplitLow, AddSplitHigh, AddExtraRoute, AddDNSServerRoute, AddDevTun,
         Outcomes, TunRoute
<1>2. KsAdd => table' = Add(table, BlackholeDefault)
  BY DEF KsAdd
<1>3. KsRestore => \/ table' = table
                   \/ orig.dev # "none" /\ table' = Add(table, ViaOriginal(Default))
  BY DEF KsRestore, Outcomes
<1>4. AddBypass => table' \in {table, Add(table, ViaOriginal(Head(todo)))}
  BY DEF AddBypass, Outcomes
<1>5. AddExclude => \/ table' \in {table, Add(table, Unreachable(Head(todo)))}
                    \/ orig.dev # "none" /\ table' = Add(table, ViaOriginal(Head(todo)))
  BY DEF AddExclude, Outcomes, Unreachable
<1>6. QED
  BY <1>1, <1>2, <1>3, <1>4, <1>5

\* Every step is of one of these kinds.
LEMMA StepKinds ==
  [Next]_vars => \/ Removing \/ ThroughTun \/ KsAdd \/ KsRestore \/ AddBypass \/ AddExclude
                 \/ CleanupDefault \/ RenewDefault \/ LiftKillSwitch \/ Idle
BY DEF Next, Process, Environment, Removing, ThroughTun, Idle

\* The steps that leave the table alone.
LEMMA Unchanging == Idle => table' = table
BY DEF Idle, StartWithoutTun, CreateTun, ConfigureTun, DetectGateway, KsAddFails, LookupEndpoint,
       LoopEnds, CtxDone, CleanupStarts, Signal, Restart, Finished, vars

(***************************************************************************)
(* Type correctness.                                                       *)
(***************************************************************************)
\* A sequence over a set is one over any larger set.
LEMMA SeqMonotone == ASSUME NEW S, NEW T, S \subseteq T PROVE Seq(S) \subseteq Seq(T)
OBVIOUS

\* The lists of a command line and the answers of the resolver are lists of prefixes.
LEMMA InputTypes ==
  /\ \A c \in Configs : /\ c.excludes \in Seq(Prefix)
                        /\ c.extras \in Seq(Prefix)
                        /\ c.dns \in Seq(Prefix)
  /\ \A h \in {"api", "connect"} : Answer[h] \in Seq(Prefix)
<1>1. {Host(a) : a \in Addr} \subseteq Prefix
  BY DEF Host, Prefix
<1>2. Seq({Host(a) : a \in Addr}) \subseteq Seq(Prefix)
  BY <1>1, SeqMonotone
<1>3. \A h \in {"api", "connect"} : Answer[h] \in Seq({Host(a) : a \in Addr})
  BY ConfigAssumption DEF ConfigAssumption
<1>4. QED
  BY <1>2, <1>3, ConfigAssumption DEF ConfigAssumption, Config

\* The routes the client adds are routes.
LEMMA AddedRoutes ==
  /\ \A dst \in Prefix : /\ TunRoute(dst) \in Route
                         /\ Unreachable(dst) \in Route
                         /\ TypeOK /\ orig.dev # "none" => ViaOriginal(dst) \in Route
  /\ BlackholeDefault \in Route
  /\ {Default, LowHalf, HighHalf} \subseteq Prefix
BY AddrAssumption
DEF AddrAssumption, Route, Target, TypeOK, ViaOriginal, BlackholeDefault, Prefix, Default,
    HighHalf, TunRoute, Unreachable

\* No command installs a route to a device the host does not have.
LEMMA TableType == TypeInv /\ [Next]_vars => table' \subseteq Route
<1> SUFFICES ASSUME TypeInv, [Next]_vars PROVE table' \subseteq Route
  OBVIOUS
<1>1. table \subseteq Route /\ todo \in Seq(Prefix) /\ host \subseteq Route
  BY ConfigAssumption DEF TypeInv, TypeOK, ConfigAssumption
<1>2. \A r \in Route : Add(table, r) \subseteq Route
  BY <1>1, AddSubset
<1>3. CASE Removing
  BY <1>1, <1>3, Removals
<1>4. CASE ThroughTun
  <2>1. todo # <<>> \/ table' \in {table, Add(table, TunRoute(LowHalf)), Add(table, TunRoute(HighHalf))}
    BY <1>4 DEF ThroughTun, AddSplitLow, AddSplitHigh, AddExtraRoute, AddDNSServerRoute, AddDevTun,
         Outcomes, TunRoute
  <2>2. todo # <<>> => Head(todo) \in Prefix
    BY <1>1
  <2>3. QED
    BY <1>1, <1>2, <1>4, <2>1, <2>2, Additions, AddedRoutes
<1>5. CASE KsAdd
  BY <1>1, <1>2, <1>5, Additions, AddedRoutes
<1>6. CASE KsRestore
  BY <1>1, <1>2, <1>6, Additions, AddedRoutes DEF TypeInv
<1>7. CASE AddBypass \/ AddExclude
  <2>1. Head(todo) \in Prefix
    BY <1>1, <1>7 DEF AddBypass, AddExclude
  <2>2. AddBypass => orig.dev # "none"
    BY DEF AddBypass, TypeInv
  <2>3. QED
    BY <1>1, <1>2, <1>7, <2>1, <2>2, Additions, AddedRoutes DEF TypeInv
<1>8. CASE CleanupDefault
  <2>1. \A r \in Route : Add(table \ {BlackholeDefault}, r) \subseteq Route
    BY <1>1, AddSubset
  <2>2. QED
    BY <1>1, <1>8, <2>1, AddedRoutes DEF CleanupDefault, TypeInv
<1>9. CASE RenewDefault
  BY <1>1, <1>2, <1>9 DEF RenewDefault, Defaults
<1>10. CASE LiftKillSwitch
  <2>1. \A r \in Route : Add(table \ {BlackholeDefault}, r) \subseteq Route
    BY <1>1, AddSubset
  <2>2. QED
    BY <1>1, <1>10, <2>1 DEF LiftKillSwitch, Defaults
<1>11. CASE Idle
  BY <1>1, <1>11, Unchanging
<1>12. QED
  BY <1>3, <1>4, <1>5, <1>6, <1>7, <1>8, <1>9, <1>10, <1>11, StepKinds

\* The empty loop, the two URLs, and one more recorded prefix.
LEMMA Records ==
  /\ \A S : <<>> \in Seq(S)
  /\ <<"api", "connect">> \in Seq({"api", "connect"})
  /\ \A r \in RouteManager, p \in Prefix :
       /\ [r EXCEPT !.bypass = Append(@, p)] \in RouteManager
       /\ [r EXCEPT !.exclude = Append(@, p)] \in RouteManager
       /\ [r EXCEPT !.extra = Append(@, p)] \in RouteManager
       /\ [r EXCEPT !.dnsTun = Append(@, p)] \in RouteManager
<1>1. (\A S : <<>> \in Seq(S)) /\ <<"api", "connect">> \in Seq({"api", "connect"})
  OBVIOUS
<1>2. ASSUME NEW r \in RouteManager, NEW p \in Prefix
      PROVE  /\ [r EXCEPT !.bypass = Append(@, p)] \in RouteManager
             /\ [r EXCEPT !.exclude = Append(@, p)] \in RouteManager
             /\ [r EXCEPT !.extra = Append(@, p)] \in RouteManager
             /\ [r EXCEPT !.dnsTun = Append(@, p)] \in RouteManager
  <2>1. \A q \in Seq(Prefix) : Append(q, p) \in Seq(Prefix)
    BY <1>2
  <2>2. /\ Append(r.bypass, p) \in Seq(Prefix) /\ Append(r.exclude, p) \in Seq(Prefix)
        /\ Append(r.extra, p) \in Seq(Prefix) /\ Append(r.dnsTun, p) \in Seq(Prefix)
    BY <1>2, <2>1 DEF RouteManager
  <2>3. [r EXCEPT !.bypass = Append(@, p)] \in RouteManager
    BY <1>2, <2>2 DEF RouteManager
  <2>4. [r EXCEPT !.exclude = Append(@, p)] \in RouteManager
    BY <1>2, <2>2 DEF RouteManager
  <2>5. [r EXCEPT !.extra = Append(@, p)] \in RouteManager
    BY <1>2, <2>2 DEF RouteManager
  <2>6. [r EXCEPT !.dnsTun = Append(@, p)] \in RouteManager
    BY <1>2, <2>2 DEF RouteManager
  <2>7. QED
    BY <2>3, <2>4, <2>5, <2>6
<1>3. QED
  BY <1>1, <1>2

LEMMA TypeInit == Init => TypeInv
<1> SUFFICES ASSUME Init PROVE TypeInv
  OBVIOUS
<1>1. table \subseteq Route /\ cfg \in Configs /\ host \in HostTables
  BY ConfigAssumption DEF Init, ConfigAssumption
<1>2. rm \in RouteManager
  BY DEF Init, NewRouteManager, RouteManager
<1>3. 1 \in 1..MaxSessions
  BY ConfigAssumption DEF ConfigAssumption
<1>4. todo \in Seq(Prefix) /\ hosts \in Seq({"api", "connect"})
  BY Records DEF Init
<1>5. orig \in [gw: Gateway \cup {"none"}, dev: Device \cup {"none"}]
  BY DEF Init
<1>6. QED
  BY <1>1, <1>2, <1>3, <1>4, <1>5 DEF Init, TypeInv, TypeOK, Label

LEMMA TypeStep == TypeInv /\ [Next]_vars => TypeInv'
<1> SUFFICES ASSUME TypeInv, [Next]_vars PROVE TypeInv'
  OBVIOUS
<1> USE DEF TypeInv, TypeOK, Label, AddLoops, DelLoops, Terminal
<1>0. table' \subseteq Route
  BY TableType
<1>1. CASE StartWithoutTun
  BY <1>0, <1>1 DEF StartWithoutTun
<1>2. CASE CreateTun
  BY <1>0, <1>2 DEF CreateTun
<1>3. CASE ConfigureTun
  BY <1>0, <1>3 DEF ConfigureTun
<1>4. CASE DetectGateway
  <2>1. orig' \in [gw: Gateway \cup {"none"}, dev: Device \cup {"none"}]
    BY <1>4 DEF DetectGateway, Defaults, Route
  <2>2. rm' \in RouteManager
    BY <1>4 DEF DetectGateway, NewRouteManager, RouteManager
  <2>3. todo' \in Seq(Prefix) /\ hosts' \in Seq({"api", "connect"})
    BY <1>4, InputTypes, Records DEF DetectGateway
  <2>4. QED
    BY <1>0, <1>4, <2>1, <2>2, <2>3 DEF DetectGateway
<1>5. CASE KsDelete
  BY <1>0, <1>5 DEF KsDelete, RouteManager
<1>6. CASE KsAdd
  BY <1>0, <1>6 DEF KsAdd, RouteManager
<1>7. CASE KsAddFails
  BY <1>0, <1>7 DEF KsAddFails
<1>8. CASE KsRestore
  BY <1>0, <1>8 DEF KsRestore
<1>9. CASE LookupEndpoint
  <2>1. Head(hosts) \in {"api", "connect"} /\ hosts' \in Seq({"api", "connect"})
    BY <1>9 DEF LookupEndpoint
  <2>2. todo' \in Seq(Prefix) /\ (todo' # <<>> => orig.dev # "none")
    BY <1>9, <2>1, InputTypes, Records DEF LookupEndpoint
  <2>3. QED
    BY <1>0, <1>9, <2>1, <2>2 DEF LookupEndpoint
<1>10. CASE AddBypass
  <2>1. Head(todo) \in Prefix /\ todo' \in Seq(Prefix)
    BY <1>10 DEF AddBypass
  <2>2. rm' \in RouteManager
    BY <1>10, <2>1, Records DEF AddBypass
  <2>3. QED
    BY <1>0, <1>10, <2>1, <2>2 DEF AddBypass
<1>11. CASE AddSplitLow
  BY <1>0, <1>11 DEF AddSplitLow
<1>12. CASE AddSplitHigh
  BY <1>0, <1>12, InputTypes DEF AddSplitHigh, RouteManager
<1>13. CASE AddExclude
  <2>1. Head(todo) \in Prefix /\ todo' \in Seq(Prefix)
    BY <1>13 DEF AddExclude
  <2>2. rm' \in RouteManager
    BY <1>13, <2>1, Records DEF AddExclude
  <2>3. QED
    BY <1>0, <1>13, <2>1, <2>2 DEF AddExclude
<1>14. CASE AddExtraRoute
  <2>1. Head(todo) \in Prefix /\ todo' \in Seq(Prefix)
    BY <1>14 DEF AddExtraRoute
  <2>2. rm' \in RouteManager
    BY <1>14, <2>1, Records DEF AddExtraRoute
  <2>3. QED
    BY <1>0, <1>14, <2>1, <2>2 DEF AddExtraRoute
<1>15. CASE AddDNSServerRoute
  <2>1. Head(todo) \in Prefix /\ todo' \in Seq(Prefix)
    BY <1>15 DEF AddDNSServerRoute
  <2>2. rm' \in RouteManager
    BY <1>15, <2>1, Records DEF AddDNSServerRoute
  <2>3. QED
    BY <1>0, <1>15, <2>1, <2>2 DEF AddDNSServerRoute
<1>16. CASE LoopEnds
  BY <1>0, <1>16, InputTypes DEF LoopEnds, After, LoopOver, RouteManager
<1>17. CASE CtxDone
  BY <1>0, <1>17 DEF CtxDone
<1>18. CASE CleanupStarts
  BY <1>0, <1>18 DEF CleanupStarts, RouteManager
<1>19. CASE DelSplitLow
  BY <1>0, <1>19 DEF DelSplitLow
<1>20. CASE DelSplitHigh
  BY <1>0, <1>20 DEF DelSplitHigh, RouteManager
<1>21. CASE DelRecorded
  BY <1>0, <1>21 DEF DelRecorded
<1>22. CASE TunDown
  BY <1>0, <1>22 DEF TunDown
<1>23. CASE CleanupDefault
  BY <1>0, <1>23 DEF CleanupDefault
<1>24. CASE CloseTun
  BY <1>0, <1>24 DEF CloseTun
<1>25. CASE Signal
  BY <1>0, <1>25 DEF Signal
<1>26. CASE Crash
  <2>1. todo' \in Seq(Prefix) /\ hosts' \in Seq({"api", "connect"})
    BY <1>26 DEF Crash
  <2>2. QED
    BY <1>0, <1>26, <2>1 DEF Crash
<1>27. CASE TunLost
  BY <1>0, <1>27 DEF TunLost
<1>28. CASE RenewDefault
  BY <1>0, <1>28 DEF RenewDefault
<1>29. CASE LiftKillSwitch
  BY <1>0, <1>29 DEF LiftKillSwitch
<1>30. CASE Restart
  <2>1. todo' \in Seq(Prefix) /\ hosts' \in Seq({"api", "connect"})
    BY <1>30 DEF Restart
  <2>2. sessions' \in 1..MaxSessions
    BY <1>30, ConfigAssumption DEF Restart, ConfigAssumption
  <2>3. QED
    BY <1>0, <1>30, <2>1, <2>2 DEF Restart
<1>31. CASE UNCHANGED vars
  BY <1>31 DEF vars
<1>32. CASE Finished
  BY <1>31, <1>32 DEF Finished
<1>33. QED
  BY <1>1, <1>2, <1>3, <1>4, <1>5, <1>6, <1>7, <1>8, <1>9, <1>10, <1>11, <1>12, <1>13, <1>14, <1>15, <1>16, <1>17, <1>18, <1>19, <1>20, <1>21, <1>22, <1>23, <1>24, <1>25, <1>26, <1>27, <1>28, <1>29, <1>30, <1>31, <1>32
  DEF Next, Process, Environment

\* Whatever the host, the command line and the faults, the client's records and
\* the table keep their types: no command ever names a device that was not found
\* (vpn_linux.go:68, the empty origDev).
THEOREM TypeCorrect == Spec => []TypeOK
<1>1. Spec => []TypeInv
  BY TypeInit, TypeStep, PTL DEF Spec
<1>2. TypeInv => TypeOK
  BY DEF TypeInv
<1>3. QED
  BY <1>1, <1>2, PTL

(***************************************************************************)
(* The kill switch.                                                        *)
(***************************************************************************)
LEMMA TablesStaySingle ==
  /\ \A t, r : OneRoutePerMetric(t) => OneRoutePerMetric(Add(t, r))
  /\ \A t, u : OneRoutePerMetric(t) /\ u \subseteq t => OneRoutePerMetric(u)
BY DEF OneRoutePerMetric, Add

\* What deletes a specific prefix, or flushes the TUN, spares the blackhole.
LEMMA BlackholeSpared ==
  \A t : BlackholeDefault \in t =>
           /\ \A dst \in Specific : BlackholeDefault \in Delete(t, Matching(t, dst))
           /\ BlackholeDefault \in Flush(t, "tun")
           /\ \A r : BlackholeDefault \in Add(t, r)
BY DEF Specific, BlackholeDefault, Delete, Matching, Flush, Add

\* A /32 and a half are not the default.
LEMMA SpecificPrefixes ==
  /\ LowHalf \in Specific /\ HighHalf \in Specific
  /\ \A a \in Addr : Host(a) \in Specific
BY AddrAssumption DEF AddrAssumption, Specific, Prefix, Default, HighHalf, Host

LEMMA SeqOf ==
  ASSUME NEW S, NEW T, NEW s \in Seq(S), \A i \in DOMAIN s : s[i] \in T
  PROVE  s \in Seq(T)
OBVIOUS

\* Every element of the lists the bypass and exclude loops range over is allowed.
LEMMA ListsAround ==
  /\ \A h \in {"api", "connect"} : Answer[h] \in Seq(SUBSET Around) /\ Answer[h] \in Seq(Specific)
  /\ cfg \in Configs => cfg.excludes \in Seq(SUBSET Around)
<1>1. ASSUME NEW h \in {"api", "connect"} PROVE Answer[h] \in Seq(SUBSET Around)
  <2>1. \A i \in DOMAIN Answer[h] : Answer[h][i] \in SUBSET Around
    BY <1>1 DEF Around, EndpointAddrs
  <2>2. QED
    BY <2>1, InputTypes, SeqOf
<1>2. ASSUME NEW h \in {"api", "connect"} PROVE Answer[h] \in Seq(Specific)
  <2>1. {Host(a) : a \in Addr} \subseteq Specific
    BY SpecificPrefixes
  <2>2. Answer[h] \in Seq({Host(a) : a \in Addr})
    BY ConfigAssumption DEF ConfigAssumption
  <2>3. QED
    BY <2>1, <2>2, SeqMonotone
<1>3. ASSUME cfg \in Configs PROVE cfg.excludes \in Seq(SUBSET Around)
  <2>1. \A i \in DOMAIN cfg.excludes : cfg.excludes[i] \in SUBSET Around
    BY DEF Around
  <2>2. QED
    BY <1>3, <2>1, InputTypes, SeqOf
<1>4. QED
  BY <1>1, <1>2, <1>3

\* The invariant implies the property: the blackhole beats any other default.
LEMMA SealInvSeals == TypeInv /\ SealInv => KillSwitchSeals
<1> SUFFICES ASSUME TypeInv, SealInv, sealed, NEW a \in Addr \ Allowed, GoesTo(table, a, Device)
             PROVE  FALSE
  BY DEF KillSwitchSeals
<1>1. PICK r \in table : /\ a \in r.dst /\ r.dev \in Device
                         /\ \A s \in table : a \in s.dst => ~Beats(s, r)
  BY DEF GoesTo
<1>2. r.dst = Default
  BY <1>1 DEF SealInv, OnlyAllowed
<1>3. BlackholeDefault \in table /\ a \in BlackholeDefault.dst /\ BlackholeDefault.dst = r.dst
  BY <1>2 DEF SealInv, BlackholeDefault, Default
<1>4. r.metric # 0
  <2>1. r.dev # BlackholeDefault.dev
    BY <1>1, DeviceAssumption DEF DeviceAssumption, BlackholeDefault
  <2>2. BlackholeDefault.metric = 0
    BY DEF BlackholeDefault
  <2>3. QED
    BY <1>3, <2>1, <2>2 DEF SealInv, OneRoutePerMetric
<1>5. r.metric \in Nat
  BY DEF TypeInv, TypeOK, Route
<1>6. Beats(BlackholeDefault, r)
  BY <1>3, <1>4, <1>5 DEF Beats, BlackholeDefault
<1>7. QED
  BY <1>1, <1>3, <1>6

LEMMA SealInit == ASSUME ListsOmitDefault PROVE Init => SealInv
<1> SUFFICES ASSUME Init PROVE SealInv
  OBVIOUS
<1>1. OneRoutePerMetric(table)
  BY HostTablesAssumption DEF Init, OneRoutePerMetric, HostTablesAssumption
<1>2. OnlyAllowed(table)
  BY DEF Init, OnlyAllowed, Allowed, HostRouted
<1>3. RecordsSpecific /\ todo \in Seq(Specific)
  BY Records DEF Init, RecordsSpecific, NewRouteManager
<1>4. QED
  BY <1>1, <1>2, <1>3 DEF Init, SealInv, NewRouteManager

\* The command line and the host stay what they were, and so does what they allow.
LEMMA Fixed ==
  [Next]_vars => /\ cfg' = cfg /\ host' = host /\ faults' = faults
                 /\ Around' = Around /\ Allowed' = Allowed
<1> SUFFICES ASSUME [Next]_vars
             PROVE  /\ cfg' = cfg /\ host' = host /\ faults' = faults
                    /\ Around' = Around /\ Allowed' = Allowed
  OBVIOUS
<1>1. cfg' = cfg /\ host' = host /\ faults' = faults
  <2>1. CASE Process
    BY <2>1 DEF Process, StartWithoutTun, CreateTun, ConfigureTun, DetectGateway, KsDelete, KsAdd,
         KsAddFails, KsRestore, LookupEndpoint, AddBypass, AddSplitLow, AddSplitHigh, AddExclude,
         AddExtraRoute, AddDNSServerRoute, LoopEnds, CtxDone, CleanupStarts, DelSplitLow,
         DelSplitHigh, DelRecorded, TunDown, CleanupDefault, CloseTun
  <2>2. CASE Environment
    BY <2>2 DEF Environment, Signal, Crash, TunLost, RenewDefault, LiftKillSwitch, Restart,
         Finished, vars
  <2>3. CASE UNCHANGED vars
    BY <2>3 DEF vars
  <2>4. QED
    BY <2>1, <2>2, <2>3 DEF Next
<1>2. QED
  BY <1>1 DEF Around, Allowed, HostRouted, EndpointAddrs

\* One route per prefix and metric: adding checks it, removing cannot break it.
LEMMA SingleStep == OneRoutePerMetric(table) /\ [Next]_vars => OneRoutePerMetric(table')
<1> SUFFICES ASSUME OneRoutePerMetric(table), [Next]_vars PROVE OneRoutePerMetric(table')
  OBVIOUS
<1>1. OneRoutePerMetric(table \ {BlackholeDefault})
  BY TablesStaySingle
<1>2. CASE Removing
  BY <1>2, Removals, TablesStaySingle
<1>3. CASE ThroughTun \/ KsAdd \/ KsRestore \/ AddBypass \/ AddExclude
  BY <1>3, Additions, TablesStaySingle
<1>4. CASE CleanupDefault
  BY <1>1, <1>4, TablesStaySingle DEF CleanupDefault
<1>5. CASE RenewDefault
  BY <1>5, TablesStaySingle DEF RenewDefault
<1>6. CASE LiftKillSwitch
  BY <1>1, <1>6, TablesStaySingle DEF LiftKillSwitch
<1>7. CASE Idle
  BY <1>7, Unchanging
<1>8. QED
  BY <1>2, <1>3, <1>4, <1>5, <1>6, <1>7, StepKinds

\* Routes to a device are added for an allowed destination, or as a default.
LEMMA OnlyAllowedStep == TypeInv /\ SealInv /\ [Next]_vars => OnlyAllowed(table')
<1> SUFFICES ASSUME TypeInv, SealInv, [Next]_vars PROVE OnlyAllowed(table')
  OBVIOUS
<1> DEFINE Fine(r) == r.dev \in Device => r.dst = Default \/ r.dst \subseteq Allowed
<1>1. \A r \in table : Fine(r)
  BY DEF SealInv, OnlyAllowed
<1>2. \A dst : Fine(TunRoute(dst)) /\ Fine(Unreachable(dst)) /\ Fine(BlackholeDefault)
  BY DeviceAssumption DEF DeviceAssumption, TunRoute, Unreachable, BlackholeDefault
<1>3. Fine(ViaOriginal(Default)) /\ (\A dst : dst \subseteq Around => Fine(ViaOriginal(dst)))
  BY DEF ViaOriginal, Allowed
<1>4. \A r : Fine(r) => \A q \in Add(table, r) \cup Add(table \ {BlackholeDefault}, r) : Fine(q)
  BY <1>1, AddSubset
<1>5. \A r \in Defaults(host, Device) : Fine(r)
  BY DEF Defaults
<1>6. \A q \in table' : Fine(q)
  <2>1. CASE Removing
    BY <1>1, <2>1, Removals
  <2>2. CASE ThroughTun \/ KsAdd \/ KsRestore
    BY <1>1, <1>2, <1>3, <1>4, <2>2, Additions
  <2>3. CASE AddBypass \/ AddExclude
    <3>1. Head(todo) \subseteq Around
      BY <2>3 DEF AddBypass, AddExclude, SealInv
    <3>2. QED
      BY <1>1, <1>2, <1>3, <1>4, <2>3, <3>1, Additions
  <2>4. CASE CleanupDefault
    BY <1>1, <1>3, <1>4, <2>4 DEF CleanupDefault
  <2>5. CASE RenewDefault
    BY <1>4, <1>5, <2>5 DEF RenewDefault
  <2>6. CASE LiftKillSwitch
    BY <1>4, <1>5, <2>6 DEF LiftKillSwitch
  <2>7. CASE Idle
    BY <1>1, <2>7, Unchanging
  <2>8. QED
    BY <2>1, <2>2, <2>3, <2>4, <2>5, <2>6, <2>7, StepKinds
<1>7. QED
  BY <1>6 DEF OnlyAllowed

\* An announced blackhole stays until it is lifted.
LEMMA BlackholeStep == TypeInv /\ SealInv /\ [Next]_vars => (sealed' => BlackholeDefault \in table')
<1> SUFFICES ASSUME TypeInv, SealInv, [Next]_vars, sealed' PROVE BlackholeDefault \in table'
  OBVIOUS
<1>1. CASE KsDelete
  BY <1>1 DEF KsDelete
<1>2. CASE DelSplitLow \/ DelSplitHigh
  BY <1>2, BlackholeSpared, SpecificPrefixes
  DEF DelSplitLow, DelSplitHigh, DelPrefix, Outcomes, SealInv
<1>3. CASE DelRecorded
  <2>1. Head(todo) \in Specific
    BY <1>3 DEF DelRecorded, SealInv
  <2>2. QED
    BY <1>3, <2>1, BlackholeSpared DEF DelRecorded, DelPrefix, Outcomes, SealInv
<1>4. CASE TunDown \/ CloseTun \/ Crash \/ TunLost
  BY <1>4, BlackholeSpared DEF TunDown, CloseTun, Crash, TunLost, SealInv
<1>5. CASE KsAdd
  <2>1. ~\E s \in table : s.dst = BlackholeDefault.dst /\ s.metric = BlackholeDefault.metric
    BY <1>5 DEF KsAdd, Matching, BlackholeDefault
  <2>2. QED
    BY <1>5, <2>1 DEF KsAdd, Add
<1>6. CASE ThroughTun \/ KsRestore \/ AddBypass \/ AddExclude
  <2>1. sealed
    BY <1>6 DEF ThroughTun, AddSplitLow, AddSplitHigh, AddExtraRoute, AddDNSServerRoute,
         KsRestore, AddBypass, AddExclude
  <2>2. QED
    BY <1>6, <2>1, Additions, BlackholeSpared DEF SealInv
<1>7. CASE CleanupDefault
  BY <1>7 DEF CleanupDefault, SealInv
<1>8. CASE RenewDefault
  BY <1>8, BlackholeSpared DEF RenewDefault, SealInv
<1>9. CASE LiftKillSwitch
  BY <1>9 DEF LiftKillSwitch
<1>10. CASE Idle
  <2>1. sealed
    BY <1>10 DEF Idle, StartWithoutTun, CreateTun, ConfigureTun, DetectGateway, KsAddFails,
         LookupEndpoint, LoopEnds, CtxDone, CleanupStarts, Signal, Restart, Finished, vars
  <2>2. QED
    BY <1>10, <2>1, Unchanging DEF SealInv
<1>11. QED
  BY <1>1, <1>2, <1>3, <1>4, <1>5, <1>6, <1>7, <1>8, <1>9, <1>10, StepKinds DEF Removing

\* Recording one more prefix, whichever list it goes to.
LEMMA RecordSpecific ==
  ASSUME RecordsSpecific, NEW p \in Specific, rm \in RouteManager,
         \/ rm' = [rm EXCEPT !.bypass = Append(@, p)]
         \/ rm' = [rm EXCEPT !.exclude = Append(@, p)]
         \/ rm' = [rm EXCEPT !.extra = Append(@, p)]
         \/ rm' = [rm EXCEPT !.dnsTun = Append(@, p)]
  PROVE  RecordsSpecific' /\ (rm.ksAdded => rm.ks) = (rm'.ksAdded => rm'.ks)
<1>1. \A q \in Seq(Specific) : Append(q, p) \in Seq(Specific)
  OBVIOUS
<1>2. QED
  BY <1>1 DEF RecordsSpecific, RouteManager

\* What is left of Cleanup's lists, of the loops and of the kill-switch flags.
Lists == /\ RecordsSpecific /\ todo \in Seq(Specific)
         /\ pc \in {"bypass", "exclude"} => todo \in Seq(SUBSET Around)
         /\ rm.ksAdded => rm.ks

LEMMA ListsStep ==
  ASSUME ListsOmitDefault, TypeInv, Lists, [Next]_vars PROVE Lists'
<1>0. /\ Around' = Around /\ cfg' = cfg
      /\ cfg.excludes \in Seq(Specific) /\ cfg.extras \in Seq(Specific) /\ cfg.dns \in Seq(Specific)
      /\ <<>> \in Seq(Specific) /\ <<>> \in Seq(SUBSET Around)
      /\ rm \in RouteManager
  BY Fixed, Records DEF ListsOmitDefault, TypeInv, TypeOK
<1>1. CASE StartWithoutTun
  BY <1>0, <1>1 DEF StartWithoutTun, Lists, RecordsSpecific
<1>2. CASE CreateTun
  BY <1>0, <1>2 DEF CreateTun, Lists, RecordsSpecific
<1>3. CASE ConfigureTun
  BY <1>0, <1>3 DEF ConfigureTun, Lists, RecordsSpecific
<1>4. CASE DetectGateway
  <2>1. RecordsSpecific' /\ (rm'.ksAdded => rm'.ks)
    BY <1>0, <1>4 DEF DetectGateway, RecordsSpecific, NewRouteManager
  <2>2. QED
    BY <1>0, <1>4, <2>1 DEF DetectGateway, Lists
<1>5. CASE KsDelete
  <2>1. RecordsSpecific' /\ rm'.ks
    BY <1>0, <1>5 DEF KsDelete, Lists, RecordsSpecific, RouteManager
  <2>2. QED
    BY <1>0, <1>5, <2>1 DEF KsDelete, Lists
<1>6. CASE KsAdd
  <2>1. rm.ks
    BY <1>6 DEF KsAdd, TypeInv
  <2>2. RecordsSpecific' /\ rm'.ks
    BY <1>0, <1>6, <2>1 DEF KsAdd, Lists, RecordsSpecific, RouteManager
  <2>3. QED
    BY <1>0, <1>6, <2>2 DEF KsAdd, Lists
<1>7. CASE KsAddFails
  BY <1>0, <1>7 DEF KsAddFails, Lists, RecordsSpecific
<1>8. CASE KsRestore
  BY <1>0, <1>8 DEF KsRestore, Lists, RecordsSpecific
<1>9. CASE LookupEndpoint
  <2>1. Head(hosts) \in {"api", "connect"}
    BY <1>9 DEF LookupEndpoint, TypeInv, TypeOK
  <2>2. todo' \in Seq(Specific) /\ todo' \in Seq(SUBSET Around)
    BY <1>0, <1>9, <2>1, ListsAround DEF LookupEndpoint
  <2>3. QED
    BY <1>0, <1>9, <2>2 DEF LookupEndpoint, Lists, RecordsSpecific
<1>10. CASE AddBypass
  <2>1. Head(todo) \in Specific /\ todo' \in Seq(Specific)
    BY <1>10 DEF AddBypass, Lists
  <2>2. RecordsSpecific' /\ (rm'.ksAdded => rm'.ks)
    BY <1>0, <1>10, <2>1, RecordSpecific DEF AddBypass, Lists
  <2>3. pc \in {"bypass", "exclude"} => todo' \in Seq(SUBSET Around)
    BY <1>10 DEF AddBypass, Lists
  <2>4. QED
    BY <1>0, <1>10, <2>1, <2>2, <2>3 DEF AddBypass, Lists
<1>11. CASE AddSplitLow
  BY <1>0, <1>11 DEF AddSplitLow, Lists, RecordsSpecific
<1>12. CASE AddSplitHigh
  <2>1. RecordsSpecific' /\ (rm'.ksAdded => rm'.ks)
    BY <1>0, <1>12 DEF AddSplitHigh, Lists, RecordsSpecific, RouteManager
  <2>2. cfg.excludes \in Seq(SUBSET Around)
    BY ListsAround DEF TypeInv, TypeOK
  <2>3. QED
    BY <1>0, <1>12, <2>1, <2>2 DEF AddSplitHigh, Lists
<1>13. CASE AddExclude
  <2>1. Head(todo) \in Specific /\ todo' \in Seq(Specific)
    BY <1>13 DEF AddExclude, Lists
  <2>2. RecordsSpecific' /\ (rm'.ksAdded => rm'.ks)
    BY <1>0, <1>13, <2>1, RecordSpecific DEF AddExclude, Lists
  <2>3. pc \in {"bypass", "exclude"} => todo' \in Seq(SUBSET Around)
    BY <1>13 DEF AddExclude, Lists
  <2>4. QED
    BY <1>0, <1>13, <2>1, <2>2, <2>3 DEF AddExclude, Lists
<1>14. CASE AddExtraRoute
  <2>1. Head(todo) \in Specific /\ todo' \in Seq(Specific)
    BY <1>14 DEF AddExtraRoute, Lists
  <2>2. RecordsSpecific' /\ (rm'.ksAdded => rm'.ks)
    BY <1>0, <1>14, <2>1, RecordSpecific DEF AddExtraRoute, Lists
  <2>3. pc \in {"bypass", "exclude"} => todo' \in Seq(SUBSET Around)
    BY <1>14 DEF AddExtraRoute, Lists
  <2>4. QED
    BY <1>0, <1>14, <2>1, <2>2, <2>3 DEF AddExtraRoute, Lists
<1>15. CASE AddDNSServerRoute
  <2>1. Head(todo) \in Specific /\ todo' \in Seq(Specific)
    BY <1>15 DEF AddDNSServerRoute, Lists
  <2>2. RecordsSpecific' /\ (rm'.ksAdded => rm'.ks)
    BY <1>0, <1>15, <2>1, RecordSpecific DEF AddDNSServerRoute, Lists
  <2>3. pc \in {"bypass", "exclude"} => todo' \in Seq(SUBSET Around)
    BY <1>15 DEF AddDNSServerRoute, Lists
  <2>4. QED
    BY <1>0, <1>15, <2>1, <2>2, <2>3 DEF AddDNSServerRoute, Lists
<1>16. CASE LoopEnds
  <2>1. todo' \in Seq(Specific)
    BY <1>0, <1>16 DEF LoopEnds, LoopOver, Lists, RecordsSpecific
  <2>2. pc' \notin {"bypass", "exclude"}
    BY <1>16 DEF LoopEnds, After, AddLoops, DelLoops
  <2>3. QED
    BY <1>16, <2>1, <2>2 DEF LoopEnds, Lists, RecordsSpecific
<1>17. CASE CtxDone
  BY <1>0, <1>17 DEF CtxDone, Lists, RecordsSpecific
<1>18. CASE CleanupStarts
  BY <1>0, <1>18 DEF CleanupStarts, Lists, RecordsSpecific
<1>19. CASE DelSplitLow
  BY <1>0, <1>19 DEF DelSplitLow, Lists, RecordsSpecific
<1>20. CASE DelSplitHigh
  BY <1>0, <1>20 DEF DelSplitHigh, Lists, RecordsSpecific
<1>21. CASE DelRecorded
  BY <1>0, <1>21 DEF DelRecorded, Lists, RecordsSpecific
<1>22. CASE TunDown
  BY <1>0, <1>22 DEF TunDown, Lists, RecordsSpecific
<1>23. CASE CleanupDefault
  BY <1>0, <1>23 DEF CleanupDefault, Lists, RecordsSpecific
<1>24. CASE CloseTun
  BY <1>0, <1>24 DEF CloseTun, Lists, RecordsSpecific
<1>25. CASE Signal
  BY <1>0, <1>25 DEF Signal, Lists, RecordsSpecific
<1>26. CASE Crash
  BY <1>0, <1>26 DEF Crash, Lists, RecordsSpecific
<1>27. CASE TunLost
  BY <1>0, <1>27 DEF TunLost, Lists, RecordsSpecific
<1>28. CASE RenewDefault
  BY <1>0, <1>28 DEF RenewDefault, Lists, RecordsSpecific
<1>29. CASE LiftKillSwitch
  BY <1>0, <1>29 DEF LiftKillSwitch, Lists, RecordsSpecific
<1>30. CASE Restart
  BY <1>0, <1>30 DEF Restart, Lists, RecordsSpecific
<1>31. CASE UNCHANGED vars
  BY <1>0, <1>31 DEF vars, Lists, RecordsSpecific
<1>32. CASE Finished
  BY <1>31, <1>32 DEF Finished
<1>33. QED
  BY <1>1, <1>2, <1>3, <1>4, <1>5, <1>6, <1>7, <1>8, <1>9, <1>10, <1>11, <1>12, <1>13, <1>14, <1>15, <1>16, <1>17, <1>18, <1>19, <1>20, <1>21, <1>22, <1>23, <1>24, <1>25, <1>26, <1>27, <1>28, <1>29, <1>30, <1>31, <1>32
  DEF Next, Process, Environment

LEMMA SealStep ==
  ASSUME ListsOmitDefault PROVE TypeInv /\ SealInv /\ [Next]_vars => SealInv'
<1> SUFFICES ASSUME TypeInv, SealInv, [Next]_vars PROVE SealInv'
  OBVIOUS
<1>1. Lists'
  BY ListsStep DEF SealInv, Lists
<1>2. OneRoutePerMetric(table)'
  BY SingleStep DEF SealInv, OneRoutePerMetric
<1>3. OnlyAllowed(table)'
  BY OnlyAllowedStep, Fixed DEF OnlyAllowed
<1>4. QED
  BY <1>1, <1>2, <1>3, BlackholeStep DEF SealInv, Lists

\* As long as no list on the command line names 0.0.0.0/0, an announced kill switch
\* seals the host until the user lifts it: in every interleaving of the client's
\* commands with failures, crashes, restarts, signals and lease renewals
\* (routes_linux.go:64-88 and :140-172).
THEOREM KillSwitchHolds ==
  ASSUME ListsOmitDefault PROVE Spec => []KillSwitchSeals
<1>1. Init => TypeInv /\ SealInv
  BY TypeInit, SealInit
<1>2. TypeInv /\ SealInv /\ [Next]_vars => (TypeInv /\ SealInv)'
  BY TypeStep, SealStep
<1>3. TypeInv /\ SealInv => KillSwitchSeals
  BY SealInvSeals
<1>4. QED
  BY <1>1, <1>2, <1>3, PTL DEF Spec

(***************************************************************************)
(* The refinement: LinuxVpn implements KillSwitch.                         *)
(***************************************************************************)
\* A session that is about to install the blackhole has not installed it yet, and
\* one without an interface never does: --tun=none returns before the routes.
PhaseInv ==
  /\ pc \notin {"start", "socksOnly"} \cup Terminal => cfg.tun
  /\ rm.ksAdded => cfg.tun
  /\ pc \in {"ksDel", "ksAdd", "ksRestore"} => ~rm.ksAdded

LEMMA PhaseInit == Init => PhaseInv
BY DEF Init, PhaseInv, NewRouteManager, Terminal

LEMMA PhaseStep == TypeInv /\ PhaseInv /\ [Next]_vars => PhaseInv'
<1> SUFFICES ASSUME TypeInv, PhaseInv, [Next]_vars PROVE PhaseInv'
    OBVIOUS
<1> USE DEF PhaseInv, Terminal
<1>0. cfg' = cfg /\ rm \in RouteManager
      BY Fixed DEF TypeInv, TypeOK
<1>1. CASE StartWithoutTun \/ CreateTun \/ ConfigureTun
      BY <1>0, <1>1 DEF StartWithoutTun, CreateTun, ConfigureTun
<1>2. CASE DetectGateway
      BY <1>0, <1>2 DEF DetectGateway, NewRouteManager
<1>3. CASE KsDelete \/ KsAdd
      BY <1>0, <1>3 DEF KsDelete, KsAdd, RouteManager
<1>4. CASE KsAddFails \/ KsRestore \/ LookupEndpoint
      BY <1>0, <1>4 DEF KsAddFails, KsRestore, LookupEndpoint
<1>5. CASE AddBypass \/ AddExclude \/ AddExtraRoute \/ AddDNSServerRoute
      BY <1>0, <1>5 DEF AddBypass, AddExclude, AddExtraRoute, AddDNSServerRoute, RouteManager
<1>6. CASE AddSplitLow \/ AddSplitHigh
      BY <1>0, <1>6 DEF AddSplitLow, AddSplitHigh, RouteManager
<1>7. CASE LoopEnds
      BY <1>0, <1>7 DEF LoopEnds, After, AddLoops, DelLoops
<1>8. CASE CtxDone \/ CleanupStarts \/ DelSplitLow \/ DelSplitHigh \/ DelRecorded
      BY <1>0, <1>8 DEF CtxDone, CleanupStarts, DelSplitLow, DelSplitHigh, DelRecorded, DelLoops
<1>9. CASE TunDown \/ CleanupDefault \/ CloseTun
      BY <1>0, <1>9 DEF TunDown, CleanupDefault, CloseTun
<1>10. CASE Signal \/ Crash \/ TunLost \/ RenewDefault
      BY <1>0, <1>10 DEF Signal, Crash, TunLost, RenewDefault
<1>11. CASE LiftKillSwitch \/ Restart \/ Finished \/ UNCHANGED vars
      BY <1>0, <1>11 DEF LiftKillSwitch, Restart, Finished, vars
<1>12. QED
       BY <1>1, <1>2, <1>3, <1>4, <1>5, <1>6, <1>7, <1>8, <1>9, <1>10, <1>11
       DEF Next, Process, Environment

\* Nothing leaks past a standing announcement, whatever the step.
LEMMA StaysBlocked == KillSwitchSeals' => Promise!Blocked
BY DEF KillSwitchSeals, Promise!Blocked

\* What a step does to the announcement and to the session's part in it.
LEMMA PhaseSteps ==
  TypeInv /\ PhaseInv /\ [Next]_vars =>
    \/ SwitchPhase = "idle" /\ SwitchPhase' = "open" /\ sealed' = sealed
    \/ SwitchPhase # "idle" /\ SwitchPhase' = "idle" /\ sealed' = sealed
    \/ SwitchPhase = "open" /\ SwitchPhase' = "holding" /\ sealed' = TRUE
    \/ SwitchPhase = "open" /\ SwitchPhase' = SwitchPhase /\ sealed /\ sealed' = FALSE
    \/ SwitchPhase = "idle" /\ SwitchPhase' = SwitchPhase /\ sealed /\ sealed' = FALSE
    \/ SwitchPhase' = SwitchPhase /\ sealed' = sealed
<1> SUFFICES ASSUME TypeInv, PhaseInv, [Next]_vars
             PROVE  \/ SwitchPhase = "idle" /\ SwitchPhase' = "open" /\ sealed' = sealed
                    \/ SwitchPhase # "idle" /\ SwitchPhase' = "idle" /\ sealed' = sealed
                    \/ SwitchPhase = "open" /\ SwitchPhase' = "holding" /\ sealed' = TRUE
                    \/ SwitchPhase = "open" /\ SwitchPhase' = SwitchPhase /\ sealed /\ sealed' = FALSE
                    \/ SwitchPhase = "idle" /\ SwitchPhase' = SwitchPhase /\ sealed /\ sealed' = FALSE
                    \/ SwitchPhase' = SwitchPhase /\ sealed' = sealed
    OBVIOUS
<1> USE DEF SwitchPhase, Terminal
<1>0. rm \in RouteManager /\ sealed \in BOOLEAN
      BY DEF TypeInv, TypeOK
<1>1. CASE StartWithoutTun \/ CreateTun \/ ConfigureTun
      BY <1>1 DEF StartWithoutTun, CreateTun, ConfigureTun, PhaseInv
<1>2. CASE DetectGateway
      BY <1>2 DEF DetectGateway, NewRouteManager
<1>3. CASE KsDelete
  <2>1. rm'.ksAdded = rm.ksAdded /\ ~rm.ksAdded
        BY <1>0, <1>3 DEF KsDelete, RouteManager, PhaseInv
  <2>2. SwitchPhase = "open" /\ SwitchPhase' = "open"
        BY <1>3, <2>1 DEF KsDelete
  <2>3. sealed' = sealed \/ (sealed /\ sealed' = FALSE)
        BY <1>0, <1>3 DEF KsDelete
  <2>4. QED
        BY <2>2, <2>3
<1>4. CASE KsAdd
      BY <1>0, <1>4 DEF KsAdd, RouteManager, PhaseInv
<1>5. CASE KsAddFails \/ KsRestore \/ LookupEndpoint
      BY <1>5 DEF KsAddFails, KsRestore, LookupEndpoint
<1>6. CASE AddBypass \/ AddExclude \/ AddExtraRoute \/ AddDNSServerRoute
      BY <1>0, <1>6 DEF AddBypass, AddExclude, AddExtraRoute, AddDNSServerRoute, RouteManager
<1>7. CASE AddSplitLow \/ AddSplitHigh
      BY <1>0, <1>7 DEF AddSplitLow, AddSplitHigh, RouteManager
<1>8. CASE LoopEnds
      BY <1>8 DEF LoopEnds, After, AddLoops, DelLoops
<1>9. CASE CtxDone \/ CleanupStarts \/ DelSplitLow \/ DelSplitHigh \/ DelRecorded
      BY <1>9 DEF CtxDone, CleanupStarts, DelSplitLow, DelSplitHigh, DelRecorded, DelLoops
<1>10. CASE TunDown \/ CleanupDefault \/ CloseTun
      BY <1>10 DEF TunDown, CleanupDefault, CloseTun
<1>11. CASE Signal \/ Crash \/ TunLost \/ RenewDefault
      BY <1>11 DEF Signal, Crash, TunLost, RenewDefault
<1>12. CASE LiftKillSwitch
      BY <1>0, <1>12 DEF LiftKillSwitch
<1>13. CASE Restart \/ Finished \/ UNCHANGED vars
      BY <1>13 DEF Restart, Finished, vars
<1>14. QED
       BY <1>1, <1>2, <1>3, <1>4, <1>5, <1>6, <1>7, <1>8, <1>9, <1>10, <1>11, <1>12, <1>13
       DEF Next, Process, Environment

\* Under the same condition on the command lines, the client's sessions are
\* behaviours of KillSwitch: only a later session that has not announced the block,
\* or the user between sessions, ever takes a standing one away, and nothing leaks
\* while it stands (routes_linux.go:64-88 and :140-172).
THEOREM PromiseKept ==
  ASSUME ListsOmitDefault PROVE Spec => KeepsPromise
<1> DEFINE Inv == TypeInv /\ SealInv /\ PhaseInv
<1>1. Init => Inv
      BY TypeInit, SealInit, PhaseInit
<1>2. Inv /\ [Next]_vars => Inv'
      BY TypeStep, SealStep, PhaseStep
<1>3. (TypeInv /\ SealInv => KillSwitchSeals)'
      BY SealInvSeals, PTL
<1>4. Init => Promise!Init
      BY DEF Init, Promise!Init, SwitchPhase, Terminal, NewRouteManager
<1>5. Inv /\ Inv' /\ [Next]_vars => [Promise!Next]_Promise!vars
  <2> SUFFICES ASSUME Inv, Inv', [Next]_vars PROVE Promise!Next
      OBVIOUS
  <2>1. Promise!Blocked
        BY <1>3, StaysBlocked
  <2>2. QED
        BY <2>1, PhaseSteps
        DEF Promise!Next, Promise!Start, Promise!Stop, Promise!Seal, Promise!Break,
            Promise!Lift, Promise!Route
<1>6. QED
      BY <1>1, <1>2, <1>4, <1>5, PTL DEF Spec, KeepsPromise, Promise!Spec

(***************************************************************************)
(* The tunnel takes the traffic.                                           *)
(***************************************************************************)
General == {Default, LowHalf, HighHalf}

\* No host has a /1 of the metric the client's get: AddSplitDefault would be refused.
HalvesFree == \A t \in HostTables : \A r \in t : r.dst \in {LowHalf, HighHalf} => r.metric # 0

\* The loops around the tunnel range over what is allowed around it.
AroundInv == pc \in {"bypass", "exclude"} => todo \in Seq(SUBSET Around)

LEMMA AroundStep == TypeInv /\ AroundInv /\ [Next]_vars => AroundInv'
<1> SUFFICES ASSUME TypeInv, AroundInv, [Next]_vars, pc' \in {"bypass", "exclude"}
             PROVE  todo' \in Seq(SUBSET Around)
    BY Fixed DEF AroundInv
<1>1. <<>> \in Seq(SUBSET Around)
      BY Records
<1>2. CASE LookupEndpoint
  <2>1. Head(hosts) \in {"api", "connect"}
        BY <1>2 DEF LookupEndpoint, TypeInv, TypeOK
  <2>2. QED
        BY <1>1, <1>2, <2>1, ListsAround DEF LookupEndpoint
<1>3. CASE AddSplitHigh
      BY <1>3, ListsAround DEF AddSplitHigh, TypeInv, TypeOK
<1>4. CASE AddBypass \/ AddExclude
  <2>1. todo \in Seq(SUBSET Around) /\ todo # <<>> /\ todo' = Tail(todo)
        BY <1>4 DEF AddBypass, AddExclude, AroundInv
  <2>2. QED
        BY <2>1
<1>5. CASE UNCHANGED <<pc, todo>>
      BY <1>5 DEF AroundInv
<1>6. CASE ConfigureTun \/ KsDelete \/ KsAdd \/ KsAddFails \/ KsRestore \/ AddSplitLow \/ CtxDone
           \/ CleanupStarts \/ DelSplitLow \/ DelSplitHigh \/ TunDown \/ CleanupDefault
           \/ CloseTun \/ Crash \/ Restart
      BY <1>6 DEF ConfigureTun, KsDelete, KsAdd, KsAddFails, KsRestore, AddSplitLow, CtxDone,
         CleanupStarts, DelSplitLow, DelSplitHigh, TunDown, CleanupDefault, CloseTun, Crash, Restart
<1>7. CASE StartWithoutTun \/ CreateTun \/ DetectGateway \/ LoopEnds
      BY <1>7 DEF StartWithoutTun, CreateTun, DetectGateway, LoopEnds, After, AddLoops, DelLoops
<1>8. CASE AddExtraRoute \/ AddDNSServerRoute \/ DelRecorded
      BY <1>8 DEF AddExtraRoute, AddDNSServerRoute, DelRecorded, DelLoops
<1>9. CASE Signal \/ TunLost \/ RenewDefault \/ LiftKillSwitch \/ Finished \/ UNCHANGED vars
      BY <1>5, <1>9 DEF Signal, TunLost, RenewDefault, LiftKillSwitch, Finished, vars
<1>10. QED
       BY <1>2, <1>3, <1>4, <1>6, <1>7, <1>8, <1>9 DEF Next, Process, Environment

\* A route that is not the tunnel's is a default, around the tunnel, or the host's.
Tame(r) == r.dst = Default \/ r.dev = "tun" \/ r.dst \subseteq Around \/ r \in host
Taken(h) == \E r \in table : r.dst = h /\ r.metric = 0

AfterLow  == {"splitHigh", "exclude", "extra", "dns", "running"}
AfterHigh == AfterLow \ {"splitHigh"}
WithTun   == {"detect", "ksDel", "ksAdd", "ksRestore", "lookup", "bypass", "splitLow"} \cup AfterLow

\* Once AddSplitDefault has been called, each half has a route nothing goes before.
TunnelInv ==
  /\ IsFiniteSet(table) /\ OneRoutePerMetric(table) /\ \A r \in table : Tame(r)
  /\ pc \in WithTun => tunUp
  /\ cfg.defaultRoute /\ pc \in AfterLow => Taken(LowHalf)
  /\ cfg.defaultRoute /\ pc \in AfterHigh => Taken(HighHalf)

LEMMA TameStep == TypeInv /\ AroundInv /\ TunnelInv /\ [Next]_vars => \A r \in table' : Tame(r)'
<1> SUFFICES ASSUME TypeInv, AroundInv, TunnelInv, [Next]_vars PROVE \A r \in table' : Tame(r)
    BY Fixed DEF Tame
<1>1. \A r \in table : Tame(r)
      BY DEF TunnelInv
<1>2. /\ \A d : Tame(TunRoute(d)) /\ (d \subseteq Around => Tame(Unreachable(d)) /\ Tame(ViaOriginal(d)))
      /\ Tame(BlackholeDefault) /\ Tame(ViaOriginal(Default))
      /\ \A r \in Defaults(host, Device) : Tame(r)
      BY DEF Tame, TunRoute, Unreachable, ViaOriginal, BlackholeDefault, Defaults
<1>3. \A r : Tame(r) => \A q \in Add(table, r) \cup Add(table \ {BlackholeDefault}, r) : Tame(q)
      BY <1>1, AddSubset
<1>4. CASE Removing
      BY <1>1, <1>4, Removals
<1>5. CASE ThroughTun \/ KsAdd \/ KsRestore
      BY <1>1, <1>2, <1>3, <1>5, Additions
<1>6. CASE AddBypass \/ AddExclude
  <2>1. todo # <<>> /\ todo \in Seq(SUBSET Around)
        BY <1>6 DEF AddBypass, AddExclude, AroundInv
  <2>2. Head(todo) \subseteq Around
        BY <2>1
  <2>3. QED
        BY <1>1, <1>2, <1>3, <1>6, <2>2, Additions
<1>7. CASE CleanupDefault
      BY <1>1, <1>2, <1>3, <1>7 DEF CleanupDefault
<1>8. CASE RenewDefault \/ LiftKillSwitch
      BY <1>2, <1>3, <1>8 DEF RenewDefault, LiftKillSwitch
<1>9. CASE Idle
      BY <1>1, <1>9, Unchanging
<1>10. QED
       BY <1>4, <1>5, <1>6, <1>7, <1>8, <1>9, StepKinds

LEMMA FiniteStep == IsFiniteSet(table) /\ [Next]_vars => IsFiniteSet(table')
<1> SUFFICES ASSUME IsFiniteSet(table), [Next]_vars PROVE IsFiniteSet(table')
    OBVIOUS
<1>1. CASE Removing
      BY <1>1, Removals, TablesStayFinite
<1>2. CASE ThroughTun \/ KsAdd \/ KsRestore \/ AddBypass \/ AddExclude
      BY <1>2, Additions, TablesStayFinite
<1>3. IsFiniteSet(table \ {BlackholeDefault})
      BY TablesStayFinite
<1>4. CASE CleanupDefault
      BY <1>3, <1>4, TablesStayFinite DEF CleanupDefault
<1>5. CASE RenewDefault \/ LiftKillSwitch
      BY <1>3, <1>5, TablesStayFinite DEF RenewDefault, LiftKillSwitch
<1>6. CASE Idle
      BY <1>6, Unchanging
<1>7. QED
      BY <1>1, <1>2, <1>4, <1>5, <1>6, StepKinds

\* After `ip route add` of a prefix through an interface that is up, the prefix is taken.
LEMMA AddTakes ==
  ASSUME "add" \notin faults, tunUp, NEW h, AddDevTun(h)
  PROVE  Taken(h)'
<1>1. table' = Add(table, TunRoute(h))
      BY DEF AddDevTun, Outcomes, TunRoute
<1>2. TunRoute(h).dst = h /\ TunRoute(h).metric = 0
      BY DEF TunRoute
<1>3. CASE \E s \in table : s.dst = h /\ s.metric = 0
      BY <1>1, <1>3, AddSubset DEF Taken
<1>4. CASE ~\E s \in table : s.dst = h /\ s.metric = 0
  <2>1. TunRoute(h) \in table'
        BY <1>1, <1>2, <1>4 DEF Add
  <2>2. QED
        BY <1>2, <2>1 DEF Taken
<1>5. QED
      BY <1>3, <1>4

LEMMA TunnelStep ==
  ASSUME {"add", "link"} \cap faults = {}
  PROVE  TypeInv /\ AroundInv /\ TunnelInv /\ [Next]_vars => TunnelInv'
<1> SUFFICES ASSUME TypeInv, AroundInv, TunnelInv, [Next]_vars PROVE TunnelInv'
    OBVIOUS
<1>1. IsFiniteSet(table') /\ OneRoutePerMetric(table)' /\ \A r \in table' : Tame(r)'
      BY FiniteStep, SingleStep, TameStep DEF TunnelInv, OneRoutePerMetric
<1> DEFINE Held == /\ pc' \in WithTun => tunUp'
                   /\ cfg.defaultRoute /\ pc' \in AfterLow => Taken(LowHalf)'
                   /\ cfg.defaultRoute /\ pc' \in AfterHigh => Taken(HighHalf)'
<1>2. ASSUME table \subseteq table', UNCHANGED tunUp, pc' \in WithTun => pc \in WithTun,
             pc' \in AfterLow /\ cfg.defaultRoute => pc \in AfterLow,
             pc' \in AfterHigh /\ cfg.defaultRoute => pc \in AfterHigh
      PROVE  Held
  <2>1. (Taken(LowHalf) => Taken(LowHalf)') /\ (Taken(HighHalf) => Taken(HighHalf)')
        BY <1>2 DEF Taken
  <2>2. QED
        BY <1>2, <2>1 DEF TunnelInv
<1>3. Held
  <2> SUFFICES Held
      OBVIOUS
  <2> HIDE DEF Held
  <2>1. CASE AddSplitLow
    <3>1. Taken(LowHalf)'
          BY <2>1, AddTakes DEF AddSplitLow, TunnelInv, WithTun
    <3>2. tunUp' /\ pc' = "splitHigh"
          BY <2>1 DEF AddSplitLow, TunnelInv, WithTun
    <3>3. QED
          BY <3>1, <3>2 DEF Held, AfterHigh
  <2>2. CASE AddSplitHigh
    <3>1. Taken(HighHalf)'
          BY <2>2, AddTakes DEF AddSplitHigh, TunnelInv, WithTun, AfterLow
    <3>2. table \subseteq table'
      <4>1. ThroughTun
            BY <2>2 DEF ThroughTun
      <4>2. QED
            BY <4>1, Additions, AddSubset
    <3>3. cfg.defaultRoute => Taken(LowHalf)'
          BY <2>2, <3>2 DEF AddSplitHigh, TunnelInv, AfterLow, Taken
    <3>4. tunUp'
          BY <2>2 DEF AddSplitHigh, TunnelInv, WithTun, AfterLow
    <3>5. QED
          BY <3>1, <3>3, <3>4 DEF Held
  <2>3. CASE AddBypass \/ AddExclude \/ AddExtraRoute \/ AddDNSServerRoute
    <3>1. AddExtraRoute \/ AddDNSServerRoute => ThroughTun
          BY DEF ThroughTun
    <3>2. table \subseteq table'
          BY <2>3, <3>1, Additions, AddSubset
    <3>3. UNCHANGED <<tunUp, pc>>
          BY <2>3 DEF AddBypass, AddExclude, AddExtraRoute, AddDNSServerRoute
    <3>4. QED
          BY <1>2, <3>2, <3>3
  <2>4. CASE KsAdd \/ KsRestore
    <3>1. table \subseteq table'
          BY <2>4, Additions, AddSubset
    <3>2. UNCHANGED tunUp /\ pc \in WithTun /\ pc' = "lookup"
          BY <2>4 DEF KsAdd, KsRestore, WithTun
    <3>3. QED
          BY <1>2, <3>1, <3>2 DEF AfterLow, AfterHigh
  <2>5. CASE KsAddFails \/ LookupEndpoint \/ LoopEnds
    <3>1. UNCHANGED <<table, tunUp>>
          BY <2>5 DEF KsAddFails, LookupEndpoint, LoopEnds
    <3>2. /\ pc' \in WithTun => pc \in WithTun
          /\ pc' \in AfterLow => pc \in AfterLow
          /\ pc' \in AfterHigh => pc \in AfterHigh
          BY <2>5 DEF KsAddFails, LookupEndpoint, LoopEnds, After, AddLoops, DelLoops,
             WithTun, AfterLow, AfterHigh
    <3>3. QED
          BY <1>2, <3>1, <3>2
  <2>6. CASE DetectGateway
    <3>1. pc' \in WithTun /\ pc \in WithTun /\ UNCHANGED tunUp
          BY <2>6 DEF DetectGateway, WithTun, AfterLow
    <3>2. cfg.defaultRoute => pc' \notin AfterLow /\ pc' \notin AfterHigh
          BY <2>6 DEF DetectGateway, AfterLow, AfterHigh
    <3>3. QED
          BY <3>1, <3>2 DEF Held, TunnelInv
  <2>7. CASE KsDelete
    <3>1. UNCHANGED tunUp /\ pc \in WithTun /\ pc' = "ksAdd"
          BY <2>7 DEF KsDelete, WithTun
    <3>2. QED
          BY <3>1 DEF Held, TunnelInv, AfterLow, AfterHigh
  <2>8. CASE ConfigureTun
    <3>1. tunUp' /\ pc' = "detect"
          BY <2>8 DEF ConfigureTun
    <3>2. QED
          BY <3>1 DEF Held, AfterLow, AfterHigh
  <2>9. CASE StartWithoutTun \/ CreateTun \/ CtxDone \/ CleanupStarts \/ DelSplitLow \/ DelSplitHigh
             \/ DelRecorded \/ TunDown \/ CleanupDefault \/ CloseTun \/ Crash \/ LiftKillSwitch \/ Restart
    <3>1. pc' \notin WithTun
          BY <2>9 DEF StartWithoutTun, CreateTun, CtxDone, CleanupStarts, DelSplitLow, DelSplitHigh,
             DelRecorded, TunDown, CleanupDefault, CloseTun, Crash, LiftKillSwitch, Restart,
             WithTun, AfterLow, Terminal, DelLoops
    <3>2. QED
          BY <3>1 DEF Held, WithTun, AfterHigh
  <2>10. CASE TunLost
         BY <2>10 DEF TunLost
  <2>11. CASE RenewDefault
    <3>1. table \subseteq table' /\ UNCHANGED <<tunUp, pc>>
          BY <2>11, AddSubset DEF RenewDefault
    <3>2. QED
          BY <1>2, <3>1
  <2>12. CASE Signal \/ Finished \/ UNCHANGED vars
    <3>1. UNCHANGED <<table, tunUp, pc>>
          BY <2>12 DEF Signal, Finished, vars
    <3>2. QED
          BY <1>2, <3>1
  <2>13. QED
         BY <2>1, <2>2, <2>3, <2>4, <2>5, <2>6, <2>7, <2>8, <2>9, <2>10, <2>11, <2>12
         DEF Next, Process, Environment
<1>4. QED
      BY <1>1, <1>3, Fixed DEF TunnelInv

\* An address that is neither allowed around the tunnel nor routed by the host matches a
\* half, whose route of metric 0 is the tunnel's, and nothing but the tunnel goes before it.
LEMMA TunnelTakes ==
  ASSUME HalvesFree PROVE TypeInv /\ TunnelInv => TunnelsEverything
<1> SUFFICES ASSUME TypeInv, TunnelInv, pc = "running", cfg.defaultRoute,
                    NEW a \in Addr \ (Around \cup HostRouted(General))
             PROVE  GoesTo(table, a, {"tun"})
    BY DEF TunnelsEverything, General
<1>1. PICK h \in {LowHalf, HighHalf} : a \in h
      BY DEF HighHalf
<1>2. PICK q \in table : q.dst = h /\ q.metric = 0
      BY DEF TunnelInv, AfterLow, AfterHigh, Taken
<1>3. \A r \in table : r.metric \in Nat
      BY DEF TypeInv, TypeOK, Route
<1>4. PICK r \in table : a \in r.dst /\ \A s \in table : a \in s.dst => ~Beats(s, r)
      BY <1>1, <1>2, <1>3, BestMatch DEF TunnelInv
<1>5. r.dst # Default
  <2>1. h \subseteq Default /\ h # Default
        BY AddrAssumption DEF AddrAssumption, Default, HighHalf
  <2>2. QED
        BY <1>1, <1>2, <1>4, <2>1 DEF Beats
<1>6. r.dst \in {LowHalf, HighHalf} => r = q
  <2> SUFFICES ASSUME r.dst \in {LowHalf, HighHalf} PROVE r = q
      OBVIOUS
  <2>1. r.dst = h
        BY <1>1, <1>4 DEF HighHalf
  <2>2. r.metric = 0
        BY <1>1, <1>2, <1>3, <1>4, <2>1 DEF Beats
  <2>3. QED
        BY <1>2, <2>1, <2>2 DEF TunnelInv, OneRoutePerMetric
<1>7. ~(r.dst \subseteq Around)
      BY <1>4
<1>8. r \notin host
  <2>1. ASSUME r \in host, r.dst \notin General PROVE FALSE
        BY <1>4, <2>1 DEF HostRouted
  <2>2. ASSUME r \in host, r.dst \in {LowHalf, HighHalf} PROVE FALSE
        BY <1>2, <1>6, <2>2 DEF HalvesFree, TypeInv, TypeOK
  <2>3. QED
        BY <1>5, <2>1, <2>2 DEF General
<1>9. r.dev = "tun"
      BY <1>5, <1>7, <1>8 DEF TunnelInv, Tame
<1>10. QED
       BY <1>4, <1>9 DEF GoesTo

\* On a host with no /1 of metric 0, where the interface stays up and `ip route add` does
\* what it is asked (the condition of the property), every address nobody routes more specifically goes into the tunnel of a
\* running default-route session: whatever its lists name, whatever earlier sessions that
\* crashed have left, and whichever kill switch stands (routes.go:11, routes_linux.go:59).
THEOREM TunnelTakesAll == ASSUME HalvesFree PROVE Spec => []TunnelsEverything
<1> DEFINE Works == faults \cap {"add", "link"} = {}
<1>0. [Next]_vars => (Works' => Works)
      BY Fixed
<1>1. Init => AroundInv /\ TunnelInv
  <2> SUFFICES ASSUME Init PROVE AroundInv /\ TunnelInv
      OBVIOUS
  <2>1. IsFiniteSet(table) /\ OneRoutePerMetric(table) /\ \A r \in table : Tame(r)
        BY HostTablesAssumption DEF Init, HostTablesAssumption, OneRoutePerMetric, Tame
  <2>2. pc = "start"
        BY DEF Init
  <2>3. QED
        BY <2>1, <2>2 DEF AroundInv, TunnelInv, WithTun, AfterLow, AfterHigh
<1>2. AroundInv /\ TypeInv /\ [Next]_vars => AroundInv'
      BY AroundStep
<1>3. TypeInv /\ AroundInv /\ (Works => TunnelInv) /\ [Next]_vars => (Works' => TunnelInv')
      BY <1>0, TunnelStep
<1>4. TypeInv /\ (Works => TunnelInv) => TunnelsEverything
  <2>1. Works \/ TunnelsEverything
        BY DEF TunnelsEverything
  <2>2. QED
        BY <2>1, TunnelTakes
<1> HIDE DEF Works
<1>5. QED
      BY <1>1, <1>2, <1>3, <1>4, TypeInit, TypeStep, PTL DEF Spec

(***************************************************************************)
(* A kill switch that cannot be installed leaves the host its default.     *)
(***************************************************************************)
\* The default routes of the hosts go to devices.
DefaultsGoOut == \A t \in HostTables : \A r \in t : r.dst = Default => r.dev \in Device

AfterSwitch == {"lookup", "bypass", "splitLow"} \cup AfterLow

\* A default is the host's, the blackhole or the one put back, and once AddKillSwitchRoute
\* has returned without the blackhole there is one.
Connected ==
  /\ \A r \in table : r.dst = Default => r.dev \in Device \cup {"blackhole"}
  /\ orig.gw # "none" => orig.dev # "none"
  /\ pc \in AfterSwitch /\ rm.ks /\ ~rm.ksAdded /\ orig.gw # "none" => \E r \in table : r.dst = Default

LEMMA DefaultsStep ==
  TypeInv /\ SealInv /\ Connected /\ [Next]_vars =>
    \A r \in table' : r.dst = Default => r.dev \in Device \cup {"blackhole"}
<1> SUFFICES ASSUME TypeInv, SealInv, Connected, [Next]_vars
             PROVE  \A r \in table' : r.dst = Default => r.dev \in Device \cup {"blackhole"}
    OBVIOUS
<1> DEFINE Fine(r) == r.dst = Default => r.dev \in Device \cup {"blackhole"}
<1>1. \A r \in table : Fine(r)
      BY DEF Connected
<1>2. \A d \in Specific : Fine(TunRoute(d)) /\ Fine(Unreachable(d)) /\ Fine(ViaOriginal(d))
      BY DEF TunRoute, Unreachable, ViaOriginal, Specific
<1>3. /\ Fine(BlackholeDefault) /\ (orig.dev # "none" => Fine(ViaOriginal(Default)))
      /\ \A r \in Defaults(host, Device) : Fine(r)
      BY DEF ViaOriginal, BlackholeDefault, Defaults, TypeInv, TypeOK
<1>4. \A r : Fine(r) => \A q \in Add(table, r) \cup Add(table \ {BlackholeDefault}, r) : Fine(q)
      BY <1>1, AddSubset
<1>5. ASSUME todo # <<>> PROVE Head(todo) \in Specific
      BY <1>5 DEF SealInv
<1> HIDE DEF Fine
<1>6. \A q \in table' : Fine(q)
  <2>1. CASE Removing
        BY <1>1, <2>1, Removals
  <2>2. CASE ThroughTun
    <3>1. \E d \in Specific : table' \in {table, Add(table, TunRoute(d))}
          BY <1>5, <2>2, SpecificPrefixes
          DEF ThroughTun, AddSplitLow, AddSplitHigh, AddExtraRoute, AddDNSServerRoute, AddDevTun,
              Outcomes, TunRoute
    <3>2. QED
          BY <1>1, <1>2, <1>4, <3>1
  <2>3. CASE KsAdd \/ KsRestore
        BY <1>1, <1>3, <1>4, <2>3, Additions
  <2>4. CASE AddBypass \/ AddExclude
    <3>1. todo # <<>>
          BY <2>4 DEF AddBypass, AddExclude
    <3>2. QED
          BY <1>1, <1>2, <1>4, <1>5, <2>4, <3>1, Additions
  <2>5. CASE CleanupDefault
        BY <1>1, <1>3, <1>4, <2>5 DEF CleanupDefault
  <2>6. CASE RenewDefault \/ LiftKillSwitch
        BY <1>3, <1>4, <2>6 DEF RenewDefault, LiftKillSwitch
  <2>7. CASE Idle
        BY <1>1, <2>7, Unchanging
  <2>8. QED
        BY <2>1, <2>2, <2>3, <2>4, <2>5, <2>6, <2>7, StepKinds
<1>7. QED
      BY <1>6 DEF Fine

LEMMA ConnectedStep ==
  ASSUME "add" \notin faults
  PROVE  TypeInv /\ SealInv /\ Connected /\ [Next]_vars => Connected'
<1> SUFFICES ASSUME TypeInv, SealInv, Connected, [Next]_vars PROVE Connected'
    OBVIOUS
<1>0. rm \in RouteManager
      BY DEF TypeInv, TypeOK
<1>1. \A r \in table' : r.dst = Default => r.dev \in Device \cup {"blackhole"}
      BY DefaultsStep
<1>2. ASSUME NEW t, table \cap {r \in table : r.dst = Default} \subseteq t,
             pc \in AfterSwitch, rm.ks, ~rm.ksAdded, orig.gw # "none"
      PROVE  \E r \in t : r.dst = Default
      BY <1>2 DEF Connected
<1> DEFINE Held == /\ orig'.gw # "none" => orig'.dev # "none"
                   /\ pc' \in AfterSwitch /\ rm'.ks /\ ~rm'.ksAdded /\ orig'.gw # "none" =>
                        \E r \in table' : r.dst = Default
<1>3. ASSUME UNCHANGED orig, pc' \notin AfterSwitch \/ rm'.ksAdded \/ ~rm'.ks PROVE Held
      BY <1>3 DEF Connected
<1>4. ASSUME UNCHANGED orig, pc' \in AfterSwitch => pc \in AfterSwitch,
             rm'.ks = rm.ks, rm'.ksAdded = rm.ksAdded,
             \A r \in table : r.dst = Default => r \in table'
      PROVE  Held
      BY <1>2, <1>4 DEF Connected
<1>5. Held
  <2> SUFFICES Held
      OBVIOUS
  <2> HIDE DEF Held
  <2>1. CASE DetectGateway
    <3>1. orig'.gw # "none" => orig'.dev # "none"
      <4>1. \/ orig' = [gw |-> "none", dev |-> "none"]
            \/ \E r \in Defaults(table, Device) : orig' = [gw |-> r.gw, dev |-> r.dev]
            BY <2>1 DEF DetectGateway
      <4>2. \A r \in Defaults(table, Device) : r.dev # "none"
            BY DeviceAssumption DEF DeviceAssumption, Defaults
      <4>3. QED
            BY <4>1, <4>2
    <3>2. ~rm'.ks
          BY <2>1 DEF DetectGateway, NewRouteManager
    <3>3. QED
          BY <3>1, <3>2 DEF Held
  <2>2. CASE KsDelete \/ KsAddFails
        BY <1>3, <2>2 DEF KsDelete, KsAddFails, AfterSwitch, AfterLow
  <2>3. CASE KsAdd
    <3>1. rm'.ksAdded /\ UNCHANGED orig
          BY <1>0, <2>3 DEF KsAdd, RouteManager
    <3>2. QED
          BY <1>3, <3>1
  <2>4. CASE KsRestore
    <3>1. UNCHANGED orig
          BY <2>4 DEF KsRestore
    <3>2. ASSUME orig.gw # "none" PROVE \E r \in table' : r.dst = Default
      <4>1. table' = Add(table, ViaOriginal(Default))
            BY <2>4, <3>2 DEF KsRestore, Outcomes, Connected
      <4>2. ViaOriginal(Default).dst = Default
            BY DEF ViaOriginal
      <4>3. CASE \E s \in table : s.dst = Default /\ s.metric = ViaOriginal(Default).metric
            BY <4>1, <4>3, AddSubset
      <4>4. CASE ~\E s \in table : s.dst = Default /\ s.metric = ViaOriginal(Default).metric
            BY <4>1, <4>2, <4>4 DEF Add
      <4>5. QED
            BY <4>3, <4>4
    <3>3. QED
          BY <3>1, <3>2 DEF Held, Connected
  <2>5. CASE LookupEndpoint \/ LoopEnds
        BY <1>4, <2>5 DEF LookupEndpoint, LoopEnds, After, AddLoops, DelLoops, AfterSwitch, AfterLow
  <2>6. CASE AddBypass \/ AddExclude \/ AddSplitLow \/ AddSplitHigh \/ AddExtraRoute \/ AddDNSServerRoute
    <3>1. ~AddBypass /\ ~AddExclude => ThroughTun
          BY <2>6 DEF ThroughTun
    <3>2. table \subseteq table'
          BY <2>6, <3>1, Additions, AddSubset
    <3>3. rm'.ks = rm.ks /\ rm'.ksAdded = rm.ksAdded
          BY <1>0, <2>6
          DEF RouteManager, AddBypass, AddExclude, AddSplitLow, AddSplitHigh, AddExtraRoute,
              AddDNSServerRoute
    <3>4. UNCHANGED orig /\ pc \in AfterSwitch
          BY <2>6
          DEF AfterSwitch, AfterLow, AddBypass, AddExclude, AddSplitLow, AddSplitHigh, AddExtraRoute,
              AddDNSServerRoute
    <3>5. QED
          BY <1>4, <3>2, <3>3, <3>4
  <2>7. CASE StartWithoutTun \/ CreateTun \/ ConfigureTun \/ CtxDone \/ CleanupStarts \/ DelSplitLow
             \/ DelSplitHigh \/ DelRecorded \/ TunDown \/ CleanupDefault \/ CloseTun \/ Crash
             \/ LiftKillSwitch \/ Restart
    <3>1. UNCHANGED orig /\ pc' \notin AfterSwitch
          BY <2>7
          DEF StartWithoutTun, CreateTun, ConfigureTun, CtxDone, CleanupStarts, DelSplitLow,
              DelSplitHigh, DelRecorded, TunDown, CleanupDefault, CloseTun, Crash, LiftKillSwitch,
              Restart, AfterSwitch, AfterLow, Terminal, DelLoops
    <3>2. QED
          BY <1>3, <3>1
  <2>8. CASE TunLost
    <3>1. \A r \in table : r.dst = Default => r \in Flush(table, "tun")
          BY DeviceAssumption DEF DeviceAssumption, Connected, Flush
    <3>2. QED
          BY <1>4, <2>8, <3>1 DEF TunLost
  <2>9. CASE RenewDefault
        BY <1>4, <2>9, AddSubset DEF RenewDefault
  <2>10. CASE Signal \/ Finished \/ UNCHANGED vars
         BY <1>4, <2>10 DEF Signal, Finished, vars
  <2>11. QED
         BY <2>1, <2>2, <2>3, <2>4, <2>5, <2>6, <2>7, <2>8, <2>9, <2>10
         DEF Next, Process, Environment
<1>6. QED
      BY <1>1, <1>5 DEF Connected

\* On hosts whose default routes go to devices, with command lines that do not name
\* 0.0.0.0/0 and an `ip route add` that does what it is asked (a condition of the property,
\* as is that no earlier session's blackhole stands), a session whose blackhole was refused
\* leaves a default that goes out, if the one it removed had a gateway: through every crash,
\* restart, lost interface and lease renewal (routes_linux.go:83-86).
THEOREM ConnectivityHolds ==
  ASSUME ListsOmitDefault, DefaultsGoOut
  PROVE  Spec => []ConnectivityKept
<1> DEFINE Works == "add" \notin faults
<1>0. [Next]_vars => (Works' => Works)
      BY Fixed
<1>1. Init => Connected
  <2> SUFFICES ASSUME Init PROVE Connected
      OBVIOUS
  <2>1. \A r \in table : r.dst = Default => r.dev \in Device \cup {"blackhole"}
        BY DEF Init, DefaultsGoOut
  <2>2. pc = "start" /\ orig.gw = "none"
        BY DEF Init
  <2>3. QED
        BY <2>1, <2>2 DEF Connected, AfterSwitch, AfterLow
<1>2. TypeInv /\ SealInv /\ (Works => Connected) /\ [Next]_vars => (Works' => Connected')
      BY <1>0, ConnectedStep
<1>3. TypeInv /\ (Works => Connected) => ConnectivityKept
  <2> SUFFICES ASSUME TypeInv, Connected, pc = "running", rm.ks, ~rm.ksAdded, orig.gw # "none",
                      Defaults(table, {"blackhole"}) = {}
               PROVE  Defaults(table, Device) # {}
      BY DEF ConnectivityKept
  <2>1. PICK r \in table : r.dst = Default
        BY DEF Connected, AfterSwitch, AfterLow
  <2>2. r.dev \in Device \cup {"blackhole"}
        BY <2>1 DEF Connected
  <2>3. QED
        BY <2>1, <2>2 DEF Defaults
<1> HIDE DEF Works
<1>4. QED
      BY <1>1, <1>2, <1>3, TypeInit, TypeStep, SealInit, SealStep, PTL DEF Spec

(***************************************************************************)
(* A clean exit restores the host's table.                                 *)
(***************************************************************************)
Elements(s) == {s[i] : i \in DOMAIN s}
Endpoints   == Elements(Answer["api"]) \cup Elements(Answer["connect"])
Names(c)    == Elements(c.excludes) \cup Elements(c.extras) \cup Elements(c.dns)
Asked       == Endpoints \cup UNION {Names(c) : c \in Configs}

\* No host routes by itself a prefix the client may be asked to route.
NoClash == \A t \in HostTables : \A r \in t : r.dst \notin Asked \cup {LowHalf, HighHalf}

\* The resolver is reached through a device, and not by way of a default route or around a
\* prefix that a session under the kill switch may make unreachable.
Answered ==
  \A c \in Configs, t \in HostTables :
    c.defaultRoute /\ Defaults(t, Device) # {} =>
      /\ \E q \in t : /\ Resolver \in q.dst /\ q.dev \in Device
                      /\ \A s \in t : Resolver \in s.dst => ~Beats(s, q)
                      /\ c.killSwitch => q.dst # Default
      /\ c.killSwitch => \A d \in Elements(c.excludes) : Resolver \notin d

Seals      == cfg.defaultRoute /\ cfg.killSwitch
Defaulted  == Defaults(host, Device) # {}
Switch     == {"ksDel", "ksAdd", "ksRestore"}
Past       == Label \ {"start", "socksOnly", "configure", "detect", "failed", "crashed"}
Circling    == {"lookup", "bypass", "splitLow", "splitHigh", "exclude"}
Untunneled == {"start", "socksOnly", "configure", "detect", "lookup", "bypass", "splitLow"}
                \cup Switch \cup Terminal

\* A route around the tunnel that a session adds, and that a crashed one leaves.
Left(r) ==
  /\ cfg.tun /\ cfg.defaultRoute /\ r.metric = 0
  /\ \/ r.dst \in Endpoints \cup Elements(cfg.excludes) /\ r.dev \in Device /\ Defaulted
     \/ r.dst \in Elements(cfg.excludes) /\ r.dev = "unreachable" /\ (Seals \/ ~Defaulted)

\* The default AddKillSwitchRoute puts back: the one the next session finds.
PutBack(r) ==
  /\ Seals /\ Defaulted /\ cfg.tun
  /\ r.dst = Default /\ r.metric = 0 /\ r.gw # "none" /\ r.dev \in Device
  /\ pc \in Past /\ orig.dev # "none" => r = ViaOriginal(Default)

Accounted(r) ==
  r \in host \/ r.dev = "tun" \/ (Seals /\ r = BlackholeDefault) \/ PutBack(r) \/ Left(r)

\* The prefixes that the rest of the session deletes.
ToLookUp == (UNION {Elements(Answer[h]) : h \in Elements(hosts)}) \cup Elements(cfg.excludes)
Recorded == Elements(rm.bypass) \cup Elements(rm.exclude)
Pending ==
  CASE pc \in Switch -> Endpoints \cup Elements(cfg.excludes)
    [] pc = "lookup" -> Recorded \cup ToLookUp
    [] pc = "bypass" -> Recorded \cup ToLookUp \cup Elements(todo)
    [] pc \in {"splitLow", "splitHigh"} -> Recorded \cup Elements(cfg.excludes)
    [] pc = "exclude" -> Recorded \cup Elements(todo)
    [] pc \in {"extra", "dns", "running", "cleanup", "delLow", "delHigh"} -> Recorded
    [] pc = "delBypass" -> Elements(rm.exclude) \cup Elements(todo)
    [] pc = "delExclude" -> Elements(todo)
    [] OTHER -> {}

HostKept == \A q \in host : q \in table \/ (Seals /\ q.dst = Default)
WillGo   == pc \in Past /\ (orig.dev # "none" \/ ~Defaulted) => \A r \in table : Left(r) => r.dst \in Pending
Found    == /\ orig.dev # "none" => Defaulted
            /\ orig.gw # "none" => orig.dev # "none"
            /\ ~Seals /\ cfg.tun /\ pc \in Past /\ Defaulted => orig.dev # "none"
NoTun    == pc \in Untunneled => \A r \in table : r.dev # "tun"
Course   == /\ pc \in Switch => Seals /\ hosts = <<"api", "connect">>
            /\ pc \in Circling => cfg.defaultRoute
            /\ pc \notin {"start", "socksOnly"} \cup Terminal => cfg.tun
            /\ pc = "socksOnly" => ~cfg.tun
            /\ rm.ksAdded => rm.ks
Listed   == /\ rm.bypass \in Seq(Asked) /\ rm.exclude \in Seq(Asked)
            /\ rm.extra \in Seq(Asked) /\ rm.dnsTun \in Seq(Asked) /\ todo \in Seq(Asked)
            /\ pc = "bypass" => todo \in Seq(Endpoints)
            /\ pc = "exclude" => todo \in Seq(Elements(cfg.excludes))

Account ==
  /\ HostKept /\ (\A r \in table : Accounted(r)) /\ WillGo
  /\ Found /\ NoTun /\ Course /\ Listed
  /\ IsFiniteSet(table) /\ OneRoutePerMetric(table)

LEMMA ElementsOf ==
  /\ Elements(<<>>) = {} /\ Elements(<<"api", "connect">>) = {"api", "connect"}
  /\ \A S : \A s \in Seq(S) :
       /\ s \in Seq(Elements(s))
       /\ \A T : Elements(s) \subseteq T => s \in Seq(T)
       /\ \A x \in S : Elements(Append(s, x)) = Elements(s) \cup {x}
       /\ s # <<>> => Elements(s) = {Head(s)} \cup Elements(Tail(s))
<1>1. Elements(<<>>) = {} /\ Elements(<<"api", "connect">>) = {"api", "connect"}
  <2>1. DOMAIN <<"api", "connect">> = 1..2
        OBVIOUS
  <2>2. QED
        BY <2>1 DEF Elements
<1>2. ASSUME NEW S, NEW s \in Seq(S)
      PROVE  /\ s \in Seq(Elements(s))
             /\ \A T : Elements(s) \subseteq T => s \in Seq(T)
  <2>1. \A i \in DOMAIN s : s[i] \in Elements(s)
        BY DEF Elements
  <2>2. QED
        BY <2>1, SeqOf
<1>3. ASSUME NEW S, NEW s \in Seq(S), NEW x \in S
      PROVE  Elements(Append(s, x)) = Elements(s) \cup {x}
  <2>1. /\ DOMAIN Append(s, x) = 1..Len(s) + 1 /\ DOMAIN s = 1..Len(s) /\ Len(s) \in Nat
        /\ Append(s, x)[Len(s) + 1] = x /\ \A i \in 1..Len(s) : Append(s, x)[i] = s[i]
        OBVIOUS
  <2>2. 1..Len(s) + 1 = 1..Len(s) \cup {Len(s) + 1}
        BY <2>1
  <2>3. ASSUME NEW e \in Elements(Append(s, x)) PROVE e \in Elements(s) \cup {x}
    <3>1. PICK i \in DOMAIN Append(s, x) : e = Append(s, x)[i]
          BY <2>3 DEF Elements
    <3>2. i \in 1..Len(s) \/ i = Len(s) + 1
          BY <2>1, <2>2, <3>1
    <3>3. i \in 1..Len(s) => e = s[i]
          BY <2>1, <3>1
    <3>4. QED
          BY <2>1, <3>1, <3>2, <3>3 DEF Elements
  <2>4. ASSUME NEW e \in Elements(s) \cup {x} PROVE e \in Elements(Append(s, x))
    <3>1. x = Append(s, x)[Len(s) + 1] /\ Len(s) + 1 \in DOMAIN Append(s, x)
          BY <2>1, <2>2
    <3>2. \A i \in 1..Len(s) : i \in DOMAIN Append(s, x) /\ s[i] = Append(s, x)[i]
          BY <2>1, <2>2
    <3>3. QED
          BY <2>1, <2>4, <3>1, <3>2 DEF Elements
  <2>5. QED
        BY <2>3, <2>4
<1>4. ASSUME NEW S, NEW s \in Seq(S), s # <<>>
      PROVE  Elements(s) = {Head(s)} \cup Elements(Tail(s))
  <2>1. /\ DOMAIN s = 1..Len(s) /\ Len(s) \in Nat \ {0} /\ Head(s) = s[1]
        /\ DOMAIN Tail(s) = 1..Len(s) - 1 /\ \A i \in 1..Len(s) - 1 : Tail(s)[i] = s[i + 1]
        BY <1>4
  <2>2. \A i \in 1..Len(s) : i = 1 \/ (i - 1 \in 1..Len(s) - 1 /\ s[i] = Tail(s)[i - 1])
        BY <2>1
  <2>3. \A i \in 1..Len(s) - 1 : i + 1 \in 1..Len(s)
        BY <2>1
  <2>4. ASSUME NEW e \in Elements(s) PROVE e \in {Head(s)} \cup Elements(Tail(s))
    <3>1. PICK i \in 1..Len(s) : e = s[i]
          BY <2>1, <2>4 DEF Elements
    <3>2. QED
          BY <2>1, <2>2, <3>1 DEF Elements
  <2>5. ASSUME NEW e \in {Head(s)} \cup Elements(Tail(s)) PROVE e \in Elements(s)
    <3>1. CASE e = Head(s)
          BY <2>1, <3>1 DEF Elements
    <3>2. CASE e \in Elements(Tail(s))
      <4>1. PICK i \in 1..Len(s) - 1 : e = Tail(s)[i]
            BY <2>1, <3>2 DEF Elements
      <4>2. QED
            BY <2>1, <2>3, <4>1 DEF Elements
    <3>3. QED
          BY <2>5, <3>1, <3>2
  <2>6. QED
        BY <2>4, <2>5
<1>5. QED
      BY <1>1, <1>2, <1>3, <1>4

\* What the lists of a command line and the answers of the resolver are made of.
LEMMA AskedLists ==
  /\ Endpoints \subseteq Asked
  /\ \A h \in {"api", "connect"} : Answer[h] \in Seq(Endpoints) /\ Elements(Answer[h]) \subseteq Endpoints
  /\ Endpoints = Elements(Answer["api"]) \cup Elements(Answer["connect"])
  /\ cfg \in Configs =>
       /\ cfg.excludes \in Seq(Asked) /\ cfg.extras \in Seq(Asked) /\ cfg.dns \in Seq(Asked)
       /\ cfg.excludes \in Seq(Elements(cfg.excludes)) /\ Elements(cfg.excludes) \subseteq Asked
<1>1. Endpoints \subseteq Asked /\ Endpoints = Elements(Answer["api"]) \cup Elements(Answer["connect"])
      BY DEF Asked, Endpoints
<1>2. \A h \in {"api", "connect"} : Elements(Answer[h]) \subseteq Endpoints
      BY DEF Endpoints
<1>3. \A h \in {"api", "connect"} : Answer[h] \in Seq(Endpoints)
      BY <1>2, ElementsOf, InputTypes
<1>4. ASSUME cfg \in Configs
      PROVE  /\ cfg.excludes \in Seq(Asked) /\ cfg.extras \in Seq(Asked) /\ cfg.dns \in Seq(Asked)
             /\ cfg.excludes \in Seq(Elements(cfg.excludes)) /\ Elements(cfg.excludes) \subseteq Asked
  <2>1. Names(cfg) \subseteq Asked
        BY <1>4 DEF Asked
  <2>2. /\ Elements(cfg.excludes) \subseteq Asked /\ Elements(cfg.extras) \subseteq Asked
        /\ Elements(cfg.dns) \subseteq Asked
        BY <2>1 DEF Names
  <2>3. QED
        BY <1>4, <2>2, ElementsOf, InputTypes
<1>5. QED
      BY <1>1, <1>2, <1>3, <1>4

\* What is said of a session's command line and of the host stays so.
LEMMA StillSo ==
  [Next]_vars => /\ cfg' = cfg /\ host' = host /\ Seals' = Seals /\ Defaulted' = Defaulted
                 /\ \A r : Left(r)' = Left(r)
<1> SUFFICES ASSUME [Next]_vars
             PROVE  /\ cfg' = cfg /\ host' = host /\ Seals' = Seals /\ Defaulted' = Defaulted
                    /\ \A r : Left(r)' = Left(r)
    OBVIOUS
<1>1. cfg' = cfg /\ host' = host
      BY Fixed
<1>2. Seals' = Seals /\ Defaulted' = Defaulted
      BY <1>1 DEF Seals, Defaulted
<1>3. QED
      BY <1>1, <1>2 DEF Left

LEMMA CourseStep == TypeInv /\ Course /\ [Next]_vars => Course'
<1> SUFFICES ASSUME TypeInv, Course, [Next]_vars PROVE Course'
    OBVIOUS
<1>0. UNCHANGED <<cfg, Seals>> /\ rm \in RouteManager
      BY StillSo DEF TypeInv, TypeOK
<1> USE DEF Course, Switch, Circling, Terminal
<1>1. CASE StartWithoutTun \/ CreateTun \/ ConfigureTun \/ CtxDone
      BY <1>0, <1>1 DEF StartWithoutTun, CreateTun, ConfigureTun, CtxDone
<1>2. CASE DetectGateway
      BY <1>0, <1>2 DEF DetectGateway, Seals, NewRouteManager
<1>3. CASE KsDelete
  <2>1. rm'.ks
        BY <1>0, <1>3 DEF KsDelete, RouteManager
  <2>2. QED
        BY <1>0, <1>3, <2>1 DEF KsDelete
<1>4. CASE KsAdd
  <2>1. rm'.ks
        BY <1>0, <1>4 DEF KsAdd, RouteManager, TypeInv
  <2>2. QED
        BY <1>0, <1>4, <2>1 DEF KsAdd, Seals
<1>5. CASE KsAddFails \/ KsRestore
      BY <1>0, <1>5 DEF KsAddFails, KsRestore, Seals
<1>6. CASE LookupEndpoint \/ LoopEnds
      BY <1>0, <1>6 DEF LookupEndpoint, LoopEnds, After, AddLoops, DelLoops
<1>7. CASE AddBypass \/ AddExclude \/ AddExtraRoute \/ AddDNSServerRoute \/ AddSplitLow \/ AddSplitHigh
  <2>1. rm'.ks = rm.ks /\ rm'.ksAdded = rm.ksAdded
        BY <1>0, <1>7 DEF RouteManager, AddBypass, AddExclude, AddExtraRoute, AddDNSServerRoute,
           AddSplitLow, AddSplitHigh
  <2>2. QED
        BY <1>0, <1>7, <2>1 DEF AddBypass, AddExclude, AddExtraRoute, AddDNSServerRoute,
           AddSplitLow, AddSplitHigh
<1>8. CASE CleanupStarts \/ DelSplitLow \/ DelSplitHigh \/ DelRecorded \/ TunDown \/ CleanupDefault
      BY <1>0, <1>8 DEF CleanupStarts, DelSplitLow, DelSplitHigh, DelRecorded, TunDown, CleanupDefault,
         DelLoops
<1>9. CASE CloseTun \/ Crash \/ Restart
      BY <1>0, <1>9 DEF CloseTun, Crash, Restart
<1>10. CASE Signal \/ TunLost \/ RenewDefault \/ LiftKillSwitch \/ Finished \/ UNCHANGED vars
       BY <1>0, <1>10 DEF Signal, TunLost, RenewDefault, LiftKillSwitch, Finished, vars
<1>11. QED
       BY <1>1, <1>2, <1>3, <1>4, <1>5, <1>6, <1>7, <1>8, <1>9, <1>10 DEF Next, Process, Environment

LEMMA RecordAsked ==
  ASSUME NEW S, rm.bypass \in Seq(S), rm.exclude \in Seq(S), rm.extra \in Seq(S), rm.dnsTun \in Seq(S),
         NEW p \in S, rm \in RouteManager,
         \/ rm' = [rm EXCEPT !.bypass = Append(@, p)]
         \/ rm' = [rm EXCEPT !.exclude = Append(@, p)]
         \/ rm' = [rm EXCEPT !.extra = Append(@, p)]
         \/ rm' = [rm EXCEPT !.dnsTun = Append(@, p)]
  PROVE  rm'.bypass \in Seq(S) /\ rm'.exclude \in Seq(S) /\ rm'.extra \in Seq(S) /\ rm'.dnsTun \in Seq(S)
<1>1. \A q \in Seq(S) : Append(q, p) \in Seq(S)
  OBVIOUS
<1>2. QED
  BY <1>1 DEF RouteManager

LEMMA ListedStep == TypeInv /\ Listed /\ [Next]_vars => Listed'
<1> SUFFICES ASSUME TypeInv, Listed, [Next]_vars PROVE Listed'
    OBVIOUS
<1>0. /\ cfg' = cfg /\ rm \in RouteManager
      /\ cfg.excludes \in Seq(Asked) /\ cfg.extras \in Seq(Asked) /\ cfg.dns \in Seq(Asked)
      /\ cfg.excludes \in Seq(Elements(cfg.excludes))
      /\ \A S : <<>> \in Seq(S)
      BY StillSo, AskedLists, Records DEF TypeInv, TypeOK
<1> DEFINE Kept == rm'.bypass \in Seq(Asked) /\ rm'.exclude \in Seq(Asked)
                     /\ rm'.extra \in Seq(Asked) /\ rm'.dnsTun \in Seq(Asked)
           ToDo == /\ todo' \in Seq(Asked)
                   /\ pc' = "bypass" => todo' \in Seq(Endpoints)
                   /\ pc' = "exclude" => todo' \in Seq(Elements(cfg'.excludes))
<1>1. Kept
  <2>1. CASE DetectGateway
        BY <1>0, <2>1 DEF DetectGateway, NewRouteManager
  <2>2. CASE KsDelete \/ KsAdd \/ AddSplitHigh
        BY <1>0, <2>2 DEF KsDelete, KsAdd, AddSplitHigh, RouteManager, Listed
  <2>3. CASE AddBypass \/ AddExclude \/ AddExtraRoute \/ AddDNSServerRoute
    <3>1. Head(todo) \in Asked
          BY <2>3 DEF AddBypass, AddExclude, AddExtraRoute, AddDNSServerRoute, Listed
    <3>2. QED
          BY <1>0, <2>3, <3>1, RecordAsked
          DEF AddBypass, AddExclude, AddExtraRoute, AddDNSServerRoute, Listed
  <2>4. CASE UNCHANGED rm
        BY <2>4 DEF Listed
  <2>5. QED
        BY <2>1, <2>2, <2>3, <2>4 DEF Next, Process, Environment, StartWithoutTun, CreateTun, ConfigureTun,
           KsAddFails, KsRestore, LookupEndpoint, AddSplitLow, LoopEnds, CtxDone, CleanupStarts,
           DelSplitLow, DelSplitHigh, DelRecorded, TunDown, CleanupDefault, CloseTun, Signal, Crash,
           TunLost, RenewDefault, LiftKillSwitch, Restart, Finished, vars
<1>2. ToDo
  <2> SUFFICES ToDo
      OBVIOUS
  <2>1. CASE DetectGateway
        BY <1>0, <2>1 DEF DetectGateway
  <2>2. CASE LookupEndpoint
    <3>1. Head(hosts) \in {"api", "connect"}
          BY <2>2 DEF LookupEndpoint, TypeInv, TypeOK
    <3>2. todo' \in Seq(Endpoints) /\ pc' = "bypass"
          BY <1>0, <2>2, <3>1, AskedLists DEF LookupEndpoint
    <3>3. Seq(Endpoints) \subseteq Seq(Asked)
          BY AskedLists, SeqMonotone
    <3>4. QED
          BY <3>2, <3>3
  <2>3. CASE AddBypass \/ AddExclude \/ AddExtraRoute \/ AddDNSServerRoute \/ DelRecorded
    <3>1. /\ todo # <<>> /\ todo' = Tail(todo) /\ UNCHANGED pc
          BY <2>3 DEF AddBypass, AddExclude, AddExtraRoute, AddDNSServerRoute, DelRecorded
    <3>2. QED
          BY <1>0, <3>1 DEF Listed
  <2>4. CASE AddSplitHigh
        BY <1>0, <2>4 DEF AddSplitHigh
  <2>5. CASE LoopEnds
    <3>1. pc' \notin {"bypass", "exclude"}
          BY <2>5 DEF LoopEnds, After, AddLoops, DelLoops
    <3>2. todo' \in Seq(Asked)
          BY <1>0, <2>5 DEF LoopEnds, LoopOver, Listed
    <3>3. QED
          BY <3>1, <3>2
  <2>6. CASE CleanupStarts \/ DelSplitHigh \/ Crash \/ Restart
        BY <1>0, <2>6 DEF CleanupStarts, DelSplitHigh, Crash, Restart, Listed
  <2>7. CASE StartWithoutTun \/ CreateTun \/ ConfigureTun \/ KsDelete \/ KsAdd \/ KsAddFails \/ KsRestore
             \/ AddSplitLow \/ CtxDone \/ DelSplitLow \/ TunDown \/ CleanupDefault \/ CloseTun
    <3>1. UNCHANGED todo /\ pc' \notin {"bypass", "exclude"}
          BY <2>7 DEF StartWithoutTun, CreateTun, ConfigureTun, KsDelete, KsAdd, KsAddFails, KsRestore,
             AddSplitLow, CtxDone, DelSplitLow, TunDown, CleanupDefault, CloseTun
    <3>2. QED
          BY <3>1 DEF Listed
  <2>8. CASE Signal \/ TunLost \/ RenewDefault \/ LiftKillSwitch \/ Finished \/ UNCHANGED vars
    <3>1. UNCHANGED <<todo, pc>>
          BY <2>8 DEF Signal, TunLost, RenewDefault, LiftKillSwitch, Finished, vars
    <3>2. QED
          BY <1>0, <3>1 DEF Listed
  <2>9. QED
        BY <2>1, <2>2, <2>3, <2>4, <2>5, <2>6, <2>7, <2>8 DEF Next, Process, Environment
<1>3. QED
      BY <1>1, <1>2 DEF Listed

\* No step takes a route of the host away, but for the default where it is to be sealed.
LEMMA HostKeptStep ==
  ASSUME DefaultsGoOut, NoClash
  PROVE  TypeInv /\ Account /\ [Next]_vars => HostKept'
<1> SUFFICES ASSUME TypeInv, Account, [Next]_vars,
                    NEW q \in host, q \in table, ~(Seals /\ q.dst = Default)
             PROVE  q \in table'
    BY StillSo DEF HostKept, Account
<1>1. /\ q.dst \notin Asked \cup {LowHalf, HighHalf} /\ q.dev # "tun" /\ q # BlackholeDefault
  <2>1. q.dst \notin Asked \cup {LowHalf, HighHalf} /\ q.dev # "tun"
        BY HostTablesAssumption DEF HostTablesAssumption, NoClash, TypeInv, TypeOK
  <2>2. q.dst = Default => q.dev \in Device
        BY DEF DefaultsGoOut, TypeInv, TypeOK
  <2>3. QED
        BY <2>1, <2>2, DeviceAssumption DEF DeviceAssumption, BlackholeDefault
<1>2. \A d \in Asked \cup {LowHalf, HighHalf} : DelPrefix(d) => q \in table'
      BY <1>1 DEF DelPrefix, Outcomes, Delete, Matching
<1>3. CASE KsDelete
  <2>1. Seals
        BY <1>3 DEF KsDelete, Account, Course, Switch
  <2>2. QED
        BY <1>3, <2>1 DEF KsDelete, Outcomes, Delete, Matching
<1>4. CASE DelSplitLow \/ DelSplitHigh
      BY <1>2, <1>4 DEF DelSplitLow, DelSplitHigh
<1>5. CASE DelRecorded
  <2>1. Head(todo) \in Asked
        BY <1>5 DEF DelRecorded, Account, Listed
  <2>2. QED
        BY <1>2, <1>5, <2>1 DEF DelRecorded
<1>6. CASE TunDown \/ CloseTun \/ Crash \/ TunLost
      BY <1>1, <1>6 DEF TunDown, CloseTun, Crash, TunLost, Flush
<1>7. CASE ThroughTun \/ KsAdd \/ KsRestore \/ AddBypass \/ AddExclude
      BY <1>7, Additions, AddSubset
<1>8. CASE CleanupDefault
      BY <1>8 DEF CleanupDefault, Account, Course
<1>9. CASE RenewDefault
      BY <1>9, AddSubset DEF RenewDefault
<1>10. CASE LiftKillSwitch
       BY <1>1, <1>10, AddSubset DEF LiftKillSwitch
<1>11. CASE Idle
       BY <1>11, Unchanging
<1>12. QED
       BY <1>3, <1>4, <1>5, <1>6, <1>7, <1>8, <1>9, <1>10, <1>11, StepKinds DEF Removing

\* A default to a device that the client finds means that the host has one.
LEMMA DefaultsFound ==
  Account => \A r \in Defaults(table, Device) : Defaulted
<1> SUFFICES ASSUME Account, NEW r \in Defaults(table, Device) PROVE Defaulted
    OBVIOUS
<1>1. r \in table /\ r.dst = Default /\ r.dev \in Device
      BY DEF Defaults
<1>2. Accounted(r)
      BY <1>1 DEF Account
<1>3. r.dev # "tun" /\ r # BlackholeDefault /\ r.dev # "unreachable"
      BY <1>1, DeviceAssumption DEF DeviceAssumption, BlackholeDefault
<1>4. r \in host => Defaulted
      BY <1>1 DEF Defaulted, Defaults
<1>5. QED
      BY <1>2, <1>3, <1>4 DEF Accounted, PutBack, Left

\* Only a session without an interface ends where it has not looked for the default.
LEMMA IntoPast ==
  Course /\ [Next]_vars /\ pc' \in Past => pc \in Past \/ DetectGateway \/ ~cfg.tun
<1> SUFFICES ASSUME Course, [Next]_vars, pc' \in Past, pc \notin Past, ~DetectGateway, cfg.tun
             PROVE  FALSE
    OBVIOUS
<1> USE DEF Past
<1>1. CASE StartWithoutTun \/ CreateTun \/ ConfigureTun \/ CtxDone
      BY <1>1 DEF StartWithoutTun, CreateTun, ConfigureTun, CtxDone, Course, Label
<1>2. CASE Crash \/ Restart
      BY <1>2 DEF Crash, Restart
<1>3. CASE Signal \/ TunLost \/ RenewDefault \/ LiftKillSwitch \/ Finished \/ UNCHANGED vars
      BY <1>3 DEF Signal, TunLost, RenewDefault, LiftKillSwitch, Finished, vars
<1>4. CASE KsDelete \/ KsAdd \/ KsAddFails \/ KsRestore \/ LookupEndpoint \/ AddBypass \/ AddSplitLow
           \/ AddSplitHigh \/ AddExclude \/ AddExtraRoute \/ AddDNSServerRoute \/ LoopEnds
           \/ CleanupStarts \/ DelSplitLow \/ DelSplitHigh \/ DelRecorded \/ TunDown
           \/ CleanupDefault \/ CloseTun
      BY <1>4 DEF KsDelete, KsAdd, KsAddFails, KsRestore, LookupEndpoint, AddBypass, AddSplitLow,
         AddSplitHigh, AddExclude, AddExtraRoute, AddDNSServerRoute, LoopEnds, CleanupStarts,
         DelSplitLow, DelSplitHigh, DelRecorded, TunDown, CleanupDefault, CloseTun, AddLoops,
         DelLoops, Label
<1>5. QED
      BY <1>1, <1>2, <1>3, <1>4 DEF Next, Process, Environment

LEMMA OrigKept == [Next]_vars /\ ~DetectGateway => UNCHANGED orig
BY DEF Next, Process, Environment, StartWithoutTun, CreateTun, ConfigureTun, KsDelete, KsAdd,
       KsAddFails, KsRestore, LookupEndpoint, AddBypass, AddSplitLow, AddSplitHigh, AddExclude,
       AddExtraRoute, AddDNSServerRoute, LoopEnds, CtxDone, CleanupStarts, DelSplitLow,
       DelSplitHigh, DelRecorded, TunDown, CleanupDefault, CloseTun, Signal, Crash, TunLost,
       RenewDefault, LiftKillSwitch, Restart, Finished, vars

LEMMA FoundStep ==
  ASSUME DefaultsGoOut, "list" \notin faults
  PROVE  TypeInv /\ Account /\ [Next]_vars => Found'
<1> SUFFICES ASSUME TypeInv, Account, [Next]_vars PROVE Found'
    OBVIOUS
<1>0. /\ cfg' = cfg /\ host' = host /\ Seals' = Seals /\ Defaulted' = Defaulted
      /\ Course /\ Found
      BY StillSo DEF Account
<1>1. CASE DetectGateway
  <2> DEFINE listed == Defaults(table, Device)
             gated  == {r \in listed : r.gw # "none"}
             best   == IF gated # {} THEN gated ELSE listed
  <2>1. \/ best = {} /\ orig' = [gw |-> "none", dev |-> "none"]
        \/ \E r \in best : orig' = [gw |-> r.gw, dev |-> r.dev]
        BY <1>1 DEF DetectGateway
  <2>2. best \subseteq listed /\ (best = {} => listed = {})
        OBVIOUS
  <2>3. \A r \in listed : r.dev # "none" /\ Defaulted
        BY DefaultsFound, DeviceAssumption DEF DeviceAssumption, Defaults
  <2> HIDE DEF best
  <2>4. orig'.gw # "none" => orig'.dev # "none"
        BY <2>1, <2>2, <2>3
  <2>5. orig'.dev # "none" => Defaulted
        BY <2>1, <2>2, <2>3
  <2>6. ASSUME ~Seals, Defaulted PROVE orig'.dev # "none"
    <3>1. host \subseteq table
          BY <2>6 DEF Account, HostKept
    <3>2. listed # {}
          BY <2>6, <3>1 DEF Defaulted, Defaults
    <3>3. QED
          BY <2>1, <2>2, <2>3, <3>2
  <2>7. QED
        BY <1>0, <2>4, <2>5, <2>6 DEF Found
<1>2. CASE ~DetectGateway
      BY <1>0, <1>2, OrigKept, IntoPast DEF Found
<1>3. QED
      BY <1>1, <1>2

\* A route to the tunnel is added only while the session has a tunnel.
LEMMA NoTunStep == TypeInv /\ Account /\ [Next]_vars => NoTun'
<1> SUFFICES ASSUME TypeInv, Account, [Next]_vars, pc' \in Untunneled,
                    NEW r \in table', r.dev = "tun"
             PROVE  FALSE
    BY DEF NoTun
<1>0. /\ pc \in Untunneled => \A x \in table : x.dev # "tun"
      /\ \A x \in host : x.dev # "tun"
      BY HostTablesAssumption DEF HostTablesAssumption, TypeInv, TypeOK, Account, NoTun
<1>1. CASE CloseTun \/ Crash \/ TunLost
      BY <1>1 DEF CloseTun, Crash, TunLost, Flush
<1>2. CASE ThroughTun
      BY <1>2 DEF ThroughTun, AddSplitLow, AddSplitHigh, AddExtraRoute, AddDNSServerRoute, Untunneled,
         Switch, Terminal
<1>3. CASE KsAdd \/ KsRestore \/ AddBypass \/ AddExclude
  <2>1. BlackholeDefault.dev # "tun" /\ \A d : Unreachable(d).dev # "tun"
        BY DEF BlackholeDefault, Unreachable
  <2>2. orig.dev # "tun" /\ \A d : ViaOriginal(d).dev = orig.dev
        BY DeviceAssumption DEF DeviceAssumption, TypeInv, TypeOK, ViaOriginal
  <2>3. \E x : table' \subseteq table \cup {x} /\ x.dev # "tun"
        BY <1>3, <2>1, <2>2, Additions, AddSubset
  <2>4. pc \in Untunneled
        BY <1>3 DEF KsAdd, KsRestore, AddBypass, AddExclude, Untunneled, Switch, Terminal
  <2>5. QED
        BY <1>0, <2>3, <2>4
<1>4. CASE RenewDefault \/ LiftKillSwitch
  <2>1. \E x \in host : table' \subseteq table \cup {x}
        BY <1>4, AddSubset DEF RenewDefault, LiftKillSwitch, Defaults
  <2>2. pc \in Untunneled
        BY <1>4 DEF RenewDefault, LiftKillSwitch
  <2>3. QED
        BY <1>0, <2>1, <2>2
<1>5. CASE DelSplitLow \/ DelSplitHigh \/ DelRecorded \/ TunDown \/ CleanupDefault
      BY <1>5 DEF DelSplitLow, DelSplitHigh, DelRecorded, TunDown, CleanupDefault, Untunneled, Switch,
         Terminal, DelLoops
<1>6. CASE KsDelete
  <2>1. table' \subseteq table
        BY <1>6, Removals DEF Removing
  <2>2. QED
        BY <1>0, <1>6, <2>1 DEF KsDelete, Untunneled, Switch
<1>7. CASE Idle
  <2>1. table' = table
        BY <1>7, Unchanging
  <2>2. CASE LoopEnds
        BY <1>0, <2>1, <2>2 DEF LoopEnds, After, AddLoops, DelLoops, Untunneled, Switch, Terminal
  <2>3. CASE CtxDone \/ CleanupStarts
        BY <1>0, <2>1, <2>3 DEF CtxDone, CleanupStarts, Untunneled, Switch, Terminal
  <2>4. CASE StartWithoutTun \/ CreateTun \/ ConfigureTun \/ DetectGateway \/ KsAddFails
             \/ LookupEndpoint \/ Restart
        BY <1>0, <2>1, <2>4 DEF StartWithoutTun, CreateTun, ConfigureTun, DetectGateway, KsAddFails,
           LookupEndpoint, Restart, Untunneled, Switch, Terminal
  <2>5. CASE Signal \/ Finished \/ UNCHANGED vars
        BY <1>0, <2>1, <2>5 DEF Signal, Finished, vars
  <2>6. QED
        BY <1>7, <2>2, <2>3, <2>4, <2>5 DEF Idle
<1>8. QED
      BY <1>1, <1>2, <1>3, <1>4, <1>5, <1>6, <1>7, StepKinds DEF Removing

\* What the client adds is accounted for.
LEMMA AddedAccounted ==
  ASSUME TypeInv, Account
  PROVE  /\ \A d : Accounted(TunRoute(d))
         /\ pc = "ksAdd" => Accounted(BlackholeDefault)
         /\ pc = "ksRestore" /\ orig.gw # "none" => PutBack(ViaOriginal(Default))
         /\ pc = "bypass" /\ todo # <<>> => Left(ViaOriginal(Head(todo)))
         /\ pc = "exclude" /\ todo # <<>> /\ orig.dev # "none" => Left(ViaOriginal(Head(todo)))
         /\ pc = "exclude" /\ todo # <<>> /\ orig.dev = "none" => Left(Unreachable(Head(todo)))
<1>0. Found /\ Course /\ Listed
      BY DEF Account
<1>1. orig.dev # "none" => orig.dev \in Device /\ Defaulted
      BY <1>0 DEF TypeInv, TypeOK, Found
<1>2. \A d : /\ ViaOriginal(d).dst = d /\ ViaOriginal(d).metric = 0
             /\ ViaOriginal(d).dev = orig.dev /\ ViaOriginal(d).gw = orig.gw
             /\ Unreachable(d).dst = d /\ Unreachable(d).metric = 0 /\ Unreachable(d).dev = "unreachable"
      BY DEF ViaOriginal, Unreachable
<1>3. \A d : Accounted(TunRoute(d))
      BY DEF Accounted, TunRoute
<1>4. pc = "ksAdd" => Accounted(BlackholeDefault)
      BY <1>0 DEF Accounted, Course, Switch
<1>5. pc = "ksRestore" /\ orig.gw # "none" => PutBack(ViaOriginal(Default))
      BY <1>0, <1>1, <1>2 DEF PutBack, Found, Course, Switch, Terminal
<1>6. pc = "bypass" /\ todo # <<>> => Left(ViaOriginal(Head(todo)))
  <2> SUFFICES ASSUME pc = "bypass", todo # <<>> PROVE Left(ViaOriginal(Head(todo)))
      OBVIOUS
  <2>1. Head(todo) \in Endpoints
        BY <1>0 DEF Listed
  <2>2. orig.dev # "none"
        BY DEF TypeInv
  <2>3. cfg.tun /\ cfg.defaultRoute
        BY <1>0 DEF Course, Circling, Terminal
  <2>4. QED
        BY <1>1, <1>2, <2>1, <2>2, <2>3 DEF Left
<1>7. ASSUME pc = "exclude", todo # <<>>
      PROVE  /\ orig.dev # "none" => Left(ViaOriginal(Head(todo)))
             /\ orig.dev = "none" => Left(Unreachable(Head(todo)))
  <2>1. Head(todo) \in Elements(cfg.excludes)
        BY <1>0, <1>7 DEF Listed
  <2>2. cfg.tun /\ cfg.defaultRoute
        BY <1>0, <1>7 DEF Course, Circling, Terminal
  <2>3. orig.dev = "none" => Seals \/ ~Defaulted
        BY <1>0, <1>7, <2>2 DEF Found, Past, Label, AddLoops
  <2>4. QED
        BY <1>1, <1>2, <2>1, <2>2, <2>3 DEF Left
<1>8. QED
      BY <1>3, <1>4, <1>5, <1>6, <1>7

\* A default that an earlier session put back is the first one that the next session finds.
LEMMA PutBackFound ==
  ASSUME "list" \notin faults, TypeInv, Account, DetectGateway,
         NEW r \in table, PutBack(r)
  PROVE  r = [dst |-> Default, gw |-> orig'.gw, dev |-> orig'.dev, metric |-> 0]
<1> DEFINE listed == Defaults(table, Device)
           gated  == {x \in listed : x.gw # "none"}
<1>1. r \in gated /\ r.metric = 0 /\ r.dst = Default /\ r \in Route
      BY DEF PutBack, Defaults, TypeInv, TypeOK
<1>2. PICK x \in gated : (\A s \in gated : x.metric <= s.metric) /\ orig' = [gw |-> x.gw, dev |-> x.dev]
      BY <1>1 DEF DetectGateway
<1>3. x \in table /\ x.dst = Default /\ x.metric \in Nat
      BY DEF Defaults, TypeInv, TypeOK, Route
<1>4. x.metric = 0
      BY <1>1, <1>2, <1>3
<1>5. x = r
      BY <1>1, <1>3, <1>4 DEF Account, OneRoutePerMetric
<1>6. QED
      BY <1>1, <1>2, <1>5 DEF Route

LEMMA AccountedStep ==
  ASSUME "list" \notin faults
  PROVE  TypeInv /\ Account /\ [Next]_vars => \A r \in table' : Accounted(r)'
<1> SUFFICES ASSUME TypeInv, Account, [Next]_vars, NEW r \in table' PROVE Accounted(r)'
    OBVIOUS
<1>0. /\ cfg' = cfg /\ host' = host /\ Seals' = Seals /\ Defaulted' = Defaulted
      /\ \A x : Left(x)' = Left(x)
      /\ Course
      BY StillSo DEF Account
<1>1. ASSUME Accounted(r), PutBack(r) => PutBack(r)' PROVE Accounted(r)'
      BY <1>0, <1>1 DEF Accounted
<1>2. ASSUME PutBack(r), ~DetectGateway PROVE PutBack(r)'
  <2>1. UNCHANGED orig /\ (pc' \in Past => pc \in Past)
        BY <1>0, <1>2, OrigKept, IntoPast DEF PutBack
  <2>2. ViaOriginal(Default)' = ViaOriginal(Default)
        BY <2>1 DEF ViaOriginal
  <2>3. QED
        BY <1>0, <1>2, <2>1, <2>2 DEF PutBack
<1>3. ASSUME PutBack(r), DetectGateway PROVE PutBack(r)'
  <2>1. r \in table
        BY <1>3 DEF DetectGateway
  <2>2. r = ViaOriginal(Default)'
        BY <1>3, <2>1, PutBackFound DEF ViaOriginal, Default
  <2>3. QED
        BY <1>0, <1>3, <2>2 DEF PutBack
<1>4. Accounted(r)
  <2> SUFFICES Accounted(r)
      OBVIOUS
  <2>1. r \in table => Accounted(r)
        BY DEF Account
  <2>2. r \in host => Accounted(r)
        BY DEF Accounted
  <2>3. \A x : Left(x) \/ PutBack(x) => Accounted(x)
        BY DEF Accounted
  <2> HIDE DEF Accounted
  <2>4. CASE Removing
        BY <2>1, <2>4, Removals
  <2>5. CASE ThroughTun
    <3>1. \E d : r \in table \/ r = TunRoute(d)
          BY <2>5, Additions, AddSubset
    <3>2. QED
          BY <2>1, <3>1, AddedAccounted
  <2>6. CASE KsAdd
    <3>1. r \in table \/ r = BlackholeDefault
          BY <2>6, AddSubset DEF KsAdd
    <3>2. QED
          BY <2>1, <2>6, <3>1, AddedAccounted DEF KsAdd
  <2>7. CASE KsRestore
    <3>1. r \in table \/ (orig.gw # "none" /\ r = ViaOriginal(Default))
          BY <2>7, AddSubset DEF KsRestore, Outcomes
    <3>2. QED
          BY <2>1, <2>3, <2>7, <3>1, AddedAccounted DEF KsRestore
  <2>8. CASE AddBypass
    <3>1. r \in table \/ r = ViaOriginal(Head(todo))
          BY <2>8, Additions, AddSubset
    <3>2. QED
          BY <2>1, <2>3, <2>8, <3>1, AddedAccounted DEF AddBypass
  <2>9. CASE AddExclude
    <3>1. \/ r \in table \/ (orig.dev = "none" /\ r = Unreachable(Head(todo)))
          \/ (orig.dev # "none" /\ r = ViaOriginal(Head(todo)))
          BY <2>9, AddSubset DEF AddExclude, Outcomes, Unreachable
    <3>2. QED
          BY <2>1, <2>3, <2>9, <3>1, AddedAccounted DEF AddExclude
  <2>10. CASE CleanupDefault
         BY <1>0, <2>1, <2>10 DEF CleanupDefault, Course
  <2>11. CASE RenewDefault \/ LiftKillSwitch
         BY <2>1, <2>2, <2>11, AddSubset DEF RenewDefault, LiftKillSwitch, Defaults
  <2>12. CASE Idle
         BY <2>1, <2>12, Unchanging
  <2>13. QED
         BY <2>4, <2>5, <2>6, <2>7, <2>8, <2>9, <2>10, <2>11, <2>12, StepKinds
<1>5. QED
      BY <1>1, <1>2, <1>3, <1>4

\* Where the host has a default and the client has found it, the resolver answers.
LEMMA ResolverAnswers ==
  ASSUME Answered, DefaultsGoOut,
         TypeInv, Account, pc = "lookup", orig.dev # "none"
  PROVE  GoesTo(table, Resolver, Device)
<1>0. /\ Defaulted /\ cfg.defaultRoute /\ cfg \in Configs /\ host \in HostTables
      /\ \A r \in table : r.dev # "tun" /\ r.metric \in Nat /\ Accounted(r)
      /\ HostKept /\ IsFiniteSet(table)
  <2>1. Defaulted /\ cfg.defaultRoute
        BY DEF Account, Found, Course, Circling
  <2>2. \A r \in table : r.dev # "tun"
        BY DEF Account, NoTun, Untunneled
  <2>3. QED
        BY <2>1, <2>2 DEF Account, TypeInv, TypeOK, Route
<1>1. PICK q \in host : /\ Resolver \in q.dst /\ q.dev \in Device
                        /\ \A s \in host : Resolver \in s.dst => ~Beats(s, q)
                        /\ cfg.killSwitch => q.dst # Default
      BY <1>0 DEF Answered, Defaulted
<1>2. cfg.killSwitch => \A d \in Elements(cfg.excludes) : Resolver \notin d
      BY <1>0 DEF Answered, Defaulted
<1>3. q \in table
      BY <1>0, <1>1 DEF HostKept, Seals
<1> DEFINE rivals == {s \in table : Resolver \in s.dst /\ (s = q \/ Beats(s, q))}
<1>4. IsFiniteSet(rivals) /\ q \in rivals
      BY <1>0, <1>1, <1>3, TablesStayFinite
<1>5. PICK r \in rivals : \A s \in rivals : ~Beats(s, r)
      BY <1>0, <1>1, <1>4, BestMatch
<1>6. ASSUME NEW s \in table, Resolver \in s.dst, Beats(s, r) PROVE FALSE
  <2>1. s \in rivals
        BY <1>0, <1>3, <1>5, <1>6, BeatsIsOrder
  <2>2. QED
        BY <1>5, <1>6, <2>1
<1>7. r.dev \in Device
  <2>1. CASE r = q
        BY <1>1, <2>1
  <2>2. CASE Beats(r, q)
    <3>1. r \notin host /\ r.dev # "tun"
          BY <1>0, <1>1, <1>5, <2>2
    <3>2. ASSUME Seals PROVE r # BlackholeDefault
      <4>1. ASSUME r.dst = Default PROVE FALSE
        <5>1. q.dst # Default /\ q.dst \subseteq Default
              BY <1>1, <1>3, <3>2 DEF Seals, TypeInv, TypeOK, Route, Prefix, Default
        <5>2. QED
              BY <2>2, <4>1, <5>1 DEF Beats
      <4>2. QED
            BY <4>1 DEF BlackholeDefault
    <3>3. ASSUME Left(r) PROVE r.dev \in Device
      <4>1. Resolver \in r.dst
            BY <1>5
      <4>2. QED
            BY <1>0, <1>2, <3>3, <4>1 DEF Left, Seals
    <3>4. QED
          BY <1>0, <1>5, <3>1, <3>2, <3>3 DEF Accounted, PutBack
  <2>3. QED
        BY <1>5, <2>1, <2>2
<1>8. QED
      BY <1>5, <1>6, <1>7 DEF GoesTo

\* A lookup hands over what the URL resolves to, if the device is known.
LEMMA LookupAnswered ==
  ASSUME Answered, DefaultsGoOut, "dns" \notin faults,
         TypeInv, Account, LookupEndpoint, orig.dev # "none"
  PROVE  todo' = Answer[Head(hosts)]
BY ResolverAnswers DEF LookupEndpoint

\* Whatever stays pending until the end of a loop or a statement.
LEMMA PendingStep ==
  ASSUME NoClash, Answered, DefaultsGoOut, {"del", "dns"} \cap faults = {},
         TypeInv, Account, [Next]_vars, cfg.tun, cfg.defaultRoute, orig'.dev # "none" \/ ~Defaulted,
         pc' \in Past, NEW r \in table, r \in table', Left(r)
  PROVE  r.dst \in Pending'
<1>0. /\ UNCHANGED cfg /\ Course /\ Listed /\ rm \in RouteManager
      /\ hosts \in Seq({"api", "connect"})
      /\ r.dst \in Endpoints \cup Elements(cfg.excludes)
      /\ ~Defaulted => r.dst \in Elements(cfg.excludes)
      BY StillSo DEF Account, TypeInv, TypeOK, Left
<1>1. \A S : \A s \in Seq(S) : /\ \A x \in S : Elements(Append(s, x)) = Elements(s) \cup {x}
                               /\ s # <<>> => Elements(s) = {Head(s)} \cup Elements(Tail(s))
      BY ElementsOf
<1>2. Elements(<<>>) = {} /\ Elements(<<"api", "connect">>) = {"api", "connect"}
      BY ElementsOf
<1>3. Endpoints = UNION {Elements(Answer[h]) : h \in {"api", "connect"}}
      BY AskedLists
<1> DEFINE All == Endpoints \cup Elements(cfg.excludes)
<1>4. cfg' = cfg /\ r.dst \in All
       BY <1>0
<1>5. ASSUME hosts' = <<"api", "connect">> PROVE ToLookUp' = All
  <2>1. Elements(hosts') = {"api", "connect"}
        BY <1>2, <1>5
  <2>2. ToLookUp' = (UNION {Elements(Answer[h]) : h \in Elements(hosts')}) \cup Elements(cfg.excludes)
        BY <1>4 DEF ToLookUp
  <2>3. QED
        BY <1>3, <2>1, <2>2
<1>6. ASSUME \/ pc' \in Switch
             \/ pc' = "lookup" /\ hosts' = <<"api", "connect">>
       PROVE  r.dst \in Pending'
  <2>1. CASE pc' \in Switch
    <3>1. Pending' = All
          BY <1>4, <2>1 DEF Pending, Switch
    <3>2. QED
          BY <1>4, <3>1
  <2>2. CASE pc' = "lookup" /\ hosts' = <<"api", "connect">>
    <3>1. Pending' = (Recorded \cup ToLookUp)'
          BY <2>2 DEF Pending, Switch
    <3>2. QED
          BY <1>5, <1>4, <2>2, <3>1
  <2>3. QED
        BY <1>6, <2>1, <2>2
<1>7. CASE DetectGateway
      BY <1>0, <1>7, <1>6 DEF DetectGateway, Switch
<1>8. ASSUME ~DetectGateway
      PROVE  r.dst \in Pending /\ pc \in Past /\ (orig.dev # "none" \/ ~Defaulted)
  <2>1. pc \in Past /\ (orig.dev # "none" \/ ~Defaulted)
        BY <1>0, <1>8, IntoPast, OrigKept
  <2>2. QED
        BY <2>1 DEF Account, WillGo
<1>9. CASE KsDelete \/ KsAdd \/ KsAddFails \/ KsRestore
      BY <1>0, <1>9, <1>6 DEF KsDelete, KsAdd, KsAddFails, KsRestore, Switch, Course
<1>10. CASE LookupEndpoint
  <2>1. hosts # <<>> /\ Head(hosts) \in {"api", "connect"} /\ hosts' = Tail(hosts) /\ UNCHANGED rm
        /\ pc = "lookup" /\ pc' = "bypass"
        BY <1>0, <1>10 DEF LookupEndpoint
  <2>2. Elements(hosts) = {Head(hosts)} \cup Elements(hosts')
        BY <1>0, <1>1, <2>1
  <2>3. ~DetectGateway /\ orig' = orig
        BY <1>10, OrigKept DEF LookupEndpoint, DetectGateway
  <2>4. r.dst \in Recorded \cup ToLookUp
        BY <1>8, <2>1, <2>3 DEF Pending, Switch
  <2>5. r.dst \in Recorded \cup ToLookUp' \cup Elements(todo')
    <3>1. CASE orig.dev # "none"
      <4>1. todo' = Answer[Head(hosts)]
            BY <1>10, <3>1, LookupAnswered
      <4>2. ASSUME NEW h \in Elements(hosts), r.dst \in Elements(Answer[h])
            PROVE  r.dst \in ToLookUp' \cup Elements(todo')
            BY <2>2, <4>1, <4>2 DEF ToLookUp
      <4>3. ToLookUp = (UNION {Elements(Answer[h]) : h \in Elements(hosts)}) \cup Elements(cfg.excludes)
            BY DEF ToLookUp
      <4>4. Elements(cfg.excludes) \subseteq ToLookUp'
            BY <1>4 DEF ToLookUp
      <4>5. QED
            BY <2>4, <4>2, <4>3, <4>4
    <3>2. CASE ~Defaulted
          BY <1>0, <3>2 DEF ToLookUp
    <3>3. QED
          BY <1>8, <2>3, <3>1, <3>2
  <2>6. QED
        BY <2>1, <2>5 DEF Pending, Switch, Recorded
<1>11. CASE AddBypass \/ AddExclude \/ AddExtraRoute \/ AddDNSServerRoute
  <2>1. todo # <<>> /\ todo' = Tail(todo) /\ UNCHANGED <<pc, hosts>> /\ Head(todo) \in Asked
        /\ pc \in AddLoops
        BY <1>11 DEF AddBypass, AddExclude, AddExtraRoute, AddDNSServerRoute, Account, Listed, AddLoops
  <2>2. Elements(todo) = {Head(todo)} \cup Elements(todo')
        BY <1>0, <1>1, <2>1 DEF Listed
  <2>3. /\ pc \in {"bypass", "exclude"} => Recorded' = Recorded \cup {Head(todo)}
        /\ pc \in {"extra", "dns"} => Recorded' = Recorded
    <3>1. \A s \in Seq(Asked) : Elements(Append(s, Head(todo))) = Elements(s) \cup {Head(todo)}
          BY <1>1, <2>1
    <3>2. CASE AddBypass
          BY <1>0, <3>1, <3>2 DEF AddBypass, Recorded, Listed, RouteManager
    <3>3. CASE AddExclude
          BY <1>0, <3>1, <3>3 DEF AddExclude, Recorded, Listed, RouteManager
    <3>4. CASE AddExtraRoute \/ AddDNSServerRoute
          BY <1>0, <3>4 DEF AddExtraRoute, AddDNSServerRoute, Recorded, RouteManager
    <3>5. QED
          BY <1>11, <3>2, <3>3, <3>4
  <2>4. r.dst \in Pending
        BY <1>8, <1>11 DEF AddBypass, AddExclude, AddExtraRoute, AddDNSServerRoute, DetectGateway
  <2>5. ToLookUp' = ToLookUp
        BY <1>0, <2>1 DEF ToLookUp
  <2> HIDE DEF Recorded, ToLookUp
  <2>6. QED
        BY <2>1, <2>2, <2>3, <2>4, <2>5 DEF Pending, Switch, AddLoops
<1>12. CASE AddSplitLow \/ AddSplitHigh
  <2>1. UNCHANGED <<cfg, Recorded>> /\ pc \in {"splitLow", "splitHigh"}
        BY <1>0, <1>12 DEF AddSplitLow, AddSplitHigh, RouteManager, Recorded
  <2>2. r.dst \in Recorded \cup Elements(cfg.excludes)
        BY <1>8, <1>12, <2>1 DEF AddSplitLow, AddSplitHigh, DetectGateway, Pending, Switch
  <2>3. \/ pc' = "splitHigh"
        \/ pc' = "exclude" /\ todo' = cfg.excludes
        BY <1>12 DEF AddSplitLow, AddSplitHigh
  <2> HIDE DEF Recorded
  <2>4. QED
        BY <2>1, <2>2, <2>3 DEF Pending, Switch
<1>13. CASE LoopEnds
  <2>1. r.dst \in Pending /\ todo = <<>> /\ UNCHANGED <<rm, cfg, hosts>>
        BY <1>0, <1>8, <1>13 DEF LoopEnds, DetectGateway, AddLoops, DelLoops
  <2>2. Recorded' = Recorded /\ ToLookUp' = ToLookUp /\ Elements(todo) = {}
        BY <1>2, <2>1 DEF Recorded, ToLookUp
  <2>3. CASE pc = "bypass"
        BY <1>13, <2>1, <2>2, <2>3 DEF LoopEnds, After, Pending, Switch
  <2>4. CASE pc = "lookup"
    <3>1. pc' = "splitLow" /\ hosts = <<>>
          BY <1>13, <2>4 DEF LoopEnds, After
    <3>2. ToLookUp = Elements(cfg.excludes)
          BY <1>2, <3>1 DEF ToLookUp
    <3>3. QED
          BY <2>1, <2>2, <2>4, <3>1, <3>2 DEF Pending, Switch
  <2>5. CASE pc \in {"exclude", "extra", "dns"}
    <3>1. pc' \in {"extra", "dns", "running"}
          BY <1>13, <2>5 DEF LoopEnds, After
    <3>2. QED
          BY <2>1, <2>2, <2>5, <3>1 DEF Pending, Switch
  <2>6. CASE pc = "delBypass"
    <3>1. pc' = "delExclude" /\ todo' = rm.exclude
          BY <1>13, <2>6 DEF LoopEnds, After, LoopOver
    <3>2. QED
          BY <2>1, <2>2, <2>6, <3>1 DEF Pending, Switch
  <2>7. CASE pc \in {"delExclude", "delExtra", "delDns"}
        BY <2>1, <2>2, <2>7 DEF Pending, Switch
  <2>8. QED
        BY <1>13, <2>3, <2>4, <2>5, <2>6, <2>7 DEF LoopEnds, AddLoops, DelLoops
<1>14. CASE CtxDone \/ CleanupStarts \/ DelSplitLow \/ DelSplitHigh
  <2>1. UNCHANGED rm /\ pc \in {"running", "cleanup", "delLow", "delHigh"}
        BY <1>0, <1>14 DEF CtxDone, CleanupStarts, DelSplitLow, DelSplitHigh, Course
  <2>2. r.dst \in Recorded /\ Recorded' = Recorded
        BY <1>8, <2>1 DEF DetectGateway, Pending, Switch, Recorded
  <2>3. \/ pc' \in {"cleanup", "delLow", "delHigh"}
        \/ pc' = "delBypass" /\ todo' = rm.bypass
        BY <1>14, <2>1 DEF CtxDone, CleanupStarts, DelSplitLow, DelSplitHigh
  <2>4. CASE pc' \in {"cleanup", "delLow", "delHigh"}
        BY <2>2, <2>4 DEF Pending, Switch
  <2>5. CASE pc' = "delBypass" /\ todo' = rm.bypass
        BY <2>1, <2>2, <2>5 DEF Pending, Switch, Recorded
  <2>6. QED
        BY <2>3, <2>4, <2>5
<1>15. CASE DelRecorded
  <2>1. todo # <<>> /\ todo' = Tail(todo) /\ UNCHANGED <<pc, rm>> /\ pc \in DelLoops
        BY <1>15 DEF DelRecorded
  <2>2. Elements(todo) = {Head(todo)} \cup Elements(todo')
        BY <1>0, <1>1, <2>1 DEF Listed
  <2>3. r.dst # Head(todo)
    <3>1. ASSUME r.dst = Head(todo) PROVE FALSE
      <4>1. r \in Matching(table, Head(todo))
            BY <3>1 DEF Matching
      <4>2. r.metric = 0 /\ \A s \in table : s.metric \in Nat
            BY DEF Left, TypeInv, TypeOK, Route
      <4>3. r \notin Delete(table, Matching(table, Head(todo)))
            BY <4>1, <4>2 DEF Delete, Matching
      <4>4. QED
            BY <1>15, <4>3 DEF DelRecorded, DelPrefix, Outcomes
    <3>2. QED
          BY <3>1
  <2>4. r.dst \in Pending
        BY <1>8, <2>1 DEF DetectGateway, DelLoops
  <2>5. QED
        BY <2>1, <2>2, <2>3, <2>4 DEF Pending, Switch, DelLoops
<1>16. CASE TunDown \/ CleanupDefault \/ CloseTun
  <2>1. pc \in {"down", "default", "close"}
        BY <1>16 DEF TunDown, CleanupDefault, CloseTun
  <2>2. QED
        BY <1>8, <2>1 DEF DetectGateway, Pending, Switch
<1>17. CASE StartWithoutTun \/ CreateTun \/ ConfigureTun \/ Crash \/ Restart
       BY <1>17 DEF StartWithoutTun, CreateTun, ConfigureTun, Crash, Restart, Past
<1>18. CASE Signal \/ TunLost \/ RenewDefault \/ LiftKillSwitch \/ Finished \/ UNCHANGED vars
  <2>1. UNCHANGED <<pc, todo, hosts, rm, cfg, orig>>
        BY <1>18 DEF Signal, TunLost, RenewDefault, LiftKillSwitch, Finished, vars
  <2>2. Pending' = Pending
        BY <2>1 DEF Pending, Recorded, ToLookUp
  <2>3. pc \in Past
        BY <2>1
  <2>4. QED
        BY <2>1, <2>2, <2>3 DEF Account, WillGo
<1>19. QED
       BY <1>7, <1>9, <1>10, <1>11, <1>12, <1>13, <1>14, <1>15, <1>16, <1>17, <1>18
       DEF Next, Process, Environment

\* What is left around the tunnel is recorded when it is added.
LEMMA AddedPending ==
  ASSUME NoClash, DefaultsGoOut, TypeInv, Account, [Next]_vars,
         NEW r \in table', r \notin table, Left(r)
  PROVE  r.dst \in Pending'
<1>0. /\ Course /\ Listed /\ rm \in RouteManager /\ Found
      /\ r.dst \in Asked /\ r.dev # "tun" /\ r.dev # "blackhole" /\ r \notin host
  <2>1. Endpoints \cup Elements(cfg.excludes) \subseteq Asked
        BY AskedLists DEF TypeInv, TypeOK
  <2>2. r.dst \in Asked /\ r.dev # "tun" /\ r.dev # "blackhole"
        BY <2>1, DeviceAssumption DEF DeviceAssumption, Left
  <2>3. \A q \in host : q.dst \notin Asked
        BY DEF NoClash, TypeInv, TypeOK
  <2>4. QED
        BY <2>2, <2>3 DEF Account, TypeInv, TypeOK
<1>1. CASE AddBypass \/ AddExclude
  <2>1. r.dst = Head(todo) /\ Head(todo) \in Asked
    <3>1. r \in {ViaOriginal(Head(todo)), Unreachable(Head(todo))}
          BY <1>1, Additions, AddSubset
    <3>2. todo # <<>> /\ todo \in Seq(Asked)
          BY <1>0, <1>1 DEF AddBypass, AddExclude, Listed
    <3>3. QED
          BY <3>1, <3>2 DEF ViaOriginal, Unreachable
  <2>2. Head(todo) \in Recorded'
    <3>1. \A s \in Seq(Asked) : Elements(Append(s, Head(todo))) = Elements(s) \cup {Head(todo)}
          BY <2>1, ElementsOf
    <3>2. CASE AddBypass
          BY <1>0, <3>1, <3>2 DEF AddBypass, Recorded, Listed, RouteManager
    <3>3. CASE AddExclude
          BY <1>0, <3>1, <3>3 DEF AddExclude, Recorded, Listed, RouteManager
    <3>4. QED
          BY <1>1, <3>2, <3>3
  <2>3. pc' \in {"bypass", "exclude"}
        BY <1>1 DEF AddBypass, AddExclude
  <2> HIDE DEF Recorded
  <2>4. QED
        BY <2>1, <2>2, <2>3 DEF Pending, Switch
<1>2. CASE KsRestore
  <2>1. r = ViaOriginal(Default) /\ Defaulted
        BY <1>0, <1>2, AddSubset DEF KsRestore, Outcomes, Found
  <2>2. Default \notin Asked
    <3>1. PICK q \in host : q.dst = Default
          BY <2>1 DEF Defaulted, Defaults
    <3>2. QED
          BY <3>1 DEF NoClash, TypeInv, TypeOK
  <2>3. QED
        BY <1>0, <2>1, <2>2 DEF ViaOriginal
<1>3. CASE ThroughTun
  <2>1. \E d : r = TunRoute(d)
        BY <1>3, Additions, AddSubset
  <2>2. QED
        BY <1>0, <2>1 DEF TunRoute
<1>4. CASE KsAdd
      BY <1>0, <1>4, Additions, AddSubset DEF BlackholeDefault
<1>5. CASE RenewDefault \/ LiftKillSwitch
      BY <1>0, <1>5, AddSubset DEF RenewDefault, LiftKillSwitch, Defaults
<1>6. CASE CleanupDefault
      BY <1>0, <1>6 DEF CleanupDefault, Course
<1>7. CASE Removing \/ Idle
      BY <1>7, Removals, Unchanging
<1>8. QED
      BY <1>1, <1>2, <1>3, <1>4, <1>5, <1>6, <1>7, StepKinds

LEMMA WillGoStep ==
  ASSUME NoClash, Answered, DefaultsGoOut, {"del", "dns"} \cap faults = {}
  PROVE  TypeInv /\ Account /\ [Next]_vars => WillGo'
<1> SUFFICES ASSUME TypeInv, Account, [Next]_vars, pc' \in Past, orig'.dev # "none" \/ ~Defaulted,
                    NEW r \in table', Left(r)
             PROVE  r.dst \in Pending'
    BY StillSo DEF WillGo
<1>1. cfg.tun /\ cfg.defaultRoute
      BY DEF Left
<1>2. QED
      BY <1>1, PendingStep, AddedPending

\* A host whose routes the client cannot mistake for its own, and can be asked for names.
Undisturbed == NoClash /\ Answered /\ DefaultsGoOut

LEMMA AccountInit == Init => Account
<1> SUFFICES ASSUME Init PROVE Account
    OBVIOUS
<1>1. pc = "start" /\ table = host /\ rm = NewRouteManager /\ todo = <<>> /\ host \in HostTables
      /\ orig = [gw |-> "none", dev |-> "none"]
      BY DEF Init
<1>2. HostKept /\ \A r \in table : Accounted(r)
      BY <1>1 DEF HostKept, Accounted
<1>3. WillGo /\ Found /\ Course
      BY <1>1 DEF WillGo, Found, Course, Past, Switch, Circling, NewRouteManager
<1>4. NoTun /\ IsFiniteSet(table) /\ OneRoutePerMetric(table)
      BY <1>1, HostTablesAssumption DEF HostTablesAssumption, NoTun, OneRoutePerMetric
<1>5. Listed
      BY <1>1, Records DEF Listed, NewRouteManager
<1>6. QED
      BY <1>2, <1>3, <1>4, <1>5 DEF Account

LEMMA AccountStep ==
  ASSUME Undisturbed, {"del", "dns", "list"} \cap faults = {}
  PROVE  TypeInv /\ Account /\ [Next]_vars => Account'
<1> SUFFICES ASSUME TypeInv, Account, [Next]_vars PROVE Account'
    OBVIOUS
<1>1. HostKept' /\ WillGo' /\ Found'
      BY HostKeptStep, WillGoStep, FoundStep DEF Undisturbed
<1>2. (\A r \in table : Accounted(r))'
      BY AccountedStep
<1>3. NoTun' /\ Course' /\ Listed'
      BY NoTunStep, CourseStep, ListedStep DEF Account
<1>4. IsFiniteSet(table') /\ OneRoutePerMetric(table')
      BY FiniteStep, SingleStep DEF Account
<1>5. QED
      BY <1>1, <1>2, <1>3, <1>4 DEF Account, OneRoutePerMetric

LEMMA AccountRestores ==
  ASSUME DefaultsGoOut
  PROVE  TypeInv /\ Account => RestoresHostRoutes
<1> SUFFICES ASSUME TypeInv, Account, pc = "exited", faults \cap {"del", "dns", "list"} = {}
             PROVE  RestoresHostRoutes
    BY DEF RestoresHostRoutes
<1>0. pc \in Past /\ pc \in Untunneled
      BY DEF Past, Label, Terminal, Untunneled
<1>1. \A r \in table : Left(r) => ~(orig.dev # "none" \/ ~Defaulted)
      BY <1>0 DEF Account, WillGo, Pending, Switch
<1>2. \A r \in table : r.dev # "tun" /\ Accounted(r)
      BY <1>0 DEF Account, NoTun
<1>3. CASE Seals
  <2> SUFFICES ASSUME orig.dev # "none" \/ ~Defaulted
               PROVE  /\ table \ host \subseteq {BlackholeDefault, ViaOriginal(Default)}
                      /\ host \ table \subseteq Defaults(host, Device)
      BY <1>3 DEF RestoresHostRoutes, Seals, Defaulted
  <2>1. ASSUME NEW r \in table \ host PROVE r \in {BlackholeDefault, ViaOriginal(Default)}
        BY <1>0, <1>1, <1>2 DEF Accounted, PutBack
  <2>2. ASSUME NEW q \in host \ table PROVE q \in Defaults(host, Device)
    <3>1. q.dst = Default
          BY DEF Account, HostKept
    <3>2. q.dev \in Device
          BY <3>1 DEF DefaultsGoOut, TypeInv, TypeOK
    <3>3. QED
          BY <3>1, <3>2 DEF Defaults
  <2>3. QED
        BY <2>1, <2>2
<1>4. CASE ~Seals
  <2>1. host \subseteq table
        BY <1>4 DEF Account, HostKept
  <2>2. ASSUME NEW r \in table PROVE r \in host
    <3>1. ~Left(r)
          BY <1>0, <1>1, <1>4 DEF Account, Found, Left
    <3>2. QED
          BY <1>2, <1>4, <3>1 DEF Accounted, PutBack
  <2>3. table = host
        BY <2>1, <2>2
  <2>4. QED
        BY <1>4, <2>3, Zenon DEF RestoresHostRoutes, Seals
<1>5. QED
      BY <1>3, <1>4

\* On a host that routes nothing the client is asked to route and whose resolver answers,
\* where deletions and look-ups work: a clean exit leaves the table as it was before the
\* first session, under --kill_switch but for the default; whatever adds and interfaces
\* fail, and whatever earlier sessions that crashed have left (routes_linux.go:10, :140-172).
THEOREM HostRestored == ASSUME Undisturbed PROVE Spec => []RestoresHostRoutes
<1> DEFINE Works == faults \cap {"del", "dns", "list"} = {}
<1>0. [Next]_vars => (Works' => Works)
      BY Fixed
<1>1. Init => TypeInv /\ Account
      BY TypeInit, AccountInit
<1>2. TypeInv /\ (Works => Account) /\ [Next]_vars => (TypeInv' /\ (Works' => Account'))
      BY <1>0, TypeStep, AccountStep
<1>3. TypeInv /\ (Works => Account) => RestoresHostRoutes
  <2>1. Works \/ RestoresHostRoutes
        BY DEF RestoresHostRoutes
  <2>2. QED
        BY <2>1, AccountRestores DEF Undisturbed
<1> HIDE DEF Works
<1>4. QED
      BY <1>1, <1>2, <1>3, PTL DEF Spec

(***************************************************************************)
(* The endpoints go around the tunnel.                                     *)
(***************************************************************************)
\* No endpoint is excluded under the kill switch: a session that finds no default makes
\* what is excluded unreachable, and a crash leaves it so to the next session.
EndpointsApart == \A c \in Configs : c.killSwitch => Elements(c.excludes) \cap Endpoints = {}

OnTheWay  == Circling \cup {"extra", "dns", "running"}
Stands(d) == \E r \in table : r.dst = d /\ r.metric = 0 /\ r.dev \in Device

\* What the lookups made so far have answered has its route, but for what is left to add.
Bypassed ==
  /\ cfg.defaultRoute /\ orig.dev # "none" /\ pc \in OnTheWay =>
       \A h \in {"api", "connect"} \ Elements(hosts) : \A d \in Elements(Answer[h]) :
         (pc = "bypass" => d \notin Elements(todo)) => Stands(d)
  /\ pc \in OnTheWay \ {"lookup", "bypass"} => hosts = <<>>

\* An endpoint's route is there once `ip route add` has been called, were it refused.
LEMMA BypassAdded ==
  ASSUME NoClash, EndpointsApart, "add" \notin faults, TypeInv, Account, AddBypass,
         NEW d, d = Head(todo)
  PROVE  d \in Endpoints /\ Stands(d)'
<1>1. /\ d \in Endpoints /\ d # Default
      /\ orig.dev \in Device /\ Defaulted /\ pc = "bypass"
  <2>1. d \in Endpoints
        BY DEF AddBypass, Account, Listed
  <2>2. d # Default
    <3>1. \A h \in {"api", "connect"} : Elements(Answer[h]) \subseteq Specific
      <4>1. \A h \in {"api", "connect"} : Answer[h] \in Seq({Host(x) : x \in Addr})
            BY ConfigAssumption DEF ConfigAssumption
      <4>2. {Host(x) : x \in Addr} \subseteq Specific
            BY SpecificPrefixes
      <4>3. QED
            BY <4>1, <4>2 DEF Elements
    <3>2. QED
          BY <2>1, <3>1 DEF Endpoints, Specific
  <2>3. QED
        BY <2>1, <2>2 DEF AddBypass, TypeInv, TypeOK, Account, Found
<1>2. table' = Add(table, ViaOriginal(d))
      BY DEF AddBypass, Outcomes
<1>3. /\ ViaOriginal(d).dst = d /\ ViaOriginal(d).metric = 0 /\ ViaOriginal(d).dev = orig.dev
      BY DEF ViaOriginal
<1>4. ASSUME NEW s \in table, s.dst = d, s.metric = 0 PROVE s.dev \in Device
  <2>1. Accounted(s) /\ s.dev # "tun"
        BY <1>1 DEF Account, NoTun, Untunneled
  <2>2. s \notin host
        BY <1>1, <1>4, AskedLists DEF NoClash, TypeInv, TypeOK
  <2>3. s # BlackholeDefault /\ ~PutBack(s)
        BY <1>1, <1>4 DEF BlackholeDefault, PutBack
  <2>4. Left(s) => s.dev \in Device
        BY <1>1, <1>4 DEF Left, Seals, EndpointsApart, TypeInv, TypeOK
  <2>5. QED
        BY <2>1, <2>2, <2>3, <2>4 DEF Accounted
<1>5. Stands(d)'
  <2>1. CASE \E s \in table : s.dst = d /\ s.metric = 0
    <3>1. PICK s \in table : s.dst = d /\ s.metric = 0
          BY <2>1
    <3>2. s \in table' /\ s.dev \in Device
          BY <1>2, <1>4, <3>1, AddSubset
    <3>3. QED
          BY <3>1, <3>2 DEF Stands
  <2>2. CASE ~\E s \in table : s.dst = d /\ s.metric = 0
    <3>1. ViaOriginal(d) \in table'
          BY <1>2, <1>3, <2>2 DEF Add
    <3>2. QED
          BY <1>1, <1>3, <3>1 DEF Stands
  <2>3. QED
        BY <2>1, <2>2
<1>6. QED
      BY <1>1, <1>5

\* A route around the tunnel stays until Cleanup.
LEMMA StandsKept ==
  ASSUME [Next]_vars, pc \in OnTheWay, pc' \in OnTheWay, NEW d, Stands(d)
  PROVE  Stands(d)'
<1>1. PICK r \in table : r.dst = d /\ r.metric = 0 /\ r.dev \in Device
      BY DEF Stands
<1> SUFFICES r \in table'
    BY <1>1 DEF Stands
<1>2. r.dev # "tun"
      BY <1>1, DeviceAssumption DEF DeviceAssumption
<1>3. CASE ThroughTun \/ KsAdd \/ KsRestore \/ AddBypass \/ AddExclude
      BY <1>3, Additions, AddSubset
<1>4. CASE TunDown \/ CloseTun \/ Crash \/ TunLost
      BY <1>2, <1>4 DEF TunDown, CloseTun, Crash, TunLost, Flush
<1>5. CASE KsDelete \/ DelSplitLow \/ DelSplitHigh \/ DelRecorded \/ CleanupDefault \/ LiftKillSwitch
      BY <1>5 DEF KsDelete, DelSplitLow, DelSplitHigh, DelRecorded, DelLoops, CleanupDefault,
         LiftKillSwitch, OnTheWay, Circling, Terminal
<1>6. CASE RenewDefault
      BY <1>6, AddSubset DEF RenewDefault
<1>7. CASE Idle
      BY <1>7, Unchanging
<1>8. QED
      BY <1>3, <1>4, <1>5, <1>6, <1>7, StepKinds DEF Removing

\* Where a session's lookups may begin, none has been answered.
LEMMA OntoTheWay ==
  TypeInv /\ Account /\ [Next]_vars /\ pc' \in OnTheWay =>
    \/ pc \in OnTheWay /\ ~DetectGateway
    \/ pc' = "lookup" /\ hosts' = <<"api", "connect">>
    \/ pc' = "extra" /\ hosts' = <<>> /\ ~cfg.defaultRoute
<1> SUFFICES ASSUME TypeInv, Account, [Next]_vars, pc' \in OnTheWay, pc \notin OnTheWay \/ DetectGateway
             PROVE  \/ pc' = "lookup" /\ hosts' = <<"api", "connect">>
                    \/ pc' = "extra" /\ hosts' = <<>> /\ ~cfg.defaultRoute
    OBVIOUS
<1> USE DEF OnTheWay, Circling
<1>1. CASE DetectGateway
      BY <1>1 DEF DetectGateway
<1>2. CASE KsAdd \/ KsRestore
      BY <1>2 DEF KsAdd, KsRestore, Account, Course, Switch
<1>3. CASE StartWithoutTun \/ CreateTun \/ ConfigureTun \/ CtxDone \/ KsDelete \/ KsAddFails
           \/ LookupEndpoint \/ AddBypass \/ AddSplitLow \/ AddSplitHigh \/ AddExclude
           \/ AddExtraRoute \/ AddDNSServerRoute
      BY <1>3 DEF StartWithoutTun, CreateTun, ConfigureTun, CtxDone, KsDelete, KsAddFails, LookupEndpoint,
         AddBypass, AddSplitLow, AddSplitHigh, AddExclude, AddExtraRoute, AddDNSServerRoute,
         DetectGateway
<1>4. CASE LoopEnds
      BY <1>4 DEF LoopEnds, After, AddLoops, DelLoops, DetectGateway
<1>5. CASE CleanupStarts \/ DelSplitLow \/ DelSplitHigh \/ DelRecorded \/ TunDown \/ CleanupDefault
           \/ CloseTun \/ Crash \/ Restart
      BY <1>5 DEF CleanupStarts, DelSplitLow, DelSplitHigh, DelRecorded, DelLoops, TunDown,
         CleanupDefault, CloseTun, Crash, Restart
<1>6. CASE Signal \/ TunLost \/ RenewDefault \/ LiftKillSwitch \/ Finished \/ UNCHANGED vars
      BY <1>6 DEF Signal, TunLost, RenewDefault, LiftKillSwitch, Finished, vars, DetectGateway
<1>7. QED
      BY <1>1, <1>2, <1>3, <1>4, <1>5, <1>6 DEF Next, Process, Environment

LEMMA BypassedStep ==
  ASSUME Undisturbed, EndpointsApart, {"dns", "add"} \cap faults = {}
  PROVE  TypeInv /\ Account /\ Bypassed /\ [Next]_vars => Bypassed'
<1> SUFFICES ASSUME TypeInv, Account, Bypassed, [Next]_vars, pc' \in OnTheWay PROVE Bypassed'
    BY DEF Bypassed
<1>0. cfg' = cfg /\ hosts \in Seq({"api", "connect"}) /\ Elements(<<"api", "connect">>) = {"api", "connect"}
      BY Fixed, ElementsOf DEF TypeInv, TypeOK
<1>1. CASE ~(pc \in OnTheWay /\ ~DetectGateway)
      BY <1>0, <1>1, OntoTheWay DEF Bypassed
<1>2. CASE pc \in OnTheWay /\ ~DetectGateway
  <2>1. ASSUME cfg.defaultRoute, orig.dev # "none",
               NEW h \in {"api", "connect"} \ Elements(hosts'), NEW d \in Elements(Answer[h]),
               pc' = "bypass" => d \notin Elements(todo')
        PROVE  Stands(d)'
    <3>1. CASE LookupEndpoint
      <4>1. /\ pc' = "bypass" /\ pc = "lookup" /\ hosts # <<>> /\ hosts' = Tail(hosts)
            /\ todo' = Answer[Head(hosts)]
            BY <2>1, <3>1, LookupAnswered DEF LookupEndpoint, Undisturbed
      <4>2. h # Head(hosts)
            BY <2>1, <4>1
      <4>3. h \notin Elements(hosts)
            BY <1>0, <2>1, <4>1, <4>2, ElementsOf
      <4>4. Stands(d)
            BY <1>2, <2>1, <4>1, <4>3 DEF Bypassed
      <4>5. QED
            BY <1>2, <4>4, StandsKept
    <3>2. CASE AddBypass
      <4>1. /\ pc = "bypass" /\ pc' = "bypass" /\ hosts' = hosts /\ todo # <<>> /\ todo' = Tail(todo)
            BY <3>2 DEF AddBypass
      <4>2. Elements(todo) = {Head(todo)} \cup Elements(todo')
            BY <4>1, ElementsOf DEF TypeInv, TypeOK
      <4>3. CASE d = Head(todo)
            BY <3>2, <4>3, BypassAdded DEF Undisturbed
      <4>4. CASE d # Head(todo)
        <5>1. Stands(d)
              BY <1>2, <2>1, <4>1, <4>2, <4>4 DEF Bypassed
        <5>2. QED
              BY <1>2, <5>1, StandsKept
      <4>5. QED
            BY <4>3, <4>4
    <3>3. CASE ~LookupEndpoint /\ ~AddBypass
      <4>1. hosts' = hosts /\ (pc = "bypass" => todo = <<>> \/ (pc' = "bypass" /\ todo' = todo))
        <5>1. CASE LoopEnds
              BY <5>1 DEF LoopEnds
        <5>2. CASE Signal \/ TunLost \/ RenewDefault \/ LiftKillSwitch \/ Finished \/ UNCHANGED vars
              BY <5>2 DEF Signal, TunLost, RenewDefault, LiftKillSwitch, Finished, vars
        <5>3. CASE Crash \/ Restart
              BY <5>3 DEF Crash, Restart, OnTheWay, Circling
        <5>4. CASE StartWithoutTun \/ CreateTun \/ ConfigureTun \/ CtxDone \/ KsDelete \/ KsAdd
                   \/ KsAddFails \/ KsRestore
              BY <5>4 DEF StartWithoutTun, CreateTun, ConfigureTun, CtxDone, KsDelete, KsAdd, KsAddFails,
                 KsRestore
        <5>5. CASE AddSplitLow \/ AddSplitHigh \/ AddExclude \/ AddExtraRoute \/ AddDNSServerRoute
              BY <5>5 DEF AddSplitLow, AddSplitHigh, AddExclude, AddExtraRoute, AddDNSServerRoute
        <5>6. CASE CleanupStarts \/ DelSplitLow \/ DelSplitHigh \/ DelRecorded \/ TunDown
                   \/ CleanupDefault \/ CloseTun
              BY <5>6 DEF CleanupStarts, DelSplitLow, DelSplitHigh, DelRecorded, DelLoops, TunDown,
                 CleanupDefault, CloseTun
        <5>7. QED
              BY <1>2, <3>3, <5>1, <5>2, <5>3, <5>4, <5>5, <5>6 DEF Next, Process, Environment
      <4>2. pc = "bypass" => d \notin Elements(todo)
            BY <1>0, <2>1, <4>1, ElementsOf
      <4>3. Stands(d)
            BY <1>2, <2>1, <4>1, <4>2 DEF Bypassed
      <4>4. QED
            BY <1>2, <4>3, StandsKept
    <3>4. QED
          BY <3>1, <3>2, <3>3
  <2>2. ASSUME pc' \notin {"lookup", "bypass"} PROVE hosts' = <<>>
    <3>1. CASE LoopEnds
          BY <1>2, <2>2, <3>1 DEF LoopEnds, After, AddLoops, DelLoops, Bypassed, OnTheWay, Circling
    <3>2. CASE Signal \/ TunLost \/ RenewDefault \/ LiftKillSwitch \/ Finished \/ UNCHANGED vars
          BY <1>2, <2>2, <3>2 DEF Signal, TunLost, RenewDefault, LiftKillSwitch, Finished, vars, Bypassed
    <3>3. CASE Crash \/ Restart
          BY <3>3 DEF Crash, Restart
    <3>4. CASE StartWithoutTun \/ CreateTun \/ ConfigureTun \/ CtxDone \/ KsDelete \/ KsAdd
               \/ KsAddFails \/ KsRestore \/ LookupEndpoint \/ AddBypass
          BY <1>2, <2>2, <3>4 DEF StartWithoutTun, CreateTun, ConfigureTun, CtxDone, KsDelete, KsAdd,
             KsAddFails, KsRestore, LookupEndpoint, AddBypass, OnTheWay, Circling
    <3>5. CASE AddSplitLow \/ AddSplitHigh \/ AddExclude \/ AddExtraRoute \/ AddDNSServerRoute
          BY <1>2, <3>5 DEF AddSplitLow, AddSplitHigh, AddExclude, AddExtraRoute, AddDNSServerRoute,
             Bypassed
    <3>6. CASE CleanupStarts \/ DelSplitLow \/ DelSplitHigh \/ DelRecorded \/ TunDown
               \/ CleanupDefault \/ CloseTun
          BY <1>2, <3>6 DEF CleanupStarts, DelSplitLow, DelSplitHigh, DelRecorded, DelLoops, TunDown,
             CleanupDefault, CloseTun, OnTheWay, Circling
    <3>7. QED
          BY <1>2, <3>1, <3>2, <3>3, <3>4, <3>5, <3>6 DEF Next, Process, Environment
  <2>3. orig' = orig
        BY <1>2, OrigKept
  <2>4. QED
        BY <1>0, <2>1, <2>2, <2>3 DEF Bypassed
<1>3. QED
      BY <1>1, <1>2

LEMMA BypassedBypasses == TypeInv /\ Bypassed => ControlPlaneBypassed
<1> SUFFICES ASSUME TypeInv, Bypassed, pc = "running", cfg.defaultRoute, orig.dev # "none",
                    NEW a \in EndpointAddrs
             PROVE  GoesTo(table, a, Device)
    BY DEF ControlPlaneBypassed
<1>1. hosts = <<>>
      BY DEF Bypassed, OnTheWay
<1>2. PICK h \in {"api", "connect"} : \E i \in DOMAIN Answer[h] : a \in Answer[h][i]
      BY DEF EndpointAddrs
<1>3. PICK i \in DOMAIN Answer[h] : Answer[h][i] = {a}
  <2>1. Answer[h] \in Seq({Host(x) : x \in Addr})
        BY <1>2, ConfigAssumption DEF ConfigAssumption
  <2>2. \A i \in DOMAIN Answer[h] : \E x \in Addr : Answer[h][i] = {x}
        BY <2>1 DEF Host
  <2>3. QED
        BY <1>2, <2>2
<1>4. Stands({a})
  <2>1. {a} \in Elements(Answer[h]) /\ Elements(hosts) = {}
        BY <1>1, <1>2, <1>3, ElementsOf DEF Elements
  <2>2. QED
        BY <1>2, <2>1 DEF Bypassed, OnTheWay
<1>5. PICK r \in table : r.dst = {a} /\ r.metric = 0 /\ r.dev \in Device
      BY <1>4 DEF Stands
<1>6. ASSUME NEW s \in table, a \in s.dst PROVE ~Beats(s, r)
  <2>1. s.metric \in Nat
        BY DEF TypeInv, TypeOK, Route
  <2>2. s.dst \subseteq {a} => s.dst = {a}
        BY <1>6
  <2>3. QED
        BY <1>5, <2>1, <2>2 DEF Beats
<1>7. QED
      BY <1>5, <1>6 DEF GoesTo

\* On such a host, where the `ip` commands and the look-ups work and no endpoint is itself
\* excluded: while a default-route session runs that found a default, each address of the
\* API and of the connect URL is routed to a physical device, whatever interfaces fail and
\* whatever crashed sessions have left (routes.go:7, routes_linux.go:95-118).
THEOREM EndpointsGoAround ==
  ASSUME Undisturbed, EndpointsApart
  PROVE  Spec => []ControlPlaneBypassed
<1> DEFINE Works == faults \cap {"add", "del", "dns", "list"} = {}
           Inv   == Account /\ Bypassed
<1>0. [Next]_vars => (Works' => Works)
      BY Fixed
<1>1. Init => TypeInv /\ Inv
      BY TypeInit, AccountInit DEF Init, Bypassed, OnTheWay, Circling
<1>2. TypeInv /\ (Works => Inv) /\ [Next]_vars => (TypeInv' /\ (Works' => Inv'))
      BY <1>0, TypeStep, AccountStep, BypassedStep
<1>3. TypeInv /\ (Works => Inv) => ControlPlaneBypassed
  <2>1. Works \/ ControlPlaneBypassed
        BY DEF ControlPlaneBypassed
  <2>2. QED
        BY <2>1, BypassedBypasses
<1> HIDE DEF Works, Inv
<1>4. QED
      BY <1>1, <1>2, <1>3, PTL DEF Spec
=============================================================================
