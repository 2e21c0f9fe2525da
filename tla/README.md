# Verification of urnet-client

This directory holds TLA+ models of `urnet-client`, the command-line VPN client of
this repository, the TLC runs that check them, and proofs about them that TLAPS
checks. It is written for a reader who has the sources at hand; a source position
such as `routes_linux.go:78` is relative to the root of the repository.

## 1. The system and its parts

`urnet-client` logs in to a provider network, keeps a JWT in a file, picks a
provider and carries IP packets between a TUN interface and that provider. Around
the TUN it changes the host's routes, and next to it, it runs a SOCKS5 server.
`main.go` parses the command line, cancels one context on SIGINT or SIGTERM and
dispatches to one `cmd*` function.

| Part | State it keeps | Operations | Talks to |
|---|---|---|---|
| Linux routing (`routes.go`, `routes_linux.go`) | what it added: bypass hosts, excludes, extras, DNS hosts, "splits added", the kill-switch flags, the original gateway and device | `AddKillSwitchRoute`, `AddBypassEndpoint`, `AddSplitDefault`, `AddExclude`, `AddExtraRoute`, `AddDNSServerRoutes`, `Cleanup` | the kernel's table through `ip`; the resolver |
| Linux session (`vpn_linux.go`) | the TUN, the deferred calls | `cmdVpn`, `linuxListDefaultRoutes` | the route manager, `vpnRunCore` |
| macOS routing (`routes_darwin.go`) | the same, with scoped routes, DNS bypass routes and the resolvers it set | the same, with `AddScopedDefault`, `AddScopedExclude`, `SetDNS`, `RemoveDNSBypass` | `route`, `networksetup` |
| macOS session (`vpn_darwin.go`) | the TUN, the packet counters, a goroutine that ends the DNS bypass | `cmdVpn` | the route manager, `vpnRunCore` |
| Dataplane (`vpn_core.go`) | four counters, the allow list of inbound sources | the receive callback with its filter, the TUN loop, the statistics loop, `vpnRunCore`'s wait | TUN, provider library, SOCKS server |
| SOCKS policy (`socks.go`) | the two lists of domains | `domainMatches`, the choice of the path | |
| SOCKS TCP server (`socks.go`) | the listener, a handler and two copies for each tunnel | `StartSocks5`, its `stop`, `handleSocksConn` | clients, remotes, context |
| SOCKS UDP association (`socks.go`) | the loopback socket, two outbound sockets, `lastClientAddr`, `clientAddrCh` | `runUDPAssociate` with a reader and two `sendBack` loops | clients, remotes |
| quick-connect (`cmd_quickconnect.go`) | the JWT it holds, the renewal goroutine | `cmdQuickConnect` | JWT store, API, `cmdVpn` |
| JWT store (`jwt.go`) | one file | `loadJWT`, `saveJWT`, `parseClientID`, `validateClientJWT` | every command that logs in |
| Authentication (`auth.go`, `cmd_auth.go`, `cmd_login.go`) | none | `loginWithPassword`, `verifyCode`, `mintClientJWT` and the commands for them | API, JWT store |
| Provider selection (`specs.go`, `api_http.go`) | none | `buildProviderSpecs`, its fall-back search | API |
| Configuration (`config.go`) | none | flags, defaults and YAML file merged into one record | |
| Logging, processes, helpers (`logger.go`, `process.go`, `util.go`) | log level, log file | formatting, `spawnBackground` | |
| Read-only commands (`cmd_locations.go`, `cmd_providers.go`, `cmd_open.go`, `cmd_socks.go`) | none | one request, one output | API |

What is hard, and what makes each part correct:

* **Routing.** Dozens of `ip` commands run one after the other, nearly every error
  is dropped, and the client may be signalled or killed, or the host may change its
  own routes, between any two of them. The next session starts on what the last one
  left. Correct means: a clean exit restores the host's table; while the session
  runs, what should be tunnelled is and the control plane is not; once the kill
  switch is announced nothing leaks, whatever happens; a kill switch that cannot be
  installed does not cut the host off; a signal ends the session.
* **SOCKS TCP.** The handshake has a deadline on a connection which is then reused
  without one; `stop` races the accept loop; one end of stream must travel through
  two copies. Correct means: one truthful reply, the lists obeyed, nothing left open,
  no tunnel cut by the handshake's deadline, no handler after `stop`, and every
  handshake, half-closed tunnel and `stop` ends.
* **SOCKS UDP.** Four goroutines share a pointer and a channel. Correct means: a
  reply goes only to an address the client used, no answer to a datagram is dropped
  for want of one, each datagram takes the path the lists say, the reader ends with
  the association, and the association lasts until the client closes the channel.
* **quick-connect.** A token is checked, minted, saved, read again and renewed by a
  goroutine and perhaps by another process; a save is a truncation and a write, and
  the process may die between the two. Correct means: the VPN starts only with a
  client token the command made sure of, renewal never replaces it with a worse one,
  credentials recover from any file, cancellation ends the command.
* **macOS.** The same manager with other habits: it records only what `route add`
  did, has scoped routes, changes the resolvers of a network service, and runs a
  goroutine that takes the DNS bypass away while the session starts, runs or ends.
  Correct means what it means on Linux, and that DNS goes where `--dns_bootstrap` says
  and SOCKS-only sessions leave the system's routes alone.
* **Configuration, providers, dataplane.** Options, file and defaults become one
  record with no trace of where a field comes from; the provider search falls from one
  answer to the next; the filter reads headers in packets of any length. Correct means:
  the user's word goes before the file's, the generator gets the providers asked for,
  what comes in is what was allowed, and a signal ends it all, whoever does not answer.

## 2. The modules

| Module | Models |
|---|---|
| `IpRoutes` | the kernel's IPv4 table: prefixes as sets of addresses, longest prefix, metrics, `ip route add` and `del`, the flush of an interface's routes; external to the repository, but for `Defaults`, `HighHalf` and `BlackholeDefault` |
| `LinuxVpn` | `cmdVpn` and every method of `linuxRouteManager`, one `ip` command a step, over several sessions on one host |
| `MCLinuxVpn` | eight addresses, five kinds of host, the command lines |
| `IpRoutesProofs` | lemmas about tables: what `add` and `del` leave, and that a matched address has a best route |
| `LinuxVpnProofs` | type correctness, the kill switch, the refinement of `KillSwitch`, the tunnel, the endpoints around it, connectivity and the host's table after an exit, proved |
| `KillSwitch` | what `--kill_switch` promises, without routes; both `LinuxVpn` and `DarwinVpn` implement it |
| `DarwinVpn` | `cmdVpn` and every method of `darwinRouteManager`, one command a step, the bypass goroutine, over several sessions on one host |
| `MCDarwinVpn` | eight addresses, four kinds of host, ten command lines |
| `DarwinVpnProofs` | the refinement of `KillSwitch`, the tunnel, the scoped sessions, the host's table and resolvers after an exit, the endpoints and the DNS servers around the tunnel, proved |
| `SocksPolicy` | `domainMatches`, the choice of the path, and the references `Under` and `MustUseVPN` |
| `SocksConnect`, `MCSocksConnect` | `StartSocks5`, `stop`, `handleSocksConn`, the two copies |
| `SocksUdp`, `MCSocksUdp` | one `runUDPAssociate` and its goroutines |
| `SocksPolicyProofs`, `SocksConnectProofs`, `SocksUdpProofs` | the policy against its reference; every invariant and action property of the two servers, proved |
| `QuickConnect`, `MCQuickConnect` | `cmdQuickConnect`, its renewal goroutine, the JWT file, other commands that save |
| `QuickConnectProofs` | its types and its three invariants, proved |
| `ConfigMerge` | `parseVPNConfig`, `applyConfigFile`, and the reference `Meant` |
| `ProviderSpecs` | the fall-back filter and its loops (`Kept`), the specs made from it and from ids, and the reference `Wanted` |
| `PacketFilter` | `shouldDropInbound` and the receive callback's decision, and the references `HoldsTCP`, `Opens`, `Strays` |
| `VpnCore`, `MCVpnCore` | composes the three: `main`'s `vpn` case and quick-connect's last step, `buildProviderSpecs`, `vpnRunCore` |
| `VpnCoreProofs` | precedence, the inbound policy and what the provider generator gets, proved |

How a module corresponds to the code: an action is a statement or a run of
statements no other actor can observe in the middle; `pc`, `at`, `handler` or `main`
names the next one. Error returns are branches of the action, early returns are its
guards, and everything outside the process (signals, crashes, clients, remotes,
timers, the server, the kernel) is an action of the environment under no obligation.
`PROJECT.json` gives the lines each definition stands for.

* `LinuxVpn`: `todo` is what the current `for` loop has not reached, `rm` the fields
  of `linuxRouteManager`, `orig` the pair `origGw`/`origDev`, `sealed` records that
  "blackhole default route installed" was printed and not lifted since. `StartWithoutTun`
  to `DetectGateway` are `cmdVpn`'s set-up, `Ks*` is `AddKillSwitchRoute` statement by
  statement, `CleanupStarts` to `CleanupDefault` is `Cleanup`, `CloseTun` the last
  deferred call. A prefix is a set of addresses, so the eight addresses give `/0`,
  both `/1`s, a LAN and `/32`s. IPv6 is out: the code adds no IPv6 route on Linux.
* `SocksConnect`: a request is a record of what the handler tells apart (version,
  command and address type acceptable or not, a name or none, whether it resolves); a
  peer is open, has ended its sending, or is gone.
* `SocksUdp`: `Listen` writes the reply, `OpenSockets` is the creation of `pcVPN` and
  `pcSys`, `Then` the order of the reader's statements, `Back*` one `sendBack` loop.
  `channel` is what the read at `socks.go:486` will find: `"unread"` is the rest of
  the ASSOCIATE request, which the handler does not consume; it is `"silent"` first when
  that rest comes in a later segment, and may become `"unread"` at any time.
* `QuickConnect`: a token is its scope and a number; a renewal interval is assumed
  longer than the few statements between the start of the goroutine and the start of
  the VPN. `cmdVpn` is one state here, `"running"`.
* `DarwinVpn`: the commands of the set-up and of `Cleanup` are a list, `todo`, made
  where the code decides (`SetUp`, `CleanUp`) and worked off one a step; `job` is the
  goroutine of `vpn_darwin.go:148`. The kernel is taken to keep one unscoped route for a
  prefix, to keep routes with `-ifscope` apart, to refuse an add with "File exists", to
  delete by prefix, and to tell no gateway for a blackhole default. `Resolvers` are the
  host's own, a look-up needs one that is reached through a physical interface.
* `VpnCore`: values are texts without inner structure; `ParseId`, `Query` and `Nets` say
  what a text means where a field is used, so that one command line reaches through
  merge, provider search and filter. A `find-locations` answer of `<<>>` is an error or
  an empty one, which the code treats alike. A packet is its length, version, header
  length, protocol, two flag bits, source and whether it is a later fragment.

**Mutations.** A definition `Name_Word` that stands before `Name` is a mutation of
it: a mistake the code could have contained. Replacing the body of `Name` by it must
break the property the table in `PROJECT.json` pairs it with; this is how each
property is shown to depend on the code. No specification uses one.

## 3. The runs

| Run | Shows |
|---|---|
| `linux_sessions` | Five kinds of host (one gateway, two, an on-link default, both, none), every command line, with and without kill switch, two sessions in which the client may die anywhere, the host may change its routes and any command may fail: `KillSwitchSeals`, `RestoresHostRoutes` (also after a crashed session), `TunnelsEverything`, `ControlPlaneBypassed`, `ConnectivityKept`, `Terminates`, and `KeepsPromise`: the model implements `KillSwitch`. Each of these names the failures it leaves out; `KillSwitchSeals`, `KeepsPromise` and `Terminates` leave out none |
| `linux_clash` | Violation of `RestoresHostRoutes`: a `--route` the host already has is refused, recorded, and deleted by `Cleanup` |
| `linux_offlink` | Violation of `ControlPlaneBypassed`: with the kill switch and a resolver beyond the gateway the endpoints cannot be looked up any more |
| `socks_connect` | One connection with eight kinds of request, every failure, the deadline passing anywhere, against the accept loop, cancellation and `stop`: five invariants, no handler after `stop`, and three liveness properties |
| `udp_association` | Two source addresses, two datagrams, one answer on each socket, sockets that do not open: `PathFollowsLists`, `RepliesToKnownAddress`, `NoAnswerDropped`, `ReaderEnds` |
| `udp_unread` | Violation of `OpenUntilClientCloses`: the unread rest of the request ends the association at once |
| `udp_fallback` | Violation of `ListedThroughVPN`: the kernel refuses to bind the VPN socket, and a datagram for a listed domain leaves by the default route |
| `qc_sessions` | Two sessions on any stored token, killed anywhere, with withdrawn tokens and a server that stops issuing, or with failing calls and saves and another process writing the file: `StartsWithEnsured`, `RenewalKeepsClientToken`, `CredentialsSuffice`, and `CancelEnds`: cancellation ends the command from every statement |
| `darwin_sessions` | Four kinds of host (resolver beyond the gateway, on the LAN, with a route of its own, no gateway), ten command lines, two sessions, with crashes and renewals, or with failing adds, look-ups, resolver settings or deletes: `RestoresHost`, `TunnelsEverything`, `ControlPlaneBypassed`, `DnsFollowsBootstrap`, `SocksOnlyScoped`, `KeepsPromise`, `Terminates`, `BypassEnds` |
| `vpn_core` | Both commands, sixteen command lines, files that are missing, unreadable or set every field, every answer of the API, packets at each boundary of the filter: `PrecedenceKept`, `SpecsServeRequest`, `InboundPolicy`, `CoreEnds` |
| `core_flags` | Violation of `FlagsFirst`: an option given with its default's value is overwritten by the file |
| `qc_flag` | Violation of `StartsWithEnsured`: a client token given with `--jwt` is validated, but the VPN starts with what the file holds |

### Bounds, and why they are enough

* *Linux.* Every list of the command line has one or two elements, enough for the
  second element of a loop and for a prefix that is on two lists. Both URLs may
  resolve to the same address, recorded twice. Two sessions: what a session depends on
  is the table the last one left, and the residues of one session (routes of a crashed
  one, a blackhole, a lifted blackhole) all exist after one; the proofs are for any number
  of them. Each behaviour has one of three sets of failures: the TUN; the interface and
  adds; the interface, deletes, look-ups and listings. Crashes, lease renewals and a
  blackhole that is refused go with each of them; the proofs allow any mixture.
* *SOCKS.* Handlers share nothing but the listener and the context, so one connection
  against loop, canceller and `stop` has every interleaving that matters. In UDP the
  shared state has one pointer and one slot: two addresses, two datagrams and an answer
  for each loop fill it, and let every access fall between any two others.
* *quick-connect.* `MaxTokens` makes the server stop issuing, which is how a mint or
  a login fails in the middle; a second session sees every file the first could leave.
  Each behaviour has one of three sets of failures: withdrawn tokens and kills; failing
  calls; failing calls and saves with one save of another command (`MaxOthers`).
* *macOS.* Two sessions, for the manager takes nothing from an earlier one but the
  table; each behaviour has one of four sets of failures: the TUN, crashes and renewals;
  `route get`, adds and the blackhole; resolvers and look-ups, with crashes; deletes, with
  crashes. Lists of one and two elements, one of them with the same element twice.
* *Core.* Fields are merged independently of each other, but for `--socks` and its
  alias, so command lines that give every field the same kind of value meet every pair
  of option and file for each field. Listings have two locations in one country, ids of
  groups that locations share, and ids that do not parse. Packets stand on either side of
  each comparison of the filter.

The UDP and TCP models share `UseVPN`; the TCP run adds destinations outside both lists and
unresolvable names. Both give a `--domain` list; the empty list is left to the definition.

`CHECK_DEADLOCK FALSE` is set for the SOCKS, quick-connect and core runs, where the
system really may stop: connections are over, the process has ended, the bound on sessions
is reached. `LinuxVpn` and `DarwinVpn` have an action for that instead (`Finished`).

### Fairness

* `LinuxVpn`: weak fairness of the client's own statements, which call `ip` and go on;
  none for signals, crashes, the host, or a restart.
* `SocksConnect`: each goroutine runs on, timers fire, lookups and dials end (Go bounds
  them). Nothing obliges a client to speak. `EndsTravel` needs one assumption on peers, in
  `PoliteSpec`: who was sent an end of stream ends its own side in time. A dial's
  timeout of 30 s comes after the handshake's deadline of 10 s.
* `SocksUdp`: handler, reader and loops run on; clients, peers, deadline owe nothing.
* `DarwinVpn`: as on Linux, and weak fairness of the goroutine, whose deadline of three
  seconds passes.
* `VpnCore`: the client's statements run on. A request to the API ends for certain only
  when the context is cancelled (`http.DefaultClient` has no timeout), so that is all
  the fairness `Answer` has.
* `QuickConnect`: the command's statements run on (calls and timers are bounded), and
  `cmdVpn` returns when cancelled, which is `Terminates` of `LinuxVpn`.

## 4. What is proved

A theorem holds for every value of the constants that satisfies the `ASSUME`s of the
module: any set of addresses, hosts, command lines, connections, tokens, faults, any
number of sessions. What a theorem needs beyond these is a hypothesis of its statement;
each is listed below with the reason the code gives for it. Every invariant below was an
invariant of a TLC run before it was proved.

**Routing tables** (`IpRoutesProofs`). `AddSubset`, `RemovalSubset` and `TablesStayFinite`
say what the commands make of a table. `BestMatch`: in a finite table an address that some
route matches has a best one. It needs a well-founded order (the sets of better routes
under inclusion), for a table may have any number of routes; it is why host tables are
assumed finite.

**Linux** (`LinuxVpnProofs`).

* `TypeCorrect == Spec => []TypeOK`. `TypeOK` is not inductive: `ViaOriginal` builds a
  route with `orig.dev`, which may be `"none"`. `TypeInv` adds that a pending bypass
  implies a device (`AddBypassEndpoint`'s early return) and that the kill switch's second
  statement follows its first.
* `KillSwitchHolds`: under `ListsOmitDefault` (no list on a command line names
  `0.0.0.0/0`), `Spec => []KillSwitchSeals`. `KillSwitchSeals` says where packets go, so it
  depends on the whole table. The invariant is `SealInv`: an announced blackhole is in the
  table; no two routes share prefix and metric, so no default of metric 0 stands beside
  it; every other route to a device is the host's or one the user asked for
  (`OnlyAllowed`), which needs that the lists still to be worked through are (`todo`);
  and no recorded prefix is the default, so that `Cleanup`'s deletes by prefix miss the
  blackhole. The proof has one lemma per conjunct and, where it matters, one step per
  action. `SealInvSeals` then shows that the table routes no other address to a device.
  The condition is needed: see section 5.
* `PromiseKept`: under the same condition, `Spec => KeepsPromise`, so the Linux sessions
  implement `KillSwitch` for every instance. `SealInv` gives the part about leaks
  (`StaysBlocked`); `PhaseSteps` says which abstract step each concrete one is. It needs
  `PhaseInv`: a session that is about to announce the block has not announced it yet
  (what a crashed session recorded is forgotten by `newLinuxRouteManager` before that),
  and one without an interface never does.
* `TunnelTakesAll`: `Spec => []TunnelsEverything` where no host has a `/1` of metric 0
  (`HalvesFree`; `AddSplitDefault` fails in silence there, section 5). The property itself
  asks for a session whose interface is up and whose adds were carried out: the code does not
  notice a refused or a lost `/1`. The invariant `TunnelInv` follows both `/1` routes from the
  statement that adds them, and says of every other route that it is a default, allowed around
  the tunnel, or the host's (`Tame`), which rests on what the loops range over (`AroundInv`).
  `TunnelTakes` turns that into where an address goes, by `BestMatch`. Deletes that fail,
  crashes, renewals and the kill switch are all inside the theorem, and no condition on lists
  is needed.
* `ConnectivityHolds`: `Spec => []ConnectivityKept` under `ListsOmitDefault`, with hosts whose
  defaults go to devices (`DefaultsGoOut`). The property asks for adds that work and for a
  host without a standing blackhole, since beside one the restore is refused too (section 5).
  `Connected` has to say that there is a default from the restoring statement on, at every
  later statement, and that no default leads into the tunnel, whose loss would take it away.
* `HostRestored`: `Spec => []RestoresHostRoutes`, on a host that is `Undisturbed`. The
  property leaves out what a failing delete, look-up or listing leaves behind; adds,
  interfaces, the blackhole, lease renewals and crashes may do what they like. The invariant
  `Account` says that the host's routes are kept but for a sealed default (`HostKept`), that
  every other route is the tunnel's, the blackhole, the default put back, or one `Left` around
  the tunnel (`Accounted`), and that a route of the last kind, whichever session added it, is
  among the prefixes the rest of this session will delete (`WillGo`). `Pending` names those
  prefixes at every statement: what has been recorded, what the current loop still holds and,
  before the lookups, what they are going to answer. `PendingStep` follows them through each
  action. The hypotheses are what the code leaves open: `NoClash`, no host routes by itself
  what the client is asked to route (else it is deleted: `linux_clash`); `Answered`, the
  resolver is reached by a route that survives (`linux_offlink`, and a name that resolves once
  and not the next time leaves the crashed session's bypass routes); `DefaultsGoOut`. That the
  resolver answers (`ResolverAnswers`) is `BestMatch` again, since crashed sessions may have
  left routes that go before the host's.
* `EndpointsGoAround`: `Spec => []ControlPlaneBypassed` there, where routes are added and
  deleted and names looked up (the property says so) and no endpoint is excluded under the
  kill switch (`EndpointsApart`: a session
  that finds no default makes what is excluded unreachable, and a crash leaves that in the
  way of the next one's bypass). `Bypassed`: each address that a lookup of this session has
  answered has a /32 to a device, but for those the loop has not reached. `BypassAdded`
  shows it of a refused add too: by `Account` only an earlier session's bypass can be in
  its place.

**macOS** (`DarwinVpnProofs`).

* `PromiseKept`: under `ListsOmitDefault`, `Spec => KeepsPromise`. The invariant `Inv` has
  four parts: `Commands`, what may stand in the list of commands still to come (the kill
  switch's pair only at its head, the delete only where no announcement stands);
  `Recorded`, what the manager and the goroutine may hold; `Control`; and `Seal`, the
  announced blackhole, one route for a prefix, `OnlyAllowed`. Unlike on Linux no step of
  a session takes a standing block away: `AddKillSwitchRoute` deletes only a default with
  a gateway, and a blackhole has none, so the abstract `Break` is never a session's.
* `TunnelTakesAll`: `Spec => []TunnelsEverything` without a hypothesis. The property
  itself asks for a session whose adds work; `route change` takes a `/1` over from whoever
  has it, so `HalvesFree` is not needed. `Tunnel` says that each half goes into the tunnel
  or its command is still to come, and that every specific route that goes elsewhere was
  there before or is to be (`before` is the table the session found).
* `SocksSessionsScoped`: under `ListsOmitDefault`, `Spec => []SocksOnlyScoped`. `Bare`
  keeps the host's own default in the table, which is why a lease renewal changes nothing
  (and why the condition is needed: a recorded `0.0.0.0/0` would be deleted); `Scoped` says
  the same of the scoped routes as `Tunnel` does of the halves.

* `HostRestored`: `Spec => []RestoresHost`. That nothing of the host is lost holds whichever
  commands fail; that nothing of the session is left is claimed where deletes work, and that
  the resolvers are not the client's where `networksetup` works, for the code looks at neither
  error. `Restorable` says that the host's routes stand but for a sealed default (`HostKept`);
  that every other route is a default of the host, the tunnel's, the blackhole, or one the
  rest of the session deletes (`AllAccounted`, where deletes work; `Pending` follows it
  through the records, `Cleanup`'s list, and the goroutine, which may be half through its own:
  `Dns`); that what is recorded or queued for deletion is never the host's (`Free`); and that
  the resolvers are the client's only while the session knows it (`Resolving`, where
  `networksetup` works). `Course` says where each command may stand, and that the goroutine
  starts after the set-up (`CacheLast`): nothing is recorded while it ranges over the record.
  The hypotheses are what the code leaves open: `NoClash`, since `Cleanup` deletes by prefix
  what `--route`, the halves and the scoped adds recorded, whoever has the unscoped route;
  `DefaultsGoOut` for the default.
* `EndpointsGoAround`: `Spec => []ControlPlaneBypassed`, where the host sends endpoints and
  resolvers to devices (`LookedGoOut`) and no command line excludes them (`NotExcluded`: a
  session without a gateway makes what is excluded unreachable, and a crash leaves that to
  the next session). `Order` keeps the lookups before everything but the kill switch;
  so while one is outstanding nothing goes into a tunnel and a resolver is reached
  (`Answering`, `ResolverAnswers`), each answer has its route or its command (`Answered`),
  and the DNS bypass, added later, never records a route the endpoints rest on
  (`Untouched`), though a server may be an endpoint: this is what keeps the goroutine from
  deleting it.
* `BootstrapFollowed`: `Spec => []DnsFollowsBootstrap`, where the host sends the servers of a
  session (whose adds, deletes and look-ups work) that routes them around the tunnel to
  devices, and its command line neither excludes one nor names its /32 with `--route`
  (`ServersApart`: the route into the tunnel comes first, and then the bypass is refused).
  `Following` says that until the goroutine begins each server has its route or a command that
  leads to it (`Served`); that nothing but a device's route can stand in its place
  (`Straight`, `ServerWays`); that every specific route around the tunnel was there before, is
  an endpoint's or an excluded prefix's, or is one the goroutine still deletes (`AllPlaced`),
  so that after it none is left for DNS; and that no record outlives it (`CacheOnly`).

**SOCKS** (`SocksPolicyProofs`, `SocksConnectProofs`, `SocksUdpProofs`).

* `MatchesIsUnder` and `PolicyAsDocumented`: the comparison of suffixes in `domainMatches`
  is "the entry or below it", and the path is the documented one, for every name and list.
* Of the TCP server every invariant and action property: `TypeCorrect`, `RepliesTrue`,
  `RemotesClosed`, `ListsFollowed`, `TunnelsOutliveHandshakes`, `StopStopsHandlers`, for
  any number of connections. `ListsFollowed` goes both ways: a connected socket is one the
  kernel was asked to bind to the VPN exactly if the documented rule (`MustUseVPN`) sends
  its name there and there is an interface. Whether the kernel binds it is not the code's
  doing, nor does the code ask (`socks.go:513`). `Ordered` ties each connection's
  statement to its replies, its remote, its copies and its deadline; `LoopInv` says that
  the loop holds an accepted connection only between accept and `go`, and that `stop`
  returns after the loop, without which `StopStopsHandlers` fails for the connection in
  its hands. `OneConnection` reduces a step to one connection.
* Of the UDP association: `TypeCorrect`, `ListsFollowed` (of an association that has its VPN
  socket; `udp_fallback` shows the others), `RepliesOnlyToClients`, `AnswersKept`. `Known`
  says that pointer, channel and the two loops hold only addresses of datagrams, `Noted` that
  the pointer is set before anything goes out, `Routed` that the sockets do not change between
  the datagrams.

**quick-connect** (`QuickConnectProofs`). `TypeCorrect` without a hypothesis. The other
properties themselves ask that no other command saves a token (`Alone`, section 5).

* `StartsEnsured`: `StartsWithEnsured`, where no client token is given with `--jwt` (the
  run `qc_flag` shows what happens with one), for all faults. `Ensured` says what the
  command holds and what the file holds at each statement between validating and starting.
* `RenewalKept`: the same for `RenewalKeepsClientToken`, which leaves out failing saves:
  an interrupted save leaves an empty file.
* `CredentialsEnough`: `CredentialsSuffice`, which is about calls and saves that succeed.
  `Sufficient` needs that the token in use is of this session, since an old one may be revoked.

**Core** (`VpnCoreProofs`), one invariant `Inv` and no hypothesis. `PrecedenceHolds`:
`CfgMerged` says that the configuration is a function of command line and file, and each
field is compared with `Meant`. The property follows the code in two places where a document
says otherwise: an option that names its default yields to the file (`core_flags`), and
quick-connect reads no file (`FileRead`). `PolicyKept`: `LastJudged` says that nothing a verdict
rests on has changed since it was given. `RequestServed`: `Spec => []SpecsServeRequest`.
`Asking` says which questions have been asked at each statement, and that without an answer
of find-locations the specs are `FindSpecsByQueryFallback` of the listing; `FallbackServed`
says what that is for every listing: each id in `Wanted`, once. Its loops are all `Kept`,
a recursive function of the round, and the induction over the rounds is done on sets
instead of predicates, since the library's induction theorems take an operator:

* `CountedUp`: a set that holds 0 and with `i-1` also `i`, up to `n`, holds `0..n`. It rests
  on the well-founded order of the finite sets `1..i`;
* `LoopRuns`: with it, the function that a step defines round by round exists, so that the
  `CHOOSE` behind a recursive function has something to choose, and `KeptRuns` that `Kept`
  is that function's last value;
* `KeptElements`: `Kept` holds what stands at the indices it is given, once if they differ;
  `UnseenIds`: the indices with an id that none before has are enough for every id;
* `Filtered`, twice, and `SpecsOfIds` follow the two halves of the search; `OnceCounted`
  turns "no id twice" into the number of specs.

`CoreAssumption` asks of a listing only that its two parts are sequences.

**Only model-checked:**

* all liveness (`Terminates`, `EndsTravel`, `ReaderEnds`, `CancelEnds`, `BypassEnds`,
  `CoreEnds` and the others): fairness is out of the prover's reach.

Every invariant that a passing run checks is stated by a theorem.

## 5. Where the code and its promises part

Kept as runs, each with a counterexample: `linux_clash`, `linux_offlink`, `udp_unread`,
`udp_fallback`, `qc_flag`, `core_flags`; `PROJECT.json` quotes the promise. The
consequences met while modelling, which no run keeps because a property excludes them by a
stated condition:

* an on-link default is not put back when the blackhole cannot be installed
  (`routes_linux.go:84`; `ConnectivityKept` asks for a gateway);
* a host that an earlier session sealed, with a default that a lease renewal brought: the
  next session deletes that default (`routes_linux.go:72`), and as the old blackhole stands
  both the new one and the restore at `:85` are refused, so there is no way out
  (`ConnectivityKept` leaves out hosts where a blackhole stands);
* `--route=0.0.0.0/0` with the kill switch: the refused route is recorded and `Cleanup`
  removes the blackhole (`ListsOmitDefault`);
* another VPN's `/1` routes make `AddSplitDefault` fail in silence (no host of
  `CleanHosts` has them), and a `/1` that is refused or lost with its interface is not
  noticed either (`TunnelsEverything` leaves out the failures `add` and `link`);
* a delete, look-up or listing that fails leaves its route behind with no record
  (`RestoresHostRoutes`, `ControlPlaneBypassed` leave these failures out);
* a second kill-switch session deletes the blackhole of the first before it adds its own
  (`routes_linux.go:76`; `sealed` ends with that deletion);
* a session that crashed with the kill switch leaves bypass routes that no later one
  removes, since it finds no gateway (`RestoresHostRoutes` asks a kill-switch session
  only for what it added itself);
* a dial that times out is answered on a connection whose deadline passed 20 s before;
* a `sendBack` loop may store an address from the channel over a newer one
  (`socks.go:453`); the two loops and their sockets are never ended (`socks.go:481`);
* a TCP socket that the kernel refuses to bind is connected through the system's routes, as
  `udp_fallback` shows for UDP (`TunnelFollowsLists` says what the kernel was asked);
* an `accept` that fails for want of descriptors ends the SOCKS server for good;
* another command's save while quick-connect starts makes it read an empty or another
  token (`jwt.go:40`), and an exit in the middle of a renewal leaves the file empty;
* on macOS the errors of deletes are dropped while the records go, so a DNS bypass may
  outlive the message that it was removed (`routes_darwin.go:227`) and a session's route its
  `Cleanup` (`RestoresHost` and `BypassEnds` leave out failing deletes); `networksetup` may
  fail to clear the resolvers, with a warning (`routes_darwin.go:307`);
* on macOS a kill switch that cannot be installed leaves the host without its default
  (`routes_darwin.go:244` has no restore); `--route` of a prefix the host routes is
  recorded on "File exists" and deleted at the end (`routes_darwin.go:180`, as in
  `linux_clash`); another VPN's `/1` is taken over by `route change`; scoped excludes are
  deleted without `-ifscope` (`routes_darwin.go:277`); resolvers are set to Empty, not
  back (`routes_darwin.go:307`); a SOCKS-only session with `--exclude_route` has no scoped
  default (`vpn_darwin.go:109`);
* quick-connect does not read the file of `--config` (`cmd_quickconnect.go:193`), although
  `docs/configuration.md:12` says it accepts one; `log_level` in the file is parsed and
  not applied; the document's `socks_listen` is no key of the file (`socks` is);
* `docs/platform-notes.md:69` says "IPv6 packets from the TUN are silently dropped", and
  the loop at `vpn_core.go:225` has "No egress userspace filtering";
* `country_code: DE` with a space finds nothing: that value alone is compared untrimmed
  (`specs.go:136`); a location id that does not parse, a query that finds nothing and an
  API that fails all end as BestAvailable, with no warning (`specs.go:41`);
* later fragments of a TCP segment are filtered by payload bytes (`vpn_core.go:48`).

## 6. What is not modelled, and why

Log messages, formats, the bytes of SOCKS headers and DNS queries, the choice of a DNS
server inside the SOCKS resolver, TLS and the API's transport: no property is about
them. The provider library is external. Parsing by docopt and YAML, `spawnBackground`
and the read-only commands have no state that feeds back. The IPv6 address of the TUN
has no route behind it, and no route on either system
is one of IPv6. The variants of `route add` that macOS versions want are one command in
`DarwinVpn`. The packet counters feed the statistics and the end of the DNS bypass, which
`CacheOver` lets come at any time.

## 7. Plan

What is left, in the order of its worth:

1. `LinuxVpn` with the provider search of `VpnCore`: a query that fails because the kill
   switch took the default.
2. `QuickConnect` with `VpnCore`.
