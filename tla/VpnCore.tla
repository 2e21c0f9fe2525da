------------------------------- MODULE VpnCore -------------------------------
(***************************************************************************)
(* From the command line to packets: the configuration `vpn` and           *)
(* `quick-connect` make (main.go, cmd_quickconnect.go, config.go), and     *)
(* vpnRunCore (vpn_core.go) with its choice of providers (specs.go,        *)
(* api_http.go), the receive callback, the loop that reads the TUN, and    *)
(* the end.  Routes are LinuxVpn's and DarwinVpn's subject.                *)
(* A definition Name_Word that stands before Name is a mutation of it.     *)
(***************************************************************************)
EXTENDS ConfigMerge, ProviderSpecs, PacketFilter

CONSTANTS
  OptionSets,  \* the command lines tried, as option values
  Files,       \* what --config may name: [given, readable, fields]
  ParseId,     \* the id a text of --location_id or --location_group_id is, or NoId
  Query,       \* the key and value a text of --location_query is split into
  Nets,        \* the networks in a text of --allow_inbound_src, without those that do not parse
  LocalNets,   \* loopback, link-local, RFC 1918 and carrier-grade NAT
  TunNet,      \* the network of --ip_cidr
  Found,       \* answers of find-locations; <<>> is an error or none
  Listings,    \* answers of provider-locations
  Packets      \* packets from the provider

NoListing == [groups |-> <<>>, locations |-> <<>>]
NoFields  == [f \in FileField |-> "empty"]

Text == (Value \cup {"blank"}) \ {"empty"}

ASSUME CoreAssumption ==
  /\ OptionSets \subseteq Options
  /\ Files \subseteq [given: BOOLEAN, readable: BOOLEAN, fields: ConfigFile]
  /\ ParseId \in [Text -> Id \cup {NoId}]
  /\ Nets \in [Text -> SUBSET SUBSET Source]
  /\ LocalNets \subseteq SUBSET Source /\ TunNet \subseteq Source
  /\ <<>> \in Found /\ NoListing \in Listings
  /\ \A l \in Listings : /\ l.groups \in Seq(Elements(l.groups))
                        /\ l.locations \in Seq(Elements(l.locations))
  /\ Packets \subseteq Packet

VARIABLES
  pc,         \* where main, and then vpnRunCore, is
  command,    \* "vpn" or "quick-connect"
  opts, file, \* what the user gave
  cfg,        \* VPNConfig
  found,      \* what find-locations answered
  listing,    \* what provider-locations answered
  specs,      \* the provider specs of the generator
  block,      \* blockNewInbound
  allow,      \* allowInboundCIDRs
  reader,     \* the loop from the TUN to the provider: "off", "reading", "ended"
  socks,      \* the SOCKS server: "off" or "on"
  last,       \* the last packet received, and whether it was passed on to the TUN
  cancelled   \* ctx.Done() is closed

vars == <<pc, command, opts, file, cfg, found, listing, specs, block, allow, reader, socks,
          last, cancelled>>
given     == <<command, opts, file>>
providers == <<found, listing, specs>>
dataplane == <<block, allow, reader, socks, last>>

NoPacket == [len |-> 0, version |-> 0, ihl |-> 0, tcp |-> FALSE, syn |-> FALSE, ack |-> FALSE,
             src |-> CHOOSE s \in Source : TRUE, fragment |-> FALSE]

Init ==
  /\ pc = "main" /\ cancelled = FALSE
  /\ command \in {"vpn", "quick-connect"} /\ opts \in OptionSets /\ file \in Files
  /\ cfg = [f \in Field |-> "empty"]
  /\ found = <<>> /\ listing = NoListing /\ specs = <<>>
  /\ block = FALSE /\ allow = {} /\ reader = "off" /\ socks = "off"
  /\ last = [packet |-> NoPacket, passed |-> FALSE]

(***************************************************************************)
(* The configuration.                                                      *)
(***************************************************************************)
\* quick-connect parses the same options and has no use for --config.
ParseOptions ==
  /\ pc = "main"
  /\ cfg' = ParseVPNConfig(opts)
  /\ pc' = IF command = "vpn" /\ file.given THEN "load" ELSE "choose"
  /\ UNCHANGED <<given, providers, dataplane, cancelled>>

LoadConfigFile ==
  /\ pc = "load"
  /\ IF file.readable THEN cfg' = ApplyConfigFile(cfg, file.fields) /\ pc' = "choose"
     ELSE pc' = "failed" /\ UNCHANGED cfg
  /\ UNCHANGED <<given, providers, dataplane, cancelled>>

(***************************************************************************)
(* buildProviderSpecs.  No request has a deadline; a cancelled one fails.  *)
(***************************************************************************)
IdIn(f)  == IF cfg[f] = "empty" THEN NoId ELSE ParseId[cfg[f]]
Asked    == Query[cfg["location_query"]]
OrBest(s) == IF s = <<>> THEN <<BestAvailable>> ELSE s

\* Mutation: the query goes before the ids.
ChooseSpecs_QueryFirst ==
  /\ pc = "choose"
  /\ IF cfg["location_query"] # "empty" THEN pc' = "find" /\ UNCHANGED specs
     ELSE /\ specs' = OrBest(SpecsById(IdIn("location_id"), IdIn("location_group_id")))
          /\ pc' = "connect"
  /\ UNCHANGED <<given, cfg, found, listing, dataplane, cancelled>>

ChooseSpecs ==
  /\ pc = "choose"
  /\ LET byId == SpecsById(IdIn("location_id"), IdIn("location_group_id"))
     IN  IF byId = <<>> /\ cfg["location_query"] # "empty" THEN pc' = "find" /\ UNCHANGED specs
         ELSE specs' = OrBest(byId) /\ pc' = "connect"
  /\ UNCHANGED <<given, cfg, found, listing, dataplane, cancelled>>

FindLocations ==
  /\ pc = "find"
  /\ found' \in IF cancelled THEN {<<>>} ELSE Found
  /\ specs' = found'
  /\ pc' = IF found' = <<>> THEN "list" ELSE "connect"
  /\ UNCHANGED <<given, cfg, listing, dataplane, cancelled>>

\* An error looks like a listing of nothing.
ProviderLocations ==
  /\ pc = "list"
  /\ listing' \in IF cancelled THEN {NoListing} ELSE Listings
  /\ specs' = OrBest(FindSpecsByQueryFallback(listing', Asked))
  /\ pc' = "connect"
  /\ UNCHANGED <<given, cfg, found, dataplane, cancelled>>

(***************************************************************************)
(* The dataplane.                                                          *)
(***************************************************************************)
\* Mutation: entries given by the user replace the local networks.
AllowedNets_UserOnly ==
  IF cfg["allow_inbound_src"] # "empty" THEN Nets[cfg["allow_inbound_src"]]
  ELSE IF cfg["allow_inbound_local"] = "on" THEN LocalNets \cup {TunNet} ELSE {}

\* An entry that does not parse is left out.
AllowedNets ==
  (IF cfg["allow_inbound_src"] # "empty" THEN Nets[cfg["allow_inbound_src"]] ELSE {})
    \cup (IF cfg["allow_inbound_local"] = "on" THEN LocalNets \cup {TunNet} ELSE {})

\* The allow list, and the multi-client, from which on packets come in.
Connect ==
  /\ pc = "connect"
  /\ block' = (cfg["allow_inbound_local"] = "on" \/ cfg["allow_inbound_src"] # "empty")
  /\ allow' = AllowedNets
  /\ pc' = "loops"
  /\ UNCHANGED <<given, cfg, providers, reader, socks, last, cancelled>>

\* The goroutine that reads the TUN, and the SOCKS server, whose failure is a warning.
StartLoops ==
  /\ pc = "loops"
  /\ reader' = "reading"
  /\ socks' \in IF cfg["socks"] = "empty" THEN {"off"} ELSE {"off", "on"}
  /\ pc' = "running"
  /\ UNCHANGED <<given, cfg, providers, block, allow, last, cancelled>>

\* The receive callback.  The result of the write is dropped, and the packet counted; what
\* the counts lead to is CacheOver of DarwinVpn.
Receive ==
  /\ pc \in {"loops", "running", "stopping", "cleanup"}
  /\ \E p \in Packets :
       last' = [packet |-> p, passed |-> Passes(p, cfg["enable_ipv6"] = "on", block, allow)]
  /\ UNCHANGED <<pc, given, cfg, providers, block, allow, reader, socks, cancelled>>

\* A packet from the TUN goes to the provider, unfiltered, and changes nothing here; an
\* error ends the loop, and nobody is told.
ReadError ==
  /\ reader = "reading"
  /\ reader' = "ended"
  /\ UNCHANGED <<pc, given, cfg, providers, block, allow, socks, last, cancelled>>

(***************************************************************************)
(* The end.                                                                *)
(***************************************************************************)
\* Mutation: the loop is joined first, which ends when the caller closes the TUN.
CtxDone_JoinsLoop ==
  /\ pc = "running" /\ cancelled /\ reader = "ended"
  /\ pc' = "stopping"
  /\ UNCHANGED <<given, cfg, providers, dataplane, cancelled>>

CtxDone ==
  /\ pc = "running" /\ cancelled
  /\ pc' = "stopping"
  /\ UNCHANGED <<given, cfg, providers, dataplane, cancelled>>

\* The SOCKS server goes before the routes do.
StopSocks ==
  /\ pc = "stopping"
  /\ socks' = "off" /\ pc' = "cleanup"
  /\ UNCHANGED <<given, cfg, providers, block, allow, reader, last, cancelled>>

\* onBeforeExit and cmdVpn's deferred calls; the process takes its goroutines with it.
Exit ==
  /\ pc = "cleanup"
  /\ pc' = "exited" /\ reader' = "ended"
  /\ UNCHANGED <<given, cfg, providers, block, allow, socks, last, cancelled>>

Cancel ==
  /\ ~cancelled /\ pc \notin {"exited", "failed"}
  /\ cancelled' = TRUE
  /\ UNCHANGED <<pc, given, cfg, providers, dataplane>>

Statement ==
  \/ ParseOptions \/ LoadConfigFile \/ ChooseSpecs \/ Connect \/ StartLoops
  \/ CtxDone \/ StopSocks \/ Exit

Answer == FindLocations \/ ProviderLocations

Next == Statement \/ Answer \/ Receive \/ ReadError \/ Cancel

Spec == Init /\ [][Next]_vars

\* The client's statements run on.  The API may never answer: only cancellation ends a
\* request for certain.
FairSpec == Spec /\ WF_vars(Statement) /\ WF_vars(cancelled /\ Answer)

(***************************************************************************)
(* Properties.                                                             *)
(***************************************************************************)
Running == pc \in {"loops", "running", "stopping", "cleanup", "exited"}

\* The file the configuration is made with: quick-connect never reads it
\* (cmd_quickconnect.go:193), though docs/configuration.md:12 says it accepts --config.
FileRead == IF command = "vpn" /\ file.given THEN file.fields ELSE NoFields

\* docs/configuration.md:3, "Precedence", as the code keeps it: once a command runs, each
\* field is the user's option, else what the file that was read says, else the default; an
\* option that names its default yields to that file as if it had not been given, and
\* survives where the file is silent.
PrecedenceKept ==
  pc \notin {"main", "load", "failed"} =>
    \A f \in Field :
      cfg[f] = IF Indistinct(opts, f) /\ FileRead[f] # "empty" THEN FileRead[f]
               ELSE Meant(opts, FileRead, f)

\* docs/configuration.md:5, "1. CLI flags", and config.go:189, "CLI-parsed values (non-zero)
\* are never overwritten": an option whose text is not mere spaces is what the command runs
\* with, whatever the file says.
FlagsFirst ==
  pc \notin {"main", "load", "failed"} =>
    \A f \in Field : Given(opts, f) \notin {"absent", "blank"} => cfg[f] = Given(opts, f)

\* specs.go:11, "LocationID / LocationGroupID, LocationQuery (with HTTP fallback),
\* BestAvailable": the generator gets the ids the user gave, and asks the API nothing; else
\* what the API found; else each id the listing has for the query, once; else anything.
SpecsServeRequest ==
  Running =>
    LET named == {IdIn("location_id"), IdIn("location_group_id")} \ {NoId}
        query == named = {} /\ cfg["location_query"] # "empty"
    IN  /\ specs # <<>>
        /\ named # {} => Ids(specs) = named /\ found = <<>> /\ listing = NoListing
        /\ query /\ found # <<>> => specs = found /\ listing = NoListing
        /\ query /\ found = <<>> =>
             LET wanted == Wanted(listing, Asked)
             IN  IF wanted = {} THEN specs = <<BestAvailable>>
                 ELSE /\ Ids(specs) = wanted /\ Len(specs) = Cardinality(wanted)
                      /\ \A i \in DOMAIN specs : specs[i].kind # "best"
        /\ named = {} /\ ~query => specs = <<BestAvailable>>

\* Where a new connection may come from, by the user's word.
MayOpen(src) ==
  \/ cfg["allow_inbound_src"] # "empty" /\ \E net \in Nets[cfg["allow_inbound_src"]] : src \in net
  \/ cfg["allow_inbound_local"] = "on" /\ \E net \in LocalNets \cup {TunNet} : src \in net

\* vpn_core.go:18, "permitted source CIDRs for new inbound connections": with
\* --allow_inbound_* nothing opens a connection from elsewhere, and no TCP without ACK
\* comes in; no IPv6 does without --enable_ipv6; and nothing else is dropped, but for
\* fragments, which are read as if they held a TCP header.
InboundPolicy ==
  LET p == last.packet
      asked == cfg["allow_inbound_src"] # "empty" \/ cfg["allow_inbound_local"] = "on"
      unwanted == \/ p.version = 6 /\ cfg["enable_ipv6"] # "on"
                  \/ asked /\ (Strays(p) \/ (Opens(p) /\ ~MayOpen(p.src)))
  IN  Running /\ p.len > 0 =>
        IF last.passed THEN ~unwanted ELSE unwanted \/ p.fragment

\* main.go:117: a signal ends the command wherever it is, though the API never answers.
CoreEnds == cancelled ~> pc \in {"exited", "failed"}
=============================================================================
