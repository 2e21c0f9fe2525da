---------------------------- MODULE ConfigMerge ----------------------------
(***************************************************************************)
(* config.go: how flags, defaults and the YAML file of --config become one *)
(* VPNConfig.  A field's value is "empty" (zero), "default", or something  *)
(* else; a switch is "empty" or "on"; an option is "absent" or a value,    *)
(* where "blank" is nothing but spaces.                                    *)
(* A definition Name_Word that stands before Name is a mutation of it.     *)
(***************************************************************************)
CONSTANT Value      \* what a user may write for a field

ASSUME ValueAssumption == {"empty", "default", "on"} \subseteq Value

\* Fields that have a default of their own, fields that are empty without a flag, and
\* switches; the last set cannot be given in the file.
Defaulted == {"api_url", "connect_url", "ip_cidr", "mtu", "dns_bootstrap", "stats_interval"}
Plain     == {"tun", "route", "exclude_route", "dns", "dns_service", "socks", "domain",
              "exclude_domain", "allow_inbound_src", "location_query", "location_id",
              "location_group_id"}
Switch    == {"default_route", "allow_inbound_local", "debug"}
FlagOnly  == {"enable_ipv6", "kill_switch"}

FileField == Defaulted \cup Plain \cup Switch
Field     == FileField \cup FlagOnly
Option    == Field \cup {"socks_listen"}

\* Fields whose value is trimmed (domain lists by splitCSV).
Trimmed == {"dns_bootstrap", "dns_service", "socks", "domain", "exclude_domain",
            "allow_inbound_src", "location_query", "location_id", "location_group_id"}

\* Fields that are numbers: a text that is none counts as not given.
Number == {"mtu", "stats_interval"}

\* An empty text counts as an option not given (getStringOr).
VPNConfig  == [Field -> Value \cup {"blank"}]
ConfigFile == {file \in [FileField -> Value] : \A f \in Switch : file[f] \in {"empty", "on"}}
Options    == {opts \in [Option -> (Value \ {"empty"}) \cup {"absent", "blank"}] :
                \A f \in Switch \cup FlagOnly : opts[f] \in {"absent", "on"}}

\* The option that decides a field: --socks_listen is the alias of --socks.
Given(opts, f) ==
  CASE f = "socks" /\ opts["socks"] = "absent" -> opts["socks_listen"]
    [] f \in Number /\ opts[f] = "blank"       -> "absent"
    [] OTHER                                   -> opts[f]

\* parseVPNConfig.
ParseVPNConfig(opts) ==
  [f \in Field |->
     CASE Given(opts, f) = "absent"                 -> IF f \in Defaulted THEN "default" ELSE "empty"
       [] Given(opts, f) = "blank" /\ f \in Trimmed -> "empty"
       [] OTHER                                     -> Given(opts, f)]

\* Mutation: a text the user gave gives way to the file.
Yields_Always(f, v) == f \in FileField

\* Whether the file may set a field that holds v after the command line is parsed.
Yields(f, v) ==
  \/ f \in Plain \cup Switch /\ v = "empty"
  \/ f \in Defaulted /\ v = "default"
  \/ f \in {"api_url", "connect_url", "dns_bootstrap"} /\ v = "empty"

\* applyConfigFile.
ApplyConfigFile(cfg, file) ==
  [f \in Field |-> IF f \in FileField /\ Yields(f, cfg[f]) /\ file[f] # "empty"
                   THEN file[f] ELSE cfg[f]]

(***************************************************************************)
(* The reference: docs/configuration.md, "Precedence".                     *)
(***************************************************************************)
Meant(opts, file, f) ==
  LET given == Given(opts, f)
  IN  IF given # "absent" /\ ~(given = "blank" /\ f \in Trimmed) THEN given
      ELSE IF f \in FileField /\ file[f] # "empty" THEN file[f]
      ELSE IF given = "absent" /\ f \in Defaulted THEN "default" ELSE "empty"

\* A flag given with the value of its default looks like a flag not given: the file
\* overrides it.
Indistinct(opts, f) == f \in Defaulted /\ Given(opts, f) = "default"
=============================================================================
