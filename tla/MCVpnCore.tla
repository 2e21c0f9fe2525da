----------------------------- MODULE MCVpnCore -----------------------------
(***************************************************************************)
(* Command lines, files, answers and packets for VpnCore.  The values a    *)
(* user writes are "a" to "e"; what each means depends on the field.       *)
(***************************************************************************)
EXTENDS VpnCore

MCValue == {"empty", "default", "on", "a", "b", "c", "d", "e"}
MCId == {"i1", "i2", "i3"}

\* The same value for every option, every switch on with it.
Uniform(v) == [o \in Option |-> IF o \in Switch \cup FlagOnly /\ v # "absent" THEN "on" ELSE v]
UniformFile(v) == [f \in FileField |-> IF f \in Switch /\ v # "empty" THEN "on" ELSE v]

None == Uniform("absent")
MCOptionSets ==
  {Uniform(v) : v \in {"absent", "blank", "default", "a", "b"}}
    \cup {[None EXCEPT !["location_query"] = v] : v \in {"a", "b", "c", "d", "e"}}
    \cup { [None EXCEPT !["socks_listen"] = "a", !["location_id"] = "b", !["location_query"] = "b"],
           [None EXCEPT !["location_group_id"] = "a", !["location_query"] = "a"],
           [None EXCEPT !["allow_inbound_local"] = "on"],
           [None EXCEPT !["allow_inbound_src"] = "a", !["allow_inbound_local"] = "on"],
           [None EXCEPT !["allow_inbound_src"] = "b"],
           [None EXCEPT !["allow_inbound_src"] = "c", !["enable_ipv6"] = "on"] }

MCFiles ==
  {[given |-> FALSE, readable |-> FALSE, fields |-> UniformFile("empty")],
   [given |-> TRUE, readable |-> FALSE, fields |-> UniformFile("empty")]}
    \cup {[given |-> TRUE, readable |-> TRUE, fields |-> UniformFile(v)] :
            v \in {"default", "c"}}

\* "a" is an id; every other text is none.
MCParseId == [v \in Text |-> IF v = "a" THEN "i1" ELSE "none"]

Q(key, val, padded) == [key |-> key, val |-> val, padded |-> padded]
MCQuery ==
  [v \in Text |-> CASE v = "a" -> Q("name", "eu", FALSE)
                    [] v = "b" -> Q("country", "eu", FALSE)
                    [] v = "c" -> Q("region", "*", FALSE)
                    [] v = "d" -> Q("country_code", "eu", TRUE)
                    [] v = "e" -> Q("group", "no", FALSE)
                    [] OTHER   -> Q("country_code", "eu", FALSE)]

MCSource == {"lan4", "tun4", "user4", "far4", "user6", "far6"}
MCLocalNets == {{"lan4"}, {}}
MCTunNet == {"tun4"}
\* "b" holds no entry that parses.
MCNets == [v \in Text |-> CASE v = "b" -> {} [] v = "c" -> {{"user4"}, {"user6"}} [] OTHER -> {{"user4"}}]

MCFound == {<<>>, <<LocationSpec("i2"), GroupSpec("i3")>>}

L(id, type, name, country, countryId, region, regionId) ==
  [id |-> id, type |-> type, name |-> name, code |-> "eu", country |-> country,
   countryId |-> countryId, region |-> region, regionId |-> regionId]

\* Two places in one country, a region of its own, one with an id that does not parse; a
\* group, and one named like it with the id of a location.
Places == <<L("i1", "city", {"berlin"}, {"eu"}, "i2", {"west"}, "none"),
            L("i3", "city", {"eu"}, {"eu"}, "i2", {}, "i3"),
            L("i2", "region", {"west", "eu"}, {}, "none", {}, "none"),
            L("bad", "city", {"eu"}, {}, "none", {"west"}, "none")>>
MCListings ==
  { NoListing,
    [groups |-> <<[id |-> "i1", name |-> {"eu"}], [id |-> "i3", name |-> {"eu", "west"}]>>,
     locations |-> Places],
    [groups |-> <<[id |-> "bad", name |-> {"eu"}]>>, locations |-> SubSeq(Places, 2, 3)] }

P(len, version, ihl, tcp, syn, ack, src) ==
  [len |-> len, version |-> version, ihl |-> ihl, tcp |-> tcp, syn |-> syn, ack |-> ack,
   src |-> src, fragment |-> FALSE]
MCPackets ==
  {P(len, 4, ihl, TRUE, TRUE, FALSE, "far4") : len \in {19, 40, 60}, ihl \in {16, 20, 40}}
    \cup {P(60, 4, 20, TRUE, TRUE, FALSE, s) : s \in {"lan4", "tun4", "user4"}}
    \cup {P(60, 4, 20, TRUE, FALSE, ack, "far4") : ack \in BOOLEAN}
    \cup {P(len, 6, 0, TRUE, TRUE, FALSE, s) : len \in {59, 60}, s \in {"user6", "far6"}}
    \cup {P(60, 6, 0, TRUE, FALSE, FALSE, "far6"), P(60, 6, 0, FALSE, TRUE, FALSE, "far6")}
    \cup {P(0, 0, 0, FALSE, FALSE, FALSE, "far4"), P(60, 4, 20, FALSE, TRUE, FALSE, "far4")}
    \cup {[P(60, 4, 20, TRUE, FALSE, FALSE, "far4") EXCEPT !.fragment = TRUE]}
=============================================================================
