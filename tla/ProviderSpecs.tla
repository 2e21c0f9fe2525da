--------------------------- MODULE ProviderSpecs ---------------------------
(***************************************************************************)
(* specs.go: from a location the user names to the provider specs the      *)
(* generator is given.  A text is the set of the query values it contains, *)
(* so MatchValueFold is membership; an id that connect.ParseId refuses,    *)
(* the empty one included, is not in Id.  A query is its key, its value    *)
(* and whether spaces surround the value.                                  *)
(* A definition Name_Word that stands before Name is a mutation of it.     *)
(***************************************************************************)
EXTENDS Integers, Sequences, FiniteSets

CONSTANTS Id,      \* the ids that parse
          NoId     \* the empty id

ASSUME IdAssumption == NoId \notin Id

BestAvailable == [kind |-> "best", id |-> NoId]
LocationSpec(i) == [kind |-> "location", id |-> i]
GroupSpec(i)    == [kind |-> "group", id |-> i]

\* matchValueFold: "*" is any text that is not empty, no value is any text at all.
MatchValueFold(text, val) ==
  CASE val = "*"  -> text # {}
    [] val = "no" -> TRUE
    [] OTHER      -> val \in text

\* The switch over the key of a query, in both functions; parseKV's default is "name".
MatchesLocation(l, q) ==
  CASE q.key = "country"      -> MatchValueFold(l.country, q.val) \/ MatchValueFold(l.name, q.val)
    [] q.key = "country_code" -> l.code = q.val /\ ~q.padded   \* compared untrimmed
    [] q.key = "region"       -> \/ MatchValueFold(l.region, q.val)
                                 \/ l.type = "region" /\ MatchValueFold(l.name, q.val)
    [] q.key = "name"         -> MatchValueFold(l.name, q.val)
    [] OTHER                  -> \E text \in {l.name, l.country, l.region} : MatchValueFold(text, q.val)

MatchesGroup(g, q) == q.key \in {"group", "name"} /\ MatchValueFold(g.name, q.val)

\* The loop over a list, which keeps the entries at some of its indices.
Kept(s, indices) ==
  LET kept[n \in 0..Len(s)] ==
        IF n = 0 THEN <<>> ELSE IF n \in indices THEN Append(kept[n-1], s[n]) ELSE kept[n-1]
  IN  kept[Len(s)]

\* filterLocationsFallback, first half.
FilterListing(listing, q) ==
  LET groups == listing.groups
      locations == listing.locations
  IN  [groups    |-> Kept(groups, {i \in DOMAIN groups : MatchesGroup(groups[i], q)}),
       locations |-> Kept(locations, {i \in DOMAIN locations : MatchesLocation(locations[i], q)})]

\* A country or a region stands for all its locations.
ChosenId(l, q) ==
  CASE q.key = "country" /\ l.countryId # NoId -> l.countryId
    [] q.key = "region" /\ l.regionId # NoId   -> l.regionId
    [] OTHER                                   -> l.id

\* Mutation: nothing is remembered as seen.
Unseen_Forgets(s) == Kept(s, {i \in DOMAIN s : s[i].id \in Id})

\* The map `seen`, over group ids and location ids alike, and the failures of ParseId.
Unseen(s) ==
  Kept(s, {i \in DOMAIN s : s[i].id \in Id /\ \A j \in 1..(i-1) : s[j].id # s[i].id})

\* filterLocationsFallback, second half, and findSpecsByQueryFallback, which filters what
\* filterLocationsFallback has filtered already and drops the specs made there.
SpecsOf(listing, q) ==
  Unseen([i \in DOMAIN listing.groups |-> GroupSpec(listing.groups[i].id)]
           \o [i \in DOMAIN listing.locations |-> LocationSpec(ChosenId(listing.locations[i], q))])

FindSpecsByQueryFallback(listing, q) ==
  SpecsOf(FilterListing(FilterListing(listing, q), q), q)

\* buildProviderSpecs, before any query.
SpecsById(location, group) ==
  (IF location \in Id THEN <<LocationSpec(location)>> ELSE <<>>)
    \o (IF group \in Id THEN <<GroupSpec(group)>> ELSE <<>>)

(***************************************************************************)
(* The reference: what a query asks for, as a set of ids.                  *)
(***************************************************************************)
Elements(s) == {s[i] : i \in DOMAIN s}
Ids(s)      == {s[i].id : i \in DOMAIN s}

Wanted(listing, q) ==
  Id \cap ({g.id : g \in {h \in Elements(listing.groups) : MatchesGroup(h, q)}}
             \cup {ChosenId(l, q) : l \in {k \in Elements(listing.locations) : MatchesLocation(k, q)}})
=============================================================================
