---------------------------- MODULE VpnCoreProofs ----------------------------
(***************************************************************************)
(* Theorems about VpnCore, for every text a user may write, every command  *)
(* line, configuration file, answer and packet.                            *)
(***************************************************************************)
EXTENDS VpnCore, FiniteSetTheorems, TLAPS

(***************************************************************************)
(* The configuration: ConfigMerge against its reference.                   *)
(***************************************************************************)
\* A field of the reference without a file is that of a file which leaves it empty.
LEMMA ParsedAsMeant ==
  ASSUME NEW o \in Options, NEW f \in Field, NEW fields,
         f \notin FileField \/ fields[f] = "empty"
  PROVE  ParseVPNConfig(o)[f] = Meant(o, fields, f)
<1>1. CASE Given(o, f) = "absent"
      BY <1>1 DEF ParseVPNConfig, Meant
<1>2. CASE Given(o, f) = "blank" /\ f \in Trimmed
      BY <1>2 DEF ParseVPNConfig, Meant
<1>3. CASE Given(o, f) # "absent" /\ ~(Given(o, f) = "blank" /\ f \in Trimmed)
      BY <1>3 DEF ParseVPNConfig, Meant
<1>4. QED
      BY <1>1, <1>2, <1>3

\* Parsing and then merging the file gives the user's text, else the file's, else the
\* default, where the user did not write the default itself.
LEMMA MergedAsMeant ==
  ASSUME NEW o \in Options, NEW fields \in ConfigFile, NEW f \in Field, ~Indistinct(o, f)
  PROVE  ApplyConfigFile(ParseVPNConfig(o), fields)[f] = Meant(o, fields, f)
<1> DEFINE parsed == ParseVPNConfig(o)
<1>1. ApplyConfigFile(parsed, fields)[f] =
        IF f \in FileField /\ Yields(f, parsed[f]) /\ fields[f] # "empty" THEN fields[f]
        ELSE parsed[f]
      BY DEF ApplyConfigFile
<1>2. CASE f \notin FileField \/ fields[f] = "empty"
      BY <1>1, <1>2, ParsedAsMeant
<1>3. CASE f \in FileField /\ fields[f] # "empty"
  <2>1. ApplyConfigFile(parsed, fields)[f] = IF Yields(f, parsed[f]) THEN fields[f] ELSE parsed[f]
        BY <1>1, <1>3
  <2>2. CASE Given(o, f) = "absent"
    <3>1. parsed[f] = IF f \in Defaulted THEN "default" ELSE "empty"
          BY <2>2 DEF ParseVPNConfig
    <3>2. Yields(f, parsed[f])
          BY <1>3, <3>1 DEF Yields, FileField
    <3>3. QED
          BY <1>3, <2>1, <2>2, <3>2 DEF Meant
  <2>3. CASE Given(o, f) = "blank" /\ f \in Trimmed
    <3>1. parsed[f] = "empty"
          BY <2>3 DEF ParseVPNConfig
    <3>2. Yields(f, parsed[f])
          BY <1>3, <2>3, <3>1 DEF Yields, FileField, Defaulted, Plain, Switch, Trimmed
    <3>3. QED
          BY <1>3, <2>1, <2>3, <3>2 DEF Meant
  <2>4. CASE Given(o, f) # "absent" /\ ~(Given(o, f) = "blank" /\ f \in Trimmed)
    <3>1. parsed[f] = Given(o, f)
          BY <2>4 DEF ParseVPNConfig
    <3>2. Given(o, f) # "empty"
          BY DEF Given, Options, Option
    <3>3. f \in Defaulted => Given(o, f) # "default"
          BY DEF Indistinct
    <3>4. ~Yields(f, parsed[f])
          BY <3>1, <3>2, <3>3 DEF Yields, Defaulted
    <3>5. QED
          BY <2>1, <2>4, <3>1, <3>4 DEF Meant
  <2>5. QED
        BY <2>2, <2>3, <2>4
<1>4. QED
      BY <1>2, <1>3

\* Where the user did, the file's text, if it has one.
LEMMA IndistinctYields ==
  ASSUME NEW o \in Options, NEW fields \in ConfigFile, NEW f \in Field, Indistinct(o, f)
  PROVE  ApplyConfigFile(ParseVPNConfig(o), fields)[f] =
           IF fields[f] # "empty" THEN fields[f] ELSE Meant(o, fields, f)
<1> DEFINE parsed == ParseVPNConfig(o)
<1>1. f \in Defaulted /\ f \in FileField /\ Given(o, f) = "default"
      BY DEF Indistinct, FileField
<1>2. parsed[f] = "default"
      BY <1>1 DEF ParseVPNConfig
<1>3. Yields(f, parsed[f])
      BY <1>1, <1>2 DEF Yields
<1>4. ApplyConfigFile(parsed, fields)[f] = IF fields[f] # "empty" THEN fields[f] ELSE parsed[f]
      BY <1>1, <1>3 DEF ApplyConfigFile
<1>5. Meant(o, fields, f) = "default"
      BY <1>1 DEF Meant
<1>6. QED
      BY <1>2, <1>4, <1>5

\* The configuration the command line and the file make, and its type.
Merged ==
  IF command = "vpn" /\ file.given THEN ApplyConfigFile(ParseVPNConfig(opts), file.fields)
  ELSE ParseVPNConfig(opts)

LEMMA OptionGiven ==
  ASSUME NEW o \in Options, NEW f \in Field
  PROVE  Given(o, f) \in (Value \ {"empty"}) \cup {"absent", "blank"}
<1>1. f \in Option /\ "socks_listen" \in Option
      BY DEF Option
<1>2. QED
      BY <1>1 DEF Given, Options

LEMMA ConfigTyped ==
  ASSUME NEW o \in Options, NEW fields \in ConfigFile
  PROVE  /\ ParseVPNConfig(o) \in VPNConfig
         /\ ApplyConfigFile(ParseVPNConfig(o), fields) \in VPNConfig
<1>1. \A f \in Field : ParseVPNConfig(o)[f] \in Value \cup {"blank"}
      BY OptionGiven, ValueAssumption DEF ParseVPNConfig
<1>2. ParseVPNConfig(o) \in VPNConfig
      BY <1>1 DEF ParseVPNConfig, VPNConfig
<1>3. \A f \in FileField : fields[f] \in Value
      BY DEF ConfigFile
<1>4. QED
      BY <1>1, <1>2, <1>3 DEF ApplyConfigFile, VPNConfig

(***************************************************************************)
(* The packets: PacketFilter against its reference.                        *)
(***************************************************************************)
Unwanted(p, ipv6, filters, allowed) ==
  \/ p.version = 6 /\ ~ipv6
  \/ filters /\ (Strays(p) \/ (Opens(p) /\ ~\E net \in allowed : p.src \in net))

\* What is written to the TUN is not unwanted, and only the unwanted and fragments are not.
LEMMA PassesWanted ==
  ASSUME NEW p \in Packet, p.len > 0, NEW ipv6 \in BOOLEAN, NEW b \in BOOLEAN, NEW a
  PROVE  IF Passes(p, ipv6, b, a) THEN ~Unwanted(p, ipv6, b, a)
         ELSE Unwanted(p, ipv6, b, a) \/ p.fragment
<1>0. p.len \in Nat /\ p.ihl \in 0..60 /\ p.version \in 0..15
      BY DEF Packet
<1>1. CASE ~b
      BY <1>0, <1>1 DEF Passes, Unwanted
<1>2. CASE b /\ p.version = 6
      BY <1>0, <1>2
      DEF Passes, Unwanted, ShouldDropInbound, ShouldDropInboundIPv6, DropTCP, Strays, Opens, HoldsTCP
<1>3. CASE b /\ p.version = 4
      BY <1>0, <1>3
      DEF Passes, Unwanted, ShouldDropInbound, ShouldDropInboundIPv4, DropTCP, Strays, Opens, HoldsTCP
<1>4. CASE p.version \notin {4, 6}
      BY <1>0, <1>4
      DEF Passes, Unwanted, ShouldDropInbound, Strays, Opens, HoldsTCP
<1>5. QED
      BY <1>1, <1>2, <1>3, <1>4

(***************************************************************************)
(* The loops of specs.go, as inductions over the rounds.                   *)
(***************************************************************************)
\* Induction up to a bound, over a set in place of a predicate.
LEMMA CountedUp ==
  ASSUME NEW n \in Nat, NEW A, 0 \in A, \A i \in 1..n : i-1 \in A => i \in A
  PROVE  0..n \subseteq A
<1> DEFINE missing == (0..n) \ A
           T == {1..i : i \in missing}
<1> SUFFICES ASSUME missing # {} PROVE FALSE
    OBVIOUS
<1>1. T # {} /\ T \subseteq FiniteSubsetsOf(Nat)
  <2>1. \A i \in missing : 1..i \subseteq Nat /\ IsFiniteSet(1..i)
        BY FS_Interval
  <2>2. QED
        BY <2>1 DEF FiniteSubsetsOf
<1>2. PICK S \in T : \A U \in T : <<U, S>> \notin StrictSubsetOrdering(Nat)
  <2> HIDE DEF T
  <2>1. QED
        BY <1>1, FS_StrictSubsetOrderingWellFounded, WFMin
<1>3. PICK i \in missing : S = 1..i
      BY <1>2
<1>4. i \in 1..n /\ i-1 \in missing
      BY <1>3
<1>5. 1..(i-1) \subseteq 1..i /\ 1..(i-1) # 1..i /\ 1..i \subseteq Nat
  <2>1. i \in 1..i /\ i \notin 1..(i-1) /\ 1..(i-1) \subseteq 1..i /\ 1..i \subseteq Nat
        BY <1>4
  <2>2. QED
        BY <2>1
<1>6. <<1..(i-1), S>> \in StrictSubsetOrdering(Nat)
      BY <1>3, <1>5 DEF StrictSubsetOrdering
<1>7. QED
      BY <1>2, <1>4, <1>6

\* The values of a loop of n rounds after each of them.
Loops(n, V, start, step) ==
  {f \in [0..n -> V] : f[0] = start /\ \A i \in 1..n : f[i] = step[<<i, f[i-1]>>]}

\* Such a loop has values, whatever its step.
LEMMA LoopRuns ==
  ASSUME NEW n \in Nat, NEW V, NEW start \in V, NEW step \in [(1..n) \X V -> V]
  PROVE  Loops(n, V, start, step) # {}
<1> DEFINE Runs(f, k) == f[0] = start /\ \A i \in 1..k : f[i] = step[<<i, f[i-1]>>]
           A == {k \in 0..n : \E f \in [0..k -> V] : Runs(f, k)}
<1>1. 0 \in A
  <2> DEFINE f == [i \in 0..0 |-> start]
  <2>1. f \in [0..0 -> V] /\ f[0] = start
        OBVIOUS
  <2> HIDE DEF f
  <2>2. \A i \in 1..0 : FALSE
        OBVIOUS
  <2>3. QED
        BY <2>1, <2>2
<1>2. ASSUME NEW k \in 1..n, k-1 \in A PROVE k \in A
  <2>1. PICK f \in [0..(k-1) -> V] : Runs(f, k-1)
        BY <1>2
  <2> DEFINE g == [i \in 0..k |-> IF i = k THEN step[<<k, f[k-1]>>] ELSE f[i]]
  <2>2. \A i \in 0..(k-1) : g[i] = f[i] /\ f[i] \in V
        OBVIOUS
  <2>3. g[k] = step[<<k, f[k-1]>>] /\ f[k-1] \in V
        OBVIOUS
  <2>4. g \in [0..k -> V]
        BY <2>2, <2>3
  <2>5. ASSUME NEW i \in 1..k PROVE g[i] = step[<<i, g[i-1]>>]
    <3>1. i-1 \in 0..(k-1) /\ g[i-1] = f[i-1]
          BY <2>2
    <3> HIDE DEF g
    <3>2. CASE i = k
          BY <2>3, <3>1, <3>2
    <3>3. CASE i # k
          BY <2>1, <2>2, <3>1, <3>3
    <3>4. QED
          BY <3>2, <3>3
  <2>6. g[0] = start
        BY <2>1, <2>2
  <2> HIDE DEF g
  <2>7. Runs(g, k)
        BY <2>5, <2>6
  <2>8. k \in 0..n
        OBVIOUS
  <2> HIDE DEF Runs
  <2>9. QED
        BY <2>4, <2>7, <2>8
<1>3. n \in A
  <2> HIDE DEF A
  <2>1. QED
        BY <1>1, <1>2, CountedUp
<1>4. QED
      BY <1>3 DEF Loops

\* The loop of Kept, by its values after each round.
KeptLoop(f, X, s, K) ==
  /\ f \in [0..Len(s) -> Seq(X)] /\ f[0] = <<>>
  /\ \A i \in 1..Len(s) : f[i] = IF i \in K THEN Append(f[i-1], s[i]) ELSE f[i-1]

\* The function that Kept chooses is that loop.
LEMMA KeptRuns ==
  ASSUME NEW X, NEW s \in Seq(X), NEW K
  PROVE  \E f : KeptLoop(f, X, s, K) /\ Kept(s, K) = f[Len(s)]
<1> DEFINE step == [p \in (1..Len(s)) \X Seq(X) |->
                      IF p[1] \in K THEN Append(p[2], s[p[1]]) ELSE p[2]]
           Round(f, i) == IF i \in K THEN Append(f[i-1], s[i]) ELSE f[i-1]
           Loop(f) == f = [i \in 0..Len(s) |-> IF i = 0 THEN <<>> ELSE Round(f, i)]
<1>1. Len(s) \in Nat /\ <<>> \in Seq(X) /\ \A i \in 1..Len(s) : s[i] \in X
      OBVIOUS
<1>2. step \in [(1..Len(s)) \X Seq(X) -> Seq(X)]
      BY <1>1
<1>3. PICK f \in [0..Len(s) -> Seq(X)] :
        f[0] = <<>> /\ \A i \in 1..Len(s) : f[i] = step[<<i, f[i-1]>>]
  <2> DEFINE V == Seq(X)
             n == Len(s)
             start == <<>>
  <2>1. n \in Nat /\ start \in V /\ step \in [(1..n) \X V -> V]
        BY <1>1, <1>2
  <2> HIDE DEF step, V, n, start
  <2>2. PICK f : f \in Loops(n, V, start, step)
        BY <2>1, LoopRuns
  <2>3. QED
        BY <2>2, Zenon DEF V, n, start, Loops
<1>4. \A i \in 1..Len(s) : f[i] = Round(f, i)
  <2>1. \A i \in 1..Len(s) : <<i, f[i-1]>> \in (1..Len(s)) \X Seq(X)
    <3> SUFFICES ASSUME NEW i \in 1..Len(s) PROVE f[i-1] \in Seq(X)
        OBVIOUS
    <3>1. i-1 \in 0..Len(s)
          BY <1>1
    <3>2. QED
          BY <3>1
  <2>2. QED
        BY <1>3, <2>1
<1>5. \A i \in 0..Len(s) : f[i] = IF i = 0 THEN <<>> ELSE Round(f, i)
  <2> HIDE DEF Round
  <2> SUFFICES ASSUME NEW i \in 0..Len(s) PROVE f[i] = IF i = 0 THEN <<>> ELSE Round(f, i)
      OBVIOUS
  <2>1. CASE i = 0
        BY <1>3, <2>1
  <2>2. CASE i # 0
    <3>1. i \in 1..Len(s)
          BY <1>1, <2>2
    <3>2. QED
          BY <1>4, <2>2, <3>1
  <2>3. QED
        BY <2>1, <2>2
<1>6. Loop(f)
  <2>1. f = [i \in 0..Len(s) |-> f[i]]
        OBVIOUS
  <2> HIDE DEF Round
  <2>2. QED
        BY <1>5, <2>1, Zenon
<1> DEFINE g == CHOOSE h : Loop(h)
<1>7. Loop(g) /\ Kept(s, K) = g[Len(s)]
      BY <1>6 DEF Kept
<1>8. g[0] = <<>> /\ \A i \in 1..Len(s) : g[i] = Round(g, i)
  <2> HIDE DEF g, Round
  <2>1. \A i \in 0..Len(s) : g[i] = IF i = 0 THEN <<>> ELSE Round(g, i)
        BY <1>7
  <2>2. QED
        BY <1>1, <2>1
<1> DEFINE A == {i \in 0..Len(s) : g[i] = f[i]}
<1>9. 0..Len(s) \subseteq A
  <2> HIDE DEF g
  <2>1. 0 \in A
        BY <1>1, <1>3, <1>8
  <2>2. ASSUME NEW i \in 1..Len(s), i-1 \in A PROVE i \in A
        BY <1>1, <1>4, <1>8, <2>2
  <2> HIDE DEF A
  <2>3. QED
        BY <1>1, <2>1, <2>2, CountedUp
<1> HIDE DEF g
<1> HIDE DEF A
<1>10. g = f
  <2>1. \A i \in 0..Len(s) : g[i] = f[i]
        BY <1>9 DEF A
  <2>2. g = [i \in 0..Len(s) |-> g[i]]
    <3> HIDE DEF Round
    <3>1. QED
          BY <1>7 DEF g
  <2>3. f = [i \in 0..Len(s) |-> f[i]]
        OBVIOUS
  <2>4. QED
        BY <2>1, <2>2, <2>3
<1>11. KeptLoop(f, X, s, K)
      BY <1>3, <1>4 DEF KeptLoop
<1>12. QED
      BY <1>7, <1>10, <1>11

\* The elements of a sequence that one more element is appended to.
LEMMA AppendElements ==
  ASSUME NEW X, NEW s \in Seq(X), NEW e \in X
  PROVE  /\ Append(s, e) \in Seq(X) /\ Len(Append(s, e)) = Len(s) + 1
         /\ Append(s, e)[Len(s) + 1] = e /\ \A i \in 1..Len(s) : Append(s, e)[i] = s[i]
         /\ Elements(Append(s, e)) = Elements(s) \cup {e}
<1> DEFINE a == Append(s, e)
<1>1. /\ a \in Seq(X) /\ Len(s) \in Nat /\ Len(a) = Len(s) + 1 /\ a[Len(s) + 1] = e
      /\ DOMAIN a = 1..(Len(s) + 1) /\ DOMAIN s = 1..Len(s)
      /\ \A i \in 1..Len(s) : a[i] = s[i]
      OBVIOUS
<1> HIDE DEF a
<1>2. Elements(a) \subseteq Elements(s) \cup {e}
      BY <1>1 DEF Elements
<1>3. Elements(s) \cup {e} \subseteq Elements(a)
  <2>1. (1..Len(s)) \subseteq 1..(Len(s) + 1) /\ Len(s) + 1 \in 1..(Len(s) + 1)
        BY <1>1
  <2>2. QED
        BY <1>1, <2>1 DEF Elements
<1>4. QED
      BY <1>1, <1>2, <1>3 DEF a

\* No two elements have one id.
Once(u) == \A i, j \in DOMAIN u : u[i].id = u[j].id => i = j

\* Kept holds the elements at the indices it is given, one for each where they differ.
LEMMA KeptElements ==
  ASSUME NEW X, NEW s \in Seq(X), NEW K \in SUBSET DOMAIN s
  PROVE  /\ Kept(s, K) \in Seq(X) /\ Elements(Kept(s, K)) = {s[i] : i \in K}
         /\ (\A i, j \in K : s[i].id = s[j].id => i = j) => Once(Kept(s, K))
<1>0. PICK f : KeptLoop(f, X, s, K) /\ Kept(s, K) = f[Len(s)]
      BY KeptRuns
<1>1. /\ f \in [0..Len(s) -> Seq(X)] /\ f[0] = <<>>
      /\ \A n \in 1..Len(s) : f[n] = IF n \in K THEN Append(f[n-1], s[n]) ELSE f[n-1]
      /\ Kept(s, K) = f[Len(s)]
      BY <1>0 DEF KeptLoop
<1> DEFINE Read(n) == {s[i] : i \in K \cap (1..n)}
           Differ == \A i, j \in K : s[i].id = s[j].id => i = j
           A == {n \in 0..Len(s) : Elements(f[n]) = Read(n) /\ (Differ => Once(f[n]))}
<1>2. 0 \in A
  <2>1. Elements(<<>>) = {} /\ Read(0) = {} /\ Once(<<>>)
        BY DEF Elements, Once
  <2>2. QED
        BY <1>1, <2>1
<1>3. ASSUME NEW n \in 1..Len(s), n-1 \in A PROVE n \in A
  <2>1. n-1 \in 0..Len(s) /\ n \in 0..Len(s) /\ s[n] \in X /\ n \notin 1..(n-1)
        OBVIOUS
  <2>2. 1..n = (1..(n-1)) \cup {n}
        BY <2>1
  <2> DEFINE u == f[n-1]
  <2>3. u \in Seq(X) /\ Elements(u) = Read(n-1) /\ (Differ => Once(u))
        BY <1>1, <1>3, <2>1
  <2>4. CASE n \in K
    <3>1. f[n] = Append(u, s[n]) /\ Read(n) = Read(n-1) \cup {s[n]}
          BY <1>1, <2>2, <2>4
    <3>2. Differ => \A e \in Read(n-1) : e.id # s[n].id
          BY <2>1, <2>4
    <3> HIDE DEF u, Read, Differ
    <3>3. /\ Elements(f[n]) = Elements(u) \cup {s[n]}
          /\ Len(u) \in Nat /\ DOMAIN u = 1..Len(u)
          /\ DOMAIN f[n] = 1..(Len(u) + 1) /\ f[n][Len(u) + 1] = s[n]
          /\ \A k \in 1..Len(u) : f[n][k] = u[k]
          BY <2>1, <2>3, <3>1, AppendElements
    <3>4. \A k \in DOMAIN f[n] : k = Len(u) + 1 \/ k \in DOMAIN u
          BY <3>3
    <3>5. \A k \in DOMAIN u : u[k] \in Read(n-1)
          BY <2>3 DEF Elements
    <3>6. Differ => Once(f[n])
          BY <2>3, <3>2, <3>3, <3>4, <3>5 DEF Once
    <3>7. QED
          BY <2>1, <2>3, <3>1, <3>3, <3>6
  <2>5. CASE n \notin K
    <3>1. f[n] = u /\ Read(n) = Read(n-1)
          BY <1>1, <2>2, <2>5
    <3>2. QED
          BY <2>1, <2>3, <3>1
  <2>6. QED
        BY <2>4, <2>5
<1>4. 0..Len(s) \subseteq A
  <2>1. Len(s) \in Nat
        OBVIOUS
  <2> HIDE DEF A
  <2>2. QED
        BY <1>2, <1>3, <2>1, CountedUp
<1>5. Len(s) \in A /\ Read(Len(s)) = {s[i] : i \in K}
  <2>1. Len(s) \in 0..Len(s) /\ K \cap (1..Len(s)) = K
        OBVIOUS
  <2>2. Len(s) \in A
    <3> HIDE DEF A
    <3>1. QED
          BY <1>4, <2>1
  <2>3. QED
        BY <2>1, <2>2
<1>6. QED
      BY <1>1, <1>5

\* Unseen keeps one element for each id that parses, and elements of s alone.
LEMMA UnseenIds ==
  ASSUME NEW X, NEW s \in Seq(X)
  PROVE  /\ Unseen(s) \in Seq(X) /\ Once(Unseen(s))
         /\ Ids(Unseen(s)) = Id \cap Ids(s) /\ Elements(Unseen(s)) \subseteq Elements(s)
<1> DEFINE u == Unseen(s)
           K == {i \in DOMAIN s : s[i].id \in Id /\ \A j \in 1..(i-1) : s[j].id # s[i].id}
<1>1. Len(s) \in Nat /\ DOMAIN s = 1..Len(s) /\ K \subseteq DOMAIN s
      OBVIOUS
<1>2. \A i, j \in K : s[i].id = s[j].id => i = j
  <2> SUFFICES ASSUME NEW i \in K, NEW j \in K, i < j, s[i].id = s[j].id PROVE FALSE
      BY <1>1
  <2>1. i \in 1..(j-1)
        BY <1>1
  <2>2. QED
        BY <2>1
<1>3. u = Kept(s, K)
      BY DEF Unseen
<1>4. u \in Seq(X) /\ Elements(u) = {s[i] : i \in K} /\ Once(u)
  <2> HIDE DEF K, u
  <2>1. QED
        BY <1>1, <1>2, <1>3, KeptElements
<1>5. Ids(u) = {s[i].id : i \in K}
  <2> HIDE DEF K, u
  <2>1. Ids(u) = {e.id : e \in Elements(u)}
        BY DEF Ids, Elements
  <2>2. QED
        BY <1>4, <2>1
<1>6. ASSUME NEW i \in DOMAIN s, s[i].id \in Id PROVE \E k \in K : s[k].id = s[i].id
  <2> SUFFICES ASSUME \A k \in K : s[k].id # s[i].id PROVE FALSE
      OBVIOUS
  <2> DEFINE A == {n \in 0..Len(s) : \A j \in 1..n : s[j].id # s[i].id}
  <2>1. 0 \in A
        BY <1>1
  <2>2. ASSUME NEW n \in 1..Len(s), n-1 \in A PROVE n \in A
    <3>1. \A j \in 1..(n-1) : s[j].id # s[i].id
          BY <2>2
    <3>2. s[n].id # s[i].id
      <4> SUFFICES ASSUME s[n].id = s[i].id PROVE FALSE
          OBVIOUS
      <4>1. n \in K
            BY <1>1, <1>6, <3>1
      <4>2. QED
            BY <4>1
    <3>3. QED
          BY <3>1, <3>2
  <2>3. 0..Len(s) \subseteq A
    <3> HIDE DEF A
    <3>1. QED
          BY <1>1, <2>1, <2>2, CountedUp
  <2>4. QED
        BY <1>1, <2>3
<1>7. QED
  <2>1. \A i \in K : i \in DOMAIN s /\ s[i].id \in Id
        OBVIOUS
  <2> HIDE DEF K, u
  <2>2. Ids(u) = Id \cap Ids(s)
        BY <1>5, <1>6, <2>1 DEF Ids
  <2>3. Elements(u) \subseteq Elements(s)
        BY <1>4, <2>1 DEF Elements
  <2>4. QED
        BY <1>4, <2>2, <2>3 DEF u

\* Where no two elements have one id, the ids count the elements.
LEMMA OnceCounted ==
  ASSUME NEW X, NEW u \in Seq(X), Once(u)
  PROVE  Cardinality(Ids(u)) = Len(u)
<1> DEFINE id == [i \in 1..Len(u) |-> u[i].id]
<1>1. Len(u) \in Nat /\ DOMAIN u = 1..Len(u)
      OBVIOUS
<1>2. id \in Bijection(1..Len(u), Ids(u))
      BY <1>1 DEF Bijection, Injection, IsInjective, Surjection, Ids, Once
<1>3. IsFiniteSet(1..Len(u)) /\ Cardinality(1..Len(u)) = Len(u)
      BY <1>1, FS_Interval
<1>4. ExistsBijection(1..Len(u), Ids(u))
      BY <1>2 DEF ExistsBijection
<1>5. QED
      BY <1>3, <1>4, FS_Bijection

\* A listing of two sequences, whatever they hold.
Lists(l) == l.groups \in Seq(Elements(l.groups)) /\ l.locations \in Seq(Elements(l.locations))

LEMMA OwnElements == ASSUME NEW X, NEW s \in Seq(X) PROVE s \in Seq(Elements(s))
<1>1. s = [i \in 1..Len(s) |-> s[i]] /\ Len(s) \in Nat /\ DOMAIN s = 1..Len(s)
      OBVIOUS
<1>2. \A i \in 1..Len(s) : s[i] \in Elements(s)
      BY <1>1 DEF Elements
<1>3. s \in [1..Len(s) -> Elements(s)]
      BY <1>1, <1>2
<1>4. QED
      BY <1>1, <1>3

\* The first half of filterLocationsFallback leaves what the query matches.
LEMMA Filtered ==
  ASSUME NEW l, Lists(l), NEW q
  PROVE  /\ Lists(FilterListing(l, q))
         /\ Elements(FilterListing(l, q).groups) = {g \in Elements(l.groups) : MatchesGroup(g, q)}
         /\ Elements(FilterListing(l, q).locations)
              = {x \in Elements(l.locations) : MatchesLocation(x, q)}
<1> DEFINE G == {i \in DOMAIN l.groups : MatchesGroup(l.groups[i], q)}
           L == {i \in DOMAIN l.locations : MatchesLocation(l.locations[i], q)}
           groups == Kept(l.groups, G)
           locations == Kept(l.locations, L)
<1>1. FilterListing(l, q).groups = groups /\ FilterListing(l, q).locations = locations
      BY DEF FilterListing
<1>2. /\ groups \in Seq(Elements(l.groups)) /\ Elements(groups) = {l.groups[i] : i \in G}
      /\ locations \in Seq(Elements(l.locations))
      /\ Elements(locations) = {l.locations[i] : i \in L}
  <2>1. G \in SUBSET DOMAIN l.groups /\ L \in SUBSET DOMAIN l.locations
        OBVIOUS
  <2> HIDE DEF G, L
  <2>2. QED
        BY <2>1, KeptElements DEF Lists
<1>3. Lists(FilterListing(l, q))
  <2> HIDE DEF groups, locations
  <2>1. QED
        BY <1>1, <1>2, OwnElements DEF Lists
<1>4. /\ {l.groups[i] : i \in G} = {g \in Elements(l.groups) : MatchesGroup(g, q)}
      /\ {l.locations[i] : i \in L} = {x \in Elements(l.locations) : MatchesLocation(x, q)}
      BY DEF Elements
<1>5. QED
      BY <1>1, <1>2, <1>3, <1>4

\* The second half: a spec for each id that parses, and none for anything else.
LEMMA SpecsOfIds ==
  ASSUME NEW l, Lists(l), NEW q
  PROVE  LET u == SpecsOf(l, q)
         IN  /\ u \in Seq(Elements(u)) /\ Once(u) /\ \A i \in DOMAIN u : u[i].kind # "best"
             /\ Ids(u) = Id \cap ({g.id : g \in Elements(l.groups)}
                                    \cup {ChosenId(x, q) : x \in Elements(l.locations)})
<1> DEFINE a == [i \in DOMAIN l.groups |-> GroupSpec(l.groups[i].id)]
           b == [i \in DOMAIN l.locations |-> LocationSpec(ChosenId(l.locations[i], q))]
           s == a \o b
           u == Unseen(s)
<1>1. /\ DOMAIN l.groups = 1..Len(l.groups) /\ Len(l.groups) \in Nat
      /\ DOMAIN l.locations = 1..Len(l.locations) /\ Len(l.locations) \in Nat
      BY DEF Lists
<1>2. a \in Seq(Elements(a)) /\ b \in Seq(Elements(b))
  <2>1. /\ a \in [1..Len(l.groups) -> Elements(a)]
        /\ b \in [1..Len(l.locations) -> Elements(b)]
        BY <1>1 DEF Elements
  <2>2. QED
        BY <1>1, <2>1
<1>3. Elements(s) = Elements(a) \cup Elements(b) /\ s \in Seq(Elements(a) \cup Elements(b))
  <2> HIDE DEF a, b
  <2>1. /\ Len(a) \in Nat /\ DOMAIN a = 1..Len(a) /\ Len(b) \in Nat /\ DOMAIN b = 1..Len(b)
        /\ Len(s) = Len(a) + Len(b) /\ DOMAIN s = 1..Len(s)
        /\ \A i \in 1..Len(a) : s[i] = a[i]
        /\ \A i \in 1..Len(b) : s[Len(a) + i] = b[i]
        /\ s \in Seq(Elements(a) \cup Elements(b))
        BY <1>2
  <2> HIDE DEF s
  <2>2. Elements(s) \subseteq Elements(a) \cup Elements(b)
    <3> SUFFICES ASSUME NEW i \in DOMAIN s PROVE s[i] \in Elements(a) \cup Elements(b)
        BY DEF Elements
    <3>1. CASE i <= Len(a)
          BY <2>1, <3>1 DEF Elements
    <3>2. CASE i > Len(a)
      <4>1. i - Len(a) \in 1..Len(b) /\ i = Len(a) + (i - Len(a))
            BY <2>1, <3>2
      <4>2. QED
            BY <2>1, <4>1 DEF Elements
    <3>3. QED
          BY <2>1, <3>1, <3>2
  <2>3. Elements(a) \cup Elements(b) \subseteq Elements(s)
    <3>1. \A i \in 1..Len(a) : i \in DOMAIN s
          BY <2>1
    <3>2. \A i \in 1..Len(b) : Len(a) + i \in DOMAIN s
          BY <2>1
    <3>3. QED
          BY <2>1, <3>1, <3>2 DEF Elements
  <2>4. QED
        BY <2>1, <2>2, <2>3
<1>4. u = SpecsOf(l, q)
      BY DEF SpecsOf
<1>5. /\ Once(u) /\ Ids(u) = Id \cap Ids(s) /\ Elements(u) \subseteq Elements(s)
      /\ u \in Seq(Elements(u))
  <2> HIDE DEF s
  <2>1. QED
        BY <1>3, UnseenIds, OwnElements
<1>6. /\ DOMAIN a = DOMAIN l.groups /\ DOMAIN b = DOMAIN l.locations
      /\ \A i \in DOMAIN a : a[i].id = l.groups[i].id /\ a[i].kind # "best"
      /\ \A i \in DOMAIN b : b[i].id = ChosenId(l.locations[i], q) /\ b[i].kind # "best"
      BY DEF GroupSpec, LocationSpec
<1>7. Ids(s) = {g.id : g \in Elements(l.groups)} \cup {ChosenId(x, q) : x \in Elements(l.locations)}
  <2>1. Ids(s) = {e.id : e \in Elements(a) \cup Elements(b)}
    <3> HIDE DEF s, a, b
    <3>1. Ids(s) = {e.id : e \in Elements(s)}
          BY DEF Ids, Elements
    <3>2. QED
          BY <1>3, <3>1
  <2> HIDE DEF s, a, b
  <2>2. {e.id : e \in Elements(a)} = {g.id : g \in Elements(l.groups)}
        BY <1>6 DEF Elements
  <2>3. {e.id : e \in Elements(b)} = {ChosenId(x, q) : x \in Elements(l.locations)}
        BY <1>6 DEF Elements
  <2>4. QED
        BY <2>1, <2>2, <2>3
<1>8. \A i \in DOMAIN u : u[i].kind # "best"
  <2> HIDE DEF u, s, a, b
  <2>1. \A i \in DOMAIN u : u[i] \in Elements(u)
        BY DEF Elements
  <2>2. \A e \in Elements(a) \cup Elements(b) : e.kind # "best"
        BY <1>6 DEF Elements
  <2>3. QED
        BY <1>3, <1>5, <2>1, <2>2
<1> HIDE DEF u, s, a, b
<1>9. QED
      BY <1>4, <1>5, <1>7, <1>8

\* What the listing has for the query is what the generator gets, each id once; without
\* any, it gets anything.
LEMMA FallbackServed ==
  ASSUME NEW l, Lists(l), NEW q
  PROVE  LET wanted == Wanted(l, q)
             s == OrBest(FindSpecsByQueryFallback(l, q))
         IN  IF wanted = {} THEN s = <<BestAvailable>>
             ELSE /\ Ids(s) = wanted /\ Len(s) = Cardinality(wanted)
                  /\ \A i \in DOMAIN s : s[i].kind # "best"
<1> DEFINE wanted == Wanted(l, q)
           once == FilterListing(l, q)
           twice == FilterListing(once, q)
           u == SpecsOf(twice, q)
<1>1. Lists(once)
      BY Filtered
<1>2. /\ Lists(twice)
      /\ Elements(twice.groups) = {g \in Elements(l.groups) : MatchesGroup(g, q)}
      /\ Elements(twice.locations) = {x \in Elements(l.locations) : MatchesLocation(x, q)}
  <2>1. /\ Elements(once.groups) = {g \in Elements(l.groups) : MatchesGroup(g, q)}
        /\ Elements(once.locations) = {x \in Elements(l.locations) : MatchesLocation(x, q)}
        BY Filtered
  <2> HIDE DEF once
  <2>2. /\ Lists(twice)
        /\ Elements(twice.groups) = {g \in Elements(once.groups) : MatchesGroup(g, q)}
        /\ Elements(twice.locations) = {x \in Elements(once.locations) : MatchesLocation(x, q)}
        BY <1>1, Filtered
  <2>3. QED
        BY <2>1, <2>2
<1>3. /\ u \in Seq(Elements(u)) /\ Once(u) /\ \A i \in DOMAIN u : u[i].kind # "best"
      /\ Ids(u) = wanted
  <2> HIDE DEF twice
  <2>1. QED
        BY <1>2, SpecsOfIds DEF Wanted
<1>4. FindSpecsByQueryFallback(l, q) = u
      BY DEF FindSpecsByQueryFallback
<1> HIDE DEF u, wanted
<1>5. Len(u) = Cardinality(wanted)
      BY <1>3, OnceCounted
<1>6. u = <<>> <=> wanted = {}
  <2>1. u = <<>> => Ids(u) = {}
        BY DEF Ids
  <2>2. u # <<>> => u[1].id \in Ids(u)
    <3>1. u # <<>> => 1 \in DOMAIN u
          BY <1>3
    <3>2. QED
          BY <3>1 DEF Ids
  <2>3. QED
        BY <1>3, <2>1, <2>2
<1> DEFINE s == OrBest(u)
<1>7. IF wanted = {} THEN s = <<BestAvailable>>
      ELSE Ids(s) = wanted /\ Len(s) = Cardinality(wanted) /\ \A i \in DOMAIN s : s[i].kind # "best"
  <2>1. s = IF wanted = {} THEN <<BestAvailable>> ELSE u
        BY <1>6 DEF OrBest
  <2> HIDE DEF s
  <2>2. QED
        BY <1>3, <1>5, <2>1
<1>8. QED
      BY <1>4, <1>7 DEF wanted

(***************************************************************************)
(* The invariant.                                                          *)
(***************************************************************************)
GivenType ==
  opts \in Options /\ file \in [given: BOOLEAN, readable: BOOLEAN, fields: ConfigFile]

\* The configuration is a function of what the user gave once main has made it.
CfgMerged ==
  /\ pc = "load" => command = "vpn" /\ file.given /\ cfg = ParseVPNConfig(opts)
  /\ pc \notin {"main", "load", "failed"} => cfg = Merged

InboundAsked == cfg["allow_inbound_local"] = "on" \/ cfg["allow_inbound_src"] # "empty"
AllowsAsked == Running => block = InboundAsked /\ allow = AllowedNets

\* The verdict about the last packet stands: nothing it rests on has changed since.
LastJudged ==
  \/ last.packet = NoPacket
  \/ /\ Running /\ last.packet \in Packet
     /\ last.passed = Passes(last.packet, cfg["enable_ipv6"] = "on", block, allow)

\* What the providers are asked, and in which order.
Named   == {IdIn("location_id"), IdIn("location_group_id")} \ {NoId}
Queried == Named = {} /\ cfg["location_query"] # "empty"
Asking ==
  /\ pc \in {"main", "load", "choose"} => found = <<>> /\ listing = NoListing
  /\ pc \in {"find", "list"} => Queried /\ found = <<>> /\ listing = NoListing
  /\ pc \in {"connect", "loops", "running", "stopping", "cleanup", "exited"} =>
       /\ specs # <<>>
       /\ Named # {} => Ids(specs) = Named /\ found = <<>> /\ listing = NoListing
       /\ Queried /\ found # <<>> => specs = found /\ listing = NoListing
       /\ Queried /\ found = <<>> => specs = OrBest(FindSpecsByQueryFallback(listing, Asked))
       /\ Named = {} /\ ~Queried => specs = <<BestAvailable>>

Inv == GivenType /\ CfgMerged /\ AllowsAsked /\ LastJudged /\ Asking /\ Lists(listing)

\* Whatever the API answers is a listing, and an error is one too.
LEMMA ListingsList == \A l \in Listings : Lists(l)
  BY CoreAssumption DEF Lists

LEMMA NoListingLists == Lists(NoListing)
  BY ListingsList, CoreAssumption

LEMMA InvInit == Init => Inv
<1> SUFFICES ASSUME Init PROVE Inv
    OBVIOUS
<1>1. pc = "main"
      BY DEF Init
<1>2. GivenType
      BY CoreAssumption DEF Init, GivenType
<1>3. last.packet = NoPacket /\ found = <<>> /\ listing = NoListing
      BY DEF Init
<1>4. Lists(listing)
      BY <1>3, NoListingLists
<1>5. QED
      BY <1>1, <1>2, <1>3, <1>4 DEF Inv, CfgMerged, AllowsAsked, LastJudged, Asking, Running

\* From the start of the dataplane on, what the verdicts rest on does not change.
LEMMA Settled ==
  ASSUME Inv, [Next]_vars, Running
  PROVE  Running' /\ UNCHANGED <<cfg, block, allow, found, listing, specs>>
<1>1. pc \in {"loops", "running", "stopping", "cleanup", "exited"}
      BY DEF Running
<1>2. CASE Statement
      BY <1>1, <1>2
      DEF Statement, ParseOptions, LoadConfigFile, ChooseSpecs, Connect, StartLoops, CtxDone,
          StopSocks, Exit, Running, providers, dataplane
<1>3. CASE Answer \/ Receive \/ ReadError \/ Cancel \/ UNCHANGED vars
      BY <1>1, <1>3
      DEF Answer, FindLocations, ProviderLocations, Receive, ReadError, Cancel, vars, Running,
          providers, dataplane
<1>4. QED
      BY <1>2, <1>3 DEF Next

LEMMA CfgStep == Inv /\ [Next]_vars => GivenType' /\ CfgMerged'
<1> SUFFICES ASSUME Inv, [Next]_vars PROVE GivenType' /\ CfgMerged'
    OBVIOUS
<1>1. UNCHANGED <<command, opts, file>>
      BY DEF Next, Statement, ParseOptions, LoadConfigFile, ChooseSpecs, Connect, StartLoops,
             CtxDone, StopSocks, Exit, Answer, FindLocations, ProviderLocations, Receive,
             ReadError, Cancel, vars, given
<1>2. GivenType'
      BY <1>1 DEF Inv, GivenType
<1> SUFFICES CfgMerged'
    BY <1>2
<1>3. Merged' = Merged /\ ParseVPNConfig(opts)' = ParseVPNConfig(opts)
      BY <1>1 DEF Merged
<1>4. CASE ParseOptions
  <2>1. CASE command = "vpn" /\ file.given
    <3>1. pc' = "load" /\ cfg' = ParseVPNConfig(opts)
          BY <1>4, <2>1 DEF ParseOptions
    <3>2. QED
          BY <1>1, <1>3, <2>1, <3>1 DEF CfgMerged
  <2>2. CASE ~(command = "vpn" /\ file.given)
    <3>1. pc' = "choose" /\ cfg' = Merged
          BY <1>4, <2>2 DEF ParseOptions, Merged
    <3>2. QED
          BY <1>3, <3>1 DEF CfgMerged
  <2>3. QED
        BY <2>1, <2>2
<1>5. CASE LoadConfigFile
  <2>1. pc' = "failed" \/ (pc' = "choose" /\ cfg' = ApplyConfigFile(cfg, file.fields))
        BY <1>5 DEF LoadConfigFile
  <2>2. command = "vpn" /\ file.given /\ cfg = ParseVPNConfig(opts)
        BY <1>5 DEF LoadConfigFile, Inv, CfgMerged
  <2>3. Merged = ApplyConfigFile(cfg, file.fields)
        BY <2>2 DEF Merged
  <2>4. QED
        BY <1>3, <2>1, <2>3 DEF CfgMerged
<1>6. CASE UNCHANGED cfg /\ (UNCHANGED pc \/ (pc \notin {"main", "load", "failed"}
                                              /\ pc' \notin {"main", "load", "failed"}))
      BY <1>1, <1>3, <1>6 DEF Inv, CfgMerged
<1>7. CASE ChooseSpecs \/ Connect \/ StartLoops \/ CtxDone \/ StopSocks \/ Exit \/ Answer
      BY <1>6, <1>7 DEF ChooseSpecs, Connect, StartLoops, CtxDone, StopSocks, Exit, Answer,
                        FindLocations, ProviderLocations
<1>8. CASE Receive \/ ReadError \/ Cancel \/ UNCHANGED vars
      BY <1>6, <1>8 DEF Receive, ReadError, Cancel, vars
<1>9. QED
      BY <1>4, <1>5, <1>7, <1>8 DEF Next, Statement

LEMMA DataplaneStep == Inv /\ [Next]_vars => AllowsAsked' /\ LastJudged'
<1> SUFFICES ASSUME Inv, [Next]_vars PROVE AllowsAsked' /\ LastJudged'
    OBVIOUS
<1>1. CASE Running
  <2>1. Running' /\ UNCHANGED <<cfg, block, allow>>
        BY <1>1, Settled
  <2>2. AllowsAsked'
    <3>1. InboundAsked' = InboundAsked /\ AllowedNets' = AllowedNets
          BY <2>1 DEF InboundAsked, AllowedNets
    <3>2. QED
          BY <1>1, <2>1, <3>1 DEF Inv, AllowsAsked
  <2> SUFFICES LastJudged'
      BY <2>2
  <2>3. CASE UNCHANGED last
    <3>1. NoPacket' = NoPacket
          OBVIOUS
    <3>2. QED
          BY <1>1, <2>1, <2>3 DEF Inv, LastJudged
  <2>4. CASE Receive
        BY <2>1, <2>4, CoreAssumption DEF Receive, LastJudged
  <2>5. UNCHANGED last \/ Receive
        BY DEF Next, Statement, ParseOptions, LoadConfigFile, ChooseSpecs, Connect, StartLoops,
               CtxDone, StopSocks, Exit, Answer, FindLocations, ProviderLocations,
               ReadError, Cancel, vars, dataplane
  <2>6. QED
        BY <2>3, <2>4, <2>5
<1>2. CASE ~Running
  <2>1. last.packet = NoPacket
        BY <1>2 DEF Inv, LastJudged
  <2>2. pc \notin {"loops", "running", "stopping", "cleanup", "exited"}
        BY <1>2 DEF Running
  <2>3. UNCHANGED last
        BY <2>2 DEF Next, Statement, ParseOptions, LoadConfigFile, ChooseSpecs, Connect, StartLoops,
                    CtxDone, StopSocks, Exit, Answer, FindLocations, ProviderLocations, Receive,
                    ReadError, Cancel, vars, dataplane
  <2>4. Running' => Connect
        BY <2>2 DEF Next, Statement, ParseOptions, LoadConfigFile, ChooseSpecs, StartLoops,
                    CtxDone, StopSocks, Exit, Answer, FindLocations, ProviderLocations, Receive,
                    ReadError, Cancel, vars, Running
  <2>5. Connect => AllowsAsked'
        BY DEF Connect, AllowsAsked, InboundAsked, AllowedNets
  <2>6. QED
        BY <2>1, <2>3, <2>4, <2>5 DEF AllowsAsked, LastJudged
<1>3. QED
      BY <1>1, <1>2

\* The ids the user gave are the ids of the specs made from them.
LEMMA NamedServed ==
  ASSUME NEW l \in Id \cup {NoId}, NEW g \in Id \cup {NoId}
  PROVE  LET s == SpecsById(l, g) IN /\ Ids(s) = {l, g} \ {NoId}
                                     /\ s = <<>> <=> {l, g} \ {NoId} = {}
<1>1. CASE l \in Id /\ g \in Id
      BY <1>1, IdAssumption DEF SpecsById, Ids, LocationSpec, GroupSpec
<1>2. CASE l \in Id /\ g = NoId
      BY <1>2, IdAssumption DEF SpecsById, Ids, LocationSpec, GroupSpec
<1>3. CASE l = NoId /\ g \in Id
      BY <1>3, IdAssumption DEF SpecsById, Ids, LocationSpec, GroupSpec
<1>4. CASE l = NoId /\ g = NoId
      BY <1>4, IdAssumption DEF SpecsById, Ids, LocationSpec, GroupSpec
<1>5. QED
      BY <1>1, <1>2, <1>3, <1>4

LEMMA IdTyped ==
  ASSUME cfg \in VPNConfig, NEW f \in Field PROVE IdIn(f) \in Id \cup {NoId}
<1>1. CASE cfg[f] = "empty"
      BY <1>1 DEF IdIn
<1>2. CASE cfg[f] # "empty"
  <2>1. cfg[f] \in Text
        BY <1>2 DEF VPNConfig, Text
  <2>2. QED
        BY <1>2, <2>1, CoreAssumption DEF IdIn
<1>3. QED
      BY <1>1, <1>2

LEMMA AskingStep == Inv /\ [Next]_vars => Asking'
<1> SUFFICES ASSUME Inv, [Next]_vars PROVE Asking'
    OBVIOUS
<1> DEFINE Parsed == SpecsById(IdIn("location_id"), IdIn("location_group_id"))
<1>1. UNCHANGED cfg => /\ Named' = Named /\ Queried' = Queried /\ Asked' = Asked
      BY DEF Named, Queried, IdIn, Asked
<1>2. CASE ParseOptions \/ LoadConfigFile
  <2>1. found' = <<>> /\ listing' = NoListing /\ pc' \in {"load", "choose", "failed"}
        BY <1>2 DEF ParseOptions, LoadConfigFile, providers, Inv, Asking
  <2>2. QED
        BY <2>1 DEF Asking
<1>3. CASE ChooseSpecs
  <2>1. UNCHANGED cfg /\ found' = <<>> /\ listing' = NoListing
        BY <1>3 DEF ChooseSpecs, Inv, Asking
  <2>2. cfg \in VPNConfig
    <3>1. pc = "choose"
          BY <1>3 DEF ChooseSpecs
    <3>2. cfg = Merged /\ GivenType
          BY <3>1 DEF Inv, CfgMerged
    <3>3. QED
          BY <3>2, ConfigTyped DEF Merged, GivenType
  <2>3. Ids(Parsed) = Named /\ (Parsed = <<>> <=> Named = {})
    <3>1. IdIn("location_id") \in Id \cup {NoId} /\ IdIn("location_group_id") \in Id \cup {NoId}
          BY <2>2, IdTyped DEF Field, FileField, Plain
    <3>2. QED
          BY <3>1, NamedServed DEF Named
  <2>4. CASE Queried
    <3>1. pc' = "find"
          BY <1>3, <2>3, <2>4 DEF ChooseSpecs, Queried
    <3>2. QED
          BY <1>1, <2>1, <2>4, <3>1 DEF Asking
  <2>5. CASE ~Queried
    <3>1. pc' = "connect" /\ specs' = OrBest(Parsed)
          BY <1>3, <2>3, <2>5 DEF ChooseSpecs, Queried
    <3>2. Named # {} => specs' = Parsed /\ specs' # <<>>
          BY <2>3, <3>1 DEF OrBest
    <3>3. Named = {} => specs' = <<BestAvailable>>
          BY <2>3, <3>1 DEF OrBest
    <3>4. Named # {} => Ids(specs)' = Named
          BY <2>3, <3>2 DEF Ids
    <3>5. <<BestAvailable>> # <<>>
          OBVIOUS
    <3>6. QED
          BY <1>1, <2>1, <2>5, <3>1, <3>2, <3>3, <3>4, <3>5 DEF Asking
  <2>6. QED
        BY <2>4, <2>5
<1>4. CASE FindLocations
  <2>1. UNCHANGED <<cfg, listing>> /\ Queried /\ Named = {} /\ listing = NoListing
        BY <1>4 DEF FindLocations, Inv, Asking, Queried
  <2>2. specs' = found' /\ pc' = IF found' = <<>> THEN "list" ELSE "connect"
        BY <1>4, Zenon DEF FindLocations
  <2>3. CASE found' = <<>>
        BY <1>1, <2>1, <2>2, <2>3 DEF Asking
  <2>4. CASE found' # <<>>
        BY <1>1, <2>1, <2>2, <2>4 DEF Asking
  <2>5. QED
        BY <2>3, <2>4
<1>5. CASE ProviderLocations
  <2>1. UNCHANGED <<cfg, found>> /\ Queried /\ Named = {} /\ found = <<>>
        BY <1>5 DEF ProviderLocations, Inv, Asking, Queried
  <2>2. specs' = OrBest(FindSpecsByQueryFallback(listing', Asked)) /\ pc' = "connect"
        BY <1>5 DEF ProviderLocations
  <2>3. specs' # <<>>
    <3>1. <<BestAvailable>> # <<>>
          OBVIOUS
    <3>2. QED
          BY <2>2, <3>1 DEF OrBest
  <2>4. QED
        BY <1>1, <2>1, <2>2, <2>3 DEF Asking
<1>6. CASE Connect \/ StartLoops \/ CtxDone \/ StopSocks \/ Exit
  <2>1. UNCHANGED <<cfg, found, listing, specs>>
        BY <1>6 DEF Connect, StartLoops, CtxDone, StopSocks, Exit, providers
  <2>2. /\ pc \in {"connect", "loops", "running", "stopping", "cleanup"}
        /\ pc' \in {"loops", "running", "stopping", "cleanup", "exited"}
        BY <1>6 DEF Connect, StartLoops, CtxDone, StopSocks, Exit
  <2>3. Ids(specs)' = Ids(specs)
        BY <2>1 DEF Ids
  <2>4. /\ specs # <<>>
        /\ Named # {} => Ids(specs) = Named /\ found = <<>> /\ listing = NoListing
        /\ Queried /\ found # <<>> => specs = found /\ listing = NoListing
        /\ Queried /\ found = <<>> => specs = OrBest(FindSpecsByQueryFallback(listing, Asked))
        /\ Named = {} /\ ~Queried => specs = <<BestAvailable>>
        BY <2>2 DEF Inv, Asking
  <2>5. pc' \notin {"main", "load", "choose", "find", "list"}
        BY <2>2
  <2>6. QED
        BY <1>1, <2>1, <2>3, <2>4, <2>5 DEF Asking
<1>7. CASE Receive \/ ReadError \/ Cancel \/ UNCHANGED vars
  <2>1. UNCHANGED <<pc, cfg, found, listing, specs>>
        BY <1>7 DEF Receive, ReadError, Cancel, vars, providers
  <2>2. Ids(specs)' = Ids(specs)
        BY <2>1 DEF Ids
  <2>3. QED
        BY <1>1, <2>1, <2>2 DEF Inv, Asking
<1>8. QED
      BY <1>2, <1>3, <1>4, <1>5, <1>6, <1>7 DEF Next, Statement, Answer

LEMMA ListingStep == Inv /\ [Next]_vars => Lists(listing)'
<1> SUFFICES ASSUME Inv, [Next]_vars PROVE Lists(listing)'
    OBVIOUS
<1>1. CASE UNCHANGED listing
      BY <1>1 DEF Inv, Lists
<1>2. CASE ProviderLocations
  <2>1. listing' \in Listings
        BY <1>2, CoreAssumption DEF ProviderLocations
  <2>2. QED
        BY <2>1, ListingsList DEF Lists
<1>3. UNCHANGED listing \/ ProviderLocations
      BY DEF Next, Statement, ParseOptions, LoadConfigFile, ChooseSpecs, Connect, StartLoops,
             CtxDone, StopSocks, Exit, Answer, FindLocations, Receive, ReadError, Cancel, vars,
             providers
<1>4. QED
      BY <1>1, <1>2, <1>3

LEMMA InvHolds == Spec => []Inv
<1>1. Inv /\ [Next]_vars => Inv'
      BY CfgStep, DataplaneStep, AskingStep, ListingStep DEF Inv
<1>2. QED
      BY InvInit, <1>1, PTL DEF Spec

(***************************************************************************)
(* The theorems.                                                           *)
(***************************************************************************)
\* docs/configuration.md:3, "Precedence", as the code keeps it, for every text, option and
\* file: the user's option, else the text of the file that was read, else the default; an
\* option that names its default yields to that file.
THEOREM PrecedenceHolds == Spec => []PrecedenceKept
<1>1. Inv => PrecedenceKept
  <2> SUFFICES ASSUME Inv, pc \notin {"main", "load", "failed"}, NEW f \in Field
               PROVE  cfg[f] = IF Indistinct(opts, f) /\ FileRead[f] # "empty" THEN FileRead[f]
                               ELSE Meant(opts, FileRead, f)
      BY DEF PrecedenceKept
  <2>1. cfg = Merged /\ opts \in Options /\ file.fields \in ConfigFile
        BY DEF Inv, CfgMerged, GivenType
  <2>2. CASE command = "vpn" /\ file.given
    <3>1. cfg[f] = ApplyConfigFile(ParseVPNConfig(opts), file.fields)[f] /\ FileRead = file.fields
          BY <2>1, <2>2 DEF Merged, FileRead
    <3>2. CASE Indistinct(opts, f)
          BY <2>1, <3>1, <3>2, IndistinctYields
    <3>3. CASE ~Indistinct(opts, f)
          BY <2>1, <3>1, <3>3, MergedAsMeant
    <3>4. QED
          BY <3>2, <3>3
  <2>3. CASE ~(command = "vpn" /\ file.given)
    <3>1. FileRead = NoFields /\ (f \notin FileField \/ FileRead[f] = "empty")
          BY <2>3 DEF NoFields, FileRead
    <3>2. cfg[f] = Meant(opts, FileRead, f)
          BY <2>1, <2>3, <3>1, ParsedAsMeant DEF Merged
    <3>3. Indistinct(opts, f) => f \in FileField
          BY DEF Indistinct, FileField
    <3>4. QED
          BY <3>1, <3>2, <3>3
  <2>4. QED
        BY <2>2, <2>3
<1>2. QED
      BY <1>1, InvHolds, PTL

\* vpn_core.go:18, for every packet and every allow list: nothing opens a connection from
\* a source the user has not listed, no stray TCP and no unasked IPv6 comes in, and what
\* is dropped is one of these or a fragment.
THEOREM PolicyKept == Spec => []InboundPolicy
<1>1. Inv => InboundPolicy
  <2> SUFFICES ASSUME Inv, Running, last.packet.len > 0 PROVE InboundPolicy
      BY DEF InboundPolicy
  <2> DEFINE ipv6 == cfg["enable_ipv6"] = "on"
  <2>1. last.packet # NoPacket
        BY DEF NoPacket
  <2>2. /\ last.packet \in Packet
        /\ last.passed = Passes(last.packet, ipv6, block, allow)
        /\ block = InboundAsked /\ allow = AllowedNets
        BY <2>1 DEF Inv, LastJudged, AllowsAsked
  <2>3. IF Passes(last.packet, ipv6, block, allow) THEN ~Unwanted(last.packet, ipv6, block, allow)
        ELSE Unwanted(last.packet, ipv6, block, allow) \/ last.packet.fragment
    <3>1. ipv6 \in BOOLEAN /\ block \in BOOLEAN
          BY <2>2, Zenon DEF InboundAsked
    <3>2. QED
          BY <2>2, <3>1, PassesWanted
  <2>4. (\E net \in allow : last.packet.src \in net) <=> MayOpen(last.packet.src)
        BY <2>2 DEF AllowedNets, MayOpen
  <2>5. QED
        BY <2>2, <2>3, <2>4 DEF Unwanted, InboundAsked, InboundPolicy
<1>2. QED
      BY <1>1, InvHolds, PTL

\* specs.go:11, "LocationID / LocationGroupID, LocationQuery (with HTTP fallback),
\* BestAvailable", for every text, id and answer: the generator is never left without a
\* spec; ids the user gave are used, and the API is asked nothing; an answer of
\* find-locations is used as it is; without one, each id that the listing has for the query
\* is used once; and where there is none, or nothing was named, any provider will do.
THEOREM RequestServed == Spec => []SpecsServeRequest
<1>1. Inv => SpecsServeRequest
  <2> SUFFICES ASSUME Inv, Running PROVE SpecsServeRequest
      BY DEF SpecsServeRequest
  <2>1. /\ specs # <<>>
        /\ Named # {} => Ids(specs) = Named /\ found = <<>> /\ listing = NoListing
        /\ Queried /\ found # <<>> => specs = found /\ listing = NoListing
        /\ Queried /\ found = <<>> => specs = OrBest(FindSpecsByQueryFallback(listing, Asked))
        /\ Named = {} /\ ~Queried => specs = <<BestAvailable>>
        BY DEF Inv, Asking, Running
  <2>2. Queried /\ found = <<>> =>
          LET wanted == Wanted(listing, Asked)
          IN  IF wanted = {} THEN specs = <<BestAvailable>>
              ELSE /\ Ids(specs) = wanted /\ Len(specs) = Cardinality(wanted)
                   /\ \A i \in DOMAIN specs : specs[i].kind # "best"
    <3>1. Lists(listing)
          BY DEF Inv
    <3>2. QED
          BY <2>1, <3>1, FallbackServed
  <2>3. QED
        BY <2>1, <2>2 DEF SpecsServeRequest, Named, Queried
<1>2. QED
      BY <1>1, InvHolds, PTL
=============================================================================
