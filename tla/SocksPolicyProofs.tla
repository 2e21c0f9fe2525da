------------------------- MODULE SocksPolicyProofs -------------------------
(***************************************************************************)
(* Theorems about SocksPolicy, for all lists and every name.               *)
(***************************************************************************)
EXTENDS SocksPolicy, TLAPS

\* A suffix, element by element.
LEMMA SuffixElements ==
  ASSUME NEW p \in Name, NEW h \in Name
  PROVE  IsSuffix(p, h) <=> /\ Len(p) <= Len(h)
                            /\ \A i \in 1..Len(p) : p[i] = h[Len(h) - Len(p) + i]
<1> USE DEF Name
<1> DEFINE P == Reverse(p)
           H == Reverse(h)
<1>1. /\ P \in Seq(STRING) /\ Len(P) = Len(p) /\ \A i \in 1..Len(p) : P[i] = p[Len(p) - i + 1]
      /\ H \in Seq(STRING) /\ Len(H) = Len(h) /\ \A i \in 1..Len(h) : H[i] = h[Len(h) - i + 1]
      BY DEF Reverse
<1> HIDE DEF P, H
<1>2. ASSUME Len(p) <= Len(h)
      PROVE  SubSeq(P, 1, Len(P)) = SubSeq(H, 1, Len(P)) <=> \A i \in 1..Len(p) : P[i] = H[i]
      BY <1>1, <1>2
<1>3. ASSUME Len(p) <= Len(h)
      PROVE  (\A i \in 1..Len(p) : P[i] = H[i])
               <=> \A i \in 1..Len(p) : p[i] = h[Len(h) - Len(p) + i]
  <2>1. ASSUME \A i \in 1..Len(p) : P[i] = H[i], NEW i \in 1..Len(p)
        PROVE  p[i] = h[Len(h) - Len(p) + i]
    <3>1. Len(p) - i + 1 \in 1..Len(p)
          OBVIOUS
    <3>2. P[Len(p) - i + 1] = p[i] /\ H[Len(p) - i + 1] = h[Len(h) - Len(p) + i]
      <4>1. Len(p) - i + 1 \in 1..Len(h)
            BY <1>3, <3>1
      <4>2. /\ Len(p) - (Len(p) - i + 1) + 1 = i
            /\ Len(h) - (Len(p) - i + 1) + 1 = Len(h) - Len(p) + i
            OBVIOUS
      <4>3. QED
            BY <1>1, <3>1, <4>1, <4>2
    <3>3. QED
          BY <2>1, <3>1, <3>2
  <2>2. ASSUME \A i \in 1..Len(p) : p[i] = h[Len(h) - Len(p) + i], NEW i \in 1..Len(p)
        PROVE  P[i] = H[i]
    <3>1. Len(p) - i + 1 \in 1..Len(p) /\ i \in 1..Len(h)
          BY <1>3
    <3>2. p[Len(p) - i + 1] = h[Len(h) - Len(p) + (Len(p) - i + 1)]
          BY <2>2, <3>1
    <3>3. P[i] = p[Len(p) - i + 1] /\ H[i] = h[Len(h) - i + 1]
          BY <1>1, <3>1
    <3>4. Len(h) - Len(p) + (Len(p) - i + 1) = Len(h) - i + 1
          BY <1>3
    <3>5. QED
          BY <3>2, <3>3, <3>4
  <2>3. QED
        BY <2>1, <2>2
<1>4. IsSuffix(p, h) <=> Len(P) <= Len(H) /\ SubSeq(P, 1, Len(P)) = SubSeq(H, 1, Len(P))
      BY DEF IsSuffix, IsPrefix, P, H
<1>5. QED
      BY <1>1, <1>2, <1>3, <1>4

\* What is left of a name when its first labels are cut off, element by element.
LEMMA TailElements ==
  ASSUME NEW p \in Name, NEW h \in Name
  PROVE  (\E k \in 0..Len(h) : p = SubSeq(h, k + 1, Len(h)))
           <=> /\ Len(p) <= Len(h)
               /\ \A i \in 1..Len(p) : p[i] = h[Len(h) - Len(p) + i]
<1> USE DEF Name
<1>1. ASSUME NEW k \in 0..Len(h)
      PROVE  LET s == SubSeq(h, k + 1, Len(h))
             IN  /\ s \in Seq(STRING) /\ Len(s) = Len(h) - k
                 /\ \A i \in 1..Len(h) - k : s[i] = h[k + i]
  <2>1. SubSeq(h, k + 1, Len(h)) \in Seq(STRING)
        OBVIOUS
  <2>2. Len(SubSeq(h, k + 1, Len(h))) = Len(h) - k
        BY SMTT(30)
  <2>3. ASSUME NEW i \in 1..Len(h) - k
        PROVE  SubSeq(h, k + 1, Len(h))[i] = h[k + i]
        BY <2>2
  <2>4. QED
        BY <2>1, <2>2, <2>3
<1>2. ASSUME NEW k \in 0..Len(h), p = SubSeq(h, k + 1, Len(h))
      PROVE  /\ Len(p) <= Len(h)
             /\ \A i \in 1..Len(p) : p[i] = h[Len(h) - Len(p) + i]
  <2> DEFINE s == SubSeq(h, k + 1, Len(h))
  <2>1. Len(s) = Len(h) - k /\ \A i \in 1..Len(h) - k : s[i] = h[k + i]
        BY <1>1
  <2>2. Len(p) = Len(h) - k /\ \A i \in 1..Len(h) - k : p[i] = h[k + i]
        BY <1>2, <2>1
  <2>3. Len(p) <= Len(h) /\ Len(h) - Len(p) = k
        BY <2>2
  <2>4. QED
        BY <2>2, <2>3
<1>3. ASSUME Len(p) <= Len(h), \A i \in 1..Len(p) : p[i] = h[Len(h) - Len(p) + i]
      PROVE  \E k \in 0..Len(h) : p = SubSeq(h, k + 1, Len(h))
  <2> DEFINE k == Len(h) - Len(p)
             s == SubSeq(h, k + 1, Len(h))
  <2>1. k \in 0..Len(h)
        BY <1>3
  <2>2. s \in Seq(STRING) /\ Len(s) = Len(p) /\ \A i \in 1..Len(p) : s[i] = h[k + i]
        BY <1>1, <2>1
  <2>3. p = s
        BY <1>3, <2>2
  <2>4. QED
        BY <2>1, <2>3
<1>4. QED
      BY <1>2, <1>3

\* domainMatches (socks.go:268) compares suffixes; documented is that an entry covers
\* the name and every name below it.  The two are the same, for every name and list.
THEOREM MatchesIsUnder ==
  ASSUME NEW name \in Name, NEW domains \in SUBSET Name
  PROVE  DomainMatches(name, domains) <=> Under(name, domains)
<1>1. \A p \in domains : p \in Name
      OBVIOUS
<1>2. \A p \in domains : IsSuffix(p, name) <=> \E k \in 0..Len(name) : p = SubSeq(name, k + 1, Len(name))
      BY <1>1, SuffixElements, TailElements
<1>3. QED
      BY <1>2 DEF DomainMatches, Under

\* What goes through the VPN, in the words of the documentation: what --domain allows,
\* or everything, without what --exclude_domain excludes (socks.go:180-192, 407-428).
THEOREM PolicyAsDocumented ==
  ASSUME NEW name \in Name
  PROVE  UseVPN(name) <=> MustUseVPN(name)
<1>1. AllowDomains \in SUBSET Name /\ ExcludeDomains \in SUBSET Name
      BY SocksPolicyAssumption
<1>2. QED
      BY <1>1, MatchesIsUnder DEF UseVPN, MustUseVPN
=============================================================================
