--------------------------- MODULE IpRoutesProofs ---------------------------
(***************************************************************************)
(* Lemmas about routing tables: what the commands do to them, and which    *)
(* route a packet takes.                                                   *)
(***************************************************************************)
EXTENDS IpRoutes, FiniteSetTheorems, WellFoundedInduction, TLAPS

\* `ip route add` adds at most the route it is given.
LEMMA AddSubset == \A t, r : t \subseteq Add(t, r) /\ Add(t, r) \subseteq t \cup {r}
BY DEF Add

\* `ip route del` and a flush only take routes away.
LEMMA RemovalSubset ==
  \A t, m, d : Delete(t, m) \subseteq t /\ Flush(t, d) \subseteq t
BY DEF Delete, Flush

\* What the commands make of a finite table is finite.
LEMMA TablesStayFinite ==
  /\ \A t, r : IsFiniteSet(t) => IsFiniteSet(Add(t, r))
  /\ \A t, u : IsFiniteSet(t) /\ u \subseteq t => IsFiniteSet(u)
<1>1. \A t, r : IsFiniteSet(t) => IsFiniteSet(t \cup {r})
      BY FS_AddElement
<1>2. \A t, u : IsFiniteSet(t) /\ u \subseteq t => IsFiniteSet(u)
      BY FS_Subset
<1>3. QED
      BY <1>1, <1>2 DEF Add

(***************************************************************************)
(* Longest prefix first.                                                   *)
(***************************************************************************)
LEMMA BeatsIsOrder ==
  ASSUME NEW t, \A r \in t : r.metric \in Nat, NEW p \in t, NEW q \in t, NEW r \in t
  PROVE  ~Beats(r, r) /\ (Beats(p, q) /\ Beats(q, r) => Beats(p, r))
<1>1. p.metric \in Nat /\ q.metric \in Nat /\ r.metric \in Nat
      OBVIOUS
<1>2. ~Beats(r, r)
      BY <1>1 DEF Beats
<1>3. ASSUME Beats(p, q), Beats(q, r) PROVE Beats(p, r)
  <2>1. CASE p.dst = q.dst /\ q.dst = r.dst
        BY <1>1, <1>3, <2>1 DEF Beats
  <2>2. CASE p.dst # q.dst \/ q.dst # r.dst
    <3>1. p.dst \subseteq q.dst /\ q.dst \subseteq r.dst
          BY <1>3 DEF Beats
    <3>2. p.dst # r.dst
          BY <2>2, <3>1
    <3>3. QED
          BY <3>1, <3>2 DEF Beats
  <2>3. QED
        BY <2>1, <2>2
<1>4. QED
      BY <1>2, <1>3

\* In a finite table an address that some route matches has a best match.
LEMMA BestMatch ==
  ASSUME NEW t, IsFiniteSet(t), \A r \in t : r.metric \in Nat,
         NEW a, NEW q \in t, a \in q.dst
  PROVE  \E r \in t : a \in r.dst /\ (\A s \in t : a \in s.dst => ~Beats(s, r))
<1> DEFINE matches == {r \in t : a \in r.dst}
           better(r) == {s \in matches : Beats(s, r)}
           T == {better(r) : r \in matches}
<1>1. T \subseteq FiniteSubsetsOf(t) /\ T # {}
  <2>1. \A r \in matches : better(r) \subseteq t /\ IsFiniteSet(better(r))
        BY FS_Subset
  <2>2. QED
        BY <2>1 DEF FiniteSubsetsOf
<1>2. PICK S \in T : \A U \in T : ~(<<U, S>> \in StrictSubsetOrdering(t))
      BY <1>1, FS_StrictSubsetOrderingWellFounded, WFMin
<1>3. PICK r \in matches : S = better(r)
      BY <1>2
<1>4. ASSUME NEW s \in t, a \in s.dst, Beats(s, r) PROVE FALSE
  <2>1. s \in better(r)
        BY <1>4
  <2>2. s \notin better(s) /\ better(s) \subseteq better(r)
        BY <1>4, BeatsIsOrder
  <2>3. better(s) \in T
        BY <1>4
  <2>4. <<better(s), S>> \in StrictSubsetOrdering(t)
        BY <1>3, <2>1, <2>2 DEF StrictSubsetOrdering
  <2>5. QED
        BY <1>2, <2>3, <2>4
<1>5. QED
      BY <1>3, <1>4
=============================================================================
