---------------------------- MODULE SocksPolicy ----------------------------
(***************************************************************************)
(* Which destinations the SOCKS server sends through the VPN:              *)
(* domainMatches and the decision that handleSocksConn and                 *)
(* runUDPAssociate both make.                                              *)
(* A domain name is the sequence of its labels, in lower case and without  *)
(* the trailing dot; a destination given as an address has no labels.      *)
(* A definition Name_Word that stands before Name is a mutation of it: a   *)
(* mistake the code could have contained, which a property must catch.     *)
(***************************************************************************)
EXTENDS SequencesExt

CONSTANTS
  AllowDomains,    \* --domain
  ExcludeDomains   \* --exclude_domain

Name == Seq(STRING)

ASSUME SocksPolicyAssumption == AllowDomains \cup ExcludeDomains \subseteq Name

\* Mutation: an entry covers the name itself and not the names below it.
DomainMatches_Exact(host, patterns) == host \in patterns \ {<<>>}

DomainMatches(host, patterns) == \E p \in patterns \ {<<>>} : IsSuffix(p, host)

\* Mutation: --exclude_domain is not looked at.
UseVPN_IgnoresExclude(name) == AllowDomains # {} => DomainMatches(name, AllowDomains)

\* An address is on neither list: with --domain it goes around the VPN.
UseVPN(name) ==
  /\ AllowDomains # {} => DomainMatches(name, AllowDomains)
  /\ ~DomainMatches(name, ExcludeDomains)

\* What the documentation means by a name on a list: the entry or a name below it. An
\* entry without labels ("." alone) names nothing.
Under(name, domains) ==
  \E p \in domains \ {<<>>} : \E k \in 0..Len(name) : p = SubSeq(name, k + 1, Len(name))

\* docs/command-reference.md:71 and 72: the domains that "must route through VPN" are those
\* of --domain, every one without it, but for those of --exclude_domain.
MustUseVPN(name) ==
  /\ ~Under(name, ExcludeDomains)
  /\ AllowDomains = {} \/ Under(name, AllowDomains)
=============================================================================
