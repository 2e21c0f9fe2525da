------------------------- MODULE QuickConnectProofs -------------------------
(***************************************************************************)
(* Theorems about QuickConnect, for every set of command lines and stored  *)
(* files and any number of sessions and tokens.                            *)
(***************************************************************************)
EXTENDS QuickConnect, FiniteSetTheorems, TLAPS

Olds == {OldNetwork, OldClient}

MainType ==
  /\ main \in [at: Statement, jwt: Token, then: {"none", "verify", "load", "check", "spawn"}]
  /\ main.at \in {"truncate", "write"} => main.then # "none"
  /\ main.jwt \in issued \cup {None}
RenewType ==
  /\ renew \in [at: {"off", "select", "mint", "login", "mint2", "truncate", "write"}, jwt: Token]
  /\ renew.jwt \in issued \cup {None}
  /\ renew.at # "off" => cfg.renew /\ main.at \in {"final", "running", "ended"}
FileType ==
  /\ file \in [exists: BOOLEAN, token: Token] /\ file.token \in issued \cup {None}
  /\ other \in [at: {"idle", "write"}, jwt: Token] /\ other.jwt \in issued \cup {None}
ServerType ==
  /\ issued \subseteq Token /\ Olds \subseteq issued /\ IsFiniteSet(issued)
  /\ revoked \subseteq issued /\ accepted \subseteq issued
  /\ vpnJwt \in issued \cup {None}
FlagType == needsCode \in BOOLEAN /\ cancelled \in BOOLEAN
CountType ==
  /\ cfg \in Configs /\ faults \in FaultSets
  /\ others \in 0..MaxOthers /\ sessions \in 0..MaxSessions

TypeInv == MainType /\ RenewType /\ FileType /\ ServerType /\ FlagType /\ CountType

LEMMA TypeInvOK == TypeInv => TypeOK
BY DEF TypeInv, MainType, RenewType, FileType, ServerType, FlagType, CountType, TypeOK

(***************************************************************************)
(* Tokens.                                                                 *)
(***************************************************************************)
LEMMA OldsFinite == IsFiniteSet(Olds) /\ Cardinality(Olds) = 2
<1>1. OldNetwork # OldClient
      BY DEF OldNetwork, OldClient
<1>2. IsFiniteSet({OldNetwork}) /\ Cardinality({OldNetwork}) = 1
      BY FS_Singleton
<1>3. Olds = {OldNetwork} \cup {OldClient} /\ OldClient \notin {OldNetwork}
      BY <1>1 DEF Olds
<1>4. QED
      BY <1>2, <1>3, FS_AddElement

\* A token that is issued is of the kind asked for and none of the old ones.
LEMMA Fresh ==
  ASSUME ServerType, CanIssue, NEW client \in BOOLEAN
  PROVE  /\ New(client) \in Token /\ New(client).client = client
         /\ New(client) \notin Olds \cup {None}
         /\ IsFiniteSet(issued \cup {New(client)})
<1>1. IsFiniteSet(issued) /\ Olds \subseteq issued
      BY DEF ServerType
<1>2. Cardinality(Olds) = 2
      BY OldsFinite
<1>3. Cardinality(issued) \in Nat /\ Cardinality(issued) >= 2
      BY <1>1, <1>2, FS_CardinalityType, FS_Subset
<1>4. Cardinality(issued) + 1 \in 0..MaxTokens /\ Cardinality(issued) + 1 > 2
      BY <1>3, QuickConnectAssumption DEF CanIssue
<1>5. New(client) \in Token /\ New(client).client = client /\ New(client).n > 2
      BY <1>4 DEF New, Token
<1>6. OldNetwork.n <= 2 /\ OldClient.n <= 2 /\ None.n <= 2
      BY DEF OldNetwork, OldClient, None
<1>7. \A t \in Olds \cup {None} : t.n <= 2
      BY <1>6 DEF Olds
<1>8. IsFiniteSet(issued \cup {New(client)})
  <2>1. \A x : IsFiniteSet(issued \cup {x})
        BY <1>1, FS_AddElement
  <2>2. QED
        BY <2>1
<1>9. New(client) \notin Olds \cup {None}
  <2>1. New(client).n \in Int /\ ~(New(client).n <= 2)
        BY <1>4 DEF New
  <2>2. QED
        BY <1>7, <2>1
<1>10. QED
       BY <1>5, <1>8, <1>9

\* The old tokens and the empty string are tokens.
LEMMA OldTokens ==
  /\ Olds \subseteq Token /\ None \in Token /\ ~None.client
  /\ \A c \in Configs : c.jwt \in Olds \cup {None}
  /\ \A f \in Files : f \in [exists: BOOLEAN, token: Token] /\ f.token \in Olds \cup {None}
<1>1. 0 \in 0..MaxTokens /\ 1 \in 0..MaxTokens /\ 2 \in 0..MaxTokens
      BY QuickConnectAssumption
<1>2. None \in Token /\ OldNetwork \in Token /\ OldClient \in Token /\ ~None.client
      BY <1>1 DEF OldNetwork, OldClient, None, Token
<1>3. \A c \in Configs : c.jwt \in Olds \cup {None}
      BY QuickConnectAssumption DEF Olds, Config
<1>4. \A f \in Files : /\ f \in [exists: BOOLEAN, token: {None, OldNetwork, OldClient}]
                      /\ f.token \in Olds \cup {None}
      BY QuickConnectAssumption DEF Olds
<1>5. {None, OldNetwork, OldClient} \subseteq Token
      BY <1>2
<1>6. \A f \in Files : f \in [exists: BOOLEAN, token: Token]
      BY <1>4, <1>5
<1>7. QED
      BY <1>2, <1>3, <1>4, <1>6 DEF Olds

(***************************************************************************)
(* The types.                                                              *)
(***************************************************************************)
LEMMA TypeInit == Init => TypeInv
<1> SUFFICES ASSUME Init PROVE TypeInv
    OBVIOUS
<1>1. IsFiniteSet(Olds)
      BY OldsFinite
<1>2. issued = Olds /\ vpnJwt = None /\ accepted = {}
      BY DEF Init, Olds
<1>3. revoked \subseteq issued
      BY DEF Init
<1>4. ServerType
      BY <1>1, <1>2, <1>3, OldTokens DEF ServerType
<1>5. MainType /\ RenewType
      BY OldTokens DEF Init, MainType, RenewType, Statement
<1>6. FileType
      BY <1>2, OldTokens DEF Init, FileType
<1>7. FlagType
      BY Zenon DEF Init, FlagType
<1>8. CountType
      BY QuickConnectAssumption DEF Init, CountType
<1>9. QED
      BY <1>4, <1>5, <1>6, <1>7, <1>8 DEF TypeInv

\* What the server has issued only grows, by tokens it may issue.
LEMMA ServerStep ==
  ASSUME TypeInv, [Next]_vars
  PROVE  /\ issued \subseteq issued' /\ ServerType'
         /\ issued' = issued \/ CanIssue
<1>0. ServerType /\ MainType /\ FileType
      BY DEF TypeInv
<1>1. CASE UNCHANGED <<issued, revoked, accepted, vpnJwt>>
      BY <1>0, <1>1 DEF ServerType
<1>2. CASE \E client \in BOOLEAN : /\ CanIssue /\ issued' = issued \cup {New(client)}
                                   /\ accepted' \subseteq accepted \cup {New(client)}
                                   /\ UNCHANGED <<revoked, vpnJwt>>
      BY <1>0, <1>2, Fresh DEF ServerType
<1>3. CASE UNCHANGED <<issued, revoked, vpnJwt>> /\ accepted' \subseteq accepted \cup issued
      BY <1>0, <1>3 DEF ServerType
<1>4. CASE UNCHANGED <<issued, accepted, vpnJwt>> /\ revoked' \subseteq issued
      BY <1>0, <1>4 DEF ServerType
<1>5. CASE Begin \/ StartVpn
      BY <1>0, <1>5 DEF Begin, StartVpn, world, ServerType, FileType, Goto
<1>6. CASE Command
  <2>1. CASE Login \/ Verify \/ RefreshLogin
        BY <1>2, <1>1, <2>1 DEF Login, Verify, RefreshLogin, Issue, world
  <2>2. CASE RefreshMint \/ Mint
        BY <1>2, <1>1, <2>2 DEF RefreshMint, Mint, Issue, world
  <2>3. CASE Validate \/ RefreshCheck
        BY <1>3, <2>3 DEF Validate, RefreshCheck, Validated, Accepts, world
  <2>4. CASE Truncate \/ Write \/ SaveFails \/ Load \/ Wait \/ SpawnRenewal \/ Exit
        BY <1>1, <2>4 DEF Truncate, Write, SaveFails, Load, Wait, SpawnRenewal, Exit, world
  <2>5. QED
        BY <1>5, <1>6, <2>1, <2>2, <2>3, <2>4 DEF Command
<1>7. CASE Renewal
  <2>1. CASE RenewMint \/ RenewLogin \/ RenewMintAgain
        BY <1>2, <1>1, <2>1 DEF RenewMint, RenewLogin, RenewMintAgain, Issue, world
  <2>2. CASE Tick \/ RenewTruncate \/ RenewWrite \/ RenewSaveFails \/ RenewStops
        BY <1>1, <2>2 DEF Tick, RenewTruncate, RenewWrite, RenewSaveFails, RenewStops, world
  <2>3. QED
        BY <1>7, <2>1, <2>2 DEF Renewal
<1>8. CASE Revoke
      BY <1>0, <1>4, <1>8 DEF Revoke, ServerType
<1>9. CASE VpnReturns \/ OtherTruncates \/ OtherWrites \/ Cancel \/ Crash \/ UNCHANGED vars
      BY <1>1, <1>9 DEF VpnReturns, OtherTruncates, OtherWrites, Cancel, Crash, world, vars
<1>10. QED
       BY <1>5, <1>6, <1>7, <1>8, <1>9 DEF Next

LEMMA MainTyped == TypeInv /\ [Next]_vars => MainType'
<1> SUFFICES ASSUME TypeInv, [Next]_vars PROVE MainType'
    OBVIOUS
<1> DEFINE Held == issued \cup {None}
<1>0. MainType /\ FileType /\ ServerType /\ issued \subseteq issued'
      BY ServerStep DEF TypeInv
<1>1. ASSUME NEW at \in Statement, main' = [main EXCEPT !.at = at],
             at \in {"truncate", "write"} => main.then # "none"
      PROVE  MainType'
      BY <1>0, <1>1 DEF MainType
<1>2. ASSUME NEW t \in Token \cap issued',
             NEW then \in {"verify", "load", "check", "spawn"}, Save(t, then)
      PROVE  MainType'
      BY <1>2 DEF MainType, Save, Statement
<1>3. ASSUME UNCHANGED main
      PROVE  MainType'
      BY <1>0, <1>3 DEF MainType
<1>4. ASSUME NEW client \in BOOLEAN, CanIssue, Issue(New(client))
      PROVE  New(client) \in Token \cap issued'
      BY <1>0, <1>4, Fresh DEF Issue
<1>5. CASE Begin
      BY <1>5, OldTokens DEF Begin, MainType, Statement
<1>6. CASE Login
      BY <1>1, <1>2, <1>4, <1>6 DEF Login, Goto, Statement
<1>7. CASE Verify
      BY <1>1, <1>2, <1>4, <1>7 DEF Verify, Goto, Statement
<1>8. CASE Truncate \/ Write \/ SaveFails \/ Wait \/ SpawnRenewal \/ Exit
  <2>1. main.at = "truncate" => main.then \in {"verify", "load", "check", "spawn"}
        BY <1>0 DEF MainType
  <2>2. main.at = "write" => main.then \in {"verify", "load", "check", "spawn"}
        BY <1>0 DEF MainType
  <2>3. QED
        BY <1>1, <1>8, <2>1, <2>2
        DEF Truncate, Write, SaveFails, Wait, SpawnRenewal, Exit, Goto, Statement
<1>9. CASE Load
  <2>1. cfg.jwt \in Held /\ cfg.jwt \in Token /\ file.token \in Held /\ file.token \in Token
        BY <1>0, OldTokens DEF FileType, ServerType, TypeInv, CountType
  <2>2. \/ main' = [main EXCEPT !.at = "ended"]
        \/ \E at \in {"validate", "mint"}, t \in {cfg.jwt, file.token} :
             main' = [main EXCEPT !.at = at, !.jwt = t]
        BY <1>9 DEF Load, Goto
  <2>3. QED
        BY <1>0, <2>1, <2>2 DEF MainType, Statement
<1>10. CASE Validate \/ RefreshCheck
       BY <1>1, <1>10 DEF Validate, RefreshCheck, Validated, Goto, Statement
<1>11. CASE RefreshLogin
  <2>1. CASE main' = [main EXCEPT !.at = "wait"]
        BY <1>1, <2>1 DEF Statement
  <2>2. CASE CanIssue /\ Issue(New(FALSE)) /\ main' = [main EXCEPT !.at = "refreshMint", !.jwt = New(FALSE)]
        BY <1>0, <1>4, <2>2 DEF MainType, Statement
  <2>3. QED
        BY <1>11, <2>1, <2>2 DEF RefreshLogin, Goto
<1>12. CASE RefreshMint
       BY <1>1, <1>2, <1>4, <1>12 DEF RefreshMint, Goto, Statement
<1>13. CASE Mint
       BY <1>1, <1>2, <1>4, <1>13 DEF Mint, Goto, Statement
<1>14. CASE StartVpn \/ VpnReturns \/ Crash
       BY <1>1, <1>14 DEF StartVpn, VpnReturns, Crash, Goto, Statement
<1>15. CASE Renewal
       BY <1>3, <1>15 DEF Renewal, Tick, RenewMint, RenewLogin, RenewMintAgain, RenewTruncate,
                          RenewWrite, RenewSaveFails, RenewStops
<1>16. CASE OtherTruncates \/ OtherWrites \/ Revoke \/ Cancel \/ UNCHANGED vars
       BY <1>3, <1>16 DEF OtherTruncates, OtherWrites, Revoke, Cancel, vars
<1>17. QED
       BY <1>5, <1>6, <1>7, <1>8, <1>9, <1>10, <1>11, <1>12, <1>13, <1>14, <1>15, <1>16
       DEF Next, Command

LEMMA RenewTyped == TypeInv /\ [Next]_vars => RenewType'
<1> SUFFICES ASSUME TypeInv, [Next]_vars PROVE RenewType'
    OBVIOUS
<1> DEFINE Active == {"final", "running", "ended"}
<1>0. MainType /\ RenewType /\ FileType /\ ServerType /\ issued \subseteq issued'
      BY ServerStep DEF TypeInv
<1>1. CASE Begin
  <2>1. renew.at = "off" /\ UNCHANGED <<renew, issued>>
        BY <1>0, <1>1 DEF Begin, RenewType
  <2>2. QED
        BY <1>0, <2>1 DEF RenewType
<1>2. CASE \/ Login \/ Verify \/ Truncate \/ Write \/ SaveFails \/ Load \/ Validate
           \/ RefreshLogin \/ RefreshMint \/ RefreshCheck \/ Wait \/ Mint
  <2>1. renew.at = "off" /\ renew' = renew
        BY <1>0, <1>2
        DEF RenewType, Login, Verify, Truncate, Write, SaveFails, Load, Validate, RefreshLogin,
            RefreshMint, RefreshCheck, Wait, Mint
  <2>2. QED
        BY <1>0, <2>1 DEF RenewType
<1>3. CASE SpawnRenewal
      BY <1>0, <1>3 DEF SpawnRenewal, RenewType, MainType, Goto, world
<1>4. CASE StartVpn \/ VpnReturns
      BY <1>0, <1>4 DEF StartVpn, VpnReturns, RenewType, MainType, Goto, world
<1>5. CASE Exit \/ Crash
      BY <1>0, <1>5, OldTokens DEF Exit, Crash, RenewType
<1>6. CASE Renewal
  <2>1. renew.at # "off" /\ main.at \in Active /\ UNCHANGED <<main, cfg>>
        BY <1>0, <1>6
        DEF Renewal, Tick, RenewMint, RenewLogin, RenewMintAgain, RenewTruncate, RenewWrite,
            RenewSaveFails, RenewStops, RenewType, world
  <2>2. CASE Tick
        BY <1>0, <2>1, <2>2 DEF Tick, RenewType, FileType
  <2>3. ASSUME NEW at \in {"off", "select", "mint", "login", "mint2", "truncate", "write"},
               RenewGoto(at)
        PROVE  RenewType'
        BY <1>0, <2>1, <2>3 DEF RenewGoto, RenewType
  <2>4. ASSUME NEW client \in BOOLEAN, CanIssue, Issue(New(client)),
               \/ RenewSave(New(client)) \/ renew' = [at |-> "mint2", jwt |-> New(client)]
        PROVE  RenewType'
    <3>1. New(client) \in Token /\ New(client) \in issued'
          BY <1>0, <2>4, Fresh DEF Issue
    <3>2. QED
          BY <1>0, <2>1, <2>4, <3>1 DEF RenewSave, RenewType
  <2>5. CASE RenewMint \/ RenewLogin \/ RenewMintAgain
        BY <2>3, <2>4, <2>5 DEF RenewMint, RenewLogin, RenewMintAgain
  <2>6. CASE RenewTruncate \/ RenewWrite \/ RenewSaveFails \/ RenewStops
        BY <2>3, <2>6 DEF RenewTruncate, RenewWrite, RenewSaveFails, RenewStops
  <2>7. QED
        BY <1>6, <2>2, <2>5, <2>6 DEF Renewal
<1>7. CASE OtherTruncates \/ OtherWrites \/ Revoke \/ Cancel \/ UNCHANGED vars
      BY <1>0, <1>7 DEF OtherTruncates, OtherWrites, Revoke, Cancel, vars, RenewType
<1>8. QED
      BY <1>1, <1>2, <1>3, <1>4, <1>5, <1>6, <1>7 DEF Next, Command

LEMMA FileTyped == TypeInv /\ [Next]_vars => FileType'
<1> SUFFICES ASSUME TypeInv, [Next]_vars PROVE FileType'
    OBVIOUS
<1>0. MainType /\ RenewType /\ FileType /\ ServerType /\ issued \subseteq issued'
      BY ServerStep DEF TypeInv
<1>1. CASE UNCHANGED <<file, other>>
      BY <1>0, <1>1 DEF FileType
<1>2. CASE Truncate \/ RenewTruncate
  <2>1. file' = [exists |-> TRUE, token |-> None] /\ UNCHANGED <<other, issued>>
        BY <1>2 DEF Truncate, RenewTruncate, world
  <2>2. file' \in [exists: BOOLEAN, token: Token] /\ file'.token = None
        BY <2>1, OldTokens
  <2>3. QED
        BY <1>0, <2>1, <2>2 DEF FileType
<1>3. CASE Write
      BY <1>0, <1>3 DEF Write, FileType, MainType, world
<1>4. CASE RenewWrite
      BY <1>0, <1>4 DEF RenewWrite, FileType, RenewType, world
<1>5. CASE OtherTruncates
  <2>1. PICK t \in issued : other' = [at |-> "write", jwt |-> t]
        BY <1>5 DEF OtherTruncates
  <2>2. file' = [exists |-> TRUE, token |-> None] /\ issued' = issued
        BY <1>5 DEF OtherTruncates
  <2>3. t \in Token /\ None \in Token
        BY <1>0, OldTokens DEF ServerType
  <2>4. file' \in [exists: BOOLEAN, token: Token]
        BY <2>2, <2>3
  <2>5. other' \in [at: {"idle", "write"}, jwt: Token]
        BY <2>1, <2>3
  <2>6. file'.token = None /\ other'.jwt = t
        BY <2>1, <2>2
  <2>7. QED
        BY <2>2, <2>4, <2>5, <2>6 DEF FileType
<1>6. CASE OtherWrites
      BY <1>0, <1>6, OldTokens DEF OtherWrites, FileType
<1>7. CASE \/ Begin \/ Login \/ Verify \/ SaveFails \/ Load \/ Validate \/ RefreshLogin
           \/ RefreshMint \/ RefreshCheck \/ Wait \/ Mint \/ SpawnRenewal \/ StartVpn \/ Exit
           \/ VpnReturns \/ Revoke \/ Cancel \/ Crash \/ UNCHANGED vars
      BY <1>1, <1>7
      DEF Begin, Login, Verify, SaveFails, Load, Validate, RefreshLogin, RefreshMint, RefreshCheck,
          Wait, Mint, SpawnRenewal, StartVpn, Exit, VpnReturns, Revoke, Cancel, Crash, world, vars
<1>8. CASE Tick \/ RenewMint \/ RenewLogin \/ RenewMintAgain \/ RenewSaveFails \/ RenewStops
      BY <1>1, <1>8
      DEF Tick, RenewMint, RenewLogin, RenewMintAgain, RenewSaveFails, RenewStops, world
<1>9. QED
      BY <1>2, <1>3, <1>4, <1>5, <1>6, <1>7, <1>8 DEF Next, Command, Renewal

\* What may fail is chosen once.
LEMMA FaultsFixed == [Next]_vars => faults' = faults
BY DEF Next, Begin, Command, Login, Verify, Truncate, Write, SaveFails, Load,
       Validate, RefreshLogin, RefreshMint, RefreshCheck, Wait, Mint, SpawnRenewal, StartVpn,
       Exit, VpnReturns, Renewal, Tick, RenewMint, RenewLogin, RenewMintAgain, RenewTruncate,
       RenewWrite, RenewSaveFails, RenewStops, OtherTruncates, OtherWrites, Revoke, Cancel, Crash,
       world, vars

LEMMA RestTyped == TypeInv /\ [Next]_vars => FlagType' /\ CountType'
<1> SUFFICES ASSUME TypeInv, [Next]_vars PROVE FlagType' /\ CountType'
    OBVIOUS
<1>1. FlagType'
      BY Zenon
      DEF TypeInv, FlagType, Next, Begin, Command, Login, Verify, Truncate, Write, SaveFails, Load,
          Validate, RefreshLogin, RefreshMint, RefreshCheck, Wait, Mint, SpawnRenewal, StartVpn,
          Exit, VpnReturns, Renewal, Tick, RenewMint, RenewLogin, RenewMintAgain, RenewTruncate,
          RenewWrite, RenewSaveFails, RenewStops, OtherTruncates, OtherWrites, Revoke, Cancel,
          Crash, world, vars
<1>2. CASE Begin
  <2>1. cfg' \in Configs /\ sessions < MaxSessions /\ sessions' = sessions + 1 /\ others' = others
        BY <1>2 DEF Begin
  <2>2. sessions \in 0..MaxSessions /\ others \in 0..MaxOthers /\ MaxSessions \in Nat
        BY QuickConnectAssumption DEF TypeInv, CountType
  <2>3. sessions' \in 0..MaxSessions /\ others' \in 0..MaxOthers
        BY <2>1, <2>2
  <2>4. QED
        BY <1>1, <2>1, <2>3, FaultsFixed DEF TypeInv, CountType
<1>3. CASE OtherTruncates
  <2>1. others < MaxOthers /\ others' = others + 1 /\ UNCHANGED <<cfg, sessions>>
        BY <1>3 DEF OtherTruncates
  <2>2. others \in 0..MaxOthers /\ MaxOthers \in Nat
        BY QuickConnectAssumption DEF TypeInv, CountType
  <2>3. others' \in 0..MaxOthers
        BY <2>1, <2>2
  <2>4. QED
        BY <1>1, <2>1, <2>3, FaultsFixed DEF TypeInv, CountType
<1>4. UNCHANGED <<cfg, others, sessions>> \/ Begin \/ OtherTruncates
      BY DEF Next, Command, Login, Verify, Truncate, Write, SaveFails, Load,
          Validate, RefreshLogin, RefreshMint, RefreshCheck, Wait, Mint, SpawnRenewal, StartVpn,
          Exit, VpnReturns, Renewal, Tick, RenewMint, RenewLogin, RenewMintAgain, RenewTruncate,
          RenewWrite, RenewSaveFails, RenewStops, OtherWrites, Revoke, Cancel, Crash, world, vars
<1>5. QED
      BY <1>1, <1>2, <1>3, <1>4, FaultsFixed DEF TypeInv, CountType

LEMMA TypeStep == TypeInv /\ [Next]_vars => TypeInv'
BY ServerStep, MainTyped, RenewTyped, FileTyped, RestTyped DEF TypeInv

(***************************************************************************)
(* The token the VPN starts with.                                          *)
(***************************************************************************)
\* Without a client token in --jwt, which is used unseen: what is validated is what the
\* file holds, what is saved before the start is a client token, and the renewal leaves
\* the file alone until the VPN was started.
Ensured ==
  /\ other.at = "idle"
  /\ ~cfg.jwt.client =>
    /\ main.at \in {"validate", "check"} => main.jwt.client /\ file.token = main.jwt
    /\ main.at \in {"truncate", "write"} /\ main.then \in {"check", "spawn"} => main.jwt.client
    /\ main.at \in {"truncate", "write"} /\ main.then = "spawn" => main.jwt \in accepted
    /\ main.at \in {"spawn", "final"} => file.token.client /\ file.token \in accepted
    /\ main.at = "final" => renew.at \in {"off", "select"}
    /\ main.at = "running" => vpnJwt.client /\ vpnJwt \in accepted

\* What another command, a renewal or the server does is no concern of Ensured's.
LEMMA EnsuredStep == TypeInv /\ Alone /\ Ensured /\ [Next]_vars => Ensured'
<1> SUFFICES ASSUME TypeInv, Alone, Ensured, [Next]_vars PROVE Ensured'
    OBVIOUS
<1>0. /\ main \in [at: Statement, jwt: Token, then: {"none", "verify", "load", "check", "spawn"}]
      /\ renew \in [at: {"off", "select", "mint", "login", "mint2", "truncate", "write"}, jwt: Token]
      /\ renew.at # "off" => main.at \in {"final", "running", "ended"}
      /\ file \in [exists: BOOLEAN, token: Token]
      BY DEF TypeInv, MainType, RenewType, FileType
<1>1. \A at : Goto(at) => main'.at = at
      BY <1>0 DEF Goto
<1>2. ASSUME NEW t, NEW then, Save(t, then)
      PROVE  main'.at = "truncate" /\ main'.jwt = t /\ main'.then = then
      BY <1>2 DEF Save
<1>3. CASE Begin
      BY <1>3 DEF Begin, Ensured
<1>4. CASE Command \/ VpnReturns \/ Crash
  <2>0. cfg' = cfg /\ other' = other
        BY <1>4 DEF Command, Login, Verify, Truncate, Write, SaveFails, Load, Validate,
                    RefreshLogin, RefreshMint, RefreshCheck, Wait, Mint, SpawnRenewal, StartVpn,
                    Exit, VpnReturns, Crash, world
  <2>1. CASE Login \/ Verify \/ RefreshLogin
    <3>1. /\ main'.at \in {"ended", "verify", "wait", "refreshMint", "truncate"}
          /\ main'.at = "truncate" => main'.then \in {"verify", "load"}
      <4>1. CASE Login
            BY <1>1, <1>2, <4>1 DEF Login
      <4>2. CASE Verify
            BY <1>1, <1>2, <4>2 DEF Verify
      <4>3. CASE RefreshLogin
            BY <1>0, <1>1, <4>3 DEF RefreshLogin
      <4>4. QED
            BY <2>1, <4>1, <4>2, <4>3
    <3>2. QED
          BY <2>0, <3>1 DEF Ensured
  <2>2. CASE RefreshMint \/ Mint
    <3>1. CanIssue => New(TRUE).client
          BY Fresh DEF TypeInv
    <3>2. /\ main'.at \in {"ended", "wait", "truncate"}
          /\ main'.at = "truncate" =>
               /\ CanIssue /\ main'.jwt = New(TRUE) /\ main'.then \in {"check", "spawn"}
               /\ main'.then = "spawn" => New(TRUE) \in accepted'
      <4>1. CASE RefreshMint
        <5>1. CASE Goto("wait")
              BY <1>1, <5>1
        <5>2. CASE CanIssue /\ Save(New(TRUE), "check")
          <6>1. main'.at = "truncate" /\ main'.jwt = New(TRUE) /\ main'.then = "check"
                BY <5>2, <1>2, Zenon
          <6>2. QED
                BY <5>2, <6>1
        <5>3. QED
              BY <4>1, <5>1, <5>2 DEF RefreshMint
      <4>2. CASE Mint
        <5>1. CASE Goto("ended")
              BY <1>1, <5>1
        <5>2. CASE CanIssue /\ Save(New(TRUE), "spawn") /\ New(TRUE) \in accepted'
              BY <1>2, <5>2
        <5>3. QED
              BY <4>2, <5>1, <5>2 DEF Mint
      <4>3. QED
            BY <2>2, <4>1, <4>2
    <3>3. QED
          BY <2>0, <3>1, <3>2 DEF Ensured
  <2>3. CASE Load
        BY <1>0, <2>0, <2>3 DEF Load, Goto, Ensured, None
  <2>4. CASE Validate
        BY <1>0, <2>0, <2>4 DEF Validate, Validated, Goto, Ensured, world
  <2>5. CASE RefreshCheck
        BY <1>0, <2>0, <2>5 DEF RefreshCheck, Validated, Goto, Ensured, world
  <2>6. CASE Truncate
        BY <1>0, <2>0, <2>6 DEF Truncate, Goto, Ensured
  <2>7. CASE Write
        BY <1>0, <2>0, <2>7 DEF Write, Goto, Ensured
  <2>8. CASE SaveFails \/ Wait
        BY <1>0, <2>0, <2>8 DEF SaveFails, Wait, Goto, Ensured
  <2>9. CASE SpawnRenewal
        BY <1>0, <2>0, <2>9 DEF SpawnRenewal, Goto, Ensured
  <2>10. CASE StartVpn
        BY <1>0, <2>0, <2>10 DEF StartVpn, Goto, Ensured
  <2>11. CASE Exit \/ VpnReturns \/ Crash
        BY <1>0, <2>0, <2>11 DEF Exit, VpnReturns, Crash, Goto, Ensured
  <2>12. QED
         BY <1>4, <2>1, <2>2, <2>3, <2>4, <2>5, <2>6, <2>7, <2>8, <2>9, <2>10, <2>11 DEF Command
<1>5. CASE Renewal
  <2>1. /\ main.at \in {"running", "ended"} \/ (main.at = "final" /\ renew.at # "select")
        /\ renew.at # "off" /\ UNCHANGED <<main, other, cfg, vpnJwt, accepted>>
        BY <1>0, <1>5
        DEF Renewal, Tick, RenewMint, RenewLogin, RenewMintAgain, RenewTruncate, RenewWrite,
            RenewSaveFails, RenewStops, world
  <2>2. QED
        BY <1>0, <2>1 DEF Ensured
<1>6. CASE OtherTruncates \/ OtherWrites \/ Revoke \/ Cancel \/ UNCHANGED vars
      BY <1>0, <1>6 DEF OtherTruncates, OtherWrites, Revoke, Cancel, vars, Alone, Ensured
<1>7. QED
      BY <1>3, <1>4, <1>5, <1>6 DEF Next

\* While the VPN runs the file holds a client token, and what the renewal is about to
\* save is one.
Kept ==
  /\ renew.at \in {"truncate", "write"} => renew.jwt.client
  /\ ~cfg.jwt.client /\ main.at = "running" /\ renew.at # "write" => file.token.client

LEMMA KeptStep ==
  TypeInv /\ Alone /\ "save" \notin faults /\ Ensured /\ Kept /\ [Next]_vars => Kept'
<1> SUFFICES ASSUME TypeInv, Alone, "save" \notin faults, Ensured, Kept, [Next]_vars
             PROVE  Kept'
    OBVIOUS
<1>0. /\ main \in [at: Statement, jwt: Token, then: {"none", "verify", "load", "check", "spawn"}]
      /\ renew \in [at: {"off", "select", "mint", "login", "mint2", "truncate", "write"}, jwt: Token]
      /\ file \in [exists: BOOLEAN, token: Token]
      /\ other.at = "idle"
      BY DEF TypeInv, MainType, RenewType, FileType, Ensured
<1>1. \A at : Goto(at) => main'.at = at
      BY <1>0 DEF Goto
<1>2. \A t, then : Save(t, then) => main'.at = "truncate"
       BY DEF Save
<1>3. \A at : RenewGoto(at) => renew'.at = at /\ renew'.jwt = renew.jwt
      BY <1>0 DEF RenewGoto
<1>4. CASE Begin \/ Login \/ Verify \/ Load \/ Validate \/ RefreshLogin \/ RefreshMint
           \/ RefreshCheck \/ Wait \/ Mint \/ Truncate \/ Write \/ SaveFails
  <2>1. renew' = renew
        BY <1>4 DEF Begin, Login, Verify, Load, Validate, RefreshLogin, RefreshMint, RefreshCheck,
                    Wait, Mint, Truncate, Write, SaveFails
  <2>2. main'.at # "running"
    <3>1. CASE Begin
          BY <3>1 DEF Begin
    <3>2. CASE Login \/ Verify
          BY <1>1, <1>2, <3>2 DEF Login, Verify
    <3>3. CASE Load \/ RefreshLogin
          BY <1>0, <1>1, <3>3 DEF Load, RefreshLogin
    <3>4. CASE RefreshMint \/ Mint
          BY <1>1, <1>2, <3>4 DEF RefreshMint, Mint
    <3>5. CASE Validate \/ RefreshCheck
          BY <1>1, <3>5 DEF Validate, RefreshCheck, Validated
    <3>6. CASE Truncate \/ Write \/ Wait
          BY <1>0, <1>1, <3>6 DEF Truncate, Write, Wait
    <3>7. QED
          BY <1>4, <3>1, <3>2, <3>3, <3>4, <3>5, <3>6 DEF SaveFails
  <2>3. QED
        BY <2>1, <2>2 DEF Kept
<1>5. CASE SpawnRenewal \/ Exit \/ Crash \/ VpnReturns
  <2>1. main'.at # "running"
        BY <1>1, <1>5 DEF SpawnRenewal, Exit, Crash, VpnReturns
  <2>2. renew' = renew \/ renew'.at \in {"select", "off"}
        BY <1>0, <1>5 DEF SpawnRenewal, Exit, Crash, VpnReturns
  <2>3. QED
        BY <2>1, <2>2 DEF Kept
<1>6. CASE StartVpn
  <2>1. main.at = "final" /\ UNCHANGED <<renew, file, cfg>>
        BY <1>6 DEF StartVpn, world
  <2>2. ~cfg.jwt.client => file.token.client
        BY <2>1 DEF Ensured
  <2>3. QED
        BY <2>1, <2>2 DEF Kept
<1>7. CASE Tick \/ RenewStops
  <2>1. renew'.at \in {"mint", "off"} /\ renew.at = "select" /\ UNCHANGED <<main, file, cfg>>
        BY <1>3, <1>7 DEF Tick, RenewStops, world
  <2>2. QED
        BY <2>1 DEF Kept
<1>8. CASE RenewMint \/ RenewLogin \/ RenewMintAgain
  <2>1. renew.at # "write" /\ UNCHANGED <<main, file, cfg>>
        BY <1>8 DEF RenewMint, RenewLogin, RenewMintAgain, world
  <2>2. CanIssue => New(TRUE).client
        BY Fresh DEF TypeInv
  <2>3. renew'.at \in {"truncate", "write"} => renew'.jwt.client
    <3>1. ASSUME CanIssue, RenewSave(New(TRUE)) PROVE renew'.jwt.client
          BY <2>2, <3>1 DEF RenewSave
    <3>2. ASSUME NEW at \in {"select", "login"}, RenewGoto(at)
          PROVE  renew'.at \notin {"truncate", "write"}
          BY <1>3, <3>2
    <3>3. CASE RenewMint \/ RenewMintAgain
      <4>1. \/ RenewGoto("select") \/ RenewGoto("login")
            \/ CanIssue /\ RenewSave(New(TRUE))
            BY <3>3 DEF RenewMint, RenewMintAgain
      <4>2. QED
            BY <3>1, <3>2, <4>1
    <3>4. CASE RenewLogin
      <4>1. RenewGoto("select") \/ renew' = [at |-> "mint2", jwt |-> New(FALSE)]
            BY <3>4, Zenon DEF RenewLogin
      <4>2. CASE RenewGoto("select")
            BY <3>2, <4>2
      <4>3. CASE renew' = [at |-> "mint2", jwt |-> New(FALSE)]
            BY <4>3
      <4>4. QED
            BY <4>1, <4>2, <4>3
    <3>5. QED
          BY <1>8, <3>3, <3>4
  <2>4. QED
        BY <2>1, <2>3 DEF Kept
<1>9. CASE RenewTruncate
  <2>1. renew'.at = "write" /\ renew'.jwt = renew.jwt /\ renew.at = "truncate"
        BY <1>3, <1>9 DEF RenewTruncate
  <2>2. QED
        BY <2>1 DEF Kept
<1>10. CASE RenewWrite
  <2>1. renew'.at = "select" /\ file'.token = renew.jwt /\ renew.at = "write"
        BY <1>0, <1>3, <1>10 DEF RenewWrite
  <2>2. QED
        BY <2>1 DEF Kept
<1>11. CASE OtherTruncates \/ OtherWrites \/ Revoke \/ Cancel \/ UNCHANGED vars
       BY <1>0, <1>11 DEF OtherTruncates, OtherWrites, Revoke, Cancel, vars, Alone, Kept
<1>12. QED
       BY <1>4, <1>5, <1>6, <1>7, <1>8, <1>9, <1>10, <1>11
       DEF Next, Command, Renewal, RenewSaveFails

(***************************************************************************)
(* Credentials.                                                            *)
(***************************************************************************)
\* The command is to connect with the credentials it was given.
Sought == cfg.creds /\ cfg.jwt = None /\ ~cfg.code

\* What the command may give up for.
Hopeless == needsCode \/ ~CanIssue \/ ~(revoked \subseteq Olds)

\* The command works with a token of this session, and never without a file.
Sufficient ==
  Sought =>
    /\ main.at # "verify"
    /\ main.at \in {"truncate", "write"} => main.then # "verify"
    /\ main.at \in {"truncate", "write"} /\ main.then = "load" => main.jwt \in issued \ Olds
    /\ main.at = "load" => file.token \in issued \ Olds
    /\ main.at = "mint" => main.jwt \in issued \ Olds
    /\ main.at \notin {"idle", "login", "truncate", "ended"} => file.exists
    /\ main.at = "ended" => vpnJwt # None \/ Hopeless

\* Within a session nothing brings hope back.
LEMMA HopelessStays ==
  ASSUME TypeInv, Hopeless, [Next]_vars, ~Begin, ~Verify
  PROVE  Hopeless'
<1>1. issued' = issued \/ CanIssue
      BY ServerStep
<1>2. needsCode' = needsCode /\ (cancelled' = cancelled \/ cancelled') /\ revoked \subseteq revoked'
      BY DEF Next, Command, Login, Truncate, Write, SaveFails, Load,
          Validate, RefreshLogin, RefreshMint, RefreshCheck, Wait, Mint, SpawnRenewal, StartVpn,
          Exit, VpnReturns, Renewal, Tick, RenewMint, RenewLogin, RenewMintAgain, RenewTruncate,
          RenewWrite, RenewSaveFails, RenewStops, OtherTruncates, OtherWrites, Revoke, Cancel,
          Crash, world, vars
<1>3. ~CanIssue => ~CanIssue'
      BY <1>1, <1>2 DEF CanIssue
<1>4. QED
      BY <1>2, <1>3 DEF Hopeless

LEMMA SufficientStep ==
  /\ TypeInv /\ Alone /\ faults \cap {"api", "save"} = {} /\ Ensured /\ Sufficient
  /\ [Next]_vars
  => Sufficient'
<1> SUFFICES ASSUME TypeInv, Alone, faults \cap {"api", "save"} = {}, Ensured, Sufficient,
                    [Next]_vars, Sought'
             PROVE  Sufficient'
    BY DEF Sufficient
<1> DEFINE Own == issued \ Olds
<1>0. /\ main \in [at: Statement, jwt: Token, then: {"none", "verify", "load", "check", "spawn"}]
      /\ main.at \in {"truncate", "write"} => main.then # "none"
      /\ file \in [exists: BOOLEAN, token: Token]
      /\ renew.at # "off" => main.at \in {"final", "running", "ended"}
      /\ other.at = "idle"
      BY DEF TypeInv, MainType, RenewType, FileType, Ensured
<1>1. \A at : Goto(at) => main'.at = at /\ main'.jwt = main.jwt /\ main'.then = main.then
      BY <1>0 DEF Goto
<1>2. \A t, then : Save(t, then) => main'.at = "truncate"
      BY DEF Save
<1>3. ASSUME NEW client \in BOOLEAN, CanIssue, Issue(New(client))
      PROVE  New(client) \in issued' \ Olds
      BY <1>3, Fresh DEF Issue, TypeInv
<1>4. issued \subseteq issued'
      BY ServerStep
<1>5. "api" \notin faults /\ "save" \notin faults
      OBVIOUS
<1>6. (Begin => main.at = "idle" /\ main'.at # "idle") /\ (Verify => main.at = "verify")
  <2>1. Begin => main.at = "idle" /\ main'.at \in {"login", "load"}
        BY DEF Begin
  <2>2. QED
        BY <2>1 DEF Verify
<1>7. CASE Begin
  <2>1. cfg'.creds /\ main'.at = "login"
        BY <1>7 DEF Begin, Sought
  <2>2. QED
        BY <2>1 DEF Sufficient
<1>8. CASE Command \/ VpnReturns \/ Crash \/ Renewal \/ OtherTruncates \/ OtherWrites
           \/ Revoke \/ Cancel \/ UNCHANGED vars
  <2>0. cfg' = cfg
        BY <1>8 DEF Command, Login, Verify, Truncate, Write, SaveFails, Load, Validate,
                    RefreshLogin, RefreshMint, RefreshCheck, Wait, Mint, SpawnRenewal, StartVpn,
                    Exit, VpnReturns, Crash, Renewal, Tick, RenewMint, RenewLogin, RenewMintAgain,
                    RenewTruncate, RenewWrite, RenewSaveFails, RenewStops, OtherTruncates,
                    OtherWrites, Revoke, Cancel, vars, world
  <2>1. /\ cfg.creds /\ cfg.jwt = None /\ ~cfg.code
        /\ main.at # "verify"
        /\ main.at \in {"truncate", "write"} => main.then # "verify"
        /\ main.at \in {"truncate", "write"} /\ main.then = "load" => main.jwt \in Own
        /\ main.at = "load" => file.token \in Own
        /\ main.at = "mint" => main.jwt \in Own
        /\ main.at \notin {"idle", "login", "truncate", "ended"} => file.exists
        /\ main.at = "ended" => vpnJwt # None \/ Hopeless
        BY <2>0 DEF Sought, Sufficient
  <2>2. CASE Login
    <3>1. UNCHANGED file
          BY <2>2 DEF Login
    <3>2. CASE Goto("ended") /\ (CallMayFail \/ needsCode)
      <4>1. Hopeless
            BY <1>5, <3>2 DEF CallMayFail, Hopeless
      <4>2. main.at = "login"
            BY <2>2 DEF Login
      <4>3. ~Begin /\ ~Verify
            BY <1>6, <4>2
      <4>4. Hopeless'
            BY <4>1, <4>3, HopelessStays
      <4>5. main'.at = "ended"
            BY <1>1, <3>2
      <4>6. QED
        <5>1. main'.at \notin {"verify", "truncate", "write", "load", "mint"}
              BY <4>5
        <5>2. main'.at \in {"idle", "login", "truncate", "ended"}
              BY <4>5
        <5>3. QED
              BY <4>4, <5>1, <5>2, Zenon DEF Sufficient
    <3>3. CASE CanIssue /\ Issue(New(FALSE)) /\ Save(New(FALSE), "load")
      <4>1. main'.at = "truncate" /\ main'.then = "load" /\ main'.jwt \in issued' \ Olds
            BY <1>3, <3>3 DEF Save
      <4>2. QED
            BY <4>1 DEF Sufficient
    <3>4. QED
          BY <1>5, <2>1, <2>2, <3>2, <3>3 DEF Login
  <2>3. CASE Verify
        BY <2>1, <2>3 DEF Verify
  <2>4. CASE Truncate
    <3>1. main'.at = "write" /\ main'.jwt = main.jwt /\ main'.then = main.then /\ file'.exists
          BY <1>1, <2>4 DEF Truncate
    <3>2. QED
          BY <1>4, <2>1, <2>4, <3>1 DEF Sufficient, Truncate
  <2>5. CASE Write
    <3>1. /\ main'.at = main.then /\ main'.jwt = main.jwt /\ main'.then = main.then
          /\ file'.token = main.jwt /\ file'.exists = file.exists
          BY <1>0, <1>1, <2>5 DEF Write
    <3>2. main.then \in {"load", "check", "spawn"} /\ file.exists /\ main.at = "write"
          BY <1>0, <2>1, <2>5 DEF Write
    <3>3. QED
          BY <1>4, <2>1, <3>1, <3>2 DEF Sufficient
  <2>6. CASE SaveFails
        BY <1>5, <2>6 DEF SaveFails
  <2>7. CASE Load
    <3>1. file.exists /\ file.token \in Own /\ main.at = "load" /\ UNCHANGED <<file, issued>>
          BY <2>1, <2>7 DEF Load
    <3>2. \E at \in {"validate", "mint"} : main' = [main EXCEPT !.at = at, !.jwt = file.token]
          BY <2>1, <2>7, <3>1 DEF Load
    <3>3. main'.at \in {"validate", "mint"} /\ main'.jwt = file.token
          BY <1>0, <3>2
    <3>4. QED
          BY <3>1, <3>3 DEF Sufficient
  <2>8. CASE Validate \/ RefreshCheck \/ SpawnRenewal \/ StartVpn
    <3>1. file.exists /\ UNCHANGED file
          BY <2>1, <2>8 DEF Validate, RefreshCheck, SpawnRenewal, StartVpn
    <3>2. main'.at \in {"spawn", "refresh", "wait", "final", "running"}
          BY <1>1, <2>1, <2>8, <3>1 DEF Validate, RefreshCheck, SpawnRenewal, StartVpn, Validated
    <3>3. QED
          BY <3>1, <3>2 DEF Sufficient
  <2>9. CASE RefreshLogin
    <3>1. file.exists /\ UNCHANGED file
          BY <2>1, <2>9 DEF RefreshLogin
    <3>2. main'.at \in {"wait", "refreshMint"}
          BY <1>0, <1>1, <2>9 DEF RefreshLogin
    <3>3. QED
          BY <3>1, <3>2 DEF Sufficient
  <2>10. CASE RefreshMint
    <3>1. file.exists /\ UNCHANGED file
          BY <2>1, <2>10 DEF RefreshMint
    <3>2. Goto("wait") \/ Save(New(TRUE), "check")
          BY <2>10, Zenon DEF RefreshMint
    <3>3. CASE Goto("wait")
          BY <1>1, <3>1, <3>3 DEF Sufficient
    <3>4. CASE Save(New(TRUE), "check")
      <4>1. main'.at = "truncate" /\ main'.then = "check"
            BY <3>4 DEF Save
      <4>2. QED
            BY <4>1 DEF Sufficient
    <3>5. QED
          BY <3>2, <3>3, <3>4
  <2>11. CASE Wait
    <3>1. file.exists /\ UNCHANGED <<file, issued, revoked, needsCode, cancelled>>
          BY <2>1, <2>11 DEF Wait, world
    <3>2. main'.at = "refresh" \/ (cancelled /\ main'.at = "ended")
          BY <1>1, <2>11 DEF Wait
    <3>3. cancelled => Hopeless'
          BY <3>1 DEF Hopeless, CanIssue
    <3>4. QED
          BY <3>1, <3>2, <3>3 DEF Sufficient
  <2>12. CASE Mint
    <3>1. main.jwt \in Own /\ file.exists /\ UNCHANGED <<file, revoked, needsCode, cancelled>>
          BY <2>1, <2>12 DEF Mint, world
    <3>2. CASE Goto("ended") /\ (CallMayFail \/ ~Accepts(main.jwt)) /\ issued' = issued
      <4>1. Hopeless
            BY <1>5, <3>1, <3>2 DEF CallMayFail, Accepts, Hopeless
      <4>2. Hopeless'
            BY <3>1, <3>2, <4>1 DEF Hopeless, CanIssue
      <4>3. QED
            BY <1>1, <3>2, <4>2 DEF Sufficient
    <3>3. CASE Save(New(TRUE), "spawn")
      <4>1. main'.at = "truncate" /\ main'.then = "spawn"
            BY <3>3 DEF Save
      <4>2. QED
            BY <4>1 DEF Sufficient
    <3>4. QED
          BY <2>12, <3>2, <3>3, Zenon DEF Mint
  <2>13. CASE VpnReturns
    <3>1. main.at = "running" /\ vpnJwt' = vpnJwt /\ main'.at = "ended"
          BY <1>1, <2>13 DEF VpnReturns
    <3>2. vpnJwt.client
          BY <2>1, <3>1, OldTokens DEF Ensured
    <3>3. vpnJwt # None
          BY <3>2, OldTokens
    <3>4. QED
          BY <3>1, <3>3 DEF Sufficient
  <2>14. CASE Exit \/ Crash
    <3>1. main'.at = "idle"
          BY <1>1, <2>14 DEF Exit, Crash
    <3>2. QED
          BY <3>1 DEF Sufficient
  <2>15. CASE Renewal \/ OtherTruncates \/ OtherWrites \/ Revoke \/ Cancel \/ UNCHANGED vars
    <3>1. /\ UNCHANGED <<main, vpnJwt>> /\ ~Begin /\ ~Verify
          /\ file' = file \/ (main.at # "load" /\ (file.exists => file'.exists))
      <4>1. CASE Renewal
        <5>1. UNCHANGED <<main, vpnJwt>>
              BY <4>1 DEF Renewal, Tick, RenewMint, RenewLogin, RenewMintAgain, RenewTruncate,
                          RenewWrite, RenewSaveFails, RenewStops, world
        <5>2. main.at \in {"final", "running", "ended"}
              BY <1>0, <4>1 DEF Renewal, Tick, RenewMint, RenewLogin, RenewMintAgain, RenewTruncate,
                                RenewWrite, RenewSaveFails, RenewStops
        <5>3. file.exists => file'.exists
          <6>1. CASE RenewTruncate
                BY <6>1 DEF RenewTruncate
          <6>2. CASE RenewWrite
                BY <1>0, <6>2 DEF RenewWrite
          <6>3. CASE ~RenewTruncate /\ ~RenewWrite
            <7>1. UNCHANGED file
                  BY <4>1, <6>3 DEF Renewal, Tick, RenewMint, RenewLogin, RenewMintAgain,
                                    RenewSaveFails, RenewStops
            <7>2. QED
                  BY <7>1
          <6>4. QED
                BY <6>1, <6>2, <6>3
        <5>4. QED
              BY <1>6, <2>1, <5>1, <5>2, <5>3
      <4>2. CASE OtherTruncates \/ OtherWrites
            BY <1>0, <4>2 DEF OtherTruncates, OtherWrites, Alone
      <4>3. CASE Revoke \/ Cancel \/ UNCHANGED vars
        <5>1. UNCHANGED <<main, vpnJwt, file>>
              BY <4>3 DEF Revoke, Cancel, vars
        <5>2. QED
              BY <1>6, <2>1, <5>1
      <4>4. QED
            BY <2>15, <4>1, <4>2, <4>3
    <3>2. Hopeless => Hopeless'
          BY <3>1, HopelessStays
    <3>3. QED
          BY <1>4, <2>1, <3>1, <3>2 DEF Sufficient
  <2>16. QED
         BY <1>8, <2>2, <2>3, <2>4, <2>5, <2>6, <2>7, <2>8, <2>9, <2>10, <2>11, <2>12, <2>13, <2>14,
            <2>15
         DEF Command
<1>9. QED
      BY <1>7, <1>8 DEF Next

(***************************************************************************)
(* The theorems.                                                           *)
(***************************************************************************)
\* Every variable keeps its type, and every token in the program was issued by the server.
THEOREM TypeCorrect == Spec => []TypeOK
<1>1. Spec => []TypeInv
      BY TypeInit, TypeStep, PTL DEF Spec
<1>2. QED
      BY <1>1, TypeInvOK, PTL

LEMMA BeforeTheFirst ==
  ASSUME Init
  PROVE  Ensured /\ Kept /\ Sufficient
<1>1. main.at = "idle" /\ renew.at = "off" /\ other.at = "idle"
      BY DEF Init
<1>2. QED
      BY <1>1 DEF Ensured, Kept, Sufficient

LEMMA EnsuredHolds == Spec => [](TypeInv /\ (Alone => Ensured))
<1>1. [Next]_vars => (Alone' => Alone)
      BY FaultsFixed DEF Alone
<1>2. QED
      BY <1>1, TypeInit, TypeStep, EnsuredStep, BeforeTheFirst, PTL DEF Spec

\* "Ensure we have a working client-scoped JWT" (cmd_quickconnect.go:75): without a client
\* token on the command line and without another command that saves one, whatever fails,
\* is withdrawn or crashes, the VPN starts with a client token validated or minted in this
\* session.
THEOREM StartsEnsured == Spec => [](~cfg.jwt.client => StartsWithEnsured)
<1>1. (Alone => Ensured) => (~cfg.jwt.client => StartsWithEnsured)
      BY DEF Ensured, StartsWithEnsured
<1>2. QED
      BY <1>1, EnsuredHolds, PTL

\* cmd_quickconnect.go:132-185: under the same conditions, and where the file can be
\* written, no way a renewal can go leaves the running VPN's file without a client token.
THEOREM RenewalKept == Spec => [](~cfg.jwt.client => RenewalKeepsClientToken)
<1> DEFINE Saves == Alone /\ "save" \notin faults
<1>1. [Next]_vars => (Saves' => Saves)
      BY FaultsFixed DEF Alone
<1>2. TypeInv /\ (Alone => Ensured) /\ (Saves => Kept) /\ [Next]_vars => (Saves' => Kept')
      BY <1>1, KeptStep
<1>3. Init => (Saves => Kept)
      BY BeforeTheFirst
<1>4. (Saves => Kept) => (~cfg.jwt.client => RenewalKeepsClientToken)
      BY DEF Kept, RenewalKeepsClientToken
<1> HIDE DEF Saves
<1>5. Spec => [](Saves => Kept)
      BY <1>2, <1>3, EnsuredHolds, PTL DEF Spec
<1>6. QED
      BY <1>4, <1>5, PTL

\* cmd_quickconnect.go:40-130: where calls and saves succeed, the credentials of a verified
\* account start the VPN, whatever file an earlier or a killed session left.
THEOREM CredentialsEnough == Spec => []CredentialsSuffice
<1> DEFINE Works == Alone /\ faults \cap {"api", "save"} = {}
<1>1. [Next]_vars => (Works' => Works)
      BY FaultsFixed DEF Alone
<1>2. /\ TypeInv /\ (Alone => Ensured) /\ (Works => Sufficient) /\ [Next]_vars
      => (Works' => Sufficient')
      BY <1>1, SufficientStep
<1>3. Init => (Works => Sufficient)
      BY BeforeTheFirst
<1>4. (Works => Sufficient) => CredentialsSuffice
      BY DEF Sufficient, Sought, Hopeless, Olds, CredentialsSuffice
<1> HIDE DEF Works
<1>5. Spec => [](Works => Sufficient)
      BY <1>2, <1>3, EnsuredHolds, PTL DEF Spec
<1>6. QED
      BY <1>4, <1>5, PTL
=============================================================================
