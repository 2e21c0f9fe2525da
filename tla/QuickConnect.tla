---------------------------- MODULE QuickConnect ----------------------------
(***************************************************************************)
(* `urnet-client quick-connect` and the stored JWT: cmdQuickConnect        *)
(* (cmd_quickconnect.go), loadJWT and saveJWT (jwt.go), and the API calls  *)
(* of auth.go.  The file is written by the command, by its renewal         *)
(* goroutine and by other commands of the user; saveJWT truncates it and   *)
(* then writes, which are two steps.                                       *)
(* A definition Name_Word that stands before Name is a mutation of it: a   *)
(* mistake the code could have contained, which a property must catch.     *)
(***************************************************************************)
EXTENDS Naturals, FiniteSets

CONSTANTS
  Configs,      \* the command lines tried
  Files,        \* what the file may hold before the first session
  FaultSets,    \* the combinations of failures tried, subsets of FaultKinds
  MaxTokens,    \* bound: tokens the server issues; it refuses to issue more
  MaxOthers,    \* bound: tokens other commands save
  MaxSessions   \* bound: how many times the command is started

\* "api": any call may fail; "save": the file cannot be opened or written;
\* "revoke": a token may be withdrawn; "crash": the process may be killed; "other": the
\* user runs other commands that save a token.
FaultKinds == {"api", "save", "revoke", "crash", "other"}

\* A token is network-scoped or client-scoped (it has a client_id claim).
Token == [client: BOOLEAN, n: 0..MaxTokens]
None == [client |-> FALSE, n |-> 0]      \* the empty string
\* Issued before the first session.
OldNetwork == [client |-> FALSE, n |-> 1]
OldClient == [client |-> TRUE, n |-> 2]

\* creds: from the flags or the environment.  code: --code.  renew: the interval
\* of --jwt_renew_interval is positive.
Config == [creds: BOOLEAN, code: BOOLEAN, jwt: {None, OldNetwork, OldClient}, force: BOOLEAN,
           renew: BOOLEAN]

ASSUME QuickConnectAssumption ==
  /\ Configs \subseteq Config
  /\ Files \subseteq [exists: BOOLEAN, token: {None, OldNetwork, OldClient}]
  /\ FaultSets \subseteq SUBSET FaultKinds
  /\ MaxTokens \in Nat /\ MaxTokens >= 2 /\ MaxOthers \in Nat /\ MaxSessions \in Nat

VARIABLES
  main,       \* the command: its next statement, the jwt it holds, where a save leads
  renew,      \* the renewal goroutine: its next statement and the jwt it holds
  other,      \* another command: its next statement and the token it saves
  file,       \* the JWT file
  issued,     \* the tokens the server issued
  revoked,    \* of these, the ones it no longer accepts
  needsCode,  \* the account is to be verified before it can log in
  vpnJwt,     \* the token the VPN was started with
  accepted,   \* history: tokens validated or minted in this session
  cancelled,  \* ctx.Done() is closed
  cfg,        \* the command line of this session
  faults,     \* the failures of this behaviour
  others,     \* tokens other commands have saved
  sessions    \* sessions started

vars == <<main, renew, other, file, issued, revoked, needsCode, vpnJwt, accepted, cancelled, cfg,
          faults, others, sessions>>
world == <<other, revoked, cancelled, cfg, faults, others, sessions>>

Init ==
  /\ faults \in FaultSets
  /\ main = [at |-> "idle", jwt |-> None, then |-> "none"]
  /\ renew = [at |-> "off", jwt |-> None]
  /\ other = [at |-> "idle", jwt |-> None]
  /\ file \in Files
  /\ issued = {OldNetwork, OldClient}
  /\ revoked \in IF "revoke" \in faults THEN SUBSET issued ELSE {{}}
  /\ needsCode \in BOOLEAN
  /\ vpnJwt = None /\ accepted = {} /\ cancelled = FALSE
  /\ cfg \in Configs /\ others = 0 /\ sessions = 0

(***************************************************************************)
(* The server, as the calls of auth.go and validateClientJWT see it.       *)
(***************************************************************************)
Accepts(t) == t \in issued \ revoked
\* A cancelled call fails.
CanIssue == ~cancelled /\ Cardinality(issued) < MaxTokens
New(client) == [client |-> client, n |-> Cardinality(issued) + 1]
Issue(t) == issued' = issued \cup {t}
CallMayFail == "api" \in faults \/ ~CanIssue

(***************************************************************************)
(* The command.                                                            *)
(***************************************************************************)
Goto(at) == main' = [main EXCEPT !.at = at]
\* Where a token is to be saved, and what follows.
Save(t, then) == main' = [at |-> "truncate", jwt |-> t, then |-> then]

Begin ==
  /\ main.at = "idle" /\ sessions < MaxSessions
  /\ cfg' \in Configs
  /\ main' = [at |-> IF cfg'.creds THEN "login" ELSE "load", jwt |-> None, then |-> "none"]
  /\ sessions' = sessions + 1
  /\ cancelled' = FALSE /\ accepted' = {} /\ vpnJwt' = None
  /\ UNCHANGED <<renew, other, file, issued, revoked, needsCode, faults, others>>

\* Mutation: the token is not saved.
Login_Unsaved ==
  /\ main.at = "login" /\ ~needsCode /\ CanIssue
  /\ Issue(New(FALSE)) /\ Goto(IF cfg.code THEN "verify" ELSE "load")
  /\ UNCHANGED <<world, renew, file, needsCode, vpnJwt, accepted>>

Login ==
  /\ main.at = "login"
  /\ \/ CallMayFail /\ Goto("ended") /\ UNCHANGED issued
     \/ needsCode /\ Goto(IF cfg.code THEN "verify" ELSE "ended") /\ UNCHANGED issued
     \/ /\ ~needsCode /\ CanIssue
        /\ Issue(New(FALSE))
        /\ Save(New(FALSE), IF cfg.code THEN "verify" ELSE "load")
  /\ UNCHANGED <<world, renew, file, needsCode, vpnJwt, accepted>>

\* A code is refused, or verifies the account.
Verify ==
  /\ main.at = "verify"
  /\ \/ Goto("ended") /\ UNCHANGED <<issued, needsCode>>
     \/ CanIssue /\ Issue(New(FALSE)) /\ Save(New(FALSE), "load") /\ needsCode' = FALSE
  /\ UNCHANGED <<world, renew, file, vpnJwt, accepted>>

\* saveJWT, first half: the directory is made, the file opened and truncated.
Truncate ==
  /\ main.at = "truncate"
  /\ file' = [exists |-> TRUE, token |-> None] /\ Goto("write")
  /\ UNCHANGED <<world, renew, issued, needsCode, vpnJwt, accepted>>

Write ==
  /\ main.at = "write"
  /\ file' = [file EXCEPT !.token = main.jwt] /\ Goto(main.then)
  /\ UNCHANGED <<world, renew, issued, needsCode, vpnJwt, accepted>>

\* Either half fails: only the refresh loop goes on.
SaveFails ==
  /\ main.at \in {"truncate", "write"} /\ "save" \in faults
  /\ Goto(IF main.then = "check" THEN "wait" ELSE "ended")
  /\ UNCHANGED <<world, renew, file, issued, needsCode, vpnJwt, accepted>>

\* loadJWT and parseClientID: --jwt before the file, a client token is validated.
\* Mutation: a network token is taken for a client token.
Load_AnyToken ==
  /\ main.at = "load"
  /\ LET jwt == IF cfg.jwt # None THEN cfg.jwt ELSE file.token
     IN  IF cfg.jwt = None /\ ~file.exists THEN Goto("ended")
         ELSE main' = [main EXCEPT !.at = IF cfg.force THEN "mint" ELSE "validate", !.jwt = jwt]
  /\ UNCHANGED <<world, renew, file, issued, needsCode, vpnJwt, accepted>>

Load ==
  /\ main.at = "load"
  /\ LET jwt == IF cfg.jwt # None THEN cfg.jwt ELSE file.token
     IN  IF cfg.jwt = None /\ ~file.exists THEN Goto("ended")
         ELSE main' = [main EXCEPT !.at = IF jwt.client /\ ~cfg.force THEN "validate" ELSE "mint",
                                   !.jwt = jwt]
  /\ UNCHANGED <<world, renew, file, issued, needsCode, vpnJwt, accepted>>

\* What a failed validation leads to; a call that fails says no more than a refusal.
Validated(t, otherwise) ==
  \/ Accepts(t) /\ ~cancelled /\ Goto("spawn") /\ accepted' = accepted \cup {t}
  \/ (~Accepts(t) \/ cancelled \/ "api" \in faults) /\ Goto(otherwise) /\ UNCHANGED accepted

Validate ==
  /\ main.at = "validate"
  /\ Validated(main.jwt, IF cfg.creds THEN "refresh" ELSE "ended")
  /\ UNCHANGED <<world, renew, file, issued, needsCode, vpnJwt>>

\* The refresh loop: log in, mint, save, validate; whatever fails, wait.
RefreshLogin ==
  /\ main.at = "refresh"
  /\ \/ (CallMayFail \/ needsCode) /\ Goto("wait") /\ UNCHANGED issued
     \/ /\ ~needsCode /\ CanIssue /\ Issue(New(FALSE))
        /\ main' = [main EXCEPT !.at = "refreshMint", !.jwt = New(FALSE)]
  /\ UNCHANGED <<world, renew, file, needsCode, vpnJwt, accepted>>

RefreshMint ==
  /\ main.at = "refreshMint"
  /\ \/ (CallMayFail \/ ~Accepts(main.jwt)) /\ Goto("wait") /\ UNCHANGED issued
     \/ Accepts(main.jwt) /\ CanIssue /\ Issue(New(TRUE)) /\ Save(New(TRUE), "check")
  /\ UNCHANGED <<world, renew, file, needsCode, vpnJwt, accepted>>

RefreshCheck ==
  /\ main.at = "check" /\ Validated(main.jwt, "wait")
  /\ UNCHANGED <<world, renew, file, issued, needsCode, vpnJwt>>

\* Mutation: the wait does not look at the context.
Wait_IgnoresContext ==
  /\ main.at = "wait" /\ Goto("refresh")
  /\ UNCHANGED <<world, renew, file, issued, needsCode, vpnJwt, accepted>>

\* select { case <-time.After(retryEvery): case <-ctx.Done(): return }: when the wait
\* begins a cancelled context is ready and the timer is not.
Wait ==
  /\ main.at = "wait"
  /\ Goto(IF cancelled THEN "ended" ELSE "refresh")
  /\ UNCHANGED <<world, renew, file, issued, needsCode, vpnJwt, accepted>>

Mint ==
  /\ main.at = "mint"
  /\ \/ /\ CallMayFail \/ ~Accepts(main.jwt)
        /\ Goto("ended") /\ UNCHANGED <<issued, accepted>>
     \/ /\ Accepts(main.jwt) /\ CanIssue
        /\ Issue(New(TRUE)) /\ Save(New(TRUE), "spawn") /\ accepted' = accepted \cup {New(TRUE)}
  /\ UNCHANGED <<world, renew, file, needsCode, vpnJwt>>

\* Mutation: the goroutine starts whatever the interval.
SpawnRenewal_Always ==
  /\ main.at = "spawn"
  /\ renew' = [renew EXCEPT !.at = "select"]
  /\ Goto("final")
  /\ UNCHANGED <<world, file, issued, needsCode, vpnJwt, accepted>>

SpawnRenewal ==
  /\ main.at = "spawn"
  /\ renew' = [renew EXCEPT !.at = IF cfg.renew THEN "select" ELSE "off"]
  /\ Goto("final")
  /\ UNCHANGED <<world, file, issued, needsCode, vpnJwt, accepted>>

\* loadJWT("") and cmdVpn: an empty file is not an error.
StartVpn ==
  /\ main.at = "final"
  /\ IF file.exists THEN Goto("running") /\ vpnJwt' = file.token
     ELSE Goto("ended") /\ UNCHANGED vpnJwt
  /\ UNCHANGED <<world, renew, file, issued, needsCode, accepted>>

\* cmdVpn returns, cancelled or with an error; stopRenew is closed.
VpnReturns ==
  /\ main.at = "running" /\ Goto("ended")
  /\ UNCHANGED <<world, renew, file, issued, needsCode, vpnJwt, accepted>>

\* The process exits, and the renewal goroutine with it, wherever that is.
Exit ==
  /\ main.at = "ended" /\ Goto("idle") /\ renew' = [at |-> "off", jwt |-> None]
  /\ UNCHANGED <<world, file, issued, needsCode, vpnJwt, accepted>>

(***************************************************************************)
(* The renewal goroutine.  An interval is longer than the few statements   *)
(* between its start and the start of the VPN.                             *)
(***************************************************************************)
RenewGoto(at) == renew' = [renew EXCEPT !.at = at]
RenewSave(t) == renew' = [at |-> "truncate", jwt |-> t]

Tick ==
  /\ renew.at = "select" /\ main.at \in {"running", "ended"} /\ file.exists
  /\ renew' = [at |-> "mint", jwt |-> file.token]
  /\ UNCHANGED <<world, main, file, issued, needsCode, vpnJwt, accepted>>

RenewMint ==
  /\ renew.at = "mint"
  /\ \/ /\ CallMayFail \/ ~Accepts(renew.jwt)
        /\ RenewGoto(IF cfg.creds THEN "login" ELSE "select") /\ UNCHANGED issued
     \/ Accepts(renew.jwt) /\ CanIssue /\ Issue(New(TRUE)) /\ RenewSave(New(TRUE))
  /\ UNCHANGED <<world, main, file, needsCode, vpnJwt, accepted>>

\* Mutation: what the login returned is saved as it is.
RenewLogin_SavesNetworkToken ==
  /\ renew.at = "login"
  /\ \/ (CallMayFail \/ needsCode) /\ RenewGoto("select") /\ UNCHANGED issued
     \/ ~needsCode /\ CanIssue /\ Issue(New(FALSE)) /\ RenewSave(New(FALSE))
  /\ UNCHANGED <<world, main, file, needsCode, vpnJwt, accepted>>

RenewLogin ==
  /\ renew.at = "login"
  /\ \/ (CallMayFail \/ needsCode) /\ RenewGoto("select") /\ UNCHANGED issued
     \/ /\ ~needsCode /\ CanIssue /\ Issue(New(FALSE))
        /\ renew' = [at |-> "mint2", jwt |-> New(FALSE)]
  /\ UNCHANGED <<world, main, file, needsCode, vpnJwt, accepted>>

RenewMintAgain ==
  /\ renew.at = "mint2"
  /\ \/ (CallMayFail \/ ~Accepts(renew.jwt)) /\ RenewGoto("select") /\ UNCHANGED issued
     \/ Accepts(renew.jwt) /\ CanIssue /\ Issue(New(TRUE)) /\ RenewSave(New(TRUE))
  /\ UNCHANGED <<world, main, file, needsCode, vpnJwt, accepted>>

RenewTruncate ==
  /\ renew.at = "truncate"
  /\ file' = [exists |-> TRUE, token |-> None] /\ RenewGoto("write")
  /\ UNCHANGED <<world, main, issued, needsCode, vpnJwt, accepted>>

RenewWrite ==
  /\ renew.at = "write"
  /\ file' = [file EXCEPT !.token = renew.jwt] /\ RenewGoto("select")
  /\ UNCHANGED <<world, main, issued, needsCode, vpnJwt, accepted>>

RenewSaveFails ==
  /\ renew.at \in {"truncate", "write"} /\ "save" \in faults /\ RenewGoto("select")
  /\ UNCHANGED <<world, main, file, issued, needsCode, vpnJwt, accepted>>

RenewStops ==
  /\ renew.at = "select" /\ main.at = "ended" /\ RenewGoto("off")
  /\ UNCHANGED <<world, main, file, issued, needsCode, vpnJwt, accepted>>

(***************************************************************************)
(* Everyone else.                                                          *)
(***************************************************************************)
\* login, verify, save-jwt or mint-client in another terminal: cmdLogin, cmdVerify,
\* cmdSaveJWT and cmdMintClient end in saveJWT.
OtherTruncates ==
  /\ "other" \in faults /\ other.at = "idle" /\ others < MaxOthers
  /\ \E t \in issued : other' = [at |-> "write", jwt |-> t]
  /\ file' = [exists |-> TRUE, token |-> None] /\ others' = others + 1
  /\ UNCHANGED <<main, renew, issued, revoked, needsCode, vpnJwt, accepted, cancelled, cfg, faults,
                 sessions>>

OtherWrites ==
  /\ other.at = "write"
  /\ file' = [file EXCEPT !.token = other.jwt] /\ other' = [at |-> "idle", jwt |-> None]
  /\ UNCHANGED <<main, renew, issued, revoked, needsCode, vpnJwt, accepted, cancelled, cfg,
                 faults, others, sessions>>

Revoke ==
  /\ "revoke" \in faults
  /\ \E t \in issued \ revoked : revoked' = revoked \cup {t}
  /\ UNCHANGED <<main, renew, other, file, issued, needsCode, vpnJwt, accepted, cancelled, cfg,
                 faults, others, sessions>>

Cancel ==
  /\ main.at # "idle" /\ ~cancelled /\ cancelled' = TRUE
  /\ UNCHANGED <<main, renew, other, file, issued, revoked, needsCode, vpnJwt, accepted, cfg,
                 faults, others, sessions>>

Crash ==
  /\ "crash" \in faults /\ main.at # "idle"
  /\ Goto("idle") /\ renew' = [at |-> "off", jwt |-> None]
  /\ UNCHANGED <<world, file, issued, needsCode, vpnJwt, accepted>>

Command ==
  \/ Login \/ Verify \/ Truncate \/ Write \/ SaveFails \/ Load \/ Validate
  \/ RefreshLogin \/ RefreshMint \/ RefreshCheck \/ Wait \/ Mint
  \/ SpawnRenewal \/ StartVpn \/ Exit

Renewal ==
  \/ Tick \/ RenewMint \/ RenewLogin \/ RenewMintAgain
  \/ RenewTruncate \/ RenewWrite \/ RenewSaveFails \/ RenewStops

Next ==
  \/ Begin \/ Command \/ VpnReturns \/ Renewal \/ OtherTruncates \/ OtherWrites
  \/ Revoke \/ Cancel \/ Crash

Spec == Init /\ [][Next]_vars

\* The command runs on, every call and timer ends, a cancelled VPN returns.
FairSpec == Spec /\ WF_vars(Command) /\ WF_vars(cancelled /\ VpnReturns)

(***************************************************************************)
(* Properties.                                                             *)
(***************************************************************************)
Statement == {"idle", "login", "verify", "truncate", "write", "load", "validate", "refresh",
              "refreshMint", "check", "wait", "mint", "spawn", "final", "running", "ended"}

TypeOK ==
  /\ main \in [at: Statement, jwt: Token, then: {"none", "verify", "load", "check", "spawn"}]
  /\ renew \in [at: {"off", "select", "mint", "login", "mint2", "truncate", "write"}, jwt: Token]
  /\ renew.at # "off" => cfg.renew
  /\ other \in [at: {"idle", "write"}, jwt: Token]
  /\ file \in [exists: BOOLEAN, token: Token]
  /\ issued \subseteq Token /\ revoked \subseteq issued /\ accepted \subseteq issued
  /\ vpnJwt \in issued \cup {None}
  /\ needsCode \in BOOLEAN /\ cancelled \in BOOLEAN /\ cfg \in Configs
  /\ faults \in FaultSets
  /\ others \in 0..MaxOthers /\ sessions \in 0..MaxSessions

\* The user runs no other command that saves a token.
Alone == "other" \notin faults

\* cmd_quickconnect.go:75, "Ensure we have a working client-scoped JWT": the token the
\* VPN is started with is a client token that this session validated or minted, where no
\* other command writes the file.
StartsWithEnsured ==
  Alone /\ main.at = "running" => vpnJwt.client /\ vpnJwt \in accepted

\* cmd_quickconnect.go:132-185: whichever of its calls a renewal is refused, while the VPN
\* runs the file holds a client token, but for the moment it is rewritten.  A save that
\* fails, which leaves the file empty, and other commands are left out.
RenewalKeepsClientToken ==
  Alone /\ "save" \notin faults /\ main.at = "running" /\ renew.at # "write" => file.token.client

\* cmd_quickconnect.go:40-130: where calls and saves work, with credentials of a verified
\* account and no --jwt, whatever an earlier or a killed session left in the file, the
\* command does not give up before it has started the VPN, unless it is cancelled or the
\* server has withdrawn a token it issued since.
CredentialsSuffice ==
  /\ Alone /\ faults \cap {"api", "save"} = {}
  /\ main.at = "ended" /\ cfg.creds /\ cfg.jwt = None /\ ~cfg.code
  /\ ~needsCode /\ CanIssue /\ revoked \subseteq {OldNetwork, OldClient}
  => vpnJwt # None

\* cmd_quickconnect.go:110-114: a cancelled command ends, also while it retries.
CancelEnds == cancelled ~> main.at = "idle"
=============================================================================
