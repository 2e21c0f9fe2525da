-------------------------- MODULE MCQuickConnect --------------------------
(***************************************************************************)
(* Command lines and stored tokens for QuickConnect.                       *)
(***************************************************************************)
EXTENDS QuickConnect

With(jwt) == {c \in Config : c.jwt = jwt /\ (c.code => c.creds)}
NoFlag      == With(None)
NetworkFlag == With(OldNetwork)
ClientFlag  == With(OldClient)

StoredConfigs == NoFlag \cup NetworkFlag
FlagConfigs   == {c \in ClientFlag : ~c.creds /\ ~c.renew}

AllFiles == {[exists |-> FALSE, token |-> None]}
              \cup {[exists |-> TRUE, token |-> t] : t \in {None, OldNetwork, OldClient}}

\* Withdrawn tokens and kills; calls that fail; calls and saves that fail beside another
\* command.
NoFaults == {{}}
MCFaultSets == {{"revoke", "crash"}, {"api"}, {"api", "save", "other"}}
=============================================================================
