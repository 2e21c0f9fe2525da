------------------------------ MODULE KillSwitch ------------------------------
(***************************************************************************)
(* What --kill_switch promises, whatever the routes it is made of.         *)
(*                                                                         *)
(* A session that announces "blackhole default route installed" blocks the *)
(* host: until the user lifts the block, after the session, nothing that   *)
(* is not meant to leaves it, neither when the session ends in order or    *)
(* dies nor while another one starts.  Only a later session that has not   *)
(* made the announcement itself may take the block away (to renew it).     *)
(***************************************************************************)
CONSTANT Address   \* where packets may go

VARIABLES
  phase,           \* "idle", "open": a session runs, "holding": it made the announcement
  sealed,          \* an announcement stands
  leak             \* the addresses the host reaches in the clear and should not

vars == <<phase, sealed, leak>>

Init ==
  /\ phase = "open" /\ sealed = FALSE
  /\ leak \in SUBSET Address

\* Routes come and go as they like, but none past a standing announcement.
Blocked == leak' \in SUBSET Address /\ (sealed' => leak' = {})

Start == phase = "idle" /\ phase' = "open" /\ UNCHANGED sealed /\ Blocked
Stop  == phase # "idle" /\ phase' = "idle" /\ UNCHANGED sealed /\ Blocked
Seal  == phase = "open" /\ phase' = "holding" /\ sealed' = TRUE /\ Blocked
Break == phase = "open" /\ sealed /\ sealed' = FALSE /\ UNCHANGED phase /\ Blocked
Lift  == phase = "idle" /\ sealed /\ sealed' = FALSE /\ UNCHANGED phase /\ Blocked
Route == UNCHANGED <<phase, sealed>> /\ Blocked

Next == Start \/ Stop \/ Seal \/ Break \/ Lift \/ Route

Spec == Init /\ [][Next]_vars
=============================================================================
