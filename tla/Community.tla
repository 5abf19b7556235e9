----------------------------- MODULE Community ------------------------------
(***************************************************************************)
(* Accounts and chat together: a session that is revoked, or an account    *)
(* that is closed, keeps its user out of the chat, but for what is in      *)
(* flight.                                                                 *)
(***************************************************************************)
EXTENDS Chat

vars == <<avars, cvars, call, scene>>

Init == AccountsInit /\ ChatInit

Next ==
    /\ \/ AccountsNext /\ UNCHANGED cvars
       \/ ChatNext /\ UNCHANGED avars
    /\ UNCHANGED scene

Spec == Init /\ [][Next]_vars

TypeOK == AccountsTypeOK /\ ChatTypeOK

=============================================================================
