---------------------------- MODULE MCCommunity -----------------------------
(***************************************************************************)
(* An instance of Community for TLC.                                       *)
(***************************************************************************)
EXTENDS Community, TLC

CONSTANTS u1, u2, t1, t2

TheBuyer == [r \in Rooms |-> u1]
TheSeller == [r \in Rooms |-> u2]

TheTokens == u1 :> t1 @@ u2 :> t2

Scene(asks1, asks2) == [asks |-> u1 :> asks1 @@ u2 :> asks2, clears |-> 2, inserts |-> 2]
Alone(asks) == Scene(asks, {})
Both(asks) == Scene(asks, asks)
With3Messages(s) == [s EXCEPT !.inserts = 3]

\* What occurs together: codes and the accounts they open, new passwords and
\* sessions, failed logins and their lock, sessions and the closing of accounts,
\* the chat, messages sent again, reads, the sockets, and reports.
TheScenes == {
    Alone({"signUp", "askCode", "useCode", "setUserStatus", "time"}),
    Alone({"login", "askCode", "useCode"}),
    Alone({"login", "wrongLogin", "time"}),
    Alone({"login", "logout", "withdraw", "setUserStatus"}),
    Both({"room", "send", "block", "logout", "setUserStatus"}),
    With3Messages(Both({"room", "send"})),
    Scene({"room", "read"}, {"send", "read"}),
    Scene({"room", "connect", "enter", "block"}, {"connect", "block"}),
    Alone({"report", "resolveReport", "time"})}

Alike == Permutations(Callers) \cup Permutations(MessageIds) \cup Permutations(Bodies)
=============================================================================
