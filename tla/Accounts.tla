------------------------------ MODULE Accounts ------------------------------
(***************************************************************************)
(* Accounts, verification codes, the login throttle and sessions:          *)
(* auth.service.ts, the session guard, and setUserStatus of                *)
(* admin.service.ts.                                                       *)
(*                                                                         *)
(* A request runs its statements one by one, and other requests run in     *)
(* between: each read, and each later write, is a step of its own.  A user *)
(* stands for the contact it signed up with.                               *)
(***************************************************************************)
EXTENDS Integers, FiniteSets

CONSTANTS
    Users, NoUser,
    Callers,      \* requests in flight at the same time
    NoCall,
    Tokens,       \* Session.tokenHash
    Codes,        \* VerificationCode.id, numbered in the order of createdAt
    LockAfterFailures,  \* 5 in the code, for logins and for codes
    CodesPerWindow,     \* 3 in the code
    FirstToken,   \* [Users -> the token of the session an active user starts with]
    Scenes        \* bounds: the commands that each user asks for, how often a
                  \* throttle is cleared in a window, and how many messages are sent

ASSUME AccountsAssumption ==
    /\ LockAfterFailures \in Nat \ {0} /\ CodesPerWindow \in Nat
    /\ Codes \subseteq Nat /\ NoUser \notin Users
    /\ IsFiniteSet(Callers) /\ Callers # {}
    /\ FirstToken \in [Users -> Tokens]
    /\ \A u, v \in Users : FirstToken[u] = FirstToken[v] => u = v

VARIABLES
    account,      \* [Users -> User.status, or "absent"]
    codes,        \* [Codes -> the row of the code, of NoUser when there is none]
    throttle,     \* [Users -> the row of the login throttle; no row counts 0]
    counted,      \* history: [Users -> [counts -> how often the row got to the count]]
    session,      \* [Tokens -> the user of the session, and whether it is revoked]
    call,         \* [Callers -> the request in flight, with what it has read]
    scene         \* the member of Scenes this behaviour is about

avars == <<account, codes, throttle, counted, session>>

UserStatus == {"PENDING", "ACTIVE", "SUSPENDED", "WITHDRAWN"}
Purpose == {"CONTACT_VERIFICATION", "PASSWORD_RESET"}

\* expiresAt and the window of the limit are both ten minutes after createdAt.
Code == [user: Users \cup {NoUser}, purpose: Purpose, attempts: Nat, consumed: BOOLEAN,
         recent: BOOLEAN]

\* past: firstFailedAt is more than fifteen minutes ago; locked: lockedUntil is ahead.
Throttle == [failedCount: 0 .. LockAfterFailures, past: BOOLEAN, locked: BOOLEAN]
Session == [user: Users \cup {NoUser}, revoked: BOOLEAN]

NewCode(u, purpose) ==
    [user |-> u, purpose |-> purpose, attempts |-> 0, consumed |-> FALSE, recent |-> TRUE]
NoCode == NewCode(NoUser, "CONTACT_VERIFICATION")
NoThrottle == [failedCount |-> 0, past |-> FALSE, locked |-> FALSE]

\* A window starts with a row at 0; no row is ever expected to get beyond the limit.
Counts == 0 .. LockAfterFailures + 1
NewWindow == [k \in Counts |-> IF k = 0 THEN 1 ELSE 0]

AccountCall ==
    [step: {"count", "delete", "create"}, user: Users, purpose: Purpose]
    \cup [step: {"guess", "apply"}, user: Users, purpose: Purpose, id: Codes]
    \cup [step: {"look", "fail", "clear", "open"}, user: Users, seen: Throttle]
    \cup [step: {"withdraw"}, user: Users]

AccountsTypeOK ==
    /\ account \in [Users -> UserStatus \cup {"absent"}]
    /\ codes \in [Codes -> Code]
    /\ throttle \in [Users -> Throttle]
    /\ counted \in [Users -> [Counts -> Nat]]
    /\ session \in [Tokens -> Session]

\* Accounts that nobody signed up yet, and active ones with one session.
AccountsInit ==
    /\ scene \in Scenes
    /\ account \in [Users -> {"absent", "ACTIVE"}]
    /\ \A u \in Users : scene.asks[u] = {} => account[u] = "absent"
    /\ codes = [k \in Codes |-> NoCode]
    /\ throttle = [u \in Users |-> NoThrottle]
    /\ counted = [u \in Users |-> NewWindow]
    /\ session \in [Tokens -> [user: Users \cup {NoUser}, revoked: {FALSE}]]
    /\ \A t \in Tokens, u \in Users :
          session[t].user = u <=> account[u] = "ACTIVE" /\ FirstToken[u] = t
    /\ call = [c \in Callers |-> NoCall]

-----------------------------------------------------------------------------
(* Requests.                                                               *)
Asked(command, u) == command \in scene.asks[u]
Begins(c, request) == call[c] = NoCall /\ call' = [call EXCEPT ![c] = request]
At(c, step) == call[c] # NoCall /\ call[c].step = step
Goes(c, step) == call' = [call EXCEPT ![c].step = step]
Ends(c) == call' = [call EXCEPT ![c] = NoCall]
UserOf(c) == call[c].user
Busy(u) == \E c \in Callers : call[c] # NoCall /\ UserOf(c) = u

\* A statement fails, or its answer does not come: what was written stays.  At
\* "notify" (Chat) no statement is left that could fail.
CallLost(c) == call[c] # NoCall /\ ~At(c, "notify") /\ Ends(c) /\ UNCHANGED avars

-----------------------------------------------------------------------------
(* issueCode: the recent codes are counted, the unused ones are deleted,   *)
(* and a new one is created, without a transaction.                        *)
SignUp(c, u) ==
    /\ Asked("signUp", u) /\ account[u] = "absent"
    /\ account' = [account EXCEPT ![u] = "PENDING"]
    /\ Begins(c, [step |-> "count", user |-> u, purpose |-> "CONTACT_VERIFICATION"])
    /\ UNCHANGED <<codes, throttle, counted, session>>

\* A sign-up that is resumed, resendContactConfirmation or requestPasswordReset.
AskCode(c, u) ==
    /\ Asked("askCode", u) /\ account[u] \in {"PENDING", "ACTIVE"}
    /\ Begins(c, [step |-> "count", user |-> u, purpose |->
          IF account[u] = "PENDING" THEN "CONTACT_VERIFICATION" ELSE "PASSWORD_RESET"])
    /\ UNCHANGED avars

Asks(row, c) == row.user = UserOf(c) /\ row.purpose = call[c].purpose

CountCodes(c) ==
    /\ At(c, "count")
    /\ IF Cardinality({k \in Codes : Asks(codes[k], c) /\ codes[k].recent}) >= CodesPerWindow
         THEN Ends(c) ELSE Goes(c, "delete")
    /\ UNCHANGED avars

ObsoleteRow(row, c) == Asks(row, c) /\ row.consumed             \* mutant: used ones go
Obsolete(row, c) == Asks(row, c) /\ ~row.consumed

DeleteCodes(c) ==
    /\ At(c, "delete")
    /\ codes' = [k \in Codes |-> IF Obsolete(codes[k], c) THEN NoCode ELSE codes[k]]
    /\ Goes(c, "create")
    /\ UNCHANGED <<account, throttle, counted, session>>

\* A new row has an identifier that no row has and no request in flight knows,
\* and it is the newest of its user.
Known(k) ==
    \/ codes[k].user # NoUser
    \/ \E c \in Callers : (At(c, "guess") \/ At(c, "apply")) /\ call[c].id = k
Fresh(u) == {k \in Codes : ~Known(k) /\ \A old \in Codes : codes[old].user = u => old < k}

CreateCode(c) ==
    LET u == UserOf(c)
    IN  /\ At(c, "create") /\ Fresh(u) # {}
        /\ codes' = [codes EXCEPT ![CHOOSE k \in Codes : k \in Fresh(u)] =
                         NewCode(u, call[c].purpose)]
        /\ Ends(c)
        /\ UNCHANGED <<account, throttle, counted, session>>

\* Ten minutes pass; no request takes that long.
CodesExpire(u) ==
    /\ Asked("time", u) /\ ~Busy(u)
    /\ \E k \in Codes : codes[k].user = u /\ codes[k].recent
    /\ codes' = [k \in Codes |->
          IF codes[k].user = u THEN [codes[k] EXCEPT !.recent = FALSE] ELSE codes[k]]
    /\ UNCHANGED <<account, throttle, counted, session, call>>

-----------------------------------------------------------------------------
(* consumeCode: the newest live code is read and compared, and then        *)
(* counted or consumed by id; confirmContact and resetPassword go on.      *)
Live(u, purpose) == {k \in Codes : /\ codes[k].user = u /\ codes[k].purpose = purpose
                                    /\ codes[k].recent /\ ~codes[k].consumed}
MayAlwaysGuess(row) == row.attempts \in Nat                     \* mutant: no limit
MayGuess(row) == row.attempts < LockAfterFailures

ReadCode(c, u, purpose) ==
    /\ Asked("useCode", u)
    /\ \E newest \in Live(u, purpose) :
          /\ \A k \in Live(u, purpose) : k <= newest
          /\ MayGuess(codes[newest])
          /\ Begins(c, [step |-> "guess", user |-> u, purpose |-> purpose, id |-> newest])
    /\ UNCHANGED avars

\* The update finds the row as long as nobody deleted it.
Found(c) == codes[call[c].id].user # NoUser

GuessWrong(c) ==
    /\ At(c, "guess") /\ Found(c)
    /\ codes' = [codes EXCEPT ![call[c].id].attempts = @ + 1]
    /\ Ends(c)
    /\ UNCHANGED <<account, throttle, counted, session>>

GuessRight(c) ==
    /\ At(c, "guess") /\ Found(c)
    /\ codes' = [codes EXCEPT ![call[c].id].consumed = TRUE]
    /\ Goes(c, "apply")
    /\ UNCHANGED <<account, throttle, counted, session>>

RevokeAll(u) == session' = [t \in Tokens |->
    IF session[t].user = u THEN [session[t] EXCEPT !.revoked = TRUE] ELSE session[t]]

\* The contact is confirmed by id, whatever the status is by now.
ConfirmContact(c) ==
    /\ At(c, "apply") /\ call[c].purpose = "CONTACT_VERIFICATION"
    /\ account' = [account EXCEPT ![UserOf(c)] = "ACTIVE"]
    /\ Ends(c)
    /\ UNCHANGED <<codes, throttle, counted, session>>

ResetPassword(c) ==
    /\ At(c, "apply") /\ call[c].purpose = "PASSWORD_RESET"
    /\ RevokeAll(UserOf(c))
    /\ Ends(c)
    /\ UNCHANGED <<account, codes, throttle, counted>>

-----------------------------------------------------------------------------
(* login: the throttle is read, then the user and the password; a failure  *)
(* is counted from the throttle that was read.                             *)
Login(c, u) ==
    /\ Asked("login", u) \/ Asked("wrongLogin", u)
    /\ ~throttle[u].locked
    /\ Begins(c, [step |-> "look", user |-> u, seen |-> throttle[u]])
    /\ UNCHANGED avars

PasswordRight(c) ==
    /\ At(c, "look") /\ Asked("login", UserOf(c)) /\ account[UserOf(c)] = "ACTIVE"
    /\ Goes(c, "clear")
    /\ UNCHANGED avars

\* A wrong password, or an account that is not active.
PasswordWrong(c) ==
    /\ At(c, "look")
    /\ Asked("wrongLogin", UserOf(c)) \/ account[UserOf(c)] # "ACTIVE"
    /\ Goes(c, "fail")
    /\ UNCHANGED avars

LocksAfter(count) == count > LockAfterFailures                  \* mutant: off by one
LocksAt(count) == count >= LockAfterFailures

CountsOn(seen) == seen.failedCount + 1                          \* mutant: no window
CountAfter(seen) == IF seen.past THEN 1 ELSE seen.failedCount + 1

RecordFailure(c) ==
    LET count == CountAfter(call[c].seen)
    IN  /\ At(c, "fail")
        /\ throttle' = [throttle EXCEPT ![UserOf(c)] =
              [failedCount |-> count, past |-> @.past /\ count # 1, locked |-> LocksAt(count)]]
        /\ counted' = [counted EXCEPT ![UserOf(c)][count] = @ + 1]
        /\ Ends(c)
        /\ UNCHANGED <<account, codes, session>>

ClearThrottle(c) ==
    /\ At(c, "clear") /\ counted[UserOf(c)][0] <= scene.clears
    /\ throttle' = [throttle EXCEPT ![UserOf(c)] = NoThrottle]
    /\ counted' = [counted EXCEPT ![UserOf(c)][0] = @ + 1]
    /\ Goes(c, "open")
    /\ UNCHANGED <<account, codes, session>>

Unused == {t \in Tokens : session[t].user = NoUser}

OpenSession(c) ==
    /\ At(c, "open") /\ Unused # {}
    /\ session' = [session EXCEPT ![CHOOSE t \in Tokens : t \in Unused].user = UserOf(c)]
    /\ Ends(c)
    /\ UNCHANGED <<account, codes, throttle, counted>>

\* Fifteen minutes pass since the first failure, and since the last one.
WindowEnds(u) ==
    /\ Asked("time", u) /\ ~Busy(u)
    /\ throttle[u].failedCount > 0 /\ ~throttle[u].past
    /\ throttle' = [throttle EXCEPT ![u].past = TRUE]
    /\ counted' = [counted EXCEPT ![u] = NewWindow]
    /\ UNCHANGED <<account, codes, session, call>>

LockEnds(u) ==
    /\ Asked("time", u) /\ ~Busy(u)
    /\ throttle[u].locked /\ throttle[u].past
    /\ throttle' = [throttle EXCEPT ![u].locked = FALSE]
    /\ UNCHANGED <<account, codes, counted, session, call>>

-----------------------------------------------------------------------------
(* Sessions.                                                               *)
Open(t) == session[t].user # NoUser /\ ~session[t].revoked

\* getActiveSession, asked by the session guard and by the gateway.
ActiveSession(t, u) == session[t].user = u /\ Open(t) /\ account[u] = "ACTIVE"
SignedIn(u) == \E t \in Tokens : ActiveSession(t, u)

\* Logout; a session of thirty days is as good as revoked.
Logout(t) ==
    /\ Open(t) /\ Asked("logout", session[t].user)
    /\ session' = [session EXCEPT ![t].revoked = TRUE]
    /\ UNCHANGED <<account, codes, throttle, counted, call>>

AskWithdraw(c, u) ==
    /\ Asked("withdraw", u) /\ SignedIn(u)
    /\ Begins(c, [step |-> "withdraw", user |-> u])
    /\ UNCHANGED avars

Withdraw(c) ==
    /\ At(c, "withdraw")
    /\ account' = [account EXCEPT ![UserOf(c)] = "WITHDRAWN"]
    /\ RevokeAll(UserOf(c))
    /\ Ends(c)
    /\ UNCHANGED <<codes, throttle, counted>>

\* setUserStatus, whatever the status was.
KeepsSessions(u) == u \in Users /\ UNCHANGED session            \* mutant: status only
Suspended(u) == RevokeAll(u)

Suspend(u) ==
    /\ Asked("setUserStatus", u) /\ account[u] # "absent"
    /\ account' = [account EXCEPT ![u] = "SUSPENDED"]
    /\ Suspended(u)
    /\ UNCHANGED <<codes, throttle, counted, call>>

Reinstate(u) ==
    /\ Asked("setUserStatus", u) /\ account[u] # "absent"
    /\ account' = [account EXCEPT ![u] = "ACTIVE"]
    /\ UNCHANGED <<codes, throttle, counted, session, call>>

AccountsNext ==
    \/ \E c \in Callers :
          \/ \E u \in Users :
                \/ SignUp(c, u) \/ AskCode(c, u) \/ Login(c, u) \/ AskWithdraw(c, u)
                \/ \E purpose \in Purpose : ReadCode(c, u, purpose)
          \/ CountCodes(c) \/ DeleteCodes(c) \/ CreateCode(c) \/ GuessWrong(c)
          \/ GuessRight(c) \/ ConfirmContact(c) \/ ResetPassword(c) \/ PasswordRight(c)
          \/ PasswordWrong(c) \/ RecordFailure(c) \/ ClearThrottle(c) \/ OpenSession(c)
          \/ Withdraw(c) \/ CallLost(c)
    \/ \E u \in Users :
          CodesExpire(u) \/ WindowEnds(u) \/ LockEnds(u) \/ Suspend(u) \/ Reinstate(u)
    \/ \E t \in Tokens : Logout(t)

-----------------------------------------------------------------------------
(* A code is guessed wrong at most as often as the limit, and once more    *)
(* for every other request in flight: the limit is checked and the guess   *)
(* counted in separate statements.                                         *)
GuessesAreBounded ==
    \A k \in Codes : codes[k].attempts <= LockAfterFailures + Cardinality(Callers) - 1

UnusedCodes(u, purpose) ==
    {k \in Codes : codes[k].user = u /\ codes[k].purpose = purpose /\ ~codes[k].consumed}

(* Overlapping requests for a code leave no more unused codes than there   *)
(* are requests at a time, however the deletions and creations interleave. *)
FewUnusedCodes ==
    \A u \in Users, purpose \in Purpose :
        Cardinality(UnusedCodes(u, purpose)) <= Cardinality(Callers)

(* Overlapping logins lose failures, and a late one takes the count back   *)
(* and lifts the lock; they do so within bounds.  From each time the row   *)
(* got to a count, as many failures are counted as there are requests at a *)
(* time, and none from the limit on: with one request at a time, at most   *)
(* the limit in a window.                                                  *)
LostFailuresAreBounded ==
    \A u \in Users :
        /\ \A k \in 1 .. LockAfterFailures :
              counted[u][k] <= Cardinality(Callers) * counted[u][k - 1]
        /\ counted[u][LockAfterFailures + 1] = 0

Closed(u) == account[u] \in {"SUSPENDED", "WITHDRAWN"}
OpenSessions(u) == {t \in Tokens : session[t].user = u /\ Open(t)}

(* A suspended or withdrawn account has no open sessions but those of the  *)
(* logins that were in flight when it was closed.                          *)
FewSessionsSurvive ==
    \A u \in Users : Closed(u) => Cardinality(OpenSessions(u)) <= Cardinality(Callers)

=============================================================================
