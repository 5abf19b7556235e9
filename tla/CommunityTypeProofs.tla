------------------------ MODULE CommunityTypeProofs ------------------------
(***************************************************************************)
(* Type correctness of accounts, chat and safety, for any users, rooms,    *)
(* codes, sockets and requests in flight, and what no step may do to the   *)
(* requests of others.                                                     *)
(*                                                                         *)
(* A request is a record that only its own steps change, so every later    *)
(* proof asks of a step what becomes of its own request, and of no other.  *)
(***************************************************************************)
EXTENDS Community, FiniteSetTheorems, TLAPS

-----------------------------------------------------------------------------
(* Types.  A request is one of eight kinds, told apart by its step.        *)
CodeCall == [step: {"count", "delete", "create"}, user: Users, purpose: Purpose]
GuessCall == [step: {"guess", "apply"}, user: Users, purpose: Purpose, id: Codes]
LoginCall == [step: {"look", "fail", "clear", "open"}, user: Users, seen: Throttle]
WithdrawCall == [step: {"withdraw"}, user: Users]
MessageCall == [step: {"store", "insert", "answer"}, user: Users, message: Message, at: Nat]
ReadCall == [step: {"show", "mark", "enter"}, user: Users, room: Rooms, viewedAt: Nat,
             command: {"read", "enter"}]
NotifyCall == [step: {"notify"}, user: Users, other: Users]
ReportCall == [step: {"report"}, user: Users, target: Targets]

Requests == CodeCall \cup GuessCall \cup LoginCall \cup WithdrawCall
                \cup MessageCall \cup ReadCall \cup NotifyCall \cup ReportCall

CallsOK == call \in [Callers -> Requests \cup {NoCall}]

\* The throttle stays in its bounds because a failure is only counted from a row
\* below the limit, or anew: at the limit a row is locked until its window is over.
LockedAtLimit ==
    \A u \in Users :
        throttle[u].failedCount >= LockAfterFailures => throttle[u].locked \/ throttle[u].past

FailsBelowLimit ==
    \A c \in Callers : At(c, "look") \/ At(c, "fail") =>
        call[c].seen.past \/ call[c].seen.failedCount < LockAfterFailures

LEMMA CallsTyped == TypeOK => CallsOK
BY DEF TypeOK, ChatTypeOK, CallsOK, Requests, AccountCall, ChatCall, CodeCall, GuessCall,
       LoginCall, WithdrawCall, MessageCall, ReadCall, NotifyCall, ReportCall

LEMMA TypedCalls == ASSUME CallsOK PROVE call \in [Callers -> AccountCall \cup ChatCall \cup {NoCall}]
BY DEF CallsOK, Requests, AccountCall, ChatCall, CodeCall, GuessCall,
       LoginCall, WithdrawCall, MessageCall, ReadCall, NotifyCall, ReportCall

LEMMA Kinds ==
    ASSUME CallsOK, NEW c \in Callers
    PROVE  /\ \A step \in {"count", "delete", "create"} : At(c, step) => call[c] \in CodeCall
           /\ \A step \in {"guess", "apply"} : At(c, step) => call[c] \in GuessCall
           /\ \A step \in {"look", "fail", "clear", "open"} : At(c, step) => call[c] \in LoginCall
           /\ At(c, "withdraw") => call[c] \in WithdrawCall
           /\ \A step \in {"store", "insert", "answer"} : At(c, step) => call[c] \in MessageCall
           /\ \A step \in {"show", "mark", "enter"} : At(c, step) => call[c] \in ReadCall
           /\ At(c, "notify") => call[c] \in NotifyCall
           /\ At(c, "report") => call[c] \in ReportCall
<1> USE DEF At
<1>1. call[c] # NoCall => call[c] \in Requests
  BY DEF CallsOK
<1>2. \A r \in CodeCall : r.step \in {"count", "delete", "create"}
  BY DEF CodeCall
<1>3. \A r \in GuessCall : r.step \in {"guess", "apply"}
  BY DEF GuessCall
<1>4. \A r \in LoginCall : r.step \in {"look", "fail", "clear", "open"}
  BY DEF LoginCall
<1>5. \A r \in WithdrawCall : r.step = "withdraw"
  BY DEF WithdrawCall
<1>6. \A r \in MessageCall : r.step \in {"store", "insert", "answer"}
  BY DEF MessageCall
<1>7. \A r \in ReadCall : r.step \in {"show", "mark", "enter"}
  BY DEF ReadCall
<1>8. \A r \in NotifyCall : r.step = "notify"
  BY DEF NotifyCall
<1>9. \A r \in ReportCall : r.step = "report"
  BY DEF ReportCall
<1> QED BY <1>1, <1>2, <1>3, <1>4, <1>5, <1>6, <1>7, <1>8, <1>9 DEF Requests

-----------------------------------------------------------------------------
(* The three ways in which a request changes.                              *)
LEMMA BeginsTyped ==
    ASSUME CallsOK, NEW c \in Callers, NEW r \in Requests, Begins(c, r)
    PROVE  CallsOK'
BY DEF CallsOK, Begins

LEMMA EndsTyped ==
    ASSUME CallsOK, NEW c \in Callers, Ends(c)
    PROVE  CallsOK'
BY DEF CallsOK, Ends

Advance == {<<"count", "delete">>, <<"delete", "create">>, <<"guess", "apply">>,
            <<"look", "clear">>, <<"look", "fail">>, <<"clear", "open">>,
            <<"insert", "answer">>, <<"show", "mark">>, <<"mark", "enter">>}

\* A request that goes on changes nothing but its step.
LEMMA GoesOn ==
    ASSUME CallsOK, NEW c \in Callers, NEW old, NEW new, <<old, new>> \in Advance,
           At(c, old), Goes(c, new)
    PROVE  \E r \in Requests :
              /\ r.step = new /\ r.user = call[c].user
              /\ new \in {"delete", "create"} => r \in CodeCall /\ r.purpose = call[c].purpose
              /\ new = "apply" => r \in GuessCall
              /\ new \in {"fail", "clear", "open"} => r \in LoginCall /\ r.seen = call[c].seen
              /\ new = "answer" => r \in MessageCall /\ r.message = call[c].message
              /\ new \in {"mark", "enter"} => 
                     /\ r \in ReadCall /\ r.room = call[c].room
                     /\ r.viewedAt = call[c].viewedAt
              /\ call' = [call EXCEPT ![c] = r]
<1> DEFINE r == [call[c] EXCEPT !.step = new]
<1>1. call' = [call EXCEPT ![c] = r]
  BY DEF Goes, CallsOK
<1>2. CASE new \in {"delete", "create"}
  <2>1. call[c] \in CodeCall
    BY <1>2, Kinds DEF Advance
  <2>2. r \in CodeCall /\ r.step = new /\ r.user = call[c].user /\ r.purpose = call[c].purpose
    BY <1>2, <2>1 DEF CodeCall
  <2> QED BY <1>1, <1>2, <2>2 DEF Requests
<1>3. CASE new = "apply"
  <2>1. call[c] \in GuessCall
    BY <1>3, Kinds DEF Advance
  <2>2. r \in GuessCall /\ r.step = new /\ r.user = call[c].user
    BY <1>3, <2>1 DEF GuessCall
  <2> QED BY <1>1, <1>3, <2>2 DEF Requests
<1>4. CASE new \in {"fail", "clear", "open"}
  <2>1. call[c] \in LoginCall
    BY <1>4, Kinds DEF Advance
  <2>2. r \in LoginCall /\ r.step = new /\ r.user = call[c].user /\ r.seen = call[c].seen
    BY <1>4, <2>1 DEF LoginCall
  <2> QED BY <1>1, <1>4, <2>2 DEF Requests
<1>5. CASE new = "answer"
  <2>1. call[c] \in MessageCall
    BY <1>5, Kinds DEF Advance
  <2>2. r \in MessageCall /\ r.step = new /\ r.user = call[c].user /\ r.message = call[c].message
    BY <1>5, <2>1 DEF MessageCall
  <2> QED BY <1>1, <1>5, <2>2 DEF Requests
<1>6. CASE new \in {"mark", "enter"}
  <2>1. call[c] \in ReadCall
    BY <1>6, Kinds DEF Advance
  <2>2. /\ r \in ReadCall /\ r.step = new /\ r.user = call[c].user
        /\ r.room = call[c].room /\ r.viewedAt = call[c].viewedAt
    BY <1>6, <2>1 DEF ReadCall
  <2> QED BY <1>1, <1>6, <2>2 DEF Requests
<1> QED BY <1>2, <1>3, <1>4, <1>5, <1>6 DEF Advance

LEMMA GoesTyped ==
    ASSUME CallsOK, NEW c \in Callers, NEW old, NEW new, <<old, new>> \in Advance,
           At(c, old), Goes(c, new)
    PROVE  CallsOK' /\ (FailsBelowLimit => FailsBelowLimit')
<1>1. PICK r \in Requests : /\ r.step = new /\ (new = "fail" => r.seen = call[c].seen)
                            /\ call' = [call EXCEPT ![c] = r]
  BY GoesOn
<1>2. new # "look" /\ (new = "fail" => old = "look")
  BY DEF Advance
<1> QED BY <1>1, <1>2 DEF CallsOK, FailsBelowLimit, At

\* A message gets its time.
LEMMA Stamps ==
    ASSUME CallsOK, messages \in Seq(Message), NEW c \in Callers, StampMessage(c)
    PROVE  \E r \in MessageCall :
              /\ r.step = "insert" /\ r.at = Len(messages) + 1 /\ r.message = call[c].message
              /\ call[c].message \in Message
              /\ call' = [call EXCEPT ![c] = r]
<1> DEFINE r == [call[c] EXCEPT !.step = "insert", !.at = Len(messages) + 1]
<1>1. call[c] \in MessageCall
  BY Kinds DEF StampMessage
<1>2. Len(messages) + 1 \in Nat
  OBVIOUS
<1>3. /\ r \in MessageCall /\ r.step = "insert" /\ r.at = Len(messages) + 1
      /\ r.message = call[c].message /\ call[c].message \in Message
  BY <1>1, <1>2 DEF MessageCall
<1>4. call' = [call EXCEPT ![c] = r]
  BY DEF StampMessage, CallsOK
<1> QED BY <1>3, <1>4

LEMMA EndsBelow ==
    ASSUME CallsOK, FailsBelowLimit, NEW c \in Callers, Ends(c)
    PROVE  FailsBelowLimit'
BY DEF CallsOK, FailsBelowLimit, Ends, At

LEMMA BeginsBelow ==
    ASSUME CallsOK, FailsBelowLimit, NEW c \in Callers, NEW r, Begins(c, r),
           r.step \in {"look", "fail"} => r.seen.past \/ r.seen.failedCount < LockAfterFailures
    PROVE  FailsBelowLimit'
BY DEF CallsOK, FailsBelowLimit, Begins, At

-----------------------------------------------------------------------------
(* Every command of accounts keeps the types.                              *)
AccountsOK == AccountsTypeOK /\ LockedAtLimit
AccountsInv == AccountsOK /\ CallsOK /\ FailsBelowLimit

LEMMA AccountsCallsTyped ==
    ASSUME AccountsInv, AccountsNext
    PROVE  CallsOK' /\ FailsBelowLimit'
<1> USE DEF AccountsInv
<1>1. ASSUME NEW c \in Callers, NEW u \in Users, NEW r \in Requests, r.step \notin {"look", "fail"}, Begins(c, r)
      PROVE  CallsOK' /\ FailsBelowLimit'
  BY <1>1, BeginsTyped, BeginsBelow
<1>2. ASSUME NEW c \in Callers, NEW u \in Users, SignUp(c, u) \/ AskCode(c, u)
      PROVE  CallsOK' /\ FailsBelowLimit'
  <2>1. PICK purpose \in Purpose : Begins(c, [step |-> "count", user |-> u, purpose |-> purpose])
    BY <1>2 DEF SignUp, AskCode, Purpose
  <2>2. [step |-> "count", user |-> u, purpose |-> purpose] \in Requests
    BY DEF Requests, CodeCall
  <2> QED BY <1>1, <2>1, <2>2
<1>3. ASSUME NEW c \in Callers, NEW u \in Users, Login(c, u)
      PROVE  CallsOK' /\ FailsBelowLimit'
  <2>1. throttle[u] \in Throttle
    BY DEF AccountsOK, AccountsTypeOK
  <2>2. [step |-> "look", user |-> u, seen |-> throttle[u]] \in Requests
    BY <2>1 DEF Requests, LoginCall
  <2>3. throttle[u].past \/ throttle[u].failedCount < LockAfterFailures
    BY <1>3, <2>1, AccountsAssumption DEF Login, AccountsOK, LockedAtLimit, Throttle
  <2> QED BY <1>3, <2>2, <2>3, BeginsTyped, BeginsBelow DEF Login
<1>4. ASSUME NEW c \in Callers, PasswordRight(c) \/ PasswordWrong(c)
      PROVE  CallsOK' /\ FailsBelowLimit'
  <2>1. CASE PasswordRight(c)
    BY <2>1, GoesTyped DEF PasswordRight, Advance
  <2>2. CASE PasswordWrong(c)
    BY <2>2, GoesTyped DEF PasswordWrong, Advance
  <2> QED BY <1>4, <2>1, <2>2
<1>5. ASSUME NEW c \in Callers, NEW u \in Users, AskWithdraw(c, u)
      PROVE  CallsOK' /\ FailsBelowLimit'
  <2>1. [step |-> "withdraw", user |-> u] \in Requests
    BY DEF Requests, WithdrawCall
  <2> QED BY <1>1, <1>5, <2>1 DEF AskWithdraw
<1>6. ASSUME NEW c \in Callers, NEW u \in Users, NEW purpose \in Purpose, ReadCode(c, u, purpose)
      PROVE  CallsOK' /\ FailsBelowLimit'
  <2>1. PICK newest \in Codes :
           Begins(c, [step |-> "guess", user |-> u, purpose |-> purpose, id |-> newest])
    BY <1>6 DEF ReadCode, Live
  <2>2. [step |-> "guess", user |-> u, purpose |-> purpose, id |-> newest] \in Requests
    BY DEF Requests, GuessCall
  <2> QED BY <1>1, <2>1, <2>2
<1>7. ASSUME NEW c \in Callers, CountCodes(c) \/ DeleteCodes(c) \/ GuessRight(c) \/ ClearThrottle(c)
      PROVE  CallsOK' /\ FailsBelowLimit'
  <2>1. CASE CountCodes(c)
    BY <2>1, GoesTyped, EndsTyped, EndsBelow DEF CountCodes, Advance
  <2>2. CASE DeleteCodes(c)
    BY <2>2, GoesTyped DEF DeleteCodes, Advance
  <2>3. CASE GuessRight(c)
    BY <2>3, GoesTyped DEF GuessRight, Advance
  <2>4. CASE ClearThrottle(c)
    BY <2>4, GoesTyped DEF ClearThrottle, Advance
  <2> QED BY <1>7, <2>1, <2>2, <2>3, <2>4
<1>8. ASSUME NEW c \in Callers,
             \/ CreateCode(c) \/ GuessWrong(c) \/ ConfirmContact(c) \/ ResetPassword(c)
             \/ RecordFailure(c) \/ OpenSession(c) \/ Withdraw(c) \/ CallLost(c)
      PROVE  CallsOK' /\ FailsBelowLimit'
  BY <1>8, EndsTyped, EndsBelow
  DEF CreateCode, GuessWrong, ConfirmContact, ResetPassword, RecordFailure, OpenSession,
      Withdraw, CallLost
<1>9. ASSUME UNCHANGED call
      PROVE  CallsOK' /\ FailsBelowLimit'
  BY <1>9 DEF CallsOK, FailsBelowLimit, At
<1>10. ASSUME NEW u \in Users,
              CodesExpire(u) \/ WindowEnds(u) \/ LockEnds(u) \/ Suspend(u) \/ Reinstate(u)
       PROVE  CallsOK' /\ FailsBelowLimit'
  BY <1>9, <1>10 DEF CodesExpire, WindowEnds, LockEnds, Suspend, Reinstate
<1>11. ASSUME NEW t \in Tokens, Logout(t)
       PROVE  CallsOK' /\ FailsBelowLimit'
  BY <1>9, <1>11 DEF Logout
<1> QED BY <1>2, <1>3, <1>4, <1>5, <1>6, <1>7, <1>8, <1>10, <1>11 DEF AccountsNext

LEMMA NoCodeTyped == NoCode \in Code /\ \A u \in Users, p \in Purpose : NewCode(u, p) \in Code
BY DEF NoCode, NewCode, Code, Purpose

\* What is written to the codes.
LEMMA GuessTyped ==
    ASSUME AccountsInv, NEW c \in Callers, GuessWrong(c) \/ GuessRight(c)
    PROVE  codes' \in [Codes -> Code]
<1>1. PICK k \in Codes : k = call[c].id
  BY Kinds DEF GuessCall, AccountsInv, GuessWrong, GuessRight
<1>2. codes[k] \in Code /\ codes \in [Codes -> Code]
  BY DEF AccountsInv, AccountsOK, AccountsTypeOK
<1>3. CASE GuessWrong(c)
  <2>1. [codes[k] EXCEPT !.attempts = @ + 1] \in Code
    BY <1>2 DEF Code
  <2> QED BY <1>1, <1>2, <1>3, <2>1 DEF GuessWrong
<1>4. CASE GuessRight(c)
  <2>1. [codes[k] EXCEPT !.consumed = TRUE] \in Code
    BY <1>2 DEF Code
  <2> QED BY <1>1, <1>2, <1>4, <2>1 DEF GuessRight
<1> QED BY <1>3, <1>4

LEMMA CodeStepsTyped ==
    ASSUME AccountsInv, NEW c \in Callers,
           DeleteCodes(c) \/ CreateCode(c) \/ GuessWrong(c) \/ GuessRight(c)
    PROVE  codes' \in [Codes -> Code]
<1>1. CASE DeleteCodes(c)
  BY <1>1, NoCodeTyped DEF DeleteCodes, AccountsInv, AccountsOK, AccountsTypeOK
<1>2. CASE CreateCode(c)
  <2>1. call[c].user \in Users /\ call[c].purpose \in Purpose
    BY <1>2, Kinds DEF CreateCode, CodeCall, AccountsInv
  <2> QED BY <1>2, <2>1, NoCodeTyped DEF CreateCode, AccountsInv, AccountsOK, AccountsTypeOK, UserOf
<1>3. CASE GuessWrong(c) \/ GuessRight(c)
  BY <1>3, GuessTyped
<1> QED BY <1>1, <1>2, <1>3

LEMMA RecordFailureTyped ==
    ASSUME AccountsInv, NEW c \in Callers, RecordFailure(c)
    PROVE  /\ throttle' \in [Users -> Throttle] /\ LockedAtLimit'
           /\ counted' \in [Users -> [Counts -> Nat]]
<1> DEFINE count == CountAfter(call[c].seen)
<1>1. At(c, "fail") /\ call[c] \in LoginCall
  BY Kinds DEF RecordFailure, AccountsInv
<1>2. call[c].seen \in Throttle /\ call[c].user \in Users
  BY <1>1 DEF LoginCall
<1>3. call[c].seen.past \/ call[c].seen.failedCount < LockAfterFailures
  BY <1>1 DEF AccountsInv, FailsBelowLimit
<1>4. count \in 0 .. LockAfterFailures
  BY <1>2, <1>3, AccountsAssumption DEF CountAfter, Throttle
<1>5. PICK u \in Users : u = UserOf(c)
  BY <1>2 DEF UserOf
<1>6. throttle[u] \in Throttle
  BY DEF AccountsInv, AccountsOK, AccountsTypeOK
<1>7. LocksAt(count) \in BOOLEAN /\ (count >= LockAfterFailures => LocksAt(count))
  BY DEF LocksAt
<1>8. PICK row : row = [failedCount |-> count, past |-> throttle[u].past /\ count # 1,
                        locked |-> LocksAt(count)]
  OBVIOUS
<1>9. row \in Throttle /\ (row.failedCount >= LockAfterFailures => row.locked)
  BY <1>4, <1>6, <1>7, <1>8 DEF Throttle
<1>10. throttle' = [throttle EXCEPT ![u] = row]
  BY <1>5, <1>8 DEF RecordFailure, AccountsInv, AccountsOK, AccountsTypeOK
<1>11. counted' = [counted EXCEPT ![u][count] = counted[u][count] + 1]
  BY <1>5 DEF RecordFailure
<1>12. count \in Counts /\ counted \in [Users -> [Counts -> Nat]]
  BY <1>4, AccountsAssumption DEF Counts, AccountsInv, AccountsOK, AccountsTypeOK
<1>13. counted' \in [Users -> [Counts -> Nat]]
  BY <1>11, <1>12
<1> QED BY <1>9, <1>10, <1>13 DEF AccountsInv, AccountsOK, AccountsTypeOK, LockedAtLimit

LEMMA NewWindowTyped == NewWindow \in [Counts -> Nat] /\ 0 \in Counts
BY AccountsAssumption DEF NewWindow, Counts

LEMMA ThrottleStepsTyped ==
    ASSUME AccountsInv,
           \/ \E c \in Callers : ClearThrottle(c)
           \/ \E u \in Users : WindowEnds(u) \/ LockEnds(u)
    PROVE  /\ throttle' \in [Users -> Throttle] /\ LockedAtLimit'
           /\ counted' \in [Users -> [Counts -> Nat]]
<1>0. counted \in [Users -> [Counts -> Nat]]
  BY DEF AccountsInv, AccountsOK, AccountsTypeOK
<1>1. CASE \E c \in Callers : ClearThrottle(c)
  <2>1. NoThrottle \in Throttle /\ ~(NoThrottle.failedCount >= LockAfterFailures)
    BY AccountsAssumption DEF NoThrottle, Throttle
  <2>2. counted' \in [Users -> [Counts -> Nat]]
    <3>1. PICK c \in Callers : ClearThrottle(c)
      BY <1>1
    <3>2. call[c].user \in Users
      BY <3>1, Kinds DEF ClearThrottle, AccountsInv, LoginCall
    <3> QED BY <1>0, <3>1, <3>2, NewWindowTyped DEF ClearThrottle, UserOf
  <2> QED BY <1>1, <2>1, <2>2 DEF ClearThrottle, AccountsInv, AccountsOK, AccountsTypeOK, LockedAtLimit
<1>2. ASSUME NEW u \in Users, WindowEnds(u) \/ LockEnds(u)
      PROVE  /\ throttle' \in [Users -> Throttle] /\ LockedAtLimit'
             /\ counted' \in [Users -> [Counts -> Nat]]
  <2>1. throttle[u] \in Throttle
    BY DEF AccountsInv, AccountsOK, AccountsTypeOK
  <2>2. CASE WindowEnds(u)
    <3>1. PICK row : row = [throttle[u] EXCEPT !.past = TRUE]
      OBVIOUS
    <3>2. row \in Throttle /\ row.past
      BY <2>1, <3>1 DEF Throttle
    <3>3. throttle' = [throttle EXCEPT ![u] = row]
      BY <2>2, <3>1 DEF WindowEnds, AccountsInv, AccountsOK, AccountsTypeOK
    <3>4. counted' \in [Users -> [Counts -> Nat]]
      BY <1>0, <2>2, NewWindowTyped DEF WindowEnds
    <3> QED BY <3>2, <3>3, <3>4 DEF AccountsInv, AccountsOK, AccountsTypeOK, LockedAtLimit
  <2>3. CASE LockEnds(u)
    <3>1. PICK row : row = [throttle[u] EXCEPT !.locked = FALSE]
      OBVIOUS
    <3>2. row \in Throttle /\ row.past
      BY <2>1, <2>3, <3>1 DEF Throttle, LockEnds
    <3>3. throttle' = [throttle EXCEPT ![u] = row]
      BY <2>3, <3>1 DEF LockEnds, AccountsInv, AccountsOK, AccountsTypeOK
    <3>4. UNCHANGED counted
      BY <2>3 DEF LockEnds
    <3> QED BY <1>0, <3>2, <3>3, <3>4 DEF AccountsInv, AccountsOK, AccountsTypeOK, LockedAtLimit
  <2> QED BY <1>2, <2>2, <2>3
<1> QED BY <1>1, <1>2

LEMMA RevokeTyped ==
    ASSUME AccountsTypeOK, NEW u, RevokeAll(u)
    PROVE  session' \in [Tokens -> Session]
BY DEF AccountsTypeOK, RevokeAll, Session

LEMMA SessionStepsTyped ==
    ASSUME AccountsInv,
           \/ \E c \in Callers : OpenSession(c) \/ Withdraw(c) \/ ResetPassword(c)
           \/ \E u \in Users : Suspend(u)
           \/ \E t \in Tokens : Logout(t)
    PROVE  session' \in [Tokens -> Session]
<1> USE DEF AccountsInv, AccountsOK
<1>1. ASSUME NEW c \in Callers, OpenSession(c)
      PROVE  session' \in [Tokens -> Session]
  <2>1. call[c].user \in Users
    BY <1>1, Kinds DEF OpenSession, LoginCall
  <2> QED BY <1>1, <2>1 DEF OpenSession, AccountsTypeOK, Session, UserOf
<1>2. ASSUME NEW t \in Tokens, Logout(t)
      PROVE  session' \in [Tokens -> Session]
  BY <1>2 DEF Logout, AccountsTypeOK, Session
<1> QED BY <1>1, <1>2, RevokeTyped DEF Withdraw, ResetPassword, Suspend, Suspended

LEMMA AccountStepsTyped ==
    ASSUME AccountsInv,
           \/ \E c \in Callers, u \in Users : SignUp(c, u)
           \/ \E c \in Callers : ConfirmContact(c) \/ Withdraw(c)
           \/ \E u \in Users : Suspend(u) \/ Reinstate(u)
    PROVE  account' \in [Users -> UserStatus \cup {"absent"}]
BY DEF AccountsInv, AccountsOK, AccountsTypeOK, SignUp, ConfirmContact, Withdraw, Suspend, Reinstate,
       UserStatus

LEMMA AccountsTyped ==
    ASSUME AccountsInv, AccountsNext
    PROVE  AccountsInv'
<1>1. ASSUME UNCHANGED avars
      PROVE  AccountsOK'
  BY <1>1 DEF AccountsInv, AccountsOK, AccountsTypeOK, LockedAtLimit, avars
<1>2. ASSUME UNCHANGED <<codes, throttle, counted>>,
             account' \in [Users -> UserStatus \cup {"absent"}], session' \in [Tokens -> Session]
      PROVE  AccountsOK'
  BY <1>2 DEF AccountsInv, AccountsOK, AccountsTypeOK, LockedAtLimit
<1>3. ASSUME UNCHANGED <<account, throttle, counted, session>>, codes' \in [Codes -> Code]
      PROVE  AccountsOK'
  BY <1>3 DEF AccountsInv, AccountsOK, AccountsTypeOK, LockedAtLimit
<1>4. ASSUME UNCHANGED <<account, codes, session>>,
             throttle' \in [Users -> Throttle], LockedAtLimit',
             counted' \in [Users -> [Counts -> Nat]]
      PROVE  AccountsOK'
  BY <1>4 DEF AccountsInv, AccountsOK, AccountsTypeOK
<1>5. /\ account \in [Users -> UserStatus \cup {"absent"}] /\ session \in [Tokens -> Session]
      /\ codes \in [Codes -> Code]
  BY DEF AccountsInv, AccountsOK, AccountsTypeOK
<1>6. ASSUME NEW c \in Callers, NEW u \in Users,
             \/ SignUp(c, u) \/ AskCode(c, u) \/ Login(c, u)
             \/ AskWithdraw(c, u) \/ \E purpose \in Purpose : ReadCode(c, u, purpose)
      PROVE  AccountsOK'
  BY <1>1, <1>2, <1>5, <1>6, AccountStepsTyped
  DEF SignUp, AskCode, Login, AskWithdraw, ReadCode
<1>7. ASSUME NEW c \in Callers,
             DeleteCodes(c) \/ CreateCode(c) \/ GuessWrong(c) \/ GuessRight(c)
      PROVE  AccountsOK'
  <2>1. UNCHANGED <<account, throttle, counted, session>>
    BY <1>7 DEF DeleteCodes, CreateCode, GuessWrong, GuessRight
  <2> QED BY <1>3, <1>7, <2>1, CodeStepsTyped
<1>8. ASSUME NEW c \in Callers,
             CountCodes(c) \/ PasswordRight(c) \/ PasswordWrong(c) \/ CallLost(c)
      PROVE  AccountsOK'
  BY <1>1, <1>8 DEF CountCodes, PasswordRight, PasswordWrong, CallLost
<1>9. ASSUME NEW c \in Callers, RecordFailure(c) \/ ClearThrottle(c)
      PROVE  AccountsOK'
  <2>1. UNCHANGED <<account, codes, session>>
    BY <1>9 DEF RecordFailure, ClearThrottle
  <2> QED BY <1>4, <1>9, <2>1, RecordFailureTyped, ThrottleStepsTyped
<1>10. ASSUME NEW c \in Callers,
              ConfirmContact(c) \/ ResetPassword(c) \/ OpenSession(c) \/ Withdraw(c)
       PROVE  AccountsOK'
  <2>1. UNCHANGED <<codes, throttle, counted>> 
    BY <1>10 DEF ConfirmContact, ResetPassword, OpenSession, Withdraw
  <2>2. ConfirmContact(c) => UNCHANGED session
    BY DEF ConfirmContact
  <2>3. ResetPassword(c) \/ OpenSession(c) => UNCHANGED account
    BY DEF ResetPassword, OpenSession
  <2> QED BY <1>2, <1>5, <1>10, <2>1, <2>2, <2>3, AccountStepsTyped, SessionStepsTyped
<1>11. ASSUME NEW u \in Users, Suspend(u) \/ Reinstate(u)
       PROVE  AccountsOK'
  <2>1. UNCHANGED <<codes, throttle, counted>> 
    BY <1>11 DEF Suspend, Reinstate
  <2>2. Reinstate(u) => UNCHANGED session
    BY DEF Reinstate
  <2> QED BY <1>2, <1>5, <1>11, <2>1, <2>2, AccountStepsTyped, SessionStepsTyped
<1>12. ASSUME NEW u \in Users, CodesExpire(u)
       PROVE  AccountsOK'
  <2>1. codes' \in [Codes -> Code]
    BY <1>5, <1>12 DEF CodesExpire, Code
  <2> QED BY <1>3, <1>12, <2>1 DEF CodesExpire
<1>13. ASSUME NEW u \in Users, WindowEnds(u) \/ LockEnds(u)
       PROVE  AccountsOK'
  <2>1. UNCHANGED <<account, codes, session>>
    BY <1>13 DEF WindowEnds, LockEnds
  <2> QED BY <1>4, <1>13, <2>1, ThrottleStepsTyped
<1>14. ASSUME NEW t \in Tokens, Logout(t)
       PROVE  AccountsOK'
  <2>1. UNCHANGED <<account, codes, throttle, counted>>
    BY <1>14 DEF Logout
  <2> QED BY <1>2, <1>5, <1>14, <2>1, SessionStepsTyped
<1>15. AccountsOK'
  BY <1>6, <1>7, <1>8, <1>9, <1>10, <1>11, <1>12, <1>13, <1>14 DEF AccountsNext
<1> QED BY <1>15, AccountsCallsTyped DEF AccountsInv

-----------------------------------------------------------------------------
(* Every command of the chat keeps the types.  An answer names messages    *)
(* that are there: the time of the request is a time of the past.  An      *)
(* insert that is issued has its own place among the times.                *)
Reading(c) == At(c, "show") \/ At(c, "mark") \/ At(c, "enter")

ReadsThePast ==
    \A c \in Callers : Reading(c) => call[c].viewedAt <= Len(messages) /\ call[c].room \in rooms

Stamped ==
    \A c \in Callers : At(c, "insert") =>
        call[c].at \in 1 .. Len(messages) /\ messages[call[c].at] = call[c].message

RowsOK ==
    /\ rooms \subseteq Rooms
    /\ messages \in Seq(Message) /\ stored \subseteq 1 .. Len(messages)
    /\ lastRead \in [Rooms -> [Users -> Nat]]
    /\ shown \in [Users -> SUBSET MessageIds]
    /\ acknowledged \subseteq Message
    /\ blocks \subseteq Users \X Users
    /\ reports \in [Users -> [Targets -> ReportStatus \cup {"absent"}]]
    /\ recentReports \in [Users -> Nat]

SocketsOK ==
    /\ socketUser \in [Sockets -> Users \cup {NoUser}]
    /\ joined \in [Sockets -> SUBSET Rooms] /\ entered \in [Sockets -> SUBSET Rooms]
    /\ refreshing \in [Sockets -> [Refreshes -> Refresh]]

ChatInv == RowsOK /\ SocketsOK /\ CallsOK /\ FailsBelowLimit /\ ReadsThePast /\ Stamped

LEMMA ChatCallsTyped ==
    ASSUME ChatInv, ChatNext
    PROVE  CallsOK' /\ FailsBelowLimit'
<1> USE DEF ChatInv
<1>1. ASSUME NEW c \in Callers, NEW r \in Requests, r.step \notin {"look", "fail"}, Begins(c, r)
      PROVE  CallsOK' /\ FailsBelowLimit'
  BY <1>1, BeginsTyped, BeginsBelow
<1>2. ASSUME NEW c \in Callers, NEW u \in Users, NEW r \in Rooms, AskSend(c, u, r)
      PROVE  CallsOK' /\ FailsBelowLimit'
  <2>1. PICK id \in MessageIds, body \in Bodies :
           Begins(c, [step |-> "store", user |-> u, at |-> 0,
                      message |-> [id |-> id, room |-> r, author |-> u, body |-> body]])
    BY <1>2 DEF AskSend
  <2>2. [id |-> id, room |-> r, author |-> u, body |-> body] \in Message
    BY DEF Message
  <2>3. [step |-> "store", user |-> u, at |-> 0,
         message |-> [id |-> id, room |-> r, author |-> u, body |-> body]] \in Requests
    BY <2>2 DEF Requests, MessageCall
  <2> QED BY <1>1, <2>1, <2>3
<1>3. ASSUME NEW c \in Callers, NEW u \in Users, NEW r \in Rooms, AskDetail(c, u, r)
      PROVE  CallsOK' /\ FailsBelowLimit'
  <2>1. PICK command \in {"read", "enter"} :
           Begins(c, [step |-> "show", user |-> u, room |-> r, viewedAt |-> Len(messages),
                      command |-> command])
    BY <1>3 DEF AskDetail
  <2>2. Len(messages) \in Nat
    BY DEF RowsOK
  <2>3. [step |-> "show", user |-> u, room |-> r, viewedAt |-> Len(messages),
         command |-> command] \in Requests
    BY <2>2 DEF Requests, ReadCall
  <2> QED BY <1>1, <2>1, <2>3
<1>4. ASSUME NEW c \in Callers, NEW u \in Users, NEW x \in Targets, AskReport(c, u, x)
      PROVE  CallsOK' /\ FailsBelowLimit'
  <2>1. [step |-> "report", user |-> u, target |-> x] \in Requests
    BY DEF Requests, ReportCall
  <2> QED BY <1>1, <1>4, <2>1 DEF AskReport
<1>5. ASSUME NEW c \in Callers, Ends(c)
      PROVE  CallsOK' /\ FailsBelowLimit'
  BY <1>5, EndsTyped, EndsBelow
<1>6. ASSUME NEW c \in Callers, StampMessage(c) \/ StoreMessage(c) \/ FindExisting(c)
      PROVE  CallsOK' /\ FailsBelowLimit'
  <2>1. CASE StampMessage(c)
    <3>1. PICK r \in MessageCall : r.step = "insert" /\ call' = [call EXCEPT ![c] = r]
      BY <2>1, Stamps DEF RowsOK
    <3> QED BY <3>1 DEF CallsOK, Requests, FailsBelowLimit, At
  <2>2. CASE StoreMessage(c) \/ FindExisting(c)
    BY <1>5, <2>2, GoesTyped DEF StoreMessage, FindExisting, Advance
  <2> QED BY <1>6, <2>1, <2>2
<1>7. ASSUME NEW c \in Callers, ShowMessages(c)
      PROVE  CallsOK' /\ FailsBelowLimit'
  BY <1>7, GoesTyped DEF ShowMessages, Advance
<1>8. ASSUME NEW c \in Callers, MarkRead(c)
      PROVE  CallsOK' /\ FailsBelowLimit'
  BY <1>5, <1>8, GoesTyped DEF MarkRead, Advance
<1>9. ASSUME NEW c \in Callers, Acknowledge(c) \/ EnterRoom(c) \/ Notify(c) \/ StoreReport(c)
      PROVE  CallsOK' /\ FailsBelowLimit'
  BY <1>5, <1>9 DEF Acknowledge, EnterRoom, Notify, StoreReport
<1>10. ASSUME UNCHANGED call
       PROVE  CallsOK' /\ FailsBelowLimit'
  BY <1>10 DEF CallsOK, FailsBelowLimit, At
<1>11. ASSUME NEW s \in Sockets,
              \/ Disconnect(s) \/ ListRooms(s) \/ JoinRooms(s)
              \/ \E u \in Users : Connect(s, u)
       PROVE  CallsOK' /\ FailsBelowLimit'
  BY <1>10, <1>11 DEF Disconnect, ListRooms, JoinRooms, Connect
<1>12. ASSUME NEW u \in Users,
              \/ MinutePasses(u)
              \/ \E r \in Rooms : CreateRoom(u, r)
              \/ \E x \in Targets : ResolveReport(u, x)
       PROVE  CallsOK' /\ FailsBelowLimit'
  BY <1>10, <1>12 DEF MinutePasses, CreateRoom, ResolveReport
<1>13. ASSUME NEW c \in Callers, NEW u \in Users, NEW v \in Users, Block(c, u, v) \/ Unblock(c, u, v)
       PROVE  CallsOK' /\ FailsBelowLimit'
  <2>1. [step |-> "notify", user |-> u, other |-> v] \in Requests
    BY DEF Requests, NotifyCall
  <2> QED BY <1>1, <1>13, <2>1 DEF Block, Unblock
<1>14. CASE ProcessEnds
  BY <1>14 DEF ProcessEnds, CallsOK, FailsBelowLimit, At
<1> QED
  BY <1>2, <1>3, <1>4, <1>6, <1>7, <1>8, <1>9, <1>11, <1>12, <1>13, <1>14 DEF ChatNext

\* Messages and rooms stay, so what was in the past still is.
LEMMA ReadsStay ==
    ASSUME CallsOK, ReadsThePast, messages \in Seq(Message), messages' \in Seq(Message),
           Len(messages) <= Len(messages)', rooms \subseteq rooms',
           \A c \in Callers : Reading(c)' =>
              /\ Reading(c) /\ call'[c].room = call[c].room
              /\ call'[c].viewedAt = call[c].viewedAt
    PROVE  ReadsThePast'
<1>1. ASSUME NEW c \in Callers, Reading(c)
      PROVE  call[c].viewedAt \in Nat
  BY <1>1, Kinds DEF Reading, ReadCall
<1> QED BY <1>1 DEF ReadsThePast

LEMMA StampMessageTyped ==
    ASSUME ChatInv, NEW c \in Callers, StampMessage(c)
    PROVE  /\ messages' \in Seq(Message) /\ Len(messages') = Len(messages) + 1
           /\ messages'[Len(messages) + 1] = call[c].message
           /\ \A i \in 1 .. Len(messages) : messages'[i] = messages[i]
           /\ stored' \subseteq 1 .. Len(messages')
<1>1. call[c].message \in Message
  BY Kinds DEF ChatInv, StampMessage, MessageCall
<1>2. messages \in Seq(Message) /\ stored \subseteq 1 .. Len(messages)
  BY DEF ChatInv, RowsOK
<1>3. messages' = Append(messages, call[c].message) /\ UNCHANGED stored
  BY DEF StampMessage
<1> QED BY <1>1, <1>2, <1>3

LEMMA ShowMessagesTyped ==
    ASSUME ChatInv, NEW c \in Callers, ShowMessages(c)
    PROVE  shown' \in [Users -> SUBSET MessageIds]
<1>1. call[c] \in ReadCall /\ call[c].viewedAt <= Len(messages)
  BY Kinds DEF ChatInv, ShowMessages, ReadsThePast, Reading
<1>2. call[c].user \in Users /\ call[c].viewedAt \in Nat
  BY <1>1 DEF ReadCall
<1>3. ASSUME NEW i \in Page(call[c].room, call[c].viewedAt)
      PROVE  messages[i].id \in MessageIds
  <2>1. i \in 1 .. Len(messages)
    BY DEF Page, InRoom, ChatInv, RowsOK
  <2>2. messages[i] \in Message
    BY <2>1 DEF ChatInv, RowsOK
  <2> QED BY <2>2 DEF Message
<1> QED BY <1>2, <1>3 DEF ShowMessages, UserOf, ChatInv, RowsOK

LEMMA MarkReadTyped ==
    ASSUME ChatInv, NEW c \in Callers, MarkRead(c)
    PROVE  lastRead' \in [Rooms -> [Users -> Nat]]
<1>1. call[c].user \in Users /\ call[c].room \in Rooms /\ call[c].viewedAt \in Nat
  BY Kinds DEF ChatInv, MarkRead, ReadCall
<1> QED BY <1>1 DEF MarkRead, ReadAt, UserOf, ChatInv, RowsOK

LEMMA StoreReportTyped ==
    ASSUME ChatInv, NEW c \in Callers, StoreReport(c)
    PROVE  /\ reports' \in [Users -> [Targets -> ReportStatus \cup {"absent"}]]
           /\ recentReports' \in [Users -> Nat]
<1>1. call[c].user \in Users /\ call[c].target \in Targets
  BY Kinds DEF ChatInv, StoreReport, ReportCall
<1>2. PICK u \in Users, x \in Targets : u = call[c].user /\ x = call[c].target
  BY <1>1
<1>3. \/ UNCHANGED <<reports, recentReports>>
      \/ /\ reports' = [reports EXCEPT ![u][x] = "RECEIVED"]
         /\ recentReports' = [recentReports EXCEPT ![u] = recentReports[u] + 1]
  BY <1>2 DEF StoreReport, UserOf, ChatInv, RowsOK
<1>4. reports \in [Users -> [Targets -> ReportStatus \cup {"absent"}]] /\ recentReports \in [Users -> Nat]
  BY DEF ChatInv, RowsOK
<1>5. "RECEIVED" \in ReportStatus \cup {"absent"}
  BY DEF ReportStatus
<1>6. [reports EXCEPT ![u][x] = "RECEIVED"] \in [Users -> [Targets -> ReportStatus \cup {"absent"}]]
  BY <1>4, <1>5
<1>7. [recentReports EXCEPT ![u] = recentReports[u] + 1] \in [Users -> Nat]
  BY <1>4
<1> QED BY <1>3, <1>4, <1>6, <1>7

LEMMA RowsTyped ==
    ASSUME ChatInv, ChatNext
    PROVE  RowsOK'
<1> USE DEF ChatInv
<1>1. ASSUME UNCHANGED <<rooms, messages, stored, lastRead, shown, acknowledged, blocks, reports, recentReports>>
      PROVE  RowsOK'
  BY <1>1 DEF RowsOK
<1>2. ASSUME NEW c \in Callers,
             \/ \E u \in Users, r \in Rooms : AskSend(c, u, r) \/ AskDetail(c, u, r)
             \/ \E u \in Users, x \in Targets : AskReport(c, u, x)
             \/ FindExisting(c) \/ EnterRoom(c) \/ Notify(c)
      PROVE  RowsOK'
  BY <1>1, <1>2 DEF AskSend, AskDetail, AskReport, FindExisting, EnterRoom, Notify, cvars
<1>3. ASSUME NEW c \in Callers, StampMessage(c) \/ StoreMessage(c)
      PROVE  RowsOK'
  <2>1. CASE StampMessage(c)
    BY <2>1, StampMessageTyped DEF RowsOK, StampMessage
  <2>2. CASE StoreMessage(c)
    <3>1. call[c].at \in 1 .. Len(messages)
      BY <2>2 DEF StoreMessage, Stamped
    <3> QED BY <2>2, <3>1 DEF RowsOK, StoreMessage
  <2> QED BY <1>3, <2>1, <2>2
<1>4. ASSUME NEW c \in Callers, Acknowledge(c)
      PROVE  RowsOK'
  <2>1. call[c].message \in Message
    BY <1>4, Kinds DEF Acknowledge, MessageCall
  <2> QED BY <1>4, <2>1 DEF RowsOK, Acknowledge
<1>5. ASSUME NEW c \in Callers, ShowMessages(c)
      PROVE  RowsOK'
  BY <1>5, ShowMessagesTyped DEF RowsOK, ShowMessages
<1>6. ASSUME NEW c \in Callers, MarkRead(c)
      PROVE  RowsOK'
  BY <1>6, MarkReadTyped DEF RowsOK, MarkRead
<1>7. ASSUME NEW c \in Callers, StoreReport(c)
      PROVE  RowsOK'
  BY <1>7, StoreReportTyped DEF RowsOK, StoreReport
<1>8. ASSUME NEW s \in Sockets,
             \/ Disconnect(s) \/ ListRooms(s) \/ JoinRooms(s)
             \/ \E u \in Users : Connect(s, u)
      PROVE  RowsOK'
  BY <1>1, <1>8 DEF Disconnect, ListRooms, JoinRooms, Connect
<1>9. ASSUME NEW u \in Users, MinutePasses(u)
      PROVE  RowsOK'
  BY <1>9 DEF MinutePasses, RowsOK
<1>10. ASSUME NEW u \in Users, NEW r \in Rooms, CreateRoom(u, r)
       PROVE  RowsOK'
  BY <1>10 DEF CreateRoom, RowsOK
<1>11. ASSUME NEW c \in Callers, NEW u \in Users, NEW v \in Users, Block(c, u, v) \/ Unblock(c, u, v)
       PROVE  RowsOK'
  <2>1. blocks' \subseteq blocks \cup {<<u, v>>}
    BY <1>11 DEF Block, Unblock
  <2>2. blocks' \subseteq Users \X Users
    BY <2>1 DEF RowsOK
  <2> QED BY <1>11, <2>2 DEF Block, Unblock, RowsOK
<1>12. ASSUME NEW u \in Users, NEW x \in Targets, ResolveReport(u, x)
       PROVE  RowsOK'
  BY <1>12 DEF ResolveReport, RowsOK, ReportStatus
<1>13. CASE ProcessEnds
  BY <1>1, <1>13 DEF ProcessEnds
<1> QED
  BY <1>2, <1>3, <1>4, <1>5, <1>6, <1>7, <1>8, <1>9, <1>10, <1>11, <1>12, <1>13 DEF ChatNext

LEMMA RunsTyped == NoRefresh \in Refresh /\ Started \in Refresh
BY DEF NoRefresh, Started, Refresh

\* A refresh that begins takes a free run.
LEMMA BegunIsRun ==
    ASSUME SocketsOK, NEW s \in Sockets, Free(s) # {}
    PROVE  \E i \in Refreshes : i \in Free(s) /\ Begun(s) = [refreshing[s] EXCEPT ![i] = Started]
BY DEF Free, Begun

LEMMA BegunTyped ==
    ASSUME SocketsOK, NEW s \in Sockets, Free(s) # {}
    PROVE  Begun(s) \in [Refreshes -> Refresh]
BY BegunIsRun, RunsTyped DEF SocketsOK

LEMMA RefreshedTyped ==
    ASSUME SocketsOK, NEW pair, Refreshed(pair)
    PROVE  SocketsOK'
BY BegunTyped DEF Refreshed, SocketsOK

LEMMA SocketStepsTyped ==
    ASSUME SocketsOK, rooms \subseteq Rooms, NEW s \in Sockets,
           \/ Disconnect(s) \/ ListRooms(s) \/ JoinRooms(s)
           \/ \E u \in Users : Connect(s, u)
    PROVE  SocketsOK'
<1>1. CASE Disconnect(s)
  BY <1>1, RunsTyped DEF Disconnect, SocketsOK
<1>2. CASE ListRooms(s)
  <2>1. PICK i \in Refreshes : refreshing' = [refreshing EXCEPT ![s][i] =
           [stage |-> "listed", rooms |->
              {r \in rooms : socketUser[s] \in Members(r) /\ ~Blocked(r)}]]
    BY <1>2 DEF ListRooms
  <2>2. PICK run : run = [stage |-> "listed", rooms |->
              {r \in rooms : socketUser[s] \in Members(r) /\ ~Blocked(r)}]
    OBVIOUS
  <2>3. run \in Refresh
    BY <2>2 DEF Refresh
  <2>4. refreshing' = [refreshing EXCEPT ![s][i] = run]
    BY <2>1, <2>2
  <2> QED BY <1>2, <2>3, <2>4 DEF ListRooms, SocketsOK
<1>3. CASE JoinRooms(s)
  <2>1. PICK i \in Refreshes :
           /\ joined' = [joined EXCEPT ![s] = With(s, refreshing[s][i].rooms)]
           /\ entered' = [entered EXCEPT ![s] = @ \cup refreshing[s][i].rooms]
           /\ refreshing' = [refreshing EXCEPT ![s][i] = NoRefresh]
           /\ UNCHANGED socketUser
    BY <1>3 DEF JoinRooms
  <2>2. refreshing[s][i].rooms \subseteq Rooms
    BY DEF SocketsOK, Refresh
  <2> QED BY <2>1, <2>2, RunsTyped DEF SocketsOK, With
<1>4. ASSUME NEW u \in Users, Connect(s, u)
      PROVE  SocketsOK'
  BY <1>4, BegunTyped DEF Connect, SocketsOK
<1> QED BY <1>1, <1>2, <1>3, <1>4

LEMMA SocketsTyped ==
    ASSUME ChatInv, ChatNext
    PROVE  SocketsOK'
<1> USE DEF ChatInv
<1>1. ASSUME UNCHANGED sockets
      PROVE  SocketsOK'
  BY <1>1 DEF SocketsOK, sockets
<1>2. ASSUME NEW c \in Callers,
             \/ \E u \in Users, r \in Rooms : AskSend(c, u, r) \/ AskDetail(c, u, r)
             \/ \E u \in Users, x \in Targets : AskReport(c, u, x)
             \/ \E u, v \in Users : Block(c, u, v) \/ Unblock(c, u, v)
             \/ StampMessage(c) \/ StoreMessage(c) \/ FindExisting(c) \/ Acknowledge(c)
             \/ ShowMessages(c) \/ MarkRead(c) \/ StoreReport(c)
      PROVE  SocketsOK'
  BY <1>1, <1>2 DEF AskSend, AskDetail, AskReport, Block, Unblock, StampMessage, StoreMessage,
                    FindExisting, Acknowledge, ShowMessages, MarkRead, StoreReport, cvars
<1>3. ASSUME NEW c \in Callers, EnterRoom(c)
      PROVE  SocketsOK'
  <2>1. call[c].room \in Rooms
    BY <1>3, Kinds DEF EnterRoom, ReadCall
  <2> QED BY <1>3, <2>1 DEF EnterRoom, SocketsOK
<1>4. ASSUME NEW u \in Users,
             \/ MinutePasses(u)
             \/ \E r \in Rooms : CreateRoom(u, r)
             \/ \E x \in Targets : ResolveReport(u, x)
      PROVE  SocketsOK'
  BY <1>1, <1>4 DEF MinutePasses, CreateRoom, ResolveReport
<1>5. ASSUME NEW c \in Callers, Notify(c)
      PROVE  SocketsOK'
  BY <1>5, RefreshedTyped DEF Notify
<1>6. CASE ProcessEnds
  BY <1>6, RunsTyped DEF ProcessEnds, SocketsOK
<1> QED
  BY <1>2, <1>3, <1>4, <1>5, <1>6, SocketStepsTyped DEF ChatNext, RowsOK

-----------------------------------------------------------------------------
(* The other requests.  Elsewhere(steps): no request comes to one of these *)
(* steps, and those that are there keep what they know.                    *)
Elsewhere(steps) ==
    \A c \in Callers :
        call'[c] = call[c] \/ call'[c] = NoCall \/ call'[c].step \notin steps

LEMMA BeginsElsewhere ==
    ASSUME CallsOK, NEW c \in Callers, NEW r, Begins(c, r), NEW steps, r.step \notin steps
    PROVE  Elsewhere(steps)
BY DEF CallsOK, Begins, Elsewhere

LEMMA GoesElsewhere ==
    ASSUME CallsOK, NEW c \in Callers, NEW old, NEW new, <<old, new>> \in Advance,
           At(c, old), Goes(c, new), NEW steps, new \notin steps
    PROVE  Elsewhere(steps)
<1>1. PICK r : r.step = new /\ call' = [call EXCEPT ![c] = r]
  BY GoesOn
<1> QED BY <1>1 DEF CallsOK, Elsewhere

LEMMA EndsElsewhere ==
    ASSUME CallsOK, NEW c \in Callers, Ends(c), NEW steps
    PROVE  Elsewhere(steps)
BY DEF CallsOK, Ends, Elsewhere

LEMMA UnchangedElsewhere ==
    ASSUME UNCHANGED call, NEW steps
    PROVE  Elsewhere(steps)
BY DEF Elsewhere

LEMMA StampElsewhere ==
    ASSUME CallsOK, messages \in Seq(Message), NEW c \in Callers, StampMessage(c),
           NEW steps, "insert" \notin steps
    PROVE  Elsewhere(steps)
BY Stamps DEF CallsOK, Elsewhere

LEMMA ProcessEndsElsewhere ==
    ASSUME ProcessEnds, NEW steps
    PROVE  Elsewhere(steps)
BY DEF ProcessEnds, Elsewhere

AccountSteps == {"count", "delete", "create", "guess", "apply", "look", "fail", "clear", "open", "withdraw"}
ChatSteps == {"store", "insert", "answer", "show", "mark", "enter", "notify", "report"}

LEMMA AccountsElsewhere ==
    ASSUME CallsOK, AccountsNext
    PROVE  Elsewhere(ChatSteps)
<1>0. ASSUME NEW c \in Callers, NEW r, Begins(c, r), r.step \in AccountSteps
      PROVE  Elsewhere(ChatSteps)
  <2>1. r.step \notin ChatSteps
    BY <1>0 DEF AccountSteps, ChatSteps
  <2> QED BY <1>0, <2>1, BeginsElsewhere
<1>1. ASSUME NEW c \in Callers, NEW u \in Users,
             \/ SignUp(c, u) \/ AskCode(c, u) \/ Login(c, u)
             \/ AskWithdraw(c, u) \/ \E purpose \in Purpose : ReadCode(c, u, purpose)
      PROVE  Elsewhere(ChatSteps)
  BY <1>0, <1>1
  DEF SignUp, AskCode, Login, AskWithdraw, ReadCode, AccountSteps
<1>2. ASSUME NEW c \in Callers,
             \/ CreateCode(c) \/ GuessWrong(c) \/ ConfirmContact(c) \/ ResetPassword(c)
             \/ RecordFailure(c) \/ OpenSession(c) \/ Withdraw(c) \/ CallLost(c)
      PROVE  Elsewhere(ChatSteps)
  BY <1>2, EndsElsewhere
  DEF CreateCode, GuessWrong, ConfirmContact, ResetPassword, RecordFailure, OpenSession,
      Withdraw, CallLost
<1>3. ASSUME NEW c \in Callers,
             \/ CountCodes(c) \/ DeleteCodes(c) \/ GuessRight(c) \/ PasswordRight(c)
             \/ PasswordWrong(c) \/ ClearThrottle(c)
      PROVE  Elsewhere(ChatSteps)
  <2>1. CASE CountCodes(c)
    BY <2>1, GoesElsewhere, EndsElsewhere DEF CountCodes, ChatSteps, Advance
  <2>2. CASE DeleteCodes(c)
    BY <2>2, GoesElsewhere DEF DeleteCodes, ChatSteps, Advance
  <2>3. CASE GuessRight(c)
    BY <2>3, GoesElsewhere DEF GuessRight, ChatSteps, Advance
  <2>4. CASE ClearThrottle(c)
    BY <2>4, GoesElsewhere DEF ClearThrottle, ChatSteps, Advance
  <2>5. CASE PasswordRight(c)
    BY <2>5, GoesElsewhere DEF PasswordRight, ChatSteps, Advance
  <2>6. CASE PasswordWrong(c)
    BY <2>6, GoesElsewhere DEF PasswordWrong, ChatSteps, Advance
  <2> QED BY <1>3, <2>1, <2>2, <2>3, <2>4, <2>5, <2>6
<1>4. ASSUME NEW u \in Users,
             CodesExpire(u) \/ WindowEnds(u) \/ LockEnds(u) \/ Suspend(u) \/ Reinstate(u)
      PROVE  Elsewhere(ChatSteps)
  BY <1>4, UnchangedElsewhere DEF CodesExpire, WindowEnds, LockEnds, Suspend, Reinstate
<1>5. ASSUME NEW t \in Tokens, Logout(t)
      PROVE  Elsewhere(ChatSteps)
  BY <1>5, UnchangedElsewhere DEF Logout
<1> QED BY <1>1, <1>2, <1>3, <1>4, <1>5 DEF AccountsNext

LEMMA ChatElsewhere ==
    ASSUME CallsOK, messages \in Seq(Message), ChatNext
    PROVE  Elsewhere(AccountSteps)
<1>0. ASSUME NEW c \in Callers, NEW r, Begins(c, r), r.step \in ChatSteps
      PROVE  Elsewhere(AccountSteps)
  <2>1. r.step \notin AccountSteps
    BY <1>0 DEF AccountSteps, ChatSteps
  <2> QED BY <1>0, <2>1, BeginsElsewhere
<1>1. ASSUME NEW c \in Callers, NEW u \in Users, NEW r \in Rooms, AskSend(c, u, r) \/ AskDetail(c, u, r)
      PROVE  Elsewhere(AccountSteps)
  BY <1>0, <1>1 DEF AskSend, AskDetail, ChatSteps
<1>2. ASSUME NEW c \in Callers, NEW u \in Users,
             \/ \E x \in Targets : AskReport(c, u, x)
             \/ \E v \in Users : Block(c, u, v) \/ Unblock(c, u, v)
      PROVE  Elsewhere(AccountSteps)
  BY <1>0, <1>2 DEF AskReport, Block, Unblock, ChatSteps
<1>3. ASSUME NEW c \in Callers,
             \/ StampMessage(c) \/ StoreMessage(c) \/ FindExisting(c) \/ Acknowledge(c)
             \/ ShowMessages(c) \/ MarkRead(c) \/ EnterRoom(c) \/ Notify(c) \/ StoreReport(c)
      PROVE  Elsewhere(AccountSteps)
  <2>1. CASE StoreMessage(c)
    BY <2>1, GoesElsewhere DEF StoreMessage, AccountSteps, Advance
  <2>2. CASE FindExisting(c)
    BY <2>2, GoesElsewhere, EndsElsewhere DEF FindExisting, AccountSteps, Advance
  <2>3. CASE ShowMessages(c)
    BY <2>3, GoesElsewhere DEF ShowMessages, AccountSteps, Advance
  <2>4. CASE MarkRead(c)
    BY <2>4, GoesElsewhere, EndsElsewhere DEF MarkRead, AccountSteps, Advance
  <2>5. CASE Acknowledge(c) \/ EnterRoom(c) \/ Notify(c) \/ StoreReport(c)
    BY <2>5, EndsElsewhere DEF Acknowledge, EnterRoom, Notify, StoreReport
  <2>6. CASE StampMessage(c)
    BY <2>6, StampElsewhere DEF AccountSteps
  <2> QED BY <1>3, <2>1, <2>2, <2>3, <2>4, <2>5, <2>6
<1>4. ASSUME NEW s \in Sockets,
             \/ Disconnect(s) \/ ListRooms(s) \/ JoinRooms(s)
             \/ \E u \in Users : Connect(s, u)
      PROVE  Elsewhere(AccountSteps)
  BY <1>4, UnchangedElsewhere DEF Disconnect, ListRooms, JoinRooms, Connect
<1>5. ASSUME NEW u \in Users,
             \/ MinutePasses(u)
             \/ \E r \in Rooms : CreateRoom(u, r)
             \/ \E x \in Targets : ResolveReport(u, x)
      PROVE  Elsewhere(AccountSteps)
  BY <1>5, UnchangedElsewhere DEF MinutePasses, CreateRoom, ResolveReport
<1> QED BY <1>1, <1>2, <1>3, <1>4, <1>5, ProcessEndsElsewhere DEF ChatNext

\* Accounts leave the requests of the chat alone.
LEMMA AccountsLeaveTimes ==
    ASSUME CallsOK, ReadsThePast, Stamped, AccountsNext, UNCHANGED <<rooms, messages>>
    PROVE  ReadsThePast' /\ Stamped'
BY AccountsElsewhere DEF Elsewhere, ChatSteps, ReadsThePast, Stamped, Reading, At

LEMMA ChatTimes ==
    ASSUME ChatInv, ChatNext
    PROVE  ReadsThePast' /\ Stamped'
<1> USE DEF ChatInv
<1> DEFINE Goal == ReadsThePast' /\ Stamped'
           Reads == {"show", "mark", "enter"}
           Steps == {"insert", "show", "mark", "enter"}
<1>0. ASSUME Elsewhere({"insert"}), UNCHANGED messages
      PROVE  Stamped'
  BY <1>0 DEF Elsewhere, Stamped, At
<1>1. ASSUME Elsewhere(Steps), rooms \subseteq rooms', UNCHANGED messages
      PROVE  Goal
  BY <1>1 DEF Elsewhere, ReadsThePast, Stamped, Reading, At
<1>2. ASSUME NEW c \in Callers, NEW u \in Users, NEW r \in Rooms, AskSend(c, u, r)
      PROVE  Goal
  BY <1>1, <1>2, BeginsElsewhere DEF AskSend, cvars
<1>3. ASSUME NEW c \in Callers, NEW u \in Users,
             \/ \E x \in Targets : AskReport(c, u, x)
             \/ \E v \in Users : Block(c, u, v) \/ Unblock(c, u, v)
      PROVE  Goal
  <2>1. ASSUME NEW q, Begins(c, q), q.step \in {"report", "notify"}
        PROVE  Elsewhere(Steps)
    <3>1. q.step \notin Steps
      BY <2>1
    <3> QED BY <2>1, <3>1, BeginsElsewhere
  <2>2. Elsewhere(Steps)
    BY <1>3, <2>1 DEF AskReport, Block, Unblock
  <2>3. UNCHANGED <<rooms, messages>>
    BY <1>3 DEF AskReport, Block, Unblock, cvars
  <2> QED BY <1>1, <2>2, <2>3
<1>4. ASSUME NEW c \in Callers, NEW u \in Users, NEW r \in Rooms, AskDetail(c, u, r)
      PROVE  Goal
  <2>1. PICK command \in {"read", "enter"} :
           Begins(c, [step |-> "show", user |-> u, room |-> r, viewedAt |-> Len(messages),
                      command |-> command])
    BY <1>4 DEF AskDetail
  <2>2. UNCHANGED <<rooms, messages>> /\ r \in rooms
    BY <1>4 DEF AskDetail, cvars, Access
  <2>3. PICK q : q = [step |-> "show", user |-> u, room |-> r, viewedAt |-> Len(messages),
                      command |-> command]
    OBVIOUS
  <2>4. call' = [call EXCEPT ![c] = q] /\ q.room = r /\ q.viewedAt = Len(messages)
    BY <2>1, <2>3 DEF Begins
  <2>5. Len(messages) \in Nat
    BY DEF RowsOK
  <2>6. Stamped'
    BY <1>0, <2>1, <2>2, BeginsElsewhere
  <2> QED BY <2>2, <2>4, <2>5, <2>6 DEF ReadsThePast, Reading, At, CallsOK
<1>5. ASSUME NEW c \in Callers, StampMessage(c)
      PROVE  Goal
  <2>1. Elsewhere(Reads)
    BY <1>5, StampElsewhere DEF RowsOK
  <2>2. \A d \in Callers : Reading(d)' => Reading(d) /\ call'[d] = call[d]
    BY <2>1 DEF Elsewhere, Reading, At
  <2>3. messages' \in Seq(Message) /\ Len(messages') = Len(messages) + 1
    BY <1>5, StampMessageTyped
  <2>4. ReadsThePast'
    <3>1. messages \in Seq(Message) /\ Len(messages) <= Len(messages)'
      BY <2>3 DEF RowsOK
    <3>2. rooms \subseteq rooms'
      BY <1>5 DEF StampMessage
    <3> QED BY <2>2, <2>3, <3>1, <3>2, ReadsStay
  <2>5. PICK r : /\ r.at = Len(messages) + 1 /\ r.message = call[c].message
                 /\ call' = [call EXCEPT ![c] = r]
    BY <1>5, Stamps DEF RowsOK
  <2>6. /\ Len(messages') = Len(messages) + 1 /\ Len(messages) \in Nat
        /\ messages'[Len(messages) + 1] = call[c].message
        /\ \A i \in 1 .. Len(messages) : messages'[i] = messages[i]
    BY <1>5, StampMessageTyped DEF RowsOK
  <2>7. ASSUME NEW d \in Callers, At(d, "insert")'
        PROVE  call'[d].at \in 1 .. Len(messages') /\ messages'[call'[d].at] = call'[d].message
    <3>1. CASE d = c
      BY <2>5, <2>6, <3>1 DEF CallsOK
    <3>2. CASE d # c
      <4>1. call'[d] = call[d] /\ At(d, "insert")
        BY <2>5, <2>7, <3>2 DEF CallsOK, At
      <4> QED BY <2>6, <4>1 DEF Stamped
    <3> QED BY <3>1, <3>2
  <2> QED BY <2>4, <2>7 DEF Stamped
<1>6. ASSUME NEW c \in Callers,
             \/ StoreMessage(c) \/ FindExisting(c) \/ Acknowledge(c) \/ EnterRoom(c) \/ Notify(c)
             \/ StoreReport(c)
      PROVE  Goal
  <2>1. Elsewhere(Steps)
    BY <1>6, GoesElsewhere, EndsElsewhere
    DEF StoreMessage, FindExisting, Acknowledge, EnterRoom, Notify, StoreReport, Advance
  <2>2. UNCHANGED <<rooms, messages>>
    BY <1>6 DEF StoreMessage, FindExisting, Acknowledge, EnterRoom, Notify, StoreReport, cvars
  <2> QED BY <1>1, <2>1, <2>2
<1>7. ASSUME NEW c \in Callers, NEW old \in {"show", "mark"}, NEW new \in {"mark", "enter"},
             <<old, new>> \in Advance, At(c, old), Goes(c, new), UNCHANGED <<rooms, messages>>
      PROVE  Goal
  <2>1. PICK r \in Requests : /\ r.room = call[c].room /\ r.viewedAt = call[c].viewedAt
                              /\ call' = [call EXCEPT ![c] = r]
    BY <1>7, GoesOn
  <2>2. Reading(c)
    BY <1>7 DEF Reading
  <2>3. Elsewhere({"insert"})
    BY <1>7, GoesElsewhere
  <2>4. ReadsThePast'
    BY <1>7, <2>1, <2>2 DEF ReadsThePast, Reading, At, CallsOK
  <2> QED BY <1>0, <1>7, <2>3, <2>4
<1>8. ASSUME NEW c \in Callers, ShowMessages(c) \/ MarkRead(c)
      PROVE  Goal
  BY <1>1, <1>7, <1>8, EndsElsewhere DEF ShowMessages, MarkRead, Advance
<1>9. ASSUME NEW s \in Sockets,
             \/ Disconnect(s) \/ ListRooms(s) \/ JoinRooms(s)
             \/ \E u \in Users : Connect(s, u)
      PROVE  Goal
  BY <1>1, <1>9, UnchangedElsewhere DEF Disconnect, ListRooms, JoinRooms, Connect
<1>10. ASSUME NEW u \in Users,
              \/ MinutePasses(u)
              \/ \E r \in Rooms : CreateRoom(u, r)
              \/ \E x \in Targets : ResolveReport(u, x)
       PROVE  Goal
  BY <1>1, <1>10, UnchangedElsewhere DEF MinutePasses, CreateRoom, ResolveReport
<1>11. CASE ProcessEnds
  BY <1>1, <1>11, ProcessEndsElsewhere DEF ProcessEnds
<1> QED
  BY <1>2, <1>3, <1>4, <1>5, <1>6, <1>8, <1>9, <1>10, <1>11 DEF ChatNext

-----------------------------------------------------------------------------
(* Together.                                                               *)
TypeStrong == AccountsInv /\ ChatInv

LEMMA TypeParts == TypeStrong => TypeOK
BY TypedCalls DEF TypeStrong, AccountsInv, AccountsOK, ChatInv, RowsOK, SocketsOK, TypeOK, ChatTypeOK

LEMMA InitTyped == Init => TypeStrong
<1> SUFFICES ASSUME Init PROVE TypeStrong
  OBVIOUS
<1> USE DEF Init, AccountsInit, ChatInit
<1>1. AccountsTypeOK
  <2>1. NoThrottle \in Throttle
    BY AccountsAssumption DEF NoThrottle, Throttle
  <2>2. session \in [Tokens -> Session]
    BY DEF Session
  <2>3. counted \in [Users -> [Counts -> Nat]]
    BY NewWindowTyped
  <2> QED BY <2>1, <2>2, <2>3, NoCodeTyped DEF AccountsTypeOK, UserStatus
<1>2. LockedAtLimit
  BY AccountsAssumption DEF LockedAtLimit, NoThrottle
<1>3. CallsOK /\ FailsBelowLimit /\ ReadsThePast /\ Stamped
  BY DEF CallsOK, FailsBelowLimit, ReadsThePast, Stamped, Reading, At
<1>4. RowsOK
  BY DEF RowsOK
<1>5. SocketsOK
  BY RunsTyped DEF SocketsOK
<1> QED BY <1>1, <1>2, <1>3, <1>4, <1>5 DEF TypeStrong, AccountsInv, AccountsOK, ChatInv

LEMMA NextTyped == TypeStrong /\ [Next]_vars => TypeStrong'
<1> SUFFICES ASSUME TypeStrong, [Next]_vars PROVE TypeStrong'
  OBVIOUS
<1> USE DEF TypeStrong
<1>1. CASE AccountsNext /\ UNCHANGED cvars
  <2>1. AccountsInv'
    BY <1>1, AccountsTyped
  <2>2. RowsOK' /\ SocketsOK'
    BY <1>1 DEF ChatInv, RowsOK, SocketsOK, cvars, sockets
  <2>3. ReadsThePast' /\ Stamped'
    BY <1>1, AccountsLeaveTimes DEF ChatInv, cvars
  <2> QED BY <2>1, <2>2, <2>3 DEF AccountsInv, ChatInv
<1>2. CASE ChatNext /\ UNCHANGED avars
  <2>1. AccountsOK'
    BY <1>2 DEF AccountsInv, AccountsOK, AccountsTypeOK, LockedAtLimit, avars
  <2> QED
    BY <1>2, <2>1, ChatCallsTyped, RowsTyped, SocketsTyped, ChatTimes DEF AccountsInv, ChatInv
<1>3. CASE UNCHANGED vars
  BY <1>3 DEF vars, avars, cvars, sockets, AccountsInv, AccountsOK, AccountsTypeOK, LockedAtLimit,
              ChatInv, RowsOK, SocketsOK, CallsOK, FailsBelowLimit, ReadsThePast, Stamped, Reading, At
<1> QED BY <1>1, <1>2, <1>3 DEF Next

LEMMA TypeAlways == Spec => []TypeStrong
BY InitTyped, NextTyped, PTL DEF Spec

-----------------------------------------------------------------------------
(* Every variable of the community keeps its type, whatever requests are   *)
(* in flight; the counter of failed logins stays within the limit because  *)
(* a failure is only counted when the row it was read from was below it.   *)
THEOREM CommunityTypeCorrect == Spec => []TypeOK
BY TypeAlways, TypeParts, PTL

=============================================================================
