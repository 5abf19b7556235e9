-------------------------- MODULE CommunityProofs --------------------------
(***************************************************************************)
(* Messages, reading times, subscriptions, failed logins and limits of the *)
(* community, for any users, rooms, codes, sockets and requests in flight. *)
(*                                                                         *)
(* All of them are about requests that check or read in one statement and  *)
(* write in a later one.  The invariant of each says what the request may  *)
(* still rely on when it writes.  For the limits it counts a request from  *)
(* its check on: what is used up, and the requests about to use up more,   *)
(* stay together within the bound.  Messages that a reading time covers    *)
(* before they are committed, and failures that a stale count loses, are   *)
(* bounded in the same way, by the requests that can still commit one.     *)
(***************************************************************************)
EXTENDS CommunityTypeProofs

-----------------------------------------------------------------------------
(* Limits that are checked in one statement and used up in a later one.    *)
(* What is used up, and the requests that are about to use up more, are    *)
(* together within the bound: a request is counted from the check on.      *)
N == Cardinality(Callers)
InFlight(kind) == {c \in Callers : call[c] # NoCall /\ call[c] \in kind}

Guessing(k) == [step: {"guess"}, user: Users, purpose: Purpose, id: {k}]
Creating(u, purpose) == [step: {"create"}, user: {u}, purpose: {purpose}]
Opening(u) == [step: {"clear", "open"}, user: {u}, seen: Throttle]
Reporting(u) == [step: {"report"}, user: {u}, target: Targets]

GuessInv ==
    \A k \in Codes :
        codes[k].attempts + Cardinality(InFlight(Guessing(k))) <= LockAfterFailures + N - 1

CodeInv ==
    \A u \in Users, purpose \in Purpose :
        /\ IsFiniteSet(UnusedCodes(u, purpose))
        /\ Cardinality(UnusedCodes(u, purpose)) + Cardinality(InFlight(Creating(u, purpose))) <= N

SessionInv ==
    \A u \in Users : Closed(u) =>
        /\ IsFiniteSet(OpenSessions(u))
        /\ Cardinality(OpenSessions(u)) + Cardinality(InFlight(Opening(u))) <= N

ReportInv ==
    \A u \in Users :
        recentReports[u] + Cardinality(InFlight(Reporting(u))) <= ReportLimit + N - 1

\* Sets of callers, and how they grow and shrink.
LEMMA CallersCount ==
    ASSUME NEW S \in SUBSET Callers
    PROVE  /\ IsFiniteSet(S) /\ Cardinality(S) \in Nat /\ Cardinality(S) <= N
           /\ N \in Nat \ {0}
<1>1. IsFiniteSet(Callers) /\ Callers # {}
  BY AccountsAssumption
<1>2. N \in Nat /\ N # 0
  BY <1>1, FS_CardinalityType, FS_EmptySet DEF N
<1> QED BY <1>1, <1>2, FS_Subset, FS_CardinalityType DEF N

LEMMA FewerCallers ==
    ASSUME NEW S \in SUBSET Callers, NEW T \in SUBSET S
    PROVE  Cardinality(T) <= Cardinality(S)
BY CallersCount, FS_Subset

LEMMA OneCallerLess ==
    ASSUME NEW S \in SUBSET Callers, NEW c \in S, NEW T \in SUBSET S, c \notin T
    PROVE  Cardinality(T) + 1 <= Cardinality(S)
<1>1. IsFiniteSet(S) /\ Cardinality(S) \in Nat
  BY CallersCount
<1>2. IsFiniteSet(S \ {c}) /\ Cardinality(S \ {c}) = Cardinality(S) - 1
  BY <1>1, FS_RemoveElement
<1>3. T \in SUBSET (S \ {c}) /\ S \ {c} \in SUBSET Callers
  OBVIOUS
<1>4. Cardinality(T) <= Cardinality(S \ {c}) /\ Cardinality(T) \in Nat
  BY <1>3, FewerCallers, CallersCount
<1> QED BY <1>1, <1>2, <1>4

\* A set with one more element has at most one more.
LEMMA OneMore ==
    ASSUME NEW S, IsFiniteSet(S), NEW x, NEW T \in SUBSET (S \cup {x})
    PROVE  IsFiniteSet(T) /\ Cardinality(T) <= Cardinality(S) + 1
<1>1. IsFiniteSet(S \cup {x}) /\ Cardinality(S) \in Nat
  BY FS_AddElement, FS_CardinalityType
<1>2. Cardinality(S \cup {x}) = IF x \in S THEN Cardinality(S) ELSE Cardinality(S) + 1
  BY FS_AddElement
<1>3. IsFiniteSet(T) /\ Cardinality(T) <= Cardinality(S \cup {x})
  BY <1>1, FS_Subset
<1> QED BY <1>1, <1>2, <1>3, FS_CardinalityType

LEMMA InFlightCallers == ASSUME NEW kind PROVE InFlight(kind) \in SUBSET Callers /\ InFlight(kind)' \in SUBSET Callers
BY DEF InFlight

\* No request becomes one of a kind that no step leads to.
LEMMA NoneMore ==
    ASSUME NEW steps, Elsewhere(steps), NEW kind, \A r \in kind : r.step \in steps
    PROVE  /\ InFlight(kind)' \subseteq InFlight(kind)
           /\ Cardinality(InFlight(kind)') <= Cardinality(InFlight(kind))
<1>1. InFlight(kind)' \subseteq InFlight(kind)
  BY DEF Elsewhere, InFlight
<1> QED BY <1>1, InFlightCallers, FewerCallers

LEMMA OneLess ==
    ASSUME NEW steps, Elsewhere(steps), NEW kind, \A r \in kind : r.step \in steps,
           NEW c \in Callers, call[c] # NoCall, call[c] \in kind,
           call'[c] = NoCall \/ call'[c] \notin kind
    PROVE  Cardinality(InFlight(kind)') + 1 <= Cardinality(InFlight(kind))
<1>1. InFlight(kind)' \subseteq InFlight(kind)
  BY NoneMore
<1>2. c \in InFlight(kind) /\ c \notin InFlight(kind)'
  BY DEF InFlight
<1> QED BY <1>1, <1>2, InFlightCallers, OneCallerLess

\* A request that begins is one of its own kind only.
LEMMA NoneMoreBegins ==
    ASSUME CallsOK, NEW c \in Callers, NEW r, Begins(c, r), NEW kind, r \notin kind
    PROVE  Cardinality(InFlight(kind)') <= Cardinality(InFlight(kind))
<1>1. InFlight(kind)' \subseteq InFlight(kind)
  BY DEF CallsOK, Begins, InFlight
<1> QED BY <1>1, InFlightCallers, FewerCallers

-----------------------------------------------------------------------------
(* Send: the message of a request that is about to be answered is stored.  *)
SendInv ==
    /\ \A c \in Callers : At(c, "answer") => call[c].message \in Stored
    /\ AcknowledgedIsStored

LEMMA SendElsewhere ==
    ASSUME SendInv, Elsewhere({"answer"}), Stored \subseteq Stored', UNCHANGED acknowledged
    PROVE  SendInv'
BY DEF SendInv, Elsewhere, At, AcknowledgedIsStored

LEMMA StoreMessageKeepsSend ==
    ASSUME TypeStrong, SendInv, NEW c \in Callers, StoreMessage(c)
    PROVE  SendInv'
<1>1. /\ At(c, "insert") /\ Goes(c, "answer") /\ UNCHANGED <<messages, acknowledged>>
      /\ stored' = stored \cup {call[c].at}
  BY DEF StoreMessage
<1>2. CallsOK /\ messages[call[c].at] = call[c].message
  BY <1>1 DEF TypeStrong, ChatInv, Stamped
<1>3. Stored \subseteq Stored' /\ call[c].message \in Stored'
  BY <1>1, <1>2 DEF Stored
<1>4. /\ \A d \in Callers \ {c} : call'[d] = call[d]
      /\ call'[c].message = call[c].message
  <2>1. call' = [call EXCEPT ![c] = [call[c] EXCEPT !.step = "answer"]]
    BY <1>1, <1>2 DEF Goes, CallsOK
  <2>2. call[c] \in MessageCall
    BY <1>1, <1>2, Kinds
  <2>3. [call[c] EXCEPT !.step = "answer"].message = call[c].message
    BY <2>2 DEF MessageCall
  <2> QED BY <1>2, <2>1, <2>3 DEF CallsOK
<1> QED BY <1>1, <1>3, <1>4 DEF SendInv, At, AcknowledgedIsStored

LEMMA FindExistingKeepsSend ==
    ASSUME TypeStrong, SendInv, NEW c \in Callers, FindExisting(c)
    PROVE  SendInv'
<1>1. At(c, "insert") /\ UNCHANGED <<messages, stored, acknowledged>>
  BY DEF FindExisting, cvars
<1>2. CallsOK
  BY DEF TypeStrong, ChatInv
<1>3. CASE \E m \in Stored : Same(m, call[c].message)
  <2>1. Goes(c, "answer") /\ call[c].message \in Stored
    BY <1>3 DEF FindExisting, Same
  <2>2. call' = [call EXCEPT ![c] = [call[c] EXCEPT !.step = "answer"]]
    BY <1>2, <2>1 DEF Goes, CallsOK
  <2>3. call[c] \in MessageCall
    BY <1>1, <1>2, Kinds
  <2>4. [call[c] EXCEPT !.step = "answer"].message = call[c].message
    BY <2>3 DEF MessageCall
  <2>5. /\ \A d \in Callers \ {c} : call'[d] = call[d]
        /\ call'[c].message = call[c].message
    BY <1>2, <2>2, <2>4 DEF CallsOK
  <2> QED BY <1>1, <2>1, <2>5 DEF SendInv, At, Stored, AcknowledgedIsStored
<1>4. CASE ~ \E m \in Stored : Same(m, call[c].message)
  BY <1>1, <1>2, <1>4, EndsElsewhere, SendElsewhere DEF FindExisting, Stored
<1> QED BY <1>3, <1>4

LEMMA AcknowledgeKeepsSend ==
    ASSUME TypeStrong, SendInv, NEW c \in Callers, Acknowledge(c)
    PROVE  SendInv'
<1>1. /\ At(c, "answer") /\ Ends(c) /\ UNCHANGED <<messages, stored>>
      /\ acknowledged' = acknowledged \cup {call[c].message}
  BY DEF Acknowledge
<1>2. Elsewhere({"answer"})
  BY <1>1, EndsElsewhere DEF TypeStrong, ChatInv
<1> QED BY <1>1, <1>2 DEF SendInv, Elsewhere, At, Stored, AcknowledgedIsStored

LEMMA StampMessageKeepsSend ==
    ASSUME TypeStrong, SendInv, NEW c \in Callers, StampMessage(c)
    PROVE  SendInv'
<1>1. Elsewhere({"answer"}) /\ UNCHANGED <<stored, acknowledged>>
  BY StampElsewhere DEF StampMessage, TypeStrong, ChatInv, RowsOK
<1>2. stored \subseteq 1 .. Len(messages)
  BY DEF TypeStrong, ChatInv, RowsOK
<1>3. \A i \in stored : messages'[i] = messages[i]
  BY <1>2, StampMessageTyped DEF TypeStrong
<1>4. Stored \subseteq Stored'
  BY <1>1, <1>3 DEF Stored
<1> QED BY <1>1, <1>4, SendElsewhere

\* The rest of the chat leaves messages and acknowledgements alone.
LEMMA ChatLeavesSends ==
    ASSUME CallsOK, ChatNext,
           ~ \E c \in Callers :
                StampMessage(c) \/ StoreMessage(c) \/ FindExisting(c) \/ Acknowledge(c)
    PROVE  Elsewhere({"answer"}) /\ UNCHANGED <<messages, stored, acknowledged>>
<1> DEFINE Goal == Elsewhere({"answer"}) /\ UNCHANGED <<messages, stored, acknowledged>>
<1>1. ASSUME NEW c \in Callers, NEW u \in Users, NEW r \in Rooms, AskSend(c, u, r) \/ AskDetail(c, u, r)
      PROVE  Goal
  <2>1. UNCHANGED cvars
    BY <1>1 DEF AskSend, AskDetail
  <2>2. CASE AskSend(c, u, r)
    BY <2>1, <2>2, BeginsElsewhere DEF AskSend, cvars
  <2>3. CASE AskDetail(c, u, r)
    BY <2>1, <2>3, BeginsElsewhere DEF AskDetail, cvars
  <2> QED BY <1>1, <2>2, <2>3
<1>2. ASSUME NEW c \in Callers, NEW u \in Users,
             \/ \E x \in Targets : AskReport(c, u, x)
             \/ \E v \in Users : Block(c, u, v) \/ Unblock(c, u, v)
      PROVE  Goal
  <2>1. ASSUME NEW q, Begins(c, q), q.step \in {"report", "notify"}
        PROVE  Elsewhere({"answer"})
    <3>1. q.step \notin {"answer"}
      BY <2>1
    <3> QED BY <2>1, <3>1, BeginsElsewhere
  <2>2. Elsewhere({"answer"})
    BY <1>2, <2>1 DEF AskReport, Block, Unblock
  <2>3. UNCHANGED <<messages, stored, acknowledged>>
    BY <1>2 DEF AskReport, Block, Unblock, cvars
  <2> QED BY <2>2, <2>3
<1>3. ASSUME NEW c \in Callers, ShowMessages(c)
      PROVE  Goal
  BY <1>3, GoesElsewhere DEF ShowMessages, Advance
<1>4. ASSUME NEW c \in Callers, MarkRead(c)
      PROVE  Goal
  BY <1>4, GoesElsewhere, EndsElsewhere DEF MarkRead, Advance
<1>5. ASSUME NEW c \in Callers, EnterRoom(c) \/ Notify(c) \/ StoreReport(c)
      PROVE  Goal
  BY <1>5, EndsElsewhere DEF EnterRoom, Notify, StoreReport
<1>6. ASSUME NEW s \in Sockets,
             \/ Disconnect(s) \/ ListRooms(s) \/ JoinRooms(s)
             \/ \E u \in Users : Connect(s, u)
      PROVE  Goal
  BY <1>6, UnchangedElsewhere DEF Disconnect, ListRooms, JoinRooms, Connect
<1>7. ASSUME NEW u \in Users,
             \/ MinutePasses(u)
             \/ \E r \in Rooms : CreateRoom(u, r)
             \/ \E x \in Targets : ResolveReport(u, x)
      PROVE  Goal
  BY <1>7, UnchangedElsewhere DEF MinutePasses, CreateRoom, ResolveReport
<1>8. CASE ProcessEnds
  BY <1>8, ProcessEndsElsewhere DEF ProcessEnds
<1> QED BY <1>1, <1>2, <1>3, <1>4, <1>5, <1>6, <1>7, <1>8 DEF ChatNext

LEMMA NextKeepsSend == TypeStrong /\ SendInv /\ [Next]_vars => SendInv'
<1> SUFFICES ASSUME TypeStrong, SendInv, [Next]_vars PROVE SendInv'
  OBVIOUS
<1>1. CallsOK
  BY DEF TypeStrong, ChatInv
<1>2. CASE AccountsNext /\ UNCHANGED cvars
  <2>1. Elsewhere({"answer"})
    BY <1>1, <1>2, AccountsElsewhere DEF Elsewhere, ChatSteps
  <2> QED BY <1>2, <2>1, SendElsewhere DEF cvars, Stored
<1>3. CASE ChatNext
  <2>1. CASE \E c \in Callers :
                StampMessage(c) \/ StoreMessage(c) \/ FindExisting(c) \/ Acknowledge(c)
    BY <2>1, StampMessageKeepsSend, StoreMessageKeepsSend, FindExistingKeepsSend,
       AcknowledgeKeepsSend
  <2>2. CASE ~ \E c \in Callers :
                StampMessage(c) \/ StoreMessage(c) \/ FindExisting(c) \/ Acknowledge(c)
    BY <1>1, <1>3, <2>2, ChatLeavesSends, SendElsewhere DEF Stored
  <2> QED BY <2>1, <2>2
<1>4. CASE UNCHANGED vars
  BY <1>4, UnchangedElsewhere, SendElsewhere DEF vars, cvars, Stored
<1> QED BY <1>2, <1>3, <1>4 DEF Next

-----------------------------------------------------------------------------
(* Reads: how much a member's last read covers that the member was not     *)
(* shown, and a read that is about to be marked.  A message whose insert   *)
(* is pending counts from its time on, so a commit takes nobody by         *)
(* surprise: when the messages are read, only those of the other requests  *)
(* are pending, and whatever gets its time later lies beyond the read.     *)
Fits(r) == Cardinality(InRoom(r, Len(messages))) <= PageSize
Pending(i) == \E c \in Callers : At(c, "insert") /\ call[c].at = i
Owed(r, u, n) == {i \in 1 .. n :
    \/ i \in stored /\ messages[i].room = r /\ messages[i].id \notin shown[u]
    \/ Pending(i)}
Marking(c, r) == At(c, "mark") /\ call[c].room = r

ReadInv ==
    \A r \in Rooms :
        /\ \A u \in Users : lastRead[r][u] <= Len(messages)
        /\ Fits(r) =>
              /\ \A u \in Users : Cardinality(Owed(r, u, lastRead[r][u])) <= N - 1
              /\ \A c \in Callers : Marking(c, r) =>
                    Cardinality(Owed(r, call[c].user, call[c].viewedAt)) <= N - 1

LEMMA InRoomFinite ==
    ASSUME stored \subseteq 1 .. Len(messages), messages \in Seq(Message), NEW r, NEW n \in Nat
    PROVE  IsFiniteSet(InRoom(r, n)) /\ Cardinality(InRoom(r, n)) \in Nat
<1>1. IsFiniteSet(1 .. n)
  BY FS_Interval
<1>2. ASSUME NEW i \in InRoom(r, n)
      PROVE  i \in 1 .. n
  <2>1. i \in stored /\ i <= n
    BY DEF InRoom
  <2>2. Len(messages) \in Nat
    OBVIOUS
  <2> QED BY <2>1, <2>2
<1>3. InRoom(r, n) \subseteq 1 .. n
  BY <1>2
<1> QED BY <1>1, <1>3, FS_Subset, FS_CardinalityType

\* A room that fits on a page is shown whole.
LEMMA PageIsWhole ==
    ASSUME stored \subseteq 1 .. Len(messages), messages \in Seq(Message), NEW r, Fits(r),
           NEW n \in Nat, n <= Len(messages), PageSize \in Nat
    PROVE  Page(r, n) = InRoom(r, n)
<1>1. ASSUME NEW i \in InRoom(r, n)
      PROVE  Cardinality(InRoom(r, i)) <= PageSize
  <2>1. Len(messages) \in Nat /\ i \in 1 .. Len(messages) /\ i <= n
    BY DEF InRoom
  <2>2. ASSUME NEW j \in InRoom(r, i)
        PROVE  j \in InRoom(r, Len(messages))
    BY <2>1 DEF InRoom
  <2>3. Cardinality(InRoom(r, i)) <= Cardinality(InRoom(r, Len(messages)))
    BY <2>1, <2>2, InRoomFinite, FS_Subset
  <2> QED BY <2>1, <2>3, InRoomFinite DEF Fits
<1> QED BY <1>1 DEF Page

\* What a step does to the messages: some get a time, and some of those that were
\* pending are stored.
MessagesGrow ==
    /\ messages' \in Seq(Message) /\ Len(messages) <= Len(messages')
    /\ \A i \in 1 .. Len(messages) : messages'[i] = messages[i]
    /\ stored \subseteq stored'
    /\ \A i \in stored' : i \in stored \/ Pending(i)
    /\ \A i \in 1 .. Len(messages) :
          (\E c \in Callers : call'[c] # NoCall /\ call'[c].step = "insert" /\ call'[c].at = i)
          => Pending(i)

\* Messages that are added only make a room fit less.
LEMMA FitsBefore ==
    ASSUME stored \subseteq 1 .. Len(messages), messages \in Seq(Message),
           stored' \subseteq 1 .. Len(messages'), MessagesGrow, PageSize \in Nat, NEW r, Fits(r)'
    PROVE  Fits(r)
<1>1. Len(messages) \in Nat /\ Len(messages)' \in Nat /\ messages' \in Seq(Message)
  BY DEF MessagesGrow
<1>2. InRoom(r, Len(messages)) \subseteq InRoom(r, Len(messages))'
  <2>1. ASSUME NEW i \in stored, i <= Len(messages), messages[i].room = r
        PROVE  i \in stored' /\ i <= Len(messages)' /\ messages'[i].room = r
    <3>1. i \in 1 .. Len(messages)
      OBVIOUS
    <3> QED BY <1>1, <2>1, <3>1 DEF MessagesGrow
  <2> QED BY <2>1 DEF InRoom
<1>3. /\ IsFiniteSet(InRoom(r, Len(messages))') /\ Cardinality(InRoom(r, Len(messages))') \in Nat
      /\ IsFiniteSet(InRoom(r, Len(messages))) /\ Cardinality(InRoom(r, Len(messages))) \in Nat
  <2>1. InRoom(r, Len(messages))' \subseteq 1 .. Len(messages)'
    BY DEF InRoom
  <2>2. IsFiniteSet(1 .. Len(messages)')
    BY <1>1, FS_Interval
  <2> QED BY <1>1, <2>1, <2>2, InRoomFinite, FS_Subset, FS_CardinalityType
<1>4. Cardinality(InRoom(r, Len(messages))) <= Cardinality(InRoom(r, Len(messages))')
  BY <1>2, <1>3, FS_Subset
<1> QED BY <1>3, <1>4 DEF Fits

LEMMA OwedFinite ==
    ASSUME NEW r, NEW u, NEW n \in Nat
    PROVE  IsFiniteSet(Owed(r, u, n)) /\ Cardinality(Owed(r, u, n)) \in Nat
<1>1. IsFiniteSet(1 .. n)
  BY FS_Interval
<1>2. Owed(r, u, n) \subseteq 1 .. n
  BY DEF Owed
<1> QED BY <1>1, <1>2, FS_Subset, FS_CardinalityType

\* What is owed after a step.
OwedThen(r, u, n) == {i \in 1 .. n :
    \/ i \in stored' /\ messages'[i].room = r /\ messages'[i].id \notin shown'[u]
    \/ \E c \in Callers : call'[c] # NoCall /\ call'[c].step = "insert" /\ call'[c].at = i}

LEMMA ReadInvThen ==
    ASSUME \A r \in Rooms :
              /\ \A u \in Users : lastRead'[r][u] <= Len(messages')
              /\ Fits(r)' =>
                    /\ \A u \in Users : Cardinality(OwedThen(r, u, lastRead'[r][u])) <= N - 1
                    /\ \A c \in Callers : call'[c] # NoCall /\ call'[c].step = "mark" /\ call'[c].room = r
                          => Cardinality(OwedThen(r, call'[c].user, call'[c].viewedAt)) <= N - 1
    PROVE  ReadInv'
<1>1. \A r, u, n : Owed(r, u, n)' = OwedThen(r, u, n)
  BY DEF Owed, OwedThen, Pending, At
<1> QED BY DEF ReadInv, Owed, OwedThen, Pending, Marking, At, N

\* What ReadInv says of one room.
LEMMA ReadInvNow ==
    ASSUME TypeStrong, ReadInv, NEW r \in Rooms
    PROVE  /\ \A u \in Users : lastRead[r][u] \in Nat /\ lastRead[r][u] <= Len(messages)
           /\ \A c \in Callers : Marking(c, r) =>
                 /\ call[c].user \in Users
                 /\ call[c].viewedAt \in Nat /\ call[c].viewedAt <= Len(messages)
           /\ Fits(r) =>
                 /\ \A u \in Users : Cardinality(Owed(r, u, lastRead[r][u])) <= N - 1
                 /\ \A c \in Callers : Marking(c, r) =>
                       Cardinality(Owed(r, call[c].user, call[c].viewedAt)) <= N - 1
<1>1. CallsOK /\ lastRead \in [Rooms -> [Users -> Nat]]
  BY DEF TypeStrong, ChatInv, RowsOK
<1>2. ASSUME NEW c \in Callers, Marking(c, r)
      PROVE  call[c].user \in Users /\ call[c].viewedAt \in Nat /\ call[c].viewedAt <= Len(messages)
  BY <1>1, <1>2, Kinds DEF Marking, ReadCall, TypeStrong, ChatInv, ReadsThePast, Reading
<1>3. \A u \in Users : lastRead[r][u] \in Nat
  BY <1>1
<1> QED BY <1>2, <1>3 DEF ReadInv

\* Nothing that was covered gets owed.
LEMMA OwedShrinks ==
    ASSUME messages \in Seq(Message), MessagesGrow, \A v \in Users : shown[v] \subseteq shown'[v],
           NEW r, NEW u \in Users, NEW n \in Nat, n <= Len(messages), Cardinality(Owed(r, u, n)) <= N - 1
    PROVE  Cardinality(OwedThen(r, u, n)) <= N - 1
<1>1. OwedThen(r, u, n) \subseteq Owed(r, u, n)
  <2>1. ASSUME NEW i \in OwedThen(r, u, n)
        PROVE  i \in Owed(r, u, n)
    <3>1. i \in 1 .. n /\ i \in 1 .. Len(messages)
      BY DEF OwedThen
    <3>2. CASE i \in stored' /\ messages'[i].room = r /\ messages'[i].id \notin shown'[u]
      <4>1. messages'[i] = messages[i] /\ (i \in stored \/ Pending(i))
        BY <3>1, <3>2 DEF MessagesGrow
      <4>2. messages[i].room = r /\ messages[i].id \notin shown[u]
        BY <3>2, <4>1
      <4> QED BY <3>1, <4>1, <4>2 DEF Owed
    <3>3. CASE \E c \in Callers : call'[c] # NoCall /\ call'[c].step = "insert" /\ call'[c].at = i
      <4>1. Pending(i)
        BY <3>1, <3>3 DEF MessagesGrow
      <4> QED BY <3>1, <4>1 DEF Owed
    <3> QED BY <3>2, <3>3 DEF OwedThen
  <2> QED BY <2>1
<1>2. /\ IsFiniteSet(OwedThen(r, u, n)) /\ Cardinality(OwedThen(r, u, n)) \in Nat
      /\ Cardinality(OwedThen(r, u, n)) <= Cardinality(Owed(r, u, n))
  BY <1>1, OwedFinite, FS_Subset, FS_CardinalityType
<1>3. N \in Nat \ {0} /\ Cardinality(Owed(r, u, n)) \in Nat
  BY CallersCount, OwedFinite
<1> QED BY <1>2, <1>3

\* A step that reads and marks no messages.
LEMMA ReadsElsewhere ==
    ASSUME TypeStrong, ReadInv, Elsewhere({"mark"}), UNCHANGED lastRead, MessagesGrow,
           stored' \subseteq 1 .. Len(messages'), \A u \in Users : shown[u] \subseteq shown'[u]
    PROVE  ReadInv'
<1>1. /\ messages \in Seq(Message) /\ Len(messages) \in Nat /\ Len(messages') \in Nat
      /\ Len(messages) <= Len(messages') /\ stored \subseteq 1 .. Len(messages)
  BY DEF TypeStrong, ChatInv, RowsOK, MessagesGrow
<1> SUFFICES ASSUME NEW r \in Rooms
             PROVE  /\ \A u \in Users : lastRead'[r][u] <= Len(messages')
                    /\ Fits(r)' =>
                          /\ \A u \in Users : Cardinality(OwedThen(r, u, lastRead'[r][u])) <= N - 1
                          /\ \A c \in Callers :
                                call'[c] # NoCall /\ call'[c].step = "mark" /\ call'[c].room = r
                                => Cardinality(OwedThen(r, call'[c].user, call'[c].viewedAt)) <= N - 1
  BY ReadInvThen
<1>2. \A u \in Users : lastRead'[r][u] <= Len(messages')
  BY <1>1, ReadInvNow
<1>3. ASSUME Fits(r)'
      PROVE  Fits(r)
  BY <1>1, <1>3, FitsBefore, ChatAssumption
<1>4. ASSUME Fits(r)', NEW u \in Users
      PROVE  Cardinality(OwedThen(r, u, lastRead'[r][u])) <= N - 1
  BY <1>1, <1>3, <1>4, ReadInvNow, OwedShrinks
<1>5. ASSUME Fits(r)', NEW c \in Callers,
             call'[c] # NoCall, call'[c].step = "mark", call'[c].room = r
      PROVE  Cardinality(OwedThen(r, call'[c].user, call'[c].viewedAt)) <= N - 1
  <2>1. Marking(c, r) /\ call'[c] = call[c]
    BY <1>5 DEF Elsewhere, Marking, At
  <2> QED BY <1>1, <1>3, <1>5, <2>1, ReadInvNow, OwedShrinks
<1> QED BY <1>2, <1>4, <1>5

\* A step that leaves the messages alone, and those that are pending, lets them grow.
LEMMA MessagesStay ==
    ASSUME TypeStrong, UNCHANGED <<messages, stored>>, Elsewhere({"insert"})
    PROVE  MessagesGrow /\ stored' \subseteq 1 .. Len(messages')
<1>1. messages \in Seq(Message) /\ stored \subseteq 1 .. Len(messages) /\ Len(messages) \in Nat
  BY DEF TypeStrong, ChatInv, RowsOK
<1>2. ASSUME NEW c \in Callers, call'[c] # NoCall, call'[c].step = "insert"
      PROVE  At(c, "insert") /\ call'[c] = call[c]
  BY <1>2 DEF Elsewhere, At
<1> QED BY <1>1, <1>2 DEF MessagesGrow, Pending

LEMMA StampLetsGrow ==
    ASSUME TypeStrong, NEW c \in Callers, StampMessage(c)
    PROVE  MessagesGrow /\ stored' \subseteq 1 .. Len(messages')
<1>1. /\ messages' \in Seq(Message) /\ Len(messages') = Len(messages) + 1
      /\ \A i \in 1 .. Len(messages) : messages'[i] = messages[i]
      /\ stored' \subseteq 1 .. Len(messages')
  BY StampMessageTyped DEF TypeStrong
<1>2. UNCHANGED stored /\ CallsOK /\ messages \in Seq(Message) /\ Len(messages) \in Nat
  BY DEF StampMessage, TypeStrong, ChatInv, RowsOK
<1>3. PICK q : q.at = Len(messages) + 1 /\ call' = [call EXCEPT ![c] = q]
  BY <1>2, Stamps
<1>4. ASSUME NEW i \in 1 .. Len(messages), NEW d \in Callers,
             call'[d] # NoCall, call'[d].step = "insert", call'[d].at = i
      PROVE  Pending(i)
  <2>1. d # c
    BY <1>2, <1>3, <1>4 DEF CallsOK
  <2>2. call'[d] = call[d]
    BY <1>2, <1>3, <2>1 DEF CallsOK
  <2> QED BY <1>4, <2>2 DEF Pending, At
<1> QED BY <1>1, <1>2, <1>4 DEF MessagesGrow

LEMMA StoreLetsGrow ==
    ASSUME TypeStrong, NEW c \in Callers, StoreMessage(c)
    PROVE  MessagesGrow /\ stored' \subseteq 1 .. Len(messages')
<1>1. /\ At(c, "insert") /\ Goes(c, "answer") /\ UNCHANGED messages
      /\ stored' = stored \cup {call[c].at} /\ CallsOK
  BY DEF StoreMessage, TypeStrong, ChatInv
<1>2. /\ messages \in Seq(Message) /\ stored \subseteq 1 .. Len(messages)
      /\ call[c].at \in 1 .. Len(messages)
  BY <1>1 DEF TypeStrong, ChatInv, RowsOK, Stamped
<1>3. Elsewhere({"insert"})
  BY <1>1, GoesElsewhere DEF Advance
<1>4. ASSUME NEW d \in Callers, call'[d] # NoCall, call'[d].step = "insert"
      PROVE  At(d, "insert") /\ call'[d] = call[d]
  BY <1>3, <1>4 DEF Elsewhere, At
<1>5. Pending(call[c].at)
  BY <1>1 DEF Pending
<1>6. \A i \in stored' : i \in stored \/ Pending(i)
  BY <1>1, <1>5
<1>7. \A i \in 1 .. Len(messages) :
         (\E d \in Callers : call'[d] # NoCall /\ call'[d].step = "insert" /\ call'[d].at = i)
         => Pending(i)
  BY <1>4 DEF Pending
<1>8. stored \subseteq stored' /\ stored' \subseteq 1 .. Len(messages')
  BY <1>1, <1>2
<1>9. messages' \in Seq(Message) /\ Len(messages) <= Len(messages')
  BY <1>1, <1>2
<1> QED BY <1>1, <1>6, <1>7, <1>8, <1>9 DEF MessagesGrow

\* As many messages are pending as there are requests for them.
LEMMA FewPending ==
    ASSUME NEW c \in Callers, NEW S, NEW f,
           \A i \in S : \E d \in Callers \ {c} : f[d] = i
    PROVE  IsFiniteSet(S) /\ Cardinality(S) <= N - 1
<1> DEFINE T == {d \in Callers \ {c} : f[d] \in S}
           g == [d \in T |-> f[d]]
<1>1. g \in Surjection(T, S)
  BY DEF Surjection
<1>2. T \in SUBSET Callers /\ Callers \in SUBSET Callers /\ c \notin T
  OBVIOUS
<1>3. IsFiniteSet(T) /\ Cardinality(T) + 1 <= N /\ Cardinality(T) \in Nat /\ N \in Nat
  <2>1. T \in SUBSET Callers /\ c \in Callers /\ c \notin T
    OBVIOUS
  <2> QED BY <2>1, CallersCount, OneCallerLess DEF N
<1>4. IsFiniteSet(S) /\ Cardinality(S) <= Cardinality(T)
  <2> HIDE DEF g, T
  <2> QED BY <1>1, <1>3, FS_Surjection
<1> QED BY <1>3, <1>4, FS_CardinalityType

LEMMA ShowMessagesKeepsReads ==
    ASSUME TypeStrong, ReadInv, NEW c \in Callers, ShowMessages(c)
    PROVE  ReadInv'
<1> DEFINE r == call[c].room
           n == call[c].viewedAt
           u == call[c].user
<1>1. /\ At(c, "show") /\ Goes(c, "mark") /\ UNCHANGED <<messages, stored, lastRead>>
      /\ shown' = [shown EXCEPT ![u] = shown[u] \cup {messages[i].id : i \in Page(r, n)}]
  BY DEF ShowMessages, UserOf, TypeStrong, ChatInv, RowsOK
<1>2. /\ CallsOK /\ messages \in Seq(Message) /\ stored \subseteq 1 .. Len(messages)
      /\ shown \in [Users -> SUBSET MessageIds]
  BY DEF TypeStrong, ChatInv, RowsOK
<1>3. r \in Rooms /\ u \in Users /\ n \in Nat /\ n <= Len(messages)
  BY <1>1, <1>2, Kinds DEF ReadCall, TypeStrong, ChatInv, ReadsThePast, Reading
<1>4. \A v \in Users : shown[v] \subseteq shown'[v]
  BY <1>1, <1>2
<1>5. PICK q \in ReadCall : /\ q.step = "mark" /\ q.room = r /\ q.viewedAt = n /\ q.user = u
                            /\ call' = [call EXCEPT ![c] = q]
  BY <1>1, <1>2, GoesOn DEF Advance
<1>6. /\ call'[c].step = "mark" /\ call'[c].room = r /\ call'[c].viewedAt = n /\ call'[c].user = u
      /\ \A d \in Callers \ {c} : call'[d] = call[d]
  BY <1>2, <1>5 DEF CallsOK
<1>7. ASSUME Fits(r)
      PROVE  Cardinality(OwedThen(r, u, n)) <= N - 1
  <2>1. Page(r, n) = InRoom(r, n)
    BY <1>2, <1>3, <1>7, PageIsWhole, ChatAssumption
  <2>2. {messages[i].id : i \in InRoom(r, n)} \subseteq shown'[u]
    BY <1>1, <1>2, <1>3, <2>1
  <2>3. ASSUME NEW i \in 1 .. n, i \in stored, messages[i].room = r
        PROVE  messages[i].id \in shown'[u]
    BY <2>2, <2>3 DEF InRoom
  <2>4. PICK f : f = [e \in Callers |-> call[e].at]
    OBVIOUS
  <2>5. ASSUME NEW i \in OwedThen(r, u, n)
        PROVE  \E d \in Callers \ {c} : f[d] = i
    <3>1. PICK d \in Callers : call'[d] # NoCall /\ call'[d].step = "insert" /\ call'[d].at = i
      BY <1>1, <2>3 DEF OwedThen
    <3>2. d # c
      BY <1>6, <3>1
    <3> QED BY <1>6, <2>4, <3>1, <3>2
  <2>6. PICK S : S = OwedThen(r, u, n)
    OBVIOUS
  <2>7. Cardinality(S) <= N - 1
    BY <2>5, <2>6, FewPending
  <2> QED BY <2>6, <2>7
<1>8. MessagesGrow
  BY <1>1, <1>2, GoesElsewhere, MessagesStay DEF Advance
<1>9. ASSUME NEW x \in Rooms, Fits(x)'
      PROVE  Fits(x)
  BY <1>1, <1>9 DEF Fits, InRoom
<1>10. ASSUME NEW x \in Rooms, Fits(x)', NEW d \in Callers,
              call'[d] # NoCall, call'[d].step = "mark", call'[d].room = x
       PROVE  Cardinality(OwedThen(x, call'[d].user, call'[d].viewedAt)) <= N - 1
  <2>1. CASE d = c
    BY <1>6, <1>7, <1>9, <1>10, <2>1
  <2>2. CASE d # c
    <3>1. call'[d] = call[d] /\ Marking(d, x)
      BY <1>6, <1>10, <2>2 DEF Marking, At
    <3>2. /\ call[d].user \in Users /\ call[d].viewedAt \in Nat /\ call[d].viewedAt <= Len(messages)
          /\ Cardinality(Owed(x, call[d].user, call[d].viewedAt)) <= N - 1
      BY <1>9, <1>10, <3>1, ReadInvNow
    <3> QED BY <1>2, <1>4, <1>8, <3>1, <3>2, OwedShrinks
  <2> QED BY <2>1, <2>2
<1>11. ASSUME NEW x \in Rooms, NEW v \in Users
       PROVE  /\ lastRead'[x][v] <= Len(messages')
              /\ Fits(x)' => Cardinality(OwedThen(x, v, lastRead'[x][v])) <= N - 1
  BY <1>1, <1>2, <1>4, <1>8, <1>9, ReadInvNow, OwedShrinks
<1> QED BY <1>10, <1>11, ReadInvThen

LEMMA MarkReadKeepsReads ==
    ASSUME TypeStrong, ReadInv, NEW c \in Callers, MarkRead(c)
    PROVE  ReadInv'
<1> DEFINE r == call[c].room
           n == call[c].viewedAt
           u == call[c].user
<1>1. At(c, "mark") /\ UNCHANGED <<messages, stored, shown>>
  BY DEF MarkRead
<1>2. CallsOK /\ lastRead \in [Rooms -> [Users -> Nat]] /\ messages \in Seq(Message)
  BY DEF TypeStrong, ChatInv, RowsOK
<1>3. r \in Rooms /\ u \in Users /\ n \in Nat /\ n <= Len(messages) /\ Marking(c, r)
  BY <1>1, <1>2, Kinds DEF ReadCall, TypeStrong, ChatInv, ReadsThePast, Reading, Marking
<1>4. lastRead' = [lastRead EXCEPT ![r][u] = n]
  BY DEF MarkRead, ReadAt, UserOf
<1>5. ASSUME NEW x \in Rooms, NEW v \in Users
      PROVE  lastRead'[x][v] = IF x = r /\ v = u THEN n ELSE lastRead[x][v]
  BY <1>2, <1>3, <1>4
<1>6. ASSUME NEW steps, "enter" \notin steps
      PROVE  Elsewhere(steps)
  <2>1. CASE call[c].command = "enter"
    BY <1>1, <1>2, <1>6, <2>1, GoesElsewhere DEF MarkRead, Advance
  <2>2. CASE call[c].command # "enter"
    BY <1>2, <2>2, EndsElsewhere DEF MarkRead
  <2> QED BY <2>1, <2>2
<1>7. MessagesGrow
  BY <1>1, <1>6, MessagesStay
<1>8. ASSUME NEW x \in Rooms, Fits(x)'
      PROVE  Fits(x)
  BY <1>1, <1>8 DEF Fits, InRoom
<1>9. ASSUME NEW x \in Rooms, NEW v \in Users
      PROVE  /\ lastRead'[x][v] <= Len(messages')
             /\ Fits(x)' => Cardinality(OwedThen(x, v, lastRead'[x][v])) <= N - 1
  <2>1. CASE x = r /\ v = u
    BY <1>1, <1>2, <1>3, <1>5, <1>7, <1>8, <2>1, ReadInvNow, OwedShrinks
  <2>2. CASE ~(x = r /\ v = u)
    BY <1>1, <1>2, <1>5, <1>7, <1>8, <2>2, ReadInvNow, OwedShrinks
  <2> QED BY <2>1, <2>2
<1>10. ASSUME NEW x \in Rooms, Fits(x)', NEW d \in Callers,
              call'[d] # NoCall, call'[d].step = "mark", call'[d].room = x
       PROVE  Cardinality(OwedThen(x, call'[d].user, call'[d].viewedAt)) <= N - 1
  <2>1. Elsewhere({"mark"})
    BY <1>6
  <2>2. Marking(d, x) /\ call'[d] = call[d]
    BY <1>10, <2>1 DEF Elsewhere, Marking, At
  <2> QED BY <1>1, <1>2, <1>7, <1>8, <1>10, <2>2, ReadInvNow, OwedShrinks
<1> QED BY <1>9, <1>10, ReadInvThen

LEMMA ReadsUntouched ==
    ASSUME TypeStrong, ReadInv, Elsewhere({"insert", "mark"}),
           UNCHANGED <<messages, stored, lastRead, shown>>
    PROVE  ReadInv'
<1>1. Elsewhere({"insert"}) /\ Elsewhere({"mark"})
  BY DEF Elsewhere
<1> QED BY <1>1, MessagesStay, ReadsElsewhere

LEMMA ChatKeepsReads ==
    ASSUME TypeStrong, ReadInv, ChatNext
    PROVE  ReadInv'
<1> DEFINE Here == {"insert", "mark"}
<1>1. CallsOK /\ messages \in Seq(Message)
  BY DEF TypeStrong, ChatInv, RowsOK
<1>2. ASSUME Elsewhere(Here), UNCHANGED <<messages, stored, lastRead, shown>>
      PROVE  ReadInv'
  BY <1>2, ReadsUntouched
<1>3. ASSUME NEW c \in Callers, NEW u \in Users, NEW r \in Rooms, AskSend(c, u, r)
      PROVE  ReadInv'
  BY <1>1, <1>2, <1>3, BeginsElsewhere DEF AskSend, cvars
<1>4. ASSUME NEW c \in Callers, NEW u \in Users, NEW r \in Rooms, AskDetail(c, u, r)
      PROVE  ReadInv'
  BY <1>1, <1>2, <1>4, BeginsElsewhere DEF AskDetail, cvars
<1>5. ASSUME NEW c \in Callers, NEW u \in Users,
             \/ \E x \in Targets : AskReport(c, u, x)
             \/ \E v \in Users : Block(c, u, v) \/ Unblock(c, u, v)
      PROVE  ReadInv'
  <2>1. ASSUME NEW q, Begins(c, q), q.step \in {"report", "notify"}
        PROVE  Elsewhere(Here)
    <3>1. q.step \notin Here
      BY <2>1
    <3> QED BY <1>1, <2>1, <3>1, BeginsElsewhere
  <2>2. Elsewhere(Here)
    BY <1>5, <2>1 DEF AskReport, Block, Unblock
  <2>3. UNCHANGED <<messages, stored, lastRead, shown>>
    BY <1>5 DEF AskReport, Block, Unblock, cvars
  <2> QED BY <1>2, <2>2, <2>3
<1>6. ASSUME NEW c \in Callers, StoreMessage(c)
      PROVE  ReadInv'
  <2>1. Elsewhere({"mark"})
    BY <1>1, <1>6, GoesElsewhere DEF StoreMessage, Advance
  <2>2. UNCHANGED <<lastRead, shown>>
    BY <1>6 DEF StoreMessage
  <2> QED BY <1>6, <2>1, <2>2, StoreLetsGrow, ReadsElsewhere
<1>7. ASSUME NEW c \in Callers, StampMessage(c)
      PROVE  ReadInv'
  <2>1. Elsewhere({"mark"})
    BY <1>1, <1>7, StampElsewhere
  <2>2. UNCHANGED <<lastRead, shown>>
    BY <1>7 DEF StampMessage
  <2> QED BY <1>7, <2>1, <2>2, StampLetsGrow, ReadsElsewhere
<1>8. ASSUME NEW c \in Callers, FindExisting(c)
      PROVE  ReadInv'
  BY <1>1, <1>2, <1>8, GoesElsewhere, EndsElsewhere DEF FindExisting, Advance, cvars
<1>9. ASSUME NEW c \in Callers, Acknowledge(c) \/ EnterRoom(c) \/ Notify(c) \/ StoreReport(c)
      PROVE  ReadInv'
  BY <1>1, <1>2, <1>9, EndsElsewhere DEF Acknowledge, EnterRoom, Notify, StoreReport
<1>10. ASSUME NEW s \in Sockets,
             \/ Disconnect(s) \/ ListRooms(s) \/ JoinRooms(s)
             \/ \E u \in Users : Connect(s, u)
      PROVE  ReadInv'
  BY <1>2, <1>10, UnchangedElsewhere DEF Disconnect, ListRooms, JoinRooms, Connect
<1>11. ASSUME NEW u \in Users,
              \/ MinutePasses(u)
              \/ \E r \in Rooms : CreateRoom(u, r)
              \/ \E x \in Targets : ResolveReport(u, x)
       PROVE  ReadInv'
  BY <1>2, <1>11, UnchangedElsewhere DEF MinutePasses, CreateRoom, ResolveReport
<1>12. CASE ProcessEnds
  BY <1>2, <1>12, ProcessEndsElsewhere DEF ProcessEnds
<1> QED
  BY <1>3, <1>4, <1>5, <1>6, <1>7, <1>8, <1>9, <1>10, <1>11, <1>12, ShowMessagesKeepsReads,
     MarkReadKeepsReads DEF ChatNext

LEMMA NextKeepsReads == TypeStrong /\ ReadInv /\ [Next]_vars => ReadInv'
<1> SUFFICES ASSUME TypeStrong, ReadInv, [Next]_vars PROVE ReadInv'
  OBVIOUS
<1>1. CASE AccountsNext /\ UNCHANGED cvars
  <2>1. CallsOK
    BY DEF TypeStrong, ChatInv
  <2>2. Elsewhere({"insert", "mark"})
    BY <1>1, <2>1, AccountsElsewhere DEF Elsewhere, ChatSteps
  <2> QED BY <1>1, <2>2, ReadsUntouched DEF cvars
<1>2. CASE UNCHANGED vars
  BY <1>2, UnchangedElsewhere, ReadsUntouched DEF vars, cvars
<1> QED BY <1>1, <1>2, ChatKeepsReads DEF Next

\* What is unseen is owed.
LEMMA ReadsFollow ==
    ASSUME TypeStrong, ReadInv
    PROVE  FewReadsUnseen
<1> SUFFICES ASSUME NEW r \in Rooms, NEW u \in Users, Fits(r)
             PROVE  Cardinality(Unseen(r, u, lastRead[r][u])) <= N - 1
  BY DEF FewReadsUnseen, Fits, N
<1>1. PICK n \in Nat : n = lastRead[r][u]
  BY ReadInvNow
<1>2. Cardinality(Owed(r, u, n)) <= N - 1
  BY <1>1, ReadInvNow
<1>3. stored \subseteq 1 .. Len(messages)
  BY DEF TypeStrong, ChatInv, RowsOK
<1>4. ASSUME NEW i \in Unseen(r, u, n)
      PROVE  i \in Owed(r, u, n)
  <2>1. i \in stored /\ i <= n /\ messages[i].room = r /\ messages[i].id \notin shown[u]
    BY DEF Unseen, InRoom
  <2>2. Len(messages) \in Nat
    BY DEF TypeStrong, ChatInv, RowsOK
  <2>3. i \in 1 .. n
    BY <1>1, <1>3, <2>1, <2>2
  <2> QED BY <2>1, <2>3 DEF Owed
<1>5. /\ IsFiniteSet(Unseen(r, u, n)) /\ Cardinality(Unseen(r, u, n)) \in Nat
      /\ Cardinality(Unseen(r, u, n)) <= Cardinality(Owed(r, u, n))
  BY <1>4, OwedFinite, FS_Subset, FS_CardinalityType
<1>6. N \in Nat \ {0} /\ Cardinality(Owed(r, u, n)) \in Nat
  BY CallersCount, OwedFinite
<1> QED BY <1>1, <1>2, <1>5, <1>6

-----------------------------------------------------------------------------
(* Subscriptions.  A room that a socket was joined to, and now is not,     *)
(* will be: a refresh has not read the rooms yet, or has read this one, or *)
(* one is about to begin.  A block that is lifted begins such a refresh,   *)
(* as both members of a blocked room are concerned by every block of it.   *)
Belongs(s) == {r \in rooms : socketUser[s] \in Members(r)}

Coming(s, r) ==
    \E i \in Refreshes :
        \/ refreshing[s][i].stage = "started"
        \/ refreshing[s][i].stage = "listed" /\ r \in refreshing[s][i].rooms

BlocksOthers == \A u \in Users : <<u, u>> \notin blocks

SocketInv(s) ==
    /\ entered[s] \subseteq Belongs(s)
    /\ \A i \in Refreshes : refreshing[s][i].rooms \subseteq Belongs(s)
    /\ \A r \in entered[s] : r \in joined[s] \/ Blocked(r) \/ Notifying(s) \/ Coming(s, r)

SubscriptionInv == BlocksOthers /\ \A s \in Sockets : SocketInv(s)

LEMMA SubscriptionsFollow ==
    ASSUME SubscriptionInv
    PROVE  SubscriptionsSurvive
BY DEF SubscriptionInv, SocketInv, Coming, SubscriptionsSurvive, Free

\* A request that is about to call the listener does so, and nothing else.
NoticesStay == \A c \in Callers : At(c, "notify") => call'[c] = call[c]

LEMMA NoticeStays ==
    ASSUME NoticesStay, NEW s, socketUser'[s] = socketUser[s], Notifying(s)
    PROVE  Notifying(s)'
BY DEF NoticesStay, Notifying, At, Concerned, UserOf

LEMMA OthersKeepNotices ==
    ASSUME CallsOK, NEW c \in Callers, ~At(c, "notify"), \A d \in Callers \ {c} : call'[d] = call[d]
    PROVE  NoticesStay
BY DEF NoticesStay

LEMMA BeginsKeepsNotices ==
    ASSUME CallsOK, NEW c \in Callers, NEW r, Begins(c, r)
    PROVE  NoticesStay
BY OthersKeepNotices DEF Begins, At, CallsOK

LEMMA EndsKeepsNotices ==
    ASSUME CallsOK, NEW c \in Callers, ~At(c, "notify"), Ends(c)
    PROVE  NoticesStay
BY OthersKeepNotices DEF Ends, CallsOK

LEMMA GoesKeepsNotices ==
    ASSUME CallsOK, NEW c \in Callers, ~At(c, "notify"), NEW new, Goes(c, new)
    PROVE  NoticesStay
BY OthersKeepNotices DEF Goes, CallsOK

LEMMA UnchangedKeepsNotices == ASSUME UNCHANGED call PROVE NoticesStay
BY DEF NoticesStay

LEMMA AccountsKeepNotices ==
    ASSUME CallsOK, AccountsNext
    PROVE  NoticesStay
<1>1. ASSUME NEW c \in Callers, NEW u \in Users,
             \/ SignUp(c, u) \/ AskCode(c, u) \/ Login(c, u) \/ AskWithdraw(c, u)
             \/ \E purpose \in Purpose : ReadCode(c, u, purpose)
      PROVE  NoticesStay
  BY <1>1, BeginsKeepsNotices DEF SignUp, AskCode, Login, AskWithdraw, ReadCode
<1>2. ASSUME NEW c \in Callers,
             \/ CountCodes(c) \/ DeleteCodes(c) \/ GuessRight(c) \/ PasswordRight(c)
             \/ PasswordWrong(c) \/ ClearThrottle(c)
      PROVE  NoticesStay
  <2>1. ~At(c, "notify")
    BY <1>2 DEF At, CountCodes, DeleteCodes, GuessRight, PasswordRight, PasswordWrong, ClearThrottle
  <2> QED BY <1>2, <2>1, GoesKeepsNotices, EndsKeepsNotices
    DEF CountCodes, DeleteCodes, GuessRight, PasswordRight, PasswordWrong, ClearThrottle
<1>3. ASSUME NEW c \in Callers,
             \/ CreateCode(c) \/ GuessWrong(c) \/ ConfirmContact(c) \/ ResetPassword(c)
             \/ RecordFailure(c) \/ OpenSession(c) \/ Withdraw(c) \/ CallLost(c)
      PROVE  NoticesStay
  <2>1. ~At(c, "notify") /\ Ends(c)
    BY <1>3 DEF At, CreateCode, GuessWrong, ConfirmContact, ResetPassword, RecordFailure,
                OpenSession, Withdraw, CallLost
  <2> QED BY <2>1, EndsKeepsNotices
<1>4. ASSUME NEW u \in Users,
             CodesExpire(u) \/ WindowEnds(u) \/ LockEnds(u) \/ Suspend(u) \/ Reinstate(u)
      PROVE  NoticesStay
  BY <1>4, UnchangedKeepsNotices DEF CodesExpire, WindowEnds, LockEnds, Suspend, Reinstate
<1>5. ASSUME NEW t \in Tokens, Logout(t)
      PROVE  NoticesStay
  BY <1>5, UnchangedKeepsNotices DEF Logout
<1> QED BY <1>1, <1>2, <1>3, <1>4, <1>5 DEF AccountsNext

LEMMA SocketUnchanged ==
    ASSUME NEW s \in Sockets, SocketInv(s), rooms \subseteq rooms', NoticesStay,
           UNCHANGED <<blocks, sockets>>
    PROVE  SocketInv(s)'
<1>1. Notifying(s) => Notifying(s)'
  BY NoticeStays DEF sockets
<1> QED BY <1>1 DEF SocketInv, Belongs, Coming, Blocked, sockets

LEMMA Untouched ==
    ASSUME SubscriptionInv, rooms \subseteq rooms', NoticesStay, UNCHANGED <<blocks, sockets>>
    PROVE  SubscriptionInv'
BY SocketUnchanged DEF SubscriptionInv, BlocksOthers

LEMMA MembersAreUsers == \A r \in Rooms : Members(r) \subseteq Users
BY ChatAssumption DEF Members

\* Only the members of a room can block it, and a block of it concerns both.
LEMMA BlockConcernsMembers ==
    ASSUME BlocksOthers, blocks \subseteq Users \X Users, NEW u \in Users, NEW v \in Users,
           blocks' = blocks \ {<<u, v>>}, NEW r \in Rooms, Blocked(r), ~Blocked(r)'
    PROVE  Members(r) = {u, v}
<1>1. PICK x, y \in Members(r) : <<x, y>> \in blocks
  BY DEF Blocked
<1>2. <<x, y>> = <<u, v>>
  BY <1>1 DEF Blocked
<1>3. x # y
  BY <1>1 DEF BlocksOthers
<1> QED BY <1>1, <1>2, <1>3 DEF Members

\* A socket whose refresh begins will be joined to all it was joined to.
LEMMA BegunIsComing ==
    ASSUME SocketsOK, NEW s \in Sockets, SocketInv(s), Free(s) # {},
           UNCHANGED <<rooms, entered>>, socketUser'[s] = socketUser[s], refreshing'[s] = Begun(s)
    PROVE  SocketInv(s)'
<1>1. PICK i \in Refreshes : Begun(s) = [refreshing[s] EXCEPT ![i] = Started]
  BY BegunIsRun
<1>2. refreshing[s] \in [Refreshes -> Refresh]
  BY DEF SocketsOK
<1>3. refreshing'[s][i] = Started /\ \A j \in Refreshes \ {i} : refreshing'[s][j] = refreshing[s][j]
  BY <1>1, <1>2
<1>4. Belongs(s)' = Belongs(s)
  BY DEF Belongs
<1>5. Started.stage = "started" /\ Started.rooms = {}
  BY DEF Started
<1>6. \A r : Coming(s, r)'
  BY <1>3, <1>5 DEF Coming
<1> QED BY <1>3, <1>4, <1>5, <1>6 DEF SocketInv

\* The request that changes a block is about to call the listener for both users.
LEMMA BlockKeeps ==
    ASSUME TypeStrong, SubscriptionInv, NEW c \in Callers, NEW u \in Users, NEW v \in Users,
           Block(c, u, v) \/ Unblock(c, u, v)
    PROVE  SubscriptionInv'
<1>1. /\ CallsOK /\ BlocksOthers /\ blocks \subseteq Users \X Users /\ rooms \subseteq Rooms
      /\ UNCHANGED <<rooms, sockets>>
  BY DEF TypeStrong, ChatInv, RowsOK, SubscriptionInv, Block, Unblock
<1>2. BlocksOthers'
  <2> SUFFICES ASSUME NEW w \in Users
               PROVE  <<w, w>> \notin blocks'
    BY Zenon DEF BlocksOthers
  <2>1. PICK p : p = <<w, w>>
    OBVIOUS
  <2>2. p \notin blocks
    BY <1>1, <2>1 DEF BlocksOthers
  <2>3. CASE Block(c, u, v)
    <3>1. u # v /\ blocks' = blocks \cup {<<u, v>>}
      BY <2>3 DEF Block
    <3>2. p # <<u, v>>
      BY <2>1, <3>1
    <3> QED BY <2>1, <2>2, <3>1, <3>2
  <2>4. CASE Unblock(c, u, v)
    <3>1. blocks' = blocks \ {<<u, v>>}
      BY <2>4 DEF Unblock
    <3> QED BY <2>1, <2>2, <3>1
  <2> QED BY <2>3, <2>4
<1>3. PICK q \in NotifyCall : /\ q.step = "notify" /\ q.user = u /\ q.other = v
                              /\ Begins(c, q)
  BY DEF Block, Unblock, NotifyCall
<1>4. q # NoCall
  BY NoCallAssumption DEF NotifyCall, ChatCall
<1>5. NoticesStay /\ call'[c] = q
  BY <1>1, <1>3, BeginsKeepsNotices DEF Begins, CallsOK
<1>6. ASSUME NEW s \in Sockets, socketUser[s] \in {u, v}
      PROVE  Notifying(s)'
  BY <1>1, <1>3, <1>4, <1>5, <1>6 DEF Notifying, At, Concerned, UserOf, sockets
<1>7. ASSUME NEW s \in Sockets, socketUser[s] \notin {u, v}, NEW r \in entered[s], Blocked(r)
      PROVE  Blocked(r)'
  <2>1. r \in Rooms /\ socketUser[s] \in Members(r)
    BY <1>1 DEF SubscriptionInv, SocketInv, Belongs
  <2>2. CASE Block(c, u, v)
    BY <1>7, <2>2 DEF Block, Blocked
  <2>3. CASE Unblock(c, u, v)
    <3>1. blocks' = blocks \ {<<u, v>>}
      BY <2>3 DEF Unblock
    <3> QED BY <1>1, <1>7, <2>1, <3>1, BlockConcernsMembers
  <2> QED BY <2>2, <2>3
<1>8. ASSUME NEW s \in Sockets
      PROVE  SocketInv(s)'
  <2>1. SocketInv(s) /\ (Notifying(s) => Notifying(s)')
    BY <1>1, <1>5, NoticeStays DEF SubscriptionInv, sockets
  <2>2. Belongs(s)' = Belongs(s) /\ \A r : Coming(s, r)' <=> Coming(s, r)
    BY <1>1 DEF Belongs, Coming, sockets
  <2>3. \A r \in entered[s] : Blocked(r) => Blocked(r)' \/ Notifying(s)'
    BY <1>6, <1>7
  <2> QED BY <1>1, <2>1, <2>2, <2>3 DEF SocketInv, sockets
<1> QED BY <1>2, <1>8 DEF SubscriptionInv

\* The listener begins a refresh for every socket that waited for it.
LEMMA NotifyKeeps ==
    ASSUME TypeStrong, SubscriptionInv, NEW c \in Callers, Notify(c)
    PROVE  SubscriptionInv'
<1>1. /\ CallsOK /\ SocketsOK /\ BlocksOthers /\ Ends(c) /\ Refreshed(Concerned(c))
      /\ UNCHANGED <<rooms, blocks, entered, socketUser>>
  BY DEF TypeStrong, ChatInv, SubscriptionInv, Notify, Refreshed
<1>2. ASSUME NEW s \in Sockets, socketUser[s] \in Concerned(c)
      PROVE  SocketInv(s)'
  <2>1. Free(s) # {} /\ refreshing'[s] = Begun(s)
    BY <1>1, <1>2 DEF Refreshed
  <2> QED BY <1>1, <2>1, BegunIsComing DEF SubscriptionInv
<1>3. ASSUME NEW s \in Sockets, socketUser[s] \notin Concerned(c)
      PROVE  SocketInv(s)'
  <2>1. joined'[s] = joined[s] /\ refreshing'[s] = refreshing[s] /\ SocketInv(s)
    BY <1>1, <1>3 DEF Refreshed, SubscriptionInv
  <2>2. Notifying(s) => Notifying(s)'
    <3>1. ASSUME NEW d \in Callers, At(d, "notify"), socketUser[s] \in Concerned(d)
          PROVE  Notifying(s)'
      <4>1. d # c
        BY <1>3, <3>1
      <4>2. call'[d] = call[d]
        BY <1>1, <4>1 DEF Ends, CallsOK
      <4> QED BY <1>1, <3>1, <4>2 DEF Notifying, At, Concerned, UserOf
    <3> QED BY <3>1 DEF Notifying
  <2>3. Belongs(s)' = Belongs(s) /\ \A r : Blocked(r)' <=> Blocked(r)
    BY <1>1 DEF Belongs, Blocked
  <2>4. \A r : Coming(s, r)' <=> Coming(s, r)
    BY <2>1 DEF Coming
  <2> QED BY <1>1, <2>1, <2>2, <2>3, <2>4 DEF SocketInv
<1> QED BY <1>1, <1>2, <1>3 DEF SubscriptionInv, BlocksOthers

LEMMA ProcessEndsKeeps ==
    ASSUME SubscriptionInv, ProcessEnds
    PROVE  SubscriptionInv'
BY DEF SubscriptionInv, BlocksOthers, ProcessEnds, SocketInv, NoRefresh

LEMMA ConnectKeeps ==
    ASSUME TypeStrong, SubscriptionInv, NEW s \in Sockets, NEW u \in Users, Connect(s, u)
    PROVE  SubscriptionInv'
<1>1. /\ socketUser[s] = NoUser /\ Free(s) # {} /\ socketUser' = [socketUser EXCEPT ![s] = u]
      /\ refreshing' = [refreshing EXCEPT ![s] = Begun(s)]
      /\ UNCHANGED <<rooms, blocks, joined, entered, call>>
  BY DEF Connect
<1>2. SocketsOK /\ rooms \subseteq Rooms /\ BlocksOthers /\ SocketInv(s)
  BY DEF TypeStrong, ChatInv, RowsOK, SubscriptionInv
<1>3. Belongs(s) = {}
  BY <1>1, <1>2, MembersAreUsers, AccountsAssumption DEF Belongs
<1>4. entered[s] = {} /\ \A i \in Refreshes : refreshing[s][i].rooms = {}
  BY <1>2, <1>3 DEF SocketInv
<1>5. SocketInv(s)'
  <2>1. PICK i \in Refreshes : Begun(s) = [refreshing[s] EXCEPT ![i] = Started]
    BY <1>1, <1>2, BegunIsRun
  <2>2. refreshing[s] \in [Refreshes -> Refresh] /\ refreshing'[s] = Begun(s)
    BY <1>1, <1>2 DEF SocketsOK
  <2>3. \A j \in Refreshes : refreshing'[s][j].rooms = {}
    BY <1>4, <2>1, <2>2 DEF Started
  <2> QED BY <1>1, <1>4, <2>3 DEF SocketInv
<1>6. ASSUME NEW x \in Sockets, x # s
      PROVE  SocketInv(x)'
  <2>1. socketUser'[x] = socketUser[x] /\ refreshing'[x] = refreshing[x] /\ SocketInv(x)
    BY <1>1, <1>2, <1>6 DEF SocketsOK, SubscriptionInv
  <2>2. Notifying(x) => Notifying(x)'
    BY <1>1, <2>1, UnchangedKeepsNotices, NoticeStays
  <2> QED BY <1>1, <2>1, <2>2 DEF SocketInv, Belongs, Coming, Blocked
<1> QED BY <1>1, <1>2, <1>5, <1>6 DEF SubscriptionInv, BlocksOthers

LEMMA DisconnectKeeps ==
    ASSUME TypeStrong, SubscriptionInv, NEW s \in Sockets, Disconnect(s)
    PROVE  SubscriptionInv'
<1>1. SocketsOK /\ BlocksOthers /\ UNCHANGED <<rooms, blocks, call>>
  BY DEF TypeStrong, ChatInv, SubscriptionInv, Disconnect
<1>2. /\ entered'[s] = {} /\ refreshing'[s] = [i \in Refreshes |-> NoRefresh]
      /\ \A x \in Sockets \ {s} : /\ socketUser'[x] = socketUser[x] /\ refreshing'[x] = refreshing[x]
                                  /\ joined'[x] = joined[x] /\ entered'[x] = entered[x]
  BY <1>1 DEF Disconnect, SocketsOK
<1>3. SocketInv(s)'
  BY <1>2 DEF SocketInv, NoRefresh
<1>4. ASSUME NEW x \in Sockets, x # s
      PROVE  SocketInv(x)'
  <2>1. SocketInv(x)
    BY DEF SubscriptionInv
  <2>2. Notifying(x) => Notifying(x)'
    BY <1>1, <1>2, <1>4, UnchangedKeepsNotices, NoticeStays
  <2> QED BY <1>1, <1>2, <1>4, <2>1, <2>2 DEF SocketInv, Belongs, Coming, Blocked
<1> QED BY <1>1, <1>3, <1>4 DEF SubscriptionInv, BlocksOthers

LEMMA ListRoomsKeeps ==
    ASSUME TypeStrong, SubscriptionInv, NEW s \in Sockets, ListRooms(s)
    PROVE  SubscriptionInv'
<1> DEFINE found == {r \in rooms : socketUser[s] \in Members(r) /\ ~Blocked(r)}
<1>1. /\ SocketsOK /\ BlocksOthers
      /\ UNCHANGED <<rooms, blocks, socketUser, joined, entered, call>>
  BY DEF TypeStrong, ChatInv, SubscriptionInv, ListRooms
<1>2. PICK i \in Refreshes : refreshing' = [refreshing EXCEPT ![s][i] =
         [stage |-> "listed", rooms |-> found]]
  BY DEF ListRooms
<1>3. /\ refreshing'[s][i].stage = "listed" /\ refreshing'[s][i].rooms = found
      /\ \A j \in Refreshes \ {i} : refreshing'[s][j] = refreshing[s][j]
      /\ \A x \in Sockets \ {s} : refreshing'[x] = refreshing[x]
  <2>1. PICK run : run = [stage |-> "listed", rooms |-> found]
    OBVIOUS
  <2>2. refreshing' = [refreshing EXCEPT ![s][i] = run]
    BY <1>2, <2>1
  <2> QED BY <1>1, <2>1, <2>2 DEF SocketsOK
<1>4. SocketInv(s)'
  <2>1. SocketInv(s)
    BY DEF SubscriptionInv
  <2>2. Belongs(s)' = Belongs(s) /\ found \subseteq Belongs(s)
    BY <1>1 DEF Belongs
  <2>3. /\ \A r : Blocked(r)' <=> Blocked(r)
        /\ Notifying(s) => Notifying(s)'
    BY <1>1, UnchangedKeepsNotices, NoticeStays DEF Blocked
  <2>4. ASSUME NEW r \in entered[s], ~Blocked(r)
        PROVE  Coming(s, r)'
    <3>1. r \in found
      BY <2>1, <2>4 DEF SocketInv, Belongs
    <3> QED BY <1>3, <3>1 DEF Coming
  <2>5. \A j \in Refreshes : refreshing'[s][j].rooms \subseteq Belongs(s)'
    BY <1>3, <2>1, <2>2 DEF SocketInv
  <2> QED BY <1>1, <2>1, <2>2, <2>3, <2>4, <2>5 DEF SocketInv
<1>5. ASSUME NEW x \in Sockets, x # s
      PROVE  SocketInv(x)'
  <2>1. SocketInv(x) /\ (Notifying(x) => Notifying(x)')
    BY <1>1, UnchangedKeepsNotices, NoticeStays DEF SubscriptionInv
  <2> QED BY <1>1, <1>3, <1>5, <2>1 DEF SocketInv, Belongs, Coming, Blocked
<1> QED BY <1>1, <1>4, <1>5 DEF SubscriptionInv, BlocksOthers

LEMMA JoinRoomsKeeps ==
    ASSUME TypeStrong, SubscriptionInv, NEW s \in Sockets, JoinRooms(s)
    PROVE  SubscriptionInv'
<1>1. /\ SocketsOK /\ BlocksOthers /\ UNCHANGED <<rooms, blocks, socketUser, call>>
  BY DEF TypeStrong, ChatInv, SubscriptionInv, JoinRooms
<1>2. PICK i \in Refreshes :
         /\ refreshing[s][i].stage = "listed"
         /\ joined' = [joined EXCEPT ![s] = With(s, refreshing[s][i].rooms)]
         /\ entered' = [entered EXCEPT ![s] = @ \cup refreshing[s][i].rooms]
         /\ refreshing' = [refreshing EXCEPT ![s][i] = NoRefresh]
  BY DEF JoinRooms
<1>3. /\ joined'[s] = joined[s] \cup refreshing[s][i].rooms
      /\ entered'[s] = entered[s] \cup refreshing[s][i].rooms
      /\ refreshing'[s][i] = NoRefresh
      /\ \A j \in Refreshes \ {i} : refreshing'[s][j] = refreshing[s][j]
      /\ \A x \in Sockets \ {s} : /\ refreshing'[x] = refreshing[x]
                                  /\ joined'[x] = joined[x] /\ entered'[x] = entered[x]
  BY <1>1, <1>2 DEF SocketsOK, With
<1>4. SocketInv(s)'
  <2>1. SocketInv(s)
    BY DEF SubscriptionInv
  <2>2. Belongs(s)' = Belongs(s)
    BY <1>1 DEF Belongs
  <2>3. /\ \A r : Blocked(r)' <=> Blocked(r)
        /\ Notifying(s) => Notifying(s)'
    BY <1>1, UnchangedKeepsNotices, NoticeStays DEF Blocked
  <2>4. ASSUME NEW r \in entered'[s], r \notin joined'[s], ~Blocked(r), ~Notifying(s)
        PROVE  Coming(s, r)'
    <3>1. r \in entered[s] /\ r \notin joined[s] /\ r \notin refreshing[s][i].rooms
      BY <1>3, <2>4
    <3>2. PICK j \in Refreshes :
             \/ refreshing[s][j].stage = "started"
             \/ refreshing[s][j].stage = "listed" /\ r \in refreshing[s][j].rooms
      BY <2>1, <2>4, <3>1 DEF SocketInv, Coming
    <3>3. j # i
      BY <1>2, <3>1, <3>2
    <3> QED BY <1>3, <3>2, <3>3 DEF Coming
  <2>5. NoRefresh.rooms = {}
    BY DEF NoRefresh
  <2>6. entered'[s] \subseteq Belongs(s)'
    BY <1>3, <2>1, <2>2 DEF SocketInv
  <2>7. \A j \in Refreshes : refreshing'[s][j].rooms \subseteq Belongs(s)'
    BY <1>3, <2>1, <2>2, <2>5 DEF SocketInv
  <2> QED BY <2>3, <2>4, <2>6, <2>7 DEF SocketInv
<1>5. ASSUME NEW x \in Sockets, x # s
      PROVE  SocketInv(x)'
  <2>1. SocketInv(x) /\ (Notifying(x) => Notifying(x)')
    BY <1>1, UnchangedKeepsNotices, NoticeStays DEF SubscriptionInv
  <2> QED BY <1>1, <1>3, <1>5, <2>1 DEF SocketInv, Belongs, Coming, Blocked
<1> QED BY <1>1, <1>4, <1>5 DEF SubscriptionInv, BlocksOthers

LEMMA EnterRoomKeeps ==
    ASSUME TypeStrong, SubscriptionInv, NEW c \in Callers, EnterRoom(c)
    PROVE  SubscriptionInv'
<1> DEFINE r == call[c].room
<1>1. /\ SocketsOK /\ BlocksOthers /\ UNCHANGED <<rooms, blocks, socketUser, refreshing>>
      /\ CallsOK /\ At(c, "enter") /\ Ends(c)
  BY DEF TypeStrong, ChatInv, SubscriptionInv, EnterRoom
<1>2. r \in rooms
  BY DEF EnterRoom, TypeStrong, ChatInv, ReadsThePast, Reading
<1>3. ASSUME NEW s \in Sockets
      PROVE  /\ socketUser[s] \in Members(r) =>
                    joined'[s] = joined[s] \cup {r} /\ entered'[s] = entered[s] \cup {r}
             /\ socketUser[s] \notin Members(r) => joined'[s] = joined[s] /\ entered'[s] = entered[s]
  BY DEF EnterRoom
<1>4. ASSUME NEW s \in Sockets
      PROVE  SocketInv(s)'
  <2>0. ~At(c, "notify")
    BY <1>1 DEF At
  <2>1. SocketInv(s) /\ (Notifying(s) => Notifying(s)')
    BY <1>1, <2>0, EndsKeepsNotices, NoticeStays DEF SubscriptionInv
  <2>2. Belongs(s)' = Belongs(s) /\ (socketUser[s] \in Members(r) => r \in Belongs(s))
    BY <1>1, <1>2 DEF Belongs
  <2>3. \A x : (Blocked(x)' <=> Blocked(x)) /\ (Coming(s, x)' <=> Coming(s, x))
    BY <1>1 DEF Blocked, Coming
  <2> QED BY <1>1, <1>3, <2>1, <2>2, <2>3 DEF SocketInv
<1> QED BY <1>1, <1>4 DEF SubscriptionInv, BlocksOthers

LEMMA NextKeepsSubscriptions == TypeStrong /\ SubscriptionInv /\ [Next]_vars => SubscriptionInv'
<1> SUFFICES ASSUME TypeStrong, SubscriptionInv, [Next]_vars PROVE SubscriptionInv'
  OBVIOUS
<1>1. CallsOK /\ messages \in Seq(Message)
  BY DEF TypeStrong, ChatInv, RowsOK
<1>2. CASE AccountsNext /\ UNCHANGED cvars
  BY <1>1, <1>2, AccountsKeepNotices, Untouched DEF cvars
<1>3. CASE UNCHANGED vars
  BY <1>3, UnchangedKeepsNotices, Untouched DEF vars, cvars
<1>4. ASSUME NEW c \in Callers,
             \/ \E u \in Users, r \in Rooms : AskSend(c, u, r) \/ AskDetail(c, u, r)
             \/ \E u \in Users, x \in Targets : AskReport(c, u, x)
      PROVE  SubscriptionInv'
  <2>1. NoticesStay
    BY <1>1, <1>4, BeginsKeepsNotices DEF AskSend, AskDetail, AskReport
  <2>2. UNCHANGED cvars
    BY <1>4 DEF AskSend, AskDetail, AskReport
  <2> QED BY <2>1, <2>2, Untouched DEF cvars
<1>5. ASSUME NEW c \in Callers,
             \/ StampMessage(c) \/ StoreMessage(c) \/ FindExisting(c) \/ Acknowledge(c)
             \/ ShowMessages(c) \/ MarkRead(c) \/ StoreReport(c)
      PROVE  SubscriptionInv'
  <2>1. ~At(c, "notify")
    BY <1>5 DEF At, StampMessage, StoreMessage, FindExisting, Acknowledge, ShowMessages, MarkRead,
                StoreReport
  <2>2. NoticesStay
    <3>1. CASE StampMessage(c)
      <4>1. PICK q : call' = [call EXCEPT ![c] = q]
        BY <1>1, <3>1, Stamps
      <4>2. \A d \in Callers \ {c} : call'[d] = call[d]
        BY <1>1, <4>1 DEF CallsOK
      <4> QED BY <1>1, <2>1, <4>2, OthersKeepNotices
    <3>2. CASE StoreMessage(c) \/ FindExisting(c) \/ Acknowledge(c)
      BY <1>1, <2>1, <3>2, GoesKeepsNotices, EndsKeepsNotices
      DEF StoreMessage, FindExisting, Acknowledge
    <3>3. CASE ShowMessages(c) \/ MarkRead(c) \/ StoreReport(c)
      BY <1>1, <2>1, <3>3, GoesKeepsNotices, EndsKeepsNotices
      DEF ShowMessages, MarkRead, StoreReport
    <3> QED BY <1>5, <3>1, <3>2, <3>3
  <2>3. UNCHANGED <<rooms, blocks, sockets>>
    BY <1>5 DEF StampMessage, StoreMessage, FindExisting, Acknowledge, ShowMessages, MarkRead,
                StoreReport, cvars
  <2> QED BY <2>2, <2>3, Untouched
<1>6. ASSUME NEW u \in Users,
             \/ MinutePasses(u)
             \/ \E r \in Rooms : CreateRoom(u, r)
             \/ \E x \in Targets : ResolveReport(u, x)
      PROVE  SubscriptionInv'
  BY <1>6, UnchangedKeepsNotices, Untouched DEF MinutePasses, CreateRoom, ResolveReport
<1>7. CASE ChatNext
  BY <1>4, <1>5, <1>6, <1>7, EnterRoomKeeps, BlockKeeps, NotifyKeeps, ProcessEndsKeeps,
     ConnectKeeps, DisconnectKeeps, ListRoomsKeeps, JoinRoomsKeeps DEF ChatNext
<1> QED BY <1>2, <1>3, <1>7 DEF Next

-----------------------------------------------------------------------------
(* Guesses.                                                                *)
LEMMA GuessingSteps == \A k : \A r \in Guessing(k) : r.step \in {"guess"}
BY DEF Guessing

LEMMA GuessElsewhere ==
    ASSUME TypeStrong, GuessInv, Elsewhere({"guess"}), codes' \in [Codes -> Code],
           \A k \in Codes : codes'[k].attempts \in {codes[k].attempts, 0}
    PROVE  GuessInv'
<1> SUFFICES ASSUME NEW k \in Codes
             PROVE  codes'[k].attempts + Cardinality(InFlight(Guessing(k))')
                        <= LockAfterFailures + N - 1
  BY DEF GuessInv, N
<1>1. codes[k].attempts \in Nat
  BY DEF TypeStrong, AccountsInv, AccountsOK, AccountsTypeOK, Code
<1>2. Cardinality(InFlight(Guessing(k))') <= Cardinality(InFlight(Guessing(k)))
  BY GuessingSteps, NoneMore
<1>3. /\ Cardinality(InFlight(Guessing(k))) \in Nat /\ Cardinality(InFlight(Guessing(k))') \in Nat
      /\ N \in Nat
  BY InFlightCallers, CallersCount
<1>4. codes[k].attempts + Cardinality(InFlight(Guessing(k))) <= LockAfterFailures + N - 1
  BY DEF GuessInv
<1> QED BY <1>1, <1>2, <1>3, <1>4, AccountsAssumption

LEMMA ReadCodeKeepsGuesses ==
    ASSUME TypeStrong, GuessInv, NEW c \in Callers, NEW u \in Users, NEW purpose \in Purpose,
           ReadCode(c, u, purpose)
    PROVE  GuessInv'
<1>1. PICK newest \in Codes :
         /\ codes[newest].attempts < LockAfterFailures
         /\ Begins(c, [step |-> "guess", user |-> u, purpose |-> purpose, id |-> newest])
  BY DEF ReadCode, Live, MayGuess
<1>2. UNCHANGED codes /\ CallsOK
  BY DEF ReadCode, avars, TypeStrong, AccountsInv
<1> SUFFICES ASSUME NEW k \in Codes
             PROVE  codes[k].attempts + Cardinality(InFlight(Guessing(k))')
                        <= LockAfterFailures + N - 1
  BY <1>2 DEF GuessInv, N
<1>3. codes[k].attempts \in Nat /\ LockAfterFailures \in Nat
  BY AccountsAssumption DEF TypeStrong, AccountsInv, AccountsOK, AccountsTypeOK, Code
<1>4. /\ Cardinality(InFlight(Guessing(k))) \in Nat /\ Cardinality(InFlight(Guessing(k))') \in Nat
      /\ N \in Nat /\ Cardinality(InFlight(Guessing(k))') <= N
  BY InFlightCallers, CallersCount
<1>5. CASE k = newest
  BY <1>1, <1>3, <1>4, <1>5
<1>6. CASE k # newest
  <2>1. [step |-> "guess", user |-> u, purpose |-> purpose, id |-> newest] \notin Guessing(k)
    BY <1>6 DEF Guessing
  <2>2. Cardinality(InFlight(Guessing(k))') <= Cardinality(InFlight(Guessing(k)))
    BY <1>1, <1>2, <2>1, NoneMoreBegins
  <2>3. codes[k].attempts + Cardinality(InFlight(Guessing(k))) <= LockAfterFailures + N - 1
    BY DEF GuessInv
  <2> QED BY <1>3, <1>4, <2>2, <2>3
<1> QED BY <1>5, <1>6

LEMMA GuessWrongKeepsGuesses ==
    ASSUME TypeStrong, GuessInv, NEW c \in Callers, GuessWrong(c)
    PROVE  GuessInv'
<1>1. CallsOK /\ codes \in [Codes -> Code] /\ At(c, "guess") /\ Ends(c)
  BY DEF GuessWrong, TypeStrong, AccountsInv, AccountsOK, AccountsTypeOK
<1>2. PICK id \in Codes : id = call[c].id
  BY <1>1, Kinds DEF GuessCall
<1>3. call[c] # NoCall /\ call[c] \in Guessing(id)
  <2>1. call[c] \in GuessCall /\ call[c].step = "guess" /\ call[c] # NoCall
    BY <1>1, Kinds DEF At
  <2> QED BY <1>2, <2>1 DEF GuessCall, Guessing
<1>4. codes' = [codes EXCEPT ![id].attempts = codes[id].attempts + 1]
  BY <1>1, <1>2 DEF GuessWrong
<1>5. /\ codes'[id].attempts = codes[id].attempts + 1
      /\ \A k \in Codes \ {id} : codes'[k] = codes[k]
  BY <1>1, <1>4 DEF Code
<1>6. Elsewhere({"guess"}) /\ call'[c] = NoCall
  BY <1>1, EndsElsewhere DEF Ends, CallsOK
<1> SUFFICES ASSUME NEW k \in Codes
             PROVE  codes'[k].attempts + Cardinality(InFlight(Guessing(k))')
                        <= LockAfterFailures + N - 1
  BY DEF GuessInv, N
<1>7. codes[k].attempts \in Nat /\ LockAfterFailures \in Nat
  BY <1>1, AccountsAssumption DEF Code
<1>8. /\ Cardinality(InFlight(Guessing(k))) \in Nat /\ Cardinality(InFlight(Guessing(k))') \in Nat
      /\ N \in Nat
  BY InFlightCallers, CallersCount
<1>9. codes[k].attempts + Cardinality(InFlight(Guessing(k))) <= LockAfterFailures + N - 1
  BY DEF GuessInv
<1>10. CASE k = id
  <2>1. Cardinality(InFlight(Guessing(k))') + 1 <= Cardinality(InFlight(Guessing(k)))
    BY <1>3, <1>6, <1>10, GuessingSteps, OneLess
  <2> QED BY <1>5, <1>7, <1>8, <1>9, <1>10, <2>1
<1>11. CASE k # id
  <2>1. Cardinality(InFlight(Guessing(k))') <= Cardinality(InFlight(Guessing(k)))
    BY <1>6, GuessingSteps, NoneMore
  <2> QED BY <1>5, <1>7, <1>8, <1>9, <1>11, <2>1
<1> QED BY <1>10, <1>11

LEMMA OtherCodeSteps ==
    ASSUME TypeStrong, NEW c \in Callers, DeleteCodes(c) \/ CreateCode(c) \/ GuessRight(c)
    PROVE  /\ Elsewhere({"guess"})
           /\ codes' \in [Codes -> Code]
           /\ \A k \in Codes : codes'[k].attempts \in {codes[k].attempts, 0}
<1>1. CallsOK /\ codes \in [Codes -> Code] /\ AccountsInv
  BY DEF TypeStrong, AccountsInv, AccountsOK, AccountsTypeOK
<1>2. codes' \in [Codes -> Code]
  BY <1>1, CodeStepsTyped
<1>3. NoCode.attempts = 0 /\ \A u, purpose : NewCode(u, purpose).attempts = 0
  BY DEF NoCode, NewCode
<1>4. CASE DeleteCodes(c)
  BY <1>1, <1>2, <1>3, <1>4, GoesElsewhere DEF DeleteCodes, Advance
<1>5. CASE CreateCode(c)
  BY <1>1, <1>2, <1>3, <1>5, EndsElsewhere DEF CreateCode
<1>6. CASE GuessRight(c)
  <2>1. Elsewhere({"guess"})
    BY <1>1, <1>6, GoesElsewhere DEF GuessRight, Advance
  <2>2. \A k \in Codes : codes'[k].attempts = codes[k].attempts
    BY <1>1, <1>6 DEF GuessRight, Code
  <2> QED BY <1>2, <2>1, <2>2
<1> QED BY <1>4, <1>5, <1>6

LEMMA NextKeepsGuesses == TypeStrong /\ GuessInv /\ [Next]_vars => GuessInv'
<1> SUFFICES ASSUME TypeStrong, GuessInv, [Next]_vars PROVE GuessInv'
  OBVIOUS
<1>1. CallsOK /\ codes \in [Codes -> Code]
  BY DEF TypeStrong, AccountsInv, AccountsOK, AccountsTypeOK
<1>2. ASSUME Elsewhere({"guess"}), UNCHANGED codes
      PROVE  GuessInv'
  BY <1>1, <1>2, GuessElsewhere
<1>3. CASE ChatNext /\ UNCHANGED avars
  <2>1. Elsewhere({"guess"})
    BY <1>1, <1>3, ChatElsewhere DEF Elsewhere, AccountSteps, TypeStrong, ChatInv, RowsOK
  <2> QED BY <1>2, <1>3, <2>1 DEF avars
<1>4. CASE UNCHANGED vars
  BY <1>2, <1>4, UnchangedElsewhere DEF vars, avars
<1>5. ASSUME NEW c \in Callers, NEW r, Begins(c, r), r.step # "guess", UNCHANGED codes
      PROVE  GuessInv'
  <2>1. r.step \notin {"guess"}
    BY <1>5
  <2> QED BY <1>1, <1>2, <1>5, <2>1, BeginsElsewhere
<1>6. ASSUME NEW c \in Callers, NEW u \in Users,
             \/ SignUp(c, u) \/ AskCode(c, u) \/ Login(c, u) \/ AskWithdraw(c, u)
      PROVE  GuessInv'
  BY <1>5, <1>6 DEF SignUp, AskCode, Login, AskWithdraw, avars
<1>7. ASSUME NEW c \in Callers,
             CountCodes(c) \/ ClearThrottle(c) \/ PasswordRight(c) \/ PasswordWrong(c)
      PROVE  GuessInv'
  <2>1. CASE CountCodes(c)
    BY <1>1, <1>2, <2>1, GoesElsewhere, EndsElsewhere DEF CountCodes, Advance, avars
  <2>2. CASE ClearThrottle(c)
    BY <1>1, <1>2, <2>2, GoesElsewhere DEF ClearThrottle, Advance
  <2>3. CASE PasswordRight(c)
    BY <1>1, <1>2, <2>3, GoesElsewhere DEF PasswordRight, Advance, avars
  <2>4. CASE PasswordWrong(c)
    BY <1>1, <1>2, <2>4, GoesElsewhere DEF PasswordWrong, Advance, avars
  <2> QED BY <1>7, <2>1, <2>2, <2>3, <2>4
<1>8. ASSUME NEW c \in Callers,
             \/ ConfirmContact(c) \/ ResetPassword(c) \/ RecordFailure(c) \/ OpenSession(c)
             \/ Withdraw(c) \/ CallLost(c)
      PROVE  GuessInv'
  BY <1>1, <1>2, <1>8, EndsElsewhere
  DEF ConfirmContact, ResetPassword, RecordFailure, OpenSession, Withdraw, CallLost, avars
<1>9. ASSUME NEW c \in Callers, DeleteCodes(c) \/ CreateCode(c) \/ GuessRight(c)
      PROVE  GuessInv'
  BY <1>9, OtherCodeSteps, GuessElsewhere
<1>10. ASSUME NEW u \in Users, CodesExpire(u)
       PROVE  GuessInv'
  <2>1. \A k \in Codes : codes'[k].attempts = codes[k].attempts
    BY <1>1, <1>10 DEF CodesExpire, Code
  <2>2. codes' \in [Codes -> Code]
    BY <1>1, <1>10 DEF CodesExpire, Code
  <2>3. Elsewhere({"guess"})
    BY <1>10, UnchangedElsewhere DEF CodesExpire
  <2> QED BY <2>1, <2>2, <2>3, GuessElsewhere
<1>11. ASSUME NEW u \in Users, WindowEnds(u) \/ LockEnds(u) \/ Suspend(u) \/ Reinstate(u)
       PROVE  GuessInv'
  BY <1>2, <1>11, UnchangedElsewhere DEF WindowEnds, LockEnds, Suspend, Reinstate
<1>12. ASSUME NEW t \in Tokens, Logout(t)
       PROVE  GuessInv'
  BY <1>2, <1>12, UnchangedElsewhere DEF Logout
<1>13. CASE AccountsNext
  BY <1>6, <1>7, <1>8, <1>9, <1>10, <1>11, <1>12, <1>13, ReadCodeKeepsGuesses,
     GuessWrongKeepsGuesses DEF AccountsNext
<1> QED BY <1>3, <1>4, <1>13 DEF Next

-----------------------------------------------------------------------------
(* Codes.                                                                  *)
LEMMA CreatingSteps == \A u, purpose : \A r \in Creating(u, purpose) : r.step \in {"create"}
BY DEF Creating

LEMMA CodeElsewhere ==
    ASSUME CodeInv, Elsewhere({"create"}),
           \A u \in Users, purpose \in Purpose :
              UnusedCodes(u, purpose)' \subseteq UnusedCodes(u, purpose)
    PROVE  CodeInv'
<1> SUFFICES ASSUME NEW u \in Users, NEW purpose \in Purpose
             PROVE  /\ IsFiniteSet(UnusedCodes(u, purpose)')
                    /\ Cardinality(UnusedCodes(u, purpose)')
                           + Cardinality(InFlight(Creating(u, purpose))') <= N
  BY DEF CodeInv, N
<1>1. /\ IsFiniteSet(UnusedCodes(u, purpose))
      /\ Cardinality(UnusedCodes(u, purpose)) + Cardinality(InFlight(Creating(u, purpose))) <= N
  BY DEF CodeInv
<1>2. /\ IsFiniteSet(UnusedCodes(u, purpose)')
      /\ Cardinality(UnusedCodes(u, purpose)') <= Cardinality(UnusedCodes(u, purpose))
  BY <1>1, FS_Subset
<1>3. Cardinality(InFlight(Creating(u, purpose))') <= Cardinality(InFlight(Creating(u, purpose)))
  BY CreatingSteps, NoneMore
<1>4. /\ Cardinality(UnusedCodes(u, purpose)) \in Nat /\ Cardinality(UnusedCodes(u, purpose)') \in Nat
      /\ Cardinality(InFlight(Creating(u, purpose))) \in Nat
      /\ Cardinality(InFlight(Creating(u, purpose))') \in Nat /\ N \in Nat
  BY <1>1, <1>2, FS_CardinalityType, InFlightCallers, CallersCount
<1> QED BY <1>1, <1>2, <1>3, <1>4

LEMMA DeleteKeepsCodes ==
    ASSUME TypeStrong, CodeInv, NEW c \in Callers, DeleteCodes(c)
    PROVE  CodeInv'
<1>1. CallsOK /\ codes \in [Codes -> Code]
  BY DEF TypeStrong, AccountsInv, AccountsOK, AccountsTypeOK
<1>2. PICK q \in CodeCall : /\ q.step = "create" /\ q.user = call[c].user
                            /\ q.purpose = call[c].purpose
                            /\ call' = [call EXCEPT ![c] = q]
  BY <1>1, GoesOn DEF DeleteCodes, Advance
<1>3. codes' = [k \in Codes |-> IF Obsolete(codes[k], c) THEN NoCode ELSE codes[k]]
  BY DEF DeleteCodes
<1>4. NoCode.user = NoUser /\ NoUser \notin Users
  BY AccountsAssumption DEF NoCode, NewCode
<1> SUFFICES ASSUME NEW u \in Users, NEW purpose \in Purpose
             PROVE  /\ IsFiniteSet(UnusedCodes(u, purpose)')
                    /\ Cardinality(UnusedCodes(u, purpose)')
                           + Cardinality(InFlight(Creating(u, purpose))') <= N
  BY DEF CodeInv, N
<1>5. /\ IsFiniteSet(UnusedCodes(u, purpose))
      /\ Cardinality(UnusedCodes(u, purpose)) + Cardinality(InFlight(Creating(u, purpose))) <= N
  BY DEF CodeInv
<1>6. /\ Cardinality(InFlight(Creating(u, purpose))) \in Nat
      /\ Cardinality(InFlight(Creating(u, purpose))') \in Nat
      /\ Cardinality(InFlight(Creating(u, purpose))') <= N /\ N \in Nat
  BY InFlightCallers, CallersCount
<1>7. UnusedCodes(u, purpose)' \subseteq UnusedCodes(u, purpose)
  BY <1>3, <1>4 DEF UnusedCodes
<1>8. /\ IsFiniteSet(UnusedCodes(u, purpose)')
      /\ Cardinality(UnusedCodes(u, purpose)') <= Cardinality(UnusedCodes(u, purpose))
      /\ Cardinality(UnusedCodes(u, purpose)) \in Nat /\ Cardinality(UnusedCodes(u, purpose)') \in Nat
  BY <1>5, <1>7, FS_Subset, FS_CardinalityType
<1>9. CASE call[c].user = u /\ call[c].purpose = purpose
  <2>1. UnusedCodes(u, purpose)' = {}
    BY <1>3, <1>4, <1>9 DEF UnusedCodes, Obsolete, Asks, UserOf
  <2>2. Cardinality(UnusedCodes(u, purpose)') = 0
    BY <2>1, FS_EmptySet
  <2> QED BY <1>6, <1>8, <2>2
<1>10. CASE ~(call[c].user = u /\ call[c].purpose = purpose)
  <2>1. q \notin Creating(u, purpose)
    BY <1>2, <1>10 DEF Creating
  <2>2. InFlight(Creating(u, purpose))' \subseteq InFlight(Creating(u, purpose))
    BY <1>1, <1>2, <2>1 DEF InFlight, CallsOK
  <2>3. Cardinality(InFlight(Creating(u, purpose))') <= Cardinality(InFlight(Creating(u, purpose)))
    BY <2>2, InFlightCallers, FewerCallers
  <2> QED BY <1>5, <1>6, <1>8, <2>3
<1> QED BY <1>9, <1>10

LEMMA CreateKeepsCodes ==
    ASSUME TypeStrong, CodeInv, NEW c \in Callers, CreateCode(c)
    PROVE  CodeInv'
<1>1. CallsOK /\ codes \in [Codes -> Code] /\ At(c, "create") /\ Ends(c)
  BY DEF CreateCode, TypeStrong, AccountsInv, AccountsOK, AccountsTypeOK
<1>2. PICK v \in Users, p \in Purpose : v = call[c].user /\ p = call[c].purpose
  BY <1>1, Kinds DEF CodeCall
<1>3. PICK new \in Codes : codes' = [codes EXCEPT ![new] = NewCode(v, p)]
  BY <1>1, <1>2 DEF CreateCode, Fresh, UserOf
<1>4. NewCode(v, p).user = v /\ NewCode(v, p).purpose = p
  BY DEF NewCode
<1>5. Elsewhere({"create"}) /\ call'[c] = NoCall
  BY <1>1, EndsElsewhere DEF Ends, CallsOK
<1>6. call[c] # NoCall /\ call[c] \in Creating(v, p)
  <2>1. call[c] \in CodeCall /\ call[c].step = "create" /\ call[c] # NoCall
    BY <1>1, Kinds DEF At
  <2> QED BY <1>2, <2>1 DEF CodeCall, Creating
<1> SUFFICES ASSUME NEW u \in Users, NEW purpose \in Purpose
             PROVE  /\ IsFiniteSet(UnusedCodes(u, purpose)')
                    /\ Cardinality(UnusedCodes(u, purpose)')
                           + Cardinality(InFlight(Creating(u, purpose))') <= N
  BY DEF CodeInv, N
<1>7. /\ IsFiniteSet(UnusedCodes(u, purpose))
      /\ Cardinality(UnusedCodes(u, purpose)) + Cardinality(InFlight(Creating(u, purpose))) <= N
      /\ Cardinality(UnusedCodes(u, purpose)) \in Nat
  BY FS_CardinalityType DEF CodeInv
<1>8. /\ Cardinality(InFlight(Creating(u, purpose))) \in Nat
      /\ Cardinality(InFlight(Creating(u, purpose))') \in Nat /\ N \in Nat
  BY InFlightCallers, CallersCount
<1>9. CASE u = v /\ purpose = p
  <2>1. UnusedCodes(u, purpose)' \subseteq UnusedCodes(u, purpose) \cup {new}
    BY <1>1, <1>3 DEF UnusedCodes
  <2>2. /\ IsFiniteSet(UnusedCodes(u, purpose)')
        /\ Cardinality(UnusedCodes(u, purpose)') <= Cardinality(UnusedCodes(u, purpose)) + 1
        /\ Cardinality(UnusedCodes(u, purpose)') \in Nat
    BY <1>7, <2>1, OneMore, FS_CardinalityType
  <2>3. Cardinality(InFlight(Creating(u, purpose))') + 1 <= Cardinality(InFlight(Creating(u, purpose)))
    BY <1>5, <1>6, <1>9, CreatingSteps, OneLess
  <2> QED BY <1>7, <1>8, <2>2, <2>3
<1>10. CASE ~(u = v /\ purpose = p)
  <2>1. UnusedCodes(u, purpose)' \subseteq UnusedCodes(u, purpose)
    BY <1>1, <1>3, <1>4, <1>10 DEF UnusedCodes
  <2>2. /\ IsFiniteSet(UnusedCodes(u, purpose)')
        /\ Cardinality(UnusedCodes(u, purpose)') <= Cardinality(UnusedCodes(u, purpose))
        /\ Cardinality(UnusedCodes(u, purpose)') \in Nat
    BY <1>7, <2>1, FS_Subset, FS_CardinalityType
  <2>3. Cardinality(InFlight(Creating(u, purpose))') <= Cardinality(InFlight(Creating(u, purpose)))
    BY <1>5, CreatingSteps, NoneMore
  <2> QED BY <1>7, <1>8, <2>2, <2>3
<1> QED BY <1>9, <1>10

LEMMA NextKeepsCodes == TypeStrong /\ CodeInv /\ [Next]_vars => CodeInv'
<1> SUFFICES ASSUME TypeStrong, CodeInv, [Next]_vars PROVE CodeInv'
  OBVIOUS
<1>1. CallsOK /\ codes \in [Codes -> Code]
  BY DEF TypeStrong, AccountsInv, AccountsOK, AccountsTypeOK
<1>2. ASSUME Elsewhere({"create"}), UNCHANGED codes
      PROVE  CodeInv'
  BY <1>2, CodeElsewhere DEF UnusedCodes
<1>3. CASE ChatNext /\ UNCHANGED avars
  <2>1. Elsewhere({"create"})
    BY <1>1, <1>3, ChatElsewhere DEF Elsewhere, AccountSteps, TypeStrong, ChatInv, RowsOK
  <2> QED BY <1>2, <1>3, <2>1 DEF avars
<1>4. CASE UNCHANGED vars
  BY <1>2, <1>4, UnchangedElsewhere DEF vars, avars
<1>5. ASSUME NEW c \in Callers, NEW r, Begins(c, r), r.step # "create", UNCHANGED codes
      PROVE  CodeInv'
  <2>1. r.step \notin {"create"}
    BY <1>5
  <2> QED BY <1>1, <1>2, <1>5, <2>1, BeginsElsewhere
<1>6. ASSUME NEW c \in Callers, NEW u \in Users,
             \/ SignUp(c, u) \/ AskCode(c, u) \/ Login(c, u) \/ AskWithdraw(c, u)
             \/ \E purpose \in Purpose : ReadCode(c, u, purpose)
      PROVE  CodeInv'
  BY <1>5, <1>6 DEF SignUp, AskCode, Login, AskWithdraw, ReadCode, avars
<1>7. ASSUME NEW c \in Callers,
             CountCodes(c) \/ ClearThrottle(c) \/ PasswordRight(c) \/ PasswordWrong(c)
      PROVE  CodeInv'
  <2>1. CASE CountCodes(c)
    BY <1>1, <1>2, <2>1, GoesElsewhere, EndsElsewhere DEF CountCodes, Advance, avars
  <2>2. CASE ClearThrottle(c)
    BY <1>1, <1>2, <2>2, GoesElsewhere DEF ClearThrottle, Advance
  <2>3. CASE PasswordRight(c)
    BY <1>1, <1>2, <2>3, GoesElsewhere DEF PasswordRight, Advance, avars
  <2>4. CASE PasswordWrong(c)
    BY <1>1, <1>2, <2>4, GoesElsewhere DEF PasswordWrong, Advance, avars
  <2> QED BY <1>7, <2>1, <2>2, <2>3, <2>4
<1>8. ASSUME NEW c \in Callers,
             \/ ConfirmContact(c) \/ ResetPassword(c) \/ RecordFailure(c) \/ OpenSession(c)
             \/ Withdraw(c) \/ CallLost(c)
      PROVE  CodeInv'
  BY <1>1, <1>2, <1>8, EndsElsewhere
  DEF ConfirmContact, ResetPassword, RecordFailure, OpenSession, Withdraw, CallLost, avars
<1>9. ASSUME NEW c \in Callers, GuessWrong(c) \/ GuessRight(c)
      PROVE  CodeInv'
  <2>1. Elsewhere({"create"})
    BY <1>1, <1>9, EndsElsewhere, GoesElsewhere DEF GuessWrong, GuessRight, Advance
  <2>2. PICK id \in Codes : id = call[c].id
    BY <1>1, <1>9, Kinds DEF GuessWrong, GuessRight, GuessCall
  <2>3. \A k \in Codes : /\ codes'[k].user = codes[k].user /\ codes'[k].purpose = codes[k].purpose
                         /\ codes'[k].consumed = codes[k].consumed \/ codes'[k].consumed = TRUE
    BY <1>1, <1>9, <2>2 DEF GuessWrong, GuessRight, Code
  <2> QED BY <2>1, <2>3, CodeElsewhere DEF UnusedCodes
<1>10. ASSUME NEW u \in Users, CodesExpire(u)
       PROVE  CodeInv'
  <2>1. \A k \in Codes : /\ codes'[k].user = codes[k].user /\ codes'[k].purpose = codes[k].purpose
                         /\ codes'[k].consumed = codes[k].consumed
    BY <1>1, <1>10 DEF CodesExpire, Code
  <2>2. Elsewhere({"create"})
    BY <1>10, UnchangedElsewhere DEF CodesExpire
  <2> QED BY <2>1, <2>2, CodeElsewhere DEF UnusedCodes
<1>11. ASSUME NEW u \in Users, WindowEnds(u) \/ LockEnds(u) \/ Suspend(u) \/ Reinstate(u)
       PROVE  CodeInv'
  BY <1>2, <1>11, UnchangedElsewhere DEF WindowEnds, LockEnds, Suspend, Reinstate
<1>12. ASSUME NEW t \in Tokens, Logout(t)
       PROVE  CodeInv'
  BY <1>2, <1>12, UnchangedElsewhere DEF Logout
<1>13. CASE AccountsNext
  BY <1>6, <1>7, <1>8, <1>9, <1>10, <1>11, <1>12, <1>13, DeleteKeepsCodes, CreateKeepsCodes
  DEF AccountsNext
<1> QED BY <1>3, <1>4, <1>13 DEF Next

-----------------------------------------------------------------------------
(* Sessions.                                                               *)
LEMMA OpeningSteps == \A u : \A r \in Opening(u) : r.step \in {"clear", "open"}
BY DEF Opening

\* The bound for one user, after a step.
SessionBound(u) ==
    Closed(u) => /\ IsFiniteSet(OpenSessions(u))
                 /\ Cardinality(OpenSessions(u)) + Cardinality(InFlight(Opening(u))) <= N

LEMMA FewerSessions ==
    ASSUME SessionInv, NEW u \in Users,
           Closed(u)' => Closed(u) /\ OpenSessions(u)' \subseteq OpenSessions(u),
           InFlight(Opening(u))' \subseteq InFlight(Opening(u))
    PROVE  SessionBound(u)'
<1> SUFFICES ASSUME Closed(u)'
             PROVE  /\ IsFiniteSet(OpenSessions(u)')
                    /\ Cardinality(OpenSessions(u)') + Cardinality(InFlight(Opening(u))') <= N
  BY DEF SessionBound, N
<1>1. /\ IsFiniteSet(OpenSessions(u)) /\ Cardinality(OpenSessions(u)) \in Nat
      /\ Cardinality(OpenSessions(u)) + Cardinality(InFlight(Opening(u))) <= N
  BY FS_CardinalityType DEF SessionInv
<1>2. /\ IsFiniteSet(OpenSessions(u)') /\ Cardinality(OpenSessions(u)') \in Nat
      /\ Cardinality(OpenSessions(u)') <= Cardinality(OpenSessions(u))
  BY <1>1, FS_Subset, FS_CardinalityType
<1>3. Cardinality(InFlight(Opening(u))') <= Cardinality(InFlight(Opening(u)))
  BY InFlightCallers, FewerCallers
<1>4. /\ Cardinality(InFlight(Opening(u))) \in Nat
      /\ Cardinality(InFlight(Opening(u))') \in Nat /\ N \in Nat
  BY InFlightCallers, CallersCount
<1> QED BY <1>1, <1>2, <1>3, <1>4

\* All sessions are revoked; those of logins in flight may still come.
LEMMA RevokedSessions ==
    ASSUME TypeStrong, NEW u \in Users, RevokeAll(u)
    PROVE  SessionBound(u)' /\ \A v : OpenSessions(v)' \subseteq OpenSessions(v)
<1>1. \A t \in Tokens : /\ session'[t].user = session[t].user
                        /\ session'[t].revoked = session[t].revoked \/ session'[t].revoked = TRUE
                        /\ session[t].user = u => session'[t].revoked = TRUE
  BY DEF RevokeAll, Session, TypeStrong, AccountsInv, AccountsOK, AccountsTypeOK
<1>2. OpenSessions(u)' = {} /\ \A v : OpenSessions(v)' \subseteq OpenSessions(v)
  BY <1>1 DEF OpenSessions, Open
<1>3. IsFiniteSet(OpenSessions(u)') /\ Cardinality(OpenSessions(u)') = 0
  BY <1>2, FS_EmptySet
<1>4. /\ Cardinality(InFlight(Opening(u))') \in Nat
      /\ Cardinality(InFlight(Opening(u))') <= N /\ N \in Nat
  BY InFlightCallers, CallersCount
<1> QED BY <1>2, <1>3, <1>4 DEF SessionBound, N

LEMMA SessionElsewhere ==
    ASSUME SessionInv, Elsewhere({"clear", "open"}),
           \A u \in Users : Closed(u)' => Closed(u) /\ OpenSessions(u)' \subseteq OpenSessions(u)
    PROVE  SessionInv'
<1>1. ASSUME NEW u \in Users
      PROVE  SessionBound(u)'
  <2>1. InFlight(Opening(u))' \subseteq InFlight(Opening(u))
    BY OpeningSteps, NoneMore
  <2> QED BY <2>1, FewerSessions
<1> QED BY <1>1 DEF SessionInv, SessionBound, N

\* A login goes through for an account that is not closed.
LEMMA PasswordRightKeepsSessions ==
    ASSUME TypeStrong, SessionInv, NEW c \in Callers, PasswordRight(c)
    PROVE  SessionInv'
<1>1. /\ CallsOK /\ At(c, "look") /\ account[call[c].user] = "ACTIVE"
      /\ UNCHANGED <<account, session>>
  BY DEF PasswordRight, UserOf, avars, TypeStrong, AccountsInv
<1>2. PICK q \in LoginCall : q.user = call[c].user /\ call' = [call EXCEPT ![c] = q]
  BY <1>1, GoesOn DEF PasswordRight, Advance
<1>3. ASSUME NEW u \in Users
      PROVE  SessionBound(u)'
  <2>1. CASE u = call[c].user
    BY <1>1, <2>1 DEF SessionBound, Closed
  <2>2. CASE u # call[c].user
    <3>1. q \notin Opening(u)
      BY <1>2, <2>2 DEF Opening
    <3>2. InFlight(Opening(u))' \subseteq InFlight(Opening(u))
      BY <1>1, <1>2, <3>1 DEF InFlight, CallsOK
    <3>3. Closed(u)' => Closed(u) /\ OpenSessions(u)' \subseteq OpenSessions(u)
      BY <1>1 DEF Closed, OpenSessions, Open
    <3> QED BY <3>2, <3>3, FewerSessions
  <2> QED BY <2>1, <2>2
<1> QED BY <1>3 DEF SessionInv, SessionBound, N

\* A login that goes on is still one login.
LEMMA ClearKeepsSessions ==
    ASSUME TypeStrong, SessionInv, NEW c \in Callers, ClearThrottle(c)
    PROVE  SessionInv'
<1>1. CallsOK /\ UNCHANGED <<account, session>> /\ At(c, "clear")
  BY DEF ClearThrottle, TypeStrong, AccountsInv
<1>2. PICK q \in LoginCall : /\ q.step = "open" /\ q.user = call[c].user
                             /\ call' = [call EXCEPT ![c] = q]
  BY <1>1, GoesOn DEF ClearThrottle, Advance
<1>3. call[c] # NoCall /\ call[c] \in LoginCall /\ call[c].step = "clear"
  BY <1>1, Kinds DEF At
<1>4. ASSUME NEW u \in Users
      PROVE  SessionBound(u)'
  <2>1. q \in Opening(u) => call[c] \in Opening(u)
    BY <1>2, <1>3 DEF Opening, LoginCall
  <2>2. InFlight(Opening(u))' \subseteq InFlight(Opening(u))
    BY <1>1, <1>2, <1>3, <2>1 DEF InFlight, CallsOK
  <2>3. Closed(u)' => Closed(u) /\ OpenSessions(u)' \subseteq OpenSessions(u)
    BY <1>1 DEF Closed, OpenSessions, Open
  <2> QED BY <2>2, <2>3, FewerSessions
<1> QED BY <1>4 DEF SessionInv, SessionBound, N

LEMMA OpenKeepsSessions ==
    ASSUME TypeStrong, SessionInv, NEW c \in Callers, OpenSession(c)
    PROVE  SessionInv'
<1>1. /\ CallsOK /\ UNCHANGED account /\ At(c, "open") /\ Ends(c)
      /\ session \in [Tokens -> Session]
  BY DEF OpenSession, TypeStrong, AccountsInv, AccountsOK, AccountsTypeOK
<1>2. PICK v \in Users : v = call[c].user
  BY <1>1, Kinds DEF LoginCall
<1>3. PICK token \in Tokens : session' = [session EXCEPT ![token].user = v]
  BY <1>1, <1>2 DEF OpenSession, Unused, UserOf
<1>4. /\ session'[token].user = v
      /\ \A t \in Tokens \ {token} : session'[t] = session[t]
  BY <1>1, <1>3 DEF Session
<1>5. Elsewhere({"clear", "open"}) /\ call'[c] = NoCall
  BY <1>1, EndsElsewhere DEF Ends, CallsOK
<1>6. call[c] # NoCall /\ call[c] \in Opening(v)
  <2>1. call[c] \in LoginCall /\ call[c].step = "open" /\ call[c] # NoCall
    BY <1>1, Kinds DEF At
  <2> QED BY <1>2, <2>1 DEF LoginCall, Opening
<1>7. ASSUME NEW u \in Users, u # v
      PROVE  SessionBound(u)'
  <2>1. OpenSessions(u)' \subseteq OpenSessions(u)
    BY <1>4, <1>7 DEF OpenSessions, Open
  <2>2. InFlight(Opening(u))' \subseteq InFlight(Opening(u))
    BY <1>5, OpeningSteps, NoneMore
  <2> QED BY <1>1, <2>1, <2>2, FewerSessions DEF Closed
<1>8. SessionBound(v)'
  <2> SUFFICES ASSUME Closed(v)'
               PROVE  /\ IsFiniteSet(OpenSessions(v)')
                      /\ Cardinality(OpenSessions(v)') + Cardinality(InFlight(Opening(v))') <= N
    BY DEF SessionBound, N
  <2>1. /\ IsFiniteSet(OpenSessions(v)) /\ Cardinality(OpenSessions(v)) \in Nat
        /\ Cardinality(OpenSessions(v)) + Cardinality(InFlight(Opening(v))) <= N
    BY <1>1, FS_CardinalityType DEF SessionInv, Closed
  <2>2. OpenSessions(v)' \subseteq OpenSessions(v) \cup {token}
    BY <1>4 DEF OpenSessions, Open
  <2>3. /\ IsFiniteSet(OpenSessions(v)') /\ Cardinality(OpenSessions(v)') \in Nat
        /\ Cardinality(OpenSessions(v)') <= Cardinality(OpenSessions(v)) + 1
    BY <2>1, <2>2, OneMore, FS_CardinalityType
  <2>4. Cardinality(InFlight(Opening(v))') + 1 <= Cardinality(InFlight(Opening(v)))
    BY <1>5, <1>6, OpeningSteps, OneLess
  <2>5. /\ Cardinality(InFlight(Opening(v))) \in Nat
        /\ Cardinality(InFlight(Opening(v))') \in Nat /\ N \in Nat
    BY InFlightCallers, CallersCount
  <2> QED BY <2>1, <2>3, <2>4, <2>5
<1> QED BY <1>7, <1>8 DEF SessionInv, SessionBound, N

\* An account is closed with all its sessions revoked.
LEMMA ClosingKeepsSessions ==
    ASSUME TypeStrong, SessionInv, NEW v \in Users, RevokeAll(v), Elsewhere({"clear", "open"}),
           \A u \in Users \ {v} : account'[u] = account[u]
    PROVE  SessionInv'
<1>1. ASSUME NEW u \in Users, u # v
      PROVE  SessionBound(u)'
  <2>1. OpenSessions(u)' \subseteq OpenSessions(u)
    BY RevokedSessions
  <2>2. InFlight(Opening(u))' \subseteq InFlight(Opening(u))
    BY OpeningSteps, NoneMore
  <2> QED BY <1>1, <2>1, <2>2, FewerSessions DEF Closed
<1> QED BY <1>1, RevokedSessions DEF SessionInv, SessionBound, N

LEMMA NextKeepsSessions == TypeStrong /\ SessionInv /\ [Next]_vars => SessionInv'
<1> SUFFICES ASSUME TypeStrong, SessionInv, [Next]_vars PROVE SessionInv'
  OBVIOUS
<1> DEFINE Here == {"clear", "open"}
<1>1. CallsOK /\ account \in [Users -> UserStatus \cup {"absent"}] /\ session \in [Tokens -> Session]
  BY DEF TypeStrong, AccountsInv, AccountsOK, AccountsTypeOK
<1>2. ASSUME Elsewhere(Here), UNCHANGED <<account, session>>
      PROVE  SessionInv'
  BY <1>2, SessionElsewhere DEF Closed, OpenSessions, Open
<1>3. CASE ChatNext /\ UNCHANGED avars
  <2>1. Elsewhere(Here)
    BY <1>1, <1>3, ChatElsewhere DEF Elsewhere, AccountSteps, TypeStrong, ChatInv, RowsOK
  <2> QED BY <1>2, <1>3, <2>1 DEF avars
<1>4. CASE UNCHANGED vars
  BY <1>2, <1>4, UnchangedElsewhere DEF vars, avars
<1>5. ASSUME NEW c \in Callers, NEW r, Begins(c, r), r.step \notin Here
      PROVE  Elsewhere(Here)
  BY <1>1, <1>5, BeginsElsewhere
<1>6. ASSUME NEW c \in Callers, NEW u \in Users, SignUp(c, u)
      PROVE  SessionInv'
  <2>1. Elsewhere(Here)
    BY <1>5, <1>6 DEF SignUp
  <2>2. account' = [account EXCEPT ![u] = "PENDING"] /\ UNCHANGED session
    BY <1>6 DEF SignUp
  <2>3. \A v \in Users : Closed(v)' => Closed(v)
    BY <1>1, <2>2 DEF Closed
  <2> QED BY <2>1, <2>2, <2>3, SessionElsewhere DEF OpenSessions, Open
<1>7. ASSUME NEW c \in Callers, NEW u \in Users,
             \/ AskCode(c, u) \/ Login(c, u) \/ AskWithdraw(c, u)
             \/ \E purpose \in Purpose : ReadCode(c, u, purpose)
      PROVE  SessionInv'
  BY <1>2, <1>5, <1>7 DEF AskCode, Login, AskWithdraw, ReadCode, avars
<1>8. ASSUME NEW c \in Callers,
             CountCodes(c) \/ DeleteCodes(c) \/ GuessRight(c) \/ PasswordWrong(c)
      PROVE  SessionInv'
  <2>1. CASE CountCodes(c)
    BY <1>1, <1>2, <2>1, GoesElsewhere, EndsElsewhere DEF CountCodes, Advance, avars
  <2>2. CASE DeleteCodes(c)
    BY <1>1, <1>2, <2>2, GoesElsewhere DEF DeleteCodes, Advance
  <2>3. CASE GuessRight(c)
    BY <1>1, <1>2, <2>3, GoesElsewhere DEF GuessRight, Advance
  <2>4. CASE PasswordWrong(c)
    BY <1>1, <1>2, <2>4, GoesElsewhere DEF PasswordWrong, Advance, avars
  <2> QED BY <1>8, <2>1, <2>2, <2>3, <2>4
<1>9. ASSUME NEW c \in Callers, CreateCode(c) \/ GuessWrong(c) \/ RecordFailure(c) \/ CallLost(c)
      PROVE  SessionInv'
  BY <1>1, <1>2, <1>9, EndsElsewhere DEF CreateCode, GuessWrong, RecordFailure, CallLost, avars
<1>10. ASSUME NEW c \in Callers, ConfirmContact(c)
       PROVE  SessionInv'
  <2>1. Elsewhere(Here)
    BY <1>1, <1>10, EndsElsewhere DEF ConfirmContact
  <2>2. account' = [account EXCEPT ![call[c].user] = "ACTIVE"] /\ UNCHANGED session
    BY <1>10 DEF ConfirmContact, UserOf
  <2>3. \A v \in Users : Closed(v)' => Closed(v)
    BY <1>1, <2>2 DEF Closed
  <2> QED BY <2>1, <2>2, <2>3, SessionElsewhere DEF OpenSessions, Open
<1>11. ASSUME NEW c \in Callers, ResetPassword(c)
       PROVE  SessionInv'
  <2>1. call[c].user \in Users
    BY <1>1, <1>11, Kinds DEF ResetPassword, GuessCall
  <2>2. Elsewhere(Here)
    BY <1>1, <1>11, EndsElsewhere DEF ResetPassword
  <2> QED BY <1>11, <2>1, <2>2, ClosingKeepsSessions DEF ResetPassword, UserOf
<1>12. ASSUME NEW c \in Callers, Withdraw(c)
       PROVE  SessionInv'
  <2>1. call[c].user \in Users
    BY <1>1, <1>12, Kinds DEF Withdraw, WithdrawCall
  <2>2. Elsewhere(Here)
    BY <1>1, <1>12, EndsElsewhere DEF Withdraw
  <2>3. \A u \in Users \ {call[c].user} : account'[u] = account[u]
    BY <1>1, <1>12 DEF Withdraw, UserOf
  <2> QED BY <1>12, <2>1, <2>2, <2>3, ClosingKeepsSessions DEF Withdraw, UserOf
<1>13. ASSUME NEW u \in Users, Suspend(u)
       PROVE  SessionInv'
  <2>1. Elsewhere(Here) /\ RevokeAll(u)
    BY <1>13, UnchangedElsewhere DEF Suspend, Suspended
  <2>2. \A v \in Users \ {u} : account'[v] = account[v]
    BY <1>1, <1>13 DEF Suspend
  <2> QED BY <2>1, <2>2, ClosingKeepsSessions
<1>14. ASSUME NEW u \in Users, Reinstate(u)
       PROVE  SessionInv'
  <2>1. Elsewhere(Here)
    BY <1>14, UnchangedElsewhere DEF Reinstate
  <2>2. account' = [account EXCEPT ![u] = "ACTIVE"] /\ UNCHANGED session
    BY <1>14 DEF Reinstate
  <2>3. \A v \in Users : Closed(v)' => Closed(v)
    BY <1>1, <2>2 DEF Closed
  <2> QED BY <2>1, <2>2, <2>3, SessionElsewhere DEF OpenSessions, Open
<1>15. ASSUME NEW u \in Users, CodesExpire(u) \/ WindowEnds(u) \/ LockEnds(u)
       PROVE  SessionInv'
  BY <1>2, <1>15, UnchangedElsewhere DEF CodesExpire, WindowEnds, LockEnds
<1>16. ASSUME NEW t \in Tokens, Logout(t)
       PROVE  SessionInv'
  <2>1. Elsewhere(Here) /\ UNCHANGED account
    BY <1>16, UnchangedElsewhere DEF Logout
  <2>2. \A x \in Tokens : /\ session'[x].user = session[x].user
                          /\ session'[x].revoked = session[x].revoked \/ session'[x].revoked = TRUE
    BY <1>1, <1>16 DEF Logout, Session
  <2>3. \A u : OpenSessions(u)' \subseteq OpenSessions(u)
    BY <2>2 DEF OpenSessions, Open
  <2> QED BY <2>1, <2>3, SessionElsewhere DEF Closed
<1>17. CASE AccountsNext
  BY <1>6, <1>7, <1>8, <1>9, <1>10, <1>11, <1>12, <1>13, <1>14, <1>15, <1>16, <1>17,
     PasswordRightKeepsSessions, ClearKeepsSessions, OpenKeepsSessions DEF AccountsNext
<1> QED BY <1>3, <1>4, <1>17 DEF Next

-----------------------------------------------------------------------------
(* Failed logins.  A row at a count, and the requests that have read it    *)
(* there, may still count as many failures from it as there are requests   *)
(* at a time; each time the row gets there, it may again.                  *)
Effective(row) == IF row.past THEN 0 ELSE row.failedCount
Failing(u, k) == {r \in LoginCall : r.step \in {"look", "fail"} /\ r.user = u /\ Effective(r.seen) = k}

\* A row that is past has been read as past by every login in flight.
PastIsSeen ==
    \A c \in Callers :
        (At(c, "look") \/ At(c, "fail")) /\ throttle[call[c].user].past => call[c].seen.past

Outstanding(u, k) ==
    IF Effective(throttle[u]) = k THEN N ELSE Cardinality(InFlight(Failing(u, k)))

LossBound(u) ==
    /\ counted[u][LockAfterFailures + 1] = 0
    /\ \A k \in 0 .. LockAfterFailures - 1 :
          counted[u][k + 1] + Outstanding(u, k) <= N * counted[u][k]

LossInv == PastIsSeen /\ \A u \in Users : LossBound(u)

LEMMA FailingSteps == \A u, k : \A r \in Failing(u, k) : r.step \in {"look", "fail"}
BY DEF Failing

LEMMA CountsTyped ==
    ASSUME TypeStrong, NEW u \in Users
    PROVE  /\ LockAfterFailures \in Nat \ {0} /\ N \in Nat \ {0}
           /\ \A k \in 0 .. LockAfterFailures - 1 :
                 /\ k \in Counts /\ k + 1 \in Counts
                 /\ counted[u][k] \in Nat /\ counted[u][k + 1] \in Nat
           /\ LockAfterFailures + 1 \in Counts /\ counted[u][LockAfterFailures + 1] \in Nat
           /\ throttle[u] \in Throttle
<1>1. LockAfterFailures \in Nat \ {0} /\ N \in Nat \ {0}
  BY AccountsAssumption, CallersCount
<1>2. counted[u] \in [Counts -> Nat] /\ throttle[u] \in Throttle
  BY DEF TypeStrong, AccountsInv, AccountsOK, AccountsTypeOK
<1>3. LockAfterFailures + 1 \in Counts /\ \A k \in 0 .. LockAfterFailures - 1 : k \in Counts /\ k + 1 \in Counts
  BY <1>1 DEF Counts
<1> QED BY <1>1, <1>2, <1>3

LEMMA FailingCount ==
    \A u, k : /\ Cardinality(InFlight(Failing(u, k))) \in Nat
              /\ Cardinality(InFlight(Failing(u, k))) <= N
              /\ Cardinality(InFlight(Failing(u, k))') \in Nat
              /\ Cardinality(InFlight(Failing(u, k))') <= N
BY InFlightCallers, CallersCount

\* A step that counts no failure of the user.
LEMMA LossBoundStays ==
    ASSUME TypeStrong, NEW u \in Users, LossBound(u), counted'[u] = counted[u],
           Effective(throttle'[u]) = Effective(throttle[u]),
           \A k \in 0 .. LockAfterFailures - 1 :
              \/ Effective(throttle[u]) = k
              \/ Cardinality(InFlight(Failing(u, k))') <= Cardinality(InFlight(Failing(u, k)))
    PROVE  LossBound(u)'
<1>1. \A k \in 0 .. LockAfterFailures - 1 : Outstanding(u, k)' <= Outstanding(u, k)
  BY CountsTyped DEF Outstanding, N, Effective
<1>2. \A k : Outstanding(u, k) \in Nat /\ Outstanding(u, k)' \in Nat
  BY FailingCount, CountsTyped DEF Outstanding, N
<1>3. ASSUME NEW k \in 0 .. LockAfterFailures - 1
      PROVE  counted'[u][k + 1] + Outstanding(u, k)' <= N * counted'[u][k]
  <2>1. PICK bound : bound = N * counted[u][k] /\ counted[u][k + 1] + Outstanding(u, k) <= bound
    BY DEF LossBound
  <2>2. bound \in Nat
    BY <2>1, CountsTyped
  <2>3. counted[u][k + 1] + Outstanding(u, k)' <= bound
    BY <1>1, <1>2, <2>1, <2>2, CountsTyped
  <2> QED BY <2>1, <2>3
<1> QED BY <1>3 DEF LossBound, N

LEMMA LossElsewhere ==
    ASSUME TypeStrong, LossInv, Elsewhere({"look", "fail"}), UNCHANGED <<throttle, counted>>
    PROVE  LossInv'
<1>1. PastIsSeen'
  BY DEF LossInv, PastIsSeen, Elsewhere, At
<1>2. ASSUME NEW u \in Users
      PROVE  LossBound(u)'
  <2>1. \A k : Cardinality(InFlight(Failing(u, k))') <= Cardinality(InFlight(Failing(u, k)))
    BY FailingSteps, NoneMore
  <2> QED BY <2>1, LossBoundStays DEF LossInv
<1> QED BY <1>1, <1>2 DEF LossInv

LEMMA LoginKeepsLosses ==
    ASSUME TypeStrong, LossInv, NEW c \in Callers, NEW v \in Users, Login(c, v)
    PROVE  LossInv'
<1>1. CallsOK /\ UNCHANGED <<throttle, counted>>
  BY DEF Login, avars, TypeStrong, AccountsInv
<1>2. PICK q : /\ q = [step |-> "look", user |-> v, seen |-> throttle[v]]
               /\ Begins(c, q)
  BY DEF Login
<1>3. PastIsSeen'
  <2>1. ASSUME NEW d \in Callers, (At(d, "look") \/ At(d, "fail"))', throttle'[call'[d].user].past
        PROVE  call'[d].seen.past
    <3>1. CASE d = c
      BY <1>1, <1>2, <2>1, <3>1 DEF Begins, CallsOK
    <3>2. CASE d # c
      <4>1. call'[d] = call[d]
        BY <1>1, <1>2, <3>2 DEF Begins, CallsOK
      <4> QED BY <1>1, <2>1, <4>1 DEF LossInv, PastIsSeen, At
    <3> QED BY <3>1, <3>2
  <2> QED BY <2>1 DEF PastIsSeen
<1>4. ASSUME NEW u \in Users
      PROVE  LossBound(u)'
  <2>1. ASSUME NEW k, u # v \/ Effective(throttle[u]) # k
        PROVE  Cardinality(InFlight(Failing(u, k))') <= Cardinality(InFlight(Failing(u, k)))
    <3>1. q \notin Failing(u, k)
      BY <1>2, <2>1 DEF Failing
    <3> QED BY <1>1, <1>2, <3>1, NoneMoreBegins
  <2> QED BY <1>1, <2>1, LossBoundStays DEF LossInv
<1> QED BY <1>3, <1>4 DEF LossInv

LEMMA PasswordWrongKeepsLosses ==
    ASSUME TypeStrong, LossInv, NEW c \in Callers, PasswordWrong(c)
    PROVE  LossInv'
<1>1. CallsOK /\ At(c, "look") /\ UNCHANGED <<throttle, counted>>
  BY DEF PasswordWrong, avars, TypeStrong, AccountsInv
<1>2. PICK q \in LoginCall : /\ q.step = "fail" /\ q.user = call[c].user /\ q.seen = call[c].seen
                             /\ call' = [call EXCEPT ![c] = q]
  BY <1>1, GoesOn DEF PasswordWrong, Advance
<1>3. call[c] # NoCall /\ call[c] \in LoginCall /\ call[c].step = "look"
  BY <1>1, Kinds DEF At
<1>4. call'[c] = q /\ \A d \in Callers \ {c} : call'[d] = call[d]
  BY <1>1, <1>2 DEF CallsOK
<1>5. PastIsSeen'
  <2>1. ASSUME NEW d \in Callers, (At(d, "look") \/ At(d, "fail"))', throttle'[call'[d].user].past
        PROVE  call'[d].seen.past
    <3>1. At(d, "look") \/ At(d, "fail")
      BY <1>1, <1>4, <2>1 DEF At
    <3>2. call'[d].user = call[d].user /\ call'[d].seen = call[d].seen
      BY <1>2, <1>4
    <3> QED BY <1>1, <2>1, <3>1, <3>2 DEF LossInv, PastIsSeen
  <2> QED BY <2>1 DEF PastIsSeen
<1>6. ASSUME NEW u \in Users
      PROVE  LossBound(u)'
  <2>1. ASSUME NEW k
        PROVE  Cardinality(InFlight(Failing(u, k))') <= Cardinality(InFlight(Failing(u, k)))
    <3>1. q \in Failing(u, k) => call[c] \in Failing(u, k)
      BY <1>2, <1>3 DEF Failing
    <3>2. InFlight(Failing(u, k))' \subseteq InFlight(Failing(u, k))
      BY <1>3, <1>4, <3>1 DEF InFlight
    <3> QED BY <3>2, InFlightCallers, FewerCallers
  <2> QED BY <1>1, <2>1, LossBoundStays DEF LossInv
<1> QED BY <1>5, <1>6 DEF LossInv

\* The row gets to a count: as many failures more may be counted from there, and
\* those that may still be counted from where it was are in flight.
LEMMA RowArrives ==
    ASSUME TypeStrong, NEW v \in Users, LossBound(v), NEW new \in 0 .. LockAfterFailures,
           NEW k \in 0 .. LockAfterFailures - 1,
           Effective(throttle'[v]) = new,
           counted'[v][new] = counted[v][new] + 1,
           \A j \in Counts \ {new} : counted'[v][j] = counted[v][j],
           IF k + 1 = new
             THEN Cardinality(InFlight(Failing(v, k))') + 1 <= Cardinality(InFlight(Failing(v, k)))
             ELSE Cardinality(InFlight(Failing(v, k))') <= Cardinality(InFlight(Failing(v, k)))
    PROVE  counted'[v][k + 1] + Outstanding(v, k)' <= N * counted'[v][k]
<1>1. /\ LockAfterFailures \in Nat \ {0} /\ N \in Nat \ {0}
      /\ k \in Counts /\ k + 1 \in Counts /\ counted[v][k] \in Nat /\ counted[v][k + 1] \in Nat
  BY CountsTyped
<1>2. PICK a \in Nat, b \in Nat, h \in Nat, g \in Nat :
         /\ a = counted[v][k + 1] /\ b = counted[v][k]
         /\ h = Cardinality(InFlight(Failing(v, k)))
         /\ g = Cardinality(InFlight(Failing(v, k))') /\ h <= N /\ g <= N
  BY <1>1, FailingCount
<1>3. PICK bound \in Nat : bound = N * b
  BY <1>1, <1>2
<1>4. a + h <= bound
  <2>1. a + Outstanding(v, k) <= bound /\ Outstanding(v, k) \in {N, h}
    BY <1>2, <1>3 DEF LossBound, Outstanding
  <2> QED BY <1>1, <1>2, <2>1
<1>5. CASE k = new
  <2>1. N * (b + 1) = bound + N
    BY <1>1, <1>2, <1>3
  <2>2. counted'[v][k] = b + 1 /\ counted'[v][k + 1] = a
    BY <1>1, <1>2, <1>5
  <2>3. Outstanding(v, k)' = N
    BY <1>5 DEF Outstanding, N, Effective
  <2> QED BY <1>1, <1>2, <1>4, <2>1, <2>2, <2>3
<1>6. CASE k # new
  <2>1. counted'[v][k] = b
    BY <1>1, <1>2, <1>6
  <2>2. Outstanding(v, k)' = g
    BY <1>2, <1>6 DEF Outstanding, Effective
  <2>3. counted'[v][k + 1] + g <= bound
    <3>1. CASE k + 1 = new
      BY <1>1, <1>2, <1>4, <3>1
    <3>2. CASE k + 1 # new
      BY <1>1, <1>2, <1>4, <3>2
    <3> QED BY <3>1, <3>2
  <2> QED BY <1>3, <2>1, <2>2, <2>3
<1> QED BY <1>5, <1>6

LEMMA ClearKeepsLosses ==
    ASSUME TypeStrong, LossInv, NEW c \in Callers, ClearThrottle(c)
    PROVE  LossInv'
<1>1. /\ CallsOK /\ At(c, "clear") /\ counted \in [Users -> [Counts -> Nat]]
      /\ throttle \in [Users -> Throttle]
  BY DEF ClearThrottle, TypeStrong, AccountsInv, AccountsOK, AccountsTypeOK
<1>2. PICK v \in Users : v = call[c].user
  BY <1>1, Kinds DEF LoginCall
<1>3. /\ throttle' = [throttle EXCEPT ![v] = NoThrottle]
      /\ counted' = [counted EXCEPT ![v][0] = counted[v][0] + 1]
  BY <1>1, <1>2 DEF ClearThrottle, UserOf
<1>4. Elsewhere({"look", "fail"})
  BY <1>1, GoesElsewhere DEF ClearThrottle, Advance
<1>5. /\ throttle'[v] = NoThrottle /\ 0 \in Counts
      /\ counted'[v][0] = counted[v][0] + 1
      /\ \A j \in Counts \ {0} : counted'[v][j] = counted[v][j]
      /\ \A u \in Users \ {v} : throttle'[u] = throttle[u] /\ counted'[u] = counted[u]
  BY <1>1, <1>3, NewWindowTyped
<1>6. Effective(NoThrottle) = 0 /\ ~NoThrottle.past
  BY DEF Effective, NoThrottle
<1>7. PastIsSeen'
  <2>1. ASSUME NEW d \in Callers, (At(d, "look") \/ At(d, "fail"))', throttle'[call'[d].user].past
        PROVE  call'[d].seen.past
    <3>1. call'[d] = call[d] /\ (At(d, "look") \/ At(d, "fail"))
      BY <1>4, <2>1 DEF Elsewhere, At
    <3>2. call[d].user \in Users
      BY <1>1, <3>1, Kinds DEF LoginCall
    <3>3. call[d].user # v
      BY <1>5, <1>6, <2>1, <3>1
    <3> QED BY <1>5, <2>1, <3>1, <3>2, <3>3 DEF LossInv, PastIsSeen
  <2> QED BY <2>1 DEF PastIsSeen
<1>8. \A u, k : Cardinality(InFlight(Failing(u, k))') <= Cardinality(InFlight(Failing(u, k)))
  BY <1>4, FailingSteps, NoneMore
<1>9. ASSUME NEW u \in Users, u # v
      PROVE  LossBound(u)'
  BY <1>5, <1>8, <1>9, LossBoundStays DEF LossInv
<1>10. LossBound(v)'
  <2>1. /\ LockAfterFailures \in Nat \ {0} /\ LockAfterFailures + 1 \in Counts
        /\ 0 \in 0 .. LockAfterFailures
    BY CountsTyped
  <2>2. counted'[v][LockAfterFailures + 1] = 0
    BY <1>5, <2>1 DEF LossInv, LossBound
  <2>3. ASSUME NEW k \in 0 .. LockAfterFailures - 1
        PROVE  counted'[v][k + 1] + Outstanding(v, k)' <= N * counted'[v][k]
    <3>1. k + 1 # 0 /\ Effective(throttle'[v]) = 0 /\ LossBound(v)
      BY <1>5, <1>6, <2>1 DEF LossInv
    <3> QED BY <1>5, <1>8, <2>1, <3>1, RowArrives
  <2> QED BY <2>2, <2>3 DEF LossBound, N
<1> QED BY <1>7, <1>9, <1>10 DEF LossInv

LEMMA RecordKeepsLosses ==
    ASSUME TypeStrong, LossInv, NEW c \in Callers, RecordFailure(c)
    PROVE  LossInv'
<1>1. /\ CallsOK /\ At(c, "fail") /\ Ends(c) /\ counted \in [Users -> [Counts -> Nat]]
      /\ throttle \in [Users -> Throttle]
  BY DEF RecordFailure, TypeStrong, AccountsInv, AccountsOK, AccountsTypeOK
<1>2. PICK v \in Users : v = call[c].user
  BY <1>1, Kinds DEF LoginCall
<1>3. call[c] # NoCall /\ call[c] \in LoginCall /\ call[c].step = "fail" /\ call[c].seen \in Throttle
  BY <1>1, Kinds DEF At, LoginCall
<1>4. PICK old : old = Effective(call[c].seen)
  OBVIOUS
<1>5. LockAfterFailures \in Nat \ {0} /\ old \in 0 .. LockAfterFailures - 1
  <2>1. call[c].seen.past \/ call[c].seen.failedCount < LockAfterFailures
    BY <1>1 DEF TypeStrong, AccountsInv, FailsBelowLimit
  <2> QED BY <1>3, <1>4, <2>1, AccountsAssumption DEF Effective, Throttle
<1>6. CountAfter(call[c].seen) = old + 1
  BY <1>4, <1>5 DEF CountAfter, Effective
<1>7. throttle[v].past => old = 0
  BY <1>1, <1>2, <1>4 DEF LossInv, PastIsSeen, Effective
<1>8. PICK row : /\ throttle' = [throttle EXCEPT ![v] = row]
                 /\ row.failedCount = old + 1 /\ row.past = FALSE
  <2>1. PICK row : row = [failedCount |-> old + 1, past |-> throttle[v].past /\ old + 1 # 1,
                          locked |-> LocksAt(old + 1)]
    OBVIOUS
  <2>2. throttle' = [throttle EXCEPT ![v] = row]
    BY <1>1, <1>2, <1>6, <2>1 DEF RecordFailure, UserOf
  <2>3. (throttle[v].past /\ old + 1 # 1) = FALSE
    BY <1>5, <1>7
  <2>4. row.failedCount = old + 1
    BY <2>1
  <2>5. row.past = (throttle[v].past /\ old + 1 # 1)
    BY <2>1, Zenon
  <2> QED BY <2>2, <2>3, <2>4, <2>5
<1>9. counted' = [counted EXCEPT ![v][old + 1] = counted[v][old + 1] + 1]
  BY <1>1, <1>2, <1>6 DEF RecordFailure, UserOf
<1>10. old + 1 \in Counts /\ old + 1 \in 0 .. LockAfterFailures /\ old + 1 # 0
  BY <1>5 DEF Counts
<1>11. /\ throttle'[v] = row
       /\ counted'[v][old + 1] = counted[v][old + 1] + 1
       /\ \A j \in Counts \ {old + 1} : counted'[v][j] = counted[v][j]
       /\ \A u \in Users \ {v} : throttle'[u] = throttle[u] /\ counted'[u] = counted[u]
  BY <1>1, <1>8, <1>9, <1>10
<1>12. Effective(row) = old + 1
  BY <1>8 DEF Effective
<1>13. Elsewhere({"look", "fail"}) /\ call'[c] = NoCall
  BY <1>1, EndsElsewhere DEF Ends, CallsOK
<1>14. PastIsSeen'
  <2>1. ASSUME NEW d \in Callers, (At(d, "look") \/ At(d, "fail"))', throttle'[call'[d].user].past
        PROVE  call'[d].seen.past
    <3>1. call'[d] = call[d] /\ (At(d, "look") \/ At(d, "fail"))
      BY <1>13, <2>1 DEF Elsewhere, At
    <3>2. call[d].user \in Users
      BY <1>1, <3>1, Kinds DEF LoginCall
    <3>3. call[d].user # v
      BY <1>8, <1>11, <2>1, <3>1
    <3> QED BY <1>11, <2>1, <3>1, <3>2, <3>3 DEF LossInv, PastIsSeen
  <2> QED BY <2>1 DEF PastIsSeen
<1>15. \A u, k : Cardinality(InFlight(Failing(u, k))') <= Cardinality(InFlight(Failing(u, k)))
  BY <1>13, FailingSteps, NoneMore
<1>16. Cardinality(InFlight(Failing(v, old))') + 1 <= Cardinality(InFlight(Failing(v, old)))
  <2>1. call[c] \in Failing(v, old)
    BY <1>2, <1>3, <1>4 DEF Failing
  <2> QED BY <1>3, <1>13, <2>1, FailingSteps, OneLess
<1>17. ASSUME NEW u \in Users, u # v
       PROVE  LossBound(u)'
  BY <1>11, <1>15, <1>17, LossBoundStays DEF LossInv
<1>18. LossBound(v)'
  <2>1. LockAfterFailures + 1 \in Counts /\ LockAfterFailures + 1 # old + 1
    BY <1>5, CountsTyped
  <2>2. counted'[v][LockAfterFailures + 1] = 0
    BY <1>11, <2>1 DEF LossInv, LossBound
  <2>3. ASSUME NEW k \in 0 .. LockAfterFailures - 1
        PROVE  counted'[v][k + 1] + Outstanding(v, k)' <= N * counted'[v][k]
    <3>1. Effective(throttle'[v]) = old + 1 /\ LossBound(v)
      BY <1>11, <1>12 DEF LossInv
    <3>2. k + 1 = old + 1 => k = old
      BY <1>5
    <3> QED BY <1>10, <1>11, <1>15, <1>16, <3>1, <3>2, RowArrives
  <2> QED BY <2>2, <2>3 DEF LossBound, N
<1> QED BY <1>14, <1>17, <1>18 DEF LossInv

\* Time passes while no request of the user is in flight.
LEMMA TimeKeepsLosses ==
    ASSUME TypeStrong, LossInv, NEW v \in Users, WindowEnds(v) \/ LockEnds(v)
    PROVE  LossInv'
<1>1. /\ CallsOK /\ UNCHANGED call /\ ~Busy(v) /\ counted \in [Users -> [Counts -> Nat]]
      /\ throttle \in [Users -> Throttle]
  BY DEF WindowEnds, LockEnds, TypeStrong, AccountsInv, AccountsOK, AccountsTypeOK
<1>2. \A u \in Users \ {v} : throttle'[u] = throttle[u] /\ counted'[u] = counted[u]
  BY <1>1 DEF WindowEnds, LockEnds
<1>3. \A d \in Callers : At(d, "look") \/ At(d, "fail") => call[d].user # v /\ call[d].user \in Users
  <2>1. ASSUME NEW d \in Callers, At(d, "look") \/ At(d, "fail")
        PROVE  call[d].user # v /\ call[d].user \in Users
    BY <1>1, <2>1, Kinds DEF Busy, At, UserOf, LoginCall
  <2> QED BY <2>1
<1>4. PastIsSeen'
  BY <1>1, <1>2, <1>3 DEF LossInv, PastIsSeen, At
<1>5. \A u, k : InFlight(Failing(u, k))' = InFlight(Failing(u, k))
  BY <1>1 DEF InFlight
<1>6. ASSUME NEW u \in Users, u # v
      PROVE  LossBound(u)'
  BY <1>2, <1>5, <1>6, FailingCount, LossBoundStays DEF LossInv
<1>7. CASE WindowEnds(v)
  <2>1. throttle'[v].past /\ counted'[v] = NewWindow
    BY <1>1, <1>7 DEF WindowEnds, Throttle
  <2>2. Effective(throttle'[v]) = 0
    BY <2>1 DEF Effective
  <2>3. ASSUME NEW k
        PROVE  Cardinality(InFlight(Failing(v, k))') = 0
    <3>1. InFlight(Failing(v, k)) = {}
      BY <1>1 DEF InFlight, Failing, Busy, UserOf
    <3> QED BY <1>5, <3>1, FS_EmptySet
  <2>4. /\ LockAfterFailures \in Nat \ {0} /\ N \in Nat \ {0} /\ LockAfterFailures + 1 \in Counts
        /\ \A k \in 0 .. LockAfterFailures - 1 : k \in Counts /\ k + 1 \in Counts
    BY CountsTyped
  <2>5. counted'[v][LockAfterFailures + 1] = 0
    BY <2>1, <2>4 DEF NewWindow
  <2>6. ASSUME NEW k \in 0 .. LockAfterFailures - 1
        PROVE  counted'[v][k + 1] + Outstanding(v, k)' <= N * counted'[v][k]
    <3>1. counted'[v][k + 1] = 0 /\ counted'[v][k] = IF k = 0 THEN 1 ELSE 0
      BY <2>1, <2>4 DEF NewWindow
    <3>2. Outstanding(v, k)' = IF k = 0 THEN N ELSE 0
      BY <2>2, <2>3 DEF Outstanding, N, Effective
    <3>3. N * 1 = N /\ N * 0 = 0
      BY <2>4
    <3> QED BY <2>4, <3>1, <3>2, <3>3
  <2>7. LossBound(v)'
    BY <2>5, <2>6 DEF LossBound, N
  <2> QED BY <1>4, <1>6, <2>7 DEF LossInv
<1>8. CASE LockEnds(v)
  <2>1. /\ throttle'[v].past = throttle[v].past /\ throttle'[v].failedCount = throttle[v].failedCount
        /\ counted'[v] = counted[v]
    BY <1>1, <1>8 DEF LockEnds, Throttle
  <2>2. Effective(throttle'[v]) = Effective(throttle[v])
    BY <2>1 DEF Effective
  <2>3. LossBound(v)'
    BY <1>5, <2>1, <2>2, FailingCount, LossBoundStays DEF LossInv
  <2> QED BY <1>4, <1>6, <2>3 DEF LossInv
<1> QED BY <1>7, <1>8

LEMMA NextKeepsLosses == TypeStrong /\ LossInv /\ [Next]_vars => LossInv'
<1> SUFFICES ASSUME TypeStrong, LossInv, [Next]_vars PROVE LossInv'
  OBVIOUS
<1> DEFINE Here == {"look", "fail"}
<1>1. CallsOK
  BY DEF TypeStrong, AccountsInv
<1>2. ASSUME Elsewhere(Here), UNCHANGED <<throttle, counted>>
      PROVE  LossInv'
  BY <1>2, LossElsewhere
<1>3. CASE ChatNext /\ UNCHANGED avars
  <2>1. Elsewhere(Here)
    BY <1>1, <1>3, ChatElsewhere DEF Elsewhere, AccountSteps, TypeStrong, ChatInv, RowsOK
  <2> QED BY <1>2, <1>3, <2>1 DEF avars
<1>4. CASE UNCHANGED vars
  BY <1>2, <1>4, UnchangedElsewhere DEF vars, avars
<1>5. ASSUME NEW c \in Callers, NEW r, Begins(c, r), r.step \notin Here
      PROVE  Elsewhere(Here)
  BY <1>1, <1>5, BeginsElsewhere
<1>6. ASSUME NEW c \in Callers, NEW u \in Users,
             \/ SignUp(c, u) \/ AskCode(c, u) \/ AskWithdraw(c, u)
             \/ \E purpose \in Purpose : ReadCode(c, u, purpose)
      PROVE  LossInv'
  BY <1>2, <1>5, <1>6 DEF SignUp, AskCode, AskWithdraw, ReadCode, avars
<1>7. ASSUME NEW c \in Callers,
             CountCodes(c) \/ DeleteCodes(c) \/ GuessRight(c) \/ PasswordRight(c)
      PROVE  LossInv'
  <2>1. CASE CountCodes(c)
    BY <1>1, <1>2, <2>1, GoesElsewhere, EndsElsewhere DEF CountCodes, Advance, avars
  <2>2. CASE DeleteCodes(c)
    BY <1>1, <1>2, <2>2, GoesElsewhere DEF DeleteCodes, Advance
  <2>3. CASE GuessRight(c)
    BY <1>1, <1>2, <2>3, GoesElsewhere DEF GuessRight, Advance
  <2>4. CASE PasswordRight(c)
    BY <1>1, <1>2, <2>4, GoesElsewhere DEF PasswordRight, Advance, avars
  <2> QED BY <1>7, <2>1, <2>2, <2>3, <2>4
<1>8. ASSUME NEW c \in Callers,
             \/ CreateCode(c) \/ GuessWrong(c) \/ ConfirmContact(c) \/ ResetPassword(c)
             \/ OpenSession(c) \/ Withdraw(c) \/ CallLost(c)
      PROVE  LossInv'
  BY <1>1, <1>2, <1>8, EndsElsewhere
  DEF CreateCode, GuessWrong, ConfirmContact, ResetPassword, OpenSession, Withdraw, CallLost, avars
<1>9. ASSUME NEW u \in Users, CodesExpire(u) \/ Suspend(u) \/ Reinstate(u)
      PROVE  LossInv'
  BY <1>2, <1>9, UnchangedElsewhere DEF CodesExpire, Suspend, Reinstate
<1>10. ASSUME NEW t \in Tokens, Logout(t)
       PROVE  LossInv'
  BY <1>2, <1>10, UnchangedElsewhere DEF Logout
<1>11. CASE AccountsNext
  BY <1>6, <1>7, <1>8, <1>9, <1>10, <1>11, LoginKeepsLosses, PasswordWrongKeepsLosses,
     ClearKeepsLosses, RecordKeepsLosses, TimeKeepsLosses DEF AccountsNext
<1> QED BY <1>3, <1>4, <1>11 DEF Next

-----------------------------------------------------------------------------
(* Reports.                                                                *)
LEMMA ReportingSteps == \A u : \A r \in Reporting(u) : r.step \in {"report"}
BY DEF Reporting

LEMMA ReportElsewhere ==
    ASSUME TypeStrong, TypeStrong', ReportInv, Elsewhere({"report"}),
           \A u \in Users : recentReports'[u] <= recentReports[u]
    PROVE  ReportInv'
<1> SUFFICES ASSUME NEW u \in Users
             PROVE  recentReports'[u] + Cardinality(InFlight(Reporting(u))') <= ReportLimit + N - 1
  BY DEF ReportInv, N
<1>1. recentReports[u] \in Nat /\ recentReports'[u] \in Nat
  BY DEF TypeStrong, ChatInv, RowsOK
<1>2. Cardinality(InFlight(Reporting(u))') <= Cardinality(InFlight(Reporting(u)))
  BY ReportingSteps, NoneMore
<1>3. /\ Cardinality(InFlight(Reporting(u))) \in Nat /\ Cardinality(InFlight(Reporting(u))') \in Nat
      /\ N \in Nat
  BY InFlightCallers, CallersCount
<1> QED BY <1>1, <1>2, <1>3, ChatAssumption DEF ReportInv

LEMMA AskReportKeepsReports ==
    ASSUME TypeStrong, ReportInv, NEW c \in Callers, NEW v \in Users, NEW x \in Targets,
           AskReport(c, v, x)
    PROVE  ReportInv'
<1>1. /\ CallsOK /\ UNCHANGED recentReports /\ recentReports[v] < ReportLimit
      /\ Begins(c, [step |-> "report", user |-> v, target |-> x])
  BY DEF AskReport, MayReport, cvars, TypeStrong, ChatInv
<1> SUFFICES ASSUME NEW u \in Users
             PROVE  recentReports[u] + Cardinality(InFlight(Reporting(u))') <= ReportLimit + N - 1
  BY <1>1 DEF ReportInv, N
<1>2. recentReports[u] \in Nat /\ ReportLimit \in Nat
  BY ChatAssumption DEF TypeStrong, ChatInv, RowsOK
<1>3. /\ Cardinality(InFlight(Reporting(u))) \in Nat /\ Cardinality(InFlight(Reporting(u))') \in Nat
      /\ N \in Nat /\ Cardinality(InFlight(Reporting(u))') <= N
  BY InFlightCallers, CallersCount
<1>4. CASE u = v
  BY <1>1, <1>2, <1>3, <1>4
<1>5. CASE u # v
  <2>1. [step |-> "report", user |-> v, target |-> x] \notin Reporting(u)
    BY <1>5 DEF Reporting
  <2>2. Cardinality(InFlight(Reporting(u))') <= Cardinality(InFlight(Reporting(u)))
    BY <1>1, <2>1, NoneMoreBegins
  <2> QED BY <1>2, <1>3, <2>2 DEF ReportInv
<1> QED BY <1>4, <1>5

LEMMA StoreReportKeepsReports ==
    ASSUME TypeStrong, ReportInv, NEW c \in Callers, StoreReport(c)
    PROVE  ReportInv'
<1>1. CallsOK /\ At(c, "report") /\ Ends(c) /\ recentReports \in [Users -> Nat]
  BY DEF StoreReport, TypeStrong, ChatInv, RowsOK
<1>2. PICK v \in Users : v = call[c].user
  BY <1>1, Kinds DEF ReportCall
<1>3. /\ recentReports'[v] \in {recentReports[v], recentReports[v] + 1}
      /\ \A u \in Users \ {v} : recentReports'[u] = recentReports[u]
  BY <1>1, <1>2 DEF StoreReport, UserOf
<1>4. Elsewhere({"report"}) /\ call'[c] = NoCall
  BY <1>1, EndsElsewhere DEF Ends, CallsOK
<1>5. call[c] # NoCall /\ call[c] \in Reporting(v)
  <2>1. call[c] \in ReportCall /\ call[c].step = "report" /\ call[c] # NoCall
    BY <1>1, Kinds DEF At
  <2> QED BY <1>2, <2>1 DEF ReportCall, Reporting
<1> SUFFICES ASSUME NEW u \in Users
             PROVE  recentReports'[u] + Cardinality(InFlight(Reporting(u))') <= ReportLimit + N - 1
  BY DEF ReportInv, N
<1>6. recentReports[u] \in Nat /\ ReportLimit \in Nat
  BY <1>1, ChatAssumption
<1>7. /\ Cardinality(InFlight(Reporting(u))) \in Nat /\ Cardinality(InFlight(Reporting(u))') \in Nat
      /\ N \in Nat
  BY InFlightCallers, CallersCount
<1>8. recentReports[u] + Cardinality(InFlight(Reporting(u))) <= ReportLimit + N - 1
  BY DEF ReportInv
<1>9. CASE u = v
  <2>1. Cardinality(InFlight(Reporting(u))') + 1 <= Cardinality(InFlight(Reporting(u)))
    BY <1>4, <1>5, <1>9, ReportingSteps, OneLess
  <2> QED BY <1>3, <1>6, <1>7, <1>8, <1>9, <2>1
<1>10. CASE u # v
  <2>1. Cardinality(InFlight(Reporting(u))') <= Cardinality(InFlight(Reporting(u)))
    BY <1>4, ReportingSteps, NoneMore
  <2> QED BY <1>3, <1>6, <1>7, <1>8, <1>10, <2>1
<1> QED BY <1>9, <1>10

LEMMA NextKeepsReports == TypeStrong /\ ReportInv /\ [Next]_vars => ReportInv'
<1> SUFFICES ASSUME TypeStrong, ReportInv, [Next]_vars PROVE ReportInv'
  OBVIOUS
<1> DEFINE Here == {"report"}
<1>1. CallsOK /\ TypeStrong' /\ recentReports \in [Users -> Nat]
  BY NextTyped DEF TypeStrong, ChatInv, RowsOK
<1>2. ASSUME Elsewhere(Here), UNCHANGED recentReports
      PROVE  ReportInv'
  BY <1>1, <1>2, ReportElsewhere
<1>3. CASE AccountsNext /\ UNCHANGED cvars
  <2>1. Elsewhere(Here)
    BY <1>1, <1>3, AccountsElsewhere DEF Elsewhere, ChatSteps
  <2> QED BY <1>2, <1>3, <2>1 DEF cvars
<1>4. CASE UNCHANGED vars
  BY <1>2, <1>4, UnchangedElsewhere DEF vars, cvars
<1>5. ASSUME NEW c \in Callers, NEW u \in Users, NEW r \in Rooms, AskSend(c, u, r)
      PROVE  ReportInv'
  BY <1>1, <1>2, <1>5, BeginsElsewhere DEF AskSend, cvars
<1>6. ASSUME NEW c \in Callers, NEW u \in Users, NEW r \in Rooms, AskDetail(c, u, r)
      PROVE  ReportInv'
  BY <1>1, <1>2, <1>6, BeginsElsewhere DEF AskDetail, cvars
<1>7. ASSUME NEW c \in Callers,
             \/ StampMessage(c) \/ StoreMessage(c) \/ FindExisting(c) \/ ShowMessages(c)
             \/ MarkRead(c)
      PROVE  ReportInv'
  <2>1. CASE StoreMessage(c)
    BY <1>1, <1>2, <2>1, GoesElsewhere DEF StoreMessage, Advance
  <2>2. CASE FindExisting(c)
    BY <1>1, <1>2, <2>2, GoesElsewhere, EndsElsewhere DEF FindExisting, Advance, cvars
  <2>3. CASE ShowMessages(c)
    BY <1>1, <1>2, <2>3, GoesElsewhere DEF ShowMessages, Advance
  <2>4. CASE MarkRead(c)
    BY <1>1, <1>2, <2>4, GoesElsewhere, EndsElsewhere DEF MarkRead, Advance
  <2>5. CASE StampMessage(c)
    BY <1>1, <1>2, <2>5, StampElsewhere DEF StampMessage, TypeStrong, ChatInv, RowsOK
  <2> QED BY <1>7, <2>1, <2>2, <2>3, <2>4, <2>5
<1>8. ASSUME NEW c \in Callers, Acknowledge(c) \/ EnterRoom(c) \/ Notify(c)
      PROVE  ReportInv'
  BY <1>1, <1>2, <1>8, EndsElsewhere DEF Acknowledge, EnterRoom, Notify
<1>9. ASSUME NEW s \in Sockets,
             \/ Disconnect(s) \/ ListRooms(s) \/ JoinRooms(s)
             \/ \E u \in Users : Connect(s, u)
      PROVE  ReportInv'
  BY <1>2, <1>9, UnchangedElsewhere DEF Disconnect, ListRooms, JoinRooms, Connect
<1>10. ASSUME NEW u \in Users,
              \/ \E r \in Rooms : CreateRoom(u, r)
              \/ \E x \in Targets : ResolveReport(u, x)
       PROVE  ReportInv'
  BY <1>2, <1>10, UnchangedElsewhere DEF CreateRoom, ResolveReport
<1>11. ASSUME NEW u \in Users, MinutePasses(u)
       PROVE  ReportInv'
  <2>1. Elsewhere(Here)
    BY <1>11, UnchangedElsewhere DEF MinutePasses
  <2>2. recentReports' = [recentReports EXCEPT ![u] = 0]
    BY <1>11 DEF MinutePasses
  <2>3. \A v \in Users : recentReports'[v] <= recentReports[v]
    BY <1>1, <2>2
  <2> QED BY <1>1, <2>1, <2>3, ReportElsewhere
<1>12. ASSUME NEW c \in Callers, NEW u \in Users, NEW v \in Users,
              Block(c, u, v) \/ Unblock(c, u, v)
       PROVE  ReportInv'
  BY <1>1, <1>2, <1>12, BeginsElsewhere DEF Block, Unblock
<1>13. CASE ProcessEnds
  BY <1>2, <1>13, ProcessEndsElsewhere DEF ProcessEnds
<1>14. CASE ChatNext
  BY <1>5, <1>6, <1>7, <1>8, <1>9, <1>10, <1>11, <1>12, <1>13, <1>14, AskReportKeepsReports,
     StoreReportKeepsReports DEF ChatNext
<1> QED BY <1>3, <1>4, <1>14 DEF Next

-----------------------------------------------------------------------------
(* The initial states.                                                     *)
LEMMA NoneInFlight ==
    ASSUME Init, NEW kind
    PROVE  InFlight(kind) = {} /\ Cardinality(InFlight(kind)) = 0
<1>1. InFlight(kind) = {}
  BY DEF Init, AccountsInit, InFlight
<1> QED BY <1>1, FS_EmptySet

LEMMA InitKeeps ==
    Init => /\ SendInv /\ ReadInv /\ SubscriptionInv /\ GuessInv /\ CodeInv /\ SessionInv
            /\ LossInv /\ ReportInv
<1> SUFFICES ASSUME Init
             PROVE  /\ SendInv /\ ReadInv /\ SubscriptionInv /\ GuessInv /\ CodeInv /\ SessionInv
                    /\ LossInv /\ ReportInv
  OBVIOUS
<1> USE DEF Init, AccountsInit, ChatInit
<1>1. N \in Nat \ {0}
  BY CallersCount
<1>2. SendInv
  BY DEF SendInv, At, AcknowledgedIsStored
<1>3. ReadInv
  <2>1. \A c \in Callers : ~At(c, "mark")
    BY DEF At
  <2>2. \A r \in Rooms, u \in Users : lastRead[r][u] = 0
    OBVIOUS
  <2>3. \A r, u : Owed(r, u, 0) = {}
    BY DEF Owed
  <2>4. \A r, u : Cardinality(Owed(r, u, 0)) = 0
    BY <2>3, FS_EmptySet
  <2> QED BY <1>1, <2>1, <2>2, <2>4 DEF ReadInv, Marking
<1>4. SubscriptionInv
  BY DEF SubscriptionInv, SocketInv, BlocksOthers, NoRefresh
<1>5. GuessInv
  <2>1. \A k \in Codes : codes[k].attempts = 0
    BY DEF NoCode, NewCode
  <2>2. \A k : Cardinality(InFlight(Guessing(k))) = 0
    BY NoneInFlight
  <2> QED BY <1>1, <2>1, <2>2, AccountsAssumption DEF GuessInv
<1>6. CodeInv
  <2> SUFFICES ASSUME NEW u \in Users, NEW purpose \in Purpose
               PROVE  /\ IsFiniteSet(UnusedCodes(u, purpose))
                      /\ Cardinality(UnusedCodes(u, purpose))
                             + Cardinality(InFlight(Creating(u, purpose))) <= N
    BY DEF CodeInv
  <2>1. UnusedCodes(u, purpose) = {}
    BY AccountsAssumption DEF UnusedCodes, NoCode, NewCode
  <2>2. Cardinality(InFlight(Creating(u, purpose))) = 0
    BY NoneInFlight
  <2>3. IsFiniteSet(UnusedCodes(u, purpose)) /\ Cardinality(UnusedCodes(u, purpose)) = 0
    BY <2>1, FS_EmptySet
  <2> QED BY <1>1, <2>2, <2>3
<1>7. SessionInv
  BY DEF SessionInv, Closed
<1>8. ReportInv
  <2>1. \A u : Cardinality(InFlight(Reporting(u))) = 0
    BY NoneInFlight
  <2>2. \A u \in Users : recentReports[u] = 0
    OBVIOUS
  <2> QED BY <1>1, <2>1, <2>2, ChatAssumption DEF ReportInv
<1>9. LossInv
  <2>1. PastIsSeen
    BY DEF PastIsSeen, At
  <2>2. ASSUME NEW u \in Users
        PROVE  LossBound(u)
    <3>1. Effective(throttle[u]) = 0 /\ counted[u] = NewWindow
      BY DEF Effective, NoThrottle
    <3>2. \A k : Cardinality(InFlight(Failing(u, k))) = 0
      BY NoneInFlight
    <3>3. LockAfterFailures \in Nat \ {0} /\ LockAfterFailures + 1 \in Counts
      BY AccountsAssumption DEF Counts
    <3>4. counted[u][LockAfterFailures + 1] = 0
      BY <3>1, <3>3 DEF NewWindow
    <3>5. ASSUME NEW k \in 0 .. LockAfterFailures - 1
          PROVE  counted[u][k + 1] + Outstanding(u, k) <= N * counted[u][k]
      <4>1. k \in Counts /\ k + 1 \in Counts
        BY <3>3 DEF Counts
      <4>2. counted[u][k + 1] = 0 /\ counted[u][k] = IF k = 0 THEN 1 ELSE 0
        BY <3>1, <4>1 DEF NewWindow
      <4>3. Outstanding(u, k) = IF k = 0 THEN N ELSE 0
        BY <3>1, <3>2 DEF Outstanding
      <4>4. N * 1 = N /\ N * 0 = 0
        BY <1>1
      <4> QED BY <1>1, <4>2, <4>3, <4>4
    <3> QED BY <3>4, <3>5 DEF LossBound
  <2> QED BY <2>1, <2>2 DEF LossInv
<1> QED BY <1>2, <1>3, <1>4, <1>5, <1>6, <1>7, <1>8, <1>9

-----------------------------------------------------------------------------
(* What a sender was told is stored is stored, and stays so: send answers  *)
(* a repeated identifier from the row it finds, whoever stored it, and     *)
(* refuses it when the row is another message.                             *)
THEOREM AcknowledgedStored == Spec => []AcknowledgedIsStored
<1>1. SendInv => AcknowledgedIsStored
  BY DEF SendInv
<1>2. Spec => []SendInv
  BY InitKeeps, NextKeepsSend, TypeAlways, PTL DEF Spec
<1> QED BY <1>1, <1>2, PTL

(* A reading time covers messages that were not shown only as far as their *)
(* inserts were under way when the messages were read: detail takes the    *)
(* time first, so nothing that is sent in between is covered, but a        *)
(* message stamped before that time and committed after the read is, and   *)
(* there are as many of these as other requests in flight.                 *)
THEOREM FewReadMessagesUnseen == Spec => []FewReadsUnseen
<1>1. Spec => []ReadInv
  BY InitKeeps, NextKeepsReads, TypeAlways, PTL DEF Spec
<1> QED BY <1>1, TypeAlways, ReadsFollow, PTL

(* No subscription is lost in the refreshes that blocks and unblocks begin *)
(* for the sockets of the two users, however many of them overlap; only    *)
(* between the commit and the listener, or in a refresh, one is missing.   *)
THEOREM SubscriptionsAreKept == Spec => []SubscriptionsSurvive
<1>1. Spec => []SubscriptionInv
  BY InitKeeps, NextKeepsSubscriptions, TypeAlways, PTL DEF Spec
<1> QED BY <1>1, SubscriptionsFollow, PTL

\* What the counting invariants say without the requests in flight.
LEMMA BoundsFollow ==
    ASSUME TypeStrong
    PROVE  /\ GuessInv => GuessesAreBounded
           /\ CodeInv => FewUnusedCodes
           /\ SessionInv => FewSessionsSurvive
           /\ LossInv => LostFailuresAreBounded
           /\ ReportInv => ReportsAreLimited
<1>1. \A kind : Cardinality(InFlight(kind)) \in Nat /\ N \in Nat
  BY InFlightCallers, CallersCount
<1>2. GuessInv => GuessesAreBounded
  <2>1. \A k \in Codes : codes[k].attempts \in Nat
    BY DEF TypeStrong, AccountsInv, AccountsOK, AccountsTypeOK, Code
  <2> QED BY <1>1, <2>1, AccountsAssumption DEF GuessInv, GuessesAreBounded, N
<1>3. CodeInv => FewUnusedCodes
  BY <1>1, FS_CardinalityType DEF CodeInv, FewUnusedCodes, N
<1>4. SessionInv => FewSessionsSurvive
  BY <1>1, FS_CardinalityType DEF SessionInv, FewSessionsSurvive, N
<1>5. ReportInv => ReportsAreLimited
  <2>1. \A u \in Users : recentReports[u] \in Nat
    BY DEF TypeStrong, ChatInv, RowsOK
  <2> QED BY <1>1, <2>1, ChatAssumption DEF ReportInv, ReportsAreLimited, N
<1>6. ASSUME LossInv
      PROVE  LostFailuresAreBounded
  <2> SUFFICES ASSUME NEW u \in Users
               PROVE  /\ \A k \in 1 .. LockAfterFailures : counted[u][k] <= N * counted[u][k - 1]
                      /\ counted[u][LockAfterFailures + 1] = 0
    BY DEF LostFailuresAreBounded, N
  <2>1. LossBound(u)
    BY <1>6 DEF LossInv
  <2>2. ASSUME NEW k \in 1 .. LockAfterFailures
        PROVE  counted[u][k] <= N * counted[u][k - 1]
    <3>1. PICK j \in 0 .. LockAfterFailures - 1 : j = k - 1 /\ k = j + 1
      BY AccountsAssumption
    <3>2. counted[u][j + 1] + Outstanding(u, j) <= N * counted[u][j]
      BY <2>1 DEF LossBound
    <3>3. PICK bound \in Nat : bound = N * counted[u][j]
      BY <1>1, CountsTyped
    <3>4. counted[u][j + 1] \in Nat /\ Outstanding(u, j) \in Nat
      BY <1>1, CountsTyped DEF Outstanding
    <3> QED BY <3>1, <3>2, <3>3, <3>4
  <2> QED BY <2>1, <2>2 DEF LossBound
<1> QED BY <1>2, <1>3, <1>4, <1>5, <1>6

(* The limits that are checked before they are used up are exceeded by the *)
(* requests in flight at most, for any number of these: guesses of a code, *)
(* unused codes, sessions of a closed account, reports of a minute.        *)
THEOREM GuessesBounded == Spec => []GuessesAreBounded
<1>1. Spec => []GuessInv
  BY InitKeeps, NextKeepsGuesses, TypeAlways, PTL DEF Spec
<1> QED BY <1>1, TypeAlways, BoundsFollow, PTL

(* No more unused codes than requests at a time: each request deletes the  *)
(* unused ones before it creates one.                                      *)
THEOREM UnusedCodesBounded == Spec => []FewUnusedCodes
<1>1. Spec => []CodeInv
  BY InitKeeps, NextKeepsCodes, TypeAlways, PTL DEF Spec
<1> QED BY <1>1, TypeAlways, BoundsFollow, PTL

(* A closed account keeps no more sessions than logins were in flight.     *)
THEOREM SessionsBounded == Spec => []FewSessionsSurvive
<1>1. Spec => []SessionInv
  BY InitKeeps, NextKeepsSessions, TypeAlways, PTL DEF Spec
<1> QED BY <1>1, TypeAlways, BoundsFollow, PTL

(* Failures of a login that are lost, because two requests counted from    *)
(* the same row, and locks that a late one lifts, cost no more than this:  *)
(* from each time the row got to a count, as many failures are counted as  *)
(* there are requests at a time, and none from the limit on.               *)
THEOREM LostFailuresBounded == Spec => []LostFailuresAreBounded
<1>1. Spec => []LossInv
  BY InitKeeps, NextKeepsLosses, TypeAlways, PTL DEF Spec
<1> QED BY <1>1, TypeAlways, BoundsFollow, PTL

(* No more reports in a minute than the limit and the other requests.      *)
THEOREM ReportsBounded == Spec => []ReportsAreLimited
<1>1. Spec => []ReportInv
  BY InitKeeps, NextKeepsReports, TypeAlways, PTL DEF Spec
<1> QED BY <1>1, TypeAlways, BoundsFollow, PTL

=============================================================================
