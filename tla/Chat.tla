-------------------------------- MODULE Chat --------------------------------
(***************************************************************************)
(* Chat rooms, messages and reads, blocks and reports: chat.service.ts,    *)
(* safety.service.ts, the sockets of chat.gateway.ts, and resolveReport of *)
(* admin.service.ts.  Every command first asks Accounts for the active     *)
(* session of its user.                                                    *)
(***************************************************************************)
EXTENDS Accounts, Sequences

CONSTANTS
    Rooms,        \* the unique (product, buyer, seller) of ChatRoom
    Buyer, Seller,
    MessageIds,   \* ChatMessage.id, chosen by the client
    Bodies,
    PageSize,     \* 100 in the code
    Targets,      \* what can be reported
    ReportLimit,  \* 5 in the code
    Sockets,
    Refreshes     \* bound: the runs of refreshSubscriptions of a socket

ASSUME ChatAssumption ==
    /\ Buyer \in [Rooms -> Users] /\ Seller \in [Rooms -> Users]
    /\ \A r \in Rooms : Buyer[r] # Seller[r]
    /\ PageSize \in Nat /\ ReportLimit \in Nat

VARIABLES
    rooms,        \* the rooms that exist
    messages,     \* the messages whose insert was issued, in the order of createdAt
    stored,       \* which of them are committed: the rows of ChatMessage
    lastRead,     \* [Rooms -> [Users -> the messages there were at lastReadAt]]
    shown,        \* [Users -> the messages that were read for an answer to the user]
    acknowledged, \* the messages as their senders believe they are stored
    blocks,       \* the pairs <<blocker, blocked>>
    reports,      \* [Users -> [Targets -> Report.status, or "absent"]]
    recentReports,\* [Users -> the reports of the last minute]
    socketUser,   \* [Sockets -> the user of the connected socket, or NoUser]
    joined,       \* [Sockets -> the rooms whose messages are sent to the socket]
    refreshing,   \* [Sockets -> [Refreshes -> where the run is, and the rooms it read]]
    entered       \* history: [Sockets -> the rooms it was ever joined to]

sockets == <<socketUser, joined, refreshing, entered>>
cvars == <<rooms, messages, stored, lastRead, shown, acknowledged, blocks, reports, recentReports, sockets>>

Message == [id: MessageIds, room: Rooms, author: Users, body: Bodies]
ReportStatus == {"RECEIVED", "REVIEWING", "RESOLVED", "DISMISSED"}  \* no code writes REVIEWING
Refresh == [stage: {"none", "started", "listed"}, rooms: SUBSET Rooms]
NoRefresh == [stage |-> "none", rooms |-> {}]
Started == [stage |-> "started", rooms |-> {}]

ChatCall ==
    [step: {"store", "insert", "answer"}, user: Users, message: Message, at: Nat]
    \cup [step: {"show", "mark", "enter"}, user: Users, room: Rooms, viewedAt: Nat,
          command: {"read", "enter"}]
    \cup [step: {"notify"}, user: Users, other: Users]
    \cup [step: {"report"}, user: Users, target: Targets]

ASSUME NoCallAssumption == NoCall \notin AccountCall \cup ChatCall

ChatTypeOK ==
    /\ call \in [Callers -> AccountCall \cup ChatCall \cup {NoCall}]
    /\ rooms \subseteq Rooms
    /\ messages \in Seq(Message) /\ stored \subseteq 1 .. Len(messages)
    /\ lastRead \in [Rooms -> [Users -> Nat]]
    /\ shown \in [Users -> SUBSET MessageIds]
    /\ acknowledged \subseteq Message
    /\ blocks \subseteq Users \X Users
    /\ reports \in [Users -> [Targets -> ReportStatus \cup {"absent"}]]
    /\ recentReports \in [Users -> Nat]
    /\ socketUser \in [Sockets -> Users \cup {NoUser}]
    /\ joined \in [Sockets -> SUBSET Rooms] /\ entered \in [Sockets -> SUBSET Rooms]
    /\ refreshing \in [Sockets -> [Refreshes -> Refresh]]

ChatInit ==
    /\ rooms = {}
    /\ messages = <<>> /\ stored = {}
    /\ lastRead = [r \in Rooms |-> [u \in Users |-> 0]]
    /\ shown = [u \in Users |-> {}]
    /\ acknowledged = {}
    /\ blocks = {}
    /\ reports = [u \in Users |-> [x \in Targets |-> "absent"]]
    /\ recentReports = [u \in Users |-> 0]
    /\ socketUser = [s \in Sockets |-> NoUser]
    /\ joined = [s \in Sockets |-> {}] /\ entered = [s \in Sockets |-> {}]
    /\ refreshing = [s \in Sockets |-> [i \in Refreshes |-> NoRefresh]]

-----------------------------------------------------------------------------
(* Rooms and access.                                                       *)
Commands(command, u) == Asked(command, u) /\ SignedIn(u)
Members(r) == {Buyer[r], Seller[r]}
Blocked(r) == \E u, v \in Members(r) : <<u, v>> \in blocks
Access(u, r) == r \in rooms /\ u \in Members(r) /\ ~Blocked(r)

\* create: an upsert for a buyer that sees the product.
CreateRoom(u, r) ==
    /\ Commands("room", u) /\ u = Buyer[r] /\ ~Blocked(r)
    /\ rooms' = rooms \cup {r}
    /\ UNCHANGED <<messages, stored, lastRead, shown, acknowledged, blocks, reports, recentReports, sockets, call>>

-----------------------------------------------------------------------------
(* send: access is checked, the insert is issued under the client's id and *)
(* gets its createdAt, and is committed later.  An id that is taken by     *)
(* then is answered as if it had been inserted, when the message is the    *)
(* same.                                                                   *)
AskSend(c, u, r) ==
    /\ Commands("send", u) /\ Access(u, r)
    /\ \E id \in MessageIds, body \in Bodies :
          Begins(c, [step |-> "store", user |-> u, at |-> 0,
                     message |-> [id |-> id, room |-> r, author |-> u, body |-> body]])
    /\ UNCHANGED cvars

StampMessage(c) ==
    /\ At(c, "store") /\ Len(messages) < scene.inserts
    /\ messages' = Append(messages, call[c].message)
    /\ call' = [call EXCEPT ![c].step = "insert", ![c].at = Len(messages) + 1]
    /\ UNCHANGED <<rooms, stored, lastRead, shown, acknowledged, blocks, reports, recentReports, sockets>>

Stored == {messages[i] : i \in stored}
Taken(id) == \E m \in Stored : m.id = id
SameText(m, n) == m.id = n.id /\ m.body = n.body        \* mutant: author not compared
Same(m, n) == m = n

StoreMessage(c) ==
    /\ At(c, "insert") /\ ~Taken(call[c].message.id)
    /\ stored' = stored \cup {call[c].at}
    /\ Goes(c, "answer")
    /\ UNCHANGED <<rooms, messages, lastRead, shown, acknowledged, blocks, reports, recentReports, sockets>>

FindExisting(c) ==
    /\ At(c, "insert") /\ Taken(call[c].message.id)
    /\ IF \E m \in Stored : Same(m, call[c].message) THEN Goes(c, "answer") ELSE Ends(c)
    /\ UNCHANGED cvars

\* The answer arrives; it is also lost (CallLost), and the client sends again.
Acknowledge(c) ==
    /\ At(c, "answer")
    /\ acknowledged' = acknowledged \cup {call[c].message}
    /\ Ends(c)
    /\ UNCHANGED <<rooms, messages, stored, lastRead, shown, blocks, reports, recentReports, sockets>>

-----------------------------------------------------------------------------
(* detail: the time is taken first, then access is checked, the messages   *)
(* up to that time that are committed are read, and lastReadAt is set to   *)
(* it.  chat:join does the same, and then joins the sockets of both        *)
(* members.                                                                *)
AskDetail(c, u, r) ==
    /\ Access(u, r)
    /\ \E command \in {"read", "enter"} :
          /\ Commands(command, u)
          /\ command = "enter" => \E s \in Sockets : socketUser[s] = u
          /\ Begins(c, [step |-> "show", user |-> u, room |-> r, viewedAt |-> Len(messages),
                        command |-> command])
    /\ UNCHANGED cvars

\* The messages of room r that are stored, up to time n, and their first page.
InRoom(r, n) == {i \in stored : i <= n /\ messages[i].room = r}
Page(r, n) == {i \in InRoom(r, n) : Cardinality(InRoom(r, i)) <= PageSize}

ShowMessages(c) ==
    /\ At(c, "show")
    /\ shown' = [shown EXCEPT ![UserOf(c)] =
          @ \cup {messages[i].id : i \in Page(call[c].room, call[c].viewedAt)}]
    /\ Goes(c, "mark")
    /\ UNCHANGED <<rooms, messages, stored, lastRead, acknowledged, blocks, reports, recentReports, sockets>>

Now(c) == IF At(c, "mark") THEN Len(messages) ELSE 0            \* mutant: time taken late
ReadAt(c) == call[c].viewedAt

MarkRead(c) ==
    /\ At(c, "mark")
    /\ lastRead' = [lastRead EXCEPT ![call[c].room][UserOf(c)] = ReadAt(c)]
    /\ IF call[c].command = "enter" THEN Goes(c, "enter") ELSE Ends(c)
    /\ UNCHANGED <<rooms, messages, stored, shown, acknowledged, blocks, reports, recentReports, sockets>>

EnterRoom(c) ==
    LET r == call[c].room
        Adding(f) == [s \in Sockets |-> IF socketUser[s] \in Members(r) THEN f[s] \cup {r} ELSE f[s]]
    IN  /\ At(c, "enter")
        /\ joined' = Adding(joined) /\ entered' = Adding(entered)
        /\ Ends(c)
        /\ UNCHANGED <<rooms, messages, stored, lastRead, shown, acknowledged, blocks, reports, recentReports,
                       socketUser, refreshing>>

-----------------------------------------------------------------------------
(* Sockets.  A refresh leaves all rooms, reads the rooms that are not      *)
(* blocked, and joins these; nobody waits for it, and several may run.     *)
Free(s) == {i \in Refreshes : refreshing[s][i].stage = "none"}
Begun(s) == [refreshing[s] EXCEPT ![CHOOSE i \in Refreshes : i \in Free(s)] = Started]

Connect(s, u) ==
    /\ Commands("connect", u) /\ socketUser[s] = NoUser
    /\ Free(s) # {}
    /\ socketUser' = [socketUser EXCEPT ![s] = u]
    /\ refreshing' = [refreshing EXCEPT ![s] = Begun(s)]
    /\ UNCHANGED <<rooms, messages, stored, lastRead, shown, acknowledged, blocks, reports, recentReports,
                   joined, entered, call>>

Disconnect(s) ==
    /\ socketUser[s] # NoUser
    /\ socketUser' = [socketUser EXCEPT ![s] = NoUser]
    /\ joined' = [joined EXCEPT ![s] = {}] /\ entered' = [entered EXCEPT ![s] = {}]
    /\ refreshing' = [refreshing EXCEPT ![s] = [i \in Refreshes |-> NoRefresh]]
    /\ UNCHANGED <<rooms, messages, stored, lastRead, shown, acknowledged, blocks, reports, recentReports, call>>

\* The listener of the gateway: refreshes begin for the sockets of both users.
Refreshed(pair) ==
    LET concerned == {s \in Sockets : socketUser[s] \in pair}
    IN  /\ \A s \in concerned : Free(s) # {}
        /\ joined' = [s \in Sockets |-> IF s \in concerned THEN {} ELSE joined[s]]
        /\ refreshing' = [s \in Sockets |->
              IF s \in concerned THEN Begun(s) ELSE refreshing[s]]
        /\ UNCHANGED <<socketUser, entered>>

ListRooms(s) ==
    \E i \in Refreshes :
        /\ refreshing[s][i].stage = "started"
        /\ refreshing' = [refreshing EXCEPT ![s][i] = [stage |-> "listed", rooms |->
              {r \in rooms : socketUser[s] \in Members(r) /\ ~Blocked(r)}]]
        /\ UNCHANGED <<rooms, messages, stored, lastRead, shown, acknowledged, blocks, reports, recentReports,
                       socketUser, joined, entered, call>>

Replaced(s, found) == {r \in found : s \in Sockets}             \* mutant: rooms left here
With(s, found) == joined[s] \cup found

JoinRooms(s) ==
    \E i \in Refreshes :
        LET found == refreshing[s][i].rooms
        IN  /\ refreshing[s][i].stage = "listed"
            /\ joined' = [joined EXCEPT ![s] = With(s, found)]
            /\ entered' = [entered EXCEPT ![s] = @ \cup found]
            /\ refreshing' = [refreshing EXCEPT ![s][i] = NoRefresh]
            /\ UNCHANGED <<rooms, messages, stored, lastRead, shown, acknowledged, blocks, reports,
                           recentReports, socketUser, call>>

\* A list that fails in a refresh nobody waits for ends the process, and with it
\* the requests in flight and the sockets.
ProcessEnds ==
    /\ call' = [c \in Callers |-> NoCall]
    /\ socketUser' = [s \in Sockets |-> NoUser]
    /\ joined' = [s \in Sockets |-> {}] /\ entered' = [s \in Sockets |-> {}]
    /\ refreshing' = [s \in Sockets |-> [i \in Refreshes |-> NoRefresh]]
    /\ UNCHANGED <<rooms, messages, stored, lastRead, shown, acknowledged, blocks, reports, recentReports>>

-----------------------------------------------------------------------------
(* Blocks and reports.  The row is written, and then the listener runs.    *)
Block(c, u, v) ==
    /\ Commands("block", u) /\ u # v
    /\ blocks' = blocks \cup {<<u, v>>}
    /\ Begins(c, [step |-> "notify", user |-> u, other |-> v])
    /\ UNCHANGED <<rooms, messages, stored, lastRead, shown, acknowledged, reports, recentReports, sockets>>

Unblock(c, u, v) ==
    /\ Commands("block", u) /\ <<u, v>> \in blocks
    /\ blocks' = blocks \ {<<u, v>>}
    /\ Begins(c, [step |-> "notify", user |-> u, other |-> v])
    /\ UNCHANGED <<rooms, messages, stored, lastRead, shown, acknowledged, reports, recentReports, sockets>>

Concerned(c) == {UserOf(c), call[c].other}

Notify(c) ==
    /\ At(c, "notify") /\ Refreshed(Concerned(c))
    /\ Ends(c)
    /\ UNCHANGED <<rooms, messages, stored, lastRead, shown, acknowledged, blocks, reports, recentReports>>

MayAlwaysReport(u) == recentReports[u] \in Nat                  \* mutant: no limit
MayReport(u) == recentReports[u] < ReportLimit

AskReport(c, u, target) ==
    /\ Commands("report", u) /\ MayReport(u)
    /\ Begins(c, [step |-> "report", user |-> u, target |-> target])
    /\ UNCHANGED cvars

\* One report by user and target; another one is refused.
StoreReport(c) ==
    LET u == UserOf(c)
        x == call[c].target
    IN  /\ At(c, "report")
        /\ IF reports[u][x] = "absent"
             THEN /\ reports' = [reports EXCEPT ![u][x] = "RECEIVED"]
                  /\ recentReports' = [recentReports EXCEPT ![u] = @ + 1]
             ELSE UNCHANGED <<reports, recentReports>>
        /\ Ends(c)
        /\ UNCHANGED <<rooms, messages, stored, lastRead, shown, acknowledged, blocks, sockets>>

\* resolveReport, whatever the status was.
ResolveReport(u, x) ==
    /\ Asked("resolveReport", u) /\ reports[u][x] # "absent"
    /\ \E s \in {"RESOLVED", "DISMISSED"} : reports' = [reports EXCEPT ![u][x] = s]
    /\ UNCHANGED <<rooms, messages, stored, lastRead, shown, acknowledged, blocks, recentReports, sockets, call>>

MinutePasses(u) ==
    /\ Asked("time", u) /\ ~Busy(u) /\ recentReports[u] > 0
    /\ recentReports' = [recentReports EXCEPT ![u] = 0]
    /\ UNCHANGED <<rooms, messages, stored, lastRead, shown, acknowledged, blocks, reports, sockets, call>>

ChatNext ==
    \/ \E c \in Callers :
          \/ \E u \in Users, r \in Rooms : AskSend(c, u, r) \/ AskDetail(c, u, r)
          \/ \E u \in Users, x \in Targets : AskReport(c, u, x)
          \/ \E u, v \in Users : Block(c, u, v) \/ Unblock(c, u, v)
          \/ StampMessage(c) \/ StoreMessage(c) \/ FindExisting(c) \/ Acknowledge(c) \/ ShowMessages(c)
          \/ MarkRead(c) \/ EnterRoom(c) \/ Notify(c) \/ StoreReport(c)
    \/ \E s \in Sockets :
          \/ Disconnect(s) \/ ListRooms(s) \/ JoinRooms(s)
          \/ \E u \in Users : Connect(s, u)
    \/ \E u \in Users :
          \/ MinutePasses(u)
          \/ \E r \in Rooms : CreateRoom(u, r)
          \/ \E x \in Targets : ResolveReport(u, x)
    \/ ProcessEnds

-----------------------------------------------------------------------------
(* What a sender was told is stored is stored: with its author, room and   *)
(* text, whoever else used the same id, and however often it was sent.     *)
AcknowledgedIsStored == acknowledged \subseteq Stored

\* What a reading time n of user u covers in room r and no answer to u contained.
Unseen(r, u, n) == {i \in InRoom(r, n) : messages[i].id \notin shown[u]}

(* A reading time may cover a message whose insert was stamped before it   *)
(* and committed after the messages were read; of whatever was sent        *)
(* between the steps of a read, it covers no other: as many as there are   *)
(* other requests in flight, for rooms that fit on one page.               *)
FewReadsUnseen ==
    \A r \in Rooms, u \in Users :
        Cardinality(InRoom(r, Len(messages))) <= PageSize =>
            Cardinality(Unseen(r, u, lastRead[r][u])) <= Cardinality(Callers) - 1

\* A commit of a block or unblock whose listener has not run yet.
Notifying(s) == \E c \in Callers : At(c, "notify") /\ socketUser[s] \in Concerned(c)

(* A socket that was ever joined to a room still is, unless the room is    *)
(* blocked or a refresh is about to begin or in flight: however blocks,    *)
(* unblocks and the refreshes they begin overtake each other, no           *)
(* subscription gets lost.                                                 *)
SubscriptionsSurvive ==
    \A s \in Sockets, r \in Rooms :
        r \in entered[s] =>
            r \in joined[s] \/ Blocked(r) \/ Notifying(s) \/ Free(s) # Refreshes

(* In a minute a user files as many reports as the limit, and one more for *)
(* every other request in flight: they are counted before the insert.      *)
ReportsAreLimited ==
    \A u \in Users : recentReports[u] <= ReportLimit + Cardinality(Callers) - 1

=============================================================================
