---------------------------- MODULE DSNetManager ----------------------------
(***************************************************************************)
(* DSNetManager: the session of one client with a Natsue server.  The game *)
(* engine calls the manager from one thread; a call that runs Pump is cut  *)
(* into the steps of a program counter, because the server and the network *)
(* move on between them:                                                   *)
(*                                                                         *)
(*   engine   no call is running, the game may make one                    *)
(*   pump     Pump or PumpConnectPhase is about to use the socket          *)
(*   process  ProcessInput, at the head of its loop                        *)
(*   register HandleHandshakeResponse is about to write a registration     *)
(*   pumped   ProcessInput has returned                                    *)
(*   return   Pump has returned to the method that called it               *)
(*   scan     SendOrdinaryMessages is about to run ScanOutbox              *)
(*   send     ScanOutbox, at the head of its loop                          *)
(*                                                                         *)
(* Clock readings are reduced to what the code does with them: a deadline  *)
(* has passed or it has not.                                               *)
(***************************************************************************)
EXTENDS NetNatsueSocket, PresenceRegister, WarpSpool

CONSTANTS Self,          \* the user id the server gave us
          Malformed,     \* ids BabelUIN::FromString rejects
          Random, Status \* the slots of myRandomUserQuery, myStatusQuery

CONSTANTS Calls,         \* the methods the game calls
          WatchLists,    \* usersForWWR arguments
          ServerTypes,   \* what the server sends of its own accord
          MaxTicket,     \* bound: tickets drawn
          MaxPackets,    \* bound: packets under way in each direction
          MaxQueued      \* bound: messages in the queue

ASSUME ManagerAssumption ==
    /\ Malformed \subseteq Users
    /\ Random \notin Users /\ Status \notin Users /\ Random # Status
    /\ WatchLists \subseteq Seq(Users)
    /\ ServerTypes \subseteq UnsolicitedPackets
    /\ MaxTicket \in Nat /\ MaxPackets \in Nat /\ MaxQueued \in Nat

VARIABLES conn,          \* mySocket and what it is connected to
          phase,         \* myConnectPhase
          connectLate,   \* myConnectDeadline has passed
          lastError,     \* myLastError
          usersForWWR,   \* myUsersForWWR
          nextTicket,    \* myNextTicketNumber
          transactions,  \* myTransactions
          queries,       \* the block-and-poll queries under way
          incoming,      \* senders of myIncomingMessages
          queued,        \* length of myQueuedMessages
          pc, call,      \* where the running call is, and its locals
          result         \* what the last call returned

sessionVars == <<phase, connectLate, lastError, usersForWWR>>
tableVars   == <<transactions, nextTicket>>
mailVars    == <<incoming, queued>>
callVars    == <<pc, call, result>>
vars == <<conn, sessionVars, tableVars, queries, mailVars, callVars,
          presenceVars, spoolVars>>

Slot == Users \cup {Random, Status}
Phase == {"IDLE", "CONNECTING", "AWAIT_HANDSHAKE", "ONLINE", "FAILED"}
LastError == {"ERROR_UNKNOWN", "ERROR_OK", "ERROR_OFFLINE", "ERROR_REFUSED"}
Operation ==
    {"Connect", "ConnectInBackground", "Disconnect", "IsUserOnline",
     "AddToWWR", "RemoveFromWWR", "NextChangedUserWWR", "FetchUserData",
     "DSFetchRandomUser", "DSFetchRandomUserSync", "GetStatus",
     "PostDirectMessage", "GetMessages", "SendOrdinaryMessages",
     "QueueMessage", "DSFeedHistory"}

\* The running call: its user argument, the ticket a synchronous wait is
\* waiting on (0: none) and whether that wait's deadline has passed, and of
\* the Pump it runs, whether that is PumpConnectPhase and what the socket
\* returned.
Call == [op : Operation \cup {"none"}, arg : Subject, ticket : Nat,
         late : BOOLEAN, login : BOOLEAN, alive : BOOLEAN]
NoCall == [op |-> "none", arg |-> Nobody, ticket |-> 0, late |-> FALSE,
           login |-> FALSE, alive |-> FALSE]

\* about is the user a result is about.
Result == [op : Operation \cup {"none"}, arg : Subject, block : BOOLEAN,
           ok : BOOLEAN, about : Subject]
NoResult == [op |-> "none", arg |-> Nobody, block |-> FALSE, ok |-> FALSE,
             about |-> Nobody]

PendingQuery == [ticket : Nat, late : BOOLEAN]
NoQuery == [ticket |-> 0, late |-> FALSE]

SessionTypeOK ==
    /\ conn \in Connection
    /\ phase \in Phase
    /\ connectLate \in BOOLEAN
    /\ lastError \in LastError
    /\ usersForWWR \in Seq(Users)

TableTypeOK ==
    /\ nextTicket \in Nat
    /\ IsTable(transactions)
    /\ queries \in [Slot -> PendingQuery]

CallTypeOK ==
    /\ pc \in {"engine", "pump", "process", "register", "pumped", "return",
               "scan", "send"}
    /\ call \in Call
    /\ result \in Result

MailTypeOK == incoming \in Seq(Users) /\ queued \in Nat

TypeOK == /\ SessionTypeOK /\ TableTypeOK /\ CallTypeOK /\ MailTypeOK
          /\ PresenceTypeOK /\ SpoolTypeOK

Init ==
    /\ conn = NewSocket
    /\ phase = "IDLE"
    /\ connectLate = FALSE
    /\ lastError = "ERROR_UNKNOWN"
    /\ usersForWWR = <<>>
    /\ nextTicket = 0
    /\ transactions = NoTransactions
    /\ queries = [s \in Slot |-> NoQuery]
    /\ incoming = <<>>
    /\ queued = 0
    /\ pc = "engine"
    /\ call = NoCall
    /\ result = NoResult
    /\ PresenceInit
    /\ SpoolInit

Online == phase = "ONLINE" /\ IsConnected(conn)
Connecting == phase \in {"CONNECTING", "AWAIT_HANDSHAKE"}

\* Mutants of NextTicket: the counter stays at zero; it is so narrow that it
\* comes back to the same ticket each time.
TicketNotAdvanced == nextTicket
NarrowTicket == 1

\* Tickets are never zero; the wrap of the 32 bit counter is out of reach of
\* the bound.
NextTicket == nextTicket + 1

\* The bounds, as guards on what the game and the server start.
TicketsLeft(n) == nextTicket + n <= MaxTicket
RoomOut == Len(conn.output) + Len(conn.wire) < MaxPackets
RoomIn  == Len(conn.rx) + Len(conn.input) + Len(incoming) < MaxPackets

-----------------------------------------------------------------------------
(* Calls and returns.                                                      *)

\* The method returns to the game.
Return(op, arg, block, ok, about) ==
    /\ pc' = "engine"
    /\ call' = NoCall
    /\ result' = [op |-> op, arg |-> arg, block |-> block, ok |-> ok,
                  about |-> about]

\* The method goes on to run Pump, waiting for a ticket or not.
RunPump(op, arg, ticket) ==
    /\ pc' = "pump"
    /\ call' = [NoCall EXCEPT !.op = op, !.arg = arg, !.ticket = ticket]
    /\ result' = NoResult

\* The method says block; the synchronous variants of the two methods that
\* have one sleep and call it again instead.
ReturnBlock(op, arg) ==
    IF op \in {"Connect", "DSFetchRandomUserSync"}
    THEN RunPump(op, arg, 0)
    ELSE Return(op, arg, TRUE, FALSE, Nobody)

MayCall(op) == pc = "engine" /\ op \in Calls

\* Mutant of ConnectionLost: the socket is left open.
LoseOpenConnection(c) ==
    /\ conn' = c
    /\ phase' = "IDLE"
    /\ lastError' = "ERROR_OFFLINE"
    /\ transactions' = NoTransactions
    /\ MarkEveryoneOffline
    /\ UNCHANGED <<connectLate, usersForWWR>>

\* ConnectionLost, with the socket as the failed operation left it.
ConnectionLost(c) ==
    /\ conn' = Close(c)
    /\ phase' = "IDLE"
    /\ lastError' = "ERROR_OFFLINE"
    /\ transactions' = NoTransactions
    /\ MarkEveryoneOffline
    /\ UNCHANGED <<connectLate, usersForWWR>>

\* The ends of PumpConnectPhase and StartConnecting that give up.
ConnectFails(c, error) ==
    /\ conn' = c
    /\ phase' = "FAILED"
    /\ lastError' = error

-----------------------------------------------------------------------------
(* Session.                                                                *)

StartConnecting(op) ==
    \E c \in BeginConnects(conn) :
       IF c.state = "FAILED"
       THEN /\ ConnectFails(c, "ERROR_OFFLINE")
            /\ Return(op, Nobody, FALSE, FALSE, Nobody)
            /\ UNCHANGED connectLate
       ELSE /\ conn' = c
            /\ phase' = "CONNECTING"
            /\ connectLate' = FALSE
            /\ ReturnBlock(op, Nobody)
            /\ UNCHANGED lastError

\* ConnectInBackground(block, usersForWWR), and Connect, which calls it with
\* no users until it does not block.
ConnectInBackground(op, users) ==
    /\ MayCall(op)
    /\ op = "Connect" => users = <<>>
    /\ \/ /\ Online
          /\ Return(op, Nobody, FALSE, TRUE, Nobody)
          /\ UNCHANGED <<conn, sessionVars>>
       \/ /\ ~Online /\ ~Connecting
          /\ TicketsLeft(1)
          /\ usersForWWR' = users
          /\ StartConnecting(op)
       \/ /\ Connecting
          /\ RunPump(op, Nobody, 0)
          /\ UNCHANGED <<conn, sessionVars>>
    /\ UNCHANGED <<tableVars, queries, mailVars, presenceVars, spoolVars>>

ReturnConnect ==
    /\ pc = "return" /\ call.op \in {"Connect", "ConnectInBackground"}
    /\ IF Connecting THEN ReturnBlock(call.op, Nobody)
                     ELSE Return(call.op, Nobody, FALSE, Online, Nobody)
    /\ UNCHANGED <<conn, sessionVars, tableVars, queries, mailVars,
                   presenceVars, spoolVars>>

Disconnect ==
    /\ MayCall("Disconnect")
    /\ conn' = Close(conn)
    /\ phase' = "IDLE"
    /\ transactions' = NoTransactions
    /\ MarkEveryoneOffline
    /\ Return("Disconnect", Nobody, FALSE, TRUE, Nobody)
    /\ UNCHANGED <<connectLate, lastError, usersForWWR, nextTicket, queries,
                   mailVars, spoolVars>>

-----------------------------------------------------------------------------
(* Pump and PumpConnectPhase.                                              *)

\* The first half of PumpConnectPhase: when the connection is up, log in.
\* With the handshake written it goes on to PumpSocket in the same call.
PumpConnect ==
    /\ pc = "pump" /\ phase = "CONNECTING"
    /\ \E c \in PumpConnects(conn) :
         CASE IsConnected(c) ->
                /\ nextTicket' = NextTicket
                /\ \E d \in Writes(c, <<Request("HANDSHAKE", Nobody, nextTicket')>>) :
                     IF IsConnected(d)
                     THEN /\ conn' = d
                          /\ phase' = "AWAIT_HANDSHAKE"
                          /\ UNCHANGED <<lastError, pc, call>>
                     ELSE /\ ConnectFails(d, "ERROR_OFFLINE")
                          /\ pc' = "return"
                          /\ UNCHANGED call
           [] c.state = "CONNECTING" ->
                /\ conn' = c
                /\ pc' = "pumped"
                /\ call' = [call EXCEPT !.login = TRUE, !.alive = TRUE]
                /\ UNCHANGED <<phase, lastError, nextTicket>>
           [] OTHER ->
                /\ ConnectFails(c, "ERROR_OFFLINE")
                /\ pc' = "return"
                /\ UNCHANGED <<nextTicket, call>>
    /\ UNCHANGED <<connectLate, usersForWWR, transactions, queries, mailVars,
                   result, presenceVars, spoolVars>>

\* bool alive = mySocket.Pump(), in either phase that reads packets.
PumpSocket ==
    /\ pc = "pump" /\ phase \in {"AWAIT_HANDSHAKE", "ONLINE"}
    /\ \E c \in SocketPumps(conn) :
         /\ conn' = c
         /\ call' = [call EXCEPT !.login = (phase = "AWAIT_HANDSHAKE"),
                                 !.alive = SocketAlive(c)]
    /\ pc' = "process"
    /\ UNCHANGED <<sessionVars, tableVars, queries, mailVars, result,
                   presenceVars, spoolVars>>

\* Pump does nothing without a connection.
PumpNothing ==
    /\ pc = "pump" /\ phase \in {"IDLE", "FAILED"}
    /\ pc' = "return"
    /\ UNCHANGED <<conn, sessionVars, tableVars, queries, mailVars, call,
                   result, presenceVars, spoolVars>>

\* What Pump and PumpConnectPhase do once the input is processed.
PumpEnd ==
    /\ pc = "pumped"
    /\ pc' = "return"
    /\ IF call.login
       THEN /\ CASE phase = "AWAIT_HANDSHAKE" /\ ~call.alive ->
                      ConnectFails(conn, "ERROR_OFFLINE")
                 [] Connecting /\ call.alive /\ connectLate ->
                      ConnectFails(Close(conn), "ERROR_OFFLINE")
                 [] OTHER -> UNCHANGED <<conn, phase, lastError>>
            /\ UNCHANGED <<connectLate, usersForWWR, tableVars, presenceVars>>
       ELSE IF phase = "ONLINE" /\ ~call.alive
       THEN ConnectionLost(conn) /\ UNCHANGED nextTicket
       ELSE UNCHANGED <<conn, sessionVars, tableVars, presenceVars>>
    /\ UNCHANGED <<queries, mailVars, call, result, spoolVars>>

-----------------------------------------------------------------------------
(* ProcessInput: one action per kind of packet at the head of the input.   *)

Packets == conn.input
Awaited(p) == p.ticket \in DOMAIN transactions
Processing(p) == pc = "process" /\ Packets # <<>> /\ p = Head(Packets)

\* A reply is cut out of the stream by the length its entry promises.  With
\* the wrong length the bytes that follow make no packet header.
ConsumeReply(p) ==
    IF transactions[p.ticket].fixedExtra = p.extra
    THEN ConsumeInput(conn)
    ELSE [conn EXCEPT !.input = <<OneWay("UNKNOWN", Nobody, FALSE)>>]

ProcessTransactionResponse(p) ==
    /\ Processing(p) /\ Awaited(p)
    /\ transactions' = HandleTransactionResponse(transactions, p)
    /\ conn' = ConsumeReply(p)
    /\ UNCHANGED <<sessionVars, nextTicket, queries, mailVars, callVars,
                   presenceVars, spoolVars>>

\* HandleHandshakeResponse; a stray one is ignored.
ProcessHandshakeResponse(p) ==
    /\ Processing(p) /\ ~Awaited(p)
    /\ p.type = "HANDSHAKE_RESPONSE"
    /\ CASE phase # "AWAIT_HANDSHAKE" ->
              /\ conn' = ConsumeInput(conn)
              /\ UNCHANGED <<phase, lastError, pc>>
         [] phase = "AWAIT_HANDSHAKE" /\ ~p.flag ->
              /\ ConnectFails(ConsumeInput(Close(conn)), "ERROR_REFUSED")
              /\ UNCHANGED pc
         [] OTHER ->
              /\ conn' = ConsumeInput(conn)
              /\ phase' = "ONLINE"
              /\ lastError' = "ERROR_OK"
              /\ pc' = "register"
    /\ UNCHANGED <<connectLate, usersForWWR, tableVars, queries, mailVars, call,
                   result, presenceVars, spoolVars>>

\* SendWWRRegistrations, one user of the list at a time: a user is watched
\* even if the write fails, and then the rest of the list is not looked at.
RegisterNextUser ==
    /\ pc = "register" /\ usersForWWR # <<>>
    /\ LET u == Head(usersForWWR)
       IN  IF u \in Malformed
           THEN /\ usersForWWR' = Tail(usersForWWR)
                /\ UNCHANGED <<conn, wwrMembers>>
           ELSE \E c \in Writes(conn, <<OneWay("ADD_WWR_ENTRY", u, TRUE)>>) :
                  /\ conn' = c
                  /\ wwrMembers' = wwrMembers \cup {u}
                  /\ usersForWWR' = IF IsConnected(c) THEN Tail(usersForWWR)
                                                      ELSE <<>>
    /\ UNCHANGED <<phase, connectLate, lastError, tableVars, queries, mailVars,
                   callVars, presence, changedUsers, pendingAdds, spoolVars>>

\* The end of HandleHandshakeResponse; ProcessInput goes on.
RegistrationEnds ==
    /\ pc = "register" /\ usersForWWR = <<>>
    /\ pc' = "process"
    /\ outboxDirty' = TRUE
    /\ UNCHANGED <<conn, sessionVars, tableVars, queries, mailVars, call,
                   result, presenceVars, outbox, scanDue, scanList,
                   inbox>>

ProcessPresence(p) ==
    /\ Processing(p) /\ ~Awaited(p)
    /\ p.type \in PresencePackets
    /\ UpdatePresence(p.about, \/ p.type = "USER_ONLINE"
                               \/ p.type = "ONLINE_CHANGE" /\ p.flag)
    /\ conn' = ConsumeInput(conn)
    /\ UNCHANGED <<sessionVars, tableVars, queries, mailVars, callVars,
                   spoolVars>>

\* A message with the flag is a PRAY file for the inbox.
ProcessMessage(p) ==
    /\ Processing(p) /\ ~Awaited(p)
    /\ p.type = "MESSAGE"
    /\ IF p.flag THEN /\ SpoolPrayFile(p.about)
                      /\ UNCHANGED incoming
                 ELSE /\ incoming' = Append(incoming, p.about)
                      /\ UNCHANGED spoolVars
    /\ conn' = ConsumeInput(conn)
    /\ UNCHANGED <<sessionVars, tableVars, queries, queued, callVars,
                   presenceVars>>

\* The server opens a virtual circuit as a delivery confirmation ping.  When
\* the answer cannot be written ProcessInput stops where it is.
ProcessVirtualConnect(p) ==
    /\ Processing(p) /\ ~Awaited(p)
    /\ p.type = "VIRTUAL_CONNECT"
    /\ \E c \in Writes(conn, <<OneWay("VIRTUAL_CONNECT_ACCEPT", p.about, TRUE)>>) :
         IF IsConnected(c)
         THEN /\ conn' = ConsumeInput(c)
              /\ UNCHANGED <<sessionVars, tableVars, pc, presenceVars>>
         ELSE /\ ConnectionLost(c)
              /\ pc' = "pumped"
              /\ UNCHANGED nextTicket
    /\ UNCHANGED <<queries, mailVars, call, result, spoolVars>>

ProcessIgnored(p) ==
    /\ Processing(p) /\ ~Awaited(p)
    /\ p.type \in IgnoredPackets
    /\ conn' = ConsumeInput(conn)
    /\ UNCHANGED <<sessionVars, tableVars, queries, mailVars, callVars,
                   presenceVars, spoolVars>>

\* A packet of no known length: the stream cannot be read any further.
ProcessUnknown(p) ==
    /\ Processing(p) /\ ~Awaited(p)
    /\ p.type \in {"UNKNOWN", "RESPONSE"}
    /\ ConnectionLost(conn)
    /\ pc' = "pumped"
    /\ UNCHANGED <<nextTicket, queries, mailVars, call, result,
                   spoolVars>>

\* No whole packet is left.
ProcessEnd ==
    /\ pc = "process" /\ Packets = <<>>
    /\ pc' = "pumped"
    /\ UNCHANGED <<conn, sessionVars, tableVars, queries, mailVars, call,
                   result, presenceVars, spoolVars>>

ProcessInput ==
    \/ ProcessEnd
    \/ /\ Packets # <<>>
       /\ LET p == Head(Packets)
          IN  \/ ProcessTransactionResponse(p)
              \/ ProcessHandshakeResponse(p)
              \/ ProcessPresence(p)
              \/ ProcessMessage(p)
              \/ ProcessVirtualConnect(p)
              \/ ProcessIgnored(p)
              \/ ProcessUnknown(p)

-----------------------------------------------------------------------------
(* Synchronous waits: IsUserOnline and DSFeedHistory.                      *)

\* The table after StartTransaction with the next ticket.
Started(kind, fixedExtra) ==
    StartTransaction(transactions, NextTicket, kind, fixedExtra)

IsUserOnline(u) ==
    /\ MayCall("IsUserOnline")
    /\ \/ /\ u \in Malformed \/ ~Online
          /\ Return("IsUserOnline", u, FALSE, FALSE, Nobody)
          /\ UNCHANGED <<conn, tableVars>>
       \/ /\ u \notin Malformed /\ Online
          /\ u = Self \/ u \in DOMAIN presence
          /\ Return("IsUserOnline", u, FALSE, u = Self \/ ReadsOnline(u), u)
          /\ UNCHANGED <<conn, tableVars>>
       \/ /\ u \notin Malformed /\ Online
          /\ u # Self /\ u \notin DOMAIN presence
          /\ TicketsLeft(1)
          /\ nextTicket' = NextTicket
          /\ \E c \in Writes(conn, <<Request("GET_CONNECTION_DETAIL", u, nextTicket')>>) :
               /\ conn' = c
               /\ LET table == Started("TRANS_CONNECTION_DETAIL", 0)
                  IN  IF IsConnected(c)
                      THEN /\ transactions' = table
                           /\ RunPump("IsUserOnline", u, nextTicket')
                      ELSE /\ transactions' = AbandonTransaction(table, nextTicket')
                           /\ Return("IsUserOnline", u, FALSE, FALSE, Nobody)
    /\ UNCHANGED <<sessionVars, queries, mailVars, presenceVars, spoolVars>>

\* A wait inside SendOrdinaryMessages is the Send of a queued message; what
\* it returns is not looked at, and ScanOutbox is next.
WaitReturns(op, arg, ok, about) ==
    IF op = "SendOrdinaryMessages"
    THEN /\ pc' = "scan"
         /\ call' = [NoCall EXCEPT !.op = op]
         /\ UNCHANGED result
    ELSE Return(op, arg, FALSE, ok, about)

\* DSFeedHistory once Online: write the request and wait.
FeedHistory(op) ==
    /\ nextTicket' = NextTicket
    /\ \E c \in Writes(conn, <<Request("DS_FEED_HISTORY", Nobody, nextTicket')>>) :
         IF IsConnected(c)
         THEN /\ conn' = c
              /\ transactions' = Started("TRANS_FEED_HISTORY", 0)
              /\ RunPump(op, Nobody, nextTicket')
              /\ UNCHANGED <<sessionVars, presenceVars>>
         ELSE /\ ConnectionLost(c)
              /\ WaitReturns(op, Nobody, FALSE, Nobody)

DSFeedHistory ==
    /\ MayCall("DSFeedHistory")
    /\ IF Online
       THEN TicketsLeft(1) /\ FeedHistory("DSFeedHistory")
       ELSE /\ Return("DSFeedHistory", Nobody, FALSE, FALSE, Nobody)
            /\ UNCHANGED <<conn, sessionVars, tableVars, presenceVars>>
    /\ UNCHANGED <<queries, mailVars, spoolVars>>

\* Mutant of WaitTimedOut: the deadline is not looked at.
WaitForever == FALSE

WaitTimedOut == call.late

\* WaitForTransaction after its Pump: the transaction is done, or gone with
\* the connection, or the wait gives it up, or pumps again.
ReturnWait ==
    /\ pc = "return" /\ call.ticket # 0
    /\ CASE call.ticket \notin DOMAIN transactions ->
              /\ WaitReturns(call.op, call.arg, FALSE, Nobody)
              /\ UNCHANGED transactions
         [] call.ticket \in DOMAIN transactions
            /\ transactions[call.ticket].done ->
              /\ WaitReturns(call.op, call.arg,
                             transactions[call.ticket].success,
                             transactions[call.ticket].about)
              /\ transactions' = Erase(transactions, call.ticket)
         [] OTHER ->
              IF ~Online
              THEN /\ WaitReturns(call.op, call.arg, FALSE, Nobody)
                   /\ UNCHANGED transactions
              ELSE IF WaitTimedOut
              THEN /\ WaitReturns(call.op, call.arg, FALSE, Nobody)
                   /\ transactions' = AbandonTransaction(transactions, call.ticket)
              ELSE /\ pc' = "pump"
                   /\ UNCHANGED <<transactions, call, result>>
    /\ UNCHANGED <<conn, sessionVars, nextTicket, queries, mailVars,
                   presenceVars, spoolVars>>

-----------------------------------------------------------------------------
(* Block-and-poll queries: FetchUserData, DSFetchRandomUser, GetStatus.    *)
(* The slot of a query is the user asked about, or Random, or Status.      *)

SlotKind(s) == CASE s = Random -> "TRANS_RANDOM_USER"
                 [] s = Status -> "TRANS_STATUS"
                 [] OTHER      -> "TRANS_CLIENT_INFO"
SlotRequest(s) == CASE s = Random -> "DS_FETCH_RANDOM_USER"
                    [] s = Status -> "GET_STATUS"
                    [] OTHER      -> "GET_CLIENT_INFO"
SlotExtra(s) == IF s = Status THEN 1 ELSE 0

IsPending(s) == queries[s].ticket # 0

\* The first call of a query.
StartQuery(op, s, arg) ==
    /\ TicketsLeft(1)
    /\ nextTicket' = NextTicket
    /\ \E c \in Writes(conn, <<Request(SlotRequest(s), arg, nextTicket')>>) :
         /\ conn' = c
         /\ LET table == Started(SlotKind(s), SlotExtra(s))
            IN  IF IsConnected(c)
                THEN /\ transactions' = table
                     /\ queries' = [queries EXCEPT ![s] =
                                      [ticket |-> nextTicket', late |-> FALSE]]
                     /\ ReturnBlock(op, arg)
                ELSE /\ transactions' = AbandonTransaction(table, nextTicket')
                     /\ Return(op, arg, FALSE, FALSE, Nobody)
                     /\ UNCHANGED queries

\* GetStatus alone looks at Online again while its query is pending.
Query(op, s, arg) ==
    /\ MayCall(op)
    /\ \/ /\ \/ s \in Malformed
             \/ ~Online /\ (s = Status \/ ~IsPending(s))
          /\ Return(op, arg, FALSE, FALSE, Nobody)
          /\ transactions' = AbandonTransaction(transactions, queries[s].ticket)
          /\ queries' = [queries EXCEPT ![s] = NoQuery]
          /\ UNCHANGED <<conn, nextTicket>>
       \/ /\ s \notin Malformed /\ Online /\ ~IsPending(s)
          /\ StartQuery(op, s, arg)
       \/ /\ s = Status => Online
          /\ IsPending(s)
          /\ RunPump(op, arg, 0)
          /\ UNCHANGED <<conn, tableVars, queries>>
    /\ UNCHANGED <<sessionVars, mailVars, presenceVars, spoolVars>>

FetchUserData(u) == Query("FetchUserData", u, u)
DSFetchRandomUser ==
    \E op \in {"DSFetchRandomUser", "DSFetchRandomUserSync"} :
       Query(op, Random, Nobody)
GetStatus == Query("GetStatus", Status, Nobody)

CalledSlot ==
    CASE call.op = "FetchUserData" -> call.arg
      [] call.op = "GetStatus"     -> Status
      [] OTHER                     -> Random

\* Mutant of QueryTimedOut: the deadline is not looked at.
PollForever(query) == FALSE

QueryTimedOut(query) == query.late

\* Mutant of QueryReturns: the query stays pending.
QueryReturnsPending(success, about) ==
    /\ queries' = queries
    /\ Return(call.op, call.arg, FALSE, success \/ CalledSlot = Status,
              IF success THEN about ELSE Nobody)

\* GetStatus reports its own clock and counters even when the query fails.
QueryReturns(success, about) ==
    /\ queries' = [queries EXCEPT ![CalledSlot] = NoQuery]
    /\ Return(call.op, call.arg, FALSE, success \/ CalledSlot = Status,
              IF success THEN about ELSE Nobody)

\* PollTransaction after the Pump, then the deadline.
ReturnQuery ==
    /\ pc = "return"
    /\ call.op \in {"FetchUserData", "DSFetchRandomUser",
                    "DSFetchRandomUserSync", "GetStatus"}
    /\ LET query == queries[CalledSlot]
       IN  CASE query.ticket \notin DOMAIN transactions ->
                  /\ QueryReturns(FALSE, Nobody)
                  /\ UNCHANGED transactions
             [] query.ticket \in DOMAIN transactions
                /\ transactions[query.ticket].done ->
                  /\ QueryReturns(transactions[query.ticket].success,
                                  transactions[query.ticket].about)
                  /\ transactions' = Erase(transactions, query.ticket)
             [] OTHER ->
                  IF QueryTimedOut(query)
                  THEN /\ QueryReturns(FALSE, Nobody)
                       /\ transactions' = AbandonTransaction(transactions, query.ticket)
                  ELSE /\ ReturnBlock(call.op, call.arg)
                       /\ UNCHANGED <<queries, transactions>>
    /\ UNCHANGED <<conn, sessionVars, nextTicket, mailVars, presenceVars,
                   spoolVars>>

-----------------------------------------------------------------------------
(* Presence.                                                               *)

AddToWWR(u) ==
    /\ MayCall("AddToWWR") /\ RoomOut
    /\ wwrMembers' = IF u \in Malformed THEN wwrMembers ELSE wwrMembers \cup {u}
    /\ \/ /\ u \in Malformed \/ ~Online
          /\ Return("AddToWWR", u, FALSE, FALSE, Nobody)
          /\ UNCHANGED <<conn, pendingAdds>>
       \/ /\ u \notin Malformed /\ Online
          /\ u \notin DOMAIN pendingAdds
          /\ \E c \in Writes(conn, <<OneWay("ADD_WWR_ENTRY", u, TRUE)>>) :
               /\ conn' = c
               /\ IF IsConnected(c) /\ u \notin DOMAIN presence
                  THEN /\ pendingAdds' = Insert(pendingAdds, u, FALSE)
                       /\ Return("AddToWWR", u, TRUE, FALSE, Nobody)
                  ELSE /\ Return("AddToWWR", u, FALSE, IsConnected(c), Nobody)
                       /\ UNCHANGED pendingAdds
       \/ /\ u \notin Malformed /\ Online
          /\ u \in DOMAIN pendingAdds
          /\ RunPump("AddToWWR", u, 0)
          /\ UNCHANGED <<conn, pendingAdds>>
    /\ UNCHANGED <<sessionVars, tableVars, queries, mailVars, presence,
                   changedUsers, spoolVars>>

ReturnAddToWWR ==
    /\ pc = "return" /\ call.op = "AddToWWR"
    /\ IF call.arg \in DOMAIN pendingAdds /\ ~pendingAdds[call.arg]
       THEN /\ Return("AddToWWR", call.arg, TRUE, FALSE, Nobody)
            /\ UNCHANGED pendingAdds
       ELSE /\ Return("AddToWWR", call.arg, FALSE,
                      call.arg \notin DOMAIN pendingAdds, Nobody)
            /\ EndPendingAdd(call.arg)
    /\ UNCHANGED <<conn, sessionVars, tableVars, queries, mailVars, presence,
                   wwrMembers, changedUsers, spoolVars>>

RemoveFromWWR(u) ==
    /\ MayCall("RemoveFromWWR") /\ RoomOut
    /\ wwrMembers' = wwrMembers \ {u}
    /\ EndPendingAdd(u)
    /\ presence' = Erase(presence, u)
    /\ IF u \in Malformed \/ ~Online
       THEN UNCHANGED conn
       ELSE conn' \in Writes(conn, <<OneWay("REMOVE_WWR_ENTRY", u, TRUE)>>)
    /\ Return("RemoveFromWWR", u, FALSE, TRUE, Nobody)
    /\ UNCHANGED <<sessionVars, tableVars, queries, mailVars, changedUsers,
                   spoolVars>>

\* about is the user reported, ok whether as online; Nobody is "no more".
NextChangedUserWWR ==
    /\ MayCall("NextChangedUserWWR")
    /\ IF changedUsers = <<>>
       THEN /\ Return("NextChangedUserWWR", Nobody, FALSE, FALSE, Nobody)
            /\ UNCHANGED changedUsers
       ELSE /\ Return("NextChangedUserWWR", Nobody, FALSE,
                      ReadsOnline(Head(changedUsers)), Head(changedUsers))
            /\ changedUsers' = Tail(changedUsers)
    /\ UNCHANGED <<conn, sessionVars, tableVars, queries, mailVars, presence,
                   wwrMembers, pendingAdds, spoolVars>>

-----------------------------------------------------------------------------
(* Messages, the queue and the outbox.                                     *)

PostDirectMessage(u) ==
    /\ MayCall("PostDirectMessage") /\ RoomOut
    /\ IF u \in Malformed \/ ~Online
       THEN /\ Return("PostDirectMessage", u, FALSE, FALSE, Nobody)
            /\ UNCHANGED <<conn, sessionVars, transactions, presenceVars>>
       ELSE \E c \in Writes(conn, <<OneWay("MESSAGE", u, FALSE)>>) :
              /\ Return("PostDirectMessage", u, FALSE, IsConnected(c), Nobody)
              /\ IF IsConnected(c)
                 THEN /\ conn' = c
                      /\ UNCHANGED <<sessionVars, transactions, presenceVars>>
                 ELSE ConnectionLost(c)
    /\ UNCHANGED <<nextTicket, queries, mailVars, spoolVars>>

GetMessages ==
    /\ MayCall("GetMessages")
    /\ RunPump("GetMessages", Nobody, 0)
    /\ UNCHANGED <<conn, sessionVars, tableVars, queries, mailVars,
                   presenceVars, spoolVars>>

ReturnGetMessages ==
    /\ pc = "return" /\ call.op = "GetMessages"
    /\ incoming' = <<>>
    /\ Return("GetMessages", Nobody, FALSE, incoming # <<>>, Nobody)
    /\ UNCHANGED <<conn, sessionVars, tableVars, queries, queued,
                   presenceVars, spoolVars>>

QueueMessage ==
    /\ MayCall("QueueMessage")
    /\ queued < MaxQueued
    /\ queued' = queued + 1
    /\ Return("QueueMessage", Nobody, FALSE, TRUE, Nobody)
    /\ UNCHANGED <<conn, sessionVars, tableVars, queries, incoming,
                   presenceVars, spoolVars>>

\* The request of a queued message draws a ticket, and so does the handshake of a
\* connect under way.
SendOrdinaryMessages ==
    /\ MayCall("SendOrdinaryMessages")
    /\ queued > 0 => TicketsLeft(IF phase = "CONNECTING" THEN 2 ELSE 1)
    /\ outbox # {} => RoomOut
    /\ RunPump("SendOrdinaryMessages", Nobody, 0)
    /\ UNCHANGED <<conn, sessionVars, tableVars, queries, mailVars,
                   presenceVars, spoolVars>>

\* ProcessQueuedMessages: the first message leaves the queue and its Send
\* feeds a history to the server.
ProcessQueuedMessages ==
    /\ pc = "return" /\ call.op = "SendOrdinaryMessages" /\ call.ticket = 0
    /\ queued' = IF queued > 0 THEN queued - 1 ELSE 0
    /\ IF queued > 0 /\ Online
       THEN FeedHistory("SendOrdinaryMessages")
       ELSE /\ WaitReturns("SendOrdinaryMessages", Nobody, FALSE, Nobody)
            /\ UNCHANGED <<conn, sessionVars, tableVars, presenceVars>>
    /\ UNCHANGED <<queries, incoming, spoolVars>>

ScanOutbox ==
    /\ pc = "scan"
    /\ IF Online /\ OutboxSet /\ (outboxDirty \/ scanDue)
       THEN /\ outboxDirty' = FALSE
            /\ scanDue' = FALSE
            /\ scanList' = outbox
            /\ pc' = "send"
            /\ UNCHANGED <<call, result>>
       ELSE /\ Return("SendOrdinaryMessages", Nobody, FALSE, TRUE, Nobody)
            /\ UNCHANGED <<outboxDirty, scanDue, scanList>>
    /\ UNCHANGED <<conn, sessionVars, tableVars, queries, mailVars,
                   presenceVars, outbox, inbox>>

ScanEnds ==
    /\ pc = "send"
    /\ scanList = {} \/ ~Online
    /\ scanList' = {}
    /\ Return("SendOrdinaryMessages", Nobody, FALSE, TRUE, Nobody)
    /\ UNCHANGED <<conn, sessionVars, tableVars, queries, mailVars,
                   presenceVars, outbox, outboxDirty, scanDue, inbox>>

\* SendOutboxFile of the next name: a badly named file is renamed out of the
\* way, one that cannot be read is left for later, and a sent one is removed;
\* the rename and the removal may fail, and nobody looks.
SendOutboxFile(f) ==
    /\ pc = "send" /\ f \in scanList /\ Online
    /\ \/ /\ FileTarget[f] = Nobody
          /\ outbox' \in {outbox, outbox \ {f}}
          /\ scanList' = scanList \ {f}
          /\ UNCHANGED <<conn, sessionVars, transactions, presenceVars, callVars>>
       \/ /\ FileTarget[f] # Nobody
          /\ scanList' = scanList \ {f}
          /\ UNCHANGED <<conn, sessionVars, transactions, presenceVars,
                         callVars, outbox>>
       \/ /\ FileTarget[f] # Nobody
          /\ \E c \in Writes(conn, <<OneWay("MESSAGE", f, TRUE)>>) :
               IF IsConnected(c)
               THEN /\ conn' = c
                    /\ outbox' \in {outbox, outbox \ {f}}
                    /\ scanList' = scanList \ {f}
                    /\ UNCHANGED <<sessionVars, transactions, presenceVars, callVars>>
               ELSE /\ ConnectionLost(c)
                    /\ Return("SendOrdinaryMessages", Nobody, FALSE, TRUE, Nobody)
                    /\ scanList' = {}
                    /\ UNCHANGED outbox
    /\ UNCHANGED <<nextTicket, queries, mailVars, outboxDirty, scanDue, inbox>>

-----------------------------------------------------------------------------
(* The clock, the server and the network.                                  *)

managerVars == <<sessionVars, tableVars, queries, mailVars, callVars,
                 presenceVars>>

ConnectDeadlinePasses ==
    /\ Connecting /\ ~connectLate
    /\ connectLate' = TRUE
    /\ UNCHANGED <<conn, phase, lastError, usersForWWR, tableVars, queries,
                   mailVars, callVars, presenceVars, spoolVars>>

QueryDeadlinePasses(s) ==
    /\ IsPending(s) /\ ~queries[s].late
    /\ queries' = [queries EXCEPT ![s].late = TRUE]
    /\ UNCHANGED <<conn, sessionVars, tableVars, mailVars, callVars,
                   presenceVars, spoolVars>>

WaitDeadlinePasses ==
    /\ call.ticket # 0 /\ ~call.late
    /\ call' = [call EXCEPT !.late = TRUE]
    /\ UNCHANGED <<conn, sessionVars, tableVars, queries, mailVars, pc, result,
                   presenceVars, spoolVars>>

AddDeadlinePasses(u) ==
    /\ u \in DOMAIN pendingAdds /\ ~pendingAdds[u]
    /\ pendingAdds' = [pendingAdds EXCEPT ![u] = TRUE]
    /\ UNCHANGED <<conn, sessionVars, tableVars, queries, mailVars, callVars,
                   presence, wwrMembers, changedUsers, spoolVars>>

\* The users a server packet can be about: an id on the wire is two numbers,
\* and FromString accepts what they are formatted to.
KnownUsers == Users \ Malformed

Remote(c) == conn' = c /\ UNCHANGED <<managerVars, spoolVars>>

ServerReads == conn.wire # <<>> /\ Remote(ServerReceives(conn))

\* The server accepts or refuses a login.
ServerAnswersHandshake(q, accept) ==
    /\ q \in conn.owed /\ q.type = "HANDSHAKE"
    /\ Remote([ServerSends(conn, Reply(q, Nobody, accept))
                 EXCEPT !.owed = @ \ {q}, !.login = accept])

\* The server answers a request, in any order: whether the user exists, is
\* connected, or was found, and who it is.
ServerAnswers(q, about, found) ==
    /\ q \in conn.owed /\ q.type # "HANDSHAKE"
    /\ q.type # "DS_FETCH_RANDOM_USER" => about = q.about
    /\ Remote([ServerSends(conn, Reply(q, about, found))
                 EXCEPT !.owed = @ \ {q}])

ServerVolunteers(type, about, flag) ==
    /\ conn.peer = "open" /\ conn.login
    /\ RoomIn /\ RoomOut
    /\ about = Nobody <=> type \notin SubjectPackets
    /\ type = "MESSAGE" /\ flag => inbox[about] < MaxInbox
    /\ type \notin {"MESSAGE", "ONLINE_CHANGE"} => flag
    /\ Remote(ServerSends(conn, OneWay(type, about, flag)))

ServerHangsUp == conn.peer = "open" /\ Remote(ServerCloses(conn))

NetworkFails ==
    /\ conn.peer = "open"
    /\ \E n \in 0 .. Len(conn.rx) : Remote(NetworkBreaks(conn, n))

-----------------------------------------------------------------------------
GameCalls ==
    \/ \E op \in {"Connect", "ConnectInBackground"}, users \in WatchLists :
          ConnectInBackground(op, users)
    \/ Disconnect
    \/ \E u \in Users : \/ IsUserOnline(u) \/ AddToWWR(u) \/ RemoveFromWWR(u)
                        \/ FetchUserData(u) \/ PostDirectMessage(u)
    \/ DSFetchRandomUser \/ GetStatus \/ NextChangedUserWWR
    \/ DSFeedHistory \/ QueueMessage \/ GetMessages \/ SendOrdinaryMessages

GameUsesSpool ==
    /\ pc = "engine"
    /\ \/ \E f \in Files : GamePutsFile(f)
       \/ \E u \in Users : GameTakesFile(u)
    /\ UNCHANGED <<conn, managerVars>>

\* The steps of a call once it runs.
ManagerSteps ==
    \/ PumpConnect \/ PumpSocket \/ PumpNothing \/ PumpEnd
    \/ ProcessInput \/ RegisterNextUser \/ RegistrationEnds
    \/ ReturnConnect \/ ReturnWait \/ ReturnQuery \/ ReturnAddToWWR
    \/ ReturnGetMessages \/ ProcessQueuedMessages \/ ScanOutbox \/ ScanEnds
    \/ \E f \in scanList : SendOutboxFile(f)

TimePasses ==
    \/ ConnectDeadlinePasses \/ WaitDeadlinePasses
    \/ \E s \in Slot : QueryDeadlinePasses(s)
    \/ \E u \in Users : AddDeadlinePasses(u)
    \/ ScanFallsDue /\ UNCHANGED <<conn, managerVars>>

Environment ==
    \/ ServerReads \/ ServerHangsUp \/ NetworkFails
    \/ \E q \in conn.owed :
         \/ \E accept \in BOOLEAN : ServerAnswersHandshake(q, accept)
         \/ \E about \in KnownUsers \cup {Nobody}, found \in BOOLEAN :
              ServerAnswers(q, about, found)
    \/ \E type \in ServerTypes, about \in KnownUsers \cup {Nobody}, flag \in BOOLEAN :
          ServerVolunteers(type, about, flag)

Next == GameCalls \/ GameUsesSpool \/ ManagerSteps \/ TimePasses \/ Environment

Spec == Init /\ [][Next]_vars
=============================================================================
