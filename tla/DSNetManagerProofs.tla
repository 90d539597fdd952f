------------------------- MODULE DSNetManagerProofs -------------------------
(***************************************************************************)
(* Theorems about DSNetManager, for every set of users and files, every    *)
(* bound and every choice of calls.  The lemmas come first: what the       *)
(* operators shared by several actions give back.  Then what a step keeps: *)
(* the types, how the phase of the session and the state of the socket go  *)
(* together, and the files of the outbox.                                  *)
(***************************************************************************)
EXTENDS DSNetManagerProperties, NetNatsueSocketProofs

-----------------------------------------------------------------------------
(* Packets.                                                                *)

\* A packet the client builds, and the sequence Write appends (BuildMessage,
\* BuildWWRModify, BuildVirtualConnectAccept).
LEMMA OneWayFact ==
    ASSUME NEW type \in ClientPackets, NEW about \in Subject,
           NEW flag \in BOOLEAN
    PROVE  <<OneWay(type, about, flag)>> \in Seq(ClientPacket)
<1>1. OneWay(type, about, flag) \in ClientPacket
  BY DEF OneWay, ClientPacket, Packet
<1> QED  BY <1>1

\* A request with its ticket (BuildHandshake, BuildGetClientInfo, ...).
LEMMA RequestFact ==
    ASSUME NEW type \in ClientPackets, NEW about \in Subject,
           NEW ticket \in Nat
    PROVE  <<Request(type, about, ticket)>> \in Seq(ClientPacket)
<1>1. Request(type, about, ticket) \in ClientPacket
  BY DEF Request, ClientPacket, Packet
<1> QED  BY <1>1

\* A packet of the server's own accord.
LEMMA VolunteeredFact ==
    ASSUME NEW type \in UnsolicitedPackets, NEW about \in Subject,
           NEW flag \in BOOLEAN, type \in SubjectPackets => about \in Users
    PROVE  OneWay(type, about, flag) \in ServerPacket
BY DEF OneWay, ServerPacket, ServerPackets, Packet

\* A reply.
LEMMA ReplyFact ==
    ASSUME NEW q \in ClientPacket, NEW about \in Subject, NEW flag \in BOOLEAN
    PROVE  Reply(q, about, flag) \in ServerPacket
<1>1. ReplyExtra(q.type) \in Nat
  BY DEF ReplyExtra
<1>2. q.ticket \in Nat
  BY DEF ClientPacket, Packet
<1> QED  BY <1>1, <1>2 DEF Reply, ServerPacket, ServerPackets, Packet,
              SubjectPackets, PresencePackets

-----------------------------------------------------------------------------
(* The transaction table.                                                  *)

\* Disconnect and ConnectionLost leave a well formed, empty table.
LEMMA NoTransactionsFact == IsTable(NoTransactions)
BY DEF IsTable, NoTransactions

\* Storing a transaction under a ticket (StartTransaction's operator[]).
LEMMA InsertFact ==
    ASSUME NEW table, IsTable(table), NEW ticket \in Nat \ {0},
           NEW entry \in Transaction
    PROVE  IsTable(Insert(table, ticket, entry))
BY DEF IsTable, Insert

\* Erasing any ticket (PollTransaction, ProcessInput).
LEMMA EraseFact ==
    ASSUME NEW table, IsTable(table), NEW ticket
    PROVE  IsTable(Erase(table, ticket))
BY DEF IsTable, Erase, Restrict

\* A started transaction is a well formed entry.
LEMMA StartTransactionFact ==
    ASSUME NEW table, IsTable(table), NEW ticket \in Nat \ {0},
           NEW kind \in TransactionKind, NEW fixedExtra \in Nat
    PROVE  IsTable(StartTransaction(table, ticket, kind, fixedExtra))
<1>1. [kind |-> kind, fixedExtra |-> fixedExtra, done |-> FALSE,
       success |-> FALSE, about |-> Nobody] \in Transaction
  BY DEF Transaction, Subject
<1> QED  BY <1>1, InsertFact DEF StartTransaction

\* An abandoned one keeps a well formed entry, or none.
LEMMA AbandonTransactionFact ==
    ASSUME NEW table, IsTable(table), NEW ticket
    PROVE  IsTable(AbandonTransaction(table, ticket))
<1>1. CASE ticket \notin DOMAIN table
  BY <1>1 DEF AbandonTransaction
<1>2. CASE ticket \in DOMAIN table /\ table[ticket].done
  BY <1>2, EraseFact DEF AbandonTransaction
<1>3. CASE ticket \in DOMAIN table /\ ~table[ticket].done
  <2>1. "TRANS_ABANDONED" \in TransactionKind
    BY DEF TransactionKind
  <2>2. [table[ticket] EXCEPT !.kind = "TRANS_ABANDONED"] \in Transaction
    BY <1>3, <2>1 DEF IsTable, Transaction
  <2> QED  BY <1>3, <2>2 DEF AbandonTransaction, IsTable
<1> QED  BY <1>1, <1>2, <1>3

\* A reply completes its entry or takes it out.
LEMMA HandleTransactionResponseFact ==
    ASSUME NEW table, IsTable(table), NEW p \in ServerPacket,
           p.ticket \in DOMAIN table
    PROVE  IsTable(HandleTransactionResponse(table, p))
<1>1. CASE table[p.ticket].kind = "TRANS_ABANDONED"
  BY <1>1, EraseFact DEF HandleTransactionResponse
<1>2. CASE table[p.ticket].kind # "TRANS_ABANDONED"
  <2> DEFINE entry == table[p.ticket]
             good  == ResponseSucceeds(entry, p)
             answered == [entry EXCEPT !.done = TRUE, !.success = good,
                                       !.about = p.about]
  <2>1. entry \in Transaction
    BY DEF IsTable
  <2>2. p.about \in Subject /\ p.flag \in BOOLEAN
    BY DEF ServerPacket, Packet
  <2>3. good \in BOOLEAN
    BY DEF ResponseSucceeds
  <2>4. answered \in Transaction
    <3> HIDE DEF entry, good
    <3> QED  BY <2>1, <2>2, <2>3 DEF Transaction
  <2>5. HandleTransactionResponse(table, p) = [table EXCEPT ![p.ticket] = answered]
    BY <1>2 DEF HandleTransactionResponse
  <2> HIDE DEF answered
  <2> QED  BY <2>4, <2>5 DEF IsTable
<1> QED  BY <1>1, <1>2

-----------------------------------------------------------------------------
(* Presence.                                                               *)

\* The first word about a user and every later one (UpdatePresence).
LEMMA UpdatePresenceFact ==
    ASSUME PresenceTypeOK, NEW u \in Users, NEW online \in BOOLEAN,
           UpdatePresence(u, online)
    PROVE  PresenceTypeOK'
<1>1. Insert(presence, u, online) \in [DOMAIN presence \cup {u} -> BOOLEAN]
  BY DEF PresenceTypeOK, Insert
<1>2. /\ presence' \in [DOMAIN presence' -> BOOLEAN]
      /\ DOMAIN presence' \subseteq Users
  BY <1>1 DEF PresenceTypeOK, UpdatePresence
<1>3. /\ pendingAdds' \in [DOMAIN pendingAdds' -> BOOLEAN]
      /\ DOMAIN pendingAdds' \subseteq Users
  BY DEF PresenceTypeOK, UpdatePresence, EndPendingAdd, Erase, Restrict
<1>4. changedUsers' \in Seq(Users)
  BY AppendProperties DEF PresenceTypeOK, UpdatePresence
<1> QED  BY <1>2, <1>3, <1>4 DEF PresenceTypeOK, UpdatePresence

\* The connection is down (MarkEveryoneOffline).
LEMMA MarkEveryoneOfflineFact ==
    ASSUME PresenceTypeOK, MarkEveryoneOffline
    PROVE  PresenceTypeOK'
BY DEF PresenceTypeOK, MarkEveryoneOffline

\* Ending a wait of AddToWWR, of whatever user.
LEMMA EndPendingAddFact ==
    ASSUME PresenceTypeOK, NEW u, EndPendingAdd(u)
    PROVE  /\ pendingAdds' \in [DOMAIN pendingAdds' -> BOOLEAN]
           /\ DOMAIN pendingAdds' \subseteq Users
BY DEF PresenceTypeOK, EndPendingAdd, Erase, Restrict

-----------------------------------------------------------------------------
(* Calls and returns.                                                      *)

\* A method that returns leaves the program counter and result in type.
LEMMA ReturnFact ==
    ASSUME CallTypeOK, NEW op \in Operation \cup {"none"}, NEW arg \in Subject,
           NEW block \in BOOLEAN, NEW ok \in BOOLEAN, NEW about \in Subject,
           Return(op, arg, block, ok, about)
    PROVE  CallTypeOK' /\ pc' = "engine" /\ call' = NoCall
BY DEF CallTypeOK, Return, Call, NoCall, Result, Subject

\* A method that goes on to Pump leaves its locals in type.
LEMMA RunPumpFact ==
    ASSUME CallTypeOK, NEW op \in Operation \cup {"none"}, NEW arg \in Subject,
           NEW ticket \in Nat, RunPump(op, arg, ticket)
    PROVE  CallTypeOK' /\ pc' = "pump"
<1>1. [NoCall EXCEPT !.op = op, !.arg = arg, !.ticket = ticket] \in Call
  <2>1. NoCall \in Call
    BY DEF NoCall, Call, Subject
  <2> QED  BY <2>1 DEF Call
<1>2. NoResult \in Result
  BY DEF NoResult, Result, Subject
<1> QED  BY <1>1, <1>2 DEF CallTypeOK, RunPump

\* Either way of saying block (Connect's sleep, or a return).
LEMMA ReturnBlockFact ==
    ASSUME CallTypeOK, NEW op \in Operation \cup {"none"}, NEW arg \in Subject,
           ReturnBlock(op, arg)
    PROVE  CallTypeOK' /\ pc' \in {"engine", "pump"}
<1>1. Nobody \in Subject /\ 0 \in Nat
  BY DEF Subject
<1> QED  BY <1>1, ReturnFact, RunPumpFact DEF ReturnBlock

\* The end of a synchronous wait (WaitForTransaction).
LEMMA WaitReturnsFact ==
    ASSUME CallTypeOK, NEW op \in Operation \cup {"none"}, NEW arg \in Subject,
           NEW ok \in BOOLEAN, NEW about \in Subject,
           WaitReturns(op, arg, ok, about)
    PROVE  CallTypeOK' /\ pc' \in {"engine", "scan"}
<1>1. CASE op = "SendOrdinaryMessages"
  <2>1. NoCall \in Call
    BY DEF NoCall, Call, Subject
  <2>2. [NoCall EXCEPT !.op = op] \in Call
    BY <2>1 DEF Call
  <2> QED  BY <1>1, <2>2 DEF CallTypeOK, WaitReturns
<1>2. CASE op # "SendOrdinaryMessages"
  BY <1>2, ReturnFact DEF WaitReturns
<1> QED  BY <1>1, <1>2

\* A session that ends leaves a closed socket, an empty table and everybody
\* offline (ConnectionLost).
LEMMA ConnectionLostFact ==
    ASSUME TypeOK, NEW c \in Connection, ConnectionLost(c)
    PROVE  /\ SessionTypeOK' /\ IsTable(transactions)' /\ PresenceTypeOK'
           /\ phase' = "IDLE" /\ conn'.state = "CLOSED"
<1>1. conn' \in Connection /\ conn'.state = "CLOSED"
  BY CloseFact DEF ConnectionLost
<1>2. PresenceTypeOK'
  BY MarkEveryoneOfflineFact DEF TypeOK, ConnectionLost
<1> QED  BY <1>1, <1>2, NoTransactionsFact
         DEF TypeOK, SessionTypeOK, ConnectionLost, Phase, LastError

-----------------------------------------------------------------------------
(* Type correctness: each action keeps TypeOK.                             *)

\* A part of the state that a step leaves alone keeps its type.
LEMMA KeptFact ==
    ASSUME TypeOK
    PROVE  /\ UNCHANGED <<conn, phase, connectLate, lastError, usersForWWR>>
                => SessionTypeOK'
           /\ UNCHANGED <<nextTicket, transactions, queries>> => TableTypeOK'
           /\ UNCHANGED <<pc, call, result>> => CallTypeOK'
           /\ UNCHANGED <<incoming, queued>> => MailTypeOK'
           /\ UNCHANGED <<presence, wwrMembers, changedUsers, pendingAdds>>
                => PresenceTypeOK'
           /\ UNCHANGED <<outbox, outboxDirty, scanDue, scanList, inbox>>
                => SpoolTypeOK'
BY DEF TypeOK, SessionTypeOK, TableTypeOK, CallTypeOK, MailTypeOK,
       PresenceTypeOK, SpoolTypeOK

\* Initially.
LEMMA InitTypeOK == Init => TypeOK
<1> SUFFICES ASSUME Init PROVE TypeOK
  OBVIOUS
<1>1. SessionTypeOK
  <2>1. <<>> \in Seq(Users)
    OBVIOUS
  <2> QED  BY <2>1, NewSocketFact DEF Init, SessionTypeOK, Phase, LastError
<1>2. TableTypeOK
  BY NoTransactionsFact DEF Init, TableTypeOK, PendingQuery, NoQuery
<1>3. CallTypeOK
  BY DEF Init, CallTypeOK, Call, NoCall, Result, NoResult, Subject
<1>4. MailTypeOK
  BY DEF Init, MailTypeOK
<1>5. PresenceTypeOK
  BY DEF Init, PresenceInit, PresenceTypeOK
<1>6. SpoolTypeOK
  BY DEF Init, SpoolInit, SpoolTypeOK
<1> QED  BY <1>1, <1>2, <1>3, <1>4, <1>5, <1>6 DEF TypeOK

\* ConnectInBackground and Connect.
LEMMA ConnectTypeOK ==
    ASSUME TypeOK, NEW op \in {"Connect", "ConnectInBackground"},
           NEW users \in WatchLists, ConnectInBackground(op, users)
    PROVE  TypeOK'
<1> op \in Operation /\ Nobody \in Subject /\ 0 \in Nat
  BY DEF Operation, Subject
<1> SessionTypeOK /\ CallTypeOK /\ conn \in Connection
  BY DEF TypeOK, SessionTypeOK
<1>1. /\ TableTypeOK' /\ MailTypeOK' /\ PresenceTypeOK' /\ SpoolTypeOK'
  BY KeptFact DEF ConnectInBackground, tableVars, mailVars, presenceVars, spoolVars
<1>2. CASE Online /\ Return(op, Nobody, FALSE, TRUE, Nobody)
           /\ UNCHANGED <<conn, sessionVars>>
  <2>1. CallTypeOK'
    BY <1>2, ReturnFact
  <2> QED  BY <1>1, <1>2, <2>1, KeptFact DEF TypeOK, sessionVars
<1>3. CASE usersForWWR' = users /\ StartConnecting(op)
  <2>1. PICK c \in BeginConnects(conn) :
           IF c.state = "FAILED"
           THEN /\ ConnectFails(c, "ERROR_OFFLINE")
                /\ Return(op, Nobody, FALSE, FALSE, Nobody)
                /\ UNCHANGED connectLate
           ELSE /\ conn' = c
                /\ phase' = "CONNECTING"
                /\ connectLate' = FALSE
                /\ ReturnBlock(op, Nobody)
                /\ UNCHANGED lastError
    BY <1>3 DEF StartConnecting
  <2>2. c \in Connection
    BY BeginConnectsFact
  <2>3. users \in Seq(Users)
    BY ManagerAssumption
  <2>4. CallTypeOK'
    BY <2>1, ReturnFact, ReturnBlockFact
  <2>5. SessionTypeOK'
    BY <1>3, <2>1, <2>2, <2>3 DEF SessionTypeOK, ConnectFails, Phase, LastError
  <2> QED  BY <1>1, <2>4, <2>5 DEF TypeOK
<1>4. CASE RunPump(op, Nobody, 0) /\ UNCHANGED <<conn, sessionVars>>
  <2>1. CallTypeOK'
    BY <1>4, RunPumpFact
  <2> QED  BY <1>1, <1>4, <2>1, KeptFact DEF TypeOK, sessionVars
<1> QED  BY <1>2, <1>3, <1>4 DEF ConnectInBackground

\* ConnectInBackground and Connect after their Pump.
LEMMA ReturnConnectTypeOK == ASSUME TypeOK, ReturnConnect PROVE TypeOK'
<1> call.op \in Operation /\ Nobody \in Subject /\ Online \in BOOLEAN /\ CallTypeOK
  BY DEF ReturnConnect, Operation, Subject, Online, IsConnected, TypeOK
<1>1. CallTypeOK'
  BY ReturnBlockFact, ReturnFact DEF ReturnConnect
<1> QED  BY <1>1, KeptFact DEF ReturnConnect, TypeOK, sessionVars, tableVars,
              mailVars, presenceVars, spoolVars

\* Disconnect.
LEMMA DisconnectTypeOK == ASSUME TypeOK, Disconnect PROVE TypeOK'
<1> "Disconnect" \in Operation /\ Nobody \in Subject /\ CallTypeOK
  BY DEF Operation, Subject, TypeOK
<1>1. CallTypeOK'
  BY ReturnFact DEF Disconnect
<1>2. conn' \in Connection
  BY CloseFact DEF Disconnect, TypeOK, SessionTypeOK
<1>3. PresenceTypeOK'
  BY MarkEveryoneOfflineFact DEF Disconnect, TypeOK
<1>4. TableTypeOK'
  BY NoTransactionsFact DEF Disconnect, TypeOK, TableTypeOK
<1>5. SessionTypeOK'
  BY <1>2 DEF Disconnect, TypeOK, SessionTypeOK, Phase
<1> QED  BY <1>1, <1>3, <1>4, <1>5, KeptFact
         DEF Disconnect, TypeOK, mailVars, spoolVars

\* PumpConnectPhase while the socket connects, and the handshake.
LEMMA PumpConnectTypeOK == ASSUME TypeOK, PumpConnect PROVE TypeOK'
<1> conn \in Connection /\ call \in Call /\ pc' \in {"pump", "pumped", "return"}
  BY DEF TypeOK, SessionTypeOK, CallTypeOK, PumpConnect
<1>1. MailTypeOK' /\ PresenceTypeOK' /\ SpoolTypeOK'
  BY KeptFact DEF PumpConnect, mailVars, presenceVars, spoolVars
<1>2. PICK c \in PumpConnects(conn) :
         CASE IsConnected(c) ->
                /\ nextTicket' = NextTicket
                /\ \E d \in Writes(c, <<Request("HANDSHAKE", Nobody, nextTicket')>>) :
                     IF IsConnected(d)
                     THEN /\ conn' = d
                          /\ phase' = "AWAIT_HANDSHAKE"
                          /\ UNCHANGED <<lastError, pc, call>>
                     ELSE /\ ConnectFails(d, "ERROR_OFFLINE")
                          /\ pc' = "return"
                          /\ UNCHANGED call
           [] c.state = "CONNECTING" ->
                /\ conn' = c
                /\ pc' = "pumped"
                /\ call' = [call EXCEPT !.login = TRUE, !.alive = TRUE]
                /\ UNCHANGED <<phase, lastError, nextTicket>>
           [] OTHER ->
                /\ ConnectFails(c, "ERROR_OFFLINE")
                /\ pc' = "return"
                /\ UNCHANGED <<nextTicket, call>>
  BY DEF PumpConnect
<1>3. c \in Connection
  BY PumpConnectsFact
<1>4. /\ nextTicket' \in Nat
      /\ <<Request("HANDSHAKE", Nobody, nextTicket')>> \in Seq(ClientPacket)
  <2>1. nextTicket' \in Nat
    BY <1>2 DEF TypeOK, TableTypeOK, NextTicket, IsConnected
  <2> QED  BY <2>1, RequestFact DEF ClientPackets, Subject
<1>5. /\ conn' \in Connection
      /\ phase' \in {phase, "AWAIT_HANDSHAKE", "FAILED"}
      /\ lastError' \in {lastError, "ERROR_OFFLINE"}
  BY <1>2, <1>3, <1>4, WritesFact DEF ConnectFails
<1>6. call' \in Call
  <2>1. [call EXCEPT !.login = TRUE, !.alive = TRUE] \in Call
    BY DEF Call
  <2> QED  BY <1>2, <2>1
<1>7. SessionTypeOK'
  BY <1>5 DEF PumpConnect, TypeOK, SessionTypeOK, Phase, LastError
<1>8. TableTypeOK'
  BY <1>4 DEF PumpConnect, TypeOK, TableTypeOK
<1>9. CallTypeOK'
  BY <1>6 DEF PumpConnect, TypeOK, CallTypeOK
<1> QED  BY <1>1, <1>7, <1>8, <1>9 DEF TypeOK

\* mySocket.Pump().
LEMMA PumpSocketTypeOK == ASSUME TypeOK, PumpSocket PROVE TypeOK'
<1>1. conn' \in Connection
  BY SocketPumpsFact DEF PumpSocket, TypeOK, SessionTypeOK
<1>2. CallTypeOK'
  <2>1. PICK c \in SocketPumps(conn) :
           call' = [call EXCEPT !.login = (phase = "AWAIT_HANDSHAKE"),
                                !.alive = SocketAlive(c)]
    BY DEF PumpSocket
  <2>2. SocketAlive(c) \in BOOLEAN /\ (phase = "AWAIT_HANDSHAKE") \in BOOLEAN
    BY DEF SocketAlive
  <2>3. call' \in Call
    <3> DEFINE login == phase = "AWAIT_HANDSHAKE"
               alive == SocketAlive(c)
    <3> HIDE DEF login, alive
    <3>1. login \in BOOLEAN /\ alive \in BOOLEAN /\ call \in Call
      BY <2>2 DEF login, alive, TypeOK, CallTypeOK
    <3>2. [call EXCEPT !.login = login, !.alive = alive] \in Call
      BY <3>1 DEF Call
    <3> QED  BY <2>1, <3>2 DEF login, alive
  <2> QED  BY <2>3 DEF PumpSocket, TypeOK, CallTypeOK
<1>3. SessionTypeOK'
  BY <1>1 DEF PumpSocket, TypeOK, SessionTypeOK, sessionVars
<1> QED  BY <1>2, <1>3, KeptFact
         DEF PumpSocket, TypeOK, tableVars, mailVars, presenceVars, spoolVars

\* Pump without a connection.
LEMMA PumpNothingTypeOK == ASSUME TypeOK, PumpNothing PROVE TypeOK'
<1>1. CallTypeOK'
  BY DEF PumpNothing, TypeOK, CallTypeOK
<1> QED  BY <1>1, KeptFact
         DEF PumpNothing, TypeOK, sessionVars, tableVars, mailVars, presenceVars,
             spoolVars

\* The ends of Pump and PumpConnectPhase.
LEMMA PumpEndTypeOK == ASSUME TypeOK, PumpEnd PROVE TypeOK'
<1> conn \in Connection
  BY DEF TypeOK, SessionTypeOK
<1>1. CallTypeOK' /\ MailTypeOK' /\ SpoolTypeOK' /\ queries' = queries
  BY KeptFact DEF PumpEnd, TypeOK, CallTypeOK, mailVars, spoolVars
<1>2. CASE call.login
  <2>1. /\ conn' \in {conn, Close(conn)}
        /\ phase' \in {phase, "FAILED"}
        /\ lastError' \in {lastError, "ERROR_OFFLINE"}
        /\ UNCHANGED <<connectLate, usersForWWR>>
    BY <1>2 DEF PumpEnd, ConnectFails
  <2>2. SessionTypeOK'
    BY <2>1, CloseFact DEF TypeOK, SessionTypeOK, Phase, LastError
  <2> QED  BY <1>1, <1>2, <2>2, KeptFact DEF PumpEnd, TypeOK, tableVars, presenceVars
<1>3. CASE ~call.login /\ ConnectionLost(conn) /\ UNCHANGED nextTicket
  <2>1. TableTypeOK'
    BY <1>1, <1>3, ConnectionLostFact DEF TypeOK, TableTypeOK
  <2> QED  BY <1>1, <1>3, <2>1, ConnectionLostFact DEF TypeOK
<1>4. CASE UNCHANGED <<conn, sessionVars, tableVars, presenceVars>>
  BY <1>1, <1>4, KeptFact DEF TypeOK, sessionVars, tableVars, presenceVars
<1> QED  BY <1>2, <1>3, <1>4 DEF PumpEnd

-----------------------------------------------------------------------------
\* The packet at the head of the input.
LEMMA ProcessingFact ==
    ASSUME TypeOK, NEW p, Processing(p)
    PROVE  /\ p \in ServerPacket
           /\ conn \in Connection /\ conn.input # <<>>
           /\ ConsumeInput(conn) \in Connection
           /\ ConsumeInput(conn).state = conn.state
<1>1. conn \in Connection /\ conn.input # <<>> /\ p = Head(conn.input)
  BY DEF Processing, Packets, TypeOK, SessionTypeOK
<1>2. Head(conn.input) \in ServerPacket
  BY <1>1, HeadTailProperties DEF Connection
<1> QED  BY <1>1, <1>2, ConsumeInputFact

\* A reply is cut out whole, or leaves a stream nobody can read.
LEMMA ConsumeReplyFact ==
    ASSUME TypeOK, NEW p, Processing(p)
    PROVE  ConsumeReply(p) \in Connection /\ ConsumeReply(p).state = conn.state
<1> DEFINE garbled == OneWay("UNKNOWN", Nobody, FALSE)
           lost == [conn EXCEPT !.input = <<garbled>>]
<1>1. garbled \in ServerPacket
  BY VolunteeredFact DEF UnsolicitedPackets, SubjectPackets, PresencePackets, Subject
<1>2. ConsumeReply(p) \in {ConsumeInput(conn), lost}
  BY DEF ConsumeReply
<1> HIDE DEF garbled
<1>3. <<garbled>> \in Seq(ServerPacket)
  BY <1>1
<1>4. lost \in Connection /\ lost.state = conn.state
  BY <1>3, ProcessingFact, InputFact
<1> HIDE DEF lost
<1> QED  BY <1>2, <1>4, ProcessingFact

\* ProcessInput, a reply some transaction waits for.
LEMMA ProcessTransactionResponseTypeOK ==
    ASSUME TypeOK, NEW p, ProcessTransactionResponse(p) PROVE TypeOK'
<1> Processing(p) /\ p.ticket \in DOMAIN transactions /\ IsTable(transactions)
  BY DEF ProcessTransactionResponse, Awaited, TypeOK, TableTypeOK
<1>1. IsTable(transactions')
  BY ProcessingFact, HandleTransactionResponseFact DEF ProcessTransactionResponse
<1>2. conn' \in Connection
  BY ConsumeReplyFact DEF ProcessTransactionResponse
<1>3. SessionTypeOK' /\ TableTypeOK'
  BY <1>1, <1>2 DEF ProcessTransactionResponse, TypeOK, SessionTypeOK, TableTypeOK,
                    sessionVars
<1> QED  BY <1>3, KeptFact DEF ProcessTransactionResponse, TypeOK, mailVars,
              callVars, presenceVars, spoolVars

\* HandleHandshakeResponse, up to the registrations.
LEMMA ProcessHandshakeResponseTypeOK ==
    ASSUME TypeOK, NEW p, ProcessHandshakeResponse(p) PROVE TypeOK'
<1> Processing(p)
  BY DEF ProcessHandshakeResponse
<1>1. ConsumeInput(Close(conn)) \in Connection
  BY ProcessingFact, CloseFact, ConsumeInputFact
<1>2. /\ conn' \in Connection
      /\ phase' \in {phase, "FAILED", "ONLINE"}
      /\ lastError' \in {lastError, "ERROR_REFUSED", "ERROR_OK"}
      /\ pc' \in {pc, "register"}
  BY <1>1, ProcessingFact DEF ProcessHandshakeResponse, ConnectFails
<1>3. SessionTypeOK'
  BY <1>2 DEF ProcessHandshakeResponse, TypeOK, SessionTypeOK, Phase, LastError
<1>4. CallTypeOK'
  BY <1>2 DEF ProcessHandshakeResponse, TypeOK, CallTypeOK
<1> QED  BY <1>3, <1>4, KeptFact DEF ProcessHandshakeResponse, TypeOK, tableVars,
              mailVars, presenceVars, spoolVars

\* SendWWRRegistrations, one user.
LEMMA RegisterNextUserTypeOK == ASSUME TypeOK, RegisterNextUser PROVE TypeOK'
<1> DEFINE u == Head(usersForWWR)
<1>1. /\ u \in Users /\ Tail(usersForWWR) \in Seq(Users) /\ <<>> \in Seq(Users)
      /\ conn \in Connection
  BY HeadTailProperties DEF RegisterNextUser, TypeOK, SessionTypeOK
<1>2. <<OneWay("ADD_WWR_ENTRY", u, TRUE)>> \in Seq(ClientPacket)
  BY <1>1, OneWayFact DEF ClientPackets, Subject
<1>3. /\ conn' \in Connection
      /\ usersForWWR' \in Seq(Users)
      /\ wwrMembers' \in {wwrMembers, wwrMembers \cup {u}}
  BY <1>1, <1>2, WritesFact DEF RegisterNextUser
<1>4. SessionTypeOK'
  BY <1>3 DEF RegisterNextUser, TypeOK, SessionTypeOK
<1>5. PresenceTypeOK'
  BY <1>1, <1>3 DEF RegisterNextUser, TypeOK, PresenceTypeOK
<1> QED  BY <1>4, <1>5, KeptFact DEF RegisterNextUser, TypeOK, tableVars,
              mailVars, callVars, spoolVars

\* HandleHandshakeResponse, its end.
LEMMA RegistrationEndsTypeOK == ASSUME TypeOK, RegistrationEnds PROVE TypeOK'
<1>1. CallTypeOK' /\ SpoolTypeOK'
  BY DEF RegistrationEnds, TypeOK, CallTypeOK, SpoolTypeOK
<1> QED  BY <1>1, KeptFact DEF RegistrationEnds, TypeOK, sessionVars, tableVars,
              mailVars, presenceVars

\* HandlePacket, word of a user (UpdatePresence).
LEMMA ProcessPresenceTypeOK ==
    ASSUME TypeOK, NEW p, ProcessPresence(p) PROVE TypeOK'
<1> DEFINE online == \/ p.type = "USER_ONLINE"
                     \/ p.type = "ONLINE_CHANGE" /\ p.flag
<1>1. Processing(p) /\ p.type \in PresencePackets /\ UpdatePresence(p.about, online)
  BY DEF ProcessPresence
<1>2. p.about \in Users
  BY <1>1, ProcessingFact DEF ServerPacket, SubjectPackets
<1>3. online \in BOOLEAN
  OBVIOUS
<1>4. PresenceTypeOK'
  <2> HIDE DEF online
  <2> QED  BY <1>1, <1>2, <1>3, UpdatePresenceFact DEF TypeOK
<1>5. SessionTypeOK'
  BY <1>1, ProcessingFact DEF ProcessPresence, TypeOK, SessionTypeOK, sessionVars
<1> QED  BY <1>4, <1>5, KeptFact DEF ProcessPresence, TypeOK, tableVars, mailVars,
              callVars, spoolVars

\* A message dropped, or spooled into the inbox (SpoolPrayFile).
LEMMA SpoolPrayFileFact ==
    ASSUME SpoolTypeOK, NEW u \in Users, SpoolPrayFile(u)
    PROVE  SpoolTypeOK'
BY DEF SpoolTypeOK, SpoolPrayFile

\* HandlePacket, a message or a PRAY file.
LEMMA ProcessMessageTypeOK ==
    ASSUME TypeOK, NEW p, ProcessMessage(p) PROVE TypeOK'
<1>1. p.about \in Users
  BY ProcessingFact DEF ProcessMessage, ServerPacket, SubjectPackets
<1>2. SpoolTypeOK'
  BY <1>1, SpoolPrayFileFact, KeptFact DEF ProcessMessage, TypeOK, spoolVars
<1>3. MailTypeOK'
  BY <1>1, AppendProperties DEF ProcessMessage, TypeOK, MailTypeOK
<1>4. SessionTypeOK'
  BY ProcessingFact DEF ProcessMessage, TypeOK, SessionTypeOK, sessionVars
<1> QED  BY <1>2, <1>3, <1>4, KeptFact DEF ProcessMessage, TypeOK, tableVars,
              callVars, presenceVars

\* HandlePacket, a delivery confirmation ping.
LEMMA ProcessVirtualConnectTypeOK ==
    ASSUME TypeOK, NEW p, ProcessVirtualConnect(p) PROVE TypeOK'
<1> DEFINE accept == <<OneWay("VIRTUAL_CONNECT_ACCEPT", p.about, TRUE)>>
<1>1. accept \in Seq(ClientPacket)
  <2>1. p.about \in Subject
    BY ProcessingFact DEF ProcessVirtualConnect, ServerPacket, Packet
  <2> QED  BY <2>1, OneWayFact DEF ClientPackets
<1>2. PICK c \in Writes(conn, accept) :
         IF IsConnected(c)
         THEN /\ conn' = ConsumeInput(c)
              /\ UNCHANGED <<sessionVars, tableVars, pc, presenceVars>>
         ELSE /\ ConnectionLost(c)
              /\ pc' = "pumped"
              /\ UNCHANGED nextTicket
  BY DEF ProcessVirtualConnect
<1>3. Processing(p) /\ UNCHANGED <<queries, mailVars, call, result, spoolVars>>
  BY DEF ProcessVirtualConnect
<1> HIDE DEF accept
<1>4. c \in Connection
  BY <1>1, <1>3, WritesFact, ProcessingFact
<1>5. MailTypeOK' /\ SpoolTypeOK' /\ CallTypeOK'
  BY <1>2, <1>3, KeptFact DEF TypeOK, CallTypeOK, mailVars, spoolVars
<1>6. CASE ~IsConnected(c)
  BY <1>2, <1>3, <1>4, <1>5, <1>6, ConnectionLostFact DEF TypeOK, TableTypeOK
<1>7. CASE IsConnected(c)
  <2>1. c.input # <<>>
    BY <1>1, <1>3, WritesFact, ProcessingFact
  <2>2. SessionTypeOK'
    BY <1>2, <1>4, <1>7, <2>1, ConsumeInputFact DEF TypeOK, SessionTypeOK, sessionVars
  <2> QED  BY <1>2, <1>3, <1>5, <1>7, <2>2, KeptFact DEF TypeOK, tableVars, presenceVars
<1> QED  BY <1>6, <1>7

\* HandlePacket, what it ignores.
LEMMA ProcessIgnoredTypeOK ==
    ASSUME TypeOK, NEW p, ProcessIgnored(p) PROVE TypeOK'
<1>1. SessionTypeOK'
  BY ProcessingFact DEF ProcessIgnored, TypeOK, SessionTypeOK, sessionVars
<1> QED  BY <1>1, KeptFact DEF ProcessIgnored, TypeOK, tableVars, mailVars,
              callVars, presenceVars, spoolVars

\* ProcessInput, a packet of no known length.
LEMMA ProcessUnknownTypeOK ==
    ASSUME TypeOK, NEW p, ProcessUnknown(p) PROVE TypeOK'
<1>1. SessionTypeOK' /\ IsTable(transactions)' /\ PresenceTypeOK'
  BY ProcessingFact, ConnectionLostFact DEF ProcessUnknown
<1>2. TableTypeOK' /\ CallTypeOK'
  BY <1>1 DEF ProcessUnknown, TypeOK, TableTypeOK, CallTypeOK
<1> QED  BY <1>1, <1>2, KeptFact DEF ProcessUnknown, TypeOK, mailVars, spoolVars

\* ProcessInput, no whole packet left.
LEMMA ProcessEndTypeOK == ASSUME TypeOK, ProcessEnd PROVE TypeOK'
<1>1. CallTypeOK'
  BY DEF ProcessEnd, TypeOK, CallTypeOK
<1> QED  BY <1>1, KeptFact DEF ProcessEnd, TypeOK, sessionVars, tableVars,
              mailVars, presenceVars, spoolVars

\* The loop of ProcessInput, all its cases together.
LEMMA ProcessInputTypeOK == ASSUME TypeOK, ProcessInput PROVE TypeOK'
BY ProcessEndTypeOK, ProcessTransactionResponseTypeOK,
   ProcessHandshakeResponseTypeOK, ProcessPresenceTypeOK, ProcessMessageTypeOK,
   ProcessVirtualConnectTypeOK, ProcessIgnoredTypeOK, ProcessUnknownTypeOK
   DEF ProcessInput

-----------------------------------------------------------------------------
\* A ticket is never zero (NextTicket), and a request that takes it leaves a
\* table with or without its entry.
LEMMA TicketFact ==
    ASSUME TypeOK
    PROVE  /\ NextTicket \in Nat \ {0}
           /\ \A kind \in TransactionKind, extra \in Nat :
                /\ IsTable(Started(kind, extra))
                /\ IsTable(AbandonTransaction(Started(kind, extra), NextTicket))
<1>1. NextTicket \in Nat \ {0}
  BY DEF TypeOK, TableTypeOK, NextTicket
<1>2. IsTable(transactions)
  BY DEF TypeOK, TableTypeOK
<1> QED  BY <1>1, <1>2, StartTransactionFact, AbandonTransactionFact DEF Started

\* IsUserOnline, answered at once or by a synchronous wait.
LEMMA IsUserOnlineTypeOK ==
    ASSUME TypeOK, NEW u \in Users, IsUserOnline(u) PROVE TypeOK'
<1> /\ "IsUserOnline" \in Operation /\ Nobody \in Subject /\ u \in Subject
    /\ CallTypeOK /\ conn \in Connection
  BY DEF Operation, Subject, TypeOK, SessionTypeOK
<1>1. /\ MailTypeOK' /\ PresenceTypeOK' /\ SpoolTypeOK'
      /\ UNCHANGED <<phase, connectLate, lastError, usersForWWR, queries>>
  BY KeptFact DEF IsUserOnline, mailVars, presenceVars, spoolVars, sessionVars
<1>2. CASE /\ Return("IsUserOnline", u, FALSE, FALSE, Nobody)
           /\ UNCHANGED <<conn, tableVars>>
  <2>1. CallTypeOK'
    BY <1>2, ReturnFact
  <2> QED  BY <1>1, <1>2, <2>1, KeptFact DEF TypeOK, tableVars
<1>3. CASE /\ Return("IsUserOnline", u, FALSE, u = Self \/ ReadsOnline(u), u)
           /\ UNCHANGED <<conn, tableVars>>
  <2> DEFINE ok == u = Self \/ ReadsOnline(u)
  <2>1. ok \in BOOLEAN
    OBVIOUS
  <2>2. CallTypeOK'
    <3> HIDE DEF ok
    <3> QED  BY <1>3, <2>1, ReturnFact DEF ok
  <2> QED  BY <1>1, <1>3, <2>2, KeptFact DEF TypeOK, tableVars
<1>4. ASSUME nextTicket' = NextTicket,
             NEW c \in Writes(conn, <<Request("GET_CONNECTION_DETAIL", u, nextTicket')>>),
             conn' = c,
             LET table == Started("TRANS_CONNECTION_DETAIL", 0)
             IN  IF IsConnected(c)
                 THEN /\ transactions' = table
                      /\ RunPump("IsUserOnline", u, nextTicket')
                 ELSE /\ transactions' = AbandonTransaction(table, nextTicket')
                      /\ Return("IsUserOnline", u, FALSE, FALSE, Nobody)
      PROVE  TypeOK'
  <2>1. nextTicket' \in Nat /\ IsTable(transactions')
    BY <1>4, TicketFact DEF TransactionKind
  <2>2. conn' \in Connection
    BY <1>4, <2>1, RequestFact, WritesFact DEF ClientPackets, TransactionRequests
  <2>3. CallTypeOK'
    BY <1>4, <2>1, ReturnFact, RunPumpFact
  <2> QED  BY <1>1, <2>1, <2>2, <2>3 DEF TypeOK, SessionTypeOK, TableTypeOK
<1> QED  BY <1>2, <1>3, <1>4 DEF IsUserOnline

\* DSFeedHistory once online (DSFeedHistory, HistoryTransferOut).
LEMMA FeedHistoryFact ==
    ASSUME TypeOK, NEW op \in Operation, FeedHistory(op)
    PROVE  /\ SessionTypeOK' /\ PresenceTypeOK' /\ CallTypeOK'
           /\ nextTicket' \in Nat /\ IsTable(transactions)'
<1> DEFINE request == <<Request("DS_FEED_HISTORY", Nobody, nextTicket')>>
<1>1. nextTicket' \in Nat /\ nextTicket' = NextTicket
  BY TicketFact DEF FeedHistory
<1>2. request \in Seq(ClientPacket)
  BY <1>1, RequestFact DEF ClientPackets, TransactionRequests, Subject
<1>3. PICK c \in Writes(conn, request) :
         IF IsConnected(c)
         THEN /\ conn' = c
              /\ transactions' = Started("TRANS_FEED_HISTORY", 0)
              /\ RunPump(op, Nobody, nextTicket')
              /\ UNCHANGED <<sessionVars, presenceVars>>
         ELSE /\ ConnectionLost(c)
              /\ WaitReturns(op, Nobody, FALSE, Nobody)
  BY DEF FeedHistory
<1> HIDE DEF request
<1>4. c \in Connection
  BY <1>2, WritesFact DEF TypeOK, SessionTypeOK
<1> Nobody \in Subject /\ CallTypeOK
  BY DEF Subject, TypeOK
<1>5. CASE IsConnected(c)
  <2>1. IsTable(transactions')
    BY <1>3, <1>5, TicketFact DEF TransactionKind
  <2>2. CallTypeOK'
    BY <1>1, <1>3, <1>5, RunPumpFact
  <2>3. SessionTypeOK'
    BY <1>3, <1>4, <1>5 DEF TypeOK, SessionTypeOK, sessionVars
  <2> QED  BY <1>1, <1>3, <1>5, <2>1, <2>2, <2>3, KeptFact DEF presenceVars
<1>6. CASE ~IsConnected(c)
  <2>1. CallTypeOK'
    BY <1>3, <1>6, WaitReturnsFact
  <2> QED  BY <1>1, <1>3, <1>4, <1>6, <2>1, ConnectionLostFact
<1> QED  BY <1>5, <1>6

\* DSFeedHistory called by the game.
LEMMA DSFeedHistoryTypeOK == ASSUME TypeOK, DSFeedHistory PROVE TypeOK'
<1> "DSFeedHistory" \in Operation /\ Nobody \in Subject /\ CallTypeOK
  BY DEF Operation, Subject, TypeOK
<1>1. MailTypeOK' /\ SpoolTypeOK' /\ queries' = queries
  BY KeptFact DEF DSFeedHistory, mailVars, spoolVars
<1>2. CASE Online
  BY <1>1, <1>2, FeedHistoryFact DEF DSFeedHistory, TypeOK, TableTypeOK
<1>3. CASE ~Online
  <2>1. CallTypeOK'
    BY <1>3, ReturnFact DEF DSFeedHistory
  <2> QED  BY <1>1, <1>3, <2>1, KeptFact
           DEF DSFeedHistory, TypeOK, sessionVars, tableVars, presenceVars
<1> QED  BY <1>2, <1>3

\* WaitForTransaction after its Pump.
LEMMA ReturnWaitTypeOK == ASSUME TypeOK, ReturnWait PROVE TypeOK'
<1> /\ call.op \in Operation \cup {"none"} /\ call.arg \in Subject
    /\ Nobody \in Subject /\ CallTypeOK /\ IsTable(transactions)
  BY DEF TypeOK, CallTypeOK, TableTypeOK, Call, Subject
<1>1. /\ SessionTypeOK' /\ MailTypeOK' /\ PresenceTypeOK' /\ SpoolTypeOK'
      /\ UNCHANGED <<nextTicket, queries>>
  BY KeptFact DEF ReturnWait, sessionVars, mailVars, presenceVars, spoolVars
<1>2. IsTable(transactions')
  BY EraseFact, AbandonTransactionFact DEF ReturnWait
<1>3. CallTypeOK'
  <2>1. CASE WaitReturns(call.op, call.arg, FALSE, Nobody)
    BY <2>1, WaitReturnsFact
  <2>2. CASE pc' = "pump" /\ UNCHANGED <<call, result>>
    BY <2>2 DEF CallTypeOK
  <2>3. CASE /\ call.ticket \in DOMAIN transactions
             /\ WaitReturns(call.op, call.arg, transactions[call.ticket].success,
                            transactions[call.ticket].about)
    <3>1. /\ transactions[call.ticket].success \in BOOLEAN
          /\ transactions[call.ticket].about \in Subject
      BY <2>3 DEF IsTable, Transaction
    <3> QED  BY <2>3, <3>1, WaitReturnsFact
  <2> QED  BY <2>1, <2>2, <2>3 DEF ReturnWait
<1> QED  BY <1>1, <1>2, <1>3 DEF TypeOK, TableTypeOK

-----------------------------------------------------------------------------
\* The first call of a query (FetchUserData, DSFetchRandomUser, GetStatus).
LEMMA StartQueryFact ==
    ASSUME TypeOK, NEW op \in Operation, NEW s \in Slot, NEW arg \in Subject,
           StartQuery(op, s, arg)
    PROVE  CallTypeOK' /\ TableTypeOK' /\ conn' \in Connection
<1> Nobody \in Subject /\ CallTypeOK /\ conn \in Connection
  BY DEF Subject, TypeOK, SessionTypeOK
<1>1. PICK c \in Writes(conn, <<Request(SlotRequest(s), arg, nextTicket')>>) :
         /\ conn' = c
         /\ LET table == Started(SlotKind(s), SlotExtra(s))
            IN  IF IsConnected(c)
                THEN /\ transactions' = table
                     /\ queries' = [queries EXCEPT ![s] =
                                      [ticket |-> nextTicket', late |-> FALSE]]
                     /\ ReturnBlock(op, arg)
                ELSE /\ transactions' = AbandonTransaction(table, nextTicket')
                     /\ Return(op, arg, FALSE, FALSE, Nobody)
                     /\ UNCHANGED queries
  BY DEF StartQuery
<1>2. /\ SlotRequest(s) \in ClientPackets /\ SlotKind(s) \in TransactionKind
      /\ SlotExtra(s) \in Nat
  BY DEF SlotRequest, SlotKind, SlotExtra, ClientPackets, TransactionRequests,
         TransactionKind
<1>3. nextTicket' = NextTicket /\ nextTicket' \in Nat /\ IsTable(transactions')
  BY <1>1, <1>2, TicketFact DEF StartQuery
<1>4. conn' \in Connection
  BY <1>1, <1>2, <1>3, RequestFact, WritesFact
<1>5. CallTypeOK'
  BY <1>1, ReturnFact, ReturnBlockFact
<1>6. queries' \in [Slot -> PendingQuery]
  <2>1. [ticket |-> nextTicket', late |-> FALSE] \in PendingQuery
    BY <1>3 DEF PendingQuery
  <2> QED  BY <1>1, <2>1 DEF TypeOK, TableTypeOK
<1> QED  BY <1>3, <1>4, <1>5, <1>6 DEF TableTypeOK

\* A query ends or goes away.
LEMMA QueriesFact ==
    ASSUME TypeOK, NEW s
    PROVE  /\ [queries EXCEPT ![s] = NoQuery] \in [Slot -> PendingQuery]
           /\ \A t : /\ IsTable(AbandonTransaction(transactions, t))
                     /\ IsTable(Erase(transactions, t))
<1>1. NoQuery \in PendingQuery
  BY DEF NoQuery, PendingQuery
<1> QED  BY <1>1, EraseFact, AbandonTransactionFact DEF TypeOK, TableTypeOK

\* FetchUserData, DSFetchRandomUser and GetStatus up to their Pump.
LEMMA QueryTypeOK ==
    ASSUME TypeOK, NEW op \in Operation, NEW s \in Slot, NEW arg \in Subject,
           Query(op, s, arg)
    PROVE  TypeOK'
<1> Nobody \in Subject /\ CallTypeOK /\ 0 \in Nat
  BY DEF Subject, TypeOK
<1>1. /\ MailTypeOK' /\ PresenceTypeOK' /\ SpoolTypeOK'
      /\ UNCHANGED <<phase, connectLate, lastError, usersForWWR>>
  BY KeptFact DEF Query, mailVars, presenceVars, spoolVars, sessionVars
<1>2. CASE /\ Return(op, arg, FALSE, FALSE, Nobody)
           /\ transactions' = AbandonTransaction(transactions, queries[s].ticket)
           /\ queries' = [queries EXCEPT ![s] = NoQuery]
           /\ UNCHANGED <<conn, nextTicket>>
  <2>1. CallTypeOK'
    BY <1>2, ReturnFact
  <2>2. TableTypeOK'
    BY <1>2, QueriesFact DEF TypeOK, TableTypeOK
  <2> QED  BY <1>1, <1>2, <2>1, <2>2, KeptFact DEF TypeOK
<1>3. CASE StartQuery(op, s, arg)
  BY <1>1, <1>3, StartQueryFact DEF TypeOK, SessionTypeOK
<1>4. CASE RunPump(op, arg, 0) /\ UNCHANGED <<conn, tableVars, queries>>
  <2>1. CallTypeOK'
    BY <1>4, RunPumpFact
  <2> QED  BY <1>1, <1>4, <2>1, KeptFact DEF TypeOK, tableVars
<1> QED  BY <1>2, <1>3, <1>4 DEF Query

\* The same three after their Pump.
LEMMA ReturnQueryTypeOK == ASSUME TypeOK, ReturnQuery PROVE TypeOK'
<1> /\ call.op \in Operation /\ call.arg \in Subject /\ Nobody \in Subject
    /\ CallTypeOK /\ IsTable(transactions)
  BY DEF ReturnQuery, Operation, TypeOK, CallTypeOK, TableTypeOK, Call, Subject
<1>1. /\ SessionTypeOK' /\ MailTypeOK' /\ PresenceTypeOK' /\ SpoolTypeOK'
      /\ nextTicket' = nextTicket
  BY KeptFact DEF ReturnQuery, sessionVars, mailVars, presenceVars, spoolVars
<1>2. ASSUME NEW success \in BOOLEAN, NEW about \in Subject,
             QueryReturns(success, about)
      PROVE  CallTypeOK' /\ queries' \in [Slot -> PendingQuery]
  <2> DEFINE ok == success \/ CalledSlot = Status
             what == IF success THEN about ELSE Nobody
  <2>1. ok \in BOOLEAN /\ what \in Subject
    BY <1>2
  <2>2. Return(call.op, call.arg, FALSE, ok, what)
    BY <1>2 DEF QueryReturns
  <2> HIDE DEF ok, what
  <2> QED  BY <1>2, <2>1, <2>2, ReturnFact, QueriesFact DEF QueryReturns
<1>3. IsTable(transactions')
  BY QueriesFact DEF ReturnQuery
<1>4. CallTypeOK' /\ queries' \in [Slot -> PendingQuery]
  <2> DEFINE query == queries[CalledSlot]
  <2>1. CASE QueryReturns(FALSE, Nobody)
    BY <1>2, <2>1
  <2>2. CASE ReturnBlock(call.op, call.arg) /\ UNCHANGED queries
    BY <2>2, ReturnBlockFact DEF TypeOK, TableTypeOK
  <2>3. CASE /\ query.ticket \in DOMAIN transactions
             /\ QueryReturns(transactions[query.ticket].success,
                             transactions[query.ticket].about)
    <3>1. /\ transactions[query.ticket].success \in BOOLEAN
          /\ transactions[query.ticket].about \in Subject
      BY <2>3 DEF IsTable, Transaction
    <3> QED  BY <1>2, <2>3, <3>1
  <2> QED  BY <2>1, <2>2, <2>3 DEF ReturnQuery
<1> QED  BY <1>1, <1>3, <1>4 DEF TypeOK, TableTypeOK

-----------------------------------------------------------------------------
\* AddToWWR up to its Pump.
LEMMA AddToWWRTypeOK == ASSUME TypeOK, NEW u \in Users, AddToWWR(u) PROVE TypeOK'
<1> /\ "AddToWWR" \in Operation /\ Nobody \in Subject /\ u \in Subject
    /\ 0 \in Nat /\ CallTypeOK /\ conn \in Connection
  BY DEF Operation, Subject, TypeOK, SessionTypeOK
<1>1. /\ TableTypeOK' /\ MailTypeOK' /\ SpoolTypeOK'
      /\ UNCHANGED <<phase, connectLate, lastError, usersForWWR>>
  BY KeptFact DEF AddToWWR, sessionVars, tableVars, mailVars, spoolVars
<1>2. pendingAdds' = pendingAdds \/ pendingAdds' = Insert(pendingAdds, u, FALSE)
  BY DEF AddToWWR
<1>3. PresenceTypeOK'
  BY <1>2 DEF AddToWWR, TypeOK, PresenceTypeOK, Insert
<1>4. conn' \in Connection
  <2>1. <<OneWay("ADD_WWR_ENTRY", u, TRUE)>> \in Seq(ClientPacket)
    BY OneWayFact DEF ClientPackets
  <2> QED  BY <2>1, WritesFact DEF AddToWWR
<1>5. CallTypeOK'
  <2>1. ASSUME NEW c \in Connection,
               Return("AddToWWR", u, FALSE, IsConnected(c), Nobody)
        PROVE  CallTypeOK'
    <3>1. IsConnected(c) \in BOOLEAN
      BY DEF IsConnected
    <3> QED  BY <2>1, <3>1, ReturnFact
  <2>2. <<OneWay("ADD_WWR_ENTRY", u, TRUE)>> \in Seq(ClientPacket)
    BY OneWayFact DEF ClientPackets
  <2> QED  BY <2>1, <2>2, ReturnFact, RunPumpFact, WritesFact DEF AddToWWR
<1> QED  BY <1>1, <1>3, <1>4, <1>5 DEF TypeOK, SessionTypeOK

\* AddToWWR after its Pump.
LEMMA ReturnAddToWWRTypeOK == ASSUME TypeOK, ReturnAddToWWR PROVE TypeOK'
<1> /\ "AddToWWR" \in Operation /\ Nobody \in Subject /\ call.arg \in Subject
    /\ CallTypeOK
  BY DEF Operation, Subject, TypeOK, CallTypeOK, Call
<1> DEFINE heard == call.arg \notin DOMAIN pendingAdds
<1>1. heard \in BOOLEAN
  OBVIOUS
<1>2. \/ Return("AddToWWR", call.arg, TRUE, FALSE, Nobody) /\ UNCHANGED pendingAdds
      \/ Return("AddToWWR", call.arg, FALSE, heard, Nobody) /\ EndPendingAdd(call.arg)
  BY DEF ReturnAddToWWR
<1>3. CallTypeOK'
  <2> HIDE DEF heard
  <2> QED  BY <1>1, <1>2, ReturnFact
<1>4. PresenceTypeOK'
  BY <1>2, EndPendingAddFact DEF ReturnAddToWWR, TypeOK, PresenceTypeOK
<1> QED  BY <1>3, <1>4, KeptFact DEF ReturnAddToWWR, TypeOK, sessionVars,
              tableVars, mailVars, spoolVars

\* RemoveFromWWR.
LEMMA RemoveFromWWRTypeOK ==
    ASSUME TypeOK, NEW u \in Users, RemoveFromWWR(u) PROVE TypeOK'
<1> /\ "RemoveFromWWR" \in Operation /\ Nobody \in Subject /\ u \in Subject
    /\ CallTypeOK /\ conn \in Connection
  BY DEF Operation, Subject, TypeOK, SessionTypeOK
<1>1. CallTypeOK'
  BY ReturnFact DEF RemoveFromWWR
<1>2. conn' \in Connection
  <2>1. <<OneWay("REMOVE_WWR_ENTRY", u, TRUE)>> \in Seq(ClientPacket)
    BY OneWayFact DEF ClientPackets
  <2> QED  BY <2>1, WritesFact DEF RemoveFromWWR
<1>3. /\ presence' \in [DOMAIN presence' -> BOOLEAN]
      /\ DOMAIN presence' \subseteq Users
  BY DEF RemoveFromWWR, TypeOK, PresenceTypeOK, Erase, Restrict
<1>4. PresenceTypeOK'
  BY <1>3, EndPendingAddFact DEF RemoveFromWWR, TypeOK, PresenceTypeOK
<1>5. SessionTypeOK'
  BY <1>2 DEF RemoveFromWWR, TypeOK, SessionTypeOK, sessionVars
<1> QED  BY <1>1, <1>4, <1>5, KeptFact DEF RemoveFromWWR, TypeOK, tableVars,
              mailVars, spoolVars

\* NextChangedUserWWR.
LEMMA NextChangedUserWWRTypeOK == ASSUME TypeOK, NextChangedUserWWR PROVE TypeOK'
<1> "NextChangedUserWWR" \in Operation /\ Nobody \in Subject /\ CallTypeOK
  BY DEF Operation, Subject, TypeOK
<1>1. CASE changedUsers = <<>>
  <2>1. CallTypeOK'
    BY <1>1, ReturnFact DEF NextChangedUserWWR
  <2> QED  BY <1>1, <2>1, KeptFact DEF NextChangedUserWWR, TypeOK, sessionVars,
                tableVars, mailVars, spoolVars
<1>2. CASE changedUsers # <<>>
  <2> DEFINE u == Head(changedUsers)
             online == ReadsOnline(u)
  <2>1. u \in Users /\ Tail(changedUsers) \in Seq(Users)
    BY <1>2, HeadTailProperties DEF TypeOK, PresenceTypeOK
  <2>2. online \in BOOLEAN
    BY DEF ReadsOnline, TypeOK, PresenceTypeOK
  <2>3. /\ Return("NextChangedUserWWR", Nobody, FALSE, online, u)
        /\ changedUsers' = Tail(changedUsers)
    BY <1>2 DEF NextChangedUserWWR
  <2>4. CallTypeOK'
    <3> u \in Subject
      BY <2>1 DEF Subject
    <3> HIDE DEF u, online
    <3> QED  BY <2>2, <2>3, ReturnFact
  <2>5. PresenceTypeOK'
    BY <2>1, <2>3 DEF NextChangedUserWWR, TypeOK, PresenceTypeOK
  <2> QED  BY <2>4, <2>5, KeptFact DEF NextChangedUserWWR, TypeOK, sessionVars,
                tableVars, mailVars, spoolVars
<1> QED  BY <1>1, <1>2

-----------------------------------------------------------------------------
\* PostDirectMessage.
LEMMA PostDirectMessageTypeOK ==
    ASSUME TypeOK, NEW u \in Users, PostDirectMessage(u) PROVE TypeOK'
<1> /\ "PostDirectMessage" \in Operation /\ Nobody \in Subject /\ u \in Subject
    /\ CallTypeOK /\ conn \in Connection
  BY DEF Operation, Subject, TypeOK, SessionTypeOK
<1>1. /\ MailTypeOK' /\ SpoolTypeOK' /\ UNCHANGED <<nextTicket, queries>>
  BY KeptFact DEF PostDirectMessage, mailVars, spoolVars
<1>2. CASE /\ Return("PostDirectMessage", u, FALSE, FALSE, Nobody)
           /\ UNCHANGED <<conn, sessionVars, transactions, presenceVars>>
  <2>1. CallTypeOK'
    BY <1>2, ReturnFact
  <2> QED  BY <1>1, <1>2, <2>1, KeptFact DEF TypeOK, sessionVars, presenceVars
<1>3. ASSUME NEW c \in Writes(conn, <<OneWay("MESSAGE", u, FALSE)>>),
             Return("PostDirectMessage", u, FALSE, IsConnected(c), Nobody),
             IF IsConnected(c)
             THEN conn' = c /\ UNCHANGED <<sessionVars, transactions, presenceVars>>
             ELSE ConnectionLost(c)
      PROVE  TypeOK'
  <2>1. c \in Connection
    BY OneWayFact, WritesFact DEF ClientPackets
  <2>2. CallTypeOK'
    <3>1. IsConnected(c) \in BOOLEAN
      BY DEF IsConnected
    <3> QED  BY <1>3, <3>1, ReturnFact
  <2>3. SessionTypeOK' /\ PresenceTypeOK' /\ IsTable(transactions)'
    <3>1. CASE IsConnected(c)
      <4>1. SessionTypeOK'
        BY <1>3, <2>1, <3>1 DEF TypeOK, SessionTypeOK, sessionVars
      <4> QED  BY <1>3, <3>1, <4>1, KeptFact DEF TypeOK, TableTypeOK, presenceVars
    <3>2. CASE ~IsConnected(c)
      BY <1>3, <2>1, <3>2, ConnectionLostFact
    <3> QED  BY <3>1, <3>2
  <2> QED  BY <1>1, <2>2, <2>3 DEF TypeOK, TableTypeOK
<1> QED  BY <1>2, <1>3 DEF PostDirectMessage

\* GetMessages and SendOrdinaryMessages begin with a Pump.
LEMMA GetMessagesTypeOK ==
    ASSUME TypeOK, GetMessages \/ SendOrdinaryMessages PROVE TypeOK'
<1> /\ {"GetMessages", "SendOrdinaryMessages"} \subseteq Operation
    /\ Nobody \in Subject /\ 0 \in Nat /\ CallTypeOK
  BY DEF Operation, Subject, TypeOK
<1>1. CallTypeOK'
  BY RunPumpFact DEF GetMessages, SendOrdinaryMessages
<1> QED  BY <1>1, KeptFact DEF GetMessages, SendOrdinaryMessages, TypeOK,
              sessionVars, tableVars, mailVars, presenceVars, spoolVars

\* GetMessages after its Pump.
LEMMA ReturnGetMessagesTypeOK == ASSUME TypeOK, ReturnGetMessages PROVE TypeOK'
<1> "GetMessages" \in Operation /\ Nobody \in Subject /\ CallTypeOK
  BY DEF Operation, Subject, TypeOK
<1> DEFINE some == incoming # <<>>
<1>1. CallTypeOK'
  <2>1. some \in BOOLEAN /\ Return("GetMessages", Nobody, FALSE, some, Nobody)
    BY DEF ReturnGetMessages
  <2> HIDE DEF some
  <2> QED  BY <2>1, ReturnFact
<1>2. MailTypeOK'
  BY DEF ReturnGetMessages, TypeOK, MailTypeOK
<1> QED  BY <1>1, <1>2, KeptFact DEF ReturnGetMessages, TypeOK, sessionVars,
              tableVars, presenceVars, spoolVars

\* QueueMessage.
LEMMA QueueMessageTypeOK == ASSUME TypeOK, QueueMessage PROVE TypeOK'
<1> "QueueMessage" \in Operation /\ Nobody \in Subject /\ CallTypeOK
  BY DEF Operation, Subject, TypeOK
<1>1. CallTypeOK'
  BY ReturnFact DEF QueueMessage
<1>2. MailTypeOK'
  BY DEF QueueMessage, TypeOK, MailTypeOK
<1> QED  BY <1>1, <1>2, KeptFact DEF QueueMessage, TypeOK, sessionVars, tableVars,
              presenceVars, spoolVars

\* ProcessQueuedMessages, with the Send of a queued message.
LEMMA ProcessQueuedMessagesTypeOK ==
    ASSUME TypeOK, ProcessQueuedMessages PROVE TypeOK'
<1> "SendOrdinaryMessages" \in Operation /\ Nobody \in Subject /\ CallTypeOK
  BY DEF Operation, Subject, TypeOK
<1>1. MailTypeOK' /\ SpoolTypeOK' /\ UNCHANGED queries
  BY KeptFact DEF ProcessQueuedMessages, TypeOK, MailTypeOK, spoolVars
<1>2. CASE FeedHistory("SendOrdinaryMessages")
  BY <1>1, <1>2, FeedHistoryFact DEF TypeOK, TableTypeOK
<1>3. CASE /\ WaitReturns("SendOrdinaryMessages", Nobody, FALSE, Nobody)
           /\ UNCHANGED <<conn, sessionVars, tableVars, presenceVars>>
  <2>1. CallTypeOK'
    BY <1>3, WaitReturnsFact
  <2> QED  BY <1>1, <1>3, <2>1, KeptFact DEF TypeOK, sessionVars, tableVars,
                presenceVars
<1> QED  BY <1>2, <1>3 DEF ProcessQueuedMessages

\* ScanOutbox, its head and its end.
LEMMA ScanTypeOK == ASSUME TypeOK, ScanOutbox \/ ScanEnds PROVE TypeOK'
<1> "SendOrdinaryMessages" \in Operation /\ Nobody \in Subject /\ CallTypeOK
  BY DEF Operation, Subject, TypeOK
<1>1. \/ pc' = "send" /\ UNCHANGED <<call, result>>
      \/ Return("SendOrdinaryMessages", Nobody, FALSE, TRUE, Nobody)
  BY DEF ScanOutbox, ScanEnds
<1>2. CallTypeOK'
  BY <1>1, ReturnFact DEF CallTypeOK
<1>3. SpoolTypeOK'
  BY DEF ScanOutbox, ScanEnds, TypeOK, SpoolTypeOK
<1> QED  BY <1>2, <1>3, KeptFact DEF ScanOutbox, ScanEnds, TypeOK, sessionVars,
              tableVars, mailVars, presenceVars

\* SendOutboxFile.
LEMMA SendOutboxFileTypeOK ==
    ASSUME TypeOK, NEW f \in Files, SendOutboxFile(f) PROVE TypeOK'
<1> /\ "SendOrdinaryMessages" \in Operation /\ Nobody \in Subject /\ f \in Subject
    /\ CallTypeOK /\ conn \in Connection
  BY DEF Operation, Subject, TypeOK, SessionTypeOK
<1>1. /\ MailTypeOK'
      /\ UNCHANGED <<nextTicket, queries, outboxDirty, scanDue, inbox>>
  BY KeptFact DEF SendOutboxFile, mailVars
<1>2. /\ scanList' \in {{}, scanList \ {f}}
      /\ outbox' \in {outbox, outbox \ {f}}
  BY DEF SendOutboxFile
<1>3. SpoolTypeOK'
  BY <1>1, <1>2 DEF TypeOK, SpoolTypeOK
<1>4. CASE UNCHANGED <<conn, sessionVars, transactions, presenceVars, callVars>>
  BY <1>1, <1>3, <1>4, KeptFact DEF TypeOK, sessionVars, presenceVars, callVars
<1>5. ASSUME NEW c \in Writes(conn, <<OneWay("MESSAGE", f, TRUE)>>),
             \/ conn' = c /\ UNCHANGED <<sessionVars, transactions, presenceVars, callVars>>
             \/ /\ ConnectionLost(c)
                /\ Return("SendOrdinaryMessages", Nobody, FALSE, TRUE, Nobody)
      PROVE  TypeOK'
  <2>1. c \in Connection
    BY OneWayFact, WritesFact DEF ClientPackets
  <2>2. CASE conn' = c /\ UNCHANGED <<sessionVars, transactions, presenceVars, callVars>>
    <3>1. SessionTypeOK'
      BY <2>1, <2>2 DEF TypeOK, SessionTypeOK, sessionVars
    <3> QED  BY <1>1, <1>3, <2>2, <3>1, KeptFact DEF TypeOK, presenceVars, callVars
  <2>3. CASE /\ ConnectionLost(c)
             /\ Return("SendOrdinaryMessages", Nobody, FALSE, TRUE, Nobody)
    <3>1. CallTypeOK'
      BY <2>3, ReturnFact
    <3> QED  BY <1>1, <1>3, <2>1, <2>3, <3>1, ConnectionLostFact DEF TypeOK, TableTypeOK
  <2> QED  BY <1>5, <2>2, <2>3
<1> QED  BY <1>4, <1>5 DEF SendOutboxFile

-----------------------------------------------------------------------------
\* Clocks only set flags (TimeAfter).
LEMMA TimePassesTypeOK == ASSUME TypeOK, TimePasses PROVE TypeOK'
<1>1. CASE ConnectDeadlinePasses
  <2>1. SessionTypeOK'
    BY <1>1 DEF ConnectDeadlinePasses, TypeOK, SessionTypeOK
  <2> QED  BY <1>1, <2>1, KeptFact DEF ConnectDeadlinePasses, TypeOK, tableVars,
                mailVars, callVars, presenceVars, spoolVars
<1>2. CASE WaitDeadlinePasses
  <2>1. CallTypeOK'
    BY <1>2 DEF WaitDeadlinePasses, TypeOK, CallTypeOK, Call
  <2> QED  BY <1>2, <2>1, KeptFact DEF WaitDeadlinePasses, TypeOK, sessionVars,
                tableVars, mailVars, presenceVars, spoolVars
<1>3. ASSUME NEW s \in Slot, QueryDeadlinePasses(s) PROVE TypeOK'
  <2>1. [queries[s] EXCEPT !.late = TRUE] \in PendingQuery
    BY DEF TypeOK, TableTypeOK, PendingQuery
  <2>2. TableTypeOK'
    BY <1>3, <2>1 DEF QueryDeadlinePasses, TypeOK, TableTypeOK, tableVars
  <2> QED  BY <1>3, <2>2, KeptFact DEF QueryDeadlinePasses, TypeOK, sessionVars,
                mailVars, callVars, presenceVars, spoolVars
<1>4. ASSUME NEW u \in Users, AddDeadlinePasses(u) PROVE TypeOK'
  <2>1. PresenceTypeOK'
    BY <1>4 DEF AddDeadlinePasses, TypeOK, PresenceTypeOK
  <2> QED  BY <1>4, <2>1, KeptFact DEF AddDeadlinePasses, TypeOK, sessionVars,
                tableVars, mailVars, callVars, spoolVars
<1>5. CASE ScanFallsDue /\ UNCHANGED <<conn, managerVars>>
  <2>1. SpoolTypeOK'
    BY <1>5 DEF ScanFallsDue, TypeOK, SpoolTypeOK
  <2> QED  BY <1>5, <2>1, KeptFact DEF TypeOK, managerVars, sessionVars,
                tableVars, mailVars, callVars, presenceVars
<1> QED  BY <1>1, <1>2, <1>3, <1>4, <1>5 DEF TimePasses

\* What the server and the network do not touch: our socket and its buffers.
SameSocket(c, d) ==
    d.state = c.state /\ d.input = c.input /\ d.output = c.output

\* The server and the network touch the connection only, and not our end.
LEMMA EnvironmentFact ==
    ASSUME TypeOK, Environment
    PROVE  /\ conn' \in Connection /\ SameSocket(conn, conn')
           /\ UNCHANGED <<managerVars, spoolVars>>
<1> conn \in Connection
  BY DEF TypeOK, SessionTypeOK
<1>1. CASE ServerReads
  BY <1>1, ServerReceivesFact DEF ServerReads, Remote, SameSocket
<1>2. CASE ServerHangsUp
  BY <1>2, ServerClosesFact DEF ServerHangsUp, Remote, SameSocket
<1>3. CASE NetworkFails
  BY <1>3, NetworkBreaksFact DEF NetworkFails, Remote, SameSocket
<1>4. ASSUME NEW c \in Connection, NEW owed \in SUBSET ClientPacket,
             NEW login \in BOOLEAN
      PROVE  /\ [c EXCEPT !.owed = owed, !.login = login] \in Connection
             /\ SameSocket(c, [c EXCEPT !.owed = owed, !.login = login])
             /\ [c EXCEPT !.owed = owed] \in Connection
             /\ SameSocket(c, [c EXCEPT !.owed = owed])
  BY DEF Connection, SameSocket
<1>5. ASSUME NEW q \in conn.owed, NEW accept \in BOOLEAN,
             ServerAnswersHandshake(q, accept)
      PROVE  /\ conn' \in Connection /\ SameSocket(conn, conn')
             /\ UNCHANGED <<managerVars, spoolVars>>
  <2> DEFINE sent == ServerSends(conn, Reply(q, Nobody, accept))
             rest == sent.owed \ {q}
  <2>1. q \in ClientPacket /\ Nobody \in Subject
    BY DEF Connection, Subject
  <2>2. sent \in Connection /\ SameSocket(conn, sent)
    BY <2>1, ReplyFact, ServerSendsFact DEF SameSocket
  <2>3. rest \in SUBSET ClientPacket
    BY <2>2 DEF Connection
  <2>4. /\ conn' = [sent EXCEPT !.owed = rest, !.login = accept]
        /\ UNCHANGED <<managerVars, spoolVars>>
    BY <1>5 DEF ServerAnswersHandshake, Remote
  <2> HIDE DEF sent, rest
  <2> QED  BY <1>4, <2>2, <2>3, <2>4 DEF SameSocket
<1>6. ASSUME NEW q \in conn.owed, NEW about \in KnownUsers \cup {Nobody},
             NEW found \in BOOLEAN, ServerAnswers(q, about, found)
      PROVE  /\ conn' \in Connection /\ SameSocket(conn, conn')
             /\ UNCHANGED <<managerVars, spoolVars>>
  <2> DEFINE sent == ServerSends(conn, Reply(q, about, found))
             rest == sent.owed \ {q}
  <2>1. q \in ClientPacket /\ about \in Subject
    BY DEF Connection, Subject, KnownUsers
  <2>2. sent \in Connection /\ SameSocket(conn, sent)
    BY <2>1, ReplyFact, ServerSendsFact DEF SameSocket
  <2>3. rest \in SUBSET ClientPacket
    BY <2>2 DEF Connection
  <2>4. /\ conn' = [sent EXCEPT !.owed = rest]
        /\ UNCHANGED <<managerVars, spoolVars>>
    BY <1>6 DEF ServerAnswers, Remote
  <2> HIDE DEF sent, rest
  <2> QED  BY <1>4, <2>2, <2>3, <2>4 DEF SameSocket
<1>7. ASSUME NEW type \in ServerTypes, NEW about \in KnownUsers \cup {Nobody},
             NEW flag \in BOOLEAN, ServerVolunteers(type, about, flag)
      PROVE  /\ conn' \in Connection /\ SameSocket(conn, conn')
             /\ UNCHANGED <<managerVars, spoolVars>>
  <2>1. /\ type \in UnsolicitedPackets /\ about \in Subject
        /\ type \in SubjectPackets => about \in Users
    BY <1>7, ManagerAssumption DEF ServerVolunteers, Subject, KnownUsers
  <2>2. OneWay(type, about, flag) \in ServerPacket
    BY <2>1, VolunteeredFact
  <2> QED  BY <1>7, <2>2, ServerSendsFact DEF ServerVolunteers, Remote, SameSocket
<1> QED  BY <1>1, <1>2, <1>3, <1>5, <1>6, <1>7 DEF Environment

\* Whatever the server and the network do.
LEMMA EnvironmentTypeOK == ASSUME TypeOK, Environment PROVE TypeOK'
<1>1. SessionTypeOK'
  BY EnvironmentFact DEF TypeOK, SessionTypeOK, managerVars, sessionVars
<1> QED  BY <1>1, EnvironmentFact, KeptFact DEF TypeOK, managerVars, tableVars,
              mailVars, callVars, presenceVars, spoolVars

\* The game's own use of the spool directories.
LEMMA GameUsesSpoolTypeOK == ASSUME TypeOK, GameUsesSpool PROVE TypeOK'
<1>1. SpoolTypeOK'
  <2>1. ASSUME NEW f \in Files, GamePutsFile(f) PROVE SpoolTypeOK'
    BY <2>1 DEF GamePutsFile, TypeOK, SpoolTypeOK
  <2>2. ASSUME NEW u \in Users, GameTakesFile(u) PROVE SpoolTypeOK'
    <3>1. inbox[u] - 1 \in Nat
      BY <2>2 DEF GameTakesFile, TypeOK, SpoolTypeOK
    <3>2. inbox' \in [Users -> Nat]
      BY <2>2, <3>1 DEF GameTakesFile, TypeOK, SpoolTypeOK
    <3> QED  BY <2>2, <3>2 DEF GameTakesFile, TypeOK, SpoolTypeOK
  <2> QED  BY <2>1, <2>2 DEF GameUsesSpool
<1> QED  BY <1>1, KeptFact DEF GameUsesSpool, TypeOK, managerVars, sessionVars,
              tableVars, mailVars, callVars, presenceVars

\* Every call of the game.
LEMMA GameCallsTypeOK == ASSUME TypeOK, GameCalls PROVE TypeOK'
<1>1. ASSUME NEW u \in Users, FetchUserData(u) PROVE TypeOK'
  BY <1>1, QueryTypeOK DEF FetchUserData, Operation, Slot, Subject
<1>2. CASE DSFetchRandomUser
  BY <1>2, QueryTypeOK DEF DSFetchRandomUser, Operation, Slot, Subject
<1>3. CASE GetStatus
  BY <1>3, QueryTypeOK DEF GetStatus, Operation, Slot, Subject
<1> QED  BY <1>1, <1>2, <1>3, ConnectTypeOK, DisconnectTypeOK, IsUserOnlineTypeOK,
            AddToWWRTypeOK, RemoveFromWWRTypeOK, PostDirectMessageTypeOK,
            NextChangedUserWWRTypeOK, DSFeedHistoryTypeOK, QueueMessageTypeOK,
            GetMessagesTypeOK DEF GameCalls

\* Every step of a running call.
LEMMA ManagerStepsTypeOK == ASSUME TypeOK, ManagerSteps PROVE TypeOK'
<1>1. ASSUME NEW f \in scanList, SendOutboxFile(f) PROVE TypeOK'
  BY <1>1, SendOutboxFileTypeOK DEF TypeOK, SpoolTypeOK
<1> QED  BY <1>1, PumpConnectTypeOK, PumpSocketTypeOK, PumpNothingTypeOK,
            PumpEndTypeOK, ProcessInputTypeOK, RegisterNextUserTypeOK,
            RegistrationEndsTypeOK, ReturnConnectTypeOK, ReturnWaitTypeOK,
            ReturnQueryTypeOK, ReturnAddToWWRTypeOK, ReturnGetMessagesTypeOK,
            ProcessQueuedMessagesTypeOK, ScanTypeOK DEF ManagerSteps

\* Every reachable state is well formed: the tables hold what their types
\* say, packets from the server about a user name one, and no ticket in the
\* table is zero.
THEOREM TypeCorrect == Spec => []TypeOK
<1>1. TypeOK /\ [Next]_vars => TypeOK'
  <2> SUFFICES ASSUME TypeOK, [Next]_vars PROVE TypeOK'
    OBVIOUS
  <2>1. CASE Next
    BY <2>1, GameCallsTypeOK, GameUsesSpoolTypeOK, ManagerStepsTypeOK,
       TimePassesTypeOK, EnvironmentTypeOK DEF Next
  <2>2. CASE UNCHANGED vars
    BY <2>2, KeptFact DEF TypeOK, vars, sessionVars, tableVars, mailVars,
       callVars, presenceVars, spoolVars
  <2> QED  BY <2>1, <2>2
<1> QED  BY <1>1, InitTypeOK, PTL DEF Spec

-----------------------------------------------------------------------------
(* The session.  Phase and socket agree, and the buffers of a connection   *)
(* being made are empty: the two are inductive together, on top of TypeOK. *)
(* PumpConnect needs the empty input to know that nothing is processed     *)
(* while connecting, and PumpEnd needs what the socket's Pump returned to  *)
(* be true still.                                                          *)

SessionInv == PhaseMatchesSocket /\ NoStaleBytes

\* No Pump is between its use of the socket and its end.
Outside == pc \notin {"process", "register", "pumped"}

-----------------------------------------------------------------------------
(* The ways a step can keep the invariant.                                 *)

\* The session is given up and its socket closed (ConnectionLost,
\* Disconnect, the failures of PumpConnectPhase).
LEMMA GivenUp ==
    ASSUME phase' \in {"IDLE", "FAILED"}, conn'.state \in {"CLOSED", "FAILED"},
           pc' # "register"
    PROVE  SessionInv'
BY DEF SessionInv, PhaseMatchesSocket, NoStaleBytes, SocketAlive

\* An online session allows any socket outside Pump: it may have died in a
\* write (Online, "socket died").
LEMMA StaysOnline ==
    ASSUME phase' = "ONLINE", Outside'
    PROVE  SessionInv'
BY DEF SessionInv, PhaseMatchesSocket, NoStaleBytes, Outside

\* Inside Pump the socket of an online session is only ever closed.
LEMMA OnlineInside ==
    ASSUME SessionInv, ~Outside, phase' = "ONLINE",
           conn'.state \in {conn.state, "CLOSED"}, call' = call
    PROVE  SessionInv'
BY DEF SessionInv, PhaseMatchesSocket, NoStaleBytes, Outside, SocketAlive

\* A step outside Pump that leaves phase and socket alone.
LEMMA SocketKept ==
    ASSUME SessionInv, Outside, Outside', phase' = phase, conn' = conn
    PROVE  SessionInv'
BY DEF SessionInv, PhaseMatchesSocket, NoStaleBytes, Outside, SocketAlive,
       IsConnected

\* A step of somebody else.
LEMMA NotOurStep ==
    ASSUME SessionInv, phase' = phase, SameSocket(conn, conn'), pc' = pc,
           call'.alive = call.alive, call'.login = call.login
    PROVE  SessionInv'
BY DEF SessionInv, PhaseMatchesSocket, NoStaleBytes, SameSocket, SocketAlive,
       IsConnected

\* A call that leaves the phase alone uses the socket only when online.
LEMMA CallKept ==
    ASSUME SessionInv, Outside, Outside', phase' = phase, Online \/ conn' = conn
    PROVE  SessionInv'
BY StaysOnline, SocketKept DEF Online

\* Calls and returns are outside Pump.
LEMMA OutsideFact ==
    ASSUME NEW op, NEW arg, NEW block, NEW ok, NEW about, NEW ticket
    PROVE  /\ Return(op, arg, block, ok, about) => Outside'
           /\ RunPump(op, arg, ticket) => Outside'
           /\ ReturnBlock(op, arg) => Outside'
           /\ WaitReturns(op, arg, ok, about) => Outside'
BY DEF Return, RunPump, ReturnBlock, WaitReturns, Outside

\* Close closes, whatever state it finds (Close).
LEMMA CloseCloses == \A c : Close(c).state = "CLOSED"
BY DEF Close, NewSocket

\* ConnectionLost gives the session up.
LEMMA LostFact ==
    ASSUME NEW c, ConnectionLost(c), pc' # "register"
    PROVE  SessionInv'
BY GivenUp, CloseCloses DEF ConnectionLost

-----------------------------------------------------------------------------
(* The game's calls.                                                       *)

\* At first there is no session and no socket.
LEMMA InitSession == Init => SessionInv
BY NewSocketFact DEF Init, SessionInv, PhaseMatchesSocket, NoStaleBytes, SocketAlive

\* A new attempt has a fresh socket or none (ConnectInBackground,
\* StartConnecting).
LEMMA ConnectSession ==
    ASSUME TypeOK, SessionInv, NEW op \in {"Connect", "ConnectInBackground"},
           NEW users \in WatchLists, ConnectInBackground(op, users)
    PROVE  SessionInv'
<1> conn \in Connection /\ Outside
  BY DEF TypeOK, SessionTypeOK, ConnectInBackground, MayCall, Outside
<1>1. CASE Return(op, Nobody, FALSE, TRUE, Nobody) /\ UNCHANGED <<conn, sessionVars>>
  BY <1>1, OutsideFact, SocketKept DEF sessionVars
<1>2. CASE StartConnecting(op)
  <2>1. PICK c \in BeginConnects(conn) :
           IF c.state = "FAILED"
           THEN /\ ConnectFails(c, "ERROR_OFFLINE")
                /\ Return(op, Nobody, FALSE, FALSE, Nobody)
                /\ UNCHANGED connectLate
           ELSE /\ conn' = c
                /\ phase' = "CONNECTING"
                /\ connectLate' = FALSE
                /\ ReturnBlock(op, Nobody)
                /\ UNCHANGED lastError
    BY <1>2 DEF StartConnecting
  <2>2. CASE c.state = "FAILED"
    BY <2>1, <2>2, OutsideFact, GivenUp DEF ConnectFails, Outside
  <2>3. CASE c.state # "FAILED"
    <3>1. /\ conn'.state \in {"CONNECTED", "CONNECTING"}
          /\ conn'.input = <<>> /\ conn'.output = <<>>
      BY <2>1, <2>3, BeginConnectsFact
    <3>2. phase' = "CONNECTING" /\ Outside'
      BY <2>1, <2>3, OutsideFact
    <3> QED  BY <3>1, <3>2
             DEF SessionInv, PhaseMatchesSocket, NoStaleBytes, Outside, SocketAlive
  <2> QED  BY <2>2, <2>3
<1>3. CASE RunPump(op, Nobody, 0) /\ UNCHANGED <<conn, sessionVars>>
  BY <1>3, OutsideFact, SocketKept DEF sessionVars
<1> QED  BY <1>1, <1>2, <1>3 DEF ConnectInBackground

\* IsUserOnline writes only when online.
LEMMA IsUserOnlineSession ==
    ASSUME SessionInv, NEW u \in Users, IsUserOnline(u) PROVE SessionInv'
<1>1. Outside /\ phase' = phase
  BY DEF IsUserOnline, MayCall, Outside, sessionVars
<1>2. Outside' /\ (Online \/ conn' = conn)
  BY OutsideFact DEF IsUserOnline
<1> QED  BY <1>1, <1>2, CallKept

\* So do the block-and-poll queries.
LEMMA QuerySession ==
    ASSUME SessionInv, NEW op, NEW s, NEW arg, Query(op, s, arg)
    PROVE  SessionInv'
<1>1. Outside /\ phase' = phase
  BY DEF Query, MayCall, Outside, sessionVars
<1>2. ASSUME StartQuery(op, s, arg) PROVE Outside'
  BY <1>2, OutsideFact DEF StartQuery
<1>3. Outside' /\ (Online \/ conn' = conn)
  BY <1>2, OutsideFact DEF Query
<1> QED  BY <1>1, <1>3, CallKept

\* And AddToWWR and RemoveFromWWR.
LEMMA WatchSession ==
    ASSUME SessionInv, NEW u \in Users, AddToWWR(u) \/ RemoveFromWWR(u)
    PROVE  SessionInv'
<1>1. CASE AddToWWR(u)
  <2>1. Outside /\ phase' = phase
    BY <1>1 DEF AddToWWR, MayCall, Outside, sessionVars
  <2>2. Outside' /\ (Online \/ conn' = conn)
    BY <1>1, OutsideFact DEF AddToWWR
  <2> QED  BY <2>1, <2>2, CallKept
<1>2. CASE RemoveFromWWR(u)
  <2>1. Outside /\ phase' = phase
    BY <1>2 DEF RemoveFromWWR, MayCall, Outside, sessionVars
  <2>2. Outside' /\ (Online \/ conn' = conn)
    BY <1>2, OutsideFact DEF RemoveFromWWR
  <2> QED  BY <2>1, <2>2, CallKept
<1> QED  BY <1>1, <1>2

\* A message that cannot be written gives the session up (PostDirectMessage).
LEMMA PostSession ==
    ASSUME SessionInv, NEW u \in Users, PostDirectMessage(u) PROVE SessionInv'
<1>1. Outside
  BY DEF PostDirectMessage, MayCall, Outside
<1>2. Outside'
  BY OutsideFact DEF PostDirectMessage
<1>3. \/ \E c : ConnectionLost(c)
      \/ phase' = phase /\ (Online \/ conn' = conn)
  BY DEF PostDirectMessage, sessionVars
<1> QED  BY <1>1, <1>2, <1>3, LostFact, CallKept DEF Outside

\* So does a history that cannot (DSFeedHistory).
LEMMA FeedSession ==
    ASSUME SessionInv, Outside, Online, NEW op, FeedHistory(op)
    PROVE  SessionInv'
<1>1. Outside'
  BY OutsideFact DEF FeedHistory
<1>2. (\E c : ConnectionLost(c)) \/ phase' = phase
  BY DEF FeedHistory, sessionVars
<1> QED  BY <1>1, <1>2, LostFact, CallKept DEF Outside

\* The other calls leave the session alone, but for Disconnect, which ends it.
LEMMA GameCallsSession == ASSUME TypeOK, SessionInv, GameCalls PROVE SessionInv'
<1>1. CASE Disconnect
  <2>1. /\ phase' = "IDLE" /\ conn'.state = "CLOSED" /\ Outside'
    BY <1>1, CloseCloses, OutsideFact DEF Disconnect
  <2> QED  BY <2>1, GivenUp DEF Outside
<1>2. ASSUME NEW u \in Users, FetchUserData(u) PROVE SessionInv'
  BY <1>2, QuerySession DEF FetchUserData
<1>3. CASE DSFetchRandomUser
  BY <1>3, QuerySession DEF DSFetchRandomUser
<1>4. CASE GetStatus
  BY <1>4, QuerySession DEF GetStatus
<1>5. CASE NextChangedUserWWR
  BY <1>5, OutsideFact, SocketKept
     DEF NextChangedUserWWR, MayCall, Outside, sessionVars
<1>6. CASE DSFeedHistory
  <2>1. Outside
    BY <1>6 DEF DSFeedHistory, MayCall, Outside
  <2>2. CASE Online
    BY <1>6, <2>1, <2>2, FeedSession DEF DSFeedHistory
  <2>3. CASE ~Online
    BY <1>6, <2>1, <2>3, OutsideFact, SocketKept DEF DSFeedHistory, sessionVars
  <2> QED  BY <2>2, <2>3
<1>7. CASE QueueMessage
  BY <1>7, OutsideFact, SocketKept DEF QueueMessage, MayCall, Outside, sessionVars
<1>8. CASE GetMessages
  BY <1>8, OutsideFact, SocketKept DEF GetMessages, MayCall, Outside, sessionVars
<1>9. CASE SendOrdinaryMessages
  BY <1>9, OutsideFact, SocketKept
     DEF SendOrdinaryMessages, MayCall, Outside, sessionVars
<1> QED  BY <1>1, <1>2, <1>3, <1>4, <1>5, <1>6, <1>7, <1>8, <1>9, ConnectSession,
            IsUserOnlineSession, WatchSession, PostSession DEF GameCalls

-----------------------------------------------------------------------------
(* Pump.                                                                   *)

\* The first half of PumpConnectPhase: connected and logged in, still on the
\* way, or given up.
LEMMA PumpConnectSession ==
    ASSUME TypeOK, SessionInv, PumpConnect PROVE SessionInv'
<1> conn \in Connection /\ nextTicket \in Nat
  BY DEF TypeOK, SessionTypeOK, TableTypeOK
<1>1. /\ pc = "pump" /\ phase = "CONNECTING" /\ SocketAlive(conn)
      /\ conn.input = <<>> /\ conn.output = <<>>
  BY DEF PumpConnect, SessionInv, PhaseMatchesSocket, NoStaleBytes
<1>2. PICK c \in PumpConnects(conn) :
         CASE IsConnected(c) ->
                /\ nextTicket' = NextTicket
                /\ \E d \in Writes(c, <<Request("HANDSHAKE", Nobody, nextTicket')>>) :
                     IF IsConnected(d)
                     THEN /\ conn' = d
                          /\ phase' = "AWAIT_HANDSHAKE"
                          /\ UNCHANGED <<lastError, pc, call>>
                     ELSE /\ ConnectFails(d, "ERROR_OFFLINE")
                          /\ pc' = "return"
                          /\ UNCHANGED call
           [] c.state = "CONNECTING" ->
                /\ conn' = c
                /\ pc' = "pumped"
                /\ call' = [call EXCEPT !.login = TRUE, !.alive = TRUE]
                /\ UNCHANGED <<phase, lastError, nextTicket>>
           [] OTHER ->
                /\ ConnectFails(c, "ERROR_OFFLINE")
                /\ pc' = "return"
                /\ UNCHANGED <<nextTicket, call>>
  BY DEF PumpConnect
<1>3. c \in Connection /\ (c = conn \/ c.state \in {"CONNECTED", "FAILED"})
  BY PumpConnectsFact
<1>4. CASE IsConnected(c)
  <2>1. PICK d \in Writes(c, <<Request("HANDSHAKE", Nobody, nextTicket')>>) :
           IF IsConnected(d)
           THEN /\ conn' = d
                /\ phase' = "AWAIT_HANDSHAKE"
                /\ UNCHANGED <<lastError, pc, call>>
           ELSE /\ ConnectFails(d, "ERROR_OFFLINE")
                /\ pc' = "return"
                /\ UNCHANGED call
    BY <1>2, <1>4 DEF IsConnected
  <2>2. <<Request("HANDSHAKE", Nobody, nextTicket')>> \in Seq(ClientPacket)
    <3>1. nextTicket' \in Nat
      BY <1>2, <1>4 DEF NextTicket, IsConnected
    <3> QED  BY <3>1, RequestFact DEF ClientPackets, Subject
  <2>3. d.state \in {"CONNECTED", "CLOSED"}
    BY <1>3, <1>4, <2>2, WritesFact DEF IsConnected
  <2>4. CASE IsConnected(d)
    BY <1>1, <2>1, <2>4
       DEF SessionInv, PhaseMatchesSocket, NoStaleBytes, IsConnected
  <2>5. CASE ~IsConnected(d)
    BY <2>1, <2>3, <2>5, GivenUp DEF ConnectFails, IsConnected
  <2> QED  BY <2>4, <2>5
<1>5. CASE c.state = "CONNECTING"
  <2>1. /\ conn' = c /\ c = conn /\ phase' = phase /\ pc' = "pumped"
        /\ call' = [call EXCEPT !.login = TRUE, !.alive = TRUE]
    BY <1>2, <1>3, <1>5 DEF IsConnected
  <2>2. call'.alive = TRUE
    BY <2>1 DEF TypeOK, CallTypeOK, Call
  <2> QED  BY <1>1, <2>1, <2>2
           DEF SessionInv, PhaseMatchesSocket, NoStaleBytes, SocketAlive
<1>6. CASE ~IsConnected(c) /\ c.state # "CONNECTING"
  <2>1. c.state = "FAILED"
    BY <1>1, <1>3, <1>6 DEF SocketAlive, IsConnected
  <2> QED  BY <1>2, <1>6, <2>1, GivenUp DEF ConnectFails
<1> QED  BY <1>4, <1>5, <1>6

\* What Pump returns is what it left behind (PumpConnectPhase, Pump).
LEMMA PumpSocketSession ==
    ASSUME TypeOK, SessionInv, PumpSocket PROVE SessionInv'
<1>1. PICK c \in SocketPumps(conn) :
         /\ conn' = c
         /\ call' = [call EXCEPT !.login = (phase = "AWAIT_HANDSHAKE"),
                                 !.alive = SocketAlive(c)]
  BY DEF PumpSocket
<1>2. /\ call'.login = (phase = "AWAIT_HANDSHAKE")
      /\ call'.alive = SocketAlive(c)
  BY <1>1 DEF TypeOK, CallTypeOK, Call
<1>3. /\ phase' = phase /\ pc' = "process"
      /\ phase \in {"AWAIT_HANDSHAKE", "ONLINE"}
  BY DEF PumpSocket, sessionVars
<1>4. CASE phase = "ONLINE"
  BY <1>1, <1>2, <1>3, <1>4 DEF SessionInv, PhaseMatchesSocket, NoStaleBytes
<1>5. CASE phase = "AWAIT_HANDSHAKE"
  <2>1. IsConnected(conn) /\ conn \in Connection
    BY <1>5 DEF SessionInv, PhaseMatchesSocket, PumpSocket, TypeOK, SessionTypeOK
  <2>2. c.state \in {"CONNECTED", "CLOSED"}
    BY <2>1, SocketPumpsFact DEF IsConnected
  <2> QED  BY <1>1, <1>2, <1>3, <1>5, <2>2
           DEF SessionInv, PhaseMatchesSocket, NoStaleBytes, SocketAlive, IsConnected
<1> QED  BY <1>3, <1>4, <1>5

\* The end of Pump and of PumpConnectPhase: a session whose socket is gone is
\* given up.
LEMMA PumpEndSession == ASSUME TypeOK, SessionInv, PumpEnd PROVE SessionInv'
<1>1. /\ pc = "pumped" /\ pc' = "return"
      /\ ~call.alive => ~SocketAlive(conn)
      /\ conn.state \in SocketState
  BY DEF PumpEnd, SessionInv, PhaseMatchesSocket, TypeOK, SessionTypeOK, Connection
<1>2. CASE phase' = phase /\ conn' = conn
           /\ ~(phase = "AWAIT_HANDSHAKE" /\ call.login /\ ~call.alive)
  BY <1>1, <1>2 DEF SessionInv, PhaseMatchesSocket, NoStaleBytes, IsConnected,
     SocketAlive
<1>3. CASE ConnectFails(conn, "ERROR_OFFLINE") /\ ~call.alive
  BY <1>1, <1>3, GivenUp DEF ConnectFails, SocketAlive, SocketState
<1>4. CASE ConnectFails(Close(conn), "ERROR_OFFLINE")
  BY <1>1, <1>4, CloseCloses, GivenUp DEF ConnectFails
<1>5. CASE ConnectionLost(conn)
  BY <1>1, <1>5, LostFact
<1> QED  BY <1>2, <1>3, <1>4, <1>5 DEF PumpEnd, sessionVars

-----------------------------------------------------------------------------
(* ProcessInput.                                                           *)

\* Nothing is processed while connecting, when the input is empty.
LEMMA ProcessingSession ==
    ASSUME SessionInv, NEW p, Processing(p)
    PROVE  ~Outside /\ phase # "CONNECTING"
BY DEF SessionInv, NoStaleBytes, Processing, Packets, Outside

\* A packet consumed without a word to the session (ConsumeInput).
LEMMA PacketConsumed ==
    ASSUME SessionInv, NEW p, Processing(p), UNCHANGED <<phase, pc, call>>,
           conn'.state = conn.state
    PROVE  SessionInv'
BY ProcessingSession DEF SessionInv, PhaseMatchesSocket, NoStaleBytes,
   SocketAlive, IsConnected

\* Consuming input leaves the socket up.
LEMMA ConsumeKeepsState ==
    ASSUME TypeOK, NEW c \in Connection
    PROVE  /\ ConsumeInput(c).state = c.state
           /\ \A p : ConsumeReply(p).state = conn.state
BY DEF ConsumeInput, ConsumeReply, Connection, TypeOK, SessionTypeOK

\* HandleHandshakeResponse: a refused login closes the socket, an accepted
\* one is online.
LEMMA HandshakeResponseSession ==
    ASSUME TypeOK, SessionInv, NEW p, ProcessHandshakeResponse(p)
    PROVE  SessionInv'
<1> Processing(p) /\ conn \in Connection /\ call' = call
  BY DEF ProcessHandshakeResponse, TypeOK, SessionTypeOK
<1>1. CASE conn' = ConsumeInput(conn) /\ UNCHANGED <<phase, pc>>
  BY <1>1, ConsumeKeepsState, PacketConsumed
<1>2. CASE ConnectFails(ConsumeInput(Close(conn)), "ERROR_REFUSED") /\ pc' = pc
  <2>1. conn'.state = "CLOSED" /\ phase' = "FAILED"
    BY <1>2, CloseFact, ConsumeKeepsState DEF ConnectFails
  <2> QED  BY <1>2, <2>1, GivenUp DEF Processing
<1>3. CASE conn' = ConsumeInput(conn) /\ phase' = "ONLINE" /\ pc' = "register"
  BY <1>3, ConsumeKeepsState, ProcessingSession, OnlineInside
<1> QED  BY <1>1, <1>2, <1>3 DEF ProcessHandshakeResponse

\* A delivery ping that cannot be answered gives the session up.
LEMMA VirtualConnectSession ==
    ASSUME TypeOK, SessionInv, NEW p \in ServerPacket, ProcessVirtualConnect(p)
    PROVE  SessionInv'
<1> DEFINE answer == <<OneWay("VIRTUAL_CONNECT_ACCEPT", p.about, TRUE)>>
<1>1. PICK c \in Writes(conn, answer) :
         IF IsConnected(c)
         THEN /\ conn' = ConsumeInput(c)
              /\ UNCHANGED <<sessionVars, tableVars, pc, presenceVars>>
         ELSE /\ ConnectionLost(c)
              /\ pc' = "pumped"
              /\ UNCHANGED nextTicket
  BY DEF ProcessVirtualConnect
<1>2. Processing(p) /\ call' = call /\ conn \in Connection
  BY DEF ProcessVirtualConnect, TypeOK, SessionTypeOK
<1>3. p.about \in Subject
  BY DEF ServerPacket, Packet
<1>4. answer \in Seq(ClientPacket)
  BY <1>3, OneWayFact DEF ClientPackets
<1> HIDE DEF answer
<1>5. CASE IsConnected(c)
  <2>1. c \in Connection /\ c.state = conn.state
    BY <1>2, <1>4, <1>5, WritesFact DEF IsConnected
  <2> QED  BY <1>1, <1>2, <1>5, <2>1, ConsumeKeepsState, PacketConsumed
           DEF sessionVars
<1>6. CASE ~IsConnected(c)
  BY <1>1, <1>6, LostFact
<1> QED  BY <1>5, <1>6

\* The kinds of packets together.
LEMMA ProcessInputSession ==
    ASSUME TypeOK, SessionInv, ProcessInput PROVE SessionInv'
<1> conn \in Connection
  BY DEF TypeOK, SessionTypeOK
<1>1. CASE ProcessEnd
  BY <1>1 DEF ProcessEnd, SessionInv, PhaseMatchesSocket, NoStaleBytes,
     sessionVars, SocketAlive, IsConnected
<1>2. ASSUME NEW p, ProcessTransactionResponse(p) PROVE SessionInv'
  BY <1>2, ConsumeKeepsState, PacketConsumed
     DEF ProcessTransactionResponse, sessionVars, callVars
<1>3. ASSUME NEW p, ProcessPresence(p) \/ ProcessMessage(p) \/ ProcessIgnored(p)
      PROVE  SessionInv'
  <2>1. /\ Processing(p) /\ conn' = ConsumeInput(conn)
        /\ UNCHANGED <<phase, pc, call>>
    BY <1>3 DEF ProcessPresence, ProcessMessage, ProcessIgnored, sessionVars,
       callVars
  <2> QED  BY <2>1, ConsumeKeepsState, PacketConsumed
<1>4. ASSUME NEW p, ProcessUnknown(p) PROVE SessionInv'
  BY <1>4, LostFact DEF ProcessUnknown
<1>5. Packets # <<>> => Head(Packets) \in ServerPacket
  BY DEF Packets, Connection
<1> QED  BY <1>1, <1>2, <1>3, <1>4, <1>5, HandshakeResponseSession,
            VirtualConnectSession DEF ProcessInput

\* SendWWRRegistrations may find the socket dead; the session stays online
\* until PumpEnd.
LEMMA RegisterSession ==
    ASSUME TypeOK, SessionInv, RegisterNextUser \/ RegistrationEnds
    PROVE  SessionInv'
<1>1. CASE RegistrationEnds
  BY <1>1 DEF RegistrationEnds, SessionInv, PhaseMatchesSocket, NoStaleBytes,
     sessionVars, SocketAlive, IsConnected
<1>2. CASE RegisterNextUser
  <2>1. /\ conn \in Connection /\ usersForWWR # <<>> /\ usersForWWR \in Seq(Users)
        /\ pc = "register" /\ phase = "ONLINE" /\ UNCHANGED <<phase, pc, call>>
    BY <1>2 DEF RegisterNextUser, TypeOK, SessionTypeOK, SessionInv,
       PhaseMatchesSocket, callVars
  <2>2. <<OneWay("ADD_WWR_ENTRY", Head(usersForWWR), TRUE)>> \in Seq(ClientPacket)
    <3>1. Head(usersForWWR) \in Subject
      BY <2>1 DEF Subject
    <3> QED  BY <3>1, OneWayFact DEF ClientPackets
  <2>3. conn'.state \in {conn.state, "CLOSED"}
    BY <1>2, <2>1, <2>2, WritesFact DEF RegisterNextUser
  <2> QED  BY <2>1, <2>3, OnlineInside DEF Outside
<1> QED  BY <1>1, <1>2

-----------------------------------------------------------------------------
(* The other steps.                                                        *)

\* What follows Pump in a call, and the outbox.
LEMMA ReturnsSession ==
    ASSUME SessionInv,
           \/ ReturnConnect \/ ReturnWait \/ ReturnQuery \/ ReturnAddToWWR
           \/ ReturnGetMessages \/ PumpNothing \/ ScanOutbox \/ ScanEnds
    PROVE  SessionInv'
<1>1. Outside /\ phase' = phase /\ conn' = conn
  BY DEF ReturnConnect, ReturnWait, ReturnQuery, ReturnAddToWWR,
     ReturnGetMessages, PumpNothing, ScanOutbox, ScanEnds, Outside, sessionVars
<1>2. Outside'
  <2>1. CASE ReturnWait
    BY <2>1, OutsideFact DEF ReturnWait, Outside
  <2>2. CASE ReturnQuery
    BY <2>2, OutsideFact DEF ReturnQuery, QueryReturns
  <2>3. CASE PumpNothing \/ ScanOutbox \/ ScanEnds
    BY <2>3, OutsideFact DEF PumpNothing, ScanOutbox, ScanEnds, Outside
  <2>4. CASE ReturnConnect \/ ReturnAddToWWR \/ ReturnGetMessages
    BY <2>4, OutsideFact DEF ReturnConnect, ReturnAddToWWR, ReturnGetMessages
  <2> QED  BY <2>1, <2>2, <2>3, <2>4
<1> QED  BY <1>1, <1>2, SocketKept

\* The Send of a queued message, and of a file (ProcessQueuedMessages,
\* SendOutboxFile).
LEMMA SendsSession ==
    ASSUME SessionInv,
           ProcessQueuedMessages \/ \E f \in scanList : SendOutboxFile(f)
    PROVE  SessionInv'
<1>1. CASE ProcessQueuedMessages
  <2>1. Outside
    BY <1>1 DEF ProcessQueuedMessages, Outside
  <2>2. CASE queued > 0 /\ Online
    BY <1>1, <2>1, <2>2, FeedSession DEF ProcessQueuedMessages
  <2>3. CASE ~(queued > 0 /\ Online)
    BY <1>1, <2>1, <2>3, OutsideFact, SocketKept
       DEF ProcessQueuedMessages, sessionVars
  <2> QED  BY <2>2, <2>3
<1>2. ASSUME NEW f \in scanList, SendOutboxFile(f) PROVE SessionInv'
  <2>1. Outside /\ Online
    BY <1>2 DEF SendOutboxFile, Outside
  <2>2. \/ phase' = phase /\ pc' = pc
        \/ (\E c : ConnectionLost(c)) /\ Outside'
    BY <1>2, OutsideFact DEF SendOutboxFile, sessionVars, callVars
  <2> QED  BY <2>1, <2>2, LostFact, StaysOnline DEF Online, Outside
<1> QED  BY <1>1, <1>2

\* Clocks, the spool, the server and the network.
LEMMA OthersSession ==
    ASSUME TypeOK, SessionInv, GameUsesSpool \/ TimePasses \/ Environment
    PROVE  SessionInv'
<1>1. CASE Environment
  BY <1>1, EnvironmentFact, NotOurStep DEF managerVars, sessionVars, callVars
<1>2. CASE GameUsesSpool \/ TimePasses
  <2>1. conn' = conn /\ phase' = phase /\ pc' = pc
    BY <1>2 DEF GameUsesSpool, TimePasses, ConnectDeadlinePasses,
       WaitDeadlinePasses, QueryDeadlinePasses, AddDeadlinePasses,
       managerVars, sessionVars, callVars
  <2>2. call'.alive = call.alive /\ call'.login = call.login
    BY <1>2 DEF GameUsesSpool, TimePasses, ConnectDeadlinePasses,
       WaitDeadlinePasses, QueryDeadlinePasses, AddDeadlinePasses,
       managerVars, callVars, TypeOK, CallTypeOK, Call
  <2> QED  BY <2>1, <2>2, NotOurStep DEF SameSocket
<1> QED  BY <1>1, <1>2

\* Every step keeps the session invariant.
LEMMA StepSession == ASSUME TypeOK, SessionInv, [Next]_vars PROVE SessionInv'
<1>1. CASE ManagerSteps
  BY <1>1, PumpConnectSession, PumpSocketSession, PumpEndSession,
     ProcessInputSession, RegisterSession, ReturnsSession, SendsSession
     DEF ManagerSteps
<1>2. CASE UNCHANGED vars
  BY <1>2, NotOurStep DEF vars, sessionVars, callVars, SameSocket
<1> QED  BY <1>1, <1>2, GameCallsSession, OthersSession DEF Next

\* Phase and socket agree in every reachable state, whatever the server and
\* the network do and however many users, tickets and calls there are.
THEOREM PhaseMatches == Spec => []PhaseMatchesSocket
<1>1. TypeOK /\ SessionInv /\ [Next]_vars => SessionInv'
  BY StepSession
<1>2. SessionInv => PhaseMatchesSocket
  BY DEF SessionInv
<1> QED  BY <1>1, <1>2, InitSession, TypeCorrect, PTL DEF Spec

\* A connection being made starts with empty buffers, although Close keeps
\* the input of the one before (BeginConnect).
THEOREM NothingStale == Spec => []NoStaleBytes
<1>1. TypeOK /\ SessionInv /\ [Next]_vars => SessionInv'
  BY StepSession
<1>2. SessionInv => NoStaleBytes
  BY DEF SessionInv
<1> QED  BY <1>1, <1>2, InitSession, TypeCorrect, PTL DEF Spec

-----------------------------------------------------------------------------
(* The outbox.                                                             *)

\* What was written is on its way, unless it went into a connection the
\* server had left already.
LEMMA WrittenIsUnderWay ==
    ASSUME NEW c \in Connection, IsConnected(c), NEW p \in ClientPacket,
           NEW d \in Writes(c, <<p>>), IsConnected(d)
    PROVE  d.peer # "open" \/ p \in Range(d.wire) \cup Range(d.output)
<1> SUFFICES ASSUME d.peer = "open" PROVE p \in Range(d.wire) \cup Range(d.output)
  OBVIOUS
<1>1. <<p>> \in Seq(ClientPacket) /\ d \in Connection
  BY WritesFact
<1>2. c.peer = "open"
  BY DEF Writes, FlushOutputs, Sends, Close, NewSocket, IsConnected, Connection
<1>3. Requests(d) = Requests(c) \o <<p>> /\ Requests(c) \in Seq(ClientPacket)
  BY <1>1, <1>2, WritesAll, TrafficFact
<1>4. Range(Requests(d)) = Range(Requests(c)) \cup Range(<<p>>)
  BY <1>1, <1>3, RangeConcatenation
<1>5. p \in Range(<<p>>)
  BY DEF Range
<1>6. Range(Requests(d)) = Range(d.wire) \cup Range(d.output)
  BY <1>1, TrafficFact, RangeConcatenation DEF Requests
<1> QED  BY <1>4, <1>5, <1>6

\* Only SendOutboxFile takes a file out of the outbox.
LEMMA OutboxSteps ==
    ASSUME [Next]_vars
    PROVE  outbox \subseteq outbox' \/ \E f \in scanList : SendOutboxFile(f)
<1>1. CASE GameCalls
  BY <1>1 DEF GameCalls, ConnectInBackground, Disconnect, IsUserOnline, AddToWWR,
     RemoveFromWWR, FetchUserData, PostDirectMessage, DSFetchRandomUser, GetStatus,
     NextChangedUserWWR, DSFeedHistory, QueueMessage, GetMessages,
     SendOrdinaryMessages, Query, spoolVars
<1>2. CASE ManagerSteps
  <2>1. CASE ProcessInput
    BY <2>1 DEF ProcessInput, ProcessEnd, ProcessTransactionResponse,
       ProcessHandshakeResponse, ProcessMessage, ProcessVirtualConnect,
       ProcessIgnored, ProcessUnknown, ProcessPresence, SpoolPrayFile, spoolVars
  <2>2. CASE ~ProcessInput /\ ~(\E f \in scanList : SendOutboxFile(f))
    BY <1>2, <2>2 DEF ManagerSteps, PumpConnect, PumpSocket, PumpNothing, PumpEnd,
       RegisterNextUser, RegistrationEnds, ReturnConnect, ReturnWait, ReturnQuery,
       ReturnAddToWWR, ReturnGetMessages, ProcessQueuedMessages, ScanOutbox, ScanEnds,
       spoolVars
  <2> QED  BY <2>1, <2>2
<1>3. CASE GameUsesSpool \/ UNCHANGED vars
  BY <1>3 DEF GameUsesSpool, GamePutsFile, GameTakesFile, vars, spoolVars
<1>4. CASE TimePasses
  BY <1>4 DEF TimePasses, ConnectDeadlinePasses, WaitDeadlinePasses,
     QueryDeadlinePasses, AddDeadlinePasses, ScanFallsDue, spoolVars
<1>5. CASE Environment
  BY <1>5 DEF Environment, ServerReads, ServerHangsUp, NetworkFails,
     ServerAnswersHandshake, ServerAnswers, ServerVolunteers, Remote, spoolVars
<1> QED  BY <1>1, <1>2, <1>3, <1>4, <1>5 DEF Next

\* A file is sent before it is removed.
LEMMA SentBeforeRemoved ==
    ASSUME TypeOK, NEW f \in scanList, SendOutboxFile(f), NEW g \in outbox \ outbox',
           FileTarget[g] # Nobody
    PROVE  /\ Online'
           /\ \/ conn'.peer # "open"
              \/ \E p \in Range(conn'.wire) \cup Range(conn'.output) :
                   p.type = "MESSAGE" /\ p.about = g
<1>1. conn \in Connection /\ f \in Files /\ Online
  BY DEF TypeOK, SessionTypeOK, SpoolTypeOK, SendOutboxFile
<1>2. g = f /\ FileTarget[f] # Nobody
  BY DEF SendOutboxFile
<1>3. /\ conn' \in Writes(conn, <<OneWay("MESSAGE", f, TRUE)>>)
      /\ IsConnected(conn') /\ phase' = phase
  BY <1>2 DEF SendOutboxFile, sessionVars
<1>4. /\ OneWay("MESSAGE", f, TRUE) \in ClientPacket
      /\ OneWay("MESSAGE", f, TRUE).type = "MESSAGE"
      /\ OneWay("MESSAGE", f, TRUE).about = f
  BY <1>1 DEF OneWay, ClientPacket, Packet, ClientPackets, Subject
<1>5. \/ conn'.peer # "open"
      \/ OneWay("MESSAGE", f, TRUE) \in Range(conn'.wire) \cup Range(conn'.output)
  BY <1>1, <1>3, <1>4, WrittenIsUnderWay DEF Online
<1> QED  BY <1>1, <1>2, <1>3, <1>4, <1>5 DEF Online

\* A well named file leaves the outbox only once its message is on its way
\* and the session has survived the write (SendOutboxFile).
THEOREM FilesStayUntilSent == Spec => UnsentFilesStay
<1>1. TypeOK /\ [Next]_vars =>
        [\A f \in outbox \ outbox' :
           FileTarget[f] # Nobody =>
             /\ Online'
             /\ \/ conn'.peer # "open"
                \/ \E p \in Range(conn'.wire) \cup Range(conn'.output) :
                     p.type = "MESSAGE" /\ p.about = f]_vars
  BY OutboxSteps, SentBeforeRemoved
<1> QED  BY <1>1, TypeCorrect, PTL DEF Spec, UnsentFilesStay
=============================================================================
