----------------------- MODULE DSNetManagerProperties -----------------------
(* What makes DSNetManager correct: invariants, the contract of its        *)
(* queries, and progress under the fairness of one polling game.           *)
EXTENDS DSNetManager

-----------------------------------------------------------------------------
(* Framing.                                                                *)

\* Every packet the server sent on this connection and we did not consume.
Unconsumed == Range(conn.input) \cup Range(conn.rx)

\* Every reply still to be cut out of the stream has an entry that knows its
\* length and is not done yet, and a handshake reply is never taken for a
\* transaction's (ProcessInput looks a ticket up before the type;
\* DSNetManager.h:180-182).
InSync ==
    phase \in {"AWAIT_HANDSHAKE", "ONLINE"} =>
      \A p \in Unconsumed :
        /\ p.type = "RESPONSE" =>
             /\ p.ticket \in DOMAIN transactions
             /\ ~transactions[p.ticket].done
             /\ transactions[p.ticket].fixedExtra = p.extra
        /\ p.type = "HANDSHAKE_RESPONSE" => p.ticket \notin DOMAIN transactions

\* No byte of an earlier connection is left to be read as part of the next
\* one, although Close keeps the input buffer (BeginConnect clears it).
NoStaleBytes ==
    phase = "CONNECTING" =>
      conn.input = <<>> /\ conn.output = <<>>

-----------------------------------------------------------------------------
(* Session.                                                                *)

\* The phase and the socket agree: a session given up has no open socket
\* behind it, one being set up that has lost its socket is on the way to
\* PumpEnd, which will say so, and what the socket's Pump returned is still
\* true when it is looked at after ProcessInput, which may have closed the
\* socket or logged in meanwhile (Pump, PumpConnectPhase, ConnectionLost,
\* HandleHandshakeResponse).
PhaseMatchesSocket ==
    /\ phase \in {"IDLE", "FAILED"} => ~SocketAlive(conn)
    /\ phase = "CONNECTING" => SocketAlive(conn)
    /\ phase = "AWAIT_HANDSHAKE" =>
         \/ IsConnected(conn)
         \/ pc \in {"process", "pumped"} /\ call.login /\ ~call.alive
    /\ pc = "register" => phase = "ONLINE"
    /\ pc \in {"process", "register", "pumped"} /\ ~call.alive =>
         ~SocketAlive(conn)

-----------------------------------------------------------------------------
(* Queries.                                                                *)

\* Two waiters never wait on the same ticket, and while its transaction is in
\* the table it is the kind the waiter started and nobody abandoned it
\* (NextTicket, StartTransaction, AbandonTransaction).
EachQueryItsOwnTransaction ==
    /\ \A s \in Slot :
         IsPending(s) =>
           /\ queries[s].ticket # call.ticket
           /\ queries[s].ticket \in DOMAIN transactions =>
                transactions[queries[s].ticket].kind = SlotKind(s)
           /\ \A r \in Slot \ {s} : queries[r].ticket # queries[s].ticket
    /\ call.ticket \in DOMAIN transactions =>
         transactions[call.ticket].kind =
           IF call.op = "IsUserOnline" THEN "TRANS_CONNECTION_DETAIL"
                                       ELSE "TRANS_FEED_HISTORY"

\* IsUserOnline never answers with what the server said of somebody else,
\* whatever replies came late or out of order.
OnlineAnswerIsAboutTheUser ==
    result.op = "IsUserOnline" /\ result.ok => result.about = result.arg

\* The contract of the block-and-poll queries.
AskedSlots == {s \in Slot : IsPending(s)}
ResultSlot == CASE result.op = "FetchUserData" -> result.arg
                [] result.op = "GetStatus"     -> Status
                [] OTHER                       -> Random
LastAnswer ==
    IF result.op \in {"FetchUserData", "DSFetchRandomUser",
                      "DSFetchRandomUserSync", "GetStatus"}
    THEN [question |-> ResultSlot, block |-> result.block,
          about |-> result.about]
    ELSE Nobody
SlotTopic == [s \in Slot |-> CASE s = Random -> Users
                               [] s = Status -> {Nobody}
                               [] OTHER      -> {s}]
Contract == INSTANCE BlockingQueries WITH
    Question <- Slot, Topic <- SlotTopic, Nothing <- Nobody,
    asked <- AskedSlots, answer <- LastAnswer

\* Queries keep the contract of BlockingQueries.
QueriesKeepContract == Contract!Spec

-----------------------------------------------------------------------------
(* Presence; PresenceWatch has the property that needs the game's view.    *)

\* A user somebody waits for is watched and not heard of yet, so that the
\* first word about them ends the wait and none is missed (AddToWWR,
\* RemoveFromWWR, UpdatePresence).
PendingAddsUnheard ==
    DOMAIN pendingAdds \subseteq wwrMembers \ DOMAIN presence

\* A user is queued once, however often their state flips between two calls
\* of NextChangedUserWWR.
QueuedOnce == IsInjective(changedUsers)

-----------------------------------------------------------------------------
(* Outbox.                                                                 *)

\* A well named file leaves the outbox only when its message was written and
\* the connection is still up: "connection trouble, leave the rest for later"
\* (ScanOutbox, SendOutboxFile).
UnsentFilesStay ==
    [][\A f \in outbox \ outbox' :
         FileTarget[f] # Nobody =>
           /\ Online'
           /\ \/ conn'.peer # "open"
              \/ \E p \in Range(conn'.wire) \cup Range(conn'.output) :
                   p.type = "MESSAGE" /\ p.about = f]_vars

-----------------------------------------------------------------------------
(* Progress.  The manager's own steps are a program that runs; clocks      *)
(* reach every deadline; a script that blocks on a query calls it again    *)
(* each time the engine gets round to it.  Nothing is assumed of the       *)
(* server or the network.                                                  *)

PollQuery(s) ==
    /\ IsPending(s)
    /\ \/ s \in Users /\ FetchUserData(s)
       \/ s = Random  /\ DSFetchRandomUser
       \/ s = Status  /\ GetStatus

Fairness ==
    /\ WF_vars(ManagerSteps)
    /\ WF_vars(ConnectDeadlinePasses)
    /\ WF_vars(WaitDeadlinePasses)
    /\ \A s \in Slot : WF_vars(QueryDeadlinePasses(s)) /\ SF_vars(PollQuery(s))

FairSpec == Spec /\ Fairness

\* No call holds the game up for ever, whatever the server does: Connect and
\* the synchronous waits of DSFetchRandomUser and of a history upload come back,
\* and so does the per-tick pump with the Send of a queued message inside it
\* (WaitForTransaction, ConnectInBackground, SendOrdinaryMessages).
CallsReturn == pc # "engine" ~> pc = "engine"

\* A script that blocks on a query is released, even when the reply never
\* comes, comes late, or the connection goes down or is replaced meanwhile.
QueriesEnd == \A s \in Slot : IsPending(s) ~> ~IsPending(s)

-----------------------------------------------------------------------------
(* What comments in the code say, and the code does not do.                *)

\* "connection dropped; counts as failed completion" (DSNetManager.cpp:992):
\* once its connection is gone and the next one begun, the transaction of a
\* query is out of the table, so that the next poll ends the query.
QueryFailsWithItsConnection ==
    phase = "CONNECTING" =>
      \A s \in Slot : queries[s].ticket \notin DOMAIN transactions

\* "Handle everything which arrived before any disconnection"
\* (DSNetManager.cpp:614): after ProcessInput no message that has arrived whole
\* is left in the input, whatever came ahead of it.
ArrivedInputIsHandled ==
    pc = "pumped" => \A p \in Range(conn.input) : p.type # "MESSAGE"

\* "registered with the server when we next connect"
\* (DSNetManager.cpp:1133): the list a login registers with the server has
\* every user the game watches.
WatchedUsersAreRegistered ==
    [][phase # "ONLINE" /\ phase' = "ONLINE" =>
         wwrMembers \subseteq Range(usersForWWR)]_vars

\* ERROR_OK is "connection OK" (DSNetManager.h:62): a ConnectInBackground
\* that ends offline leaves an error that says why.
FailedLoginLeavesAnError ==
    result.op = "ConnectInBackground" /\ ~result.block /\ ~result.ok =>
      lastError # "ERROR_OK"
=============================================================================
