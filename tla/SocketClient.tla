---------------------------- MODULE SocketClient ----------------------------
(***************************************************************************)
(* NetNatsueSocket on its own, under a client that calls its methods in    *)
(* any order at all, not only in the order DSNetManager does.              *)
(***************************************************************************)
EXTENDS NetNatsueSocket

CONSTANT MaxPackets  \* bound: packets under way in each direction

ASSUME ClientAssumption == MaxPackets \in Nat

VARIABLE conn

TypeOK == conn \in Connection

Init == conn = NewSocket

\* Packets that differ in whom they are about are enough to tell an order.
ClientItems == {OneWay("MESSAGE", u, FALSE) : u \in Users}
ServerItems == {OneWay("USER_ONLINE", u, TRUE) : u \in Users}

BeginConnect == conn' \in BeginConnects(conn)
PumpConnect  == conn' \in PumpConnects(conn)
Write(p)     == /\ Len(conn.output) + Len(conn.wire) < MaxPackets
                /\ conn' \in Writes(conn, <<p>>)
Pump         == conn' \in SocketPumps(conn)
Consume      == conn.input # <<>> /\ conn' = ConsumeInput(conn)
CloseSocket  == conn' = Close(conn)

ServerReads    == conn.wire # <<>> /\ conn' = ServerReceives(conn)
ServerWrites(p) == /\ conn.peer = "open"
                   /\ Len(conn.input) + Len(conn.rx) < MaxPackets
                   /\ conn' = ServerSends(conn, p)
ServerHangsUp  == conn.peer = "open" /\ conn' = ServerCloses(conn)
NetworkFails   == /\ conn.peer = "open"
                  /\ \E n \in 0 .. Len(conn.rx) : conn' = NetworkBreaks(conn, n)

Next ==
    \/ BeginConnect \/ PumpConnect \/ Pump \/ Consume \/ CloseSocket
    \/ \E p \in ClientItems : Write(p)
    \/ ServerReads \/ ServerHangsUp \/ NetworkFails
    \/ \E p \in ServerItems : ServerWrites(p)

Spec == Init /\ [][Next]_conn

-----------------------------------------------------------------------------
IsUp     == conn.peer = "open"
ToServer == IF IsUp THEN conn.wire \o conn.output ELSE <<>>
ToClient == conn.input \o conn.rx

Pipe == INSTANCE BytePipe WITH
    ClientItem <- ClientItems, ServerItem <- ServerItems,
    up <- IsUp, toServer <- ToServer, toClient <- ToClient

\* Whatever order its methods are called in, the socket is a pipe: partial
\* sends and receives neither repeat, drop nor reorder anything, a failure
\* loses only tails, and a new connection starts empty although Close keeps
\* the input (BeginConnect, Close, FlushOutput, ReadInput, Pump).
IsAPipe == Pipe!Spec

\* The end of the stream is seen behind everything that came before it: unless
\* the network broke the connection, or there was something to write that may
\* not have gone, no pump loses what the server sent, not even the one that
\* finds the server has hung up (Pump, ReadInput).
PumpLosesNothing ==
    [][Pump /\ conn.peer # "reset" /\ conn.output = <<>>
         => ToClient' = ToClient]_conn
=============================================================================
