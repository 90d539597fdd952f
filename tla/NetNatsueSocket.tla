--------------------------- MODULE NetNatsueSocket --------------------------
(***************************************************************************)
(* The non-blocking socket of NetNatsueSocket.cpp, as operators that map a *)
(* connection to the set of connections each method may leave behind.  A   *)
(* connection is a record: state, input and output are the members of      *)
(* NetNatsueSocket; peer, wire, rx, owed and login are the outside world.  *)
(*                                                                         *)
(*   peer   the TCP connection: none, open, closed in order by the server  *)
(*          (what it sent can still be read), or reset                     *)
(*   wire   packets the system took from the client, not yet read by the   *)
(*          server                                                         *)
(*   rx     packets the server sent that recv has not returned yet         *)
(*   owed   requests of this connection the server read and not answered   *)
(*   login  the server accepted a handshake on this connection             *)
(*                                                                         *)
(* A packet some bytes of which are in output or rx counts as there whole: *)
(* neither side can act on it before its last byte has passed.  Every      *)
(* bool method of the class returns whether the connection is still up, so *)
(* the result is read from the state left behind.                          *)
(***************************************************************************)
EXTENDS NatsueProtocol

SocketState == {"CLOSED", "CONNECTING", "CONNECTED", "FAILED"}

Connection == [state  : SocketState,
               input  : Seq(ServerPacket),
               output : Seq(ClientPacket),
               peer   : {"none", "open", "closed", "reset"},
               wire   : Seq(ClientPacket),
               rx     : Seq(ServerPacket),
               owed   : SUBSET ClientPacket,
               login  : BOOLEAN]

NewSocket == [state |-> "CLOSED", input |-> <<>>, output |-> <<>>,
              peer |-> "none", wire |-> <<>>, rx |-> <<>>, owed |-> {},
              login |-> FALSE]

IsConnected(c) == c.state = "CONNECTED"

\* Close: output is dropped, input survives.
Close(c) == [NewSocket EXCEPT !.input = c.input]

\* Close followed by myState = STATE_FAILED.
Fail(c) == [Close(c) EXCEPT !.state = "FAILED"]

\* The TCP connection is established.
Established(c) == [c EXCEPT !.state = "CONNECTED", !.peer = "open"]

\* Mutant of BeginConnects: the buffers of the last connection stay.
BeginConnectsDirty(c) ==
    {Fail(c), Established(Close(c)), [Close(c) EXCEPT !.state = "CONNECTING"]}

\* BeginConnect.  A host that does not resolve and a socket that cannot be
\* made fail before the buffers are cleared; a refused connect fails after.
BeginConnects(c) ==
    LET fresh == [Close(c) EXCEPT !.input = <<>>]
    IN  {Fail(c), Fail(fresh), Established(fresh),
         [fresh EXCEPT !.state = "CONNECTING"]}

\* PumpConnect: nothing yet, connected, or refused.
PumpConnects(c) ==
    IF c.state # "CONNECTING" THEN {c} ELSE {c, Established(c), Fail(c)}

\* Mutants of Sends: what send took is sent again; what it did not take is
\* forgotten.
SendsAgain(c, n) ==
    [c EXCEPT !.wire = IF c.peer = "open" THEN @ \o SubSeq(c.output, 1, n)
                                          ELSE @]
SendsAndForgets(c, n) == [SendsAgain(c, n) EXCEPT !.output = <<>>]

\* FlushOutput.  send takes any part of the output; it fails only on a
\* connection that is no longer open, and what it takes then goes nowhere.
Sends(c, n) ==
    [c EXCEPT !.output = SubSeq(@, n + 1, Len(@)),
              !.wire   = IF c.peer = "open" THEN @ \o SubSeq(c.output, 1, n)
                                            ELSE @]
FlushOutputs(c) ==
    {Sends(c, n) : n \in 0 .. Len(c.output)} \cup
    (IF c.output # <<>> /\ c.peer # "open" THEN {Close(c)} ELSE {})

\* Write of one packet or of the bytes of several.
Writes(c, packets) ==
    IF ~IsConnected(c) THEN {c}
    ELSE FlushOutputs([c EXCEPT !.output = @ \o packets])

\* ReadInput.  recv returns what has arrived so far; the end of the stream
\* comes after all of it, an error may come instead of some of it.
Receives(c, n) ==
    [c EXCEPT !.input = @ \o SubSeq(c.rx, 1, n),
              !.rx    = SubSeq(@, n + 1, Len(@))]

\* Mutant of ReadInputs: the socket is closed as soon as the server has.
ReadInputsUpToHangUp(c) ==
    IF c.peer = "open" THEN {Receives(c, n) : n \in 0 .. Len(c.rx)}
    ELSE {Close(Receives(c, n)) : n \in 0 .. Len(c.rx)}

ReadInputs(c) ==
    {Receives(c, n) : n \in 0 .. Len(c.rx)} \cup
    (CASE c.peer = "closed" -> {Close(Receives(c, Len(c.rx)))}
       [] c.peer = "reset"  -> {Close(Receives(c, n)) : n \in 0 .. Len(c.rx)}
       [] OTHER             -> {})

\* Pump: flush, then read.  After a failed flush nothing is read.
SocketPumps(c) ==
    IF c.state = "CONNECTING" THEN PumpConnects(c)
    ELSE IF ~IsConnected(c)   THEN {c}
    ELSE UNION {IF IsConnected(d) THEN ReadInputs(d) ELSE {d} :
                d \in FlushOutputs(c)}

SocketAlive(c) == c.state \in {"CONNECTING", "CONNECTED"}

\* ConsumeInput of one whole packet.
ConsumeInput(c) == [c EXCEPT !.input = Tail(@)]

-----------------------------------------------------------------------------
(* The other end: what the server and the network do to a connection.      *)

\* The server reads a packet; it will answer a request some time.
ServerReceives(c) ==
    [c EXCEPT !.wire = Tail(@),
              !.owed = IF IsRequest(Head(c.wire)) THEN @ \cup {Head(c.wire)}
                                                  ELSE @]

ServerSends(c, packet) == [c EXCEPT !.rx = Append(@, packet)]

\* The server hangs up in order: what it sent before can still be read.
ServerCloses(c) ==
    [c EXCEPT !.peer = "closed", !.wire = <<>>, !.owed = {}]

\* The network breaks the connection: only n packets sent before arrive.
NetworkBreaks(c, n) ==
    [c EXCEPT !.peer = "reset", !.wire = <<>>, !.owed = {},
              !.rx = SubSeq(@, 1, n)]
=============================================================================
