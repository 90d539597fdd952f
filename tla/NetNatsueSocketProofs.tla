----------------------- MODULE NetNatsueSocketProofs ------------------------
(***************************************************************************)
(* What the methods of the socket leave behind, for every connection: that *)
(* it is a connection again, which states it may be in, and which packets  *)
(* are on their way between the client and the server afterwards.  The     *)
(* proofs about the modules that use the socket cite these facts and never *)
(* look into it.                                                           *)
(***************************************************************************)
EXTENDS NetNatsueSocket, SequenceProofs

\* Construction leaves a closed socket with empty buffers.
LEMMA NewSocketFact ==
    /\ NewSocket \in Connection
    /\ NewSocket.state = "CLOSED"
    /\ NewSocket.input = <<>> /\ NewSocket.output = <<>>
<1>1. /\ <<>> \in Seq(ServerPacket) /\ <<>> \in Seq(ClientPacket)
      /\ {} \in SUBSET ClientPacket
  OBVIOUS
<1> QED  BY <1>1 DEF NewSocket, Connection, SocketState

\* Replacing the input of a connection touches nothing else.
LEMMA InputFact ==
    ASSUME NEW c \in Connection, NEW input \in Seq(ServerPacket)
    PROVE  LET d == [c EXCEPT !.input = input]
           IN  /\ d \in Connection
               /\ d.state = c.state /\ d.input = input /\ d.output = c.output
BY DEF Connection

\* Replacing its state touches nothing else.
LEMMA StateFact ==
    ASSUME NEW c \in Connection, NEW s \in SocketState
    PROVE  LET d == [c EXCEPT !.state = s]
           IN  /\ d \in Connection
               /\ d.state = s /\ d.input = c.input /\ d.output = c.output
BY DEF Connection

\* Close leaves a closed socket and keeps the input (Close).
LEMMA CloseFact ==
    ASSUME NEW c \in Connection
    PROVE  /\ Close(c) \in Connection
           /\ Close(c).state = "CLOSED"
           /\ Close(c).input = c.input /\ Close(c).output = <<>>
<1>1. c.input \in Seq(ServerPacket)
  BY DEF Connection
<1> QED  BY <1>1, NewSocketFact, InputFact DEF Close

\* A failed connect leaves a failed socket (BeginConnect, PumpConnect).
LEMMA FailFact ==
    ASSUME NEW c \in Connection
    PROVE  Fail(c) \in Connection /\ Fail(c).state = "FAILED"
<1>1. "FAILED" \in SocketState
  BY DEF SocketState
<1> QED  BY <1>1, CloseFact, StateFact DEF Fail

\* A socket found connected (PumpConnect).
LEMMA EstablishedFact ==
    ASSUME NEW c \in Connection
    PROVE  /\ Established(c) \in Connection
           /\ Established(c).state = "CONNECTED"
           /\ Established(c).input = c.input /\ Established(c).output = c.output
BY DEF Established, Connection, SocketState

\* BeginConnect fails, or it connects at once or is under way and has cleared
\* both buffers (BeginConnect).
LEMMA BeginConnectsFact ==
    ASSUME NEW c \in Connection, NEW d \in BeginConnects(c)
    PROVE  /\ d \in Connection
           /\ \/ d.state = "FAILED"
              \/ /\ d.state \in {"CONNECTED", "CONNECTING"}
                 /\ d.input = <<>> /\ d.output = <<>>
<1> DEFINE fresh == [Close(c) EXCEPT !.input = <<>>]
           started == [fresh EXCEPT !.state = "CONNECTING"]
<1>1. fresh \in Connection /\ fresh.input = <<>> /\ fresh.output = <<>>
  <2>1. <<>> \in Seq(ServerPacket)
    OBVIOUS
  <2> QED  BY <2>1, CloseFact, InputFact
<1>2. /\ started \in Connection /\ started.state = "CONNECTING"
      /\ started.input = <<>> /\ started.output = <<>>
  <2>1. "CONNECTING" \in SocketState
    BY DEF SocketState
  <2> HIDE DEF fresh
  <2> QED  BY <1>1, <2>1, StateFact
<1>3. d \in {Fail(c), Fail(fresh), Established(fresh), started}
  BY DEF BeginConnects
<1> HIDE DEF fresh, started
<1> QED  BY <1>1, <1>2, <1>3, FailFact, EstablishedFact

\* PumpConnect waits, connects or fails, and does nothing unless connecting.
LEMMA PumpConnectsFact ==
    ASSUME NEW c \in Connection, NEW d \in PumpConnects(c)
    PROVE  /\ d \in Connection
           /\ d = c \/ d.state \in {"CONNECTED", "FAILED"}
BY FailFact, EstablishedFact DEF PumpConnects

\* send takes a prefix of the output (FlushOutput).
LEMMA SendsFact ==
    ASSUME NEW c \in Connection, NEW n \in 0 .. Len(c.output)
    PROVE  /\ Sends(c, n) \in Connection
           /\ Sends(c, n).state = c.state /\ Sends(c, n).input = c.input
<1>1. c.output \in Seq(ClientPacket) /\ c.wire \in Seq(ClientPacket)
  BY DEF Connection
<1>2. SubSeq(c.output, n + 1, Len(c.output)) \in Seq(ClientPacket)
  BY <1>1, SubSeqProperties, LenProperties
<1>3. SubSeq(c.output, 1, n) \in Seq(ClientPacket)
  BY <1>1, SubSeqProperties, LenProperties
<1>4. c.wire \o SubSeq(c.output, 1, n) \in Seq(ClientPacket)
  BY <1>1, <1>3, ConcatProperties
<1> QED  BY <1>1, <1>2, <1>4 DEF Sends, Connection

\* A flush leaves the socket as it is or closes it, and keeps the input
\* (FlushOutput).
LEMMA FlushOutputsFact ==
    ASSUME NEW c \in Connection, NEW d \in FlushOutputs(c)
    PROVE  /\ d \in Connection
           /\ d.state \in {c.state, "CLOSED"} /\ d.input = c.input
BY CloseFact, SendsFact DEF FlushOutputs

\* So does a write (Write).
LEMMA WritesFact ==
    ASSUME NEW c \in Connection, NEW packets \in Seq(ClientPacket),
           NEW d \in Writes(c, packets)
    PROVE  /\ d \in Connection
           /\ d.state \in {c.state, "CLOSED"} /\ d.input = c.input
<1> DEFINE filled == [c EXCEPT !.output = c.output \o packets]
<1>1. c.output \o packets \in Seq(ClientPacket)
  BY ConcatProperties DEF Connection
<1>2. filled \in Connection /\ filled.state = c.state /\ filled.input = c.input
  BY <1>1 DEF Connection
<1>3. d = c \/ d \in FlushOutputs(filled)
  BY DEF Writes
<1> HIDE DEF filled
<1> QED  BY <1>2, <1>3, FlushOutputsFact

\* recv returns a prefix of what has arrived (ReadInput).
LEMMA ReceivesFact ==
    ASSUME NEW c \in Connection, NEW n \in 0 .. Len(c.rx)
    PROVE  Receives(c, n) \in Connection /\ Receives(c, n).state = c.state
<1>1. c.rx \in Seq(ServerPacket) /\ c.input \in Seq(ServerPacket)
  BY DEF Connection
<1>2. SubSeq(c.rx, n + 1, Len(c.rx)) \in Seq(ServerPacket)
  BY <1>1, SubSeqProperties, LenProperties
<1>3. SubSeq(c.rx, 1, n) \in Seq(ServerPacket)
  BY <1>1, SubSeqProperties, LenProperties
<1>4. c.input \o SubSeq(c.rx, 1, n) \in Seq(ServerPacket)
  BY <1>1, <1>3, ConcatProperties
<1> QED  BY <1>1, <1>2, <1>4 DEF Receives, Connection

\* Reading leaves the socket as it is or closes it (ReadInput).
LEMMA ReadInputsFact ==
    ASSUME NEW c \in Connection, NEW d \in ReadInputs(c)
    PROVE  d \in Connection /\ d.state \in {c.state, "CLOSED"}
<1>1. PICK n \in 0 .. Len(c.rx) : d = Receives(c, n) \/ d = Close(Receives(c, n))
  <2>1. Len(c.rx) \in 0 .. Len(c.rx)
    BY LenProperties DEF Connection
  <2> QED  BY <2>1 DEF ReadInputs
<1> QED  BY <1>1, ReceivesFact, CloseFact

\* Pump of a socket that is up leaves it up or closed, and of one that is
\* not it does no more than PumpConnect (Pump).
LEMMA SocketPumpsFact ==
    ASSUME NEW c \in Connection, NEW d \in SocketPumps(c)
    PROVE  /\ d \in Connection
           /\ c.state = "CONNECTED" => d.state \in {"CONNECTED", "CLOSED"}
           /\ c.state \in {"CLOSED", "FAILED"} => d = c
<1>1. CASE c.state = "CONNECTING"
  BY <1>1, PumpConnectsFact DEF SocketPumps
<1>2. CASE c.state \in {"CLOSED", "FAILED"}
  BY <1>2 DEF SocketPumps, IsConnected
<1>3. CASE c.state = "CONNECTED"
  <2>1. PICK e \in FlushOutputs(c) :
               d \in IF IsConnected(e) THEN ReadInputs(e) ELSE {e}
    BY <1>3 DEF SocketPumps, IsConnected
  <2>2. e \in Connection /\ e.state \in {"CONNECTED", "CLOSED"}
    BY <1>3, FlushOutputsFact
  <2>3. d = e \/ d \in ReadInputs(e)
    BY <2>1
  <2> QED  BY <1>3, <2>2, <2>3, ReadInputsFact
<1>4. c.state \in SocketState
  BY DEF Connection
<1> QED  BY <1>1, <1>2, <1>3, <1>4 DEF SocketState

\* ConsumeInput of one packet.
LEMMA ConsumeInputFact ==
    ASSUME NEW c \in Connection, c.input # <<>>
    PROVE  /\ ConsumeInput(c) \in Connection
           /\ ConsumeInput(c).state = c.state
<1>1. Tail(c.input) \in Seq(ServerPacket)
  BY HeadTailProperties DEF Connection
<1> QED  BY <1>1, InputFact DEF ConsumeInput

-----------------------------------------------------------------------------
(* The other end moves on without touching the socket or its buffers.      *)

\* The server takes a packet off the wire.
LEMMA ServerReceivesFact ==
    ASSUME NEW c \in Connection, c.wire # <<>>
    PROVE  /\ ServerReceives(c) \in Connection
           /\ ServerReceives(c).state = c.state
           /\ ServerReceives(c).input = c.input /\ ServerReceives(c).output = c.output
<1>1. Tail(c.wire) \in Seq(ClientPacket) /\ Head(c.wire) \in ClientPacket
  BY HeadTailProperties DEF Connection
<1>2. c.owed \cup {Head(c.wire)} \in SUBSET ClientPacket
  BY <1>1 DEF Connection
<1> QED  BY <1>1, <1>2 DEF ServerReceives, Connection

\* The server sends a packet.
LEMMA ServerSendsFact ==
    ASSUME NEW c \in Connection, NEW p \in ServerPacket
    PROVE  /\ ServerSends(c, p) \in Connection
           /\ ServerSends(c, p).state = c.state
           /\ ServerSends(c, p).input = c.input /\ ServerSends(c, p).output = c.output
<1>1. Append(c.rx, p) \in Seq(ServerPacket)
  BY AppendProperties DEF Connection
<1> QED  BY <1>1 DEF ServerSends, Connection

\* The server hangs up in an orderly way.
LEMMA ServerClosesFact ==
    ASSUME NEW c \in Connection
    PROVE  /\ ServerCloses(c) \in Connection
           /\ ServerCloses(c).state = c.state
           /\ ServerCloses(c).input = c.input /\ ServerCloses(c).output = c.output
<1>1. <<>> \in Seq(ClientPacket) /\ {} \in SUBSET ClientPacket
  OBVIOUS
<1> QED  BY <1>1 DEF ServerCloses, Connection

\* The connection breaks, with what was on the way lost.
LEMMA NetworkBreaksFact ==
    ASSUME NEW c \in Connection, NEW n \in 0 .. Len(c.rx)
    PROVE  /\ NetworkBreaks(c, n) \in Connection
           /\ NetworkBreaks(c, n).state = c.state
           /\ NetworkBreaks(c, n).input = c.input /\ NetworkBreaks(c, n).output = c.output
<1>1. <<>> \in Seq(ClientPacket) /\ {} \in SUBSET ClientPacket
  OBVIOUS
<1>2. SubSeq(c.rx, 1, n) \in Seq(ServerPacket)
  BY SubSeqProperties, LenProperties DEF Connection
<1> QED  BY <1>1, <1>2 DEF NetworkBreaks, Connection

-----------------------------------------------------------------------------
(* What is on its way: packets move along, are dropped at either end, or   *)
(* are lost with the connection, and none is made twice or overtaken.      *)

\* What the server has not read, and what the client has not consumed.
Requests(c) == c.wire \o c.output
Replies(c)  == c.input \o c.rx

\* Nothing is on the wire of a connection that is not open.
Quiet(c) == c.peer # "open" => c.wire = <<>>

\* d has of what was under way on c, and of what was added behind it, only a
\* stretch in each direction.
Carries(c, d, added) ==
    /\ Stretch(Requests(d), Requests(c) \o added)
    /\ Stretch(Replies(d), Replies(c))
    /\ d.owed \subseteq c.owed
    /\ Quiet(d)

\* Packets in either direction can be put together in any order of joining.
LEMMA PacketsAssociate ==
    /\ \A s, t, u \in Seq(ClientPacket) : (s \o t) \o u = s \o (t \o u)
    /\ \A s, t, u \in Seq(ServerPacket) : (s \o t) \o u = s \o (t \o u)
<1>1. ASSUME NEW s \in Seq(ClientPacket), NEW t \in Seq(ClientPacket),
             NEW u \in Seq(ClientPacket)
      PROVE  (s \o t) \o u = s \o (t \o u)
  BY ConcatAssociative
<1>2. ASSUME NEW s \in Seq(ServerPacket), NEW t \in Seq(ServerPacket),
             NEW u \in Seq(ServerPacket)
      PROVE  (s \o t) \o u = s \o (t \o u)
  BY ConcatAssociative
<1> QED  BY <1>1, <1>2

\* The two directions are sequences.
LEMMA TrafficFact ==
    ASSUME NEW c \in Connection
    PROVE  /\ c.wire \in Seq(ClientPacket) /\ c.output \in Seq(ClientPacket)
           /\ c.input \in Seq(ServerPacket) /\ c.rx \in Seq(ServerPacket)
           /\ Requests(c) \in Seq(ClientPacket) /\ Replies(c) \in Seq(ServerPacket)
           /\ Requests(c) \o <<>> = Requests(c)
<1>1. /\ c.wire \in Seq(ClientPacket) /\ c.output \in Seq(ClientPacket)
      /\ c.input \in Seq(ServerPacket) /\ c.rx \in Seq(ServerPacket)
  BY DEF Connection
<1>2. Requests(c) \in Seq(ClientPacket) /\ Replies(c) \in Seq(ServerPacket)
  BY <1>1, ConcatProperties DEF Requests, Replies
<1> QED  BY <1>1, <1>2, ConcatEmptySeq

\* Packets one behind the other, by position.
LEMMA PacketsJoin ==
    /\ \A s, t \in Seq(ClientPacket) : Joins(s \o t, s, t)
    /\ \A s, t \in Seq(ServerPacket) : Joins(s \o t, s, t)
BY JoinFact

\* And without the first one.
LEMMA PacketsMoveUp ==
    /\ \A s, t \in Seq(ClientPacket) :
         s # <<>> => HeadGone(Tail(s) \o t, s \o t, Head(s))
    /\ \A s, t \in Seq(ServerPacket) :
         s # <<>> => HeadGone(Tail(s) \o t, s \o t, Head(s))
BY HeadGoneFact

\* Carrying on what was carried.
LEMMA CarriesOn ==
    ASSUME NEW c \in Connection, NEW d \in Connection, NEW e \in Connection,
           NEW added \in Seq(ClientPacket),
           Carries(c, d, added), Carries(d, e, <<>>)
    PROVE  Carries(c, e, added)
<1>1. /\ DOMAIN Requests(e) \subseteq Int /\ DOMAIN Replies(e) \subseteq Int
  BY TrafficFact, LenProperties
<1>2. Stretch(Requests(e), Requests(c) \o added)
  BY <1>1, TrafficFact, StretchOfStretch DEF Carries
<1>3. Stretch(Replies(e), Replies(c))
  BY <1>1, StretchOfStretch DEF Carries
<1> QED  BY <1>2, <1>3 DEF Carries

\* A method that leaves all of it alone.
LEMMA SameTraffic ==
    ASSUME NEW c \in Connection, NEW d \in Connection, Quiet(d),
           NEW added \in Seq(ClientPacket),
           Requests(d) = Requests(c), Replies(d) = Replies(c),
           d.owed \subseteq c.owed
    PROVE  Carries(c, d, added)
BY TrafficFact, StretchSelf DEF Carries

\* Close, and a failed connect: what was on its way is gone, the input is
\* not (Close).
LEMMA CloseCarries ==
    ASSUME NEW c \in Connection, NEW d \in {Close(c), Fail(c)},
           NEW added \in Seq(ClientPacket)
    PROVE  Carries(c, d, added)
<1>1. /\ d.wire = <<>> /\ d.output = <<>> /\ d.rx = <<>> /\ d.owed = {}
      /\ d.input = c.input
  BY DEF Close, Fail, NewSocket
<1>2. Requests(d) = <<>> /\ Replies(d) = c.input
  BY <1>1, TrafficFact, EmptySeq, ConcatEmptySeq DEF Requests, Replies
<1>3. Stretch(Requests(d), Requests(c) \o added)
  BY <1>2, TrafficFact, ConcatProperties, StretchSelf
<1>4. Stretch(Replies(d), Replies(c))
  BY <1>2, TrafficFact, StretchSelf DEF Replies
<1> QED  BY <1>1, <1>3, <1>4 DEF Carries, Quiet

\* A connection just made, or being made, has nothing under way
\* (BeginConnect).
LEMMA BeginConnectsCarries ==
    ASSUME NEW c \in Connection, NEW d \in BeginConnects(c)
    PROVE  \/ d.state = "FAILED" /\ Carries(c, d, <<>>)
           \/ /\ Requests(d) = <<>> /\ Replies(d) = <<>> /\ d.owed = {}
              /\ d.wire = <<>>
<1> DEFINE fresh == [Close(c) EXCEPT !.input = <<>>]
<1>0. /\ <<>> \in Seq(ClientPacket) /\ <<>> \in Seq(ServerPacket)
      /\ <<>> \o <<>> = <<>>
  BY ConcatEmptySeq
<1>1. /\ fresh.wire = <<>> /\ fresh.output = <<>> /\ fresh.rx = <<>>
      /\ fresh.owed = {} /\ fresh.input = <<>> /\ fresh \in Connection
  <2>1. fresh \in Connection
    BY <1>0, CloseFact, InputFact
  <2> QED  BY <2>1 DEF Close, NewSocket
<1>2. CASE d = Fail(c)
  BY <1>0, <1>2, FailFact, CloseCarries
<1>3. CASE d = Fail(fresh)
  <2>1. /\ d.wire = <<>> /\ d.output = <<>> /\ d.rx = <<>> /\ d.owed = {}
        /\ d.input = <<>>
    BY <1>3 DEF Fail, Close, NewSocket
  <2> QED  BY <1>0, <2>1 DEF Requests, Replies
<1>4. CASE d \in {Established(fresh), [fresh EXCEPT !.state = "CONNECTING"]}
  <2>1. /\ d.wire = <<>> /\ d.output = <<>> /\ d.rx = <<>> /\ d.owed = {}
        /\ d.input = <<>>
    <3> HIDE DEF fresh
    <3> QED  BY <1>1, <1>4 DEF Established, Connection
  <2> QED  BY <1>0, <2>1 DEF Requests, Replies
<1> QED  BY <1>2, <1>3, <1>4 DEF BeginConnects

\* PumpConnect.
LEMMA PumpConnectsCarries ==
    ASSUME NEW c \in Connection, Quiet(c), NEW d \in PumpConnects(c)
    PROVE  Carries(c, d, <<>>)
<1> <<>> \in Seq(ClientPacket)
  OBVIOUS
<1>1. CASE d = c
  BY <1>1, SameTraffic
<1>2. CASE d = Established(c)
  <2>1. /\ d \in Connection /\ d.peer = "open" /\ d.wire = c.wire
        /\ d.output = c.output /\ d.input = c.input /\ d.rx = c.rx
        /\ d.owed = c.owed
    BY <1>2, EstablishedFact DEF Established, Connection
  <2> QED  BY <2>1, SameTraffic DEF Quiet, Requests, Replies
<1>3. CASE d = Fail(c)
  BY <1>3, CloseCarries
<1> QED  BY <1>1, <1>2, <1>3 DEF PumpConnects

\* While the connection is open send takes nothing out of what is on its way
\* (FlushOutput).
LEMMA SendsKeeps ==
    ASSUME NEW c \in Connection, c.peer = "open", NEW n \in 0 .. Len(c.output)
    PROVE  /\ Requests(Sends(c, n)) = Requests(c)
           /\ Sends(c, n).peer = "open" /\ Sends(c, n).state = c.state
           /\ Sends(c, n).input = c.input /\ Sends(c, n).rx = c.rx
<1> DEFINE d == Sends(c, n)
           taken == SubSeq(c.output, 1, n)
           left == SubSeq(c.output, n + 1, Len(c.output))
<1>1. /\ d.output = left /\ d.wire = c.wire \o taken
      /\ d.peer = c.peer /\ d.state = c.state /\ d.input = c.input /\ d.rx = c.rx
  BY SendsFact DEF Sends, Connection
<1>2. /\ taken \in Seq(ClientPacket) /\ left \in Seq(ClientPacket)
      /\ taken \o left = c.output
  <2>1. c.output \in Seq(ClientPacket)
    BY TrafficFact
  <2> QED  BY <2>1, CutFact, LenProperties
<1>3. (c.wire \o taken) \o left = c.wire \o (taken \o left)
  <2> HIDE DEF taken, left
  <2>1. c.wire \in Seq(ClientPacket)
    BY TrafficFact
  <2> QED  BY <1>2, <2>1, PacketsAssociate
<1> HIDE DEF d, taken, left
<1>4. Requests(d) = Requests(c)
  BY <1>1, <1>2, <1>3 DEF Requests
<1> QED  BY <1>1, <1>4 DEF d

\* What is written while it is open is behind all that was (Write).
LEMMA WritesAll ==
    ASSUME NEW c \in Connection, IsConnected(c), c.peer = "open",
           NEW packets \in Seq(ClientPacket), NEW d \in Writes(c, packets)
    PROVE  /\ Requests(d) = Requests(c) \o packets
           /\ d.peer = "open" /\ d.input = c.input /\ d.rx = c.rx
<1> DEFINE filled == [c EXCEPT !.output = c.output \o packets]
<1>1. c.output \o packets \in Seq(ClientPacket)
  BY ConcatProperties, TrafficFact
<1>2. /\ filled \in Connection /\ filled.wire = c.wire
      /\ filled.output = c.output \o packets /\ filled.input = c.input
      /\ filled.rx = c.rx /\ filled.peer = "open"
  BY <1>1 DEF Connection
<1>3. d \in FlushOutputs(filled)
  BY DEF Writes
<1> HIDE DEF filled
<1>4. Requests(filled) = Requests(c) \o packets
  <2>1. (c.wire \o c.output) \o packets = c.wire \o (c.output \o packets)
    <3>1. c.wire \in Seq(ClientPacket) /\ c.output \in Seq(ClientPacket)
      BY TrafficFact
    <3> QED  BY <3>1, PacketsAssociate
  <2> QED  BY <1>2, <2>1 DEF Requests
<1>5. PICK n \in 0 .. Len(filled.output) : d = Sends(filled, n)
  BY <1>2, <1>3 DEF FlushOutputs
<1> QED  BY <1>2, <1>4, <1>5, SendsKeeps

\* What send takes is on the wire, in order, or nowhere (FlushOutput).
LEMMA SendsCarries ==
    ASSUME NEW c \in Connection, Quiet(c), NEW n \in 0 .. Len(c.output)
    PROVE  Carries(c, Sends(c, n), <<>>)
<1> DEFINE d == Sends(c, n)
           taken == SubSeq(c.output, 1, n)
           left == SubSeq(c.output, n + 1, Len(c.output))
<1>1. /\ d \in Connection /\ d.input = c.input /\ d.rx = c.rx
      /\ d.owed = c.owed /\ d.peer = c.peer /\ d.output = left
      /\ d.wire = IF c.peer = "open" THEN c.wire \o taken ELSE c.wire
  BY SendsFact DEF Sends, Connection
<1>2. /\ taken \in Seq(ClientPacket) /\ left \in Seq(ClientPacket)
      /\ Len(left) = Len(c.output) - n /\ Len(c.output) \in Nat
      /\ \A i \in 1 .. Len(c.output) - n : left[i] = c.output[i + n]
      /\ taken \o left = c.output
  <2>1. c.output \in Seq(ClientPacket)
    BY TrafficFact
  <2> QED  BY <2>1, CutFact, LenProperties
<1> <<>> \in Seq(ClientPacket) /\ n \in Nat
  BY <1>2
<1>3. CASE c.peer = "open"
  <2>1. Requests(d) = Requests(c)
    BY <1>3, SendsKeeps
  <2> HIDE DEF d
  <2>2. Quiet(d) /\ Replies(d) = Replies(c) /\ d.owed \subseteq c.owed
    BY <1>1, <1>3 DEF Replies, Quiet
  <2>3. Carries(c, d, <<>>)
    BY <1>1, <2>1, <2>2, SameTraffic
  <2> QED  BY <2>3 DEF d
<1>4. CASE c.peer # "open"
  <2> HIDE DEF d, taken, left
  <2>1. c.wire = <<>> /\ Requests(c) = c.output /\ Requests(d) = left
    <3>1. c.wire = <<>> /\ d.wire = c.wire
      BY <1>1, <1>4 DEF Quiet
    <3>2. <<>> \o c.output = c.output /\ <<>> \o left = left
      BY <1>2, TrafficFact, ConcatEmptySeq
    <3>3. Requests(c) = c.output
      BY <3>1, <3>2 DEF Requests
    <3>4. Requests(d) = left
      BY <1>1, <3>1, <3>2 DEF Requests
    <3> QED  BY <3>1, <3>3, <3>4
  <2>2. Stretch(Requests(d), Requests(c) \o <<>>)
    <3>1. Stretch(left, c.output)
      <4>1. Len(left) + n <= Len(c.output)
        BY <1>2
      <4>2. \A i \in 1 .. Len(left) : left[i] = c.output[i + n]
        BY <1>2
      <4> QED  BY <1>2, <4>1, <4>2, TrafficFact, StretchFact
    <3> QED  BY <2>1, <3>1, TrafficFact
  <2>3. Stretch(Replies(d), Replies(c))
    BY <1>1, TrafficFact, StretchSelf DEF Replies
  <2> QED  BY <1>1, <1>4, <2>1, <2>2, <2>3 DEF Carries, Quiet, d
<1> QED  BY <1>3, <1>4

\* FlushOutput.
LEMMA FlushOutputsCarries ==
    ASSUME NEW c \in Connection, Quiet(c), NEW d \in FlushOutputs(c)
    PROVE  Carries(c, d, <<>>)
<1> <<>> \in Seq(ClientPacket)
  OBVIOUS
<1> QED  BY SendsCarries, CloseCarries DEF FlushOutputs

\* Write: what was written is behind what was there (Write).
LEMMA WritesCarries ==
    ASSUME NEW c \in Connection, Quiet(c), NEW packets \in Seq(ClientPacket),
           NEW d \in Writes(c, packets)
    PROVE  Carries(c, d, packets)
<1> DEFINE filled == [c EXCEPT !.output = c.output \o packets]
<1>1. CASE d = c
  BY <1>1, SameTraffic
<1>2. CASE d \in FlushOutputs(filled)
  <2>1. c.output \o packets \in Seq(ClientPacket)
    BY ConcatProperties, TrafficFact
  <2>2. /\ filled \in Connection /\ filled.wire = c.wire
        /\ filled.output = c.output \o packets /\ filled.input = c.input
        /\ filled.rx = c.rx /\ filled.owed = c.owed /\ filled.peer = c.peer
    BY <2>1 DEF Connection
  <2> HIDE DEF filled
  <2>3. Requests(filled) = Requests(c) \o packets
    <3>1. (c.wire \o c.output) \o packets = c.wire \o (c.output \o packets)
      <4>1. c.wire \in Seq(ClientPacket) /\ c.output \in Seq(ClientPacket)
        BY TrafficFact
      <4> QED  BY <4>1, PacketsAssociate
    <3> QED  BY <2>2, <3>1 DEF Requests
  <2>4. Replies(filled) = Replies(c)
    BY <2>2 DEF Replies
  <2>5. Carries(c, filled, packets)
    BY <2>2, <2>3, <2>4, TrafficFact, StretchSelf DEF Carries, Quiet
  <2>6. Carries(filled, d, <<>>)
    BY <1>2, <2>2, FlushOutputsCarries DEF Quiet
  <2>7. d \in Connection
    BY <1>2, <2>2, FlushOutputsFact
  <2> QED  BY <2>2, <2>5, <2>6, <2>7, CarriesOn
<1> QED  BY <1>1, <1>2 DEF Writes

\* What recv returns moves from one side of the input to the other
\* (ReadInput).
LEMMA ReceivesCarries ==
    ASSUME NEW c \in Connection, Quiet(c), NEW n \in 0 .. Len(c.rx)
    PROVE  Carries(c, Receives(c, n), <<>>)
<1> DEFINE d == Receives(c, n)
           taken == SubSeq(c.rx, 1, n)
           left == SubSeq(c.rx, n + 1, Len(c.rx))
<1>1. /\ d \in Connection /\ d.output = c.output /\ d.wire = c.wire
      /\ d.owed = c.owed /\ d.peer = c.peer /\ d.input = c.input \o taken
      /\ d.rx = left
  BY ReceivesFact DEF Receives, Connection
<1>2. /\ taken \in Seq(ServerPacket) /\ left \in Seq(ServerPacket)
      /\ taken \o left = c.rx
  <2>1. c.rx \in Seq(ServerPacket)
    BY TrafficFact
  <2> QED  BY <2>1, CutFact
<1> <<>> \in Seq(ClientPacket)
  OBVIOUS
<1> HIDE DEF d, taken, left
<1>3. (c.input \o taken) \o left = c.input \o (taken \o left)
  <2>1. c.input \in Seq(ServerPacket)
    BY TrafficFact
  <2> QED  BY <1>2, <2>1, PacketsAssociate
<1>4. Replies(d) = Replies(c)
  BY <1>1, <1>2, <1>3 DEF Replies
<1>5. Requests(d) = Requests(c)
  BY <1>1 DEF Requests
<1>6. Carries(c, d, <<>>)
  BY <1>1, <1>2, <1>4, <1>5, SameTraffic DEF Quiet
<1> QED  BY <1>6 DEF d

\* ReadInput.
LEMMA ReadInputsCarries ==
    ASSUME NEW c \in Connection, Quiet(c), NEW d \in ReadInputs(c)
    PROVE  Carries(c, d, <<>>)
<1>1. PICK n \in 0 .. Len(c.rx) : d = Receives(c, n) \/ d = Close(Receives(c, n))
  <2>1. Len(c.rx) \in 0 .. Len(c.rx)
    BY LenProperties DEF Connection
  <2> QED  BY <2>1 DEF ReadInputs
<1>2. Receives(c, n) \in Connection /\ Carries(c, Receives(c, n), <<>>)
  BY ReceivesFact, ReceivesCarries
<1>3. <<>> \in Seq(ClientPacket)
  OBVIOUS
<1>4. CASE d = Close(Receives(c, n))
  <2>1. d \in Connection /\ Carries(Receives(c, n), d, <<>>)
    BY <1>2, <1>3, <1>4, CloseFact, CloseCarries
  <2> QED  BY <1>2, <1>3, <2>1, CarriesOn
<1> QED  BY <1>1, <1>2, <1>4

\* Pump.
LEMMA SocketPumpsCarries ==
    ASSUME NEW c \in Connection, Quiet(c), NEW d \in SocketPumps(c)
    PROVE  Carries(c, d, <<>>)
<1> <<>> \in Seq(ClientPacket)
  OBVIOUS
<1>1. CASE d \in PumpConnects(c)
  BY <1>1, PumpConnectsCarries
<1>2. CASE d = c
  BY <1>2, SameTraffic
<1>3. ASSUME NEW e \in FlushOutputs(c),
             d \in IF IsConnected(e) THEN ReadInputs(e) ELSE {e}
      PROVE  Carries(c, d, <<>>)
  <2>1. e \in Connection /\ Carries(c, e, <<>>) /\ Quiet(e)
    BY FlushOutputsFact, FlushOutputsCarries DEF Carries
  <2>2. d = e \/ d \in ReadInputs(e)
    BY <1>3
  <2> QED  BY <2>1, <2>2, ReadInputsFact, ReadInputsCarries, CarriesOn
<1> QED  BY <1>1, <1>2, <1>3 DEF SocketPumps

\* ConsumeInput: the head of the input is gone, and nothing else.
LEMMA ConsumeInputCarries ==
    ASSUME NEW c \in Connection, Quiet(c), c.input # <<>>
    PROVE  /\ Carries(c, ConsumeInput(c), <<>>)
           /\ HeadGone(Replies(ConsumeInput(c)), Replies(c), Head(c.input))
<1> DEFINE d == ConsumeInput(c)
<1>1. /\ d \in Connection /\ d.output = c.output /\ d.wire = c.wire
      /\ d.owed = c.owed /\ d.peer = c.peer /\ d.input = Tail(c.input)
      /\ d.rx = c.rx
  BY ConsumeInputFact DEF ConsumeInput, Connection
<1>2. HeadGone(Replies(d), Replies(c), Head(c.input))
  <2>1. c.input \in Seq(ServerPacket) /\ c.rx \in Seq(ServerPacket)
    BY TrafficFact
  <2>2. Replies(c) = c.input \o c.rx /\ Replies(d) = Tail(c.input) \o c.rx
    BY <1>1 DEF Replies
  <2> HIDE DEF d
  <2> QED  BY <2>1, <2>2, PacketsMoveUp, Zenon
<1>3. Stretch(Replies(d), Replies(c))
  <2> HIDE DEF d
  <2> QED  BY <1>2 DEF Stretch, HeadGone
<1>4. Stretch(Requests(d), Requests(c) \o <<>>)
  <2>1. Requests(d) = Requests(c)
    BY <1>1 DEF Requests
  <2> QED  BY <2>1, TrafficFact, StretchSelf
<1> QED  BY <1>1, <1>2, <1>3, <1>4 DEF Carries, Quiet

\* The server takes the head of the wire, and what it takes is owed if it is
\* a request.
LEMMA ServerReceivesCarries ==
    ASSUME NEW c \in Connection, Quiet(c), c.wire # <<>>
    PROVE  LET d == ServerReceives(c)
           IN  /\ Quiet(d) /\ Replies(d) = Replies(c)
               /\ HeadGone(Requests(d), Requests(c), Head(c.wire))
               /\ d.owed = IF IsRequest(Head(c.wire)) THEN c.owed \cup {Head(c.wire)}
                                                      ELSE c.owed
<1> DEFINE d == ServerReceives(c)
<1>1. /\ d \in Connection /\ d.output = c.output /\ d.wire = Tail(c.wire)
      /\ d.peer = c.peer /\ d.input = c.input /\ d.rx = c.rx
      /\ d.owed = IF IsRequest(Head(c.wire)) THEN c.owed \cup {Head(c.wire)}
                                             ELSE c.owed
  BY ServerReceivesFact DEF ServerReceives, Connection
<1>2. HeadGone(Requests(d), Requests(c), Head(c.wire))
  <2>1. c.wire \in Seq(ClientPacket) /\ c.output \in Seq(ClientPacket)
    BY TrafficFact
  <2>2. Requests(c) = c.wire \o c.output /\ Requests(d) = Tail(c.wire) \o c.output
    BY <1>1 DEF Requests
  <2> HIDE DEF d
  <2> QED  BY <2>1, <2>2, PacketsMoveUp, Zenon
<1>3. Quiet(d) /\ Replies(d) = Replies(c)
  BY <1>1 DEF Quiet, Replies
<1> QED  BY <1>1, <1>2, <1>3

\* What the server sends comes last.
LEMMA ServerSendsCarries ==
    ASSUME NEW c \in Connection, Quiet(c), NEW p \in ServerPacket
    PROVE  LET d == ServerSends(c, p)
           IN  /\ Quiet(d) /\ Requests(d) = Requests(c) /\ d.owed = c.owed
               /\ DOMAIN Replies(d) = 1 .. Len(Replies(c)) + 1
               /\ \A i \in DOMAIN Replies(d) :
                    \/ i \in DOMAIN Replies(c) /\ Replies(d)[i] = Replies(c)[i]
                    \/ i = Len(Replies(c)) + 1 /\ Replies(d)[i] = p
<1> DEFINE d == ServerSends(c, p)
<1>1. /\ d \in Connection /\ d.output = c.output /\ d.wire = c.wire
      /\ d.peer = c.peer /\ d.input = c.input /\ d.rx = Append(c.rx, p)
      /\ d.owed = c.owed
  BY ServerSendsFact DEF ServerSends, Connection
<1>2. /\ Append(c.rx, p) = c.rx \o <<p>> /\ <<p>> \in Seq(ServerPacket)
      /\ Len(<<p>>) = 1 /\ <<p>>[1] = p
  BY TrafficFact, AppendIsConcat
<1> HIDE DEF d
<1>3. Replies(d) = Replies(c) \o <<p>>
  <2>1. (c.input \o c.rx) \o <<p>> = c.input \o (c.rx \o <<p>>)
    <3>1. c.input \in Seq(ServerPacket) /\ c.rx \in Seq(ServerPacket)
      BY TrafficFact
    <3> QED  BY <1>2, <3>1, PacketsAssociate
  <2> QED  BY <1>1, <1>2, <2>1 DEF Replies
<1>4. /\ Len(Replies(d)) = Len(Replies(c)) + 1 /\ Len(Replies(c)) \in Nat
      /\ \A i \in 1 .. Len(Replies(c)) + 1 : Replies(d)[i] =
                  IF i <= Len(Replies(c)) THEN Replies(c)[i]
                                          ELSE <<p>>[i - Len(Replies(c))]
  BY <1>2, <1>3, TrafficFact, ConcatProperties, LenProperties
<1>5. /\ DOMAIN Replies(d) = 1 .. Len(Replies(d))
      /\ DOMAIN Replies(c) = 1 .. Len(Replies(c))
  BY <1>1, TrafficFact, LenProperties
<1>6. ASSUME NEW i \in DOMAIN Replies(d)
      PROVE  \/ i \in DOMAIN Replies(c) /\ Replies(d)[i] = Replies(c)[i]
             \/ i = Len(Replies(c)) + 1 /\ Replies(d)[i] = p
  <2>1. CASE i <= Len(Replies(c))
    BY <1>4, <1>5, <2>1
  <2>2. CASE i = Len(Replies(c)) + 1
    BY <1>2, <1>4, <1>5, <2>2
  <2> QED  BY <1>4, <1>5, <2>1, <2>2
<1>7. Quiet(d) /\ Requests(d) = Requests(c)
  BY <1>1 DEF Quiet, Requests
<1> QED  BY <1>1, <1>4, <1>5, <1>6, <1>7 DEF d

\* The end of a connection at the other side.
LEMMA BreaksCarries ==
    ASSUME NEW c \in Connection, NEW n \in 0 .. Len(c.rx),
           NEW d \in {ServerCloses(c), NetworkBreaks(c, n)}
    PROVE  Carries(c, d, <<>>)
<1> DEFINE come == SubSeq(c.rx, 1, n)
<1>1. /\ d.output = c.output /\ d.wire = <<>> /\ d.input = c.input
      /\ d.owed = {} /\ d.rx \in {c.rx, come} /\ d \in Connection
  <2>1. d \in Connection
    BY ServerClosesFact, NetworkBreaksFact
  <2> QED  BY <2>1 DEF ServerCloses, NetworkBreaks, Connection
<1>2. /\ come \in Seq(ServerPacket) /\ Len(come) = n /\ Len(c.rx) \in Nat
      /\ \A i \in 1 .. n : come[i] = c.rx[i]
  <2>1. c.rx \in Seq(ServerPacket)
    BY TrafficFact
  <2> QED  BY <2>1, CutFact, LenProperties
<1> HIDE DEF come
<1>3. Stretch(Requests(d), Requests(c) \o <<>>)
  <2>1. Requests(d) = c.output
    BY <1>1, TrafficFact, ConcatEmptySeq DEF Requests
  <2>2. /\ Len(Requests(c)) = Len(c.wire) + Len(c.output)
        /\ \A i \in 1 .. Len(c.output) : c.output[i] = Requests(c)[i + Len(c.wire)]
        /\ Len(c.wire) \in Nat /\ Len(c.output) \in Nat
    <3>1. c.wire \in Seq(ClientPacket) /\ c.output \in Seq(ClientPacket)
      BY TrafficFact
    <3>2. Joins(Requests(c), c.wire, c.output)
      BY <3>1, PacketsJoin, Zenon DEF Requests
    <3> QED  BY <3>2 DEF Joins
  <2>3. Len(c.output) + Len(c.wire) <= Len(Requests(c))
    BY <2>2
  <2>4. Stretch(c.output, Requests(c))
    BY <2>2, <2>3, TrafficFact, StretchFact
  <2> QED  BY <2>1, <2>4, TrafficFact
<1>4. Stretch(Replies(d), Replies(c))
  <2>1. CASE d.rx = c.rx
    <3>1. Replies(d) = Replies(c)
      BY <1>1, <2>1 DEF Replies
    <3> QED  BY <3>1, TrafficFact, StretchSelf
  <2>2. CASE d.rx = come
    <3>1. Replies(d) = c.input \o come
      BY <1>1, <2>2 DEF Replies
    <3>0. /\ c.input \in Seq(ServerPacket) /\ c.rx \in Seq(ServerPacket)
      BY TrafficFact
    <3>2. Joins(Replies(d), c.input, come) /\ Joins(Replies(c), c.input, c.rx)
      BY <1>2, <3>0, <3>1, PacketsJoin, Zenon DEF Replies
    <3> QED  BY <1>2, <3>2, ShorterStretch
  <2> QED  BY <1>1, <2>1, <2>2
<1> QED  BY <1>1, <1>3, <1>4 DEF Carries, Quiet

-----------------------------------------------------------------------------
(* What is still to be heard of the server: of a connection nothing was    *)
(* added to, the first part; all of it while it is open.                   *)

\* d has of what the server sent on c the first part, and all if it is still
\* open and logged in, as c was then.
Trails(c, d) ==
    /\ Begins(Replies(d), Replies(c))
    /\ d.login /\ d.peer = "open" =>
         c.login /\ c.peer = "open" /\ Replies(d) = Replies(c)

\* Going on trailing.
LEMMA TrailsOn ==
    ASSUME NEW c, NEW d, NEW e, Trails(c, d), Trails(d, e)
    PROVE  Trails(c, e)
BY DEF Trails, Begins

\* What was sent is the same, and so is the login.
LEMMA SameTrails ==
    ASSUME NEW c, NEW d, Replies(d) = Replies(c), d.login = c.login,
           d.peer = c.peer
    PROVE  Trails(c, d)
BY DEF Trails, Begins

\* A closed connection keeps its input and has no login (Close).
LEMMA CloseTrails ==
    ASSUME NEW c \in Connection, NEW d \in {Close(c), Fail(c)}
    PROVE  Trails(c, d) /\ ~d.login
<1>1. d.rx = <<>> /\ d.input = c.input /\ ~d.login
  BY DEF Close, Fail, NewSocket
<1>2. /\ c.input \in Seq(ServerPacket) /\ c.rx \in Seq(ServerPacket)
      /\ <<>> \in Seq(ServerPacket)
  BY TrafficFact
<1>3. Joins(Replies(d), c.input, <<>>) /\ Joins(Replies(c), c.input, c.rx)
  BY <1>1, <1>2, PacketsJoin, Zenon DEF Replies
<1>4. Len(<<>>) = 0 /\ Len(c.rx) \in Nat
  BY <1>2, LenProperties, EmptySeq
<1>5. Begins(Replies(d), Replies(c))
  BY <1>3, <1>4, ShorterBegins
<1> QED  BY <1>1, <1>5 DEF Trails

\* Nothing about what is to be read changes in a write or a flush.
LEMMA WriteTrails ==
    ASSUME NEW c \in Connection
    PROVE  /\ \A d \in FlushOutputs(c) : Trails(c, d) /\ (d.login => c.login)
           /\ \A packets \in Seq(ClientPacket) : \A d \in Writes(c, packets) :
                Trails(c, d) /\ (d.login => c.login)
<1>1. ASSUME NEW e \in Connection, NEW n \in 0 .. Len(e.output)
      PROVE  /\ Replies(Sends(e, n)) = Replies(e)
             /\ Sends(e, n).login = e.login /\ Sends(e, n).peer = e.peer
  BY DEF Sends, Connection, Replies
<1>2. ASSUME NEW e \in Connection, NEW d \in FlushOutputs(e)
      PROVE  Trails(e, d) /\ (d.login => e.login)
  <2>1. CASE d = Close(e)
    BY <2>1, CloseTrails
  <2>2. ASSUME NEW n \in 0 .. Len(e.output), d = Sends(e, n)
        PROVE  Trails(e, d) /\ (d.login => e.login)
    BY <1>1, <2>2, SameTrails
  <2> QED  BY <2>1, <2>2 DEF FlushOutputs
<1>3. ASSUME NEW packets \in Seq(ClientPacket), NEW d \in Writes(c, packets)
      PROVE  Trails(c, d) /\ (d.login => c.login)
  <2> DEFINE filled == [c EXCEPT !.output = c.output \o packets]
  <2>1. CASE d = c
    BY <2>1, SameTrails
  <2>2. CASE d \in FlushOutputs(filled)
    <3>1. c.output \o packets \in Seq(ClientPacket)
      BY ConcatProperties, TrafficFact
    <3>2. /\ filled \in Connection /\ Replies(filled) = Replies(c)
          /\ filled.login = c.login /\ filled.peer = c.peer
      BY <3>1 DEF Connection, Replies
    <3> HIDE DEF filled
    <3> QED  BY <1>2, <2>2, <3>2, SameTrails, TrailsOn
  <2> QED  BY <2>1, <2>2 DEF Writes
<1> QED  BY <1>2, <1>3

\* ReadInput: nothing is lost, unless the connection is.
LEMMA ReadTrails ==
    ASSUME NEW c \in Connection, NEW d \in ReadInputs(c)
    PROVE  Trails(c, d)
<1>1. PICK n \in 0 .. Len(c.rx) : d = Receives(c, n) \/ d = Close(Receives(c, n))
  <2>1. Len(c.rx) \in 0 .. Len(c.rx)
    BY LenProperties DEF Connection
  <2> QED  BY <2>1 DEF ReadInputs
<1> DEFINE e == Receives(c, n)
           taken == SubSeq(c.rx, 1, n)
           left == SubSeq(c.rx, n + 1, Len(c.rx))
<1>2. /\ e \in Connection /\ e.input = c.input \o taken /\ e.rx = left
      /\ e.login = c.login /\ e.peer = c.peer
  BY ReceivesFact DEF Receives, Connection
<1>3. /\ taken \in Seq(ServerPacket) /\ left \in Seq(ServerPacket)
      /\ taken \o left = c.rx /\ c.input \in Seq(ServerPacket)
  <2>1. c.rx \in Seq(ServerPacket)
    BY TrafficFact
  <2> QED  BY <2>1, CutFact, TrafficFact
<1>4. d = e \/ d = Close(e)
  BY <1>1
<1> HIDE DEF e, taken, left
<1>5. Replies(e) = Replies(c)
  <2>1. (c.input \o taken) \o left = c.input \o (taken \o left)
    BY <1>3, PacketsAssociate
  <2> QED  BY <1>2, <1>3, <2>1 DEF Replies
<1> QED  BY <1>2, <1>4, <1>5, SameTrails, CloseTrails, TrailsOn

\* Pump of a socket that is not connecting.
LEMMA PumpTrails ==
    ASSUME NEW c \in Connection, c.state # "CONNECTING", NEW d \in SocketPumps(c)
    PROVE  Trails(c, d)
<1>1. CASE d = c
  BY <1>1, SameTrails
<1>2. ASSUME NEW e \in FlushOutputs(c),
             d \in IF IsConnected(e) THEN ReadInputs(e) ELSE {e}
      PROVE  Trails(c, d)
  <2>1. e \in Connection /\ Trails(c, e)
    BY FlushOutputsFact, WriteTrails
  <2>2. d = e \/ d \in ReadInputs(e)
    BY <1>2
  <2> QED  BY <2>1, <2>2, ReadTrails, TrailsOn
<1> QED  BY <1>1, <1>2 DEF SocketPumps

\* The end of a connection at the other side.
LEMMA BreaksTrails ==
    ASSUME NEW c \in Connection, NEW n \in 0 .. Len(c.rx),
           NEW d \in {ServerCloses(c), NetworkBreaks(c, n)}
    PROVE  Trails(c, d) /\ (d.login => c.login)
<1> DEFINE come == SubSeq(c.rx, 1, n)
<1>1. /\ d.input = c.input /\ d.rx \in {c.rx, come} /\ d.peer # "open"
      /\ d.login = c.login
  BY DEF ServerCloses, NetworkBreaks, Connection
<1>2. /\ come \in Seq(ServerPacket) /\ Len(come) = n /\ Len(c.rx) \in Nat
      /\ \A i \in 1 .. n : come[i] = c.rx[i]
      /\ c.input \in Seq(ServerPacket) /\ c.rx \in Seq(ServerPacket)
  <2>1. c.rx \in Seq(ServerPacket)
    BY TrafficFact
  <2> QED  BY <2>1, CutFact, LenProperties, TrafficFact
<1> HIDE DEF come
<1>3. CASE d.rx = c.rx
  BY <1>1, <1>3 DEF Trails, Begins, Replies
<1>4. CASE d.rx = come
  <2>1. Joins(Replies(d), c.input, come) /\ Joins(Replies(c), c.input, c.rx)
    BY <1>1, <1>2, <1>4, PacketsJoin, Zenon DEF Replies
  <2>2. Begins(Replies(d), Replies(c))
    BY <1>2, <2>1, ShorterBegins
  <2> QED  BY <1>1, <2>2 DEF Trails
<1> QED  BY <1>1, <1>3, <1>4
=============================================================================
