---------------------------- MODULE NatsueFramer ----------------------------
(***************************************************************************)
(* How ProcessInput finds the packets in a stream of which any part may    *)
(* have arrived.  Elsewhere a packet counts as one item; here it is as     *)
(* many cells as its length, and the client has to know that length: from  *)
(* the type of most packets, from the further data they announce, and for  *)
(* a response from the transaction it answers.                             *)
(*                                                                         *)
(* What the packets do to a transaction or to the session is kept only as  *)
(* far as the framing depends on it.  A ticket is used once (Counters).    *)
(***************************************************************************)
EXTENDS Naturals, Sequences, Functions

CONSTANTS HeaderSize,      \* PACKET_HEADER_SIZE, in cells
          HandshakeSize,   \* the fixed part of a handshake response: 48
          CommandSize,     \* a client command: 36
          CircuitSize,     \* the fixed part of a virtual circuit packet: 44
          MaxFurther,      \* MAX_FURTHER_DATA
          Extras,          \* fixed parts a response can have
          Tickets,         \* tickets of transactions
          Packets,         \* what the server may send
          MaxCells         \* bound: cells under way

ASSUME FramerAssumption ==
    /\ HeaderSize \in Nat \ {0} /\ HandshakeSize \in Nat
    /\ CommandSize \in Nat /\ CircuitSize \in Nat
    /\ HeaderSize <= HandshakeSize
    /\ HeaderSize <= CommandSize /\ HeaderSize <= CircuitSize
    /\ MaxFurther \in Nat /\ MaxCells \in Nat
    /\ Extras \subseteq Nat

NoTicket == 0
Types == {"MESSAGE", "USER_ONLINE", "USER_OFFLINE", "HANDSHAKE_RESPONSE",
          "CLIENT_COMMAND", "VIRTUAL_CONNECT", "VIRTUAL_CIRCUIT",
          "ONLINE_CHANGE", "VIRTUAL_CIRCUIT_CLOSE", "MIGRATE"}
WithFurther == {"MESSAGE", "USER_ONLINE", "USER_OFFLINE"}

\* further is the length of the further data that the header announces, extra
\* that of what a response has between the two, or of what follows the fixed
\* part of a handshake response.  A ticket marks a response; that of the
\* handshake is never in the table and is left out.
ASSUME PacketAssumption ==
    /\ NoTicket \notin Tickets
    /\ Packets \subseteq [type : Types \cup {"other"}, extra : Nat, further : Nat,
                         ticket : Tickets \cup {NoTicket}]

VARIABLES table,      \* myTransactions: ticket -> framing and state
          owed,       \* requests the server has not answered yet
          fresh,      \* tickets not used yet
          stream,     \* cells from the head of the input to the last sent
          inputSize,  \* how many of them are in the input
          looping,    \* ProcessInput runs
          phase       \* whether there is no session, one begins, or is up

framerVars == <<table, owed, fresh, stream, inputSize, looping, phase>>

Waiting   == "waiting"
Done      == "done"
Abandoned == "abandoned"
Entries == [extra : Extras, state : {Waiting, Done, Abandoned}]

SizeByType(p) ==
    CASE p.type \in WithFurther          -> HeaderSize + p.further
      [] p.type = "HANDSHAKE_RESPONSE"   -> HandshakeSize + p.extra
      [] p.type = "CLIENT_COMMAND"       -> CommandSize
      [] p.type = "VIRTUAL_CONNECT"      -> CircuitSize
      [] p.type = "VIRTUAL_CIRCUIT"      -> CircuitSize + p.further
      [] OTHER                           -> HeaderSize

IsResponse(p) == p.ticket # NoTicket

\* The length with which the server sends it.
TrueSize(p) == IF IsResponse(p) THEN HeaderSize + p.extra + p.further
               ELSE SizeByType(p)

Cells(p) == [i \in 1 .. TrueSize(p) |-> [packet |-> p, index |-> i]]

FramerTypeOK ==
    /\ table \in [DOMAIN table -> Entries] /\ DOMAIN table \subseteq Tickets
    /\ owed \subseteq [ticket : Tickets, extra : Extras]
    /\ fresh \subseteq Tickets
    /\ stream \in Seq([packet : Packets, index : Nat \ {0}])
    /\ inputSize \in 0 .. Len(stream)
    /\ looping \in BOOLEAN /\ phase \in {"none", "login", "online"}

NoTransactions == [t \in {} |-> t]

Connected == phase # "none"

FramerInit ==
    /\ table = NoTransactions /\ owed = {} /\ fresh = Tickets
    /\ stream = <<>> /\ inputSize = 0
    /\ looping = FALSE /\ phase = "none"

-----------------------------------------------------------------------------
(* Between two runs of ProcessInput.                                       *)

\* A new session: BeginConnect clears the input, and nothing is owed on the
\* new connection.
Connect ==
    /\ ~looping /\ phase = "none"
    /\ phase' = "login"
    /\ stream' = <<>> /\ inputSize' = 0 /\ owed' = {}
    /\ UNCHANGED <<table, fresh, looping>>

\* StartTransaction, and the writing of the request.
StartRequest(t, extra) ==
    /\ ~looping /\ phase = "online" /\ t \in fresh
    /\ fresh' = fresh \ {t}
    /\ table' = [u \in DOMAIN table \cup {t} |->
                   IF u = t THEN [extra |-> extra, state |-> Waiting] ELSE table[u]]
    /\ owed' = owed \cup {[ticket |-> t, extra |-> extra]}
    /\ UNCHANGED <<stream, inputSize, looping, phase>>

\* PollTransaction of one that is done.
Collect(t) ==
    /\ ~looping /\ t \in DOMAIN table /\ table[t].state = Done
    /\ table' = Restrict(table, DOMAIN table \ {t})
    /\ UNCHANGED <<owed, fresh, stream, inputSize, looping, phase>>

\* Mutant of Abandon: what nobody waits for is forgotten.
AbandonForgets(t) ==
    /\ ~looping /\ t \in DOMAIN table /\ table[t].state = Waiting
    /\ table' = Restrict(table, DOMAIN table \ {t})
    /\ UNCHANGED <<owed, fresh, stream, inputSize, looping, phase>>

\* AbandonTransaction of one whose response is still owed.
Abandon(t) ==
    /\ ~looping /\ t \in DOMAIN table /\ table[t].state = Waiting
    /\ table' = [table EXCEPT ![t].state = Abandoned]
    /\ UNCHANGED <<owed, fresh, stream, inputSize, looping, phase>>

\* Disconnect or ConnectionLost, while no packet is handled.
SessionIsLost ==
    /\ ~looping /\ Connected
    /\ phase' = "none" /\ table' = NoTransactions /\ owed' = {}
    /\ stream' = SubSeq(stream, 1, inputSize)
    /\ UNCHANGED <<fresh, inputSize, looping>>

\* Pump: some of what is under way is received, then ProcessInput begins.
PumpCells(n) ==
    /\ ~looping /\ Connected
    /\ n \in inputSize .. Len(stream)
    /\ inputSize' = n /\ looping' = TRUE
    /\ UNCHANGED <<table, owed, fresh, stream, phase>>

-----------------------------------------------------------------------------
(* The server.                                                             *)

SendCells(p) ==
    /\ Len(stream) + TrueSize(p) <= MaxCells
    /\ stream' = stream \o Cells(p)
    /\ UNCHANGED <<table, fresh, inputSize, looping, phase>>

\* The type of a response is not reliable.
ServerAnswers(p) ==
    /\ Connected /\ p \in Packets
    /\ [ticket |-> p.ticket, extra |-> p.extra] \in owed
    /\ owed' = owed \ {[ticket |-> p.ticket, extra |-> p.extra]}
    /\ SendCells(p)

ServerNotifies(p) ==
    /\ Connected /\ p \in Packets /\ p.ticket = NoTicket
    /\ SendCells(p)
    /\ UNCHANGED owed

-----------------------------------------------------------------------------
(* One round of the loop in ProcessInput.                                  *)

\* The header is read from the head of the input, whatever that is.
AtHead == stream[1].packet
IsKnown(p) == p.ticket \in DOMAIN table
IsBerserk(p) ==
    \/ p.further > MaxFurther
    \/ /\ ~IsKnown(p) /\ p.type = "HANDSHAKE_RESPONSE"
       /\ inputSize >= HandshakeSize /\ p.extra > MaxFurther
IsUnknownType(p) == ~IsKnown(p) /\ p.type \notin Types

HeaderHere == inputSize >= HeaderSize

SizeExpected(p) ==
    IF IsKnown(p) THEN HeaderSize + table[p.ticket].extra + p.further
    ELSE SizeByType(p)

\* Mutant of IsWhole: a packet that ends the input is taken for unfinished.
IsWholeAndMore(p) ==
    /\ ~IsKnown(p) /\ p.type = "HANDSHAKE_RESPONSE" => inputSize >= HandshakeSize
    /\ inputSize > SizeExpected(p)

\* A handshake response shows how long it is only when its fixed part is here.
IsWhole(p) ==
    /\ ~IsKnown(p) /\ p.type = "HANDSHAKE_RESPONSE" => inputSize >= HandshakeSize
    /\ inputSize >= SizeExpected(p)

LosesConnection ==
    /\ phase' = "none" /\ table' = NoTransactions /\ owed' = {}
    /\ stream' = SubSeq(stream, 1, inputSize)
    /\ looping' = FALSE
    /\ UNCHANGED <<fresh, inputSize>>

WaitForMore ==
    /\ looping
    /\ HeaderHere =>
         ~IsBerserk(AtHead) /\ ~IsUnknownType(AtHead) /\ ~IsWhole(AtHead)
    /\ looping' = FALSE
    /\ UNCHANGED <<table, owed, fresh, stream, inputSize, phase>>

GiveUpOnStream ==
    /\ looping /\ HeaderHere
    /\ IsBerserk(AtHead) \/ IsUnknownType(AtHead)
    /\ LosesConnection

Framed == looping /\ HeaderHere /\ ~IsBerserk(AtHead)
            /\ ~IsUnknownType(AtHead) /\ IsWhole(AtHead)

\* Mutants of ConsumeInputCells: the input is cleared with a packet; its size
\* stays as it was.
ConsumeAllCells(n) ==
    /\ stream' = SubSeq(stream, inputSize + 1, Len(stream))
    /\ inputSize' = 0

ConsumeUncounted(n) ==
    stream' = SubSeq(stream, n + 1, Len(stream)) /\ UNCHANGED inputSize

\* ConsumeInput.
ConsumeInputCells(n) ==
    /\ stream' = SubSeq(stream, n + 1, Len(stream))
    /\ inputSize' = inputSize - n

\* HandleTransactionResponse; an abandoned one is forgotten with its response.
TakeResponse ==
    /\ Framed /\ IsKnown(AtHead)
    /\ ConsumeInputCells(SizeExpected(AtHead))
    /\ table' = IF table[AtHead.ticket].state = Abandoned
                THEN Restrict(table, DOMAIN table \ {AtHead.ticket})
                ELSE [table EXCEPT ![AtHead.ticket].state = Done]
    /\ UNCHANGED <<owed, fresh, looping, phase>>

\* HandleHandshakeResponse of a refusal closes the socket; the loop goes on
\* with the refusal, which is consumed, and with the rest of the input.
RefuseLogin ==
    /\ Framed /\ ~IsKnown(AtHead) /\ AtHead.type = "HANDSHAKE_RESPONSE"
    /\ phase = "login"
    /\ phase' = "none" /\ owed' = {}
    /\ stream' = SubSeq(stream, 1, inputSize)
    /\ UNCHANGED <<table, fresh, inputSize, looping>>

\* HandleHandshakeResponse or HandlePacket.  A virtual circuit can be accepted
\* only while there is a connection.
TakePacket ==
    /\ Framed /\ ~IsKnown(AtHead)
    /\ AtHead.type = "VIRTUAL_CONNECT" => Connected
    /\ ConsumeInputCells(SizeExpected(AtHead))
    /\ phase' = IF AtHead.type = "HANDSHAKE_RESPONSE" /\ phase = "login"
                THEN "online" ELSE phase
    /\ UNCHANGED <<table, owed, fresh, looping>>

\* The acceptance of a virtual circuit cannot be written: the packet is not
\* consumed.
LoseItAccepting ==
    /\ Framed /\ ~IsKnown(AtHead) /\ AtHead.type = "VIRTUAL_CONNECT"
    /\ LosesConnection

FramerNext ==
    \/ Connect \/ SessionIsLost
    \/ \E t \in Tickets, extra \in Extras : StartRequest(t, extra)
    \/ \E t \in Tickets : Collect(t) \/ Abandon(t)
    \/ \E n \in 0 .. MaxCells : PumpCells(n)
    \/ \E p \in Packets : ServerAnswers(p) \/ ServerNotifies(p)
    \/ WaitForMore \/ GiveUpOnStream
    \/ TakeResponse \/ TakePacket \/ RefuseLogin \/ LoseItAccepting

FramerSpec == FramerInit /\ [][FramerNext]_framerVars

-----------------------------------------------------------------------------
\* ProcessInput always looks for a header where a packet begins, although it
\* takes the length of a response from its own table: a transaction nobody
\* waits for any more stays there until its response came (AbandonTransaction,
\* ProcessInput).
Aligned == stream # <<>> => stream[1].index = 1

\* ProcessInput does not return to wait while a whole packet is here: the
\* server may not send another for long (ProcessInput).
WaitsOnlyForMore ==
    ~looping /\ Connected /\ stream # <<>> => inputSize < TrueSize(AtHead)

\* The packets that end in a stretch of the stream.
IsLastCell(c) == c.index = TrueSize(c.packet)
Ended(s) ==
    LET upTo[i \in 0 .. Len(s)] ==
          IF i = 0 THEN <<>>
          ELSE IF IsLastCell(s[i]) THEN Append(upTo[i - 1], s[i].packet)
          ELSE upTo[i - 1]
    IN  upTo[Len(s)]

\* The packets all of whose cells have been sent and not been consumed.
UnderWay == Ended(stream)

FramerPipe == INSTANCE BytePipe WITH
    ClientItem <- {}, ServerItem <- Packets,
    up <- Connected, toServer <- <<>>, toClient <- UnderWay

\* Cells and lengths aside, packets come out of ProcessInput one at a time, as
\* they were sent, each once and in order; this is how the other modules see
\* the stream (ProcessInput, ConsumeInput).
FramesPackets == FramerPipe!Spec
=============================================================================
