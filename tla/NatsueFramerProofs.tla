------------------------- MODULE NatsueFramerProofs -------------------------
(***************************************************************************)
(* What is proved of the framing, for any packets, lengths, transactions   *)
(* and any way the stream arrives in parts.  ProcessInput stays aligned    *)
(* because the table knows the length of every response that may still     *)
(* come: Answering says how the table, the requests not answered yet and   *)
(* the responses in the stream fit together.  Ordered says that the cells  *)
(* of a packet stay together, which makes the packets of the stream those  *)
(* whose last cell is in it, and the framer a pipe of packets.             *)
(***************************************************************************)
EXTENDS NatsueFramer, SequenceProofs

Cell == [packet : Packets, index : Nat \ {0}]

-----------------------------------------------------------------------------
(* Lengths.                                                                *)

LEMMA PacketFact ==
    ASSUME NEW p \in Packets
    PROVE  /\ p.extra \in Nat /\ p.further \in Nat
           /\ p.ticket \in Tickets \cup {NoTicket}
           /\ p.type \in Types \cup {"other"}
BY PacketAssumption

\* No packet is shorter than its header.
LEMMA SizeFact ==
    ASSUME NEW p \in Packets
    PROVE  /\ SizeByType(p) \in Nat /\ SizeByType(p) >= HeaderSize
           /\ TrueSize(p) \in Nat /\ TrueSize(p) >= HeaderSize /\ TrueSize(p) >= 1
           /\ HeaderSize \in Nat /\ HeaderSize >= 1
           /\ ~IsResponse(p) =>
                /\ TrueSize(p) = SizeByType(p)
                /\ p.type = "HANDSHAKE_RESPONSE" => HandshakeSize <= TrueSize(p)
<1>1. p.extra \in Nat /\ p.further \in Nat
  BY PacketFact
<1>2. SizeByType(p) \in Nat /\ SizeByType(p) >= HeaderSize
  BY <1>1, FramerAssumption DEF SizeByType
<1>3. p.type = "HANDSHAKE_RESPONSE" => SizeByType(p) = HandshakeSize + p.extra
  BY DEF SizeByType, WithFurther
<1> QED  BY <1>1, <1>2, <1>3, FramerAssumption DEF TrueSize

\* The cells of a stream.
LEMMA CellFact ==
    ASSUME NEW s \in Seq(Cell), NEW i \in DOMAIN s
    PROVE  /\ s[i].packet \in Packets /\ s[i].index \in Nat \ {0}
           /\ i \in Nat /\ i >= 1 /\ i <= Len(s)
           /\ TrueSize(s[i].packet) \in Nat /\ TrueSize(s[i].packet) >= 1
<1>1. s[i] \in Cell
  OBVIOUS
<1>2. s[i].packet \in Packets /\ s[i].index \in Nat \ {0}
  BY <1>1 DEF Cell
<1> QED  BY <1>2, SizeFact

-----------------------------------------------------------------------------
(* Where packets begin.                                                    *)

\* The stream begins with a packet, and so does what follows a packet.
WellCut(s) ==
    /\ s # <<>> => s[1].index = 1
    /\ \A i \in DOMAIN s :
         s[i].index = 1 /\ i + TrueSize(s[i].packet) \in DOMAIN s =>
           s[i + TrueSize(s[i].packet)].index = 1

\* Every packet that has begun is in the stream with all of its cells.
Complete(s) ==
    \A i \in DOMAIN s : s[i].index = 1 => i + TrueSize(s[i].packet) <= Len(s) + 1

\* A connection that is lost takes a tail of the stream with it.
LEMMA PrefixFact ==
    ASSUME NEW s \in Seq(Cell), WellCut(s), NEW n \in 0 .. Len(s)
    PROVE  /\ SubSeq(s, 1, n) \in Seq(Cell) /\ Len(SubSeq(s, 1, n)) = n
           /\ \A i \in DOMAIN SubSeq(s, 1, n) :
                i \in DOMAIN s /\ SubSeq(s, 1, n)[i] = s[i]
           /\ WellCut(SubSeq(s, 1, n))
<1> DEFINE r == SubSeq(s, 1, n)
<1>1. r \in Seq(Cell) /\ Len(r) = n /\ DOMAIN r = 1 .. n
  OBVIOUS
<1>2. \A i \in DOMAIN r : i \in DOMAIN s /\ r[i] = s[i]
  BY <1>1
<1>3. WellCut(r)
  <2>1. r # <<>> => r[1].index = 1
    BY <1>1, <1>2 DEF WellCut
  <2>2. ASSUME NEW i \in DOMAIN r, r[i].index = 1, i + TrueSize(r[i].packet) \in DOMAIN r
        PROVE  r[i + TrueSize(r[i].packet)].index = 1
    BY <1>2, <2>2 DEF WellCut
  <2> HIDE DEF r
  <2> QED  BY <2>1, <2>2 DEF WellCut
<1> QED  BY <1>1, <1>2, <1>3

\* What is left when n cells are consumed.
LEMMA RestFact ==
    ASSUME NEW s \in Seq(Cell), NEW n \in 0 .. Len(s)
    PROVE  LET r == SubSeq(s, n + 1, Len(s))
           IN  /\ r \in Seq(Cell) /\ Len(r) = Len(s) - n
               /\ \A i \in DOMAIN r : i + n \in DOMAIN s /\ r[i] = s[i + n]
               /\ Complete(s) => Complete(r)
<1> DEFINE r == SubSeq(s, n + 1, Len(s))
<1>1. r \in Seq(Cell) /\ Len(r) = Len(s) - n /\ DOMAIN r = 1 .. (Len(s) - n)
  OBVIOUS
<1>2. \A i \in DOMAIN r : i + n \in DOMAIN s /\ r[i] = s[i + n]
  <2>1. \A i \in 1 .. Len(s) - (n + 1) + 1 : r[i] = s[(n + 1) + i - 1]
    BY SubSeqProperties
  <2> HIDE DEF r
  <2> QED  BY <1>1, <2>1
<1> HIDE DEF r
<1>3. ASSUME Complete(s) PROVE Complete(r)
  <2>1. ASSUME NEW i \in DOMAIN r, r[i].index = 1
        PROVE  i + TrueSize(r[i].packet) <= Len(r) + 1
    <3>1. TrueSize(r[i].packet) \in Nat /\ i \in Nat
      BY <1>1, CellFact
    <3>2. (i + n) + TrueSize(r[i].packet) <= Len(s) + 1
      BY <1>2, <1>3, <2>1 DEF Complete
    <3> QED  BY <1>1, <3>1, <3>2
  <2> QED  BY <2>1 DEF Complete
<1> QED  BY <1>1, <1>2, <1>3 DEF r

\* A packet consumed with its true length leaves the next one at the head.
LEMMA ConsumeFact ==
    ASSUME NEW s \in Seq(Cell), WellCut(s), s # <<>>,
           TrueSize(s[1].packet) \in 0 .. Len(s)
    PROVE  WellCut(SubSeq(s, TrueSize(s[1].packet) + 1, Len(s)))
<1> DEFINE n == TrueSize(s[1].packet)
           r == SubSeq(s, n + 1, Len(s))
<1>1. /\ n \in 0 .. Len(s) /\ 1 \in DOMAIN s /\ s[1].index = 1
  BY DEF WellCut
<1>2. /\ r \in Seq(Cell) /\ Len(r) = Len(s) - n /\ DOMAIN r = 1 .. Len(r)
      /\ \A i \in DOMAIN r : i + n \in DOMAIN s /\ r[i] = s[i + n]
  BY <1>1, RestFact
<1>3. r # <<>> => r[1].index = 1
  <2>1. r # <<>> => 1 \in DOMAIN r
    BY <1>2
  <2>2. 1 \in DOMAIN r => 1 + n \in DOMAIN s /\ r[1] = s[1 + n]
    BY <1>2
  <2> QED  BY <1>1, <2>1, <2>2 DEF WellCut
<1>4. ASSUME NEW i \in DOMAIN r, r[i].index = 1, i + TrueSize(r[i].packet) \in DOMAIN r
      PROVE  r[i + TrueSize(r[i].packet)].index = 1
  <2> DEFINE k == TrueSize(r[i].packet)
  <2>1. k \in Nat
    BY <1>2, CellFact
  <2>2. i + n \in DOMAIN s /\ r[i] = s[i + n] /\ (i + k) + n \in DOMAIN s
        /\ r[i + k] = s[(i + k) + n]
    BY <1>2, <1>4
  <2>3. (i + k) + n = (i + n) + k
    BY <1>1, <1>2, <2>1
  <2> HIDE DEF k
  <2>4. s[i + n].index = 1 /\ TrueSize(s[i + n].packet) = k /\ (i + n) + k \in DOMAIN s
    BY <1>4, <2>2, <2>3 DEF k
  <2>5. s[(i + n) + k].index = 1
    BY <2>2, <2>4 DEF WellCut
  <2>6. r[i + k].index = 1
    BY <2>2, <2>3, <2>5
  <2> QED  BY <2>6 DEF k
<1> HIDE DEF r
<1> QED  BY <1>3, <1>4 DEF WellCut, r

\* The server sends whole packets.
LEMMA SendFact ==
    ASSUME NEW s \in Seq(Cell), WellCut(s), Complete(s), NEW p \in Packets
    PROVE  LET t == s \o Cells(p)
           IN  /\ t \in Seq(Cell) /\ Len(t) = Len(s) + TrueSize(p)
               /\ \A i \in DOMAIN s : i \in DOMAIN t /\ t[i] = s[i]
               /\ \A i \in DOMAIN t : t[i].index = 1 /\ i \notin DOMAIN s =>
                    i = Len(s) + 1 /\ t[i].packet = p
               /\ t # <<>> /\ (s = <<>> => t[1].packet = p)
               /\ WellCut(t) /\ Complete(t)
<1> DEFINE t == s \o Cells(p)
<1>1. TrueSize(p) \in Nat /\ TrueSize(p) >= 1
  BY SizeFact
<1>2. /\ Cells(p) \in Seq(Cell) /\ Len(Cells(p)) = TrueSize(p)
      /\ \A k \in 1 .. TrueSize(p) : Cells(p)[k].packet = p /\ Cells(p)[k].index = k
  <2>1. \A k \in 1 .. TrueSize(p) : [packet |-> p, index |-> k] \in Cell
    BY DEF Cell
  <2>2. Cells(p) = [k \in 1 .. TrueSize(p) |-> [packet |-> p, index |-> k]]
    BY DEF Cells
  <2>3. Cells(p) \in [1 .. TrueSize(p) -> Cell]
    BY <2>1, <2>2
  <2>4. Cells(p) \in Seq(Cell) /\ Len(Cells(p)) = TrueSize(p)
    BY <1>1, <2>3
  <2>5. \A k \in 1 .. TrueSize(p) : Cells(p)[k].packet = p /\ Cells(p)[k].index = k
    BY <2>2
  <2> QED  BY <2>4, <2>5
<1>3. /\ t \in Seq(Cell) /\ Len(t) = Len(s) + TrueSize(p)
      /\ DOMAIN t = 1 .. (Len(s) + TrueSize(p)) /\ Len(s) \in Nat
      /\ \A i \in 1 .. Len(s) : t[i] = s[i]
      /\ \A k \in 1 .. TrueSize(p) : t[Len(s) + k] = Cells(p)[k]
  BY <1>1, <1>2
<1>4. \A i \in DOMAIN s : i \in DOMAIN t /\ t[i] = s[i]
  BY <1>1, <1>3
<1>5. ASSUME NEW i \in DOMAIN t, i \notin DOMAIN s
      PROVE  t[i].packet = p /\ t[i].index = i - Len(s)
  <2>1. i - Len(s) \in 1 .. TrueSize(p) /\ Len(s) + (i - Len(s)) = i
    BY <1>1, <1>3, <1>5
  <2>2. t[i] = Cells(p)[i - Len(s)]
    BY <1>3, <2>1
  <2> QED  BY <1>2, <2>1, <2>2
<1>6. Len(s) + 1 \in DOMAIN t /\ t[Len(s) + 1].index = 1 /\ t[Len(s) + 1].packet = p
  <2>1. Len(s) + 1 \in DOMAIN t /\ Len(s) + 1 \notin DOMAIN s
    BY <1>1, <1>3
  <2> QED  BY <1>3, <1>5, <2>1
<1>7. \A i \in DOMAIN t : t[i].index = 1 /\ i \notin DOMAIN s =>
        i = Len(s) + 1 /\ t[i].packet = p
  BY <1>3, <1>5
<1>8. Complete(t)
  <2>1. ASSUME NEW i \in DOMAIN t, t[i].index = 1
        PROVE  i + TrueSize(t[i].packet) <= Len(t) + 1
    <3>1. CASE i \in DOMAIN s
      <4>1. t[i] = s[i] /\ i + TrueSize(s[i].packet) <= Len(s) + 1
        BY <1>4, <2>1, <3>1 DEF Complete
      <4>2. TrueSize(s[i].packet) \in Nat /\ i \in Nat
        BY <3>1, CellFact
      <4> QED  BY <1>1, <1>3, <4>1, <4>2
    <3>2. CASE i \notin DOMAIN s
      <4>1. i = Len(s) + 1 /\ t[i].packet = p
        BY <1>7, <2>1, <3>2
      <4> QED  BY <1>1, <1>3, <4>1
    <3> QED  BY <3>1, <3>2
  <2> HIDE DEF t
  <2> QED  BY <2>1 DEF Complete
<1>9. WellCut(t)
  <2>1. t[1].index = 1
    <3>1. CASE s = <<>>
      BY <1>6, <3>1
    <3>2. CASE s # <<>>
      <4>1. 1 \in DOMAIN s
        BY <3>2
      <4> QED  BY <1>4, <3>2, <4>1 DEF WellCut
    <3> QED  BY <3>1, <3>2
  <2>2. ASSUME NEW i \in DOMAIN t, t[i].index = 1, i + TrueSize(t[i].packet) \in DOMAIN t
        PROVE  t[i + TrueSize(t[i].packet)].index = 1
    <3>1. CASE i \in DOMAIN s
      <4> DEFINE k == i + TrueSize(s[i].packet)
      <4>1. t[i] = s[i] /\ k <= Len(s) + 1
        BY <1>4, <2>2, <3>1 DEF Complete
      <4>2. TrueSize(s[i].packet) \in Nat /\ i \in Nat /\ i >= 1
        BY <3>1, CellFact
      <4>3. k \in DOMAIN s \/ k = Len(s) + 1
        BY <1>3, <4>1, <4>2
      <4>4. k \in DOMAIN s => t[k].index = 1
        BY <1>4, <2>2, <3>1, <4>1 DEF WellCut
      <4> QED  BY <1>6, <4>1, <4>3, <4>4
    <3>2. CASE i \notin DOMAIN s
      <4>1. i = Len(s) + 1 /\ t[i].packet = p
        BY <1>7, <2>2, <3>2
      <4>2. i + TrueSize(p) \notin DOMAIN t
        BY <1>1, <1>3, <4>1
      <4> QED  BY <2>2, <4>1, <4>2
    <3> QED  BY <3>1, <3>2
  <2> HIDE DEF t
  <2> QED  BY <2>1, <2>2 DEF WellCut
<1>10. t # <<>> /\ (s = <<>> => t[1].packet = p)
  BY <1>3, <1>6
<1> QED  BY <1>3, <1>4, <1>7, <1>8, <1>9, <1>10

-----------------------------------------------------------------------------
(* The invariant.                                                          *)

\* The table knows the length of a response that may still come.
Awaits(t, extra) ==
    t \in DOMAIN table /\ table[t].extra = extra /\ table[t].state # Done

\* A response begins at the i-th cell.
ResponseAt(i) == stream[i].index = 1 /\ IsResponse(stream[i].packet)

\* The response there is the only one with its ticket, and is awaited.
OneAwaited(i, ticket, extra) ==
    /\ Awaits(ticket, extra) /\ ticket \notin fresh
    /\ \A o \in owed : o.ticket # ticket
    /\ \A j \in DOMAIN stream : ResponseAt(j) /\ i # j =>
         stream[j].packet.ticket # ticket

\* Every response that may come is awaited, only once, and its ticket is used.
Answering ==
    /\ \A i \in DOMAIN stream : ResponseAt(i) =>
         OneAwaited(i, stream[i].packet.ticket, stream[i].packet.extra)
    /\ \A o \in owed : Awaits(o.ticket, o.extra) /\ o.ticket \notin fresh
    /\ \A o \in owed, q \in owed : o # q => o.ticket # q.ticket

FramerInv ==
    /\ FramerTypeOK
    /\ WellCut(stream)
    /\ Connected => Complete(stream)
    /\ ~Connected => owed = {}
    /\ fresh \cap DOMAIN table = {}
    /\ Connected \/ looping => Answering

\* While the loop runs the length it expects is the length that was sent, and a
\* packet that is not in the table is not a response.
LEMMA HeadFact ==
    ASSUME FramerInv, looping, HeaderHere
    PROVE  /\ stream # <<>> /\ AtHead \in Packets /\ stream[1].index = 1
           /\ SizeExpected(AtHead) = TrueSize(AtHead)
           /\ IsKnown(AtHead) <=> IsResponse(AtHead)
<1>1. stream # <<>> /\ 1 \in DOMAIN stream /\ stream[1].index = 1
  BY FramerAssumption DEF FramerInv, FramerTypeOK, HeaderHere, WellCut
<1>2. AtHead \in Packets
  <2>1. stream \in Seq(Cell)
    BY DEF FramerInv, FramerTypeOK, Cell
  <2> QED  BY <1>1, <2>1, CellFact DEF AtHead
<1>3. IsResponse(AtHead) => Awaits(AtHead.ticket, AtHead.extra)
  BY <1>1 DEF FramerInv, Answering, OneAwaited, ResponseAt, AtHead
<1>4. IsKnown(AtHead) => IsResponse(AtHead)
  BY <1>2, PacketAssumption DEF IsKnown, IsResponse, FramerInv, FramerTypeOK
<1> QED  BY <1>1, <1>2, <1>3, <1>4 DEF IsKnown, Awaits, SizeExpected, TrueSize

\* A packet with which the loop goes on is here with all of its cells.
LEMMA FramedFact ==
    ASSUME FramerInv, Framed
    PROVE  /\ stream # <<>> /\ AtHead \in Packets /\ stream[1].index = 1
           /\ SizeExpected(AtHead) = TrueSize(AtHead)
           /\ IsKnown(AtHead) <=> IsResponse(AtHead)
           /\ TrueSize(AtHead) \in 1 .. inputSize
           /\ inputSize \in 0 .. Len(stream) /\ Len(stream) \in Nat
<1>1. looping /\ HeaderHere /\ IsWhole(AtHead)
  BY DEF Framed
<1>2. inputSize \in 0 .. Len(stream) /\ Len(stream) \in Nat
  BY DEF FramerInv, FramerTypeOK
<1>3. TrueSize(AtHead) \in Nat /\ TrueSize(AtHead) >= 1
  BY <1>1, HeadFact, SizeFact
<1> QED  BY <1>1, <1>2, <1>3, HeadFact DEF IsWhole

LEMMA NoTransactionsFact ==
    /\ DOMAIN NoTransactions = {}
    /\ NoTransactions \in [DOMAIN NoTransactions -> Entries]
BY DEF NoTransactions

LEMMA FramerInvInit == FramerInit => FramerInv
<1> SUFFICES ASSUME FramerInit PROVE FramerInv
  OBVIOUS
<1>1. stream = <<>> /\ inputSize = 0 /\ owed = {} /\ fresh = Tickets
      /\ table = NoTransactions /\ looping = FALSE /\ phase = "none"
  BY DEF FramerInit
<1>2. stream \in Seq(Cell) /\ Len(stream) = 0 /\ DOMAIN stream = {}
  BY <1>1
<1>3. FramerTypeOK
  <2>1. table \in [DOMAIN table -> Entries] /\ DOMAIN table \subseteq Tickets
    BY <1>1, NoTransactionsFact
  <2>2. stream \in Seq([packet : Packets, index : Nat \ {0}])
    BY <1>2 DEF Cell
  <2>3. inputSize \in 0 .. Len(stream)
    BY <1>1, <1>2
  <2>4. /\ owed \subseteq [ticket : Tickets, extra : Extras] /\ fresh \subseteq Tickets
        /\ looping \in BOOLEAN /\ phase \in {"none", "login", "online"}
    BY <1>1
  <2> QED  BY <2>1, <2>2, <2>3, <2>4 DEF FramerTypeOK
<1>4. WellCut(stream)
  BY <1>1, <1>2 DEF WellCut
<1> QED  BY <1>1, <1>3, <1>4, NoTransactionsFact DEF FramerInv, Connected

\* What the steps that lose the connection have in common.
LEMMA LosingKeepsInv ==
    ASSUME FramerInv, phase' = "none", owed' = {},
           table' = NoTransactions \/ (UNCHANGED table /\ looping),
           stream' = SubSeq(stream, 1, inputSize),
           looping' \in BOOLEAN, looping' => looping /\ UNCHANGED table,
           UNCHANGED <<fresh, inputSize>>
    PROVE  FramerInv'
<1>1. stream \in Seq(Cell) /\ WellCut(stream) /\ inputSize \in 0 .. Len(stream)
  BY DEF FramerInv, FramerTypeOK, Cell
<1>2. /\ stream' \in Seq(Cell) /\ Len(stream') = inputSize
      /\ \A i \in DOMAIN stream' : i \in DOMAIN stream /\ stream'[i] = stream[i]
      /\ WellCut(stream')
  BY <1>1, PrefixFact
<1>3. FramerTypeOK'
  <2>1. table' \in [DOMAIN table' -> Entries] /\ DOMAIN table' \subseteq Tickets
    <3>1. CASE table' = NoTransactions
      BY <3>1, NoTransactionsFact
    <3>2. CASE UNCHANGED table
      BY <3>2 DEF FramerInv, FramerTypeOK
    <3> QED  BY <3>1, <3>2
  <2>2. stream' \in Seq([packet : Packets, index : Nat \ {0}])
    BY <1>2 DEF Cell
  <2>3. inputSize' \in 0 .. Len(stream')
    BY <1>1, <1>2
  <2>4. owed' \subseteq [ticket : Tickets, extra : Extras] /\ fresh' \subseteq Tickets
    BY DEF FramerInv, FramerTypeOK
  <2> QED  BY <2>1, <2>2, <2>3, <2>4 DEF FramerTypeOK
<1>4. ~Connected' /\ fresh' \cap DOMAIN table' = {} /\ WellCut(stream)'
  <2>1. fresh' \cap DOMAIN table' = {}
    BY NoTransactionsFact DEF FramerInv
  <2>2. WellCut(stream)'
    BY <1>2 DEF WellCut
  <2> QED  BY <2>1, <2>2 DEF Connected
<1>5. ASSUME looping' PROVE Answering'
  <2>1. Answering /\ UNCHANGED table
    BY <1>5 DEF FramerInv
  <2> QED  BY <1>2, <2>1 DEF Answering, OneAwaited, ResponseAt, Awaits
<1> QED  BY <1>3, <1>4, <1>5 DEF FramerInv

\* What the steps that consume the packet at the head have in common: a
\* response goes with its entry, or its entry is done.
LEMMA ConsumingKeepsInv ==
    ASSUME FramerInv, Framed, ConsumeInputCells(SizeExpected(AtHead)),
           UNCHANGED <<owed, fresh, looping>>,
           phase' \in {"none", "login", "online"}, Connected' <=> Connected,
           table' \in [DOMAIN table' -> Entries], DOMAIN table' \subseteq DOMAIN table,
           \A t \in DOMAIN table : (IsKnown(AtHead) /\ t = AtHead.ticket)
              \/ (t \in DOMAIN table' /\ table'[t] = table[t])
    PROVE  FramerInv'
<1> DEFINE n == TrueSize(stream[1].packet)
<1>1. /\ stream \in Seq(Cell) /\ WellCut(stream) /\ inputSize \in 0 .. Len(stream)
      /\ n \in 1 .. inputSize /\ n \in 0 .. Len(stream) /\ stream # <<>>
      /\ stream[1].index = 1 /\ 1 \in DOMAIN stream
      /\ Len(stream) \in Nat
  BY FramedFact DEF FramerInv, FramerTypeOK, Cell, AtHead
<1>2. stream' = SubSeq(stream, n + 1, Len(stream)) /\ inputSize' = inputSize - n
  BY FramedFact DEF ConsumeInputCells, AtHead
<1>3. /\ stream' \in Seq(Cell) /\ Len(stream') = Len(stream) - n
      /\ \A i \in DOMAIN stream' : i + n \in DOMAIN stream /\ stream'[i] = stream[i + n]
      /\ Complete(stream) => Complete(stream')
      /\ WellCut(stream')
  BY <1>1, <1>2, RestFact, ConsumeFact
<1>4. FramerTypeOK'
  <2>1. stream' \in Seq([packet : Packets, index : Nat \ {0}])
    BY <1>3 DEF Cell
  <2>2. inputSize' \in 0 .. Len(stream')
    BY <1>1, <1>2, <1>3
  <2>3. DOMAIN table' \subseteq Tickets /\ owed' \subseteq [ticket : Tickets, extra : Extras]
        /\ fresh' \subseteq Tickets /\ looping' \in BOOLEAN
    BY DEF FramerInv, FramerTypeOK
  <2> QED  BY <2>1, <2>2, <2>3 DEF FramerTypeOK
<1>5. /\ WellCut(stream)' /\ (Connected' => Complete(stream)')
      /\ (~Connected' => owed' = {}) /\ fresh' \cap DOMAIN table' = {}
  BY <1>3 DEF FramerInv, WellCut, Complete
<1>6. Answering'
  <2>1. Answering
    BY DEF FramerInv, Framed
  <2>2. ASSUME NEW t, NEW x, Awaits(t, x), IsKnown(AtHead) => t # AtHead.ticket
        PROVE  Awaits(t, x)'
    BY <2>2 DEF Awaits
  <2>3. IsKnown(AtHead) => ResponseAt(1)
    BY <1>1, FramedFact DEF ResponseAt, AtHead
  <2>4. ASSUME NEW i \in DOMAIN stream', ResponseAt(i)'
        PROVE  /\ ResponseAt(i + n) /\ i + n \in DOMAIN stream /\ i + n # 1
               /\ stream'[i] = stream[i + n]
               /\ IsKnown(AtHead) => stream[i + n].packet.ticket # AtHead.ticket
    <3>1. ResponseAt(i + n) /\ i + n \in DOMAIN stream /\ stream'[i] = stream[i + n]
      BY <1>3, <2>4 DEF ResponseAt
    <3>2. i + n # 1
      BY <1>1, <1>3
    <3> HIDE DEF n
    <3> QED  BY <1>1, <2>1, <2>3, <3>1, <3>2 DEF Answering, OneAwaited, AtHead
  <2>5. ASSUME NEW o \in owed PROVE Awaits(o.ticket, o.extra)'
    <3>1. IsKnown(AtHead) => o.ticket # AtHead.ticket
      BY <1>1, <2>1, <2>3 DEF Answering, OneAwaited, AtHead
    <3> QED  BY <2>1, <2>2, <3>1 DEF Answering
  <2>6. ASSUME NEW i \in DOMAIN stream', ResponseAt(i)',
               NEW t, t = stream'[i].packet.ticket, NEW x, x = stream'[i].packet.extra
        PROVE  OneAwaited(i, t, x)'
    <3>1. /\ OneAwaited(i + n, t, x)
          /\ IsKnown(AtHead) => t # AtHead.ticket
      BY <2>1, <2>4, <2>6 DEF Answering
    <3>2. Awaits(t, x)'
      BY <2>2, <3>1 DEF OneAwaited
    <3>3. ASSUME NEW j \in DOMAIN stream', ResponseAt(j)', i # j
          PROVE  stream'[j].packet.ticket # t
      <4>1. i + n # j + n
        BY <1>1, <1>3, <3>3
      <4>2. ResponseAt(j + n) /\ j + n \in DOMAIN stream /\ stream'[j] = stream[j + n]
        BY <2>4, <3>3
      <4> QED  BY <3>1, <4>1, <4>2 DEF OneAwaited
    <3> HIDE DEF n
    <3> QED  BY <3>1, <3>2, <3>3 DEF OneAwaited, ResponseAt
  <2>7. \A o \in owed' : o.ticket \notin fresh'
    BY <2>1 DEF Answering
  <2>8. \A o \in owed', q \in owed' : o # q => o.ticket # q.ticket
    BY <2>1 DEF Answering
  <2> HIDE DEF n
  <2>9. \A i \in DOMAIN stream' : ResponseAt(i)' =>
           OneAwaited(i, stream[i].packet.ticket, stream[i].packet.extra)'
    BY <2>6
  <2> QED  BY <2>5, <2>7, <2>8, <2>9 DEF Answering
<1> QED  BY <1>4, <1>5, <1>6 DEF FramerInv

\* Steps that leave the stream and the server's debts alone, and forget no
\* length that may still be needed.
LEMMA TableKeepsInv ==
    ASSUME FramerInv, UNCHANGED <<owed, fresh, stream, looping, phase>>,
           inputSize' \in 0 .. Len(stream),
           table' \in [DOMAIN table' -> Entries], DOMAIN table' \subseteq DOMAIN table,
           \A t \in DOMAIN table : table[t].state # Done =>
              /\ t \in DOMAIN table' /\ table'[t].extra = table[t].extra
              /\ table'[t].state # Done
    PROVE  FramerInv'
<1>1. FramerTypeOK'
  BY DEF FramerInv, FramerTypeOK
<1>2. ASSUME NEW t, NEW x, Awaits(t, x) PROVE Awaits(t, x)'
  BY <1>2 DEF Awaits
<1>3. ASSUME Answering PROVE Answering'
  <2>1. ASSUME NEW i \in DOMAIN stream, NEW t, NEW x, OneAwaited(i, t, x)
        PROVE  OneAwaited(i, t, x)'
    BY <1>2, <2>1 DEF OneAwaited, ResponseAt
  <2> QED  BY <1>2, <1>3, <2>1 DEF Answering, ResponseAt
<1> QED  BY <1>1, <1>3 DEF FramerInv, Connected

LEMMA StartKeepsInv ==
    ASSUME FramerInv, NEW t \in Tickets, NEW extra \in Extras, StartRequest(t, extra)
    PROVE  FramerInv'
<1> DEFINE new == [ticket |-> t, extra |-> extra]
<1>1. /\ t \in fresh /\ t \notin DOMAIN table /\ fresh' = fresh \ {t}
      /\ DOMAIN table' = DOMAIN table \cup {t}
      /\ \A u \in DOMAIN table : u # t /\ table'[u] = table[u]
      /\ table'[t] = [extra |-> extra, state |-> Waiting]
      /\ owed' = owed \cup {new}
      /\ UNCHANGED <<stream, inputSize, looping, phase>>
      /\ Connected
  BY DEF StartRequest, FramerInv, Connected
<1>2. FramerTypeOK'
  <2>1. table' \in [DOMAIN table' -> Entries]
    BY <1>1 DEF StartRequest, FramerInv, FramerTypeOK, Entries
  <2> QED  BY <1>1, <2>1 DEF FramerInv, FramerTypeOK
<1>3. Answering
  BY <1>1 DEF FramerInv
<1>4. ASSUME NEW u, NEW x, Awaits(u, x) PROVE Awaits(u, x)' /\ u # t
  BY <1>1, <1>4 DEF Awaits
<1>5. Awaits(t, extra)'
  BY <1>1 DEF Awaits, Waiting, Done
<1>6. ASSUME NEW i \in DOMAIN stream, NEW u, NEW x, OneAwaited(i, u, x)
      PROVE  OneAwaited(i, u, x)'
  BY <1>1, <1>4, <1>6 DEF OneAwaited, ResponseAt
<1>7. Answering'
  <2>1. \A i \in DOMAIN stream' : ResponseAt(i)' =>
           OneAwaited(i, stream[i].packet.ticket, stream[i].packet.extra)'
    BY <1>1, <1>3, <1>6 DEF Answering, ResponseAt
  <2>2. \A o \in owed' : Awaits(o.ticket, o.extra)' /\ o.ticket \notin fresh'
    BY <1>1, <1>3, <1>4, <1>5 DEF Answering
  <2>3. \A o \in owed', q \in owed' : o # q => o.ticket # q.ticket
    BY <1>1, <1>3, <1>4 DEF Answering
  <2> QED  BY <2>1, <2>2, <2>3 DEF Answering
<1> QED  BY <1>1, <1>2, <1>7 DEF FramerInv, Connected

\* The server sends what it owes, or what is no response.
LEMMA SendingKeepsInv ==
    ASSUME FramerInv, Connected, NEW p \in Packets, SendCells(p),
           \/ /\ [ticket |-> p.ticket, extra |-> p.extra] \in owed
              /\ owed' = owed \ {[ticket |-> p.ticket, extra |-> p.extra]}
           \/ p.ticket = NoTicket /\ UNCHANGED owed
    PROVE  FramerInv'
<1>1. /\ stream \in Seq(Cell) /\ WellCut(stream) /\ Complete(stream)
      /\ stream' = stream \o Cells(p) /\ Answering
      /\ UNCHANGED <<table, fresh, inputSize, looping, phase>>
  BY DEF FramerInv, FramerTypeOK, Cell, SendCells
<1>2. /\ stream' \in Seq(Cell) /\ Len(stream') = Len(stream) + TrueSize(p)
      /\ \A i \in DOMAIN stream : i \in DOMAIN stream' /\ stream'[i] = stream[i]
      /\ \A i \in DOMAIN stream' : stream'[i].index = 1 /\ i \notin DOMAIN stream =>
           i = Len(stream) + 1 /\ stream'[i].packet = p
      /\ WellCut(stream') /\ Complete(stream')
  BY <1>1, SendFact
<1>3. FramerTypeOK'
  <2>1. stream' \in Seq([packet : Packets, index : Nat \ {0}])
    BY <1>2 DEF Cell
  <2>2. inputSize' \in 0 .. Len(stream')
    BY <1>1, <1>2, SizeFact DEF FramerInv, FramerTypeOK
  <2> QED  BY <1>1, <2>1, <2>2 DEF FramerInv, FramerTypeOK
<1>4. owed' \subseteq owed
  OBVIOUS
<1>5. ASSUME NEW i \in DOMAIN stream', ResponseAt(i)',
             NEW t, t = stream'[i].packet.ticket, NEW x, x = stream'[i].packet.extra
      PROVE  OneAwaited(i, t, x)'
  <2>1. CASE i \in DOMAIN stream
    <3>1. OneAwaited(i, t, x)
      BY <1>1, <1>2, <1>5, <2>1 DEF Answering, ResponseAt
    <3>2. ASSUME NEW j \in DOMAIN stream', ResponseAt(j)', i # j
          PROVE  stream'[j].packet.ticket # t
      <4>1. CASE j \in DOMAIN stream
        BY <1>2, <3>1, <3>2, <4>1 DEF OneAwaited, ResponseAt
      <4>2. CASE j \notin DOMAIN stream
        <5>1. stream'[j].packet = p /\ IsResponse(p)
          BY <1>2, <3>2, <4>2 DEF ResponseAt
        <5>2. \E o \in owed : o.ticket = p.ticket
          BY <5>1 DEF IsResponse
        <5> QED  BY <3>1, <5>1, <5>2 DEF OneAwaited
      <4> QED  BY <4>1, <4>2
    <3>3. Awaits(t, x)' /\ t \notin fresh' /\ \A o \in owed' : o.ticket # t
      BY <1>1, <1>4, <3>1 DEF OneAwaited, Awaits
    <3> QED  BY <3>2, <3>3 DEF OneAwaited, ResponseAt
  <2>2. CASE i \notin DOMAIN stream
    <3>1. stream'[i].packet = p /\ IsResponse(p) /\ t = p.ticket /\ x = p.extra
          /\ i = Len(stream) + 1
      BY <1>2, <1>5, <2>2 DEF ResponseAt
    <3>2. PICK o \in owed : /\ o = [ticket |-> p.ticket, extra |-> p.extra]
                            /\ owed' = owed \ {o}
      BY <3>1 DEF IsResponse
    <3>3. Awaits(t, x)' /\ t \notin fresh'
      BY <1>1, <3>1, <3>2 DEF Answering, Awaits
    <3>4. \A q \in owed' : q.ticket # t
      BY <1>1, <3>1, <3>2 DEF Answering
    <3>5. ASSUME NEW j \in DOMAIN stream', ResponseAt(j)', i # j
          PROVE  stream'[j].packet.ticket # t
      <4>1. j \in DOMAIN stream /\ stream'[j] = stream[j] /\ ResponseAt(j)
        BY <1>2, <3>1, <3>5 DEF ResponseAt
      <4>2. OneAwaited(j, stream[j].packet.ticket, stream[j].packet.extra)
        BY <1>1, <4>1 DEF Answering
      <4> QED  BY <3>1, <3>2, <4>1, <4>2 DEF OneAwaited
    <3> QED  BY <3>3, <3>4, <3>5 DEF OneAwaited, ResponseAt
  <2> QED  BY <2>1, <2>2
<1>6. Answering'
  <2>1. \A i \in DOMAIN stream' : ResponseAt(i)' =>
           OneAwaited(i, stream[i].packet.ticket, stream[i].packet.extra)'
    BY <1>5
  <2>2. \A o \in owed' : Awaits(o.ticket, o.extra)' /\ o.ticket \notin fresh'
    BY <1>1, <1>4 DEF Answering, Awaits
  <2>3. \A o \in owed', q \in owed' : o # q => o.ticket # q.ticket
    BY <1>1, <1>4 DEF Answering
  <2> QED  BY <2>1, <2>2, <2>3 DEF Answering
<1> QED  BY <1>1, <1>2, <1>3, <1>6 DEF FramerInv, Connected, WellCut, Complete

-----------------------------------------------------------------------------
(* Every step.                                                             *)

LEMMA ConnectKeepsInv ==
    ASSUME FramerInv, Connect
    PROVE  FramerInv'
<1>1. stream' = <<>> /\ inputSize' = 0 /\ owed' = {} /\ phase' = "login"
      /\ UNCHANGED <<table, fresh, looping>>
  BY DEF Connect
<1>2. stream' \in Seq(Cell) /\ Len(stream') = 0 /\ DOMAIN stream' = {}
  BY <1>1
<1>3. FramerTypeOK'
  <2>1. stream' \in Seq([packet : Packets, index : Nat \ {0}])
    BY <1>2 DEF Cell
  <2>2. inputSize' \in 0 .. Len(stream') /\ phase' \in {"none", "login", "online"}
    BY <1>1, <1>2
  <2>3. owed' \subseteq [ticket : Tickets, extra : Extras]
    BY <1>1
  <2> QED  BY <1>1, <2>1, <2>2, <2>3 DEF FramerInv, FramerTypeOK
<1>4. WellCut(stream)' /\ Complete(stream)' /\ Answering'
  BY <1>1, <1>2 DEF WellCut, Complete, Answering
<1> QED  BY <1>1, <1>3, <1>4 DEF FramerInv

LEMMA TakeResponseKeepsInv ==
    ASSUME FramerInv, TakeResponse
    PROVE  FramerInv'
<1>1. /\ Framed /\ IsKnown(AtHead) /\ ConsumeInputCells(SizeExpected(AtHead))
      /\ UNCHANGED <<owed, fresh, looping, phase>>
      /\ table \in [DOMAIN table -> Entries]
  BY DEF TakeResponse, FramerInv, FramerTypeOK
<1> DEFINE t == AtHead.ticket
<1>2. /\ table' \in [DOMAIN table' -> Entries] /\ DOMAIN table' \subseteq DOMAIN table
      /\ \A u \in DOMAIN table : u = t \/ (u \in DOMAIN table' /\ table'[u] = table[u])
  <2>1. CASE table[t].state = Abandoned
    <3>1. table' = [u \in DOMAIN table \cap (DOMAIN table \ {t}) |-> table[u]]
      BY <2>1 DEF TakeResponse, Restrict
    <3> QED  BY <1>1, <3>1
  <2>2. CASE table[t].state # Abandoned
    <3>1. table' = [table EXCEPT ![t].state = Done]
      BY <2>2 DEF TakeResponse
    <3> QED  BY <1>1, <3>1 DEF Entries, IsKnown
  <2> QED  BY <2>1, <2>2
<1>3. phase' \in {"none", "login", "online"} /\ (Connected' <=> Connected)
  BY <1>1 DEF FramerInv, FramerTypeOK, Connected
<1> QED  BY <1>1, <1>2, <1>3, ConsumingKeepsInv

LEMMA TakePacketKeepsInv ==
    ASSUME FramerInv, TakePacket
    PROVE  FramerInv'
<1>1. /\ Framed /\ ConsumeInputCells(SizeExpected(AtHead))
      /\ UNCHANGED <<table, owed, fresh, looping>>
      /\ table \in [DOMAIN table -> Entries]
  BY DEF TakePacket, FramerInv, FramerTypeOK
<1>2. phase' \in {"none", "login", "online"} /\ (Connected' <=> Connected)
  BY DEF TakePacket, FramerInv, FramerTypeOK, Connected
<1> QED  BY <1>1, <1>2, ConsumingKeepsInv

LEMMA FramerInvStep == FramerInv /\ [FramerNext]_framerVars => FramerInv'
<1> SUFFICES ASSUME FramerInv, [FramerNext]_framerVars PROVE FramerInv'
  OBVIOUS
<1>1. CASE Connect
  BY <1>1, ConnectKeepsInv
<1>2. ASSUME NEW t \in Tickets, NEW extra \in Extras, StartRequest(t, extra)
      PROVE  FramerInv'
  BY <1>2, StartKeepsInv
<1>3. ASSUME NEW t \in Tickets, Collect(t) PROVE FramerInv'
  <2>1. /\ table' = [u \in DOMAIN table \cap (DOMAIN table \ {t}) |-> table[u]]
        /\ table[t].state = Done /\ table \in [DOMAIN table -> Entries]
        /\ inputSize' = inputSize /\ inputSize \in 0 .. Len(stream)
        /\ UNCHANGED <<owed, fresh, stream, looping, phase>>
    BY <1>3 DEF Collect, Restrict, FramerInv, FramerTypeOK
  <2> QED  BY <2>1, TableKeepsInv
<1>4. ASSUME NEW t \in Tickets, Abandon(t) PROVE FramerInv'
  <2>1. /\ t \in DOMAIN table /\ table' = [table EXCEPT ![t].state = Abandoned]
        /\ table \in [DOMAIN table -> Entries]
        /\ inputSize' = inputSize /\ inputSize \in 0 .. Len(stream)
        /\ UNCHANGED <<owed, fresh, stream, looping, phase>>
    BY <1>4 DEF Abandon, FramerInv, FramerTypeOK
  <2>2. table' \in [DOMAIN table' -> Entries] /\ DOMAIN table' = DOMAIN table
    BY <2>1 DEF Entries
  <2>3. \A u \in DOMAIN table : table'[u].extra = table[u].extra
           /\ (table[u].state # Done => table'[u].state # Done)
    BY <2>1 DEF Entries, Abandoned, Done
  <2> QED  BY <2>1, <2>2, <2>3, TableKeepsInv
<1>5. CASE SessionIsLost
  BY <1>5, LosingKeepsInv DEF SessionIsLost, FramerInv, FramerTypeOK
<1>6. ASSUME NEW n \in 0 .. MaxCells, PumpCells(n) PROVE FramerInv'
  <2>1. FramerTypeOK'
    BY <1>6 DEF PumpCells, FramerInv, FramerTypeOK
  <2>2. Connected /\ UNCHANGED <<table, owed, fresh, stream, phase>>
    BY <1>6 DEF PumpCells
  <2>3. Answering'
    BY <2>2 DEF FramerInv, Answering, OneAwaited, ResponseAt, Awaits
  <2> QED  BY <2>1, <2>2, <2>3 DEF FramerInv, Connected, WellCut, Complete
<1>7. ASSUME NEW p \in Packets, ServerAnswers(p) PROVE FramerInv'
  BY <1>7, SendingKeepsInv DEF ServerAnswers
<1>8. ASSUME NEW p \in Packets, ServerNotifies(p) PROVE FramerInv'
  BY <1>8, SendingKeepsInv DEF ServerNotifies
<1>9. CASE WaitForMore
  <2>1. UNCHANGED <<table, owed, fresh, stream, inputSize, phase>> /\ looping
        /\ looping' = FALSE
    BY <1>9 DEF WaitForMore
  <2>2. FramerTypeOK'
    BY <2>1 DEF FramerInv, FramerTypeOK
  <2>3. Answering'
    BY <2>1 DEF FramerInv, Answering, OneAwaited, ResponseAt, Awaits
  <2> QED  BY <2>1, <2>2, <2>3 DEF FramerInv, Connected, WellCut, Complete
<1>10. CASE GiveUpOnStream
  BY <1>10, LosingKeepsInv DEF GiveUpOnStream, LosesConnection
<1>11. CASE TakeResponse
  BY <1>11, TakeResponseKeepsInv
<1>12. CASE TakePacket
  BY <1>12, TakePacketKeepsInv
<1>13. CASE RefuseLogin
  BY <1>13, LosingKeepsInv DEF RefuseLogin, Framed, FramerInv, FramerTypeOK
<1>14. CASE LoseItAccepting
  BY <1>14, LosingKeepsInv DEF LoseItAccepting, LosesConnection
<1>15. CASE UNCHANGED framerVars
  BY <1>15 DEF framerVars, FramerInv, FramerTypeOK, Connected, WellCut, Complete,
     Answering, OneAwaited, ResponseAt, Awaits
<1> QED
  BY <1>1, <1>2, <1>3, <1>4, <1>5, <1>6, <1>7, <1>8, <1>9, <1>10, <1>11, <1>12,
     <1>13, <1>14, <1>15 DEF FramerNext

LEMMA FramerInvariant == FramerSpec => []FramerInv
BY FramerInvInit, FramerInvStep, PTL DEF FramerSpec

\* The table, the debts of the server, the stream and the position in it stay
\* what they are (DSNetManager's myTransactions, NetNatsueSocket's myInput).
THEOREM FramerTypeCorrect == FramerSpec => []FramerTypeOK
<1>1. FramerInv => FramerTypeOK
  BY DEF FramerInv
<1> QED  BY <1>1, FramerInvariant, PTL

\* For any lengths, any way the stream arrives in parts, and any order of
\* answers, abandoned requests, losses and new sessions, ProcessInput looks for
\* a header where a packet begins (ProcessInput, AbandonTransaction).
THEOREM StaysAligned == FramerSpec => []Aligned
<1>1. FramerInv => Aligned
  BY DEF FramerInv, WellCut, Aligned
<1> QED  BY <1>1, FramerInvariant, PTL


\* A packet the loop stops at has not arrived whole.
LEMMA WaitingFact ==
    ASSUME FramerInv, WaitForMore, stream # <<>>
    PROVE  inputSize < TrueSize(AtHead)
<1>1. looping /\ stream \in Seq(Cell) /\ inputSize \in Nat
  BY DEF WaitForMore, FramerInv, FramerTypeOK, Cell
<1>2. AtHead \in Packets
  BY <1>1, CellFact DEF AtHead
<1>3. CASE ~HeaderHere
  BY <1>1, <1>2, <1>3, SizeFact DEF HeaderHere
<1>4. CASE HeaderHere
  <2>1. SizeExpected(AtHead) = TrueSize(AtHead) /\ (IsKnown(AtHead) <=> IsResponse(AtHead))
    BY <1>1, <1>4, HeadFact
  <2>2. ~IsWhole(AtHead)
    BY <1>4 DEF WaitForMore
  <2>3. CASE ~(inputSize >= SizeExpected(AtHead))
    BY <1>1, <1>2, <2>1, <2>3, SizeFact
  <2>4. CASE ~IsKnown(AtHead) /\ AtHead.type = "HANDSHAKE_RESPONSE"
             /\ ~(inputSize >= HandshakeSize)
    <3>1. HandshakeSize \in Nat /\ HandshakeSize <= TrueSize(AtHead)
      BY <1>2, <2>1, <2>4, SizeFact, FramerAssumption
    <3> QED  BY <1>1, <1>2, <2>4, <3>1, SizeFact
  <2> QED  BY <2>2, <2>3, <2>4 DEF IsWhole
<1> QED  BY <1>3, <1>4

LEMMA WaitsStep ==
    FramerInv /\ WaitsOnlyForMore /\ [FramerNext]_framerVars => WaitsOnlyForMore'
<1> SUFFICES ASSUME FramerInv, WaitsOnlyForMore, [FramerNext]_framerVars,
                    ~looping', Connected', stream' # <<>>
             PROVE  inputSize' < TrueSize(AtHead)'
  BY DEF WaitsOnlyForMore
<1>1. CASE Connect
  BY <1>1 DEF Connect
<1>2. CASE WaitForMore
  <2>1. stream # <<>> /\ UNCHANGED <<stream, inputSize>>
    BY <1>2 DEF WaitForMore
  <2>2. inputSize < TrueSize(AtHead)
    BY <1>2, <2>1, WaitingFact
  <2> QED  BY <2>1, <2>2 DEF AtHead
<1>3. ASSUME NEW p \in Packets, SendCells(p)
      PROVE  inputSize' < TrueSize(AtHead)'
  <2>1. /\ stream \in Seq(Cell) /\ inputSize \in 0 .. Len(stream)
        /\ stream' = stream \o Cells(p) /\ UNCHANGED <<inputSize, looping, phase>>
        /\ ~looping /\ Connected
    BY <1>3 DEF SendCells, FramerInv, FramerTypeOK, Cell, Connected
  <2>2. WellCut(stream) /\ Complete(stream)
    BY <2>1 DEF FramerInv
  <2>3. CASE stream = <<>>
    <3>1. inputSize = 0 /\ stream'[1].packet = p
      <4>1. inputSize = 0
        BY <2>1, <2>3
      <4>2. (stream \o Cells(p))[1].packet = p
        BY <2>1, <2>2, <2>3, SendFact
      <4> QED  BY <2>1, <4>1, <4>2
    <3>2. TrueSize(p) \in Nat /\ TrueSize(p) >= 1
      BY SizeFact
    <3> QED  BY <2>1, <3>1, <3>2 DEF AtHead
  <2>4. CASE stream # <<>>
    <3>1. inputSize < TrueSize(AtHead)
      BY <2>1, <2>4 DEF WaitsOnlyForMore
    <3>2. stream'[1] = stream[1]
      BY <2>1, <2>2, <2>4, SendFact
    <3> QED  BY <2>1, <3>1, <3>2 DEF AtHead
  <2> QED  BY <2>3, <2>4
<1>4. CASE UNCHANGED <<stream, inputSize, looping, phase>>
  BY <1>4 DEF WaitsOnlyForMore, Connected, AtHead
<1>5. ASSUME LosesConnection \/ SessionIsLost PROVE FALSE
  BY <1>5 DEF LosesConnection, SessionIsLost, Connected
<1>6. ASSUME looping, UNCHANGED looping PROVE FALSE
  BY <1>6
<1>7. ASSUME NEW t \in Tickets, NEW extra \in Extras, StartRequest(t, extra)
      PROVE  inputSize' < TrueSize(AtHead)'
  BY <1>4, <1>7 DEF StartRequest
<1>8. ASSUME NEW t \in Tickets, Collect(t) \/ Abandon(t)
      PROVE  inputSize' < TrueSize(AtHead)'
  BY <1>4, <1>8 DEF Collect, Abandon
<1>9. ASSUME NEW n \in 0 .. MaxCells, PumpCells(n) PROVE FALSE
  BY <1>9 DEF PumpCells
<1>10. ASSUME NEW p \in Packets, ServerAnswers(p) \/ ServerNotifies(p)
       PROVE  inputSize' < TrueSize(AtHead)'
  BY <1>3, <1>10 DEF ServerAnswers, ServerNotifies
<1>11. ASSUME TakeResponse \/ TakePacket \/ RefuseLogin PROVE FALSE
  BY <1>6, <1>11 DEF TakeResponse, TakePacket, RefuseLogin, Framed
<1>12. ASSUME GiveUpOnStream \/ LoseItAccepting PROVE FALSE
  BY <1>5, <1>12 DEF GiveUpOnStream, LoseItAccepting
<1>13. CASE UNCHANGED framerVars
  BY <1>4, <1>13 DEF framerVars
<1> QED
  BY <1>1, <1>2, <1>5, <1>7, <1>8, <1>9, <1>10, <1>11, <1>12, <1>13 DEF FramerNext

\* ProcessInput goes back to wait only when a part of the packet at the head has
\* not arrived: it never sits on a whole one (ProcessInput).
THEOREM WaitsForMore == FramerSpec => []WaitsOnlyForMore
<1>1. FramerInit => WaitsOnlyForMore
  BY DEF FramerInit, WaitsOnlyForMore
<1> QED  BY <1>1, WaitsStep, FramerInvariant, PTL DEF FramerSpec

-----------------------------------------------------------------------------
(* The packets under way.                                                  *)

\* g counts up the packets that end in s.
Collects(g, s) ==
    /\ g \in [0 .. Len(s) -> Seq(Packets)]
    /\ g[0] = <<>>
    /\ \A i \in 1 .. Len(s) :
         g[i] = IF IsLastCell(s[i]) THEN Append(g[i - 1], s[i].packet) ELSE g[i - 1]

LEMMA EndedFact ==
    ASSUME NEW s \in Seq(Cell)
    PROVE  \E g : Collects(g, s) /\ Ended(s) = g[Len(s)]
<1> DEFINE m == Len(s)
           V == Seq(Packets)
           step == [x \in V \X (1 .. m) |->
                      IF IsLastCell(s[x[2]]) THEN Append(x[1], s[x[2]].packet) ELSE x[1]]
           Rec(g) == [i \in 0 .. Len(s) |->
                        IF i = 0 THEN <<>>
                        ELSE IF IsLastCell(s[i]) THEN Append(g[i - 1], s[i].packet)
                        ELSE g[i - 1]]
           f == CHOOSE g : g = Rec(g)
<1>1. m \in Nat /\ DOMAIN s = 1 .. m /\ \A i \in 1 .. m : s[i].packet \in Packets
  BY CellFact, LenProperties
<1>2. step \in [V \X (1 .. m) -> V]
  <2>1. ASSUME NEW x \in V \X (1 .. m)
        PROVE  (IF IsLastCell(s[x[2]]) THEN Append(x[1], s[x[2]].packet) ELSE x[1]) \in V
    <3>1. x[1] \in V /\ s[x[2]].packet \in Packets
      BY <1>1
    <3> QED  BY <3>1, AppendProperties
  <2> QED  BY <2>1
<1>3. \A v \in V, i \in 1 .. m :
        step[<<v, i>>] = IF IsLastCell(s[i]) THEN Append(v, s[i].packet) ELSE v
  OBVIOUS
<1>4. <<>> \in V
  OBVIOUS
<1> HIDE DEF step
<1>5. PICK g \in [0 .. m -> V] : Runs(g, m, <<>>, step)
  <2> HIDE DEF m, V
  <2> QED  BY <1>1, <1>2, <1>4, RecursionExists
<1>6. \A i \in 1 .. m : g[i - 1] \in V
  BY <1>1, <1>5
<1>7. Collects(g, s)
  BY <1>3, <1>5, <1>6 DEF Collects, Runs
<1>8. g = Rec(g)
  <2>1. \A i \in 0 .. m : i = 0 \/ i \in 1 .. m
    BY <1>1
  <2>2. \A i \in 0 .. m : g[i] = Rec(g)[i]
    BY <1>7, <2>1 DEF Collects
  <2>3. DOMAIN Rec(g) = 0 .. m /\ DOMAIN g = 0 .. m
    BY <1>5
  <2>4. Rec(g) = [i \in 0 .. m |-> Rec(g)[i]] /\ g = [i \in 0 .. m |-> g[i]]
    BY <1>5
  <2> HIDE DEF Rec
  <2> QED  BY <2>2, <2>3, <2>4
<1>9. f = Rec(f)
  <2> HIDE DEF Rec
  <2> QED  BY <1>8, Zenon
<1>10. Ended(s) = f[Len(s)]
  BY DEF Ended
<1> HIDE DEF f
<1>11. Collects(f, s)
  <2>1. DOMAIN f = 0 .. m /\ f[0] = <<>>
    BY <1>1, <1>9
  <2>2. ASSUME NEW i \in 1 .. m
        PROVE  f[i] = IF IsLastCell(s[i]) THEN Append(f[i - 1], s[i].packet) ELSE f[i - 1]
    <3>1. i \in 0 .. Len(s) /\ i # 0
      BY <1>1
    <3>2. f[i] = Rec(f)[i]
      BY <1>9
    <3> QED  BY <3>1, <3>2
  <2>3. \A i \in 0 .. m : f[i] \in V
    <3> DEFINE S == {i \in Nat : i <= m => f[i] \in V}
    <3>1. 0 \in S
      BY <1>4, <2>1
    <3>2. ASSUME NEW i \in Nat, i \in S PROVE i + 1 \in S
      <4>1. CASE i + 1 <= m
        <5>1. f[i] \in V /\ i + 1 \in 1 .. m /\ (i + 1) - 1 = i
          BY <1>1, <3>2, <4>1
        <5>2. s[i + 1].packet \in Packets
          BY <1>1, <5>1
        <5>3. f[i + 1] \in {f[i], Append(f[i], s[i + 1].packet)}
          BY <2>2, <5>1
        <5>4. PICK v \in V : v = f[i]
          BY <5>1
        <5>5. Append(v, s[i + 1].packet) \in V
          BY <5>2, <5>4, AppendProperties
        <5>6. f[i + 1] = f[i] \/ f[i + 1] = Append(f[i], s[i + 1].packet)
          BY <5>3
        <5>7. f[i + 1] \in V
          <6> HIDE DEF V
          <6> QED  BY <5>1, <5>4, <5>5, <5>6
        <5> QED  BY <5>7
      <4> QED  BY <4>1
    <3> HIDE DEF S
    <3>3. Nat \subseteq S
      BY <3>1, <3>2, Induction
    <3> QED  BY <1>1, <3>3 DEF S
  <2>4. f \in [0 .. m -> V]
    <3>1. f = [i \in 0 .. m |-> f[i]]
      BY <1>9
    <3> QED  BY <2>3, <3>1
  <2> QED  BY <2>1, <2>2, <2>4 DEF Collects
<1> QED  BY <1>10, <1>11

LEMMA EndedEmpty == Ended(<<>>) = <<>>
<1>1. <<>> \in Seq(Cell) /\ Len(<<>>) = 0
  OBVIOUS
<1> QED  BY <1>1, EndedFact DEF Collects

\* What ends in two stretches ends in the one and in the other.
LEMMA EndedJoin ==
    ASSUME NEW s \in Seq(Cell), NEW t \in Seq(Cell)
    PROVE  /\ Ended(s) \in Seq(Packets) /\ Ended(t) \in Seq(Packets)
           /\ Ended(s \o t) = Ended(s) \o Ended(t)
<1> DEFINE r == s \o t
<1>1. r \in Seq(Cell) /\ Joins(r, s, t)
  BY JoinFact
<1>2. Len(s) \in Nat /\ Len(t) \in Nat /\ Len(r) = Len(s) + Len(t)
  BY <1>1 DEF Joins
<1> HIDE DEF r
<1>3. PICK g : Collects(g, s) /\ Ended(s) = g[Len(s)]
  BY EndedFact
<1>4. PICK h : Collects(h, t) /\ Ended(t) = h[Len(t)]
  BY EndedFact
<1>5. PICK k : Collects(k, r) /\ Ended(r) = k[Len(r)]
  BY <1>1, EndedFact
<1>6. /\ \A i \in 0 .. Len(s) : g[i] \in Seq(Packets)
      /\ \A i \in 0 .. Len(t) : h[i] \in Seq(Packets)
  BY <1>3, <1>4 DEF Collects
<1>7. k[Len(s)] = g[Len(s)]
  <2> DEFINE S == {i \in Nat : i <= Len(s) => k[i] = g[i]}
  <2>1. 0 \in S
    BY <1>3, <1>5 DEF Collects
  <2>2. ASSUME NEW i \in Nat, i \in S PROVE i + 1 \in S
    <3> SUFFICES ASSUME i + 1 <= Len(s) PROVE k[i + 1] = g[i + 1]
      OBVIOUS
    <3>1. /\ i + 1 \in 1 .. Len(s) /\ i + 1 \in 1 .. Len(r) /\ (i + 1) - 1 = i
          /\ k[i] = g[i]
      BY <1>2, <2>2
    <3>2. r[i + 1] = s[i + 1]
      BY <1>1, <3>1 DEF Joins
    <3>3. g[i + 1] = IF IsLastCell(s[i + 1]) THEN Append(g[i], s[i + 1].packet) ELSE g[i]
      BY <1>3, <3>1 DEF Collects
    <3>4. k[i + 1] = IF IsLastCell(r[i + 1]) THEN Append(k[i], r[i + 1].packet) ELSE k[i]
      BY <1>5, <3>1 DEF Collects
    <3> QED  BY <3>1, <3>2, <3>3, <3>4
  <2> HIDE DEF S
  <2>3. Nat \subseteq S
    BY <2>1, <2>2, Induction
  <2> QED  BY <1>2, <2>3 DEF S
<1>8. k[Len(s) + Len(t)] = g[Len(s)] \o h[Len(t)]
  <2> DEFINE P(i) == k[Len(s) + i] = g[Len(s)] \o h[i]
             S == {i \in Nat : i <= Len(t) => P(i)}
  <2>1. P(0)
    <3>1. h[0] = <<>> /\ Len(s) + 0 = Len(s) /\ g[Len(s)] \in Seq(Packets)
      BY <1>2, <1>4, <1>6 DEF Collects
    <3>2. g[Len(s)] \o <<>> = g[Len(s)]
      BY <3>1, ConcatEmptySeq
    <3> QED  BY <1>7, <3>1, <3>2
  <2>2. ASSUME NEW i \in Nat, i + 1 <= Len(t), P(i) PROVE P(i + 1)
    <3> DEFINE n == Len(s) + (i + 1)
    <3>1. /\ i + 1 \in 1 .. Len(t) /\ (i + 1) - 1 = i /\ n \in 1 .. Len(r)
          /\ n - 1 = Len(s) + i /\ n = (i + 1) + Len(s) /\ i \in 0 .. Len(t)
          /\ Len(s) \in 0 .. Len(s)
          /\ k[Len(s) + i] = g[Len(s)] \o h[i]
      BY <1>2, <2>2
    <3>2. r[n] = t[i + 1]
      BY <1>1, <3>1 DEF Joins
    <3> HIDE DEF n
    <3>3. k[n] = IF IsLastCell(r[n]) THEN Append(k[n - 1], r[n].packet) ELSE k[n - 1]
      BY <1>5, <3>1 DEF Collects
    <3>4. h[i + 1] = IF IsLastCell(t[i + 1]) THEN Append(h[i], t[i + 1].packet) ELSE h[i]
      BY <1>4, <3>1 DEF Collects
    <3> DEFINE a == g[Len(s)]
               b == h[i]
    <3>5. a \in Seq(Packets) /\ b \in Seq(Packets)
          /\ t[i + 1].packet \in Packets
      <4>1. i + 1 \in DOMAIN t
        BY <3>1
      <4> QED  BY <1>6, <3>1, <4>1, CellFact
    <3>6. a \o Append(b, t[i + 1].packet) = Append(a \o b, t[i + 1].packet)
      <4> HIDE DEF a, b
      <4> QED  BY <3>5, EndsOfJoined
    <3>7. k[n] = g[Len(s)] \o h[i + 1]
      <4>1. CASE IsLastCell(t[i + 1])
        BY <3>1, <3>2, <3>3, <3>4, <3>6, <4>1
      <4>2. CASE ~IsLastCell(t[i + 1])
        BY <3>1, <3>2, <3>3, <3>4, <4>2
      <4> QED  BY <4>1, <4>2
    <3> QED  BY <3>7 DEF n
  <2> HIDE DEF P
  <2>3. ASSUME NEW i \in Nat, i \in S PROVE i + 1 \in S
    BY <1>2, <2>2, <2>3
  <2>4. 0 \in S
    BY <2>1
  <2> HIDE DEF S
  <2>5. Nat \subseteq S
    BY <2>3, <2>4, Induction
  <2>6. P(Len(t))
    BY <1>2, <2>5 DEF S
  <2> QED  BY <2>6 DEF P
<1>9. Len(s) \in 0 .. Len(s) /\ Len(t) \in 0 .. Len(t)
  BY <1>2
<1>10. Ended(s) \in Seq(Packets) /\ Ended(t) \in Seq(Packets)
  BY <1>3, <1>4, <1>6, <1>9
<1>11. Ended(r) = Ended(s) \o Ended(t)
  BY <1>2, <1>3, <1>4, <1>5, <1>8
<1> QED  BY <1>10, <1>11 DEF r

\* In the cells of one packet that packet ends.
LEMMA EndedPacket ==
    ASSUME NEW s \in Seq(Cell), s # <<>>, IsLastCell(s[Len(s)]),
           \A i \in 1 .. Len(s) - 1 : ~IsLastCell(s[i])
    PROVE  Ended(s) = <<s[Len(s)].packet>>
<1>1. Len(s) \in Nat /\ Len(s) >= 1
  BY EmptySeq, LenProperties
<1>2. PICK g : Collects(g, s) /\ Ended(s) = g[Len(s)]
  BY EndedFact
<1> DEFINE S == {i \in Nat : i <= Len(s) - 1 => g[i] = <<>>}
<1>3. 0 \in S
  BY <1>2 DEF Collects
<1>4. ASSUME NEW i \in Nat, i \in S PROVE i + 1 \in S
  <2> SUFFICES ASSUME i + 1 <= Len(s) - 1 PROVE g[i + 1] = <<>>
    OBVIOUS
  <2>1. /\ i + 1 \in 1 .. Len(s) - 1 /\ i + 1 \in 1 .. Len(s) /\ (i + 1) - 1 = i
        /\ g[i] = <<>>
    BY <1>1, <1>4
  <2> QED  BY <1>2, <2>1 DEF Collects
<1> HIDE DEF S
<1>5. Nat \subseteq S
  BY <1>3, <1>4, Induction
<1>6. g[Len(s) - 1] = <<>>
  BY <1>1, <1>5 DEF S
<1>7. g[Len(s)] = Append(<<>>, s[Len(s)].packet)
  <2>1. Len(s) \in 1 .. Len(s)
    BY <1>1
  <2> QED  BY <1>2, <1>6, <2>1 DEF Collects
<1>8. Append(<<>>, s[Len(s)].packet) = <<s[Len(s)].packet>>
  OBVIOUS
<1> QED  BY <1>2, <1>7, <1>8

\* What ends in the first cells is how what ends in all of them begins.
LEMMA EndedPrefix ==
    ASSUME NEW s \in Seq(Cell), NEW n \in 0 .. Len(s)
    PROVE  FramerPipe!IsPrefix(Ended(SubSeq(s, 1, n)), Ended(s))
<1> DEFINE u == SubSeq(s, 1, n)
           v == SubSeq(s, n + 1, Len(s))
<1>1. u \in Seq(Cell) /\ v \in Seq(Cell) /\ u \o v = s
  BY CutFact
<1> HIDE DEF u, v
<1>2. /\ Ended(u) \in Seq(Packets) /\ Ended(v) \in Seq(Packets)
      /\ Ended(s) = Ended(u) \o Ended(v)
  BY <1>1, EndedJoin
<1>3. FramerPipe!IsPrefix(Ended(u), Ended(s))
  BY <1>2, JoinedPrefix DEF FramerPipe!IsPrefix
<1> QED  BY <1>3 DEF u

\* The cell d comes after c where the server wrote both.
Follows(c, d) ==
    IF IsLastCell(c) THEN d.index = 1
    ELSE d = [packet |-> c.packet, index |-> c.index + 1]

\* The cells of a packet are together and in order.
InOrder(s) ==
    \A i \in DOMAIN s :
       /\ s[i].index <= TrueSize(s[i].packet)
       /\ i + 1 \in DOMAIN s => Follows(s[i], s[i + 1])

\* No packet is in it only with a part of its cells at the end.
EndsWhole(s) == s # <<>> => IsLastCell(s[Len(s)])

LEMMA OrderPrefix ==
    ASSUME NEW s \in Seq(Cell), InOrder(s), NEW n \in 0 .. Len(s)
    PROVE  InOrder(SubSeq(s, 1, n))
<1> DEFINE r == SubSeq(s, 1, n)
<1>1. /\ r \in Seq(Cell) /\ Len(r) = n /\ \A i \in 1 .. n : r[i] = s[i]
      /\ Len(s) \in Nat
  BY CutFact, LenProperties
<1> HIDE DEF r
<1>2. DOMAIN r = 1 .. n /\ DOMAIN s = 1 .. Len(s)
  BY <1>1, LenProperties
<1>3. ASSUME NEW i \in DOMAIN r
      PROVE  /\ r[i].index <= TrueSize(r[i].packet)
             /\ i + 1 \in DOMAIN r => Follows(r[i], r[i + 1])
  <2>1. i \in DOMAIN s /\ r[i] = s[i]
    BY <1>1, <1>2
  <2>2. i + 1 \in DOMAIN r => i + 1 \in DOMAIN s /\ r[i + 1] = s[i + 1]
    BY <1>1, <1>2
  <2> QED  BY <2>1, <2>2 DEF InOrder
<1> QED  BY <1>3 DEF InOrder, r

LEMMA OrderRest ==
    ASSUME NEW s \in Seq(Cell), InOrder(s), NEW n \in 0 .. Len(s)
    PROVE  /\ InOrder(SubSeq(s, n + 1, Len(s)))
           /\ EndsWhole(s) => EndsWhole(SubSeq(s, n + 1, Len(s)))
<1> DEFINE r == SubSeq(s, n + 1, Len(s))
<1>1. /\ r \in Seq(Cell) /\ Len(r) = Len(s) - n
      /\ \A i \in 1 .. Len(s) - n : r[i] = s[i + n]
      /\ Len(s) \in Nat
  BY CutFact, LenProperties
<1> HIDE DEF r
<1>2. DOMAIN r = 1 .. Len(s) - n /\ DOMAIN s = 1 .. Len(s)
  BY <1>1, LenProperties
<1>3. ASSUME NEW i \in DOMAIN r
      PROVE  /\ r[i].index <= TrueSize(r[i].packet)
             /\ i + 1 \in DOMAIN r => Follows(r[i], r[i + 1])
  <2>1. i + n \in DOMAIN s /\ r[i] = s[i + n]
    BY <1>1, <1>2
  <2>2. i + 1 \in DOMAIN r =>
          (i + n) + 1 \in DOMAIN s /\ r[i + 1] = s[(i + n) + 1]
    <3> SUFFICES ASSUME i + 1 \in DOMAIN r
                 PROVE  (i + n) + 1 \in DOMAIN s /\ r[i + 1] = s[(i + n) + 1]
      OBVIOUS
    <3>1. i + 1 \in 1 .. Len(s) - n /\ (i + 1) + n = (i + n) + 1
      BY <1>2
    <3> QED  BY <1>1, <1>2, <3>1
  <2> QED  BY <2>1, <2>2 DEF InOrder
<1>4. ASSUME EndsWhole(s), r # <<>> PROVE IsLastCell(r[Len(r)])
  <2>1. Len(r) \in 1 .. Len(s) - n /\ Len(r) + n = Len(s)
    BY <1>1, <1>4, EmptySeq
  <2>2. r[Len(r)] = s[Len(s)] /\ s # <<>>
    BY <1>1, <2>1
  <2> QED  BY <1>4, <2>2 DEF EndsWhole
<1>5. InOrder(r)
  BY <1>3 DEF InOrder
<1>6. EndsWhole(s) => EndsWhole(r)
  BY <1>4 DEF EndsWhole
<1> QED  BY <1>5, <1>6 DEF r

LEMMA CellsFact ==
    ASSUME NEW p \in Packets
    PROVE  /\ Cells(p) \in Seq(Cell) /\ Len(Cells(p)) = TrueSize(p)
           /\ \A k \in 1 .. TrueSize(p) : Cells(p)[k] = [packet |-> p, index |-> k]
           /\ TrueSize(p) \in Nat /\ TrueSize(p) >= 1
           /\ Cells(p) # <<>>
<1>1. TrueSize(p) \in Nat /\ TrueSize(p) >= 1
  BY SizeFact
<1>2. \A k \in 1 .. TrueSize(p) : [packet |-> p, index |-> k] \in Cell
  BY DEF Cell
<1>3. Cells(p) = [k \in 1 .. TrueSize(p) |-> [packet |-> p, index |-> k]]
  BY DEF Cells
<1>4. Cells(p) \in [1 .. TrueSize(p) -> Cell]
  BY <1>2, <1>3
<1>5. Cells(p) \in Seq(Cell) /\ Len(Cells(p)) = TrueSize(p)
  BY <1>1, <1>4
<1>6. \A k \in 1 .. TrueSize(p) : Cells(p)[k] = [packet |-> p, index |-> k]
  BY <1>3
<1> QED  BY <1>1, <1>5, <1>6

\* A packet sent whole ends, and after whatever was whole it is in order.
LEMMA OrderSend ==
    ASSUME NEW s \in Seq(Cell), InOrder(s), EndsWhole(s), NEW p \in Packets
    PROVE  /\ InOrder(s \o Cells(p)) /\ EndsWhole(s \o Cells(p))
           /\ Ended(s \o Cells(p)) = Append(Ended(s), p)
<1> DEFINE c == Cells(p)
           n == TrueSize(p)
           t == s \o c
<1>1. /\ c \in Seq(Cell) /\ Len(c) = n /\ n \in Nat /\ n >= 1 /\ c # <<>>
      /\ \A k \in 1 .. n : c[k] = [packet |-> p, index |-> k]
  BY CellsFact
<1>2. \A k \in 1 .. n : IsLastCell(c[k]) <=> k = n
  BY <1>1 DEF IsLastCell
<1> HIDE DEF c
<1>3. t \in Seq(Cell) /\ Joins(t, s, c)
  BY <1>1, JoinFact
<1> HIDE DEF t
<1>4. /\ Len(s) \in Nat /\ Len(t) = Len(s) + n
      /\ DOMAIN t = 1 .. Len(s) + n /\ DOMAIN s = 1 .. Len(s)
      /\ \A i \in 1 .. Len(s) : t[i] = s[i]
      /\ \A i \in 1 .. n : t[i + Len(s)] = c[i]
  BY <1>1, <1>3, LenProperties DEF Joins
<1>5. ASSUME NEW i \in DOMAIN t
      PROVE  /\ t[i].index <= TrueSize(t[i].packet)
             /\ i + 1 \in DOMAIN t => Follows(t[i], t[i + 1])
  <2>1. CASE i \in 1 .. Len(s) - 1
    <3>1. i \in DOMAIN s /\ i + 1 \in DOMAIN s
      BY <1>4, <2>1
    <3> QED  BY <1>4, <3>1 DEF InOrder
  <2>2. CASE i = Len(s)
    <3>1. i \in DOMAIN s /\ s # <<>>
      BY <1>4, <2>2
    <3>2. t[i] = s[i] /\ IsLastCell(s[i]) /\ s[i].index <= TrueSize(s[i].packet)
      BY <1>4, <2>2, <3>1 DEF InOrder, EndsWhole
    <3>3. 1 \in 1 .. n /\ i + 1 = 1 + Len(s)
      BY <1>1, <1>4, <2>2
    <3>4. t[i + 1] = [packet |-> p, index |-> 1]
      BY <1>1, <1>4, <3>3
    <3> QED  BY <3>2, <3>4 DEF Follows
  <2>3. CASE i \in Len(s) + 1 .. Len(s) + n
    <3> DEFINE k == i - Len(s)
    <3>1. k \in 1 .. n /\ i = k + Len(s)
      BY <1>1, <1>4, <2>3
    <3>2. i + 1 \in DOMAIN t => k + 1 \in 1 .. n /\ i + 1 = (k + 1) + Len(s)
      BY <1>1, <1>4, <2>3
    <3> HIDE DEF k
    <3>3. t[i] = [packet |-> p, index |-> k]
      BY <1>1, <1>4, <3>1
    <3>4. t[i].index <= TrueSize(t[i].packet)
      BY <1>1, <3>1, <3>3
    <3>5. ASSUME i + 1 \in DOMAIN t PROVE Follows(t[i], t[i + 1])
      <4>1. t[i + 1] = [packet |-> p, index |-> k + 1]
        BY <1>1, <1>4, <3>2, <3>5
      <4>2. ~IsLastCell(t[i])
        BY <1>1, <3>1, <3>2, <3>3, <3>5 DEF IsLastCell
      <4> QED  BY <3>3, <4>1, <4>2 DEF Follows
    <3> QED  BY <3>4, <3>5
  <2> QED  BY <1>1, <1>4, <2>1, <2>2, <2>3
<1>6. InOrder(t)
  BY <1>5 DEF InOrder
<1>7. EndsWhole(t)
  <2>1. n \in 1 .. n /\ Len(t) = n + Len(s)
    BY <1>1, <1>4
  <2> QED  BY <1>2, <1>4, <2>1 DEF EndsWhole
<1>8. Ended(t) = Append(Ended(s), p)
  <2>1. Ended(c) = <<c[Len(c)].packet>>
    <3>1. IsLastCell(c[Len(c)]) /\ \A i \in 1 .. Len(c) - 1 : ~IsLastCell(c[i])
      BY <1>1, <1>2
    <3> QED  BY <1>1, <3>1, EndedPacket
  <2>2. c[Len(c)].packet = p
    <3>1. Len(c) \in 1 .. n
      BY <1>1
    <3> QED  BY <1>1, <3>1
  <2>3. Ended(s) \in Seq(Packets) /\ Ended(t) = Ended(s) \o <<p>>
    BY <1>1, <2>1, <2>2, EndedJoin DEF t
  <2> QED  BY <2>3, AppendIsConcat
<1> QED  BY <1>6, <1>7, <1>8 DEF t, c

\* The cells of a packet that begins here.
LEMMA HeadCells ==
    ASSUME NEW s \in Seq(Cell), InOrder(s), s # <<>>, s[1].index = 1,
           NEW n \in 1 .. Len(s), n = TrueSize(s[1].packet)
    PROVE  \A i \in 1 .. n : s[i].packet = s[1].packet /\ s[i].index = i
<1> DEFINE P(i) == s[i].packet = s[1].packet /\ s[i].index = i
           S == {i \in Nat : i + 1 \in 1 .. n => P(i + 1)}
<1>1. Len(s) \in Nat /\ DOMAIN s = 1 .. Len(s)
  BY LenProperties
<1>2. 0 \in S
  OBVIOUS
<1>3. ASSUME NEW i \in Nat, i \in S PROVE i + 1 \in S
  <2> SUFFICES ASSUME (i + 1) + 1 \in 1 .. n PROVE P((i + 1) + 1)
    OBVIOUS
  <2>1. /\ i + 1 \in DOMAIN s /\ (i + 1) + 1 \in DOMAIN s /\ i + 1 # n /\ P(i + 1)
    BY <1>1, <1>3
  <2>2. ~IsLastCell(s[i + 1])
    BY <2>1 DEF IsLastCell
  <2>3. s[(i + 1) + 1] = [packet |-> s[i + 1].packet, index |-> s[i + 1].index + 1]
    BY <2>1, <2>2 DEF InOrder, Follows
  <2> QED  BY <2>1, <2>3
<1> HIDE DEF S
<1>4. Nat \subseteq S
  BY <1>2, <1>3, Induction
<1>5. ASSUME NEW i \in 1 .. n PROVE P(i)
  <2>1. i - 1 \in Nat /\ (i - 1) + 1 = i
    BY <1>1
  <2>2. i - 1 \in S
    BY <1>4, <2>1
  <2> QED  BY <2>1, <2>2 DEF S
<1> QED  BY <1>5

\* When the packet at the head is consumed, it is the first of those under way.
LEMMA EndedTake ==
    ASSUME NEW s \in Seq(Cell), InOrder(s), s # <<>>, s[1].index = 1,
           NEW n \in 1 .. Len(s), n = TrueSize(s[1].packet)
    PROVE  /\ Ended(s) # <<>>
           /\ Ended(SubSeq(s, n + 1, Len(s))) = Tail(Ended(s))
<1> DEFINE u == SubSeq(s, 1, n)
           v == SubSeq(s, n + 1, Len(s))
           p == s[1].packet
<1>1. /\ u \in Seq(Cell) /\ v \in Seq(Cell) /\ u \o v = s
      /\ Len(u) = n /\ \A i \in 1 .. n : u[i] = s[i]
  <2>1. n \in 0 .. Len(s)
    OBVIOUS
  <2> QED  BY <2>1, CutFact
<1>2. \A i \in 1 .. n : s[i].packet = p /\ s[i].index = i
  BY HeadCells
<1>3. n \in Nat /\ n >= 1 /\ p \in Packets
  <2>1. 1 \in DOMAIN s
    OBVIOUS
  <2> QED  BY <2>1, CellFact
<1> HIDE DEF u, v
<1>4. \A i \in 1 .. n : u[i].packet = p /\ (IsLastCell(u[i]) <=> i = n)
  BY <1>1, <1>2 DEF IsLastCell
<1>5. Ended(u) = <<p>>
  <2>1. u # <<>> /\ Len(u) \in 1 .. n
    BY <1>1, <1>3
  <2>2. IsLastCell(u[Len(u)]) /\ \A i \in 1 .. Len(u) - 1 : ~IsLastCell(u[i])
    BY <1>1, <1>3, <1>4
  <2>3. Ended(u) = <<u[Len(u)].packet>>
    BY <1>1, <2>1, <2>2, EndedPacket
  <2> QED  BY <1>4, <2>1, <2>3
<1>6. Ended(v) \in Seq(Packets) /\ Ended(s) = <<p>> \o Ended(v)
  BY <1>1, <1>5, EndedJoin
<1> HIDE DEF p
<1>7. <<p>> \o Ended(v) # <<>> /\ Tail(<<p>> \o Ended(v)) = Ended(v)
  <2> DEFINE e == Ended(v)
  <2>1. e \in Seq(Packets)
    BY <1>6
  <2> HIDE DEF e
  <2>2. /\ <<p>> \in Seq(Packets) /\ <<p>> # <<>> /\ Tail(<<p>>) = <<>>
    BY <1>3
  <2>3. <<p>> \o e # <<>> /\ Tail(<<p>>) \o e = Tail(<<p>> \o e)
    BY <1>3, <2>1, <2>2, EndsOfJoined
  <2>4. <<>> \o e = e
    BY <2>1, ConcatEmptySeq
  <2> QED  BY <2>2, <2>3, <2>4 DEF e
<1> QED  BY <1>6, <1>7 DEF v

\* What is in the stream can be read as packets, and as whole ones as long as
\* there is a connection.
Ordered == InOrder(stream) /\ (Connected => EndsWhole(stream))

\* A step of the pipe of packets, or none.
PipeStep == [FramerPipe!Next]_(FramerPipe!vars)

LEMMA StreamFact ==
    ASSUME FramerInv
    PROVE  stream \in Seq(Cell) /\ inputSize \in 0 .. Len(stream)
BY DEF FramerInv, FramerTypeOK, Cell

LEMMA EmptyOrdered == InOrder(<<>>) /\ EndsWhole(<<>>)
BY DEF InOrder, EndsWhole

LEMMA StillStep ==
    ASSUME Ordered, UNCHANGED <<stream, phase>>
    PROVE  Ordered' /\ PipeStep
<1>1. Connected' = Connected /\ UnderWay' = UnderWay
  BY DEF Connected, UnderWay
<1>2. UNCHANGED FramerPipe!vars
  BY <1>1 DEF FramerPipe!vars
<1>3. Ordered'
  BY <1>1 DEF Ordered
<1> QED  BY <1>2, <1>3 DEF PipeStep

LEMMA OpenStep ==
    ASSUME phase' = "login", stream' = <<>>
    PROVE  Ordered' /\ PipeStep
<1>1. Connected' = TRUE /\ UnderWay' = <<>>
  BY EndedEmpty DEF Connected, UnderWay
<1>2. FramerPipe!Open
  BY <1>1 DEF FramerPipe!Open
<1>3. Ordered'
  BY EmptyOrdered DEF Ordered
<1> QED  BY <1>2, <1>3 DEF PipeStep, FramerPipe!Next

LEMMA LostStep ==
    ASSUME FramerInv, Ordered, phase' = "none",
           stream' = SubSeq(stream, 1, inputSize)
    PROVE  Ordered' /\ PipeStep
<1>1. Connected' = FALSE
  BY DEF Connected
<1>2. InOrder(stream') /\ FramerPipe!IsPrefix(Ended(stream'), Ended(stream))
  BY StreamFact, OrderPrefix, EndedPrefix DEF Ordered
<1>3. FramerPipe!IsPrefix(UnderWay', UnderWay)
  BY <1>2 DEF UnderWay
<1>4. FramerPipe!Break
  BY <1>1, <1>3 DEF FramerPipe!Break
<1>5. Ordered'
  BY <1>1, <1>2 DEF Ordered
<1> QED  BY <1>4, <1>5 DEF PipeStep, FramerPipe!Next

LEMMA SendStep ==
    ASSUME FramerInv, Ordered, Connected, NEW p \in Packets, SendCells(p)
    PROVE  Ordered' /\ PipeStep
<1>1. /\ Connected' = Connected /\ stream' = stream \o Cells(p)
      /\ EndsWhole(stream) /\ InOrder(stream)
  BY DEF SendCells, Connected, Ordered
<1>2. /\ InOrder(stream') /\ EndsWhole(stream')
      /\ Ended(stream') = Append(Ended(stream), p)
  BY <1>1, StreamFact, OrderSend
<1>3. UnderWay' = Append(UnderWay, p)
  BY <1>2 DEF UnderWay
<1>4. FramerPipe!ServerWrites(p)
  BY <1>1, <1>3 DEF FramerPipe!ServerWrites
<1>5. Ordered'
  BY <1>2 DEF Ordered
<1> QED  BY <1>4, <1>5 DEF PipeStep, FramerPipe!Next

LEMMA TakeStep ==
    ASSUME FramerInv, Ordered, Framed, ConsumeInputCells(SizeExpected(AtHead)),
           (phase' # "none") <=> (phase # "none")
    PROVE  Ordered' /\ PipeStep
<1> DEFINE n == TrueSize(AtHead)
<1>1. Connected' = Connected
  BY DEF Connected
<1>2. /\ n \in 1 .. Len(stream) /\ n \in 0 .. Len(stream)
      /\ stream # <<>> /\ stream[1].index = 1
      /\ stream' = SubSeq(stream, n + 1, Len(stream))
  <2>1. /\ stream # <<>> /\ stream[1].index = 1 /\ SizeExpected(AtHead) = n
        /\ n \in 1 .. inputSize /\ inputSize \in 0 .. Len(stream) /\ Len(stream) \in Nat
    BY FramedFact
  <2>2. stream' = SubSeq(stream, SizeExpected(AtHead) + 1, Len(stream))
    BY DEF ConsumeInputCells
  <2> HIDE DEF n
  <2>3. n \in 1 .. Len(stream) /\ n \in 0 .. Len(stream)
    BY <2>1
  <2> QED  BY <2>1, <2>2, <2>3
<1>3. Ended(stream) # <<>> /\ Ended(stream') = Tail(Ended(stream))
  <2>1. n = TrueSize(stream[1].packet)
    BY DEF AtHead
  <2> HIDE DEF n
  <2> QED  BY <1>2, <2>1, StreamFact, EndedTake DEF Ordered
<1>4. InOrder(stream') /\ (EndsWhole(stream) => EndsWhole(stream'))
  <2> HIDE DEF n
  <2> QED  BY <1>2, StreamFact, OrderRest DEF Ordered
<1>5. UnderWay # <<>> /\ UnderWay' = Tail(UnderWay)
  BY <1>3 DEF UnderWay
<1>6. FramerPipe!ClientReads
  BY <1>1, <1>5 DEF FramerPipe!ClientReads
<1>7. Ordered'
  BY <1>1, <1>4 DEF Ordered
<1> QED  BY <1>6, <1>7 DEF PipeStep, FramerPipe!Next

LEMMA FramerStep ==
    ASSUME FramerInv, Ordered, [FramerNext]_framerVars
    PROVE  Ordered' /\ PipeStep
<1>1. CASE Connect
  BY <1>1, OpenStep DEF Connect
<1>2. CASE SessionIsLost
  BY <1>2, LostStep DEF SessionIsLost
<1>3. ASSUME NEW t \in Tickets, NEW extra \in Extras, StartRequest(t, extra)
      PROVE  Ordered' /\ PipeStep
  BY <1>3, StillStep DEF StartRequest
<1>4. ASSUME NEW t \in Tickets, Collect(t) \/ Abandon(t)
      PROVE  Ordered' /\ PipeStep
  BY <1>4, StillStep DEF Collect, Abandon
<1>5. ASSUME NEW n \in 0 .. MaxCells, PumpCells(n)
      PROVE  Ordered' /\ PipeStep
  BY <1>5, StillStep DEF PumpCells
<1>6. ASSUME NEW p \in Packets, ServerAnswers(p) \/ ServerNotifies(p)
      PROVE  Ordered' /\ PipeStep
  BY <1>6, SendStep DEF ServerAnswers, ServerNotifies
<1>7. CASE WaitForMore
  BY <1>7, StillStep DEF WaitForMore
<1>8. CASE GiveUpOnStream \/ LoseItAccepting
  BY <1>8, LostStep DEF GiveUpOnStream, LoseItAccepting, LosesConnection
<1>9. CASE TakeResponse
  <2>1. (phase' # "none") <=> (phase # "none")
    BY <1>9 DEF TakeResponse
  <2> QED  BY <1>9, <2>1, TakeStep DEF TakeResponse
<1>10. CASE TakePacket
  <2>1. (phase' # "none") <=> (phase # "none")
    BY <1>10 DEF TakePacket
  <2> QED  BY <1>10, <2>1, TakeStep DEF TakePacket
<1>11. CASE RefuseLogin
  BY <1>11, LostStep DEF RefuseLogin
<1>12. CASE UNCHANGED framerVars
  <2>1. UNCHANGED <<stream, phase>>
    BY <1>12 DEF framerVars
  <2> QED  BY <2>1, StillStep
<1> QED
  BY <1>1, <1>2, <1>3, <1>4, <1>5, <1>6, <1>7, <1>8, <1>9, <1>10, <1>11, <1>12
     DEF FramerNext

\* However the stream is cut into parts by what arrives, the packets come out of
\* ProcessInput once each and in the order in which they were sent, and only the
\* end of a connection takes any of them away (ProcessInput, ConsumeInput).
THEOREM FramerIsAPipe == FramerSpec => FramesPackets
<1>1. FramerInit => Ordered /\ FramerPipe!Init
  <2> SUFFICES ASSUME FramerInit PROVE Ordered /\ FramerPipe!Init
    OBVIOUS
  <2>1. stream = <<>> /\ Connected = FALSE
    BY DEF FramerInit, Connected
  <2>2. Ordered
    BY <2>1, EmptyOrdered DEF Ordered
  <2>3. UnderWay = <<>>
    BY <2>1, EndedEmpty DEF UnderWay
  <2> QED  BY <2>1, <2>2, <2>3 DEF FramerPipe!Init
<1>2. FramerSpec => []Ordered
  BY <1>1, FramerStep, FramerInvariant, PTL DEF FramerSpec
<1>3. FramerInv /\ Ordered /\ [FramerNext]_framerVars => [FramerPipe!Next]_(FramerPipe!vars)
  BY FramerStep DEF PipeStep
<1> QED
  BY <1>1, <1>2, <1>3, FramerInvariant, PTL DEF FramerSpec, FramesPackets, FramerPipe!Spec
=============================================================================
