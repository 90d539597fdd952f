---------------------- MODULE DSNetManagerTicketProofs ----------------------
(***************************************************************************)
(* The ticket invariant of DSNetManager: of every ticket drawn, at most    *)
(* one packet is under way on the connection, and while the session lasts  *)
(* the table has an entry for it if and only if its reply is one to be cut *)
(* out by length.  From it follow InSync, that no two waiters share a      *)
(* transaction, that a waiter is told of the user it asked about, and that *)
(* the block-and-poll queries keep the contract of BlockingQueries.        *)
(*                                                                         *)
(* The invariant is stated of a connection, a table and a counter given as *)
(* parameters, and the lemmas say which changes of the three keep it; each *)
(* action is then shown to make one of those changes.                      *)
(***************************************************************************)
EXTENDS DSNetManagerProofs

-----------------------------------------------------------------------------
(* The packets under way and their tickets.                                *)

Asks    == TransactionRequests \cup {"HANDSHAKE"}
Quoting == Asks \cup {"RESPONSE", "HANDSHAKE_RESPONSE"}

Flying(c) == Range(Requests(c)) \cup c.owed \cup Range(Replies(c))

Same(p, q) == p.ticket = q.ticket /\ p.ticket # 0

OneEach(s)   == \A i, j \in DOMAIN s : i # j => ~Same(s[i], s[j])
Apart(s, t)  == \A i \in DOMAIN s, j \in DOMAIN t : ~Same(s[i], t[j])
ApartOf(s, S) == \A i \in DOMAIN s, q \in S : ~Same(s[i], q)

\* No two packets under way quote the same ticket.
TicketsApart(c) ==
    /\ OneEach(Requests(c)) /\ OneEach(Replies(c))
    /\ Apart(Requests(c), Replies(c))
    /\ ApartOf(Requests(c), c.owed) /\ ApartOf(Replies(c), c.owed)
    /\ \A q, r \in c.owed : q # r => ~Same(q, r)

\* How long the fixed part of the reply is that a packet is or asks for.
Extra(p) == IF p.type \in Asks THEN ReplyExtra(p.type) ELSE p.extra

\* The table knows the reply a packet is or asks for, and takes no reply to
\* a handshake for one.
Fits(p, table) ==
    /\ p.type \in {"HANDSHAKE", "HANDSHAKE_RESPONSE"} => p.ticket \notin DOMAIN table
    /\ p.type \in TransactionRequests \cup {"RESPONSE"} =>
         /\ p.ticket \in DOMAIN table
         /\ ~table[p.ticket].done
         /\ table[p.ticket].fixedExtra = Extra(p)

\* Tickets quoted were drawn, and every packet that quotes one is of a type
\* that does.
Numbered(p, n) == p.ticket <= n /\ (p.ticket # 0 <=> p.type \in Quoting)

\* The invariant, of connection c, the table, the counter n, and whether a
\* session is being made or held.
Flight(c, table, n, live) ==
    /\ Quiet(c)
    /\ \A q \in c.owed : IsRequest(q)
    /\ \A p \in Flying(c) : Numbered(p, n)
    /\ \A t \in DOMAIN table : t <= n
    /\ live => TicketsApart(c) /\ \A p \in Flying(c) : Fits(p, table)

Live(ph) == ph \in {"CONNECTING", "AWAIT_HANDSHAKE", "ONLINE"}

FlightInv == Flight(conn, transactions, nextTicket, Live(phase))

-----------------------------------------------------------------------------
(* Packets that move along.                                                *)

\* Packets under way are packets.
LEMMA FlyingFact ==
    ASSUME NEW c \in Connection
    PROVE  /\ \A p \in Flying(c) : p \in Packet /\ p.ticket \in Nat
           /\ \A i \in DOMAIN Requests(c) : i \in Int /\ Requests(c)[i] \in Flying(c)
           /\ \A i \in DOMAIN Replies(c) : i \in Int /\ Replies(c)[i] \in Flying(c)
           /\ \A i \in DOMAIN Requests(c) : Requests(c)[i] \in ClientPacket
           /\ \A i \in DOMAIN Replies(c) : Replies(c)[i] \in ServerPacket
           /\ c.owed \subseteq ClientPacket
<1>1. /\ \A i \in DOMAIN Requests(c) : i \in Int /\ Requests(c)[i] \in ClientPacket
      /\ \A i \in DOMAIN Replies(c) : i \in Int /\ Replies(c)[i] \in ServerPacket
  BY TrafficFact, LenProperties, ElementOfSeq
<1>2. c.owed \subseteq ClientPacket
  BY DEF Connection
<1>3. ClientPacket \subseteq Packet /\ ServerPacket \subseteq Packet
  BY DEF ClientPacket, ServerPacket
<1>4. \A p \in Flying(c) : p \in Packet
  BY <1>1, <1>2, <1>3 DEF Flying, Range
<1>5. \A p \in Packet : p.ticket \in Nat
  BY DEF Packet
<1> QED  BY <1>1, <1>2, <1>4, <1>5 DEF Flying, Range

\* A packet written is behind the ones under way.
LEMMA AddedFact ==
    ASSUME NEW c \in Connection, NEW p \in ClientPacket
    PROVE  LET s == Requests(c) \o <<p>>
           IN  \A i \in DOMAIN s :
                 \/ i \in DOMAIN Requests(c) /\ s[i] = Requests(c)[i]
                 \/ i = Len(Requests(c)) + 1 /\ s[i] = p
<1>1. /\ Requests(c) \in Seq(ClientPacket) /\ <<p>> \in Seq(ClientPacket)
      /\ Len(<<p>>) = 1 /\ <<p>>[1] = p
  BY TrafficFact
<1>2. Joins(Requests(c) \o <<p>>, Requests(c), <<p>>)
  BY <1>1, PacketsJoin, Zenon
<1>3. DOMAIN Requests(c) = 1 .. Len(Requests(c))
  BY <1>1, LenProperties
<1> DEFINE s == Requests(c) \o <<p>>
<1> HIDE DEF s
<1>4. Joins(s, Requests(c), <<p>>)
  BY <1>2 DEF s
<1>5. ASSUME NEW i \in DOMAIN s
      PROVE  \/ i \in DOMAIN Requests(c) /\ s[i] = Requests(c)[i]
             \/ i = Len(Requests(c)) + 1 /\ s[i] = p
  <2>1. i \in 1 .. Len(Requests(c)) + 1 /\ Len(Requests(c)) \in Nat
    BY <1>1, <1>4 DEF Joins
  <2>2. \A j \in 1 .. 1 : s[j + Len(Requests(c))] = <<p>>[j]
    BY <1>1, <1>4 DEF Joins
  <2>3. s[1 + Len(Requests(c))] = p
    BY <1>1, <2>2
  <2>4. CASE i = Len(Requests(c)) + 1
    BY <2>1, <2>3, <2>4
  <2>5. CASE i \in 1 .. Len(Requests(c))
    BY <1>3, <1>4, <2>5 DEF Joins
  <2> QED  BY <2>1, <2>4, <2>5
<1> QED  BY <1>5 DEF s

\* Nothing is under way that was not, but for the packet written.
LEMMA CarriesFlying ==
    ASSUME NEW c \in Connection, NEW d \in Connection, NEW p \in ClientPacket,
           Carries(c, d, <<p>>)
    PROVE  Flying(d) \subseteq Flying(c) \cup {p}
<1> DEFINE s == Requests(c) \o <<p>>
<1>1. \A i \in DOMAIN s : s[i] \in Range(Requests(c)) \cup {p}
  <2>1. \A i \in DOMAIN s :
                 \/ i \in DOMAIN Requests(c) /\ s[i] = Requests(c)[i]
                 \/ i = Len(Requests(c)) + 1 /\ s[i] = p
    BY AddedFact
  <2> HIDE DEF s
  <2> QED  BY <2>1 DEF Range
<1>2. Stretch(Requests(d), s) /\ Stretch(Replies(d), Replies(c)) /\ d.owed \subseteq c.owed
  BY DEF Carries
<1> HIDE DEF s
<1>3. Range(Requests(d)) \subseteq Range(Requests(c)) \cup {p}
  BY <1>1, <1>2 DEF Stretch, Range
<1>4. Range(Replies(d)) \subseteq Range(Replies(c))
  BY <1>2 DEF Stretch, Range
<1> QED  BY <1>2, <1>3, <1>4 DEF Flying

\* What holds of the tickets of a sequence holds of a stretch of it.
LEMMA StretchApart ==
    ASSUME NEW s, NEW t, Stretch(s, t), DOMAIN s \subseteq Int
    PROVE  /\ OneEach(t) => OneEach(s)
           /\ \A S : ApartOf(t, S) => ApartOf(s, S)
<1>1. PICK k \in Nat : \A i \in DOMAIN s : i + k \in DOMAIN t /\ s[i] = t[i + k]
  BY DEF Stretch
<1>2. \A i, j \in Int : i # j => i + k # j + k
  OBVIOUS
<1>3. \A i, j \in DOMAIN s : i # j => i + k # j + k
  BY <1>2
<1> QED  BY <1>1, <1>3 DEF OneEach, ApartOf

\* The same of two sequences.
LEMMA StretchesApart ==
    ASSUME NEW s, NEW t, NEW u, NEW v, Stretch(s, t), Stretch(u, v), Apart(t, v)
    PROVE  Apart(s, u)
BY DEF Stretch, Apart

\* A packet of a ticket nobody quotes may be written.
LEMMA CarriesApart ==
    ASSUME NEW c \in Connection, NEW d \in Connection, NEW p \in ClientPacket,
           Carries(c, d, <<p>>), TicketsApart(c),
           \A q \in Flying(c) : ~Same(q, p)
    PROVE  TicketsApart(d)
<1> DEFINE s == Requests(c) \o <<p>>
<1>1. \A i \in DOMAIN s :
                 \/ i \in DOMAIN Requests(c) /\ s[i] = Requests(c)[i]
                 \/ i = Len(Requests(c)) + 1 /\ s[i] = p
  BY AddedFact
<1>2. Stretch(Requests(d), s) /\ Stretch(Replies(d), Replies(c)) /\ d.owed \subseteq c.owed
  BY DEF Carries
<1> HIDE DEF s
<1>3. /\ \A q \in Range(Requests(c)) \cup c.owed \cup Range(Replies(c)) :
            ~Same(q, p) /\ ~Same(p, q)
      /\ \A i \in DOMAIN Requests(c) : ~Same(Requests(c)[i], p) /\ ~Same(p, Requests(c)[i])
      /\ \A i \in DOMAIN Replies(c) : ~Same(Replies(c)[i], p) /\ ~Same(p, Replies(c)[i])
  BY DEF Flying, Same, Range
<1>4. OneEach(s)
  BY <1>1, <1>3 DEF OneEach, TicketsApart
<1>5. Apart(s, Replies(c))
  BY <1>1, <1>3 DEF Apart, TicketsApart
<1>6. ApartOf(s, c.owed)
  BY <1>1, <1>3 DEF ApartOf, TicketsApart
<1>7. DOMAIN Requests(d) \subseteq Int /\ DOMAIN Replies(d) \subseteq Int
  BY FlyingFact
<1>8. OneEach(Requests(d)) /\ ApartOf(Requests(d), d.owed)
  <2>1. ApartOf(Requests(d), c.owed) /\ OneEach(Requests(d))
    BY <1>2, <1>4, <1>6, <1>7, StretchApart
  <2> QED  BY <1>2, <2>1 DEF ApartOf
<1>9. OneEach(Replies(d)) /\ ApartOf(Replies(d), d.owed)
  <2>1. ApartOf(Replies(d), c.owed) /\ OneEach(Replies(d))
    BY <1>2, <1>7, StretchApart DEF TicketsApart
  <2> QED  BY <1>2, <2>1 DEF ApartOf
<1>10. Apart(Requests(d), Replies(d))
  BY <1>2, <1>5, StretchesApart
<1> QED  BY <1>2, <1>8, <1>9, <1>10 DEF TicketsApart

-----------------------------------------------------------------------------
(* Changes of the table.                                                   *)

\* Whoever still expects a reply keeps the entry, and what was answered stays
\* as it was answered.
Keeps(old, new) ==
    /\ DOMAIN new \subseteq DOMAIN old
    /\ \A t \in DOMAIN old :
         ~old[t].done => /\ t \in DOMAIN new /\ ~new[t].done
                         /\ new[t].fixedExtra = old[t].fixedExtra
    /\ \A t \in DOMAIN new :
         new[t].done => old[t].done /\ new[t].about = old[t].about

\* One more reply is expected.
Expects(old, new, ticket, extra) ==
    /\ DOMAIN new = DOMAIN old \cup {ticket}
    /\ ~new[ticket].done /\ new[ticket].fixedExtra = extra
    /\ \A t \in DOMAIN old \ {ticket} : new[t] = old[t]

\* A waiter that gives up and one that reads its answer (AbandonTransaction,
\* PollTransaction).
LEMMA GivingUpKeeps ==
    ASSUME NEW table, IsTable(table), NEW ticket
    PROVE  /\ Keeps(table, table)
           /\ Keeps(table, AbandonTransaction(table, ticket))
           /\ ticket \in DOMAIN table /\ table[ticket].done =>
                Keeps(table, Erase(table, ticket))
<1>1. Keeps(table, table)
  BY DEF Keeps
<1>2. ASSUME ticket \in DOMAIN table, table[ticket].done
      PROVE  Keeps(table, Erase(table, ticket))
  BY <1>2 DEF Keeps, Erase, Restrict
<1>3. CASE ticket \notin DOMAIN table
  BY <1>1, <1>3 DEF AbandonTransaction
<1>4. CASE ticket \in DOMAIN table /\ table[ticket].done
  BY <1>1, <1>2, <1>4 DEF AbandonTransaction
<1>5. CASE ticket \in DOMAIN table /\ ~table[ticket].done
  <2> DEFINE new == AbandonTransaction(table, ticket)
             entry == [table[ticket] EXCEPT !.kind = "TRANS_ABANDONED"]
  <2>1. new = [table EXCEPT ![ticket] = entry]
    BY <1>5 DEF AbandonTransaction
  <2>2. entry.done = table[ticket].done /\ entry.fixedExtra = table[ticket].fixedExtra
    BY <1>5 DEF IsTable, Transaction
  <2> HIDE DEF new, entry
  <2>3. DOMAIN new = DOMAIN table /\ new[ticket] = entry
        /\ \A t \in DOMAIN table \ {ticket} : new[t] = table[t]
    BY <1>5, <2>1 DEF IsTable
  <2>4. Keeps(table, new)
    BY <1>5, <2>2, <2>3 DEF Keeps
  <2> QED  BY <1>1, <1>5, <2>4 DEF new
<1> QED  BY <1>1, <1>2, <1>3, <1>4, <1>5

\* A started transaction expects its reply, and goes on to when whoever
\* started it gives up at once (StartTransaction, AbandonTransaction).
LEMMA StartingExpects ==
    ASSUME NEW table, IsTable(table), NEW ticket \in Nat \ {0},
           NEW kind \in TransactionKind, NEW extra \in Nat
    PROVE  LET new == StartTransaction(table, ticket, kind, extra)
           IN  /\ Expects(table, new, ticket, extra)
               /\ Expects(table, AbandonTransaction(new, ticket), ticket, extra)
               /\ new[ticket].kind = kind
<1> DEFINE entry == [kind |-> kind, fixedExtra |-> extra, done |-> FALSE,
                     success |-> FALSE, about |-> Nobody]
           new == StartTransaction(table, ticket, kind, extra)
           later == AbandonTransaction(new, ticket)
           left == [entry EXCEPT !.kind = "TRANS_ABANDONED"]
<1>1. /\ DOMAIN new = DOMAIN table \cup {ticket} /\ new[ticket] = entry
      /\ \A t \in DOMAIN table \ {ticket} : new[t] = table[t]
  BY DEF StartTransaction, Insert
<1>2. /\ entry.done = FALSE /\ entry.fixedExtra = extra /\ entry.kind = kind
      /\ left.done = FALSE /\ left.fixedExtra = extra
  OBVIOUS
<1>3. new = [t \in DOMAIN new |-> new[t]]
  BY DEF StartTransaction, Insert
<1> HIDE DEF new, entry, left
<1>4. later = [new EXCEPT ![ticket] = left]
  BY <1>1, <1>2 DEF AbandonTransaction, left
<1> HIDE DEF later
<1>5. /\ DOMAIN later = DOMAIN new /\ later[ticket] = left
      /\ \A t \in DOMAIN table \ {ticket} : later[t] = new[t]
  BY <1>1, <1>3, <1>4
<1>6. Expects(table, new, ticket, extra) /\ Expects(table, later, ticket, extra)
  BY <1>1, <1>2, <1>5 DEF Expects
<1> QED  BY <1>1, <1>2, <1>6 DEF new, later

-----------------------------------------------------------------------------
(* Changes that keep the invariant.                                        *)

\* A reply still due is due after others gave up.
LEMMA KeepsFits ==
    ASSUME NEW p, NEW old, NEW new, Keeps(old, new), Fits(p, old)
    PROVE  Fits(p, new)
BY DEF Keeps, Fits

\* A packet that quotes no ticket is no matter of the table's.
LEMMA NoTicketFits ==
    ASSUME NEW p \in Packet, p.ticket = 0, p.type \notin Quoting
    PROVE  /\ \A n \in Nat : Numbered(p, n)
           /\ \A table : Fits(p, table)
           /\ \A q : ~Same(q, p) /\ ~Same(p, q)
BY DEF Numbered, Fits, Same, Quoting, Asks, Packet

\* Packets move along or are written without a ticket, and nobody is given up
\* who expects a reply; or the session is over.
LEMMA KeptFlight ==
    ASSUME NEW c \in Connection, NEW d \in Connection, NEW p \in ClientPacket,
           p.ticket = 0, p.type \notin Quoting, Carries(c, d, <<p>>),
           NEW old, NEW new, NEW n \in Nat, NEW was \in BOOLEAN, NEW live \in BOOLEAN,
           Flight(c, old, n, was),
           \/ Keeps(old, new) /\ (live => was)
           \/ DOMAIN new = {} /\ ~live
    PROVE  Flight(d, new, n, live)
<1>1. p \in Packet
  BY DEF ClientPacket
<1>2. \A q \in Flying(d) : q \in Flying(c) \/ q = p
  BY CarriesFlying
<1>3. \A q \in Flying(d) : Numbered(q, n)
  BY <1>1, <1>2, NoTicketFits DEF Flight
<1>4. Quiet(d) /\ \A q \in d.owed : IsRequest(q)
  BY DEF Carries, Flight
<1>5. \A t \in DOMAIN new : t <= n
  BY DEF Keeps, Flight
<1>6. ASSUME live
      PROVE  TicketsApart(d) /\ \A q \in Flying(d) : Fits(q, new)
  <2>1. TicketsApart(c) /\ \A q \in Flying(c) : Fits(q, old)
    BY <1>6 DEF Flight
  <2>2. TicketsApart(d)
    BY <1>1, <2>1, NoTicketFits, CarriesApart
  <2>3. Keeps(old, new)
    BY <1>6
  <2> QED  BY <1>1, <1>2, <2>1, <2>2, <2>3, NoTicketFits, KeepsFits
<1> QED  BY <1>3, <1>4, <1>5, <1>6 DEF Flight

\* A request with the next ticket is written, and its reply expected; or the
\* session is over.
LEMMA AskedFlight ==
    ASSUME NEW c \in Connection, NEW d \in Connection, NEW p \in ClientPacket,
           NEW old, NEW new, NEW n \in Nat, NEW was \in BOOLEAN, NEW live \in BOOLEAN,
           p.ticket = n + 1, p.type \in Asks, Carries(c, d, <<p>>),
           Flight(c, old, n, was), DOMAIN old \subseteq Nat,
           \/ /\ live => was
              /\ IF p.type = "HANDSHAKE" THEN new = old
                 ELSE Expects(old, new, p.ticket, ReplyExtra(p.type))
           \/ DOMAIN new = {} /\ ~live
    PROVE  Flight(d, new, n + 1, live)
<1>1. p \in Packet /\ n + 1 \in Nat \ {0} /\ ~(n + 1 <= n)
  BY DEF ClientPacket
<1>2. \A q \in Flying(d) : q \in Flying(c) \/ q = p
  BY CarriesFlying
<1>3. \A q \in Flying(c) : q.ticket \in Nat /\ q.ticket <= n /\ q.ticket # p.ticket
  BY <1>1, FlyingFact DEF Flight, Numbered
<1>4. \A q \in Flying(d) : Numbered(q, n + 1)
  <2>1. Numbered(p, n + 1)
    BY <1>1 DEF Numbered, Quoting
  <2>2. \A q \in Flying(c) : Numbered(q, n + 1)
    <3>1. \A m \in Nat : m <= n => m <= n + 1
      OBVIOUS
    <3> QED  BY <1>3, <3>1 DEF Flight, Numbered
  <2> QED  BY <1>2, <2>1, <2>2
<1>5. Quiet(d) /\ \A q \in d.owed : IsRequest(q)
  BY DEF Carries, Flight
<1>6. \A t \in DOMAIN new : t <= n + 1
  <2>1. \A t \in DOMAIN old : t <= n + 1
    <3>1. \A m \in Nat : m <= n => m <= n + 1
      OBVIOUS
    <3> QED  BY <3>1 DEF Flight
  <2>2. \/ DOMAIN new \subseteq DOMAIN old \cup {p.ticket}
        \/ DOMAIN new = {}
    BY DEF Expects
  <2> QED  BY <1>1, <2>1, <2>2
<1>7. ASSUME live
      PROVE  TicketsApart(d) /\ \A q \in Flying(d) : Fits(q, new)
  <2>1. /\ TicketsApart(c) /\ \A q \in Flying(c) : Fits(q, old)
        /\ IF p.type = "HANDSHAKE" THEN new = old
           ELSE Expects(old, new, p.ticket, ReplyExtra(p.type))
    BY <1>7 DEF Flight
  <2>2. TicketsApart(d)
    BY <1>3, <2>1, CarriesApart DEF Same
  <2>3. p.ticket \notin DOMAIN old
    BY <1>1 DEF Flight
  <2>4. Fits(p, new)
    BY <2>1, <2>3 DEF Fits, Expects, Asks, TransactionRequests, Extra
  <2>5. \A q \in Flying(c) : Fits(q, new)
    BY <1>3, <2>1 DEF Fits, Expects
  <2> QED  BY <1>2, <2>2, <2>4, <2>5
<1> QED  BY <1>1, <1>4, <1>5, <1>6, <1>7 DEF Flight

\* A connection with nothing under way.
LEMMA FreshFlight ==
    ASSUME NEW c \in Connection, Requests(c) = <<>>, Replies(c) = <<>>,
           c.owed = {}, c.wire = <<>>, NEW table, NEW n \in Nat, NEW live \in BOOLEAN,
           \A t \in DOMAIN table : t <= n
    PROVE  Flight(c, table, n, live) /\ Flying(c) = {}
<1>1. DOMAIN Requests(c) = {} /\ DOMAIN Replies(c) = {}
  <2>1. DOMAIN <<>> = {}
    OBVIOUS
  <2> QED  BY <2>1
<1>2. Flying(c) = {}
  BY <1>1 DEF Flying, Range
<1>3. TicketsApart(c)
  BY <1>1 DEF TicketsApart, OneEach, Apart, ApartOf
<1> QED  BY <1>2, <1>3 DEF Flight, Quiet

\* With nothing added there is nothing more.
LEMMA CarriesMore ==
    ASSUME NEW c \in Connection, NEW d \in Connection, NEW p \in ClientPacket,
           Carries(c, d, <<>>)
    PROVE  Carries(c, d, <<p>>)
<1>1. /\ Requests(c) \in Seq(ClientPacket) /\ Requests(d) \in Seq(ClientPacket)
      /\ <<p>> \in Seq(ClientPacket) /\ Requests(c) \o <<>> = Requests(c)
      /\ DOMAIN Requests(d) \subseteq Int
  BY TrafficFact, FlyingFact
<1>2. Stretch(Requests(c), Requests(c) \o <<p>>)
  BY <1>1, StretchSelf
<1>3. Stretch(Requests(d), Requests(c))
  BY <1>1 DEF Carries
<1>4. Stretch(Requests(d), Requests(c) \o <<p>>)
  <2> DEFINE s == Requests(c) \o <<p>>
  <2>1. Stretch(Requests(c), s)
    BY <1>2
  <2> HIDE DEF s
  <2>2. Stretch(Requests(d), s)
    BY <1>1, <1>3, <2>1, StretchOfStretch
  <2> QED  BY <2>2 DEF s
<1> QED  BY <1>4 DEF Carries

\* What a reply does to the table: its own entry is done or gone.
Responds(old, new, p) ==
    /\ DOMAIN new \subseteq DOMAIN old
    /\ \A t \in DOMAIN old \ {p.ticket} : t \in DOMAIN new /\ new[t] = old[t]
    /\ p.ticket \in DOMAIN new => /\ new[p.ticket].about = p.about
                                  /\ new[p.ticket].kind = old[p.ticket].kind

\* HandleTransactionResponse does that.
LEMMA ResponseResponds ==
    ASSUME NEW table, IsTable(table), NEW p \in ServerPacket,
           p.ticket \in DOMAIN table
    PROVE  Responds(table, HandleTransactionResponse(table, p), p)
<1>1. CASE table[p.ticket].kind = "TRANS_ABANDONED"
  BY <1>1 DEF HandleTransactionResponse, Responds, Erase, Restrict
<1>2. CASE table[p.ticket].kind # "TRANS_ABANDONED"
  <2> DEFINE entry == table[p.ticket]
             answered == [entry EXCEPT !.done = TRUE,
                                       !.success = ResponseSucceeds(entry, p),
                                       !.about = p.about]
  <2>1. HandleTransactionResponse(table, p) = [table EXCEPT ![p.ticket] = answered]
    BY <1>2 DEF HandleTransactionResponse
  <2>2. answered.about = p.about /\ answered.kind = entry.kind
    BY DEF IsTable, Transaction
  <2> HIDE DEF answered
  <2> QED  BY <2>1, <2>2 DEF Responds, IsTable
<1> QED  BY <1>1, <1>2

\* The head of the input is taken out: no other packet under way has its
\* ticket.
LEMMA TakenOut ==
    ASSUME NEW c \in Connection, Quiet(c), c.input # <<>>, TicketsApart(c)
    PROVE  \A q \in Flying(ConsumeInput(c)) : ~Same(q, Head(c.input))
<1> DEFINE d == ConsumeInput(c)
           h == Head(c.input)
<1>1. /\ HeadGone(Replies(d), Replies(c), h) /\ d.owed = c.owed
      /\ Requests(d) = Requests(c)
  BY ConsumeInputCarries DEF ConsumeInput, Requests, Connection
<1> HIDE DEF d, h
<1>2. 1 \in DOMAIN Replies(c) /\ Replies(c)[1] = h
  BY <1>1 DEF HeadGone
<1>3. \A i \in DOMAIN Replies(d) : ~Same(Replies(d)[i], h)
  <2>1. \A i \in DOMAIN Replies(d) :
          /\ i + 1 \in DOMAIN Replies(c) /\ i + 1 # 1
          /\ Replies(d)[i] = Replies(c)[i + 1]
    BY <1>1 DEF HeadGone
  <2> QED  BY <1>2, <2>1 DEF TicketsApart, OneEach
<1>4. \A i \in DOMAIN Requests(c) : ~Same(Requests(c)[i], h)
  BY <1>2 DEF TicketsApart, Apart
<1>5. \A q \in c.owed : ~Same(q, h)
  BY <1>2 DEF TicketsApart, ApartOf, Same
<1>6. \A q \in Flying(d) : ~Same(q, h)
  BY <1>1, <1>3, <1>4, <1>5 DEF Flying, Range
<1> QED  BY <1>6 DEF d, h

\* A stream that lost its framing: what was read of it is one packet nobody
\* can read.
Garbled(c, g) == [c EXCEPT !.input = <<g>>]

LEMMA GarbledFlying ==
    ASSUME NEW c \in Connection, NEW g \in ServerPacket,
           NEW d \in Connection, d = Garbled(c, g)
    PROVE  /\ Flying(d) \subseteq Flying(c) \cup {g}
           /\ d.owed = c.owed /\ d.wire = c.wire /\ d.peer = c.peer
<1>1. /\ d.input = <<g>> /\ d.rx = c.rx /\ d.owed = c.owed /\ d.wire = c.wire
      /\ d.output = c.output /\ d.peer = c.peer
  BY DEF Connection, Garbled
<1>2. Requests(d) = Requests(c)
  BY <1>1 DEF Requests
<1>3. /\ c.input \in Seq(ServerPacket) /\ c.rx \in Seq(ServerPacket)
      /\ <<g>> \in Seq(ServerPacket) /\ Len(<<g>>) = 1 /\ <<g>>[1] = g
  BY TrafficFact
<1>4. Joins(Replies(d), <<g>>, c.rx)
  <2>1. Replies(d) = <<g>> \o c.rx
    BY <1>1 DEF Replies
  <2> QED  BY <1>3, <2>1, PacketsJoin, Zenon
<1>5. Joins(Replies(c), c.input, c.rx)
  BY <1>3, PacketsJoin, Zenon DEF Replies
<1>6. \A i \in DOMAIN Replies(d) : Replies(d)[i] \in Range(Replies(c)) \cup {g}
  <2> SUFFICES ASSUME NEW i \in DOMAIN Replies(d)
               PROVE  Replies(d)[i] \in Range(Replies(c)) \cup {g}
    OBVIOUS
  <2>1. i \in 1 .. 1 + Len(c.rx) /\ Len(c.rx) \in Nat
    BY <1>3, <1>4 DEF Joins
  <2>2. CASE i = 1
    BY <1>3, <1>4, <2>2 DEF Joins
  <2>3. CASE i # 1
    <3> DEFINE j == i - 1
    <3>1. j \in 1 .. Len(c.rx) /\ i = j + 1
      BY <2>1, <2>3
    <3> HIDE DEF j
    <3>2. Replies(d)[i] = c.rx[j]
      BY <1>3, <1>4, <3>1 DEF Joins
    <3>3. /\ Replies(c)[j + Len(c.input)] = c.rx[j]
          /\ j + Len(c.input) \in DOMAIN Replies(c)
      <4> DEFINE m == Len(c.input)
                 k == Len(c.rx)
                 r == Replies(c)
                 t == c.rx
      <4>1. /\ m \in Nat /\ k \in Nat /\ DOMAIN r = 1 .. m + k
            /\ \A i1 \in 1 .. k : r[i1 + m] = t[i1]
        BY <1>5 DEF Joins
      <4>2. j \in 1 .. k
        BY <3>1
      <4> HIDE DEF m, k, r, t
      <4>3. r[j + m] = t[j] /\ j + m \in DOMAIN r
        BY <4>1, <4>2
      <4> QED  BY <4>3 DEF m, r, t
    <3> QED  BY <3>2, <3>3 DEF Range
  <2> QED  BY <2>2, <2>3
<1> QED  BY <1>1, <1>2, <1>6 DEF Flying, Range

\* p is cut out of the stream of c, by the length its entry in the table says.
CutOut(c, d, table, p, g) ==
    /\ c.input # <<>> /\ p = Head(c.input) /\ p.ticket \in DOMAIN table
    /\ IF table[p.ticket].fixedExtra = p.extra THEN d = ConsumeInput(c)
                                               ELSE d = Garbled(c, g)

\* A reply is handled: it is cut out of the stream by the length its entry
\* says, and while the session lasts that is its length.
LEMMA RespondedFlight ==
    ASSUME NEW c \in Connection, NEW d \in Connection, NEW p,
           NEW g \in ServerPacket, g.ticket = 0, g.type \notin Quoting,
           NEW old, IsTable(old), NEW new, NEW n \in Nat, NEW live \in BOOLEAN,
           CutOut(c, d, old, p, g), Responds(old, new, p), Flight(c, old, n, live)
    PROVE  /\ Flight(d, new, n, live)
           /\ Flying(d) \subseteq Flying(c) \cup {g}
           /\ p \in Flying(c) /\ p \in ServerPacket
<1> /\ c.input # <<>> /\ p = Head(c.input) /\ p.ticket \in DOMAIN old
    /\ IF old[p.ticket].fixedExtra = p.extra THEN d = ConsumeInput(c)
                                             ELSE d = Garbled(c, g)
  BY DEF CutOut
<1>1. /\ p \in ServerPacket /\ p \in Flying(c)
  <2>1. HeadGone(Replies(ConsumeInput(c)), Replies(c), p)
    BY ConsumeInputCarries DEF Flight
  <2>2. 1 \in DOMAIN Replies(c) /\ Replies(c)[1] = p
    BY <2>1 DEF HeadGone
  <2> QED  BY <2>2, FlyingFact DEF Flying, Range
<1>2. g \in Packet /\ Quiet(c)
  BY DEF ServerPacket, Flight
<1>3. /\ Flying(d) \subseteq Flying(c) \cup {g} /\ Quiet(d)
      /\ \A q \in d.owed : IsRequest(q)
  <2>1. CASE d = ConsumeInput(c)
    <3>1. Carries(c, d, <<>>)
      BY <1>2, <2>1, ConsumeInputCarries
    <3>2. Requests(d) = Requests(c) /\ d.owed = c.owed
      BY <2>1 DEF ConsumeInput, Requests, Connection
    <3>3. Range(Replies(d)) \subseteq Range(Replies(c))
      BY <3>1 DEF Carries, Stretch, Range
    <3> QED  BY <3>1, <3>2, <3>3 DEF Flying, Flight, Carries
  <2>2. CASE d = Garbled(c, g)
    BY <1>2, <2>2, GarbledFlying DEF Quiet, Flight
  <2> QED  BY <2>1, <2>2
<1>4. \A q \in Flying(d) : Numbered(q, n)
  BY <1>2, <1>3, NoTicketFits DEF Flight
<1>5. \A t \in DOMAIN new : t <= n
  BY DEF Responds, Flight
<1>6. ASSUME live
      PROVE  TicketsApart(d) /\ \A q \in Flying(d) : Fits(q, new)
  <2>1. TicketsApart(c) /\ \A q \in Flying(c) : Fits(q, old)
    BY <1>6 DEF Flight
  <2>2. p.ticket # 0
    BY DEF IsTable
  <2>3. p.type \in Quoting /\ p.type \notin Asks
    BY <1>1, <2>2 DEF Flight, Numbered, ServerPacket, ServerPackets, Asks,
       TransactionRequests, UnsolicitedPackets, PresencePackets, IgnoredPackets
  <2>4. old[p.ticket].fixedExtra = p.extra
    BY <1>1, <2>1, <2>3 DEF Fits, Quoting, Extra
  <2>5. d = ConsumeInput(c) /\ Carries(c, d, <<>>)
    BY <1>2, <2>4, ConsumeInputCarries
  <2>6. PICK x \in ClientPacket : x.ticket = 0 /\ x.type \notin Quoting
    <3>1. OneWay("MESSAGE", Nobody, FALSE) \in ClientPacket
      BY DEF OneWay, ClientPacket, ClientPackets, Packet, Subject
    <3> QED  BY <3>1 DEF OneWay, Quoting, Asks, TransactionRequests
  <2>7. TicketsApart(d)
    BY <2>1, <2>5, <2>6, CarriesMore, CarriesApart DEF Same
  <2>8. \A q \in Flying(d) : q \in Flying(c) \/ q = g
    BY <1>3
  <2>9. \A q \in Flying(d) : ~Same(q, p)
    BY <1>2, <2>1, <2>5, TakenOut
  <2>10. \A q \in Flying(d) : q.ticket # p.ticket
    BY <2>2, <2>9 DEF Same
  <2>11. ASSUME NEW q \in Flying(d), Fits(q, old) PROVE Fits(q, new)
    BY <2>10, <2>11 DEF Fits, Responds
  <2>12. \A q \in Flying(d) : Fits(q, old)
    BY <1>2, <2>1, <2>8, NoTicketFits
  <2> QED  BY <2>7, <2>11, <2>12
<1> QED  BY <1>1, <1>3, <1>4, <1>5, <1>6 DEF Flight

-----------------------------------------------------------------------------
(* Changes the server and the network make.                                *)

\* The server reads a packet, and owes the answer if it is a request.
LEMMA ReceivedFlight ==
    ASSUME NEW c \in Connection, c.wire # <<>>, NEW table, NEW n \in Nat,
           NEW live \in BOOLEAN, Flight(c, table, n, live)
    PROVE  /\ Flight(ServerReceives(c), table, n, live)
           /\ Flying(ServerReceives(c)) \subseteq Flying(c)
<1> DEFINE d == ServerReceives(c)
           h == Head(c.wire)
<1>1. /\ Quiet(d) /\ Replies(d) = Replies(c) /\ d \in Connection
      /\ HeadGone(Requests(d), Requests(c), h)
      /\ d.owed = IF IsRequest(h) THEN c.owed \cup {h} ELSE c.owed
  BY ServerReceivesCarries, ServerReceivesFact DEF Flight
<1> HIDE DEF d, h
<1>2. 1 \in DOMAIN Requests(c) /\ Requests(c)[1] = h /\ h \in Flying(c)
  <2>1. 1 \in DOMAIN Requests(c) /\ Requests(c)[1] = h
    BY <1>1 DEF HeadGone
  <2> QED  BY <2>1 DEF Flying, Range
<1>3. \A i \in DOMAIN Requests(d) :
          /\ i + 1 \in DOMAIN Requests(c) /\ i + 1 # 1 /\ i \in Int
          /\ Requests(d)[i] = Requests(c)[i + 1]
  BY <1>1 DEF HeadGone
<1>4. Flying(d) \subseteq Flying(c)
  <2>1. Range(Requests(d)) \subseteq Range(Requests(c))
    BY <1>3 DEF Range
  <2>2. d.owed \subseteq c.owed \cup {h}
    BY <1>1
  <2> QED  BY <1>1, <1>2, <2>1, <2>2 DEF Flying
<1>5. \A q \in d.owed : IsRequest(q)
  BY <1>1 DEF Flight
<1>6. ASSUME TicketsApart(c)
      PROVE  TicketsApart(d)
  <2>1. OneEach(Requests(d)) /\ ApartOf(Requests(d), c.owed)
    <3>1. \A i, j \in Int : i # j => i + 1 # j + 1
      OBVIOUS
    <3> QED  BY <1>3, <1>6, <3>1 DEF TicketsApart, OneEach, ApartOf
  <2>2. Apart(Requests(d), Replies(d))
    BY <1>1, <1>3, <1>6 DEF TicketsApart, Apart
  <2>3. \A i \in DOMAIN Requests(d) : ~Same(Requests(d)[i], h)
    BY <1>2, <1>3, <1>6 DEF TicketsApart, OneEach
  <2>4. /\ \A i \in DOMAIN Replies(d) : ~Same(Replies(d)[i], h)
        /\ \A q \in c.owed : ~Same(q, h) /\ ~Same(h, q)
    BY <1>1, <1>2, <1>6 DEF TicketsApart, Apart, ApartOf, Same
  <2>5. ApartOf(Requests(d), d.owed)
    BY <1>1, <2>1, <2>3 DEF ApartOf
  <2>6. ApartOf(Replies(d), d.owed) /\ OneEach(Replies(d))
    BY <1>1, <1>6, <2>4 DEF TicketsApart, ApartOf
  <2>7. \A q, r \in d.owed : q # r => ~Same(q, r)
    BY <1>1, <1>6, <2>4 DEF TicketsApart
  <2> QED  BY <2>1, <2>2, <2>5, <2>6, <2>7 DEF TicketsApart
<1>7. Flight(d, table, n, live)
  BY <1>1, <1>4, <1>5, <1>6 DEF Flight
<1> QED  BY <1>4, <1>7 DEF d

\* Something is sent behind what was: what it may be for what is under way to
\* stay apart.
LEMMA SentApart ==
    ASSUME NEW c \in Connection, NEW d \in Connection, NEW r, TicketsApart(c),
           Requests(d) = Requests(c), d.owed \subseteq c.owed,
           \A i \in DOMAIN Replies(d) :
             \/ i \in DOMAIN Replies(c) /\ Replies(d)[i] = Replies(c)[i]
             \/ i = Len(Replies(c)) + 1 /\ Replies(d)[i] = r,
           \A i \in DOMAIN Requests(c) : ~Same(Requests(c)[i], r),
           \A i \in DOMAIN Replies(c) : ~Same(Replies(c)[i], r),
           \A q \in d.owed : ~Same(q, r)
    PROVE  TicketsApart(d)
<1>1. OneEach(Replies(d))
  BY DEF OneEach, TicketsApart, Same
<1>2. Apart(Requests(d), Replies(d))
  BY DEF Apart, TicketsApart
<1>3. ApartOf(Requests(d), d.owed) /\ ApartOf(Replies(d), d.owed)
  BY DEF ApartOf, TicketsApart, Same
<1>4. OneEach(Requests(d)) /\ \A q, s \in d.owed : q # s => ~Same(q, s)
  BY DEF TicketsApart
<1> QED  BY <1>1, <1>2, <1>3, <1>4 DEF TicketsApart

\* Of what is sent nothing else is under way anew.
LEMMA SentFlying ==
    ASSUME NEW c \in Connection, NEW d \in Connection, NEW r,
           Requests(d) = Requests(c), d.owed \subseteq c.owed,
           \A i \in DOMAIN Replies(d) :
             \/ i \in DOMAIN Replies(c) /\ Replies(d)[i] = Replies(c)[i]
             \/ i = Len(Replies(c)) + 1 /\ Replies(d)[i] = r
    PROVE  Flying(d) \subseteq Flying(c) \cup {r}
<1>1. Range(Replies(d)) \subseteq Range(Replies(c)) \cup {r}
  BY DEF Range
<1> QED  BY <1>1 DEF Flying

\* The server answers a request it owed the answer to.
LEMMA AnsweredFlight ==
    ASSUME NEW c \in Connection, NEW d \in Connection, NEW q \in c.owed,
           NEW r \in ServerPacket, r.ticket = q.ticket,
           r.type = IF q.type = "HANDSHAKE" THEN "HANDSHAKE_RESPONSE" ELSE "RESPONSE",
           r.extra = ReplyExtra(q.type),
           Requests(d) = Requests(c), d.owed = c.owed \ {q}, Quiet(d),
           \A i \in DOMAIN Replies(d) :
             \/ i \in DOMAIN Replies(c) /\ Replies(d)[i] = Replies(c)[i]
             \/ i = Len(Replies(c)) + 1 /\ Replies(d)[i] = r,
           NEW table, NEW n \in Nat, NEW live \in BOOLEAN, Flight(c, table, n, live)
    PROVE  Flight(d, table, n, live) /\ Flying(d) \subseteq Flying(c) \cup {r}
<1>1. Flying(d) \subseteq Flying(c) \cup {r}
  BY SentFlying
<1>2. q \in Flying(c) /\ q.type \in Asks
  BY DEF Flying, Flight, IsRequest, Asks
<1>3. Numbered(r, n)
  BY <1>2 DEF Flight, Numbered, Quoting
<1>4. ASSUME live
      PROVE  TicketsApart(d) /\ Fits(r, table) /\ \A p \in Flying(c) : Fits(p, table)
  <2>1. TicketsApart(c) /\ \A p \in Flying(c) : Fits(p, table)
    BY <1>4 DEF Flight
  <2>2. Fits(r, table)
    BY <1>2, <2>1 DEF Fits, Asks, Extra, TransactionRequests
  <2>3. /\ \A i \in DOMAIN Requests(c) : ~Same(Requests(c)[i], r)
        /\ \A i \in DOMAIN Replies(c) : ~Same(Replies(c)[i], r)
        /\ \A s \in d.owed : ~Same(s, r)
    BY <2>1 DEF TicketsApart, ApartOf, Same
  <2>4. d.owed \subseteq c.owed
    OBVIOUS
  <2>5. TicketsApart(d)
    BY <2>1, <2>3, <2>4, SentApart
  <2> QED  BY <2>1, <2>2, <2>5
<1>5. \A s \in d.owed : IsRequest(s)
  BY DEF Flight
<1> QED  BY <1>1, <1>3, <1>4, <1>5 DEF Flight

\* The server sends something of its own accord.
LEMMA VolunteeredFlight ==
    ASSUME NEW c \in Connection, NEW d \in Connection, NEW r \in ServerPacket,
           r.ticket = 0, r.type \notin Quoting,
           Requests(d) = Requests(c), d.owed = c.owed, Quiet(d),
           \A i \in DOMAIN Replies(d) :
             \/ i \in DOMAIN Replies(c) /\ Replies(d)[i] = Replies(c)[i]
             \/ i = Len(Replies(c)) + 1 /\ Replies(d)[i] = r,
           NEW table, NEW n \in Nat, NEW live \in BOOLEAN, Flight(c, table, n, live)
    PROVE  Flight(d, table, n, live) /\ Flying(d) \subseteq Flying(c) \cup {r}
<1>1. Flying(d) \subseteq Flying(c) \cup {r}
  BY SentFlying
<1>2. r \in Packet
  BY DEF ServerPacket
<1>3. Numbered(r, n) /\ Fits(r, table) /\ \A q : ~Same(q, r)
  BY <1>2, NoTicketFits
<1>4. TicketsApart(c) => TicketsApart(d)
  BY <1>3, SentApart
<1> QED  BY <1>1, <1>3, <1>4 DEF Flight

-----------------------------------------------------------------------------
(* The changes the actions make.                                           *)

\* Packets move along, and one without a ticket may be written.
Moves(c, d) ==
    \E p \in ClientPacket :
       p.ticket = 0 /\ p.type \notin Quoting /\ Carries(c, d, <<p>>)

\* A step that draws no ticket: nobody is given up who expects a reply, or the
\* session ends.
PlainStep ==
    /\ nextTicket' = nextTicket
    /\ Moves(conn, conn')
    /\ \/ Keeps(transactions, transactions') /\ (Live(phase') => Live(phase))
       \/ DOMAIN transactions' = {} /\ ~Live(phase')

\* A step that draws a ticket for request p and expects the reply, or ends
\* the session in the attempt to write it.
AskStep(p) ==
    /\ p \in ClientPacket /\ p.type \in Asks
    /\ p.ticket = nextTicket + 1 /\ nextTicket' = nextTicket + 1
    /\ Carries(conn, conn', <<p>>)
    /\ \/ /\ Live(phase') => Live(phase)
          /\ IF p.type = "HANDSHAKE" THEN transactions' = transactions
             ELSE Expects(transactions, transactions', p.ticket, ReplyExtra(p.type))
       \/ DOMAIN transactions' = {} /\ ~Live(phase')

\* A step that begins a connection.
FreshStep ==
    /\ UNCHANGED <<nextTicket, transactions>>
    /\ Requests(conn') = <<>> /\ Replies(conn') = <<>>
    /\ conn'.owed = {} /\ conn'.wire = <<>>

ReplyStep == \E p : ProcessTransactionResponse(p)

\* Where every step starts.
Ready == TypeOK /\ Quiet(conn)

LEMMA ReadyFact ==
    ASSUME Ready
    PROVE  /\ conn \in Connection /\ Quiet(conn) /\ IsTable(transactions)
           /\ nextTicket \in Nat
           /\ Keeps(transactions, transactions)
BY GivingUpKeeps DEF Ready, TypeOK, SessionTypeOK, TableTypeOK

\* Moving along is one way to move, and goes on with another.
LEMMA MovesFact ==
    ASSUME NEW c \in Connection, NEW d \in Connection
    PROVE  /\ Carries(c, d, <<>>) => Moves(c, d)
           /\ \A e \in Connection : Moves(c, d) /\ Carries(d, e, <<>>) => Moves(c, e)
           /\ Moves(c, d) => Quiet(d)
<1>1. OneWay("MESSAGE", Nobody, FALSE) \in ClientPacket
  BY DEF OneWay, ClientPacket, ClientPackets, Packet, Subject
<1>2. PICK x \in ClientPacket : x.ticket = 0 /\ x.type \notin Quoting
  BY <1>1 DEF OneWay, Quoting, Asks, TransactionRequests
<1>3. Carries(c, d, <<>>) => Moves(c, d)
  BY <1>2, CarriesMore DEF Moves
<1>4. ASSUME NEW e \in Connection, Moves(c, d), Carries(d, e, <<>>)
      PROVE  Moves(c, e)
  <2>1. PICK p \in ClientPacket :
           p.ticket = 0 /\ p.type \notin Quoting /\ Carries(c, d, <<p>>)
    BY <1>4 DEF Moves
  <2>2. <<p>> \in Seq(ClientPacket)
    OBVIOUS
  <2>3. Carries(c, e, <<p>>)
    BY <1>4, <2>1, <2>2, CarriesOn
  <2> QED  BY <2>1, <2>3 DEF Moves
<1>5. Moves(c, d) => Quiet(d)
  BY DEF Moves, Carries
<1> QED  BY <1>3, <1>4, <1>5

\* The socket is left alone or closed.
LEMMA StillMoves ==
    ASSUME NEW c \in Connection, Quiet(c)
    PROVE  /\ Moves(c, c) /\ Moves(c, Close(c)) /\ Close(c) \in Connection
           /\ Carries(c, Close(c), <<>>)
<1>1. <<>> \in Seq(ClientPacket)
  OBVIOUS
<1>2. Carries(c, c, <<>>)
  BY <1>1, SameTraffic
<1>3. Close(c) \in Connection /\ Carries(c, Close(c), <<>>)
  BY <1>1, CloseFact, CloseCarries
<1> QED  BY <1>2, <1>3, MovesFact

\* A packet without a ticket is written.
LEMMA WriteMoves ==
    ASSUME NEW c \in Connection, Quiet(c), NEW about \in Subject,
           NEW flag \in BOOLEAN,
           NEW type \in {"ADD_WWR_ENTRY", "REMOVE_WWR_ENTRY", "MESSAGE",
                         "VIRTUAL_CONNECT_ACCEPT"},
           NEW d \in Writes(c, <<OneWay(type, about, flag)>>)
    PROVE  d \in Connection /\ Moves(c, d) /\ Moves(c, Close(d)) /\ Quiet(d)
<1> DEFINE p == OneWay(type, about, flag)
<1>1. /\ p \in ClientPacket /\ <<p>> \in Seq(ClientPacket)
      /\ p.ticket = 0 /\ p.type \notin Quoting
  BY DEF OneWay, ClientPacket, ClientPackets, Packet, Quoting, Asks,
         TransactionRequests
<1> HIDE DEF p
<1>2. d \in Writes(c, <<p>>)
  BY DEF p
<1>3. d \in Connection /\ Carries(c, d, <<p>>)
  BY <1>1, <1>2, WritesFact, WritesCarries
<1>4. Moves(c, d) /\ Quiet(d)
  BY <1>1, <1>3 DEF Moves, Carries
<1> QED  BY <1>3, <1>4, StillMoves, MovesFact

\* A request is written.
LEMMA RequestCarries ==
    ASSUME NEW c \in Connection, Quiet(c), NEW about \in Subject,
           NEW type \in Asks, NEW ticket \in Nat,
           NEW d \in Writes(c, <<Request(type, about, ticket)>>)
    PROVE  LET p == Request(type, about, ticket)
           IN  /\ p \in ClientPacket /\ p.type = type /\ p.ticket = ticket
               /\ p.about = about
               /\ d \in Connection /\ Quiet(d)
               /\ Carries(c, d, <<p>>) /\ Carries(c, Close(d), <<p>>)
<1> DEFINE p == Request(type, about, ticket)
<1>1. /\ p \in ClientPacket /\ <<p>> \in Seq(ClientPacket)
      /\ p.ticket = ticket /\ p.type = type /\ p.about = about
  BY DEF Request, ClientPacket, ClientPackets, Packet, Asks
<1> HIDE DEF p
<1>2. d \in Writes(c, <<p>>)
  BY DEF p
<1>3. d \in Connection /\ Carries(c, d, <<p>>)
  BY <1>1, <1>2, WritesFact, WritesCarries
<1>4. Quiet(d)
  BY <1>3 DEF Carries
<1>5. Carries(c, Close(d), <<p>>)
  BY <1>1, <1>3, <1>4, StillMoves, CarriesOn
<1> QED  BY <1>1, <1>3, <1>4, <1>5 DEF p

\* A step that leaves connection, table and phase alone.
LEMMA IdleStep ==
    ASSUME Ready, UNCHANGED <<conn, transactions, nextTicket, phase>>
    PROVE  PlainStep
BY ReadyFact, StillMoves DEF PlainStep

\* A step that moves packets only.
LEMMA MovingStep ==
    ASSUME Ready, Moves(conn, conn'), UNCHANGED <<transactions, nextTicket>>,
           Live(phase') => Live(phase)
    PROVE  PlainStep
BY ReadyFact DEF PlainStep

\* The connection is lost, after a write or not (ConnectionLost).
LEMMA LosingStep ==
    ASSUME Ready, NEW c, ConnectionLost(c), Moves(conn, Close(c)),
           nextTicket' = nextTicket
    PROVE  PlainStep
BY DEF PlainStep, ConnectionLost, NoTransactions, Live

\* ConnectInBackground and Connect.
LEMMA ConnectChanges ==
    ASSUME Ready, NEW op, NEW users, ConnectInBackground(op, users)
    PROVE  PlainStep \/ FreshStep
<1>1. CASE UNCHANGED <<conn, sessionVars>>
  BY <1>1, IdleStep DEF ConnectInBackground, sessionVars, tableVars
<1>2. CASE StartConnecting(op)
  <2>1. PICK c \in BeginConnects(conn) :
           IF c.state = "FAILED"
           THEN /\ ConnectFails(c, "ERROR_OFFLINE")
                /\ Return(op, Nobody, FALSE, FALSE, Nobody)
                /\ UNCHANGED connectLate
           ELSE /\ conn' = c
                /\ phase' = "CONNECTING"
                /\ connectLate' = FALSE
                /\ ReturnBlock(op, Nobody)
                /\ UNCHANGED lastError
    BY <1>2 DEF StartConnecting
  <2>2. conn' = c /\ (c.state = "FAILED" => phase' = "FAILED")
        /\ UNCHANGED <<nextTicket, transactions>>
    BY <2>1 DEF ConnectFails, ConnectInBackground, tableVars
  <2>3. \/ c.state = "FAILED" /\ Carries(conn, c, <<>>)
        \/ /\ Requests(c) = <<>> /\ Replies(c) = <<>> /\ c.owed = {}
           /\ c.wire = <<>>
    BY ReadyFact, BeginConnectsCarries
  <2>4. c \in Connection
    BY ReadyFact, BeginConnectsFact
  <2>5. CASE c.state = "FAILED" /\ Carries(conn, c, <<>>)
    <3>1. Moves(conn, conn')
      BY <2>2, <2>4, <2>5, ReadyFact, MovesFact
    <3> QED  BY <2>2, <2>5, <3>1, MovingStep DEF Live
  <2> QED  BY <2>2, <2>3, <2>5 DEF FreshStep
<1> QED  BY <1>1, <1>2 DEF ConnectInBackground

\* Disconnect.
LEMMA DisconnectChanges == ASSUME Ready, Disconnect PROVE PlainStep
BY ReadyFact, StillMoves DEF Disconnect, PlainStep, NoTransactions, Live

\* PumpConnectPhase while the socket connects.
LEMMA PumpConnectChanges ==
    ASSUME Ready, PumpConnect
    PROVE  PlainStep \/ \E p : p.type = "HANDSHAKE" /\ AskStep(p)
<1>1. PICK c \in PumpConnects(conn) :
         CASE IsConnected(c) ->
                /\ nextTicket' = NextTicket
                /\ \E d \in Writes(c, <<Request("HANDSHAKE", Nobody, nextTicket')>>) :
                     IF IsConnected(d)
                     THEN /\ conn' = d
                          /\ phase' = "AWAIT_HANDSHAKE"
                          /\ UNCHANGED <<lastError, pc, call>>
                     ELSE /\ ConnectFails(d, "ERROR_OFFLINE")
                          /\ pc' = "return"
                          /\ UNCHANGED call
           [] c.state = "CONNECTING" ->
                /\ conn' = c
                /\ pc' = "pumped"
                /\ call' = [call EXCEPT !.login = TRUE, !.alive = TRUE]
                /\ UNCHANGED <<phase, lastError, nextTicket>>
           [] OTHER ->
                /\ ConnectFails(c, "ERROR_OFFLINE")
                /\ pc' = "return"
                /\ UNCHANGED <<nextTicket, call>>
  BY DEF PumpConnect
<1>2. /\ c \in Connection /\ Carries(conn, c, <<>>) /\ Quiet(c)
      /\ transactions' = transactions /\ phase = "CONNECTING"
  BY ReadyFact, PumpConnectsFact, PumpConnectsCarries DEF Carries, PumpConnect
<1>3. CASE ~IsConnected(c)
  <2>1. /\ conn' = c /\ nextTicket' = nextTicket
        /\ phase' \in {phase, "FAILED"}
    BY <1>1, <1>3 DEF IsConnected, ConnectFails
  <2>2. Moves(conn, conn')
    BY <1>2, <2>1, ReadyFact, MovesFact
  <2> QED  BY <1>2, <2>1, <2>2, MovingStep DEF Live
<1>4. CASE IsConnected(c)
  <2>1. PICK d \in Writes(c, <<Request("HANDSHAKE", Nobody, nextTicket')>>) :
          conn' = d /\ phase' \in {"AWAIT_HANDSHAKE", "FAILED"}
    BY <1>1, <1>4 DEF ConnectFails, IsConnected
  <2>2. nextTicket' = nextTicket + 1 /\ nextTicket' \in Nat /\ Nobody \in Subject
    BY <1>1, <1>4, ReadyFact DEF NextTicket, Subject, IsConnected
  <2> DEFINE p == Request("HANDSHAKE", Nobody, nextTicket')
  <2>3. /\ p \in ClientPacket /\ p.type = "HANDSHAKE" /\ p.ticket = nextTicket'
        /\ d \in Connection /\ Carries(c, d, <<p>>)
    BY <1>2, <2>1, <2>2, RequestCarries DEF Asks
  <2> HIDE DEF p
  <2>4. Carries(conn, d, <<p>>)
    <3>1. /\ Requests(c) \in Seq(ClientPacket) /\ Requests(conn) \in Seq(ClientPacket)
          /\ <<p>> \in Seq(ClientPacket)
      BY <1>2, <2>3, ReadyFact, TrafficFact
    <3>2. c = conn \/ c = Established(conn)
      BY <1>4, ReadyFact DEF PumpConnects, Fail, Close, NewSocket, IsConnected
    <3>3. Requests(c) = Requests(conn) /\ Replies(c) = Replies(conn) /\ c.owed = conn.owed
      BY <3>2, ReadyFact DEF Established, Connection, Requests, Replies
    <3> QED  BY <2>3, <3>3 DEF Carries
  <2>5. AskStep(p)
    BY <1>2, <2>1, <2>2, <2>3, <2>4 DEF AskStep, Live, Asks
  <2> QED  BY <2>3, <2>5
<1> QED  BY <1>3, <1>4

\* mySocket.Pump().
LEMMA PumpSocketChanges == ASSUME Ready, PumpSocket PROVE PlainStep
<1>1. conn' \in SocketPumps(conn) /\ UNCHANGED <<transactions, nextTicket, phase>>
  BY DEF PumpSocket, tableVars, sessionVars
<1>2. conn' \in Connection /\ Carries(conn, conn', <<>>)
  BY <1>1, ReadyFact, SocketPumpsFact, SocketPumpsCarries
<1>3. Moves(conn, conn')
  BY <1>2, ReadyFact, MovesFact
<1> QED  BY <1>1, <1>3, MovingStep

\* The ends of Pump and PumpConnectPhase.
LEMMA PumpEndChanges == ASSUME Ready, PumpEnd PROVE PlainStep
<1>1. CASE ConnectionLost(conn) /\ UNCHANGED nextTicket
  BY <1>1, ReadyFact, StillMoves, LosingStep
<1>2. CASE UNCHANGED <<conn, sessionVars, tableVars>>
  BY <1>2, IdleStep DEF sessionVars, tableVars
<1>3. CASE /\ conn' \in {conn, Close(conn)} /\ phase' \in {phase, "FAILED"}
           /\ UNCHANGED tableVars
  <2>1. Moves(conn, conn')
    BY <1>3, ReadyFact, StillMoves
  <2> QED  BY <1>3, <2>1, MovingStep DEF Live, tableVars
<1> QED  BY <1>1, <1>2, <1>3 DEF PumpEnd, ConnectFails

\* A packet with no ticket anybody waits for is consumed (ProcessInput).
LEMMA ConsumedMoves ==
    ASSUME Ready, NEW p, Processing(p)
    PROVE  Moves(conn, ConsumeInput(conn))
<1>1. conn.input # <<>> /\ ConsumeInput(conn) \in Connection
  BY ProcessingFact DEF Ready
<1> QED  BY <1>1, ReadyFact, ConsumeInputCarries, MovesFact

\* HandleHandshakeResponse.
LEMMA HandshakeResponseChanges ==
    ASSUME Ready, NEW p, ProcessHandshakeResponse(p)
    PROVE  PlainStep
<1>1. Processing(p) /\ UNCHANGED <<transactions, nextTicket>>
  BY DEF ProcessHandshakeResponse, tableVars
<1>2. \/ conn' = ConsumeInput(conn) /\ (Live(phase') => Live(phase))
      \/ conn' = ConsumeInput(Close(conn)) /\ phase' = "FAILED"
  BY DEF ProcessHandshakeResponse, ConnectFails, Live
<1>3. Moves(conn, ConsumeInput(Close(conn)))
  <2>1. /\ Close(conn) \in Connection /\ Moves(conn, Close(conn))
        /\ Close(conn).input # <<>> /\ Quiet(Close(conn))
    BY <1>1, ReadyFact, StillMoves, CloseFact, ProcessingFact DEF Ready, Carries
  <2>2. /\ ConsumeInput(Close(conn)) \in Connection
        /\ Carries(Close(conn), ConsumeInput(Close(conn)), <<>>)
    BY <2>1, ConsumeInputFact, ConsumeInputCarries
  <2> QED  BY <2>1, <2>2, ReadyFact, MovesFact
<1> QED  BY <1>1, <1>2, <1>3, ConsumedMoves, MovingStep DEF Live

\* SendWWRRegistrations.
LEMMA RegisterChanges == ASSUME Ready, RegisterNextUser PROVE PlainStep
<1> DEFINE u == Head(usersForWWR)
<1>1. u \in Users
  BY HeadTailProperties DEF RegisterNextUser, Ready, TypeOK, SessionTypeOK
<1>2. conn' = conn \/ conn' \in Writes(conn, <<OneWay("ADD_WWR_ENTRY", u, TRUE)>>)
  BY DEF RegisterNextUser
<1> HIDE DEF u
<1>3. UNCHANGED <<transactions, nextTicket, phase>>
  BY DEF RegisterNextUser, tableVars
<1>4. Moves(conn, conn')
  BY <1>1, <1>2, ReadyFact, StillMoves, WriteMoves DEF Subject
<1> QED  BY <1>3, <1>4, MovingStep

\* The answer to a delivery confirmation ping.
LEMMA VirtualConnectChanges ==
    ASSUME Ready, NEW p, ProcessVirtualConnect(p)
    PROVE  PlainStep
<1>1. Processing(p) /\ p.about \in Subject
  BY ProcessingFact DEF ProcessVirtualConnect, Ready, ServerPacket, Packet
<1>2. PICK c \in Writes(conn, <<OneWay("VIRTUAL_CONNECT_ACCEPT", p.about, TRUE)>>) :
         IF IsConnected(c)
         THEN /\ conn' = ConsumeInput(c)
              /\ UNCHANGED <<sessionVars, tableVars, pc, presenceVars>>
         ELSE /\ ConnectionLost(c)
              /\ pc' = "pumped"
              /\ UNCHANGED nextTicket
  BY DEF ProcessVirtualConnect
<1>3. c \in Connection /\ Moves(conn, c) /\ Moves(conn, Close(c)) /\ Quiet(c)
  BY <1>1, ReadyFact, WriteMoves
<1>4. CASE IsConnected(c)
  <2>1. c.input # <<>>
    <3>1. conn.input # <<>> /\ p.about \in Subject
      BY <1>1, ProcessingFact DEF Ready
    <3>2. <<OneWay("VIRTUAL_CONNECT_ACCEPT", p.about, TRUE)>> \in Seq(ClientPacket)
      BY <1>1, OneWayFact DEF ClientPackets
    <3> QED  BY <3>1, <3>2, ReadyFact, WritesFact
  <2>2. ConsumeInput(c) \in Connection /\ Carries(c, ConsumeInput(c), <<>>)
    BY <1>3, <2>1, ConsumeInputFact, ConsumeInputCarries
  <2>3. Moves(conn, ConsumeInput(c))
    BY <1>3, <2>2, ReadyFact, MovesFact
  <2> QED  BY <1>2, <1>4, <2>3, MovingStep DEF sessionVars, tableVars
<1>5. CASE ~IsConnected(c)
  BY <1>2, <1>3, <1>5, LosingStep
<1> QED  BY <1>4, <1>5

\* One round of ProcessInput.
LEMMA ProcessInputChanges ==
    ASSUME Ready, ProcessInput
    PROVE  PlainStep \/ ReplyStep
<1>1. CASE ProcessEnd
  BY <1>1, IdleStep DEF ProcessEnd, sessionVars, tableVars
<1> DEFINE p == Head(Packets)
<1>2. CASE ProcessTransactionResponse(p)
  BY <1>2 DEF ReplyStep
<1>3. CASE ProcessPresence(p) \/ ProcessMessage(p) \/ ProcessIgnored(p)
  <2>1. /\ Processing(p) /\ conn' = ConsumeInput(conn)
        /\ UNCHANGED <<transactions, nextTicket, phase>>
    BY <1>3 DEF ProcessPresence, ProcessMessage, ProcessIgnored, sessionVars,
       tableVars
  <2> QED  BY <2>1, ConsumedMoves, MovingStep
<1>4. CASE ProcessUnknown(p)
  <2>1. ConnectionLost(conn) /\ nextTicket' = nextTicket
    BY <1>4 DEF ProcessUnknown
  <2> QED  BY <2>1, ReadyFact, StillMoves, LosingStep
<1> QED  BY <1>1, <1>2, <1>3, <1>4, HandshakeResponseChanges,
            VirtualConnectChanges DEF ProcessInput

\* A request that is to have a reply: the table after the write.
LEMMA StartedExpects ==
    ASSUME Ready, NEW kind \in TransactionKind, NEW extra \in Nat
    PROVE  LET new == Started(kind, extra)
           IN  /\ Expects(transactions, new, nextTicket + 1, extra)
               /\ Expects(transactions, AbandonTransaction(new, nextTicket + 1),
                          nextTicket + 1, extra)
               /\ new[nextTicket + 1].kind = kind
<1>1. nextTicket + 1 \in Nat \ {0} /\ IsTable(transactions)
  BY ReadyFact
<1> QED  BY <1>1, StartingExpects DEF Started, NextTicket

\* IsUserOnline.
LEMMA IsUserOnlineChanges ==
    ASSUME Ready, NEW u \in Users, IsUserOnline(u)
    PROVE  \/ PlainStep /\ call' = NoCall /\ UNCHANGED <<conn, transactions>>
           \/ /\ AskStep(Request("GET_CONNECTION_DETAIL", u, nextTicket'))
              /\ \/ call' = NoCall
                 \/ /\ transactions' = Started("TRANS_CONNECTION_DETAIL", 0)
                    /\ RunPump("IsUserOnline", u, nextTicket')
<1>1. CASE /\ UNCHANGED <<conn, tableVars>>
           /\ call' = NoCall
  BY <1>1, IdleStep DEF IsUserOnline, sessionVars, tableVars
<1>2. ASSUME nextTicket' = NextTicket,
             NEW c \in Writes(conn, <<Request("GET_CONNECTION_DETAIL", u, nextTicket')>>),
             conn' = c,
             LET table == Started("TRANS_CONNECTION_DETAIL", 0)
             IN  IF IsConnected(c)
                 THEN /\ transactions' = table
                      /\ RunPump("IsUserOnline", u, nextTicket')
                 ELSE /\ transactions' = AbandonTransaction(table, nextTicket')
                      /\ Return("IsUserOnline", u, FALSE, FALSE, Nobody)
      PROVE  /\ AskStep(Request("GET_CONNECTION_DETAIL", u, nextTicket'))
             /\ \/ call' = NoCall
                \/ /\ transactions' = Started("TRANS_CONNECTION_DETAIL", 0)
                   /\ RunPump("IsUserOnline", u, nextTicket')
  <2> DEFINE p == Request("GET_CONNECTION_DETAIL", u, nextTicket')
  <2>1. /\ nextTicket' = nextTicket + 1 /\ nextTicket' \in Nat
        /\ u \in Subject /\ phase' = phase
    BY <1>2, ReadyFact DEF NextTicket, Subject, IsUserOnline, sessionVars
  <2>2. /\ p \in ClientPacket /\ p.type = "GET_CONNECTION_DETAIL"
        /\ p.ticket = nextTicket' /\ Carries(conn, c, <<p>>)
    BY <1>2, <2>1, ReadyFact, RequestCarries DEF Asks, TransactionRequests
  <2> HIDE DEF p
  <2>3. Expects(transactions, transactions', nextTicket', 0)
    <3> DEFINE new == Started("TRANS_CONNECTION_DETAIL", 0)
    <3>1. /\ Expects(transactions, new, nextTicket + 1, 0)
          /\ Expects(transactions, AbandonTransaction(new, nextTicket + 1),
                     nextTicket + 1, 0)
      BY StartedExpects DEF TransactionKind
    <3>2. transactions' \in {new, AbandonTransaction(new, nextTicket')}
      BY <1>2
    <3> HIDE DEF new
    <3> QED  BY <2>1, <3>1, <3>2
  <2>4. AskStep(p)
    BY <1>2, <2>1, <2>2, <2>3 DEF AskStep, Asks, TransactionRequests, ReplyExtra
  <2> QED  BY <1>2, <2>4 DEF p, Return
<1> QED  BY <1>1, <1>2 DEF IsUserOnline, Return

\* DSFeedHistory once online.
LEMMA FeedHistoryChanges ==
    ASSUME Ready, NEW op, FeedHistory(op)
    PROVE  /\ AskStep(Request("DS_FEED_HISTORY", Nobody, nextTicket'))
           /\ \/ WaitReturns(op, Nobody, FALSE, Nobody) /\ DOMAIN transactions' = {}
              \/ /\ transactions' = Started("TRANS_FEED_HISTORY", 0)
                 /\ RunPump(op, Nobody, nextTicket')
<1> DEFINE p == Request("DS_FEED_HISTORY", Nobody, nextTicket')
<1>1. PICK c \in Writes(conn, <<p>>) :
         IF IsConnected(c)
         THEN /\ conn' = c
              /\ transactions' = Started("TRANS_FEED_HISTORY", 0)
              /\ RunPump(op, Nobody, nextTicket')
              /\ UNCHANGED <<sessionVars, presenceVars>>
         ELSE /\ ConnectionLost(c)
              /\ WaitReturns(op, Nobody, FALSE, Nobody)
  BY DEF FeedHistory
<1>2. nextTicket' = nextTicket + 1 /\ nextTicket' \in Nat /\ Nobody \in Subject
  BY ReadyFact DEF FeedHistory, NextTicket, Subject
<1>3. /\ p \in ClientPacket /\ p.type = "DS_FEED_HISTORY" /\ p.ticket = nextTicket'
      /\ Carries(conn, c, <<p>>) /\ Carries(conn, Close(c), <<p>>)
  BY <1>2, ReadyFact, RequestCarries DEF Asks, TransactionRequests
<1> HIDE DEF p
<1>4. CASE IsConnected(c)
  <2>1. Expects(transactions, transactions', nextTicket', 0) /\ phase' = phase
    BY <1>1, <1>2, <1>4, StartedExpects DEF TransactionKind, sessionVars
  <2>2. AskStep(p)
    BY <1>1, <1>2, <1>3, <1>4, <2>1 DEF AskStep, Asks, TransactionRequests, ReplyExtra
  <2> QED  BY <1>1, <1>4, <2>2 DEF p
<1>5. CASE ~IsConnected(c)
  <2>1. conn' = Close(c) /\ phase' = "IDLE" /\ DOMAIN transactions' = {}
    BY <1>1, <1>5 DEF ConnectionLost, NoTransactions
  <2>2. AskStep(p)
    BY <1>2, <1>3, <2>1 DEF AskStep, Asks, TransactionRequests, Live
  <2> QED  BY <1>1, <1>5, <2>1, <2>2 DEF p
<1> QED  BY <1>4, <1>5

\* The first call of a query.
LEMMA StartQueryChanges ==
    ASSUME Ready, NEW op, NEW s \in Slot, NEW arg \in Subject,
           phase' = phase, StartQuery(op, s, arg)
    PROVE  /\ AskStep(Request(SlotRequest(s), arg, nextTicket'))
           /\ \/ call' = NoCall /\ UNCHANGED queries
              \/ /\ transactions' = Started(SlotKind(s), SlotExtra(s))
                 /\ queries' = [queries EXCEPT ![s] = [ticket |-> nextTicket',
                                                       late |-> FALSE]]
                 /\ ReturnBlock(op, arg)
<1> DEFINE p == Request(SlotRequest(s), arg, nextTicket')
<1>1. PICK c \in Writes(conn, <<p>>) :
         /\ conn' = c
         /\ LET table == Started(SlotKind(s), SlotExtra(s))
            IN  IF IsConnected(c)
                THEN /\ transactions' = table
                     /\ queries' = [queries EXCEPT ![s] =
                                      [ticket |-> nextTicket', late |-> FALSE]]
                     /\ ReturnBlock(op, arg)
                ELSE /\ transactions' = AbandonTransaction(table, nextTicket')
                     /\ Return(op, arg, FALSE, FALSE, Nobody)
                     /\ UNCHANGED queries
  BY DEF StartQuery
<1>2. nextTicket' = nextTicket + 1 /\ nextTicket' \in Nat
  BY ReadyFact DEF StartQuery, NextTicket
<1>3. /\ SlotRequest(s) \in TransactionRequests /\ SlotKind(s) \in TransactionKind
      /\ SlotExtra(s) = ReplyExtra(SlotRequest(s)) /\ SlotExtra(s) \in Nat
      /\ SlotRequest(s) \in Asks /\ SlotRequest(s) # "HANDSHAKE"
  BY ManagerAssumption DEF SlotRequest, SlotKind, SlotExtra, ReplyExtra,
     TransactionRequests, TransactionKind, Asks
<1>4. /\ p \in ClientPacket /\ p.type = SlotRequest(s) /\ p.ticket = nextTicket'
      /\ Carries(conn, c, <<p>>)
  BY <1>2, <1>3, ReadyFact, RequestCarries
<1> HIDE DEF p
<1>5. Expects(transactions, transactions', nextTicket', SlotExtra(s))
  BY <1>1, <1>2, <1>3, StartedExpects
<1>6. AskStep(p)
  BY <1>1, <1>2, <1>3, <1>4, <1>5 DEF AskStep
<1> QED  BY <1>1, <1>6 DEF p, Return

\* A query that is refused, or goes on to Pump.
LEMMA QueryChanges ==
    ASSUME Ready, NEW op, NEW s \in Slot, NEW arg \in Subject, Query(op, s, arg)
    PROVE  PlainStep \/ (StartQuery(op, s, arg) /\ phase' = phase)
<1>1. phase' = phase
  BY DEF Query, sessionVars
<1>2. CASE /\ transactions' = AbandonTransaction(transactions, queries[s].ticket)
           /\ UNCHANGED <<conn, nextTicket>>
  BY <1>1, <1>2, ReadyFact, StillMoves, GivingUpKeeps DEF PlainStep
<1>3. CASE UNCHANGED <<conn, tableVars, queries>>
  BY <1>1, <1>3, IdleStep DEF tableVars
<1> QED  BY <1>1, <1>2, <1>3 DEF Query

\* The ends of a wait and of a query.
LEMMA WaitEndChanges ==
    ASSUME Ready, ReturnWait \/ ReturnQuery PROVE PlainStep
<1>1. /\ UNCHANGED <<conn, nextTicket, phase>>
      /\ \E t : \/ transactions' = transactions
                \/ transactions' = AbandonTransaction(transactions, t)
                \/ /\ t \in DOMAIN transactions /\ transactions[t].done
                   /\ transactions' = Erase(transactions, t)
  <2>1. CASE ReturnWait
    BY <2>1 DEF ReturnWait, sessionVars
  <2>2. CASE ReturnQuery
    BY <2>2 DEF ReturnQuery, sessionVars
  <2> QED  BY <2>1, <2>2
<1>2. Keeps(transactions, transactions')
  BY <1>1, ReadyFact, GivingUpKeeps
<1> QED  BY <1>1, <1>2, ReadyFact, StillMoves DEF PlainStep

\* AddToWWR and RemoveFromWWR.
LEMMA WatchChanges ==
    ASSUME Ready, NEW u \in Users, AddToWWR(u) \/ RemoveFromWWR(u)
    PROVE  PlainStep
<1>1. UNCHANGED <<transactions, nextTicket, phase>>
  BY DEF AddToWWR, RemoveFromWWR, tableVars, sessionVars
<1>2. \/ conn' = conn
      \/ conn' \in Writes(conn, <<OneWay("ADD_WWR_ENTRY", u, TRUE)>>)
      \/ conn' \in Writes(conn, <<OneWay("REMOVE_WWR_ENTRY", u, TRUE)>>)
  BY DEF AddToWWR, RemoveFromWWR
<1>3. Moves(conn, conn')
  BY <1>2, ReadyFact, StillMoves, WriteMoves DEF Subject
<1> QED  BY <1>1, <1>3, MovingStep

\* PostDirectMessage.
LEMMA PostChanges ==
    ASSUME Ready, NEW u \in Users, PostDirectMessage(u)
    PROVE  PlainStep
<1>1. nextTicket' = nextTicket
  BY DEF PostDirectMessage
<1>2. CASE UNCHANGED <<conn, sessionVars, transactions, presenceVars>>
  BY <1>1, <1>2, IdleStep DEF sessionVars
<1>3. ASSUME NEW c \in Writes(conn, <<OneWay("MESSAGE", u, FALSE)>>),
             IF IsConnected(c)
             THEN /\ conn' = c
                  /\ UNCHANGED <<sessionVars, transactions, presenceVars>>
             ELSE ConnectionLost(c)
      PROVE  PlainStep
  <2>1. Moves(conn, c) /\ Moves(conn, Close(c))
    BY ReadyFact, WriteMoves DEF Subject
  <2> QED  BY <1>1, <1>3, <2>1, MovingStep, LosingStep DEF sessionVars
<1> QED  BY <1>2, <1>3 DEF PostDirectMessage

\* SendOutboxFile.
LEMMA SendOutboxChanges ==
    ASSUME Ready, NEW f \in Files, SendOutboxFile(f)
    PROVE  PlainStep
<1>1. nextTicket' = nextTicket
  BY DEF SendOutboxFile
<1>2. CASE UNCHANGED <<conn, sessionVars, transactions>>
  BY <1>1, <1>2, IdleStep DEF sessionVars
<1>3. ASSUME NEW c \in Writes(conn, <<OneWay("MESSAGE", f, TRUE)>>),
             \/ conn' = c /\ UNCHANGED <<sessionVars, transactions>>
             \/ ConnectionLost(c)
      PROVE  PlainStep
  <2>1. Moves(conn, c) /\ Moves(conn, Close(c))
    BY ReadyFact, WriteMoves DEF Subject
  <2> QED  BY <1>1, <1>3, <2>1, MovingStep, LosingStep DEF sessionVars
<1> QED  BY <1>2, <1>3 DEF SendOutboxFile

\* Every call of the game.
LEMMA GameCallsChanges ==
    ASSUME Ready, GameCalls
    PROVE  PlainStep \/ FreshStep \/ \E p : AskStep(p)
<1>1. ASSUME NEW op, NEW s \in Slot, NEW arg \in Subject, Query(op, s, arg)
      PROVE  PlainStep \/ \E p : AskStep(p)
  BY <1>1, QueryChanges, StartQueryChanges
<1>2. CASE DSFetchRandomUser
  BY <1>1, <1>2 DEF DSFetchRandomUser, Slot, Subject
<1>3. CASE GetStatus
  BY <1>1, <1>3 DEF GetStatus, Slot, Subject
<1>4. ASSUME NEW u \in Users, FetchUserData(u)
      PROVE  PlainStep \/ \E p : AskStep(p)
  BY <1>1, <1>4 DEF FetchUserData, Slot, Subject
<1>5. CASE DSFeedHistory
  <2>1. CASE FeedHistory("DSFeedHistory")
    BY <2>1, FeedHistoryChanges
  <2>2. CASE UNCHANGED <<conn, sessionVars, tableVars>>
    BY <2>2, IdleStep DEF sessionVars, tableVars
  <2> QED  BY <1>5, <2>1, <2>2 DEF DSFeedHistory
<1>6. CASE NextChangedUserWWR \/ QueueMessage \/ GetMessages \/ SendOrdinaryMessages
  BY <1>6, IdleStep DEF NextChangedUserWWR, QueueMessage, GetMessages,
     SendOrdinaryMessages, sessionVars, tableVars
<1>7. ASSUME NEW u \in Users,
             \/ IsUserOnline(u) \/ AddToWWR(u) \/ RemoveFromWWR(u)
             \/ PostDirectMessage(u)
      PROVE  PlainStep \/ \E p : AskStep(p)
  BY <1>7, IsUserOnlineChanges, WatchChanges, PostChanges
<1> QED  BY <1>2, <1>3, <1>4, <1>5, <1>6, <1>7, ConnectChanges,
            DisconnectChanges DEF GameCalls

\* Every step of a running call.
LEMMA ManagerStepsChanges ==
    ASSUME Ready, ManagerSteps
    PROVE  PlainStep \/ ReplyStep \/ \E p : AskStep(p)
<1>1. ASSUME NEW f \in scanList, SendOutboxFile(f) PROVE PlainStep
  BY <1>1, SendOutboxChanges DEF Ready, TypeOK, SpoolTypeOK
<1>2. CASE \/ PumpNothing \/ RegistrationEnds \/ ReturnConnect \/ ReturnAddToWWR
           \/ ReturnGetMessages \/ ScanOutbox \/ ScanEnds
  BY <1>2, IdleStep DEF PumpNothing, RegistrationEnds, ReturnConnect,
     ReturnAddToWWR, ReturnGetMessages, ScanOutbox, ScanEnds, sessionVars, tableVars
<1>3. CASE ProcessQueuedMessages
  <2>1. CASE FeedHistory("SendOrdinaryMessages")
    BY <2>1, FeedHistoryChanges
  <2>2. CASE UNCHANGED <<conn, sessionVars, tableVars>>
    BY <2>2, IdleStep DEF sessionVars, tableVars
  <2> QED  BY <1>3, <2>1, <2>2 DEF ProcessQueuedMessages
<1> QED  BY <1>1, <1>2, <1>3, PumpConnectChanges, PumpSocketChanges,
            PumpEndChanges, ProcessInputChanges, RegisterChanges,
            WaitEndChanges DEF ManagerSteps

\* Every step.
LEMMA StepChanges ==
    ASSUME Ready, [Next]_vars
    PROVE  PlainStep \/ FreshStep \/ ReplyStep \/ (\E p : AskStep(p)) \/ Environment
<1>1. CASE GameUsesSpool
  BY <1>1, IdleStep DEF GameUsesSpool, managerVars, sessionVars, tableVars
<1>2. CASE TimePasses
  BY <1>2, IdleStep DEF TimePasses, ConnectDeadlinePasses, WaitDeadlinePasses,
     QueryDeadlinePasses, AddDeadlinePasses, managerVars, sessionVars, tableVars
<1>3. CASE UNCHANGED vars
  BY <1>3, IdleStep DEF vars, sessionVars, tableVars
<1> QED  BY <1>1, <1>2, <1>3, GameCallsChanges, ManagerStepsChanges DEF Next

-----------------------------------------------------------------------------
(* What the server and the network do, by what is on its way.              *)

\* Packets lost with the connection.
BreakStep == /\ Carries(conn, conn', <<>>) /\ Trails(conn, conn')
             /\ conn'.login => conn.login

\* The server reads a packet.
ReadStep == conn.wire # <<>> /\ conn' = ServerReceives(conn)

\* One packet more is to be consumed.
OneMore(c, d) == DOMAIN Replies(d) = 1 .. Len(Replies(c)) + 1

\* r comes behind what the server sent.
Sent(c, d, r) ==
    /\ d \in Connection /\ Quiet(d) /\ Requests(d) = Requests(c)
    /\ OneMore(c, d)
    /\ \A i \in DOMAIN Replies(d) :
         \/ i \in DOMAIN Replies(c) /\ Replies(d)[i] = Replies(c)[i]
         \/ i = Len(Replies(c)) + 1 /\ Replies(d)[i] = r

\* The server accepts a login.
Accepts(p) == p.type = "HANDSHAKE_RESPONSE" /\ p.flag

\* The server answers request q.
AnswerStep ==
    \E q \in conn.owed, r \in ServerPacket :
       /\ r.ticket = q.ticket /\ r.extra = ReplyExtra(q.type)
       /\ r.type = IF q.type = "HANDSHAKE" THEN "HANDSHAKE_RESPONSE" ELSE "RESPONSE"
       /\ r.about \in IF q.type \in {"HANDSHAKE", "DS_FETCH_RANDOM_USER"}
                      THEN Users \cup {Nobody} ELSE {q.about}
       /\ conn'.owed = conn.owed \ {q} /\ conn'.peer = conn.peer
       /\ conn'.login => conn.login \/ Accepts(r)
       /\ Sent(conn, conn', r)

\* The server sends something of its own accord.
VolunteerStep ==
    \E r \in ServerPacket :
       /\ r.ticket = 0 /\ r.type \notin Quoting
       /\ conn'.owed = conn.owed /\ conn'.peer = conn.peer
       /\ conn.login /\ conn.peer = "open"
       /\ Sent(conn, conn', r)

\* Sending, whatever else is noted with it.
LEMMA SentFact ==
    ASSUME Ready, NEW r \in ServerPacket, NEW d \in Connection,
           d.state = conn.state, d.input = conn.input, d.output = conn.output,
           d.peer = conn.peer, d.wire = conn.wire,
           d.rx = ServerSends(conn, r).rx
    PROVE  Sent(conn, d, r)
<1> DEFINE e == ServerSends(conn, r)
<1>1. /\ Quiet(e) /\ Requests(e) = Requests(conn)
      /\ DOMAIN Replies(e) = 1 .. Len(Replies(conn)) + 1
      /\ \A i \in DOMAIN Replies(e) :
           \/ i \in DOMAIN Replies(conn) /\ Replies(e)[i] = Replies(conn)[i]
           \/ i = Len(Replies(conn)) + 1 /\ Replies(e)[i] = r
  BY ReadyFact, ServerSendsCarries
<1>2. e.input = conn.input
  BY ReadyFact DEF ServerSends, Connection
<1> HIDE DEF e
<1>3. d.rx = e.rx
  BY DEF e
<1>4. Replies(d) = Replies(e) /\ Requests(d) = Requests(conn) /\ Quiet(d)
  BY <1>2, <1>3, ReadyFact DEF Replies, Requests, Quiet
<1> QED  BY <1>1, <1>4 DEF Sent, OneMore

\* Every step of the server and the network.
LEMMA EnvironmentChanges ==
    ASSUME Ready, Environment
    PROVE  /\ UNCHANGED <<transactions, nextTicket, phase, call, queries, result>>
           /\ BreakStep \/ ReadStep \/ AnswerStep \/ VolunteerStep
<1>1. /\ conn' \in Connection /\ conn \in Connection
      /\ conn'.input = conn.input /\ conn'.output = conn.output
      /\ conn'.state = conn.state
      /\ UNCHANGED <<transactions, nextTicket, phase, call, queries, result>>
  BY EnvironmentFact, ReadyFact DEF Ready, managerVars, sessionVars, tableVars,
     callVars, SameSocket
<1>2. CASE ServerReads
  BY <1>1, <1>2 DEF ServerReads, Remote, ReadStep
<1>3. CASE ServerHangsUp
  <2>1. 0 \in 0 .. Len(conn.rx)
    BY <1>1, TrafficFact, LenProperties
  <2> QED  BY <1>1, <1>3, <2>1, BreaksCarries, BreaksTrails
           DEF ServerHangsUp, Remote, BreakStep
<1>4. CASE NetworkFails
  BY <1>1, <1>4, BreaksCarries, BreaksTrails DEF NetworkFails, Remote, BreakStep
<1>5. ASSUME NEW q \in conn.owed, NEW r \in ServerPacket, NEW login \in BOOLEAN,
             \/ conn' = [ServerSends(conn, r) EXCEPT !.owed = @ \ {q}, !.login = login]
             \/ conn' = [ServerSends(conn, r) EXCEPT !.owed = @ \ {q}]
      PROVE  /\ Sent(conn, conn', r) /\ conn'.owed = conn.owed \ {q}
             /\ conn'.peer = conn.peer /\ conn'.login \in {conn.login, login}
  <2> DEFINE e == ServerSends(conn, r)
  <2>1. /\ e.peer = conn.peer /\ e.wire = conn.wire /\ e.owed = conn.owed
        /\ e \in Connection /\ e.login = conn.login
    BY <1>1, ServerSendsFact DEF ServerSends, Connection
  <2> HIDE DEF e
  <2>2. \/ conn' = [e EXCEPT !.owed = @ \ {q}, !.login = login]
        \/ conn' = [e EXCEPT !.owed = @ \ {q}]
    BY <1>5 DEF e
  <2>3. /\ conn'.peer = conn.peer /\ conn'.wire = conn.wire
        /\ conn'.owed = conn.owed \ {q} /\ conn'.rx = e.rx
        /\ conn'.login \in {conn.login, login}
    BY <2>1, <2>2 DEF Connection
  <2> QED  BY <1>1, <2>3, SentFact DEF e
<1>6. ASSUME NEW q \in conn.owed, NEW accept \in BOOLEAN,
             ServerAnswersHandshake(q, accept)
      PROVE  AnswerStep
  <2> DEFINE r == Reply(q, Nobody, accept)
  <2>1. /\ r \in ServerPacket /\ r.ticket = q.ticket /\ r.about = Nobody
        /\ r.type = "HANDSHAKE_RESPONSE" /\ r.extra = ReplyExtra(q.type)
        /\ q.type = "HANDSHAKE" /\ r.flag = accept
    BY <1>1, <1>6, ReplyFact DEF ServerAnswersHandshake, Reply, Connection, Subject
  <2>2. conn' = [ServerSends(conn, r) EXCEPT !.owed = @ \ {q}, !.login = accept]
    BY <1>6 DEF ServerAnswersHandshake, Remote
  <2> HIDE DEF r
  <2>3. /\ Sent(conn, conn', r) /\ conn'.owed = conn.owed \ {q}
        /\ conn'.peer = conn.peer /\ conn'.login \in {conn.login, accept}
    BY <1>5, <2>1, <2>2
  <2>4. conn'.login => conn.login \/ Accepts(r)
    BY <2>1, <2>3 DEF Accepts
  <2> QED  BY <2>1, <2>3, <2>4 DEF AnswerStep
<1>7. ASSUME NEW q \in conn.owed, NEW about \in KnownUsers \cup {Nobody},
             NEW found \in BOOLEAN, ServerAnswers(q, about, found)
      PROVE  AnswerStep
  <2> DEFINE r == Reply(q, about, found)
  <2>1. /\ q.type # "HANDSHAKE" /\ about \in Users \cup {Nobody} /\ about \in Subject
        /\ q \in ClientPacket
        /\ q.type # "DS_FETCH_RANDOM_USER" => about = q.about
    BY <1>1, <1>7 DEF ServerAnswers, KnownUsers, Subject, Connection
  <2>2. /\ r \in ServerPacket /\ r.ticket = q.ticket /\ r.about = about
        /\ r.type = "RESPONSE" /\ r.extra = ReplyExtra(q.type)
    BY <2>1, ReplyFact DEF Reply
  <2>3. conn' = [ServerSends(conn, r) EXCEPT !.owed = @ \ {q}]
    BY <1>7 DEF ServerAnswers, Remote
  <2> HIDE DEF r
  <2>4. /\ Sent(conn, conn', r) /\ conn'.owed = conn.owed \ {q}
        /\ conn'.peer = conn.peer
        /\ \A login \in BOOLEAN : conn'.login \in {conn.login, login}
    BY <1>5, <2>2, <2>3
  <2>5. conn'.login = conn.login
    BY <2>4, <1>1 DEF Connection
  <2> QED  BY <2>1, <2>2, <2>4, <2>5 DEF AnswerStep
<1>8. ASSUME NEW type \in ServerTypes, NEW about \in KnownUsers \cup {Nobody},
             NEW flag \in BOOLEAN, ServerVolunteers(type, about, flag)
      PROVE  VolunteerStep
  <2> DEFINE r == OneWay(type, about, flag)
  <2>1. /\ type \in UnsolicitedPackets /\ about \in Subject
        /\ type \in SubjectPackets => about \in Users
    BY <1>8, ManagerAssumption DEF ServerVolunteers, Subject, KnownUsers
  <2>2. /\ r \in ServerPacket /\ r.ticket = 0 /\ r.type \notin Quoting
        /\ conn' = ServerSends(conn, r) /\ conn.login /\ conn.peer = "open"
    BY <1>8, <2>1, VolunteeredFact DEF OneWay, ServerVolunteers, Remote, Quoting,
       Asks, TransactionRequests, UnsolicitedPackets, PresencePackets, IgnoredPackets
  <2> HIDE DEF r
  <2>3. /\ conn'.peer = conn.peer /\ conn'.wire = conn.wire /\ conn'.owed = conn.owed
    BY <1>1, <2>2 DEF ServerSends, Connection
  <2>4. Sent(conn, conn', r)
    BY <1>1, <2>2, <2>3, SentFact
  <2> QED  BY <2>2, <2>3, <2>4 DEF VolunteerStep
<1> QED  BY <1>1, <1>2, <1>3, <1>4, <1>6, <1>7, <1>8 DEF Environment

-----------------------------------------------------------------------------
(* The invariant.                                                          *)

LEMMA InitFlight == Init => FlightInv
<1> SUFFICES ASSUME Init PROVE FlightInv
  OBVIOUS
<1>1. /\ conn.wire = <<>> /\ conn.output = <<>> /\ conn.input = <<>>
      /\ conn.rx = <<>> /\ conn.owed = {} /\ conn \in Connection
  BY NewSocketFact DEF Init, NewSocket
<1>2. Requests(conn) = <<>> /\ Replies(conn) = <<>>
  <2>1. <<>> \o <<>> = <<>>
    BY ConcatEmptySeq
  <2> QED  BY <1>1, <2>1 DEF Requests, Replies
<1>3. nextTicket \in Nat /\ DOMAIN transactions = {} /\ Live(phase) \in BOOLEAN
  BY DEF Init, NoTransactions, Live
<1> QED  BY <1>1, <1>2, <1>3, FreshFlight DEF FlightInv

\* A reply step in terms of what it takes out and what it leaves.
LEMMA ReplyFlight ==
    ASSUME TypeOK, FlightInv, NEW p, ProcessTransactionResponse(p)
    PROVE  /\ FlightInv'
           /\ p \in Flying(conn) /\ p \in ServerPacket
           /\ p.ticket \in DOMAIN transactions
           /\ Responds(transactions, transactions', p)
           /\ \E g \in ServerPacket :
                g.ticket = 0 /\ Flying(conn') \subseteq Flying(conn) \cup {g}
<1>1. /\ Processing(p) /\ p.ticket \in DOMAIN transactions
      /\ transactions' = HandleTransactionResponse(transactions, p)
      /\ conn' = ConsumeReply(p) /\ UNCHANGED <<phase, nextTicket>>
  BY DEF ProcessTransactionResponse, Awaited, sessionVars
<1>2. /\ p \in ServerPacket /\ conn \in Connection /\ conn.input # <<>>
      /\ p = Head(conn.input) /\ conn' \in Connection
      /\ IsTable(transactions) /\ nextTicket \in Nat /\ Live(phase) \in BOOLEAN
  BY <1>1, ProcessingFact, ConsumeReplyFact
     DEF Processing, Packets, TypeOK, TableTypeOK, Live
<1> DEFINE g == OneWay("UNKNOWN", Nobody, FALSE)
<1>3. g \in ServerPacket /\ g.ticket = 0 /\ g.type \notin Quoting
  <2>1. g \in ServerPacket
    BY VolunteeredFact DEF UnsolicitedPackets, SubjectPackets, PresencePackets, Subject
  <2> QED  BY <2>1 DEF OneWay, Quoting, Asks, TransactionRequests
<1>4. Responds(transactions, transactions', p)
  BY <1>1, <1>2, ResponseResponds
<1>5. CutOut(conn, conn', transactions, p, g)
  BY <1>1, <1>2 DEF CutOut, ConsumeReply, Garbled
<1>6. Flight(conn, transactions, nextTicket, Live(phase))
  BY DEF FlightInv
<1> HIDE DEF g
<1>7. /\ Flight(conn', transactions', nextTicket, Live(phase))
      /\ Flying(conn') \subseteq Flying(conn) \cup {g} /\ p \in Flying(conn)
  <2> DEFINE d == conn'
             new == transactions'
             live == Live(phase)
  <2>1. /\ d \in Connection /\ live \in BOOLEAN
        /\ CutOut(conn, d, transactions, p, g)
        /\ Responds(transactions, new, p)
        /\ Flight(conn, transactions, nextTicket, live)
    BY <1>2, <1>4, <1>5, <1>6
  <2> HIDE DEF d, new, live
  <2>2. /\ Flight(d, new, nextTicket, live)
        /\ Flying(d) \subseteq Flying(conn) \cup {g} /\ p \in Flying(conn)
    BY <1>2, <1>3, <2>1, RespondedFlight
  <2> QED  BY <2>2 DEF d, new, live
<1> QED  BY <1>1, <1>2, <1>3, <1>4, <1>7 DEF FlightInv

\* What the environment does keeps it.
LEMMA EnvironmentFlight ==
    ASSUME TypeOK, FlightInv, Environment
    PROVE  FlightInv'
<1>1. Ready /\ conn \in Connection /\ nextTicket \in Nat /\ Live(phase) \in BOOLEAN
  BY DEF Ready, FlightInv, Flight, TypeOK, SessionTypeOK, TableTypeOK, Live
<1>2. /\ UNCHANGED <<transactions, nextTicket, phase>>
      /\ BreakStep \/ ReadStep \/ AnswerStep \/ VolunteerStep
      /\ conn' \in Connection
  BY <1>1, EnvironmentChanges, EnvironmentFact
<1> SUFFICES Flight(conn', transactions, nextTicket, Live(phase))
  BY <1>2 DEF FlightInv
<1>3. CASE BreakStep
  <2>1. Moves(conn, conn')
    BY <1>1, <1>2, <1>3, MovesFact DEF BreakStep
  <2>2. Keeps(transactions, transactions)
    BY <1>1, ReadyFact
  <2> QED  BY <1>1, <1>2, <2>1, <2>2, KeptFlight DEF Moves, FlightInv
<1>4. CASE ReadStep
  BY <1>1, <1>4, ReceivedFlight DEF ReadStep, FlightInv
<1>5. CASE AnswerStep
  BY <1>1, <1>5, AnsweredFlight DEF AnswerStep, Sent, FlightInv
<1>6. CASE VolunteerStep
  BY <1>1, <1>6, VolunteeredFlight DEF VolunteerStep, Sent, FlightInv
<1> QED  BY <1>2, <1>3, <1>4, <1>5, <1>6

\* Every step keeps it.
LEMMA StepFlight == ASSUME TypeOK, TypeOK', FlightInv, [Next]_vars PROVE FlightInv'
<1>1. /\ Ready /\ conn \in Connection /\ conn' \in Connection /\ nextTicket \in Nat
      /\ Live(phase) \in BOOLEAN /\ Live(phase') \in BOOLEAN
      /\ DOMAIN transactions \subseteq Nat
      /\ Flight(conn, transactions, nextTicket, Live(phase))
  BY DEF Ready, FlightInv, Flight, TypeOK, SessionTypeOK, TableTypeOK, IsTable, Live
<1>2. CASE PlainStep
  <2>1. Flight(conn', transactions', nextTicket, Live(phase'))
    BY <1>1, <1>2, KeptFlight DEF PlainStep, Moves
  <2> QED  BY <1>2, <2>1 DEF PlainStep, FlightInv, Live
<1>3. ASSUME NEW p, AskStep(p) PROVE FlightInv'
  <2>1. Flight(conn', transactions', nextTicket + 1, Live(phase'))
    BY <1>1, <1>3, AskedFlight DEF AskStep
  <2> QED  BY <1>3, <2>1 DEF AskStep, FlightInv, Live
<1>4. CASE FreshStep
  <2>1. Flight(conn', transactions, nextTicket, Live(phase'))
    <3>1. \A t \in DOMAIN transactions : t <= nextTicket
      BY <1>1 DEF Flight
    <3> QED  BY <1>1, <1>4, <3>1, FreshFlight DEF FreshStep
  <2> QED  BY <1>4, <2>1 DEF FreshStep, FlightInv, Live
<1>5. CASE ReplyStep
  BY <1>5, ReplyFlight DEF ReplyStep
<1> QED  BY <1>1, <1>2, <1>3, <1>4, <1>5, StepChanges, EnvironmentFlight

\* What InSync says is part of it.
LEMMA FlightSync == ASSUME TypeOK, FlightInv PROVE InSync
<1> SUFFICES ASSUME phase \in {"AWAIT_HANDSHAKE", "ONLINE"}, NEW p \in Unconsumed
             PROVE  /\ p.type = "RESPONSE" =>
                         /\ p.ticket \in DOMAIN transactions
                         /\ ~transactions[p.ticket].done
                         /\ transactions[p.ticket].fixedExtra = p.extra
                    /\ p.type = "HANDSHAKE_RESPONSE" => p.ticket \notin DOMAIN transactions
  BY DEF InSync
<1>1. p \in Flying(conn)
  <2>1. conn.input \in Seq(ServerPacket) /\ conn.rx \in Seq(ServerPacket)
    BY TrafficFact DEF TypeOK, SessionTypeOK
  <2>2. Joins(Replies(conn), conn.input, conn.rx)
    BY <2>1, PacketsJoin, Zenon DEF Replies
  <2>3. /\ DOMAIN conn.input = 1 .. Len(conn.input) /\ DOMAIN conn.rx = 1 .. Len(conn.rx)
        /\ Len(conn.input) \in Nat /\ Len(conn.rx) \in Nat
    BY <2>1, LenProperties
  <2>4. ASSUME NEW i \in DOMAIN conn.input PROVE conn.input[i] \in Range(Replies(conn))
    <3> DEFINE m == Len(conn.input)
               k == Len(conn.rx)
               r == Replies(conn)
               t == conn.input
    <3>1. /\ m \in Nat /\ k \in Nat /\ DOMAIN r = 1 .. m + k
          /\ \A j \in 1 .. m : r[j] = t[j]
      BY <2>2 DEF Joins
    <3>2. i \in 1 .. m
      BY <2>3
    <3> HIDE DEF m, k, r, t
    <3>3. r[i] = t[i] /\ i \in DOMAIN r
      BY <3>1, <3>2
    <3> QED  BY <3>3 DEF r, t, Range
  <2>5. ASSUME NEW i \in DOMAIN conn.rx PROVE conn.rx[i] \in Range(Replies(conn))
    <3> DEFINE m == Len(conn.input)
               k == Len(conn.rx)
               r == Replies(conn)
               t == conn.rx
    <3>1. /\ m \in Nat /\ k \in Nat /\ DOMAIN r = 1 .. m + k
          /\ \A j \in 1 .. k : r[j + m] = t[j]
      BY <2>2 DEF Joins
    <3>2. i \in 1 .. k
      BY <2>3
    <3> HIDE DEF m, k, r, t
    <3>3. r[i + m] = t[i] /\ i + m \in DOMAIN r
      BY <3>1, <3>2
    <3> QED  BY <3>3 DEF r, t, Range
  <2> QED  BY <2>4, <2>5 DEF Unconsumed, Range, Flying
<1>2. Live(phase)
  BY DEF Live
<1>3. Fits(p, transactions)
  BY <1>1, <1>2 DEF FlightInv, Flight
<1> QED  BY <1>3 DEF Fits, Extra, Asks, TransactionRequests

\* The stream of replies never loses its framing while a session is being
\* made or held: every reply not consumed yet has an entry in the table that
\* knows its length and is still open, whoever gave up waiting meanwhile, and
\* no reply to a handshake is taken for a transaction's (ProcessInput,
\* AbandonTransaction).
THEOREM StaysInSync == Spec => []InSync
<1>1. TypeOK /\ FlightInv /\ [Next]_vars /\ TypeOK' => FlightInv'
  BY StepFlight
<1>2. TypeOK /\ FlightInv => InSync
  BY FlightSync
<1> QED  BY <1>1, <1>2, InitFlight, TypeCorrect, PTL DEF Spec

-----------------------------------------------------------------------------
(* Who waits for which ticket.                                             *)

QueryOps == {"FetchUserData", "DSFetchRandomUser", "DSFetchRandomUserSync",
             "GetStatus"}
WaitOps  == {"IsUserOnline", "DSFeedHistory", "SendOrdinaryMessages"}

\* Only the methods with a synchronous wait hold a ticket, and FetchUserData
\* is about a user.
CallInv ==
    /\ call.ticket # 0 => call.op \in WaitOps
    /\ call.op = "FetchUserData" => call.arg \in Users

TicketInv ==
    /\ call.ticket <= nextTicket
    /\ \A s \in Slot : queries[s].ticket <= nextTicket
    /\ CallInv
    /\ EachQueryItsOwnTransaction

\* A call keeps the ticket it waits for, or waits no more.
Stays(c, d) ==
    d.ticket # 0 => d.ticket = c.ticket /\ d.op = c.op /\ d.arg = c.arg

\* An entry is as it was, as far as its kind goes.
SameKind(t, old, new) == t \in DOMAIN old /\ new[t].kind = old[t].kind

\* A step that is no matter of a query or of IsUserOnline.
ElseStep ==
    /\ \A s \in Slot : queries'[s].ticket = queries[s].ticket
    /\ result' = result \/ result'.op \notin QueryOps \cup {"IsUserOnline"}
    /\ Stays(call, call')
    /\ call'.op = "FetchUserData" => call'.arg \in Users
    /\ \A t \in DOMAIN transactions' : SameKind(t, transactions, transactions')

\* A method returns or goes on to Pump without a ticket.
LEMMA ReturnsElse ==
    ASSUME TypeOK, NEW op \in Operation \ (QueryOps \cup {"IsUserOnline"}), NEW arg
    PROVE  /\ \A block, ok, about :
                Return(op, arg, block, ok, about) =>
                  /\ result'.op \notin QueryOps \cup {"IsUserOnline"}
                  /\ Stays(call, call') /\ call'.op # "FetchUserData"
           /\ RunPump(op, arg, 0) =>
                  /\ result'.op \notin QueryOps \cup {"IsUserOnline"}
                  /\ Stays(call, call') /\ call'.op # "FetchUserData"
           /\ ReturnBlock(op, arg) =>
                  /\ result'.op \notin QueryOps \cup {"IsUserOnline"}
                  /\ Stays(call, call') /\ call'.op # "FetchUserData"
<1>1. /\ NoResult.op \notin QueryOps \cup {"IsUserOnline"}
      /\ NoCall.ticket = 0 /\ NoCall.op # "FetchUserData"
      /\ [NoCall EXCEPT !.op = op, !.arg = arg, !.ticket = 0].ticket = 0
      /\ [NoCall EXCEPT !.op = op, !.arg = arg, !.ticket = 0].op = op
      /\ op # "FetchUserData"
  BY DEF NoResult, NoCall, QueryOps
<1>2. ASSUME NEW block, NEW ok, NEW about, Return(op, arg, block, ok, about)
      PROVE  /\ result'.op \notin QueryOps \cup {"IsUserOnline"}
             /\ Stays(call, call') /\ call'.op # "FetchUserData"
  BY <1>1, <1>2 DEF Return, Stays
<1>3. ASSUME RunPump(op, arg, 0)
      PROVE  /\ result'.op \notin QueryOps \cup {"IsUserOnline"}
             /\ Stays(call, call') /\ call'.op # "FetchUserData"
  BY <1>1, <1>3 DEF RunPump, Stays
<1> QED  BY <1>2, <1>3 DEF ReturnBlock

\* What of the step is the same for everybody.
LEMMA ElseFact ==
    ASSUME TypeOK, CallInv
    PROVE  /\ \A t \in DOMAIN transactions : SameKind(t, transactions, transactions)
           /\ \A s \in Slot : queries[s].ticket = queries[s].ticket
           /\ Stays(call, call)
           /\ call.op = "FetchUserData" => call.arg \in Users
BY DEF SameKind, Stays, CallInv

\* Steps that leave the running call alone.
LEMMA CallKeptElse ==
    ASSUME TypeOK, CallInv, UNCHANGED <<queries, call, result>>,
           \A t \in DOMAIN transactions' : SameKind(t, transactions, transactions')
    PROVE  ElseStep
BY DEF ElseStep, Stays, CallInv

\* The table is left alone or emptied.
LEMMA TableElse ==
    ASSUME TypeOK, transactions' = transactions \/ transactions' = NoTransactions
    PROVE  \A t \in DOMAIN transactions' : SameKind(t, transactions, transactions')
BY DEF SameKind, NoTransactions

\* The game's calls about the session, presence and messages.
LEMMA OtherCallsElse ==
    ASSUME TypeOK, CallInv,
           \/ \E op \in {"Connect", "ConnectInBackground"}, users \in WatchLists :
                 ConnectInBackground(op, users)
           \/ Disconnect \/ NextChangedUserWWR
           \/ QueueMessage \/ GetMessages \/ SendOrdinaryMessages
           \/ \E u \in Users : AddToWWR(u) \/ RemoveFromWWR(u) \/ PostDirectMessage(u)
           \/ DSFeedHistory /\ ~Online
    PROVE  ElseStep
<1>1. \E op \in Operation \ (QueryOps \cup {"IsUserOnline"}) : \E arg :
         \/ \E block, ok, about : Return(op, arg, block, ok, about)
         \/ RunPump(op, arg, 0)
         \/ ReturnBlock(op, arg)
  <2> DEFINE O == Operation \ (QueryOps \cup {"IsUserOnline"})
             Goes(op, arg) == \/ \E block, ok, about : Return(op, arg, block, ok, about)
                              \/ RunPump(op, arg, 0)
                              \/ ReturnBlock(op, arg)
  <2>1. {"Connect", "ConnectInBackground", "Disconnect", "AddToWWR",
         "RemoveFromWWR", "NextChangedUserWWR", "PostDirectMessage",
         "GetMessages", "SendOrdinaryMessages", "QueueMessage",
         "DSFeedHistory"} \subseteq O
    BY DEF Operation, QueryOps
  <2>2. \A op, arg, block, ok, about :
           Return(op, arg, block, ok, about) => Goes(op, arg)
    OBVIOUS
  <2>3. \A op, arg : RunPump(op, arg, 0) \/ ReturnBlock(op, arg) => Goes(op, arg)
    OBVIOUS
  <2> HIDE DEF Goes, O
  <2>4. ASSUME NEW op \in {"Connect", "ConnectInBackground"}, NEW users,
               ConnectInBackground(op, users)
        PROVE  Goes(op, Nobody)
    BY <2>2, <2>3, <2>4 DEF ConnectInBackground, StartConnecting
  <2>5. Disconnect => Goes("Disconnect", Nobody)
    BY <2>2 DEF Disconnect
  <2>6. /\ NextChangedUserWWR => Goes("NextChangedUserWWR", Nobody)
        /\ QueueMessage => Goes("QueueMessage", Nobody)
    BY <2>2 DEF NextChangedUserWWR, QueueMessage
  <2>7. /\ GetMessages => Goes("GetMessages", Nobody)
        /\ SendOrdinaryMessages => Goes("SendOrdinaryMessages", Nobody)
    BY <2>3 DEF GetMessages, SendOrdinaryMessages
  <2>8. ASSUME NEW u \in Users, AddToWWR(u) \/ RemoveFromWWR(u) \/ PostDirectMessage(u)
        PROVE  \E op \in O : \E arg : Goes(op, arg)
    <3>1. CASE AddToWWR(u)
      <4>1. Goes("AddToWWR", u)
        BY <2>2, <2>3, <3>1 DEF AddToWWR
      <4> QED  BY <2>1, <4>1
    <3>2. CASE RemoveFromWWR(u)
      <4>1. Goes("RemoveFromWWR", u)
        BY <2>2, <3>2 DEF RemoveFromWWR
      <4> QED  BY <2>1, <4>1
    <3>3. CASE PostDirectMessage(u)
      <4>1. Goes("PostDirectMessage", u)
        BY <2>2, <3>3 DEF PostDirectMessage
      <4> QED  BY <2>1, <4>1
    <3> QED  BY <2>8, <3>1, <3>2, <3>3
  <2>9. DSFeedHistory /\ ~Online => Goes("DSFeedHistory", Nobody)
    BY <2>2 DEF DSFeedHistory
  <2>10. \E op \in O : \E arg : Goes(op, arg)
    <3>1. \A op \in O : Goes(op, Nobody) => \E o \in O : \E arg : Goes(o, arg)
      OBVIOUS
    <3> QED  BY <2>1, <2>4, <2>5, <2>6, <2>7, <2>8, <2>9, <3>1
  <2> QED  BY <2>10 DEF Goes, O
<1>2. /\ result'.op \notin QueryOps \cup {"IsUserOnline"}
      /\ Stays(call, call') /\ call'.op # "FetchUserData"
  BY <1>1, ReturnsElse
<1>3. UNCHANGED queries
  BY DEF ConnectInBackground, Disconnect, NextChangedUserWWR, QueueMessage,
     GetMessages, SendOrdinaryMessages, AddToWWR, RemoveFromWWR,
     PostDirectMessage, DSFeedHistory, tableVars
<1>4. transactions' = transactions \/ transactions' = NoTransactions
  <2>1. ASSUME NEW u \in Users, PostDirectMessage(u)
        PROVE  transactions' = transactions \/ transactions' = NoTransactions
    BY <2>1 DEF PostDirectMessage, ConnectionLost
  <2>2. CASE DSFeedHistory /\ ~Online
    BY <2>2 DEF DSFeedHistory, tableVars
  <2>3. CASE Disconnect
    BY <2>3 DEF Disconnect
  <2> QED  BY <2>1, <2>2, <2>3 DEF ConnectInBackground, NextChangedUserWWR,
           QueueMessage, GetMessages, SendOrdinaryMessages, AddToWWR,
           RemoveFromWWR, tableVars
<1> QED  BY <1>2, <1>3, <1>4, TableElse DEF ElseStep

\* Pump and what it handles.
LEMMA PumpElse ==
    ASSUME TypeOK, CallInv, FlightInv, 
           \/ PumpConnect \/ PumpSocket \/ PumpNothing \/ PumpEnd
           \/ ProcessInput \/ RegisterNextUser \/ RegistrationEnds
    PROVE  ElseStep
<1>1. UNCHANGED <<queries, result>>
  BY DEF PumpConnect, PumpSocket, PumpNothing, PumpEnd, ProcessInput,
     RegisterNextUser, RegistrationEnds, ProcessEnd, ProcessTransactionResponse,
     ProcessHandshakeResponse, ProcessPresence, ProcessMessage,
     ProcessVirtualConnect, ProcessIgnored, ProcessUnknown, callVars
<1>2. /\ call'.op = call.op /\ call'.arg = call.arg /\ call'.ticket = call.ticket
  <2>1. ASSUME NEW login, NEW alive,
               call' = [call EXCEPT !.login = login, !.alive = alive]
        PROVE  call'.op = call.op /\ call'.arg = call.arg /\ call'.ticket = call.ticket
    BY <2>1 DEF TypeOK, CallTypeOK, Call
  <2>2. CASE PumpConnect
    <3>1. call' = call \/ call' = [call EXCEPT !.login = TRUE, !.alive = TRUE]
      BY <2>2 DEF PumpConnect, IsConnected
    <3> QED  BY <2>1, <3>1
  <2>3. CASE PumpSocket
    BY <2>1, <2>3 DEF PumpSocket
  <2>4. CASE ~PumpConnect /\ ~PumpSocket
    <3>1. call' = call
      BY <2>4 DEF PumpNothing, PumpEnd, ProcessInput,
         RegisterNextUser, RegistrationEnds, ProcessEnd, ProcessTransactionResponse,
         ProcessHandshakeResponse, ProcessPresence, ProcessMessage,
         ProcessVirtualConnect, ProcessIgnored, ProcessUnknown, callVars
    <3> QED  BY <3>1
  <2> QED  BY <2>2, <2>3, <2>4
<1>3. \A t \in DOMAIN transactions' : SameKind(t, transactions, transactions')
  <2>1. ASSUME NEW p, ProcessTransactionResponse(p)
        PROVE  \A t \in DOMAIN transactions' : SameKind(t, transactions, transactions')
    <3>1. p.ticket \in DOMAIN transactions /\ Responds(transactions, transactions', p)
      BY <2>1, ReplyFlight
    <3> QED  BY <3>1 DEF Responds, SameKind
  <2>2. CASE PumpConnect \/ PumpSocket \/ PumpNothing \/ RegisterNextUser \/ RegistrationEnds
    BY <2>2, TableElse DEF PumpConnect, PumpSocket, PumpNothing, RegisterNextUser,
       RegistrationEnds, tableVars
  <2>3. CASE PumpEnd
    <3>1. transactions' = transactions \/ transactions' = NoTransactions
      BY <2>3 DEF PumpEnd, ConnectionLost, tableVars
    <3> QED  BY <3>1, TableElse
  <2>4. ASSUME NEW p,
               \/ ProcessEnd \/ ProcessHandshakeResponse(p) \/ ProcessPresence(p)
               \/ ProcessMessage(p) \/ ProcessVirtualConnect(p)
               \/ ProcessIgnored(p) \/ ProcessUnknown(p)
        PROVE  \A t \in DOMAIN transactions' : SameKind(t, transactions, transactions')
    <3>1. transactions' = transactions \/ transactions' = NoTransactions
      BY <2>4 DEF ProcessEnd, ProcessHandshakeResponse, ProcessPresence,
         ProcessMessage, ProcessVirtualConnect, ProcessIgnored, ProcessUnknown,
         ConnectionLost, tableVars
    <3> QED  BY <3>1, TableElse
  <2>5. CASE ProcessInput
    BY <2>1, <2>4, <2>5 DEF ProcessInput
  <2> QED  BY <2>2, <2>3, <2>5
<1> QED  BY <1>1, <1>2, <1>3 DEF ElseStep, Stays, CallInv

\* The other returns, and the outbox.
LEMMA ReturnsAndScansElse ==
    ASSUME TypeOK, CallInv,
           \/ ReturnConnect \/ ReturnAddToWWR \/ ReturnGetMessages
           \/ ProcessQueuedMessages /\ ~(queued > 0 /\ Online)
           \/ ScanOutbox \/ ScanEnds \/ \E f \in Files : SendOutboxFile(f)
    PROVE  ElseStep
<1> DEFINE Going == \/ UNCHANGED <<call, result>>
                    \/ /\ result'.op \notin QueryOps \cup {"IsUserOnline"}
                       /\ Stays(call, call') /\ call'.op # "FetchUserData"
                    \/ /\ UNCHANGED result
                       /\ Stays(call, call') /\ call'.op # "FetchUserData"
<1>1. UNCHANGED queries
  BY DEF ReturnConnect, ReturnAddToWWR, ReturnGetMessages, ProcessQueuedMessages,
     ScanOutbox, ScanEnds, SendOutboxFile
<1>2. transactions' = transactions \/ transactions' = NoTransactions
  <2>1. CASE ReturnConnect \/ ReturnAddToWWR \/ ReturnGetMessages \/ ScanOutbox \/ ScanEnds
    BY <2>1 DEF ReturnConnect, ReturnAddToWWR, ReturnGetMessages, ScanOutbox,
       ScanEnds, tableVars
  <2>2. CASE ProcessQueuedMessages /\ ~(queued > 0 /\ Online)
    BY <2>2 DEF ProcessQueuedMessages, tableVars
  <2>3. ASSUME NEW f \in Files, SendOutboxFile(f)
        PROVE  transactions' = transactions \/ transactions' = NoTransactions
    BY <2>3 DEF SendOutboxFile, ConnectionLost
  <2> QED  BY <2>1, <2>2, <2>3
<1>3. {"AddToWWR", "GetMessages", "SendOrdinaryMessages", "Connect",
       "ConnectInBackground"} \subseteq Operation \ (QueryOps \cup {"IsUserOnline"})
  BY DEF Operation, QueryOps
<1>4. Going
  <2>1. CASE ReturnConnect
    <3>1. call.op \in Operation \ (QueryOps \cup {"IsUserOnline"})
      BY <1>3, <2>1 DEF ReturnConnect
    <3> QED  BY <2>1, <3>1, ReturnsElse DEF ReturnConnect
  <2>2. CASE ReturnAddToWWR
    BY <1>3, <2>2, ReturnsElse DEF ReturnAddToWWR
  <2>3. CASE ReturnGetMessages
    BY <1>3, <2>3, ReturnsElse DEF ReturnGetMessages
  <2>4. CASE ProcessQueuedMessages /\ ~(queued > 0 /\ Online)
    <3>1. result' = result /\ call' = [NoCall EXCEPT !.op = "SendOrdinaryMessages"]
      BY <2>4 DEF ProcessQueuedMessages, WaitReturns
    <3> QED  BY <3>1 DEF Stays, NoCall
  <2>5. CASE ScanOutbox \/ ScanEnds \/ \E f \in Files : SendOutboxFile(f)
    <3>1. \/ UNCHANGED <<call, result>>
          \/ Return("SendOrdinaryMessages", Nobody, FALSE, TRUE, Nobody)
      BY <2>5 DEF ScanOutbox, ScanEnds, SendOutboxFile, callVars
    <3> QED  BY <1>3, <3>1, ReturnsElse
  <2> QED  BY <2>1, <2>2, <2>3, <2>4, <2>5
<1>5. call'.op = "FetchUserData" => call'.arg \in Users
  BY <1>4 DEF CallInv
<1>6. Stays(call, call')
  BY <1>4 DEF Stays
<1> QED  BY <1>1, <1>2, <1>4, <1>5, <1>6, TableElse DEF ElseStep

\* Clocks, the game's own use of the spool, the server and the network.
LEMMA OutsideElse ==
    ASSUME TypeOK, CallInv,
           TimePasses \/ GameUsesSpool \/ Environment \/ UNCHANGED vars
    PROVE  ElseStep
<1>1. transactions' = transactions /\ result' = result
  BY EnvironmentFact DEF TimePasses, GameUsesSpool, ConnectDeadlinePasses,
     WaitDeadlinePasses, QueryDeadlinePasses, AddDeadlinePasses, managerVars,
     tableVars, callVars, vars
<1>2. \A s \in Slot : queries'[s].ticket = queries[s].ticket
  <2>1. ASSUME NEW r \in Slot, QueryDeadlinePasses(r)
        PROVE  \A s \in Slot : queries'[s].ticket = queries[s].ticket
    BY <2>1 DEF QueryDeadlinePasses, TypeOK, TableTypeOK, PendingQuery
  <2>2. CASE ~\E r \in Slot : QueryDeadlinePasses(r)
    <3>1. queries' = queries
      BY <2>2, EnvironmentFact DEF TimePasses, GameUsesSpool, ConnectDeadlinePasses,
         WaitDeadlinePasses, AddDeadlinePasses, managerVars, vars
    <3> QED  BY <3>1
  <2> QED  BY <2>1, <2>2
<1>3. call'.op = call.op /\ call'.arg = call.arg /\ call'.ticket = call.ticket
  <2>1. CASE WaitDeadlinePasses
    BY <2>1 DEF WaitDeadlinePasses, TypeOK, CallTypeOK, Call
  <2>2. CASE ~WaitDeadlinePasses
    <3>1. call' = call
      BY <2>2, EnvironmentFact DEF TimePasses, GameUsesSpool, ConnectDeadlinePasses,
         QueryDeadlinePasses, AddDeadlinePasses, managerVars, callVars, vars
    <3> QED  BY <3>1
  <2> QED  BY <2>1, <2>2
<1> QED  BY <1>1, <1>2, <1>3, TableElse DEF ElseStep, Stays, CallInv

-----------------------------------------------------------------------------
(* Waiters that leave and waiters that come.                               *)

\* Nobody new waits; whoever stops may give a ticket up.
LeaveStep ==
    /\ Stays(call, call')
    /\ \A s \in Slot : queries'[s].ticket \in {0, queries[s].ticket}
    /\ \E g \in Nat :
         /\ g # 0 => call'.ticket # g /\ \A s \in Slot : queries'[s].ticket # g
         /\ \A t \in DOMAIN transactions' \ {g} :
              SameKind(t, transactions, transactions')

\* A synchronous wait begins.
WaitStep(op, arg, type, kind) ==
    /\ AskStep(Request(type, arg, nextTicket'))
    /\ transactions' = Started(kind, 0)
    /\ call'.op = op /\ call'.arg = arg /\ call'.ticket = nextTicket'
    /\ UNCHANGED queries

OnlineStep(u) ==
    WaitStep("IsUserOnline", u, "GET_CONNECTION_DETAIL", "TRANS_CONNECTION_DETAIL")
FeedStep(op) == WaitStep(op, Nobody, "DS_FEED_HISTORY", "TRANS_FEED_HISTORY")

\* A query is asked.
AskedAbout(s) == IF s \in Users THEN s ELSE Nobody
QueryStep(s) ==
    /\ AskStep(Request(SlotRequest(s), AskedAbout(s), nextTicket'))
    /\ transactions' = Started(SlotKind(s), SlotExtra(s))
    /\ queries' = [queries EXCEPT ![s] = [ticket |-> nextTicket', late |-> FALSE]]
    /\ call'.ticket = 0

\* A step that is nobody's matter lets everybody wait.
LEMMA ElseLeaves == ASSUME ElseStep PROVE LeaveStep
<1>1. \A t \in DOMAIN transactions' \ {0} : SameKind(t, transactions, transactions')
  BY DEF ElseStep
<1>2. \E g \in Nat :
         /\ g # 0 => call'.ticket # g /\ \A s \in Slot : queries'[s].ticket # g
         /\ \A t \in DOMAIN transactions' \ {g} :
              SameKind(t, transactions, transactions')
  BY <1>1
<1> QED  BY <1>2 DEF ElseStep, LeaveStep

\* A request that could not be written is given up at once.
LEMMA UnwrittenLeaves ==
    ASSUME TypeOK, TicketInv, NEW p, AskStep(p), call'.ticket = 0, UNCHANGED queries
    PROVE  LeaveStep
<1> DEFINE g == nextTicket + 1
<1>1. g \in Nat /\ \A s \in Slot : queries'[s].ticket # g
  <2>1. nextTicket \in Nat /\ \A s \in Slot : queries[s].ticket \in Nat
    BY DEF TypeOK, TableTypeOK, PendingQuery
  <2>2. \A m \in Nat : m <= nextTicket => m # g
    BY <2>1
  <2> QED  BY <2>1, <2>2 DEF TicketInv
<1>2. \A t \in DOMAIN transactions' \ {g} : SameKind(t, transactions, transactions')
  BY DEF AskStep, Expects, SameKind
<1>3. call'.ticket # g
  BY DEF TypeOK, TableTypeOK
<1> HIDE DEF g
<1>4. /\ g # 0 => call'.ticket # g /\ \A s \in Slot : queries'[s].ticket # g
      /\ \A t \in DOMAIN transactions' \ {g} : SameKind(t, transactions, transactions')
  BY <1>1, <1>2, <1>3
<1> QED  BY <1>1, <1>4 DEF LeaveStep, Stays

\* What the call is after a return and after a pump begins.
LEMMA NextCall ==
    ASSUME NEW op, NEW arg
    PROVE  /\ NoCall.ticket = 0 /\ NoCall.op = "none"
           /\ \A block, ok, about : Return(op, arg, block, ok, about) => call' = NoCall
           /\ \A ticket : RunPump(op, arg, ticket) =>
                call'.op = op /\ call'.arg = arg /\ call'.ticket = ticket
           /\ \A ok, about : WaitReturns(op, arg, ok, about) =>
                call'.ticket = 0 /\ call'.op # "FetchUserData"
<1>1. NoCall.ticket = 0 /\ NoCall.op = "none"
  BY DEF NoCall
<1>2. \A block, ok, about : Return(op, arg, block, ok, about) => call' = NoCall
  BY DEF Return
<1>3. ASSUME NEW ticket, RunPump(op, arg, ticket)
      PROVE  call'.op = op /\ call'.arg = arg /\ call'.ticket = ticket
  BY <1>3 DEF RunPump, NoCall
<1>4. ASSUME NEW ok, NEW about, WaitReturns(op, arg, ok, about)
      PROVE  call'.ticket = 0 /\ call'.op # "FetchUserData"
  <2>1. CASE op = "SendOrdinaryMessages"
    <3>1. call' = [NoCall EXCEPT !.op = "SendOrdinaryMessages"]
      BY <1>4, <2>1 DEF WaitReturns
    <3> QED  BY <3>1 DEF NoCall
  <2>2. CASE op # "SendOrdinaryMessages"
    BY <1>1, <1>2, <1>4, <2>2 DEF WaitReturns
  <2> QED  BY <2>1, <2>2
<1> QED  BY <1>1, <1>2, <1>3, <1>4

\* IsUserOnline waits, or answers at once.
LEMMA IsUserOnlineWaits ==
    ASSUME TypeOK, FlightInv, TicketInv, NEW u \in Users, IsUserOnline(u)
    PROVE  CallInv' /\ (LeaveStep \/ OnlineStep(u))
<1>1. Ready
  BY DEF Ready, FlightInv, Flight
<1>2. queries' = queries
  BY DEF IsUserOnline
<1>3. NoCall.ticket = 0 /\ NoCall.op # "FetchUserData"
  BY DEF NoCall
<1>4. CASE call' = NoCall /\ transactions' = transactions
  BY <1>2, <1>3, <1>4, TableElse, ElseLeaves DEF CallInv, LeaveStep, Stays
<1>5. CASE AskStep(Request("GET_CONNECTION_DETAIL", u, nextTicket')) /\ call' = NoCall
  BY <1>2, <1>3, <1>5, UnwrittenLeaves DEF CallInv
<1>6. CASE /\ AskStep(Request("GET_CONNECTION_DETAIL", u, nextTicket'))
           /\ transactions' = Started("TRANS_CONNECTION_DETAIL", 0)
           /\ RunPump("IsUserOnline", u, nextTicket')
  <2>1. call'.op = "IsUserOnline" /\ call'.arg = u /\ call'.ticket = nextTicket'
    BY <1>6 DEF RunPump, NoCall
  <2> QED  BY <1>2, <1>6, <2>1 DEF CallInv, WaitOps, OnlineStep, WaitStep
<1> QED  BY <1>1, <1>4, <1>5, <1>6, IsUserOnlineChanges

\* DSFeedHistory waits, or ends with the connection.
LEMMA FeedHistoryWaits ==
    ASSUME TypeOK, FlightInv, TicketInv, NEW op \in {"DSFeedHistory", "SendOrdinaryMessages"},
           FeedHistory(op), UNCHANGED queries
    PROVE  CallInv' /\ (LeaveStep \/ FeedStep(op))
<1>1. Ready
  BY DEF Ready, FlightInv, Flight
<1>2. CASE WaitReturns(op, Nobody, FALSE, Nobody)
  <2>1. call'.ticket = 0 /\ call'.op # "FetchUserData"
    BY <1>2, NextCall
  <2> QED  BY <1>1, <2>1, UnwrittenLeaves, FeedHistoryChanges DEF CallInv
<1>3. CASE /\ transactions' = Started("TRANS_FEED_HISTORY", 0)
           /\ RunPump(op, Nobody, nextTicket')
  <2>1. call'.op = op /\ call'.arg = Nobody /\ call'.ticket = nextTicket'
    BY <1>3 DEF RunPump, NoCall
  <2>2. FeedStep(op)
    BY <1>1, <1>3, <2>1, FeedHistoryChanges DEF FeedStep, WaitStep
  <2> QED  BY <2>1, <2>2 DEF CallInv, WaitOps
<1> QED  BY <1>1, <1>2, <1>3, FeedHistoryChanges

\* A waiter that gives its ticket up is the only one who had it.
LEMMA GivingUpLeaves ==
    ASSUME TypeOK, TicketInv, NEW g \in Nat, Stays(call, call'),
           \A s \in Slot : queries'[s].ticket \in {0, queries[s].ticket},
           \/ /\ \E s \in Slot : queries[s].ticket = g /\ queries'[s].ticket = 0
              /\ call'.ticket = 0
           \/ call.ticket = g /\ call'.ticket = 0,
           \/ transactions' = AbandonTransaction(transactions, g)
           \/ transactions' = Erase(transactions, g)
    PROVE  LeaveStep
<1>1. g # 0 => call'.ticket # g /\ \A s \in Slot : queries'[s].ticket # g
  BY DEF TicketInv, EachQueryItsOwnTransaction, IsPending
<1>2. \A t \in DOMAIN transactions' \ {g} : SameKind(t, transactions, transactions')
  <2>1. IsTable(transactions)
    BY DEF TypeOK, TableTypeOK
  <2>2. \A t \in DOMAIN Erase(transactions, g) :
            SameKind(t, transactions, Erase(transactions, g))
    BY DEF Erase, Restrict, SameKind
  <2>3. \A t \in DOMAIN AbandonTransaction(transactions, g) \ {g} :
            SameKind(t, transactions, AbandonTransaction(transactions, g))
    BY <2>1, <2>2 DEF AbandonTransaction, SameKind, IsTable
  <2> QED  BY <2>2, <2>3
<1>3. \E h \in Nat :
         /\ h # 0 => call'.ticket # h /\ \A s \in Slot : queries'[s].ticket # h
         /\ \A t \in DOMAIN transactions' \ {h} :
              SameKind(t, transactions, transactions')
  BY <1>1, <1>2
<1> QED  BY <1>3 DEF LeaveStep

\* A query that is asked, polled or refused.
LEMMA QueryWaits ==
    ASSUME TypeOK, FlightInv, TicketInv, NEW op \in QueryOps, NEW s \in Slot,
           op = "FetchUserData" => s \in Users,
           Query(op, s, AskedAbout(s))
    PROVE  CallInv' /\ (LeaveStep \/ QueryStep(s))
<1> DEFINE arg == AskedAbout(s)
<1>1. /\ Ready /\ arg \in Subject /\ queries[s].ticket \in Nat
      /\ op = "FetchUserData" => arg \in Users
  BY DEF Ready, FlightInv, Flight, AskedAbout, Subject, TypeOK, TableTypeOK, PendingQuery
<1> HIDE DEF arg
<1>2. /\ \A block, ok, about : Return(op, arg, block, ok, about) =>
                                  call'.ticket = 0 /\ call'.op # "FetchUserData"
      /\ RunPump(op, arg, 0) => call'.ticket = 0 /\ call'.op = op /\ call'.arg = arg
  BY NextCall
<1>3. ReturnBlock(op, arg) => /\ call'.ticket = 0
                              /\ call'.op = "FetchUserData" => call'.arg \in Users
  BY <1>1, <1>2 DEF ReturnBlock
<1>4. CASE /\ Return(op, arg, FALSE, FALSE, Nobody)
           /\ transactions' = AbandonTransaction(transactions, queries[s].ticket)
           /\ queries' = [queries EXCEPT ![s] = NoQuery]
  <2>1. /\ \A r \in Slot : queries'[r].ticket \in {0, queries[r].ticket}
        /\ queries'[s].ticket = 0
    BY <1>4 DEF NoQuery, TypeOK, TableTypeOK
  <2>2. call'.ticket = 0 /\ CallInv' /\ Stays(call, call')
    BY <1>2, <1>4 DEF CallInv, Stays
  <2>3. \E r \in Slot : queries[r].ticket = queries[s].ticket /\ queries'[r].ticket = 0
    BY <2>1
  <2>4. LeaveStep
    BY <1>1, <1>4, <2>1, <2>2, <2>3, GivingUpLeaves
  <2> QED  BY <2>2, <2>4
<1>5. CASE StartQuery(op, s, arg) /\ phase' = phase
  <2>0. /\ AskStep(Request(SlotRequest(s), arg, nextTicket'))
        /\ \/ call' = NoCall /\ UNCHANGED queries
           \/ /\ transactions' = Started(SlotKind(s), SlotExtra(s))
              /\ queries' = [queries EXCEPT ![s] = [ticket |-> nextTicket',
                                                    late |-> FALSE]]
              /\ ReturnBlock(op, arg)
    BY <1>1, <1>5, StartQueryChanges
  <2>1. AskStep(Request(SlotRequest(s), arg, nextTicket'))
    BY <2>0
  <2>2. CASE call' = NoCall /\ UNCHANGED queries
    BY <2>1, <2>2, UnwrittenLeaves DEF CallInv, NoCall
  <2>3. CASE /\ transactions' = Started(SlotKind(s), SlotExtra(s))
             /\ queries' = [queries EXCEPT ![s] = [ticket |-> nextTicket',
                                                   late |-> FALSE]]
             /\ ReturnBlock(op, arg)
    BY <1>3, <2>1, <2>3 DEF CallInv, QueryStep, arg
  <2> QED  BY <2>0, <2>2, <2>3
<1>6. CASE RunPump(op, arg, 0) /\ UNCHANGED <<tableVars, queries>>
  <2>1. call'.ticket = 0 /\ (call'.op = "FetchUserData" => call'.arg \in Users)
    BY <1>1, <1>2, <1>6
  <2> QED  BY <1>6, <2>1, TableElse DEF LeaveStep, Stays, tableVars, CallInv
<1>7. phase' = phase
  BY DEF Query, sessionVars
<1> QED  BY <1>4, <1>5, <1>6, <1>7 DEF Query, arg

\* A synchronous wait that ends, or goes on.
LEMMA ReturnWaitLeaves ==
    ASSUME TypeOK, TicketInv, ReturnWait
    PROVE  CallInv' /\ LeaveStep
<1>1. UNCHANGED queries /\ call.ticket \in Nat
  BY DEF ReturnWait, TypeOK, CallTypeOK, Call
<1>2. \A op, arg, ok, about : WaitReturns(op, arg, ok, about) =>
        call'.ticket = 0 /\ call'.op # "FetchUserData"
  BY NextCall
<1>3. CASE UNCHANGED <<call, transactions>>
  BY <1>1, <1>3, TableElse DEF LeaveStep, Stays, TicketInv, CallInv
<1>4. CASE call'.ticket = 0 /\ call'.op # "FetchUserData"
  <2>1. Stays(call, call') /\ CallInv'
    BY <1>4 DEF Stays, CallInv
  <2>2. CASE transactions' = transactions
    BY <1>1, <2>1, <2>2, TableElse DEF LeaveStep
  <2>3. CASE \/ transactions' = AbandonTransaction(transactions, call.ticket)
             \/ transactions' = Erase(transactions, call.ticket)
    BY <1>1, <1>4, <2>1, <2>3, GivingUpLeaves
  <2> QED  BY <2>1, <2>2, <2>3 DEF ReturnWait
<1> QED  BY <1>2, <1>3, <1>4 DEF ReturnWait

\* A query that ends, or goes on.
LEMMA ReturnQueryLeaves ==
    ASSUME TypeOK, TicketInv, ReturnQuery
    PROVE  CallInv' /\ LeaveStep
<1>1. CalledSlot \in Slot
  BY DEF ReturnQuery, CalledSlot, Slot, TicketInv, CallInv
<1> DEFINE s == CalledSlot
<1>2. s \in Slot /\ queries[s].ticket \in Nat /\ call.op \in QueryOps
  BY <1>1 DEF TypeOK, TableTypeOK, PendingQuery, ReturnQuery, QueryOps
<1>3. \/ ReturnBlock(call.op, call.arg) /\ UNCHANGED <<queries, transactions>>
      \/ /\ call' = NoCall /\ queries' = [queries EXCEPT ![s] = NoQuery]
         /\ \/ transactions' = transactions
            \/ transactions' = AbandonTransaction(transactions, queries[s].ticket)
            \/ transactions' = Erase(transactions, queries[s].ticket)
  BY DEF ReturnQuery, QueryReturns, Return
<1> HIDE DEF s
<1>4. CASE ReturnBlock(call.op, call.arg) /\ UNCHANGED <<queries, transactions>>
  <2>1. \/ call' = NoCall
        \/ call'.ticket = 0 /\ call'.op = call.op /\ call'.arg = call.arg
    BY <1>4 DEF ReturnBlock, Return, RunPump, NoCall
  <2>2. call'.ticket = 0 /\ (call'.op = "FetchUserData" => call'.arg \in Users)
    BY <2>1 DEF TicketInv, CallInv, NoCall
  <2> QED  BY <1>4, <2>2, TableElse DEF LeaveStep, Stays, CallInv
<1>5. CASE call' = NoCall /\ queries' = [queries EXCEPT ![s] = NoQuery]
  <2>1. /\ \A r \in Slot : queries'[r].ticket \in {0, queries[r].ticket}
        /\ queries'[s].ticket = 0 /\ call'.ticket = 0 /\ call'.op # "FetchUserData"
    BY <1>2, <1>5 DEF NoQuery, NoCall, TypeOK, TableTypeOK
  <2>2. Stays(call, call') /\ CallInv'
    BY <2>1 DEF Stays, CallInv
  <2>3. CASE transactions' = transactions
    BY <2>1, <2>2, <2>3, TableElse DEF LeaveStep
  <2>4. CASE \/ transactions' = AbandonTransaction(transactions, queries[s].ticket)
             \/ transactions' = Erase(transactions, queries[s].ticket)
    BY <1>2, <2>1, <2>2, <2>4, GivingUpLeaves
  <2>5. \/ transactions' = transactions
        \/ transactions' = AbandonTransaction(transactions, queries[s].ticket)
        \/ transactions' = Erase(transactions, queries[s].ticket)
    BY <1>3, <1>5
  <2> QED  BY <2>2, <2>3, <2>4, <2>5
<1> QED  BY <1>3, <1>4, <1>5

\* The slot a query of the game uses.
Asking(op, s) ==
    \/ op = "FetchUserData" /\ s \in Users
    \/ op \in {"DSFetchRandomUser", "DSFetchRandomUserSync"} /\ s = Random
    \/ op = "GetStatus" /\ s = Status

\* Every step, by whether it is a matter of a waiter.
LEMMA StepKinds ==
    ASSUME TypeOK, FlightInv, CallInv, [Next]_vars
    PROVE  \/ ElseStep
           \/ \E u \in Users : IsUserOnline(u)
           \/ \E op \in {"DSFeedHistory", "SendOrdinaryMessages"} :
                 FeedHistory(op) /\ UNCHANGED queries
           \/ \E op \in QueryOps, s \in Slot :
                 Asking(op, s) /\ Query(op, s, AskedAbout(s))
           \/ ReturnWait
           \/ ReturnQuery
<1>1. CASE (\E u \in Users : FetchUserData(u)) \/ DSFetchRandomUser \/ GetStatus
  <2>1. /\ \A u \in Users : u \in Slot /\ AskedAbout(u) = u
        /\ Random \in Slot /\ AskedAbout(Random) = Nobody
        /\ Status \in Slot /\ AskedAbout(Status) = Nobody
    BY ManagerAssumption DEF Slot, AskedAbout
  <2>2. ASSUME NEW u \in Users, FetchUserData(u)
        PROVE  \E op \in QueryOps, s \in Slot :
                 Asking(op, s) /\ Query(op, s, AskedAbout(s))
    BY <2>1, <2>2 DEF FetchUserData, Asking, QueryOps
  <2>3. CASE DSFetchRandomUser
    BY <2>1, <2>3 DEF DSFetchRandomUser, Asking, QueryOps
  <2>4. CASE GetStatus
    BY <2>1, <2>4 DEF GetStatus, Asking, QueryOps
  <2> QED  BY <1>1, <2>2, <2>3, <2>4
<1>2. CASE DSFeedHistory
  <2>1. CASE Online
    BY <1>2, <2>1 DEF DSFeedHistory
  <2>2. CASE ~Online
    BY <1>2, <2>2, OtherCallsElse
  <2> QED  BY <2>1, <2>2
<1>3. CASE ProcessQueuedMessages
  <2>1. CASE queued > 0 /\ Online
    BY <1>3, <2>1 DEF ProcessQueuedMessages
  <2>2. CASE ~(queued > 0 /\ Online)
    BY <1>3, <2>2, ReturnsAndScansElse
  <2> QED  BY <2>1, <2>2
<1>4. CASE GameCalls
  BY <1>1, <1>2, <1>4, OtherCallsElse DEF GameCalls
<1>5. CASE ManagerSteps
  <2>1. scanList \subseteq Files
    BY DEF TypeOK, SpoolTypeOK
  <2> QED  BY <1>3, <1>5, <2>1, PumpElse, ReturnsAndScansElse DEF ManagerSteps
<1>6. CASE TimePasses \/ GameUsesSpool \/ Environment \/ UNCHANGED vars
  BY <1>6, OutsideElse
<1> QED  BY <1>4, <1>5, <1>6 DEF Next

\* Every step, by what it does to the waiters.
LEMMA StepWaits ==
    ASSUME TypeOK, FlightInv, TicketInv, [Next]_vars
    PROVE  /\ CallInv'
           /\ \/ LeaveStep
              \/ \E u \in Users : OnlineStep(u)
              \/ \E op \in {"DSFeedHistory", "SendOrdinaryMessages"} : FeedStep(op)
              \/ \E s \in Slot : QueryStep(s)
<1>1. CallInv
  BY DEF TicketInv
<1>2. ASSUME ElseStep PROVE CallInv' /\ LeaveStep
  BY <1>1, <1>2, ElseLeaves DEF ElseStep, CallInv, Stays
<1>3. ASSUME NEW op \in QueryOps, NEW s \in Slot, Asking(op, s),
             Query(op, s, AskedAbout(s))
      PROVE  CallInv' /\ (LeaveStep \/ QueryStep(s))
  BY <1>3, QueryWaits DEF Asking
<1> QED  BY <1>1, <1>2, <1>3, StepKinds, IsUserOnlineWaits, FeedHistoryWaits,
            ReturnWaitLeaves, ReturnQueryLeaves

\* The counter only goes up.
LEMMA TicketsGrow ==
    ASSUME TypeOK, FlightInv, [Next]_vars
    PROVE  nextTicket' \in {nextTicket, nextTicket + 1}
<1>1. Ready
  BY DEF Ready, FlightInv, Flight
<1>2. CASE ReplyStep
  BY <1>2 DEF ReplyStep, ProcessTransactionResponse
<1> QED  BY <1>1, <1>2, StepChanges, EnvironmentChanges
         DEF PlainStep, FreshStep, AskStep

LEMMA InitTicket == Init => TicketInv
<1> SUFFICES ASSUME Init PROVE TicketInv
  OBVIOUS
<1>1. /\ call.ticket = 0 /\ call.op = "none" /\ nextTicket = 0
      /\ \A s \in Slot : queries[s].ticket = 0
      /\ DOMAIN transactions = {}
  BY DEF Init, NoCall, NoQuery, NoTransactions
<1> QED  BY <1>1 DEF TicketInv, CallInv, EachQueryItsOwnTransaction, IsPending

\* A ticket nobody has is handed to one waiter, and its entry is what that
\* waiter started.
LEMMA StepTicket ==
    ASSUME TypeOK, TypeOK', FlightInv, TicketInv, [Next]_vars
    PROVE  TicketInv'
<1> DEFINE n == nextTicket
<1>1. /\ n \in Nat /\ n + 1 \in Nat \ {0} /\ nextTicket' \in {n, n + 1}
      /\ call.ticket \in Nat /\ call.ticket <= n
      /\ \A s \in Slot : queries[s].ticket \in Nat /\ queries[s].ticket <= n
      /\ IsTable(transactions) /\ IsTable(transactions')
  BY TicketsGrow DEF TypeOK, TableTypeOK, CallTypeOK, Call, PendingQuery, TicketInv
<1>2. /\ \A m \in Nat : m <= n => m <= nextTicket' /\ m # n + 1
      /\ 0 <= nextTicket'
  BY <1>1
<1>3. CallInv'
  BY StepWaits
<1>4. /\ \A s \in Slot : queries[s].ticket # n + 1
      /\ \A s \in Slot : queries[s].ticket <= nextTicket'
      /\ call.ticket <= nextTicket'
      /\ n + 1 # 0 /\ 0 \notin DOMAIN transactions'
  BY <1>1, <1>2 DEF IsTable
<1> HIDE DEF n
<1>5. CASE LeaveStep
  <2>1. PICK g \in Nat :
         /\ g # 0 => call'.ticket # g /\ \A s \in Slot : queries'[s].ticket # g
         /\ \A t \in DOMAIN transactions' \ {g} :
              SameKind(t, transactions, transactions')
    BY <1>5 DEF LeaveStep
  <2>2. /\ Stays(call, call')
        /\ \A s \in Slot : queries'[s].ticket \in {0, queries[s].ticket}
    BY <1>5 DEF LeaveStep
  <2>3. call'.ticket <= nextTicket' /\ \A s \in Slot : queries'[s].ticket <= nextTicket'
    BY <1>2, <1>4, <2>2 DEF Stays
  <2>4. ASSUME NEW s \in Slot, queries'[s].ticket # 0
        PROVE  /\ queries'[s].ticket = queries[s].ticket
               /\ queries'[s].ticket # call'.ticket
               /\ queries'[s].ticket \in DOMAIN transactions' =>
                    transactions'[queries'[s].ticket].kind = SlotKind(s)
               /\ \A r \in Slot \ {s} : queries'[r].ticket # queries'[s].ticket
    <3>1. queries'[s].ticket = queries[s].ticket /\ queries[s].ticket # 0
      BY <2>2, <2>4
    <3>2. /\ queries[s].ticket # call.ticket
          /\ queries[s].ticket \in DOMAIN transactions =>
               transactions[queries[s].ticket].kind = SlotKind(s)
          /\ \A r \in Slot \ {s} : queries[r].ticket # queries[s].ticket
      BY <3>1 DEF TicketInv, EachQueryItsOwnTransaction, IsPending
    <3>3. queries'[s].ticket # call'.ticket
      BY <2>2, <3>1, <3>2 DEF Stays
    <3>4. queries'[s].ticket \in DOMAIN transactions' =>
            transactions'[queries'[s].ticket].kind = SlotKind(s)
      BY <2>1, <2>4, <3>1, <3>2 DEF SameKind
    <3>5. \A r \in Slot \ {s} : queries'[r].ticket # queries'[s].ticket
      BY <2>2, <3>1, <3>2
    <3> QED  BY <3>1, <3>3, <3>4, <3>5
  <2>5. call'.ticket \in DOMAIN transactions' =>
         transactions'[call'.ticket].kind =
           IF call'.op = "IsUserOnline" THEN "TRANS_CONNECTION_DETAIL"
                                        ELSE "TRANS_FEED_HISTORY"
    BY <1>4, <2>1, <2>2 DEF Stays, SameKind, TicketInv, EachQueryItsOwnTransaction
  <2> QED  BY <1>3, <2>3, <2>4, <2>5 DEF TicketInv, EachQueryItsOwnTransaction, IsPending
<1>6. ASSUME NEW op \in WaitOps, NEW arg, NEW type, NEW kind \in TransactionKind,
             WaitStep(op, arg, type, kind),
             kind = IF op = "IsUserOnline" THEN "TRANS_CONNECTION_DETAIL"
                                           ELSE "TRANS_FEED_HISTORY"
      PROVE  TicketInv'
  <2>1. Ready
    BY DEF Ready, FlightInv, Flight
  <2>2. nextTicket' = n + 1
    BY <1>6 DEF WaitStep, AskStep, n
  <2>3. /\ Expects(transactions, transactions', n + 1, 0)
        /\ transactions'[n + 1].kind = kind
    BY <1>6, <2>1, StartedExpects DEF WaitStep, n
  <2>4. call'.ticket = n + 1 /\ call'.op = op /\ queries' = queries
    BY <1>6, <2>2 DEF WaitStep
  <2>5. \A s \in Slot : IsPending(s) /\ queries[s].ticket \in DOMAIN transactions' =>
          transactions'[queries[s].ticket].kind = SlotKind(s)
    BY <1>4, <2>3 DEF TicketInv, EachQueryItsOwnTransaction, Expects
  <2>6. EachQueryItsOwnTransaction'
    BY <1>4, <1>6, <2>3, <2>4, <2>5 DEF TicketInv, EachQueryItsOwnTransaction, IsPending
  <2>7. n + 1 <= nextTicket'
    BY <1>1, <2>2 DEF n
  <2> QED  BY <1>3, <1>4, <2>4, <2>6, <2>7 DEF TicketInv
<1>7. ASSUME NEW s \in Slot, QueryStep(s) PROVE TicketInv'
  <2>1. Ready /\ SlotKind(s) \in TransactionKind /\ SlotExtra(s) \in Nat
    BY DEF Ready, FlightInv, Flight, SlotKind, SlotExtra, TransactionKind
  <2>2. nextTicket' = n + 1
    BY <1>7 DEF QueryStep, AskStep, n
  <2>3. /\ Expects(transactions, transactions', n + 1, SlotExtra(s))
        /\ transactions'[n + 1].kind = SlotKind(s)
    BY <1>7, <2>1, StartedExpects DEF QueryStep, n
  <2>4. /\ call'.ticket = 0 /\ queries'[s].ticket = n + 1
        /\ \A r \in Slot \ {s} : queries'[r].ticket = queries[r].ticket
    BY <1>7, <2>2 DEF QueryStep, TypeOK, TableTypeOK
  <2>5. \A r \in Slot : IsPending(r) /\ queries[r].ticket \in DOMAIN transactions' =>
          transactions'[queries[r].ticket].kind = SlotKind(r)
    BY <1>4, <2>3 DEF TicketInv, EachQueryItsOwnTransaction, Expects
  <2>6. EachQueryItsOwnTransaction'
    BY <1>4, <2>3, <2>4, <2>5 DEF TicketInv, EachQueryItsOwnTransaction, IsPending
  <2>7. n + 1 <= nextTicket' /\ 0 <= nextTicket'
    BY <1>1, <2>2 DEF n
  <2> QED  BY <1>3, <1>4, <2>4, <2>6, <2>7 DEF TicketInv
<1>8. /\ \A u \in Users : OnlineStep(u) => TicketInv'
      /\ \A op \in {"DSFeedHistory", "SendOrdinaryMessages"} : FeedStep(op) => TicketInv'
  BY <1>6 DEF OnlineStep, FeedStep, WaitOps, TransactionKind
<1> QED  BY <1>5, <1>7, <1>8, StepWaits

\* No two waiters share a transaction, and what a waiter finds under its
\* ticket is what it started, whatever tickets are given up, answered late or
\* outlive a connection meanwhile (NextTicket, StartTransaction,
\* AbandonTransaction, PollTransaction).
THEOREM EachItsOwnTransaction == Spec => []EachQueryItsOwnTransaction
<1>1. /\ TypeOK /\ FlightInv /\ TicketInv /\ [Next]_vars /\ TypeOK' =>
           FlightInv' /\ TicketInv'
      /\ TicketInv => EachQueryItsOwnTransaction
  BY StepFlight, StepTicket DEF TicketInv
<1> QED  BY <1>1, InitFlight, InitTicket, TypeCorrect, PTL DEF Spec

-----------------------------------------------------------------------------
(* What a waiter is told.                                                  *)

\* Whatever is under way with ticket t is the request of that type or its
\* reply and about the topic, and so is what the table was told; who a random
\* user is the request does not say.
Answers(c, table, t, type, topic) ==
    /\ \A p \in Flying(c) :
         p.ticket = t => /\ p.type \in {type, "RESPONSE"}
                         /\ p.type # "DS_FETCH_RANDOM_USER" => p.about \in topic
    /\ t \in DOMAIN table /\ table[t].done => table[t].about \in topic

OnlineAnswers ==
    call.op = "IsUserOnline" /\ call.ticket # 0 =>
      Answers(conn, transactions, call.ticket, "GET_CONNECTION_DETAIL", {call.arg})
QueryAnswers(s) ==
    IsPending(s) => Answers(conn, transactions, queries[s].ticket, SlotRequest(s),
                            SlotTopic[s] \cup {Nobody})
AboutInv == /\ OnlineAnswers
            /\ \A s \in Slot : QueryAnswers(s)
            /\ OnlineAnswerIsAboutTheUser

\* With ticket t nothing is under way that was not, and nothing is told.
NoneNew(c, d, t) == \A p \in Flying(d) : p.ticket = t => p \in Flying(c)
ToldBefore(old, new, t) ==
    t \in DOMAIN new /\ new[t].done =>
      t \in DOMAIN old /\ old[t].done /\ new[t].about = old[t].about

LEMMA MovedAnswers ==
    ASSUME NEW c, NEW d, NEW old, NEW new, NEW t, NEW type, NEW topic,
           NoneNew(c, d, t), ToldBefore(old, new, t), Answers(c, old, t, type, topic)
    PROVE  Answers(d, new, t, type, topic)
BY DEF Answers, NoneNew, ToldBefore

\* A ticket keeps being answered as it was asked.
LEMMA StepAnswers ==
    ASSUME TypeOK, TypeOK', FlightInv, [Next]_vars,
           NEW t \in Nat, t # 0, t <= nextTicket,
           NEW type \in TransactionRequests, NEW topic,
           type = "DS_FETCH_RANDOM_USER" => Users \cup {Nobody} \subseteq topic,
           Answers(conn, transactions, t, type, topic)
    PROVE  Answers(conn', transactions', t, type, topic)
<1> DEFINE d == conn'
           new == transactions'
<1>1. /\ Ready /\ conn \in Connection /\ d \in Connection
      /\ nextTicket \in Nat /\ nextTicket + 1 # t
      /\ \A p \in Flying(conn) : p \in Packet
  BY FlyingFact DEF Ready, FlightInv, Flight, TypeOK, SessionTypeOK, TableTypeOK
<1> SUFFICES Answers(d, new, t, type, topic)
  OBVIOUS
<1> HIDE DEF d, new
<1>2. ASSUME NEW p \in ClientPacket, p.ticket = 0, Carries(conn, d, <<p>>)
      PROVE  Flying(d) \subseteq Flying(conn) \cup {p}
  BY <1>1, <1>2, CarriesFlying
<1>3. CASE PlainStep
  <2>1. PICK p \in ClientPacket : p.ticket = 0 /\ Carries(conn, d, <<p>>)
    BY <1>3 DEF PlainStep, Moves, d
  <2>2. ToldBefore(transactions, new, t)
    BY <1>3 DEF PlainStep, Keeps, ToldBefore, new
  <2>3. NoneNew(conn, d, t)
    BY <1>2, <2>1 DEF NoneNew
  <2> QED  BY <2>2, <2>3, MovedAnswers
<1>4. ASSUME NEW p, AskStep(p) PROVE Answers(d, new, t, type, topic)
  <2>1. /\ p \in ClientPacket /\ Carries(conn, d, <<p>>) /\ p.ticket = nextTicket + 1
    BY <1>4 DEF AskStep, d
  <2>2. NoneNew(conn, d, t)
    <3>1. Flying(d) \subseteq Flying(conn) \cup {p}
      BY <1>1, <2>1, CarriesFlying
    <3> QED  BY <1>1, <2>1, <3>1 DEF NoneNew
  <2>3. ToldBefore(transactions, new, t)
    BY <1>1, <1>4, <2>1 DEF AskStep, Expects, ToldBefore, new
  <2> QED  BY <2>2, <2>3, MovedAnswers
<1>5. CASE FreshStep
  <2>1. Flying(d) = {} /\ new = transactions
    <3>1. Requests(d) = <<>> /\ Replies(d) = <<>> /\ d.owed = {} /\ new = transactions
      BY <1>5 DEF FreshStep, d, new
    <3>2. DOMAIN <<>> = {}
      OBVIOUS
    <3> QED  BY <3>1, <3>2 DEF Flying, Range
  <2> QED  BY <2>1 DEF Answers
<1>6. ASSUME NEW p, ProcessTransactionResponse(p) PROVE Answers(d, new, t, type, topic)
  <2>1. /\ p \in Flying(conn) /\ p \in ServerPacket /\ p.ticket \in DOMAIN transactions
        /\ Responds(transactions, new, p)
        /\ \E g \in ServerPacket :
             g.ticket = 0 /\ Flying(d) \subseteq Flying(conn) \cup {g}
    BY <1>6, ReplyFlight DEF d, new
  <2>2. PICK g \in ServerPacket :
             g.ticket = 0 /\ Flying(d) \subseteq Flying(conn) \cup {g}
    BY <2>1
  <2>3. \A q \in Flying(d) :
          q.ticket = t => /\ q.type \in {type, "RESPONSE"}
                          /\ q.type # "DS_FETCH_RANDOM_USER" => q.about \in topic
    BY <2>2 DEF Answers
  <2>4. ASSUME t \in DOMAIN new, new[t].done
        PROVE  new[t].about \in topic
    <3>1. CASE t = p.ticket
      <4>1. p.type # "DS_FETCH_RANDOM_USER"
        BY <2>1 DEF ServerPacket, ServerPackets, UnsolicitedPackets, PresencePackets,
           IgnoredPackets
      <4> QED  BY <2>1, <2>4, <3>1, <4>1 DEF Answers, Responds
    <3>2. CASE t # p.ticket
      BY <2>1, <2>4, <3>2 DEF Answers, Responds
    <3> QED  BY <3>1, <3>2
  <2> QED  BY <2>3, <2>4 DEF Answers
<1>7. CASE Environment
  <2>1. new = transactions /\ (BreakStep \/ ReadStep \/ AnswerStep \/ VolunteerStep)
    BY <1>1, <1>7, EnvironmentChanges DEF new
  <2>2. ASSUME NoneNew(conn, d, t) PROVE Answers(d, new, t, type, topic)
    <3>1. ToldBefore(transactions, new, t)
      BY <2>1 DEF ToldBefore
    <3> QED  BY <2>2, <3>1, MovedAnswers
  <2>3. CASE BreakStep
    <3>1. PICK p \in ClientPacket : p.ticket = 0 /\ Carries(conn, d, <<p>>)
      BY <1>1, <2>3, MovesFact DEF BreakStep, Moves, d
    <3>2. NoneNew(conn, d, t)
      BY <1>2, <3>1 DEF NoneNew
    <3> QED  BY <2>2, <3>2
  <2>4. CASE ReadStep
    <3>1. Live(phase) \in BOOLEAN /\ Flight(conn, transactions, nextTicket, Live(phase))
      BY DEF FlightInv, Live
    <3>2. Flying(d) \subseteq Flying(conn)
      BY <1>1, <2>4, <3>1, ReceivedFlight DEF ReadStep, d
    <3> QED  BY <2>2, <3>2 DEF NoneNew
  <2>5. CASE VolunteerStep
    <3>1. PICK r \in ServerPacket :
             r.ticket = 0 /\ d.owed = conn.owed /\ Sent(conn, d, r)
      BY <2>5 DEF VolunteerStep, d
    <3>2. Flying(d) \subseteq Flying(conn) \cup {r}
      BY <1>1, <3>1, SentFlying DEF Sent
    <3> QED  BY <2>2, <3>1, <3>2 DEF NoneNew
  <2>6. CASE AnswerStep
    <3>1. PICK q \in conn.owed, r \in ServerPacket :
             /\ r.ticket = q.ticket
             /\ r.type = IF q.type = "HANDSHAKE" THEN "HANDSHAKE_RESPONSE" ELSE "RESPONSE"
             /\ r.about \in IF q.type \in {"HANDSHAKE", "DS_FETCH_RANDOM_USER"}
                            THEN Users \cup {Nobody} ELSE {q.about}
             /\ d.owed = conn.owed \ {q}
             /\ Sent(conn, d, r)
      BY <2>6 DEF AnswerStep, d
    <3>2. Flying(d) \subseteq Flying(conn) \cup {r}
      BY <1>1, <3>1, SentFlying DEF Sent
    <3>3. q \in Flying(conn) /\ q \in ClientPacket
      BY <1>1 DEF Flying, Connection
    <3>4. CASE r.ticket # t
      <4>1. NoneNew(conn, d, t)
        BY <3>2, <3>4 DEF NoneNew
      <4> QED  BY <2>2, <4>1
    <3>5. CASE r.ticket = t
      <4>1. /\ q.type \in {type, "RESPONSE"}
            /\ q.type # "DS_FETCH_RANDOM_USER" => q.about \in topic
        BY <3>1, <3>3, <3>5 DEF Answers
      <4>2. q.type = type
        BY <3>3, <4>1 DEF ClientPacket, ClientPackets, TransactionRequests
      <4>3. r.type = "RESPONSE" /\ r.about \in topic
        BY <3>1, <4>1, <4>2 DEF TransactionRequests
      <4>4. \A p \in Flying(d) :
              p.ticket = t => /\ p.type \in {type, "RESPONSE"}
                              /\ p.type # "DS_FETCH_RANDOM_USER" => p.about \in topic
        BY <3>2, <4>3 DEF Answers
      <4> QED  BY <2>1, <4>4 DEF Answers
    <3> QED  BY <3>4, <3>5
  <2> QED  BY <2>1, <2>3, <2>4, <2>5, <2>6
<1> QED  BY <1>1, <1>3, <1>4, <1>5, <1>6, <1>7, StepChanges DEF ReplyStep

\* A ticket just drawn is of one packet, the request.
LEMMA AskedAnswers ==
    ASSUME TypeOK, FlightInv, NEW type \in TransactionRequests, NEW about \in Subject,
           NEW topic, about \in topic, AskStep(Request(type, about, nextTicket')),
           NEW kind \in TransactionKind, NEW extra \in Nat,
           transactions' = Started(kind, extra), conn' \in Connection
    PROVE  Answers(conn', transactions', nextTicket', type, topic)
<1> DEFINE p == Request(type, about, nextTicket')
           t == nextTicket + 1
<1>1. /\ p \in ClientPacket /\ p.type = type /\ p.about = about /\ p.ticket = t
      /\ nextTicket' = t /\ Carries(conn, conn', <<p>>)
  BY DEF AskStep, Request
<1>2. /\ Ready /\ conn \in Connection /\ nextTicket \in Nat
      /\ \A q \in Flying(conn) : q.ticket <= nextTicket
      /\ \A q \in Flying(conn) : q.ticket \in Nat
  BY FlyingFact DEF Ready, FlightInv, Flight, Numbered, TypeOK, SessionTypeOK, TableTypeOK
<1>3. \A m \in Nat : m <= nextTicket => m # t
  BY <1>2
<1>4. ~transactions'[t].done
  BY <1>2, StartedExpects DEF Expects
<1> HIDE DEF p, t
<1>5. Flying(conn') \subseteq Flying(conn) \cup {p}
  BY <1>1, <1>2, CarriesFlying
<1>6. \A q \in Flying(conn') : q.ticket = t => q = p
  BY <1>2, <1>3, <1>5
<1> QED  BY <1>1, <1>4, <1>6 DEF Answers

\* What a waiter reads off the table is about what it asked.
LEMMA ReadAnswers ==
    ASSUME NEW c, NEW table, NEW t, NEW type, NEW topic,
           Answers(c, table, t, type, topic), t \in DOMAIN table, table[t].done
    PROVE  table[t].about \in topic
BY DEF Answers

\* The methods that return, as far as IsUserOnline's answer goes.
LEMMA StepTold ==
    ASSUME TypeOK, FlightInv, TicketInv, AboutInv, [Next]_vars
    PROVE  OnlineAnswerIsAboutTheUser'
<1>1. /\ OnlineAnswerIsAboutTheUser /\ CallInv /\ NoResult.op = "none"
      /\ "IsUserOnline" \notin QueryOps
  BY DEF AboutInv, TicketInv, NoResult, QueryOps
<1>2. \A op, arg, block, ok, about :
         Return(op, arg, block, ok, about) /\ (op = "IsUserOnline" /\ ok => about = arg)
           => OnlineAnswerIsAboutTheUser'
  BY DEF Return, OnlineAnswerIsAboutTheUser
<1>3. \A op, arg, t : RunPump(op, arg, t) => OnlineAnswerIsAboutTheUser'
  BY <1>1 DEF RunPump, OnlineAnswerIsAboutTheUser
<1>4. result' = result => OnlineAnswerIsAboutTheUser'
  BY <1>1 DEF OnlineAnswerIsAboutTheUser
<1>5. \A op, arg, ok, about :
         WaitReturns(op, arg, ok, about) /\ (op = "IsUserOnline" /\ ok => about = arg)
           => OnlineAnswerIsAboutTheUser'
  BY <1>2, <1>4 DEF WaitReturns
<1>6. CASE ElseStep
  BY <1>4, <1>6 DEF ElseStep, OnlineAnswerIsAboutTheUser
<1>7. ASSUME NEW u \in Users, IsUserOnline(u) PROVE OnlineAnswerIsAboutTheUser'
  <2>1. \/ \E ok : Return("IsUserOnline", u, FALSE, ok, u)
        \/ Return("IsUserOnline", u, FALSE, FALSE, Nobody)
        \/ RunPump("IsUserOnline", u, nextTicket')
    BY <1>7 DEF IsUserOnline
  <2> QED  BY <1>2, <1>3, <2>1
<1>8. ASSUME NEW op, FeedHistory(op) PROVE OnlineAnswerIsAboutTheUser'
  <2>1. RunPump(op, Nobody, nextTicket') \/ WaitReturns(op, Nobody, FALSE, Nobody)
    BY <1>8 DEF FeedHistory
  <2> QED  BY <1>3, <1>5, <2>1
<1>9. ASSUME NEW op \in QueryOps, NEW arg, ReturnBlock(op, arg)
      PROVE  OnlineAnswerIsAboutTheUser'
  BY <1>1, <1>2, <1>3, <1>9 DEF ReturnBlock
<1>10. ASSUME NEW op \in QueryOps, NEW s \in Slot, NEW arg, Query(op, s, arg)
       PROVE  OnlineAnswerIsAboutTheUser'
  <2>1. \/ Return(op, arg, FALSE, FALSE, Nobody) \/ RunPump(op, arg, 0)
        \/ ReturnBlock(op, arg)
    BY <1>10 DEF Query, StartQuery
  <2> QED  BY <1>1, <1>2, <1>3, <1>9, <2>1
<1>11. CASE ReturnWait
  <2>1. CASE /\ call.ticket \in DOMAIN transactions /\ transactions[call.ticket].done
             /\ WaitReturns(call.op, call.arg, transactions[call.ticket].success,
                            transactions[call.ticket].about)
    <3>1. call.op = "IsUserOnline" => transactions[call.ticket].about \in {call.arg}
      BY <1>11, <2>1, ReadAnswers DEF ReturnWait, AboutInv, OnlineAnswers
    <3> QED  BY <1>5, <2>1, <3>1
  <2>2. \/ WaitReturns(call.op, call.arg, FALSE, Nobody)
        \/ result' = result
        \/ /\ call.ticket \in DOMAIN transactions /\ transactions[call.ticket].done
           /\ WaitReturns(call.op, call.arg, transactions[call.ticket].success,
                          transactions[call.ticket].about)
    BY <1>11 DEF ReturnWait
  <2> QED  BY <1>4, <1>5, <2>1, <2>2
<1>12. CASE ReturnQuery
  <2>1. call.op \in QueryOps
    BY <1>12 DEF ReturnQuery, QueryOps
  <2>2. \/ \E ok, about : Return(call.op, call.arg, FALSE, ok, about)
        \/ ReturnBlock(call.op, call.arg)
    BY <1>12 DEF ReturnQuery, QueryReturns
  <2> QED  BY <1>1, <1>2, <1>9, <2>1, <2>2
<1> QED  BY <1>1, <1>6, <1>7, <1>8, <1>10, <1>11, <1>12, StepKinds

LEMMA InitAbout == Init => AboutInv
BY DEF Init, NoCall, NoQuery, NoResult, AboutInv, OnlineAnswers, QueryAnswers,
       IsPending, OnlineAnswerIsAboutTheUser

\* The request of a slot and its topic.
LEMMA SlotFact ==
    ASSUME NEW s \in Slot
    PROVE  /\ SlotRequest(s) \in TransactionRequests
           /\ SlotKind(s) \in TransactionKind /\ SlotExtra(s) \in Nat
           /\ AskedAbout(s) \in Subject
           /\ AskedAbout(s) \in SlotTopic[s] \cup {Nobody}
           /\ SlotRequest(s) = "DS_FETCH_RANDOM_USER" =>
                Users \cup {Nobody} \subseteq SlotTopic[s] \cup {Nobody}
BY ManagerAssumption DEF Slot, SlotRequest, SlotKind, SlotExtra, SlotTopic,
   AskedAbout, TransactionRequests, TransactionKind, Subject

\* Whoever waits goes on to be answered as asked.
LEMMA StepAbout ==
    ASSUME TypeOK, TypeOK', FlightInv, TicketInv, AboutInv, [Next]_vars
    PROVE  AboutInv'
<1>1. OnlineAnswerIsAboutTheUser'
  BY StepTold
<1>2. /\ conn' \in Connection
      /\ call.ticket \in Nat /\ call.ticket <= nextTicket
      /\ \A s \in Slot : queries[s].ticket \in Nat /\ queries[s].ticket <= nextTicket
  BY DEF TypeOK, SessionTypeOK, TableTypeOK, CallTypeOK, Call, PendingQuery, TicketInv
<1>3. ASSUME call.op = "IsUserOnline", call.ticket # 0
      PROVE  Answers(conn', transactions', call.ticket, "GET_CONNECTION_DETAIL",
                     {call.arg})
  <2>1. Answers(conn, transactions, call.ticket, "GET_CONNECTION_DETAIL", {call.arg})
    BY <1>3 DEF AboutInv, OnlineAnswers
  <2> QED  BY <1>2, <1>3, <2>1, StepAnswers DEF TransactionRequests
<1>4. ASSUME NEW s \in Slot, queries[s].ticket # 0
      PROVE  Answers(conn', transactions', queries[s].ticket, SlotRequest(s),
                     SlotTopic[s] \cup {Nobody})
  <2> DEFINE topic == SlotTopic[s] \cup {Nobody}
             type == SlotRequest(s)
  <2>1. /\ type \in TransactionRequests
        /\ type = "DS_FETCH_RANDOM_USER" => Users \cup {Nobody} \subseteq topic
    BY SlotFact
  <2>2. Answers(conn, transactions, queries[s].ticket, type, topic)
    BY <1>4 DEF AboutInv, QueryAnswers, IsPending
  <2> HIDE DEF topic, type
  <2>3. Answers(conn', transactions', queries[s].ticket, type, topic)
    BY <1>2, <1>4, <2>1, <2>2, StepAnswers
  <2> QED  BY <2>3 DEF topic, type
<1>5. ASSUME \A s \in Slot : queries'[s].ticket \in {0, queries[s].ticket}
      PROVE  \A s \in Slot : QueryAnswers(s)'
  BY <1>4, <1>5 DEF QueryAnswers, IsPending
<1>6. ASSUME Stays(call, call') PROVE OnlineAnswers'
  BY <1>3, <1>6 DEF OnlineAnswers, Stays
<1>7. CASE LeaveStep
  BY <1>1, <1>5, <1>6, <1>7 DEF LeaveStep, AboutInv
<1>8. ASSUME NEW u \in Users, OnlineStep(u) PROVE AboutInv'
  <2>1. /\ AskStep(Request("GET_CONNECTION_DETAIL", u, nextTicket'))
        /\ transactions' = Started("TRANS_CONNECTION_DETAIL", 0)
        /\ call'.arg = u /\ call'.ticket = nextTicket' /\ UNCHANGED queries
    BY <1>8 DEF OnlineStep, WaitStep
  <2>2. Answers(conn', transactions', nextTicket', "GET_CONNECTION_DETAIL", {u})
    <3>1. u \in Subject /\ u \in {u} /\ 0 \in Nat
      BY DEF Subject
    <3> QED  BY <1>2, <2>1, <3>1, AskedAnswers DEF TransactionRequests, TransactionKind
  <2> QED  BY <1>1, <1>5, <2>1, <2>2 DEF AboutInv, OnlineAnswers
<1>9. ASSUME NEW op \in {"DSFeedHistory", "SendOrdinaryMessages"}, FeedStep(op)
      PROVE  AboutInv'
  <2>1. call'.op # "IsUserOnline" /\ UNCHANGED queries
    BY <1>9 DEF FeedStep, WaitStep
  <2> QED  BY <1>1, <1>5, <2>1 DEF AboutInv, OnlineAnswers
<1>10. ASSUME NEW s \in Slot, QueryStep(s) PROVE AboutInv'
  <2>1. /\ AskStep(Request(SlotRequest(s), AskedAbout(s), nextTicket'))
        /\ transactions' = Started(SlotKind(s), SlotExtra(s))
        /\ call'.ticket = 0
        /\ queries'[s].ticket = nextTicket'
        /\ \A r \in Slot \ {s} : queries'[r].ticket = queries[r].ticket
    BY <1>10 DEF QueryStep, TypeOK, TableTypeOK
  <2>2. Answers(conn', transactions', nextTicket', SlotRequest(s),
                SlotTopic[s] \cup {Nobody})
    <3> DEFINE topic == SlotTopic[s] \cup {Nobody}
               type == SlotRequest(s)
               about == AskedAbout(s)
               kind == SlotKind(s)
               extra == SlotExtra(s)
    <3>1. /\ type \in TransactionRequests /\ about \in Subject /\ about \in topic
          /\ kind \in TransactionKind /\ extra \in Nat
      BY SlotFact
    <3>2. /\ AskStep(Request(type, about, nextTicket'))
          /\ transactions' = Started(kind, extra)
      BY <2>1
    <3> HIDE DEF topic, type, about, kind, extra
    <3>3. Answers(conn', transactions', nextTicket', type, topic)
      BY <1>2, <3>1, <3>2, AskedAnswers
    <3> QED  BY <3>3 DEF topic, type
  <2>3. \A r \in Slot : QueryAnswers(r)'
    BY <1>4, <2>1, <2>2 DEF QueryAnswers, IsPending
  <2> QED  BY <1>1, <2>1, <2>3 DEF AboutInv, OnlineAnswers
<1> QED  BY <1>7, <1>8, <1>9, <1>10, StepWaits

\* The invariant of the table, its waiters, and what they are to be told.
LEMMA WaitersKept ==
    Spec => [](TypeOK /\ FlightInv /\ TicketInv /\ AboutInv)
<1>1. TypeOK /\ FlightInv /\ TicketInv /\ AboutInv /\ [Next]_vars /\ TypeOK' =>
        FlightInv' /\ TicketInv' /\ AboutInv'
  BY StepFlight, StepTicket, StepAbout
<1> QED  BY <1>1, InitFlight, InitTicket, InitAbout, TypeCorrect, PTL DEF Spec

\* IsUserOnline answers with what the server said of the user asked about, or
\* with no, however late and in whatever order replies to earlier questions
\* come (IsUserOnline, WaitForTransaction, HandleTransactionResponse).
THEOREM AnswersAboutTheUser == Spec => []OnlineAnswerIsAboutTheUser
<1>1. AboutInv => OnlineAnswerIsAboutTheUser
  BY DEF AboutInv
<1> QED  BY <1>1, WaitersKept, PTL

-----------------------------------------------------------------------------
(* The contract of the queries.                                            *)

\* A query whose slot is s returns with an answer to s, or goes on to Pump and
\* has said nothing yet.
LEMMA AnswerFact ==
    ASSUME NEW op \in QueryOps, NEW s \in Slot, Asking(op, s), NEW arg,
           op = "FetchUserData" => arg = s
    PROVE  /\ result'.op = op /\ result'.arg = arg =>
                LastAnswer' = [question |-> s, block |-> result'.block,
                               about |-> result'.about]
           /\ \A ticket : RunPump(op, arg, ticket) => LastAnswer' = Nobody
           /\ ReturnBlock(op, arg) => LastAnswer' \in {Contract!Blocked(s), Nobody}
<1>1. ASSUME result'.op = op, result'.arg = arg
      PROVE  LastAnswer' = [question |-> s, block |-> result'.block,
                            about |-> result'.about]
  <2>1. ResultSlot' = s
    BY <1>1 DEF ResultSlot, Asking
  <2> QED  BY <1>1, <2>1 DEF LastAnswer, QueryOps
<1>2. ASSUME NEW ticket, RunPump(op, arg, ticket) PROVE LastAnswer' = Nobody
  BY <1>2 DEF RunPump, LastAnswer, NoResult
<1>3. ASSUME ReturnBlock(op, arg)
      PROVE  LastAnswer' \in {Contract!Blocked(s), Nobody}
  <2>1. CASE op = "DSFetchRandomUserSync"
    BY <1>2, <1>3, <2>1 DEF ReturnBlock
  <2>2. CASE op # "DSFetchRandomUserSync"
    <3>1. Return(op, arg, TRUE, FALSE, Nobody)
      BY <1>3, <2>2 DEF ReturnBlock, QueryOps
    <3> QED  BY <1>1, <3>1 DEF Return, Contract!Blocked
  <2> QED  BY <2>1, <2>2
<1> QED  BY <1>1, <1>2, <1>3

\* What any other method returns is no answer to a query.
LEMMA NoAnswerFact ==
    /\ \A op, arg : op \notin QueryOps =>
         /\ \A block, ok, about : Return(op, arg, block, ok, about) => LastAnswer' = Nobody
         /\ \A ok, about : WaitReturns(op, arg, ok, about) =>
              LastAnswer' = Nobody \/ result' = result
    /\ \A op, arg, ticket : RunPump(op, arg, ticket) => LastAnswer' = Nobody
    /\ result'.op \notin QueryOps => LastAnswer' = Nobody
    /\ result' = result => LastAnswer' = LastAnswer
<1>1. result'.op \notin QueryOps => LastAnswer' = Nobody
  BY DEF LastAnswer, QueryOps
<1>2. result' = result => LastAnswer' = LastAnswer
  BY DEF LastAnswer, ResultSlot
<1>3. \A op, arg, block, ok, about :
         op \notin QueryOps /\ Return(op, arg, block, ok, about) => LastAnswer' = Nobody
  BY <1>1 DEF Return
<1>4. \A op, arg, ticket : RunPump(op, arg, ticket) => LastAnswer' = Nobody
  BY DEF RunPump, LastAnswer, NoResult
<1>5. \A op, arg, ok, about :
         op \notin QueryOps /\ WaitReturns(op, arg, ok, about) =>
           LastAnswer' = Nobody \/ result' = result
  BY <1>3 DEF WaitReturns
<1> QED  BY <1>1, <1>2, <1>3, <1>4, <1>5

\* What a step that asks, ends or keeps the query of one slot does to the set
\* of questions.
LEMMA AskedFact ==
    ASSUME TypeOK, NEW s \in Slot
    PROVE  /\ s \in AskedSlots <=> IsPending(s)
           /\ (\A r \in Slot : queries'[r].ticket = queries[r].ticket) =>
                AskedSlots' = AskedSlots
           /\ queries' = [queries EXCEPT ![s] = NoQuery] =>
                AskedSlots' = AskedSlots \ {s}
           /\ \A t \in Nat :
                t # 0 /\ queries' = [queries EXCEPT ![s] = [ticket |-> t, late |-> FALSE]] =>
                  AskedSlots' = AskedSlots \cup {s}
<1>1. AskedSlots' = {r \in Slot : queries'[r].ticket # 0}
  BY DEF AskedSlots, IsPending
<1>2. AskedSlots = {r \in Slot : queries[r].ticket # 0}
  BY DEF AskedSlots, IsPending
<1>3. ASSUME queries' = [queries EXCEPT ![s] = NoQuery]
      PROVE  AskedSlots' = AskedSlots \ {s}
  <2>1. \A r \in Slot : queries'[r].ticket = IF r = s THEN 0 ELSE queries[r].ticket
    BY <1>3 DEF NoQuery, TypeOK, TableTypeOK
  <2> QED  BY <1>1, <1>2, <2>1
<1>4. ASSUME NEW t \in Nat, t # 0,
             queries' = [queries EXCEPT ![s] = [ticket |-> t, late |-> FALSE]]
      PROVE  AskedSlots' = AskedSlots \cup {s}
  <2>1. \A r \in Slot : queries'[r].ticket = IF r = s THEN t ELSE queries[r].ticket
    BY <1>4 DEF TypeOK, TableTypeOK
  <2> QED  BY <1>1, <1>2, <1>4, <2>1
<1>5. s \in AskedSlots <=> IsPending(s)
  BY DEF AskedSlots
<1> QED  BY <1>1, <1>2, <1>3, <1>4, <1>5

\* Asking, or asking again: refused, asked or polled.
LEMMA QueryContract ==
    ASSUME TypeOK, NEW op \in QueryOps, NEW s \in Slot, Asking(op, s),
           Query(op, s, AskedAbout(s))
    PROVE  Contract!Next
<1> DEFINE arg == AskedAbout(s)
<1>1. op = "FetchUserData" => arg = s
  BY DEF Asking, AskedAbout
<1>2. nextTicket + 1 \in Nat /\ nextTicket + 1 # 0
  BY DEF TypeOK, TableTypeOK
<1> HIDE DEF arg
<1>3. CASE Return(op, arg, FALSE, FALSE, Nobody) /\ queries' = [queries EXCEPT ![s] = NoQuery]
  <2>1. LastAnswer' = Contract!Final(s, Nobody)
    BY <1>1, <1>3, AnswerFact DEF Contract!Final, Return
  <2> QED  BY <1>3, <2>1, AskedFact DEF Contract!Next, Contract!Refuse
<1>4. CASE ~IsPending(s) /\ StartQuery(op, s, arg)
  <2>1. CASE /\ queries' = [queries EXCEPT ![s] = [ticket |-> nextTicket + 1,
                                                   late |-> FALSE]]
             /\ ReturnBlock(op, arg)
    <3>1. AskedSlots' = AskedSlots \cup {s} /\ s \notin AskedSlots
      BY <1>2, <1>4, <2>1, AskedFact
    <3>2. LastAnswer' \in {Contract!Blocked(s), Nobody}
      BY <1>1, <2>1, AnswerFact
    <3> QED  BY <3>1, <3>2 DEF Contract!Next, Contract!Ask
  <2>2. CASE Return(op, arg, FALSE, FALSE, Nobody) /\ UNCHANGED queries
    <3>1. LastAnswer' = Contract!Final(s, Nobody)
      BY <1>1, <2>2, AnswerFact DEF Contract!Final, Return
    <3>2. AskedSlots' = AskedSlots \ {s}
      BY <1>4, <2>2, AskedFact
    <3> QED  BY <3>1, <3>2 DEF Contract!Next, Contract!Refuse
  <2>3. nextTicket' = nextTicket + 1
    BY <1>4 DEF StartQuery, NextTicket
  <2> QED  BY <1>4, <2>1, <2>2, <2>3 DEF StartQuery
<1>5. CASE RunPump(op, arg, 0) /\ UNCHANGED queries
  <2>1. LastAnswer' = Nobody
    BY <1>1, <1>5, AnswerFact
  <2> QED  BY <1>5, <2>1, AskedFact DEF Contract!Next, Contract!Elsewhere
<1> QED  BY <1>3, <1>4, <1>5 DEF Query, arg

\* After its Pump: answered, failed or still waiting.
LEMMA ReturnQueryContract ==
    ASSUME TypeOK, TicketInv, AboutInv, ReturnQuery
    PROVE  Contract!Next
<1> DEFINE s == CalledSlot
           t == queries[s].ticket
<1>1. /\ s \in Slot /\ call.op \in QueryOps /\ Asking(call.op, s)
      /\ call.op = "FetchUserData" => call.arg = s
  BY DEF ReturnQuery, CalledSlot, Slot, TicketInv, CallInv, QueryOps, Asking
<1>2. t \in DOMAIN transactions => IsPending(s)
  BY DEF TypeOK, TableTypeOK, IsTable, IsPending
<1>3. t \in DOMAIN transactions /\ transactions[t].done =>
        transactions[t].about \in SlotTopic[s] \cup {Nobody}
  <2>1. t \in DOMAIN transactions =>
          Answers(conn, transactions, t, SlotRequest(s), SlotTopic[s] \cup {Nobody})
    BY <1>1, <1>2 DEF AboutInv, QueryAnswers
  <2> QED  BY <2>1 DEF Answers
<1>4. ASSUME NEW success, NEW about, QueryReturns(success, about)
      PROVE  /\ AskedSlots' = AskedSlots \ {s}
             /\ LastAnswer' = Contract!Final(s, IF success THEN about ELSE Nobody)
  <2>1. queries' = [queries EXCEPT ![s] = NoQuery]
    BY <1>4 DEF QueryReturns
  <2>2. LastAnswer' = [question |-> s, block |-> FALSE,
                       about |-> IF success THEN about ELSE Nobody]
    BY <1>1, <1>4, AnswerFact DEF QueryReturns, Return
  <2> QED  BY <1>1, <2>1, <2>2, AskedFact DEF Contract!Final
<1>5. CASE QueryReturns(FALSE, Nobody)
  BY <1>1, <1>4, <1>5 DEF Contract!Next, Contract!Refuse
<1>6. CASE /\ t \in DOMAIN transactions /\ transactions[t].done
           /\ QueryReturns(transactions[t].success, transactions[t].about)
  <2>1. s \in AskedSlots
    BY <1>1, <1>2, <1>6, AskedFact
  <2>2. \E x \in SlotTopic[s] \cup {Nobody} : LastAnswer' = Contract!Final(s, x)
    BY <1>3, <1>4, <1>6
  <2> QED  BY <1>1, <1>4, <1>6, <2>1, <2>2 DEF Contract!Next, Contract!Answer
<1>7. CASE /\ t \in DOMAIN transactions /\ ReturnBlock(call.op, call.arg)
           /\ UNCHANGED queries
  <2>1. s \in AskedSlots /\ AskedSlots' = AskedSlots
    BY <1>1, <1>2, <1>7, AskedFact
  <2>2. LastAnswer' \in {Contract!Blocked(s), Nobody}
    BY <1>1, <1>7, AnswerFact
  <2> QED  BY <1>1, <2>1, <2>2 DEF Contract!Next, Contract!Poll
<1> QED  BY <1>5, <1>6, <1>7 DEF ReturnQuery

\* Every step of the manager is one the contract allows, or none to it.
LEMMA StepContract ==
    ASSUME TypeOK, FlightInv, TicketInv, AboutInv, [Next]_vars
    PROVE  [Contract!Next]_<<AskedSlots, LastAnswer>>
<1> DEFINE Kept == \A r \in Slot : queries'[r].ticket = queries[r].ticket
<1>1. ASSUME Kept, result' = result \/ LastAnswer' = Nobody
      PROVE  [Contract!Next]_<<AskedSlots, LastAnswer>>
  <2>1. AskedSlots' = AskedSlots
    BY <1>1 DEF AskedSlots, IsPending
  <2> QED  BY <1>1, <2>1, NoAnswerFact DEF Contract!Next, Contract!Elsewhere
<1>2. CASE ElseStep
  BY <1>1, <1>2, NoAnswerFact DEF ElseStep
<1>3. ASSUME NEW u \in Users, IsUserOnline(u)
      PROVE  [Contract!Next]_<<AskedSlots, LastAnswer>>
  <2>1. \/ \E ok : Return("IsUserOnline", u, FALSE, ok, u)
        \/ Return("IsUserOnline", u, FALSE, FALSE, Nobody)
        \/ RunPump("IsUserOnline", u, nextTicket')
    BY <1>3 DEF IsUserOnline
  <2>2. Kept /\ "IsUserOnline" \notin QueryOps
    BY <1>3 DEF IsUserOnline, QueryOps
  <2> QED  BY <1>1, <2>1, <2>2, NoAnswerFact
<1>4. ASSUME NEW op \in {"DSFeedHistory", "SendOrdinaryMessages"}, FeedHistory(op),
             UNCHANGED queries
      PROVE  [Contract!Next]_<<AskedSlots, LastAnswer>>
  <2>1. RunPump(op, Nobody, nextTicket') \/ WaitReturns(op, Nobody, FALSE, Nobody)
    BY <1>4 DEF FeedHistory
  <2>2. Kept /\ op \notin QueryOps
    BY <1>4 DEF QueryOps
  <2> QED  BY <1>1, <2>1, <2>2, NoAnswerFact
<1>5. CASE ReturnWait
  <2>1. Kept /\ call.op \notin QueryOps
    BY <1>5 DEF ReturnWait, TicketInv, CallInv, WaitOps, QueryOps
  <2>2. \/ \E ok, about : WaitReturns(call.op, call.arg, ok, about)
        \/ result' = result
    BY <1>5 DEF ReturnWait
  <2> QED  BY <1>1, <2>1, <2>2, NoAnswerFact
<1> QED  BY <1>2, <1>3, <1>4, <1>5, StepKinds, QueryContract, ReturnQueryContract
         DEF TicketInv

LEMMA InitContract == Init => Contract!Init
BY DEF Init, Contract!Init, AskedSlots, IsPending, NoQuery, LastAnswer, NoResult

\* FetchUserData, DSFetchRandomUser and GetStatus keep the contract of
\* BlockingQueries for every number of users and tickets, whatever the server
\* and the network do: a question is asked once, blocks while it is awaited,
\* and ends with one final answer that is about what was asked, or nothing.
THEOREM KeepsContract == Spec => QueriesKeepContract
<1>1. TypeOK /\ FlightInv /\ TicketInv /\ AboutInv /\ [Next]_vars =>
        [Contract!Next]_<<AskedSlots, LastAnswer>>
  BY StepContract
<1> QED  BY <1>1, InitContract, WaitersKept, PTL
         DEF Spec, QueriesKeepContract, Contract!Spec
=============================================================================
