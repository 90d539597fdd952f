----------------------------- MODULE PartsProofs -----------------------------
(***************************************************************************)
(* What is proved of the parts that stand alone, each of a specification   *)
(* of its own: the server list, for any hosts and any lists; the clock and *)
(* the counters, for any width of an int; the parsers, for any sizes and   *)
(* lengths; packs, for any width of a byte, any items and whatever of them *)
(* arrives; the history packer, for any texts and events and the whole     *)
(* layout of its blob; the names of spool files, for any digits and any    *)
(* spellings of an id; the socket, for any client and any number of        *)
(* packets, as an implementation of BytePipe.                              *)
(***************************************************************************)
EXTENDS ServerList, Counters, WireParsers, MemoryPacking, HistoryTransfer,
        SpoolNames, SocketClient, NetNatsueSocketProofs

-----------------------------------------------------------------------------
(* The server list.                                                        *)

\* A part of a list is a list.
LEMMA PartOfList ==
    ASSUME NEW S, NEW s \in Seq(S), NEW n \in Nat, n <= Len(s)
    PROVE  SubSeq(s, 1, n) \in Seq(S)
OBVIOUS

LEMMA ListsFact == \A list \in Lists : list \in Seq(Hosts)
BY ServerListAssumption DEF Lists, BoundedSeq, SeqOf

\* What a login brings is a list, so that the index stays inside the servers.
LEMMA ReceiveFact ==
    ASSUME ServerListTypeOK, NEW list \in Seq(Hosts), ReceiveList(list)
    PROVE  /\ servers' \in Seq(Hosts) /\ rotation' \in Nat
           /\ servers' # <<>> => rotation' < Len(servers')
           /\ servers # <<>> => servers' # <<>>
<1>1. CASE list = <<>>
  BY <1>1 DEF ReceiveList, ServerListTypeOK
<1>2. CASE list # <<>>
  <2>1. Len(list) \in Nat /\ Len(list) > 0
    BY <1>2
  <2> QED  BY <1>2, <2>1 DEF ReceiveList
<1> QED  BY <1>1, <1>2

\* The list that a response cut short leaves.
LEMMA CutListFact ==
    ASSUME NEW offer \in Lists, NEW count \in Nat, NEW whole \in Nat, whole <= Len(offer)
    PROVE  SubSeq(offer, 1, IF count < whole THEN count ELSE whole) \in Seq(Hosts)
<1>1. offer \in Seq(Hosts)
  BY ListsFact
<1>2. (IF count < whole THEN count ELSE whole) <= Len(offer)
  BY <1>1
<1> QED  BY <1>1, <1>2, PartOfList

LEMMA ListTypeInit == ServerListInit => ServerListTypeOK
BY DEF ServerListInit, ServerListTypeOK

\* The remainder of a division, which the SMT solver needs to be told.
LEMMA RemainderFact ==
    ASSUME NEW n \in Nat, NEW d \in Nat, d > 0
    PROVE  n % d \in 0 .. d - 1
OBVIOUS

LEMMA ListTypeStep ==
    ServerListTypeOK /\ [ServerListNext]_serverListVars => ServerListTypeOK'
<1> SUFFICES ASSUME ServerListTypeOK, [ServerListNext]_serverListVars
             PROVE  ServerListTypeOK'
  OBVIOUS
<1> USE DEF ServerListTypeOK
<1>1. ASSUME NEW list \in Lists, SetServerList(list) PROVE ServerListTypeOK'
  <2>1. list \in Seq(Hosts) /\ (list # <<>> => Len(list) > 0)
    BY ListsFact
  <2> QED  BY <1>1, <2>1 DEF SetServerList, Changes
<1>2. ASSUME NEW host \in Hosts \cup {NoHost}, OverrideHost(host)
      PROVE  ServerListTypeOK'
  BY <1>2 DEF OverrideHost, Changes
<1>3. ASSUME NEW reached \in BOOLEAN, StartConnecting(reached)
      PROVE  ServerListTypeOK'
  <2>1. /\ UNCHANGED <<servers, override, listed>>
        /\ attempt' \in {"none", "failed", "begun", "online"}
    BY <1>3 DEF StartConnecting
  <2>2. CASE override = NoHost /\ servers # <<>>
    <3>1. Len(servers) \in Nat /\ Len(servers) > 0 /\ rotation + 1 \in 1 .. Len(servers)
      BY <2>2
    <3>2. rotation' \in 0 .. Len(servers) - 1
      BY <1>3, <2>2, <3>1, RemainderFact DEF StartConnecting, NextRotation
    <3>3. connectedHost' \in Hosts
      BY <1>3, <2>2, <3>1 DEF StartConnecting
    <3> QED  BY <2>1, <3>1, <3>2, <3>3
  <2>3. CASE ~(override = NoHost /\ servers # <<>>)
    <3>1. rotation' = rotation /\ connectedHost' \in Hosts \cup {NoHost, DefaultHost}
      BY <1>3, <2>3 DEF StartConnecting
    <3> QED  BY <2>1, <3>1
  <2> QED  BY <2>2, <2>3
<1>4. CASE SessionEnds \/ LoggedIn \/ UNCHANGED serverListVars
  BY <1>4 DEF SessionEnds, LoggedIn, serverListVars
<1>5. ASSUME NEW count \in 0 .. MaxListed, NEW whole \in 0 .. MaxListed,
             NEW offer \in Lists, LoggedInWithList(count, offer, whole)
      PROVE  ServerListTypeOK'
  <2>1. /\ whole <= Len(offer) /\ UNCHANGED <<override, connectedHost>>
        /\ attempt' = "online" /\ listed' = listed + 1
        /\ ReceiveList(SubSeq(offer, 1, IF count < whole THEN count ELSE whole))
    BY <1>5 DEF LoggedInWithList, Changes
  <2>2. count \in Nat /\ whole \in Nat
    BY ServerListAssumption
  <2>3. SubSeq(offer, 1, IF count < whole THEN count ELSE whole) \in Seq(Hosts)
    BY <2>1, <2>2, CutListFact
  <2>4. /\ servers' \in Seq(Hosts) /\ rotation' \in Nat
        /\ servers' # <<>> => rotation' < Len(servers')
    BY <2>1, <2>3, ReceiveFact
  <2> QED  BY <2>1, <2>4
<1> QED  BY <1>1, <1>2, <1>3, <1>4, <1>5 DEF ServerListNext

\* The rotation stays inside whatever list there is, so that StartConnecting
\* has a server to connect to (StartConnecting, HandleHandshakeResponse).
THEOREM RotationInRange == ServerListSpec => []ServerListTypeOK
BY ListTypeInit, ListTypeStep, PTL DEF ServerListSpec

\* The list changes only where the game sets one, and where an accepted login
\* brings at least one server that could be read; then the rotation starts over
\* (HandleHandshakeResponse, SetServerList).
THEOREM ListIsKept == ServerListSpec => ServersKept
<1> DEFINE ByLogin == /\ attempt = "begun" /\ attempt' = "online"
                      /\ servers' # <<>> /\ rotation' = 0
           Kept == servers' # servers =>
                     (\E list \in Lists : SetServerList(list)) \/ ByLogin
<1>1. ASSUME ServerListTypeOK, [ServerListNext]_serverListVars
      PROVE  [Kept]_serverListVars
  <2>1. ASSUME NEW count \in 0 .. MaxListed, NEW whole \in 0 .. MaxListed,
               NEW offer \in Lists, LoggedInWithList(count, offer, whole),
               servers' # servers
        PROVE  ByLogin
    <3> DEFINE list == SubSeq(offer, 1, IF count < whole THEN count ELSE whole)
    <3>1. /\ attempt = "begun" /\ attempt' = "online" /\ whole <= Len(offer)
          /\ ReceiveList(list)
      BY <2>1 DEF LoggedInWithList
    <3> HIDE DEF list
    <3>2. servers' = list /\ rotation' = 0 /\ list # <<>>
      BY <2>1, <3>1 DEF ReceiveList
    <3> QED  BY <3>1, <3>2
  <2> QED  BY <1>1, <2>1 DEF ServerListNext, OverrideHost, StartConnecting,
              SessionEnds, LoggedIn, serverListVars
<1> QED  BY ListTypeInit, ListTypeStep, <1>1, PTL DEF ServerListSpec, ServersKept

-----------------------------------------------------------------------------
(* The arithmetic of an int and of an unsigned int, of any width.          *)

\* What a number is modulo the width.
LEMMA UnsignedFact ==
    ASSUME NEW n \in Int, NEW d \in Nat, d > 0
    PROVE  /\ n % d \in 0 .. d - 1
           /\ n \in 0 .. d - 1 => n % d = n
           /\ n \in d .. 2 * d - 1 => n % d = n - d
           /\ n \in -d .. -1 => n % d = n + d
OBVIOUS

\* An int and an unsigned int inside their ranges are themselves; one turn
\* outside, they are moved by a turn.
LEMMA AsUnsignedFact ==
    ASSUME NEW n \in Int
    PROVE  /\ AsUnsigned(n) \in 0 .. 2 * Half - 1
           /\ n \in 0 .. 2 * Half - 1 => AsUnsigned(n) = n
           /\ n \in 2 * Half .. 4 * Half - 1 => AsUnsigned(n) = n - 2 * Half
           /\ n \in -(2 * Half) .. -1 => AsUnsigned(n) = n + 2 * Half
<1>1. 2 * Half \in Nat /\ 2 * Half > 0
  BY WordAssumption
<1> DEFINE d == 2 * Half
<1>2. /\ n % d \in 0 .. d - 1
      /\ n \in 0 .. d - 1 => n % d = n
      /\ n \in d .. 2 * d - 1 => n % d = n - d
      /\ n \in -d .. -1 => n % d = n + d
  <2> HIDE DEF d
  <2>1. d \in Nat /\ d > 0
    BY <1>1 DEF d
  <2> QED  BY <2>1, UnsignedFact
<1> QED  BY <1>1, <1>2, WordAssumption DEF AsUnsigned

LEMMA AsIntFact ==
    ASSUME NEW n \in Int
    PROVE  /\ AsInt(n) \in Ints
           /\ n \in Ints => AsInt(n) = n
           /\ n \in Half .. 3 * Half - 1 => AsInt(n) = n - 2 * Half
<1>1. /\ AsUnsigned(n + Half) \in 0 .. 2 * Half - 1
      /\ n + Half \in 0 .. 2 * Half - 1 => AsUnsigned(n + Half) = n + Half
      /\ n + Half \in 2 * Half .. 4 * Half - 1 =>
           AsUnsigned(n + Half) = n + Half - 2 * Half
  BY AsUnsignedFact, WordAssumption
<1> QED  BY <1>1, WordAssumption DEF AsInt, Ints

\* An int is not changed by going through an unsigned one.
LEMMA UnsignedIsInt ==
    ASSUME NEW n \in Ints
    PROVE  AsInt(AsUnsigned(n)) = n
<1>1. n \in Int /\ n \in -Half .. Half - 1 /\ Half \in Nat /\ Half > 0
  BY WordAssumption DEF Ints
<1>2. CASE n \in 0 .. Half - 1
  <2>1. n \in 0 .. 2 * Half - 1
    BY <1>1, <1>2
  <2>2. AsUnsigned(n) = n
    BY <1>1, <2>1, AsUnsignedFact
  <2> QED  BY <1>1, <2>2, AsIntFact
<1>3. CASE n \in -Half .. -1
  <2>1. n \in -(2 * Half) .. -1
    BY <1>1, <1>3
  <2>2. AsUnsigned(n) = n + 2 * Half
    BY <1>1, <2>1, AsUnsignedFact
  <2> DEFINE m == n + 2 * Half
  <2>3. m \in Half .. 3 * Half - 1 /\ m \in Int /\ m - 2 * Half = n
    BY <1>1, <1>3
  <2>4. AsInt(m) = m - 2 * Half
    <3> HIDE DEF m
    <3> QED  BY <2>3, AsIntFact
  <2> QED  BY <2>2, <2>3, <2>4
<1> QED  BY <1>1, <1>2, <1>3

-----------------------------------------------------------------------------
(* The clock.                                                              *)

\* The clock shows the time that has passed since it was looked at.
ClockInv ==
    /\ armed \in 0 .. 2 * Half - 1 /\ elapsed \in 0 .. 2 * Half
    /\ now = AsUnsigned(armed + elapsed)

LEMMA ClockInvHolds == ClockSpec => []ClockInv
<1>1. ClockInit => ClockInv
  <2> SUFFICES ASSUME ClockInit PROVE ClockInv
    OBVIOUS
  <2>1. now \in 0 .. 2 * Half - 1 /\ armed = now /\ elapsed = 0
    BY DEF ClockInit
  <2>2. armed + elapsed \in 0 .. 2 * Half - 1 /\ armed + elapsed = armed
    BY <2>1, WordAssumption
  <2>3. AsUnsigned(armed + elapsed) = armed + elapsed
    BY <2>2, AsUnsignedFact
  <2> QED  BY <2>1, <2>2, <2>3, WordAssumption DEF ClockInv
<1>2. ClockInv /\ [ClockTicks]_clockVars => ClockInv'
  <2> SUFFICES ASSUME ClockInv, ClockTicks PROVE ClockInv'
    BY DEF ClockInv, clockVars
  <2>1. /\ elapsed < 2 * Half /\ elapsed' = elapsed + 1 /\ armed' = armed
        /\ now' = AsUnsigned(now + 1)
        /\ armed \in 0 .. 2 * Half - 1 /\ elapsed \in 0 .. 2 * Half
    BY DEF ClockTicks, ClockInv
  <2> DEFINE sum == armed + elapsed
  <2>2. /\ sum \in 0 .. 4 * Half - 2 /\ now = AsUnsigned(sum)
        /\ armed' + elapsed' = sum + 1
    BY <2>1, WordAssumption DEF ClockInv
  <2> HIDE DEF sum
  <2>3. AsUnsigned(AsUnsigned(sum) + 1) = AsUnsigned(sum + 1)
    <3>1. CASE sum \in 0 .. 2 * Half - 1
      <4>1. AsUnsigned(sum) = sum
        BY <3>1, AsUnsignedFact
      <4> QED  BY <4>1
    <3>2. CASE sum \in 2 * Half .. 4 * Half - 2
      <4>1. AsUnsigned(sum) = sum - 2 * Half /\ sum \in Int
        BY <3>2, AsUnsignedFact, WordAssumption
      <4> DEFINE next == sum + 1
      <4>2. next \in 2 * Half .. 4 * Half - 1 /\ next \in Int
        BY <4>1, <3>2, WordAssumption
      <4>3. AsUnsigned(next) = next - 2 * Half
        <5> HIDE DEF next
        <5> QED  BY <4>2, AsUnsignedFact
      <4>4. sum - 2 * Half + 1 \in 0 .. 2 * Half - 1
        BY <3>2, WordAssumption
      <4>5. AsUnsigned(sum - 2 * Half + 1) = sum - 2 * Half + 1
        BY <4>4, AsUnsignedFact
      <4> QED  BY <4>1, <4>3, <4>5, WordAssumption
    <3> QED  BY <2>2, <3>1, <3>2, WordAssumption
  <2> QED  BY <2>1, <2>2, <2>3, WordAssumption DEF ClockInv
<1> QED  BY <1>1, <1>2, PTL DEF ClockSpec

\* A deadline has passed exactly when its time is over, wherever the clock
\* wraps, for half of the clock's range (TimeAfter).
THEOREM DeadlinesAreExact == ClockSpec => []DeadlineExact
<1>1. ClockInv => DeadlineExact
  <2> SUFFICES ASSUME ClockInv, elapsed < Timeout + Half
               PROVE  TimeAfter(now, Deadline) <=> elapsed >= Timeout
    BY DEF DeadlineExact
  <2>1. /\ armed \in 0 .. 2 * Half - 1 /\ elapsed \in 0 .. 2 * Half
        /\ now = AsUnsigned(armed + elapsed)
        /\ Half \in Nat /\ Half > 0 /\ Timeout \in 0 .. Half - 1
    BY WordAssumption, CounterAssumption DEF ClockInv
  <2> DEFINE late == elapsed - Timeout
  <2>2. late \in -Half + 1 .. Half - 1 /\ late \in Ints
    BY <2>1 DEF Ints
  <2>3. AsUnsigned(now - Deadline) = AsUnsigned(late)
    <3>1. /\ Deadline = armed + Timeout \/ Deadline = armed + Timeout - 2 * Half
          /\ Deadline \in 0 .. 2 * Half - 1
      <4>1. armed + Timeout \in 0 .. 4 * Half - 1 /\ armed + Timeout \in Int
        BY <2>1
      <4> QED  BY <2>1, <4>1, AsUnsignedFact DEF Deadline
    <3>2. /\ now = armed + elapsed \/ now = armed + elapsed - 2 * Half
          /\ now \in 0 .. 2 * Half - 1
      <4>1. armed + elapsed \in 0 .. 4 * Half - 1 /\ armed + elapsed \in Int
        BY <2>1
      <4> QED  BY <2>1, <4>1, AsUnsignedFact
    <3>3. /\ now - Deadline \in {late, late + 2 * Half, late - 2 * Half}
          /\ now - Deadline \in -(2 * Half) .. 2 * Half - 1
      <4> HIDE DEF Deadline
      <4>1. /\ now - Deadline >= -(2 * Half) + 1 /\ now - Deadline <= 2 * Half - 1
            /\ now - Deadline \in Int
        BY <2>1, <3>1, <3>2
      <4>2. CASE Deadline = armed + Timeout
        <5>1. now = armed + elapsed => now - Deadline = late
          BY <2>1, <4>2
        <5>2. now = armed + elapsed - 2 * Half => now - Deadline = late - 2 * Half
          BY <2>1, <4>2
        <5> QED  BY <2>1, <3>2, <4>1, <5>1, <5>2
      <4>3. CASE Deadline = armed + Timeout - 2 * Half
        <5>1. now = armed + elapsed => now - Deadline = late + 2 * Half
          BY <2>1, <4>3
        <5>2. now = armed + elapsed - 2 * Half => now - Deadline = late
          BY <2>1, <4>3
        <5> QED  BY <2>1, <3>2, <4>1, <5>1, <5>2
      <4> QED  BY <3>1, <4>2, <4>3
    <3>4. CASE now - Deadline \in 0 .. 2 * Half - 1
      <4>1. AsUnsigned(now - Deadline) = now - Deadline
        BY <2>1, <3>3, <3>4, AsUnsignedFact
      <4>2. late \in 0 .. 2 * Half - 1 => AsUnsigned(late) = late
        BY <2>1, <2>2, AsUnsignedFact
      <4>3. late \in -(2 * Half) .. -1 => AsUnsigned(late) = late + 2 * Half
        BY <2>1, <2>2, AsUnsignedFact
      <4> QED  BY <2>1, <2>2, <3>3, <3>4, <4>1, <4>2, <4>3
    <3>5. CASE now - Deadline \in -(2 * Half) .. -1
      <4>1. AsUnsigned(now - Deadline) = now - Deadline + 2 * Half
        BY <2>1, <3>3, <3>5, AsUnsignedFact
      <4>2. late \in 0 .. 2 * Half - 1 => AsUnsigned(late) = late
        BY <2>1, <2>2, AsUnsignedFact
      <4>3. late \in -(2 * Half) .. -1 => AsUnsigned(late) = late + 2 * Half
        BY <2>1, <2>2, AsUnsignedFact
      <4> QED  BY <2>1, <2>2, <3>3, <3>5, <4>1, <4>2, <4>3
    <3> QED  BY <2>1, <3>3, <3>4, <3>5
  <2>4. AsInt(AsUnsigned(late)) = late
    BY <2>2, UnsignedIsInt
  <2> QED  BY <2>1, <2>2, <2>3, <2>4 DEF TimeAfter
<1> QED  BY <1>1, ClockInvHolds, PTL

\* The time online is the time since the login for half of the clock's range,
\* and negative after that (GetStatus).
THEOREM TimesOnlineAreExact == ClockSpec => []TimeOnlineExact
<1>1. ClockInv => TimeOnlineExact
  <2> SUFFICES ASSUME ClockInv PROVE TimeOnlineExact
    OBVIOUS
  <2> SUFFICES ASSUME elapsed < 2 * Half
               PROVE  /\ elapsed < Half => TimeOnline(now, armed) = elapsed
                      /\ Half <= elapsed => TimeOnline(now, armed) < 0
    <3>1. elapsed \in Int /\ Half \in Nat
      BY WordAssumption DEF ClockInv
    <3> QED  BY <3>1 DEF TimeOnlineExact
  <2>1. /\ armed \in 0 .. 2 * Half - 1 /\ elapsed \in 0 .. 2 * Half - 1
        /\ now = AsUnsigned(armed + elapsed)
        /\ Half \in Nat /\ Half > 0
    <3>1. Half \in Int /\ elapsed \in Int
      BY WordAssumption DEF ClockInv
    <3> QED  BY <3>1, WordAssumption DEF ClockInv
  <2>2. /\ now = armed + elapsed \/ now = armed + elapsed - 2 * Half
        /\ now \in 0 .. 2 * Half - 1
    <3>1. armed + elapsed \in 0 .. 4 * Half - 1 /\ armed + elapsed \in Int
      BY <2>1
    <3> QED  BY <2>1, <3>1, AsUnsignedFact
  <2>3. now - armed \in {elapsed, elapsed - 2 * Half}
    BY <2>1, <2>2
  <2>4. AsUnsigned(now - armed) = elapsed
    <3>1. CASE now - armed = elapsed
      BY <2>1, <3>1, AsUnsignedFact
    <3>2. CASE now - armed = elapsed - 2 * Half
      <4>1. now - armed \in -(2 * Half) .. -1 /\ now - armed \in Int
        BY <2>1, <3>2
      <4>2. AsUnsigned(now - armed) = now - armed + 2 * Half
        BY <4>1, AsUnsignedFact
      <4> QED  BY <2>1, <3>2, <4>2
    <3> QED  BY <2>3, <3>1, <3>2
  <2>5. CASE elapsed < Half
    <3>1. elapsed \in Ints /\ elapsed \in Int
      BY <2>1, <2>5 DEF Ints
    <3> QED  BY <2>1, <2>4, <2>5, <3>1, AsIntFact DEF TimeOnline
  <2>6. CASE Half <= elapsed
    <3>1. elapsed \in Half .. 3 * Half - 1 /\ elapsed \in Int
      BY <2>1, <2>6
    <3>2. AsInt(elapsed) = elapsed - 2 * Half
      BY <3>1, AsIntFact
    <3> QED  BY <2>1, <2>4, <2>6, <3>2 DEF TimeOnline
  <2> QED  BY <2>1, <2>5, <2>6
<1> QED  BY <1>1, ClockInvHolds, PTL

-----------------------------------------------------------------------------
(* Tickets and virtual socket numbers.                                     *)

\* The numbers other than zero, as unsigned ints, in the order they are drawn
\* in: both counters go round them.
Round(n) == IF AsUnsigned(n) = 2 * Half - 1 THEN 1 ELSE AsUnsigned(n) + 1

Drawable == IF drawing = "ticket" THEN Ints ELSE 0 .. 2 * Half - 1

\* Numbers that are equal as unsigned ints are equal.
LEMMA DrawableFact ==
    ASSUME NEW n \in Drawable
    PROVE  /\ n \in Int
           /\ AsUnsigned(n) = 0 <=> n = 0
           /\ \A m \in Drawable : AsUnsigned(n) = AsUnsigned(m) => n = m
<1>1. \A m \in Drawable :
        /\ m \in Int
        /\ m \in 0 .. 2 * Half - 1 \/ m \in -(2 * Half) .. -1
        /\ drawing = "ticket" => m \in -Half .. Half - 1
        /\ drawing # "ticket" => m \in 0 .. 2 * Half - 1
  BY WordAssumption DEF Drawable, Ints
<1>2. \A m \in Drawable :
        /\ m \in 0 .. 2 * Half - 1 => AsUnsigned(m) = m
        /\ m \in -(2 * Half) .. -1 => AsUnsigned(m) = m + 2 * Half
  BY <1>1, AsUnsignedFact
<1> QED  BY <1>1, <1>2, WordAssumption

\* Either counter goes to the next number that is not zero.
LEMMA NextTicketFact ==
    ASSUME NEW n \in Ints
    PROVE  NextTicket(n) \in Ints /\ AsUnsigned(NextTicket(n)) = Round(n)
<1>1. Half \in Nat /\ Half > 0 /\ n \in Int /\ n \in -Half .. Half - 1
  BY WordAssumption DEF Ints
<1>2. CASE n = -1
  <2>1. AsInt(n + 1) = 0 /\ 0 \in Ints
    BY <1>1, <1>2, AsIntFact DEF Ints
  <2>2. NextTicket(n) = AsInt(1)
    BY <1>2, <2>1 DEF NextTicket
  <2>3. AsUnsigned(n) = 2 * Half - 1 /\ Round(n) = 1
    BY <1>1, <1>2, AsUnsignedFact DEF Round
  <2>4. CASE Half = 1
    <3>1. AsInt(1) = -1 /\ AsUnsigned(-1) = 1 /\ -1 \in Ints
      <4>1. 1 \in Half .. 3 * Half - 1 /\ 1 - 2 * Half = -1
        BY <2>4
      <4>2. AsInt(1) = 1 - 2 * Half
        BY <4>1, AsIntFact
      <4>3. -1 \in -(2 * Half) .. -1 /\ -1 + 2 * Half = 1
        BY <2>4
      <4>4. AsUnsigned(-1) = -1 + 2 * Half
        BY <4>3, AsUnsignedFact
      <4> QED  BY <4>1, <4>2, <4>3, <4>4, <2>4 DEF Ints
    <3> QED  BY <2>2, <2>3, <3>1
  <2>5. CASE Half > 1
    <3>1. 1 \in Ints /\ 1 \in 0 .. 2 * Half - 1
      BY <1>1, <2>5 DEF Ints
    <3>2. AsInt(1) = 1 /\ AsUnsigned(1) = 1
      BY <3>1, AsIntFact, AsUnsignedFact
    <3> QED  BY <2>2, <2>3, <3>1, <3>2
  <2> QED  BY <1>1, <2>4, <2>5
<1>3. CASE n \in -Half .. -2
  <2>1. n + 1 \in Ints /\ n + 1 \in Int /\ n + 1 \in -(2 * Half) .. -1
    BY <1>1, <1>3 DEF Ints
  <2> DEFINE m == n + 1
  <2>2. AsInt(m) = m /\ AsUnsigned(m) = m + 2 * Half
    <3>1. m \in Ints /\ m \in Int /\ m \in -(2 * Half) .. -1
      BY <2>1
    <3> HIDE DEF m
    <3> QED  BY <3>1, AsIntFact, AsUnsignedFact
  <2>3. NextTicket(n) = n + 1
    BY <2>1, <2>2, <1>3, <1>1 DEF NextTicket
  <2>4. AsUnsigned(n) = n + 2 * Half
    BY <1>1, <1>3, AsUnsignedFact
  <2> QED  BY <1>1, <1>3, <2>1, <2>2, <2>3, <2>4 DEF Round
<1>4. CASE n \in 0 .. Half - 2
  <2>1. n + 1 \in Ints /\ n + 1 \in Int /\ n + 1 \in 0 .. 2 * Half - 1
    BY <1>1, <1>4 DEF Ints
  <2> DEFINE m == n + 1
  <2>2. AsInt(m) = m /\ AsUnsigned(m) = m
    <3>1. m \in Ints /\ m \in Int /\ m \in 0 .. 2 * Half - 1
      BY <2>1
    <3> HIDE DEF m
    <3> QED  BY <3>1, AsIntFact, AsUnsignedFact
  <2>3. NextTicket(n) = n + 1
    BY <2>1, <2>2, <1>4, <1>1 DEF NextTicket
  <2>4. AsUnsigned(n) = n
    BY <1>1, <1>4, AsUnsignedFact
  <2> QED  BY <1>1, <1>4, <2>1, <2>2, <2>3, <2>4 DEF Round
<1>5. CASE n = Half - 1
  <2>1. Half \in Half .. 3 * Half - 1 /\ n + 1 = Half
    BY <1>1, <1>5
  <2>2. AsInt(n + 1) = -Half
    <3>1. AsInt(Half) = Half - 2 * Half
      BY <1>1, <2>1, AsIntFact
    <3> QED  BY <1>1, <2>1, <3>1
  <2>3. NextTicket(n) = -Half /\ -Half \in Ints
    BY <1>1, <2>2 DEF NextTicket, Ints
  <2>4. AsUnsigned(-Half) = Half
    <3>1. -Half \in -(2 * Half) .. -1 /\ -Half \in Int /\ -Half + 2 * Half = Half
      BY <1>1
    <3> DEFINE m == -Half
    <3>2. AsUnsigned(m) = m + 2 * Half
      <4>1. m \in -(2 * Half) .. -1 /\ m \in Int
        BY <3>1
      <4> HIDE DEF m
      <4> QED  BY <4>1, AsUnsignedFact
    <3> QED  BY <3>1, <3>2
  <2>5. AsUnsigned(n) = Half - 1
    <3>1. n \in 0 .. 2 * Half - 1
      BY <1>1, <1>5
    <3> QED  BY <1>1, <1>5, <3>1, AsUnsignedFact
  <2> QED  BY <1>1, <2>3, <2>4, <2>5 DEF Round
<1> QED  BY <1>1, <1>2, <1>3, <1>4, <1>5

LEMMA NextVSNFact ==
    ASSUME NEW n \in 0 .. 2 * Half - 1
    PROVE  NextVSN(n) \in 0 .. 2 * Half - 1 /\ AsUnsigned(NextVSN(n)) = Round(n)
<1>1. Half \in Nat /\ Half > 0 /\ n \in Int /\ AsUnsigned(n) = n
  BY WordAssumption, AsUnsignedFact
<1>2. CASE n = 2 * Half - 1
  <2>1. n + 1 = 2 * Half /\ 2 * Half \in 2 * Half .. 4 * Half - 1
    BY <1>1, <1>2
  <2> DEFINE m == 2 * Half
  <2>2. AsUnsigned(m) = m - 2 * Half
    <3>1. m \in 2 * Half .. 4 * Half - 1 /\ m \in Int
      BY <1>1, <2>1
    <3> HIDE DEF m
    <3> QED  BY <3>1, AsUnsignedFact
  <2>3. AsUnsigned(n + 1) = 0
    BY <1>1, <2>1, <2>2
  <2>4. AsUnsigned(1) = 1 /\ 1 \in 0 .. 2 * Half - 1
    BY <1>1, AsUnsignedFact
  <2> QED  BY <1>1, <1>2, <2>3, <2>4 DEF NextVSN, Round
<1>3. CASE n \in 0 .. 2 * Half - 2
  <2> DEFINE m == n + 1
  <2>1. m \in 0 .. 2 * Half - 1 /\ m \in Int /\ m # 0
    BY <1>1, <1>3
  <2>2. AsUnsigned(m) = m
    <3> HIDE DEF m
    <3> QED  BY <2>1, AsUnsignedFact
  <2> QED  BY <1>1, <1>3, <2>1, <2>2 DEF NextVSN, Round
<1> QED  BY <1>1, <1>2, <1>3

\* How far the number drawn is from the one noted, on the way round.
NumbersInv ==
    /\ drawing \in Draws /\ number \in Drawable /\ noted \in Drawable
    /\ drawn \in 0 .. 2 * Half
    /\ number = 0 => noted = 0 /\ drawn = 0
    /\ noted # 0 =>
         \/ AsUnsigned(number) = AsUnsigned(noted) + drawn
         \/ AsUnsigned(number) = AsUnsigned(noted) + drawn - (2 * Half - 1)
         \/ AsUnsigned(number) = AsUnsigned(noted) + drawn - 2 * (2 * Half - 1)

LEMMA NumbersInvHolds == NumbersSpec => []NumbersInv
<1>1. NumbersInit => NumbersInv
  BY WordAssumption DEF NumbersInit, NumbersInv, Drawable, Draws, Ints
<1>2. ASSUME NumbersInv, Draw PROVE NumbersInv'
  <2>1. /\ drawn \in 0 .. 2 * Half - 1 /\ drawn' = drawn + 1
        /\ noted' = noted /\ drawing' = drawing /\ Drawable' = Drawable
        /\ number \in Drawable /\ noted \in Drawable /\ drawing \in Draws
    BY <1>2, WordAssumption DEF Draw, NumbersInv, Drawable
  <2>2. number' \in Drawable /\ AsUnsigned(number') = Round(number)
    <3>1. CASE drawing = "ticket"
      BY <1>2, <2>1, <3>1, NextTicketFact DEF Draw, Drawable
    <3>2. CASE drawing # "ticket"
      BY <1>2, <2>1, <3>2, NextVSNFact DEF Draw, Drawable
    <3> QED  BY <3>1, <3>2
  <2>3. /\ AsUnsigned(number) \in 0 .. 2 * Half - 1
        /\ AsUnsigned(noted) \in 0 .. 2 * Half - 1
        /\ noted # 0 => AsUnsigned(noted) > 0
    BY <2>1, DrawableFact, AsUnsignedFact, WordAssumption
  <2>4. Round(number) \in 1 .. 2 * Half - 1
    BY <2>3, WordAssumption DEF Round
  <2>5. number' # 0
    BY <2>2, <2>4, DrawableFact, WordAssumption
  <2>6. noted # 0 =>
         \/ Round(number) = AsUnsigned(noted) + drawn'
         \/ Round(number) = AsUnsigned(noted) + drawn' - (2 * Half - 1)
         \/ Round(number) = AsUnsigned(noted) + drawn' - 2 * (2 * Half - 1)
    <3> DEFINE last == AsUnsigned(number)
    <3> DEFINE first == AsUnsigned(noted)
    <3>1. noted # 0 =>
            \/ last = first + drawn
            \/ last = first + drawn - (2 * Half - 1)
            \/ last = first + drawn - 2 * (2 * Half - 1)
      BY <1>2 DEF NumbersInv
    <3>2. Round(number) = IF last = 2 * Half - 1 THEN 1 ELSE last + 1
      BY DEF Round
    <3>3. last \in 0 .. 2 * Half - 1 /\ first \in 0 .. 2 * Half - 1
      BY <2>3
    <3> HIDE DEF last, first
    <3> SUFFICES ASSUME noted # 0
                 PROVE \/ Round(number) = first + drawn'
                       \/ Round(number) = first + drawn' - (2 * Half - 1)
                       \/ Round(number) = first + drawn' - 2 * (2 * Half - 1)
      BY DEF first
    <3> QED  BY <2>1, <3>1, <3>2, <3>3, WordAssumption
  <2> QED  BY <2>1, <2>2, <2>5, <2>6, WordAssumption DEF NumbersInv
<1>3. ASSUME NumbersInv, NoteNumber PROVE NumbersInv'
  <2>1. /\ number' = number /\ noted' = number /\ drawn' = 0
        /\ drawing' = drawing /\ Drawable' = Drawable
        /\ number \in Drawable /\ drawing \in Draws /\ number # noted
        /\ number = 0 => noted = 0
    BY <1>3 DEF NoteNumber, NumbersInv, Drawable
  <2>2. AsUnsigned(number) \in Int
    BY <2>1, DrawableFact, AsUnsignedFact
  <2> QED  BY <2>1, <2>2, WordAssumption DEF NumbersInv
<1>4. NumbersInv /\ UNCHANGED numberVars => NumbersInv'
  BY DEF NumbersInv, numberVars, Drawable
<1> QED  BY <1>1, <1>2, <1>3, <1>4, PTL DEF NumbersSpec

\* No ticket and no virtual socket number is zero, and none comes again before
\* all the others were drawn (NextTicket, NextVSN).
THEOREM NumbersStayFresh == NumbersSpec => []NumbersAreFresh
<1>1. NumbersInv => NumbersAreFresh
  <2> SUFFICES ASSUME NumbersInv PROVE NumbersAreFresh
    OBVIOUS
  <2>1. /\ drawn \in 0 .. 2 * Half
        /\ number \in Drawable /\ noted \in Drawable
        /\ number = 0 => noted = 0 /\ drawn = 0
    BY DEF NumbersInv
  <2>2. ASSUME noted # 0, 0 < drawn, drawn < 2 * Half - 1, number = noted
        PROVE  FALSE
    <3> DEFINE first == AsUnsigned(noted)
    <3>1. \/ first = first + drawn
          \/ first = first + drawn - (2 * Half - 1)
          \/ first = first + drawn - 2 * (2 * Half - 1)
      BY <2>2 DEF NumbersInv
    <3>2. first \in Int
      BY <2>1, DrawableFact, AsUnsignedFact
    <3> HIDE DEF first
    <3> QED  BY <2>1, <2>2, <3>1, <3>2, WordAssumption
  <2> QED  BY <2>1, <2>2, WordAssumption DEF NumbersAreFresh
<1> QED  BY <1>1, NumbersInvHolds, PTL

-----------------------------------------------------------------------------
(* The parsers.                                                            *)

\* What is left of a size after lengths that fit is no overflow, and a length
\* that does not fit is refused before it is taken away.
LEMMA UserDataFits ==
    ASSUME NEW d, d.size \in Nat, d.size < Half, d.size >= Fixed,
           d.first \in Ints, d.last \in Ints, d.nick \in Ints,
           d.first >= 0, d.last >= 0, d.nick >= 0
    PROVE  ShortUserDataFits(d) <=> Fixed + d.first + d.last + d.nick <= d.size
<1> DEFINE size == d.size
<1> DEFINE first == d.first
<1> DEFINE last == d.last
<1> DEFINE nick == d.nick
<1>1. /\ size \in Int /\ Half \in Nat /\ Half > 0 /\ Fixed \in Nat
      /\ size < Half /\ size >= Fixed
      /\ first \in 0 .. Half - 1 /\ last \in 0 .. Half - 1 /\ nick \in 0 .. Half - 1
  BY WordAssumption, ParserAssumption DEF Ints
<1>2. ShortUserDataFits(d) <=>
        /\ first <= AsInt(size - Fixed)
        /\ last  <= AsInt(AsInt(size - Fixed) - first)
        /\ nick  <= AsInt(AsInt(AsInt(size - Fixed) - first) - last)
  BY DEF ShortUserDataFits
<1> SUFFICES (/\ first <= AsInt(size - Fixed)
              /\ last  <= AsInt(AsInt(size - Fixed) - first)
              /\ nick  <= AsInt(AsInt(AsInt(size - Fixed) - first) - last))
             <=> Fixed + first + last + nick <= size
  BY <1>2
<1> HIDE DEF size, first, last, nick
<1> DEFINE left == size - Fixed
<1> DEFINE left2 == left - first
<1> DEFINE left3 == left2 - last
<1>3. left \in Int /\ left \in Ints /\ left = size - Fixed
  BY <1>1 DEF Ints
<1>4. left2 \in Int /\ left2 \in Ints /\ left2 = left - first
  BY <1>1, <1>3 DEF Ints
<1>5. left3 \in Int /\ left3 = left2 - last /\ (left2 >= 0 => left3 \in Ints)
  BY <1>1, <1>4 DEF Ints
<1> HIDE DEF left, left2, left3
<1>6. AsInt(left) = left /\ AsInt(left2) = left2 /\ (left2 >= 0 => AsInt(left3) = left3)
  BY <1>3, <1>4, <1>5, AsIntFact
<1>7. /\ size - Fixed = left /\ left - first = left2 /\ left2 - last = left3
      /\ Fixed + first + last + nick <= size <=> nick <= left3
  BY <1>1, <1>3, <1>4, <1>5
<1>8. (/\ first <= AsInt(left) /\ last <= AsInt(left2) /\ nick <= AsInt(left3))
      <=> nick <= left3
  <2>1. CASE left2 >= 0
    BY <1>1, <1>3, <1>4, <1>5, <1>6, <2>1
  <2>2. CASE left2 < 0
    BY <1>1, <1>3, <1>4, <1>5, <1>6, <2>2
  <2> QED  BY <1>4, <2>1, <2>2
<1> QED  BY <1>6, <1>7, <1>8

\* What is parsed, and what the result says of it.
Parsed ==
    /\ parse.input \in UserData \cup Messages
    /\ parse.result \in {"pending", "accepted", "refused"}
    /\ parse.result # "pending" =>
         (parse.result = "accepted" <=>
            IF parse.input.kind = "user" THEN ParseShortUserData(parse.input)
                                         ELSE ParsePackedBabelMessage(parse.input))
    /\ DOMAIN parse = {"input", "result"}

LEMMA ParsedHolds == ParserSpec => []Parsed
<1>1. parse \in Unparsed => Parsed
  BY DEF Unparsed, Parsed
<1>2. ASSUME Parsed, Parse PROVE Parsed'
  <2>1. PICK r \in {"accepted", "refused"} :
          /\ parse' = [parse EXCEPT !.result = r]
          /\ r = "accepted" <=>
               IF parse.input.kind = "user" THEN ParseShortUserData(parse.input)
                                            ELSE ParsePackedBabelMessage(parse.input)
    BY <1>2 DEF Parse
  <2>2. /\ parse'.input = parse.input /\ parse'.result = r
        /\ DOMAIN parse' = {"input", "result"}
    BY <1>2, <2>1 DEF Parsed
  <2> QED  BY <1>2, <2>1, <2>2 DEF Parsed, ParseShortUserData, ShortUserDataFits,
              ParsePackedBabelMessage
<1>3. Parsed /\ UNCHANGED parse => Parsed'
  BY DEF Parsed
<1> QED  BY <1>1, <1>2, <1>3, PTL DEF ParserSpec

\* What is accepted lies inside the bytes that came, and nothing that does is
\* refused (ParseShortUserData, ParsePackedBabelMessage).
THEOREM ParsersAreExact == ParserSpec => []ParsesWhatFits
<1>1. Parsed => ParsesWhatFits
  <2> SUFFICES ASSUME Parsed, parse.result \in {"accepted", "refused"}
               PROVE  parse.result = "accepted" <=>
                        IF parse.input.kind = "user"
                        THEN /\ parse.input.total <= parse.input.size
                             /\ {parse.input.first, parse.input.last,
                                 parse.input.nick} \subseteq Nat
                             /\ Fixed + parse.input.first + parse.input.last
                                  + parse.input.nick <= parse.input.size
                        ELSE /\ parse.input.dataLen >= C2E
                             /\ Fixed + parse.input.dataLen <= parse.input.size
    BY DEF ParsesWhatFits
  <2> DEFINE d == parse.input
  <2>1. /\ d \in UserData \cup Messages
        /\ parse.result = "accepted" <=>
             IF d.kind = "user" THEN ParseShortUserData(d) ELSE ParsePackedBabelMessage(d)
    BY DEF Parsed
  <2>2. /\ Half \in Nat /\ Half > 0 /\ Fixed \in Nat /\ C2E \in Nat /\ Fixed + C2E < Half
        /\ \A n \in Sizes : n \in 0 .. Half - 1
        /\ \A n \in Lengths : n \in Ints /\ n \in Int
    BY WordAssumption, ParserAssumption DEF Ints
  <2> HIDE DEF d
  <2>3. CASE d.kind = "user"
    <3>1. /\ d.size \in 0 .. Half - 1 /\ d.total \in Int
          /\ d.first \in Ints /\ d.last \in Ints /\ d.nick \in Ints
          /\ d.first \in Int /\ d.last \in Int /\ d.nick \in Int
      BY <2>1, <2>2, <2>3 DEF UserData, Messages
    <3>2. ParseShortUserData(d) <=>
            /\ d.total <= d.size /\ {d.first, d.last, d.nick} \subseteq Nat
            /\ Fixed + d.first + d.last + d.nick <= d.size
      <4>1. CASE d.size >= Fixed /\ d.first >= 0 /\ d.last >= 0 /\ d.nick >= 0
        <5>1. ShortUserDataFits(d) <=> Fixed + d.first + d.last + d.nick <= d.size
          BY <2>2, <3>1, <4>1, UserDataFits
        <5>2. {d.first, d.last, d.nick} \subseteq Nat
          BY <3>1, <4>1
        <5> QED  BY <4>1, <5>1, <5>2 DEF ParseShortUserData
      <4>2. CASE ~(d.size >= Fixed /\ d.first >= 0 /\ d.last >= 0 /\ d.nick >= 0)
        <5>1. ~ParseShortUserData(d)
          BY <4>2 DEF ParseShortUserData
        <5>2. d.first >= 0 /\ d.last >= 0 /\ d.nick >= 0 =>
                ~(Fixed + d.first + d.last + d.nick <= d.size)
          BY <2>2, <3>1, <4>2
        <5>3. {d.first, d.last, d.nick} \subseteq Nat =>
                d.first >= 0 /\ d.last >= 0 /\ d.nick >= 0
          BY <3>1
        <5> QED  BY <5>1, <5>2, <5>3
      <4> QED  BY <4>1, <4>2
    <3> QED  BY <2>1, <2>3, <3>2 DEF d
  <2>4. CASE d.kind # "user"
    <3>1. d.size \in 0 .. Half - 1 /\ d.dataLen \in Int
      BY <2>1, <2>2, <2>4 DEF UserData, Messages
    <3> DEFINE size == d.size
    <3> DEFINE dataLen == d.dataLen
    <3>2. ParsePackedBabelMessage(d) <=>
            /\ size >= Fixed + C2E
            /\ C2E <= dataLen /\ dataLen <= AsInt(size - Fixed)
      BY DEF ParsePackedBabelMessage
    <3>3. size \in 0 .. Half - 1 /\ dataLen \in Int
      BY <3>1
    <3> HIDE DEF size, dataLen
    <3> DEFINE left == size - Fixed
    <3>4. left \in Int /\ left = size - Fixed /\ (size >= Fixed + C2E => left \in Ints)
      BY <2>2, <3>3 DEF Ints
    <3> HIDE DEF left
    <3>5. size >= Fixed + C2E => AsInt(left) = left
      BY <3>4, AsIntFact
    <3>6. ParsePackedBabelMessage(d) <=> dataLen >= C2E /\ Fixed + dataLen <= size
      BY <2>2, <3>2, <3>3, <3>4, <3>5
    <3> QED  BY <2>1, <2>4, <3>6 DEF d, size, dataLen
  <2> QED  BY <2>3, <2>4
<1> QED  BY <1>1, ParsedHolds, PTL

-----------------------------------------------------------------------------
(* Packs.                                                                  *)

PackItem == IntItems \cup StringItems

LEMMA DivisionFact ==
    ASSUME NEW x \in Nat, NEW b \in Nat, b > 0
    PROVE  (x % b) + b * (x \div b) = x /\ x % b \in Nat /\ x \div b \in Nat
OBVIOUS

\* An int is read as it was written.
LEMMA IntBytesFact ==
    ASSUME NEW n \in Ints
    PROVE  /\ IntBytes(n) \in Seq(Int) /\ Len(IntBytes(n)) = 2
           /\ BytesInt(IntBytes(n)) = n
<1> DEFINE x == AsUnsigned(n)
<1>1. n \in Int /\ x \in Nat
  <2>1. n \in Int
    BY WordAssumption DEF Ints
  <2> QED  BY <2>1, AsUnsignedFact, WordAssumption
<1>2. Base \in Nat /\ Base > 0
  <2>1. Base = 0 => Base * Base = 0
    OBVIOUS
  <2>2. Half > 0 /\ Half \in Nat /\ 2 * Half = Base * Base /\ Base \in Nat
    BY PackAssumption, WordAssumption
  <2> QED  BY <2>1, <2>2
<1>3. AsInt(x) = n
  BY UnsignedIsInt
<1> HIDE DEF x
<1>4. (x % Base) + Base * (x \div Base) = x /\ x % Base \in Nat /\ x \div Base \in Nat
  BY <1>1, <1>2, DivisionFact
<1> DEFINE lo == x % Base
           hi == x \div Base
<1>5. IntBytes(n) = <<lo, hi>>
  BY DEF IntBytes, x
<1>6. lo \in Int /\ hi \in Int /\ lo + Base * hi = x
  BY <1>4
<1> HIDE DEF lo, hi
<1>7. <<lo, hi>> \in Seq(Int) /\ Len(<<lo, hi>>) = 2
  BY <1>6
<1>8. BytesInt(<<lo, hi>>) = AsInt(x)
  BY <1>6 DEF BytesInt
<1> QED  BY <1>3, <1>5, <1>7, <1>8

\* What is packed.
LEMMA ItemFact ==
    ASSUME NEW item \in PackItem
    PROVE  /\ item.kind = "int" => item.value \in Ints
           /\ item.kind # "int" =>
                /\ item.kind = "string"
                /\ item.value \in Seq(Int) /\ Len(item.value) \in 0 .. Half - 1
                /\ Len(item.value) \in Ints
           /\ SizeOf(item) \in Nat /\ SizeOf(item) >= 2
           /\ item.kind = "int" => SizeOf(item) = 2
           /\ item.kind # "int" => SizeOf(item) = 2 + Len(item.value)
<1>1. item.kind = "int" => item.value \in Ints
  BY PackAssumption DEF PackItem, IntItems, StringItems
<1>2. ASSUME item.kind # "int"
      PROVE  /\ item.kind = "string"
             /\ item.value \in Seq(Int) /\ Len(item.value) \in 0 .. Half - 1
  <2>1. item.kind = "string" /\ item.value \in PackStrings
    BY <1>2 DEF PackItem, IntItems, StringItems
  <2>2. item.value \in BoundedSeq(0 .. Base - 1, Half - 1)
    BY <2>1, PackAssumption
  <2>3. PICK m \in 0 .. Half - 1 : item.value \in [1 .. m -> 0 .. Base - 1]
    BY <2>2 DEF BoundedSeq, SeqOf
  <2>4. m \in Nat
    BY WordAssumption
  <2>5. item.value \in [1 .. m -> Int]
    BY <2>3
  <2> QED  BY <2>1, <2>3, <2>4, <2>5
<1>3. Half \in Nat /\ Half > 0
  BY WordAssumption
<1>4. item.kind # "int" => Len(item.value) \in Ints
  BY <1>2, <1>3 DEF Ints
<1> QED  BY <1>1, <1>2, <1>3, <1>4 DEF SizeOf, IntSize

\* g is where each item of s begins and the last ends.
Sums(g, s) ==
    /\ g \in [0 .. Len(s) -> Nat] /\ g[0] = 0
    /\ \A i \in 1 .. Len(s) : g[i] = g[i - 1] + SizeOf(s[i])

\* However it is added up, the size is the same.
LEMMA SizeFact ==
    ASSUME NEW s \in Seq(PackItem), NEW g, Sums(g, s)
    PROVE  Size(s) = g[Len(s)]
<1> DEFINE m == Len(s)
           Rec(h) == [i \in 0 .. Len(s) |-> IF i = 0 THEN 0 ELSE h[i - 1] + SizeOf(s[i])]
           f == CHOOSE h : h = Rec(h)
<1>1. m \in Nat /\ \A i \in 0 .. m : i = 0 \/ i \in 1 .. m
  BY LenProperties
<1>2. \A i \in 0 .. m : g[i] = Rec(g)[i]
  BY <1>1 DEF Sums
<1>3. g = Rec(g)
  <2>1. Rec(g) = [i \in 0 .. m |-> Rec(g)[i]] /\ g = [i \in 0 .. m |-> g[i]]
    BY DEF Sums
  <2> HIDE DEF Rec
  <2> QED  BY <1>2, <2>1
<1>4. f = Rec(f)
  <2> HIDE DEF Rec
  <2> QED  BY <1>3, Zenon
<1>5. Size(s) = f[Len(s)]
  BY DEF Size
<1> HIDE DEF f
<1>6. f[0] = 0 /\ \A i \in 1 .. m : f[i] = f[i - 1] + SizeOf(s[i])
  <2>1. f[0] = 0
    BY <1>1, <1>4
  <2>2. ASSUME NEW i \in 1 .. m PROVE f[i] = f[i - 1] + SizeOf(s[i])
    <3>1. i \in 0 .. Len(s) /\ i # 0
      BY <1>1
    <3>2. f[i] = Rec(f)[i]
      BY <1>4
    <3> QED  BY <3>1, <3>2
  <2> QED  BY <2>1, <2>2
<1> DEFINE T == {i \in Nat : i <= m => f[i] = g[i]}
<1>7. 0 \in T
  BY <1>6 DEF Sums
<1>8. ASSUME NEW i \in Nat, i \in T PROVE i + 1 \in T
  <2> SUFFICES ASSUME i + 1 <= m PROVE f[i + 1] = g[i + 1]
    OBVIOUS
  <2>1. i + 1 \in 1 .. m /\ (i + 1) - 1 = i /\ f[i] = g[i]
    BY <1>1, <1>8
  <2>2. f[i + 1] = f[i] + SizeOf(s[i + 1]) /\ g[i + 1] = g[i] + SizeOf(s[i + 1])
    BY <1>6, <2>1 DEF Sums
  <2> QED  BY <2>1, <2>2
<1> HIDE DEF T
<1>9. Nat \subseteq T
  BY <1>7, <1>8, Induction
<1> QED  BY <1>1, <1>5, <1>9 DEF T

\* No item begins behind the end.
LEMMA SumsGrow ==
    ASSUME NEW s \in Seq(PackItem), NEW g, Sums(g, s), NEW i \in 0 .. Len(s)
    PROVE  g[i] <= g[Len(s)] /\ g[i] \in Nat /\ g[Len(s)] \in Nat
<1> DEFINE m == Len(s)
           T == {n \in Nat : i + n <= m => g[i] <= g[i + n]}
<1>1. /\ m \in Nat /\ \A j \in 0 .. m : g[j] \in Nat
      /\ \A j \in 1 .. m : SizeOf(s[j]) \in Nat
  <2>1. \A j \in 1 .. m : s[j] \in PackItem
    BY ElementOfSeq
  <2> QED  BY <2>1, LenProperties, ItemFact DEF Sums
<1>2. 0 \in T
  BY <1>1
<1>3. ASSUME NEW n \in Nat, n \in T PROVE n + 1 \in T
  <2> SUFFICES ASSUME i + (n + 1) <= m PROVE g[i] <= g[i + (n + 1)]
    OBVIOUS
  <2> DEFINE k == i + n
  <2>1. /\ k + 1 \in 1 .. m /\ (k + 1) - 1 = k /\ k \in 0 .. m /\ k + 1 = i + (n + 1)
        /\ g[i] <= g[k]
    BY <1>1, <1>3
  <2> HIDE DEF k
  <2>2. g[k + 1] = g[k] + SizeOf(s[k + 1])
    BY <2>1 DEF Sums
  <2>3. SizeOf(s[k + 1]) \in Nat /\ g[k] \in Nat /\ g[i] \in Nat
    BY <1>1, <2>1
  <2>4. g[i] <= g[k + 1]
    BY <2>1, <2>2, <2>3
  <2> QED  BY <2>1, <2>4
<1> HIDE DEF T
<1>4. Nat \subseteq T
  BY <1>2, <1>3, Induction
<1>5. m - i \in Nat /\ i + (m - i) = m /\ m \in 0 .. m
  BY <1>1
<1>6. g[i] <= g[m]
  <2>1. m - i \in T
    BY <1>4, <1>5
  <2>2. i + (m - i) <= m => g[i] <= g[i + (m - i)]
    BY <2>1 DEF T
  <2> QED  BY <1>1, <1>5, <2>2
<1> QED  BY <1>1, <1>5, <1>6

\* One item more begins where the last ended.
LEMMA SumsAppend ==
    ASSUME NEW s \in Seq(PackItem), NEW g, Sums(g, s), NEW x \in PackItem
    PROVE  LET n == Len(s)
               h == [i \in 0 .. n + 1 |-> IF i = n + 1 THEN g[n] + SizeOf(x) ELSE g[i]]
           IN  Sums(h, Append(s, x))
<1> DEFINE n == Len(s)
           t == Append(s, x)
           h == [i \in 0 .. n + 1 |-> IF i = n + 1 THEN g[n] + SizeOf(x) ELSE g[i]]
<1>1. /\ n \in Nat /\ t \in Seq(PackItem) /\ Len(t) = n + 1 /\ t[n + 1] = x
      /\ \A i \in 1 .. n : t[i] = s[i]
  BY AppendProperties, LenProperties
<1> HIDE DEF t
<1>2. g[n] \in Nat /\ SizeOf(x) \in Nat /\ \A i \in 0 .. n : g[i] \in Nat
  <2>1. n \in 0 .. n
    BY <1>1
  <2> QED  BY <2>1, ItemFact DEF Sums
<1>3. h \in [0 .. n + 1 -> Nat]
  <2>1. \A i \in 0 .. n + 1 : i = n + 1 \/ i \in 0 .. n
    BY <1>1
  <2> QED  BY <1>2, <2>1
<1>4. h[0] = 0
  <2>1. 0 \in 0 .. n + 1 /\ 0 # n + 1
    BY <1>1
  <2> QED  BY <2>1 DEF Sums
<1>5. ASSUME NEW i \in 1 .. n + 1 PROVE h[i] = h[i - 1] + SizeOf(t[i])
  <2>1. CASE i = n + 1
    <3>1. i - 1 = n /\ n \in 0 .. n + 1 /\ n # n + 1 /\ i \in 0 .. n + 1
      BY <1>1, <2>1
    <3>2. h[i] = g[n] + SizeOf(x) /\ h[i - 1] = g[n] /\ t[i] = x
      BY <1>1, <2>1, <3>1
    <3> QED  BY <3>2
  <2>2. CASE i # n + 1
    <3>1. /\ i \in 1 .. n /\ i \in 0 .. n + 1
          /\ i - 1 \in 0 .. n + 1 /\ i - 1 # n + 1
      BY <1>1, <2>2
    <3>2. h[i] = g[i] /\ h[i - 1] = g[i - 1] /\ t[i] = s[i]
      BY <1>1, <2>2, <3>1
    <3>3. g[i] = g[i - 1] + SizeOf(s[i])
      BY <3>1 DEF Sums
    <3> QED  BY <3>2, <3>3
  <2> QED  BY <2>1, <2>2
<1> HIDE DEF h
<1>6. Sums(h, t)
  BY <1>1, <1>3, <1>4, <1>5 DEF Sums
<1> QED  BY <1>6 DEF h, t

-----------------------------------------------------------------------------
(* What the buffer of a large enough pack holds.                           *)

\* The item's bytes are in b from the o-th on.
Holds(b, o, item) ==
    IF item.kind = "int"
    THEN b[o + 1] = IntBytes(item.value)[1] /\ b[o + 2] = IntBytes(item.value)[2]
    ELSE /\ b[o + 1] = IntBytes(Len(item.value))[1]
         /\ b[o + 2] = IntBytes(Len(item.value))[2]
         /\ \A j \in 1 .. Len(item.value) : b[(o + 2) + j] = item.value[j]

\* The message is the first bytes of the pack.
CutFrom(m, b) ==
    /\ m \in Seq(Int) /\ Len(m) <= Len(b)
    /\ \A i \in 1 .. Len(m) : m[i] = b[i]

\* What has been read of the items is what was packed, up to the place where the
\* bytes that arrived end.
Reading(g) ==
    /\ CutFrom(message, buffer)
    /\ taken \in Seq(PackItem \cup {Failure}) /\ Len(taken) <= Len(items)
    /\ read >= 0 /\ read \in Int /\ read <= Len(message)
    /\ \/ /\ read = g[Len(taken)]
          /\ \A i \in 1 .. Len(taken) : taken[i] = items[i]
       \/ /\ taken # <<>> /\ taken[Len(taken)] = Failure
          /\ Len(message) < Len(buffer)
          /\ \A i \in 1 .. Len(taken) - 1 : taken[i] = items[i]

Whole(g) ==
    /\ buffer \in Seq(Int) /\ Len(buffer) = g[Len(items)]
    /\ \A i \in 1 .. Len(items) : Holds(buffer, g[i - 1], items[i])
    /\ IF sent THEN IsPrefix(message, buffer) => Reading(g)
       ELSE read = 0 /\ taken = <<>>

PackInv ==
    /\ items \in Seq(PackItem)
    /\ packSize \in 0 .. Half - 1
    /\ \E g : Sums(g, items) /\ (g[Len(items)] <= packSize => Whole(g))

LEMMA PackInitInv == PackInit => PackInv
<1> SUFFICES ASSUME PackInit PROVE PackInv
  OBVIOUS
<1>1. /\ packSize \in 0 .. Half - 1 /\ sent = FALSE /\ read = 0
      /\ buffer = <<>> /\ items = <<>> /\ taken = <<>>
  BY PackAssumption, WordAssumption DEF PackInit
<1>2. items \in Seq(PackItem) /\ Len(items) = 0
  BY <1>1
<1> DEFINE g == [i \in 0 .. 0 |-> 0]
<1>3. Sums(g, items) /\ g[Len(items)] = 0
  BY <1>2 DEF Sums
<1> HIDE DEF g
<1>4. Whole(g)
  BY <1>1, <1>2, <1>3 DEF Whole
<1> QED  BY <1>1, <1>2, <1>3, <1>4 DEF PackInv

\* A prefix of the pack is what CutFrom says it is.
LEMMA CutFromFact ==
    ASSUME NEW m \in Seq(Int), NEW b \in Seq(Int), IsPrefix(m, b)
    PROVE  CutFrom(m, b)
<1> DEFINE n == Len(m)
           r == SubSeq(b, 1, n)
<1>1. n \in 0 .. Len(b) /\ r = SubSeq(m, 1, n)
  BY LenProperties DEF IsPrefix
<1>2. SubSeq(m, 1, n) = m
  BY SubSeqFull
<1>3. \A i \in 1 .. n : r[i] = b[i]
  BY <1>1, CutFact
<1> HIDE DEF r
<1> QED  BY <1>1, <1>2, <1>3, LenProperties DEF CutFrom

\* What fits is behind what was there.
LEMMA PackedFact ==
    ASSUME NEW b \in Seq(Int), NEW item \in PackItem,
           Len(b) + SizeOf(item) <= packSize, packSize \in 0 .. Half - 1
    PROVE  LET r == IF item.kind = "int" THEN PackIn(b, IntBytes(item.value))
                    ELSE PackInString(b, item.value)
           IN  /\ r \in Seq(Int) /\ Len(r) = Len(b) + SizeOf(item)
               /\ \A i \in 1 .. Len(b) : r[i] = b[i]
               /\ Holds(r, Len(b), item)
<1> DEFINE v == item.value
           o == Len(b)
<1>1. o \in Nat /\ packSize \in Int /\ Half \in Nat
  BY WordAssumption, LenProperties
<1>4. ASSUME NEW n \in Nat, n <= packSize PROVE ~(AsInt(n) > packSize)
  <2>1. n \in Ints /\ n \in Int
    BY <1>1, <1>4, WordAssumption DEF Ints
  <2> QED  BY <1>1, <1>4, <2>1, AsIntFact
<1>2. CASE item.kind = "int"
  <2> DEFINE d == IntBytes(v)
             r == b \o d
  <2>1. d \in Seq(Int) /\ Len(d) = 2 /\ SizeOf(item) = 2
    BY <1>2, ItemFact, IntBytesFact
  <2>2. PackIn(b, d) = r
    <3> HIDE DEF d
    <3>1. Len(b) + Len(d) \in Nat /\ Len(b) + Len(d) <= packSize
      BY <1>1, <2>1
    <3> QED  BY <1>4, <3>1 DEF PackIn
  <2> HIDE DEF d
  <2>3. r \in Seq(Int) /\ Joins(r, b, d)
    BY <2>1, JoinFact
  <2> HIDE DEF r
  <2>4. /\ Len(r) = o + 2 /\ \A i \in 1 .. o : r[i] = b[i]
        /\ r[1 + o] = d[1] /\ r[2 + o] = d[2]
    BY <2>1, <2>3 DEF Joins
  <2>5. r[o + 1] = d[1] /\ r[o + 2] = d[2]
    <3>1. 1 + o = o + 1 /\ 2 + o = o + 2
      BY <1>1
    <3> QED  BY <2>4, <3>1
  <2>6. Holds(r, o, item)
    BY <1>2, <2>5 DEF Holds, d
  <2> QED  BY <1>2, <2>1, <2>2, <2>3, <2>4, <2>6 DEF d
<1>3. CASE item.kind # "int"
  <2> DEFINE d == IntBytes(Len(v))
             q == b \o d
             r == q \o v
  <2>1. /\ d \in Seq(Int) /\ Len(d) = 2 /\ SizeOf(item) = 2 + Len(v)
        /\ v \in Seq(Int) /\ Len(v) \in Nat
    BY <1>3, ItemFact, IntBytesFact
  <2> HIDE DEF d
  <2>2. q \in Seq(Int) /\ Joins(q, b, d)
    BY <2>1, JoinFact
  <2> HIDE DEF v
  <2>3. PackIn(b, d) = q
    <3>1. Len(b) + Len(d) \in Nat /\ Len(b) + Len(d) <= packSize
      BY <1>1, <2>1
    <3> QED  BY <1>4, <3>1 DEF PackIn
  <2> HIDE DEF q
  <2>4. /\ Len(q) = o + 2 /\ \A i \in 1 .. o : q[i] = b[i]
        /\ q[1 + o] = d[1] /\ q[2 + o] = d[2]
    BY <2>1, <2>2 DEF Joins
  <2>5. PackIn(q, v) = r
    <3>1. Len(q) + Len(v) \in Nat /\ Len(q) + Len(v) <= packSize
      BY <1>1, <2>1, <2>4
    <3> QED  BY <1>4, <3>1 DEF PackIn
  <2>6. r \in Seq(Int) /\ Joins(r, q, v)
    BY <2>1, <2>2, JoinFact
  <2>7. PackInString(b, v) = r
    BY <2>3, <2>5 DEF PackInString, d
  <2> HIDE DEF r
  <2>8. /\ Len(r) = (o + 2) + Len(v) /\ \A i \in 1 .. o + 2 : r[i] = q[i]
        /\ \A j \in 1 .. Len(v) : r[j + (o + 2)] = v[j]
    BY <2>1, <2>4, <2>6 DEF Joins
  <2>9. \A i \in 1 .. o : r[i] = b[i]
    BY <1>1, <2>4, <2>8
  <2>10. r[o + 1] = d[1] /\ r[o + 2] = d[2]
    <3>1. 1 + o = o + 1 /\ 2 + o = o + 2 /\ o + 1 \in 1 .. o + 2 /\ o + 2 \in 1 .. o + 2
      BY <1>1
    <3> QED  BY <2>4, <2>8, <3>1
  <2>11. \A j \in 1 .. Len(v) : r[(o + 2) + j] = v[j]
    <3>1. \A j \in 1 .. Len(v) : (o + 2) + j = j + (o + 2)
      BY <1>1
    <3> QED  BY <2>8, <3>1
  <2>12. Holds(r, o, item)
    BY <1>3, <2>10, <2>11 DEF Holds, d, v
  <2>13. Len(r) = o + SizeOf(item)
    BY <1>1, <2>1, <2>8
  <2> QED  BY <1>3, <2>6, <2>7, <2>9, <2>12, <2>13 DEF v
<1> QED  BY <1>2, <1>3

\* What is packed later does not touch an item.
LEMMA HoldsKept ==
    ASSUME NEW b, NEW r, NEW o \in Nat, NEW item \in PackItem, Holds(b, o, item),
           NEW n \in Nat, o + SizeOf(item) <= n, \A i \in 1 .. n : r[i] = b[i]
    PROVE  Holds(r, o, item)
<1>1. CASE item.kind = "int"
  <2>1. o + 1 \in 1 .. n /\ o + 2 \in 1 .. n
    BY <1>1, ItemFact
  <2> QED  BY <1>1, <2>1 DEF Holds
<1>2. CASE item.kind # "int"
  <2>1. /\ SizeOf(item) = 2 + Len(item.value) /\ Len(item.value) \in Nat
    BY <1>2, ItemFact
  <2>2. /\ o + 1 \in 1 .. n /\ o + 2 \in 1 .. n
        /\ \A j \in 1 .. Len(item.value) : (o + 2) + j \in 1 .. n
    BY <2>1
  <2> QED  BY <1>2, <2>2 DEF Holds
<1> QED  BY <1>1, <1>2

LEMMA PackKeepsInv ==
    ASSUME PackInv, NEW item \in PackItem, Pack(item)
    PROVE  PackInv'
<1>1. /\ items \in Seq(PackItem) /\ packSize \in 0 .. Half - 1 /\ ~sent
      /\ items' = Append(items, item)
      /\ UNCHANGED <<packSize, sent, message, read, taken>>
      /\ buffer' = IF item.kind = "int" THEN PackIn(buffer, IntBytes(item.value))
                   ELSE PackInString(buffer, item.value)
  BY DEF PackInv, Pack
<1>2. PICK g : Sums(g, items) /\ (g[Len(items)] <= packSize => Whole(g))
  BY DEF PackInv
<1> DEFINE n == Len(items)
           h == [i \in 0 .. n + 1 |-> IF i = n + 1 THEN g[n] + SizeOf(item) ELSE g[i]]
<1>3. /\ n \in Nat /\ items' \in Seq(PackItem) /\ Len(items') = n + 1
      /\ items'[n + 1] = item /\ \A i \in 1 .. n : items'[i] = items[i]
  BY <1>1, AppendProperties, LenProperties
<1>4. Sums(h, items')
  BY <1>1, <1>2, SumsAppend
<1>5. /\ h[n + 1] = g[n] + SizeOf(item)
      /\ \A i \in 1 .. n : h[i - 1] = g[i - 1] /\ h[i] = g[i]
      /\ h[n] = g[n] /\ g[n] \in Nat /\ SizeOf(item) \in Nat
  <2>1. /\ n + 1 \in 0 .. n + 1 /\ n \in 0 .. n + 1 /\ n # n + 1 /\ n \in 0 .. n
        /\ \A i \in 1 .. n : /\ i \in 0 .. n + 1 /\ i # n + 1
                             /\ i - 1 \in 0 .. n + 1 /\ i - 1 # n + 1
    BY <1>3
  <2>2. g[n] \in Nat /\ SizeOf(item) \in Nat
    BY <1>2, <2>1, ItemFact DEF Sums
  <2> QED  BY <2>1, <2>2
<1> HIDE DEF h
<1>6. PICK k : k = h
  OBVIOUS
<1>7. /\ Sums(k, items') /\ k[n + 1] = g[n] + SizeOf(item)
      /\ \A i \in 1 .. n : k[i - 1] = g[i - 1] /\ k[i] = g[i]
      /\ k[n] = g[n]
  BY <1>4, <1>5, <1>6
<1>8. ASSUME k[n + 1] <= packSize PROVE Whole(k)'
  <2>1. packSize \in Int /\ g[n] <= packSize
    <3>1. packSize \in Int
      BY <1>1, WordAssumption
    <3> QED  BY <1>5, <1>7, <1>8, <3>1
  <2>2. /\ buffer \in Seq(Int) /\ Len(buffer) = g[n] /\ read = 0 /\ taken = <<>>
        /\ \A i \in 1 .. n : Holds(buffer, g[i - 1], items[i])
    BY <1>1, <1>2, <2>1 DEF Whole
  <2>3. Len(buffer) + SizeOf(item) <= packSize
    BY <1>5, <1>7, <1>8, <2>2
  <2>4. /\ buffer' \in Seq(Int) /\ Len(buffer') = Len(buffer) + SizeOf(item)
        /\ \A i \in 1 .. Len(buffer) : buffer'[i] = buffer[i]
        /\ Holds(buffer', Len(buffer), item)
    BY <1>1, <2>2, <2>3, PackedFact
  <2>5. ASSUME NEW i \in 1 .. n + 1 PROVE Holds(buffer', k[i - 1], items'[i])
    <3>1. CASE i = n + 1
      <4>1. k[i - 1] = Len(buffer) /\ items'[i] = item
        BY <1>3, <1>5, <1>7, <2>2, <3>1
      <4> QED  BY <2>4, <4>1
    <3>2. CASE i # n + 1
      <4>1. i \in 1 .. n
        BY <1>3, <3>2
      <4>2. items[i] \in PackItem /\ i \in 0 .. n /\ i - 1 \in 0 .. n
        BY <1>1, <1>3, <4>1, ElementOfSeq
      <4>3. /\ g[i - 1] \in Nat /\ g[i] <= Len(buffer)
            /\ g[i] = g[i - 1] + SizeOf(items[i])
        BY <1>1, <1>2, <2>2, <4>1, <4>2, SumsGrow DEF Sums
      <4>4. Holds(buffer, g[i - 1], items[i])
        BY <2>2, <4>1
      <4>5. Len(buffer) \in Nat
        BY <1>5, <2>2
      <4>6. Holds(buffer', g[i - 1], items[i])
        BY <2>4, <4>2, <4>3, <4>4, <4>5, HoldsKept
      <4> QED  BY <1>3, <1>5, <1>7, <4>1, <4>6
    <3> QED  BY <3>1, <3>2
  <2>6. ~sent' /\ read' = 0 /\ taken' = <<>>
    BY <1>1, <2>2
  <2>7. Len(buffer') = k[Len(items')]
    BY <1>3, <1>5, <1>7, <2>2, <2>4
  <2>8. \A i \in 1 .. Len(items') : Holds(buffer', k[i - 1], items'[i])
    BY <1>3, <2>5
  <2> QED  BY <2>4, <2>6, <2>7, <2>8 DEF Whole
<1>9. k[Len(items')] <= packSize' => Whole(k)'
  BY <1>1, <1>3, <1>8
<1>10. \E f : Sums(f, items') /\ (f[Len(items')] <= packSize' => Whole(f)')
  BY <1>7, <1>9
<1>11. ~sent' /\ packSize' \in 0 .. Half - 1
  BY <1>1
<1> QED  BY <1>3, <1>10, <1>11 DEF PackInv

LEMMA UnpackKeepsInv ==
    ASSUME PackInv, NEW bytes, Unpack(bytes),
           bytes \in Foreign \/ \E n \in 0 .. Len(buffer) : bytes = SubSeq(buffer, 1, n)
    PROVE  PackInv'
<1>1. /\ items \in Seq(PackItem) /\ packSize \in 0 .. Half - 1 /\ ~sent
      /\ sent' /\ message' = bytes
      /\ packSize' = packSize /\ buffer' = buffer /\ items' = items
      /\ read' = read /\ taken' = taken
  BY DEF PackInv, Unpack
<1>2. PICK g : Sums(g, items) /\ (g[Len(items)] <= packSize => Whole(g))
  BY DEF PackInv
<1>3. ASSUME Whole(g), IsPrefix(bytes, buffer) PROVE Reading(g)'
  <2>1. read = 0 /\ taken = <<>> /\ buffer \in Seq(Int)
    BY <1>1, <1>3 DEF Whole
  <2>2. g[0] = 0 /\ Len(items) \in Nat
    BY <1>1, <1>2, LenProperties DEF Sums
  <2>3. bytes \in Seq(Int)
    <3>1. CASE bytes \in Foreign
      <4>1. bytes \in BoundedSeq(0 .. Base - 1, Half - 1)
        BY <3>1, PackAssumption
      <4>2. PICK m \in 0 .. Half - 1 : bytes \in [1 .. m -> 0 .. Base - 1]
        BY <4>1 DEF BoundedSeq, SeqOf
      <4>3. m \in Nat
        BY WordAssumption
      <4>4. bytes \in [1 .. m -> Int]
        BY <4>2
      <4> QED  BY <4>3, <4>4
    <3>2. CASE \E n \in 0 .. Len(buffer) : bytes = SubSeq(buffer, 1, n)
      <4>1. PICK n \in 0 .. Len(buffer) : bytes = SubSeq(buffer, 1, n)
        BY <3>2
      <4> QED  BY <2>1, <4>1, LenProperties
    <3> QED  BY <3>1, <3>2
  <2>4. CutFrom(bytes, buffer) /\ Len(bytes) \in Nat
    <3>1. CutFrom(bytes, buffer)
      BY <1>3, <2>1, <2>3, CutFromFact
    <3> QED  BY <2>3, <3>1, LenProperties
  <2>5. CutFrom(message', buffer') /\ read' = 0 /\ read' <= Len(message')
    BY <1>1, <2>1, <2>4
  <2>6. /\ taken' \in Seq(PackItem \cup {Failure}) /\ Len(taken') = 0
        /\ Len(taken') <= Len(items')
    BY <1>1, <2>1, <2>2
  <2>7. \A i \in 1 .. Len(taken') : taken'[i] = items'[i]
    BY <2>6
  <2> QED  BY <2>2, <2>5, <2>6, <2>7 DEF Reading
<1>4. ASSUME Whole(g) PROVE Whole(g)'
  <2>1. /\ buffer' \in Seq(Int) /\ Len(buffer') = g[Len(items')]
        /\ \A i \in 1 .. Len(items') : Holds(buffer', g[i - 1], items'[i])
    BY <1>1, <1>4 DEF Whole
  <2>2. IsPrefix(message', buffer') => Reading(g)'
    BY <1>1, <1>3, <1>4
  <2> QED  BY <1>1, <2>1, <2>2 DEF Whole
<1>5. g[Len(items')] <= packSize' => Whole(g)'
  BY <1>1, <1>2, <1>4
<1>6. \E f : Sums(f, items') /\ (f[Len(items')] <= packSize' => Whole(f)')
  BY <1>1, <1>2, <1>5
<1> QED  BY <1>1, <1>6 DEF PackInv

\* The int at a place that holds one.
LEMMA ReadInt ==
    ASSUME NEW b \in Seq(Int), NEW o \in Nat, o + 2 <= Len(b), NEW v \in Ints,
           b[o + 1] = IntBytes(v)[1], b[o + 2] = IntBytes(v)[2]
    PROVE  BytesInt(SubSeq(b, o + 1, o + 2)) = v
<1> DEFINE c == SubSeq(b, o + 1, o + 2)
<1>1. c[1] = b[o + 1] /\ c[2] = b[o + 2]
  BY LenProperties
<1> HIDE DEF c
<1>2. BytesInt(c) = BytesInt(IntBytes(v))
  BY <1>1 DEF BytesInt
<1> QED  BY <1>2, IntBytesFact DEF c

\* An item read, or the end of what arrived met.
GoodRead(item, end) ==
    /\ read' = end /\ end <= Len(message)
    /\ taken' = Append(taken, item)
BadRead ==
    /\ read' \in Int /\ read' >= 0 /\ read' <= Len(message)
    /\ Len(message) < Len(buffer)
    /\ taken' = Append(taken, Failure)

\* Inside the pack no sum overflows, and what is inside the message is the pack's.
LEMMA InsideFact ==
    ASSUME CutFrom(message, buffer), buffer \in Seq(Int), Len(buffer) \in Ints,
           NEW c \in Nat, c <= Len(buffer)
    PROVE  AsInt(c) = c /\ (Inside(c) <=> c <= Len(message))
<1>1. c \in Ints /\ c \in Int
  BY WordAssumption, LenProperties DEF Ints
<1> QED  BY <1>1, AsIntFact DEF Inside

\* The int at a place of the message where the pack holds one.
LEMMA ReadCut ==
    ASSUME CutFrom(message, buffer), NEW o \in Nat, o + 2 <= Len(message),
           NEW v \in Ints,
           buffer[o + 1] = IntBytes(v)[1], buffer[o + 2] = IntBytes(v)[2]
    PROVE  BytesInt(SubSeq(message, o + 1, o + 2)) = v
<1>1. message \in Seq(Int) /\ Len(message) \in Nat
  BY LenProperties DEF CutFrom
<1>2. o + 1 \in 1 .. Len(message) /\ o + 2 \in 1 .. Len(message)
  BY <1>1
<1>3. message[o + 1] = buffer[o + 1] /\ message[o + 2] = buffer[o + 2]
  BY <1>2 DEF CutFrom
<1> QED  BY <1>1, <1>3, ReadInt

LEMMA IntRead ==
    ASSUME NEW item \in PackItem, item.kind = "int", PackOutInt,
           buffer \in Seq(Int), read \in Nat, CutFrom(message, buffer),
           read <= Len(message), Holds(buffer, read, item),
           read + SizeOf(item) <= Len(buffer), Len(buffer) \in Ints
    PROVE  GoodRead(item, read + SizeOf(item)) \/ BadRead
<1> DEFINE cursor == read + 2
<1>1. /\ SizeOf(item) = 2 /\ item.value \in Ints /\ Len(buffer) \in Nat
      /\ Len(message) \in Nat
  BY ItemFact, LenProperties DEF CutFrom
<1>2. item = [kind |-> "int", value |-> item.value]
  BY DEF PackItem, IntItems, StringItems
<1>3. AsInt(cursor) = cursor /\ (Inside(cursor) <=> cursor <= Len(message))
  BY <1>1, InsideFact
<1>4. IF ~Inside(cursor)
      THEN read' = read /\ taken' = Append(taken, Failure)
      ELSE /\ read' = AsInt(cursor)
           /\ taken' = Append(taken,
                IF cursor <= Len(message)
                THEN [kind |-> "int",
                      value |-> BytesInt(SubSeq(message, read + 1, cursor))]
                ELSE Undefined)
  BY DEF PackOutInt, IntSize
<1>5. CASE cursor > Len(message)
  <2>1. read' = read /\ taken' = Append(taken, Failure)
    BY <1>1, <1>3, <1>4, <1>5
  <2> QED  BY <1>1, <1>5, <2>1 DEF BadRead
<1>6. CASE cursor <= Len(message)
  <2>1. /\ read' = cursor
        /\ taken' = Append(taken, [kind |-> "int",
                      value |-> BytesInt(SubSeq(message, read + 1, cursor))])
    BY <1>3, <1>4, <1>6
  <2>2. BytesInt(SubSeq(message, read + 1, cursor)) = item.value
    BY <1>1, <1>6, ReadCut DEF Holds
  <2>3. taken' = Append(taken, item)
    BY <1>2, <2>1, <2>2
  <2> QED  BY <1>1, <1>6, <2>1, <2>3 DEF GoodRead
<1> QED  BY <1>1, <1>5, <1>6

LEMMA StringRead ==
    ASSUME NEW item \in PackItem, item.kind # "int", PackOutString,
           buffer \in Seq(Int), read \in Nat, CutFrom(message, buffer),
           read <= Len(message), Holds(buffer, read, item),
           read + SizeOf(item) <= Len(buffer), Len(buffer) \in Ints
    PROVE  GoodRead(item, read + SizeOf(item)) \/ BadRead
<1> DEFINE v      == item.value
           k      == Len(v)
           cursor == read + 2
           len    == BytesInt(SubSeq(message, read + 1, cursor))
<1>1. /\ SizeOf(item) = 2 + k /\ v \in Seq(Int) /\ k \in Nat /\ k \in Ints
      /\ Len(buffer) \in Nat /\ item.kind = "string"
      /\ message \in Seq(Int) /\ Len(message) \in Nat
  BY ItemFact, LenProperties DEF CutFrom
<1>2. item = [kind |-> "string", value |-> v]
  BY <1>1 DEF PackItem, IntItems, StringItems
<1>3. /\ buffer[read + 1] = IntBytes(k)[1] /\ buffer[read + 2] = IntBytes(k)[2]
      /\ \A j \in 1 .. k : buffer[(read + 2) + j] = v[j]
  BY DEF Holds
<1>4. /\ cursor <= Len(buffer) /\ cursor + k <= Len(buffer)
      /\ cursor \in Nat /\ cursor + k \in Nat
  <2> HIDE DEF k
  <2> QED  BY <1>1
<1>5. /\ AsInt(cursor) = cursor /\ (Inside(cursor) <=> cursor <= Len(message))
      /\ AsInt(cursor + k) = cursor + k
      /\ (Inside(cursor + k) <=> cursor + k <= Len(message))
  <2>1. cursor \in Nat /\ cursor + k \in Nat
    BY <1>4
  <2> QED  BY <1>4, <2>1, InsideFact
<1>6. cursor <= Len(message) => len = k
  BY <1>1, <1>3, ReadCut
<1>7. IF ~Inside(cursor)
      THEN read' = read /\ taken' = Append(taken, Failure)
      ELSE IF cursor > Len(message)
      THEN read' = AsInt(cursor) /\ taken' = Append(taken, Undefined)
      ELSE IF ~StringFits(len, cursor)
      THEN read' = cursor /\ taken' = Append(taken, Failure)
      ELSE /\ read' = AsInt(cursor + len)
           /\ taken' = Append(taken,
                IF cursor + len <= Len(message)
                THEN [kind |-> "string",
                      value |-> SubSeq(message, cursor + 1, cursor + len)]
                ELSE Undefined)
  BY DEF PackOutString, IntSize
<1>8. cursor + k <= Len(message) => SubSeq(message, cursor + 1, cursor + k) = v
  <2> SUFFICES ASSUME cursor + k <= Len(message)
               PROVE  SubSeq(message, cursor + 1, cursor + k) = v
    OBVIOUS
  <2> HIDE DEF v
  <2>1. \A j \in 1 .. Len(v) : message[cursor + j] = v[j]
    <3>1. \A j \in 1 .. Len(v) : cursor + j \in 1 .. Len(message)
      BY <1>1, <1>4
    <3> QED  BY <1>3, <3>1 DEF CutFrom
  <2> QED  BY <1>1, <1>4, <2>1, PartRead
<1> HIDE DEF len
<1> HIDE DEF v, k
<1> HIDE DEF cursor
<1>9. cursor <= Len(message) => (StringFits(len, cursor) <=> cursor + k <= Len(message))
  BY <1>1, <1>5, <1>6 DEF StringFits
<1>10. CASE cursor > Len(message)
  <2>1. read' = read /\ taken' = Append(taken, Failure)
    BY <1>1, <1>4, <1>5, <1>7, <1>10
  <2> QED  BY <1>1, <1>4, <1>10, <2>1 DEF BadRead
<1>11. CASE cursor <= Len(message) /\ ~(cursor + k <= Len(message))
  <2>1. read' = cursor /\ taken' = Append(taken, Failure)
    BY <1>1, <1>4, <1>5, <1>7, <1>9, <1>11
  <2> QED  BY <1>1, <1>4, <1>11, <2>1 DEF BadRead
<1>12. CASE cursor <= Len(message) /\ cursor + k <= Len(message)
  <2>1. /\ read' = cursor + k
        /\ taken' = Append(taken, [kind |-> "string",
                      value |-> SubSeq(message, cursor + 1, cursor + k)])
    BY <1>1, <1>4, <1>5, <1>6, <1>7, <1>9, <1>12
  <2>2. taken' = Append(taken, item)
    BY <1>2, <1>8, <1>12, <2>1
  <2>3. read' = read + SizeOf(item) /\ read + SizeOf(item) <= Len(message)
    BY <1>1, <1>12, <2>1 DEF cursor
  <2> QED  BY <2>2, <2>3 DEF GoodRead
<1> QED  BY <1>1, <1>4, <1>10, <1>11, <1>12

\* What a read leaves is what was packed, up to where it stopped.
LEMMA ReadKeepsWhole ==
    ASSUME items \in Seq(PackItem), packSize \in 0 .. Half - 1, PackOut,
           IsPrefix(message, buffer),
           NEW g, Sums(g, items), g[Len(items)] <= packSize, Whole(g)
    PROVE  Reading(g)'
<1> DEFINE n == Len(taken)
           m == Len(items)
           item == items[n + 1]
<1>1. /\ sent /\ ~Received
      /\ IF item.kind = "int" THEN PackOutInt ELSE PackOutString
      /\ packSize' = packSize /\ buffer' = buffer /\ items' = items
      /\ message' = message
  BY DEF PackOut
<1>2. /\ buffer \in Seq(Int) /\ Len(buffer) = g[m]
      /\ \A i \in 1 .. m : Holds(buffer, g[i - 1], items[i])
      /\ Reading(g)
  BY <1>1 DEF Whole
<1>3. /\ taken \in Seq(PackItem \cup {Failure}) /\ n <= m /\ n \in Nat /\ m \in Nat
      /\ read \in Int /\ read >= 0 /\ read <= Len(message)
      /\ CutFrom(message, buffer)
  BY <1>2, LenProperties DEF Reading
<1>4. n # m /\ (taken # <<>> => taken[n] # Failure)
  BY <1>1 DEF Received, Last
<1>5. read = g[n] /\ \A i \in 1 .. n : taken[i] = items[i]
  BY <1>2, <1>4 DEF Reading
<1>6. /\ item \in PackItem /\ n + 1 \in 1 .. m /\ (n + 1) - 1 = n /\ n + 1 \in 0 .. m
  BY <1>3, <1>4, ElementOfSeq
<1>7. g[n + 1] = read + SizeOf(item) /\ Holds(buffer, read, item)
  BY <1>2, <1>5, <1>6 DEF Sums
<1>8. read + SizeOf(item) <= Len(buffer) /\ Len(buffer) \in Nat
  BY <1>2, <1>6, <1>7, SumsGrow
<1>9. Len(buffer) \in Ints /\ read \in Nat
  BY <1>2, <1>3, <1>8, WordAssumption DEF Ints
<1>10. GoodRead(item, read + SizeOf(item)) \/ BadRead
  <2> HIDE DEF item
  <2>1. CASE item.kind = "int"
    BY <1>1, <1>2, <1>3, <1>6, <1>7, <1>8, <1>9, <2>1, IntRead
  <2>2. CASE item.kind # "int"
    BY <1>1, <1>2, <1>3, <1>6, <1>7, <1>8, <1>9, <2>2, StringRead
  <2> QED  BY <2>1, <2>2
<1>11. ASSUME NEW x \in PackItem \cup {Failure}, taken' = Append(taken, x)
       PROVE  /\ taken' \in Seq(PackItem \cup {Failure}) /\ Len(taken') = n + 1
              /\ Len(taken') <= Len(items') /\ taken' # <<>>
              /\ taken'[n + 1] = x /\ \A i \in 1 .. n : taken'[i] = items'[i]
  <2> DEFINE t == Append(taken, x)
  <2>1. /\ t \in Seq(PackItem \cup {Failure}) /\ Len(t) = n + 1 /\ t[n + 1] = x
        /\ \A i \in 1 .. n : t[i] = taken[i]
    BY <1>3, AppendProperties
  <2> HIDE DEF t
  <2>2. n + 1 <= m /\ t # <<>>
    <3>1. n + 1 # 0
      BY <1>3
    <3> QED  BY <1>3, <1>6, <2>1, <3>1
  <2>3. taken' = t
    BY <1>11 DEF t
  <2> QED  BY <1>1, <1>5, <2>1, <2>2, <2>3
<1>12. CASE GoodRead(item, read + SizeOf(item))
  <2>1. /\ read' = g[n + 1] /\ read' <= Len(message) /\ taken' = Append(taken, item)
    BY <1>7, <1>12 DEF GoodRead
  <2>2. /\ taken' \in Seq(PackItem \cup {Failure}) /\ Len(taken') = n + 1
        /\ Len(taken') <= Len(items')
        /\ taken'[n + 1] = item /\ \A i \in 1 .. n : taken'[i] = items'[i]
    BY <1>6, <1>11, <2>1
  <2>3. \A i \in 1 .. Len(taken') : taken'[i] = items'[i]
    <3>1. \A i \in 1 .. n + 1 : i = n + 1 \/ i \in 1 .. n
      BY <1>3
    <3> QED  BY <1>1, <2>2, <3>1
  <2>4. read' \in Int /\ read' >= 0
    BY <1>6, <2>1, SumsGrow
  <2>5. read' = g[Len(taken')] /\ read' <= Len(message') /\ CutFrom(message', buffer')
    BY <1>1, <1>3, <2>1, <2>2
  <2> QED  BY <2>2, <2>3, <2>4, <2>5 DEF Reading
<1>13. CASE BadRead
  <2>1. /\ read' \in Int /\ read' >= 0 /\ read' <= Len(message)
        /\ Len(message) < Len(buffer)
        /\ taken' = Append(taken, Failure)
    BY <1>13 DEF BadRead
  <2>2. /\ taken' \in Seq(PackItem \cup {Failure}) /\ Len(taken') = n + 1
        /\ Len(taken') <= Len(items') /\ taken' # <<>>
        /\ taken'[n + 1] = Failure /\ \A i \in 1 .. n : taken'[i] = items'[i]
    BY <1>11, <2>1
  <2>3. (n + 1) - 1 = n
    BY <1>3
  <2>4. /\ taken'[Len(taken')] = Failure
        /\ \A i \in 1 .. Len(taken') - 1 : taken'[i] = items'[i]
    BY <2>2, <2>3
  <2>5. /\ read' <= Len(message') /\ Len(message') < Len(buffer')
        /\ CutFrom(message', buffer')
    BY <1>1, <1>3, <2>1
  <2> QED  BY <2>1, <2>2, <2>4, <2>5 DEF Reading
<1> QED  BY <1>10, <1>12, <1>13

LEMMA PackOutKeepsInv == PackInv /\ PackOut => PackInv'
<1> SUFFICES ASSUME PackInv, PackOut PROVE PackInv'
  OBVIOUS
<1>1. /\ items \in Seq(PackItem) /\ packSize \in 0 .. Half - 1
      /\ sent /\ sent' = sent
      /\ packSize' = packSize /\ buffer' = buffer /\ items' = items
      /\ message' = message
  BY DEF PackInv, PackOut
<1>2. PICK g : Sums(g, items) /\ (g[Len(items)] <= packSize => Whole(g))
  BY DEF PackInv
<1>3. ASSUME g[Len(items)] <= packSize PROVE Whole(g)'
  <2>1. Whole(g)
    BY <1>2, <1>3
  <2>2. IsPrefix(message', buffer') => Reading(g)'
    BY <1>1, <1>2, <1>3, <2>1, ReadKeepsWhole
  <2>3. /\ buffer' \in Seq(Int) /\ Len(buffer') = g[Len(items')]
        /\ \A i \in 1 .. Len(items') : Holds(buffer', g[i - 1], items'[i])
    BY <1>1, <2>1 DEF Whole
  <2> QED  BY <1>1, <2>2, <2>3 DEF Whole
<1>4. g[Len(items')] <= packSize' => Whole(g)'
  BY <1>1, <1>3
<1>5. \E f : Sums(f, items') /\ (f[Len(items')] <= packSize' => Whole(f)')
  BY <1>1, <1>2, <1>4
<1> QED  BY <1>1, <1>5 DEF PackInv

\* A pack that is large enough holds every item where the sizes of those before
\* it say, so what is read of it is what was packed.
LEMMA PackInvReads == PackInv => ReadsWhatWasPacked
<1> SUFFICES ASSUME PackInv, SizeNeeded <= packSize, sent, IsPrefix(message, buffer)
             PROVE  /\ read \in 0 .. Len(message)
                    /\ \A i \in DOMAIN taken :
                         \/ taken[i] = items[i]
                         \/ taken[i] = Failure /\ Len(message) < Len(buffer)
  BY DEF ReadsWhatWasPacked
<1>1. items \in Seq(PackItem)
  BY DEF PackInv
<1>2. PICK g : Sums(g, items) /\ (g[Len(items)] <= packSize => Whole(g))
  BY DEF PackInv
<1>3. Whole(g)
  BY <1>1, <1>2, SizeFact DEF SizeNeeded
<1>4. Reading(g)
  BY <1>3 DEF Whole
<1>5. /\ read \in 0 .. Len(message)
      /\ \A i \in DOMAIN taken :
           \/ taken[i] = items[i]
           \/ taken[i] = Failure /\ Len(message) < Len(buffer)
  <2>1. /\ taken \in Seq(PackItem \cup {Failure}) /\ Len(taken) \in Nat
        /\ DOMAIN taken = 1 .. Len(taken) /\ Len(message) \in Nat
        /\ read \in 0 .. Len(message)
    BY <1>4, LenProperties DEF Reading, CutFrom
  <2>2. CASE \A i \in 1 .. Len(taken) : taken[i] = items[i]
    BY <2>1, <2>2
  <2>3. CASE /\ taken[Len(taken)] = Failure /\ Len(message) < Len(buffer)
             /\ \A i \in 1 .. Len(taken) - 1 : taken[i] = items[i]
    <3> DEFINE m == Len(taken)
    <3>1. m \in Nat
      BY <2>1
    <3>2. \A i \in 1 .. m : i = m \/ i \in 1 .. m - 1
      <4> HIDE DEF m
      <4> QED  BY <3>1
    <3> QED  BY <2>1, <2>3, <3>2
  <2> QED  BY <1>4, <2>2, <2>3 DEF Reading
<1> QED  BY <1>5

\* Whatever is packed and however much of it arrives: as long as the pack was
\* made large enough and the bytes that arrive are its own, every item read is
\* the item packed there, or reading stopped at the one that did not all arrive
\* (PackIn, PackOut).  Of other bytes it says nothing: ReadsInsideTheBytes fails.
THEOREM PacksAreRead == PackSpec => []ReadsWhatWasPacked
<1>1. PackInit => PackInv
  BY PackInitInv
<1>2. PackInv /\ [PackNext]_packVars => PackInv'
  <2> SUFFICES ASSUME PackInv, [PackNext]_packVars PROVE PackInv'
    OBVIOUS
  <2>1. ASSUME NEW item \in IntItems \cup StringItems, Pack(item) PROVE PackInv'
    BY <2>1, PackKeepsInv DEF PackItem
  <2>2. ASSUME NEW n \in 0 .. Len(buffer), Unpack(SubSeq(buffer, 1, n))
        PROVE  PackInv'
    BY <2>2, UnpackKeepsInv
  <2>3. ASSUME NEW bytes \in Foreign, Unpack(bytes) PROVE PackInv'
    BY <2>3, UnpackKeepsInv
  <2>5. CASE PackOut
    BY <2>5, PackOutKeepsInv
  <2>4. CASE UNCHANGED packVars
    <3>1. /\ packSize' = packSize /\ buffer' = buffer /\ items' = items
          /\ sent' = sent /\ message' = message
          /\ read' = read /\ taken' = taken
      BY <2>4 DEF packVars
    <3> QED  BY <3>1 DEF PackInv, Whole, Reading
  <2> QED  BY <2>1, <2>2, <2>3, <2>4, <2>5 DEF PackNext
<1> QED  BY <1>1, <1>2, PackInvReads, PTL DEF PackSpec

-----------------------------------------------------------------------------
(* The history packer.                                                     *)

\* What was given out of the blob was given after it was built.
GivenOfTheBlob ==
    /\ address # Null => serialised /\ address = blob
    /\ length \notin {Unasked, 0} => serialised /\ length = Len(blob)

\* The bytes an address was given for stay there, as they were, and a length
\* asked for before or after is theirs (GetAddress, GetLength, Serialise).
THEOREM AddressesAndLengthsAgree == HistoryTransferSpec => []AddressAndLengthAgree
<1>1. HistoryTransferInit => GivenOfTheBlob
  BY DEF HistoryTransferInit, GivenOfTheBlob
<1>2. ASSUME GivenOfTheBlob, HistoryTransferNext PROVE GivenOfTheBlob'
  <2>1. CASE GetAddress
    BY <1>2, <2>1 DEF GetAddress, Serialise, GivenOfTheBlob
  <2>2. CASE GetLength
    BY <1>2, <2>2 DEF GetLength, Serialise, GivenOfTheBlob
  <2>3. ASSUME NEW t, WriteMoniker(t) \/ WriteName(t) \/ WriteUserText(t)
                        \/ WriteCreatureHistory \/ WriteLifeEvent(t)
        PROVE  GivenOfTheBlob'
    BY <1>2, <2>3 DEF WriteMoniker, WriteName, WriteUserText, WriteCreatureHistory,
       WriteLifeEvent, Built, GivenOfTheBlob
  <2> QED  BY <1>2, <2>1, <2>2, <2>3 DEF HistoryTransferNext
<1>3. GivenOfTheBlob /\ UNCHANGED historyTransferVars => GivenOfTheBlob'
  BY DEF GivenOfTheBlob, historyTransferVars
<1>4. GivenOfTheBlob => AddressAndLengthAgree
  BY DEF GivenOfTheBlob, AddressAndLengthAgree
<1> QED  BY <1>1, <1>2, <1>3, <1>4, PTL DEF HistoryTransferSpec

\* Multiplication keeps the order.
LEMMA TimesFact ==
    ASSUME NEW k \in Nat, NEW l \in Nat, l <= k, NEW w \in Nat
    PROVE  l * w <= k * w /\ l * w \in Nat
<1>1. k - l \in Nat /\ k = l + (k - l)
  OBVIOUS
<1>2. (k - l) * w \in Nat
  BY <1>1
<1>3. k * w = l * w + (k - l) * w
  OBVIOUS
<1> QED  BY <1>2, <1>3

\* The sequences of seqs one behind the other.
Flattens(g, seqs) ==
    /\ DOMAIN g = 0 .. Len(seqs) /\ g[0] = <<>>
    /\ \A i \in 1 .. Len(seqs) : g[i] = g[i - 1] \o seqs[i]

LEMMA FlattenFact ==
    ASSUME NEW S, NEW seqs \in Seq(Seq(S))
    PROVE  \E g \in [0 .. Len(seqs) -> Seq(S)] :
              Flattens(g, seqs) /\ FlattenSeq(seqs) = g[Len(seqs)]
<1> DEFINE m == Len(seqs)
           V == Seq(S)
           step == [x \in V \X (1 .. m) |-> x[1] \o seqs[x[2]]]
<1>1. m \in Nat /\ DOMAIN seqs = 1 .. m /\ \A i \in 1 .. m : seqs[i] \in V
  BY LenProperties, ElementOfSeq
<1>2. step \in [V \X (1 .. m) -> V]
  <2>1. ASSUME NEW v \in V, NEW i \in 1 .. m PROVE v \o seqs[i] \in V
    BY <1>1, ConcatProperties
  <2> HIDE DEF V
  <2>2. ASSUME NEW x \in V \X (1 .. m) PROVE x[1] \o seqs[x[2]] \in V
    <3>1. x[1] \in V /\ x[2] \in 1 .. m
      OBVIOUS
    <3> QED  BY <2>1, <3>1
  <2> QED  BY <2>2
<1>3. \A v \in V, i \in 1 .. m : step[<<v, i>>] = v \o seqs[i]
  <2> HIDE DEF V
  <2> QED  OBVIOUS
<1>4. <<>> \in V
  OBVIOUS
<1> HIDE DEF step
<1>5. PICK h \in [0 .. m -> V] : Runs(h, m, <<>>, step)
  <2> HIDE DEF m, V
  <2> QED  BY <1>1, <1>2, <1>4, RecursionExists
<1>6. \A i \in 1 .. m : h[i - 1] \in V
  <2>1. \A i \in 1 .. m : i - 1 \in 0 .. m
    BY <1>1
  <2> HIDE DEF m, V
  <2> QED  BY <1>5, <2>1
<1>7. Flattens(h, seqs)
  <2> HIDE DEF V
  <2> QED  BY <1>3, <1>5, <1>6 DEF Flattens, Runs
<1>8. CASE m = 0
  <2>1. FlattenSeq(seqs) = seqs /\ seqs = <<>>
    BY <1>8 DEF FlattenSeq
  <2> QED  BY <1>5, <1>7, <1>8, <2>1 DEF Flattens
<1>9. CASE m # 0
  <2> DEFINE Rec(g) == [i \in 1 .. Len(seqs) |->
                          IF i = 1 THEN seqs[i] ELSE g[i - 1] \o seqs[i]]
             f == CHOOSE g : g = Rec(g)
             k == [i \in 1 .. m |-> h[i]]
  <2>1. \A i \in 1 .. m : i = 1 \/ i - 1 \in 1 .. m
    BY <1>1
  <2>2. h[0] = <<>> /\ \A i \in 1 .. m : h[i] = h[i - 1] \o seqs[i]
    BY <1>7 DEF Flattens
  <2>3. ASSUME NEW i \in 1 .. m PROVE k[i] = Rec(k)[i]
    <3>1. CASE i = 1
      <4>1. i - 1 = 0
        BY <3>1
      <4>2. h[i] = h[i - 1] \o seqs[i]
        BY <2>2
      <4>3. <<>> \o seqs[i] = seqs[i]
        BY <1>1, ConcatEmptySeq
      <4>4. h[i] = seqs[i]
        BY <2>2, <4>1, <4>2, <4>3
      <4> QED  BY <3>1, <4>4
    <3>2. CASE i # 1
      <4>1. k[i - 1] = h[i - 1] /\ k[i] = h[i]
        BY <2>1, <3>2
      <4>2. h[i] = h[i - 1] \o seqs[i]
        BY <2>2
      <4> HIDE DEF k
      <4> QED  BY <3>2, <4>1, <4>2
    <3> QED  BY <3>1, <3>2
  <2>4. k = Rec(k)
    <3>1. Rec(k) = [i \in 1 .. m |-> Rec(k)[i]] /\ k = [i \in 1 .. m |-> k[i]]
      OBVIOUS
    <3> HIDE DEF Rec, k
    <3> QED  BY <2>3, <3>1
  <2>5. f = Rec(f)
    <3> HIDE DEF Rec, k
    <3> QED  BY <2>4, Zenon
  <2>6. FlattenSeq(seqs) = f[m]
    BY <1>9 DEF FlattenSeq
  <2> HIDE DEF f
  <2>7. ASSUME NEW i \in 1 .. m
        PROVE  f[i] = IF i = 1 THEN seqs[i] ELSE f[i - 1] \o seqs[i]
    BY <2>5
  <2>8. \A i \in 1 .. m : f[i] = h[i]
    <3> DEFINE T == {i \in Nat : i + 1 \in 1 .. m => f[i + 1] = h[i + 1]}
    <3>1. 0 \in T
      <4>1. 0 + 1 = 1
        OBVIOUS
      <4> SUFFICES ASSUME 1 \in 1 .. m PROVE f[1] = h[1]
        BY <4>1
      <4>2. f[1] = seqs[1]
        BY <2>7
      <4>3. k[1] = h[1] /\ Rec(k)[1] = seqs[1]
        OBVIOUS
      <4> QED  BY <2>3, <4>2, <4>3
    <3>2. ASSUME NEW i \in Nat, i \in T PROVE i + 1 \in T
      <4> SUFFICES ASSUME (i + 1) + 1 \in 1 .. m PROVE f[(i + 1) + 1] = h[(i + 1) + 1]
        OBVIOUS
      <4> DEFINE n == (i + 1) + 1
      <4>1. n \in 1 .. m /\ n # 1 /\ n - 1 = i + 1 /\ f[i + 1] = h[i + 1]
        BY <1>1, <3>2
      <4> HIDE DEF n
      <4>2. f[n] = f[n - 1] \o seqs[n] /\ h[n] = h[n - 1] \o seqs[n]
        BY <2>2, <2>7, <4>1
      <4>3. f[n] = h[n]
        BY <4>1, <4>2
      <4> QED  BY <4>3 DEF n
    <3> HIDE DEF T
    <3>3. Nat \subseteq T
      BY <3>1, <3>2, Induction
    <3>4. ASSUME NEW i \in 1 .. m PROVE f[i] = h[i]
      <4>1. i - 1 \in Nat /\ (i - 1) + 1 = i
        OBVIOUS
      <4>2. i - 1 \in T
        BY <3>3, <4>1
      <4> QED  BY <4>1, <4>2 DEF T
    <3> QED  BY <3>4
  <2>9. FlattenSeq(seqs) = h[m]
    <3> HIDE DEF Rec, k
    <3>1. m \in 1 .. m
      BY <1>1, <1>9
    <3> QED  BY <2>6, <2>8, <3>1
  <2> QED  BY <1>5, <1>7, <2>9
<1> QED  BY <1>8, <1>9

\* Parts of one length one behind the other.
LEMMA EqualParts ==
    ASSUME NEW S, NEW seqs \in Seq(Seq(S)), NEW w \in Nat,
           \A i \in 1 .. Len(seqs) : Len(seqs[i]) = w
    PROVE  /\ FlattenSeq(seqs) \in Seq(S)
           /\ Len(FlattenSeq(seqs)) = Len(seqs) * w
           /\ \A l \in 1 .. Len(seqs), j \in 1 .. w :
                FlattenSeq(seqs)[(l - 1) * w + j] = seqs[l][j]
<1> DEFINE m == Len(seqs)
<1>1. m \in Nat /\ \A i \in 1 .. m : seqs[i] \in Seq(S)
  BY LenProperties, ElementOfSeq
<1>2. PICK g \in [0 .. m -> Seq(S)] :
        Flattens(g, seqs) /\ FlattenSeq(seqs) = g[m]
  BY FlattenFact
<1> DEFINE P(k) == /\ Len(g[k]) = k * w
                   /\ \A l \in 1 .. k, j \in 1 .. w : g[k][(l - 1) * w + j] = seqs[l][j]
           T == {k \in Nat : k <= m => P(k)}
<1>3. P(0)
  BY <1>2 DEF Flattens
<1>4. ASSUME NEW k \in Nat, k + 1 <= m, P(k) PROVE P(k + 1)
  <2> DEFINE u == g[k]
             v == seqs[k + 1]
             r == g[k + 1]
             n == k * w
  <2>1. k \in 0 .. m /\ k + 1 \in 1 .. m /\ (k + 1) - 1 = k
    BY <1>1, <1>4
  <2>2. u \in Seq(S) /\ v \in Seq(S) /\ r = u \o v /\ Len(u) = n /\ Len(v) = w
        /\ n \in Nat
    <3>1. g[k] \in Seq(S) /\ v \in Seq(S)
      BY <1>1, <1>2, <2>1
    <3>2. g[k + 1] = g[(k + 1) - 1] \o seqs[k + 1]
      BY <1>2, <2>1 DEF Flattens
    <3>3. Len(g[k]) = n /\ Len(v) = w /\ n \in Nat
      BY <1>4, <2>1
    <3> HIDE DEF n
    <3> QED  BY <2>1, <3>1, <3>2, <3>3
  <2>3. \A l \in 1 .. k, j \in 1 .. w : u[(l - 1) * w + j] = seqs[l][j]
    BY <1>4
  <2>4. (k + 1) * w = n + w
    OBVIOUS
  <2>5. ASSUME NEW l \in 1 .. k + 1, NEW j \in 1 .. w
        PROVE  /\ l \in 1 .. k => (l - 1) * w + j \in 1 .. n
               /\ l \notin 1 .. k => (l - 1) * w + j = j + n /\ l = k + 1
    <3>1. CASE l \in 1 .. k
      <4> DEFINE o == (l - 1) * w
      <4>1. l * w <= n /\ l * w = o + w /\ o \in Nat /\ l * w \in Nat
        BY <3>1, TimesFact
      <4> HIDE DEF o, n
      <4>2. o + j \in 1 .. n
        BY <2>2, <4>1
      <4> QED  BY <3>1, <4>2 DEF o
    <3>2. CASE l \notin 1 .. k
      BY <3>2
    <3> QED  BY <3>1, <3>2
  <2> HIDE DEF u, v, r, n
  <2>6. Joins(r, u, v)
    BY <2>2, JoinFact
  <2>7. ASSUME NEW l \in 1 .. k + 1, NEW j \in 1 .. w
        PROVE  r[(l - 1) * w + j] = seqs[l][j]
    <3>1. CASE l \in 1 .. k
      BY <2>2, <2>3, <2>5, <2>6, <3>1 DEF Joins
    <3>2. CASE l \notin 1 .. k
      <4>1. r[j + n] = v[j]
        BY <2>2, <2>6 DEF Joins
      <4> QED  BY <2>5, <3>2, <4>1 DEF v
    <3> QED  BY <3>1, <3>2
  <2>8. Len(r) = (k + 1) * w
    BY <2>2, <2>4, <2>6 DEF Joins
  <2> QED  BY <2>7, <2>8 DEF r
<1> HIDE DEF P
<1>5. 0 \in T
  BY <1>3
<1>6. ASSUME NEW k \in Nat, k \in T PROVE k + 1 \in T
  BY <1>1, <1>4, <1>6
<1> HIDE DEF T
<1>7. Nat \subseteq T
  BY <1>5, <1>6, Induction
<1>8. P(m)
  BY <1>1, <1>7 DEF T
<1> QED  BY <1>1, <1>2, <1>8 DEF P

\* The names of fields.
FieldNames ==
    {StateFields[i] : i \in 1 .. 5} \cup {EventFields[i] : i \in 1 .. 11}
    \cup {TextFields[i] : i \in 1 .. 2}

\* The fields of a list, one item behind the other.
LEMMA AllFieldsFact ==
    ASSUME NEW names \in Seq(FieldNames), NEW T, NEW list \in Seq(T)
    PROVE  /\ AllFields(names, list) \in Seq(FieldNames \X T)
           /\ Len(AllFields(names, list)) = Len(list) * Len(names)
           /\ \A l \in 1 .. Len(list), j \in 1 .. Len(names) :
                AllFields(names, list)[(l - 1) * Len(names) + j] = <<names[j], list[l]>>
<1> DEFINE V == FieldNames \X T
           seqs == [i \in DOMAIN list |-> Fields(names, list[i])]
           w == Len(names)
<1>1. /\ w \in Nat /\ DOMAIN names = 1 .. w
      /\ Len(list) \in Nat /\ DOMAIN list = 1 .. Len(list)
      /\ \A i \in 1 .. Len(list) : list[i] \in T
      /\ \A j \in 1 .. w : names[j] \in FieldNames
  BY LenProperties, ElementOfSeq
<1> HIDE DEF w
<1>2. ASSUME NEW i \in 1 .. Len(list)
      PROVE  /\ Fields(names, list[i]) \in Seq(V) /\ Len(Fields(names, list[i])) = w
             /\ \A j \in 1 .. w : Fields(names, list[i])[j] = <<names[j], list[i]>>
  <2>1. Fields(names, list[i]) = [j \in 1 .. w |-> <<names[j], list[i]>>]
    BY <1>1 DEF Fields
  <2>2. \A j \in 1 .. w : <<names[j], list[i]>> \in V
    BY <1>1
  <2>3. Fields(names, list[i]) \in [1 .. w -> V]
    <3> HIDE DEF V
    <3> QED  BY <2>1, <2>2
  <2>4. Fields(names, list[i]) \in Seq(V) /\ Len(Fields(names, list[i])) = w
    <3> HIDE DEF V
    <3> QED  BY <1>1, <2>3
  <2> QED  BY <2>1, <2>4
<1> HIDE DEF V
<1>3. seqs \in [1 .. Len(list) -> Seq(V)]
  BY <1>1, <1>2
<1>4. /\ seqs \in Seq(Seq(V)) /\ Len(seqs) = Len(list)
      /\ \A i \in 1 .. Len(list) : seqs[i] = Fields(names, list[i])
  BY <1>1, <1>3
<1>5. AllFields(names, list) = FlattenSeq(seqs)
  BY DEF AllFields
<1> HIDE DEF seqs
<1>6. \A i \in 1 .. Len(seqs) : Len(seqs[i]) = w
  BY <1>2, <1>4
<1>7. /\ FlattenSeq(seqs) \in Seq(V)
      /\ Len(FlattenSeq(seqs)) = Len(seqs) * w
      /\ \A l \in 1 .. Len(seqs), j \in 1 .. w :
           FlattenSeq(seqs)[(l - 1) * w + j] = seqs[l][j]
  BY <1>1, <1>4, <1>6, EqualParts
<1>8. \A l \in 1 .. Len(list), j \in 1 .. w :
        FlattenSeq(seqs)[(l - 1) * w + j] = <<names[j], list[l]>>
  BY <1>2, <1>4, <1>7
<1> QED  BY <1>4, <1>5, <1>7, <1>8 DEF V, w

\* The tokens of blobs.
Token == UNION {Texts, {NoText}, BOOLEAN, Nat,
                FieldNames \X Events, FieldNames \X Texts, FieldNames \X {"creature"}}

\* What BlobFollowsLayout says, of any blob.
TokensIn(b, names, n, from) ==
    [k \in 1 .. n |-> SubSeq(b, from + (k - 1) * Len(names),
                                from + k * Len(names) - 1)]

LaidOutAt(b, written, nEvents, atName, nTexts) ==
    LET state == SubSeq(b, 3, nEvents - 1)
        evs   == TokensIn(b, EventFields, b[nEvents], nEvents + 1)
        texts == TokensIn(b, TextFields, b[nTexts], nTexts + 1)
    IN  /\ <<b[1], b[2], [k \in DOMAIN evs |-> evs[k][1][2]],
             b[atName], [k \in DOMAIN texts |-> texts[k][1][2]]>> = written
        /\ b[2] => ReadsAs(state, StateFields)
        /\ \A k \in DOMAIN evs : ReadsAs(evs[k], EventFields)
        /\ \A k \in DOMAIN texts : ReadsAs(texts[k], TextFields)
        /\ Len(b) = nTexts + b[nTexts] * Len(TextFields)

LaidOut(b, written) ==
    LET nEvents == IF b[2] THEN 3 + Len(StateFields) ELSE 3
        atName  == nEvents + 1 + b[nEvents] * Len(EventFields)
    IN  LaidOutAt(b, written, nEvents, atName, atName + 1)

\* A list of n items read where its fields are.
LEMMA TokensFact ==
    ASSUME NEW b \in Seq(Token), NEW names \in Seq(FieldNames), Len(names) >= 1,
           NEW T, NEW list \in Seq(T), NEW at \in Nat,
           at + Len(list) * Len(names) <= Len(b),
           \A l \in 1 .. Len(list), j \in 1 .. Len(names) :
              b[((l - 1) * Len(names) + j) + at] = <<names[j], list[l]>>
    PROVE  LET seqs == TokensIn(b, names, Len(list), at + 1)
           IN  /\ [k \in DOMAIN seqs |-> seqs[k][1][2]] = list
               /\ \A k \in DOMAIN seqs : ReadsAs(seqs[k], names)
<1> DEFINE w == Len(names)
           n == Len(list)
           seqs == TokensIn(b, names, n, at + 1)
<1>1. /\ w \in Nat /\ w >= 1 /\ n \in Nat /\ DOMAIN names = 1 .. w
      /\ DOMAIN list = 1 .. n /\ Len(b) \in Nat
      /\ \A i \in 1 .. Len(b) : b[i] \in Token
  BY LenProperties, ElementOfSeq
<1>2. DOMAIN seqs = 1 .. n
  BY DEF TokensIn
<1>3. ASSUME NEW l \in 1 .. n
      PROVE  /\ Len(seqs[l]) = w
             /\ \A j \in 1 .. w : seqs[l][j] = <<names[j], list[l]>>
  <2> DEFINE o == (l - 1) * w
             u == (at + 1) + o
             v == (at + 1) + l * w - 1
  <2>1. l * w = o + w /\ o \in Nat /\ l * w <= n * w /\ n * w \in Nat
    <3> HIDE DEF n, w
    <3>1. l \in Nat /\ l - 1 \in Nat /\ l <= n
      BY <1>1
    <3>2. l * w = (l - 1) * w + w
      BY <1>1, <3>1
    <3>3. /\ (l - 1) * w \in Nat /\ l * w <= n * w /\ n * w \in Nat
      BY <1>1, <3>1, TimesFact
    <3> QED  BY <3>2, <3>3
  <2>2. seqs[l] = SubSeq(b, u, v)
    BY DEF TokensIn
  <2>3. \A j \in 1 .. w : b[(o + j) + at] = <<names[j], list[l]>>
    OBVIOUS
  <2>4. n * w + at <= Len(b)
    <3> DEFINE p == n * w
    <3>1. p \in Nat /\ at + p <= Len(b)
      BY <2>1
    <3> HIDE DEF p
    <3>2. p + at <= Len(b)
      BY <1>1, <3>1
    <3> QED  BY <3>2 DEF p
  <2> DEFINE p == n * w
  <2>5. /\ u \in Int /\ v \in Int /\ u >= 1 /\ v <= Len(b)
        /\ v = u + w - 1
    <3> DEFINE q == l * w
    <3>1. /\ q = o + w /\ o \in Nat /\ q <= p /\ p \in Nat /\ p + at <= Len(b)
          /\ v = (at + 1) + q - 1
      BY <2>1, <2>4
    <3> HIDE DEF o, q, p, v
    <3> QED  BY <1>1, <3>1
  <2>6. u = at + 1 + o
    OBVIOUS
  <2> HIDE DEF o, p, u, v
  <2>7. /\ Len(SubSeq(b, u, v)) = w
        /\ \A j \in 1 .. w : SubSeq(b, u, v)[j] = b[u + j - 1]
    <3>1. \A i \in u .. v : b[i] \in Token
      BY <1>1, <2>5
    <3>2. /\ Len(SubSeq(b, u, v)) = IF u <= v THEN v - u + 1 ELSE 0
          /\ \A i \in 1 .. v - u + 1 : SubSeq(b, u, v)[i] = b[u + i - 1]
      BY <2>5, <3>1, SubSeqProperties
    <3> QED  BY <1>1, <2>5, <3>2
  <2>8. \A j \in 1 .. w : u + j - 1 = (o + j) + at
    BY <2>1, <2>6
  <2> QED  BY <2>2, <2>3, <2>7, <2>8
<1> HIDE DEF seqs, n, w
<1>4. \A l \in 1 .. n : seqs[l][1][2] = list[l] /\ ReadsAs(seqs[l], names)
  <2>1. \A l \in 1 .. n : seqs[l][1] = <<names[1], list[l]>>
    <3>1. 1 \in 1 .. w
      BY <1>1
    <3> QED  BY <1>3, <3>1
  <2> QED  BY <1>1, <1>3, <2>1 DEF ReadsAs, w
<1>5. [k \in DOMAIN seqs |-> seqs[k][1][2]] = list
  <2>1. list = [k \in 1 .. n |-> list[k]]
    BY <1>1
  <2> QED  BY <1>2, <1>4, <2>1
<1> QED  BY <1>2, <1>4, <1>5 DEF seqs, n

LEMMA OneFact ==
    ASSUME NEW S, NEW x \in S
    PROVE  <<x>> \in Seq(S) /\ Len(<<x>>) = 1 /\ <<x>>[1] = x
OBVIOUS

LEMMA FieldNamesFact ==
    /\ StateFields \in Seq(FieldNames) /\ Len(StateFields) = 5
    /\ EventFields \in Seq(FieldNames) /\ Len(EventFields) = 11
    /\ TextFields \in Seq(FieldNames) /\ Len(TextFields) = 2
<1>1. StateFields = [i \in 1 .. 5 |-> StateFields[i]]
  BY DEF StateFields
<1>2. EventFields = [i \in 1 .. 11 |-> EventFields[i]]
  BY DEF EventFields
<1>3. TextFields = [i \in 1 .. 2 |-> TextFields[i]]
  BY DEF TextFields
<1>4. StateFields \in Seq(FieldNames) /\ Len(StateFields) = 5
  BY <1>1 DEF FieldNames
<1>5. EventFields \in Seq(FieldNames) /\ Len(EventFields) = 11
  BY <1>2 DEF FieldNames
<1>6. TextFields \in Seq(FieldNames) /\ Len(TextFields) = 2
  BY <1>3 DEF FieldNames
<1> QED  BY <1>4, <1>5, <1>6

StateTokensOf(h) ==
    IF h THEN <<TRUE>> \o Fields(StateFields, "creature") ELSE <<FALSE>>

SerialisationOf(m, h, e, n, u) ==
    <<m>> \o StateTokensOf(h) \o <<Len(e)>> \o AllFields(EventFields, e)
    \o <<n>> \o <<Len(u)>> \o AllFields(TextFields, u)

LEMMA StateTokensFact ==
    ASSUME NEW h \in BOOLEAN
    PROVE  /\ StateTokensOf(h) \in Seq(Token)
           /\ Len(StateTokensOf(h)) = IF h THEN 6 ELSE 1
           /\ StateTokensOf(h)[1] = h
           /\ h => \A i \in 1 .. 5 :
                     StateTokensOf(h)[i + 1] = <<StateFields[i], "creature">>
<1> DEFINE f == Fields(StateFields, "creature")
<1>1. f \in Seq(Token) /\ Len(f) = 5
      /\ \A i \in 1 .. 5 : f[i] = <<StateFields[i], "creature">>
  <2>1. /\ DOMAIN StateFields = 1 .. 5
        /\ \A i \in 1 .. 5 : StateFields[i] \in FieldNames
    BY FieldNamesFact, LenProperties, ElementOfSeq
  <2>2. f = [i \in 1 .. 5 |-> <<StateFields[i], "creature">>]
    BY <2>1 DEF Fields
  <2>3. \A i \in 1 .. 5 : <<StateFields[i], "creature">> \in Token
    BY <2>1 DEF Token
  <2>4. f \in [1 .. 5 -> Token]
    BY <2>2, <2>3
  <2>5. f \in Seq(Token) /\ Len(f) = 5
    <3> HIDE DEF f
    <3> QED  BY <2>4
  <2> QED  BY <2>2, <2>5
<1> HIDE DEF f
<1>2. h \in Token
  BY DEF Token
<1>3. CASE h
  <2> DEFINE s == <<h>>
             r == s \o f
  <2>1. s \in Seq(Token) /\ Len(s) = 1 /\ s[1] = h
    BY <1>2, OneFact
  <2>0. h = TRUE
    BY <1>3
  <2>a. s = <<TRUE>>
    BY <2>0
  <2> HIDE DEF s
  <2>2. r \in Seq(Token) /\ Joins(r, s, f)
    BY <1>1, <2>1, JoinFact
  <2>3. StateTokensOf(h) = r
    BY <1>3, <2>a DEF StateTokensOf, f
  <2> HIDE DEF r
  <2>4. Len(r) = 6 /\ r[1] = h /\ \A i \in 1 .. 5 : r[i + 1] = f[i]
    BY <1>1, <2>1, <2>2 DEF Joins
  <2> QED  BY <1>1, <1>3, <2>2, <2>3, <2>4
<1>4. CASE ~h
  <2>1. h = FALSE
    BY <1>4
  <2>2. StateTokensOf(h) = <<FALSE>> /\ <<h>> = <<FALSE>>
    BY <1>4, <2>1 DEF StateTokensOf
  <2>3. StateTokensOf(h) = <<h>>
    BY <2>2
  <2> QED  BY <1>2, <1>4, <2>3, OneFact
<1> QED  BY <1>3, <1>4

\* Where everything is in a blob.
BlobIs(b, m, h, e, n, u) ==
    LET a == IF h THEN 7 ELSE 2
        E == Len(e) * 11
        U == Len(u) * 2
    IN  /\ b \in Seq(Token) /\ Len(b) = a + E + U + 3
        /\ b[1] = m /\ b[2] = h /\ b[a + 1] = Len(e)
        /\ b[a + E + 2] = n /\ b[a + E + 3] = Len(u)
        /\ h => \A i \in 1 .. 5 : b[i + 2] = <<StateFields[i], "creature">>
        /\ \A l \in 1 .. Len(e), j \in 1 .. 11 :
             b[((l - 1) * 11 + j) + (a + 1)] = <<EventFields[j], e[l]>>
        /\ \A l \in 1 .. Len(u), j \in 1 .. 2 :
             b[((l - 1) * 2 + j) + (a + E + 3)] = <<TextFields[j], u[l]>>

LEMMA BlobFact ==
    ASSUME NEW m \in Texts \cup {NoText}, NEW h \in BOOLEAN,
           NEW e \in Seq(Events), NEW n \in Texts \cup {NoText}, NEW u \in Seq(Texts)
    PROVE  BlobIs(SerialisationOf(m, h, e, n, u), m, h, e, n, u)
<1> DEFINE a == IF h THEN 7 ELSE 2
           E == Len(e) * 11
           U == Len(u) * 2
           c1 == <<m>>
           st == StateTokensOf(h)
           c2 == <<Len(e)>>
           fe == AllFields(EventFields, e)
           c3 == <<n>>
           c4 == <<Len(u)>>
           fu == AllFields(TextFields, u)
           b1 == c1 \o st
           b2 == b1 \o c2
           b3 == b2 \o fe
           b4 == b3 \o c3
           b5 == b4 \o c4
           b6 == b5 \o fu
<1>1. Len(e) \in Nat /\ Len(u) \in Nat
  OBVIOUS
<1>2. /\ c1 \in Seq(Token) /\ Len(c1) = 1 /\ c1[1] = m
      /\ c2 \in Seq(Token) /\ Len(c2) = 1 /\ c2[1] = Len(e)
      /\ c3 \in Seq(Token) /\ Len(c3) = 1 /\ c3[1] = n
      /\ c4 \in Seq(Token) /\ Len(c4) = 1 /\ c4[1] = Len(u)
  <2>1. m \in Token /\ n \in Token /\ Len(e) \in Token /\ Len(u) \in Token
    BY <1>1 DEF Token
  <2> QED  BY <2>1, OneFact
<1>0. a - 1 = IF h THEN 6 ELSE 1
  OBVIOUS
<1>3. /\ st \in Seq(Token) /\ Len(st) = a - 1 /\ st[1] = h
      /\ h => \A i \in 1 .. 5 : st[i + 1] = <<StateFields[i], "creature">>
  <2> HIDE DEF a
  <2> QED  BY <1>0, StateTokensFact
<1>4. /\ fe \in Seq(Token) /\ Len(fe) = E /\ E \in Nat
      /\ \A l \in 1 .. Len(e), j \in 1 .. 11 :
           fe[(l - 1) * 11 + j] = <<EventFields[j], e[l]>>
  <2>1. /\ fe \in Seq(FieldNames \X Events) /\ Len(fe) = Len(e) * 11
        /\ \A l \in 1 .. Len(e), j \in 1 .. 11 :
             fe[(l - 1) * 11 + j] = <<EventFields[j], e[l]>>
    <3>1. /\ fe \in Seq(FieldNames \X Events) /\ Len(fe) = Len(e) * Len(EventFields)
          /\ \A l \in 1 .. Len(e), j \in 1 .. Len(EventFields) :
               fe[(l - 1) * Len(EventFields) + j] = <<EventFields[j], e[l]>>
      BY FieldNamesFact, AllFieldsFact
    <3> HIDE DEF fe
    <3> QED  BY <3>1, FieldNamesFact
  <2>2. FieldNames \X Events \subseteq Token
    BY DEF Token
  <2> HIDE DEF fe
  <2>3. fe \in Seq(Token)
    <3>1. /\ Len(fe) \in Nat /\ fe = [i \in 1 .. Len(fe) |-> fe[i]]
          /\ \A i \in 1 .. Len(fe) : fe[i] \in FieldNames \X Events
      BY <2>1, LenProperties, ElementOfSeq
    <3> QED  BY <2>2, <3>1
  <2>4. E \in Nat
    BY <1>1
  <2> QED  BY <2>1, <2>3, <2>4
<1>5. /\ fu \in Seq(Token) /\ Len(fu) = U /\ U \in Nat
      /\ \A l \in 1 .. Len(u), j \in 1 .. 2 :
           fu[(l - 1) * 2 + j] = <<TextFields[j], u[l]>>
  <2>1. /\ fu \in Seq(FieldNames \X Texts) /\ Len(fu) = Len(u) * 2
        /\ \A l \in 1 .. Len(u), j \in 1 .. 2 :
             fu[(l - 1) * 2 + j] = <<TextFields[j], u[l]>>
    <3>1. /\ fu \in Seq(FieldNames \X Texts) /\ Len(fu) = Len(u) * Len(TextFields)
          /\ \A l \in 1 .. Len(u), j \in 1 .. Len(TextFields) :
               fu[(l - 1) * Len(TextFields) + j] = <<TextFields[j], u[l]>>
      BY FieldNamesFact, AllFieldsFact
    <3> HIDE DEF fu
    <3> QED  BY <3>1, FieldNamesFact
  <2>2. FieldNames \X Texts \subseteq Token
    BY DEF Token
  <2> HIDE DEF fu
  <2>3. fu \in Seq(Token)
    <3>1. /\ Len(fu) \in Nat /\ fu = [i \in 1 .. Len(fu) |-> fu[i]]
          /\ \A i \in 1 .. Len(fu) : fu[i] \in FieldNames \X Texts
      BY <2>1, LenProperties, ElementOfSeq
    <3> QED  BY <2>2, <3>1
  <2> QED  BY <1>1, <2>1, <2>3
<1>6. SerialisationOf(m, h, e, n, u) = b6
  BY DEF SerialisationOf
<1>7. \A l \in 1 .. Len(e), j \in 1 .. 11 : (l - 1) * 11 + j \in 1 .. E
  BY <1>1
<1>8. \A l \in 1 .. Len(u), j \in 1 .. 2 : (l - 1) * 2 + j \in 1 .. U
  BY <1>1
<1>9. a \in {2, 7} /\ (h => a = 7)
  OBVIOUS
<1> HIDE DEF a, E, U, c1, st, c2, fe, c3, c4, fu, b1, b2, b3, b4, b5, b6
<1>10. b1 \in Seq(Token) /\ Joins(b1, c1, st)
  BY <1>2, <1>3, JoinFact DEF b1
<1>11. b2 \in Seq(Token) /\ Joins(b2, b1, c2)
  BY <1>2, <1>10, JoinFact DEF b2
<1>12. b3 \in Seq(Token) /\ Joins(b3, b2, fe)
  BY <1>4, <1>11, JoinFact DEF b3
<1>13. b4 \in Seq(Token) /\ Joins(b4, b3, c3)
  BY <1>2, <1>12, JoinFact DEF b4
<1>14. b5 \in Seq(Token) /\ Joins(b5, b4, c4)
  BY <1>2, <1>13, JoinFact DEF b5
<1>15. b6 \in Seq(Token) /\ Joins(b6, b5, fu)
  BY <1>5, <1>14, JoinFact DEF b6
<1>16. /\ Len(b1) = a /\ b1[1] = m /\ b1[2] = h
       /\ h => \A i \in 1 .. 5 : b1[i + 2] = <<StateFields[i], "creature">>
  <2>1. Len(b1) = a /\ b1[1] = m /\ b1[1 + 1] = h
    BY <1>2, <1>3, <1>9, <1>10 DEF Joins
  <2>2. ASSUME h, NEW i \in 1 .. 5 PROVE b1[i + 2] = <<StateFields[i], "creature">>
    <3>1. i + 1 \in 1 .. Len(st) /\ (i + 1) + 1 = i + 2 /\ Len(c1) = 1
      BY <1>2, <1>3, <1>9, <2>2
    <3>2. b1[(i + 1) + 1] = st[i + 1]
      BY <1>10, <3>1 DEF Joins
    <3> QED  BY <1>3, <2>2, <3>1, <3>2
  <2> QED  BY <2>1, <2>2
<1>17. Len(b2) = a + 1 /\ b2[a + 1] = Len(e) /\ \A i \in 1 .. a : b2[i] = b1[i]
  <2>1. Len(b1) = a /\ Len(c2) = 1 /\ 1 \in 1 .. Len(c2) /\ 1 + a = a + 1
    <3>1. Len(b1) = a
      BY <1>16
    <3>2. Len(c2) = 1
      BY <1>2
    <3> QED  BY <1>9, <3>1, <3>2
  <2>2. Len(b2) = a + 1 /\ b2[1 + a] = c2[1] /\ \A i \in 1 .. a : b2[i] = b1[i]
    BY <1>11, <2>1 DEF Joins
  <2> QED  BY <1>2, <2>1, <2>2
<1>18. /\ Len(b3) = a + 1 + E /\ \A i \in 1 .. a + 1 : b3[i] = b2[i]
       /\ \A i \in 1 .. E : b3[i + (a + 1)] = fe[i]
  BY <1>4, <1>9, <1>12, <1>17 DEF Joins
<1>19. /\ Len(b4) = a + E + 2 /\ b4[a + E + 2] = n
       /\ \A i \in 1 .. a + 1 + E : b4[i] = b3[i]
  <2> DEFINE o == a + 1 + E
  <2>1. Len(b3) = o /\ Len(c3) = 1 /\ 1 \in 1 .. Len(c3) /\ o \in Nat
    <3>1. Len(c3) = 1
      BY <1>2
    <3> QED  BY <1>4, <1>9, <1>18, <3>1
  <2>2. o + 1 = a + E + 2 /\ 1 + o = o + 1
    BY <1>4, <1>9
  <2> HIDE DEF o
  <2>3. Len(b4) = o + 1 /\ b4[1 + o] = c3[1] /\ \A i \in 1 .. o : b4[i] = b3[i]
    BY <1>13, <2>1 DEF Joins
  <2>4. c3[1] = n
    BY <1>2
  <2>5. Len(b4) = a + E + 2 /\ b4[a + E + 2] = n
    BY <2>2, <2>3, <2>4
  <2> QED  BY <2>3, <2>5 DEF o
<1>20. /\ Len(b5) = a + E + 3 /\ b5[a + E + 3] = Len(u)
       /\ \A i \in 1 .. a + E + 2 : b5[i] = b4[i]
  <2> DEFINE o == a + E + 2
  <2>1. Len(b4) = o /\ Len(c4) = 1 /\ 1 \in 1 .. Len(c4) /\ o \in Nat
    <3>1. Len(c4) = 1
      BY <1>2
    <3> QED  BY <1>4, <1>9, <1>19, <3>1
  <2>2. o + 1 = a + E + 3 /\ 1 + o = o + 1
    BY <1>4, <1>9
  <2> HIDE DEF o
  <2>3. Len(b5) = o + 1 /\ b5[1 + o] = c4[1] /\ \A i \in 1 .. o : b5[i] = b4[i]
    BY <1>14, <2>1 DEF Joins
  <2>4. c4[1] = Len(u)
    BY <1>2
  <2>5. Len(b5) = a + E + 3 /\ b5[a + E + 3] = Len(u)
    BY <2>2, <2>3, <2>4
  <2> QED  BY <2>3, <2>5 DEF o
<1>21. /\ Len(b6) = a + E + U + 3
       /\ \A i \in 1 .. a + E + 3 : b6[i] = b5[i]
       /\ \A i \in 1 .. U : b6[i + (a + E + 3)] = fu[i]
  BY <1>4, <1>5, <1>9, <1>15, <1>20 DEF Joins
<1>22. \A i \in 1 .. a : b6[i] = b1[i]
  BY <1>4, <1>9, <1>17, <1>18, <1>19, <1>20, <1>21
<1>23. /\ b6[1] = m /\ b6[2] = h
       /\ h => \A i \in 1 .. 5 : b6[i + 2] = <<StateFields[i], "creature">>
  <2>1. 1 \in 1 .. a /\ 2 \in 1 .. a /\ (h => \A i \in 1 .. 5 : i + 2 \in 1 .. a)
    BY <1>9
  <2>2. b6[1] = m /\ b6[2] = h
    BY <1>16, <1>22, <2>1
  <2>3. ASSUME h, NEW i \in 1 .. 5 PROVE b6[i + 2] = <<StateFields[i], "creature">>
    <3>1. i + 2 \in 1 .. a
      BY <2>1, <2>3
    <3> QED  BY <1>16, <1>22, <2>3, <3>1
  <2> QED  BY <2>2, <2>3
<1>24. b6[a + 1] = Len(e) /\ b6[a + E + 2] = n /\ b6[a + E + 3] = Len(u)
  BY <1>4, <1>9, <1>17, <1>18, <1>19, <1>20, <1>21
<1>25. \A i \in 1 .. E : b6[i + (a + 1)] = fe[i]
  <2> SUFFICES ASSUME NEW i \in 1 .. E PROVE b6[i + (a + 1)] = fe[i]
    OBVIOUS
  <2> DEFINE k == i + (a + 1)
  <2>1. /\ k \in 1 .. a + E + 3 /\ k \in 1 .. a + E + 2 /\ k \in 1 .. a + 1 + E
    BY <1>4, <1>9
  <2>2. b3[k] = fe[i]
    BY <1>18
  <2> HIDE DEF k
  <2>3. b6[k] = fe[i]
    BY <1>19, <1>20, <1>21, <2>1, <2>2
  <2> QED  BY <2>3 DEF k
<1>26. \A l \in 1 .. Len(e), j \in 1 .. 11 :
         b6[((l - 1) * 11 + j) + (a + 1)] = <<EventFields[j], e[l]>>
  BY <1>4, <1>7, <1>25
<1>27. \A l \in 1 .. Len(u), j \in 1 .. 2 :
         b6[((l - 1) * 2 + j) + (a + E + 3)] = <<TextFields[j], u[l]>>
  BY <1>5, <1>8, <1>21
<1> QED  BY <1>6, <1>15, <1>21, <1>23, <1>24, <1>26, <1>27 DEF a, E, U, BlobIs

\* A blob is laid out as its readers expect.
LEMMA LayoutFact ==
    ASSUME NEW m \in Texts \cup {NoText}, NEW h \in BOOLEAN,
           NEW e \in Seq(Events), NEW n \in Texts \cup {NoText}, NEW u \in Seq(Texts)
    PROVE  LaidOut(SerialisationOf(m, h, e, n, u), <<m, h, e, n, u>>)
<1> DEFINE b == SerialisationOf(m, h, e, n, u)
           a == IF h THEN 7 ELSE 2
           E == Len(e) * 11
           U == Len(u) * 2
<1>1. /\ b \in Seq(Token) /\ Len(b) = a + E + U + 3
      /\ b[1] = m /\ b[2] = h /\ b[a + 1] = Len(e)
      /\ b[a + E + 2] = n /\ b[a + E + 3] = Len(u)
      /\ h => \A i \in 1 .. 5 : b[i + 2] = <<StateFields[i], "creature">>
      /\ \A l \in 1 .. Len(e), j \in 1 .. 11 :
           b[((l - 1) * 11 + j) + (a + 1)] = <<EventFields[j], e[l]>>
      /\ \A l \in 1 .. Len(u), j \in 1 .. 2 :
           b[((l - 1) * 2 + j) + (a + E + 3)] = <<TextFields[j], u[l]>>
  <2>1. BlobIs(b, m, h, e, n, u)
    BY BlobFact
  <2> HIDE DEF b
  <2> QED  BY <2>1 DEF BlobIs
<1>2. /\ Len(e) \in Nat /\ Len(u) \in Nat /\ E \in Nat /\ U \in Nat
      /\ a \in {2, 7} /\ (h => a = 7)
  OBVIOUS
<1> DEFINE evs == TokensIn(b, EventFields, Len(e), (a + 1) + 1)
           texts == TokensIn(b, TextFields, Len(u), (a + E + 3) + 1)
<1>3. /\ [k \in DOMAIN evs |-> evs[k][1][2]] = e
      /\ \A k \in DOMAIN evs : ReadsAs(evs[k], EventFields)
  <2> DEFINE at == a + 1
  <2>1. at \in Nat /\ at + Len(e) * 11 <= Len(b)
    BY <1>1, <1>2
  <2>2. \A l \in 1 .. Len(e), j \in 1 .. 11 :
          b[((l - 1) * 11 + j) + at] = <<EventFields[j], e[l]>>
    BY <1>1
  <2> HIDE DEF b, at
  <2>4. /\ Len(EventFields) >= 1 /\ at + Len(e) * Len(EventFields) <= Len(b)
        /\ \A l \in 1 .. Len(e), j \in 1 .. Len(EventFields) :
             b[((l - 1) * Len(EventFields) + j) + at] = <<EventFields[j], e[l]>>
    <3>1. Len(EventFields) = 11
      BY FieldNamesFact
    <3> HIDE DEF E, a
    <3>2. at + Len(e) * Len(EventFields) <= Len(b)
      BY <2>1, <3>1
    <3>3. \A l \in 1 .. Len(e), j \in 1 .. Len(EventFields) :
             b[((l - 1) * Len(EventFields) + j) + at] = <<EventFields[j], e[l]>>
      BY <2>2, <3>1, Zenon
    <3>4. Len(EventFields) >= 1
      BY <3>1
    <3> QED  BY <3>2, <3>3, <3>4, Zenon
  <2>3. LET seqs == TokensIn(b, EventFields, Len(e), at + 1)
        IN  /\ [k \in DOMAIN seqs |-> seqs[k][1][2]] = e
            /\ \A k \in DOMAIN seqs : ReadsAs(seqs[k], EventFields)
    BY <1>1, <2>1, <2>4, FieldNamesFact, TokensFact
  <2> QED  BY <2>3 DEF at
<1>4. /\ [k \in DOMAIN texts |-> texts[k][1][2]] = u
      /\ \A k \in DOMAIN texts : ReadsAs(texts[k], TextFields)
  <2> DEFINE at == a + E + 3
  <2>1. at \in Nat /\ at + Len(u) * 2 <= Len(b)
    BY <1>1, <1>2
  <2>2. \A l \in 1 .. Len(u), j \in 1 .. 2 :
          b[((l - 1) * 2 + j) + at] = <<TextFields[j], u[l]>>
    BY <1>1
  <2> HIDE DEF b, at
  <2>4. /\ Len(TextFields) >= 1 /\ at + Len(u) * Len(TextFields) <= Len(b)
        /\ \A l \in 1 .. Len(u), j \in 1 .. Len(TextFields) :
             b[((l - 1) * Len(TextFields) + j) + at] = <<TextFields[j], u[l]>>
    <3>1. Len(TextFields) = 2
      BY FieldNamesFact
    <3> QED  BY <2>1, <2>2, <3>1
  <2>3. LET seqs == TokensIn(b, TextFields, Len(u), at + 1)
        IN  /\ [k \in DOMAIN seqs |-> seqs[k][1][2]] = u
            /\ \A k \in DOMAIN seqs : ReadsAs(seqs[k], TextFields)
    BY <1>1, <2>1, <2>4, FieldNamesFact, TokensFact
  <2> QED  BY <2>3 DEF at
<1>5. h => ReadsAs(SubSeq(b, 3, 7), StateFields)
  <2> SUFFICES ASSUME h PROVE ReadsAs(SubSeq(b, 3, 7), StateFields)
    OBVIOUS
  <2>1. Len(b) >= 7 /\ Len(b) \in Nat
    <3>1. Len(b) = 7 + E + U + 3
      BY <1>1
    <3> HIDE DEF b, E, U
    <3> QED  BY <1>2, <3>1
  <2>0. \A i \in 1 .. 5 : b[i + 2] = <<StateFields[i], "creature">>
    BY <1>1
  <2> HIDE DEF b
  <2>2. \A i \in 3 .. 7 : b[i] \in Token
    BY <1>1, <2>1, ElementOfSeq
  <2>3. /\ Len(SubSeq(b, 3, 7)) = 5
        /\ \A i \in 1 .. 5 : SubSeq(b, 3, 7)[i] = b[i + 2]
    <3>1. /\ Len(SubSeq(b, 3, 7)) = IF 3 <= 7 THEN 7 - 3 + 1 ELSE 0
          /\ \A i \in 1 .. 7 - 3 + 1 : SubSeq(b, 3, 7)[i] = b[3 + i - 1]
      BY <2>2, SubSeqProperties
    <3>2. \A i \in 1 .. 5 : 3 + i - 1 = i + 2
      OBVIOUS
    <3> QED  BY <3>1, <3>2
  <2>4. DOMAIN StateFields = 1 .. 5
    BY FieldNamesFact
  <2> DEFINE r == SubSeq(b, 3, 7)
  <2>5. Len(r) = 5 /\ \A i \in 1 .. 5 : r[i] = <<StateFields[i], "creature">>
    BY <2>0, <2>3
  <2> HIDE DEF r
  <2>6. \A i \in 1 .. 5 : r[i][1] = StateFields[i]
    BY <2>5
  <2>7. ReadsAs(r, StateFields)
    BY <2>4, <2>5, <2>6, FieldNamesFact DEF ReadsAs
  <2> QED  BY <2>7 DEF r
<1>6. /\ (IF b[2] THEN 3 + 5 ELSE 3) = a + 1
      /\ (a + 1) + 1 + Len(e) * 11 = a + E + 2
      /\ (a + E + 2) + 1 = a + E + 3
      /\ h => (a + 1) - 1 = 7
      /\ Len(b) = (a + E + 3) + Len(u) * 2
  <2>1. b[2] = h /\ Len(b) = a + E + U + 3
    BY <1>1
  <2>2. (IF b[2] THEN 3 + 5 ELSE 3) = a + 1
    BY <2>1
  <2>3. Len(e) * 11 = E /\ Len(u) * 2 = U
    OBVIOUS
  <2> HIDE DEF b, a, E, U
  <2> QED  BY <1>2, <2>1, <2>2, <2>3
<1> HIDE DEF b, a, E, U
<1>7. /\ (IF b[2] THEN 3 + Len(StateFields) ELSE 3) = a + 1
      /\ b[a + 1] = Len(e)
      /\ (a + 1) + 1 + b[a + 1] * Len(EventFields) = a + E + 2
      /\ (a + E + 2) + 1 = a + E + 3 /\ b[a + E + 3] = Len(u)
  BY <1>1, <1>6, FieldNamesFact
<1>8. <<b[1], b[2], [k \in DOMAIN evs |-> evs[k][1][2]],
        b[a + E + 2], [k \in DOMAIN texts |-> texts[k][1][2]]>> = <<m, h, e, n, u>>
  BY <1>1, <1>3, <1>4
<1>9. b[2] => ReadsAs(SubSeq(b, 3, (a + 1) - 1), StateFields)
  BY <1>1, <1>5, <1>6
<1>10. Len(b) = (a + E + 3) + b[a + E + 3] * Len(TextFields)
  BY <1>1, <1>6, FieldNamesFact
<1>11. /\ evs = TokensIn(b, EventFields, b[a + 1], (a + 1) + 1)
       /\ texts = TokensIn(b, TextFields, b[a + E + 3], (a + E + 3) + 1)
  BY <1>1
<1> HIDE DEF evs, texts
<1>12. LaidOutAt(b, <<m, h, e, n, u>>, a + 1, a + E + 2, a + E + 3)
  <2> DEFINE w == <<m, h, e, n, u>>
             k1 == a + 1
             k2 == a + E + 2
             k3 == a + E + 3
  <2>1. /\ evs = TokensIn(b, EventFields, b[k1], k1 + 1)
        /\ texts = TokensIn(b, TextFields, b[k3], k3 + 1)
        /\ b[2] => ReadsAs(SubSeq(b, 3, k1 - 1), StateFields)
        /\ Len(b) = k3 + b[k3] * Len(TextFields)
        /\ <<b[1], b[2], [k \in DOMAIN evs |-> evs[k][1][2]],
             b[k2], [k \in DOMAIN texts |-> texts[k][1][2]]>> = w
    BY <1>8, <1>9, <1>10, <1>11
  <2> HIDE DEF w, k1, k2, k3
  <2>2. LaidOutAt(b, w, k1, k2, k3)
    BY <1>3, <1>4, <2>1, Zenon DEF LaidOutAt
  <2> QED  BY <2>2 DEF w, k1, k2, k3
<1>13. LaidOut(b, <<m, h, e, n, u>>)
  BY <1>7, <1>12 DEF LaidOut
<1> QED  BY <1>13 DEF b

\* What was written has the types of what can be, and a blob that was built is
\* laid out as its readers expect.
BlobInv ==
    /\ moniker \in Texts \cup {NoText} /\ name \in Texts \cup {NoText}
    /\ haveState \in BOOLEAN
    /\ events \in Seq(Events) /\ userTexts \in Seq(Texts)
    /\ serialised => LaidOut(blob, asWritten)

LEMMA SerialiseFact ==
    ASSUME BlobInv, Serialise
    PROVE  serialised' => LaidOut(blob', asWritten')
<1>1. CASE serialised
  BY <1>1 DEF Serialise, BlobInv
<1>2. CASE ~serialised
  <2>1. blob' = Serialisation /\ asWritten' = historyInput
    BY <1>2 DEF Serialise
  <2>2. Serialisation = SerialisationOf(moniker, haveState, events, name, userTexts)
    BY DEF Serialisation, SerialisationOf, StateTokens, StateTokensOf
  <2>3. LaidOut(SerialisationOf(moniker, haveState, events, name, userTexts),
                <<moniker, haveState, events, name, userTexts>>)
    BY LayoutFact DEF BlobInv
  <2> QED  BY <2>1, <2>2, <2>3 DEF historyInput
<1> QED  BY <1>1, <1>2

\* What is written goes behind what was, and what is built is not touched.
LEMMA WritingKeepsBlob ==
    ASSUME BlobInv, HistoryTransferNext, ~GetAddress, ~GetLength
    PROVE  BlobInv'
<1>1. UNCHANGED Built => UNCHANGED <<serialised, blob, asWritten>>
  BY DEF Built
<1>2. ASSUME UNCHANGED <<serialised, blob, asWritten>>
      PROVE  (serialised => LaidOut(blob, asWritten))'
  BY <1>2 DEF BlobInv
<1>3. ASSUME NEW t \in Texts \cup {NoText}, WriteMoniker(t) \/ WriteName(t)
      PROVE  BlobInv'
  BY <1>1, <1>2, <1>3 DEF WriteMoniker, WriteName, BlobInv
<1>4. ASSUME NEW t \in Texts, WriteUserText(t) PROVE BlobInv'
  BY <1>1, <1>2, <1>4 DEF WriteUserText, BlobInv
<1>5. CASE WriteCreatureHistory
  BY <1>1, <1>2, <1>5 DEF WriteCreatureHistory, BlobInv
<1>6. ASSUME NEW e \in Events, WriteLifeEvent(e) PROVE BlobInv'
  BY <1>1, <1>2, <1>6 DEF WriteLifeEvent, BlobInv
<1> QED  BY <1>3, <1>4, <1>5, <1>6 DEF HistoryTransferNext

\* A reader that follows the layout of the header gets back what had been
\* written when the blob was built, whole and in order, whatever was written and
\* however much of it (Serialise).
THEOREM BlobsFollowLayout == HistoryTransferSpec => []BlobFollowsLayout
<1>1. HistoryTransferInit => BlobInv
  <2> SUFFICES ASSUME HistoryTransferInit PROVE BlobInv
    OBVIOUS
  <2>1. /\ moniker = NoText /\ name = NoText /\ haveState = FALSE
        /\ events = <<>> /\ userTexts = <<>> /\ serialised = FALSE
    BY DEF HistoryTransferInit
  <2>2. haveState \in BOOLEAN /\ ~serialised
    BY <2>1
  <2>3. events \in Seq(Events) /\ userTexts \in Seq(Texts)
    BY <2>1
  <2> QED  BY <2>1, <2>2, <2>3 DEF BlobInv
<1>2. ASSUME BlobInv, HistoryTransferNext PROVE BlobInv'
  <2>1. CASE GetAddress \/ GetLength
    <3>1. UNCHANGED historyInput
      BY <2>1 DEF GetAddress, GetLength
    <3>2. UNCHANGED <<moniker, haveState, events, name, userTexts>>
      BY <3>1 DEF historyInput
    <3>3. UNCHANGED <<serialised, blob, asWritten>> \/ Serialise
      BY <2>1 DEF GetAddress, GetLength
    <3>4. serialised' => LaidOut(blob', asWritten')
      BY <1>2, <3>3, SerialiseFact DEF BlobInv
    <3> QED  BY <1>2, <3>2, <3>4 DEF BlobInv
  <2>2. CASE ~GetAddress /\ ~GetLength
    BY <1>2, <2>2, WritingKeepsBlob
  <2> QED  BY <2>1, <2>2
<1>3. ASSUME BlobInv, UNCHANGED historyTransferVars PROVE BlobInv'
  BY <1>3 DEF BlobInv, historyTransferVars, historyInput
<1>4. BlobInv => BlobFollowsLayout
  <2> SUFFICES ASSUME serialised, LaidOut(blob, asWritten) PROVE BlobFollowsLayout
    BY DEF BlobInv, BlobFollowsLayout
  <2> QED  BY DEF LaidOut, LaidOutAt, TokensIn, BlobFollowsLayout, TokensOf
<1> QED  BY <1>1, <1>2, <1>3, <1>4, PTL DEF HistoryTransferSpec

-----------------------------------------------------------------------------
(* The names of spool files.                                               *)

Chars == Range(Digits) \cup {"+", "-", ".", "T", "warp"}

LEMMA DigitsFact ==
    /\ Digits \in Seq(Range(Digits)) /\ Len(Digits) \in Nat /\ Len(Digits) > 1
    /\ DOMAIN Digits = 1 .. Len(Digits)
    /\ \A i \in 1 .. Len(Digits) : Digits[i] \in Range(Digits)
    /\ \A i, j \in 1 .. Len(Digits) : Digits[i] = Digits[j] => i = j
    /\ \A c \in Range(Digits) : c # "+" /\ c # "-" /\ c # "."
<1>1. Digits \in Seq(Range(Digits)) /\ Len(Digits) > 1
  BY NamesAssumption
<1>2. Len(Digits) \in Nat /\ DOMAIN Digits = 1 .. Len(Digits)
  BY <1>1, LenProperties
<1>3. \A i \in 1 .. Len(Digits) : Digits[i] \in Range(Digits)
  BY <1>2 DEF Range
<1>4. \A i, j \in 1 .. Len(Digits) : Digits[i] = Digits[j] => i = j
  BY <1>2, NamesAssumption
<1>5. \A c \in Range(Digits) : c # "+" /\ c # "-" /\ c # "."
  BY NamesAssumption
<1> QED  BY <1>1, <1>2, <1>3, <1>4, <1>5

\* A character that is at one place only is found there, from either end.
LEMMA PlaceFact ==
    ASSUME NEW char, NEW text, NEW k \in Int, k \in 1 .. Len(text),
           text[k] = char, \A i \in 1 .. Len(text) : text[i] = char => i = k
    PROVE  PlaceOf(char, text) = k /\ LastPlaceOf(char, text) = k
<1> DEFINE I == {i \in 1 .. Len(text) : text[i] = char}
<1>1. I = {k}
  OBVIOUS
<1>2. PlaceOf(char, text) = (IF I # {} THEN Min(I) ELSE 0)
  BY DEF PlaceOf, SelectInSeq
<1>3. LastPlaceOf(char, text) = (IF I # {} THEN Max(I) ELSE 0)
  BY DEF LastPlaceOf, SelectLastInSeq
<1> HIDE DEF I
<1>4. Min(I) = k /\ Max(I) = k
  <2>1. Min({k}) = k
    BY DEF Min
  <2>2. Max({k}) = k
    BY DEF Max
  <2> QED  BY <1>1, <2>1, <2>2
<1> QED  BY <1>1, <1>2, <1>3, <1>4

\* A character that is not there is at no place.
LEMMA NoPlaceFact ==
    ASSUME NEW char, NEW text, \A i \in 1 .. Len(text) : text[i] # char
    PROVE  PlaceOf(char, text) = 0
BY DEF PlaceOf, SelectInSeq

LEMMA DigitFact ==
    ASSUME NEW k \in 1 .. Len(Digits)
    PROVE  DigitOf(Digits[k]) = k - 1
<1>1. k \in Int /\ \A i \in 1 .. Len(Digits) : Digits[i] = Digits[k] => i = k
  BY DigitsFact
<1>2. PlaceOf(Digits[k], Digits) = k
  BY <1>1, PlaceFact
<1> QED  BY <1>2 DEF DigitOf

LEMMA DigitRange == \A c \in Range(Digits) : DigitOf(c) \in Nat
<1> SUFFICES ASSUME NEW c \in Range(Digits) PROVE DigitOf(c) \in Nat
  OBVIOUS
<1>1. PICK k \in 1 .. Len(Digits) : c = Digits[k]
  BY DigitsFact DEF Range
<1> QED  BY <1>1, DigitFact, DigitsFact

\* The values of the beginnings of a text of digits.
Values(g, text) ==
    /\ g \in [0 .. Len(text) -> Nat] /\ g[0] = 0
    /\ \A i \in 1 .. Len(text) :
         g[i] = g[i - 1] * Len(Digits) + DigitOf(text[i])

LEMMA ValuesExist ==
    ASSUME NEW text \in Seq(Range(Digits))
    PROVE  \E g : Values(g, text)
<1> DEFINE m == Len(text)
           base == Len(Digits)
           step == [x \in Nat \X (1 .. m) |-> x[1] * base + DigitOf(text[x[2]])]
<1>1. m \in Nat /\ base \in Nat /\ \A i \in 1 .. m : DigitOf(text[i]) \in Nat
  <2>1. \A i \in 1 .. m : text[i] \in Range(Digits)
    BY ElementOfSeq
  <2> QED  BY <2>1, DigitRange, DigitsFact, LenProperties
<1>2. \A v \in Nat, i \in 1 .. m : v * base + DigitOf(text[i]) \in Nat
  <2> HIDE DEF base, m
  <2> QED  BY <1>1
<1>3. step \in [Nat \X (1 .. m) -> Nat]
  BY <1>2
<1>4. PICK g \in [0 .. m -> Nat] : Runs(g, m, 0, step)
  <2> HIDE DEF step, m
  <2> QED  BY <1>1, <1>3, RecursionExists
<1>5. ASSUME NEW i \in 1 .. m PROVE g[i] = g[i - 1] * base + DigitOf(text[i])
  <2>1. g[i - 1] \in Nat /\ g[i] = step[<<g[i - 1], i>>]
    <3>1. i - 1 \in 0 .. m
      BY <1>1
    <3> QED  BY <1>4, <3>1 DEF Runs
  <2> QED  BY <2>1
<1> QED  BY <1>4, <1>5 DEF Values, Runs

LEMMA ValueFact ==
    ASSUME NEW text \in Seq(Range(Digits)), NEW g, Values(g, text)
    PROVE  ValueOf(text) = g[Len(text)]
<1> DEFINE m == Len(text)
           Rec(h) == [i \in 0 .. Len(text) |->
                        IF i = 0 THEN 0 ELSE h[i - 1] * Len(Digits) + DigitOf(text[i])]
           f == CHOOSE h : h = Rec(h)
<1>1. m \in Nat /\ \A i \in 0 .. m : i = 0 \/ i \in 1 .. m
  BY LenProperties
<1>2. \A i \in 0 .. m : g[i] = Rec(g)[i]
  BY <1>1 DEF Values
<1>3. g = Rec(g)
  <2>1. Rec(g) = [i \in 0 .. m |-> Rec(g)[i]] /\ g = [i \in 0 .. m |-> g[i]]
    BY DEF Values
  <2> HIDE DEF Rec
  <2> QED  BY <1>2, <2>1
<1>4. f = Rec(f)
  <2> HIDE DEF Rec
  <2> QED  BY <1>3, Zenon
<1>5. ValueOf(text) = f[Len(text)]
  BY DEF ValueOf
<1> HIDE DEF f
<1>6. /\ f[0] = 0
      /\ \A i \in 1 .. m : f[i] = f[i - 1] * Len(Digits) + DigitOf(text[i])
  <2>1. f[0] = 0
    BY <1>1, <1>4
  <2>2. ASSUME NEW i \in 1 .. m
        PROVE  f[i] = f[i - 1] * Len(Digits) + DigitOf(text[i])
    <3>1. i \in 0 .. Len(text) /\ i # 0
      BY <1>1
    <3>2. f[i] = Rec(f)[i]
      BY <1>4
    <3> QED  BY <3>1, <3>2
  <2> QED  BY <2>1, <2>2
<1> DEFINE T == {i \in Nat : i <= m => f[i] = g[i]}
<1>7. 0 \in T
  BY <1>6 DEF Values
<1>8. ASSUME NEW i \in Nat, i \in T PROVE i + 1 \in T
  <2> SUFFICES ASSUME i + 1 <= m PROVE f[i + 1] = g[i + 1]
    OBVIOUS
  <2>1. i + 1 \in 1 .. m /\ (i + 1) - 1 = i /\ f[i] = g[i]
    BY <1>1, <1>8
  <2>2. /\ f[i + 1] = f[i] * Len(Digits) + DigitOf(text[i + 1])
        /\ g[i + 1] = g[i] * Len(Digits) + DigitOf(text[i + 1])
    BY <1>6, <2>1 DEF Values
  <2> QED  BY <2>1, <2>2
<1> HIDE DEF T
<1>9. Nat \subseteq T
  BY <1>7, <1>8, Induction
<1> QED  BY <1>1, <1>5, <1>9 DEF T

\* The value of a text of digits, and of one with a digit more.
LEMMA ValueNat ==
    ASSUME NEW text \in Seq(Range(Digits))
    PROVE  ValueOf(text) \in Nat
<1>1. PICK g : Values(g, text)
  BY ValuesExist
<1>2. ValueOf(text) = g[Len(text)]
  BY <1>1, ValueFact
<1>3. Len(text) \in 0 .. Len(text)
  BY LenProperties
<1> QED  BY <1>1, <1>2, <1>3 DEF Values

LEMMA ValueAppend ==
    ASSUME NEW text \in Seq(Range(Digits)), NEW c \in Range(Digits)
    PROVE  /\ ValueOf(Append(text, c)) = ValueOf(text) * Len(Digits) + DigitOf(c)
           /\ ValueOf(<<>>) = 0
<1> DEFINE longer == Append(text, c)
           n      == Len(text)
<1>1. PICK g : Values(g, longer)
  <2>1. longer \in Seq(Range(Digits))
    BY AppendProperties
  <2> QED  BY <2>1, ValuesExist
<1>2. /\ longer \in Seq(Range(Digits)) /\ Len(longer) = n + 1 /\ n \in Nat
      /\ longer[n + 1] = c /\ \A i \in 1 .. n : longer[i] = text[i]
  BY AppendProperties, LenProperties
<1> HIDE DEF longer
<1>3. ValueOf(longer) = g[n + 1]
  BY <1>1, <1>2, ValueFact
<1> DEFINE f == [i \in 0 .. n |-> g[i]]
<1>4. Values(f, text)
  <2>1. f \in [0 .. n -> Nat]
    <3>1. \A i \in 0 .. n : i \in 0 .. n + 1
      BY <1>2
    <3> QED  BY <1>1, <1>2, <3>1 DEF Values
  <2>2. f[0] = 0
    BY <1>1, <1>2 DEF Values
  <2>3. ASSUME NEW i \in 1 .. n
        PROVE  f[i] = f[i - 1] * Len(Digits) + DigitOf(text[i])
    <3>1. i \in 1 .. n + 1 /\ i \in 0 .. n /\ i - 1 \in 0 .. n
      BY <1>2
    <3>2. g[i] = g[i - 1] * Len(Digits) + DigitOf(longer[i])
      BY <1>1, <1>2, <3>1 DEF Values
    <3>3. longer[i] = text[i] /\ f[i] = g[i] /\ f[i - 1] = g[i - 1]
      BY <1>2, <3>1
    <3> QED  BY <3>2, <3>3
  <2> HIDE DEF f
  <2> QED  BY <2>1, <2>2, <2>3 DEF Values
<1>5. ValueOf(text) = g[n]
  <2>1. ValueOf(text) = f[n] /\ n \in 0 .. n
    <3> HIDE DEF f
    <3> QED  BY <1>2, <1>4, ValueFact
  <2> QED  BY <2>1
<1>6. g[n + 1] = g[n] * Len(Digits) + DigitOf(c)
  <2>1. n + 1 \in 1 .. n + 1 /\ (n + 1) - 1 = n
    BY <1>2
  <2> QED  BY <1>1, <1>2, <2>1 DEF Values
<1>7. ValueOf(<<>>) = 0
  <2>1. Len(<<>>) = 0 /\ <<>> \in Seq(Range(Digits))
    OBVIOUS
  <2>2. PICK h : Values(h, <<>>)
    BY <2>1, ValuesExist
  <2> QED  BY <2>1, <2>2, ValueFact DEF Values
<1> QED  BY <1>3, <1>5, <1>6, <1>7 DEF longer

\* A number without its last digit is smaller.
LEMMA LastDigitFact ==
    ASSUME NEW n \in Nat, NEW base \in Nat, base > 1
    PROVE  /\ n % base \in 0 .. base - 1 /\ n \div base \in Nat
           /\ (n \div base) * base + (n % base) = n
           /\ n >= base => n \div base < n
<1> DEFINE r == n % base
           q == n \div base
<1>1. r \in 0 .. base - 1 /\ q \in Nat /\ q * base + r = n
  OBVIOUS
<1> HIDE DEF r, q
<1>2. ASSUME n >= base PROVE q < n
  <2>1. CASE q = 0
    BY <1>2, <2>1
  <2>2. CASE q > 0
    <3>1. q * base = q * (base - 1) + q /\ q * (base - 1) \in Nat
      BY <1>1
    <3>2. q * (base - 1) = q * (base - 2) + q /\ q * (base - 2) \in Nat
      BY <1>1
    <3> DEFINE x == q * (base - 1)
               y == q * (base - 2)
               z == q * base
    <3>3. z = x + q /\ x = y + q /\ y \in Nat /\ z + r = n
      BY <1>1, <3>1, <3>2
    <3> HIDE DEF x, y, z
    <3> QED  BY <1>1, <2>2, <3>3
  <2> QED  BY <1>1, <2>1, <2>2
<1> QED  BY <1>1, <1>2 DEF r, q

\* The numerals of the numbers up to m.
NumeralFrom(g, i) ==
    IF i < Len(Digits) THEN <<Digits[i + 1]>>
    ELSE Append(g[i \div Len(Digits)], Digits[(i % Len(Digits)) + 1])
Numerals(g, m) ==
    /\ g \in [0 .. m -> Seq(Range(Digits))]
    /\ \A i \in 0 .. m : g[i] = NumeralFrom(g, i)

LEMMA NumeralFromFact ==
    ASSUME NEW i \in Nat, NEW g,
           \A j \in 0 .. i - 1 : g[j] \in Seq(Range(Digits))
    PROVE  NumeralFrom(g, i) \in Seq(Range(Digits))
<1> DEFINE base == Len(Digits)
<1>1. /\ i % base \in 0 .. base - 1 /\ i \div base \in Nat
      /\ i >= base => i \div base < i
  BY DigitsFact, LastDigitFact
<1>2. CASE i < base
  <2>1. i + 1 \in 1 .. base
    BY <1>2, DigitsFact
  <2>2. Digits[i + 1] \in Range(Digits)
    BY <2>1, DigitsFact
  <2> QED  BY <1>2, <2>2 DEF NumeralFrom
<1>3. CASE ~(i < base)
  <2>1. (i % base) + 1 \in 1 .. base /\ i \div base \in 0 .. i - 1
    BY <1>1, <1>3, DigitsFact
  <2>2. /\ Digits[(i % base) + 1] \in Range(Digits)
        /\ g[i \div base] \in Seq(Range(Digits))
    BY <2>1, DigitsFact
  <2>3. Append(g[i \div base], Digits[(i % base) + 1]) \in Seq(Range(Digits))
    BY <2>2, AppendProperties
  <2> QED  BY <1>3, <2>3 DEF NumeralFrom
<1> QED  BY <1>2, <1>3

\* A numeral depends on those of smaller numbers only.
LEMMA NumeralFromLocal ==
    ASSUME NEW i \in Nat, NEW g, NEW h, \A j \in 0 .. i - 1 : g[j] = h[j]
    PROVE  NumeralFrom(g, i) = NumeralFrom(h, i)
<1> DEFINE base == Len(Digits)
<1>1. i \div base \in Nat /\ (i >= base => i \div base < i)
  BY DigitsFact, LastDigitFact
<1>2. CASE i < base
  BY <1>2 DEF NumeralFrom
<1>3. CASE ~(i < base)
  <2>1. i \div base \in 0 .. i - 1
    BY <1>1, <1>3, DigitsFact
  <2> QED  BY <1>3, <2>1 DEF NumeralFrom
<1> QED  BY <1>2, <1>3

LEMMA NumeralsExist ==
    ASSUME NEW m \in Nat PROVE \E g : Numerals(g, m)
<1> DEFINE T == {n \in Nat : \E g : Numerals(g, n)}
<1>1. 0 \in T
  <2> DEFINE g == [i \in 0 .. 0 |-> <<Digits[1]>>]
  <2>1. <<Digits[1]>> \in Seq(Range(Digits))
    BY DigitsFact
  <2>2. NumeralFrom(g, 0) = <<Digits[1]>>
    BY DigitsFact DEF NumeralFrom
  <2>3. Numerals(g, 0)
    BY <2>1, <2>2 DEF Numerals
  <2> HIDE DEF g
  <2> QED  BY <2>3
<1>2. ASSUME NEW n \in Nat, n \in T PROVE n + 1 \in T
  <2>1. PICK g : Numerals(g, n)
    BY <1>2
  <2> DEFINE new == NumeralFrom(g, n + 1)
             h   == [i \in 0 .. n + 1 |-> IF i = n + 1 THEN new ELSE g[i]]
  <2>2. new \in Seq(Range(Digits))
    <3>1. (n + 1) - 1 = n /\ n + 1 \in Nat
      OBVIOUS
    <3>2. \A j \in 0 .. (n + 1) - 1 : g[j] \in Seq(Range(Digits))
      BY <2>1, <3>1 DEF Numerals
    <3> QED  BY <3>1, <3>2, NumeralFromFact
  <2> HIDE DEF new
  <2>3. \A i \in 0 .. n : h[i] = g[i]
    OBVIOUS
  <2>4. h \in [0 .. n + 1 -> Seq(Range(Digits))]
    <3>1. \A i \in 0 .. n + 1 : i = n + 1 \/ i \in 0 .. n
      OBVIOUS
    <3> QED  BY <2>1, <2>2, <3>1 DEF Numerals
  <2>5. h[n + 1] = new
    OBVIOUS
  <2> HIDE DEF h
  <2>6. ASSUME NEW i \in 0 .. n + 1 PROVE h[i] = NumeralFrom(h, i)
    <3>1. i \in Nat /\ \A j \in 0 .. i - 1 : j \in 0 .. n
      OBVIOUS
    <3>2. NumeralFrom(h, i) = NumeralFrom(g, i)
      BY <2>3, <3>1, NumeralFromLocal
    <3>3. CASE i = n + 1
      BY <2>5, <3>2, <3>3 DEF new
    <3>4. CASE i # n + 1
      <4>1. i \in 0 .. n
        BY <3>4
      <4> QED  BY <2>1, <2>3, <3>2, <4>1 DEF Numerals
    <3> QED  BY <3>3, <3>4
  <2>7. Numerals(h, n + 1)
    BY <2>4, <2>6 DEF Numerals
  <2> QED  BY <2>7
<1> HIDE DEF T
<1>3. Nat \subseteq T
  BY <1>1, <1>2, Induction
<1> QED  BY <1>3 DEF T

\* A number is printed as digits that are read as it.
LEMMA NumeralFact ==
    ASSUME NEW n \in Nat
    PROVE  /\ Numeral(n) \in Seq(Range(Digits)) /\ Len(Numeral(n)) >= 1
           /\ ValueOf(Numeral(n)) = n
<1> DEFINE base == Len(Digits)
           Rec(h) == [i \in 0 .. n |->
                        IF i < Len(Digits) THEN <<Digits[i + 1]>>
                        ELSE Append(h[i \div Len(Digits)],
                                    Digits[(i % Len(Digits)) + 1])]
           f == CHOOSE h : h = Rec(h)
<1>1. PICK g : Numerals(g, n)
  BY NumeralsExist
<1>2. g = Rec(g)
  <2>1. Rec(g) = [i \in 0 .. n |-> NumeralFrom(g, i)]
    BY DEF NumeralFrom
  <2>2. g = [i \in 0 .. n |-> g[i]] /\ \A i \in 0 .. n : g[i] = NumeralFrom(g, i)
    BY <1>1 DEF Numerals
  <2> HIDE DEF Rec
  <2> QED  BY <2>1, <2>2
<1>3. f = Rec(f)
  <2> HIDE DEF Rec
  <2> QED  BY <1>2, Zenon
<1>4. Numeral(n) = f[n]
  BY DEF Numeral
<1> HIDE DEF f
<1>5. \A i \in 0 .. n : f[i] = NumeralFrom(f, i)
  <2>1. \A i \in 0 .. n : Rec(f)[i] = NumeralFrom(f, i)
    BY DEF NumeralFrom
  <2> HIDE DEF Rec
  <2> QED  BY <1>3, <2>1
<1> DEFINE Good(i) == /\ f[i] \in Seq(Range(Digits)) /\ Len(f[i]) >= 1
                      /\ ValueOf(f[i]) = i
           T == {m \in Nat : m <= n => \A i \in 0 .. m : Good(i)}
<1>6. ASSUME NEW i \in 0 .. n, \A j \in 0 .. i - 1 : Good(j) PROVE Good(i)
  <2>1. /\ i % base \in 0 .. base - 1 /\ i \div base \in Nat /\ i \in Nat
        /\ (i \div base) * base + (i % base) = i
        /\ i >= base => i \div base < i
    <3>1. i \in Nat /\ base \in Nat /\ base > 1
      BY DigitsFact
    <3> QED  BY <3>1, LastDigitFact
  <2>2. CASE i < base
    <3>1. i + 1 \in 1 .. base /\ (i + 1) - 1 = i
      BY <2>1, <2>2, DigitsFact
    <3> DEFINE c == Digits[i + 1]
    <3>2. c \in Range(Digits) /\ DigitOf(c) = i
      BY <3>1, DigitFact, DigitsFact
    <3>3. f[i] = <<c>>
      BY <1>5, <2>2 DEF NumeralFrom
    <3> HIDE DEF c
    <3>4. <<c>> \in Seq(Range(Digits)) /\ Len(<<c>>) = 1 /\ <<c>> = Append(<<>>, c)
      BY <3>2
    <3>5. <<>> \in Seq(Range(Digits))
      OBVIOUS
    <3>6. ValueOf(Append(<<>>, c)) = ValueOf(<<>>) * base + DigitOf(c) /\ ValueOf(<<>>) = 0
      BY <3>2, <3>5, ValueAppend
    <3>7. ValueOf(<<c>>) = i
      BY <2>1, <3>2, <3>4, <3>6, DigitsFact
    <3> QED  BY <3>3, <3>4, <3>7
  <2>3. CASE ~(i < base)
    <3>1. (i % base) + 1 \in 1 .. base /\ i \div base \in 0 .. i - 1
          /\ ((i % base) + 1) - 1 = i % base
      BY <2>1, <2>3, DigitsFact
    <3> DEFINE c == Digits[(i % base) + 1]
               q == i \div base
    <3>2. c \in Range(Digits) /\ DigitOf(c) = i % base
      BY <3>1, DigitFact, DigitsFact
    <3>3. f[i] = Append(f[q], c)
      BY <1>5, <2>3 DEF NumeralFrom
    <3>4. f[q] \in Seq(Range(Digits)) /\ Len(f[q]) >= 1 /\ ValueOf(f[q]) = q
      BY <1>6, <3>1
    <3>5. q * base + (i % base) = i
      BY <2>1
    <3> HIDE DEF c, q
    <3>6. /\ Append(f[q], c) \in Seq(Range(Digits))
          /\ Len(Append(f[q], c)) = Len(f[q]) + 1 /\ Len(f[q]) \in Nat
      BY <3>2, <3>4, AppendProperties, LenProperties
    <3>7. ValueOf(Append(f[q], c)) = ValueOf(f[q]) * base + DigitOf(c)
      BY <3>2, <3>4, ValueAppend
    <3> QED  BY <3>2, <3>3, <3>4, <3>5, <3>6, <3>7
  <2> QED  BY <2>2, <2>3
<1>7. 0 \in T
  <2>1. 0 \in 0 .. n /\ \A j \in 0 .. 0 - 1 : Good(j)
    OBVIOUS
  <2>2. Good(0)
    <3> HIDE DEF Good
    <3> QED  BY <1>6, <2>1
  <2>3. \A i \in 0 .. 0 : i = 0
    OBVIOUS
  <2> HIDE DEF Good
  <2> QED  BY <2>2, <2>3
<1>8. ASSUME NEW m \in Nat, m \in T PROVE m + 1 \in T
  <2> HIDE DEF Good
  <2> SUFFICES ASSUME m + 1 <= n PROVE \A i \in 0 .. m + 1 : Good(i)
    OBVIOUS
  <2>1. \A i \in 0 .. m : Good(i)
    BY <1>8
  <2>2. m + 1 \in 0 .. n /\ \A j \in 0 .. (m + 1) - 1 : j \in 0 .. m
    OBVIOUS
  <2>3. Good(m + 1)
    BY <1>6, <2>1, <2>2
  <2>4. \A i \in 0 .. m + 1 : i = m + 1 \/ i \in 0 .. m
    OBVIOUS
  <2> QED  BY <2>1, <2>3, <2>4
<1>9. Nat \subseteq T
  <2> HIDE DEF T
  <2> QED  BY <1>7, <1>8, Induction
<1>10. Good(n)
  <2>1. n \in T /\ n \in 0 .. n
    BY <1>9
  <2> HIDE DEF Good
  <2> QED  BY <2>1
<1> QED  BY <1>4, <1>10

-----------------------------------------------------------------------------
(* What a name is put together of, and taken apart into.                   *)

\* Digits, as characters of a name.
LEMMA NumeralInChars ==
    ASSUME NEW n \in Nat
    PROVE  /\ Numeral(n) \in Seq(Chars) /\ Len(Numeral(n)) \in Nat \ {0}
           /\ Printed(n) = Numeral(n)
           /\ \A i \in 1 .. Len(Numeral(n)) :
                /\ Numeral(n)[i] \in Range(Digits) /\ Numeral(n)[i] # "+"
                /\ Numeral(n)[i] # "-" /\ Numeral(n)[i] # "."
<1> DEFINE t == Numeral(n)
<1>1. t \in Seq(Range(Digits)) /\ Len(t) >= 1
  BY NumeralFact
<1>2. Printed(n) = t
  BY DEF Printed
<1> HIDE DEF t
<1>3. /\ Len(t) \in Nat /\ t = [i \in 1 .. Len(t) |-> t[i]]
      /\ \A i \in 1 .. Len(t) : t[i] \in Range(Digits)
  BY <1>1, LenProperties, ElementOfSeq
<1>4. t \in Seq(Chars)
  BY <1>3 DEF Chars
<1> QED  BY <1>1, <1>2, <1>3, <1>4, DigitsFact DEF t

\* An id as ToString writes it.
LEMMA IdFact ==
    ASSUME NEW u, u.uid \in Nat, u.hid \in Nat
    PROVE  LET id == IdText(u)
               p  == Len(Numeral(u.uid)) + 1
           IN  /\ id \in Seq(Chars) /\ Len(id) = p + Len(Numeral(u.hid))
               /\ id[p] = "+"
               /\ \A i \in 1 .. Len(id) : i # p =>
                    id[i] \in Range(Digits)
               /\ \A j \in 1 .. Len(Numeral(u.uid)) : id[j] = Numeral(u.uid)[j]
               /\ \A j \in 1 .. Len(Numeral(u.hid)) : id[p + j] = Numeral(u.hid)[j]
<1> DEFINE a == Numeral(u.uid)
           b == Numeral(u.hid)
           c == <<"+">>
           d == a \o c
           id == d \o b
           p == Len(a) + 1
<1>1. /\ a \in Seq(Chars) /\ Len(a) \in Nat \ {0}
      /\ \A i \in 1 .. Len(a) : a[i] \in Range(Digits)
      /\ b \in Seq(Chars) /\ Len(b) \in Nat \ {0}
      /\ \A i \in 1 .. Len(b) : b[i] \in Range(Digits)
  BY NumeralInChars
<1>2. IdText(u) = id
  BY NumeralInChars DEF IdText
<1>3. c \in Seq(Chars) /\ Len(c) = 1 /\ c[1] = "+"
  <2>1. "+" \in Chars
    BY DEF Chars
  <2> QED  BY <2>1
<1> HIDE DEF a, b, c
<1>4. d \in Seq(Chars) /\ Joins(d, a, c)
  BY <1>1, <1>3, JoinFact
<1> HIDE DEF d
<1>5. id \in Seq(Chars) /\ Joins(id, d, b)
  BY <1>1, <1>4, JoinFact
<1> HIDE DEF id
<1>6. /\ Len(d) = p /\ d[p] = "+" /\ \A i \in 1 .. Len(a) : d[i] = a[i]
  <2>1. 1 + Len(a) = Len(a) + 1 /\ 1 \in 1 .. Len(c)
    BY <1>1, <1>3
  <2>2. Len(d) = Len(a) + 1 /\ d[1 + Len(a)] = c[1] /\ \A i \in 1 .. Len(a) : d[i] = a[i]
    BY <1>3, <1>4, <2>1 DEF Joins
  <2> QED  BY <1>3, <2>1, <2>2
<1>7. p \in Nat
  BY <1>1
<1>8. /\ Len(id) = p + Len(b) /\ \A i \in 1 .. p : id[i] = d[i]
      /\ \A j \in 1 .. Len(b) : id[j + p] = b[j]
  <2> HIDE DEF p
  <2> QED  BY <1>5, <1>6 DEF Joins
<1>9. \A j \in 1 .. Len(b) : id[p + j] = b[j]
  <2> HIDE DEF p
  <2>1. \A j \in 1 .. Len(b) : p + j = j + p
    BY <1>1, <1>7
  <2> QED  BY <1>8, <2>1
<1>10. id[p] = "+" /\ \A j \in 1 .. Len(a) : id[j] = a[j]
  <2>1. p \in 1 .. p /\ \A j \in 1 .. Len(a) : j \in 1 .. p
    BY <1>1
  <2> QED  BY <1>6, <1>8, <2>1
<1>11. ASSUME NEW i \in 1 .. Len(id), i # p PROVE id[i] \in Range(Digits)
  <2>1. CASE i < p
    <3>1. i \in 1 .. Len(a)
      BY <1>1, <2>1
    <3> QED  BY <1>1, <1>10, <3>1
  <2>2. CASE ~(i < p)
    <3> DEFINE j == i - p
    <3>1. j \in 1 .. Len(b) /\ j + p = i
      <4> HIDE DEF p
      <4> QED  BY <1>1, <1>7, <1>8, <1>11, <2>2
    <3> HIDE DEF j
    <3> QED  BY <1>1, <1>8, <3>1
  <2> QED  BY <2>1, <2>2
<1> QED  BY <1>2, <1>5, <1>8, <1>9, <1>10, <1>11 DEF a, b

\* An id that was written is one, and its halves are the numbers.
LEMMA IdReadBack ==
    ASSUME NEW u, u.uid \in Nat, u.hid \in Nat
    PROVE  /\ IsUserId(IdText(u))
           /\ UidOf(IdText(u)) = Numeral(u.uid) /\ HidOf(IdText(u)) = Numeral(u.hid)
<1> DEFINE id == IdText(u)
           a  == Numeral(u.uid)
           b  == Numeral(u.hid)
           p  == Len(a) + 1
<1>1. /\ id \in Seq(Chars) /\ Len(id) = p + Len(b) /\ id[p] = "+"
      /\ \A i \in 1 .. Len(id) : i # p => id[i] \in Range(Digits)
      /\ \A j \in 1 .. Len(a) : id[j] = a[j]
      /\ \A j \in 1 .. Len(b) : id[p + j] = b[j]
  BY IdFact
<1>2. a \in Seq(Chars) /\ Len(a) \in Nat \ {0} /\ b \in Seq(Chars) /\ Len(b) \in Nat \ {0}
  BY NumeralInChars
<1> HIDE DEF id, a, b
<1>3. p \in 1 .. Len(id) /\ p \in Int /\ DOMAIN id = 1 .. Len(id)
  <2>1. DOMAIN id = 1 .. Len(id)
    BY <1>1, LenProperties
  <2> QED  BY <1>1, <1>2, <2>1
<1>4. \A i \in 1 .. Len(id) : id[i] = "+" => i = p
  BY <1>1, DigitsFact
<1>5. PlaceOf("+", id) = p
  <2> HIDE DEF p
  <2> QED  BY <1>1, <1>3, <1>4, PlaceFact
<1>6. IsUserId(id)
  <2>1. p > 1 /\ p < Len(id)
    BY <1>1, <1>2
  <2>2. \A i \in DOMAIN id \ {p} : id[i] \in Range(Digits)
    BY <1>1, <1>3
  <2> HIDE DEF p
  <2> QED  BY <1>5, <2>1, <2>2 DEF IsUserId
<1>7. UidOf(id) = a
  <2>1. /\ p - 1 = 0 + Len(a) /\ 1 = 0 + 1 /\ 0 + Len(a) <= Len(id) /\ 0 \in Nat
        /\ \A j \in 1 .. Len(a) : 0 + j = j
    BY <1>1, <1>2
  <2>2. SubSeq(id, 0 + 1, 0 + Len(a)) = a
    BY <1>1, <1>2, <2>1, PartRead
  <2>3. UidOf(id) = SubSeq(id, 1, p - 1)
    <3> HIDE DEF p
    <3> QED  BY <1>5 DEF UidOf
  <2> QED  BY <2>1, <2>2, <2>3
<1>8. HidOf(id) = b
  <2>1. p \in Nat /\ p + Len(b) <= Len(id)
    BY <1>1, <1>2
  <2> HIDE DEF p
  <2>2. SubSeq(id, p + 1, p + Len(b)) = b
    BY <1>1, <1>2, <2>1, PartRead
  <2>3. HidOf(id) = SubSeq(id, p + 1, Len(id))
    BY <1>5 DEF HidOf
  <2> QED  BY <1>1, <2>2, <2>3
<1> QED  BY <1>6, <1>7, <1>8 DEF id, a, b

\* The user whose id is in a name is the one found in it.
LEMMA NameReadBack ==
    ASSUME NEW u, u.uid \in Nat, u.hid \in Nat, NEW serial \in Nat
    PROVE  UserFromSpoolName(SpoolName(serial, u)) = IdText(u)
<1> DEFINE a  == Numeral(serial)
           td == <<"T", "-">>
           id == IdText(u)
           dw == <<".", "warp">>
           x  == a \o td
           y  == x \o id
           whole == y \o dw
           k  == Len(a) + 2
           m  == k + Len(id)
<1>1. /\ a \in Seq(Chars) /\ Len(a) \in Nat \ {0}
      /\ \A i \in 1 .. Len(a) : a[i] # "-" /\ a[i] # "."
  BY NumeralInChars
<1>2. SpoolName(serial, u) = whole
  BY NumeralInChars DEF SpoolName
<1>3. /\ td \in Seq(Chars) /\ Len(td) = 2 /\ td[1] = "T" /\ td[2] = "-"
      /\ dw \in Seq(Chars) /\ Len(dw) = 2 /\ dw[1] = "." /\ dw[2] = "warp"
  <2>1. "T" \in Chars /\ "-" \in Chars /\ "." \in Chars /\ "warp" \in Chars
    BY DEF Chars
  <2> QED  BY <2>1
<1>4. /\ id \in Seq(Chars) /\ Len(id) \in Nat \ {0}
      /\ \A i \in 1 .. Len(id) : id[i] # "-" /\ id[i] # "."
  <2> DEFINE p == Len(Numeral(u.uid)) + 1
  <2>1. /\ id \in Seq(Chars) /\ Len(id) = p + Len(Numeral(u.hid)) /\ id[p] = "+"
        /\ \A i \in 1 .. Len(id) : i # p => id[i] \in Range(Digits)
    BY IdFact
  <2>2. Len(Numeral(u.uid)) \in Nat /\ Len(Numeral(u.hid)) \in Nat \ {0}
    BY NumeralInChars
  <2>3. Len(id) \in Nat \ {0}
    <3> HIDE DEF id
    <3> QED  BY <2>1, <2>2
  <2> HIDE DEF id, p
  <2> QED  BY <2>1, <2>3, DigitsFact
<1> HIDE DEF a, td, id, dw
<1>5. x \in Seq(Chars) /\ Joins(x, a, td)
  BY <1>1, <1>3, JoinFact
<1> HIDE DEF x
<1>6. y \in Seq(Chars) /\ Joins(y, x, id)
  BY <1>4, <1>5, JoinFact
<1> HIDE DEF y
<1>7. whole \in Seq(Chars) /\ Joins(whole, y, dw)
  BY <1>3, <1>6, JoinFact
<1> HIDE DEF whole
<1>8. /\ Len(x) = k /\ \A i \in 1 .. Len(a) : x[i] = a[i]
      /\ x[k - 1] = "T" /\ x[k] = "-"
  <2>1. /\ 1 + Len(a) = k - 1 /\ 2 + Len(a) = k /\ 1 \in 1 .. 2 /\ 2 \in 1 .. 2
    BY <1>1
  <2>2. /\ Len(x) = Len(a) + 2 /\ x[1 + Len(a)] = td[1] /\ x[2 + Len(a)] = td[2]
        /\ \A i \in 1 .. Len(a) : x[i] = a[i]
    BY <1>3, <1>5, <2>1 DEF Joins
  <2> QED  BY <1>3, <2>1, <2>2
<1>9. k \in Nat /\ k > 2 /\ m \in Nat /\ m > k /\ k \in Int /\ m + 1 \in Int
  BY <1>1, <1>4
<1>10. /\ Len(y) = m /\ \A i \in 1 .. k : y[i] = x[i]
       /\ \A j \in 1 .. Len(id) : y[j + k] = id[j]
  <2> HIDE DEF k
  <2> QED  BY <1>6, <1>8 DEF Joins
<1>11. /\ Len(whole) = m + 2 /\ \A i \in 1 .. m : whole[i] = y[i]
       /\ whole[m + 1] = "." /\ whole[m + 2] = "warp"
  <2>1. /\ 1 + m = m + 1 /\ 2 + m = m + 2 /\ 1 \in 1 .. 2 /\ 2 \in 1 .. 2
    BY <1>9
  <2> HIDE DEF m
  <2>2. /\ Len(whole) = m + 2 /\ whole[1 + m] = dw[1] /\ whole[2 + m] = dw[2]
        /\ \A i \in 1 .. m : whole[i] = y[i]
    BY <1>3, <1>7, <1>10, <2>1 DEF Joins
  <2> QED  BY <1>3, <2>1, <2>2
<1>12. ASSUME NEW i \in 1 .. m, i # k
       PROVE  whole[i] # "-" /\ whole[i] # "."
  <2>1. whole[i] = y[i]
    BY <1>11
  <2>2. CASE i <= Len(a)
    <3>1. i \in 1 .. Len(a) /\ i \in 1 .. k
      BY <1>1, <1>9, <2>2
    <3> QED  BY <1>1, <1>8, <1>10, <2>1, <3>1
  <2>3. CASE i = k - 1
    <3>1. i \in 1 .. k
      BY <1>9, <2>3
    <3>2. whole[i] = "T"
      BY <1>8, <1>10, <2>1, <2>3, <3>1
    <3> QED  BY <3>2
  <2>4. CASE i > k
    <3> DEFINE j == i - k
    <3>1. j \in 1 .. Len(id) /\ j + k = i
      BY <1>1, <1>4, <1>9, <2>4
    <3> HIDE DEF j
    <3> QED  BY <1>4, <1>10, <2>1, <3>1
  <2>5. i <= Len(a) \/ i = k - 1 \/ i > k
    BY <1>1, <1>12
  <2> QED  BY <2>2, <2>3, <2>4, <2>5
<1>13. whole[k] = "-"
  <2>1. k \in 1 .. m /\ k \in 1 .. k
    BY <1>9
  <2> QED  BY <1>8, <1>10, <1>11, <2>1
<1>14. /\ k \in 1 .. Len(whole) /\ m + 1 \in 1 .. Len(whole)
       /\ \A i \in 1 .. Len(whole) : i \in 1 .. m \/ i = m + 1 \/ i = m + 2
  <2> HIDE DEF k, m
  <2> QED  BY <1>9, <1>11
<1>15. "." # "-" /\ "warp" # "-" /\ "warp" # "."
  OBVIOUS
<1>16. LastPlaceOf("-", whole) = k
  <2>1. \A i \in 1 .. Len(whole) : whole[i] = "-" => i = k
    BY <1>11, <1>12, <1>14, <1>15
  <2> HIDE DEF k, m
  <2> QED  BY <1>9, <1>13, <1>14, <2>1, PlaceFact
<1>17. LastPlaceOf(".", whole) = m + 1
  <2>1. \A i \in 1 .. Len(whole) : whole[i] = "." => i = m + 1
    BY <1>11, <1>12, <1>13, <1>14, <1>15
  <2> DEFINE dot == m + 1
  <2>2. dot \in Int /\ dot \in 1 .. Len(whole) /\ whole[dot] = "."
        /\ \A i \in 1 .. Len(whole) : whole[i] = "." => i = dot
    BY <1>9, <1>11, <1>14, <2>1
  <2> HIDE DEF dot
  <2>3. LastPlaceOf(".", whole) = dot
    BY <2>2, PlaceFact
  <2> QED  BY <2>3 DEF dot
<1>18. SubSeq(whole, k + 1, (m + 1) - 1) = id
  <2>1. (m + 1) - 1 = k + Len(id) /\ k + Len(id) <= Len(whole)
    BY <1>4, <1>9, <1>11
  <2>2. ASSUME NEW j \in 1 .. Len(id) PROVE whole[k + j] = id[j]
    <3>1. k + j = j + k /\ k + j \in 1 .. m
      BY <1>4, <1>9
    <3> QED  BY <1>10, <1>11, <3>1
  <2> HIDE DEF k, m
  <2>3. SubSeq(whole, k + 1, k + Len(id)) = id
    BY <1>4, <1>7, <1>9, <2>1, <2>2, PartRead
  <2> QED  BY <2>1, <2>3
<1>19. IsUserId(id)
  BY IdReadBack DEF id
<1>20. k > 0 /\ k + 1 < m + 1
  BY <1>9
<1> HIDE DEF k, m
<1>21. UserFromSpoolName(whole) = id
  BY <1>16, <1>17, <1>18, <1>19, <1>20 DEF UserFromSpoolName
<1> QED  BY <1>2, <1>21 DEF id

\* The halves of an id that the game spelled are digits.
LEMMA SpellingFact ==
    ASSUME NEW S, NEW text \in Seq(S), IsUserId(text)
    PROVE  UidOf(text) \in Seq(Range(Digits)) /\ HidOf(text) \in Seq(Range(Digits))
<1> DEFINE p == PlaceOf("+", text)
<1>1. /\ p > 1 /\ p < Len(text) /\ DOMAIN text = 1 .. Len(text) /\ Len(text) \in Nat
      /\ \A i \in DOMAIN text \ {p} : text[i] \in Range(Digits)
  BY LenProperties DEF IsUserId
<1>2. p \in 1 .. Len(text)
  <2>1. PICK k \in 1 .. Len(text) : text[k] = "+"
    <3>1. CASE \A i \in 1 .. Len(text) : text[i] # "+"
      <4>1. p = 0
        BY <3>1, NoPlaceFact
      <4> HIDE DEF p
      <4> QED  BY <1>1, <4>1
    <3> QED  BY <3>1
  <2>2. k = p
    <3> HIDE DEF p
    <3> QED  BY <1>1, <2>1, DigitsFact
  <2> QED  BY <2>2
<1> HIDE DEF p
<1>3. SubSeq(text, 1, p - 1) \in Seq(Range(Digits))
  <2>1. /\ 1 \in Int /\ p - 1 \in Int
        /\ \A i \in 1 .. p - 1 : i \in DOMAIN text \ {p}
    BY <1>1, <1>2
  <2>2. \A i \in 1 .. p - 1 : text[i] \in Range(Digits)
    BY <1>1, <2>1
  <2> QED  BY <2>1, <2>2, SubSeqProperties
<1>4. SubSeq(text, p + 1, Len(text)) \in Seq(Range(Digits))
  <2>1. /\ p + 1 \in Int /\ Len(text) \in Int
        /\ \A i \in p + 1 .. Len(text) : i \in DOMAIN text \ {p}
    BY <1>1, <1>2
  <2>2. \A i \in p + 1 .. Len(text) : text[i] \in Range(Digits)
    BY <1>1, <2>1
  <2> QED  BY <2>1, <2>2, SubSeqProperties
<1> QED  BY <1>3, <1>4 DEF UidOf, HidOf, p

\* atoi of digits that an int can hold is their value.
LEMMA AtoiFact ==
    ASSUME NEW text \in Seq(Range(Digits)), ValueOf(text) < Half
    PROVE  Atoi(text) = ValueOf(text) /\ Atoi(text) \in Nat
<1> DEFINE v == ValueOf(text)
<1>1. v \in Nat
  BY ValueNat
<1> HIDE DEF v
<1>2. v < Half
  BY DEF v
<1>3. AsInt(v) = v
  <2>1. v \in Ints
    BY <1>1, <1>2, WordAssumption DEF Ints
  <2> QED  BY <1>1, <2>1, AsIntFact
<1> QED  BY <1>1, <1>3 DEF Atoi, v

-----------------------------------------------------------------------------
(* The user found.                                                         *)

\* Who the file is for or from.
NamedUser == IF user.box = "outbox" THEN FromString(user.spelling) ELSE user.sender

\* A file is named after that user, and who is found is read of its name.
NamesInv ==
    /\ user \in OutboxUsers \cup InboxUsers
    /\ \/ file \in {Nothing, Refused}
       \/ /\ user.box = "outbox" => IsUserId(user.spelling)
          /\ \E serial \in Serials : file = SpoolName(serial, NamedUser)
    /\ found # Nothing =>
         file \notin {Nothing, Refused} /\ found = UserFromSpoolName(file)

LEMMA NamesInvInit == SpoolNamesInit => NamesInv
BY DEF SpoolNamesInit, NamesInv

LEMMA NamesInvStep == NamesInv /\ [SpoolNamesNext]_spoolNameVars => NamesInv'
<1> SUFFICES ASSUME NamesInv, [SpoolNamesNext]_spoolNameVars PROVE NamesInv'
  OBVIOUS
<1>1. user' = user
  BY DEF SpoolNamesNext, ReturnUniqueOutboxFilename, SpoolPrayFile, FindUser,
         spoolNameVars
<1>2. NamedUser' = NamedUser
  BY <1>1 DEF NamedUser
<1>3. user \in OutboxUsers \cup InboxUsers
  BY DEF NamesInv
<1>4. CASE ReturnUniqueOutboxFilename
  <2>1. /\ user.box = "outbox" /\ file = Nothing /\ found' = found
        /\ \/ file' = Refused
           \/ /\ IsUserId(user.spelling)
              /\ \E serial \in Serials :
                   file' = SpoolName(serial, FromString(user.spelling))
    BY <1>4 DEF ReturnUniqueOutboxFilename
  <2>2. found = Nothing
    BY <2>1 DEF NamesInv
  <2>3. NamedUser = FromString(user.spelling)
    BY <2>1 DEF NamedUser
  <2> QED  BY <1>1, <1>2, <1>3, <2>1, <2>2, <2>3 DEF NamesInv
<1>5. CASE SpoolPrayFile
  <2>1. /\ user.box = "inbox" /\ file = Nothing /\ found' = found
        /\ \E serial \in Serials : file' = SpoolName(serial, user.sender)
    BY <1>5 DEF SpoolPrayFile
  <2>2. found = Nothing
    BY <2>1 DEF NamesInv
  <2>3. NamedUser = user.sender /\ user.box # "outbox"
    BY <2>1 DEF NamedUser
  <2> QED  BY <1>1, <1>2, <1>3, <2>1, <2>2, <2>3 DEF NamesInv
<1>6. CASE FindUser
  BY <1>1, <1>2, <1>6 DEF FindUser, NamesInv
<1>7. CASE UNCHANGED spoolNameVars
  BY <1>1, <1>2, <1>7 DEF spoolNameVars, NamesInv
<1> QED  BY <1>4, <1>5, <1>6, <1>7 DEF SpoolNamesNext

LEMMA NamesInvFinds == NamesInv => NamedUserIsFound
<1> SUFFICES ASSUME NamesInv, found # Nothing
             PROVE  IF user.box = "outbox"
                    THEN FitsAnInt(user.spelling) =>
                           /\ found # Refused
                           /\ FromString(found) = FromString(user.spelling)
                    ELSE user.sender.uid >= 0 => found = IdText(user.sender)
  BY DEF NamedUserIsFound
<1>1. /\ user \in OutboxUsers \cup InboxUsers
      /\ user.box = "outbox" => IsUserId(user.spelling)
      /\ \E serial \in Serials : file = SpoolName(serial, NamedUser)
      /\ found = UserFromSpoolName(file)
  BY DEF NamesInv
<1>2. PICK serial \in Serials : file = SpoolName(serial, NamedUser)
  BY <1>1
<1>3. serial \in Nat
  BY NamesAssumption
<1>4. CASE user.box = "outbox"
  <2> SUFFICES ASSUME FitsAnInt(user.spelling)
               PROVE  /\ found # Refused
                      /\ FromString(found) = FromString(user.spelling)
    BY <1>4
  <2> DEFINE text == user.spelling
             u    == FromString(text)
  <2>1. text \in Seq(Range(text)) /\ IsUserId(text)
    <3>1. user \in OutboxUsers
      BY <1>1, <1>4 DEF OutboxUsers, InboxUsers
    <3>2. text \in Spellings
      BY <3>1 DEF OutboxUsers
    <3> QED  BY <1>1, <1>4, <3>2, NamesAssumption
  <2>2. /\ UidOf(text) \in Seq(Range(Digits)) /\ ValueOf(UidOf(text)) < Half
        /\ HidOf(text) \in Seq(Range(Digits)) /\ ValueOf(HidOf(text)) < Half
    <3> HIDE DEF text
    <3>1. FitsAnInt(text)
      BY DEF text
    <3> QED  BY <2>1, <3>1, SpellingFact DEF FitsAnInt
  <2>3. /\ u.uid = ValueOf(UidOf(text)) /\ u.uid \in Nat /\ u.uid < Half
        /\ u.hid = ValueOf(HidOf(text)) /\ u.hid \in Nat /\ u.hid < Half
        /\ u = [uid |-> u.uid, hid |-> u.hid]
    <3> HIDE DEF text
    <3>1. u = [uid |-> Atoi(UidOf(text)), hid |-> Atoi(HidOf(text))]
      BY DEF FromString
    <3>2. u.uid = Atoi(UidOf(text)) /\ u.hid = Atoi(HidOf(text))
      BY <3>1
    <3> HIDE DEF u
    <3> QED  BY <2>2, <3>1, <3>2, AtoiFact
  <2>4. NamedUser = u
    BY <1>4 DEF NamedUser
  <2> HIDE DEF u, text
  <2>5. found = IdText(u)
    BY <1>1, <1>2, <1>3, <2>3, <2>4, NameReadBack
  <2>6. FromString(found) = u
    <3>1. UidOf(found) = Numeral(u.uid) /\ HidOf(found) = Numeral(u.hid)
      BY <2>3, <2>5, IdReadBack
    <3>2. Atoi(Numeral(u.uid)) = u.uid /\ Atoi(Numeral(u.hid)) = u.hid
      BY <2>3, NumeralFact, AtoiFact
    <3>3. FromString(found) = [uid |-> u.uid, hid |-> u.hid]
      BY <3>1, <3>2 DEF FromString
    <3> QED  BY <2>3, <3>3
  <2>7. found # Refused
    <3>1. Len(found) > 1
      <4>1. /\ Len(found) = (Len(Numeral(u.uid)) + 1) + Len(Numeral(u.hid))
        BY <2>3, <2>5, IdFact
      <4>2. Len(Numeral(u.uid)) \in Nat \ {0} /\ Len(Numeral(u.hid)) \in Nat \ {0}
        BY <2>3, NumeralInChars
      <4> QED  BY <4>1, <4>2
    <3>2. Len(Refused) = 1
      BY DEF Refused
    <3>3. ~(1 > 1)
      OBVIOUS
    <3>4. Len(found) # Len(Refused)
      BY <3>1, <3>2, <3>3, Zenon
    <3> QED  BY <3>4, Zenon
  <2> QED  BY <2>6, <2>7 DEF u, text
<1>5. CASE user.box # "outbox"
  <2> SUFFICES ASSUME user.sender.uid >= 0 PROVE found = IdText(user.sender)
    BY <1>5
  <2>1. user.sender \in Senders
    BY <1>1, <1>5 DEF OutboxUsers, InboxUsers
  <2>2. user.sender.uid \in Nat /\ user.sender.hid \in Nat
    <3>1. user.sender.uid \in Ints /\ user.sender.hid \in Nat
      BY <2>1, NamesAssumption
    <3> QED  BY <3>1, WordAssumption DEF Ints
  <2>3. NamedUser = user.sender
    BY <1>5 DEF NamedUser
  <2> QED  BY <1>1, <1>2, <1>3, <2>2, <2>3, NameReadBack
<1> QED  BY <1>4, <1>5

\* Whatever the digits, the serial number and the way the game spells the id: the
\* user found in the name of a file is the one it was named after, as long as the
\* numbers are those of an int and not negative (ReturnUniqueOutboxFilename,
\* SpoolPrayFile, UserFromSpoolName).
THEOREM NamesAreReadBack == SpoolNamesSpec => []NamedUserIsFound
BY NamesInvInit, NamesInvStep, NamesInvFinds, PTL DEF SpoolNamesSpec

-----------------------------------------------------------------------------
(* The socket under any client is a pipe.                                  *)

\* How a prefix is shown.
LEMMA PrefixFact ==
    ASSUME NEW S, NEW s \in Seq(S), NEW t \in Seq(S), Len(s) <= Len(t),
           \A i \in 1 .. Len(s) : s[i] = t[i]
    PROVE  Pipe!IsPrefix(s, t)
<1> DEFINE n == Len(s)
           r == SubSeq(t, 1, n)
<1>1. n \in 0 .. Len(t) /\ SubSeq(s, 1, n) = s
  BY LenProperties, SubSeqFull
<1>2. r \in Seq(S) /\ Len(r) = n /\ \A i \in 1 .. n : r[i] = t[i]
  BY <1>1, CutFact
<1> HIDE DEF r
<1>3. s = r
  BY <1>2, SeqEqual
<1> QED  BY <1>1, <1>3 DEF Pipe!IsPrefix, r

\* What is left when what comes after is lost from some place on.
LEMMA CutIsPrefix ==
    ASSUME NEW S, NEW s \in Seq(S), NEW t \in Seq(S), NEW n \in 0 .. Len(t)
    PROVE  /\ Pipe!IsPrefix(s \o SubSeq(t, 1, n), s \o t)
           /\ Pipe!IsPrefix(s, s \o t)
           /\ Pipe!IsPrefix(<<>>, s) /\ Pipe!IsPrefix(s, s)
<1> DEFINE c == SubSeq(t, 1, n)
<1>1. c \in Seq(S) /\ Len(c) = n /\ \A i \in 1 .. n : c[i] = t[i]
  BY CutFact
<1> HIDE DEF c
<1>2. /\ s \o c \in Seq(S) /\ s \o t \in Seq(S)
      /\ Joins(s \o c, s, c) /\ Joins(s \o t, s, t)
  BY <1>1, JoinFact
<1>3. Pipe!IsPrefix(s \o c, s \o t)
  <2> DEFINE u == s \o c
             v == s \o t
  <2>1. u \in Seq(S) /\ v \in Seq(S) /\ Joins(u, s, c) /\ Joins(v, s, t)
    BY <1>2
  <2> HIDE DEF u, v
  <2>2. Len(u) <= Len(v)
    BY <1>1, <2>1 DEF Joins
  <2>3. ASSUME NEW i \in 1 .. Len(u) PROVE u[i] = v[i]
    <3>1. CASE i \in 1 .. Len(s)
      BY <2>1, <3>1 DEF Joins
    <3>2. CASE i \notin 1 .. Len(s)
      <4>1. PICK j \in 1 .. n : j + Len(s) = i
        <5>1. i - Len(s) \in 1 .. n /\ (i - Len(s)) + Len(s) = i
          BY <1>1, <2>1, <3>2 DEF Joins
        <5> QED  BY <5>1
      <4>2. j \in 1 .. Len(c) /\ j \in 1 .. Len(t)
        BY <1>1, <2>1 DEF Joins
      <4>3. u[j + Len(s)] = c[j] /\ v[j + Len(s)] = t[j]
        BY <2>1, <4>2 DEF Joins
      <4> QED  BY <1>1, <4>1, <4>3
    <3> QED  BY <3>1, <3>2
  <2>4. Pipe!IsPrefix(u, v)
    BY <2>1, <2>2, <2>3, PrefixFact
  <2> QED  BY <2>4 DEF u, v
<1>4. Pipe!IsPrefix(s, s \o t)
  <2> DEFINE v == s \o t
  <2>1. v \in Seq(S) /\ Joins(v, s, t)
    BY <1>2
  <2> HIDE DEF v
  <2>2. Len(s) <= Len(v) /\ \A i \in 1 .. Len(s) : s[i] = v[i]
    BY <2>1 DEF Joins
  <2>3. Pipe!IsPrefix(s, v)
    BY <2>1, <2>2, PrefixFact
  <2> QED  BY <2>3 DEF v
<1>5. Pipe!IsPrefix(<<>>, s) /\ Pipe!IsPrefix(s, s)
  <2> DEFINE e == <<>>
  <2>1. Len(s) \in Nat /\ e \in Seq(S) /\ Len(e) = 0
    BY EmptySeq, LenProperties
  <2> HIDE DEF e
  <2>2. Len(e) <= Len(s) /\ \A i \in 1 .. Len(e) : e[i] = s[i]
    BY <2>1
  <2>3. Pipe!IsPrefix(e, s)
    BY <2>1, <2>2, PrefixFact
  <2>4. Pipe!IsPrefix(s, s)
    BY <2>1, PrefixFact
  <2> QED  BY <2>3, <2>4 DEF e
<1> QED  BY <1>3, <1>4, <1>5 DEF c

\* A connect under way has nothing under way: what PumpConnect finds
\* established is empty.
Fresh(c) ==
    c.state = "CONNECTING" =>
        /\ c.peer # "open"
        /\ c.input = <<>> /\ c.output = <<>> /\ c.wire = <<>> /\ c.rx = <<>>

PipeInv == TypeOK /\ Quiet(conn) /\ Fresh(conn)

\* A socket whose connect is not under way.
LEMMA NotConnecting == ASSUME NEW c, c.state # "CONNECTING" PROVE Fresh(c)
BY DEF Fresh

\* What BeginConnect leaves: it failed, nothing left or what was left of the
\* input; it is open and empty; it is under way and empty (BeginConnect).
LEMMA BeginConnectsPipe ==
    ASSUME NEW c \in Connection, NEW d \in BeginConnects(c)
    PROVE  /\ Quiet(d) /\ Fresh(d)
           /\ d.peer \in {"none", "open"}
           /\ Replies(d) = <<>> \/ (d.peer = "none" /\ Replies(d) = c.input)
           /\ d.peer = "open" => Requests(d) = <<>>
<1> DEFINE fresh == [Close(c) EXCEPT !.input = <<>>]
<1>0. /\ <<>> \in Seq(ClientPacket) /\ <<>> \in Seq(ServerPacket)
      /\ <<>> \o <<>> = <<>>
  BY ConcatEmptySeq
<1>1. /\ fresh.wire = <<>> /\ fresh.output = <<>> /\ fresh.rx = <<>>
      /\ fresh.input = <<>> /\ fresh.peer = "none" /\ fresh \in Connection
  <2>1. fresh \in Connection
    BY <1>0, CloseFact, InputFact
  <2> QED  BY <2>1 DEF Close, NewSocket
<1>2. CASE d = Fail(c)
  <2>1. /\ d.input = c.input /\ d.rx = <<>> /\ d.wire = <<>>
        /\ d.peer = "none" /\ d.state = "FAILED"
    BY <1>2 DEF Fail, Close, NewSocket
  <2>2. Replies(d) = c.input
    BY <2>1, TrafficFact, ConcatEmptySeq DEF Replies
  <2> QED  BY <2>1, <2>2 DEF Quiet, Fresh
<1>3. CASE d = Fail(fresh)
  <2>1. /\ d.input = <<>> /\ d.rx = <<>> /\ d.wire = <<>>
        /\ d.peer = "none" /\ d.state = "FAILED"
    BY <1>3 DEF Fail, Close, NewSocket
  <2> QED  BY <1>0, <2>1 DEF Quiet, Fresh, Replies
<1>4. CASE d \in {Established(fresh), [fresh EXCEPT !.state = "CONNECTING"]}
  <2>1. /\ d.wire = <<>> /\ d.output = <<>> /\ d.rx = <<>> /\ d.input = <<>>
        /\ \/ d.state = "CONNECTED" /\ d.peer = "open"
           \/ d.peer = "none"
    <3> HIDE DEF fresh
    <3> QED  BY <1>1, <1>4 DEF Established, Connection
  <2> QED  BY <1>0, <2>1 DEF Quiet, Fresh, Requests, Replies
<1> QED  BY <1>2, <1>3, <1>4 DEF BeginConnects

\* What PumpConnect leaves: the same, or an open and empty connection, or none
\* (PumpConnect).
LEMMA PumpConnectsPipe ==
    ASSUME NEW c \in Connection, Quiet(c), Fresh(c), NEW d \in PumpConnects(c)
    PROVE  /\ Fresh(d)
           /\ \/ d = c
              \/ d.peer = "open" /\ Requests(d) = <<>> /\ Replies(d) = <<>>
              \/ d.peer = "none" /\ Replies(d) = c.input
<1>1. CASE d = c
  BY <1>1
<1>2. CASE c.state = "CONNECTING" /\ d = Established(c)
  <2>1. /\ d.state = "CONNECTED" /\ d.peer = "open" /\ d.wire = <<>>
        /\ d.output = <<>> /\ d.input = <<>> /\ d.rx = <<>>
    BY <1>2 DEF Established, Connection, Fresh
  <2>2. <<>> \o <<>> = <<>>
    BY ConcatEmptySeq
  <2> QED  BY <2>1, <2>2 DEF Fresh, Requests, Replies
<1>3. CASE d = Fail(c)
  <2>1. /\ d.input = c.input /\ d.rx = <<>> /\ d.peer = "none"
        /\ d.state = "FAILED"
    BY <1>3 DEF Fail, Close, NewSocket
  <2> QED  BY <2>1, TrafficFact, ConcatEmptySeq DEF Replies, Fresh
<1> QED  BY <1>1, <1>2, <1>3 DEF PumpConnects

\* What ReadInput leaves: all that was on its way in, or nothing but a first
\* part of it and no connection (ReadInput).
LEMMA ReadInputsPipe ==
    ASSUME NEW c \in Connection, NEW d \in ReadInputs(c)
    PROVE  \/ /\ d.peer = c.peer /\ Requests(d) = Requests(c)
              /\ Replies(d) = Replies(c)
           \/ d.peer = "none" /\ Pipe!IsPrefix(Replies(d), Replies(c))
<1>1. /\ Len(c.rx) \in 0 .. Len(c.rx) /\ c.rx \in Seq(ServerPacket)
      /\ c.input \in Seq(ServerPacket)
  BY LenProperties, TrafficFact
<1>2. PICK n \in 0 .. Len(c.rx) : d = Receives(c, n) \/ d = Close(Receives(c, n))
  BY <1>1 DEF ReadInputs
<1> DEFINE e == Receives(c, n)
           pulled == SubSeq(c.rx, 1, n)
           left == SubSeq(c.rx, n + 1, Len(c.rx))
<1>3. /\ e \in Connection /\ e.output = c.output /\ e.wire = c.wire
      /\ e.peer = c.peer /\ e.input = c.input \o pulled /\ e.rx = left
  BY ReceivesFact DEF Receives, Connection
<1>4. /\ pulled \in Seq(ServerPacket) /\ left \in Seq(ServerPacket)
      /\ pulled \o left = c.rx
      /\ Pipe!IsPrefix(c.input \o pulled, c.input \o c.rx)
  BY <1>1, CutFact, CutIsPrefix
<1>5. d = e \/ d = Close(e)
  BY <1>2
<1> HIDE DEF e, pulled, left
<1>6. CASE d = e
  <2>1. (c.input \o pulled) \o left = c.input \o (pulled \o left)
    BY <1>1, <1>4, PacketsAssociate
  <2> QED  BY <1>3, <1>4, <1>6, <2>1 DEF Requests, Replies
<1>7. CASE d = Close(e)
  <2>1. d.peer = "none" /\ d.input = e.input /\ d.rx = <<>>
    BY <1>7 DEF Close, NewSocket
  <2>2. Replies(d) = c.input \o pulled
    BY <1>3, <2>1, TrafficFact, ConcatEmptySeq DEF Replies
  <2> QED  BY <1>4, <2>1, <2>2 DEF Replies
<1> QED  BY <1>5, <1>6, <1>7

\* What FlushOutput leaves: as much on its way in; and, on an open connection,
\* as much on its way out (FlushOutput).
LEMMA FlushOutputsPipe ==
    ASSUME NEW c \in Connection, NEW d \in FlushOutputs(c)
    PROVE  \/ /\ d.peer = c.peer /\ Replies(d) = Replies(c)
              /\ c.peer = "open" => Requests(d) = Requests(c)
           \/ /\ d.peer = "none" /\ ~IsConnected(d)
              /\ Pipe!IsPrefix(Replies(d), Replies(c))
<1>1. CASE d = Close(c)
  <2>1. /\ d.peer = "none" /\ d.input = c.input /\ d.rx = <<>>
        /\ d.state = "CLOSED"
    BY <1>1 DEF Close, NewSocket
  <2>2. Replies(d) = c.input
    BY <2>1, TrafficFact, ConcatEmptySeq DEF Replies
  <2>3. Pipe!IsPrefix(c.input, c.input \o c.rx)
    <3>1. c.input \in Seq(ServerPacket) /\ c.rx \in Seq(ServerPacket)
          /\ 0 \in 0 .. Len(c.rx)
      BY TrafficFact, LenProperties
    <3> QED  BY <3>1, CutIsPrefix
  <2> QED  BY <2>1, <2>2, <2>3 DEF Replies, IsConnected
<1>2. ASSUME NEW n \in 0 .. Len(c.output), d = Sends(c, n)
      PROVE  /\ d.peer = c.peer /\ Replies(d) = Replies(c)
             /\ c.peer = "open" => Requests(d) = Requests(c)
  <2>1. d.peer = c.peer /\ d.input = c.input /\ d.rx = c.rx
    BY <1>2, SendsFact DEF Sends, Connection
  <2>2. c.peer = "open" => Requests(d) = Requests(c)
    BY <1>2, SendsKeeps
  <2> QED  BY <2>1, <2>2 DEF Replies
<1> QED  BY <1>1, <1>2 DEF FlushOutputs

\* The three ways in which a method can leave a pipe other than by moving one
\* packet.
LEMMA PipeStutters ==
    ASSUME (conn'.peer = "open") <=> (conn.peer = "open"),
           conn.peer = "open" => Requests(conn') = Requests(conn),
           Replies(conn') = Replies(conn)
    PROVE  [Pipe!Next]_(Pipe!vars)
<1>1. IsUp' = IsUp /\ ToServer' = ToServer
  BY DEF IsUp, ToServer, Requests
<1>2. ToClient' = ToClient
  BY DEF ToClient, Replies
<1>3. UNCHANGED Pipe!vars
  BY <1>1, <1>2 DEF Pipe!vars
<1> QED  BY <1>3

LEMMA PipeBreaks ==
    ASSUME conn'.peer # "open", Pipe!IsPrefix(Replies(conn'), Replies(conn))
    PROVE  Pipe!Next
<1>1. IsUp' = FALSE /\ ToServer' = <<>>
  BY DEF IsUp, ToServer
<1>2. Pipe!IsPrefix(ToClient', ToClient)
  BY DEF ToClient, Replies
<1>3. Pipe!Break
  BY <1>1, <1>2 DEF Pipe!Break
<1> QED  BY <1>3 DEF Pipe!Next

LEMMA PipeOpens ==
    ASSUME conn'.peer = "open", Requests(conn') = <<>>, Replies(conn') = <<>>
    PROVE  Pipe!Next
<1>1. IsUp' = TRUE /\ ToServer' = <<>>
  BY DEF IsUp, ToServer, Requests
<1>2. ToClient' = <<>>
  BY DEF ToClient, Replies
<1>3. Pipe!Open
  BY <1>1, <1>2 DEF Pipe!Open
<1> QED  BY <1>3 DEF Pipe!Next

\* What the two ends write are packets.
LEMMA ItemsFact ==
    ClientItems \subseteq ClientPacket /\ ServerItems \subseteq ServerPacket
<1>1. ASSUME NEW u \in Users
      PROVE  /\ OneWay("MESSAGE", u, FALSE) \in ClientPacket
             /\ OneWay("USER_ONLINE", u, TRUE) \in ServerPacket
  <2>1. "MESSAGE" \in ClientPackets /\ "USER_ONLINE" \in ServerPackets
    BY DEF ClientPackets, ServerPackets, UnsolicitedPackets, PresencePackets
  <2>2. u \in Subject
    BY DEF Subject
  <2> QED  BY <2>1, <2>2 DEF OneWay, ClientPacket, ServerPacket, Packet
<1> QED  BY <1>1 DEF ClientItems, ServerItems

\* Everything on its way in is lost, from some place on.
LEMMA PartsOfReplies ==
    ASSUME NEW c \in Connection, NEW n \in 0 .. Len(c.rx)
    PROVE  /\ Pipe!IsPrefix(c.input \o SubSeq(c.rx, 1, n), Replies(c))
           /\ Pipe!IsPrefix(c.input, Replies(c))
           /\ Pipe!IsPrefix(<<>>, Replies(c))
           /\ Pipe!IsPrefix(Replies(c), Replies(c))
<1>1. /\ c.input \in Seq(ServerPacket) /\ c.rx \in Seq(ServerPacket)
      /\ Replies(c) \in Seq(ServerPacket) /\ 0 \in 0 .. Len(<<>>)
      /\ <<>> \in Seq(ServerPacket)
  BY TrafficFact
<1>2. /\ Pipe!IsPrefix(c.input \o SubSeq(c.rx, 1, n), c.input \o c.rx)
      /\ Pipe!IsPrefix(c.input, c.input \o c.rx)
  BY <1>1, CutIsPrefix
<1>3. Pipe!IsPrefix(<<>>, Replies(c)) /\ Pipe!IsPrefix(Replies(c), Replies(c))
  BY <1>1, CutIsPrefix
<1> QED  BY <1>2, <1>3 DEF Replies

\* The methods that make or end a connection, and the two losses the network
\* brings.
LEMMA EndsPipe ==
    ASSUME PipeInv,
           BeginConnect \/ PumpConnect \/ CloseSocket \/ ServerHangsUp \/ NetworkFails
    PROVE  [Pipe!Next]_(Pipe!vars)
<1>0. conn \in Connection /\ Quiet(conn) /\ Fresh(conn) /\ 0 \in 0 .. Len(conn.rx)
  BY LenProperties, TrafficFact DEF PipeInv, TypeOK
<1>a. /\ Pipe!IsPrefix(conn.input, Replies(conn))
      /\ Pipe!IsPrefix(<<>>, Replies(conn))
      /\ Pipe!IsPrefix(Replies(conn), Replies(conn))
  BY <1>0, PartsOfReplies
<1>1. CASE BeginConnect
  <2>1. /\ conn'.peer \in {"none", "open"}
        /\ Replies(conn') = <<>> \/ (conn'.peer = "none" /\ Replies(conn') = conn.input)
        /\ conn'.peer = "open" => Requests(conn') = <<>>
    BY <1>0, <1>1, BeginConnectsPipe DEF BeginConnect
  <2>2. CASE conn'.peer = "open"
    BY <2>1, <2>2, PipeOpens
  <2>3. CASE conn'.peer = "none"
    BY <1>a, <2>1, <2>3, PipeBreaks
  <2> QED  BY <2>1, <2>2, <2>3
<1>2. CASE PumpConnect
  <2>1. \/ conn' = conn
        \/ conn'.peer = "open" /\ Requests(conn') = <<>> /\ Replies(conn') = <<>>
        \/ conn'.peer = "none" /\ Replies(conn') = conn.input
    BY <1>0, <1>2, PumpConnectsPipe DEF PumpConnect
  <2> QED  BY <1>a, <2>1, PipeStutters, PipeOpens, PipeBreaks
<1>3. CASE CloseSocket
  <2>1. conn'.peer = "none" /\ conn'.input = conn.input /\ conn'.rx = <<>>
    BY <1>3 DEF CloseSocket, Close, NewSocket
  <2>2. Replies(conn') = conn.input
    BY <1>0, <2>1, TrafficFact, ConcatEmptySeq DEF Replies
  <2> QED  BY <1>a, <2>1, <2>2, PipeBreaks
<1>4. CASE ServerHangsUp
  <2>1. conn'.peer = "closed" /\ conn'.input = conn.input /\ conn'.rx = conn.rx
    BY <1>0, <1>4 DEF ServerHangsUp, ServerCloses, Connection
  <2>2. Replies(conn') = Replies(conn)
    BY <2>1 DEF Replies
  <2> QED  BY <1>a, <2>1, <2>2, PipeBreaks
<1>5. ASSUME NEW n \in 0 .. Len(conn.rx), conn' = NetworkBreaks(conn, n)
      PROVE  [Pipe!Next]_(Pipe!vars)
  <2>1. /\ conn'.peer = "reset" /\ conn'.input = conn.input
        /\ conn'.rx = SubSeq(conn.rx, 1, n)
    BY <1>0, <1>5 DEF NetworkBreaks, Connection
  <2>2. Replies(conn') = conn.input \o SubSeq(conn.rx, 1, n)
    BY <2>1 DEF Replies
  <2>3. Pipe!IsPrefix(Replies(conn'), Replies(conn))
    BY <1>0, <2>2, PartsOfReplies
  <2> QED  BY <2>1, <2>3, PipeBreaks
<1> QED  BY <1>1, <1>2, <1>3, <1>4, <1>5 DEF NetworkFails

\* Pump: nothing is repeated, dropped or overtaken, unless the connection is
\* found broken (Pump, FlushOutput, ReadInput).
LEMMA PumpPipe ==
    ASSUME PipeInv, Pump
    PROVE  [Pipe!Next]_(Pipe!vars)
<1>0. conn \in Connection /\ conn' \in SocketPumps(conn)
  BY DEF PipeInv, TypeOK, Pump
<1>1. CASE conn' \in PumpConnects(conn)
  BY <1>1, EndsPipe DEF PumpConnect
<1>2. CASE conn' = conn
  BY <1>2, PipeStutters
<1>3. ASSUME NEW e \in FlushOutputs(conn),
             conn' \in IF IsConnected(e) THEN ReadInputs(e) ELSE {e}
      PROVE  [Pipe!Next]_(Pipe!vars)
  <2>1. e \in Connection
    BY <1>0, FlushOutputsFact
  <2>2. CASE e.peer = "none" /\ ~IsConnected(e)
             /\ Pipe!IsPrefix(Replies(e), Replies(conn))
    BY <1>3, <2>2, PipeBreaks
  <2>3. CASE /\ e.peer = conn.peer /\ Replies(e) = Replies(conn)
             /\ conn.peer = "open" => Requests(e) = Requests(conn)
    <3>1. CASE conn' = e
      BY <2>3, <3>1, PipeStutters
    <3>2. CASE conn' \in ReadInputs(e)
      <4>1. CASE /\ conn'.peer = e.peer /\ Requests(conn') = Requests(e)
                 /\ Replies(conn') = Replies(e)
        BY <2>3, <4>1, PipeStutters
      <4>2. CASE conn'.peer = "none" /\ Pipe!IsPrefix(Replies(conn'), Replies(e))
        BY <2>3, <4>2, PipeBreaks
      <4> QED  BY <2>1, <3>2, <4>1, <4>2, ReadInputsPipe
    <3> QED  BY <1>3, <3>1, <3>2
  <2> QED  BY <1>0, <2>2, <2>3, FlushOutputsPipe
<1> QED  BY <1>0, <1>1, <1>2, <1>3 DEF SocketPumps

\* Write: on an open connection the packet is behind all that is on its way;
\* on one that is lost it goes nowhere (Write).
LEMMA WritePipe ==
    ASSUME PipeInv, NEW p \in ClientItems, Write(p)
    PROVE  [Pipe!Next]_(Pipe!vars)
<1>0. /\ conn \in Connection /\ conn' \in Writes(conn, <<p>>)
      /\ p \in ClientPacket /\ <<p>> \in Seq(ClientPacket)
  BY ItemsFact DEF PipeInv, TypeOK, Write
<1>1. CASE ~IsConnected(conn)
  <2>1. conn' = conn
    BY <1>0, <1>1 DEF Writes
  <2> QED  BY <2>1, PipeStutters
<1>2. CASE IsConnected(conn) /\ conn.peer = "open"
  <2>1. /\ Requests(conn') = Requests(conn) \o <<p>> /\ conn'.peer = "open"
        /\ conn'.input = conn.input /\ conn'.rx = conn.rx
    BY <1>0, <1>2, WritesAll
  <2>2. Requests(conn') = Append(Requests(conn), p)
    BY <1>0, <2>1, TrafficFact, AppendIsConcat
  <2>3. IsUp /\ IsUp' = IsUp /\ ToServer' = Append(ToServer, p)
    BY <1>2, <2>1, <2>2 DEF IsUp, ToServer, Requests
  <2>4. ToClient' = ToClient
    BY <2>1 DEF ToClient
  <2>5. Pipe!ClientWrites(p)
    BY <2>3, <2>4 DEF Pipe!ClientWrites
  <2> QED  BY <2>5 DEF Pipe!Next
<1>3. CASE IsConnected(conn) /\ conn.peer # "open"
  <2> DEFINE filled == [conn EXCEPT !.output = conn.output \o <<p>>]
  <2>1. conn.output \o <<p>> \in Seq(ClientPacket)
    BY <1>0, ConcatProperties, TrafficFact
  <2>2. /\ filled \in Connection /\ filled.input = conn.input
        /\ filled.rx = conn.rx /\ filled.peer = conn.peer
    BY <1>0, <2>1 DEF Connection
  <2>3. conn' \in FlushOutputs(filled)
    BY <1>0, <1>3 DEF Writes
  <2> HIDE DEF filled
  <2>4. Replies(filled) = Replies(conn)
    BY <2>2 DEF Replies
  <2>5. CASE conn'.peer = filled.peer /\ Replies(conn') = Replies(filled)
    BY <1>3, <2>2, <2>4, <2>5, PipeStutters
  <2>6. CASE conn'.peer = "none" /\ Pipe!IsPrefix(Replies(conn'), Replies(filled))
    BY <2>4, <2>6, PipeBreaks
  <2> QED  BY <2>2, <2>3, <2>5, <2>6, FlushOutputsPipe
<1> QED  BY <1>1, <1>2, <1>3

\* One packet more or less at one end: ConsumeInput, and the server reading or
\* writing.
LEMMA EndsMovePipe ==
    ASSUME PipeInv,
           Consume \/ ServerReads \/ \E p \in ServerItems : ServerWrites(p)
    PROVE  Pipe!Next
<1>0. /\ conn \in Connection /\ Quiet(conn)
      /\ conn.wire \in Seq(ClientPacket) /\ conn.output \in Seq(ClientPacket)
      /\ conn.input \in Seq(ServerPacket) /\ conn.rx \in Seq(ServerPacket)
  BY TrafficFact DEF PipeInv, TypeOK
<1>1. CASE Consume
  <2>1. /\ conn.input # <<>> /\ conn'.input = Tail(conn.input)
        /\ conn'.rx = conn.rx /\ conn'.peer = conn.peer
        /\ conn'.wire = conn.wire /\ conn'.output = conn.output
    BY <1>0, <1>1 DEF Consume, ConsumeInput, Connection
  <2>2. PICK x : x = Head(conn.input)
    OBVIOUS
  <2>3. x \in ServerPacket
    BY <1>0, <2>1, <2>2, HeadTailProperties
  <2>4. /\ conn.input \o conn.rx # <<>>
        /\ Tail(conn.input) \o conn.rx = Tail(conn.input \o conn.rx)
    BY <1>0, <2>1, <2>3, EndsOfJoined
  <2>5. ToClient # <<>> /\ ToClient' = Tail(ToClient)
    BY <2>1, <2>4 DEF ToClient
  <2>6. UNCHANGED <<IsUp, ToServer>>
    BY <2>1 DEF IsUp, ToServer
  <2>7. Pipe!ClientReads
    BY <2>5, <2>6 DEF Pipe!ClientReads
  <2> QED  BY <2>7 DEF Pipe!Next
<1>2. CASE ServerReads
  <2>1. /\ conn.wire # <<>> /\ conn'.wire = Tail(conn.wire)
        /\ conn'.rx = conn.rx /\ conn'.peer = conn.peer
        /\ conn'.input = conn.input /\ conn'.output = conn.output
    BY <1>0, <1>2 DEF ServerReads, ServerReceives, Connection
  <2>2. conn.peer = "open"
    BY <1>0, <2>1 DEF Quiet
  <2>3. PICK x : x = Head(conn.wire)
    OBVIOUS
  <2>4. x \in ClientPacket
    BY <1>0, <2>1, <2>3, HeadTailProperties
  <2>5. /\ conn.wire \o conn.output # <<>>
        /\ Tail(conn.wire) \o conn.output = Tail(conn.wire \o conn.output)
    BY <1>0, <2>1, <2>4, EndsOfJoined
  <2>6. IsUp /\ ToServer # <<>> /\ ToServer' = Tail(ToServer)
    BY <2>1, <2>2, <2>5 DEF IsUp, ToServer
  <2>7. UNCHANGED <<IsUp, ToClient>>
    BY <2>1 DEF IsUp, ToClient
  <2>8. Pipe!ServerReads
    BY <2>6, <2>7 DEF Pipe!ServerReads
  <2> QED  BY <2>8 DEF Pipe!Next
<1>3. ASSUME NEW p \in ServerItems, ServerWrites(p)
      PROVE  Pipe!Next
  <2>1. /\ conn.peer = "open" /\ conn'.rx = Append(conn.rx, p)
        /\ conn'.input = conn.input /\ conn'.peer = conn.peer
        /\ conn'.wire = conn.wire /\ conn'.output = conn.output
    BY <1>0, <1>3 DEF ServerWrites, ServerSends, Connection
  <2>2. conn.input \o Append(conn.rx, p) = Append(conn.input \o conn.rx, p)
    <3>1. p \in ServerPacket
      BY ItemsFact
    <3>2. /\ conn.input \in Seq(ServerPacket) /\ conn.rx \in Seq(ServerPacket)
      BY <1>0
    <3> DEFINE rest == conn.rx
               first == conn.input
    <3>3. first \in Seq(ServerPacket) /\ rest \in Seq(ServerPacket)
      BY <3>2
    <3> HIDE DEF first, rest
    <3>4. first \o Append(rest, p) = Append(first \o rest, p)
      BY <3>1, <3>3, EndsOfJoined
    <3> QED  BY <3>4 DEF first, rest
  <2>3. IsUp /\ ToClient' = Append(ToClient, p)
    BY <2>1, <2>2 DEF IsUp, ToClient
  <2>4. UNCHANGED <<IsUp, ToServer>>
    BY <2>1 DEF IsUp, ToServer
  <2>5. Pipe!ServerWrites(p)
    BY <2>3, <2>4 DEF Pipe!ServerWrites
  <2> QED  BY <2>5 DEF Pipe!Next
<1> QED  BY <1>1, <1>2, <1>3

\* The socket starts as a pipe does: down and empty.
LEMMA InitPipe == Init => PipeInv /\ Pipe!Init
<1> SUFFICES ASSUME Init PROVE PipeInv /\ Pipe!Init
  OBVIOUS
<1>1. /\ conn \in Connection /\ conn.state = "CLOSED" /\ conn.peer = "none"
      /\ conn.wire = <<>> /\ conn.input = <<>> /\ conn.rx = <<>>
  BY NewSocketFact DEF Init, NewSocket
<1>2. PipeInv
  BY <1>1 DEF PipeInv, TypeOK, Quiet, Fresh
<1>3. <<>> \o <<>> = <<>>
  BY ConcatEmptySeq
<1>4. IsUp = FALSE /\ ToServer = <<>> /\ ToClient = <<>>
  BY <1>1, <1>3 DEF IsUp, ToServer, ToClient
<1> QED  BY <1>2, <1>4 DEF Pipe!Init

\* Every method and every event leaves the socket well formed: a connect under
\* way has nothing under way, and a lost connection nothing on the wire.
LEMMA NextPipeInv == PipeInv /\ [Next]_conn => PipeInv'
<1> SUFFICES ASSUME PipeInv, [Next]_conn PROVE PipeInv'
  OBVIOUS
<1> USE DEF PipeInv, TypeOK
<1>1. CASE UNCHANGED conn
  BY <1>1 DEF Quiet, Fresh
<1>2. CASE BeginConnect
  BY <1>2, BeginConnectsFact, BeginConnectsPipe DEF BeginConnect
<1>3. CASE PumpConnect
  <2>1. conn' \in Connection /\ Fresh(conn')
    BY <1>3, PumpConnectsFact, PumpConnectsPipe DEF PumpConnect
  <2>2. Quiet(conn')
    BY <1>3, PumpConnectsCarries DEF PumpConnect, Carries
  <2> QED  BY <2>1, <2>2
<1>4. CASE Pump
  <2>1. conn' \in Connection /\ Quiet(conn')
    BY <1>4, SocketPumpsFact, SocketPumpsCarries DEF Pump, Carries
  <2>2. Fresh(conn')
    <3>1. CASE conn.state = "CONNECTING"
      <4>1. conn' \in PumpConnects(conn)
        BY <1>4, <3>1 DEF Pump, SocketPumps
      <4> QED  BY <4>1, PumpConnectsPipe
    <3>2. CASE conn.state # "CONNECTING"
      <4>1. conn' = conn \/ conn'.state \in {"CONNECTED", "CLOSED"}
        BY <1>4, <3>2, SocketPumpsFact DEF Pump, Connection, SocketState
      <4> QED  BY <4>1, NotConnecting
    <3> QED  BY <3>1, <3>2
  <2> QED  BY <2>1, <2>2
<1>5. CASE Consume
  <2>1. /\ conn' \in Connection /\ conn'.state = conn.state /\ conn.input # <<>>
        /\ conn'.peer = conn.peer /\ conn'.wire = conn.wire
    BY <1>5, ConsumeInputFact DEF Consume, ConsumeInput, Connection
  <2> QED  BY <2>1 DEF Quiet, Fresh
<1>6. CASE CloseSocket
  <2>1. /\ conn' \in Connection /\ conn'.state = "CLOSED"
        /\ conn'.wire = <<>>
    BY <1>6, CloseFact DEF CloseSocket, Close, NewSocket
  <2> QED  BY <2>1 DEF Quiet, Fresh
<1>7. ASSUME NEW p \in ClientItems, Write(p) PROVE PipeInv'
  <2>1. <<p>> \in Seq(ClientPacket) /\ conn' \in Writes(conn, <<p>>)
    BY <1>7, ItemsFact DEF Write
  <2>2. conn' \in Connection /\ conn'.state \in {conn.state, "CLOSED"}
    BY <2>1, WritesFact
  <2>3. Quiet(conn')
    BY <2>1, WritesCarries DEF Carries
  <2>4. Fresh(conn')
    <3>1. CASE conn.state = "CONNECTING"
      BY <2>1, <3>1 DEF Writes, IsConnected
    <3>2. CASE conn.state # "CONNECTING"
      BY <2>2, <3>2, NotConnecting
    <3> QED  BY <3>1, <3>2
  <2> QED  BY <2>2, <2>3, <2>4
<1>8. CASE ServerReads
  <2>1. /\ conn' \in Connection /\ conn'.state = conn.state /\ conn.wire # <<>>
        /\ conn'.peer = conn.peer
    BY <1>8, ServerReceivesFact DEF ServerReads, ServerReceives, Connection
  <2> QED  BY <2>1 DEF Quiet, Fresh
<1>9. CASE ServerHangsUp
  <2>1. /\ conn' \in Connection /\ conn'.state = conn.state
        /\ conn.peer = "open" /\ conn'.wire = <<>>
    BY <1>9, ServerClosesFact DEF ServerHangsUp, ServerCloses, Connection
  <2> QED  BY <2>1 DEF Quiet, Fresh
<1>10. ASSUME NEW n \in 0 .. Len(conn.rx), conn.peer = "open",
              conn' = NetworkBreaks(conn, n)
       PROVE  PipeInv'
  <2>1. /\ conn' \in Connection /\ conn'.state = conn.state /\ conn'.wire = <<>>
    BY <1>10, NetworkBreaksFact DEF NetworkBreaks, Connection
  <2> QED  BY <1>10, <2>1 DEF Quiet, Fresh
<1>11. ASSUME NEW p \in ServerItems, ServerWrites(p) PROVE PipeInv'
  <2>1. /\ conn' \in Connection /\ conn'.state = conn.state
        /\ conn.peer = "open" /\ conn'.peer = "open"
    BY <1>11, ItemsFact, ServerSendsFact DEF ServerWrites, ServerSends, Connection
  <2> QED  BY <2>1 DEF Quiet, Fresh
<1> QED  BY <1>1, <1>2, <1>3, <1>4, <1>5, <1>6, <1>7, <1>8, <1>9, <1>10, <1>11
         DEF Next, NetworkFails

LEMMA NextPipe == PipeInv /\ [Next]_conn => [Pipe!Next]_(Pipe!vars)
<1> SUFFICES ASSUME PipeInv, [Next]_conn PROVE [Pipe!Next]_(Pipe!vars)
  OBVIOUS
<1>1. CASE UNCHANGED conn
  BY <1>1, PipeStutters
<1>2. CASE BeginConnect \/ PumpConnect \/ CloseSocket \/ ServerHangsUp \/ NetworkFails
  BY <1>2, EndsPipe
<1>3. CASE Pump
  BY <1>3, PumpPipe
<1>4. CASE \E p \in ClientItems : Write(p)
  BY <1>4, WritePipe
<1>5. CASE Consume \/ ServerReads \/ \E p \in ServerItems : ServerWrites(p)
  BY <1>5, EndsMovePipe
<1> QED  BY <1>1, <1>2, <1>3, <1>4, <1>5 DEF Next

\* For any number of packets under way and whatever order its methods are
\* called in, NetNatsueSocket is a pipe: partial sends and receives repeat,
\* drop and reorder nothing, a failure loses only tails, and a new connection
\* starts empty although Close keeps the input (BeginConnect, PumpConnect,
\* Write, Pump, ConsumeInput, Close).
THEOREM SocketIsAPipe == Spec => IsAPipe
<1>1. Spec => []PipeInv
  BY InitPipe, NextPipeInv, PTL DEF Spec
<1> QED  BY <1>1, InitPipe, NextPipe, PTL DEF Spec, IsAPipe, Pipe!Spec

\* A pump with nothing to write leaves all that was on its way in on its way in.
LEMMA PumpKeepsReplies ==
    ASSUME NEW c \in Connection, Quiet(c), Fresh(c), NEW d \in SocketPumps(c),
           c.peer # "reset", c.output = <<>>
    PROVE  Replies(d) = Replies(c)
<1>1. c.rx \in Seq(ServerPacket) /\ c.input \in Seq(ServerPacket)
  BY TrafficFact
<1>2. CASE c.state = "CONNECTING"
  <2>1. c.input = <<>> /\ c.rx = <<>> /\ Replies(c) = <<>>
    BY <1>2, ConcatEmptySeq DEF Fresh, Replies
  <2>2. d \in PumpConnects(c)
    BY <1>2 DEF SocketPumps
  <2> QED  BY <2>1, <2>2, PumpConnectsPipe
<1>3. CASE c.state # "CONNECTING" /\ ~IsConnected(c)
  BY <1>3 DEF SocketPumps
<1>4. CASE IsConnected(c)
  <2>1. PICK e \in FlushOutputs(c) : d \in (IF IsConnected(e) THEN ReadInputs(e) ELSE {e})
    BY <1>4 DEF SocketPumps, IsConnected
  <2>2. e \in {Sends(c, n) : n \in 0 .. Len(c.output)}
    BY <2>1 DEF FlushOutputs
  <2>3. /\ e \in Connection /\ e.peer = c.peer /\ e.input = c.input /\ e.rx = c.rx
    <3>1. PICK n \in 0 .. Len(c.output) : e = Sends(c, n)
      BY <2>2
    <3>2. e \in Connection
      BY <3>1, SendsFact
    <3>3. e.peer = c.peer /\ e.input = c.input /\ e.rx = c.rx
      BY <3>1 DEF Sends, Connection
    <3> QED  BY <3>2, <3>3
  <2>4. Replies(e) = Replies(c)
    BY <2>3 DEF Replies
  <2>5. CASE d = e
    BY <2>4, <2>5
  <2>6. CASE \E n \in 0 .. Len(e.rx) : d = Receives(e, n)
    <3>1. PICK n \in 0 .. Len(e.rx) : d = Receives(e, n)
      BY <2>6
    <3> DEFINE pulled == SubSeq(c.rx, 1, n)
               left == SubSeq(c.rx, n + 1, Len(c.rx))
    <3>2. d.input = c.input \o pulled /\ d.rx = left
      BY <2>3, <3>1 DEF Receives, Connection
    <3>3. /\ pulled \in Seq(ServerPacket) /\ left \in Seq(ServerPacket)
          /\ pulled \o left = c.rx
      BY <1>1, <2>3, CutFact
    <3> HIDE DEF pulled, left
    <3>4. (c.input \o pulled) \o left = c.input \o (pulled \o left)
      BY <1>1, <3>3, PacketsAssociate
    <3> QED  BY <3>2, <3>3, <3>4 DEF Replies
  <2>7. CASE d = Close(Receives(e, Len(e.rx)))
    <3>1. d.input = e.input \o SubSeq(e.rx, 1, Len(e.rx)) /\ d.rx = <<>>
      BY <2>3, <2>7 DEF Close, NewSocket, Receives, Connection
    <3>2. SubSeq(e.rx, 1, Len(e.rx)) = e.rx
      BY <1>1, <2>3, SubSeqFull
    <3>3. /\ e.input \o e.rx \in Seq(ServerPacket)
          /\ (e.input \o e.rx) \o <<>> = e.input \o e.rx
      BY <1>1, <2>3, JoinFact, ConcatEmptySeq
    <3> QED  BY <2>4, <3>1, <3>2, <3>3 DEF Replies
  <2>8. d = e \/ d \in ReadInputs(e)
    BY <2>1
  <2>9. e.peer # "reset"
    BY <2>3
  <2>10. \/ d = e \/ \E n \in 0 .. Len(e.rx) : d = Receives(e, n)
         \/ d = Close(Receives(e, Len(e.rx)))
    BY <2>8, <2>9 DEF ReadInputs
  <2> QED  BY <2>5, <2>6, <2>7, <2>10
<1> QED  BY <1>2, <1>3, <1>4

\* However much the server sent before it hung up in order, and however little
\* of it each recv returns, the pump that finds the end of the stream has put
\* all of it into the input (Pump, ReadInput).
THEOREM NothingIsLostAtTheEnd == Spec => PumpLosesNothing
<1>1. Spec => []PipeInv
  BY InitPipe, NextPipeInv, PTL DEF Spec
<1>2. PipeInv => [Pump /\ conn.peer # "reset" /\ conn.output = <<>>
                   => ToClient' = ToClient]_conn
  <2> SUFFICES ASSUME PipeInv, Pump, conn.peer # "reset", conn.output = <<>>
               PROVE  ToClient' = ToClient
    OBVIOUS
  <2>1. conn \in Connection /\ conn' \in SocketPumps(conn)
    BY DEF PipeInv, TypeOK, Pump
  <2>2. Replies(conn') = Replies(conn)
    BY <2>1, PumpKeepsReplies DEF PipeInv
  <2> QED  BY <2>2 DEF Replies, ToClient
<1> QED  BY <1>1, <1>2, PTL DEF PumpLosesNothing
=============================================================================
