# A TLA+ model of NetNatsue

NetNatsue is the client library that connects Docking Station to a Natsue
server: one class, `DSNetManager`, that the game engine calls from one thread,
on top of a non-blocking socket, `NetNatsueSocket`. This directory models the
session, the transactions, the presence register, the messages, the socket, the
framing of the byte stream, the spool directories, the server list, and the
numbers, parsers and packers they use; TLC checks small instances of them, and
TLAPS proves what holds of all.

Line numbers are those of the repository; `cpp` and `h` alone are
`DSNetManager.cpp` and `DSNetManager.h`.

## 1. Inventory

The library has one thread and no callbacks. What makes it hard is that a call
reads the socket at a few points, and between two of those points the server
and the network have moved on; that several methods pump the same connection
and despatch each other's packets; that half of the queries span many calls
("block and poll"); and that a connection can die inside any write.

| component | state | operations | hard behaviour | what makes it correct |
|---|---|---|---|---|
| session and login (cpp 304-546, 729-808) | `myConnectPhase`, `myConnectDeadline`, `myLastError`, `myUsersForWWR`, `mySocket` | `ConnectInBackground`, `Connect`, `Disconnect`, `ConnectionLost`, `PumpConnectPhase`, `HandleHandshakeResponse` | failure in the middle of a login; a login that succeeds on a socket already closed; an attempt ended by another method's pump | phase and socket agree; no byte of an old connection is read; an attempt reports how it ended |
| pump and despatch (cpp 600-956) | the input buffer | `Pump`, `ProcessInput`, `HandlePacket` | only the requestor knows the length of a reply; a packet of unknown length ends the session; despatch may close the socket it reads from | the stream stays framed |
| transactions and waits (cpp 958-1025) | `myTransactions`, `myNextTicketNumber` | `StartTransaction`, `AbandonTransaction`, `PollTransaction`, `WaitForTransaction` | replies late, out of order, or never; waiters that give up; waits nested in the per-tick pump | each waiter its own transaction; every wait ends |
| queries (cpp 1204-1406) | `myPendingUserFetches`, `myRandomUserQuery`, `myStatusQuery` | `FetchUserData`, `DSFetchRandomUser` (both), `GetStatus` | a query outlives calls and even its connection | asked once, blocked, answered once, about what was asked |
| presence (cpp 1027-1202) | `myPresence`, `myWWRMembers`, `myChangedUsers`, `myPendingWWRAdds` | `IsUserOnline`, `AddToWWR`, `RemoveFromWWR`, `NextChangedUserWWR` | a change belongs either to a waiting `AddToWWR` or to the queue | no change is lost, none is queued twice |
| messages (cpp 1408-1444) | `myIncomingMessages` | `PostDirectMessage`, `GetMessages` | a failed post ends the session | nothing beyond framing |
| warp spool (cpp 84-251, 1446-1578) | the outbox and inbox directories, `myOutboxDirty`, `myNextOutboxScan`; the server's hold on a creature | `ReturnUniqueOutboxFilename`, `ScanOutbox`, `SendOutboxFile`, `SpoolPrayFile`, `FindUserWhoSentFile` | connection lost between two files; file operations that fail; a crash between two of them; users known by file names | nothing half written is seen; nothing exported is lost in the library; a ping is answered after what came ahead of it was dealt with |
| queue (cpp 1580-1630) | `myQueuedMessages` | `QueueMessage`, `SendOrdinaryMessages`, `DSFeedHistory` | a synchronous wait inside the tick | the tick returns |
| server list (cpp 354-410, 564-597, 760-800) | `myServers`, `myServerRotation`, `ourOverrideHost` | `SetServerList`, `OverrideHost`, rotation, lists in a handshake response | a list replaced during rotation, or cut short on the wire | index in range; every server gets its turn |
| socket (NetNatsueSocket) | `myState`, `myInput`, `myOutput` | `BeginConnect`, `PumpConnect`, `Close`, `Write`, `Pump`, `ConsumeInput` | partial `send` and `recv`; data behind a hang-up | a pipe: nothing repeated, dropped or reordered |
| packet formats (NetNatsueProtocol) | none | builders, parsers, `BabelUIN` | lengths from the wire | what is built is parsed back |
| packing (NetMemoryPack, NetMemoryUnpack) | a buffer and a cursor | `PackIn`, `PackInInt`, `PackOut` | bounds at the edges of `int`; a pack cut short | what was packed is read back, or what arrived of it (that no other message is read past its end does not hold, section 6) |
| history packer (HistoryTransferOut) | what was written, and the blob | `Write...`, `Serialise`, `GetAddress`, `GetLength` | a serialisation cached for ever | address and length are of one blob, laid out as its reader expects |

Components interact by calls only. Every method that pumps runs `ProcessInput`
and so may complete any transaction, change anybody's presence, spool a file or
lose the connection; `ConnectionLost` and `Disconnect` reach into the
transactions and the presence; `HandleHandshakeResponse` makes the outbox due.
The hazards this adds up to are listed in `PROJECT.json` with the line where
each bites and the properties that watch it.

## 2. Modules

```
NatsueProtocol            packets, who sends them, requests and replies
  NetNatsueSocket         a connection and what each socket method may leave of it
    SocketClient          the socket alone          ==>  BytePipe
    DSNetManager          the session, composed with
      TransactionTable      myTransactions
        PresenceRegister    who is online, watched, waited for, changed
      WarpSpool             outbox and inbox
      DSNetManagerProperties   invariants, progress  ==>  BlockingQueries
        MCManager              instances
        PresenceWatch          the game that watches users
          MCPresence           instances
NatsueFramer              ProcessInput on cells     ==>  BytePipe
SpoolFiles                the spool, file by file, over crashes, with the server
SpoolNames                what the names of spool files say
ServerList                which server is tried next
Words                     int and unsigned int at a small width
  Counters                clock, tickets, virtual socket numbers
  WireParsers             what the two parsers accept
  MemoryPacking           NetMemoryPack and NetMemoryUnpack
    MCPacking               instances
HistoryTransfer           the history blob
  MCParts                 the parts that stand alone, one instance for all

SequenceProofs                induction, recursion, sequences by position
  NetNatsueSocketProofs       what each socket method leaves
    DSNetManagerProofs        types, phase and socket, the outbox
      DSNetManagerTicketProofs     framing, transactions, the contract of the queries
        DSNetManagerPresenceProofs    presence, the game that watches
    PartsProofs               the parts that stand alone, the socket as a pipe
  NatsueFramerProofs          the framing, and the framer as a pipe
SpoolFilesProofs              the spool
```

**NatsueProtocol.** A packet is a record: its type, its ticket, the user or file
it is `about`, the one bit a handler branches on, and `extra`, the units between
its header and its further data (the 16 bytes of a status reply are one unit).
The type of a reply is not reliable (README of the library), so every reply is
`RESPONSE` and is known by its ticket or not at all. `UNKNOWN` is a packet the
client has no length for; `MALFORMED` is one it has a length for and cannot parse.

**NetNatsueSocket.** Each method is an operator from a connection to the *set* of
connections it may leave: `send` takes any part of the output, `recv` any part of
what has arrived, the end of a stream comes after all of it, a reset may come
instead of some of it. `peer`, `wire`, `rx`, `owed` and `login` are the server's
end. Every `bool` method returns whether the connection is still up, so results
are read off the state. Packets move whole: neither end can act on a packet
before its last byte, so the partial packet at the end of a buffer behaves like
one that has not passed yet. `STATE_RESOLVING` is never assigned in the code
and is not there.

**TransactionTable, PresenceRegister, WarpSpool.** The three data structures with
the helpers that change them, named as in the code. `myTransactions` is a
function on the tickets in use, so that "the entry is gone" and "the entry is
done" stay two different things. `pendingAdds` maps a user to whether the
deadline has passed.

**DSNetManager.** A call that does not pump is one action. A call that pumps is
cut where it touches the socket or loops, with a program counter:

| `pc` | code |
|---|---|
| `engine` | no call is running |
| `pump` | `PumpConnectPhase` or `mySocket.Pump()` is next (cpp 426, 459, 613) |
| `process` | the head of the loop of `ProcessInput` (cpp 622) |
| `register` | the loop of `SendWWRRegistrations` (cpp 1079) |
| `pumped` | `ProcessInput` has returned (cpp 463, 476, 616) |
| `return` | `Pump` has returned to its method |
| `scan`, `send` | `ScanOutbox` and its loop (cpp 1557, 1571) |

`call` has the locals that live across those points: the method, its argument,
the ticket a wait waits on, and `alive` of `Pump`. The synchronous variants
(`Connect`, `DSFetchRandomUser()`) are the same actions with a return of `block`
turned into another round. A clock is what the code does with it: a deadline
has passed or it has not, and may pass at any moment. The conditional structure
of each method is in its action: the two reasons `PumpConnectPhase` fails, the
early return of `UpdatePresence`, the `Online()` tests that `GetStatus` makes
while pending and the other queries do not, `WaitForTransaction`'s order of
tests (done, offline, late). `ProcessInput` looks tickets up before types, and a
reply cut with the wrong length turns the rest of the input into `UNKNOWN`, which
is what misread bytes are to the client.

**PresenceWatch** adds what the game was last told of every user it watches.

**NatsueFramer** is where a packet is not one item. It is as many cells as its
length says; the network delivers any prefix of what was sent, and each round of
`ProcessInput` reads a header at the head of the input, *wherever that is*, and
takes the length from the transaction if the ticket is known, from the type if not
(cpp 624-704). `stream` runs from the head of `myInput` to the last cell sent, and
`inputSize` cells of it have arrived. All early returns are there: no header yet,
further data beyond `MAX_FURTHER_DATA`, an unknown type, a handshake response whose
fixed part is not here, a body not here, a refused login whose input goes on being
read, an acceptance of a virtual circuit that cannot be written. `DSNetManager`
relies on what it shows: that the loop sees whole packets, in order.

**SpoolFiles** looks closer at the directories than `WarpSpool`, as a model of its own
(that the two agree is not checked). `outbox`, `inbox`
and `temp` are what is on disk; `job` walks through the four operations of
`WriteWholeFileAtomic` (open, write, remove, rename, cpp 104-143) and the two of a
file sent; `Crash` may come between any two and keeps only the disk. Each
operation can fail where the code looks at its result, and the one the code
does not look at (removing a sent file, cpp 1553) too. The inbox directory may be
unset, at first and after a restart, until the game sets it; a creature that comes
before that is dropped (cpp 1491-1496). `FileExists` opens the file (cpp 91-98), so
that one it may not read counts as absent to it; here a file that exists is found.
What the properties compare with is counted beside: how often each creature was
spooled, cut off between offer and confirmation, or left in the outbox after it was
sent. The server's part, that it holds a creature until its ping is answered and
offers it once a session, is external: the README of the library describes it.

**SpoolNames** has the conversion between a user and the name of a file:
`ToString` and `FromString` of an id, digit by digit, with what `atoi` makes of too
large a number (as compiled: its low bits; the clamping of `strtol` sets in at a `long`,
beyond the digits here), and the reading of a name from its last dash on (cpp 145-251).

**ServerList** has the choice in `StartConnecting`, the rotation, and the list a
handshake response brings, which may be cut short at any entry.

**Words, Counters, WireParsers, MemoryPacking.** Arithmetic as it is compiled, at
a width of a few bits: `Half` is 2^31 in the code. `Counters` runs the clock from
every start past its wrap and draws every ticket and virtual socket number there
is. `WireParsers` compares the parsers' verdict with what fits in plain integers.
`MemoryPacking` packs and reads back, byte by byte. The sums of its bounds checks are
those of an `int` and wrap (NetMemoryPack.cpp:26, NetMemoryUnpack.cpp:20 and 32). What is
unpacked is any prefix of the pack, or one of the messages `Foreign` that nobody packed;
once bytes were written behind a pack nothing more is said of it (`Overrun`).

**HistoryTransfer** lets the engine write in any order and ask for the address and
the length at any time, and keeps what had been written when the blob was built.

**The environment** is the server and the network: the server reads requests and
answers them in any order or never, volunteers the packets `ServerTypes` names
once it accepted a login, hangs up or is cut off at any time, with part of what
it sent lost.

## 3. Abstract specifications

`BytePipe` is what a user of the socket counts on; `SocketClient` calls the
methods in *any* order and refines it with `toClient = input \o rx` and
`toServer = wire \o output`. `BlockingQueries` is what a script that blocks counts
on: a question is asked once, says block while the answer is awaited, and gets
one final answer, about what was asked or nothing. `DSNetManager` refines it with
`asked` the pending queries and `answer` the last result returned.

`NatsueFramer` refines `BytePipe` as well, one layer up: with `toClient` the packets
of which a last cell is still in the stream, the loop of `ProcessInput` is a pipe of
*packets* (`FramesPackets`). `SocketClient` and `NatsueFramer` together are what lets
`DSNetManager` treat packets as items.

## 4. Runs

| run | question | bounds | distinct states |
|---|---|---|---|
| Session | Does the stream stay framed, do phase and socket agree, and do queries keep their contract, whatever order replies, timeouts and losses come in? | users a, b; 3 tickets; 1 packet each way | 1 007 000 |
| Progress | Do `Connect`, the synchronous `DSFetchRandomUser`, `GetMessages`, `IsUserOnline` and the tick return, with the `Send` of a queued message waiting inside it, and does every blocked user or random fetch end? Does the stream stay framed when that wait meets another? | user a; 3 tickets; 1 packet each way; 1 queued history; a server that volunteers nothing | 141 000 |
| Presence | Is the game told of every change, does `AddToWWR` wait only for the unheard of, and is nobody queued twice? | user a; 2 tickets; 2 packets each way; users to register `<<>>` or `<<a>>` | 459 000 |
| Mail | Does a file ever leave the outbox unsent, among messages, pings, watched users and waits inside the tick? | users a (ourselves), b (malformed); a good and a badly named file; 2 tickets; 1 queued history | 2 406 000 |
| Spool | Is anything lost, half written, answered out of order or spooled twice for no reason, whatever breaks and whenever the process dies? Is everything sent and confirmed in the end? | 2 creatures to export, 1 to receive; 2 serials; 1 trouble (a crash, a break or a failed operation) | 252 000 |
| Parts | The socket, the framer, the server list, the clock, the numbers, the parsers, the packing, the history blob and the names, each alone | see below | 86 000 |
| six more | the disagreements of section 6 | the smallest instance that shows each | |

*Why the bounds are enough.* Three tickets are a handshake and two transactions,
or two handshakes and one: two waiters at once, and one waiter over a reconnect,
are the cases the table can confuse; in Progress they are the login, a pending fetch or
an abandoned reply, and the `Send` inside the tick. One packet each way at a time still
lets a reply of an abandoned request arrive after the next request, because requests
wait unanswered in `owed` without bound; two packets each way, in Presence, are
what makes a change arrive behind another. Two users tell one from another; the
code never relates three, and the register treats each alone but for the order of the
queue, so Presence has one (`NobodyQueuedTwice` and the other theorems are for any). The 32 bit wraps are outside these bounds and are
`Counters`'.

The spool's one trouble can fall between any two operations on any file; two
would only repeat it on the other file. Two serials and two creatures are one
name taken while the next is wanted; a third name behaves like the second.

`Parts` chooses one part in its initial state, since the parts share no state.
Its bounds: 2 packets a side in the socket; 6 cells under way, header 2 and fixed
parts 3 (so a packet can end before, with and after its neighbour's header), twelve
packets of every kind of length, two of which are too long to be believed, and two
transactions of unequal length; lists of up to 3 of 2 servers, changed twice; words of 16
values for clock and counters, whose full range and wrap are walked through;
sizes up to 7 and lengths from -8 to 7 for the parsers; packs of at most 7 bytes with 2
items, made too small too, and three messages nobody packed; 2 entries written in a
history; every text of up to 4 of `0 1 2 + -` for an id, and senders at both ends of the
range.

*What the properties say.*

- `InSync`: every reply the server sent and we did not consume finds an entry that
  is not done and knows its length. It is what `AbandonTransaction` keeping entries
  is for (h 180-182); with entries erased TLC misreads the stream in a few steps.
- `NoStaleBytes`: a connection begins with empty buffers though `Close` keeps input.
- `PhaseMatchesSocket`: no open socket behind a session given up, no login that
  waits on a dead socket for ever, and `alive` still true when it is looked at.
- `EachQueryItsOwnTransaction`, `OnlineAnswerIsAboutTheUser`, `QueriesKeepContract`:
  no reply, however late, answers somebody else's question.
- `NoLostChange`, `PendingAddsUnheard`, `QueuedOnce`: the split between a waiting
  `AddToWWR` and the change queue loses nothing and repeats nothing. `NoLostChange`
  leaves out a session that replaced a dead one without `ConnectionLost`
  (`revived`), and users whose `AddToWWR` the game still has to poll: a change lost there
  would not be seen.
- `UnsentFilesStay`: a well named file leaves the outbox only in a step that leaves
  the session online with the message on its way.
- `CallsReturn`, `QueriesEnd`: below. `AddToWWR` and `GetStatus` are not among the calls of
  Progress, whose graph would grow beyond what TLC can search for cycles: the first pumps
  once, as `GetMessages` does, and the second polls as `FetchUserData` does, with `Online()`
  tests in between. They are in Presence and in Session, for safety only.
- `IsAPipe`: partial sends and receives, in any order of calls.
- `Aligned`, `WaitsOnlyForMore`, `FramesPackets`: the loop never reads a header from
  the middle of a packet, never sleeps over a whole one, and hands each packet out
  once and in order. `Aligned` is what `InSync` means for the bytes.
- `WholeFilesOnly`, `KeptUntilTaken`: the game never sees half a file in the inbox, and
  the `remove` before the `rename` never removes one it has not taken.
- `NoExportLost`, `SentAgainOnlyIfUnremoved`: an exported creature is on disk, under way
  or with the server, unless it was under way when a connection or the process ended;
  the server gets it twice only if its file could not be removed.
- `AnsweredInOrder`, `SpooledAgainOnlyIfCutOff`: a ping is answered only after its
  creature was spooled or given up, and the game gets a creature twice only for a
  session that ended between its offer and its confirmation. That what is confirmed was
  *spooled* does not hold (`ConfirmedWasSpooled`, section 6).
- `HeldIsConfirmed`, `OutboxDrains`: all creatures held are confirmed and all exported
  leave the outbox in the end.
- `ServersKept`, `EveryServerTried`: the list changes only when the game sets one or an
  accepted login leaves at least one server in it, which a list cut short on the wire may
  (cpp 788-797), and then the rotation starts over; a server that cannot be reached does
  not keep the client from the others.
- `PumpLosesNothing`: the pump that finds the server has hung up keeps all the server
  sent before it.
- `DeadlineExact`, `TimeOnlineExact`, `NumbersAreFresh`: exact for how long, and what
  happens after; no number is zero or comes again before all the others.
- `ParsesWhatFits`: the parsers accept just what lies inside the bytes that came, whatever
  the lengths say.
- `ReadsWhatWasPacked`: a pack that was made large enough is read back item by item, or up
  to the first item that did not all arrive. It says nothing of other messages; what
  NetMemoryUnpack.h promises of those does not hold (`ReadsInsideTheBytes`, section 6).
- `AddressAndLengthAgree`, `BlobFollowsLayout`: the two getters never speak of
  different blobs, though each may be the one that builds it.
- `NamedUserIsFound`: `FindUserWhoSentFile` gives back the user a name was made for.
  It leaves out negative ids, and an id too large for an `int`.

*Fairness.* `FairSpec` assumes that a running call goes on
(`WF_vars(ManagerSteps)`: it is a program on one thread), that clocks reach
deadlines (weak fairness of each deadline), and that a script blocked on a query
calls it again each time the engine comes round to it (`SF_vars(PollQuery(s))`:
strong, because the engine also makes other calls in between; the block-and-poll
pattern is the engine's, README "Design notes"). Nothing is assumed of the server
or the network: `CallsReturn` and `QueriesEnd` hold against a server that is
silent for ever. Tickets and packets are bounded, so a game that connects again
without end is seen only as far as the bounds go.

`FilesFairness` assumes that the tick runs, logs in again after a loss and goes on
with a begun job; that every tick handles input before it scans (strong fairness of
`DropWithoutInbox \/ SpoolBegins \/ HandlePing`, since a scan comes in between: `SendOrdinaryMessages` pumps
first, cpp 1593-1599); that the engine takes what is in its inbox between ticks (strong
fairness for the same reason); that the rescan timer falls due; and that server and network
work while a session is up. Crashes, breaks and failed operations are bounded, so they come
to an end. What the server and the engine do here are their promises, not this code's;
`OutboxDrains` and `HeldIsConfirmed` hold only under them. `ServerListFairness` assumes
that the game tries again and that an attempt ends, which its deadline sees to.

`CHECK_DEADLOCK FALSE`: the bounds let a behaviour come to a stop (no ticket
left), and the system itself may: an idle client with no connection has
nothing it must do.

Every property of a passing run has a mutant in `PROJECT.json`, a plausible bug
in one mapped definition, under which TLC finds that property violated.

## 5. Proofs

Checked by TLAPS for every value of the constants, under the named assumptions
the modules state (`SubjectAssumption`, `SpoolAssumption`, `ManagerAssumption`:
`Nobody` is no user or file, the malformed ids are users, the two query slots are
not users, the bounds are naturals; `FilesAssumption`, `ServerListAssumption`: bounds;
`FramerAssumption`, `PacketAssumption`: no fixed part is shorter than the header, lengths
are naturals, no ticket is `NoTicket`; `PackAssumption`: an int is two bytes, what is
packed are ints and strings no longer than an int can count, and so are messages nobody
packed; `NamesAssumption`: no two digits
are the same character, and none is a plus, a dash or a dot). TLC evaluates those assumptions
in every run of their modules.

Four properties depend on what a recursive definition computes, for every input: the sum
of the sizes of the items packed, the `FlattenSeq` of the blob's parts, the packets whose
last cell is in a stream, the digits of a number. SequenceProofs makes such definitions
usable without an induction theorem that takes an operator: `Induction` (a set that holds 0
and is closed under the successor holds every natural, from the well-foundedness of `<`) and
`RecursionExists` (a step function that maps a set to itself has its recursion). A proof
names the set, shows that some function satisfies the recursive equation, and gets from
`CHOOSE` that the function defined satisfies it. SequenceProofs also has what joining,
cutting and appending do to each position, which the proofs about the socket and the framer
use throughout. The recursion is a function of a `LET` over a bounded domain in each of
those definitions (`Size`, `Ended`, `Numeral`, `ValueOf`), for this reason.

| theorem | module | argument |
|---|---|---|
| `TypeCorrect`: `Spec => []TypeOK` | DSNetManagerProofs (on NetNatsueSocketProofs) | Inductive as it stands. One lemma for each socket operator (what a connection it leaves looks like), each table and register helper, and each action; `Next` is split once at the end. |
| `PhaseMatches`: `Spec => []PhaseMatchesSocket` | DSNetManagerProofs | The property itself is inductive only with its last two conjuncts: that `register` is reached only online, and that an `alive` found false stays true of the socket until `PumpEnd`. Without them `PumpEnd` could leave a dead login waiting. |
| `NothingStale`: `Spec => []NoStaleBytes` | DSNetManagerProofs | Proved together with the above: only `BeginConnects` makes a connection `CONNECTING`, and nothing is received or written before it is connected. |
| `WaitsAreUnheard`: `Spec => []PendingAddsUnheard` | DSNetManagerPresenceProofs | `PresenceSteps` names the few steps that touch presence; each keeps `pendingAdds` inside the watched users never heard of. |
| `NoChangeIsLost`: `WatchSpec => []NoLostChange` | DSNetManagerPresenceProofs | Two invariants. `LoginInv`: the server says nothing of anybody before it accepts the login, and what is still processed of a refused login is silent. `WatchInv`: without a session, and until one has registered its users, nobody is online, told online or waited for; every wait of `AddToWWR` blocks its user; and a watched user who is not waited for and whose presence differs from what the game was told is in the queue. The first is what keeps the second through a login that fails half way. |
| `FilesStayUntilSent`: `Spec => UnsentFilesStay` | DSNetManagerProofs | An action property, from `TypeOK`. `OutboxSteps` names the steps that take a file out of the outbox; a well named one was written in the same step, and `WritesAll` shows that what is written to an open connection is under way. |
| `NobodyQueuedTwice`: `Spec => []QueuedOnce` | DSNetManagerPresenceProofs | `Append` of somebody not in an injective sequence, and `Tail` of one, are injective; the rest leaves the queue alone or clears it. |
| `SpoolTypeCorrect`, `InboxIsWhole`, `InboxIsKept` | SpoolFilesProofs | `Writing`: while a creature is written its name is free in the inbox, its message is at the head of the input, and the temporary file is whole from the third operation on. That makes the rename put a whole file in place of none. |
| `ExportsAreKept`: `FilesSpec => []NoExportLost` | SpoolFilesProofs | `Sending`: a promised name is free when the game writes to it, and a file about to be removed holds a creature in transit, lost or got. `ExportedStays` shows that no step takes a creature out of that set. |
| `AnswersAreInOrder`: `FilesSpec => []AnsweredInOrder` | SpoolFilesProofs | `Offering`: a creature is held until it is confirmed, all that is under way was offered in this session, and every ping is behind its creature. `OfferSteps` names the steps that matter. So the ping at the head of the input has no creature left in it, and an offer is of a creature not answered for: an answer under way is for one offered already. |
| `CreaturesAreSpooledOnce`: `FilesSpec => []SpooledAgainOnlyIfCutOff` | SpoolFilesProofs | `Receiving`: the times a creature was spooled and its copies under way (`Comings`) are at most the times it was cut off, and one more once it is offered or confirmed (`Allowed`). |
| `ExportsAreSentOnce`: `FilesSpec => []SentAgainOnlyIfUnremoved` | SpoolFilesProofs | `Counting`: no two files hold the same creature, and the times the server got it, plus the copies in transit, plus one if its file is still to be sent, are at most one more than the times that very creature's file was sent and not removed. |
| `StaysInSync`: `Spec => []InSync` | DSNetManagerTicketProofs | `FlightInv`: every ticket of the table and of a packet on its way (output, wire, owed, the server's buffer, input) is at most the counter's, and while a session is being made or held no two packets on their way have one ticket, and the table has an entry not yet done, of the right length, for each request and each response. NetNatsueSocketProofs has the lemmas on what each socket method does to the packets on their way. |
| `EachItsOwnTransaction`: `Spec => []EachQueryItsOwnTransaction` | DSNetManagerTicketProofs | `TicketInv`: with the bound that the ticket of a call or a slot is at most the counter's, so that a new ticket is nobody's, it is inductive. |
| `AnswersAboutTheUser`: `Spec => []OnlineAnswerIsAboutTheUser` | DSNetManagerTicketProofs | `AboutInv`: whatever has the ticket of a wait or a query, be it request, response or table entry, is about what the call asked for. |
| `KeepsContract`: `Spec => QueriesKeepContract` | DSNetManagerTicketProofs | The refinement of `BlockingQueries`: each action is a step of the contract or a stutter, from the three invariants above. |
| `SocketIsAPipe`: `Spec => IsAPipe` | PartsProofs (on NetNatsueSocketProofs) | The refinement of `BytePipe`. `PipeInv`: nothing is on the wire of a lost connection, and a connect under way has nothing in its buffers, so that what `PumpConnect` finds established is an empty pipe. Each method then moves one packet at one end, leaves both directions as they are, opens, or breaks: what is left of the way in is a prefix (`CutIsPrefix`), what a part of a `send` or `recv` moved stays in its place (`SendsKeeps`, `ReadInputsPipe`). |
| `NothingIsLostAtTheEnd`: `Spec => PumpLosesNothing` | PartsProofs | `PumpKeepsReplies`: with nothing to write, no write can fail, and without a reset whatever part `recv` moves leaves `input \o rx` as it was; the end of the stream is met only when `rx` is empty. |
| `RotationInRange`: `[]ServerListTypeOK` | PartsProofs | Inductive as it stands; a prefix of a list of hosts is one. |
| `ListIsKept`: `ServersKept` | PartsProofs | An action property: of the steps only `SetServerList` and an accepted login touch the list, and one whose own list reads as empty leaves it. |
| `DeadlinesAreExact`, `TimesOnlineAreExact` | PartsProofs | For every width of the clock: a difference of two wrapped readings is the time between them as long as that is less than half a round. |
| `NumbersStayFresh`: `NumbersSpec => []NumbersAreFresh` | PartsProofs | `NumbersInv`: the number drawn is as many places after the one noted, on the way round without zero, as draws were made since. |
| `ParsersAreExact`: `ParserSpec => []ParsesWhatFits` | PartsProofs | For every width: by cases on whether the sum of the lengths wraps. |
| `PacksAreRead`: `PackSpec => []ReadsWhatWasPacked` | PartsProofs | `PackInv`: there is a function that says where each item begins (`Sums`), and if its last value, the size needed, is no more than the pack's, then the buffer holds each item there (`Holds`) and ends where the last does; and if the message is a prefix of it (`CutFrom`), what was read is the first items, `myRead` being where the next begins, or that and a failure (`Reading`). `IntBytesFact`: an int is read as it was written, for any width. `InsideFact` is where no sum of cursor and length wraps, because the pack is no longer than an int can say and every length read is one that was packed. `SizeFact` connects `Sums` with the sum the property takes. |
| `BlobsFollowLayout`: `HistoryTransferSpec => []BlobFollowsLayout` | PartsProofs | `BlobInv`: the blob there is, is the serialisation of what had been written when it was built. `FlattenFact` and `EqualParts` find the tokens of the n-th event in the flattened sequence, `BlobFact` those of each part of the blob by position (`LaidOut`), `LayoutFact` reads them back as the layout says. |
| `NamesAreReadBack`: `SpoolNamesSpec => []NamedUserIsFound` | PartsProofs | `NamesInv`: a file is named after the user the game spelled or the sender, and who is found is read of that name. `NumeralFact`: the numeral of a number is digits, and its value is the number. So the only plus, the last dash and the last dot are those `SpoolName` put there (`IdReadBack`, `NameReadBack`); a negative user id would put another dash behind it, which is why the property is about the others. `SpellingFact`: what `FromString` accepts is digits on both sides, so that `atoi` makes a natural of them. |
| `AddressesAndLengthsAgree` | PartsProofs | `GivenOfTheBlob`: an address or a length other than zero that was given out is that of the blob there is now. |
| `FramerTypeCorrect`, `StaysAligned` | NatsueFramerProofs | The invariant `FramerInv`: the stream is cut at packets (`WellCut`), complete while there is a connection, and `Answering`: every response in the stream is awaited under its ticket with its length, is the only one, and is not owed as well. Only then is the length the loop expects the length that was sent (`HeadFact`), and consuming it ends at the next packet (`ConsumeFact`). `Aligned` alone says nothing of the table and is not inductive. |
| `WaitsForMore`: `FramerSpec => []WaitsOnlyForMore` | NatsueFramerProofs | From `FramerInv`: what `IsWhole` finds missing is missing. |
| `FramerIsAPipe`: `FramerSpec => FramesPackets` | NatsueFramerProofs | The refinement of `BytePipe` by packets. `UnderWay` maps the stream of cells to the packets whose last cell is in it. `Ordered`: the cells of a packet are together and in order (`InOrder`), and while there is a connection no packet is in the stream only in part (`EndsWhole`). With it, consuming the cells of a whole packet takes exactly that packet from the head of `UnderWay` (`EndedPacket`, `HeadCells`), what the server sends appends one (`EndedJoin`), and what a lost connection cuts off is an end (`EndedPrefix`). |

*Only model-checked*: liveness under fairness (`CallsReturn`, `QueriesEnd`, `OutboxDrains`,
`HeldIsConfirmed`, `EveryServerTried`), which is out of the prover's reach, as `ENABLED` is.
Every other property that a passing run checks is a theorem.

## 6. Where the code and its comments differ

Each has a run that TLC ends with the counterexample.

- **StaleTransaction** (cpp 496-500 against cpp 992). A socket that dies in a write of
  `FetchUserData` and the like leaves the phase `ONLINE`; if `ConnectInBackground` is
  called before anything pumps, the transactions of the dead connection live on.
- **DroppedInput** (cpp 924-928 against cpp 614). A ping that cannot be answered ends
  `ProcessInput`; in the run a message that had arrived whole behind it stays unread, and
  the next connection clears it.
- **UnregisteredWatch** (cpp 1132-1133 against cpp 803). Users watched while offline
  are registered only if the game also lists them when it connects.
- **ErrorOkOffline** (cpp 463, 753 against h 62). A login accepted and hung up on in
  one read ends offline with `ERROR_OK`.
- **UnspooledConfirmed** (cpp 1491-1496, 1515-1520 and 916-930 against h 29-31 and README
  40-41). A creature that is dropped, because no inbox directory is set or its write
  failed, is confirmed all the same by the answer to the ping behind it, and the server
  forgets it.
- **ReadPastTheEnd** (NetMemoryUnpack.cpp:32 against NetMemoryUnpack.h 4-6). A length near
  the largest `int` overflows the sum of the bounds check; as compiled the sum is negative,
  the check passes, and a string is taken from where there are no bytes. Nothing under
  `src/` unpacks a message yet.

## 7. Not modelled, and the plan

Not modelled, and why:

- *Texts and payloads*: `DebugGetCurrentAction`, `RawGetLastError`, nicknames, logs, the
  individual refusal codes, what is in a message. Nothing branches on them.
- *Settings*: `SetUser`, `SetClientMode` and the outbox directory, which the game sets before
  it connects; the destructors. The inbox directory is set at any time in `SpoolFiles`.
- *What the game is told of an attempt that failed in the pump of another method*: the next
  `ConnectInBackground` starts over (cpp 496-500), in the model as in the code. No text of
  the repository says what it should hear, so no property does.
- *Byte counters*: only `GetStatus` reads them; they wrap like any `unsigned int`.
- *The layouts the builders write*, field by field: their reader is the server. The
  lengths of what they build are in `NatsueFramer`.
- *Overflow that is undefined*: the signed ticket counter is modelled as it is compiled, by
  wrapping, and so are the sums of the packers (NetMemoryPack.cpp:26, NetMemoryUnpack.cpp:20
  and 32); what an overrun of a pack or a message then does to the memory behind it is not.
  `myServerRotation`, which would take 2^31 attempts, is taken modulo the list.
- *A clock that steps back*: `NowMs` reads the wall clock (cpp 70), and a deadline may then
  pass later than it should; in the manager's model a deadline may pass at any moment.
- *Spellings of an id other than the canonical one* as keys of the maps: one user could be
  watched under two names (hazard at cpp 1130). `SpoolNames` has the spellings themselves.
- *The two file operations that rename a badly named outbox file to `.bad`*: in `WarpSpool` it
  leaves the scan in one step, and `SpoolFiles` has well named files only.
- *A queued message's `Send`* is one `DSFeedHistory`, the only thing the game queues.
- *A server that breaks its own protocol*, beyond `UNKNOWN` and `MALFORMED` packets and the
  lengths `NatsueFramer` and `WireParsers` refuse.
- The test harness and the build files; the constants and the abstract logger have no state.

What is left, in this order:

1. `NatsueFramer` put under `DSNetManager` in one instance, if TLC can hold it.
2. Ids with several spellings in the presence register.
