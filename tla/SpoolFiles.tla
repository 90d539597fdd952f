----------------------------- MODULE SpoolFiles -----------------------------
(***************************************************************************)
(* The spool directories file by file, over connections that break and a   *)
(* process that crashes.  WarpSpool has a set of files and counts; here    *)
(* files have names and contents, a write takes its four file operations,  *)
(* and what is on disk survives.  The files are those of one peer: names   *)
(* of two peers differ by their ids and never meet, so a name is a serial. *)
(*                                                                         *)
(* The server holds each creature until its delivery ping is answered and  *)
(* offers what it still holds once in every session.  tx and rx are all    *)
(* that is under way, whether in a buffer of the client or in the network. *)
(***************************************************************************)
EXTENDS Naturals, Sequences, FiniteSets, Functions

CONSTANTS Outgoing,    \* creatures the game exports, each once
          Incoming,    \* creatures the server holds for us at first
          MaxSerial,   \* bound: serial numbers, and seconds of the clock
          MaxTroubles  \* bound: crashes, breaks and failed file operations

ASSUME FilesAssumption == MaxSerial \in Nat /\ MaxTroubles \in Nat

Serials == 1 .. MaxSerial
NoFile  == 0

VARIABLES
    outbox,     \* name -> creature
    inbox,      \* name -> contents
    temp,       \* name -> contents of the file name.tmp in the inbox
    job,        \* what the manager is doing
    scan,       \* names the running ScanOutbox has not come to yet
    promised,   \* the name the game was given and has not written, or NoFile
    dirty,      \* myOutboxDirty
    due,        \* myNextOutboxScan has passed
    inboxSet,   \* SetInboxDirectory was called
    up,         \* Online()
    rx, tx,     \* under way to us, and to the server
    held,       \* creatures for us the server has not seen confirmed
    offered,    \* those it sent in this session
    got,        \* how often the server got each creature of ours
    put,        \* creatures the game has exported
    spooled,    \* how often each creature was put into the inbox
    cutOff,     \* how often a connection ended with it offered, not confirmed
    confirmed,  \* creatures whose ping the server saw answered
    lost,       \* creatures under way to the server when a connection ended
    unremoved,  \* how often the file of each creature was sent, not removed
    troubles    \* crashes, breaks and failed file operations so far

diskVars    == <<outbox, inbox, temp>>
memoryVars  == <<job, scan, promised, dirty, due, inboxSet>>
serverVars  == <<held, offered, got, confirmed>>
\* Kept for the properties only: nothing the program does depends on them.
historyVars == <<put, spooled, cutOff, lost, unremoved, troubles>>
filesVars   == <<diskVars, memoryVars, up, rx, tx, serverVars, historyVars>>

Contents == [creature : Incoming, whole : BOOLEAN]
Packets(kinds, creatures) == [kind : kinds, creature : creatures]
Inward  == Packets({"message", "ping"}, Incoming)
Outward == Packets({"message"}, Outgoing) \cup Packets({"accept"}, Incoming)

Spooling == {"open", "write", "remove", "rename"}
Jobs == [step : {"idle", "scan"}, name : {NoFile}]
        \cup [step : Spooling \cup {"sent"}, name : Serials]
Idle     == [step |-> "idle", name |-> NoFile]
Scanning == [step |-> "scan", name |-> NoFile]

IsDirectory(d, contents) ==
    d \in [DOMAIN d -> contents] /\ DOMAIN d \subseteq Serials

FilesTypeOK ==
    /\ IsDirectory(outbox, Outgoing)
    /\ IsDirectory(inbox, Contents) /\ IsDirectory(temp, Contents)
    /\ job \in Jobs /\ scan \subseteq Serials
    /\ promised \in Serials \cup {NoFile}
    /\ dirty \in BOOLEAN /\ due \in BOOLEAN /\ inboxSet \in BOOLEAN
    /\ up \in BOOLEAN
    /\ rx \in Seq(Inward) /\ tx \in Seq(Outward)
    /\ held \subseteq Incoming /\ offered \subseteq Incoming
    /\ confirmed \subseteq Incoming
    /\ spooled \in [Incoming -> Nat] /\ cutOff \in [Incoming -> Nat]
    /\ got \in [Outgoing -> Nat] /\ unremoved \in [Outgoing -> Nat]
    /\ put \subseteq Outgoing /\ lost \subseteq Outgoing
    /\ troubles \in Nat

EmptyDirectory == [s \in {} |-> s]

FilesInit ==
    /\ outbox = EmptyDirectory /\ inbox = EmptyDirectory /\ temp = EmptyDirectory
    /\ job = Idle /\ scan = {} /\ promised = NoFile
    /\ dirty = TRUE /\ due = TRUE /\ inboxSet = FALSE
    /\ up = FALSE /\ rx = <<>> /\ tx = <<>>
    /\ held = Incoming /\ offered = {} /\ confirmed = {}
    /\ got = [m \in Outgoing |-> 0] /\ unremoved = [m \in Outgoing |-> 0]
    /\ spooled = [c \in Incoming |-> 0] /\ cutOff = [c \in Incoming |-> 0]
    /\ put = {} /\ lost = {} /\ troubles = 0

\* A file written, in place of one of that name, and a file removed.
With(d, s, contents) ==
    [x \in DOMAIN d \cup {s} |-> IF x = s THEN contents ELSE d[x]]
Without(d, s) == Restrict(d, DOMAIN d \ {s})

\* Mutant of IsFresh: the clock is taken to be unique.
IsFreshUnchecked(d, now, s) == s = now

\* The first name from the clock on that FileExists does not find.
IsFresh(d, now, s) ==
    /\ s >= now /\ s \notin DOMAIN d
    /\ \A t \in Serials : now <= t /\ t < s => t \in DOMAIN d

\* Something of the outside world goes wrong.
Trouble == troubles < MaxTroubles /\ troubles' = troubles + 1

\* The creatures under way to the server.
InTransit == {tx[i].creature : i \in {j \in DOMAIN tx : tx[j].kind = "message"}}

\* The connection is gone, with what was under way.
Drops ==
    /\ up' = FALSE /\ rx' = <<>> /\ tx' = <<>> /\ offered' = {}
    /\ lost' = lost \cup InTransit
    /\ cutOff' = [c \in Incoming |->
                    cutOff[c] + (IF c \in offered \ confirmed THEN 1 ELSE 0)]

\* The file just sent is still there.
Unremoved == [unremoved EXCEPT ![outbox[job.name]] = @ + 1]

\* A creature put into the inbox.
Spooled(c) == [spooled EXCEPT ![c] = @ + 1]

-----------------------------------------------------------------------------
(* Sending.                                                                *)

\* ReturnUniqueOutboxFilename.  The game writes the file before it asks for
\* another name: NET: EXPO does both in one command.
GameAsksForName ==
    /\ job = Idle /\ promised = NoFile
    /\ \E now, s \in Serials : IsFresh(outbox, now, s) /\ promised' = s
    /\ dirty' = TRUE
    /\ UNCHANGED <<diskVars, job, scan, due, inboxSet, up, rx, tx, serverVars,
                   historyVars>>

GameWritesFile(m) ==
    /\ job = Idle /\ promised # NoFile /\ m \notin put
    /\ outbox' = With(outbox, promised, m)
    /\ promised' = NoFile
    /\ put' = put \cup {m}
    /\ UNCHANGED <<inbox, temp, job, scan, dirty, due, inboxSet, up, rx, tx,
                   serverVars, spooled, cutOff, lost, unremoved, troubles>>

\* Mutant of ScanIsDue: there is no rescan.
ScanWhenDirty == dirty

ScanIsDue == dirty \/ due

ScanOutboxFiles ==
    /\ job = Idle /\ up /\ ScanIsDue
    /\ job' = Scanning
    /\ scan' = DOMAIN outbox
    /\ dirty' = FALSE /\ due' = FALSE
    /\ UNCHANGED <<diskVars, promised, inboxSet, up, rx, tx, serverVars,
                   historyVars>>

ScanFinishes ==
    /\ job = Scanning
    /\ scan = {} \/ ~up
    /\ job' = Idle /\ scan' = {}
    /\ UNCHANGED <<diskVars, promised, dirty, due, inboxSet, up, rx, tx,
                   serverVars, historyVars>>

\* ReadWholeFile fails: the file is left for the next scan.
OutboxFileUnreadable ==
    /\ job = Scanning /\ up
    /\ \E s \in scan : scan' = scan \ {s}
    /\ Trouble
    /\ UNCHANGED <<diskVars, job, promised, dirty, due, inboxSet, up, rx, tx,
                   serverVars, put, spooled, cutOff, lost, unremoved>>

\* PostDirectMessage takes the message.
PostOutboxFile(s) ==
    /\ job = Scanning /\ up /\ s \in scan
    /\ s \in DOMAIN outbox
    /\ tx' = Append(tx, [kind |-> "message", creature |-> outbox[s]])
    /\ job' = [step |-> "sent", name |-> s]
    /\ UNCHANGED <<diskVars, scan, promised, dirty, due, inboxSet, up, rx,
                   serverVars, historyVars>>

\* Mutant of PostFails: the failure is not noticed before the removal.
PostFailureIgnored ==
    /\ job = Scanning /\ up
    /\ Drops /\ Trouble
    /\ \E s \in scan : job' = [step |-> "sent", name |-> s]
    /\ UNCHANGED <<diskVars, scan, promised, dirty, due, inboxSet, held, got,
                   confirmed, put, spooled, unremoved>>

\* PostDirectMessage cannot write: the session is over, and the rest of the
\* scan is for later.
PostFails ==
    /\ job = Scanning /\ up /\ scan # {}
    /\ Drops /\ Trouble
    /\ job' = Idle /\ scan' = {}
    /\ UNCHANGED <<diskVars, promised, dirty, due, inboxSet, held, got,
                   confirmed, put, spooled, unremoved>>

\* Mutant of RemoveSent: a file is not removed once it is sent.
LeaveSent ==
    /\ job.step = "sent"
    /\ job' = Scanning /\ scan' = scan \ {job.name}
    /\ UNCHANGED <<diskVars, promised, dirty, due, inboxSet, up, rx, tx,
                   serverVars, historyVars>>

\* The sent file is removed; nobody looks whether that worked.
RemoveSent ==
    /\ job.step = "sent"
    /\ \/ outbox' = Without(outbox, job.name) /\ UNCHANGED <<unremoved, troubles>>
       \/ Trouble /\ unremoved' = Unremoved /\ UNCHANGED outbox
    /\ job' = Scanning /\ scan' = scan \ {job.name}
    /\ UNCHANGED <<inbox, temp, promised, dirty, due, inboxSet, up, rx, tx,
                   serverVars, put, spooled, cutOff, lost>>

-----------------------------------------------------------------------------
(* Receiving.                                                              *)

\* The game names the inbox, before or after it connects.
SetInboxDirectory ==
    /\ job = Idle /\ ~inboxSet /\ inboxSet' = TRUE
    /\ UNCHANGED <<diskVars, job, scan, promised, dirty, due, up, rx, tx,
                   serverVars, historyVars>>

\* HandlePacket of a PRAY file: SpoolPrayFile has no inbox directory, and the
\* creature is dropped.
DropWithoutInbox ==
    /\ job = Idle /\ up /\ rx # <<>> /\ Head(rx).kind = "message"
    /\ ~inboxSet
    /\ rx' = Tail(rx)
    /\ UNCHANGED <<diskVars, memoryVars, up, tx, serverVars, historyVars>>

\* HandlePacket of a PRAY file: SpoolPrayFile picks a name.
SpoolBegins ==
    /\ job = Idle /\ up /\ rx # <<>> /\ Head(rx).kind = "message"
    /\ inboxSet
    /\ \E now, s \in Serials :
         IsFresh(inbox, now, s) /\ job' = [step |-> "open", name |-> s]
    /\ UNCHANGED <<diskVars, scan, promised, dirty, due, inboxSet, up, rx, tx,
                   serverVars, historyVars>>

\* Mutant of OpenTemp: the file is written in place.
OpenInPlace ==
    /\ job.step = "open"
    /\ inbox' = With(inbox, job.name, [creature |-> Head(rx).creature, whole |-> FALSE])
    /\ temp' = With(temp, job.name, [creature |-> Head(rx).creature, whole |-> FALSE])
    /\ job' = [job EXCEPT !.step = "write"]
    /\ UNCHANGED <<outbox, scan, promised, dirty, due, inboxSet, up, rx, tx,
                   serverVars, historyVars>>

\* WriteWholeFileAtomic, operation by operation: fopen, fwrite and fclose,
\* remove of the target, rename.
OpenTemp ==
    /\ job.step = "open"
    /\ temp' = With(temp, job.name, [creature |-> Head(rx).creature, whole |-> FALSE])
    /\ job' = [job EXCEPT !.step = "write"]
    /\ UNCHANGED <<outbox, inbox, scan, promised, dirty, due, inboxSet, up, rx,
                   tx, serverVars, historyVars>>

WriteTemp ==
    /\ job.step = "write"
    /\ temp' = [temp EXCEPT ![job.name].whole = TRUE]
    /\ job' = [job EXCEPT !.step = "remove"]
    /\ UNCHANGED <<outbox, inbox, scan, promised, dirty, due, inboxSet, up, rx,
                   tx, serverVars, historyVars>>

RemoveTarget ==
    /\ job.step = "remove"
    /\ inbox' = Without(inbox, job.name)
    /\ job' = [job EXCEPT !.step = "rename"]
    /\ UNCHANGED <<outbox, temp, scan, promised, dirty, due, inboxSet, up, rx,
                   tx, serverVars, historyVars>>

\* Mutant of RenameTemp: the job keeps the name of its file.
RenameTempKeepsName ==
    /\ job.step = "rename"
    /\ inbox' = With(inbox, job.name, temp[job.name])
    /\ temp' = Without(temp, job.name)
    /\ spooled' = Spooled(Head(rx).creature)
    /\ rx' = Tail(rx)
    /\ job' = [job EXCEPT !.step = "idle"]
    /\ UNCHANGED <<outbox, scan, promised, dirty, due, inboxSet, up, tx,
                   serverVars, put, cutOff, lost, unremoved, troubles>>

\* Mutant of RenameTemp: the message is not consumed.
RenameTempAndKeepMessage ==
    /\ job.step = "rename"
    /\ inbox' = With(inbox, job.name, temp[job.name])
    /\ temp' = Without(temp, job.name)
    /\ spooled' = Spooled(Head(rx).creature)
    /\ job' = Idle
    /\ UNCHANGED <<outbox, scan, promised, dirty, due, inboxSet, up, rx, tx,
                   serverVars, put, cutOff, lost, unremoved, troubles>>

RenameTemp ==
    /\ job.step = "rename"
    /\ inbox' = With(inbox, job.name, temp[job.name])
    /\ temp' = Without(temp, job.name)
    /\ spooled' = Spooled(Head(rx).creature)
    /\ rx' = Tail(rx)
    /\ job' = Idle
    /\ UNCHANGED <<outbox, scan, promised, dirty, due, inboxSet, up, tx,
                   serverVars, put, cutOff, lost, unremoved, troubles>>

\* Mutant of SpoolFails: the rest of the input is dropped with the creature.
SpoolFailsAndReturns ==
    /\ job.step \in {"open", "write", "rename"}
    /\ temp' = IF job.step = "open" THEN temp ELSE Without(temp, job.name)
    /\ rx' = <<>> /\ job' = Idle /\ Trouble
    /\ UNCHANGED <<outbox, inbox, scan, promised, dirty, due, inboxSet, up, tx,
                   serverVars, put, spooled, cutOff, lost, unremoved>>

\* An operation fails: the temporary file is removed if it was opened, and
\* the creature is dropped.
SpoolFails ==
    /\ job.step \in {"open", "write", "rename"}
    /\ temp' = IF job.step = "open" THEN temp ELSE Without(temp, job.name)
    /\ rx' = Tail(rx)
    /\ job' = Idle
    /\ Trouble
    /\ UNCHANGED <<outbox, inbox, scan, promised, dirty, due, inboxSet, up, tx,
                   serverVars, put, spooled, cutOff, lost, unremoved>>

\* Mutant of HandlePing: a ping is answered before what came ahead of it.
HandlePingEarly ==
    /\ job = Idle /\ up /\ \E i \in DOMAIN rx : rx[i].kind = "ping"
    /\ LET i == CHOOSE j \in DOMAIN rx : rx[j].kind = "ping"
       IN  /\ tx' = Append(tx, [kind |-> "accept", creature |-> rx[i].creature])
           /\ rx' = SubSeq(rx, 1, i - 1) \o SubSeq(rx, i + 1, Len(rx))
    /\ UNCHANGED <<diskVars, memoryVars, up, serverVars, historyVars>>

\* HandlePacket of a delivery ping: it is answered, whatever became of the
\* creature before it.
HandlePing ==
    /\ job = Idle /\ up /\ rx # <<>> /\ Head(rx).kind = "ping"
    /\ tx' = Append(tx, [kind |-> "accept", creature |-> Head(rx).creature])
    /\ rx' = Tail(rx)
    /\ UNCHANGED <<diskVars, memoryVars, up, serverVars, historyVars>>

GameTakesCreature(s) ==
    /\ job = Idle /\ s \in DOMAIN inbox
    /\ inbox' = Without(inbox, s)
    /\ UNCHANGED <<outbox, temp, memoryVars, up, rx, tx, serverVars,
                   historyVars>>

-----------------------------------------------------------------------------
(* The session, the clock, the server, and what goes wrong.                *)

\* HandleHandshakeResponse makes the outbox due.
LogIn ==
    /\ job = Idle /\ ~up
    /\ up' = TRUE /\ dirty' = TRUE
    /\ UNCHANGED <<diskVars, job, scan, promised, due, inboxSet, rx, tx,
                   serverVars, historyVars>>

RescanFallsDue ==
    /\ ~due /\ due' = TRUE
    /\ UNCHANGED <<diskVars, job, scan, promised, dirty, inboxSet, up, rx, tx,
                   serverVars, historyVars>>

\* A creature is followed by the ping that asks for its confirmation.
ServerOffers(c) ==
    /\ up /\ c \in held \ offered
    /\ offered' = offered \cup {c}
    /\ rx' = rx \o <<[kind |-> "message", creature |-> c],
                     [kind |-> "ping",    creature |-> c]>>
    /\ UNCHANGED <<diskVars, memoryVars, up, tx, held, got, confirmed,
                   historyVars>>

ServerGets ==
    /\ tx # <<>> /\ tx' = Tail(tx)
    /\ LET x == Head(tx).creature
       IN  IF Head(tx).kind = "accept"
           THEN /\ held' = held \ {x} /\ confirmed' = confirmed \cup {x}
                /\ UNCHANGED got
           ELSE /\ got' = [got EXCEPT ![x] = @ + 1]
                /\ UNCHANGED <<held, confirmed>>
    /\ UNCHANGED <<diskVars, memoryVars, up, rx, offered, historyVars>>

\* The connection ends between two ticks or in a write of a ping's answer.
ConnectionBreaks ==
    /\ up /\ job = Idle
    /\ Drops /\ Trouble
    /\ UNCHANGED <<diskVars, memoryVars, held, got, confirmed, put, spooled,
                   unremoved>>

\* The process dies between any two operations and a new one starts
\* (Construct): the disk is all that is left.
Crash ==
    /\ Drops /\ Trouble
    /\ job' = Idle /\ scan' = {} /\ promised' = NoFile
    /\ dirty' = TRUE /\ due' = TRUE /\ inboxSet' = FALSE
    /\ unremoved' = IF job.step = "sent" THEN Unremoved ELSE unremoved
    /\ UNCHANGED <<diskVars, held, got, confirmed, put, spooled>>

FilesSteps ==
    \/ ScanOutboxFiles \/ ScanFinishes \/ OutboxFileUnreadable \/ PostFails
    \/ \E s \in Serials : PostOutboxFile(s)
    \/ RemoveSent \/ DropWithoutInbox \/ SpoolBegins \/ OpenTemp \/ WriteTemp \/ RemoveTarget
    \/ RenameTemp \/ SpoolFails \/ HandlePing \/ LogIn

FilesNext ==
    \/ FilesSteps
    \/ SetInboxDirectory \/ GameAsksForName \/ \E m \in Outgoing : GameWritesFile(m)
    \/ \E s \in Serials : GameTakesCreature(s)
    \/ \E c \in Incoming : ServerOffers(c)
    \/ RescanFallsDue \/ ServerGets \/ ConnectionBreaks \/ Crash

FilesSpec == FilesInit /\ [][FilesNext]_filesVars

-----------------------------------------------------------------------------
(* What the spool promises.                                                *)

\* "Nothing ever sees a half written file" (DSNetManager.cpp:115): the inbox
\* has whole creatures only, wherever a write failed or the process died
\* (WriteWholeFileAtomic).
WholeFilesOnly == \A s \in DOMAIN inbox : inbox[s].whole

\* A creature in the inbox stays there, as it is, until the game takes it: no
\* later one is spooled over it, though serials are only seconds, and the
\* remove of the target removes nothing (SpoolPrayFile, WriteWholeFileAtomic).
KeptUntilTaken ==
    [][\A s \in DOMAIN inbox :
         ~(s \in DOMAIN inbox' /\ inbox'[s] = inbox[s]) => GameTakesCreature(s)
      ]_filesVars

\* A creature the game exported is in the outbox, under way, or with the
\* server, unless a connection or the process ended while it was under way:
\* a failed write leaves it in the outbox (SendOutboxFile, ScanOutbox,
\* ReturnUniqueOutboxFilename).
NoExportLost ==
    \A m \in put : m \in Range(outbox) \cup InTransit \cup lost \/ got[m] > 0

\* The server gets a creature twice only for a removal of its file that failed
\* or that a crash prevented: a scan does not send what an earlier one has sent
\* (SendOutboxFile).
SentAgainOnlyIfUnremoved == \A m \in Outgoing : got[m] <= 1 + unremoved[m]

\* The creatures whose ping was answered, whether or not the server knows yet.
Answered ==
    confirmed \cup {tx[i].creature : i \in {j \in DOMAIN tx : tx[j].kind = "accept"}}

\* A ping is answered only after what came ahead of it has been dealt with: no
\* creature that was answered for is still to be spooled, or being spooled
\* (ProcessInput, HandlePacket).
AnsweredInOrder ==
    \A i \in DOMAIN rx : rx[i].kind = "message" => rx[i].creature \notin Answered

\* The game gets a creature twice only for a connection, or a process, that
\* ended between its coming and the server's seeing it confirmed
\* (HandlePacket, SpoolPrayFile).
SpooledAgainOnlyIfCutOff == \A c \in Incoming : spooled[c] <= 1 + cutOff[c]

\* "Answering them is what makes creature and mail transfer reliable"
\* (DSNetManager.h:30): a creature that the server saw confirmed, and no longer
\* holds, was put into the inbox.
ConfirmedWasSpooled == \A c \in confirmed : spooled[c] > 0

\* Fairness: the manager runs and logs in again, every tick pumps before it
\* scans (SendOrdinaryMessages) and has the engine take what is in its inbox
\* before the next, the rescan timer runs out, and server and network work
\* while a session is up.  Troubles are bounded and come to an end.
FilesFairness ==
    /\ WF_filesVars(FilesSteps)
    /\ SF_filesVars(DropWithoutInbox \/ SpoolBegins \/ HandlePing)
    /\ WF_filesVars(RescanFallsDue)
    /\ WF_filesVars(ServerGets)
    /\ WF_filesVars(\E c \in Incoming : ServerOffers(c))
    /\ SF_filesVars(\E s \in Serials : GameTakesCreature(s))

FilesFairSpec == FilesSpec /\ FilesFairness

\* Every creature exported leaves the outbox some time, even one that was
\* written after the scan its name made due (ReturnUniqueOutboxFilename sets
\* myOutboxDirty, not the writing; ScanOutbox rescans on a timer).
OutboxDrains ==
    \A m \in Outgoing : m \in Range(outbox) ~> m \notin Range(outbox)

\* Every creature the server holds is confirmed some time, over as many
\* sessions as it takes (HandlePacket, HandleHandshakeResponse).
HeldIsConfirmed == \A c \in Incoming : c \in held ~> c \in confirmed
=============================================================================
