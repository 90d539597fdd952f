------------------------- MODULE SpoolFilesProofs --------------------------
(***************************************************************************)
(* What is proved of the spool directories, for any creatures, any number  *)
(* of serials and any number of crashes, breaks and failed operations.     *)
(* A file passes through several operations, so the invariants say what    *)
(* holds between them: Writing, Sending, Counting and Receiving.           *)
(***************************************************************************)
EXTENDS SpoolFiles, SequenceTheorems, FiniteSetTheorems, TLAPS

-----------------------------------------------------------------------------
(* Directories.                                                            *)

\* A file written into a directory.
LEMMA WithFact ==
    ASSUME NEW C, NEW d, IsDirectory(d, C), NEW s \in Serials, NEW x \in C
    PROVE  IsDirectory(With(d, s, x), C)
BY DEF IsDirectory, With

\* A file removed from a directory, and what is in the directory then.
LEMMA WithoutFact ==
    ASSUME NEW C, NEW d, IsDirectory(d, C), NEW s
    PROVE  IsDirectory(Without(d, s), C)
BY DEF IsDirectory, Without, Restrict

LEMMA WithoutFiles ==
    ASSUME NEW d, NEW s
    PROVE  /\ DOMAIN Without(d, s) = DOMAIN d \ {s}
           /\ \A t \in DOMAIN d \ {s} : Without(d, s)[t] = d[t]
BY DEF Without, Restrict

\* The contents of a file are those the directory may have.
LEMMA FileFact ==
    ASSUME NEW C, NEW d, IsDirectory(d, C), NEW s \in DOMAIN d
    PROVE  d[s] \in C
BY DEF IsDirectory

-----------------------------------------------------------------------------
(* Types, and the file that is being written.                              *)

\* While a creature is written to the inbox its name is free, the message it
\* came in is at the head of the input, and what will be renamed is whole.
Writing ==
    /\ job.step \in Spooling =>
         /\ job.name \in Serials /\ job.name \notin DOMAIN inbox
         /\ rx # <<>> /\ Head(rx).kind = "message"
    /\ job.step \in {"write", "remove", "rename"} => job.name \in DOMAIN temp
    /\ job.step \in {"remove", "rename"} => temp[job.name].whole
    /\ \A s \in DOMAIN inbox : inbox[s].whole

FilesInv == FilesTypeOK /\ Writing

LEMMA JobFact ==
    ASSUME job \in Jobs
    PROVE  /\ job.step \in Spooling \cup {"sent"} => job.name \in Serials
           /\ \A step \in Spooling \cup {"sent"}, s \in Serials :
                [step |-> step, name |-> s] \in Jobs
           /\ \A step \in Spooling : job.step \in Spooling =>
                /\ [job EXCEPT !.step = step] \in Jobs
                /\ [job EXCEPT !.step = step].step = step
                /\ [job EXCEPT !.step = step].name = job.name
           /\ Idle \in Jobs /\ Scanning \in Jobs
BY DEF Jobs, Idle, Scanning, Spooling

LEMMA FilesInvInit == FilesInit => FilesInv
<1> SUFFICES ASSUME FilesInit PROVE FilesInv
  OBVIOUS
<1>1. \A C : IsDirectory(EmptyDirectory, C) /\ DOMAIN EmptyDirectory = {}
  BY DEF EmptyDirectory, IsDirectory
<1>2. Idle \in Jobs /\ Idle.step \notin Spooling
  BY DEF Jobs, Idle, Spooling
<1>3. FilesTypeOK
  <2>1. /\ IsDirectory(outbox, Outgoing) /\ IsDirectory(inbox, Contents)
        /\ IsDirectory(temp, Contents)
    BY <1>1 DEF FilesInit
  <2>2. <<>> \in Seq(Inward) /\ <<>> \in Seq(Outward)
    OBVIOUS
  <2> QED  BY <1>2, <2>1, <2>2 DEF FilesInit, FilesTypeOK
<1>4. Writing
  BY <1>1, <1>2 DEF FilesInit, Writing, Spooling
<1> QED  BY <1>3, <1>4 DEF FilesInv

\* One more of something that is counted.
LEMMA OneMoreFact ==
    ASSUME NEW S, NEW f \in [S -> Nat], NEW x
    PROVE  [f EXCEPT ![x] = @ + 1] \in [S -> Nat]
<1> DEFINE g == [f EXCEPT ![x] = @ + 1]
<1>1. DOMAIN g = S /\ g = [y \in S |-> g[y]]
  OBVIOUS
<1>2. ASSUME NEW y \in S PROVE g[y] \in Nat
  <2>1. f[y] \in Nat /\ f[y] + 1 \in Nat
    OBVIOUS
  <2>2. g[y] = IF y = x THEN f[y] + 1 ELSE f[y]
    OBVIOUS
  <2> QED  BY <2>1, <2>2
<1> HIDE DEF g
<1>3. g \in [S -> Nat]
  BY <1>1, <1>2
<1> QED  BY <1>3 DEF g

\* Typing, action by action.
LEMMA FilesTypeStep == FilesInv /\ [FilesNext]_filesVars => FilesTypeOK'
<1> SUFFICES ASSUME FilesTypeOK, Writing, [FilesNext]_filesVars
             PROVE  FilesTypeOK'
  BY DEF FilesInv
<1> USE DEF FilesTypeOK
<1>d. /\ IsDirectory(outbox, Outgoing) /\ IsDirectory(inbox, Contents)
      /\ IsDirectory(temp, Contents)
  OBVIOUS
<1>j. /\ job.step \in Spooling \cup {"sent"} => job.name \in Serials
      /\ \A step \in Spooling \cup {"sent"}, s \in Serials :
           [step |-> step, name |-> s] \in Jobs
      /\ \A step \in Spooling : job.step \in Spooling =>
           [job EXCEPT !.step = step] \in Jobs
      /\ Idle \in Jobs /\ Scanning \in Jobs
  BY JobFact
<1>t. ASSUME Drops PROVE /\ up' \in BOOLEAN /\ rx' \in Seq(Inward)
                         /\ tx' \in Seq(Outward) /\ offered' \subseteq Incoming
                         /\ lost' \subseteq Outgoing
                         /\ cutOff' \in [Incoming -> Nat]
  <2>1. ASSUME NEW i \in DOMAIN tx, tx[i].kind = "message"
        PROVE  tx[i].creature \in Outgoing
    <3>1. tx[i] \in Outward
      OBVIOUS
    <3> QED  BY <2>1, <3>1 DEF Outward, Packets
  <2>2. InTransit \subseteq Outgoing
    BY <2>1 DEF InTransit
  <2>3. <<>> \in Seq(Inward) /\ <<>> \in Seq(Outward)
    OBVIOUS
  <2>4. cutOff' \in [Incoming -> Nat]
    <3>1. cutOff \in [Incoming -> Nat]
      OBVIOUS
    <3>2. \A c \in Incoming : cutOff[c] + 1 \in Nat /\ cutOff[c] \in Nat
      BY <3>1
    <3> QED  BY <1>t, <3>2 DEF Drops
  <2> QED  BY <1>t, <2>2, <2>3, <2>4 DEF Drops
<1>r. ASSUME Trouble PROVE troubles' \in Nat
  BY <1>r DEF Trouble
<1>n. /\ Unremoved \in [Outgoing -> Nat]
      /\ \A c \in Incoming : Spooled(c) \in [Incoming -> Nat]
  <2>1. unremoved \in [Outgoing -> Nat] /\ spooled \in [Incoming -> Nat]
    OBVIOUS
  <2> QED  BY <2>1, OneMoreFact DEF Unremoved, Spooled
<1>c. ASSUME rx # <<>> PROVE /\ Head(rx) \in Inward /\ Head(rx).creature \in Incoming
                             /\ Tail(rx) \in Seq(Inward)
  <2>1. Head(rx) \in Inward /\ Tail(rx) \in Seq(Inward)
    BY <1>c, HeadTailProperties
  <2> QED  BY <2>1 DEF Inward, Packets
<1>1. CASE ScanOutboxFiles
  BY <1>1, <1>j DEF ScanOutboxFiles, diskVars, serverVars, historyVars, IsDirectory
<1>2. CASE ScanFinishes
  BY <1>2, <1>j DEF ScanFinishes, diskVars, serverVars, historyVars
<1>3. CASE OutboxFileUnreadable
  BY <1>3, <1>r DEF OutboxFileUnreadable, diskVars, serverVars
<1>4. CASE PostFails
  BY <1>4, <1>j, <1>t, <1>r DEF PostFails, diskVars
<1>5. ASSUME NEW s \in Serials, PostOutboxFile(s) PROVE FilesTypeOK'
  <2>1. [kind |-> "message", creature |-> outbox[s]] \in Outward
    BY <1>5, <1>d, FileFact DEF PostOutboxFile, Outward, Packets
  <2>2. tx' \in Seq(Outward)
    BY <1>5, <2>1, AppendProperties DEF PostOutboxFile
  <2>3. job' \in Jobs
    BY <1>5, <1>j DEF PostOutboxFile
  <2> QED  BY <1>5, <2>2, <2>3 DEF PostOutboxFile, diskVars, serverVars, historyVars
<1>6. CASE RemoveSent
  <2>0. IsDirectory(Without(outbox, job.name), Outgoing)
    BY <1>d, WithoutFact
  <2>1. IsDirectory(outbox', Outgoing)
    <3>1. CASE outbox' = Without(outbox, job.name)
      BY <2>0, <3>1
    <3>2. CASE outbox' = outbox
      BY <1>d, <3>2
    <3> QED  BY <1>6, <3>1, <3>2 DEF RemoveSent
  <2>2. troubles' \in Nat /\ unremoved' \in [Outgoing -> Nat]
    BY <1>6, <1>r, <1>n DEF RemoveSent
  <2>3. job' \in Jobs /\ scan' \subseteq Serials
    BY <1>6, <1>j DEF RemoveSent
  <2>4. UNCHANGED <<inbox, temp, promised, dirty, due, inboxSet, up, rx, tx,
                   serverVars, put, spooled, cutOff, lost>>
    BY <1>6 DEF RemoveSent
  <2> QED  BY <2>1, <2>2, <2>3, <2>4 DEF serverVars
<1>7. CASE SpoolBegins
  BY <1>7, <1>j DEF SpoolBegins, diskVars, serverVars, historyVars, Spooling
<1>8. CASE OpenTemp
  <2>1. rx # <<>> /\ job.name \in Serials
    BY <1>8 DEF OpenTemp, Writing, Spooling
  <2>2. [creature |-> Head(rx).creature, whole |-> FALSE] \in Contents
    BY <2>1, <1>c DEF Contents
  <2>3. IsDirectory(temp', Contents)
    BY <1>8, <1>d, <2>1, <2>2, WithFact DEF OpenTemp
  <2> QED  BY <1>8, <1>j, <2>3 DEF OpenTemp, serverVars, historyVars, Spooling
<1>9. CASE WriteTemp
  <2>1. IsDirectory(temp', Contents)
    BY <1>9, <1>d DEF WriteTemp, IsDirectory, Contents
  <2> QED  BY <1>9, <1>j, <2>1 DEF WriteTemp, serverVars, historyVars, Spooling
<1>10. CASE RemoveTarget
  BY <1>10, <1>d, <1>j, WithoutFact DEF RemoveTarget, serverVars, historyVars, Spooling
<1>11. CASE RenameTemp
  <2>1. rx # <<>> /\ job.name \in Serials /\ job.name \in DOMAIN temp
    BY <1>11 DEF RenameTemp, Writing, Spooling
  <2>2. IsDirectory(inbox', Contents) /\ IsDirectory(temp', Contents)
    BY <1>11, <1>d, <2>1, FileFact, WithFact, WithoutFact DEF RenameTemp
  <2> QED  BY <1>11, <1>j, <1>c, <1>n, <2>1, <2>2 DEF RenameTemp, serverVars
<1>12. CASE SpoolFails
  <2>1. rx # <<>>
    BY <1>12 DEF SpoolFails, Writing, Spooling
  <2>2. IsDirectory(temp', Contents)
    BY <1>12, <1>d, WithoutFact DEF SpoolFails
  <2> QED  BY <1>12, <1>j, <1>c, <1>r, <2>1, <2>2 DEF SpoolFails, serverVars
<1>13. CASE HandlePing
  <2>1. [kind |-> "accept", creature |-> Head(rx).creature] \in Outward
    BY <1>13, <1>c DEF HandlePing, Outward, Packets
  <2> QED  BY <1>13, <1>c, <2>1 DEF HandlePing, diskVars, memoryVars, serverVars, historyVars
<1>14. CASE LogIn
  BY <1>14 DEF LogIn, diskVars, serverVars, historyVars
<1>15. CASE GameAsksForName
  BY <1>15 DEF GameAsksForName, diskVars, serverVars, historyVars
<1>16. ASSUME NEW m \in Outgoing, GameWritesFile(m) PROVE FilesTypeOK'
  <2>1. promised \in Serials
    BY <1>16 DEF GameWritesFile
  <2> QED  BY <1>16, <1>d, <2>1, WithFact DEF GameWritesFile, serverVars
<1>17. ASSUME NEW s \in Serials, GameTakesCreature(s) PROVE FilesTypeOK'
  BY <1>17, <1>d, WithoutFact DEF GameTakesCreature, memoryVars, serverVars, historyVars
<1>18. ASSUME NEW c \in Incoming, ServerOffers(c) PROVE FilesTypeOK'
  <2>1. <<[kind |-> "message", creature |-> c],
          [kind |-> "ping",    creature |-> c]>> \in Seq(Inward)
    BY DEF Inward, Packets
  <2>2. rx' \in Seq(Inward)
    BY <1>18, <2>1 DEF ServerOffers
  <2> QED  BY <1>18, <2>2 DEF ServerOffers, diskVars, memoryVars, historyVars
<1>19. CASE RescanFallsDue
  BY <1>19 DEF RescanFallsDue, diskVars, serverVars, historyVars
<1>20. CASE ServerGets
  <2>1. Head(tx) \in Outward /\ Tail(tx) \in Seq(Outward)
    BY <1>20, HeadTailProperties DEF ServerGets
  <2>2. CASE Head(tx).kind = "accept"
    <3>1. Head(tx).creature \in Incoming
      BY <2>1, <2>2 DEF Outward, Packets
    <3> QED  BY <1>20, <2>1, <2>2, <3>1 DEF ServerGets, diskVars, memoryVars, historyVars
  <2>3. CASE Head(tx).kind # "accept"
    <3>1. Head(tx).creature \in Outgoing
      BY <2>1, <2>3 DEF Outward, Packets
    <3>2. got' \in [Outgoing -> Nat]
      BY <1>20, <2>3, <3>1 DEF ServerGets
    <3>3. /\ tx' \in Seq(Outward)
          /\ UNCHANGED <<diskVars, memoryVars, up, rx, offered, held, confirmed,
                         historyVars>>
      BY <1>20, <2>1, <2>3 DEF ServerGets
    <3> QED  BY <3>2, <3>3 DEF diskVars, memoryVars, historyVars
  <2> QED  BY <2>2, <2>3
<1>21. CASE ConnectionBreaks
  BY <1>21, <1>t, <1>r DEF ConnectionBreaks, diskVars, memoryVars
<1>22. CASE Crash
  BY <1>22, <1>j, <1>t, <1>r, <1>n DEF Crash, diskVars
<1>23. CASE DropWithoutInbox
  BY <1>23, <1>c DEF DropWithoutInbox, diskVars, memoryVars, serverVars, historyVars
<1>24. CASE SetInboxDirectory
  BY <1>24 DEF SetInboxDirectory, diskVars, serverVars, historyVars
<1>25. CASE UNCHANGED filesVars
  BY <1>25 DEF filesVars, diskVars, memoryVars, serverVars, historyVars
<1> QED  BY <1>1, <1>2, <1>3, <1>4, <1>5, <1>6, <1>7, <1>8, <1>9, <1>10, <1>11,
            <1>12, <1>13, <1>14, <1>15, <1>16, <1>17, <1>18, <1>19, <1>20,
            <1>21, <1>22, <1>23, <1>24, <1>25 DEF FilesNext, FilesSteps

\* No step but those of a spooling job touches it, the inbox or the temporary
\* files in a way that Writing could see.
LEMMA WritingStep == FilesInv /\ [FilesNext]_filesVars => Writing'
<1> SUFFICES ASSUME FilesTypeOK, Writing, [FilesNext]_filesVars
             PROVE  Writing'
  BY DEF FilesInv
<1>d. /\ IsDirectory(inbox, Contents) /\ IsDirectory(temp, Contents)
      /\ rx \in Seq(Inward) /\ job \in Jobs
  BY DEF FilesTypeOK
<1>i. Idle.step = "idle" /\ Scanning.step = "scan"
  BY DEF Idle, Scanning
<1>s. ASSUME job'.step \notin Spooling, UNCHANGED inbox PROVE Writing'
  BY <1>s DEF Writing, Spooling
<1>u. ASSUME UNCHANGED <<inbox, temp, job, rx>> PROVE Writing'
  BY <1>u DEF Writing
<1>1. CASE ScanOutboxFiles \/ ScanFinishes \/ PostFails \/ Crash
  BY <1>1, <1>i, <1>s DEF ScanOutboxFiles, ScanFinishes, PostFails, Crash,
     diskVars, Spooling
<1>2. CASE \/ OutboxFileUnreadable \/ HandlePing \/ LogIn \/ GameAsksForName
           \/ DropWithoutInbox \/ SetInboxDirectory
  BY <1>2, <1>i, <1>s, <1>u DEF OutboxFileUnreadable, HandlePing, LogIn, Spooling,
     GameAsksForName, DropWithoutInbox, SetInboxDirectory, diskVars, memoryVars
<1>3. ASSUME NEW s \in Serials, PostOutboxFile(s) PROVE Writing'
  BY <1>3, <1>s DEF PostOutboxFile, diskVars, Spooling
<1>4. CASE RemoveSent
  BY <1>4, <1>i, <1>s DEF RemoveSent, Spooling
<1>5. CASE SpoolBegins
  <2>1. PICK now, s \in Serials :
          IsFresh(inbox, now, s) /\ job' = [step |-> "open", name |-> s]
    BY <1>5 DEF SpoolBegins
  <2>2. s \notin DOMAIN inbox /\ UNCHANGED <<inbox, temp, rx>>
    BY <1>5, <2>1 DEF IsFresh, SpoolBegins, diskVars
  <2> QED  BY <1>5, <2>1, <2>2 DEF SpoolBegins, Writing, Spooling
<1>6. CASE OpenTemp
  <2>1. job.name \in Serials /\ job.name \notin DOMAIN inbox
    BY <1>6 DEF OpenTemp, Writing, Spooling
  <2>2. /\ job'.step = "write" /\ job'.name = job.name
        /\ UNCHANGED <<inbox, rx>>
    BY <1>6, <1>d, JobFact DEF OpenTemp, Spooling
  <2>3. job.name \in DOMAIN temp'
    BY <1>6 DEF OpenTemp, With
  <2> QED  BY <1>6, <2>1, <2>2, <2>3 DEF OpenTemp, Writing, Spooling
<1>7. CASE WriteTemp
  <2>1. /\ job'.step = "remove" /\ job'.name = job.name
        /\ UNCHANGED <<inbox, rx>>
    BY <1>7, <1>d, JobFact DEF WriteTemp, Spooling
  <2>2. job.name \in DOMAIN temp /\ temp[job.name] \in Contents
    BY <1>7, <1>d, FileFact DEF WriteTemp, Writing
  <2>3. job.name \in DOMAIN temp' /\ temp'[job.name].whole
    BY <1>7, <2>2 DEF WriteTemp, Contents
  <2> QED  BY <1>7, <2>1, <2>3 DEF WriteTemp, Writing, Spooling
<1>8. CASE RemoveTarget
  <2>1. /\ job'.step = "rename" /\ job'.name = job.name
        /\ UNCHANGED <<temp, rx>>
    BY <1>8, <1>d, JobFact DEF RemoveTarget, Spooling
  <2>2. /\ DOMAIN inbox' = DOMAIN inbox \ {job.name}
        /\ \A t \in DOMAIN inbox' : inbox'[t] = inbox[t]
    <3>1. /\ DOMAIN Without(inbox, job.name) = DOMAIN inbox \ {job.name}
          /\ \A t \in DOMAIN inbox \ {job.name} :
               Without(inbox, job.name)[t] = inbox[t]
      BY WithoutFiles
    <3> QED  BY <1>8, <3>1 DEF RemoveTarget
  <2> QED  BY <1>8, <2>1, <2>2 DEF RemoveTarget, Writing, Spooling
<1>9. CASE RenameTemp
  <2>1. /\ job.name \in Serials /\ job.name \in DOMAIN temp
        /\ temp[job.name].whole /\ temp[job.name] \in Contents
    BY <1>9, <1>d, FileFact DEF RenameTemp, Writing, Spooling
  <2>2. \A t \in DOMAIN inbox' : inbox'[t].whole
    <3> DEFINE d == With(inbox, job.name, temp[job.name])
    <3>1. /\ DOMAIN d = DOMAIN inbox \cup {job.name}
          /\ d[job.name] = temp[job.name]
          /\ \A t \in DOMAIN inbox \ {job.name} : d[t] = inbox[t]
      BY DEF With
    <3> QED  BY <1>9, <2>1, <3>1 DEF RenameTemp, Writing
  <2> QED  BY <1>9, <1>i, <2>2 DEF RenameTemp, Writing, Spooling
<1>10. CASE SpoolFails
  BY <1>10, <1>i, <1>s DEF SpoolFails, Spooling
<1>11. ASSUME NEW m \in Outgoing, GameWritesFile(m) PROVE Writing'
  BY <1>11, <1>u DEF GameWritesFile
<1>12. ASSUME NEW s \in Serials, GameTakesCreature(s) PROVE Writing'
  <2>1. \A t \in DOMAIN inbox' : t \in DOMAIN inbox /\ inbox'[t] = inbox[t]
    <3>1. /\ DOMAIN Without(inbox, s) = DOMAIN inbox \ {s}
          /\ \A t \in DOMAIN inbox \ {s} : Without(inbox, s)[t] = inbox[t]
      BY WithoutFiles
    <3> QED  BY <1>12, <3>1 DEF GameTakesCreature
  <2> QED  BY <1>12, <1>i, <2>1 DEF GameTakesCreature, memoryVars, Writing, Spooling
<1>13. ASSUME NEW c \in Incoming, ServerOffers(c) PROVE Writing'
  <2>1. /\ [kind |-> "message", creature |-> c] \in Inward
        /\ [kind |-> "ping", creature |-> c] \in Inward
    BY DEF Inward, Packets
  <2>2. rx # <<>> => rx' # <<>> /\ Head(rx') = Head(rx)
    BY <1>13, <1>d, <2>1 DEF ServerOffers
  <2> QED  BY <1>13, <2>2 DEF ServerOffers, diskVars, memoryVars, Writing
<1>14. CASE RescanFallsDue
  BY <1>14, <1>u DEF RescanFallsDue, diskVars
<1>15. CASE ServerGets
  BY <1>15, <1>u DEF ServerGets, diskVars, memoryVars
<1>16. CASE ConnectionBreaks
  BY <1>16, <1>i, <1>s DEF ConnectionBreaks, diskVars, memoryVars, Spooling
<1>17. CASE UNCHANGED filesVars
  BY <1>17, <1>u DEF filesVars, diskVars, memoryVars
<1> QED  BY <1>1, <1>2, <1>3, <1>4, <1>5, <1>6, <1>7, <1>8, <1>9, <1>10, <1>11,
            <1>12, <1>13, <1>14, <1>15, <1>16, <1>17 DEF FilesNext, FilesSteps

LEMMA FilesInvHolds == FilesSpec => []FilesInv
<1>1. FilesInv /\ [FilesNext]_filesVars => FilesInv'
  BY FilesTypeStep, WritingStep DEF FilesInv
<1> QED  BY FilesInvInit, <1>1, PTL DEF FilesSpec

\* Directories hold files and buffers hold packets of the right kind, for any
\* creatures, bounds and faults (every method of the spool).
THEOREM SpoolTypeCorrect == FilesSpec => []FilesTypeOK
<1>1. FilesInv => FilesTypeOK
  BY DEF FilesInv
<1> QED  BY FilesInvHolds, <1>1, PTL

\* Nobody ever sees a half written creature in the inbox, wherever a write
\* fails or the process dies (WriteWholeFileAtomic).
THEOREM InboxIsWhole == FilesSpec => []WholeFilesOnly
<1>1. FilesInv => WholeFilesOnly
  BY DEF FilesInv, Writing, WholeFilesOnly
<1> QED  BY FilesInvHolds, <1>1, PTL

\* A creature stays in the inbox as it is until the game takes it
\* (SpoolPrayFile, WriteWholeFileAtomic).
THEOREM InboxIsKept == FilesSpec => KeptUntilTaken
<1> DEFINE Kept == \A s \in DOMAIN inbox :
      ~(s \in DOMAIN inbox' /\ inbox'[s] = inbox[s]) => GameTakesCreature(s)
<1>1. FilesInv /\ [FilesNext]_filesVars => [Kept]_filesVars
  <2> SUFFICES ASSUME FilesInv, FilesNext, NEW s \in DOMAIN inbox,
                      ~(s \in DOMAIN inbox' /\ inbox'[s] = inbox[s])
               PROVE  GameTakesCreature(s)
    BY DEF filesVars, diskVars
  <2>d. IsDirectory(inbox, Contents) /\ IsDirectory(temp, Contents)
    BY DEF FilesInv, FilesTypeOK
  <2>1. ~UNCHANGED inbox
    OBVIOUS
  <2>2. CASE RemoveTarget
    <3>1. job.name \notin DOMAIN inbox
      BY <2>2 DEF RemoveTarget, FilesInv, Writing, Spooling
    <3>2. /\ DOMAIN Without(inbox, job.name) = DOMAIN inbox \ {job.name}
          /\ \A t \in DOMAIN inbox \ {job.name} :
               Without(inbox, job.name)[t] = inbox[t]
      BY WithoutFiles
    <3> QED  BY <2>2, <3>1, <3>2 DEF RemoveTarget
  <2>3. CASE RenameTemp
    <3>1. /\ job.name \in Serials /\ job.name \notin DOMAIN inbox
          /\ temp[job.name] \in Contents
      BY <2>3, <2>d, FileFact DEF RenameTemp, FilesInv, Writing, Spooling
    <3> DEFINE d == With(inbox, job.name, temp[job.name])
    <3>2. /\ DOMAIN d = DOMAIN inbox \cup {job.name}
          /\ \A t \in DOMAIN inbox \ {job.name} : d[t] = inbox[t]
      BY DEF With
    <3> QED  BY <2>3, <3>1, <3>2 DEF RenameTemp
  <2>4. ASSUME NEW t \in Serials, GameTakesCreature(t) PROVE GameTakesCreature(s)
    <3>1. /\ DOMAIN Without(inbox, t) = DOMAIN inbox \ {t}
          /\ \A u \in DOMAIN inbox \ {t} : Without(inbox, t)[u] = inbox[u]
      BY WithoutFiles
    <3> QED  BY <2>4, <3>1 DEF GameTakesCreature
  <2>5. CASE FilesSteps
    BY <2>1, <2>2, <2>3, <2>5 DEF FilesSteps, ScanOutboxFiles, ScanFinishes,
       OutboxFileUnreadable, PostFails, PostOutboxFile, RemoveSent, SpoolBegins,
       OpenTemp, WriteTemp, SpoolFails, HandlePing, LogIn, DropWithoutInbox, diskVars
  <2> QED  BY <2>1, <2>4, <2>5 DEF FilesNext, SetInboxDirectory,
              GameAsksForName, GameWritesFile, ServerOffers, RescanFallsDue,
              ServerGets, ConnectionBreaks, Crash, diskVars
<1> QED  BY FilesInvHolds, <1>1, PTL DEF FilesSpec, KeptUntilTaken

-----------------------------------------------------------------------------
(* What is sent.                                                           *)

\* Creatures that left, or were lost leaving.
Exported == InTransit \cup lost \cup {m \in Outgoing : got[m] > 0}

\* A name given out is still free when the game writes the file, and a file
\* about to be removed has been sent.
Sending ==
    /\ promised # NoFile => promised \notin DOMAIN outbox
    /\ job.step = "sent" /\ job.name \in DOMAIN outbox =>
         outbox[job.name] \in Exported
    /\ NoExportLost

\* What left is never again only in the outbox: it is under way, then with the
\* server or lost.
LEMMA ExportedStays ==
    ASSUME FilesInv, [FilesNext]_filesVars
    PROVE  Exported \subseteq Exported'
<1> SUFFICES ASSUME NEW m \in Exported PROVE m \in Exported'
  OBVIOUS
<1>t. tx \in Seq(Outward) /\ got \in [Outgoing -> Nat]
  BY DEF FilesInv, FilesTypeOK
<1>o. m \in Outgoing
  <2>1. ASSUME NEW i \in DOMAIN tx, tx[i].kind = "message"
        PROVE  tx[i].creature \in Outgoing
    <3>1. tx[i] \in Outward
      BY <1>t
    <3> QED  BY <2>1, <3>1 DEF Outward, Packets
  <2> QED  BY <2>1 DEF Exported, InTransit, FilesInv, FilesTypeOK
<1>d. ASSUME Drops, UNCHANGED got PROVE m \in Exported'
  BY <1>d DEF Drops, Exported
<1>u. ASSUME UNCHANGED <<tx, lost, got>> PROVE m \in Exported'
  BY <1>u DEF Exported, InTransit
<1>a. ASSUME NEW x, tx' = Append(tx, x), UNCHANGED <<lost, got>>
      PROVE  m \in Exported'
  <2>1. \A i \in DOMAIN tx : i \in DOMAIN tx' /\ tx'[i] = tx[i]
    BY <1>a, <1>t
  <2>2. InTransit \subseteq InTransit'
    BY <2>1 DEF InTransit
  <2> QED  BY <1>a, <2>2 DEF Exported
<1>1. CASE ServerGets
  <2>1. /\ tx # <<>> /\ tx' = Tail(tx)
        /\ Tail(tx) \in Seq(Outward) /\ Len(Tail(tx)) = Len(tx) - 1
        /\ \A i \in 1 .. Len(Tail(tx)) : Tail(tx)[i] = tx[i + 1]
    BY <1>1, <1>t, HeadTailProperties DEF ServerGets
  <2>2. ASSUME m \in InTransit
        PROVE  m \in InTransit' \/ (Head(tx).kind = "message" /\ Head(tx).creature = m)
    <3>1. PICK i \in DOMAIN tx : tx[i].kind = "message" /\ tx[i].creature = m
      BY <2>2 DEF InTransit
    <3>2. CASE i = 1
      BY <3>1, <3>2, <1>t
    <3>3. CASE i # 1
      <4>1. i - 1 \in DOMAIN tx' /\ tx'[i - 1] = tx[i]
        BY <2>1, <3>3, <1>t
      <4>2. i - 1 \in {j \in DOMAIN tx' : tx'[j].kind = "message"}
        BY <3>1, <4>1
      <4>3. tx'[i - 1].creature = m
        BY <3>1, <4>1
      <4>4. tx'[i - 1].creature \in InTransit'
        BY <4>2 DEF InTransit
      <4> QED  BY <4>3, <4>4
    <3> QED  BY <3>2, <3>3
  <2>3. ASSUME Head(tx).kind = "message", Head(tx).creature = m
        PROVE  got'[m] > 0
    BY <1>1, <1>t, <1>o, <2>3 DEF ServerGets
  <2>4. got[m] > 0 => got'[m] > 0
    <3>1. got[m] \in Nat
      BY <1>t, <1>o
    <3>2. got'[m] = got[m] \/ got'[m] = got[m] + 1
      BY <1>1, <1>t, <1>o DEF ServerGets
    <3> QED  BY <3>1, <3>2
  <2>5. lost' = lost
    BY <1>1 DEF ServerGets, historyVars
  <2> QED  BY <1>o, <2>2, <2>3, <2>4, <2>5 DEF Exported
<1>2. CASE ConnectionBreaks \/ Crash \/ PostFails
  BY <1>2, <1>d DEF ConnectionBreaks, Crash, PostFails
<1>3. ASSUME NEW s \in Serials, PostOutboxFile(s) PROVE m \in Exported'
  BY <1>3, <1>a DEF PostOutboxFile, serverVars, historyVars
<1>4. CASE HandlePing
  BY <1>4, <1>a DEF HandlePing, serverVars, historyVars
<1>5. CASE ScanOutboxFiles \/ ScanFinishes \/ OutboxFileUnreadable \/ RemoveSent
             \/ SpoolBegins \/ OpenTemp \/ WriteTemp \/ RemoveTarget
             \/ RenameTemp \/ SpoolFails \/ LogIn \/ DropWithoutInbox
  BY <1>5, <1>u DEF ScanOutboxFiles, ScanFinishes, OutboxFileUnreadable,
     RemoveSent, SpoolBegins, OpenTemp, WriteTemp, RemoveTarget, RenameTemp,
     SpoolFails, LogIn, DropWithoutInbox, serverVars, historyVars
<1>6. CASE \/ SetInboxDirectory \/ GameAsksForName \/ RescanFallsDue
           \/ UNCHANGED filesVars
  BY <1>6, <1>u DEF SetInboxDirectory, GameAsksForName, RescanFallsDue,
     filesVars, serverVars, historyVars
<1>7. ASSUME NEW x \in Outgoing, GameWritesFile(x) PROVE m \in Exported'
  BY <1>7, <1>u DEF GameWritesFile, serverVars
<1>8. ASSUME NEW s \in Serials, GameTakesCreature(s) PROVE m \in Exported'
  BY <1>8, <1>u DEF GameTakesCreature, serverVars, historyVars
<1>9. ASSUME NEW c \in Incoming, ServerOffers(c) PROVE m \in Exported'
  BY <1>9, <1>u DEF ServerOffers, historyVars
<1> QED  BY <1>1, <1>2, <1>3, <1>4, <1>5, <1>6, <1>7, <1>8, <1>9
         DEF FilesNext, FilesSteps

LEMMA SendingInit == FilesInit => Sending
BY DEF FilesInit, Sending, NoExportLost, Idle

LEMMA SendingStep ==
    FilesInv /\ Sending /\ [FilesNext]_filesVars => Sending'
<1> SUFFICES ASSUME FilesInv, Sending, [FilesNext]_filesVars PROVE Sending'
  OBVIOUS
<1>t. /\ IsDirectory(outbox, Outgoing) /\ put \subseteq Outgoing
      /\ promised \in Serials \cup {NoFile}
  BY DEF FilesInv, FilesTypeOK
<1>e. Exported \subseteq Exported'
  BY ExportedStays
<1>p. put \subseteq Range(outbox) \cup Exported
  BY <1>t DEF Sending, NoExportLost, Exported
<1>q. ASSUME put' \subseteq Range(outbox)' \cup Exported' PROVE NoExportLost'
  BY <1>q DEF NoExportLost, Exported
<1>i. Idle.step = "idle" /\ Scanning.step = "scan" /\ NoFile \notin Serials
  BY DEF Idle, Scanning, NoFile, Serials
<1>u. ASSUME UNCHANGED <<outbox, put>>, promised' \in {promised, NoFile},
             job' = job \/ job'.step # "sent"
      PROVE  Sending'
  BY <1>e, <1>p, <1>q, <1>u DEF Sending
<1>1. ASSUME NEW s \in Serials, PostOutboxFile(s) PROVE Sending'
  <2>1. outbox[s] \in InTransit'
    <3> DEFINE x == [kind |-> "message", creature |-> outbox[s]]
    <3>1. tx' = Append(tx, x) /\ tx \in Seq(Outward)
      BY <1>1 DEF PostOutboxFile, FilesInv, FilesTypeOK
    <3>2. Len(tx) + 1 \in DOMAIN tx' /\ tx'[Len(tx) + 1] = x
      BY <3>1
    <3>3. Len(tx) + 1 \in {j \in DOMAIN tx' : tx'[j].kind = "message"}
      BY <3>2
    <3>4. tx'[Len(tx) + 1].creature = outbox[s]
      BY <3>2
    <3> QED  BY <3>3, <3>4 DEF InTransit
  <2>2. UNCHANGED <<outbox, put, promised>> /\ job'.name = s
    BY <1>1 DEF PostOutboxFile, diskVars, historyVars
  <2> QED  BY <1>e, <1>p, <1>q, <2>1, <2>2 DEF Sending, Exported
<1>2. CASE RemoveSent
  <2>1. UNCHANGED <<put, promised>> /\ job'.step # "sent"
    BY <1>2, <1>i DEF RemoveSent
  <2>2. CASE outbox' = outbox
    BY <1>e, <1>p, <1>q, <2>1, <2>2 DEF Sending
  <2>3. CASE outbox' = Without(outbox, job.name)
    <3>1. /\ DOMAIN outbox' = DOMAIN outbox \ {job.name}
          /\ \A t \in DOMAIN outbox \ {job.name} : outbox'[t] = outbox[t]
      BY <2>3 DEF Without, Restrict
    <3>2. Range(outbox) \subseteq Range(outbox)' \cup Exported
      BY <1>2, <3>1 DEF RemoveSent, Sending, Range
    <3> QED  BY <1>e, <1>p, <1>q, <2>1, <3>1, <3>2 DEF Sending
  <2> QED  BY <1>2, <2>2, <2>3 DEF RemoveSent
<1>3. CASE GameAsksForName
  <2>1. PICK now, s \in Serials : IsFresh(outbox, now, s) /\ promised' = s
    BY <1>3 DEF GameAsksForName
  <2>2. UNCHANGED <<outbox, put, job>> /\ s \notin DOMAIN outbox
    BY <1>3, <2>1 DEF GameAsksForName, IsFresh, diskVars, historyVars
  <2> QED  BY <1>e, <1>p, <1>q, <2>1, <2>2 DEF Sending
<1>4. ASSUME NEW m \in Outgoing, GameWritesFile(m) PROVE Sending'
  <2>1. /\ outbox' = With(outbox, promised, m) /\ promised \notin DOMAIN outbox
        /\ promised' = NoFile /\ put' = put \cup {m} /\ job' = job /\ job = Idle
    BY <1>4 DEF GameWritesFile, Sending
  <2>2. Range(outbox)' = Range(outbox) \cup {m}
    BY <2>1 DEF With, Range
  <2> QED  BY <1>e, <1>i, <1>p, <1>q, <2>1, <2>2 DEF Sending
<1>5. CASE ScanOutboxFiles \/ ScanFinishes \/ OutboxFileUnreadable \/ PostFails
  BY <1>5, <1>i, <1>u DEF ScanOutboxFiles, ScanFinishes, OutboxFileUnreadable,
     PostFails, diskVars, historyVars
<1>6. CASE SpoolBegins
  BY <1>6, <1>u DEF SpoolBegins, diskVars, historyVars
<1>7. CASE OpenTemp \/ WriteTemp \/ RemoveTarget
  <2>1. job'.step # "sent"
    BY <1>7, JobFact DEF OpenTemp, WriteTemp, RemoveTarget, FilesInv, FilesTypeOK,
       Spooling
  <2> QED  BY <1>7, <1>u, <2>1 DEF OpenTemp, WriteTemp, RemoveTarget, historyVars
<1>8. CASE \/ RenameTemp \/ SpoolFails \/ LogIn \/ HandlePing
           \/ DropWithoutInbox \/ SetInboxDirectory
  BY <1>8, <1>i, <1>u DEF RenameTemp, SpoolFails, LogIn, HandlePing,
     DropWithoutInbox, SetInboxDirectory, diskVars, memoryVars, historyVars
<1>9. CASE RescanFallsDue \/ ServerGets \/ ConnectionBreaks \/ Crash
             \/ UNCHANGED filesVars
  BY <1>9, <1>i, <1>u DEF RescanFallsDue, ServerGets, ConnectionBreaks, Crash,
     filesVars, diskVars, memoryVars, historyVars
<1>10. ASSUME NEW s \in Serials, GameTakesCreature(s) PROVE Sending'
  BY <1>10, <1>u DEF GameTakesCreature, memoryVars, historyVars
<1>11. ASSUME NEW c \in Incoming, ServerOffers(c) PROVE Sending'
  BY <1>11, <1>u DEF ServerOffers, diskVars, memoryVars, historyVars
<1> QED  BY <1>1, <1>2, <1>3, <1>4, <1>5, <1>6, <1>7, <1>8, <1>9, <1>10, <1>11
         DEF FilesNext, FilesSteps

\* An exported creature is in the outbox, under way, with the server, or was
\* under way when a connection or the process ended (SendOutboxFile).
THEOREM ExportsAreKept == FilesSpec => []NoExportLost
<1>1. Sending => NoExportLost
  BY DEF Sending
<1> QED  BY FilesInvHolds, SendingInit, SendingStep, <1>1, PTL DEF FilesSpec

-----------------------------------------------------------------------------
(* How often a creature is sent.                                           *)

\* The places of a creature's messages in a queue.
IsPost(x, m)  == x.kind = "message" /\ x.creature = m
PostsOf(q, m) == {i \in DOMAIN q : IsPost(q[i], m)}
Posts(q, m)   == Cardinality(PostsOf(q, m))

LEMMA PostsFact ==
    ASSUME NEW S, NEW q \in Seq(S), NEW m
    PROVE  IsFiniteSet(PostsOf(q, m)) /\ Posts(q, m) \in Nat
<1>1. IsFiniteSet(1 .. Len(q)) /\ PostsOf(q, m) \in SUBSET (1 .. Len(q))
  BY FS_Interval DEF PostsOf
<1>2. IsFiniteSet(PostsOf(q, m))
  BY <1>1, FS_Subset
<1> QED  BY <1>2, FS_CardinalityType DEF Posts

LEMMA PostsNone == ASSUME NEW m PROVE Posts(<<>>, m) = 0
<1>1. PostsOf(<<>>, m) = {}
  BY DEF PostsOf
<1> QED  BY <1>1, FS_EmptySet DEF Posts

LEMMA PostsAppend ==
    ASSUME NEW S, NEW q \in Seq(S), NEW x \in S, NEW m
    PROVE  Posts(Append(q, x), m) = Posts(q, m) + (IF IsPost(x, m) THEN 1 ELSE 0)
<1> DEFINE n == Len(q) + 1
<1>1. /\ Append(q, x)[n] = x /\ DOMAIN Append(q, x) = DOMAIN q \cup {n}
      /\ n \notin DOMAIN q /\ \A i \in DOMAIN q : Append(q, x)[i] = q[i]
  OBVIOUS
<1> HIDE DEF n
<1>2. n \notin PostsOf(q, m) /\ IsFiniteSet(PostsOf(q, m)) /\ Posts(q, m) \in Nat
  BY <1>1, PostsFact DEF PostsOf
<1>3. CASE IsPost(x, m)
  <2>1. PostsOf(Append(q, x), m) = PostsOf(q, m) \cup {n}
    BY <1>1, <1>3 DEF PostsOf
  <2> QED  BY <1>2, <1>3, <2>1, FS_AddElement DEF Posts
<1>4. CASE ~IsPost(x, m)
  <2>1. PostsOf(Append(q, x), m) = PostsOf(q, m)
    BY <1>1, <1>4 DEF PostsOf
  <2> QED  BY <1>2, <1>4, <2>1 DEF Posts
<1> QED  BY <1>3, <1>4

LEMMA PostsTail ==
    ASSUME NEW S, NEW q \in Seq(S), q # <<>>, NEW m
    PROVE  Posts(q, m) = Posts(Tail(q), m) + (IF IsPost(Head(q), m) THEN 1 ELSE 0)
<1> DEFINE P == PostsOf(q, m)
           R == PostsOf(Tail(q), m)
           f == [i \in P \ {1} |-> i - 1]
<1>1. /\ Tail(q) \in Seq(S) /\ Len(Tail(q)) = Len(q) - 1 /\ Len(q) \in Nat
      /\ \A i \in 1 .. Len(Tail(q)) : Tail(q)[i] = q[i + 1]
  BY HeadTailProperties
<1>2. IsFiniteSet(P) /\ Cardinality(P) \in Nat
  BY PostsFact DEF Posts
<1>3. P \subseteq 1 .. Len(q) /\ R \subseteq 1 .. Len(Tail(q))
  BY <1>1 DEF PostsOf
<1>4. \A i \in P \ {1} : i - 1 \in R
  BY <1>1, <1>3 DEF PostsOf
<1>5. \A j \in R : j + 1 \in P \ {1}
  BY <1>1, <1>3 DEF PostsOf
<1>6. 1 \in P <=> IsPost(Head(q), m)
  BY <1>1 DEF PostsOf
<1> HIDE DEF P, R
<1>7. f \in Bijection(P \ {1}, R)
  <2>1. f \in [P \ {1} -> R]
    BY <1>4
  <2>2. \A i, j \in P \ {1} : f[i] = f[j] => i = j
    BY <1>1, <1>3
  <2>3. \A j \in R : j + 1 \in P \ {1} /\ f[j + 1] = j
    BY <1>1, <1>3, <1>5
  <2> QED  BY <2>1, <2>2, <2>3 DEF Bijection, Injection, Surjection, IsInjective
<1>8. Cardinality(R) = Cardinality(P \ {1})
  <2>1. IsFiniteSet(P \ {1}) /\ ExistsBijection(P \ {1}, R)
    BY <1>2, <1>7, FS_RemoveElement DEF ExistsBijection
  <2> QED  BY <2>1, FS_Bijection
<1>9. Cardinality(P \ {1}) = IF 1 \in P THEN Cardinality(P) - 1 ELSE Cardinality(P)
  BY <1>2, FS_RemoveElement
<1> QED  BY <1>2, <1>6, <1>8, <1>9 DEF Posts, P, R

\* A creature that a scan may still send: it is not exported yet, or a file
\* other than the one just sent has it.
JustSent(s) == job.step = "sent" /\ job.name = s
ToSend(m)   == m \notin put \/ \E s \in DOMAIN outbox : outbox[s] = m /\ ~JustSent(s)

\* How often the server got a creature, or can get it if no removal fails.
Times(m) == got[m] + Posts(tx, m) + (IF ToSend(m) THEN 1 ELSE 0)

\* No two files have the same creature, so that the removal of one is enough.
Counting ==
    /\ \A s \in DOMAIN outbox : outbox[s] \in put
    /\ \A r, s \in DOMAIN outbox : outbox[r] = outbox[s] => r = s
    /\ \A m \in Outgoing : Times(m) <= 1 + unremoved[m]

LEMMA TimesFact ==
    ASSUME FilesTypeOK, NEW m \in Outgoing
    PROVE  got[m] \in Nat /\ Posts(tx, m) \in Nat /\ unremoved[m] \in Nat
BY PostsFact DEF FilesTypeOK

LEMMA CountingInit == FilesInit => Counting
<1> SUFFICES ASSUME FilesInit PROVE Counting
  OBVIOUS
<1>1. DOMAIN outbox = {} /\ tx = <<>>
      /\ \A m \in Outgoing : got[m] = 0 /\ unremoved[m] = 0
  BY DEF FilesInit, EmptyDirectory
<1> QED  BY <1>1, PostsNone DEF Counting, Times

\* A step after which the server has, gets or may be sent no more than before,
\* but for one removal that failed.
LEMMA CountingRule ==
    ASSUME FilesTypeOK, FilesTypeOK', Counting, UNCHANGED <<outbox, put>>,
           \A m \in Outgoing : got'[m] + Posts(tx', m) <= got[m] + Posts(tx, m),
           \A m \in Outgoing :
             \/ unremoved'[m] = unremoved[m] /\ (ToSend(m)' => ToSend(m))
             \/ unremoved'[m] = unremoved[m] + 1
    PROVE  Counting'
<1>1. ASSUME NEW m \in Outgoing PROVE Times(m)' <= 1 + unremoved'[m]
  <2>1. /\ got[m] \in Nat /\ Posts(tx, m) \in Nat /\ unremoved[m] \in Nat
        /\ got'[m] \in Nat /\ Posts(tx', m) \in Nat /\ unremoved'[m] \in Nat
    BY TimesFact, PostsFact DEF FilesTypeOK
  <2>2. Times(m) <= 1 + unremoved[m]
    BY DEF Counting
  <2> QED  BY <2>1, <2>2 DEF Times
<1> QED  BY <1>1 DEF Counting

\* The steps that leave the outbox alone and send nothing.
LEMMA CountingQuiet ==
    ASSUME FilesTypeOK, FilesTypeOK', Counting, UNCHANGED <<outbox, put, got>>,
           tx' = tx \/ tx' = <<>>,
           \/ unremoved' = unremoved /\ (job' = job \/ job.step # "sent")
           \/ job.step = "sent" /\ unremoved' = Unremoved
    PROVE  Counting'
<1>1. ASSUME NEW m \in Outgoing
      PROVE  got'[m] + Posts(tx', m) <= got[m] + Posts(tx, m)
  BY <1>1, TimesFact, PostsNone
<1>2. ASSUME job' = job \/ job.step # "sent", NEW m \in Outgoing, ToSend(m)'
      PROVE  ToSend(m)
  BY <1>2 DEF ToSend, JustSent
<1>3. ASSUME job.step = "sent", unremoved' = Unremoved, NEW m \in Outgoing
      PROVE  \/ unremoved'[m] = unremoved[m] /\ (ToSend(m)' => ToSend(m))
             \/ unremoved'[m] = unremoved[m] + 1
  <2>1. unremoved \in [Outgoing -> Nat]
    BY DEF FilesTypeOK
  <2>2. CASE m = outbox[job.name]
    BY <1>3, <2>1, <2>2 DEF Unremoved
  <2>3. CASE m # outbox[job.name]
    <3>1. unremoved'[m] = unremoved[m]
      BY <1>3, <2>1, <2>3 DEF Unremoved
    <3>2. ToSend(m)' => ToSend(m)
      BY <2>3 DEF ToSend, JustSent
    <3> QED  BY <3>1, <3>2
  <2> QED  BY <2>2, <2>3
<1> QED  BY <1>1, <1>2, <1>3, CountingRule

LEMMA CountingStep ==
    FilesInv /\ FilesTypeOK' /\ Sending /\ Counting /\ [FilesNext]_filesVars => Counting'
<1> SUFFICES ASSUME FilesInv, FilesTypeOK', Sending, Counting, [FilesNext]_filesVars
             PROVE  Counting'
  OBVIOUS
<1>t. /\ FilesTypeOK /\ tx \in Seq(Outward) /\ put \subseteq Outgoing
      /\ IsDirectory(outbox, Outgoing) /\ job \in Jobs /\ got \in [Outgoing -> Nat]
  BY DEF FilesInv, FilesTypeOK
<1>i. Idle.step = "idle" /\ Scanning.step = "scan"
  BY DEF Idle, Scanning
<1>o. /\ \A s \in DOMAIN outbox : outbox[s] \in put
      /\ \A r, s \in DOMAIN outbox : outbox[r] = outbox[s] => r = s
      /\ \A m \in Outgoing : Times(m) <= 1 + unremoved[m]
  BY DEF Counting
<1>1. ASSUME NEW s \in Serials, PostOutboxFile(s) PROVE Counting'
  <2> DEFINE x == [kind |-> "message", creature |-> outbox[s]]
  <2>1. /\ tx' = Append(tx, x) /\ s \in DOMAIN outbox
        /\ UNCHANGED <<outbox, put, got, unremoved>>
        /\ job = Scanning /\ job'.step = "sent" /\ job'.name = s
    BY <1>1 DEF PostOutboxFile, diskVars, serverVars, historyVars
  <2>2. x \in Outward /\ \A m : IsPost(x, m) <=> m = outbox[s]
    BY <1>t, <2>1, FileFact DEF Outward, Packets, IsPost
  <2> HIDE DEF x
  <2>3. ASSUME NEW m \in Outgoing PROVE Times(m)' <= 1 + unremoved'[m]
    <3>1. Posts(tx', m) = Posts(tx, m) + (IF IsPost(x, m) THEN 1 ELSE 0)
      BY <1>t, <2>1, <2>2, PostsAppend
    <3>2. got[m] \in Nat /\ Posts(tx, m) \in Nat /\ unremoved[m] \in Nat
      BY <1>t, TimesFact
    <3>3. CASE m = outbox[s]
      <4>1. ToSend(m) /\ ~ToSend(m)'
        BY <1>i, <1>o, <2>1, <3>3 DEF ToSend, JustSent
      <4> QED  BY <1>o, <2>1, <2>2, <3>1, <3>2, <3>3, <4>1 DEF Times
    <3>4. CASE m # outbox[s]
      <4>1. ToSend(m)' => ToSend(m)
        BY <1>i, <2>1 DEF ToSend, JustSent
      <4> QED  BY <1>o, <2>1, <2>2, <3>1, <3>2, <3>4, <4>1 DEF Times
    <3> QED  BY <3>3, <3>4
  <2> QED  BY <1>o, <2>1, <2>3 DEF Counting
<1>2. CASE RemoveSent
  <2>1. /\ UNCHANGED <<put, got, tx>> /\ job.step = "sent" /\ job' = Scanning
    BY <1>2 DEF RemoveSent, serverVars
  <2>2. CASE unremoved' = Unremoved /\ UNCHANGED outbox
    BY <1>t, <2>1, <2>2, CountingQuiet
  <2>3. CASE outbox' = Without(outbox, job.name) /\ UNCHANGED unremoved
    <3>1. /\ DOMAIN outbox' = DOMAIN outbox \ {job.name}
          /\ \A r \in DOMAIN outbox \ {job.name} : outbox'[r] = outbox[r]
      BY <2>3, WithoutFiles
    <3>2. ASSUME NEW m \in Outgoing PROVE Times(m)' <= 1 + unremoved'[m]
      <4>1. ToSend(m)' => ToSend(m)
        BY <2>1, <3>1 DEF ToSend, JustSent
      <4>2. got[m] \in Nat /\ Posts(tx, m) \in Nat /\ unremoved[m] \in Nat
        BY <1>t, TimesFact
      <4> QED  BY <1>o, <2>1, <2>3, <4>1, <4>2 DEF Times
    <3> QED  BY <1>o, <2>1, <3>1, <3>2 DEF Counting
  <2> QED  BY <1>2, <2>2, <2>3 DEF RemoveSent
<1>3. ASSUME NEW c \in Outgoing, GameWritesFile(c) PROVE Counting'
  <2>1. /\ outbox' = With(outbox, promised, c) /\ promised \notin DOMAIN outbox
        /\ c \notin put /\ put' = put \cup {c} /\ job' = job /\ job = Idle
        /\ UNCHANGED <<got, tx, unremoved>>
    BY <1>3 DEF GameWritesFile, Sending, serverVars
  <2>2. /\ DOMAIN outbox' = DOMAIN outbox \cup {promised} /\ outbox'[promised] = c
        /\ \A r \in DOMAIN outbox : outbox'[r] = outbox[r]
    BY <2>1 DEF With
  <2>3. ASSUME NEW m \in Outgoing PROVE Times(m)' <= 1 + unremoved'[m]
    <3>1. ToSend(m)' => ToSend(m)
      BY <1>i, <2>1, <2>2 DEF ToSend, JustSent
    <3>2. got[m] \in Nat /\ Posts(tx, m) \in Nat /\ unremoved[m] \in Nat
      BY <1>t, TimesFact
    <3> QED  BY <1>o, <2>1, <3>1, <3>2 DEF Times
  <2>4. /\ \A s \in DOMAIN outbox' : outbox'[s] \in put'
        /\ \A r, s \in DOMAIN outbox' : outbox'[r] = outbox'[s] => r = s
    BY <1>o, <2>1, <2>2
  <2> QED  BY <2>3, <2>4 DEF Counting
<1>4. CASE ServerGets
  <2>1. /\ tx # <<>> /\ tx' = Tail(tx) /\ UNCHANGED <<outbox, put, job, unremoved>>
    BY <1>4 DEF ServerGets, diskVars, memoryVars, historyVars
  <2>2. ASSUME NEW m \in Outgoing
        PROVE  got'[m] + Posts(tx', m) <= got[m] + Posts(tx, m)
    <3>1. Posts(tx, m) = Posts(tx', m) + (IF IsPost(Head(tx), m) THEN 1 ELSE 0)
      BY <1>t, <2>1, PostsTail
    <3>2. got[m] \in Nat /\ Posts(tx, m) \in Nat /\ Posts(tx', m) \in Nat
      BY <1>t, TimesFact, PostsFact DEF FilesTypeOK
    <3>3. got'[m] = got[m] \/ (IsPost(Head(tx), m) /\ got'[m] = got[m] + 1)
      <4>1. Head(tx) \in Outward /\ (Head(tx).kind # "accept" => Head(tx).kind = "message")
        BY <1>t, <2>1, HeadTailProperties DEF Outward, Packets
      <4>2. CASE Head(tx).kind = "accept"
        BY <1>4, <4>2 DEF ServerGets
      <4>3. CASE Head(tx).kind # "accept"
        BY <1>4, <1>t, <4>1, <4>3 DEF ServerGets, IsPost
      <4> QED  BY <4>2, <4>3
    <3> QED  BY <3>1, <3>2, <3>3
  <2>3. \A m \in Outgoing : ToSend(m)' => ToSend(m)
    BY <2>1 DEF ToSend, JustSent
  <2> QED  BY <1>t, <2>1, <2>2, <2>3, CountingRule
<1>5. CASE HandlePing
  <2> DEFINE x == [kind |-> "accept", creature |-> Head(rx).creature]
  <2>1. /\ tx' = Append(tx, x) /\ UNCHANGED <<outbox, put, got, job, unremoved>>
        /\ rx # <<>> /\ rx \in Seq(Inward)
    BY <1>5 DEF HandlePing, diskVars, memoryVars, serverVars, historyVars,
       FilesInv, FilesTypeOK
  <2>2. x \in Outward /\ \A m : ~IsPost(x, m)
    <3>1. Head(rx) \in Inward
      BY <2>1, HeadTailProperties
    <3> QED  BY <3>1 DEF Outward, Inward, Packets, IsPost
  <2> HIDE DEF x
  <2>3. ASSUME NEW m \in Outgoing
        PROVE  got'[m] + Posts(tx', m) <= got[m] + Posts(tx, m)
    <3>1. Posts(tx', m) = Posts(tx, m) /\ got[m] \in Nat /\ Posts(tx, m) \in Nat
      BY <1>t, <2>1, <2>2, PostsAppend, TimesFact
    <3> QED  BY <2>1, <3>1
  <2>4. \A m \in Outgoing : ToSend(m)' => ToSend(m)
    BY <2>1 DEF ToSend, JustSent
  <2> QED  BY <1>t, <2>1, <2>3, <2>4, CountingRule
<1>6. CASE Crash
  <2>1. UNCHANGED <<outbox, put, got>> /\ tx' = <<>>
    BY <1>6 DEF Crash, Drops, diskVars
  <2>2. unremoved' = IF job.step = "sent" THEN Unremoved ELSE unremoved
    BY <1>6 DEF Crash
  <2> QED  BY <1>t, <2>1, <2>2, CountingQuiet
<1>7. CASE ConnectionBreaks \/ PostFails
  <2>1. /\ UNCHANGED <<outbox, put, got, unremoved>> /\ tx' = <<>>
        /\ job' = job \/ job.step # "sent"
    BY <1>7, <1>i DEF ConnectionBreaks, PostFails, Drops, diskVars, memoryVars
  <2> QED  BY <1>t, <2>1, CountingQuiet
<1>8. CASE \/ ScanOutboxFiles \/ ScanFinishes \/ OutboxFileUnreadable \/ SpoolBegins
           \/ OpenTemp \/ WriteTemp \/ RemoveTarget \/ RenameTemp \/ SpoolFails \/ LogIn
           \/ DropWithoutInbox
  <2>1. /\ UNCHANGED <<outbox, put, got, unremoved, tx>>
        /\ job' = job \/ job.step # "sent"
    BY <1>8, <1>i DEF ScanOutboxFiles, ScanFinishes, OutboxFileUnreadable, SpoolBegins,
       OpenTemp, WriteTemp, RemoveTarget, RenameTemp, SpoolFails, LogIn,
       DropWithoutInbox, diskVars, memoryVars, serverVars, historyVars
  <2> QED  BY <1>t, <2>1, CountingQuiet
<1>9. CASE \/ SetInboxDirectory \/ GameAsksForName \/ RescanFallsDue
           \/ UNCHANGED filesVars
  <2>1. UNCHANGED <<outbox, put, got, unremoved, tx, job>>
    BY <1>9 DEF SetInboxDirectory, GameAsksForName, RescanFallsDue, filesVars,
       diskVars, memoryVars, serverVars, historyVars
  <2> QED  BY <1>t, <2>1, CountingQuiet
<1>10. ASSUME NEW s \in Serials, GameTakesCreature(s) PROVE Counting'
  <2>1. UNCHANGED <<outbox, put, got, unremoved, tx, job>>
    BY <1>10 DEF GameTakesCreature, memoryVars, serverVars, historyVars
  <2> QED  BY <1>t, <2>1, CountingQuiet
<1>11. ASSUME NEW c \in Incoming, ServerOffers(c) PROVE Counting'
  <2>1. UNCHANGED <<outbox, put, got, unremoved, tx, job>>
    BY <1>11 DEF ServerOffers, diskVars, memoryVars, historyVars
  <2> QED  BY <1>t, <2>1, CountingQuiet
<1> QED  BY <1>1, <1>2, <1>3, <1>4, <1>5, <1>6, <1>7, <1>8, <1>9, <1>10, <1>11
         DEF FilesNext, FilesSteps

\* The server gets a creature again only as often as its file was sent and could
\* not be removed, however many scans and connections there are
\* (SendOutboxFile, ScanOutbox).
THEOREM ExportsAreSentOnce == FilesSpec => []SentAgainOnlyIfUnremoved
<1>1. FilesTypeOK /\ Counting => SentAgainOnlyIfUnremoved
  <2> SUFFICES ASSUME FilesTypeOK, Counting, NEW m \in Outgoing
               PROVE  got[m] <= 1 + unremoved[m]
    BY DEF SentAgainOnlyIfUnremoved
  <2> QED  BY TimesFact DEF Counting, Times
<1>2. FilesInv => FilesTypeOK
  BY DEF FilesInv
<1> QED  BY FilesInvHolds, SendingInit, SendingStep, CountingInit, CountingStep,
            <1>1, <1>2, PTL DEF FilesSpec

-----------------------------------------------------------------------------
(* What is received.                                                       *)

\* A creature is held until it is confirmed, what is under way was offered in
\* this session, and a ping is behind its creature.
Offering ==
    /\ held \cap confirmed = {} /\ held \cup confirmed = Incoming
    /\ \A i \in DOMAIN rx : rx[i].creature \in offered
    /\ \A i \in DOMAIN tx : tx[i].kind = "accept" => tx[i].creature \in offered
    /\ \A i, j \in DOMAIN rx :
         /\ rx[i].kind = "ping" /\ rx[j].kind = "message"
         /\ rx[i].creature = rx[j].creature
         => j < i
    /\ AnsweredInOrder

\* What may have to do with the creatures the server holds.
offerVars == <<rx, tx, held, offered, confirmed, spooled, cutOff>>

\* The steps that do.
OfferSteps ==
    \/ \E s \in Serials : PostOutboxFile(s)
    \/ RenameTemp \/ SpoolFails \/ DropWithoutInbox \/ HandlePing
    \/ \E c \in Incoming : ServerOffers(c)
    \/ ServerGets \/ PostFails \/ ConnectionBreaks \/ Crash

LEMMA OfferFact ==
    [FilesNext]_filesVars => OfferSteps \/ UNCHANGED offerVars
<1> SUFFICES ASSUME [FilesNext]_filesVars, ~OfferSteps PROVE UNCHANGED offerVars
  OBVIOUS
<1>1. CASE FilesSteps
  BY <1>1 DEF FilesSteps, OfferSteps, offerVars, ScanOutboxFiles, ScanFinishes,
     OutboxFileUnreadable, RemoveSent, SpoolBegins, OpenTemp, WriteTemp,
     RemoveTarget, LogIn, serverVars, historyVars
<1>2. CASE SetInboxDirectory \/ GameAsksForName \/ RescanFallsDue \/ UNCHANGED filesVars
  BY <1>2 DEF offerVars, SetInboxDirectory, GameAsksForName, RescanFallsDue,
     filesVars, serverVars, historyVars
<1>3. ASSUME NEW m \in Outgoing, GameWritesFile(m) PROVE UNCHANGED offerVars
  BY <1>3 DEF offerVars, GameWritesFile, serverVars
<1>4. ASSUME NEW s \in Serials, GameTakesCreature(s) PROVE UNCHANGED offerVars
  BY <1>4 DEF offerVars, GameTakesCreature, serverVars, historyVars
<1> QED  BY <1>1, <1>2, <1>3, <1>4 DEF FilesNext, OfferSteps

LEMMA OfferingInit == FilesInit => Offering
BY DEF FilesInit, Offering, AnsweredInOrder, Answered

\* What a queue holds after its head was taken.
LEMMA TailFact ==
    ASSUME NEW S, NEW q \in Seq(S), q # <<>>
    PROVE  \A i \in DOMAIN Tail(q) :
             i \in Nat /\ i + 1 \in DOMAIN q /\ Tail(q)[i] = q[i + 1]
<1>1. /\ Tail(q) \in Seq(S) /\ Len(Tail(q)) = Len(q) - 1
      /\ \A i \in 1 .. Len(Tail(q)) : Tail(q)[i] = q[i + 1]
  BY HeadTailProperties
<1> QED  BY <1>1

LEMMA OfferingStep == FilesInv /\ Offering /\ [FilesNext]_filesVars => Offering'
<1> SUFFICES ASSUME FilesInv, Offering, OfferSteps PROVE Offering'
  <2>1. UNCHANGED offerVars /\ Offering => Offering'
    BY DEF offerVars, Offering, AnsweredInOrder, Answered
  <2> QED  BY <2>1, OfferFact
<1>t. rx \in Seq(Inward) /\ tx \in Seq(Outward)
  BY DEF FilesInv, FilesTypeOK
<1>o. /\ held \cap confirmed = {} /\ held \cup confirmed = Incoming
      /\ \A i \in DOMAIN rx : rx[i].creature \in offered
      /\ \A i \in DOMAIN tx : tx[i].kind = "accept" => tx[i].creature \in offered
      /\ \A i, j \in DOMAIN rx :
           /\ rx[i].kind = "ping" /\ rx[j].kind = "message"
           /\ rx[i].creature = rx[j].creature
           => j < i
  BY DEF Offering
<1>a. /\ \A i \in DOMAIN rx : rx[i].kind = "message" => rx[i].creature \notin confirmed
      /\ \A i \in DOMAIN rx, j \in DOMAIN tx :
           rx[i].kind = "message" /\ tx[j].kind = "accept" =>
             rx[i].creature # tx[j].creature
  BY DEF Offering, AnsweredInOrder, Answered
<1>r. ASSUME \A i \in DOMAIN rx' : rx'[i].kind = "message" =>
                                     rx'[i].creature \notin confirmed',
             \A i \in DOMAIN rx', j \in DOMAIN tx' :
               rx'[i].kind = "message" /\ tx'[j].kind = "accept" =>
                 rx'[i].creature # tx'[j].creature
      PROVE  AnsweredInOrder'
  BY <1>r DEF AnsweredInOrder, Answered
<1>1. ASSUME NEW s \in Serials, PostOutboxFile(s) PROVE Offering'
  <2>1. /\ tx' = Append(tx, [kind |-> "message", creature |-> outbox[s]])
        /\ UNCHANGED <<rx, held, offered, confirmed>>
    BY <1>1 DEF PostOutboxFile, serverVars
  <2>2. \A i \in DOMAIN tx' :
          tx'[i].kind = "accept" => i \in DOMAIN tx /\ tx'[i] = tx[i]
    BY <1>t, <2>1
  <2>3. AnsweredInOrder'
    BY <1>a, <1>r, <2>1, <2>2
  <2> QED  BY <1>o, <2>1, <2>2, <2>3 DEF Offering
<1>2. CASE RenameTemp \/ SpoolFails \/ DropWithoutInbox
  <2>1. /\ rx # <<>> /\ rx' = Tail(rx) /\ UNCHANGED <<tx, held, offered, confirmed>>
    BY <1>2 DEF RenameTemp, SpoolFails, DropWithoutInbox, FilesInv, Writing,
       Spooling, serverVars
  <2>2. \A i \in DOMAIN rx' : i \in Nat /\ i + 1 \in DOMAIN rx /\ rx'[i] = rx[i + 1]
    BY <1>t, <2>1, TailFact
  <2>3. \A i, j \in DOMAIN rx' :
          /\ rx'[i].kind = "ping" /\ rx'[j].kind = "message"
          /\ rx'[i].creature = rx'[j].creature
          => j < i
    BY <1>o, <2>2
  <2>4. AnsweredInOrder'
    BY <1>a, <1>r, <2>1, <2>2
  <2> QED  BY <1>o, <2>1, <2>2, <2>3, <2>4 DEF Offering
<1>3. CASE HandlePing
  <2> DEFINE c == Head(rx).creature
  <2>1. /\ rx # <<>> /\ Head(rx).kind = "ping" /\ rx' = Tail(rx)
        /\ tx' = Append(tx, [kind |-> "accept", creature |-> c])
        /\ UNCHANGED <<held, offered, confirmed>>
    BY <1>3 DEF HandlePing, serverVars
  <2>2. \A i \in DOMAIN rx' : i \in Nat /\ i + 1 \in DOMAIN rx /\ rx'[i] = rx[i + 1]
    BY <1>t, <2>1, TailFact
  <2>3. 1 \in DOMAIN rx /\ rx[1] = Head(rx)
    BY <1>t, <2>1
  <2>4. \A i \in DOMAIN tx' : \/ i \in DOMAIN tx /\ tx'[i] = tx[i]
                              \/ tx'[i].creature = c
    BY <1>t, <2>1
  <2>5. c \in offered
    BY <1>o, <2>3
  <2>6. \A i \in DOMAIN rx' : rx'[i].kind = "message" => rx'[i].creature # c
    <3>1. \A i \in DOMAIN rx' : i \in Nat /\ ~(i + 1 < 1)
      BY <2>2
    <3> QED  BY <1>o, <2>1, <2>2, <2>3, <3>1
  <2>7. \A i, j \in DOMAIN rx' :
          /\ rx'[i].kind = "ping" /\ rx'[j].kind = "message"
          /\ rx'[i].creature = rx'[j].creature
          => j < i
    BY <1>o, <2>2
  <2> HIDE DEF c
  <2>8. AnsweredInOrder'
    BY <1>a, <1>r, <2>1, <2>2, <2>4, <2>6
  <2> QED  BY <1>o, <2>1, <2>2, <2>4, <2>5, <2>7, <2>8 DEF Offering
<1>4. ASSUME NEW c \in Incoming, ServerOffers(c) PROVE Offering'
  <2> DEFINE m == [kind |-> "message", creature |-> c]
             p == [kind |-> "ping",    creature |-> c]
  <2>1. /\ rx' = rx \o <<m, p>> /\ offered' = offered \cup {c}
        /\ c \in held /\ c \notin offered /\ UNCHANGED <<tx, held, confirmed>>
    BY <1>4 DEF ServerOffers
  <2>2. /\ Len(rx) \in Nat /\ DOMAIN rx = 1 .. Len(rx)
        /\ DOMAIN rx' = 1 .. (Len(rx) + 2)
        /\ rx'[Len(rx) + 1] = m /\ rx'[Len(rx) + 2] = p
        /\ \A i \in 1 .. Len(rx) : rx'[i] = rx[i]
    BY <1>t, <2>1
  <2>3. \A i \in DOMAIN rx' : \/ i \in DOMAIN rx /\ rx'[i] = rx[i]
                              \/ i = Len(rx) + 1 /\ rx'[i] = m
                              \/ i = Len(rx) + 2 /\ rx'[i] = p
    BY <2>2
  <2>4. /\ m.creature = c /\ m.kind = "message" /\ p.creature = c /\ p.kind = "ping"
    OBVIOUS
  <2> HIDE DEF m, p
  <2>5. \A i \in DOMAIN rx : rx[i].creature # c
    BY <1>o, <2>1
  <2>6. ASSUME NEW i \in DOMAIN rx', NEW j \in DOMAIN rx',
               rx'[i].kind = "ping", rx'[j].kind = "message",
               rx'[i].creature = rx'[j].creature
        PROVE  j < i
    <3>1. CASE rx'[i].creature = c
      <4>1. i = Len(rx) + 2 /\ j = Len(rx) + 1
        BY <2>3, <2>4, <2>5, <2>6, <3>1
      <4> QED  BY <2>2, <4>1
    <3>2. CASE rx'[i].creature # c
      <4>1. /\ i \in DOMAIN rx /\ rx'[i] = rx[i]
            /\ j \in DOMAIN rx /\ rx'[j] = rx[j]
        BY <2>3, <2>4, <2>6, <3>2
      <4> QED  BY <1>o, <2>6, <4>1
    <3> QED  BY <3>1, <3>2
  <2>7. AnsweredInOrder'
    <3>1. /\ c \notin confirmed
          /\ \A j \in DOMAIN tx : tx[j].kind = "accept" => tx[j].creature # c
      BY <1>o, <2>1
    <3> QED  BY <1>a, <1>r, <2>1, <2>3, <2>4, <3>1
  <2> QED  BY <1>o, <2>1, <2>3, <2>4, <2>6, <2>7 DEF Offering
<1>5. CASE ServerGets
  <2>1. /\ tx # <<>> /\ tx' = Tail(tx) /\ UNCHANGED <<rx, offered>>
        /\ \/ UNCHANGED <<held, confirmed>>
           \/ /\ Head(tx).kind = "accept"
              /\ held' = held \ {Head(tx).creature}
              /\ confirmed' = confirmed \cup {Head(tx).creature}
    BY <1>5 DEF ServerGets, historyVars
  <2>2. \A i \in DOMAIN tx' : i \in Nat /\ i + 1 \in DOMAIN tx /\ tx'[i] = tx[i + 1]
    BY <1>t, <2>1, TailFact
  <2>3. 1 \in DOMAIN tx /\ tx[1] = Head(tx)
    BY <1>t, <2>1
  <2>4. /\ Head(tx).kind = "accept" => Head(tx).creature \in Incoming
    <3>1. Head(tx) \in Outward
      BY <1>t, <2>1, HeadTailProperties
    <3> QED  BY <3>1 DEF Outward, Packets
  <2>5. held' \cap confirmed' = {} /\ held' \cup confirmed' = Incoming
    BY <1>o, <2>1, <2>4
  <2>6. AnsweredInOrder'
    BY <1>a, <1>r, <2>1, <2>2, <2>3
  <2> QED  BY <1>o, <2>1, <2>2, <2>5, <2>6 DEF Offering
<1>6. CASE PostFails \/ ConnectionBreaks \/ Crash
  <2>1. rx' = <<>> /\ tx' = <<>> /\ UNCHANGED <<held, confirmed>>
    BY <1>6 DEF PostFails, ConnectionBreaks, Crash, Drops
  <2>2. AnsweredInOrder'
    BY <1>r, <2>1
  <2> QED  BY <1>o, <2>1, <2>2 DEF Offering
<1> QED  BY <1>1, <1>2, <1>3, <1>4, <1>5, <1>6 DEF OfferSteps

\* No creature that was answered for is still to be spooled, or being spooled
\* (ProcessInput handles packets in their order).
THEOREM AnswersAreInOrder == FilesSpec => []AnsweredInOrder
<1>1. Offering => AnsweredInOrder
  BY DEF Offering
<1> QED  BY FilesInvHolds, OfferingInit, OfferingStep, <1>1, PTL DEF FilesSpec

\* How often a creature was spooled, or is still to be in this session.
Comings(c) == spooled[c] + Posts(rx, c)

\* Once for each connection that was cut off, and once for the offer of this
\* session or the one that was confirmed.
Allowed(c) == cutOff[c] + (IF c \in offered \cup confirmed THEN 1 ELSE 0)

Receiving == \A c \in Incoming : Comings(c) <= Allowed(c)

LEMMA ReceivingInit == FilesInit => Receiving
<1> SUFFICES ASSUME FilesInit PROVE Receiving
  OBVIOUS
<1>1. rx = <<>> /\ \A c \in Incoming : spooled[c] = 0 /\ cutOff[c] = 0
  BY DEF FilesInit
<1> QED  BY <1>1, PostsNone DEF Receiving, Comings, Allowed

LEMMA ReceivingStep ==
    FilesInv /\ Offering /\ Receiving /\ [FilesNext]_filesVars => Receiving'
<1> SUFFICES ASSUME FilesInv, Offering, Receiving, OfferSteps,
                    NEW x \in Incoming
             PROVE  Comings(x)' <= Allowed(x)'
  <2>1. UNCHANGED offerVars /\ Receiving => Receiving'
    BY DEF offerVars, Receiving, Comings, Allowed
  <2> QED  BY <2>1, OfferFact DEF Receiving
<1>t. /\ rx \in Seq(Inward)
      /\ spooled \in [Incoming -> Nat] /\ cutOff \in [Incoming -> Nat]
      /\ Posts(rx, x) \in Nat
  BY PostsFact DEF FilesInv, FilesTypeOK
<1>n. spooled[x] \in Nat /\ cutOff[x] \in Nat
  BY <1>t
<1>o. /\ held \cup confirmed = Incoming
      /\ Comings(x) <= Allowed(x)
  BY DEF Offering, Receiving
<1>1. ASSUME NEW s \in Serials, PostOutboxFile(s)
      PROVE  UNCHANGED <<rx, offered, confirmed, spooled, cutOff>>
  BY <1>1 DEF PostOutboxFile, serverVars, historyVars
<1>2. CASE RenameTemp \/ SpoolFails \/ DropWithoutInbox
  <2>1. /\ rx # <<>> /\ rx' = Tail(rx) /\ Head(rx).kind = "message"
        /\ UNCHANGED <<offered, confirmed, cutOff>>
        /\ spooled' = spooled \/ spooled' = Spooled(Head(rx).creature)
    BY <1>2 DEF RenameTemp, SpoolFails, DropWithoutInbox, FilesInv, Writing,
       Spooling, serverVars, historyVars
  <2>2. Posts(rx, x) = Posts(rx', x) + (IF IsPost(Head(rx), x) THEN 1 ELSE 0)
    BY <1>t, <2>1, PostsTail
  <2>3. IsPost(Head(rx), x) <=> Head(rx).creature = x
    BY <2>1 DEF IsPost
  <2>4. \/ spooled'[x] = spooled[x]
        \/ Head(rx).creature = x /\ spooled'[x] = spooled[x] + 1
    BY <1>t, <2>1 DEF Spooled
  <2>5. Posts(rx', x) \in Nat
    <3>1. rx' \in Seq(Inward)
      BY <1>t, <2>1, HeadTailProperties
    <3> QED  BY <3>1, PostsFact
  <2> QED  BY <1>t, <1>n, <1>o, <2>1, <2>2, <2>3, <2>4, <2>5 DEF Comings, Allowed
<1>3. CASE HandlePing
  <2>1. /\ rx # <<>> /\ rx' = Tail(rx) /\ Head(rx).kind = "ping"
        /\ UNCHANGED <<offered, confirmed, cutOff, spooled>>
    BY <1>3 DEF HandlePing, serverVars, historyVars
  <2>2. Posts(rx, x) = Posts(rx', x) + (IF IsPost(Head(rx), x) THEN 1 ELSE 0)
    BY <1>t, <2>1, PostsTail
  <2>3. ~IsPost(Head(rx), x)
    BY <2>1 DEF IsPost
  <2>4. Posts(rx', x) = Posts(rx, x)
    <3>1. rx' \in Seq(Inward)
      BY <1>t, <2>1, HeadTailProperties
    <3> QED  BY <1>t, <2>2, <2>3, <3>1, PostsFact
  <2> QED  BY <1>o, <2>1, <2>4 DEF Comings, Allowed
<1>4. ASSUME NEW c \in Incoming, ServerOffers(c)
      PROVE  Comings(x)' <= Allowed(x)'
  <2> DEFINE m == [kind |-> "message", creature |-> c]
             p == [kind |-> "ping",    creature |-> c]
  <2>1. /\ rx' = rx \o <<m, p>> /\ offered' = offered \cup {c} /\ c \notin offered
        /\ c \in held /\ UNCHANGED <<confirmed, spooled, cutOff>>
    BY <1>4 DEF ServerOffers, historyVars
  <2>2. m \in Inward /\ p \in Inward
    BY DEF Inward, Packets
  <2>3. rx' = Append(Append(rx, m), p) /\ Append(rx, m) \in Seq(Inward)
    BY <1>t, <2>1, <2>2
  <2>4. /\ (IsPost(m, x) <=> x = c) /\ ~IsPost(p, x)
    BY DEF IsPost
  <2> HIDE DEF m, p
  <2>5. Posts(rx', x) = Posts(rx, x) + (IF x = c THEN 1 ELSE 0)
    <3>1. Posts(Append(rx, m), x) = Posts(rx, x) + (IF IsPost(m, x) THEN 1 ELSE 0)
      BY <1>t, <2>2, PostsAppend
    <3>2. Posts(rx', x) = Posts(Append(rx, m), x) + (IF IsPost(p, x) THEN 1 ELSE 0)
      BY <2>2, <2>3, PostsAppend
    <3> QED  BY <1>t, <2>4, <3>1, <3>2
  <2>6. c \notin confirmed
    BY <2>1 DEF Offering
  <2>7. Comings(x)' = Comings(x) + (IF x = c THEN 1 ELSE 0)
    BY <1>t, <1>n, <2>1, <2>5 DEF Comings, Allowed
  <2>8. Comings(x) \in Nat
    BY <1>t, <1>n DEF Comings, Allowed
  <2>9. /\ UNCHANGED <<cutOff, confirmed>> /\ offered' = offered \cup {c}
        /\ c \notin offered
    BY <2>1
  <2> QED  BY <1>n, <1>o, <2>6, <2>7, <2>8, <2>9 DEF Allowed
<1>5. CASE ServerGets
  <2>1. UNCHANGED <<rx, offered, spooled, cutOff>> /\ confirmed \subseteq confirmed'
    BY <1>5 DEF ServerGets, historyVars
  <2> QED  BY <1>t, <1>n, <1>o, <2>1 DEF Comings, Allowed
<1>6. CASE PostFails \/ ConnectionBreaks \/ Crash
  <2>1. /\ rx' = <<>> /\ UNCHANGED <<confirmed, spooled>> /\ offered' = {}
        /\ cutOff'[x] = cutOff[x] + (IF x \in offered \ confirmed THEN 1 ELSE 0)
    BY <1>6 DEF PostFails, ConnectionBreaks, Crash, Drops
  <2>2. Posts(rx', x) = 0
    BY <2>1, PostsNone
  <2> QED  BY <1>t, <1>n, <1>o, <2>1, <2>2 DEF Comings, Allowed
<1> QED  BY <1>o, <1>1, <1>2, <1>3, <1>4, <1>5, <1>6 DEF OfferSteps, Comings, Allowed

\* The game gets a creature twice only for a connection, or a process, that
\* ended before the server saw it confirmed (SpoolPrayFile, HandlePacket).
THEOREM CreaturesAreSpooledOnce == FilesSpec => []SpooledAgainOnlyIfCutOff
<1>1. FilesInv /\ Receiving => SpooledAgainOnlyIfCutOff
  <2> SUFFICES ASSUME FilesInv, Receiving, NEW c \in Incoming
               PROVE  spooled[c] <= 1 + cutOff[c]
    BY DEF SpooledAgainOnlyIfCutOff
  <2>1. spooled[c] \in Nat /\ cutOff[c] \in Nat /\ Posts(rx, c) \in Nat
    BY PostsFact DEF FilesInv, FilesTypeOK
  <2> QED  BY <2>1 DEF Receiving, Comings, Allowed
<1> QED  BY FilesInvHolds, OfferingInit, OfferingStep, ReceivingInit, ReceivingStep,
            <1>1, PTL DEF FilesSpec
=============================================================================
