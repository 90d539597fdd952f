------------------------------ MODULE WarpSpool -----------------------------
(***************************************************************************)
(* The outbox and the inbox directories, as DSNetManager sees them.  The   *)
(* game puts a file into the outbox and takes files out of the inbox; the  *)
(* manager scans the outbox, sends each file as a message and removes it.  *)
(* A file in the inbox is named after its sender and a fresh serial, so    *)
(* the inbox is a count of files per sender.                               *)
(***************************************************************************)
EXTENDS NatsueProtocol

CONSTANTS FileTarget,  \* the user a file's name is addressed to, or Nobody
          InboxSet,    \* SetInboxDirectory was called
          OutboxSet,   \* SetOutboxDirectory was called
          MaxInbox     \* bound: files in the inbox

ASSUME SpoolAssumption ==
    /\ FileTarget \in [Files -> Users \cup {Nobody}]
    /\ InboxSet \in BOOLEAN
    /\ OutboxSet \in BOOLEAN
    /\ MaxInbox \in Nat

VARIABLES outbox,       \* the files ListFilesWithExtension would list
          outboxDirty,  \* myOutboxDirty
          scanDue,      \* myNextOutboxScan has passed
          scanList,     \* names the running ScanOutbox has not come to yet
          inbox         \* sender -> number of files spooled

spoolVars == <<outbox, outboxDirty, scanDue, scanList, inbox>>

SpoolTypeOK ==
    /\ outbox \subseteq Files
    /\ outboxDirty \in BOOLEAN
    /\ scanDue \in BOOLEAN
    /\ scanList \subseteq Files
    /\ inbox \in [Users -> Nat]

\* Construct leaves the flag set and the next scan at time zero.
SpoolInit ==
    /\ outbox = {}
    /\ outboxDirty = TRUE
    /\ scanDue = TRUE
    /\ scanList = {}
    /\ inbox = [u \in Users |-> 0]

\* SpoolPrayFile: without an inbox, or if it cannot be written, the message
\* is dropped.
SpoolPrayFile(sender) ==
    /\ \/ InboxSet /\ inbox' = [inbox EXCEPT ![sender] = @ + 1]
       \/ UNCHANGED inbox
    /\ UNCHANGED <<outbox, outboxDirty, scanDue, scanList>>

\* ReturnUniqueOutboxFilename and the game writing the file it names.
GamePutsFile(f) ==
    /\ OutboxSet
    /\ f \notin outbox
    /\ outbox' = outbox \cup {f}
    /\ outboxDirty' = TRUE
    /\ UNCHANGED <<scanDue, scanList, inbox>>

GameTakesFile(u) ==
    /\ inbox[u] > 0
    /\ inbox' = [inbox EXCEPT ![u] = @ - 1]
    /\ UNCHANGED <<outbox, outboxDirty, scanDue, scanList>>

\* The rescan timer runs out.
ScanFallsDue ==
    /\ ~scanDue
    /\ scanDue' = TRUE
    /\ UNCHANGED <<outbox, outboxDirty, scanList, inbox>>
=============================================================================
