----------------------------- MODULE ServerList -----------------------------
(***************************************************************************)
(* Which server DSNetManager connects to: the list of the game, the list a *)
(* login brings, the rotation through it, and the host that overrides it.  *)
(* Of a session it keeps only how it begins and ends.                      *)
(***************************************************************************)
EXTENDS Naturals, Sequences, SequencesExt

CONSTANTS Hosts,        \* servers a list may name
          DefaultHost,  \* DEFAULT_HOST
          MaxListed,    \* bound: length of a list
          MaxLists      \* bound: changes of the list and of the override

ASSUME ServerListAssumption == MaxListed \in Nat /\ MaxLists \in Nat

NoHost == "none"

VARIABLES servers,        \* myServers
          rotation,       \* myServerRotation modulo the length of the list
          override,       \* ourOverrideHost, or NoHost
          attempt,        \* whether there is no session, one could not
                        \* begin, begins, or is up
          connectedHost,  \* myConnectedHost
          listed          \* changes of the list and the override so far

serverListVars == <<servers, rotation, override, attempt, connectedHost, listed>>

Lists == BoundedSeq(Hosts, MaxListed)

ServerListTypeOK ==
    /\ servers \in Seq(Hosts) /\ rotation \in Nat
    /\ servers # <<>> => rotation < Len(servers)
    /\ override \in Hosts \cup {NoHost}
    /\ connectedHost \in Hosts \cup {NoHost, DefaultHost}
    /\ attempt \in {"none", "failed", "begun", "online"} /\ listed \in Nat

ServerListInit ==
    /\ servers = <<>> /\ rotation = 0
    /\ override = NoHost /\ connectedHost = NoHost
    /\ attempt = "none" /\ listed = 0

Changes == listed < MaxLists /\ listed' = listed + 1

SetServerList(list) ==
    /\ Changes
    /\ servers' = list /\ rotation' = 0
    /\ UNCHANGED <<override, attempt, connectedHost>>

OverrideHost(host) ==
    /\ Changes
    /\ override' = host
    /\ UNCHANGED <<servers, rotation, attempt, connectedHost>>

\* Mutant of NextRotation: only a server that could be reached is left behind.
StickyRotation(reached) ==
    IF reached THEN (rotation + 1) % Len(servers) ELSE rotation

\* The counter moves on whether the server can be reached or not.
NextRotation(reached) == (rotation + 1) % Len(servers)

\* StartConnecting; reached is what BeginConnect returned.
StartConnecting(reached) ==
    /\ attempt = "none"
    /\ IF override # NoHost
       THEN connectedHost' = override /\ UNCHANGED rotation
       ELSE IF servers # <<>>
       THEN /\ connectedHost' = servers[rotation + 1]
            /\ rotation' = NextRotation(reached)
       ELSE connectedHost' = DefaultHost /\ UNCHANGED rotation
    /\ attempt' = IF reached THEN "begun" ELSE "failed"
    /\ UNCHANGED <<servers, override, listed>>

\* Refused, not reached at once or in time, or hung up on later: the game is
\* told, and may connect again.
SessionEnds ==
    /\ attempt # "none"
    /\ attempt' = "none"
    /\ UNCHANGED <<servers, rotation, override, connectedHost, listed>>

\* An accepted login without a server list, or with one that is not read.
LoggedIn ==
    /\ attempt = "begun"
    /\ attempt' = "online"
    /\ UNCHANGED <<servers, rotation, override, connectedHost, listed>>

\* Mutants of ReceiveList: the old list goes before the new one is read; the
\* rotation goes on from where the old list was.
ReceiveListBlindly(list) == servers' = list /\ rotation' = 0

ReceiveListKeepsRotation(list) ==
    servers' = (IF list = <<>> THEN servers ELSE list) /\ UNCHANGED rotation

\* What could be read replaces the old list if it is anything.
ReceiveList(list) ==
    IF list = <<>> THEN UNCHANGED <<servers, rotation>>
    ELSE servers' = list /\ rotation' = 0

\* An accepted login whose response announces count servers and is cut short
\* after the first whole of the ones in sent.
LoggedInWithList(count, sent, whole) ==
    /\ attempt = "begun"
    /\ whole <= Len(sent)
    /\ Changes
    /\ attempt' = "online"
    /\ ReceiveList(SubSeq(sent, 1, IF count < whole THEN count ELSE whole))
    /\ UNCHANGED <<override, connectedHost>>

ServerListNext ==
    \/ \E list \in Lists : SetServerList(list)
    \/ \E host \in Hosts \cup {NoHost} : OverrideHost(host)
    \/ \E reached \in BOOLEAN : StartConnecting(reached)
    \/ SessionEnds \/ LoggedIn
    \/ \E count, whole \in 0 .. MaxListed, sent \in Lists :
          LoggedInWithList(count, sent, whole)

\* The game tries again for ever, and an attempt that gets nowhere ends: its
\* deadline passes (PumpConnectPhase).
ServerListFairness ==
    /\ WF_serverListVars(\E reached \in BOOLEAN : StartConnecting(reached))
    /\ WF_serverListVars(attempt \in {"failed", "begun"} /\ SessionEnds)

ServerListSpec ==
    ServerListInit /\ [][ServerListNext]_serverListVars /\ ServerListFairness

-----------------------------------------------------------------------------
\* Nothing but the game and an accepted login changes the list.  A login leaves
\* at least one server in it, even if its own list is empty or cut short, and the
\* rotation starts over: it never counts on in a list that has gone
\* (HandleHandshakeResponse, SetServerList).
ServersKept ==
    [][servers' # servers =>
         \/ \E list \in Lists : SetServerList(list)
         \/ /\ attempt = "begun" /\ attempt' = "online"
            /\ servers' # <<>> /\ rotation' = 0]_serverListVars

\* No server of the list is left out for ever unless a login succeeds, the
\* override is set or the list changes: one that cannot be reached does not
\* keep the client from the others (StartConnecting).
EveryServerTried ==
    \A h \in Hosts :
      h \in Range(servers) ~>
        connectedHost = h \/ h \notin Range(servers) \/ override # NoHost
          \/ attempt = "online"
=============================================================================
