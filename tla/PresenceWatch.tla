---------------------------- MODULE PresenceWatch ---------------------------
(***************************************************************************)
(* DSNetManager together with the game that watches users: what the game   *)
(* was last told of each user, by NextChangedUserWWR or when its AddToWWR  *)
(* stopped blocking.  The game sees for itself that the connection is down *)
(* and takes everybody for offline.                                        *)
(***************************************************************************)
EXTENDS DSNetManagerProperties

VARIABLES told,     \* user -> online, as the game was last told
          blocked,  \* users whose AddToWWR still says block
          revived   \* the session began without ConnectionLost or Disconnect
                    \* ending the one before

watchVars == <<told, blocked, revived>>

WatchInit ==
    /\ told = [u \in Users |-> FALSE]
    /\ blocked = {}
    /\ revived = FALSE

\* A call has just returned to the game.
Returned(op) == pc' = "engine" /\ result'.op = op

\* What the game learns from a step of the manager.
GameHears ==
    /\ told' =
         CASE ~Online' -> [u \in Users |-> FALSE]
           [] Online' /\ Returned("NextChangedUserWWR") /\ result'.about # Nobody ->
                [told EXCEPT ![result'.about] = result'.ok]
           [] Online' /\ Returned("AddToWWR") /\ ~result'.block ->
                [told EXCEPT ![result'.arg] = (ReadsOnline(result.arg))']
           [] OTHER -> told
    /\ blocked' =
         IF Returned("AddToWWR") /\ result'.block
         THEN blocked \cup {result'.arg}
         ELSE IF Returned("AddToWWR") \/ Returned("RemoveFromWWR")
         THEN blocked \ {result'.arg}
         ELSE blocked
    /\ revived' = IF phase = "ONLINE" /\ phase' \in {"CONNECTING", "FAILED"}
                  THEN TRUE
                  ELSE IF phase' = "IDLE" THEN FALSE ELSE revived

WatchNext ==
    \/ (GameCalls \/ ManagerSteps) /\ GameHears
    \/ (GameUsesSpool \/ TimePasses \/ Environment) /\ UNCHANGED watchVars

WatchSpec == Init /\ WatchInit /\ [][WatchNext]_<<vars, watchVars>>

\* No change of a watched user is lost: whenever what the game was told is
\* not what the manager knows, the user is queued for NextChangedUserWWR, or
\* the game still waits in AddToWWR and will be told by that (UpdatePresence,
\* whose early return leaves the change to a pending NET: WHON).
NoLostChange ==
    Online /\ ~revived =>
      \A u \in wwrMembers \ blocked :
        ReadsOnline(u) # told[u] => u \in Range(changedUsers)
=============================================================================
