-------------------------- MODULE PresenceRegister --------------------------
(***************************************************************************)
(* The presence half of DSNetManager: who is known to be online, whom the  *)
(* game watches (the whose wanted register), the queue of changes the game *)
(* has not been told of, and the AddToWWR calls still waiting for the      *)
(* server's first word about their user.  Nicknames are left out.          *)
(***************************************************************************)
EXTENDS TransactionTable

VARIABLES presence,      \* user -> online, on the users ever heard of
          wwrMembers,    \* users the game is watching
          changedUsers,  \* changes for NextChangedUserWWR, oldest first
          pendingAdds    \* user -> deadline passed, for AddToWWR in progress

presenceVars == <<presence, wwrMembers, changedUsers, pendingAdds>>

PresenceTypeOK ==
    /\ presence \in [DOMAIN presence -> BOOLEAN]
    /\ DOMAIN presence \subseteq Users
    /\ wwrMembers \subseteq Users
    /\ changedUsers \in Seq(Users)
    /\ pendingAdds \in [DOMAIN pendingAdds -> BOOLEAN]
    /\ DOMAIN pendingAdds \subseteq Users

PresenceInit ==
    /\ presence = [u \in {} |-> FALSE]
    /\ wwrMembers = {}
    /\ changedUsers = <<>>
    /\ pendingAdds = [u \in {} |-> FALSE]

\* A user never heard of reads as offline: myPresence[key] makes the entry.
ReadsOnline(u) == u \in DOMAIN presence /\ presence[u]

\* Mutants of IsNews: going offline is no news; queued news is news again.
IsNewsOnline(u, online) ==
    /\ u \notin DOMAIN pendingAdds
    /\ online /\ ~ReadsOnline(u)
    /\ u \in wwrMembers
    /\ u \notin Range(changedUsers)
IsNewsAgain(u, online) ==
    /\ u \notin DOMAIN pendingAdds
    /\ ReadsOnline(u) # online
    /\ u \in wwrMembers

\* NextChangedUserWWR is to report what the server just said of the user: not
\* if a waiting AddToWWR will, nor if it is in the queue already.
IsNews(u, online) ==
    /\ u \notin DOMAIN pendingAdds
    /\ ReadsOnline(u) # online
    /\ u \in wwrMembers
    /\ u \notin Range(changedUsers)

\* Mutant of EndPendingAdd: the entry stays.
KeepPendingAdd(u) == pendingAdds' = pendingAdds

EndPendingAdd(u) == pendingAdds' = Erase(pendingAdds, u)

UpdatePresence(u, online) ==
    /\ presence' = Insert(presence, u, online)
    /\ EndPendingAdd(u)
    /\ changedUsers' = IF IsNews(u, online) THEN Append(changedUsers, u)
                                           ELSE changedUsers
    /\ UNCHANGED wwrMembers

MarkEveryoneOffline ==
    /\ presence' = [u \in DOMAIN presence |-> FALSE]
    /\ changedUsers' = <<>>
    /\ pendingAdds' = [u \in {} |-> FALSE]
    /\ UNCHANGED wwrMembers
=============================================================================
