---------------------- MODULE DSNetManagerPresenceProofs ---------------------
(***************************************************************************)
(* The presence invariants of DSNetManager: whoever AddToWWR waits for has *)
(* not been heard of, nobody is twice in the queue of changes, and, of a   *)
(* game that watches, no change of a watched user is lost.  Few steps      *)
(* touch the presence state at all; PresenceSteps names them once.  The    *)
(* last invariant needs two more, proved here: that nothing is heard of    *)
(* the server before it accepted the login, and what the game was told     *)
(* while no session is held.                                               *)
(***************************************************************************)
EXTENDS PresenceWatch, DSNetManagerTicketProofs

\* A step of the manager, or of the world, that presence can see.
LEMMA PresenceSteps ==
    ASSUME [Next]_vars
    PROVE  \/ UNCHANGED presenceVars
           \/ MarkEveryoneOffline
           \/ \E p : ProcessPresence(p)
           \/ \E u \in Users :
                AddToWWR(u) \/ RemoveFromWWR(u) \/ AddDeadlinePasses(u)
           \/ ReturnAddToWWR \/ NextChangedUserWWR \/ RegisterNextUser
<1>1. CASE GameCalls
  <2>1. ASSUME NEW op, NEW users, ConnectInBackground(op, users)
        PROVE  UNCHANGED presenceVars
    BY <2>1 DEF ConnectInBackground
  <2>2. CASE Disconnect
    BY <2>2 DEF Disconnect
  <2>3. ASSUME NEW u, IsUserOnline(u) PROVE UNCHANGED presenceVars
    BY <2>3 DEF IsUserOnline
  <2>4. ASSUME NEW op, NEW s, NEW arg, Query(op, s, arg)
        PROVE  UNCHANGED presenceVars
    BY <2>4 DEF Query
  <2>5. CASE (\E u \in Users : FetchUserData(u)) \/ DSFetchRandomUser \/ GetStatus
    BY <2>4, <2>5 DEF FetchUserData, DSFetchRandomUser, GetStatus
  <2>6. ASSUME NEW u, PostDirectMessage(u)
        PROVE  UNCHANGED presenceVars \/ MarkEveryoneOffline
    BY <2>6 DEF PostDirectMessage, ConnectionLost
  <2>7. CASE DSFeedHistory
    BY <2>7 DEF DSFeedHistory, FeedHistory, ConnectionLost
  <2>8. CASE QueueMessage \/ GetMessages \/ SendOrdinaryMessages
    BY <2>8 DEF QueueMessage, GetMessages, SendOrdinaryMessages
  <2> QED  BY <1>1, <2>1, <2>2, <2>3, <2>5, <2>6, <2>7, <2>8 DEF GameCalls
<1>2. CASE ManagerSteps
  <2>1. CASE PumpConnect \/ PumpSocket \/ PumpNothing
    BY <2>1 DEF PumpConnect, PumpSocket, PumpNothing
  <2>2. CASE PumpEnd
    BY <2>2 DEF PumpEnd, ConnectionLost
  <2>3. CASE ProcessInput
    BY <2>3 DEF ProcessInput, ProcessEnd, ProcessTransactionResponse,
       ProcessHandshakeResponse, ProcessMessage, ProcessVirtualConnect,
       ProcessIgnored, ProcessUnknown, ConnectionLost
  <2>4. CASE RegistrationEnds \/ ReturnConnect \/ ReturnWait \/ ReturnQuery
    BY <2>4 DEF RegistrationEnds, ReturnConnect, ReturnWait, ReturnQuery
  <2>5. CASE ReturnGetMessages \/ ScanOutbox \/ ScanEnds
    BY <2>5 DEF ReturnGetMessages, ScanOutbox, ScanEnds
  <2>6. CASE ProcessQueuedMessages
    BY <2>6 DEF ProcessQueuedMessages, FeedHistory, ConnectionLost
  <2>7. ASSUME NEW f, SendOutboxFile(f)
        PROVE  UNCHANGED presenceVars \/ MarkEveryoneOffline
    BY <2>7 DEF SendOutboxFile, ConnectionLost
  <2> QED  BY <1>2, <2>1, <2>2, <2>3, <2>4, <2>5, <2>6, <2>7 DEF ManagerSteps
<1>3. CASE GameUsesSpool
  BY <1>3 DEF GameUsesSpool, managerVars
<1>4. CASE TimePasses
  BY <1>4 DEF TimePasses, ConnectDeadlinePasses, WaitDeadlinePasses,
     QueryDeadlinePasses, managerVars
<1>5. CASE Environment
  BY <1>5 DEF Environment, ServerReads, ServerHangsUp, NetworkFails,
     ServerAnswersHandshake, ServerAnswers, ServerVolunteers, Remote, managerVars
<1>6. CASE UNCHANGED vars
  BY <1>6 DEF vars
<1> QED  BY <1>1, <1>2, <1>3, <1>4, <1>5, <1>6 DEF Next

-----------------------------------------------------------------------------
(* Who is waited for has not been heard of.                                *)

\* The domains of a table after an insertion and an erasure.
LEMMA DomainFact ==
    ASSUME NEW f, NEW u, NEW v
    PROVE  /\ DOMAIN Insert(f, u, v) = DOMAIN f \cup {u}
           /\ DOMAIN Erase(f, u) = DOMAIN f \ {u}
BY DEF Insert, Erase, Restrict

\* The set arithmetic of the three users of the register: waited for, watched
\* and heard of.
LEMMA StillUnheard ==
    ASSUME NEW P, NEW W, NEW Q, P \subseteq W \ Q, NEW u
    PROVE  /\ P \subseteq (W \cup {u}) \ Q
           /\ P \ {u} \subseteq W \ Q
           /\ P \ {u} \subseteq W \ (Q \cup {u})
           /\ P \ {u} \subseteq (W \ {u}) \ (Q \ {u})
           /\ u \notin Q => P \cup {u} \subseteq (W \cup {u}) \ Q
OBVIOUS

\* No step lets a wait outlive the first word of its user.
LEMMA StepUnheard ==
    ASSUME PendingAddsUnheard, [Next]_vars PROVE PendingAddsUnheard'
<1> DEFINE P == DOMAIN pendingAdds
           Q == DOMAIN presence
<1>a. P \subseteq wwrMembers \ Q
  BY DEF PendingAddsUnheard
<1>1. CASE UNCHANGED presenceVars
  BY <1>1 DEF presenceVars, PendingAddsUnheard
<1>2. CASE MarkEveryoneOffline
  BY <1>2 DEF MarkEveryoneOffline, PendingAddsUnheard
<1>3. ASSUME NEW p, ProcessPresence(p) PROVE PendingAddsUnheard'
  <2>1. /\ presence' = Insert(presence, p.about,
                              \/ p.type = "USER_ONLINE"
                              \/ p.type = "ONLINE_CHANGE" /\ p.flag)
        /\ pendingAdds' = Erase(pendingAdds, p.about)
        /\ wwrMembers' = wwrMembers
    BY <1>3 DEF ProcessPresence, UpdatePresence, EndPendingAdd
  <2>2. /\ DOMAIN presence' = Q \cup {p.about}
        /\ DOMAIN pendingAdds' = P \ {p.about}
    BY <2>1, DomainFact
  <2>3. P \ {p.about} \subseteq wwrMembers \ (Q \cup {p.about})
    BY <1>a, StillUnheard
  <2> QED  BY <2>1, <2>2, <2>3 DEF PendingAddsUnheard
<1>4. ASSUME NEW u \in Users, AddToWWR(u) PROVE PendingAddsUnheard'
  <2>1. /\ presence' = presence
        /\ u \notin Malformed => wwrMembers' = wwrMembers \cup {u}
        /\ u \in Malformed => wwrMembers' = wwrMembers
    BY <1>4 DEF AddToWWR
  <2>2. \/ pendingAdds' = pendingAdds
        \/ /\ pendingAdds' = Insert(pendingAdds, u, FALSE)
           /\ u \notin Q /\ u \notin Malformed
    BY <1>4 DEF AddToWWR
  <2>3. CASE pendingAdds' = pendingAdds
    <3>1. P \subseteq (wwrMembers \cup {u}) \ Q
      BY <1>a, StillUnheard
    <3> QED  BY <1>a, <2>1, <2>3, <3>1 DEF PendingAddsUnheard
  <2>4. CASE /\ pendingAdds' = Insert(pendingAdds, u, FALSE)
             /\ u \notin Q /\ u \notin Malformed
    <3>1. DOMAIN pendingAdds' = P \cup {u}
      BY <2>4, DomainFact
    <3>2. P \cup {u} \subseteq (wwrMembers \cup {u}) \ Q
      BY <1>a, <2>4, StillUnheard
    <3> QED  BY <2>1, <2>4, <3>1, <3>2 DEF PendingAddsUnheard
  <2> QED  BY <2>2, <2>3, <2>4
<1>5. ASSUME NEW u \in Users, RemoveFromWWR(u) PROVE PendingAddsUnheard'
  <2>1. /\ presence' = Erase(presence, u)
        /\ pendingAdds' = Erase(pendingAdds, u)
        /\ wwrMembers' = wwrMembers \ {u}
    BY <1>5 DEF RemoveFromWWR, EndPendingAdd
  <2>2. DOMAIN presence' = Q \ {u} /\ DOMAIN pendingAdds' = P \ {u}
    BY <2>1, DomainFact
  <2>3. P \ {u} \subseteq (wwrMembers \ {u}) \ (Q \ {u})
    BY <1>a, StillUnheard
  <2> QED  BY <2>1, <2>2, <2>3 DEF PendingAddsUnheard
<1>6. ASSUME NEW u \in Users, AddDeadlinePasses(u) PROVE PendingAddsUnheard'
  BY <1>6 DEF AddDeadlinePasses, PendingAddsUnheard
<1>7. CASE ReturnAddToWWR
  <2>1. presence' = presence /\ wwrMembers' = wwrMembers
    BY <1>7 DEF ReturnAddToWWR
  <2>2. \/ pendingAdds' = pendingAdds
        \/ pendingAdds' = Erase(pendingAdds, call.arg)
    BY <1>7 DEF ReturnAddToWWR, EndPendingAdd
  <2>3. DOMAIN pendingAdds' \in {P, P \ {call.arg}}
    BY <2>2, DomainFact
  <2>4. P \ {call.arg} \subseteq wwrMembers \ Q
    BY <1>a, StillUnheard
  <2> QED  BY <1>a, <2>1, <2>3, <2>4 DEF PendingAddsUnheard
<1>8. CASE NextChangedUserWWR
  BY <1>8 DEF NextChangedUserWWR, PendingAddsUnheard
<1>9. CASE RegisterNextUser
  <2>1. UNCHANGED <<presence, pendingAdds>> /\ wwrMembers \subseteq wwrMembers'
    BY <1>9 DEF RegisterNextUser
  <2> QED  BY <2>1 DEF PendingAddsUnheard
<1> QED  BY <1>1, <1>2, <1>3, <1>4, <1>5, <1>6, <1>7, <1>8, <1>9, PresenceSteps

\* AddToWWR never waits for a user the manager already knows of, and forgets
\* a wait as soon as there is word of the user, when the user is no longer
\* watched and when the connection goes down: no wait can miss its end.
THEOREM WaitsAreUnheard == Spec => []PendingAddsUnheard
<1>1. Init => PendingAddsUnheard
  BY DEF Init, PresenceInit, PendingAddsUnheard
<1> QED  BY <1>1, StepUnheard, PTL DEF Spec

-----------------------------------------------------------------------------
(* The queue of changes has nobody twice.                                  *)

\* Appending somebody who is not in the queue.
LEMMA AppendOnce ==
    ASSUME NEW q \in Seq(Users), NEW u \in Users, IsInjective(q), u \notin Range(q)
    PROVE  IsInjective(Append(q, u))
<1> DEFINE r == Append(q, u)
<1>1. /\ DOMAIN q = 1 .. Len(q) /\ Len(q) \in Nat
      /\ DOMAIN r = 1 .. Len(q) + 1
      /\ \A i \in 1 .. Len(q) : r[i] = q[i]
      /\ r[Len(q) + 1] = u
  BY AppendProperties, LenProperties
<1>2. \A i \in 1 .. Len(q) : q[i] # u
  BY <1>1 DEF Range
<1> HIDE DEF r
<1>3. ASSUME NEW i \in DOMAIN r, NEW j \in DOMAIN r, r[i] = r[j] PROVE i = j
  BY <1>1, <1>2, <1>3 DEF IsInjective
<1>4. IsInjective(r)
  BY <1>3 DEF IsInjective
<1> QED  BY <1>4 DEF r

\* Taking the first out.
LEMMA TailOnce ==
    ASSUME NEW q \in Seq(Users), q # <<>>, IsInjective(q)
    PROVE  IsInjective(Tail(q))
<1> DEFINE r == Tail(q)
<1>1. /\ DOMAIN q = 1 .. Len(q) /\ Len(q) \in Nat
      /\ DOMAIN r = 1 .. Len(q) - 1
      /\ \A i \in 1 .. Len(q) - 1 : r[i] = q[i + 1]
  BY HeadTailProperties, LenProperties
<1> HIDE DEF r
<1>2. ASSUME NEW i \in DOMAIN r, NEW j \in DOMAIN r, r[i] = r[j] PROVE i = j
  <2>1. /\ i \in Int /\ j \in Int
        /\ i + 1 \in DOMAIN q /\ j + 1 \in DOMAIN q
        /\ q[i + 1] = q[j + 1]
    BY <1>1, <1>2
  <2>2. i + 1 = j + 1
    BY <2>1 DEF IsInjective
  <2> QED  BY <2>1, <2>2
<1>3. IsInjective(r)
  BY <1>2 DEF IsInjective
<1> QED  BY <1>3 DEF r

\* No step queues a user a second time.
LEMMA StepQueuedOnce ==
    ASSUME TypeOK, QueuedOnce, [Next]_vars PROVE QueuedOnce'
<1> changedUsers \in Seq(Users) /\ conn \in Connection
  BY DEF TypeOK, PresenceTypeOK, SessionTypeOK
<1>1. CASE changedUsers' = changedUsers
  BY <1>1 DEF QueuedOnce
<1>2. CASE MarkEveryoneOffline
  BY <1>2 DEF MarkEveryoneOffline, QueuedOnce, IsInjective
<1>3. ASSUME NEW p, ProcessPresence(p) PROVE QueuedOnce'
  <2>1. p.about \in Users
    BY <1>3, ProcessingFact DEF ProcessPresence, ServerPacket, SubjectPackets
  <2>2. \/ changedUsers' = changedUsers
        \/ /\ changedUsers' = Append(changedUsers, p.about)
           /\ p.about \notin Range(changedUsers)
    BY <1>3 DEF ProcessPresence, UpdatePresence, IsNews
  <2> QED  BY <2>1, <2>2, AppendOnce DEF QueuedOnce
<1>4. CASE NextChangedUserWWR
  BY <1>4, TailOnce DEF NextChangedUserWWR, QueuedOnce
<1>5. CASE \/ \E u \in Users :
                AddToWWR(u) \/ RemoveFromWWR(u) \/ AddDeadlinePasses(u)
           \/ ReturnAddToWWR \/ RegisterNextUser
  BY <1>1, <1>5 DEF AddToWWR, RemoveFromWWR, AddDeadlinePasses, ReturnAddToWWR,
     RegisterNextUser
<1>6. CASE UNCHANGED presenceVars
  BY <1>1, <1>6 DEF presenceVars
<1> QED  BY <1>2, <1>3, <1>4, <1>5, <1>6, PresenceSteps

\* However often a user goes on and off line before the game asks, the queue
\* of NextChangedUserWWR has them once.
THEOREM NobodyQueuedTwice == Spec => []QueuedOnce
<1>1. Init => QueuedOnce
  BY DEF Init, PresenceInit, QueuedOnce, IsInjective
<1> QED  BY <1>1, StepQueuedOnce, TypeCorrect, PTL DEF Spec

-----------------------------------------------------------------------------
(* What is heard of the server before and after it accepts a login.        *)

\* A packet with something to say that only a session has a use for.
Said(p) == p.type \in UnsolicitedPackets \ {"UNKNOWN"}

LoginPacket(p) == p.type \in {"HANDSHAKE", "HANDSHAKE_RESPONSE"}

\* What is under way on a connection that waits for its login: one handshake
\* or the reply to it, and nothing said before an acceptance.
Heard(c) ==
    /\ \A p, q \in Flying(c) : LoginPacket(p) /\ LoginPacket(q) => p.ticket = q.ticket
    /\ \A i \in DOMAIN Replies(c) :
         Said(Replies(c)[i]) => \E j \in 1 .. i : Accepts(Replies(c)[j])
    /\ c.login /\ c.peer = "open" => \E j \in DOMAIN Replies(c) : Accepts(Replies(c)[j])

\* Nothing is, and no login was accepted.
Unheard(c) == Flying(c) = {} /\ ~c.login

\* The replies are numbered from one.
LEMMA RepliesFact ==
    ASSUME NEW c \in Connection
    PROVE  /\ Len(Replies(c)) \in Nat /\ DOMAIN Replies(c) = 1 .. Len(Replies(c))
           /\ \A i \in DOMAIN Replies(c) : /\ i \in Nat \ {0}
                                           /\ Replies(c)[i] \in Flying(c)
                                           /\ Replies(c)[i] \in ServerPacket
<1>1. Replies(c) \in Seq(ServerPacket)
  BY TrafficFact
<1>2. Len(Replies(c)) \in Nat /\ DOMAIN Replies(c) = 1 .. Len(Replies(c))
  BY <1>1, LenProperties
<1> QED  BY <1>2, FlyingFact

\* Whatever moves along was under way.
LEMMA CarriesLess ==
    ASSUME NEW c \in Connection, NEW d, Carries(c, d, <<>>)
    PROVE  Flying(d) \subseteq Flying(c)
<1>1. /\ Stretch(Requests(d), Requests(c)) /\ Stretch(Replies(d), Replies(c))
      /\ d.owed \subseteq c.owed
  BY TrafficFact DEF Carries
<1>2. Range(Requests(d)) \subseteq Range(Requests(c))
  BY <1>1 DEF Stretch, Range
<1>3. Range(Replies(d)) \subseteq Range(Replies(c))
  BY <1>1 DEF Stretch, Range
<1> QED  BY <1>1, <1>2, <1>3 DEF Flying

\* Said and accepting are different things, and neither is said of a reply.
LEMMA SaidFact ==
    ASSUME NEW p
    PROVE  /\ Said(p) => ~Accepts(p) /\ ~LoginPacket(p) /\ p.type # "RESPONSE"
           /\ Accepts(p) => LoginPacket(p)
           /\ p.type \in {"RESPONSE", "HANDSHAKE_RESPONSE", "UNKNOWN"} => ~Said(p)
           /\ p \in ServerPacket =>
                \/ Said(p)
                \/ p.type \in {"RESPONSE", "HANDSHAKE_RESPONSE", "UNKNOWN"}
BY DEF Said, Accepts, LoginPacket, UnsolicitedPackets, PresencePackets,
   IgnoredPackets, ServerPacket, ServerPackets

\* What trails goes on to be heard in order.
LEMMA HeardTrails ==
    ASSUME NEW c \in Connection, NEW d \in Connection, Heard(c), Trails(c, d),
           Flying(d) \subseteq Flying(c)
    PROVE  Heard(d)
<1>1. \A i \in DOMAIN Replies(d) : /\ i \in DOMAIN Replies(c)
                                   /\ Replies(d)[i] = Replies(c)[i]
  BY DEF Trails, Begins
<1>2. ASSUME NEW i \in DOMAIN Replies(d), Said(Replies(d)[i])
      PROVE  \E j \in 1 .. i : Accepts(Replies(d)[j])
  <2>1. PICK j \in 1 .. i : Accepts(Replies(c)[j])
    BY <1>1, <1>2 DEF Heard
  <2>2. j \in DOMAIN Replies(d)
    BY RepliesFact
  <2> QED  BY <1>1, <2>1, <2>2
<1>3. d.login /\ d.peer = "open" => \E j \in DOMAIN Replies(d) : Accepts(Replies(d)[j])
  BY DEF Heard, Trails
<1>4. \A p, q \in Flying(d) : LoginPacket(p) /\ LoginPacket(q) => p.ticket = q.ticket
  BY DEF Heard
<1> QED  BY <1>2, <1>3, <1>4 DEF Heard

\* The head of what is to be heard says nothing before the acceptance, and
\* when it is not the acceptance itself the rest is as it was.
LEMMA HeardHead ==
    ASSUME NEW c \in Connection, Quiet(c), Heard(c), c.input # <<>>
    PROVE  /\ ~Said(Head(c.input))
           /\ ~Accepts(Head(c.input)) => Heard(ConsumeInput(c))
<1> DEFINE d == ConsumeInput(c)
           h == Head(c.input)
<1>1. /\ HeadGone(Replies(d), Replies(c), h) /\ Flying(d) \subseteq Flying(c)
      /\ d \in Connection /\ d.login = c.login /\ d.peer = c.peer
  BY ConsumeInputCarries, ConsumeInputFact, CarriesLess
     DEF ConsumeInput, Connection
<1> HIDE DEF d, h
<1>2. /\ 1 \in DOMAIN Replies(c) /\ Replies(c)[1] = h
      /\ \A i \in DOMAIN Replies(d) :
           i + 1 \in DOMAIN Replies(c) /\ Replies(d)[i] = Replies(c)[i + 1]
      /\ DOMAIN Replies(d) = 1 .. Len(Replies(d))
      /\ DOMAIN Replies(c) = 1 .. Len(Replies(c))
      /\ Len(Replies(d)) + 1 = Len(Replies(c)) /\ Len(Replies(d)) \in Nat
  BY <1>1, RepliesFact DEF HeadGone
<1>3. ~Said(h)
  <2>1. ASSUME Said(h) PROVE FALSE
    <3>1. PICK j \in 1 .. 1 : Accepts(Replies(c)[j])
      BY <1>2, <2>1 DEF Heard
    <3>2. Accepts(h)
      BY <1>2, <3>1
    <3> QED  BY <2>1, <3>2, SaidFact
  <2> QED  BY <2>1
<1>4. ASSUME ~Accepts(h) PROVE Heard(d)
  <2>1. ASSUME NEW j \in DOMAIN Replies(c), Accepts(Replies(c)[j])
        PROVE  /\ j - 1 \in DOMAIN Replies(d) /\ j - 1 \in 1 .. j - 1
               /\ Accepts(Replies(d)[j - 1])
    <3>1. j # 1
      BY <1>2, <1>4, <2>1
    <3>2. j - 1 \in DOMAIN Replies(d) /\ j - 1 \in 1 .. j - 1 /\ (j - 1) + 1 = j
      BY <1>2, <3>1
    <3> QED  BY <1>2, <2>1, <3>2
  <2>2. ASSUME NEW i \in DOMAIN Replies(d), Said(Replies(d)[i])
        PROVE  \E j \in 1 .. i : Accepts(Replies(d)[j])
    <3>1. PICK j \in 1 .. i + 1 : Accepts(Replies(c)[j])
      BY <1>2, <2>2 DEF Heard
    <3>2. j \in DOMAIN Replies(c)
      BY <1>2
    <3>3. j - 1 \in 1 .. i
      BY <1>2, <2>1, <3>1, <3>2
    <3> QED  BY <2>1, <3>1, <3>2, <3>3
  <2>3. d.login /\ d.peer = "open" => \E j \in DOMAIN Replies(d) : Accepts(Replies(d)[j])
    BY <1>1, <2>1 DEF Heard
  <2>4. \A p, q \in Flying(d) : LoginPacket(p) /\ LoginPacket(q) => p.ticket = q.ticket
    BY <1>1 DEF Heard
  <2> QED  BY <2>2, <2>3, <2>4 DEF Heard
<1> QED  BY <1>3, <1>4 DEF d, h

\* Behind a refusal nothing is said: the only reply to a handshake is taken.
LEMMA RefusedSilent ==
    ASSUME NEW c \in Connection, Quiet(c), Heard(c), TicketsApart(c), c.input # <<>>,
           \A p \in Flying(c) : LoginPacket(p) => p.ticket # 0,
           LoginPacket(Head(c.input)), ~Accepts(Head(c.input))
    PROVE  \A i \in DOMAIN Tail(c.input) : ~Said(Tail(c.input)[i])
<1>1. /\ c.input \in Seq(ServerPacket) /\ c.rx \in Seq(ServerPacket)
      /\ Replies(c) = c.input \o c.rx
  BY TrafficFact DEF Replies
<1>2. /\ Len(c.input) \in Nat /\ Len(c.rx) \in Nat
      /\ DOMAIN Replies(c) = 1 .. Len(c.input) + Len(c.rx)
      /\ \A i \in 1 .. Len(c.input) : Replies(c)[i] = c.input[i]
  <2>1. Joins(Replies(c), c.input, c.rx)
    BY <1>1, PacketsJoin, Zenon
  <2> QED  BY <2>1, Zenon DEF Joins
<1> DEFINE r == Replies(c)
           s == c.input
           t == Tail(c.input)
           h == Head(c.input)
           n == Len(c.input)
           m == Len(c.rx)
<1>3. /\ n \in Nat \ {0} /\ h = s[1] /\ DOMAIN t = 1 .. n - 1
      /\ \A i \in 1 .. n - 1 : t[i] = s[i + 1]
  BY <1>1, HeadTailProperties, LenProperties, EmptySeq
<1>4. /\ 1 \in DOMAIN r /\ r[1] = h
      /\ \A i \in DOMAIN t : i + 1 \in DOMAIN r /\ r[i + 1] = t[i]
  <2>1. /\ m \in Nat /\ DOMAIN r = 1 .. n + m
        /\ \A i \in 1 .. n : r[i] = s[i]
    BY <1>2
  <2> HIDE DEF r, s, t, h, n, m
  <2> QED  BY <1>3, <2>1
<1>5. ASSUME NEW i \in DOMAIN Tail(c.input), Said(Tail(c.input)[i]) PROVE FALSE
  <2>1. i + 1 \in DOMAIN Replies(c) /\ Replies(c)[i + 1] = Tail(c.input)[i]
    BY <1>4
  <2>2. PICK j \in 1 .. i + 1 : Accepts(Replies(c)[j])
    BY <1>5, <2>1 DEF Heard
  <2>3. j \in DOMAIN Replies(c) /\ j # 1
    BY <1>4, <2>1, <2>2, RepliesFact
  <2>4. /\ Replies(c)[j] \in Flying(c) /\ LoginPacket(Replies(c)[j])
        /\ Replies(c)[1] \in Flying(c) /\ LoginPacket(Replies(c)[1])
    BY <1>4, <2>2, <2>3, RepliesFact, SaidFact
  <2>5. Same(Replies(c)[j], Replies(c)[1])
    BY <2>4 DEF Heard, Same
  <2> QED  BY <1>4, <2>3, <2>5 DEF TicketsApart, OneEach
<1> QED  BY <1>5

\* One packet more behind what the server sent.
LEMMA SentHeard ==
    ASSUME NEW c \in Connection, NEW d, NEW r, Sent(c, d, r), Heard(c),
           d.owed \subseteq c.owed, d.peer = c.peer,
           LoginPacket(r) => \E q \in c.owed : LoginPacket(q) /\ r.ticket = q.ticket,
           Said(r) => c.login /\ c.peer = "open",
           d.login => c.login \/ Accepts(r)
    PROVE  Heard(d)
<1> DEFINE n == Len(Replies(c))
<1>1. /\ Flying(d) \subseteq Flying(c) \cup {r} /\ n \in Nat
      /\ DOMAIN Replies(c) = 1 .. n /\ DOMAIN Replies(d) = 1 .. n + 1
      /\ \A i \in 1 .. n : Replies(d)[i] = Replies(c)[i]
      /\ Replies(d)[n + 1] = r
  <2>1. /\ d \in Connection /\ Requests(d) = Requests(c)
        /\ DOMAIN Replies(d) = 1 .. n + 1
        /\ \A i \in DOMAIN Replies(d) :
             \/ i \in DOMAIN Replies(c) /\ Replies(d)[i] = Replies(c)[i]
             \/ i = n + 1 /\ Replies(d)[i] = r
    BY DEF Sent, OneMore
  <2>2. n \in Nat /\ DOMAIN Replies(c) = 1 .. n
    BY RepliesFact
  <2>3. Flying(d) \subseteq Flying(c) \cup {r}
    BY <2>1, SentFlying
  <2> HIDE DEF n
  <2> QED  BY <2>1, <2>2, <2>3
<1> HIDE DEF n
<1>2. ASSUME NEW p \in Flying(d), NEW q \in Flying(d), LoginPacket(p), LoginPacket(q)
      PROVE  p.ticket = q.ticket
  <2>1. \A x \in Flying(d) :
           LoginPacket(x) => \E y \in Flying(c) : LoginPacket(y) /\ x.ticket = y.ticket
    BY <1>1 DEF Flying
  <2> QED  BY <1>2, <2>1 DEF Heard
<1>3. ASSUME NEW i \in DOMAIN Replies(d), Said(Replies(d)[i])
      PROVE  \E j \in 1 .. i : Accepts(Replies(d)[j])
  <2>1. CASE i \in 1 .. n
    <3>1. PICK j \in 1 .. i : Accepts(Replies(c)[j])
      BY <1>1, <1>3, <2>1 DEF Heard
    <3> QED  BY <1>1, <2>1, <3>1
  <2>2. CASE i = n + 1
    <3>1. PICK j \in 1 .. n : Accepts(Replies(c)[j])
      BY <1>1, <1>3, <2>2 DEF Heard
    <3> QED  BY <1>1, <2>2, <3>1
  <2> QED  BY <1>1, <2>1, <2>2
<1>4. ASSUME d.login, d.peer = "open"
      PROVE  \E j \in DOMAIN Replies(d) : Accepts(Replies(d)[j])
  <2>1. CASE Accepts(r)
    BY <1>1, <2>1
  <2>2. CASE c.login
    <3>1. PICK j \in 1 .. n : Accepts(Replies(c)[j])
      BY <1>1, <1>4, <2>2 DEF Heard
    <3> QED  BY <1>1, <3>1
  <2> QED  BY <1>4, <2>1, <2>2
<1> QED  BY <1>2, <1>3, <1>4 DEF Heard

\* What the server and the network do to either.
LEMMA EnvironmentHeard ==
    ASSUME TypeOK, TypeOK', FlightInv, Environment
    PROVE  /\ Heard(conn) => Heard(conn')
           /\ Unheard(conn) => Unheard(conn')
<1>1. conn \in Connection /\ conn' \in Connection /\ Quiet(conn) /\ Ready
  BY DEF TypeOK, SessionTypeOK, FlightInv, Flight, Ready
<1>2. CASE BreakStep
  BY <1>1, <1>2, CarriesLess, HeardTrails DEF BreakStep, Unheard
<1>3. CASE ReadStep
  <2>1. conn'.login = conn.login /\ conn'.peer = conn.peer
    BY <1>1, <1>3 DEF ReadStep, ServerReceives, Connection
  <2>2. Replies(conn') = Replies(conn)
    BY <1>1, <1>3, ServerReceivesCarries DEF ReadStep
  <2>3. Flying(conn') \subseteq Flying(conn)
    <3>1. nextTicket \in Nat /\ Live(phase) \in BOOLEAN
      BY ReadyFact, <1>1 DEF Live
    <3> QED  BY <1>1, <1>3, <3>1, ReceivedFlight DEF ReadStep, FlightInv
  <2> QED  BY <1>1, <2>1, <2>2, <2>3, SameTrails, HeardTrails DEF Unheard
<1>4. CASE AnswerStep
  <2>1. PICK q \in conn.owed, r \in ServerPacket :
           /\ r.ticket = q.ticket
           /\ r.type = IF q.type = "HANDSHAKE" THEN "HANDSHAKE_RESPONSE" ELSE "RESPONSE"
           /\ conn'.owed = conn.owed \ {q} /\ conn'.peer = conn.peer
           /\ conn'.login => conn.login \/ Accepts(r)
           /\ Sent(conn, conn', r)
    BY <1>4 DEF AnswerStep
  <2>2. Flying(conn) # {}
    BY <2>1 DEF Flying
  <2>3. LoginPacket(r) => LoginPacket(q)
    BY <2>1 DEF LoginPacket
  <2>4. ~Said(r)
    BY <2>1, SaidFact
  <2>5. Heard(conn) => Heard(conn')
    BY <1>1, <2>1, <2>3, <2>4, SentHeard
  <2> QED  BY <2>2, <2>5 DEF Unheard
<1>5. CASE VolunteerStep
  <2>1. PICK r \in ServerPacket :
           /\ r.type \notin Quoting
           /\ conn'.owed = conn.owed /\ conn'.peer = conn.peer
           /\ conn.login /\ conn.peer = "open"
           /\ Sent(conn, conn', r)
    BY <1>5 DEF VolunteerStep
  <2>2. ~LoginPacket(r)
    BY <2>1 DEF LoginPacket, Quoting, Asks
  <2>3. Heard(conn) => Heard(conn')
    BY <1>1, <2>1, <2>2, SentHeard
  <2> QED  BY <2>1, <2>3 DEF Unheard
<1> QED  BY <1>1, <1>2, <1>3, <1>4, <1>5, EnvironmentChanges

\* A connection begun has nothing under way and no login (BeginConnect).
LEMMA BegunUnheard ==
    ASSUME NEW c \in Connection, NEW d \in BeginConnects(c), d.state # "FAILED"
    PROVE  Unheard(d)
<1>1. Requests(d) = <<>> /\ Replies(d) = <<>> /\ d.owed = {}
  BY BeginConnectsCarries
<1>2. Range(<<>>) = {}
  BY DEF Range
<1>3. Flying(d) = {}
  BY <1>1, <1>2 DEF Flying
<1>4. ~d.login
  <2>1. \A e : ~Close(e).login /\ ~Fail(e).login
    BY DEF Close, Fail, NewSocket
  <2>2. Fail(c).state = "FAILED"
    BY FailFact
  <2>3. Fail([Close(c) EXCEPT !.input = <<>>]).state = "FAILED"
    BY DEF Fail, Close, NewSocket
  <2> QED  BY <2>2, <2>3 DEF BeginConnects, Established, Close, NewSocket
<1> QED  BY <1>3, <1>4 DEF Unheard

\* The handshake is the first thing on it (PumpConnectPhase).
LEMMA HandshakeHeard ==
    ASSUME NEW b \in Connection, Quiet(b), Unheard(b), NEW c \in PumpConnects(b),
           NEW p \in ClientPacket, NEW d \in Writes(c, <<p>>)
    PROVE  Heard(d)
<1>1. c \in Connection /\ Carries(b, c, <<>>) /\ Quiet(c) /\ <<p>> \in Seq(ClientPacket)
  BY PumpConnectsFact, PumpConnectsCarries DEF Carries
<1>2. Flying(c) = {} /\ ~c.login
  <2>1. Flying(c) = {}
    BY <1>1, CarriesLess DEF Unheard
  <2>2. ~c.login
    BY DEF PumpConnects, Established, Fail, Close, NewSocket, Unheard, Connection
  <2> QED  BY <2>1, <2>2
<1>3. d \in Connection /\ Carries(c, d, <<p>>) /\ Trails(c, d) /\ ~d.login
  BY <1>1, <1>2, WritesFact, WritesCarries, WriteTrails
<1>4. Flying(d) \subseteq {p}
  BY <1>1, <1>2, <1>3, CarriesFlying
<1>5. DOMAIN Replies(d) = {}
  <2>1. ASSUME NEW i \in DOMAIN Replies(d) PROVE FALSE
    <3>1. i \in DOMAIN Replies(c)
      BY <1>3, <2>1 DEF Trails, Begins
    <3> QED  BY <1>1, <1>2, <3>1, RepliesFact
  <2> QED  BY <2>1
<1> QED  BY <1>3, <1>4, <1>5 DEF Heard

-----------------------------------------------------------------------------
(* The steps by what they mean to the login and to the watching game.      *)

\* A write leaves the socket up or closed (Write).
Written(c, d) == d.state \in {c.state, "CLOSED"}

\* The methods that tell the game of users.
WatchOps == {"AddToWWR", "RemoveFromWWR", "NextChangedUserWWR"}

\* Not on to process packets, and with nothing told.
NotOnto == pc' \notin {"process", "register"}
Aside == NotOnto /\ (pc' = "engine" => result'.op \notin WatchOps)

\* A step of a call that is no matter of either.
CallStep ==
    /\ phase' = phase /\ UNCHANGED presenceVars /\ Aside
    /\ conn' = conn \/ (Online /\ Written(conn, conn'))

\* The session is lost or left (ConnectionLost, Disconnect).
LossStep == phase' = "IDLE" /\ MarkEveryoneOffline /\ NotOnto

\* A new attempt begins, or one is given up (StartConnecting,
\* PumpConnectPhase).
TryStep ==
    /\ ~Online /\ NotOnto /\ UNCHANGED presenceVars
    /\ phase' = "FAILED" \/ (phase' = "CONNECTING" /\ Unheard(conn'))

WatchStep ==
    \/ \E u \in Users : AddToWWR(u) \/ RemoveFromWWR(u)
    \/ ReturnAddToWWR \/ NextChangedUserWWR

\* The state of the socket after a write.
LEMMA WrittenFact ==
    ASSUME NEW c \in Connection
    PROVE  /\ \A packets, d : d \in Writes(c, packets) => Written(c, d)
           /\ Written(c, c) /\ Written(c, Close(c))
<1>1. Written(c, c) /\ \A d : Written(c, Close(d))
  BY CloseCloses DEF Written
<1>2. ASSUME NEW packets, NEW d \in Writes(c, packets) PROVE Written(c, d)
  <2> DEFINE filled == [c EXCEPT !.output = c.output \o packets]
  <2>1. filled.state = c.state
    BY DEF Connection
  <2>2. \A n : Sends(filled, n).state = filled.state
    BY DEF Sends, Connection
  <2>3. d = c \/ (\E n : d = Sends(filled, n)) \/ d = Close(filled)
    BY DEF Writes, FlushOutputs
  <2> HIDE DEF filled
  <2> QED  BY <1>1, <2>1, <2>2, <2>3 DEF Written
<1> QED  BY <1>1, <1>2

\* Other methods tell nothing of users.
LEMMA AsideFact ==
    ASSUME NEW op, op \notin WatchOps, NEW arg, NEW block, NEW ok, NEW about,
           NEW ticket
    PROVE  /\ Return(op, arg, block, ok, about) => Aside
           /\ RunPump(op, arg, ticket) => Aside
           /\ ReturnBlock(op, arg) => Aside
           /\ WaitReturns(op, arg, ok, about) => Aside
<1>1. Return(op, arg, block, ok, about) => Aside
  BY DEF Return, Aside, NotOnto
<1>2. RunPump(op, arg, ticket) => Aside
  BY DEF RunPump, Aside, NotOnto
<1>3. ReturnBlock(op, arg) => Aside
  <2>1. RunPump(op, arg, 0) => Aside
    BY DEF RunPump, Aside, NotOnto
  <2>2. Return(op, arg, TRUE, FALSE, Nobody) => Aside
    BY DEF Return, Aside, NotOnto
  <2> QED  BY <2>1, <2>2 DEF ReturnBlock
<1>4. WaitReturns(op, arg, ok, about) => Aside
  <2>1. Return(op, arg, FALSE, ok, about) => Aside
    BY DEF Return, Aside, NotOnto
  <2>2. pc' = "scan" => Aside
    BY DEF Aside, NotOnto
  <2> QED  BY <2>1, <2>2 DEF WaitReturns
<1> QED  BY <1>1, <1>2, <1>3, <1>4

\* ConnectInBackground and Connect.
LEMMA ConnectKinds ==
    ASSUME TypeOK, NEW op \in {"Connect", "ConnectInBackground"}, NEW users,
           ConnectInBackground(op, users)
    PROVE  CallStep \/ TryStep
<1> op \notin WatchOps /\ conn \in Connection /\ UNCHANGED presenceVars
  BY DEF WatchOps, TypeOK, SessionTypeOK, ConnectInBackground
<1>1. CASE Return(op, Nobody, FALSE, TRUE, Nobody) /\ UNCHANGED <<conn, sessionVars>>
  <2>1. Aside
    BY <1>1, AsideFact
  <2> QED  BY <1>1, <2>1 DEF CallStep, sessionVars
<1>2. CASE ~Online /\ StartConnecting(op)
  <2>1. PICK c \in BeginConnects(conn) :
           IF c.state = "FAILED"
           THEN /\ ConnectFails(c, "ERROR_OFFLINE")
                /\ Return(op, Nobody, FALSE, FALSE, Nobody)
                /\ UNCHANGED connectLate
           ELSE /\ conn' = c
                /\ phase' = "CONNECTING"
                /\ connectLate' = FALSE
                /\ ReturnBlock(op, Nobody)
                /\ UNCHANGED lastError
    BY <1>2 DEF StartConnecting
  <2>2. NotOnto
    BY <2>1, OutsideFact DEF Outside, NotOnto
  <2>3. phase' = "FAILED" \/ (phase' = "CONNECTING" /\ Unheard(conn'))
    BY <2>1, BegunUnheard DEF ConnectFails
  <2> QED  BY <1>2, <2>2, <2>3 DEF TryStep
<1>3. CASE RunPump(op, Nobody, 0) /\ UNCHANGED <<conn, sessionVars>>
  <2>1. Aside
    BY <1>3, AsideFact
  <2> QED  BY <1>3, <2>1 DEF CallStep, sessionVars
<1> QED  BY <1>1, <1>2, <1>3 DEF ConnectInBackground

\* A history is fed, or the connection lost in the attempt (DSFeedHistory).
LEMMA FeedKinds ==
    ASSUME TypeOK, Online, NEW op, op \notin WatchOps, FeedHistory(op)
    PROVE  CallStep \/ LossStep
<1> conn \in Connection
  BY DEF TypeOK, SessionTypeOK
<1>1. PICK c \in Writes(conn, <<Request("DS_FEED_HISTORY", Nobody, nextTicket')>>) :
         IF IsConnected(c)
         THEN /\ conn' = c
              /\ transactions' = Started("TRANS_FEED_HISTORY", 0)
              /\ RunPump(op, Nobody, nextTicket')
              /\ UNCHANGED <<sessionVars, presenceVars>>
         ELSE /\ ConnectionLost(c)
              /\ WaitReturns(op, Nobody, FALSE, Nobody)
  BY DEF FeedHistory
<1>2. Written(conn, c) /\ Aside
  BY <1>1, WrittenFact, AsideFact
<1> QED  BY <1>1, <1>2 DEF CallStep, LossStep, ConnectionLost, sessionVars, Aside

\* Every call of the game.
LEMMA GameKinds ==
    ASSUME TypeOK, GameCalls
    PROVE  CallStep \/ LossStep \/ TryStep \/ WatchStep
<1> conn \in Connection
  BY DEF TypeOK, SessionTypeOK
<1>1. CASE Disconnect
  <2>1. Outside'
    BY <1>1, OutsideFact DEF Disconnect
  <2> QED  BY <1>1, <2>1 DEF Disconnect, LossStep, Outside, NotOnto
<1>2. ASSUME NEW u \in Users, IsUserOnline(u) PROVE CallStep
  <2>1. phase' = phase /\ UNCHANGED presenceVars
    BY <1>2 DEF IsUserOnline, sessionVars
  <2>2. "IsUserOnline" \notin WatchOps
    BY DEF WatchOps
  <2>3. Aside
    BY <1>2, <2>2, AsideFact DEF IsUserOnline
  <2>4. conn' = conn \/ (Online /\ Written(conn, conn'))
    BY <1>2, WrittenFact DEF IsUserOnline
  <2> QED  BY <2>1, <2>3, <2>4 DEF CallStep
<1>3. ASSUME NEW op \in QueryOps, NEW s, NEW arg, Query(op, s, arg) PROVE CallStep
  <2>1. phase' = phase /\ UNCHANGED presenceVars
    BY <1>3 DEF Query, sessionVars
  <2>2. op \notin WatchOps
    BY DEF WatchOps, QueryOps
  <2>3. StartQuery(op, s, arg) => Aside /\ Written(conn, conn')
    BY <2>2, AsideFact, WrittenFact DEF StartQuery
  <2>4. Aside
    BY <1>3, <2>2, <2>3, AsideFact DEF Query
  <2>5. conn' = conn \/ (Online /\ StartQuery(op, s, arg))
    BY <1>3 DEF Query
  <2> QED  BY <2>1, <2>3, <2>4, <2>5 DEF CallStep
<1>4. ASSUME NEW u \in Users, PostDirectMessage(u) PROVE CallStep \/ LossStep
  <2>1. "PostDirectMessage" \notin WatchOps
    BY DEF WatchOps
  <2>2. Aside
    BY <1>4, <2>1, AsideFact DEF PostDirectMessage
  <2>3. \/ phase' = phase /\ UNCHANGED <<conn, presenceVars>>
        \/ phase' = phase /\ Online /\ Written(conn, conn') /\ UNCHANGED presenceVars
        \/ \E c : ConnectionLost(c)
    BY <1>4, WrittenFact DEF PostDirectMessage, sessionVars
  <2>4. (\E c : ConnectionLost(c)) => LossStep
    BY <2>2 DEF LossStep, ConnectionLost, Aside
  <2>5. UNCHANGED <<conn, presenceVars>> => conn' = conn /\ UNCHANGED presenceVars
    OBVIOUS
  <2> QED  BY <2>2, <2>3, <2>4, <2>5 DEF CallStep
<1>5. CASE DSFeedHistory
  <2>1. "DSFeedHistory" \notin WatchOps
    BY DEF WatchOps
  <2>2. CASE Online
    BY <1>5, <2>1, <2>2, FeedKinds DEF DSFeedHistory
  <2>3. CASE ~Online
    <3>1. Aside
      BY <1>5, <2>1, <2>3, AsideFact DEF DSFeedHistory
    <3> QED  BY <1>5, <2>3, <3>1 DEF DSFeedHistory, CallStep, sessionVars
  <2> QED  BY <2>2, <2>3
<1>6. CASE QueueMessage \/ GetMessages \/ SendOrdinaryMessages
  <2>1. {"QueueMessage", "GetMessages", "SendOrdinaryMessages"} \cap WatchOps = {}
    BY DEF WatchOps
  <2>2. Aside
    BY <1>6, <2>1, AsideFact DEF QueueMessage, GetMessages, SendOrdinaryMessages
  <2>3. UNCHANGED <<conn, phase>> /\ UNCHANGED presenceVars
    BY <1>6 DEF QueueMessage, GetMessages, SendOrdinaryMessages, sessionVars
  <2> QED  BY <2>2, <2>3 DEF CallStep
<1>7. CASE (\E u \in Users : FetchUserData(u)) \/ DSFetchRandomUser \/ GetStatus
  BY <1>3, <1>7 DEF FetchUserData, DSFetchRandomUser, GetStatus, QueryOps
<1> QED  BY <1>1, <1>2, <1>4, <1>5, <1>6, <1>7, ConnectKinds DEF GameCalls, WatchStep

\* The handshake is written (PumpConnectPhase).
HelloStep ==
    /\ phase = "CONNECTING" /\ phase' = "AWAIT_HANDSHAKE"
    /\ pc = "pump" /\ pc' = pc /\ UNCHANGED presenceVars
    /\ Unheard(conn) => Heard(conn')

\* The rest of a call after its Pump, and the outbox.
LEMMA ReturnKinds ==
    ASSUME TypeOK, CallInv,
           \/ PumpNothing \/ ReturnConnect \/ ReturnWait \/ ReturnQuery
           \/ ReturnGetMessages \/ ProcessQueuedMessages \/ ScanOutbox \/ ScanEnds
           \/ \E f \in scanList : SendOutboxFile(f)
    PROVE  CallStep \/ LossStep
<1> conn \in Connection
  BY DEF TypeOK, SessionTypeOK
<1>1. CASE PumpNothing \/ ScanOutbox \/ ScanEnds
  <2>1. "SendOrdinaryMessages" \notin WatchOps
    BY DEF WatchOps
  <2>2. Aside
    <3>1. CASE PumpNothing
      BY <3>1 DEF PumpNothing, Aside, NotOnto
    <3>2. CASE ScanOutbox
      <4>1. pc' = "send" \/ Return("SendOrdinaryMessages", Nobody, FALSE, TRUE, Nobody)
        BY <3>2 DEF ScanOutbox
      <4>2. pc' = "send" => Aside
        BY DEF Aside, NotOnto
      <4> QED  BY <2>1, <4>1, <4>2, AsideFact
    <3>3. CASE ScanEnds
      BY <2>1, <3>3, AsideFact DEF ScanEnds
    <3> QED  BY <1>1, <3>1, <3>2, <3>3
  <2>3. UNCHANGED <<conn, phase>> /\ UNCHANGED presenceVars
    BY <1>1 DEF PumpNothing, ScanOutbox, ScanEnds, sessionVars
  <2> QED  BY <2>2, <2>3 DEF CallStep
<1>2. CASE ReturnConnect
  <2>1. call.op \notin WatchOps /\ UNCHANGED <<conn, phase>> /\ UNCHANGED presenceVars
    BY <1>2 DEF ReturnConnect, sessionVars, WatchOps
  <2>2. Aside
    BY <1>2, <2>1, AsideFact DEF ReturnConnect
  <2> QED  BY <2>1, <2>2 DEF CallStep
<1>3. CASE ReturnWait
  <2>1. call.op \notin WatchOps /\ UNCHANGED <<conn, phase>> /\ UNCHANGED presenceVars
    BY <1>3 DEF ReturnWait, sessionVars, WatchOps, CallInv, WaitOps
  <2>2. \/ \E ok, about : WaitReturns(call.op, call.arg, ok, about)
        \/ pc' = "pump"
    BY <1>3 DEF ReturnWait
  <2>3. pc' = "pump" => Aside
    BY DEF Aside, NotOnto
  <2> QED  BY <2>1, <2>2, <2>3, AsideFact DEF CallStep
<1>4. CASE ReturnQuery
  <2>1. call.op \notin WatchOps /\ UNCHANGED <<conn, phase>> /\ UNCHANGED presenceVars
    BY <1>4 DEF ReturnQuery, sessionVars, WatchOps
  <2>2. ASSUME NEW ok, NEW about, QueryReturns(ok, about) PROVE Aside
    BY <2>1, <2>2, AsideFact DEF QueryReturns
  <2>3. (\E ok, about : QueryReturns(ok, about)) \/ ReturnBlock(call.op, call.arg)
    BY <1>4 DEF ReturnQuery
  <2> QED  BY <2>1, <2>2, <2>3, AsideFact DEF CallStep
<1>5. CASE ReturnGetMessages
  <2>1. "GetMessages" \notin WatchOps /\ UNCHANGED <<conn, phase>> /\ UNCHANGED presenceVars
    BY <1>5 DEF ReturnGetMessages, sessionVars, WatchOps
  <2>2. Aside
    BY <1>5, <2>1, AsideFact DEF ReturnGetMessages
  <2> QED  BY <2>1, <2>2 DEF CallStep
<1>6. CASE ProcessQueuedMessages
  <2>1. "SendOrdinaryMessages" \notin WatchOps
    BY DEF WatchOps
  <2>2. CASE queued > 0 /\ Online
    BY <1>6, <2>1, <2>2, FeedKinds DEF ProcessQueuedMessages
  <2>3. CASE ~(queued > 0 /\ Online)
    <3>1. Aside
      BY <1>6, <2>1, <2>3, AsideFact DEF ProcessQueuedMessages
    <3>2. UNCHANGED <<conn, phase>> /\ UNCHANGED presenceVars
      BY <1>6, <2>3 DEF ProcessQueuedMessages, sessionVars
    <3> QED  BY <3>1, <3>2 DEF CallStep
  <2> QED  BY <2>2, <2>3
<1>7. ASSUME NEW f \in scanList, SendOutboxFile(f) PROVE CallStep \/ LossStep
  <2>1. "SendOrdinaryMessages" \notin WatchOps
    BY DEF WatchOps
  <2>2. Aside
    <3>1. pc = "send" /\ (pc' = pc \/ Return("SendOrdinaryMessages", Nobody, FALSE, TRUE, Nobody))
      BY <1>7 DEF SendOutboxFile, callVars
    <3>2. pc' = "send" => Aside
      BY DEF Aside, NotOnto
    <3> QED  BY <2>1, <3>1, <3>2, AsideFact
  <2>3. Online
    BY <1>7 DEF SendOutboxFile
  <2>4. \/ phase' = phase /\ UNCHANGED <<conn, presenceVars>>
        \/ phase' = phase /\ Written(conn, conn') /\ UNCHANGED presenceVars
        \/ \E c : ConnectionLost(c)
    BY <1>7, WrittenFact DEF SendOutboxFile, sessionVars
  <2>5. (\E c : ConnectionLost(c)) => LossStep
    BY <2>2 DEF LossStep, ConnectionLost, Aside
  <2>6. UNCHANGED <<conn, presenceVars>> => conn' = conn /\ UNCHANGED presenceVars
    OBVIOUS
  <2> QED  BY <2>2, <2>3, <2>4, <2>5, <2>6 DEF CallStep
<1> QED  BY <1>1, <1>2, <1>3, <1>4, <1>5, <1>6, <1>7

\* PumpConnectPhase, but for what it reads.
LEMMA PumpKinds ==
    ASSUME TypeOK, FlightInv, PumpConnect \/ PumpEnd
    PROVE  CallStep \/ LossStep \/ TryStep \/ HelloStep
<1> conn \in Connection /\ Quiet(conn) /\ nextTicket \in Nat
  BY DEF TypeOK, SessionTypeOK, TableTypeOK, FlightInv, Flight
<1>1. CASE PumpConnect
  <2>1. /\ pc = "pump" /\ phase = "CONNECTING" /\ ~Online
        /\ UNCHANGED presenceVars
    BY <1>1 DEF PumpConnect, Online
  <2>2. PICK c \in PumpConnects(conn) :
           CASE IsConnected(c) ->
                  /\ nextTicket' = NextTicket
                  /\ \E d \in Writes(c, <<Request("HANDSHAKE", Nobody, nextTicket')>>) :
                       IF IsConnected(d)
                       THEN /\ conn' = d
                            /\ phase' = "AWAIT_HANDSHAKE"
                            /\ UNCHANGED <<lastError, pc, call>>
                       ELSE /\ ConnectFails(d, "ERROR_OFFLINE")
                            /\ pc' = "return"
                            /\ UNCHANGED call
             [] c.state = "CONNECTING" ->
                  /\ conn' = c
                  /\ pc' = "pumped"
                  /\ call' = [call EXCEPT !.login = TRUE, !.alive = TRUE]
                  /\ UNCHANGED <<phase, lastError, nextTicket>>
             [] OTHER ->
                  /\ ConnectFails(c, "ERROR_OFFLINE")
                  /\ pc' = "return"
                  /\ UNCHANGED <<nextTicket, call>>
    BY <1>1 DEF PumpConnect
  <2>3. CASE pc' = "return" /\ phase' = "FAILED"
    BY <2>1, <2>3 DEF TryStep, NotOnto
  <2>4. CASE c.state = "CONNECTING"
    <3>1. conn' = conn /\ pc' = "pumped" /\ phase' = phase
      BY <2>2, <2>4, PumpConnectsFact DEF IsConnected
    <3> QED  BY <2>1, <3>1 DEF CallStep, Aside, NotOnto
  <2>5. CASE IsConnected(c)
    <3>1. PICK d \in Writes(c, <<Request("HANDSHAKE", Nobody, nextTicket')>>) :
             IF IsConnected(d)
             THEN /\ conn' = d
                  /\ phase' = "AWAIT_HANDSHAKE"
                  /\ UNCHANGED <<lastError, pc, call>>
             ELSE /\ ConnectFails(d, "ERROR_OFFLINE")
                  /\ pc' = "return"
                  /\ UNCHANGED call
      BY <2>2, <2>5 DEF IsConnected
    <3>2. Request("HANDSHAKE", Nobody, nextTicket') \in ClientPacket
      <4>1. nextTicket' \in Nat
        BY <2>2, <2>5 DEF NextTicket, IsConnected
      <4> QED  BY <4>1 DEF Request, ClientPacket, Packet, ClientPackets, Subject
    <3>3. Unheard(conn) => Heard(d)
      BY <3>2, HandshakeHeard
    <3> QED  BY <2>1, <2>3, <3>1, <3>3 DEF HelloStep, ConnectFails
  <2> QED  BY <2>2, <2>3, <2>4, <2>5 DEF ConnectFails
<1>2. CASE PumpEnd
  <2>1. pc' = "return" /\ NotOnto /\ Aside
    BY <1>2 DEF PumpEnd, NotOnto, Aside
  <2>2. \/ UNCHANGED <<conn, phase>> /\ UNCHANGED presenceVars
        \/ ConnectionLost(conn)
        \/ phase' = "FAILED" /\ Connecting /\ UNCHANGED presenceVars
    BY <1>2 DEF PumpEnd, ConnectFails, Connecting, sessionVars
  <2>3. Connecting => ~Online
    BY DEF Connecting, Online
  <2> QED  BY <2>1, <2>2, <2>3 DEF CallStep, LossStep, TryStep, ConnectionLost
<1> QED  BY <1>1, <1>2

-----------------------------------------------------------------------------
(* The login.                                                              *)

Silent(input) == \A i \in DOMAIN input : ~Said(input[i])

\* Nothing is said on a connection before its login is accepted, the socket
\* of a session is made, and what is processed of a refused login is silent.
LoginInv ==
    /\ phase = "CONNECTING" => Unheard(conn)
    /\ phase = "AWAIT_HANDSHAKE" => Heard(conn)
    /\ phase = "ONLINE" => conn.state # "CONNECTING"
    /\ pc = "process" => phase \notin {"IDLE", "CONNECTING"}
    /\ pc = "process" /\ phase = "FAILED" => Silent(conn.input)

\* One packet of the input is consumed and the login stands where it did.
ConsumeStep ==
    /\ pc = "process" /\ pc' = pc /\ phase' = phase /\ Written(conn, conn')
    /\ phase = "AWAIT_HANDSHAKE" => Heard(conn')
    /\ phase = "FAILED" => Silent(conn'.input)
    /\ UNCHANGED presenceVars \/ (phase = "ONLINE" /\ \E p : ProcessPresence(p))

\* The login is refused.
RefuseStep ==
    /\ phase = "AWAIT_HANDSHAKE" /\ phase' = "FAILED"
    /\ pc = "process" /\ pc' = pc /\ UNCHANGED presenceVars
    /\ Silent(conn'.input)

\* The login is accepted.
LoginStep ==
    /\ phase = "AWAIT_HANDSHAKE" /\ phase' = "ONLINE" /\ pc' = "register"
    /\ pc = "process" /\ UNCHANGED presenceVars /\ conn'.state = conn.state

\* What the head of the input may be before and after a session.
LEMMA HeadKinds ==
    ASSUME TypeOK, FlightInv, LoginInv, NEW p, Processing(p)
    PROVE  /\ phase \in {"AWAIT_HANDSHAKE", "ONLINE", "FAILED"}
           /\ phase # "ONLINE" => ~Said(p)
           /\ phase = "AWAIT_HANDSHAKE" /\ ~Accepts(p) => Heard(ConsumeInput(conn))
           /\ phase = "AWAIT_HANDSHAKE" /\ LoginPacket(p) /\ ~Accepts(p) =>
                Silent(Tail(conn.input))
           /\ phase = "FAILED" => Silent(Tail(conn.input))
<1>1. /\ conn \in Connection /\ conn.input # <<>> /\ p = Head(conn.input)
      /\ conn.input \in Seq(ServerPacket) /\ p \in ServerPacket /\ Quiet(conn)
  BY ProcessingFact, TrafficFact DEF Processing, Packets, FlightInv, Flight
<1>2. phase \in {"AWAIT_HANDSHAKE", "ONLINE", "FAILED"}
  BY DEF LoginInv, Processing, TypeOK, SessionTypeOK, Phase
<1>3. ASSUME phase = "FAILED" PROVE ~Said(p) /\ Silent(Tail(conn.input))
  <2>1. Silent(conn.input)
    BY <1>3 DEF LoginInv, Processing
  <2> DEFINE s == conn.input
             t == Tail(s)
  <2>2. /\ 1 \in DOMAIN s /\ Head(s) = s[1]
        /\ \A i \in DOMAIN t : i + 1 \in DOMAIN s /\ t[i] = s[i + 1]
    <3>1. s \in Seq(ServerPacket) /\ s # <<>>
      BY <1>1
    <3> HIDE DEF s
    <3> QED  BY <3>1, HeadTailProperties, LenProperties, EmptySeq
  <2> HIDE DEF s
  <2>3. Silent(s) => ~Said(Head(s)) /\ Silent(t)
    BY <2>2 DEF Silent
  <2> QED  BY <1>1, <2>1, <2>3 DEF s
<1>4. ASSUME phase = "AWAIT_HANDSHAKE"
      PROVE  /\ ~Said(p)
             /\ ~Accepts(p) => Heard(ConsumeInput(conn))
             /\ LoginPacket(p) /\ ~Accepts(p) => Silent(Tail(conn.input))
  <2>1. Heard(conn)
    BY <1>4 DEF LoginInv
  <2>2. TicketsApart(conn)
    BY <1>4 DEF FlightInv, Flight, Live
  <2>3. \A q \in Flying(conn) : LoginPacket(q) => q.ticket # 0
    BY DEF FlightInv, Flight, Numbered, LoginPacket, Quoting, Asks
  <2> QED  BY <1>1, <2>1, <2>2, <2>3, HeardHead, RefusedSilent DEF Silent
<1> QED  BY <1>2, <1>3, <1>4

\* Which of the replies awaited comes before the login, and what is left of
\* the input when one is cut out.
LEMMA ReplyKinds ==
    ASSUME TypeOK, FlightInv, LoginInv, NEW p, ProcessTransactionResponse(p)
    PROVE  ConsumeStep
<1>1. /\ Processing(p) /\ Awaited(p) /\ conn' = ConsumeReply(p) /\ pc = "process"
      /\ UNCHANGED <<phase, pc>> /\ UNCHANGED presenceVars
  BY DEF ProcessTransactionResponse, sessionVars, callVars, Processing
<1>2. /\ conn \in Connection /\ conn.input # <<>> /\ p = Head(conn.input)
      /\ p \in ServerPacket /\ p \in Flying(conn)
  BY <1>1, ProcessingFact, ReplyFlight DEF Processing, Packets
<1>3. Written(conn, conn')
  BY <1>1, <1>2, ConsumeKeepsState DEF Written
<1>4. ASSUME phase = "AWAIT_HANDSHAKE" PROVE Heard(conn')
  <2>1. Fits(p, transactions)
    BY <1>2, <1>4 DEF FlightInv, Flight, Live
  <2>2. ~LoginPacket(p) /\ ~Accepts(p)
    BY <1>1, <2>1, SaidFact DEF Fits, Awaited, LoginPacket
  <2>3. p.type = "RESPONSE"
    <3>1. ~Said(p)
      BY <1>1, <1>4, HeadKinds
    <3>2. p.type # "UNKNOWN"
      <4>1. Numbered(p, nextTicket) /\ p.ticket # 0
        BY <1>1, <1>2 DEF FlightInv, Flight, Awaited, TypeOK, TableTypeOK, IsTable
      <4> QED  BY <4>1 DEF Numbered, Quoting, Asks, TransactionRequests
    <3> QED  BY <1>2, <2>2, <3>1, <3>2, SaidFact DEF LoginPacket
  <2>4. transactions[p.ticket].fixedExtra = p.extra
    BY <2>1, <2>3 DEF Fits, Extra, Asks, TransactionRequests
  <2>5. conn' = ConsumeInput(conn)
    BY <1>1, <2>4 DEF ConsumeReply
  <2> QED  BY <1>1, <1>4, <2>2, <2>5, HeadKinds
<1>5. ASSUME phase = "FAILED" PROVE Silent(conn'.input)
  <2>1. Silent(Tail(conn.input))
    BY <1>1, <1>5, HeadKinds
  <2>2. Silent(<<OneWay("UNKNOWN", Nobody, FALSE)>>)
    BY SaidFact DEF Silent, OneWay
  <2>3. conn'.input \in {Tail(conn.input), <<OneWay("UNKNOWN", Nobody, FALSE)>>}
    BY <1>1, <1>2 DEF ConsumeReply, ConsumeInput, Connection
  <2> QED  BY <2>1, <2>2, <2>3
<1> QED  BY <1>1, <1>3, <1>4, <1>5 DEF ConsumeStep

\* A packet that is just consumed.
LEMMA ConsumeKinds ==
    ASSUME TypeOK, FlightInv, LoginInv, NEW p, Processing(p), ~Accepts(p),
           conn' = ConsumeInput(conn), UNCHANGED <<phase, pc>>,
           UNCHANGED presenceVars \/ (phase = "ONLINE" /\ ProcessPresence(p))
    PROVE  ConsumeStep
<1>1. conn \in Connection /\ pc = "process"
  BY ProcessingFact DEF Processing
<1>2. Written(conn, conn') /\ conn'.input = Tail(conn.input)
  BY <1>1, ConsumeKeepsState DEF Written, ConsumeInput, Connection
<1> QED  BY <1>1, <1>2, HeadKinds DEF ConsumeStep

\* HandleHandshakeResponse.
LEMMA HandshakeKinds ==
    ASSUME TypeOK, FlightInv, LoginInv, NEW p, ProcessHandshakeResponse(p)
    PROVE  ConsumeStep \/ RefuseStep \/ LoginStep
<1>1. /\ Processing(p) /\ p.type = "HANDSHAKE_RESPONSE" /\ pc = "process"
      /\ UNCHANGED presenceVars /\ conn \in Connection /\ LoginPacket(p)
  BY DEF ProcessHandshakeResponse, Processing, LoginPacket, TypeOK, SessionTypeOK
<1>2. CASE phase # "AWAIT_HANDSHAKE"
  <2>1. conn' = ConsumeInput(conn) /\ UNCHANGED <<phase, pc>>
    BY <1>2 DEF ProcessHandshakeResponse
  <2>2. Written(conn, conn') /\ conn'.input = Tail(conn.input)
    BY <1>1, <2>1, ConsumeKeepsState DEF Written, ConsumeInput, Connection
  <2> QED  BY <1>1, <1>2, <2>1, <2>2, HeadKinds DEF ConsumeStep
<1>3. CASE phase = "AWAIT_HANDSHAKE" /\ ~p.flag
  <2>1. /\ conn' = ConsumeInput(Close(conn)) /\ phase' = "FAILED" /\ pc' = pc
    BY <1>3 DEF ProcessHandshakeResponse, ConnectFails
  <2>2. conn'.input = Tail(conn.input)
    BY <1>1, <2>1, CloseFact DEF ConsumeInput, Connection
  <2>3. Silent(Tail(conn.input))
    BY <1>1, <1>3, HeadKinds DEF Accepts
  <2> QED  BY <1>1, <1>3, <2>1, <2>2, <2>3 DEF RefuseStep
<1>4. CASE phase = "AWAIT_HANDSHAKE" /\ p.flag
  <2>1. conn' = ConsumeInput(conn) /\ phase' = "ONLINE" /\ pc' = "register"
    BY <1>4 DEF ProcessHandshakeResponse
  <2> QED  BY <1>1, <1>4, <2>1, ConsumeKeepsState DEF LoginStep
<1> QED  BY <1>2, <1>3, <1>4

\* One round of ProcessInput: only a session has a use for what is said.
LEMMA ProcessKinds ==
    ASSUME TypeOK, FlightInv, LoginInv, ProcessInput
    PROVE  CallStep \/ LossStep \/ ConsumeStep \/ RefuseStep \/ LoginStep
<1>1. CASE ProcessEnd
  <2>1. Aside /\ UNCHANGED <<conn, phase>> /\ UNCHANGED presenceVars
    BY <1>1 DEF ProcessEnd, sessionVars, Aside, NotOnto
  <2> QED  BY <2>1 DEF CallStep
<1>2. ASSUME NEW p, ProcessPresence(p) \/ ProcessMessage(p) \/ ProcessIgnored(p)
      PROVE  ConsumeStep
  <2>1. /\ Processing(p) /\ conn' = ConsumeInput(conn) /\ UNCHANGED <<phase, pc>>
        /\ p.type # "HANDSHAKE_RESPONSE"
        /\ UNCHANGED presenceVars \/ (ProcessPresence(p) /\ p.type \in PresencePackets)
    BY <1>2 DEF ProcessPresence, ProcessMessage, ProcessIgnored, sessionVars,
       callVars, PresencePackets, IgnoredPackets
  <2>2. p.type \in PresencePackets => Said(p)
    BY DEF Said, UnsolicitedPackets, PresencePackets
  <2>3. p.type \in PresencePackets => phase = "ONLINE"
    BY <2>1, <2>2, HeadKinds
  <2> QED  BY <2>1, <2>3, ConsumeKinds DEF Accepts
<1>3. ASSUME NEW p, ProcessUnknown(p) PROVE LossStep
  BY <1>3 DEF ProcessUnknown, ConnectionLost, LossStep, NotOnto
<1>4. ASSUME NEW p, ProcessVirtualConnect(p) PROVE ConsumeStep \/ LossStep
  <2>1. Processing(p) /\ p.type = "VIRTUAL_CONNECT" /\ conn \in Connection
    BY <1>4 DEF ProcessVirtualConnect, TypeOK, SessionTypeOK
  <2>2. phase = "ONLINE"
    <3>1. Said(p)
      BY <2>1 DEF Said, UnsolicitedPackets
    <3> QED  BY <2>1, <3>1, HeadKinds
  <2>3. PICK c \in Writes(conn, <<OneWay("VIRTUAL_CONNECT_ACCEPT", p.about, TRUE)>>) :
           IF IsConnected(c)
           THEN /\ conn' = ConsumeInput(c)
                /\ UNCHANGED <<sessionVars, tableVars, pc, presenceVars>>
           ELSE /\ ConnectionLost(c)
                /\ pc' = "pumped"
                /\ UNCHANGED nextTicket
    BY <1>4 DEF ProcessVirtualConnect
  <2>4. CASE IsConnected(c)
    <3>1. Written(conn, c) /\ c \in Connection
      <4>1. <<OneWay("VIRTUAL_CONNECT_ACCEPT", p.about, TRUE)>> \in Seq(ClientPacket)
        <5>1. p.about \in Subject
          BY <2>1, ProcessingFact DEF ServerPacket, Packet
        <5> QED  BY <5>1, OneWayFact DEF ClientPackets
      <4> QED  BY <2>1, <4>1, WrittenFact, WritesFact
    <3>2. Written(conn, conn') /\ UNCHANGED <<phase, pc>> /\ UNCHANGED presenceVars
      BY <2>3, <2>4, <3>1, ConsumeKeepsState DEF Written, sessionVars
    <3> QED  BY <2>1, <2>2, <3>2 DEF ConsumeStep, Processing
  <2>5. CASE ~IsConnected(c)
    BY <2>3, <2>5 DEF ConnectionLost, LossStep, NotOnto
  <2> QED  BY <2>4, <2>5
<1> QED  BY <1>1, <1>2, <1>3, <1>4, ReplyKinds, HandshakeKinds DEF ProcessInput

\* Clocks, the spool, the server and the network.
WorldStep ==
    /\ UNCHANGED <<phase, pc, result>>
    /\ UNCHANGED <<presence, wwrMembers, changedUsers>>
    /\ DOMAIN pendingAdds' = DOMAIN pendingAdds
    /\ conn' = conn \/ Environment

\* What AddToWWR, RemoveFromWWR and NextChangedUserWWR have in common.
LEMMA WatchKinds ==
    ASSUME TypeOK, WatchStep
    PROVE  /\ phase' = phase /\ NotOnto
           /\ conn' = conn \/ (Online /\ Written(conn, conn'))
<1> conn \in Connection
  BY DEF TypeOK, SessionTypeOK
<1>1. Outside' => NotOnto
  BY DEF Outside, NotOnto
<1>2. CASE NextChangedUserWWR
  <2>1. Outside'
    BY <1>2, OutsideFact DEF NextChangedUserWWR
  <2> QED  BY <1>1, <1>2, <2>1 DEF NextChangedUserWWR, sessionVars
<1>3. CASE ReturnAddToWWR
  <2>1. Outside'
    BY <1>3, OutsideFact DEF ReturnAddToWWR
  <2> QED  BY <1>1, <1>3, <2>1 DEF ReturnAddToWWR, sessionVars
<1>4. ASSUME NEW u \in Users, AddToWWR(u)
      PROVE  /\ phase' = phase /\ Outside'
             /\ conn' = conn \/ (Online /\ Written(conn, conn'))
  <2>1. Outside'
    BY <1>4, OutsideFact DEF AddToWWR
  <2>2. \/ conn' = conn
        \/ Online /\ \E c \in Writes(conn, <<OneWay("ADD_WWR_ENTRY", u, TRUE)>>) : conn' = c
    BY <1>4 DEF AddToWWR
  <2>3. phase' = phase
    BY <1>4 DEF AddToWWR, sessionVars
  <2> QED  BY <2>1, <2>2, <2>3, WrittenFact
<1>5. ASSUME NEW u \in Users, RemoveFromWWR(u)
      PROVE  /\ phase' = phase /\ Outside'
             /\ conn' = conn \/ (Online /\ Written(conn, conn'))
  <2>1. Outside'
    BY <1>5, OutsideFact DEF RemoveFromWWR
  <2>2. \/ conn' = conn
        \/ Online /\ conn' \in Writes(conn, <<OneWay("REMOVE_WWR_ENTRY", u, TRUE)>>)
    BY <1>5 DEF RemoveFromWWR
  <2>3. phase' = phase
    BY <1>5 DEF RemoveFromWWR, sessionVars
  <2> QED  BY <2>1, <2>2, <2>3, WrittenFact
<1> QED  BY <1>1, <1>2, <1>3, <1>4, <1>5 DEF WatchStep

\* Every step of a running call.
LEMMA ManagerKinds ==
    ASSUME TypeOK, FlightInv, CallInv, LoginInv, ManagerSteps
    PROVE  \/ CallStep \/ LossStep \/ TryStep \/ HelloStep \/ PumpSocket
           \/ ConsumeStep \/ RefuseStep \/ LoginStep
           \/ RegisterNextUser \/ RegistrationEnds \/ WatchStep
BY ReturnKinds, PumpKinds, ProcessKinds DEF ManagerSteps, WatchStep

\* Every step of somebody else.
LEMMA WorldKinds ==
    ASSUME TypeOK, GameUsesSpool \/ TimePasses \/ Environment \/ UNCHANGED vars
    PROVE  WorldStep
<1>1. CASE Environment
  BY <1>1, EnvironmentFact DEF WorldStep, managerVars, sessionVars, callVars,
     presenceVars
<1>2. CASE GameUsesSpool \/ UNCHANGED vars
  BY <1>2 DEF GameUsesSpool, WorldStep, vars, managerVars, sessionVars, callVars,
     presenceVars
<1>3. CASE TimePasses
  <2>1. ASSUME NEW u \in Users, AddDeadlinePasses(u) PROVE WorldStep
    BY <2>1 DEF AddDeadlinePasses, WorldStep, sessionVars, callVars
  <2> QED  BY <1>3, <2>1
           DEF TimePasses, ConnectDeadlinePasses, WaitDeadlinePasses,
               QueryDeadlinePasses, WorldStep, managerVars, sessionVars, callVars,
               presenceVars
<1> QED  BY <1>1, <1>2, <1>3

\* Pump in a session or on the way to one loses nothing and makes no
\* connection.
LEMMA PumpSocketHeard ==
    ASSUME TypeOK, FlightInv, SessionInv, LoginInv, PumpSocket
    PROVE  /\ phase = "AWAIT_HANDSHAKE" => Heard(conn')
           /\ phase = "ONLINE" => /\ conn'.state # "CONNECTING"
                                  /\ IsConnected(conn') => IsConnected(conn)
           /\ phase' = phase /\ phase \in {"AWAIT_HANDSHAKE", "ONLINE"}
           /\ pc' = "process" /\ UNCHANGED <<result, presenceVars>>
<1>1. /\ conn \in Connection /\ Quiet(conn) /\ conn' \in SocketPumps(conn)
      /\ pc = "pump" /\ phase \in {"AWAIT_HANDSHAKE", "ONLINE"}
      /\ conn.state \in SocketState
  BY DEF TypeOK, SessionTypeOK, FlightInv, Flight, PumpSocket, Connection
<1>2. conn' \in Connection /\ Flying(conn') \subseteq Flying(conn)
  BY <1>1, SocketPumpsFact, SocketPumpsCarries, CarriesLess
<1>3. conn.state # "CONNECTING"
  BY <1>1 DEF SessionInv, PhaseMatchesSocket, LoginInv, IsConnected
<1>4. Trails(conn, conn')
  BY <1>1, <1>3, PumpTrails
<1>5. phase = "AWAIT_HANDSHAKE" => Heard(conn')
  BY <1>1, <1>2, <1>4, HeardTrails DEF LoginInv
<1>6. conn'.state # "CONNECTING" /\ (IsConnected(conn') => IsConnected(conn))
  BY <1>1, <1>3, SocketPumpsFact DEF SocketState, IsConnected
<1> QED  BY <1>1, <1>5, <1>6 DEF PumpSocket, sessionVars

\* The login invariant is inductive.
LEMMA StepLogin ==
    ASSUME TypeOK, TypeOK', FlightInv, SessionInv, CallInv, LoginInv, [Next]_vars
    PROVE  LoginInv'
<1>1. ASSUME CallStep \/ WatchStep PROVE LoginInv'
  <2>1. /\ phase' = phase /\ NotOnto
        /\ conn' = conn \/ (Online /\ Written(conn, conn'))
    BY <1>1, WatchKinds DEF CallStep, Aside
  <2> QED  BY <2>1 DEF LoginInv, NotOnto, Online, Written
<1>2. CASE LossStep
  BY <1>2 DEF LossStep, LoginInv, NotOnto
<1>3. CASE TryStep
  BY <1>3 DEF TryStep, LoginInv, NotOnto
<1>4. CASE HelloStep
  BY <1>4 DEF HelloStep, LoginInv
<1>5. CASE PumpSocket
  BY <1>5, PumpSocketHeard DEF LoginInv
<1>6. CASE ConsumeStep
  BY <1>6 DEF ConsumeStep, LoginInv, Written
<1>7. CASE RefuseStep
  BY <1>7 DEF RefuseStep, LoginInv
<1>8. CASE LoginStep
  <2>1. conn.state # "CONNECTING"
    BY <1>8 DEF LoginStep, SessionInv, PhaseMatchesSocket, IsConnected, SocketAlive
  <2> QED  BY <1>8, <2>1 DEF LoginStep, LoginInv
<1>9. CASE RegisterNextUser \/ RegistrationEnds
  <2>1. phase = "ONLINE" /\ phase' = phase
    BY <1>9 DEF RegisterNextUser, RegistrationEnds, SessionInv, PhaseMatchesSocket,
       sessionVars
  <2>2. Written(conn, conn')
    <3>1. conn \in Connection
      BY DEF TypeOK, SessionTypeOK
    <3> QED  BY <1>9, <3>1, WrittenFact DEF RegisterNextUser, RegistrationEnds
  <2> QED  BY <2>1, <2>2 DEF LoginInv, Written
<1>10. CASE WorldStep
  <2>1. phase' = phase /\ pc' = pc
    BY <1>10 DEF WorldStep
  <2>2. CASE conn' = conn
    BY <2>1, <2>2 DEF LoginInv
  <2>3. CASE Environment
    <3>1. conn'.state = conn.state /\ conn'.input = conn.input
      BY <2>3, EnvironmentFact DEF SameSocket
    <3> QED  BY <2>1, <2>3, <3>1, EnvironmentHeard DEF LoginInv
  <2> QED  BY <1>10, <2>2, <2>3 DEF WorldStep
<1> QED  BY <1>1, <1>2, <1>3, <1>4, <1>5, <1>6, <1>7, <1>8, <1>9, <1>10,
            GameKinds, ManagerKinds, WorldKinds DEF Next

LEMMA InitLogin == Init => LoginInv
BY DEF Init, LoginInv

-----------------------------------------------------------------------------
(* What the game was told.                                                 *)

NobodyOnline == \A u \in Users : ~ReadsOnline(u) /\ ~told[u]

\* The game was told of the end of every session before this one, and the
\* socket of this one has not died unnoticed.
Sound == ~revived /\ (phase = "ONLINE" => IsConnected(conn))

\* Whose change the game has not been told of is queued, or waited for; with
\* no session, and until one has registered its users, nobody is online.
Tracked ==
    /\ phase # "ONLINE" \/ pc = "register" => NobodyOnline /\ DOMAIN pendingAdds = {}
    /\ DOMAIN pendingAdds \subseteq blocked \ Malformed
    /\ \A u \in wwrMembers \ blocked : ReadsOnline(u) # told[u] => u \in Range(changedUsers)

WatchInv ==
    /\ told \in [Users -> BOOLEAN]
    /\ phase = "IDLE" => ~revived
    /\ ~Online => \A u \in Users : ~told[u]
    /\ Sound => Tracked

\* A call that tells the game of users returns.
Tells == pc' = "engine" /\ result'.op \in WatchOps

\* What the game hears, by what is returned to it.
LEMMA HearsFact ==
    ASSUME TypeOK', told \in [Users -> BOOLEAN], GameHears
    PROVE  /\ told' \in [Users -> BOOLEAN]
           /\ ~Online' => \A u \in Users : ~told'[u]
           /\ ~Tells => blocked' = blocked /\ (Online' => told' = told)
           /\ phase' = "IDLE" => ~revived'
           /\ phase = "ONLINE" /\ phase' \in {"CONNECTING", "FAILED"} => revived'
           /\ ~revived' => (phase' = "IDLE" \/ ~revived)
<1>1. CASE ~Online'
  <2>1. told' = [u \in Users |-> FALSE]
    BY <1>1 DEF GameHears
  <2> QED  BY <1>1, <2>1 DEF GameHears, Returned, Tells, WatchOps
<1>2. CASE Online' /\ Returned("NextChangedUserWWR") /\ result'.about # Nobody
  <2>1. told' = [told EXCEPT ![result'.about] = result'.ok]
    BY <1>2 DEF GameHears, Returned
  <2>2. result'.ok \in BOOLEAN
    BY DEF TypeOK, CallTypeOK, Result
  <2> QED  BY <1>2, <2>1, <2>2 DEF GameHears, Returned, Tells, WatchOps
<1>3. CASE Online' /\ Returned("AddToWWR") /\ ~result'.block
  <2>1. told' = [told EXCEPT ![result'.arg] = (ReadsOnline(result.arg))']
    BY <1>3 DEF GameHears, Returned
  <2>2. (ReadsOnline(result.arg))' \in BOOLEAN
    BY DEF ReadsOnline
  <2> QED  BY <1>3, <2>1, <2>2 DEF GameHears, Returned, Tells, WatchOps
<1>4. CASE /\ Online'
           /\ ~(Returned("NextChangedUserWWR") /\ result'.about # Nobody)
           /\ ~(Returned("AddToWWR") /\ ~result'.block)
  <2>1. told' = told
    BY <1>4 DEF GameHears
  <2> QED  BY <1>4, <2>1 DEF GameHears, Returned, Tells, WatchOps
<1> QED  BY <1>1, <1>2, <1>3, <1>4

\* Nobody comes online and nobody is waited for.
Fades ==
    /\ \A u \in Users : ReadsOnline(u)' => ReadsOnline(u)
    /\ DOMAIN pendingAdds' \subseteq DOMAIN pendingAdds

LEMMA FadesFact ==
    /\ UNCHANGED presenceVars => Fades
    /\ MarkEveryoneOffline =>
         (\A u \in Users : ~ReadsOnline(u)') /\ DOMAIN pendingAdds' = {}
BY DEF presenceVars, Fades, MarkEveryoneOffline, ReadsOnline

\* Without a session the methods that watch make nobody online.
LEMMA WatchFades == ASSUME WatchStep, ~Online PROVE Fades
<1>1. CASE NextChangedUserWWR
  BY <1>1 DEF NextChangedUserWWR, Fades, ReadsOnline
<1>2. CASE ReturnAddToWWR
  <2>1. /\ presence' = presence
        /\ pendingAdds' = pendingAdds \/ pendingAdds' = Erase(pendingAdds, call.arg)
    BY <1>2 DEF ReturnAddToWWR, EndPendingAdd
  <2>2. DOMAIN pendingAdds' \in {DOMAIN pendingAdds, DOMAIN pendingAdds \ {call.arg}}
    BY <2>1, DomainFact
  <2> QED  BY <2>1, <2>2 DEF Fades, ReadsOnline
<1>3. ASSUME NEW u \in Users, AddToWWR(u) PROVE Fades
  BY <1>3 DEF AddToWWR, Fades, ReadsOnline
<1>4. ASSUME NEW u \in Users, RemoveFromWWR(u) PROVE Fades
  <2>1. presence' = Erase(presence, u) /\ pendingAdds' = Erase(pendingAdds, u)
    BY <1>4 DEF RemoveFromWWR, EndPendingAdd
  <2>2. DOMAIN pendingAdds' = DOMAIN pendingAdds \ {u}
    BY <2>1, DomainFact
  <2>3. \A v \in Users : ReadsOnline(v)' => ReadsOnline(v)
    BY <2>1 DEF ReadsOnline, Erase, Restrict
  <2> QED  BY <2>2, <2>3 DEF Fades
<1> QED  BY <1>1, <1>2, <1>3, <1>4 DEF WatchStep

\* Without a session after it a step loses nothing: everybody is offline.
LEMMA OfflineTracked ==
    ASSUME TypeOK, TypeOK', WatchInv, GameHears, phase' # "ONLINE", ~revived',
           \/ LossStep
           \/ phase # "ONLINE" /\ Fades /\ (phase = "IDLE" \/ phase' # "IDLE")
    PROVE  Tracked'
<1>1. \A u \in Users : ~told'[u]
  BY HearsFact DEF WatchInv, Online
<1>2. (\A u \in Users : ~ReadsOnline(u)') /\ DOMAIN pendingAdds' = {}
  <2>1. CASE LossStep
    BY <2>1, FadesFact DEF LossStep
  <2>2. CASE phase # "ONLINE" /\ Fades /\ (phase = "IDLE" \/ phase' # "IDLE")
    <3>1. ~revived
      BY <2>2, HearsFact DEF WatchInv
    <3>2. NobodyOnline /\ DOMAIN pendingAdds = {}
      BY <2>2, <3>1 DEF WatchInv, Sound, Tracked
    <3> QED  BY <2>2, <3>2 DEF Fades, NobodyOnline
  <2> QED  BY <2>1, <2>2
<1>3. \A u \in wwrMembers' : ReadsOnline(u)' = told'[u]
  <2>1. wwrMembers' \subseteq Users
    BY DEF TypeOK, PresenceTypeOK
  <2>2. told' \in [Users -> BOOLEAN]
    BY HearsFact DEF WatchInv
  <2>3. \A u \in Users : ReadsOnline(u)' = FALSE /\ told'[u] = FALSE
    BY <1>1, <1>2, <2>2 DEF ReadsOnline
  <2> QED  BY <2>1, <2>3
<1> QED  BY <1>1, <1>2, <1>3 DEF Tracked, NobodyOnline

\* Only the methods that watch tell.
LEMMA TellsFact ==
    /\ Aside => ~Tells
    /\ pc' \in {"process", "register"} => ~Tells
BY DEF Aside, Tells

\* Within a session, a step that leaves the register alone.
LEMMA QuietTracked ==
    ASSUME TypeOK', WatchInv, Sound, GameHears, Online', ~Tells, UNCHANGED presenceVars,
           pc' # "register", phase' = "ONLINE"
    PROVE  Tracked'
<1>1. told' = told /\ blocked' = blocked
  BY HearsFact DEF WatchInv
<1>2. \A u : ReadsOnline(u)' = ReadsOnline(u)
  BY DEF ReadsOnline, presenceVars
<1> QED  BY <1>1, <1>2 DEF WatchInv, Tracked, presenceVars

\* RegisterNextUser watches before anything is heard.
LEMMA RegisterTracked ==
    ASSUME TypeOK, TypeOK', WatchInv, Sound, GameHears, Online', phase = "ONLINE",
           RegisterNextUser
    PROVE  Tracked'
<1>1. /\ pc = "register" /\ pc' = pc
      /\ UNCHANGED <<presence, changedUsers, pendingAdds>>
  BY DEF RegisterNextUser, callVars
<1>2. told' = told /\ blocked' = blocked
  BY <1>1, HearsFact, TellsFact DEF WatchInv
<1>3. NobodyOnline /\ DOMAIN pendingAdds = {}
  BY <1>1 DEF WatchInv, Tracked
<1>4. NobodyOnline' /\ DOMAIN pendingAdds' = {}
  BY <1>1, <1>2, <1>3 DEF NobodyOnline, ReadsOnline
<1>5. \A u \in wwrMembers' : ReadsOnline(u)' = told'[u]
  <2>1. wwrMembers' \subseteq Users /\ told' \in [Users -> BOOLEAN]
    BY HearsFact DEF TypeOK, PresenceTypeOK, WatchInv
  <2>2. \A u \in Users : ReadsOnline(u)' = FALSE /\ told'[u] = FALSE
    BY <1>4, <2>1 DEF NobodyOnline, ReadsOnline
  <2> QED  BY <2>1, <2>2
<1> QED  BY <1>4, <1>5 DEF Tracked

\* UpdatePresence queues the user, or leaves it to AddToWWR.
LEMMA PresenceTracked ==
    ASSUME TypeOK, TypeOK', WatchInv, Sound, GameHears, Online', phase = "ONLINE",
           pc' = "process", NEW p, ProcessPresence(p)
    PROVE  Tracked'
<1> DEFINE online == \/ p.type = "USER_ONLINE"
                     \/ p.type = "ONLINE_CHANGE" /\ p.flag
           a == p.about
<1>1. /\ presence' = Insert(presence, a, online) /\ pendingAdds' = Erase(pendingAdds, a)
      /\ changedUsers' = IF IsNews(a, online) THEN Append(changedUsers, a)
                                              ELSE changedUsers
      /\ wwrMembers' = wwrMembers /\ phase' = phase
  BY DEF ProcessPresence, UpdatePresence, EndPendingAdd, sessionVars
<1>2. told' = told /\ blocked' = blocked
  BY HearsFact, TellsFact DEF WatchInv
<1>3. Tracked /\ changedUsers \in Seq(Users) /\ a \in Users
  BY ProcessingFact DEF WatchInv, TypeOK, PresenceTypeOK, ProcessPresence, ServerPacket,
     SubjectPackets
<1>4. DOMAIN pendingAdds' = DOMAIN pendingAdds \ {a}
  BY <1>1, DomainFact
<1>5. /\ ReadsOnline(a)' <=> online
      /\ \A u : u # a => (ReadsOnline(u)' <=> ReadsOnline(u))
  BY <1>1 DEF ReadsOnline, Insert
<1>6. /\ Range(changedUsers) \subseteq Range(changedUsers')
      /\ IsNews(a, online) => a \in Range(changedUsers')
  <2>1. \A q \in Seq(Users) : Range(q) \subseteq Range(Append(q, a)) /\ a \in Range(Append(q, a))
    <3> SUFFICES ASSUME NEW q \in Seq(Users)
                 PROVE  Range(q) \subseteq Range(Append(q, a)) /\ a \in Range(Append(q, a))
      OBVIOUS
    <3>1. /\ DOMAIN q \subseteq DOMAIN Append(q, a)
          /\ \A i \in DOMAIN q : Append(q, a)[i] = q[i]
          /\ Len(q) + 1 \in DOMAIN Append(q, a)
          /\ Append(q, a)[Len(q) + 1] = a
      BY <1>3, AppendProperties, LenProperties
    <3> DEFINE r == Append(q, a)
    <3> HIDE DEF r
    <3> QED  BY <3>1 DEF Range, r
  <2> QED  BY <1>1, <1>3, <2>1
<1> HIDE DEF online, a
<1>7. ASSUME NEW u \in wwrMembers' \ blocked', ReadsOnline(u)' # told'[u]
      PROVE  u \in Range(changedUsers')
  <2>1. u \in Users /\ told[u] \in BOOLEAN
    BY <1>1, <1>7 DEF TypeOK, PresenceTypeOK, WatchInv
  <2>2. CASE u # a
    <3>1. ReadsOnline(u) = ReadsOnline(u)'
      BY <1>5, <2>2 DEF ReadsOnline
    <3> QED  BY <1>1, <1>2, <1>3, <1>6, <1>7, <3>1 DEF Tracked
  <2>3. CASE u = a
    <3>1. a \notin DOMAIN pendingAdds /\ a \in wwrMembers
      BY <1>1, <1>2, <1>3, <1>7, <2>3 DEF Tracked
    <3>2. CASE ReadsOnline(a) # told[a]
      BY <1>1, <1>2, <1>3, <1>6, <1>7, <2>3, <3>2 DEF Tracked
    <3>3. CASE ReadsOnline(a) = told[a]
      <4>1. ReadsOnline(a)' # ReadsOnline(a)
        BY <1>2, <1>7, <2>3, <3>3
      <4>2. ReadsOnline(a) # online
        BY <1>5, <4>1 DEF ReadsOnline, online
      <4> QED  BY <1>6, <2>3, <3>1, <4>2 DEF IsNews
    <3> QED  BY <3>2, <3>3
  <2> QED  BY <2>2, <2>3
<1> QED  BY <1>1, <1>2, <1>3, <1>4, <1>7 DEF Tracked

\* What is left of a queue when its head is told.
LEMMA TailRange ==
    ASSUME NEW q \in Seq(Users), q # <<>>
    PROVE  /\ Head(q) \in Users
           /\ \A u \in Range(q) : u = Head(q) \/ u \in Range(Tail(q))
<1> DEFINE r == Tail(q)
           h == Head(q)
<1>1. /\ DOMAIN q = 1 .. Len(q) /\ Len(q) \in Nat /\ h = q[1] /\ h \in Users
      /\ DOMAIN r = 1 .. Len(q) - 1
      /\ \A i \in 1 .. Len(q) - 1 : r[i] = q[i + 1]
  BY HeadTailProperties, LenProperties
<1> HIDE DEF r, h
<1>2. ASSUME NEW u \in Range(q), u # h PROVE u \in Range(r)
  <2>1. PICK i \in DOMAIN q : u = q[i]
    BY DEF Range
  <2>2. i - 1 \in DOMAIN r /\ r[i - 1] = u
    BY <1>1, <1>2, <2>1
  <2> QED  BY <2>2 DEF Range
<1> QED  BY <1>1, <1>2 DEF r, h

\* NextChangedUserWWR tells what is known, and takes nobody else out.
LEMMA NextTracked ==
    ASSUME TypeOK, TypeOK', WatchInv, Sound, GameHears, Online', phase = "ONLINE",
           NextChangedUserWWR
    PROVE  Tracked'
<1>1. /\ UNCHANGED <<presence, wwrMembers, pendingAdds>> /\ pc' = "engine"
      /\ result'.op = "NextChangedUserWWR" /\ Tracked
      /\ phase' = "ONLINE"
  BY DEF Online, NextChangedUserWWR, Return, WatchInv
<1>2. blocked' = blocked /\ \A u : ReadsOnline(u)' = ReadsOnline(u)
  BY <1>1 DEF GameHears, Returned, ReadsOnline
<1>3. CASE changedUsers = <<>>
  <2>1. result'.about = Nobody /\ changedUsers' = changedUsers
    BY <1>3 DEF NextChangedUserWWR, Return
  <2>2. told' = told
    BY <1>1, <2>1 DEF GameHears, Returned
  <2> QED  BY <1>1, <1>2, <2>1, <2>2 DEF Tracked
<1>4. CASE changedUsers # <<>>
  <2> DEFINE h == Head(changedUsers)
             t == Tail(changedUsers)
  <2>1. result'.about = h /\ result'.ok = ReadsOnline(h) /\ changedUsers' = t
    BY <1>4 DEF NextChangedUserWWR, Return
  <2>2. h \in Users /\ \A u \in Range(changedUsers) : u = h \/ u \in Range(t)
    BY <1>4, TailRange DEF TypeOK, PresenceTypeOK
  <2> HIDE DEF h, t
  <2>3. h # Nobody
    BY <2>2, SubjectAssumption
  <2>4. told' = [told EXCEPT ![h] = ReadsOnline(h)]
    BY <1>1, <2>1, <2>3 DEF GameHears, Returned
  <2>5. ASSUME NEW u \in wwrMembers \ blocked, ReadsOnline(u) # told'[u]
        PROVE  u \in Range(t)
    <3>1. u \in Users /\ told \in [Users -> BOOLEAN]
      BY DEF TypeOK, PresenceTypeOK, WatchInv
    <3>2. u # h /\ told'[u] = told[u]
      BY <2>2, <2>4, <2>5, <3>1
    <3> QED  BY <1>1, <2>2, <2>5, <3>2 DEF Tracked
  <2> QED  BY <1>1, <1>2, <2>1, <2>5 DEF Tracked
<1> QED  BY <1>3, <1>4

\* AddToWWR and its return tell what is known, or wait.
LEMMA ReturnAddTracked ==
    ASSUME TypeOK, TypeOK', WatchInv, Sound, GameHears, Online', phase = "ONLINE",
           ReturnAddToWWR
    PROVE  Tracked'
<1> DEFINE a == call.arg
<1>1. /\ UNCHANGED <<presence, wwrMembers, changedUsers>> /\ pc' = "engine"
      /\ result'.op = "AddToWWR" /\ result'.arg = a /\ Tracked
      /\ phase' = "ONLINE"
  BY DEF Online, ReturnAddToWWR, Return, WatchInv
<1>2. \A u : ReadsOnline(u)' = ReadsOnline(u)
  BY <1>1 DEF ReadsOnline
<1> HIDE DEF a
<1>3. CASE result'.block
  <2>1. a \in DOMAIN pendingAdds /\ pendingAdds' = pendingAdds
    BY <1>3 DEF ReturnAddToWWR, Return, a
  <2>2. blocked' = blocked \cup {a} /\ told' = told
    BY <1>1, <1>3 DEF GameHears, Returned
  <2> QED  BY <1>1, <1>2, <2>1, <2>2 DEF Tracked
<1>4. CASE ~result'.block
  <2>1. pendingAdds' = Erase(pendingAdds, a)
    BY <1>4 DEF ReturnAddToWWR, Return, EndPendingAdd, a
  <2>2. DOMAIN pendingAdds' = DOMAIN pendingAdds \ {a}
    BY <2>1, DomainFact
  <2>3. blocked' = blocked \ {a}
    BY <1>1, <1>4 DEF GameHears, Returned
  <2>4. told' = [told EXCEPT ![a] = ReadsOnline(a)]
    <3>1. told' = [told EXCEPT ![result'.arg] = (ReadsOnline(result.arg))']
      BY <1>1, <1>4 DEF GameHears, Returned
    <3> QED  BY <1>1, <3>1 DEF ReadsOnline
  <2>5. ASSUME NEW u \in wwrMembers \ blocked', ReadsOnline(u) # told'[u]
        PROVE  u \in Range(changedUsers)
    <3>1. u \in Users /\ told \in [Users -> BOOLEAN]
      BY DEF TypeOK, PresenceTypeOK, WatchInv
    <3>2. u # a /\ told'[u] = told[u]
      BY <2>4, <2>5, <3>1
    <3> QED  BY <1>1, <2>3, <2>5, <3>2 DEF Tracked
  <2> QED  BY <1>1, <1>2, <2>2, <2>3, <2>5 DEF Tracked
<1> QED  BY <1>3, <1>4

LEMMA AddTracked ==
    ASSUME TypeOK, TypeOK', WatchInv, Sound, GameHears, Online, Online',
           NEW a \in Users, AddToWWR(a)
    PROVE  Tracked'
<1>1. /\ UNCHANGED <<presence, changedUsers>> /\ Tracked
      /\ wwrMembers \subseteq wwrMembers' /\ wwrMembers' \subseteq wwrMembers \cup {a}
      /\ phase' = "ONLINE"
  BY DEF AddToWWR, WatchInv, Online
<1>2. \A u : ReadsOnline(u)' = ReadsOnline(u)
  BY <1>1 DEF ReadsOnline
<1>3. \/ /\ pc' = "engine" /\ result'.op = "AddToWWR" /\ result'.arg = a
         /\ ~result'.block /\ pendingAdds' = pendingAdds
         /\ a \notin DOMAIN pendingAdds \/ a \in Malformed
      \/ /\ pc' = "engine" /\ result'.op = "AddToWWR" /\ result'.arg = a
         /\ result'.block /\ pendingAdds' = Insert(pendingAdds, a, FALSE)
         /\ a \notin Malformed
      \/ /\ pc' = "pump" /\ pendingAdds' = pendingAdds /\ a \in DOMAIN pendingAdds
  <2>1. \/ /\ \E ok : Return("AddToWWR", a, FALSE, ok, Nobody)
           /\ pendingAdds' = pendingAdds
           /\ a \notin DOMAIN pendingAdds \/ a \in Malformed
        \/ /\ Return("AddToWWR", a, TRUE, FALSE, Nobody)
           /\ pendingAdds' = Insert(pendingAdds, a, FALSE) /\ a \notin Malformed
        \/ /\ RunPump("AddToWWR", a, 0)
           /\ pendingAdds' = pendingAdds /\ a \in DOMAIN pendingAdds
    BY DEF AddToWWR
  <2>2. ASSUME NEW block, NEW ok, Return("AddToWWR", a, block, ok, Nobody)
        PROVE  /\ pc' = "engine" /\ result'.op = "AddToWWR" /\ result'.arg = a
               /\ result'.block = block
    BY <2>2 DEF Return
  <2>3. RunPump("AddToWWR", a, 0) => pc' = "pump"
    BY DEF RunPump
  <2> QED  BY <2>1, <2>2, <2>3
<1>4. CASE /\ pc' = "engine" /\ result'.op = "AddToWWR" /\ result'.arg = a
           /\ ~result'.block /\ pendingAdds' = pendingAdds
           /\ a \notin DOMAIN pendingAdds \/ a \in Malformed
  <2>1. a \notin DOMAIN pendingAdds
    BY <1>1, <1>4 DEF Tracked
  <2>2. blocked' = blocked \ {a}
    BY <1>4 DEF GameHears, Returned
  <2>3. told' = [told EXCEPT ![a] = ReadsOnline(a)]
    <3>1. told' = [told EXCEPT ![result'.arg] = (ReadsOnline(result.arg))']
      BY <1>4 DEF GameHears, Returned
    <3> QED  BY <1>1, <1>4, <3>1 DEF ReadsOnline
  <2>4. ASSUME NEW u \in wwrMembers' \ blocked', ReadsOnline(u) # told'[u]
        PROVE  u \in Range(changedUsers)
    <3>1. u \in Users /\ told \in [Users -> BOOLEAN]
      BY DEF TypeOK, PresenceTypeOK, WatchInv
    <3>2. u # a /\ told'[u] = told[u]
      BY <2>3, <2>4, <3>1
    <3> QED  BY <1>1, <2>2, <2>4, <3>2 DEF Tracked
  <2> QED  BY <1>1, <1>2, <1>4, <2>1, <2>2, <2>4 DEF Tracked
<1>5. CASE /\ pc' = "engine" /\ result'.op = "AddToWWR" /\ result'.arg = a
           /\ result'.block /\ pendingAdds' = Insert(pendingAdds, a, FALSE)
           /\ a \notin Malformed
  <2>1. DOMAIN pendingAdds' = DOMAIN pendingAdds \cup {a}
    BY <1>5, DomainFact
  <2>2. blocked' = blocked \cup {a} /\ told' = told
    BY <1>5 DEF GameHears, Returned
  <2> QED  BY <1>1, <1>2, <1>5, <2>1, <2>2 DEF Tracked
<1>6. CASE pc' = "pump" /\ pendingAdds' = pendingAdds /\ a \in DOMAIN pendingAdds
  <2>1. blocked' = blocked /\ told' = told
    BY <1>6 DEF GameHears, Returned
  <2> QED  BY <1>1, <1>2, <1>6, <2>1 DEF Tracked
<1> QED  BY <1>3, <1>4, <1>5, <1>6

LEMMA RemoveTracked ==
    ASSUME TypeOK, TypeOK', WatchInv, Sound, GameHears, Online, Online',
           NEW a \in Users, RemoveFromWWR(a)
    PROVE  Tracked'
<1>1. /\ presence' = Erase(presence, a) /\ pendingAdds' = Erase(pendingAdds, a)
      /\ wwrMembers' = wwrMembers \ {a} /\ changedUsers' = changedUsers
      /\ pc' = "engine" /\ result'.op = "RemoveFromWWR" /\ result'.arg = a
      /\ Tracked /\ phase' = phase /\ phase = "ONLINE"
  BY DEF RemoveFromWWR, EndPendingAdd, WatchInv, Online, Return, sessionVars
<1>2. told' = told /\ blocked' = blocked \ {a}
  BY <1>1 DEF GameHears, Returned
<1>3. DOMAIN pendingAdds' = DOMAIN pendingAdds \ {a}
  BY <1>1, DomainFact
<1>4. \A u : u # a => ReadsOnline(u)' = ReadsOnline(u)
  BY <1>1 DEF ReadsOnline, Erase, Restrict
<1> QED  BY <1>1, <1>2, <1>3, <1>4 DEF Tracked

\* The world tells the game nothing and revives no socket.
LEMMA WorldWatch ==
    ASSUME TypeOK, WatchInv, WorldStep, UNCHANGED watchVars
    PROVE  WatchInv'
<1>1. conn'.state = conn.state
  BY EnvironmentFact DEF WorldStep, SameSocket
<1>2. /\ UNCHANGED <<phase, pc>> /\ UNCHANGED <<presence, wwrMembers, changedUsers>>
      /\ DOMAIN pendingAdds' = DOMAIN pendingAdds /\ UNCHANGED <<told, blocked, revived>>
  BY DEF WorldStep, watchVars
<1>3. Online' = Online /\ Sound' = Sound
  BY <1>1, <1>2 DEF Online, Sound, IsConnected
<1>4. Tracked' = Tracked
  BY <1>2 DEF Tracked, NobodyOnline, ReadsOnline
<1> QED  BY <1>2, <1>3, <1>4 DEF WatchInv

\* The kinds of step in which a session goes on.
LEMMA OngoingKinds ==
    ASSUME TypeOK, FlightInv, SessionInv, LoginInv, phase = "ONLINE", phase' = "ONLINE",
           IsConnected(conn'),
           \/ CallStep \/ LossStep \/ TryStep \/ HelloStep \/ PumpSocket
           \/ ConsumeStep \/ RefuseStep \/ LoginStep
           \/ RegisterNextUser \/ RegistrationEnds \/ WatchStep
    PROVE  /\ IsConnected(conn)
           /\ \/ ~Tells /\ UNCHANGED presenceVars /\ pc' # "register"
              \/ RegisterNextUser \/ WatchStep
              \/ pc' = "process" /\ \E p : ProcessPresence(p)
<1>0. Written(conn, conn') => IsConnected(conn)
  BY DEF Written, IsConnected
<1>1. CASE CallStep
  BY <1>1, TellsFact DEF CallStep, Aside, NotOnto, Online
<1>2. CASE LossStep \/ TryStep \/ HelloStep \/ RefuseStep \/ LoginStep
  BY <1>2 DEF LossStep, TryStep, HelloStep, RefuseStep, LoginStep
<1>3. CASE PumpSocket
  BY <1>3, PumpSocketHeard, TellsFact
<1>4. CASE ConsumeStep
  BY <1>0, <1>4, TellsFact DEF ConsumeStep
<1>5. CASE RegisterNextUser \/ RegistrationEnds
  <2>1. Written(conn, conn')
    <3>1. conn \in Connection
      BY DEF TypeOK, SessionTypeOK
    <3> QED  BY <1>5, <3>1, WrittenFact DEF RegisterNextUser, RegistrationEnds
  <2>2. RegistrationEnds => UNCHANGED presenceVars /\ pc' = "process"
    BY DEF RegistrationEnds
  <2> QED  BY <1>0, <1>5, <2>1, <2>2, TellsFact
<1>6. CASE WatchStep
  BY <1>6, WatchKinds DEF Online
<1> QED  BY <1>1, <1>2, <1>3, <1>4, <1>5, <1>6

\* The kinds of step outside a session.
LEMMA OutsideKinds ==
    ASSUME TypeOK, FlightInv, SessionInv, LoginInv, phase # "ONLINE",
           \/ CallStep \/ LossStep \/ TryStep \/ HelloStep \/ PumpSocket
           \/ ConsumeStep \/ RefuseStep \/ LoginStep
           \/ RegisterNextUser \/ RegistrationEnds \/ WatchStep
    PROVE  LossStep \/ (Fades /\ (phase = "IDLE" \/ phase' # "IDLE"))
<1>1. CASE CallStep \/ TryStep \/ HelloStep \/ ConsumeStep \/ RefuseStep \/ LoginStep
  <2>1. UNCHANGED presenceVars
    BY <1>1 DEF CallStep, TryStep, HelloStep, ConsumeStep, RefuseStep, LoginStep
  <2>2. phase' = phase \/ phase' # "IDLE"
    BY <1>1 DEF CallStep, TryStep, HelloStep, ConsumeStep, RefuseStep, LoginStep
  <2> QED  BY <2>1, <2>2, FadesFact
<1>2. CASE PumpSocket
  BY <1>2, PumpSocketHeard, FadesFact
<1>3. CASE RegisterNextUser \/ RegistrationEnds
  BY <1>3 DEF RegisterNextUser, RegistrationEnds, SessionInv, PhaseMatchesSocket
<1>4. CASE WatchStep
  BY <1>4, WatchKinds, WatchFades DEF Online
<1> QED  BY <1>1, <1>2, <1>3, <1>4

\* A session begins with nobody online and its users still to be registered.
LEMMA LoginTracked ==
    ASSUME TypeOK, TypeOK', WatchInv, GameHears, LoginStep, ~revived'
    PROVE  Tracked'
<1>1. /\ phase = "AWAIT_HANDSHAKE" /\ phase' = "ONLINE" /\ pc' = "register"
      /\ UNCHANGED presenceVars /\ ~Tells
  BY TellsFact DEF LoginStep
<1>2. Sound /\ ~Online
  BY <1>1, HearsFact DEF WatchInv, Sound, Online
<1>3. NobodyOnline /\ DOMAIN pendingAdds = {}
  BY <1>1, <1>2 DEF WatchInv, Tracked
<1>4. \A u \in Users : ~told'[u]
  BY <1>1, <1>3, HearsFact DEF WatchInv, NobodyOnline
<1>5. \A u : ReadsOnline(u)' = ReadsOnline(u)
  BY <1>1 DEF ReadsOnline, presenceVars
<1>6. /\ DOMAIN pendingAdds' = {} /\ wwrMembers' \subseteq Users
      /\ told' \in [Users -> BOOLEAN]
  BY <1>1, <1>3, HearsFact DEF presenceVars, TypeOK, PresenceTypeOK, WatchInv
<1>7. \A u \in Users : ReadsOnline(u)' = FALSE /\ told'[u] = FALSE
  BY <1>3, <1>4, <1>5, <1>6 DEF NobodyOnline, ReadsOnline
<1>8. NobodyOnline'
  BY <1>7 DEF NobodyOnline, ReadsOnline
<1> QED  BY <1>6, <1>7, <1>8 DEF Tracked

\* The watching invariant is inductive: a step of the manager.
LEMMA ManagerWatch ==
    ASSUME TypeOK, TypeOK', FlightInv, SessionInv, CallInv, LoginInv, WatchInv,
           GameCalls \/ ManagerSteps, GameHears
    PROVE  WatchInv'
<1>1. \/ CallStep \/ LossStep \/ TryStep \/ HelloStep \/ PumpSocket
      \/ ConsumeStep \/ RefuseStep \/ LoginStep
      \/ RegisterNextUser \/ RegistrationEnds \/ WatchStep
  BY GameKinds, ManagerKinds
<1>2. ASSUME Sound' PROVE Tracked'
  <2>1. ~revived' /\ (phase' = "ONLINE" => IsConnected(conn'))
    BY <1>2 DEF Sound
  <2>2. CASE phase' # "ONLINE"
    <3>1. CASE phase # "ONLINE"
      <4>1. LossStep \/ (Fades /\ (phase = "IDLE" \/ phase' # "IDLE"))
        BY <1>1, <3>1, OutsideKinds
      <4> QED  BY <2>1, <2>2, <3>1, <4>1, OfflineTracked
    <3>2. CASE phase = "ONLINE"
      <4>1. ~(phase' \in {"CONNECTING", "FAILED"})
        BY <2>1, <3>2, HearsFact DEF WatchInv
      <4>2. phase' = phase \/ LossStep
        <5>1. WatchStep \/ PumpSocket => phase' = phase
          BY WatchKinds, PumpSocketHeard
        <5>2. RegisterNextUser \/ RegistrationEnds => phase' = phase
          BY DEF RegisterNextUser, RegistrationEnds, sessionVars
        <5> QED  BY <1>1, <3>2, <4>1, <5>1, <5>2
                 DEF CallStep, TryStep, HelloStep, ConsumeStep, RefuseStep, LoginStep
      <4> QED  BY <2>1, <2>2, <3>2, <4>2, OfflineTracked
    <3> QED  BY <3>1, <3>2
  <2>3. CASE phase # "ONLINE" /\ phase' = "ONLINE"
    <3>1. WatchStep \/ PumpSocket => phase' = phase
      BY WatchKinds, PumpSocketHeard
    <3>2. RegisterNextUser \/ RegistrationEnds => phase' = phase
      BY DEF RegisterNextUser, RegistrationEnds, sessionVars
    <3>3. LoginStep
      BY <1>1, <2>3, <3>1, <3>2
         DEF CallStep, LossStep, TryStep, HelloStep, ConsumeStep, RefuseStep
    <3> QED  BY <2>1, <3>3, LoginTracked
  <2>4. CASE phase = "ONLINE" /\ phase' = "ONLINE"
    <3>1. /\ IsConnected(conn)
          /\ \/ ~Tells /\ UNCHANGED presenceVars /\ pc' # "register"
             \/ RegisterNextUser \/ WatchStep
             \/ pc' = "process" /\ \E p : ProcessPresence(p)
      BY <1>1, <2>1, <2>4, OngoingKinds
    <3>2. Sound /\ Online /\ Online'
      BY <2>1, <2>4, <3>1, HearsFact DEF Sound, Online, WatchInv
    <3>3. WatchStep => Tracked'
      BY <2>4, <3>2, NextTracked, ReturnAddTracked, AddTracked, RemoveTracked DEF WatchStep
    <3> QED  BY <2>4, <3>1, <3>2, <3>3, QuietTracked, RegisterTracked, PresenceTracked
  <2> QED  BY <2>2, <2>3, <2>4
<1> QED  BY <1>2, HearsFact DEF WatchInv

LEMMA StepWatch ==
    ASSUME TypeOK, TypeOK', FlightInv, SessionInv, CallInv, LoginInv, WatchInv,
           [WatchNext]_<<vars, watchVars>>
    PROVE  WatchInv'
<1>1. CASE (GameUsesSpool \/ TimePasses \/ Environment) /\ UNCHANGED watchVars
  BY <1>1, WorldKinds, WorldWatch
<1>2. CASE UNCHANGED <<vars, watchVars>>
  <2>1. UNCHANGED vars /\ UNCHANGED watchVars
    BY <1>2
  <2> QED  BY <2>1, WorldKinds, WorldWatch
<1> QED  BY <1>1, <1>2, ManagerWatch DEF WatchNext

LEMMA InitWatch == Init /\ WatchInit => WatchInv
<1> SUFFICES ASSUME Init, WatchInit PROVE WatchInv
  OBVIOUS
<1>1. /\ phase = "IDLE" /\ wwrMembers = {} /\ presence = [u \in {} |-> FALSE]
      /\ pendingAdds = [u \in {} |-> FALSE]
      /\ told = [u \in Users |-> FALSE] /\ blocked = {} /\ ~revived
  BY DEF Init, PresenceInit, WatchInit
<1>2. NobodyOnline /\ DOMAIN pendingAdds = {}
  BY <1>1 DEF NobodyOnline, ReadsOnline
<1> QED  BY <1>1, <1>2 DEF WatchInv, Tracked

\* The game that watches users misses no change: whatever of it the manager
\* knows and has not said is queued for NextChangedUserWWR, or AddToWWR is
\* still to say it, however calls, packets, time-outs and lost connections
\* follow each other (UpdatePresence, AddToWWR, RemoveFromWWR).
THEOREM NoChangeIsLost == WatchSpec => []NoLostChange
<1>1. [WatchNext]_<<vars, watchVars>> => [Next]_vars
  BY DEF WatchNext, Next, vars
<1>2. TypeOK /\ SessionInv /\ [Next]_vars => SessionInv'
  BY StepSession
<1>3. TicketInv => CallInv
  BY DEF TicketInv
<1>4. TypeOK /\ TypeOK' /\ FlightInv /\ SessionInv /\ CallInv /\ LoginInv /\ [Next]_vars =>
        LoginInv'
  BY StepLogin
<1>5. TypeOK /\ TypeOK' /\ FlightInv /\ SessionInv /\ CallInv /\ LoginInv /\ WatchInv
      /\ [WatchNext]_<<vars, watchVars>> => WatchInv'
  BY StepWatch
<1>6. WatchInv => NoLostChange
  BY DEF WatchInv, Sound, Tracked, NoLostChange, Online
<1>7. WatchSpec => Spec
  BY <1>1, PTL DEF WatchSpec, Spec
<1> QED  BY <1>1, <1>2, <1>3, <1>4, <1>5, <1>6, <1>7, InitSession, InitLogin, InitWatch,
            WaitersKept, PTL DEF WatchSpec
=============================================================================
