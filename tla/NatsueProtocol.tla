--------------------------- MODULE NatsueProtocol ---------------------------
(***************************************************************************)
(* The packets of the NetBabel/Natsue wire protocol, at the level of whole *)
(* packets.  A packet keeps its type, its ticket, the one user or file it  *)
(* is about, the one bit a handler branches on, and how many units (the 16 *)
(* bytes of a status reply) stand between its header and its further data. *)
(***************************************************************************)
EXTENDS Naturals, Sequences, FiniteSets

CONSTANTS Users,    \* user ids, "uid+hid"
          Files,    \* names of warp files the game puts into the outbox
          Nobody    \* no user: an empty id

ASSUME SubjectAssumption == Nobody \notin Users \cup Files

Subject == Users \cup Files \cup {Nobody}

\* The requests the server answers with a reply that quotes their ticket.
TransactionRequests ==
    {"GET_CLIENT_INFO", "GET_CONNECTION_DETAIL", "GET_STATUS",
     "DS_FETCH_RANDOM_USER", "DS_FEED_HISTORY"}

\* What the client sends.
ClientPackets ==
    TransactionRequests \cup
    {"HANDSHAKE", "ADD_WWR_ENTRY", "REMOVE_WWR_ENTRY", "MESSAGE",
     "VIRTUAL_CONNECT_ACCEPT"}

PresencePackets == {"USER_ONLINE", "USER_OFFLINE", "ONLINE_CHANGE"}

\* Packets whose length the client knows and whose content it ignores.
\* MALFORMED is a message or a change of presence that does not parse.
IgnoredPackets ==
    {"CLIENT_COMMAND", "VIRTUAL_CIRCUIT", "VIRTUAL_CIRCUIT_CLOSE", "MIGRATE",
     "MALFORMED"}

\* What the server sends of its own accord.  UNKNOWN stands for a type the
\* client has no length for and for a length field out of range.
UnsolicitedPackets ==
    PresencePackets \cup IgnoredPackets \cup
    {"MESSAGE", "VIRTUAL_CONNECT", "UNKNOWN"}

\* RESPONSE is any transaction reply: the type field of a reply is not
\* reliable, so a reply is known by its ticket or not at all.
ServerPackets == UnsolicitedPackets \cup {"HANDSHAKE_RESPONSE", "RESPONSE"}

\* Server packets that are about a user.
SubjectPackets == PresencePackets \cup {"MESSAGE", "VIRTUAL_CONNECT"}

Packet == [type   : ClientPackets \cup ServerPackets,
           about  : Subject,
           flag   : BOOLEAN,
           ticket : Nat,
           extra  : Nat]

ClientPacket == {p \in Packet : p.type \in ClientPackets}
ServerPacket == {p \in Packet :
                   /\ p.type \in ServerPackets
                   /\ p.type \in SubjectPackets => p.about \in Users}

\* A packet with no ticket, as the builders of one-way packets make it.
OneWay(type, about, flag) ==
    [type |-> type, about |-> about, flag |-> flag, ticket |-> 0, extra |-> 0]

\* BuildHandshake, BuildGetClientInfo and the other transactional builders.
Request(type, about, ticket) ==
    [type |-> type, about |-> about, flag |-> TRUE, ticket |-> ticket,
     extra |-> 0]

\* How long the server makes the part of a reply between the header and the
\* further data: only a status reply has one.
ReplyExtra(type) == IF type = "GET_STATUS" THEN 1 ELSE 0

\* The reply to a request, as the server builds it.
Reply(request, about, flag) ==
    [type |-> IF request.type = "HANDSHAKE" THEN "HANDSHAKE_RESPONSE"
                                            ELSE "RESPONSE",
     about |-> about, flag |-> flag, ticket |-> request.ticket,
     extra |-> ReplyExtra(request.type)]

\* The requests the server owes an answer to.
IsRequest(p) == p.type \in TransactionRequests \cup {"HANDSHAKE"}
=============================================================================
