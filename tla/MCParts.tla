------------------------------- MODULE MCParts ------------------------------
(* The parts that can be checked alone, in one run: they share no state, so *)
(* an initial state chooses one of them and the others stay as they begin.  *)
EXTENDS SocketClient, NatsueFramer, ServerList, Counters, WireParsers,
        MCPacking, HistoryTransfer, SpoolNames

CONSTANTS a, b, h1, h2, e1, e2, m1  \* users, servers, life events, a moniker

VARIABLE part  \* the part that is looked at

Parts == {"socket", "framer", "servers", "clock", "numbers", "parsers",
          "packing", "history", "names"}

\* A packet of each kind of length, two of them too long to be believed.
Sent(type, ticket, extra, further) ==
    [type |-> type, ticket |-> ticket, extra |-> extra, further |-> further]
SmallPackets ==
    {Sent("MESSAGE", NoTicket, 0, 1), Sent("MESSAGE", NoTicket, 0, 2),
     Sent("HANDSHAKE_RESPONSE", NoTicket, 0, 0),
     Sent("HANDSHAKE_RESPONSE", NoTicket, 2, 0),
     Sent("VIRTUAL_CONNECT", NoTicket, 0, 0),
     Sent("VIRTUAL_CIRCUIT", NoTicket, 0, 1),
     Sent("MIGRATE", NoTicket, 0, 0), Sent("other", NoTicket, 0, 0),
     Sent("other", 1, 1, 0), Sent("MESSAGE", 1, 1, 1),
     Sent("other", 2, 0, 0), Sent("MESSAGE", 2, 1, 0)}

SmallLengths == {-8, -1, 0, 1, 3, 6, 7}

\* Every text of up to four characters, ids written in several ways and numbers
\* that no int holds among them.
SmallDigits    == <<"0", "1", "2">>
SmallSpellings == BoundedSeq({"0", "1", "2", "+", "-"}, 4)
SmallSenders   == [uid : {-8, -5, 0, 3, 7}, hid : {0, 4}]

PartsInit ==
    /\ part \in Parts
    /\ Init /\ FramerInit /\ ServerListInit /\ HistoryTransferInit
    /\ IF part = "clock" THEN ClockInit
       ELSE now = 0 /\ armed = 0 /\ elapsed = 0
    /\ IF part = "numbers" THEN NumbersInit
       ELSE drawing = "ticket" /\ number = 0 /\ noted = 0 /\ drawn = 0
    /\ IF part = "parsers" THEN parse \in Unparsed
       ELSE parse = [result |-> "none"]
    /\ IF part = "packing" THEN PackInit
       ELSE /\ packSize = 0 /\ buffer = <<>> /\ items = <<>>
            /\ sent = FALSE /\ message = <<>> /\ read = 0 /\ taken = <<>>
    /\ IF part = "names" THEN SpoolNamesInit
       ELSE user = Nothing /\ file = Nothing /\ found = Nothing

Socket   == part = "socket" /\ Next
Framer   == part = "framer" /\ FramerNext
Servers  == part = "servers" /\ ServerListNext
Clock    == part = "clock" /\ ClockTicks
Numbers  == part = "numbers" /\ (Draw \/ NoteNumber)
Parsers  == part = "parsers" /\ Parse
Packing  == part = "packing" /\ PackNext
History  == part = "history" /\ HistoryTransferNext
Names    == part = "names" /\ SpoolNamesNext

PartsNext ==
    \/ /\ Socket
       /\ UNCHANGED <<part, framerVars, serverListVars, clockVars, numberVars,
                      parse, packVars, historyTransferVars, spoolNameVars>>
    \/ /\ Framer
       /\ UNCHANGED <<part, conn, serverListVars, clockVars, numberVars,
                      parse, packVars, historyTransferVars, spoolNameVars>>
    \/ /\ Servers
       /\ UNCHANGED <<part, conn, framerVars, clockVars, numberVars, parse,
                      packVars, historyTransferVars, spoolNameVars>>
    \/ /\ Clock
       /\ UNCHANGED <<part, conn, framerVars, serverListVars, numberVars,
                      parse, packVars, historyTransferVars, spoolNameVars>>
    \/ /\ Numbers
       /\ UNCHANGED <<part, conn, framerVars, serverListVars, clockVars,
                      parse, packVars, historyTransferVars, spoolNameVars>>
    \/ /\ Parsers
       /\ UNCHANGED <<part, conn, framerVars, serverListVars, clockVars,
                      numberVars, packVars, historyTransferVars, spoolNameVars>>
    \/ /\ Packing
       /\ UNCHANGED <<part, conn, framerVars, serverListVars, clockVars,
                      numberVars, parse, historyTransferVars, spoolNameVars>>
    \/ /\ History
       /\ UNCHANGED <<part, conn, framerVars, serverListVars, clockVars,
                      numberVars, parse, packVars, spoolNameVars>>
    \/ /\ Names
       /\ UNCHANGED <<part, conn, framerVars, serverListVars, clockVars,
                      numberVars, parse, packVars, historyTransferVars>>

partsVars == <<part, conn, framerVars, serverListVars, clockVars, numberVars,
               parse, packVars, historyTransferVars, spoolNameVars>>

\* ServerListFairness where the servers are the part that is looked at.
PartsFairness ==
    /\ WF_serverListVars(\E reached \in BOOLEAN :
                           part = "servers" /\ StartConnecting(reached))
    /\ WF_serverListVars(/\ part = "servers" /\ attempt \in {"failed", "begun"}
                         /\ SessionEnds)

PartsSpec == PartsInit /\ [][PartsNext]_partsVars /\ PartsFairness
=============================================================================
