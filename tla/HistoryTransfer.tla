--------------------------- MODULE HistoryTransfer --------------------------
(***************************************************************************)
(* HistoryTransferOut: the engine writes parts of a creature's history in  *)
(* any order and takes the blob, an address into a buffer and a length, to *)
(* feed it to the server.  A number or a string of the blob is one token.  *)
(***************************************************************************)
EXTENDS Naturals, Sequences, SequencesExt

CONSTANTS Texts,      \* monikers, names and user texts
          Events,     \* life events
          MaxWritten  \* bound: events and user texts written

NoText == ""

VARIABLES moniker, haveState, events, name, userTexts,  \* what was written
          serialised, blob,  \* mySerialised, myBuffer
          address,           \* the bytes GetAddress pointed to, or Null
          length,            \* what GetLength returned, or Unasked
          asWritten          \* what had been written when the blob was built

historyInput == <<moniker, haveState, events, name, userTexts>>
historyTransferVars ==
    <<historyInput, serialised, blob, address, length, asWritten>>

Null    == <<"null">>
Unasked == -1

HistoryTransferInit ==
    /\ moniker = NoText /\ haveState = FALSE /\ name = NoText
    /\ events = <<>> /\ userTexts = <<>>
    /\ serialised = FALSE /\ blob = <<>>
    /\ address = Null /\ length = Unasked
    /\ asWritten = <<>>

Built == <<serialised, blob, address, length, asWritten>>

WriteMoniker(t) ==
    /\ moniker' = t
    /\ UNCHANGED <<haveState, events, name, userTexts, Built>>
WriteCreatureHistory ==
    /\ haveState' = TRUE
    /\ UNCHANGED <<moniker, events, name, userTexts, Built>>
WriteName(t) ==
    /\ name' = t
    /\ UNCHANGED <<moniker, haveState, events, userTexts, Built>>
WriteLifeEvent(e) ==
    /\ Len(events) < MaxWritten
    /\ events' = Append(events, e)
    /\ UNCHANGED <<moniker, haveState, name, userTexts, Built>>
WriteUserText(t) ==
    /\ Len(userTexts) < MaxWritten
    /\ userTexts' = Append(userTexts, t)
    /\ UNCHANGED <<moniker, haveState, events, name, Built>>

\* The fields of each part in the order they are put.
StateFields == <<"sex", "genus", "variant", "pointMutations", "crossoverPoints">>
EventFields == <<"eventType", "worldTime", "ageTicks", "unixTime", "lifeStage",
                 "moniker1", "moniker2", "worldName", "worldID", "userID",
                 "solidIndex">>
TextFields  == <<"userText", "solidIndex">>

Fields(names, of) == [i \in DOMAIN names |-> <<names[i], of>>]
AllFields(names, list) ==
    FlattenSeq([i \in DOMAIN list |-> Fields(names, list[i])])

\* Mutant of StateTokens: the members are put in another order.
StateTokensReversed ==
    IF haveState THEN <<TRUE>> \o Reverse(Fields(StateFields, "creature"))
    ELSE <<FALSE>>

\* Serialise: the parts, each list behind its length.
StateTokens ==
    IF haveState THEN <<TRUE>> \o Fields(StateFields, "creature") ELSE <<FALSE>>
Serialisation ==
    <<moniker>> \o StateTokens
    \o <<Len(events)>> \o AllFields(EventFields, events)
    \o <<name>>
    \o <<Len(userTexts)>> \o AllFields(TextFields, userTexts)

\* Mutant of Serialise: the blob is built whenever it is asked for.
SerialiseAgain ==
    /\ serialised' = TRUE /\ blob' = Serialisation /\ asWritten' = historyInput

\* The blob is built once; what is written after that is not in it.
Serialise ==
    IF serialised THEN UNCHANGED <<serialised, blob, asWritten>>
    ELSE /\ serialised' = TRUE
         /\ blob' = Serialisation /\ asWritten' = historyInput

GetAddress ==
    /\ IF moniker = NoText
       THEN address' = Null /\ UNCHANGED <<serialised, blob, asWritten>>
       ELSE Serialise /\ address' = blob'
    /\ UNCHANGED <<historyInput, length>>

GetLength ==
    /\ IF moniker = NoText
       THEN length' = 0 /\ UNCHANGED <<serialised, blob, asWritten>>
       ELSE Serialise /\ length' = Len(blob')
    /\ UNCHANGED <<historyInput, address>>

HistoryTransferNext ==
    \/ \E t \in Texts \cup {NoText} : WriteMoniker(t) \/ WriteName(t)
    \/ \E t \in Texts : WriteUserText(t)
    \/ WriteCreatureHistory
    \/ \E e \in Events : WriteLifeEvent(e)
    \/ GetAddress \/ GetLength

HistoryTransferSpec ==
    HistoryTransferInit /\ [][HistoryTransferNext]_historyTransferVars

-----------------------------------------------------------------------------
\* The bytes an address was given for stay there, as they were, and a length
\* asked for before or after, with writes in between, is theirs
\* (GetAddress, GetLength, Serialise).
AddressAndLengthAgree ==
    /\ address # Null => address = blob
    /\ length \notin {Unasked, 0} => length = Len(blob)

\* Reading a blob by the layout of HistoryTransferOut.h:13-25.
TokensOf(names, n, from) ==
    [k \in 1 .. n |-> SubSeq(blob, from + (k - 1) * Len(names),
                                   from + k * Len(names) - 1)]
ReadsAs(tokens, names) ==
    Len(tokens) = Len(names) /\ \A i \in DOMAIN names : tokens[i][1] = names[i]

\* A reader that follows the layout gets what had been written when the blob
\* was built, whole and in order (Serialise).
BlobFollowsLayout ==
    serialised =>
      LET nEvents   == IF blob[2] THEN 3 + Len(StateFields) ELSE 3
          atName    == nEvents + 1 + blob[nEvents] * Len(EventFields)
          nTexts    == atName + 1
          state     == SubSeq(blob, 3, nEvents - 1)
          evs       == TokensOf(EventFields, blob[nEvents], nEvents + 1)
          texts     == TokensOf(TextFields, blob[nTexts], nTexts + 1)
      IN  /\ <<blob[1], blob[2], [k \in DOMAIN evs |-> evs[k][1][2]],
               blob[atName], [k \in DOMAIN texts |-> texts[k][1][2]]>> = asWritten
          /\ blob[2] => ReadsAs(state, StateFields)
          /\ \A k \in DOMAIN evs : ReadsAs(evs[k], EventFields)
          /\ \A k \in DOMAIN texts : ReadsAs(texts[k], TextFields)
          /\ Len(blob) = nTexts + blob[nTexts] * Len(TextFields)
=============================================================================
