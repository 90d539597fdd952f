---------------------------- MODULE MemoryPacking ---------------------------
(***************************************************************************)
(* NetMemoryPack and NetMemoryUnpack: a pack of a size given beforehand,   *)
(* and the unpacking of a message: what arrives of it, or other bytes.     *)
(* An int is two bytes here.                                               *)
(***************************************************************************)
EXTENDS Words, Sequences, SequencesExt

CONSTANTS Base,         \* values of a byte
          PackSizes,    \* sizes a pack is made with
          PackInts, PackStrings,  \* what is packed
          Foreign,      \* messages the peer makes without NetMemoryPack
          MaxItems      \* bound: items in a pack

ASSUME PackAssumption ==
    /\ Base \in Nat /\ 2 * Half = Base * Base
    /\ PackSizes \subseteq -1 .. Half - 1 /\ PackInts \subseteq Ints
    /\ PackStrings \subseteq BoundedSeq(0 .. Base - 1, Half - 1)
    /\ Foreign \subseteq BoundedSeq(0 .. Base - 1, Half - 1)

VARIABLES packSize,  \* mySize of the pack
          buffer,    \* the bytes of the pack, myUsed of them
          items,     \* what the caller packed
          sent,      \* has the pack been sent?
          message,   \* the bytes the receiver was given
          read,      \* myRead
          taken      \* what PackOut has returned so far

packVars == <<packSize, buffer, items, sent, message, read, taken>>

IntSize == 2
IntItems    == [kind : {"int"}, value : PackInts]
StringItems == [kind : {"string"}, value : PackStrings]
Failure     == [kind |-> "failure"]
Undefined   == [kind |-> "undefined"]

PackInit ==
    /\ \E size \in PackSizes : packSize = IF size < 0 THEN 0 ELSE size
    /\ buffer = <<>> /\ items = <<>>
    /\ sent = FALSE /\ message = <<>> /\ read = 0 /\ taken = <<>>

\* The bytes of an int, the lowest first, and the int of two bytes.
IntBytes(n) == <<AsUnsigned(n) % Base, AsUnsigned(n) \div Base>>
BytesInt(b) == AsInt(b[1] + Base * b[2])

\* PackIn of raw bytes: those that do not fit are dropped, all of them.  A sum
\* that overflows seems to fit.
PackIn(b, data) ==
    IF AsInt(Len(b) + Len(data)) > packSize THEN b ELSE b \o data

\* PackIn of a string: its length may fit where its characters do not.
PackInString(b, str) == PackIn(PackIn(b, IntBytes(Len(str))), str)

\* After bytes were written behind the pack nothing more is said of it.
Overrun == Len(buffer) > packSize

Pack(item) ==
    /\ ~sent /\ ~Overrun /\ Len(items) < MaxItems
    /\ buffer' = IF item.kind = "int" THEN PackIn(buffer, IntBytes(item.value))
                 ELSE PackInString(buffer, item.value)
    /\ items' = Append(items, item)
    /\ UNCHANGED <<packSize, sent, message, read, taken>>

\* The pack is sent.  The receiver unpacks what arrives of it, or something
\* else in its place.
Unpack(bytes) ==
    /\ ~sent /\ ~Overrun
    /\ bytes \in Foreign \/ IsPrefix(bytes, buffer)
    /\ sent' = TRUE /\ message' = bytes
    /\ UNCHANGED <<packSize, buffer, items, read, taken>>

Inside(cursor) == AsInt(cursor) <= Len(message)

\* PackOut of an int: no bytes are read unless all of them are there, as far as
\* the sum tells.
PackOutInt ==
    LET cursor == read + IntSize
    IN  IF ~Inside(cursor)
        THEN read' = read /\ taken' = Append(taken, Failure)
        ELSE /\ read' = AsInt(cursor)
             /\ taken' = Append(taken,
                  IF cursor <= Len(message)
                  THEN [kind  |-> "int",
                        value |-> BytesInt(SubSeq(message, read + 1, cursor))]
                  ELSE Undefined)

\* Mutant of StringFits: the characters are not waited for.
StringFitsUnchecked(len, cursor) == len >= 0

StringFits(len, cursor) == len >= 0 /\ Inside(cursor + len)

\* PackOut of a string: if its characters are not there, its length has been
\* read all the same.
PackOutString ==
    LET cursor == read + IntSize
        len    == BytesInt(SubSeq(message, read + 1, cursor))
    IN  IF ~Inside(cursor)
        THEN read' = read /\ taken' = Append(taken, Failure)
        ELSE IF cursor > Len(message)
        THEN read' = AsInt(cursor) /\ taken' = Append(taken, Undefined)
        ELSE IF ~StringFits(len, cursor)
        THEN read' = cursor /\ taken' = Append(taken, Failure)
        ELSE /\ read' = AsInt(cursor + len)
             /\ taken' = Append(taken,
                  IF cursor + len <= Len(message)
                  THEN [kind  |-> "string",
                        value |-> SubSeq(message, cursor + 1, cursor + len)]
                  ELSE Undefined)

\* The receiver asks for what the sender packed, in that order, until it is
\* told that there is no more.
Received ==
    \/ Len(taken) = Len(items)
    \/ taken # <<>> /\ Last(taken) \in {Failure, Undefined}

PackOut ==
    /\ sent /\ ~Received
    /\ IF items[Len(taken) + 1].kind = "int" THEN PackOutInt ELSE PackOutString
    /\ UNCHANGED <<packSize, buffer, items, sent, message>>

PackNext ==
    \/ \E item \in IntItems \cup StringItems : Pack(item)
    \/ \E n \in 0 .. Len(buffer) : Unpack(SubSeq(buffer, 1, n))
    \/ \E bytes \in Foreign : Unpack(bytes)
    \/ PackOut

PackSpec == PackInit /\ [][PackNext]_packVars

-----------------------------------------------------------------------------
\* What a caller has to make the pack large enough for.
SizeOf(item) == IntSize + (IF item.kind = "int" THEN 0 ELSE Len(item.value))
Size(s) ==
    LET upTo[i \in 0 .. Len(s)] ==
          IF i = 0 THEN 0 ELSE upTo[i - 1] + SizeOf(s[i])
    IN  upTo[Len(s)]
SizeNeeded == Size(items)

\* A pack that was made large enough is read back as it was packed; if it was
\* cut short, up to the first item that is not all there, where reading stops
\* with a failure and inside the bytes that arrived (PackIn, PackOut).
ReadsWhatWasPacked ==
    SizeNeeded <= packSize /\ sent /\ IsPrefix(message, buffer) =>
      /\ read \in 0 .. Len(message)
      /\ \A i \in DOMAIN taken :
           \/ taken[i] = items[i]
           \/ taken[i] = Failure /\ Len(message) < Len(buffer)

\* "a truncated or malicious message can never read out of bounds"
\* (NetMemoryUnpack.h:4-6), whatever its bytes (PackOut).
ReadsInsideTheBytes ==
    sent => /\ read \in 0 .. Len(message)
            /\ \A i \in DOMAIN taken : taken[i] # Undefined
=============================================================================
