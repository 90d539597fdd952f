----------------------------- MODULE SpoolNames ------------------------------
(***************************************************************************)
(* Who a spool file is for or from.  The directories know it only by the   *)
(* names of the files, <serial>T-<uid>+<hid>.warp, which ScanOutbox and    *)
(* the game read back.  A text is a sequence of characters; numbers are    *)
(* written with few digits, to any base.                                   *)
(***************************************************************************)
EXTENDS Words, Sequences, SequencesExt

CONSTANTS Digits,     \* the digits from zero on, as characters
          Serials,    \* serial numbers of files
          Spellings,  \* texts the game may name a user by
          Senders     \* users as they are on the wire

ASSUME NamesAssumption ==
    /\ Digits \in Seq(Range(Digits)) /\ Len(Digits) > 1
    /\ \A i, j \in DOMAIN Digits : Digits[i] = Digits[j] => i = j
    /\ Range(Digits) \cap {"+", "-", "."} = {}
    /\ Serials \subseteq Nat
    /\ \A spelling \in Spellings : spelling \in Seq(Range(spelling))
    /\ Senders \subseteq [uid : Ints, hid : Nat]

VARIABLES user,   \* a spelling for the outbox, a sender for the inbox
          file,   \* the name of the file, or Nothing before it has one
          found   \* the user its name was read to be for or from, or Nothing

spoolNameVars == <<user, file, found>>

Nothing == <<>>
Refused == <<"refused">>

OutboxUsers == [box : {"outbox"}, spelling : Spellings]
InboxUsers  == [box : {"inbox"}, sender : Senders]

SpoolNamesInit ==
    user \in OutboxUsers \cup InboxUsers /\ file = Nothing /\ found = Nothing

-----------------------------------------------------------------------------
(* Texts and numbers.                                                      *)

PlaceOf(char, text)     == SelectInSeq(text, LAMBDA c : c = char)
LastPlaceOf(char, text) == SelectLastInSeq(text, LAMBDA c : c = char)

\* What %u and %d print.
Numeral(n) ==
    LET upTo[i \in 0 .. n] ==
          IF i < Len(Digits) THEN <<Digits[i + 1]>>
          ELSE Append(upTo[i \div Len(Digits)], Digits[(i % Len(Digits)) + 1])
    IN  upTo[n]
Printed(n) == IF n < 0 THEN <<"-">> \o Numeral(-n) ELSE Numeral(n)

\* What atoi makes of digits: an int, the rest of the number cut off.
DigitOf(char) == PlaceOf(char, Digits) - 1
ValueOf(text) ==
    LET upTo[i \in 0 .. Len(text)] ==
          IF i = 0 THEN 0 ELSE upTo[i - 1] * Len(Digits) + DigitOf(text[i])
    IN  upTo[Len(text)]
Atoi(text) == AsInt(ValueOf(text))

\* ToString.
IdText(u) == Printed(u.uid) \o <<"+">> \o Printed(u.hid)

\* Mutant of IsUserId: the halves may be any text.
HasTwoHalves(text) ==
    LET plus == PlaceOf("+", text)
    IN  plus > 1 /\ plus < Len(text)

\* Two halves of digits and one plus between them.
IsUserId(text) ==
    LET plus == PlaceOf("+", text)
    IN  /\ plus > 1 /\ plus < Len(text)
        /\ \A i \in DOMAIN text \ {plus} : text[i] \in Range(Digits)

UidOf(text) == SubSeq(text, 1, PlaceOf("+", text) - 1)
HidOf(text) == SubSeq(text, PlaceOf("+", text) + 1, Len(text))
FromString(text) == [uid |-> Atoi(UidOf(text)), hid |-> Atoi(HidOf(text))]

SpoolName(serial, u) ==
    Printed(serial) \o <<"T", "-">> \o IdText(u) \o <<".", "warp">>

\* The text behind the last dash and before the last dot.
UserFromSpoolName(name) ==
    LET dot  == LastPlaceOf(".", name)
        dash == LastPlaceOf("-", name)
        text == SubSeq(name, dash + 1, dot - 1)
    IN  IF dash > 0 /\ dash + 1 < dot /\ IsUserId(text) THEN text ELSE Refused

-----------------------------------------------------------------------------
\* ReturnUniqueOutboxFilename, with a serial that is free.
ReturnUniqueOutboxFilename ==
    /\ user.box = "outbox" /\ file = Nothing
    /\ IF IsUserId(user.spelling)
       THEN \E serial \in Serials :
              file' = SpoolName(serial, FromString(user.spelling))
       ELSE file' = Refused
    /\ UNCHANGED <<user, found>>

\* The name SpoolPrayFile picks.
SpoolPrayFile ==
    /\ user.box = "inbox" /\ file = Nothing
    /\ \E serial \in Serials : file' = SpoolName(serial, user.sender)
    /\ UNCHANGED <<user, found>>

\* SendOutboxFile, or FindUserWhoSentFile for the game.
FindUser ==
    /\ file \notin {Nothing, Refused} /\ found = Nothing
    /\ found' = UserFromSpoolName(file)
    /\ UNCHANGED <<user, file>>

SpoolNamesNext == ReturnUniqueOutboxFilename \/ SpoolPrayFile \/ FindUser

SpoolNamesSpec == SpoolNamesInit /\ [][SpoolNamesNext]_spoolNameVars

-----------------------------------------------------------------------------
FitsAnInt(text) == ValueOf(UidOf(text)) < Half /\ ValueOf(HidOf(text)) < Half

\* A creature goes to the user the game named, however it spelled the id, and
\* one that came is from the user who sent it, as long as the numbers are
\* those of an int and not negative: a dash too many would hide the real one
\* (ReturnUniqueOutboxFilename, UserFromSpoolName, FromString).
NamedUserIsFound ==
    found # Nothing =>
      IF user.box = "outbox"
      THEN FitsAnInt(user.spelling) =>
             found # Refused /\ FromString(found) = FromString(user.spelling)
      ELSE user.sender.uid >= 0 => found = IdText(user.sender)
=============================================================================
