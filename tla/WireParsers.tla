----------------------------- MODULE WireParsers ----------------------------
(***************************************************************************)
(* ParseShortUserData and ParsePackedBabelMessage: which byte strings they *)
(* accept, in the arithmetic of an int.  A byte string is its size and the *)
(* lengths it holds; sizes are in units of which the fixed parts are small *)
(* numbers.                                                                *)
(***************************************************************************)
EXTENDS Words

CONSTANTS Fixed,   \* 24: the numbers a user's data and a message begin with
          C2E,     \* 12: the header of a C2E message after that
          Sizes,   \* sizes of what is parsed
          Lengths  \* lengths that occur in it

ASSUME ParserAssumption ==
    /\ Fixed \in Nat /\ C2E \in Nat /\ Fixed + C2E < Half
    /\ Sizes \subseteq 0 .. Half - 1 /\ Lengths \subseteq Ints

VARIABLE parse  \* what is parsed, and with what result

UserData == [kind : {"user"}, size : Sizes, total : Lengths,
             first : Lengths, last : Lengths, nick : Lengths]
Messages == [kind : {"message"}, size : Sizes, dataLen : Lengths]
Unparsed == [input : UserData \cup Messages, result : {"pending"}]

\* Mutant of ShortUserDataFits: the lengths are added up and compared once.
ShortUserDataSum(d) ==
    AsInt(AsInt(AsInt(Fixed + d.first) + d.last) + d.nick) <= d.size

\* Each length is compared with what those before it leave.
ShortUserDataFits(d) ==
    /\ d.first <= AsInt(d.size - Fixed)
    /\ d.last  <= AsInt(AsInt(d.size - Fixed) - d.first)
    /\ d.nick  <= AsInt(AsInt(AsInt(d.size - Fixed) - d.first) - d.last)

ParseShortUserData(d) ==
    /\ d.size >= Fixed
    /\ d.total <= d.size
    /\ d.first >= 0 /\ d.last >= 0 /\ d.nick >= 0
    /\ ShortUserDataFits(d)

ParsePackedBabelMessage(m) ==
    /\ m.size >= Fixed + C2E
    /\ C2E <= m.dataLen /\ m.dataLen <= AsInt(m.size - Fixed)

Parse ==
    /\ parse.result = "pending"
    /\ LET accepted == IF parse.input.kind = "user"
                       THEN ParseShortUserData(parse.input)
                       ELSE ParsePackedBabelMessage(parse.input)
       IN  parse' = [parse EXCEPT !.result =
                       IF accepted THEN "accepted" ELSE "refused"]

ParserSpec == parse \in Unparsed /\ [][Parse]_parse

-----------------------------------------------------------------------------
\* What is accepted lies inside the bytes that came, and nothing that does is
\* refused: no sum of lengths overflows into one that seems to fit
\* (ParseShortUserData, ParsePackedBabelMessage).
ParsesWhatFits ==
    parse.result \in {"accepted", "refused"} =>
      LET d == parse.input
      IN  parse.result = "accepted" <=>
            IF d.kind = "user"
            THEN /\ d.total <= d.size
                 /\ {d.first, d.last, d.nick} \subseteq Nat
                 /\ Fixed + d.first + d.last + d.nick <= d.size
            ELSE d.dataLen >= C2E /\ Fixed + d.dataLen <= d.size
=============================================================================
