--------------------------- MODULE BlockingQueries --------------------------
(***************************************************************************)
(* What the block-and-poll queries of DSNetManager promise a game whose    *)
(* scripts block on them: a question is asked once, keeps saying block     *)
(* while the server's answer is awaited, and ends with one final answer,   *)
(* which is either about what was asked or nothing at all.                 *)
(***************************************************************************)
CONSTANTS Question,  \* what can be asked
          Topic,     \* question -> the subjects an answer may be about
          Nothing    \* the answer of a query that failed, and no answer

VARIABLES asked,     \* questions whose answer is awaited
          answer     \* what the last call to return said

Init == asked = {} /\ answer = Nothing

Blocked(q)  == [question |-> q, block |-> TRUE, about |-> Nothing]
Final(q, x) == [question |-> q, block |-> FALSE, about |-> x]

\* The call that asks; a synchronous caller sees nothing yet.
Ask(q) ==
    /\ q \notin asked
    /\ asked' = asked \cup {q}
    /\ answer' \in {Blocked(q), Nothing}

Poll(q) ==
    /\ q \in asked
    /\ asked' = asked
    /\ answer' \in {Blocked(q), Nothing}

Answer(q) ==
    /\ q \in asked
    /\ asked' = asked \ {q}
    /\ \E x \in Topic[q] \cup {Nothing} : answer' = Final(q, x)

\* A query that cannot be asked fails at once.
Refuse(q) ==
    /\ asked' = asked \ {q}
    /\ answer' = Final(q, Nothing)

\* Another method is called or returns.
Elsewhere == asked' = asked /\ answer' = Nothing

Next == Elsewhere \/ \E q \in Question : Ask(q) \/ Poll(q) \/ Answer(q) \/ Refuse(q)

Spec == Init /\ [][Next]_<<asked, answer>>
=============================================================================
