------------------------------ MODULE Counters ------------------------------
(***************************************************************************)
(* The millisecond clock, the tickets and the virtual socket numbers of    *)
(* DSNetManager, each over all of its range and past its end.  Virtual     *)
(* socket numbers have 16 bits in the code and the common width here.      *)
(***************************************************************************)
EXTENDS Words

CONSTANT Timeout  \* what is added to the clock for a deadline

ASSUME CounterAssumption == Timeout \in Nat /\ Timeout < Half

Draws == {"ticket", "VSN"}

VARIABLES now,        \* NowMs()
          armed,      \* NowMs() when the deadline was set
          elapsed,    \* how long ago that was
          drawing,    \* which of the two numbers is drawn
          number,     \* the last one drawn, 0 before the first
          noted,      \* one drawn before
          drawn       \* how many were drawn since that one

clockVars  == <<now, armed, elapsed>>
numberVars == <<drawing, number, noted, drawn>>

ClockInit == now \in 0 .. 2 * Half - 1 /\ armed = now /\ elapsed = 0

\* Mutant of TimeAfter: the clock values are compared as they are.
TimeReached(t, deadline) == t >= deadline

TimeAfter(t, deadline) == AsInt(AsUnsigned(t - deadline)) >= 0

\* Mutant of TimeOnline: the difference without the wrap of the clock.
PlainDifference(t, connectedAt) == t - connectedAt

\* timeOnline of GetStatus.
TimeOnline(t, connectedAt) == AsInt(AsUnsigned(t - connectedAt))

\* A millisecond passes; how long is looked at is bounded.
ClockTicks ==
    /\ elapsed < 2 * Half
    /\ now' = AsUnsigned(now + 1) /\ elapsed' = elapsed + 1
    /\ UNCHANGED armed

ClockSpec == ClockInit /\ [][ClockTicks]_clockVars

Deadline == AsUnsigned(armed + Timeout)

\* Mutant of NextTicket: zero is not skipped.
NextTicketPlain(n) == AsInt(n + 1)

\* The overflow of the signed counter wraps, as it is compiled.
NextTicket(n) == IF AsInt(n + 1) = 0 THEN AsInt(n + 2) ELSE AsInt(n + 1)

NextVSN(n) == IF AsUnsigned(n + 1) = 0 THEN 1 ELSE AsUnsigned(n + 1)

NumbersInit == drawing \in Draws /\ number = 0 /\ noted = 0 /\ drawn = 0

Draw ==
    /\ drawn < 2 * Half
    /\ number' = IF drawing = "ticket" THEN NextTicket(number) ELSE NextVSN(number)
    /\ drawn' = drawn + 1
    /\ UNCHANGED <<drawing, noted>>

NoteNumber ==
    /\ number # noted
    /\ noted' = number /\ drawn' = 0
    /\ UNCHANGED <<drawing, number>>

NumbersSpec == NumbersInit /\ [][Draw \/ NoteNumber]_numberVars

-----------------------------------------------------------------------------
\* A deadline has passed exactly when its time is over, wherever the clock
\* wraps, if somebody looks before half of the clock's range is over
\* (TimeAfter).
DeadlineExact ==
    elapsed < Timeout + Half => (TimeAfter(now, Deadline) <=> elapsed >= Timeout)

\* The time online is the time since the login, wherever the clock wraps, for
\* half of the clock's range; after that it is negative (GetStatus).
TimeOnlineExact ==
    /\ elapsed < Half => TimeOnline(now, armed) = elapsed
    /\ Half <= elapsed /\ elapsed < 2 * Half => TimeOnline(now, armed) < 0

\* No ticket is zero, which is no ticket, and no virtual socket number is
\* zero, which is a failure; neither comes again before all the others were
\* drawn (NextTicket, NextVSN).
NumbersAreFresh ==
    /\ noted # 0 \/ drawn > 0 => number # 0
    /\ noted # 0 /\ 0 < drawn /\ drawn < 2 * Half - 1 => number # noted
=============================================================================
