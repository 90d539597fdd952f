------------------------------ MODULE BytePipe ------------------------------
(***************************************************************************)
(* What a client of NetNatsueSocket counts on: while the pipe is up both   *)
(* ends read what the other end wrote, once each and in order; when it     *)
(* goes down some tail of either direction is lost, and what the client    *)
(* had received can still be read; a pipe that comes up is empty.          *)
(***************************************************************************)
EXTENDS Sequences, SequencesExt

CONSTANTS ClientItem, ServerItem  \* what either end writes

VARIABLES up, toServer, toClient

vars == <<up, toServer, toClient>>

Init == up = FALSE /\ toServer = <<>> /\ toClient = <<>>

\* A new pipe, in place of the one before if that was still up.
Open == up' = TRUE /\ toServer' = <<>> /\ toClient' = <<>>

ClientWrites(x) ==
    /\ up
    /\ toServer' = Append(toServer, x)
    /\ UNCHANGED <<up, toClient>>

ServerReads ==
    /\ up /\ toServer # <<>>
    /\ toServer' = Tail(toServer)
    /\ UNCHANGED <<up, toClient>>

ServerWrites(x) ==
    /\ up
    /\ toClient' = Append(toClient, x)
    /\ UNCHANGED <<up, toServer>>

ClientReads ==
    /\ toClient # <<>>
    /\ toClient' = Tail(toClient)
    /\ UNCHANGED <<up, toServer>>

\* Down, or down already and more of what was received is lost.
Break ==
    /\ up' = FALSE
    /\ toServer' = <<>>
    /\ IsPrefix(toClient', toClient)

Next ==
    \/ Open \/ Break \/ ServerReads \/ ClientReads
    \/ \E x \in ClientItem : ClientWrites(x)
    \/ \E x \in ServerItem : ServerWrites(x)

Spec == Init /\ [][Next]_vars
=============================================================================
