----------------------------- MODULE MCPresence -----------------------------
(* Small instances of PresenceWatch for TLC.                               *)
EXTENDS PresenceWatch

CONSTANTS a, b  \* users

NoTargets == [x \in {} |-> Nobody]
WatchA == {<<>>, <<a>>}
=============================================================================
