----------------------------- MODULE MCManager ------------------------------
(* Small instances of DSNetManager for TLC.                                *)
EXTENDS DSNetManagerProperties

CONSTANTS a, b, f, g  \* users and files

NoTargets == [x \in {} |-> Nobody]
AllGood == [x \in {f} |-> a]
OneGoodOneBad == [x \in {f, g} |-> IF x = f THEN a ELSE Nobody]
NoWatchLists == {<<>>}
WatchA == {<<>>, <<a>>}
WatchBoth == {<<b, a>>}
=============================================================================
