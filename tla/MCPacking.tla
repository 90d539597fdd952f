----------------------------- MODULE MCPacking ------------------------------
(* Packing and unpacking of small packs, and of messages nobody packed: a   *)
(* length past the end, a length near the largest int, and an empty string  *)
(* with a byte to spare.                                                    *)
EXTENDS MemoryPacking

SmallStrings == {<<>>, <<1>>, <<0, 3>>}
SmallInts    == {-1, 1, 6}
SmallSizes   == -1 .. 7
SmallForeign == {<<2, 0>>, <<3, 1>>, <<0, 0, 1>>}
=============================================================================
