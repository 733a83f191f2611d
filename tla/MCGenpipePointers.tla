------------------------- MODULE MCGenpipePointers -------------------------
(* An instance of GenpipePointers for TLC: two writers. *)
EXTENDS GenpipePointers

CONSTANTS w1, w2

TwoWriters == {w1, w2}
=============================================================================
