---------------------------- MODULE MCGenpipeTx ----------------------------
(* Instances of GenpipeTx for TLC: two hexadecimal digits and a space.      *)
EXTENDS GenpipeTx, TLC

CONSTANT w1

OneWriter == {w1}
HexChars == {"1", "f", " ", "nl"}
MCHexVal == ("1" :> 1) @@ ("f" :> 15)
=============================================================================
