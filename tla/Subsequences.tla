--------------------------- MODULE Subsequences ---------------------------
(* Elements picked from a sequence. *)
EXTENDS Integers, Sequences, FiniteSets

(* The elements of s at a set of positions, in their order *)
ElementsAt(s, at) ==
    LET Nth(k) == CHOOSE i \in at : Cardinality({j \in at : j <= i}) = k
    IN  [k \in 1..Cardinality(at) |-> s[Nth(k)]]
=============================================================================
