------------------------------ MODULE MCPmem ------------------------------
(* Instances of Pmem for TLC. *)
EXTENDS Pmem, TLC

CONSTANTS p1, p2, f1, f2

MCProcs == {p1, p2}
PrivateFiles == {f1, f2}
PrivateFileOf == (p1 :> f1) @@ (p2 :> f2)
SharedFiles == {f1}
SharedFileOf == (p1 :> f1) @@ (p2 :> f1)

(* Threads that share one file are interchangeable. *)
Symmetry == Permutations(MCProcs)

(* Threads with a file each may be exchanged together with their files. *)
PairSwap == (p1 :> p2) @@ (p2 :> p1) @@ (f1 :> f2) @@ (f2 :> f1)
PairSymmetry == {PairSwap, [x \in DOMAIN PairSwap |-> x]}
=============================================================================
