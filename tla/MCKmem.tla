------------------------------ MODULE MCKmem ------------------------------
(***************************************************************************)
(* An instance of Kmem for TLC: three pages to a block.  Pages 0 to 2 are  *)
(* the user's (page 1 is not mapped), 9 is in the direct map, under a      *)
(* large page, so that its walk goes astray, 10 is kernel text and 11      *)
(* belongs to a module.                                                    *)
(***************************************************************************)
EXTENDS Kmem, TLC

CONSTANTS p1, p2, f1

MCProcs == {p1, p2}
MCFiles == {f1}
MCFileOf == (p1 :> f1) @@ (p2 :> f1)
MCPageTable ==
    [v \in 0..11 |-> CASE v = 0 -> 3 [] v = 2 -> 0 [] v = 9 -> 1 [] v = 10 -> 4 [] v = 11 -> 2
                       [] OTHER -> NULL]

Symmetry == Permutations(MCProcs)
=============================================================================
