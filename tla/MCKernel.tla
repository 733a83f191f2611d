----------------------------- MODULE MCKernel -----------------------------
(***************************************************************************)
(* The parts of the kernel modules that share no state with pmem's window  *)
(* or genpipe's lists and frames, for TLC: a behaviour exercises one of    *)
(* them.                                                                   *)
(***************************************************************************)
EXTENDS GenpipeStats, GenpipeAlloc, KallsymsScan, PageWalk, DevMmap, PciEnabler

VARIABLE running   \* the part that is exercised, or "none"

kernelVars == <<running, statVars, allocVars, scanVars, walkVars, mmapVars, pciVars>>

(* Symbols of both lengths, the driver's lines and others, none of which   *)
(* fits evenly into a half buffer                                          *)
MCKinds ==
    {[sym |-> "kfree_skb", tail |-> 2, len |-> 5], [sym |-> "ptype_all", tail |-> 5, len |-> 8],
     [sym |-> "tag", tail |-> 2, len |-> 6], [sym |-> "tag", tail |-> 2, len |-> 9],
     [sym |-> "other", tail |-> 1, len |-> 4], [sym |-> "other", tail |-> 1, len |-> 7]}

Init ==
    /\ running = "none"
    /\ StatInit /\ AllocInit /\ ScanInit /\ WalkInit /\ MmapInit /\ PciInit

Run(part, Step) ==
    /\ running \in {"none", part}
    /\ running' = part
    /\ Step

Next ==
    \/ Run("counters", StatNext)
          /\ UNCHANGED <<allocVars, scanVars, walkVars, mmapVars, pciVars>>
    \/ Run("alloc", AllocNext)
          /\ UNCHANGED <<statVars, scanVars, walkVars, mmapVars, pciVars>>
    \/ Run("kallsyms", ScanNext)
          /\ UNCHANGED <<statVars, allocVars, walkVars, mmapVars, pciVars>>
    \/ Run("get_pte", WalkNext)
          /\ UNCHANGED <<statVars, allocVars, scanVars, mmapVars, pciVars>>
    \/ Run("mmap", MmapNext)
          /\ UNCHANGED <<statVars, allocVars, scanVars, walkVars, pciVars>>
    \/ Run("pci_enabler", PciNext)
          /\ UNCHANGED <<statVars, allocVars, scanVars, walkVars, mmapVars>>

Spec == Init /\ [][Next]_kernelVars
=============================================================================
