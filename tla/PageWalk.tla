----------------------------- MODULE PageWalk -----------------------------
(***************************************************************************)
(* The page-table walks of the drivers: get_pte4 and get_pte5 of pmem and  *)
(* kmem, pmem's get_pte4 for aarch64, genpipe's get_pte and pci_enabler's  *)
(* any_v2p.  None of them takes the lock of the address space, so another  *)
(* thread may map, unmap, swap out or collapse the page between two steps  *)
(* of a walk (pmem_ioctl walks for any address of its caller).             *)
(*                                                                         *)
(* An entry is "none" (zero), "absent" (not zero and not present), a       *)
(* "table", a "large" page or a "page"; only what the walks tell apart is  *)
(* kept of it.  A walk is astray once it follows a pointer that is not (or *)
(* no longer) a page table's: it then reads any bytes, or faults.          *)
(***************************************************************************)
EXTENDS Integers, Sequences

CONSTANTS
    Walkers,     \* the walks: a subset of those of WalkAssumption
    HalfReg,     \* the bits of half a register (32)
    LA57,        \* the bit of CR4 that tells five levels from four (12)
    MaxChanges   \* bound on the other threads' changes during a walk

ASSUME WalkAssumption ==
    /\ Walkers \subseteq {"x86", "arm", "bypass", "v2p"}
    /\ HalfReg \in Nat /\ LA57 \in 0..(HalfReg - 1) /\ MaxChanges \in Nat

(* The powers of two, of which the provers know nothing. *)
ASSUME WalkPowers == \A b \in 0..(HalfReg - 1) : 2^b \in Nat \ {0} /\ 2^(b + 1) = 2 * 2^b

VARIABLES
    walkPc,        \* "boot", "load", "idle", "walk", "done" or "oops"
    walker,        \* the walk of the driver at hand
    cr4,           \* the register, with LA57 set on a machine with five levels
    paging_level,  \* the driver's variable
    path,          \* the entry of each level that the address selects, pgd first
    level,         \* the level the walk has come to
    again,         \* has get_pte5 read the last entry once already?
    astray,        \* does the walk read something that is not a table?
    ret,           \* the answer: "NULL", "entry", for any_v2p "PA" or "junk"
    changes,       \* how many changes the other threads made during the walk
    torn           \* history: did one of them take a table away?

walkVars == <<walkPc, walker, cr4, paging_level, path, level, again, astray, ret, changes, torn>>

Bit(n, b) == (n \div 2^b) % 2
MachineLevels == IF Bit(cr4, LA57) = 1 THEN 5 ELSE 4

(* The entries that level l (counted from the end: 0 is the pte) may hold *)
EntryKinds(l) ==
    CASE l = 0 -> {"none", "absent", "page"}
      [] l \in {1, 2} -> {"none", "absent", "table", "large"}
      [] OTHER -> {"none", "table"}

Paths == {q \in [1..MachineLevels -> {"none", "absent", "table", "large", "page"}] :
             \A l \in 1..MachineLevels : q[l] \in EntryKinds(MachineLevels - l)}

WalkInit ==
    /\ walkPc = "boot" /\ walker = "x86"
    /\ cr4 = 0 /\ paging_level = 0 /\ path = <<>> /\ level = 0
    /\ again = FALSE /\ astray = FALSE /\ ret = "none" /\ changes = 0 /\ torn = FALSE

(* A driver on a machine with four levels, or five if its walk knows them *)
Boot ==
    /\ walkPc = "boot"
    /\ walker' \in Walkers
    /\ cr4' \in IF walker' = "x86" THEN {0, 2^LA57} ELSE {0}
    /\ walkPc' = "load"
    /\ UNCHANGED <<paging_level, path, level, again, astray, ret, changes, torn>>

-----------------------------------------------------------------------------
(* get_cr34 stores the lower half of CR4 only: the upper half of its       *)
(* variable is what the stack held.                                        *)
get_cr34(stack) == (stack * 2^HalfReg) + (cr4 % 2^HalfReg)

get_paging_level ==
    /\ walkPc = "load"
    /\ \E stack \in {0, 1} :
          paging_level' = IF walker = "x86" /\ Bit(get_cr34(stack), LA57) = 1 THEN 5 ELSE 4
    /\ walkPc' = "idle"
    /\ UNCHANGED <<walker, cr4, path, level, again, astray, ret, changes, torn>>

(* get_pte(vaddr), for pmem_ioctl with its command 1 or another caller;    *)
(* the address may be mapped in any way                                    *)
WalkStart ==
    /\ walkPc = "idle"
    /\ path' \in Paths
    /\ level' = 1
    /\ walkPc' = "walk"
    /\ UNCHANGED <<walker, cr4, paging_level, again, astray, ret, changes, torn>>

Last == Len(path)
Height(l) == paging_level - l   \* 0 is the pte

(* What the walk reads at its level, and the levels it thinks there are *)
Seen == IF astray \/ level > Last THEN EntryKinds(Height(level)) ELSE {path[level]}

Return(answer) ==
    /\ walkPc' = "done" /\ ret' = answer
    /\ UNCHANGED <<level, again, astray>>

(* The pgd is not tested with four levels: where the p4d is folded into    *)
(* it, the kernel's pgd_none is constantly 0 and pgd_present 1.  get_pte4  *)
(* for x86 is always built so; the other walks may also be built with a    *)
(* kernel that has no p4d, and then they do test it.                       *)
Tested ==
    IF level > 1 \/ paging_level = 5 THEN {TRUE}
    ELSE IF walker = "x86" THEN {FALSE} ELSE BOOLEAN

(* The tests that end a walk above the pte.  get_pte4 and get_pte5 look    *)
(* for zero (bad never holds for a pgd or a p4d), ...                      *)
X86Stops(kind, tested) == tested /\ kind = "none"

(* Faulty variant: without the test for bad *)
ArmStopsAtNone(kind, tested) == tested /\ kind = "none"

(* ... the one for aarch64 for none or bad, ... *)
ArmStops(kind, tested) == tested /\ kind \in {"none", "absent", "large"}

(* ... genpipe's and any_v2p for present, and for large where there are. *)
PresentStops(kind, tested) == tested /\ (kind \in {"none", "absent"} \/ kind = "large")

Stops(kind, tested) ==
    CASE walker = "x86" -> X86Stops(kind, tested)
      [] walker = "arm" -> ArmStops(kind, tested)
      [] OTHER -> PresentStops(kind, tested)

(* One level above the pte.  any_v2p's paddr is not initialised when it    *)
(* gives up; genpipe's pte is still 0.                                     *)
WalkTable ==
    /\ walkPc = "walk" /\ Height(level) > 0
    /\ \E kind \in Seen, tested \in Tested :
          \/ Stops(kind, tested) /\ Return(IF walker = "v2p" THEN "junk" ELSE "NULL")
          \/ /\ ~Stops(kind, tested)
             /\ level' = level + 1
             /\ astray' = (astray \/ kind # "table" \/ level >= Last)
             /\ UNCHANGED <<walkPc, again, ret>>
    /\ UNCHANGED <<walker, cr4, paging_level, path, changes, torn>>

(* The pte: get_pte4 stops at none, ... *)
Pte4 ==
    /\ walker = "x86" /\ paging_level = 4
    /\ \E kind \in Seen : Return(IF kind = "none" THEN "NULL" ELSE "entry")

(* ... get_pte5 reads it once more, ... *)
Pte5 ==
    /\ walker = "x86" /\ paging_level = 5
    /\ \E kind \in Seen :
          IF kind = "none" /\ ~again
          THEN again' = TRUE /\ UNCHANGED <<walkPc, ret, level, astray>>
          ELSE Return(IF kind = "none" THEN "NULL" ELSE "entry")

(* ... aarch64 and genpipe return it whatever it holds, ... *)
PteUntested == walker \in {"arm", "bypass"} /\ Return("entry")

(* ... and any_v2p wants it present. *)
PteV2p ==
    /\ walker = "v2p"
    /\ \E kind \in Seen : Return(IF kind = "page" THEN "PA" ELSE "junk")

WalkPte ==
    /\ walkPc = "walk" /\ Height(level) = 0
    /\ Pte4 \/ Pte5 \/ PteUntested \/ PteV2p
    /\ UNCHANGED <<walker, cr4, paging_level, path, changes, torn>>

(* A read that goes astray may fault.  genpipe and any_v2p probe the       *)
(* address first (bad_address) and return 0.                               *)
WalkFault ==
    /\ walkPc = "walk" /\ astray
    /\ IF walker \in {"bypass", "v2p"} THEN Return("NULL")
       ELSE walkPc' = "oops" /\ UNCHANGED <<ret, level, again, astray>>
    /\ UNCHANGED <<walker, cr4, paging_level, path, changes, torn>>

(* Another thread of the process changes an entry of the pud, pmd or pte;  *)
(* a table that the walk has already gone through may be freed with it.    *)
Remap ==
    /\ walkPc = "walk" /\ changes < MaxChanges
    /\ \E l \in 1..Last, kind \in {"none", "absent", "table", "large", "page"} :
          /\ Last - l <= 2 /\ kind \in EntryKinds(Last - l) /\ kind # path[l]
          /\ path' = [path EXCEPT ![l] = kind]
          /\ astray' = (astray \/ (path[l] = "table" /\ l < level))
          /\ torn' = (torn \/ Last - l > 0)
    /\ changes' = changes + 1
    /\ UNCHANGED <<walkPc, walker, cr4, paging_level, level, again, ret>>

WalkNext == Boot \/ get_paging_level \/ WalkStart \/ WalkTable \/ WalkPte \/ WalkFault \/ Remap

WalkSpec == WalkInit /\ [][WalkNext]_walkVars

-----------------------------------------------------------------------------
(* The address is mapped by tables down to a present 4-kB page. *)
Mapped4K == \A l \in 1..Last : path[l] = IF l = Last THEN "page" ELSE "table"

(* An entry that a walk takes for a table: a large or an absent one, by    *)
(* get_pte4 and get_pte5, and with four levels an empty pgd, whose table   *)
(* is then looked for at the physical address 0                            *)
Misleading ==
    \/ walker = "x86" /\ \E l \in 1..(Last - 1) : path[l] \in {"large", "absent"}
    \/ Last = 4 /\ path[1] = "none"

(* The walks go through as many levels as the MMU.  With the tables in     *)
(* place (whatever happens to the pte meanwhile) a walk goes astray only   *)
(* after an entry that misleads it: an untested empty pgd, or for get_pte4 *)
(* and get_pte5 a large or absent entry above the pte.  An address mapped  *)
(* by a 4-kB page all the time is found, and the answer NULL means that it *)
(* was not mapped so.                                                      *)
WalkSound ==
    /\ walkPc \in {"idle", "walk", "done", "oops"} => paging_level = MachineLevels
    /\ ((astray \/ walkPc = "oops") /\ ~torn) => Misleading
    /\ (walkPc = "done" /\ changes = 0) =>
          /\ Mapped4K <=> (ret \in {"entry", "PA"} /\ ~astray /\ path[Last] = "page")
          /\ (walker = "x86" /\ ret = "entry" /\ ~astray) => path[Last] # "none"
=============================================================================
