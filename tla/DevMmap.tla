------------------------------ MODULE DevMmap ------------------------------
(***************************************************************************)
(* pmem_mmap and kmem_mmap, the same function in both drivers: the pages   *)
(* of the new area are mapped one by one, each to the frame that           *)
(* vmalloc_to_pfn gives the kernel virtual page of the same position.      *)
(* The offset is a virtual address in pmem too, where read and write take  *)
(* a physical one.  The kernel may free and reuse vmalloc pages meanwhile. *)
(***************************************************************************)
EXTENDS Integers

CONSTANTS
    NPages,       \* pages of the kernel's virtual address space (2^52)
    VFrames,      \* frames that vmalloc pages may have
    JunkFrame,    \* what page_to_pfn(NULL) is: the page has no translation
    AreaPages,    \* pages of the process's address space at hand
    MaxVchanges   \* bound on the kernel's changes

ASSUME MmapAssumption ==
    /\ NPages \in Nat \ {0} /\ AreaPages \in Nat \ {0} /\ MaxVchanges \in Nat
    /\ JunkFrame \notin VFrames

NotMapped == "not mapped"

VARIABLES
    mmapPc,    \* "idle", "loop", "mapped" or "failed"
    vpage,     \* the kernel's translation of its virtual pages
    area,      \* the process's translation of its pages
    vma,       \* the area's first page and its length
    vm_pgoff,
    start, pos, size,   \* the loop's variables, in pages
    vchanges,
    had        \* history: the translations that each kernel page had during the call

mmapVars == <<mmapPc, vpage, area, vma, vm_pgoff, start, pos, size, vchanges, had>>

Translation == VFrames \union {JunkFrame}

MmapInit ==
    /\ mmapPc = "idle"
    /\ vpage = [v \in 0..(NPages - 1) |-> JunkFrame]
    /\ area = [a \in 0..(AreaPages - 1) |-> NotMapped]
    /\ vma = [first |-> 0, len |-> 0] /\ vm_pgoff = 0
    /\ start = 0 /\ pos = 0 /\ size = 0 /\ vchanges = 0
    /\ had = [v \in 0..(NPages - 1) |-> {}]

(* The kernel has chosen the area, its own pages are as they are.  An      *)
(* offset whose address does not fit into 64 bits is refused before        *)
(* anything is mapped.                                                     *)
MmapStart ==
    /\ mmapPc = "idle"
    /\ \E first \in 0..(AreaPages - 1), pgoff \in 0..NPages :
       \E len \in 1..(AreaPages - first) :
          /\ vma' = [first |-> first, len |-> len]
          /\ vm_pgoff' = pgoff
          /\ IF pgoff > NPages - 1
             THEN mmapPc' = "failed" /\ UNCHANGED <<start, pos, size>>
             ELSE mmapPc' = "loop" /\ start' = first /\ pos' = pgoff /\ size' = len
    /\ vpage' \in [0..(NPages - 1) -> Translation]
    /\ had' = [v \in 0..(NPages - 1) |-> {vpage'[v]}]
    /\ UNCHANGED <<area, vchanges>>

(* Faulty variant: every page is mapped to the first page's frame. *)
MapOnePageAgain ==
    /\ mmapPc = "loop" /\ size > 0
    /\ area' = [area EXCEPT ![start] = vpage[vm_pgoff]]
    /\ start' = start + 1 /\ pos' = (pos + 1) % NPages /\ size' = size - 1
    /\ UNCHANGED <<mmapPc, vpage, vma, vm_pgoff, vchanges, had>>

(* One turn of the loop; pos wraps around with its 64 bits *)
MapOnePage ==
    /\ mmapPc = "loop" /\ size > 0
    /\ area' = [area EXCEPT ![start] = vpage[pos]]
    /\ start' = start + 1 /\ pos' = (pos + 1) % NPages /\ size' = size - 1
    /\ UNCHANGED <<mmapPc, vpage, vma, vm_pgoff, vchanges, had>>

(* remap_pfn_range fails: -EAGAIN, and the kernel unmaps the area again *)
MapFails ==
    /\ mmapPc = "loop" /\ size > 0
    /\ area' = [a \in DOMAIN area |->
          IF a \in vma.first..(vma.first + vma.len - 1) THEN NotMapped ELSE area[a]]
    /\ mmapPc' = "failed"
    /\ UNCHANGED <<vpage, vma, vm_pgoff, start, pos, size, vchanges, had>>

MmapReturn ==
    /\ mmapPc = "loop" /\ size = 0
    /\ mmapPc' = "mapped"
    /\ UNCHANGED <<vpage, area, vma, vm_pgoff, start, pos, size, vchanges, had>>

(* vmalloc and vfree, on any CPU *)
Vchange ==
    /\ mmapPc = "loop" /\ vchanges < MaxVchanges
    /\ \E v \in 0..(NPages - 1), f \in Translation :
          /\ f # vpage[v]
          /\ vpage' = [vpage EXCEPT ![v] = f]
          /\ had' = [had EXCEPT ![v] = @ \union {f}]
    /\ vchanges' = vchanges + 1
    /\ UNCHANGED <<mmapPc, area, vma, vm_pgoff, start, pos, size>>

MmapNext == MmapStart \/ MapOnePage \/ MapFails \/ MmapReturn \/ Vchange

MmapSpec == MmapInit /\ [][MmapNext]_mmapVars

-----------------------------------------------------------------------------
(* After a successful mmap the k-th page of the area is mapped to a frame  *)
(* (or to the junk that stands for none) that the k-th kernel page from    *)
(* the offset on had during the call, past the end of the address space    *)
(* from its start again; no page outside the area is ever touched, and a   *)
(* failed call leaves nothing mapped.                                      *)
AreaMapped ==
    /\ mmapPc = "mapped" =>
          \A k \in 0..(vma.len - 1) : area[vma.first + k] \in had[(vm_pgoff + k) % NPages]
    /\ \A a \in DOMAIN area :
          (mmapPc = "failed" \/ a \notin vma.first..(vma.first + vma.len - 1)) =>
              area[a] = NotMapped
=============================================================================
