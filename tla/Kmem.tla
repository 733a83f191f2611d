------------------------------- MODULE Kmem -------------------------------
(***************************************************************************)
(* The kmem driver: /dev/kmem gives access to virtual memory at the file's *)
(* position.  loff_t is signed and the VFS refuses negative positions, so  *)
(* kmem_llseek clears the top digit of the address and kmem_read and       *)
(* kmem_write put it back.  They translate the address first, through the  *)
(* page tables or (kernel text) by a fixed offset, and then use the window *)
(* of PageWindow; kmem_write collects the user's bytes in a local buffer   *)
(* before it touches the window.                                           *)
(*                                                                         *)
(* The width of an address is scaled to two binary digits above a block of *)
(* Block pages: the top digit stands for bits 60-63, the next one for bits *)
(* 56-59.  The canonical addresses are block 0 (user) and block 3 (kernel).*)
(* A position has lost its top digit, so it is below 2 * Block pages.      *)
(***************************************************************************)
EXTENDS PageWindow

CONSTANTS
    Block,       \* pages in a block
    TextStart,   \* page of 0xffffffff80000000, where kernel text begins
    ModuleStart, \* page of 0xffffffffc0000000, where module space begins
    TextFrame,   \* the frame of the first text page (phys_base)
    PageTable,   \* the frame that the page tables give each page, or NULL
    AstrayPages  \* the pages whose walk goes astray: below an entry for a large
                 \* page, or (with four levels) below an empty top-level entry

VPages == 0..(4 * Block - 1)

ASSUME BlockAssumption == Block \in Nat \ {0} /\ NFrames = 2 * Block
ASSUME LayoutAssumption == /\ TextStart \in 3 * Block .. 4 * Block
                           /\ ModuleStart \in TextStart .. 4 * Block
                           /\ TextFrame \in Nat
                           /\ TextFrame + (ModuleStart - TextStart) <= NFrames + Beyond + 1
ASSUME PageTableAssumption ==
    /\ PageTable \in [VPages -> Frames \union {NULL}]
    /\ AstrayPages \subseteq VPages

VARIABLE aimed   \* history: the address each file was asked to seek to

kvars == <<vars, aimed>>

WidthSize == 4 * Block * PageSize

(* f_pos &= 0x0fffffffffffffff *)
Masked(pos) == pos % (2 * Block * PageSize)

Canonical(v) == v \in 0..(Block - 1) \/ v \in 3 * Block .. (4 * Block - 1)

(* (f_pos & 0x0f00...) ? (f_pos | 0xf000...) : f_pos, on page numbers *)
SignExtended(v) == IF v >= Block THEN v + 2 * Block ELSE v

(* What get_pte(addr) may yield: it tests no entry for being a large page, *)
(* so below one it takes data for a table and returns whatever is there,   *)
(* which may be the number of a frame beyond physical memory.              *)
GetPte(v) == IF v \in AstrayPages THEN Entries \union {NULL} ELSE {PageTable[v]}

VirtToPhys(v) == TextFrame + (v - TextStart)

(* Faulty variant: the text range swallows module space. *)
PhysAddrNoModules(v) == IF v < TextStart THEN GetPte(v) ELSE {VirtToPhys(v) % NFrames}

PhysAddr(v) == IF v < TextStart \/ v >= ModuleStart THEN GetPte(v) ELSE {VirtToPhys(v)}

-----------------------------------------------------------------------------
Init == WindowInit /\ aimed = [f \in Files |-> 0]

(* kmem_llseek *)
Llseek(p, offset, whence) ==
    LET f == FileOf[p]
    IN  /\ MoveTo(p, Masked(Seek(fpos[f], offset, whence, WidthSize)))
        /\ aimed' = [aimed EXCEPT ![f] = Seek(aimed[f], offset, whence, WidthSize)]
        /\ UNCHANGED named

(* The address and copy_len, from f_pos, and then phy_addr from the address *)
Translate(p) ==
    LET v == SignExtended(FrameOf(fpos[FileOf[p]]))
    IN  /\ pc[p] = "clip"
        /\ \E frame \in PhysAddr(v) \ {NULL} :
              op' = [op EXCEPT ![p].len = ClippedLen(p), ![p].target = frame]
        /\ pc' = [pc EXCEPT ![p] = "save"]
        /\ UNCHANGED <<device, fpos, pte, tlb, mem, saved, data, aimed>>

(* get_pte found no entry and its null result is dereferenced: the kernel  *)
(* faults, and the caller dies before the window was touched.             *)
TranslateOops(p) ==
    LET v == SignExtended(FrameOf(fpos[FileOf[p]]))
    IN  /\ pc[p] = "clip" /\ NULL \in PhysAddr(v)
        /\ pc' = [pc EXCEPT ![p] = "dead"]
        /\ op' = [op EXCEPT ![p] = Idle]
        /\ UNCHANGED <<device, fpos, pte, tlb, mem, saved, data, aimed>>

Save(p) == SaveEntry(p) /\ UNCHANGED aimed

(* pte->pte = (phy_addr & ~0xfff) | (pte_save & 0xfff) *)
Map(p) == MapEntry(p, op[p].target) /\ UNCHANGED aimed

(* A read copies at once, a write first collects the user's bytes. *)
Aim(p) == AimCopy(p, IF op[p].kind = "read" THEN "copy" ELSE "stage") /\ UNCHANGED aimed

(* Faulty variant: the user's bytes go straight to the window. *)
StageSkipped(p) ==
    /\ UNCHANGED aimed
    /\ \/ /\ pc[p] = "stage"
          /\ pc' = [pc EXCEPT ![p] = "copy"]
          /\ UNCHANGED <<device, fpos, pte, tlb, mem, op, saved, data>>
       \/ pc[p] = "copy" /\ op[p].kind = "write" /\ MoreToCopy(p) /\ AbortCall(p)

(* copy_from_user(tbuf, buf, copy_len) succeeds, or the call returns -EFAULT *)
Stage(p) ==
    /\ pc[p] = "stage"
    /\ \/ /\ pc' = [pc EXCEPT ![p] = "copy"]
          /\ UNCHANGED <<device, fpos, pte, tlb, mem, op, saved, data>>
       \/ AbortCall(p)
    /\ UNCHANGED aimed

Copy(p) == (ReadByte(p) \/ \E v \in Values : WriteByte(p, v)) /\ UNCHANGED aimed

(* memcpy(paged_buf, tbuf): nothing catches its fault *)
WriteOops(p) ==
    /\ pc[p] = "copy" /\ op[p].kind = "write" /\ MoreToCopy(p) /\ ~Accessible(p)
    /\ Oops(p)
    /\ UNCHANGED aimed

Finish(p) == (FinishCall(p) \/ ReadFault(p)) /\ UNCHANGED aimed

Enter(p) ==
    /\ \E kind \in {"read", "write"}, count \in 0..MaxCount : EnterCall(p, kind, count)
    /\ UNCHANGED aimed

Lifetime ==
    \/ (LoadModule \/ UnloadModule) /\ UNCHANGED aimed
    \/ \E f \in Files : OpenFile(f) /\ aimed' = [aimed EXCEPT ![f] = 0]
    \/ \E f \in Files : ReleaseFile(f) /\ UNCHANGED aimed

Next ==
    \/ Lifetime
    \/ \E p \in Procs :
          \/ Enter(p) \/ Translate(p) \/ TranslateOops(p) \/ Save(p) \/ Map(p) \/ Aim(p)
          \/ Stage(p) \/ Copy(p) \/ WriteOops(p) \/ Finish(p)
          \/ \E offset \in 0..(WidthSize - 1), whence \in Whences : Llseek(p, offset, whence)
          \/ (TlbFill(p) \/ TlbEvict(p)) /\ UNCHANGED aimed

Spec == Init /\ [][Next]_kvars

-----------------------------------------------------------------------------
(* Every variable has its type: kmem_llseek leaves a masked address, which *)
(* the VFS never refuses and whose sign-extended page the tables know, so  *)
(* that translating it yields a frame.                                     *)
TypeOK ==
    /\ WindowTypeOK
    /\ fpos \in [Files -> Addrs]
    /\ \A p \in Procs : op[p].pos \in Addrs
    /\ aimed \in [Files -> 0..(WidthSize - 1)]

(* virt_to_phys is right about a page: the kernel's text is mapped in one  *)
(* piece there, and nothing else lies in its range.                        *)
TextLinear(v) == v \in TextStart .. (ModuleStart - 1) => PageTable[v] = VirtToPhys(v)

(* kmem_read and kmem_write reach the byte at the virtual address that was *)
(* passed to llseek (SEEK_CUR adds up from there), whichever way it is     *)
(* translated, when that address is canonical: the masking in kmem_llseek  *)
(* loses nothing.  Four things break this and are excluded: a page whose   *)
(* walk goes astray, a page in the range of the text that virt_to_phys is  *)
(* wrong about, a walk for paged_buf that failed (the code copies anyway), *)
(* and a CPU that still caches the window's old entry.                     *)
AccessHitsTarget ==
    \A p \in Procs :
        LET v == FrameOf(aimed[FileOf[p]])
        IN  (/\ Canonical(v) /\ v \notin AstrayPages /\ TextLinear(v)
             /\ op[p].found /\ tlb[p] = NULL) =>
                HitsTarget(p, PageTable[v] * PageSize + OffsetOf(op[p].pos) + Len(data[p]))

(* The entry of paged_buf is back home between calls unless a copy failed: *)
(* a caller killed for asking for an unmapped page leaves it home, because *)
(* kmem_read:135 and kmem_write:179 translate before they touch the window.*)
WindowHome ==
    (loaded /\ ~faulted /\ \A p \in Procs : ~Active(p)) => pte = Home

(* A kmem_write is all or nothing: by the time it returns it has stored    *)
(* every byte, or (unlike pmem_write) none.  The caller may also die in    *)
(* the memcpy, when the window shows a frame beyond memory; only then can  *)
(* some bytes have been stored, through a translation that the CPU still   *)
(* cached and then dropped.                                                *)
WriteAllOrNothing ==
    [][\A p \in Procs :
          (op[p].kind = "write" /\ Active(p) /\ pc'[p] \in {"idle", "dead"})
              => \/ Len(data[p]) \in {0, op[p].len}
                 \/ pc'[p] = "dead" /\ pte \notin Frames]_kvars

-----------------------------------------------------------------------------
(***************************************************************************)
(* Strengthenings.  StagedInv is inductive whatever the callers do and     *)
(* gives WriteAllOrNothing; SerialInv is inductive when calls do not       *)
(* overlap and implies AccessHitsTarget and WindowHome.                    *)
(***************************************************************************)
StagedInv ==
    \A p \in Procs :
        /\ pc[p] # "copy" => data[p] = <<>>
        /\ Len(data[p]) <= op[p].len
        /\ pc[p] \notin {"idle", "dead", "clip"} => op[p].len <= PageSize

OneAtATime == \A p, q \in Procs : Active(p) /\ Active(q) => p = q

(* The top digit of the address is all that a position has lost. *)
AimInv == \A f \in Files : fpos[f] = Masked(aimed[f])

Windowed(p) == pc[p] \in {"aim", "stage", "copy"} /\ op[p].found

CallInv(p) ==
    LET v == FrameOf(aimed[FileOf[p]])
    IN  /\ Active(p) => /\ pc[p] # "pad"
                        /\ fpos[FileOf[p]] = op[p].pos
                        /\ FileOf[p] \in open
        /\ pc[p] \in {"save", "map", "aim", "stage", "copy"} =>
              /\ op[p].len <= PageSize - OffsetOf(op[p].pos)
              /\ (Canonical(v) /\ v \notin AstrayPages /\ TextLinear(v))
                    => op[p].target = PageTable[v]
        /\ pc[p] = "map" => op[p].found
        /\ Windowed(p) => pte = op[p].target
        /\ pc[p] \in {"stage", "copy"} => op[p].off = OffsetOf(op[p].pos)

(* Before the first fault, the entry is home or its home value is saved. *)
HomeInv ==
    (loaded /\ ~faulted) =>
        /\ (\A p \in Procs : ~Windowed(p)) => pte = Home
        /\ \A p \in Procs : pc[p] = "map" \/ Windowed(p) => saved[p] = Home

SerialInv ==
    /\ OneAtATime
    /\ open # {} => loaded
    /\ AimInv
    /\ \A p \in Procs : CallInv(p)
    /\ HomeInv
=============================================================================
