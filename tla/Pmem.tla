------------------------------- MODULE Pmem -------------------------------
(***************************************************************************)
(* The pmem driver: /dev/pmem gives access to physical memory at the       *)
(* file's position.  pmem_read and pmem_write compute the length, the      *)
(* frame and the offset of a transfer from three separate loads of f_pos,  *)
(* and pmem_write copies from the user straight into the window.           *)
(***************************************************************************)
EXTENDS PageWindow

(* pmem_llseek *)
Llseek(p, offset, whence) ==
    LET pos == Seek(fpos[FileOf[p]], offset, whence, PosSize)
    IN  /\ MoveTo(p, pos)
        /\ named' = named \union ({FrameOf(pos)} \intersect Frames)

Clip(p) ==
    /\ pc[p] = "clip"
    /\ op' = [op EXCEPT ![p].len = ClippedLen(p)]
    /\ pc' = [pc EXCEPT ![p] = "save"]
    /\ UNCHANGED <<device, fpos, pte, tlb, mem, saved, data>>

Save(p) == SaveEntry(p)

(* Faulty variant: the page where the transfer ends is mapped. *)
MapLastPage(p) == MapEntry(p, FrameOf(fpos[FileOf[p]] + op[p].len))

(* pte->pte = (f_pos & ~0xfff) | (pte_save & 0xfff) *)
Map(p) == MapEntry(p, FrameOf(fpos[FileOf[p]]))

Aim(p) == AimCopy(p, "copy")

Copy(p) == ReadByte(p) \/ \E v \in Values : WriteByte(p, v)

(* copy_from_user fails: it clears what is left of its destination, which  *)
(* is the window, and only then does the driver return -EFAULT.            *)
WriteFault(p) ==
    /\ pc[p] = "copy" /\ op[p].kind = "write" /\ MoreToCopy(p)
    /\ pc' = [pc EXCEPT ![p] = "pad"]
    /\ UNCHANGED <<device, fpos, pte, tlb, mem, op, saved, data>>

PadByte(p) ==
    /\ pc[p] = "pad" /\ MoreToCopy(p) /\ Accessible(p)
    /\ mem' = [mem EXCEPT ![NextByte(p)] = 0]
    /\ data' = [data EXCEPT ![p] = Append(@, 0)]
    /\ UNCHANGED <<device, fpos, pte, tlb, pc, op, saved>>

PadOops(p) == pc[p] = "pad" /\ MoreToCopy(p) /\ ~Accessible(p) /\ Oops(p)

PadEnd(p) == pc[p] = "pad" /\ ~MoreToCopy(p) /\ AbortCall(p)

Init == WindowInit

Call(p) ==
    \/ \E kind \in {"read", "write"}, count \in 0..MaxCount : EnterCall(p, kind, count)
    \/ Clip(p) \/ Save(p) \/ Map(p) \/ Aim(p) \/ Copy(p) \/ FinishCall(p)
    \/ ReadFault(p) \/ WriteFault(p) \/ PadByte(p) \/ PadOops(p) \/ PadEnd(p)

Lifetime ==
    \/ LoadModule
    \/ UnloadModule
    \/ \E f \in Files : OpenFile(f) \/ ReleaseFile(f)

Next ==
    \/ Lifetime
    \/ \E p \in Procs : \/ Call(p)
                        \/ \E offset \in Positions, whence \in Whences :
                              Llseek(p, offset, whence)
                        \/ TlbFill(p)
                        \/ TlbEvict(p)

Spec == Init /\ [][Next]_vars

-----------------------------------------------------------------------------
(* Every variable has its type; in particular the page-table entry, and    *)
(* every saved copy of it, always holds the page of some position.         *)
TypeOK == WindowTypeOK

(* pmem_read and pmem_write reach exactly the physical byte asked for: the *)
(* position the VFS loaded on entry plus the bytes already transferred,    *)
(* whatever the callers did before, faults and leaked windows included.    *)
AccessHitsTarget == \A p \in Procs : HitsTarget(p, op[p].pos + Len(data[p]))

(* The entry of paged_buf is back home whenever no call is in progress,    *)
(* unless a copy has failed: pmem_read:142 and pmem_write:183 return       *)
(* before the restore, and no later call repairs what they leave behind.   *)
WindowHome ==
    (loaded /\ ~faulted /\ \A p \in Procs : ~Active(p)) => pte = Home

(* No other thread can move the position that p's call loads three times.  *)
OwnFile(p) == \A q \in Procs \ {p} : FileOf[q] # FileOf[p]

(* The frames that a call of p may reach by what the driver guarantees.    *)
(* The length and the start of a copy come from different loads of f_pos,  *)
(* so that only a caller with a file of its own stays inside paged_buf.    *)
Exposed(p) == named \union {Home} \union (IF OwnFile(p) THEN {} ELSE {Adjacent})

(* However calls overlap, whatever the TLBs hold and whichever copies      *)
(* fail, pmem_read and pmem_write touch no byte outside the frames that    *)
(* some file was positioned on, the driver's own page and (for a thread    *)
(* that shares its file) the page behind it.                               *)
AccessConfined ==
    \A p \in Procs :
        (pc[p] \in {"copy", "pad"} /\ MoreToCopy(p) /\ Accessible(p))
            => FrameOf(NextByte(p)) \in Exposed(p)

(* The same for what is left behind: pmem_write and the zero padding of a  *)
(* failed copy change no byte of any other frame.                          *)
DamageConfined ==
    [][\A a \in Addrs : mem'[a] # mem[a] =>
          FrameOf(a) = Home \/ \E p \in Procs : FrameOf(a) \in Exposed(p)]_vars

-----------------------------------------------------------------------------
(***************************************************************************)
(* Strengthenings.  ConfinedInv is inductive and implies AccessConfined,   *)
(* together with OwnFileInv for callers that share no file;                *)
(* SerialInv is inductive when calls do not overlap, no TLB caches and     *)
(* get_pte finds the entry, and implies AccessHitsTarget and WindowHome.   *)
(***************************************************************************)
AllowedEntry(e) == e \in Frames => e \in named \union {Home}

ConfinedInv ==
    /\ \A f \in open : AllowedEntry(FrameOf(fpos[f]))
    /\ \A p \in Procs : Active(p) => /\ FileOf[p] \in open
                                    /\ AllowedEntry(FrameOf(op[p].pos))
    /\ \A p \in Procs : pc[p] \in {"save", "map", "aim", "copy", "pad"} => op[p].len <= PageSize
    /\ AllowedEntry(pte)
    /\ \A p \in Procs : AllowedEntry(saved[p])
    /\ \A p \in Procs : tlb[p] # NULL => AllowedEntry(tlb[p])

(* Nobody but the caller moves the position of a file of its own. *)
OwnFileInv ==
    \A p \in Procs : OwnFile(p) =>
        /\ Active(p) => fpos[FileOf[p]] = op[p].pos
        /\ pc[p] \in {"save", "map", "aim", "copy", "pad"}
              => op[p].len <= PageSize - OffsetOf(op[p].pos)
        /\ pc[p] \in {"copy", "pad"} => op[p].off = OffsetOf(op[p].pos)

OneAtATime == \A p, q \in Procs : Active(p) /\ Active(q) => p = q

CallInv(p) ==
    /\ Active(p) => /\ pc[p] \in {"clip", "save", "map", "aim", "copy", "pad"}
                    /\ op[p].kind \in {"read", "write"}
                    /\ fpos[FileOf[p]] = op[p].pos
                    /\ FileOf[p] \in open
    /\ pc[p] \in {"save", "map", "aim", "copy", "pad"} => op[p].len <= PageSize - OffsetOf(op[p].pos)
    /\ pc[p] \in {"map", "aim", "copy", "pad"} => op[p].found
    /\ pc[p] \in {"aim", "copy", "pad"} => pte = FrameOf(op[p].pos)
    /\ pc[p] \in {"copy", "pad"} => op[p].off = OffsetOf(op[p].pos)
    /\ pc[p] = "pad" => op[p].kind = "write"
    /\ pc[p] \notin {"copy", "pad"} => data[p] = <<>>
    /\ Len(data[p]) <= op[p].len

(* Before the first fault, the entry is home or its home value is saved. *)
HomeInv ==
    (loaded /\ ~faulted) =>
        /\ (\A p \in Procs : pc[p] \notin {"aim", "copy", "pad"}) => pte = Home
        /\ \A p \in Procs : pc[p] \in {"map", "aim", "copy", "pad"} => saved[p] = Home

SerialInv ==
    /\ OneAtATime
    /\ \A p \in Procs : tlb[p] = NULL
    /\ open # {} => loaded
    /\ \A p \in Procs : CallInv(p)
    /\ HomeInv

-----------------------------------------------------------------------------
(* pmem implements the device that PhysAccess describes. *)
RequestOf(p) ==
    IF pc[p] \in {"idle", "dead", "clip"} THEN [kind |-> "none", pos |-> 0, len |-> 0]
    ELSE [kind |-> IF pc[p] = "pad" THEN "pad" ELSE op[p].kind,
          pos |-> op[p].pos, len |-> op[p].len]

Phys == INSTANCE PhysAccess WITH req <- [p \in Procs |-> RequestOf(p)]

PhysAccessSpec == Phys!Spec
=============================================================================
