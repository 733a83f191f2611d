---------------------------- MODULE PageWindow ----------------------------
(***************************************************************************)
(* The mechanism that the pmem and kmem drivers share.  Each driver owns   *)
(* one page-sized buffer, paged_buf, and reaches foreign memory by         *)
(* overwriting the page-table entry that maps it: save the entry, point it *)
(* at the wanted frame, copy through the buffer, put the saved entry back. *)
(* Nothing locks the buffer, nothing flushes a TLB, and a failed copy      *)
(* returns before the entry is put back.                                   *)
(*                                                                         *)
(* This module has the state, the steps both drivers take in the same way, *)
(* and the environment: the VFS, the module loader and the CPUs' TLBs.     *)
(* Pmem and Kmem extend it with the steps in which they differ.            *)
(*                                                                         *)
(* The low 12 bits of the entry (its flags) are carried over unchanged by  *)
(* the code, except that a write adds _PAGE_RW, so an entry is a frame.    *)
(***************************************************************************)
EXTENDS Integers, Sequences

CONSTANTS
    Procs,      \* the threads that call the driver; each has a CPU of its own
    Files,      \* the open file descriptions (struct file)
    FileOf,     \* the file each thread uses; threads may share one
    NFrames,    \* number of frames of physical memory
    Beyond,     \* number of pages that positions can name beyond those
    PageSize,   \* bytes in a frame (4096)
    Home,       \* the frame that backs paged_buf
    Adjacent,   \* the frame that backs the virtual page after paged_buf
    Values,     \* the values of a byte
    MaxCount,   \* bound on the count argument of a call
    Overlap,    \* may the callers' system calls overlap in time?
    TlbCaches,  \* may a CPU keep a translation of paged_buf in its TLB?
    Lookups,    \* what get_pte(paged_buf) may find: TRUE an entry, FALSE none
    NULL        \* no cached translation

ASSUME FilesAssumption == FileOf \in [Procs -> Files]
ASSUME SizeAssumption == /\ NFrames \in Nat \ {0} /\ Beyond \in Nat
                         /\ PageSize \in Nat \ {0}
                         /\ MaxCount \in Nat
ASSUME FrameAssumption == /\ Home \in 0..(NFrames - 1)
                          /\ Adjacent \in 0..(NFrames - 1)
ASSUME ValueAssumption == 0 \in Values
ASSUME NullAssumption == NULL \notin Int
ASSUME ModeAssumption == /\ Overlap \in BOOLEAN
                         /\ TlbCaches \in BOOLEAN
                         /\ Lookups \subseteq BOOLEAN

(***************************************************************************)
(* Addresses.  Positions wrap around at a fixed width.  The last page of   *)
(* them stands for those that the signed loff_t calls negative, the Beyond *)
(* pages before it for those that no frame of physical memory has.         *)
(***************************************************************************)
MemSize == NFrames * PageSize
PosSize == (NFrames + Beyond + 1) * PageSize
Addrs == 0..(MemSize - 1)
Positions == 0..(PosSize - 1)
NonNegative == 0..((NFrames + Beyond) * PageSize - 1)
Frames == 0..(NFrames - 1)
Entries == 0..(NFrames + Beyond)   \* any position's page fits in an entry

FrameOf(pos) == pos \div PageSize
OffsetOf(pos) == pos % PageSize

VARIABLES
    loaded,   \* is the module loaded and its misc device registered?
    open,     \* the files that are open
    fpos,     \* filp->f_pos of each file
    pte,      \* the frame in the page-table entry of paged_buf
    tlb,      \* each CPU's cached translation of paged_buf, or NULL
    mem,      \* the contents of physical memory
    pc,       \* what each thread does next inside a call
    op,       \* the arguments and locals of each thread's call
    saved,    \* pte_save of each thread; Home when no call gave it a value
    data,     \* the bytes each thread's call has transferred so far
    named,    \* history: the frames that some file was ever positioned on
    faulted   \* history: has any copy failed since the module was loaded?

calls == <<pc, op, saved, data>>
device == <<loaded, open, named, faulted>>
vars == <<loaded, open, fpos, pte, tlb, mem, pc, op, saved, data, named, faulted>>

Active(p) == pc[p] \notin {"idle", "dead"}
Idle == [kind |-> "none", pos |-> 0, len |-> 0, off |-> 0, target |-> 0, found |-> FALSE]

(* No other call is in progress, or the users do not care. *)
Free(p) == Overlap \/ \A q \in Procs \ {p} : ~Active(q)

WindowInit ==
    /\ loaded = FALSE
    /\ open = {}
    /\ fpos = [f \in Files |-> 0]
    /\ pte = Home
    /\ tlb = [p \in Procs |-> NULL]
    /\ mem = [a \in Addrs |-> 0]
    /\ pc = [p \in Procs |-> "idle"]
    /\ op = [p \in Procs |-> Idle]
    /\ saved = [p \in Procs |-> Home]
    /\ data = [p \in Procs |-> <<>>]
    /\ named = {}
    /\ faulted = FALSE

-----------------------------------------------------------------------------
(***************************************************************************)
(* Module lifetime and files.                                              *)
(***************************************************************************)

(* module_init: the loader maps a zeroed paged_buf, then misc_register     *)
(* succeeds.  When it fails the load is undone and nothing has changed.    *)
LoadModule ==
    /\ ~loaded
    /\ loaded' = TRUE
    /\ pte' = Home
    /\ tlb' = [p \in Procs |-> NULL]
    /\ mem' = [a \in Addrs |-> IF FrameOf(a) = Home THEN 0 ELSE mem[a]]
    /\ faulted' = FALSE
    /\ UNCHANGED <<open, fpos, calls, named>>

(* module_exit: .owner = THIS_MODULE keeps the module while a file is open. *)
UnloadModule ==
    /\ loaded /\ open = {}
    /\ loaded' = FALSE
    /\ UNCHANGED <<open, fpos, pte, tlb, mem, calls, named, faulted>>

(* open(2): a new struct file is positioned at 0. *)
OpenFile(f) ==
    /\ loaded /\ f \notin open
    /\ open' = open \union {f}
    /\ fpos' = [fpos EXCEPT ![f] = 0]
    /\ named' = named \union {0}
    /\ UNCHANGED <<loaded, pte, tlb, mem, calls, faulted>>

(* The last reference is dropped: no call on the file is in progress. *)
ReleaseFile(f) ==
    /\ f \in open
    /\ \A p \in Procs : FileOf[p] = f => ~Active(p)
    /\ open' = open \ {f}
    /\ UNCHANGED <<loaded, fpos, pte, tlb, mem, calls, named, faulted>>

Whences == {"SEEK_SET", "SEEK_CUR", "SEEK_END", "other"}

(* The position that llseek computes from the current one, modulo size:    *)
(* ~0LL + offset for SEEK_END, and an unknown whence leaves it as it is.   *)
Seek(base, offset, whence, size) ==
    CASE whence = "SEEK_SET" -> offset % size
      [] whence = "SEEK_CUR" -> (base + offset) % size
      [] whence = "SEEK_END" -> (size - 1 + offset) % size
      [] OTHER -> base

(* llseek stores pos; char devices have no f_pos lock, so it may run while *)
(* another thread is inside a call on the same file.                       *)
MoveTo(p, pos) ==
    /\ FileOf[p] \in open /\ pc[p] = "idle" /\ Free(p)
    /\ fpos' = [fpos EXCEPT ![FileOf[p]] = pos]
    /\ UNCHANGED <<loaded, open, pte, tlb, mem, calls, faulted>>

-----------------------------------------------------------------------------
(***************************************************************************)
(* A call, step by step.                                                   *)
(***************************************************************************)

(* ksys_read/ksys_write: the VFS loads the position, refuses a negative    *)
(* one, and calls the driver.                                              *)
EnterCall(p, kind, count) ==
    LET pos == fpos[FileOf[p]]
    IN  /\ FileOf[p] \in open /\ pc[p] = "idle" /\ Free(p)
        /\ pos \in NonNegative
        /\ pc' = [pc EXCEPT ![p] = "clip"]
        /\ op' = [op EXCEPT ![p] = [Idle EXCEPT !.kind = kind, !.pos = pos, !.len = count]]
        /\ UNCHANGED <<loaded, open, fpos, pte, tlb, mem, saved, data, named, faulted>>

(* left_len = 0x1000 - (f_pos & 0xfff); copy_len = min(count, left_len) *)
ClippedLen(p) ==
    LET left_len == PageSize - OffsetOf(fpos[FileOf[p]])
    IN  IF op[p].len <= left_len THEN op[p].len ELSE left_len

(* pte = get_pte(paged_buf), and pte_save = pte->pte when there is one *)
SaveEntry(p) ==
    /\ pc[p] = "save"
    /\ \E found \in Lookups :
          /\ op' = [op EXCEPT ![p].found = found]
          /\ saved' = IF found THEN [saved EXCEPT ![p] = pte] ELSE saved
          /\ pc' = [pc EXCEPT ![p] = IF found THEN "map" ELSE "aim"]
    /\ UNCHANGED <<device, fpos, pte, tlb, mem, data>>

(* pte->pte = frame | flags: no flush follows, so a TLB keeps what it has *)
MapEntry(p, frame) ==
    /\ pc[p] = "map"
    /\ pte' = frame
    /\ pc' = [pc EXCEPT ![p] = "aim"]
    /\ UNCHANGED <<device, fpos, tlb, mem, op, saved, data>>

(* Faulty variant: the offset within the page is dropped. *)
AimAtPageStart(p, next) ==
    /\ pc[p] = "aim"
    /\ pc' = [pc EXCEPT ![p] = next]
    /\ UNCHANGED <<device, fpos, pte, tlb, mem, op, saved, data>>

(* Faulty variant: the mask 0xfff is missing. *)
AimUnmasked(p, next) ==
    /\ pc[p] = "aim"
    /\ op' = [op EXCEPT ![p].off = fpos[FileOf[p]]]
    /\ pc' = [pc EXCEPT ![p] = next]
    /\ UNCHANGED <<device, fpos, pte, tlb, mem, saved, data>>

(* The start of the copy, paged_buf + (f_pos & 0xfff), from a fresh load of f_pos *)
AimCopy(p, next) ==
    /\ pc[p] = "aim"
    /\ op' = [op EXCEPT ![p].off = OffsetOf(fpos[FileOf[p]])]
    /\ pc' = [pc EXCEPT ![p] = next]
    /\ UNCHANGED <<device, fpos, pte, tlb, mem, saved, data>>

(* Where the CPU of p takes an access to byte i of the buffer: through its *)
(* TLB if the translation is cached, else through the page-table entry.    *)
Translation(p) == IF tlb[p] = NULL THEN pte ELSE tlb[p]

Reached(p, i) ==
    IF i < PageSize THEN Translation(p) * PageSize + i
                    ELSE Adjacent * PageSize + (i - PageSize)

(* Faulty variant: the copy does not advance. *)
NextByteStuck(p) == Reached(p, op[p].off)

NextByte(p) == Reached(p, op[p].off + Len(data[p]))

MoreToCopy(p) == Len(data[p]) < op[p].len

(* An entry beyond physical memory makes the access itself fault. *)
Accessible(p) == NextByte(p) \in Addrs

ReadByte(p) ==
    /\ pc[p] = "copy" /\ op[p].kind = "read" /\ MoreToCopy(p) /\ Accessible(p)
    /\ data' = [data EXCEPT ![p] = Append(@, mem[NextByte(p)])]
    /\ UNCHANGED <<device, fpos, pte, tlb, mem, pc, op, saved>>

WriteByte(p, v) ==
    /\ pc[p] = "copy" /\ op[p].kind = "write" /\ MoreToCopy(p) /\ Accessible(p)
    /\ mem' = [mem EXCEPT ![NextByte(p)] = v]
    /\ data' = [data EXCEPT ![p] = Append(@, v)]
    /\ UNCHANGED <<device, fpos, pte, tlb, pc, op, saved>>

(* Faulty variant: the saved entry is not put back. *)
FinishWithoutRestore(p) ==
    /\ pc[p] = "copy" /\ ~MoreToCopy(p)
    /\ fpos' = [fpos EXCEPT ![FileOf[p]] = op[p].pos]
    /\ pc' = [pc EXCEPT ![p] = "idle"]
    /\ op' = [op EXCEPT ![p] = Idle]
    /\ data' = [data EXCEPT ![p] = <<>>]
    /\ saved' = [saved EXCEPT ![p] = Home]
    /\ UNCHANGED <<device, pte, tlb, mem>>

(* pte->pte = pte_save when an entry was found; return copy_len, and the   *)
(* VFS stores the position it had loaded on entry.                         *)
FinishCall(p) ==
    /\ pc[p] = "copy" /\ ~MoreToCopy(p)
    /\ pte' = IF op[p].found THEN saved[p] ELSE pte
    /\ fpos' = [fpos EXCEPT ![FileOf[p]] = op[p].pos]
    /\ pc' = [pc EXCEPT ![p] = "idle"]
    /\ op' = [op EXCEPT ![p] = Idle]
    /\ data' = [data EXCEPT ![p] = <<>>]
    /\ saved' = [saved EXCEPT ![p] = Home]
    /\ UNCHANGED <<device, tlb, mem>>

(* return -EFAULT: the entry is not put back and the VFS leaves the position alone *)
AbortCall(p) ==
    /\ pc' = [pc EXCEPT ![p] = "idle"]
    /\ op' = [op EXCEPT ![p] = Idle]
    /\ data' = [data EXCEPT ![p] = <<>>]
    /\ saved' = [saved EXCEPT ![p] = Home]
    /\ faulted' = TRUE
    /\ UNCHANGED <<loaded, open, named, fpos, pte, tlb, mem>>

(* The kernel faults on the driver's behalf and kills the caller. *)
Oops(p) ==
    /\ pc' = [pc EXCEPT ![p] = "dead"]
    /\ op' = [op EXCEPT ![p] = Idle]
    /\ data' = [data EXCEPT ![p] = <<>>]
    /\ saved' = [saved EXCEPT ![p] = Home]
    /\ faulted' = TRUE
    /\ UNCHANGED <<loaded, open, named, fpos, pte, tlb, mem>>

(* copy_to_user fails part-way: the user's page, or the window's, is missing *)
ReadFault(p) ==
    /\ pc[p] = "copy" /\ op[p].kind = "read" /\ MoreToCopy(p)
    /\ AbortCall(p)

-----------------------------------------------------------------------------
(***************************************************************************)
(* The CPUs.  A CPU may load the translation of paged_buf at any time      *)
(* (speculatively or not) and may drop it at any time.                     *)
(***************************************************************************)
TlbFill(p) ==
    /\ TlbCaches /\ loaded /\ pte \in Frames
    /\ tlb' = [tlb EXCEPT ![p] = pte]
    /\ UNCHANGED <<device, fpos, pte, mem, calls>>

TlbEvict(p) ==
    /\ tlb[p] # NULL
    /\ tlb' = [tlb EXCEPT ![p] = NULL]
    /\ UNCHANGED <<device, fpos, pte, mem, calls>>

-----------------------------------------------------------------------------
(* Every variable has its type, and the locals of a call are those of a call. *)
Kinds == {"none", "read", "write"}
Steps == {"idle", "dead", "clip", "save", "map", "aim", "stage", "copy", "pad"}

WindowTypeOK ==
    /\ loaded \in BOOLEAN
    /\ open \subseteq Files
    /\ fpos \in [Files -> Positions]
    /\ pte \in Entries
    /\ tlb \in [Procs -> Frames \union {NULL}]
    /\ mem \in [Addrs -> Values]
    /\ pc \in [Procs -> Steps]
    /\ op \in [Procs -> [kind: Kinds, pos: NonNegative, len: 0..MaxCount,
                         off: 0..(PageSize - 1), target: Entries, found: BOOLEAN]]
    /\ saved \in [Procs -> Entries]
    /\ data \in [Procs -> Seq(Values)]
    /\ named \subseteq Frames
    /\ faulted \in BOOLEAN

(* What a call asks for: byte i of the call is byte i after its position.  *)
(* The access a driver is about to make reaches exactly that byte.         *)
HitsTarget(p, wanted) ==
    (pc[p] \in {"copy", "pad"} /\ MoreToCopy(p)) => NextByte(p) = wanted
=============================================================================
