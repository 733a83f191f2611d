------------------------- MODULE PageWindow_proofs -------------------------
(***************************************************************************)
(* What the proofs about pmem and kmem share: the arithmetic of pages, and *)
(* that the steps of PageWindow keep the types of the window's variables.  *)
(***************************************************************************)
EXTENDS PageWindow, TLAPS

USE DEF Addrs, Positions, NonNegative, Frames, Entries, MemSize, PosSize, FrameOf, OffsetOf

(* Division by the page size: the page and the offset of a position. *)
LEMMA DivMod ==
    ASSUME NEW P \in Nat \ {0}, NEW x \in Int
    PROVE  /\ x \div P \in Int
           /\ x % P \in 0..(P - 1)
           /\ x = P * (x \div P) + (x % P)
  OBVIOUS

(* A number below M * P has a quotient below M. *)
LEMMA DivBound ==
    ASSUME NEW P \in Nat \ {0}, NEW M \in Nat, NEW x \in 0..(M * P - 1)
    PROVE  x \div P \in 0..(M - 1)
<1> DEFINE q == x \div P
<1>1. x = P * q + (x % P) /\ x % P \in 0..(P - 1) /\ q \in Int
  BY DivMod
<1> HIDE DEF q
<1>2. q >= 0
  BY <1>1
<1>3. q < M
  BY <1>1
<1> QED
  BY <1>1, <1>2, <1>3 DEF q

(* The page of an address inside frame f is f. *)
LEMMA DivUnique ==
    ASSUME NEW P \in Nat \ {0}, NEW f \in Int, NEW i \in 0..(P - 1)
    PROVE  (f * P + i) \div P = f
<1> DEFINE x == f * P + i
           q == x \div P
<1>1. x \in Int
  OBVIOUS
<1>2. x = P * q + (x % P) /\ x % P \in 0..(P - 1) /\ q \in Int
  BY <1>1, DivMod
<1>3. P * (q - f) = i - (x % P) /\ q - f \in Int
  BY <1>2
<1> HIDE DEF q, x
<1>4. q - f < 1 /\ q - f > -1
  BY <1>2, <1>3
<1> QED
  BY <1>2, <1>4 DEF q, x

(* Every position has a page that fits in an entry and an offset in the page. *)
LEMMA PositionPage ==
    ASSUME NEW pos \in Positions
    PROVE  FrameOf(pos) \in Entries /\ OffsetOf(pos) \in 0..(PageSize - 1)
<1>1. FrameOf(pos) \in 0..((NFrames + Beyond + 1) - 1)
  BY DivBound, SizeAssumption
<1>2. OffsetOf(pos) \in 0..(PageSize - 1)
  BY DivMod, SizeAssumption
<1> QED
  BY <1>1, <1>2, SizeAssumption

(* An address of physical memory is in a frame and is frame * size + offset. *)
LEMMA AddressPage ==
    ASSUME NEW a \in Addrs
    PROVE  /\ FrameOf(a) \in Frames /\ OffsetOf(a) \in 0..(PageSize - 1)
           /\ a = FrameOf(a) * PageSize + OffsetOf(a)
           /\ a \in Positions
<1>1. FrameOf(a) \in Frames
  BY DivBound, SizeAssumption
<1>2. OffsetOf(a) \in 0..(PageSize - 1) /\ a = FrameOf(a) * PageSize + OffsetOf(a)
  BY DivMod, SizeAssumption
<1>3. a \in Positions
  BY SizeAssumption
<1> QED
  BY <1>1, <1>2, <1>3

(* A position that the VFS accepts is page * size + offset. *)
LEMMA AcceptedPage ==
    ASSUME NEW pos \in NonNegative
    PROVE  /\ pos \in Positions
           /\ FrameOf(pos) \in Nat /\ OffsetOf(pos) \in 0..(PageSize - 1)
           /\ pos = FrameOf(pos) * PageSize + OffsetOf(pos)
<1>1. FrameOf(pos) \in 0..((NFrames + Beyond) - 1)
  BY DivBound, SizeAssumption
<1>2. OffsetOf(pos) \in 0..(PageSize - 1) /\ pos = FrameOf(pos) * PageSize + OffsetOf(pos)
  BY DivMod, SizeAssumption
<1>3. pos \in Positions
  <2>1. /\ (NFrames + Beyond + 1) * PageSize = (NFrames + Beyond) * PageSize + PageSize
        /\ (NFrames + Beyond) * PageSize \in Nat
    BY SizeAssumption
  <2> QED
    BY <2>1, SizeAssumption
<1> QED
  BY <1>1, <1>2, <1>3, SizeAssumption

(* A product of the divisor leaves the remainder alone. *)
LEMMA ModUnique ==
    ASSUME NEW P \in Nat \ {0}, NEW f \in Int, NEW i \in 0..(P - 1)
    PROVE  (f * P + i) % P = i
<1>1. f * P + i \in Int /\ (f * P + i) \div P = f
  BY DivUnique
<1>2. f * P + i = P * ((f * P + i) \div P) + ((f * P + i) % P)
      /\ (f * P + i) % P \in 0..(P - 1)
  BY <1>1, DivMod
<1>3. P * f = f * P /\ f * P \in Int
  OBVIOUS
<1> QED
  BY <1>1, <1>2, <1>3

(* llseek computes a number of the given width for every whence. *)
LEMMA SeekInRange ==
    ASSUME NEW size \in Nat \ {0}, NEW base \in 0..(size - 1), NEW offset \in 0..(size - 1),
           NEW whence \in Whences
    PROVE  Seek(base, offset, whence, size) \in 0..(size - 1)
<1>1. \A x \in Int : x % size \in 0..(size - 1)
  BY DivMod
<1>2. offset \in Int /\ base + offset \in Int /\ size - 1 + offset \in Int
  OBVIOUS
<1> QED
  BY <1>1, <1>2 DEF Seek, Whences

(* The length left after clipping fits in the page of the position. *)
LEMMA ClipFits ==
    ASSUME WindowTypeOK, NEW p \in Procs
    PROVE  /\ ClippedLen(p) \in 0..MaxCount
           /\ ClippedLen(p) <= PageSize - OffsetOf(fpos[FileOf[p]])
           /\ ClippedLen(p) <= PageSize
<1>1. fpos[FileOf[p]] \in Positions
  BY FilesAssumption DEF WindowTypeOK
<1>2. OffsetOf(fpos[FileOf[p]]) \in 0..(PageSize - 1)
  BY <1>1, PositionPage
<1>3. op[p].len \in 0..MaxCount
  BY DEF WindowTypeOK
<1> HIDE DEF OffsetOf
<1> QED
  BY <1>2, <1>3, SizeAssumption DEF ClippedLen

-----------------------------------------------------------------------------
LEMMA WindowTypeInit == WindowInit => WindowTypeOK
<1> SUFFICES ASSUME WindowInit PROVE WindowTypeOK
  OBVIOUS
<1>1. /\ 0 \in Positions /\ 0 \in Addrs /\ 0 \in NonNegative /\ 0 \in Entries
      /\ Home \in Entries /\ 0 \in 0..(PageSize - 1) /\ 0 \in 0..MaxCount
  <2>1. (NFrames + Beyond) * PageSize \in Nat \ {0}
    BY SizeAssumption
  <2> QED
    BY <2>1, SizeAssumption, FrameAssumption
<1>2. <<>> \in Seq(Values)
  OBVIOUS
<1> HIDE DEF Addrs, Positions, NonNegative, Entries, Frames
<1> QED
  BY <1>1, <1>2, ValueAssumption
  DEF WindowInit, WindowTypeOK, Idle, Steps, Kinds

(* The constants that the steps store have the types of what they are stored in. *)
LEMMA InitialTypes ==
    /\ 0 \in Positions /\ 0 \in NonNegative /\ 0 \in Entries /\ Home \in Entries
    /\ \A a \in NonNegative : a \in Positions
    /\ 0 \in 0..(PageSize - 1) /\ 0 \in 0..MaxCount
    /\ Idle \in [kind: Kinds, pos: NonNegative, len: 0..MaxCount,
                 off: 0..(PageSize - 1), target: Entries, found: BOOLEAN]
    /\ <<>> \in Seq(Values)
<1>0. /\ 0 \in Positions /\ 0 \in NonNegative /\ 0 \in Entries /\ Home \in Entries
      /\ \A a \in NonNegative : a \in Positions
      /\ 0 \in 0..(PageSize - 1) /\ 0 \in 0..MaxCount
  <2>1. (NFrames + Beyond) * PageSize \in Nat \ {0}
    BY SizeAssumption
  <2>2. 0 \in NonNegative /\ 0 \in Entries /\ Home \in Entries
    BY <2>1, SizeAssumption, FrameAssumption
  <2>3. 0 \in 0..(PageSize - 1) /\ 0 \in 0..MaxCount
    BY SizeAssumption
  <2> HIDE DEF NonNegative, Positions, Entries
  <2>4. \A a \in NonNegative : a \in Positions
    BY AcceptedPage
  <2> QED
    BY <2>2, <2>3, <2>4
<1>i. Idle \in [kind: Kinds, pos: NonNegative, len: 0..MaxCount,
                off: 0..(PageSize - 1), target: Entries, found: BOOLEAN]
  BY <1>0 DEF Idle, Kinds
<1>s. <<>> \in Seq(Values)
  OBVIOUS
<1> QED
  BY <1>0, <1>i, <1>s

(* The position of a thread's file has a page and an offset. *)
LEMMA FilePosition ==
    ASSUME WindowTypeOK, NEW p \in Procs
    PROVE  /\ fpos[FileOf[p]] \in Positions
           /\ FrameOf(fpos[FileOf[p]]) \in Entries
           /\ OffsetOf(fpos[FileOf[p]]) \in 0..(PageSize - 1)
  BY PositionPage, FilesAssumption DEF WindowTypeOK

(* The loader, the VFS and the CPUs keep the types. *)
LEMMA EnvironmentTypes ==
    ASSUME WindowTypeOK
    PROVE  \/ LoadModule \/ UnloadModule
           \/ \E f \in Files : OpenFile(f) \/ ReleaseFile(f)
           \/ \E p \in Procs : TlbFill(p) \/ TlbEvict(p)
           \/ UNCHANGED vars
           => WindowTypeOK'
<1> USE DEF WindowTypeOK, Steps, Kinds
<1>0. 0 \in Positions /\ 0 \in NonNegative /\ 0 \in Entries /\ Home \in Entries
  BY InitialTypes
<1> HIDE DEF Addrs, Positions, NonNegative, Entries, FrameOf, OffsetOf
<1>1. CASE LoadModule
  BY <1>1, <1>0, ValueAssumption, NullAssumption DEF LoadModule, calls
<1>2. CASE UnloadModule
  BY <1>2 DEF UnloadModule, calls
<1>3. ASSUME NEW f \in Files, OpenFile(f) PROVE WindowTypeOK'
  <2>1. named' \subseteq Frames
    BY <1>3, SizeAssumption DEF OpenFile
  <2> QED
    BY <1>3, <1>0, <2>1 DEF OpenFile, calls
<1>4. ASSUME NEW f \in Files, ReleaseFile(f) PROVE WindowTypeOK'
  BY <1>4 DEF ReleaseFile, calls
<1>18. ASSUME NEW p \in Procs, TlbFill(p) PROVE WindowTypeOK'
  BY <1>18 DEF TlbFill, device, calls
<1>19. ASSUME NEW p \in Procs, TlbEvict(p) PROVE WindowTypeOK'
  BY <1>19 DEF TlbEvict, device, calls
<1>20. CASE UNCHANGED vars
  BY <1>20 DEF vars
<1> QED
  BY <1>1, <1>2, <1>3, <1>4, <1>18, <1>19, <1>20

(* Storing the outcome of get_pte in a call leaves a call. *)
LEMMA FoundTyped ==
    ASSUME NEW p \in Procs, NEW found \in BOOLEAN, op' = [op EXCEPT ![p].found = found],
           op \in [Procs -> [kind: {"none", "read", "write"}, pos: NonNegative,
                             len: 0..MaxCount, off: 0..(PageSize - 1), target: Entries,
                             found: BOOLEAN]]
    PROVE  op' \in [Procs -> [kind: {"none", "read", "write"}, pos: NonNegative,
                              len: 0..MaxCount, off: 0..(PageSize - 1), target: Entries,
                              found: BOOLEAN]]
<1> HIDE DEF NonNegative, Entries
<1> DEFINE Calls == [kind: {"none", "read", "write"}, pos: NonNegative, len: 0..MaxCount,
                     off: 0..(PageSize - 1), target: Entries, found: BOOLEAN]
           call == [op[p] EXCEPT !.found = found]
<1>1. call \in Calls
  OBVIOUS
<1>2. op \in [Procs -> Calls] /\ op' = [op EXCEPT ![p] = call]
  OBVIOUS
<1> HIDE DEF Calls, call
<1>3. op' \in [Procs -> Calls]
  BY <1>1, <1>2
<1> QED
  BY <1>3 DEF Calls

(* So does storing its length. *)
LEMMA LenTyped ==
    ASSUME NEW p \in Procs, NEW len \in 0..MaxCount, op' = [op EXCEPT ![p].len = len],
           op \in [Procs -> [kind: {"none", "read", "write"}, pos: NonNegative,
                             len: 0..MaxCount, off: 0..(PageSize - 1), target: Entries,
                             found: BOOLEAN]]
    PROVE  op' \in [Procs -> [kind: {"none", "read", "write"}, pos: NonNegative,
                              len: 0..MaxCount, off: 0..(PageSize - 1), target: Entries,
                              found: BOOLEAN]]
<1> HIDE DEF NonNegative, Entries
<1> DEFINE Calls == [kind: {"none", "read", "write"}, pos: NonNegative, len: 0..MaxCount,
                     off: 0..(PageSize - 1), target: Entries, found: BOOLEAN]
           call == [op[p] EXCEPT !.len = len]
<1>1. call \in Calls
  OBVIOUS
<1>2. op \in [Procs -> Calls] /\ op' = [op EXCEPT ![p] = call]
  OBVIOUS
<1> HIDE DEF Calls, call
<1>3. op' \in [Procs -> Calls]
  BY <1>1, <1>2
<1> QED
  BY <1>3 DEF Calls

(* And so does storing where its copy begins. *)
LEMMA OffTyped ==
    ASSUME NEW p \in Procs, NEW off \in 0..(PageSize - 1), op' = [op EXCEPT ![p].off = off],
           op \in [Procs -> [kind: {"none", "read", "write"}, pos: NonNegative,
                             len: 0..MaxCount, off: 0..(PageSize - 1), target: Entries,
                             found: BOOLEAN]]
    PROVE  op' \in [Procs -> [kind: {"none", "read", "write"}, pos: NonNegative,
                              len: 0..MaxCount, off: 0..(PageSize - 1), target: Entries,
                              found: BOOLEAN]]
<1> HIDE DEF NonNegative, Entries
<1> DEFINE Calls == [kind: {"none", "read", "write"}, pos: NonNegative, len: 0..MaxCount,
                     off: 0..(PageSize - 1), target: Entries, found: BOOLEAN]
           call == [op[p] EXCEPT !.off = off]
<1>1. call \in Calls
  OBVIOUS
<1>2. op \in [Procs -> Calls] /\ op' = [op EXCEPT ![p] = call]
  OBVIOUS
<1> HIDE DEF Calls, call
<1>3. op' \in [Procs -> Calls]
  BY <1>1, <1>2
<1> QED
  BY <1>3 DEF Calls

(* So do the steps of a call that both drivers take alike, when what they  *)
(* are given to store is a position, or an entry.                          *)
LEMMA CallTypes ==
    ASSUME WindowTypeOK, NEW p \in Procs
    PROVE  \/ \E kind \in {"read", "write"}, count \in 0..MaxCount : EnterCall(p, kind, count)
           \/ \E pos \in Positions : MoveTo(p, pos) /\ named' \subseteq Frames
           \/ SaveEntry(p)
           \/ \E frame \in Entries : MapEntry(p, frame)
           \/ \E next \in Steps : AimCopy(p, next)
           \/ ReadByte(p) \/ \E v \in Values : WriteByte(p, v)
           \/ FinishCall(p) \/ AbortCall(p) \/ Oops(p)
           => WindowTypeOK'
<1> USE DEF WindowTypeOK, Steps, Kinds
<1>0. /\ 0 \in Positions /\ 0 \in NonNegative /\ 0 \in Entries /\ Home \in Entries
      /\ \A a \in NonNegative : a \in Positions
      /\ 0 \in 0..(PageSize - 1) /\ 0 \in 0..MaxCount
  BY InitialTypes
<1>i. Idle \in [kind: Kinds, pos: NonNegative, len: 0..MaxCount,
                off: 0..(PageSize - 1), target: Entries, found: BOOLEAN]
  BY InitialTypes
<1>s. <<>> \in Seq(Values)
  OBVIOUS
<1>pos. /\ fpos[FileOf[p]] \in Positions
        /\ FrameOf(fpos[FileOf[p]]) \in Entries
        /\ OffsetOf(fpos[FileOf[p]]) \in 0..(PageSize - 1)
  BY FilePosition
<1> HIDE DEF Addrs, Positions, NonNegative, Entries, FrameOf, OffsetOf
<1>5. ASSUME NEW kind \in {"read", "write"}, NEW count \in 0..MaxCount,
             EnterCall(p, kind, count)
      PROVE  WindowTypeOK'
  BY <1>5, <1>0, <1>i DEF EnterCall, Idle
<1>6. ASSUME NEW pos \in Positions, MoveTo(p, pos), named' \subseteq Frames PROVE WindowTypeOK'
  BY <1>6, FilesAssumption DEF MoveTo, calls
<1>7. CASE SaveEntry(p)
  <2>1. PICK found \in Lookups :
           /\ op' = [op EXCEPT ![p].found = found]
           /\ saved' = IF found THEN [saved EXCEPT ![p] = pte] ELSE saved
           /\ pc' = [pc EXCEPT ![p] = IF found THEN "map" ELSE "aim"]
    BY <1>7 DEF SaveEntry
  <2>2. found \in BOOLEAN
    BY ModeAssumption
  <2>3. saved' \in [Procs -> Entries] /\ pc' \in [Procs -> Steps]
    <3>1. CASE found
      BY <2>1, <3>1
    <3>2. CASE ~found
      BY <2>1, <3>2
    <3> QED
      BY <3>1, <3>2
  <2>4. op' \in [Procs -> [kind: Kinds, pos: NonNegative, len: 0..MaxCount,
                           off: 0..(PageSize - 1), target: Entries, found: BOOLEAN]]
    BY <2>1, <2>2, FoundTyped
  <2> QED
    BY <1>7, <2>3, <2>4 DEF SaveEntry, device
<1>8. ASSUME NEW frame \in Entries, MapEntry(p, frame) PROVE WindowTypeOK'
  BY <1>8 DEF MapEntry, device
<1>9. ASSUME NEW next \in Steps, AimCopy(p, next) PROVE WindowTypeOK'
  <2> DEFINE off == OffsetOf(fpos[FileOf[p]])
  <2>1. /\ op' = [op EXCEPT ![p].off = off] /\ pc' = [pc EXCEPT ![p] = next]
        /\ UNCHANGED <<device, fpos, pte, tlb, mem, saved, data>>
    BY <1>9 DEF AimCopy
  <2> HIDE DEF off
  <2>2. op' \in [Procs -> [kind: {"none", "read", "write"}, pos: NonNegative, len: 0..MaxCount,
                           off: 0..(PageSize - 1), target: Entries, found: BOOLEAN]]
    BY <1>pos, <2>1, OffTyped DEF off
  <2> QED
    BY <2>1, <2>2 DEF device
<1>10. CASE ReadByte(p)
  BY <1>10 DEF ReadByte, Accessible, device
<1>11. ASSUME NEW v \in Values, WriteByte(p, v) PROVE WindowTypeOK'
  BY <1>11 DEF WriteByte, Accessible, device
<1>12. CASE FinishCall(p)
  <2>1. op[p].pos \in Positions
    BY <1>0
  <2> QED
    BY <1>12, <1>0, <1>i, <1>s, <2>1, FilesAssumption DEF FinishCall, device
<1>13. CASE AbortCall(p)
  BY <1>13, <1>0, <1>i, <1>s DEF AbortCall
<1>16. CASE Oops(p)
  BY <1>16, <1>0, <1>i, <1>s DEF Oops
<1> QED
  BY <1>5, <1>6, <1>7, <1>8, <1>9, <1>10, <1>11, <1>12, <1>13, <1>16
=============================================================================
