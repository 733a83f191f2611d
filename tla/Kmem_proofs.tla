---------------------------- MODULE Kmem_proofs ----------------------------
(***************************************************************************)
(* Proofs about the kmem driver, for any number of threads, files, frames  *)
(* and pages, any page size and any contents of the page tables.           *)
(***************************************************************************)
EXTENDS Kmem, PageWindow_proofs

USE DEF Addrs, Positions, NonNegative, Frames, Entries, MemSize, PosSize, FrameOf, OffsetOf

(* Reducing modulo twice a number first changes no remainder. *)
LEMMA ModHalf ==
    ASSUME NEW H \in Nat \ {0}, NEW D \in Nat \ {0}, D = 2 * H, NEW x \in Int
    PROVE  (x % D) % H = x % H
<1> DEFINE q == x \div D
           r == x % D
           q2 == r \div H
           r2 == r % H
<1>1. x = D * q + r /\ r \in 0..(D - 1) /\ q \in Int
  BY DivMod, Zenon
<1> HIDE DEF q, r
<1>2. x = D * q + r /\ r \in Int /\ q \in Int
  BY <1>1
<1>3. r = H * q2 + r2 /\ q2 \in Int /\ r2 \in 0..(H - 1)
  BY <1>2, DivMod
<1> HIDE DEF q2, r2
<1>4. 2 * q + q2 \in Int /\ x = (2 * q + q2) * H + r2
  BY <1>2, <1>3
<1>5. ((2 * q + q2) * H + r2) % H = r2
  BY <1>3, <1>4, ModUnique
<1> QED
  BY <1>4, <1>5 DEF r, r2

(* Reducing a summand first changes no remainder. *)
LEMMA ModSum ==
    ASSUME NEW H \in Nat \ {0}, NEW x \in Int, NEW o \in Int
    PROVE  ((x % H) + o) % H = (x + o) % H
<1> DEFINE q == x \div H
           r == x % H
           q2 == (r + o) \div H
           r2 == (r + o) % H
<1>1. x = H * q + r /\ r \in Int /\ q \in Int
  BY DivMod
<1>2. r + o \in Int
  BY <1>1
<1>3. r + o = H * q2 + r2 /\ q2 \in Int /\ r2 \in 0..(H - 1)
  BY <1>2, DivMod
<1> HIDE DEF q, r, q2, r2
<1>4. q + q2 \in Int /\ x + o = (q + q2) * H + r2
  BY <1>1, <1>3
<1>5. ((q + q2) * H + r2) % H = r2
  BY <1>3, <1>4, ModUnique
<1> QED
  BY <1>4, <1>5 DEF r, r2

(* The sizes: a position is below half the width of an address. *)
LEMMA Sizes ==
    /\ 2 * Block * PageSize \in Nat \ {0} /\ MemSize = 2 * Block * PageSize
    /\ WidthSize = 2 * (2 * Block * PageSize) /\ WidthSize \in Nat \ {0}
    /\ \A a \in Addrs : a \in NonNegative /\ a \in Positions
    /\ \A x \in Int : Masked(x) \in Addrs
<1> DEFINE H == 2 * Block * PageSize
<1>1. H \in Nat \ {0} /\ MemSize = H
  BY BlockAssumption, SizeAssumption
<1>2. WidthSize = 2 * H /\ WidthSize \in Nat \ {0}
  <2>1. 4 * Block * PageSize = 2 * (2 * Block * PageSize)
    BY BlockAssumption, SizeAssumption
  <2> QED
    BY <2>1, <1>1 DEF WidthSize
<1>3. ASSUME NEW a \in Addrs PROVE a \in NonNegative /\ a \in Positions
  <2>1. /\ (NFrames + Beyond) * PageSize = MemSize + Beyond * PageSize
        /\ (NFrames + Beyond + 1) * PageSize = MemSize + Beyond * PageSize + PageSize
        /\ Beyond * PageSize \in Nat /\ MemSize \in Nat /\ PageSize \in Nat
    BY SizeAssumption
  <2> HIDE DEF MemSize
  <2> QED
    BY <2>1, <1>3
<1>4. ASSUME NEW x \in Int PROVE Masked(x) \in Addrs
  <2> HIDE DEF H
  <2>1. x % H \in 0..(H - 1)
    BY <1>1, DivMod
  <2> QED
    BY <2>1, <1>1 DEF Masked, H
<1> QED
  BY <1>1, <1>2, <1>3, <1>4

(* kmem_llseek on the masked position is kmem_llseek on the address, masked. *)
LEMMA SeekMasked ==
    ASSUME NEW a \in 0..(WidthSize - 1), NEW offset \in 0..(WidthSize - 1), NEW whence \in Whences
    PROVE  Masked(Seek(Masked(a), offset, whence, WidthSize))
             = Masked(Seek(a, offset, whence, WidthSize))
<1> DEFINE H == 2 * Block * PageSize
<1>1. H \in Nat \ {0} /\ WidthSize = 2 * H /\ WidthSize \in Nat \ {0}
  BY Sizes
<1>2. \A x : Masked(x) = x % H
  BY DEF Masked
<1> HIDE DEF H
<1>3. a \in Int /\ offset \in Int /\ a + offset \in Int /\ a % H \in Int
  BY <1>1, DivMod
<1>4. (a % H) + offset \in Int
  BY <1>3
<1>5. (a % H) % H = a % H
  <2>1. \A x, o \in Int : ((x % H) + o) % H = (x + o) % H
    BY <1>1, ModSum
  <2>2. ((a % H) + 0) % H = (a + 0) % H
    BY <1>3, <2>1
  <2>3. (a % H) + 0 = a % H /\ a + 0 = a
    BY <1>3
  <2> QED
    BY <2>2, <2>3
<1>6. (((a % H) + offset) % WidthSize) % H = ((a + offset) % WidthSize) % H
  <2>1. \A x \in Int : (x % WidthSize) % H = x % H
    BY <1>1, ModHalf
  <2>2. ((a % H) + offset) % H = (a + offset) % H
    BY <1>1, <1>3, ModSum
  <2> QED
    BY <1>3, <1>4, <2>1, <2>2
<1> QED
  BY <1>2, <1>5, <1>6 DEF Seek, Whences

(* Masking and sign extension lose nothing of a canonical address. *)
LEMMA CanonicalPage ==
    ASSUME NEW a \in 0..(WidthSize - 1), Canonical(FrameOf(a))
    PROVE  SignExtended(FrameOf(Masked(a))) = FrameOf(a)
<1> DEFINE H == 2 * Block * PageSize
           v == FrameOf(a)
           i == OffsetOf(a)
<1>1. /\ H \in Nat \ {0} /\ WidthSize = 2 * H /\ Block \in Nat \ {0} /\ PageSize \in Nat \ {0}
      /\ a \in Int
  BY Sizes, BlockAssumption, SizeAssumption
<1>2. v \in Int /\ i \in 0..(PageSize - 1) /\ a = PageSize * v + i
  BY <1>1, DivMod
<1>3. Masked(a) = a % H
  BY DEF Masked
<1>4. Canonical(v)
  OBVIOUS
<1> HIDE DEF v, i, FrameOf, OffsetOf
<1>5. CASE v \in 0..(Block - 1)
  <2>1. v + 1 <= Block /\ PageSize * (v + 1) <= PageSize * Block
    BY <1>1, <1>2, <1>5
  <2>2. a < PageSize * Block /\ a >= 0
    BY <1>1, <1>2, <2>1
  <2>3. PageSize * Block <= H
    BY <1>1
  <2>4. a \in 0..(H - 1) /\ 0 * H + a = a
    BY <1>1, <2>2, <2>3
  <2> HIDE DEF H
  <2>5. (0 * H + a) % H = a
    BY <1>1, <2>4, ModUnique
  <2>6. FrameOf(Masked(a)) = v /\ FrameOf(a) = v
    BY <1>3, <2>4, <2>5 DEF v
  <2> QED
    BY <2>6, <1>1, <1>5 DEF SignExtended
<1>6. CASE v \in 3 * Block .. (4 * Block - 1)
  <2> DEFINE w == v - 2 * Block
  <2>1. w \in Int /\ w >= Block /\ w + 1 <= 2 * Block
    BY <1>1, <1>2, <1>6
  <2>2. /\ PageSize * (w + 1) <= PageSize * (2 * Block) /\ w * PageSize \in Nat
        /\ PageSize * (w + 1) = w * PageSize + PageSize
        /\ PageSize * (2 * Block) = H
    BY <1>1, <2>1
  <2>3. w * PageSize + i \in 0..(H - 1)
    BY <1>1, <1>2, <2>2
  <2>4. a = 1 * H + (w * PageSize + i)
    BY <1>1, <1>2
  <2> HIDE DEF w
  <2>5. a % H = w * PageSize + i
    <3> DEFINE r == w * PageSize + i
    <3>1. H \in Nat \ {0} /\ r \in 0..(H - 1) /\ a = 1 * H + r
      BY <1>1, <2>3, <2>4
    <3> HIDE DEF H, r
    <3>2. (1 * H + r) % H = r
      BY <3>1, ModUnique
    <3> QED
      BY <3>1, <3>2 DEF r
  <2>6. FrameOf(w * PageSize + i) = w
    BY <1>1, <1>2, <2>1, DivUnique DEF FrameOf
  <2>7. w + 2 * Block = v
    BY <1>1, <1>2 DEF w
  <2> QED
    BY <1>3, <2>5, <2>6, <2>7, <2>1 DEF SignExtended, v
<1> QED
  BY <1>4, <1>5, <1>6 DEF Canonical

(* Translating an address yields an entry or nothing, and the frame that   *)
(* the tables name when neither a walk goes astray nor virt_to_phys errs.  *)
LEMMA PhysAddrTyped ==
    ASSUME NEW v \in VPages
    PROVE  /\ PhysAddr(v) \ {NULL} \subseteq Entries
           /\ (v \notin AstrayPages /\ TextLinear(v)) => PhysAddr(v) = {PageTable[v]}
<1>1. PageTable[v] \in Frames \union {NULL}
  BY PageTableAssumption
<1>2. \A f \in Frames : f \in Entries
  BY SizeAssumption
<1>3. CASE v < TextStart \/ v >= ModuleStart
  BY <1>1, <1>2, <1>3 DEF PhysAddr, GetPte
<1>4. CASE ~(v < TextStart \/ v >= ModuleStart)
  <2>1. v \in TextStart .. (ModuleStart - 1)
    BY <1>4, LayoutAssumption, BlockAssumption DEF VPages
  <2>2. PhysAddr(v) = {VirtToPhys(v)}
    BY <1>4 DEF PhysAddr
  <2>3. VirtToPhys(v) \in Entries
    <3>1. /\ v \in Int /\ TextStart \in Int /\ ModuleStart \in Int /\ TextFrame \in Nat
          /\ NFrames \in Int /\ Beyond \in Int
          /\ TextFrame + (ModuleStart - TextStart) <= NFrames + Beyond + 1
      BY LayoutAssumption, BlockAssumption, SizeAssumption DEF VPages
    <3> QED
      BY <2>1, <3>1 DEF VirtToPhys
  <2>4. TextLinear(v) => PageTable[v] = VirtToPhys(v)
    BY <2>1 DEF TextLinear
  <2> QED
    BY <2>2, <2>3, <2>4
<1> QED
  BY <1>3, <1>4

(* The page that a position's sign extension names exists. *)
LEMMA SignExtendedTyped ==
    ASSUME NEW pos \in Addrs
    PROVE  SignExtended(FrameOf(pos)) \in VPages
<1>1. FrameOf(pos) \in Frames
  BY AddressPage
<1> HIDE DEF FrameOf
<1> QED
  BY <1>1, BlockAssumption DEF SignExtended, VPages

-----------------------------------------------------------------------------
LEMMA TypeInit == Init => TypeOK
<1>1. 0 \in Addrs /\ 0 \in 0..(WidthSize - 1)
  BY Sizes
<1> HIDE DEF Addrs
<1> QED
  BY <1>1, WindowTypeInit DEF Init, WindowInit, TypeOK, Idle

(* Every step keeps the types, and every position below physical memory's size. *)
LEMMA TypeNext == TypeOK /\ [Next]_kvars => TypeOK'
<1> SUFFICES ASSUME TypeOK, [Next]_kvars PROVE TypeOK'
  OBVIOUS
<1> DEFINE Rest == /\ fpos \in [Files -> Addrs]
                   /\ \A p \in Procs : op[p].pos \in Addrs
                   /\ aimed \in [Files -> 0..(WidthSize - 1)]
<1>w. WindowTypeOK /\ Rest
  BY DEF TypeOK
<1>0. 0 \in Addrs /\ 0 \in 0..(WidthSize - 1)
  BY Sizes
<1>t. /\ op \in [Procs -> [kind: Kinds, pos: NonNegative, len: 0..MaxCount,
                           off: 0..(PageSize - 1), target: Entries, found: BOOLEAN]]
      /\ pc \in [Procs -> Steps]
  BY <1>w DEF WindowTypeOK
<1>f. \A p \in Procs : FileOf[p] \in Files
  BY FilesAssumption
<1> HIDE DEF Addrs, Positions, NonNegative, Entries, Frames, FrameOf, OffsetOf
<1>1. CASE UNCHANGED kvars \/ Lifetime
  <2>1. WindowTypeOK'
    BY <1>1, <1>w, EnvironmentTypes DEF Lifetime, kvars
  <2>2. Rest'
    <3>1. CASE UNCHANGED kvars
      BY <3>1, <1>w DEF kvars, vars
    <3>2. CASE (LoadModule \/ UnloadModule) /\ UNCHANGED aimed
      BY <3>2, <1>w DEF LoadModule, UnloadModule, calls
    <3>3. ASSUME NEW f \in Files, OpenFile(f), aimed' = [aimed EXCEPT ![f] = 0] PROVE Rest'
      BY <3>3, <1>w, <1>0 DEF OpenFile, calls
    <3>4. ASSUME NEW f \in Files, ReleaseFile(f), UNCHANGED aimed PROVE Rest'
      BY <3>4, <1>w DEF ReleaseFile, calls
    <3> QED
      BY <1>1, <3>1, <3>2, <3>3, <3>4 DEF Lifetime
  <2> QED
    BY <2>1, <2>2 DEF TypeOK
<1>2. ASSUME NEW p \in Procs, Enter(p) PROVE TypeOK'
  <2>1. PICK kind \in {"read", "write"}, count \in 0..MaxCount : EnterCall(p, kind, count)
    BY <1>2 DEF Enter
  <2>2. WindowTypeOK'
    BY <2>1, <1>w, CallTypes
  <2>3. Rest'
    BY <2>1, <1>2, <1>w, <1>t, <1>f DEF EnterCall, Enter, Idle
  <2> QED
    BY <2>2, <2>3 DEF TypeOK
<1>3. ASSUME NEW p \in Procs, Translate(p) PROVE TypeOK'
  <2> DEFINE v == SignExtended(FrameOf(fpos[FileOf[p]]))
  <2>1. PICK frame \in PhysAddr(v) \ {NULL} :
           op' = [op EXCEPT ![p].len = ClippedLen(p), ![p].target = frame]
    BY <1>3 DEF Translate
  <2>2. v \in VPages
    BY <1>w, <1>f, SignExtendedTyped
  <2> HIDE DEF v
  <2>3. frame \in Entries
    BY <2>2, PhysAddrTyped
  <2>4. ClippedLen(p) \in 0..MaxCount
    BY <1>w, ClipFits
  <2> HIDE DEF ClippedLen
  <2>5. WindowTypeOK'
    <3>1. op' \in [Procs -> [kind: Kinds, pos: NonNegative, len: 0..MaxCount,
                            off: 0..(PageSize - 1), target: Entries, found: BOOLEAN]]
      <4> DEFINE Calls == [kind: Kinds, pos: NonNegative, len: 0..MaxCount,
                           off: 0..(PageSize - 1), target: Entries, found: BOOLEAN]
                 call == [op[p] EXCEPT !.len = ClippedLen(p), !.target = frame]
      <4>1. call \in Calls
        BY <1>t, <2>3, <2>4
      <4>2. op \in [Procs -> Calls] /\ op' = [op EXCEPT ![p] = call]
        BY <1>t, <2>1
      <4> HIDE DEF Calls, call
      <4>3. op' \in [Procs -> Calls]
        BY <4>1, <4>2
      <4> QED
        BY <4>3 DEF Calls
    <3> QED
      BY <1>3, <1>w, <3>1 DEF Translate, WindowTypeOK, Steps, device
  <2>6. Rest'
    BY <1>3, <1>w, <1>t, <2>1 DEF Translate
  <2> QED
    BY <2>5, <2>6 DEF TypeOK
<1>4. ASSUME NEW p \in Procs, TranslateOops(p) PROVE TypeOK'
  <2>1. Idle \in [kind: Kinds, pos: NonNegative, len: 0..MaxCount,
                  off: 0..(PageSize - 1), target: Entries, found: BOOLEAN]
    BY InitialTypes
  <2>2. WindowTypeOK'
    BY <1>4, <1>w, <2>1 DEF TranslateOops, WindowTypeOK, Steps, device
  <2>3. Rest'
    BY <1>4, <1>w, <1>t, <1>0 DEF TranslateOops, Idle
  <2> QED
    BY <2>2, <2>3 DEF TypeOK
<1>5. ASSUME NEW p \in Procs, Save(p) PROVE TypeOK'
  <2>1. WindowTypeOK'
    BY <1>5, <1>w, CallTypes DEF Save
  <2>2. PICK found \in Lookups : op' = [op EXCEPT ![p].found = found]
    BY <1>5 DEF Save, SaveEntry
  <2>3. \A q \in Procs : op'[q].pos = op[q].pos
    BY <2>2, <1>t
  <2>4. UNCHANGED <<fpos, aimed>>
    BY <1>5 DEF Save, SaveEntry
  <2> QED
    BY <2>1, <2>3, <2>4, <1>w DEF TypeOK
<1>6. ASSUME NEW p \in Procs, Map(p) PROVE TypeOK'
  <2>1. op[p].target \in Entries
    BY <1>t
  <2>2. WindowTypeOK'
    BY <1>6, <1>w, <2>1, CallTypes DEF Map
  <2>3. UNCHANGED <<fpos, op, aimed>>
    BY <1>6 DEF Map, MapEntry
  <2> QED
    BY <2>2, <2>3, <1>w DEF TypeOK
<1>7. ASSUME NEW p \in Procs, Aim(p) PROVE TypeOK'
  <2>1. \E next \in Steps : AimCopy(p, next)
    BY <1>7 DEF Aim, Steps
  <2>2. WindowTypeOK'
    BY <2>1, <1>w, CallTypes
  <2>3. Rest'
    BY <1>7, <1>w, <1>t DEF Aim, AimCopy
  <2> QED
    BY <2>2, <2>3 DEF TypeOK
<1>8. ASSUME NEW p \in Procs, AbortCall(p), UNCHANGED aimed PROVE TypeOK'
  <2>1. Rest'
    BY <1>8, <1>w, <1>t, <1>0 DEF AbortCall, Idle
  <2> QED
    BY <2>1, <1>8, <1>w, CallTypes DEF TypeOK
<1>9. ASSUME NEW p \in Procs, Stage(p) PROVE TypeOK'
  <2>1. CASE /\ pc' = [pc EXCEPT ![p] = "copy"]
             /\ UNCHANGED <<device, fpos, pte, tlb, mem, op, saved, data, aimed>>
    BY <2>1, <1>w DEF TypeOK, WindowTypeOK, Steps, device
  <2> QED
    BY <1>8, <1>9, <2>1 DEF Stage
<1>10. ASSUME NEW p \in Procs, Copy(p) PROVE TypeOK'
  <2>1. WindowTypeOK'
    BY <1>10, <1>w, CallTypes DEF Copy
  <2>2. UNCHANGED <<fpos, op, aimed>>
    BY <1>10 DEF Copy, ReadByte, WriteByte
  <2> QED
    BY <2>1, <2>2, <1>w DEF TypeOK
<1>11. ASSUME NEW p \in Procs, FinishCall(p), UNCHANGED aimed PROVE TypeOK'
  <2>1. Rest'
    BY <1>11, <1>w, <1>t, <1>f, <1>0 DEF FinishCall, Idle
  <2> QED
    BY <2>1, <1>11, <1>w, CallTypes DEF TypeOK
<1>12. ASSUME NEW p \in Procs, NEW offset \in 0..(WidthSize - 1), NEW whence \in Whences,
              Llseek(p, offset, whence)
       PROVE  TypeOK'
  <2> DEFINE f == FileOf[p]
             pos == Masked(Seek(fpos[f], offset, whence, WidthSize))
             to == Seek(aimed[f], offset, whence, WidthSize)
  <2>1. f \in Files /\ fpos[f] \in Addrs /\ aimed[f] \in 0..(WidthSize - 1)
    BY <1>w, <1>f
  <2>2. WidthSize \in Nat \ {0} /\ fpos[f] \in 0..(WidthSize - 1)
    BY <2>1, Sizes DEF Addrs
  <2>3. /\ to \in 0..(WidthSize - 1)
        /\ Seek(fpos[f], offset, whence, WidthSize) \in 0..(WidthSize - 1)
    BY <2>1, <2>2, SeekInRange
  <2>4. pos \in Addrs /\ pos \in Positions
    BY <2>2, <2>3, Sizes
  <2>5. MoveTo(p, pos) /\ aimed' = [aimed EXCEPT ![f] = to] /\ named' = named
    BY <1>12 DEF Llseek
  <2> HIDE DEF pos, to
  <2>6. WindowTypeOK'
    BY <2>4, <2>5, <1>w, CallTypes DEF WindowTypeOK
  <2>7. Rest'
    BY <2>1, <2>3, <2>4, <2>5, <1>w DEF MoveTo, calls
  <2> QED
    BY <2>6, <2>7 DEF TypeOK
<1>13. ASSUME NEW p \in Procs, TlbFill(p) \/ TlbEvict(p), UNCHANGED aimed PROVE TypeOK'
  <2>1. UNCHANGED <<fpos, op, aimed>>
    BY <1>13 DEF TlbFill, TlbEvict, calls
  <2> QED
    BY <2>1, <1>13, <1>w, EnvironmentTypes DEF TypeOK
<1>14. ASSUME NEW p \in Procs, WriteOops(p) PROVE TypeOK'
  <2>1. Oops(p) /\ UNCHANGED aimed
    BY <1>14 DEF WriteOops
  <2>2. Rest'
    BY <2>1, <1>w, <1>t, <1>0 DEF Oops, Idle
  <2> QED
    BY <2>1, <2>2, <1>w, CallTypes DEF TypeOK
<1> QED
  BY <1>1, <1>2, <1>3, <1>4, <1>5, <1>6, <1>7, <1>8, <1>9, <1>10, <1>11, <1>12, <1>13, <1>14
  DEF Next, Finish, ReadFault

(* The type invariant holds of every reachable state of the driver. *)
THEOREM TypeCorrect == Spec => []TypeOK
  BY TypeInit, TypeNext, PTL DEF Spec

-----------------------------------------------------------------------------
(***************************************************************************)
(* A write is all or nothing, however calls overlap.                       *)
(***************************************************************************)
LEMMA StagedInit == Init => StagedInv
<1> SUFFICES ASSUME Init, NEW p \in Procs
             PROVE  data[p] = <<>> /\ Len(data[p]) <= op[p].len /\ pc[p] = "idle"
  BY DEF StagedInv
<1>1. data[p] = <<>> /\ op[p].len = 0 /\ pc[p] = "idle"
  BY DEF Init, WindowInit, Idle
<1> QED
  BY <1>1

LEMMA StagedNext == TypeOK /\ StagedInv /\ [Next]_kvars => StagedInv'
<1> SUFFICES ASSUME TypeOK, StagedInv, [Next]_kvars PROVE StagedInv'
  OBVIOUS
<1> USE DEF StagedInv
<1>t. /\ pc \in [Procs -> Steps] /\ data \in [Procs -> Seq(Values)]
      /\ op \in [Procs -> [kind: Kinds, pos: NonNegative, len: 0..MaxCount,
                           off: 0..(PageSize - 1), target: Entries, found: BOOLEAN]]
  BY DEF TypeOK, WindowTypeOK
<1>c. \A p \in Procs : ClippedLen(p) \in 0..MaxCount /\ ClippedLen(p) <= PageSize
  BY ClipFits DEF TypeOK
<1>l. \A p \in Procs : Len(data[p]) \in Nat /\ op[p].len \in Nat
  BY <1>t, SizeAssumption
<1>e. Len(<<>>) = 0
  OBVIOUS
<1> HIDE DEF Addrs, Positions, NonNegative, Entries, Frames, FrameOf, OffsetOf
<1>1. CASE UNCHANGED <<pc, op, data>>
  BY <1>1
<1>2. ASSUME NEW p \in Procs, NEW kind \in {"read", "write"}, NEW count \in 0..MaxCount,
             EnterCall(p, kind, count)
      PROVE  StagedInv'
  BY <1>2, <1>t, <1>e, SizeAssumption DEF EnterCall, Idle
<1>3. ASSUME NEW p \in Procs, Translate(p) PROVE StagedInv'
  <2>1. PICK frame : op' = [op EXCEPT ![p].len = ClippedLen(p), ![p].target = frame]
    BY <1>3 DEF Translate
  <2> HIDE DEF ClippedLen
  <2>2. op'[p].len = ClippedLen(p)
    BY <2>1, <1>t
  <2>3. \A q \in Procs : q # p => op'[q] = op[q]
    BY <2>1, <1>t
  <2>4. /\ pc[p] = "clip" /\ UNCHANGED data
        /\ \A q \in Procs : pc'[q] # "copy" => pc[q] # "copy"
        /\ \A q \in Procs : q # p => pc'[q] = pc[q]
    BY <1>3, <1>t DEF Translate
  <2>5. data[p] = <<>> /\ 0 <= ClippedLen(p) /\ ClippedLen(p) <= PageSize
    BY <2>4, <1>c
  <2> SUFFICES ASSUME NEW q \in Procs
               PROVE  /\ pc'[q] # "copy" => data'[q] = <<>>
                      /\ Len(data'[q]) <= op'[q].len
                      /\ pc'[q] \notin {"idle", "dead", "clip"} => op'[q].len <= PageSize
    OBVIOUS
  <2>6. CASE q = p
    BY <2>2, <2>4, <2>5, <2>6, <1>e
  <2>7. CASE q # p
    BY <2>3, <2>4, <2>7
  <2> QED
    BY <2>6, <2>7
<1>4. ASSUME NEW p \in Procs, TranslateOops(p) PROVE StagedInv'
  BY <1>4, <1>t, <1>e DEF TranslateOops, Idle
<1>5. ASSUME NEW p \in Procs, Save(p) \/ Map(p) \/ Aim(p) PROVE StagedInv'
  <2>1. CASE Save(p)
    BY <2>1, <1>t DEF Save, SaveEntry
  <2>2. CASE Map(p)
    BY <2>2, <1>t DEF Map, MapEntry
  <2>3. CASE Aim(p)
    BY <2>3, <1>t DEF Aim, AimCopy
  <2> QED
    BY <1>5, <2>1, <2>2, <2>3
<1>6. ASSUME NEW p \in Procs, AbortCall(p) \/ FinishCall(p) \/ Oops(p) PROVE StagedInv'
  BY <1>6, <1>t, <1>e DEF AbortCall, FinishCall, Oops, Idle
<1>7. ASSUME NEW p \in Procs, Stage(p) PROVE StagedInv'
  BY <1>6, <1>7, <1>t DEF Stage
<1>8. ASSUME NEW p \in Procs, NEW v \in Values, data' = [data EXCEPT ![p] = Append(data[p], v)],
             UNCHANGED <<pc, op>>, pc[p] = "copy", MoreToCopy(p)
      PROVE  StagedInv'
  <2>1. Len(data'[p]) = Len(data[p]) + 1
    BY <1>8, <1>t
  <2> QED
    BY <2>1, <1>8, <1>t, <1>l DEF MoreToCopy
<1>9. ASSUME NEW p \in Procs, Copy(p) PROVE StagedInv'
  <2>1. ReadByte(p) => mem[NextByte(p)] \in Values
    BY DEF ReadByte, Accessible, TypeOK, WindowTypeOK
  <2> QED
    BY <1>8, <1>9, <2>1 DEF Copy, ReadByte, WriteByte
<1>10. \/ UNCHANGED <<pc, op, data>>
       \/ \E p \in Procs :
            \/ Enter(p) \/ Translate(p) \/ TranslateOops(p) \/ Save(p) \/ Map(p) \/ Aim(p)
            \/ Stage(p) \/ Copy(p) \/ FinishCall(p) \/ AbortCall(p) \/ Oops(p)
  BY DEF Next, WriteOops, kvars, vars, Lifetime, LoadModule, UnloadModule, OpenFile, ReleaseFile, Llseek,
         MoveTo, TlbFill, TlbEvict, calls, Finish, ReadFault
<1> QED
  BY <1>1, <1>2, <1>3, <1>4, <1>5, <1>6, <1>7, <1>9, <1>10 DEF Enter

(* Byte i of a page is in physical memory when the page's frame is. *)
LEMMA FrameBytes ==
    ASSUME NEW f \in Frames, NEW i \in 0..(PageSize - 1)
    PROVE  f * PageSize + i \in Addrs
<1>1. /\ f \in Int /\ f + 1 <= NFrames /\ 0 <= f /\ NFrames \in Int
      /\ PageSize \in Nat \ {0}
  BY SizeAssumption
<1>2. (f + 1) * PageSize <= NFrames * PageSize /\ 0 <= f * PageSize
  BY <1>1
<1>3. (f + 1) * PageSize = f * PageSize + PageSize /\ f * PageSize \in Int
      /\ NFrames * PageSize \in Int
  BY <1>1
<1> DEFINE start == f * PageSize
           size == NFrames * PageSize
<1>4. /\ start + PageSize <= size /\ 0 <= start /\ start \in Int /\ size \in Int
      /\ PageSize \in Int
  BY <1>1, <1>2, <1>3
<1> HIDE DEF start, size
<1>5. start + i \in 0..(size - 1)
  BY <1>4
<1> QED
  BY <1>5 DEF start, size

(* The memcpy of a write can only fault when the window shows no frame. *)
LEMMA FaultBeyond ==
    ASSUME TypeOK, StagedInv, NEW p \in Procs, WriteOops(p)
    PROVE  pte \notin Frames
<1>1. /\ pc[p] = "copy" /\ Len(data[p]) < op[p].len /\ NextByte(p) \notin Addrs
  BY DEF WriteOops, MoreToCopy, Accessible
<1>2. op[p].len <= PageSize
  BY <1>1 DEF StagedInv
<1> DEFINE i == op[p].off + Len(data[p])
<1>3. tlb[p] \in Frames \union {NULL} /\ op[p].off \in 0..(PageSize - 1) /\ Len(data[p]) \in Nat
      /\ op[p].len \in Nat
  BY SizeAssumption DEF TypeOK, WindowTypeOK
<1>4. i \in Int /\ 0 <= i /\ i < 2 * PageSize
  <2>1. \A o, l, m \in Nat, size \in Nat :
           o <= size - 1 /\ l < m /\ m <= size
              => o + l \in Int /\ 0 <= o + l /\ o + l < 2 * size
    OBVIOUS
  <2>2. PageSize \in Nat /\ op[p].off \in Nat /\ op[p].off <= PageSize - 1
    BY <1>3, SizeAssumption
  <2> QED
    BY <1>1, <1>2, <1>3, <2>1, <2>2
<1>5. NextByte(p) = Reached(p, i)
  BY DEF NextByte
<1> HIDE DEF i, Frames, Addrs
<1>6. CASE i < PageSize
  <2>1. i \in 0..(PageSize - 1)
    BY <1>4, <1>6, SizeAssumption
  <2>2. NextByte(p) = Translation(p) * PageSize + i
    BY <1>5, <1>6 DEF Reached
  <2>3. Translation(p) \notin Frames
    BY <1>1, <2>1, <2>2, FrameBytes
  <2> QED
    BY <1>3, <2>3 DEF Translation
<1>7. CASE ~(i < PageSize)
  <2>1. i - PageSize \in 0..(PageSize - 1)
    BY <1>4, <1>7, SizeAssumption
  <2>2. NextByte(p) = Adjacent * PageSize + (i - PageSize)
    BY <1>5, <1>7 DEF Reached
  <2>3. Adjacent \in Frames
    BY FrameAssumption DEF Frames
  <2> QED
    BY <1>1, <2>1, <2>2, <2>3, FrameBytes
<1> QED
  BY <1>6, <1>7

(* Whatever the callers, the TLBs and failing lookups do, a kmem_write     *)
(* that returns has stored all of its bytes or none of them, for the       *)
(* user's bytes are collected before the window is written.  Only a caller *)
(* that dies in the memcpy, because the window shows a frame beyond        *)
(* memory, may leave a part of them behind.                                *)
THEOREM WriteAtomic == Spec => WriteAllOrNothing
<1> DEFINE Whole == \A p \in Procs :
                      (op[p].kind = "write" /\ Active(p) /\ pc'[p] \in {"idle", "dead"})
                          => \/ Len(data[p]) \in {0, op[p].len}
                             \/ pc'[p] = "dead" /\ pte \notin Frames
<1>1. TypeOK /\ StagedInv /\ [Next]_kvars => [Whole]_kvars
  <2> SUFFICES ASSUME TypeOK, StagedInv, Next, NEW p \in Procs, op[p].kind = "write",
                      Active(p), pc'[p] \in {"idle", "dead"}
               PROVE  \/ Len(data[p]) \in {0, op[p].len}
                      \/ pc'[p] = "dead" /\ pte \notin Frames
    OBVIOUS
  <2>t. /\ pc \in [Procs -> Steps] /\ op[p].len \in Nat /\ Len(data[p]) \in Nat
        /\ Len(<<>>) = 0
    BY SizeAssumption DEF TypeOK, WindowTypeOK
  <2>1. CASE pc[p] # "copy"
    BY <2>1, <2>t DEF StagedInv
  <2>2. CASE pc[p] = "copy"
    <3>1. pc'[p] # pc[p]
      BY <2>2
    <3> HIDE DEF Addrs, Positions, NonNegative, Entries, Frames, FrameOf, OffsetOf
    <3>2. FinishCall(p) \/ WriteOops(p)
      <4>1. \A q \in Procs : FinishCall(q) => q = p
        BY <2>t, <3>1 DEF FinishCall
      <4>2. \A q \in Procs : ~Enter(q)
        BY <2>2, <2>t, <3>1 DEF Enter, EnterCall
      <4>3. \A q \in Procs : ~Translate(q)
        BY <2>2, <2>t, <3>1 DEF Translate
      <4>4. \A q \in Procs : ~TranslateOops(q)
        BY <2>2, <2>t, <3>1 DEF TranslateOops
      <4>5. \A q \in Procs : ~Save(q)
        BY <2>2, <2>t, <3>1 DEF Save, SaveEntry
      <4>6. \A q \in Procs : ~Map(q)
        BY <2>2, <2>t, <3>1 DEF Map, MapEntry
      <4>7. \A q \in Procs : ~Aim(q)
        BY <2>2, <2>t, <3>1 DEF Aim, AimCopy
      <4>8. \A q \in Procs : AbortCall(q) => q = p
        BY <2>t, <3>1 DEF AbortCall
      <4>9. ~ReadFault(p)
        BY DEF ReadFault
      <4>10. \A q \in Procs : ~Stage(q)
        <5> SUFFICES ASSUME NEW q \in Procs, Stage(q) PROVE FALSE
          OBVIOUS
        <5>1. pc[q] = "stage" /\ (AbortCall(q) \/ pc' = [pc EXCEPT ![q] = "copy"])
          BY DEF Stage
        <5>2. q # p
          BY <2>2, <5>1
        <5> QED
          BY <2>t, <3>1, <4>8, <5>1, <5>2
      <4>11. \A q \in Procs : ~Copy(q)
        BY <3>1 DEF Copy, ReadByte, WriteByte
      <4>12. \A q \in Procs : WriteOops(q) => q = p
        BY <2>t, <3>1 DEF WriteOops, Oops
      <4>13. pc' = pc \/ \E q \in Procs :
                \/ Enter(q) \/ Translate(q) \/ TranslateOops(q) \/ Save(q) \/ Map(q)
                \/ Aim(q) \/ Stage(q) \/ Copy(q) \/ WriteOops(q) \/ FinishCall(q)
                \/ ReadFault(q) /\ AbortCall(q)
        BY DEF Next, Lifetime, LoadModule, UnloadModule, OpenFile, ReleaseFile, Llseek,
               MoveTo, TlbFill, TlbEvict, calls, Finish, ReadFault
      <4> QED
        BY <3>1, <4>1, <4>2, <4>3, <4>4, <4>5, <4>6, <4>7, <4>8, <4>9,
           <4>10, <4>11, <4>12, <4>13
    <3>3. CASE FinishCall(p)
      BY <3>3, <2>t DEF FinishCall, MoreToCopy, StagedInv
    <3>4. CASE WriteOops(p)
      <4>1. pc'[p] = "dead"
        BY <3>4, <2>t DEF WriteOops, Oops
      <4> QED
        BY <3>4, <4>1, FaultBeyond
    <3> QED
      BY <3>2, <3>3, <3>4
  <2> QED
    BY <2>1, <2>2
<1>2. TypeOK /\ StagedInv /\ [Next]_kvars => (TypeOK /\ StagedInv)'
  BY TypeNext, StagedNext
<1>3. Init => TypeOK /\ StagedInv
  BY TypeInit, StagedInit
<1> QED
  BY <1>1, <1>2, <1>3, PTL DEF Spec, WriteAllOrNothing

-----------------------------------------------------------------------------
(***************************************************************************)
(* Calls one at a time.  TLBs may cache and lookups may fail: the          *)
(* properties say for which accesses that matters.                         *)
(***************************************************************************)
LEMMA SerialInit == Init => SerialInv
<1> SUFFICES ASSUME Init PROVE SerialInv
  OBVIOUS
<1>1. Masked(0) = 0
  <2>1. 2 * Block * PageSize \in Nat \ {0}
    BY Sizes
  <2> QED
    BY <2>1 DEF Masked
<1>2. AimInv
  BY <1>1 DEF Init, WindowInit, AimInv
<1> QED
  BY <1>2
  DEF Init, WindowInit, SerialInv, OneAtATime, CallInv, HomeInv, Windowed, Active, Idle

LEMMA SerialNext ==
    ~Overlap /\ TypeOK /\ SerialInv /\ [Next]_kvars => SerialInv'
<1> SUFFICES ASSUME ~Overlap, TypeOK, SerialInv, [Next]_kvars PROVE SerialInv'
  OBVIOUS
<1> USE DEF SerialInv, OneAtATime, AimInv, CallInv, HomeInv, Windowed, Active
<1>t. /\ pc \in [Procs -> Steps] /\ saved \in [Procs -> Entries]
      /\ fpos \in [Files -> Addrs] /\ open \subseteq Files
      /\ op \in [Procs -> [kind: Kinds, pos: NonNegative, len: 0..MaxCount,
                           off: 0..(PageSize - 1), target: Entries, found: BOOLEAN]]
      /\ aimed \in [Files -> 0..(WidthSize - 1)]
  BY DEF TypeOK, WindowTypeOK
<1>f. \A p \in Procs : FileOf[p] \in Files
  BY FilesAssumption
<1>c. \A p \in Procs : ClippedLen(p) <= PageSize - OffsetOf(fpos[FileOf[p]])
  BY ClipFits DEF TypeOK
<1>free. \A p, q \in Procs : Free(p) /\ q # p => ~Active(q)
  BY DEF Free
<1>0. Masked(0) = 0
  <2>1. 2 * Block * PageSize \in Nat \ {0}
    BY Sizes
  <2> QED
    BY <2>1 DEF Masked
<1> HIDE DEF Addrs, Positions, NonNegative, Entries, Frames, FrameOf, OffsetOf
<1>1. CASE LoadModule /\ UNCHANGED aimed
  BY <1>1, <1>t DEF LoadModule, calls
<1>2. CASE UnloadModule /\ UNCHANGED aimed
  BY <1>2 DEF UnloadModule, calls
<1>3. ASSUME NEW f \in Files, OpenFile(f), aimed' = [aimed EXCEPT ![f] = 0] PROVE SerialInv'
  BY <1>3, <1>t, <1>f, <1>0 DEF OpenFile, calls
<1>4. ASSUME NEW f \in Files, ReleaseFile(f), UNCHANGED aimed PROVE SerialInv'
  BY <1>4, <1>t, <1>f DEF ReleaseFile, calls
<1>5. ASSUME NEW p \in Procs, NEW kind \in {"read", "write"}, NEW count \in 0..MaxCount,
             EnterCall(p, kind, count), UNCHANGED aimed
      PROVE  SerialInv'
  BY <1>5, <1>t, <1>f, <1>free DEF EnterCall, Idle
<1>6. ASSUME NEW p \in Procs, Translate(p) PROVE SerialInv'
  <2> DEFINE v == FrameOf(aimed[FileOf[p]])
             w == SignExtended(FrameOf(fpos[FileOf[p]]))
  <2>1. PICK frame \in PhysAddr(w) \ {NULL} :
           op' = [op EXCEPT ![p].len = ClippedLen(p), ![p].target = frame]
    BY <1>6 DEF Translate
  <2>2. Canonical(v) /\ v \notin AstrayPages /\ TextLinear(v) => frame = PageTable[v]
    <3> SUFFICES ASSUME Canonical(v), v \notin AstrayPages, TextLinear(v)
                 PROVE  frame = PageTable[v]
      OBVIOUS
    <3>1. aimed[FileOf[p]] \in 0..(WidthSize - 1) /\ fpos[FileOf[p]] = Masked(aimed[FileOf[p]])
      BY <1>t, <1>f
    <3>2. w = v
      BY <3>1, CanonicalPage
    <3>3. w \in VPages
      BY <1>t, <1>f, SignExtendedTyped
    <3> QED
      BY <2>1, <3>2, <3>3, PhysAddrTyped
  <2>3. /\ pc[p] = "clip" /\ pc' = [pc EXCEPT ![p] = "save"]
        /\ UNCHANGED <<loaded, open, faulted, fpos, pte, saved, aimed>>
    BY <1>6 DEF Translate, device
  <2> HIDE DEF v, w, ClippedLen
  <2>4. op'[p].len = ClippedLen(p)
    BY <2>1, <1>t
  <2>5. op'[p].target = frame
    BY <2>1, <1>t
  <2>6. op'[p].pos = op[p].pos
    BY <2>1, <1>t
  <2>7. \A q \in Procs : q # p => op'[q] = op[q] /\ pc'[q] = pc[q]
    BY <2>1, <2>3, <1>t
  <2>8. pc'[p] = "save" /\ fpos[FileOf[p]] = op[p].pos
    BY <2>3, <1>t
  <2>9. \A q \in Procs : CallInv(q)'
    <3>1. CallInv(p)'
      BY <2>2, <2>3, <2>4, <2>5, <2>6, <2>8, <1>c DEF v
    <3>2. ASSUME NEW q \in Procs, q # p PROVE CallInv(q)'
      BY <2>3, <2>7, <3>2
    <3> QED
      BY <3>1, <3>2
  <2>10. HomeInv'
    BY <2>3, <2>7, <2>8
  <2>11. OneAtATime' /\ AimInv' /\ (open' # {} => loaded')
    BY <2>3, <2>7
  <2> QED
    BY <2>9, <2>10, <2>11
<1>7. ASSUME NEW p \in Procs, TranslateOops(p) PROVE SerialInv'
  BY <1>7, <1>t DEF TranslateOops, Idle, device
<1>8. ASSUME NEW p \in Procs, Save(p) PROVE SerialInv'
  <2>1. PICK found \in Lookups :
           /\ op' = [op EXCEPT ![p].found = found]
           /\ saved' = IF found THEN [saved EXCEPT ![p] = pte] ELSE saved
           /\ pc' = [pc EXCEPT ![p] = IF found THEN "map" ELSE "aim"]
    BY <1>8 DEF Save, SaveEntry
  <2>2. pc[p] = "save" /\ UNCHANGED <<loaded, open, faulted, fpos, pte, aimed>>
    BY <1>8 DEF Save, SaveEntry, device
  <2>3. op'[p].found <=> found
    BY <2>1, <1>t
  <2>4. /\ op'[p].pos = op[p].pos /\ op'[p].len = op[p].len /\ op'[p].target = op[p].target
        /\ pc'[p] = IF found THEN "map" ELSE "aim"
    BY <2>1, <1>t
  <2>5. \A q \in Procs : q # p => op'[q] = op[q] /\ pc'[q] = pc[q]
    BY <2>1, <1>t
  <2>6. found => saved'[p] = pte
    BY <2>1, <1>t
  <2>7. \A q \in Procs : CallInv(q)'
    BY <2>2, <2>3, <2>4, <2>5
  <2>8. HomeInv'
    BY <2>2, <2>3, <2>4, <2>5, <2>6
  <2> QED
    BY <2>2, <2>4, <2>5, <2>7, <2>8
<1>9. ASSUME NEW p \in Procs, Map(p) PROVE SerialInv'
  BY <1>9, <1>t DEF Map, MapEntry, device
<1>10. ASSUME NEW p \in Procs, Aim(p) PROVE SerialInv'
  BY <1>10, <1>t DEF Aim, AimCopy, device
<1>11. ASSUME NEW p \in Procs, AbortCall(p), UNCHANGED aimed PROVE SerialInv'
  BY <1>11, <1>t DEF AbortCall, Idle
<1>12. ASSUME NEW p \in Procs, pc[p] = "stage", pc' = [pc EXCEPT ![p] = "copy"],
              UNCHANGED <<device, fpos, pte, tlb, mem, op, saved, data, aimed>>
       PROVE  SerialInv'
  BY <1>12, <1>t DEF device
<1>13. ASSUME NEW p \in Procs, Copy(p) PROVE SerialInv'
  BY <1>13 DEF Copy, ReadByte, WriteByte, device
<1>14. ASSUME NEW p \in Procs, FinishCall(p), UNCHANGED aimed PROVE SerialInv'
  <2>1. /\ pc[p] = "copy" /\ pte' = IF op[p].found THEN saved[p] ELSE pte
        /\ UNCHANGED <<loaded, open, faulted, fpos, aimed>>
    <3>1. pc[p] = "copy" /\ fpos' = [fpos EXCEPT ![FileOf[p]] = op[p].pos]
      BY <1>14 DEF FinishCall
    <3>2. fpos[FileOf[p]] = op[p].pos
      BY <3>1
    <3>3. fpos' = fpos
      BY <3>1, <3>2, <1>t, <1>f
    <3> QED
      BY <3>1, <3>3, <1>14 DEF FinishCall, device
  <2>2. /\ pc'[p] = "idle"
        /\ \A q \in Procs : q # p => /\ op'[q] = op[q] /\ pc'[q] = pc[q]
                                       /\ saved'[q] = saved[q] /\ ~Active(q)
    <3>1. /\ pc' = [pc EXCEPT ![p] = "idle"] /\ op' = [op EXCEPT ![p] = Idle]
          /\ saved' = [saved EXCEPT ![p] = Home]
      BY <1>14 DEF FinishCall
    <3>2. pc'[p] = "idle" /\ \A q \in Procs : q # p => pc'[q] = pc[q]
      BY <3>1, <1>t
    <3>3. \A q \in Procs : q # p => op'[q] = op[q] /\ saved'[q] = saved[q]
      BY <3>1, <1>t
    <3>4. \A q \in Procs : q # p => ~Active(q)
      BY <2>1
    <3> QED
      BY <3>2, <3>3, <3>4, Zenon
  <2>3. \A q \in Procs : CallInv(q)'
    BY <2>1, <2>2
  <2>4. HomeInv'
    BY <2>1, <2>2
  <2> QED
    BY <2>1, <2>2, <2>3, <2>4
<1>15. ASSUME NEW p \in Procs, NEW offset \in 0..(WidthSize - 1), NEW whence \in Whences,
              Llseek(p, offset, whence)
       PROVE  SerialInv'
  <2> DEFINE f == FileOf[p]
             pos == Masked(Seek(fpos[f], offset, whence, WidthSize))
             to == Seek(aimed[f], offset, whence, WidthSize)
  <2>1. f \in Files /\ aimed[f] \in 0..(WidthSize - 1) /\ fpos[f] = Masked(aimed[f])
    BY <1>t, <1>f
  <2>2. pos = Masked(to)
    BY <2>1, SeekMasked
  <2>3. MoveTo(p, pos) /\ aimed' = [aimed EXCEPT ![f] = to] /\ named' = named
    BY <1>15 DEF Llseek
  <2> HIDE DEF pos, to
  <2>4. AimInv'
    BY <2>1, <2>2, <2>3, <1>t DEF MoveTo
  <2>5. \A q \in Procs : ~Active(q) /\ UNCHANGED <<pc, op, saved>>
    BY <2>3, <1>free DEF MoveTo, calls
  <2>6. \A q \in Procs : CallInv(q)'
    BY <2>5
  <2>7. UNCHANGED <<loaded, open, pte, tlb, faulted>>
    BY <2>3 DEF MoveTo, calls
  <2>8. OneAtATime' /\ HomeInv'
    BY <2>5, <2>7
  <2> HIDE DEF OneAtATime, CallInv, HomeInv, AimInv, Active
  <2> QED
    BY <2>4, <2>6, <2>7, <2>8
<1>16. ASSUME NEW p \in Procs, TlbFill(p) \/ TlbEvict(p), UNCHANGED aimed PROVE SerialInv'
  BY <1>16 DEF TlbFill, TlbEvict, device, calls
<1>17. CASE UNCHANGED kvars
  BY <1>17 DEF kvars, vars
<1>18. ASSUME NEW p \in Procs, WriteOops(p) PROVE SerialInv'
  BY <1>18, <1>t DEF WriteOops, Oops, Idle
<1> HIDE DEF SerialInv, OneAtATime, CallInv, HomeInv, AimInv, Active
<1> QED
  BY <1>1, <1>2, <1>3, <1>4, <1>5, <1>6, <1>7, <1>8, <1>9, <1>10, <1>11, <1>12, <1>13,
     <1>14, <1>15, <1>16, <1>17, <1>18
  DEF Next, Lifetime, Enter, Stage, Finish, ReadFault

(* The next byte of a copy, given that the entry and the offset are right. *)
LEMMA SerialAccess == TypeOK /\ SerialInv => AccessHitsTarget /\ WindowHome
<1> SUFFICES ASSUME TypeOK, SerialInv PROVE AccessHitsTarget /\ WindowHome
  OBVIOUS
<1>1. AccessHitsTarget
  <2> SUFFICES ASSUME NEW p \in Procs, NEW v, v = FrameOf(aimed[FileOf[p]]),
                      Canonical(v), v \notin AstrayPages, TextLinear(v),
                      op[p].found, tlb[p] = NULL,
                      pc[p] \in {"copy", "pad"}, MoreToCopy(p)
               PROVE  NextByte(p) = PageTable[v] * PageSize + OffsetOf(op[p].pos) + Len(data[p])
    BY DEF AccessHitsTarget, HitsTarget
  <2>1. /\ pc[p] = "copy" /\ Translation(p) = PageTable[v]
        /\ op[p].off = OffsetOf(op[p].pos) /\ op[p].len <= PageSize - OffsetOf(op[p].pos)
    BY DEF SerialInv, CallInv, Windowed, Active, Translation
  <2>2. /\ op[p].off \in 0..(PageSize - 1) /\ Len(data[p]) \in Nat /\ op[p].len \in Nat
        /\ PageTable[v] \in Int
    <3>1. /\ op \in [Procs -> [kind: Kinds, pos: NonNegative, len: 0..MaxCount,
                               off: 0..(PageSize - 1), target: Entries, found: BOOLEAN]]
          /\ data \in [Procs -> Seq(Values)] /\ pte \in Entries
      BY DEF TypeOK, WindowTypeOK
    <3>2. Translation(p) = pte
      BY DEF Translation
    <3>3. Entries \subseteq Int
      BY SizeAssumption
    <3> HIDE DEF Entries, NonNegative, FrameOf, OffsetOf
    <3>4. PageTable[v] \in Int
      BY <2>1, <3>1, <3>2, <3>3
    <3>5. op[p].off \in 0..(PageSize - 1) /\ op[p].len \in Nat
      BY <3>1, SizeAssumption
    <3>6. Len(data[p]) \in Nat
      BY <3>1
    <3> QED
      BY <3>4, <3>5, <3>6
  <2> HIDE DEF FrameOf, OffsetOf
  <2>3. op[p].off + Len(data[p]) < PageSize
    <3>1. Len(data[p]) < op[p].len /\ op[p].len <= PageSize - op[p].off /\ PageSize \in Int
      BY <2>1, SizeAssumption DEF MoreToCopy
    <3>2. op[p].off \in Int /\ Len(data[p]) \in Int /\ op[p].len \in Int
      BY <2>2, SizeAssumption
    <3>3. \A o, l, m, size \in Int : l < m /\ m <= size - o => o + l < size
      OBVIOUS
    <3> QED
      BY <3>1, <3>2, <3>3
  <2>4. NextByte(p) = PageTable[v] * PageSize + (op[p].off + Len(data[p]))
    BY <2>1, <2>3 DEF NextByte, Reached
  <2> DEFINE base == PageTable[v] * PageSize
  <2>5. base \in Int
    BY <2>1, <2>2, SizeAssumption
  <2>6. NextByte(p) = base + (op[p].off + Len(data[p]))
    BY <2>4
  <2> HIDE DEF base
  <2>7. base + (op[p].off + Len(data[p])) = base + op[p].off + Len(data[p])
    BY <2>2, <2>5
  <2> QED
    BY <2>1, <2>6, <2>7 DEF base
<1>2. WindowHome
  BY DEF WindowHome, SerialInv, HomeInv, Windowed, Active
<1> QED
  BY <1>1, <1>2

LEMMA SerialCorrect == ASSUME ~Overlap PROVE Spec => [](TypeOK /\ SerialInv)
<1>1. Init => TypeOK /\ SerialInv
  BY TypeInit, SerialInit
<1>2. TypeOK /\ SerialInv /\ [Next]_kvars => (TypeOK /\ SerialInv)'
  BY TypeNext, SerialNext
<1> QED
  BY <1>1, <1>2, PTL DEF Spec

(* When calls do not overlap, kmem_read and kmem_write reach the bytes at  *)
(* every canonical address whose walk does not go astray and, if it is in  *)
(* the range of the kernel's text, about whose page virt_to_phys is right; *)
(* whatever the tables hold elsewhere, other CPUs' TLBs and earlier failed *)
(* calls change nothing.                                                   *)
THEOREM AccessCorrect ==
    ASSUME ~Overlap PROVE Spec => []AccessHitsTarget
<1>1. TypeOK /\ SerialInv => AccessHitsTarget
  BY SerialAccess
<1> QED
  BY <1>1, SerialCorrect, PTL

(* Under the same condition, until a copy fails every call puts the entry  *)
(* of paged_buf back, callers killed during the translation included.      *)
THEOREM WindowRestored ==
    ASSUME ~Overlap PROVE Spec => []WindowHome
<1>1. TypeOK /\ SerialInv => WindowHome
  BY SerialAccess
<1> QED
  BY <1>1, SerialCorrect, PTL
=============================================================================
