---------------------------- MODULE Pmem_proofs ----------------------------
(***************************************************************************)
(* Proofs about the pmem driver, for any number of threads, files and      *)
(* frames and any page size.                                               *)
(***************************************************************************)
EXTENDS Pmem, PageWindow_proofs

USE DEF Addrs, Positions, NonNegative, Frames, Entries, MemSize, PosSize, FrameOf, OffsetOf

LEMMA TypeInit == Init => TypeOK
  BY WindowTypeInit DEF Init, TypeOK

(* Every step keeps the types, those of the call that only pmem takes included. *)
LEMMA TypeNext == TypeOK /\ [Next]_vars => TypeOK'
<1> SUFFICES ASSUME WindowTypeOK, [Next]_vars PROVE WindowTypeOK'
  BY DEF TypeOK
<1> HIDE DEF Addrs, Positions, NonNegative, Entries, Frames, FrameOf, OffsetOf
<1>1. CASE Lifetime \/ UNCHANGED vars
  BY <1>1, EnvironmentTypes DEF Lifetime
<1>2. ASSUME NEW p \in Procs, NEW kind \in {"read", "write"}, NEW count \in 0..MaxCount,
             EnterCall(p, kind, count)
      PROVE  WindowTypeOK'
  BY <1>2, CallTypes
<1>3. ASSUME NEW p \in Procs, Clip(p) PROVE WindowTypeOK'
  <2>1. /\ op' = [op EXCEPT ![p].len = ClippedLen(p)] /\ ClippedLen(p) \in 0..MaxCount
        /\ pc' = [pc EXCEPT ![p] = "save"]
        /\ UNCHANGED <<device, fpos, pte, tlb, mem, saved, data>>
    BY <1>3, ClipFits DEF Clip
  <2> HIDE DEF ClippedLen
  <2>2. op' \in [Procs -> [kind: Kinds, pos: NonNegative, len: 0..MaxCount,
                           off: 0..(PageSize - 1), target: Entries, found: BOOLEAN]]
    BY <2>1, LenTyped DEF WindowTypeOK, Kinds
  <2> QED
    BY <2>1, <2>2 DEF device, WindowTypeOK, Steps
<1>4. ASSUME NEW p \in Procs, Save(p) PROVE WindowTypeOK'
  BY <1>4, CallTypes DEF Save
<1>5. ASSUME NEW p \in Procs, Map(p) PROVE WindowTypeOK'
  BY <1>5, CallTypes, FilePosition DEF Map
<1>6. ASSUME NEW p \in Procs, Aim(p) PROVE WindowTypeOK'
  BY <1>6, CallTypes DEF Aim, Steps
<1>7. ASSUME NEW p \in Procs, Copy(p) \/ FinishCall(p) \/ ReadFault(p) \/ PadOops(p) \/ PadEnd(p)
      PROVE  WindowTypeOK'
  BY <1>7, CallTypes DEF Copy, ReadFault, PadOops, PadEnd
<1>8. ASSUME NEW p \in Procs, WriteFault(p) PROVE WindowTypeOK'
  BY <1>8 DEF WriteFault, device, WindowTypeOK, Steps
<1>9. ASSUME NEW p \in Procs, PadByte(p) PROVE WindowTypeOK'
  BY <1>9, ValueAssumption DEF PadByte, Accessible, device, WindowTypeOK
<1>10. ASSUME NEW p \in Procs, NEW offset \in Positions, NEW whence \in Whences,
              Llseek(p, offset, whence)
       PROVE  WindowTypeOK'
  <2>1. fpos[FileOf[p]] \in Positions
    BY FilePosition
  <2>2. PosSize \in Nat \ {0}
    BY SizeAssumption
  <2>3. Seek(fpos[FileOf[p]], offset, whence, PosSize) \in Positions
    BY <2>1, <2>2, SeekInRange DEF Positions
  <2>4. named' \subseteq Frames
    BY <1>10 DEF Llseek, WindowTypeOK
  <2> QED
    BY <1>10, <2>3, <2>4, CallTypes DEF Llseek
<1>11. ASSUME NEW p \in Procs, TlbFill(p) \/ TlbEvict(p) PROVE WindowTypeOK'
  BY <1>11, EnvironmentTypes
<1> QED
  BY <1>1, <1>2, <1>3, <1>4, <1>5, <1>6, <1>7, <1>8, <1>9, <1>10, <1>11 DEF Next, Call

(* The type invariant holds of every reachable state of the driver. *)
THEOREM TypeCorrect == Spec => []TypeOK
  BY TypeInit, TypeNext, PTL DEF Spec

-----------------------------------------------------------------------------
(***************************************************************************)
(* Confinement: no interleaving, fault or stale TLB entry takes an access  *)
(* outside the frames that were asked for, paged_buf's own frame and the   *)
(* one behind it.                                                          *)
(***************************************************************************)
LEMMA ConfinedInit == Init => ConfinedInv
  BY FrameAssumption
  DEF Init, WindowInit, ConfinedInv, AllowedEntry, Active

LEMMA ConfinedNext == TypeOK /\ ConfinedInv /\ [Next]_vars => ConfinedInv'
<1> SUFFICES ASSUME TypeOK, ConfinedInv, [Next]_vars PROVE ConfinedInv'
  OBVIOUS
<1> USE DEF ConfinedInv, AllowedEntry, Active
<1>t. /\ pc \in [Procs -> Steps] /\ saved \in [Procs -> Entries]
      /\ tlb \in [Procs -> Frames \union {NULL}]
      /\ fpos \in [Files -> Positions] /\ open \subseteq Files
      /\ op \in [Procs -> [kind: Kinds, pos: NonNegative, len: 0..MaxCount,
                           off: 0..(PageSize - 1), target: Entries, found: BOOLEAN]]
      /\ named \subseteq Frames
  BY DEF TypeOK, WindowTypeOK
<1>f. \A p \in Procs : FileOf[p] \in Files
  BY FilesAssumption
<1>c. \A p \in Procs : ClippedLen(p) <= PageSize
  BY ClipFits DEF TypeOK
<1>0. Home \in Frames /\ FrameOf(0) = 0 /\ 0 \in Frames
  <2>1. FrameOf(0) = 0
    BY SizeAssumption, DivUnique
  <2> QED
    BY <2>1, SizeAssumption, FrameAssumption
<1> HIDE DEF Addrs, Positions, NonNegative, Entries, Frames, FrameOf, OffsetOf
<1>1. CASE LoadModule
  BY <1>1, <1>t DEF LoadModule, calls
<1>2. CASE UnloadModule
  BY <1>2 DEF UnloadModule, calls
<1>3. ASSUME NEW f \in Files, OpenFile(f) PROVE ConfinedInv'
  BY <1>3, <1>t, <1>0 DEF OpenFile, calls
<1>4. ASSUME NEW f \in Files, ReleaseFile(f) PROVE ConfinedInv'
  BY <1>4, <1>t DEF ReleaseFile, calls
<1>5. ASSUME NEW p \in Procs, NEW kind \in {"read", "write"}, NEW count \in 0..MaxCount,
             EnterCall(p, kind, count)
      PROVE  ConfinedInv'
  BY <1>5, <1>t DEF EnterCall, Idle
<1>6. ASSUME NEW p \in Procs, Clip(p) PROVE ConfinedInv'
  BY <1>6, <1>t, <1>c DEF Clip, device
<1>7. ASSUME NEW p \in Procs, Save(p) PROVE ConfinedInv'
  <2>1. PICK found \in Lookups :
           /\ op' = [op EXCEPT ![p].found = found]
           /\ saved' = IF found THEN [saved EXCEPT ![p] = pte] ELSE saved
           /\ pc' = [pc EXCEPT ![p] = IF found THEN "map" ELSE "aim"]
    BY <1>7 DEF Save, SaveEntry
  <2>2. /\ UNCHANGED <<open, fpos, named, pte, tlb>>
        /\ pc[p] = "save"
    BY <1>7 DEF Save, SaveEntry, device
  <2>3. CASE found
    BY <2>1, <2>2, <2>3, <1>t
  <2>4. CASE ~found
    BY <2>1, <2>2, <2>4, <1>t
  <2> QED
    BY <2>3, <2>4
<1>8. ASSUME NEW p \in Procs, Map(p) PROVE ConfinedInv'
  <2>1. FileOf[p] \in open
    BY <1>8 DEF Map, MapEntry
  <2> QED
    BY <1>8, <2>1, <1>t DEF Map, MapEntry, device
<1>9. ASSUME NEW p \in Procs, Aim(p) PROVE ConfinedInv'
  BY <1>9, <1>t DEF Aim, AimCopy, device
<1>10. ASSUME NEW p \in Procs, ReadByte(p) PROVE ConfinedInv'
  BY <1>10 DEF ReadByte, device
<1>11. ASSUME NEW p \in Procs, NEW v \in Values, WriteByte(p, v) PROVE ConfinedInv'
  BY <1>11 DEF WriteByte, device
<1>12. ASSUME NEW p \in Procs, FinishCall(p) PROVE ConfinedInv'
  <2>1. CASE op[p].found
    BY <1>12, <2>1, <1>t, <1>f DEF FinishCall, device
  <2>2. CASE ~op[p].found
    BY <1>12, <2>2, <1>t, <1>f DEF FinishCall, device
  <2> QED
    BY <2>1, <2>2
<1>13. ASSUME NEW p \in Procs, AbortCall(p) PROVE ConfinedInv'
  BY <1>13, <1>t DEF AbortCall
<1>14. ASSUME NEW p \in Procs, WriteFault(p) PROVE ConfinedInv'
  BY <1>14, <1>t DEF WriteFault, device
<1>15. ASSUME NEW p \in Procs, PadByte(p) PROVE ConfinedInv'
  BY <1>15 DEF PadByte, device
<1>16. ASSUME NEW p \in Procs, Oops(p) PROVE ConfinedInv'
  BY <1>16, <1>t DEF Oops
<1>17. ASSUME NEW p \in Procs, NEW offset \in Positions, NEW whence \in Whences,
              Llseek(p, offset, whence)
       PROVE  ConfinedInv'
  BY <1>17, <1>t, <1>f DEF Llseek, MoveTo, calls
<1>18. ASSUME NEW p \in Procs, TlbFill(p) PROVE ConfinedInv'
  BY <1>18, <1>t DEF TlbFill, device, calls
<1>19. ASSUME NEW p \in Procs, TlbEvict(p) PROVE ConfinedInv'
  BY <1>19, <1>t DEF TlbEvict, device, calls
<1>20. CASE UNCHANGED vars
  BY <1>20 DEF vars
<1> QED
  BY <1>1, <1>2, <1>3, <1>4, <1>5, <1>6, <1>7, <1>8, <1>9, <1>10, <1>11, <1>12, <1>13,
     <1>14, <1>15, <1>16, <1>17, <1>18, <1>19, <1>20
  DEF Next, Lifetime, Call, Copy, ReadFault, PadOops, PadEnd

LEMMA OwnFileInit == Init => OwnFileInv
  BY DEF Init, WindowInit, OwnFileInv, Active

(* A caller with a file of its own finds f_pos as it has left it. *)
LEMMA OwnFileNext == TypeOK /\ ConfinedInv /\ OwnFileInv /\ [Next]_vars => OwnFileInv'
<1> SUFFICES ASSUME TypeOK, ConfinedInv, OwnFileInv, [Next]_vars, NEW o \in Procs, OwnFile(o)
             PROVE  /\ Active(o)' => fpos'[FileOf[o]] = op'[o].pos
                    /\ pc'[o] \in {"save", "map", "aim", "copy", "pad"}
                          => op'[o].len <= PageSize - OffsetOf(op'[o].pos)
                    /\ pc'[o] \in {"copy", "pad"} => op'[o].off = OffsetOf(op'[o].pos)
  BY DEF OwnFileInv, OwnFile
<1> DEFINE Goal == /\ Active(o)' => fpos'[FileOf[o]] = op'[o].pos
                   /\ pc'[o] \in {"save", "map", "aim", "copy", "pad"}
                         => op'[o].len <= PageSize - OffsetOf(op'[o].pos)
                   /\ pc'[o] \in {"copy", "pad"} => op'[o].off = OffsetOf(op'[o].pos)
<1>t. /\ pc \in [Procs -> Steps] /\ fpos \in [Files -> Positions] /\ FileOf[o] \in Files
      /\ op \in [Procs -> [kind: Kinds, pos: NonNegative, len: 0..MaxCount,
                           off: 0..(PageSize - 1), target: Entries, found: BOOLEAN]]
  BY FilesAssumption DEF TypeOK, WindowTypeOK
<1>i. /\ Active(o) => fpos[FileOf[o]] = op[o].pos /\ FileOf[o] \in open
      /\ pc[o] \in {"save", "map", "aim", "copy", "pad"}
            => op[o].len <= PageSize - OffsetOf(op[o].pos)
      /\ pc[o] \in {"copy", "pad"} => op[o].off = OffsetOf(op[o].pos)
  BY DEF OwnFileInv, ConfinedInv
<1>c. ClippedLen(o) <= PageSize - OffsetOf(fpos[FileOf[o]])
  BY ClipFits DEF TypeOK
<1>o. \A p \in Procs : p # o => FileOf[p] # FileOf[o]
  BY DEF OwnFile
<1> HIDE DEF Addrs, Positions, NonNegative, Entries, Frames, FrameOf, OffsetOf
<1> USE DEF Active
<1>1. CASE UNCHANGED <<pc, op, fpos>>
  BY <1>1, <1>i
<1>2. ASSUME NEW f \in Files, OpenFile(f) PROVE Goal
  <2>1. Active(o) => FileOf[o] # f
    BY <1>2, <1>i DEF OpenFile
  <2> QED
    BY <2>1, <1>2, <1>t, <1>i DEF OpenFile, calls
<1>3. ASSUME NEW p \in Procs, NEW offset \in Positions, NEW whence \in Whences,
             Llseek(p, offset, whence)
      PROVE  Goal
  <2>1. Active(o) => FileOf[p] # FileOf[o]
    BY <1>3, <1>o DEF Llseek, MoveTo
  <2> QED
    BY <2>1, <1>3, <1>t, <1>i DEF Llseek, MoveTo, calls
<1>4. ASSUME NEW p \in Procs, p # o, pc'[o] = pc[o], op'[o] = op[o],
             fpos'[FileOf[o]] = fpos[FileOf[o]]
      PROVE  Goal
  BY <1>4, <1>i
<1>5. ASSUME NEW p \in Procs, p # o, Call(p) PROVE Goal
  <2> DEFINE Same == pc'[o] = pc[o] /\ op'[o] = op[o] /\ fpos'[FileOf[o]] = fpos[FileOf[o]]
  <2>1. ASSUME NEW kind, NEW count, EnterCall(p, kind, count) PROVE Same
    BY <2>1, <1>5, <1>t DEF EnterCall
  <2>2. Clip(p) => Same
    BY <1>5, <1>t DEF Clip
  <2>3. Save(p) => Same
    BY <1>5, <1>t DEF Save, SaveEntry
  <2>4. Map(p) => Same
    BY <1>5, <1>t DEF Map, MapEntry
  <2>5. Aim(p) => Same
    BY <1>5, <1>t DEF Aim, AimCopy
  <2>6. Copy(p) \/ PadByte(p) => Same
    BY DEF Copy, ReadByte, WriteByte, PadByte
  <2>7. FinishCall(p) => Same
    BY <1>5, <1>o, <1>t DEF FinishCall
  <2>8. AbortCall(p) \/ Oops(p) => Same
    BY <1>5, <1>t DEF AbortCall, Oops
  <2>9. WriteFault(p) => Same
    BY <1>5, <1>t DEF WriteFault
  <2>10. Same
    BY <1>5, <2>1, <2>2, <2>3, <2>4, <2>5, <2>6, <2>7, <2>8, <2>9
    DEF Call, ReadFault, PadOops, PadEnd
  <2> QED
    BY <2>10, <1>4, <1>5
<1>6. CASE Call(o)
  <2>1. ASSUME NEW kind, NEW count, EnterCall(o, kind, count) PROVE Goal
    BY <2>1, <1>t DEF EnterCall, Idle
  <2>2. ASSUME Clip(o) PROVE Goal
    <3>1. pc[o] = "clip" /\ op'[o].len = ClippedLen(o) /\ op'[o].pos = op[o].pos
          /\ pc'[o] = "save" /\ fpos' = fpos
      BY <2>2, <1>t DEF Clip
    <3> HIDE DEF ClippedLen
    <3> QED
      BY <3>1, <1>c, <1>i
  <2>3. ASSUME Save(o) PROVE Goal
    <3>1. /\ pc[o] = "save" /\ pc'[o] \in {"map", "aim"} /\ fpos' = fpos
          /\ op'[o].len = op[o].len /\ op'[o].pos = op[o].pos
      BY <2>3, <1>t DEF Save, SaveEntry
    <3> QED
      BY <3>1, <1>i
  <2>4. Map(o) => Goal
    BY <1>t, <1>i DEF Map, MapEntry
  <2>5. ASSUME Aim(o) PROVE Goal
    <3>1. /\ pc[o] = "aim" /\ fpos' = fpos /\ op'[o].len = op[o].len /\ op'[o].pos = op[o].pos
          /\ op'[o].off = OffsetOf(fpos[FileOf[o]])
      BY <2>5, <1>t DEF Aim, AimCopy
    <3> QED
      BY <3>1, <1>i
  <2>6. Copy(o) \/ PadByte(o) => Goal
    BY <1>i DEF Copy, ReadByte, WriteByte, PadByte
  <2>7. FinishCall(o) \/ AbortCall(o) \/ Oops(o) => Goal
    BY <1>t DEF FinishCall, AbortCall, Oops
  <2>8. WriteFault(o) => Goal
    BY <1>t, <1>i DEF WriteFault
  <2> QED
    BY <1>6, <2>1, <2>2, <2>3, <2>4, <2>5, <2>6, <2>7, <2>8
    DEF Call, ReadFault, PadOops, PadEnd
<1>7. LoadModule \/ UnloadModule \/ (\E f \in Files : ReleaseFile(f))
        \/ (\E p \in Procs : TlbFill(p) \/ TlbEvict(p)) \/ UNCHANGED vars
        => UNCHANGED <<pc, op, fpos>>
  BY DEF LoadModule, UnloadModule, ReleaseFile, TlbFill, TlbEvict, vars, calls
<1> HIDE DEF Active
<1> QED
  BY <1>1, <1>2, <1>3, <1>5, <1>6, <1>7 DEF Next, Lifetime

(* Where the next byte of a copy lands, given where the entries point. *)
LEMMA ConfinedAccess == TypeOK /\ ConfinedInv /\ OwnFileInv => AccessConfined
<1> SUFFICES ASSUME TypeOK, ConfinedInv, OwnFileInv, NEW p \in Procs,
                    pc[p] \in {"copy", "pad"}, MoreToCopy(p), Accessible(p)
             PROVE  FrameOf(NextByte(p)) \in Exposed(p)
  BY DEF AccessConfined
<1> DEFINE i == op[p].off + Len(data[p])
<1>1. /\ op[p].off \in 0..(PageSize - 1) /\ Len(data[p]) \in Nat
      /\ op[p].len \in Nat /\ op[p].len <= PageSize
      /\ pte \in Entries /\ tlb[p] \in Frames \union {NULL}
  BY DEF TypeOK, WindowTypeOK, ConfinedInv
<1>2. i \in 0..(2 * PageSize - 1)
  <2>1. Len(data[p]) < op[p].len /\ PageSize \in Nat
    BY SizeAssumption DEF MoreToCopy
  <2>2. \A o, l, m, size \in Int :
           0 <= o /\ o <= size - 1 /\ 0 <= l /\ l < m /\ m <= size
             => o + l \in 0..(2 * size - 1)
    OBVIOUS
  <2>3. /\ op[p].off \in Int /\ 0 <= op[p].off /\ op[p].off <= PageSize - 1
        /\ Len(data[p]) \in Int /\ 0 <= Len(data[p])
        /\ op[p].len \in Int /\ op[p].len <= PageSize /\ PageSize \in Int
    BY <1>1, <2>1
  <2> QED
    BY <2>1, <2>2, <2>3
<1>3. /\ Translation(p) \in Int
      /\ Translation(p) \in Frames => Translation(p) \in named \union {Home}
  <2>1. /\ pte \in Frames => pte \in named \union {Home}
        /\ tlb[p] # NULL /\ tlb[p] \in Frames => tlb[p] \in named \union {Home}
    BY DEF ConfinedInv, AllowedEntry
  <2>2. Entries \subseteq Int /\ Frames \subseteq Int
    BY SizeAssumption
  <2>3. pte \in Entries /\ tlb[p] \in Frames \union {NULL}
    BY <1>1
  <2> HIDE DEF Entries, Frames
  <2>4. CASE tlb[p] = NULL
    BY <2>1, <2>2, <2>3, <2>4, Zenon DEF Translation
  <2>5. CASE tlb[p] # NULL
    <3>1. tlb[p] \in Frames /\ Translation(p) = tlb[p]
      BY <2>3, <2>5, Zenon DEF Translation
    <3> QED
      BY <2>1, <2>2, <2>5, <3>1
  <2> QED
    BY <2>4, <2>5
<1>4. NextByte(p) = Reached(p, i)
  BY DEF NextByte
<1> HIDE DEF i
<1>5. CASE i < PageSize
  <2>1. NextByte(p) = Translation(p) * PageSize + i
    BY <1>4, <1>5 DEF Reached
  <2>2. FrameOf(NextByte(p)) = Translation(p)
    <3>1. i \in 0..(PageSize - 1) /\ Translation(p) \in Int /\ PageSize \in Nat \ {0}
      BY <1>2, <1>3, <1>5, SizeAssumption
    <3>2. (Translation(p) * PageSize + i) \div PageSize = Translation(p)
      BY <3>1, DivUnique
    <3> QED
      BY <3>2, <2>1
  <2>3. FrameOf(NextByte(p)) \in Frames
    BY AddressPage DEF Accessible
  <2> QED
    BY <2>2, <2>3, <1>3 DEF Exposed
<1>6. CASE ~(i < PageSize)
  <2>1. NextByte(p) = Adjacent * PageSize + (i - PageSize)
    BY <1>4, <1>6 DEF Reached
  <2>2. i - PageSize \in 0..(PageSize - 1) /\ Adjacent \in Int
    BY <1>2, <1>6, SizeAssumption, FrameAssumption
  <2>3. FrameOf(NextByte(p)) = Adjacent
    BY <2>1, <2>2, DivUnique, SizeAssumption
  <2>4. ~OwnFile(p)
    <3> SUFFICES ASSUME OwnFile(p) PROVE FALSE
      OBVIOUS
    <3>1. /\ op[p].off = OffsetOf(op[p].pos) /\ op[p].len <= PageSize - OffsetOf(op[p].pos)
          /\ Len(data[p]) < op[p].len
      BY DEF OwnFileInv, MoreToCopy
    <3>2. \A o, l, m, size \in Int : l < m /\ m <= size - o => o + l < size
      OBVIOUS
    <3>3. op[p].off \in Int /\ Len(data[p]) \in Int /\ op[p].len \in Int /\ PageSize \in Int
      BY <1>1, SizeAssumption
    <3>4. op[p].off + Len(data[p]) < PageSize
      BY <3>1, <3>2, <3>3
    <3> QED
      BY <3>4, <1>6 DEF i
  <2> QED
    BY <2>3, <2>4 DEF Exposed
<1> QED
  BY <1>5, <1>6

(* For every number of threads and files, shared or not, with overlapping  *)
(* calls and caching TLBs, an access of pmem_read or pmem_write stays in   *)
(* the frames that were asked for and in paged_buf's own; only a thread    *)
(* that shares its file may reach the one behind it.                       *)
THEOREM Confinement == Spec => []AccessConfined
<1>1. Spec => [](TypeOK /\ ConfinedInv /\ OwnFileInv)
  BY TypeInit, TypeNext, ConfinedInit, ConfinedNext, OwnFileInit, OwnFileNext, PTL DEF Spec
<1>2. TypeOK /\ ConfinedInv /\ OwnFileInv => AccessConfined
  BY ConfinedAccess
<1> QED
  BY <1>1, <1>2, PTL

(* And so does every change of physical memory, the zeros that pad a       *)
(* failed write included, except when the module loader clears paged_buf.  *)
THEOREM Damage == Spec => DamageConfined
<1> DEFINE Allowed(a) == FrameOf(a) = Home \/ \E p \in Procs : FrameOf(a) \in Exposed(p)
<1>1. TypeOK /\ ConfinedInv /\ OwnFileInv /\ [Next]_vars
        => [\A a \in Addrs : mem'[a] # mem[a] => Allowed(a)]_vars
  <2> SUFFICES ASSUME TypeOK, ConfinedInv, OwnFileInv, Next, NEW a \in Addrs, mem'[a] # mem[a]
               PROVE  Allowed(a)
    OBVIOUS
  <2>t. mem \in [Addrs -> Values]
    BY DEF TypeOK, WindowTypeOK
  <2>c. AccessConfined
    BY ConfinedAccess
  <2> HIDE DEF Addrs, FrameOf
  <2>1. CASE LoadModule
    BY <2>1, <2>t DEF LoadModule
  <2>2. ASSUME NEW p \in Procs, NEW v \in Values, WriteByte(p, v) PROVE Allowed(a)
    <3>1. mem' = [mem EXCEPT ![NextByte(p)] = v]
      BY <2>2 DEF WriteByte
    <3>2. a = NextByte(p)
      BY <2>t, <3>1, Zenon
    <3> QED
      BY <2>2, <2>c, <3>2 DEF WriteByte, AccessConfined
  <2>3. ASSUME NEW p \in Procs, PadByte(p) PROVE Allowed(a)
    <3>1. mem' = [mem EXCEPT ![NextByte(p)] = 0]
      BY <2>3 DEF PadByte
    <3>2. a = NextByte(p)
      BY <2>t, <3>1, Zenon
    <3> QED
      BY <2>3, <2>c, <3>2 DEF PadByte, AccessConfined
  <2>4. \/ LoadModule
        \/ \E p \in Procs : PadByte(p) \/ \E v \in Values : WriteByte(p, v)
    <3>1. /\ ~UnloadModule /\ \A f \in Files : ~OpenFile(f) /\ ~ReleaseFile(f)
      BY DEF UnloadModule, OpenFile, ReleaseFile
    <3>2. \A p \in Procs : /\ ~Clip(p) /\ ~Save(p) /\ ~Map(p) /\ ~Aim(p) /\ ~ReadByte(p)
                           /\ ~FinishCall(p) /\ ~AbortCall(p) /\ ~WriteFault(p)
                           /\ ~TlbFill(p) /\ ~TlbEvict(p)
      BY DEF Clip, Save, SaveEntry, Map, MapEntry, Aim, AimCopy, ReadByte, FinishCall,
             AbortCall, WriteFault, TlbFill, TlbEvict
    <3>3. \A p \in Procs : /\ ~Oops(p)
                           /\ \A kind \in {"read", "write"}, count \in 0..MaxCount :
                                ~EnterCall(p, kind, count)
                           /\ \A offset \in Positions, whence \in Whences :
                                ~Llseek(p, offset, whence)
      BY DEF Oops, EnterCall, Llseek, MoveTo
    <3>4. Lifetime => LoadModule
      BY <3>1, Zenon DEF Lifetime
    <3>5. \A p \in Procs : Copy(p) => \E v \in Values : WriteByte(p, v)
      BY <3>2, Zenon DEF Copy
    <3>6. \A p \in Procs : Call(p) => PadByte(p) \/ Copy(p)
      BY <3>2, <3>3, Zenon DEF Call, ReadFault, PadOops, PadEnd
    <3> QED
      BY <3>2, <3>3, <3>4, <3>5, <3>6, Zenon DEF Next
  <2> QED
    BY <2>1, <2>2, <2>3, <2>4
<1>2. Spec => [](TypeOK /\ ConfinedInv /\ OwnFileInv)
  BY TypeInit, TypeNext, ConfinedInit, ConfinedNext, OwnFileInit, OwnFileNext, PTL DEF Spec
<1> QED
  BY <1>1, <1>2, PTL DEF Spec, DamageConfined

-----------------------------------------------------------------------------
(***************************************************************************)
(* Calls one at a time.  With no overlap, no cached translation and an     *)
(* entry for get_pte to find, the driver does what it promises.            *)
(***************************************************************************)
Undisturbed == ~Overlap /\ ~TlbCaches /\ Lookups = {TRUE}

LEMMA SerialInit == Init => SerialInv
<1> SUFFICES ASSUME Init PROVE SerialInv
  OBVIOUS
<1>1. Len(<<>>) = 0
  OBVIOUS
<1> QED
  BY <1>1
  DEF Init, WindowInit, SerialInv, OneAtATime, CallInv, HomeInv, Active, Idle

LEMMA SerialNext ==
    Undisturbed /\ TypeOK /\ SerialInv /\ [Next]_vars => SerialInv'
<1> SUFFICES ASSUME Undisturbed, TypeOK, SerialInv, [Next]_vars PROVE SerialInv'
  OBVIOUS
<1> USE DEF SerialInv, OneAtATime, CallInv, HomeInv, Active
<1>t. /\ pc \in [Procs -> Steps] /\ saved \in [Procs -> Entries]
      /\ fpos \in [Files -> Positions] /\ open \subseteq Files
      /\ op \in [Procs -> [kind: Kinds, pos: NonNegative, len: 0..MaxCount,
                           off: 0..(PageSize - 1), target: Entries, found: BOOLEAN]]
      /\ data \in [Procs -> Seq(Values)]
  BY DEF TypeOK, WindowTypeOK
<1>f. \A p \in Procs : FileOf[p] \in Files
  BY FilesAssumption
<1>c. \A p \in Procs : /\ ClippedLen(p) \in 0..MaxCount
                       /\ ClippedLen(p) <= PageSize - OffsetOf(fpos[FileOf[p]])
  BY ClipFits DEF TypeOK
<1>l. \A p \in Procs : Len(data[p]) \in Nat /\ op[p].len \in Nat
  BY <1>t, SizeAssumption
<1>e. Len(<<>>) = 0
  OBVIOUS
<1>free. \A p, q \in Procs : Free(p) /\ q # p => ~Active(q)
  BY DEF Undisturbed, Free
<1> HIDE DEF Addrs, Positions, NonNegative, Entries, Frames, FrameOf, OffsetOf
<1>1. CASE LoadModule
  BY <1>1, <1>t DEF LoadModule, calls
<1>2. CASE UnloadModule
  BY <1>2 DEF UnloadModule, calls
<1>3. ASSUME NEW f \in Files, OpenFile(f) PROVE SerialInv'
  BY <1>3, <1>t, <1>f DEF OpenFile, calls
<1>4. ASSUME NEW f \in Files, ReleaseFile(f) PROVE SerialInv'
  BY <1>4, <1>t, <1>f DEF ReleaseFile, calls
<1>5. ASSUME NEW p \in Procs, NEW kind \in {"read", "write"}, NEW count \in 0..MaxCount,
             EnterCall(p, kind, count)
      PROVE  SerialInv'
  <2> DEFINE call == [Idle EXCEPT !.kind = kind, !.pos = fpos[FileOf[p]], !.len = count]
  <2>1. /\ FileOf[p] \in open /\ pc[p] = "idle" /\ pc' = [pc EXCEPT ![p] = "clip"]
        /\ op' = [op EXCEPT ![p] = call]
        /\ UNCHANGED <<loaded, open, fpos, pte, tlb, mem, saved, data, named, faulted>>
    BY <1>5 DEF EnterCall
  <2>2. call.kind = kind /\ call.pos = fpos[FileOf[p]] /\ call.len = count /\ count \in Nat
    BY SizeAssumption DEF Idle
  <2> HIDE DEF call
  <2>3. \A q \in Procs \ {p} : ~Active(q) /\ op'[q] = op[q] /\ pc'[q] = pc[q]
    <3>1. \A q \in Procs \ {p} : ~Active(q)
      BY <1>5, <1>free DEF EnterCall
    <3>2. \A q \in Procs \ {p} : op'[q] = op[q] /\ pc'[q] = pc[q]
      BY <2>1, <1>t
    <3> QED
      BY <3>1, <3>2, Zenon
  <2>4. op'[p] = call /\ pc'[p] = "clip" /\ data[p] = <<>>
    <3>1. op'[p] = call
      BY <2>1, <1>t
    <3>2. pc'[p] = "clip"
      BY <2>1, <1>t
    <3>3. data[p] = <<>>
      BY <2>1
    <3> QED
      BY <3>1, <3>2, <3>3, Zenon
  <2>5. \A q \in Procs : CallInv(q)'
    BY <2>1, <2>2, <2>3, <2>4, <1>e
  <2>6. OneAtATime' /\ HomeInv'
    BY <2>1, <2>3, <2>4
  <2> HIDE DEF OneAtATime, CallInv, HomeInv, Active
  <2> QED
    BY <2>1, <2>5, <2>6
<1>6. ASSUME NEW p \in Procs, Clip(p) PROVE SerialInv'
  <2> DEFINE len == ClippedLen(p)
  <2>1. /\ pc[p] = "clip" /\ pc' = [pc EXCEPT ![p] = "save"]
        /\ op' = [op EXCEPT ![p].len = len]
        /\ UNCHANGED <<loaded, open, named, faulted, fpos, pte, tlb, mem, saved, data>>
    BY <1>6 DEF Clip, device
  <2>2. len \in Nat /\ len <= PageSize - OffsetOf(fpos[FileOf[p]])
    BY <1>c, SizeAssumption
  <2> HIDE DEF len
  <2>3. \A q \in Procs \ {p} : op'[q] = op[q] /\ pc'[q] = pc[q]
    BY <2>1, <1>t
  <2>4. /\ op'[p].kind = op[p].kind /\ op'[p].pos = op[p].pos /\ op'[p].len = len
        /\ pc'[p] = "save" /\ data[p] = <<>>
    <3>1. op'[p] = [op[p] EXCEPT !.len = len]
      BY <2>1, <1>t
    <3>2. op'[p].kind = op[p].kind /\ op'[p].pos = op[p].pos /\ op'[p].len = len
      BY <3>1, <1>t
    <3>3. pc'[p] = "save"
      BY <2>1, <1>t
    <3>4. data[p] = <<>>
      BY <2>1
    <3> QED
      BY <3>2, <3>3, <3>4, Zenon
  <2>5. \A q \in Procs : CallInv(q)'
    <3> SUFFICES ASSUME NEW q \in Procs PROVE CallInv(q)'
      OBVIOUS
    <3>1. CASE q = p
      <4>1. /\ op[p].kind \in {"read", "write"} /\ fpos[FileOf[p]] = op[p].pos
            /\ FileOf[p] \in open
        BY <2>1
      <4> QED
        BY <1>e, <2>1, <2>2, <2>4, <3>1, <4>1
    <3>2. CASE q # p
      BY <2>1, <2>3, <3>2
    <3> QED
      BY <3>1, <3>2
  <2>6. OneAtATime' /\ HomeInv'
    BY <2>1, <2>3, <2>4
  <2> HIDE DEF OneAtATime, CallInv, HomeInv, Active
  <2> QED
    BY <2>1, <2>5, <2>6
<1>7. ASSUME NEW p \in Procs, Save(p) PROVE SerialInv'
  <2>1. /\ op' = [op EXCEPT ![p].found = TRUE]
        /\ saved' = [saved EXCEPT ![p] = pte]
        /\ pc' = [pc EXCEPT ![p] = "map"]
        /\ pc[p] = "save"
        /\ UNCHANGED <<loaded, open, named, faulted, fpos, pte, tlb, mem, data>>
    BY <1>7 DEF Undisturbed, Save, SaveEntry, device
  <2>2. op'[p].found /\ \A q \in Procs \ {p} : op'[q] = op[q] /\ pc'[q] = pc[q]
    <3>1. op'[p].found = TRUE
      BY <2>1, <1>t
    <3>2. \A q \in Procs \ {p} : op'[q] = op[q] /\ pc'[q] = pc[q]
      BY <2>1, <1>t
    <3> QED
      BY <3>1, <3>2, Zenon
  <2>3. /\ op'[p].kind = op[p].kind /\ op'[p].pos = op[p].pos
        /\ op'[p].len = op[p].len /\ pc'[p] = "map" /\ saved'[p] = pte
    BY <2>1, <1>t
  <2>4. \A q \in Procs : CallInv(q)'
    BY <2>1, <2>2, <2>3
  <2>5. OneAtATime'
    BY <2>1, <1>t
  <2>6. loaded /\ ~faulted => pte = Home
    <3>1. Active(p)
      BY <2>1
    <3>2. \A q \in Procs : q # p => ~Active(q)
      BY <3>1, Zenon DEF SerialInv, OneAtATime
    <3>3. \A q \in Procs : pc[q] \notin {"aim", "copy", "pad"}
      BY <2>1, <3>2
    <3> QED
      BY <3>3, Zenon DEF SerialInv, HomeInv
  <2>7. HomeInv'
    BY <2>1, <2>2, <2>3, <2>6
  <2> HIDE DEF OneAtATime, CallInv, HomeInv, Active
  <2> QED
    BY <2>1, <2>4, <2>5, <2>7
<1>8. ASSUME NEW p \in Procs, Map(p) PROVE SerialInv'
  <2>1. /\ pc[p] = "map" /\ pc' = [pc EXCEPT ![p] = "aim"] /\ pte' = FrameOf(fpos[FileOf[p]])
        /\ UNCHANGED <<loaded, open, named, faulted, fpos, tlb, mem, op, saved, data>>
    BY <1>8 DEF Map, MapEntry, device
  <2>2. pc'[p] = "aim" /\ \A q \in Procs \ {p} : ~Active(q) /\ pc'[q] = pc[q]
    BY <2>1, <1>t
  <2>3. \A q \in Procs : CallInv(q)'
    BY <2>1, <2>2
  <2>4. OneAtATime' /\ HomeInv'
    BY <2>1, <2>2
  <2> HIDE DEF OneAtATime, CallInv, HomeInv, Active
  <2> QED
    BY <2>1, <2>3, <2>4
<1>9. ASSUME NEW p \in Procs, Aim(p) PROVE SerialInv'
  BY <1>9, <1>t DEF Aim, AimCopy, device
<1>10. ASSUME NEW p \in Procs, ReadByte(p) PROVE SerialInv'
  <2>1. PICK v : data' = [data EXCEPT ![p] = Append(data[p], v)]
    BY <1>10 DEF ReadByte
  <2>2. mem[NextByte(p)] \in Values
    BY <1>10 DEF ReadByte, Accessible, TypeOK, WindowTypeOK
  <2>3. Len(data'[p]) = Len(data[p]) + 1
    BY <1>10, <2>2, <1>t DEF ReadByte
  <2> QED
    BY <1>10, <1>t, <1>l, <2>3 DEF ReadByte, MoreToCopy, device
<1>11. ASSUME NEW p \in Procs, NEW v \in Values, WriteByte(p, v) PROVE SerialInv'
  <2>1. Len(data'[p]) = Len(data[p]) + 1
    BY <1>11, <1>t DEF WriteByte
  <2> QED
    BY <1>11, <1>t, <1>l, <2>1 DEF WriteByte, MoreToCopy, device
<1>12. ASSUME NEW p \in Procs, FinishCall(p) PROVE SerialInv'
  <2>1. pte' = saved[p] /\ pc[p] = "copy"
    BY <1>12 DEF FinishCall
  <2>2. HomeInv'
    BY <1>12, <2>1, <1>t DEF FinishCall, device
  <2>3. \A q \in Procs : CallInv(q)'
    <3> SUFFICES ASSUME NEW q \in Procs PROVE CallInv(q)'
      OBVIOUS
    <3>1. CASE q = p
      BY <1>12, <3>1, <1>t, <1>e DEF FinishCall, Idle
    <3>2. CASE q # p
      <4>1. ~Active(q)
        BY <2>1, <3>2
      <4> QED
        BY <1>12, <3>2, <4>1, <1>t DEF FinishCall
    <3> QED
      BY <3>1, <3>2
  <2> QED
    BY <1>12, <2>2, <2>3, <1>t DEF FinishCall, device
<1>13. ASSUME NEW p \in Procs, AbortCall(p) PROVE SerialInv'
  BY <1>13, <1>t, <1>e, SizeAssumption DEF AbortCall, Idle
<1>14. ASSUME NEW p \in Procs, WriteFault(p) PROVE SerialInv'
  BY <1>14, <1>t DEF WriteFault, device
<1>15. ASSUME NEW p \in Procs, PadByte(p) PROVE SerialInv'
  <2>1. Len(data'[p]) = Len(data[p]) + 1
    BY <1>15, <1>t, ValueAssumption DEF PadByte
  <2> QED
    BY <1>15, <1>t, <1>l, <2>1 DEF PadByte, MoreToCopy, device
<1>16. ASSUME NEW p \in Procs, Oops(p) PROVE SerialInv'
  BY <1>16, <1>t, <1>e, SizeAssumption DEF Oops, Idle
<1>17. ASSUME NEW p \in Procs, NEW offset \in Positions, NEW whence \in Whences,
              Llseek(p, offset, whence)
       PROVE  SerialInv'
  BY <1>17, <1>t, <1>f, <1>free DEF Llseek, MoveTo, calls
<1>18. ASSUME NEW p \in Procs, TlbFill(p) PROVE SerialInv'
  BY <1>18 DEF Undisturbed, TlbFill
<1>19. ASSUME NEW p \in Procs, TlbEvict(p) PROVE SerialInv'
  BY <1>19 DEF TlbEvict
<1>20. CASE UNCHANGED vars
  BY <1>20 DEF vars
<1> HIDE DEF SerialInv, OneAtATime, CallInv, HomeInv, Active
<1> QED
  BY <1>1, <1>2, <1>3, <1>4, <1>5, <1>6, <1>7, <1>8, <1>9, <1>10, <1>11, <1>12, <1>13,
     <1>14, <1>15, <1>16, <1>17, <1>18, <1>19, <1>20
  DEF Next, Lifetime, Call, Copy, ReadFault, PadOops, PadEnd

(* The next byte of a copy, given that the entry and the offset are right. *)
LEMMA SerialAccess == TypeOK /\ SerialInv => AccessHitsTarget /\ WindowHome
<1> SUFFICES ASSUME TypeOK, SerialInv PROVE AccessHitsTarget /\ WindowHome
  OBVIOUS
<1>1. AccessHitsTarget
  <2> SUFFICES ASSUME NEW p \in Procs, pc[p] \in {"copy", "pad"}, MoreToCopy(p)
               PROVE  NextByte(p) = op[p].pos + Len(data[p])
    BY DEF AccessHitsTarget, HitsTarget
  <2>1. /\ op[p].pos \in NonNegative /\ Len(data[p]) \in Nat /\ op[p].len \in Nat
    BY SizeAssumption DEF TypeOK, WindowTypeOK
  <2>2. /\ FrameOf(op[p].pos) \in Nat /\ op[p].pos \in Nat
        /\ OffsetOf(op[p].pos) \in 0..(PageSize - 1)
        /\ op[p].pos = FrameOf(op[p].pos) * PageSize + OffsetOf(op[p].pos)
    BY <2>1, AcceptedPage
  <2>3. /\ Translation(p) = FrameOf(op[p].pos)
        /\ op[p].off = OffsetOf(op[p].pos)
        /\ op[p].len <= PageSize - OffsetOf(op[p].pos)
    BY DEF Translation, SerialInv, CallInv
  <2> HIDE DEF FrameOf, OffsetOf, NonNegative
  <2>4. op[p].off + Len(data[p]) < PageSize
    <3>1. Len(data[p]) < op[p].len /\ op[p].len <= PageSize - op[p].off
      BY <2>3 DEF MoreToCopy
    <3>2. /\ op[p].off \in Int /\ Len(data[p]) \in Int /\ op[p].len \in Int
          /\ PageSize \in Int
      BY <2>1, <2>2, <2>3, SizeAssumption
    <3>3. \A o, l, m, size \in Int : l < m /\ m <= size - o => o + l < size
      OBVIOUS
    <3> QED
      BY <3>1, <3>2, <3>3
  <2>5. NextByte(p) = FrameOf(op[p].pos) * PageSize + (op[p].off + Len(data[p]))
    BY <2>3, <2>4 DEF NextByte, Reached
  <2> DEFINE base == FrameOf(op[p].pos) * PageSize
  <2>6. base \in Int
    BY <2>2, SizeAssumption
  <2>7. NextByte(p) = base + (op[p].off + Len(data[p])) /\ op[p].pos = base + op[p].off
    BY <2>2, <2>3, <2>5
  <2> HIDE DEF base
  <2> QED
    BY <2>1, <2>2, <2>3, <2>6, <2>7
<1>2. WindowHome
  BY DEF WindowHome, SerialInv, HomeInv, Active
<1> QED
  BY <1>1, <1>2

(* When calls do not overlap, no TLB caches and get_pte finds the entry,   *)
(* pmem_read and pmem_write reach exactly the bytes asked for, even after  *)
(* earlier calls failed and left the window pointing elsewhere.            *)
THEOREM AccessCorrect ==
    ASSUME Undisturbed PROVE Spec => []AccessHitsTarget
<1>1. Init => TypeOK /\ SerialInv
  BY TypeInit, SerialInit
<1>2. TypeOK /\ SerialInv /\ [Next]_vars => (TypeOK /\ SerialInv)'
  BY TypeNext, SerialNext
<1>3. TypeOK /\ SerialInv => AccessHitsTarget
  BY SerialAccess
<1> QED
  BY <1>1, <1>2, <1>3, PTL DEF Spec

(* Under the same conditions, every call that does not fail puts the entry *)
(* of paged_buf back, so between calls the window shows the driver's page. *)
THEOREM WindowRestored ==
    ASSUME Undisturbed PROVE Spec => []WindowHome
<1>1. Init => TypeOK /\ SerialInv
  BY TypeInit, SerialInit
<1>2. TypeOK /\ SerialInv /\ [Next]_vars => (TypeOK /\ SerialInv)'
  BY TypeNext, SerialNext
<1>3. TypeOK /\ SerialInv => WindowHome
  BY SerialAccess
<1> QED
  BY <1>1, <1>2, <1>3, PTL DEF Spec

-----------------------------------------------------------------------------
(***************************************************************************)
(* Refinement: the undisturbed driver implements PhysAccess.               *)
(***************************************************************************)
reqBar == [p \in Procs |-> RequestOf(p)]

LEMMA RefinementInit == Init => Phys!Init
  BY DEF Init, WindowInit, Phys!Init, Phys!Addrs, Phys!NoReq, RequestOf

LEMMA RefinementNext ==
    TypeOK /\ SerialInv /\ [Next]_vars => [Phys!Next]_<<mem, reqBar, data>>
<1> SUFFICES ASSUME TypeOK, SerialInv, [Next]_vars
             PROVE  Phys!Next \/ UNCHANGED <<mem, reqBar, data>>
  BY DEF reqBar
<1>t. /\ pc \in [Procs -> Steps]
      /\ op \in [Procs -> [kind: Kinds, pos: NonNegative, len: 0..MaxCount,
                           off: 0..(PageSize - 1), target: Entries, found: BOOLEAN]]
      /\ data \in [Procs -> Seq(Values)]
      /\ fpos \in [Files -> Positions]
      /\ mem \in [Addrs -> Values]
  BY DEF TypeOK, WindowTypeOK
<1>hit. \A p \in Procs : pc[p] \in {"copy", "pad"} /\ MoreToCopy(p)
                            => NextByte(p) = op[p].pos + Len(data[p])
  BY SerialAccess DEF AccessHitsTarget, HitsTarget
<1>call. \A p \in Procs : CallInv(p)
  BY DEF SerialInv
<1>addrs. Phys!Addrs = Addrs /\ Phys!Positions = NonNegative
  BY DEF Phys!Addrs, Phys!Positions
<1> HIDE DEF Addrs, Positions, NonNegative, Entries, Frames
<1>same. ASSUME NEW p \in Procs, UNCHANGED <<mem, data>>,
                \A q \in Procs : q # p => pc'[q] = pc[q] /\ op'[q] = op[q],
                RequestOf(p)' = RequestOf(p)
         PROVE  UNCHANGED <<mem, reqBar, data>>
  BY <1>same DEF reqBar, RequestOf
<1>upd. ASSUME NEW p \in Procs, NEW r, RequestOf(p)' = r,
               \A q \in Procs : q # p => pc'[q] = pc[q] /\ op'[q] = op[q]
        PROVE  reqBar' = [reqBar EXCEPT ![p] = r]
  BY <1>upd DEF reqBar, RequestOf
<1>1. CASE LoadModule
  <2>1. Phys!Reload
    <3>1. \A p \in Procs : ~Active(p)
      BY <1>1, <1>call DEF LoadModule, CallInv, SerialInv
    <3>2. \A p \in Procs : RequestOf(p) = Phys!NoReq
      BY <3>1 DEF Active, RequestOf, Phys!NoReq
    <3>3. UNCHANGED <<pc, op, data>>
      BY <1>1 DEF LoadModule, calls
    <3>4. UNCHANGED reqBar
      BY <3>3 DEF reqBar, RequestOf
    <3> QED
      BY <1>1, <1>addrs, <3>2, <3>3, <3>4 DEF LoadModule, Phys!Reload, reqBar
  <2> QED
    BY <2>1 DEF Phys!Next
<1>2. CASE UNCHANGED <<mem, pc, op, data>>
  BY <1>2 DEF reqBar, RequestOf
<1>3. ASSUME NEW p \in Procs, NEW kind \in {"read", "write"}, NEW count \in 0..MaxCount,
             EnterCall(p, kind, count)
      PROVE  UNCHANGED <<mem, reqBar, data>>
  <2>1. RequestOf(p)' = RequestOf(p)
    BY <1>3, <1>t DEF EnterCall, RequestOf
  <2> QED
    BY <1>3, <2>1, <1>t, <1>same DEF EnterCall
<1>4. ASSUME NEW p \in Procs, Clip(p) PROVE Phys!Begin(p)
  <2> DEFINE r == [kind |-> op[p].kind, pos |-> op[p].pos, len |-> ClippedLen(p)]
  <2>1. fpos[FileOf[p]] = op[p].pos /\ op[p].kind \in {"read", "write"}
    BY <1>4, <1>call DEF Clip, CallInv, Active
  <2>2. RequestOf(p) = Phys!NoReq
    BY <1>4 DEF Clip, RequestOf, Phys!NoReq
  <2>3. ClippedLen(p) = IF op[p].len <= Phys!ToPageEnd(op[p].pos)
                        THEN op[p].len ELSE Phys!ToPageEnd(op[p].pos)
    BY <2>1 DEF ClippedLen, Phys!ToPageEnd
  <2>4. RequestOf(p)' = r
    BY <1>4, <1>t DEF Clip, RequestOf
  <2>5. reqBar' = [reqBar EXCEPT ![p] = r]
    BY <1>4, <1>t, <2>4, <1>upd DEF Clip
  <2>6. /\ op[p].kind \in {"read", "write"} /\ op[p].pos \in Phys!Positions
        /\ op[p].len \in 0..MaxCount
    BY <1>t, <1>addrs, <2>1
  <2>7. UNCHANGED <<mem, data>>
    BY <1>4 DEF Clip
  <2> QED
    BY <2>2, <2>3, <2>5, <2>6, <2>7 DEF Phys!Begin, reqBar
<1>5. ASSUME NEW p \in Procs, Save(p) \/ Map(p) \/ Aim(p)
      PROVE  UNCHANGED <<mem, reqBar, data>>
  <2>1. /\ UNCHANGED <<mem, data>>
        /\ \A q \in Procs : q # p => pc'[q] = pc[q] /\ op'[q] = op[q]
    BY <1>5, <1>t DEF Save, SaveEntry, Map, MapEntry, Aim, AimCopy
  <2>2. /\ pc[p] \in {"save", "map", "aim"} /\ pc'[p] \in {"map", "aim", "copy"}
        /\ op'[p].kind = op[p].kind /\ op'[p].pos = op[p].pos /\ op'[p].len = op[p].len
    BY <1>5, <1>t DEF Save, SaveEntry, Map, MapEntry, Aim, AimCopy
  <2>3. RequestOf(p)' = RequestOf(p)
    BY <2>2 DEF RequestOf
  <2> QED
    BY <2>1, <2>3, <1>same
<1>6. ASSUME NEW p \in Procs, ReadByte(p) PROVE Phys!Read(p)
  <2>1. /\ UNCHANGED <<mem, pc, op>> /\ pc[p] = "copy" /\ op[p].kind = "read"
        /\ data' = [data EXCEPT ![p] = Append(data[p], mem[op[p].pos + Len(data[p])])]
        /\ Len(data[p]) < op[p].len /\ op[p].pos + Len(data[p]) \in Phys!Addrs
    BY <1>6, <1>hit, <1>addrs DEF ReadByte, MoreToCopy, Accessible
  <2>2. UNCHANGED reqBar
    BY <2>1 DEF reqBar, RequestOf
  <2> QED
    BY <2>1, <2>2
    DEF Phys!Read, Phys!More, Phys!Byte, Phys!Transferred, reqBar, RequestOf
<1>7. ASSUME NEW p \in Procs, NEW v \in Values, WriteByte(p, v) PROVE Phys!Write(p)
  <2>1. /\ UNCHANGED <<pc, op>> /\ pc[p] = "copy" /\ op[p].kind = "write"
        /\ mem' = [mem EXCEPT ![op[p].pos + Len(data[p])] = v]
        /\ data' = [data EXCEPT ![p] = Append(data[p], v)]
        /\ Len(data[p]) < op[p].len /\ op[p].pos + Len(data[p]) \in Phys!Addrs
    BY <1>7, <1>hit, <1>addrs DEF WriteByte, MoreToCopy, Accessible
  <2>2. UNCHANGED reqBar
    BY <2>1 DEF reqBar, RequestOf
  <2> QED
    BY <2>1, <2>2
    DEF Phys!Write, Phys!More, Phys!Byte, Phys!Transferred, reqBar, RequestOf
<1>8. ASSUME NEW p \in Procs, WriteFault(p) PROVE Phys!GiveUpWrite(p)
  <2>1. /\ UNCHANGED <<mem, data, op>> /\ pc[p] = "copy" /\ op[p].kind = "write"
        /\ pc' = [pc EXCEPT ![p] = "pad"] /\ Len(data[p]) < op[p].len
    BY <1>8 DEF WriteFault, MoreToCopy
  <2>2. RequestOf(p)' = [RequestOf(p) EXCEPT !.kind = "pad"]
    <3>1. RequestOf(p) = [kind |-> "write", pos |-> op[p].pos, len |-> op[p].len]
      BY <2>1 DEF RequestOf
    <3>2. pc'[p] = "pad" /\ op' = op
      BY <2>1, <1>t
    <3>3. RequestOf(p)' = [kind |-> "pad", pos |-> op[p].pos, len |-> op[p].len]
      BY <3>2 DEF RequestOf
    <3> QED
      BY <3>1, <3>3
  <2>3. reqBar' = [reqBar EXCEPT ![p] = [RequestOf(p) EXCEPT !.kind = "pad"]]
    BY <2>1, <2>2, <1>t, <1>upd
  <2> QED
    BY <2>1, <2>3
    DEF Phys!GiveUpWrite, Phys!More, Phys!Transferred, reqBar, RequestOf
<1>9. ASSUME NEW p \in Procs, PadByte(p) PROVE Phys!Pad(p)
  <2>1. /\ UNCHANGED <<pc, op>> /\ pc[p] = "pad"
        /\ mem' = [mem EXCEPT ![op[p].pos + Len(data[p])] = 0]
        /\ data' = [data EXCEPT ![p] = Append(data[p], 0)]
        /\ Len(data[p]) < op[p].len /\ op[p].pos + Len(data[p]) \in Phys!Addrs
    BY <1>9, <1>hit, <1>addrs DEF PadByte, MoreToCopy, Accessible
  <2>2. UNCHANGED reqBar
    BY <2>1 DEF reqBar, RequestOf
  <2> QED
    BY <2>1, <2>2
    DEF Phys!Pad, Phys!More, Phys!Byte, Phys!Transferred, reqBar, RequestOf
<1>end. ASSUME NEW p \in Procs, pc[p] \in {"copy", "pad"},
               \/ ~MoreToCopy(p) \/ (pc[p] = "copy" /\ op[p].kind = "read")
               \/ op[p].pos + Len(data[p]) \notin Addrs,
               NEW step \in {"idle", "dead"}, pc' = [pc EXCEPT ![p] = step], op' = [op EXCEPT ![p] = Idle],
               data' = [data EXCEPT ![p] = <<>>], UNCHANGED mem
        PROVE  Phys!End(p)
  <2>1. RequestOf(p)' = Phys!NoReq
    BY <1>end, <1>t DEF RequestOf, Phys!NoReq
  <2>2. reqBar' = [reqBar EXCEPT ![p] = Phys!NoReq]
    BY <1>end, <2>1, <1>t, <1>upd
  <2>3. RequestOf(p).kind \in {"read", "write", "pad"}
    BY <1>end, <1>call DEF RequestOf, CallInv, Active
  <2>4. RequestOf(p) # Phys!NoReq
    BY <2>3 DEF Phys!NoReq
  <2>5. /\ RequestOf(p).len = op[p].len /\ RequestOf(p).pos = op[p].pos
        /\ pc[p] = "copy" => RequestOf(p).kind = op[p].kind
    BY <1>end DEF RequestOf
  <2> QED
    BY <1>end, <2>2, <2>4, <2>5, <1>addrs
    DEF Phys!End, Phys!More, Phys!Byte, Phys!Transferred, MoreToCopy, reqBar
<1>10. ASSUME NEW p \in Procs, FinishCall(p) PROVE Phys!End(p)
  BY <1>10, <1>end DEF FinishCall
<1>11. ASSUME NEW p \in Procs, ReadFault(p) PROVE Phys!End(p)
  BY <1>11, <1>end DEF ReadFault, AbortCall
<1>12. ASSUME NEW p \in Procs, PadEnd(p) PROVE Phys!End(p)
  BY <1>12, <1>end DEF PadEnd, AbortCall
<1>13. ASSUME NEW p \in Procs, PadOops(p) PROVE Phys!End(p)
  <2>1. op[p].pos + Len(data[p]) \notin Addrs
    BY <1>13, <1>hit DEF PadOops, Accessible
  <2> QED
    BY <1>13, <2>1, <1>end DEF PadOops, Oops
<1>14. ASSUME NEW p \in Procs, Phys!Begin(p) \/ Phys!Read(p) \/ Phys!Write(p)
                               \/ Phys!GiveUpWrite(p) \/ Phys!Pad(p) \/ Phys!End(p)
       PROVE  Phys!Next
  BY <1>14 DEF Phys!Next
<1>15. \/ LoadModule \/ UNCHANGED <<mem, pc, op, data>>
       \/ \E p \in Procs :
            \/ \E kind \in {"read", "write"}, count \in 0..MaxCount : EnterCall(p, kind, count)
            \/ Clip(p) \/ Save(p) \/ Map(p) \/ Aim(p)
            \/ ReadByte(p) \/ (\E v \in Values : WriteByte(p, v))
            \/ FinishCall(p) \/ ReadFault(p) \/ WriteFault(p)
            \/ PadByte(p) \/ PadOops(p) \/ PadEnd(p)
  BY DEF Next, vars, Lifetime, Call, Copy, UnloadModule, OpenFile, ReleaseFile, Llseek,
         MoveTo, TlbFill, TlbEvict, calls
<1> QED
  BY <1>1, <1>2, <1>3, <1>4, <1>5, <1>6, <1>7, <1>8, <1>9, <1>10, <1>11, <1>12, <1>13,
     <1>14, <1>15

(* When nothing disturbs it, the driver implements PhysAccess: every call  *)
(* transfers the bytes at its position and touches nothing else.           *)
THEOREM Refinement ==
    ASSUME Undisturbed PROVE Spec => PhysAccessSpec
<1>1. Init => TypeOK /\ SerialInv /\ Phys!Init
  BY TypeInit, SerialInit, RefinementInit
<1>2. TypeOK /\ SerialInv /\ [Next]_vars => (TypeOK /\ SerialInv)'
  BY TypeNext, SerialNext
<1>3. TypeOK /\ SerialInv /\ [Next]_vars
        => [Phys!Next]_<<mem, [p \in Procs |-> RequestOf(p)], data>>
  BY RefinementNext DEF reqBar
<1> QED
  BY <1>1, <1>2, <1>3, PTL DEF Spec, PhysAccessSpec, Phys!Spec
=============================================================================
