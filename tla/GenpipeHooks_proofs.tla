------------------------ MODULE GenpipeHooks_proofs ------------------------
(***************************************************************************)
(* Proofs about genpipe's hooks and the lifetime of its instances, for any *)
(* number of CPUs, call sites and list entries.                            *)
(***************************************************************************)
EXTENDS GenpipeHooks, TLAPS

(* The lists have as many entries as at boot. *)
LEMMA Lengths ==
    /\ Len(SiteCalls) \in Nat /\ Len(BaseCalls) \in Nat /\ Len(AllCalls) \in Nat
    /\ DOMAIN SiteCalls = 1..Len(SiteCalls) /\ DOMAIN BaseCalls = 1..Len(BaseCalls)
    /\ DOMAIN AllCalls = 1..Len(AllCalls)
    /\ \A s : Entries(s) \in Nat
    /\ TypeOK => /\ Len(site) = Len(SiteCalls) /\ Len(base) = Len(BaseCalls)
                 /\ Len(all) = Len(AllCalls)
<1>1. /\ Len(SiteCalls) \in Nat /\ Len(BaseCalls) \in Nat /\ Len(AllCalls) \in Nat
      /\ DOMAIN SiteCalls = 1..Len(SiteCalls) /\ DOMAIN BaseCalls = 1..Len(BaseCalls)
      /\ DOMAIN AllCalls = 1..Len(AllCalls)
  BY CallsAssumption
<1>2. \A s : Entries(s) \in Nat
  BY <1>1 DEF Entries
<1>3. ASSUME NEW n \in Nat, NEW f \in [1..n -> Targets] PROVE Len(f) = n
  OBVIOUS
<1>4. TypeOK => /\ Len(site) = Len(SiteCalls) /\ Len(base) = Len(BaseCalls)
                /\ Len(all) = Len(AllCalls)
  BY <1>1, <1>3 DEF TypeOK
<1> QED
  BY <1>1, <1>2, <1>4

LEMMA BootedTyped ==
    ASSUME NEW calls \in Seq(STRING), Range(calls) \subseteq Names
    PROVE  /\ Booted(calls) \in [1..Len(calls) -> Targets]
           /\ \A k \in 1..Len(calls) : Booted(calls)[k] = Kernel(calls[k])
<1>1. DOMAIN calls = 1..Len(calls) /\ \A k \in 1..Len(calls) : calls[k] \in Names
  BY DEF Range
<1> QED
  BY <1>1 DEF Booted, Kernel, Targets

(* An instance that goes on, and the others. *)
LEMMA GotoTyped ==
    ASSUME TypeOK, NEW i \in Instances, NEW next \in Stages, Goto(i, next)
    PROVE  /\ stage' \in [Instances -> Stages] /\ stage'[i] = next
           /\ at' \in [Instances -> Nat] /\ at'[i] = 1
           /\ \A j \in Instances : at'[j] \in 1..(Entries(stage'[j]) + 1)
           /\ grace' \in [Instances -> SUBSET Cpus]
           /\ \A j \in Instances : j # i => /\ stage'[j] = stage[j] /\ at'[j] = at[j]
                                            /\ grace'[j] = grace[j]
           /\ next = "free" => grace'[i] = Running
<1>1. Running \subseteq Cpus /\ Entries(next) \in Nat
  BY Lengths DEF Running
<1>2. /\ stage' \in [Instances -> Stages] /\ stage'[i] = next
      /\ at' \in [Instances -> Nat] /\ at'[i] = 1
      /\ grace' \in [Instances -> SUBSET Cpus]
      /\ \A j \in Instances : j # i => /\ stage'[j] = stage[j] /\ at'[j] = at[j]
                                       /\ grace'[j] = grace[j]
      /\ next = "free" => grace'[i] = Running
  BY <1>1 DEF Goto, TypeOK
<1>3. ASSUME NEW j \in Instances PROVE at'[j] \in 1..(Entries(stage'[j]) + 1)
  <2>1. CASE j = i
    BY <1>1, <1>2, <2>1
  <2>2. CASE j # i
    BY <1>2, <2>2 DEF TypeOK
  <2> QED
    BY <2>1, <2>2
<1> QED
  BY <1>2, <1>3

LEMMA AdvanceTyped ==
    ASSUME TypeOK, NEW i \in Instances, Advance(i), at[i] <= Entries(stage[i])
    PROVE  /\ at' \in [Instances -> Nat] /\ at'[i] = at[i] + 1
           /\ \A j \in Instances : at'[j] \in 1..(Entries(stage[j]) + 1)
           /\ stage' = stage /\ grace' = grace
           /\ \A j \in Instances : j # i => at'[j] = at[j]
<1>1. at \in [Instances -> Nat] /\ \A j \in Instances : at[j] \in 1..(Entries(stage[j]) + 1)
  BY DEF TypeOK
<1>2. \A j \in Instances : Entries(stage[j]) \in Nat
  BY Lengths
<1> HIDE DEF Entries
<1> QED
  BY <1>1, <1>2 DEF Advance

LEMMA TypeInit == Init => TypeOK
<1> SUFFICES ASSUME Init PROVE TypeOK
  OBVIOUS
<1>1. /\ site \in [1..Len(SiteCalls) -> Targets] /\ base \in [1..Len(BaseCalls) -> Targets]
      /\ all \in [1..Len(AllCalls) -> Targets]
  <2>1. /\ Range(SiteCalls) \subseteq Names /\ Range(BaseCalls) \subseteq Names
        /\ Range(AllCalls) \subseteq Names
    BY DEF Names
  <2> QED
    BY <2>1, BootedTyped, CallsAssumption DEF Init
<1>3. at \in [Instances -> Nat] /\ \A i \in Instances : at[i] \in 1..(Entries(stage[i]) + 1)
  BY Lengths DEF Init
<1>4. stage \in [Instances -> Stages] /\ known \in [Instances -> SUBSET STRING]
  BY DEF Init, Stages
<1>5. pack \in [Instances -> BOOLEAN] /\ crashed \in BOOLEAN
  BY ParamAssumption, Zenon DEF Init
<1>6. backup \in [Instances -> Targets \union {NULL}] /\ cur \in [Cpus -> Targets \union {NULL}]
  BY DEF Init
<1>7. grace \in [Instances -> SUBSET Cpus] /\ refs \in 0..MaxLoads
  BY ParamAssumption DEF Init
<1>8. \A i \in Instances : stage[i] = "absent" => known[i] = {} /\ backup[i] = NULL
  BY DEF Init
<1> QED
  BY <1>1, <1>3, <1>4, <1>5, <1>6, <1>7, <1>8 DEF TypeOK

(* A step that leaves the lists and the CPUs alone. *)
LEMMA GotoKeepsType ==
    ASSUME TypeOK, NEW i \in Instances, NEW next \in Stages \ {"absent"}, Goto(i, next),
           UNCHANGED <<pack, backup, refs, hooks, cur, crashed>>,
           known' \in [Instances -> SUBSET STRING],
           \A j \in Instances : j # i => known'[j] = known[j]
    PROVE  TypeOK'
<1>1. /\ stage' \in [Instances -> Stages] /\ at' \in [Instances -> Nat]
      /\ \A j \in Instances : at'[j] \in 1..(Entries(stage'[j]) + 1)
      /\ grace' \in [Instances -> SUBSET Cpus]
      /\ stage'[i] = next /\ \A j \in Instances : j # i => stage'[j] = stage[j]
  BY GotoTyped
<1>2. \A j \in Instances :
        stage'[j] = "absent" => known'[j] = {} /\ backup'[j] = NULL
  BY <1>1 DEF TypeOK
<1> QED
  BY <1>1, <1>2, Zenon DEF TypeOK, hooks

LEMMA AdvanceKeepsType ==
    ASSUME TypeOK, NEW i \in Instances, Advance(i), at[i] <= Entries(stage[i]),
           UNCHANGED <<known, pack, refs, cur, crashed>>, stage[i] # "absent",
           site' \in [1..Len(SiteCalls) -> Targets], base' \in [1..Len(BaseCalls) -> Targets],
           all' \in [1..Len(AllCalls) -> Targets],
           backup' \in [Instances -> Targets \union {NULL}],
           \A j \in Instances : j # i => backup'[j] = backup[j]
    PROVE  TypeOK'
<1>1. /\ at' \in [Instances -> Nat] /\ stage' = stage /\ grace' = grace
      /\ \A j \in Instances : at'[j] \in 1..(Entries(stage'[j]) + 1)
  BY AdvanceTyped
<1>2. \A j \in Instances :
        stage'[j] = "absent" => known'[j] = {} /\ backup'[j] = NULL
  BY <1>1 DEF TypeOK
<1> QED
  BY <1>1, <1>2, Zenon DEF TypeOK

LEMMA FreeKeepsType == ASSUME TypeOK, NEW i \in Instances, Free(i) PROVE TypeOK'
<1>1. Goto(i, "absent") /\ "absent" \in Stages
  BY DEF Free, Stages
<1>2. /\ stage' \in [Instances -> Stages] /\ at' \in [Instances -> Nat]
      /\ \A j \in Instances : at'[j] \in 1..(Entries(stage'[j]) + 1)
      /\ grace' \in [Instances -> SUBSET Cpus]
      /\ \A j \in Instances : j # i => stage'[j] = stage[j]
  BY <1>1, GotoTyped
<1>3. known' \in [Instances -> SUBSET STRING] /\ backup' \in [Instances -> Targets \union {NULL}]
  BY DEF Free, TypeOK
<1>4. pack' \in [Instances -> BOOLEAN]
  BY ParamAssumption, Zenon DEF Free, TypeOK
<1>7. \A j \in Instances :
        stage'[j] = "absent" => known'[j] = {} /\ backup'[j] = NULL
  BY <1>2 DEF Free, TypeOK
<1> QED
  BY <1>2, <1>3, <1>4, <1>7, Zenon DEF Free, TypeOK, hooks

LEMMA CpuKeepsType == ASSUME TypeOK, NEW c \in Cpus, Fetch(c) \/ Run(c) PROVE TypeOK'
<1>1. CASE Fetch(c)
  <2>1. \A t \in Installed : t \in Targets
    BY DEF Installed, Range, TypeOK
  <2>2. cur' \in [Cpus -> Targets \union {NULL}]
    BY <1>1, <2>1 DEF Fetch, TypeOK
  <2> QED
    BY <1>1, <2>2, Zenon DEF Fetch, TypeOK, loader, hooks
<1>2. CASE Run(c)
  <2>1. cur' \in [Cpus -> Targets \union {NULL}] /\ grace' \in [Instances -> SUBSET Cpus]
    BY <1>2 DEF Run, TypeOK
  <2>2. crashed' \in BOOLEAN
    BY <1>2, Zenon DEF Run
  <2>4. UNCHANGED <<stage, at, known, pack, backup, refs, hooks>>
    BY <1>2 DEF Run
  <2> QED
    BY <2>1, <2>2, <2>4, Zenon DEF TypeOK, hooks
<1> QED
  BY <1>1, <1>2

(* The steps of an instance, one by one. *)
LEMMA InstanceKeepsType ==
    ASSUME TypeOK, NEW i \in Instances,
           BeginInit(i) \/ Loading(i) \/ SetParam(i) \/ Unload(i) \/ Unloading(i)
    PROVE  TypeOK'
<1>1. /\ Len(site) = Len(SiteCalls) /\ Len(base) = Len(BaseCalls) /\ Len(all) = Len(AllCalls)
      /\ Len(SiteCalls) \in Nat /\ Len(BaseCalls) \in Nat /\ Len(AllCalls) \in Nat
      /\ Entries("patch") = Len(SiteCalls)
      /\ Entries("base") = Len(BaseCalls) /\ Entries("unbase") = Len(BaseCalls)
      /\ Entries("all") = Len(AllCalls) /\ Entries("unall") = Len(AllCalls)
  BY Lengths DEF Entries
<1>2. /\ at[i] \in Nat \ {0} /\ known \in [Instances -> SUBSET STRING]
      /\ site \in [1..Len(SiteCalls) -> Targets] /\ base \in [1..Len(BaseCalls) -> Targets]
      /\ all \in [1..Len(AllCalls) -> Targets]
      /\ backup \in [Instances -> Targets \union {NULL}]
  BY <1>1 DEF TypeOK
<1>3. \A t \in Targets, o \in Instances \union {"kernel", NULL} : Hook(o, t.fn) \in Targets
  BY DEF Hook, Targets
<1>4. \A t \in Targets : Kernel(t.fn) \in Targets
  BY DEF Kernel, Targets
<1>5. Hook(i, "nop") \in Targets /\ Hook(NULL, "null") \in Targets
  <2>1. \A o \in Instances \union {"kernel", NULL}, f \in Names : Hook(o, f) \in Targets
    BY DEF Hook, Targets
  <2>2. "nop" \in Names /\ "null" \in Names
    BY DEF Names
  <2> QED
    BY <2>1, <2>2, Zenon
<1>6. {"register", "patch", "free", "base", "stuck", "all", "loaded", "unbase", "unall"}
        \subseteq Stages \ {"absent"}
  BY DEF Stages
<1>7. \A here, n, next : next \in Stages \ {"absent"} /\ EndVisit(i, here, n, next) => TypeOK'
  BY <1>2, GotoKeepsType DEF EndVisit
<1>8. CASE BeginInit(i)
  <2> PICK symbols \in SymbolTables :
             /\ known' = [known EXCEPT ![i] = symbols]
             /\ \/ Level = 0 /\ Goto(i, "register")
                \/ Level > 0 /\ Goto(i, IF Required \subseteq symbols THEN "patch" ELSE "free")
                \/ Goto(i, "free")
    BY <1>8 DEF BeginInit
  <2>1. /\ known' \in [Instances -> SUBSET STRING]
        /\ \A j \in Instances : j # i => known'[j] = known[j]
    BY <1>2, CallsAssumption
  <2>2. PICK next \in Stages \ {"absent"} : Goto(i, next)
    BY <1>6
  <2>3. refs' \in 0..MaxLoads
    BY <1>8, ParamAssumption DEF BeginInit, TypeOK
  <2>4. /\ stage' \in [Instances -> Stages] /\ at' \in [Instances -> Nat]
        /\ \A j \in Instances : at'[j] \in 1..(Entries(stage'[j]) + 1)
        /\ grace' \in [Instances -> SUBSET Cpus]
        /\ stage'[i] = next /\ \A j \in Instances : j # i => stage'[j] = stage[j]
    BY <2>2, GotoTyped
  <2>5. UNCHANGED <<pack, backup, hooks, cur, crashed>>
    BY <1>8 DEF BeginInit
  <2>6. \A j \in Instances :
          stage'[j] = "absent" => known'[j] = {} /\ backup'[j] = NULL
    BY <2>1, <2>4, <2>5 DEF TypeOK
  <2> QED
    BY <2>1, <2>3, <2>4, <2>5, <2>6, Zenon DEF TypeOK, hooks
<1>9. CASE Patch(i)
  <2>1. PICK found \in Lookups :
          site' = IF /\ site[at[i]].owner = "kernel"
                     /\ site[at[i]].fn \in HookedCalls \intersect known[i]
                     /\ found
                  THEN [site EXCEPT ![at[i]] = Hook(i, @.fn)]
                  ELSE site
    BY <1>9 DEF Patch
  <2>2. at[i] <= Len(site) /\ stage[i] = "patch" /\ Advance(i)
        /\ UNCHANGED <<known, pack, backup, base, all, refs, cur, crashed>>
    BY <1>9 DEF Patch, Visit
  <2>3. site' \in [1..Len(SiteCalls) -> Targets]
    BY <1>1, <1>2, <1>3, <2>1, <2>2
  <2> QED
    BY <1>1, <1>2, <2>2, <2>3, AdvanceKeepsType
<1>10. CASE EndPatch(i)
  BY <1>6, <1>7, <1>10 DEF EndPatch
<1>11. CASE Register(i)
  BY <1>2, <1>6, <1>11, GotoKeepsType DEF Register
<1>12. CASE ListOops(i)
  BY <1>2, <1>6, <1>12, GotoKeepsType DEF ListOops
<1>13. CASE HookBase(i)
  <2>1. at[i] <= Len(base) /\ stage[i] = "base" /\ Advance(i)
        /\ UNCHANGED <<known, pack, backup, site, all, refs, cur, crashed>>
    BY <1>13 DEF HookBase, Visit
  <2>2. base' = base \/ base' = [base EXCEPT ![at[i]] = Hook(i, @.fn)]
    BY <1>13 DEF HookBase
  <2>3. base[at[i]] \in Targets /\ Hook(i, base[at[i]].fn) \in Targets
    BY <1>1, <1>2, <1>3, <2>1
  <2>4. base' \in [1..Len(BaseCalls) -> Targets]
    BY <1>2, <2>2, <2>3
  <2> QED
    BY <1>1, <1>2, <2>1, <2>4, AdvanceKeepsType
<1>14. CASE EndBase(i)
  BY <1>6, <1>7, <1>14 DEF EndBase
<1>15. CASE HookAll(i)
  <2>1. at[i] <= Len(all) /\ stage[i] = "all" /\ Advance(i)
        /\ UNCHANGED <<known, pack, site, base, refs, cur, crashed>>
    BY <1>15 DEF HookAll, Visit
  <2>2. all[at[i]] \in Targets
    BY <1>1, <1>2, <2>1
  <2>3. all' \in [1..Len(AllCalls) -> Targets]
    BY <1>2, <1>5, <1>15 DEF HookAll
  <2>4. /\ backup' \in [Instances -> Targets \union {NULL}]
        /\ \A j \in Instances : j # i => backup'[j] = backup[j]
    BY <1>2, <1>15, <2>2 DEF HookAll
  <2> QED
    BY <1>1, <1>2, <2>1, <2>3, <2>4, AdvanceKeepsType
<1>16. CASE EndAll(i)
  BY <1>6, <1>7, <1>16 DEF EndAll
<1>18. CASE SetParam(i)
  <2>1. pack' \in [Instances -> BOOLEAN]
    BY <1>18, Zenon DEF SetParam, TypeOK
  <2>2. UNCHANGED <<stage, at, known, backup, refs, grace, hooks, cur, crashed>>
    BY <1>18 DEF SetParam
  <2> QED
    BY <2>1, <2>2, Zenon DEF TypeOK, hooks
<1>19. CASE Unload(i)
  BY <1>2, <1>6, <1>19, GotoKeepsType DEF Unload
<1>20. CASE UnhookBase(i)
  <2>1. at[i] <= Len(base) /\ stage[i] = "unbase" /\ Advance(i)
        /\ UNCHANGED <<known, pack, backup, site, all, refs, cur, crashed>>
    BY <1>20 DEF UnhookBase, Visit
  <2>2. base' = base \/ base' = [base EXCEPT ![at[i]] = Kernel(@.fn)]
    BY <1>20 DEF UnhookBase
  <2>3. base' \in [1..Len(BaseCalls) -> Targets]
    <3>1. base \in [1..Len(BaseCalls) -> Targets] /\ at[i] \in 1..Len(BaseCalls)
      BY <1>1, <1>2, <1>4, <2>1
    <3>2. Kernel(base[at[i]].fn) \in Targets
      BY <3>1 DEF Kernel, Targets
    <3>3. base' = base \/ base' = [base EXCEPT ![at[i]] = Kernel(base[at[i]].fn)]
      BY <2>2, Zenon
    <3> HIDE DEF Targets, Kernel
    <3> QED
      BY <3>1, <3>2, <3>3
  <2> QED
    BY <1>1, <1>2, <2>1, <2>3, AdvanceKeepsType
<1>21. CASE EndUnbase(i)
  BY <1>6, <1>7, <1>21 DEF EndUnbase
<1>22. CASE UnhookAll(i)
  <2>1. at[i] <= Len(all) /\ stage[i] = "unall" /\ Advance(i)
        /\ UNCHANGED <<known, pack, backup, site, base, refs, cur, crashed>>
    BY <1>22 DEF UnhookAll, Visit
  <2>2. all' \in [1..Len(AllCalls) -> Targets]
    BY <1>2, <1>5, <1>22 DEF UnhookAll
  <2> QED
    BY <1>1, <1>2, <2>1, <2>2, AdvanceKeepsType
<1>23. CASE EndUnall(i)
  BY <1>6, <1>7, <1>23 DEF EndUnall
<1>24. CASE Free(i)
  BY <1>24, FreeKeepsType
<1> QED
  BY <1>8, <1>9, <1>10, <1>11, <1>12, <1>13, <1>14, <1>15, <1>16, <1>18, <1>19, <1>20,
     <1>21, <1>22, <1>23, <1>24 DEF Loading, Unloading

LEMMA TypeNext == TypeOK /\ [Next]_vars => TypeOK'
<1> SUFFICES ASSUME TypeOK, [Next]_vars PROVE TypeOK'
  OBVIOUS
<1>1. CASE UNCHANGED vars
  BY <1>1, Zenon DEF vars, loader, hooks, TypeOK
<1>2. CASE Next
  BY <1>2, InstanceKeepsType, CpuKeepsType DEF Next
<1> QED
  BY <1>1, <1>2

(* The state of the loader and the hooks keeps its type, no walk over the  *)
(* call sites or a list goes past its end, and a module that is not in     *)
(* memory has no data, whatever is loaded, unloaded, patched and received, *)
(* in whatever order.                                                      *)
THEOREM TypeCorrect == Spec => []TypeOK
<1>1. Init => TypeOK
  BY TypeInit
<1>2. TypeOK /\ [Next]_vars => TypeOK'
  BY TypeNext
<1> QED
  BY <1>1, <1>2, PTL DEF Spec

(***************************************************************************)
(* One instance, hook_driver = 0 and a hook_dev_add_pack that nobody       *)
(* changes: the replacements are in the lists only while the instance is   *)
(* loaded.                                                                 *)
(***************************************************************************)
Alone == Level = 0 /\ ~ParamWrites /\ \A i, j \in Instances : i = j

(* Going on keeps the invariant, if what was put into the lists fits the   *)
(* next stage.                                                             *)
LEMMA GotoKeepsLists ==
    ASSUME TypeOK, ListsInv, Alone, NEW i \in Instances,
           NEW next \in Stages \ {"absent", "patch"}, Goto(i, next),
           UNCHANGED <<pack, backup, hooks, cur>>,
           next \in {"base", "all", "unbase", "unall"} => HookPack,
           next \in {"register", "base", "unall", "free"}
             => \A b \in DOMAIN base : base[b].owner # i,
           HookPack /\ next \in {"all", "loaded", "unbase"}
             => \A b \in DOMAIN base :
                  BaseCalls[b] \in Protocols \intersect known'[i] => base[b].owner = i,
           next \in {"register", "base", "all", "free"} => \A a \in DOMAIN all : all[a].owner # i,
           HookPack /\ next \in {"loaded", "unbase", "unall"}
             => \A a \in DOMAIN all : backup[i] # NULL /\ backup[i].owner = "kernel"
    PROVE  ListsInv'
<1>1. /\ stage'[i] = next /\ at'[i] = 1 /\ (next = "free" => grace'[i] = Running)
      /\ \A j \in Instances : j = i
  BY GotoTyped DEF Alone
<1>2. /\ DOMAIN base = 1..Len(BaseCalls) /\ DOMAIN all = 1..Len(AllCalls)
      /\ pack' = pack /\ backup' = backup /\ site' = site /\ base' = base /\ all' = all /\ cur' = cur
      /\ Running' = Running
  BY DEF TypeOK, hooks, Running
<1>3. next \in {"register", "base", "all", "loaded", "unbase", "unall", "free", "stuck"}
  BY DEF Stages
<1>4. \A b \in DOMAIN base : InBase(i, b)' <=> next \in {"all", "loaded", "unbase"}
  BY <1>1, <1>2, Lengths DEF InBase
<1>5. \A a \in DOMAIN all : InAll(i, a)' <=> next \in {"loaded", "unbase", "unall"}
  BY <1>1, <1>2, Lengths DEF InAll
<1>6. BaseInv'
  <2>1. \A b \in DOMAIN base : /\ base[b].fn = BaseCalls[b]
                               /\ base[b].owner \in Instances \union {"kernel"}
                               /\ base[b].owner = i => HookPack
    BY DEF ListsInv, BaseInv
  <2> QED
    BY <1>1, <1>2, <1>3, <1>4, <2>1 DEF BaseInv
<1>7. AllInv'
  <2>1. \A a \in DOMAIN all : /\ all[a].owner \in Instances \union {"kernel"}
                              /\ all[a].owner = i => HookPack
    BY DEF ListsInv, AllInv
  <2> QED
    BY <1>1, <1>2, <1>3, <1>5, <2>1 DEF AllInv
<1>8. GraceInv'
  BY <1>1, <1>2 DEF ListsInv, GraceInv
<1>9. /\ \A j \in Instances : /\ (pack[j] <=> HookPack)' /\ stage'[j] # "patch"
                              /\ stage'[j] \in {"base", "all", "unbase", "unall"} => HookPack
      /\ \A k \in DOMAIN site' : site'[k].owner = "kernel"
  BY <1>1, <1>2, <1>3 DEF ListsInv
<1> QED
  BY <1>6, <1>7, <1>8, <1>9 DEF ListsInv

(* Stepping to the next entry keeps what does not depend on the lists. *)
LEMMA AdvanceKeepsRest ==
    ASSUME TypeOK, ListsInv, Alone, NEW i \in Instances, Advance(i),
           UNCHANGED <<pack, site, cur>>
    PROVE  /\ at'[i] = at[i] + 1 /\ stage' = stage /\ grace' = grace
           /\ GraceInv'
           /\ \A j \in Instances : /\ (pack[j] <=> HookPack)' /\ stage'[j] # "patch"
                                   /\ stage'[j] \in {"base", "all", "unbase", "unall"} => HookPack
           /\ \A k \in DOMAIN site' : site'[k].owner = "kernel"
<1>1. at'[i] = at[i] + 1 /\ stage' = stage /\ grace' = grace
  BY DEF Advance, TypeOK
<1>2. GraceInv'
  BY <1>1 DEF ListsInv, GraceInv, Running
<1>3. /\ \A j \in Instances : /\ (pack[j] <=> HookPack)' /\ stage'[j] # "patch"
                              /\ stage'[j] \in {"base", "all", "unbase", "unall"} => HookPack
      /\ \A k \in DOMAIN site' : site'[k].owner = "kernel"
  BY <1>1 DEF ListsInv
<1> QED
  BY <1>1, <1>2, <1>3

(* Where an entry of ptype_base is given a replacement or gets its handler back. *)
LEMMA BaseStepKeepsLists ==
    ASSUME TypeOK, ListsInv, Alone, NEW i \in Instances, HookBase(i) \/ UnhookBase(i)
    PROVE  ListsInv'
<1> DEFINE k == at[i]
<1>1. /\ Advance(i) /\ UNCHANGED <<known, pack, backup, site, all, cur>>
      /\ stage[i] \in {"base", "unbase"} /\ k <= Len(base)
  BY DEF HookBase, UnhookBase, Visit
<1>2. /\ DOMAIN base = 1..Len(BaseCalls) /\ DOMAIN all = 1..Len(AllCalls) /\ k \in DOMAIN base
      /\ base \in [1..Len(BaseCalls) -> Targets]
      /\ \A j \in Instances : j = i
  BY <1>1, Lengths DEF TypeOK, Alone
<1>3. /\ at'[i] = k + 1 /\ stage' = stage /\ GraceInv' /\ HookPack
      /\ \A j \in Instances : /\ (pack[j] <=> HookPack)' /\ stage'[j] # "patch"
                              /\ stage'[j] \in {"base", "all", "unbase", "unall"} => HookPack
      /\ \A n \in DOMAIN site' : site'[n].owner = "kernel"
  <2>1. stage[i] \in {"base", "all", "unbase", "unall"} => HookPack
    BY DEF ListsInv
  <2> QED
    BY <1>1, <2>1, AdvanceKeepsRest
<1>4. AllInv'
  <2>1. \A a : InAll(i, a)' <=> InAll(i, a)
    BY <1>1, <1>3 DEF InAll
  <2> QED
    BY <1>1, <1>2, <1>3, <2>1 DEF ListsInv, AllInv
<1>5. i # "kernel" /\ \A b \in DOMAIN base : b \in Int
  BY <1>2, OwnerAssumption
<1>6. \A b \in DOMAIN base :
        /\ base[b].fn = BaseCalls[b] /\ base[b].owner \in {i, "kernel"}
        /\ base[b].owner = i => InBase(i, b)
        /\ (InBase(i, b) /\ BaseCalls[b] \in Protocols \intersect known[i]) => base[b].owner = i
  <2>1. stage[i] # "stuck" /\ HookPack
    BY <1>1, <1>3
  <2> QED
    BY <1>2, <2>1 DEF ListsInv, BaseInv
<1>7. CASE HookBase(i)
  <2>1. stage[i] = "base"
    BY <1>7 DEF HookBase, Visit
  <2>2. /\ \A b \in DOMAIN base : InBase(i, b) <=> b < k
        /\ \A b \in DOMAIN base : InBase(i, b)' <=> b < k + 1
    BY <1>3, <2>1 DEF InBase
  <2>3. base[k].owner = "kernel" /\ base[k] = Kernel(BaseCalls[k])
    <3>1. base[k].owner = "kernel" /\ base[k].fn = BaseCalls[k]
      BY <1>2, <1>5, <1>6, <2>2
    <3>2. base[k] \in Targets
      BY <1>2
    <3> QED
      BY <3>1, <3>2 DEF Kernel, Targets
  <2>4. base' = IF BaseCalls[k] \in Protocols \intersect known[i]
                THEN [base EXCEPT ![k] = Hook(i, BaseCalls[k])] ELSE base
    <3>1. \A f, g : Kernel(f) = Kernel(g) <=> f = g
      BY DEF Kernel
    <3>2. Kernel(BaseCalls[k]).fn = BaseCalls[k]
      BY DEF Kernel
    <3> QED
      BY <1>2, <1>7, <2>3, <3>1, <3>2 DEF HookBase
  <2>5. /\ DOMAIN base' = DOMAIN base
        /\ \A b \in DOMAIN base : b # k => base'[b] = base[b]
        /\ base'[k] = IF BaseCalls[k] \in Protocols \intersect known[i]
                      THEN Hook(i, BaseCalls[k]) ELSE Kernel(BaseCalls[k])
    BY <1>2, <2>3, <2>4
  <2>6. /\ base'[k].fn = BaseCalls[k]
        /\ base'[k].owner = IF BaseCalls[k] \in Protocols \intersect known[i] THEN i ELSE "kernel"
    BY <2>5 DEF Hook, Kernel
  <2>7. ASSUME NEW b \in DOMAIN base
        PROVE  /\ base'[b].fn = BaseCalls[b] /\ base'[b].owner \in {i, "kernel"}
               /\ base'[b].owner = i => InBase(i, b)'
               /\ (InBase(i, b)' /\ BaseCalls[b] \in Protocols \intersect known[i])
                    => base'[b].owner = i
    <3>1. CASE b = k
      BY <1>2, <1>5, <2>2, <2>6, <3>1
    <3>2. CASE b # k
      BY <1>2, <1>5, <1>6, <2>2, <2>5, <3>2
    <3> QED
      BY <3>1, <3>2
  <2>8. BaseInv'
    BY <1>1, <1>2, <1>3, <2>5, <2>7 DEF BaseInv
  <2> QED
    BY <1>3, <1>4, <2>8 DEF ListsInv
<1>8. CASE UnhookBase(i)
  <2>1. stage[i] = "unbase"
    BY <1>8 DEF UnhookBase, Visit
  <2>2. /\ \A b \in DOMAIN base : InBase(i, b) <=> b >= k
        /\ \A b \in DOMAIN base : InBase(i, b)' <=> b >= k + 1
    BY <1>3, <2>1 DEF InBase
  <2>3. /\ DOMAIN base' = DOMAIN base
        /\ \A b \in DOMAIN base : b # k => base'[b] = base[b]
        /\ base'[k] = IF base[k].owner = i THEN Kernel(base[k].fn) ELSE base[k]
    BY <1>2, <1>8 DEF UnhookBase
  <2>4. base'[k].fn = BaseCalls[k] /\ base'[k].owner = "kernel"
    BY <1>2, <1>6, <2>3 DEF Kernel
  <2>5. ASSUME NEW b \in DOMAIN base
        PROVE  /\ base'[b].fn = BaseCalls[b] /\ base'[b].owner \in {i, "kernel"}
               /\ base'[b].owner = i => InBase(i, b)'
               /\ (InBase(i, b)' /\ BaseCalls[b] \in Protocols \intersect known[i])
                    => base'[b].owner = i
    <3>1. CASE b = k
      BY <1>2, <1>5, <2>2, <2>4, <3>1
    <3>2. CASE b # k
      BY <1>2, <1>5, <1>6, <2>2, <2>3, <3>2
    <3> QED
      BY <3>1, <3>2
  <2>6. BaseInv'
    BY <1>1, <1>2, <1>3, <2>3, <2>5 DEF BaseInv
  <2> QED
    BY <1>3, <1>4, <2>6 DEF ListsInv
<1> QED
  BY <1>7, <1>8

(* Where an entry of ptype_all is saved and replaced, or overwritten by what was saved. *)
LEMMA AllStepKeepsLists ==
    ASSUME TypeOK, ListsInv, Alone, NEW i \in Instances, HookAll(i) \/ UnhookAll(i)
    PROVE  ListsInv'
<1> DEFINE k == at[i]
<1>1. /\ Advance(i) /\ UNCHANGED <<known, pack, site, base, cur>>
      /\ stage[i] \in {"all", "unall"} /\ k <= Len(all)
  BY DEF HookAll, UnhookAll, Visit
<1>2. /\ DOMAIN base = 1..Len(BaseCalls) /\ DOMAIN all = 1..Len(AllCalls) /\ k \in DOMAIN all
      /\ all \in [1..Len(AllCalls) -> Targets] /\ backup \in [Instances -> Targets \union {NULL}]
      /\ \A j \in Instances : j = i
  BY <1>1, Lengths DEF TypeOK, Alone
<1>3. /\ at'[i] = k + 1 /\ stage' = stage /\ GraceInv' /\ HookPack
      /\ \A j \in Instances : /\ (pack[j] <=> HookPack)' /\ stage'[j] # "patch"
                              /\ stage'[j] \in {"base", "all", "unbase", "unall"} => HookPack
      /\ \A n \in DOMAIN site' : site'[n].owner = "kernel"
  <2>1. stage[i] \in {"base", "all", "unbase", "unall"} => HookPack
    BY DEF ListsInv
  <2> QED
    BY <1>1, <2>1, AdvanceKeepsRest
<1>4. BaseInv'
  <2>1. \A b : InBase(i, b)' <=> InBase(i, b)
    BY <1>1, <1>3 DEF InBase
  <2> QED
    BY <1>1, <1>2, <1>3, <2>1 DEF ListsInv, BaseInv
<1>5. i # "kernel" /\ NULL \notin Targets /\ \A a \in DOMAIN all : a \in Int
  BY <1>2, OwnerAssumption
<1>6. \A a \in DOMAIN all :
        /\ all[a].owner \in {i, "kernel"}
        /\ all[a].owner = i => InAll(i, a)
        /\ InAll(i, a) \/ stage[i] = "unall" => backup[i] # NULL /\ backup[i].owner = "kernel"
  <2>1. stage[i] # "stuck" /\ HookPack
    BY <1>1, <1>3
  <2> QED
    BY <1>2, <2>1 DEF ListsInv, AllInv
<1>7. CASE HookAll(i)
  <2>1. stage[i] = "all"
    BY <1>7 DEF HookAll, Visit
  <2>2. /\ \A a \in DOMAIN all : InAll(i, a) <=> a < k
        /\ \A a \in DOMAIN all : InAll(i, a)' <=> a < k + 1
    BY <1>3, <2>1 DEF InAll
  <2>3. all[k].owner = "kernel" /\ all[k] # NULL
    BY <1>2, <1>5, <1>6, <2>2
  <2>4. /\ DOMAIN all' = DOMAIN all /\ backup'[i] = all[k]
        /\ \A a \in DOMAIN all : a # k => all'[a] = all[a]
        /\ all'[k].owner = i
    BY <1>2, <1>7 DEF HookAll, Hook
  <2>5. \A a \in DOMAIN all : all'[a].owner \in {i, "kernel"} /\ (all'[a].owner = i => InAll(i, a)')
    BY <1>2, <1>5, <1>6, <2>2, <2>4
  <2>6. AllInv'
    BY <1>2, <1>3, <2>3, <2>4, <2>5 DEF AllInv
  <2> QED
    BY <1>3, <1>4, <2>6 DEF ListsInv
<1>8. CASE UnhookAll(i)
  <2>1. stage[i] = "unall" /\ backup' = backup
    BY <1>8 DEF UnhookAll, Visit
  <2>2. /\ \A a \in DOMAIN all : InAll(i, a) <=> a >= k
        /\ \A a \in DOMAIN all : InAll(i, a)' <=> a >= k + 1
    BY <1>3, <2>1 DEF InAll
  <2>3. backup[i] # NULL /\ backup[i].owner = "kernel"
    BY <1>2, <1>6, <2>1
  <2>4. /\ DOMAIN all' = DOMAIN all /\ all'[k] = backup[i]
        /\ \A a \in DOMAIN all : a # k => all'[a] = all[a]
    BY <1>2, <1>8, <2>3 DEF UnhookAll
  <2>5. \A a \in DOMAIN all : all'[a].owner \in {i, "kernel"} /\ (all'[a].owner = i => InAll(i, a)')
    BY <1>2, <1>5, <1>6, <2>2, <2>3, <2>4
  <2>6. AllInv'
    BY <1>2, <1>3, <2>1, <2>3, <2>4, <2>5 DEF AllInv
  <2> QED
    BY <1>3, <1>4, <2>6 DEF ListsInv
<1> QED
  BY <1>7, <1>8

(* The steps that go on to another stage. *)
LEMMA StageStepKeepsLists ==
    ASSUME TypeOK, ListsInv, Alone, NEW i \in Instances,
           \/ BeginInit(i) \/ Register(i) \/ ListOops(i) \/ EndBase(i) \/ EndAll(i)
           \/ Unload(i) \/ EndUnbase(i) \/ EndUnall(i)
    PROVE  ListsInv'
<1>1. /\ Len(base) = Len(BaseCalls) /\ Len(all) = Len(AllCalls)
      /\ DOMAIN base = 1..Len(BaseCalls) /\ DOMAIN all = 1..Len(AllCalls)
      /\ Len(BaseCalls) \in Nat /\ Len(AllCalls) \in Nat /\ at[i] \in Int /\ stage[i] \in Stages
  BY Lengths DEF TypeOK
<1>2. \A b \in DOMAIN base :
        /\ base[b].owner = i => HookPack /\ (InBase(i, b) \/ stage[i] = "stuck")
        /\ (HookPack /\ InBase(i, b) /\ BaseCalls[b] \in Protocols \intersect known[i])
             => base[b].owner = i
  BY DEF ListsInv, BaseInv
<1>3. \A a \in DOMAIN all :
        /\ all[a].owner = i => HookPack /\ (InAll(i, a) \/ stage[i] = "stuck")
        /\ (HookPack /\ (InAll(i, a) \/ stage[i] = "unall"))
             => backup[i] # NULL /\ backup[i].owner = "kernel"
  BY DEF ListsInv, AllInv
<1>4. /\ (pack[i] <=> HookPack)
      /\ stage[i] \in {"base", "all", "unbase", "unall"} => HookPack
  BY DEF ListsInv
<1>5. {"register", "free", "base", "stuck", "all", "loaded", "unbase", "unall"}
        \subseteq Stages \ {"absent", "patch"}
  BY DEF Stages
<1>6. CASE BeginInit(i)
  <2>1. /\ Goto(i, "register") \/ Goto(i, "free")
        /\ UNCHANGED <<pack, backup, hooks, cur>> /\ stage[i] = "absent"
    BY <1>6, ParamAssumption DEF BeginInit, Alone
  <2>2. (\A b \in DOMAIN base : base[b].owner # i) /\ (\A a \in DOMAIN all : all[a].owner # i)
    BY <1>2, <1>3, <2>1 DEF InBase, InAll
  <2> QED
    BY <1>5, <2>1, <2>2, GotoKeepsLists
<1>7. CASE Register(i)
  <2>1. /\ Goto(i, IF HookPack THEN "base" ELSE "loaded") \/ Goto(i, "free")
        /\ UNCHANGED <<pack, backup, hooks, cur>> /\ stage[i] = "register"
    BY <1>4, <1>7 DEF Register
  <2>2. (\A b \in DOMAIN base : base[b].owner # i) /\ (\A a \in DOMAIN all : all[a].owner # i)
    BY <1>2, <1>3, <2>1 DEF InBase, InAll
  <2> QED
    BY <1>5, <2>1, <2>2, GotoKeepsLists
<1>8. CASE ListOops(i)
  <2>1. Goto(i, "stuck") /\ UNCHANGED <<pack, backup, hooks, cur>>
    BY <1>8 DEF ListOops
  <2> QED
    BY <1>5, <2>1, GotoKeepsLists
<1>9. CASE EndBase(i)
  <2>1. /\ Goto(i, "all") /\ UNCHANGED <<known, pack, backup, hooks, cur>>
        /\ stage[i] = "base" /\ at[i] > Len(base)
    BY <1>9 DEF EndBase, EndVisit
  <2>2. \A b \in DOMAIN base :
          BaseCalls[b] \in Protocols \intersect known'[i] => base[b].owner = i
    BY <1>1, <1>2, <1>4, <2>1 DEF InBase
  <2>3. \A a \in DOMAIN all : all[a].owner # i
    BY <1>3, <2>1 DEF InAll
  <2> QED
    BY <1>4, <1>5, <2>1, <2>2, <2>3, GotoKeepsLists
<1>10. CASE EndAll(i)
  <2>1. /\ Goto(i, "loaded") /\ UNCHANGED <<known, pack, backup, hooks, cur>>
        /\ stage[i] = "all" /\ at[i] > Len(all)
    BY <1>10 DEF EndAll, EndVisit
  <2>2. \A b \in DOMAIN base :
          BaseCalls[b] \in Protocols \intersect known'[i] => base[b].owner = i
    BY <1>2, <1>4, <2>1 DEF InBase
  <2>3. \A a \in DOMAIN all : backup[i] # NULL /\ backup[i].owner = "kernel"
    BY <1>1, <1>3, <1>4, <2>1 DEF InAll
  <2> QED
    BY <1>5, <2>1, <2>2, <2>3, GotoKeepsLists
<1>12. CASE Unload(i)
  <2>1. /\ Goto(i, IF HookPack THEN "unbase" ELSE "free")
        /\ UNCHANGED <<known, pack, backup, hooks, cur>> /\ stage[i] = "loaded"
    BY <1>4, <1>12 DEF Unload
  <2>2. HookPack => \A b \in DOMAIN base :
          BaseCalls[b] \in Protocols \intersect known'[i] => base[b].owner = i
    BY <1>2, <2>1 DEF InBase
  <2>3. HookPack => \A a \in DOMAIN all : backup[i] # NULL /\ backup[i].owner = "kernel"
    BY <1>3, <2>1 DEF InAll
  <2>4. ~HookPack => /\ \A b \in DOMAIN base : base[b].owner # i
                     /\ \A a \in DOMAIN all : all[a].owner # i
    BY <1>2, <1>3
  <2> QED
    BY <1>5, <2>1, <2>2, <2>3, <2>4, GotoKeepsLists
<1>13. CASE EndUnbase(i)
  <2>1. /\ Goto(i, "unall") /\ UNCHANGED <<known, pack, backup, hooks, cur>>
        /\ stage[i] = "unbase" /\ at[i] > Len(base)
    BY <1>13 DEF EndUnbase, EndVisit
  <2>2. \A b \in DOMAIN base : base[b].owner # i
    BY <1>1, <1>2, <2>1 DEF InBase
  <2>3. \A a \in DOMAIN all : backup[i] # NULL /\ backup[i].owner = "kernel"
    BY <1>3, <1>4, <2>1 DEF InAll
  <2> QED
    BY <1>4, <1>5, <2>1, <2>2, <2>3, GotoKeepsLists
<1>14. CASE EndUnall(i)
  <2>1. /\ Goto(i, "free") /\ UNCHANGED <<known, pack, backup, hooks, cur>>
        /\ stage[i] = "unall" /\ at[i] > Len(all)
    BY <1>14 DEF EndUnall, EndVisit
  <2>2. \A b \in DOMAIN base : base[b].owner # i
    BY <1>2, <2>1 DEF InBase
  <2>3. \A a \in DOMAIN all : all[a].owner # i
    BY <1>1, <1>3, <2>1 DEF InAll
  <2> QED
    BY <1>5, <2>1, <2>2, <2>3, GotoKeepsLists
<1> QED
  BY <1>6, <1>7, <1>8, <1>9, <1>10, <1>12, <1>13, <1>14

(* The memory is freed when no entry holds a replacement and no CPU runs one. *)
LEMMA FreeKeepsLists ==
    ASSUME TypeOK, ListsInv, Alone, NEW i \in Instances, Free(i) PROVE ListsInv'
<1>1. /\ stage'[i] = "absent" /\ stage[i] = "free" /\ grace[i] = {}
      /\ \A j \in Instances : j = i
  <2>1. Goto(i, "absent") /\ "absent" \in Stages
    BY DEF Free, Stages
  <2> QED
    BY <2>1, GotoTyped DEF Free, Alone
<1>2. /\ site' = site /\ base' = base /\ all' = all /\ cur' = cur /\ Running' = Running
      /\ (pack'[i] <=> HookPack)
  <2>1. pack' = [pack EXCEPT ![i] = HookPack] /\ pack \in [Instances -> BOOLEAN]
    BY DEF Free, TypeOK
  <2>2. pack'[i] <=> HookPack
    BY <2>1, Zenon
  <2> QED
    BY <2>2 DEF Free, hooks, Running
<1>3. /\ \A b \in DOMAIN base : base[b].fn = BaseCalls[b] /\ base[b].owner = "kernel"
      /\ \A a \in DOMAIN all : all[a].owner = "kernel"
      /\ \A c \in Running : cur[c].owner = "kernel"
  BY <1>1 DEF ListsInv, BaseInv, AllInv, GraceInv, InBase, InAll
<1>4. i # "kernel" /\ (\A b : ~InBase(i, b)') /\ (\A a : ~InAll(i, a)')
  BY <1>1, OwnerAssumption DEF InBase, InAll
<1>5. BaseInv' /\ AllInv' /\ GraceInv'
  BY <1>1, <1>2, <1>3, <1>4 DEF BaseInv, AllInv, GraceInv
<1>6. \A k \in DOMAIN site' : site'[k].owner = "kernel"
  BY <1>2 DEF ListsInv
<1> QED
  BY <1>1, <1>2, <1>5, <1>6 DEF ListsInv

LEMMA CpuKeepsLists ==
    ASSUME TypeOK, ListsInv, NEW c \in Cpus, Fetch(c) \/ Run(c) PROVE ListsInv'
<1>1. UNCHANGED <<stage, at, known, pack, backup, site, base, all>>
  BY DEF Fetch, Run, loader, hooks
<1>2. /\ \A i \in Instances : /\ (pack[i] <=> HookPack)' /\ stage'[i] # "patch"
                              /\ stage'[i] \in {"base", "all", "unbase", "unall"} => HookPack
      /\ \A k \in DOMAIN site' : site'[k].owner = "kernel"
  BY <1>1 DEF ListsInv
<1>3. BaseInv'
  BY <1>1 DEF ListsInv, BaseInv, InBase
<1>4. AllInv'
  BY <1>1 DEF ListsInv, AllInv, InAll
<1>5. NULL \notin Targets /\ cur \in [Cpus -> Targets \union {NULL}]
  BY OwnerAssumption DEF TypeOK
<1>6. GraceInv'
  <2>1. CASE Fetch(c)
    <3>1. PICK t \in Installed : cur' = [cur EXCEPT ![c] = t]
      BY <2>1 DEF Fetch
    <3>2. /\ t.owner \in Instances \union {"kernel"}
          /\ \A i \in Instances : t.owner = i => stage[i] # "absent" /\ stage[i] # "free"
      <4>1. CASE t \in Range(site)
        BY <4>1, OwnerAssumption DEF Range, ListsInv
      <4>2. CASE t \in Range(base)
        BY <4>2 DEF Range, ListsInv, BaseInv, InBase
      <4>3. CASE t \in Range(all)
        BY <4>3 DEF Range, ListsInv, AllInv, InAll
      <4> QED
        BY <4>1, <4>2, <4>3 DEF Installed
    <3>3. grace' = grace /\ stage' = stage
      BY <2>1 DEF Fetch, loader
    <3> QED
      BY <1>5, <3>1, <3>2, <3>3 DEF ListsInv, GraceInv, Running
  <2>2. CASE Run(c)
    <3>1. /\ cur' = [cur EXCEPT ![c] = NULL] /\ stage' = stage
          /\ grace' = [i \in Instances |-> grace[i] \ {c}]
      BY <2>2 DEF Run
    <3>2. \A d \in Running' : d \in Running /\ d # c /\ cur'[d] = cur[d]
      BY <1>5, <3>1 DEF Running
    <3> QED
      BY <3>1, <3>2 DEF ListsInv, GraceInv
  <2> QED
    BY <2>1, <2>2
<1> QED
  BY <1>2, <1>3, <1>4, <1>6 DEF ListsInv

LEMMA ListsInit == Init => ListsInv
<1> SUFFICES ASSUME Init PROVE ListsInv
  OBVIOUS
<1>1. /\ \A k \in DOMAIN site : site[k].owner = "kernel"
      /\ \A b \in DOMAIN base : base[b].owner = "kernel" /\ base[b].fn = BaseCalls[b]
      /\ \A a \in DOMAIN all : all[a].owner = "kernel"
  BY DEF Init, Booted, Kernel
<1>2. /\ \A i \in Instances : stage[i] = "absent" /\ i # "kernel"
      /\ Running = {}
  BY OwnerAssumption DEF Init, Running
<1>3. \A i \in Instances : pack[i] <=> HookPack
  BY Zenon DEF Init
<1>4. BaseInv /\ AllInv /\ GraceInv
  BY <1>1, <1>2 DEF BaseInv, AllInv, GraceInv, InBase, InAll
<1> QED
  BY <1>1, <1>2, <1>3, <1>4 DEF ListsInv

LEMMA ListsNext ==
    ASSUME TypeOK, ListsInv, Alone, [Next]_vars PROVE ListsInv'
<1>1. CASE UNCHANGED vars
  <2>1. UNCHANGED <<stage, at, known, pack, backup, site, base, all, cur, grace>>
    BY <1>1 DEF vars, loader, hooks
  <2>2. BaseInv' /\ AllInv' /\ GraceInv'
    BY <2>1 DEF ListsInv, BaseInv, AllInv, GraceInv, InBase, InAll, Running
  <2> QED
    BY <2>1, <2>2 DEF ListsInv
<1>2. CASE \E c \in Cpus : Fetch(c) \/ Run(c)
  BY <1>2, CpuKeepsLists
<1>3. ASSUME NEW i \in Instances,
             BeginInit(i) \/ Loading(i) \/ SetParam(i) \/ Unload(i) \/ Unloading(i)
      PROVE  ListsInv'
  <2>1. ~Patch(i) /\ ~EndPatch(i)
    BY DEF ListsInv, Patch, EndPatch, EndVisit, Visit
  <2>2. ~SetParam(i)
    BY DEF Alone, SetParam
  <2> QED
    BY <1>3, <2>1, <2>2, BaseStepKeepsLists, AllStepKeepsLists, StageStepKeepsLists,
       FreeKeepsLists DEF Loading, Unloading
<1> QED
  BY <1>1, <1>2, <1>3 DEF Next

(* What the invariant is for. *)
LEMMA ListsImply ==
    ASSUME TypeOK, ListsInv PROVE NoDanglingCall /\ Bypassed
<1>1. ASSUME NEW t \in Installed PROVE InMemory(t)
  <2>1. CASE t \in Range(site)
    BY <2>1 DEF Range, ListsInv, InMemory
  <2>2. CASE t \in Range(base)
    BY <2>2 DEF Range, ListsInv, BaseInv, InBase, InMemory
  <2>3. CASE t \in Range(all)
    BY <2>3 DEF Range, ListsInv, AllInv, InAll, InMemory
  <2> QED
    BY <2>1, <2>2, <2>3 DEF Installed
<1>2. \A c \in Running : InMemory(cur[c])
  BY DEF ListsInv, GraceInv, InMemory
<1>3. NoDanglingCall
  BY <1>1, <1>2 DEF NoDanglingCall
<1>4. Bypassed
  BY DEF ListsInv, BaseInv, InBase, Bypassed
<1> QED
  BY <1>3, <1>4

(* With a single instance, hook_driver = 0 and an unchanged parameter, the *)
(* kernel never calls into memory that rmmod has freed, however loading,   *)
(* unloading and the CPUs interleave: each replacement has left the lists, *)
(* and each CPU that had loaded one has run it, before Free.               *)
THEOREM NothingDangles == ASSUME Alone PROVE Spec => []NoDanglingCall
<1>1. TypeOK /\ ListsInv /\ [Next]_vars => ListsInv'
  BY ListsNext
<1>2. TypeOK /\ ListsInv => NoDanglingCall
  BY ListsImply
<1> QED
  BY <1>1, <1>2, TypeInit, TypeNext, ListsInit, PTL DEF Spec

(* And while it is loaded, every ARP, IP and IPv6 handler whose symbol it  *)
(* found is its own, for any list of packet types.                         *)
THEOREM StackBypassed == ASSUME Alone PROVE Spec => []Bypassed
<1>1. TypeOK /\ ListsInv /\ [Next]_vars => ListsInv'
  BY ListsNext
<1>2. TypeOK /\ ListsInv => Bypassed
  BY ListsImply
<1> QED
  BY <1>1, <1>2, TypeInit, TypeNext, ListsInit, PTL DEF Spec

(***************************************************************************)
(* backup_func holds one function, that of the last entry: ptype_all comes *)
(* back with it in every entry, or, with at most one, as it was.           *)
(***************************************************************************)
LEMMA LastInit == Init => LastInv
  BY DEF Init, LastInv, AsBefore, Booted

(* An instance goes on to another stage, and the list stays. *)
LEMMA GotoKeepsLast ==
    ASSUME TypeOK, Alone, NEW i \in Instances, NEW next \in Stages, Goto(i, next),
           all' = all, backup' = backup \/ backup' = [backup EXCEPT ![i] = NULL],
           next \in {"absent", "register", "base", "all", "free"} \/ ~HookPack => AsBefore(1),
           (HookPack /\ next \in {"loaded", "unbase", "unall"} /\ Len(AllCalls) > 0)
             => backup'[i] = Last
    PROVE  LastInv'
<1>1. stage'[i] = next /\ at'[i] = 1 /\ \A j \in Instances : j = i
  BY GotoTyped DEF Alone
<1>2. DOMAIN all = 1..Len(AllCalls) /\ Len(AllCalls) \in Nat
  BY Lengths DEF TypeOK
<1>3. (\A i_1 \in Instances : stage'[i_1] \in {"absent", "register", "base", "free"} \/ ~HookPack)
        => AsBefore(1)'
  BY <1>1 DEF AsBefore
<1>4. stage'[i] = "all" => AsBefore(1)' /\ ~(at'[i] > 1)
  BY <1>1 DEF AsBefore
<1>5. stage'[i] = "unall" => \A a \in DOMAIN all' : ~(a < at'[i])
  BY <1>1, <1>2
<1> QED
  BY <1>1, <1>3, <1>4, <1>5, Zenon DEF LastInv

(* The steps that leave the list alone *)
LEMMA StageKeepsLast ==
    ASSUME TypeOK, ListsInv, LastInv, Alone, NEW i \in Instances,
           \/ BeginInit(i) \/ Register(i) \/ ListOops(i) \/ EndBase(i) \/ EndAll(i)
           \/ Unload(i) \/ EndUnbase(i) \/ EndUnall(i) \/ Free(i)
    PROVE  LastInv'
<1>1. /\ DOMAIN all = 1..Len(AllCalls) /\ Len(AllCalls) \in Nat /\ Len(all) = Len(AllCalls)
      /\ \A j \in Instances : j = i
      /\ at[i] \in Nat /\ at[i] <= Entries(stage[i]) + 1
  BY Lengths DEF TypeOK, Alone
<1>2. /\ stage[i] \in {"absent", "register", "base", "free"} \/ ~HookPack => AsBefore(1)
      /\ stage[i] = "all" => AsBefore(at[i])
      /\ stage[i] = "all" /\ at[i] > 1 => backup[i] \in {Kernel(AllCalls[at[i] - 1]), Last}
      /\ (HookPack /\ stage[i] \in {"loaded", "unbase", "unall"} /\ Len(AllCalls) > 0)
           => backup[i] = Last
      /\ stage[i] = "unall" => \A a \in DOMAIN all : a < at[i] => all[a] = Last
  BY <1>1 DEF LastInv
<1>3. /\ (pack[i] <=> HookPack)
      /\ stage[i] \in {"base", "all", "unbase", "unall"} => HookPack
  BY DEF ListsInv
<1>4. Stages = {"absent", "patch", "register", "base", "all", "loaded", "unbase", "unall",
                "free", "stuck"}
  BY DEF Stages
<1>5. CASE BeginInit(i)
  <2>1. /\ Goto(i, "register") \/ Goto(i, "free")
        /\ all' = all /\ backup' = backup /\ stage[i] = "absent"
    BY <1>5, ParamAssumption DEF BeginInit, Alone, hooks
  <2> QED
    BY <1>2, <1>4, <2>1, GotoKeepsLast
<1>6. CASE Register(i)
  <2>1. /\ Goto(i, IF HookPack THEN "base" ELSE "loaded") \/ Goto(i, "free")
        /\ all' = all /\ backup' = backup /\ stage[i] = "register"
    BY <1>3, <1>6 DEF Register, hooks
  <2> QED
    BY <1>2, <1>4, <2>1, GotoKeepsLast
<1>7. CASE ListOops(i)
  <2>1. /\ Goto(i, "stuck") /\ all' = all /\ backup' = backup
        /\ stage[i] \in {"base", "all", "unbase", "unall"}
    BY <1>7 DEF ListOops, hooks
  <2> QED
    BY <1>3, <1>4, <2>1, GotoKeepsLast
<1>8. CASE EndBase(i)
  <2>1. Goto(i, "all") /\ all' = all /\ backup' = backup /\ stage[i] = "base"
    BY <1>8 DEF EndBase, EndVisit, hooks
  <2> QED
    BY <1>2, <1>4, <2>1, GotoKeepsLast
<1>9. CASE EndAll(i)
  <2>1. /\ Goto(i, "loaded") /\ all' = all /\ backup' = backup /\ stage[i] = "all"
        /\ at[i] > Len(AllCalls)
    BY <1>1, <1>9 DEF EndAll, EndVisit, hooks
  <2>2. at[i] = Len(AllCalls) + 1
    BY <1>1, <2>1 DEF Entries
  <2>3. Len(AllCalls) > 0 => backup[i] = Last
    BY <1>1, <1>2, <2>1, <2>2 DEF Last
  <2> QED
    BY <1>3, <1>4, <2>1, <2>3, GotoKeepsLast
<1>10. CASE Unload(i)
  <2>1. /\ Goto(i, IF HookPack THEN "unbase" ELSE "free")
        /\ all' = all /\ backup' = backup /\ stage[i] = "loaded"
    BY <1>3, <1>10 DEF Unload, hooks
  <2> QED
    BY <1>2, <1>4, <2>1, GotoKeepsLast
<1>11. CASE EndUnbase(i)
  <2>1. Goto(i, "unall") /\ all' = all /\ backup' = backup /\ stage[i] = "unbase"
    BY <1>11 DEF EndUnbase, EndVisit, hooks
  <2> QED
    BY <1>2, <1>3, <1>4, <2>1, GotoKeepsLast
<1>12. CASE EndUnall(i)
  <2>1. /\ Goto(i, "free") /\ all' = all /\ backup' = backup /\ stage[i] = "unall"
        /\ at[i] > Len(AllCalls)
    BY <1>1, <1>12 DEF EndUnall, EndVisit, hooks
  <2>2. AsBefore(1)
    BY <1>1, <1>2, <2>1 DEF AsBefore
  <2> QED
    BY <1>4, <2>1, <2>2, GotoKeepsLast
<1>13. CASE Free(i)
  <2>1. /\ Goto(i, "absent") /\ all' = all /\ backup' = [backup EXCEPT ![i] = NULL]
        /\ stage[i] = "free"
    BY <1>13 DEF Free, hooks
  <2>2. AsBefore(1)
    BY <1>2, <2>1
  <2> QED
    BY <1>2, <1>3, <1>4, <2>1, <2>2, GotoKeepsLast
<1> QED
  BY <1>5, <1>6, <1>7, <1>8, <1>9, <1>10, <1>11, <1>12, <1>13

(* The walks over ptype_all *)
LEMMA WalkKeepsLast ==
    ASSUME TypeOK, ListsInv, LastInv, Alone, NEW i \in Instances, HookAll(i) \/ UnhookAll(i)
    PROVE  LastInv'
<1> DEFINE k == at[i]
<1>1. /\ DOMAIN all = 1..Len(AllCalls) /\ Len(AllCalls) \in Nat /\ Len(all) = Len(AllCalls)
      /\ \A j \in Instances : j = i
      /\ k \in Nat \ {0} /\ backup \in [Instances -> Targets \union {NULL}]
  BY Lengths DEF TypeOK, Alone
<1>2. /\ Advance(i) /\ k <= Len(all) /\ stage[i] \in {"all", "unall"} /\ stage' = stage
  BY DEF HookAll, UnhookAll, Visit, Advance
<1>3. at'[i] = k + 1 /\ k \in DOMAIN all /\ Len(AllCalls) > 0 /\ HookPack
  <2>1. at'[i] = k + 1
    BY <1>2 DEF Advance, TypeOK
  <2> QED
    BY <1>1, <1>2, <2>1 DEF ListsInv
<1>4. CASE HookAll(i)
  <2>1. /\ stage[i] = "all" /\ backup'[i] = all[k]
        /\ all' = [all EXCEPT ![k] = Hook(i, "nop")]
    BY <1>1, <1>4 DEF HookAll, Visit
  <2>2. AsBefore(k)
    BY <2>1 DEF LastInv
  <2>3. backup'[i] \in {Kernel(AllCalls[k]), Last}
    BY <1>1, <1>3, <2>1, <2>2 DEF AsBefore
  <2>4. \/ \A a \in DOMAIN all' : a >= k + 1 => all'[a] = Kernel(AllCalls[a])
        \/ \A a \in DOMAIN all' : a >= k + 1 => all'[a] = Last
    BY <1>1, <2>1, <2>2 DEF AsBefore
  <2>5. AsBefore(at[i])'
    BY <1>3, <2>4 DEF AsBefore
  <2>6. (at'[i] - 1) = k
    BY <1>1, <1>3
  <2> QED
    BY <1>1, <1>2, <1>3, <2>1, <2>3, <2>5, <2>6 DEF LastInv
<1>5. CASE UnhookAll(i)
  <2>1. /\ stage[i] = "unall" /\ backup' = backup
        /\ all' = [all EXCEPT ![k] = IF backup[i] = NULL THEN Hook(NULL, "null") ELSE backup[i]]
    BY <1>5 DEF UnhookAll, Visit
  <2>2. backup[i] # NULL /\ backup[i] = Last
    BY <1>1, <1>3, <2>1 DEF ListsInv, AllInv, LastInv
  <2>3. \A a \in DOMAIN all : a < k => all[a] = Last
    BY <2>1 DEF LastInv
  <2>4. \A a \in DOMAIN all' : a < k + 1 => all'[a] = Last
    BY <1>1, <2>1, <2>2, <2>3
  <2> QED
    BY <1>1, <1>2, <1>3, <2>1, <2>2, <2>4 DEF LastInv
<1> QED
  BY <1>4, <1>5

LEMMA LastNext ==
    ASSUME TypeOK, ListsInv, LastInv, Alone, [Next]_vars
    PROVE  LastInv'
<1>1. CASE UNCHANGED <<all, backup, stage, at>>
  BY <1>1, Zenon DEF LastInv, AsBefore
<1>2. CASE UNCHANGED vars
  BY <1>1, <1>2 DEF vars, loader, hooks
<1>3. CASE \E c \in Cpus : Fetch(c) \/ Run(c)
  BY <1>1, <1>3 DEF Fetch, Run, loader, hooks
<1>4. ASSUME NEW i \in Instances, HookBase(i) \/ UnhookBase(i) PROVE LastInv'
  <2>1. /\ stage[i] \in {"base", "unbase"} /\ UNCHANGED <<all, backup, stage>>
        /\ \A j \in Instances : j = i
    BY <1>4 DEF HookBase, UnhookBase, Visit, Advance, Alone
  <2>2. (\A j \in Instances : stage[j] \in {"absent", "register", "base", "free"} \/ ~HookPack)
          => AsBefore(1)'
    BY <2>1 DEF LastInv, AsBefore
  <2> QED
    BY <2>1, <2>2 DEF LastInv
<1>5. ASSUME NEW i \in Instances,
             BeginInit(i) \/ Loading(i) \/ SetParam(i) \/ Unload(i) \/ Unloading(i)
      PROVE  LastInv'
  <2>1. ~Patch(i) /\ ~EndPatch(i)
    BY DEF ListsInv, Patch, EndPatch, EndVisit, Visit
  <2>2. ~SetParam(i)
    BY DEF Alone, SetParam
  <2> QED
    BY <1>4, <1>5, <2>1, <2>2, StageKeepsLast, WalkKeepsLast DEF Loading, Unloading
<1> QED
  BY <1>2, <1>3, <1>5 DEF Next

LEMMA ListsRestored ==
    ASSUME TypeOK, ListsInv, LastInv PROVE Restored
<1> SUFFICES ASSUME \A i \in Instances : stage[i] = "absent"
             PROVE  /\ base = Booted(BaseCalls)
                    /\ all = Booted(AllCalls) \/ (\A a \in DOMAIN all : all[a] = Last)
                    /\ Len(AllCalls) <= 1 => all = Booted(AllCalls)
  BY DEF Restored
<1>1. /\ base \in [1..Len(BaseCalls) -> Targets] /\ all \in [1..Len(AllCalls) -> Targets]
      /\ DOMAIN BaseCalls = 1..Len(BaseCalls) /\ DOMAIN AllCalls = 1..Len(AllCalls)
      /\ Len(AllCalls) \in Nat
  BY Lengths DEF TypeOK
<1>2. \A b \in 1..Len(BaseCalls) : base[b] = Kernel(BaseCalls[b])
  <2>1. \A b \in 1..Len(BaseCalls) : base[b].owner = "kernel" /\ base[b].fn = BaseCalls[b]
    BY <1>1 DEF ListsInv, BaseInv, InBase
  <2> QED
    BY <1>1, <2>1 DEF Kernel, Targets
<1>3. base = Booted(BaseCalls)
  BY <1>1, <1>2 DEF Booted
<1>4. \/ \A a \in 1..Len(AllCalls) : all[a] = Kernel(AllCalls[a])
      \/ \A a \in 1..Len(AllCalls) : all[a] = Last
  <2>1. AsBefore(1)
    BY DEF LastInv
  <2> QED
    BY <1>1, <2>1 DEF AsBefore
<1>5. (\A a \in 1..Len(AllCalls) : all[a] = Kernel(AllCalls[a])) => all = Booted(AllCalls)
  BY <1>1 DEF Booted
<1>6. Len(AllCalls) <= 1 => \A a \in 1..Len(AllCalls) : Last = Kernel(AllCalls[a])
  BY <1>1 DEF Last
<1> QED
  BY <1>1, <1>3, <1>4, <1>5, <1>6

(* After rmmod, with one instance, the lists are what they were before     *)
(* insmod, except that every entry of ptype_all may hold the handler of    *)
(* its last one: which is the same if there is at most one.                *)
THEOREM ListsComeBack == ASSUME Alone PROVE Spec => []Restored
<1>1. TypeOK /\ ListsInv /\ [Next]_vars => ListsInv'
  BY ListsNext
<1>2. TypeOK /\ ListsInv /\ LastInv /\ [Next]_vars => LastInv'
  BY LastNext
<1>3. TypeOK /\ ListsInv /\ LastInv => Restored
  BY ListsRestored
<1> QED
  BY <1>1, <1>2, <1>3, TypeInit, TypeNext, ListsInit, LastInit, PTL DEF Spec
=============================================================================
