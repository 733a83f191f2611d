--------------------------- MODULE GenpipeHooks ---------------------------
(***************************************************************************)
(* How genpipe.c takes over the receive path and gives it back.  Loading   *)
(* an instance of the module (genpipe0, genpipe1) looks symbols up in      *)
(* kallsyms, patches the calls in the text of the ixgbe driver, and        *)
(* replaces functions in the kernel's lists of packet types; unloading     *)
(* undoes the latter only.  Meanwhile the CPUs receive packets: they load  *)
(* the target of a call or of a list entry, and then run it.               *)
(*                                                                         *)
(* Call sites and list entries are numbered in the order in which they are *)
(* visited.  A target is a function of the kernel or a replacement that    *)
(* lies in the memory of an instance.                                      *)
(***************************************************************************)
EXTENDS Integers, Sequences, Functions

CONSTANTS
    Instances,     \* the instances of the module, one for each interface
    Cpus,
    SiteCalls,     \* the kernel function that each call site of ixgbe calls
    BaseCalls,     \* the handler in each entry of ptype_base
    AllCalls,      \* the handler in each entry of ptype_all
    Level,         \* the parameter hook_driver
    HookPack,      \* the parameter hook_dev_add_pack, when the module is loaded
    ParamWrites,   \* may that parameter be changed later, through sysfs?
    SymbolTables,  \* the sets of symbols that reading kallsyms may yield
    Lookups,       \* what get_pte of a call site may find: TRUE an entry, FALSE none
    MaxLoads,      \* bound on the number of times modules are loaded
    NULL

ASSUME ParamAssumption == /\ Level \in Nat /\ HookPack \in BOOLEAN /\ ParamWrites \in BOOLEAN
                          /\ Lookups \subseteq BOOLEAN /\ MaxLoads \in Nat
ASSUME CallsAssumption == /\ SiteCalls \in Seq(STRING) /\ BaseCalls \in Seq(STRING)
                          /\ AllCalls \in Seq(STRING) /\ SymbolTables \subseteq SUBSET STRING

(* The functions that are called, and the replacements. *)
Names == Range(SiteCalls) \union Range(BaseCalls) \union Range(AllCalls) \union {"nop", "null"}
Targets == [owner : Instances \union {"kernel", NULL}, fn : Names]

ASSUME OwnerAssumption ==
    /\ "kernel" \notin Instances /\ NULL \notin Instances /\ NULL # "kernel"
    /\ NULL \notin Targets

VARIABLES
    stage,    \* how far each instance is with loading or unloading
    at,       \* the site or entry that it visits next
    known,    \* the symbols it found
    pack,     \* its hook_dev_add_pack
    backup,   \* its backup_func
    site, base, all,   \* the targets of the call sites and of the list entries
    refs,     \* references to net_devices: dev_get_by_name takes, nothing returns
    cur,      \* the target each CPU has loaded and not yet run, or NULL
    grace,    \* the CPUs whose work must end before an instance is freed
    crashed   \* has a CPU run what is no longer there?

loader == <<stage, at, known, pack, backup, refs, grace>>
hooks == <<site, base, all>>
vars == <<loader, hooks, cur, crashed>>

Kernel(f) == [owner |-> "kernel", fn |-> f]
Hook(i, f) == [owner |-> i, fn |-> f]
Booted(calls) == [k \in DOMAIN calls |-> Kernel(calls[k])]

Receivers == {"netif_receive_skb", "napi_gro_receive", "netif_rx"}
Allocators == {"__netdev_alloc_skb", "kfree_skb", "__dev_kfree_skb_any"}
Protocols == {"arp_rcv", "ip_rcv", "ipv6_rcv"}

Required == Receivers \union {"ixgbe_clean_rx_irq", "__netdev_alloc_skb"}
HookedCalls == Receivers \union IF Level > 1 THEN Allocators ELSE {}

Init ==
    /\ stage = [i \in Instances |-> "absent"]
    /\ at = [i \in Instances |-> 1]
    /\ known = [i \in Instances |-> {}]
    /\ pack = [i \in Instances |-> HookPack]
    /\ backup = [i \in Instances |-> NULL]
    /\ site = Booted(SiteCalls) /\ base = Booted(BaseCalls) /\ all = Booted(AllCalls)
    /\ refs = 0
    /\ cur = [c \in Cpus |-> NULL]
    /\ grace = [i \in Instances |-> {}]
    /\ crashed = FALSE

Running == {c \in Cpus : cur[c] # NULL}

(* An instance goes to another stage.  When it is to be freed, the loader  *)
(* first waits for the CPUs that are receiving at this moment.             *)
Goto(i, next) ==
    /\ stage' = [stage EXCEPT ![i] = next]
    /\ at' = [at EXCEPT ![i] = 1]
    /\ grace' = IF next = "free" THEN [grace EXCEPT ![i] = Running] ELSE grace

(* Visit one of n sites or entries; after the last one go to the next stage. *)
Visit(i, here, n) == stage[i] = here /\ at[i] <= n
Advance(i) == at' = [at EXCEPT ![i] = @ + 1] /\ UNCHANGED <<stage, grace>>
EndVisit(i, here, n, next) ==
    /\ stage[i] = here /\ at[i] > n
    /\ Goto(i, next)
    /\ UNCHANGED <<known, pack, backup, refs, hooks, cur, crashed>>

-----------------------------------------------------------------------------
(***************************************************************************)
(* genpipe_init                                                            *)
(***************************************************************************)

(* dev_get_by_name, get_table_entry and the tests of hook_ixgbe.  Any of   *)
(* them may fail, or kmalloc, and then init returns an error.              *)
BeginInit(i) ==
    /\ stage[i] = "absent" /\ refs < MaxLoads
    /\ refs' = refs + 1
    /\ \E symbols \in SymbolTables :
          /\ known' = [known EXCEPT ![i] = symbols]
          /\ \/ Level = 0 /\ Goto(i, "register")
             \/ Level > 0 /\ Goto(i, IF Required \subseteq symbols THEN "patch" ELSE "free")
             \/ Goto(i, "free")
    /\ UNCHANGED <<pack, backup, hooks, cur, crashed>>

(* Faulty variant: a call that is not to be hooked is looked at for ever. *)
PatchStuck(i) ==
    /\ Visit(i, "patch", Len(site)) /\ site[at[i]].fn \in HookedCalls
    /\ site' = [site EXCEPT ![at[i]] = Hook(i, @.fn)]
    /\ Advance(i)
    /\ UNCHANGED <<known, pack, backup, base, all, refs, cur, crashed>>

(* hook_ixgbe: a call whose target is still the kernel's function is       *)
(* patched, if get_pte finds the page-table entry of the text.  A call is  *)
(* also passed over when it lies behind driver_bottom, the beginning of    *)
(* the last function of ixgbe.                                             *)
Patch(i) ==
    /\ Visit(i, "patch", Len(site))
    /\ \E found \in Lookups :
          site' = IF /\ site[at[i]].owner = "kernel"
                     /\ site[at[i]].fn \in HookedCalls \intersect known[i]
                     /\ found
                  THEN [site EXCEPT ![at[i]] = Hook(i, @.fn)]
                  ELSE site
    /\ Advance(i)
    /\ UNCHANGED <<known, pack, backup, base, all, refs, cur, crashed>>

EndPatch(i) == EndVisit(i, "patch", Len(site), "register")

(* misc_register.  When it fails the buffers are freed, and nothing else is undone. *)
Register(i) ==
    /\ stage[i] = "register"
    /\ \/ Goto(i, IF pack[i] THEN "base" ELSE "loaded")
       \/ Goto(i, "free")
    /\ UNCHANGED <<known, pack, backup, refs, hooks, cur, crashed>>

(* The head of a list is a null pointer if its symbol was not found. *)
ListOops(i) ==
    /\ \/ stage[i] \in {"base", "unbase"} /\ "ptype_base" \notin known[i]
       \/ stage[i] \in {"all", "unall"} /\ "ptype_all" \notin known[i]
    /\ Goto(i, "stuck")
    /\ UNCHANGED <<known, pack, backup, refs, hooks, cur, crashed>>

(* Faulty variant: the IPv6 handler is left in place. *)
HookBaseNotIpv6(i) ==
    /\ Visit(i, "base", Len(base)) /\ "ptype_base" \in known[i]
    /\ base' = IF base[at[i]] \in {Kernel(f) : f \in (Protocols \ {"ipv6_rcv"}) \intersect known[i]}
               THEN [base EXCEPT ![at[i]] = Hook(i, @.fn)] ELSE base
    /\ Advance(i)
    /\ UNCHANGED <<known, pack, backup, site, all, refs, cur, crashed>>

(* ptype->func == arprcv, iprcv or ipv6rcv: put the replacement there *)
HookBase(i) ==
    /\ Visit(i, "base", Len(base)) /\ "ptype_base" \in known[i]
    /\ base' = IF base[at[i]] \in {Kernel(f) : f \in Protocols \intersect known[i]}
               THEN [base EXCEPT ![at[i]] = Hook(i, @.fn)] ELSE base
    /\ Advance(i)
    /\ UNCHANGED <<known, pack, backup, site, all, refs, cur, crashed>>

EndBase(i) == "ptype_base" \in known[i] /\ EndVisit(i, "base", Len(base), "all")

(* backup_func = ptype->func; ptype->func = genpipe_nop *)
HookAll(i) ==
    /\ Visit(i, "all", Len(all)) /\ "ptype_all" \in known[i]
    /\ backup' = [backup EXCEPT ![i] = all[at[i]]]
    /\ all' = [all EXCEPT ![at[i]] = Hook(i, "nop")]
    /\ Advance(i)
    /\ UNCHANGED <<known, pack, site, base, refs, cur, crashed>>

EndAll(i) == "ptype_all" \in known[i] /\ EndVisit(i, "all", Len(all), "loaded")

-----------------------------------------------------------------------------
(* A write to /sys/module/.../parameters/hook_dev_add_pack (mode 0644) *)
SetParam(i) ==
    /\ ParamWrites /\ stage[i] = "loaded"
    /\ pack' = [pack EXCEPT ![i] = ~@]
    /\ UNCHANGED <<stage, at, known, backup, refs, grace, hooks, cur, crashed>>

(***************************************************************************)
(* genpipe_cleanup                                                         *)
(***************************************************************************)
Unload(i) ==
    /\ stage[i] = "loaded"
    /\ Goto(i, IF pack[i] THEN "unbase" ELSE "free")
    /\ UNCHANGED <<known, pack, backup, refs, hooks, cur, crashed>>

(* Faulty variant: the IPv6 handler is not given back. *)
UnhookBaseNotIpv6(i) ==
    /\ Visit(i, "unbase", Len(base)) /\ "ptype_base" \in known[i]
    /\ base' = IF base[at[i]].owner = i /\ base[at[i]].fn # "ipv6_rcv"
               THEN [base EXCEPT ![at[i]] = Kernel(@.fn)] ELSE base
    /\ Advance(i)
    /\ UNCHANGED <<known, pack, backup, site, all, refs, cur, crashed>>

UnhookBase(i) ==
    /\ Visit(i, "unbase", Len(base)) /\ "ptype_base" \in known[i]
    /\ base' = IF base[at[i]].owner = i THEN [base EXCEPT ![at[i]] = Kernel(@.fn)] ELSE base
    /\ Advance(i)
    /\ UNCHANGED <<known, pack, backup, site, all, refs, cur, crashed>>

EndUnbase(i) == "ptype_base" \in known[i] /\ EndVisit(i, "unbase", Len(base), "unall")

(* Faulty variant: the saved function is not put back. *)
UnhookAllSkipped(i) ==
    /\ Visit(i, "unall", Len(all)) /\ "ptype_all" \in known[i]
    /\ Advance(i)
    /\ UNCHANGED <<known, pack, backup, hooks, refs, cur, crashed>>

(* Faulty variant: the head of the list is taken for one more entry. *)
UnhookAllHead(i) ==
    /\ Visit(i, "unall", Len(all) + 1) /\ "ptype_all" \in known[i]
    /\ all' = IF at[i] > Len(all) THEN all
              ELSE [all EXCEPT ![at[i]] = IF backup[i] = NULL THEN Hook(NULL, "null") ELSE backup[i]]
    /\ Advance(i)
    /\ UNCHANGED <<known, pack, backup, site, base, refs, cur, crashed>>

(* "if (ptype->func == genpipe_nop);" guards nothing: every entry gets backup_func *)
UnhookAll(i) ==
    /\ Visit(i, "unall", Len(all)) /\ "ptype_all" \in known[i]
    /\ all' = [all EXCEPT ![at[i]] = IF backup[i] = NULL THEN Hook(NULL, "null") ELSE backup[i]]
    /\ Advance(i)
    /\ UNCHANGED <<known, pack, backup, site, base, refs, cur, crashed>>

EndUnall(i) == "ptype_all" \in known[i] /\ EndVisit(i, "unall", Len(all), "free")

(* The loader frees the memory of the instance after a grace period. *)
Free(i) ==
    /\ stage[i] = "free" /\ grace[i] = {}
    /\ Goto(i, "absent")
    /\ known' = [known EXCEPT ![i] = {}]
    /\ pack' = [pack EXCEPT ![i] = HookPack]
    /\ backup' = [backup EXCEPT ![i] = NULL]
    /\ UNCHANGED <<refs, hooks, cur, crashed>>

-----------------------------------------------------------------------------
(***************************************************************************)
(* The CPUs, under rcu_read_lock: load a target, then run it.              *)
(***************************************************************************)
Installed == Range(site) \union Range(base) \union Range(all)
InMemory(t) == t.owner = "kernel" \/ (t.owner \in Instances /\ stage[t.owner] # "absent")

Fetch(c) ==
    /\ cur[c] = NULL
    /\ \E t \in Installed : cur' = [cur EXCEPT ![c] = t]
    /\ UNCHANGED <<loader, hooks, crashed>>

(* The replacement also counts the packet: see GenpipeStats. *)
Run(c) ==
    LET t == cur[c]
    IN  /\ t # NULL
        /\ cur' = [cur EXCEPT ![c] = NULL]
        /\ grace' = [i \in Instances |-> grace[i] \ {c}]
        /\ crashed' = ~InMemory(t)
        /\ UNCHANGED <<stage, at, known, pack, backup, refs, hooks>>

Loading(i) ==
    \/ Patch(i) \/ EndPatch(i) \/ Register(i) \/ ListOops(i) \/ HookBase(i) \/ EndBase(i)
    \/ HookAll(i) \/ EndAll(i)

Unloading(i) ==
    \/ UnhookBase(i) \/ EndUnbase(i) \/ UnhookAll(i) \/ EndUnall(i) \/ Free(i)

Next ==
    /\ ~crashed
    /\ \/ \E i \in Instances : \/ BeginInit(i) \/ Loading(i)
                               \/ SetParam(i)
                               \/ Unload(i) \/ Unloading(i)
       \/ \E c \in Cpus : Fetch(c) \/ Run(c)

(* insmod and rmmod keep running, and a CPU ends what it has begun. *)
Fairness ==
    /\ \A i \in Instances : WF_vars(~crashed /\ (Loading(i) \/ Unloading(i)))
    /\ \A c \in Cpus : WF_vars(~crashed /\ Run(c))

Spec == Init /\ [][Next]_vars /\ Fairness

-----------------------------------------------------------------------------
Stages == {"absent", "patch", "register", "base", "all", "loaded", "unbase",
           "unall", "free", "stuck"}

(* The entries that an instance visits at a stage *)
Entries(s) ==
    CASE s = "patch" -> Len(SiteCalls)
      [] s \in {"base", "unbase"} -> Len(BaseCalls)
      [] s \in {"all", "unall"} -> Len(AllCalls)
      [] OTHER -> 0

(* Every variable has its type, a walk stops behind the last entry of its  *)
(* list, and a module that is not there has no data.                       *)
TypeOK ==
    /\ stage \in [Instances -> Stages]
    /\ at \in [Instances -> Nat] /\ \A i \in Instances : at[i] \in 1..(Entries(stage[i]) + 1)
    /\ known \in [Instances -> SUBSET STRING] /\ pack \in [Instances -> BOOLEAN]
    /\ backup \in [Instances -> Targets \union {NULL}]
    /\ site \in [1..Len(SiteCalls) -> Targets] /\ base \in [1..Len(BaseCalls) -> Targets]
    /\ all \in [1..Len(AllCalls) -> Targets]
    /\ refs \in 0..MaxLoads /\ crashed \in BOOLEAN
    /\ cur \in [Cpus -> Targets \union {NULL}]
    /\ grace \in [Instances -> SUBSET Cpus]
    /\ \A i \in Instances : stage[i] = "absent" => known[i] = {} /\ backup[i] = NULL

(* Whatever the kernel may call next on its receive path is in memory: the *)
(* targets of ixgbe's calls, of the list entries, and those that a CPU has *)
(* loaded already.  This is what genpipe_cleanup has to restore.           *)
NoDanglingCall == \A t \in Installed \union {cur[c] : c \in Running} : InMemory(t)

(* As long as an instance with hook_dev_add_pack is loaded, every ARP, IP  *)
(* and IPv6 handler whose symbol it found is its own: the packets of its   *)
(* interface bypass the stack.                                             *)
Bypassed ==
    \A i \in Instances : (stage[i] = "loaded" /\ pack[i]) =>
        \A b \in DOMAIN base : BaseCalls[b] \in Protocols \intersect known[i] => base[b].owner = i

(* The handler in the last entry of ptype_all *)
Last == Kernel(AllCalls[Len(AllCalls)])

(* After all modules are gone ptype_base is as it was.  Of ptype_all that  *)
(* is true while it has one entry: backup_func holds the handler of the    *)
(* last one only, and every entry is given it.                             *)
Restored ==
    (\A i \in Instances : stage[i] = "absent")
        => /\ base = Booted(BaseCalls)
           /\ all = Booted(AllCalls) \/ (\A a \in DOMAIN all : all[a] = Last)
           /\ Len(AllCalls) <= 1 => all = Booted(AllCalls)

(***************************************************************************)
(* Strengthenings, for one instance that leaves the driver's text alone    *)
(* and whose parameter nobody changes: which entries its replacements may  *)
(* be in at each stage, and that the CPUs that still run one are waited    *)
(* for.                                                                    *)
(***************************************************************************)
InBase(i, b) ==
    \/ stage[i] = "base" /\ b < at[i]
    \/ stage[i] \in {"all", "loaded"}
    \/ stage[i] = "unbase" /\ b >= at[i]

InAll(i, a) ==
    \/ stage[i] = "all" /\ a < at[i]
    \/ stage[i] \in {"loaded", "unbase"}
    \/ stage[i] = "unall" /\ a >= at[i]

BaseInv ==
    \A b \in DOMAIN base :
        /\ base[b].fn = BaseCalls[b] /\ base[b].owner \in Instances \union {"kernel"}
        /\ \A i \in Instances :
              /\ base[b].owner = i => HookPack /\ (InBase(i, b) \/ stage[i] = "stuck")
              /\ (HookPack /\ InBase(i, b) /\ BaseCalls[b] \in Protocols \intersect known[i])
                    => base[b].owner = i

AllInv ==
    \A a \in DOMAIN all :
        /\ all[a].owner \in Instances \union {"kernel"}
        /\ \A i \in Instances :
              /\ all[a].owner = i => HookPack /\ (InAll(i, a) \/ stage[i] = "stuck")
              /\ (HookPack /\ (InAll(i, a) \/ stage[i] = "unall"))
                    => backup[i] # NULL /\ backup[i].owner = "kernel"

(* How far ptype_all has been overwritten with its last entry's handler: it *)
(* has either not been or has been by an earlier unloading, or the walk of  *)
(* this one is at work.                                                     *)
AsBefore(from) ==
    \/ \A a \in DOMAIN all : a >= from => all[a] = Kernel(AllCalls[a])
    \/ \A a \in DOMAIN all : a >= from => all[a] = Last

LastInv ==
    /\ (\A i \in Instances : stage[i] \in {"absent", "register", "base", "free"} \/ ~HookPack)
          => AsBefore(1)
    /\ \A i \in Instances :
          /\ stage[i] = "all" =>
                /\ AsBefore(at[i])
                /\ at[i] > 1 => backup[i] \in {Kernel(AllCalls[at[i] - 1]), Last}
          /\ (HookPack /\ stage[i] \in {"loaded", "unbase", "unall"} /\ Len(AllCalls) > 0)
                => backup[i] = Last
          /\ stage[i] = "unall" => \A a \in DOMAIN all : a < at[i] => all[a] = Last

GraceInv ==
    \A c \in Running :
        /\ cur[c].owner \in Instances \union {"kernel"}
        /\ \A i \in Instances :
              cur[c].owner = i => stage[i] # "absent" /\ (stage[i] = "free" => c \in grace[i])

ListsInv ==
    /\ \A i \in Instances : /\ (pack[i] <=> HookPack) /\ stage[i] # "patch"
                            /\ stage[i] \in {"base", "all", "unbase", "unall"} => HookPack
    /\ \A k \in DOMAIN site : site[k].owner = "kernel"
    /\ BaseInv /\ AllInv /\ GraceInv

(* insmod returns, or dies of a missing list head, and rmmod returns,      *)
(* although the CPUs go on receiving.                                      *)
InsmodRmmodEnd ==
    \A i \in Instances :
        /\ stage[i] \in {"patch", "register", "base", "all"}
              ~> (stage[i] \in {"loaded", "stuck", "absent"} \/ crashed)
        /\ stage[i] \in {"unbase", "unall", "free"} ~> (stage[i] \in {"absent", "stuck"} \/ crashed)
=============================================================================
