--------------------------- MODULE GenpipeAlloc ---------------------------
(***************************************************************************)
(* genpipe__netdev_alloc_skb stores the buffer it gets from the kernel in  *)
(* the global genpipe_skb and returns the global, with no lock: the driver *)
(* calls it on every CPU that refills a receive ring.                      *)
(***************************************************************************)
EXTENDS Integers

CONSTANTS
    AllocCpus,  \* the CPUs
    MaxAllocs   \* bound on the calls

ASSUME AllocAssumption == MaxAllocs \in Nat

VARIABLES
    allocPc,      \* "idle", "store" or "load" of each CPU
    own,          \* the buffer that the CPU's current or last call has allocated, 0 for none
    genpipe_skb,  \* the global
    allocs,       \* buffers allocated so far, which also names the last one
    handed,       \* history: the buffer each CPU's last call returned
    alone         \* history: has no other call overlapped the CPU's current or last one?

allocVars == <<allocPc, own, genpipe_skb, allocs, handed, alone>>

AllocInit ==
    /\ allocPc = [c \in AllocCpus |-> "idle"]
    /\ own = [c \in AllocCpus |-> 0]
    /\ genpipe_skb = 0 /\ allocs = 0
    /\ handed = [c \in AllocCpus |-> 0]
    /\ alone = [c \in AllocCpus |-> TRUE]

Inside(c) == allocPc[c] # "idle"

(* __netdev_alloc_skb gives a new buffer, or NULL *)
AllocSkb(c) ==
    /\ allocPc[c] = "idle" /\ allocs < MaxAllocs
    /\ \/ allocs' = allocs + 1 /\ own' = [own EXCEPT ![c] = allocs + 1]
       \/ own' = [own EXCEPT ![c] = 0] /\ UNCHANGED allocs
    /\ allocPc' = [allocPc EXCEPT ![c] = "store"]
    /\ alone' = [d \in AllocCpus |->
          IF d = c THEN \A e \in AllocCpus \ {c} : ~Inside(e)
          ELSE alone[d] /\ ~Inside(d)]
    /\ UNCHANGED <<genpipe_skb, handed>>

(* Faulty variant: a buffer already there is kept (the code under #if 0). *)
StoreSkbOnce(c) ==
    /\ allocPc[c] = "store"
    /\ genpipe_skb' = IF genpipe_skb = 0 THEN own[c] ELSE genpipe_skb
    /\ allocPc' = [allocPc EXCEPT ![c] = "load"]
    /\ UNCHANGED <<own, allocs, handed, alone>>

StoreSkb(c) ==
    /\ allocPc[c] = "store"
    /\ genpipe_skb' = own[c]
    /\ allocPc' = [allocPc EXCEPT ![c] = "load"]
    /\ UNCHANGED <<own, allocs, handed, alone>>

(* return genpipe_skb *)
ReturnSkb(c) ==
    /\ allocPc[c] = "load"
    /\ handed' = [handed EXCEPT ![c] = genpipe_skb]
    /\ allocPc' = [allocPc EXCEPT ![c] = "idle"]
    /\ UNCHANGED <<own, genpipe_skb, allocs, alone>>

AllocNext == \E c \in AllocCpus : AllocSkb(c) \/ StoreSkb(c) \/ ReturnSkb(c)

AllocSpec == AllocInit /\ [][AllocNext]_allocVars

-----------------------------------------------------------------------------
(* A buffer goes to the wrong CPU, to two of them or to none only when two *)
(* calls overlap: a call that no other overlapped returned its own buffer, *)
(* and two CPUs whose last calls ran alone do not hold the same one.       *)
SharedOnlyByOverlap ==
    /\ \A c \in AllocCpus : (~Inside(c) /\ alone[c]) => handed[c] = own[c]
    /\ \A c, d \in AllocCpus :
          (c # d /\ ~Inside(c) /\ ~Inside(d) /\ alone[c] /\ alone[d] /\ handed[c] # 0)
              => handed[c] # handed[d]
=============================================================================
