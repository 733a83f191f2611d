--------------------------- MODULE GenpipeStats ---------------------------
(***************************************************************************)
(* The packet counters of genpipe.  Every CPU counts in an element of its  *)
(* own and takes no lock; genpipe_init clears the elements one by one when *)
(* the hooks are already in place; genpipe_read adds them up in an int     *)
(* while the CPUs go on counting; and count prints the difference of two   *)
(* such sums.  rx_count stands for alloc_count too, which is counted and   *)
(* cleared in the same way and added up in the same loop.                  *)
(***************************************************************************)
EXTENDS Integers, Sequences

CONSTANTS
    NCpus,       \* NR_CPUS
    MaxPackets,  \* bound on the packets each CPU receives
    IntMax       \* the number of values of the int that holds a sum

ASSUME StatsAssumption == NCpus \in Nat \ {0} /\ MaxPackets \in Nat /\ IntMax \in Nat \ {0}

Cpu == 0..(NCpus - 1)

VARIABLES
    rx_count, free_count,  \* one counter per CPU
    cpu_pc,    \* "idle", "free" or "rx" while a CPU increments, "freed" in between
    loaded,    \* the value a CPU has loaded to increment
    clearing,  \* the next element that genpipe_init clears; NCpus when it is over
    half,      \* is rx_count cleared already in this element, and free_count not?
    reader,    \* the next element genpipe_read adds, or -1 between calls
    rxcounts,  \* its sum so far
    sums,      \* what count has read: start, and then end
    received,  \* history: the packets each CPU has counted, and ...
    packets,   \* ... those they have counted together
    before,    \* history: how many of them when its element was cleared
    stale_rx,   \* history: the CPUs in whose increment of rx_count the clear fell
    revived,    \* history: those that have then stored the old value, incremented
    stale_free, \* history: the CPUs in whose increment of free_count the clear fell
    marks,     \* history: the packets counted at the start and the end of each read
    disturbed  \* history: was an element cleared, or revived, after the first of these?

countVars == <<rx_count, free_count, cpu_pc, loaded>>
clearVars == <<clearing, half, before>>
readVars == <<reader, rxcounts, sums, marks>>
trafficVars == <<received, packets>>
staleVars == <<stale_rx, revived, stale_free, disturbed>>
statVars == <<countVars, clearVars, readVars, trafficVars, staleVars>>

StatInit ==
    /\ rx_count = [c \in Cpu |-> 0] /\ free_count = [c \in Cpu |-> 0]
    /\ cpu_pc = [c \in Cpu |-> "idle"] /\ loaded = [c \in Cpu |-> 0]
    /\ clearing = 0 /\ half = FALSE
    /\ reader = -1 /\ rxcounts = 0 /\ sums = <<>>
    /\ received = [c \in Cpu |-> 0] /\ packets = 0
    /\ before = [c \in Cpu |-> 0]
    /\ stale_rx = {} /\ revived = {} /\ stale_free = {}
    /\ marks = <<>> /\ disturbed = FALSE

-----------------------------------------------------------------------------
Goes(c, from, to) == cpu_pc[c] = from /\ cpu_pc' = [cpu_pc EXCEPT ![c] = to]

(* ++free_count[smp_processor_id()] in genpipe_napi_gro_receive: a load ... *)
LoadFree(c) ==
    /\ Goes(c, "idle", "free") /\ received[c] < MaxPackets
    /\ loaded' = [loaded EXCEPT ![c] = free_count[c]]
    /\ UNCHANGED <<rx_count, free_count, clearVars, readVars, trafficVars, staleVars>>

(* Faulty variant: genpipe_napi_gro_receive does not count what it receives. *)
StoreFreeOnly(c) ==
    /\ Goes(c, "free", "idle")
    /\ free_count' = [free_count EXCEPT ![c] = loaded[c] + 1]
    /\ UNCHANGED <<rx_count, loaded, clearVars, readVars, trafficVars, staleVars>>

(* ... and a store *)
StoreFree(c) ==
    /\ Goes(c, "free", "freed")
    /\ free_count' = [free_count EXCEPT ![c] = loaded[c] + 1]
    /\ UNCHANGED <<rx_count, loaded, clearVars, readVars, trafficVars, staleVars>>

(* ++rx_count[smp_processor_id()]: after that, or in another hook *)
LoadRx(c) ==
    /\ Goes(c, "idle", "rx") \/ Goes(c, "freed", "rx")
    /\ received[c] < MaxPackets
    /\ loaded' = [loaded EXCEPT ![c] = rx_count[c]]
    /\ UNCHANGED <<rx_count, free_count, clearVars, readVars, trafficVars, staleVars>>

StoreRx(c) ==
    /\ Goes(c, "rx", "idle")
    /\ rx_count' = [rx_count EXCEPT ![c] = loaded[c] + 1]
    /\ received' = [received EXCEPT ![c] = @ + 1] /\ packets' = packets + 1
    /\ revived' = IF c \in stale_rx THEN revived \union {c} ELSE revived
    /\ disturbed' = (disturbed \/ (c \in stale_rx /\ marks # <<>>))
    /\ stale_rx' = stale_rx \ {c}
    /\ UNCHANGED <<free_count, loaded, clearVars, readVars, stale_free>>

(* Faulty variant: rx_count is not cleared. *)
ClearRxSkipped ==
    /\ clearing < NCpus /\ ~half
    /\ before' = [before EXCEPT ![clearing] = received[clearing]]
    /\ half' = TRUE
    /\ stale_rx' = IF cpu_pc[clearing] = "rx" THEN stale_rx \union {clearing} ELSE stale_rx
    /\ disturbed' = (disturbed \/ marks # <<>>)
    /\ UNCHANGED <<countVars, clearing, readVars, trafficVars, revived, stale_free>>

(* The end of genpipe_init: rx_count[i] = 0, ... *)
ClearRx ==
    /\ clearing < NCpus /\ ~half
    /\ rx_count' = [rx_count EXCEPT ![clearing] = 0]
    /\ before' = [before EXCEPT ![clearing] = received[clearing]]
    /\ half' = TRUE
    /\ stale_rx' = IF cpu_pc[clearing] = "rx" THEN stale_rx \union {clearing} ELSE stale_rx
    /\ disturbed' = (disturbed \/ marks # <<>>)
    /\ UNCHANGED <<free_count, cpu_pc, loaded, clearing, readVars, trafficVars, revived, stale_free>>

(* ... free_count[i] = 0 *)
ClearFree ==
    /\ clearing < NCpus /\ half
    /\ free_count' = [free_count EXCEPT ![clearing] = 0]
    /\ half' = FALSE /\ clearing' = clearing + 1
    /\ stale_free' = IF cpu_pc[clearing] = "free" THEN stale_free \union {clearing} ELSE stale_free
    /\ UNCHANGED <<rx_count, cpu_pc, loaded, before, readVars, trafficVars, stale_rx, revived, disturbed>>

-----------------------------------------------------------------------------
(* Faulty variant: the sum goes on from the last call's. *)
ReadStartNoReset ==
    /\ reader = -1 /\ Len(sums) < 2
    /\ reader' = 0
    /\ marks' = Append(marks, packets)
    /\ UNCHANGED <<countVars, clearVars, rxcounts, sums, trafficVars, staleVars>>

ReadStart ==
    /\ reader = -1 /\ Len(sums) < 2
    /\ reader' = 0 /\ rxcounts' = 0
    /\ marks' = Append(marks, packets)
    /\ UNCHANGED <<countVars, clearVars, sums, trafficVars, staleVars>>

(* rxcounts += rx_count[i] *)
ReadAdd ==
    /\ reader \in Cpu
    /\ rxcounts' = (rxcounts + rx_count[reader]) % IntMax
    /\ reader' = reader + 1
    /\ UNCHANGED <<countVars, clearVars, sums, marks, trafficVars, staleVars>>

(* The text is copied out and count scans it into an int again. *)
ReadReturn ==
    /\ reader = NCpus
    /\ sums' = Append(sums, rxcounts)
    /\ reader' = -1
    /\ marks' = Append(marks, packets)
    /\ UNCHANGED <<countVars, clearVars, rxcounts, trafficVars, staleVars>>

(* copy_to_user fails: -EFAULT, and nothing was read *)
ReadEfault ==
    /\ reader = NCpus
    /\ reader' = -1
    /\ marks' = SubSeq(marks, 1, Len(marks) - 1)
    /\ UNCHANGED <<countVars, clearVars, rxcounts, sums, trafficVars, staleVars>>

StatNext ==
    \/ ClearRx \/ ClearFree \/ ReadStart \/ ReadAdd \/ ReadReturn \/ ReadEfault
    \/ \E c \in Cpu : LoadFree(c) \/ StoreFree(c) \/ LoadRx(c) \/ StoreRx(c)

StatSpec == StatInit /\ [][StatNext]_statVars

-----------------------------------------------------------------------------
(* A CPU's counter shows the packets it has counted since its element was  *)
(* cleared, no more and no less; only if the clear fell between the load   *)
(* and the store of an increment does it show the earlier ones too, from   *)
(* that store on.                                                          *)
CountsSinceClear ==
    \A c \in Cpu :
        rx_count[c] = received[c] - IF c \in revived THEN 0 ELSE before[c]

(* A CPU frees no packet that it does not receive: its free_count is at    *)
(* most its rx_count, or one more while a packet is being counted (the     *)
(* free comes first).  The exceptions are an element that genpipe_init has *)
(* half cleared, and one whose free_count was cleared inside an increment. *)
FreedWereReceived ==
    \A c \in Cpu :
        \/ half /\ c = clearing
        \/ c \in stale_free
        \/ free_count[c] <= rx_count[c] + IF cpu_pc[c] \in {"freed", "rx"} THEN 1 ELSE 0

(* What count prints: two sums taken while the CPUs go on counting differ  *)
(* (as ints, wrapped around or not) by at least the packets counted        *)
(* between the two reads and at most those counted from the start of the   *)
(* first to the end of the second, if genpipe_init was over before them,   *)
(* with the increments that it cleared their counters in.                  *)
DiffIsTraffic ==
    (Len(marks) = 4 /\ Len(sums) = 2) =>
        LET diff == (sums[2] - sums[1]) % IntMax
        IN  (~disturbed /\ marks[4] - marks[1] < IntMax) =>
                diff \in (marks[3] - marks[2]) .. (marks[4] - marks[1])
=============================================================================
