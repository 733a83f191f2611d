--------------------------- MODULE Kernel_proofs ---------------------------
(***************************************************************************)
(* Proofs about the parts of the kernel modules that share no state with   *)
(* pmem's window or genpipe's lists and frames: genpipe's packet counters, *)
(* buffers and search for symbols, the page-table walks, the drivers' mmap *)
(* and pci_enabler_module.                                                 *)
(***************************************************************************)
EXTENDS GenpipeStats, GenpipeAlloc, PageWalk, DevMmap, PciEnabler, KallsymsScan,
        GenpipePointers,
        WellFoundedInduction, TLAPS

-----------------------------------------------------------------------------
(***************************************************************************)
(* Arithmetic.                                                             *)
(***************************************************************************)

(* Every set of numbers that is not empty has a least one. *)
LEMMA LeastNumber ==
    ASSUME NEW S, S \subseteq Nat, S # {}
    PROVE  \E x \in S : \A y \in S : x <= y
<1> DEFINE R == OpToRel(<, Nat)
<1>1. IsWellFoundedOn(R, Nat)
  BY NatLessThanWellFounded
<1>2. \A x, y \in Nat : x < y => <<x, y>> \in R
  BY DEF OpToRel
<1> HIDE DEF R
<1>3. PICK x \in S : \A y \in S : <<y, x>> \notin R
  BY <1>1, WFMin
<1>4. ASSUME NEW y \in S PROVE x <= y
  <2>1. x \in Nat /\ y \in Nat /\ <<y, x>> \notin R
    BY <1>3
  <2>2. ~(y < x)
    BY <1>2, <2>1, Zenon
  <2> QED
    BY <2>1, <2>2
<1> QED
  BY <1>4

(* A number's remainder is the i of f * P + i. *)
LEMMA ModUnique ==
    ASSUME NEW P \in Nat \ {0}, NEW f \in Int, NEW i \in 0..(P - 1)
    PROVE  (f * P + i) % P = i
  <1> DEFINE x == f * P + i
             q == x \div P
             r == x % P
  <1>1. x \in Int
    OBVIOUS
  <1>2. x = P * q + r /\ r \in 0..(P - 1) /\ q \in Int
    BY <1>1
  <1>3. P * (q - f) = i - r /\ q - f \in Int
    BY <1>2
  <1> HIDE DEF q, x, r
  <1>4. q - f < 1 /\ q - f > -1
    BY <1>2, <1>3
  <1>5. q = f
    BY <1>2, <1>4
  <1> QED
    BY <1>2, <1>3, <1>5 DEF x, r

(* Adding modulo P, and subtracting, can be put off. *)
LEMMA ModAdd ==
    ASSUME NEW P \in Nat \ {0}, NEW x \in Int, NEW y \in Int
    PROVE  ((x % P) + y) % P = (x + y) % P
  <1> DEFINE q == x \div P
             r == x % P
             q2 == (r + y) \div P
             r2 == (r + y) % P
  <1>1. x = q * P + r /\ r \in 0..(P - 1) /\ q \in Int
    OBVIOUS
  <1>2. r + y = q2 * P + r2 /\ r2 \in 0..(P - 1) /\ q2 \in Int
    <2> HIDE DEF r
    <2> QED BY <1>1
  <1> HIDE DEF q, r, q2, r2
  <1>3. x + y = (q + q2) * P + r2
    <2>1. (q + q2) * P = q * P + q2 * P /\ q * P \in Int /\ q2 * P \in Int
      BY <1>1, <1>2
    <2> QED BY <1>1, <1>2, <2>1
  <1>4. ((q + q2) * P + r2) % P = r2
    BY <1>1, <1>2, ModUnique
  <1> QED BY <1>3, <1>4 DEF r2, r

LEMMA ModSub ==
    ASSUME NEW P \in Nat \ {0}, NEW x \in Int, NEW y \in Int
    PROVE  ((x % P) - (y % P)) % P = (x - y) % P
  <1> DEFINE q == y \div P
             r == y % P
             d == x - r
             q2 == d \div P
             r2 == d % P
  <1>1. y = q * P + r /\ r \in 0..(P - 1) /\ q \in Int
    OBVIOUS
  <1>2. ((x % P) + (0 - r)) % P = (x + (0 - r)) % P
    <2> HIDE DEF r
    <2>1. 0 - r \in Int
      BY <1>1
    <2> QED BY <2>1, ModAdd, Zenon
  <1>3. x % P \in Int
    OBVIOUS
  <1>4. ((x % P) - r) % P = d % P
    <2> DEFINE z == x % P
    <2>1. z + (0 - r) = z - r /\ x + (0 - r) = d
      BY <1>1, <1>3
    <2> HIDE DEF d, z, r
    <2>2. (z + (0 - r)) % P = (x + (0 - r)) % P
      BY <1>2 DEF z
    <2>3. (z - r) % P = d % P
      BY <2>1, <2>2
    <2> QED BY <2>3 DEF z
  <1> HIDE DEF r
  <1>5. d \in Int
    BY <1>1
  <1> HIDE DEF d
  <1>6. d = q2 * P + r2 /\ r2 \in 0..(P - 1) /\ q2 \in Int
    BY <1>5
  <1> HIDE DEF q, q2, r2
  <1>7. x - y = (q2 - q) * P + r2
    <2>1. (q2 - q) * P = q2 * P - q * P /\ q * P \in Int /\ q2 * P \in Int
      BY <1>1, <1>6
    <2>2. d = x - r
      BY DEF d
    <2> QED BY <1>1, <1>6, <2>1, <2>2
  <1>8. ((q2 - q) * P + r2) % P = r2
    BY <1>1, <1>6, ModUnique
  <1>9. (x - y) % P = d % P
    BY <1>7, <1>8 DEF r2
  <1> QED BY <1>4, <1>9 DEF r

(* Wrapping around at every turn of the loop is wrapping around once. *)
LEMMA ModSucc ==
    ASSUME NEW P \in Nat \ {0}, NEW x \in Nat
    PROVE  ((x % P) + 1) % P = (x + 1) % P
  <1>1. x \in Int /\ 1 \in Int
    OBVIOUS
  <1> QED BY <1>1, ModAdd, Zenon

(* The sums of an array's elements from the first one on: a shortest array *)
(* that had none could be shortened.                                       *)
LEMMA PrefixSumsExist ==
    ASSUME NEW lo \in Int, NEW hi \in Int, lo <= hi, NEW a \in [(lo + 1)..hi -> Int]
    PROVE  \E g \in [lo..hi -> Int] :
              g[lo] = 0 /\ \A n \in (lo + 1)..hi : g[n] = a[n] + g[n - 1]
  <1> DEFINE Solves(g, m) == g[lo] = 0 /\ \A n \in (lo + 1)..(lo + m) : g[n] = a[n] + g[n - 1]
             Bad == {m \in 0..(hi - lo) : ~ \E g \in [lo..(lo + m) -> Int] : Solves(g, m)}
  <1>1. ASSUME Bad # {} PROVE FALSE
    <2>1. Bad \subseteq Nat
      OBVIOUS
    <2>2. PICK m \in Bad : \A k \in Bad : m <= k
      BY <1>1, <2>1, LeastNumber, Zenon
    <2>3. m \in 0..(hi - lo)
      OBVIOUS
    <2>4. ~ \E g \in [lo..(lo + m) -> Int] : Solves(g, m)
      OBVIOUS
    <2>5. CASE m = 0
      <3> DEFINE h == [n \in lo..(lo + m) |-> 0]
      <3>1. h \in [lo..(lo + m) -> Int]
        OBVIOUS
      <3>2. lo \in lo..(lo + m) /\ ~ \E n \in Int : n \in (lo + 1)..(lo + m)
        BY <2>5
      <3>3. h[lo] = 0
        BY <3>2
      <3> HIDE DEF h
      <3>4. Solves(h, m)
        BY <3>2, <3>3
      <3> QED BY <2>4, <3>1, <3>4
    <2>6. CASE m # 0
      <3>1. m \in 1..(hi - lo) /\ m - 1 \in 0..(hi - lo) /\ ~(m <= m - 1)
        BY <2>3, <2>6
      <3>2. m - 1 \notin Bad
        <4> HIDE DEF Bad
        <4> QED BY <2>2, <3>1, Zenon
      <3>3. PICK g \in [lo..(lo + (m - 1)) -> Int] : Solves(g, m - 1)
        BY <3>1, <3>2
      <3> DEFINE h == [n \in lo..(lo + m) |-> IF n = lo + m THEN a[n] + g[n - 1] ELSE g[n]]
      <3>4. a[lo + m] \in Int /\ g[(lo + m) - 1] \in Int
        BY <3>1, <3>3
      <3>5. h \in [lo..(lo + m) -> Int]
        <4> SUFFICES ASSUME NEW n \in lo..(lo + m)
                     PROVE  (IF n = lo + m THEN a[n] + g[n - 1] ELSE g[n]) \in Int
          OBVIOUS
        <4>1. CASE n = lo + m
          BY <3>4, <4>1
        <4>2. CASE n # lo + m
          <5>1. n \in lo..(lo + (m - 1))
            BY <3>1, <4>2
          <5> QED BY <3>3, <4>2, <5>1
        <4> QED BY <4>1, <4>2
      <3>6. h[lo] = 0
        <4>1. lo \in lo..(lo + m) /\ lo # lo + m /\ g[lo] = 0
          BY <3>1, <3>3
        <4> QED BY <4>1
      <3>7. ASSUME NEW n \in (lo + 1)..(lo + m)
            PROVE  h[n] = a[n] + h[n - 1]
        <4>1. n \in lo..(lo + m) /\ n - 1 \in lo..(lo + m) /\ n - 1 # lo + m
          BY <3>1
        <4>2. h[n - 1] = g[n - 1]
          BY <4>1
        <4>3. CASE n = lo + m
          BY <4>1, <4>2, <4>3
        <4>4. CASE n # lo + m
          <5>1. n \in (lo + 1)..(lo + (m - 1)) /\ h[n] = g[n]
            BY <3>1, <4>1, <4>4
          <5>2. g[n] = a[n] + g[n - 1]
            BY <3>3, <5>1
          <5> QED BY <4>2, <5>1, <5>2
        <4> QED BY <4>3, <4>4
      <3> HIDE DEF h
      <3>8. Solves(h, m)
        BY <3>6, <3>7
      <3> QED BY <2>4, <3>5, <3>8
    <2> QED BY <2>5, <2>6
  <1>2. hi - lo \in 0..(hi - lo) /\ lo + (hi - lo) = hi
    OBVIOUS
  <1>3. hi - lo \notin Bad
    <2> HIDE DEF Bad
    <2> QED BY <1>1, Zenon
  <1>4. PICK g \in [lo..(lo + (hi - lo)) -> Int] : Solves(g, hi - lo)
    <2> HIDE DEF Solves
    <2> QED BY <1>2, <1>3
  <1>5. g \in [lo..hi -> Int]
    BY <1>2
  <1>6. g[lo] = 0 /\ \A n \in (lo + 1)..hi : g[n] = a[n] + g[n - 1]
    BY <1>2, <1>4
  <1> QED BY <1>5, <1>6

-----------------------------------------------------------------------------
(***************************************************************************)
(* The counters of genpipe lose no packet after they have been cleared,    *)
(* for any number of CPUs and of packets, although nothing is locked.      *)
(***************************************************************************)
StatTypes ==
    /\ rx_count \in [Cpu -> Int] /\ free_count \in [Cpu -> Int] /\ loaded \in [Cpu -> Int]
    /\ cpu_pc \in [Cpu -> {"idle", "free", "freed", "rx"}]
    /\ clearing \in 0..NCpus /\ half \in BOOLEAN
    /\ received \in [Cpu -> Nat] /\ before \in [Cpu -> Nat] /\ packets \in Nat

(* An element of rx_count is cleared once.  What a CPU has loaded of it is *)
(* what it holds, unless it was cleared meanwhile: then the CPU has loaded *)
(* all the packets.                                                        *)
Counter(c) ==
    /\ before[c] <= received[c]
    /\ (c > clearing \/ (c = clearing /\ ~half)) => before[c] = 0 /\ c \notin stale_rx /\ c \notin revived
    /\ rx_count[c] = received[c] - IF c \in revived THEN 0 ELSE before[c]
    /\ c \in stale_rx => cpu_pc[c] = "rx" /\ c \notin revived /\ loaded[c] = received[c]
    /\ (cpu_pc[c] = "rx" /\ c \notin stale_rx) => loaded[c] = rx_count[c]

(* So it is with free_count, which is ahead of rx_count by the packet that *)
(* is being counted.                                                       *)
Frees(c) ==
    /\ (cpu_pc[c] = "free" /\ c \notin stale_free) => loaded[c] = free_count[c]
    /\ \/ half /\ c = clearing
       \/ c \in stale_free
       \/ free_count[c] <= rx_count[c] + IF cpu_pc[c] \in {"freed", "rx"} THEN 1 ELSE 0

StatInv == StatTypes /\ \A c \in Cpu : Counter(c) /\ Frees(c)

-----------------------------------------------------------------------------
(* The counters start from zero. *)
LEMMA StatInvInit == StatInit => StatInv
  BY StatsAssumption DEF StatInit, StatInv, StatTypes, Counter, Frees, Cpu

(* What a step changes of one CPU leaves the others as they were. *)
LEMMA OtherCpu ==
    ASSUME StatTypes, NEW e \in Cpu, Counter(e), Frees(e),
           rx_count'[e] = rx_count[e], free_count'[e] = free_count[e], loaded'[e] = loaded[e],
           cpu_pc'[e] = cpu_pc[e], received'[e] = received[e], before'[e] = before[e],
           e \in stale_rx' <=> e \in stale_rx, e \in revived' <=> e \in revived, e \in stale_free' <=> e \in stale_free,
           (e > clearing' \/ (e = clearing' /\ ~half')) => (e > clearing \/ (e = clearing /\ ~half)),
           (half /\ e = clearing) => (half' /\ e = clearing')
    PROVE  Counter(e)' /\ Frees(e)'
  <1>1. Counter(e)'
    BY DEF Counter
  <1>2. Frees(e)'
    BY DEF Frees
  <1> QED BY <1>1, <1>2

(* A CPU increments its element of free_count. *)
LEMMA CountFreeStep ==
    ASSUME StatInv, NEW c \in Cpu, LoadFree(c) \/ StoreFree(c)
    PROVE  StatInv'
  <1>t. StatTypes /\ \A e \in Cpu : Counter(e) /\ Frees(e)
    BY DEF StatInv
  <1>1. UNCHANGED <<rx_count, clearing, half, before, received, packets, stale_rx, revived, stale_free>>
    BY DEF LoadFree, StoreFree, clearVars, trafficVars, staleVars
  <1>2. /\ cpu_pc' = [cpu_pc EXCEPT ![c] = cpu_pc'[c]]
        /\ \/ /\ cpu_pc[c] = "idle" /\ cpu_pc'[c] = "free" /\ free_count' = free_count
              /\ loaded' = [loaded EXCEPT ![c] = free_count[c]]
           \/ /\ cpu_pc[c] = "free" /\ cpu_pc'[c] = "freed" /\ loaded' = loaded
              /\ free_count' = [free_count EXCEPT ![c] = loaded[c] + 1]
    BY <1>t DEF LoadFree, StoreFree, Goes, StatTypes
  <1>3. StatTypes'
    BY <1>t, <1>1, <1>2 DEF StatTypes
  <1>4. ASSUME NEW e \in Cpu PROVE Counter(e)' /\ Frees(e)'
    <2>1. Counter(e) /\ Frees(e)
      BY <1>t
    <2>2. CASE e = c
      <3>1. Counter(e)'
        BY <1>t, <1>1, <1>2, <2>1, <2>2 DEF StatTypes, Counter
      <3>2. Frees(e)'
        BY <1>t, <1>1, <1>2, <2>1, <2>2 DEF StatTypes, Frees
      <3> QED BY <3>1, <3>2
    <2>3. CASE e # c
      <3>1. /\ free_count'[e] = free_count[e] /\ loaded'[e] = loaded[e] /\ cpu_pc'[e] = cpu_pc[e]
        BY <1>t, <1>2, <2>3 DEF StatTypes
      <3> QED BY <1>t, <1>1, <2>1, <3>1, OtherCpu
    <2> QED BY <2>2, <2>3
  <1> QED BY <1>3, <1>4 DEF StatInv

(* A CPU loads its element of rx_count. *)
LEMMA LoadRxStep ==
    ASSUME StatInv, NEW c \in Cpu, LoadRx(c)
    PROVE  StatInv'
  <1>t. StatTypes /\ \A e \in Cpu : Counter(e) /\ Frees(e)
    BY DEF StatInv
  <1>1. /\ UNCHANGED <<rx_count, free_count, clearing, half, before, received, packets, stale_rx, revived, stale_free>>
        /\ loaded' = [loaded EXCEPT ![c] = rx_count[c]]
        /\ cpu_pc[c] \in {"idle", "freed"} /\ cpu_pc' = [cpu_pc EXCEPT ![c] = "rx"]
    BY DEF LoadRx, Goes, clearVars, trafficVars, staleVars
  <1>2. StatTypes'
    BY <1>t, <1>1 DEF StatTypes
  <1>3. ASSUME NEW e \in Cpu PROVE Counter(e)' /\ Frees(e)'
    <2>1. Counter(e) /\ Frees(e)
      BY <1>t
    <2>2. CASE e = c
      <3>1. Counter(e)'
        BY <1>t, <1>1, <2>1, <2>2 DEF StatTypes, Counter
      <3>2. Frees(e)'
        BY <1>t, <1>1, <2>1, <2>2 DEF StatTypes, Frees
      <3> QED BY <3>1, <3>2
    <2>3. CASE e # c
      <3>1. loaded'[e] = loaded[e] /\ cpu_pc'[e] = cpu_pc[e]
        BY <1>t, <1>1, <2>3 DEF StatTypes
      <3> QED BY <1>t, <1>1, <2>1, <3>1, OtherCpu
    <2> QED BY <2>2, <2>3
  <1> QED BY <1>2, <1>3 DEF StatInv

(* It stores it: one more, or all packets if it was cleared meanwhile. *)
LEMMA StoreRxStep ==
    ASSUME StatInv, NEW c \in Cpu, StoreRx(c)
    PROVE  StatInv'
  <1>t. StatTypes /\ \A e \in Cpu : Counter(e) /\ Frees(e)
    BY DEF StatInv
  <1>1. /\ UNCHANGED <<free_count, loaded, clearing, half, before, stale_free>>
        /\ rx_count' = [rx_count EXCEPT ![c] = loaded[c] + 1]
        /\ received' = [received EXCEPT ![c] = received[c] + 1] /\ packets' = packets + 1
        /\ cpu_pc[c] = "rx" /\ cpu_pc' = [cpu_pc EXCEPT ![c] = "idle"]
        /\ revived' = (IF c \in stale_rx THEN revived \union {c} ELSE revived)
        /\ stale_rx' = stale_rx \ {c}
    BY DEF StoreRx, Goes, clearVars
  <1>2. StatTypes'
    BY <1>t, <1>1 DEF StatTypes
  <1>3. ASSUME NEW e \in Cpu PROVE Counter(e)' /\ Frees(e)'
    <2>1. Counter(e) /\ Frees(e)
      BY <1>t
    <2>2. CASE e = c
      <3>1. /\ rx_count'[e] = loaded[e] + 1 /\ received'[e] = received[e] + 1
            /\ cpu_pc[e] = "rx" /\ cpu_pc'[e] = "idle"
            /\ e \in revived' <=> e \in revived \/ e \in stale_rx
            /\ e \notin stale_rx'
        BY <1>t, <1>1, <2>2 DEF StatTypes
      <3>2. /\ rx_count[e] \in Int /\ free_count[e] \in Int /\ loaded[e] \in Int
            /\ received[e] \in Nat /\ before[e] \in Nat
        BY <1>t DEF StatTypes
      <3>3. Counter(e)'
        BY <1>1, <2>1, <3>1, <3>2 DEF Counter
      <3>4. Frees(e)'
        <4>1. rx_count[e] <= loaded[e]
          BY <2>1, <3>1, <3>2 DEF Counter
        <4> QED BY <1>1, <2>1, <3>1, <3>2, <4>1 DEF Frees
      <3> QED BY <3>3, <3>4
    <2>3. CASE e # c
      <3>1. /\ rx_count'[e] = rx_count[e] /\ received'[e] = received[e] /\ cpu_pc'[e] = cpu_pc[e]
            /\ e \in revived' <=> e \in revived
            /\ e \in stale_rx' <=> e \in stale_rx
        BY <1>t, <1>1, <2>3 DEF StatTypes
      <3> QED BY <1>t, <1>1, <2>1, <3>1, OtherCpu
    <2> QED BY <2>2, <2>3
  <1> QED BY <1>2, <1>3 DEF StatInv

(* An element is cleared, rx_count first and then free_count. *)
LEMMA ClearStep ==
    ASSUME StatInv, ClearRx \/ ClearFree
    PROVE  StatInv'
  <1> USE StatsAssumption
  <1>t. StatTypes /\ \A e \in Cpu : Counter(e) /\ Frees(e)
    BY DEF StatInv
  <1>1. clearing \in Cpu
    BY <1>t DEF ClearRx, ClearFree, StatTypes, Cpu
  <1> DEFINE c == clearing
  <1>2. CASE ClearRx
    <2>1. /\ UNCHANGED <<free_count, cpu_pc, loaded, clearing, received, packets, revived, stale_free>>
          /\ ~half /\ half' = TRUE
          /\ rx_count' = [rx_count EXCEPT ![c] = 0]
          /\ before' = [before EXCEPT ![c] = received[c]]
          /\ stale_rx' = (IF cpu_pc[c] = "rx" THEN stale_rx \union {c} ELSE stale_rx)
      BY <1>2 DEF ClearRx, trafficVars, staleVars
    <2>2. StatTypes'
      BY <1>t, <1>1, <2>1 DEF StatTypes
    <2>3. ASSUME NEW e \in Cpu PROVE Counter(e)' /\ Frees(e)'
      <3>1. Counter(e) /\ Frees(e) /\ e \in Int
        BY <1>t DEF Cpu
      <3>2. CASE e = c
        <4>1. /\ rx_count'[e] = 0 /\ before'[e] = received[e]
              /\ e \in stale_rx' <=> cpu_pc[e] = "rx" \/ e \in stale_rx
          BY <1>t, <1>1, <2>1, <3>2 DEF StatTypes
        <4>2. /\ rx_count[e] \in Int /\ loaded[e] \in Int
              /\ received[e] \in Nat /\ before[e] \in Nat
          BY <1>t DEF StatTypes
        <4>3. Counter(e)'
          BY <2>1, <3>1, <3>2, <4>1, <4>2 DEF Counter
        <4>4. Frees(e)'
          BY <2>1, <3>1, <3>2, <4>1, <4>2 DEF Frees
        <4> QED BY <4>3, <4>4
      <3>3. CASE e # c
        <4>1. /\ rx_count'[e] = rx_count[e] /\ before'[e] = before[e]
              /\ e \in stale_rx' <=> e \in stale_rx
          BY <1>t, <1>1, <2>1, <3>3 DEF StatTypes
        <4> QED BY <1>t, <2>1, <3>1, <3>3, <4>1, OtherCpu
      <3> QED BY <3>2, <3>3
    <2> QED BY <2>2, <2>3 DEF StatInv
  <1>3. CASE ClearFree
    <2>1. /\ UNCHANGED <<rx_count, cpu_pc, loaded, before, received, packets, stale_rx, revived>>
          /\ half /\ half' = FALSE /\ clearing' = c + 1 /\ c < NCpus
          /\ free_count' = [free_count EXCEPT ![c] = 0]
          /\ stale_free' = (IF cpu_pc[c] = "free" THEN stale_free \union {c} ELSE stale_free)
      BY <1>3 DEF ClearFree, trafficVars
    <2>2. StatTypes'
      <3>1. clearing' \in 0..NCpus
        BY <1>1, <2>1 DEF Cpu
      <3>3. half' \in BOOLEAN
        BY <2>1
      <3>2. free_count' \in [Cpu -> Int]
        BY <1>t, <1>1, <2>1 DEF StatTypes
      <3> QED BY <1>t, <2>1, <3>1, <3>2, <3>3 DEF StatTypes
    <2>3. ASSUME NEW e \in Cpu PROVE Counter(e)' /\ Frees(e)'
      <3>1. Counter(e) /\ Frees(e) /\ e \in Int /\ c \in Int
        BY <1>t, <1>1 DEF Cpu
      <3>2. CASE e = c
        <4>1. /\ free_count'[e] = 0
              /\ e \in stale_free' <=> cpu_pc[e] = "free" \/ e \in stale_free
          BY <1>t, <1>1, <2>1, <3>2 DEF StatTypes
        <4>2. /\ rx_count[e] \in Int /\ loaded[e] \in Int /\ clearing' > e
              /\ received[e] \in Nat /\ before[e] \in Nat
          BY <1>t, <2>1, <3>1, <3>2 DEF StatTypes
        <4>3. Counter(e)'
          BY <2>1, <3>1, <3>2, <4>1, <4>2 DEF Counter
        <4>4. Frees(e)'
          <5>1. rx_count[e] >= 0
            BY <3>1, <4>2 DEF Counter
          <5> QED BY <2>1, <3>1, <3>2, <4>1, <4>2, <5>1 DEF Frees
        <4> QED BY <4>3, <4>4
      <3>3. CASE e # c
        <4>1. /\ free_count'[e] = free_count[e]
              /\ e \in stale_free' <=> e \in stale_free
          BY <1>t, <1>1, <2>1, <3>3 DEF StatTypes
        <4> QED BY <1>t, <2>1, <3>1, <3>3, <4>1, OtherCpu
      <3> QED BY <3>2, <3>3
    <2> QED BY <2>2, <2>3 DEF StatInv
  <1> QED BY <1>2, <1>3

(* Loads, stores and clears may come in any order. *)
LEMMA StatInvStep == StatInv /\ [StatNext]_statVars => StatInv'
  <1> SUFFICES ASSUME StatInv, [StatNext]_statVars
               PROVE  StatInv'
    OBVIOUS
  <1>1. CASE ReadStart \/ ReadAdd \/ ReadReturn \/ ReadEfault \/ UNCHANGED statVars
    <2>1. UNCHANGED <<rx_count, free_count, cpu_pc, loaded, clearing, half, received, packets,
                      before, stale_rx, revived, stale_free>>
      BY <1>1 DEF ReadStart, ReadAdd, ReadReturn, ReadEfault, statVars, countVars, clearVars, trafficVars, staleVars
    <2> QED BY <2>1 DEF StatInv, StatTypes, Counter, Frees
  <1> QED BY <1>1, CountFreeStep, LoadRxStep, StoreRxStep, ClearStep DEF StatNext

(* Every CPU's element of rx_count shows the packets counted since it was  *)
(* cleared, and the earlier ones only if the clear fell into an increment. *)
THEOREM NoPacketLost == StatSpec => []CountsSinceClear
  <1>1. StatInv => CountsSinceClear
    BY DEF StatInv, Counter, CountsSinceClear
  <1> QED BY StatInvInit, StatInvStep, <1>1, PTL DEF StatSpec

(* No CPU frees more packets than it receives, but for the one it is       *)
(* counting, although the clears of the two counters fall between its      *)
(* increments; the exceptions are those that FreedWereReceived names.      *)
THEOREM FreesCounted == StatSpec => []FreedWereReceived
  <1>1. StatInv => FreedWereReceived
    BY DEF StatInv, Frees, FreedWereReceived
  <1> QED BY StatInvInit, StatInvStep, <1>1, PTL DEF StatSpec

-----------------------------------------------------------------------------
(***************************************************************************)
(* What count prints is traffic, for any number of CPUs and of packets and *)
(* any width of the sum.                                                   *)
(***************************************************************************)

(* The sums of an array's elements *)
PartSums(a) ==
    LET s[n \in -1..(NCpus - 1)] == IF n = -1 THEN 0 ELSE a[n] + s[n - 1]
    IN  s

(* The sums by their equations *)
LEMMA SumsOf ==
    ASSUME NEW a \in [Cpu -> Int]
    PROVE  /\ PartSums(a) \in [-1..(NCpus - 1) -> Int]
           /\ PartSums(a)[-1] = 0
           /\ \A n \in Cpu : PartSums(a)[n] = a[n] + PartSums(a)[n - 1]
  <1> USE StatsAssumption
  <1> DEFINE p == PartSums(a)
  <1>1. p = [n \in -1..(NCpus - 1) |-> IF n = -1 THEN 0 ELSE a[n] + p[n - 1]]
    <2>1. PICK g : g = [n \in -1..(NCpus - 1) |-> IF n = -1 THEN 0 ELSE a[n] + g[n - 1]]
      <3>1. -1 \in Int /\ NCpus - 1 \in Int /\ -1 <= NCpus - 1 /\ a \in [(-1 + 1)..(NCpus - 1) -> Int]
        BY DEF Cpu
      <3>2. PICK g \in [-1..(NCpus - 1) -> Int] :
              g[-1] = 0 /\ \A n \in (-1 + 1)..(NCpus - 1) : g[n] = a[n] + g[n - 1]
        BY <3>1, PrefixSumsExist, Zenon
      <3>3. ASSUME NEW n \in -1..(NCpus - 1)
            PROVE  g[n] = IF n = -1 THEN 0 ELSE a[n] + g[n - 1]
        <4>1. n # -1 => n \in (-1 + 1)..(NCpus - 1)
          OBVIOUS
        <4> QED BY <3>2, <4>1, Zenon
      <3> QED BY <3>2, <3>3
    <2>2. p = CHOOSE s : s = [n \in -1..(NCpus - 1) |-> IF n = -1 THEN 0 ELSE a[n] + s[n - 1]]
      BY DEF PartSums
    <2> HIDE DEF p
    <2> QED BY <2>1, <2>2
  <1> HIDE DEF p
  <1>2. DOMAIN p = -1..(NCpus - 1) /\ p[-1] = 0
    BY <1>1
  <1>3. ASSUME NEW n \in Cpu PROVE p[n] = a[n] + p[n - 1]
    BY <1>1 DEF Cpu
  <1> DEFINE Bad == {m \in 0..NCpus : p[m - 1] \notin Int}
  <1>4. ASSUME Bad # {} PROVE FALSE
    <2>1. Bad \subseteq Nat
      OBVIOUS
    <2>2. PICK m \in Bad : \A k \in Bad : m <= k
      BY <1>4, <2>1, LeastNumber, Zenon
    <2>3. m # 0 /\ m - 1 \in Cpu /\ m - 1 \notin Bad
      BY <1>2, <2>2 DEF Cpu
    <2>4. p[(m - 1) - 1] \in Int /\ a[m - 1] \in Int
      BY <2>3 DEF Cpu
    <2>5. p[m - 1] = a[m - 1] + p[(m - 1) - 1]
      BY <1>3, <2>3
    <2> QED BY <2>2, <2>4, <2>5
  <1>5. ASSUME NEW n \in -1..(NCpus - 1) PROVE p[n] \in Int
    <2>1. \A m \in 0..NCpus : p[m - 1] \in Int
      BY <1>4
    <2>2. n + 1 \in 0..NCpus /\ (n + 1) - 1 = n
      OBVIOUS
    <2>3. p[(n + 1) - 1] \in Int
      BY <2>1, <2>2
    <2> QED BY <2>2, <2>3
  <1>6. p \in [-1..(NCpus - 1) -> Int]
    BY <1>1, <1>5
  <1> QED BY <1>2, <1>3, <1>6 DEF p

(* When one element grows by d, so do the sums it is in. *)
LEMMA SumsGrow ==
    ASSUME NEW a \in [Cpu -> Int], NEW c \in Cpu, NEW d \in Int,
           NEW n \in -1..(NCpus - 1)
    PROVE  PartSums([a EXCEPT ![c] = a[c] + d])[n] = PartSums(a)[n] + (IF n < c THEN 0 ELSE d)
  <1> USE StatsAssumption
  <1> DEFINE b == [a EXCEPT ![c] = a[c] + d]
             p == PartSums(a)
             q == PartSums(b)
             Bad == {m \in 0..NCpus : q[m - 1] # p[m - 1] + (IF m - 1 < c THEN 0 ELSE d)}
  <1>1. /\ b \in [Cpu -> Int] /\ b[c] = a[c] + d
        /\ \A e \in Cpu : e # c => b[e] = a[e]
    OBVIOUS
  <1> HIDE DEF b
  <1>2. /\ p \in [-1..(NCpus - 1) -> Int] /\ p[-1] = 0
        /\ \A e \in Cpu : p[e] = a[e] + p[e - 1]
    BY SumsOf
  <1>3. /\ q \in [-1..(NCpus - 1) -> Int] /\ q[-1] = 0
        /\ \A e \in Cpu : q[e] = b[e] + q[e - 1]
    BY <1>1, SumsOf
  <1> HIDE DEF p, q
  <1>c. c \in 0..(NCpus - 1)
    BY DEF Cpu
  <1>4. ASSUME Bad # {} PROVE FALSE
    <2>1. Bad \subseteq Nat
      OBVIOUS
    <2>2. PICK m \in Bad : \A k \in Bad : m <= k
      BY <1>4, <2>1, LeastNumber, Zenon
    <2> DEFINE e == m - 1
    <2>3. m # 0
      <3>1. SUFFICES ASSUME m = 0 PROVE FALSE
        OBVIOUS
      <3>2. m - 1 = -1 /\ m - 1 < c /\ q[m - 1] # p[m - 1] + (IF m - 1 < c THEN 0 ELSE d)
        BY <1>c, <2>2, <3>1
      <3>3. q[m - 1] = 0 /\ p[m - 1] = 0
        <4>1. m - 1 = -1
          BY <3>2
        <4> QED BY <1>2, <1>3, <4>1, Zenon
      <3> QED BY <3>2, <3>3
    <2>4. e \in Cpu /\ e \in 0..NCpus /\ e \notin Bad /\ e - 1 \in -1..(NCpus - 1) /\ e \in Int
      <3>1. m \in 0..NCpus
        OBVIOUS
      <3> HIDE DEF Bad
      <3> QED BY <2>2, <2>3, <3>1 DEF Cpu
    <2>5. q[e - 1] = p[e - 1] + (IF e - 1 < c THEN 0 ELSE d)
      BY <2>4
    <2>6. p[e] = a[e] + p[e - 1] /\ q[e] = b[e] + q[e - 1]
      BY <1>2, <1>3, <2>4
    <2>7. q[e] # p[e] + (IF e < c THEN 0 ELSE d)
      BY <2>2
    <2> HIDE DEF e
    <2>8. p[e - 1] \in Int /\ a[e] \in Int /\ b[e] \in Int
      BY <1>1, <1>2, <2>4
    <2>9. CASE e = c
      BY <1>1, <1>c, <2>5, <2>6, <2>7, <2>8, <2>9
    <2>10. CASE e # c
      BY <1>1, <1>c, <2>4, <2>5, <2>6, <2>7, <2>8, <2>10
    <2> QED BY <2>9, <2>10
  <1>5. \A m \in 0..NCpus : q[m - 1] = p[m - 1] + (IF m - 1 < c THEN 0 ELSE d)
    BY <1>4
  <1>6. n + 1 \in 0..NCpus /\ (n + 1) - 1 = n
    OBVIOUS
  <1>7. q[(n + 1) - 1] = p[(n + 1) - 1] + (IF (n + 1) - 1 < c THEN 0 ELSE d)
    BY <1>5, <1>6
  <1>8. q[n] = p[n] + (IF n < c THEN 0 ELSE d)
    BY <1>6, <1>7
  <1> QED BY <1>8 DEF q, p, b

-----------------------------------------------------------------------------
(* Those of rx_count, and what genpipe_read is after *)
SumTo == PartSums(rx_count)
Total == SumTo[NCpus - 1]

DiffTypes ==
    /\ reader \in -1..NCpus /\ rxcounts \in Int
    /\ sums \in Seq(Int) /\ marks \in Seq(Int) /\ disturbed \in BOOLEAN
    /\ Len(sums) \in 0..2 /\ (reader # -1 => Len(sums) < 2)
    /\ Len(marks) = 2 * Len(sums) + (IF reader = -1 THEN 0 ELSE 1)

(* What the total of the counters was at a mark: as much below the present *)
(* one as packets were counted since, if nothing was disturbed since.      *)
Shift == Total - packets
Shown(i) == marks[i] + Shift

(* A sum wraps around a number between the totals at its start and end. *)
SumBetween(s, m, n) == \E e \in Int : s = e % IntMax /\ m <= e /\ e <= n

DoneReads ==
    /\ Len(sums) >= 1 => SumBetween(sums[1], Shown(1), Shown(2))
    /\ Len(sums) = 2 => SumBetween(sums[2], Shown(3), Shown(4))

(* The sum so far wraps around a number that the elements already added    *)
(* have not fallen below, and that reaches the total at the start if those *)
(* to come are added as they are now.                                      *)
SumSoFar(e) ==
    /\ rxcounts = e % IntMax
    /\ e <= SumTo[reader - 1]
    /\ Shown(Len(marks)) <= e + (Total - SumTo[reader - 1])

ThisRead == reader # -1 => \E e \in Int : SumSoFar(e)

MarksGrow ==
    /\ Len(marks) >= 3 => marks[2] <= marks[3]
    /\ Len(marks) >= 1 => marks[Len(marks)] <= packets

DiffInv ==
    /\ DiffTypes
    /\ ~disturbed => DoneReads /\ ThisRead /\ MarksGrow

-----------------------------------------------------------------------------
(* The sums of rx_count *)
LEMMA SumToOf ==
    ASSUME StatTypes
    PROVE  /\ SumTo \in [-1..(NCpus - 1) -> Int] /\ SumTo[-1] = 0
           /\ \A n \in Cpu : SumTo[n] = rx_count[n] + SumTo[n - 1]
           /\ Total \in Int /\ Total = SumTo[NCpus - 1]
           /\ Shift \in Int /\ Total = packets + Shift
  <1>1. rx_count \in [Cpu -> Int] /\ packets \in Int
    BY DEF StatTypes
  <1>2. /\ SumTo \in [-1..(NCpus - 1) -> Int] /\ SumTo[-1] = 0
        /\ \A n \in Cpu : SumTo[n] = rx_count[n] + SumTo[n - 1]
    BY <1>1, SumsOf DEF SumTo
  <1>3. NCpus - 1 \in -1..(NCpus - 1)
    BY StatsAssumption
  <1> QED BY <1>1, <1>2, <1>3 DEF Total, Shift

(* Nothing has been counted or read. *)
LEMMA DiffInvInit == StatInit => DiffInv
  BY StatsAssumption DEF StatInit, DiffInv, DiffTypes, DoneReads, ThisRead, MarksGrow, Cpu

(* Before the first read nothing is said of the sums. *)
LEMMA NothingRead ==
    ASSUME DiffTypes, marks = <<>>, UNCHANGED <<reader, sums, marks>>
    PROVE  DoneReads' /\ ThisRead' /\ MarksGrow'
  <1>1. Len(marks) = 0 /\ reader = -1 /\ Len(sums) = 0
    BY DEF DiffTypes
  <1> QED BY <1>1 DEF DoneReads, ThisRead, MarksGrow

(* A counter is stored: it has grown by one, and the total with it, unless *)
(* the old value is brought back.                                          *)
LEMMA StoreRxDiff ==
    ASSUME StatInv, DiffInv, NEW c \in Cpu, StoreRx(c)
    PROVE  DiffInv'
  <1> USE StatsAssumption
  <1>t. /\ StatTypes /\ DiffTypes /\ Counter(c)
        /\ ~disturbed => DoneReads /\ ThisRead /\ MarksGrow
    BY DEF StatInv, DiffInv
  <1>1. /\ cpu_pc[c] = "rx" /\ rx_count \in [Cpu -> Int] /\ packets' = packets + 1
        /\ rx_count' = [rx_count EXCEPT ![c] = loaded[c] + 1]
        /\ disturbed' = (disturbed \/ (c \in stale_rx /\ marks # <<>>))
        /\ UNCHANGED <<reader, rxcounts, sums, marks>>
    BY <1>t DEF StoreRx, Goes, StatTypes, readVars
  <1>2. DiffTypes'
    <2>1. disturbed' \in BOOLEAN
      BY <1>t, <1>1 DEF DiffTypes
    <2> QED BY <1>t, <1>1, <2>1 DEF DiffTypes
  <1>3. CASE marks = <<>>
    BY <1>t, <1>1, <1>2, <1>3, NothingRead DEF DiffInv
  <1>4. CASE disturbed'
    BY <1>2, <1>4 DEF DiffInv
  <1>5. CASE marks # <<>> /\ ~disturbed'
    <2>1. ~disturbed /\ c \notin stale_rx
      BY <1>1, <1>5
    <2>2. rx_count' = [rx_count EXCEPT ![c] = rx_count[c] + 1]
      BY <1>t, <1>1, <2>1 DEF Counter
    <2>3. StatTypes'
      BY StatInvStep DEF StatInv, StatNext
    <2>4. ASSUME NEW n \in -1..(NCpus - 1)
          PROVE  SumTo'[n] = SumTo[n] + (IF n < c THEN 0 ELSE 1)
      <3>1. rx_count \in [Cpu -> Int] /\ 1 \in Int
        BY <1>1
      <3>2. PartSums([rx_count EXCEPT ![c] = rx_count[c] + 1])[n]
              = PartSums(rx_count)[n] + (IF n < c THEN 0 ELSE 1)
        BY <3>1, SumsGrow, Zenon
      <3>3. SumTo' = PartSums(rx_count')
        BY DEF SumTo
      <3> QED BY <2>2, <3>2, <3>3 DEF SumTo
    <2>5. /\ SumTo \in [-1..(NCpus - 1) -> Int] /\ Total \in Int /\ Total = SumTo[NCpus - 1]
          /\ Shift \in Int /\ packets \in Int
      BY <1>t, SumToOf DEF StatTypes
    <2>6. Total' = SumTo'[NCpus - 1] /\ Shift' = Total' - packets'
      BY DEF Total, Shift
    <2>7. Shift = Total - packets
      BY DEF Shift
    <2> HIDE DEF SumTo, Total, Shift
    <2>c. c \in 0..(NCpus - 1)
      BY DEF Cpu
    <2>8. Total' = Total + 1
      BY <2>4, <2>5, <2>6, <2>c
    <2>9. Shift' = Shift
      BY <1>1, <2>5, <2>6, <2>7, <2>8
    <2>10. DoneReads'
      BY <1>t, <1>1, <2>1, <2>9 DEF DoneReads, SumBetween, Shown
    <2>11. marks \in Seq(Int) /\ Len(marks) \in Nat
      BY <1>t DEF DiffTypes
    <2>12. MarksGrow'
      <3>1. MarksGrow
        BY <1>t, <2>1
      <3>2. ASSUME Len(marks) >= 1 PROVE marks[Len(marks)] <= packets'
        <4> DEFINE m == marks[Len(marks)]
        <4>1. Len(marks) \in 1..Len(marks)
          BY <2>11, <3>2
        <4>2. m \in Int
          BY <2>11, <4>1
        <4>3. m <= packets
          BY <3>1, <3>2 DEF MarksGrow
        <4> HIDE DEF m
        <4>4. m <= packets'
          BY <1>1, <2>5, <4>2, <4>3
        <4> QED BY <4>4 DEF m
      <3>3. Len(marks) >= 3 => marks[2] <= marks[3]
        BY <3>1 DEF MarksGrow
      <3> QED BY <1>1, <3>2, <3>3 DEF MarksGrow
    <2>13. ASSUME reader # -1 PROVE \E e \in Int : SumSoFar(e)'
      <3>1. PICK e \in Int : SumSoFar(e)
        BY <1>t, <2>1, <2>13 DEF ThisRead
      <3> DEFINE n == reader - 1
      <3>2. n \in -1..(NCpus - 1) /\ Len(marks) \in 1..Len(marks)
        BY <1>t, <2>11, <2>13 DEF DiffTypes
      <3>3. SumTo'[n] = SumTo[n] + (IF n < c THEN 0 ELSE 1) /\ SumTo[n] \in Int
        BY <2>4, <2>5, <3>2
      <3>4. /\ rxcounts = e % IntMax /\ e <= SumTo[n]
            /\ Shown(Len(marks)) <= e + (Total - SumTo[n])
        BY <3>1 DEF SumSoFar
      <3>5. Shown(Len(marks)) \in Int /\ Shown(Len(marks))' = Shown(Len(marks))
        BY <1>1, <2>5, <2>9, <2>11, <3>2 DEF Shown
      <3> HIDE DEF n
      <3>6. e <= SumTo'[n] /\ Shown(Len(marks)) <= e + (Total' - SumTo'[n])
        <4> DEFINE x == SumTo[n]
                   x2 == SumTo'[n]
                   m == Shown(Len(marks))
                   t == Total
                   t2 == Total'
        <4>1. /\ x \in Int /\ m \in Int /\ e <= x /\ m <= e + (t - x)
              /\ (x2 = x \/ x2 = x + 1)
          BY <3>3, <3>4, <3>5
        <4>2. t \in Int /\ t2 = t + 1
          BY <2>5, <2>8
        <4> HIDE DEF x, x2, m, t, t2
        <4>3. e <= x2 /\ m <= e + (t2 - x2)
          BY <4>1, <4>2
        <4> QED BY <4>3 DEF x2, m, t2
      <3>7. SumSoFar(e)'
        BY <1>1, <3>4, <3>5, <3>6 DEF SumSoFar, n
      <3> QED BY <3>7
    <2> QED BY <1>1, <1>2, <2>10, <2>12, <2>13 DEF DiffInv, ThisRead
  <1> QED BY <1>3, <1>4, <1>5

(* An element is cleared: never during or between two reads that count. *)
LEMMA ClearRxDiff ==
    ASSUME StatInv, DiffInv, ClearRx
    PROVE  DiffInv'
  <1>t. DiffTypes
    BY DEF DiffInv
  <1>1. /\ disturbed' = (disturbed \/ marks # <<>>)
        /\ UNCHANGED <<reader, rxcounts, sums, marks>>
    BY DEF ClearRx, readVars
  <1>2. DiffTypes'
    <2>1. disturbed' \in BOOLEAN
      BY <1>t, <1>1 DEF DiffTypes
    <2> QED BY <1>t, <1>1, <2>1 DEF DiffTypes
  <1>3. CASE marks = <<>>
    BY <1>t, <1>1, <1>2, <1>3, NothingRead DEF DiffInv
  <1>4. CASE marks # <<>>
    BY <1>1, <1>2, <1>4 DEF DiffInv
  <1> QED BY <1>3, <1>4

(* The counters stay, and so do the sums of them. *)
LEMMA SameSums ==
    ASSUME UNCHANGED <<rx_count, packets>>
    PROVE  SumTo' = SumTo /\ Total' = Total /\ Shift' = Shift
  <1>1. SumTo' = SumTo
    BY DEF SumTo
  <1>2. Total' = Total
    BY <1>1 DEF Total
  <1> QED BY <1>1, <1>2 DEF Shift

(* A call of genpipe_read begins. *)
LEMMA ReadStartDiff ==
    ASSUME StatInv, DiffInv, ReadStart
    PROVE  DiffInv'
  <1> USE StatsAssumption
  <1>t. /\ StatTypes /\ DiffTypes
        /\ ~disturbed => DoneReads /\ ThisRead /\ MarksGrow
    BY DEF StatInv, DiffInv
  <1>1. /\ reader = -1 /\ Len(sums) < 2 /\ reader' = 0 /\ rxcounts' = 0
        /\ marks' = Append(marks, packets)
        /\ UNCHANGED <<rx_count, packets, sums, disturbed>>
    BY DEF ReadStart, countVars, trafficVars, staleVars
  <1>2. /\ SumTo \in [-1..(NCpus - 1) -> Int] /\ Total \in Int /\ SumTo[-1] = 0
        /\ SumTo' = SumTo /\ Total' = Total
        /\ Shift \in Int /\ Shift' = Shift /\ Total = packets + Shift /\ packets \in Int
    BY <1>t, <1>1, SumToOf, SameSums DEF StatTypes
  <1> HIDE DEF SumTo, Total, Shift
  <1>3. /\ marks' \in Seq(Int) /\ Len(marks') = Len(marks) + 1
        /\ marks'[Len(marks')] = packets
        /\ \A i \in 1..Len(marks) : marks'[i] = marks[i]
    BY <1>t, <1>1, <1>2 DEF DiffTypes
  <1>4. Len(marks) = 2 * Len(sums) /\ Len(sums) \in 0..1
    BY <1>t, <1>1 DEF DiffTypes
  <1>5. DiffTypes'
    BY <1>t, <1>1, <1>3, <1>4 DEF DiffTypes
  <1>7. ASSUME ~disturbed PROVE DoneReads' /\ ThisRead' /\ MarksGrow'
    <2>1. DoneReads'
      <3>1. CASE Len(sums) = 0
        BY <1>1, <3>1 DEF DoneReads
      <3>2. CASE Len(sums) = 1
        <4>1. marks'[1] = marks[1] /\ marks'[2] = marks[2]
          BY <1>3, <1>4, <3>2
        <4>2. Shown(1)' = Shown(1) /\ Shown(2)' = Shown(2)
          BY <1>2, <4>1 DEF Shown
        <4> QED BY <1>t, <1>1, <1>7, <3>2, <4>2 DEF DoneReads, SumBetween
      <3> QED BY <1>4, <3>1, <3>2
    <2>2. ThisRead'
      <3>1. 0 % IntMax = 0
        OBVIOUS
      <3>2. reader' - 1 = -1
        BY <1>1
      <3>3. SumTo'[reader' - 1] = 0
        BY <1>2, <3>2
      <3>4. Shown(Len(marks))' = Total
        BY <1>2, <1>3 DEF Shown
      <3>5. SumSoFar(0)'
        BY <1>1, <1>2, <3>1, <3>3, <3>4 DEF SumSoFar
      <3> QED BY <3>5 DEF ThisRead
    <2>3. MarksGrow'
      <3>1. CASE Len(sums) = 0
        BY <1>1, <1>2, <1>3, <1>4, <3>1 DEF MarksGrow
      <3>2. CASE Len(sums) = 1
        BY <1>t, <1>1, <1>2, <1>3, <1>4, <1>7, <3>2 DEF MarksGrow
      <3> QED BY <1>4, <3>1, <3>2
    <2> QED BY <2>1, <2>2, <2>3
  <1> QED BY <1>1, <1>5, <1>7 DEF DiffInv

(* It adds one element more. *)
LEMMA ReadAddDiff ==
    ASSUME StatInv, DiffInv, ReadAdd
    PROVE  DiffInv'
  <1> USE StatsAssumption
  <1>t. /\ StatTypes /\ DiffTypes
        /\ ~disturbed => DoneReads /\ ThisRead /\ MarksGrow
    BY DEF StatInv, DiffInv
  <1>1. /\ reader \in Cpu /\ reader' = reader + 1
        /\ rxcounts' = (rxcounts + rx_count[reader]) % IntMax
        /\ UNCHANGED <<rx_count, packets, sums, marks, disturbed>>
    BY DEF ReadAdd, countVars, trafficVars, staleVars
  <1>2. /\ SumTo \in [-1..(NCpus - 1) -> Int] /\ Total \in Int
        /\ SumTo[reader] = rx_count[reader] + SumTo[reader - 1]
        /\ SumTo' = SumTo /\ Total' = Total /\ Shift \in Int /\ Shift' = Shift
    BY <1>t, <1>1, SumToOf, SameSums
  <1> HIDE DEF SumTo, Total, Shift
  <1>3. /\ reader \in 0..(NCpus - 1) /\ reader' # -1 /\ reader' - 1 = reader
        /\ rx_count[reader] \in Int /\ SumTo[reader] \in Int /\ SumTo[reader - 1] \in Int
    BY <1>t, <1>1, <1>2 DEF Cpu, StatTypes
  <1>4. rxcounts \in Int /\ rxcounts' \in Int
    BY <1>t, <1>1, <1>3 DEF DiffTypes
  <1>5. DiffTypes'
    <2>1. reader' \in -1..NCpus /\ reader # -1
      BY <1>1, <1>3
    <2> QED BY <1>t, <1>1, <1>3, <1>4, <2>1 DEF DiffTypes
  <1>7. ASSUME ~disturbed PROVE DoneReads' /\ ThisRead' /\ MarksGrow'
    <2>1. DoneReads' /\ MarksGrow'
      BY <1>t, <1>1, <1>2, <1>7 DEF DoneReads, MarksGrow, SumBetween, Shown
    <2>2. PICK e \in Int : SumSoFar(e)
      BY <1>t, <1>3, <1>7 DEF ThisRead
    <2> DEFINE a == rx_count[reader]
    <2>3. (rxcounts + a) % IntMax = (e + a) % IntMax
      <3>1. rxcounts = e % IntMax /\ a \in Int
        BY <1>3, <2>2 DEF SumSoFar
      <3> HIDE DEF a
      <3>2. ((e % IntMax) + a) % IntMax = (e + a) % IntMax
        BY <3>1, ModAdd, Zenon
      <3> QED BY <3>1, <3>2, Zenon
    <2>4. e + a \in Int /\ Shown(Len(marks)) \in Int
      <3>1. Len(marks) \in 1..Len(marks)
        BY <1>t, <1>3 DEF DiffTypes
      <3>2. marks[Len(marks)] \in Int
        BY <1>t, <3>1 DEF DiffTypes
      <3>3. Shown(Len(marks)) \in Int
        BY <1>2, <3>2 DEF Shown
      <3> QED BY <1>3, <3>3
    <2>5. /\ e + a <= SumTo[reader]
          /\ Shown(Len(marks)) <= (e + a) + (Total - SumTo[reader])
      <3>1. e <= SumTo[reader - 1] /\ Shown(Len(marks)) <= e + (Total - SumTo[reader - 1])
        BY <2>2 DEF SumSoFar
      <3> DEFINE m == Shown(Len(marks))
                 x == SumTo[reader - 1]
                 y == SumTo[reader]
      <3>2. y = a + x /\ m \in Int /\ x \in Int /\ y \in Int /\ a \in Int
            /\ e <= x /\ m <= e + (Total - x)
        BY <1>2, <1>3, <2>4, <3>1
      <3> HIDE DEF m, x, y, a
      <3>3. e + a <= y /\ m <= (e + a) + (Total - y)
        BY <1>2, <3>2
      <3> QED BY <3>3 DEF m, y
    <2>6. PICK f \in Int : f = e + a
      BY <2>4
    <2> HIDE DEF a
    <2>7. /\ rxcounts' = f % IntMax /\ f <= SumTo[reader]
          /\ Shown(Len(marks)) <= f + (Total - SumTo[reader])
      <3>1. rxcounts' = (e + a) % IntMax
        BY <1>1, <2>3 DEF a
      <3> QED BY <2>5, <2>6, <3>1
    <2>8. SumSoFar(f)'
      BY <1>1, <1>2, <1>3, <2>7 DEF SumSoFar, Shown
    <2>9. ThisRead'
      BY <2>8 DEF ThisRead
    <2> QED BY <2>1, <2>9
  <1> QED BY <1>1, <1>5, <1>7 DEF DiffInv

(* It returns the sum. *)
LEMMA ReadReturnDiff ==
    ASSUME StatInv, DiffInv, ReadReturn
    PROVE  DiffInv'
  <1> USE StatsAssumption
  <1>t. /\ StatTypes /\ DiffTypes
        /\ ~disturbed => DoneReads /\ ThisRead /\ MarksGrow
    BY DEF StatInv, DiffInv
  <1>1. /\ reader = NCpus /\ reader' = -1 /\ rxcounts' = rxcounts
        /\ sums' = Append(sums, rxcounts) /\ marks' = Append(marks, packets)
        /\ UNCHANGED <<rx_count, packets, disturbed>>
    BY DEF ReadReturn, countVars, trafficVars, staleVars
  <1>2. /\ Total \in Int /\ Total = SumTo[NCpus - 1] /\ Total' = Total
        /\ Shift \in Int /\ Shift' = Shift /\ Total = packets + Shift /\ packets \in Int
    BY <1>t, <1>1, SumToOf, SameSums DEF StatTypes
  <1> HIDE DEF SumTo, Total, Shift
  <1>3. /\ reader # -1 /\ Len(sums) \in 0..1 /\ Len(marks) = 2 * Len(sums) + 1
        /\ rxcounts \in Int
    BY <1>t, <1>1 DEF DiffTypes
  <1>4. /\ marks' \in Seq(Int) /\ Len(marks') = Len(marks) + 1
        /\ marks'[Len(marks')] = packets
        /\ \A i \in 1..Len(marks) : marks'[i] = marks[i] /\ marks[i] \in Int
    <2>1. marks \in Seq(Int)
      BY <1>t DEF DiffTypes
    <2>2. marks' \in Seq(Int) /\ Len(marks') = Len(marks) + 1
      BY <1>1, <1>2, <2>1
    <2>3. marks'[Len(marks')] = packets
      BY <1>1, <1>2, <2>1
    <2>4. \A i \in 1..Len(marks) : marks'[i] = marks[i] /\ marks[i] \in Int
      BY <1>1, <1>2, <2>1
    <2> QED BY <2>2, <2>3, <2>4
  <1>5. /\ sums' \in Seq(Int) /\ Len(sums') = Len(sums) + 1
        /\ sums'[Len(sums')] = rxcounts
        /\ \A i \in 1..Len(sums) : sums'[i] = sums[i]
    BY <1>t, <1>1, <1>3 DEF DiffTypes
  <1>6. DiffTypes'
    BY <1>t, <1>1, <1>3, <1>4, <1>5 DEF DiffTypes
  <1>8. ASSUME ~disturbed PROVE DoneReads' /\ ThisRead' /\ MarksGrow'
    <2>1. SumBetween(rxcounts, Shown(Len(marks)), Total)
      <3>1. PICK e \in Int : SumSoFar(e)
        BY <1>t, <1>3, <1>8 DEF ThisRead
      <3>2. rxcounts = e % IntMax /\ e <= Total /\ Shown(Len(marks)) <= e + (Total - Total)
        BY <1>1, <1>2, <3>1 DEF SumSoFar
      <3>3. e + (Total - Total) = e
        BY <1>2
      <3> QED BY <3>2, <3>3 DEF SumBetween
    <2>2. MarksGrow
      BY <1>t, <1>8
    <2>3. CASE Len(sums) = 0
      <3>1. Len(marks) = 1 /\ Len(sums') = 1 /\ Len(marks') = 2
        BY <1>3, <1>4, <1>5, <2>3
      <3>2. sums'[1] = rxcounts /\ marks'[1] = marks[1] /\ marks'[2] = packets
        <4>1. 1 \in 1..Len(marks)
          BY <3>1
        <4> QED BY <1>4, <1>5, <3>1, <4>1, Zenon
      <3>3. DoneReads'
        <4>1. Shown(1)' = Shown(Len(marks)) /\ Shown(2)' = Total
          BY <1>2, <3>1, <3>2 DEF Shown
        <4> QED BY <2>1, <3>1, <3>2, <4>1 DEF DoneReads, SumBetween
      <3>4. MarksGrow'
        BY <1>1, <1>2, <3>1, <3>2 DEF MarksGrow
      <3> QED BY <1>1, <3>3, <3>4 DEF ThisRead
    <2>4. CASE Len(sums) = 1
      <3>1. Len(marks) = 3 /\ Len(sums') = 2 /\ Len(marks') = 4
        BY <1>3, <1>4, <1>5, <2>4
      <3>2. /\ sums'[1] = sums[1] /\ sums'[2] = rxcounts
            /\ marks'[1] = marks[1] /\ marks'[2] = marks[2] /\ marks'[3] = marks[3]
            /\ marks'[4] = packets
        BY <1>4, <1>5, <2>4, <3>1
      <3>3. DoneReads'
        <4>1. SumBetween(sums[1], Shown(1), Shown(2))
          BY <1>t, <1>8, <2>4 DEF DoneReads
        <4>2. /\ Shown(1)' = Shown(1) /\ Shown(2)' = Shown(2)
              /\ Shown(3)' = Shown(Len(marks)) /\ Shown(4)' = Total
          BY <1>2, <3>1, <3>2 DEF Shown
        <4> QED BY <2>1, <3>1, <3>2, <4>1, <4>2 DEF DoneReads, SumBetween
      <3>4. MarksGrow'
        BY <1>1, <1>2, <2>2, <3>1, <3>2 DEF MarksGrow
      <3> QED BY <1>1, <3>3, <3>4 DEF ThisRead
    <2> QED BY <1>3, <2>3, <2>4
  <1> QED BY <1>1, <1>6, <1>8 DEF DiffInv

(* It fails, and nothing was read. *)
LEMMA ReadEfaultDiff ==
    ASSUME StatInv, DiffInv, ReadEfault
    PROVE  DiffInv'
  <1> USE StatsAssumption
  <1>t. /\ StatTypes /\ DiffTypes
        /\ ~disturbed => DoneReads /\ ThisRead /\ MarksGrow
    BY DEF StatInv, DiffInv
  <1>1. /\ reader = NCpus /\ reader' = -1
        /\ marks' = SubSeq(marks, 1, Len(marks) - 1)
        /\ UNCHANGED <<rx_count, packets, rxcounts, sums, disturbed>>
    BY DEF ReadEfault, countVars, trafficVars, staleVars
  <1>2. packets \in Int /\ Shift' = Shift
    BY <1>t, <1>1, SameSums DEF StatTypes
  <1> HIDE DEF SumTo, Total, Shift
  <1>3. /\ reader # -1 /\ Len(sums) \in 0..1 /\ Len(marks) = 2 * Len(sums) + 1
    BY <1>t, <1>1 DEF DiffTypes
  <1>4. /\ marks' \in Seq(Int) /\ Len(marks') = 2 * Len(sums)
        /\ \A i \in 1..(2 * Len(sums)) : marks'[i] = marks[i]
        /\ \A i \in 1..Len(marks) : marks[i] \in Int
    BY <1>t, <1>1, <1>3 DEF DiffTypes
  <1>5. DiffTypes'
    BY <1>t, <1>1, <1>3, <1>4 DEF DiffTypes
  <1>7. ASSUME ~disturbed PROVE DoneReads' /\ ThisRead' /\ MarksGrow'
    <2>1. CASE Len(sums) = 0
      BY <1>1, <1>4, <2>1 DEF DoneReads, ThisRead, MarksGrow
    <2>2. CASE Len(sums) = 1
      <3>1. /\ Len(marks) = 3 /\ Len(marks') = 2
            /\ marks'[1] = marks[1] /\ marks'[2] = marks[2]
            /\ marks[2] \in Int /\ marks[3] \in Int
        BY <1>3, <1>4, <2>2
      <3>2. DoneReads'
        BY <1>t, <1>1, <1>2, <1>7, <2>2, <3>1 DEF DoneReads, SumBetween, Shown
      <3>3. marks[2] <= marks[3] /\ marks[3] <= packets
        BY <1>t, <1>7, <3>1 DEF MarksGrow
      <3>4. MarksGrow'
        BY <1>1, <1>2, <3>1, <3>3 DEF MarksGrow
      <3> QED BY <1>1, <3>2, <3>4 DEF ThisRead
    <2> QED BY <1>3, <2>1, <2>2
  <1> QED BY <1>1, <1>5, <1>7 DEF DiffInv

(* Every step keeps the sums between the totals. *)
LEMMA DiffInvStep == StatInv /\ DiffInv /\ [StatNext]_statVars => DiffInv'
  <1> SUFFICES ASSUME StatInv, DiffInv, [StatNext]_statVars
               PROVE  DiffInv'
    OBVIOUS
  <1>1. CASE \/ \E c \in Cpu : LoadFree(c) \/ StoreFree(c) \/ LoadRx(c)
             \/ ClearFree \/ UNCHANGED statVars
    <2>1. UNCHANGED <<rx_count, packets, reader, rxcounts, sums, marks, disturbed>>
      BY <1>1 DEF LoadFree, StoreFree, LoadRx, ClearFree, statVars, countVars, readVars, trafficVars, staleVars
    <2>2. SumTo' = SumTo /\ Total' = Total /\ Shift' = Shift
      BY <2>1, SameSums
    <2> HIDE DEF SumTo, Total, Shift
    <2> QED BY <2>1, <2>2 DEF DiffInv, DiffTypes, DoneReads, ThisRead, MarksGrow, SumBetween, SumSoFar, Shown
  <1> QED BY <1>1, StoreRxDiff, ClearRxDiff, ReadStartDiff, ReadAddDiff, ReadReturnDiff, ReadEfaultDiff DEF StatNext

(* An element of a sequence of integers *)
LEMMA ElementOfSeq ==
    ASSUME NEW s \in Seq(Int), NEW i \in 1..Len(s) PROVE s[i] \in Int
  OBVIOUS

(* Two sums subtracted are the difference of the numbers they wrap. *)
LEMMA DiffOfSums == StatInv /\ DiffInv => DiffIsTraffic
  <1> SUFFICES ASSUME StatInv, DiffInv, Len(marks) = 4, Len(sums) = 2,
                      ~disturbed, marks[4] - marks[1] < IntMax
               PROVE  (sums[2] - sums[1]) % IntMax \in (marks[3] - marks[2]) .. (marks[4] - marks[1])
    BY DEF DiffIsTraffic
  <1> USE StatsAssumption
  <1>1. DiffTypes /\ DoneReads /\ MarksGrow
    BY DEF DiffInv
  <1>s. Shift \in Int
    BY SumToOf DEF StatInv
  <1> HIDE DEF Shift
  <1>2. PICK e \in Int : sums[1] = e % IntMax /\ marks[1] + Shift <= e /\ e <= marks[2] + Shift
    BY <1>1 DEF DoneReads, SumBetween, Shown
  <1>3. PICK f \in Int : sums[2] = f % IntMax /\ marks[3] + Shift <= f /\ f <= marks[4] + Shift
    BY <1>1 DEF DoneReads, SumBetween, Shown
  <1>4. /\ marks[1] \in Int /\ marks[2] \in Int /\ marks[3] \in Int /\ marks[4] \in Int
        /\ marks[2] <= marks[3]
    <2>1. marks \in Seq(Int) /\ Len(marks) = 4
      BY <1>1 DEF DiffTypes
    <2>2. marks[2] <= marks[3]
      BY <1>1, <2>1 DEF MarksGrow
    <2>3. \A i \in 1..Len(marks) : marks[i] \in Int
      BY <2>1, ElementOfSeq, Zenon
    <2>4. 1 \in 1..Len(marks) /\ 2 \in 1..Len(marks) /\ 3 \in 1..Len(marks) /\ 4 \in 1..Len(marks)
      BY <2>1
    <2> QED BY <2>2, <2>3, <2>4
  <1>5. (sums[2] - sums[1]) % IntMax = (f - e) % IntMax
    <2>1. ((f % IntMax) - (e % IntMax)) % IntMax = (f - e) % IntMax
      BY ModSub, Zenon
    <2> QED BY <1>2, <1>3, <2>1, Zenon
  <1>6. /\ f - e \in (marks[3] - marks[2]) .. (marks[4] - marks[1])
        /\ f - e \in 0..(IntMax - 1)
    BY <1>s, <1>2, <1>3, <1>4
  <1>7. (f - e) % IntMax = f - e
    <2>1. \A i \in 0..(IntMax - 1) : i % IntMax = i
      OBVIOUS
    <2> QED BY <1>6, <2>1
  <1> QED BY <1>5, <1>6, <1>7

(* The difference of two readings of the counters is the traffic between   *)
(* them: at least the packets counted between the reads, and at most those *)
(* counted during them too, although the CPUs count while they are added   *)
(* up and the int wraps; unless a clear, or an old value that one failed   *)
(* to clear, comes after the start of the first read.                      *)
THEOREM CountPrintsTraffic == StatSpec => []DiffIsTraffic
  <1>1. StatInit => StatInv /\ DiffInv
    BY StatInvInit, DiffInvInit
  <1>2. StatInv /\ DiffInv /\ [StatNext]_statVars => (StatInv /\ DiffInv)'
    BY StatInvStep, DiffInvStep
  <1> QED BY <1>1, <1>2, DiffOfSums, PTL DEF StatSpec

-----------------------------------------------------------------------------
(***************************************************************************)
(* genpipe__netdev_alloc_skb hands out the right buffers unless calls      *)
(* overlap, for any set of CPUs and any number of calls.                   *)
(***************************************************************************)
AllocTypeOK ==
    /\ allocPc \in [AllocCpus -> {"idle", "store", "load"}]
    /\ own \in [AllocCpus -> Nat]
    /\ genpipe_skb \in Nat
    /\ allocs \in Nat
    /\ handed \in [AllocCpus -> Nat]
    /\ alone \in [AllocCpus -> BOOLEAN]

(* No buffer was allocated twice. *)
OwnBuffers ==
    /\ \A c \in AllocCpus : own[c] <= allocs
    /\ \A c, d \in AllocCpus : c # d /\ own[c] # 0 => own[c] # own[d]

(* A call that is alone so far is the only one inside, the global holds    *)
(* its buffer once it has been stored, and the caller gets that one.       *)
AloneCalls ==
    \A c \in AllocCpus : alone[c] =>
        /\ Inside(c) => \A d \in AllocCpus \ {c} : ~Inside(d)
        /\ allocPc[c] = "load" => genpipe_skb = own[c]
        /\ ~Inside(c) => handed[c] = own[c]

AllocInv == AllocTypeOK /\ OwnBuffers /\ AloneCalls

-----------------------------------------------------------------------------
(* The invariant holds when the module is loaded. *)
LEMMA AllocInvInit == AllocInit => AllocInv
  BY DEF AllocInit, AllocInv, AllocTypeOK, OwnBuffers, AloneCalls, Inside

(* The invariant is preserved by each access to the global. *)
LEMMA AllocInvStep == AllocInv /\ [AllocNext]_allocVars => AllocInv'
  <1> SUFFICES ASSUME AllocInv, [AllocNext]_allocVars
               PROVE  AllocInv'
    OBVIOUS
  <1>t. AllocTypeOK /\ OwnBuffers /\ AloneCalls
    BY DEF AllocInv
  <1>1. ASSUME NEW c \in AllocCpus, AllocSkb(c)
        PROVE  AllocInv'
    <2>1. AllocTypeOK'
      <3>1. /\ allocPc' \in [AllocCpus -> {"idle", "store", "load"}]
            /\ own' \in [AllocCpus -> Nat] /\ allocs' \in Nat
            /\ genpipe_skb' \in Nat /\ handed' \in [AllocCpus -> Nat]
        BY <1>t, <1>1 DEF AllocSkb, AllocTypeOK
      <3>2. alone' \in [AllocCpus -> BOOLEAN]
        BY <1>t, <1>1 DEF AllocSkb, AllocTypeOK
      <3> QED BY <3>1, <3>2 DEF AllocTypeOK
    <2>2. OwnBuffers'
      BY <1>t, <1>1 DEF AllocSkb, AllocTypeOK, OwnBuffers
    <2>3. AloneCalls'
      <3> SUFFICES ASSUME NEW e \in AllocCpus, alone'[e]
                   PROVE  /\ Inside(e)' => \A d \in AllocCpus \ {e} : ~Inside(d)'
                          /\ allocPc'[e] = "load" => genpipe_skb' = own'[e]
                          /\ ~Inside(e)' => handed'[e] = own'[e]
        BY DEF AloneCalls
      <3>1. CASE e = c
        BY <1>t, <1>1, <3>1 DEF AllocSkb, AllocTypeOK, Inside
      <3>2. CASE e # c
        <4>1. alone[e] /\ ~Inside(e) /\ own'[e] = own[e] /\ handed'[e] = handed[e]
              /\ allocPc'[e] = allocPc[e]
          BY <1>t, <1>1, <3>2 DEF AllocSkb, AllocTypeOK
        <4> QED BY <1>t, <4>1 DEF AloneCalls, Inside
      <3> QED BY <3>1, <3>2
    <2> QED BY <2>1, <2>2, <2>3 DEF AllocInv
  <1>2. ASSUME NEW c \in AllocCpus, StoreSkb(c)
        PROVE  AllocInv'
    BY <1>t, <1>2 DEF StoreSkb, AllocInv, AllocTypeOK, OwnBuffers, AloneCalls, Inside
  <1>3. ASSUME NEW c \in AllocCpus, ReturnSkb(c)
        PROVE  AllocInv'
    BY <1>t, <1>3 DEF ReturnSkb, AllocInv, AllocTypeOK, OwnBuffers, AloneCalls, Inside
  <1>4. CASE UNCHANGED allocVars
    BY <1>t, <1>4 DEF allocVars, AllocInv, AllocTypeOK, OwnBuffers, AloneCalls, Inside
  <1> QED BY <1>1, <1>2, <1>3, <1>4 DEF AllocNext

(* A buffer reaches the wrong CPU, or two of them, only when two calls of  *)
(* genpipe__netdev_alloc_skb overlap.                                      *)
THEOREM BuffersNotShared == AllocSpec => []SharedOnlyByOverlap
  <1>1. AllocInv => SharedOnlyByOverlap
    BY DEF AllocInv, OwnBuffers, AloneCalls, SharedOnlyByOverlap
  <1> QED BY AllocInvInit, AllocInvStep, <1>1, PTL DEF AllocSpec

-----------------------------------------------------------------------------
(***************************************************************************)
(* pmem_mmap and kmem_mmap map every page of the area to the kernel page   *)
(* of its position, for any size of the two address spaces.                *)
(***************************************************************************)
VPages == 0..(NPages - 1)

MmapTypeOK ==
    /\ mmapPc \in {"idle", "loop", "mapped", "failed"}
    /\ vpage \in [VPages -> Translation]
    /\ area \in [0..(AreaPages - 1) -> Translation \union {NotMapped}]
    /\ vma \in [first : Nat, len : Nat] /\ vma.first + vma.len <= AreaPages
    /\ vm_pgoff \in Nat /\ start \in Int /\ pos \in Int /\ size \in Int
    /\ had \in [VPages -> SUBSET Translation]

(* How far the loop has come *)
Progress ==
    /\ mmapPc = "loop" =>
          /\ size \in 0..vma.len
          /\ start = vma.first + (vma.len - size)
          /\ pos = (vm_pgoff + (vma.len - size)) % NPages
          /\ \A v \in VPages : vpage[v] \in had[v]
    /\ mmapPc = "mapped" => size = 0

(* What the loop has mapped so far, and what it leaves alone *)
MappedSoFar ==
    /\ mmapPc \in {"loop", "mapped"} =>
          \A k \in 0..(vma.len - size - 1) :
              area[vma.first + k] \in had[(vm_pgoff + k) % NPages]
    /\ \A a \in 0..(AreaPages - 1) :
          (mmapPc \in {"idle", "failed"} \/ a \notin vma.first..(vma.first + vma.len - 1)) =>
              area[a] = NotMapped

MmapInv == MmapTypeOK /\ Progress /\ MappedSoFar

(* A position in the address space, wrapped around *)
LEMMA Wrapped == \A x \in Int : x % NPages \in VPages
  BY MmapAssumption DEF VPages

(* Nothing is mapped before the call. *)
LEMMA MmapInvInit == MmapInit => MmapInv
  BY MmapAssumption DEF MmapInit, MmapInv, MmapTypeOK, Progress, MappedSoFar, VPages, Translation

(* The call begins. *)
LEMMA StartStep == MmapInv /\ MmapStart => MmapInv'
  <1> SUFFICES ASSUME MmapInv, MmapStart PROVE MmapInv'
    OBVIOUS
  <1>t. MmapTypeOK /\ Progress /\ MappedSoFar /\ mmapPc = "idle"
    BY DEF MmapInv, MmapStart
  <1>1. PICK first \in 0..(AreaPages - 1), pgoff \in 0..NPages :
        \E len \in 1..(AreaPages - first) :
          /\ vma' = [first |-> first, len |-> len]
          /\ vm_pgoff' = pgoff
          /\ IF pgoff > NPages - 1
             THEN mmapPc' = "failed" /\ UNCHANGED <<start, pos, size>>
             ELSE mmapPc' = "loop" /\ start' = first /\ pos' = pgoff /\ size' = len
    BY DEF MmapStart
  <1>2. PICK len \in 1..(AreaPages - first) :
          /\ vma' = [first |-> first, len |-> len]
          /\ vm_pgoff' = pgoff
          /\ IF pgoff > NPages - 1
             THEN mmapPc' = "failed" /\ UNCHANGED <<start, pos, size>>
             ELSE mmapPc' = "loop" /\ start' = first /\ pos' = pgoff /\ size' = len
    BY <1>1
  <1>3. /\ vpage' \in [VPages -> Translation] /\ had' = [v \in VPages |-> {vpage'[v]}]
        /\ UNCHANGED area
    BY DEF MmapStart, VPages
  <1>4. MmapTypeOK'
    BY <1>t, <1>2, <1>3, MmapAssumption DEF MmapTypeOK
  <1>5. Progress'
    <2>1. CASE pgoff > NPages - 1
      BY <1>2, <2>1 DEF Progress
    <2>2. CASE ~(pgoff > NPages - 1)
      <3>1. (0 * NPages + pgoff) % NPages = pgoff
        BY <2>2, ModUnique, MmapAssumption
      <3>2. (vm_pgoff' + (vma'.len - size')) % NPages = pgoff
        BY <1>2, <2>2, <3>1, MmapAssumption
      <3> QED BY <1>2, <1>3, <2>2, <3>2 DEF Progress
    <2> QED BY <2>1, <2>2
  <1>6. MappedSoFar'
    BY <1>t, <1>2, <1>3 DEF MappedSoFar
  <1> QED BY <1>4, <1>5, <1>6 DEF MmapInv

(* One turn of the loop maps one page more. *)
LEMMA LoopStep == MmapInv /\ MapOnePage => MmapInv'
  <1> SUFFICES ASSUME MmapInv, MapOnePage PROVE MmapInv'
    OBVIOUS
  <1>t. MmapTypeOK /\ Progress /\ MappedSoFar
    BY DEF MmapInv
  <1>a. /\ mmapPc = "loop" /\ size > 0
        /\ area' = [area EXCEPT ![start] = vpage[pos]]
        /\ start' = start + 1 /\ pos' = (pos + 1) % NPages /\ size' = size - 1
        /\ UNCHANGED <<mmapPc, vpage, vma, vm_pgoff, vchanges, had>>
    BY DEF MapOnePage
  <1> DEFINE done == vma.len - size
  <1>1. /\ size \in 0..vma.len /\ start = vma.first + done
        /\ pos = (vm_pgoff + done) % NPages
        /\ \A v \in VPages : vpage[v] \in had[v]
    BY <1>t, <1>a DEF Progress
  <1>2. /\ vma.first \in Nat /\ vma.len \in Nat /\ vma.first + vma.len <= AreaPages
        /\ vm_pgoff \in Nat /\ size \in Int
    BY <1>t DEF MmapTypeOK
  <1>3. done \in Nat /\ start \in 0..(AreaPages - 1) /\ vma.len - size' = done + 1
    BY <1>1, <1>2, <1>a, MmapAssumption
  <1> HIDE DEF done
  <1>4. pos \in VPages /\ pos' \in VPages
    BY <1>1, <1>2, <1>3, <1>a, Wrapped DEF VPages
  <1>5. MmapTypeOK'
    <2>1. vpage[pos] \in Translation
      BY <1>t, <1>4 DEF MmapTypeOK
    <2> QED BY <1>t, <1>a, <1>3, <1>4, <2>1 DEF MmapTypeOK, VPages
  <1>6. Progress'
    <2>1. pos' = ((vm_pgoff + done) + 1) % NPages
      <3>1. vm_pgoff + done \in Nat /\ NPages \in Nat \ {0}
        BY <1>2, <1>3, MmapAssumption
      <3>2. (((vm_pgoff + done) % NPages) + 1) % NPages = ((vm_pgoff + done) + 1) % NPages
        BY <3>1, ModSucc
      <3> QED BY <1>a, <1>1, <3>2
    <2>2. (vm_pgoff + done) + 1 = vm_pgoff + (done + 1)
      BY <1>2, <1>3
    <2>3. pos' = (vm_pgoff' + (vma'.len - size')) % NPages
      BY <1>a, <1>3, <2>1, <2>2
    <2>4. size' \in 0..vma'.len /\ start' = vma'.first + (vma'.len - size')
      <3>1. size' = size - 1 /\ vma' = vma /\ start' = start + 1 /\ size > 0
        BY <1>a
      <3>2. size' \in 0..vma'.len
        BY <1>1, <1>2, <3>1
      <3>3. start' = vma.first + (done + 1)
        BY <1>1, <1>2, <1>3, <3>1
      <3> QED BY <1>3, <3>1, <3>2, <3>3
    <2>5. \A v \in VPages : vpage'[v] \in had'[v]
      BY <1>a, <1>1
    <2> QED BY <1>a, <2>3, <2>4, <2>5 DEF Progress
  <1>7. MappedSoFar'
    <2>1. ASSUME NEW k \in 0..((done + 1) - 1)
          PROVE  area'[vma.first + k] \in had[(vm_pgoff + k) % NPages]
      <3>1. vma.first + k \in 0..(AreaPages - 1)
        <4>1. k <= done /\ vma.first + done <= AreaPages - 1
          BY <1>1, <1>2, <1>3
        <4> QED BY <1>2, <1>3, <4>1, MmapAssumption
      <3>2. CASE k = done
        <4>1. area'[start] = vpage[pos]
          BY <1>t, <1>a, <1>3 DEF MmapTypeOK
        <4> QED BY <1>1, <1>4, <3>2, <4>1
      <3>3. CASE k # done
        <4>1. k \in 0..(vma.len - size - 1)
          BY <1>3, <3>3 DEF done
        <4>2. area[vma.first + k] \in had[(vm_pgoff + k) % NPages]
          BY <1>t, <1>a, <4>1 DEF MappedSoFar
        <4>3. vma.first + k # start
          BY <1>1, <1>2, <1>3, <3>3
        <4> QED BY <1>t, <1>a, <3>1, <4>2, <4>3 DEF MmapTypeOK
      <3> QED BY <3>2, <3>3
    <2>2. ASSUME NEW a \in 0..(AreaPages - 1), a \notin vma.first..(vma.first + vma.len - 1)
          PROVE  area'[a] = NotMapped
      <3>1. a # start
        BY <1>1, <1>2, <1>3, <1>a, <2>2 DEF done
      <3> QED BY <1>t, <1>a, <2>2, <3>1 DEF MappedSoFar, MmapTypeOK
    <2> QED BY <1>a, <1>3, <2>1, <2>2 DEF MappedSoFar
  <1> QED BY <1>5, <1>6, <1>7 DEF MmapInv

(* The other steps: an error, the return, and the kernel's own changes. *)
LEMMA OtherSteps == MmapInv /\ (MapFails \/ MmapReturn \/ Vchange \/ UNCHANGED mmapVars) => MmapInv'
  <1> SUFFICES ASSUME MmapInv, MapFails \/ MmapReturn \/ Vchange \/ UNCHANGED mmapVars
               PROVE  MmapInv'
    OBVIOUS
  <1>t. MmapTypeOK /\ Progress /\ MappedSoFar
    BY DEF MmapInv
  <1>1. CASE MapFails
    <2>1. DOMAIN area = 0..(AreaPages - 1)
      BY <1>t DEF MmapTypeOK
    <2>2. MmapTypeOK'
      BY <1>t, <1>1, <2>1 DEF MapFails, MmapTypeOK
    <2>3. Progress' /\ MappedSoFar'
      BY <1>t, <1>1, <2>1 DEF MapFails, Progress, MappedSoFar
    <2> QED BY <2>2, <2>3 DEF MmapInv
  <1>2. CASE MmapReturn
    BY <1>t, <1>2 DEF MmapReturn, MmapInv, MmapTypeOK, Progress, MappedSoFar
  <1>3. CASE Vchange
    <2>1. PICK v \in VPages, f \in Translation :
              vpage' = [vpage EXCEPT ![v] = f] /\ had' = [had EXCEPT ![v] = @ \union {f}]
      BY <1>3 DEF Vchange, VPages
    <2>2. /\ mmapPc = "loop"
          /\ UNCHANGED <<mmapPc, area, vma, vm_pgoff, start, pos, size>>
      BY <1>3 DEF Vchange
    <2>3. MmapTypeOK'
      BY <1>t, <2>1, <2>2 DEF MmapTypeOK
    <2>4. /\ \A w \in VPages : had[w] \subseteq had'[w]
          /\ \A w \in VPages : vpage[w] \in had[w] => vpage'[w] \in had'[w]
      BY <1>t, <2>1 DEF MmapTypeOK
    <2>5. Progress'
      BY <1>t, <2>2, <2>4 DEF Progress
    <2>6. MappedSoFar'
      <3>1. ASSUME NEW k \in 0..(vma.len - size - 1)
            PROVE  area[vma.first + k] \in had'[(vm_pgoff + k) % NPages]
        <4>1. (vm_pgoff + k) % NPages \in VPages
          BY <1>t, Wrapped DEF MmapTypeOK
        <4>2. area[vma.first + k] \in had[(vm_pgoff + k) % NPages]
          BY <1>t, <2>2 DEF MappedSoFar
        <4> QED BY <2>4, <4>1, <4>2
      <3> QED BY <1>t, <2>2, <3>1 DEF MappedSoFar
    <2> QED BY <2>3, <2>5, <2>6 DEF MmapInv
  <1>4. CASE UNCHANGED mmapVars
    BY <1>t, <1>4 DEF mmapVars, MmapInv, MmapTypeOK, Progress, MappedSoFar
  <1> QED BY <1>1, <1>2, <1>3, <1>4

(* A successful mmap maps the k-th page of the area to what the k-th       *)
(* kernel page from the offset on had during the call, a failed one maps   *)
(* nothing, and neither touches a page outside the area.                   *)
THEOREM MmapCorrect == MmapSpec => []AreaMapped
  <1>1. MmapInv => AreaMapped
    BY DEF MmapInv, MmapTypeOK, Progress, MappedSoFar, AreaMapped
  <1>2. MmapInv /\ [MmapNext]_mmapVars => MmapInv'
    BY StartStep, LoopStep, OtherSteps DEF MmapNext
  <1> QED BY MmapInvInit, <1>1, <1>2, PTL DEF MmapSpec

-----------------------------------------------------------------------------
(***************************************************************************)
(* pci_enabler's books balance for any set of devices and any number of    *)
(* probes.                                                                 *)
(***************************************************************************)
Stages == {"unbound", "enabled", "claimed", "mmio0", "bound"}

(* The types that the argument needs *)
PciTypeOK ==
    /\ probe \in [Devices -> Stages]
    /\ probed \in [Devices -> Nat]
    /\ enable_cnt \in [Devices -> Int]
    /\ on \in [Devices -> BOOLEAN]
    /\ regions \in [Devices -> {"free", "ours", "other"}]
    /\ other \in [Devices -> BOOLEAN]
    /\ mmio \in [Devices -> Nat]
    /\ refused \in [Devices -> Nat]
    /\ robbed \in [Devices -> BOOLEAN]

(* One device's account.  A probe that is under way holds what it has      *)
(* obtained so far; this is what makes PciLedger inductive.                *)
Account(d) ==
    /\ enable_cnt[d] = Uses(d) - refused[d]
    /\ probe[d] # "unbound" => on[d]
    /\ (probe[d] = "unbound" /\ on[d]) => refused[d] > 0
    /\ probe[d] \in {"unbound", "enabled"} => regions[d] # "ours"
    /\ probe[d] \in {"claimed", "mmio0", "bound"} => regions[d] = "ours" \/ robbed[d]
    /\ probe[d] = "mmio0" => mmio[d] >= 1
    /\ probe[d] = "bound" => mmio[d] >= 2
    /\ ~robbed[d] => (other[d] <=> regions[d] = "other")

PciInv == PciTypeOK /\ \A d \in Devices : Account(d)

-----------------------------------------------------------------------------
(* The invariant holds before the driver is registered. *)
LEMMA PciInvInit == PciInit => PciInv
  BY DEF PciInit, PciInv, PciTypeOK, Account, Uses, Stages

(* Giving a device back settles its account if it was in use, or if its    *)
(* probe failed before it was.                                             *)
LEMMA GivenBack ==
    ASSUME PciInv, NEW D \in SUBSET Devices, GiveBack(D),
           UNCHANGED <<other, mmio>>, probed' \in [Devices -> Nat],
           refused' \in [Devices -> Nat],
           \A d \in Devices \ D : refused'[d] = refused[d],
           \A d \in D : refused'[d] = IF probe[d] = "unbound" THEN refused[d] + 1 ELSE refused[d]
    PROVE  PciInv'
  <1> USE DEF PciInv, GiveBack
  <1>1. PciTypeOK'
    BY DEF PciTypeOK, Stages
  <1>2. ASSUME NEW d \in Devices PROVE Account(d)'
    <2>0. Account(d) /\ PciTypeOK
      OBVIOUS
    <2>1. CASE d \notin D
      BY <2>0, <2>1 DEF PciTypeOK, Account, Uses
    <2>2. CASE d \in D
      <3>1. /\ probe'[d] = "unbound" /\ regions'[d] = "free" /\ enable_cnt'[d] = enable_cnt[d] - 1
            /\ on'[d] <=> (on[d] /\ enable_cnt[d] # 1)
            /\ robbed'[d] <=> (robbed[d] \/ regions[d] = "other")
            /\ other'[d] = other[d] /\ mmio'[d] = mmio[d]
            /\ refused'[d] = IF probe[d] = "unbound" THEN refused[d] + 1 ELSE refused[d]
        BY <2>2, <2>0 DEF PciTypeOK
      <3>2. enable_cnt'[d] = Uses(d)' - refused'[d]
        BY <2>0, <3>1 DEF PciTypeOK, Account, Uses
      <3>3. on'[d] => refused'[d] > 0
        <4>1. CASE probe[d] = "unbound"
          BY <2>0, <3>1, <4>1 DEF PciTypeOK
        <4>2. CASE probe[d] # "unbound"
          <5>1. enable_cnt[d] = 1 - refused[d] /\ refused'[d] = refused[d] /\ refused[d] \in Nat
            BY <2>0, <3>1, <4>2 DEF PciTypeOK, Account, Uses
          <5>2. on'[d] => enable_cnt[d] # 1
            BY <3>1
          <5> QED BY <5>1, <5>2
        <4> QED BY <4>1, <4>2
      <3>4. ~robbed'[d] => (other'[d] <=> regions'[d] = "other")
        BY <2>0, <3>1 DEF PciTypeOK, Account
      <3> QED BY <3>1, <3>2, <3>3, <3>4 DEF Account
    <2> QED BY <2>1, <2>2
  <1> QED BY <1>1, <1>2

(* Every step of the PCI core and of another owner preserves it. *)
LEMMA PciInvStep == PciInv /\ [PciNext]_pciVars => PciInv'
  <1> SUFFICES ASSUME PciInv, [PciNext]_pciVars
               PROVE  PciInv'
    OBVIOUS
  <1>1. CASE pci_register_driver
    BY <1>1 DEF pci_register_driver, PciInv, PciTypeOK, Account, Uses
  <1>2. CASE pci_unregister_driver
    <2> DEFINE D == {d \in Devices : probe[d] = "bound"}
    <2>1. /\ GiveBack(D) /\ D \in SUBSET Devices
          /\ UNCHANGED <<probed, other, mmio, refused>>
          /\ \A d \in D : probe[d] # "unbound"
      BY <1>2 DEF pci_unregister_driver
    <2>2. refused' \in [Devices -> Nat] /\ probed' \in [Devices -> Nat]
      BY <2>1 DEF PciInv, PciTypeOK
    <2> HIDE DEF D
    <2> QED BY <2>1, <2>2, GivenBack
  <1>3. ASSUME NEW d \in Devices,
               EnableDevice(d) \/ RequestRegions(d) \/ Ioremap(d) \/ OtherClaims(d) \/ OtherReleases(d)
        PROVE  PciInv'
    <2> USE DEF PciInv
    <2>1. PciTypeOK'
      <3> USE DEF PciTypeOK, Stages
      <3>1. CASE EnableDevice(d)
        BY <3>1 DEF EnableDevice
      <3>2. CASE RequestRegions(d)
        BY <3>2 DEF RequestRegions
      <3>3. CASE Ioremap(d)
        BY <3>3 DEF Ioremap
      <3>4. CASE OtherClaims(d)
        BY <3>4 DEF OtherClaims
      <3>5. CASE OtherReleases(d)
        BY <3>5 DEF OtherReleases
      <3> QED BY <1>3, <3>1, <3>2, <3>3, <3>4, <3>5
    <2>2. ASSUME NEW e \in Devices PROVE Account(e)'
      <3>0. Account(e) /\ PciTypeOK
        OBVIOUS
      <3> USE DEF Account, Uses, PciTypeOK
      <3>1. CASE EnableDevice(d)
        BY <3>0, <3>1 DEF EnableDevice
      <3>2. CASE RequestRegions(d)
        BY <3>0, <3>2 DEF RequestRegions
      <3>3. CASE Ioremap(d)
        BY <3>0, <3>3 DEF Ioremap
      <3>4. CASE OtherClaims(d)
        BY <3>0, <3>4 DEF OtherClaims
      <3>5. CASE OtherReleases(d)
        BY <3>0, <3>5 DEF OtherReleases
      <3> QED BY <1>3, <3>1, <3>2, <3>3, <3>4, <3>5
    <2> QED BY <2>1, <2>2
  <1>4. ASSUME NEW d \in Devices, EnableFails(d)
        PROVE  PciInv'
    <2>1. /\ GiveBack({d}) /\ UNCHANGED <<other, mmio>> /\ probe[d] = "unbound"
          /\ refused' = [refused EXCEPT ![d] = @ + 1] /\ probed' = [probed EXCEPT ![d] = @ + 1]
      BY <1>4 DEF EnableFails
    <2>2. /\ refused' \in [Devices -> Nat] /\ probed' \in [Devices -> Nat]
          /\ refused'[d] = refused[d] + 1
          /\ \A e \in Devices \ {d} : refused'[e] = refused[e]
      BY <2>1 DEF PciInv, PciTypeOK
    <2> QED BY <2>1, <2>2, GivenBack
  <1>5. ASSUME NEW d \in Devices, RequestFails(d) \/ IoremapFails(d) \/ remove_one(d)
        PROVE  PciInv'
    <2>1. /\ GiveBack({d}) /\ UNCHANGED <<probed, other, mmio>>
          /\ probe[d] # "unbound" /\ refused' = refused
      BY <1>5 DEF RequestFails, IoremapFails, remove_one
    <2>2. refused' \in [Devices -> Nat] /\ probed' \in [Devices -> Nat]
      BY <2>1 DEF PciInv, PciTypeOK
    <2> QED BY <2>1, <2>2, GivenBack
  <1>6. CASE UNCHANGED pciVars
    BY <1>6 DEF pciVars, PciInv, PciTypeOK, Account, Uses
  <1> QED BY <1>1, <1>2, <1>3, <1>4, <1>5, <1>6 DEF PciNext

(* Whatever probes fail and whoever else claims the addresses: the enable  *)
(* count, the switch and the regions of every device are as PciLedger says. *)
THEOREM LedgerBalanced == PciSpec => []PciLedger
  <1>1. PciInv => PciLedger
    BY DEF PciInv, Account, PciLedger
  <1> QED BY PciInvInit, PciInvStep, <1>1, PTL DEF PciSpec

-----------------------------------------------------------------------------
(***************************************************************************)
(* The page-table walks go through the levels of the MMU and stray from    *)
(* the tables only where WalkSound allows it, for every register width.    *)
(***************************************************************************)

(* Half a register holds an even number of units of bit LA57. *)
LEMMA HalfEven ==
    \E m \in Nat \ {0} : 2^HalfReg = 2^LA57 * (2 * m) /\ 2^LA57 \in Nat \ {0}
<1>0. HalfReg \in Nat /\ LA57 \in Nat /\ LA57 < HalfReg /\ LA57 \in 0..(HalfReg - 1)
  BY WalkAssumption
<1> DEFINE p == 2^LA57
           Even(j) == \E m \in Nat \ {0} : 2^(LA57 + 1 + j) = p * (2 * m)
           S == {j \in Nat : LA57 + 1 + j <= HalfReg /\ ~Even(j)}
<1>1. p \in Nat \ {0}
  BY <1>0, WalkPowers
<1>2. S = {}
  <2> SUFFICES ASSUME S # {} PROVE FALSE
    OBVIOUS
  <2>1. PICK j \in S : \A i \in S : j <= i
    <3>1. S \subseteq Nat
      OBVIOUS
    <3> HIDE DEF S
    <3> QED
      BY <3>1, LeastNumber, Zenon
  <2>2. j \in Nat /\ LA57 + 1 + j <= HalfReg /\ ~Even(j)
    BY <2>1
  <2>3. CASE j = 0
    <3>1. LA57 + 1 + 0 = LA57 + 1 /\ 2^(LA57 + 1) = 2 * p
      BY <1>0, WalkPowers
    <3>2. 2 * p = p * (2 * 1)
      <4> HIDE DEF p
      <4> QED
        BY <1>1
    <3>3. 2^(LA57 + 1 + 0) = p * (2 * 1) /\ 1 \in Nat \ {0}
      BY <3>1, <3>2
    <3> QED
      BY <2>2, <2>3, <3>3
  <2>4. CASE j # 0
    <3>1. j - 1 \in Nat /\ ~(j <= j - 1) /\ LA57 + 1 + (j - 1) <= HalfReg
      BY <1>0, <2>2, <2>4
    <3>2. j - 1 \notin S
      BY <2>1, <3>1, Zenon
    <3>3. PICK m \in Nat \ {0} : 2^(LA57 + 1 + (j - 1)) = p * (2 * m)
      BY <3>1, <3>2
    <3>4. LA57 + 1 + (j - 1) \in 0..(HalfReg - 1) /\ LA57 + 1 + (j - 1) + 1 = LA57 + 1 + j
      BY <1>0, <2>2, <3>1
    <3>5. 2^(LA57 + 1 + j) = 2 * 2^(LA57 + 1 + (j - 1))
      BY <3>4, WalkPowers
    <3>6. 2 * (p * (2 * m)) = p * (2 * (2 * m)) /\ 2 * m \in Nat \ {0}
      <4> HIDE DEF p
      <4> QED
        BY <1>1
    <3>7. 2^(LA57 + 1 + j) = p * (2 * (2 * m))
      BY <3>3, <3>5, <3>6
    <3> QED
      BY <2>2, <3>6, <3>7
  <2> QED
    BY <2>3, <2>4
<1>3. HalfReg - LA57 - 1 \in Nat /\ LA57 + 1 + (HalfReg - LA57 - 1) = HalfReg
  BY <1>0
<1>4. HalfReg - LA57 - 1 \notin S
  BY <1>2
<1>5. Even(HalfReg - LA57 - 1)
  <2>1. LA57 + 1 + (HalfReg - LA57 - 1) <= HalfReg
    BY <1>0, <1>3
  <2> QED
    BY <1>3, <1>4, <2>1
<1> QED
  BY <1>1, <1>3, <1>5

(* What the stack leaves in the upper half does not disturb the bit. *)
LEMMA LevelBit ==
    ASSUME NEW stack \in {0, 1}, cr4 \in {0, 2^LA57}
    PROVE  Bit(get_cr34(stack), LA57) = Bit(cr4, LA57)
<1>1. PICK m \in Nat \ {0} : 2^HalfReg = 2^LA57 * (2 * m) /\ 2^LA57 \in Nat \ {0}
  BY HalfEven
<1> DEFINE p == 2^LA57
           h == 2^HalfReg
<1>2. PICK c \in {0, 1} : cr4 = p * c
  <2>1. p * 0 = 0 /\ p * 1 = p
    BY <1>1
  <2> QED
    BY <2>1
<1>3. Bit(cr4, LA57) = (cr4 \div p) % 2 /\ Bit(get_cr34(stack), LA57) = (get_cr34(stack) \div p) % 2
  BY DEF Bit
<1>4. get_cr34(stack) = (stack * h) + (cr4 % h)
  BY DEF get_cr34
<1>5. p \in Nat \ {0} /\ h = p * (2 * m)
  BY <1>1
<1> HIDE DEF p, h
<1>6. cr4 \in Nat /\ cr4 <= p /\ h \in Nat /\ p < h
  <2>1. p * c \in Nat /\ p * c <= p
    BY <1>5
  <2>2. p * (2 * m) \in Nat /\ p < p * (2 * m)
    BY <1>5
  <2> QED
    BY <1>2, <1>5, <2>1, <2>2
<1>7. cr4 % h = cr4
  BY <1>5, <1>6
<1>8. stack * h = p * (stack * (2 * m)) /\ stack * (2 * m) \in Nat
  BY <1>5
<1>9. get_cr34(stack) = p * (stack * (2 * m) + c)
  BY <1>2, <1>4, <1>5, <1>7, <1>8
<1>10. \A k \in Nat : (p * k) \div p = k
  BY <1>5
<1>11. get_cr34(stack) \div p = stack * (2 * m) + c /\ cr4 \div p = c
  <2>1. stack * (2 * m) + c \in Nat /\ c \in Nat
    BY <1>8
  <2> QED
    BY <1>2, <1>9, <1>10, <2>1
<1>12. (stack * (2 * m) + c) % 2 = c % 2
  <2>1. stack * (2 * m) = 2 * (stack * m) /\ stack * m \in Nat
    OBVIOUS
  <2> DEFINE k == stack * m
  <2>2. k \in Nat /\ stack * (2 * m) = 2 * k
    BY <2>1
  <2> HIDE DEF k
  <2>3. (2 * k + c) % 2 = c % 2
    BY <2>2
  <2> QED
    BY <2>2, <2>3
<1> QED
  BY <1>3, <1>11, <1>12

(* The inductive invariant.  A walk that began is at a level of the        *)
(* machine's, above a path of entries of the right kinds; ...              *)
Kind == {"none", "absent", "table", "large", "page"}

WalkTypes ==
    /\ walkPc \in {"boot", "load", "idle", "walk", "done", "oops"}
    /\ walker \in {"x86", "arm", "bypass", "v2p"} /\ cr4 \in {0, 2^LA57}
    /\ walker # "x86" => cr4 = 0
    /\ astray \in BOOLEAN /\ torn \in BOOLEAN /\ again \in BOOLEAN /\ changes \in Nat
    /\ walkPc \in {"idle", "walk", "done", "oops"} => paging_level = MachineLevels
    /\ walkPc \in {"boot", "load", "idle"} => ~astray /\ ~torn /\ changes = 0
    /\ walkPc \in {"walk", "done", "oops"} =>
          /\ path \in [1..paging_level -> Kind]
          /\ \A l \in 1..paging_level : path[l] \in EntryKinds(paging_level - l)
          /\ level \in 1..paging_level

(* ... with the tables in place a walk goes astray only below an entry     *)
(* that misleads it; with the path unchanged a walk that is not astray     *)
(* came through tables, and one that is met something else; and what is    *)
(* returned tells how the walk ended.                                      *)
WalkTrack ==
    /\ walkPc = "oops" => astray
    /\ (astray /\ ~torn) => Misleading
    /\ (walkPc \in {"walk", "done", "oops"} /\ changes = 0) =>
          /\ ~astray => \A l \in 1..(level - 1) : path[l] = "table"
          /\ astray => \E l \in 1..(paging_level - 1) : path[l] # "table"
    /\ (walkPc = "done" /\ changes = 0) =>
          /\ ret \in {"entry", "PA"} => level = paging_level
          /\ (ret \notin {"entry", "PA"} /\ ~astray)
                => path[level] # IF level = paging_level THEN "page" ELSE "table"
          /\ (walker = "x86" /\ ret = "entry" /\ ~astray) => path[level] # "none"

WalkInv == WalkTypes /\ WalkTrack

(* The machine has four or five levels. *)
LEMMA Levels == MachineLevels \in {4, 5}
  BY DEF MachineLevels

(* What the walk reads is the path's entry, or some entry of that level. *)
LEMMA SeenKinds ==
    ASSUME WalkInv, walkPc = "walk", NEW kind \in Seen
    PROVE  kind \in EntryKinds(Height(level)) /\ (~astray => kind = path[level])
<1>1. /\ path \in [1..paging_level -> Kind] /\ level \in 1..paging_level
      /\ \A l \in 1..paging_level : path[l] \in EntryKinds(paging_level - l)
      /\ paging_level = MachineLevels
  BY DEF WalkInv, WalkTypes
<1>2. Len(path) = paging_level
  BY <1>1, Levels
<1>3. ~(level > Last)
  BY <1>1, <1>2, Levels DEF Last
<1> QED
  BY <1>1, <1>3 DEF Seen, Height

LEMMA WalkInvInit == WalkInit => WalkInv
<1> SUFFICES ASSUME WalkInit PROVE WalkInv
  OBVIOUS
<1>1. WalkTypes
  BY DEF WalkInit, WalkTypes
<1>2. WalkTrack
  BY DEF WalkInit, WalkTrack
<1> QED
  BY <1>1, <1>2 DEF WalkInv

(* The walk goes one level down. *)
LEMMA WalkTableStep == WalkInv /\ WalkTable => WalkInv'
<1> SUFFICES ASSUME WalkInv, WalkTable PROVE WalkInv'
  OBVIOUS
<1>1. PICK kind \in Seen, tested \in Tested :
          \/ Stops(kind, tested) /\ Return(IF walker = "v2p" THEN "junk" ELSE "NULL")
          \/ /\ ~Stops(kind, tested)
             /\ level' = level + 1
             /\ astray' = (astray \/ kind # "table" \/ level >= Last)
             /\ UNCHANGED <<walkPc, again, ret>>
  BY DEF WalkTable
<1>2. /\ walkPc = "walk" /\ Height(level) > 0 /\ UNCHANGED <<walker, cr4, paging_level, path, changes, torn>>
  BY DEF WalkTable
<1>3. kind \in EntryKinds(Height(level)) /\ (~astray => kind = path[level])
  BY <1>2, SeenKinds
<1>4. /\ path \in [1..paging_level -> Kind] /\ level \in 1..paging_level /\ astray \in BOOLEAN
      /\ \A l \in 1..paging_level : path[l] \in EntryKinds(paging_level - l)
      /\ paging_level = MachineLevels /\ paging_level \in {4, 5} /\ changes \in Nat /\ torn \in BOOLEAN
      /\ walker \in {"x86", "arm", "bypass", "v2p"}
  BY <1>2, Levels DEF WalkInv, WalkTypes
<1>5. Len(path) = paging_level /\ level < paging_level /\ ~(level >= Last)
  BY <1>2, <1>4 DEF Height, Last
<1>6. MachineLevels' = MachineLevels /\ (Misleading' <=> Misleading)
  BY <1>2 DEF MachineLevels, Misleading, Last
<1>7. CASE Stops(kind, tested) /\ Return(IF walker = "v2p" THEN "junk" ELSE "NULL")
  <2>1. /\ walkPc' = "done" /\ ret' \in {"junk", "NULL"} /\ UNCHANGED <<level, again, astray>>
    BY <1>7 DEF Return
  <2>2. kind # "table"
    BY <1>7 DEF Stops, X86Stops, ArmStops, PresentStops
  <2>3. WalkTypes'
    BY <1>2, <1>4, <1>6, <2>1 DEF WalkInv, WalkTypes, EntryKinds
  <2>4. WalkTrack'
    BY <1>2, <1>3, <1>4, <1>5, <1>6, <2>1, <2>2 DEF WalkInv, WalkTrack
  <2> QED
    BY <2>3, <2>4 DEF WalkInv
<1>8. CASE /\ ~Stops(kind, tested) /\ level' = level + 1
           /\ astray' = (astray \/ kind # "table" \/ level >= Last)
           /\ UNCHANGED <<walkPc, again, ret>>
  <2>1. astray' <=> astray \/ kind # "table"
    BY <1>5, <1>8
  <2>2. astray' \in BOOLEAN
    BY <1>8
  <2>3. kind # "table" => \/ walker = "x86" /\ kind \in {"absent", "large"}
                          \/ level = 1 /\ paging_level = 4 /\ kind = "none"
    <3>1. Height(level) \in Int /\ Height(level) # 0
      BY <1>2, <1>4 DEF Height
    <3>2. kind \in {"none", "absent", "table", "large"}
      BY <1>3, <3>1 DEF EntryKinds
    <3>3. CASE tested
      BY <1>4, <1>8, <3>2, <3>3 DEF Stops, X86Stops, ArmStops, PresentStops
    <3>4. CASE ~tested
      <4>1. level = 1 /\ paging_level = 4
        <5>1. ~(level > 1 \/ paging_level = 5)
          BY <3>4, Zenon DEF Tested
        <5> QED
          BY <1>4, <5>1
      <4>2. kind \in {"none", "table"}
        BY <1>3, <4>1 DEF EntryKinds, Height
      <4> QED
        BY <4>1, <4>2
    <3> QED
      BY <3>3, <3>4 DEF Tested
  <2>4. level \in 1..(Last - 1) /\ level \in 1..(paging_level - 1) /\ level' \in 1..paging_level
        /\ \A l \in 1..(level' - 1) : l \in 1..(level - 1) \/ l = level
    BY <1>4, <1>5, <1>8 DEF Last
  <2>5. WalkTypes'
    BY <1>2, <1>4, <1>6, <1>8, <2>2, <2>4 DEF WalkInv, WalkTypes, EntryKinds
  <2>6. (~astray /\ kind # "table") => Misleading
    BY <1>3, <1>4, <1>5, <2>3, <2>4 DEF Misleading, Last
  <2>7. WalkTrack'
    BY <1>2, <1>3, <1>4, <1>6, <1>8, <2>1, <2>3, <2>4, <2>6 DEF WalkInv, WalkTrack
  <2> QED
    BY <2>5, <2>7 DEF WalkInv
<1> QED
  BY <1>1, <1>7, <1>8

(* The walk comes to the pte. *)
LEMMA WalkPteStep == WalkInv /\ WalkPte => WalkInv'
<1> SUFFICES ASSUME WalkInv, WalkPte PROVE WalkInv'
  OBVIOUS
<1>2. /\ walkPc = "walk" /\ Height(level) = 0 /\ UNCHANGED <<walker, cr4, paging_level, path, changes, torn>>
  BY DEF WalkPte
<1>4. /\ path \in [1..paging_level -> Kind] /\ level \in 1..paging_level /\ astray \in BOOLEAN
      /\ \A l \in 1..paging_level : path[l] \in EntryKinds(paging_level - l)
      /\ paging_level = MachineLevels /\ paging_level \in {4, 5} /\ changes \in Nat /\ torn \in BOOLEAN
      /\ walker \in {"x86", "arm", "bypass", "v2p"}
  BY <1>2, Levels DEF WalkInv, WalkTypes
<1>5. level = paging_level
  BY <1>2, <1>4 DEF Height
<1>6. MachineLevels' = MachineLevels /\ (Misleading' <=> Misleading)
  BY <1>2 DEF MachineLevels, Misleading, Last
<1>7. ASSUME walkPc' = "done", UNCHANGED <<level, again, astray>>,
             (ret' \notin {"entry", "PA"} /\ ~astray) => path[level] # "page",
             (walker = "x86" /\ ret' = "entry" /\ ~astray) => path[level] # "none"
      PROVE  WalkInv'
  <2>1. WalkTypes'
    BY <1>2, <1>4, <1>6, <1>7 DEF WalkInv, WalkTypes, EntryKinds
  <2>2. WalkTrack'
    BY <1>2, <1>4, <1>5, <1>6, <1>7 DEF WalkInv, WalkTrack
  <2> QED
    BY <2>1, <2>2 DEF WalkInv
<1>8. CASE Pte4
  <2>1. PICK kind \in Seen : Return(IF kind = "none" THEN "NULL" ELSE "entry")
    BY <1>8 DEF Pte4
  <2>2. ~astray => kind = path[level]
    BY <1>2, SeenKinds
  <2> QED
    BY <1>7, <2>1, <2>2 DEF Return
<1>9. CASE Pte5
  <2>1. PICK kind \in Seen :
          IF kind = "none" /\ ~again
          THEN again' = TRUE /\ UNCHANGED <<walkPc, ret, level, astray>>
          ELSE Return(IF kind = "none" THEN "NULL" ELSE "entry")
    BY <1>9 DEF Pte5
  <2>2. ~astray => kind = path[level]
    BY <1>2, SeenKinds
  <2>3. CASE again' = TRUE /\ UNCHANGED <<walkPc, ret, level, astray>>
    <3>1. WalkTypes'
      BY <1>2, <1>4, <1>6, <2>3 DEF WalkInv, WalkTypes, EntryKinds
    <3>2. WalkTrack'
      BY <1>2, <1>4, <1>6, <2>3 DEF WalkInv, WalkTrack
    <3> QED
      BY <3>1, <3>2 DEF WalkInv
  <2>4. CASE Return(IF kind = "none" THEN "NULL" ELSE "entry")
    BY <1>7, <2>2, <2>4 DEF Return
  <2> QED
    BY <2>1, <2>3, <2>4
<1>10. CASE PteUntested
  BY <1>7, <1>10 DEF PteUntested, Return
<1>11. CASE PteV2p
  <2>1. PICK kind \in Seen : Return(IF kind = "page" THEN "PA" ELSE "junk")
    BY <1>11 DEF PteV2p
  <2>2. ~astray => kind = path[level]
    BY <1>2, SeenKinds
  <2>3. walker = "v2p"
    BY <1>11 DEF PteV2p
  <2> QED
    BY <1>7, <2>1, <2>2, <2>3 DEF Return
<1> QED
  BY <1>8, <1>9, <1>10, <1>11 DEF WalkPte

(* Another thread changes the path. *)
LEMMA RemapStep == WalkInv /\ Remap => WalkInv'
<1> SUFFICES ASSUME WalkInv, Remap PROVE WalkInv'
  OBVIOUS
<1>1. PICK l \in 1..Last, kind \in {"none", "absent", "table", "large", "page"} :
          /\ Last - l <= 2 /\ kind \in EntryKinds(Last - l) /\ kind # path[l]
          /\ path' = [path EXCEPT ![l] = kind]
          /\ astray' = (astray \/ (path[l] = "table" /\ l < level))
          /\ torn' = (torn \/ Last - l > 0)
  BY DEF Remap
<1>2. /\ walkPc = "walk" /\ changes' = changes + 1
      /\ UNCHANGED <<walkPc, walker, cr4, paging_level, level, again, ret>>
  BY DEF Remap
<1>3. /\ path \in [1..paging_level -> Kind] /\ level \in 1..paging_level /\ astray \in BOOLEAN
      /\ \A m \in 1..paging_level : path[m] \in EntryKinds(paging_level - m)
      /\ paging_level = MachineLevels /\ paging_level \in {4, 5} /\ changes \in Nat /\ torn \in BOOLEAN
      /\ (astray /\ ~torn) => Misleading
  BY <1>2, Levels DEF WalkInv, WalkTypes, WalkTrack
<1>4. Last = paging_level
  BY <1>3 DEF Last
<1>5. path' \in [1..paging_level -> Kind] /\ Last' = paging_level
  <2>1. path' \in [1..paging_level -> Kind]
    BY <1>1, <1>3 DEF Kind
  <2> QED
    BY <1>3, <2>1 DEF Last
<1>6. \A m \in 1..paging_level : path'[m] \in EntryKinds(paging_level - m)
  BY <1>1, <1>3, <1>4
<1>7. astray' \in BOOLEAN /\ torn' \in BOOLEAN /\ MachineLevels' = MachineLevels
  BY <1>1, <1>2 DEF MachineLevels
<1>8. changes' \in Nat /\ changes' # 0
  BY <1>2, <1>3
<1>9. WalkTypes'
  BY <1>2, <1>3, <1>5, <1>6, <1>7, <1>8 DEF WalkInv, WalkTypes, EntryKinds
<1>10. ASSUME astray', ~torn' PROVE Misleading'
  <2>1. ~torn /\ ~(Last - l > 0)
    BY <1>1, <1>10
  <2>2. l = paging_level
    BY <1>3, <1>4, <2>1
  <2>3. astray
    BY <1>1, <1>3, <1>10, <2>2
  <2>4. \A m \in 1..(Last - 1) : path'[m] = path[m]
    BY <1>1, <1>3, <1>4, <2>2
  <2>5. Misleading /\ 1 \in 1..(Last - 1)
    BY <1>3, <1>4, <2>1, <2>3
  <2> QED
    BY <1>2, <1>4, <1>5, <2>4, <2>5 DEF Misleading
<1>11. WalkTrack'
  BY <1>2, <1>8, <1>10 DEF WalkTrack
<1> QED
  BY <1>9, <1>11 DEF WalkInv

LEMMA WalkInvStep == WalkInv /\ [WalkNext]_walkVars => WalkInv'
<1> SUFFICES ASSUME WalkInv, [WalkNext]_walkVars PROVE WalkInv'
  OBVIOUS
<1>1. CASE Boot
  <2>1. /\ walkPc = "boot" /\ walkPc' = "load" /\ walker' \in Walkers
        /\ cr4' \in {0, 2^LA57} /\ (walker' # "x86" => cr4' = 0)
        /\ UNCHANGED <<paging_level, path, level, again, astray, ret, changes, torn>>
    BY <1>1 DEF Boot
  <2>2. walker' \in {"x86", "arm", "bypass", "v2p"}
    BY <2>1, WalkAssumption
  <2> QED
    BY <2>1, <2>2 DEF WalkInv, WalkTypes, WalkTrack
<1>2. CASE get_paging_level
  <2>1. PICK stack \in {0, 1} :
           paging_level' = IF walker = "x86" /\ Bit(get_cr34(stack), LA57) = 1 THEN 5 ELSE 4
    BY <1>2 DEF get_paging_level
  <2>2. /\ walkPc = "load" /\ walkPc' = "idle"
        /\ UNCHANGED <<walker, cr4, path, level, again, astray, ret, changes, torn>>
    BY <1>2 DEF get_paging_level
  <2>3. cr4 \in {0, 2^LA57}
    BY DEF WalkInv, WalkTypes
  <2>4. Bit(get_cr34(stack), LA57) = Bit(cr4, LA57)
    BY <2>3, LevelBit
  <2>5. walker # "x86" => Bit(cr4, LA57) = 0
    <3>1. walker # "x86" => cr4 = 0
      BY DEF WalkInv, WalkTypes
    <3>2. Bit(0, LA57) = 0
      <4>1. 2^LA57 \in Nat \ {0}
        BY HalfEven
      <4> DEFINE p == 2^LA57
      <4> HIDE DEF p
      <4>2. (0 \div p) % 2 = 0
        BY <4>1 DEF p
      <4> QED
        BY <4>2 DEF Bit, p
    <3> QED
      BY <3>1, <3>2
  <2>6. paging_level' = MachineLevels'
    BY <2>1, <2>2, <2>4, <2>5 DEF MachineLevels
  <2> QED
    BY <2>2, <2>6 DEF WalkInv, WalkTypes, WalkTrack
<1>3. CASE WalkStart
  <2>1. /\ walkPc = "idle" /\ walkPc' = "walk" /\ path' \in Paths /\ level' = 1
        /\ UNCHANGED <<walker, cr4, paging_level, again, astray, ret, changes, torn>>
    BY <1>3 DEF WalkStart
  <2>2. /\ paging_level = MachineLevels /\ ~astray /\ ~torn /\ changes = 0
    BY <2>1 DEF WalkInv, WalkTypes
  <2>3. /\ path' \in [1..paging_level -> Kind]
        /\ \A l \in 1..paging_level : path'[l] \in EntryKinds(paging_level - l)
    BY <2>1, <2>2 DEF Paths, Kind
  <2>4. 1 \in 1..paging_level /\ MachineLevels' = MachineLevels
    BY <2>1, <2>2, Levels DEF MachineLevels
  <2>5. WalkTypes'
    BY <2>1, <2>2, <2>3, <2>4 DEF WalkInv, WalkTypes, EntryKinds
  <2>6. WalkTrack'
    BY <2>1, <2>2 DEF WalkTrack
  <2> QED
    BY <2>5, <2>6 DEF WalkInv
<1>4. CASE WalkTable
  BY <1>4, WalkTableStep
<1>5. CASE WalkPte
  BY <1>5, WalkPteStep
<1>6. CASE WalkFault
  <2>1. /\ walkPc = "walk" /\ astray /\ UNCHANGED <<walker, cr4, paging_level, path, changes, torn>>
    BY <1>6 DEF WalkFault
  <2>2. /\ UNCHANGED <<level, again, astray>>
        /\ walkPc' = "oops" \/ (walkPc' = "done" /\ ret' = "NULL")
    BY <1>6 DEF WalkFault, Return
  <2>3. MachineLevels' = MachineLevels /\ (Misleading' <=> Misleading)
    BY <2>1 DEF MachineLevels, Misleading, Last
  <2>4. WalkTypes'
    BY <2>1, <2>2, <2>3 DEF WalkInv, WalkTypes, EntryKinds
  <2>5. WalkTrack'
    BY <2>1, <2>2, <2>3 DEF WalkInv, WalkTrack
  <2> QED
    BY <2>4, <2>5 DEF WalkInv
<1>7. CASE Remap
  BY <1>7, RemapStep
<1>8. CASE UNCHANGED walkVars
  <2>1. UNCHANGED <<walkPc, walker, cr4, paging_level, path, level, again, astray, ret, changes, torn>>
    BY <1>8 DEF walkVars
  <2>2. MachineLevels' = MachineLevels /\ (Misleading' <=> Misleading)
    BY <2>1 DEF MachineLevels, Misleading, Last
  <2> QED
    BY <2>1, <2>2 DEF WalkInv, WalkTypes, WalkTrack, EntryKinds
<1> QED
  BY <1>1, <1>2, <1>3, <1>4, <1>5, <1>6, <1>7, <1>8 DEF WalkNext

(* Whatever the mapping and whatever other threads change during a walk,   *)
(* the walks go through as many levels as the MMU has, although get_cr34   *)
(* leaves half of its result undefined; while the tables stay in place     *)
(* only get_pte4 and get_pte5 follow a large or an absent entry, and only  *)
(* with four levels a walk follows an empty pgd; and an address that is    *)
(* mapped all the time is found.                                           *)
THEOREM WalksCorrect == WalkSpec => []WalkSound
<1>1. WalkInv => WalkSound
  <2> SUFFICES ASSUME WalkInv PROVE WalkSound
    OBVIOUS
  <2>1. walkPc \in {"idle", "walk", "done", "oops"} => paging_level = MachineLevels
    BY DEF WalkInv, WalkTypes
  <2>2. ((astray \/ walkPc = "oops") /\ ~torn) => Misleading
    BY DEF WalkInv, WalkTrack
  <2>3. ASSUME walkPc = "done", changes = 0
        PROVE  /\ Mapped4K <=> (ret \in {"entry", "PA"} /\ ~astray /\ path[Last] = "page")
               /\ (walker = "x86" /\ ret = "entry" /\ ~astray) => path[Last] # "none"
    <3>1. /\ path \in [1..paging_level -> Kind] /\ level \in 1..paging_level
          /\ paging_level \in {4, 5}
      BY <2>3, Levels DEF WalkInv, WalkTypes
    <3>2. Last = paging_level
      BY <3>1 DEF Last
    <3>3. /\ ~astray => \A l \in 1..(level - 1) : path[l] = "table"
          /\ astray => \E l \in 1..(paging_level - 1) : path[l] # "table"
          /\ ret \in {"entry", "PA"} => level = paging_level
          /\ (ret \notin {"entry", "PA"} /\ ~astray)
                => path[level] # IF level = paging_level THEN "page" ELSE "table"
          /\ (walker = "x86" /\ ret = "entry" /\ ~astray) => path[level] # "none"
      BY <2>3 DEF WalkInv, WalkTrack
    <3>4. Mapped4K <=> /\ path[paging_level] = "page"
                       /\ \A l \in 1..(paging_level - 1) : path[l] = "table"
      <4>1. \A l \in 1..paging_level : l = paging_level \/ l \in 1..(paging_level - 1)
        BY <3>1
      <4>2. \A l \in 1..(paging_level - 1) : l # paging_level /\ l \in 1..paging_level
        BY <3>1
      <4>3. paging_level \in 1..paging_level
        BY <3>1
      <4> QED
        BY <3>2, <4>1, <4>2, <4>3 DEF Mapped4K
    <3>5. level = paging_level \/ level \in 1..(paging_level - 1)
      BY <3>1
    <3> QED
      BY <3>2, <3>3, <3>4, <3>5
  <2> QED
    BY <2>1, <2>2, <2>3 DEF WalkSound
<1> QED
  BY <1>1, WalkInvInit, WalkInvStep, PTL DEF WalkSpec

-----------------------------------------------------------------------------
(***************************************************************************)
(* get_table_entry finds every symbol, for any size of its buffer, any     *)
(* file and any set of symbols that KallsymsAssumption allows.             *)
(***************************************************************************)
ScanTypes ==
    /\ scanPc \in {"off", "scan", "done", "failed"}
    /\ text \in Seq(Kinds) /\ reads \in Nat
    /\ found \in [Symbols -> Int]

(* A symbol is not found as long as no line of it was read to its end, and *)
(* then it is the first of them, unless garbage was met before.            *)
SymbolSoFar(s) ==
    \/ found[s] = 0 /\ \A k \in LinesOf(s) : LineEnd[k] > reads * HalfBuf
    \/ found[s] \in LinesOf(s) /\ \A k \in LinesOf(s) : found[s] <= k
    \/ found[s] = -1 /\ (s \in junk \/ 1 \in LinesOf(s))

(* Both bounds are addresses of lines, if the buffer held none before. *)
DriverLines ==
    \A bound \in {driver_top, driver_bottom} :
        \/ bound \in LinesOf("tag") \union {0}
        \/ bound = -1 /\ "tag" \in junk

ScanInv ==
    /\ ScanTypes /\ DriverLines
    /\ scanPc = "off" => reads = 0 /\ text = <<>> /\ driver_top = 0 /\ driver_bottom = 0
    /\ scanPc \in {"scan", "done"} => \A s \in Symbols : SymbolSoFar(s)
    /\ scanPc = "done" => reads * HalfBuf >= LineEnd[Len(text)]

(* What the assumption says of a line of the file *)
LEMMA LineFacts ==
    ASSUME text \in Seq(Kinds), NEW k \in DOMAIN text
    PROVE  /\ k \in 1..Len(text)
           /\ text[k].len \in Nat \ {0} /\ text[k].tail \in Nat \ {0}
           /\ text[k].sym \in Symbols => Prefix + text[k].tail <= HalfBuf + 1
  <1>1. k \in 1..Len(text) /\ text[k] \in Kinds
    OBVIOUS
  <1> QED BY <1>1, KallsymsAssumption

(* The ends of the lines by their equations *)
LEMMA LineEndOf ==
    ASSUME text \in Seq(Kinds)
    PROVE  /\ LineEnd \in [0..Len(text) -> Int] /\ LineEnd[0] = 0
           /\ \A k \in 1..Len(text) : LineEnd[k] = LineEnd[k - 1] + text[k].len
  <1> DEFINE N == Len(text)
             a == [k \in 1..N |-> text[k].len]
             E == LineEnd
  <1>1. N \in Nat /\ \A k \in 1..N : text[k].len \in Nat
    <2>1. \A k \in DOMAIN text : text[k].len \in Nat
      BY LineFacts
    <2> QED BY <2>1
  <1>2. a \in [(0 + 1)..N -> Int] /\ \A k \in 1..N : a[k] = text[k].len
    BY <1>1
  <1> HIDE DEF a
  <1>3. PICK g \in [0..N -> Int] : g[0] = 0 /\ \A n \in (0 + 1)..N : g[n] = a[n] + g[n - 1]
    <2> HIDE DEF N
    <2>1. 0 \in Int /\ N \in Int /\ 0 <= N
      BY <1>1
    <2> QED BY <1>2, <2>1, PrefixSumsExist, Zenon
  <1>4. g = [k \in 0..N |-> IF k = 0 THEN 0 ELSE g[k - 1] + text[k].len]
    <2> HIDE DEF N
    <2>1. ASSUME NEW k \in 0..N PROVE g[k] = IF k = 0 THEN 0 ELSE g[k - 1] + text[k].len
      <3>1. CASE k = 0
        BY <1>3, <3>1
      <3>2. CASE k # 0
        <4>1. k \in (0 + 1)..N /\ k \in 1..N /\ k - 1 \in 0..N
          BY <1>1, <3>2
        <4>2. g[k] = a[k] + g[k - 1] /\ a[k] = text[k].len
          BY <1>2, <1>3, <4>1
        <4>3. a[k] \in Int /\ g[k - 1] \in Int
          BY <1>2, <1>3, <4>1
        <4>4. g[k] = g[k - 1] + text[k].len
          BY <4>2, <4>3
        <4> QED BY <3>2, <4>4, Zenon
      <3> QED BY <3>1, <3>2
    <2> QED BY <2>1
  <1>5. E = CHOOSE s : s = [k \in 0..N |-> IF k = 0 THEN 0 ELSE s[k - 1] + text[k].len]
    BY DEF LineEnd
  <1> HIDE DEF E, N
  <1>6. E = [k \in 0..N |-> IF k = 0 THEN 0 ELSE E[k - 1] + text[k].len]
    BY <1>4, <1>5
  <1>7. E[0] = 0 /\ \A k \in 1..N : E[k] = E[k - 1] + text[k].len
    BY <1>1, <1>6
  <1>8. \A n \in 0..N : E[n] \in Int
    <2> DEFINE Bad == {n \in 0..N : E[n] \notin Int}
    <2>1. ASSUME Bad # {} PROVE FALSE
      <3>1. Bad \subseteq Nat
        BY <1>1
      <3>2. PICK m \in Bad : \A k \in Bad : m <= k
        BY <2>1, <3>1, LeastNumber, Zenon
      <3>3. m \in 0..N /\ E[m] \notin Int
        OBVIOUS
      <3>4. m # 0
        BY <1>7, <3>3
      <3>5. m \in 1..N /\ m - 1 \in 0..N /\ ~(m <= m - 1)
        BY <1>1, <3>3, <3>4
      <3>6. m - 1 \notin Bad
        <4> HIDE DEF Bad
        <4> QED BY <3>2, <3>5, Zenon
      <3>7. E[m - 1] \in Int /\ text[m].len \in Int
        BY <1>1, <3>5, <3>6
      <3>8. E[m] = E[m - 1] + text[m].len
        BY <1>7, <3>5, Zenon
      <3> QED BY <3>3, <3>7, <3>8
    <2> QED BY <2>1
  <1>9. E \in [0..N -> Int]
    BY <1>6, <1>8
  <1> QED BY <1>7, <1>9 DEF E, N

(* The lines end one after the other. *)
LEMMA LinesInOrder ==
    ASSUME text \in Seq(Kinds), NEW i \in 0..Len(text), NEW j \in 0..Len(text), i < j
    PROVE  LineEnd[i] < LineEnd[j]
  <1> DEFINE N == Len(text)
             E == LineEnd
             Bad == {k \in 0..N : i < k /\ ~(E[i] < E[k])}
  <1>1. /\ E \in [0..N -> Int] /\ N \in Nat
        /\ \A k \in 1..N : E[k] = E[k - 1] + text[k].len
        /\ \A k \in 1..N : text[k].len \in Nat \ {0}
    <2>1. \A k \in DOMAIN text : text[k].len \in Nat \ {0}
      BY LineFacts
    <2>2. DOMAIN text = 1..N /\ N \in Nat
      OBVIOUS
    <2> HIDE DEF N
    <2>3. /\ E \in [0..N -> Int]
          /\ \A k \in 1..N : E[k] = E[k - 1] + text[k].len
      <3> HIDE DEF E
      <3> QED BY LineEndOf DEF E, N
    <2> QED BY <2>1, <2>2, <2>3
  <1>2. i \in 0..N /\ j \in 0..N /\ i < j
    OBVIOUS
  <1> HIDE DEF E, N
  <1>3. ASSUME Bad # {} PROVE FALSE
    <2>1. Bad \subseteq Nat
      BY <1>1
    <2>2. PICK m \in Bad : \A k \in Bad : m <= k
      BY <1>3, <2>1, LeastNumber, Zenon
    <2>3. m \in 0..N /\ i < m /\ ~(E[i] < E[m])
      OBVIOUS
    <2>4. m \in 1..N /\ m - 1 \in 0..N /\ ~(m <= m - 1)
      BY <1>1, <1>2, <2>3
    <2>5. m - 1 \notin Bad
      <3> HIDE DEF Bad
      <3> QED BY <2>2, <2>4, Zenon
    <2>6. ~(i < m - 1) \/ E[i] < E[m - 1]
      BY <2>4, <2>5
    <2>7. E[m] = E[m - 1] + text[m].len /\ text[m].len \in Nat \ {0}
      BY <1>1, <2>4
    <2>8. E[m] \in Int /\ E[m - 1] \in Int /\ E[i] \in Int
      BY <1>1, <1>2, <2>4
    <2>9. E[m - 1] < E[m]
      BY <2>7, <2>8
    <2>10. CASE i < m - 1
      BY <2>3, <2>6, <2>8, <2>9, <2>10
    <2>11. CASE ~(i < m - 1)
      <3>1. i = m - 1
        BY <1>2, <1>1, <2>3, <2>4, <2>11
      <3> QED BY <2>3, <2>9, <3>1
    <2> QED BY <2>10, <2>11
  <1>4. j \notin Bad
    <2> HIDE DEF Bad
    <2> QED BY <1>3, Zenon
  <1> QED BY <1>2, <1>4 DEF E

(* The buffer's start moves on by half of it with every read. *)
LEMMA BaseOf ==
    ASSUME NEW r \in Nat
    PROVE  /\ r * HalfBuf \in Nat /\ (r + 1) * HalfBuf = r * HalfBuf + HalfBuf
           /\ Base(r + 1) = r * HalfBuf - HalfBuf
  <1>1. HalfBuf \in Nat
    BY KallsymsAssumption
  <1>2. r * HalfBuf \in Nat /\ (r + 1) * HalfBuf = r * HalfBuf + HalfBuf
    BY <1>1
  <1>3. (r + 1) - 2 = r - 1 /\ (r - 1) * HalfBuf = r * HalfBuf - HalfBuf
    BY <1>1
  <1> QED BY <1>2, <1>3 DEF Base

(* The read that reaches a line's end finds its pattern in the buffer, and *)
(* the newline before the address too.                                     *)
LEMMA LineInBuffer ==
    ASSUME text \in Seq(Kinds), reads \in Nat, NEW s \in Symbols, NEW k \in LinesOf(s),
           LineEnd[k] > reads * HalfBuf, LineEnd[k] <= (reads + 1) * HalfBuf
    PROVE  k \in Visible(reads + 1) /\ ~(PatternStart(k) - Prefix < Base(reads + 1))
  <1> DEFINE e == LineEnd[k]
             t == text[k].tail
             b == reads * HalfBuf
  <1>1. k \in DOMAIN text /\ text[k].sym = s
    BY DEF LinesOf
  <1>2. k \in 1..Len(text) /\ t \in Nat \ {0} /\ Prefix + t <= HalfBuf + 1
    <2>1. text[k].sym \in Symbols
      BY <1>1
    <2> QED BY <1>1, <2>1, LineFacts
  <1>3. e \in Int
    <2>1. LineEnd \in [0..Len(text) -> Int]
      BY LineEndOf
    <2> HIDE DEF LineEnd
    <2> QED BY <1>2, <2>1
  <1>4. /\ b \in Nat /\ (reads + 1) * HalfBuf = b + HalfBuf
        /\ Base(reads + 1) = b - HalfBuf
    BY BaseOf
  <1>5. e > b /\ e <= (reads + 1) * HalfBuf
    OBVIOUS
  <1>6. Prefix \in Nat /\ HalfBuf \in Nat
    BY KallsymsAssumption
  <1>7. PatternStart(k) = e - t
    BY DEF PatternStart
  <1> HIDE DEF e, t, b
  <1>8. e - t >= b - HalfBuf /\ ~((e - t) - Prefix < b - HalfBuf)
    BY <1>2, <1>3, <1>4, <1>5, <1>6
  <1>9. k \in Visible(reads + 1)
    <2>1. PatternStart(k) >= Base(reads + 1) /\ e <= (reads + 1) * HalfBuf
      BY <1>4, <1>5, <1>7, <1>8
    <2> QED BY <1>1, <2>1 DEF Visible, e
  <1> QED BY <1>4, <1>7, <1>8, <1>9

(* Every line has an end after the file's start. *)
LEMMA LinesNotEmpty ==
    text \in Seq(Kinds) => \A i \in DOMAIN text : LineEnd[i] > 0
  <1> SUFFICES ASSUME text \in Seq(Kinds), NEW i \in DOMAIN text
               PROVE  LineEnd[i] > 0
    OBVIOUS
  <1>1. i \in 0..Len(text) /\ 0 \in 0..Len(text) /\ 0 < i
    OBVIOUS
  <1>2. LineEnd[0] < LineEnd[i] /\ LineEnd[0] = 0
    BY <1>1, LinesInOrder, LineEndOf, Zenon
  <1>3. LineEnd[i] \in Int
    <2>1. LineEnd \in [0..Len(text) -> Int]
      BY LineEndOf
    <2> HIDE DEF LineEnd
    <2> QED BY <1>1, <2>1
  <1> QED BY <1>2, <1>3

(* Nothing was read. *)
LEMMA ScanInvInit == ScanInit => ScanInv
  BY DEF ScanInit, ScanInv, ScanTypes, DriverLines, LinesOf

(* A file is opened. *)
LEMMA OpenKallsymsStep == ScanInv /\ OpenKallsyms => ScanInv'
  <1> SUFFICES ASSUME ScanInv, OpenKallsyms PROVE ScanInv'
    OBVIOUS
  <1>1. reads = 0 /\ text = <<>> /\ driver_top = 0 /\ driver_bottom = 0
    BY DEF ScanInv, OpenKallsyms
  <1>2. PICK n \in 0..MaxLines : text' \in {t \in [1..n -> Kinds] : n > 0 => t[1].sym # "tag"}
    BY DEF OpenKallsyms
  <1>3. text' \in Seq(Kinds)
    <2>1. text' \in [1..n -> Kinds] /\ n \in Nat
      BY <1>2, KallsymsAssumption
    <2> QED BY <2>1
  <1>4. /\ found' = [s \in Symbols |-> 0] /\ scanPc' = "scan"
        /\ UNCHANGED <<reads, driver_top, driver_bottom>>
    BY DEF OpenKallsyms
  <1>5. ScanTypes'
    BY <1>1, <1>3, <1>4 DEF ScanTypes
  <1>6. DriverLines'
    BY <1>1, <1>4 DEF DriverLines, LinesOf
  <1>7. ASSUME NEW s \in Symbols PROVE SymbolSoFar(s)'
    <2>1. ASSUME NEW k \in LinesOf(s)' PROVE LineEnd'[k] > reads' * HalfBuf
      <3>1. k \in DOMAIN text'
        BY DEF LinesOf
      <3>2. (text \in Seq(Kinds) => \A i \in DOMAIN text : LineEnd[i] > 0)'
        BY LinesNotEmpty, PTL
      <3> HIDE DEF LineEnd
      <3>3. LineEnd'[k] > 0
        BY <1>3, <3>1, <3>2
      <3>4. reads' * HalfBuf = 0
        BY <1>1, <1>4, KallsymsAssumption
      <3> QED BY <3>3, <3>4
    <2>2. found'[s] = 0
      BY <1>4
    <2> QED BY <2>1, <2>2 DEF SymbolSoFar
  <1> QED BY <1>4, <1>5, <1>6, <1>7 DEF ScanInv

(* The file is read, and its buffer searched for a symbol. *)
LEMMA LookupStep ==
    ASSUME text \in Seq(Kinds), reads \in Nat, NEW s \in Symbols, SymbolSoFar(s),
           reads' = reads + 1, UNCHANGED <<text, junk>>, found'[s] \in Lookup(s, reads + 1)
    PROVE  SymbolSoFar(s)'
  <1> DEFINE r == reads + 1
             hits == {k \in Visible(r) : text[k].sym = s}
             E == LineEnd
  <1>1. LineEnd' = LineEnd /\ LinesOf(s)' = LinesOf(s)
    BY DEF LineEnd, LinesOf
  <1>2. /\ reads * HalfBuf \in Nat /\ r * HalfBuf = reads * HalfBuf + HalfBuf
        /\ HalfBuf \in Nat
    BY BaseOf, KallsymsAssumption
  <1>3. \A k \in LinesOf(s) : k \in 1..Len(text) /\ E[k] \in Int
    <2>1. \A k \in LinesOf(s) : k \in 1..Len(text)
      BY DEF LinesOf
    <2>2. E \in [0..Len(text) -> Int]
      BY LineEndOf
    <2> HIDE DEF E
    <2> QED BY <2>1, <2>2
  <1> HIDE DEF E
  <1>4. CASE found[s] # 0
    <2>1. found'[s] = found[s]
      BY <1>4 DEF Lookup
    <2> QED BY <1>1, <1>4, <2>1 DEF SymbolSoFar
  <1>5. CASE found[s] = 0
    <2>1. \A k \in LinesOf(s) : E[k] > reads * HalfBuf
      <3>1. found[s] \notin LinesOf(s)
        BY <1>3, <1>5
      <3> QED BY <1>5, <3>1 DEF SymbolSoFar, E
    <2>2. ASSUME NEW k \in LinesOf(s), E[k] <= r * HalfBuf
          PROVE  k \in hits /\ ~(PatternStart(k) - Prefix < Base(r))
      <3>1. k \in Visible(r) /\ ~(PatternStart(k) - Prefix < Base(r))
        BY <2>1, <2>2, LineInBuffer DEF E
      <3> QED BY <3>1 DEF LinesOf
    <2>3. hits \subseteq {k \in LinesOf(s) : E[k] <= r * HalfBuf}
      BY DEF Visible, LinesOf, E
    <2>4. found'[s] \in (IF r = 1 /\ s \in junk THEN {-1}
                         ELSE IF hits = {} THEN {0} ELSE AddressAt(Min(hits), r))
      BY <1>5 DEF Lookup
    <2> HIDE DEF r, hits
    <2>5. CASE r = 1 /\ s \in junk
      BY <2>4, <2>5 DEF SymbolSoFar
    <2>6. CASE ~(r = 1 /\ s \in junk) /\ hits = {}
      <3>1. found'[s] = 0
        BY <2>4, <2>6
      <3>2. \A k \in LinesOf(s) : E[k] > r * HalfBuf
        BY <1>2, <1>3, <2>2, <2>6
      <3> QED BY <1>1, <3>1, <3>2 DEF SymbolSoFar, r, E
    <2>7. CASE ~(r = 1 /\ s \in junk) /\ hits # {}
      <3> DEFINE m == Min(hits)
      <3>1. m \in hits /\ \A k \in hits : m <= k
        <4>1. hits \subseteq Nat
          BY <1>3, <2>3
        <4>2. \E x \in hits : \A y \in hits : x <= y
          BY <2>7, <4>1, LeastNumber, Zenon
        <4> QED BY <4>2 DEF Min
      <3>2. found'[s] \in AddressAt(m, r)
        BY <2>4, <2>7
      <3> HIDE DEF m
      <3>3. m \in LinesOf(s) /\ E[m] <= r * HalfBuf
        BY <2>3, <3>1
      <3>4. found'[s] \in (IF m = 1 THEN {1, -1} ELSE {m})
        BY <2>2, <3>2, <3>3 DEF AddressAt
      <3>5. ASSUME NEW k \in LinesOf(s) PROVE m <= k
        <4>1. CASE E[k] <= r * HalfBuf
          BY <2>2, <3>1, <4>1
        <4>2. CASE ~(E[k] <= r * HalfBuf)
          <5>1. E[m] < E[k]
            BY <1>2, <1>3, <3>3, <4>2
          <5>2. m \in 1..Len(text) /\ k \in 1..Len(text)
            BY <1>3, <3>3
          <5>3. ~(k < m)
            <6> SUFFICES ASSUME k < m PROVE FALSE
              OBVIOUS
            <6>1. E[k] < E[m]
              <7>1. k \in 0..Len(text) /\ m \in 0..Len(text)
                BY <5>2
              <7> QED BY <7>1, LinesInOrder, Zenon DEF E
            <6> QED BY <1>3, <3>3, <5>1, <6>1
          <5> QED BY <5>2, <5>3
        <4> QED BY <4>1, <4>2
      <3>6. CASE found'[s] = m
        BY <1>1, <3>3, <3>5, <3>6 DEF SymbolSoFar
      <3>7. CASE found'[s] # m
        <4>1. found'[s] = -1 /\ m = 1
          BY <3>4, <3>7
        <4> QED BY <1>1, <3>3, <4>1 DEF SymbolSoFar
      <3> QED BY <3>6, <3>7
    <2> QED BY <2>5, <2>6, <2>7
  <1> QED BY <1>4, <1>5

(* One turn of the loop: every symbol's search, and the driver's bounds *)
LEMMA ScanWindowStep == ScanInv /\ ScanWindow => ScanInv'
  <1> SUFFICES ASSUME ScanInv, ScanWindow PROVE ScanInv'
    OBVIOUS
  <1>1. ScanTypes /\ DriverLines /\ \A s \in Symbols : SymbolSoFar(s)
    BY DEF ScanInv, ScanWindow
  <1>2. /\ scanPc = "scan" /\ reads' = reads + 1
        /\ found' \in [Symbols -> -1..Len(text)]
        /\ \A s \in Symbols : found'[s] \in Lookup(s, reads + 1)
        /\ UNCHANGED <<scanPc, text, junk>>
    BY DEF ScanWindow
  <1>3. PICK line \in TagLines(reads + 1) :
              driver_top' \in {line, driver_top} /\ driver_bottom' \in {line, driver_bottom}
    BY <1>2 DEF ScanWindow, Bound
  <1>4. ScanTypes'
    BY <1>1, <1>2 DEF ScanTypes
  <1>5. DriverLines'
    <2>1. line \in LinesOf("tag") \union {0} \/ (line = -1 /\ "tag" \in junk)
      <3> DEFINE tags == {i \in Visible(reads + 1) : text[i].sym = "tag"}
      <3>1. \/ line = 0
            \/ line = -1 /\ "tag" \in junk
            \/ tags # {} /\ line = Min(tags)
        BY <1>3 DEF TagLines
      <3>2. tags \subseteq LinesOf("tag")
        BY DEF Visible, LinesOf
      <3> HIDE DEF tags
      <3>3. tags # {} => Min(tags) \in tags
        <4>1. tags \subseteq Nat
          BY <1>1, <3>2 DEF LinesOf, ScanTypes
        <4>2. tags # {} => \E x \in tags : \A y \in tags : x <= y
          BY <4>1, LeastNumber, Zenon
        <4> QED BY <4>2 DEF Min
      <3> QED BY <3>1, <3>2, <3>3
    <2>2. LinesOf("tag")' = LinesOf("tag")
      BY <1>2 DEF LinesOf
    <2>3. \A b \in {driver_top', driver_bottom'} : b = line \/ b \in {driver_top, driver_bottom}
      BY <1>3
    <2>4. junk' = junk
      BY <1>2
    <2> QED BY <1>1, <2>1, <2>2, <2>3, <2>4 DEF DriverLines
  <1>6. ASSUME NEW s \in Symbols PROVE SymbolSoFar(s)'
    BY <1>1, <1>2, LookupStep DEF ScanTypes
  <1> QED BY <1>2, <1>4, <1>5, <1>6 DEF ScanInv

(* The invariant is preserved by every step. *)
LEMMA ScanInvStep == ScanInv /\ [ScanNext]_scanVars => ScanInv'
  <1> SUFFICES ASSUME ScanInv, [ScanNext]_scanVars PROVE ScanInv'
    OBVIOUS
  <1>1. ASSUME UNCHANGED <<text, reads, found, driver_top, driver_bottom, junk>>
        PROVE  /\ LineEnd' = LineEnd /\ DriverLines' = DriverLines
               /\ \A s \in Symbols : SymbolSoFar(s)' = SymbolSoFar(s)
    <2>1. LineEnd' = LineEnd
      BY <1>1 DEF LineEnd
    <2> HIDE DEF LineEnd
    <2> QED BY <1>1, <2>1 DEF DriverLines, SymbolSoFar, LinesOf
  <1>2. CASE OpenFails
    <2>1. /\ scanPc' = "failed"
          /\ UNCHANGED <<text, reads, found, driver_top, driver_bottom, junk>>
      BY <1>2 DEF OpenFails
    <2> HIDE DEF LineEnd
    <2> QED BY <1>1, <2>1 DEF ScanInv, ScanTypes
  <1>3. CASE ScanEnd
    <2>1. /\ scanPc = "scan" /\ reads * HalfBuf >= LineEnd[Len(text)] /\ scanPc' = "done"
          /\ UNCHANGED <<text, reads, found, driver_top, driver_bottom, junk>>
      BY <1>3 DEF ScanEnd
    <2> HIDE DEF LineEnd
    <2> QED BY <1>1, <2>1 DEF ScanInv, ScanTypes
  <1>4. CASE UNCHANGED scanVars
    <2>1. UNCHANGED <<scanPc, text, reads, found, driver_top, driver_bottom, junk>>
      BY <1>4 DEF scanVars
    <2> HIDE DEF LineEnd
    <2> QED BY <1>1, <2>1 DEF ScanInv, ScanTypes
  <1> QED BY OpenKallsymsStep, ScanWindowStep, <1>2, <1>3, <1>4 DEF ScanNext

(* When the file is at its end, every line has been read to its end. *)
LEMMA ScanDone == ScanInv => SymbolsFound
  <1> SUFFICES ASSUME ScanInv, scanPc = "done" 
               PROVE  /\ \A s \in Symbols :
                            \/ found[s] = (IF LinesOf(s) = {} THEN 0 ELSE Min(LinesOf(s)))
                            \/ found[s] = -1 /\ (s \in junk \/ 1 \in LinesOf(s))
                      /\ DriverLines
    BY DEF SymbolsFound, DriverLines
  <1>1. /\ ScanTypes /\ DriverLines /\ \A s \in Symbols : SymbolSoFar(s)
        /\ reads * HalfBuf >= LineEnd[Len(text)]
    BY DEF ScanInv
  <1>2. ASSUME NEW s \in Symbols, SymbolSoFar(s)
        PROVE  \/ found[s] = (IF LinesOf(s) = {} THEN 0 ELSE Min(LinesOf(s)))
               \/ found[s] = -1 /\ (s \in junk \/ 1 \in LinesOf(s))
    <2>1. CASE found[s] = 0 /\ \A k \in LinesOf(s) : LineEnd[k] > reads * HalfBuf
      <3>1. ASSUME NEW k \in LinesOf(s) PROVE FALSE
        <4> DEFINE E == LineEnd
                   n == Len(text)
        <4>1. E \in [0..n -> Int] /\ text \in Seq(Kinds)
          BY <1>1, LineEndOf DEF ScanTypes
        <4>2. k \in 1..n /\ n \in Nat
          BY <4>1 DEF LinesOf
        <4>3. k < n => E[k] < E[n]
          <5>1. k \in 0..n /\ n \in 0..n
            BY <4>2
          <5> QED BY <4>1, <5>1, LinesInOrder, Zenon
        <4>4. E[k] > reads * HalfBuf /\ reads * HalfBuf >= E[n]
          BY <1>1, <2>1
        <4>5. reads * HalfBuf \in Nat
          BY <1>1, BaseOf DEF ScanTypes
        <4> HIDE DEF E, n
        <4>6. E[k] \in Int /\ E[n] \in Int
          BY <4>1, <4>2
        <4>7. k = n \/ k < n
          BY <4>2
        <4> QED BY <4>3, <4>4, <4>5, <4>6, <4>7
      <3> QED BY <2>1, <3>1
    <2>2. CASE found[s] \in LinesOf(s) /\ \A k \in LinesOf(s) : found[s] <= k
      <3>1. LinesOf(s) \subseteq Nat
        BY <1>1 DEF LinesOf, ScanTypes
      <3>2. Min(LinesOf(s)) \in LinesOf(s) /\ \A k \in LinesOf(s) : Min(LinesOf(s)) <= k
        BY <2>2 DEF Min
      <3>3. found[s] <= Min(LinesOf(s)) /\ Min(LinesOf(s)) <= found[s]
        BY <2>2, <3>2
      <3>4. found[s] = Min(LinesOf(s))
        BY <2>2, <3>1, <3>2, <3>3
      <3> QED BY <2>2, <3>4
    <2> QED BY <1>2, <2>1, <2>2 DEF SymbolSoFar
  <1> QED BY <1>1, <1>2 DEF DriverLines

(* genpipe finds every symbol that /proc/kallsyms lists, in its first      *)
(* line, and the bounds of the driver in lines of the driver, however the  *)
(* reads of half a buffer cut the lines, unless the uninitialised half of  *)
(* the buffer held one before, or stands before the file's first line.     *)
THEOREM KallsymsScanned == ScanSpec => []SymbolsFound
  BY ScanInvInit, ScanInvStep, ScanDone, PTL DEF ScanSpec

-----------------------------------------------------------------------------
(***************************************************************************)
(* genpipe_write by overlapping writers.                                   *)
(***************************************************************************)

LEMMA OverrunInvInit == TxInit => OverrunInv
  BY PointerAssumption DEF TxInit, OverrunInv, OverrunBounded, Labels

(* Every step keeps it. *)
LEMMA OverrunInvNext == OverrunInv /\ [TxNext]_txVars => OverrunInv'
  <1> SUFFICES ASSUME OverrunInv, [TxNext]_txVars PROVE OverrunInv'
    OBVIOUS
  <1> USE DEF At, Keep, Leave, pointers, Labels
  <1>t. TxCap \in Nat /\ MaxCount \in Nat
    BY PointerAssumption
  <1>1. ASSUME NEW w \in TxWriters, NEW n \in 0..MaxCount, Write(w, n) PROVE OverrunInv'
    BY <1>1, <1>t DEF Write, OverrunInv, OverrunBounded
  <1>2. ASSUME NEW w \in TxWriters, Test(w) PROVE OverrunInv'
    BY <1>2 DEF Test, OverrunInv, OverrunBounded
  <1>3. ASSUME NEW w \in TxWriters, Move(w) PROVE OverrunInv'
    BY <1>3 DEF Move, OverrunInv, OverrunBounded
  <1>4. ASSUME NEW w \in TxWriters, Reset(w) PROVE OverrunInv'
    BY <1>4 DEF Reset, OverrunInv, OverrunBounded
  <1>5. ASSUME NEW w \in TxWriters, Rewind(w) PROVE OverrunInv'
    BY <1>5 DEF Rewind, OverrunInv, OverrunBounded
  <1>6. ASSUME NEW w \in TxWriters, Cut(w) PROVE OverrunInv'
    BY <1>6, <1>t DEF Cut, OverrunInv, OverrunBounded
  <1>7. ASSUME NEW w \in TxWriters, CopyFails(w) PROVE OverrunInv'
    BY <1>7 DEF CopyFails, OverrunInv, OverrunBounded
  <1>8. ASSUME NEW w \in TxWriters, LoadWrite(w) PROVE OverrunInv'
    BY <1>8 DEF LoadWrite, OverrunInv, OverrunBounded
  <1>9. ASSUME NEW w \in TxWriters, Add(w) PROVE OverrunInv'
    BY <1>9 DEF Add, OverrunInv, OverrunBounded
  <1>10. ASSUME NEW w \in TxWriters, Scan(w) PROVE OverrunInv'
    BY <1>10 DEF Scan, OverrunInv, OverrunBounded
  <1>11. ASSUME NEW w \in TxWriters, Find(w) PROVE OverrunInv'
    BY <1>11 DEF Find, OverrunInv, OverrunBounded
  <1>12. ASSUME NEW w \in TxWriters, Parse(w) PROVE OverrunInv'
    BY <1>12 DEF Parse, OverrunInv, OverrunBounded
  <1>13. ASSUME NEW w \in TxWriters, NextChar(w) PROVE OverrunInv'
    BY <1>13 DEF NextChar, OverrunInv, OverrunBounded
  <1>14. ASSUME NEW w \in TxWriters, SendOops(w) PROVE OverrunInv'
    BY <1>14 DEF SendOops, OverrunInv, OverrunBounded
  <1>15. ASSUME NEW w \in TxWriters, Skip(w) PROVE OverrunInv'
    BY <1>15 DEF Skip, OverrunInv, OverrunBounded
  <1>16. ASSUME NEW w \in TxWriters, ShiftRest(w) PROVE OverrunInv'
    BY <1>16 DEF ShiftRest, OverrunInv, OverrunBounded
  <1>17. ASSUME NEW w \in TxWriters, LoadShifted(w) PROVE OverrunInv'
    BY <1>17 DEF LoadShifted, OverrunInv, OverrunBounded
  <1>18. ASSUME NEW w \in TxWriters, Back(w) PROVE OverrunInv'
    BY <1>18 DEF Back, OverrunInv, OverrunBounded
  <1>19. ASSUME NEW w \in TxWriters, LoadMoved(w) PROVE OverrunInv'
    BY <1>19 DEF LoadMoved, OverrunInv, OverrunBounded
  <1>20. ASSUME NEW w \in TxWriters, Give(w) PROVE OverrunInv'
    BY <1>20 DEF Give, OverrunInv, OverrunBounded
  <1>21. CASE UNCHANGED txVars
    BY <1>21 DEF txVars, OverrunInv, OverrunBounded
  <1> QED
    BY <1>1, <1>2, <1>3, <1>4, <1>5, <1>6, <1>7, <1>8, <1>9, <1>10, <1>11, <1>12, <1>13,
       <1>14, <1>15, <1>16, <1>17, <1>18, <1>19, <1>20, <1>21 DEF TxNext, TxStep

(* With any number of overlapping writers the write pointer never runs     *)
(* ahead of the characters that were stored: genpipe's unlocked loads and  *)
(* stores of its pointers lose characters, but count none twice.           *)
THEOREM OverrunIsBounded == TxSpec => []OverrunBounded
  <1>1. OverrunInv => OverrunBounded
    BY DEF OverrunInv
  <1> QED
    BY <1>1, OverrunInvInit, OverrunInvNext, PTL DEF TxSpec
=============================================================================
