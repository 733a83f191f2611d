-------------------------- MODULE Programs_proofs --------------------------
(***************************************************************************)
(* Proofs about the stand-alone user-space programs: the longest-match     *)
(* table and the lookups of cuda_iplookup, ip_fast_csum, crc32, player575  *)
(* and the calibration of rdtsc.                                           *)
(***************************************************************************)
EXTENDS MCPrograms, SequenceTheorems, WellFoundedInduction, TLAPS

-----------------------------------------------------------------------------
(***************************************************************************)
(* Arithmetic.                                                             *)
(***************************************************************************)

(* Every set of numbers that is not empty has a least one. *)
LEMMA LeastNumber ==
    ASSUME NEW S, S \subseteq Nat, S # {}
    PROVE  \E x \in S : \A y \in S : x <= y
<1> DEFINE R == OpToRel(<, Nat)
<1>1. IsWellFoundedOn(R, Nat)
  BY NatLessThanWellFounded
<1>2. \A x, y \in Nat : x < y => <<x, y>> \in R
  BY DEF OpToRel
<1> HIDE DEF R
<1>3. PICK x \in S : \A y \in S : <<y, x>> \notin R
  BY <1>1, WFMin
<1>4. ASSUME NEW y \in S PROVE x <= y
  <2>1. x \in Nat /\ y \in Nat /\ <<y, x>> \notin R
    BY <1>3
  <2>2. ~(y < x)
    BY <1>2, <2>1, Zenon
  <2> QED
    BY <2>1, <2>2
<1> QED
  BY <1>4

LEMMA Quotient ==
    ASSUME NEW p \in Nat \ {0}, NEW x \in Nat
    PROVE  /\ x \div p \in Nat
           /\ p * (x \div p) <= x /\ x < p * (x \div p) + p
  OBVIOUS

(* The quotient is the only number with that property. *)
LEMMA QuotientUnique ==
    ASSUME NEW p \in Nat \ {0}, NEW x \in Nat, NEW q \in Nat
    PROVE  x \div p = q <=> p * q <= x /\ x < p * q + p
<1> DEFINE d == x \div p
<1>1. d \in Nat /\ p * d <= x /\ x < p * d + p
  BY Quotient
<1> HIDE DEF d
<1>2. ASSUME p * q <= x, x < p * q + p PROVE d = q
  <2>1. p * (d - q) < p /\ p * (q - d) < p
    <3>1. /\ p * (d - q) = p * d - p * q /\ p * (q - d) = p * q - p * d
          /\ p * d \in Int /\ p * q \in Int
      BY <1>1
    <3> QED
      BY <1>1, <1>2, <3>1
  <2>2. d - q < 1 /\ q - d < 1
    BY <1>1, <2>1
  <2> QED
    BY <1>1, <2>2
<1> QED
  BY <1>1, <1>2 DEF d

LEMMA QuotientMonotone ==
    ASSUME NEW p \in Nat \ {0}, NEW x \in Nat, NEW y \in Nat, x <= y
    PROVE  x \div p <= y \div p
<1> DEFINE d == x \div p
           e == y \div p
<1>1. d \in Nat /\ e \in Nat /\ p * d <= x /\ y < p * e + p
  BY Quotient
<1> HIDE DEF d, e
<1>2. p * (d - e) < p
  <2>1. p * (d - e) = p * d - p * e /\ p * d \in Int /\ p * e \in Int
    BY <1>1
  <2> QED
    BY <1>1, <2>1
<1>3. d - e < 1
  BY <1>1, <1>2
<1> QED
  BY <1>1, <1>3 DEF d, e

-----------------------------------------------------------------------------
(***************************************************************************)
(* The routing table of cuda_iplookup.                                     *)
(***************************************************************************)

LEMMA FibNat ==
    /\ AddrBits \in Nat /\ TableBits \in Nat /\ 2 <= TableBits /\ TableBits <= AddrBits
    /\ MaxRoutes \in Nat /\ Threads \in Nat /\ Threads > 0 /\ IntSize \in Nat /\ 0 \in Gateways
    /\ ByteSize \in Nat /\ ByteSize > 0 /\ LineSubnets \subseteq Int
  BY FibAssumption

LEMMA PowerNat == \A b \in 0..AddrBits : 2^b \in Nat \ {0}
<1> SUFFICES ASSUME NEW b \in 0..AddrBits PROVE 2^b \in Nat \ {0}
  OBVIOUS
<1>1. CASE b < AddrBits
  BY <1>1, PowerAssumption, FibNat
<1>2. CASE b = AddrBits
  <2>1. AddrBits - 1 \in 0..(AddrBits - 1) /\ AddrBits - 1 + 1 = AddrBits
    BY FibNat
  <2>2. 2^(AddrBits - 1) \in Nat \ {0} /\ 2^(AddrBits - 1 + 1) = 2 * 2^(AddrBits - 1)
    BY <2>1, PowerAssumption
  <2> DEFINE p == 2^(AddrBits - 1)
  <2>3. p \in Nat \ {0} /\ 2^AddrBits = 2 * p
    BY <2>1, <2>2
  <2> HIDE DEF p
  <2> QED
    BY <1>2, <2>3
<1> QED
  BY <1>1, <1>2, FibNat

(* Shifting by two numbers of bits one after the other. *)
LEMMA PowerSum ==
    ASSUME NEW h \in Nat, NEW k \in Nat, h + k <= AddrBits
    PROVE  2^(h + k) = 2^h * 2^k
<1> DEFINE S == {j \in Nat : h + j <= AddrBits /\ 2^(h + j) # 2^h * 2^j}
<1>1. S = {}
  <2> SUFFICES ASSUME S # {} PROVE FALSE
    OBVIOUS
  <2>1. PICK j \in S : \A i \in S : j <= i
    BY LeastNumber
  <2>2. j # 0
    <3>1. h + 0 = h /\ 2^0 = 1 /\ 2^h \in Nat
      BY PowerNat, FibNat
    <3>2. 2^h * 1 = 2^h
      BY <3>1
    <3>3. 2^(h + 0) = 2^h * 2^0
      BY <3>1, <3>2, Zenon
    <3> QED
      BY <3>3
  <2>3. j - 1 \in Nat /\ j - 1 \notin S /\ h + (j - 1) <= AddrBits
    BY <2>1, <2>2, FibNat
  <2>4. 2^(h + (j - 1)) = 2^h * 2^(j - 1)
    BY <2>3
  <2>5. /\ j - 1 \in 0..(AddrBits - 1) /\ h + (j - 1) \in 0..(AddrBits - 1)
        /\ j - 1 + 1 = j /\ h + (j - 1) + 1 = h + j
    BY <2>1, <2>2, FibNat
  <2>6. 2^j = 2 * 2^(j - 1) /\ 2^(h + j) = 2 * 2^(h + (j - 1))
    BY <2>5, PowerAssumption
  <2> DEFINE a == 2^h
             b == 2^(j - 1)
  <2>7. a \in Nat /\ b \in Nat
    BY <2>1, <2>5, PowerNat, FibNat
  <2>8. 2^(h + j) = 2 * (a * b) /\ 2^h * 2^j = a * (2 * b)
    BY <2>4, <2>6
  <2> HIDE DEF a, b
  <2>9. 2^(h + j) = 2^h * 2^j
    BY <2>7, <2>8
  <2> QED
    BY <2>1, <2>9
<1> QED
  BY <1>1

(* An entry of the table holds HostSize addresses, a route of length s     *)
(* covers 2^(TableBits - s) entries.                                       *)
LEMMA BlockSize ==
    ASSUME NEW s \in 0..TableBits
    PROVE  /\ 2^(AddrBits - s) = HostSize * 2^(TableBits - s)
           /\ HostSize \in Nat \ {0} /\ 2^(TableBits - s) \in Nat \ {0}
           /\ 2^(AddrBits - s) \in Nat \ {0}
<1> DEFINE h == AddrBits - TableBits
           k == TableBits - s
<1>1. h \in Nat /\ k \in Nat /\ h + k = AddrBits - s /\ h + k <= AddrBits
      /\ h \in 0..AddrBits /\ k \in 0..AddrBits /\ h + k \in 0..AddrBits
  BY FibNat
<1>2. 2^h \in Nat \ {0} /\ 2^k \in Nat \ {0} /\ 2^(h + k) \in Nat \ {0}
  BY <1>1, PowerNat
<1> HIDE DEF h, k
<1>3. 2^(h + k) = 2^h * 2^k
  BY <1>1, PowerSum
<1>4. HostSize = 2^h
  BY DEF HostSize, h
<1> QED
  BY <1>1, <1>2, <1>3, <1>4 DEF k

(* The entries that mapping_fib fills for a route are those whose          *)
(* addresses agree with the route in its first bits.                       *)
LEMMA RangeIsMatch ==
    ASSUME NEW r \in [ip: 0..(2^AddrBits - 1), subnet: 0..TableBits, gw: Gateways], NEW a \in Index
    PROVE  a \in RouteRange(r) <=> Matches(r, a)
<1> DEFINE s == r.subnet
           host == HostSize
           b == 2^(TableBits - s)
           block == 2^(AddrBits - s)
           q == r.ip \div block
<1>1. s \in 0..TableBits /\ r.ip \in 0..(2^AddrBits - 1) /\ a \in 0..(2^TableBits - 1)
  BY DEF Index
<1>2. block = host * b /\ host \in Nat \ {0} /\ b \in Nat \ {0} /\ block \in Nat \ {0}
  BY <1>1, BlockSize
<1>3. r.ip \in Nat /\ a \in Nat
  <2>1. 2^AddrBits \in Nat /\ 2^TableBits \in Nat
    BY PowerNat, FibNat
  <2> QED
    BY <1>1, <2>1
<1>4. q \in Nat
  <2> HIDE DEF block
  <2> QED
    BY <1>2, <1>3, Quotient
<1>5. a \in RouteRange(r) <=> a \in ((q * block) \div host)..((q * block + block - 1) \div host)
  BY DEF RouteRange
<1>6. Matches(r, a) <=> q = (a * host) \div block
  BY DEF Matches
<1> HIDE DEF s, host, b, block, q
<1>7. (q * block) \div host = q * b
  <2>1. q * block = host * (q * b) /\ q * b \in Nat /\ q * block \in Nat
    BY <1>2, <1>4
  <2> QED
    BY <1>2, <2>1, QuotientUnique
<1>8. (q * block + block - 1) \div host = q * b + b - 1
  <2>1. /\ q * b + b - 1 \in Nat /\ q * block + block - 1 \in Nat
        /\ q * block + block = host * (q * b + b - 1) + host
    <3>1. /\ q * block = host * (q * b) /\ q * b \in Nat /\ host * (q * b) \in Nat /\ host * b \in Nat
          /\ host * (q * b + b - 1) = host * (q * b) + host * b - host
      BY <1>2, <1>4
    <3> QED
      BY <1>2, <3>1
  <2> DEFINE x == q * block + block - 1
             y == q * b + b - 1
  <2>2. x \in Nat /\ y \in Nat /\ host * y \in Nat /\ x = host * y + host - 1
    <3>1. host * y \in Nat
      BY <1>2, <2>1
    <3>2. q * block \in Nat
      BY <1>2, <1>4
    <3> DEFINE z == host * y
               w == q * block
    <3>3. z \in Nat /\ w \in Nat /\ w + block = z + host /\ x = w + block - 1
      BY <2>1, <3>1, <3>2
    <3> HIDE DEF z, w
    <3>4. x = z + host - 1
      BY <1>2, <3>3
    <3> QED
      BY <2>1, <3>1, <3>4 DEF z
  <2> HIDE DEF x, y
  <2>3. host * y <= x /\ x < host * y + host
    BY <1>2, <2>2
  <2>4. x \div host = y
    BY <1>2, <2>2, <2>3, QuotientUnique
  <2> QED
    BY <2>4 DEF x, y
<1>9. a \in RouteRange(r) <=> q * b <= a /\ a < q * b + b
  <2>1. q * b \in Nat
    BY <1>2, <1>4
  <2> DEFINE z == q * b
  <2>2. z \in Nat /\ (a \in RouteRange(r) <=> a \in z..(z + b - 1))
    BY <1>5, <1>7, <1>8, <2>1
  <2> HIDE DEF z
  <2>3. a \in RouteRange(r) <=> z <= a /\ a < z + b
    BY <1>2, <1>3, <2>2
  <2> QED
    BY <2>3 DEF z
<1>10. Matches(r, a) <=> q * b <= a /\ a < q * b + b
  <2>1. a * host \in Nat
    BY <1>2, <1>3
  <2>2. (a * host) \div block = q <=> block * q <= a * host /\ a * host < block * q + block
    BY <1>2, <1>4, <2>1, QuotientUnique
  <2> DEFINE z == q * b
  <2>3. z \in Nat /\ block * q = z * host /\ block = b * host
    BY <1>2, <1>4
  <2> HIDE DEF z
  <2>4. block * q <= a * host <=> z <= a
    <3>1. z <= a => z * host <= a * host
      BY <1>2, <1>3, <2>3
    <3>2. a < z => a * host < z * host
      BY <1>2, <1>3, <2>3
    <3> QED
      BY <1>2, <1>3, <2>1, <2>3, <3>1, <3>2
  <2>5. a * host < block * q + block <=> a < z + b
    <3>1. z + b \in Nat /\ block * q + block = (z + b) * host
      BY <1>2, <2>3
    <3>2. a < z + b => a * host < (z + b) * host
      BY <1>2, <1>3, <3>1
    <3>3. z + b <= a => (z + b) * host <= a * host
      BY <1>2, <1>3, <3>1
    <3> QED
      BY <1>2, <1>3, <2>1, <3>1, <3>2, <3>3
  <2> QED
    BY <1>6, <2>2, <2>4, <2>5 DEF z
<1> QED
  BY <1>9, <1>10

(* The shares of the GPU's threads: one after the other, from 0 to count.  *)
LEMMA Shares ==
    ASSUME NEW count \in Nat, count * Threads < IntSize \div 2
    PROVE  /\ Share(count, 0) = 0 /\ Share(count, Threads) = count
           /\ \A t \in 0..Threads : Share(count, t) \in Nat
           /\ \A t, u \in 0..Threads : t <= u => Share(count, t) <= Share(count, u)
<1> DEFINE half == IntSize \div 2
           full == count * Threads
<1>1. half \in Nat /\ half <= IntSize /\ full \in Nat /\ full < half
  BY FibNat
<1>2. ASSUME NEW t \in 0..Threads
      PROVE  /\ count * t \in Nat /\ count * t <= full
             /\ Share(count, t) = (count * t) \div Threads
  <2>1. count * t \in Nat /\ count * t <= full
    BY FibNat
  <2> DEFINE x == count * t
  <2>2. x \in Nat /\ x < half /\ x < IntSize
    <3> HIDE DEF full, half, x
    <3>1. x \in Nat /\ x <= full
      BY <2>1 DEF x
    <3> QED
      BY <1>1, <3>1, FibNat
  <2> HIDE DEF x
  <2>3. x % IntSize = x
    BY <2>2, FibNat
  <2>4. Share(count, t) = x \div Threads
    <3>1. Share(count, t) = IF (x % IntSize) < half THEN (x % IntSize) \div Threads
                            ELSE -((IntSize - (x % IntSize)) \div Threads)
      BY DEF Share, x
    <3> HIDE DEF half
    <3> QED
      BY <2>2, <2>3, <3>1
  <2> QED
    BY <2>1, <2>4 DEF x
<1>3. ASSUME NEW t \in 0..Threads PROVE Share(count, t) \in Nat
  <2> DEFINE x == count * t
  <2>1. x \in Nat /\ Share(count, t) = x \div Threads
    BY <1>2
  <2> HIDE DEF x
  <2> QED
    BY <2>1, FibNat, Quotient
<1>4. ASSUME NEW t \in 0..Threads, NEW u \in 0..Threads, t <= u
      PROVE  Share(count, t) <= Share(count, u)
  <2> DEFINE x == count * t
             y == count * u
  <2>1. x \in Nat /\ y \in Nat /\ x <= y
    BY <1>4, FibNat
  <2>2. Share(count, t) = x \div Threads /\ Share(count, u) = y \div Threads
    BY <1>2
  <2> HIDE DEF x, y
  <2> QED
    BY <2>1, <2>2, FibNat, QuotientMonotone
<1>5. Share(count, 0) = 0
  <2>1. count * 0 = 0 /\ 0 \in 0..Threads /\ 0 \div Threads = 0
    BY FibNat
  <2> QED
    BY <1>2, <2>1
<1>6. Share(count, Threads) = count
  <2>1. Threads \in 0..Threads
    BY FibNat
  <2>2. Share(count, Threads) = full \div Threads
    BY <1>2, <2>1
  <2>3. full = Threads * count /\ Threads * count \in Nat
    BY FibNat
  <2> HIDE DEF full
  <2>4. full \div Threads = count
    BY <1>1, <2>3, FibNat, QuotientUnique
  <2> QED
    BY <2>2, <2>4
<1> QED
  BY <1>3, <1>4, <1>5, <1>6

(* Every position but the first 0 lies in the share of some thread. *)
LEMMA SharesCover ==
    ASSUME NEW count \in Nat, count * Threads < IntSize \div 2, NEW i \in 1..count
    PROVE  \E t \in 0..(Threads - 1) : Share(count, t) < i /\ i <= Share(count, t + 1)
<1> DEFINE S == {t \in Nat : t <= Threads - 1 /\ i <= Share(count, t + 1)}
<1>1. /\ Share(count, 0) = 0 /\ Share(count, Threads) = count
      /\ \A t \in 0..Threads : Share(count, t) \in Nat
  BY Shares
<1>2. Threads - 1 \in S
  <2>1. Threads - 1 \in Nat /\ Threads - 1 + 1 = Threads
    BY FibNat
  <2> QED
    BY <1>1, <2>1
<1>3. PICK t \in S : \A u \in S : t <= u
  BY <1>2, LeastNumber
<1>4. t \in 0..(Threads - 1) /\ i <= Share(count, t + 1)
  BY <1>3, FibNat
<1>5. Share(count, t) < i
  <2>1. CASE t = 0
    BY <1>1, <2>1
  <2>2. CASE t # 0
    <3>1. t - 1 \in Nat /\ t - 1 <= Threads - 1 /\ t - 1 + 1 = t /\ t - 1 \notin S /\ t \in 0..Threads
      BY <1>3, <1>4, <2>2, FibNat
    <3>2. ~(i <= Share(count, t - 1 + 1))
      BY <3>1
    <3>3. ~(i <= Share(count, t)) /\ Share(count, t) \in Nat
      BY <1>1, <3>1, <3>2
    <3> QED
      BY <3>3
  <2> QED
    BY <2>1, <2>2
<1> QED
  BY <1>4, <1>5

-----------------------------------------------------------------------------
(* The inductive invariant.  The table holds the longest match among the   *)
(* routes mapped so far, stated without the CHOOSE of LongestMatch, ...    *)
Routes == [ip: 0..(2^AddrBits - 1), subnet: StoredSubnets, gw: Gateways]
Better(j, k) == fib[j].subnet < fib[k].subnet \/ (fib[j].subnet = fib[k].subnet /\ j <= k)

TableAt(a) ==
    \/ table[a] = 0 /\ \A k \in Mapped : ~Matches(fib[k], a)
    \/ \E k \in Mapped : /\ Matches(fib[k], a) /\ table[a] = fib[k].gw
                         /\ \A j \in Mapped : Matches(fib[j], a) => Better(j, k)

TableInv ==
    /\ fibPc = "stuck" => fib # <<>>
    /\ fibPc \in {"off", "load"} => \A a \in Index : table[a] = 0
    /\ fibPc \in {"map", "host", "gpu", "done"}
         => /\ subnet \in 2..(TableBits + 1) /\ route \in 1..(Len(fib) + 1)
            /\ \A a \in Index : TableAt(a)

(* ... and the GPU's threads have stored what they have passed in their    *)
(* shares, and nothing else.                                               *)
Entry(i) == table[queries[i] \div HostSize]

GpuInv ==
    /\ next \in [0..(Threads - 1) -> Nat]
    /\ \A t \in 0..(Threads - 1) : /\ Share(Len(queries), t) <= next[t]
                                   /\ next[t] <= Share(Len(queries), t + 1)
    /\ \A i \in Positions(queries) :
          /\ stores[i] = 1 <=> \E t \in 0..(Threads - 1) :
                                  Share(Len(queries), t) < i /\ i <= next[t]
          /\ stores[i] = 1 => results[i] = Entry(i)
    /\ fibPc = "done" => \A t \in 0..(Threads - 1) : next[t] >= Share(Len(queries), t + 1)

LookupInv ==
    /\ queries \in Seq(0..(2^AddrBits - 1))
    /\ Len(results) = Len(queries) /\ stores \in [Positions(queries) -> {0, 1}]
    /\ fibPc \in {"host", "gpu", "done"} => Len(queries) * Threads < IntSize \div 2
    /\ fibPc \in {"gpu", "done"} => GpuInv

FibInv == FibTypeOK /\ TableInv /\ LookupInv

LEMMA FibInvInit == FibInit => FibInv
<1> SUFFICES ASSUME FibInit PROVE FibInv
  OBVIOUS
<1>1. FibTypeOK
  BY FibNat DEF FibInit, FibTypeOK
<1>2. TableInv
  BY DEF FibInit, TableInv
<1>3. LookupInv
  BY DEF FibInit, LookupInv, Positions
<1> QED
  BY <1>1, <1>2, <1>3 DEF FibInv

(* A length in a byte is a natural number, and in a byte again the same. *)
LEMMA ByteOf ==
    ASSUME NEW n \in Nat, n > 0, NEW s \in Int
    PROVE  (s % n) \in Nat /\ (s % n) % n = s % n
<1>1. (s % n) \in 0..(n - 1)
  OBVIOUS
<1> DEFINE b == s % n
<1> HIDE DEF b
<1>2. b \in 0..(n - 1) => b \in Nat /\ b % n = b
  OBVIOUS
<1> QED
  BY <1>1, <1>2 DEF b

LEMMA StoredSubnet ==
    ASSUME NEW s \in StoredSubnets
    PROVE  s \in Nat /\ s % ByteSize = s
<1>1. PICK v \in LineSubnets : s = v % ByteSize
  BY DEF StoredSubnets
<1> QED
  BY <1>1, FibNat, ByteOf

LEMMA RouteTyped == ASSUME NEW r \in Routes
                    PROVE  r.ip \in 0..(2^AddrBits - 1) /\ r.subnet \in Nat /\ r.gw \in Gateways
  BY StoredSubnet DEF Routes

(* A route that is stored has its types, or the array is overrun. *)
LEMMA RouteStored ==
    ASSUME fib \in Seq(Routes), Len(fib) <= MaxRoutes, NEW line, NEW gw \in Gateways, NEW then,
           line.ip \in 0..(2^AddrBits - 1), line.subnet % ByteSize \in StoredSubnets,
           StoreRoute(line, gw, then)
    PROVE  /\ fib' \in Seq(Routes) /\ Len(fib') <= MaxRoutes
           /\ (fibPc' = then /\ fib' # <<>>) \/ fibPc' = "overrun"
<1> DEFINE r == [ip |-> line.ip, subnet |-> line.subnet % ByteSize, gw |-> gw]
<1>1. r \in Routes
  BY DEF Routes
<1>2. CASE Len(fib) < MaxRoutes
  <2>1. fib' = Append(fib, r) /\ fibPc' = then
    BY <1>2 DEF StoreRoute
  <2> HIDE DEF r
  <2> QED
    BY <1>1, <1>2, <2>1, FibNat
<1>3. CASE ~(Len(fib) < MaxRoutes)
  BY <1>3 DEF StoreRoute
<1> QED
  BY <1>2, <1>3

LEMMA LineAccepted ==
    ASSUME NEW line \in Line, ~Refused(line)
    PROVE  line.ip \in 0..(2^AddrBits - 1) /\ line.subnet % ByteSize \in StoredSubnets
<1>1. line.subnet \in LineSubnets /\ line.subnet \in Int /\ TableBits \in Int
  <2>1. line.subnet \in LineSubnets
    BY DEF Line
  <2>2. LineSubnets \subseteq Int /\ TableBits \in Int
    BY FibNat
  <2> QED
    BY <2>1, <2>2
<1>2. line.subnet <= TableBits
  <2> DEFINE v == line.subnet
  <2>1. ~(v > TableBits)
    BY DEF Refused
  <2> HIDE DEF v
  <2>2. v \in Int => v <= TableBits
    BY <1>1, <2>1
  <2> QED
    BY <1>1, <2>2 DEF v
<1> QED
  BY <1>1, <1>2 DEF Refused, StoredSubnets

(* Reading the list: what each of its three ways to store a route keeps. *)
LEMMA LineLoaded ==
    ASSUME FibInv, LoadLine \/ LoadBadLine \/ LoadAgain
    PROVE  /\ fib' \in Seq(Routes) /\ Len(fib') <= MaxRoutes
           /\ UNCHANGED <<subnet, route, table, queries, next, results, stores>>
           /\ \/ LoadLine /\ fibPc' = "load"
              \/ fibPc' = "stuck" /\ fib' # <<>>
              \/ fibPc' \in {"spin", "overrun"}
<1>1. fib \in Seq(Routes) /\ Len(fib) <= MaxRoutes
  BY DEF FibInv, FibTypeOK, Routes
<1>2. CASE LoadLine
  <2>1. PICK line \in Line, gw \in Gateways : ~Refused(line) /\ StoreRoute(line, gw, "load")
    BY <1>2 DEF LoadLine
  <2>2. /\ fib' \in Seq(Routes) /\ Len(fib') <= MaxRoutes
        /\ fibPc' = "load" \/ fibPc' = "overrun"
    BY <1>1, <2>1, LineAccepted, RouteStored
  <2> QED
    BY <1>2, <2>2 DEF LoadLine
<1>3. CASE LoadBadLine
  <2>1. PICK line \in Line, gw \in Gateways :
           IF Refused(line) THEN fibPc' = "spin" /\ UNCHANGED fib
                            ELSE StoreRoute(line, gw, "stuck")
    BY <1>3 DEF LoadBadLine
  <2>2. UNCHANGED <<subnet, route, table, queries, next, results, stores>>
    BY <1>3 DEF LoadBadLine
  <2>3. CASE Refused(line)
    BY <1>1, <2>1, <2>2, <2>3
  <2>4. CASE ~Refused(line)
    <3>1. /\ fib' \in Seq(Routes) /\ Len(fib') <= MaxRoutes
          /\ (fibPc' = "stuck" /\ fib' # <<>>) \/ fibPc' = "overrun"
      BY <1>1, <2>1, <2>4, LineAccepted, RouteStored
    <3> QED
      BY <2>2, <3>1
  <2> QED
    BY <2>3, <2>4
<1>4. CASE LoadAgain
  <2>1. fib # <<>> /\ UNCHANGED <<subnet, route, table, queries, next, results, stores>>
    BY <1>4 DEF LoadAgain, FibInv, TableInv
  <2>2. PICK gw \in Gateways : StoreRoute(fib[Len(fib)], gw, "stuck")
    BY <1>4 DEF LoadAgain
  <2>3. fib[Len(fib)] \in Routes
    BY <1>1, <2>1
  <2>4. fib[Len(fib)].subnet \in StoredSubnets /\ fib[Len(fib)].ip \in 0..(2^AddrBits - 1)
    BY <2>3 DEF Routes
  <2>5. fib[Len(fib)].subnet % ByteSize \in StoredSubnets
    BY <2>4, StoredSubnet
  <2>6. /\ fib' \in Seq(Routes) /\ Len(fib') <= MaxRoutes
        /\ (fibPc' = "stuck" /\ fib' # <<>>) \/ fibPc' = "overrun"
    BY <1>1, <2>2, <2>4, <2>5, RouteStored
  <2> QED
    BY <2>1, <2>6
<1> QED
  BY <1>2, <1>3, <1>4

(* The entry that an address is looked up in is one of the table. *)
LEMMA AddressIndex ==
    ASSUME NEW q \in 0..(2^AddrBits - 1)
    PROVE  q \div HostSize \in Index
<1> DEFINE n == 2^TableBits
           full == 2^AddrBits
<1>1. full = HostSize * n /\ HostSize \in Nat \ {0} /\ n \in Nat \ {0} /\ full \in Nat
  <2>1. 0 \in 0..TableBits /\ TableBits - 0 = TableBits /\ AddrBits - 0 = AddrBits
    BY FibNat
  <2>2. 2^(AddrBits - 0) = HostSize * 2^(TableBits - 0) /\ HostSize \in Nat \ {0}
        /\ 2^(TableBits - 0) \in Nat \ {0} /\ 2^(AddrBits - 0) \in Nat \ {0}
    BY <2>1, BlockSize
  <2> QED
    BY <2>1, <2>2
<1>2. q \in 0..(full - 1)
  OBVIOUS
<1> DEFINE d == q \div HostSize
<1> HIDE DEF n, full
<1>3. q \in Nat /\ q < full
  BY <1>1, <1>2
<1>4. d \in Nat /\ HostSize * d <= q
  BY <1>1, <1>3, Quotient
<1> HIDE DEF d
<1>5. HostSize * d < HostSize * n
  <2>1. HostSize * d \in Nat
    BY <1>1, <1>4
  <2> QED
    BY <1>1, <1>3, <1>4, <2>1
<1>6. d < n
  BY <1>1, <1>4, <1>5
<1>7. d \in 0..(n - 1)
  BY <1>1, <1>4, <1>6
<1> QED
  BY <1>7 DEF Index, d, n

(* Storing a result keeps the types of the arrays. *)
LEMMA StoreTyped ==
    ASSUME FibInv, NEW i \in Positions(queries), Store(i), stores[i] = 0
    PROVE  /\ results' \in Seq(Gateways \union {-1}) /\ Len(results') = Len(queries)
           /\ stores' \in [Positions(queries) -> {0, 1}] /\ stores'[i] = 1
           /\ results'[i] = Entry(i)
           /\ \A j \in Positions(queries) : j # i => stores'[j] = stores[j] /\ results'[j] = results[j]
<1>1. /\ results \in Seq(Gateways \union {-1}) /\ Len(results) = Len(queries)
      /\ stores \in [Positions(queries) -> {0, 1}] /\ queries \in Seq(0..(2^AddrBits - 1))
      /\ table \in [Index -> Gateways] /\ i \in 1..Len(queries)
  BY DEF FibInv, FibTypeOK, LookupInv, Positions
<1>2. Entry(i) \in Gateways
  <2>1. queries[i] \in 0..(2^AddrBits - 1)
    BY <1>1, ElementOfSeq
  <2>2. queries[i] \div HostSize \in Index
    BY <2>1, AddressIndex
  <2> QED
    BY <1>1, <2>2 DEF Entry
<1>3. /\ results' = [results EXCEPT ![i] = Entry(i)]
      /\ stores' = [stores EXCEPT ![i] = @ + 1]
  BY DEF Store, Entry
<1> DEFINE e == Entry(i)
<1> HIDE DEF e
<1>4. /\ results' \in Seq(Gateways \union {-1}) /\ Len(results') = Len(queries)
      /\ results'[i] = e /\ \A j \in 1..Len(queries) : j # i => results'[j] = results[j]
  BY <1>1, <1>2, <1>3 DEF e
<1>5. /\ stores' \in [Positions(queries) -> {0, 1}] /\ stores'[i] = 1
      /\ \A j \in Positions(queries) : j # i => stores'[j] = stores[j]
  BY <1>1, <1>3
<1> QED
  BY <1>4, <1>5 DEF e, Positions

(* A thread stores into a position of the array that has nothing yet. *)
LEMMA GpuPosition ==
    ASSUME FibInv, NEW t \in 0..(Threads - 1), GpuLookup(t)
    PROVE  /\ next[t] + 1 \in Positions(queries) /\ stores[next[t] + 1] = 0
           /\ Store(next[t] + 1)
<1> DEFINE L == Len(queries)
           i == next[t] + 1
<1>1. /\ fibPc = "gpu" /\ next[t] < Share(L, t + 1) /\ Store(i)
  BY DEF GpuLookup
<1>2. GpuInv /\ L \in Nat /\ L * Threads < IntSize \div 2 /\ stores \in [Positions(queries) -> {0, 1}]
  BY <1>1 DEF FibInv, LookupInv
<1>3. /\ next \in [0..(Threads - 1) -> Nat]
      /\ \A u \in 0..(Threads - 1) : Share(L, u) <= next[u] /\ next[u] <= Share(L, u + 1)
      /\ \A j \in Positions(queries) :
            stores[j] = 1 <=> \E u \in 0..(Threads - 1) : Share(L, u) < j /\ j <= next[u]
  BY <1>2 DEF GpuInv
<1>4. /\ Share(L, Threads) = L
      /\ \A u \in 0..Threads : Share(L, u) \in Nat
      /\ \A u, v \in 0..Threads : u <= v => Share(L, u) <= Share(L, v)
  BY <1>2, Shares
<1> HIDE DEF L
<1>5. next[t] \in Nat /\ t \in 0..Threads /\ t + 1 \in 0..Threads /\ Threads \in 0..Threads
      /\ t + 1 <= Threads
  BY <1>3, FibNat
<1>6. Share(L, t + 1) <= L /\ Share(L, t + 1) \in Nat
  BY <1>4, <1>5
<1>7. i \in 1..L
  BY <1>1, <1>2, <1>5, <1>6
<1>8. i \in Positions(queries)
  BY <1>7 DEF Positions, L
<1>9. ASSUME NEW u \in 0..(Threads - 1), Share(L, u) < i, i <= next[u] PROVE FALSE
  <2>1. u \in 0..Threads /\ u + 1 \in 0..Threads /\ next[u] \in Nat
    BY <1>3, FibNat
  <2>2. CASE u = t
    BY <1>5, <1>9, <2>2
  <2>3. CASE u < t
    <3>1. Share(L, u + 1) <= Share(L, t)
      BY <1>4, <1>5, <2>1, <2>3
    <3>2. next[u] <= Share(L, u + 1) /\ Share(L, t) <= next[t]
          /\ Share(L, u + 1) \in Nat /\ Share(L, t) \in Nat
      BY <1>3, <1>4, <1>5, <2>1
    <3> QED
      BY <1>5, <1>9, <2>1, <3>1, <3>2
  <2>4. CASE t < u
    <3>1. Share(L, t + 1) <= Share(L, u) /\ Share(L, u) \in Nat
      BY <1>4, <1>5, <2>1, <2>4
    <3> QED
      BY <1>1, <1>5, <1>6, <1>9, <3>1
  <2> QED
    BY <2>2, <2>3, <2>4, <2>1, <1>5
<1>10. stores[i] # 1 /\ stores[i] \in {0, 1}
  BY <1>2, <1>3, <1>8, <1>9
<1> QED
  BY <1>1, <1>8, <1>10

-----------------------------------------------------------------------------
(* Types. *)
LEMMA FibTypeStep == FibInv /\ FibNext => FibTypeOK'
<1> SUFFICES ASSUME FibInv, FibNext PROVE FibTypeOK'
  OBVIOUS
<1>1. /\ fibPc \in {"off", "load", "stuck", "spin", "map", "host", "gpu", "done", "overrun"}
      /\ fib \in Seq(Routes) /\ Len(fib) <= MaxRoutes
      /\ subnet \in 0..(TableBits + 1) /\ route \in 0..(MaxRoutes + 1)
      /\ table \in [Index -> Gateways] /\ results \in Seq(Gateways \union {-1})
  BY DEF FibInv, FibTypeOK, Routes
<1> DEFINE Goal == /\ fibPc' \in {"off", "load", "stuck", "spin", "map", "host", "gpu", "done", "overrun"}
                   /\ fib' \in Seq(Routes) /\ Len(fib') <= MaxRoutes
                   /\ subnet' \in 0..(TableBits + 1) /\ route' \in 0..(MaxRoutes + 1)
                   /\ table' \in [Index -> Gateways] /\ results' \in Seq(Gateways \union {-1})
<1> SUFFICES Goal
  BY DEF FibTypeOK, Routes
<1>2. CASE FibStart
  BY <1>1, <1>2 DEF FibStart
<1>3. CASE LoadLine
  BY <1>1, <1>3, LineLoaded DEF LoadLine
<1>4. CASE LoadBadLine
  BY <1>1, <1>4, LineLoaded DEF LoadBadLine
<1>5. CASE LoadAgain
  BY <1>1, <1>5, LineLoaded DEF LoadAgain
<1>6. CASE LoadEof
  BY <1>1, <1>6, FibNat DEF LoadEof
<1>7. CASE MapRoute
  <2>1. /\ UNCHANGED <<fibPc, fib, subnet, results>> /\ route' = route + 1 /\ route <= Len(fib)
        /\ table' = [a \in Index |->
              IF fib[route].subnet = subnet /\ a \in RouteRange(fib[route])
              THEN fib[route].gw ELSE table[a]]
        /\ fibPc = "map"
    BY <1>7 DEF MapRoute
  <2>2. route \in 1..Len(fib)
    BY <1>1, <2>1 DEF FibInv, TableInv
  <2>3. fib[route] \in Routes
    BY <1>1, <2>2, ElementOfSeq
  <2>4. fib[route].gw \in Gateways
    BY <2>3, RouteTyped
  <2>5. table' \in [Index -> Gateways]
    BY <1>1, <2>1, <2>4
  <2> QED
    BY <1>1, <2>1, <2>2, <2>5, FibNat
<1>8. CASE MapNextLength
  BY <1>1, <1>8, FibNat DEF MapNextLength
<1>9. CASE HostStart
  <2>1. PICK w \in Workloads : results' = [i \in Positions(w) |-> -1]
    BY <1>9 DEF HostStart
  <2>2. results' \in Seq(Gateways \union {-1})
    <3>1. Len(w) \in Nat
      BY FibAssumption
    <3> QED
      BY <2>1, <3>1 DEF Positions
  <2> QED
    BY <1>1, <1>9, <2>2 DEF HostStart
<1>10. CASE HostLookup
  <2>1. PICK i \in Positions(queries) : stores[i] = 0 /\ Store(i)
    BY <1>10 DEF HostLookup
  <2>2. results' \in Seq(Gateways \union {-1})
    BY <2>1, StoreTyped
  <2> QED
    BY <1>1, <1>10, <2>2 DEF HostLookup
<1>11. CASE GpuStart
  <2>1. results' \in Seq(Gateways \union {-1})
    <3>1. Len(queries) \in Nat /\ results' = [i \in 1..Len(queries) |-> 0]
      BY <1>11 DEF GpuStart, FibInv, LookupInv, Positions
    <3> QED
      BY <3>1, FibNat
  <2> QED
    BY <1>1, <1>11, <2>1 DEF GpuStart
<1>12. CASE GpuEnd
  BY <1>1, <1>12 DEF GpuEnd
<1>13. ASSUME NEW t \in 0..(Threads - 1), GpuLookup(t) PROVE Goal
  <2>1. results' \in Seq(Gateways \union {-1})
    BY <1>13, GpuPosition, StoreTyped
  <2> QED
    BY <1>1, <1>13, <2>1 DEF GpuLookup
<1> HIDE DEF Goal
<1> QED
  BY <1>2, <1>3, <1>4, <1>5, <1>6, <1>7, <1>8, <1>9, <1>10, <1>11, <1>12, <1>13 DEF FibNext

-----------------------------------------------------------------------------
(* The table.  A turn of the inner loop maps the route at hand, which is   *)
(* better than all those mapped before it.                                 *)
LEMMA MappedRoute ==
    ASSUME FibInv, MapRoute
    PROVE  /\ route \in 1..Len(fib) /\ fib[route] \in Routes
           /\ fib[route].subnet # subnet => Mapped' = Mapped
           /\ fib[route].subnet = subnet => /\ Mapped' = Mapped \union {route}
                                            /\ \A j \in Mapped : Better(j, route)
<1>1. /\ fib \in Seq(Routes) /\ fibPc = "map" /\ route <= Len(fib) /\ route' = route + 1
      /\ UNCHANGED <<fib, subnet>>
  BY DEF FibInv, FibTypeOK, Routes, MapRoute
<1>2. subnet \in Nat /\ subnet >= 2 /\ route \in 1..Len(fib)
  BY <1>1, FibNat DEF FibInv, TableInv
<1>3. \A k \in 1..Len(fib) : fib[k] \in Routes
  BY <1>1, ElementOfSeq
<1>4. \A k \in 1..Len(fib) : fib[k].subnet \in Nat
  BY <1>3, RouteTyped
<1>5. ASSUME NEW k PROVE k \in Mapped' <=> k \in Mapped \/ (k = route /\ fib[route].subnet = subnet)
  <2>1. k \in Mapped <=> /\ k \in 1..Len(fib) /\ fib[k].subnet >= 2
                         /\ fib[k].subnet < subnet \/ (fib[k].subnet = subnet /\ k < route)
    BY DEF Mapped
  <2>2. k \in Mapped' <=> /\ k \in 1..Len(fib) /\ fib[k].subnet >= 2
                          /\ fib[k].subnet < subnet \/ (fib[k].subnet = subnet /\ k < route + 1)
    BY <1>1 DEF Mapped
  <2>3. k \in 1..Len(fib) => (k < route + 1 <=> k < route \/ k = route)
    BY <1>2
  <2> QED
    BY <1>2, <1>4, <2>1, <2>2, <2>3
<1>6. ASSUME fib[route].subnet = subnet, NEW j \in Mapped PROVE Better(j, route)
  <2>1. j \in 1..Len(fib) /\ (fib[j].subnet < subnet \/ (fib[j].subnet = subnet /\ j < route))
    BY DEF Mapped
  <2>2. j < route => j <= route
    BY <1>2, <2>1
  <2> QED
    BY <1>6, <2>1, <2>2 DEF Better
<1> QED
  BY <1>2, <1>3, <1>5, <1>6

LEMMA MapRouteStep ==
    ASSUME FibInv, MapRoute, NEW a \in Index
    PROVE  TableAt(a)'
<1>1. /\ fib' = fib /\ fibPc = "map"
      /\ table' = [b \in Index |->
             IF fib[route].subnet = subnet /\ b \in RouteRange(fib[route])
             THEN fib[route].gw ELSE table[b]]
  BY DEF MapRoute
<1>2. TableAt(a)
  BY <1>1 DEF FibInv, TableInv
<1>3. /\ route \in 1..Len(fib) /\ fib[route] \in Routes
      /\ fib[route].subnet # subnet => Mapped' = Mapped
      /\ fib[route].subnet = subnet => /\ Mapped' = Mapped \union {route}
                                       /\ \A j \in Mapped : Better(j, route)
  BY MappedRoute
<1>4. fib[route].subnet = subnet => (a \in RouteRange(fib[route]) <=> Matches(fib[route], a))
  <2>1. subnet \in 0..TableBits
    <3>1. subnet \in 2..(TableBits + 1) /\ subnet <= TableBits
      BY <1>1 DEF MapRoute, FibInv, TableInv
    <3> QED
      BY <3>1, FibNat
  <2>2. fib[route].subnet = subnet
          => fib[route] \in [ip: 0..(2^AddrBits - 1), subnet: 0..TableBits, gw: Gateways]
    BY <1>3, <2>1 DEF Routes
  <2> QED
    BY <2>2, RangeIsMatch
<1> DEFINE M(k) == Matches(fib[k], a)
           B(j, k) == Better(j, k)
<1>5. TableAt(a) <=>
        \/ table[a] = 0 /\ \A k \in Mapped : ~M(k)
        \/ \E k \in Mapped : M(k) /\ table[a] = fib[k].gw /\ \A j \in Mapped : M(j) => B(j, k)
  BY DEF TableAt
<1>6. TableAt(a)' <=>
        \/ table'[a] = 0 /\ \A k \in Mapped' : ~M(k)
        \/ \E k \in Mapped' : M(k) /\ table'[a] = fib[k].gw /\ \A j \in Mapped' : M(j) => B(j, k)
  BY <1>1 DEF TableAt, Matches, Better
<1>7. B(route, route)
  <2>1. route <= route
    BY <1>3
  <2> QED
    BY <2>1 DEF Better
<1> HIDE DEF M, B
<1>8. CASE fib[route].subnet # subnet
  <2>1. table'[a] = table[a] /\ Mapped' = Mapped
    BY <1>1, <1>3, <1>8
  <2> QED
    BY <1>2, <1>5, <1>6, <2>1
<1>9. CASE fib[route].subnet = subnet /\ ~M(route)
  <2>1. table'[a] = table[a] /\ Mapped' = Mapped \union {route}
    BY <1>1, <1>3, <1>4, <1>9 DEF M
  <2>2. CASE table[a] = 0 /\ \A k \in Mapped : ~M(k)
    BY <1>6, <1>9, <2>1, <2>2
  <2>3. CASE \E k \in Mapped : M(k) /\ table[a] = fib[k].gw /\ \A j \in Mapped : M(j) => B(j, k)
    BY <1>6, <1>9, <2>1, <2>3
  <2> QED
    BY <1>2, <1>5, <2>2, <2>3
<1>10. CASE fib[route].subnet = subnet /\ M(route)
  <2>1. table'[a] = fib[route].gw /\ Mapped' = Mapped \union {route}
    BY <1>1, <1>3, <1>4, <1>10 DEF M
  <2>2. \A j \in Mapped' : B(j, route)
    BY <1>3, <1>7, <1>10, <2>1 DEF B
  <2> QED
    BY <1>6, <1>10, <2>1, <2>2
<1> QED
  BY <1>8, <1>9, <1>10

LEMMA TableInvStep == FibInv /\ FibNext => TableInv'
<1> SUFFICES ASSUME FibInv, FibNext PROVE TableInv'
  OBVIOUS
<1>1. /\ fib \in Seq(Routes) /\ subnet \in 0..(TableBits + 1) /\ route \in 0..(MaxRoutes + 1)
      /\ Len(fib) \in Nat
  BY DEF FibInv, FibTypeOK, Routes
<1>2. /\ fibPc = "stuck" => fib # <<>>
      /\ fibPc \in {"off", "load"} => \A a \in Index : table[a] = 0
      /\ fibPc \in {"map", "host", "gpu", "done"}
           => /\ subnet \in 2..(TableBits + 1) /\ route \in 1..(Len(fib) + 1)
              /\ \A a \in Index : TableAt(a)
  BY DEF FibInv, TableInv
<1>3. ASSUME UNCHANGED <<fib, table, subnet, route>>
      PROVE  \A a \in Index : TableAt(a) => TableAt(a)'
  BY <1>3 DEF TableAt, Mapped, Matches, Better
<1>4. CASE FibStart
  BY <1>2, <1>4 DEF FibStart, TableInv
<1>5. CASE LoadLine
  <2>1. fibPc = "load" /\ table' = table /\ fibPc' \in {"load", "overrun"}
    BY <1>5, LineLoaded DEF LoadLine, StoreRoute
  <2> QED
    BY <1>2, <2>1 DEF TableInv
<1>6. CASE LoadBadLine
  <2>1. (fibPc' = "stuck" /\ fib' # <<>>) \/ fibPc' \in {"spin", "overrun"}
    BY <1>6, LineLoaded DEF LoadBadLine, StoreRoute
  <2> QED
    BY <2>1 DEF TableInv
<1>7. CASE LoadAgain
  <2>1. (fibPc' = "stuck" /\ fib' # <<>>) \/ fibPc' \in {"spin", "overrun"}
    BY <1>7, LineLoaded DEF LoadAgain, StoreRoute
  <2> QED
    BY <2>1 DEF TableInv
<1>8. CASE LoadEof
  <2>1. /\ fibPc' = "map" /\ subnet' = 2 /\ route' = 1 /\ UNCHANGED <<fib, table>>
        /\ \A a \in Index : table[a] = 0
    BY <1>2, <1>8 DEF LoadEof
  <2>2. Mapped' = {}
    <3>1. \A k \in 1..Len(fib) : fib[k] \in Routes
      BY <1>1, ElementOfSeq
    <3>2. \A k \in 1..Len(fib) : fib[k].subnet \in Nat
      BY <3>1, RouteTyped
    <3> QED
      BY <2>1, <3>2 DEF Mapped
  <2>3. \A a \in Index : TableAt(a)'
    BY <2>1, <2>2 DEF TableAt
  <2> QED
    BY <1>1, <2>1, <2>3, FibNat DEF TableInv
<1>9. CASE MapRoute
  <2>1. /\ fibPc = "map" /\ UNCHANGED <<fibPc, fib, subnet>> /\ route' = route + 1 /\ route <= Len(fib)
    BY <1>9 DEF MapRoute
  <2>2. \A a \in Index : TableAt(a)'
    BY <1>9, MapRouteStep
  <2>3. subnet' \in 2..(TableBits + 1) /\ route' \in 1..(Len(fib') + 1)
    BY <1>1, <1>2, <2>1
  <2> QED
    BY <2>1, <2>2, <2>3 DEF TableInv
<1>10. CASE MapNextLength
  <2>1. /\ fibPc = "map" /\ UNCHANGED <<fibPc, fib, table>> /\ subnet' = subnet + 1 /\ route' = 1
        /\ subnet <= TableBits /\ route > Len(fib)
    BY <1>10 DEF MapNextLength
  <2>2. Mapped' = Mapped
    <3>1. \A k \in 1..Len(fib) : fib[k] \in Routes
      BY <1>1, ElementOfSeq
    <3>2. \A k \in 1..Len(fib) : fib[k].subnet \in Nat
      BY <3>1, RouteTyped
    <3>3. ASSUME NEW k \in 1..Len(fib)
          PROVE  fib[k].subnet < subnet \/ (fib[k].subnet = subnet /\ k < route)
                 <=> fib[k].subnet < subnet + 1 \/ (fib[k].subnet = subnet + 1 /\ k < 1)
      <4>1. fib[k].subnet \in Nat /\ subnet \in Nat /\ k < route /\ ~(k < 1)
        BY <1>1, <2>1, <3>2, FibNat
      <4> DEFINE s == fib[k].subnet
      <4> HIDE DEF s
      <4>2. s \in Nat
        BY <4>1 DEF s
      <4>3. s < subnet \/ (s = subnet /\ k < route) <=> s < subnet + 1 \/ (s = subnet + 1 /\ k < 1)
        BY <4>1, <4>2
      <4> QED
        BY <4>3 DEF s
    <3> QED
      BY <2>1, <3>3 DEF Mapped
  <2>3. \A a \in Index : TableAt(a) => TableAt(a)'
    BY <2>1, <2>2 DEF TableAt, Matches, Better
  <2>4. subnet' \in 2..(TableBits + 1) /\ route' \in 1..(Len(fib') + 1)
    BY <1>1, <1>2, <2>1, FibNat
  <2> QED
    BY <1>2, <2>1, <2>3, <2>4 DEF TableInv
<1>11. ASSUME UNCHANGED <<fib, table, subnet, route>>, fibPc \in {"map", "host", "gpu"},
              fibPc' \in {"host", "gpu", "done"}
       PROVE  TableInv'
  BY <1>2, <1>3, <1>11 DEF TableInv
<1>12. CASE HostStart
  BY <1>11, <1>12 DEF HostStart
<1>13. CASE HostLookup
  BY <1>11, <1>13 DEF HostLookup
<1>14. CASE GpuStart
  BY <1>11, <1>14 DEF GpuStart
<1>15. CASE GpuEnd
  BY <1>11, <1>15 DEF GpuEnd
<1>16. ASSUME NEW t \in 0..(Threads - 1), GpuLookup(t) PROVE TableInv'
  BY <1>11, <1>16 DEF GpuLookup
<1> QED
  BY <1>4, <1>5, <1>6, <1>7, <1>8, <1>9, <1>10, <1>12, <1>13, <1>14, <1>15, <1>16 DEF FibNext

-----------------------------------------------------------------------------
(* The lookups. *)
LEMMA GpuStartStep == FibInv /\ GpuStart => GpuInv'
<1> SUFFICES ASSUME FibInv, GpuStart PROVE GpuInv'
  OBVIOUS
<1> DEFINE L == Len(queries)
<1>1. /\ fibPc = "host" /\ fibPc' = "gpu" /\ queries' = queries
      /\ next' = [t \in 0..(Threads - 1) |-> Share(L, t)]
      /\ stores' = [i \in Positions(queries) |-> 0]
  BY DEF GpuStart
<1>2. L \in Nat /\ L * Threads < IntSize \div 2
  BY <1>1 DEF FibInv, LookupInv
<1>3. /\ \A u \in 0..Threads : Share(L, u) \in Nat
      /\ \A u, v \in 0..Threads : u <= v => Share(L, u) <= Share(L, v)
  BY <1>2, Shares
<1>4. Len(queries') = L /\ Positions(queries') = Positions(queries)
  BY <1>1 DEF Positions
<1>5. ASSUME NEW t \in 0..(Threads - 1)
      PROVE  /\ t \in 0..Threads /\ t + 1 \in 0..Threads
             /\ Share(L, t) \in Nat /\ Share(L, t) <= Share(L, t)
             /\ Share(L, t) <= Share(L, t + 1)
  <2>1. t \in 0..Threads /\ t + 1 \in 0..Threads /\ t <= t + 1
    BY FibNat
  <2> HIDE DEF L
  <2>2. Share(L, t) \in Nat /\ Share(L, t) <= Share(L, t + 1)
    BY <1>3, <2>1
  <2> QED
    BY <2>1, <2>2
<1> HIDE DEF L
<1>6. next' \in [0..(Threads - 1) -> Nat]
  BY <1>1, <1>5
<1>7. \A t \in 0..(Threads - 1) : Share(L, t) <= next'[t] /\ next'[t] <= Share(L, t + 1)
  BY <1>1, <1>5
<1>8. ASSUME NEW i \in Positions(queries)
      PROVE  stores'[i] # 1 /\ \A t \in 0..(Threads - 1) : ~(Share(L, t) < i /\ i <= next'[t])
  <2>1. i \in Nat
    BY <1>2 DEF Positions, L
  <2> QED
    BY <1>1, <1>5, <2>1
<1> QED
  BY <1>1, <1>4, <1>6, <1>7, <1>8 DEF GpuInv

LEMMA GpuLookupStep ==
    ASSUME FibInv, NEW t \in 0..(Threads - 1), GpuLookup(t)
    PROVE  GpuInv'
<1> DEFINE L == Len(queries)
           i == next[t] + 1
<1>1. /\ fibPc = "gpu" /\ fibPc' = "gpu" /\ queries' = queries /\ table' = table
      /\ next[t] < Share(L, t + 1) /\ next' = [next EXCEPT ![t] = i]
  BY DEF GpuLookup
<1>2. GpuInv /\ L \in Nat /\ L * Threads < IntSize \div 2
  BY <1>1 DEF FibInv, LookupInv
<1>3. /\ next \in [0..(Threads - 1) -> Nat]
      /\ \A u \in 0..(Threads - 1) : Share(L, u) <= next[u] /\ next[u] <= Share(L, u + 1)
      /\ \A j \in Positions(queries) :
            /\ stores[j] = 1 <=> \E u \in 0..(Threads - 1) : Share(L, u) < j /\ j <= next[u]
            /\ stores[j] = 1 => results[j] = Entry(j)
  BY <1>2 DEF GpuInv
<1>4. \A u \in 0..Threads : Share(L, u) \in Nat
  BY <1>2, Shares
<1>5. i \in Positions(queries) /\ stores[i] = 0 /\ Store(i)
  BY GpuPosition
<1>6. /\ stores'[i] = 1 /\ results'[i] = Entry(i)
      /\ \A j \in Positions(queries) : j # i => stores'[j] = stores[j] /\ results'[j] = results[j]
  <2> HIDE DEF i
  <2> QED
    BY <1>5, StoreTyped
<1>7. Len(queries') = L /\ Positions(queries') = Positions(queries)
      /\ \A j \in Positions(queries) : Entry(j)' = Entry(j) /\ j \in Nat
  BY <1>1, <1>2 DEF Positions, Entry
<1>8. ASSUME NEW u \in 0..(Threads - 1)
      PROVE  /\ u \in 0..Threads /\ u + 1 \in 0..Threads /\ Share(L, u) \in Nat
             /\ Share(L, u + 1) \in Nat /\ next[u] \in Nat
             /\ next'[u] = IF u = t THEN i ELSE next[u]
  <2>1. u \in 0..Threads /\ u + 1 \in 0..Threads
    BY FibNat
  <2> HIDE DEF L, i
  <2> QED
    BY <1>1, <1>3, <1>4, <2>1
<1> HIDE DEF L
<1>9. next' \in [0..(Threads - 1) -> Nat]
  BY <1>1, <1>3
<1>10. ASSUME NEW u \in 0..(Threads - 1)
       PROVE  Share(L, u) <= next'[u] /\ next'[u] <= Share(L, u + 1)
  <2>1. Share(L, u) <= next[u] /\ next[u] <= Share(L, u + 1)
    BY <1>3
  <2>2. CASE u = t
    BY <1>1, <1>8, <2>1, <2>2
  <2>3. CASE u # t
    BY <1>8, <2>1, <2>3
  <2> QED
    BY <2>2, <2>3
<1>11. ASSUME NEW j \in Positions(queries)
       PROVE  /\ stores'[j] = 1 <=> \E u \in 0..(Threads - 1) : Share(L, u) < j /\ j <= next'[u]
              /\ stores'[j] = 1 => results'[j] = Entry(j)
  <2>1. CASE j = i
    <3>1. Share(L, t) < i /\ i <= next'[t]
      BY <1>3, <1>8
    <3> QED
      BY <1>6, <2>1, <3>1
  <2>2. CASE j # i
    <3>1. \A u \in 0..(Threads - 1) : j <= next'[u] <=> j <= next[u]
      <4> SUFFICES ASSUME NEW u \in 0..(Threads - 1) PROVE j <= next'[u] <=> j <= next[u]
        OBVIOUS
      <4>1. next[u] \in Nat /\ j \in Nat /\ next'[u] = IF u = t THEN i ELSE next[u]
        BY <1>7, <1>8
      <4>2. CASE u = t
        BY <2>2, <4>1, <4>2
      <4>3. CASE u # t
        BY <4>1, <4>3
      <4> QED
        BY <4>2, <4>3
    <3>2. stores'[j] = stores[j] /\ results'[j] = results[j]
      BY <1>6, <2>2
    <3> HIDE DEF i
    <3> QED
      BY <1>3, <3>1, <3>2
  <2> QED
    BY <2>1, <2>2
<1> HIDE DEF i
<1> QED
  BY <1>1, <1>7, <1>9, <1>10, <1>11 DEF GpuInv

LEMMA LookupInvStep == FibInv /\ FibNext => LookupInv'
<1> SUFFICES ASSUME FibInv, FibNext PROVE LookupInv'
  OBVIOUS
<1>1. /\ queries \in Seq(0..(2^AddrBits - 1))
      /\ Len(results) = Len(queries) /\ stores \in [Positions(queries) -> {0, 1}]
      /\ fibPc \in {"host", "gpu", "done"} => Len(queries) * Threads < IntSize \div 2
      /\ fibPc \in {"gpu", "done"} => GpuInv
  BY DEF FibInv, LookupInv
<1>2. ASSUME UNCHANGED <<queries, results, stores>>, fibPc' \notin {"host", "gpu", "done"}
      PROVE  LookupInv'
  BY <1>1, <1>2 DEF LookupInv, Positions
<1>3. CASE FibStart
  BY <1>2, <1>3 DEF FibStart
<1>4. CASE LoadLine \/ LoadBadLine \/ LoadAgain
  <2>1. fibPc' \in {"load", "spin", "stuck", "overrun"} /\ UNCHANGED <<queries, results, stores>>
    BY <1>4, LineLoaded
  <2> QED
    BY <1>2, <2>1
<1>7. CASE LoadEof
  BY <1>2, <1>7 DEF LoadEof
<1>8. CASE MapRoute
  BY <1>2, <1>8 DEF MapRoute
<1>9. CASE MapNextLength
  BY <1>2, <1>9 DEF MapNextLength
<1>10. CASE HostStart
  <2>1. PICK w \in Workloads : /\ queries' = w
                               /\ results' = [i \in Positions(w) |-> -1]
                               /\ stores' = [i \in Positions(w) |-> 0]
    BY <1>10 DEF HostStart
  <2>2. w \in Seq(0..(2^AddrBits - 1)) /\ Len(w) * Threads < IntSize \div 2 /\ Len(w) \in Nat
    BY FibAssumption
  <2>3. Len(results') = Len(w)
    BY <2>1, <2>2 DEF Positions
  <2>4. stores' \in [Positions(queries') -> {0, 1}]
    BY <2>1
  <2>5. fibPc' = "host"
    BY <1>10 DEF HostStart
  <2> QED
    BY <2>1, <2>2, <2>3, <2>4, <2>5 DEF LookupInv
<1>11. CASE HostLookup
  <2>1. PICK i \in Positions(queries) : stores[i] = 0 /\ Store(i)
    BY <1>11 DEF HostLookup
  <2>2. Len(results') = Len(queries) /\ stores' \in [Positions(queries) -> {0, 1}]
    BY <2>1, StoreTyped
  <2>3. fibPc = "host" /\ fibPc' = "host" /\ queries' = queries
    BY <1>11 DEF HostLookup
  <2> QED
    BY <1>1, <2>2, <2>3 DEF LookupInv, Positions
<1>12. CASE GpuStart
  <2>1. /\ fibPc = "host" /\ queries' = queries /\ Len(queries) \in Nat
        /\ results' = [i \in Positions(queries) |-> 0]
        /\ stores' = [i \in Positions(queries) |-> 0]
    BY <1>1, <1>12 DEF GpuStart
  <2>2. Len(results') = Len(queries)
    BY <2>1 DEF Positions
  <2>3. stores' \in [Positions(queries') -> {0, 1}]
    BY <2>1
  <2>4. GpuInv'
    BY <1>12, GpuStartStep
  <2> QED
    BY <1>1, <2>1, <2>2, <2>3, <2>4 DEF LookupInv
<1>13. CASE GpuEnd
  <2>1. /\ fibPc = "gpu" /\ UNCHANGED <<table, queries, next, results, stores>>
        /\ \A t \in 0..(Threads - 1) : next[t] >= Share(Len(queries), t + 1)
    BY <1>13 DEF GpuEnd
  <2>2. GpuInv'
    BY <1>1, <2>1 DEF GpuInv, Entry, Positions
  <2> QED
    BY <1>1, <2>1, <2>2 DEF LookupInv, Positions
<1>14. ASSUME NEW t \in 0..(Threads - 1), GpuLookup(t) PROVE LookupInv'
  <2>1. Len(results') = Len(queries) /\ stores' \in [Positions(queries) -> {0, 1}]
    BY <1>14, GpuPosition, StoreTyped
  <2>2. fibPc = "gpu" /\ fibPc' = "gpu" /\ queries' = queries
    BY <1>14 DEF GpuLookup
  <2>3. GpuInv'
    BY <1>14, GpuLookupStep
  <2> QED
    BY <1>1, <2>1, <2>2, <2>3 DEF LookupInv, Positions
<1> QED
  BY <1>3, <1>4, <1>7, <1>8, <1>9, <1>10, <1>11, <1>12, <1>13, <1>14 DEF FibNext

LEMMA FibInvStep == FibInv /\ [FibNext]_fibVars => FibInv'
<1>1. FibInv /\ FibNext => FibInv'
  BY FibTypeStep, TableInvStep, LookupInvStep DEF FibInv
<1>2. FibInv /\ UNCHANGED fibVars => FibInv'
  BY DEF fibVars, FibInv, FibTypeOK, TableInv, TableAt, Mapped, Matches, Better,
         LookupInv, GpuInv, Entry, Positions
<1> QED
  BY <1>1, <1>2

LEMMA FibInvariant == FibSpec => []FibInv
  BY FibInvInit, FibInvStep, PTL DEF FibSpec

(* There is only one best route, so the CHOOSE of LongestMatch finds it. *)
LEMMA TableAtMatch ==
    ASSUME FibInv, NEW a \in Index, TableAt(a)
    PROVE  table[a] = LongestMatch(a)
<1> DEFINE ks == {k \in Mapped : Matches(fib[k], a)}
           Best(k) == \A j \in ks : \/ fib[j].subnet < fib[k].subnet
                                    \/ fib[j].subnet = fib[k].subnet /\ j <= k
           best == CHOOSE k \in ks : Best(k)
<1>1. LongestMatch(a) = IF ks = {} THEN 0 ELSE fib[best].gw
  BY DEF LongestMatch
<1>2. CASE table[a] = 0 /\ \A k \in Mapped : ~Matches(fib[k], a)
  <2>1. ks = {}
    BY <1>2
  <2> HIDE DEF ks
  <2> QED
    BY <1>1, <1>2, <2>1
<1>3. CASE \E k \in Mapped : /\ Matches(fib[k], a) /\ table[a] = fib[k].gw
                             /\ \A j \in Mapped : Matches(fib[j], a) => Better(j, k)
  <2>1. PICK k \in Mapped : /\ Matches(fib[k], a) /\ table[a] = fib[k].gw
                            /\ \A j \in Mapped : Matches(fib[j], a) => Better(j, k)
    BY <1>3
  <2>2. k \in ks /\ Best(k)
    BY <2>1 DEF Better
  <2>3. \A j \in ks : j \in Nat /\ fib[j].subnet \in Nat
    <3>1. fib \in Seq(Routes)
      BY DEF FibInv, FibTypeOK, Routes
    <3>2. \A j \in 1..Len(fib) : fib[j] \in Routes
      BY <3>1, ElementOfSeq
    <3>3. \A j \in 1..Len(fib) : j \in Nat /\ fib[j].subnet \in Nat
      BY <3>2, RouteTyped
    <3> QED
      BY <3>3 DEF Mapped
  <2>4. best \in ks /\ Best(best)
    <3> HIDE DEF ks, Best
    <3> QED
      BY <2>2
  <2>5. best = k
    <3> HIDE DEF ks, best
    <3>1. fib[best].subnet < fib[k].subnet \/ (fib[best].subnet = fib[k].subnet /\ best <= k)
      BY <2>2, <2>4
    <3>2. fib[k].subnet < fib[best].subnet \/ (fib[k].subnet = fib[best].subnet /\ k <= best)
      BY <2>2, <2>4
    <3> QED
      BY <2>2, <2>3, <2>4, <3>1, <3>2
  <2>6. ks # {}
    BY <2>2
  <2> HIDE DEF ks, best
  <2> QED
    BY <1>1, <2>1, <2>5, <2>6
<1> QED
  BY <1>2, <1>3 DEF TableAt

(* Whatever routes are loaded, mapping_fib's table holds at every turn of  *)
(* its loops the longest match among the routes mapped so far: the entries *)
(* ip_start >> 8 .. ip_end >> 8 it fills are exactly those of the prefix,  *)
(* and the order of the loops makes the longer and the later route win.    *)
THEOREM LongestMatchTable == FibSpec => [](FibTypeOK /\ TableIsLongestMatch)
<1>1. FibInv => FibTypeOK /\ TableIsLongestMatch
  BY TableAtMatch DEF FibInv, TableInv, TableIsLongestMatch
<1> QED
  BY <1>1, FibInvariant, PTL

(* Whatever the number of threads and their interleaving, the shares       *)
(* routing_count*idx/total of the GPU's threads cover the addresses and do *)
(* not meet: when iplookup_gpu is over every address was looked up once    *)
(* and has its longest match.                                              *)
THEOREM EveryLookupDone == FibSpec => []LookupsComplete
<1>1. FibInv => LookupsComplete
  <2> SUFFICES ASSUME FibInv PROVE LookupsComplete
    OBVIOUS
  <2>1. /\ queries \in Seq(0..(2^AddrBits - 1)) /\ stores \in [Positions(queries) -> {0, 1}]
    BY DEF FibInv, LookupInv
  <2>2. \A i \in DOMAIN stores : stores[i] <= 1
    BY <2>1
  <2>3. ASSUME fibPc = "done", NEW i \in Positions(queries)
        PROVE  stores[i] = 1 /\ results[i] = LongestMatch(queries[i] \div HostSize)
    <3> DEFINE L == Len(queries)
    <3>1. GpuInv /\ L \in Nat /\ L * Threads < IntSize \div 2 /\ \A a \in Index : TableAt(a)
      BY <2>3 DEF FibInv, LookupInv, TableInv
    <3>2. /\ next \in [0..(Threads - 1) -> Nat]
          /\ \A t \in 0..(Threads - 1) : next[t] >= Share(L, t + 1)
          /\ stores[i] = 1 <=> \E t \in 0..(Threads - 1) : Share(L, t) < i /\ i <= next[t]
          /\ stores[i] = 1 => results[i] = Entry(i)
      BY <2>3, <3>1 DEF GpuInv
    <3>3. /\ \A t \in 0..Threads : Share(L, t) \in Nat
          /\ \E t \in 0..(Threads - 1) : Share(L, t) < i /\ i <= Share(L, t + 1)
      <4>1. i \in 1..L
        BY DEF Positions
      <4> QED
        BY <3>1, <4>1, Shares, SharesCover
    <3> HIDE DEF L
    <3>4. PICK t \in 0..(Threads - 1) : Share(L, t) < i /\ i <= Share(L, t + 1)
      BY <3>3
    <3>5. i \in Nat /\ t + 1 \in 0..Threads /\ next[t] \in Nat /\ Share(L, t + 1) \in Nat
      <4>1. i \in Nat
        BY <3>1 DEF Positions, L
      <4>2. t + 1 \in 0..Threads
        BY FibNat
      <4> QED
        BY <3>2, <3>3, <4>1, <4>2
    <3>6. i <= next[t]
      BY <3>2, <3>4, <3>5
    <3>7. stores[i] = 1 /\ results[i] = Entry(i)
      BY <3>2, <3>4, <3>6
    <3>8. queries[i] \div HostSize \in Index
      <4>1. queries[i] \in 0..(2^AddrBits - 1)
        BY <2>1, ElementOfSeq DEF Positions
      <4> QED
        BY <4>1, AddressIndex
    <3> QED
      BY <3>1, <3>7, <3>8, TableAtMatch DEF Entry
  <2> QED
    BY <2>2, <2>3 DEF LookupsComplete
<1> QED
  BY <1>1, FibInvariant, PTL

-----------------------------------------------------------------------------
(***************************************************************************)
(* ip_fast_csum computes the ones-complement sum, for every size of a half *)
(* word and every length of a header.                                      *)
(***************************************************************************)
(* The inductive invariant: the types, a carry never meets a full          *)
(* register, and the sum is folded only when no word is left.              *)
CsumInv ==
    /\ CsumTypeOK
    /\ CarryFits
    /\ csumPc = "fold" => left = 0

(* Remainder and quotient of a sum that overflows a register of size r at  *)
(* most once.                                                              *)
LEMMA CarryOut ==
    ASSUME NEW r \in Nat, r > 1, NEW s \in 0..(2 * r - 1)
    PROVE  /\ s % r = IF s >= r THEN s - r ELSE s
           /\ s \div r = IF s >= r THEN 1 ELSE 0
  <1>1. CASE s < r
    BY <1>1, SMTT(30)
  <1>2. CASE s >= r
    <2>1. s % r = s - r /\ s \div r = 1
      BY <1>2, SMTT(30)
    <2> QED BY <1>2, <2>1
  <1> QED BY <1>1, <1>2

(* A register is a positive number of values. *)
LEMMA RegisterNat == Register \in Nat /\ Register > 1 /\ Half \in Nat /\ Half > 1
  BY ChecksumAssumption, SMTT(30) DEF Register

(* The halves of a word are half words. *)
LEMMA Halves ==
    ASSUME NEW s \in Word
    PROVE  s \div Half \in 0..(Half - 1) /\ s % Half \in 0..(Half - 1)
  <1>1. s \in Nat /\ s < Half * Half
    BY RegisterNat DEF Word, Register
  <1>2. s % Half \in 0..(Half - 1) /\ s \div Half \in Nat
    BY <1>1, RegisterNat, SMTT(30)
  <1>3. s = Half * (s \div Half) + (s % Half)
    BY <1>1, RegisterNat, SMTT(30)
  <1>4. s \div Half < Half
    BY <1>1, <1>2, <1>3, RegisterNat, SMTT(30)
  <1> QED BY <1>2, <1>4, RegisterNat

(* What one adcl does to the register and the flag. *)
LEMMA AddStep ==
    ASSUME NEW s \in Word, NEW c \in {0, 1}, NEW w \in Word, s + c < Register,
           NEW t, t = s + w + c
    PROVE  /\ t % Register \in Word
           /\ t \div Register \in {0, 1}
           /\ t \div Register = 1 => t % Register < Register - 1
           /\ (t % Register) + (t \div Register)
                = IF t >= Register THEN t - Register + 1 ELSE t
  <1>1. s \in Int /\ w \in Int /\ 0 <= s /\ 0 <= w /\ w < Register
    BY RegisterNat DEF Word
  <1>2. t \in 0..(2 * Register - 2)
    BY <1>1, RegisterNat
  <1>3. /\ t % Register = IF t >= Register THEN t - Register ELSE t
        /\ t \div Register = IF t >= Register THEN 1 ELSE 0
    <2>1. t \in 0..(2 * Register - 1)
      BY <1>2, RegisterNat
    <2> QED BY <2>1, RegisterNat, CarryOut
  <1> QED BY <1>2, <1>3, RegisterNat DEF Word

(* The fold is an addition with end-around carry of the two halves. *)
LEMMA FoldStep ==
    ASSUME NEW s \in Word, NEW added, added = (s \div Half) + (s % Half)
    PROVE  /\ ((added % Half) + (added \div Half)) % Half
                = IF added >= Half THEN added - Half + 1 ELSE added
           /\ ((added % Half) + (added \div Half)) % Half \in 0..(Half - 1)
  <1>1. added \in 0..(2 * Half - 2)
    BY Halves, RegisterNat
  <1>2. /\ added % Half = IF added >= Half THEN added - Half ELSE added
        /\ added \div Half = IF added >= Half THEN 1 ELSE 0
    <2>1. added \in 0..(2 * Half - 1)
      BY <1>1, RegisterNat
    <2> QED BY <2>1, RegisterNat, CarryOut
  <1> DEFINE u == (added % Half) + (added \div Half)
  <1>3. u = (IF added >= Half THEN added - Half + 1 ELSE added) /\ u \in 0..(Half - 1)
    BY <1>1, <1>2, RegisterNat
  <1> HIDE DEF u
  <1>4. u % Half = u
    <2>1. u \in 0..(2 * Half - 1) /\ ~(u >= Half)
      BY <1>3, RegisterNat
    <2> QED BY <2>1, RegisterNat, CarryOut
  <1> QED BY <1>3, <1>4 DEF u

-----------------------------------------------------------------------------
(* The invariant holds when ip_fast_csum is called. *)
LEMMA CsumInvInit == CsumInit => CsumInv
  BY ChecksumAssumption, RegisterNat
  DEF CsumInit, CsumInv, CsumTypeOK, CarryFits, Word, NoResult

(* Every instruction that touches the sum or the carry preserves it. *)
LEMMA CsumInvStep == CsumInv /\ [CsumNext]_csumVars => CsumInv'
  <1> SUFFICES ASSUME CsumInv, [CsumNext]_csumVars
               PROVE  CsumInv'
    OBVIOUS
  <1> USE DEF CsumInv, CsumTypeOK, CarryFits
  <1>1. CASE FirstWord
    BY <1>1, ChecksumAssumption DEF FirstWord
  <1>2. CASE ReturnRaw
    <2>1. sum % Half \in 0..(Half - 1)
      BY Halves
    <2> QED BY <1>2, <2>1 DEF ReturnRaw
  <1>3. CASE AddWord
    <2>1. PICK w \in Word : /\ sum' = (sum + w + cf) % Register
                            /\ cf' = (sum + w + cf) \div Register
      BY <1>3 DEF AddWord
    <2>2. sum + cf < Register
      BY RegisterNat DEF Word
    <2>3. sum' \in Word /\ cf' \in {0, 1} /\ (cf' = 1 => sum' < Register - 1)
      BY <2>1, <2>2, AddStep
    <2> QED BY <1>3, <2>3, ChecksumAssumption DEF AddWord
  <1>4. CASE AddCarry
    <2>1. sum + cf \in 0..(Register - 1)
      BY RegisterNat DEF Word
    <2>2. (sum + cf) % Register = sum + cf /\ (sum + cf) \div Register = 0
      <3>1. sum + cf \in 0..(2 * Register - 1) /\ ~(sum + cf >= Register)
        BY <2>1, RegisterNat
      <3> QED BY <3>1, RegisterNat, CarryOut
    <2>3. sum' \in Word /\ cf' = 0
      BY <1>4, <2>1, <2>2 DEF AddCarry, Word
    <2> QED BY <1>4, <2>3 DEF AddCarry
  <1>5. CASE Fold
    <2> DEFINE added == (sum \div Half) + (sum % Half)
               folded == ((added % Half) + (added \div Half)) % Half
    <2>1. folded \in 0..(Half - 1)
      BY FoldStep
    <2>2. csum' = Half - 1 - folded
      BY <1>5 DEF Fold
    <2> HIDE DEF folded
    <2>3. csum' \in 0..(Half - 1)
      BY <2>1, <2>2, RegisterNat
    <2> QED BY <1>5, <2>3 DEF Fold
  <1>6. CASE UNCHANGED csumVars
    BY <1>6 DEF csumVars
  <1> QED BY <1>1, <1>2, <1>3, <1>4, <1>5, <1>6 DEF CsumNext

(* ip_fast_csum keeps its types, and its carry always fits: the last adcl  *)
(* of the loop never leaves a carry behind, for every length of a header.  *)
THEOREM CarryNeverLost == CsumSpec => [](CsumTypeOK /\ CarryFits)
  <1>1. CsumInv => CsumTypeOK /\ CarryFits
    BY DEF CsumInv
  <1> QED BY CsumInvInit, CsumInvStep, <1>1, PTL DEF CsumSpec

-----------------------------------------------------------------------------
(* A call begins the abstract sum. *)
LEMMA RefineInit == CsumInit => Ones!SumInit
  BY DEF CsumInit, Ones!SumInit, NoResult

(* Each step is one step of the abstract sum, or none. *)
LEMMA RefineStep ==
    CsumInv /\ [CsumNext]_csumVars
        => [Ones!Begin \/ Ones!Add \/ Ones!Emit \/ Ones!EmitRaw]_(Ones!sumVars)
  <1> SUFFICES ASSUME CsumInv, [CsumNext]_csumVars
               PROVE  [Ones!Begin \/ Ones!Add \/ Ones!Emit \/ Ones!EmitRaw]_(Ones!sumVars)
    OBVIOUS
  <1> USE DEF CsumInv, CsumTypeOK, CarryFits
  <1>0. Ones!Words = Word
    BY DEF Ones!Words, Word, Register
  <1>1. CASE FirstWord
    <2>1. PICK w \in Word, ihl \in 0..MaxIhl :
              sum' = w /\ left' = ihl - 1 /\ csumPc' = IF ihl <= 4 THEN "raw" ELSE "add"
      BY <1>1 DEF FirstWord
    <2>2. cf = 0 /\ cf' = 0 /\ csumPc = "off" /\ csum' = csum
      BY <1>1 DEF FirstWord
    <2>3. sum' + cf' = w /\ w \in Word
      BY <2>1, <2>2, RegisterNat DEF Word
    <2>4. left' \in Int /\ (left' + 1 > 4 <=> csumPc' = "add") /\ csumPc' \in {"raw", "add"}
      BY <2>1, ChecksumAssumption
    <2> QED BY <1>0, <2>2, <2>3, <2>4 DEF Ones!Begin
  <1>2. CASE ReturnRaw
    <2>1. cf = 0 /\ sum + cf = sum
      BY <1>2, RegisterNat DEF ReturnRaw, Word
    <2> QED BY <1>2, <2>1 DEF ReturnRaw, Ones!EmitRaw
  <1>3. CASE AddWord
    <2>1. PICK w \in Word : /\ sum' = (sum + w + cf) % Register
                            /\ cf' = (sum + w + cf) \div Register
      BY <1>3 DEF AddWord
    <2>2. sum + cf < Register
      BY RegisterNat DEF Word
    <2> DEFINE t == sum + w + cf
    <2>3. t = sum + w + cf /\ sum' = t % Register /\ cf' = t \div Register
      BY <2>1
    <2> HIDE DEF t
    <2>4. sum' + cf' = IF t >= Register THEN t - Register + 1 ELSE t
      BY <2>2, <2>3, AddStep
    <2>5. sum' + cf' = Ones!EndAround(Half * Half, sum + cf, w)
      BY <2>3, <2>4, RegisterNat DEF Ones!EndAround, Word, Register
    <2> QED BY <1>0, <1>3, <2>5 DEF AddWord, Ones!Add
  <1>4. CASE AddCarry
    <2>1. sum + cf \in 0..(Register - 1)
      BY RegisterNat DEF Word
    <2>2. (sum + cf) % Register = sum + cf /\ (sum + cf) \div Register = 0
      <3>1. sum + cf \in 0..(2 * Register - 1) /\ ~(sum + cf >= Register)
        BY <2>1, RegisterNat
      <3> QED BY <3>1, RegisterNat, CarryOut
    <2>3. sum' + cf' = sum + cf
      BY <1>4, <2>1, <2>2 DEF AddCarry
    <2> QED BY <1>4, <2>3 DEF AddCarry, Ones!sumVars
  <1>5. CASE Fold
    <2>1. cf = 0 /\ sum + cf = sum /\ left = 0
      BY <1>5, RegisterNat DEF Fold, Word
    <2> DEFINE high == sum \div Half
               low == sum % Half
               added == high + low
    <2>2. /\ high \in 0..(Half - 1) /\ low \in 0..(Half - 1)
          /\ high = sum \div Half /\ low = sum % Half /\ added = high + low
          /\ csum' = Half - 1 - (((added % Half) + (added \div Half)) % Half)
      BY <1>5, Halves DEF Fold
    <2>3. ((added % Half) + (added \div Half)) % Half
            = IF added >= Half THEN added - Half + 1 ELSE added
      BY FoldStep
    <2> HIDE DEF high, low, added
    <2>4. csum' = Half - 1 - Ones!EndAround(Half, high, low)
      BY <2>2, <2>3, RegisterNat DEF Ones!EndAround
    <2>5. csum' = Half - 1 - Ones!EndAround(Half, (sum + cf) \div Half, (sum + cf) % Half)
      BY <2>1, <2>2, <2>4
    <2> QED BY <1>5, <2>1, <2>5 DEF Fold, Ones!Emit
  <1>6. CASE UNCHANGED csumVars
    BY <1>6 DEF csumVars, Ones!sumVars
  <1> QED BY <1>1, <1>2, <1>3, <1>4, <1>5, <1>6 DEF CsumNext

(* ip_fast_csum implements the ones-complement sum of OnesSum, whatever    *)
(* the words, their number and the size of a half word.                    *)
THEOREM ChecksumCorrect == CsumSpec => ChecksumSpec
  BY CsumInvInit, CsumInvStep, RefineInit, RefineStep, PTL
  DEF CsumSpec, ChecksumSpec, Ones!SumSpec

-----------------------------------------------------------------------------
(***************************************************************************)
(* The movie and its player.                                               *)
(***************************************************************************)

PlayerInv == PlayerTypeOK /\ NothingLost
Shown == Char \union {Gone}   \* what a write may leave on the screen

LEMMA SizeNat == Size \in Nat /\ Size > 0 /\ Room \in Nat /\ MaxMovie \in Nat
  BY PlayerAssumption

(* Decoding one byte. *)
LEMMA DecodedByte ==
    ASSUME NEW b \in Char
    PROVE  /\ (b + Size - 1) % Size \in Char
           /\ Decoded(<<b>>) = <<(b + Size - 1) % Size>>
<1>1. b + Size - 1 \in Nat
  BY SizeNat DEF Char
<1>2. (b + Size - 1) % Size \in Char
  BY <1>1, SizeNat DEF Char
<1>3. Decoded(<<b>>) = <<(b + Size - 1) % Size>>
  BY DEF Decoded
<1> QED
  BY <1>2, <1>3

(* decb takes off what encode has added, over the wrap-around too. *)
LEMMA DecodeEncode ==
    ASSUME NEW a \in Char \ {0}
    PROVE  Encoded(a) \in Char /\ (Encoded(a) + Size - 1) % Size = a
<1>1. a \in Nat /\ 0 < a /\ a < Size /\ Size > 1 /\ Size \in Nat
  BY SizeNat DEF Char
<1>2. CASE a + 1 < Size
  <2>1. (a + 1) % Size = a + 1
    <3>1. a + 1 \in 0..(2 * Size - 1) /\ ~(a + 1 >= Size)
      BY <1>1, <1>2
    <3> QED
      BY <1>1, <3>1, CarryOut
  <2>2. (a + 1 + Size - 1) % Size = a
    <3>1. a + Size \in 0..(2 * Size - 1) /\ a + Size >= Size /\ a + Size - Size = a
      BY <1>1
    <3>2. (a + Size) % Size = a
      BY <1>1, <3>1, CarryOut
    <3>3. a + 1 + Size - 1 = a + Size
      BY <1>1
    <3> QED
      BY <3>2, <3>3
  <2> QED
    BY <1>1, <1>2, <2>1, <2>2 DEF Encoded, Char
<1>3. CASE a + 1 = Size
  <2>1. (a + 1) % Size = 0
    <3>1. Size \in 0..(2 * Size - 1)
      BY <1>1
    <3>2. Size % Size = 0
      BY <1>1, <3>1, CarryOut
    <3> QED
      BY <1>3, <3>2
  <2>2. (0 + Size - 1) % Size = a
    <3>1. Size - 1 \in 0..(2 * Size - 1) /\ ~(Size - 1 >= Size) /\ Size - 1 = a /\ 0 + Size - 1 = Size - 1
      BY <1>1, <1>3
    <3>2. (Size - 1) % Size = Size - 1
      BY <1>1, <3>1, CarryOut
    <3> QED
      BY <3>1, <3>2
  <2> QED
    BY <1>1, <2>1, <2>2 DEF Encoded, Char
<1> QED
  BY <1>1, <1>2, <1>3

(* Decoding what the connection holds, byte by byte. *)
LEMMA DecodedTyped ==
    ASSUME NEW w \in Seq(Char)
    PROVE  /\ Decoded(w) \in Seq(Char) /\ Len(Decoded(w)) = Len(w)
           /\ \A k \in 1..Len(w) : Decoded(w)[k] = (w[k] + Size - 1) % Size
<1>1. ASSUME NEW k \in 1..Len(w) PROVE (w[k] + Size - 1) % Size \in Char
  <2>1. w[k] \in Char
    OBVIOUS
  <2> QED
    BY <2>1, DecodedByte
<1>2. Decoded(w) \in [1..Len(w) -> Char]
  BY <1>1 DEF Decoded
<1> QED
  BY <1>2 DEF Decoded

LEMMA DecodedAppend ==
    ASSUME NEW w \in Seq(Char), NEW b \in Char
    PROVE  Decoded(Append(w, b)) = Decoded(w) \o <<(b + Size - 1) % Size>>
<1> DEFINE d == (b + Size - 1) % Size
           l == Decoded(Append(w, b))
           r == Decoded(w) \o <<d>>
<1>1. /\ Append(w, b) \in Seq(Char) /\ d \in Char
      /\ Decoded(w) \in Seq(Char) /\ Len(Decoded(w)) = Len(w)
      /\ \A k \in 1..Len(w) : Decoded(w)[k] = (w[k] + Size - 1) % Size
  <2>1. Append(w, b) \in Seq(Char)
    OBVIOUS
  <2>2. d \in Char
    BY DecodedByte
  <2>3. /\ Decoded(w) \in Seq(Char) /\ Len(Decoded(w)) = Len(w)
        /\ \A k \in 1..Len(w) : Decoded(w)[k] = (w[k] + Size - 1) % Size
    BY DecodedTyped
  <2> QED
    BY <2>1, <2>2, <2>3
<1>2. /\ l \in Seq(Char) /\ Len(l) = Len(Append(w, b))
      /\ \A k \in 1..Len(Append(w, b)) : l[k] = (Append(w, b)[k] + Size - 1) % Size
  BY <1>1, DecodedTyped
<1>3. /\ Len(Append(w, b)) = Len(w) + 1 /\ Append(w, b)[Len(w) + 1] = b
      /\ \A k \in 1..Len(w) : Append(w, b)[k] = w[k]
  OBVIOUS
<1> HIDE DEF d, l
<1>4. /\ r \in Seq(Char) /\ Len(r) = Len(w) + 1 /\ r[Len(w) + 1] = d
      /\ \A k \in 1..Len(w) : r[k] = Decoded(w)[k]
  BY <1>1
<1> HIDE DEF r
<1>5. \A k \in 1..(Len(w) + 1) : l[k] = r[k]
  <2>1. l[Len(w) + 1] = d
    BY <1>2, <1>3 DEF d
  <2>2. \A k \in 1..Len(w) : l[k] = r[k]
    BY <1>1, <1>2, <1>3, <1>4
  <2> QED
    BY <1>4, <2>1, <2>2
<1>6. l = r
  BY <1>2, <1>3, <1>4, <1>5, SeqEqual
<1> QED
  BY <1>6 DEF l, r, d

LEMMA DecodedHead ==
    ASSUME NEW w \in Seq(Char), w # <<>>
    PROVE  Decoded(w) = Decoded(<<Head(w)>>) \o Decoded(Tail(w))
<1> DEFINE h == Decoded(<<Head(w)>>)
           t == Decoded(Tail(w))
           e == (w[1] + Size - 1) % Size
<1>1. /\ Head(w) \in Char /\ Head(w) = w[1] /\ Tail(w) \in Seq(Char) /\ Len(w) > 0
      /\ Len(Tail(w)) = Len(w) - 1 /\ \A k \in 1..(Len(w) - 1) : Tail(w)[k] = w[k + 1]
  OBVIOUS
<1>2. h = <<e>> /\ e \in Char
  BY <1>1, DecodedByte
<1>3. /\ t \in Seq(Char) /\ Len(t) = Len(w) - 1
      /\ \A k \in 1..(Len(w) - 1) : t[k] = (w[k + 1] + Size - 1) % Size
  <2> DEFINE v == Tail(w)
  <2>1. v \in Seq(Char) /\ Len(v) = Len(w) - 1 /\ t = Decoded(v)
    BY <1>1
  <2>2. \A k \in 1..(Len(w) - 1) : v[k] = w[k + 1]
    BY <1>1, Zenon
  <2> HIDE DEF v, t
  <2>3. /\ t \in Seq(Char) /\ Len(t) = Len(v)
        /\ \A k \in 1..Len(v) : t[k] = (v[k] + Size - 1) % Size
    BY <2>1, DecodedTyped, Zenon
  <2>4. \A k \in 1..(Len(w) - 1) : t[k] = (w[k + 1] + Size - 1) % Size
    BY <2>1, <2>2, <2>3, Zenon
  <2> QED
    BY <2>1, <2>3, <2>4, Zenon
<1>4. /\ Decoded(w) \in Seq(Char) /\ Len(Decoded(w)) = Len(w)
      /\ \A k \in 1..Len(w) : Decoded(w)[k] = (w[k] + Size - 1) % Size
  BY DecodedTyped
<1> HIDE DEF h, t, e
<1>5. /\ h \o t \in Seq(Char) /\ Len(h \o t) = Len(w)
      /\ (h \o t)[1] = e
      /\ \A k \in 2..Len(w) : (h \o t)[k] = t[k - 1]
  <2>1. h \in Seq(Char) /\ Len(h) = 1 /\ h[1] = e
    BY <1>2
  <2>2. /\ h \o t \in Seq(Char) /\ Len(h \o t) = Len(h) + Len(t)
        /\ \A k \in 1..(Len(h) + Len(t)) :
              (h \o t)[k] = IF k <= Len(h) THEN h[k] ELSE t[k - Len(h)]
    BY <1>3, <2>1, ConcatProperties, Zenon
  <2> DEFINE r == h \o t
  <2> HIDE DEF r
  <2>3. Len(h) + Len(t) = Len(w) /\ Len(w) \in Nat /\ 1 \in 1..Len(w)
    BY <1>1, <1>3, <2>1
  <2>4. /\ r \in Seq(Char) /\ Len(r) = Len(w)
        /\ \A k \in 1..Len(w) : r[k] = IF k <= 1 THEN h[k] ELSE t[k - 1]
    BY <2>1, <2>2, <2>3, Zenon DEF r
  <2>5. r[1] = e
    BY <2>1, <2>3, <2>4
  <2>6. \A k \in 2..Len(w) : r[k] = t[k - 1]
    BY <2>3, <2>4
  <2> QED
    BY <2>4, <2>5, <2>6, Zenon DEF r
<1>6. \A k \in 1..Len(w) : (h \o t)[k] = Decoded(w)[k]
  <2> SUFFICES ASSUME NEW k \in 1..Len(w) PROVE (h \o t)[k] = Decoded(w)[k]
    OBVIOUS
  <2>1. CASE k = 1
    BY <1>4, <1>5, <2>1 DEF e
  <2>2. CASE k # 1
    <3>1. k - 1 \in 1..(Len(w) - 1) /\ k - 1 + 1 = k /\ k \in 2..Len(w)
      BY <2>2
    <3> QED
      BY <1>3, <1>4, <1>5, <3>1
  <2> QED
    BY <2>1, <2>2
<1>7. h \o t = Decoded(w)
  BY <1>4, <1>5, <1>6, SeqEqual
<1> QED
  BY <1>7 DEF h, t

(* A text shows a movie if only failed writes keep them apart. *)
Lossy(s, m) == Len(s) = Len(m) /\ \A k \in 1..Len(m) : s[k] \in {m[k], Gone}

LEMMA LossyAppend ==
    ASSUME NEW s \in Seq(Shown), NEW m \in Seq(Char), Lossy(s, m), NEW a \in Char
    PROVE  Lossy(Append(s, a), Append(m, a))
<1>1. /\ Len(Append(s, a)) = Len(s) + 1 /\ Len(Append(m, a)) = Len(m) + 1
      /\ Append(s, a)[Len(s) + 1] = a /\ Append(m, a)[Len(m) + 1] = a
      /\ \A k \in 1..Len(s) : Append(s, a)[k] = s[k]
      /\ \A k \in 1..Len(m) : Append(m, a)[k] = m[k]
      /\ Len(s) \in Nat /\ Len(m) \in Nat
  BY DEF Shown
<1>2. Len(s) = Len(m) /\ \A k \in 1..Len(m) : s[k] \in {m[k], Gone}
  BY DEF Lossy
<1> DEFINE sa == Append(s, a)
           ma == Append(m, a)
<1> HIDE DEF sa, ma
<1>3. ASSUME NEW k \in 1..(Len(m) + 1) PROVE sa[k] \in {ma[k], Gone}
  <2>1. CASE k = Len(m) + 1
    BY <1>1, <1>2, <2>1 DEF sa, ma
  <2>2. CASE k # Len(m) + 1
    <3>1. k \in 1..Len(m) /\ k \in 1..Len(s)
      BY <1>1, <1>2, <2>2
    <3> QED
      BY <1>1, <1>2, <3>1 DEF sa, ma
  <2> QED
    BY <2>1, <2>2
<1>4. Len(sa) = Len(ma) /\ Len(ma) = Len(m) + 1
  BY <1>1, <1>2 DEF sa, ma
<1> QED
  BY <1>3, <1>4 DEF Lossy, sa, ma

(* A character may always be lost. *)
LEMMA LossyGone ==
    ASSUME NEW s \in Seq(Shown), NEW c \in Shown, NEW t \in Seq(Shown), NEW m \in Seq(Char),
           Lossy((s \o <<c>>) \o t, m)
    PROVE  Lossy((s \o <<Gone>>) \o t, m)
<1> DEFINE p == (s \o <<c>>) \o t
           q == (s \o <<Gone>>) \o t
           n == Len(s) + 1 + Len(t)
<1>1. /\ Len(p) = n /\ Len(q) = n
      /\ \A k \in 1..n : k # Len(s) + 1 => q[k] = p[k]
      /\ q[Len(s) + 1] = Gone
  <2>1. ASSUME NEW d \in Shown
        PROVE  /\ Len((s \o <<d>>) \o t) = n
               /\ \A k \in 1..n : ((s \o <<d>>) \o t)[k] =
                     IF k <= Len(s) THEN s[k] ELSE IF k = Len(s) + 1 THEN d ELSE t[k - Len(s) - 1]
    <3> DEFINE u == s \o <<d>>
    <3>1. /\ u \in Seq(Shown) /\ Len(u) = Len(s) + 1 /\ u[Len(s) + 1] = d
          /\ \A k \in 1..Len(s) : u[k] = s[k]
      OBVIOUS
    <3> HIDE DEF u
    <3>2. /\ Len(u \o t) = Len(u) + Len(t)
          /\ \A k \in 1..(Len(u) + Len(t)) : (u \o t)[k] = IF k <= Len(u) THEN u[k] ELSE t[k - Len(u)]
      BY <3>1, ConcatProperties
    <3> DEFINE v == u \o t
    <3>3. v = (s \o <<d>>) \o t
      BY DEF u
    <3> HIDE DEF v
    <3>4. Len(s) \in Nat /\ Len(t) \in Nat
      OBVIOUS
    <3>5. Len(v) = n /\ \A k \in 1..n : v[k] =
              IF k <= Len(s) THEN s[k] ELSE IF k = Len(s) + 1 THEN d ELSE t[k - Len(s) - 1]
      <4>1. /\ Len(v) = Len(s) + 1 + Len(t)
            /\ \A k \in 1..(Len(s) + 1 + Len(t)) :
                  v[k] = IF k <= Len(s) + 1 THEN u[k] ELSE t[k - (Len(s) + 1)]
        BY <3>1, <3>2 DEF v
      <4> SUFFICES ASSUME NEW k \in 1..(Len(s) + 1 + Len(t))
                   PROVE  v[k] = IF k <= Len(s) THEN s[k]
                                 ELSE IF k = Len(s) + 1 THEN d ELSE t[k - Len(s) - 1]
        BY <4>1
      <4>2. CASE k <= Len(s)
        BY <3>1, <3>4, <4>1, <4>2
      <4>3. CASE k = Len(s) + 1
        BY <3>1, <3>4, <4>1, <4>3
      <4>4. CASE k > Len(s) + 1
        <5>1. k - (Len(s) + 1) = k - Len(s) - 1
          BY <3>4
        <5> QED
          BY <3>4, <4>1, <4>4, <5>1
      <4> QED
        BY <3>4, <4>2, <4>3, <4>4
    <3> QED
      BY <3>3, <3>5
  <2>2. Gone \in Shown /\ Len(s) + 1 \in 1..n /\ Len(s) \in Nat
    BY DEF Shown
  <2> HIDE DEF n
  <2> QED
    BY <2>1, <2>2
<1>2. Len(p) = Len(m) /\ \A k \in 1..Len(m) : p[k] \in {m[k], Gone}
  BY DEF Lossy
<1> HIDE DEF p, q, n
<1>3. Len(q) = Len(m) /\ \A k \in 1..Len(m) : q[k] \in {m[k], Gone}
  BY <1>1, <1>2
<1> QED
  BY <1>3 DEF Lossy, q

(* Where the byte between the connection and the screen is. *)
LEMMA PendingByte ==
    /\ playPc = "decode" => (NothingLost <=> Lossy(screen \o Decoded(<<msg>>) \o Decoded(wire), movie))
    /\ playPc = "write" => (NothingLost <=> Lossy(screen \o <<msg>> \o Decoded(wire), movie))
    /\ playPc \notin {"decode", "write"}
         => (NothingLost <=> Lossy(screen \o <<>> \o Decoded(wire), movie))
  BY DEF NothingLost, Lossy, Shows

LEMMA PendingNext ==
    /\ playPc' = "decode"
         => (NothingLost' <=> Lossy(screen' \o Decoded(<<msg'>>) \o Decoded(wire'), movie'))
    /\ playPc' = "write" => (NothingLost' <=> Lossy(screen' \o <<msg'>> \o Decoded(wire'), movie'))
    /\ playPc' \notin {"decode", "write"}
         => (NothingLost' <=> Lossy(screen' \o <<>> \o Decoded(wire'), movie'))
<1>1. Decoded(wire)' = Decoded(wire') /\ Decoded(<<msg>>)' = Decoded(<<msg'>>)
  BY DEF Decoded
<1>2. playPc' = "decode"
        => (NothingLost' <=> Lossy(screen' \o Decoded(<<msg'>>) \o Decoded(wire'), movie'))
  BY <1>1 DEF NothingLost, Lossy, Shows
<1>3. playPc' = "write" => (NothingLost' <=> Lossy(screen' \o <<msg'>> \o Decoded(wire'), movie'))
  BY <1>1 DEF NothingLost, Lossy, Shows
<1>4. playPc' \notin {"decode", "write"}
        => (NothingLost' <=> Lossy(screen' \o <<>> \o Decoded(wire'), movie'))
  BY <1>1 DEF NothingLost, Lossy, Shows
<1> QED
  BY <1>2, <1>3, <1>4

(* Three texts in a row are one text, however they are put together. *)
LEMMA ConcatThree ==
    ASSUME NEW s \in Seq(Shown), NEW t \in Seq(Shown), NEW u \in Seq(Shown)
    PROVE  (s \o t) \o u = s \o (t \o u)
  BY ConcatAssociative

(* A text of characters is one that can be shown. *)
LEMMA CharShown == ASSUME NEW s \in Seq(Char) PROVE s \in Seq(Shown)
<1>1. Char \subseteq Shown
  BY DEF Shown
<1> HIDE DEF Shown
<1> QED
  BY <1>1

LEMMA PlayerInvInit == PlayerInit => PlayerInv
<1> SUFFICES ASSUME PlayerInit PROVE PlayerInv
  OBVIOUS
<1>1. PlayerTypeOK
  BY SizeNat DEF PlayerInit, PlayerTypeOK, Char
<1>2. Decoded(<<>>) = <<>>
  BY DEF Decoded
<1>3. NothingLost
  BY <1>2, PendingByte DEF PlayerInit, Lossy
<1> QED
  BY <1>1, <1>3 DEF PlayerInv

LEMMA PlayerInvStep == PlayerInv /\ [PlayerNext]_playerVars => PlayerInv'
<1> SUFFICES ASSUME PlayerInv, [PlayerNext]_playerVars PROVE PlayerInv'
  OBVIOUS
<1>1. /\ movie \in Seq(Char) /\ wire \in Seq(Char) /\ screen \in Seq(Shown) /\ msg \in Char
      /\ PlayerTypeOK /\ NothingLost
      /\ Decoded(wire) \in Seq(Char) /\ Decoded(wire) \in Seq(Shown)
  BY DecodedTyped, CharShown DEF PlayerInv, PlayerTypeOK, Shown
<1>2. /\ \A s \in Seq(Shown) : s \o <<>> = s
      /\ \A s \in Seq(Shown), c \in Shown : Append(s, c) = s \o <<c>> /\ <<c>> \in Seq(Shown)
      /\ \A c \in Char : c \in Shown /\ <<c>> \in Seq(Char)
      /\ Gone \in Shown
  <2>1. \A s \in Seq(Shown) : s \o <<>> = s
    BY ConcatEmptySeq, Zenon
  <2>2. \A s \in Seq(Shown), c \in Shown : Append(s, c) = s \o <<c>>
    BY AppendIsConcat, Zenon
  <2>3. \A c \in Shown : <<c>> \in Seq(Shown)
    OBVIOUS
  <2>4. \A c \in Char : c \in Shown /\ <<c>> \in Seq(Char)
    BY DEF Shown
  <2>5. Gone \in Shown
    BY DEF Shown
  <2> QED
    BY <2>1, <2>2, <2>3, <2>4, <2>5, Zenon
<1>3. CASE PlayerStart
  <2>1. PlayerTypeOK'
    BY <1>1, <1>3 DEF PlayerStart, PlayerTypeOK
  <2>2. UNCHANGED <<movie, wire, playPc, msg, screen>>
    BY <1>3 DEF PlayerStart
  <2>3. NothingLost'
    BY <1>1, <2>2 DEF NothingLost, Shows, Decoded
  <2> QED
    BY <2>1, <2>3 DEF PlayerInv
<1>4. CASE Encode
  <2>1. PICK a \in Char \ {0} : movie' = Append(movie, a) /\ wire' = Append(wire, Encoded(a))
    BY <1>4 DEF Encode
  <2>2. /\ UNCHANGED <<encPc, playPc, msg, screen>>
        /\ Len(movie) < MaxMovie /\ Len(wire) < Room
    BY <1>4 DEF Encode
  <2>3. Encoded(a) \in Char /\ (Encoded(a) + Size - 1) % Size = a
    BY DecodeEncode
  <2>4. PlayerTypeOK'
    BY <1>1, <2>1, <2>2, <2>3, SizeNat DEF PlayerTypeOK
  <2>5. Decoded(wire') = Decoded(wire) \o <<a>> /\ <<a>> \in Seq(Shown) /\ a \in Shown
    <3>1. Decoded(wire') = Decoded(wire) \o <<(Encoded(a) + Size - 1) % Size>>
      BY <1>1, <2>1, <2>3, DecodedAppend, Zenon
    <3>2. <<a>> \in Seq(Shown) /\ a \in Shown
      BY <1>2
    <3> QED
      BY <2>3, <3>1, <3>2, Zenon
  <2>6. ASSUME NEW p \in Seq(Shown), Lossy(screen \o p \o Decoded(wire), movie)
        PROVE  Lossy(screen' \o p \o Decoded(wire'), movie')
    <3> DEFINE s == screen \o p
               t == Decoded(wire)
               u == <<a>>
               v == s \o t
    <3>1. s \in Seq(Shown) /\ t \in Seq(Shown) /\ u \in Seq(Shown)
      BY <1>1, <2>5
    <3>2. v \in Seq(Shown) /\ Lossy(v, movie)
      <4> HIDE DEF s, t
      <4>1. v \in Seq(Shown)
        BY <3>1
      <4>2. Lossy(v, movie)
        BY <2>6 DEF s, t
      <4> QED
        BY <4>1, <4>2, Zenon
    <3>3. Lossy(Append(v, a), movie')
      <4> HIDE DEF v
      <4>1. a \in Char
        OBVIOUS
      <4> QED
        BY <1>1, <2>1, <3>2, <4>1, LossyAppend
    <3>4. Append(v, a) = v \o u
      <4> HIDE DEF v
      <4> QED
        BY <1>2, <2>5, <3>2
    <3>5. Decoded(wire') = t \o u /\ screen' \o p = s
      BY <2>2, <2>5, Zenon
    <3> HIDE DEF s, t, u
    <3>6. v \o u = s \o (t \o u)
      BY <3>1, ConcatThree, Zenon
    <3> QED
      BY <3>3, <3>4, <3>5, <3>6, Zenon
  <2>7. Decoded(<<msg>>) \in Seq(Shown) /\ <<msg>> \in Seq(Shown) /\ <<>> \in Seq(Shown)
    <3>1. <<msg>> \in Seq(Char) /\ <<msg>> \in Seq(Shown) /\ <<>> \in Seq(Shown)
      BY <1>1, <1>2
    <3> QED
      BY <3>1, DecodedTyped, CharShown
  <2>8. NothingLost'
    <3>1. CASE playPc = "decode"
      BY <1>1, <2>2, <2>6, <2>7, <3>1, PendingByte, PendingNext
    <3>2. CASE playPc = "write"
      BY <1>1, <2>2, <2>6, <2>7, <3>2, PendingByte, PendingNext
    <3>3. CASE playPc \notin {"decode", "write"}
      BY <1>1, <2>2, <2>6, <2>7, <3>3, PendingByte, PendingNext
    <3> QED
      BY <3>1, <3>2, <3>3
  <2> QED
    BY <2>4, <2>8 DEF PlayerInv
<1>5. CASE EncodeEnd
  <2>1. PlayerTypeOK'
    BY <1>1, <1>5 DEF EncodeEnd, PlayerTypeOK
  <2>2. UNCHANGED <<movie, wire, playPc, msg, screen>>
    BY <1>5 DEF EncodeEnd
  <2>3. NothingLost'
    BY <1>1, <2>2 DEF NothingLost, Shows, Decoded
  <2> QED
    BY <2>1, <2>3 DEF PlayerInv
<1>6. CASE Read
  <2>1. /\ playPc = "read" /\ wire # <<>> /\ msg' = Head(wire) /\ wire' = Tail(wire)
        /\ playPc' = "decode" /\ UNCHANGED <<encPc, movie, screen>>
    BY <1>6 DEF Read
  <2>2. Head(wire) \in Char /\ Tail(wire) \in Seq(Char) /\ Len(Tail(wire)) <= Len(wire)
    BY <1>1, <2>1
  <2>3. PlayerTypeOK'
    BY <1>1, <2>1, <2>2, SizeNat DEF PlayerTypeOK
  <2>4. Decoded(wire) = Decoded(<<msg'>>) \o Decoded(wire')
    BY <1>1, <2>1, DecodedHead
  <2>5. Lossy(screen \o Decoded(wire), movie)
    <3>1. screen \o <<>> = screen
      BY <1>1, <1>2
    <3>2. Lossy(screen \o <<>> \o Decoded(wire), movie)
      BY <1>1, <2>1, PendingByte
    <3> QED
      BY <3>1, <3>2, Zenon
  <2>6. Decoded(<<msg'>>) \in Seq(Shown) /\ Decoded(wire') \in Seq(Shown)
    BY <1>2, <2>1, <2>2, DecodedTyped, CharShown
  <2>7. Lossy(screen' \o Decoded(<<msg'>>) \o Decoded(wire'), movie')
    <3> DEFINE d == Decoded(<<msg'>>)
               r == Decoded(wire')
    <3>1. d \in Seq(Shown) /\ r \in Seq(Shown) /\ screen \in Seq(Shown)
      BY <1>1, <2>6
    <3>2. Lossy(screen \o (d \o r), movie) /\ screen' = screen /\ movie' = movie
      BY <2>1, <2>4, <2>5, Zenon
    <3> HIDE DEF d, r
    <3>3. (screen \o d) \o r = screen \o (d \o r)
      BY <3>1, ConcatThree
    <3>4. Lossy(screen' \o d \o r, movie')
      BY <3>2, <3>3, Zenon
    <3> QED
      BY <3>4 DEF d, r
  <2>8. NothingLost'
    BY <2>1, <2>7, PendingNext
  <2> QED
    BY <2>3, <2>8 DEF PlayerInv
<1>7. CASE ReadEof
  <2>1. /\ playPc = "read" /\ playPc' = "trap"
        /\ UNCHANGED <<encPc, movie, wire, msg, screen>>
    BY <1>7 DEF ReadEof
  <2>2. PlayerTypeOK'
    BY <1>1, <2>1 DEF PlayerTypeOK
  <2>3. NothingLost'
    BY <1>1, <2>1, PendingByte, PendingNext
  <2> QED
    BY <2>2, <2>3 DEF PlayerInv
<1>8. CASE Decode
  <2>1. /\ playPc = "decode" /\ playPc' = "write" /\ msg' = (msg + Size - 1) % Size
        /\ UNCHANGED <<encPc, movie, wire, screen>>
    BY <1>8 DEF Decode
  <2>2. msg' \in Char /\ Decoded(<<msg>>) = <<msg'>>
    BY <1>1, <2>1, DecodedByte
  <2>3. PlayerTypeOK'
    BY <1>1, <2>1, <2>2 DEF PlayerTypeOK
  <2>4. NothingLost'
    BY <1>1, <2>1, <2>2, PendingByte, PendingNext
  <2> QED
    BY <2>3, <2>4 DEF PlayerInv
<1>9. CASE BadCall
  <2>1. /\ playPc = "badcall" /\ playPc' = "read" /\ msg' = (msg + Size - 1) % Size
        /\ UNCHANGED <<encPc, movie, wire, screen>>
    BY <1>9 DEF BadCall
  <2>2. msg' \in Char
    BY <1>1, <2>1, DecodedByte
  <2>3. PlayerTypeOK'
    BY <1>1, <2>1, <2>2 DEF PlayerTypeOK
  <2>4. NothingLost'
    BY <1>1, <2>1, PendingByte, PendingNext
  <2> QED
    BY <2>3, <2>4 DEF PlayerInv
<1>10. CASE Write
  <2>1. /\ playPc = "write" /\ playPc' = "read" /\ screen' = Append(screen, msg)
        /\ UNCHANGED <<encPc, movie, wire, msg>>
    BY <1>10 DEF Write
  <2>2. screen' \in Seq(Shown) /\ screen' = screen \o <<msg>> /\ screen' \o <<>> = screen'
    BY <1>1, <1>2, <2>1
  <2>3. PlayerTypeOK'
    BY <1>1, <2>1, <2>2 DEF PlayerTypeOK, Shown
  <2>4. Lossy(screen \o <<msg>> \o Decoded(wire), movie)
    BY <1>1, <2>1, PendingByte
  <2>5. Lossy(screen' \o <<>> \o Decoded(wire'), movie')
    BY <2>1, <2>2, <2>4
  <2>6. NothingLost'
    BY <2>1, <2>5, PendingNext
  <2> QED
    BY <2>3, <2>6 DEF PlayerInv
<1>11. CASE WriteError
  <2>1. /\ playPc = "write" /\ playPc' = "read" /\ screen' = Append(screen, Gone)
        /\ UNCHANGED <<encPc, movie, wire, msg>>
    BY <1>11 DEF WriteError
  <2>2. /\ screen' \in Seq(Shown) /\ screen' = screen \o <<Gone>> /\ screen' \o <<>> = screen'
        /\ msg \in Shown
    BY <1>1, <1>2, <2>1
  <2>3. PlayerTypeOK'
    BY <1>1, <2>1, <2>2 DEF PlayerTypeOK, Shown
  <2>4. Lossy(screen \o <<msg>> \o Decoded(wire), movie)
    BY <1>1, <2>1, PendingByte
  <2>5. Lossy(screen \o <<Gone>> \o Decoded(wire), movie)
    BY <1>1, <2>2, <2>4, LossyGone, Zenon
  <2>6. Lossy(screen' \o <<>> \o Decoded(wire'), movie')
    BY <2>1, <2>2, <2>5
  <2>7. NothingLost'
    BY <2>1, <2>6, PendingNext
  <2> QED
    BY <2>3, <2>7 DEF PlayerInv
<1>12. CASE ReadError
  <2>1. /\ playPc = "read" /\ playPc' = "badcall" /\ UNCHANGED <<encPc, movie, wire, msg, screen>>
    BY <1>12 DEF ReadError
  <2>2. PlayerTypeOK'
    BY <1>1, <2>1 DEF PlayerTypeOK
  <2>3. NothingLost'
    BY <1>1, <2>1, PendingByte, PendingNext
  <2> QED
    BY <2>2, <2>3 DEF PlayerInv
<1>13. CASE UNCHANGED playerVars
  <2>1. PlayerTypeOK'
    BY <1>1, <1>13 DEF playerVars, PlayerTypeOK
  <2>2. UNCHANGED <<movie, wire, playPc, msg, screen>>
    BY <1>13 DEF playerVars
  <2>3. NothingLost'
    BY <1>1, <2>2 DEF NothingLost, Shows, Decoded
  <2> QED
    BY <2>1, <2>3 DEF PlayerInv
<1> QED
  BY <1>3, <1>4, <1>5, <1>6, <1>7, <1>8, <1>9, <1>10, <1>11, <1>12, <1>13 DEF PlayerNext, Play

(* Whatever characters the movie has, however much the connection holds    *)
(* and whatever reads and writes fail: the screen, the player's byte and   *)
(* the connection together hold the movie, of which each failed write has  *)
(* lost exactly its character and a failed read nothing.                   *)
THEOREM MovieIntact == PlayerSpec => [](PlayerTypeOK /\ NothingLost)
<1>1. PlayerInv => PlayerTypeOK /\ NothingLost
  BY DEF PlayerInv
<1> QED
  BY PlayerInvInit, PlayerInvStep, <1>1, PTL DEF PlayerSpec

-----------------------------------------------------------------------------
(***************************************************************************)
(* The calibration of the time stamp counter.                              *)
(***************************************************************************)

(* The inductive invariant: since the clock was read no more time has      *)
(* passed than the last look and the longest gaps between steps explain.   *)
CalInv ==
    /\ CalTypeOK /\ startCycles <= cycles
    /\ (calPc = "tsc" /\ short) => seen = 0 /\ 0 <= Elapsed /\ Elapsed <= gap
    /\ calPc = "look" => /\ seen < Due /\ 0 <= Elapsed
                         /\ Elapsed <= seen + gap \/ Elapsed <= Gap + gap
    /\ calPc \in {"stop", "done"} => seen \in Due..(Second + Gap)

(* A second, the times and their order. *)
LEMMA ClockNat ==
    /\ Second \in Nat /\ Tenth \in Nat /\ Gap \in Nat /\ 0 < Tenth /\ Tenth < Second
    /\ 2 * Gap < Second /\ Tenth + Gap <= Second /\ 0 < Second
    /\ Due \in Nat /\ 0 < Due /\ Due <= Second
  BY ClockAssumption DEF Due

Total(s, m) == s * Second + m
Since(s, m, s0, m0) == (s - s0) * Second + (m - m0)

(* The time between any two readings of the clock, which tv_nsec alone     *)
(* tells when it is less than a second.                                    *)
LEMMA ElapsedOf ==
    ASSUME NEW s \in Nat, NEW m \in 0..(Second - 1), NEW s0 \in Nat, NEW m0 \in 0..(Second - 1),
           NEW e \in Int, e = Since(s, m, s0, m0)
    PROVE  /\ (0 <= e /\ e < Second) => \/ m >= m0 /\ e = m - m0
                                        \/ m < m0 /\ e = m - m0 + Second
           /\ (Total(s, m) >= Total(s0, m0) + Second) <=> e >= Second
           /\ Since(s + 1, 0, s0, m0) = e + (Second - m)
<1> DEFINE d == s - s0
           p == d * Second
<1>1. Second \in Nat /\ 0 < Second /\ d \in Int /\ p \in Int
  BY ClockNat
<1>2. d >= 2 => p >= 2 * Second
  BY <1>1
<1>3. d <= -1 => p <= -Second
  BY <1>1
<1>4. (d = 1 => p = Second) /\ (d = 0 => p = 0)
  BY <1>1
<1>5. p = s * Second - s0 * Second /\ s * Second \in Int /\ s0 * Second \in Int
  BY <1>1
<1>6. (s + 1 - s0) * Second = p + Second
  BY <1>1
<1>7. e = p + (m - m0)
  BY DEF Since
<1>8. d <= -1 \/ d = 0 \/ d = 1 \/ d >= 2
  BY <1>1
<1> HIDE DEF d, p
<1>10. (0 <= e /\ e < Second) => \/ m >= m0 /\ e = m - m0
                                 \/ m < m0 /\ e = m - m0 + Second
  BY <1>1, <1>2, <1>3, <1>4, <1>7, <1>8
<1>11. (Total(s, m) >= Total(s0, m0) + Second) <=> e >= Second
  BY <1>1, <1>5, <1>7 DEF Total
<1>12. Since(s + 1, 0, s0, m0) = e + (Second - m)
  BY <1>1, <1>6, <1>7 DEF Since
<1> QED
  BY <1>10, <1>11, <1>12

LEMMA CalInvInit == CalInit => CalInv
<1> SUFFICES ASSUME CalInit PROVE CalInv
  OBVIOUS
<1>1. Zero \in [sec: Nat, nsec: 0..(Second - 1)]
  BY ClockNat DEF Zero
<1>2. short \in BOOLEAN
  BY Zenon DEF CalInit
<1>3. CalTypeOK
  BY <1>1, <1>2, ClockNat DEF CalInit, CalTypeOK
<1> QED
  BY <1>3 DEF CalInit, CalInv

LEMMA CalInvStep == CalInv /\ [CalNext]_calVars => CalInv'
<1> SUFFICES ASSUME CalInv, [CalNext]_calVars PROVE CalInv'
  OBVIOUS
<1> DEFINE s == clock.sec
           m == clock.nsec
           s0 == startClock.sec
           m0 == startClock.nsec
<1>0. /\ clock \in [sec: Nat, nsec: 0..(Second - 1)]
      /\ startClock \in [sec: Nat, nsec: 0..(Second - 1)]
  BY DEF CalInv, CalTypeOK
<1>1. /\ s \in Nat /\ m \in 0..(Second - 1) /\ s0 \in Nat /\ m0 \in 0..(Second - 1)
      /\ cycles \in Nat /\ startCycles \in Nat /\ startCycles <= cycles /\ rate \in Nat
      /\ gap \in Nat /\ gap <= Gap /\ seen \in Nat /\ short \in BOOLEAN
  BY ClockNat DEF CalInv, CalTypeOK
<1>2. /\ s \in Nat /\ m \in 0..(Second - 1) /\ s0 \in Nat /\ m0 \in 0..(Second - 1)
      /\ Elapsed = Since(s, m, s0, m0)
  BY <1>1 DEF Elapsed, Since
<1> HIDE DEF s, m, s0, m0
<1>12. /\ Elapsed \in Int
       /\ (0 <= Elapsed /\ Elapsed < Second) => \/ m >= m0 /\ Elapsed = m - m0
                                                \/ m < m0 /\ Elapsed = m - m0 + Second
       /\ (Total(s, m) >= Total(s0, m0) + Second) <=> Elapsed >= Second
       /\ Since(s + 1, 0, s0, m0) = Elapsed + (Second - m)
  <2>1. Elapsed \in Int
    BY <1>2, ClockNat DEF Since
  <2> DEFINE e == Elapsed
  <2>2. e \in Int /\ e = Since(s, m, s0, m0)
    BY <1>2, <2>1
  <2> HIDE DEF e
  <2>3. /\ (0 <= e /\ e < Second) => \/ m >= m0 /\ e = m - m0
                                     \/ m < m0 /\ e = m - m0 + Second
        /\ (Total(s, m) >= Total(s0, m0) + Second) <=> e >= Second
        /\ Since(s + 1, 0, s0, m0) = e + (Second - m)
    BY <1>2, <2>2, ElapsedOf
  <2> QED
    BY <2>1, <2>3 DEF e
<1>3. CASE CalStart
  <2>1. clock' \in [sec: Nat, nsec: 0..(Second - 1)]
    BY <1>3 DEF CalStart
  <2>2. calPc' \in {"clock", "tsc"} /\ short' \in BOOLEAN /\ (calPc' = "tsc" => ~short')
    BY <1>3 DEF CalStart
  <2>3. UNCHANGED <<cycles, gap, startClock, startCycles, rate, seen>>
    BY <1>3 DEF CalStart
  <2> QED
    BY <2>1, <2>2, <2>3 DEF CalInv, CalTypeOK
<1>4. CASE Tick
  <2>1. /\ cycles' = cycles + 1 /\ gap' = gap + 1 /\ gap < Gap
        /\ UNCHANGED <<calPc, short, startClock, startCycles, rate, seen>>
    BY <1>4 DEF Tick
  <2>2. clock' \in [sec: Nat, nsec: 0..(Second - 1)] /\ Elapsed' = Elapsed + 1
    <3>1. CASE clock.nsec + 1 < Second
      <4>1. clock' = [clock EXCEPT !.nsec = @ + 1]
        BY <1>4, <3>1 DEF Tick
      <4>2. clock'.sec = clock.sec /\ clock'.nsec = clock.nsec + 1
        BY <1>0, <4>1
      <4>3. clock' \in [sec: Nat, nsec: 0..(Second - 1)]
        BY <1>0, <3>1, <4>1, ClockNat
      <4>4. (clock.sec - startClock.sec) * Second \in Int
        BY <1>1, ClockNat DEF s, m, s0, m0
      <4> QED
        BY <1>1, <2>1, <4>2, <4>3, <4>4 DEF Elapsed, s, m, s0, m0
    <3>2. CASE ~(clock.nsec + 1 < Second)
      <4>1. clock' = [sec |-> clock.sec + 1, nsec |-> 0]
        BY <1>4, <3>2 DEF Tick
      <4>2. clock.nsec = Second - 1
        BY <1>1, <3>2, ClockNat DEF s, m
      <4>3. clock' \in [sec: Nat, nsec: 0..(Second - 1)]
        BY <1>0, <4>1, ClockNat
      <4>4. Elapsed' = Since(s + 1, 0, s0, m0)
        <5>1. clock'.sec = clock.sec + 1 /\ clock'.nsec = 0 /\ startClock' = startClock
          BY <2>1, <4>1
        <5> QED
          BY <1>1, <5>1, ClockNat DEF Elapsed, Since, s, m, s0, m0
      <4>5. Elapsed' = Elapsed + 1
        BY <1>1, <1>12, <4>2, <4>4, ClockNat DEF s, m
      <4> QED
        BY <4>3, <4>5
    <3> QED
      BY <3>1, <3>2
  <2>3. CalTypeOK'
    BY <1>1, <2>1, <2>2, ClockNat DEF CalInv, CalTypeOK
  <2>4. Due' = Due /\ startCycles' <= cycles'
    BY <1>1, <2>1 DEF Due
  <2> QED
    BY <1>1, <1>12, <2>1, <2>2, <2>3, <2>4, ClockNat DEF CalInv
<1>5. CASE ReadClock
  <2>1. /\ calPc = "clock" /\ startClock' = clock /\ calPc' = IF short THEN "tsc" ELSE "look"
        /\ gap' = 0 /\ seen' = 0 /\ UNCHANGED <<short, clock, cycles, startCycles, rate>>
    BY <1>5 DEF ReadClock
  <2>2. Elapsed' = 0
    <3>1. Elapsed' = Since(s, m, s, m)
      BY <2>1 DEF Elapsed, Since, s, m
    <3> QED
      BY <1>1, <3>1, ClockNat DEF Since
  <2>3. CalTypeOK'
    BY <1>0, <2>1, ClockNat DEF CalInv, CalTypeOK
  <2>4. Due' = Due /\ calPc' \in {"tsc", "look"}
    BY <2>1 DEF Due
  <2> QED
    BY <1>1, <2>1, <2>2, <2>3, <2>4, ClockNat DEF CalInv
<1>6. CASE ReadTsc
  <2>1. /\ calPc = "tsc" /\ startCycles' = cycles /\ calPc' = IF short THEN "look" ELSE "clock"
        /\ gap' = 0 /\ UNCHANGED <<short, clock, cycles, startClock, rate, seen>>
    BY <1>6 DEF ReadTsc
  <2>2. CalTypeOK'
    BY <1>1, <2>1, ClockNat DEF CalInv, CalTypeOK
  <2>3. Due' = Due /\ Elapsed' = Elapsed
    BY <2>1 DEF Due, Elapsed
  <2> QED
    BY <1>1, <1>12, <2>1, <2>2, <2>3, ClockNat DEF CalInv
<1>7. CASE Look
  <2>1. /\ calPc = "look" /\ calPc' = (IF WaitOver THEN "stop" ELSE "look")
        /\ gap' = 0 /\ seen' = Elapsed
        /\ UNCHANGED <<short, clock, cycles, startClock, startCycles, rate>>
    BY <1>7 DEF Look
  <2>2. /\ 0 <= Elapsed /\ seen < Due
        /\ Elapsed <= seen + gap \/ Elapsed <= Gap + gap
    BY <2>1 DEF CalInv
  <2>3. WaitOver <=> Elapsed >= Due
    <3>1. CASE short
      <4>1. Elapsed < Second /\ Due = Tenth
        BY <1>1, <1>12, <2>2, <3>1, ClockNat DEF Due
      <4>2. WaitOver <=> IF m0 > m THEN m + Second >= m0 + Tenth
                                            ELSE m >= m0 + Tenth
        BY <3>1 DEF WaitOver, s, m, s0, m0
      <4> QED
        BY <1>1, <1>12, <2>2, <4>1, <4>2, ClockNat
    <3>2. CASE ~short
      BY <1>12, <3>2 DEF WaitOver, Total, Due, s, m, s0, m0
    <3> QED
      BY <3>1, <3>2
  <2>4. CalTypeOK'
    BY <1>1, <1>12, <2>1, <2>2, ClockNat DEF CalInv, CalTypeOK
  <2>5. Due' = Due /\ Elapsed' = Elapsed
    BY <2>1 DEF Due, Elapsed
  <2>6. Elapsed <= Second + Gap
    BY <1>1, <1>12, <2>2, ClockNat
  <2> QED
    BY <1>1, <1>12, <2>1, <2>2, <2>3, <2>4, <2>5, <2>6, ClockNat DEF CalInv
<1>8. CASE Stop
  <2>1. /\ calPc = "stop" /\ rate' = (cycles - startCycles) * (IF short THEN 10 ELSE 1)
        /\ calPc' = "done" /\ gap' = 0
        /\ UNCHANGED <<short, clock, cycles, startClock, startCycles, seen>>
    BY <1>8 DEF Stop
  <2>2. rate' \in Nat
    BY <1>1, <2>1
  <2>3. CalTypeOK'
    BY <1>1, <2>1, <2>2, ClockNat DEF CalInv, CalTypeOK
  <2>4. Due' = Due
    BY <2>1 DEF Due
  <2> QED
    BY <1>1, <2>1, <2>3, <2>4 DEF CalInv
<1>9. CASE UNCHANGED calVars
  <2>1. CalTypeOK' /\ Due' = Due /\ Elapsed' = Elapsed
    BY <1>9 DEF CalInv, calVars, CalTypeOK, Due, Elapsed
  <2> QED
    BY <1>9, <2>1 DEF CalInv, calVars
<1> QED
  BY <1>3, <1>4, <1>5, <1>6, <1>7, <1>8, <1>9 DEF CalNext, ThreadStep

(* The busy wait of rdtsc.h, which looks at tv_nsec alone, and the one of  *)
(* rtdsc.h end at the first look after their time has come, wherever in a  *)
(* second they began, for every resolution of the clock and every length   *)
(* of the gaps that a roll-over can still be told from.                    *)
THEOREM WaitExact == CalSpec => [](CalTypeOK /\ WaitIsExact)
<1>1. CalInv => CalTypeOK /\ WaitIsExact
  BY DEF CalInv, WaitIsExact
<1> QED
  BY CalInvInit, CalInvStep, <1>1, PTL DEF CalSpec

-----------------------------------------------------------------------------
(***************************************************************************)
(* crc32 computes the frame check sequence, for every width of the         *)
(* register that is a number of bytes and every generator.                 *)
(***************************************************************************)

(* The inductive invariant: what is left of a byte is what was not shifted *)
(* out of it.                                                              *)
CrcInv ==
    /\ CrcTypeOK
    /\ crcPc # "done" => fcs = NONE
    /\ crcPc = "shift" => Len(bytes) > 0 /\ value = bytes[Len(bytes)] \div 2^shifts

LEMMA CrcNat == W \in Nat /\ W > 0 /\ W % 8 = 0 /\ MaxChars \in Nat
  BY CrcAssumption

LEMMA NotShifted ==
    ASSUME NEW v \in 0..255
    PROVE  v \div 2^0 = v
<1>1. 2^0 = 1 /\ v \div 1 = v
  OBVIOUS
<1> QED
  BY <1>1, Zenon

(* Shifting a byte down once more. *)
LEMMA ShiftedOnce ==
    ASSUME NEW v \in 0..255, NEW k \in 0..7
    PROVE  (v \div 2^k) \div 2 = v \div 2^(k + 1)
<1>1. /\ 2^0 = 1 /\ 2^1 = 2 /\ 2^2 = 4 /\ 2^3 = 8 /\ 2^4 = 16 /\ 2^5 = 32 /\ 2^6 = 64
      /\ 2^7 = 128 /\ 2^8 = 256
  OBVIOUS
<1>2. CASE k = 0
  <2>1. k + 1 = 1 /\ (v \div 1) \div 2 = v \div 2
    BY <1>2
  <2>2. 2^k = 1 /\ 2^(k + 1) = 2
    BY <1>1, <1>2, <2>1
  <2> QED
    BY <2>1, <2>2
<1>3. CASE k = 1
  <2>1. k + 1 = 2 /\ (v \div 2) \div 2 = v \div 4
    BY <1>3
  <2>2. 2^k = 2 /\ 2^(k + 1) = 4
    BY <1>1, <1>3, <2>1
  <2> QED
    BY <2>1, <2>2
<1>4. CASE k = 2
  <2>1. k + 1 = 3 /\ (v \div 4) \div 2 = v \div 8
    BY <1>4
  <2>2. 2^k = 4 /\ 2^(k + 1) = 8
    BY <1>1, <1>4, <2>1
  <2> QED
    BY <2>1, <2>2
<1>5. CASE k = 3
  <2>1. k + 1 = 4 /\ (v \div 8) \div 2 = v \div 16
    BY <1>5
  <2>2. 2^k = 8 /\ 2^(k + 1) = 16
    BY <1>1, <1>5, <2>1
  <2> QED
    BY <2>1, <2>2
<1>6. CASE k = 4
  <2>1. k + 1 = 5 /\ (v \div 16) \div 2 = v \div 32
    BY <1>6
  <2>2. 2^k = 16 /\ 2^(k + 1) = 32
    BY <1>1, <1>6, <2>1
  <2> QED
    BY <2>1, <2>2
<1>7. CASE k = 5
  <2>1. k + 1 = 6 /\ (v \div 32) \div 2 = v \div 64
    BY <1>7
  <2>2. 2^k = 32 /\ 2^(k + 1) = 64
    BY <1>1, <1>7, <2>1
  <2> QED
    BY <2>1, <2>2
<1>8. CASE k = 6
  <2>1. k + 1 = 7 /\ (v \div 64) \div 2 = v \div 128
    BY <1>8
  <2>2. 2^k = 64 /\ 2^(k + 1) = 128
    BY <1>1, <1>8, <2>1
  <2> QED
    BY <2>1, <2>2
<1>9. CASE k = 7
  <2>1. k + 1 = 8 /\ (v \div 128) \div 2 = v \div 256
    BY <1>9
  <2>2. 2^k = 128 /\ 2^(k + 1) = 256
    BY <1>1, <1>9, <2>1
  <2> QED
    BY <2>1, <2>2
<1> QED
  BY <1>2, <1>3, <1>4, <1>5, <1>6, <1>7, <1>8, <1>9

LEMMA CrcInvInit == CrcInit => CrcInv
  BY CrcNat DEF CrcInit, CrcInv, CrcTypeOK

LEMMA CrcInvStep == CrcInv /\ [CrcNext]_crcVars => CrcInv'
<1> SUFFICES ASSUME CrcInv, [CrcNext]_crcVars PROVE CrcInv'
  OBVIOUS
<1>1. /\ crcPc \in {"off", "first", "second", "shift", "done"}
      /\ chars \in 0..MaxChars /\ c0 \in 0..15 /\ value \in 0..255 /\ shifts \in 0..8
      /\ crc0 \subseteq 0..(W - 1) /\ bytes \in Seq(0..255)
      /\ crcPc # "done" => fcs = NONE
      /\ crcPc = "shift" => Len(bytes) > 0 /\ value = bytes[Len(bytes)] \div 2^shifts
  BY DEF CrcInv, CrcTypeOK
<1>2. CASE CrcStart
  BY <1>1, <1>2 DEF CrcStart, CrcInv, CrcTypeOK
<1>3. CASE ReadDigit
  <2>1. PICK d \in Digits :
          IF crcPc = "first"
          THEN crcPc' = "second" /\ c0' = d /\ UNCHANGED <<value, shifts, bytes>>
          ELSE /\ crcPc' = "shift" /\ value' = 16 * c0 + d /\ shifts' = 0
               /\ bytes' = Append(bytes, value')
               /\ UNCHANGED c0
    BY <1>3 DEF ReadDigit
  <2>2. /\ crcPc \in {"first", "second"} /\ chars < MaxChars /\ chars' = chars + 1
        /\ UNCHANGED <<crc0, fcs>>
    BY <1>3 DEF ReadDigit
  <2>3. d \in 0..15 /\ chars' \in 0..MaxChars
    BY <1>1, <2>2, CrcAssumption
  <2>4. CASE crcPc = "first"
    BY <1>1, <2>1, <2>2, <2>3, <2>4 DEF CrcInv, CrcTypeOK
  <2>5. CASE crcPc # "first"
    <3>1. /\ crcPc' = "shift" /\ value' = 16 * c0 + d /\ shifts' = 0
          /\ bytes' = Append(bytes, value') /\ c0' = c0
      BY <2>1, <2>5
    <3>2. value' \in 0..255
      BY <1>1, <2>3, <3>1
    <3>3. bytes' \in Seq(0..255) /\ Len(bytes') > 0 /\ bytes'[Len(bytes')] = value'
      BY <1>1, <3>1, <3>2
    <3>4. value' = bytes'[Len(bytes')] \div 2^(shifts')
      <4>1. value' \div 2^0 = value'
        BY <3>2, NotShifted
      <4> QED
        BY <3>1, <3>3, <4>1, Zenon
    <3> QED
      BY <1>1, <2>2, <2>3, <3>1, <3>2, <3>3, <3>4 DEF CrcInv, CrcTypeOK
  <2> QED
    BY <2>4, <2>5
<1>4. CASE ReadOther
  BY <1>1, <1>4, CrcNat DEF ReadOther, CrcInv, CrcTypeOK
<1>5. CASE ShiftBit
  <2> DEFINE up == {k + 1 : k \in crc0 \ {W - 1}}
  <2>1. /\ crcPc = "shift" /\ shifts < 8 /\ value' = value \div 2 /\ shifts' = shifts + 1
        /\ crc0' = IF (W - 1 \in crc0) = (value % 2 = 1) THEN up
                   ELSE (up \ Poly) \union (Poly \ up)
        /\ UNCHANGED <<crcPc, chars, c0, fcs, bytes>>
    BY <1>5 DEF ShiftBit
  <2>2. up \subseteq 0..(W - 1)
    BY <1>1, CrcNat
  <2> HIDE DEF up
  <2>3. crc0' \subseteq 0..(W - 1)
    BY <2>1, <2>2, CrcAssumption
  <2>4. value' \in 0..255 /\ shifts' \in 0..8
    BY <1>1, <2>1
  <2>5. value' = bytes'[Len(bytes')] \div 2^(shifts')
    <3>1. bytes[Len(bytes)] \in 0..255 /\ shifts \in 0..7
      <4>1. Len(bytes) \in 1..Len(bytes)
        BY <1>1, <2>1
      <4>2. bytes[Len(bytes)] \in 0..255
        BY <1>1, <4>1, ElementOfSeq
      <4> QED
        BY <1>1, <2>1, <4>2
    <3>2. (bytes[Len(bytes)] \div 2^shifts) \div 2 = bytes[Len(bytes)] \div 2^(shifts + 1)
      BY <3>1, ShiftedOnce
    <3> QED
      BY <1>1, <2>1, <3>2, Zenon
  <2> QED
    BY <1>1, <2>1, <2>3, <2>4, <2>5 DEF CrcInv, CrcTypeOK
<1>6. CASE ByteDone
  BY <1>1, <1>6 DEF ByteDone, CrcInv, CrcTypeOK
<1>7. CASE PrintFcs
  BY <1>1, <1>7 DEF PrintFcs, CrcInv, CrcTypeOK
<1>8. CASE UNCHANGED crcVars
  BY <1>1, <1>8 DEF crcVars, CrcInv, CrcTypeOK
<1> QED
  BY <1>2, <1>3, <1>4, <1>5, <1>6, <1>7, <1>8 DEF CrcNext

-----------------------------------------------------------------------------
(* The refinement of ReflectedCrc: the message and the register seen from  *)
(* the other end.                                                          *)
BitSeq == [i \in 1..BitsIn |-> BitOf(i)]
Mirror(S) == {W - 1 - k : k \in S}

LEMMA Mirrored ==
    ASSUME NEW S, S \subseteq 0..(W - 1), NEW j \in Int
    PROVE  j \in Mirror(S) <=> W - 1 - j \in S
<1>1. ASSUME j \in Mirror(S) PROVE W - 1 - j \in S
  <2>1. PICK k \in S : j = W - 1 - k
    BY <1>1 DEF Mirror
  <2>2. k \in Int /\ W \in Int
    BY CrcNat
  <2>3. W - 1 - j = k
    BY <2>1, <2>2
  <2> QED
    BY <2>1, <2>3
<1>2. ASSUME W - 1 - j \in S PROVE j \in Mirror(S)
  <2>1. j = W - 1 - (W - 1 - j)
    BY CrcNat
  <2> QED
    BY <1>2, <2>1 DEF Mirror
<1> QED
  BY <1>1, <1>2

LEMMA MirrorInt == ASSUME NEW S, S \subseteq 0..(W - 1) PROVE Mirror(S) \subseteq Int
  BY CrcNat DEF Mirror

(* How many bits have been shifted in, and which is the next. *)
LEMMA BitsCount ==
    ASSUME CrcInv
    PROVE  /\ BitsIn \in Nat
           /\ crcPc # "shift" => BitsIn = 8 * Len(bytes)
           /\ crcPc = "shift" => BitsIn = 8 * (Len(bytes) - 1) + shifts
<1>1. Len(bytes) \in Nat /\ shifts \in 0..8 /\ (crcPc = "shift" => Len(bytes) > 0)
  BY DEF CrcInv, CrcTypeOK
<1> QED
  BY <1>1 DEF BitsIn

LEMMA NextBit ==
    ASSUME CrcInv, crcPc = "shift", shifts < 8
    PROVE  BitOf(BitsIn + 1) = value % 2 /\ value % 2 \in {0, 1}
<1> DEFINE l == Len(bytes)
<1>1. l \in Nat /\ l > 0 /\ shifts \in 0..7 /\ value \in 0..255 /\ value = bytes[l] \div 2^shifts
  BY DEF CrcInv, CrcTypeOK
<1>2. BitsIn = 8 * (l - 1) + shifts
  BY BitsCount
<1> HIDE DEF l
<1>4. (8 * (l - 1) + shifts) \div 8 = l - 1 /\ (8 * (l - 1) + shifts) % 8 = shifts
  BY <1>1
<1> DEFINE i == BitsIn + 1
<1>5. 1 + (i - 1) \div 8 = l /\ (i - 1) % 8 = shifts
  <2>1. i - 1 = 8 * (l - 1) + shifts
    BY <1>1, <1>2
  <2>2. (i - 1) \div 8 = l - 1 /\ (i - 1) % 8 = shifts
    BY <1>4, <2>1, Zenon
  <2>3. 1 + (l - 1) = l
    BY <1>1
  <2> QED
    BY <2>2, <2>3, Zenon
<1> HIDE DEF i
<1>6. BitOf(i) = (bytes[l] \div 2^shifts) % 2
  BY <1>5, Zenon DEF BitOf
<1>7. value % 2 \in {0, 1}
  BY <1>1
<1> QED
  BY <1>1, <1>6, <1>7 DEF i

LEMMA FcsFirst == CrcInit => Reflected!FcsInit
<1> SUFFICES ASSUME CrcInit PROVE Reflected!FcsInit
  OBVIOUS
<1>1. BitsIn = 0
  BY DEF CrcInit, BitsIn
<1>2. BitSeq = <<>>
  BY <1>1 DEF BitSeq
<1>3. crc0 = 0..(W - 1)
  BY DEF CrcInit
<1>4. Mirror(crc0) \subseteq Int
  BY <1>3, MirrorInt
<1>5. \A j \in Int : j \in Mirror(crc0) <=> j \in 0..(W - 1)
  <2> SUFFICES ASSUME NEW j \in Int PROVE j \in Mirror(crc0) <=> j \in 0..(W - 1)
    OBVIOUS
  <2>1. j \in Mirror(crc0) <=> W - 1 - j \in 0..(W - 1)
    BY <1>3, Mirrored
  <2> QED
    BY <2>1, CrcNat
<1>6. 0..(W - 1) \subseteq Int
  BY CrcNat
<1>7. Mirror(crc0) = 0..(W - 1)
  BY <1>4, <1>5, <1>6
<1>8. fcs = NONE
  BY DEF CrcInit
<1> QED
  BY <1>2, <1>7, <1>8 DEF Reflected!FcsInit, BitSeq, Mirror

(* Reading and the end of a byte leave the message and the register alone. *)
LEMMA FcsStutter ==
    ASSUME CrcInv, CrcStart \/ ReadDigit \/ ReadOther \/ ByteDone \/ UNCHANGED crcVars
    PROVE  BitSeq' = BitSeq /\ crc0' = crc0 /\ fcs' = fcs
<1>0. CrcInv'
  BY CrcInvStep DEF CrcNext
<1>1. crc0' = crc0 /\ fcs' = fcs
  BY DEF CrcStart, ReadDigit, ReadOther, ByteDone, crcVars
<1>2. BitsIn \in Nat /\ Len(bytes) \in Nat
  BY BitsCount DEF CrcInv, CrcTypeOK
<1>3. CASE bytes' = bytes /\ BitsIn' = BitsIn
  BY <1>1, <1>3 DEF BitSeq, BitOf
<1>4. CASE CrcStart \/ ReadOther \/ UNCHANGED crcVars
  <2>1. bytes' = bytes /\ BitsIn' = BitsIn
    BY <1>4 DEF CrcStart, ReadOther, crcVars, BitsIn
  <2> QED
    BY <1>3, <2>1
<1>5. CASE ByteDone
  <2>1. bytes' = bytes /\ crcPc = "shift" /\ shifts = 8 /\ crcPc' = "first"
    BY <1>5 DEF ByteDone
  <2>2. BitsIn' = BitsIn
    BY <1>2, <2>1 DEF BitsIn
  <2> QED
    BY <1>3, <2>1, <2>2
<1>6. CASE ReadDigit /\ crcPc = "first"
  <2>1. bytes' = bytes /\ crcPc' = "second"
    BY <1>6 DEF ReadDigit
  <2>2. BitsIn' = BitsIn
    BY <1>6, <2>1 DEF BitsIn
  <2> QED
    BY <1>3, <2>1, <2>2
<1>7. CASE ReadDigit /\ crcPc # "first"
  <2>1. crcPc = "second" /\ crcPc' = "shift" /\ shifts' = 0 /\ bytes' = Append(bytes, value')
    BY <1>7 DEF ReadDigit
  <2>2. /\ bytes \in Seq(0..255) /\ value' \in 0..255
    BY <1>0 DEF CrcInv, CrcTypeOK
  <2>3. /\ Len(bytes') = Len(bytes) + 1
        /\ \A i \in 1..Len(bytes) : bytes'[i] = bytes[i]
    BY <2>1, <2>2
  <2>4. BitsIn = 8 * Len(bytes) /\ BitsIn' = BitsIn
    <3>1. BitsIn = 8 * Len(bytes)
      BY <2>1 DEF BitsIn
    <3>2. BitsIn' = 8 * Len(bytes') - (8 - shifts')
      BY <2>1 DEF BitsIn
    <3> QED
      BY <1>2, <2>1, <2>3, <3>1, <3>2
  <2>5. \A i \in 1..BitsIn : BitOf(i)' = BitOf(i)
    <3> SUFFICES ASSUME NEW i \in 1..BitsIn PROVE BitOf(i)' = BitOf(i)
      OBVIOUS
    <3>1. 1 + (i - 1) \div 8 \in 1..Len(bytes)
      BY <1>2, <2>4
    <3>2. bytes'[1 + (i - 1) \div 8] = bytes[1 + (i - 1) \div 8]
      BY <2>3, <3>1
    <3> QED
      BY <3>2 DEF BitOf
  <2> QED
    BY <1>1, <2>4, <2>5 DEF BitSeq
<1> QED
  BY <1>4, <1>5, <1>6, <1>7

(* Shifting up with VALUE is shifting the mirrored register down with the  *)
(* mirrored generator.                                                     *)
LEMMA FcsFeed == CrcInv /\ ShiftBit => Reflected!Feed
<1> SUFFICES ASSUME CrcInv, ShiftBit PROVE Reflected!Feed
  OBVIOUS
<1> DEFINE up == {k + 1 : k \in crc0 \ {W - 1}}
           reg == Mirror(crc0)
           shifted == {k - 1 : k \in reg \ {0}}
           back == Mirror(Poly)
           b == value % 2
<1>1. /\ crcPc = "shift" /\ shifts < 8 /\ shifts' = shifts + 1
      /\ crc0' = IF (W - 1 \in crc0) = (b = 1) THEN up ELSE (up \ Poly) \union (Poly \ up)
      /\ UNCHANGED <<crcPc, fcs, bytes>>
  BY DEF ShiftBit
<1>2. /\ crc0 \subseteq 0..(W - 1) /\ shifts \in 0..8 /\ fcs = NONE
      /\ bytes \in Seq(0..255) /\ Len(bytes) > 0
  BY <1>1 DEF CrcInv, CrcTypeOK
<1>3. BitOf(BitsIn + 1) = b /\ b \in {0, 1}
  BY <1>1, NextBit
<1>4. BitSeq' = Append(BitSeq, b)
  <2>1. BitsIn' = BitsIn + 1 /\ BitsIn \in Nat
    <3>1. BitsIn \in Nat
      BY BitsCount
    <3>2. Len(bytes) \in Nat
      BY <1>2
    <3> QED
      BY <1>1, <1>2, <3>1, <3>2 DEF BitsIn
  <2>2. BitSeq' = [i \in 1..(BitsIn + 1) |-> BitOf(i)]
    BY <1>1, <2>1 DEF BitSeq, BitOf
  <2> HIDE DEF b
  <2> QED
    BY <1>3, <2>1, <2>2 DEF BitSeq
<1>5. up \subseteq 0..(W - 1) /\ Poly \subseteq 0..(W - 1)
  BY <1>2, CrcNat, CrcAssumption
<1>6. \A j \in Int : j \in up <=> j - 1 \in crc0 /\ j - 1 # W - 1
  <2> SUFFICES ASSUME NEW j \in Int PROVE j \in up <=> j - 1 \in crc0 /\ j - 1 # W - 1
    OBVIOUS
  <2>1. ASSUME j \in up PROVE j - 1 \in crc0 /\ j - 1 # W - 1
    <3>1. PICK k \in crc0 \ {W - 1} : j = k + 1
      BY <2>1
    <3>2. j - 1 = k
      BY <1>2, <3>1
    <3> QED
      BY <3>1, <3>2
  <2>2. ASSUME j - 1 \in crc0, j - 1 # W - 1 PROVE j \in up
    <3>1. j = (j - 1) + 1
      OBVIOUS
    <3> QED
      BY <2>2, <3>1
  <2> QED
    BY <2>1, <2>2
<1>7. \A j \in Int : j \in reg <=> W - 1 - j \in crc0
  BY <1>2, Mirrored
<1>8. \A j \in Int : j \in back <=> W - 1 - j \in Poly
  BY <1>5, Mirrored
<1>9. reg \subseteq Int /\ back \subseteq Int
  BY <1>2, <1>5, MirrorInt
<1>10. shifted \subseteq Int /\ \A j \in Int : j \in shifted <=> j + 1 \in reg /\ j + 1 # 0
  <2> HIDE DEF reg
  <2>1. \A k \in reg : k \in Int /\ k - 1 \in Int /\ k - 1 + 1 = k
    BY <1>9
  <2>2. \A j \in Int : j + 1 - 1 = j
    OBVIOUS
  <2> QED
    BY <2>1, <2>2
<1>11. \A j \in Int : j \in shifted <=> W - 1 - j \in up
  <2> SUFFICES ASSUME NEW j \in Int PROVE j \in shifted <=> W - 1 - j \in up
    OBVIOUS
  <2>1. /\ j + 1 \in Int /\ W - 1 - j \in Int /\ W - 1 - (j + 1) = W - 1 - j - 1
        /\ j + 1 # 0 <=> W - 1 - j - 1 # W - 1
    BY CrcNat
  <2> HIDE DEF reg, shifted, up
  <2> QED
    BY <1>6, <1>7, <1>10, <2>1
<1>12. 0 \in reg <=> W - 1 \in crc0
  <2>1. W - 1 - 0 = W - 1
    BY CrcNat
  <2> QED
    BY <1>7, <2>1
<1>13. crc0' \subseteq 0..(W - 1)
  <2> HIDE DEF up
  <2> QED
    BY <1>1, <1>5
<1>14. Mirror(crc0') \subseteq Int /\ \A j \in Int : j \in Mirror(crc0') <=> W - 1 - j \in crc0'
  BY <1>13, Mirrored, MirrorInt
<1> HIDE DEF up, reg, shifted, back, b
<1>15. CASE (W - 1 \in crc0) <=> (b = 1)
  <2>1. crc0' = up /\ ((0 \in reg) <=> (b = 1))
    BY <1>1, <1>12, <1>15
  <2>2. Mirror(crc0') = shifted
    BY <1>10, <1>11, <1>14, <2>1
  <2>3. (0 \in reg) = (b = 1)
    BY <2>1
  <2> QED
    BY <1>1, <1>2, <1>3, <1>4, <2>2, <2>3 DEF Reflected!Feed, BitSeq, Mirror, reg, shifted, back
<1>16. CASE ~((W - 1 \in crc0) <=> (b = 1))
  <2>1. crc0' = (up \ Poly) \union (Poly \ up) /\ ~((0 \in reg) <=> (b = 1))
    BY <1>1, <1>12, <1>16
  <2>2. Mirror(crc0') = (shifted \ back) \union (back \ shifted)
    BY <1>8, <1>9, <1>10, <1>11, <1>14, <2>1
  <2> QED
    BY <1>2, <1>3, <1>4, <1>1, <2>1, <2>2 DEF Reflected!Feed, BitSeq, Mirror, reg, shifted, back
<1> QED
  BY <1>15, <1>16

(* rev8 on each byte of the register is the byte order of the mirrored one. *)
LEMMA FcsSend == CrcInv /\ PrintFcs => Reflected!Send
<1> SUFFICES ASSUME CrcInv, PrintFcs PROVE Reflected!Send
  OBVIOUS
<1>1. /\ crcPc \in {"first", "second"} /\ crcPc' = "done"
      /\ fcs' = {k \in 0..(W - 1) : 8 * (k \div 8) + 7 - (k % 8) \notin crc0}
      /\ UNCHANGED <<crc0, bytes, shifts>>
  BY DEF PrintFcs
<1>2. crc0 \subseteq 0..(W - 1) /\ fcs = NONE
  BY <1>1 DEF CrcInv, CrcTypeOK
<1>3. BitSeq' = BitSeq /\ Mirror(crc0') = Mirror(crc0)
  <2>1. BitsIn' = BitsIn
    BY <1>1 DEF BitsIn
  <2> QED
    BY <1>1, <2>1 DEF BitSeq, BitOf
<1>4. ASSUME NEW k \in 0..(W - 1)
      PROVE  8 * (k \div 8) + 7 - (k % 8) \in crc0
             <=> (W - 8 - 8 * (k \div 8)) + (k % 8) \in Mirror(crc0)
  <2> DEFINE j == (W - 8 - 8 * (k \div 8)) + (k % 8)
  <2>1. j \in Int /\ W - 1 - j = 8 * (k \div 8) + 7 - (k % 8)
    BY CrcNat
  <2> HIDE DEF j
  <2>2. j \in Mirror(crc0) <=> W - 1 - j \in crc0
    BY <1>2, <2>1, Mirrored
  <2> QED
    BY <2>1, <2>2 DEF j
<1>5. fcs' = {k \in 0..(W - 1) : (W - 8 - 8 * (k \div 8)) + (k % 8) \notin Mirror(crc0)}
  BY <1>1, <1>4
<1> QED
  BY <1>2, <1>3, <1>5 DEF Reflected!Send, BitSeq, Mirror

(* Whatever the input and however its digits are spaced, crc32 implements  *)
(* the frame check sequence of IEEE 802.3: its register, shifted upwards,  *)
(* is the reflected one upside down, each message bit is fed once and in   *)
(* order, and reversing the bits of the bytes prints the sequence in the   *)
(* order of transmission.                                                  *)
THEOREM FcsCorrect == CrcSpec => PrintsFcs
<1>1. CrcInv /\ [CrcNext]_crcVars => [Reflected!Feed \/ Reflected!Send]_(Reflected!fcsVars)
  <2> SUFFICES ASSUME CrcInv, [CrcNext]_crcVars
               PROVE  [Reflected!Feed \/ Reflected!Send]_(Reflected!fcsVars)
    OBVIOUS
  <2>1. CASE CrcStart \/ ReadDigit \/ ReadOther \/ ByteDone \/ UNCHANGED crcVars
    <3>1. BitSeq' = BitSeq /\ crc0' = crc0 /\ fcs' = fcs
      BY <2>1, FcsStutter
    <3> QED
      BY <3>1 DEF Reflected!fcsVars, BitSeq
  <2>2. CASE ShiftBit
    BY <2>2, FcsFeed
  <2>3. CASE PrintFcs
    BY <2>3, FcsSend
  <2> QED
    BY <2>1, <2>2, <2>3 DEF CrcNext
<1> QED
  BY <1>1, FcsFirst, CrcInvInit, CrcInvStep, PTL DEF CrcSpec, PrintsFcs, Reflected!FcsSpec

-----------------------------------------------------------------------------
(***************************************************************************)
(* All programs.                                                           *)
(***************************************************************************)
ProgInv == FibInv /\ CsumInv /\ CrcInv /\ PlayerInv /\ CalInv

(* A step of a program keeps the invariant of that program; the others     *)
(* stutter.                                                                *)
LEMMA ProgInvStep ==
    ProgInv /\ [FibNext]_fibVars /\ [CsumNext]_csumVars /\ [CrcNext]_crcVars
            /\ [PlayerNext]_playerVars /\ [CalNext]_calVars => ProgInv'
  BY FibInvStep, CsumInvStep, CrcInvStep, PlayerInvStep, CalInvStep DEF ProgInv

(* Every variable of every program keeps its type, also together with what *)
(* the others do.  That a list of routes too long for its array overruns   *)
(* it is an outcome of the program ("overrun"), where its model ends; a    *)
(* length is a byte's value of one that load_fib has let pass, a negative  *)
(* one included.                                                           *)
THEOREM TypeCorrect == Spec => []TypeOK
<1>1. Init => ProgInv
  BY FibInvInit, CsumInvInit, CrcInvInit, PlayerInvInit, CalInvInit DEF Init, ProgInv
<1>2. ProgInv /\ [Next]_progVars => ProgInv'
  <2> SUFFICES ASSUME ProgInv, [Next]_progVars PROVE ProgInv'
    OBVIOUS
  <2>1. CASE FibNext /\ UNCHANGED <<csumVars, crcVars, playerVars, calVars>>
    BY <2>1, ProgInvStep
  <2>2. CASE CsumNext /\ UNCHANGED <<fibVars, crcVars, playerVars, calVars>>
    BY <2>2, ProgInvStep
  <2>3. CASE CrcNext /\ UNCHANGED <<fibVars, csumVars, playerVars, calVars>>
    BY <2>3, ProgInvStep
  <2>4. CASE PlayerNext /\ UNCHANGED <<fibVars, csumVars, crcVars, calVars>>
    BY <2>4, ProgInvStep
  <2>5. CASE CalNext /\ UNCHANGED <<fibVars, csumVars, crcVars, playerVars>>
    BY <2>5, ProgInvStep
  <2>6. CASE UNCHANGED progVars
    BY <2>6, ProgInvStep DEF progVars
  <2> QED
    BY <2>1, <2>2, <2>3, <2>4, <2>5, <2>6 DEF Next, Run
<1>3. ProgInv => TypeOK
  BY DEF ProgInv, FibInv, CsumInv, CrcInv, PlayerInv, CalInv, TypeOK
<1> QED
  BY <1>1, <1>2, <1>3, PTL DEF Spec
=============================================================================
