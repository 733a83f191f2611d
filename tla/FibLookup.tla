----------------------------- MODULE FibLookup -----------------------------
(***************************************************************************)
(* cuda_iplookup: load_fib reads routes from a file, mapping_fib expands   *)
(* them into a table with one gateway for every /24, and the addresses of  *)
(* a random workload are looked up, on the host by OpenMP threads and on   *)
(* the GPU by Threads threads that each take a share.                      *)
(*                                                                         *)
(* An address has AddrBits bits (32), the table is indexed by the upper    *)
(* TableBits (24) of them.  int wraps around at IntSize (2^32).            *)
(***************************************************************************)
EXTENDS Integers, Sequences

CONSTANTS
    AddrBits, TableBits,
    LineIps,     \* the addresses a line may name; 2^AddrBits stands for a first octet above 255
    LineSubnets, \* the lengths a line may name, any int
    ByteSize,    \* the number of values of the unsigned char that holds a length (256)
    Gateways,    \* what rand() & 0xff may give; 0 is also what an unrouted entry holds
    MaxRoutes,   \* MAX_ROUTING_TABLE, the size of the array fib
    Workloads,   \* the sequences of addresses that may be looked up
    Threads,     \* blocks * threads of the kernel launch (128)
    IntSize      \* the number of values of an int

ASSUME FibAssumption ==
    /\ AddrBits \in Nat /\ TableBits \in 2..AddrBits
    /\ LineIps \subseteq 0..2^AddrBits /\ LineSubnets \subseteq Int /\ ByteSize \in Nat \ {0}
    /\ 0 \in Gateways /\ Gateways \subseteq Nat
    /\ MaxRoutes \in Nat /\ Threads \in Nat \ {0} /\ IntSize \in Nat
    /\ \A w \in Workloads : w \in Seq(0..(2^AddrBits - 1)) /\ Len(w) * Threads < IntSize \div 2

(* The powers of two, of which the provers know nothing. *)
ASSUME PowerAssumption == \A b \in 0..(AddrBits - 1) : 2^b \in Nat \ {0} /\ 2^(b + 1) = 2 * 2^b

VARIABLES
    fibPc,    \* where the program is; "stuck", "spin" and "overrun" do not end
    fib,      \* the routes loaded: ip, subnet and gw
    subnet,   \* mapping_fib's outer loop variable
    route,    \* mapping_fib's i, from 1
    table,    \* fib_table_h
    queries,  \* routing_table_h
    next,     \* the i of each GPU thread
    results,  \* results_h or results_d; -1 where nothing was stored
    stores    \* history: how often each result was stored by the running lookup

fibVars == <<fibPc, fib, subnet, route, table, queries, next, results, stores>>

Line == [ip: LineIps, subnet: LineSubnets]
Index == 0..(2^TableBits - 1)
HostSize == 2^(AddrBits - TableBits)   \* addresses in one entry: >> 8

FibInit ==
    /\ fibPc = "off" /\ fib = <<>> /\ subnet = 0 /\ route = 0
    /\ table = [a \in Index |-> 0]
    /\ queries = <<>> /\ next = <<>> /\ results = <<>> /\ stores = <<>>

FibStart ==
    /\ fibPc = "off"
    /\ fibPc' = "load"
    /\ UNCHANGED <<fib, subnet, route, table, queries, next, results, stores>>

-----------------------------------------------------------------------------
(* Faulty variant: the length is not tested. *)
RefusedOctetOnly(line) == line.ip \notin 0..(2^AddrBits - 1)

(* ip1 > 255 || subnet > 24: the line is skipped.  A negative length is not. *)
Refused(line) == line.ip \notin 0..(2^AddrBits - 1) \/ line.subnet > TableBits

(* A route is stored, its length in a byte, if the array has room; nothing *)
(* tests that, and the model ends where the array is overrun.              *)
StoreRoute(line, gw, then) ==
    IF Len(fib) < MaxRoutes
    THEN /\ fib' = Append(fib, [ip |-> line.ip, subnet |-> line.subnet % ByteSize, gw |-> gw])
         /\ fibPc' = then
    ELSE fibPc' = "overrun" /\ UNCHANGED fib

(* A line that fscanf can convert; one that is refused changes nothing *)
LoadLine ==
    /\ fibPc = "load"
    /\ \E line \in Line, gw \in Gateways : ~Refused(line) /\ StoreRoute(line, gw, "load")
    /\ UNCHANGED <<subnet, route, table, queries, next, results, stores>>

(* A line that it cannot convert is not consumed and is no EOF: the values *)
(* of the line before, or of the part converted, are taken.                *)
LoadBadLine ==
    /\ fibPc = "load"
    /\ \E line \in Line, gw \in Gateways :
          IF Refused(line) THEN fibPc' = "spin" /\ UNCHANGED fib
                           ELSE StoreRoute(line, gw, "stuck")
    /\ UNCHANGED <<subnet, route, table, queries, next, results, stores>>

(* ... again and again, until the array is overrun (or for ever, if they   *)
(* are refused each time).                                                 *)
LoadAgain ==
    /\ fibPc = "stuck"
    /\ \E gw \in Gateways : StoreRoute(fib[Len(fib)], gw, "stuck")
    /\ UNCHANGED <<subnet, route, table, queries, next, results, stores>>

LoadEof ==
    /\ fibPc = "load"
    /\ fibPc' = "map" /\ subnet' = 2 /\ route' = 1
    /\ UNCHANGED <<fib, table, queries, next, results, stores>>

-----------------------------------------------------------------------------
(* ip_start >> 8 .. ip_end >> 8, with the host part cleared and set *)
RouteRange(r) ==
    LET block == 2^(AddrBits - r.subnet)
        ip_start == (r.ip \div block) * block
        ip_end == ip_start + block - 1
    IN  (ip_start \div HostSize) .. (ip_end \div HostSize)

(* Faulty variant: lengths in descending order. *)
MapRouteDescending ==
    /\ fibPc = "map" /\ subnet <= TableBits /\ route <= Len(fib)
    /\ table' = [a \in Index |->
          IF fib[route].subnet = TableBits + 2 - subnet /\ a \in RouteRange(fib[route])
          THEN fib[route].gw ELSE table[a]]
    /\ route' = route + 1
    /\ UNCHANGED <<fibPc, fib, subnet, queries, next, results, stores>>

(* The body of the inner loop of mapping_fib *)
MapRoute ==
    /\ fibPc = "map" /\ subnet <= TableBits /\ route <= Len(fib)
    /\ table' = [a \in Index |->
          IF fib[route].subnet = subnet /\ a \in RouteRange(fib[route])
          THEN fib[route].gw ELSE table[a]]
    /\ route' = route + 1
    /\ UNCHANGED <<fibPc, fib, subnet, queries, next, results, stores>>

MapNextLength ==
    /\ fibPc = "map" /\ subnet <= TableBits /\ route > Len(fib)
    /\ subnet' = subnet + 1 /\ route' = 1
    /\ UNCHANGED <<fibPc, fib, table, queries, next, results, stores>>

-----------------------------------------------------------------------------
Positions(q) == 1..Len(q)

(* The workload is drawn and iplookup_host called; results_h is not cleared *)
HostStart ==
    /\ fibPc = "map" /\ subnet > TableBits
    /\ \E w \in Workloads :
          /\ queries' = w
          /\ results' = [i \in Positions(w) |-> -1]
          /\ stores' = [i \in Positions(w) |-> 0]
    /\ fibPc' = "host"
    /\ UNCHANGED <<fib, subnet, route, table, next>>

Store(i) ==
    /\ results' = [results EXCEPT ![i] = table[queries[i] \div HostSize]]
    /\ stores' = [stores EXCEPT ![i] = @ + 1]

(* omp parallel for: every iteration once, in any order *)
HostLookup ==
    /\ fibPc = "host"
    /\ \E i \in Positions(queries) : stores[i] = 0 /\ Store(i)
    /\ UNCHANGED <<fibPc, fib, subnet, route, table, queries, next>>

(* Faulty variant: the quotient is taken first, and its remainder is lost. *)
ShareFloor(count, idx) == (count \div Threads) * idx

(* routing_count*idx/total, where the product is an int *)
Share(count, idx) ==
    LET product == (count * idx) % IntSize
    IN  IF product < IntSize \div 2 THEN product \div Threads
        ELSE -((IntSize - product) \div Threads)

(* The tables are copied to the device, results_d is cleared, the kernel starts *)
GpuStart ==
    /\ fibPc = "host" /\ \A i \in Positions(queries) : stores[i] = 1
    /\ fibPc' = "gpu"
    /\ next' = [t \in 0..(Threads - 1) |-> Share(Len(queries), t)]
    /\ results' = [i \in Positions(queries) |-> 0]
    /\ stores' = [i \in Positions(queries) |-> 0]
    /\ UNCHANGED <<fib, subnet, route, table, queries>>

GpuLookup(t) ==
    /\ fibPc = "gpu" /\ next[t] < Share(Len(queries), t + 1)
    /\ Store(next[t] + 1)
    /\ next' = [next EXCEPT ![t] = @ + 1]
    /\ UNCHANGED <<fibPc, fib, subnet, route, table, queries>>

(* cudaThreadSynchronize returns and the results are copied back *)
GpuEnd ==
    /\ fibPc = "gpu"
    /\ \A t \in 0..(Threads - 1) : next[t] >= Share(Len(queries), t + 1)
    /\ fibPc' = "done"
    /\ UNCHANGED <<fib, subnet, route, table, queries, next, results, stores>>

FibNext ==
    \/ FibStart \/ LoadLine \/ LoadBadLine \/ LoadAgain \/ LoadEof \/ MapRoute \/ MapNextLength
    \/ HostStart \/ HostLookup \/ GpuStart \/ GpuEnd
    \/ \E t \in 0..(Threads - 1) : GpuLookup(t)

FibSpec == FibInit /\ [][FibNext]_fibVars

-----------------------------------------------------------------------------
(* What lengths become in a byte: a negative one may become any length. *)
StoredSubnets == {s % ByteSize : s \in {s \in LineSubnets : s <= TableBits}}

FibTypeOK ==
    /\ fibPc \in {"off", "load", "stuck", "spin", "map", "host", "gpu", "done", "overrun"}
    /\ fib \in Seq([ip: 0..(2^AddrBits - 1), subnet: StoredSubnets, gw: Gateways])
    /\ Len(fib) <= MaxRoutes
    /\ subnet \in 0..(TableBits + 1) /\ route \in 0..(MaxRoutes + 1)
    /\ table \in [Index -> Gateways]
    /\ results \in Seq(Gateways \union {-1})

(* Route r is for the addresses of entry a: they agree in its first bits. *)
Matches(r, a) ==
    r.ip \div 2^(AddrBits - r.subnet) = (a * HostSize) \div 2^(AddrBits - r.subnet)

(* Routes mapped so far, in the order of the loops.  The lengths 0 and 1   *)
(* are loaded but never mapped.                                            *)
Mapped == {k \in 1..Len(fib) : /\ fib[k].subnet >= 2
                               /\ \/ fib[k].subnet < subnet
                                  \/ fib[k].subnet = subnet /\ k < route}

(* The gateway of the longest mapped route that matches, the last such     *)
(* route of the file if there are several, and 0 if there is none.         *)
LongestMatch(a) ==
    LET ks == {k \in Mapped : Matches(fib[k], a)}
        best == CHOOSE k \in ks : \A j \in ks :
                    \/ fib[j].subnet < fib[k].subnet
                    \/ fib[j].subnet = fib[k].subnet /\ j <= k
    IN  IF ks = {} THEN 0 ELSE fib[best].gw

(* mapping_fib's table holds at every turn of its loops the longest match  *)
(* among the routes it has mapped: nested and repeated prefixes do not     *)
(* disturb each other.                                                     *)
TableIsLongestMatch ==
    fibPc \in {"map", "host", "gpu", "done"} => \A a \in Index : table[a] = LongestMatch(a)

(* Every thread may run at any speed: when iplookup_gpu is over, each      *)
(* address was looked up by exactly one thread and has its longest match;  *)
(* no index is left out, done twice or out of the array.                   *)
LookupsComplete ==
    /\ \A i \in DOMAIN stores : stores[i] <= 1
    /\ fibPc = "done" => \A i \in Positions(queries) :
          stores[i] = 1 /\ results[i] = LongestMatch(queries[i] \div HostSize)
=============================================================================
