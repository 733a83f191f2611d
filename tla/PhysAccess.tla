---------------------------- MODULE PhysAccess ----------------------------
(***************************************************************************)
(* What a physical-memory device promises: a read or a write at a position *)
(* transfers the bytes at that position, one after the other, up to the    *)
(* end of the page, and no call touches any other byte.  There is no       *)
(* window, no page-table entry and no TLB here.                            *)
(***************************************************************************)
EXTENDS Integers, Sequences

CONSTANTS Procs, NFrames, Beyond, PageSize, Values, MaxCount, Home

VARIABLES mem,   \* the contents of physical memory
          req,   \* the request each thread has in progress
          data   \* the bytes each request has transferred so far

Addrs == 0..(NFrames * PageSize - 1)
Positions == 0..((NFrames + Beyond) * PageSize - 1)   \* the last of them have no memory
NoReq == [kind |-> "none", pos |-> 0, len |-> 0]

ToPageEnd(pos) == PageSize - (pos % PageSize)
Transferred(p) == Len(data[p])
More(p) == Transferred(p) < req[p].len
Byte(p) == req[p].pos + Transferred(p)

Init == /\ mem = [a \in Addrs |-> 0]
        /\ req = [p \in Procs |-> NoReq]
        /\ data = [p \in Procs |-> <<>>]

Begin(p) ==
    /\ req[p] = NoReq
    /\ \E kind \in {"read", "write"}, pos \in Positions, count \in 0..MaxCount :
          req' = [req EXCEPT ![p] =
                    [kind |-> kind, pos |-> pos,
                     len |-> IF count <= ToPageEnd(pos) THEN count ELSE ToPageEnd(pos)]]
    /\ UNCHANGED <<mem, data>>

Read(p) ==
    /\ req[p].kind = "read" /\ More(p) /\ Byte(p) \in Addrs
    /\ data' = [data EXCEPT ![p] = Append(@, mem[Byte(p)])]
    /\ UNCHANGED <<mem, req>>

Write(p) ==
    /\ req[p].kind = "write" /\ More(p) /\ Byte(p) \in Addrs
    /\ \E v \in Values : /\ mem' = [mem EXCEPT ![Byte(p)] = v]
                         /\ data' = [data EXCEPT ![p] = Append(@, v)]
    /\ UNCHANGED req

(* The bytes of a write that the caller failed to provide become zeros. *)
GiveUpWrite(p) ==
    /\ req[p].kind = "write" /\ More(p)
    /\ req' = [req EXCEPT ![p].kind = "pad"]
    /\ UNCHANGED <<mem, data>>

Pad(p) ==
    /\ req[p].kind = "pad" /\ More(p) /\ Byte(p) \in Addrs
    /\ mem' = [mem EXCEPT ![Byte(p)] = 0]
    /\ data' = [data EXCEPT ![p] = Append(@, 0)]
    /\ UNCHANGED req

(* A request ends when it has transferred everything, or early if it reads *)
(* or if there is no memory at its position.                               *)
End(p) ==
    /\ req[p] # NoReq
    /\ ~More(p) \/ req[p].kind = "read" \/ Byte(p) \notin Addrs
    /\ req' = [req EXCEPT ![p] = NoReq]
    /\ data' = [data EXCEPT ![p] = <<>>]
    /\ UNCHANGED mem

(* Loading the driver clears the driver's own page. *)
Reload ==
    /\ \A p \in Procs : req[p] = NoReq
    /\ mem' = [a \in Addrs |-> IF a \div PageSize = Home THEN 0 ELSE mem[a]]
    /\ UNCHANGED <<req, data>>

Next == \/ Reload
        \/ \E p \in Procs : \/ Begin(p) \/ Read(p) \/ Write(p)
                            \/ GiveUpWrite(p) \/ Pad(p) \/ End(p)

Spec == Init /\ [][Next]_<<mem, req, data>>
=============================================================================
