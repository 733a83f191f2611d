-------------------------- MODULE GenpipePointers --------------------------
(***************************************************************************)
(* genpipe_write by several writers at once.  Nothing locks the two        *)
(* pointers that they share, so every load and every store of a pointer is *)
(* a step of its own here.  GenpipeTx models the same function for writers *)
(* that take turns, with the characters and the frames.                    *)
(*                                                                         *)
(* Pointers are offsets from tx_start_ptr and may leave the buffer on      *)
(* either side.  What memory holds is left open: a writer may find a       *)
(* newline wherever it looks.  The order of the accesses is the source's.  *)
(* A value that was just stored is used again without a load in between    *)
(* (667-671), or may be (594-596).                                         *)
(***************************************************************************)
EXTENDS Integers

CONSTANTS
    TxWriters,  \* the threads that write to the device
    TxCap,      \* tx_end_ptr, the size of the buffer less one
    MaxCount,   \* bound on the count of a write
    MaxCalls    \* bound on the calls

ASSUME PointerAssumption == TxCap \in Nat /\ MaxCount \in Nat /\ MaxCalls \in Nat

VARIABLES
    tx_read_ptr, tx_write_ptr,
    txPc,     \* what each writer does next
    count,    \* the count of its call, once cut the characters that are copied
    txReg,    \* the value of a pointer that it has loaded or stored last
    txBack,   \* the tx_read_ptr that it has stored behind a line
    txCr,     \* cr, where its search begins and then where it found a newline
    stored,   \* history: the characters that were copied and then added to a pointer
    calls     \* the calls that the users may still begin

pointers == <<tx_read_ptr, tx_write_ptr>>
txVars == <<tx_read_ptr, tx_write_ptr, txPc, count, txReg, txBack, txCr, stored, calls>>

TxInit ==
    /\ tx_read_ptr = 0 /\ tx_write_ptr = 0
    /\ txPc = [w \in TxWriters |-> "idle"]
    /\ count = [w \in TxWriters |-> 0]
    /\ txReg = [w \in TxWriters |-> 0]
    /\ txBack = [w \in TxWriters |-> 0]
    /\ txCr = [w \in TxWriters |-> 0]
    /\ stored = 0 /\ calls = MaxCalls

Writing(w) == txPc[w] \notin {"idle", "dead"}
At(w, from, to) == txPc[w] = from /\ txPc' = [txPc EXCEPT ![w] = to]
Keep(w, value) == txReg' = [txReg EXCEPT ![w] = value]
Leave(w, from) ==
    /\ At(w, from, "idle")
    /\ count' = [count EXCEPT ![w] = 0] /\ Keep(w, 0) /\ txCr' = [txCr EXCEPT ![w] = 0]

Write(w, n) ==
    /\ calls > 0
    /\ At(w, "idle", "test")
    /\ count' = [count EXCEPT ![w] = n]
    /\ calls' = calls - 1
    /\ UNCHANGED <<pointers, txReg, txBack, txCr, stored>>

(* if ( (tx_write_ptr + count) > tx_end_ptr ) *)
Test(w) ==
    /\ IF tx_write_ptr + count[w] > TxCap THEN At(w, "test", "move") ELSE At(w, "test", "cut")
    /\ UNCHANGED <<pointers, count, txReg, txCr, stored, calls, txBack>>

(* The memcpy of everything up to the write pointer: a negative length is  *)
(* a huge one.                                                             *)
Move(w) ==
    /\ IF tx_write_ptr < 0 THEN At(w, "move", "dead") ELSE At(w, "move", "reset")
    /\ UNCHANGED <<pointers, count, txReg, txCr, stored, calls, txBack>>

(* tx_write_ptr -= (tx_write_ptr - tx_start_ptr), which is a store *)
Reset(w) ==
    /\ At(w, "reset", "rewind")
    /\ tx_write_ptr' = 0
    /\ UNCHANGED <<tx_read_ptr, count, txReg, txCr, stored, calls, txBack>>

Rewind(w) ==
    /\ At(w, "rewind", "cut")
    /\ tx_read_ptr' = 0
    /\ UNCHANGED <<tx_write_ptr, count, txReg, txCr, stored, calls, txBack>>

(* The count is cut to the room that is left.  The comparison is one of    *)
(* unsigned numbers: with the write pointer behind the end nothing is cut. *)
Cut(w) ==
    /\ At(w, "cut", "copy")
    /\ count' = IF tx_write_ptr <= TxCap /\ count[w] > TxCap - tx_write_ptr
                THEN [count EXCEPT ![w] = TxCap - tx_write_ptr] ELSE count
    /\ UNCHANGED <<pointers, txReg, txCr, stored, calls, txBack>>

CopyFails(w) ==
    /\ Leave(w, "copy")
    /\ UNCHANGED <<pointers, stored, calls, txBack>>

(* copy_from_user succeeds; tx_write_ptr += count begins with a load ... *)
LoadWrite(w) ==
    /\ At(w, "copy", "add")
    /\ Keep(w, tx_write_ptr)
    /\ UNCHANGED <<pointers, count, txCr, stored, calls, txBack>>

(* ... and ends with a store. *)
Add(w) ==
    /\ At(w, "add", "scan")
    /\ tx_write_ptr' = txReg[w] + count[w] /\ Keep(w, txReg[w] + count[w])
    /\ stored' = stored + count[w]
    /\ count' = [count EXCEPT ![w] = 0]
    /\ UNCHANGED <<tx_read_ptr, txCr, calls, txBack>>

(* genpipe_write_loop: cr = tx_read_ptr *)
Scan(w) ==
    /\ At(w, "scan", "find")
    /\ txCr' = [txCr EXCEPT ![w] = tx_read_ptr]
    /\ UNCHANGED <<pointers, count, txReg, stored, calls, txBack>>

(* Faulty variant: without the end of a line the call looks again. *)
FindAgain(w) ==
    \E end \in {tx_write_ptr, txReg[w]} :
        /\ IF txCr[w] >= end
           THEN At(w, "find", "scan") /\ UNCHANGED txCr
           ELSE At(w, "find", "parse") /\ \E c \in txCr[w]..(end - 1) : txCr' = [txCr EXCEPT ![w] = c]
        /\ UNCHANGED <<pointers, count, txReg, stored, calls, txBack>>

(* The search goes up to the write pointer, which is loaded once or known  *)
(* from the last store.  When the pointers have crossed, cr is behind it   *)
(* from the beginning, and taken for the end of a line.                    *)
Find(w) ==
    \E end \in {tx_write_ptr, txReg[w]} :
        \/ /\ txCr[w] # end
           /\ \E c \in (txCr[w]..(end - 1)) \union (IF txCr[w] > end THEN {txCr[w]} ELSE {}) :
                 txCr' = [txCr EXCEPT ![w] = c]
           /\ At(w, "find", "parse") /\ Keep(w, 0)
           /\ UNCHANGED <<pointers, count, stored, calls, txBack>>
        \/ /\ txCr[w] <= end
           /\ Leave(w, "find")
           /\ UNCHANGED <<pointers, stored, calls, txBack>>

(* The loop over the line goes on while tx_read_ptr < cr and the frame has  *)
(* room.  Each turn loads the pointer ...                                  *)
Parse(w) ==
    /\ \/ At(w, "parse", "send") /\ UNCHANGED txReg
       \/ tx_read_ptr < txCr[w] /\ At(w, "parse", "next") /\ Keep(w, tx_read_ptr)
    /\ UNCHANGED <<pointers, count, txCr, stored, calls, txBack>>

(* ... and stores it, ++tx_read_ptr. *)
NextChar(w) ==
    /\ At(w, "next", "parse")
    /\ tx_read_ptr' = txReg[w] + 1 /\ Keep(w, 0)
    /\ UNCHANGED <<tx_write_ptr, count, txCr, stored, calls, txBack>>

(* The allocation of the frame fails and skb_reserve crashes. *)
SendOops(w) ==
    /\ At(w, "send", "dead")
    /\ UNCHANGED <<pointers, count, txReg, txCr, stored, calls, txBack>>

(* Faulty variant: what is left is moved in any case. *)
SkipAlways(w) ==
    /\ At(w, "send", "shift")
    /\ tx_read_ptr' = txCr[w] + 1
    /\ UNCHANGED <<tx_write_ptr, count, txReg, txCr, stored, calls, txBack>>

(* The frame is sent.  tx_read_ptr = cr + 1, and what is left is moved if   *)
(* that is not the start.                                                  *)
Skip(w) ==
    /\ tx_read_ptr' = txCr[w] + 1
    /\ \/ txCr[w] + 1 > 0 /\ At(w, "send", "shift") /\ UNCHANGED <<txReg, txCr>>
       \/ /\ txCr[w] + 1 <= 0 /\ Keep(w, tx_write_ptr)
          /\ \/ At(w, "send", "scan") /\ UNCHANGED txCr
             \/ At(w, "send", "find") /\ txCr' = [txCr EXCEPT ![w] = txCr[w] + 1]
    /\ UNCHANGED <<tx_write_ptr, count, stored, calls, txBack>>

(* The memcpy of what is left: a negative length is a huge one. *)
ShiftRest(w) ==
    /\ IF tx_write_ptr - (txCr[w] + 1) < 0 THEN At(w, "shift", "dead")
                                           ELSE At(w, "shift", "shifted")
    /\ UNCHANGED <<pointers, count, txReg, txCr, stored, calls, txBack>>

(* tx_read_ptr -= i *)
LoadShifted(w) ==
    /\ At(w, "shifted", "back")
    /\ Keep(w, tx_read_ptr)
    /\ UNCHANGED <<pointers, count, txCr, stored, calls, txBack>>

Back(w) ==
    /\ At(w, "back", "moved")
    /\ tx_read_ptr' = txReg[w] - (txCr[w] + 1) /\ Keep(w, 0)
    /\ txBack' = [txBack EXCEPT ![w] = txReg[w] - (txCr[w] + 1)]
    /\ UNCHANGED <<tx_write_ptr, count, txCr, stored, calls>>

(* tx_write_ptr -= i *)
LoadMoved(w) ==
    /\ At(w, "moved", "give")
    /\ Keep(w, tx_write_ptr)
    /\ UNCHANGED <<pointers, count, txCr, stored, calls, txBack>>

(* The next search begins at tx_read_ptr, loaded or as it was stored. *)
Give(w) ==
    /\ tx_write_ptr' = txReg[w] - (txCr[w] + 1) /\ Keep(w, txReg[w] - (txCr[w] + 1))
    /\ \/ At(w, "give", "scan") /\ txCr' = [txCr EXCEPT ![w] = 0]
       \/ At(w, "give", "find") /\ txCr' = [txCr EXCEPT ![w] = txBack[w]]
    /\ txBack' = [txBack EXCEPT ![w] = 0]
    /\ UNCHANGED <<tx_read_ptr, count, stored, calls>>

TxStep(w) ==
    \/ Test(w) \/ Move(w) \/ Reset(w) \/ Rewind(w) \/ Cut(w) \/ CopyFails(w)
    \/ LoadWrite(w) \/ Add(w) \/ Scan(w) \/ Find(w) \/ Parse(w) \/ NextChar(w)
    \/ SendOops(w) \/ Skip(w) \/ ShiftRest(w) \/ LoadShifted(w) \/ Back(w)
    \/ LoadMoved(w) \/ Give(w)

TxNext == \E w \in TxWriters : TxStep(w) \/ \E n \in 0..MaxCount : Write(w, n)

(* A thread inside a system call keeps running. *)
TxSpec == TxInit /\ [][TxNext]_txVars /\ \A w \in TxWriters : WF_txVars(TxStep(w))

-----------------------------------------------------------------------------
(* However the writers overlap, the write pointer never runs ahead of the  *)
(* characters that were stored.  Unlocked increments (genpipe_write:591)   *)
(* lose some, and stale stores (672-673) bring an old value back, but no   *)
(* character counts twice, and a line that ends before the buffer moves    *)
(* nothing forward.  Nothing ties the pointer to the end of the buffer:    *)
(* once behind it, writes are not even cut any more (579).                 *)
OverrunBounded == tx_write_ptr <= stored

(* Every write returns, or dies, once no more calls begin: whatever values *)
(* the writers bring back to each other, and wherever newlines seem to be, *)
(* the loop over the lines (genpipe_write:594-676) comes to an end.  While *)
(* others keep calling there is no such promise: each call can bring back  *)
(* the pointer behind a line that was sent.                                *)
WriteReturns == \A w \in TxWriters : calls = 0 /\ Writing(w) ~> ~Writing(w)

(***************************************************************************)
(* The strengthening of OverrunBounded that is inductive: a value on its   *)
(* way back to the pointer is no larger than what was stored either, and   *)
(* what is taken off is positive.                                          *)
(***************************************************************************)
Labels == {"idle", "test", "move", "reset", "rewind", "cut", "copy", "add", "scan", "find",
           "parse", "next", "send", "shift", "shifted", "back", "moved", "give", "dead"}

OverrunInv ==
    /\ tx_read_ptr \in Int /\ tx_write_ptr \in Int /\ stored \in Nat /\ calls \in Nat
    /\ txPc \in [TxWriters -> Labels] /\ count \in [TxWriters -> Nat]
    /\ txReg \in [TxWriters -> Int] /\ txBack \in [TxWriters -> Int]
    /\ txCr \in [TxWriters -> Int]
    /\ OverrunBounded
    /\ \A w \in TxWriters : txPc[w] \in {"add", "give"} => txReg[w] <= stored
    /\ \A w \in TxWriters :
          txPc[w] \in {"shift", "shifted", "back", "moved", "give"} => txCr[w] + 1 > 0
=============================================================================
