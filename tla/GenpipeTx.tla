----------------------------- MODULE GenpipeTx -----------------------------
(***************************************************************************)
(* The transmit side of genpipe.c: genpipe_write collects characters in a  *)
(* linear buffer, and sends every complete line, decoded from hexadecimal, *)
(* as a frame.  The buffer, its two pointers and the packet image tmp_pkt  *)
(* are shared by all writers.  Nothing locks them: this module is about    *)
(* writers that take turns, one call at a time, so that an operation on    *)
(* the shared state is one step.  GenpipePointers is about calls that      *)
(* overlap, where every load and every store of a pointer is a step.       *)
(*                                                                         *)
(* Pointers are offsets from tx_start_ptr.  The buffer holds Cap bytes     *)
(* (tx_end_ptr - tx_start_ptr, PACKET_BUF_MAX - 1).                        *)
(***************************************************************************)
EXTENDS Integers, Sequences, SequencesExt, FiniteSetsExt, Subsequences

CONSTANTS
    Writers,    \* the threads that write to the device
    Cap,        \* the size of the transmit buffer
    Mtu,        \* the most bytes in a frame (MTU)
    Chars,      \* the characters the users write, Newline included
    Newline,
    NUL,        \* the character copy_from_user pads with
    DigitVal,   \* the value of each character the driver takes for a digit
    HexVal,     \* the value of each hexadecimal digit
    MaxChunk,   \* bound on the length of one write
    MaxInput    \* bound on the characters written altogether

ASSUME WritersAssumption == IsFiniteSet(Writers) /\ Writers # {}
ASSUME SizeAssumption == /\ Cap \in Nat \ {0} /\ Mtu \in Nat \ {0}
                         /\ MaxChunk \in Nat /\ MaxInput \in Nat
ASSUME CharAssumption == /\ Newline \in Chars /\ NUL \notin Chars
                         /\ DOMAIN HexVal \subseteq DOMAIN DigitVal
                         /\ \A c \in DOMAIN HexVal : HexVal[c] \in 0..15
                         /\ Newline \notin DOMAIN DigitVal

VARIABLES
    buf,      \* the transmit buffer
    rd, wr,   \* tx_read_ptr and tx_write_ptr
    tmp_pkt,  \* the packet image (without its 14 leading zeros)
    pc,       \* what each writer does next
    chunk,    \* what each writer has still to put into the buffer
    cr,       \* where each writer found the end of a line
    flen,     \* frame_len of each writer
    sent,     \* the frames handed to dev_queue_xmit
    left      \* characters that the users may still write

vars == <<buf, rd, wr, tmp_pkt, pc, chunk, cr, flen, sent, left>>
locals == <<chunk, cr, flen>>

Room == 0..Cap
Chunks == UNION {[1..k -> Chars] : k \in 1..MaxChunk}

Init ==
    /\ buf = [i \in Room |-> NUL]
    /\ rd = 0 /\ wr = 0
    /\ tmp_pkt = [i \in 1..Mtu |-> 0]
    /\ pc = [w \in Writers |-> "idle"]
    /\ chunk = [w \in Writers |-> <<>>]
    /\ cr = [w \in Writers |-> 0]
    /\ flen = [w \in Writers |-> 0]
    /\ sent = <<>>
    /\ left = MaxInput

Busy(w) == pc[w] \notin {"idle", "dead"}
Goto(w, step) == pc' = [pc EXCEPT ![w] = step]

Enter(w, s) ==
    /\ pc[w] = "idle" /\ Len(s) <= left
    /\ \A v \in Writers : ~Busy(v)
    /\ chunk' = [chunk EXCEPT ![w] = s]
    /\ left' = left - Len(s)
    /\ Goto(w, "fit")
    /\ UNCHANGED <<buf, rd, wr, tmp_pkt, cr, flen, sent>>

(* Faulty variant: the room that is left is not looked at. *)
FitUnchecked(w) ==
    /\ pc[w] = "fit"
    /\ Goto(w, "copy")
    /\ UNCHANGED <<buf, rd, wr, tmp_pkt, locals, sent, left>>

(* A write that does not fit is meant to move what is pending to the start *)
(* of the buffer, but tx_write_ptr goes back to the start as well.  Then   *)
(* the count is cut to the room that is left.                              *)
Fit(w) ==
    LET full == wr + Len(chunk[w]) > Cap
    IN  /\ pc[w] = "fit"
        /\ buf' = IF full THEN [i \in Room |-> IF i < wr /\ rd + i \in Room THEN buf[rd + i]
                                               ELSE buf[i]]
                  ELSE buf
        /\ rd' = IF full THEN 0 ELSE rd
        /\ wr' = IF full THEN 0 ELSE wr
        /\ chunk' = [chunk EXCEPT ![w] = SubSeq(@, 1, Min({Len(@), Cap - wr'}))]
        /\ Goto(w, "copy")
        /\ UNCHANGED <<tmp_pkt, cr, flen, sent, left>>

Stored(s) == [i \in Room |-> IF i \in wr..(wr + Len(s) - 1) THEN s[i - wr + 1] ELSE buf[i]]

(* copy_from_user succeeds *)
Copy(w) ==
    /\ pc[w] = "copy"
    /\ buf' = Stored(chunk[w])
    /\ Goto(w, "advance")
    /\ UNCHANGED <<rd, wr, tmp_pkt, locals, sent, left>>

(* copy_from_user fails after a prefix and clears the rest: return -EFAULT *)
CopyFault(w) ==
    /\ pc[w] = "copy"
    /\ \E k \in 0..(Len(chunk[w]) - 1) :
          buf' = Stored([i \in DOMAIN chunk[w] |-> IF i <= k THEN chunk[w][i] ELSE NUL])
    /\ chunk' = [chunk EXCEPT ![w] = <<>>]
    /\ Goto(w, "idle")
    /\ UNCHANGED <<rd, wr, tmp_pkt, cr, flen, sent, left>>

(* tx_write_ptr += count *)
Advance(w) ==
    /\ pc[w] = "advance"
    /\ wr' = wr + Len(chunk[w])
    /\ chunk' = [chunk EXCEPT ![w] = <<>>]
    /\ Goto(w, "scan")
    /\ UNCHANGED <<buf, rd, tmp_pkt, cr, flen, sent, left>>

(* genpipe_write_loop: look for the end of a line; without one the call returns *)
Scan(w) ==
    LET ends == {i \in rd..(wr - 1) : buf[i] = Newline}
        end == Min(ends \union {Max({rd, wr})})
    IN  /\ pc[w] = "scan"
        /\ IF end = wr THEN Goto(w, "idle") /\ UNCHANGED cr
                       ELSE Goto(w, "parse") /\ cr' = [cr EXCEPT ![w] = end]
        /\ UNCHANGED <<buf, rd, wr, tmp_pkt, chunk, flen, sent, left>>

IsDigit(c) == c \in DOMAIN DigitVal

(* a | b in a byte, bit by bit *)
OrBit(a, b, weight) == IF (a \div weight) % 2 = 1 \/ (b \div weight) % 2 = 1 THEN weight ELSE 0
ByteOr(a, b) == OrBit(a, b, 1) + OrBit(a, b, 2) + OrBit(a, b, 4) + OrBit(a, b, 8)
                + OrBit(a, b, 16) + OrBit(a, b, 32) + OrBit(a, b, 64) + OrBit(a, b, 128)

(* Faulty variant: the upper digit is not shifted. *)
PacketByteUnshifted(hi, lo) == ByteOr(hi, lo)

(* tmp_pkt[i] = hi << 4 in a byte, then tmp_pkt[i] |= lo *)
PacketByte(hi, lo) == ByteOr(hi * 16, lo)

(* Faulty variant: a line longer than a frame is not cut. *)
FrameLenUncut(digits) == Len(digits) \div 2

(* One byte for two digits, while frame_len < MTU *)
FrameLen(digits) == Min({Mtu, Len(digits) \div 2})

(* The digits of the line fill tmp_pkt, up to MTU bytes; spaces and other  *)
(* characters are skipped.  An odd digit at the end sets the next byte,    *)
(* which does not count.                                                   *)
Parse(w) ==
    LET line == [i \in 1..(cr[w] - rd) |-> buf[rd + i - 1]]
        digits == ElementsAt(line, {i \in DOMAIN line : IsDigit(line[i])})
        bytes == FrameLen(digits)
        before(i) == {j \in rd..(i - 1) : IsDigit(buf[j])}
    IN  /\ pc[w] = "parse"
        /\ flen' = [flen EXCEPT ![w] = bytes]
        /\ tmp_pkt' = [i \in 1..Mtu |->
                          IF i <= bytes
                          THEN PacketByte(DigitVal[digits[2 * i - 1]], DigitVal[digits[2 * i]])
                          ELSE IF 2 * i - 1 = Len(digits) THEN PacketByte(DigitVal[Last(digits)], 0)
                          ELSE tmp_pkt[i]]
        /\ rd' = IF cr[w] < rd THEN rd
                 ELSE Min({cr[w]} \union {i \in rd..cr[w] : Cardinality(before(i)) = 2 * Mtu})
        /\ Goto(w, "send")
        /\ UNCHANGED <<buf, wr, chunk, cr, sent, left>>

(* netdev_alloc_skb, the copy of tmp_pkt and dev_queue_xmit *)
Send(w) ==
    /\ pc[w] = "send"
    /\ sent' = Append(sent, SubSeq(tmp_pkt, 1, flen[w]))
    /\ Goto(w, "compact")
    /\ UNCHANGED <<buf, rd, wr, tmp_pkt, locals, left>>

(* skb_reserve dereferences a failed allocation before it is tested; and   *)
(* skb_put panics when the two bytes it reserved are missing at the end.   *)
SendOops(w) ==
    /\ pc[w] = "send"
    /\ Goto(w, "dead")
    /\ UNCHANGED <<buf, rd, wr, tmp_pkt, locals, sent, left>>

(* tx_read_ptr = cr + 1, and what is left is moved to the start of the buffer *)
Compact(w) ==
    LET from == cr[w] + 1
    IN  /\ pc[w] = "compact"
        /\ buf' = [i \in Room |-> IF from + i < wr THEN buf[from + i] ELSE buf[i]]
        /\ rd' = 0
        /\ wr' = wr - from
        /\ cr' = [cr EXCEPT ![w] = 0]
        /\ flen' = [flen EXCEPT ![w] = 0]
        /\ Goto(w, "scan")
        /\ UNCHANGED <<tmp_pkt, chunk, sent, left>>

Step(w) ==
    \/ Fit(w) \/ Copy(w) \/ CopyFault(w) \/ Advance(w) \/ Scan(w)
    \/ Parse(w) \/ Send(w) \/ SendOops(w) \/ Compact(w)

Next == \E w \in Writers : Step(w) \/ \E s \in Chunks : Enter(w, s)

Spec == Init /\ [][Next]_vars

-----------------------------------------------------------------------------
(* Every variable has its type, and a writer that stores has something to store. *)
TypeOK ==
    /\ buf \in [Room -> Chars \union {NUL}]
    /\ rd \in Nat /\ wr \in Nat
    /\ tmp_pkt \in [1..Mtu -> 0..255]
    /\ pc \in [Writers -> {"idle", "fit", "copy", "advance", "scan", "parse", "send",
                           "compact", "dead"}]
    /\ chunk \in [Writers -> Chunks \union {<<>>}]
    /\ cr \in [Writers -> Nat] /\ flen \in [Writers -> 0..Mtu]
    /\ left \in 0..MaxInput
    /\ \A w \in Writers : pc[w] \in {"fit", "copy", "advance"} => chunk[w] # <<>>

(* The pointers stay in order inside the buffer, every chunk fits behind   *)
(* the write pointer when it is stored, the memcpy of what is left has no  *)
(* negative length, and between calls the pending characters begin at the  *)
(* start of the buffer, as genpipe_write:572-573 assumes when it moves     *)
(* them.                                                                   *)
PointersInBuffer ==
    /\ 0 <= rd /\ rd <= wr /\ wr <= Cap
    /\ \A w \in Writers : pc[w] = "copy" => wr + Len(chunk[w]) <= Cap
    /\ \A w \in Writers : pc[w] = "compact" => cr[w] + 1 <= wr
    /\ (\A w \in Writers : pc[w] = "idle") => rd = 0

(* The strengthening of PointersInBuffer that is inductive *)
Storing == {w \in Writers : pc[w] \in {"copy", "advance"}}

LineFound(w) == pc[w] \in {"parse", "send", "compact"}

SerialInv ==
    /\ \A v, w \in Writers : Busy(v) /\ Busy(w) => v = w
    /\ rd <= wr /\ wr <= Cap
    /\ \A w \in Storing : wr + Len(chunk[w]) <= Cap
    /\ \A w \in Writers : LineFound(w) => rd <= cr[w] /\ cr[w] < wr
    /\ (\A w \in Writers : pc[w] \notin {"send", "compact", "dead"}) => rd = 0

(* The characters accepted and not yet sent, when one writer is at work: a *)
(* line stays pending until it is sent, although parsing it moves rd.      *)
Pending ==
    LET from == IF \E w \in Writers : pc[w] = "compact"
                THEN 1 + cr[CHOOSE w \in Writers : pc[w] = "compact"]
                ELSE IF \E w \in Writers : pc[w] \in {"send", "dead"} THEN 0 ELSE rd
    IN  [i \in 1..(wr - from) |-> buf[from + i - 1]]

Pipe == INSTANCE LinePipe WITH pending <- Pending

(* Every complete line that is written goes out as one frame, in order;    *)
(* only an incomplete line can get lost, when the buffer overflows.        *)
LinesBecomeFrames == Pipe!Spec
=============================================================================
