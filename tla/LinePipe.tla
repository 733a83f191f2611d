----------------------------- MODULE LinePipe -----------------------------
(***************************************************************************)
(* What a line-oriented packet pipe promises: bytes are accepted in order, *)
(* and each complete line, decoded from hexadecimal, becomes one frame, in *)
(* the order of the lines.                                                 *)
(***************************************************************************)
EXTENDS Integers, Sequences, SequencesExt, FiniteSetsExt, Subsequences

CONSTANTS
    Newline,   \* the character that ends a line
    HexVal,    \* the value of each hexadecimal digit
    Mtu        \* the most bytes in a frame

VARIABLES pending,   \* the characters accepted and not yet framed
          sent       \* the frames sent so far

IsHex(c) == c \in DOMAIN HexVal

(* The bytes of a line: its hexadecimal digits in pairs, the rest ignored. *)
Decode(line) ==
    LET digits == ElementsAt(line, {i \in DOMAIN line : IsHex(line[i])})
    IN  [i \in 1..Min({Mtu, Len(digits) \div 2}) |->
            HexVal[digits[2 * i - 1]] * 16 + HexVal[digits[2 * i]]]

Newlines(s) == {i \in DOMAIN s : s[i] = Newline}

Init == pending = <<>> /\ sent = <<>>

Accept ==
    /\ IsPrefix(pending, pending') /\ pending' # pending
    /\ UNCHANGED sent

Emit ==
    /\ Newlines(pending) # {}
    /\ LET cr == Min(Newlines(pending))
       IN  /\ sent' = Append(sent, Decode(SubSeq(pending, 1, cr - 1)))
           /\ pending' = SubSeq(pending, cr + 1, Len(pending))

(* An incomplete line is thrown away: what genpipe_write does when its     *)
(* buffer is full.                                                         *)
Lose ==
    /\ pending # <<>> /\ Newlines(pending) = {}
    /\ pending' = <<>>
    /\ UNCHANGED sent

Spec == Init /\ [][Accept \/ Emit \/ Lose]_<<pending, sent>>
=============================================================================
