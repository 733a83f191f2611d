---------------------------- MODULE IpChecksum ----------------------------
(***************************************************************************)
(* ip_fast_csum, the sum of an IPv4 header in assembler: one register, the *)
(* carry flag from one adcl to the next (lea and decl leave it alone), a   *)
(* fold of the upper half onto the lower one, a complement.                *)
(*                                                                         *)
(* The words are any values: main passes the size of its buffer in bytes   *)
(* where the header's length in words is wanted, so most of what is summed *)
(* there is whatever follows the buffer.                                   *)
(***************************************************************************)
EXTENDS Integers

CONSTANTS
    Half,    \* the number of values of a 16-bit half
    MaxIhl   \* bound on the length passed in, in words

ASSUME ChecksumAssumption == Half \in Nat /\ Half > 1 /\ MaxIhl \in Nat

Register == Half * Half
Word == 0..(Register - 1)
NoResult == -1

VARIABLES
    csumPc,   \* "off", "add", "fold", "raw" or "done"
    sum,      \* register %0
    cf,       \* the carry flag
    left,     \* words still to be added
    csum      \* the value returned, or NoResult

csumVars == <<csumPc, sum, cf, left, csum>>

CsumInit == csumPc = "off" /\ sum = 0 /\ cf = 0 /\ left = 0 /\ csum = NoResult

(* movl (%1), %0; subl $4, %2; jbe 2f *)
FirstWord ==
    /\ csumPc = "off"
    /\ \E w \in Word, ihl \in 0..MaxIhl :
          /\ sum' = w
          /\ left' = ihl - 1
          /\ csumPc' = IF ihl <= 4 THEN "raw" ELSE "add"
    /\ UNCHANGED <<cf, csum>>

(* 2: with ihl at most 4, the lower half of the first word as it is *)
ReturnRaw ==
    /\ csumPc = "raw"
    /\ csum' = sum % Half
    /\ csumPc' = "done"
    /\ UNCHANGED <<sum, cf, left>>

(* Faulty variant: addl where adcl is needed. *)
AddWordNoCarry ==
    /\ csumPc = "add" /\ left > 0
    /\ \E w \in Word : /\ sum' = (sum + w) % Register
                       /\ cf' = (sum + w) \div Register
    /\ left' = left - 1
    /\ UNCHANGED <<csumPc, csum>>

(* addl 4(%1), %0 (cf is clear before it), then an adcl for every further word *)
AddWord ==
    /\ csumPc = "add" /\ left > 0
    /\ \E w \in Word : /\ sum' = (sum + w + cf) % Register
                       /\ cf' = (sum + w + cf) \div Register
    /\ left' = left - 1
    /\ UNCHANGED <<csumPc, csum>>

(* adcl $0, %0 *)
AddCarry ==
    /\ csumPc = "add" /\ left = 0
    /\ sum' = (sum + cf) % Register
    /\ cf' = (sum + cf) \div Register
    /\ csumPc' = "fold"
    /\ UNCHANGED <<left, csum>>

(* movl %0, %2; shrl $16, %0; addw %w2, %w0; adcl $0, %0; notl %0 *)
Fold ==
    /\ csumPc = "fold"
    /\ LET added == (sum \div Half) + (sum % Half)
       IN  csum' = Half - 1 - (((added % Half) + (added \div Half)) % Half)
    /\ csumPc' = "done"
    /\ UNCHANGED <<sum, cf, left>>

CsumNext == FirstWord \/ ReturnRaw \/ AddWord \/ AddCarry \/ Fold

CsumSpec == CsumInit /\ [][CsumNext]_csumVars

-----------------------------------------------------------------------------
CsumTypeOK ==
    /\ csumPc \in {"off", "add", "fold", "raw", "done"}
    /\ sum \in Word /\ cf \in {0, 1}
    /\ left \in -1..MaxIhl
    /\ csum \in 0..(Half - 1) \union {NoResult}

(* Why the last adcl needs no successor: a carry never meets a register    *)
(* that is full.  Inductive together with the types.                       *)
CarryFits ==
    /\ cf = 1 => csumPc = "add" /\ sum < Register - 1
    /\ csumPc = "add" => left >= 0

(* The register and the flag together are the ones-complement sum. *)
Ones == INSTANCE OnesSum WITH
    phase <- CASE csumPc = "off" -> "idle" [] csumPc \in {"add", "fold"} -> "long"
               [] csumPc = "raw" -> "short" [] OTHER -> "done",
    acc <- sum + cf, todo <- left, result <- csum, NONE <- NoResult

(* ip_fast_csum computes the ones-complement sum of all the words, however *)
(* the carries fall, and no carry is lost at its end.                      *)
ChecksumSpec == Ones!SumSpec
=============================================================================
