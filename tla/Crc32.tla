------------------------------- MODULE Crc32 -------------------------------
(***************************************************************************)
(* crc32 reads bytes as pairs of hexadecimal digits, whatever stands       *)
(* between them, up to a '!' or the end of its input, and prints the       *)
(* Ethernet frame check sequence.  It shifts its register upwards, so the  *)
(* bits of each byte are reversed at the end.                              *)
(* A register is the set of its bits that are one.                         *)
(***************************************************************************)
EXTENDS Integers, Sequences

CONSTANTS
    W,         \* width of the register (32)
    Poly,      \* VALUE, the generator
    Digits,    \* the digits that occur in the input
    MaxChars,  \* bound on the characters of the input
    NONE       \* nothing printed yet

ASSUME CrcAssumption == /\ W \in Nat \ {0} /\ W % 8 = 0 /\ Poly \subseteq 0..(W - 1)
                        /\ Digits \subseteq 0..15 /\ MaxChars \in Nat

VARIABLES
    crcPc,   \* "off", "first", "second", "shift" or "done"
    chars,   \* characters read
    c0,      \* the first digit of a pair
    value,   \* the byte, shifted down once for each of its bits
    shifts,  \* i, the number of its bits that are done
    crc0,    \* the register
    fcs,     \* the number printed
    bytes    \* history: the bytes of the message

crcVars == <<crcPc, chars, c0, value, shifts, crc0, fcs, bytes>>

CrcInit ==
    /\ crcPc = "off" /\ chars = 0 /\ c0 = 0 /\ value = 0 /\ shifts = 0
    /\ crc0 = 0..(W - 1) /\ fcs = NONE /\ bytes = <<>>

CrcStart == crcPc = "off" /\ crcPc' = "first"
            /\ UNCHANGED <<chars, c0, value, shifts, crc0, fcs, bytes>>

(* fgetc returns a digit: the first of a pair, or the second *)
ReadDigit ==
    /\ crcPc \in {"first", "second"} /\ chars < MaxChars
    /\ chars' = chars + 1
    /\ \E d \in Digits :
          IF crcPc = "first"
          THEN crcPc' = "second" /\ c0' = d /\ UNCHANGED <<value, shifts, bytes>>
          ELSE /\ crcPc' = "shift" /\ value' = 16 * c0 + d /\ shifts' = 0
               /\ bytes' = Append(bytes, value')
               /\ UNCHANGED c0
    /\ UNCHANGED <<crc0, fcs>>

(* A character that is no digit is skipped, between the digits of a pair too. *)
ReadOther ==
    /\ crcPc \in {"first", "second"} /\ chars < MaxChars
    /\ chars' = chars + 1
    /\ UNCHANGED <<crcPc, c0, value, shifts, crc0, fcs, bytes>>

(* Faulty variant: the message bit is not compared with the register's. *)
ShiftIgnoresBit ==
    /\ crcPc = "shift" /\ shifts < 8
    /\ LET up == {k + 1 : k \in crc0 \ {W - 1}}
       IN  crc0' = IF W - 1 \notin crc0 THEN up ELSE (up \ Poly) \union (Poly \ up)
    /\ value' = value \div 2 /\ shifts' = shifts + 1
    /\ UNCHANGED <<crcPc, chars, c0, fcs, bytes>>

(* crc0 = (crc0 << 1) ^ ((((crc0 >> 31) & 1) ^ (value & 1)) ? VALUE : 0) *)
ShiftBit ==
    /\ crcPc = "shift" /\ shifts < 8
    /\ LET up == {k + 1 : k \in crc0 \ {W - 1}}
       IN  crc0' = IF (W - 1 \in crc0) = (value % 2 = 1) THEN up
                   ELSE (up \ Poly) \union (Poly \ up)
    /\ value' = value \div 2 /\ shifts' = shifts + 1
    /\ UNCHANGED <<crcPc, chars, c0, fcs, bytes>>

ByteDone ==
    /\ crcPc = "shift" /\ shifts = 8
    /\ crcPc' = "first"
    /\ UNCHANGED <<chars, c0, value, shifts, crc0, fcs, bytes>>

(* '!' or EOF: half a pair is dropped, rev8 turns each byte of the register *)
(* around, and the complement is printed.                                   *)
PrintFcs ==
    /\ crcPc \in {"first", "second"}
    /\ crcPc' = "done"
    /\ fcs' = {k \in 0..(W - 1) : 8 * (k \div 8) + 7 - (k % 8) \notin crc0}
    /\ UNCHANGED <<chars, c0, value, shifts, crc0, bytes>>

CrcNext == CrcStart \/ ReadDigit \/ ReadOther \/ ShiftBit \/ ByteDone \/ PrintFcs

CrcSpec == CrcInit /\ [][CrcNext]_crcVars

-----------------------------------------------------------------------------
CrcTypeOK ==
    /\ crcPc \in {"off", "first", "second", "shift", "done"}
    /\ chars \in 0..MaxChars /\ c0 \in 0..15 /\ value \in 0..255 /\ shifts \in 0..8
    /\ crc0 \subseteq 0..(W - 1)
    /\ bytes \in Seq(0..255)

(* The bits that have been shifted in: of each byte the lowest first. *)
BitsIn == 8 * Len(bytes) - (IF crcPc = "shift" THEN 8 - shifts ELSE 0)
BitOf(n) == (bytes[1 + (n - 1) \div 8] \div 2^((n - 1) % 8)) % 2

Reflected == INSTANCE ReflectedCrc WITH
    bits <- [n \in 1..BitsIn |-> BitOf(n)],
    reg <- {W - 1 - k : k \in crc0},
    sent <- fcs

(* crc32 computes the check sequence of the bytes of its input, bit 0 of   *)
(* each first, however they are spaced: its register is the reflected one  *)
(* upside down, and the bytes it prints are in the order of transmission.  *)
PrintsFcs == Reflected!FcsSpec
=============================================================================
