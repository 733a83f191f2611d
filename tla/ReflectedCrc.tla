---------------------------- MODULE ReflectedCrc ----------------------------
(***************************************************************************)
(* The frame check sequence as IEEE 802.3 implementations compute it: a    *)
(* register whose bit 0 holds the highest power of x, preset to ones,      *)
(* shifted down once for every bit in the order of transmission; its       *)
(* complement is sent lowest byte first.  A register is the set of its     *)
(* bits that are one.                                                      *)
(***************************************************************************)
EXTENDS Integers, Sequences

CONSTANTS
    W,      \* width of the register (32)
    Poly,   \* the powers of x in the generator below x^W
    NONE

VARIABLES
    bits,   \* the message so far, in the order of transmission
    reg,    \* the register
    sent    \* the check sequence, as the number its bytes spell, or NONE

fcsVars == <<bits, reg, sent>>

FcsInit == bits = <<>> /\ reg = 0..(W - 1) /\ sent = NONE

Feed ==
    /\ sent = NONE
    /\ \E b \in {0, 1} :
          LET shifted == {k - 1 : k \in reg \ {0}}
              back == {W - 1 - k : k \in Poly}
          IN  /\ bits' = Append(bits, b)
              /\ reg' = IF (0 \in reg) = (b = 1) THEN shifted
                        ELSE (shifted \ back) \union (back \ shifted)
    /\ UNCHANGED sent

(* Byte j of the complement is byte W/8 - 1 - j of what is printed. *)
Send ==
    /\ sent = NONE
    /\ sent' = {k \in 0..(W - 1) : (W - 8 - 8 * (k \div 8)) + (k % 8) \notin reg}
    /\ UNCHANGED <<bits, reg>>

FcsSpec == FcsInit /\ [][Feed \/ Send]_fcsVars
=============================================================================
