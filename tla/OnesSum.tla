------------------------------ MODULE OnesSum ------------------------------
(***************************************************************************)
(* What an IPv4 header checksum promises: the words of the header are      *)
(* added in ones-complement arithmetic, where the carry out of the top bit *)
(* comes back in at the bottom; the upper half of the sum is added to the  *)
(* lower one in the same way, and the complement of that is the result.    *)
(***************************************************************************)
EXTENDS Integers

CONSTANTS
    Half,   \* the number of values of half a word (2^16)
    NONE    \* no result yet

VARIABLES
    phase,    \* "idle", "long", "short" or "done"
    acc,      \* the ones-complement sum so far
    todo,     \* words of the header not yet added
    result    \* the checksum, or NONE

sumVars == <<phase, acc, todo, result>>

Words == 0..(Half * Half - 1)

(* Addition with end-around carry in a register of size values *)
EndAround(size, a, b) == IF a + b >= size THEN a + b - size + 1 ELSE a + b

SumInit == phase = "idle" /\ acc = 0 /\ todo = 0 /\ result = NONE

(* A header of more than four words is summed. *)
Begin ==
    /\ phase = "idle"
    /\ acc' \in Words
    /\ todo' \in Int
    /\ phase' = IF todo' + 1 > 4 THEN "long" ELSE "short"
    /\ UNCHANGED result

Add ==
    /\ phase = "long" /\ todo > 0
    /\ \E w \in Words : acc' = EndAround(Half * Half, acc, w)
    /\ todo' = todo - 1
    /\ UNCHANGED <<phase, result>>

Emit ==
    /\ phase = "long" /\ todo = 0
    /\ result' = Half - 1 - EndAround(Half, acc \div Half, acc % Half)
    /\ phase' = "done"
    /\ UNCHANGED <<acc, todo>>

(* Of a shorter one, the lower half of the first word is returned. *)
EmitRaw ==
    /\ phase = "short"
    /\ result' = acc % Half
    /\ phase' = "done"
    /\ UNCHANGED <<acc, todo>>

SumSpec == SumInit /\ [][Begin \/ Add \/ Emit \/ EmitRaw]_sumVars
=============================================================================
