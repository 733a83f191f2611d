---------------------------- MODULE MCPrograms ----------------------------
(***************************************************************************)
(* The stand-alone user-space programs, for TLC: a behaviour runs one of   *)
(* them.  They share no state, so running two at once would add states and *)
(* no behaviours.                                                          *)
(***************************************************************************)
EXTENDS FibLookup, IpChecksum, Crc32, Player575, RdtscCalib

VARIABLE running   \* the program that was started, or "none"

progVars == <<running, fibVars, csumVars, crcVars, playerVars, calVars>>

MCWorkloads == {<<0, 4, 6, 2, 7>>, <<13, 1, 3, 1, 10>>}

(* Lengths on both sides of the limit, and negative ones: -6 becomes 2, and *)
(* -1 one that is never mapped.                                             *)
MCSubnets == {-6, -1, 0, 2, 3, 4}

EthernetPoly == {0, 1, 2, 4, 5, 7, 8, 10, 11, 12, 16, 22, 23, 26}

Init ==
    /\ running = "none"
    /\ FibInit /\ CsumInit /\ CrcInit /\ PlayerInit /\ CalInit

Run(program, Step) ==
    /\ running \in {"none", program}
    /\ running' = program
    /\ Step

Next ==
    \/ Run("cuda_iplookup", FibNext) /\ UNCHANGED <<csumVars, crcVars, playerVars, calVars>>
    \/ Run("ip_fast_checksum", CsumNext) /\ UNCHANGED <<fibVars, crcVars, playerVars, calVars>>
    \/ Run("crc32", CrcNext) /\ UNCHANGED <<fibVars, csumVars, playerVars, calVars>>
    \/ Run("player575", PlayerNext) /\ UNCHANGED <<fibVars, csumVars, crcVars, calVars>>
    \/ Run("rdtsc", CalNext) /\ UNCHANGED <<fibVars, csumVars, crcVars, playerVars>>

Spec == Init /\ [][Next]_progVars /\ PlayerFairness /\ CalFairness

(* Every program's variables have their types. *)
TypeOK == FibTypeOK /\ CsumTypeOK /\ CrcTypeOK /\ PlayerTypeOK /\ CalTypeOK
=============================================================================
