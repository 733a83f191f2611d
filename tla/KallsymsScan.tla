--------------------------- MODULE KallsymsScan ---------------------------
(***************************************************************************)
(* get_table_entry reads /proc/kallsyms through a buffer of two halves:    *)
(* each read fills the upper half, the patterns are searched in the whole  *)
(* buffer, and the upper half is moved to the lower one, so that a line    *)
(* that straddles two reads is seen in one piece.                          *)
(*                                                                         *)
(* A character is its position in the file.  A line has a length and ends  *)
(* with the pattern of its symbol, and Prefix characters before a pattern  *)
(* comes the newline that precedes the address (ptr-19).  Only the last    *)
(* read is short; what it leaves of the upper half repeats characters of   *)
(* the lower half, where strnstr has met them first.                       *)
(***************************************************************************)
EXTENDS Integers, Sequences, FiniteSetsExt

CONSTANTS
    HalfBuf,    \* sizeof(buf)/2 (64)
    Prefix,     \* from the newline before a line to the pattern in it (19)
    Kinds,      \* the lines that occur: records of sym, tail (of the pattern) and len
    Symbols,    \* the symbols looked for
    MaxLines    \* bound on the lines of the file

(* "tag" stands for [ixgbe], at the end of a line of any length. *)
ASSUME KallsymsAssumption ==
    /\ HalfBuf \in Nat \ {0} /\ Prefix \in Nat \ {0} /\ MaxLines \in Nat
    /\ \A l \in Kinds : l.tail \in 1..l.len /\ l.len \in Nat
    /\ \A l \in Kinds : l.sym \in Symbols =>
          l.len = Prefix - 1 + l.tail /\ Prefix + l.tail <= HalfBuf + 1

VARIABLES
    scanPc,    \* "off", "scan", "done" or "failed"
    text,      \* the lines of the file
    reads,     \* how many reads were made
    found,     \* the line each symbol's address was taken from, 0 for none, -1 for garbage
    driver_top, driver_bottom,  \* lines too, 0 for none, -1 for garbage
    junk       \* what the uninitialised lower half happens to hold: symbols, "tag"

scanVars == <<scanPc, text, reads, found, driver_top, driver_bottom, junk>>

LineEnd[k \in 0..Len(text)] == IF k = 0 THEN 0 ELSE LineEnd[k - 1] + text[k].len

ScanInit ==
    /\ scanPc = "off" /\ text = <<>> /\ reads = 0
    /\ found = [s \in Symbols |-> 0]
    /\ driver_top = 0 /\ driver_bottom = 0 /\ junk = {}

(* The pointers are cleared, driver_top and driver_bottom are not.  The    *)
(* modules' symbols come after the kernel's.                               *)
OpenKallsyms ==
    /\ scanPc = "off"
    /\ \E n \in 0..MaxLines : text' \in {t \in [1..n -> Kinds] : n > 0 => t[1].sym # "tag"}
    /\ junk' \in SUBSET (Symbols \union {"tag"})
    /\ found' = [s \in Symbols |-> 0]
    /\ scanPc' = "scan"
    /\ UNCHANGED <<reads, driver_top, driver_bottom>>

(* file_open returns NULL: -1 *)
OpenFails ==
    /\ scanPc = "off"
    /\ scanPc' = "failed"
    /\ UNCHANGED <<text, reads, found, driver_top, driver_bottom, junk>>

-----------------------------------------------------------------------------
(* With the r-th read the buffer holds the file from Base(r) on. *)
Base(r) == (r - 2) * HalfBuf
PatternStart(k) == LineEnd[k] - text[k].tail

(* Faulty variant: the upper half is not moved down. *)
VisibleUpperHalf(r) ==
    {k \in DOMAIN text : PatternStart(k) >= Base(r) + HalfBuf /\ LineEnd[k] <= r * HalfBuf}

(* The lines whose pattern is in the buffer after the r-th read *)
Visible(r) == {k \in DOMAIN text : PatternStart(k) >= Base(r) /\ LineEnd[k] <= r * HalfBuf}

(* sscanf(ptr-19): garbage when that is before the buffer, and when the    *)
(* first line of the file has only uninitialised bytes before it.          *)
AddressAt(k, r) ==
    IF PatternStart(k) - Prefix < Base(r) THEN {-1}
    ELSE IF k = 1 THEN {1, -1} ELSE {k}

(* What one search may store: the first match wins, junk comes before it. *)
Lookup(s, r) ==
    LET hits == {k \in Visible(r) : text[k].sym = s}
    IN  IF found[s] # 0 THEN {found[s]}
        ELSE IF r = 1 /\ s \in junk THEN {-1}
        ELSE IF hits = {} THEN {0}
        ELSE AddressAt(Min(hits), r)

(* What the search for a line of the driver may yield, 0 for nothing: the  *)
(* first in the buffer, if the newline before it is there and not its very *)
(* first character; a stale one comes before those of the file.            *)
TagLines(r) ==
    LET tags == {k \in Visible(r) : text[k].sym = "tag"}
        k == Min(tags)
    IN  IF r = 1 /\ "tag" \in junk THEN {0, -1}
        ELSE IF tags # {} /\ LineEnd[k] - text[k].len - 1 > Base(r) THEN {k}
        ELSE {0}

(* A bound after the search, lower or higher than old if beyond holds;     *)
(* which of two addresses is beyond is not known if one is garbage.        *)
Bound(k, old, beyond) ==
    IF k = 0 THEN {old}
    ELSE IF old = 0 THEN {k}
    ELSE IF -1 \in {k, old} THEN {k, old}
    ELSE IF beyond THEN {k} ELSE {old}

(* One turn of the loop: a read that returned something, and the searches *)
ScanWindow ==
    /\ scanPc = "scan" /\ reads * HalfBuf < LineEnd[Len(text)]
    /\ reads' = reads + 1
    /\ found' \in {f \in [Symbols -> -1..Len(text)] : \A s \in Symbols : f[s] \in Lookup(s, reads')}
    /\ \E k \in TagLines(reads') :
          /\ driver_top' \in Bound(k, driver_top, k < driver_top)
          /\ driver_bottom' \in Bound(k, driver_bottom, k > driver_bottom)
    /\ UNCHANGED <<scanPc, text, junk>>

(* file_read returns 0: the file is closed *)
ScanEnd ==
    /\ scanPc = "scan" /\ reads * HalfBuf >= LineEnd[Len(text)]
    /\ scanPc' = "done"
    /\ UNCHANGED <<text, reads, found, driver_top, driver_bottom, junk>>

ScanNext == OpenKallsyms \/ OpenFails \/ ScanWindow \/ ScanEnd

ScanSpec == ScanInit /\ [][ScanNext]_scanVars

-----------------------------------------------------------------------------
LinesOf(s) == {k \in DOMAIN text : text[k].sym = s}

(* get_table_entry takes a symbol's address from the first line that has   *)
(* it, wherever the reads cut the lines, and finds every symbol there is,  *)
(* and the driver's bounds are addresses of its lines.  Only what the      *)
(* buffer holds before the first read can mislead it: a stale symbol, a    *)
(* stale line of the driver, or stale bytes before the file's first line.  *)
SymbolsFound ==
    scanPc = "done" =>
        /\ \A s \in Symbols :
              \/ found[s] = (IF LinesOf(s) = {} THEN 0 ELSE Min(LinesOf(s)))
              \/ found[s] = -1 /\ (s \in junk \/ 1 \in LinesOf(s))
        /\ \A bound \in {driver_top, driver_bottom} :
              \/ bound \in LinesOf("tag") \union {0}
              \/ bound = -1 /\ "tag" \in junk
=============================================================================
