--------------------------- MODULE MemoryEditor ---------------------------
(***************************************************************************)
(* The memory editor, memory/memory.c: a hex dump of a memory device with  *)
(* a cursor, scrolling and paging, and two-digit input that is written at  *)
(* the cursor.  Each key is handled to the end before the next is read, so *)
(* each is one action; the display is redrawn by display_memory only.      *)
(*                                                                         *)
(* Sixteen bytes to a line become Cols, LINES-5 lines on the screen become *)
(* Rows, and a hex digit becomes a digit of base Base.  The device is a    *)
(* ring of Lines lines: addresses wrap around as 64-bit numbers do.        *)
(***************************************************************************)
EXTENDS Integers, FiniteSetsExt

CONSTANTS
    Cols,        \* bytes in a line
    Rows,        \* lines on the screen
    Lines,       \* lines of the device
    Base,        \* number of digits
    Unreadable,  \* the addresses at which read() and write() fail
    MaxDigits    \* bound on the digits typed in one session

Size == Lines * Cols
Addresses == 0..(Size - 1)
Cells == 0..(Rows * Cols - 1)
Digits == 0..(Base - 1)
Bytes == 0..(Base * Base - 1)

ASSUME GeometryAssumption == /\ Cols \in Nat \ {0} /\ Rows \in Nat \ {0}
                             /\ Lines \in Nat /\ Lines >= Rows
ASSUME ContentAssumption == /\ Base \in Nat \ {0} /\ Unreadable \subseteq Addresses
                            /\ MaxDigits \in Nat

VARIABLES
    mem,         \* the contents of the device
    top_addr,    \* the address of the first byte on the screen
    x, y,        \* the cursor's column and row
    n,           \* 0: the next digit is the upper one, 1: the lower one
    idata,       \* the upper digit, or the byte put together last
    autoredraw,  \* is the screen redrawn when no key comes for 500 ms?
    screen,      \* the byte shown in each cell
    running,     \* has the user not left the editor yet?
    typed,       \* history: the number of digits typed
    echoed       \* history: the cells typed into since the last redraw

vars == <<mem, top_addr, x, y, n, idata, autoredraw, screen, running, typed, echoed>>

AddressOf(top, cell) == (top + cell) % Size
CursorCell == y * Cols + x
Cursor == AddressOf(top_addr, CursorCell)

(* display_memory: the result of read() is ignored, so a cell that cannot  *)
(* be read shows what is left in the variable c: the byte read before it,  *)
(* or anything at all (left) when there was none.                          *)
Display(top, left) ==
    [k \in Cells |->
        LET read == {j \in 0..k : AddressOf(top, j) \notin Unreadable}
        IN  IF read = {} THEN left ELSE mem[AddressOf(top, Max(read))]]

Redisplay(top) ==
    /\ top_addr' = top
    /\ \E left \in Bytes : screen' = Display(top, left)
    /\ echoed' = {}

NotRedisplayed == UNCHANGED <<top_addr, screen, echoed>>

Init ==
    /\ mem = [a \in Addresses |-> a % (Base * Base)]   \* so that neighbours differ
    /\ \E input_addr \in Addresses :
          /\ top_addr = input_addr - (input_addr % Cols)
          /\ x = input_addr % Cols
    /\ y = 0 /\ n = 0 /\ idata = 0
    /\ autoredraw = TRUE
    /\ \E left \in Bytes : screen = Display(top_addr, left)
    /\ running = TRUE
    /\ typed = 0
    /\ echoed = {}

-----------------------------------------------------------------------------
(* The keys.  Moving inside the screen forgets a half-typed byte; scrolling *)
(* and paging do not.                                                       *)
Up ==
    /\ \/ y > 0 /\ y' = y - 1 /\ n' = 0 /\ NotRedisplayed
       \/ y = 0 /\ Redisplay((top_addr - Cols) % Size) /\ UNCHANGED <<y, n>>
    /\ UNCHANGED x

(* Faulty variant: the last row scrolls without being redrawn. *)
DownNoRedraw ==
    /\ \/ y < Rows - 1 /\ y' = y + 1 /\ n' = 0 /\ NotRedisplayed
       \/ /\ y >= Rows - 1 /\ top_addr' = (top_addr + Cols) % Size
          /\ UNCHANGED <<y, n, screen, echoed>>
    /\ UNCHANGED x

(* Faulty variant: the cursor stops one row late. *)
DownTooFar ==
    /\ \/ y < Rows /\ y' = y + 1 /\ n' = 0 /\ NotRedisplayed
       \/ y >= Rows /\ Redisplay((top_addr + Cols) % Size) /\ UNCHANGED <<y, n>>
    /\ UNCHANGED x

(* Faulty variant: scrolling in the last row moves the cursor to the first. *)
DownRestarts ==
    /\ \/ y < Rows - 1 /\ y' = y + 1 /\ n' = 0 /\ NotRedisplayed
       \/ y >= Rows - 1 /\ y' = 0 /\ Redisplay((top_addr + Cols) % Size) /\ UNCHANGED n
    /\ UNCHANGED x

Down ==
    /\ \/ y < Rows - 1 /\ y' = y + 1 /\ n' = 0 /\ NotRedisplayed
       \/ y >= Rows - 1 /\ Redisplay((top_addr + Cols) % Size) /\ UNCHANGED <<y, n>>
    /\ UNCHANGED x

Left == x > 0 /\ x' = x - 1 /\ n' = 0 /\ UNCHANGED y /\ NotRedisplayed

Right == x < Cols - 1 /\ x' = x + 1 /\ n' = 0 /\ UNCHANGED y /\ NotRedisplayed

(* Faulty variant: a page is one line longer than the screen. *)
PageDownTooFar == Redisplay((top_addr + (Rows + 1) * Cols) % Size) /\ UNCHANGED <<x, y, n>>

PageDown == Redisplay((top_addr + (Rows - 1) * Cols) % Size) /\ UNCHANGED <<x, y, n>>

PageUp == Redisplay((top_addr - (Rows - 1) * Cols) % Size) /\ UNCHANGED <<x, y, n>>

Navigate ==
    /\ Up \/ Down \/ Left \/ Right \/ PageDown \/ PageUp
    /\ UNCHANGED <<mem, idata, autoredraw, typed>>

(* wgetch timed out, or ESC asks for a redraw *)
Redraw == Redisplay(top_addr) /\ UNCHANGED <<mem, x, y, n, idata, autoredraw, typed>>
Timeout == autoredraw /\ Redraw

(* Ctrl-L *)
ToggleRedraw ==
    /\ autoredraw' = ~autoredraw
    /\ Redisplay(top_addr)
    /\ UNCHANGED <<mem, x, y, n, idata, typed>>

(* waddch echoes the digit at the cursor *)
Echo(byte) ==
    /\ typed < MaxDigits /\ typed' = typed + 1
    /\ screen' = [screen EXCEPT ![CursorCell] = byte]
    /\ echoed' = echoed \union {CursorCell}

UpperDigit(d) ==
    /\ n = 0
    /\ Echo(d * Base + (screen[CursorCell] % Base))
    /\ idata' = d
    /\ n' = 1
    /\ UNCHANGED <<mem, top_addr, x, y, autoredraw>>

SkipAByte ==
    /\ n' = 0
    /\ x' = IF x < Cols - 1 THEN x + 1 ELSE 0
    /\ y' = IF x >= Cols - 1 /\ y < Rows - 1 THEN y + 1 ELSE y

(* The byte is completed and written; the result of write() is ignored. *)
LowerDigit(d) ==
    /\ n = 1
    /\ Echo((screen[CursorCell] \div Base) * Base + d)
    /\ idata' = idata * Base + d
    /\ mem' = IF Cursor \in Unreadable THEN mem ELSE [mem EXCEPT ![Cursor] = idata']
    /\ SkipAByte
    /\ UNCHANGED <<top_addr, autoredraw>>

(* Ctrl-X *)
Exit ==
    /\ running' = FALSE
    /\ UNCHANGED <<mem, top_addr, x, y, n, idata, autoredraw, screen, typed, echoed>>

Key ==
    /\ UNCHANGED running
    /\ \/ Navigate \/ Redraw \/ Timeout \/ ToggleRedraw
       \/ \E d \in Digits : UpperDigit(d) \/ LowerDigit(d)

Next == running /\ (Key \/ Exit)

Spec == Init /\ [][Next]_vars

-----------------------------------------------------------------------------
(* Every variable has its type: the cursor stays on the screen and the     *)
(* screen begins at the beginning of a line.                               *)
TypeOK ==
    /\ mem \in [Addresses -> Bytes]
    /\ top_addr \in Addresses /\ top_addr % Cols = 0
    /\ x \in 0..(Cols - 1) /\ y \in 0..(Rows - 1)
    /\ n \in {0, 1} /\ idata \in Bytes
    /\ autoredraw \in BOOLEAN /\ running \in BOOLEAN
    /\ screen \in [Cells -> Bytes]
    /\ typed \in 0..MaxDigits /\ echoed \subseteq Cells

(* Whatever sequence of scrolling, paging, typing and moving led here, a   *)
(* cell shows the byte of the device at its address, unless digits were    *)
(* typed into it since the last redraw or the byte cannot be read.         *)
ScreenFresh ==
    \A k \in Cells : (k \notin echoed /\ AddressOf(top_addr, k) \notin Unreadable)
                        => screen[k] = mem[AddressOf(top_addr, k)]

(* Moving by one line changes the cursor's address by one line, whether    *)
(* the cursor moves on the screen or the screen scrolls under it.          *)
LineMotion ==
    [][running' => /\ Up => Cursor' = (Cursor - Cols) % Size
                   /\ Down => Cursor' = (Cursor + Cols) % Size]_vars

(* Paging never skips a line: consecutive screens overlap. *)
NoLineSkipped ==
    [][\E j, k \in Cells : AddressOf(top_addr', j) = AddressOf(top_addr, k)]_vars
=============================================================================
