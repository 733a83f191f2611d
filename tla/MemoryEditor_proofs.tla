-------------------------- MODULE MemoryEditor_proofs --------------------------
(***************************************************************************)
(* Proofs about the memory editor, for every size of the screen and of the *)
(* device: the cursor stays on the screen, what the screen shows is what   *)
(* the device holds, and moving and paging reach every line.               *)
(***************************************************************************)
EXTENDS MemoryEditor, WellFoundedInduction, TLAPS

-----------------------------------------------------------------------------
(* Addresses are numbers modulo the size of the device. *)
LEMMA Remainder ==
    ASSUME NEW p \in Nat \ {0}, NEW a \in Int
    PROVE  a \div p \in Int /\ a % p \in 0..(p - 1) /\ a = p * (a \div p) + (a % p)
  OBVIOUS

(* The remainder is the only number with that property. *)
LEMMA RemainderUnique ==
    ASSUME NEW p \in Nat \ {0}, NEW a \in Int, NEW q \in Int, NEW r \in 0..(p - 1), a = p * q + r
    PROVE  a % p = r /\ a \div p = q
<1> DEFINE d == a \div p
           m == a % p
<1>1. d \in Int /\ m \in 0..(p - 1) /\ a = p * d + m
  BY Remainder
<1> HIDE DEF d, m
<1>2. p * (d - q) = r - m /\ p * (q - d) = m - r
  <2>1. p * (d - q) = p * d - p * q /\ p * (q - d) = p * q - p * d /\ p * d \in Int /\ p * q \in Int
    BY <1>1
  <2> QED
    BY <1>1, <2>1
<1>3. p * (d - q) < p /\ p * (q - d) < p
  BY <1>1, <1>2
<1>4. d - q < 1 /\ q - d < 1
  BY <1>1, <1>3
<1>5. d = q
  BY <1>1, <1>4
<1>6. m = r
  <2>1. p * q \in Int
    OBVIOUS
  <2> QED
    BY <1>1, <1>5, <2>1
<1> QED
  BY <1>5, <1>6 DEF d, m

LEMMA RemainderSum ==
    ASSUME NEW p \in Nat \ {0}, NEW a \in Int, NEW b \in Int
    PROVE  ((a % p) + b) % p = (a + b) % p
<1> DEFINE d == a \div p
           m == a % p
           e == (m + b) \div p
           r == (m + b) % p
<1>1. d \in Int /\ m \in 0..(p - 1) /\ a = p * d + m
  BY Remainder
<1> HIDE DEF d, m
<1>2. m + b \in Int
  BY <1>1
<1>3. e \in Int /\ r \in 0..(p - 1) /\ m + b = p * e + r
  BY <1>2, Remainder
<1> HIDE DEF e, r
<1>4. a + b = p * (d + e) + r
  <2>1. p * (d + e) = p * d + p * e /\ p * d \in Int /\ p * e \in Int
    BY <1>1, <1>3
  <2> QED
    BY <1>1, <1>3, <2>1
<1>5. (a + b) % p = r
  <2>1. a + b \in Int /\ d + e \in Int
    BY <1>1, <1>3
  <2> QED
    BY <1>3, <1>4, <2>1, RemainderUnique
<1> QED
  BY <1>5 DEF r, m

LEMMA SmallRemainder ==
    ASSUME NEW p \in Nat \ {0}, NEW a \in 0..(p - 1)
    PROVE  a % p = a
  OBVIOUS

(* Two numbers that are less than p apart have different remainders. *)
LEMMA RemainderInjective ==
    ASSUME NEW p \in Nat \ {0}, NEW a \in Int, NEW i \in 0..(p - 1), NEW j \in 0..(p - 1),
           (a + i) % p = (a + j) % p
    PROVE  i = j
<1> DEFINE d == (a + i) \div p
           e == (a + j) \div p
           r == (a + i) % p
           s == (a + j) % p
<1>1. d \in Int /\ r \in 0..(p - 1) /\ a + i = p * d + r
  BY Remainder
<1>2. e \in Int /\ s \in 0..(p - 1) /\ a + j = p * e + s
  BY Remainder
<1>3. r = s
  OBVIOUS
<1> HIDE DEF d, e, r, s
<1>4. p * (d - e) = i - j /\ p * (e - d) = j - i
  <2>1. p * (d - e) = p * d - p * e /\ p * (e - d) = p * e - p * d /\ p * d \in Int /\ p * e \in Int
    BY <1>1, <1>2
  <2> QED
    BY <1>1, <1>2, <1>3, <2>1
<1>5. p * (d - e) < p /\ p * (e - d) < p
  BY <1>1, <1>2, <1>4
<1>6. d - e < 1 /\ e - d < 1
  BY <1>1, <1>2, <1>5
<1>7. d - e = 0
  BY <1>1, <1>2, <1>6
<1>8. p * (d - e) = 0
  BY <1>7
<1> QED
  BY <1>4, <1>8

-----------------------------------------------------------------------------
(* The geometry of the screen. *)
LEMMA Geometry ==
    /\ Cols \in Nat /\ Cols > 0 /\ Rows \in Nat /\ Rows > 0 /\ Lines \in Nat /\ Lines >= Rows
    /\ Size \in Nat \ {0} /\ Rows * Cols \in Nat /\ Rows * Cols <= Size /\ Cols <= Rows * Cols
    /\ Base \in Nat /\ Base > 0 /\ Base * Base \in Nat /\ Base * Base > 0 /\ MaxDigits \in Nat
<1>1. Cols \in Nat /\ Cols > 0 /\ Rows \in Nat /\ Rows > 0 /\ Lines \in Nat /\ Lines >= Rows
  BY GeometryAssumption
<1>2. /\ Lines * Cols \in Nat /\ Lines * Cols > 0
      /\ Rows * Cols \in Nat /\ Rows * Cols <= Lines * Cols /\ Cols <= Rows * Cols
  BY <1>1
<1>3. Base \in Nat /\ Base > 0 /\ MaxDigits \in Nat
  BY ContentAssumption
<1>4. Base * Base \in Nat /\ Base * Base > 0
  BY <1>3
<1> QED
  BY <1>1, <1>2, <1>3, <1>4 DEF Size

LEMMA AddressIn ==
    ASSUME NEW top \in Int, NEW k \in Int
    PROVE  AddressOf(top, k) \in Addresses
<1>1. top + k \in Int
  OBVIOUS
<1> QED
  BY <1>1, Geometry, Remainder DEF AddressOf, Addresses

(* Moving the screen by whole lines keeps it at the beginning of a line. *)
LEMMA WholeLines ==
    ASSUME NEW top \in Addresses, top % Cols = 0, NEW j \in Int
    PROVE  /\ (top + j * Cols) % Size \in Addresses
           /\ ((top + j * Cols) % Size) % Cols = 0
<1> DEFINE t == top \div Cols
           z == top + j * Cols
           q == z \div Size
           r == z % Size
<1>1. top \in Int /\ Cols \in Nat \ {0} /\ Lines \in Int /\ Size \in Nat \ {0} /\ Size = Lines * Cols
  BY Geometry DEF Addresses, Size
<1>2. t \in Int /\ top = Cols * t
  BY <1>1, Remainder
<1>3. z \in Int
  BY <1>1
<1> HIDE DEF t
<1>4. z = Cols * (t + j)
  BY <1>1, <1>2
<1> HIDE DEF z
<1>5. q \in Int /\ r \in 0..(Size - 1) /\ z = Size * q + r
  BY <1>1, <1>3, Remainder
<1> HIDE DEF q, r
<1>6. r = Cols * (t + j - Lines * q) + 0
  <2>1. Size * q = Cols * (Lines * q) /\ Lines * q \in Int
    BY <1>1, <1>5
  <2> DEFINE l == Lines * q
  <2>2. l \in Int /\ r = Cols * (t + j) - Cols * l
    BY <1>1, <1>2, <1>4, <1>5, <2>1
  <2> HIDE DEF l
  <2>3. Cols * (t + j - l) = Cols * (t + j) - Cols * l
    BY <1>1, <1>2, <2>2
  <2>4. Cols * (t + j - l) \in Int
    BY <1>1, <1>2, <2>2
  <2> QED
    BY <2>2, <2>3, <2>4 DEF l
<1>7. r % Cols = 0
  <2>1. t + j - Lines * q \in Int /\ r \in Int /\ 0 \in 0..(Cols - 1)
    BY <1>1, <1>2, <1>5
  <2> QED
    BY <1>1, <1>6, <2>1, RemainderUnique
<1> QED
  BY <1>5, <1>7 DEF r, z, Addresses

(* The cursor is in a cell of the screen. *)
LEMMA CursorOnScreen ==
    ASSUME TypeOK
    PROVE  CursorCell \in Cells /\ CursorCell \in 0..(Size - 1)
<1>1. x \in 0..(Cols - 1) /\ y \in 0..(Rows - 1)
  BY DEF TypeOK
<1>2. y * Cols \in Nat /\ y * Cols + Cols <= Rows * Cols
  <2>1. y + 1 <= Rows /\ (y + 1) * Cols = y * Cols + Cols
    BY <1>1, Geometry
  <2> QED
    BY <1>1, <2>1, Geometry
<1> DEFINE row == y * Cols
           full == Rows * Cols
<1>3. row \in Nat /\ row + Cols <= full /\ full \in Nat /\ full <= Size
  BY <1>2, Geometry
<1> HIDE DEF row, full
<1>4. row + x \in 0..(full - 1) /\ row + x \in 0..(Size - 1)
  BY <1>1, <1>3, Geometry
<1> QED
  BY <1>4 DEF CursorCell, Cells, row, full

-----------------------------------------------------------------------------
(* display_memory shows every byte that can be read in its cell. *)
LEMMA GreatestNumber ==
    ASSUME NEW k \in Nat, NEW S, S \subseteq 0..k, S # {}
    PROVE  Max(S) \in S /\ (k \in S => Max(S) = k)
<1> DEFINE R == OpToRel(<, Nat)
           T == {i \in Nat : k - i \in S}
<1>1. IsWellFoundedOn(R, Nat)
  BY NatLessThanWellFounded
<1>2. \A i, j \in Nat : i < j => <<i, j>> \in R
  BY DEF OpToRel
<1>3. T \subseteq Nat /\ T # {}
  <2>1. PICK s \in S : TRUE
    OBVIOUS
  <2>2. k - s \in Nat /\ k - (k - s) = s
    BY <2>1
  <2> QED
    BY <2>2
<1> HIDE DEF R
<1>4. PICK i \in T : \A j \in T : <<j, i>> \notin R
  <2> HIDE DEF T
  <2> QED
    BY <1>1, <1>3, WFMin
<1> DEFINE m == k - i
<1>5. m \in S /\ m \in Nat
  BY <1>4
<1>6. ASSUME NEW s \in S PROVE m >= s
  <2>1. s \in Nat /\ k - s \in Nat /\ k - (k - s) = s
    OBVIOUS
  <2>2. k - s \in T
    BY <2>1
  <2>3. ~(k - s < i)
    BY <1>2, <1>4, <2>1, <2>2, Zenon
  <2> QED
    BY <1>4, <2>1, <2>3
<1> HIDE DEF m
<1>7. Max(S) \in S /\ \A s \in S : Max(S) >= s
  BY <1>5, <1>6 DEF Max
<1> HIDE DEF Max
<1>8. ASSUME k \in S PROVE Max(S) = k
  <2>1. Max(S) >= k /\ Max(S) \in 0..k
    BY <1>7, <1>8
  <2> QED
    BY <2>1
<1> QED
  BY <1>7, <1>8

LEMMA DisplayShows ==
    ASSUME mem \in [Addresses -> Bytes], NEW top \in Addresses, NEW left \in Bytes
    PROVE  /\ Display(top, left) \in [Cells -> Bytes]
           /\ \A k \in Cells : AddressOf(top, k) \notin Unreadable
                 => Display(top, left)[k] = mem[AddressOf(top, k)]
<1> DEFINE Read(k) == {j \in 0..k : AddressOf(top, j) \notin Unreadable}
           Shown(k) == IF Read(k) = {} THEN left ELSE mem[AddressOf(top, Max(Read(k)))]
<1>1. Display(top, left) = [k \in Cells |-> Shown(k)]
  BY DEF Display
<1>2. ASSUME NEW k \in Cells
      PROVE  /\ Shown(k) \in Bytes
             /\ AddressOf(top, k) \notin Unreadable => Shown(k) = mem[AddressOf(top, k)]
  <2>1. k \in Nat /\ top \in Int
    BY Geometry DEF Cells, Addresses
  <2>2. CASE Read(k) = {}
    <3>1. AddressOf(top, k) \in Unreadable
      BY <2>1, <2>2
    <3> QED
      BY <2>2, <3>1
  <2>3. CASE Read(k) # {}
    <3>1. Read(k) \subseteq 0..k
      OBVIOUS
    <3>2. k \in Read(k) <=> AddressOf(top, k) \notin Unreadable
      BY <2>1
    <3> HIDE DEF Read
    <3>3. Max(Read(k)) \in Read(k) /\ (k \in Read(k) => Max(Read(k)) = k)
      BY <2>1, <2>3, <3>1, GreatestNumber
    <3>4. Max(Read(k)) \in Int
      BY <3>1, <3>3
    <3>5. AddressOf(top, Max(Read(k))) \in Addresses
      BY <2>1, <3>4, AddressIn
    <3>6. Shown(k) = mem[AddressOf(top, Max(Read(k)))]
      BY <2>3
    <3> QED
      BY <3>2, <3>3, <3>5, <3>6
  <2> QED
    BY <2>2, <2>3
<1> HIDE DEF Shown
<1> QED
  BY <1>1, <1>2

LEMMA Redisplayed ==
    ASSUME TypeOK, NEW top \in Addresses, Redisplay(top), mem' = mem
    PROVE  /\ top_addr' = top /\ screen' \in [Cells -> Bytes] /\ echoed' = {}
           /\ ScreenFresh'
<1>1. PICK left \in Bytes : screen' = Display(top, left)
  BY DEF Redisplay
<1>2. top_addr' = top /\ echoed' = {}
  BY DEF Redisplay
<1>3. mem \in [Addresses -> Bytes]
  BY DEF TypeOK
<1>4. /\ screen' \in [Cells -> Bytes]
      /\ \A k \in Cells : AddressOf(top, k) \notin Unreadable => screen'[k] = mem[AddressOf(top, k)]
  BY <1>1, <1>3, DisplayShows
<1>5. \A k \in Cells : AddressOf(top_addr, k)' = AddressOf(top, k)
  BY <1>2 DEF AddressOf
<1> QED
  BY <1>2, <1>4, <1>5 DEF ScreenFresh

-----------------------------------------------------------------------------
(* The inductive invariant: the types, the screen, and a byte that is half *)
(* typed is one digit.                                                     *)
EditorInv == TypeOK /\ ScreenFresh /\ (n = 1 => idata \in Digits)

LEMMA EditorInvInit == Init => EditorInv
<1> SUFFICES ASSUME Init PROVE EditorInv
  OBVIOUS
<1>1. PICK input_addr \in Addresses : /\ top_addr = input_addr - (input_addr % Cols)
                                      /\ x = input_addr % Cols
  BY DEF Init
<1>2. PICK left \in Bytes : screen = Display(top_addr, left)
  BY DEF Init
<1>3. /\ mem = [a \in Addresses |-> a % (Base * Base)] /\ y = 0 /\ n = 0 /\ idata = 0
      /\ autoredraw = TRUE /\ running = TRUE /\ typed = 0 /\ echoed = {}
  BY DEF Init
<1>4. mem \in [Addresses -> Bytes]
  <2>1. \A a \in Addresses : a % (Base * Base) \in Bytes
    <3> SUFFICES ASSUME NEW a \in Addresses PROVE a % (Base * Base) \in Bytes
      OBVIOUS
    <3>1. Base * Base \in Nat \ {0} /\ a \in Int
      BY Geometry DEF Addresses
    <3> QED
      BY <3>1, Remainder DEF Bytes
  <2> QED
    BY <1>3, <2>1
<1>5. x \in 0..(Cols - 1) /\ top_addr \in Addresses /\ top_addr % Cols = 0
  <2> DEFINE q == input_addr \div Cols
             r == input_addr % Cols
  <2>1. Cols \in Nat \ {0} /\ input_addr \in Int /\ input_addr \in 0..(Size - 1) /\ Size \in Nat
    BY Geometry DEF Addresses
  <2>2. q \in Int /\ r \in 0..(Cols - 1) /\ input_addr = Cols * q + r
    BY <2>1, Remainder
  <2>3. input_addr \div Cols >= 0
    BY <2>1
  <2>4. top_addr = input_addr - r /\ x = r /\ q >= 0
    BY <1>1, <2>3
  <2> HIDE DEF q, r
  <2>5. top_addr = Cols * q + 0 /\ top_addr >= 0 /\ top_addr \in Int
    <3>1. Cols * q \in Int /\ Cols * q >= 0
      BY <2>1, <2>2, <2>4
    <3> QED
      BY <2>1, <2>2, <2>4, <3>1
  <2>6. top_addr \in 0..(Size - 1)
    BY <2>1, <2>2, <2>4, <2>5
  <2>7. top_addr % Cols = 0
    <3>1. 0 \in 0..(Cols - 1)
      BY <2>1
    <3> QED
      BY <2>1, <2>2, <2>5, <3>1, RemainderUnique
  <2> QED
    BY <2>2, <2>4, <2>6, <2>7 DEF Addresses
<1>6. /\ screen \in [Cells -> Bytes] /\ ScreenFresh
  <2>1. /\ screen \in [Cells -> Bytes]
        /\ \A k \in Cells : AddressOf(top_addr, k) \notin Unreadable
                               => screen[k] = mem[AddressOf(top_addr, k)]
    BY <1>2, <1>4, <1>5, DisplayShows
  <2> QED
    BY <2>1 DEF ScreenFresh
<1>7. y \in 0..(Rows - 1) /\ idata \in Bytes /\ typed \in 0..MaxDigits
  BY <1>3, Geometry DEF Bytes
<1>8. TypeOK
  BY <1>3, <1>4, <1>5, <1>6, <1>7 DEF TypeOK
<1> QED
  BY <1>3, <1>6, <1>8 DEF EditorInv

(* A redraw, possibly at another address. *)
LEMMA RedisplayStep ==
    ASSUME EditorInv, NEW top \in Addresses, top % Cols = 0, Redisplay(top),
           UNCHANGED <<mem, x, y, n, idata, typed, running>>, autoredraw' \in BOOLEAN
    PROVE  EditorInv'
<1>1. /\ top_addr' = top /\ screen' \in [Cells -> Bytes] /\ echoed' = {} /\ ScreenFresh'
  BY Redisplayed DEF EditorInv
<1>2. TypeOK'
  BY <1>1 DEF EditorInv, TypeOK
<1> QED
  BY <1>1, <1>2 DEF EditorInv, Digits

(* The cursor moves on the screen. *)
LEMMA MoveStep ==
    ASSUME EditorInv, NotRedisplayed, n' = 0,
           UNCHANGED <<mem, idata, autoredraw, typed, running>>,
           x' \in 0..(Cols - 1), y' \in 0..(Rows - 1)
    PROVE  EditorInv'
<1>1. TypeOK'
  BY DEF EditorInv, TypeOK, NotRedisplayed
<1>2. ScreenFresh'
  BY DEF EditorInv, ScreenFresh, NotRedisplayed, AddressOf
<1> QED
  BY <1>1, <1>2 DEF EditorInv

(* The addresses to which the keys move the screen. *)
LEMMA Scrolled ==
    ASSUME TypeOK
    PROVE  \A top \in {(top_addr - Cols) % Size, (top_addr + Cols) % Size,
                       (top_addr + (Rows - 1) * Cols) % Size, (top_addr - (Rows - 1) * Cols) % Size} :
              top \in Addresses /\ top % Cols = 0
<1>1. top_addr \in Addresses /\ top_addr % Cols = 0 /\ top_addr \in Int
  BY Geometry DEF TypeOK, Addresses
<1>2. /\ top_addr - Cols = top_addr + (-1) * Cols /\ top_addr + Cols = top_addr + 1 * Cols
      /\ top_addr - (Rows - 1) * Cols = top_addr + (1 - Rows) * Cols
      /\ Rows - 1 \in Int /\ 1 - Rows \in Int
  <2>1. (1 - Rows) * Cols = -((Rows - 1) * Cols) /\ (Rows - 1) * Cols \in Int
    BY Geometry
  <2>2. (-1) * Cols = -Cols /\ 1 * Cols = Cols
    BY Geometry
  <2> QED
    BY <1>1, <2>1, <2>2, Geometry
<1>3. /\ (top_addr - Cols) % Size \in Addresses /\ ((top_addr - Cols) % Size) % Cols = 0
  BY <1>1, <1>2, WholeLines
<1>4. /\ (top_addr + Cols) % Size \in Addresses /\ ((top_addr + Cols) % Size) % Cols = 0
  BY <1>1, <1>2, WholeLines
<1>5. /\ (top_addr + (Rows - 1) * Cols) % Size \in Addresses
      /\ ((top_addr + (Rows - 1) * Cols) % Size) % Cols = 0
  BY <1>1, <1>2, WholeLines
<1>6. /\ (top_addr - (Rows - 1) * Cols) % Size \in Addresses
      /\ ((top_addr - (Rows - 1) * Cols) % Size) % Cols = 0
  BY <1>1, <1>2, WholeLines
<1> QED
  BY <1>3, <1>4, <1>5, <1>6

LEMMA NavigateStep == EditorInv /\ Navigate /\ running' = running => EditorInv'
<1> SUFFICES ASSUME EditorInv, Navigate, running' = running PROVE EditorInv'
  OBVIOUS
<1>1. /\ TypeOK /\ autoredraw \in BOOLEAN /\ UNCHANGED <<mem, idata, autoredraw, typed, running>>
      /\ x \in 0..(Cols - 1) /\ y \in 0..(Rows - 1)
  BY DEF EditorInv, TypeOK, Navigate
<1>2. ASSUME NEW top \in {(top_addr - Cols) % Size, (top_addr + Cols) % Size,
                          (top_addr + (Rows - 1) * Cols) % Size, (top_addr - (Rows - 1) * Cols) % Size},
             Redisplay(top), UNCHANGED <<x, y, n>>
      PROVE  EditorInv'
  <2>1. top \in Addresses /\ top % Cols = 0
    BY <1>1, Scrolled
  <2>2. UNCHANGED <<mem, x, y, n, idata, typed, running>> /\ autoredraw' \in BOOLEAN
    BY <1>1, <1>2
  <2> QED
    BY <1>2, <2>1, <2>2, RedisplayStep
<1>3. ASSUME NotRedisplayed, n' = 0, x' \in 0..(Cols - 1), y' \in 0..(Rows - 1) PROVE EditorInv'
  BY <1>1, <1>3, MoveStep
<1>4. CASE Up
  <2>1. CASE y > 0 /\ y' = y - 1 /\ n' = 0 /\ NotRedisplayed /\ x' = x
    <3>1. x' \in 0..(Cols - 1) /\ y' \in 0..(Rows - 1)
      BY <1>1, <2>1, Geometry
    <3> QED
      BY <1>3, <2>1, <3>1
  <2>2. CASE Redisplay((top_addr - Cols) % Size) /\ UNCHANGED <<x, y, n>>
    BY <1>2, <2>2
  <2> QED
    BY <1>4, <2>1, <2>2 DEF Up
<1>5. CASE Down
  <2>1. CASE y < Rows - 1 /\ y' = y + 1 /\ n' = 0 /\ NotRedisplayed /\ x' = x
    <3>1. x' \in 0..(Cols - 1) /\ y' \in 0..(Rows - 1)
      BY <1>1, <2>1, Geometry
    <3> QED
      BY <1>3, <2>1, <3>1
  <2>2. CASE Redisplay((top_addr + Cols) % Size) /\ UNCHANGED <<x, y, n>>
    BY <1>2, <2>2
  <2> QED
    BY <1>5, <2>1, <2>2 DEF Down
<1>6. CASE Left
  <2>1. x' \in 0..(Cols - 1) /\ y' \in 0..(Rows - 1) /\ n' = 0 /\ NotRedisplayed
    BY <1>1, <1>6, Geometry DEF Left
  <2> QED
    BY <1>3, <2>1
<1>7. CASE Right
  <2>1. x' \in 0..(Cols - 1) /\ y' \in 0..(Rows - 1) /\ n' = 0 /\ NotRedisplayed
    BY <1>1, <1>7, Geometry DEF Right
  <2> QED
    BY <1>3, <2>1
<1>8. CASE PageDown
  BY <1>2, <1>8 DEF PageDown
<1>9. CASE PageUp
  BY <1>2, <1>9 DEF PageUp
<1> QED
  BY <1>4, <1>5, <1>6, <1>7, <1>8, <1>9 DEF Navigate

(* What is typed is a byte again. *)
LEMMA TwoDigits ==
    ASSUME NEW d \in Digits, NEW e \in Digits
    PROVE  d * Base + e \in Bytes
<1>1. d \in Nat /\ d + 1 <= Base /\ e \in Nat /\ e < Base
  BY Geometry DEF Digits
<1>2. d * Base \in Nat /\ d * Base + Base <= Base * Base
  <2>1. (d + 1) * Base = d * Base + Base
    BY <1>1, Geometry
  <2>2. (d + 1) * Base <= Base * Base
    BY <1>1, Geometry
  <2> QED
    BY <1>1, <2>1, <2>2, Geometry
<1> DEFINE z == d * Base
           full == Base * Base
<1>3. z \in Nat /\ z + Base <= full /\ full \in Nat
  BY <1>2, Geometry
<1> HIDE DEF z, full
<1>4. z + e \in 0..(full - 1)
  BY <1>1, <1>3, Geometry
<1> QED
  BY <1>4 DEF z, full, Bytes

LEMMA ByteDigits ==
    ASSUME NEW c \in Bytes
    PROVE  c \div Base \in Digits /\ c % Base \in Digits
<1> DEFINE q == c \div Base
           r == c % Base
           full == Base * Base
<1>1. Base \in Nat \ {0} /\ c \in Int /\ 0 <= c /\ c < full /\ full \in Nat
  BY Geometry DEF Bytes
<1>2. q \in Int /\ r \in 0..(Base - 1) /\ c = Base * q + r
  BY <1>1, Remainder
<1>3. c \div Base >= 0
  BY <1>1
<1>4. q >= 0
  BY <1>3
<1> HIDE DEF q, r
<1>5. Base * q < Base * Base /\ Base * q \in Int
  BY <1>1, <1>2
<1>6. q < Base
  BY <1>1, <1>2, <1>5
<1> QED
  BY <1>1, <1>2, <1>4, <1>6 DEF q, r, Digits

(* Typing changes the cell of the cursor and the byte behind it only: the  *)
(* screen is no longer than the device, so no other cell shows that byte.  *)
LEMMA DigitStep ==
    ASSUME EditorInv, NEW d \in Digits, UpperDigit(d) \/ LowerDigit(d), running' = running
    PROVE  EditorInv'
<1>1. /\ TypeOK /\ mem \in [Addresses -> Bytes] /\ screen \in [Cells -> Bytes]
      /\ top_addr \in Addresses /\ top_addr \in Int /\ top_addr % Cols = 0
      /\ n \in {0, 1} /\ idata \in Bytes
      /\ typed \in 0..MaxDigits /\ echoed \subseteq Cells
      /\ x \in 0..(Cols - 1) /\ y \in 0..(Rows - 1)
  BY Geometry DEF EditorInv, TypeOK, Addresses
<1>2. CursorCell \in Cells /\ CursorCell \in 0..(Size - 1)
  BY <1>1, CursorOnScreen
<1>3. \A k \in Cells : k \in 0..(Size - 1)
  BY Geometry DEF Cells
<1>4. screen[CursorCell] \div Base \in Digits /\ screen[CursorCell] % Base \in Digits
  BY <1>1, <1>2, ByteDigits
<1>5. ASSUME NEW k \in Cells, k # CursorCell PROVE AddressOf(top_addr, k) # Cursor
  <2>1. Size \in Nat \ {0} /\ k \in 0..(Size - 1)
    BY <1>3, Geometry
  <2> QED
    BY <1>1, <1>2, <1>5, <2>1, RemainderInjective DEF AddressOf, Cursor
<1>6. ASSUME NEW c \in Bytes, Echo(c)
      PROVE  /\ screen' \in [Cells -> Bytes] /\ typed' \in 0..MaxDigits
             /\ echoed' = echoed \union {CursorCell} /\ echoed' \subseteq Cells
             /\ \A k \in Cells : k # CursorCell => screen'[k] = screen[k]
  BY <1>1, <1>2, <1>6, Geometry DEF Echo
<1>7. ASSUME top_addr' = top_addr, echoed' = echoed \union {CursorCell},
             \A k \in Cells : k # CursorCell => screen'[k] = screen[k],
             \A a \in Addresses : a # Cursor => mem'[a] = mem[a]
      PROVE  ScreenFresh'
  <2>1. ScreenFresh
    BY DEF EditorInv
  <2> SUFFICES ASSUME NEW k \in Cells, k \notin echoed', AddressOf(top_addr, k) \notin Unreadable
               PROVE  screen'[k] = mem'[AddressOf(top_addr, k)]
    BY <1>7 DEF ScreenFresh, AddressOf
  <2>2. k # CursorCell /\ k \notin echoed /\ k \in Int
    BY <1>7, Geometry DEF Cells
  <2>3. AddressOf(top_addr, k) \in Addresses /\ AddressOf(top_addr, k) # Cursor
    BY <1>1, <1>5, <2>2, AddressIn
  <2> QED
    BY <1>7, <2>1, <2>2, <2>3 DEF ScreenFresh
<1>8. CASE UpperDigit(d)
  <2> DEFINE c == d * Base + (screen[CursorCell] % Base)
  <2>1. /\ Echo(c) /\ idata' = d /\ n' = 1 /\ UNCHANGED <<mem, top_addr, x, y, autoredraw>>
    BY <1>8 DEF UpperDigit
  <2>2. c \in Bytes
    BY <1>4, TwoDigits
  <2> HIDE DEF c
  <2>3. idata' \in Digits /\ idata' \in Bytes
    <3>1. 0 \in Digits /\ 0 * Base + d = d
      BY Geometry DEF Digits
    <3>2. 0 * Base + d \in Bytes
      BY <3>1, TwoDigits
    <3> QED
      BY <2>1, <3>1, <3>2
  <2>4. TypeOK'
    BY <1>1, <1>6, <2>1, <2>2, <2>3 DEF TypeOK
  <2>5. ScreenFresh'
    BY <1>6, <1>7, <2>1, <2>2
  <2> QED
    BY <2>3, <2>4, <2>5 DEF EditorInv, Digits
<1>9. CASE LowerDigit(d)
  <2> DEFINE c == (screen[CursorCell] \div Base) * Base + d
  <2>1. /\ Echo(c) /\ idata' = idata * Base + d /\ SkipAByte /\ n = 1
        /\ mem' = IF Cursor \in Unreadable THEN mem ELSE [mem EXCEPT ![Cursor] = idata']
        /\ UNCHANGED <<top_addr, autoredraw>>
    BY <1>9 DEF LowerDigit
  <2>2. c \in Bytes
    BY <1>4, TwoDigits
  <2> HIDE DEF c
  <2>3. idata' \in Bytes
    <3>1. idata \in Digits
      BY <2>1 DEF EditorInv
    <3> QED
      BY <2>1, <3>1, TwoDigits
  <2>4. x' \in 0..(Cols - 1) /\ y' \in 0..(Rows - 1) /\ n' = 0
    BY <1>1, <2>1, Geometry DEF SkipAByte
  <2>5. Cursor \in Addresses
    BY <1>1, <1>2, AddressIn DEF Cursor
  <2>6. mem' \in [Addresses -> Bytes] /\ \A a \in Addresses : a # Cursor => mem'[a] = mem[a]
    BY <1>1, <2>1, <2>3, <2>5
  <2>7. TypeOK'
    BY <1>1, <1>6, <2>1, <2>2, <2>3, <2>4, <2>6 DEF TypeOK
  <2>8. ScreenFresh'
    BY <1>6, <1>7, <2>1, <2>2, <2>6
  <2> QED
    BY <2>4, <2>7, <2>8 DEF EditorInv
<1> QED
  BY <1>8, <1>9

LEMMA EditorInvStep == EditorInv /\ [Next]_vars => EditorInv'
<1> SUFFICES ASSUME EditorInv, [Next]_vars PROVE EditorInv'
  OBVIOUS
<1>1. /\ top_addr \in Addresses /\ top_addr % Cols = 0 /\ autoredraw \in BOOLEAN
  BY DEF EditorInv, TypeOK
<1>2. CASE Navigate /\ UNCHANGED running
  BY <1>2, NavigateStep
<1>3. CASE (Redraw \/ Timeout) /\ UNCHANGED running
  <2>1. Redisplay(top_addr) /\ UNCHANGED <<mem, x, y, n, idata, autoredraw, typed, running>>
    BY <1>3 DEF Timeout, Redraw
  <2>2. UNCHANGED <<mem, x, y, n, idata, typed, running>> /\ autoredraw' \in BOOLEAN
    BY <1>1, <2>1
  <2> QED
    BY <1>1, <2>1, <2>2, RedisplayStep
<1>4. CASE ToggleRedraw /\ UNCHANGED running
  <2>1. Redisplay(top_addr) /\ UNCHANGED <<mem, x, y, n, idata, typed, running>>
    BY <1>4 DEF ToggleRedraw
  <2>2. autoredraw' \in BOOLEAN
    BY <1>4, Zenon DEF ToggleRedraw
  <2> QED
    BY <1>1, <2>1, <2>2, RedisplayStep
<1>5. ASSUME NEW d \in Digits, UpperDigit(d) \/ LowerDigit(d), UNCHANGED running PROVE EditorInv'
  BY <1>5, DigitStep
<1>6. CASE Exit
  BY <1>6 DEF Exit, EditorInv, TypeOK, ScreenFresh, AddressOf, Digits
<1>7. CASE UNCHANGED vars
  BY <1>7 DEF vars, EditorInv, TypeOK, ScreenFresh, AddressOf, Digits
<1> QED
  BY <1>2, <1>3, <1>4, <1>5, <1>6, <1>7 DEF Next, Key

LEMMA EditorInvariant == Spec => []EditorInv
  BY EditorInvInit, EditorInvStep, PTL DEF Spec

(* Whatever keys are pressed, the cursor stays on the screen, the screen   *)
(* begins at the beginning of a line of the device, and what is typed are  *)
(* bytes.                                                                  *)
THEOREM TypeCorrect == Spec => []TypeOK
  BY EditorInvariant, PTL DEF EditorInv

(* Whatever sequence of keys led here, on every screen that is not larger  *)
(* than the device, a cell that was not typed into since the last redraw   *)
(* shows the byte the device holds, if it can be read.                     *)
THEOREM ScreenCorrect == Spec => []ScreenFresh
  BY EditorInvariant, PTL DEF EditorInv

-----------------------------------------------------------------------------
(* Moving by a line, on the screen or with it. *)
LEMMA MovedCursor ==
    ASSUME TypeOK, NEW d \in {-1, 1}, x' = x,
           \/ y' = y + d /\ top_addr' = top_addr
           \/ y' = y /\ top_addr' = (top_addr + d * Cols) % Size
    PROVE  Cursor' = (Cursor + d * Cols) % Size
<1> DEFINE cell == CursorCell
           step == d * Cols
<1>1. /\ top_addr \in Int /\ cell \in Int /\ Size \in Nat \ {0} /\ step \in Int /\ Cols \in Int
      /\ x \in Int /\ y \in Int
  BY CursorOnScreen, Geometry DEF TypeOK, Addresses
<1>2. Cursor = (top_addr + cell) % Size
  BY DEF Cursor, AddressOf
<1>3. (Cursor + step) % Size = (top_addr + cell + step) % Size
  <2>1. top_addr + cell \in Int
    BY <1>1
  <2> HIDE DEF cell, step
  <2> QED
    BY <1>1, <1>2, <2>1, RemainderSum
<1>4. CASE y' = y + d /\ top_addr' = top_addr
  <2>1. CursorCell' = cell + step
    <3>1. CursorCell' = (y + d) * Cols + x
      BY <1>4 DEF CursorCell
    <3>2. (y + d) * Cols = y * Cols + step /\ y * Cols \in Int
      BY <1>1
    <3>3. cell = y * Cols + x
      BY DEF CursorCell
    <3> HIDE DEF step, cell
    <3> QED
      BY <1>1, <3>1, <3>2, <3>3
  <2>2. Cursor' = (top_addr + (cell + step)) % Size
    BY <1>4, <2>1 DEF Cursor, AddressOf
  <2>3. top_addr + (cell + step) = top_addr + cell + step
    <3> HIDE DEF cell, step
    <3> QED
      BY <1>1
  <2> QED
    BY <1>3, <2>2, <2>3
<1>5. CASE y' = y /\ top_addr' = (top_addr + step) % Size
  <2>1. CursorCell' = cell
    BY <1>5 DEF CursorCell
  <2>2. Cursor' = (((top_addr + step) % Size) + cell) % Size
    BY <1>5, <2>1 DEF Cursor, AddressOf
  <2> HIDE DEF cell, step
  <2>3. top_addr + step \in Int /\ top_addr + step + cell = top_addr + cell + step
    BY <1>1
  <2>4. (((top_addr + step) % Size) + cell) % Size = (top_addr + step + cell) % Size
    BY <1>1, <2>3, RemainderSum
  <2> QED
    BY <1>3, <2>2, <2>3, <2>4 DEF step
<1> QED
  BY <1>4, <1>5

(* Up and down move the cursor by exactly one line of the device, in any   *)
(* row of any screen, around the ends of the address space too.            *)
THEOREM MotionCorrect == Spec => LineMotion
<1>1. TypeOK /\ [Next]_vars
        => [running' => /\ Up => Cursor' = (Cursor - Cols) % Size
                        /\ Down => Cursor' = (Cursor + Cols) % Size]_vars
  <2> SUFFICES ASSUME TypeOK
               PROVE  /\ Up => Cursor' = (Cursor - Cols) % Size
                      /\ Down => Cursor' = (Cursor + Cols) % Size
    OBVIOUS
  <2>0. top_addr \in Int /\ y \in Int /\ Cursor \in Int
    <3>1. top_addr \in Int /\ y \in Int /\ CursorCell \in Int
      BY CursorOnScreen, Geometry DEF TypeOK, Addresses
    <3>2. Cursor \in Addresses
      BY <3>1, AddressIn DEF Cursor
    <3> QED
      BY <3>1, <3>2, Geometry DEF Addresses
  <2>1. ASSUME Up PROVE Cursor' = (Cursor - Cols) % Size
    <3>1. /\ -1 \in {-1, 1} /\ y + (-1) = y - 1
          /\ top_addr + (-1) * Cols = top_addr - Cols /\ Cursor + (-1) * Cols = Cursor - Cols
      BY <2>0, Geometry
    <3>2. /\ x' = x
          /\ \/ y' = y + (-1) /\ top_addr' = top_addr
             \/ y' = y /\ top_addr' = (top_addr + (-1) * Cols) % Size
      BY <2>1, <3>1 DEF Up, NotRedisplayed, Redisplay
    <3>3. Cursor' = (Cursor + (-1) * Cols) % Size
      BY <3>1, <3>2, MovedCursor
    <3> QED
      BY <3>1, <3>3
  <2>2. ASSUME Down PROVE Cursor' = (Cursor + Cols) % Size
    <3>1. /\ 1 \in {-1, 1}
          /\ top_addr + 1 * Cols = top_addr + Cols /\ Cursor + 1 * Cols = Cursor + Cols
      BY <2>0, Geometry
    <3>2. /\ x' = x
          /\ \/ y' = y + 1 /\ top_addr' = top_addr
             \/ y' = y /\ top_addr' = (top_addr + 1 * Cols) % Size
      BY <2>2, <3>1 DEF Down, NotRedisplayed, Redisplay
    <3>3. Cursor' = (Cursor + 1 * Cols) % Size
      BY <3>1, <3>2, MovedCursor
    <3> QED
      BY <3>1, <3>3
  <2> QED
    BY <2>1, <2>2
<1> QED
  BY <1>1, TypeCorrect, PTL DEF Spec, LineMotion

-----------------------------------------------------------------------------
(* Consecutive screens share a cell when the screen moves by at most its   *)
(* own height less one line.                                               *)
LEMMA ScreensMeet ==
    ASSUME TypeOK, NEW d \in 0..((Rows - 1) * Cols),
           \/ top_addr' = (top_addr + d) % Size
           \/ top_addr' = (top_addr - d) % Size
    PROVE  \E j, k \in Cells : AddressOf(top_addr', j) = AddressOf(top_addr, k)
<1>1. top_addr \in Int /\ Size \in Nat \ {0}
  BY Geometry DEF TypeOK, Addresses
<1>2. 0 \in Cells /\ d \in Cells /\ d \in Int
  <2>1. (Rows - 1) * Cols = Rows * Cols - Cols
    BY Geometry
  <2> DEFINE full == Rows * Cols
             less == (Rows - 1) * Cols
  <2>2. full \in Nat /\ less = full - Cols /\ less \in Int /\ d \in 0..less /\ Cols <= full
    BY <2>1, Geometry
  <2> HIDE DEF full, less
  <2>3. 0 \in 0..(full - 1) /\ d \in 0..(full - 1) /\ d \in Int
    BY <2>2, Geometry
  <2> QED
    BY <2>3 DEF Cells, full
<1>3. CASE top_addr' = (top_addr + d) % Size
  <2>1. AddressOf(top_addr', 0) = (((top_addr + d) % Size) + 0) % Size
    BY <1>3 DEF AddressOf
  <2>2. top_addr + d \in Int /\ top_addr + d + 0 = top_addr + d /\ 0 \in Int
    BY <1>1, <1>2
  <2>3. (((top_addr + d) % Size) + 0) % Size = (top_addr + d + 0) % Size
    BY <1>1, <2>2, RemainderSum
  <2>4. AddressOf(top_addr', 0) = AddressOf(top_addr, d)
    BY <2>1, <2>2, <2>3 DEF AddressOf
  <2> QED
    BY <1>2, <2>4
<1>4. CASE top_addr' = (top_addr - d) % Size
  <2>1. AddressOf(top_addr', d) = (((top_addr - d) % Size) + d) % Size
    BY <1>4 DEF AddressOf
  <2>2. top_addr - d \in Int /\ top_addr - d + d = top_addr + 0
    BY <1>1, <1>2
  <2>3. (((top_addr - d) % Size) + d) % Size = (top_addr - d + d) % Size
    BY <1>1, <1>2, <2>2, RemainderSum
  <2>4. AddressOf(top_addr', d) = AddressOf(top_addr, 0)
    BY <2>1, <2>2, <2>3 DEF AddressOf
  <2> QED
    BY <1>2, <2>4
<1> QED
  BY <1>3, <1>4

(* On every screen of at least two rows, scrolling and paging never skip a *)
(* line: what was the last row of a page is the first of the next.  (On a  *)
(* screen of one row the line after the last is shown, so no cell stays.)  *)
THEOREM PagesOverlap == ASSUME Rows >= 2 PROVE Spec => NoLineSkipped
<1>1. TypeOK /\ [Next]_vars
        => [\E j, k \in Cells : AddressOf(top_addr', j) = AddressOf(top_addr, k)]_vars
  <2> SUFFICES ASSUME TypeOK, Next
               PROVE  \E j, k \in Cells : AddressOf(top_addr', j) = AddressOf(top_addr, k)
    OBVIOUS
  <2> DEFINE page == (Rows - 1) * Cols
  <2>1. page \in Int /\ Cols \in 0..page /\ page \in 0..page /\ 0 \in 0..page
    <3>1. Rows - 1 >= 1 /\ Cols \in Nat /\ Rows - 1 \in Nat
      BY Geometry
    <3>2. page \in Nat /\ page >= Cols
      BY <3>1
    <3> HIDE DEF page
    <3> QED
      BY <3>1, <3>2
  <2>2. top_addr' \in {top_addr, (top_addr - Cols) % Size, (top_addr + Cols) % Size,
                       (top_addr + page) % Size, (top_addr - page) % Size}
    <3> HIDE DEF page
    <3>1. CASE Navigate
      <4>1. CASE Up
        BY <4>1 DEF Up, NotRedisplayed, Redisplay
      <4>2. CASE Down
        BY <4>2 DEF Down, NotRedisplayed, Redisplay
      <4>3. CASE Left \/ Right
        BY <4>3 DEF Left, Right, NotRedisplayed
      <4>4. CASE PageDown
        BY <4>4 DEF PageDown, Redisplay, page
      <4>5. CASE PageUp
        BY <4>5 DEF PageUp, Redisplay, page
      <4> QED
        BY <3>1, <4>1, <4>2, <4>3, <4>4, <4>5 DEF Navigate
    <3>2. CASE Redraw \/ Timeout \/ ToggleRedraw
      BY <3>2 DEF Redraw, Timeout, ToggleRedraw, Redisplay
    <3>3. ASSUME NEW d \in Digits, UpperDigit(d) \/ LowerDigit(d) PROVE top_addr' = top_addr
      BY <3>3 DEF UpperDigit, LowerDigit
    <3>4. CASE Exit
      BY <3>4 DEF Exit
    <3> QED
      BY <3>1, <3>2, <3>3, <3>4 DEF Next, Key
  <2>3. CASE top_addr' = top_addr
    <3>1. top_addr \in 0..(Size - 1) /\ Size \in Nat \ {0} /\ top_addr + 0 = top_addr
      BY Geometry DEF TypeOK, Addresses
    <3>2. top_addr' = (top_addr + 0) % Size
      BY <2>3, <3>1, SmallRemainder
    <3> QED
      BY <2>1, <3>2, ScreensMeet
  <2>4. CASE top_addr' \in {(top_addr - Cols) % Size, (top_addr + Cols) % Size}
    BY <2>1, <2>4, ScreensMeet
  <2>5. CASE top_addr' \in {(top_addr + page) % Size, (top_addr - page) % Size}
    BY <2>1, <2>5, ScreensMeet
  <2> QED
    BY <2>2, <2>3, <2>4, <2>5
<1> QED
  BY <1>1, TypeCorrect, PTL DEF Spec, NoLineSkipped
=============================================================================
