-------------------------- MODULE GenpipeTx_proofs --------------------------
(***************************************************************************)
(* Proofs about the transmit side of genpipe, for any finite set of        *)
(* writers, any sizes of the buffer, the frames and the writes, and any    *)
(* set of characters.                                                      *)
(***************************************************************************)
EXTENDS GenpipeTx, FiniteSetTheorems, WellFoundedInduction, TLAPS

(* A set of natural numbers that is not empty has a minimum. *)
LEMMA NatMin ==
    ASSUME NEW S, S \subseteq Nat, S # {}
    PROVE  Min(S) \in S /\ \A y \in S : Min(S) <= y
<1> DEFINE R == OpToRel(<, Nat)
<1>1. IsWellFoundedOn(R, Nat)
  BY NatLessThanWellFounded
<1>2. \A x, y \in Nat : x < y => <<x, y>> \in R
  BY DEF OpToRel
<1> HIDE DEF R
<1>3. PICK x \in S : \A y \in S : <<y, x>> \notin R
  BY <1>1, WFMin
<1>4. ASSUME NEW y \in S PROVE x <= y
  <2>1. x \in Nat /\ y \in Nat /\ <<y, x>> \notin R
    BY <1>3
  <2>2. ~(y < x)
    BY <1>2, <2>1, Zenon
  <2> QED
    BY <2>1, <2>2
<1> QED
  BY <1>4 DEF Min

LEMMA PairMinMax ==
    ASSUME NEW a \in Int, NEW b \in Int
    PROVE  /\ Min({a, b}) = IF a <= b THEN a ELSE b
           /\ Max({a, b}) = IF a >= b THEN a ELSE b
<1>1. \E x \in {a, b} : \A y \in {a, b} : x <= y
  OBVIOUS
<1>2. Min({a, b}) \in {a, b} /\ \A y \in {a, b} : Min({a, b}) <= y
  BY <1>1 DEF Min
<1>3. \E x \in {a, b} : \A y \in {a, b} : x >= y
  OBVIOUS
<1>4. Max({a, b}) \in {a, b} /\ \A y \in {a, b} : Max({a, b}) >= y
  BY <1>3 DEF Max
<1> QED
  BY <1>2, <1>4

(* A chunk is a sequence of characters of a bounded length. *)
LEMMA ChunkIsSeq ==
    ASSUME NEW c
    PROVE  c \in Chunks <=> c \in Seq(Chars) /\ Len(c) \in 1..MaxChunk
<1>1. ASSUME c \in Chunks PROVE c \in Seq(Chars) /\ Len(c) \in 1..MaxChunk
  <2>1. PICK k \in 1..MaxChunk : c \in [1..k -> Chars]
    BY <1>1 DEF Chunks
  <2>2. k \in Nat
    BY SizeAssumption
  <2> QED
    BY <2>1, <2>2
<1>2. ASSUME c \in Seq(Chars), Len(c) \in 1..MaxChunk PROVE c \in Chunks
  <2>1. c \in [1..Len(c) -> Chars]
    BY <1>2
  <2> QED
    BY <1>2, <2>1 DEF Chunks
<1> QED
  BY <1>1, <1>2

(* What a writer has still to store: nothing or a chunk. *)
LEMMA ChunkTyped ==
    ASSUME NEW c \in Chunks \union {<<>>}
    PROVE  c \in Seq(Chars) /\ Len(c) \in 0..MaxChunk
<1>1. CASE c = <<>>
  BY <1>1, SizeAssumption
<1>2. CASE c \in Chunks
  BY <1>2, ChunkIsSeq, SizeAssumption
<1> QED
  BY <1>1, <1>2

(* The bits that are set add up to a byte. *)
LEMMA ByteOrIsByte == \A a, b : ByteOr(a, b) \in 0..255
<1>1. \A a, b, weight : OrBit(a, b, weight) \in {weight, 0}
  BY DEF OrBit
<1> HIDE DEF OrBit
<1> SUFFICES ASSUME NEW a, NEW b PROVE ByteOr(a, b) \in 0..255
  OBVIOUS
<1>2. /\ OrBit(a, b, 1) \in {1, 0} /\ OrBit(a, b, 2) \in {2, 0}
      /\ OrBit(a, b, 4) \in {4, 0} /\ OrBit(a, b, 8) \in {8, 0}
      /\ OrBit(a, b, 16) \in {16, 0} /\ OrBit(a, b, 32) \in {32, 0}
      /\ OrBit(a, b, 64) \in {64, 0} /\ OrBit(a, b, 128) \in {128, 0}
  BY <1>1
<1> QED
  BY <1>2 DEF ByteOr

(* A set of positions has a first, a second, ... *)
LEMMA NthExists ==
    ASSUME NEW n \in Nat, NEW at, at \subseteq 1..n, NEW k \in 1..Cardinality(at)
    PROVE  \E i \in at : Cardinality({j \in at : j <= i}) = k
<1> DEFINE upTo(i) == {j \in at : j <= i}
           c(i) == Cardinality(upTo(i))
           S == {i \in 0..n : c(i) >= k}
<1>1. IsFiniteSet(at) /\ Cardinality(at) \in Nat
  <2>1. IsFiniteSet(1..n)
    BY FS_Interval
  <2> QED
    BY <2>1, FS_Subset, FS_CardinalityType
<1>2. \A i \in 0..n : IsFiniteSet(upTo(i)) /\ c(i) \in Nat
  <2> TAKE i \in 0..n
  <2>1. upTo(i) \subseteq at
    OBVIOUS
  <2> HIDE DEF upTo
  <2> QED
    BY <1>1, <2>1, FS_Subset, FS_CardinalityType
<1>b. \A j \in at : j \in Nat /\ ~(j <= 0) /\ j <= n
  <2> SUFFICES ASSUME NEW j \in at PROVE j \in Nat /\ ~(j <= 0) /\ j <= n
    OBVIOUS
  <2>1. j \in 1..n
    OBVIOUS
  <2> QED
    BY <2>1
<1>3. upTo(0) = {} /\ upTo(n) = at
  BY <1>b
<1>4. c(0) = 0 /\ c(n) = Cardinality(at)
  BY <1>3, FS_EmptySet
<1>k. k \in Nat /\ 1 <= k /\ k <= Cardinality(at)
  BY <1>1
<1>5. S \subseteq Nat /\ n \in S
  <2> HIDE DEF c
  <2> QED
    BY <1>k, <1>4
<1> DEFINE m == Min(S)
<1>6. m \in S /\ \A i \in S : m <= i
  BY <1>5, NatMin
<1> HIDE DEF m
<1>7. m \in 1..n /\ c(m) >= k
  <2> HIDE DEF c
  <2>1. m \in 0..n /\ c(m) >= k
    BY <1>6
  <2>2. m # 0
    BY <2>1, <1>4, <1>k
  <2> QED
    BY <2>1, <2>2
<1>8. c(m - 1) < k
  <2> HIDE DEF c
  <2>1. m - 1 \in 0..n /\ m - 1 \notin S
    BY <1>6, <1>7
  <2>2. c(m - 1) \in Nat
    BY <1>2, <2>1
  <2> QED
    BY <1>k, <2>1, <2>2
<1>9. m \in at /\ upTo(m) = upTo(m - 1) \union {m} /\ m \notin upTo(m - 1)
  <2>1. \A j \in at : j <= m <=> j <= m - 1 \/ j = m
    BY <1>7, <1>b
  <2>m. ~(m <= m - 1)
    BY <1>7
  <2>2. ASSUME m \notin at PROVE FALSE
    <3>1. upTo(m) = upTo(m - 1)
      BY <2>1, <2>2
    <3> HIDE DEF upTo
    <3>2. c(m - 1) >= k
      BY <3>1, <1>7
    <3>3. c(m - 1) \in Nat
      BY <1>2, <1>7
    <3> HIDE DEF c
    <3> QED
      BY <3>2, <3>3, <1>8, <1>k
  <2> QED
    BY <2>1, <2>2, <2>m
<1>10. c(m) = c(m - 1) + 1
  <2>0. m - 1 \in 0..n
    BY <1>7
  <2> HIDE DEF upTo
  <2>1. IsFiniteSet(upTo(m - 1))
    BY <1>2, <2>0
  <2>2. Cardinality(upTo(m - 1) \union {m}) = Cardinality(upTo(m - 1)) + 1
    BY <2>1, <1>9, FS_AddElement
  <2> QED
    BY <2>2, <1>9
<1>11. c(m) = k
  <2>0. m - 1 \in 0..n
    BY <1>7
  <2>1. c(m - 1) \in Nat
    BY <1>2, <2>0
  <2> HIDE DEF c
  <2> QED
    BY <2>1, <1>k, <1>7, <1>8, <1>10
<1> QED
  BY <1>9, <1>11

(* ElementsAt yields as many elements as there are positions, all of them  *)
(* elements there.                                                         *)
LEMMA PickedElements ==
    \A s, at : \A n \in Nat : at \subseteq 1..n =>
        /\ Cardinality(at) \in Nat
        /\ Len(ElementsAt(s, at)) = Cardinality(at)
        /\ ElementsAt(s, at) \in Seq({s[i] : i \in at})
<1> SUFFICES ASSUME NEW s, NEW at, NEW n \in Nat, at \subseteq 1..n
    PROVE  /\ Cardinality(at) \in Nat
           /\ Len(ElementsAt(s, at)) = Cardinality(at)
           /\ ElementsAt(s, at) \in Seq({s[i] : i \in at})
  BY Zenon
<1> DEFINE Nth(k) == CHOOSE i \in at : Cardinality({j \in at : j <= i}) = k
           c == Cardinality(at)
           picked == [k \in 1..c |-> s[Nth(k)]]
<1>1. c \in Nat
  <2>1. IsFiniteSet(1..n)
    BY FS_Interval
  <2> QED
    BY <2>1, FS_Subset, FS_CardinalityType
<1>2. \A k \in 1..c : Nth(k) \in at
  BY NthExists
<1> HIDE DEF Nth, c
<1>3. Len(picked) = c
  <2>1. picked \in [1..c -> {s[Nth(k)] : k \in 1..c}]
    OBVIOUS
  <2> HIDE DEF picked
  <2> QED
    BY <1>1, <2>1
<1>4. ElementsAt(s, at) = picked
  BY DEF ElementsAt, Nth, c
<1>5. picked \in Seq({s[i] : i \in at})
  <2>1. picked \in [1..c -> {s[i] : i \in at}]
    BY <1>2
  <2> HIDE DEF picked
  <2> QED
    BY <1>1, <2>1
<1> QED
  BY <1>1, <1>3, <1>4, <1>5 DEF c

(* LinePipe picks elements as GenpipeTx does. *)
LEMMA PipeElements == \A s, at : Pipe!ElementsAt(s, at) = ElementsAt(s, at)
  BY DEF ElementsAt, Pipe!ElementsAt, Cardinality, Pipe!Cardinality

(* Two digits make a byte: their bits do not overlap. *)
LEMMA PacketByteOf ==
    ASSUME NEW hi \in 0..15, NEW lo \in 0..15
    PROVE  PacketByte(hi, lo) = hi * 16 + lo
  BY DEF PacketByte, ByteOr, OrBit

(* A frame has at most Mtu bytes. *)
LEMMA FrameLenTyped ==
    ASSUME NEW digits, Len(digits) \in Nat
    PROVE  FrameLen(digits) \in 0..Mtu
<1>1. Len(digits) \div 2 \in Nat /\ Mtu \in Nat
  BY SizeAssumption
<1>2. FrameLen(digits) = IF Mtu <= Len(digits) \div 2 THEN Mtu ELSE Len(digits) \div 2
  BY <1>1, PairMinMax DEF FrameLen
<1> QED
  BY <1>1, <1>2

-----------------------------------------------------------------------------
LEMMA TypeInit == Init => TypeOK /\ SerialInv
<1> SUFFICES ASSUME Init PROVE TypeOK /\ SerialInv
  OBVIOUS
<1>1. TypeOK
  BY SizeAssumption DEF Init, TypeOK
<1>2. Storing = {} /\ \A w \in Writers : ~Busy(w) /\ ~LineFound(w)
  BY DEF Init, Storing, Busy, LineFound
<1>3. SerialInv
  BY <1>2, SizeAssumption DEF Init, SerialInv
<1> QED
  BY <1>1, <1>3

(* A write of at least one character is cut to one that is not empty and   *)
(* fits behind the write pointer.                                          *)
LEMMA FitCuts ==
    ASSUME TypeOK, NEW w \in Writers, Fit(w), chunk[w] # <<>>
    PROVE  /\ rd' \in Nat /\ wr' \in Nat
           /\ chunk' \in [Writers -> Chunks \union {<<>>}]
           /\ chunk'[w] # <<>>
           /\ wr' + Len(chunk'[w]) <= Cap
           /\ (rd' = 0 /\ wr' = 0) \/ (rd' = rd /\ wr' = wr)
<1> DEFINE c == chunk[w]
           k == Min({Len(c), Cap - wr'})
<1>1. c \in Chunks /\ c \in Seq(Chars) /\ Len(c) \in 1..MaxChunk
  BY ChunkIsSeq DEF TypeOK
<1>2. /\ rd' = IF wr + Len(c) > Cap THEN 0 ELSE rd
      /\ wr' = IF wr + Len(c) > Cap THEN 0 ELSE wr
      /\ chunk' = [chunk EXCEPT ![w] = SubSeq(c, 1, k)]
  BY DEF Fit
<1>t. /\ rd \in Nat /\ wr \in Nat /\ Cap \in Nat \ {0} /\ MaxChunk \in Nat
      /\ Len(c) \in Nat /\ Len(c) >= 1 /\ Len(c) <= MaxChunk
  BY <1>1, SizeAssumption DEF TypeOK
<1> HIDE DEF c
<1>3. rd' \in Nat /\ wr' \in Nat /\ Cap - wr' \in Int /\ Cap - wr' >= 1
  <2>1. CASE wr + Len(c) > Cap
    BY <1>2, <1>t, <2>1
  <2>2. CASE ~(wr + Len(c) > Cap)
    BY <1>2, <1>t, <2>2
  <2> QED
    BY <2>1, <2>2
<1>4. k = IF Len(c) <= Cap - wr' THEN Len(c) ELSE Cap - wr'
  BY <1>t, <1>3, PairMinMax
<1> HIDE DEF k
<1>5. k \in 1..Len(c) /\ wr' + k <= Cap /\ k \in 1..MaxChunk
  BY <1>t, <1>3, <1>4
<1>6. SubSeq(c, 1, k) \in Seq(Chars) /\ Len(SubSeq(c, 1, k)) = k
  BY <1>1, <1>5
<1>7. SubSeq(c, 1, k) \in Chunks
  BY <1>5, <1>6, ChunkIsSeq
<1>8. chunk'[w] = SubSeq(c, 1, k) /\ chunk' \in [Writers -> Chunks \union {<<>>}]
  BY <1>2, <1>7 DEF TypeOK
<1>9. SubSeq(c, 1, k) # <<>>
  BY <1>5, <1>6
<1> QED
  BY <1>2, <1>3, <1>5, <1>6, <1>8, <1>9

(* Where the writer finds the end of a line, or the write pointer. *)
LEMMA ScanEnd ==
    ASSUME TypeOK, NEW w \in Writers, Scan(w)
    PROVE  /\ cr' \in [Writers -> Nat]
           /\ pc' = [pc EXCEPT ![w] = "idle"] \/ pc' = [pc EXCEPT ![w] = "parse"]
           /\ (pc'[w] = "parse" /\ rd <= wr) => rd <= cr'[w] /\ cr'[w] < wr
<1> DEFINE ends == {i \in rd..(wr - 1) : buf[i] = Newline}
           last == Max({rd, wr})
           end == Min(ends \union {last})
<1>1. rd \in Nat /\ wr \in Nat /\ cr \in [Writers -> Nat] /\ w \in DOMAIN pc
  BY DEF TypeOK
<1>2. last = IF rd >= wr THEN rd ELSE wr
  BY <1>1, PairMinMax
<1>3. ends \subseteq rd..(wr - 1) /\ ends \union {last} \subseteq Nat
  BY <1>1, <1>2
<1>4. IF end = wr THEN Goto(w, "idle") /\ UNCHANGED cr
                  ELSE Goto(w, "parse") /\ cr' = [cr EXCEPT ![w] = end]
  BY DEF Scan
<1> HIDE DEF ends, last
<1>5. end \in ends \union {last}
  BY <1>3, NatMin
<1> HIDE DEF end
<1>6. end \in Nat /\ (rd <= wr /\ end # wr => rd <= end /\ end < wr)
  BY <1>1, <1>2, <1>3, <1>5
<1>7. CASE end = wr
  BY <1>1, <1>4, <1>7 DEF Goto
<1>8. CASE end # wr
  BY <1>1, <1>4, <1>6, <1>8 DEF Goto
<1> QED
  BY <1>7, <1>8

(* Parsing a line moves the read pointer to its end, or not so far. *)
LEMMA ParseMoves ==
    ASSUME TypeOK, NEW w \in Writers, Parse(w)
    PROVE  /\ rd' \in Nat
           /\ rd <= cr[w] => rd' <= cr[w]
           /\ flen' \in [Writers -> 0..Mtu]
           /\ tmp_pkt' \in [1..Mtu -> 0..255]
<1> DEFINE line == [i \in 1..(cr[w] - rd) |-> buf[rd + i - 1]]
           digits == ElementsAt(line, {i \in DOMAIN line : IsDigit(line[i])})
           stops == {i \in rd..cr[w] : Cardinality({j \in rd..(i - 1) : IsDigit(buf[j])}) = 2 * Mtu}
<1>1. rd \in Nat /\ cr[w] \in Nat
  BY DEF TypeOK
<1>2. rd' = IF cr[w] < rd THEN rd ELSE Min({cr[w]} \union stops)
  BY DEF Parse
<1>3. stops \subseteq rd..cr[w]
  OBVIOUS
<1> HIDE DEF stops
<1>4. {cr[w]} \union stops \subseteq Nat /\ {cr[w]} \union stops # {}
  <2>1. \A i \in rd..cr[w] : i \in Nat
    BY <1>1
  <2> QED
    BY <1>1, <1>3, <2>1
<1>5. /\ Min({cr[w]} \union stops) \in {cr[w]} \union stops
      /\ \A y \in {cr[w]} \union stops : Min({cr[w]} \union stops) <= y
  BY <1>4, NatMin
<1>6. rd' \in Nat /\ (rd <= cr[w] => rd' <= cr[w])
  BY <1>1, <1>2, <1>4, <1>5
<1>7. flen' \in [Writers -> 0..Mtu]
  <2>1. DOMAIN line = 1..(cr[w] - rd)
    OBVIOUS
  <2> DEFINE n == IF cr[w] >= rd THEN cr[w] - rd ELSE 0
             at == {i \in DOMAIN line : IsDigit(line[i])}
  <2>n. n \in Nat /\ 1..(cr[w] - rd) = 1..n
    BY <1>1
  <2> HIDE DEF line, n
  <2>a. at \subseteq 1..n
    BY <2>1, <2>n
  <2> HIDE DEF at
  <2>2. Len(digits) \in Nat
    <3>1. Cardinality(at) \in Nat /\ Len(ElementsAt(line, at)) = Cardinality(at)
      BY <2>n, <2>a, PickedElements, Zenon
    <3> QED
      BY <3>1 DEF at
  <2>3. FrameLen(digits) \in 0..Mtu
    BY <2>2, FrameLenTyped
  <2>4. flen' = [flen EXCEPT ![w] = FrameLen(digits)]
    BY DEF Parse, line
  <2> QED
    BY <2>3, <2>4 DEF TypeOK
<1>8. tmp_pkt' \in [1..Mtu -> 0..255]
  <2>1. \A hi, lo : PacketByte(hi, lo) \in 0..255
    BY ByteOrIsByte DEF PacketByte
  <2>2. tmp_pkt \in [1..Mtu -> 0..255]
    BY DEF TypeOK
  <2> HIDE DEF PacketByte, FrameLen, line, digits
  <2>3. tmp_pkt' = [i \in 1..Mtu |->
                      IF i <= FrameLen(digits)
                      THEN PacketByte(DigitVal[digits[2 * i - 1]], DigitVal[digits[2 * i]])
                      ELSE IF 2 * i - 1 = Len(digits) THEN PacketByte(DigitVal[Last(digits)], 0)
                      ELSE tmp_pkt[i]]
    BY DEF Parse, line, digits
  <2> DEFINE byte(i) == IF i <= FrameLen(digits)
                        THEN PacketByte(DigitVal[digits[2 * i - 1]], DigitVal[digits[2 * i]])
                        ELSE IF 2 * i - 1 = Len(digits)
                             THEN PacketByte(DigitVal[Last(digits)], 0)
                             ELSE tmp_pkt[i]
  <2>4. \A i \in 1..Mtu : byte(i) \in 0..255
    BY <2>1, <2>2, Zenon
  <2>5. tmp_pkt' = [i \in 1..Mtu |-> byte(i)]
    BY <2>3
  <2> HIDE DEF byte
  <2> QED
    BY <2>4, <2>5
<1> QED
  BY <1>6, <1>7, <1>8

(* Every step keeps the types; the end of a line lies before the write     *)
(* pointer, so that what is left behind it has a length.                   *)
LEMMA TypeNext == TypeOK /\ SerialInv /\ [Next]_vars => TypeOK'
<1> SUFFICES ASSUME TypeOK, SerialInv, [Next]_vars PROVE TypeOK'
  OBVIOUS
<1>t. /\ buf \in [Room -> Chars \union {NUL}] /\ rd \in Nat /\ wr \in Nat
      /\ tmp_pkt \in [1..Mtu -> 0..255]
      /\ pc \in [Writers -> {"idle", "fit", "copy", "advance", "scan", "parse", "send",
                             "compact", "dead"}]
      /\ chunk \in [Writers -> Chunks \union {<<>>}]
      /\ cr \in [Writers -> Nat] /\ flen \in [Writers -> 0..Mtu]
      /\ left \in 0..MaxInput
      /\ \A w \in Writers : pc[w] \in {"fit", "copy", "advance"} => chunk[w] # <<>>
  BY DEF TypeOK
<1>l. \A w \in Writers : chunk[w] \in Seq(Chars) /\ Len(chunk[w]) \in Nat
  BY <1>t, ChunkTyped
<1>m. MaxInput \in Nat /\ Mtu \in Nat
  BY SizeAssumption
<1> HIDE DEF Room, Chunks
<1> USE DEF Goto
<1>stored. ASSUME NEW s, NEW n \in Nat, s \in [1..n -> Chars \union {NUL}], Len(s) = n
           PROVE  Stored(s) \in [Room -> Chars \union {NUL}]
  <2> SUFFICES ASSUME NEW i \in Room, i \in wr..(wr + n - 1) PROVE s[i - wr + 1] \in Chars \union {NUL}
    BY <1>stored, <1>t DEF Stored
  <2>1. i - wr + 1 \in 1..n
    BY <1>t, <1>stored
  <2> QED
    BY <2>1, <1>stored
<1>quiet. ASSUME NEW w \in Writers, chunk' = chunk,
                 NEW s \in {"idle", "scan", "parse", "send", "compact", "dead"},
                 pc' = [pc EXCEPT ![w] = s]
          PROVE  /\ pc' \in [Writers -> {"idle", "fit", "copy", "advance", "scan", "parse",
                                         "send", "compact", "dead"}]
                 /\ \A v \in Writers : pc'[v] \in {"fit", "copy", "advance"} => chunk'[v] # <<>>
  <2>1. pc' \in [Writers -> {"idle", "fit", "copy", "advance", "scan", "parse",
                              "send", "compact", "dead"}]
    BY <1>quiet, <1>t
  <2>2. ASSUME NEW v \in Writers, pc'[v] \in {"fit", "copy", "advance"} PROVE pc[v] = pc'[v]
    BY <1>quiet, <1>t, <2>2
  <2> QED
    BY <1>quiet, <1>t, <2>1, <2>2
<1>1. ASSUME NEW w \in Writers, NEW s \in Chunks, Enter(w, s) PROVE TypeOK'
  <2>1. s \in Seq(Chars) /\ Len(s) \in Nat /\ Len(s) >= 1
    BY ChunkIsSeq, SizeAssumption
  <2>2. s # <<>> /\ left' \in 0..MaxInput
    BY <2>1, <1>1, <1>t, <1>m DEF Enter
  <2> QED
    BY <2>2, <1>1, <1>t DEF Enter, TypeOK
<1>2. ASSUME NEW w \in Writers, Fit(w) PROVE TypeOK'
  <2>1. chunk[w] # <<>>
    BY <1>2, <1>t DEF Fit
  <2>2. /\ rd' \in Nat /\ wr' \in Nat /\ chunk'[w] # <<>>
        /\ chunk' \in [Writers -> Chunks \union {<<>>}]
    BY <1>2, <2>1, FitCuts
  <2>3. buf' \in [Room -> Chars \union {NUL}]
    <3>1. CASE wr + Len(chunk[w]) > Cap
      BY <1>2, <3>1, <1>t DEF Fit
    <3>2. CASE ~(wr + Len(chunk[w]) > Cap)
      BY <1>2, <3>2, <1>t DEF Fit
    <3> QED
      BY <3>1, <3>2
  <2>4. /\ \A v \in Writers : v # w => chunk'[v] = chunk[v] /\ pc'[v] = pc[v]
        /\ pc' = [pc EXCEPT ![w] = "copy"] /\ UNCHANGED <<tmp_pkt, cr, flen, sent, left>>
    BY <1>2, <1>t DEF Fit
  <2> QED
    BY <2>2, <2>3, <2>4, <1>t DEF TypeOK
<1>3. ASSUME NEW w \in Writers, Copy(w) PROVE TypeOK'
  <2>1. Stored(chunk[w]) \in [Room -> Chars \union {NUL}]
    <3>1. chunk[w] \in [1..Len(chunk[w]) -> Chars \union {NUL}]
      BY <1>l
    <3> QED
      BY <3>1, <1>l, <1>stored
  <2> QED
    BY <1>3, <2>1, <1>t DEF Copy, TypeOK, locals
<1>4. ASSUME NEW w \in Writers, CopyFault(w) PROVE TypeOK'
  <2>1. PICK k \in 0..(Len(chunk[w]) - 1) :
           buf' = Stored([i \in DOMAIN chunk[w] |-> IF i <= k THEN chunk[w][i] ELSE NUL])
    BY <1>4 DEF CopyFault
  <2> DEFINE s == [i \in DOMAIN chunk[w] |-> IF i <= k THEN chunk[w][i] ELSE NUL]
             n == Len(chunk[w])
  <2>2. n \in Nat /\ DOMAIN chunk[w] = 1..n /\ \A i \in 1..n : chunk[w][i] \in Chars
    BY <1>l
  <2>3. s \in [1..n -> Chars \union {NUL}]
    BY <2>2
  <2> HIDE DEF n
  <2>4. Len(s) = n
    BY <2>2, <2>3
  <2> HIDE DEF s
  <2>5. buf' \in [Room -> Chars \union {NUL}]
    BY <2>1, <2>2, <2>3, <2>4, <1>stored DEF s
  <2> QED
    BY <1>4, <2>5, <1>t DEF CopyFault, TypeOK
<1>5. ASSUME NEW w \in Writers, Advance(w) PROVE TypeOK'
  <2>1. wr' \in Nat
    BY <1>5, <1>t, <1>l DEF Advance
  <2> QED
    BY <1>5, <2>1, <1>t DEF Advance, TypeOK
<1>6. ASSUME NEW w \in Writers, Scan(w) PROVE TypeOK'
  <2>1. /\ cr' \in [Writers -> Nat]
        /\ pc' = [pc EXCEPT ![w] = "idle"] \/ pc' = [pc EXCEPT ![w] = "parse"]
    BY <1>6, ScanEnd
  <2>2. UNCHANGED <<buf, rd, wr, tmp_pkt, chunk, flen, sent, left>>
    BY <1>6 DEF Scan
  <2>3. /\ pc' \in [Writers -> {"idle", "fit", "copy", "advance", "scan", "parse",
                                "send", "compact", "dead"}]
        /\ \A v \in Writers : pc'[v] \in {"fit", "copy", "advance"} => chunk'[v] # <<>>
    BY <2>1, <2>2, <1>quiet
  <2> QED
    BY <2>1, <2>2, <2>3, <1>t DEF TypeOK
<1>7. ASSUME NEW w \in Writers, Parse(w) PROVE TypeOK'
  <2>1. /\ rd' \in Nat /\ flen' \in [Writers -> 0..Mtu]
        /\ tmp_pkt' \in [1..Mtu -> 0..255]
    BY <1>7, ParseMoves
  <2>2. pc' = [pc EXCEPT ![w] = "send"] /\ UNCHANGED <<buf, wr, chunk, cr, sent, left>>
    BY <1>7 DEF Parse
  <2>3. /\ pc' \in [Writers -> {"idle", "fit", "copy", "advance", "scan", "parse",
                                "send", "compact", "dead"}]
        /\ \A v \in Writers : pc'[v] \in {"fit", "copy", "advance"} => chunk'[v] # <<>>
    BY <2>2, <1>quiet
  <2> QED
    BY <2>1, <2>2, <2>3, <1>t DEF TypeOK
<1>8. ASSUME NEW w \in Writers, Send(w) \/ SendOops(w) PROVE TypeOK'
  <2>1. /\ pc' = [pc EXCEPT ![w] = "compact"] \/ pc' = [pc EXCEPT ![w] = "dead"]
        /\ UNCHANGED <<buf, rd, wr, tmp_pkt, chunk, cr, flen, left>>
    BY <1>8 DEF Send, SendOops, locals
  <2>2. /\ pc' \in [Writers -> {"idle", "fit", "copy", "advance", "scan", "parse",
                                "send", "compact", "dead"}]
        /\ \A v \in Writers : pc'[v] \in {"fit", "copy", "advance"} => chunk'[v] # <<>>
    BY <2>1, <1>quiet
  <2> QED
    BY <2>1, <2>2, <1>t DEF TypeOK
<1>9. ASSUME NEW w \in Writers, Compact(w) PROVE TypeOK'
  <2> DEFINE from == cr[w] + 1
  <2>1. /\ wr' = wr - from /\ rd' = 0
        /\ buf' = [i \in Room |-> IF from + i < wr THEN buf[from + i] ELSE buf[i]]
        /\ pc' = [pc EXCEPT ![w] = "scan"] /\ cr' = [cr EXCEPT ![w] = 0]
        /\ flen' = [flen EXCEPT ![w] = 0] /\ UNCHANGED <<tmp_pkt, chunk, left>>
    BY <1>9 DEF Compact
  <2>2. from \in Nat /\ from <= wr
    <3>1. cr[w] < wr
      BY <1>9 DEF Compact, SerialInv, LineFound
    <3> QED
      BY <3>1, <1>t
  <2> HIDE DEF from
  <2>3. wr' \in Nat
    BY <2>1, <2>2, <1>t
  <2>4. wr <= Cap /\ Cap \in Nat
    BY SizeAssumption DEF SerialInv
  <2>5. Room = 0..Cap
    BY DEF Room
  <2>6. ASSUME NEW i \in Room, from + i < wr PROVE from + i \in Room
    BY <2>2, <2>4, <2>5, <2>6, <1>t
  <2>7. buf' \in [Room -> Chars \union {NUL}]
    BY <2>1, <2>6, <1>t
  <2>8. /\ pc' \in [Writers -> {"idle", "fit", "copy", "advance", "scan", "parse",
                                "send", "compact", "dead"}]
        /\ \A v \in Writers : pc'[v] \in {"fit", "copy", "advance"} => chunk'[v] # <<>>
    BY <2>1, <1>quiet
  <2>9. cr' \in [Writers -> Nat]
    BY <2>1, <1>t
  <2>10. flen' \in [Writers -> 0..Mtu]
    BY <2>1, <1>t, <1>m
  <2> QED
    BY <2>1, <2>3, <2>7, <2>8, <2>9, <2>10, <1>t DEF TypeOK
<1>10. CASE UNCHANGED vars
  BY <1>10, <1>t DEF vars, TypeOK
<1> QED
  BY <1>1, <1>2, <1>3, <1>4, <1>5, <1>6, <1>7, <1>8, <1>9, <1>10 DEF Next, Step

-----------------------------------------------------------------------------
(***************************************************************************)
(* The pointers.                                                           *)
(***************************************************************************)
LEMMA SerialNext == TypeOK /\ SerialInv /\ [Next]_vars => SerialInv'
<1> SUFFICES ASSUME TypeOK, SerialInv, [Next]_vars PROVE SerialInv'
  OBVIOUS
<1>t. /\ wr \in Nat /\ rd \in Nat /\ Cap \in Nat
      /\ pc \in [Writers -> {"idle", "fit", "copy", "advance", "scan", "parse", "send",
                             "compact", "dead"}]
      /\ chunk \in [Writers -> Chunks \union {<<>>}] /\ cr \in [Writers -> Nat]
      /\ \A w \in Writers : pc[w] \in {"fit", "copy", "advance"} => chunk[w] # <<>>
  BY SizeAssumption DEF TypeOK
<1>l. \A w \in Writers : Len(chunk[w]) \in Nat
  BY <1>t, ChunkTyped
<1> HIDE DEF Chunks
<1>alone. ASSUME NEW w \in Writers, Busy(w),
                 NEW to \in {"idle", "copy", "scan", "parse", "send", "compact"},
                 pc' = [pc EXCEPT ![w] = to]
          PROVE  /\ pc'[w] = to
                 /\ \A u, v \in Writers : Busy(u)' /\ Busy(v)' => u = v
                 /\ \A v \in Storing' : v = w /\ to = "copy"
                 /\ \A v \in Writers : LineFound(v)' => v = w
                 /\ (\A v \in Writers : pc'[v] \notin {"send", "compact", "dead"})
                      => \A v \in Writers : v # w => pc[v] \notin {"send", "compact", "dead"}
  <2>1. pc'[w] = to /\ \A v \in Writers : v # w => pc'[v] = pc[v]
    BY <1>alone, <1>t
  <2>2. \A v \in Writers : v # w => pc[v] \in {"idle", "dead"}
    BY <1>alone DEF SerialInv, Busy
  <2>3. \A v \in Writers : Busy(v)' => v = w
    BY <2>1, <2>2 DEF Busy
  <2>4. \A v \in Storing' : v = w /\ to = "copy"
    <3> SUFFICES ASSUME NEW v \in Writers, pc'[v] \in {"copy", "advance"}
                 PROVE  v = w /\ to = "copy"
      BY DEF Storing
    <3> QED
      BY <2>1, <2>2
  <2>5. \A v \in Writers : LineFound(v)' => v = w
    BY <2>1, <2>2 DEF LineFound
  <2> QED
    BY <2>1, <2>3, <2>4, <2>5
<1> USE DEF Goto, SerialInv, Storing, LineFound, Busy
<1>1. ASSUME NEW w \in Writers, NEW s \in Chunks, Enter(w, s) PROVE SerialInv'
  BY <1>1, <1>t DEF Enter
<1>2. ASSUME NEW w \in Writers, Fit(w) PROVE SerialInv'
  <2>1. /\ wr' + Len(chunk'[w]) <= Cap
        /\ chunk' \in [Writers -> Chunks \union {<<>>}]
        /\ (rd' = 0 /\ wr' = 0) \/ (rd' = rd /\ wr' = wr)
    BY <1>2, <1>t, FitCuts DEF Fit
  <2>2. pc[w] = "fit" /\ pc' = [pc EXCEPT ![w] = "copy"]
    BY <1>2 DEF Fit
  <2>3. Busy(w) /\ ~LineFound(w)'
    BY <2>2, <1>t
  <2>4. (\A v \in Writers : v # w => pc[v] \notin {"send", "compact", "dead"}) => rd = 0
    BY <2>2
  <2>5. wr' <= Cap /\ rd' <= wr'
    BY <2>1, <1>t
  <2> HIDE DEF Storing, LineFound, Busy
  <2>6. /\ \A u, v \in Writers : Busy(u)' /\ Busy(v)' => u = v
        /\ \A v \in Storing' : v = w
        /\ \A v \in Writers : LineFound(v)' => v = w
        /\ (\A v \in Writers : pc'[v] \notin {"send", "compact", "dead"}) => rd = 0
    BY <2>2, <2>3, <2>4, <1>alone
  <2> QED
    BY <2>1, <2>3, <2>5, <2>6
<1>3. ASSUME NEW w \in Writers, Copy(w) PROVE SerialInv'
  BY <1>3, <1>t DEF Copy, locals
<1>4. ASSUME NEW w \in Writers, CopyFault(w) PROVE SerialInv'
  BY <1>4, <1>t DEF CopyFault
<1>5. ASSUME NEW w \in Writers, Advance(w) PROVE SerialInv'
  <2>1. /\ pc[w] = "advance" /\ pc' = [pc EXCEPT ![w] = "scan"] /\ UNCHANGED <<rd, cr>>
        /\ wr' = wr + Len(chunk[w]) /\ wr + Len(chunk[w]) <= Cap
    BY <1>5 DEF Advance
  <2>2. wr' <= Cap /\ rd' <= wr' /\ rd' = rd
    BY <2>1, <1>t, <1>l
  <2>3. \A v \in Writers : v # w => ~Busy(v) /\ pc'[v] = pc[v]
    BY <2>1, <1>t
  <2>4. pc'[w] = "scan"
    BY <2>1, <1>t
  <2> QED
    BY <2>1, <2>2, <2>3, <2>4
<1>6. ASSUME NEW w \in Writers, Scan(w) PROVE SerialInv'
  <2>1. /\ cr' \in [Writers -> Nat]
        /\ pc' = [pc EXCEPT ![w] = "idle"] \/ pc' = [pc EXCEPT ![w] = "parse"]
        /\ pc'[w] = "parse" => rd <= cr'[w] /\ cr'[w] < wr
    BY <1>6, ScanEnd
  <2>2. pc[w] = "scan" /\ UNCHANGED <<rd, wr, chunk>>
    BY <1>6 DEF Scan
  <2>3. Busy(w) /\ (LineFound(w)' => pc'[w] = "parse")
    BY <2>1, <2>2, <1>t
  <2>4. (\A v \in Writers : v # w => pc[v] \notin {"send", "compact", "dead"}) => rd = 0
    BY <2>2
  <2> HIDE DEF Storing, LineFound, Busy
  <2>5. /\ \A u, v \in Writers : Busy(u)' /\ Busy(v)' => u = v
        /\ Storing' = {}
        /\ \A v \in Writers : LineFound(v)' => v = w
        /\ (\A v \in Writers : pc'[v] \notin {"send", "compact", "dead"}) => rd = 0
    BY <2>1, <2>3, <2>4, <1>alone
  <2>6. rd' <= wr' /\ wr' <= Cap
    BY <2>2
  <2> QED
    BY <2>1, <2>2, <2>3, <2>5, <2>6
<1>7. ASSUME NEW w \in Writers, Parse(w) PROVE SerialInv'
  <2>1. rd' \in Nat /\ rd' <= cr[w] /\ cr[w] < wr
    <3>1. pc[w] = "parse"
      BY <1>7 DEF Parse
    <3>2. rd <= cr[w] /\ cr[w] < wr
      BY <3>1
    <3> HIDE DEF SerialInv, Storing, LineFound, Busy
    <3>3. rd' \in Nat /\ (rd <= cr[w] => rd' <= cr[w])
      BY <1>7, ParseMoves
    <3> QED
      BY <3>2, <3>3
  <2>2. pc[w] = "parse" /\ pc' = [pc EXCEPT ![w] = "send"] /\ UNCHANGED <<wr, chunk, cr>>
    BY <1>7 DEF Parse
  <2>3. Busy(w)
    BY <2>2
  <2>4. rd' <= wr' /\ wr' <= Cap /\ rd' <= cr'[w] /\ cr'[w] < wr'
    BY <2>1, <2>2, <1>t
  <2> HIDE DEF Storing, LineFound, Busy
  <2>5. /\ \A u, v \in Writers : Busy(u)' /\ Busy(v)' => u = v
        /\ Storing' = {} /\ pc'[w] = "send"
        /\ \A v \in Writers : LineFound(v)' => v = w
    BY <2>2, <2>3, <1>alone
  <2>6. ~ \A v \in Writers : pc'[v] \notin {"send", "compact", "dead"}
    BY <2>5
  <2>7. \A v \in Writers : LineFound(v)' => rd' <= cr'[v] /\ cr'[v] < wr'
    BY <2>4, <2>5
  <2>8. \A v \in Storing' : wr' + Len(chunk'[v]) <= Cap
    BY <2>5
  <2> QED
    BY <2>4, <2>5, <2>6, <2>7, <2>8, Zenon DEF SerialInv
<1>8. ASSUME NEW w \in Writers, Send(w) PROVE SerialInv'
  BY <1>8, <1>t DEF Send, locals
<1>9. ASSUME NEW w \in Writers, SendOops(w) PROVE SerialInv'
  BY <1>9, <1>t DEF SendOops, locals
<1>10. ASSUME NEW w \in Writers, Compact(w) PROVE SerialInv'
  <2>1. /\ pc[w] = "compact" /\ pc' = [pc EXCEPT ![w] = "scan"] /\ rd' = 0
        /\ wr' = wr - (cr[w] + 1)
    BY <1>10 DEF Compact
  <2>l. cr[w] < wr /\ cr[w] \in Nat
    BY <2>1, <1>t
  <2>2. Busy(w) /\ ~LineFound(w)'
    BY <2>1, <1>t
  <2>3. rd' <= wr' /\ wr' <= Cap
    BY <2>1, <2>l, <1>t
  <2> HIDE DEF Storing, LineFound, Busy
  <2>4. /\ \A u, v \in Writers : Busy(u)' /\ Busy(v)' => u = v
        /\ Storing' = {}
        /\ \A v \in Writers : LineFound(v)' => v = w
    BY <2>1, <2>2, <1>alone
  <2> QED
    BY <2>1, <2>2, <2>3, <2>4
<1>11. CASE UNCHANGED vars
  BY <1>11 DEF vars
<1> QED
  BY <1>1, <1>2, <1>3, <1>4, <1>5, <1>6, <1>7, <1>8, <1>9, <1>10, <1>11 DEF Next, Step

LEMMA SerialCorrect == Spec => [](TypeOK /\ SerialInv)
  BY TypeInit, TypeNext, SerialNext, PTL DEF Spec

(* The variables of genpipe_write keep their types: in particular no line  *)
(* yields a frame longer than tmp_pkt.                                     *)
THEOREM TypeCorrect == Spec => []TypeOK
  BY SerialCorrect, PTL

(* The pointers stay in order inside the buffer, every chunk fits where it *)
(* is stored, memcpy never gets a negative length and the pending          *)
(* characters begin at its start.                                          *)
THEOREM PointersCorrect == Spec => []PointersInBuffer
<1>1. TypeOK /\ SerialInv => PointersInBuffer
  <2> SUFFICES ASSUME TypeOK, SerialInv PROVE PointersInBuffer
    OBVIOUS
  <2>1. rd \in Nat /\ wr \in Nat /\ cr \in [Writers -> Nat]
    BY DEF TypeOK
  <2>2. ASSUME NEW w \in Writers, pc[w] = "compact" PROVE cr[w] + 1 <= wr
    BY <2>1, <2>2 DEF SerialInv, LineFound
  <2> QED
    BY <2>1, <2>2 DEF SerialInv, PointersInBuffer, Storing
<1> QED
  BY <1>1, SerialCorrect, PTL

-----------------------------------------------------------------------------
(***************************************************************************)
(* The transmit side implements LinePipe.                                  *)
(***************************************************************************)
(* Of the characters that users write, only hexadecimal digits are taken   *)
(* for digits.                                                             *)
DigitsAreHex ==
    \A c \in Chars \union {NUL} :
        IsDigit(c) => c \in DOMAIN HexVal /\ DigitVal[c] = HexVal[c]

(* A writer that dies leaves no other behind: it would go on with the line *)
(* that the dead one has parsed, and send an empty frame instead.          *)
DiesAlone == \A v, w \in Writers : pc[v] = "dead" => v = w

(* The characters from a position to the write pointer, and a found line *)
Buffered(from) == [i \in 1..(wr - from) |-> buf[from + i - 1]]
LineOf(w) == [i \in 1..cr[w] |-> buf[i - 1]]

(* Until a writer looks for lines, what is buffered is an incomplete one. *)
NoLineYet ==
    (\A w \in Writers : pc[w] \in {"idle", "fit", "copy", "advance"}) =>
        \A i \in 0..(wr - 1) : buf[i] # Newline

(* The line found is the first one, and what was parsed is its frame. *)
LineInv ==
    /\ NoLineYet
    /\ \A w \in Writers : LineFound(w) =>
          buf[cr[w]] = Newline /\ \A i \in 0..(cr[w] - 1) : buf[i] # Newline
    /\ \A w \in Writers : pc[w] = "send" => SubSeq(tmp_pkt, 1, flen[w]) = Pipe!Decode(LineOf(w))

(* What is pending, when calls take turns *)
PendingIsBuffered ==
    SerialInv =>
        /\ \A w \in Writers : pc[w] = "compact" => Pending = Buffered(1 + cr[w])
        /\ (\A w \in Writers : pc[w] # "compact") => Pending = Buffered(0)

LEMMA PendingHolds == PendingIsBuffered
<1> SUFFICES ASSUME SerialInv
             PROVE  /\ \A w \in Writers : pc[w] = "compact" => Pending = Buffered(1 + cr[w])
                    /\ (\A w \in Writers : pc[w] # "compact") => Pending = Buffered(0)
  BY Zenon DEF PendingIsBuffered
<1>1. ASSUME NEW w \in Writers, pc[w] = "compact" PROVE Pending = Buffered(1 + cr[w])
  <2>1. (CHOOSE v \in Writers : pc[v] = "compact") = w
    BY <1>1 DEF SerialInv, Busy
  <2> QED
    BY <1>1, <2>1, Zenon DEF Pending, Buffered
<1>2. ASSUME \A w \in Writers : pc[w] # "compact" PROVE Pending = Buffered(0)
  <2>1. ~(\E w \in Writers : pc[w] \in {"send", "dead"}) => rd = 0
    BY <1>2 DEF SerialInv
  <2>2. (IF \E w \in Writers : pc[w] \in {"send", "dead"} THEN 0 ELSE rd) = 0
    BY <2>1
  <2> QED
    BY <1>2, <2>2, Zenon DEF Pending, Buffered
<1> QED
  BY <1>1, <1>2

(* When a writer is at work, the others are between calls. *)
LEMMA OthersIdle ==
    ASSUME TypeOK, SerialInv, DiesAlone, NEW w \in Writers, Busy(w)
    PROVE  \A v \in Writers : v # w => pc[v] = "idle"
  BY DEF SerialInv, DiesAlone, Busy

(* The bytes a parsed line leaves in tmp_pkt are what it stands for. *)
LEMMA ParseDecodes ==
    ASSUME TypeOK, SerialInv, DigitsAreHex, NEW w \in Writers, Parse(w), rd = 0
    PROVE  SubSeq(tmp_pkt', 1, flen'[w]) = Pipe!Decode(LineOf(w))
<1> DEFINE line == LineOf(w)
           at == {i \in DOMAIN line : IsDigit(line[i])}
           digits == ElementsAt(line, at)
           n == Len(digits) \div 2
           bytes == IF Mtu <= n THEN Mtu ELSE n
           value(i) == HexVal[digits[2 * i - 1]] * 16 + HexVal[digits[2 * i]]
<1>1. cr[w] \in Nat /\ wr \in Nat /\ cr[w] < wr /\ wr <= Cap /\ Cap \in Nat
  BY SizeAssumption DEF TypeOK, SerialInv, LineFound, Parse
<1>2. \A i \in 1..cr[w] : line[i] \in Chars \union {NUL}
  <2> SUFFICES ASSUME NEW i \in 1..cr[w] PROVE buf[i - 1] \in Chars \union {NUL}
    BY DEF LineOf
  <2>1. Cap \in Nat
    BY SizeAssumption
  <2>2. i - 1 \in Room
    BY <1>1, <2>1 DEF Room
  <2> QED
    BY <2>2 DEF TypeOK
<1>3. DOMAIN line = 1..cr[w]
  BY DEF LineOf
<1>4. line = [i \in 1..(cr[w] - rd) |-> buf[rd + i - 1]]
  <2>1. cr[w] - rd = cr[w] /\ \A i \in 1..cr[w] : rd + i - 1 = i - 1
    BY <1>1
  <2> QED
    BY <2>1 DEF LineOf
<1> HIDE DEF line
<1>5. at \subseteq 1..cr[w] /\ \A i \in at : IsDigit(line[i])
  BY <1>3
<1>6. at = {i \in DOMAIN line : Pipe!IsHex(line[i])}
  <2>1. \A c : Pipe!IsHex(c) => IsDigit(c)
    BY CharAssumption DEF Pipe!IsHex, IsDigit
  <2>2. \A i \in 1..cr[w] : IsDigit(line[i]) => Pipe!IsHex(line[i])
    BY <1>2 DEF DigitsAreHex, Pipe!IsHex
  <2> QED
    BY <2>1, <2>2, <1>3
<1> HIDE DEF at
<1>7. /\ Cardinality(at) \in Nat /\ Len(digits) = Cardinality(at)
      /\ digits \in Seq({line[i] : i \in at})
  <2>1. cr[w] \in Nat /\ at \subseteq 1..cr[w]
    BY <1>1, <1>5
  <2> HIDE DEF digits, n
  <2>2. digits = ElementsAt(line, at)
    BY DEF digits
  <2>3. /\ Cardinality(at) \in Nat /\ Len(ElementsAt(line, at)) = Cardinality(at)
        /\ ElementsAt(line, at) \in Seq({line[i] : i \in at})
    BY <2>1, PickedElements, Zenon
  <2> QED
    BY <2>2, <2>3, Zenon
<1>8. digits = Pipe!ElementsAt(line, at)
  BY PipeElements, Zenon
<1>9. FrameLen(digits) = bytes /\ bytes \in 0..Mtu /\ bytes <= n /\ n \in Nat /\ 2 * n <= Len(digits)
  <2>1. n \in Nat /\ 2 * n <= Len(digits) /\ Mtu \in Nat
    BY <1>7, SizeAssumption
  <2> HIDE DEF n
  <2>2. Min({Mtu, n}) = bytes
    BY <2>1, PairMinMax
  <2> QED
    BY <2>1, <2>2 DEF FrameLen, n
<1>10. Pipe!Decode(line) = [i \in 1..bytes |-> value(i)]
  <2>1. Pipe!Min({Mtu, n}) = bytes
    <3>1. Pipe!Min({Mtu, n}) = Min({Mtu, n})
      BY DEF Pipe!Min, Min
    <3> QED
      BY <3>1, <1>9 DEF FrameLen
  <2> HIDE DEF bytes
  <2>2. Pipe!ElementsAt(line, {i \in DOMAIN line : Pipe!IsHex(line[i])}) = digits
    BY <1>6, <1>8
  <2> HIDE DEF digits
  <2> QED
    BY <2>1, <2>2 DEF Pipe!Decode
<1>11. flen'[w] = bytes
  BY <1>4, <1>9 DEF Parse, TypeOK, at
<1>12. tmp_pkt' \in [1..Mtu -> 0..255]
  BY ParseMoves
<1>13. ASSUME NEW i \in 1..bytes PROVE tmp_pkt'[i] = value(i)
  <2>1. i \in 1..Mtu /\ i <= FrameLen(digits) /\ 2 * i - 1 \in 1..Cardinality(at) /\ 2 * i \in 1..Cardinality(at)
    <3>1. bytes \in Nat /\ n \in Nat /\ bytes <= n /\ bytes <= Mtu /\ Mtu \in Nat
      BY <1>9, SizeAssumption
    <3> HIDE DEF n, bytes, digits
    <3> QED
      BY <1>7, <1>9, <3>1
  <2>2. tmp_pkt'[i] = PacketByte(DigitVal[digits[2 * i - 1]], DigitVal[digits[2 * i]])
    BY <2>1, <1>4 DEF Parse, at
  <2>3. \A k \in 1..Cardinality(at) :
           digits[k] \in DOMAIN HexVal /\ DigitVal[digits[k]] = HexVal[digits[k]]
    <3> TAKE k \in 1..Cardinality(at)
    <3> HIDE DEF digits
    <3>1. PICK j \in at : digits[k] = line[j]
      BY <1>7
    <3>2. IsDigit(line[j]) /\ line[j] \in Chars \union {NUL}
      BY <1>2, <1>5
    <3> QED
      BY <3>1, <3>2 DEF DigitsAreHex
  <2>4. /\ HexVal[digits[2 * i - 1]] \in 0..15 /\ HexVal[digits[2 * i]] \in 0..15
        /\ DigitVal[digits[2 * i - 1]] = HexVal[digits[2 * i - 1]]
        /\ DigitVal[digits[2 * i]] = HexVal[digits[2 * i]]
    BY <2>1, <2>3, CharAssumption
  <2> QED
    BY <2>2, <2>4, PacketByteOf
<1>14. SubSeq(tmp_pkt', 1, bytes) = [i \in 1..bytes |-> tmp_pkt'[i]]
  <2> HIDE DEF bytes
  <2> QED
    BY <1>9, <1>12, SizeAssumption
<1> QED
  <2> HIDE DEF value, bytes
  <2>1. SubSeq(tmp_pkt', 1, bytes) = [i \in 1..bytes |-> value(i)]
    BY <1>13, <1>14, Zenon
  <2> QED
    BY <2>1, <1>10, <1>11, Zenon DEF line

-----------------------------------------------------------------------------
(* Storing leaves the pending characters as they are. *)
LEMMA BufferedKept ==
    ASSUME TypeOK, wr' = wr, wr <= Cap, buf' \in [Room -> Chars \union {NUL}],
           \A i \in 0..(wr - 1) : buf'[i] = buf[i]
    PROVE  Buffered(0)' = Buffered(0)
<1>1. wr \in Nat
  BY DEF TypeOK
<1>2. ASSUME NEW i \in 1..wr PROVE buf'[0 + i - 1] = buf[0 + i - 1]
  <2>1. 0 + i - 1 \in 0..(wr - 1)
    BY <1>1
  <2> QED
    BY <2>1
<1> QED
  BY <1>1, <1>2 DEF Buffered

(* What Copy and CopyFault store lies behind the write pointer. *)
LEMMA StoredBehind ==
    ASSUME TypeOK, wr <= Cap, NEW s
    PROVE  \A i \in 0..(wr - 1) : Stored(s)[i] = buf[i]
<1> SUFFICES ASSUME NEW i \in 0..(wr - 1) PROVE Stored(s)[i] = buf[i]
  OBVIOUS
<1>1. wr \in Nat /\ Cap \in Nat
  BY SizeAssumption DEF TypeOK
<1>2. i \in Room /\ i \notin wr..(wr + Len(s) - 1)
  BY <1>1 DEF Room
<1> QED
  BY <1>2 DEF Stored

(* A step of LinePipe or a stutter *)
PipeStep == [Pipe!Accept \/ Pipe!Emit \/ Pipe!Lose]_<<Pending, sent>>

(* Sending emits the first line: what is pending goes on behind it. *)
LEMMA SendEmits ==
    ASSUME TypeOK, SerialInv, SerialInv', LineInv, NEW w \in Writers, Send(w)
    PROVE  Pipe!Emit
<1> DEFINE c == cr[w]
           p == Buffered(0)
<1>1. /\ pc[w] = "send" /\ c \in Nat /\ wr \in Nat /\ c < wr
      /\ buf[c] = Newline /\ \A i \in 0..(c - 1) : buf[i] # Newline
  BY DEF Send, TypeOK, SerialInv, LineFound, LineInv
<1>2. /\ pc' = [pc EXCEPT ![w] = "compact"] /\ UNCHANGED <<buf, wr, cr>>
      /\ sent' = Append(sent, SubSeq(tmp_pkt, 1, flen[w]))
  BY DEF Send, Goto, locals
<1>3. Pending = p
  <2>1. \A v \in Writers : pc[v] # "compact"
    BY <1>1 DEF SerialInv, Busy
  <2> QED
    BY <2>1, PendingHolds DEF PendingIsBuffered
<1>4. Pending' = Buffered(1 + c)
  <2>1. pc'[w] = "compact"
    BY <1>2 DEF TypeOK
  <2>2. PendingIsBuffered'
    BY PendingHolds, PTL
  <2>3. Pending' = Buffered(1 + cr[w])'
    BY <2>1, <2>2 DEF PendingIsBuffered
  <2> QED
    BY <2>3, <1>2 DEF Buffered
<1>5. DOMAIN p = 1..wr /\ \A i \in 1..wr : p[i] = buf[i - 1]
  <2>1. wr - 0 = wr /\ \A i \in 1..wr : 0 + i - 1 = i - 1
    BY <1>1
  <2> QED
    BY <2>1 DEF Buffered
<1>6. p \in Seq(Chars \union {NUL}) /\ Len(p) = wr
  <2>1. \A i \in 1..wr : p[i] \in Chars \union {NUL}
    <3> SUFFICES ASSUME NEW i \in 1..wr PROVE buf[i - 1] \in Chars \union {NUL}
      BY <1>5
    <3>1. Cap \in Nat /\ wr <= Cap
      BY SizeAssumption DEF SerialInv
    <3>2. i - 1 \in Room
      BY <1>1, <3>1 DEF Room
    <3> QED
      BY <3>2 DEF TypeOK
  <2>2. p = [i \in 1..wr |-> p[i]]
    BY <1>5 DEF Buffered
  <2> HIDE DEF p
  <2>3. p \in [1..wr -> Chars \union {NUL}]
    BY <2>1, <2>2
  <2> QED
    BY <2>3, <1>1
<1> HIDE DEF c, p
<1>7. c + 1 \in Pipe!Newlines(p) /\ \A i \in Pipe!Newlines(p) : c + 1 <= i
  <2>1. Pipe!Newlines(p) = {i \in 1..wr : buf[i - 1] = Newline}
    BY <1>5 DEF Pipe!Newlines
  <2>2. c + 1 \in 1..wr /\ c + 1 - 1 = c
    BY <1>1
  <2>3. ASSUME NEW i \in 1..wr, buf[i - 1] = Newline PROVE c + 1 <= i
    <3>1. i - 1 \notin 0..(c - 1)
      BY <1>1, <2>3
    <3> QED
      BY <3>1, <1>1
  <2> QED
    BY <2>1, <2>2, <2>3, <1>1
<1>8. Pipe!Min(Pipe!Newlines(p)) = c + 1
  <2>1. Pipe!Newlines(p) \subseteq Nat
    BY <1>5 DEF Pipe!Newlines
  <2> HIDE DEF Pipe!Newlines
  <2>2. Pipe!Min(Pipe!Newlines(p)) = Min(Pipe!Newlines(p))
    BY DEF Pipe!Min, Min
  <2>3. /\ Min(Pipe!Newlines(p)) \in Pipe!Newlines(p)
        /\ Min(Pipe!Newlines(p)) <= c + 1
    BY <1>7, <2>1, NatMin
  <2> QED
    BY <1>1, <1>7, <2>1, <2>2, <2>3
<1>9. SubSeq(p, 1, c + 1 - 1) = LineOf(w)
  <2>1. c + 1 - 1 = c /\ c \in 0..Len(p)
    BY <1>1, <1>6
  <2>2. SubSeq(p, 1, c) = [i \in 1..c |-> p[i]]
    BY <1>6, <2>1
  <2>3. \A i \in 1..c : p[i] = buf[i - 1]
    BY <1>1, <1>5
  <2> QED
    BY <2>1, <2>2, <2>3 DEF LineOf, c
<1>10. SubSeq(p, c + 1 + 1, Len(p)) = Buffered(1 + c)
  <2>1. SubSeq(p, c + 1 + 1, Len(p)) = [i \in 1..(wr - (1 + c)) |-> p[(c + 1 + 1) + i - 1]]
    BY <1>1, <1>6
  <2>2. \A i \in 1..(wr - (1 + c)) : p[(c + 1 + 1) + i - 1] = buf[(1 + c) + i - 1]
    <3> TAKE i \in 1..(wr - (1 + c))
    <3>1. (c + 1 + 1) + i - 1 \in 1..wr /\ ((c + 1 + 1) + i - 1) - 1 = (1 + c) + i - 1
      BY <1>1
    <3> QED
      BY <3>1, <1>5
  <2> QED
    BY <2>1, <2>2 DEF Buffered
<1>11. SubSeq(tmp_pkt, 1, flen[w]) = Pipe!Decode(LineOf(w))
  BY <1>1 DEF LineInv
<1> QED
  <2>1. Pipe!Newlines(Pending) # {} /\ Pipe!Min(Pipe!Newlines(Pending)) = c + 1
    BY <1>3, <1>7, <1>8
  <2> DEFINE end == Pipe!Min(Pipe!Newlines(Pending))
  <2>2. sent' = Append(sent, Pipe!Decode(SubSeq(Pending, 1, end - 1)))
    <3>1. SubSeq(Pending, 1, end - 1) = LineOf(w)
      <4>1. end = c + 1
        BY <2>1
      <4> HIDE DEF end
      <4>2. end - 1 = c + 1 - 1
        BY <1>1, <4>1
      <4> QED
        BY <4>2, <1>3, <1>9
    <3>2. sent' = Append(sent, Pipe!Decode(LineOf(w)))
      BY <1>2, <1>11
    <3> HIDE DEF end
    <3> QED
      BY <3>1, <3>2, Zenon
  <2>3. Pending' = SubSeq(Pending, end + 1, Len(Pending))
    BY <1>3, <1>4, <1>10, <2>1
  <2> QED
    BY <2>1, <2>2, <2>3, Zenon DEF Pipe!Emit

(* Steps that neither send nor accept anything stutter. *)
LEMMA PipeStutters ==
    ASSUME SerialInv, SerialInv', \A v \in Writers : pc[v] # "compact",
           \A v \in Writers : pc'[v] # "compact", Buffered(0)' = Buffered(0), sent' = sent
    PROVE  PipeStep
<1>1. PendingIsBuffered /\ PendingIsBuffered'
  BY PendingHolds, PTL
<1>2. Pending = Buffered(0) /\ Pending' = Buffered(0)'
  BY <1>1 DEF PendingIsBuffered
<1> QED
  BY <1>2 DEF PipeStep

(* What is stored behind the write pointer is accepted when it advances. *)
LEMMA AdvanceAccepts ==
    ASSUME TypeOK, SerialInv, SerialInv', NEW w \in Writers, Advance(w),
           \A v \in Writers : pc[v] # "compact", \A v \in Writers : pc'[v] # "compact"
    PROVE  Pipe!Accept
<1> DEFINE n == Len(chunk[w])
           p == Buffered(0)
           q == [i \in 1..(wr + n) |-> buf[i - 1]]
<1>1. n \in Nat /\ n >= 1 /\ wr \in Nat /\ wr + n <= Cap /\ Cap \in Nat
  <2>1. pc[w] = "advance" /\ chunk[w] # <<>> /\ chunk[w] \in Chunks \union {<<>>}
    BY DEF Advance, TypeOK
  <2>2. chunk[w] \in Seq(Chars) /\ Len(chunk[w]) \in 1..MaxChunk
    BY <2>1, ChunkIsSeq
  <2>3. wr + n <= Cap
    BY <2>1 DEF SerialInv, Storing
  <2> QED
    BY <2>2, <2>3, SizeAssumption DEF TypeOK
<1>2. wr' = wr + n /\ buf' = buf /\ sent' = sent
  BY DEF Advance
<1>3. Pending = p /\ Pending' = Buffered(0)'
  <2>1. PendingIsBuffered /\ PendingIsBuffered'
    BY PendingHolds, PTL
  <2> QED
    BY <2>1 DEF PendingIsBuffered
<1>4. p = [i \in 1..wr |-> buf[i - 1]]
  <2>1. wr - 0 = wr /\ \A i \in 1..wr : 0 + i - 1 = i - 1
    BY <1>1
  <2> QED
    BY <2>1 DEF Buffered
<1>5. Buffered(0)' = q
  <2> HIDE DEF n
  <2>1. (wr + n) - 0 = wr + n /\ \A i \in 1..(wr + n) : 0 + i - 1 = i - 1
    BY <1>1
  <2> QED
    BY <2>1, <1>2 DEF Buffered
<1>6. \A i \in 1..(wr + n) : buf[i - 1] \in Chars \union {NUL}
  <2> HIDE DEF n
  <2> SUFFICES ASSUME NEW i \in 1..(wr + n) PROVE buf[i - 1] \in Chars \union {NUL}
    OBVIOUS
  <2>1. Cap \in Nat
    BY SizeAssumption
  <2>2. i - 1 \in Room
    BY <1>1, <2>1 DEF Room
  <2> QED
    BY <2>2 DEF TypeOK
<1> HIDE DEF n, p
<1>7. q \in Seq(Chars \union {NUL}) /\ Len(q) = wr + n
  <2>1. q \in [1..(wr + n) -> Chars \union {NUL}]
    BY <1>6
  <2> HIDE DEF q
  <2> QED
    BY <1>1, <2>1
<1>8. p \in Seq(Chars \union {NUL}) /\ Len(p) = wr
  <2>1. p \in [1..wr -> Chars \union {NUL}]
    BY <1>1, <1>4, <1>6
  <2> QED
    BY <1>1, <2>1
<1>9. p = SubSeq(q, 1, wr)
  <2>1. SubSeq(q, 1, wr) = [i \in 1..wr |-> q[i]]
    <3> HIDE DEF q
    <3> QED
      BY <1>1, <1>7
  <2>2. \A i \in 1..wr : q[i] = buf[i - 1]
    BY <1>1
  <2> HIDE DEF q
  <2> QED
    BY <1>4, <2>1, <2>2
<1> HIDE DEF q
<1>10. q # p
  BY <1>1, <1>7, <1>8
<1>11. Pipe!IsPrefix(p, q)
  BY <1>1, <1>7, <1>8, <1>9 DEF Pipe!IsPrefix
<1> QED
  BY <1>2, <1>3, <1>5, <1>10, <1>11 DEF Pipe!Accept

(* Compacting moves the pending characters to the start of the buffer. *)
LEMMA CompactStutters ==
    ASSUME TypeOK, SerialInv, SerialInv', NEW w \in Writers, Compact(w),
           \A v \in Writers : pc'[v] # "compact"
    PROVE  PipeStep
<1> DEFINE from == cr[w] + 1
<1>1. /\ pc[w] = "compact" /\ from \in Nat /\ wr \in Nat /\ from <= wr /\ wr <= Cap
      /\ buf' = [i \in Room |-> IF from + i < wr THEN buf[from + i] ELSE buf[i]]
      /\ wr' = wr - from /\ sent' = sent
  BY DEF Compact, TypeOK, SerialInv
<1>2. Pending = Buffered(1 + cr[w]) /\ Pending' = Buffered(0)'
  <2>1. PendingIsBuffered /\ PendingIsBuffered'
    BY PendingHolds, PTL
  <2> QED
    BY <1>1, <2>1 DEF PendingIsBuffered
<1>3. Buffered(1 + cr[w]) = [i \in 1..(wr - from) |-> buf[from + i - 1]]
  <2>1. 1 + cr[w] = from
    BY DEF TypeOK
  <2> QED
    BY <2>1 DEF Buffered
<1>4. Buffered(0)' = [i \in 1..(wr - from) |-> buf'[0 + i - 1]]
  <2>1. (wr - from) - 0 = wr - from
    BY <1>1
  <2> QED
    BY <2>1, <1>1 DEF Buffered
<1>5. ASSUME NEW i \in 1..(wr - from) PROVE buf'[0 + i - 1] = buf[from + i - 1]
  <2> HIDE DEF from
  <2>1. Cap \in Nat
    BY SizeAssumption
  <2>2. 0 + i - 1 \in Room /\ from + (0 + i - 1) < wr /\ from + (0 + i - 1) = from + i - 1
    BY <1>1, <2>1 DEF Room
  <2> QED
    BY <1>1, <2>2
<1> HIDE DEF from
<1>6. Buffered(0)' = Buffered(1 + cr[w])
  BY <1>3, <1>4, <1>5
<1> QED
  BY <1>1, <1>2, <1>6 DEF PipeStep

-----------------------------------------------------------------------------
(* Where the first line that is complete ends *)
LEMMA ScanFinds ==
    ASSUME TypeOK, SerialInv, NEW w \in Writers, Scan(w), rd = 0
    PROVE  \/ pc' = [pc EXCEPT ![w] = "idle"] /\ \A i \in 0..(wr - 1) : buf[i] # Newline
           \/ /\ pc' = [pc EXCEPT ![w] = "parse"]
              /\ buf[cr'[w]] = Newline /\ \A i \in 0..(cr'[w] - 1) : buf[i] # Newline
<1> DEFINE ends == {i \in rd..(wr - 1) : buf[i] = Newline}
           last == Max({rd, wr})
           end == Min(ends \union {last})
<1>1. rd \in Nat /\ wr \in Nat /\ cr \in [Writers -> Nat]
  BY DEF TypeOK
<1>2. last = wr
  <2>0. rd \in Int /\ wr \in Int
    BY <1>1
  <2>1. last = IF rd >= wr THEN rd ELSE wr
    BY <2>0, PairMinMax, Zenon
  <2> QED
    BY <1>1, <2>1
<1>3. ends = {i \in 0..(wr - 1) : buf[i] = Newline} /\ ends \union {last} \subseteq Nat
  BY <1>1, <1>2
<1>4. IF end = wr THEN Goto(w, "idle") /\ UNCHANGED cr
                  ELSE Goto(w, "parse") /\ cr' = [cr EXCEPT ![w] = end]
  BY DEF Scan
<1> HIDE DEF ends, last
<1>5. end \in ends \union {wr} /\ \A i \in ends : end <= i
  <2>1. end \in ends \union {last} /\ \A i \in ends \union {last} : end <= i
    BY <1>3, NatMin
  <2> HIDE DEF end
  <2> QED
    BY <1>2, <2>1
<1> HIDE DEF end
<1>6. CASE end = wr
  <2>1. ASSUME NEW i \in 0..(wr - 1), buf[i] = Newline PROVE FALSE
    <3>1. i \in ends
      BY <1>3, <2>1
    <3> QED
      BY <3>1, <1>1, <1>5, <1>6
  <2> QED
    BY <2>1, <1>4, <1>6 DEF Goto
<1>7. CASE end # wr
  <2>1. end \in ends /\ end \in Nat /\ buf[end] = Newline
    BY <1>3, <1>5, <1>7
  <2>2. ASSUME NEW i \in 0..(end - 1), buf[i] = Newline PROVE FALSE
    <3>1. end <= wr - 1
      BY <1>3, <2>1
    <3>2. i \in ends
      BY <1>1, <1>3, <2>1, <2>2, <3>1
    <3> QED
      BY <3>2, <1>5, <2>1
  <2>3. cr'[w] = end
    BY <1>1, <1>4, <1>7
  <2> QED
    BY <2>1, <2>2, <2>3, <1>4, <1>7 DEF Goto
<1> QED
  BY <1>6, <1>7

(* Every step keeps LineInv, and is a step of LinePipe or a stutter. *)
LEMMA LineNext ==
    (/\ DigitsAreHex
     /\ TypeOK /\ TypeOK' /\ SerialInv /\ SerialInv' /\ DiesAlone /\ DiesAlone'
     /\ LineInv /\ [Next]_vars)
    => LineInv' /\ PipeStep
<1> SUFFICES ASSUME DigitsAreHex, TypeOK, TypeOK', SerialInv, SerialInv',
                    DiesAlone, DiesAlone', LineInv, [Next]_vars
             PROVE  LineInv' /\ PipeStep
  OBVIOUS
<1> USE DEF Goto
<1>t. /\ wr \in Nat /\ wr <= Cap /\ pc \in [Writers -> {"idle", "fit", "copy", "advance", "scan",
                                           "parse", "send", "compact", "dead"}]
  BY DEF TypeOK, SerialInv
<1>alone. ASSUME NEW w \in Writers, Busy(w)
          PROVE  /\ \A v \in Writers : v # w => pc[v] = "idle"
                 /\ pc[w] \notin {"send", "compact"} => rd = 0
  <2>1. \A v \in Writers : v # w => pc[v] = "idle"
    BY <1>alone, <1>t DEF SerialInv, DiesAlone, Busy
  <2>2. ASSUME pc[w] \notin {"send", "compact"} PROVE rd = 0
    <3>1. \A v \in Writers : pc[v] \notin {"send", "compact", "dead"}
      BY <1>alone, <2>1, <2>2 DEF Busy
    <3> QED
      BY <3>1 DEF SerialInv
  <2> QED
    BY <2>1, <2>2
(* A step before a line is looked for that keeps what is pending *)
<1>early. ASSUME NEW w \in Writers, \A v \in Writers : v # w => pc[v] = "idle",
                 pc[w] \in {"idle", "fit", "copy", "advance"},
                 NEW to \in {"idle", "fit", "copy", "advance"},
                 pc' = [pc EXCEPT ![w] = to],
                 wr' = wr, \A i \in 0..(wr - 1) : buf'[i] = buf[i], sent' = sent
          PROVE  LineInv' /\ PipeStep
  <2>1. \A v \in Writers : pc'[v] \in {"idle", "fit", "copy", "advance"}
    BY <1>early, <1>t
  <2>2. \A v \in Writers : pc[v] \in {"idle", "fit", "copy", "advance"}
    BY <1>early
  <2>3. \A i \in 0..(wr - 1) : buf[i] # Newline
    BY <2>2 DEF LineInv, NoLineYet
  <2>4. NoLineYet'
    BY <2>3, <1>early DEF NoLineYet
  <2>5. LineInv'
    BY <2>1, <2>4 DEF LineInv, LineFound
  <2>6. Buffered(0)' = Buffered(0)
    BY <1>early, <1>t, BufferedKept DEF TypeOK
  <2>7. (\A v \in Writers : pc[v] # "compact") /\ (\A v \in Writers : pc'[v] # "compact")
    BY <2>1, <2>2
  <2>8. PipeStep
    BY <2>6, <2>7, <1>early, PipeStutters
  <2> QED
    BY <2>5, <2>8
<1>1. ASSUME NEW w \in Writers, NEW s \in Chunks, Enter(w, s) PROVE LineInv' /\ PipeStep
  <2>1. \A v \in Writers : v # w => pc[v] = "idle"
    BY <1>1 DEF Enter, Busy, DiesAlone
  <2> QED
    BY <1>1, <2>1, <1>early DEF Enter
<1>2. ASSUME NEW w \in Writers, Fit(w) PROVE LineInv' /\ PipeStep
  <2>1. pc[w] = "fit" /\ pc' = [pc EXCEPT ![w] = "copy"] /\ sent' = sent
    BY <1>2 DEF Fit
  <2>2. \A v \in Writers : v # w => pc[v] = "idle"
    BY <2>1, <1>alone DEF Busy
  <2>3. CASE wr + Len(chunk[w]) > Cap
    <3>1. wr' = 0
      BY <1>2, <2>3 DEF Fit
    <3>2. \A v \in Writers : pc'[v] \in {"idle", "copy"} /\ pc[v] \in {"idle", "fit"}
      BY <2>1, <2>2, <1>t
    <3>3. LineInv'
      BY <3>1, <3>2 DEF LineInv, NoLineYet, LineFound
    <3>4. Pending = Buffered(0) /\ Pending' = Buffered(0)'
      <4>1. PendingIsBuffered /\ PendingIsBuffered'
        BY PendingHolds, PTL
      <4> QED
        BY <3>2, <4>1 DEF PendingIsBuffered
    <3>5. Pending' = <<>>
      BY <3>1, <3>4 DEF Buffered
    <3>6. Pipe!Newlines(Pending) = {}
      <4>1. \A i \in 0..(wr - 1) : buf[i] # Newline
        BY <3>2 DEF LineInv, NoLineYet
      <4>2. DOMAIN Pending = 1..wr /\ \A i \in 1..wr : Pending[i] = buf[i - 1] /\ i - 1 \in 0..(wr - 1)
        <5>1. wr - 0 = wr /\ \A i \in 1..wr : 0 + i - 1 = i - 1 /\ i - 1 \in 0..(wr - 1)
          BY <1>t
        <5> QED
          BY <5>1, <3>4 DEF Buffered
      <4> QED
        BY <4>1, <4>2 DEF Pipe!Newlines
    <3>7. PipeStep
      BY <2>1, <3>5, <3>6 DEF PipeStep, Pipe!Lose
    <3> QED
      BY <3>3, <3>7
  <2>4. CASE ~(wr + Len(chunk[w]) > Cap)
    <3>1. wr' = wr /\ buf' = buf
      BY <1>2, <2>4 DEF Fit
    <3> QED
      BY <2>1, <2>2, <3>1, <1>early
  <2> QED
    BY <2>3, <2>4
<1>3. ASSUME NEW w \in Writers, Copy(w) PROVE LineInv' /\ PipeStep
  <2>1. /\ pc[w] = "copy" /\ pc' = [pc EXCEPT ![w] = "advance"] /\ wr' = wr /\ sent' = sent
        /\ buf' = Stored(chunk[w])
    BY <1>3 DEF Copy
  <2>2. \A i \in 0..(wr - 1) : buf'[i] = buf[i]
    BY <2>1, <1>t, StoredBehind
  <2>3. \A v \in Writers : v # w => pc[v] = "idle"
    BY <2>1, <1>alone DEF Busy
  <2> QED
    BY <2>1, <2>2, <2>3, <1>early
<1>4. ASSUME NEW w \in Writers, CopyFault(w) PROVE LineInv' /\ PipeStep
  <2>1. pc[w] = "copy" /\ pc' = [pc EXCEPT ![w] = "idle"] /\ wr' = wr /\ sent' = sent
    BY <1>4 DEF CopyFault
  <2>2. PICK k \in 0..(Len(chunk[w]) - 1) :
           buf' = Stored([i \in DOMAIN chunk[w] |-> IF i <= k THEN chunk[w][i] ELSE NUL])
    BY <1>4 DEF CopyFault
  <2>3. \A i \in 0..(wr - 1) : buf'[i] = buf[i]
    BY <2>2, <1>t, StoredBehind
  <2>4. \A v \in Writers : v # w => pc[v] = "idle"
    BY <2>1, <1>alone DEF Busy
  <2> QED
    BY <2>1, <2>3, <2>4, <1>early
<1>5. ASSUME NEW w \in Writers, Advance(w) PROVE LineInv' /\ PipeStep
  <2>1. pc[w] = "advance" /\ pc' = [pc EXCEPT ![w] = "scan"]
    BY <1>5 DEF Advance
  <2>2. \A v \in Writers : v # w => pc[v] = "idle"
    BY <2>1, <1>alone DEF Busy
  <2>3. pc'[w] = "scan" /\ \A v \in Writers : pc[v] # "compact" /\ pc'[v] \in {"idle", "scan"}
    BY <2>1, <2>2, <1>t
  <2>4. LineInv'
    BY <2>3 DEF LineInv, NoLineYet, LineFound
  <2>5. PipeStep
    BY <1>5, <2>3, AdvanceAccepts DEF PipeStep
  <2> QED
    BY <2>4, <2>5
<1>6. ASSUME NEW w \in Writers, Scan(w) PROVE LineInv' /\ PipeStep
  <2>1. pc[w] = "scan" /\ UNCHANGED <<buf, wr, sent>>
    BY <1>6 DEF Scan
  <2>2. rd = 0 /\ \A v \in Writers : v # w => pc[v] = "idle"
    BY <2>1, <1>alone DEF Busy
  <2>3. \/ pc' = [pc EXCEPT ![w] = "idle"] /\ \A i \in 0..(wr - 1) : buf[i] # Newline
        \/ /\ pc' = [pc EXCEPT ![w] = "parse"]
           /\ buf[cr'[w]] = Newline /\ \A i \in 0..(cr'[w] - 1) : buf[i] # Newline
    BY <1>6, <2>2, ScanFinds
  <2>4. \A v \in Writers : v # w => pc'[v] = "idle"
    BY <2>2, <2>3, <1>t
  <2>5. LineInv'
    <3>1. CASE pc' = [pc EXCEPT ![w] = "idle"] /\ \A i \in 0..(wr - 1) : buf[i] # Newline
      <4>1. \A v \in Writers : pc'[v] = "idle"
        BY <2>4, <3>1, <1>t
      <4> QED
        BY <2>1, <3>1, <4>1 DEF LineInv, NoLineYet, LineFound
    <3>2. CASE /\ pc' = [pc EXCEPT ![w] = "parse"]
               /\ buf[cr'[w]] = Newline /\ \A i \in 0..(cr'[w] - 1) : buf[i] # Newline
      <4>1. pc'[w] = "parse"
        BY <3>2, <1>t
      <4> QED
        BY <2>1, <2>4, <3>2, <4>1 DEF LineInv, NoLineYet, LineFound
    <3> QED
      BY <2>3, <3>1, <3>2
  <2>6. \A v \in Writers : pc[v] # "compact" /\ pc'[v] # "compact"
    BY <2>1, <2>2, <2>3, <1>t
  <2>7. Buffered(0)' = Buffered(0)
    BY <2>1 DEF Buffered
  <2> QED
    BY <2>1, <2>5, <2>6, <2>7, PipeStutters
<1>7. ASSUME NEW w \in Writers, Parse(w) PROVE LineInv' /\ PipeStep
  <2>1. pc[w] = "parse" /\ pc' = [pc EXCEPT ![w] = "send"] /\ UNCHANGED <<buf, wr, cr, sent>>
    BY <1>7 DEF Parse
  <2>2. rd = 0 /\ \A v \in Writers : v # w => pc[v] = "idle"
    BY <2>1, <1>alone DEF Busy
  <2>3. pc'[w] = "send" /\ \A v \in Writers : v # w => pc'[v] = "idle"
    BY <2>1, <2>2, <1>t
  <2>4. SubSeq(tmp_pkt', 1, flen'[w]) = Pipe!Decode(LineOf(w))
    BY <1>7, <2>2, ParseDecodes
  <2>5. LineOf(w)' = LineOf(w) /\ Buffered(0)' = Buffered(0)
    BY <2>1 DEF LineOf, Buffered
  <2>6. LineInv'
    <3>1. NoLineYet'
      BY <2>3 DEF NoLineYet
    <3>2. buf[cr[w]] = Newline /\ \A i \in 0..(cr[w] - 1) : buf[i] # Newline
      BY <2>1 DEF LineInv, LineFound
    <3>3. SubSeq(tmp_pkt', 1, flen'[w]) = (Pipe!Decode(LineOf(w)))'
      BY <2>4, <2>5
    <3> QED
      BY <2>1, <2>3, <3>1, <3>2, <3>3 DEF LineInv, LineFound
  <2>7. \A v \in Writers : pc[v] # "compact" /\ pc'[v] # "compact"
    BY <2>1, <2>2, <2>3
  <2> QED
    BY <2>1, <2>5, <2>6, <2>7, PipeStutters
<1>8. ASSUME NEW w \in Writers, Send(w) PROVE LineInv' /\ PipeStep
  <2>1. pc[w] = "send" /\ pc' = [pc EXCEPT ![w] = "compact"] /\ UNCHANGED <<buf, cr>>
    BY <1>8 DEF Send, locals
  <2>2. \A v \in Writers : v # w => pc[v] = "idle"
    BY <2>1, <1>alone DEF Busy
  <2>3. pc'[w] = "compact" /\ \A v \in Writers : v # w => pc'[v] = "idle"
    BY <2>1, <2>2, <1>t
  <2>4. LineInv'
    BY <2>1, <2>3 DEF LineInv, NoLineYet, LineFound
  <2> QED
    BY <2>4, <1>8, SendEmits DEF PipeStep
<1>9. ASSUME NEW w \in Writers, SendOops(w) PROVE LineInv' /\ PipeStep
  <2>1. pc[w] = "send" /\ pc' = [pc EXCEPT ![w] = "dead"] /\ UNCHANGED <<buf, wr, sent>>
    BY <1>9 DEF SendOops
  <2>2. \A v \in Writers : v # w => pc[v] = "idle"
    BY <2>1, <1>alone DEF Busy
  <2>3. pc'[w] = "dead" /\ \A v \in Writers : v # w => pc'[v] = "idle"
    BY <2>1, <2>2, <1>t
  <2>4. LineInv'
    BY <2>3 DEF LineInv, NoLineYet, LineFound
  <2>5. \A v \in Writers : pc[v] # "compact" /\ pc'[v] # "compact"
    BY <2>1, <2>2, <2>3
  <2>6. Buffered(0)' = Buffered(0)
    BY <2>1 DEF Buffered
  <2> QED
    BY <2>1, <2>4, <2>5, <2>6, PipeStutters
<1>10. ASSUME NEW w \in Writers, Compact(w) PROVE LineInv' /\ PipeStep
  <2>1. pc[w] = "compact" /\ pc' = [pc EXCEPT ![w] = "scan"]
    BY <1>10 DEF Compact
  <2>2. \A v \in Writers : v # w => pc[v] = "idle"
    BY <2>1, <1>alone DEF Busy
  <2>3. pc'[w] = "scan" /\ \A v \in Writers : v # w => pc'[v] = "idle"
    BY <2>1, <2>2, <1>t
  <2>4. LineInv'
    BY <2>3 DEF LineInv, NoLineYet, LineFound
  <2>5. \A v \in Writers : pc'[v] # "compact"
    BY <2>3
  <2> QED
    BY <1>10, <2>4, <2>5, CompactStutters
<1>11. CASE UNCHANGED vars
  <2>1. LineInv'
    BY <1>11 DEF vars, LineInv, NoLineYet, LineFound, LineOf
  <2>2. UNCHANGED <<Pending, sent>>
    BY <1>11 DEF vars, Pending
  <2> QED
    BY <2>1, <2>2 DEF PipeStep
<1> QED
  BY <1>1, <1>2, <1>3, <1>4, <1>5, <1>6, <1>7, <1>8, <1>9, <1>10, <1>11 DEF Next, Step

LEMMA LineInit ==
    ASSUME Init PROVE LineInv /\ Pipe!Init
<1>1. wr = 0 /\ rd = 0 /\ sent = <<>> /\ \A w \in Writers : pc[w] = "idle"
  BY DEF Init
<1>2. LineInv
  BY <1>1 DEF LineInv, NoLineYet, LineFound
<1>3. Pending = Buffered(0)
  <2>1. SerialInv
    BY TypeInit
  <2> QED
    BY <1>1, <2>1, PendingHolds DEF PendingIsBuffered
<1>4. Pending = <<>>
  BY <1>1, <1>3 DEF Buffered
<1> QED
  BY <1>1, <1>2, <1>4 DEF Pipe!Init

(* When no writer goes on after another has died of a failed allocation,   *)
(* and only hexadecimal digits count as digits: every line that is written *)
(* goes out as one frame, decoded, in order, whatever copies fail, and     *)
(* only an incomplete line gets lost in an overflow.                       *)
THEOREM LinesSent ==
    ASSUME DigitsAreHex
    PROVE  Spec /\ []DiesAlone => LinesBecomeFrames
<1>1. (/\ TypeOK /\ TypeOK' /\ SerialInv /\ SerialInv' /\ DiesAlone /\ DiesAlone'
       /\ LineInv /\ [Next]_vars) => LineInv' /\ PipeStep
  BY LineNext
<1>2. Init => LineInv /\ Pipe!Init
  BY LineInit
<1>3. PipeStep <=> [Pipe!Accept \/ Pipe!Emit \/ Pipe!Lose]_<<Pending, sent>>
  BY DEF PipeStep
<1> QED
  BY <1>1, <1>2, <1>3, SerialCorrect, PTL DEF Spec, LinesBecomeFrames, Pipe!Spec

(* A single writer meets the condition: the driver is a pipe for lines. *)
COROLLARY LinesSentAlone ==
    ASSUME NEW w, Writers = {w}, DigitsAreHex
    PROVE  Spec => LinesBecomeFrames
<1>1. DiesAlone
  BY DEF DiesAlone
<1> QED
  BY <1>1, LinesSent, PTL
=============================================================================
