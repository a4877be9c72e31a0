---------------------------- MODULE Cursor_proofs ----------------------------
(***************************************************************************)
(* The cursor stays a cursor, and lines and pictures are drawn from the    *)
(* scroll they were started with, for every geometry of tiles and tables.  *)
(***************************************************************************)
EXTENDS MCCursor, TLAPS

(* What the assumption says of each constant.                              *)
LEMMA Constants ==
  /\ TileDots \in Nat \ {0} /\ Columns \in Nat \ {0}
  /\ LowRows \in Nat \ {0} /\ RowValues \in Nat \ {0} /\ RowValues % LowRows = 0
  /\ Rows \in Nat /\ 1 <= Rows /\ Rows <= RowValues
  /\ FineRows \in Nat \ {0}
  /\ LastDot \in Nat /\ LastLine \in Nat
BY CursorAssumption DEF CursorConstants

(* The operators drawing moves the cursor with (ppu.cpp 235-336).          *)
LEMMA Moves ==
  ASSUME NEW c \in VRAM, t \in VRAM
  PROVE  /\ LowerLine(c) \in VRAM /\ NextTile(c) \in VRAM
         /\ CopyHorizontal(c) \in VRAM /\ CopyVertical(c) \in VRAM
<1>1. /\ c.X \in 0..(Columns - 1) /\ c.Y \in 0..(RowValues - 1) /\ c.y \in 0..(FineRows - 1)
      /\ c.NX \in {0, 1} /\ c.NY \in {0, 1} /\ 1 - c.NX \in {0, 1} /\ 1 - c.NY \in {0, 1}
      /\ c = [X |-> c.X, Y |-> c.Y, NX |-> c.NX, NY |-> c.NY, y |-> c.y]
  BY DEF VRAM
<1>2. LowerLine(c) \in VRAM
  <2>1. CASE c.y < FineRows - 1
    <3>1. c.y + 1 \in 0..(FineRows - 1)
      BY <1>1, <2>1, Constants
    <3> QED
      BY <2>1, <3>1 DEF LowerLine, VRAM
  <2>2. CASE ~(c.y < FineRows - 1) /\ c.Y \in {Rows - 1, RowValues - 1}
    <3>1. 0 \in 0..(FineRows - 1) /\ 0 \in 0..(RowValues - 1)
      BY Constants
    <3> QED
      BY <1>1, <2>2, <3>1 DEF LowerLine, VRAM
  <2>3. CASE ~(c.y < FineRows - 1) /\ c.Y \notin {Rows - 1, RowValues - 1}
    <3>1. 0 \in 0..(FineRows - 1) /\ c.Y + 1 \in 0..(RowValues - 1)
      BY <1>1, <2>3, Constants
    <3> QED
      BY <2>3, <3>1 DEF LowerLine, VRAM
  <2> QED
    BY <2>1, <2>2, <2>3
<1>3. NextTile(c) \in VRAM
  <2>1. CASE c.X = Columns - 1
    <3>1. 0 \in 0..(Columns - 1)
      BY Constants
    <3> QED
      BY <1>1, <2>1, <3>1 DEF NextTile, VRAM
  <2>2. CASE c.X # Columns - 1
    <3>1. c.X + 1 \in 0..(Columns - 1)
      BY <1>1, <2>2, Constants
    <3> QED
      BY <2>2, <3>1 DEF NextTile, VRAM
  <2> QED
    BY <2>1, <2>2
<1>4. CopyHorizontal(c) \in VRAM /\ CopyVertical(c) \in VRAM
  BY DEF CopyHorizontal, CopyVertical, VRAM
<1> QED
  BY <1>2, <1>3, <1>4

LEMMA QuotientInNat ==
  ASSUME NEW n \in Nat, NEW d \in Nat \ {0}
  PROVE  n \div d \in Nat /\ n % d \in 0..(d - 1)
OBVIOUS

(* Whatever PPUDATA adds to the cursor, masked it is a cursor again.       *)
LEMMA Numbers == ASSUME NEW n \in Nat PROVE FromNumber(n) \in VRAM
<1> DEFINE rows == n \div Columns
           tables == rows \div RowValues
<1>1. rows \in Nat /\ n % Columns \in 0..(Columns - 1)
  BY Constants, QuotientInNat
<1>2. tables \in Nat /\ rows % RowValues \in 0..(RowValues - 1)
  BY <1>1, Constants, QuotientInNat
<1> HIDE DEF rows, tables
<1>3. /\ tables % 2 \in {0, 1} /\ (tables \div 2) % 2 \in {0, 1}
      /\ tables \div 4 \in Nat
  BY <1>2
<1>4. (tables \div 4) % FineRows \in 0..(FineRows - 1)
  BY <1>3, Constants, QuotientInNat
<1> QED
  BY <1>1, <1>2, <1>3, <1>4 DEF FromNumber, VRAM, rows, tables

LEMMA ProductInNat == ASSUME NEW m \in Nat, NEW n \in Nat PROVE m * n \in Nat
OBVIOUS

LEMMA ProductMonotonic ==
  ASSUME NEW k \in Nat, NEW m \in Nat, NEW n \in Nat, m <= n
  PROVE  k * m <= k * n
<1>1. PICK d \in Nat : n = m + d
  <2>1. n = m + (n - m) /\ n - m \in Nat
    OBVIOUS
  <2> QED
    BY <2>1
<1>2. k * n = k * m + k * d
  BY <1>1
<1> QED
  BY <1>2, ProductInNat

LEMMA NumberInNat == ASSUME NEW c \in VRAM PROVE Number(c) \in Nat
<1>1. c.X \in Nat /\ c.Y \in Nat /\ c.NX \in Nat /\ c.NY \in Nat /\ c.y \in Nat
  BY DEF VRAM
<1>2. RowValues * (c.NX + 2 * c.NY + 4 * c.y) \in Nat
  <2>1. c.NX + 2 * c.NY + 4 * c.y \in Nat
    BY <1>1
  <2> QED
    BY <2>1, Constants, ProductInNat
<1>3. c.Y + RowValues * (c.NX + 2 * c.NY + 4 * c.y) \in Nat
  BY <1>1, <1>2
<1>4. Columns * (c.Y + RowValues * (c.NX + 2 * c.NY + 4 * c.y)) \in Nat
  BY <1>3, Constants, ProductInNat
<1> QED
  BY <1>1, <1>4 DEF Number

(* The two parts of a row in PPUADDR's bytes (ppu.cpp 100-118) make a row. *)
LEMMA RowParts ==
  /\ \A high \in 0..(RowValues \div LowRows - 1), low \in 0..(LowRows - 1) :
       high * LowRows + low \in 0..(RowValues - 1)
  /\ \A row \in 0..(RowValues - 1) :
       /\ row % LowRows \in 0..(LowRows - 1)
       /\ row \div LowRows \in 0..(RowValues \div LowRows - 1)
<1> DEFINE parts == RowValues \div LowRows
<1>1. LowRows \in Nat \ {0} /\ RowValues \in Nat \ {0} /\ RowValues % LowRows = 0
  BY Constants
<1>2. parts \in Nat /\ RowValues = LowRows * parts
  BY <1>1
<1> HIDE DEF parts
<1>3. ASSUME NEW high \in 0..(parts - 1), NEW low \in 0..(LowRows - 1)
      PROVE  high * LowRows + low \in 0..(RowValues - 1)
  <2>1. high \in Nat /\ low \in Nat /\ high + 1 <= parts /\ low + 1 <= LowRows
    BY <1>1, <1>2, <1>3
  <2>2. (high + 1) * LowRows <= parts * LowRows
    BY <1>1, <1>2, <2>1
  <2>3. (high + 1) * LowRows = high * LowRows + LowRows /\ high * LowRows \in Nat
    BY <1>1, <2>1
  <2> QED
    BY <1>1, <1>2, <2>1, <2>2, <2>3
<1>4. ASSUME NEW row \in 0..(RowValues - 1)
      PROVE  row % LowRows \in 0..(LowRows - 1) /\ row \div LowRows \in 0..(parts - 1)
  <2>1. row \in Nat /\ row < LowRows * parts
    BY <1>1, <1>2, <1>4
  <2>2. row % LowRows \in 0..(LowRows - 1) /\ row \div LowRows \in Nat
    BY <1>1, <2>1, QuotientInNat
  <2>3. row = LowRows * (row \div LowRows) + (row % LowRows)
    BY <1>1, <2>1
  <2>4. LowRows * (row \div LowRows) < LowRows * parts
    BY <1>1, <1>2, <2>1, <2>2, <2>3
  <2>5. ASSUME parts <= row \div LowRows PROVE FALSE
    <3>1. LowRows * parts <= LowRows * (row \div LowRows)
      BY <1>1, <1>2, <2>2, <2>5, ProductMonotonic
    <3>2. LowRows * parts \in Nat /\ LowRows * (row \div LowRows) \in Nat
      BY <1>1, <1>2, <2>2, ProductInNat
    <3> QED
      BY <2>4, <3>1, <3>2
  <2> QED
    BY <1>2, <2>2, <2>5
<1> QED
  BY <1>3, <1>4 DEF parts

-----------------------------------------------------------------------------
(* Types, one action at a time.                                            *)

LEMMA InitTyped == Init => TypeOK
<1>1. Origin \in VRAM
  BY Constants DEF Origin, VRAM
<1>2. -1 \in -1..LastLine /\ 0 \in 0..LastDot
  BY Constants
<1> QED
  BY <1>1, <1>2 DEF Init, TypeOK

LEMMA StepTyped == TypeOK /\ step => TypeOK'
<1> SUFFICES ASSUME TypeOK, step PROVE TypeOK'
  OBVIOUS
<1>1. v \in VRAM /\ t \in VRAM
  BY DEF TypeOK
<1>2. bg_eval_ \in VRAM
  <2>1. NextTile(LowerLine(v)) \in VRAM /\ CopyHorizontal(v) \in VRAM /\ NextTile(v) \in VRAM
    BY <1>1, Moves
  <2> QED
    BY <1>1, <2>1 DEF bg_eval_
<1>3. v' \in VRAM
  BY <1>1, <1>2, Moves DEF step
<1>4. scanline' \in -1..LastLine /\ dot' \in 0..LastDot
  BY Constants DEF TypeOK, step, Advance
<1> QED
  BY <1>3, <1>4 DEF TypeOK, step, ports

LEMMA PortsTyped == TypeOK /\ Ports => TypeOK'
<1> SUFFICES ASSUME TypeOK, Ports PROVE TypeOK'
  OBVIOUS
<1> USE DEF clock, ports
<1>1. v \in VRAM /\ t \in VRAM
  BY DEF TypeOK
<1>2. CASE write_ppuctrl
  <2>1. t' \in VRAM
    BY <1>1, <1>2 DEF write_ppuctrl, VRAM
  <2> QED
    BY <1>2, <2>1 DEF write_ppuctrl, TypeOK
<1>3. CASE write_ppumask
  BY <1>3 DEF write_ppumask, TypeOK
<1>4. CASE read_ppustatus
  BY <1>4 DEF read_ppustatus, TypeOK
<1>5. CASE write_ppuscroll
  <2>1. t' \in VRAM
    BY <1>1, <1>5 DEF write_ppuscroll, VRAM
  <2> QED
    BY <1>5, <2>1 DEF write_ppuscroll, TypeOK
<1>6. CASE write_ppuaddr
  <2>1. t.Y \in 0..(RowValues - 1)
    BY <1>1 DEF VRAM
  <2>2. t.Y % LowRows \in 0..(LowRows - 1) /\ t.Y \div LowRows \in 0..(RowValues \div LowRows - 1)
    BY <2>1, RowParts
  <2>3. CASE PpuAddrHigh /\ UNCHANGED v
    <3>1. PICK line \in 0..(FineRows \div 2 - 1), nam_x \in {0, 1}, nam_y \in {0, 1},
               high \in 0..(RowValues \div LowRows - 1) :
            t' = [t EXCEPT !.y = line, !.NX = nam_x, !.NY = nam_y,
                           !.Y = high * LowRows + (@ % LowRows)]
      BY <2>3 DEF PpuAddrHigh
    <3>2. high * LowRows + (t.Y % LowRows) \in 0..(RowValues - 1)
      BY <2>2, RowParts
    <3>3. line \in 0..(FineRows - 1)
      BY Constants
    <3> QED
      BY <1>1, <1>6, <2>3, <3>1, <3>2, <3>3 DEF write_ppuaddr, TypeOK, VRAM
  <2>4. CASE PpuAddrLow /\ v' = t'
    <3>1. PICK low \in 0..(LowRows - 1), column \in 0..(Columns - 1) :
            t' = [t EXCEPT !.Y = (@ \div LowRows) * LowRows + low, !.X = column]
      BY <2>4 DEF PpuAddrLow
    <3>2. (t.Y \div LowRows) * LowRows + low \in 0..(RowValues - 1)
      BY <2>2, RowParts
    <3>3. t' \in VRAM
      BY <1>1, <3>1, <3>2 DEF VRAM
    <3> QED
      BY <1>6, <2>4, <3>3 DEF write_ppuaddr, TypeOK
  <2> QED
    BY <1>6, <2>3, <2>4 DEF write_ppuaddr
<1>7. CASE access_ppudata
  <2>1. Number(v) + (IF addr_inc THEN Columns ELSE 1) \in Nat
    BY <1>1, NumberInNat, Constants
  <2>2. v' \in VRAM
    BY <1>7, <2>1, Numbers DEF access_ppudata
  <2> QED
    BY <1>7, <2>2 DEF access_ppudata, TypeOK
<1> QED
  BY <1>2, <1>3, <1>4, <1>5, <1>6, <1>7 DEF Ports

LEMMA ResetTyped == reset => TypeOK'
<1>1. Origin \in VRAM
  BY Constants DEF Origin, VRAM
<1>2. -1 \in -1..LastLine /\ 0 \in 0..LastDot
  BY Constants
<1> QED
  BY <1>1, <1>2 DEF reset, TypeOK

(* The cursor's fields never leave the bits the code gives them (ppu.h     *)
(* 251-259), whatever is drawn, written and accessed in which order.       *)
THEOREM TypeCorrect == Spec => []TypeOK
<1>1. TypeOK /\ [Next]_vars => TypeOK'
  <2>1. TypeOK /\ UNCHANGED vars => TypeOK'
    BY DEF TypeOK, vars, ports, clock
  <2> QED
    BY <2>1, StepTyped, PortsTyped, ResetTyped DEF Next
<1> QED
  BY <1>1, InitTyped, PTL DEF Spec

-----------------------------------------------------------------------------
(* Counting.                                                               *)
LEMMA Divided ==
  ASSUME NEW x \in Nat, NEW m \in Nat \ {0}
  PROVE  x \div m \in Nat /\ x % m \in 0..(m - 1) /\ x = m * (x \div m) + (x % m)
<1>1. x = m * (x \div m) + (x % m)
  OBVIOUS
<1> QED
  BY <1>1, QuotientInNat

LEMMA DividedAlone ==
  ASSUME NEW m \in Nat \ {0}, NEW q \in Int, NEW r \in 0..(m - 1)
  PROVE  (m * q + r) % m = r /\ (m * q + r) \div m = q
OBVIOUS

LEMMA OneMore ==
  ASSUME NEW x \in Nat, NEW m \in Nat \ {0}
  PROVE  /\ (x + 1) % m = IF x % m = m - 1 THEN 0 ELSE (x % m) + 1
         /\ (x + 1) \div m = IF (x + 1) % m = 0 THEN (x \div m) + 1 ELSE x \div m
<1> DEFINE q == x \div m
           r == x % m
<1>1. q \in Nat /\ r \in 0..(m - 1) /\ x = m * q + r
  BY Divided
<1> HIDE DEF q, r
<1>2. CASE r = m - 1
  <2>1. x + 1 = m * (q + 1) + 0
    BY <1>1, <1>2
  <2>2. (x + 1) % m = 0 /\ (x + 1) \div m = q + 1
    BY <1>1, <2>1, DividedAlone
  <2> QED
    BY <1>2, <2>2 DEF q, r
<1>3. CASE r # m - 1
  <2>1. x + 1 = m * q + (r + 1) /\ r + 1 \in 0..(m - 1) /\ r + 1 # 0
    BY <1>1, <1>3
  <2>2. (x + 1) % m = r + 1 /\ (x + 1) \div m = q
    BY <1>1, <2>1, DividedAlone
  <2> QED
    BY <1>3, <2>1, <2>2 DEF q, r
<1> QED
  BY <1>2, <1>3

LEMMA MultipleAway ==
  ASSUME NEW m \in Nat \ {0}, NEW n \in Nat, n % m = 0, NEW x \in Nat
  PROVE  (n + x) % m = x % m
<1> DEFINE k == n \div m
           q == x \div m
           r == x % m
<1>1. k \in Nat /\ n = m * k + 0
  BY Divided
<1>2. q \in Nat /\ r \in 0..(m - 1) /\ x = m * q + r
  BY Divided
<1> HIDE DEF k, q, r
<1>3. n + x = m * (k + q) + r
  BY <1>1, <1>2
<1>4. (m * (k + q) + r) % m = r
  BY <1>1, <1>2, DividedAlone
<1> QED
  BY <1>3, <1>4 DEF r

(* The dots in their order on a line.                                      *)
LEMMA Geometry ==
  /\ TileDots \in Nat \ {0} /\ Columns \in Nat \ {0} /\ VisibleDots \in Nat \ {0}
  /\ VisibleDots % TileDots = 0
  /\ FirstFetch \in Nat /\ VisibleDots + 1 < FirstFetch /\ FirstFetch % TileDots = 0
  /\ LastDot \in Nat /\ FirstFetch + 2 * TileDots < LastDot
  /\ FirstCopyDot \in Nat /\ LastCopyDot \in Nat
  /\ VisibleDots + 1 < FirstCopyDot /\ FirstCopyDot <= LastCopyDot /\ LastCopyDot < LastDot
  /\ VisibleLines \in Nat /\ LastLine \in Nat /\ VisibleLines <= LastLine
<1>1. TileDots \in Nat \ {0} /\ Columns \in Nat \ {0}
  BY Constants
<1>2. VisibleDots \in Nat \ {0}
  <2>1. TileDots * Columns \in Nat /\ TileDots * 1 <= TileDots * Columns
    BY <1>1, ProductInNat, ProductMonotonic
  <2> QED
    BY <1>1, <2>1 DEF VisibleDots
<1>3. VisibleDots % TileDots = 0
  <2>1. 0 \in 0..(TileDots - 1) /\ TileDots * Columns = TileDots * Columns + 0
    BY <1>1
  <2> QED
    BY <1>1, <2>1, DividedAlone DEF VisibleDots
<1> QED
  BY <1>1, <1>2, <1>3, CursorAssumption DEF CursorConstants

-----------------------------------------------------------------------------
(* Columns                                                                 *)
LEMMA ColumnTyped ==
  ASSUME NEW c \in VRAM
  PROVE  Column(c) \in 0..(2 * Columns - 1)
BY Constants DEF VRAM, Column

LEMMA NextColumn ==
  ASSUME NEW c \in VRAM
  PROVE  Column(NextTile(c)) = IF Column(c) = 2 * Columns - 1 THEN 0 ELSE Column(c) + 1
<1>1. c.X \in 0..(Columns - 1) /\ c.NX \in {0, 1} /\ Columns \in Nat \ {0}
  BY Constants DEF VRAM
<1>2. CASE c.X = Columns - 1
  <2>1. NextTile(c).X = 0 /\ NextTile(c).NX = 1 - c.NX
    BY <1>2 DEF NextTile, VRAM
  <2> QED
    BY <1>1, <1>2, <2>1 DEF Column
<1>3. CASE c.X # Columns - 1
  <2>1. NextTile(c).X = c.X + 1 /\ NextTile(c).NX = c.NX
    BY <1>3 DEF NextTile, VRAM
  <2> DEFINE table == c.NX * Columns
  <2>2. Column(NextTile(c)) = table + (c.X + 1) /\ Column(c) = table + c.X
    BY <2>1 DEF Column
  <2>3. table \in {0, Columns}
    BY <1>1
  <2> HIDE DEF table
  <2> QED
    BY <1>1, <1>3, <2>2, <2>3
<1> QED
  BY <1>2, <1>3

(* Tiles fetched by the time of a dot.                                     *)
Fetched(d) ==
  IF d = 0 THEN 2
  ELSE IF d <= VisibleDots + 1 THEN 2 + ((d - 1) \div TileDots)
  ELSE IF d <= FirstFetch THEN 0
  ELSE IF d <= FirstFetch + 2 * TileDots THEN (d - 1 - FirstFetch) \div TileDots
  ELSE 2

LEMMA FetchedNext ==
  ASSUME dot \in 0..LastDot
  PROVE  /\ TilesFetched = Fetched(dot) /\ Fetched(dot) \in Nat
         /\ dot # VisibleDots + 1 /\ dot # LastDot =>
              Fetched(dot + 1) = IF FetchesTile THEN Fetched(dot) + 1 ELSE Fetched(dot)
         /\ dot \in {LastDot - 1, LastDot} =>
              Fetched(0) = IF FetchesTile THEN Fetched(dot) + 1 ELSE Fetched(dot)
         /\ Fetched(VisibleDots + 2) = 0 /\ Fetched(0) = 2 /\ Fetched(LastDot) = 2
<1> USE Geometry
<1>1. TilesFetched = Fetched(dot)
  BY DEF TilesFetched, Fetched
<1>2. CASE dot = 0
  <2>1. 0 \div TileDots = 0
    OBVIOUS
  <2> QED
    BY <1>1, <1>2, <2>1 DEF Fetched, FetchesTile
<1>3. CASE dot \in 1..VisibleDots
  <2>1. /\ (dot - 1) + 1 = dot /\ dot - 1 \in Nat
        /\ dot \div TileDots = IF dot % TileDots = 0 THEN ((dot - 1) \div TileDots) + 1
                               ELSE (dot - 1) \div TileDots
    <3> DEFINE x == dot - 1
    <3>1. x \in Nat /\ x + 1 = dot
      BY <1>3
    <3> HIDE DEF x
    <3>2. (x + 1) \div TileDots = IF (x + 1) % TileDots = 0 THEN (x \div TileDots) + 1
                                  ELSE x \div TileDots
      BY <3>1, OneMore
    <3> QED
      BY <3>1, <3>2 DEF x
  <2>2. (dot - 1) \div TileDots \in Nat
    BY <1>3, <2>1, QuotientInNat
  <2> QED
    BY <1>1, <1>3, <2>1, <2>2 DEF Fetched, FetchesTile
<1>4. CASE dot \in (VisibleDots + 1)..FirstFetch
  <2>1. (VisibleDots \div TileDots) \in Nat /\ 0 \div TileDots = 0
    BY QuotientInNat
  <2> QED
    BY <1>1, <1>4, <2>1 DEF Fetched, FetchesTile
<1>5. CASE dot \in (FirstFetch + 1)..(FirstFetch + 2 * TileDots)
  <2> DEFINE x == dot - 1 - FirstFetch
  <2>1. x \in Nat /\ x + 1 = dot - FirstFetch /\ dot = FirstFetch + (x + 1) /\ x + 1 \in Nat
    BY <1>5
  <2>2. (dot - FirstFetch) \div TileDots =
          IF dot % TileDots = 0 THEN (x \div TileDots) + 1 ELSE x \div TileDots
    <3> HIDE DEF x
    <3>1. dot % TileDots = (x + 1) % TileDots
      BY <2>1, MultipleAway
    <3>2. (x + 1) \div TileDots = IF (x + 1) % TileDots = 0 THEN (x \div TileDots) + 1
                                  ELSE x \div TileDots
      BY <2>1, OneMore
    <3> QED
      BY <2>1, <3>1, <3>2
  <2>3. x \div TileDots \in Nat
    BY <2>1, QuotientInNat
  <2>4. dot = FirstFetch + 2 * TileDots =>
          (dot - FirstFetch) \div TileDots = 2 /\ dot % TileDots = 0
    <3> SUFFICES ASSUME dot = FirstFetch + 2 * TileDots
                 PROVE  (dot - FirstFetch) \div TileDots = 2 /\ dot % TileDots = 0
      OBVIOUS
    <3> DEFINE two == TileDots * 2 + 0
    <3>1. 0 \in 0..(TileDots - 1) /\ dot - FirstFetch = two /\ dot = FirstFetch + two
          /\ two \in Nat
      OBVIOUS
    <3>2. two % TileDots = 0 /\ two \div TileDots = 2
      BY <3>1, DividedAlone
    <3> HIDE DEF two
    <3>3. (FirstFetch + two) % TileDots = two % TileDots
      BY <3>1, MultipleAway
    <3> QED
      BY <3>1, <3>2, <3>3
  <2> QED
    BY <1>1, <1>5, <2>1, <2>2, <2>3, <2>4 DEF Fetched, FetchesTile
<1>6. CASE dot > FirstFetch + 2 * TileDots
  BY <1>1, <1>6 DEF Fetched, FetchesTile
<1> QED
  BY <1>2, <1>3, <1>4, <1>5, <1>6

-----------------------------------------------------------------------------
(* Lines                                                                   *)
PictureLines == 2 * Rows * FineRows

LEMMA LineTyped ==
  ASSUME NEW c \in VRAM, c.Y < Rows
  PROVE  Line(c) \in 0..(PictureLines - 1) /\ PictureLines \in Nat \ {0}
<1>1. /\ c.Y \in Nat /\ c.y \in 0..(FineRows - 1) /\ c.NY \in {0, 1}
      /\ Rows \in Nat /\ Rows >= 1 /\ FineRows \in Nat /\ FineRows >= 1
  BY Constants DEF VRAM
<1> DEFINE row == c.NY * Rows + c.Y
<1>2. row \in Nat /\ row + 1 <= 2 * Rows
  BY <1>1
<1> HIDE DEF row
<1>3. FineRows * (row + 1) <= FineRows * (2 * Rows)
  BY <1>1, <1>2, ProductMonotonic
<1>4. /\ FineRows * (row + 1) = row * FineRows + FineRows /\ row * FineRows \in Nat
      /\ FineRows * (2 * Rows) = PictureLines
  BY <1>1, <1>2 DEF PictureLines
<1>5. Line(c) = row * FineRows + c.y
  BY DEF Line, row
<1> QED
  BY <1>1, <1>3, <1>4, <1>5

LEMMA NextLine ==
  ASSUME NEW c \in VRAM, c.Y < Rows, t \in VRAM
  PROVE  /\ Line(LowerLine(c)) = IF Line(c) = PictureLines - 1 THEN 0 ELSE Line(c) + 1
         /\ LowerLine(c).Y < Rows
<1>1. /\ c.Y \in Nat /\ c.Y <= Rows - 1 /\ c.y \in 0..(FineRows - 1) /\ c.NY \in {0, 1}
      /\ Rows \in Nat /\ Rows >= 1 /\ Rows <= RowValues /\ RowValues \in Nat
      /\ FineRows \in Nat /\ FineRows >= 1
  BY Constants DEF VRAM
<1>2. LowerLine(c) \in VRAM /\ Line(c) \in 0..(PictureLines - 1) /\ PictureLines \in Nat
  <2>1. LowerLine(c) \in VRAM
    BY Moves
  <2> QED
    BY <2>1, LineTyped
<1> DEFINE row == c.NY * Rows + c.Y
           base == row * FineRows
<1>3. Line(c) = base + c.y /\ row \in Nat /\ base \in Nat
  BY <1>1 DEF Line
<1>4. CASE c.y < FineRows - 1
  <2>1. LowerLine(c) = [c EXCEPT !.y = @ + 1]
    BY <1>4 DEF LowerLine
  <2>2. LowerLine(c).y = c.y + 1 /\ LowerLine(c).Y = c.Y /\ LowerLine(c).NY = c.NY
    BY <2>1 DEF VRAM
  <2>3. Line(LowerLine(c)) = base + (c.y + 1)
    BY <2>2 DEF Line
  <2>4. Line(LowerLine(c)) \in 0..(PictureLines - 1)
    BY <1>1, <1>2, <2>2, LineTyped
  <2> HIDE DEF row, base
  <2> QED
    BY <1>1, <1>2, <1>3, <2>2, <2>3, <2>4
<1>5. CASE ~(c.y < FineRows - 1)
  <2>1. c.y = FineRows - 1
    BY <1>1, <1>5
  <2>2. CASE c.Y = Rows - 1
    <3>1. LowerLine(c) = [c EXCEPT !.y = 0, !.Y = 0, !.NY = 1 - @]
      BY <1>5, <2>2 DEF LowerLine
    <3>2. LowerLine(c).y = 0 /\ LowerLine(c).Y = 0 /\ LowerLine(c).NY = 1 - c.NY
      BY <3>1 DEF VRAM
    <3>3. CASE c.NY = 0
      <4>1. Line(LowerLine(c)) = Rows * FineRows
        BY <1>1, <3>2, <3>3 DEF Line
      <4>2. Line(c) = (Rows - 1) * FineRows + (FineRows - 1)
        BY <1>1, <2>1, <2>2, <3>3 DEF Line
      <4>3. (Rows - 1) * FineRows = Rows * FineRows - FineRows
        BY <1>1
      <4>4. PictureLines = Rows * FineRows + Rows * FineRows /\ Rows * FineRows \in Nat
        BY <1>1 DEF PictureLines
      <4>5. 1 * FineRows <= Rows * FineRows
        BY <1>1
      <4> QED
        BY <1>1, <3>2, <4>1, <4>2, <4>3, <4>4, <4>5
    <3>4. CASE c.NY = 1
      <4>1. Line(LowerLine(c)) = 0
        BY <1>1, <3>2, <3>4 DEF Line
      <4>2. Line(c) = (Rows + (Rows - 1)) * FineRows + (FineRows - 1)
        BY <1>1, <2>1, <2>2, <3>4 DEF Line
      <4>3. (Rows + (Rows - 1)) * FineRows = 2 * Rows * FineRows - FineRows
        BY <1>1
      <4> QED
        BY <1>1, <3>2, <4>1, <4>2, <4>3 DEF PictureLines
    <3> QED
      BY <1>1, <3>3, <3>4
  <2>3. CASE c.Y # Rows - 1
    <3>1. LowerLine(c) = [c EXCEPT !.y = 0, !.Y = @ + 1]
      BY <1>1, <1>5, <2>3 DEF LowerLine
    <3>2. LowerLine(c).y = 0 /\ LowerLine(c).Y = c.Y + 1 /\ LowerLine(c).NY = c.NY
      BY <3>1 DEF VRAM
    <3>3. Line(LowerLine(c)) = (row + 1) * FineRows
      BY <1>1, <3>2 DEF Line
    <3>4. (row + 1) * FineRows = base + FineRows
      <4> HIDE DEF row
      <4> QED
        BY <1>1, <1>3
    <3>5. c.Y + 1 < Rows
      BY <1>1, <2>3
    <3>6. Line(LowerLine(c)) \in 0..(PictureLines - 1)
      BY <1>2, <3>2, <3>5, LineTyped
    <3> HIDE DEF row, base
    <3> QED
      BY <1>1, <1>2, <1>3, <2>1, <3>2, <3>3, <3>4, <3>5, <3>6
  <2> QED
    BY <2>2, <2>3
<1> QED
  BY <1>4, <1>5

-----------------------------------------------------------------------------
(* What a dot does to the column and the line of the cursor.               *)

(* A line ends after its last dot or the one before.                       *)
LEMMA Advances ==
  ASSUME TypeOK, Advance
  PROVE  /\ \/ dot' = dot + 1 /\ scanline' = scanline /\ dot # LastDot
            \/ /\ dot' = 0 /\ dot \in {LastDot - 1, LastDot}
               /\ scanline' = IF scanline = LastLine THEN -1 ELSE scanline + 1
               /\ dot = LastDot \/ (rendering /\ scanline = -1)
         /\ dot' # dot
BY Geometry DEF TypeOK, Advance

LEMMA BackgroundMoves ==
  ASSUME TypeOK
  PROVE  /\ bg_eval_ \in VRAM
         /\ Column(bg_eval_) =
              IF Draws /\ dot = VisibleDots + 1 THEN Column(t)
              ELSE IF Draws /\ FetchesTile THEN IF Column(v) = 2 * Columns - 1 THEN 0 ELSE Column(v) + 1
              ELSE Column(v)
         /\ bg_eval_.Y = IF Draws /\ dot = VisibleDots THEN LowerLine(v).Y ELSE v.Y
         /\ Line(bg_eval_) = IF Draws /\ dot = VisibleDots THEN Line(LowerLine(v)) ELSE Line(v)
<1>1. v \in VRAM /\ t \in VRAM
  BY DEF TypeOK
<1>2. \A c \in VRAM : NextTile(c) \in VRAM /\ LowerLine(c) \in VRAM /\ CopyHorizontal(c) \in VRAM
  BY <1>1, Moves
<1>3. \A c \in VRAM : NextTile(c).Y = c.Y /\ Line(NextTile(c)) = Line(c)
  BY DEF NextTile, VRAM, Line
<1>4. Column(LowerLine(v)) = Column(v)
  BY <1>1 DEF LowerLine, VRAM, Column
<1>5. /\ Column(CopyHorizontal(v)) = Column(t) /\ CopyHorizontal(v).Y = v.Y
      /\ Line(CopyHorizontal(v)) = Line(v)
  BY <1>1 DEF CopyHorizontal, VRAM, Column, Line
<1>6. /\ VisibleDots # VisibleDots + 1
      /\ dot = VisibleDots => FetchesTile
      /\ dot = VisibleDots + 1 => ~FetchesTile
  BY Geometry DEF FetchesTile
<1>7. CASE Draws /\ dot = VisibleDots
  <2>1. bg_eval_ = NextTile(LowerLine(v))
    BY <1>6, <1>7 DEF bg_eval_
  <2> QED
    BY <1>1, <1>2, <1>3, <1>4, <1>6, <1>7, <2>1, NextColumn
<1>8. CASE Draws /\ dot = VisibleDots + 1
  <2>1. bg_eval_ = CopyHorizontal(v)
    BY <1>6, <1>8 DEF bg_eval_
  <2> QED
    BY <1>1, <1>2, <1>5, <1>6, <1>8, <2>1
<1>9. CASE Draws /\ FetchesTile /\ dot # VisibleDots
  <2>1. bg_eval_ = NextTile(v)
    BY <1>6, <1>9 DEF bg_eval_
  <2> QED
    BY <1>1, <1>2, <1>3, <1>6, <1>9, <2>1, NextColumn
<1>10. CASE ~Draws \/ (~FetchesTile /\ dot # VisibleDots /\ dot # VisibleDots + 1)
  <2>1. bg_eval_ = v
    BY <1>10 DEF bg_eval_
  <2> QED
    BY <1>1, <1>6, <1>10, <2>1
<1> QED
  BY <1>7, <1>8, <1>9, <1>10

LEMMA DotMoves ==
  ASSUME TypeOK, step
  PROVE  /\ Column(v') = Column(bg_eval_)
         /\ CopiesVertical' => v'.Y = t.Y /\ Line(v') = Line(t)
         /\ ~CopiesVertical' => v'.Y = bg_eval_.Y /\ Line(v') = Line(bg_eval_)
<1>1. bg_eval_ \in VRAM /\ t \in VRAM
  BY BackgroundMoves DEF TypeOK
<1>2. v' = IF CopiesVertical' THEN CopyVertical(bg_eval_) ELSE bg_eval_
  BY DEF step
<1> HIDE DEF bg_eval_
<1>3. /\ Column(CopyVertical(bg_eval_)) = Column(bg_eval_)
      /\ CopyVertical(bg_eval_).Y = t.Y /\ Line(CopyVertical(bg_eval_)) = Line(t)
  BY <1>1 DEF CopyVertical, VRAM, Column, Line
<1> QED
  BY <1>2, <1>3

(* What disturbs a line or a picture, and what leaves both alone.          *)
LEMMA Kinds ==
  ASSUME TypeOK, [MCNext]_mc_vars
  PROVE  \/ line_from' = None /\ picture_from' = None
         \/ UNCHANGED <<v, rendering, scanline, dot, line_from, picture_from>>
         \/ /\ step
            /\ line_from' = IF Draws /\ dot = VisibleDots + 1 THEN Column(t) ELSE line_from
            /\ picture_from' = IF CopiesVertical' THEN IF t.Y < Rows THEN Line(t) ELSE None
                               ELSE picture_from
<1>1. step => dot' # dot
  BY Advances DEF step
<1>2. Ports => UNCHANGED <<scanline, dot>>
  BY DEF Ports, write_ppuctrl, write_ppumask, read_ppustatus, write_ppuscroll, write_ppuaddr,
         access_ppudata, clock
<1>3. CASE MCNext
  <2>1. CASE Disturbs
    BY <1>3, <2>1 DEF MCNext, Watch
  <2>2. CASE ~Disturbs
    <3>1. /\ line_from' = IF step /\ Draws /\ dot = VisibleDots + 1 THEN Column(t) ELSE line_from
          /\ picture_from' = IF step /\ CopiesVertical' THEN IF t.Y < Rows THEN Line(t) ELSE None
                             ELSE picture_from
          /\ step \/ (Ports /\ v' = v /\ rendering' = rendering)
      BY <1>3, <2>2 DEF MCNext, Watch, Disturbs, Next
    <3>2. CASE step
      BY <3>1, <3>2
    <3>3. CASE ~step
      BY <1>2, <3>1, <3>3
    <3> QED
      BY <3>2, <3>3
  <2> QED
    BY <2>1, <2>2
<1>4. CASE UNCHANGED mc_vars
  BY <1>4 DEF mc_vars, vars, ports, clock
<1> QED
  BY <1>3, <1>4

-----------------------------------------------------------------------------
(* A line being drawn, and the two tiles of the next picture's first line  *)
(* kept while nothing is drawn.                                            *)
LineInv ==
  line_from # None =>
    /\ rendering /\ line_from \in Nat
    /\ Column(v) = (line_from + (IF scanline < VisibleLines THEN TilesFetched ELSE 2))
                     % (2 * Columns)

LEMMA LineStep == TypeOK /\ LineInv /\ [MCNext]_mc_vars => LineInv'
<1> SUFFICES ASSUME TypeOK, LineInv, [MCNext]_mc_vars PROVE LineInv'
  OBVIOUS
<1>1. CASE line_from' = None /\ picture_from' = None
  BY <1>1 DEF LineInv
<1>2. CASE UNCHANGED <<v, rendering, scanline, dot, line_from, picture_from>>
  BY <1>2 DEF LineInv, TilesFetched, Column
<1>3. CASE /\ step
           /\ line_from' = IF Draws /\ dot = VisibleDots + 1 THEN Column(t) ELSE line_from
  <2> SUFFICES ASSUME line_from' # None PROVE LineInv'
    BY DEF LineInv
  <2>1. /\ rendering' = rendering /\ Advance /\ dot \in 0..LastDot
        /\ scanline \in -1..LastLine /\ v \in VRAM /\ t \in VRAM
    BY <1>3 DEF step, ports, TypeOK
  <2>2. dot' \in 0..LastDot
    BY <2>1, Geometry DEF Advance
  <2>3. TilesFetched' = Fetched(dot')
    BY DEF TilesFetched, Fetched
  <2>4. Column(v') = Column(bg_eval_)
    BY <1>3, DotMoves
  <2>5. CASE Draws /\ dot = VisibleDots + 1
    <3>1. /\ line_from' = Column(t) /\ Column(v') = Column(t) /\ rendering'
          /\ scanline < VisibleLines
      BY <1>3, <2>1, <2>4, <2>5, BackgroundMoves DEF Draws
    <3>2. dot' = VisibleDots + 2 /\ scanline' = scanline
      BY <2>1, <2>5, Advances, Geometry
    <3>3. Column(t) \in 0..(2 * Columns - 1)
      BY <2>1, ColumnTyped
    <3>4. TilesFetched' = 0
      BY <2>1, <2>3, <3>2, FetchedNext
    <3>5. (Column(t) + 0) % (2 * Columns) = Column(t)
      BY <3>3, Geometry
    <3>6. Column(v)' = Column(v')
      BY DEF Column
    <3> QED
      BY <3>1, <3>2, <3>3, <3>4, <3>5, <3>6 DEF LineInv
  <2>6. CASE ~(Draws /\ dot = VisibleDots + 1)
    <3> DEFINE M == 2 * Columns
               old == IF scanline < VisibleLines THEN Fetched(dot) ELSE 2
               new == IF scanline' < VisibleLines THEN Fetched(dot') ELSE 2
    <3>1. /\ line_from' = line_from /\ rendering /\ line_from \in Nat
          /\ Draws <=> scanline < VisibleLines
          /\ Column(v) = (line_from + old) % M
      BY <1>3, <2>1, <2>6, FetchedNext DEF LineInv, Draws
    <3>2. new = IF Draws /\ FetchesTile THEN old + 1 ELSE old
      <4>1. CASE dot' = dot + 1 /\ scanline' = scanline /\ dot # LastDot
        BY <2>1, <2>6, <3>1, <4>1, FetchedNext
      <4>2. CASE /\ dot' = 0 /\ dot \in {LastDot - 1, LastDot}
                 /\ scanline' = IF scanline = LastLine THEN -1 ELSE scanline + 1
        <5>1. Fetched(0) = IF FetchesTile THEN Fetched(dot) + 1 ELSE Fetched(dot)
          BY <2>1, <4>2, FetchedNext
        <5>2. Fetched(0) = 2
          BY <2>1, FetchedNext
        <5>3. scanline < VisibleLines \/ scanline' < VisibleLines \/ old = new
          OBVIOUS
        <5> QED
          BY <2>1, <3>1, <4>2, <5>1, <5>2
      <4> QED
        BY <2>1, <4>1, <4>2, Advances
    <3>3. Column(v') = IF Draws /\ FetchesTile
                       THEN IF Column(v) = M - 1 THEN 0 ELSE Column(v) + 1 ELSE Column(v)
      BY <2>4, <2>6, BackgroundMoves
    <3>4. old \in Nat /\ M \in Nat \ {0}
      BY <2>1, FetchedNext, Geometry
    <3>5. (line_from + old + 1) % M =
             IF (line_from + old) % M = M - 1 THEN 0 ELSE ((line_from + old) % M) + 1
      <4> HIDE DEF old, M
      <4>1. line_from + old \in Nat
        BY <3>1, <3>4
      <4> QED
        BY <3>4, <4>1, OneMore
    <3>6. TilesFetched' = Fetched(dot') /\ Column(v)' = Column(v')
      BY <2>3 DEF Column
    <3>7. Column(v') = (line_from + new) % M
      <4> HIDE DEF old, new, M
      <4>1. line_from + (old + 1) = line_from + old + 1
        BY <3>1, <3>4
      <4> QED
        BY <3>1, <3>2, <3>3, <3>5, <4>1
    <3> QED
      BY <2>1, <3>1, <3>6, <3>7 DEF LineInv
  <2> QED
    BY <2>5, <2>6
<1> QED
  BY <1>1, <1>2, <1>3, Kinds

(* A picture being drawn, and from the first copy of the vertical scroll   *)
(* to the first line.                                                      *)
LinesDrawn == scanline + (IF dot > VisibleDots THEN 1 ELSE 0)

PictureInv ==
  picture_from # None =>
    /\ rendering /\ picture_from \in 0..(PictureLines - 1)
    /\ scanline \in 0..(VisibleLines - 1) =>
         v.Y < Rows /\ Line(v) = (picture_from + LinesDrawn) % PictureLines
    /\ scanline = -1 /\ dot >= FirstCopyDot =>
         v.Y < Rows /\ Line(v) = picture_from

LEMMA PictureStep == TypeOK /\ PictureInv /\ [MCNext]_mc_vars => PictureInv'
<1> SUFFICES ASSUME TypeOK, PictureInv, [MCNext]_mc_vars PROVE PictureInv'
  OBVIOUS
<1>1. CASE line_from' = None /\ picture_from' = None
  BY <1>1 DEF PictureInv
<1>2. CASE UNCHANGED <<v, rendering, scanline, dot, line_from, picture_from>>
  BY <1>2 DEF PictureInv, LinesDrawn, Line, PictureLines
<1>3. CASE /\ step
           /\ picture_from' = IF CopiesVertical' THEN IF t.Y < Rows THEN Line(t) ELSE None
                              ELSE picture_from
  <2> SUFFICES ASSUME picture_from' # None PROVE PictureInv'
    BY DEF PictureInv
  <2>1. /\ rendering' = rendering /\ Advance /\ dot \in 0..LastDot
        /\ scanline \in -1..LastLine /\ v \in VRAM /\ t \in VRAM
    BY <1>3 DEF step, ports, TypeOK
  <2>2. Line(v)' = Line(v') /\ PictureLines' = PictureLines
    BY DEF Line, PictureLines
  <2>3. /\ CopiesVertical' => v'.Y = t.Y /\ Line(v') = Line(t)
        /\ ~CopiesVertical' => v'.Y = bg_eval_.Y /\ Line(v') = Line(bg_eval_)
    BY <1>3, DotMoves
  <2>4. CASE CopiesVertical'
    <3>1. /\ t.Y < Rows /\ picture_from' = Line(t) /\ rendering' /\ scanline' = -1
      BY <1>3, <2>4 DEF CopiesVertical
    <3>2. Line(t) \in 0..(PictureLines - 1)
      BY <2>1, <3>1, LineTyped
    <3> QED
      BY <2>2, <2>3, <2>4, <3>1, <3>2 DEF PictureInv
  <2>5. CASE ~CopiesVertical'
    <3>1. /\ picture_from' = picture_from /\ rendering
          /\ picture_from \in 0..(PictureLines - 1)
          /\ Draws <=> scanline < VisibleLines
      BY <1>3, <2>5 DEF PictureInv, Draws
    <3>2. /\ v'.Y = IF Draws /\ dot = VisibleDots THEN LowerLine(v).Y ELSE v.Y
          /\ Line(v') = IF Draws /\ dot = VisibleDots THEN Line(LowerLine(v)) ELSE Line(v)
      BY <2>3, <2>5, BackgroundMoves
    <3>3. ASSUME scanline' = -1, dot' >= FirstCopyDot
          PROVE  v'.Y < Rows /\ Line(v') = picture_from
      <4>1. dot' \notin FirstCopyDot..LastCopyDot /\ dot' \in Nat
        <5>1. dot' \in 0..LastDot
          BY <2>1, Geometry DEF Advance
        <5> QED
          BY <2>1, <2>5, <3>1, <3>3, <5>1 DEF CopiesVertical
      <4>2. dot' = dot + 1 /\ scanline = -1
        BY <2>1, <3>3, Advances, Geometry
      <4>3. dot >= FirstCopyDot /\ dot # VisibleDots
        BY <2>1, <3>3, <4>1, <4>2, Geometry
      <4> QED
        BY <3>1, <3>2, <4>2, <4>3 DEF PictureInv
    <3>4. ASSUME scanline' \in 0..(VisibleLines - 1)
          PROVE  v'.Y < Rows /\ Line(v') = (picture_from + LinesDrawn') % PictureLines
      <4>1. CASE scanline = -1
        <5>1. dot' = 0 /\ dot \in {LastDot - 1, LastDot} /\ scanline' = 0
          BY <2>1, <3>4, <4>1, Advances, Geometry
        <5>2. dot >= FirstCopyDot /\ dot # VisibleDots
          BY <5>1, Geometry
        <5>3. v.Y < Rows /\ Line(v) = picture_from
          BY <1>3, <2>5, <4>1, <5>2 DEF PictureInv
        <5>4. LinesDrawn' = 0
          BY <5>1, Geometry DEF LinesDrawn
        <5>5. (picture_from + 0) % PictureLines = picture_from
          BY <3>1, <5>3, <2>1, LineTyped
        <5> QED
          BY <3>2, <5>2, <5>3, <5>4, <5>5
      <4>2. CASE scanline # -1
        <5>1. /\ scanline \in 0..(VisibleLines - 1)
              /\ \/ dot' = dot + 1 /\ scanline' = scanline
                 \/ dot' = 0 /\ dot = LastDot /\ scanline' = scanline + 1
          BY <2>1, <3>4, <4>2, Advances, Geometry
        <5>2. v.Y < Rows /\ Line(v) = (picture_from + LinesDrawn) % PictureLines
          BY <1>3, <2>5, <5>1 DEF PictureInv
        <5>3. LinesDrawn' = IF dot = VisibleDots THEN LinesDrawn + 1 ELSE LinesDrawn
          BY <2>1, <5>1, Geometry DEF LinesDrawn
        <5>4. CASE dot = VisibleDots
          <6>1. /\ v'.Y < Rows
                /\ Line(v') = IF Line(v) = PictureLines - 1 THEN 0 ELSE Line(v) + 1
            <7>1. Draws
              BY <3>1, <5>1, Geometry
            <7>2. v'.Y = LowerLine(v).Y /\ Line(v') = Line(LowerLine(v))
              BY <3>2, <5>4, <7>1
            <7>3. LowerLine(v).Y < Rows
              BY <2>1, <5>2, NextLine
            <7>4. Line(LowerLine(v)) = IF Line(v) = PictureLines - 1 THEN 0 ELSE Line(v) + 1
              BY <2>1, <5>2, NextLine
            <7> QED
              BY <7>2, <7>3, <7>4
          <6>2. PictureLines \in Nat \ {0} /\ picture_from \in Nat
            BY <2>1, <3>1, <5>2, LineTyped
          <6>3. LinesDrawn \in Nat
            BY <5>1, Geometry DEF LinesDrawn
          <6> DEFINE x == picture_from + LinesDrawn
          <6>4. x \in Nat /\ picture_from + (LinesDrawn + 1) = x + 1
            BY <6>2, <6>3
          <6> HIDE DEF x
          <6>5. (x + 1) % PictureLines =
                  IF x % PictureLines = PictureLines - 1 THEN 0 ELSE (x % PictureLines) + 1
            BY <6>2, <6>4, OneMore
          <6>6. Line(v) = x % PictureLines
            BY <5>2 DEF x
          <6> QED
            BY <5>3, <5>4, <6>1, <6>4, <6>5, <6>6
        <5>5. CASE dot # VisibleDots
          BY <3>2, <5>2, <5>3, <5>5
        <5> QED
          BY <5>4, <5>5
      <4> QED
        BY <4>1, <4>2
    <3> QED
      BY <2>1, <2>2, <3>1, <3>3, <3>4 DEF PictureInv
  <2> QED
    BY <2>4, <2>5
<1> QED
  BY <1>1, <1>2, <1>3, Kinds

-----------------------------------------------------------------------------
LEMMA MCTyped == MCSpec => []TypeOK
<1>1. MCInit => Init
  BY DEF MCInit
<1>2. [MCNext]_mc_vars => [Next]_vars
  BY DEF MCNext, mc_vars
<1> QED
  BY <1>1, <1>2, TypeCorrect, PTL DEF MCSpec, Spec

(* Scroll writes wait for the next line (ppu.cpp 264-336), for tiles and   *)
(* tables of any size.                                                     *)
THEOREM LinesKeepScroll == MCSpec => []LineScroll
<1>1. MCInit => LineInv
  BY DEF MCInit, LineInv
<1>2. TypeOK /\ LineInv /\ [MCNext]_mc_vars => LineInv'
  BY LineStep
<1>3. LineInv => LineScroll
  BY DEF LineInv, LineScroll
<1> QED
  BY <1>1, <1>2, <1>3, MCTyped, PTL DEF MCSpec

(* Scroll writes wait for the next picture (ppu.cpp 235-262 and 521-527),  *)
(* for tables of any height and tiles of any number of lines.              *)
THEOREM PicturesKeepScroll == MCSpec => []PictureScroll
<1>1. MCInit => PictureInv
  BY DEF MCInit, PictureInv
<1>2. TypeOK /\ PictureInv /\ [MCNext]_mc_vars => PictureInv'
  BY PictureStep
<1>3. TypeOK /\ PictureInv => PictureScroll
  <2> SUFFICES ASSUME PictureInv, picture_from # None, scanline \in 0..(VisibleLines - 1)
               PROVE  PictureScroll
    BY DEF PictureScroll
  <2> QED
    BY DEF PictureInv, PictureScroll, LinesDrawn, PictureLines
<1> QED
  BY <1>1, <1>2, <1>3, MCTyped, PTL DEF MCSpec
=============================================================================
