---------------------------- MODULE DisplayProofs ----------------------------
(***************************************************************************)
(* Theorems about Display, for every number of terminals, every size of    *)
(* the screen and every text of the first lines of a shell.                *)
(*                                                                         *)
(* A cell of a frame is a row and a column of a screen (Geometry); what    *)
(* putc_term does to a frame is what Screens does to rows (Printing), and  *)
(* so is what swap_vid_mem makes of the first lines (The banner).  The     *)
(* frames of different terminals are different, and the page at 200 MB     *)
(* leads to the frame of the terminal that runs once a tick has set it.    *)
(***************************************************************************)
EXTENDS Display, SequenceTheorems, NaturalsInduction, WellFoundedInduction, TLAPS

Positive == NUM_ROWS \in Nat \ {0} /\ NUM_COLS \in Nat \ {0}

LEMMA Sizes == Positive
BY DisplayAssumption DEF Positive

-----------------------------------------------------------------------------
(* Geometry.                                                               *)

\* The cell of a row and a column.
Place(r, k) == NUM_COLS * (r - 1) + (k - 1)

LEMMA Multiples ==
  ASSUME NEW c \in Nat \ {0}, NEW a \in Nat, NEW b \in Nat, a < b
  PROVE  /\ c * a \in Nat /\ c * b \in Nat
         /\ c * (a + 1) = c * a + c
         /\ c * a + c <= c * b
<1>1. c * a \in Nat /\ c * b \in Nat /\ c * (a + 1) = c * a + c
  OBVIOUS
<1>2. PICK d \in Nat : b = (a + 1) + d
  <2>1. b - (a + 1) \in Nat /\ b = (a + 1) + (b - (a + 1))
    OBVIOUS
  <2> QED
    BY <2>1
<1>3. c * b = c * (a + 1) + c * d
  BY <1>2
<1>4. c * d \in Nat
  OBVIOUS
<1> QED
  BY <1>1, <1>3, <1>4

LEMMA PlaceInCells ==
  ASSUME NEW r \in 1..NUM_ROWS, NEW k \in 1..NUM_COLS
  PROVE  Place(r, k) \in Cells
<1>1. PICK c \in Nat \ {0}, n \in Nat \ {0} : c = NUM_COLS /\ n = NUM_ROWS
  BY Sizes DEF Positive
<1>2. r - 1 \in Nat /\ r - 1 < n
  BY <1>1
<1>3. c * (r - 1) \in Nat /\ c * n \in Nat /\ c * (r - 1) + c <= c * n
  BY <1>1, <1>2, Multiples
<1>4. NCells = c * n
  BY <1>1 DEF NCells
<1>5. k - 1 \in Nat /\ k - 1 < c
  BY <1>1
<1>6. PICK m \in Nat : m = c * (r - 1)
  BY <1>3
<1>7. m + (k - 1) \in 0..(c * n - 1)
  BY <1>3, <1>5, <1>6
<1>8. Place(r, k) = m + (k - 1)
  BY <1>1, <1>6 DEF Place
<1> QED
  BY <1>4, <1>7, <1>8 DEF Cells

LEMMA RowsApart ==
  ASSUME NEW r \in 1..NUM_ROWS, NEW k \in 1..NUM_COLS,
         NEW q \in 1..NUM_ROWS, NEW l \in 1..NUM_COLS, r < q
  PROVE  Place(r, k) < Place(q, l)
<1>1. PICK c \in Nat \ {0} : c = NUM_COLS
  BY Sizes DEF Positive
<1>2. r \in Nat /\ q \in Nat /\ r - 1 \in Nat /\ q - 1 \in Nat /\ r - 1 < q - 1
  BY Sizes DEF Positive
<1>3. c * (r - 1) \in Nat /\ c * (q - 1) \in Nat /\ c * (r - 1) + c <= c * (q - 1)
  BY <1>2, Multiples
<1>4. PICK m \in Nat, n \in Nat : m = c * (r - 1) /\ n = c * (q - 1)
  BY <1>3
<1>5. k \in 1..c /\ l \in 1..c
  BY <1>1
<1>6. m + (k - 1) < n + (l - 1)
  BY <1>3, <1>4, <1>5
<1> QED
  BY <1>1, <1>4, <1>6 DEF Place

LEMMA PlacesApart ==
  ASSUME NEW r \in 1..NUM_ROWS, NEW k \in 1..NUM_COLS,
         NEW q \in 1..NUM_ROWS, NEW l \in 1..NUM_COLS, Place(r, k) = Place(q, l)
  PROVE  r = q /\ k = l
<1>1. Place(r, k) \in Int /\ Place(q, l) \in Int
  BY PlaceInCells DEF Cells
<1>2. ~(r < q)
  BY <1>1, RowsApart
<1>3. ~(q < r)
  BY <1>1, RowsApart
<1>4. r = q
  BY <1>2, <1>3, Sizes DEF Positive
<1>5. k = l
  <2>1. PICK m : m = NUM_COLS * (r - 1)
    OBVIOUS
  <2>2. m \in Int
    BY <2>1, Sizes DEF Positive
  <2>3. m + (k - 1) = m + (l - 1)
    BY <1>4, <2>1 DEF Place
  <2> QED
    BY <2>2, <2>3, Sizes DEF Positive
<1> QED
  BY <1>4, <1>5

\* One row further down.
LEMMA RowBelow ==
  ASSUME NEW r \in 1..NUM_ROWS, NEW k \in 1..NUM_COLS
  PROVE  /\ r < NUM_ROWS => Place(r, k) + NUM_COLS = Place(r + 1, k)
         /\ Place(r, k) + NUM_COLS < NCells <=> r < NUM_ROWS
<1>1. PICK c \in Nat \ {0}, n \in Nat \ {0} : c = NUM_COLS /\ n = NUM_ROWS
  BY Sizes DEF Positive
<1>2. r - 1 \in Nat /\ r \in Nat /\ (r + 1) - 1 = (r - 1) + 1 /\ r - 1 < r /\ (r - 1) + 1 = r
  BY <1>1
<1>3. c * (r - 1) \in Nat /\ c * r \in Nat /\ c * ((r - 1) + 1) = c * (r - 1) + c
  BY <1>2, Multiples
<1>4. PICK m \in Nat : m = c * (r - 1)
  BY <1>3
<1>5. c * r = m + c
  BY <1>2, <1>3, <1>4
<1>6. Place(r, k) = m + (k - 1) /\ Place(r + 1, k) = (m + c) + (k - 1)
  <2>1. (r + 1) - 1 = r
    BY <1>2
  <2> QED
    BY <1>1, <1>4, <1>5, <2>1 DEF Place
<1>7. k \in 1..c
  BY <1>1
<1>8. Place(r, k) + NUM_COLS = Place(r + 1, k)
  BY <1>1, <1>6, <1>7
<1>9. r < n => Place(r, k) + NUM_COLS < NCells
  <2>1. SUFFICES ASSUME r < n PROVE Place(r, k) + NUM_COLS < NCells
    OBVIOUS
  <2>2. r + 1 \in 1..NUM_ROWS
    BY <1>1, <2>1
  <2>3. Place(r + 1, k) \in Cells
    BY <2>2, PlaceInCells
  <2>4. NCells \in Nat
    BY <1>1 DEF NCells
  <2> QED
    BY <1>8, <2>3, <2>4 DEF Cells
<1>10. r = n => ~(Place(r, k) + NUM_COLS < NCells)
  <2>1. SUFFICES ASSUME r = n PROVE ~(Place(r, k) + NUM_COLS < NCells)
    OBVIOUS
  <2>2. NCells = m + c
    BY <1>1, <1>5, <2>1 DEF NCells
  <2>3. Place(r, k) + NUM_COLS = (m + (k - 1)) + c
    BY <1>1, <1>6
  <2>4. m + c <= (m + (k - 1)) + c
    BY <1>7
  <2> QED
    BY <1>7, <2>2, <2>3, <2>4
<1> QED
  BY <1>1, <1>8, <1>9, <1>10

-----------------------------------------------------------------------------
(* Printing.                                                               *)

\* What putc_term works on, and what Screens sees of it.
States == [frame : [Cells -> Glyphs], x : 0..(NUM_COLS - 1), y : 0..(NUM_ROWS - 1)]

RowsOf(frame) ==
  [r \in 1..NUM_ROWS |-> [k \in 1..NUM_COLS |-> frame[Place(r, k)]]]

Screen(rows, row, col) == [rows |-> rows, row |-> row, col |-> col]

Look(s) == Screen(RowsOf(s.frame), s.y + 1, s.x + 1)

\* A character put in a cell, and in a row and a column.
Stored(frame, r, k, c) == [frame EXCEPT ![Place(r, k)] = c]
PutAt(rows, r, k, c) == [rows EXCEPT ![r][k] = c]

LEMMA RowsAreASeq ==
  ASSUME NEW frame
  PROVE  RowsOf(frame) \in Seq({RowsOf(frame)[r] : r \in 1..NUM_ROWS}) /\ Len(RowsOf(frame)) = NUM_ROWS
<1>1. NUM_ROWS \in Nat
  BY Sizes DEF Positive
<1>2. PICK rows : rows = RowsOf(frame)
  OBVIOUS
<1>3. rows = [r \in 1..NUM_ROWS |-> rows[r]]
  BY <1>2 DEF RowsOf
<1>4. PICK S : S = {rows[r] : r \in 1..NUM_ROWS}
  OBVIOUS
<1>5. rows \in [1..NUM_ROWS -> S]
  BY <1>3, <1>4
<1>6. rows \in Seq(S) /\ Len(rows) = NUM_ROWS
  BY <1>1, <1>5, IsASeq, LenProperties
<1> QED
  BY <1>2, <1>4, <1>6

LEMMA ScrolledFrame ==
  ASSUME NEW frame \in [Cells -> Glyphs]
  PROVE  Scrolled(frame) \in [Cells -> Glyphs]
<1>1. Blank \in Glyphs
  BY DisplayAssumption
<1>2. NCells \in Nat /\ NUM_COLS \in Nat
  BY Sizes DEF Positive, NCells
<1>3. \A i \in Cells : i + NUM_COLS < NCells => i + NUM_COLS \in Cells
  BY <1>2 DEF Cells
<1> QED
  BY <1>1, <1>3 DEF Scrolled

LEMMA ScrolledRows ==
  ASSUME NEW frame \in [Cells -> Glyphs]
  PROVE  RowsOf(Scrolled(frame)) = Append(Tail(RowsOf(frame)), Private!BlankRow)
<1>1. PICK rows : rows = RowsOf(frame)
  OBVIOUS
<1>2. PICK moved : moved = RowsOf(Scrolled(frame))
  OBVIOUS
<1>3. PICK n \in Nat \ {0} : n = NUM_ROWS
  BY Sizes DEF Positive
<1>4. PICK blank : blank = Private!BlankRow
  OBVIOUS
<1>5. \A r \in 1..n : r < n => moved[r] = rows[r + 1]
  <2>1. SUFFICES ASSUME NEW r \in 1..n, r < n PROVE moved[r] = rows[r + 1]
    OBVIOUS
  <2>2. r \in 1..NUM_ROWS /\ r + 1 \in 1..NUM_ROWS /\ r < NUM_ROWS
    BY <1>3, <2>1
  <2>3. ASSUME NEW k \in 1..NUM_COLS PROVE Scrolled(frame)[Place(r, k)] = frame[Place(r + 1, k)]
    <3>1. Place(r, k) \in Cells
      BY <2>2, PlaceInCells
    <3>2. Place(r, k) + NUM_COLS = Place(r + 1, k) /\ Place(r, k) + NUM_COLS < NCells
      BY <2>2, RowBelow
    <3>3. PICK i \in Cells : i = Place(r, k)
      BY <3>1
    <3>4. Scrolled(frame)[i] = frame[i + NUM_COLS]
      BY <3>2, <3>3 DEF Scrolled
    <3> QED
      BY <3>2, <3>3, <3>4
  <2>4. moved[r] = [k \in 1..NUM_COLS |-> Scrolled(frame)[Place(r, k)]]
    BY <1>2, <2>2 DEF RowsOf
  <2>5. rows[r + 1] = [k \in 1..NUM_COLS |-> frame[Place(r + 1, k)]]
    BY <1>1, <2>2 DEF RowsOf
  <2> QED
    BY <2>3, <2>4, <2>5
<1>6. moved[n] = blank
  <2>1. n \in 1..NUM_ROWS /\ ~(n < NUM_ROWS)
    BY <1>3
  <2>2. ASSUME NEW k \in 1..NUM_COLS PROVE Scrolled(frame)[Place(n, k)] = Blank
    <3>1. Place(n, k) \in Cells
      BY <2>1, PlaceInCells
    <3>2. ~(Place(n, k) + NUM_COLS < NCells)
      BY <2>1, RowBelow
    <3>3. PICK i \in Cells : i = Place(n, k)
      BY <3>1
    <3> QED
      BY <3>2, <3>3 DEF Scrolled
  <2>3. moved[n] = [k \in 1..NUM_COLS |-> Scrolled(frame)[Place(n, k)]]
    BY <1>2, <2>1 DEF RowsOf
  <2> QED
    BY <1>4, <2>2, <2>3 DEF Private!BlankRow
<1>7. PICK S : /\ blank \in S
               /\ rows \in Seq(S) /\ Len(rows) = n
               /\ moved \in Seq(S) /\ Len(moved) = n
  <2>1. PICK R, M : rows \in Seq(R) /\ moved \in Seq(M) /\ Len(rows) = n /\ Len(moved) = n
    BY <1>1, <1>2, <1>3, RowsAreASeq
  <2>2. PICK S : S = R \cup M \cup {blank}
    OBVIOUS
  <2>3. rows \in Seq(S) /\ moved \in Seq(S) /\ blank \in S
    BY <2>1, <2>2
  <2> QED
    BY <2>1, <2>3
<1>8. PICK tail : tail = Tail(rows)
  OBVIOUS
<1>9. /\ tail \in Seq(S) /\ Len(tail) = n - 1
      /\ \A i \in 1..(n - 1) : tail[i] = rows[i + 1]
  BY <1>3, <1>7, <1>8
<1>10. PICK longer : longer = Append(tail, blank)
  OBVIOUS
<1>11. /\ longer \in Seq(S) /\ Len(longer) = n
       /\ \A i \in 1..(n - 1) : longer[i] = tail[i]
       /\ longer[n] = blank
  BY <1>7, <1>9, <1>10, AppendProperties
<1>12. \A i \in 1..n : longer[i] = moved[i]
  <2>1. SUFFICES ASSUME NEW i \in 1..n PROVE longer[i] = moved[i]
    OBVIOUS
  <2>2. CASE i < n
    BY <1>5, <1>9, <1>11, <2>2
  <2>3. CASE i = n
    BY <1>6, <1>11, <2>3
  <2> QED
    BY <2>2, <2>3
<1>13. longer = moved
  BY <1>7, <1>11, <1>12, SeqEqual
<1> QED
  BY <1>1, <1>2, <1>4, <1>8, <1>10, <1>13

LEMMA StoredRows ==
  ASSUME NEW frame \in [Cells -> Glyphs], NEW r \in 1..NUM_ROWS, NEW k \in 1..NUM_COLS,
         NEW c \in Glyphs
  PROVE  /\ Stored(frame, r, k, c) \in [Cells -> Glyphs]
         /\ RowsOf(Stored(frame, r, k, c)) = PutAt(RowsOf(frame), r, k, c)
<1>1. PICK i \in Cells : i = Place(r, k)
  BY PlaceInCells
<1>2. PICK stored \in [Cells -> Glyphs] : stored = [frame EXCEPT ![i] = c]
  OBVIOUS
<1>3. ASSUME NEW q \in 1..NUM_ROWS, NEW l \in 1..NUM_COLS
      PROVE  stored[Place(q, l)] = IF q = r /\ l = k THEN c ELSE frame[Place(q, l)]
  <2>1. PICK j \in Cells : j = Place(q, l)
    BY PlaceInCells
  <2>2. q = r /\ l = k => j = i
    BY <1>1, <2>1
  <2>3. j = i => q = r /\ l = k
    BY <1>1, <2>1, PlacesApart
  <2> QED
    BY <1>2, <2>1, <2>2, <2>3
<1>4. PICK rows : rows = RowsOf(frame)
  OBVIOUS
<1>5. rows = [q \in 1..NUM_ROWS |-> [l \in 1..NUM_COLS |-> frame[Place(q, l)]]]
  BY <1>4 DEF RowsOf
<1>6. ASSUME NEW q \in 1..NUM_ROWS
      PROVE  [l \in 1..NUM_COLS |-> stored[Place(q, l)]] = [rows EXCEPT ![r][k] = c][q]
  <2>1. PICK row : row = [l \in 1..NUM_COLS |-> frame[Place(q, l)]]
    OBVIOUS
  <2>2. rows[q] = row
    BY <1>5, <2>1
  <2>3. CASE q # r
    <3>1. \A l \in 1..NUM_COLS : stored[Place(q, l)] = frame[Place(q, l)]
      BY <1>3, <2>3
    <3>2. [rows EXCEPT ![r][k] = c][q] = row
      BY <1>5, <2>2, <2>3
    <3> QED
      BY <2>1, <3>1, <3>2
  <2>4. CASE q = r
    <3>1. [rows EXCEPT ![r][k] = c][q] = [row EXCEPT ![k] = c]
      BY <1>5, <2>2, <2>4
    <3>2. \A l \in 1..NUM_COLS : stored[Place(q, l)] = IF l = k THEN c ELSE frame[Place(q, l)]
      BY <1>3, <2>4
    <3>3. [row EXCEPT ![k] = c] = [l \in 1..NUM_COLS |-> IF l = k THEN c ELSE frame[Place(q, l)]]
      BY <2>1
    <3> QED
      BY <3>1, <3>2, <3>3
  <2> QED
    BY <2>3, <2>4
<1>7. RowsOf(stored) = [q \in 1..NUM_ROWS |-> [l \in 1..NUM_COLS |-> stored[Place(q, l)]]]
  BY DEF RowsOf
<1>8. [rows EXCEPT ![r][k] = c] = [q \in 1..NUM_ROWS |-> [rows EXCEPT ![r][k] = c][q]]
  BY <1>5
<1>9. RowsOf(stored) = [rows EXCEPT ![r][k] = c]
  BY <1>6, <1>7, <1>8
<1>10. Stored(frame, r, k, c) = stored
  BY <1>1, <1>2 DEF Stored
<1>11. PutAt(rows, r, k, c) = [rows EXCEPT ![r][k] = c]
  BY DEF PutAt
<1> QED
  BY <1>4, <1>9, <1>10, <1>11
LEMMA FeedMovesOn ==
  ASSUME NEW rows, NEW row \in Nat, NEW col, row < NUM_ROWS
  PROVE  Private!Feed(Screen(rows, row, col)) = Screen(rows, row + 1, 1)
<1>1. PICK s : s = Screen(rows, row, col)
  OBVIOUS
<1>2. s = [rows |-> rows, row |-> row, col |-> col]
  BY <1>1 DEF Screen
<1>3. Private!Feed(s) = [s EXCEPT !.row = s.row + 1, !.col = 1]
  BY <1>2 DEF Private!Feed
<1>4. Private!Feed(s) = [rows |-> rows, row |-> row + 1, col |-> 1]
  BY <1>2, <1>3
<1> QED
  BY <1>1, <1>4 DEF Screen

LEMMA FeedScrolls ==
  ASSUME NEW rows, NEW row \in Nat, NEW col, ~(row < NUM_ROWS)
  PROVE  Private!Feed(Screen(rows, row, col)) =
           Screen(Append(Tail(rows), Private!BlankRow), row, 1)
<1>1. PICK s : s = [rows |-> rows, row |-> row, col |-> col]
  OBVIOUS
<1>2. PICK moved : moved = Append(Tail(rows), Private!BlankRow)
  OBVIOUS
<1>3. s.rows = rows /\ s.row = row
  BY <1>1
<1>4. Private!Feed(s) = [s EXCEPT !.rows = Append(Tail(s.rows), Private!BlankRow), !.col = 1]
  BY <1>3, Zenon DEF Private!Feed
<1>5. Private!Feed(s) = [s EXCEPT !.rows = moved, !.col = 1]
  BY <1>2, <1>3, <1>4, Zenon
<1>6. [s EXCEPT !.rows = moved, !.col = 1] = [rows |-> moved, row |-> row, col |-> 1]
  <2>1. PICK t : t = [s EXCEPT !.rows = moved]
    OBVIOUS
  <2>2. t = [rows |-> moved, row |-> row, col |-> col]
    BY <1>1, <2>1
  <2>3. [s EXCEPT !.rows = moved, !.col = 1] = [t EXCEPT !.col = 1]
    BY <1>1, <2>1
  <2>4. [t EXCEPT !.col = 1] = [rows |-> moved, row |-> row, col |-> 1]
    BY <2>2
  <2> QED
    BY <2>3, <2>4, Zenon
<1> QED
  BY <1>1, <1>2, <1>5, <1>6, Zenon DEF Screen

LEMMA DownIsFeed ==
  ASSUME NEW s \in States
  PROVE  Down(s) \in States /\ Look(Down(s)) = Private!Feed(Look(s))
<1>1. PICK frame \in [Cells -> Glyphs], x \in 0..(NUM_COLS - 1), y \in 0..(NUM_ROWS - 1) :
        s = [frame |-> frame, x |-> x, y |-> y]
  BY DEF States
<1>2. s.frame = frame /\ s.x = x /\ s.y = y
  BY <1>1
<1>3. Look(s) = Screen(RowsOf(frame), y + 1, x + 1)
  BY <1>2, Zenon DEF Look
<1>4. y + 1 \in Nat
  OBVIOUS
<1>5. CASE y + 1 < NUM_ROWS
  <2>1. Down(s) = [frame |-> frame, x |-> 0, y |-> y + 1]
    BY <1>1, <1>5, Sizes DEF Down, PastLastRow, Positive
  <2>2. Down(s) \in States
    BY <1>5, <2>1, Sizes DEF States, Positive
  <2>3. Look(Down(s)) = Screen(RowsOf(frame), (y + 1) + 1, 1)
    <3>1. Down(s).frame = frame /\ Down(s).x + 1 = 1 /\ Down(s).y = y + 1
      BY <2>1
    <3> QED
      BY <3>1, Zenon DEF Look
  <2>4. Private!Feed(Look(s)) = Screen(RowsOf(frame), (y + 1) + 1, 1)
    BY <1>3, <1>4, <1>5, FeedMovesOn
  <2> QED
    BY <2>2, <2>3, <2>4
<1>6. CASE ~(y + 1 < NUM_ROWS)
  <2>1. y + 1 = NUM_ROWS
    BY <1>6, Sizes DEF Positive
  <2>2. Down(s) = [frame |-> Scrolled(frame), x |-> 0, y |-> NUM_ROWS - 1]
    BY <1>1, <2>1, Sizes DEF Down, PastLastRow, Positive
  <2>3. Down(s) \in States
    BY <2>2, ScrolledFrame, Sizes DEF States, Positive
  <2>4. Look(Down(s)) = Screen(RowsOf(Scrolled(frame)), y + 1, 1)
    <3>1. Down(s).frame = Scrolled(frame) /\ Down(s).x + 1 = 1 /\ Down(s).y + 1 = y + 1
      BY <2>1, <2>2
    <3> QED
      BY <3>1, Zenon DEF Look
  <2>5. RowsOf(Scrolled(frame)) = Append(Tail(RowsOf(frame)), Private!BlankRow)
    BY ScrolledRows
  <2>6. Private!Feed(Look(s)) = Screen(Append(Tail(RowsOf(frame)), Private!BlankRow), y + 1, 1)
    BY <1>3, <1>4, <1>6, FeedScrolls
  <2> QED
    BY <2>3, <2>4, <2>5, <2>6, Zenon
<1> QED
  BY <1>5, <1>6

LEMMA PutOnScreen ==
  ASSUME NEW rows, NEW row \in Nat, NEW col \in Nat, NEW c, c # NewLine
  PROVE  Private!Put(Screen(rows, row, col), c) =
           IF col = NUM_COLS THEN Private!Feed(Screen(PutAt(rows, row, col, c), row, col))
           ELSE Screen(PutAt(rows, row, col, c), row, col + 1)
<1>1. PICK s, t : s = Screen(rows, row, col) /\ t = [s EXCEPT !.rows[s.row][s.col] = c]
  OBVIOUS
<1>2. s = [rows |-> rows, row |-> row, col |-> col]
  BY <1>1 DEF Screen
<1>3. s.row = row /\ s.col = col
  BY <1>2
<1>4. t = [s EXCEPT !.rows[row][col] = c]
  BY <1>1, <1>3, Zenon
<1>5. PICK stored : stored = [rows EXCEPT ![row][col] = c]
  OBVIOUS
<1>6. t = [rows |-> stored, row |-> row, col |-> col]
  BY <1>2, <1>4, <1>5
<1>7. Private!Put(s, c) = IF s.col = NUM_COLS THEN Private!Feed(t) ELSE [t EXCEPT !.col = @ + 1]
  BY <1>1, Zenon DEF Private!Put
<1>8. [t EXCEPT !.col = @ + 1] = [rows |-> stored, row |-> row, col |-> col + 1]
  BY <1>6
<1>9. stored = PutAt(rows, row, col, c)
  BY <1>5 DEF PutAt
<1>10. /\ t = Screen(PutAt(rows, row, col, c), row, col)
       /\ [t EXCEPT !.col = @ + 1] = Screen(PutAt(rows, row, col, c), row, col + 1)
  BY <1>6, <1>8, <1>9, Zenon DEF Screen
<1> QED
  BY <1>1, <1>3, <1>7, <1>10, Zenon

LEMMA RubOnScreen ==
  ASSUME NEW rows, NEW row \in Nat, NEW col \in Nat, NEW left,
         left = IF col = 1 THEN 1 ELSE col - 1
  PROVE  Private!Rub(Screen(rows, row, col)) = Screen(PutAt(rows, row, left, Blank), row, left)
<1>1. PICK s : s = Screen(rows, row, col)
  OBVIOUS
<1>2. s = [rows |-> rows, row |-> row, col |-> col]
  BY <1>1 DEF Screen
<1>3. s.row = row /\ (IF s.col = 1 THEN 1 ELSE s.col - 1) = left
  BY <1>2
<1>4. Private!Rub(s) = [s EXCEPT !.rows[s.row][left] = Blank, !.col = left]
  BY <1>3, Zenon DEF Private!Rub
<1>5. PICK stored : stored = [rows EXCEPT ![row][left] = Blank]
  OBVIOUS
<1>6. [s EXCEPT !.rows[s.row][left] = Blank, !.col = left] = [s EXCEPT !.rows = stored, !.col = left]
  BY <1>2, <1>3, <1>5
<1>7. [s EXCEPT !.rows = stored, !.col = left] = [rows |-> stored, row |-> row, col |-> left]
  <2>1. PICK t : t = [s EXCEPT !.rows = stored]
    OBVIOUS
  <2>2. t = [rows |-> stored, row |-> row, col |-> col]
    BY <1>2, <2>1
  <2>3. [s EXCEPT !.rows = stored, !.col = left] = [t EXCEPT !.col = left]
    BY <1>2, <2>1
  <2>4. [t EXCEPT !.col = left] = [rows |-> stored, row |-> row, col |-> left]
    BY <2>2
  <2> QED
    BY <2>3, <2>4, Zenon
<1>8. stored = PutAt(rows, row, left, Blank)
  BY <1>5 DEF PutAt
<1> QED
  BY <1>1, <1>4, <1>6, <1>7, <1>8, Zenon DEF Screen

LEMMA CellAt ==
  ASSUME NEW x \in 0..(NUM_COLS - 1), NEW y \in 0..(NUM_ROWS - 1)
  PROVE  /\ x + 1 \in 1..NUM_COLS /\ y + 1 \in 1..NUM_ROWS
         /\ x + 1 \in Nat /\ y + 1 \in Nat
         /\ Place(y + 1, x + 1) = NUM_COLS * y + x
<1>1. (y + 1) - 1 = y /\ (x + 1) - 1 = x
  OBVIOUS
<1>2. Place(y + 1, x + 1) = NUM_COLS * y + x
  BY <1>1 DEF Place
<1> QED
  BY <1>2, Sizes DEF Positive

LEMMA PutcIsPut ==
  ASSUME NEW s \in States, NEW c \in Glyphs \cup {NewLine}
  PROVE  Putc(s, c) \in States /\ Look(Putc(s, c)) = Private!Put(Look(s), c)
<1>1. PICK frame \in [Cells -> Glyphs], x \in 0..(NUM_COLS - 1), y \in 0..(NUM_ROWS - 1) :
        s = [frame |-> frame, x |-> x, y |-> y]
  BY DEF States
<1>2. s.frame = frame /\ s.x = x /\ s.y = y
  BY <1>1
<1>3. Look(s) = Screen(RowsOf(frame), y + 1, x + 1)
  BY <1>2, Zenon DEF Look
<1>4. CASE c = NewLine
  <2>1. Putc(s, c) = Down(s) /\ Private!Put(Look(s), c) = Private!Feed(Look(s))
    BY <1>4 DEF Putc, Private!Put
  <2> QED
    BY <2>1, DownIsFeed
<1>5. CASE c # NewLine
  <2>1. c \in Glyphs
    BY <1>5
  <2>2. PICK r, k : r = y + 1 /\ k = x + 1
    OBVIOUS
  <2>3. r \in 1..NUM_ROWS /\ k \in 1..NUM_COLS /\ r \in Nat /\ k \in Nat
    BY <2>2, CellAt
  <2>4. Place(r, k) = NUM_COLS * y + x
    BY <2>2, CellAt
  <2>5. PICK stored : stored = Stored(frame, r, k, c)
    OBVIOUS
  <2>6. stored \in [Cells -> Glyphs] /\ RowsOf(stored) = PutAt(RowsOf(frame), r, k, c)
    BY <2>1, <2>3, <2>5, StoredRows
  <2>7. PICK after : after = [frame |-> stored, x |-> x, y |-> y]
    OBVIOUS
  <2>8. [s EXCEPT !.frame[NUM_COLS * s.y + s.x] = c] = after
    <3>1. PICK i : i = NUM_COLS * y + x
      OBVIOUS
    <3>2. stored = [frame EXCEPT ![i] = c]
      BY <2>4, <2>5, <3>1 DEF Stored
    <3>3. [s EXCEPT !.frame[i] = c] = after
      BY <1>1, <2>7, <3>2
    <3> QED
      BY <1>2, <3>1, <3>3, Zenon
  <2>9. after \in States /\ Look(after) = Screen(PutAt(RowsOf(frame), r, k, c), r, k)
    <3>1. after \in States
      BY <2>6, <2>7 DEF States
    <3>2. after.frame = stored /\ after.x = x /\ after.y = y
      BY <2>7
    <3> QED
      BY <2>2, <2>6, <3>1, <3>2, Zenon DEF Look
  <2>10. Putc(s, c) = IF x + 1 >= NUM_COLS THEN Down(after) ELSE [after EXCEPT !.x = @ + 1]
    BY <1>2, <1>5, <2>8, Zenon DEF Putc
  <2>11. Private!Put(Look(s), c) = IF k = NUM_COLS THEN Private!Feed(Look(after))
                                   ELSE Screen(PutAt(RowsOf(frame), r, k, c), r, k + 1)
    <3>1. Look(s) = Screen(RowsOf(frame), r, k)
      BY <1>3, <2>2, Zenon
    <3> QED
      BY <1>5, <2>3, <2>9, <3>1, PutOnScreen
  <2>12. CASE k = NUM_COLS
    <3>1. Putc(s, c) = Down(after) /\ Private!Put(Look(s), c) = Private!Feed(Look(after))
      BY <2>2, <2>10, <2>11, <2>12, Sizes DEF Positive
    <3> QED
      BY <2>9, <3>1, DownIsFeed
  <2>13. CASE k # NUM_COLS
    <3>1. /\ Putc(s, c) = [after EXCEPT !.x = @ + 1]
          /\ Private!Put(Look(s), c) = Screen(PutAt(RowsOf(frame), r, k, c), r, k + 1)
      BY <2>2, <2>10, <2>11, <2>13, Sizes DEF Positive
    <3>2. Putc(s, c) = [frame |-> stored, x |-> x + 1, y |-> y]
      BY <2>7, <3>1
    <3>3. x + 1 \in 0..(NUM_COLS - 1)
      BY <2>2, <2>13, Sizes DEF Positive
    <3>4. Putc(s, c) \in States
      BY <2>6, <3>2, <3>3 DEF States
    <3>5. Putc(s, c).frame = stored /\ Putc(s, c).x + 1 = k + 1 /\ Putc(s, c).y + 1 = r
      BY <2>2, <3>2
    <3>6. Look(Putc(s, c)) = Screen(RowsOf(stored), r, k + 1)
      BY <3>5, Zenon DEF Look
    <3> QED
      BY <2>6, <3>1, <3>4, <3>6, Zenon
  <2> QED
    BY <2>12, <2>13
<1> QED
  BY <1>4, <1>5

LEMMA RemovecIsRub ==
  ASSUME NEW s \in States
  PROVE  Removec(s) \in States /\ Look(Removec(s)) = Private!Rub(Look(s))
<1>1. PICK frame \in [Cells -> Glyphs], x \in 0..(NUM_COLS - 1), y \in 0..(NUM_ROWS - 1) :
        s = [frame |-> frame, x |-> x, y |-> y]
  BY DEF States
<1>2. s.frame = frame /\ s.x = x /\ s.y = y
  BY <1>1
<1>3. PICK z : z = IF x = 0 THEN 0 ELSE x - 1
  OBVIOUS
<1>4. z \in 0..(NUM_COLS - 1) /\ z + 1 = IF x + 1 = 1 THEN 1 ELSE (x + 1) - 1
  BY <1>3, Sizes DEF Positive
<1>5. PICK r, k, l : r = y + 1 /\ k = z + 1 /\ l = x + 1
  OBVIOUS
<1>6. r \in 1..NUM_ROWS /\ k \in 1..NUM_COLS /\ r \in Nat /\ l \in Nat
  BY <1>4, <1>5, CellAt
<1>7. Place(r, k) = NUM_COLS * y + z
  BY <1>4, <1>5, CellAt
<1>8. PICK stored : stored = Stored(frame, r, k, Blank)
  OBVIOUS
<1>9. stored \in [Cells -> Glyphs] /\ RowsOf(stored) = PutAt(RowsOf(frame), r, k, Blank)
  <2>1. Blank \in Glyphs
    BY DisplayAssumption
  <2> QED
    BY <1>6, <1>8, <2>1, StoredRows
<1>10. Removec(s) = [frame |-> stored, x |-> z, y |-> y]
  <2>1. (IF s.x = 0 THEN 0 ELSE s.x - 1) = z
    BY <1>2, <1>3
  <2>2. Removec(s) = [s EXCEPT !.frame[NUM_COLS * s.y + z] = Blank, !.x = z]
    BY <2>1, Zenon DEF Removec
  <2>3. PICK i : i = NUM_COLS * y + z
    OBVIOUS
  <2>4. Removec(s) = [s EXCEPT !.frame[i] = Blank, !.x = z]
    BY <1>2, <2>2, <2>3, Zenon
  <2>5. stored = [frame EXCEPT ![i] = Blank]
    BY <1>7, <1>8, <2>3 DEF Stored
  <2> QED
    BY <1>1, <2>4, <2>5
<1>11. Removec(s) \in States
  BY <1>4, <1>9, <1>10 DEF States
<1>12. Look(Removec(s)) = Screen(RowsOf(stored), r, k)
  <2>1. Removec(s).frame = stored /\ Removec(s).x = z /\ Removec(s).y = y
    BY <1>10
  <2> QED
    BY <1>5, <2>1, Zenon DEF Look
<1>13. Private!Rub(Look(s)) = Screen(PutAt(RowsOf(frame), r, k, Blank), r, k)
  <2>1. Look(s) = Screen(RowsOf(frame), r, l)
    BY <1>2, <1>5, Zenon DEF Look
  <2>2. k = IF l = 1 THEN 1 ELSE l - 1
    BY <1>4, <1>5
  <2>3. Private!Rub(Screen(RowsOf(frame), r, l)) = Screen(PutAt(RowsOf(frame), r, k, Blank), r, k)
    BY <1>6, <2>2, RubOnScreen
  <2> QED
    BY <2>1, <2>3, Zenon
<1> QED
  BY <1>9, <1>11, <1>12, <1>13, Zenon

\* A screen that was cleared.
Cleared == [frame |-> Clear, x |-> 0, y |-> 0]

LEMMA ClearedIsEmpty == Cleared \in States /\ Look(Cleared) = Private!Empty
<1>1. Blank \in Glyphs
  BY DisplayAssumption
<1>2. Clear \in [Cells -> Glyphs]
  BY <1>1 DEF Clear
<1>3. Cleared \in States
  BY <1>2, Sizes DEF Cleared, States, Positive
<1>4. \A r \in 1..NUM_ROWS, k \in 1..NUM_COLS : Clear[Place(r, k)] = Blank
  <2>1. SUFFICES ASSUME NEW r \in 1..NUM_ROWS, NEW k \in 1..NUM_COLS PROVE Clear[Place(r, k)] = Blank
    OBVIOUS
  <2>2. PICK i \in Cells : i = Place(r, k)
    BY PlaceInCells
  <2> QED
    BY <2>2 DEF Clear
<1>5. RowsOf(Clear) = [r \in 1..NUM_ROWS |-> Private!BlankRow]
  BY <1>4 DEF RowsOf, Private!BlankRow
<1>6. Look(Cleared) = [rows |-> RowsOf(Clear), row |-> 1, col |-> 1]
  BY DEF Look, Screen, Cleared
<1> QED
  BY <1>3, <1>5, <1>6 DEF Private!Empty
-----------------------------------------------------------------------------
(* Induction.                                                              *)

\* Every set of numbers but the empty one has a least element.
LEMMA Least ==
  ASSUME NEW T, T \subseteq Nat, T # {}
  PROVE  \E x \in T : \A y \in T : x <= y
<1>1. PICK R : R = OpToRel(<, Nat)
  BY Zenon
<1>2. PICK x \in T : \A y \in T : ~(<<y, x>> \in R)
  BY <1>1, NatLessThanWellFounded, WFMin, Zenon
<1>3. \A y, z \in Nat : y < z => <<y, z>> \in R
  BY <1>1 DEF OpToRel
<1>4. ASSUME NEW y \in T PROVE x <= y
  <2>1. x \in Nat /\ y \in Nat
    OBVIOUS
  <2>2. ~(y < x)
    BY <1>2, <1>3, <2>1
  <2> QED
    BY <2>1, <2>2
<1> QED
  BY <1>4

\* Induction, for a property that is a set.
LEMMA Induction ==
  ASSUME NEW T, 0 \in T, \A n \in Nat : n \in T => n + 1 \in T
  PROVE  \A n \in Nat : n \in T
<1>1. SUFFICES ASSUME NEW m \in Nat, m \notin T PROVE FALSE
  OBVIOUS
<1>2. PICK U : U = {n \in Nat : n \notin T}
  OBVIOUS
<1>3. PICK x \in U : \A y \in U : x <= y
  BY <1>1, <1>2, Least
<1>4. x \in Nat /\ x # 0 /\ x - 1 \in Nat /\ x - 1 \notin U
  BY <1>2, <1>3
<1>5. x - 1 \in T /\ (x - 1) + 1 = x
  BY <1>2, <1>4
<1> QED
  BY <1>2, <1>3, <1>4, <1>5

-----------------------------------------------------------------------------
(* The banner: the fold of Putc over its characters, a function on the     *)
(* sets of its positions that takes the greatest position away first.      *)

Positions(n) == SUBSET (1..n)
Top(S) == CHOOSE x \in S : \A y \in S : x >= y

Printed(f, S) == IF S = {} THEN Cleared ELSE Putc(f[S \ {Top(S)}], Banner[Top(S)])
Shown(f, S) == IF S = {} THEN Private!Empty ELSE Private!Put(f[S \ {Top(S)}], Banner[Top(S)])

LEMMA BannerCharacters ==
  /\ Len(Banner) \in Nat /\ DOMAIN Banner = 1..Len(Banner)
  /\ \A i \in 1..Len(Banner) : Banner[i] \in Glyphs \cup {NewLine}
<1>1. Banner \in Seq(Glyphs \cup {NewLine})
  BY DisplayAssumption
<1> QED
  BY <1>1

LEMMA TopOfPrefix ==
  ASSUME NEW n \in Nat, NEW S, S \subseteq 1..(n + 1), n + 1 \in S
  PROVE  Top(S) = n + 1 /\ S \ {Top(S)} \in Positions(n)
<1>1. \A y \in S : y \in Int /\ n + 1 >= y
  OBVIOUS
<1>2. PICK top : top = Top(S)
  OBVIOUS
<1>3. top \in S /\ \A y \in S : top >= y
  BY <1>1, <1>2 DEF Top
<1>4. top = n + 1
  BY <1>1, <1>3
<1>5. S \ {n + 1} \in Positions(n)
  BY DEF Positions
<1> QED
  BY <1>2, <1>4, <1>5

LEMMA TopIsOne ==
  ASSUME NEW n \in Nat, NEW S \in Positions(n), S # {}
  PROVE  Top(S) \in S
<1> DEFINE T == {m \in Nat : \A R \in Positions(m) : R # {} => Top(R) \in R}
<1>1. 0 \in T
  <2>1. \A R \in Positions(0) : R = {}
    BY DEF Positions
  <2> QED
    BY <2>1
<1>2. ASSUME NEW m \in Nat, m \in T PROVE m + 1 \in T
  <2>1. SUFFICES ASSUME NEW R \in Positions(m + 1), R # {} PROVE Top(R) \in R
    OBVIOUS
  <2>2. CASE m + 1 \in R
    BY <2>2, TopOfPrefix DEF Positions
  <2>3. CASE m + 1 \notin R
    <3>1. R \in Positions(m)
      BY <2>3 DEF Positions
    <3> QED
      BY <1>2, <2>1, <3>1
  <2> QED
    BY <2>2, <2>3
<1> HIDE DEF T
<1>3. n \in T
  BY <1>1, <1>2, Induction
<1> QED
  BY <1>3 DEF T

LEMMA TopOfNumbers ==
  ASSUME NEW n \in Nat
  PROVE  Top(1..(n + 1)) = n + 1 /\ (1..(n + 1)) \ {n + 1} = 1..n
<1>1. PICK S : S = 1..(n + 1)
  OBVIOUS
<1>2. S \subseteq 1..(n + 1) /\ n + 1 \in S
  BY <1>1
<1>3. Top(S) = n + 1
  BY <1>2, TopOfPrefix
<1>4. (1..(n + 1)) \ {n + 1} = 1..n
  OBVIOUS
<1> QED
  BY <1>1, <1>3, <1>4

\* The function exists, and all it finds are screens.
LEMMA PrintingExists ==
  \E f \in [Positions(Len(Banner)) -> States] :
    \A S \in Positions(Len(Banner)) : f[S] = Printed(f, S)
<1> DEFINE Prints(n, f) == /\ f \in [Positions(n) -> States]
                           /\ \A S \in Positions(n) : f[S] = Printed(f, S)
           T == {n \in Nat : n <= Len(Banner) => \E f : Prints(n, f)}
<1>1. 0 \in T
  <2>1. PICK f : f = [S \in Positions(0) |-> Cleared]
    OBVIOUS
  <2>2. \A S \in Positions(0) : S = {}
    BY DEF Positions
  <2>3. f \in [Positions(0) -> States]
    BY <2>1, ClearedIsEmpty
  <2>4. \A S \in Positions(0) : f[S] = Printed(f, S)
    BY <2>1, <2>2 DEF Printed
  <2> QED
    BY <2>3, <2>4
<1>2. ASSUME NEW n \in Nat, n \in T PROVE n + 1 \in T
  <2>1. SUFFICES ASSUME n + 1 <= Len(Banner) PROVE \E f : Prints(n + 1, f)
    OBVIOUS
  <2>2. PICK f : Prints(n, f)
    <3>1. n <= Len(Banner)
      BY <2>1, BannerCharacters
    <3> QED
      BY <1>2, <3>1
  <2>3. PICK c \in Glyphs \cup {NewLine} : c = Banner[n + 1]
    <3>1. n + 1 \in 1..Len(Banner)
      BY <2>1, BannerCharacters
    <3> QED
      BY <3>1, BannerCharacters
  <2>4. PICK longer : longer = [S \in Positions(n + 1) |-> IF n + 1 \in S THEN Putc(f[S \ {n + 1}], c) ELSE f[S]]
    OBVIOUS
  <2>5. \A S \in Positions(n) : S \in Positions(n + 1) /\ n + 1 \notin S
    BY DEF Positions
  <2>6. \A S \in Positions(n) : longer[S] = f[S]
    BY <2>4, <2>5
  <2>7. ASSUME NEW S \in Positions(n + 1), n + 1 \in S
        PROVE  longer[S] \in States /\ longer[S] = Printed(longer, S)
    <3>1. Top(S) = n + 1 /\ S \ {Top(S)} \in Positions(n)
      BY <2>7, TopOfPrefix DEF Positions
    <3>2. PICK rest \in Positions(n) : rest = S \ {n + 1}
      BY <3>1
    <3>3. longer[S] = Putc(f[rest], c)
      BY <2>4, <2>7, <3>2
    <3>4. f[rest] \in States
      BY <2>2
    <3>5. longer[S] \in States
      BY <3>3, <3>4, PutcIsPut
    <3>6. longer[rest] = f[rest]
      BY <2>6
    <3>7. Printed(longer, S) = Putc(longer[rest], c)
      BY <2>3, <2>7, <3>1, <3>2 DEF Printed
    <3> QED
      BY <3>3, <3>5, <3>6, <3>7, Zenon
  <2>8. ASSUME NEW S \in Positions(n + 1), n + 1 \notin S
        PROVE  longer[S] \in States /\ longer[S] = Printed(longer, S)
    <3>1. S \in Positions(n)
      BY <2>8 DEF Positions
    <3>2. longer[S] = f[S] /\ f[S] \in States /\ f[S] = Printed(f, S)
      BY <2>2, <2>6, <3>1
    <3>3. S \ {Top(S)} \in Positions(n)
      BY <3>1 DEF Positions
    <3>4. longer[S \ {Top(S)}] = f[S \ {Top(S)}]
      BY <2>6, <3>3
    <3>5. Printed(longer, S) = Printed(f, S)
      BY <3>4, Zenon DEF Printed
    <3> QED
      BY <3>2, <3>5, Zenon
  <2>9. longer \in [Positions(n + 1) -> States]
    BY <2>4, <2>7, <2>8
  <2> QED
    BY <2>7, <2>8, <2>9
<1> HIDE DEF T
<1>3. Len(Banner) \in T
  BY <1>1, <1>2, BannerCharacters, Induction
<1> QED
  BY <1>3, BannerCharacters DEF T

LEMMA PrintingUnfolds ==
  \E f : /\ f = [S \in Positions(Len(Banner)) |-> Printed(f, S)]
         /\ FoldLeft(Putc, Cleared, Banner) = f[1..Len(Banner)]
<1>1. PICK n : n = Len(Banner) /\ DOMAIN Banner = 1..n
  BY BannerCharacters
<1>2. PICK g : g \in [Positions(n) -> States] /\ \A S \in Positions(n) : g[S] = Printed(g, S)
  BY <1>1, PrintingExists
<1>3. g = [S \in Positions(n) |-> Printed(g, S)]
  BY <1>2
<1> DEFINE f == CHOOSE h : h = [S \in Positions(n) |-> Printed(h, S)]
<1>4. f = [S \in Positions(n) |-> Printed(f, S)]
  BY <1>3, Zenon
<1>5. FoldLeft(Putc, Cleared, Banner) = f[1..n]
  BY <1>1, Zenon DEF FoldLeft, MapThenFoldSet, Max, Positions, Printed, Top
<1> QED
  BY <1>1, <1>4, <1>5, Zenon

LEMMA ShowingUnfolds ==
  \E f : /\ f = [S \in Positions(Len(Banner)) |-> Shown(f, S)]
         /\ Private!FoldLeft(Private!Put, Private!Empty, Banner) = f[1..Len(Banner)]
<1>1. PICK n : n = Len(Banner) /\ DOMAIN Banner = 1..n
  BY BannerCharacters
<1>2. PICK f : f \in [Positions(n) -> States] /\ \A S \in Positions(n) : f[S] = Printed(f, S)
  BY <1>1, PrintingExists
<1>3. PICK g : g = [S \in Positions(n) |-> Look(f[S])]
  OBVIOUS
<1>4. ASSUME NEW S \in Positions(n) PROVE Look(f[S]) = Shown(g, S)
  <2>1. f[S] = Printed(f, S)
    BY <1>2
  <2>2. CASE S = {}
    <3>1. f[S] = Cleared /\ Shown(g, S) = Private!Empty
      BY <2>1, <2>2 DEF Printed, Shown
    <3> QED
      BY <3>1, ClearedIsEmpty
  <2>3. CASE S # {}
    <3>1. PICK top, rest : top = Top(S) /\ rest = S \ {top}
      OBVIOUS
    <3>2. n \in Nat
      BY <1>1, BannerCharacters
    <3>3. top \in S
      BY <2>3, <3>1, <3>2, TopIsOne
    <3>4. top \in 1..n /\ rest \in Positions(n)
      BY <3>1, <3>3 DEF Positions
    <3>5. Banner[top] \in Glyphs \cup {NewLine}
      BY <1>1, <3>4, BannerCharacters
    <3>6. f[S] = Putc(f[rest], Banner[top])
      BY <2>1, <2>3, <3>1, Zenon DEF Printed
    <3>7. Shown(g, S) = Private!Put(g[rest], Banner[top])
      BY <2>3, <3>1, Zenon DEF Shown
    <3>8. f[rest] \in States /\ g[rest] = Look(f[rest])
      BY <1>2, <1>3, <3>4
    <3>9. Look(Putc(f[rest], Banner[top])) = Private!Put(Look(f[rest]), Banner[top])
      BY <3>5, <3>8, PutcIsPut
    <3> QED
      BY <3>6, <3>7, <3>8, <3>9, Zenon
  <2> QED
    BY <2>2, <2>3
<1>5. g = [S \in Positions(n) |-> Shown(g, S)]
  BY <1>3, <1>4
<1> DEFINE h == CHOOSE k : k = [S \in Positions(n) |-> Shown(k, S)]
<1>6. h = [S \in Positions(n) |-> Shown(h, S)]
  BY <1>5, Zenon
<1>7. Private!FoldLeft(Private!Put, Private!Empty, Banner) = h[1..n]
  BY <1>1, Zenon DEF Private!FoldLeft, Private!MapThenFoldSet, Private!Max, Positions, Shown, Top
<1> QED
  BY <1>1, <1>6, <1>7, Zenon
LEMMA BannerIsBanner ==
  /\ FoldLeft(Putc, Cleared, Banner) \in States
  /\ Look(FoldLeft(Putc, Cleared, Banner)) = Private!FoldLeft(Private!Put, Private!Empty, Banner)
<1>1. PICK n : n = Len(Banner) /\ n \in Nat
  BY BannerCharacters
<1>2. PICK f : /\ f = [S \in Positions(n) |-> Printed(f, S)]
               /\ FoldLeft(Putc, Cleared, Banner) = f[1..n]
  BY <1>1, PrintingUnfolds
<1>3. PICK g : /\ g = [S \in Positions(n) |-> Shown(g, S)]
               /\ Private!FoldLeft(Private!Put, Private!Empty, Banner) = g[1..n]
  BY <1>1, ShowingUnfolds
<1>4. \A S \in Positions(n) : f[S] = Printed(f, S)
  <2>1. PICK h : h = f
    OBVIOUS
  <2>2. f = [S \in Positions(n) |-> Printed(h, S)]
    BY <1>2, <2>1, Zenon
  <2>3. \A S \in Positions(n) : f[S] = Printed(h, S)
    BY <2>2
  <2> QED
    BY <2>1, <2>3, Zenon
<1>5. \A S \in Positions(n) : g[S] = Shown(g, S)
  <2>1. PICK h : h = g
    OBVIOUS
  <2>2. g = [S \in Positions(n) |-> Shown(h, S)]
    BY <1>3, <2>1, Zenon
  <2>3. \A S \in Positions(n) : g[S] = Shown(h, S)
    BY <2>2
  <2> QED
    BY <2>1, <2>3, Zenon
<1> DEFINE T == {m \in Nat : m <= n => f[1..m] \in States /\ Look(f[1..m]) = g[1..m]}
<1>6. 0 \in T
  <2>1. 1..0 = {} /\ {} \in Positions(n)
    BY DEF Positions
  <2>2. Printed(f, {}) = Cleared /\ Shown(g, {}) = Private!Empty
    BY DEF Printed, Shown
  <2>3. f[{}] = Cleared /\ g[{}] = Private!Empty
    BY <1>4, <1>5, <2>1, <2>2
  <2> QED
    BY <2>1, <2>3, ClearedIsEmpty
<1>7. ASSUME NEW m \in Nat, m \in T PROVE m + 1 \in T
  <2>1. SUFFICES ASSUME m + 1 <= n
                 PROVE  f[1..(m + 1)] \in States /\ Look(f[1..(m + 1)]) = g[1..(m + 1)]
    OBVIOUS
  <2>2. PICK S, R, c : S = 1..(m + 1) /\ R = 1..m /\ c = Banner[m + 1]
    OBVIOUS
  <2>3. Top(S) = m + 1 /\ S \ {m + 1} = R
    BY <2>2, TopOfNumbers
  <2>4. S \in Positions(n) /\ S # {}
    <3>1. 1 \in S /\ S \subseteq 1..n
      BY <1>1, <2>1, <2>2
    <3> QED
      BY <3>1 DEF Positions
  <2>5. f[R] \in States /\ Look(f[R]) = g[R]
    BY <1>1, <1>7, <2>1, <2>2
  <2>6. f[S] = Putc(f[R], c)
    <3>1. f[S] = Printed(f, S)
      BY <1>4, <2>4
    <3>2. Printed(f, S) = Putc(f[S \ {Top(S)}], Banner[Top(S)])
      BY <2>4, Zenon DEF Printed
    <3> QED
      BY <2>2, <2>3, <3>1, <3>2, Zenon
  <2>7. g[S] = Private!Put(g[R], c)
    <3>1. g[S] = Shown(g, S)
      BY <1>5, <2>4
    <3>2. Shown(g, S) = Private!Put(g[S \ {Top(S)}], Banner[Top(S)])
      BY <2>4, Zenon DEF Shown
    <3> QED
      BY <2>2, <2>3, <3>1, <3>2, Zenon
  <2>8. c \in Glyphs \cup {NewLine}
    <3>1. m + 1 \in 1..Len(Banner)
      BY <1>1, <2>1
    <3> QED
      BY <2>2, <3>1, BannerCharacters
  <2>9. Putc(f[R], c) \in States /\ Look(Putc(f[R], c)) = Private!Put(Look(f[R]), c)
    BY <2>5, <2>8, PutcIsPut
  <2> QED
    BY <2>2, <2>5, <2>6, <2>7, <2>9, Zenon
<1> HIDE DEF T
<1>8. n \in T
  BY <1>1, <1>6, <1>7, Induction
<1>9. f[1..n] \in States /\ Look(f[1..n]) = g[1..n]
  BY <1>1, <1>8 DEF T
<1> QED
  BY <1>2, <1>3, <1>9, Zenon
-----------------------------------------------------------------------------
(* The screens of all terminals, the parts of the state given one by one   *)
(* so that two states can be compared.                                     *)

Memories == [Frames -> [Cells -> Glyphs]]
Columns == [Terminals -> 0..(NUM_COLS - 1)]
Lines == [Terminals -> 0..(NUM_ROWS - 1)]

FrameIf(t, shown) == IF t = shown THEN VIDEO ELSE t
StateOf(m, x, y, f, t) == [frame |-> m[f], x |-> x[t], y |-> y[t]]
AllScreens(m, x, y, shown) ==
  [t \in Terminals |-> Look(StateOf(m, x, y, FrameIf(t, shown), t))]

LEMMA FramesApart ==
  ASSUME NEW t \in Terminals, NEW u \in Terminals, NEW shown \in Terminals
  PROVE  /\ FrameIf(t, shown) \in Frames
         /\ FrameIf(t, shown) = FrameIf(u, shown) => t = u
         /\ t # VIDEO /\ VIDEO \in Frames /\ t \in Frames
BY DisplayAssumption DEF Terminals, FrameIf, Frames, VIDEO

LEMMA StateTyped ==
  ASSUME NEW m \in Memories, NEW x \in Columns, NEW y \in Lines,
         NEW f \in Frames, NEW t \in Terminals
  PROVE  StateOf(m, x, y, f, t) \in States
BY DEF StateOf, States, Memories, Columns, Lines

WithScreen(all, t, screen) == [all EXCEPT ![t] = screen]

\* Frame f and the position of terminal t are made those of s.
Replaced(m, x, y, m1, x1, y1, f, t, s) ==
  m1 = [m EXCEPT ![f] = s.frame] /\ x1 = [x EXCEPT ![t] = s.x] /\ y1 = [y EXCEPT ![t] = s.y]

\* One screen is printed on, erased or stored into.
LEMMA OneScreenChanges ==
  ASSUME NEW m \in Memories, NEW x \in Columns, NEW y \in Lines, NEW shown \in Terminals,
         NEW t \in Terminals, NEW s \in States, NEW m1, NEW x1, NEW y1,
         Replaced(m, x, y, m1, x1, y1, FrameIf(t, shown), t, s)
  PROVE  /\ m1 \in Memories /\ x1 \in Columns /\ y1 \in Lines
         /\ AllScreens(m1, x1, y1, shown) = WithScreen(AllScreens(m, x, y, shown), t, Look(s))
<1>1. PICK f \in Frames : f = FrameIf(t, shown)
  BY FramesApart
<1> m1 = [m EXCEPT ![f] = s.frame] /\ x1 = [x EXCEPT ![t] = s.x] /\ y1 = [y EXCEPT ![t] = s.y]
  BY <1>1 DEF Replaced
<1>2. /\ s.frame \in [Cells -> Glyphs] /\ s.x \in 0..(NUM_COLS - 1) /\ s.y \in 0..(NUM_ROWS - 1)
      /\ s = [frame |-> s.frame, x |-> s.x, y |-> s.y]
  BY DEF States
<1>3. m1 \in Memories /\ x1 \in Columns /\ y1 \in Lines
  BY <1>1, <1>2 DEF Memories, Columns, Lines
<1>4. ASSUME NEW u \in Terminals
      PROVE  StateOf(m1, x1, y1, FrameIf(u, shown), u) =
               IF u = t THEN s ELSE StateOf(m, x, y, FrameIf(u, shown), u)
  <2>1. PICK g \in Frames : g = FrameIf(u, shown)
    BY FramesApart
  <2>2. g = f <=> u = t
    BY <1>1, <2>1, FramesApart
  <2>3. m1[g] = IF u = t THEN s.frame ELSE m[g]
    BY <1>1, <2>2 DEF Memories
  <2>4. x1[u] = IF u = t THEN s.x ELSE x[u]
    BY DEF Columns
  <2>5. y1[u] = IF u = t THEN s.y ELSE y[u]
    BY DEF Lines
  <2> QED
    BY <1>2, <2>1, <2>3, <2>4, <2>5 DEF StateOf
<1>5. ASSUME NEW u \in Terminals
      PROVE  Look(StateOf(m1, x1, y1, FrameIf(u, shown), u)) =
               IF u = t THEN Look(s) ELSE Look(StateOf(m, x, y, FrameIf(u, shown), u))
  BY <1>4, Zenon
<1>6. PICK before, after : before = AllScreens(m, x, y, shown) /\ after = AllScreens(m1, x1, y1, shown)
  OBVIOUS
<1>7. PICK new : new = Look(s)
  OBVIOUS
<1>8. after = [u \in Terminals |-> IF u = t THEN new ELSE before[u]]
  BY <1>5, <1>6, <1>7 DEF AllScreens
<1>9. before = [u \in Terminals |-> before[u]]
  BY <1>6 DEF AllScreens
<1>10. after = [before EXCEPT ![t] = new]
  BY <1>8, <1>9
<1> QED
  BY <1>3, <1>6, <1>7, <1>10, Zenon DEF WithScreen

\* Another terminal is shown: the screen that was is saved, and the new one is
\* what is put in video memory.
LEMMA OneScreenIsShown ==
  ASSUME NEW m \in Memories, NEW x \in Columns, NEW y \in Lines, NEW shown \in Terminals,
         NEW t \in Terminals, t # shown, NEW s \in States,
         NEW m1, NEW x1, NEW y1,
         Replaced([m EXCEPT ![shown] = m[VIDEO]], x, y, m1, x1, y1, VIDEO, t, s)
  PROVE  /\ m1 \in Memories /\ x1 \in Columns /\ y1 \in Lines
         /\ AllScreens(m1, x1, y1, t) = WithScreen(AllScreens(m, x, y, shown), t, Look(s))
<1>0. PICK saved : saved = [m EXCEPT ![shown] = m[VIDEO]]
  OBVIOUS
<1> m1 = [saved EXCEPT ![VIDEO] = s.frame] /\ x1 = [x EXCEPT ![t] = s.x] /\ y1 = [y EXCEPT ![t] = s.y]
  BY <1>0 DEF Replaced
<1>1. VIDEO \in Frames /\ shown \in Frames /\ t \in Frames /\ shown # VIDEO /\ t # VIDEO
  BY FramesApart
<1>2. /\ s.frame \in [Cells -> Glyphs] /\ s.x \in 0..(NUM_COLS - 1) /\ s.y \in 0..(NUM_ROWS - 1)
      /\ s = [frame |-> s.frame, x |-> s.x, y |-> s.y]
  BY DEF States
<1>3. saved \in Memories
  BY <1>0, <1>1 DEF Memories
<1>4. m1 \in Memories /\ x1 \in Columns /\ y1 \in Lines
  BY <1>1, <1>2, <1>3 DEF Memories, Columns, Lines
<1>5. ASSUME NEW u \in Terminals
      PROVE  StateOf(m1, x1, y1, FrameIf(u, t), u) =
               IF u = t THEN s ELSE StateOf(m, x, y, FrameIf(u, shown), u)
  <2>1. u \in Frames /\ u # VIDEO
    BY FramesApart
  <2>2. m1[FrameIf(u, t)] = IF u = t THEN s.frame ELSE m[FrameIf(u, shown)]
    <3>1. CASE u = t
      BY <1>0, <1>1, <1>3, <3>1 DEF FrameIf, Memories
    <3>2. CASE u # t /\ u = shown
      BY <1>0, <1>1, <1>3, <3>2 DEF FrameIf, Memories
    <3>3. CASE u # t /\ u # shown
      BY <1>0, <1>1, <1>3, <2>1, <3>3 DEF FrameIf, Memories
    <3> QED
      BY <3>1, <3>2, <3>3
  <2>3. x1[u] = IF u = t THEN s.x ELSE x[u]
    BY DEF Columns
  <2>4. y1[u] = IF u = t THEN s.y ELSE y[u]
    BY DEF Lines
  <2> QED
    BY <1>2, <2>2, <2>3, <2>4 DEF StateOf
<1>6. ASSUME NEW u \in Terminals
      PROVE  Look(StateOf(m1, x1, y1, FrameIf(u, t), u)) =
               IF u = t THEN Look(s) ELSE Look(StateOf(m, x, y, FrameIf(u, shown), u))
  BY <1>5, Zenon
<1>7. PICK before, after : before = AllScreens(m, x, y, shown) /\ after = AllScreens(m1, x1, y1, t)
  OBVIOUS
<1>8. PICK new : new = Look(s)
  OBVIOUS
<1>9. after = [u \in Terminals |-> IF u = t THEN new ELSE before[u]]
  BY <1>6, <1>7, <1>8 DEF AllScreens
<1>10. before = [u \in Terminals |-> before[u]]
  BY <1>7 DEF AllScreens
<1>11. after = [before EXCEPT ![t] = new]
  BY <1>9, <1>10
<1> QED
  BY <1>4, <1>7, <1>8, <1>11, Zenon DEF WithScreen
-----------------------------------------------------------------------------
(* The invariant.                                                          *)

\* Once a tick has set the page at 200 MB, it leads to the screen of the
\* terminal that runs.
DrawsOnOwn == settled => page_table_vid_mem = FrameOf(scheduled)

Inv ==
  /\ memory \in Memories
  /\ CursorFollows
  /\ active \in Terminals /\ scheduled \in Terminals
  /\ opened_before \in [Terminals -> BOOLEAN]
  /\ settled \in BOOLEAN
  /\ DrawsOnOwn

Now == AllScreens(memory, screen_x, screen_y, active)

LEMMA InvTypes ==
  ASSUME Inv
  PROVE  /\ memory \in Memories /\ screen_x \in Columns /\ screen_y \in Lines
         /\ active \in Terminals /\ scheduled \in Terminals
         /\ cursor = <<screen_x[active], screen_y[active]>>
         /\ opened_before \in [Terminals -> BOOLEAN] /\ settled \in BOOLEAN
BY DEF Inv, CursorFollows, Columns, Lines

LEMMA InitInv == Init => Inv
<1> SUFFICES ASSUME Init PROVE Inv
  OBVIOUS
<1>1. Blank \in Glyphs
  BY DisplayAssumption
<1>2. memory \in Memories
  BY <1>1 DEF Init, Memories, Clear
<1>3. 0 \in Terminals /\ NTerminals - 1 \in Terminals
  BY DisplayAssumption DEF Terminals
<1>4. 0 \in 0..(NUM_COLS - 1) /\ 0 \in 0..(NUM_ROWS - 1)
  BY Sizes DEF Positive
<1>5. CursorFollows
  BY <1>3, <1>4 DEF Init, CursorFollows
<1>6. DrawsOnOwn
  BY DEF Init, DrawsOnOwn
<1> QED
  BY <1>2, <1>3, <1>5, <1>6 DEF Init, Inv

\* What is printed or erased on a terminal's screen.
LEMMA BecomesOneScreen ==
  ASSUME Inv, NEW t \in Terminals, NEW s \in States, Becomes(FrameOf(t), t, s), active' = active
  PROVE  /\ memory' \in Memories /\ screen_x' \in Columns /\ screen_y' \in Lines
         /\ screen_x'[t] = s.x /\ screen_y'[t] = s.y
         /\ \A u \in Terminals : u # t => screen_x'[u] = screen_x[u] /\ screen_y'[u] = screen_y[u]
         /\ Now' = [Now EXCEPT ![t] = Look(s)]
<1>1. memory \in Memories /\ screen_x \in Columns /\ screen_y \in Lines /\ active \in Terminals
  BY InvTypes
<1>2. PICK m \in Memories, x \in Columns, y \in Lines, shown \in Terminals :
        m = memory /\ x = screen_x /\ y = screen_y /\ shown = active
  BY <1>1
<1>3. PICK f, m1, x1, y1 : f = FrameIf(t, shown) /\ m1 = memory' /\ x1 = screen_x' /\ y1 = screen_y'
  OBVIOUS
<1>4. /\ m1 = [m EXCEPT ![f] = s.frame]
      /\ x1 = [x EXCEPT ![t] = s.x]
      /\ y1 = [y EXCEPT ![t] = s.y]
  BY <1>2, <1>3 DEF Becomes, FrameOf, FrameIf
<1>5. /\ m1 \in Memories /\ x1 \in Columns /\ y1 \in Lines
      /\ AllScreens(m1, x1, y1, shown) = WithScreen(AllScreens(m, x, y, shown), t, Look(s))
  <2>1. Replaced(m, x, y, m1, x1, y1, FrameIf(t, shown), t, s)
    BY <1>3, <1>4, Zenon DEF Replaced
  <2> QED
    BY <2>1, OneScreenChanges
<1>6. Now = AllScreens(m, x, y, shown) /\ Now' = AllScreens(m1, x1, y1, shown)
  BY <1>2, <1>3, Zenon DEF Now
<1>7. x1[t] = s.x /\ y1[t] = s.y
  BY <1>4 DEF Columns, Lines
<1>8. \A u \in Terminals : u # t => x1[u] = x[u] /\ y1[u] = y[u]
  BY <1>4 DEF Columns, Lines
<1>9. Now' = [Now EXCEPT ![t] = Look(s)]
  BY <1>5, <1>6, Zenon DEF WithScreen
<1> QED
  BY <1>2, <1>3, <1>5, <1>7, <1>8, <1>9

LEMMA AtIsState ==
  ASSUME Inv, NEW t \in Terminals
  PROVE  At(FrameOf(t), t) \in States /\ Now[t] = Look(At(FrameOf(t), t))
<1>1. PICK m \in Memories, x \in Columns, y \in Lines, shown \in Terminals :
        m = memory /\ x = screen_x /\ y = screen_y /\ shown = active
  BY InvTypes
<1>2. PICK f \in Frames : f = FrameIf(t, shown)
  BY FramesApart
<1>3. FrameOf(t) = f
  BY <1>1, <1>2 DEF FrameOf, FrameIf
<1>4. At(FrameOf(t), t) = StateOf(m, x, y, f, t)
  BY <1>1, <1>3, Zenon DEF At, StateOf
<1>5. StateOf(m, x, y, f, t) \in States
  BY StateTyped
<1>6. Now = AllScreens(m, x, y, shown)
  BY <1>1, Zenon DEF Now
<1>7. AllScreens(m, x, y, shown)[t] = Look(StateOf(m, x, y, f, t))
  BY <1>2 DEF AllScreens
<1> QED
  BY <1>4, <1>5, <1>6, <1>7, Zenon

-----------------------------------------------------------------------------
(* The steps.                                                              *)

LEMMA WriteKeeps ==
  ASSUME Inv, NEW c \in Glyphs \cup {NewLine}, Write(c)
  PROVE  Inv' /\ Now' = [Now EXCEPT ![scheduled] = Private!Put(Now[scheduled], c)]
<1>1. PICK t \in Terminals : t = scheduled
  BY InvTypes
<1>2. At(FrameOf(t), t) \in States /\ Now[t] = Look(At(FrameOf(t), t))
  BY AtIsState
<1>3. PICK s : s = Putc(At(FrameOf(t), t), c)
  OBVIOUS
<1>4. s \in States /\ Look(s) = Private!Put(Now[t], c)
  BY <1>2, <1>3, PutcIsPut
<1>5. /\ Becomes(FrameOf(t), t, s)
      /\ cursor' = IF t = active THEN <<s.x, s.y>> ELSE cursor
      /\ UNCHANGED <<page_table_vid_mem, settled, active, scheduled, opened_before>>
  BY <1>1, <1>3 DEF Write, ShowsCursor, terminals
<1>6. /\ memory' \in Memories /\ screen_x' \in Columns /\ screen_y' \in Lines
      /\ screen_x'[t] = s.x /\ screen_y'[t] = s.y
      /\ \A u \in Terminals : u # t => screen_x'[u] = screen_x[u] /\ screen_y'[u] = screen_y[u]
      /\ Now' = [Now EXCEPT ![t] = Look(s)]
  BY <1>4, <1>5, BecomesOneScreen
<1>7. CursorFollows'
  <2>1. cursor' = <<screen_x'[active], screen_y'[active]>>
    <3>1. CASE t = active
      BY <1>5, <1>6, <3>1
    <3>2. CASE t # active
      BY <1>5, <1>6, <3>2, InvTypes
    <3> QED
      BY <3>1, <3>2
  <2> QED
    BY <1>5, <1>6, <2>1 DEF CursorFollows, Columns, Lines
<1>8. Inv'
  BY <1>5, <1>6, <1>7 DEF Inv, DrawsOnOwn, FrameOf
<1> QED
  BY <1>1, <1>4, <1>6, <1>8, Zenon

LEMMA EchoKeeps ==
  ASSUME Inv, NEW s \in States, Echo(s)
  PROVE  Inv' /\ Now' = [Now EXCEPT ![active] = Look(s)]
<1>1. PICK t \in Terminals : t = active
  BY InvTypes
<1>2. FrameOf(t) = VIDEO
  BY <1>1 DEF FrameOf
<1>3. /\ Becomes(FrameOf(t), t, s)
      /\ cursor' = <<s.x, s.y>>
      /\ UNCHANGED <<page_table_vid_mem, settled, active, scheduled, opened_before>>
  BY <1>1, <1>2 DEF Echo, EchoFrame, pages, terminals
<1>4. /\ memory' \in Memories /\ screen_x' \in Columns /\ screen_y' \in Lines
      /\ screen_x'[t] = s.x /\ screen_y'[t] = s.y
      /\ Now' = [Now EXCEPT ![t] = Look(s)]
  BY <1>3, BecomesOneScreen
<1>5. CursorFollows'
  BY <1>1, <1>3, <1>4 DEF CursorFollows, Columns, Lines
<1>6. Inv'
  BY <1>3, <1>4, <1>5 DEF Inv, DrawsOnOwn, FrameOf
<1> QED
  BY <1>1, <1>4, <1>6, Zenon

LEMMA AtActive ==
  ASSUME Inv
  PROVE  At(EchoFrame, active) \in States /\ Now[active] = Look(At(EchoFrame, active))
<1>1. PICK t \in Terminals : t = active
  BY InvTypes
<1>2. EchoFrame = FrameOf(t)
  BY <1>1 DEF FrameOf, EchoFrame
<1> QED
  BY <1>1, <1>2, AtIsState, Zenon

LEMMA KeyKeeps ==
  ASSUME Inv, NEW c \in Glyphs \cup {NewLine}, Key(c)
  PROVE  Inv' /\ Now' = [Now EXCEPT ![active] = Private!Put(Now[active], c)]
<1>1. PICK s : s = Putc(At(EchoFrame, active), c)
  OBVIOUS
<1>2. s \in States /\ Look(s) = Private!Put(Now[active], c)
  BY <1>1, AtActive, PutcIsPut
<1>3. Echo(s)
  BY <1>1, Zenon DEF Key
<1>4. Inv' /\ Now' = [Now EXCEPT ![active] = Look(s)]
  BY <1>2, <1>3, EchoKeeps
<1> QED
  BY <1>2, <1>4, Zenon

LEMMA BackspaceKeeps ==
  ASSUME Inv, Backspace
  PROVE  Inv' /\ Now' = [Now EXCEPT ![active] = Private!Rub(Now[active])]
<1>1. PICK s : s = Removec(At(EchoFrame, active))
  OBVIOUS
<1>2. s \in States /\ Look(s) = Private!Rub(Now[active])
  BY <1>1, AtActive, RemovecIsRub
<1>3. Echo(s)
  BY <1>1, Zenon DEF Backspace
<1>4. Inv' /\ Now' = [Now EXCEPT ![active] = Look(s)]
  BY <1>2, <1>3, EchoKeeps
<1> QED
  BY <1>2, <1>4, Zenon

LEMMA ControlLKeeps ==
  ASSUME Inv, ControlL
  PROVE  Inv' /\ Now' = [Now EXCEPT ![active] = Private!Empty]
<1>1. PICK s : s = Cleared
  OBVIOUS
<1>2. s \in States /\ Look(s) = Private!Empty
  BY <1>1, ClearedIsEmpty, Zenon
<1>3. Echo(s)
  BY <1>1, Zenon DEF ControlL, Cleared
<1>4. Inv' /\ Now' = [Now EXCEPT ![active] = Look(s)]
  BY <1>2, <1>3, EchoKeeps
<1> QED
  BY <1>2, <1>4, Zenon

LEMMA VidmapKeeps ==
  ASSUME Inv, Vidmap
  PROVE  Inv' /\ Now' = Now
<1>1. DrawsOnOwn'
  BY DEF Vidmap, DrawsOnOwn, FrameOf, terminals
<1>2. CursorFollows'
  BY DEF Inv, Vidmap, CursorFollows, positions, terminals
<1>3. settled' \in BOOLEAN
  BY DEF Vidmap
<1>4. Inv'
  BY <1>1, <1>2, <1>3 DEF Inv, Vidmap, terminals
<1>5. Now' = Now
  BY DEF Vidmap, Now, positions, terminals
<1> QED
  BY <1>4, <1>5

LEMMA TickKeeps ==
  ASSUME Inv, Tick
  PROVE  Inv' /\ Now' = Now
<1>1. scheduled' \in Terminals
  BY DisplayAssumption, InvTypes DEF Tick, NextTerminal, Terminals
<1>2. DrawsOnOwn' /\ settled' \in BOOLEAN
  BY DEF Tick, DrawsOnOwn, FrameOf, MappedAtTick
<1>3. CursorFollows'
  BY DEF Inv, Tick, CursorFollows, positions
<1>4. Inv'
  BY <1>1, <1>2, <1>3 DEF Inv, Tick
<1>5. Now' = Now
  BY DEF Tick, Now, positions
<1> QED
  BY <1>4, <1>5

LEMMA StoreKeeps ==
  ASSUME Inv, NEW i \in Cells, NEW c \in Glyphs, Store(i, c)
  PROVE  Inv'
<1>1. memory' \in Memories
  <2>1. PICK f, m : f = page_table_vid_mem /\ m = memory
    OBVIOUS
  <2>2. memory' = [m EXCEPT ![f][i] = c]
    BY <2>1 DEF Store
  <2>3. m \in Memories
    BY <2>1, InvTypes
  <2>4. [m EXCEPT ![f][i] = c] \in Memories
    BY <2>3 DEF Memories
  <2> QED
    BY <2>2, <2>4
<1>2. UNCHANGED <<screen_x, screen_y, page_table_vid_mem, settled, active, scheduled, opened_before, cursor>>
  BY DEF Store, positions, pages, terminals
<1>3. CursorFollows'
  BY <1>2 DEF Inv, CursorFollows
<1>4. DrawsOnOwn'
  BY <1>2 DEF Inv, DrawsOnOwn, FrameOf
<1> QED
  BY <1>1, <1>2, <1>3, <1>4 DEF Inv

\* Every cell has a row and a column.
LEMMA CellHasPlace ==
  ASSUME NEW i \in Cells
  PROVE  \E r \in 1..NUM_ROWS, k \in 1..NUM_COLS : i = Place(r, k)
<1>1. PICK c \in Nat \ {0}, n \in Nat \ {0} : c = NUM_COLS /\ n = NUM_ROWS
  BY Sizes DEF Positive
<1> DEFINE T == {j \in Nat : \E q \in Nat, x \in 0..(c - 1) : j = c * q + x}
<1>2. 0 \in T
  <2>1. 0 \in Nat /\ 0 \in 0..(c - 1) /\ 0 = c * 0 + 0
    OBVIOUS
  <2> QED
    BY <2>1
<1>3. ASSUME NEW j \in Nat, j \in T PROVE j + 1 \in T
  <2>1. PICK q \in Nat, x \in 0..(c - 1) : j = c * q + x
    BY <1>3
  <2>2. PICK a \in Nat : a = c * q
    BY Multiples
  <2>3. CASE x + 1 < c
    <3>1. x + 1 \in 0..(c - 1) /\ j + 1 = a + (x + 1)
      BY <2>1, <2>2, <2>3
    <3> QED
      BY <2>2, <3>1
  <2>4. CASE ~(x + 1 < c)
    <3>1. j + 1 = (a + c) + 0
      BY <2>1, <2>2, <2>4
    <3>2. c * (q + 1) = a + c
      BY <2>2, Multiples
    <3>3. PICK p \in Nat, z \in 0..(c - 1) : p = q + 1 /\ z = 0
      <4>1. q + 1 \in Nat /\ 0 \in 0..(c - 1)
        OBVIOUS
      <4> QED
        BY <4>1
    <3>4. j + 1 = c * p + z
      BY <3>1, <3>2, <3>3
    <3>5. \E p1 \in Nat, x1 \in 0..(c - 1) : j + 1 = c * p1 + x1
      BY <3>4, Zenon
    <3>6. j + 1 \in Nat
      OBVIOUS
    <3> QED
      BY <3>5, <3>6, Zenon
  <2> QED
    BY <2>3, <2>4
<1> HIDE DEF T
<1>4. i \in Nat /\ i < c * n
  <2>1. c * n \in Nat
    OBVIOUS
  <2>2. Cells = 0..(c * n - 1)
    BY <1>1 DEF Cells, NCells
  <2> QED
    BY <2>1, <2>2
<1>5. i \in T
  BY <1>2, <1>3, <1>4, Induction
<1>6. PICK q \in Nat, x \in 0..(c - 1) : i = c * q + x
  BY <1>5 DEF T
<1>7. q < n
  <2>1. SUFFICES ASSUME n <= q PROVE FALSE
    OBVIOUS
  <2>2. PICK d \in Nat : q = n + d
    <3>1. q - n \in Nat /\ q = n + (q - n)
      BY <2>1
    <3> QED
      BY <3>1
  <2>3. c * q = c * n + c * d
    BY <2>2
  <2>4. c * d \in Nat /\ c * n \in Nat
    OBVIOUS
  <2> QED
    BY <1>4, <1>6, <2>3, <2>4
<1>8. PICK r, k : r = q + 1 /\ k = x + 1
  OBVIOUS
<1>9. r \in 1..NUM_ROWS /\ k \in 1..NUM_COLS /\ r - 1 = q /\ k - 1 = x
  BY <1>1, <1>7, <1>8
<1>10. Place(r, k) = i
  BY <1>1, <1>6, <1>9 DEF Place
<1> QED
  BY <1>9, <1>10

\* What a program draws on its screen.
LEMMA StoreDraws ==
  ASSUME Inv, ~LateStores, NEW i \in Cells, NEW c \in Glyphs, Store(i, c)
  PROVE  \E r \in 1..NUM_ROWS, k \in 1..NUM_COLS : Now' = [Now EXCEPT ![scheduled].rows[r][k] = c]
<1>1. PICK m \in Memories, x \in Columns, y \in Lines, shown \in Terminals, t \in Terminals :
        m = memory /\ x = screen_x /\ y = screen_y /\ shown = active /\ t = scheduled
  BY InvTypes
<1>2. PICK f \in Frames : f = FrameIf(t, shown)
  BY FramesApart
<1>3. settled
  BY DEF Store
<1>4. page_table_vid_mem = f
  BY <1>1, <1>2, <1>3 DEF Inv, DrawsOnOwn, FrameOf, FrameIf
<1>5. PICK r \in 1..NUM_ROWS, k \in 1..NUM_COLS : i = Place(r, k)
  BY CellHasPlace
<1>6. PICK frame \in [Cells -> Glyphs] : frame = m[f]
  BY DEF Memories
<1>7. PICK stored : stored = Stored(frame, r, k, c)
  OBVIOUS
<1>8. stored \in [Cells -> Glyphs] /\ RowsOf(stored) = PutAt(RowsOf(frame), r, k, c)
  BY <1>7, StoredRows
<1>9. PICK s : s = [frame |-> stored, x |-> x[t], y |-> y[t]]
  OBVIOUS
<1>10. x[t] \in 0..(NUM_COLS - 1) /\ y[t] \in 0..(NUM_ROWS - 1)
  BY DEF Columns, Lines
<1>11. s \in States /\ s.frame = stored /\ s.x = x[t] /\ s.y = y[t]
  BY <1>8, <1>9, <1>10 DEF States
<1>12. PICK m1 : m1 = memory'
  OBVIOUS
<1>13. Replaced(m, x, y, m1, x, y, FrameIf(t, shown), t, s)
  <2>1. m1 = [m EXCEPT ![f][i] = c]
    BY <1>1, <1>4, <1>12 DEF Store
  <2>2. stored = [m[f] EXCEPT ![i] = c]
    BY <1>5, <1>6, <1>7 DEF Stored
  <2>3. m1 = [m EXCEPT ![f] = stored]
    BY <2>1, <2>2 DEF Memories
  <2>4. x = [x EXCEPT ![t] = x[t]] /\ y = [y EXCEPT ![t] = y[t]]
    BY DEF Columns, Lines
  <2>5. x = [x EXCEPT ![t] = s.x] /\ y = [y EXCEPT ![t] = s.y] /\ m1 = [m EXCEPT ![FrameIf(t, shown)] = s.frame]
    BY <1>2, <1>11, <2>3, <2>4, Zenon
  <2> QED
    BY <2>5, Zenon DEF Replaced
<1>14. PICK now : now = AllScreens(m, x, y, shown)
  OBVIOUS
<1>15. AllScreens(m1, x, y, shown) = [now EXCEPT ![t] = Look(s)]
  <2>1. /\ m1 \in Memories /\ x \in Columns /\ y \in Lines
        /\ AllScreens(m1, x, y, shown) = WithScreen(AllScreens(m, x, y, shown), t, Look(s))
    BY <1>11, <1>13, OneScreenChanges
  <2> QED
    BY <1>14, <2>1, Zenon DEF WithScreen
<1>16. now[t] = Screen(RowsOf(frame), y[t] + 1, x[t] + 1)
  <2>1. now[t] = Look(StateOf(m, x, y, f, t))
    BY <1>2, <1>14 DEF AllScreens
  <2>2. PICK u : u = StateOf(m, x, y, f, t)
    OBVIOUS
  <2>3. u.frame = frame /\ u.x = x[t] /\ u.y = y[t]
    BY <1>6, <2>2 DEF StateOf
  <2>4. Look(u) = Screen(RowsOf(frame), y[t] + 1, x[t] + 1)
    BY <2>3, Zenon DEF Look
  <2> QED
    BY <2>1, <2>2, <2>4, Zenon
<1>17. Look(s) = [now[t] EXCEPT !.rows[r][k] = c]
  <2>1. Look(s) = Screen(PutAt(RowsOf(frame), r, k, c), y[t] + 1, x[t] + 1)
    BY <1>8, <1>11, Zenon DEF Look
  <2>2. PICK rows, row, col : rows = RowsOf(frame) /\ row = y[t] + 1 /\ col = x[t] + 1
    OBVIOUS
  <2>3. now[t] = [rows |-> rows, row |-> row, col |-> col]
    BY <1>16, <2>2 DEF Screen
  <2>4. Look(s) = [rows |-> [rows EXCEPT ![r][k] = c], row |-> row, col |-> col]
    BY <2>1, <2>2 DEF Screen, PutAt
  <2>5. [now[t] EXCEPT !.rows[r][k] = c] = [rows |-> [rows EXCEPT ![r][k] = c], row |-> row, col |-> col]
    BY <2>3
  <2> QED
    BY <2>4, <2>5, Zenon
<1>18. [now EXCEPT ![t].rows[r][k] = c] = [now EXCEPT ![t] = [now[t] EXCEPT !.rows[r][k] = c]]
  OBVIOUS
<1>19. Now = now /\ Now' = AllScreens(m1, x, y, shown)
  BY <1>1, <1>12, <1>14 DEF Now, Store, positions, terminals
<1>20. Now' = [now EXCEPT ![t].rows[r][k] = c]
  BY <1>15, <1>17, <1>18, <1>19, Zenon
<1>21. Now' = [Now EXCEPT ![scheduled].rows[r][k] = c]
  BY <1>1, <1>19, <1>20, Zenon
<1> QED
  BY <1>21

\* What a terminal shows when it is shown for the first time.
BannerScreen == Private!FoldLeft(Private!Put, Private!Empty, Banner)

LEMMA SwitchKeeps ==
  ASSUME Inv, NEW new \in Terminals, Switch(new)
  PROVE  /\ Inv'
         /\ Now' = [Now EXCEPT ![new] = IF opened_before[new] THEN Now[new] ELSE BannerScreen]
<1>1. PICK m \in Memories, x \in Columns, y \in Lines, shown \in Terminals :
        m = memory /\ x = screen_x /\ y = screen_y /\ shown = active
  BY InvTypes
<1>2. PICK saved : saved = [m EXCEPT ![shown] = m[VIDEO]]
  OBVIOUS
<1>3. new # shown /\ new # VIDEO /\ new \in Frames
  BY <1>1, FramesApart DEF Switch
<1>4. saved[new] = m[new]
  BY <1>2, <1>3 DEF Memories
<1>5. PICK s : s = Swapped(saved, new)
  OBVIOUS
<1>6. PICK m1, x1, y1 : m1 = memory' /\ x1 = screen_x' /\ y1 = screen_y'
  OBVIOUS
<1>7. /\ m1 = [saved EXCEPT ![VIDEO] = s.frame]
      /\ x1 = [x EXCEPT ![new] = s.x]
      /\ y1 = [y EXCEPT ![new] = s.y]
      /\ cursor' = <<s.x, s.y>>
      /\ active' = new
      /\ opened_before' = [opened_before EXCEPT ![new] = TRUE]
      /\ settled' = (settled /\ scheduled \notin {shown, new})
      /\ UNCHANGED <<page_table_vid_mem, scheduled>>
  <2>1. [memory EXCEPT ![SavedTo(active, new)] = memory[VIDEO]] = saved
    BY <1>1, <1>2 DEF SavedTo
  <2> QED
    BY <1>1, <1>5, <1>6, <2>1, Zenon DEF Switch
<1>8. PICK now : now = AllScreens(m, x, y, shown)
  OBVIOUS
<1>9. s \in States /\ Look(s) = IF opened_before[new] THEN now[new] ELSE BannerScreen
  <2>1. CASE opened_before[new]
    <3>1. s = StateOf(m, x, y, new, new)
      BY <1>1, <1>4, <1>5, <2>1, Zenon DEF Swapped, StateOf
    <3>2. s \in States
      BY <1>3, <3>1, StateTyped
    <3>3. FrameIf(new, shown) = new
      BY <1>3 DEF FrameIf
    <3>4. now[new] = Look(StateOf(m, x, y, FrameIf(new, shown), new))
      BY <1>8 DEF AllScreens
    <3> QED
      BY <2>1, <3>1, <3>2, <3>3, <3>4, Zenon
  <2>2. CASE ~opened_before[new]
    <3>1. s = FoldLeft(Putc, Cleared, Banner)
      BY <1>5, <2>2, Zenon DEF Swapped, Cleared
    <3> QED
      BY <2>2, <3>1, BannerIsBanner, Zenon DEF BannerScreen
  <2> QED
    BY <2>1, <2>2
<1>10. Replaced(saved, x, y, m1, x1, y1, VIDEO, new, s)
  BY <1>7, Zenon DEF Replaced
<1>11. Replaced([m EXCEPT ![shown] = m[VIDEO]], x, y, m1, x1, y1, VIDEO, new, s)
  BY <1>2, <1>10, Zenon
<1>12. /\ m1 \in Memories /\ x1 \in Columns /\ y1 \in Lines
       /\ AllScreens(m1, x1, y1, new) = WithScreen(AllScreens(m, x, y, shown), new, Look(s))
  BY <1>3, <1>9, <1>11, OneScreenIsShown
<1>13. Now = now /\ Now' = AllScreens(m1, x1, y1, new)
  <2>1. active' = new
    BY <1>7
  <2> QED
    BY <1>1, <1>6, <1>8, <2>1, Zenon DEF Now
<1>14. Now' = [Now EXCEPT ![new] = IF opened_before[new] THEN Now[new] ELSE BannerScreen]
  BY <1>8, <1>9, <1>12, <1>13, Zenon DEF WithScreen
<1>15. CursorFollows'
  <2>1. x1[new] = s.x /\ y1[new] = s.y
    BY <1>7 DEF Columns, Lines
  <2> QED
    BY <1>6, <1>7, <1>12, <2>1 DEF CursorFollows, Columns, Lines
<1>16. DrawsOnOwn' /\ settled' \in BOOLEAN
  <2>1. settled' => scheduled # shown /\ scheduled # new /\ settled
    BY <1>7
  <2>2. settled => page_table_vid_mem = FrameOf(scheduled)
    BY DEF Inv, DrawsOnOwn
  <2>3. settled' => FrameOf(scheduled)' = FrameOf(scheduled)
    BY <1>1, <1>7, <2>1 DEF FrameOf
  <2>4. settled' \in BOOLEAN
    BY <1>7
  <2>5. scheduled' = scheduled /\ page_table_vid_mem' = page_table_vid_mem
    BY <1>7
  <2>6. settled' => page_table_vid_mem' = FrameOf(scheduled)'
    BY <2>1, <2>2, <2>3, <2>5
  <2> QED
    BY <2>4, <2>6, <2>5 DEF DrawsOnOwn, FrameOf
<1>17. opened_before' \in [Terminals -> BOOLEAN]
  BY <1>7, InvTypes
<1>18. active' \in Terminals /\ scheduled' \in Terminals
  BY <1>7, InvTypes
<1>19. Inv'
  BY <1>6, <1>12, <1>15, <1>16, <1>17, <1>18 DEF Inv
<1> QED
  BY <1>14, <1>19

LEMMA InvNext ==
  ASSUME Inv, [Next]_vars
  PROVE  Inv'
<1>1. CASE UNCHANGED vars
  <2>1. UNCHANGED <<memory, screen_x, screen_y, cursor, active, scheduled, opened_before, settled, page_table_vid_mem>>
    BY <1>1 DEF vars, positions, pages, terminals
  <2> QED
    BY <2>1 DEF Inv, CursorFollows, DrawsOnOwn, FrameOf
<1>2. CASE \E c \in Glyphs \cup {NewLine} : Write(c) \/ Key(c)
  BY <1>2, WriteKeeps, KeyKeeps
<1>3. CASE Vidmap
  BY <1>3, VidmapKeeps
<1>4. CASE \E i \in Cells, c \in Glyphs : Store(i, c)
  BY <1>4, StoreKeeps
<1>5. CASE Tick
  BY <1>5, TickKeeps
<1>6. CASE Backspace
  BY <1>6, BackspaceKeeps
<1>7. CASE ControlL
  BY <1>7, ControlLKeeps
<1>8. CASE \E new \in Terminals : Switch(new)
  BY <1>8, SwitchKeeps
<1> QED
  BY <1>1, <1>2, <1>3, <1>4, <1>5, <1>6, <1>7, <1>8 DEF Next

LEMMA InvHolds == Spec => []Inv
<1>1. Init => Inv
  BY InitInv
<1>2. Inv /\ [Next]_vars => Inv'
  BY InvNext
<1> QED
  BY <1>1, <1>2, PTL DEF Spec

\* On a screen of any size no position is ever outside of it, and the hardware's
\* cursor is where the displayed terminal writes next, through scrolling, switches
\* and what the programs of hidden terminals write or draw, at any moment.
THEOREM CursorAlwaysFollows == Spec => []CursorFollows
<1>1. Inv => CursorFollows
  BY DEF Inv
<1> QED
  BY <1>1, InvHolds, PTL

-----------------------------------------------------------------------------
(* The refinement.                                                         *)

\* The screens as Screens names them.
PrivateScreens ==
  [t \in Terminals |-> [rows |-> Rows(t), row |-> screen_y[t] + 1, col |-> screen_x[t] + 1]]
Fresh == {t \in Terminals : ~opened_before[t]}

LEMMA PrivateIsNow == PrivateScreens = Now /\ PrivateScreens' = Now'
<1>1. ASSUME NEW t \in Terminals
      PROVE  [rows |-> Rows(t), row |-> screen_y[t] + 1, col |-> screen_x[t] + 1] =
               Look(StateOf(memory, screen_x, screen_y, FrameIf(t, active), t))
  BY DEF Rows, FrameOf, FrameIf, Look, Screen, RowsOf, Place, StateOf
<1>2. ASSUME NEW t \in Terminals
      PROVE  [rows |-> Rows(t)', row |-> screen_y'[t] + 1, col |-> screen_x'[t] + 1] =
               Look(StateOf(memory', screen_x', screen_y', FrameIf(t, active'), t))
  BY DEF Rows, FrameOf, FrameIf, Look, Screen, RowsOf, Place, StateOf
<1>3. PrivateScreens = Now
  BY <1>1, Zenon DEF PrivateScreens, Now, AllScreens
<1>4. PrivateScreens' = Now'
  BY <1>2, Zenon DEF PrivateScreens, Now, AllScreens
<1> QED
  BY <1>3, <1>4

LEMMA PrivateInit == Init => Private!Init
<1> SUFFICES ASSUME Init PROVE Private!Init
  OBVIOUS
<1>1. Inv
  BY InitInv
<1>2. 0 \in Terminals /\ NTerminals - 1 \in Terminals
  BY DisplayAssumption DEF Terminals
<1>3. ASSUME NEW t \in Terminals PROVE StateOf(memory, screen_x, screen_y, FrameIf(t, active), t) = Cleared
  <2>1. PICK f \in Frames : f = FrameIf(t, active)
    BY <1>1, InvTypes, FramesApart
  <2>2. memory[f] = Clear /\ screen_x[t] = 0 /\ screen_y[t] = 0
    BY DEF Init
  <2> QED
    BY <2>1, <2>2, Zenon DEF StateOf, Cleared
<1>4. Now = [t \in Terminals |-> Private!Empty]
  <2>1. ASSUME NEW t \in Terminals
        PROVE  Look(StateOf(memory, screen_x, screen_y, FrameIf(t, active), t)) = Private!Empty
    BY <1>3, ClearedIsEmpty, Zenon
  <2> QED
    BY <2>1, Zenon DEF Now, AllScreens
<1>5. PrivateScreens = [t \in Terminals |-> Private!Empty]
  BY <1>4, PrivateIsNow, Zenon
<1>6. Fresh = Terminals \ {0}
  BY DEF Fresh, Init
<1>7. scheduled = CHOOSE t \in Terminals : \A u \in Terminals : u <= t
  <2>1. \A u \in Terminals : u <= NTerminals - 1
    BY DisplayAssumption DEF Terminals
  <2>2. \A t \in Terminals : (\A u \in Terminals : u <= t) => t = NTerminals - 1
    BY <1>2, <2>1, DisplayAssumption DEF Terminals
  <2>3. (CHOOSE t \in Terminals : \A u \in Terminals : u <= t) = NTerminals - 1
    BY <1>2, <2>1, <2>2
  <2> QED
    BY <2>3 DEF Init
<1>8. active = 0
  BY DEF Init
<1> QED
  BY <1>5, <1>6, <1>7, <1>8, Zenon DEF Private!Init, PrivateScreens, Fresh

LEMMA FreshStays ==
  ASSUME opened_before' = opened_before
  PROVE  Fresh' = Fresh
BY DEF Fresh

LEMMA WriteIsWrite ==
  ASSUME Inv, NEW c \in Glyphs \cup {NewLine}, Write(c)
  PROVE  Private!Write
<1>1. Now' = [Now EXCEPT ![scheduled] = Private!Put(Now[scheduled], c)]
  BY WriteKeeps
<1>2. UNCHANGED <<active, scheduled, opened_before>>
  BY DEF Write, terminals
<1>3. Fresh' = Fresh
  BY <1>2, FreshStays
<1>4. PrivateScreens' = [PrivateScreens EXCEPT ![scheduled] = Private!Put(PrivateScreens[scheduled], c)]
  BY <1>1, PrivateIsNow, Zenon
<1> QED
  BY <1>2, <1>3, <1>4, Zenon DEF Private!Write, PrivateScreens, Fresh

LEMMA EchoIsType ==
  ASSUME \/ \E c \in Glyphs \cup {NewLine} : Now' = [Now EXCEPT ![active] = Private!Put(Now[active], c)]
         \/ Now' = [Now EXCEPT ![active] = Private!Rub(Now[active])]
         \/ Now' = [Now EXCEPT ![active] = Private!Empty],
         UNCHANGED <<active, scheduled, opened_before>>
  PROVE  Private!Type
<1>1. Fresh' = Fresh
  BY FreshStays
<1>2. \/ \E c \in Glyphs \cup {NewLine} :
           PrivateScreens' = [PrivateScreens EXCEPT ![active] = Private!Put(PrivateScreens[active], c)]
      \/ PrivateScreens' = [PrivateScreens EXCEPT ![active] = Private!Rub(PrivateScreens[active])]
      \/ PrivateScreens' = [PrivateScreens EXCEPT ![active] = Private!Empty]
  BY PrivateIsNow, Zenon
<1> QED
  BY <1>1, <1>2, Zenon DEF Private!Type, PrivateScreens, Fresh

LEMMA StoreIsDraw ==
  ASSUME Inv, ~LateStores, NEW i \in Cells, NEW c \in Glyphs, Store(i, c)
  PROVE  Private!Draw
<1>1. PICK r \in 1..NUM_ROWS, k \in 1..NUM_COLS : Now' = [Now EXCEPT ![scheduled].rows[r][k] = c]
  BY StoreDraws
<1>2. UNCHANGED <<active, scheduled, opened_before>>
  BY DEF Store, terminals
<1>3. Fresh' = Fresh
  BY <1>2, FreshStays
<1>4. PrivateScreens' = [PrivateScreens EXCEPT ![scheduled].rows[r][k] = c]
  BY <1>1, PrivateIsNow, Zenon
<1>5. \E row \in 1..NUM_ROWS, col \in 1..NUM_COLS, glyph \in Glyphs :
        PrivateScreens' = [PrivateScreens EXCEPT ![scheduled].rows[row][col] = glyph]
  BY <1>4
<1> QED
  BY <1>2, <1>3, <1>5, Zenon DEF Private!Draw, PrivateScreens, Fresh

LEMMA SwitchIsShow ==
  ASSUME Inv, NEW new \in Terminals, Switch(new)
  PROVE  Private!Show
<1>1. Now' = [Now EXCEPT ![new] = IF opened_before[new] THEN Now[new] ELSE BannerScreen]
  BY SwitchKeeps
<1>2. /\ active' = new /\ scheduled' = scheduled
      /\ opened_before' = [opened_before EXCEPT ![new] = TRUE]
  BY DEF Switch
<1>3. Fresh' = Fresh \ {new}
  BY <1>2, InvTypes DEF Fresh
<1>4. PrivateScreens' = IF new \in Fresh THEN [PrivateScreens EXCEPT ![new] = BannerScreen]
                        ELSE PrivateScreens
  <2>1. new \in Fresh <=> ~opened_before[new]
    BY DEF Fresh
  <2>2. CASE opened_before[new]
    <3>1. Now = [Now EXCEPT ![new] = Now[new]]
      BY DEF Now, AllScreens
    <3> QED
      BY <1>1, <2>1, <2>2, <3>1, PrivateIsNow, Zenon
  <2>3. CASE ~opened_before[new]
    BY <1>1, <2>1, <2>3, PrivateIsNow, Zenon
  <2> QED
    BY <2>2, <2>3
<1> QED
  BY <1>2, <1>3, <1>4, Zenon DEF Private!Show, PrivateScreens, Fresh, BannerScreen

LEMMA StutterOrTurn ==
  ASSUME Inv, Inv', Now' = Now, active' = active, opened_before' = opened_before
  PROVE  Private!Turn
<1>1. Fresh' = Fresh
  BY FreshStays
<1>2. PrivateScreens' = PrivateScreens
  BY PrivateIsNow, Zenon
<1>3. scheduled' \in Terminals
  BY DEF Inv
<1> QED
  BY <1>1, <1>2, <1>3, Zenon DEF Private!Turn, PrivateScreens, Fresh

LEMMA ScreensStep ==
  ASSUME Inv, ~LateStores, [Next]_vars
  PROVE  [Private!Next]_(Private!vars)
<1>1. CASE UNCHANGED vars
  <2>1. Now' = Now /\ active' = active /\ opened_before' = opened_before
    BY <1>1 DEF vars, positions, terminals, Now
  <2>2. Inv'
    BY InvNext
  <2> QED
    BY <2>1, <2>2, StutterOrTurn DEF Private!Next
<1>2. CASE \E c \in Glyphs \cup {NewLine} : Write(c) \/ Key(c)
  <2>1. PICK c \in Glyphs \cup {NewLine} : Write(c) \/ Key(c)
    BY <1>2
  <2>2. CASE Write(c)
    BY <2>2, WriteIsWrite DEF Private!Next
  <2>3. CASE Key(c)
    <3>1. Now' = [Now EXCEPT ![active] = Private!Put(Now[active], c)]
      BY <2>3, KeyKeeps
    <3>2. UNCHANGED <<active, scheduled, opened_before>>
      BY <2>3 DEF Key, Echo, terminals
    <3> QED
      BY <3>1, <3>2, EchoIsType DEF Private!Next
  <2> QED
    BY <2>1, <2>2, <2>3
<1>3. CASE Vidmap
  <2>1. Inv' /\ Now' = Now
    BY <1>3, VidmapKeeps
  <2>2. active' = active /\ opened_before' = opened_before
    BY <1>3 DEF Vidmap, terminals
  <2> QED
    BY <2>1, <2>2, StutterOrTurn DEF Private!Next
<1>4. CASE \E i \in Cells, c \in Glyphs : Store(i, c)
  BY <1>4, StoreIsDraw DEF Private!Next
<1>5. CASE Tick
  <2>1. Inv' /\ Now' = Now
    BY <1>5, TickKeeps
  <2>2. active' = active /\ opened_before' = opened_before
    BY <1>5 DEF Tick
  <2> QED
    BY <2>1, <2>2, StutterOrTurn DEF Private!Next
<1>6. CASE Backspace
  <2>1. Now' = [Now EXCEPT ![active] = Private!Rub(Now[active])]
    BY <1>6, BackspaceKeeps
  <2>2. UNCHANGED <<active, scheduled, opened_before>>
    BY <1>6 DEF Backspace, Echo, terminals
  <2> QED
    BY <2>1, <2>2, EchoIsType DEF Private!Next
<1>7. CASE ControlL
  <2>1. Now' = [Now EXCEPT ![active] = Private!Empty]
    BY <1>7, ControlLKeeps
  <2>2. UNCHANGED <<active, scheduled, opened_before>>
    BY <1>7 DEF ControlL, Echo, terminals
  <2> QED
    BY <2>1, <2>2, EchoIsType DEF Private!Next
<1>8. CASE \E new \in Terminals : Switch(new)
  BY <1>8, SwitchIsShow DEF Private!Next
<1> QED
  BY <1>1, <1>2, <1>3, <1>4, <1>5, <1>6, <1>7, <1>8 DEF Next

\* If a program does not store between a terminal switch and the next tick, one
\* video memory with its saved copies gives every terminal a screen of its own:
\* each step prints on, draws on, types on or shows one screen as Screens says,
\* and leaves all others as they are, whatever their size.
THEOREM ScreensImplemented ==
  ASSUME ~LateStores
  PROVE  Spec => ImplementsScreens
<1>1. Init => Private!Init
  BY PrivateInit
<1>2. Inv /\ [Next]_vars => [Private!Next]_(Private!vars)
  BY ScreensStep
<1> QED
  BY <1>1, <1>2, InvHolds, PTL DEF Spec, ImplementsScreens, Private!Spec
=============================================================================
