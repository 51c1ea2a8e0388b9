----------------------------- MODULE GridProofs -----------------------------
(***************************************************************************)
(* Proofs about what is on the screen.                                     *)
(*                                                                         *)
(* 1. Cursor, for every set of screen sizes and every count.  CursorKept   *)
(*    is not inductive alone: an action needs to know that the screen has  *)
(*    a line and a column, that the margins and places are numbers and     *)
(*    that a mode is on or off.  OutputStaysInRegion, which is about the   *)
(*    next action rather than this one, follows from the rest.             *)
(* 2. RowRanges, for rows of any width.  That the ranges stand for the     *)
(*    columns is inductive once it is said of each column and each link    *)
(*    (RangesInv), of ranges that are sorted and apart.  What the loops    *)
(*    that merge and erase compute is shown for the first k ranges, by     *)
(*    induction on k.                                                      *)
(* 3. SixelDecoder, for every largest image and every aspect ratio.  The   *)
(*    pixels are in the image because the room for a sixel is allocated    *)
(*    before it is drawn: the invariant (DecoderInv) is about the rows     *)
(*    that the next sixel needs, and about where they no longer fit once   *)
(*    the aspect ratio was changed below the first row.                    *)
(***************************************************************************)
EXTENDS Cursor, RowRanges, SixelDecoder, NumberLemmas, SequenceTheorems, TLAPS

(* 1. The cursor.                                                          *)

Place == [row : Nat, col : Nat, lcf : BOOLEAN]

CursorTypes ==
  /\ size \in Sizes
  /\ grid \in Grids
  /\ cursor \in [Grids -> Place]
  /\ saved \in [Grids -> Place]
  /\ curRow \in [Grids -> Nat]
  /\ region \in Nat \X Nat
  /\ origin \in BOOLEAN /\ wrap \in BOOLEAN /\ astray \in BOOLEAN

(* The inductive invariant.                                                *)
CursorInv == CursorTypes /\ CursorConsistent /\ OriginKeepsRegion

(* A screen has at least a line and two columns.                           *)
LEMMA SizeOfScreen ==
  ASSUME NEW s \in Sizes
  PROVE  s[1] \in Nat \ {0} /\ s[2] \in Nat \ {0, 1}
BY CursorAssumption

(* What the invariant says of the active cursor, in numbers.               *)
LEMMA Numbers ==
  ASSUME CursorInv
  PROVE  /\ R \in Nat /\ R > 0 /\ C \in Nat /\ C > 1
         /\ Here \in Place
         /\ 0 <= Here.row /\ Here.row < R /\ 0 <= Here.col /\ Here.col < C
         /\ Here.lcf => Here.col = C - 1
         /\ curRow[grid] = Here.row
         /\ region[1] \in Nat /\ region[2] \in Nat
         /\ region[1] < region[2] /\ region[2] <= R
         /\ origin /\ ~(region[1] <= Here.row /\ Here.row < region[2]) => astray
<1>1. R \in Nat /\ R > 0 /\ C \in Nat /\ C > 1
  BY SizeOfScreen DEF CursorInv, CursorTypes, R, C
<1>2. Here \in Place /\ PlaceOK(Here) /\ curRow[grid] = Here.row
  BY DEF CursorInv, CursorTypes, CursorConsistent, Here
<1>3. /\ Here.row \in Nat /\ Here.col \in Nat
      /\ Here.row < R /\ Here.col < C
      /\ Here.lcf => Here.col = C - 1
  BY <1>1, <1>2 DEF PlaceOK, Rows, Cols, Place
<1>4. /\ region[1] \in Nat /\ region[2] \in Nat
      /\ region[1] < region[2] /\ region[2] <= R
  BY <1>1 DEF CursorInv, CursorTypes, CursorConsistent, Rows
<1>5. origin /\ ~(region[1] <= Here.row /\ Here.row < region[2]) => astray
  BY DEF CursorInv, OriginKeepsRegion, InRegion
<1>. QED  BY <1>1, <1>2, <1>3, <1>4, <1>5

(* An action that puts the active cursor on a cell of the screen, with its *)
(* row pointer, keeps the invariant, if in origin mode the line is in the  *)
(* margins or the cursor is astray already.                                *)
LEMMA PutInv ==
  ASSUME CursorInv,
         NEW row \in Rows, NEW col \in Cols, NEW lcf \in BOOLEAN,
         lcf => col = C - 1,
         cursor' = [cursor EXCEPT ![grid] = At(row, col, lcf)],
         curRow' = [curRow EXCEPT ![grid] = row],
         UNCHANGED <<size, grid>>,
         saved' = saved \/ saved' = [saved EXCEPT ![grid] = Here],
         origin' \in BOOLEAN, wrap' \in BOOLEAN,
         region' \in Nat \X Nat,
         region'[1] \in Rows, region'[2] \in 1 .. R, region'[1] < region'[2],
         \/ MayStray
         \/ Settled /\ (origin' /\ ~(region'[1] <= row /\ row < region'[2]) => astray)
  PROVE  CursorInv'
<1>. DEFINE c == At(row, col, lcf)
<1>0. R \in Nat /\ C \in Nat
  BY Numbers
<1>1. /\ c \in Place /\ c.row = row /\ c.col = col /\ c.lcf = lcf
      /\ R' = R /\ C' = C /\ Rows' = Rows /\ Cols' = Cols
  BY <1>0 DEF At, Place, R, C, Rows, Cols
<1>. HIDE DEF c
<1>2. /\ cursor' \in [Grids -> Place] /\ curRow' \in [Grids -> Nat]
      /\ saved' \in [Grids -> Place] /\ grid \in Grids
      /\ \A g \in Grids : cursor'[g] = IF g = grid THEN c ELSE cursor[g]
      /\ \A g \in Grids : curRow'[g] = IF g = grid THEN row ELSE curRow[g]
      /\ \A g \in Grids : saved'[g] = saved[g] \/ saved'[g] = cursor[grid]
  BY <1>0, <1>1 DEF CursorInv, CursorTypes, Rows, Here, c
<1>3. CursorTypes'
  BY <1>2 DEF CursorInv, CursorTypes, MayStray, Settled, Strays
<1>4. CursorConsistent'
  <2>1. \A x : PlaceOK(x) => (x.row \in Rows' /\ x.col \in Cols' /\ x.lcf \in BOOLEAN
                              /\ (x.lcf => x.col = C' - 1))
    BY <1>1 DEF PlaceOK
  <2>2. PlaceOK(c)
    BY <1>1 DEF PlaceOK
  <2>3. \A g \in Grids : PlaceOK(cursor[g]) /\ PlaceOK(saved[g]) /\ curRow[g] = cursor[g].row
    BY DEF CursorInv, CursorConsistent
  <2>4. \A g \in Grids : /\ PlaceOK(cursor'[g]) /\ PlaceOK(saved'[g])
                         /\ curRow'[g] = cursor'[g].row
    BY <1>1, <1>2, <2>2, <2>3
  <2>5. \A g \in Grids : /\ PlaceOK(cursor[g])' /\ PlaceOK(saved[g])'
                         /\ (curRow[g] = cursor[g].row)'
    BY <2>1, <2>4 DEF PlaceOK
  <2>. QED  BY <1>1, <2>5 DEF CursorConsistent
<1>5. OriginKeepsRegion'
  <2>1. cursor'[grid'] = c /\ cursor'[grid'].row = row
    BY <1>1, <1>2
  <2>2. astray' \/ ~(origin' /\ ~(region'[1] <= row /\ row < region'[2]))
    BY <2>1 DEF MayStray, Settled, Strays
  <2>. QED  BY <2>1, <2>2 DEF OriginKeepsRegion, InRegion, Here
<1>. QED  BY <1>3, <1>4, <1>5 DEF CursorInv

(* The same for the steps that leave modes and margins alone.              *)
LEMMA StepInv ==
  ASSUME CursorInv, KeepRest,
         NEW row \in Rows, NEW col \in Cols, NEW lcf \in BOOLEAN,
         lcf => col = C - 1,
         cursor' = [cursor EXCEPT ![grid] = At(row, col, lcf)],
         curRow' = [curRow EXCEPT ![grid] = row],
         origin /\ ~(region[1] <= row /\ row < region[2]) => astray
  PROVE  CursorInv'
<1>1. /\ UNCHANGED <<size, grid>> /\ saved' = saved /\ region' = region
      /\ origin' = origin /\ wrap' = wrap /\ Settled
  BY DEF KeepRest, modes
<1>2. /\ origin' \in BOOLEAN /\ wrap' \in BOOLEAN /\ region' \in Nat \X Nat
      /\ region'[1] \in Rows /\ region'[2] \in 1 .. R /\ region'[1] < region'[2]
  BY <1>1 DEF CursorInv, CursorTypes, CursorConsistent
<1>. QED  BY <1>1, <1>2, PutInv

(* term_cursor_to(), called by a control function.                         *)
LEMMA MovesInv ==
  ASSUME CursorInv, NEW row \in Rows, NEW col \in Cols,
         Moves(row, col), KeepRest,
         origin /\ ~(region[1] <= row /\ row < region[2]) => astray
  PROVE  CursorInv'
BY StepInv DEF Moves

(* A move in the line.                                                     *)
LEMMA InLineInv ==
  ASSUME CursorInv, NEW col \in Cols, NEW lcf \in BOOLEAN,
         lcf => col = C - 1,
         MovesInLine(col, lcf), KeepRest
  PROVE  CursorInv'
<1>1. /\ Here \in Place /\ Here.row \in Rows /\ curRow[grid] = Here.row
      /\ origin /\ ~(region[1] <= Here.row /\ Here.row < region[2]) => astray
  BY Numbers DEF Rows, Place
<1>2. curRow' = [curRow EXCEPT ![grid] = Here.row]
  BY <1>1 DEF MovesInLine, CursorInv, CursorTypes
<1>. QED  BY <1>1, <1>2, StepInv DEF MovesInLine

(* Where a line wraps to: the next line, or the same at the end of the     *)
(* margins, where the screen scrolls.                                      *)
LEMMA WrapStays ==
  ASSUME CursorInv, NEW c \in Place, c.row \in Rows,
         origin /\ ~(region[1] <= c.row /\ c.row < region[2]) => astray
  PROVE  /\ RowAfterWrap(c) \in Rows
         /\ origin /\ ~(region[1] <= RowAfterWrap(c) /\ RowAfterWrap(c) < region[2])
              => astray
         /\ region[1] <= c.row /\ c.row < region[2]
              => region[1] <= RowAfterWrap(c) /\ RowAfterWrap(c) < region[2]
<1>1. c.row \in Nat /\ c.row < R
  BY Numbers DEF Rows, Place
<1>. DEFINE r == c.row
            w == RowAfterWrap(c)
<1>2. w = IF r = region[2] - 1 THEN r ELSE IF r + 1 < R - 1 THEN r + 1 ELSE R - 1
  BY DEF RowAfterWrap, Lower
<1>. HIDE DEF r, w
<1>3. r \in Nat /\ r < R
  BY <1>1 DEF r
<1>4. /\ R \in Nat /\ R > 0 /\ region[1] \in Nat /\ region[2] \in Nat
      /\ region[1] < region[2] /\ region[2] <= R
  BY Numbers
<1>5. w \in Nat /\ w < R
  BY <1>2, <1>3, <1>4
<1>6. region[1] <= r /\ r < region[2] => region[1] <= w /\ w < region[2]
  BY <1>2, <1>3, <1>4
<1>. QED  BY <1>4, <1>5, <1>6 DEF r, w, Rows

(* A printed character leaves the cursor on the screen, with the last      *)
(* column flag in the last column only, and the row pointer with it.       *)
LEMMA PrintedPlace ==
  ASSUME CursorInv, NEW c \in Place,
         c.row = Here.row, c.col \in Cols, c.lcf => c.col = C - 1,
         NEW width \in 1 .. 2
  PROVE  \E row \in Rows, col \in Cols, lcf \in BOOLEAN :
           /\ Printed(c, width) = At(row, col, lcf)
           /\ lcf => col = C - 1
           /\ PointerAfter(c, width) = row
           /\ origin /\ ~(region[1] <= row /\ row < region[2]) => astray
           /\ region[1] <= Here.row /\ Here.row < region[2]
                => region[1] <= row /\ row < region[2]
<1>. DEFINE wraps == c.lcf /\ wrap
            first == IF wraps THEN Wrapped(c) ELSE c
            fits == wrap => first.col + width <= C
            from == IF fits THEN first ELSE Wrapped(first)
            Stays(row) ==
              /\ row \in Rows
              /\ origin /\ ~(region[1] <= row /\ row < region[2]) => astray
              /\ region[1] <= Here.row /\ Here.row < region[2]
                   => region[1] <= row /\ row < region[2]
            pointer == IF wraps THEN PointerAfterWrap(c, curRow[grid]) ELSE curRow[grid]
<1>1. /\ R \in Nat /\ R > 0 /\ C \in Nat /\ C > 1 /\ Here.row \in Rows
      /\ curRow[grid] = Here.row /\ wrap \in BOOLEAN
      /\ Stays(Here.row)
  BY Numbers DEF Rows, Place, CursorInv, CursorTypes
<1>2. ASSUME NEW p \in Place, Stays(p.row)
      PROVE  Wrapped(p) \in Place /\ Wrapped(p).col = 0 /\ ~Wrapped(p).lcf
             /\ Wrapped(p).row = RowAfterWrap(p) /\ Stays(RowAfterWrap(p))
  <2>1. Stays(RowAfterWrap(p))
    BY <1>2, WrapStays
  <2>2. RowAfterWrap(p) \in Nat
    BY <1>1, <2>1 DEF Rows
  <2>. QED  BY <2>1, <2>2 DEF Wrapped, At, Place
<1>3. c.row \in Nat /\ c.col \in Nat /\ c.lcf \in BOOLEAN
  BY DEF Place
<1>. HIDE DEF Stays
<1>4. first \in Place /\ Stays(first.row) /\ pointer = first.row
      /\ (first.lcf => first.col = C - 1) /\ (first.lcf => ~wrap) /\ first.col \in Cols
  <2>1. CASE wraps
    <3>1. first = Wrapped(c) /\ pointer = RowAfterWrap(c)
      BY <2>1 DEF PointerAfterWrap
    <3>2. 0 \in Cols
      BY <1>1 DEF Cols
    <3>. HIDE DEF first, pointer
    <3>. QED  BY <1>1, <1>2, <3>1, <3>2
  <2>2. CASE ~wraps
    <3>1. first = c /\ pointer = curRow[grid]
      BY <2>2
    <3>. HIDE DEF first, pointer
    <3>. QED  BY <1>1, <1>3, <2>2, <3>1
  <2>. QED  BY <2>1, <2>2
<1>5. PointerAfter(c, width)
        = IF wrap /\ first.col + width > C THEN RowAfterWrap(first) ELSE pointer
  BY DEF PointerAfter, PointerAfterWrap
<1>6. Printed(c, width) = IF from.col + width >= C THEN At(from.row, C - 1, TRUE)
                          ELSE At(from.row, from.col + width, from.lcf)
  BY DEF Printed
<1>. HIDE DEF first, pointer
<1>7. from \in Place /\ Stays(from.row) /\ PointerAfter(c, width) = from.row
      /\ (from.lcf => from.col = C - 1) /\ from.col \in Cols
  <2>1. first.col \in Nat
    BY <1>4 DEF Place
  <2>2. CASE fits
    <3>1. ~(wrap /\ first.col + width > C)
      BY <1>1, <2>1, <2>2
    <3>. QED  BY <1>4, <1>5, <2>2, <3>1
  <2>3. CASE ~fits
    <3>1. wrap /\ first.col + width > C
      BY <1>1, <2>1, <2>3
    <3>2. 0 \in Cols
      BY <1>1 DEF Cols
    <3>. QED  BY <1>2, <1>4, <1>5, <2>3, <3>1, <3>2
  <2>. QED  BY <2>2, <2>3
<1>. HIDE DEF from
<1>8. from.col \in Nat /\ from.col < C /\ from.lcf \in BOOLEAN /\ from.row \in Rows
  BY <1>1, <1>7 DEF Place, Cols, Stays
<1>9. CASE from.col + width >= C
  <2>1. C - 1 \in Cols
    BY <1>1 DEF Cols
  <2>. QED  BY <1>6, <1>7, <1>8, <1>9, <2>1 DEF Stays
<1>10. CASE ~(from.col + width >= C)
  <2>1. from.col + width \in Cols
    BY <1>1, <1>8, <1>10 DEF Cols
  <2>2. ~from.lcf
    BY <1>1, <1>7, <1>8, <1>10
  <2>. QED  BY <1>6, <1>7, <1>8, <1>10, <2>1, <2>2 DEF Stays
<1>. QED  BY <1>9, <1>10

(* Printing keeps the invariant.                                           *)
LEMMA PrintsInv ==
  ASSUME CursorInv, NEW c \in Place,
         c.row = Here.row, c.col \in Cols, c.lcf => c.col = C - 1,
         NEW width \in 1 .. 2, Prints(c, width)
  PROVE  CursorInv'
<1>1. PICK row \in Rows, col \in Cols, lcf \in BOOLEAN :
        /\ Printed(c, width) = At(row, col, lcf)
        /\ lcf => col = C - 1
        /\ PointerAfter(c, width) = row
        /\ origin /\ ~(region[1] <= row /\ row < region[2]) => astray
  BY PrintedPlace
<1>2. /\ cursor' = [cursor EXCEPT ![grid] = At(row, col, lcf)]
      /\ curRow' = [curRow EXCEPT ![grid] = row]
      /\ KeepRest
  BY <1>1 DEF Prints
<1>. QED  BY <1>1, <1>2, StepInv

LEMMA PrintingInv ==
  ASSUME CursorInv, Printing
  PROVE  CursorInv'
<1>1. /\ Here \in Place /\ Here.col \in Cols
      /\ Here.row \in Nat /\ C \in Nat
  BY Numbers DEF Cols, Place
<1>2. ASSUME NEW width \in 1 .. 2, Put(width)
      PROVE  CursorInv'
  <2>1. Prints(Here, width)
    BY <1>2 DEF Put
  <2>2. Here.lcf => Here.col = C - 1
    BY Numbers
  <2>. QED  BY <1>1, <2>1, <2>2, PrintsInv
<1>3. ASSUME NEW col \in Cols, NEW width \in 1 .. 2, Combine(col, width)
      PROVE  CursorInv'
  <2>. DEFINE c == At(Here.row, col, FALSE)
  <2>1. col \in Nat
    BY <1>1 DEF Cols
  <2>2. c \in Place /\ c.row = Here.row /\ c.col = col /\ c.lcf = FALSE
    BY <1>1, <2>1 DEF At, Place
  <2>3. Prints(c, width)
    BY <1>3 DEF Combine
  <2>. HIDE DEF c
  <2>. QED  BY <2>2, <2>3, PrintsInv
<1>. QED  BY <1>2, <1>3 DEF Printing

(* The lines that a move up or down, a linefeed, a reverse linefeed and a  *)
(* backspace lead to: lines of the screen, and of the margins if the       *)
(* cursor is between them already; RelToAbs stays between them always.     *)
LEMMA RowsOfMoves ==
  ASSUME CursorInv
  PROVE  /\ \A n \in Counts : 
              /\ UpBy(n) \in Rows /\ (InRegion(Here.row) \/ ~origin => InRegion(UpBy(n)) \/ ~origin)
              /\ DownBy(n) \in Rows /\ (InRegion(Here.row) \/ ~origin => InRegion(DownBy(n)) \/ ~origin)
         /\ RowFed \in Rows /\ (InRegion(Here.row) => InRegion(RowFed))
         /\ RowReversed \in Rows /\ (InRegion(Here.row) => InRegion(RowReversed))
         /\ RowBack \in Rows /\ (InRegion(Here.row) => InRegion(RowBack))
         /\ \A row \in Rows : RelToAbs(row) \in Rows /\ (origin => InRegion(RelToAbs(row)))
<1>. DEFINE h == Here.row
            top == region[1]
            bottom == region[2]
<1>1. /\ R \in Nat /\ R > 0 /\ h \in Nat /\ h < R
      /\ top \in Nat /\ bottom \in Nat /\ top < bottom /\ bottom <= R
      /\ origin \in BOOLEAN
  BY Numbers DEF CursorInv, CursorTypes, Place
<1>2. 1 \in Counts /\ Counts \subseteq Nat
  BY CursorAssumption DEF Counts
<1>. HIDE DEF h
<1>3. \A n \in Nat : n > 0 =>
        /\ UpBy(n) \in Rows /\ DownBy(n) \in Rows
        /\ InRegion(h) \/ ~origin => InRegion(UpBy(n)) \/ ~origin
        /\ InRegion(h) \/ ~origin => InRegion(DownBy(n)) \/ ~origin
  <2>. SUFFICES ASSUME NEW n \in Nat, n > 0
       PROVE  /\ UpBy(n) \in Rows /\ DownBy(n) \in Rows
              /\ InRegion(h) \/ ~origin => InRegion(UpBy(n)) \/ ~origin
              /\ InRegion(h) \/ ~origin => InRegion(DownBy(n)) \/ ~origin
    OBVIOUS
  <2>1. /\ UpBy(n) = h - Lower(h - (IF origin THEN top ELSE 0), n)
        /\ DownBy(n) = h + Lower((IF origin THEN bottom ELSE R) - h - 1, n)
    BY DEF UpBy, DownBy, h
  <2>2. CASE origin
    <3>1. UpBy(n) \in Rows /\ (InRegion(h) => InRegion(UpBy(n)))
      BY <1>1, <2>1, <2>2 DEF Lower, Rows, InRegion
    <3>2. DownBy(n) \in Rows /\ (InRegion(h) => InRegion(DownBy(n)))
      BY <1>1, <2>1, <2>2 DEF Lower, Rows, InRegion
    <3>. QED  BY <2>2, <3>1, <3>2
  <2>3. CASE ~origin
    BY <1>1, <2>1, <2>3 DEF Lower, Rows
  <2>. QED  BY <2>2, <2>3
<1>4. RowFed \in Rows /\ (InRegion(h) => InRegion(RowFed))
  <2>1. RowFed = IF h = bottom - 1 THEN h ELSE h + Lower((IF origin THEN bottom ELSE R) - h - 1, 1)
    BY DEF RowFed, DownBy, h
  <2>. QED  BY <1>1, <2>1 DEF Lower, Rows, InRegion
<1>5. RowReversed \in Rows /\ (InRegion(h) => InRegion(RowReversed))
  <2>1. RowReversed = IF h = top THEN h ELSE h - Lower(h - (IF origin THEN top ELSE 0), 1)
    BY DEF RowReversed, UpBy, h
  <2>. QED  BY <1>1, <2>1 DEF Lower, Rows, InRegion
<1>6. RowBack \in Rows /\ (InRegion(h) => InRegion(RowBack))
  <2>1. RowBack = IF h <= top THEN h ELSE h - 1
    BY DEF RowBack, StopsBack, h
  <2>. QED  BY <1>1, <2>1 DEF Rows, InRegion
<1>7. \A row \in Rows : RelToAbs(row) \in Rows /\ (origin => InRegion(RelToAbs(row)))
  BY <1>1 DEF RelToAbs, Lower, Rows, InRegion
<1>8. \A n \in Counts : n \in Nat /\ n > 0
  BY CursorAssumption DEF Counts
<1>. QED  BY <1>3, <1>4, <1>5, <1>6, <1>7, <1>8 DEF h

(* A cursor that stays is one that is put where it is.                     *)
LEMMA HereUnmoved ==
  ASSUME CursorInv
  PROVE  cursor = [cursor EXCEPT ![grid] = At(Here.row, Here.col, Here.lcf)]
<1>1. Here \in Place /\ cursor \in [Grids -> Place] /\ grid \in Grids
  BY DEF CursorInv, CursorTypes, Here
<1>2. At(Here.row, Here.col, Here.lcf) = Here
  BY <1>1 DEF At, Place
<1>. QED  BY <1>1, <1>2 DEF Here

(* Moves of the cursor, the linefeeds, backspaces and tabs, and the edits  *)
(* of lines.                                                               *)
LEMMA MoveInv ==
  ASSUME CursorInv, NEW row \in Rows, NEW col \in Cols,
         Moves(row, col), KeepRest,
         InRegion(Here.row) \/ ~origin => InRegion(row) \/ ~origin
  PROVE  CursorInv'
<1>1. origin /\ ~(region[1] <= row /\ row < region[2]) => astray
  BY Numbers DEF InRegion
<1>. QED  BY <1>1, MovesInv

LEMMA MovementInv ==
  ASSUME CursorInv, Movement
  PROVE  CursorInv'
<1>1. /\ R \in Nat /\ R > 0 /\ C \in Nat /\ C > 1
      /\ Here.row \in Nat /\ Here.col \in Nat /\ Here.lcf \in BOOLEAN
      /\ Here.row < R /\ Here.col < C
  BY Numbers DEF Place
<1>2. /\ Here.row \in Rows /\ Here.col \in Cols /\ 0 \in Cols /\ C - 1 \in Cols
  BY <1>1 DEF Rows, Cols
<1>3. Here.lcf => Here.col = C - 1
  BY Numbers
<1>4. \A n \in Counts : n \in Nat
  BY CursorAssumption DEF Counts
<1>5. ASSUME NEW n \in Counts,
             CursorUp(n) \/ CursorDown(n) \/ NextLine(n) \/ PreviousLine(n)
      PROVE  CursorInv'
  <2>1. /\ UpBy(n) \in Rows /\ DownBy(n) \in Rows
        /\ InRegion(Here.row) \/ ~origin => InRegion(UpBy(n)) \/ ~origin
        /\ InRegion(Here.row) \/ ~origin => InRegion(DownBy(n)) \/ ~origin
    BY RowsOfMoves
  <2>2. KeepRest /\ \E col \in Cols : Moves(UpBy(n), col) \/ Moves(DownBy(n), col)
    BY <1>2, <1>5 DEF CursorUp, CursorDown, NextLine, PreviousLine
  <2>. QED  BY <2>1, <2>2, MoveInv
<1>6. ASSUME NEW n \in Counts, CursorLeft(n) \/ CursorRight(n)
      PROVE  CursorInv'
  <2>1. /\ Here.col - Lower(Here.col, n) \in Cols
        /\ Here.col + Lower(C - Here.col - 1, n) \in Cols
    BY <1>1, <1>4 DEF Lower, Cols
  <2>2. KeepRest /\ \E col \in Cols : MovesInLine(col, FALSE)
    BY <1>6, <2>1 DEF CursorLeft, CursorRight
  <2>. QED  BY <2>2, InLineInv
<1>7. ASSUME CarriageReturn \/ Edit
      PROVE  CursorInv'
  <2>1. KeepRest /\ \E col \in Cols : MovesInLine(col, FALSE)
    BY <1>2, <1>7 DEF CarriageReturn, Edit
  <2>. QED  BY <2>1, InLineInv
<1>8. ASSUME NEW row \in Rows, NEW col \in Cols, CursorTo(row, col)
      PROVE  CursorInv'
  <2>1. RelToAbs(row) \in Rows /\ (origin => InRegion(RelToAbs(row)))
    BY RowsOfMoves
  <2>2. Moves(RelToAbs(row), col) /\ KeepRest
    BY <1>8 DEF CursorTo
  <2>. QED  BY <2>1, <2>2, MoveInv
<1>9. ASSUME NEW col \in Cols, CursorCol(col) \/ BackTab(col) \/ Tab(col)
      PROVE  CursorInv'
  <2>1. CASE CursorCol(col) \/ BackTab(col)
    BY <2>1, InLineInv DEF CursorCol, BackTab
  <2>2. CASE Tab(col)
    <3>1. MovesInLine(col, Here.lcf) /\ KeepRest /\ (col > Here.col \/ col = C - 1)
      BY <2>2 DEF Tab
    <3>2. Here.lcf => col = C - 1
      BY <1>1, <1>3, <3>1 DEF Cols
    <3>. QED  BY <1>1, <3>1, <3>2, InLineInv
  <2>. QED  BY <1>9, <2>1, <2>2
<1>10. ASSUME Linefeed
       PROVE  CursorInv'
  <2>1. KeepRest /\ (MovesInLine(Here.col, FALSE) \/ Moves(RowFed, Here.col))
    BY <1>10 DEF Linefeed
  <2>2. CASE MovesInLine(Here.col, FALSE)
    BY <1>2, <2>1, <2>2, InLineInv
  <2>3. CASE Moves(RowFed, Here.col)
    <3>1. RowFed \in Rows /\ (InRegion(Here.row) => InRegion(RowFed))
      BY RowsOfMoves
    <3>. QED  BY <1>2, <2>1, <2>3, <3>1, MoveInv
  <2>. QED  BY <2>1, <2>2, <2>3
<1>11. ASSUME ReverseIndex
       PROVE  CursorInv'
  <2>1. KeepRest /\ (MovesInLine(Here.col, Here.lcf) \/ Moves(RowReversed, Here.col))
    BY <1>11 DEF ReverseIndex
  <2>2. CASE MovesInLine(Here.col, Here.lcf)
    BY <1>1, <1>2, <1>3, <2>1, <2>2, InLineInv
  <2>3. CASE Moves(RowReversed, Here.col)
    <3>1. RowReversed \in Rows /\ (InRegion(Here.row) => InRegion(RowReversed))
      BY RowsOfMoves
    <3>. QED  BY <1>2, <2>1, <2>3, <3>1, MoveInv
  <2>. QED  BY <2>1, <2>2, <2>3
<1>12. ASSUME NEW back \in BOOLEAN, Backspace(back)
       PROVE  CursorInv'
  <2>1. Here.col - Lower(Here.col, 1) \in Cols
    BY <1>1 DEF Lower, Cols
  <2>2. KeepRest
    BY <1>12 DEF Backspace
  <2>3. \/ \E col \in Cols : MovesInLine(col, FALSE)
        \/ UNCHANGED <<cursor, curRow>>
        \/ Moves(RowBack, C - 1)
    BY <1>2, <1>12, <2>1 DEF Backspace
  <2>4. CASE \E col \in Cols : MovesInLine(col, FALSE)
    BY <2>2, <2>4, InLineInv
  <2>5. CASE UNCHANGED <<cursor, curRow>>
    <3>1. MovesInLine(Here.col, Here.lcf)
      BY <2>5, HereUnmoved DEF MovesInLine
    <3>. QED  BY <1>1, <1>2, <1>3, <2>2, <3>1, InLineInv
  <2>6. CASE Moves(RowBack, C - 1)
    <3>1. RowBack \in Rows /\ (InRegion(Here.row) => InRegion(RowBack))
      BY RowsOfMoves
    <3>. QED  BY <1>2, <2>2, <2>6, <3>1, MoveInv
  <2>. QED  BY <2>3, <2>4, <2>5, <2>6
<1>13. ASSUME EditLines \/ Scroll
       PROVE  CursorInv'
  <2>1. curRow' = [curRow EXCEPT ![grid] = Here.row] /\ KeepRest
    BY <1>13 DEF EditLines, Scroll
  <2>2. \E col \in Cols, lcf \in BOOLEAN :
          /\ lcf => col = C - 1
          /\ cursor' = [cursor EXCEPT ![grid] = At(Here.row, col, lcf)]
    BY <1>1, <1>2, <1>3, <1>13, HereUnmoved DEF EditLines, Scroll
  <2>3. origin /\ ~(region[1] <= Here.row /\ Here.row < region[2]) => astray
    BY Numbers
  <2>. QED  BY <1>2, <2>1, <2>2, <2>3, StepInv
<1>. QED  BY <1>5, <1>6, <1>7, <1>8, <1>9, <1>10, <1>11, <1>12, <1>13 DEF Movement

(* A place on the screen is not clamped.                                   *)
LEMMA ClampedPlace ==
  ASSUME CursorInv, NEW c \in Place, PlaceOK(c)
  PROVE  /\ Clamped(c) = At(c.row, c.col, c.lcf) /\ Clamped(c) = c
         /\ c.row \in Rows /\ c.col \in Cols /\ c.lcf \in BOOLEAN
         /\ c.lcf => c.col = C - 1
<1>1. /\ c.row \in Rows /\ c.col \in Cols /\ c.lcf \in BOOLEAN
      /\ c.lcf => c.col = C - 1
  BY DEF PlaceOK
<1>2. Lower(c.row, R - 1) = c.row /\ Lower(c.col, C - 1) = c.col
  BY <1>1, Numbers DEF Lower, Rows, Cols
<1>3. At(c.row, c.col, c.lcf) = c
  BY DEF At, Place
<1>. QED  BY <1>1, <1>2, <1>3 DEF Clamped

(* DECSTBM, DECALN and the mode changes, which home the cursor or keep it. *)
LEMMA HomesInv ==
  ASSUME CursorInv, NEW row \in Rows, Moves(row, 0),
         UNCHANGED <<size, grid, saved>>, Settled,
         origin' \in BOOLEAN, wrap' \in BOOLEAN, region' \in Nat \X Nat,
         region'[1] \in Rows, region'[2] \in 1 .. R, region'[1] < region'[2],
         origin' => region'[1] <= row /\ row < region'[2]
  PROVE  CursorInv'
<1>1. 0 \in Cols
  BY Numbers DEF Cols
<1>2. /\ cursor' = [cursor EXCEPT ![grid] = At(row, 0, FALSE)]
      /\ curRow' = [curRow EXCEPT ![grid] = row]
      /\ UNCHANGED <<size, grid>> /\ saved' = saved
  BY DEF Moves
<1>. QED  BY <1>1, <1>2, PutInv

LEMMA SetModesInPlaceInv ==
  ASSUME CursorInv,
         \/ \E top \in Rows, bottom \in 1 .. R : SetRegion(top, bottom)
         \/ Align
         \/ \E enable \in BOOLEAN : SetOrigin(enable) \/ SetWrap(enable)
         \/ SaveCursor
         \/ RestoreCursor
  PROVE  CursorInv'
<1>1. /\ R \in Nat /\ R > 0 /\ C \in Nat /\ C > 1
      /\ region[1] \in Nat /\ region[2] \in Nat /\ region \in Nat \X Nat
      /\ region[1] < region[2] /\ region[2] <= R
      /\ origin \in BOOLEAN /\ wrap \in BOOLEAN
  BY Numbers DEF CursorInv, CursorTypes
<1>2. /\ Here \in Place /\ Here.row \in Rows /\ Here.col \in Cols /\ Here.lcf \in BOOLEAN
      /\ Here.lcf => Here.col = C - 1
      /\ curRow[grid] = Here.row
      /\ origin /\ ~(region[1] <= Here.row /\ Here.row < region[2]) => astray
  BY Numbers DEF Rows, Cols, Place
<1>3. 0 \in Rows /\ region[1] \in Rows /\ region[2] \in 1 .. R
  BY <1>1 DEF Rows
<1>4. ASSUME NEW top \in Rows, NEW bottom \in 1 .. R, SetRegion(top, bottom)
      PROVE  CursorInv'
  <2>1. /\ top < bottom /\ region' = <<top, bottom>> /\ top \in Nat /\ bottom \in Nat
        /\ Moves(IF origin THEN top ELSE 0, 0) /\ Settled
        /\ UNCHANGED <<size, grid, saved>> /\ origin' = origin /\ wrap' = wrap
    BY <1>1, <1>4 DEF SetRegion, modes, Rows
  <2>2. region' \in Nat \X Nat /\ region'[1] = top /\ region'[2] = bottom
    BY <2>1
  <2>. DEFINE row == IF origin THEN top ELSE 0
  <2>3. row \in Rows /\ (origin => row = top) /\ Moves(row, 0)
    BY <1>3, <2>1
  <2>. HIDE DEF row
  <2>4. origin' => region'[1] <= row /\ row < region'[2]
    BY <1>1, <2>1, <2>2, <2>3
  <2>. QED  BY <1>1, <2>1, <2>2, <2>3, <2>4, HomesInv
<1>5. ASSUME Align
      PROVE  CursorInv'
  <2>1. /\ region' = <<0, R>> /\ Moves(0, 0) /\ Settled
        /\ UNCHANGED <<size, grid, saved>> /\ origin' = origin /\ wrap' = wrap
    BY <1>5 DEF Align, modes
  <2>2. /\ region' \in Nat \X Nat /\ region'[1] = 0 /\ region'[2] = R /\ R \in 1 .. R
        /\ 0 < R /\ 0 <= 0
    BY <1>1, <2>1
  <2>. QED  BY <1>1, <1>3, <2>1, <2>2, HomesInv
<1>6. ASSUME NEW enable \in BOOLEAN, SetOrigin(enable)
      PROVE  CursorInv'
  <2>. DEFINE row == IF enable THEN Lower(region[1], region[2] - 1) ELSE 0
  <2>1. /\ origin' = enable /\ Moves(row, 0) /\ Settled
        /\ UNCHANGED <<size, grid, saved>> /\ region' = region /\ wrap' = wrap
    BY <1>6 DEF SetOrigin
  <2>2. row \in Rows /\ (enable => row = region[1])
    BY <1>1, <1>3 DEF Lower
  <2>. HIDE DEF row
  <2>3. origin' => region'[1] <= row /\ row < region'[2]
    BY <1>1, <2>1, <2>2
  <2>. QED  BY <1>1, <1>3, <2>1, <2>2, <2>3, HomesInv
<1>7. ASSUME NEW enable \in BOOLEAN, SetWrap(enable)
      PROVE  CursorInv'
  <2>1. /\ cursor' = [cursor EXCEPT ![grid] = At(Here.row, Here.col, FALSE)]
        /\ curRow' = [curRow EXCEPT ![grid] = Here.row]
        /\ UNCHANGED <<size, grid>> /\ saved' = saved /\ region' = region
        /\ origin' = origin /\ wrap' = enable /\ Settled
    BY <1>2, <1>7 DEF SetWrap, MovesInLine, CursorInv, CursorTypes
  <2>. QED  BY <1>1, <1>2, <1>3, <2>1, PutInv
<1>8. ASSUME SaveCursor
      PROVE  CursorInv'
  <2>1. /\ saved' = [saved EXCEPT ![grid] = Here] /\ Settled
        /\ UNCHANGED <<size, grid>> /\ cursor' = cursor /\ curRow' = curRow
        /\ region' = region /\ origin' = origin /\ wrap' = wrap
    BY <1>8 DEF SaveCursor, modes
  <2>2. cursor' = [cursor EXCEPT ![grid] = At(Here.row, Here.col, Here.lcf)]
    BY <2>1, HereUnmoved
  <2>3. curRow' = [curRow EXCEPT ![grid] = Here.row]
    BY <1>2, <2>1 DEF CursorInv, CursorTypes
  <2>. QED  BY <1>1, <1>2, <1>3, <2>1, <2>2, <2>3, PutInv
<1>9. ASSUME RestoreCursor
      PROVE  CursorInv'
  <2>1. saved[grid] \in Place /\ PlaceOK(saved[grid])
    BY DEF CursorInv, CursorTypes, CursorConsistent
  <2>. DEFINE c == saved[grid]
  <2>2. /\ Clamped(c) = At(c.row, c.col, c.lcf) /\ Clamped(c).row = c.row
        /\ c.row \in Rows /\ c.col \in Cols /\ c.lcf \in BOOLEAN
        /\ c.lcf => c.col = C - 1
    BY <2>1, ClampedPlace
  <2>3. /\ cursor' = [cursor EXCEPT ![grid] = At(c.row, c.col, c.lcf)]
        /\ curRow' = [curRow EXCEPT ![grid] = c.row]
        /\ UNCHANGED <<size, grid>> /\ saved' = saved /\ region' = region
        /\ origin' = origin /\ wrap' = wrap /\ MayStray
    BY <1>9, <2>2 DEF RestoreCursor, modes
  <2>. HIDE DEF c
  <2>. QED  BY <1>1, <1>3, <2>2, <2>3, PutInv
<1>. QED  BY <1>4, <1>5, <1>6, <1>7, <1>8, <1>9

(* Steps that change the grid, the size or both cursors: the places and    *)
(* margins they leave have to fit the screen's size after the step.        *)
PlaceIn(c, rows, cols) ==
  /\ c \in Place /\ c.row < rows /\ c.col < cols
  /\ c.lcf => c.col = cols - 1

LEMMA PlacesInv ==
  ASSUME CursorInv,
         NEW rows \in Nat \ {0}, NEW cols \in Nat \ {0, 1},
         size' \in Sizes, size'[1] = rows, size'[2] = cols, grid' \in Grids,
         NEW normal, NEW alt, NEW savedNormal, NEW savedAlt,
         PlaceIn(normal, rows, cols), PlaceIn(alt, rows, cols),
         PlaceIn(savedNormal, rows, cols), PlaceIn(savedAlt, rows, cols),
         cursor' = [normal |-> normal, alt |-> alt],
         saved' = [normal |-> savedNormal, alt |-> savedAlt],
         curRow' = [normal |-> normal.row, alt |-> alt.row],
         region' \in Nat \X Nat, region'[1] < region'[2], region'[2] <= rows,
         origin' \in BOOLEAN, wrap' \in BOOLEAN,
         \/ MayStray
         \/ Settled /\ (Strays => astray)
  PROVE  CursorInv'
<1>1. /\ normal \in Place /\ alt \in Place /\ savedNormal \in Place /\ savedAlt \in Place
      /\ Grids = {"normal", "alt"}
  BY DEF PlaceIn, Grids
<1>2. /\ cursor' \in [Grids -> Place] /\ saved' \in [Grids -> Place]
      /\ \A g \in Grids : /\ PlaceIn(cursor'[g], rows, cols)
                          /\ PlaceIn(saved'[g], rows, cols)
  BY <1>1 DEF Grids
<1>3. curRow' \in [Grids -> Nat] /\ \A g \in Grids : curRow'[g] = cursor'[g].row
  <2>1. normal.row \in Nat /\ alt.row \in Nat
    BY <1>1 DEF Place
  <2>. QED  BY <2>1 DEF Grids
<1>4. Rows' = 0 .. rows - 1 /\ Cols' = 0 .. cols - 1 /\ R' = rows /\ C' = cols
  BY DEF Rows, Cols, R, C
<1>5. CursorTypes'
  <2>1. astray' \in BOOLEAN
    BY DEF MayStray, Settled, Strays, CursorInv, CursorTypes
  <2>. QED  BY <1>2, <1>3, <2>1 DEF CursorTypes
<1>6. CursorConsistent'
  <2>1. \A c : PlaceIn(c, rows, cols) =>
          /\ c.row \in Rows' /\ c.col \in Cols' /\ c.lcf \in BOOLEAN
          /\ c.lcf => c.col = C' - 1
    BY <1>4 DEF PlaceIn, Place
  <2>2. \A g \in Grids : PlaceOK(cursor[g])' /\ PlaceOK(saved[g])'
    BY <1>2, <2>1 DEF PlaceOK
  <2>3. region'[1] \in Nat /\ region'[2] \in Nat
    OBVIOUS
  <2>4. region'[1] \in Rows' /\ region'[2] \in 1 .. R'
    BY <1>4, <2>3
  <2>. QED  BY <1>3, <2>2, <2>4 DEF CursorConsistent
<1>7. OriginKeepsRegion'
  BY DEF OriginKeepsRegion, InRegion, Here, MayStray, Settled, Strays
<1>. QED  BY <1>5, <1>6, <1>7 DEF CursorInv

(* What the invariant says of both grids' places.                          *)
LEMMA PlacesFit ==
  ASSUME CursorInv
  PROVE  /\ size \in Sizes /\ size[1] = R /\ size[2] = C
         /\ R \in Nat \ {0} /\ C \in Nat \ {0, 1}
         /\ \A g \in Grids : /\ PlaceIn(cursor[g], R, C) /\ PlaceIn(saved[g], R, C)
                             /\ Clamped(cursor[g]) = cursor[g]
                             /\ Clamped(saved[g]) = saved[g]
                             /\ curRow[g] = cursor[g].row
         /\ cursor = [normal |-> cursor["normal"], alt |-> cursor["alt"]]
         /\ saved = [normal |-> saved["normal"], alt |-> saved["alt"]]
         /\ curRow = [normal |-> curRow["normal"], alt |-> curRow["alt"]]
         /\ "normal" \in Grids /\ "alt" \in Grids
         /\ PlaceIn(Home, R, C) /\ Home.row = 0
         /\ \A row, col : PlaceIn(At(row, col, FALSE), R, C) <=>
                            row \in Nat /\ col \in Nat /\ row < R /\ col < C
<1>1. /\ size \in Sizes /\ size[1] = R /\ size[2] = C
      /\ R \in Nat \ {0} /\ C \in Nat \ {0, 1}
  BY Numbers DEF CursorInv, CursorTypes, R, C
<1>2. ASSUME NEW c \in Place, PlaceOK(c)
      PROVE  PlaceIn(c, R, C) /\ Clamped(c) = c
  BY <1>1, <1>2, ClampedPlace DEF PlaceIn, Rows, Cols
<1>3. \A g \in Grids : /\ cursor[g] \in Place /\ saved[g] \in Place
                       /\ PlaceOK(cursor[g]) /\ PlaceOK(saved[g])
                       /\ curRow[g] = cursor[g].row
  BY DEF CursorInv, CursorTypes, CursorConsistent
<1>4. /\ cursor = [normal |-> cursor["normal"], alt |-> cursor["alt"]]
      /\ saved = [normal |-> saved["normal"], alt |-> saved["alt"]]
      /\ curRow = [normal |-> curRow["normal"], alt |-> curRow["alt"]]
      /\ "normal" \in Grids /\ "alt" \in Grids
  BY DEF CursorInv, CursorTypes, Grids
<1>5. \A row, col : PlaceIn(At(row, col, FALSE), R, C) <=>
                      row \in Nat /\ col \in Nat /\ row < R /\ col < C
  BY DEF PlaceIn, At, Place
<1>6. PlaceIn(Home, R, C) /\ Home.row = 0
  BY <1>1 DEF PlaceIn, Home, At, Place
<1>. QED  BY <1>1, <1>2, <1>3, <1>4, <1>5, <1>6

(* The switches between the screens.                                       *)
LEMMA ScreensInv ==
  ASSUME CursorInv,
         \E b \in BOOLEAN : EnterAlt(b) \/ LeaveAlt(b)
  PROVE  CursorInv'
<1>. DEFINE n == cursor["normal"]
            a == cursor["alt"]
            sn == saved["normal"]
            sa == saved["alt"]
<1>1. /\ size \in Sizes /\ size[1] = R /\ size[2] = C
      /\ R \in Nat \ {0} /\ C \in Nat \ {0, 1}
      /\ PlaceIn(n, R, C) /\ PlaceIn(a, R, C) /\ PlaceIn(sn, R, C) /\ PlaceIn(sa, R, C)
      /\ Clamped(n) = n /\ Clamped(a) = a /\ Clamped(sn) = sn
      /\ curRow["normal"] = n.row /\ curRow["alt"] = a.row
      /\ cursor = [normal |-> n, alt |-> a] /\ saved = [normal |-> sn, alt |-> sa]
      /\ curRow = [normal |-> curRow["normal"], alt |-> curRow["alt"]]
      /\ PlaceIn(Home, R, C) /\ Home.row = 0
  BY PlacesFit
<1>2. /\ region \in Nat \X Nat /\ region[1] < region[2] /\ region[2] <= R
      /\ origin \in BOOLEAN /\ wrap \in BOOLEAN
      /\ origin /\ ~(region[1] <= Here.row /\ Here.row < region[2]) => astray
  BY Numbers DEF CursorInv, CursorTypes
<1>3. \A p : PlaceIn(p, R, C) =>
        LET q == At(p.row, p.col, FALSE) IN PlaceIn(q, R, C) /\ q.row = p.row
  BY PlacesFit DEF PlaceIn, Place, At
<1>4. ASSUME NEW b \in BOOLEAN, EnterAlt(b)
      PROVE  CursorInv'
  <2>. DEFINE to == At(n.row, n.col, FALSE)
              s == IF b THEN n ELSE sn
  <2>1. /\ grid = "normal" /\ grid' = "alt"
        /\ saved' = IF b THEN [saved EXCEPT !["normal"] = Here] ELSE saved
        /\ cursor' = [cursor EXCEPT !["alt"] = to]
        /\ curRow' = [curRow EXCEPT !["alt"] = n.row]
        /\ size' = size /\ region' = region /\ origin' = origin /\ wrap' = wrap /\ Settled
    BY <1>1, <1>4 DEF EnterAlt, modes
  <2>2. Here = n
    BY <2>1 DEF Here
  <2>3. PlaceIn(to, R, C) /\ to.row = n.row
    BY <1>1, <1>3
  <2>4. PlaceIn(s, R, C)
    BY <1>1
  <2>. HIDE DEF to
  <2>5. /\ cursor' = [normal |-> n, alt |-> to]
        /\ saved' = [normal |-> s, alt |-> sa]
        /\ curRow' = [normal |-> n.row, alt |-> to.row]
    BY <1>1, <2>1, <2>2, <2>3
  <2>. HIDE DEF s, n, a, sn, sa
  <2>6. Strays => astray
    <3>1. cursor'[grid'].row = Here.row
      BY <2>1, <2>2, <2>3, <2>5
    <3>. QED  BY <1>2, <2>1, <3>1 DEF Strays
  <2>7. /\ size' \in Sizes /\ size'[1] = R /\ size'[2] = C /\ grid' \in Grids
        /\ region' \in Nat \X Nat /\ region'[1] < region'[2] /\ region'[2] <= R
        /\ origin' \in BOOLEAN /\ wrap' \in BOOLEAN
        /\ Settled /\ (Strays => astray)
    BY <1>1, <1>2, <2>1, <2>6 DEF Grids
  <2>. QED  BY <1>1, <2>3, <2>4, <2>5, <2>7, PlacesInv
<1>5. ASSUME NEW b \in BOOLEAN, LeaveAlt(b)
      PROVE  CursorInv'
  <2>. DEFINE to == IF b THEN sn ELSE At(a.row, a.col, FALSE)
  <2>1. /\ grid = "alt" /\ grid' = "normal"
        /\ cursor' = [normal |-> to, alt |-> Home]
        /\ curRow' = [normal |-> to.row, alt |-> 0]
        /\ size' = size /\ saved' = saved /\ region' = region
        /\ origin' = origin /\ wrap' = wrap
        /\ IF b THEN MayStray ELSE Settled
    BY <1>1, <1>5 DEF LeaveAlt, modes
  <2>2. Here = a
    BY <2>1 DEF Here
  <2>3. PlaceIn(to, R, C) /\ (~b => to.row = a.row)
    BY <1>1, <1>3
  <2>. HIDE DEF to, n, a, sn, sa
  <2>4. \/ MayStray
        \/ Settled /\ (Strays => astray)
    <3>1. CASE b
      BY <2>1, <3>1
    <3>2. CASE ~b
      <4>1. cursor'[grid'].row = Here.row
        BY <2>1, <2>2, <2>3, <3>2
      <4>. QED  BY <1>2, <2>1, <3>2, <4>1 DEF Strays
    <3>. QED  BY <3>1, <3>2
  <2>. QED  BY <1>1, <1>2, <2>1, <2>3, <2>4, PlacesInv DEF Grids
<1>. QED  BY <1>4, <1>5

(* The resets: the margins are the screen's, which leaves no cursor astray *)
LEMMA ResetInv ==
  ASSUME CursorInv, SoftReset \/ HardReset
  PROVE  CursorInv'
<1>. DEFINE n == IF SoftReset THEN cursor["normal"] ELSE Home
            sn == IF SoftReset THEN saved["normal"] ELSE Home
            sa == IF SoftReset THEN saved["alt"] ELSE Home
<1>1. /\ size \in Sizes /\ size[1] = R /\ size[2] = C
      /\ R \in Nat \ {0} /\ C \in Nat \ {0, 1}
      /\ PlaceIn(n, R, C) /\ PlaceIn(sn, R, C) /\ PlaceIn(sa, R, C)
      /\ PlaceIn(Home, R, C) /\ Home.row = 0
  BY PlacesFit
<1>2. /\ cursor' = [normal |-> n, alt |-> Home]
      /\ saved' = [normal |-> sn, alt |-> sa]
      /\ curRow' = [normal |-> n.row, alt |-> Home.row]
  <2>1. CASE SoftReset
    <3>1. /\ cursor' = [cursor EXCEPT !["alt"] = Home]
          /\ curRow' = [curRow EXCEPT !["alt"] = 0] /\ saved' = saved
      BY <2>1 DEF SoftReset
    <3>. QED  BY <1>1, <2>1, <3>1, PlacesFit
  <2>2. CASE ~SoftReset /\ HardReset
    <3>1. n = Home /\ sn = Home /\ sa = Home
      BY <2>2
    <3>2. /\ cursor' = [g \in Grids |-> Home] /\ saved' = [g \in Grids |-> Home]
          /\ curRow' = [g \in Grids |-> 0]
      BY <2>2 DEF HardReset
    <3>. HIDE DEF n, sn, sa
    <3>. QED  BY <1>1, <3>1, <3>2 DEF Grids
  <2>. QED  BY <2>1, <2>2
<1>3. /\ grid' = "normal" /\ region' = <<0, R>> /\ size' = size /\ Settled
      /\ origin' \in BOOLEAN /\ wrap' \in BOOLEAN
  BY DEF SoftReset, HardReset, CursorInv, CursorTypes
<1>. HIDE DEF n, sn, sa
<1>4. /\ region' \in Nat \X Nat /\ region'[1] = 0 /\ region'[2] = R
      /\ region'[1] < region'[2] /\ region'[2] <= R
  BY <1>1, <1>3
<1>5. Strays => astray
  <2>1. cursor'[grid'] = n /\ n.row \in Nat /\ n.row < R
    BY <1>1, <1>2, <1>3 DEF PlaceIn, Place
  <2>. QED  BY <1>1, <1>4, <2>1 DEF Strays
<1>. QED  BY <1>1, <1>2, <1>3, <1>4, <1>5, PlacesInv DEF Grids

(* A resize puts the cursors and the saved cursors on cells of the new     *)
(* screen, without a last column flag elsewhere, and keeps two margins.    *)
LEMMA ReflowedPlace ==
  ASSUME NEW c \in Place, NEW rows \in Nat \ {0}, NEW cols \in Nat \ {0, 1},
         NEW row \in 0 .. rows - 1, NEW col \in 0 .. cols - 1
  PROVE  /\ PlaceIn(ReflowedAt(c, row, col, cols), rows, cols)
         /\ ReflowedAt(c, row, col, cols).row = row
<1>1. c.row \in Nat /\ c.col \in Nat /\ c.lcf \in BOOLEAN
  BY DEF Place
<1>2. \A r \in Nat, k \in Nat, l \in BOOLEAN : r < rows /\ k < cols /\ (l => k = cols - 1)
        => PlaceIn(At(r, k, l), rows, cols) /\ At(r, k, l).row = r
  BY DEF PlaceIn, At, Place
<1>3. row \in Nat /\ row < rows /\ col \in Nat /\ col < cols
  OBVIOUS
<1>4. CASE c.lcf /\ col + 1 < cols
  <2>1. ReflowedAt(c, row, col, cols) = At(row, col + 1, FALSE)
    BY <1>4 DEF ReflowedAt
  <2>2. col + 1 \in Nat
    BY <1>3
  <2>. QED  BY <1>3, <1>4, <2>1, <2>2 DEF PlaceIn, At, Place
<1>5. CASE ~(c.lcf /\ col + 1 < cols)
  <2>1. ReflowedAt(c, row, col, cols) = At(row, col, c.lcf)
    BY <1>5 DEF ReflowedAt
  <2>2. c.lcf => col = cols - 1
    BY <1>3, <1>5
  <2>. QED  BY <1>1, <1>2, <1>3, <2>1, <2>2
<1>. QED  BY <1>4, <1>5

LEMMA CutPlace ==
  ASSUME NEW c \in Place, NEW rows \in Nat \ {0}, NEW cols \in Nat \ {0, 1}
  PROVE  PlaceIn(CutTo(c, rows, cols), rows, cols)
<1>. DEFINE r == IF c.row = R - 1 THEN rows - 1 ELSE Lower(c.row, rows - 1)
            k == Lower(c.col, cols - 1)
<1>1. c.row \in Nat /\ c.col \in Nat
  BY DEF Place
<1>2. r \in Nat /\ r < rows /\ k \in Nat /\ k < cols
  BY <1>1 DEF Lower
<1>3. CutTo(c, rows, cols) = At(r, k, FALSE)
  BY DEF CutTo
<1>. HIDE DEF r, k
<1>. QED  BY <1>2, <1>3 DEF PlaceIn, At, Place

LEMMA RegionOfResize ==
  ASSUME CursorInv, NEW rows \in Nat \ {0}
  PROVE  /\ RegionAfter(rows) \in Nat \X Nat
         /\ RegionAfter(rows)[1] < RegionAfter(rows)[2]
         /\ RegionAfter(rows)[2] <= rows
BY Numbers DEF RegionAfter

LEMMA ResizingInv ==
  ASSUME CursorInv, Resizing
  PROVE  CursorInv'
<1>1. PICK to \in Sizes : \E row, savedRow \in 0 .. to[1] - 1 :
        \E col, savedCol \in 0 .. to[2] - 1 : Resize(to, row, col, savedRow, savedCol)
  BY DEF Resizing
<1>2. to[1] \in Nat \ {0} /\ to[2] \in Nat \ {0, 1}
  BY SizeOfScreen
<1>3. PICK row \in 0 .. to[1] - 1, savedRow \in 0 .. to[1] - 1,
           col \in 0 .. to[2] - 1, savedCol \in 0 .. to[2] - 1 :
        Resize(to, row, col, savedRow, savedCol)
  BY <1>1
<1>. DEFINE normal == ReflowedAt(cursor["normal"], row, col, to[2])
            alt == IF grid = "alt" THEN CutTo(cursor["alt"], to[1], to[2]) ELSE Home
            savedNormal == ReflowedAt(saved["normal"], savedRow, savedCol, to[2])
            savedAlt == CutTo(saved["alt"], to[1], to[2])
<1>4. /\ cursor["normal"] \in Place /\ cursor["alt"] \in Place
      /\ saved["normal"] \in Place /\ saved["alt"] \in Place
      /\ grid \in Grids /\ origin \in BOOLEAN /\ wrap \in BOOLEAN
  BY DEF CursorInv, CursorTypes, Grids
<1>5. PlaceIn(normal, to[1], to[2]) /\ normal.row = row
  <2>1. cursor["normal"] \in Place /\ row \in 0 .. to[1] - 1 /\ col \in 0 .. to[2] - 1
    BY <1>3, <1>4
  <2>2. /\ PlaceIn(ReflowedAt(cursor["normal"], row, col, to[2]), to[1], to[2])
        /\ ReflowedAt(cursor["normal"], row, col, to[2]).row = row
    BY <1>2, <2>1, ReflowedPlace
  <2>. QED  BY <2>2
<1>6. PlaceIn(savedNormal, to[1], to[2])
  BY <1>2, <1>3, <1>4, ReflowedPlace
<1>7. PlaceIn(alt, to[1], to[2])
  <2>1. PlaceIn(CutTo(cursor["alt"], to[1], to[2]), to[1], to[2])
    BY <1>2, <1>4, CutPlace
  <2>2. PlaceIn(Home, to[1], to[2])
    BY <1>2 DEF PlaceIn, Home, At, Place
  <2>. QED  BY <2>1, <2>2
<1>8. PlaceIn(savedAlt, to[1], to[2])
  BY <1>2, <1>4, CutPlace
<1>9. /\ RegionAfter(to[1]) \in Nat \X Nat
      /\ RegionAfter(to[1])[1] < RegionAfter(to[1])[2] /\ RegionAfter(to[1])[2] <= to[1]
  BY <1>2, RegionOfResize
<1>10. /\ size' = to /\ grid' = grid /\ region' = RegionAfter(to[1])
       /\ cursor' = [normal |-> normal, alt |-> alt]
       /\ curRow' = [normal |-> row, alt |-> alt.row]
       /\ saved' = [normal |-> savedNormal, alt |-> savedAlt]
       /\ origin' = origin /\ wrap' = wrap /\ MayStray
  <2>1. Home.row = 0
    BY DEF Home, At
  <2>. QED  BY <1>3, <2>1 DEF Resize, modes
<1>. HIDE DEF normal, alt, savedNormal, savedAlt
<1>11. /\ size' \in Sizes /\ size'[1] = to[1] /\ size'[2] = to[2] /\ grid' \in Grids
       /\ region' \in Nat \X Nat /\ region'[1] < region'[2] /\ region'[2] <= to[1]
       /\ origin' \in BOOLEAN /\ wrap' \in BOOLEAN
  BY <1>1, <1>4, <1>9, <1>10
<1>12. curRow' = [normal |-> normal.row, alt |-> alt.row]
  BY <1>5, <1>10
<1>. QED  BY <1>2, <1>5, <1>6, <1>7, <1>8, <1>10, <1>11, <1>12, PlacesInv

(* The invariant is inductive, and CursorKept follows from it.             *)
LEMMA NextInv ==
  ASSUME CursorInv, [Next]_vars
  PROVE  CursorInv'
<1>1. CASE Printing
  BY <1>1, PrintingInv
<1>2. CASE Movement
  BY <1>2, MovementInv
<1>3. CASE Modes
  <2>1. CASE SoftReset \/ HardReset
    BY <2>1, ResetInv
  <2>2. CASE \E b \in BOOLEAN : EnterAlt(b) \/ LeaveAlt(b)
    BY <2>2, ScreensInv
  <2>3. CASE \/ \E top \in Rows, bottom \in 1 .. R : SetRegion(top, bottom)
             \/ Align
             \/ \E enable \in BOOLEAN : SetOrigin(enable) \/ SetWrap(enable)
             \/ SaveCursor
             \/ RestoreCursor
    BY <2>3, SetModesInPlaceInv
  <2>. QED  BY <1>3, <2>1, <2>2, <2>3 DEF Modes, SetModes, XtRestore
<1>4. CASE Resizing
  BY <1>4, ResizingInv
<1>5. CASE UNCHANGED vars
  BY <1>5 DEF vars, modes, CursorInv, CursorTypes, CursorConsistent, PlaceOK, Rows, Cols,
              R, C, OriginKeepsRegion, InRegion, Here
<1>. QED  BY <1>1, <1>2, <1>3, <1>4, <1>5 DEF Next

LEMMA InitInv ==
  ASSUME Init
  PROVE  CursorInv
<1>1. /\ size \in Sizes /\ R \in Nat \ {0} /\ C \in Nat \ {0, 1}
  BY SizeOfScreen DEF Init, R, C
<1>2. /\ Home \in Place /\ Home.row = 0 /\ Home.col = 0 /\ Home.lcf = FALSE
  BY DEF Home, At, Place
<1>3. CursorTypes
  BY <1>1, <1>2 DEF Init, CursorTypes, Grids
<1>4. CursorConsistent
  <2>1. PlaceOK(Home)
    BY <1>1 DEF PlaceOK, Home, At, Rows, Cols
  <2>2. \A g \in Grids : cursor[g] = Home /\ saved[g] = Home /\ curRow[g] = 0
    BY DEF Init
  <2>3. region[1] = 0 /\ region[2] = R
    BY DEF Init
  <2>. QED  BY <1>1, <1>2, <2>1, <2>2, <2>3 DEF CursorConsistent, Rows
<1>5. OriginKeepsRegion
  BY DEF Init, OriginKeepsRegion
<1>. QED  BY <1>3, <1>4, <1>5 DEF CursorInv

LEMMA OutputStays ==
  ASSUME CursorInv
  PROVE  OutputStaysInRegion
<1>1. Here \in Place /\ Here.col \in Cols /\ (Here.lcf => Here.col = C - 1)
  BY Numbers DEF Cols, Place
<1>2. \A width \in 1 .. 2 : InRegion(Here.row) => InRegion(Printed(Here, width).row)
  <2>. SUFFICES ASSUME NEW width \in 1 .. 2, InRegion(Here.row)
       PROVE  InRegion(Printed(Here, width).row)
    OBVIOUS
  <2>1. PICK row \in Rows, col \in Cols, lcf \in BOOLEAN :
          /\ Printed(Here, width) = At(row, col, lcf)
          /\ region[1] <= Here.row /\ Here.row < region[2]
               => region[1] <= row /\ row < region[2]
    BY <1>1, PrintedPlace
  <2>. QED  BY <2>1 DEF InRegion, At
<1>3. 1 \in 1 .. 2 /\ 2 \in 1 .. 2
  OBVIOUS
<1>4. InRegion(Here.row) => InRegion(Printed(Here, 1).row) /\ InRegion(Printed(Here, 2).row)
  BY <1>2, <1>3
<1>5. InRegion(Here.row) => InRegion(RowFed) /\ InRegion(RowReversed) /\ InRegion(RowBack)
  BY RowsOfMoves
<1>. QED  BY <1>4, <1>5 DEF OutputStaysInRegion

LEMMA InvKeeps ==
  ASSUME CursorInv
  PROVE  CursorKept
BY OutputStays DEF CursorInv, CursorKept

(* Both grids' cursors, the saved ones and the row pointers agree with the *)
(* screen and its margins, in origin mode the cursor is between them, and  *)
(* output does not run out of them, after any sequence of controls,        *)
(* screen switches, resets and resizes (terminal.c:2911, 3880).            *)
THEOREM CursorIsKept == Spec => []CursorKept
<1>1. Init => CursorInv
  BY InitInv
<1>2. CursorInv /\ [Next]_vars => CursorInv'
  BY NextInv
<1>3. CursorInv => CursorKept
  BY InvKeeps
<1>. QED  BY <1>1, <1>2, <1>3, PTL DEF Spec

-----------------------------------------------------------------------------
(* 2. The ranges of a row.                                                 *)

Link == [start : Columns, end : Columns, id : Ids]

Links(rs) ==
  /\ rs \in Seq(Link)
  /\ \A i \in 1 .. Len(rs) : rs[i].start <= rs[i].end
  /\ \A i, j \in 1 .. Len(rs) : i < j => rs[i].end < rs[j].start

Covers(r, c, x) == r.start <= c /\ c <= r.end /\ r.id = x

(* Some range of rs gives the column c the link x.                         *)
Holds(rs, c, x) == \E i \in 1 .. Len(rs) : Covers(rs[i], c, x)

(* All of rs is left of ss.                                                *)
LeftOf(rs, ss) == \A i \in 1 .. Len(rs), j \in 1 .. Len(ss) : rs[i].end < ss[j].start

(* The inductive invariant.                                                *)
RangesInv ==
  /\ Links(ranges)
  /\ columns \in [Columns -> Ids \cup {None}]
  /\ \A c \in Columns, x \in Ids : columns[c] = x <=> Holds(ranges, c, x)

(* The columns of a range.                                                 *)
LEMMA LinkIs ==
  ASSUME NEW r \in Link
  PROVE  r.start \in 0 .. RowCols - 1 /\ r.end \in 0 .. RowCols - 1 /\ r.id \in Ids /\ RowCols \in Nat
BY RowRangesAssumption DEF Link, Columns

(* Ranges side by side.                                                    *)
LEMMA SideBySide ==
  ASSUME NEW rs, NEW ss, Links(rs), Links(ss), LeftOf(rs, ss)
  PROVE  /\ Links(rs \o ss)
         /\ \A c, x : Holds(rs \o ss, c, x) <=> Holds(rs, c, x) \/ Holds(ss, c, x)
<1> DEFINE m == Len(rs)
           n == Len(ss)
           both == rs \o ss
<1>1. /\ rs \in Seq(Link) /\ ss \in Seq(Link) /\ m \in Nat /\ n \in Nat
      /\ both \in Seq(Link) /\ Len(both) = m + n
      /\ \A i \in 1 .. m : both[i] = rs[i]
      /\ \A i \in m + 1 .. m + n : both[i] = ss[i - m] /\ i - m \in 1 .. n
  BY DEF Links
<1> HIDE DEF both, m, n
<1>2. ASSUME NEW i \in 1 .. m + n
      PROVE  both[i] = IF i <= m THEN rs[i] ELSE ss[i - m]
  <2>1. CASE i <= m
    BY <2>1, <1>1
  <2>2. CASE ~(i <= m)
    <3>1. i \in m + 1 .. m + n
      BY <2>2, <1>1
    <3> QED BY <2>2, <3>1, <1>1
  <2> QED BY <2>1, <2>2
<1>3. ASSUME NEW i \in 1 .. m + n PROVE both[i].start <= both[i].end
  <2>1. CASE i <= m
    BY <2>1, <1>1, <1>2 DEF Links, m
  <2>2. CASE ~(i <= m)
    <3>1. i - m \in 1 .. n /\ both[i] = ss[i - m]
      BY <2>2, <1>1, <1>2
    <3> QED BY <3>1 DEF Links, n
  <2> QED BY <2>1, <2>2
<1>4. ASSUME NEW i \in 1 .. m + n, NEW j \in 1 .. m + n, i < j PROVE both[i].end < both[j].start
  <2>1. CASE j <= m
    <3>1. i <= m /\ both[i] = rs[i] /\ both[j] = rs[j] /\ i \in 1 .. m /\ j \in 1 .. m
      BY <2>1, <1>1, <1>4
    <3> QED BY <3>1, <1>4 DEF Links, m
  <2>2. CASE i <= m /\ ~(j <= m)
    <3>1. both[i] = rs[i] /\ both[j] = ss[j - m] /\ j - m \in 1 .. n /\ i \in 1 .. m
      BY <2>2, <1>1, <1>2
    <3> QED BY <3>1 DEF LeftOf, m, n
  <2>3. CASE ~(i <= m)
    <3>1. both[i] = ss[i - m] /\ both[j] = ss[j - m] /\ i - m \in 1 .. n /\ j - m \in 1 .. n /\ i - m < j - m
      BY <2>3, <1>1, <1>2, <1>4
    <3> QED BY <3>1 DEF Links, n
  <2> QED BY <2>1, <2>2, <2>3
<1>5. ASSUME NEW c, NEW x PROVE Holds(both, c, x) <=> Holds(rs, c, x) \/ Holds(ss, c, x)
  <2>1. ASSUME NEW i \in 1 .. m + n, Covers(both[i], c, x) PROVE Holds(rs, c, x) \/ Holds(ss, c, x)
    <3>1. CASE i <= m
      <4>1. i \in 1 .. m /\ Covers(rs[i], c, x)
        BY <2>1, <3>1, <1>1
      <4> QED BY <4>1 DEF Holds, m
    <3>2. CASE ~(i <= m)
      <4>1. i - m \in 1 .. n /\ both[i] = ss[i - m]
        BY <3>2, <1>1
      <4>2. Covers(ss[i - m], c, x)
        BY <2>1, <4>1
      <4> QED BY <4>1, <4>2 DEF Holds, n
    <3> QED BY <3>1, <3>2
  <2>2. ASSUME NEW i \in 1 .. m, Covers(rs[i], c, x) PROVE Holds(both, c, x)
    <3>1. i \in 1 .. m + n /\ Covers(both[i], c, x)
      BY <2>2, <1>1
    <3> QED BY <3>1, <1>1 DEF Holds
  <2>3. ASSUME NEW i \in 1 .. n, Covers(ss[i], c, x) PROVE Holds(both, c, x)
    <3>1. i + m \in m + 1 .. m + n /\ (i + m) - m = i /\ i + m \in 1 .. m + n
      BY <1>1
    <3>2. Covers(both[i + m], c, x)
      BY <3>1, <2>3, <1>1
    <3> QED BY <3>1, <3>2, <1>1 DEF Holds
  <2> QED BY <2>1, <2>2, <2>3, <1>1 DEF Holds, m, n
<1>6. Links(both)
  BY <1>1, <1>3, <1>4 DEF Links
<1> QED BY <1>5, <1>6 DEF both

(* One range, and none.                                                    *)
LEMMA OneLink ==
  ASSUME NEW r \in Link, r.start <= r.end
  PROVE  /\ Links(<<r>>) /\ Links(<<>>)
         /\ \A c, x : Holds(<<r>>, c, x) <=> Covers(r, c, x)
         /\ \A c, x : ~Holds(<<>>, c, x)
<1>1. <<r>> \in Seq(Link) /\ Len(<<r>>) = 1 /\ <<r>>[1] = r /\ <<>> \in Seq(Link) /\ Len(<<>>) = 0
  OBVIOUS
<1>2. 1 .. 1 = {1} /\ 1 .. 0 = {}
  OBVIOUS
<1> QED BY <1>1, <1>2 DEF Links, Holds

(* A part of the ranges.                                                   *)
LEMMA PartOf ==
  ASSUME NEW rs, Links(rs), NEW a \in 1 .. Len(rs) + 1, NEW b \in a - 1 .. Len(rs)
  PROVE  /\ Links(SubSeq(rs, a, b))
         /\ Len(SubSeq(rs, a, b)) = b - a + 1
         /\ \A i \in 1 .. b - a + 1 : SubSeq(rs, a, b)[i] = rs[(a + i) - 1]
         /\ \A c, x : Holds(SubSeq(rs, a, b), c, x) <=> \E i \in a .. b : Covers(rs[i], c, x)
<1> DEFINE part == SubSeq(rs, a, b)
           n == b - a + 1
<1>1. rs \in Seq(Link) /\ Len(rs) \in Nat
  BY DEF Links
<1>2. part \in Seq(Link) /\ Len(part) = n /\ \A i \in 1 .. n : part[i] = rs[(a + i) - 1]
  <2>1. a <= b + 1 /\ a \in 1 .. Len(rs) + 1 /\ b \in a - 1 .. Len(rs)
    BY <1>1
  <2>2. part \in Seq(Link) /\ Len(part) = (IF a <= b THEN b - a + 1 ELSE 0)
        /\ \A i \in 1 .. b - a + 1 : part[i] = rs[(a + i) - 1]
    BY <1>1, <2>1, SubSeqProperties
  <2> QED BY <2>1, <2>2
<1>3. ASSUME NEW i \in 1 .. n PROVE (a + i) - 1 \in 1 .. Len(rs) /\ (a + i) - 1 \in a .. b
  BY <1>1
<1>4. ASSUME NEW i \in a .. b PROVE (i - a) + 1 \in 1 .. n /\ (a + ((i - a) + 1)) - 1 = i
  BY <1>1
<1> HIDE DEF part
<1>5. Links(part)
  <2>1. ASSUME NEW i \in 1 .. n PROVE part[i].start <= part[i].end
    BY <1>2, <1>3 DEF Links
  <2>2. ASSUME NEW i \in 1 .. n, NEW j \in 1 .. n, i < j PROVE part[i].end < part[j].start
    <3>1. (a + i) - 1 < (a + j) - 1
      BY <1>1, <2>2
    <3> QED BY <3>1, <1>2, <1>3 DEF Links
  <2> QED BY <1>2, <2>1, <2>2 DEF Links
<1>6. ASSUME NEW c, NEW x PROVE Holds(part, c, x) <=> \E i \in a .. b : Covers(rs[i], c, x)
  <2>1. ASSUME NEW i \in 1 .. n, Covers(part[i], c, x) PROVE \E j \in a .. b : Covers(rs[j], c, x)
    <3>1. (a + i) - 1 \in a .. b /\ Covers(rs[(a + i) - 1], c, x)
      BY <2>1, <1>2, <1>3
    <3> QED BY <3>1
  <2>2. ASSUME NEW i \in a .. b, Covers(rs[i], c, x) PROVE Holds(part, c, x)
    <3> DEFINE k == (i - a) + 1
    <3>1. k \in 1 .. n /\ (a + k) - 1 = i
      BY <1>4
    <3> HIDE DEF k
    <3>2. part[k] = rs[i]
      BY <3>1, <1>2
    <3> QED BY <3>1, <3>2, <2>2, <1>2 DEF Holds
  <2> QED BY <2>1, <2>2, <1>2 DEF Holds
<1> QED BY <1>2, <1>5, <1>6 DEF part

(* A range that follows is appended, or the last one is extended by it.    *)
LEMMA JoinedIs ==
  ASSUME NEW done, Links(done), NEW r \in Link, r.start <= r.end,
         done # <<>> => done[Len(done)].end < r.start
  PROVE  /\ Links(Joined(done, r)) /\ Joined(done, r) # <<>>
         /\ Joined(done, r)[Len(Joined(done, r))].end = r.end
         /\ \A c \in Columns : \A x : Holds(Joined(done, r), c, x) <=> Holds(done, c, x) \/ Covers(r, c, x)
<1> DEFINE n == Len(done)
           joins == done # <<>> /\ Last(done).id = r.id /\ Last(done).end + 1 = r.start
<1>1. done \in Seq(Link) /\ n \in Nat /\ (done # <<>> => n \in Nat \ {0} /\ n \in 1 .. n)
  BY DEF Links
<1>2. ASSUME NEW i \in 1 .. n PROVE done[i] \in Link /\ done[i].end \in Int /\ done[i].start \in Int
  BY <1>1, LinkIs
<1>3. r.start \in Int /\ r.end \in Int
  BY LinkIs
<1>4. CASE ~joins
  <2>1. Joined(done, r) = Append(done, r) /\ Append(done, r) = done \o <<r>>
    BY <1>1, <1>4 DEF Joined
  <2>2. LeftOf(done, <<r>>)
    <3> SUFFICES ASSUME NEW i \in 1 .. n PROVE done[i].end < r.start
      BY DEF LeftOf
    <3>1. done # <<>> /\ done[n].end < r.start
      BY <1>1
    <3>2. CASE i = n
      BY <3>1, <3>2
    <3>3. CASE i < n
      <4>1. done[i].end < done[n].start /\ done[n].start <= done[n].end
        BY <1>1, <3>1, <3>3 DEF Links
      <4> QED BY <4>1, <3>1, <1>1, <1>2, <1>3
    <3> QED BY <3>2, <3>3, <1>1
  <2>3. Links(<<r>>) /\ \A c, x : Holds(<<r>>, c, x) <=> Covers(r, c, x)
    BY OneLink
  <2>4. /\ Links(done \o <<r>>)
        /\ \A c, x : Holds(done \o <<r>>, c, x) <=> Holds(done, c, x) \/ Holds(<<r>>, c, x)
    BY <2>2, <2>3, SideBySide
  <2>5. Len(done \o <<r>>) = n + 1 /\ (done \o <<r>>)[n + 1] = r /\ done \o <<r>> # <<>>
    BY <1>1
  <2> QED BY <2>1, <2>3, <2>4, <2>5
<1>5. CASE joins
  <2> DEFINE last == [done[n] EXCEPT !.end = r.end]
             new == [done EXCEPT ![n] = last]
  <2>1. Joined(done, r) = new
    BY <1>5 DEF Joined
  <2>2. /\ done[n].id = r.id /\ done[n].end + 1 = r.start /\ n \in 1 .. n /\ done[n] \in Link
        /\ done[n].end < r.start /\ done # <<>>
    BY <1>1, <1>2, <1>5 DEF Last
  <2>3. /\ last \in Link /\ last.start = done[n].start /\ last.end = r.end /\ last.id = r.id
    BY <2>2 DEF Link
  <2> HIDE DEF last
  <2>4. /\ new \in Seq(Link) /\ Len(new) = n /\ new[n] = last
        /\ \A i \in 1 .. n : i # n => new[i] = done[i]
    BY <1>1, <2>2, <2>3
  <2> HIDE DEF new
  <2>5. /\ done[n].start <= done[n].end /\ done[n].start \in Int /\ done[n].end \in Int
    BY <1>2, <2>2 DEF Links
  <2>6. ASSUME NEW i \in 1 .. n PROVE new[i].start <= new[i].end
    <3>1. CASE i = n
      BY <3>1, <2>2, <2>3, <2>4, <2>5, <1>3
    <3>2. CASE i # n
      BY <3>2, <2>4 DEF Links
    <3> QED BY <3>1, <3>2
  <2>7. ASSUME NEW i \in 1 .. n, NEW j \in 1 .. n, i < j PROVE new[i].end < new[j].start
    <3>1. i # n /\ new[i] = done[i]
      BY <1>1, <2>4, <2>7
    <3>2. done[i].end < done[j].start
      BY <2>7 DEF Links
    <3>3. new[j].start = done[j].start
      BY <2>3, <2>4
    <3> QED BY <3>1, <3>2, <3>3
  <2>8. Links(new)
    BY <2>4, <2>6, <2>7 DEF Links
  <2>9. ASSUME NEW c \in Columns, NEW x PROVE Covers(last, c, x) <=> Covers(done[n], c, x) \/ Covers(r, c, x)
    <3>1. c \in Int
      BY DEF Columns
    <3> QED BY <3>1, <1>3, <2>2, <2>3, <2>5 DEF Covers
  <2>10. ASSUME NEW c \in Columns, NEW x PROVE Holds(new, c, x) <=> Holds(done, c, x) \/ Covers(r, c, x)
    <3>1. Holds(new, c, x) => Holds(done, c, x) \/ Covers(r, c, x)
      <4> SUFFICES ASSUME NEW i \in 1 .. n, Covers(new[i], c, x) PROVE Holds(done, c, x) \/ Covers(r, c, x)
        BY <2>4 DEF Holds
      <4>1. Covers(done[i], c, x) \/ Covers(r, c, x)
        BY <2>4, <2>9
      <4> QED BY <4>1 DEF Holds
    <3>2. Holds(done, c, x) => Holds(new, c, x)
      <4> SUFFICES ASSUME NEW i \in 1 .. n, Covers(done[i], c, x) PROVE Holds(new, c, x)
        BY DEF Holds
      <4>1. Covers(new[i], c, x)
        BY <2>4, <2>9
      <4> QED BY <4>1, <2>4 DEF Holds
    <3>3. Covers(r, c, x) => Holds(new, c, x)
      <4> SUFFICES ASSUME Covers(r, c, x) PROVE Holds(new, c, x)
        OBVIOUS
      <4>1. Covers(new[n], c, x)
        BY <2>4, <2>9
      <4> QED BY <4>1, <2>2, <2>4 DEF Holds
    <3> QED BY <3>1, <3>2, <3>3
  <2>11. new # <<>> /\ new[Len(new)].end = r.end
    BY <2>2, <2>3, <2>4, <1>1
  <2> QED BY <2>1, <2>8, <2>10, <2>11
<1> QED BY <1>4, <1>5

(* The ranges up to the k-th.                                              *)
UpTo(rs, k, c, x) == \E i \in 1 .. k : Covers(rs[i], c, x)

(* The first k + 1 ranges are the first k, and one more.                   *)
LEMMA UpToNext ==
  ASSUME NEW rs, NEW k \in Nat, NEW c, NEW x
  PROVE  /\ UpTo(rs, k + 1, c, x) <=> UpTo(rs, k, c, x) \/ Covers(rs[k + 1], c, x)
         /\ ~UpTo(rs, 0, c, x)
<1>1. 1 .. k + 1 = (1 .. k) \cup {k + 1} /\ 1 .. 0 = {}
  OBVIOUS
<1> QED BY <1>1 DEF UpTo

(* Merging neighbours changes the link of no column.                       *)
LEMMA MergedIs ==
  ASSUME NEW rs, Links(rs)
  PROVE  /\ Links(Merged(rs))
         /\ \A c \in Columns : \A x : Holds(Merged(rs), c, x) <=> Holds(rs, c, x)
<1> DEFINE X == Seq(Link)
           n == Len(rs)
           Rec(g) == [k \in 0 .. n |-> IF k = 0 THEN <<>> ELSE Joined(g[k - 1], rs[k])]
           f == CHOOSE g : g = Rec(g)
           step == [j \in Nat |-> [s \in X |-> IF j + 1 \in 1 .. n /\ Joined(s, rs[j + 1]) \in X
                                              THEN Joined(s, rs[j + 1]) ELSE <<>>]]
<1>0. rs \in X /\ n \in Nat /\ \A i \in 1 .. n : rs[i] \in Link /\ rs[i].start <= rs[i].end
  BY DEF Links
<1>1. ASSUME NEW s \in X, NEW i \in 1 .. n PROVE Joined(s, rs[i]) \in X
  <2> DEFINE m == Len(s)
             last == [s[m] EXCEPT !.end = rs[i].end]
  <2>1. rs[i] \in Link /\ rs[i].end \in Columns
    BY <1>0 DEF Link
  <2>2. Append(s, rs[i]) \in X
    BY <2>1
  <2>3. ASSUME s # <<>> PROVE [s EXCEPT ![m] = last] \in X
    <3>1. m \in 1 .. m /\ s[m] \in Link
      BY <2>3
    <3>2. last \in Link
      BY <2>1, <3>1 DEF Link
    <3> HIDE DEF last
    <3> QED BY <3>1, <3>2
  <2> QED BY <2>2, <2>3 DEF Joined
<1>2. step \in [Nat -> [X -> X]] /\ <<>> \in X
  OBVIOUS
<1>3. PICK h \in [0 .. n -> X] : h[0] = <<>> /\ \A i \in 0 .. n - 1 : h[i + 1] = step[i][h[i]]
  <2> HIDE DEF X, step, Rec, f, n
  <2>1. \E h : Recursive(h, X, <<>>, step, n)
    BY <1>0, <1>2, FiniteRecursion
  <2> QED BY <2>1 DEF Recursive
<1>4. h = Rec(h)
  <2> SUFFICES ASSUME NEW k \in 0 .. n PROVE h[k] = Rec(h)[k]
    OBVIOUS
  <2>1. CASE k = 0
    BY <2>1, <1>3
  <2>2. CASE k # 0
    <3>1. k - 1 \in 0 .. n - 1 /\ (k - 1) + 1 = k /\ k \in 1 .. n /\ k - 1 \in Nat
      BY <2>2, <1>0
    <3>2. h[k] = step[k - 1][h[k - 1]] /\ h[k - 1] \in X
      <4> HIDE DEF step, X, Rec, f, n
      <4>1. h[(k - 1) + 1] = step[k - 1][h[k - 1]]
        BY <1>3, <3>1
      <4>2. k - 1 \in 0 .. n
        BY <1>0, <3>1
      <4> QED BY <4>1, <4>2, <3>1, <1>3
    <3>3. Joined(h[k - 1], rs[k]) \in X
      BY <3>1, <3>2, <1>1
    <3>4. step[k - 1][h[k - 1]] = Joined(h[k - 1], rs[k])
      <4> HIDE DEF X, n
      <4> QED BY <3>1, <3>2, <3>3
    <3> QED BY <3>1, <3>2, <3>4, <2>2
  <2> QED BY <2>1, <2>2
<1>5. f = Rec(f)
  <2> HIDE DEF Rec
  <2> QED BY <1>4
<1>6. Merged(rs) = f[n]
  BY DEF Merged
<1> HIDE DEF f
<1>7. f[0] = <<>> /\ \A k \in 1 .. n : f[k] = Joined(f[k - 1], rs[k])
  <2>1. 0 \in 0 .. n /\ \A k \in 1 .. n : k \in 0 .. n /\ k # 0
    BY <1>0
  <2>2. \A k \in 0 .. n : Rec(f)[k] = IF k = 0 THEN <<>> ELSE Joined(f[k - 1], rs[k])
    <3> HIDE DEF n
    <3> QED OBVIOUS
  <2>3. \A k \in 0 .. n : f[k] = IF k = 0 THEN <<>> ELSE Joined(f[k - 1], rs[k])
    <3> HIDE DEF Rec, n
    <3> QED BY <2>2, <1>5
  <2> HIDE DEF Rec, n
  <2> QED BY <2>1, <2>3
<1> DEFINE Good(k) == /\ Links(f[k])
                      /\ k > 0 => f[k] # <<>> /\ f[k][Len(f[k])].end = rs[k].end
                      /\ k = 0 => f[k] = <<>>
                      /\ \A c \in Columns : \A x : Holds(f[k], c, x) <=> UpTo(rs, k, c, x)
           T == {k \in Nat : k <= n => Good(k)}
<1>8. 0 \in T
  <2>1. Links(<<>>) /\ \A c, x : ~Holds(<<>>, c, x)
    BY DEF Links, Holds
  <2>2. Good(0)
    BY <2>1, <1>7, UpToNext
  <2> QED BY <2>2
<1>9. ASSUME NEW k \in Nat, k \in T PROVE k + 1 \in T
  <2> SUFFICES ASSUME k + 1 <= n PROVE Good(k + 1)
    OBVIOUS
  <2>1. k <= n /\ k + 1 \in 1 .. n /\ (k + 1) - 1 = k
    BY <1>0
  <2>2. Good(k)
    BY <1>9, <2>1
  <2>3. f[k + 1] = Joined(f[k], rs[k + 1])
    <3> HIDE DEF Rec, Good, T, n
    <3> QED BY <1>7, <2>1
  <2>4. f[k] # <<>> => f[k][Len(f[k])].end < rs[k + 1].start
    <3> SUFFICES ASSUME f[k] # <<>> PROVE f[k][Len(f[k])].end < rs[k + 1].start
      OBVIOUS
    <3>1. k > 0
      BY <2>2
    <3>2. k \in 1 .. n /\ k < k + 1
      BY <3>1, <2>1
    <3>3. rs[k].end < rs[k + 1].start
      BY <3>2, <2>1 DEF Links
    <3> QED BY <2>2, <3>1, <3>3
  <2>5. rs[k + 1] \in Link /\ rs[k + 1].start <= rs[k + 1].end
    BY <1>0, <2>1
  <2>6. /\ Links(f[k + 1]) /\ f[k + 1] # <<>> /\ f[k + 1][Len(f[k + 1])].end = rs[k + 1].end
        /\ \A c \in Columns : \A x : Holds(f[k + 1], c, x) <=> Holds(f[k], c, x) \/ Covers(rs[k + 1], c, x)
    BY <2>2, <2>3, <2>4, <2>5, JoinedIs
  <2>7. \A c \in Columns : \A x : Holds(f[k + 1], c, x) <=> UpTo(rs, k + 1, c, x)
    BY <2>2, <2>6, UpToNext
  <2> QED BY <2>6, <2>7
<1>10. Good(n)
  <2> HIDE DEF T
  <2>1. n \in T
    BY <1>0, <1>8, <1>9, Induction
  <2> QED BY <2>1, <1>0 DEF T
<1> QED BY <1>6, <1>10 DEF Holds, UpTo

(* What is left of a range is all of it but the erased columns.            *)
LEMMA LeavesIs ==
  ASSUME NEW r \in Link, r.start <= r.end,
         NEW start \in Columns, NEW end \in Columns, start <= end
  PROVE  /\ Links(Leaves(r, start, end))
         /\ \A i \in 1 .. Len(Leaves(r, start, end)) :
              r.start <= Leaves(r, start, end)[i].start /\ Leaves(r, start, end)[i].end <= r.end
         /\ \A c \in Columns : \A x :
              Holds(Leaves(r, start, end), c, x) <=> Covers(r, c, x) /\ c \notin start .. end
<1>1. /\ r.start \in 0 .. RowCols - 1 /\ r.end \in 0 .. RowCols - 1 /\ r.id \in Ids /\ RowCols \in Nat
      /\ start \in 0 .. RowCols - 1 /\ end \in 0 .. RowCols - 1
  BY LinkIs DEF Columns
<1> DEFINE Within(rs) == \A i \in 1 .. Len(rs) : r.start <= rs[i].start /\ rs[i].end <= r.end
           Rest(rs) == \A c \in Columns : \A x : Holds(rs, c, x) <=> Covers(r, c, x) /\ c \notin start .. end
<1>2. CASE end < r.start \/ r.end < start
  <2>1. Leaves(r, start, end) = <<r>>
    BY <1>2 DEF Leaves
  <2>2. Links(<<r>>) /\ \A c, x : Holds(<<r>>, c, x) <=> Covers(r, c, x)
    BY OneLink
  <2>3. ASSUME NEW c \in Columns, NEW x, Covers(r, c, x) PROVE c \notin start .. end
    BY <2>3, <1>1, <1>2 DEF Covers, Columns
  <2>4. Within(<<r>>)
    BY <1>1
  <2> QED BY <2>1, <2>2, <2>3, <2>4
<1>3. CASE ~(end < r.start \/ r.end < start)
  <2> DEFINE head == [r EXCEPT !.end = start - 1]
             tail == [r EXCEPT !.start = end + 1]
             before == IF r.start < start THEN <<head>> ELSE <<>>
             after == IF end < r.end THEN <<tail>> ELSE <<>>
  <2>1. Leaves(r, start, end) = before \o after
    BY <1>3 DEF Leaves
  <2>2. /\ r.start < start => head \in Link /\ head.start <= head.end
        /\ head.start = r.start /\ head.end = start - 1 /\ head.id = r.id
    <3>1. start - 1 \in Int
      BY <1>1
    <3>2. head.start = r.start /\ head.end = start - 1 /\ head.id = r.id /\ head = [start |-> r.start, end |-> start - 1, id |-> r.id]
      BY DEF Link
    <3>3. r.start < start => start - 1 \in 0 .. RowCols - 1 /\ r.start <= start - 1
      BY <1>1
    <3> HIDE DEF head
    <3> QED BY <1>1, <3>2, <3>3 DEF Link, Columns
  <2>3. /\ end < r.end => tail \in Link /\ tail.start <= tail.end
        /\ tail.start = end + 1 /\ tail.end = r.end /\ tail.id = r.id
    <3>2. tail.start = end + 1 /\ tail.end = r.end /\ tail.id = r.id /\ tail = [start |-> end + 1, end |-> r.end, id |-> r.id]
      BY DEF Link
    <3>3. end < r.end => end + 1 \in 0 .. RowCols - 1 /\ end + 1 <= r.end
      BY <1>1
    <3> HIDE DEF tail
    <3> QED BY <1>1, <3>2, <3>3 DEF Link, Columns
  <2> HIDE DEF head, tail
  <2>4. /\ Links(before) /\ \A i \in 1 .. Len(before) : before[i] = head /\ r.start < start
        /\ \A c, x : Holds(before, c, x) <=> r.start < start /\ Covers(head, c, x)
    <3>1. CASE r.start < start
      BY <3>1, <2>2, OneLink
    <3>2. CASE ~(r.start < start)
      <4>1. before = <<>> /\ Len(<<>>) = 0 /\ 1 .. 0 = {}
        BY <3>2
      <4> QED BY <3>2, <4>1 DEF Links, Holds
    <3> QED BY <3>1, <3>2
  <2>5. /\ Links(after) /\ \A i \in 1 .. Len(after) : after[i] = tail /\ end < r.end
        /\ \A c, x : Holds(after, c, x) <=> end < r.end /\ Covers(tail, c, x)
    <3>1. CASE end < r.end
      BY <3>1, <2>3, OneLink
    <3>2. CASE ~(end < r.end)
      <4>1. after = <<>> /\ Len(<<>>) = 0 /\ 1 .. 0 = {}
        BY <3>2
      <4> QED BY <3>2, <4>1 DEF Links, Holds
    <3> QED BY <3>1, <3>2
  <2> HIDE DEF before, after
  <2>6. LeftOf(before, after)
    BY <1>1, <2>2, <2>3, <2>4, <2>5 DEF LeftOf
  <2>7. /\ Links(before \o after)
        /\ \A c, x : Holds(before \o after, c, x) <=> Holds(before, c, x) \/ Holds(after, c, x)
    BY <2>4, <2>5, <2>6, SideBySide
  <2>8. ASSUME NEW c \in Columns, NEW x
        PROVE  (r.start < start /\ Covers(head, c, x)) \/ (end < r.end /\ Covers(tail, c, x))
               <=> Covers(r, c, x) /\ c \notin start .. end
    <3>1. c \in Int /\ r.start \in Int /\ r.end \in Int /\ start \in Int /\ end \in Int
      BY <1>1 DEF Columns
    <3>2. Covers(head, c, x) <=> r.start <= c /\ c <= start - 1 /\ r.id = x
      BY <2>2 DEF Covers
    <3>3. Covers(tail, c, x) <=> end + 1 <= c /\ c <= r.end /\ r.id = x
      BY <2>3 DEF Covers
    <3>4. Covers(r, c, x) <=> r.start <= c /\ c <= r.end /\ r.id = x
      BY DEF Covers
    <3> QED BY <3>1, <3>2, <3>3, <3>4, <1>3
  <2>9. Rest(before \o after)
    BY <2>4, <2>5, <2>7, <2>8
  <2>10. Within(before \o after)
    <3>1. before \in Seq(Link) /\ after \in Seq(Link)
      BY <2>4, <2>5 DEF Links
    <3>2. Within(before) /\ Within(after)
      BY <1>1, <1>3, <2>2, <2>3, <2>4, <2>5
    <3> SUFFICES ASSUME NEW i \in 1 .. Len(before \o after)
                 PROVE  r.start <= (before \o after)[i].start /\ (before \o after)[i].end <= r.end
      OBVIOUS
    <3>3. CASE i <= Len(before)
      <4>1. i \in 1 .. Len(before) /\ (before \o after)[i] = before[i]
        BY <3>1, <3>3
      <4> QED BY <4>1, <3>2
    <3>4. CASE ~(i <= Len(before))
      <4>1. i - Len(before) \in 1 .. Len(after) /\ (before \o after)[i] = after[i - Len(before)]
        BY <3>1, <3>4
      <4> QED BY <4>1, <3>2
    <3> QED BY <3>3, <3>4
  <2> QED BY <2>1, <2>7, <2>9, <2>10
<1> QED BY <1>2, <1>3

(* Erasing takes the columns out, and no others.                           *)
LEMMA EraseIs ==
  ASSUME NEW rs, Links(rs), NEW start \in Columns, NEW end \in Columns, start <= end
  PROVE  /\ Links(Erase(rs, start, end))
         /\ \A c \in Columns : \A x :
              Holds(Erase(rs, start, end), c, x) <=> Holds(rs, c, x) /\ c \notin start .. end
<1> DEFINE X == Seq(Link)
           n == Len(rs)
           L(i) == Leaves(rs[i], start, end)
           Rec(g) == [k \in 0 .. n |-> IF k = 0 THEN <<>> ELSE g[k - 1] \o L(k)]
           f == CHOOSE g : g = Rec(g)
           step == [j \in Nat |-> [s \in X |-> IF j + 1 \in 1 .. n /\ s \o L(j + 1) \in X
                                              THEN s \o L(j + 1) ELSE <<>>]]
<1>0. rs \in X /\ n \in Nat /\ \A i \in 1 .. n : rs[i] \in Link /\ rs[i].start <= rs[i].end
  BY DEF Links
<1>1. ASSUME NEW i \in 1 .. n
      PROVE  /\ Links(L(i)) /\ L(i) \in X
             /\ \A j \in 1 .. Len(L(i)) : rs[i].start <= L(i)[j].start /\ L(i)[j].end <= rs[i].end
             /\ \A c \in Columns : \A x : Holds(L(i), c, x) <=> Covers(rs[i], c, x) /\ c \notin start .. end
  <2>1. rs[i] \in Link /\ rs[i].start <= rs[i].end
    BY <1>0
  <2>2. /\ Links(L(i))
        /\ \A j \in 1 .. Len(L(i)) : rs[i].start <= L(i)[j].start /\ L(i)[j].end <= rs[i].end
        /\ \A c \in Columns : \A x : Holds(L(i), c, x) <=> Covers(rs[i], c, x) /\ c \notin start .. end
    BY <2>1, LeavesIs
  <2> QED BY <2>2 DEF Links
<1> HIDE DEF L
<1>2. step \in [Nat -> [X -> X]] /\ <<>> \in X
  OBVIOUS
<1>3. PICK h \in [0 .. n -> X] : h[0] = <<>> /\ \A i \in 0 .. n - 1 : h[i + 1] = step[i][h[i]]
  <2> HIDE DEF X, step, Rec, f, n
  <2>1. \E h : Recursive(h, X, <<>>, step, n)
    BY <1>0, <1>2, FiniteRecursion
  <2> QED BY <2>1 DEF Recursive
<1>4. h = Rec(h)
  <2> SUFFICES ASSUME NEW k \in 0 .. n PROVE h[k] = Rec(h)[k]
    OBVIOUS
  <2>1. CASE k = 0
    BY <2>1, <1>3
  <2>2. CASE k # 0
    <3>1. k - 1 \in 0 .. n - 1 /\ (k - 1) + 1 = k /\ k \in 1 .. n /\ k - 1 \in Nat
      BY <2>2, <1>0
    <3>2. h[k] = step[k - 1][h[k - 1]] /\ h[k - 1] \in X
      <4> HIDE DEF step, X, Rec, f, n
      <4>1. h[(k - 1) + 1] = step[k - 1][h[k - 1]]
        BY <1>3, <3>1
      <4>2. k - 1 \in 0 .. n
        BY <1>0, <3>1
      <4> QED BY <4>1, <4>2, <3>1, <1>3
    <3>3. h[k - 1] \o L(k) \in X
      BY <3>1, <3>2, <1>1
    <3>4. step[k - 1][h[k - 1]] = h[k - 1] \o L(k)
      <4> HIDE DEF X, n
      <4> QED BY <3>1, <3>2, <3>3
    <3> QED BY <3>1, <3>2, <3>4, <2>2
  <2> QED BY <2>1, <2>2
<1>5. f = Rec(f)
  <2> HIDE DEF Rec
  <2> QED BY <1>4
<1>6. Erase(rs, start, end) = f[n]
  BY DEF Erase, L
<1> HIDE DEF f
<1>7. f[0] = <<>> /\ \A k \in 1 .. n : f[k] = f[k - 1] \o L(k)
  <2>1. 0 \in 0 .. n /\ \A k \in 1 .. n : k \in 0 .. n /\ k # 0
    BY <1>0
  <2>2. \A k \in 0 .. n : Rec(f)[k] = IF k = 0 THEN <<>> ELSE f[k - 1] \o L(k)
    <3> HIDE DEF n, L
    <3> QED OBVIOUS
  <2>3. \A k \in 0 .. n : f[k] = IF k = 0 THEN <<>> ELSE f[k - 1] \o L(k)
    <3> HIDE DEF Rec, n, L
    <3> QED BY <2>2, <1>5
  <2> HIDE DEF Rec, n, L
  <2> QED BY <2>1, <2>3
<1> DEFINE Good(k) == /\ Links(f[k])
                      /\ \A i \in 1 .. Len(f[k]) : k > 0 /\ f[k][i].end <= rs[k].end
                      /\ \A c \in Columns : \A x :
                           Holds(f[k], c, x) <=> UpTo(rs, k, c, x) /\ c \notin start .. end
           T == {k \in Nat : k <= n => Good(k)}
<1>8. 0 \in T
  <2>1. Links(<<>>) /\ (\A c, x : ~Holds(<<>>, c, x)) /\ 1 .. Len(<<>>) = {}
    BY DEF Links, Holds
  <2>2. Good(0)
    BY <2>1, <1>7, UpToNext
  <2> QED BY <2>2
<1>9. ASSUME NEW k \in Nat, k \in T PROVE k + 1 \in T
  <2> SUFFICES ASSUME k + 1 <= n PROVE Good(k + 1)
    OBVIOUS
  <2>1. k <= n /\ k + 1 \in 1 .. n /\ (k + 1) - 1 = k
    BY <1>0
  <2>2. Good(k)
    BY <1>9, <2>1
  <2> DEFINE q == k + 1
  <2>3. f[q] = f[k] \o L(q)
    <3> HIDE DEF Rec, Good, T, n
    <3> QED BY <1>7, <2>1
  <2>4. /\ Links(L(q))
        /\ \A j \in 1 .. Len(L(q)) : rs[q].start <= L(q)[j].start /\ L(q)[j].end <= rs[q].end
        /\ \A c \in Columns : \A x : Holds(L(q), c, x) <=> Covers(rs[q], c, x) /\ c \notin start .. end
    <3> HIDE DEF Rec, Good, T, X, step
    <3> QED BY <1>1, <2>1
  <2>5. rs[q] \in Link /\ rs[q].start <= rs[q].end /\ rs[q].start \in Int /\ rs[q].end \in Int
    BY <1>0, <2>1, LinkIs
  <2>6. ASSUME NEW i \in 1 .. Len(f[k])
        PROVE  f[k][i].end < rs[q].start /\ f[k][i].end \in Int
    <3>1. k > 0 /\ f[k][i].end <= rs[k].end
      BY <2>2
    <3>2. k \in 1 .. n /\ k < q
      BY <3>1, <2>1
    <3>3. rs[k].end < rs[q].start
      BY <3>2, <2>1 DEF Links
    <3>4. rs[k] \in Link /\ f[k][i] \in Link
      BY <1>0, <2>2, <3>2 DEF Links
    <3>5. rs[k].end \in Int /\ f[k][i].end \in Int
      BY <3>4, LinkIs
    <3> QED BY <2>5, <3>1, <3>3, <3>5
  <2>7. ASSUME NEW i \in 1 .. Len(L(q)) PROVE L(q)[i].start \in Int /\ L(q)[i].end \in Int
    BY <2>4, LinkIs DEF Links
  <2> HIDE DEF q
  <2>8. LeftOf(f[k], L(q))
    <3> SUFFICES ASSUME NEW i \in 1 .. Len(f[k]), NEW j \in 1 .. Len(L(q))
                 PROVE  f[k][i].end < L(q)[j].start
      BY DEF LeftOf
    <3>1. rs[q].start <= L(q)[j].start
      BY <2>4
    <3>2. L(q)[j].start \in Int
      BY <2>7
    <3>3. f[k][i].end < rs[q].start /\ f[k][i].end \in Int
      BY <2>6
    <3>4. rs[q].start \in Int
      BY <2>5
    <3> HIDE DEF Rec, Good, T, X, step, n
    <3> QED BY <3>1, <3>2, <3>3, <3>4
  <2>9. /\ Links(f[q])
        /\ \A c, x : Holds(f[q], c, x) <=> Holds(f[k], c, x) \/ Holds(L(q), c, x)
    BY <2>2, <2>3, <2>4, <2>8, SideBySide
  <2>10. ASSUME NEW i \in 1 .. Len(f[q]) PROVE q > 0 /\ f[q][i].end <= rs[q].end
    <3>0. f[k] \in Seq(Link) /\ L(q) \in Seq(Link) /\ q > 0
      BY <2>2, <2>4 DEF Links, q
    <3>1. CASE i <= Len(f[k])
      <4>1. i \in 1 .. Len(f[k]) /\ f[q][i] = f[k][i]
        BY <3>0, <3>1, <2>3
      <4> QED BY <4>1, <3>0, <2>5, <2>6
    <3>2. CASE ~(i <= Len(f[k]))
      <4>1. i - Len(f[k]) \in 1 .. Len(L(q)) /\ f[q][i] = L(q)[i - Len(f[k])]
        BY <3>0, <3>2, <2>3
      <4> QED BY <4>1, <3>0, <2>4
    <3> QED BY <3>1, <3>2
  <2>11. \A c \in Columns : \A x : Holds(f[q], c, x) <=> UpTo(rs, q, c, x) /\ c \notin start .. end
    BY <2>2, <2>4, <2>9, UpToNext DEF q
  <2> QED BY <2>9, <2>10, <2>11 DEF q
<1>10. Good(n)
  <2> HIDE DEF T
  <2>1. n \in T
    BY <1>0, <1>8, <1>9, Induction
  <2> QED BY <2>1, <1>0 DEF T
<1> QED BY <1>6, <1>10 DEF Holds, UpTo

-----------------------------------------------------------------------------
(* The last range that begins at a column or before it.                    *)
LEMMA LastFromIs ==
  ASSUME NEW rs, Links(rs), NEW col \in Columns
  PROVE  LET at == LastFrom(rs, col)
         IN  /\ at \in 0 .. Len(rs)
             /\ at > 0 => rs[at].start <= col
             /\ \A i \in at + 1 .. Len(rs) : col < rs[i].start
<1> DEFINE from == {i \in DOMAIN rs : rs[i].start <= col}
           at == LastFrom(rs, col)
<1>1. /\ Len(rs) \in Nat /\ DOMAIN rs = 1 .. Len(rs) /\ col \in Int
      /\ \A i \in 1 .. Len(rs) : rs[i].start \in Int
  <2>1. rs \in Seq(Link)
    BY DEF Links
  <2>2. ASSUME NEW i \in 1 .. Len(rs) PROVE rs[i].start \in Int
    BY <2>1, LinkIs
  <2> QED BY <2>1, <2>2 DEF Columns
<1>2. CASE from = {}
  <2>1. at = 0
    BY <1>2 DEF LastFrom
  <2>2. ASSUME NEW i \in 1 .. Len(rs) PROVE col < rs[i].start
    BY <1>1, <1>2
  <2> QED BY <2>1, <2>2, <1>1
<1>3. CASE from # {}
  <2>1. from \subseteq 0 .. Len(rs)
    BY <1>1
  <2> HIDE DEF from
  <2>2. \E m \in from : \A y \in from : y <= m
    BY <2>1, <1>1, <1>3, LargestOf
  <2>3. \E m \in from : \A y \in from : m >= y
    BY <2>1, <2>2
  <2>4. Max(from) \in from /\ \A y \in from : Max(from) >= y
    BY <2>3 DEF Max
  <2>5. at = Max(from)
    BY <1>3 DEF LastFrom, from
  <2> HIDE DEF at
  <2>6. at \in 1 .. Len(rs) /\ rs[at].start <= col
    BY <2>4, <2>5, <1>1 DEF from
  <2>7. ASSUME NEW i \in at + 1 .. Len(rs) PROVE col < rs[i].start
    <3>1. i \in 1 .. Len(rs) /\ i > at
      BY <2>6, <1>1
    <3>2. i \notin from
      BY <3>1, <2>4, <2>5, <2>6, <1>1
    <3>3. ~(rs[i].start <= col)
      BY <3>1, <3>2, <1>1 DEF from
    <3> QED BY <3>1, <3>3, <1>1
  <2> QED BY <2>6, <2>7 DEF at
<1> QED BY <1>2, <1>3

(* New ranges between those up to a and those from b on.                   *)
LEMMA Between ==
  ASSUME NEW rs, Links(rs), NEW a \in 0 .. Len(rs), NEW b \in a + 1 .. Len(rs) + 1,
         NEW mid, Links(mid),
         \A i \in 1 .. a, j \in 1 .. Len(mid) : rs[i].end < mid[j].start,
         \A i \in 1 .. Len(mid), j \in b .. Len(rs) : mid[i].end < rs[j].start
  PROVE  LET new == SubSeq(rs, 1, a) \o mid \o SubSeq(rs, b, Len(rs))
         IN  /\ Links(new)
             /\ \A c, x : Holds(new, c, x) <=> \/ \E i \in 1 .. a : Covers(rs[i], c, x)
                                              \/ Holds(mid, c, x)
                                              \/ \E i \in b .. Len(rs) : Covers(rs[i], c, x)
<1> DEFINE pre == SubSeq(rs, 1, a)
           post == SubSeq(rs, b, Len(rs))
           n == Len(rs)
<1>1. n \in Nat
  BY DEF Links
<1>2. /\ Links(pre) /\ Len(pre) = a
      /\ \A i \in 1 .. a : pre[i] = rs[i]
      /\ \A c, x : Holds(pre, c, x) <=> \E i \in 1 .. a : Covers(rs[i], c, x)
  <2>1. 1 \in 1 .. n + 1 /\ a \in 1 - 1 .. n /\ a - 1 + 1 = a
    BY <1>1
  <2>2. /\ Links(pre) /\ Len(pre) = a - 1 + 1
        /\ \A i \in 1 .. a - 1 + 1 : pre[i] = rs[(1 + i) - 1]
        /\ \A c, x : Holds(pre, c, x) <=> \E i \in 1 .. a : Covers(rs[i], c, x)
    BY <2>1, PartOf
  <2> HIDE DEF pre
  <2> QED BY <2>2, <1>1
<1>3. /\ Links(post) /\ Len(post) = n - b + 1
      /\ \A i \in 1 .. n - b + 1 : post[i] = rs[(b + i) - 1]
      /\ \A c, x : Holds(post, c, x) <=> \E i \in b .. n : Covers(rs[i], c, x)
  <2>1. b \in 1 .. n + 1 /\ n \in b - 1 .. n
    BY <1>1
  <2> QED BY <2>1, PartOf
<1> HIDE DEF pre, post
<1>4. mid \in Seq(Link) /\ pre \in Seq(Link) /\ post \in Seq(Link)
  BY <1>2, <1>3 DEF Links
<1>5. LeftOf(pre, mid)
  BY <1>2 DEF LeftOf
<1>6. /\ Links(pre \o mid)
      /\ \A c, x : Holds(pre \o mid, c, x) <=> Holds(pre, c, x) \/ Holds(mid, c, x)
  BY <1>2, <1>5, SideBySide
<1>7. LeftOf(pre \o mid, post)
  <2> SUFFICES ASSUME NEW i \in 1 .. Len(pre \o mid), NEW j \in 1 .. Len(post)
               PROVE  (pre \o mid)[i].end < post[j].start
    BY DEF LeftOf
  <2>1. (b + j) - 1 \in b .. n /\ post[j] = rs[(b + j) - 1] /\ b \in 1 .. n + 1
    BY <1>1, <1>3
  <2>2. CASE i <= a
    <3>1. i \in 1 .. a /\ (pre \o mid)[i] = pre[i] /\ pre[i] = rs[i] /\ i < (b + j) - 1
      BY <1>1, <1>2, <1>4, <2>1, <2>2
    <3>2. i \in 1 .. n /\ (b + j) - 1 \in 1 .. n
      BY <3>1, <2>1, <1>1
    <3> QED BY <3>1, <3>2, <2>1 DEF Links
  <2>3. CASE ~(i <= a)
    <3>1. i - a \in 1 .. Len(mid) /\ (pre \o mid)[i] = mid[i - a]
      BY <1>1, <1>2, <1>4, <2>3
    <3> QED BY <3>1, <2>1
  <2> QED BY <2>2, <2>3
<1>8. /\ Links((pre \o mid) \o post)
      /\ \A c, x : Holds((pre \o mid) \o post, c, x) <=> Holds(pre \o mid, c, x) \/ Holds(post, c, x)
  BY <1>3, <1>6, <1>7, SideBySide
<1> QED BY <1>2, <1>3, <1>6, <1>8 DEF pre, post

(* A range that is changed in place.                                       *)
LEMMA InPlace ==
  ASSUME NEW rs, Links(rs), NEW at \in 1 .. Len(rs), NEW r \in Link
  PROVE  [rs EXCEPT ![at] = r] = SubSeq(rs, 1, at - 1) \o <<r>> \o SubSeq(rs, at + 1, Len(rs))
<1> DEFINE n == Len(rs)
           pre == SubSeq(rs, 1, at - 1)
           post == SubSeq(rs, at + 1, n)
           new == pre \o <<r>> \o post
           old == [rs EXCEPT ![at] = r]
<1>1. rs \in Seq(Link) /\ n \in Nat
  BY DEF Links
<1>2. /\ pre \in Seq(Link) /\ Len(pre) = at - 1
      /\ \A i \in 1 .. at - 1 : pre[i] = rs[i]
  <2>1. 1 \in 1 .. n + 1 /\ at - 1 \in 1 - 1 .. n /\ (at - 1) - 1 + 1 = at - 1
    BY <1>1
  <2>2. /\ Links(pre) /\ Len(pre) = (at - 1) - 1 + 1
        /\ \A i \in 1 .. (at - 1) - 1 + 1 : pre[i] = rs[(1 + i) - 1]
    BY <2>1, PartOf
  <2> HIDE DEF pre
  <2> QED BY <2>1, <2>2, <1>1 DEF Links
<1>3. /\ post \in Seq(Link) /\ Len(post) = n - at
      /\ \A i \in 1 .. n - at : post[i] = rs[at + i]
  <2>1. at + 1 \in 1 .. n + 1 /\ n \in (at + 1) - 1 .. n /\ n - (at + 1) + 1 = n - at
    BY <1>1
  <2>2. /\ Links(post) /\ Len(post) = n - (at + 1) + 1
        /\ \A i \in 1 .. n - (at + 1) + 1 : post[i] = rs[((at + 1) + i) - 1]
    BY <2>1, PartOf
  <2>3. \A i \in 1 .. n - at : ((at + 1) + i) - 1 = at + i
    BY <1>1
  <2> HIDE DEF post
  <2> QED BY <2>1, <2>2, <2>3, <1>1 DEF Links
<1> HIDE DEF pre, post
<1>4. new \in Seq(Link) /\ Len(new) = n
  <2>1. <<r>> \in Seq(Link) /\ Len(<<r>>) = 1
    OBVIOUS
  <2>2. <<r>> \o post \in Seq(Link) /\ Len(<<r>> \o post) = 1 + (n - at)
    BY <2>1, <1>1, <1>3
  <2>3. new \in Seq(Link) /\ Len(new) = (at - 1) + (1 + (n - at))
    <3>1. pre \o (<<r>> \o post) \in Seq(Link)
          /\ Len(pre \o (<<r>> \o post)) = (at - 1) + (1 + (n - at))
      BY <2>2, <1>2
    <3>2. new = pre \o (<<r>> \o post)
      BY <2>1, <1>2, <1>3
    <3> QED BY <3>1, <3>2
  <2> HIDE DEF new
  <2> QED BY <2>3, <1>1
<1>5. old \in Seq(Link) /\ Len(old) = n
  BY <1>1
<1> DEFINE head == pre \o <<r>>
<1>8. /\ head \in Seq(Link) /\ Len(head) = at /\ head[at] = r
      /\ \A i \in 1 .. at - 1 : head[i] = rs[i]
  BY <1>1, <1>2
<1>9. old[at] = r /\ \A i \in 1 .. n : i # at => old[i] = rs[i]
  BY <1>1
<1>10. new = head \o post
  OBVIOUS
<1> HIDE DEF old, new, head
<1>6. ASSUME NEW i \in 1 .. n PROVE old[i] = new[i]
  <2>1. CASE i < at
    <3>1. i \in 1 .. at - 1
      BY <2>1
    <3>2. new[i] = head[i]
      BY <3>1, <1>1, <1>3, <1>8, <1>10
    <3> QED BY <3>1, <3>2, <1>8, <1>9
  <2>2. CASE i = at
    <3>1. new[i] = head[i]
      BY <2>2, <1>1, <1>3, <1>8, <1>10
    <3> QED BY <3>1, <2>2, <1>8, <1>9
  <2>3. CASE i > at
    <3>1. new[i] = post[i - at] /\ i - at \in 1 .. n - at
      BY <2>3, <1>1, <1>3, <1>8, <1>10
    <3>2. post[i - at] = rs[at + (i - at)] /\ at + (i - at) = i
      BY <3>1, <1>1, <1>3
    <3> QED BY <3>1, <3>2, <2>3, <1>9
  <2> QED BY <2>1, <2>2, <2>3, <1>1
<1>7. old = new
  BY <1>4, <1>5, <1>6
<1> QED BY <1>7 DEF pre, post, old, new, head

(* A range of one column goes where the code looks for its place, whatever *)
(* becomes of the range that was there.                                    *)
LEMMA PutIs ==
  ASSUME NEW rs, Links(rs), NEW col \in Columns, NEW id \in Ids
  PROVE  /\ Links(RangePut(rs, col, id))
         /\ \A c \in Columns, x \in Ids :
              Holds(RangePut(rs, col, id), c, x) <=> IF c = col THEN x = id ELSE Holds(rs, c, x)
<1> DEFINE n == Len(rs)
           at == LastFrom(rs, col)
           one == Range1(col, col, id)
           Right(new) == \A c \in Columns, x \in Ids :
                           Holds(new, c, x) <=> IF c = col THEN x = id ELSE Holds(rs, c, x)
<1>1. rs \in Seq(Link) /\ n \in Nat /\ \A i \in 1 .. n : rs[i] \in Link
  BY DEF Links
<1>2. at \in 0 .. n /\ (at > 0 => rs[at].start <= col) /\ \A i \in at + 1 .. n : col < rs[i].start
  BY LastFromIs
<1> HIDE DEF at
<1>3. /\ one \in Link /\ one.start = col /\ one.end = col /\ one.id = id
  BY DEF Range1, Link
<1> HIDE DEF one
<1>4. ASSUME NEW i \in 1 .. n
      PROVE  rs[i].start \in Int /\ rs[i].end \in Int /\ rs[i].start <= rs[i].end /\ rs[i].id \in Ids
  BY <1>1, LinkIs DEF Links
<1>5. col \in Int /\ \A c \in Columns : c \in Int
  BY DEF Columns
<1>6. Links(<<one>>) /\ \A c, x : Holds(<<one>>, c, x) <=> Covers(one, c, x)
  BY <1>3, <1>5, OneLink
<1>7. ASSUME NEW c \in Columns, NEW x PROVE Covers(one, c, x) <=> c = col /\ x = id
  BY <1>3, <1>5 DEF Covers
\* The ranges after the place do not reach the column, nor those before it.
<1>8. ASSUME NEW i \in at + 1 .. n, NEW x PROVE ~Covers(rs[i], col, x)
  <2>1. i \in 1 .. n /\ col < rs[i].start
    BY <1>1, <1>2
  <2> QED BY <2>1, <1>4, <1>5 DEF Covers
<1>9. ASSUME at > 0, NEW i \in 1 .. at - 1 PROVE rs[i].end < col /\ rs[i].end < rs[at].start /\ i \in 1 .. n
  <2>1. i \in 1 .. n /\ at \in 1 .. n /\ i < at
    BY <1>1, <1>2, <1>9
  <2>2. rs[i].end < rs[at].start
    BY <2>1 DEF Links
  <2> QED BY <2>1, <2>2, <1>2, <1>4, <1>5
<1>10. ASSUME at > 0, NEW i \in 1 .. at - 1, NEW x PROVE ~Covers(rs[i], col, x)
  BY <1>4, <1>5, <1>9, <1>10 DEF Covers
<1>11. CASE at = 0
  <2>1. RangePut(rs, col, id) = <<one>> \o rs
    BY <1>11 DEF RangePut, at, one
  <2>2. LeftOf(<<one>>, rs)
    BY <1>2, <1>3, <1>11 DEF LeftOf
  <2>3. /\ Links(<<one>> \o rs)
        /\ \A c, x : Holds(<<one>> \o rs, c, x) <=> Holds(<<one>>, c, x) \/ Holds(rs, c, x)
    BY <1>6, <2>2, SideBySide
  <2>4. ASSUME NEW x PROVE ~Holds(rs, col, x)
    BY <1>8, <1>11 DEF Holds
  <2> QED BY <2>1, <2>3, <2>4, <1>6, <1>7
<1>12. CASE at > 0 /\ rs[at].end < col /\ Extends(rs[at], col, id)
  <2> DEFINE r == [rs[at] EXCEPT !.end = col]
             new == SubSeq(rs, 1, at - 1) \o <<r>> \o SubSeq(rs, at + 1, n)
  <2>1. at \in 1 .. n /\ rs[at] \in Link /\ rs[at].id = id /\ rs[at].end + 1 = col
    BY <1>1, <1>2, <1>12 DEF Extends
  <2>2. r \in Link /\ r.start = rs[at].start /\ r.end = col /\ r.id = id /\ r.start <= r.end
    BY <2>1, <1>2, <1>12 DEF Link
  <2>3. RangePut(rs, col, id) = [rs EXCEPT ![at] = r]
    <3>1. ~(rs[at].end >= col)
      BY <1>4, <1>5, <1>12, <2>1
    <3> QED BY <3>1, <1>12 DEF RangePut, at
  <2> HIDE DEF r
  <2>4. RangePut(rs, col, id) = new
    BY <2>1, <2>2, <2>3, InPlace
  <2>5. Links(<<r>>) /\ \A c, x : Holds(<<r>>, c, x) <=> Covers(r, c, x)
    BY <2>2, OneLink
  <2>6. /\ at - 1 \in 0 .. n /\ at + 1 \in (at - 1) + 1 .. n + 1
        /\ \A i \in 1 .. at - 1, j \in 1 .. Len(<<r>>) : rs[i].end < (<<r>>)[j].start
        /\ \A i \in 1 .. Len(<<r>>), j \in at + 1 .. n : (<<r>>)[i].end < rs[j].start
    BY <1>1, <1>2, <1>9, <1>12, <2>1, <2>2
  <2>7. /\ Links(new)
        /\ \A c, x : Holds(new, c, x) <=> \/ \E i \in 1 .. at - 1 : Covers(rs[i], c, x)
                                         \/ Holds(<<r>>, c, x)
                                         \/ \E i \in at + 1 .. n : Covers(rs[i], c, x)
    BY <2>5, <2>6, Between
  <2>8. ASSUME NEW c \in Columns, NEW x PROVE Covers(r, c, x) <=> Covers(rs[at], c, x) \/ (c = col /\ x = id)
    BY <1>2, <1>4, <1>5, <1>12, <2>1, <2>2 DEF Covers
  <2>9. ASSUME NEW x PROVE ~Covers(rs[at], col, x)
    BY <1>4, <1>5, <1>12, <2>1 DEF Covers
  <2>10. ASSUME NEW c, NEW x
         PROVE  Holds(rs, c, x) <=> \/ \E i \in 1 .. at - 1 : Covers(rs[i], c, x)
                                    \/ Covers(rs[at], c, x)
                                    \/ \E i \in at + 1 .. n : Covers(rs[i], c, x)
    <3>1. 1 .. n = (1 .. at - 1) \cup {at} \cup (at + 1 .. n)
      BY <1>1, <2>1
    <3> QED BY <3>1 DEF Holds
  <2> HIDE DEF new
  <2>11. Right(new)
    <3> SUFFICES ASSUME NEW c \in Columns, NEW x \in Ids
                 PROVE  Holds(new, c, x) <=> IF c = col THEN x = id ELSE Holds(rs, c, x)
      OBVIOUS
    <3>1. CASE c = col
      BY <3>1, <1>8, <1>10, <1>12, <2>5, <2>7, <2>8, <2>9
    <3>2. CASE c # col
      BY <3>2, <2>5, <2>7, <2>8, <2>10
    <3> QED BY <3>1, <3>2
  <2> QED BY <2>4, <2>7, <2>11
<1>13. CASE at > 0 /\ rs[at].end < col /\ ~Extends(rs[at], col, id)
  <2> DEFINE new == SubSeq(rs, 1, at) \o <<one>> \o SubSeq(rs, at + 1, n)
  <2>1. at \in 1 .. n
    BY <1>1, <1>2, <1>13
  <2>2. RangePut(rs, col, id) = new
    <3>1. RangePut(rs, col, id) = InsertAt(rs, at + 1, one)
      <4>1. ~(rs[at].end >= col)
        BY <1>4, <1>5, <1>13, <2>1
      <4> QED BY <4>1, <1>13 DEF RangePut, at, one
    <3>2. (at + 1) - 1 = at
      BY <2>1
    <3> QED BY <3>1, <3>2 DEF InsertAt
  <2>3. ASSUME NEW i \in 1 .. at PROVE rs[i].end < col /\ i \in 1 .. n
    <3>1. CASE i = at
      BY <3>1, <1>13, <2>1
    <3>2. CASE i # at
      <4>1. i \in 1 .. at - 1
        BY <3>2, <2>1
      <4> QED BY <4>1, <1>9, <1>13
    <3> QED BY <3>1, <3>2
  <2>4. /\ at \in 0 .. n /\ at + 1 \in at + 1 .. n + 1
        /\ \A i \in 1 .. at, j \in 1 .. Len(<<one>>) : rs[i].end < (<<one>>)[j].start
        /\ \A i \in 1 .. Len(<<one>>), j \in at + 1 .. n : (<<one>>)[i].end < rs[j].start
    BY <1>1, <1>2, <1>3, <2>1, <2>3
  <2>5. /\ Links(new)
        /\ \A c, x : Holds(new, c, x) <=> \/ \E i \in 1 .. at : Covers(rs[i], c, x)
                                         \/ Holds(<<one>>, c, x)
                                         \/ \E i \in at + 1 .. n : Covers(rs[i], c, x)
    BY <1>6, <2>4, Between
  <2>6. ASSUME NEW c, NEW x
        PROVE  Holds(rs, c, x) <=> \/ \E i \in 1 .. at : Covers(rs[i], c, x)
                                   \/ \E i \in at + 1 .. n : Covers(rs[i], c, x)
    <3>1. 1 .. n = (1 .. at) \cup (at + 1 .. n)
      BY <1>1, <2>1
    <3> QED BY <3>1 DEF Holds
  <2>7. ASSUME NEW i \in 1 .. at, NEW x PROVE ~Covers(rs[i], col, x)
    BY <1>4, <1>5, <2>3 DEF Covers
  <2> HIDE DEF new
  <2>8. Right(new)
    <3> SUFFICES ASSUME NEW c \in Columns, NEW x \in Ids
                 PROVE  Holds(new, c, x) <=> IF c = col THEN x = id ELSE Holds(rs, c, x)
      OBVIOUS
    <3>1. CASE c = col
      BY <3>1, <1>6, <1>7, <1>8, <2>5, <2>7
    <3>2. CASE c # col
      BY <3>2, <1>6, <1>7, <2>5, <2>6
    <3> QED BY <3>1, <3>2
  <2> QED BY <2>2, <2>5, <2>8
<1>14. CASE at > 0 /\ rs[at].end >= col /\ rs[at].id = id
  <2>1. RangePut(rs, col, id) = rs /\ at \in 1 .. n
    <3>1. at \in 1 .. n
      BY <1>1, <1>2, <1>14
    <3>2. ~(rs[at].end < col)
      BY <3>1, <1>4, <1>5, <1>14
    <3> QED BY <3>1, <3>2, <1>14 DEF RangePut, at
  <2>2. Covers(rs[at], col, id)
    BY <1>2, <1>14 DEF Covers
  <2>3. ASSUME NEW x, Holds(rs, col, x) PROVE x = id
    <3>1. PICK i \in 1 .. n : Covers(rs[i], col, x)
      BY <2>3 DEF Holds
    <3>2. ~(i \in 1 .. at - 1) /\ ~(i \in at + 1 .. n)
      BY <3>1, <1>8, <1>10, <1>14
    <3>3. i = at
      BY <3>2, <2>1, <1>1
    <3> QED BY <3>1, <3>3, <1>14 DEF Covers
  <2>4. Holds(rs, col, id)
    BY <2>1, <2>2 DEF Holds
  <2> QED BY <2>1, <2>3, <2>4
<1>15. CASE at > 0 /\ rs[at].end >= col /\ rs[at].id # id
  <2> DEFINE r == rs[at]
             l == Range1(r.start, col - 1, r.id)
             t == Range1(col + 1, r.end, r.id)
             left == IF r.start < col THEN <<l>> ELSE <<>>
             right == IF col < r.end THEN <<t>> ELSE <<>>
             mid == left \o <<one>> \o right
             split == SubSeq(rs, 1, at - 1) \o mid \o SubSeq(rs, at + 1, n)
  <2>1. /\ at \in 1 .. n /\ r \in Link /\ r.start <= col /\ col <= r.end /\ r.start \in Int /\ r.end \in Int
        /\ r.id \in Ids
    BY <1>1, <1>2, <1>4, <1>5, <1>15
  <2>2. RangePut(rs, col, id) = IF left # <<>> /\ right # <<>> THEN split ELSE Merged(split)
    <3>1. ~(rs[at].end < col)
      BY <2>1, <1>5
    <3>2. RangePut(rs, col, id) = SplitAround(rs, at, col, id)
      BY <3>1, <1>15 DEF RangePut, at
    <3> QED BY <3>2 DEF SplitAround, one
  <2>3. /\ r.start < col => l \in Link /\ l.start <= l.end
        /\ l.start = r.start /\ l.end = col - 1 /\ l.id = r.id
    <3>1. r.start \in 0 .. RowCols - 1 /\ col \in 0 .. RowCols - 1 /\ RowCols \in Nat
      BY <2>1, LinkIs DEF Columns
    <3>2. r.start < col => col - 1 \in 0 .. RowCols - 1
      BY <3>1
    <3> QED BY <2>1, <3>1, <3>2 DEF Range1, Link, Columns
  <2>4. /\ col < r.end => t \in Link /\ t.start <= t.end
        /\ t.start = col + 1 /\ t.end = r.end /\ t.id = r.id
    <3>1. r.end \in 0 .. RowCols - 1 /\ col \in 0 .. RowCols - 1 /\ RowCols \in Nat
      BY <2>1, LinkIs DEF Columns
    <3>2. col < r.end => col + 1 \in 0 .. RowCols - 1
      BY <3>1
    <3> QED BY <2>1, <3>1, <3>2 DEF Range1, Link, Columns
  <2> HIDE DEF r, l, t
  <2>5. /\ Links(left) /\ \A i \in 1 .. Len(left) : left[i] = l /\ r.start < col
        /\ \A c, x : Holds(left, c, x) <=> r.start < col /\ Covers(l, c, x)
    <3>1. CASE r.start < col
      BY <3>1, <2>3, OneLink
    <3>2. CASE ~(r.start < col)
      <4>1. left = <<>> /\ Len(<<>>) = 0 /\ 1 .. 0 = {}
        BY <3>2
      <4> QED BY <3>2, <4>1 DEF Links, Holds
    <3> QED BY <3>1, <3>2
  <2>6. /\ Links(right) /\ \A i \in 1 .. Len(right) : right[i] = t /\ col < r.end
        /\ \A c, x : Holds(right, c, x) <=> col < r.end /\ Covers(t, c, x)
    <3>1. CASE col < r.end
      BY <3>1, <2>4, OneLink
    <3>2. CASE ~(col < r.end)
      <4>1. right = <<>> /\ Len(<<>>) = 0 /\ 1 .. 0 = {}
        BY <3>2
      <4> QED BY <3>2, <4>1 DEF Links, Holds
    <3> QED BY <3>1, <3>2
  <2> HIDE DEF left, right
  <2>7. /\ Links(left \o <<one>>)
        /\ \A c, x : Holds(left \o <<one>>, c, x) <=> Holds(left, c, x) \/ Holds(<<one>>, c, x)
    <3>1. LeftOf(left, <<one>>)
      BY <1>3, <1>5, <2>3, <2>5 DEF LeftOf
    <3> QED BY <3>1, <1>6, <2>5, SideBySide
  <2> DEFINE lo == left \o <<one>>
  <2>8. /\ lo \in Seq(Link) /\ left \in Seq(Link) /\ right \in Seq(Link) /\ Len(lo) = Len(left) + 1
        /\ \A i \in 1 .. Len(lo) : lo[i].end <= col /\ r.start <= lo[i].start
    <3>1. lo \in Seq(Link) /\ left \in Seq(Link) /\ right \in Seq(Link) /\ Len(lo) = Len(left) + 1
      BY <1>3, <2>5, <2>6 DEF Links
    <3>2. ASSUME NEW i \in 1 .. Len(lo) PROVE lo[i].end <= col /\ r.start <= lo[i].start
      <4>1. CASE i <= Len(left)
        <5>1. i \in 1 .. Len(left) /\ lo[i] = left[i]
          BY <3>1, <4>1, <1>3
        <5>2. lo[i] = l
          BY <5>1, <2>5
        <5> QED BY <5>2, <1>5, <2>1, <2>3
      <4>2. CASE ~(i <= Len(left))
        <5>1. lo[i] = one
          BY <3>1, <4>2, <1>3
        <5> QED BY <5>1, <1>3, <1>5, <2>1
      <4> QED BY <4>1, <4>2
    <3> QED BY <3>1, <3>2
  <2> HIDE DEF lo
  <2>9. LeftOf(lo, right)
    <3> SUFFICES ASSUME NEW i \in 1 .. Len(lo), NEW j \in 1 .. Len(right) PROVE lo[i].end < right[j].start
      BY DEF LeftOf
    <3>1. right[j].start = col + 1 /\ lo[i].end <= col
      BY <2>4, <2>6, <2>8
    <3>2. lo[i].end \in Int
      BY <2>8, LinkIs
    <3> QED BY <3>1, <3>2, <1>5
  <2>10. /\ Links(lo \o right)
         /\ \A c, x : Holds(lo \o right, c, x) <=> Holds(lo, c, x) \/ Holds(right, c, x)
    BY <2>6, <2>7, <2>9, SideBySide DEF lo
  <2>11. mid = lo \o right
    BY DEF lo
  <2> HIDE DEF mid
  <2>12. ASSUME NEW c, NEW x
         PROVE  Holds(mid, c, x) <=> \/ r.start < col /\ Covers(l, c, x)
                                     \/ Covers(one, c, x)
                                     \/ col < r.end /\ Covers(t, c, x)
    BY <1>6, <2>5, <2>6, <2>7, <2>10, <2>11 DEF lo
  <2>13. ASSUME NEW i \in 1 .. Len(mid) PROVE r.start <= mid[i].start /\ mid[i].end <= r.end
    <3>1. CASE i <= Len(lo)
      <4>1. i \in 1 .. Len(lo) /\ mid[i] = lo[i]
        BY <2>8, <2>11, <3>1
      <4>2. lo[i] \in Link
        BY <4>1, <2>8
      <4>3. lo[i].end \in Int
        BY <4>2, LinkIs
      <4> QED BY <4>1, <4>3, <2>1, <2>8, <1>5
    <3>2. CASE ~(i <= Len(lo))
      <4>1. i - Len(lo) \in 1 .. Len(right) /\ mid[i] = right[i - Len(lo)]
        BY <2>8, <2>11, <3>2
      <4>2. mid[i] = t
        BY <4>1, <2>6
      <4> QED BY <4>2, <2>1, <2>4, <1>5
    <3> QED BY <3>1, <3>2
  <2>14. Links(mid)
    BY <2>10, <2>11
  <2>15. /\ at - 1 \in 0 .. n /\ at + 1 \in (at - 1) + 1 .. n + 1
         /\ \A i \in 1 .. at - 1, j \in 1 .. Len(mid) : rs[i].end < mid[j].start
         /\ \A i \in 1 .. Len(mid), j \in at + 1 .. n : mid[i].end < rs[j].start
    <3>1. at - 1 \in 0 .. n /\ at + 1 \in (at - 1) + 1 .. n + 1
      BY <1>1, <2>1
    <3>2. ASSUME NEW j \in 1 .. Len(mid) PROVE mid[j].start \in Int /\ mid[j].end \in Int
      BY <2>14, LinkIs DEF Links
    <3>3. ASSUME NEW i \in 1 .. at - 1, NEW j \in 1 .. Len(mid) PROVE rs[i].end < mid[j].start
      <4>1. rs[i].end < r.start /\ i \in 1 .. n
        BY <1>9, <2>1 DEF r
      <4>2. rs[i].end \in Int
        BY <4>1, <1>4
      <4> QED BY <4>1, <4>2, <3>2, <2>1, <2>13
    <3>4. ASSUME NEW i \in 1 .. Len(mid), NEW j \in at + 1 .. n PROVE mid[i].end < rs[j].start
      <4>1. j \in 1 .. n /\ at < j
        BY <1>1, <2>1
      <4>2. r.end < rs[j].start
        BY <4>1, <2>1 DEF Links, r
      <4>3. rs[j].start \in Int
        BY <4>1, <1>4
      <4> QED BY <4>2, <4>3, <3>2, <2>1, <2>13
    <3> QED BY <3>1, <3>3, <3>4
  <2>16. /\ Links(split)
         /\ \A c, x : Holds(split, c, x) <=> \/ \E i \in 1 .. at - 1 : Covers(rs[i], c, x)
                                            \/ Holds(mid, c, x)
                                            \/ \E i \in at + 1 .. n : Covers(rs[i], c, x)
    BY <2>14, <2>15, Between
  <2> HIDE DEF split
  <2>17. ASSUME NEW c, NEW x
         PROVE  Holds(rs, c, x) <=> \/ \E i \in 1 .. at - 1 : Covers(rs[i], c, x)
                                    \/ Covers(r, c, x)
                                    \/ \E i \in at + 1 .. n : Covers(rs[i], c, x)
    <3>1. 1 .. n = (1 .. at - 1) \cup {at} \cup (at + 1 .. n)
      BY <1>1, <2>1
    <3> QED BY <3>1 DEF Holds, r
  <2>18. ASSUME NEW c \in Columns, NEW x
         PROVE  Holds(mid, c, x) <=> IF c = col THEN x = id ELSE Covers(r, c, x)
    <3>1. c \in Int
      BY <1>5
    <3>2. Covers(l, c, x) <=> r.start <= c /\ c <= col - 1 /\ r.id = x
      BY <2>3 DEF Covers
    <3>3. Covers(t, c, x) <=> col + 1 <= c /\ c <= r.end /\ r.id = x
      BY <2>4 DEF Covers
    <3>4. Covers(r, c, x) <=> r.start <= c /\ c <= r.end /\ r.id = x
      BY DEF Covers
    <3>5. CASE c = col
      BY <3>1, <3>2, <3>3, <3>5, <1>5, <1>7, <2>12
    <3>6. CASE c # col
      BY <3>1, <3>2, <3>3, <3>4, <3>6, <1>5, <1>7, <2>1, <2>12
    <3> QED BY <3>5, <3>6
  <2>19. Right(split)
    <3> SUFFICES ASSUME NEW c \in Columns, NEW x \in Ids
                 PROVE  Holds(split, c, x) <=> IF c = col THEN x = id ELSE Holds(rs, c, x)
      OBVIOUS
    <3>1. CASE c = col
      BY <3>1, <1>8, <1>10, <1>15, <2>16, <2>18
    <3>2. CASE c # col
      BY <3>2, <2>16, <2>17, <2>18
    <3> QED BY <3>1, <3>2
  <2>20. Links(Merged(split)) /\ Right(Merged(split))
    <3>1. /\ Links(Merged(split))
          /\ \A c \in Columns : \A x : Holds(Merged(split), c, x) <=> Holds(split, c, x)
      BY <2>16, MergedIs
    <3> QED BY <3>1, <2>19
  <2> QED BY <2>2, <2>16, <2>19, <2>20
<1>16. at = 0 \/ (at > 0 /\ at \in 1 .. n)
  BY <1>1, <1>2
<1>17. at > 0 => rs[at].end < col \/ rs[at].end >= col
  BY <1>4, <1>5, <1>16
<1> QED BY <1>11, <1>12, <1>13, <1>14, <1>15, <1>16, <1>17

-----------------------------------------------------------------------------
(* Printing and erasing keep the invariant.                                *)
LEMMA RangesKeep ==
  ASSUME RangesInv, [RangesNext]_rangesVars
  PROVE  RangesInv'
<1>0. None \notin Ids
  BY RowRangesAssumption
<1>1. CASE PutRange
  <2>1. PICK col \in Columns, id \in Ids :
          ranges' = RangePut(ranges, col, id) /\ columns' = [columns EXCEPT ![col] = id]
    BY <1>1 DEF PutRange
  <2>2. /\ Links(ranges')
        /\ \A c \in Columns, x \in Ids : Holds(ranges', c, x) <=> IF c = col THEN x = id ELSE Holds(ranges, c, x)
    BY <2>1, PutIs DEF RangesInv
  <2>3. /\ columns' \in [Columns -> Ids \cup {None}]
        /\ \A c \in Columns : columns'[c] = IF c = col THEN id ELSE columns[c]
    BY <2>1 DEF RangesInv
  <2> QED BY <2>2, <2>3 DEF RangesInv
<1>2. CASE EraseRange
  <2>1. PICK start \in Columns, end \in Columns :
          /\ start <= end /\ ranges' = Erase(ranges, start, end)
          /\ columns' = [c \in Columns |-> IF c \in start .. end THEN None ELSE columns[c]]
    BY <1>2 DEF EraseRange
  <2>2. /\ Links(ranges')
        /\ \A c \in Columns : \A x : Holds(ranges', c, x) <=> Holds(ranges, c, x) /\ c \notin start .. end
    BY <2>1, EraseIs DEF RangesInv
  <2> QED BY <1>0, <2>1, <2>2 DEF RangesInv
<1>3. CASE UNCHANGED rangesVars
  BY <1>3 DEF rangesVars, RangesInv
<1> QED BY <1>1, <1>2, <1>3 DEF RangesNext

(* The invariant says that the ranges stand for the columns.               *)
LEMMA RangesAreExact ==
  ASSUME RangesInv
  PROVE  RangesExact
<1>1. ranges \in Seq(Link) /\ DOMAIN ranges = 1 .. Len(ranges) /\ Len(ranges) \in Nat
  BY DEF RangesInv, Links
<1>2. Sorted
  <2> SUFFICES ASSUME NEW i \in 1 .. Len(ranges)
               PROVE  /\ 0 <= ranges[i].start /\ ranges[i].start <= ranges[i].end /\ ranges[i].end < RowCols
                      /\ i > 1 => ranges[i - 1].end < ranges[i].start
    BY <1>1 DEF Sorted
  <2>1. ranges[i] \in Link /\ ranges[i].start <= ranges[i].end
    BY <1>1 DEF RangesInv, Links
  <2>2. ranges[i].start \in 0 .. RowCols - 1 /\ ranges[i].end \in 0 .. RowCols - 1 /\ RowCols \in Nat
    BY <2>1, LinkIs
  <2>3. i > 1 => i - 1 \in 1 .. Len(ranges) /\ i - 1 < i
    BY <1>1
  <2> QED BY <2>1, <2>2, <2>3 DEF RangesInv, Links
<1>3. ASSUME NEW c \in Columns
      PROVE  columns[c] = IF \E i \in DOMAIN ranges : c \in ranges[i].start .. ranges[i].end
                          THEN LET i == CHOOSE i \in DOMAIN ranges : c \in ranges[i].start .. ranges[i].end
                               IN  ranges[i].id
                          ELSE None
  <2>1. ASSUME NEW i \in 1 .. Len(ranges)
        PROVE  /\ ranges[i].start \in Int /\ ranges[i].end \in Int /\ ranges[i].id \in Ids
               /\ c \in ranges[i].start .. ranges[i].end <=> Covers(ranges[i], c, ranges[i].id)
    <3>1. ranges[i].start \in Int /\ ranges[i].end \in Int /\ ranges[i].id \in Ids
      BY <1>1, LinkIs
    <3>2. c \in Int
      BY DEF Columns
    <3> QED BY <3>1, <3>2 DEF Covers
  <2>2. CASE \E i \in DOMAIN ranges : c \in ranges[i].start .. ranges[i].end
    <3> DEFINE i == CHOOSE i \in DOMAIN ranges : c \in ranges[i].start .. ranges[i].end
    <3>1. i \in 1 .. Len(ranges) /\ c \in ranges[i].start .. ranges[i].end
      BY <1>1, <2>2
    <3> HIDE DEF i
    <3>2. Holds(ranges, c, ranges[i].id) /\ ranges[i].id \in Ids
      BY <2>1, <3>1 DEF Holds
    <3>3. columns[c] = ranges[i].id
      BY <3>2 DEF RangesInv
    <3> QED BY <2>2, <3>3 DEF i
  <2>3. CASE ~\E i \in DOMAIN ranges : c \in ranges[i].start .. ranges[i].end
    <3>1. ASSUME NEW x \in Ids PROVE ~Holds(ranges, c, x)
      <4> SUFFICES ASSUME NEW i \in 1 .. Len(ranges), Covers(ranges[i], c, x) PROVE FALSE
        BY DEF Holds
      <4>1. Covers(ranges[i], c, ranges[i].id)
        BY DEF Covers
      <4> QED BY <4>1, <1>1, <2>1, <2>3
    <3>2. columns[c] \notin Ids /\ columns[c] \in Ids \cup {None}
      BY <3>1 DEF RangesInv
    <3> QED BY <2>3, <3>2
  <2> QED BY <2>2, <2>3
<1>4. columns = [c \in Columns |->
                   IF \E i \in DOMAIN ranges : c \in ranges[i].start .. ranges[i].end
                   THEN LET i == CHOOSE i \in DOMAIN ranges : c \in ranges[i].start .. ranges[i].end
                        IN  ranges[i].id
                   ELSE None]
  <2>1. columns \in [Columns -> Ids \cup {None}]
    BY DEF RangesInv
  <2> QED BY <2>1, <1>3
<1> QED BY <1>2, <1>4 DEF RangesExact

(* The ranges of a row stand for exactly the links that were put in its    *)
(* columns: for rows of any width and any number of links.                 *)
THEOREM TheRangesAreExact ==
  RangesSpec => []RangesExact
<1>1. RangesInit => RangesInv
  <2> SUFFICES ASSUME RangesInit PROVE RangesInv
    OBVIOUS
  <2>1. Links(<<>>) /\ \A c, x : ~Holds(<<>>, c, x)
    BY DEF Links, Holds
  <2> QED BY <2>1, RowRangesAssumption DEF RangesInit, RangesInv
<1>2. RangesInv /\ [RangesNext]_rangesVars => RangesInv'
  BY RangesKeep
<1>3. RangesInv => RangesExact
  BY RangesAreExact
<1> QED BY <1>1, <1>2, <1>3, PTL DEF RangesSpec

-----------------------------------------------------------------------------
(* 3. The decoder of sixels.                                               *)

Image == [width : Nat, height : Int, alloc : Nat, ink : SUBSET (Nat \X Nat)]

Shape == [pan : Nat \ {0}, pad : Nat \ {0}, transparent : BOOLEAN, square : BOOLEAN]

Position == [row : Nat, col : Nat, bottom : SUBSET (0 .. Sixel - 1)]

DecoderTypes ==
  /\ img \in Image
  /\ pos \in Position
  /\ shape \in Shape
  /\ chars \in Nat
  /\ stage \in [at : {"decoding", "done", "shrunk"}, full : BOOLEAN, reshaped : BOOLEAN]

(* How many rows of pixels of the current sixels are drawn, at most.       *)
DrawnRows(s, p) == IF p.bottom = {} THEN 0 ELSE (Max(p.bottom) + 1) * s.pan

(* The next sixel fits in the image i.                                     *)
RoomIn(i, p, s) ==
  p.col <= MaxWidth =>
    (i.height = 0 /\ p.row = 0) \/ p.row + RowHeight(s) <= i.alloc

(* What an image that grows is at least.                                   *)
Grown(i, s) ==
  /\ i.height \in Nat
  /\ i.width <= MaxWidth
  /\ i.width > 0 => i.height > 0
  /\ ~stage.reshaped => i.alloc = RoundUp(i.height, s)

InkInside(i) == \A p \in i.ink : p[1] < i.alloc /\ p[2] < i.width

Aligned ==
  /\ Multiple(pos.row, RowHeight(shape))
  /\ RoomIn(img, pos, shape)
  /\ ~stage.full => pos.col <= MaxWidth
  /\ \A p \in img.ink : p[1] < pos.row + DrawnRows(shape, pos)

Finished ==
  ~stage.full => \A p \in img.ink : p[1] < img.height /\ (pos.col > 0 => p[1] < pos.row)

DecoderInv ==
  /\ DecoderTypes
  /\ img.width <= MaxWidth
  /\ Decoding => Grown(img, shape)
  /\ ~stage.reshaped =>
      /\ InkInside(img)
      /\ Decoding => Aligned
      /\ stage.at = "done" => Finished

-----------------------------------------------------------------------------
(* The rows of a sixel.                                                    *)
LEMMA RowHeightIs ==
  ASSUME NEW s \in Shape
  PROVE  /\ RowHeight(s) \in Nat \ {0}
         /\ s.pan \in Nat \ {0} /\ s.pan <= RowHeight(s)
         /\ \A b \in 0 .. Sixel : b * s.pan \in Nat /\ b * s.pan <= RowHeight(s)
<1>1. s.pan \in Nat \ {0} /\ Sixel \in Nat \ {0}
  BY DecoderAssumption DEF Shape
<1>2. RowHeight(s) \in Nat \ {0} /\ s.pan <= RowHeight(s)
  BY <1>1 DEF RowHeight
<1>3. ASSUME NEW b \in 0 .. Sixel PROVE b * s.pan \in Nat /\ b * s.pan <= RowHeight(s)
  <2>1. PICK d \in Nat : Sixel = b + d
    <3>1. Sixel - b \in Nat /\ Sixel = b + (Sixel - b)
      BY <1>1
    <3> QED BY <3>1
  <2>2. Sixel * s.pan = b * s.pan + d * s.pan /\ d * s.pan \in Nat /\ b * s.pan \in Nat
    BY <2>1, <1>1
  <2> QED BY <2>2 DEF RowHeight
<1> QED BY <1>1, <1>2, <1>3

(* An allocation is a multiple of a sixel's rows that holds the image.     *)
LEMMA RoundUpIs ==
  ASSUME NEW s \in Shape,
         NEW h \in Nat
  PROVE  /\ RoundUp(h, s) \in Nat /\ Multiple(RoundUp(h, s), RowHeight(s))
         /\ h <= RoundUp(h, s) /\ RoundUp(h, s) < h + RowHeight(s)
<1> DEFINE n == RowHeight(s)
<1>1. n \in Nat \ {0}
  BY RowHeightIs
<1>2. RoundUp(h, s) = ((h + n - 1) \div n) * n
  BY DEF RoundUp
<1> HIDE DEF n
<1>3. LET u == ((h + n - 1) \div n) * n
      IN  u \in Nat /\ Multiple(u, n) /\ h <= u /\ u < h + n
  BY <1>1, RoundsUp
<1> QED BY <1>2, <1>3 DEF n

(* No row at all needs no room; one needs a whole sixel.                   *)
LEMMA RoundUpSmall ==
  ASSUME NEW s \in Shape
  PROVE  /\ RoundUp(0, s) = 0
         /\ \A h \in Nat \ {0} : RowHeight(s) <= RoundUp(h, s)
<1> DEFINE n == RowHeight(s)
<1>1. n \in Nat \ {0} /\ Multiple(0, n)
  BY RowHeightIs DEF Multiple
<1>2. ASSUME NEW h \in Nat
      PROVE  RoundUp(h, s) \in Nat /\ Multiple(RoundUp(h, s), n) /\ h <= RoundUp(h, s) /\ RoundUp(h, s) < h + n
  BY RoundUpIs
<1> HIDE DEF n
<1>3. RoundUp(0, s) = 0
  <2> SUFFICES ASSUME 0 < RoundUp(0, s) PROVE FALSE
    BY <1>2
  <2>1. 0 + n <= RoundUp(0, s)
    BY <1>1, <1>2, NextMultiple
  <2> QED BY <2>1, <1>1, <1>2
<1>4. ASSUME NEW h \in Nat \ {0} PROVE n <= RoundUp(h, s)
  <2>1. 0 < RoundUp(h, s) /\ RoundUp(h, s) \in Nat /\ Multiple(RoundUp(h, s), n)
    BY <1>2
  <2>2. 0 + n <= RoundUp(h, s)
    BY <2>1, <1>1, NextMultiple
  <2> QED BY <2>2, <1>1
<1> QED BY <1>3, <1>4 DEF n

(* The least multiple: one that holds h holds all of its round up.         *)
LEMMA RoundUpLeast ==
  ASSUME NEW s \in Shape,
         NEW h \in Nat, NEW a \in Nat, Multiple(a, RowHeight(s)), h <= a
  PROVE  RoundUp(h, s) <= a
<1> DEFINE n == RowHeight(s)
<1>1. n \in Nat \ {0}
  BY RowHeightIs
<1>2. RoundUp(h, s) \in Nat /\ Multiple(RoundUp(h, s), n) /\ h <= RoundUp(h, s) /\ RoundUp(h, s) < h + n
  BY RoundUpIs
<1>3. CASE a < RoundUp(h, s)
  <2>1. a + n <= RoundUp(h, s)
    <3> HIDE DEF n
    <3> QED BY <1>1, <1>2, <1>3, NextMultiple DEF n
  <2> QED BY <2>1, <1>1, <1>2
<1> QED BY <1>2, <1>3

-----------------------------------------------------------------------------
(* The rows drawn of a sixel are those up to its lowest pixel.             *)
LEMMA DrawnRowsIs ==
  ASSUME NEW s \in Shape,
         NEW p \in Position
  PROVE  /\ DrawnRows(s, p) \in Nat /\ DrawnRows(s, p) <= RowHeight(s)
         /\ \A b \in p.bottom, r \in 0 .. s.pan - 1 : b * s.pan + r < DrawnRows(s, p)
         /\ p.bottom # {} => \E b \in p.bottom : Max(p.bottom) = b
<1>0. s.pan \in Nat \ {0} /\ Sixel \in Nat \ {0} /\ p.bottom \subseteq 0 .. Sixel - 1
  BY DecoderAssumption DEF Shape, Position
<1>1. CASE p.bottom = {}
  BY <1>1, RowHeightIs DEF DrawnRows
<1>2. CASE p.bottom # {}
  <2> DEFINE T == p.bottom
             m == Max(T)
  <2>1. m \in T /\ \A y \in T : m >= y
    <3>1. \E x \in T : \A y \in T : y <= x
      <4>1. T \subseteq 0 .. Sixel - 1 /\ T # {} /\ Sixel - 1 \in Nat
        BY <1>0, <1>2
      <4> HIDE DEF T
      <4> QED BY <4>1, LargestOf
    <3>2. \E x \in T : \A y \in T : x >= y
      BY <3>1, <1>0
    <3> QED BY <3>2 DEF Max
  <2> HIDE DEF m
  <2>2. m \in 0 .. Sixel - 1 /\ m + 1 \in 0 .. Sixel
    BY <2>1, <1>0
  <2>3. DrawnRows(s, p) = (m + 1) * s.pan
    BY <1>2 DEF DrawnRows, m
  <2>4. DrawnRows(s, p) \in Nat /\ DrawnRows(s, p) <= RowHeight(s)
    BY <2>2, <2>3, RowHeightIs
  <2>5. ASSUME NEW b \in T, NEW r \in 0 .. s.pan - 1 PROVE b * s.pan + r < (m + 1) * s.pan
    <3>1. b \in Nat /\ b <= m
      BY <2>1, <2>2, <1>0
    <3>2. PICK d \in Nat : m = b + d
      BY <3>1, <2>2
    <3>3. (m + 1) * s.pan = (b * s.pan) + (d * s.pan) + s.pan /\ d * s.pan \in Nat /\ b * s.pan \in Nat
      BY <3>1, <3>2, <1>0
    <3> QED BY <3>3, <1>0
  <2> QED BY <2>1, <2>3, <2>4, <2>5 DEF m
<1> QED BY <1>1, <1>2

(* More of a sixel is no less.                                             *)
LEMMA DrawnRowsGrow ==
  ASSUME NEW s \in Shape,
         NEW p \in Position,
         NEW q \in Position,
         p.bottom \subseteq q.bottom
  PROVE  DrawnRows(s, p) <= DrawnRows(s, q)
<1>1. DrawnRows(s, q) \in Nat
  BY DrawnRowsIs
<1>2. CASE p.bottom = {}
  BY <1>1, <1>2 DEF DrawnRows
<1>3. CASE p.bottom # {}
  <2>0. s.pan \in Nat \ {0} /\ q.bottom \subseteq 0 .. Sixel - 1 /\ Sixel \in Nat
    BY DecoderAssumption DEF Shape, Position
  <2>1. PICK b \in p.bottom : Max(p.bottom) = b
    BY <1>3, DrawnRowsIs
  <2>2. b \in Nat /\ b \in q.bottom /\ s.pan - 1 \in 0 .. s.pan - 1
    BY <2>0
  <2>3. b * s.pan + (s.pan - 1) < DrawnRows(s, q)
    BY <2>2, DrawnRowsIs
  <2>4. DrawnRows(s, p) = (b + 1) * s.pan
    BY <1>3, <2>1 DEF DrawnRows
  <2>5. (b + 1) * s.pan = (b * s.pan) + s.pan /\ b * s.pan \in Nat
    BY <2>0, <2>2
  <2> QED BY <2>0, <2>3, <2>4, <2>5, <1>1
<1> QED BY <1>2, <1>3

-----------------------------------------------------------------------------
(* The decoder begins with an empty image.                                 *)
LEMMA DecoderBegins ==
  ASSUME DecoderInit
  PROVE  DecoderInv
<1>1. PICK pan \in Pans, transparent \in BOOLEAN :
        shape = [pan |-> pan, pad |-> 1, transparent |-> transparent, square |-> pan = 1]
  BY DEF DecoderInit
<1>2. pan \in Nat \ {0} /\ MaxWidth \in Nat \ {0}
  BY DecoderAssumption
<1>3. shape \in Shape
  BY <1>1, <1>2 DEF Shape
<1>4. DecoderTypes
  BY <1>3 DEF DecoderTypes, DecoderInit, Image, Position
<1>5. RoundUp(0, shape) = 0 /\ Multiple(0, RowHeight(shape))
  BY <1>3, RoundUpSmall, RowHeightIs DEF Multiple
<1>6. Grown(img, shape)
  BY <1>2, <1>5 DEF Grown, DecoderInit
<1>7. InkInside(img) /\ Aligned
  BY <1>2, <1>5 DEF InkInside, Aligned, RoomIn, DecoderInit
<1> QED BY <1>2, <1>4, <1>6, <1>7 DEF DecoderInv, DecoderInit, Decoding

(* An image that was made wider, or not.                                   *)
Wider(i) ==
  /\ i \in Image /\ i.ink = img.ink
  /\ img.width <= i.width
  /\ Grown(i, shape)
  /\ ~stage.reshaped => img.alloc <= i.alloc /\ RoomIn(i, pos, shape)

(* An image that is widened is allocated and holds the pixels it had.      *)
LEMMA WidenedIs ==
  ASSUME DecoderInv, Decoding
  PROVE  /\ Wider(img)
         /\ \A width \in Nat : Wider(Widened(img, width)) /\ Widened(img, width).width >= Least(width, MaxWidth)
<1>0. MaxWidth \in Nat /\ shape \in Shape /\ pos \in Position /\ img \in Image /\ RowHeight(shape) \in Nat \ {0}
  BY RowHeightIs, DecoderAssumption DEF DecoderInv, DecoderTypes
<1>1. Grown(img, shape) /\ (~stage.reshaped => RoomIn(img, pos, shape))
  BY DEF DecoderInv, Aligned
<1>2. Wider(img)
  BY <1>0, <1>1 DEF Wider, Image
<1>3. ASSUME NEW width \in Nat
      PROVE  Wider(Widened(img, width)) /\ Widened(img, width).width >= Least(width, MaxWidth)
  <2> DEFINE new == Least(width, MaxWidth)
             height == IF img.height = 0 THEN RowHeight(shape) ELSE img.height
             wide == [img EXCEPT !.width = new, !.height = height, !.alloc = RoundUp(height, shape)]
  <2>1. new \in Nat /\ new <= MaxWidth
    BY <1>0 DEF Least
  <2>2. CASE img.width >= new
    BY <1>2, <2>2 DEF Widened
  <2>3. CASE ~(img.width >= new)
    <3>1. Widened(img, width) = wide
      BY <2>3 DEF Widened
    <3>2. height \in Nat \ {0} /\ RoundUp(height, shape) \in Nat
      BY <1>0, <1>1, RoundUpIs DEF Grown
    <3>3. RowHeight(shape) <= RoundUp(height, shape)
      BY <1>0, <3>2, RoundUpSmall
    <3> HIDE DEF new, height
    <3>4. /\ wide.width = new /\ wide.height = height /\ wide.alloc = RoundUp(height, shape)
          /\ wide.ink = img.ink /\ wide \in Image
      <4> DEFINE alloc == RoundUp(height, shape)
      <4>1. alloc \in Nat
        BY <3>2
      <4> HIDE DEF alloc
      <4>2. wide = [width |-> new, height |-> height, alloc |-> alloc, ink |-> img.ink]
        <5>1. wide = [img EXCEPT !.width = new, !.height = height, !.alloc = alloc]
          BY DEF alloc
        <5> HIDE DEF wide
        <5> QED BY <1>0, <5>1 DEF Image
      <4>3. height \in Int /\ img.ink \in SUBSET (Nat \X Nat)
        BY <1>0, <3>2 DEF Image
      <4> HIDE DEF wide
      <4> QED BY <2>1, <4>1, <4>2, <4>3 DEF Image, alloc
    <3>5. img.width \in Nat /\ img.height \in Nat /\ img.alloc \in Nat /\ pos.row \in Nat /\ pos.col \in Nat
      BY <1>0, <1>1 DEF Image, Position, Grown
    <3>6. Grown(wide, shape)
      BY <2>1, <3>2, <3>4 DEF Grown
    <3>7. ASSUME ~stage.reshaped PROVE img.alloc <= wide.alloc /\ RoomIn(wide, pos, shape)
      <4>1. CASE img.height = 0
        <5>1. img.alloc = 0
          BY <4>1, <3>7, <1>0, <1>1, RoundUpSmall DEF Grown
        <5>2. pos.col <= MaxWidth => pos.row + RowHeight(shape) <= wide.alloc
          BY <5>1, <1>0, <1>1, <3>3, <3>4, <3>5, <3>7 DEF RoomIn
        <5> QED BY <5>1, <5>2, <3>2, <3>4 DEF RoomIn
      <4>2. CASE img.height # 0
        <5>1. wide.height = img.height /\ wide.alloc = img.alloc
          BY <4>2, <3>7, <3>4, <1>1 DEF Grown, height
        <5> QED BY <5>1, <1>1, <3>5, <3>7 DEF RoomIn
      <4> QED BY <4>1, <4>2
    <3>8. img.width <= wide.width /\ wide.width >= new
      BY <2>1, <2>3, <3>4, <3>5
    <3> HIDE DEF wide
    <3> QED BY <3>1, <3>4, <3>6, <3>7, <3>8 DEF Wider, new
  <2> QED BY <2>2, <2>3
<1> QED BY <1>2, <1>3

(* The pixels of a sixel are in the rows of the next one, and in those     *)
(* that the sixel draws.                                                   *)
LEMMA DrawnIs ==
  ASSUME pos \in Position, shape \in Shape,
         NEW bits \in SUBSET (0 .. Sixel - 1), NEW count \in Nat
  PROVE  /\ Drawn(bits, count) \in SUBSET (Nat \X Nat)
         /\ \A p \in Drawn(bits, count) :
              /\ count > 0 /\ p[2] < pos.col + count
              /\ p[1] < pos.row + DrawnRows(shape, [pos EXCEPT !.bottom = @ \cup bits])
<1>1. pos.row \in Nat /\ pos.col \in Nat /\ shape.pan \in Nat \ {0} /\ bits \subseteq 0 .. Sixel - 1 /\ Sixel \in Nat
  BY DecoderAssumption DEF Position, Shape
<1> DEFINE next == [pos EXCEPT !.bottom = @ \cup bits]
<1>2. next \in Position /\ next.bottom = pos.bottom \cup bits
  BY DEF Position
<1>3. \A b \in next.bottom, r \in 0 .. shape.pan - 1 : b * shape.pan + r < DrawnRows(shape, next)
  <2> HIDE DEF next
  <2> QED BY <1>2, DrawnRowsIs
<1>4. DrawnRows(shape, next) \in Nat
  <2> HIDE DEF next
  <2> QED BY <1>2, DrawnRowsIs
<1> HIDE DEF next
<1>5. ASSUME NEW p \in Drawn(bits, count)
      PROVE  /\ p \in Nat \X Nat /\ count > 0 /\ p[2] < pos.col + count
             /\ p[1] < pos.row + DrawnRows(shape, next)
  <2>1. PICK b \in bits, r \in 0 .. shape.pan - 1, c \in pos.col .. pos.col + count - 1 :
          p = <<pos.row + b * shape.pan + r, c>>
    BY <1>5 DEF Drawn
  <2>2. b \in Nat /\ r \in Nat /\ b * shape.pan \in Nat
    BY <1>1
  <2>3. b * shape.pan + r < DrawnRows(shape, next)
    BY <1>2, <1>3
  <2>4. c \in Nat /\ c < pos.col + count /\ count > 0
    BY <1>1
  <2>5. pos.row + b * shape.pan + r = pos.row + (b * shape.pan) + r
    BY <1>1, <2>2
  <2> DEFINE x == b * shape.pan
  <2>6. p = <<pos.row + x + r, c>> /\ x \in Nat /\ x + r < DrawnRows(shape, next)
    BY <2>1, <2>2, <2>3
  <2> HIDE DEF x
  <2> QED BY <2>6, <2>2, <2>4, <1>1, <1>4
<1> QED BY <1>5 DEF next

(* A sixel that is printed, wherever the cursor is, keeps the invariant.   *)
LEMMA PrintedKeeps ==
  ASSUME DecoderInv, Decoding, NEW wide, Wider(wide),
         NEW bits \in SUBSET (0 .. Sixel - 1), NEW count \in Nat,
         count > 0 => pos.col + count <= wide.width,
         SixelPrinted(wide, bits, count), UNCHANGED <<shape, stage>>, chars' \in Nat
  PROVE  DecoderInv'
<1>0. /\ MaxWidth \in Nat /\ shape \in Shape /\ pos \in Position /\ img \in Image /\ wide \in Image
      /\ Grown(wide, shape) /\ RowHeight(shape) \in Nat \ {0} /\ Sixel \in Nat
      /\ stage \in [at : {"decoding", "done", "shrunk"}, full : BOOLEAN, reshaped : BOOLEAN]
  BY RowHeightIs, DecoderAssumption DEF DecoderInv, DecoderTypes, Wider
<1>1. /\ pos.row \in Nat /\ pos.col \in Nat /\ wide.alloc \in Nat /\ wide.width \in Nat /\ wide.height \in Nat
      /\ img.alloc \in Nat /\ img.width \in Nat
  BY <1>0 DEF Position, Image, Grown
<1>2. CASE count = 0
  <2>1. img' = wide /\ pos' = pos
    <3>1. img' = [wide EXCEPT !.ink = wide.ink \cup {}]
      BY <1>2 DEF SixelPrinted
    <3> QED BY <1>0, <1>2, <3>1 DEF SixelPrinted, Image
  <2>2. DecoderTypes'
    BY <1>0, <2>1 DEF DecoderTypes
  <2>3. Grown(img', shape') /\ img'.width <= MaxWidth
    BY <1>0, <2>1 DEF Grown
  <2>4. ASSUME ~stage.reshaped PROVE InkInside(wide) /\ Aligned'
    <3>1. InkInside(img) /\ Aligned /\ wide.ink = img.ink /\ img.alloc <= wide.alloc /\ img.width <= wide.width
          /\ RoomIn(wide, pos, shape)
      BY <2>4 DEF DecoderInv, Wider
    <3>2. InkInside(wide)
      <4> SUFFICES ASSUME NEW p \in wide.ink PROVE p[1] < wide.alloc /\ p[2] < wide.width
        BY DEF InkInside
      <4>1. p \in Nat \X Nat /\ p[1] < img.alloc /\ p[2] < img.width
        BY <3>1, <1>0 DEF InkInside, Image
      <4> QED BY <4>1, <3>1, <1>1
    <3>3. Aligned'
      BY <3>1, <2>1 DEF Aligned
    <3> QED BY <3>2, <3>3
  <2> QED BY <2>1, <2>2, <2>3, <2>4 DEF DecoderInv, Grown, InkInside, Decoding
<1>3. CASE count # 0
  <2> DEFINE new == Drawn(bits, count)
             next == [pos EXCEPT !.bottom = @ \cup bits]
  <2>1. /\ img' = [wide EXCEPT !.ink = @ \cup new]
        /\ pos' = [pos EXCEPT !.col = @ + count, !.bottom = @ \cup bits]
    BY <1>3 DEF SixelPrinted
  <2>2. new \in SUBSET (Nat \X Nat)
    BY <1>0, DrawnIs
  <2>3. \A p \in new : p[2] < pos.col + count /\ p[1] < pos.row + DrawnRows(shape, next)
    BY <1>0, DrawnIs
  <2> HIDE DEF new
  <2>4. /\ img' \in Image /\ img'.width = wide.width /\ img'.height = wide.height /\ img'.alloc = wide.alloc
        /\ img'.ink = wide.ink \cup new
    BY <1>0, <2>1, <2>2 DEF Image
  <2>5. /\ pos' \in Position /\ pos'.row = pos.row /\ pos'.col = pos.col + count
        /\ pos'.bottom = pos.bottom \cup bits
    <3> DEFINE col == pos.col + count
    <3>1. col \in Nat /\ pos.bottom \cup bits \in SUBSET (0 .. Sixel - 1)
      <4>1. pos.bottom \in SUBSET (0 .. Sixel - 1)
        BY <1>0 DEF Position
      <4>2. pos.bottom \cup bits \in SUBSET (0 .. Sixel - 1)
        BY <4>1
      <4> QED BY <1>1, <4>2
    <3>2. pos' = [row |-> pos.row, col |-> col, bottom |-> pos.bottom \cup bits]
      BY <1>0, <2>1 DEF Position
    <3> HIDE DEF col
    <3>3. pos'.row = pos.row /\ pos'.col = col /\ pos'.bottom = pos.bottom \cup bits
      BY <3>2
    <3> QED BY <1>1, <3>1, <3>2, <3>3 DEF Position, col
  <2>6. DecoderTypes'
    BY <1>0, <2>4, <2>5 DEF DecoderTypes
  <2>7. Grown(img', shape') /\ img'.width <= MaxWidth
    BY <1>0, <2>4 DEF Grown
  <2>8. ASSUME ~stage.reshaped PROVE InkInside(img') /\ Aligned'
    <3>1. InkInside(img) /\ Aligned /\ wide.ink = img.ink /\ img.alloc <= wide.alloc /\ img.width <= wide.width
          /\ RoomIn(wide, pos, shape)
      BY <2>8 DEF DecoderInv, Wider
    <3>2. next \in Position /\ next.bottom = pos'.bottom /\ pos.bottom \subseteq next.bottom
      BY <1>0, <2>5 DEF Position
    <3> HIDE DEF next
    <3>3. DrawnRows(shape, next) = DrawnRows(shape, pos')
      BY <3>2 DEF DrawnRows
    <3>4. /\ DrawnRows(shape, next) \in Nat /\ DrawnRows(shape, next) <= RowHeight(shape)
          /\ DrawnRows(shape, pos) \in Nat
      BY <1>0, <3>2, DrawnRowsIs
    <3>5. DrawnRows(shape, pos) <= DrawnRows(shape, next)
      BY <1>0, <3>2, DrawnRowsGrow
    <3>6. pos.row + RowHeight(shape) <= wide.alloc /\ pos.col + count <= wide.width /\ pos.col + count <= MaxWidth
      <4>1. pos.col + count <= wide.width /\ wide.width > 0 /\ wide.width <= MaxWidth
        BY <1>0, <1>1, <1>3 DEF Grown
      <4>2. wide.height > 0 /\ pos.col <= MaxWidth
        BY <4>1, <1>0, <1>1 DEF Grown
      <4> QED BY <4>1, <4>2, <3>1, <1>0, <1>1 DEF RoomIn
    <3>7. \A p \in img'.ink : p[1] < img'.alloc /\ p[2] < img'.width /\ p[1] < pos'.row + DrawnRows(shape', pos')
      <4> SUFFICES ASSUME NEW p \in img'.ink
                   PROVE  p[1] < wide.alloc /\ p[2] < wide.width /\ p[1] < pos.row + DrawnRows(shape, next)
        BY <2>4, <2>5, <3>3
      <4>1. CASE p \in new
        <5>1. p \in Nat \X Nat /\ p[2] < pos.col + count /\ p[1] < pos.row + DrawnRows(shape, next)
          BY <4>1, <2>2, <2>3
        <5> QED BY <5>1, <3>4, <3>6, <1>0, <1>1
      <4>2. CASE p \in img.ink
        <5>1. p \in Nat \X Nat /\ p[1] < img.alloc /\ p[2] < img.width /\ p[1] < pos.row + DrawnRows(shape, pos)
          BY <4>2, <3>1, <1>0 DEF InkInside, Image, Aligned
        <5> QED BY <5>1, <3>1, <3>4, <3>5, <1>1
      <4> QED BY <4>1, <4>2, <2>4, <3>1
    <3>8. RoomIn(img', pos', shape') /\ (~stage'.full => pos'.col <= MaxWidth)
      BY <3>1, <3>6, <2>4, <2>5 DEF RoomIn
    <3>9. Multiple(pos'.row, RowHeight(shape'))
      BY <3>1, <2>5 DEF Aligned
    <3> QED BY <3>7, <3>8, <3>9 DEF InkInside, Aligned
  <2> QED BY <2>6, <2>7, <2>8 DEF DecoderInv, Grown, InkInside, Decoding
<1> QED BY <1>2, <1>3

(* A repeated sixel, cut at the right edge.                                *)
LEMMA AddManyKeeps ==
  ASSUME DecoderInv, Decoding,
         NEW bits \in SUBSET (0 .. Sixel - 1), NEW repeat \in Nat \ {0},
         AddMany(bits, repeat), UNCHANGED <<shape, stage>>, chars' \in Nat
  PROVE  DecoderInv'
<1> DEFINE n == repeat * shape.pad
           wide == IF pos.col + n - 1 >= img.width THEN Widened(img, pos.col + n) ELSE img
           fits == wide.width - pos.col
           count == IF pos.col + n - 1 < img.width THEN n ELSE Least(n, IF fits < 0 THEN 0 ELSE fits)
<1>1. pos.col \in Nat /\ img.width \in Nat /\ n \in Nat \ {0}
  BY DEF DecoderInv, DecoderTypes, Position, Image, Shape
<1> HIDE DEF n
<1>2. Wider(wide)
  BY <1>1, WidenedIs
<1>3. wide.width \in Nat
  BY <1>2 DEF Wider, Image
<1>4. SixelPrinted(wide, bits, count)
  BY DEF AddMany, n
<1>5. pos.col + n - 1 < img.width => wide = img
  BY <1>1
<1> HIDE DEF wide
<1>6. count \in Nat /\ (count > 0 => pos.col + count <= wide.width)
  BY <1>1, <1>3, <1>5 DEF Least
<1> HIDE DEF count
<1> QED BY <1>2, <1>4, <1>6, PrintedKeeps

(* What a count that is left out, or nought, stands for.                   *)
LEMMA CountedIs ==
  ASSUME NEW n \in Nat
  PROVE  Counted(n) \in Nat
BY DecoderAssumption DEF Counted, Least

(* A single sixel.                                                         *)
LEMMA AddOneKeeps ==
  ASSUME DecoderInv, Decoding,
         NEW bits \in SUBSET (0 .. Sixel - 1), AddOne(bits), UNCHANGED <<shape, stage>>
  PROVE  DecoderInv'
<1> DEFINE wide == IF pos.col >= img.width THEN Widened(img, pos.col + chars) ELSE img
           fits == IF wide.width < pos.col THEN 0 ELSE wide.width - pos.col
           left == IF pos.col >= img.width THEN Least(chars, fits) ELSE chars
           count == IF pos.col >= img.width /\ left = 0 THEN 0 ELSE 1
<1>1. pos.col \in Nat /\ img.width \in Nat /\ chars \in Nat
  BY DEF DecoderInv, DecoderTypes, Position, Image
<1>2. Wider(wide)
  BY <1>1, WidenedIs
<1>3. wide.width \in Nat
  BY <1>2 DEF Wider, Image
<1>4. SixelPrinted(wide, bits, count) /\ chars' = Counted(left + 1)
  BY DEF AddOne
<1>5. pos.col < img.width => wide = img
  BY <1>1
<1> HIDE DEF wide
<1>6. left \in Nat /\ count \in Nat /\ (count > 0 => pos.col + count <= wide.width)
  BY <1>1, <1>3, <1>5 DEF Least
<1>7. chars' \in Nat
  BY <1>4, <1>6, CountedIs
<1> HIDE DEF count, left
<1> QED BY <1>2, <1>4, <1>6, <1>7, PrintedKeeps

(* Graphics carriage return.                                               *)
LEMMA GraphicsReturnKeeps ==
  ASSUME DecoderInv, GraphicsReturn
  PROVE  DecoderInv'
<1>1. /\ Decoding /\ img' = img /\ shape' = shape /\ stage' = stage
      /\ pos' = IF pos.col <= MaxWidth THEN [pos EXCEPT !.col = 0] ELSE pos
  BY DEF GraphicsReturn
<1>2. pos \in Position /\ pos.col \in Nat /\ MaxWidth \in Nat /\ pos.row \in Nat
  BY DecoderAssumption DEF DecoderInv, DecoderTypes, Position
<1>3. /\ pos' \in Position /\ pos'.row = pos.row /\ pos'.bottom = pos.bottom
      /\ (pos'.col <= MaxWidth <=> pos.col <= MaxWidth)
  BY <1>1, <1>2 DEF Position
<1>4. chars' \in Nat
  <2>1. chars + 1 \in Nat
    BY DEF DecoderInv, DecoderTypes
  <2> QED BY <2>1, CountedIs DEF GraphicsReturn
<1>5. DecoderTypes'
  BY <1>1, <1>3, <1>4 DEF DecoderInv, DecoderTypes
<1>6. Aligned => Aligned'
  BY <1>1, <1>3 DEF Aligned, RoomIn, DrawnRows
<1> QED BY <1>1, <1>5, <1>6 DEF DecoderInv, Grown, InkInside, Decoding

(* Graphics new line: the next sixels get their rows, or are dropped.      *)
LEMMA NewLineKeeps ==
  ASSUME DecoderInv, NewLine
  PROVE  DecoderInv'
<1> DEFINE n == RowHeight(shape)
           row == pos.row + n
           cut == row >= img.alloc /\ row + n > MaxHeight
<1>1. /\ Decoding /\ shape' = shape
      /\ pos' = [row |-> row, col |-> IF cut THEN Outside ELSE 0, bottom |-> {}]
      /\ img' = IF row < img.alloc \/ cut THEN img ELSE Heightened(img, row + n)
      /\ stage' = [stage EXCEPT !.full = @ \/ cut]
      /\ chars' = Counted(chars + 1)
  BY DEF NewLine
<1>2. /\ pos \in Position /\ img \in Image /\ shape \in Shape /\ MaxWidth \in Nat /\ n \in Nat \ {0}
      /\ stage \in [at : {"decoding", "done", "shrunk"}, full : BOOLEAN, reshaped : BOOLEAN]
  BY RowHeightIs, DecoderAssumption DEF DecoderInv, DecoderTypes
<1>3. /\ pos.row \in Nat /\ row \in Nat /\ img.alloc \in Nat /\ img.width \in Nat
      /\ Outside \in Nat /\ Outside > MaxWidth
  BY <1>2 DEF Position, Image, Shape, Outside
<1>4. Grown(img, shape) /\ img.height \in Nat
  BY <1>1 DEF DecoderInv, Grown
<1>5. chars' \in Nat
  <2>1. chars + 1 \in Nat
    BY DEF DecoderInv, DecoderTypes
  <2> QED BY <1>1, <2>1, CountedIs
<1> HIDE DEF n
<1>6. /\ stage'.at = stage.at /\ stage'.reshaped = stage.reshaped /\ (stage'.full <=> stage.full \/ cut)
      /\ stage' \in [at : {"decoding", "done", "shrunk"}, full : BOOLEAN, reshaped : BOOLEAN]
  BY <1>1, <1>2
<1> DEFINE grown == Heightened(img, row + n)
<1>7. /\ row + n \in Nat \ {0} /\ RoundUp(row + n, shape) \in Nat
      /\ row + n <= RoundUp(row + n, shape)
  <2>1. row + n \in Nat \ {0}
    BY <1>2, <1>3
  <2> HIDE DEF row
  <2> QED BY <1>2, <2>1, RoundUpIs
<1>8. /\ grown \in Image /\ grown.width = img.width /\ grown.height = row + n
      /\ grown.alloc = RoundUp(row + n, shape) /\ grown.ink \subseteq img.ink
  <2> DEFINE h == row + n
             a == RoundUp(h, shape)
             ink == IF img.width = 0 THEN img.ink ELSE {p \in img.ink : p[1] < img.height}
  <2>1. ink \subseteq img.ink /\ h \in Nat /\ a \in Nat
    BY <1>7
  <2>2. grown = [img EXCEPT !.height = h, !.alloc = a, !.ink = ink]
    BY DEF Heightened
  <2> HIDE DEF h, a, ink, grown
  <2>3. grown = [width |-> img.width, height |-> h, alloc |-> a, ink |-> ink]
    BY <1>2, <2>2 DEF Image
  <2>4. ink \in SUBSET (Nat \X Nat) /\ img.width \in Nat
    BY <1>2, <2>1 DEF Image
  <2> QED BY <2>1, <2>3, <2>4 DEF Image, h, a
<1>9. /\ pos' \in Position /\ pos'.row = row /\ pos'.bottom = {}
      /\ (pos'.col <= MaxWidth <=> ~cut)
  <2> HIDE DEF cut, row
  <2> QED BY <1>1, <1>2, <1>3 DEF Position
<1>10. img' \in Image /\ Grown(img, shape)'
  <2> HIDE DEF cut, grown, row
  <2>1. CASE row < img.alloc \/ cut
    BY <2>1, <1>1, <1>2, <1>4, <1>6 DEF Grown, grown
  <2>2. CASE ~(row < img.alloc \/ cut)
    <3>1. img' = grown
      BY <2>2, <1>1 DEF grown
    <3> QED BY <3>1, <1>1, <1>3, <1>4, <1>6, <1>7, <1>8 DEF Grown
  <2> QED BY <2>1, <2>2
<1>11. DecoderTypes'
  BY <1>1, <1>2, <1>5, <1>6, <1>9, <1>10 DEF DecoderTypes
<1>12. ASSUME ~stage.reshaped PROVE InkInside(img') /\ Aligned'
  <2>1. InkInside(img) /\ Aligned
    BY <1>1, <1>12 DEF DecoderInv
  <2>2. Multiple(row, n)
    <3>1. PICK k \in Nat : pos.row = n * k
      BY <2>1 DEF Aligned, Multiple, n
    <3>2. row = n * (k + 1) /\ k + 1 \in Nat
      BY <1>2, <3>1
    <3> HIDE DEF row
    <3> QED BY <3>2 DEF Multiple
  <2>3. img.alloc = RoundUp(img.height, shape) /\ Multiple(img.alloc, n)
    BY <1>2, <1>4, <1>12, RoundUpIs DEF Grown, n
  <2>4. /\ InkInside(img') /\ img'.ink \subseteq img.ink
        /\ (~cut => row + n <= img'.alloc)
    <3>1. CASE row < img.alloc
      <4>1. row + n <= img.alloc
        <5> HIDE DEF row, cut, grown
        <5> QED BY <3>1, <1>2, <1>3, <2>2, <2>3, NextMultiple
      <4> HIDE DEF row, cut, grown
      <4> QED BY <4>1, <3>1, <1>1, <2>1
    <3>2. CASE cut
      <4> HIDE DEF row, cut, grown
      <4> QED BY <3>2, <1>1, <2>1
    <3>3. CASE ~(row < img.alloc \/ cut)
      <4> HIDE DEF cut, grown
      <4>1. img' = grown
        BY <3>3, <1>1 DEF grown
      <4>2. img.alloc <= row
        BY <3>3, <1>3
      <4> HIDE DEF row
      <4>3. ASSUME NEW p \in img'.ink PROVE p[1] < img'.alloc /\ p[2] < img'.width
        <5>1. p \in Nat \X Nat /\ p[1] < img.alloc /\ p[2] < img.width
          BY <4>1, <1>2, <1>8, <2>1 DEF InkInside, Image
        <5> QED BY <5>1, <4>1, <4>2, <1>2, <1>3, <1>7, <1>8
      <4> QED BY <4>1, <4>3, <1>7, <1>8 DEF InkInside
    <3> QED BY <3>1, <3>2, <3>3
  <2>5. RoomIn(img', pos', shape') /\ (~stage'.full => pos'.col <= MaxWidth)
    <3> HIDE DEF cut, row
    <3> QED BY <1>1, <1>6, <1>9, <2>4 DEF RoomIn, n
  <2>6. DrawnRows(shape', pos') = 0
    BY <1>9 DEF DrawnRows
  <2>7. ASSUME NEW p \in img'.ink PROVE p[1] < pos'.row + DrawnRows(shape', pos')
    <3>1. p \in img.ink /\ p \in Nat \X Nat
      BY <1>2, <2>4 DEF Image
    <3>2. p[1] < pos.row + DrawnRows(shape, pos)
      BY <3>1, <2>1 DEF Aligned
    <3>3. DrawnRows(shape, pos) \in Nat /\ DrawnRows(shape, pos) <= n
      BY <1>2, DrawnRowsIs DEF n
    <3> QED BY <3>1, <3>2, <3>3, <2>6, <1>2, <1>3, <1>9
  <2>8. Multiple(pos'.row, RowHeight(shape'))
    BY <1>1, <1>9, <2>2 DEF n
  <2> QED BY <2>4, <2>5, <2>7, <2>8 DEF Aligned
<1>13. img'.width <= MaxWidth
  BY <1>10 DEF Grown
<1>14. stage'.at = "decoding" /\ stage.at = "decoding"
  BY <1>1, <1>6 DEF Decoding
<1>16. /\ Decoding' => Grown(img, shape)'
       /\ (~stage.reshaped)' => InkInside(img)' /\ (Decoding => Aligned)'
       /\ ~(stage.at = "done")'
  BY <1>6, <1>10, <1>12, <1>14 DEF InkInside
<1> HIDE DEF row, cut, grown
<1> QED BY <1>11, <1>13, <1>16 DEF DecoderInv

(* The rows of an image whose sixels become as high as in another shape.   *)
LEMMA SameRows ==
  ASSUME NEW s \in Shape, NEW t \in Shape, s.pan = t.pan
  PROVE  /\ RowHeight(s) = RowHeight(t)
         /\ \A h \in Nat : RoundUp(h, s) = RoundUp(h, t)
         /\ \A p \in Position : DrawnRows(s, p) = DrawnRows(t, p)
<1>1. RowHeight(s) = RowHeight(t)
  BY DEF RowHeight
<1> QED BY <1>1 DEF RoundUp, DrawnRows

(* Raster attributes: a new aspect ratio, and a size if there is none yet. *)
LEMMA RasterAttributesKeeps ==
  ASSUME DecoderInv, RasterAttributes
  PROVE  DecoderInv'
<1>1. PICK pan \in Pans, pad \in Pads, h \in 0 .. MaxWidth, v \in 0 .. MaxHeight :
        LET empty  == img.width = 0 /\ img.height = 0
            width  == h * (IF empty THEN pad ELSE shape.pad)
            height == v * (IF empty THEN pan ELSE shape.pan)
            taken  == /\ width >= img.height /\ height >= img.width
                      /\ width <= MaxHeight /\ height <= MaxWidth
            w      == Least(width, MaxWidth)
            same   == w = img.width /\ Resized(w, height).height = img.height
            less   == \/ w < img.width
                      \/ w = img.width /\ Resized(w, height).height < img.height
                      \/ Resized(w, height).alloc < img.height
        IN  /\ shape' = [shape EXCEPT !.pan = IF empty THEN pan ELSE @,
                                      !.pad = IF empty THEN pad ELSE @,
                                      !.square = IF empty THEN pan = 1 /\ pad = 1
                                                 ELSE shape.pan = 1 /\ shape.pad = 1]
            /\ img' = IF taken /\ ~same /\ ~less THEN Resized(w, height) ELSE img
            /\ stage' = [stage EXCEPT
                            !.at = IF taken /\ ~same /\ less THEN "shrunk" ELSE @,
                            !.reshaped = @ \/ (pos.row > 0 /\ shape'.pan # shape.pan)]
  BY DEF RasterAttributes
<1> DEFINE empty  == img.width = 0 /\ img.height = 0
           width  == h * (IF empty THEN pad ELSE shape.pad)
           height == v * (IF empty THEN pan ELSE shape.pan)
           taken  == /\ width >= img.height /\ height >= img.width
                     /\ width <= MaxHeight /\ height <= MaxWidth
           w      == Least(width, MaxWidth)
           same   == w = img.width /\ Resized(w, height).height = img.height
           less   == \/ w < img.width
                     \/ w = img.width /\ Resized(w, height).height < img.height
                     \/ Resized(w, height).alloc < img.height
           pan2 == IF empty THEN pan ELSE shape.pan
           pad2 == IF empty THEN pad ELSE shape.pad
           square2 == IF empty THEN pan = 1 /\ pad = 1 ELSE shape.pan = 1 /\ shape.pad = 1
           taller == Resized(w, height)
           takes == taken /\ ~same /\ ~less
           shrinks == taken /\ ~same /\ less
           turns == pos.row > 0 /\ shape'.pan # shape.pan
<1>2. /\ Decoding /\ pos' = pos /\ chars' = MaxWidth
      /\ shape' = [shape EXCEPT !.pan = pan2, !.pad = pad2, !.square = square2]
      /\ img' = IF takes THEN taller ELSE img
      /\ stage' = [stage EXCEPT !.at = IF shrinks THEN "shrunk" ELSE @, !.reshaped = @ \/ turns]
  BY <1>1 DEF RasterAttributes
<1>3. /\ pos \in Position /\ img \in Image /\ shape \in Shape /\ MaxWidth \in Nat \ {0} /\ MaxHeight \in Nat \ {0}
      /\ stage \in [at : {"decoding", "done", "shrunk"}, full : BOOLEAN, reshaped : BOOLEAN]
      /\ pan \in Nat \ {0} /\ pad \in Nat \ {0}
  BY DecoderAssumption DEF DecoderInv, DecoderTypes
<1>4. Grown(img, shape) /\ img.height \in Nat /\ img.width \in Nat /\ img.alloc \in Nat
      /\ pos.row \in Nat /\ pos.col \in Nat
  BY <1>2, <1>3 DEF DecoderInv, Grown, Image, Position
<1>5. /\ shape' \in Shape /\ (~empty => shape'.pan = shape.pan)
  <2>1. pan2 \in Nat \ {0} /\ pad2 \in Nat \ {0} /\ square2 \in BOOLEAN
    BY <1>3 DEF Shape
  <2>2. ~empty => pan2 = shape.pan
    OBVIOUS
  <2> HIDE DEF pan2, pad2, square2, empty
  <2> QED BY <1>2, <1>3, <2>1, <2>2 DEF Shape
<1>6. /\ stage' \in [at : {"decoding", "done", "shrunk"}, full : BOOLEAN, reshaped : BOOLEAN]
      /\ stage'.full = stage.full /\ (stage'.reshaped <=> stage.reshaped \/ turns)
      /\ stage'.at = IF shrinks THEN "shrunk" ELSE "decoding"
  <2> HIDE DEF shrinks, turns
  <2> QED BY <1>2, <1>3 DEF Decoding
<1>7. w \in Nat /\ w <= MaxWidth /\ height \in Nat
  <2>1. width \in Nat /\ height \in Nat
    BY <1>3 DEF Shape
  <2> HIDE DEF width
  <2> QED BY <2>1, <1>3 DEF Least
<1> HIDE DEF w, height
<1>8. RowHeight(shape') \in Nat \ {0}
  BY <1>5, RowHeightIs
<1>9. /\ taller \in Image /\ taller.width = w /\ taller.height \in Nat \ {0}
      /\ taller.alloc = RoundUp(taller.height, shape')
      /\ taller.ink = {p \in img.ink : p[1] < img.height}
  <2> DEFINE k == IF height = 0 THEN RowHeight(shape') ELSE Least(height, MaxHeight)
             a == RoundUp(k, shape')
             ink == {p \in img.ink : p[1] < img.height}
  <2>1. k \in Nat \ {0}
    BY <1>3, <1>7, <1>8 DEF Least
  <2>2. taller = [img EXCEPT !.width = w, !.height = k, !.alloc = a, !.ink = ink]
    BY DEF Resized
  <2>3. ink \subseteq img.ink
    OBVIOUS
  <2> HIDE DEF k, ink, taller
  <2>4. a \in Nat
    BY <1>5, <2>1, RoundUpIs
  <2>5. taller = [width |-> w, height |-> k, alloc |-> a, ink |-> ink]
    <3> HIDE DEF a
    <3> QED BY <1>3, <2>2 DEF Image
  <2>6. ink \in SUBSET (Nat \X Nat) /\ img.ink \in SUBSET (Nat \X Nat)
    BY <1>3, <2>3 DEF Image
  <2> HIDE DEF a
  <2>7. taller \in Image
    BY <1>7, <2>1, <2>4, <2>5, <2>6 DEF Image
  <2> QED BY <2>1, <2>5, <2>7 DEF a, ink
<1>10. takes => ~(w < img.width) /\ ~(taller.alloc < img.height)
  OBVIOUS
<1>11. img' \in Image /\ img'.width <= MaxWidth
  <2> HIDE DEF takes, taller
  <2> QED BY <1>2, <1>3, <1>4, <1>7, <1>9 DEF Grown
<1>12. DecoderTypes'
  BY <1>2, <1>3, <1>5, <1>6, <1>11 DEF DecoderTypes
<1>13. ASSUME empty PROVE RoundUp(img.height, shape') = 0
  BY <1>5, <1>13, RoundUpSmall
<1>14. Grown(img, shape)'
  <2>1. CASE takes
    <3> HIDE DEF takes, taller
    <3> QED BY <2>1, <1>2, <1>7, <1>9 DEF Grown
  <2>2. CASE ~takes
    <3>1. img' = img
      BY <2>2, <1>2
    <3>2. ASSUME ~stage'.reshaped PROVE img.alloc = RoundUp(img.height, shape')
      <4>1. ~stage.reshaped /\ img.alloc = RoundUp(img.height, shape)
        BY <3>2, <1>6, <1>4 DEF Grown
      <4>2. CASE empty
        <5>1. RoundUp(img.height, shape) = 0
          BY <4>2, <1>3, RoundUpSmall
        <5> QED BY <4>1, <4>2, <5>1, <1>13
      <4>3. CASE ~empty
        <5> HIDE DEF empty
        <5> QED BY <4>1, <4>3, <1>3, <1>4, <1>5, SameRows
      <4> QED BY <4>2, <4>3
    <3> HIDE DEF takes, taller, turns, shrinks
    <3> QED BY <3>1, <3>2, <1>4 DEF Grown
  <2> QED BY <2>1, <2>2
<1>15. ASSUME ~stage'.reshaped PROVE InkInside(img') /\ Aligned'
  <2>1. ~stage.reshaped /\ (pos.row > 0 => shape'.pan = shape.pan)
    BY <1>15, <1>6
  <2>2. InkInside(img) /\ Aligned /\ img.alloc = RoundUp(img.height, shape)
    BY <2>1, <1>2, <1>4 DEF DecoderInv, Grown
  <2>3. img'.ink \subseteq img.ink
    <3> HIDE DEF takes, taller
    <3> QED BY <1>2, <1>9
  <2>4. empty => img.ink = {}
    <3> SUFFICES ASSUME empty, NEW p \in img.ink PROVE FALSE
      OBVIOUS
    <3>1. p \in Nat \X Nat /\ p[2] < img.width /\ img.width = 0
      BY <2>2, <1>3 DEF InkInside, Image
    <3> QED BY <3>1
  <2>5. ASSUME NEW p \in img'.ink PROVE p[1] < img'.alloc /\ p[2] < img'.width
    <3>0. p \in img.ink /\ p \in Nat \X Nat /\ p[1] < img.alloc /\ p[2] < img.width
      BY <2>3, <2>2, <1>3 DEF InkInside, Image
    <3>1. CASE takes
      <4>1. ~(w < img.width) /\ ~(taller.alloc < img.height)
        BY <3>1, <1>10
      <4>2. img' = taller
        BY <3>1, <1>2
      <4> HIDE DEF takes, taller
      <4>3. p[1] < img.height
        BY <4>2, <1>9
      <4>4. taller.alloc \in Nat /\ taller.width \in Nat
        BY <1>9 DEF Image
      <4> QED BY <3>0, <4>1, <4>2, <4>3, <4>4, <1>4, <1>7, <1>9
    <3>2. CASE ~takes
      <4>1. img' = img
        BY <3>2, <1>2
      <4> QED BY <3>0, <4>1
    <3> QED BY <3>1, <3>2
  <2>6. Multiple(pos'.row, RowHeight(shape'))
    <3>1. CASE pos.row = 0
      <4>1. RowHeight(shape') * 0 = 0
        BY <1>8
      <4>2. Multiple(0, RowHeight(shape'))
        BY <4>1 DEF Multiple
      <4> QED BY <3>1, <4>2, <1>2
    <3>2. CASE pos.row > 0
      <4>1. RowHeight(shape') = RowHeight(shape)
        BY <3>2, <2>1, <1>3, <1>5, SameRows
      <4> QED BY <4>1, <1>2, <2>2 DEF Aligned
    <3> QED BY <3>1, <3>2, <1>4
  <2>7. RoomIn(img', pos', shape')
    <3> SUFFICES ASSUME pos.col <= MaxWidth
                 PROVE  (img'.height = 0 /\ pos.row = 0) \/ pos.row + RowHeight(shape') <= img'.alloc
      BY <1>2 DEF RoomIn
    <3>1. (img.height = 0 /\ pos.row = 0) \/ pos.row + RowHeight(shape) <= img.alloc
      BY <2>2 DEF Aligned, RoomIn
    <3>2. CASE empty
      <4>1. img.height = 0 /\ img.alloc = 0
        BY <3>2, <2>2, <1>3, RoundUpSmall
      <4>2. pos.row = 0
        <5>1. RowHeight(shape) \in Nat \ {0}
          BY <1>3, RowHeightIs
        <5> QED BY <4>1, <5>1, <3>1, <1>4
      <4>3. CASE takes
        <5>1. img' = taller
          BY <4>3, <1>2
        <5> HIDE DEF taller, takes
        <5>2. RowHeight(shape') <= taller.alloc
          BY <1>5, <1>9, RoundUpSmall
        <5> QED BY <5>1, <5>2, <4>2, <1>8
      <4>4. CASE ~takes
        <5>1. img' = img
          BY <4>4, <1>2
        <5> QED BY <5>1, <4>1, <4>2
      <4> QED BY <4>3, <4>4
    <3>3. CASE ~empty
      <4>1. RowHeight(shape') = RowHeight(shape)
        <5> HIDE DEF empty
        <5> QED BY <3>3, <1>3, <1>5, SameRows
      <4>2. CASE takes
        <5>1. img' = taller /\ ~(taller.alloc < img.height)
          BY <4>2, <1>2, <1>10
        <5> HIDE DEF taller, takes, empty
        <5>2. taller.alloc \in Nat /\ Multiple(taller.alloc, RowHeight(shape))
          BY <4>1, <1>5, <1>9, RoundUpIs
        <5>3. img.alloc <= taller.alloc
          BY <5>1, <5>2, <2>2, <1>3, <1>4, RoundUpLeast
        <5>4. CASE img.height = 0 /\ pos.row = 0
          <6>1. RowHeight(shape') <= taller.alloc
            BY <1>5, <1>9, RoundUpSmall
          <6> QED BY <5>1, <5>4, <6>1, <1>8
        <5>5. CASE pos.row + RowHeight(shape) <= img.alloc
          BY <5>1, <5>2, <5>3, <5>5, <4>1, <1>4, <1>8
        <5> QED BY <5>4, <5>5, <3>1
      <4>3. CASE ~takes
        <5>1. img' = img
          BY <4>3, <1>2
        <5> HIDE DEF empty, takes
        <5> QED BY <5>1, <4>1, <3>1
      <4> QED BY <4>2, <4>3
    <3> QED BY <3>2, <3>3
  <2>8. ASSUME NEW p \in img'.ink PROVE p[1] < pos'.row + DrawnRows(shape', pos')
    <3>1. p \in img.ink /\ p[1] < pos.row + DrawnRows(shape, pos)
      BY <2>2, <2>3, <2>8 DEF Aligned
    <3>2. ~empty
      BY <3>1, <2>4
    <3>3. DrawnRows(shape', pos) = DrawnRows(shape, pos)
      <4> HIDE DEF empty
      <4> QED BY <3>2, <1>3, <1>5, SameRows
    <3> QED BY <3>1, <3>3, <1>2
  <2>9. ~stage'.full => pos'.col <= MaxWidth
    BY <2>2, <1>2, <1>6 DEF Aligned
  <2> QED BY <2>5, <2>6, <2>7, <2>8, <2>9 DEF Aligned, InkInside
<1>16. ~(stage'.at = "done")
  BY <1>6
<1> HIDE DEF empty, taken, same, less, pan2, pad2, square2, taller, takes, shrinks, turns, width
<1>17. /\ Decoding' => Grown(img, shape)'
       /\ (~stage.reshaped)' => InkInside(img)' /\ (Decoding => Aligned)'
  BY <1>14, <1>15 DEF InkInside
<1> QED BY <1>11, <1>12, <1>16, <1>17 DEF DecoderInv

-----------------------------------------------------------------------------
(* Rows to trim are those of the last sixels that were not drawn.          *)
LEMMA ToTrimIs ==
  ASSUME pos \in Position, shape \in Shape
  PROVE  ToTrim * shape.pan = RowHeight(shape) - DrawnRows(shape, pos)
<1>0. Sixel \in Nat /\ shape.pan \in Nat /\ pos.bottom \subseteq 0 .. Sixel - 1
  BY DecoderAssumption DEF Shape, Position
<1>1. CASE pos.bottom = {}
  <2>1. ToTrim = Sixel /\ DrawnRows(shape, pos) = 0
    BY <1>1 DEF ToTrim, DrawnRows
  <2> QED BY <2>1, <1>0 DEF RowHeight
<1>2. CASE pos.bottom # {}
  <2>1. PICK b \in pos.bottom : Max(pos.bottom) = b
    BY <1>2, DrawnRowsIs
  <2>2. ToTrim = Sixel - 1 - b /\ DrawnRows(shape, pos) = (b + 1) * shape.pan /\ b \in Nat
    BY <1>0, <1>2, <2>1 DEF ToTrim, DrawnRows
  <2>3. (Sixel - 1 - b) * shape.pan = (Sixel * shape.pan) - ((b + 1) * shape.pan)
    <3> DEFINE k == Sixel - 1 - b
    <3>1. k \in Int /\ Sixel = k + (b + 1)
      BY <1>0, <2>2
    <3>2. Sixel * shape.pan = (k * shape.pan) + ((b + 1) * shape.pan)
      <4> HIDE DEF k
      <4> QED BY <3>1, <1>0, <2>2
    <3> QED BY <3>1, <3>2, <1>0, <2>2
  <2> QED BY <2>2, <2>3 DEF RowHeight
<1> QED BY <1>1, <1>2

(* The end of the image: rows and columns without pixels are trimmed.      *)
LEMMA UnhookKeeps ==
  ASSUME DecoderInv, Unhook
  PROVE  DecoderInv'
<1> DEFINE n == RowHeight(shape)
           d == DrawnRows(shape, pos)
           ends == pos.row + n
           height == IF pos.row < img.height /\ ends >= img.height THEN img.alloc ELSE img.height
           trimmed == img.alloc - (n - d)
           new == IF pos.col > 0 /\ ends >= img.alloc /\ (shape.transparent \/ trimmed > height)
                  THEN trimmed ELSE height
           row == IF pos.col > 0 THEN ends - (n - d) ELSE pos.row
<1>1. /\ pos \in Position /\ img \in Image /\ shape \in Shape /\ MaxWidth \in Nat
      /\ stage \in [at : {"decoding", "done", "shrunk"}, full : BOOLEAN, reshaped : BOOLEAN]
  BY DecoderAssumption DEF DecoderInv, DecoderTypes
<1>2. ToTrim * shape.pan = n - d
  BY <1>1, ToTrimIs
<1>3. n \in Nat \ {0} /\ d \in Nat /\ d <= n
  BY <1>1, RowHeightIs, DrawnRowsIs
<1>4. /\ Decoding /\ shape' = shape /\ chars' = chars
      /\ stage' = [stage EXCEPT !.at = "done"]
      /\ img' = [img EXCEPT !.height = new]
      /\ pos' = IF pos.col > 0 THEN [pos EXCEPT !.row = ends - (n - d)] ELSE pos
  BY <1>2 DEF Unhook
<1> HIDE DEF n, d
<1>5. /\ Grown(img, shape) /\ img.height \in Nat /\ img.width \in Nat /\ img.alloc \in Nat
      /\ pos.row \in Nat /\ pos.col \in Nat
  BY <1>1, <1>4 DEF DecoderInv, Grown, Image, Position
<1>6. new \in Int /\ row \in Nat
  BY <1>3, <1>5
<1> HIDE DEF new
<1>7. /\ img' \in Image /\ img'.width = img.width /\ img'.alloc = img.alloc /\ img'.ink = img.ink
      /\ img'.height = new
  BY <1>1, <1>4, <1>6 DEF Image
<1>8. /\ pos' \in Position /\ pos'.row = row /\ pos'.col = pos.col
  <2>1. pos.col > 0 => row = ends - (n - d)
    OBVIOUS
  <2>2. ~(pos.col > 0) => row = pos.row
    OBVIOUS
  <2> HIDE DEF row, ends
  <2> QED BY <1>1, <1>4, <1>6, <2>1, <2>2 DEF Position
<1>9. /\ stage' \in [at : {"decoding", "done", "shrunk"}, full : BOOLEAN, reshaped : BOOLEAN]
      /\ stage'.at = "done" /\ stage'.full = stage.full /\ stage'.reshaped = stage.reshaped
  BY <1>1, <1>4
<1>10. DecoderTypes'
  BY <1>1, <1>4, <1>7, <1>8, <1>9 DEF DecoderTypes, DecoderInv
<1>11. ASSUME ~stage.reshaped PROVE InkInside(img') /\ Finished'
  <2>1. InkInside(img) /\ Aligned /\ img.alloc = RoundUp(img.height, shape)
    BY <1>4, <1>5, <1>11 DEF DecoderInv, Grown
  <2>2. InkInside(img')
    BY <1>7, <2>1 DEF InkInside
  <2>3. ASSUME ~stage.full, NEW p \in img.ink PROVE p[1] < new /\ (pos.col > 0 => p[1] < row)
    <3>1. p \in Nat \X Nat /\ p[1] < img.alloc /\ p[2] < img.width /\ p[1] < pos.row + d
      BY <2>1, <2>3, <1>1 DEF InkInside, Image, Aligned, d
    <3>2. img.height > 0
      BY <3>1, <1>5 DEF Grown
    <3>3. pos.row + n <= img.alloc
      BY <2>1, <2>3, <3>2 DEF Aligned, RoomIn, n
    <3>4. img.alloc < img.height + n
      BY <2>1, <1>1, <1>5, RoundUpIs DEF n
    <3>5. p[1] < height
      BY <3>1, <3>3, <3>4, <1>3, <1>5
    <3>6. CASE pos.col > 0 /\ ends >= img.alloc
      <4>1. p[1] < trimmed
        BY <3>1, <3>3, <3>6, <1>3, <1>5
      <4> QED BY <3>1, <3>5, <3>6, <4>1, <1>3, <1>5 DEF new
    <3>7. CASE ~(pos.col > 0 /\ ends >= img.alloc)
      BY <3>1, <3>5, <3>7, <1>3, <1>5 DEF new
    <3> QED BY <3>6, <3>7
  <2>4. Finished'
    <3> HIDE DEF row, ends, height, trimmed
    <3> QED BY <1>7, <1>8, <1>9, <2>3 DEF Finished
  <2> QED BY <2>2, <2>4
<1>12. img'.width <= MaxWidth /\ ~Decoding'
  BY <1>5, <1>7, <1>9 DEF Grown, Decoding
<1>13. (~stage.reshaped)' => InkInside(img)' /\ Finished'
  BY <1>9, <1>11 DEF InkInside
<1> HIDE DEF row, ends, height, trimmed
<1> QED BY <1>10, <1>12, <1>13 DEF DecoderInv

-----------------------------------------------------------------------------
(* Every control keeps the invariant.                                      *)
LEMMA DecoderKeeps ==
  ASSUME DecoderInv, [DecoderNext]_decoderVars
  PROVE  DecoderInv'
<1>1. CASE Draw
  <2>1. PICK bits \in SUBSET (0 .. Sixel - 1) :
          IF shape.square THEN AddOne(bits) ELSE AddMany(bits, 1) /\ chars' = Counted(chars + 1)
    BY <1>1 DEF Draw
  <2>2. Decoding /\ UNCHANGED <<shape, stage>>
    BY <1>1 DEF Draw
  <2>3. CASE shape.square
    BY <2>1, <2>2, <2>3, AddOneKeeps
  <2>4. CASE ~shape.square
    <3>1. chars + 1 \in Nat
      BY DEF DecoderInv, DecoderTypes
    <3>2. chars' \in Nat /\ AddMany(bits, 1)
      BY <2>1, <2>4, <3>1, CountedIs
    <3> QED BY <2>2, <3>2, AddManyKeeps
  <2> QED BY <2>3, <2>4
<1>2. CASE Repeat
  <2>1. PICK bits \in SUBSET (0 .. Sixel - 1), n \in 1 .. MaxWidth : AddMany(bits, n)
    BY <1>2 DEF Repeat
  <2>2. Decoding /\ UNCHANGED <<shape, stage>> /\ chars' = Counted(chars + 3)
    BY <1>2 DEF Repeat
  <2>3. chars + 3 \in Nat /\ n \in Nat \ {0}
    BY DecoderAssumption DEF DecoderInv, DecoderTypes
  <2>4. chars' \in Nat
    BY <2>2, <2>3, CountedIs
  <2> QED BY <2>1, <2>2, <2>3, <2>4, AddManyKeeps
<1>3. CASE UNCHANGED decoderVars
  BY <1>3 DEF decoderVars, DecoderInv, DecoderTypes, Grown, InkInside, Aligned, RoomIn, DrawnRows,
              Finished, Decoding, RoundUp, RowHeight
<1> QED BY <1>1, <1>2, <1>3, GraphicsReturnKeeps, NewLineKeeps, RasterAttributesKeeps, UnhookKeeps
        DEF DecoderNext

(* The invariant says that the pixels are in the image.                    *)
LEMMA DecoderFits ==
  ASSUME DecoderInv
  PROVE  SixelsFit
<1>1. /\ pos \in Position /\ img \in Image /\ shape \in Shape /\ MaxWidth \in Nat /\ RowHeight(shape) \in Nat \ {0}
  BY RowHeightIs, DecoderAssumption DEF DecoderInv, DecoderTypes
<1>2. img.width <= MaxWidth
  BY DEF DecoderInv
<1>3. ASSUME ~stage.reshaped, Decoding
      PROVE  /\ pos.col < img.width => pos.row + RowHeight(shape) <= img.alloc
             /\ pos.col <= MaxWidth /\ img.height > 0 => pos.row < img.alloc
             /\ img.alloc = RoundUp(img.height, shape)
  <2>1. Grown(img, shape) /\ Aligned
    BY <1>3 DEF DecoderInv
  <2>2. pos.col \in Nat /\ pos.row \in Nat /\ img.width \in Nat /\ img.height \in Nat /\ img.alloc \in Nat
    BY <1>1, <2>1 DEF Grown, Position, Image
  <2> QED BY <1>1, <1>3, <2>1, <2>2 DEF Grown, Aligned, RoomIn
<1> QED BY <1>2, <1>3 DEF SixelsFit, DecoderInv, InkInside, Finished

(* The pixels of a sixel are drawn in rows and columns that the image has: *)
(* for every largest image, every aspect ratio and any order of the        *)
(* controls.                                                               *)
THEOREM TheSixelsFit ==
  DecoderSpec => []SixelsFit
<1>1. DecoderInit => DecoderInv
  BY DecoderBegins
<1>2. DecoderInv /\ [DecoderNext]_decoderVars => DecoderInv'
  BY DecoderKeeps
<1>3. DecoderInv => SixelsFit
  BY DecoderFits
<1> QED BY <1>1, <1>2, <1>3, PTL DEF DecoderSpec
=============================================================================
