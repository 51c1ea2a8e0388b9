------------------------------- MODULE Reflow -------------------------------
(***************************************************************************)
(* Text reflow: grid_resize_and_reflow() of grid.c, over any sequence of   *)
(* changes of the width.  The old rows are walked, oldest first, and their *)
(* cells put one after the other into new rows; what ends a line is the    *)
(* linebreak flag of a row.                                                *)
(*                                                                         *)
(* A cell is blank, a character (a positive number), the second half of a  *)
(* wide character, or a filler, which takes the last column of a row that  *)
(* a wide character did not fit in.  The ring of rows is the sequence of   *)
(* its allocated rows; it keeps the newest.  Rows hold links (URI ranges;  *)
(* underline ranges are treated the same).  Columns count from 0.  Left    *)
(* out: the selection and the saved cursor, tracked like the cursor, the   *)
(* view, images, prompt marks, and characters wider than the screen (there *)
(* is none with two columns and more).                                     *)
(***************************************************************************)
EXTENDS Integers, SequencesExt

CONSTANTS
  Grids,     (* the grids to start from: see IsGrid                        *)
  Widths,    (* numbers of columns                                         *)
  Height,    (* rows on the screen, the last ones of the ring              *)
  Capacity   (* rows of the ring                                           *)

ReflowAssumption == \A w \in Widths : w >= 2

VARIABLES
  grid,      (* [cols, rows, cursor]                                       *)
  before,    (* the grid before the last change (a history)                *)
  original,  (* the text and the links at first (a history)                *)
  plain      (* no grid resized so far had a blank continued row, or the   *)
             (* cursor on a filler (a history)                             *)

vars == <<grid, before, original, plain>>

Blank == 0
Half == -1
Filler == -2

Cell(row, c) == row.cells[c + 1]
Columns(row) == 0 .. Len(row.cells) - 1
BlankRow(cols) == [cells |-> [i \in 1 .. cols |-> Blank], linebreak |-> TRUE, links |-> {}]

Top(g) == Len(g.rows) - Height
CursorRow(g) == Top(g) + g.cursor.row + 1

-----------------------------------------------------------------------------
(* The cells of an old row that are put into the new rows: up to the last  *)
(* that is not empty; all blanks at the end, too, if the line goes on; and *)
(* up to the cursor and the end of a link.  Faulty variant: blanks at the  *)
(* end are always left out.                                                *)
MaxIn(set, least) == FoldSet(LAMBDA a, b : IF a > b THEN a ELSE b, least, set)

Used(row) ==
  MaxIn({c + 1 : c \in {c \in Columns(row) : Cell(row, c) \notin {Blank, Filler}}}, 0)

Truncated(row) == Used(row)
Untruncated(row) ==
  IF row.linebreak \/ Used(row) = 0 THEN Used(row)
  ELSE MaxIn({c + 1 : c \in {c \in Columns(row) :
                \A d \in Used(row) .. c : Cell(row, d) = Blank}}, Used(row))

(* `at` is the column of the cursor, or -1 in the other rows.              *)
ColCount(row, at) == MaxIn({at + 1} \cup {link[2] + 1 : link \in row.links}, Untruncated(row))

-----------------------------------------------------------------------------
(* The new grid under construction: `done` rows, the cells of the current  *)
(* one, `from`, the first column in it of a link that is open (or -1), the *)
(* empty lines put off, and the new place of the cursor.                   *)

Start == [done |-> <<>>, cells |-> <<>>, linebreak |-> TRUE, links |-> {},
          from |-> -1, empty |-> 0, cursor |-> <<>>]

Padded(cells, cols) == cells \o [i \in 1 .. cols - Len(cells) |-> Blank]

Current(new, cols) ==
  [cells |-> Padded(new.cells, cols), linebreak |-> new.linebreak, links |-> new.links]

(* A link that is open at the end of a row ends there, and another begins  *)
(* in the next.  Faulty variant: it stays behind.                          *)
NotContinued(new) == -1
Continued(new) == IF new.from >= 0 THEN 0 ELSE -1

(* _line_wrap(): a row of the full ring is used again, linebreak and all.  *)
LineWrap(new, cols) ==
  LET rows == Append(new.done,
        [Current(new, cols) EXCEPT
           !.links = IF new.from >= 0 THEN @ \cup {<<new.from, cols - 1>>} ELSE @])
      used == Len(rows) + 1 - Capacity
  IN [new EXCEPT !.done = rows, !.cells = <<>>, !.links = {},
                 !.linebreak = IF used > 0 THEN rows[used].linebreak ELSE TRUE,
                 !.from = Continued(new)]

LineBreak(new, cols) == LineWrap([new EXCEPT !.linebreak = TRUE], cols)

EmitsEmpty(new, cols) ==
  [FoldLeft(LAMBDA n, i : LineBreak(n, cols), new, [i \in 1 .. new.empty |-> i])
     EXCEPT !.empty = 0]

(* A cell, with what of the old row begins or ends in it.                  *)
Put(new, row, c, at) ==
  LET col == Len(new.cells)
      from == IF \E link \in row.links : link[1] = c THEN col ELSE new.from
      ends == \E link \in row.links : link[2] = c
  IN [new EXCEPT !.cells = Append(@, Cell(row, c)),
                 !.linebreak = FALSE,
                 !.links = IF ends THEN @ \cup {<<from, col>>} ELSE @,
                 !.from = IF ends THEN -1 ELSE from,
                 !.cursor = IF at = c THEN <<Len(new.done) + 1, col>> ELSE @]

(* Fillers take the columns that are left when a wide character does not   *)
(* fit.  Faulty variant: it is cut in two.                                 *)
Room(new, width, cols) == Len(new.cells) < cols
RoomForAll(new, width, cols) == Len(new.cells) + width <= cols

MakesRoom(new, width, cols) ==
  IF Len(new.cells) = cols THEN LineWrap(new, cols)
  ELSE IF RoomForAll(new, width, cols) THEN new
  ELSE LineWrap([new EXCEPT
         !.cells = @ \o [i \in 1 .. cols - Len(@) |-> Filler]], cols)

(* A character, with all of its cells.                                     *)
Emit(new, row, c, count, at, cols) ==
  LET wide == c + 1 < count /\ Cell(row, c + 1) = Half
      roomy == MakesRoom(new, IF wide THEN 2 ELSE 1, cols)
      first == Put(roomy, row, c, at)
  IN IF wide THEN Put(first, row, c + 1, at) ELSE first

(* The columns in which a character begins.                                *)
Leads(row, count) ==
  SelectSeq([i \in 1 .. count |-> i - 1],
            LAMBDA c : c = 0 \/ Cell(row, c) # Half)

(* One old row.  Empty lines are put off until one with text follows, so   *)
(* that those at the end of the grid leave no rows.  Faulty variant: they  *)
(* are forgotten.                                                          *)
PutsOffNone(new) == 0
PutsOff(new) == new.empty + 1

Walk(new, row, at, last, cols) ==
  LET count == ColCount(row, at)
      ready == IF count > 0 THEN EmitsEmpty(new, cols) ELSE new
      text == FoldLeft(LAMBDA n, c : Emit(n, row, c, count, at, cols), ready,
                       Leads(row, count))
  IN CASE ~row.linebreak -> text
       [] row.linebreak /\ count = 0 -> [text EXCEPT !.empty = PutsOff(text)]
       [] row.linebreak /\ count > 0 /\ ~last -> LineBreak(text, cols)
       [] row.linebreak /\ count > 0 /\ last -> [text EXCEPT !.linebreak = TRUE]

Newest(rows, n) == SubSeq(rows, MaxIn({Len(rows) - n + 1}, 1), Len(rows))

(* The last row is at the bottom of the screen, if there are enough.       *)
OnScreen(rows, cols) ==
  rows \o [i \in 1 .. MaxIn({Height - Len(rows)}, 0) |-> BlankRow(cols)]

(* The cursor goes to its new row, as long as that is on the screen, else  *)
(* to the last one; off the last column, if it waited there for a wrap.    *)
CursorAt(place, rows, cols, lcf) ==
  LET below == place[1] - 1 - (Len(rows) - Height)
      row == IF below \in 0 .. Height - 1 THEN below ELSE Height - 1
      moves == lcf /\ place[2] + 1 < cols
  IN [row |-> row, col |-> IF moves THEN place[2] + 1 ELSE place[2], lcf |-> lcf /\ ~moves]

Reflowed(g, cols) ==
  LET new == FoldLeft(
        LAMBDA n, r : Walk(n, g.rows[r],
                           IF r = CursorRow(g) THEN g.cursor.col ELSE -1,
                           r = Len(g.rows), cols),
        Start, [r \in 1 .. Len(g.rows) |-> r])
      all == Append(new.done, Current(new, cols))
      rows == OnScreen(Newest(all, Capacity), cols)
      lost == MaxIn({Len(all) - Capacity}, 0)
  IN [cols |-> cols, rows |-> rows,
      cursor |-> CursorAt(<<new.cursor[1] - lost, new.cursor[2]>>, rows, cols, g.cursor.lcf)]

-----------------------------------------------------------------------------
(* What a grid shows, whatever its width: the cells of its lines, without  *)
(* fillers and blanks at the end, with a separator after each line but the *)
(* empty ones at the end; the characters in links; and how much of that    *)
(* comes before the line of the cursor, and before it in that line.        *)
Separator == -3

RowText(row) == SelectSeq(row.cells, LAMBDA cell : cell # Filler)
Trimmed(seq, junk) ==
  SubSeq(seq, 1, MaxIn({i \in DOMAIN seq : seq[i] \notin junk}, 0))

(* The text of lines that ended, and of the one that goes on.              *)
TextOf(rows) ==
  FoldLeft(LAMBDA text, row :
             IF row.linebreak
             THEN [ended |-> text.ended \o
                     Append(Trimmed(text.line \o RowText(row), {Blank}), Separator),
                   line |-> <<>>]
             ELSE [text EXCEPT !.line = @ \o RowText(row)],
           [ended |-> <<>>, line |-> <<>>], rows)

Text(g) ==
  LET text == TextOf(g.rows)
  IN Trimmed(text.ended \o text.line, {Blank, Separator})

Place(g) ==
  LET text == TextOf(SubSeq(g.rows, 1, CursorRow(g) - 1))
  IN <<Len(text.ended), Len(text.line) + g.cursor.col + IF g.cursor.lcf THEN 1 ELSE 0>>

Linked(g) ==
  UNION {{Cell(g.rows[r], c) : c \in UNION {link[1] .. link[2] : link \in g.rows[r].links}} :
           r \in DOMAIN g.rows} \ {Blank, Half, Filler}

Plain(g) ==
  /\ \A r \in DOMAIN g.rows : g.rows[r].linebreak \/ Used(g.rows[r]) > 0
  /\ Cell(g.rows[CursorRow(g)], g.cursor.col) # Filler

-----------------------------------------------------------------------------
Init ==
  /\ grid \in Grids
  /\ before = grid
  /\ original = [text |-> Text(grid), linked |-> Linked(grid)]
  /\ plain = TRUE

Resize(cols) ==
  /\ cols # grid.cols
  /\ plain' = (plain /\ Plain(grid))
  /\ grid' = Reflowed(grid, cols)
  /\ before' = grid
  /\ UNCHANGED original

Next == \E cols \in Widths : Resize(cols)

Spec == Init /\ [][Next]_vars

-----------------------------------------------------------------------------
IsRow(row, cols) ==
  /\ Len(row.cells) = cols /\ row.linebreak \in BOOLEAN
  /\ \A link \in row.links : link[1] \in 0 .. link[2] /\ link[2] < cols

IsGrid(g) ==
  /\ Len(g.rows) \in Height .. Capacity
  /\ \A r \in DOMAIN g.rows : IsRow(g.rows[r], g.cols)
  /\ g.cursor.row \in 0 .. Height - 1 /\ g.cursor.col \in 0 .. g.cols - 1
  /\ g.cursor.lcf => g.cursor.col = g.cols - 1

(* However often the width changes, the lines keep their text and links    *)
(* keep their characters, but for the oldest, lost to the ring.            *)
KeepsText ==
  /\ IsSuffix(Text(grid), original.text)
  /\ Linked(grid) = original.linked \cap ToSet(Text(grid))

(* The place before the change, less what the ring lost: of earlier lines, *)
(* or of the line as well.                                                 *)
PlaceLeft(cursor) ==
  LET lost == Len(Text(before)) - Len(Text(grid))
      place == Place([before EXCEPT !.cursor = cursor])
  IN IF lost <= place[1] THEN <<place[1] - lost, place[2]>>
     ELSE <<0, place[2] - (lost - place[1])>>

(* The cursor stays with its character, or before the one to come, if the  *)
(* cell it is in stays on the screen.                                      *)
OnScreenNow(place) ==
  \E row \in 0 .. Height - 1, col \in 0 .. grid.cols - 1 :
    Place([grid EXCEPT !.cursor = [row |-> row, col |-> col, lcf |-> FALSE]]) = place

CursorKeepsPlace ==
  \/ Place(grid) = PlaceLeft(before.cursor)
  \/ ~OnScreenNow(PlaceLeft([before.cursor EXCEPT !.lcf = FALSE]))

ReflowKeeps == IsGrid(grid) /\ (plain => KeepsText /\ CursorKeepsPlace)

=============================================================================
