------------------------------- MODULE Cursor -------------------------------
(***************************************************************************)
(* The text cursor of a terminal's two grids: where the control functions  *)
(* of csi.c and vt.c, the printers of terminal.c, the switch between the   *)
(* normal and the alternate screen and a resize leave it.                  *)
(*                                                                         *)
(* A cursor is a cell and the last column flag (lcf): the last column was  *)
(* written, and the next character wraps first.  Beside it a grid keeps    *)
(* cur_row, a pointer to the cursor's row, through which all output is     *)
(* written; it is modelled as the line of the screen it points to.  What   *)
(* the cells hold is left out, and with it the tab stops: a tab stops at   *)
(* any column on its way, and reverse_wrap, which is either in Backspace.  *)
(***************************************************************************)
EXTENDS Integers

CONSTANTS
  Sizes,   (* sizes of the screen, <<rows, columns>>                       *)
  MaxCount (* bound: largest count given to a control function             *)

ASSUME CursorAssumption ==
  /\ Sizes # {}
  /\ Sizes \subseteq (Nat \ {0}) \X (Nat \ {0, 1})
  /\ MaxCount \in Nat \ {0}

VARIABLES
  size,    (* term->rows, term->cols                                       *)
  grid,    (* the grid term->grid points to, "normal" or "alt"             *)
  cursor,  (* of each grid; the alternate one's is not used while inactive *)
  curRow,  (* cur_row of each grid, as a line of the screen                *)
  saved,   (* saved_cursor of each grid                                    *)
  region,  (* scroll_region, as [top, bottom[                              *)
  origin,  (* ORIGIN_RELATIVE                                              *)
  wrap,    (* auto_margin                                                  *)
  astray   (* the cursor left the region in origin mode (RestoreCursor,    *)
           (* Resize): the code does not keep it there                     *)

vars == <<size, grid, cursor, curRow, saved, region, origin, wrap, astray>>
modes == <<origin, wrap>>

Grids == {"normal", "alt"}
R == size[1]
C == size[2]
Rows == 0 .. R - 1
Cols == 0 .. C - 1
Counts == 1 .. MaxCount

Lower(a, b) == IF a < b THEN a ELSE b

At(row, col, lcf) == [row |-> row, col |-> col, lcf |-> lcf]
Home == At(0, 0, FALSE)

Here == cursor[grid]
InRegion(row) == region[1] <= row /\ row < region[2]

-----------------------------------------------------------------------------
(* A step that moves the active cursor.  Whether it is astray is settled   *)
(* by its new place.                                                       *)
Strays == origin' /\ ~(region'[1] <= cursor'[grid'].row /\ cursor'[grid'].row < region'[2])
Settled == astray' = (astray /\ Strays)
MayStray == astray' = Strays

(* term_cursor_to(): clears lcf and finds cur_row anew.                    *)
Moves(row, col) ==
  /\ cursor' = [cursor EXCEPT ![grid] = At(row, col, FALSE)]
  /\ curRow' = [curRow EXCEPT ![grid] = row]

(* Steps that stay in the line leave cur_row alone.                        *)
MovesInLine(col, lcf) ==
  /\ cursor' = [cursor EXCEPT ![grid] = At(Here.row, col, lcf)]
  /\ UNCHANGED curRow

KeepRest == UNCHANGED <<size, grid, saved, region, modes>> /\ Settled

(* term_row_rel_to_abs().  Faulty variant: not limited to the margins.     *)
RelToScreen(row) == Lower(row + (IF origin THEN region[1] ELSE 0), R - 1)
RelToAbs(row) == IF origin THEN Lower(row + region[1], region[2] - 1)
                           ELSE Lower(row, R - 1)

-----------------------------------------------------------------------------
(* Printing.                                                               *)

(* print_linewrap() sets cur_row with the row, and term_scroll() does when *)
(* the screen scrolls instead.  Faulty variant: only the row is set.       *)
RowOnly(c, row) == row
RowAfterWrap(c) ==
  IF c.row = region[2] - 1 THEN c.row ELSE Lower(c.row + 1, R - 1)
PointerAfterWrap(c, row) == RowAfterWrap(c)

Wrapped(c) == At(RowAfterWrap(c), 0, FALSE)

(* term_print(), ascii_printer_fast(): wrap if needed, wrap again where a  *)
(* wide character does not fit, advance.                                   *)
Printed(c, width) ==
  LET first == IF c.lcf /\ wrap THEN Wrapped(c) ELSE c
      fits == wrap => first.col + width <= C
      from == IF fits THEN first ELSE Wrapped(first)
  IN IF from.col + width >= C THEN At(from.row, C - 1, TRUE)
                              ELSE At(from.row, from.col + width, from.lcf)

PointerAfter(c, width) ==
  LET first == IF c.lcf /\ wrap THEN Wrapped(c) ELSE c
      pointer == IF c.lcf /\ wrap THEN PointerAfterWrap(c, curRow[grid])
                                  ELSE curRow[grid]
  IN IF wrap /\ first.col + width > C THEN PointerAfterWrap(first, pointer)
                                      ELSE pointer

Prints(c, width) ==
  /\ cursor' = [cursor EXCEPT ![grid] = Printed(c, width)]
  /\ curRow' = [curRow EXCEPT ![grid] = PointerAfter(c, width)]
  /\ KeepRest

(* A character, or one repeated (REP).                                     *)
Put(width) == Prints(Here, width)

(* A combining character (term_process_and_print_non_ascii) goes back to   *)
(* the cell of its base, past spacers, and prints the cluster there.       *)
Combine(col, width) ==
  /\ Here.col > 0
  /\ col <= IF Here.lcf THEN Here.col ELSE Here.col - 1
  /\ Prints(At(Here.row, col, FALSE), width)

-----------------------------------------------------------------------------
(* C0 controls and cursor movement.                                        *)

(* term_cursor_up(), term_cursor_down(): from outside of the region in     *)
(* origin mode the amount is negative.                                     *)
UpBy(n) == Here.row - Lower(Here.row - (IF origin THEN region[1] ELSE 0), n)
DownBy(n) == Here.row + Lower((IF origin THEN region[2] ELSE R) - Here.row - 1, n)

CursorUp(n) == Moves(UpBy(n), Here.col) /\ KeepRest
CursorDown(n) == Moves(DownBy(n), Here.col) /\ KeepRest
CursorLeft(n) == MovesInLine(Here.col - Lower(Here.col, n), FALSE) /\ KeepRest
CursorRight(n) == MovesInLine(Here.col + Lower(C - Here.col - 1, n), FALSE) /\ KeepRest

NextLine(n) == Moves(DownBy(n), 0) /\ KeepRest                    (* CNL   *)
PreviousLine(n) == Moves(UpBy(n), 0) /\ KeepRest                  (* CPL   *)
CarriageReturn == MovesInLine(0, FALSE) /\ KeepRest

(* CUP, HVP and VPA; CHA.                                                  *)
CursorTo(row, col) == Moves(RelToAbs(row), col) /\ KeepRest
CursorCol(col) == MovesInLine(col, FALSE) /\ KeepRest

(* term_linefeed(), term_reverse_index(): at the edge of the region the    *)
(* screen scrolls and the cursor keeps its row.                            *)
RowFed == IF Here.row = region[2] - 1 THEN Here.row ELSE DownBy(1)
RowReversed == IF Here.row = region[1] THEN Here.row ELSE UpBy(1)

Linefeed ==
  /\ IF Here.row = region[2] - 1 THEN MovesInLine(Here.col, FALSE)
                                 ELSE Moves(RowFed, Here.col)
  /\ KeepRest

ReverseIndex ==
  /\ IF Here.row = region[1] THEN MovesInLine(Here.col, Here.lcf)
                             ELSE Moves(RowReversed, Here.col)
  /\ KeepRest

(* BS wraps back to the line above, but not out of the region's first.     *)
(* Faulty variant: out of it.                                              *)
StopsInFirst == Here.row = 0
StopsBack == Here.row <= region[1]

RowBack == IF StopsBack THEN Here.row ELSE Here.row - 1

Backspace(back) ==
  /\ CASE Here.lcf -> MovesInLine(Here.col, FALSE)
       [] ~Here.lcf /\ Here.col = 0 /\ back /\ wrap ->
            IF StopsBack THEN UNCHANGED <<cursor, curRow>> ELSE Moves(RowBack, C - 1)
       [] OTHER -> MovesInLine(Here.col - Lower(Here.col, 1), FALSE)
  /\ KeepRest

(* HT and CHT keep lcf; CBT.                                               *)
Tab(col) ==
  /\ col > Here.col \/ col = C - 1
  /\ MovesInLine(col, Here.lcf)
  /\ KeepRest

BackTab(col) ==
  /\ col < Here.col \/ col = 0
  /\ MovesInLine(col, FALSE)
  /\ KeepRest

(* ED, EL, ECH, ICH and DCH; IL and DL.                                    *)
Edit == MovesInLine(Here.col, FALSE) /\ KeepRest

EditLines ==
  /\ InRegion(Here.row)
  /\ cursor' = [cursor EXCEPT ![grid] = At(Here.row, 0, FALSE)]
  /\ curRow' = [curRow EXCEPT ![grid] = Here.row]
  /\ KeepRest

(* SU, SD.                                                                 *)
Scroll ==
  /\ curRow' = [curRow EXCEPT ![grid] = Here.row]
  /\ UNCHANGED cursor
  /\ KeepRest

-----------------------------------------------------------------------------
(* Modes, saved cursors, screens.                                          *)

(* DECSTBM: both margins, and home.                                        *)
SetRegion(top, bottom) ==
  /\ top < bottom /\ bottom <= R
  /\ region' = <<top, bottom>>
  /\ Moves(IF origin THEN top ELSE 0, 0)
  /\ UNCHANGED <<size, grid, saved, modes>>
  /\ Settled

(* DECALN resets the margins before it homes the cursor.                   *)
Align ==
  /\ region' = <<0, R>>
  /\ Moves(0, 0)
  /\ UNCHANGED <<size, grid, saved, modes>>
  /\ Settled

SetOrigin(enable) ==
  /\ origin' = enable
  /\ Moves(IF enable THEN Lower(region[1], region[2] - 1) ELSE 0, 0)
  /\ UNCHANGED <<size, grid, saved, region, wrap>>
  /\ Settled

SetWrap(enable) ==
  /\ wrap' = enable
  /\ MovesInLine(Here.col, FALSE)
  /\ UNCHANGED <<size, grid, saved, region, origin>>
  /\ Settled

SaveCursor ==
  /\ saved' = [saved EXCEPT ![grid] = Here]
  /\ UNCHANGED <<size, grid, cursor, curRow, region, modes>>
  /\ Settled

Clamped(c) == At(Lower(c.row, R - 1), Lower(c.col, C - 1), c.lcf)

(* term_restore_cursor()                                                   *)
RestoreCursor ==
  /\ cursor' = [cursor EXCEPT ![grid] = Clamped(saved[grid])]
  /\ curRow' = [curRow EXCEPT ![grid] = Clamped(saved[grid]).row]
  /\ UNCHANGED <<size, grid, saved, region, modes>>
  /\ MayStray

(* DECSET and DECRST 47, 1047 and 1049, which also saves and restores.     *)
EnterAlt(save) ==
  LET c == Clamped(cursor["normal"])
  IN /\ grid = "normal" /\ grid' = "alt"
     /\ saved' = IF save THEN [saved EXCEPT !["normal"] = Here] ELSE saved
     /\ cursor' = [cursor EXCEPT !["alt"] = At(c.row, c.col, FALSE)]
     /\ curRow' = [curRow EXCEPT !["alt"] = c.row]
     /\ UNCHANGED <<size, region, modes>>
     /\ Settled

LeaveAlt(restore) ==
  LET c == IF restore THEN Clamped(saved["normal"])
           ELSE At(Clamped(cursor["alt"]).row, Clamped(cursor["alt"]).col, FALSE)
  IN /\ grid = "alt" /\ grid' = "normal"
     /\ cursor' = [normal |-> c, alt |-> Home]
     /\ curRow' = [normal |-> c.row, alt |-> 0]
     /\ UNCHANGED <<size, saved, region, modes>>
     /\ IF restore THEN MayStray ELSE Settled

(* DECSET, DECRST, and XTRESTORE, whose saved value may be either; of the   *)
(* cursor (1048) it saves again instead of restoring.                      *)
XtRestore == EnterAlt(TRUE) \/ LeaveAlt(TRUE) \/ SaveCursor

SetModes ==
  \/ \E enable \in BOOLEAN : SetOrigin(enable) \/ SetWrap(enable)
  \/ \E restore \in BOOLEAN : EnterAlt(restore) \/ LeaveAlt(restore)
  \/ XtRestore

(* term_reset(): a soft one, too, leaves the alternate screen; the origin  *)
(* mode and the cursors are reset by a hard one only.                      *)
SoftReset ==
  /\ grid' = "normal"
  /\ region' = <<0, R>>
  /\ wrap' = TRUE
  /\ cursor' = [cursor EXCEPT !["alt"] = Home]
  /\ curRow' = [curRow EXCEPT !["alt"] = 0]
  /\ UNCHANGED <<size, saved, origin>>
  /\ Settled

HardReset ==
  /\ grid' = "normal"
  /\ region' = <<0, R>>
  /\ wrap' = TRUE /\ origin' = FALSE
  /\ cursor' = [g \in Grids |-> Home]
  /\ saved' = [g \in Grids |-> Home]
  /\ curRow' = [g \in Grids |-> 0]
  /\ UNCHANGED size
  /\ Settled

-----------------------------------------------------------------------------
(* A resize.  The alternate grid is cut (grid_resize_without_reflow): a    *)
(* cursor on the last line stays there.  The normal grid is reflowed: the  *)
(* cursors follow their text, to any cell; with lcf set they go on to the  *)
(* next column if there is one now.                                        *)
CutTo(c, rows, cols) ==
  At(IF c.row = R - 1 THEN rows - 1 ELSE Lower(c.row, rows - 1),
     Lower(c.col, cols - 1), FALSE)

(* Faulty variant: lcf is kept.                                            *)
LcfKept(c, row, col, cols) == At(row, col, c.lcf)
ReflowedAt(c, row, col, cols) ==
  IF c.lcf /\ col + 1 < cols THEN At(row, col + 1, FALSE) ELSE At(row, col, c.lcf)

RegionAfter(rows) ==
  << IF region[1] >= rows THEN 0 ELSE region[1],
     IF region[2] > rows \/ region[2] >= R THEN rows ELSE region[2] >>

Resize(to, row, col, savedRow, savedCol) ==
  LET normal == ReflowedAt(cursor["normal"], row, col, to[2])
      alt == CutTo(cursor["alt"], to[1], to[2])
  IN /\ to # size
     /\ row < to[1] /\ savedRow < to[1] /\ col < to[2] /\ savedCol < to[2]
     /\ size' = to
     /\ region' = RegionAfter(to[1])
     /\ cursor' = [normal |-> normal, alt |-> IF grid = "alt" THEN alt ELSE Home]
     /\ curRow' = [normal |-> row, alt |-> IF grid = "alt" THEN alt.row ELSE 0]
     /\ saved' = [normal |-> ReflowedAt(saved["normal"], savedRow, savedCol, to[2]),
                  alt |-> CutTo(saved["alt"], to[1], to[2])]
     /\ UNCHANGED <<grid, modes>>
     /\ MayStray

-----------------------------------------------------------------------------
Init ==
  /\ size \in Sizes
  /\ grid = "normal"
  /\ cursor = [g \in Grids |-> Home]
  /\ curRow = [g \in Grids |-> 0]
  /\ saved = [g \in Grids |-> Home]
  /\ region = <<0, R>>
  /\ origin = FALSE /\ wrap = TRUE
  /\ astray = FALSE

Printing ==
  \/ \E width \in 1 .. 2 : Put(width)
  \/ \E col \in Cols, width \in 1 .. 2 : Combine(col, width)

Movement ==
  \/ \E n \in Counts :
       \/ CursorUp(n) \/ CursorDown(n) \/ CursorLeft(n) \/ CursorRight(n)
       \/ NextLine(n) \/ PreviousLine(n)
  \/ CarriageReturn
  \/ \E row \in Rows, col \in Cols : CursorTo(row, col)
  \/ \E col \in Cols : CursorCol(col) \/ Tab(col) \/ BackTab(col)
  \/ Linefeed
  \/ ReverseIndex
  \/ \E back \in BOOLEAN : Backspace(back)
  \/ Edit
  \/ EditLines
  \/ Scroll

Modes ==
  \/ \E top \in Rows, bottom \in 1 .. R : SetRegion(top, bottom)
  \/ Align
  \/ SetModes
  \/ RestoreCursor
  \/ SoftReset
  \/ HardReset

Resizing ==
  \E to \in Sizes : \E row, savedRow \in 0 .. to[1] - 1 :
    \E col, savedCol \in 0 .. to[2] - 1 : Resize(to, row, col, savedRow, savedCol)

Next == Printing \/ Movement \/ Modes \/ Resizing

Spec == Init /\ [][Next]_vars

-----------------------------------------------------------------------------
(* What the assertions of term_cursor_to(), the printers and the moves     *)
(* rest on: the cursors and the saved ones, of both grids, lie on the      *)
(* screen; the last column flag is set in the last column only, so that    *)
(* printing wraps at the edge; the margins are two lines of the screen;    *)
(* and cur_row points to the row of the cursor, or output goes to another  *)
(* line.  (A restored saved cursor keeps this through every resize.)       *)
PlaceOK(c) ==
  /\ c.row \in Rows /\ c.col \in Cols /\ c.lcf \in BOOLEAN
  /\ c.lcf => c.col = C - 1

CursorConsistent ==
  /\ \A g \in Grids : PlaceOK(cursor[g]) /\ PlaceOK(saved[g])
  /\ \A g \in Grids : curRow[g] = cursor[g].row
  /\ region[1] \in Rows /\ region[2] \in 1 .. R /\ region[1] < region[2]

(* In origin mode the cursor stays within the margins, as the moves and    *)
(* their assertions take for granted, except after a saved cursor from     *)
(* outside of them was restored and after a resize.                        *)
OriginKeepsRegion == origin /\ ~InRegion(Here.row) => astray

(* Text does not run out of the scroll region: from inside of the margins  *)
(* printing, wrapping, linefeeds, reverse linefeeds and backspaces lead to *)
(* a line inside of them.                                                  *)
OutputStaysInRegion ==
  InRegion(Here.row) =>
    \A row \in {Printed(Here, 1).row, Printed(Here, 2).row, RowFed, RowReversed, RowBack} :
      InRegion(row)

(* All three: the cursor is where printing and moving take it to be        *)
(* (terminal.c:2911, 3880).                                                *)
CursorKept == CursorConsistent /\ OriginKeepsRegion /\ OutputStaysInRegion
=============================================================================
