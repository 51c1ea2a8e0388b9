------------------------------- MODULE Images -------------------------------
(***************************************************************************)
(* The images of a terminal's two grids (sixel.c): sixel images, and the   *)
(* canvases of the vector protocol (graphics.c), which are placed by the   *)
(* same code.  An image is a rectangle of cells at absolute rows of the    *)
(* grid's ring; a grid keeps its images in a list sorted on their end row, *)
(* latest first.  Everything that writes to cells cuts the images under    *)
(* them into pieces, scrolling drops the ones it reuses rows of, and an    *)
(* image is emitted in chunks where the ring wraps.                        *)
(*                                                                         *)
(* Pixels, blending and scaling are left out, and so is the cursor: it can *)
(* be moved anywhere before each of these steps, as the scroll region can  *)
(* be set, so a step takes a position and a region.  Two emissions that    *)
(* the code places outside of the screen are left out, see Emit.           *)
(***************************************************************************)
EXTENDS Integers, FiniteSets, SequencesExt

CONSTANTS
  N,         (* rows of the normal grid's ring                             *)
  AltN,      (* rows of the alternate grid's ring                          *)
  R, C,      (* rows and columns of the screen                             *)
  MaxHeight, (* bound: rows of an emitted image                            *)
  MaxEmits   (* bound: images emitted between two resets                   *)

ImagesAssumption ==
  /\ {N, AltN, R, C, MaxHeight, MaxEmits} \subseteq Nat \ {0}
  /\ R <= N /\ R <= AltN

VARIABLES
  grids,  (* term->normal and term->alt: ring size, offset, allocated rows *)
          (* and sixel_images                                              *)
  screen, (* the grid term->grid points to                                 *)
  bit,    (* bits_affecting_ascii_printer.sixels; printing takes the fast  *)
          (* path, which ignores images, when it is not set                *)
  emits   (* images emitted since the last reset                           *)

vars == <<grids, screen, bit, emits>>

(* Screen rows and columns are numbered from 0, as in the code.            *)
Rows == 0 .. R - 1
Cols == 0 .. C - 1
Bottoms == 1 .. R                        (* scroll_region.end              *)

(* Rows of the ring, as in grid.c.                                         *)
Mask(g, row) == row % g.size
AbsToSb(g, row) == Mask(g, row - g.offset - R)
ScreenRow(g, r) == Mask(g, g.offset + r)
ScreenRows(g) == {ScreenRow(g, r) : r \in Rows}

Image(row, col, height, width) ==
  [row |-> row, col |-> col, rows |-> height, cols |-> width]

EndRow(img) == img.row + img.rows - 1
EndCol(img) == img.col + img.cols - 1
StartSb(g, img) == AbsToSb(g, img.row)
EndSb(g, img) == AbsToSb(g, EndRow(img))

Cells(img) == (img.row .. EndRow(img)) \X (img.col .. EndCol(img))
Covered(g) == UNION {Cells(g.images[i]) : i \in DOMAIN g.images}

Overlaps(a, b) ==
  /\ a.row <= EndRow(b) /\ b.row <= EndRow(a)
  /\ a.col <= EndCol(b) /\ b.col <= EndCol(a)

-----------------------------------------------------------------------------
(* The list of images.                                                     *)

(* sixel_insert(): before the first image that ends above this one.        *)
Insert(g, list, img) ==
  LET above == {i \in DOMAIN list : EndSb(g, list[i]) < EndSb(g, img)}
  IN IF above = {} THEN Append(list, img)
     ELSE InsertAt(list, Min(above), img)

(* sixel_overwrite(): what is left of an image outside of a rectangle, in  *)
(* the order pixman lists it.  Faulty variant: without the part on the     *)
(* right.                                                                  *)
PiecesAround(img, rect, right) ==
  LET top == Max({img.row, rect.row})
      bottom == Min({EndRow(img), EndRow(rect)})
      Nonempty(piece) == piece.rows > 0 /\ piece.cols > 0
  IN SelectSeq(
       << Image(img.row, img.col, top - img.row, img.cols),
          Image(top, img.col, bottom - top + 1, rect.col - img.col),
          Image(top, EndCol(rect) + 1, bottom - top + 1, right),
          Image(bottom + 1, img.col, EndRow(img) - bottom, img.cols) >>,
       Nonempty)

PiecesNoRight(img, rect) == PiecesAround(img, rect, 0)
Pieces(img, rect) == PiecesAround(img, rect, EndCol(img) - EndCol(rect))

(* _sixel_overwrite_by_rectangle(), rows absolute: the list is left at the *)
(* first image that ends above the rectangle.                              *)
EndsAbove(g, img, rect) == EndSb(g, img) < StartSb(g, rect)

Overwritten(g, rect) ==
  LET list == g.images
      cut == {i \in DOMAIN list :
                /\ \A j \in 1 .. i : ~EndsAbove(g, list[j], rect)
                /\ Overlaps(list[i], rect)}
      indices == [i \in DOMAIN list |-> i]
      Kept(i) == i \notin cut
      Cut(i) == i \in cut
      kept == SelectSeq(indices, Kept)
      Piecewise(acc, i) ==
        FoldLeft(LAMBDA l, piece : Insert(g, l, piece),
                 acc, Pieces(list[i], rect))
  IN [g EXCEPT !.images =
        FoldLeft(Piecewise, [i \in DOMAIN kept |-> list[kept[i]]],
                 SelectSeq(indices, Cut))]

(* sixel_overwrite_by_rectangle() and sixel_overwrite_by_row(), rows of the*)
(* screen: in two parts where the ring wraps.                              *)
OverwrittenOnScreen(g, r, c, height, width) ==
  LET top == ScreenRow(g, r)
      first == Min({height, g.size - top})
      upper == Overwritten(g, Image(top, c, first, width))
  IN IF first = height THEN upper
     ELSE Overwritten(upper, Image(0, c, height - first, width))

(* sixel_scroll_up() drops what stands on rows about to be reused, and     *)
(* term_scroll_partial() moves the screen over them.                       *)
ScrolledUp(g, n) ==
  LET Stays(img) == StartSb(g, img) >= n
      ofs == Mask(g, g.offset + n)
  IN [g EXCEPT
        !.images = SelectSeq(g.images, Stays),
        !.offset = ofs,
        !.alloc = g.alloc \union ScreenRows([g EXCEPT !.offset = ofs])]

(* sixel_scroll_down() drops, from the head of the list, what reaches into *)
(* the last n rows of the screen; term_scroll_reverse_partial() frees as   *)
(* many rows, which are the ones below the screen when it has moved.       *)
(* Faulty variant: the rows below those.                                   *)
DropsFromNext(g, n) ==
  {i \in DOMAIN g.images :
     \A j \in 1 .. i : EndSb(g, g.images[j]) >= g.size - n + 1}
DropsFromHead(g, n) ==
  {i \in DOMAIN g.images :
     \A j \in 1 .. i : EndSb(g, g.images[j]) >= g.size - n}

ScrolledDown(g, n) ==
  LET gone == Cardinality(DropsFromHead(g, n))
      moved == [g EXCEPT !.offset = Mask(g, g.offset - n)]
  IN [moved EXCEPT
        !.images = SubSeq(g.images, gone + 1, Len(g.images)),
        !.alloc = (g.alloc \ {ScreenRow(moved, R + i) : i \in 0 .. n - 1})
                  \union ScreenRows(moved)]

(* count times term_linefeed() from row r: how many of them scroll.        *)
Linefed(g, r, bottom, count) ==
  LET scrolls == Max({0, r + count - (bottom - 1)})
      f[i \in 0 .. scrolls] == IF i = 0 THEN g ELSE ScrolledUp(f[i - 1], 1)
  IN f[scrolls]
RowAfter(r, bottom, count) == Min({r + count, bottom - 1})

(* sixel_emit_image() with scrolling: a chunk up to where the ring wraps,  *)
(* linefeeds for its rows, and the rest from the cursor's row on.          *)
Linefeeds(height, first) == IF first = height THEN first - 1 ELSE first

Placed(g, img) ==
  LET room == Overwritten(g, img)
  IN [room EXCEPT !.images = Insert(room, room.images, img)]

RECURSIVE Scrolling(_, _, _, _, _, _)
Scrolling(g, r, c, height, width, bottom) ==
  LET top == ScreenRow(g, r)
      first == Min({height, g.size - top})
      count == Linefeeds(height, first)
      chunk == Placed(Linefed(g, r, bottom, count), Image(top, c, first, width))
  IN IF first = height THEN chunk
     ELSE Scrolling(chunk, RowAfter(r, bottom, count), c, height - first,
                    width, bottom)

-----------------------------------------------------------------------------
Grid == grids[screen]

Cleared(g) == [g EXCEPT !.images = <<>>]

(* The handlers that cut or drop images return early for an empty list,    *)
(* and end with a new value of the bit otherwise.                          *)
Becomes(g) ==
  /\ UNCHANGED <<screen, emits>>
  /\ grids' = [grids EXCEPT ![screen] = g]
  /\ bit' = IF Grid.images = <<>> THEN bit ELSE g.images # <<>>

EmptyGrid(size) ==
  [size |-> size, offset |-> 0, alloc |-> Rows, images |-> <<>>]

Init ==
  /\ grids = [normal |-> EmptyGrid(N), alt |-> EmptyGrid(AltN)]
  /\ screen = "normal"
  /\ bit = FALSE
  /\ emits = 0

(* term_print() and the two ASCII printers at a cell; a pending wrap takes *)
(* the cursor to the next line first.                                      *)
PutAt(g, r, c, width) ==
  IF bit THEN OverwrittenOnScreen(g, r, c, 1, width) ELSE g

Put(r, c, width) ==
  /\ c + width <= C
  /\ Becomes(PutAt(Grid, r, c, width))

(* The bit the printer tests is the one the linefeed leaves behind.        *)
PutWrapped(r, bottom) ==
  LET fed == IF r < bottom THEN Linefed(Grid, r, bottom, 1) ELSE Grid
      row == IF r < bottom THEN RowAfter(r, bottom, 1) ELSE Min({r + 1, R - 1})
  IN Becomes(PutAt(fed, row, 0, 1))

(* term_linefeed() and SU/DL (term_scroll_partial), term_reverse_index()   *)
(* and SD/IL (term_scroll_reverse_partial).                                *)
ScrollUp(n) == Becomes(ScrolledUp(Grid, n))
ScrollDown(n) == Becomes(ScrolledDown(Grid, n))

(* term_erase() in a line (EL, ECH, ED at the screen's edges).             *)
EraseInLine(r, from, to) ==
  /\ from <= to
  /\ Becomes(OverwrittenOnScreen(Grid, r, from, 1, to - from + 1))

(* term_erase() over several lines: the rectangle between the first and    *)
(* the last line includes the last line.                                   *)
ErasedLines(g, r, c, to, toCol) ==
  LET firstLine == OverwrittenOnScreen(g, r, c, 1, C - c)
      between == OverwrittenOnScreen(firstLine, r + 1, 0, to - r, C)
  IN OverwrittenOnScreen(between, to, 0, 1, toCol + 1)

EraseLines(r, c, to, toCol) ==
  /\ r < to
  /\ Becomes(ErasedLines(Grid, r, c, to, toCol))

EraseBelow(r, c) == EraseLines(r, c, R - 1, C - 1)       (* ED 0           *)
EraseAbove(r, c) == EraseLines(0, 0, r, c)               (* ED 1           *)

(* DECERA, DECFRA, DECCRA and DECALN.                                      *)
FilledRectangle(g, top, left, bottom, right) ==
  OverwrittenOnScreen(g, top, left, bottom - top + 1, right - left + 1)

FillRectangle(top, left, bottom, right) ==
  /\ top <= bottom /\ left <= right
  /\ Becomes(FilledRectangle(Grid, top, left, bottom, right))

(* term_erase_scrollback(): drops every image that reaches out of the      *)
(* screen, and does not update the bit.                                    *)
EraseScrollback ==
  LET g == Grid
      Inside(img) == StartSb(g, img) > g.size - R - 1
  IN /\ g.size > R
     /\ grids' = [grids EXCEPT ![screen] =
                    [g EXCEPT !.images = SelectSeq(g.images, Inside),
                              !.alloc = ScreenRows(g)]]
     /\ UNCHANGED <<screen, bit, emits>>

(* sixel_emit_image().  An image with more rows than the ring is not       *)
(* placed.  Left out, since the code places them wrongly: with scrolling,  *)
(* a cursor below the scroll region, where the linefeeds stop at the       *)
(* screen's last row, and an image that fits the ring but not with the     *)
(* lines below the region; without scrolling, an image across the wrap,    *)
(* whose second chunk is placed above the first.                           *)
Emit(g) ==
  /\ emits < MaxEmits
  /\ emits' = emits + 1
  /\ UNCHANGED screen
  /\ grids' = [grids EXCEPT ![screen] = g]
  /\ bit' = (g.images # <<>>)

Emittable(r, height, bottom) ==
  /\ r < bottom
  /\ height > Grid.size - (R - bottom) => height > Grid.size

EmitScrolling(r, c, height, width, bottom) ==
  /\ Emittable(r, height, bottom)
  /\ Emit(IF height > Grid.size THEN Grid
          ELSE Scrolling(Grid, r, c, height, width, bottom))

EmitInPlace(height, width, bottom) ==
  LET avail == Min({height, bottom})
      top == ScreenRow(Grid, 0)
  IN /\ top + avail <= Grid.size
     /\ Emit(IF height > Grid.size THEN Grid
             ELSE Placed(Grid, Image(top, 0, avail, width)))

(* DECSET and DECRST 47, 1047, 1049.  Entering erases the alternate        *)
(* screen, leaving deletes its images.  Faulty variant: the bit is kept.   *)
KeepBit == bit
ActiveHasImages == grids'[screen'].images # <<>>

SwitchScreen ==
  /\ screen' = IF screen = "normal" THEN "alt" ELSE "normal"
  /\ grids' = [grids EXCEPT !["alt"] =
       IF screen = "alt" THEN Cleared(@)
       ELSE OverwrittenOnScreen(
              OverwrittenOnScreen(OverwrittenOnScreen(@, 0, 0, 1, C),
                                  1, 0, R - 1, C),
              R - 1, 0, 1, C)]
  /\ bit' = ActiveHasImages
  /\ UNCHANGED emits

(* term_reset(): both kinds drop all images and show the normal screen; a  *)
(* hard one frees all rows but the screen's.                               *)
Reset(hard) ==
  /\ grids' = [s \in DOMAIN grids |->
                 IF hard THEN EmptyGrid(grids[s].size) ELSE Cleared(grids[s])]
  /\ screen' = "normal"
  /\ bit' = FALSE
  /\ emits' = 0

Next ==
  \/ \E r \in Rows, c \in Cols, width \in 1 .. 2 : Put(r, c, width)
  \/ \E r \in Rows, bottom \in Bottoms : PutWrapped(r, bottom)
  \/ \E n \in 1 .. R : ScrollUp(n)
  \/ \E n \in 1 .. R : ScrollDown(n)
  \/ \E r \in Rows, from, to \in Cols : EraseInLine(r, from, to)
  \/ \E r \in Rows, c \in Cols : EraseBelow(r, c)
  \/ \E r \in Rows, c \in Cols : EraseAbove(r, c)
  \/ \E top, bottom \in Rows, left, right \in Cols :
       FillRectangle(top, left, bottom, right)
  \/ EraseScrollback
  \/ \E r \in Rows, c, w \in Cols, height \in 1 .. MaxHeight, bottom \in Bottoms :
       EmitScrolling(r, c, height, w + 1, bottom)
  \/ \E w \in Cols, height \in 1 .. MaxHeight, bottom \in Bottoms :
       EmitInPlace(height, w + 1, bottom)
  \/ SwitchScreen
  \/ \E hard \in BOOLEAN : Reset(hard)

Spec == Init /\ [][Next]_vars

-----------------------------------------------------------------------------
(* What verify_sixels() asserts after every change, in debug builds only:  *)
(* no image crosses the wrap of the ring or the start of the scrollback,   *)
(* no two overlap, and the list is sorted on end rows, latest first; the   *)
(* early exits of the walks rest on it.  And every image of either grid    *)
(* stands on allocated rows: emission and erasing touch them.              *)
VerifySixels ==
  \A s \in DOMAIN grids :
    LET g == grids[s]
        list == g.images
    IN /\ \A i \in DOMAIN list :
            /\ EndRow(list[i]) < g.size
            /\ StartSb(g, list[i]) + list[i].rows - 1 = EndSb(g, list[i])
            /\ list[i].row .. EndRow(list[i]) \subseteq g.alloc
       /\ \A i, j \in DOMAIN list :
            i < j => /\ EndSb(g, list[j]) <= EndSb(g, list[i])
                     /\ ~Overlaps(list[i], list[j])

(* The fast printer, which asserts that there are no images, is never in   *)
(* use while the active grid has some.                                     *)
FastPrinterNoImages == Grid.images # <<>> => bit

(* Cells and the images over them agree, whatever is done next.  Printing  *)
(* and filling uncover the written cells and no others, wherever pieces of *)
(* older images lie; erasing below uncovers all of that and nothing above. *)
(* An image emitted at row r of a region covers its rows of the screen     *)
(* after the scrolling it causes, split at the wrap or not, and covers     *)
(* nothing else anew.                                                      *)
OnScreen(g, r, c, height, width) ==
  {ScreenRow(g, r + i) : i \in 0 .. height - 1} \X (c .. c + width - 1)

ImagesFollowCells ==
  LET g == Grid
      before == Covered(g)
      Uncovers(after, cells) == Covered(after) = before \ cells
      Emitted(r, c, height, width, bottom) ==
        LET after == Scrolling(g, r, c, height, width, bottom)
            cells == OnScreen(after, Min({r, bottom - height}), c, height, width)
        IN /\ cells \subseteq Covered(after)
           /\ Covered(after) \subseteq before \union cells
  IN /\ \A r \in Rows, c \in Cols :
          /\ Uncovers(PutAt(g, r, c, 1), OnScreen(g, r, c, 1, 1))
          /\ Uncovers(FilledRectangle(g, 0, c, r, C - 1),
                      OnScreen(g, 0, c, r + 1, C - c))
          /\ r < R - 1 =>
               Uncovers(ErasedLines(g, r, c, R - 1, C - 1),
                        OnScreen(g, r, c, 1, C - c)
                        \union OnScreen(g, r + 1, 0, R - 1 - r, C))
     /\ \A r \in Rows, c, w \in Cols, height \in 1 .. MaxHeight,
           bottom \in Bottoms :
          Emittable(r, height, bottom) /\ height <= g.size =>
            Emitted(r, c, height, w + 1, bottom)

(* All three, of the images of both grids (sixel.c:190, 870, 1337).        *)
ImagesKept == VerifySixels /\ FastPrinterNoImages /\ ImagesFollowCells
=============================================================================
