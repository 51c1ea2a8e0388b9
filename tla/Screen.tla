------------------------------- MODULE Screen -------------------------------
(***************************************************************************)
(* The normal grid of a terminal: a ring of row pointers that holds the    *)
(* screen and the scrollback (grid.c, terminal.c), the view that the user  *)
(* scrolls over it (commands.c, input.c), the selection, whose end points  *)
(* are rows of the ring (selection.c), and the two modes that keep a row   *)
(* number across output: scrollback search (search.c) and URL mode         *)
(* (url-mode.c).                                                           *)
(*                                                                         *)
(* A row is Null (not allocated), blank, or a prompt: what a line holds    *)
(* matters only through the prompt marker of OSC 133, which the prompt     *)
(* jumps read.  Columns are left out: a selection is two rows.  DECSTBM,   *)
(* the cursor and the count choose any region and any number of lines.     *)
(* The code keeps the selection's rows unreduced and moves them by the     *)
(* ring's size as the view wraps (selection_view_up(), _down()), so that   *)
(* the pivot can be compared; every other use reduces them first.          *)
(* While the application is on the alternate screen its grid is left out;  *)
(* what it does to the normal grid's view and to a search is kept.         *)
(***************************************************************************)
EXTENDS Integers, Sequences, FiniteSets

CONSTANTS
  N,           (* rows of the ring (the code's are powers of two, so that  *)
               (* it can mask where the model takes the remainder)         *)
  R,           (* rows of the screen                                       *)
  AltRows,     (* rows of the alternate screen's ring                      *)
  MaxPrompts,  (* bound: rows with a prompt marker at one time             *)
  Null

ASSUME ScreenAssumption ==
  /\ N \in Nat /\ R \in Nat /\ AltRows \in Nat /\ MaxPrompts \in Nat
  /\ 0 < R /\ R < N /\ R <= AltRows
  /\ Null \notin {"blank", "prompt"}

VARIABLES
  rows,     (* grid->rows                                                  *)
  offset,   (* grid->offset: the ring row of the screen's first line       *)
  view,     (* grid->view: the ring row of the first line shown            *)
  alt,      (* term->grid == &term->alt                                    *)
  start,    (* selection.coords.start.row, reduced to the ring; or -1      *)
  end,      (* selection.coords.end.row, likewise                          *)
  ongoing,  (* selection.ongoing                                           *)
  mode,     (* "plain", "search" (is_searching) or "urls" (URL mode)       *)
  original, (* search.original_view, or -1 if view_followed_offset         *)
  stray,    (* the view was left outside of the scrollback (see below)     *)
  dead      (* a NULL row was dereferenced, or a loop never ends           *)

selection == <<start, end, ongoing>>
search == <<mode, original>>
vars == <<rows, offset, view, alt, selection, search, stray, dead>>

Ring == 0 .. N - 1
NoRow == -1

-----------------------------------------------------------------------------
(* Rows of the ring.                                                       *)

Mask(row) == row % N                                  (* row & (N - 1)     *)
AbsToSb(ofs, row) == Mask(row - ofs - R)              (* scrollback order  *)
SbToAbs(ofs, sb) == Mask(sb + ofs + R)
ScreenRow(ofs, r) == Mask(ofs + r)                    (* grid_row_absolute *)

(* grid_sb_start_ignore_uninitialized(): the oldest row in use, as its     *)
(* distance from the start of the scrollback.  Faulty variant: the start.  *)
OldestOfRing == 0

OldestSb ==
  CHOOSE sb \in Ring :
    /\ rows[SbToAbs(offset, sb)] # Null
    /\ \A lower \in 0 .. sb - 1 : rows[SbToAbs(offset, lower)] = Null

ViewSb == AbsToSb(offset, view)

(* grid_swap_row(), row numbers relative to the screen.                    *)
Swap(ring, ofs, a, b) ==
  [ring EXCEPT ![ScreenRow(ofs, a)] = ring[ScreenRow(ofs, b)],
               ![ScreenRow(ofs, b)] = ring[ScreenRow(ofs, a)]]

(* The loops of swaps: every line of lo .. hi with the one n above it, from *)
(* the last to the first, or the other way round.  Faulty variant: from    *)
(* the first.                                                              *)
SwapsFirstFirst(ring, ofs, n, lo, hi) ==
  LET f[i \in lo - 1 .. hi] ==
        IF i = lo - 1 THEN ring ELSE Swap(f[i - 1], ofs, i - n, i)
  IN IF hi < lo THEN ring ELSE f[hi]

SwapsDown(ring, ofs, n, lo, hi) ==
  LET f[i \in lo - 1 .. hi] ==
        IF i = hi THEN ring ELSE Swap(f[i + 1], ofs, i + 1 - n, i + 1)
  IN IF hi < lo THEN ring ELSE f[lo - 1]

SwapsUp(ring, ofs, n, lo, hi) ==
  LET f[i \in lo - 1 .. hi] ==
        IF i = lo - 1 THEN ring ELSE Swap(f[i - 1], ofs, i, i - n)
  IN IF hi < lo THEN ring ELSE f[hi]

(* erase_line() on lines lo .. hi of the screen, allocating them.          *)
Erased(ring, ofs, lo, hi) ==
  [p \in Ring |-> IF \E r \in lo .. hi : ScreenRow(ofs, r) = p
                    THEN "blank" ELSE ring[p]]

Prompts == {p \in Ring : rows[p] = "prompt"}

-----------------------------------------------------------------------------
(* The selection.                                                          *)

Max2(a, b) == IF a > b THEN a ELSE b
Min2(a, b) == IF a < b THEN a ELSE b

FirstSb(ofs) == Min2(AbsToSb(ofs, start), AbsToSb(ofs, end))
LastSb(ofs) == Max2(AbsToSb(ofs, start), AbsToSb(ofs, end))

(* The rows foreach_selected() walks over.                                 *)
Selected ==
  IF end < 0 \/ start < 0 THEN {}
  ELSE {SbToAbs(offset, sb) : sb \in FirstSb(offset) .. LastSb(offset)}

(* selection_on_rows(), rows of the screen.                                *)
OnRows(lo, hi) ==
  LET relLo == AbsToSb(offset, offset + lo)
      relHi == AbsToSb(offset, offset + hi)
      first == FirstSb(offset)
      last == LastSb(offset)
  IN \/ relLo <= first /\ first <= relHi
     \/ relLo <= last /\ last <= relHi
     \/ first <= relLo /\ relHi <= last

OnTopRegion(top) == top > 0 /\ OnRows(0, top - 1)
OnBottomRegion(bottom) == bottom < R /\ OnRows(bottom, R - 1)

NoSelection == <<NoRow, NoRow, FALSE>>

-----------------------------------------------------------------------------
(* A view is good when it lies within the scrollback and the screen, and   *)
(* every row of it is allocated.                                           *)
ViewOk ==
  /\ ViewSb <= N - R
  /\ \A r \in 0 .. R - 1 : rows[Mask(view + r)] # Null

(* Two steps are known to leave the view elsewhere (UrlScroll, a cancelled *)
(* search); stray remembers it until the view is good again.               *)
Settles == stray' = (stray /\ ~ViewOk')
MayStray == stray' = ~ViewOk'

Select(sel) == start' = sel[1] /\ end' = sel[2] /\ ongoing' = sel[3]

Live == ~dead
OnNormal == Live /\ ~alt

Init ==
  /\ rows = [p \in Ring |-> IF p < R THEN "blank" ELSE Null]
  /\ offset = 0 /\ view = 0
  /\ alt = FALSE
  /\ start = NoRow /\ end = NoRow /\ ongoing = FALSE
  /\ mode = "plain" /\ original = NoRow
  /\ stray = FALSE /\ dead = FALSE

-----------------------------------------------------------------------------
(* Output of the application.                                              *)

(* The selection once the region scrolled up (down) by n.  Faulty variant: *)
(* it is never cancelled.                                                  *)
SelectionStays(top, bottom, n) == selection

AfterScrollUp(top, bottom, n) ==
  IF end >= 0 /\ (\/ OnTopRegion(top)
                  \/ OnBottomRegion(bottom)
                  \/ FirstSb(offset) - n < 0)           (* selection_scroll_up *)
    THEN NoSelection ELSE selection

AfterScrollDown(top, bottom, n) ==
  IF end >= 0 /\ (\/ OnTopRegion(top)
                  \/ OnBottomRegion(bottom)
                  \/ LastSb(offset) > N - 1 - n)      (* selection_scroll_down *)
    THEN NoSelection ELSE selection

ScrolledRing(ofs, top, bottom, n) ==
  Erased(SwapsDown(SwapsDown(rows, ofs, n, 0, top - 1), ofs, n, bottom, R - 1),
         ofs, bottom - n, bottom - 1)

(* Where a scrolled-back view starts once the screen begins at ofs: if     *)
(* part of it was scrolled out, cmd_scrollback_down() moves it to the      *)
(* oldest line, which URL mode prevents.  Faulty variant: by all n lines.  *)
ViewMovesAlong(ofs, n) ==
  IF n > ViewSb /\ mode # "urls" THEN Mask(view + Min2(n, Mask(ofs - view))) ELSE view

ViewAfterScroll(ofs, n) ==
  IF n > ViewSb /\ mode # "urls"
    THEN Mask(view + Min2(n - ViewSb, Mask(ofs - view))) ELSE view

(* term_scroll_partial()                                                   *)
Scroll(top, bottom, n) ==
  LET ofs == Mask(offset + n)
  IN /\ OnNormal
     /\ offset' = ofs
     /\ rows' = ScrolledRing(ofs, top, bottom, n)
     /\ view' = IF view = offset THEN ofs ELSE ViewAfterScroll(ofs, n)
     /\ Select(AfterScrollUp(top, bottom, n))
     /\ UNCHANGED <<alt, search, dead>>
     /\ IF mode = "urls" THEN MayStray ELSE Settles

ReversedRing(ofs, top, bottom, n) ==
  LET freed == [p \in Ring |-> IF \E r \in bottom - n .. bottom - 1 :
                                    ScreenRow(offset, r) = p
                                 THEN Null ELSE rows[p]]
      swapped == SwapsUp(SwapsUp(freed, ofs, n, bottom + n, R + n - 1),
                         ofs, n, n, top + n - 1)
  IN Erased(swapped, ofs, top, top + n - 1)

(* term_scroll_reverse_partial()                                           *)
ScrollReverse(top, bottom, n) ==
  LET ofs == Mask(offset - n)
  IN /\ OnNormal
     /\ offset' = ofs
     /\ rows' = ReversedRing(ofs, top, bottom, n)
     /\ view' = IF view = offset \/ AbsToSb(ofs, view) > AbsToSb(ofs, ofs)
                  THEN ofs ELSE view
     /\ Select(AfterScrollDown(top, bottom, n))
     /\ UNCHANGED <<alt, search, dead>>
     /\ Settles

(* term_erase_scrollback()                                                 *)
EraseScrollback ==
  LET last == N - R - 1
      from == AbsToSb(offset, start)
      to == AbsToSb(offset, end)
      touched == end >= 0 /\ (\/ from = 0
                              \/ from <= last /\ to >= last
                              \/ to <= last)
  IN /\ OnNormal
     /\ Select(IF touched THEN NoSelection ELSE selection)
     /\ rows' = [p \in Ring |-> IF AbsToSb(offset, p) <= last THEN Null ELSE rows[p]]
     /\ view' = offset
     /\ UNCHANGED <<offset, alt, search, dead>>
     /\ Settles

(* OSC 133;A on the line of the cursor; erase_line() on a line.            *)
MarkPrompt(r) ==
  /\ OnNormal
  /\ Cardinality(Prompts \cup {ScreenRow(offset, r)}) <= MaxPrompts
  /\ rows' = [rows EXCEPT ![ScreenRow(offset, r)] = "prompt"]
  /\ UNCHANGED <<offset, view, alt, selection, search, dead>>
  /\ Settles

EraseLine(r) ==
  /\ OnNormal
  /\ rows' = [rows EXCEPT ![ScreenRow(offset, r)] = "blank"]
  /\ UNCHANGED <<offset, view, alt, selection, search, dead>>
  /\ Settles

(* term_reset(), hard: the alternate screen is left too.                   *)
Reset ==
  /\ Live
  /\ alt' = FALSE
  /\ offset' = 0 /\ view' = 0
  /\ rows' = [p \in Ring |-> IF p < R THEN "blank" ELSE Null]
  /\ Select(NoSelection)
  /\ UNCHANGED <<search, dead>>
  /\ Settles

(* DECSET and DECRST of 1049.                                              *)
SwitchScreen ==
  /\ Live
  /\ alt' = ~alt
  /\ Select(NoSelection)
  /\ UNCHANGED <<rows, offset, view, search, dead>>
  /\ Settles

Output ==
  \/ \E top \in 0 .. R - 1 : \E bottom \in top + 1 .. R :
       \E n \in 1 .. bottom - top :
         Scroll(top, bottom, n) \/ ScrollReverse(top, bottom, n)
  \/ EraseScrollback
  \/ \E r \in 0 .. R - 1 : MarkPrompt(r) \/ EraseLine(r)
  \/ Reset
  \/ SwitchScreen

-----------------------------------------------------------------------------
(* The user scrolls.                                                       *)

(* cmd_scrollback_up(), cmd_scrollback_down(): the view after them.        *)
UpFrom(k) ==
  IF alt \/ mode = "urls" THEN view
  ELSE Mask(view - Min2(k, Mask(view - SbToAbs(offset, OldestSb))))

DownFrom(k) ==
  IF alt \/ mode = "urls" THEN view
  ELSE Mask(view + Min2(k, Mask(offset - view)))

ScrollbackUp(k) ==
  /\ Live
  /\ view' = UpFrom(k)
  /\ UNCHANGED <<rows, offset, alt, selection, search, dead>>
  /\ Settles

ScrollbackDown(k) ==
  /\ Live
  /\ view' = DownFrom(k)
  /\ UNCHANGED <<rows, offset, alt, selection, search, dead>>
  /\ Settles

(* BIND_ACTION_PROMPT_PREV: the nearest prompt above the view.             *)
PromptPrev ==
  LET oldest == SbToAbs(offset, OldestSb)
      above == {p \in Prompts : Mask(p - oldest) < Mask(view - oldest)}
  IN /\ OnNormal
     /\ mode = "plain"
     /\ above # {}
     /\ view' = CHOOSE p \in above :
                  \A q \in above : Mask(q - oldest) <= Mask(p - oldest)
     /\ UNCHANGED <<rows, offset, alt, selection, search, dead>>
     /\ Settles

(* BIND_ACTION_PROMPT_NEXT: the loop ends at the first prompt below the    *)
(* view, or at ring row offset + R - 1: that number is not reduced to the  *)
(* ring, and never met when the screen wraps around.                       *)
NextStop ==
  {d \in 1 .. N : LET p == Mask(view + d)
                  IN rows[p] # "blank" \/ p = offset + R - 1}

PromptNext ==
  /\ OnNormal
  /\ mode = "plain"
  /\ view # offset
  /\ LET oldest == SbToAbs(offset, OldestSb)
         d == CHOOSE x \in NextStop : \A y \in NextStop : x <= y
         p == Mask(view + d)
     IN IF NextStop = {} \/ rows[p] = Null
          THEN dead' = TRUE /\ UNCHANGED view
          ELSE /\ view' = IF rows[p] = "prompt"
                            THEN Mask(oldest + Min2(Mask(offset - oldest), Mask(p - oldest)))
                            ELSE view
               /\ UNCHANGED dead
  /\ UNCHANGED <<rows, offset, alt, selection, search>>
  /\ Settles

(* A key that reaches the application: term_reset_view() and               *)
(* selection_cancel().                                                     *)
KeyInput ==
  /\ Live
  /\ mode = "plain"
  /\ view' = IF alt THEN view ELSE offset
  /\ Select(NoSelection)
  /\ UNCHANGED <<rows, offset, alt, search, dead>>
  /\ Settles

ViewMoves ==
  \/ \E k \in {1, R, N} : ScrollbackUp(k) \/ ScrollbackDown(k)
  \/ PromptPrev
  \/ PromptNext
  \/ KeyInput

-----------------------------------------------------------------------------
(* The user selects.                                                       *)

(* selection_modify() marks every row from start to end; selection_update()*)
(* moves the end only (the pivot moves the start by at most a cell).       *)
SelectTo(from, to) ==
  LET a == AbsToSb(offset, from)
      b == AbsToSb(offset, to)
      walked == {SbToAbs(offset, sb) : sb \in Min2(a, b) .. Max2(a, b)}
  IN /\ Select(<<from, to, TRUE>>)
     /\ dead' = \E p \in walked : rows[p] = Null

(* selection_start(): with a mouse button on line r, "char" leaves the end *)
(* open, "word" and "line" select at once.                                 *)
SelectStart(r, kind) ==
  /\ OnNormal
  /\ mode = "plain"
  /\ IF kind = "char"
       THEN Select(<<Mask(view + r), NoRow, TRUE>>) /\ UNCHANGED dead
       ELSE SelectTo(Mask(view + r), Mask(view + r))
  /\ UNCHANGED <<rows, offset, view, alt, search>>
  /\ Settles

(* selection_update() by pointer motion.                                   *)
SelectUpdate(r) ==
  /\ OnNormal
  /\ mode # "search"
  /\ start >= 0 /\ ongoing
  /\ SelectTo(start, Mask(view + r))
  /\ UNCHANGED <<rows, offset, view, alt, search>>
  /\ Settles

(* selection_extend(): one end stays.                                      *)
SelectExtend(r) ==
  LET rel == AbsToSb(offset, view + r)
      first == IF AbsToSb(offset, start) <= AbsToSb(offset, end) THEN start ELSE end
      last == IF first = start THEN end ELSE start
  IN /\ OnNormal
     /\ mode = "plain"
     /\ start >= 0 /\ end >= 0
     /\ \E fixed \in {first, last} :
          /\ rel < FirstSb(offset) => fixed = last
          /\ rel > LastSb(offset) => fixed = first
          /\ SelectTo(fixed, Mask(view + r))
     /\ UNCHANGED <<rows, offset, view, alt, search>>
     /\ Settles

(* fdm_scroll_timer(): the pointer is above or below the grid.             *)
AutoScroll(up, k) ==
  /\ OnNormal
  /\ start >= 0 /\ end >= 0 /\ ongoing
  /\ LET to == IF up THEN UpFrom(k) ELSE DownFrom(k)
     IN /\ view' = to
        /\ SelectTo(start, Mask(to + (IF up THEN 0 ELSE R - 1)))
  /\ UNCHANGED <<rows, offset, alt, search>>
  /\ Settles

(* selection_finalize(): button released, pointer left.                    *)
SelectFinalize ==
  /\ Live
  /\ ongoing
  /\ ongoing' = FALSE
  /\ UNCHANGED <<rows, offset, view, alt, start, end, search, dead>>
  /\ Settles

Selecting ==
  \/ \E r \in 0 .. R - 1 :
       \/ \E kind \in {"char", "word"} : SelectStart(r, kind)
       \/ SelectUpdate(r)
       \/ SelectExtend(r)
  \/ \E up \in BOOLEAN, k \in 1 .. 2 : AutoScroll(up, k)
  \/ SelectFinalize

-----------------------------------------------------------------------------
(* Search and URL mode.                                                    *)

(* search_begin()                                                          *)
SearchBegin ==
  /\ Live
  /\ mode = "plain"
  /\ mode' = "search"
  /\ original' = IF alt \/ view = offset THEN NoRow ELSE view
  /\ Select(NoSelection)
  /\ UNCHANGED <<rows, offset, view, alt, dead>>
  /\ Settles

(* search_find_next() found a match on ring row p; search_update_selection *)
(* moves the view if the match is not in it.                               *)
ViewOnMatch(p) ==
  LET last == Mask(view + R - 1)
      shown == IF last >= view THEN p >= view /\ p <= last
                               ELSE p >= view \/ p <= last
      sb == Min2(Max2(AbsToSb(offset, p) - R \div 2, 0), N - R)
  IN IF shown THEN view
     ELSE SbToAbs(offset, CHOOSE s \in sb .. N - 1 :
                            /\ rows[SbToAbs(offset, s)] # Null
                            /\ \A t \in sb .. s - 1 : rows[SbToAbs(offset, t)] = Null)

SearchFind(p) ==
  /\ OnNormal
  /\ mode = "search"
  /\ rows[p] # Null
  /\ view' = ViewOnMatch(p)
  /\ SelectTo(p, p)
  /\ UNCHANGED <<rows, offset, alt, search>>
  /\ Settles

(* ensure_view_is_allocated()                                              *)
Allocated(v) ==
  LET IsEnd(d) == rows[Mask(v + d)] # Null
      ahead == CHOOSE d \in Ring : IsEnd(d) /\ \A e \in 0 .. d - 1 : ~IsEnd(e)
      IsBack(d) == rows[Mask(v - d + R - 1)] # Null
      back == CHOOSE d \in Ring : IsBack(d) /\ \A e \in 0 .. d - 1 : ~IsBack(e)
  IN IF rows[v] = Null THEN Mask(v + ahead) ELSE Mask(v - back)

(* BIND_ACTION_SEARCH_CANCEL: back to the view at the start of the search, *)
(* a row of the ring, whichever grid is shown now.                         *)
SearchCancel ==
  /\ Live
  /\ mode = "search"
  /\ mode' = "plain" /\ original' = NoRow
  /\ view' = CASE alt -> view
               [] ~alt /\ original = NoRow -> offset
               [] OTHER -> Allocated(original)
  /\ dead' = (alt /\ original >= AltRows)
  /\ Select(NoSelection)
  /\ UNCHANGED <<rows, offset, alt>>
  /\ MayStray

(* BIND_ACTION_SEARCH_COMMIT                                               *)
SearchCommit ==
  /\ Live
  /\ mode = "search"
  /\ mode' = "plain" /\ original' = NoRow
  /\ ongoing' = FALSE
  /\ UNCHANGED <<rows, offset, view, alt, start, end, dead>>
  /\ Settles

(* urls_render(); urls_reset().                                            *)
UrlsBegin ==
  /\ Live
  /\ mode = "plain"
  /\ mode' = "urls"
  /\ UNCHANGED <<rows, offset, view, alt, selection, original, dead>>
  /\ Settles

UrlsEnd ==
  /\ Live
  /\ mode = "urls"
  /\ mode' = "plain"
  /\ UNCHANGED <<rows, offset, view, alt, selection, original, dead>>
  /\ Settles

(* A mouse button ends either mode: search_cancel(), urls_reset().         *)
MousePress ==
  /\ Live
  /\ mode = "search"
  /\ mode' = "plain" /\ original' = NoRow
  /\ Select(NoSelection)
  /\ UNCHANGED <<rows, offset, view, alt, dead>>
  /\ Settles

Modes ==
  \/ SearchBegin
  \/ \E p \in Ring : SearchFind(p)
  \/ SearchCancel
  \/ SearchCommit
  \/ UrlsBegin
  \/ UrlsEnd
  \/ MousePress

Next == Output \/ ViewMoves \/ Selecting \/ Modes

Spec == Init /\ [][Next]_vars
-----------------------------------------------------------------------------
TypeOK ==
  /\ rows \in [Ring -> {Null, "blank", "prompt"}]
  /\ offset \in Ring /\ view \in Ring
  /\ start \in Ring \cup {NoRow} /\ end \in Ring \cup {NoRow} /\ ongoing \in BOOLEAN
  /\ mode \in {"plain", "search", "urls"} /\ original \in Ring \cup {NoRow}
  /\ alt \in BOOLEAN /\ stray \in BOOLEAN /\ dead \in BOOLEAN

(* The history and the screen, read off the ring: row pointers that wrap   *)
(* around, swapped, freed and allocated again, are the two sequences of    *)
(* module Scrollback.                                                      *)
HistoryLines ==
  LET used == {sb \in 0 .. N - R - 1 : rows[SbToAbs(offset, sb)] # Null}
      first == CHOOSE sb \in used : \A other \in used : sb <= other
  IN IF used = {} THEN <<>>
     ELSE [i \in 1 .. N - R - first |-> rows[SbToAbs(offset, first + i - 1)]]

ScreenLines == [r \in 1 .. R |-> rows[ScreenRow(offset, r - 1)]]

Lines == INSTANCE Scrollback WITH
  Height <- R, Capacity <- N - R, history <- HistoryLines, screen <- ScreenLines

ImplementsScrollback == Lines!Spec

(* The view lies within the scrollback and the screen and shows no row     *)
(* that is not allocated, unless one of the two known steps left it        *)
(* elsewhere: output in URL mode that scrolls the shown lines out, and a   *)
(* search cancelled after its first view was reused.                       *)
ViewShowsLines == dead \/ stray \/ ViewOk

(* foreach_selected() meets no row that is not allocated.                  *)
SelectionAllocated == \A p \in Selected : dead \/ rows[p] # Null

(* The ring, its view and the selection fit together.                      *)
ScreenKept == TypeOK /\ ViewShowsLines /\ SelectionAllocated

(* Lines selected before a scroll are the lines selected after it, unless  *)
(* the selection was cancelled.  (It does not hold of regions below the    *)
(* first line, nor of reverse scrolling over selected history.)            *)
KeepsSelectedLines ==
  [][end' >= 0 /\ offset' # offset =>
       \A n \in 1 .. R : \A bottom \in n .. R :
         offset' = Mask(offset + n) /\ Scroll(0, bottom, n)
           => \A p \in Selected' : rows'[p] = rows[p]]_vars

(* Output does not move a view that is scrolled back: it shows the same    *)
(* lines, or starts at the oldest line left.                               *)
ScrolledBackViewStays ==
  [][view # offset /\ offset' # offset /\ ~stray /\ ~stray' =>
       \A top \in 0 .. R - 1 : \A bottom \in top + 1 .. R :
         \A n \in 1 .. bottom - top :
           offset' = Mask(offset + n) /\ Scroll(top, bottom, n)
             => view' = view \/ AbsToSb(offset', view') = 0]_vars

(* Output moves neither the selected lines nor the lines that are shown.   *)
LinesStay == KeepsSelectedLines /\ ScrolledBackViewStays

=============================================================================
