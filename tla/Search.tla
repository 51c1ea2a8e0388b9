------------------------------- MODULE Search -------------------------------
(***************************************************************************)
(* Searching the scrollback (search.c): a string the user edits, a match   *)
(* in the ring of rows, the selection that shows it and the view that has  *)
(* it in sight.  The match is found again after each edit, stepped to the  *)
(* next or the previous one, and can be extended; meanwhile the            *)
(* application's output scrolls the rows and cancels selections, and       *)
(* pasted text arrives when it does.                                       *)
(***************************************************************************)
EXTENDS Integers, FiniteSets, SequencesExt

CONSTANTS
    NumRows, Rows, Cols,    \* the ring's, the screen's
    Contents,   \* rows of text, the oldest first, the screen's last
    Letters,    \* that are typed or pasted; a screen has others, too
    MaxLen,     \* bound: characters of the string
    MaxOutput,  \* bound: lines the application prints
    MaxPastes   \* bound

VARIABLES
    grid,       \* rows (<<>>: not allocated), offset, view; lines printed
    search,     \* term->search; "stale": what is in the buffer after its length
    last,       \* term->search.last
    sel,        \* the selection, its two ends
    pastes,     \* transfers that were begun; texts without their end yet
    found       \* history: the last search, until something changes

searchVars == <<grid, search, last, sel, pastes, found>>

Lower(c) == IF c = "A" THEN "a" ELSE c

Nowhere == [row |-> -1, col |-> -1]
NoSelection == [start |-> Nowhere, end |-> Nowhere]
NotSearching == [on |-> FALSE, buf |-> <<>>, stale |-> <<>>, cursor |-> 0,
                 match |-> Nowhere, len |-> 0, original |-> 0, followed |-> TRUE]
Unknown == [known |-> FALSE, from |-> Nowhere, dir |-> "same"]

SearchInit ==
    /\ \E text \in Contents, above \in 0 .. NumRows - Rows :
        /\ above <= Len(text) - Rows
        /\ grid = [rows |-> [r \in 0 .. NumRows - 1 |->
                                IF r < Len(text) THEN text[r + 1] ELSE <<>>],
                   offset |-> Len(text) - Rows,
                   view |-> Len(text) - Rows - above,
                   printed |-> 0]
    /\ search = NotSearching
    /\ last = <<>>
    /\ sel = NoSelection
    /\ pastes = [begun |-> 0, open |-> FALSE]
    /\ found = Unknown

-----------------------------------------------------------------------------
ToSb(r) == (r - grid.offset - Rows + NumRows) % NumRows
ToAbs(sb) == (sb + grid.offset + Rows) % NumRows
Allocated(r) == grid.rows[r] # <<>>

Cells == NumRows * Cols
Index(p) == p.row * Cols + p.col
Cell(i) == [row |-> (i % Cells) \div Cols, col |-> i % Cols]

(* matches_cell(): the case counts if there is an upper case letter before *)
(* the terminator of the buffer, which is not where its length is, always. *)
CaseMatters(s) == \E i \in DOMAIN (s.buf \o s.stale) : (s.buf \o s.stale)[i] = "A"

MatchesCell(s, case, p, i) ==
    LET c == grid.rows[p.row][p.col + 1]
    IN  IF case THEN c = s.buf[i] ELSE Lower(c) = Lower(s.buf[i])

(* Faulty variant: the last letter is not compared. *)
MatchesAllButLast(s, case, p) ==
    \A i \in 1 .. Len(s.buf) - 1 :
        LET q == Cell(Index(p) + i - 1)
        IN  Allocated(q.row) /\ MatchesCell(s, case, q, i)

MatchesAt(s, case, p) ==
    \A i \in 1 .. Len(s.buf) :
        LET q == Cell(Index(p) + i - 1)
        IN  Allocated(q.row) /\ MatchesCell(s, case, q, i)

Steps(dir) == IF dir = "forward" THEN 1 ELSE -1

(* Where search_find_next() begins: next to the last match, or at an end   *)
(* of the view.                                                            *)
Start(s, dir) ==
    IF s.len = 0
    THEN IF dir = "forward" THEN [row |-> grid.view, col |-> 0]
         ELSE [row |-> (grid.view + Rows - 1) % NumRows, col |-> Cols - 1]
    ELSE IF dir = "same" THEN s.match
         ELSE Cell(Index(s.match) + Steps(dir) + Cells)

(* find_next(): how far from where it begins the first match is, of all    *)
(* the cells in one direction.                                             *)
Hits(s, from, dir) ==
    LET case == CaseMatters(s)
    IN  {k \in 0 .. Cells - 1 :
            MatchesAt(s, case, Cell(Index(from) + Steps(dir) * k + Cells))}

-----------------------------------------------------------------------------
Shows(view, p) == (p.row - view + NumRows) % NumRows < Rows

(* search_update_selection(): the comparison of row numbers that says      *)
(* whether the match is in view, and where the view goes.                  *)
InView(start, end) ==
    LET bottom == (grid.view + Rows - 1) % NumRows
    IN  IF bottom >= grid.view THEN start.row >= grid.view /\ end.row <= bottom
        ELSE start.row >= grid.view \/ end.row <= bottom

Centred(start) ==
    LET sb     == ToSb(start.row) - Rows \div 2
        inside == IF sb < 0 THEN 0 ELSE IF sb > NumRows - Rows THEN NumRows - Rows ELSE sb
        below  == {k \in 0 .. NumRows - 1 : Allocated((ToAbs(inside) + k) % NumRows)}
    IN  (ToAbs(inside) + CHOOSE k \in below : \A j \in below : k <= j) % NumRows

ViewFor(start, end) == IF InView(start, end) THEN grid.view ELSE Centred(start)

Cancelled(s) == [s EXCEPT !.match = Nowhere, !.len = 0]

(* search_find_next() *)
FindNext(s, dir) ==
    LET from == Start(s, dir)
        hits == IF s.buf = <<>> THEN {} ELSE Hits(s, from, dir)
    IN  /\ found' = [known |-> TRUE, from |-> from, dir |-> dir]
        /\ \/ /\ hits = {}
              /\ search' = Cancelled(s)
              /\ sel' = NoSelection
              /\ UNCHANGED grid
           \/ /\ hits # {}
              /\ LET start == Cell(Index(from) + Steps(dir) * Min(hits) + Cells)
                     end   == Cell(Index(start) + Len(s.buf) - 1)
                 IN  /\ search' = [s EXCEPT !.match = start, !.len = Len(s.buf)]
                     /\ sel' = [start |-> start, end |-> end]
                     /\ grid' = [grid EXCEPT !.view = ViewFor(start, end)]

-----------------------------------------------------------------------------
(* search_begin(), search_cancel_keep_selection(). *)
Begin ==
    /\ ~search.on
    /\ last' = IF search.buf = <<>> THEN last ELSE search.buf
    /\ search' = [NotSearching EXCEPT !.on = TRUE, !.original = grid.view,
                                      !.followed = grid.view = grid.offset]
    /\ sel' = NoSelection
    /\ found' = Unknown
    /\ UNCHANGED <<grid, pastes>>

EnsureAllocated(view) ==
    LET down == {k \in 0 .. NumRows - 1 : Allocated((view + k) % NumRows)}
        up   == {k \in 0 .. NumRows - 1 :
                    Allocated((view + Rows - 1 - k + NumRows) % NumRows)}
        least(S) == CHOOSE k \in S : \A j \in S : k <= j
    IN  IF ~Allocated(view) THEN (view + least(down)) % NumRows
        ELSE (view - least(up) + NumRows) % NumRows

End(keep) ==
    /\ search.on
    /\ last' = IF search.buf = <<>> THEN last ELSE search.buf
    /\ search' = NotSearching
    /\ sel' = IF keep THEN sel ELSE NoSelection
    /\ found' = Unknown
    /\ UNCHANGED pastes

Cancel ==
    /\ End(FALSE)
    /\ grid' = [grid EXCEPT !.view = IF search.followed THEN grid.offset
                                     ELSE EnsureAllocated(search.original)]

Commit == End(TRUE) /\ UNCHANGED grid

(* The string with some text at the cursor, terminated: add_wchars(). *)
WithText(s, text) ==
    [s EXCEPT !.buf = SubSeq(@, 1, s.cursor) \o text \o SubSeq(@, s.cursor + 1, Len(@)),
              !.stale = <<>>,
              !.cursor = @ + Len(text)]

Type ==
    /\ search.on
    /\ Len(search.buf) < MaxLen
    /\ \E c \in Letters : FindNext(WithText(search, <<c>>), "same")
    /\ UNCHANGED <<last, pastes>>

FindBinding ==
    /\ search.on
    /\ \E dir \in {"backward", "forward"} :
        FindNext(IF search.buf = <<>> THEN WithText(search, last) ELSE search, dir)
    /\ last' = IF search.buf = <<>> THEN <<>> ELSE last
    /\ UNCHANGED pastes

MoveCursor ==
    /\ search.on
    /\ \E c \in 0 .. Len(search.buf) : search' = [search EXCEPT !.cursor = c]
    /\ UNCHANGED <<grid, last, sel, pastes, found>>

(* Without the characters from the one after "a" to "b"; some bindings put *)
(* a terminator after the rest, and some leave it where it was.            *)
Without(s, a, b, terminated) ==
    LET rest == SubSeq(s.buf, 1, a) \o SubSeq(s.buf, b + 1, Len(s.buf))
    IN  [s EXCEPT !.buf = rest,
                  !.stale = IF terminated THEN <<>>
                            ELSE SubSeq(s.buf, Len(rest) + 1, Len(s.buf)) \o @,
                  !.cursor = a]

Delete ==
    /\ search.on
    /\ \E a, b \in 0 .. Len(search.buf), terminated \in BOOLEAN :
        /\ a < b
        /\ search.cursor \in {a, b}
        /\ terminated => b = a + 1 \/ (b = Len(search.buf) /\ search.cursor = a)
        /\ ~terminated => ~(b = Len(search.buf) /\ search.cursor = a /\ b > a + 1)
        /\ FindNext(Without(search, a, b, terminated), "same")
    /\ UNCHANGED <<last, pastes>>

-----------------------------------------------------------------------------
Extendable == search.on /\ search.len > 0 /\ sel # NoSelection

(* The text of the cells from p to q. *)
TextOf(p, q) ==
    LET n == (Index(q) - Index(p) + Cells) % Cells
    IN  [i \in 1 .. n + 1 |-> LET c == Cell(Index(p) + i - 1) IN grid.rows[c.row][c.col + 1]]

(* Cells that can be reached without crossing the ends of the scrollback,  *)
(* by a character, to the end of a word, or by a line.                     *)
AfterEnd == {p \in [row : 0 .. NumRows - 1, col : 0 .. Cols - 1] :
                /\ Allocated(p.row)
                /\ ToSb(p.row) * Cols + p.col > ToSb(sel.end.row) * Cols + sel.end.col}

BeforeStart == {p \in [row : 0 .. NumRows - 1, col : 0 .. Cols - 1] :
                  /\ Allocated(p.row)
                  /\ ToSb(p.row) * Cols + p.col < ToSb(sel.start.row) * Cols + sel.start.col
                  /\ \A r \in 0 .. NumRows - 1 :
                        ToSb(r) \in ToSb(p.row) .. ToSb(sel.start.row) => Allocated(r)}

ExtendRight ==
    /\ Extendable
    /\ \E target \in AfterEnd :
        LET text == TextOf(Cell(Index(sel.end) + 1), target)
        IN  /\ Len(search.buf) + Len(text) <= MaxLen
            /\ search' = [search EXCEPT
                    !.buf = @ \o text, !.stale = <<>>,
                    !.cursor = IF @ = Len(search.buf) THEN @ + Len(text) ELSE @,
                    !.len = Len(search.buf) + Len(text)]
            /\ sel' = [start |-> search.match, end |-> target]
            /\ grid' = [grid EXCEPT !.view = ViewFor(search.match, target)]
    /\ found' = [found EXCEPT !.from = Nowhere]
    /\ UNCHANGED <<last, pastes>>

ExtendLeft ==
    /\ Extendable
    /\ \E target \in BeforeStart :
        LET text == TextOf(target, Cell(Index(sel.start) - 1 + Cells))
        IN  /\ Len(search.buf) + Len(text) <= MaxLen
            /\ search' = [search EXCEPT
                    !.buf = text \o @, !.stale = <<>>,
                    !.cursor = IF @ # 0 THEN @ + Len(text) ELSE @,
                    !.match = target,
                    !.len = Len(search.buf) + Len(text)]
            /\ sel' = [start |-> target, end |-> sel.end]
            /\ grid' = [grid EXCEPT !.view = ViewFor(target, sel.end)]
    /\ found' = [found EXCEPT !.from = Nowhere]
    /\ UNCHANGED <<last, pastes>>

-----------------------------------------------------------------------------
(* The text comes later, in pieces, and is searched for at its end; the    *)
(* binding itself searches for what the string is so far.                  *)
Paste ==
    /\ search.on
    /\ pastes.begun < MaxPastes
    /\ FindNext(search, "same")
    /\ pastes' = [begun |-> pastes.begun + 1, open |-> TRUE]
    /\ UNCHANGED last

PasteText ==
    /\ pastes.open
    /\ Len(search.buf) < MaxLen
    /\ \E c \in Letters : search' = WithText(search, <<c>>)
    /\ found' = Unknown
    /\ UNCHANGED <<grid, last, sel, pastes>>

PasteDone ==
    /\ pastes.open
    /\ FindNext(search, "same")
    /\ pastes' = [pastes EXCEPT !.open = FALSE]
    /\ UNCHANGED last

(* The application prints a line: the oldest row is reused, a selection on *)
(* it is cancelled, and a view of it moves on.                             *)
Output ==
    /\ grid.printed < MaxOutput
    /\ LET top    == (grid.offset + Rows) % NumRows
           reused == sel # NoSelection /\ top \in {sel.start.row, sel.end.row}
       IN  /\ grid' = [grid EXCEPT
                    !.rows[top] = [c \in 1 .. Cols |-> "b"],
                    !.offset = (@ + 1) % NumRows,
                    !.view = IF @ = grid.offset \/ @ = top THEN (@ + 1) % NumRows ELSE @,
                    !.printed = @ + 1]
           /\ sel' = IF reused THEN NoSelection ELSE sel
           /\ search' = IF reused THEN Cancelled(search) ELSE search
    /\ found' = [found EXCEPT !.from = Nowhere]
    /\ UNCHANGED <<last, pastes>>

(* A button press, or output to what is selected. *)
SelectionCancel ==
    /\ sel # NoSelection
    /\ sel' = NoSelection
    /\ search' = Cancelled(search)
    /\ found' = Unknown
    /\ UNCHANGED <<grid, last, pastes>>

SearchNext ==
    \/ Begin \/ Cancel \/ Commit \/ Type \/ FindBinding \/ MoveCursor \/ Delete
    \/ ExtendRight \/ ExtendLeft \/ Paste \/ PasteText \/ PasteDone \/ Output
    \/ SelectionCancel

SearchSpec == SearchInit /\ [][SearchNext]_searchVars

-----------------------------------------------------------------------------
Reads(p, text) ==
    \A i \in DOMAIN text :
        LET q == Cell(Index(p) + i - 1)
        IN  Allocated(q.row) /\ Lower(grid.rows[q.row][q.col + 1]) = Lower(text[i])

Exactly(p, text) ==
    \A i \in DOMAIN text :
        LET q == Cell(Index(p) + i - 1)
        IN  Allocated(q.row) /\ grid.rows[q.row][q.col + 1] = text[i]

Distance(p) == (Steps(found.dir) * (Index(p) - Index(found.from)) + Cells) % Cells

Positions == [row : 0 .. NumRows - 1, col : 0 .. Cols - 1]

(* While the string is edited, the match stepped and extended and output   *)
(* scrolls by: the match is where the string is, all of it; it is what is  *)
(* selected, and some of it is in sight when it was found, unless it runs  *)
(* over the end of the ring; no occurrence is nearer in the direction of   *)
(* the search, and if there is no match there is no occurrence             *)
(* (search.c:308, 427, 182).                                               *)
SearchFinds ==
    /\ search.cursor \in 0 .. Len(search.buf)
    /\ search.len = 0 <=> search.match = Nowhere
    /\ \A r \in 0 .. Rows - 1 : Allocated((grid.view + r) % NumRows)
    /\ search.on /\ search.len > 0 =>
            sel.start = search.match
    /\ found.known /\ search.on /\ search.len > 0 =>
            /\ search.len = Len(search.buf)
            /\ Reads(search.match, search.buf)
            /\ sel.end = Cell(Index(search.match) + search.len - 1)
    /\ found.known /\ found.from # Nowhere /\ search.on /\ search.buf # <<>> =>
            LET occurrences == {p \in Positions : Exactly(p, search.buf)}
            IN  IF search.len = 0 THEN occurrences = {}
                ELSE /\ \/ Shows(grid.view, sel.start) \/ Shows(grid.view, sel.end)
                        \/ sel.start.row > sel.end.row
                     /\ \A p \in occurrences : Distance(search.match) <= Distance(p)

=============================================================================
