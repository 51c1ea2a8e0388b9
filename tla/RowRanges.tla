------------------------------ MODULE RowRanges ------------------------------
(***************************************************************************)
(* The links and underline styles of a row are kept as ranges of columns,  *)
(* sorted, in a vector that is edited in place (grid.c).  Printing puts a  *)
(* range of one column, erasing takes any columns out, and ranges are      *)
(* extended, split, shrunk and merged on the way.  `columns' is what the   *)
(* vector stands for: the link of every column.                            *)
(***************************************************************************)
EXTENDS Integers, SequencesExt

CONSTANTS
    None,       \* no link
    RowCols,    \* columns of a row, counted from 0
    Ids         \* links

ASSUME RowRangesAssumption == RowCols \in Nat \ {0} /\ None \notin Ids

VARIABLES
    ranges,     \* row_ranges.v, row_ranges.count
    columns     \* history: what was put in each column, and not erased since

rangesVars == <<ranges, columns>>

Columns == 0 .. RowCols - 1

Range1(start, end, id) == [start |-> start, end |-> end, id |-> id]

RangesInit ==
    /\ ranges = <<>>
    /\ columns = [c \in Columns |-> None]

-----------------------------------------------------------------------------
(* Neighbours of the same link become one; the pass starts over from each  *)
(* merged pair, as the code's i-- does.                                    *)
Joined(done, r) ==
    IF done # <<>> /\ Last(done).id = r.id /\ Last(done).end + 1 = r.start
    THEN [done EXCEPT ![Len(done)].end = r.end]
    ELSE Append(done, r)

Merged(rs) ==
    LET done[k \in 0 .. Len(rs)] ==
            IF k = 0 THEN <<>> ELSE Joined(done[k - 1], rs[k])
    IN  done[Len(rs)]

(* The range at `at' is taken apart around the column, for a new one.      *)
SplitAround(rs, at, col, id) ==
    LET r == rs[at]
        new == Range1(col, col, id)
        left == IF r.start < col THEN <<Range1(r.start, col - 1, r.id)>> ELSE <<>>
        right == IF col < r.end THEN <<Range1(col + 1, r.end, r.id)>> ELSE <<>>
        split == SubSeq(rs, 1, at - 1) \o (left \o <<new>> \o right)
                 \o SubSeq(rs, at + 1, Len(rs))
    IN  IF left # <<>> /\ right # <<>> THEN split ELSE Merged(split)

(* The last range that begins at the column or before it, or 0. *)
LastFrom(rs, col) ==
    LET from == {i \in DOMAIN rs : rs[i].start <= col}
    IN  IF from = {} THEN 0 ELSE Max(from)

(* Faulty variant: a range that ends before the column is extended to it. *)
ExtendsAny(r, col, id) == r.id = id /\ r.end < col
Extends(r, col, id) == r.id = id /\ r.end + 1 = col

(* grid_row_range_put() *)
RangePut(rs, col, id) ==
    LET at == LastFrom(rs, col)
    IN  CASE at = 0 -> <<Range1(col, col, id)>> \o rs
          [] at > 0 /\ rs[at].end < col /\ Extends(rs[at], col, id) ->
                [rs EXCEPT ![at].end = col]
          [] at > 0 /\ rs[at].end < col /\ ~Extends(rs[at], col, id) ->
                InsertAt(rs, at + 1, Range1(col, col, id))
          [] at > 0 /\ rs[at].end >= col /\ rs[at].id = id -> rs
          [] at > 0 /\ rs[at].end >= col /\ rs[at].id # id ->
                SplitAround(rs, at, col, id)

(* What is left of a range when the columns from `start' to `end' are      *)
(* erased.  Faulty variant: of a range that is cut in the middle, the head.*)
LeavesHead(r, start, end) ==
    IF end < r.start \/ r.end < start THEN <<r>>
    ELSE IF r.start < start THEN <<[r EXCEPT !.end = start - 1]>>
    ELSE IF end < r.end THEN <<[r EXCEPT !.start = end + 1]>>
    ELSE <<>>

Leaves(r, start, end) ==
    IF end < r.start \/ r.end < start THEN <<r>>
    ELSE (IF r.start < start THEN <<[r EXCEPT !.end = start - 1]>> ELSE <<>>)
         \o (IF end < r.end THEN <<[r EXCEPT !.start = end + 1]>> ELSE <<>>)

(* grid_row_range_erase() *)
Erase(rs, start, end) ==
    LET left[k \in 0 .. Len(rs)] ==
            IF k = 0 THEN <<>> ELSE left[k - 1] \o Leaves(rs[k], start, end)
    IN  left[Len(rs)]

-----------------------------------------------------------------------------
PutRange ==
    \E col \in Columns, id \in Ids :
        /\ ranges' = RangePut(ranges, col, id)
        /\ columns' = [columns EXCEPT ![col] = id]

EraseRange ==
    \E start, end \in Columns :
        /\ start <= end
        /\ ranges' = Erase(ranges, start, end)
        /\ columns' = [c \in Columns |-> IF c \in start .. end THEN None ELSE columns[c]]

RangesNext == PutRange \/ EraseRange

RangesSpec == RangesInit /\ [][RangesNext]_rangesVars

-----------------------------------------------------------------------------
(* verify_no_overlapping_ranges(), verify_ranges_are_sorted() *)
Sorted ==
    \A i \in DOMAIN ranges :
        /\ 0 <= ranges[i].start /\ ranges[i].start <= ranges[i].end /\ ranges[i].end < RowCols
        /\ i > 1 => ranges[i - 1].end < ranges[i].start

(* After any sequence of puts and erasures the vector is sorted, without   *)
(* overlaps, and stands for exactly the links that were put: no column     *)
(* gains, loses or keeps one by the splitting and merging of its           *)
(* neighbours' ranges.                                                     *)
RangesExact ==
    /\ Sorted
    /\ columns = [c \in Columns |->
                    IF \E i \in DOMAIN ranges : c \in ranges[i].start .. ranges[i].end
                    THEN LET i == CHOOSE i \in DOMAIN ranges :
                                    c \in ranges[i].start .. ranges[i].end
                         IN  ranges[i].id
                    ELSE None]
=============================================================================
