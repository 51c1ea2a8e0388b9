----------------------------- MODULE Scrollback -----------------------------
(***************************************************************************)
(* What the grid of a terminal promises to its user: the screen and, above *)
(* it, the lines that scrolled out, oldest first, as two sequences.  The   *)
(* ring of row pointers that holds them (grid.c, terminal.c), its offset   *)
(* and its wrapping are the business of module Screen, which implements    *)
(* this one.                                                               *)
(***************************************************************************)
EXTENDS Integers, Sequences

CONSTANTS
  Height,    (* lines on the screen                                        *)
  Capacity   (* lines the history can hold                                 *)

VARIABLES
  history,   (* lines above the screen, oldest first                       *)
  screen     (* the lines on the screen                                    *)

Blanks(n) == [i \in 1 .. n |-> "blank"]

Newest(seq, n) == [i \in 1 .. n |-> seq[Len(seq) - n + i]]

Rotated(seq, by) == [i \in 1 .. Len(seq) |-> seq[((i - 1 + by) % Len(seq)) + 1]]

(* The n lines from top on, in the order they enter the history.  A single *)
(* line, or a block whose top is a multiple of its size, enters in order;  *)
(* any other block enters rotated: its lines are swapped n lines at a time.*)
Leaving(top, n) ==
  LET block == [i \in 1 .. n |-> screen[top + i]]
  IN {Rotated(block, by) : by \in IF top % n = 0 THEN {0} ELSE 0 .. n - 1}

Init == history = <<>> /\ screen = Blanks(Height)

(* Lines top .. bottom-1 move up by n, the n topmost enter the history.    *)
Scroll(top, bottom, n) ==
  /\ screen' = [row \in 1 .. Height |->
                  IF row <= top \/ row > bottom THEN screen[row]
                  ELSE IF row <= bottom - n THEN screen[row + n] ELSE "blank"]
  /\ \E out \in Leaving(top, n) :
       LET all == history \o out
       IN history' = IF Len(all) > Capacity THEN Newest(all, Capacity) ELSE all

(* Lines top .. bottom-1 move down by n.  The ring turns backwards, over   *)
(* the n newest lines of the history.                                      *)
ScrollReverse(top, bottom, n) ==
  /\ history' = [i \in 1 .. Len(history) - n |-> history[i]]
  /\ screen' = [row \in 1 .. Height |->
                  IF row <= top \/ row > bottom THEN screen[row]
                  ELSE IF row <= top + n THEN "blank" ELSE screen[row - n]]

Write(row, line) ==
  /\ screen' = [screen EXCEPT ![row] = line]
  /\ UNCHANGED history

EraseHistory == history' = <<>> /\ UNCHANGED screen

Reset == history' = <<>> /\ screen' = Blanks(Height)

Next ==
  \/ \E row \in 1 .. Height, line \in {"blank", "prompt"} : Write(row, line)
  \/ \E top \in 0 .. Height - 1 : \E bottom \in top + 1 .. Height :
       \E n \in 1 .. bottom - top :
         Scroll(top, bottom, n) \/ ScrollReverse(top, bottom, n)
  \/ EraseHistory
  \/ Reset

Spec == Init /\ [][Next]_<<history, screen>>

=============================================================================
