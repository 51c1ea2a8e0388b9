------------------------------- MODULE MCGrid -------------------------------
(***************************************************************************)
(* What is on the screen and what it is used for, for TLC: the cursor      *)
(* (Cursor), the links of a row (RowRanges), the decoder of sixels         *)
(* (SixelDecoder), text received from the clipboard (Receive) and          *)
(* notifications (Notify); reflow, the images that are emitted, and        *)
(* search.  Each is a state machine of its own; a behaviour runs one of    *)
(* them (machine).  The variables of the first five stay as they are       *)
(* initially while they do not run; the others share the variables x1 to   *)
(* x6, from the first on.                                                  *)
(***************************************************************************)
EXTENDS Cursor, RowRanges, SixelDecoder, Receive, Notify

VARIABLES machine,  (* the one that runs *)
  x1, x2, x3, x4, x5, x6

(* Screens as narrow as a wide character, of three lines, so that a region *)
(* may leave out the first or the last, and of one.                        *)
ScreenSizes == {<<3, 2>>, <<1, 2>>}

(* The grids whose reflow is tried: a full line that goes on in two more   *)
(* rows of three cells, or an empty one and two rows after it; with cells  *)
(* left blank, wide characters, links, and the cursor anywhere.            *)
FirstRows == {[cells |-> <<11, 12, 13>>, linebreak |-> FALSE, links |-> {}],
              [cells |-> <<0, 0, 0>>, linebreak |-> TRUE, links |-> {}]}
SomeRows(r) ==
  LET a == 10 * r + 1  b == a + 1  c == a + 2
  IN [cells : {<<0, 0, 0>>, <<a, 0, 0>>, <<a, b, c>>, <<a, 0, c>>, <<0, b, 0>>,
               <<a, -1, c>>, <<a, b, -1>>},
      linebreak : BOOLEAN, links : {{}}]
SomeCursors ==
  [row : 0 .. 1, col : {1}, lcf : {FALSE}] \cup [row : 0 .. 1, col : {2}, lcf : {TRUE}]
SomeGrids ==
  LET rows == {<<x, y, [z EXCEPT !.linebreak = TRUE]>> :
                 x \in FirstRows,
                 y \in {row \in SomeRows(2) :
                          row.linebreak \/ row.cells[1] # 0 \/ row.cells[2] # 0},
                 z \in SomeRows(3)}
  IN [cols : {3}, cursor : SomeCursors,
      rows : rows \cup {[r EXCEPT ![2].links = {<<1, 2>>}] : r \in rows}]

(* The text that is searched: upper and lower case, a row per character.   *)
SomeTexts == {<< <<"A">>, <<"a">>, <<"a">> >>}

Reflows == INSTANCE Reflow WITH
  Grids <- SomeGrids, Widths <- {2, 3, 4}, Height <- 2, Capacity <- 4,
  grid <- x1, before <- x2, original <- x3, plain <- x4
Emitted == INSTANCE Images WITH
  N <- 3, AltN <- 2, R <- 2, C <- 2, MaxHeight <- 3, MaxEmits <- 2,
  grids <- x1, screen <- x2, bit <- x3, emits <- x4
Searches == INSTANCE Search WITH
  NumRows <- 3, Rows <- 2, Cols <- 1, Contents <- SomeTexts,
  Letters <- {"a"}, MaxLen <- 2, MaxOutput <- 1, MaxPastes <- 1,
  grid <- x1, search <- x2, last <- x3, sel <- x4, pastes <- x5, found <- x6

ASSUME Assumptions ==
  /\ Reflows!ReflowAssumption
  /\ Emitted!ImagesAssumption

-----------------------------------------------------------------------------
(* The slots that a machine of n variables leaves unused.                  *)
Unused4 == x5 = "unused" /\ x6 = "unused"
Unused0 == x1 = "unused" /\ x2 = "unused" /\ x3 = "unused" /\ x4 = "unused" /\ Unused4
Rest4 == <<x5, x6>>
slots == <<x1, x2, x3, x4, x5, x6>>

MCInit ==
  /\ Init /\ RangesInit /\ DecoderInit /\ ReceiveInit /\ NotifyInit
  /\ \/ machine \in {"cursor", "links", "sixel", "receive", "notify"} /\ Unused0
     \/ machine = "reflow" /\ Reflows!Init /\ Unused4
     \/ machine = "images" /\ Emitted!Init /\ Unused4
     \/ machine = "search" /\ Searches!SearchInit
  /\ machine # "cursor" => size = CHOOSE s \in Sizes : TRUE
  /\ machine # "sixel" => shape.pan = 1 /\ shape.transparent
  /\ machine # "receive" => mode.consumer = "paste" /\ mode.bracketed

Run(name) == machine = name /\ UNCHANGED machine
still == <<vars, rangesVars, decoderVars, receiveVars, notifyVars>>
RunSlots(name) == Run(name) /\ UNCHANGED still

CursorsStep ==
  Run("cursor") /\ Next /\ UNCHANGED <<slots, rangesVars, decoderVars, receiveVars, notifyVars>>
RangesStep ==
  Run("links") /\ RangesNext /\ UNCHANGED <<slots, vars, decoderVars, receiveVars, notifyVars>>
SixelsStep ==
  Run("sixel") /\ DecoderNext /\ UNCHANGED <<slots, vars, rangesVars, receiveVars, notifyVars>>
ReceivedStep ==
  Run("receive") /\ ReceiveNext /\ UNCHANGED <<slots, vars, rangesVars, decoderVars, notifyVars>>
NotifiedStep ==
  Run("notify") /\ NotifyNext /\ UNCHANGED <<slots, vars, rangesVars, decoderVars, receiveVars>>
ReflowsStep == RunSlots("reflow") /\ Reflows!Next /\ UNCHANGED Rest4
EmittedStep == RunSlots("images") /\ Emitted!Next /\ UNCHANGED Rest4
SearchesStep == RunSlots("search") /\ Searches!SearchNext

MCNext ==
  \/ CursorsStep
  \/ RangesStep
  \/ SixelsStep
  \/ ReceivedStep
  \/ ReflowsStep
  \/ EmittedStep
  \/ SearchesStep
  \/ NotifiedStep

MCSpec == MCInit /\ [][MCNext]_<<machine, slots, still>>

-----------------------------------------------------------------------------
(* Reflow keeps text, links and the cursor's place: Reflow.                *)
ReflowKeeps == machine = "reflow" => Reflows!ReflowKeeps

(* Images are sorted, apart, seen by the printer, and follow their rows:   *)
(* Images.                                                                 *)
ImagesKept == machine = "images" => Emitted!ImagesKept

(* A search selects a match, or there is none: Search.                     *)
SearchFinds == machine = "search" => Searches!SearchFinds
=============================================================================
