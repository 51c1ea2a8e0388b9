------------------------------- MODULE Resize -------------------------------
(***************************************************************************)
(* Configure events, changes of the cell's size (fonts, the scale of an    *)
(* output), and what render_resize()                                       *)
(* does with them (render.c, wayland.c).  Reflowing the text is slow, so   *)
(* while the user drags a window's edge the terminal shows a truncated     *)
(* copy of its grid: the real one is stashed, the application's output is  *)
(* not read, and a timer, restarted by every configure event, tells the    *)
(* application its new size and brings the stashed grid back.              *)
(*                                                                         *)
(* One dimension is modelled, the height: in pixels, and in rows of the    *)
(* font's cell; widths go the same way through the same code.  `interim'   *)
(* is what a resize ends: a synchronized update, the URL mode.  What a     *)
(* reflow does to the text is module Reflow's; here a grid is the number   *)
(* of its rows and whether it holds all of the text.                       *)
(***************************************************************************)
EXTENDS Integers

CONSTANTS
    NoStash,    \* no grid is stashed
    Heights,    \* heights in pixels that a compositor asks for; 0: our choice
    Cells,      \* heights of a cell
    Rows,       \* rows a selection is made in
    View,       \* the position of the view in the scrollback
    Delayed,    \* conf->resize_delay_ms > 0
    ByCells,    \* conf->resize_by_cells
    ConfRows,   \* the height of a new window, in rows
    MaxHeight   \* bound: larger cells do not make a window higher than this

VARIABLES
    win,        \* the applied state of the window
    delayTimer, \* win->resize_timeout_fd exists, and is armed
    term,
    app         \* what the application was told, and what it asked for

resizeVars == <<win, delayTimer, term, app>>

NoSelection == [row |-> -1, kind |-> "none"]

ASSUME ResizeAssumption ==
    /\ NoStash \notin [rows : Int, hide : BOOLEAN]
    /\ Heights \subseteq Nat /\ Cells \subseteq Nat \ {0}
    /\ Rows \subseteq Nat /\ View \in Nat /\ Delayed \in BOOLEAN /\ ByCells \in BOOLEAN
    /\ ConfRows \in Nat \ {0} /\ MaxHeight \in Nat

ResizeInit ==
    /\ win = [configured |-> FALSE, floating |-> TRUE, resizing |-> FALSE]
    /\ delayTimer = FALSE
    /\ \E cell \in Cells :
        term = [height |-> 0, stashed |-> 0, cell |-> cell, rows |-> 0,
                onAlt |-> FALSE, alt |-> 0, normal |-> [rows |-> 0, whole |-> TRUE],
                hide |-> FALSE, paused |-> FALSE, stash |-> NoStash,
                selection |-> NoSelection, saved |-> [row |-> 0, kind |-> "none"],
                interim |-> FALSE, shutdown |-> FALSE, aborted |-> FALSE]
    /\ app = [rows |-> 0, hide |-> FALSE]

-----------------------------------------------------------------------------
(* The height in pixels that a resize settles for. *)
Height(t, floating, height, opts) ==
    LET kept == IF floating /\ "keep grid" \in opts THEN t.rows * t.cell
                ELSE height
        chosen == CASE kept # 0      -> kept
                    [] t.stashed # 0 -> t.stashed
                    [] OTHER         -> ConfRows * t.cell
        least == IF chosen < t.cell THEN t.cell ELSE chosen
    IN  IF floating /\ ByCells /\ "by cells" \in opts
        THEN (least \div t.cell) * t.cell
        ELSE least

(* selection_cancel(): cells selected by no kind of selection are a BUG(). *)
SelectionCancelled(t) ==
    [t EXCEPT !.selection = NoSelection,
              !.aborted = t.selection.row >= 0 /\ t.selection.kind = "none"]

-----------------------------------------------------------------------------
Unstashed(t) ==
    [t EXCEPT !.normal = [rows |-> t.rows, whole |-> TRUE], !.hide = t.stash.hide,
              !.stash = NoStash]

(* Faulty variant: the terminal's application stays paused. *)
LeftPaused(t) == IF t.stash = NoStash THEN t ELSE Unstashed(t)

DelayedReflow(t) ==
    IF t.stash = NoStash THEN t ELSE [Unstashed(t) EXCEPT !.paused = FALSE]

(* The rows of the stashed grid that a drag shows; every configure event of  *)
(* the drag moves the selection by the view, whether it was moved or not.    *)
Shifted(selection) ==
    [selection EXCEPT !.row = IF selection.row < View THEN -1 ELSE selection.row - View]

StashShown(t) ==
    [t EXCEPT !.paused = TRUE, !.stash = [rows |-> t.rows, hide |-> t.hide],
              !.saved = IF t.onAlt THEN t.saved ELSE t.selection]

(* Faulty variant: every configure event of a drag stashes what is shown. *)
StashedAlways(t) == StashShown(t)

Stashed(t) == IF t.stash = NoStash THEN StashShown(t) ELSE t

Truncated(t, rows) ==
    LET s == Stashed(t)
    IN  [s EXCEPT !.normal = [rows |-> rows, whole |-> FALSE], !.hide = TRUE,
                  !.selection = Shifted(s.selection)]

(* The end of a drag, or a resize that is none: the whole grid, reflowed. *)
Whole(t, rows) ==
    LET r == [t EXCEPT !.normal = [rows |-> rows, whole |-> TRUE]]
    IN  IF t.stash = NoStash THEN r
        ELSE [r EXCEPT !.hide = t.stash.hide, !.selection = t.saved,
                       !.saved = NoSelection, !.stash = NoStash, !.paused = FALSE]

Drags == win'.resizing /\ Delayed

(* The grids, when the number of rows changes. *)
Regridded(t, rows) ==
    LET first  == IF Drags THEN Truncated(t, rows) ELSE t
        second == IF t.onAlt THEN SelectionCancelled(first) ELSE first
        third  == IF Drags THEN second ELSE Whole(second, rows)
    IN  [third EXCEPT !.alt = rows, !.rows = rows]

-----------------------------------------------------------------------------
Told(t) ==
    /\ delayTimer' = FALSE
    /\ term' = DelayedReflow(t)
    /\ app' = [app EXCEPT !.rows = t.rows]

ToBeTold(t) ==
    /\ Drags
    /\ delayTimer' = TRUE
    /\ term' = t
    /\ UNCHANGED app

(* Faulty variant: a timer that fails is not made up for. *)
SendDimensionsLater(t) ==
    \/ ToBeTold(t)
    \/ ~Drags /\ Told(t)
    \/ Drags /\ delayTimer' = FALSE /\ term' = t /\ UNCHANGED app

(* send_dimensions_to_client(); the timer may fail to be created or armed. *)
SendDimensions(t) == ToBeTold(t) \/ Told(t)

RenderResize(t, height, opts) ==
    LET pixels == Height(t, win'.floating, height, opts)
        rows   == pixels \div t.cell
        sized  == [t EXCEPT !.height = pixels, !.interim = FALSE,
                            !.stashed = IF win'.floating THEN pixels ELSE t.stashed]
    IN  IF \/ t.shutdown
           \/ ~win'.configured
           \/ pixels = t.height /\ "force" \notin opts
        THEN term' = t /\ UNCHANGED <<delayTimer, app>>
        ELSE SendDimensions(IF rows = t.rows THEN sized ELSE Regridded(sized, rows))

-----------------------------------------------------------------------------
Running == ~term.aborted

(* The end of a drag forces a resize, so that the last size is not delayed. *)
EndsDrag == IF win.resizing /\ ~win'.resizing THEN {"force"} ELSE {}

(* xdg_surface_configure(), with the size and the states that              *)
(* xdg_toplevel_configure() stored for it.                                 *)
SurfaceConfigure ==
    /\ Running
    /\ \E height \in Heights, floating, resizing \in BOOLEAN :
        /\ win' = [configured |-> TRUE, floating |-> floating, resizing |-> resizing]
        /\ RenderResize(term, height, {"by cells"} \cup EndsDrag)

(* Another font, another size of it, or an output of another scale. *)
CellChange ==
    /\ Running
    /\ \E cell \in Cells \ {term.cell}, opts \in {{"force"}, {"force", "keep grid"}} :
        /\ UNCHANGED win
        /\ Height([term EXCEPT !.cell = cell], win.floating, term.height, opts) <= MaxHeight
        /\ RenderResize([term EXCEPT !.cell = cell], term.height, opts)

(* fdm_tiocswinsz() *)
TimerFires ==
    /\ Running /\ delayTimer
    /\ delayTimer' = FALSE
    /\ term' = DelayedReflow(term)
    /\ app' = IF term.shutdown THEN app ELSE [app EXCEPT !.rows = term.rows]
    /\ UNCHANGED win

(* The application's output, which is read only while it is not paused.    *)
Output ==
    /\ Running /\ ~term.paused /\ win.configured /\ ~term.shutdown
    /\ \/ term' = [SelectionCancelled(term) EXCEPT !.onAlt = ~term.onAlt] /\ UNCHANGED app
       \/ /\ term' = [term EXCEPT !.hide = ~term.hide]
          /\ app' = [app EXCEPT !.hide = ~app.hide]
       \/ term' = [term EXCEPT !.interim = TRUE] /\ UNCHANGED app
    /\ UNCHANGED <<win, delayTimer>>

UserInput ==
    /\ Running /\ win.configured /\ ~term.shutdown
    /\ \/ \E row \in Rows :
            /\ ~SelectionCancelled(term).aborted
            /\ term' = [term EXCEPT !.selection = [row |-> row, kind |-> "char"]]
       \/ term' = SelectionCancelled(term)
       \/ term' = [term EXCEPT !.interim = ~term.interim]
    /\ UNCHANGED <<win, delayTimer, app>>

(* term_shutdown() closes the application's terminal. *)
TermShutdown ==
    /\ Running /\ ~term.shutdown
    /\ term' = [term EXCEPT !.shutdown = TRUE]
    /\ UNCHANGED <<win, delayTimer, app>>

ResizeNext ==
    \/ SurfaceConfigure \/ CellChange
    \/ TimerFires \/ Output \/ UserInput \/ TermShutdown

ResizeSpec == ResizeInit /\ [][ResizeNext]_resizeVars

-----------------------------------------------------------------------------
(* Output is held back exactly while a grid is stashed, and never without  *)
(* a timer that will bring it back: whatever mix of drags, scale changes,  *)
(* failing timers and ends of drags, the application is never left         *)
(* unread.  (term_ptmx_pause() and term_ptmx_resume() are two calls, in    *)
(* render_resize() and in the reflow; nothing but their order pairs them.) *)
PausedForStash ==
    /\ term.paused <=> term.stash # NoStash
    /\ term.stash # NoStash => delayTimer

(* With no drag going on the grids have the terminal's size and all of     *)
(* their text, and the cursor is hidden if the application hid it.         *)
WholeWithoutStash ==
    /\ term.alt = term.rows
    /\ term.normal.rows = term.rows
    /\ term.stash = NoStash => term.normal.whole /\ term.hide = app.hide

(* The application knows the terminal's size, or a timer will tell it. *)
ToldOrPending == delayTimer \/ term.shutdown \/ app.rows = term.rows

(* The three together: interactive resizes settle. *)
ResizeSettles == Running => PausedForStash /\ WholeWithoutStash /\ ToldOrPending

=============================================================================
