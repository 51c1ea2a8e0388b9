------------------------------ MODULE Pointer -------------------------------
(***************************************************************************)
(* The pointer and the touch screen of a seat (input.c): the surface that  *)
(* gets its events, the buttons held down, the emulation of the left       *)
(* button by touch, the selection a button drags, and the timer that       *)
(* starts moving a window by its title.                                    *)
(*                                                                         *)
(* The compositor is a part of the environment: the surface the pointer is *)
(* in (at), and the buttons it holds down (down).  It may take the pointer *)
(* away with a button held, and may keep the release of a button to itself *)
(* (both are reported in comments of the code).  A seat alone: the surface *)
(* under the pointer is a field of the terminal, which several seats share *)
(* and overwrite.  Scrolling, cursor shapes and coordinates are left out.  *)
(***************************************************************************)
EXTENDS Participants, Naturals, Sequences

CONSTANTS
  Buttons,
  Left      (* BTN_LEFT, which touch emulates                              *)

Surfaces == {"grid", "title", "close"}
Places == [term : Terms, surf : Surfaces]

ASSUME PointerAssumption == Left \in Buttons /\ None \notin Places

VARIABLES
  place,       (* compositor: the place of the pointer, or None             *)
  down,        (* compositor: the buttons pressed                           *)
  mouseFocus,  (* seat->mouse_focus                                         *)
  surface,     (* term->active_surface                                      *)
  buttons,     (* seat->mouse.buttons; `by` is a history: "pointer", "touch",*)
               (* or "lost", if no event of the device can release it       *)
  touch,       (* seat->touch.state                                         *)
  target,      (* seat->touch.surface                                       *)
  selecting,   (* term->selection.ongoing: "no", "yes", or "lost" (history) *)
  moveTimer,   (* win->csd.move_timeout_fd: "none", "armed", "orphan" (armed,*)
               (* but the pointer has left), or "stale": a descriptor closed*)
  termWindow   (* "open", "gone" (fdm_shutdown())                           *)

pointerVars ==
  <<place, down, mouseFocus, surface, buttons, touch, target, selecting, moveTimer, termWindow>>

TouchIsActive == touch \in {"held", "dragging", "scrolling"}

PointerInit ==
  /\ place = None /\ down = {} /\ mouseFocus = None /\ buttons = <<>>
  /\ surface = [t \in Terms |-> "none"]
  /\ touch = "idle" /\ target = None
  /\ selecting = [t \in Terms |-> "no"] /\ moveTimer = [t \in Terms |-> "none"]
  /\ termWindow = [t \in Terms |-> "open"]

-----------------------------------------------------------------------------
(* wl_pointer_enter() takes the focus also during a touch.  Faulty variant:*)
(* an active touch keeps it from that.                                     *)
EntersWithoutTouch(p) == IF TouchIsActive THEN mouseFocus ELSE p.term
Enters(p) == p.term

PointerEnter(p) ==
  /\ place = None /\ termWindow[p.term] = "open"
  /\ place' = p
  /\ mouseFocus' = Enters(p)
  /\ surface' = [surface EXCEPT ![p.term] = p.surf]
  /\ UNCHANGED <<down, buttons, touch, target, selecting, moveTimer, termWindow>>

(* wl_pointer_leave(): an active touch ignores it.  The timer is left      *)
(* running.                                                                *)
Orphaned ==
  [t \in Terms |-> IF t = mouseFocus /\ moveTimer[t] = "armed" THEN "orphan" ELSE moveTimer[t]]

LeavesFocus ==
  /\ touch' = IF touch = "inhibited" THEN "idle" ELSE touch
  /\ buttons' = <<>>
  /\ mouseFocus' = None
  /\ moveTimer' = Orphaned
  /\ surface' = [t \in Terms |-> IF t = mouseFocus THEN "none" ELSE surface[t]]
  /\ selecting' = [t \in Terms |->
       IF t = mouseFocus /\ surface[t] = "grid" THEN "no" ELSE selecting[t]]

PointerLeave ==
  /\ place # None
  /\ place' = None
  /\ IF TouchIsActive
     THEN UNCHANGED <<mouseFocus, surface, buttons, touch, selecting, moveTimer>>
     ELSE LeavesFocus
  /\ UNCHANGED <<down, target, termWindow>>

-----------------------------------------------------------------------------
(* wl_pointer_button(), of the pointer and of the emulated one.            *)

Tracked(b) == \E i \in DOMAIN buttons : buttons[i].button = b
PlaceOf(b) ==
  CHOOSE i \in DOMAIN buttons :
    /\ buttons[i].button = b
    /\ \A j \in 1 .. i - 1 : buttons[j].button # b
Tracker(b) == buttons[PlaceOf(b)]
Without(b) ==
  IF Tracked(b)
  THEN SubSeq(buttons, 1, PlaceOf(b) - 1) \o SubSeq(buttons, PlaceOf(b) + 1, Len(buttons))
  ELSE buttons

(* A press starts tracking the button anew, also if the release of the     *)
(* last press never came.  Faulty variant: without a check for that.       *)
TrackedTwice(b, surf, by) == Append(buttons, [button |-> b, surf |-> surf, by |-> by])
Track(b, surf, by) == Append(Without(b), [button |-> b, surf |-> surf, by |-> by])

(* A binding may start a selection, in a grid; a press of the left button  *)
(* in the title starts the timer, but not the second one of a double click.*)
PressEffects(b, p) ==
  /\ selecting' \in IF p.surf = "grid"
                    THEN {selecting, [selecting EXCEPT ![p.term] = "yes"]}
                    ELSE {selecting}
  /\ moveTimer' \in IF p.surf = "title" /\ b = Left /\ moveTimer[p.term] = "none"
                    THEN {moveTimer, [moveTimer EXCEPT ![p.term] = "armed"]}
                    ELSE {moveTimer}

(* The surface of the press gets the release: in a grid, it ends the       *)
(* selection; in a title, the timer.  Faulty variant: the timer is left to *)
(* expire.                                                                 *)
EndsSelection(surf, t) == IF surf = "grid" THEN [selecting EXCEPT ![t] = "no"] ELSE selecting
KeepsTimer(surf, t) == moveTimer
EndsTimer(surf, t) == IF surf = "title" THEN [moveTimer EXCEPT ![t] = "none"] ELSE moveTimer

ButtonPress(b) ==
  /\ place # None /\ b \notin down /\ termWindow[place.term] = "open"
  /\ down' = down \cup {b}
  /\ IF TouchIsActive
     THEN UNCHANGED <<buttons, touch, selecting, moveTimer>>
     ELSE /\ touch' = "inhibited"
          /\ buttons' = Track(b, surface[mouseFocus], "pointer")
          /\ PressEffects(b, [term |-> mouseFocus, surf |-> surface[mouseFocus]])
  /\ UNCHANGED <<place, mouseFocus, surface, target, termWindow>>

(* Touch is inhibited until no button is left.  Faulty variant: until any  *)
(* button is released.                                                     *)
IdleAfterAny(left) == IF touch = "inhibited" THEN "idle" ELSE touch
IdleAfterLast(left) == IF touch = "inhibited" /\ left = <<>> THEN "idle" ELSE touch

ButtonRelease(b) ==
  /\ place # None /\ b \in down /\ termWindow[place.term] = "open"
  /\ down' = down \ {b}
  /\ IF TouchIsActive
     THEN UNCHANGED <<buttons, touch, selecting, moveTimer>>
     ELSE /\ buttons' = Without(b)
          /\ touch' = IdleAfterLast(buttons')
          /\ IF Tracked(b)
             THEN /\ selecting' = EndsSelection(Tracker(b).surf, mouseFocus)
                  /\ moveTimer' = EndsTimer(Tracker(b).surf, mouseFocus)
             ELSE UNCHANGED <<selecting, moveTimer>>
  /\ UNCHANGED <<place, mouseFocus, surface, target, termWindow>>

Lost(by) == [i \in DOMAIN buttons |->
               IF buttons[i].by = by THEN [buttons[i] EXCEPT !.by = "lost"] ELSE buttons[i]]

(* A release that is not reported: the pointer was elsewhere, or is moving *)
(* the window.                                                             *)
Withhold ==
  /\ down # {}
  /\ down' = {}
  /\ buttons' = Lost("pointer")
  /\ selecting' = [t \in Terms |-> IF selecting[t] = "yes" /\ ~TouchIsActive
                                   THEN "lost" ELSE selecting[t]]
  /\ UNCHANGED <<place, mouseFocus, surface, touch, target, moveTimer, termWindow>>

(* wl_pointer_motion(): dragging the title moves the window at once.       *)
Motion ==
  /\ place # None /\ mouseFocus # None /\ ~TouchIsActive
  /\ buttons # <<>> /\ Head(buttons).surf = "title" /\ Head(buttons).button = Left
  /\ moveTimer[mouseFocus] # "none"
  /\ moveTimer' = [moveTimer EXCEPT ![mouseFocus] = "none"]
  /\ UNCHANGED <<place, down, mouseFocus, surface, buttons, touch, target, selecting, termWindow>>

(* fdm_csd_move(): the window with the focus moves, and forgets a timer.   *)
CsdMove(t) ==
  /\ moveTimer[t] \in {"armed", "orphan"}
  /\ moveTimer' = [u \in Terms |-> IF u = mouseFocus THEN "none"
                                   ELSE IF u = t THEN "stale" ELSE moveTimer[u]]
  /\ UNCHANGED <<place, down, mouseFocus, surface, buttons, touch, target, selecting, termWindow>>

-----------------------------------------------------------------------------
(* Touch.  The handlers set focus and surface to the touched ones for      *)
(* their own time.                                                         *)

TouchDown(p) ==
  /\ touch = "idle" /\ termWindow[p.term] = "open"
  /\ touch' = "held" /\ target' = p
  /\ UNCHANGED <<place, down, mouseFocus, surface, buttons, selecting, moveTimer, termWindow>>

(* Scrolls the grid, until a long press; then, and elsewhere, it presses   *)
(* the button and moves it: the timer of a title is over at once.          *)
TouchMotion ==
  /\ touch = "held" /\ termWindow[target.term] = "open"
  /\ \/ /\ target.surf = "grid"
        /\ touch' = "scrolling"
        /\ UNCHANGED <<buttons, selecting, moveTimer>>
     \/ /\ touch' = "dragging"
        /\ buttons' = Track(Left, target.surf, "touch")
        /\ \E started \in {TRUE, FALSE} :
             selecting' = IF started /\ target.surf = "grid"
                          THEN [selecting EXCEPT ![target.term] = "yes"] ELSE selecting
        /\ moveTimer' = EndsTimer(target.surf, target.term)
  /\ UNCHANGED <<place, down, mouseFocus, surface, target, termWindow>>

(* wl_touch_up() releases the button, pressing it first if need be.        *)
TouchUp ==
  /\ TouchIsActive /\ termWindow[target.term] = "open"
  /\ touch' = "idle" /\ target' = None
  /\ IF touch = "scrolling"
     THEN UNCHANGED <<buttons, selecting, moveTimer>>
     ELSE /\ buttons' = Without(Left)
          /\ selecting' = EndsSelection(target.surf, target.term)
          /\ moveTimer' = EndsTimer(target.surf, target.term)
  /\ UNCHANGED <<place, down, mouseFocus, surface, termWindow>>

(* wl_touch_cancel() does not release it.                                  *)
TouchCancel ==
  /\ TouchIsActive
  /\ touch' = "idle" /\ target' = None
  /\ buttons' = Lost("touch")
  /\ selecting' = IF selecting[target.term] = "yes"
                  THEN [selecting EXCEPT ![target.term] = "lost"] ELSE selecting
  /\ UNCHANGED <<place, down, mouseFocus, surface, moveTimer, termWindow>>

-----------------------------------------------------------------------------
(* fdm_shutdown(): the pointer leaves with the window or, under a screen   *)
(* lock, later; the focus is cleared then.                                 *)
PointerShutdown(t) ==
  /\ termWindow[t] = "open"
  /\ termWindow' = [termWindow EXCEPT ![t] = "gone"]
  /\ \/ /\ place # None /\ place.term = t /\ ~TouchIsActive
        /\ place' = None
        /\ touch' = IF touch = "inhibited" THEN "idle" ELSE touch
        /\ buttons' = <<>>
        /\ surface' = [surface EXCEPT ![t] = "none"]
     \/ UNCHANGED <<place, touch, buttons, surface>>
  /\ mouseFocus' = IF mouseFocus = t THEN None ELSE mouseFocus
  /\ selecting' = [selecting EXCEPT ![t] = "no"]
  /\ moveTimer' = [moveTimer EXCEPT ![t] = "none"]
  /\ UNCHANGED <<down, target>>

PointerNext ==
  \/ \E p \in Places : PointerEnter(p) \/ TouchDown(p)
  \/ PointerLeave \/ Motion \/ Withhold
  \/ \E b \in Buttons : ButtonPress(b) \/ ButtonRelease(b)
  \/ TouchMotion \/ TouchUp \/ TouchCancel
  \/ \E t \in Terms : CsdMove(t) \/ PointerShutdown(t)

PointerSpec == PointerInit /\ [][PointerNext]_pointerVars

-----------------------------------------------------------------------------
PointerTypes ==
  /\ place \in Places \cup {None} /\ target \in Places \cup {None}
  /\ down \subseteq Buttons /\ mouseFocus \in Terms \cup {None}
  /\ surface \in [Terms -> Surfaces \cup {"none"}]
  /\ \A i \in DOMAIN buttons :
       buttons[i] \in [button : Buttons, surf : Surfaces, by : {"pointer", "touch", "lost"}]
  /\ touch \in {"inhibited", "idle", "held", "dragging", "scrolling"}
  /\ selecting \in [Terms -> {"no", "yes", "lost"}]
  /\ moveTimer \in [Terms -> {"none", "armed", "orphan", "stale"}]
  /\ termWindow \in [Terms -> {"open", "gone"}]

(* Events go to the surface the pointer is in: whatever enter and leave    *)
(* events an active touch ignored, mouse_focus and active_surface are those*)
(* of that surface, so that wl_pointer_button() finds neither a null       *)
(* terminal nor an "Invalid surface type".                                 *)
FocusUnderPointer ==
  place # None /\ termWindow[place.term] = "open" =>
    mouseFocus = place.term /\ surface[mouseFocus] = place.surf

(* A button is tracked once, and only while its device holds it down: the  *)
(* emulated one while touch drags.  Touch is inhibited exactly while       *)
(* pointer buttons are.                                                    *)
ButtonsHeld ==
  /\ \A i, j \in DOMAIN buttons : buttons[i].button = buttons[j].button => i = j
  /\ \A i \in DOMAIN buttons :
       /\ buttons[i].by = "pointer" => touch = "inhibited" /\ buttons[i].button \in down
       /\ buttons[i].by = "touch" => touch = "dragging" /\ buttons[i].button = Left
  /\ touch = "inhibited" => buttons # <<>>

(* A selection is under way only while a button pressed in a grid is held, *)
(* and the timer that moves a window only with a button pressed in a title.*)
(* Exceptions of the code: a touch that is cancelled, a release that never *)
(* comes, a pointer that leaves before the timer expires.                  *)
DragsHeld ==
  \A t \in Terms :
    /\ selecting[t] = "yes" =>
         \E i \in DOMAIN buttons :
           /\ buttons[i].surf = "grid"
           /\ IF buttons[i].by = "touch" THEN target.term = t ELSE mouseFocus = t
    /\ moveTimer[t] = "armed" =>
         mouseFocus = t /\ \E i \in DOMAIN buttons : buttons[i].surf = "title"

(* All of it, in whatever order the pointer, the touch screen and the      *)
(* windows come and go (input.c:2477, 2598, 3297).                         *)
PointerKept == FocusUnderPointer /\ ButtonsHeld /\ DragsHeld
=============================================================================
