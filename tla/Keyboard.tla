------------------------------ MODULE Keyboard ------------------------------
(***************************************************************************)
(* The keyboards of several seats and the terminals they focus (input.c,   *)
(* unicode-mode.c, and the focus of terminal.c and wayland.c): focus and   *)
(* what terminals are told of it, key repeat, and which of Unicode input,  *)
(* scrollback search, URL mode, the key bindings and the application gets  *)
(* a key.                                                                  *)
(*                                                                         *)
(* The compositor is a part of the environment: where it has the keyboard  *)
(* focus (at) and which keys it reported pressed there (held).  It sends a *)
(* leave before the next enter, no key to a seat without a focus, and, as  *)
(* far as seats lose their keyboards, a leave before that.  What a key     *)
(* means is left open: any key may be a binding, a digit, a label or text, *)
(* and may repeat or not.  The application asked for releases, too (kitty  *)
(* protocol); keys that compose, modifiers and encodings are left out.     *)
(***************************************************************************)
EXTENDS Participants, Naturals, FiniteSets

CONSTANT KeysOf  (* the keys of each seat's keyboard                        *)

ASSUME KeyboardAssumption ==
  /\ DOMAIN KeysOf = Seats
  /\ None \notin UNION {KeysOf[s] : s \in Seats}

VARIABLES
  at,       (* compositor: the terminal a seat's keyboard is in            *)
  held,     (* compositor: the keys it has reported pressed there          *)
  kbd,      (* seat->kbd_focus                                             *)
  focused,  (* term->kbd_focus, which the application is told              *)
  repeat,   (* the key of the armed repeat timer                           *)
  shortcut, (* seat->kbd.last_shortcut_sym                                 *)
  ui,       (* "normal", "search" or "urls"                                *)
  unicode,  (* unicode_mode.active                                         *)
  window    (* "open", "closing" (term_shutdown), "gone" (fdm_shutdown)    *)

vars == <<at, held, kbd, focused, repeat, shortcut, ui, unicode, window>>
compositor == <<at, held>>
focus == <<kbd, focused>>
modes == <<ui, unicode, window>>

Keys == UNION {KeysOf[s] : s \in Seats}

Init ==
  /\ at = [s \in Seats |-> None] /\ held = [s \in Seats |-> {}]
  /\ kbd = [s \in Seats |-> None] /\ focused = [t \in Terms |-> FALSE]
  /\ repeat = [s \in Seats |-> None] /\ shortcut = [s \in Seats |-> None]
  /\ ui = [t \in Terms |-> "normal"] /\ unicode = [t \in Terms |-> FALSE]
  /\ window = [t \in Terms |-> "open"]

-----------------------------------------------------------------------------
(* Focus.                                                                  *)

(* Keys that are down already are reported with the enter, and ignored.    *)
KeyboardEnter(s, t) ==
  /\ at[s] = None /\ kbd[s] = None /\ window[t] # "gone"
  /\ at' = [at EXCEPT ![s] = t]
  /\ \E keys \in SUBSET KeysOf[s] : held' = [held EXCEPT ![s] = keys]
  /\ kbd' = [kbd EXCEPT ![s] = t]
  /\ focused' = [focused EXCEPT ![t] = TRUE]
  /\ UNCHANGED <<repeat, shortcut, modes>>

(* term_kbd_focus_out(), called with the seat's own focus cleared: not     *)
(* while another seat focuses the terminal.  Faulty variant: regardless.   *)
OutAlways(seats, t) == \E s \in seats : kbd[s] = t
FocusOut(seats, t) == /\ \E s \in seats : kbd[s] = t
                      /\ \A s \in Seats \ seats : kbd[s] # t

(* keyboard_leave() stops any repeat.  Faulty variant: only that of a key  *)
(* that is not held.                                                       *)
StopsReleased(s) == IF repeat[s] \in held[s] THEN repeat[s] ELSE None
StopsAny(s) == None

Leaves(seats) ==
  /\ kbd' = [s \in Seats |-> IF s \in seats THEN None ELSE kbd[s]]
  /\ focused' = [t \in Terms |-> focused[t] /\ ~FocusOut(seats, t)]
  /\ repeat' = [s \in Seats |-> IF s \in seats THEN StopsAny(s) ELSE repeat[s]]
  /\ at' = [s \in Seats |-> IF s \in seats THEN None ELSE at[s]]
  /\ held' = [s \in Seats |-> IF s \in seats THEN {} ELSE held[s]]

(* Also sent for a seat by handle_global_remove() before it goes.          *)
KeyboardLeave(s) ==
  /\ at[s] # None
  /\ Leaves({s})
  /\ UNCHANGED <<shortcut, modes>>

-----------------------------------------------------------------------------
(* Keys.                                                                   *)

(* key_press_release() starts the repeat of any key but in Unicode mode;   *)
(* the keyboard map decides which keys repeat, and a rate of 0 disables.   *)
MayRepeat(s, key) == repeat' = [repeat EXCEPT ![s] = key] \/ UNCHANGED repeat

(* The key is a shortcut, or it is not: a press forgets the last one.      *)
Triggers(s, key) == shortcut' = [shortcut EXCEPT ![s] = key]

Plain(s, key) == shortcut' = [shortcut EXCEPT ![s] = None]

(* unicode_mode_input(): digits are collected, others end the mode.        *)
UnicodeKey(s, t, key) ==
  \/ Plain(s, key) /\ UNCHANGED unicode
  \/ Triggers(s, key) /\ unicode' = [unicode EXCEPT ![t] = FALSE]

(* search_input(): text, or a binding; cancel and commit end the search.   *)
SearchKey(s, t, key) ==
  \/ Plain(s, key) /\ UNCHANGED <<ui, unicode>>
  \/ /\ Triggers(s, key)
     /\ \/ UNCHANGED <<ui, unicode>>
        \/ ui' = [ui EXCEPT ![t] = "normal"] /\ UNCHANGED unicode
        \/ unicode' = [unicode EXCEPT ![t] = TRUE] /\ UNCHANGED ui

(* urls_input(): a part of a label, a whole one, or a binding.             *)
UrlKey(s, t, key) ==
  /\ Plain(s, key) \/ Triggers(s, key)
  /\ UNCHANGED ui \/ ui' = [ui EXCEPT ![t] = "normal"]

(* The effects of execute_binding() on the modes.                          *)
Binding(t) ==
  \/ UNCHANGED modes
  \/ ui' = [ui EXCEPT ![t] = "search"] /\ UNCHANGED <<unicode, window>>
  \/ ui' = [ui EXCEPT ![t] = "urls"] /\ UNCHANGED <<unicode, window>>
  \/ unicode' = [unicode EXCEPT ![t] = TRUE] /\ UNCHANGED <<ui, window>>
  \/ /\ window' = [window EXCEPT ![t] = IF @ = "open" THEN "closing" ELSE @]
     /\ UNCHANGED <<ui, unicode>>

(* What a pressed or repeated key does.                                    *)
Pressed(s, t, key) ==
  \/ unicode[t] /\ UnicodeKey(s, t, key) /\ UNCHANGED <<ui, window>>
  \/ /\ ~unicode[t]
     /\ \/ ui[t] = "search" /\ SearchKey(s, t, key) /\ UNCHANGED window
        \/ ui[t] = "urls" /\ UrlKey(s, t, key) /\ UNCHANGED <<unicode, window>>
        \/ ui[t] = "normal" /\ Triggers(s, key) /\ Binding(t)
        \/ ui[t] = "normal" /\ Plain(s, key) /\ UNCHANGED modes

Press(s, key) ==
  /\ at[s] # None /\ kbd[s] # None /\ key \notin held[s]
  /\ held' = [held EXCEPT ![s] = @ \cup {key}]
  /\ Pressed(s, kbd[s], key)
  /\ IF unicode[kbd[s]] THEN UNCHANGED repeat ELSE MayRepeat(s, key)
  /\ UNCHANGED <<at, focus>>

(* input_repeat() asserts the focus.                                       *)
Repeat(s) ==
  /\ repeat[s] # None /\ kbd[s] # None
  /\ Pressed(s, kbd[s], repeat[s])
  /\ UNCHANGED <<compositor, focus, repeat>>

(* stop_repeater().  Faulty variant: it is left running.                     *)
StopNot(s, key) == repeat[s]
StopRepeater(s, key) == IF repeat[s] = key THEN None ELSE repeat[s]

Release(s, key) ==
  /\ at[s] # None /\ kbd[s] # None /\ key \in held[s]
  /\ held' = [held EXCEPT ![s] = @ \ {key}]
  /\ repeat' = [repeat EXCEPT ![s] = StopRepeater(s, key)]
  /\ UNCHANGED <<at, focus, shortcut, modes>>

(* A click into the grid ends search and URL mode, and may be a binding.   *)
Click(t) ==
  /\ window[t] # "gone"
  /\ \/ ui' = [ui EXCEPT ![t] = "normal"] /\ UNCHANGED <<unicode, window>>
     \/ ui[t] = "normal" /\ Binding(t)
  /\ UNCHANGED <<compositor, focus, repeat, shortcut>>

-----------------------------------------------------------------------------
(* fdm_shutdown(): destroying the window makes the compositor send leaves; *)
(* under a screen lock they come later, and the focus is just cleared.     *)
Shutdown(t) ==
  /\ window[t] = "closing"
  /\ window' = [window EXCEPT ![t] = "gone"]
  /\ \E left \in {{s \in Seats : at[s] = t}, {}} :
       /\ kbd' = [s \in Seats |-> IF kbd[s] = t THEN None ELSE kbd[s]]
       /\ focused' = [u \in Terms |-> IF u = t /\ left # {} THEN FALSE ELSE focused[u]]
       /\ repeat' = [s \in Seats |-> IF s \in left THEN StopsAny(s) ELSE repeat[s]]
       /\ at' = [s \in Seats |-> IF s \in left THEN None ELSE at[s]]
       /\ held' = [s \in Seats |-> IF s \in left THEN {} ELSE held[s]]
  /\ UNCHANGED <<shortcut, ui, unicode>>

Next ==
  \/ \E s \in Seats :
       \/ \E t \in Terms : KeyboardEnter(s, t)
       \/ KeyboardLeave(s)
       \/ \E key \in KeysOf[s] : Press(s, key) \/ Release(s, key)
       \/ Repeat(s)
  \/ \E t \in Terms : Click(t) \/ Shutdown(t)

Spec == Init /\ [][Next]_vars

-----------------------------------------------------------------------------
(* The repeat timer runs for a key that is held down, in a terminal with   *)
(* the seat's focus: what input_repeat() asserts, and that no key repeats  *)
(* for ever.  Except between the destruction of a window and a leave that  *)
(* the compositor held back: the timer may expire without a focus then.    *)
LeaveDue(s) == at[s] # None /\ kbd[s] = None
RepeatJustified ==
  \A s \in Seats :
    repeat[s] # None => LeaveDue(s) \/ (kbd[s] # None /\ repeat[s] \in held[s])

(* A terminal, and through it the application, believes to have the focus  *)
(* as long as any seat focuses it, and no longer.                          *)
FocusTold ==
  \A t \in Terms : window[t] # "gone" => (focused[t] <=> \E s \in Seats : kbd[s] = t)

KeyboardConsistent == RepeatJustified /\ FocusTold

=============================================================================
