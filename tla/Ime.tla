-------------------------------- MODULE Ime ---------------------------------
(***************************************************************************)
(* Input methods (ime.c, term_ime_*() of terminal.c, and their callers in  *)
(* csi.c, search.c and url-mode.c): which seats have their input method    *)
(* enabled, and where the text composed with it goes.                      *)
(*                                                                         *)
(* The compositor answers with a delay: text it sends was composed for     *)
(* the state it has seen, and its done event names the last commit it has  *)
(* seen.  A target names what the user composes for: a terminal, and       *)
(* whether its search box was open.  The cursor rectangle is left out.     *)
(***************************************************************************)
EXTENDS Participants, Naturals

VARIABLES
  kbdOf,     (* seat->kbd_focus                                             *)
  ime,       (* seat->ime_focus                                             *)
  on,        (* term->ime_enabled                                           *)
  reenable,  (* term->ime_reenable_after_url_mode                           *)
  uiOf,      (* "normal", "search" or "urls"                                *)
  windowOf,  (* "open", "gone" (fdm_shutdown())                             *)
  committed, (* the target of the last enable committed; None: disabled     *)
  seen,      (* the last commit the compositor has seen                     *)
  unseen,    (* there are commits that it has not seen: other serials       *)
  pending,   (* pending.commit and pending.preedit: the target of each      *)
  preedit,   (* the target of the pre-edit text shown                       *)
  late,      (* a done was ignored and left pending text (a history)        *)
  asked      (* the application's last request (a history)                  *)

terminals == <<on, reenable, uiOf, windowOf, asked>>
protocol == <<committed, seen, unseen>>
text == <<pending, preedit, late>>
imeVars == <<kbdOf, ime, terminals, protocol, text>>

Targets == [term : Terms, search : BOOLEAN] \cup {None}
Target(s) == [term |-> ime[s], search |-> uiOf[ime[s]] = "search"]
NoText == [commit |-> None, preedit |-> None]

ImeInit ==
  /\ kbdOf = [s \in Seats |-> None] /\ ime = [s \in Seats |-> None]
  /\ on = [t \in Terms |-> TRUE] /\ reenable = [t \in Terms |-> FALSE]
  /\ uiOf = [t \in Terms |-> "normal"] /\ windowOf = [t \in Terms |-> "open"]
  /\ asked = [t \in Terms |-> TRUE]
  /\ committed = [s \in Seats |-> None] /\ seen = [s \in Seats |-> None]
  /\ unseen = [s \in Seats |-> FALSE]
  /\ pending = [s \in Seats |-> NoText] /\ preedit = [s \in Seats |-> None]
  /\ late = [s \in Seats |-> FALSE]

-----------------------------------------------------------------------------
(* ime_enable() and ime_disable() drop the text composed so far and commit *)
(* the new state; `to` maps the seats they reach to that state.  Faulty    *)
(* variant: the text shown survives.                                       *)
KeepsPreedit(to, s) == preedit[s]
DropsPreedit(to, s) == IF s \in DOMAIN to THEN None ELSE preedit[s]

Commits(to) ==
  /\ committed' = [s \in Seats |-> IF s \in DOMAIN to THEN to[s] ELSE committed[s]]
  /\ unseen' = [s \in Seats |-> s \in DOMAIN to \/ unseen[s]]
  /\ pending' = [s \in Seats |-> IF s \in DOMAIN to THEN NoText ELSE pending[s]]
  /\ preedit' = [s \in Seats |-> DropsPreedit(to, s)]
  /\ late' = [s \in Seats |-> s \notin DOMAIN to /\ late[s]]
  /\ UNCHANGED seen

(* term_ime_enable() and term_ime_disable() reach the seats that focus the *)
(* terminal with their keyboards, and have an input method focus: which is *)
(* on the same terminal.                                                   *)
Reached(t) == {s \in Seats : kbdOf[s] = t /\ ime[s] # None}

Enabled(t, search) ==
  Commits([s \in Reached(t) |-> [term |-> ime[s], search |-> search]])
Disabled(t) == Commits([s \in Reached(t) |-> None])

-----------------------------------------------------------------------------
(* Focus.  The text input of a seat follows its keyboard: it enters after  *)
(* the keyboard has, and has left before that enters again.                *)

KbdEnter(s, t) ==
  /\ kbdOf[s] = None /\ ime[s] = None /\ windowOf[t] = "open"
  /\ kbdOf' = [kbdOf EXCEPT ![s] = t]
  /\ UNCHANGED <<ime, terminals, protocol, text>>

(* The terminal's term_ime_reset() finds no seat: the focus is cleared by  *)
(* then, so the text shown stays until the input method leaves.            *)
KbdLeave(s) ==
  /\ kbdOf[s] # None
  /\ kbdOf' = [kbdOf EXCEPT ![s] = None]
  /\ UNCHANGED <<ime, terminals, protocol, text>>

ImeEnter(s) ==
  /\ kbdOf[s] # None /\ ime[s] = None
  /\ ime' = [ime EXCEPT ![s] = kbdOf[s]]
  /\ IF on[kbdOf[s]]
     THEN Commits([x \in {s} |-> [term |-> kbdOf[s], search |-> uiOf[kbdOf[s]] = "search"]])
     ELSE UNCHANGED <<protocol, text>>
  /\ UNCHANGED <<kbdOf, terminals>>

ImeLeave(s) ==
  /\ ime[s] # None
  /\ Commits([x \in {s} |-> None])
  /\ ime' = [ime EXCEPT ![s] = None]
  /\ UNCHANGED <<kbdOf, terminals>>

-----------------------------------------------------------------------------
(* The compositor.                                                         *)

(* It gets to the end of the commits sent.                                 *)
CatchUp(s) ==
  /\ unseen[s]
  /\ unseen' = [unseen EXCEPT ![s] = FALSE]
  /\ seen' = [seen EXCEPT ![s] = committed[s]]
  /\ UNCHANGED <<kbdOf, ime, terminals, committed, text>>

(* commit_string() or preedit_string() events, or both, with their done(), *)
(* sent as one group.  A done with another serial is ignored, but not the  *)
(* text, which stays pending.                                              *)
Applies(s) == ~unseen[s]

(* Text that is absent from the events is not reset, either.               *)
Composed(s, parts) ==
  [commit  |-> IF "commit" \in parts THEN seen[s] ELSE pending[s].commit,
   preedit |-> IF "preedit" \in parts THEN seen[s] ELSE pending[s].preedit]

Text(s, parts) ==
  /\ ime[s] # None /\ seen[s] # None
  /\ IF Applies(s)
     THEN /\ pending' = [pending EXCEPT ![s] = NoText]
          /\ preedit' = [preedit EXCEPT ![s] = Composed(s, parts).preedit]
          /\ late' = [late EXCEPT ![s] = /\ late[s]
                                        /\ pending[s].preedit # None
                                        /\ "preedit" \notin parts]
     ELSE /\ pending' = [pending EXCEPT ![s] = Composed(s, parts)]
          /\ late' = [late EXCEPT ![s] = TRUE]
          /\ UNCHANGED preedit
  /\ UNCHANGED <<kbdOf, ime, terminals, protocol>>

-----------------------------------------------------------------------------
(* The terminal.                                                           *)

(* The application sets or resets DEC private mode 737769, or resets the   *)
(* terminal (set).  Faulty variant: a reset in URL mode is forgotten when  *)
(* the mode ends.                                                          *)
Remembers(t, set) == reenable[t]
Forgets(t, set) == reenable[t] /\ set

ModeSet(t, set) ==
  /\ windowOf[t] = "open"
  /\ on' = [on EXCEPT ![t] = set]
  /\ asked' = [asked EXCEPT ![t] = set]
  /\ reenable' = [reenable EXCEPT ![t] = Forgets(t, set)]
  /\ CASE on[t] = set -> UNCHANGED <<protocol, text>>
       [] set /\ ~on[t] -> Enabled(t, uiOf[t] = "search")
       [] ~set /\ on[t] -> Disabled(t)
  /\ UNCHANGED <<kbdOf, ime, uiOf, windowOf>>

(* search_begin() and search_cancel_keep_selection(), which every end of a *)
(* search goes through: both toggle an enabled input method.  Faulty       *)
(* variant: the end of a search does not.                                  *)
TogglesAtBegin(t, search) == on[t] /\ search
TogglesAlways(t, search) == on[t]

SearchSet(t, search) ==
  /\ windowOf[t] = "open" /\ uiOf[t] = (IF search THEN "normal" ELSE "search")
  /\ uiOf' = [uiOf EXCEPT ![t] = IF search THEN "search" ELSE "normal"]
  /\ IF TogglesAlways(t, search) THEN Enabled(t, search) ELSE UNCHANGED <<protocol, text>>
  /\ UNCHANGED <<kbdOf, ime, on, reenable, windowOf, asked>>

(* urls_render() disables an enabled input method.                         *)
UrlsRender(t) ==
  /\ windowOf[t] = "open" /\ uiOf[t] = "normal"
  /\ uiOf' = [uiOf EXCEPT ![t] = "urls"]
  /\ IF on[t]
     THEN /\ reenable' = [reenable EXCEPT ![t] = TRUE]
          /\ on' = [on EXCEPT ![t] = FALSE]
          /\ Disabled(t)
     ELSE UNCHANGED <<on, reenable, protocol, text>>
  /\ UNCHANGED <<kbdOf, ime, windowOf, asked>>

(* urls_reset() enables it again, unless the application did.              *)
UrlsReset(t) ==
  /\ windowOf[t] = "open" /\ uiOf[t] = "urls"
  /\ uiOf' = [uiOf EXCEPT ![t] = "normal"]
  /\ reenable' = [reenable EXCEPT ![t] = FALSE]
  /\ on' = [on EXCEPT ![t] = on[t] \/ reenable[t]]
  /\ IF reenable[t] /\ ~on[t] THEN Enabled(t, FALSE) ELSE UNCHANGED <<protocol, text>>
  /\ UNCHANGED <<kbdOf, ime, windowOf, asked>>

(* fdm_shutdown() clears the keyboard focus that is left; the input method *)
(* leaves then or, under a screen lock, later.                             *)
ImeShutdown(t) ==
  /\ windowOf[t] = "open"
  /\ windowOf' = [windowOf EXCEPT ![t] = "gone"]
  /\ kbdOf' = [s \in Seats |-> IF kbdOf[s] = t THEN None ELSE kbdOf[s]]
  /\ \E left \in {{s \in Seats : ime[s] = t}, {}} :
       /\ Commits([s \in left |-> None])
       /\ ime' = [s \in Seats |-> IF s \in left THEN None ELSE ime[s]]
  /\ UNCHANGED <<on, reenable, uiOf, asked>>

ImeNext ==
  \/ \E s \in Seats :
       \/ \E t \in Terms : KbdEnter(s, t)
       \/ KbdLeave(s) \/ ImeEnter(s) \/ ImeLeave(s) \/ CatchUp(s)
       \/ \E parts \in {{"commit"}, {"preedit"}, {"commit", "preedit"}} : Text(s, parts)
  \/ \E t \in Terms :
       \/ \E set \in BOOLEAN : ModeSet(t, set) \/ SearchSet(t, set)
       \/ UrlsRender(t) \/ UrlsReset(t) \/ ImeShutdown(t)

ImeSpec == ImeInit /\ [][ImeNext]_imeVars

-----------------------------------------------------------------------------
ImeTypes ==
  /\ kbdOf \in [Seats -> Terms \cup {None}] /\ ime \in [Seats -> Terms \cup {None}]
  /\ on \in [Terms -> BOOLEAN] /\ reenable \in [Terms -> BOOLEAN]
  /\ asked \in [Terms -> BOOLEAN]
  /\ uiOf \in [Terms -> {"normal", "search", "urls"}]
  /\ windowOf \in [Terms -> {"open", "gone"}]
  /\ committed \in [Seats -> Targets] /\ seen \in [Seats -> Targets]
  /\ unseen \in [Seats -> BOOLEAN] /\ late \in [Seats -> BOOLEAN]
  /\ pending \in [Seats -> [commit : Targets, preedit : Targets]]
  /\ preedit \in [Seats -> Targets]

Focusing(s) == ime[s] # None /\ kbdOf[s] = ime[s]

(* The input method of a seat that focuses a terminal is enabled for what  *)
(* its text would go to, exactly if that terminal's is: however focus,     *)
(* search, URL mode and the application's requests interleave, and however *)
(* many seats focus the terminal.                                          *)
ImeInSync ==
  \A s \in Seats : Focusing(s) =>
    committed[s] = IF on[ime[s]] THEN Target(s) ELSE None

(* A terminal's input method is what the application last asked for, also  *)
(* after URL mode, which disables it for its own time.                     *)
AsAsked ==
  \A t \in Terms :
    /\ asked[t] <=> on[t] \/ reenable[t]
    /\ reenable[t] => uiOf[t] = "urls"

(* Pre-edit text is shown, and pending text kept, only for the target it   *)
(* was composed for: what was composed for the search box never turns up   *)
(* in the terminal, nor in another one.  The code has an exception: a done *)
(* event with an old serial is ignored, its text stays pending and is used *)
(* by the next done that brings none of its kind.                          *)
TextReachesTarget ==
  \A s \in Seats : Focusing(s) /\ ~late[s] =>
    {preedit[s], pending[s].commit, pending[s].preedit} \subseteq {None, Target(s)}

(* All of it, in whatever order focus, search, URL mode, the application   *)
(* and the input method act (ime.c:157, url-mode.c:827, csi.c:588).        *)
ImeKept == ImeInSync /\ AsAsked /\ TextReachesTarget
=============================================================================
