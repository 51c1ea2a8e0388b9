------------------------------- MODULE MCSeats ------------------------------
(***************************************************************************)
(* What the terminals share with the seats, for TLC: keyboards (Keyboard), *)
(* the clipboard's sources and offers (Clipboard, Offers), resizing        *)
(* (Resize), input methods (Ime), pointer and touch screen (Pointer), the  *)
(* sets of key bindings (KeyBindings) and the lists in them (BindingLists).*)
(* Each is a state machine of its own: a behaviour runs one of them        *)
(* (machine), and the variables of the others stay as they are.  Input     *)
(* methods run with two seats on one terminal, and with one seat on two.   *)
(***************************************************************************)
EXTENDS Keyboard, Clipboard, Offers, Resize, Ime, Pointer, KeyBindings, BindingLists

VARIABLE machine   (* the one that runs *)

(* Of two seats only one has keys, so that the other's focus is what may   *)
(* be confused with the first one's.                                       *)
OneKeyboard == [s \in {"s1", "s2"} |-> IF s = "s1" THEN {"a", "b"} ELSE {}]

-----------------------------------------------------------------------------
MCInit ==
  /\ Init /\ ClipboardInit /\ OffersInit /\ ResizeInit /\ ImeInit /\ PointerInit
  /\ KeysInit /\ ListsInit
  /\ machine \in {"keyboards", "sources", "offers", "resize", "ime of seats",
                  "ime of terms", "pointer", "bindings", "lists"}
  /\ machine # "resize" => term.cell = 1
  /\ machine # "lists" => type = "key" /\ lists.server[1].combo.mods = {}

Run(name) == machine = name /\ UNCHANGED machine

KeyboardsStep ==
  /\ Run("keyboards") /\ Next
  /\ UNCHANGED <<listVars, keyVars, clipboardVars, offersVars, resizeVars, imeVars, pointerVars>>
SourcesStep ==
  /\ Run("sources") /\ ClipboardNext
  /\ UNCHANGED <<listVars, keyVars, vars, offersVars, resizeVars, imeVars, pointerVars>>
OfferedStep ==
  /\ Run("offers") /\ OffersNext
  /\ UNCHANGED <<listVars, keyVars, vars, clipboardVars, resizeVars, imeVars, pointerVars>>
ResizesStep ==
  /\ Run("resize") /\ ResizeNext
  /\ UNCHANGED <<listVars, keyVars, vars, clipboardVars, offersVars, imeVars, pointerVars>>
PointersStep ==
  /\ Run("pointer") /\ PointerNext
  /\ UNCHANGED <<listVars, keyVars, vars, clipboardVars, offersVars, resizeVars, imeVars>>
(* Nobody comes to the second terminal, or to the second keyboard.         *)
ImeOfSeatsStep ==
  /\ Run("ime of seats") /\ ImeNext
  /\ "t2" \notin {kbdOf'[s] : s \in Seats}
  /\ on'["t2"] /\ uiOf'["t2"] = "normal" /\ windowOf'["t2"] = "open"
  /\ UNCHANGED <<listVars, keyVars, vars, clipboardVars, offersVars, resizeVars, pointerVars>>
ImeOfTermsStep ==
  /\ Run("ime of terms") /\ ImeNext
  /\ kbdOf'["s2"] = None
  /\ UNCHANGED <<listVars, keyVars, vars, clipboardVars, offersVars, resizeVars, pointerVars>>
BindingsStep ==
  /\ Run("bindings") /\ KeysNext
  /\ UNCHANGED <<listVars, vars, clipboardVars, offersVars, resizeVars, imeVars, pointerVars>>
ListsStep ==
  /\ Run("lists") /\ ListsNext
  /\ UNCHANGED <<keyVars, vars, clipboardVars, offersVars, resizeVars, imeVars, pointerVars>>

MCNext ==
  \/ KeyboardsStep
  \/ SourcesStep
  \/ OfferedStep
  \/ ResizesStep
  \/ PointersStep
  \/ ImeOfSeatsStep
  \/ ImeOfTermsStep
  \/ BindingsStep
  \/ ListsStep

MCSpec ==
  /\ MCInit
  /\ [][MCNext]_<<machine, listVars, keyVars, vars, clipboardVars, offersVars, resizeVars, imeVars,
                  pointerVars>>

=============================================================================
