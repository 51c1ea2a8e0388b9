----------------------------- MODULE SeatsProofs -----------------------------
(***************************************************************************)
(* Proofs about what the terminals share with the seats: the keyboard focus*)
(* and the repeat timer (Keyboard), the sources of the selections that foot*)
(* owns (Clipboard) and the offers it is made (Offers), the size of a      *)
(* terminal under interactive resizes (Resize), what the input methods     *)
(* compose for (Ime), what the pointer and the touch screen drag (Pointer),*)
(* the sets of key bindings (KeyBindings) and the lists in them            *)
(* (BindingLists), for any number of seats, terminals, keys, windows,      *)
(* buttons, copies, keymaps and lines of a configuration.                  *)
(***************************************************************************)
EXTENDS Keyboard, Clipboard, Offers, Resize, Ime, Pointer, KeyBindings, BindingLists,
        NumberLemmas, FiniteSetTheorems, SequenceTheorems, TLAPS

-----------------------------------------------------------------------------
(***************************************************************************)
(* Keyboard.  KeyboardConsistent is not inductive alone: it needs that a   *)
(* seat's own focus, if it has one, is where the compositor put its        *)
(* keyboard (SeesSame); a window that is destroyed while the compositor    *)
(* holds its leave back would justify no repeat otherwise.                 *)
(***************************************************************************)

Repeatable == Keys \cup {None}

KeyboardTypes ==
  /\ at \in [Seats -> Terms \cup {None}]
  /\ held \in [Seats -> SUBSET Keys]
  /\ kbd \in [Seats -> Terms \cup {None}]
  /\ focused \in [Terms -> BOOLEAN]
  /\ repeat \in [Seats -> Repeatable]
  /\ window \in [Terms -> {"open", "closing", "gone"}]

SeesSame == \A s \in Seats : kbd[s] # None => at[s] = kbd[s]

(* The inductive invariant.                                                *)
KeyboardInv == KeyboardTypes /\ SeesSame /\ RepeatJustified /\ FocusTold

LEMMA KeysAreKeys ==
  ASSUME NEW s \in Seats
  PROVE  KeysOf[s] \subseteq Keys /\ None \notin Keys
BY KeyboardAssumption, ParticipantsAssumption DEF Keys

(* What a key does reaches no focus and no repeat; a window it may close   *)
(* is not destroyed by it.                                                 *)
WindowsStay == /\ window' \in [Terms -> {"open", "closing", "gone"}]
               /\ \A t \in Terms : window'[t] = "gone" <=> window[t] = "gone"

LEMMA BindingWindows ==
  ASSUME KeyboardTypes, NEW t \in Terms, Binding(t)
  PROVE  WindowsStay
<1>1. CASE UNCHANGED window
  BY <1>1 DEF WindowsStay, KeyboardTypes
<1>2. CASE window' = [window EXCEPT ![t] = IF @ = "open" THEN "closing" ELSE @]
  BY <1>2 DEF WindowsStay, KeyboardTypes
<1>. QED  BY <1>1, <1>2 DEF Binding, modes

LEMMA PressedWindows ==
  ASSUME KeyboardTypes, NEW s \in Seats, NEW t \in Terms, NEW key, Pressed(s, t, key)
  PROVE  WindowsStay
<1>1. CASE UNCHANGED window
  BY <1>1 DEF WindowsStay, KeyboardTypes
<1>2. CASE Binding(t)
  BY <1>2, BindingWindows
<1>3. UNCHANGED window \/ Binding(t)
  BY DEF Pressed, modes
<1>. QED  BY <1>1, <1>2, <1>3

(* Focus and repeat are not touched: the rest follows.                     *)
LEMMA FocusTouchedNot ==
  ASSUME KeyboardInv, WindowsStay, UNCHANGED <<at, kbd, focused>>
  PROVE  SeesSame' /\ FocusTold'
BY DEF KeyboardInv, SeesSame, FocusTold, WindowsStay

LEMMA EnterInv ==
  ASSUME KeyboardInv,
         NEW s \in Seats, NEW t \in Terms, KeyboardEnter(s, t)
  PROVE  KeyboardInv'
<1>. USE DEF KeyboardEnter
<1>1. repeat[s] = None
  BY DEF KeyboardInv, RepeatJustified, LeaveDue
<1>2. /\ at' \in [Seats -> Terms \cup {None}] /\ kbd' \in [Seats -> Terms \cup {None}]
      /\ held' \in [Seats -> SUBSET Keys] /\ focused' \in [Terms -> BOOLEAN]
      /\ repeat' = repeat /\ window' = window /\ t # None
      /\ \A u \in Seats : u # s => at'[u] = at[u] /\ kbd'[u] = kbd[u] /\ held'[u] = held[u]
      /\ at'[s] = t /\ kbd'[s] = t
      /\ \A u \in Terms : focused'[u] = IF u = t THEN TRUE ELSE focused[u]
  BY KeysAreKeys, KeyboardAssumption, ParticipantsAssumption DEF KeyboardInv, KeyboardTypes, modes
<1>3. KeyboardTypes' /\ SeesSame'
  BY <1>2 DEF KeyboardInv, KeyboardTypes, SeesSame
<1>4. RepeatJustified'
  BY <1>1, <1>2 DEF KeyboardInv, RepeatJustified, LeaveDue
<1>5. FocusTold'
  <2>. SUFFICES ASSUME NEW u \in Terms, window[u] # "gone"
       PROVE  focused'[u] <=> \E v \in Seats : kbd'[v] = u
    BY <1>2 DEF FocusTold
  <2>1. CASE u = t
    BY <1>2, <2>1
  <2>2. CASE u # t
    <3>1. \A v \in Seats : kbd'[v] = u <=> kbd[v] = u
      BY <1>2, <2>2, KeyboardAssumption, ParticipantsAssumption
    <3>2. focused'[u] = focused[u]
      BY <1>2, <2>2
    <3>. QED  BY <3>1, <3>2 DEF KeyboardInv, FocusTold
  <2>. QED  BY <2>1, <2>2
<1>. QED  BY <1>3, <1>4, <1>5 DEF KeyboardInv

LEMMA LeaveInv ==
  ASSUME KeyboardInv, NEW s \in Seats, KeyboardLeave(s)
  PROVE  KeyboardInv'
<1>1. /\ kbd' = [u \in Seats |-> IF u = s THEN None ELSE kbd[u]]
      /\ at' = [u \in Seats |-> IF u = s THEN None ELSE at[u]]
      /\ held' = [u \in Seats |-> IF u = s THEN {} ELSE held[u]]
      /\ repeat' = [u \in Seats |-> IF u = s THEN None ELSE repeat[u]]
      /\ focused' = [t \in Terms |-> focused[t] /\ ~FocusOut({s}, t)]
      /\ window' = window
  BY DEF KeyboardLeave, Leaves, StopsAny, modes
<1>2. KeyboardTypes' /\ SeesSame' /\ RepeatJustified'
  BY <1>1 DEF KeyboardInv, KeyboardTypes, SeesSame, RepeatJustified, LeaveDue, Repeatable
<1>3. FocusTold'
  <2>. SUFFICES ASSUME NEW t \in Terms, window[t] # "gone"
       PROVE  focused'[t] <=> \E u \in Seats : kbd'[u] = t
    BY <1>1 DEF FocusTold
  <2>1. t # None /\ (focused[t] <=> \E u \in Seats : kbd[u] = t)
    BY KeyboardAssumption, ParticipantsAssumption DEF KeyboardInv, FocusTold
  <2>2. FocusOut({s}, t) <=> kbd[s] = t /\ \A u \in Seats : u # s => kbd[u] # t
    BY DEF FocusOut
  <2>3. focused'[t] <=> focused[t] /\ ~FocusOut({s}, t)
    BY <1>1
  <2>4. \A u \in Seats : kbd'[u] = IF u = s THEN None ELSE kbd[u]
    BY <1>1
  <2>. QED  BY <2>1, <2>2, <2>3, <2>4
<1>. QED  BY <1>2, <1>3 DEF KeyboardInv

LEMMA PressInv ==
  ASSUME KeyboardInv,
         NEW s \in Seats, NEW key \in KeysOf[s], Press(s, key)
  PROVE  KeyboardInv'
<1>1. /\ kbd[s] \in Terms /\ Pressed(s, kbd[s], key) /\ key \in Keys /\ key # None
      /\ at' = at /\ kbd' = kbd /\ focused' = focused
      /\ held' = [held EXCEPT ![s] = @ \cup {key}]
      /\ repeat' = [repeat EXCEPT ![s] = key] \/ repeat' = repeat
  BY KeysAreKeys DEF Press, MayRepeat, focus, KeyboardInv, KeyboardTypes
<1>2. WindowsStay
  BY <1>1, PressedWindows DEF KeyboardInv
<1>3. KeyboardTypes'
  BY <1>1, <1>2 DEF KeyboardInv, KeyboardTypes, WindowsStay, Repeatable
<1>4. RepeatJustified'
  <2>1. \A u \in Seats : held[u] \subseteq held'[u] /\ (u = s => key \in held'[u])
    BY <1>1 DEF KeyboardInv, KeyboardTypes
  <2>2. \A u \in Seats : repeat'[u] = repeat[u] \/ (u = s /\ repeat'[u] = key)
    BY <1>1 DEF KeyboardInv, KeyboardTypes
  <2>3. kbd[s] # None
    BY DEF Press
  <2>. QED  BY <1>1, <2>1, <2>2, <2>3 DEF KeyboardInv, RepeatJustified, LeaveDue
<1>. QED  BY <1>1, <1>2, <1>3, <1>4, FocusTouchedNot DEF KeyboardInv

LEMMA ReleaseInv ==
  ASSUME KeyboardInv,
         NEW s \in Seats, NEW key \in KeysOf[s], Release(s, key)
  PROVE  KeyboardInv'
<1>1. /\ at' = at /\ kbd' = kbd /\ focused' = focused /\ window' = window
      /\ held' = [held EXCEPT ![s] = @ \ {key}]
      /\ repeat' = [repeat EXCEPT ![s] = IF repeat[s] = key THEN None ELSE repeat[s]]
  BY DEF Release, focus, modes, StopRepeater
<1>2. KeyboardTypes' /\ WindowsStay
  BY <1>1 DEF KeyboardInv, KeyboardTypes, WindowsStay, Repeatable
<1>3. RepeatJustified'
  <2>1. \A u \in Seats :
          /\ held'[u] = IF u = s THEN held[u] \ {key} ELSE held[u]
          /\ repeat'[u] = IF u = s /\ repeat[u] = key THEN None ELSE repeat[u]
    BY <1>1 DEF KeyboardInv, KeyboardTypes
  <2>. QED  BY <1>1, <2>1 DEF KeyboardInv, RepeatJustified, LeaveDue
<1>. QED  BY <1>1, <1>2, <1>3, FocusTouchedNot DEF KeyboardInv

(* A repeated key, and a click, leave all but the modes alone.             *)
LEMMA OtherInputInv ==
  ASSUME KeyboardInv,
         (\E s \in Seats : Repeat(s)) \/ (\E t \in Terms : Click(t))
  PROVE  KeyboardInv'
<1>1. /\ at' = at /\ held' = held /\ kbd' = kbd /\ focused' = focused /\ repeat' = repeat
  BY DEF Repeat, Click, compositor, focus
<1>2. WindowsStay
  <2>1. ASSUME NEW s \in Seats, Repeat(s)
        PROVE  WindowsStay
    <3>1. kbd[s] \in Terms /\ Pressed(s, kbd[s], repeat[s])
      BY <2>1 DEF Repeat, KeyboardInv, KeyboardTypes
    <3>. QED  BY <3>1, PressedWindows DEF KeyboardInv
  <2>2. ASSUME NEW t \in Terms, Click(t)
        PROVE  WindowsStay
    <3>1. window' = window \/ Binding(t)
      BY <2>2 DEF Click
    <3>2. CASE window' = window
      BY <3>2 DEF WindowsStay, KeyboardInv, KeyboardTypes
    <3>. QED  BY <3>1, <3>2, BindingWindows DEF KeyboardInv
  <2>. QED  BY <2>1, <2>2
<1>3. KeyboardTypes' /\ RepeatJustified'
  BY <1>1, <1>2 DEF KeyboardInv, KeyboardTypes, WindowsStay, RepeatJustified, LeaveDue
<1>. QED  BY <1>1, <1>2, <1>3, FocusTouchedNot DEF KeyboardInv

LEMMA ShutdownInv ==
  ASSUME KeyboardInv, NEW t \in Terms, Shutdown(t)
  PROVE  KeyboardInv'
<1>1. PICK left \in {{s \in Seats : at[s] = t}, {}} :
        /\ kbd' = [s \in Seats |-> IF kbd[s] = t THEN None ELSE kbd[s]]
        /\ focused' = [u \in Terms |-> IF u = t /\ left # {} THEN FALSE ELSE focused[u]]
        /\ repeat' = [s \in Seats |-> IF s \in left THEN None ELSE repeat[s]]
        /\ at' = [s \in Seats |-> IF s \in left THEN None ELSE at[s]]
        /\ held' = [s \in Seats |-> IF s \in left THEN {} ELSE held[s]]
  BY DEF Shutdown, StopsAny
<1>2. window' = [window EXCEPT ![t] = "gone"] /\ t # None
  BY KeyboardAssumption, ParticipantsAssumption DEF Shutdown
<1>3. left = {} \/ \A s \in Seats : s \in left <=> at[s] = t
  BY <1>1
<1>4. KeyboardTypes'
  BY <1>1, <1>2 DEF KeyboardInv, KeyboardTypes, Repeatable
<1>5. \A s \in Seats :
        /\ kbd'[s] = IF kbd[s] = t THEN None ELSE kbd[s]
        /\ repeat'[s] = IF s \in left THEN None ELSE repeat[s]
        /\ at'[s] = IF s \in left THEN None ELSE at[s]
        /\ held'[s] = IF s \in left THEN {} ELSE held[s]
  BY <1>1
<1>6. SeesSame'
  BY <1>2, <1>3, <1>5 DEF KeyboardInv, SeesSame
<1>7. RepeatJustified'
  BY <1>2, <1>3, <1>5 DEF KeyboardInv, RepeatJustified, LeaveDue, SeesSame
<1>8. FocusTold'
  <2>. SUFFICES ASSUME NEW u \in Terms, window'[u] # "gone"
       PROVE  focused'[u] <=> \E s \in Seats : kbd'[s] = u
    BY DEF FocusTold
  <2>1. u # t /\ window[u] # "gone" /\ u # None
    BY <1>2, KeyboardAssumption, ParticipantsAssumption DEF KeyboardInv, KeyboardTypes
  <2>2. focused'[u] = focused[u]
    BY <1>1, <2>1
  <2>3. \A s \in Seats : kbd'[s] = u <=> kbd[s] = u
    BY <1>5, <2>1
  <2>. QED  BY <2>1, <2>2, <2>3 DEF KeyboardInv, FocusTold
<1>. QED  BY <1>4, <1>6, <1>7, <1>8 DEF KeyboardInv

LEMMA NextInv ==
  ASSUME KeyboardInv, [Next]_vars
  PROVE  KeyboardInv'
<1>1. CASE UNCHANGED vars
  BY <1>1 DEF vars, KeyboardInv, KeyboardTypes, SeesSame, RepeatJustified, LeaveDue, FocusTold
<1>2. CASE \E s \in Seats, t \in Terms : KeyboardEnter(s, t)
  BY <1>2, EnterInv
<1>3. CASE \E s \in Seats : KeyboardLeave(s)
  BY <1>3, LeaveInv
<1>4. CASE \E s \in Seats : \E key \in KeysOf[s] : Press(s, key) \/ Release(s, key)
  BY <1>4, PressInv, ReleaseInv
<1>5. CASE (\E s \in Seats : Repeat(s)) \/ (\E t \in Terms : Click(t))
  BY <1>5, OtherInputInv
<1>6. CASE \E t \in Terms : Shutdown(t)
  BY <1>6, ShutdownInv
<1>. QED  BY <1>1, <1>2, <1>3, <1>4, <1>5, <1>6 DEF Next

LEMMA InitInv ==
  ASSUME Init
  PROVE  KeyboardInv
<1>1. KeyboardTypes
  BY DEF Init, KeyboardTypes, Repeatable
<1>2. SeesSame /\ RepeatJustified
  BY DEF Init, SeesSame, RepeatJustified
<1>3. FocusTold
  BY KeyboardAssumption, ParticipantsAssumption DEF Init, FocusTold
<1>. QED  BY <1>1, <1>2, <1>3 DEF KeyboardInv

(* A repeat timer runs for a key that is held in a terminal the seat       *)
(* focuses, and a terminal believes in its focus exactly as long as a seat *)
(* has it there, for any seats that come, leave and type, and any windows  *)
(* that close (input.c:2327, terminal.c:3528).                             *)
THEOREM KeyboardIsConsistent == Spec => []KeyboardConsistent
<1>1. Init => KeyboardInv
  BY InitInv
<1>2. KeyboardInv /\ [Next]_vars => KeyboardInv'
  BY NextInv
<1>3. KeyboardInv => KeyboardConsistent
  BY DEF KeyboardInv, KeyboardConsistent
<1>. QED  BY <1>1, <1>2, <1>3, PTL DEF Spec

-----------------------------------------------------------------------------
(***************************************************************************)
(* Clipboard.  CopiesSent needs to know whose text a transfer was given:   *)
(* a source stays of the kind it was created for, what is on the wire      *)
(* names a source of its own kind, and the compositor's owner is ours      *)
(* unless a cancel for it is on its way.                                   *)
(***************************************************************************)

Copies == [source : Nat, text : Nat, serial : BOOLEAN]
WireEvents == [event : {"cancelled", "send"}, kind : Kinds, source : Nat]
Transfers == [source : Nat, kind : Kinds, out : Seq(Nat), data : Nat, done : BOOLEAN]

OwnTypes ==
    /\ texts \in Seq(Kinds)
    /\ own \in [Kinds -> Copies]
    /\ owner \in [Kinds -> Int]
    /\ wire \in Seq(WireEvents)
    /\ sends \in Seq(Transfers)

\* A source is of the kind it was created for, and there are no others.
SourcesOfKind ==
    /\ \A k \in Kinds : own[k].source # Nothing =>
            own[k].source \in 1 .. Len(texts) /\ texts[own[k].source] = k
    /\ \A i \in 1 .. Len(wire) :
            wire[i].source \in 1 .. Len(texts) /\ texts[wire[i].source] = wire[i].kind

\* What belongs to our copies: source, text and serial, and the compositor's owner.
OwnsWhole(k) ==
    /\ own[k].serial <=> own[k].source # Nothing
    /\ own[k].text = own[k].source

OwnedAsTold(k) ==
    owner[k] > Nothing =>
        /\ owner[k] = own[k].source
        /\ \A i \in 1 .. Len(wire) : wire[i].event = "cancelled" => wire[i].source # owner[k]

SendOk(t) ==
    /\ \A j \in 1 .. Len(t.out) : t.out[j] = t.source
    /\ Len(t.out) < Length => t.done \/ t.data = t.source

ClipboardInv ==
    /\ OwnTypes
    /\ SourcesOfKind
    /\ \A k \in Kinds : OwnsWhole(k) /\ OwnedAsTold(k)
    /\ \A i \in 1 .. Len(sends) : SendOk(sends[i])

LEMMA ClipboardInitInv == ClipboardInit => ClipboardInv
BY DEF ClipboardInit, ClipboardInv, OwnTypes, SourcesOfKind, OwnsWhole, OwnedAsTold,
       NotOwned, Nothing, Other, Kinds, Copies

LEMMA InvCopiesSent == ClipboardInv => CopiesSent
<1>. SUFFICES ASSUME ClipboardInv PROVE CopiesSent
  OBVIOUS
<1>1. /\ DOMAIN sends = 1 .. Len(sends) /\ DOMAIN wire = 1 .. Len(wire)
      /\ \A i \in 1 .. Len(sends) : DOMAIN sends[i].out = 1 .. Len(sends[i].out)
  <2>1. sends \in Seq(Transfers)
    BY DEF ClipboardInv, OwnTypes
  <2>2. ASSUME NEW i \in 1 .. Len(sends) PROVE sends[i].out \in Seq(Nat)
    <3>1. sends[i] \in Transfers
      BY <2>1
    <3>. QED  BY <3>1 DEF Transfers
  <2>3. wire \in Seq(WireEvents)
    BY DEF ClipboardInv, OwnTypes
  <2>. QED  BY <2>1, <2>2, <2>3
<1>2. ASSUME NEW i \in DOMAIN sends
      PROVE  /\ \A j \in DOMAIN sends[i].out : sends[i].out[j] = sends[i].source
             /\ Len(sends[i].out) < Length => sends[i].done \/ sends[i].data = sends[i].source
  BY <1>1, <1>2 DEF ClipboardInv, SendOk
<1>3. ASSUME NEW k \in Kinds
      PROVE  /\ own[k].serial <=> own[k].source # Nothing
             /\ own[k].text = own[k].source
             /\ owner[k] > Nothing => owner[k] = own[k].source /\ ~CancelSent(k)
  BY <1>1, <1>3 DEF ClipboardInv, OwnsWhole, OwnedAsTold, CancelSent
<1>. QED  BY <1>2, <1>3 DEF CopiesSent

\* Killing our source leaves the compositor without one of ours.
LEMMA WithoutOursTold ==
  ASSUME ClipboardInv, NEW k \in Kinds
  PROVE  WithoutOurs(k) \in Int /\ ~(WithoutOurs(k) > Nothing)
BY DEF ClipboardInv, OwnTypes, OwnedAsTold, WithoutOurs, Nothing

LEMMA NotOwnedWhole ==
  /\ NotOwned \in Copies
  /\ NotOwned.source = Nothing /\ NotOwned.text = Nothing /\ NotOwned.serial = FALSE
BY DEF NotOwned, Nothing, Copies

\* A source is replaced by a new one, or by none; the compositor may refuse it.
LEMMA TextToInv ==
  ASSUME ClipboardInv, NEW k \in Kinds, TextTo(k) PROVE ClipboardInv'
<1>. DEFINE n == Len(texts) + 1
            mine == [source |-> n, text |-> n, serial |-> TRUE]
<1>0. /\ WithoutOurs(k) \in Int /\ ~(WithoutOurs(k) > Nothing)
      /\ texts \in Seq(Kinds) /\ Len(texts) \in Nat /\ UNCHANGED <<sends, wire>>
  BY WithoutOursTold DEF ClipboardInv, OwnTypes, TextTo, SetSelection
<1>1. CASE /\ texts' = Append(texts, k)
           /\ own' = [own EXCEPT ![k] = mine]
           /\ \E accepted \in BOOLEAN : SetSelection(k, n, accepted)
  <2>1. /\ texts' \in Seq(Kinds) /\ Len(texts') = n /\ texts'[n] = k
        /\ \A i \in 1 .. Len(texts) : texts'[i] = texts[i]
    BY <1>0, <1>1
  <2>2. /\ own' \in [Kinds -> Copies]
        /\ own'[k] = mine /\ \A l \in Kinds \ {k} : own'[l] = own[l]
    <3>1. mine \in Copies
      BY <1>0 DEF Copies
    <3>. QED  BY <1>1, <3>1 DEF ClipboardInv, OwnTypes
  <2>3. /\ owner' \in [Kinds -> Int]
        /\ owner'[k] = n \/ ~(owner'[k] > Nothing)
        /\ \A l \in Kinds \ {k} : owner'[l] = owner[l]
    BY <1>0, <1>1 DEF ClipboardInv, OwnTypes, SetSelection
  <2>4. OwnTypes'
    BY <1>0, <2>1, <2>2, <2>3 DEF ClipboardInv, OwnTypes
  <2>5. SourcesOfKind'
    <3>1. ASSUME NEW l \in Kinds, own'[l].source # Nothing
          PROVE  own'[l].source \in 1 .. Len(texts') /\ texts'[own'[l].source] = l
      <4>1. CASE l = k
        BY <1>0, <2>1, <2>2, <4>1
      <4>2. CASE l # k
        <5>1. own'[l] = own[l]
          BY <2>2, <4>2
        <5>2. own[l].source \in 1 .. Len(texts) /\ texts[own[l].source] = l
          BY <3>1, <5>1 DEF ClipboardInv, SourcesOfKind
        <5>. QED  BY <1>0, <2>1, <5>1, <5>2
      <4>. QED  BY <4>1, <4>2
    <3>2. ASSUME NEW i \in 1 .. Len(wire)
          PROVE  wire[i].source \in 1 .. Len(texts') /\ texts'[wire[i].source] = wire[i].kind
      BY <1>0, <2>1 DEF ClipboardInv, SourcesOfKind
    <3>. QED  BY <1>0, <3>1, <3>2 DEF SourcesOfKind
  <2>6. ASSUME NEW l \in Kinds PROVE OwnsWhole(l)' /\ OwnedAsTold(l)'
    <3>1. CASE l = k
      BY <1>0, <2>2, <2>3, <3>1 DEF ClipboardInv, SourcesOfKind, OwnsWhole, OwnedAsTold, Nothing
    <3>2. CASE l # k
      BY <1>0, <2>2, <2>3, <3>2 DEF ClipboardInv, OwnsWhole, OwnedAsTold
    <3>. QED  BY <3>1, <3>2
  <2>. QED  BY <1>0, <2>4, <2>5, <2>6 DEF ClipboardInv, SendOk
<1>2. CASE /\ own' = [own EXCEPT ![k] = NotOwned]
           /\ owner' = [owner EXCEPT ![k] = WithoutOurs(k)]
           /\ UNCHANGED texts
  <2>1. /\ OwnTypes'
        /\ own'[k] = NotOwned /\ \A l \in Kinds \ {k} : own'[l] = own[l]
        /\ ~(owner'[k] > Nothing) /\ \A l \in Kinds \ {k} : owner'[l] = owner[l]
    BY <1>0, <1>2, NotOwnedWhole DEF ClipboardInv, OwnTypes
  <2>. QED  BY <1>0, <1>2, <2>1, NotOwnedWhole
            DEF ClipboardInv, SourcesOfKind, OwnsWhole, OwnedAsTold, SendOk
<1>. QED  BY <1>1, <1>2 DEF TextTo, Created

LEMMA UnsetInv ==
  ASSUME ClipboardInv, NEW k \in Kinds, Unset(k) PROVE ClipboardInv'
<1>1. /\ OwnTypes'
      /\ own'[k] = NotOwned /\ \A l \in Kinds \ {k} : own'[l] = own[l]
      /\ ~(owner'[k] > Nothing) /\ \A l \in Kinds \ {k} : owner'[l] = owner[l]
      /\ UNCHANGED <<texts, wire, sends>>
  BY NotOwnedWhole, WithoutOursTold DEF Unset, ClipboardInv, OwnTypes
<1>2. SourcesOfKind'
  BY <1>1, NotOwnedWhole DEF ClipboardInv, SourcesOfKind
<1>3. ASSUME NEW l \in Kinds PROVE OwnsWhole(l)' /\ OwnedAsTold(l)'
  <2>1. CASE l = k
    BY <1>1, <2>1, NotOwnedWhole DEF OwnsWhole, OwnedAsTold, Nothing
  <2>2. CASE l # k
    BY <1>1, <2>2 DEF ClipboardInv, OwnsWhole, OwnedAsTold
  <2>. QED  BY <2>1, <2>2
<1>. QED  BY <1>1, <1>2, <1>3 DEF ClipboardInv, SendOk

\* An event is appended to the wire: what it is about was the owner, and is
\* not any more if it is told that it is cancelled.
LEMMA ToldInv ==
  ASSUME ClipboardInv, NEW k \in Kinds, owner[k] > Nothing,
         NEW event \in {"cancelled", "send"},
         wire' = Append(wire, [event |-> event, kind |-> k, source |-> owner[k]]),
         owner' = [owner EXCEPT ![k] = IF event = "cancelled" THEN Other ELSE owner[k]],
         UNCHANGED <<own, texts, sends>>
  PROVE  ClipboardInv'
<1>. DEFINE e == [event |-> event, kind |-> k, source |-> owner[k]]
<1>1. /\ wire \in Seq(WireEvents)
      /\ Len(wire) \in Nat
      /\ owner[k] \in 1 .. Len(texts) /\ texts[owner[k]] = k /\ owner[k] = own[k].source
  BY DEF ClipboardInv, OwnTypes, SourcesOfKind, OwnedAsTold, Nothing
<1>2. e \in WireEvents
  BY <1>1 DEF WireEvents
<1>. HIDE DEF e
<1>3. /\ wire' \in Seq(WireEvents)
      /\ Len(wire') = Len(wire) + 1 /\ wire'[Len(wire) + 1] = e
      /\ \A i \in 1 .. Len(wire) : wire'[i] = wire[i]
  BY <1>1, <1>2 DEF e
<1>4. e.event = event /\ e.kind = k /\ e.source = owner[k]
  BY DEF e
<1>5. /\ owner' \in [Kinds -> Int]
      /\ owner'[k] = IF event = "cancelled" THEN Other ELSE owner[k]
      /\ \A l \in Kinds \ {k} : owner'[l] = owner[l]
  BY DEF ClipboardInv, OwnTypes, Other
<1>6. OwnTypes'
  BY <1>3, <1>5 DEF ClipboardInv, OwnTypes
<1>7. SourcesOfKind'
  <2>1. ASSUME NEW i \in 1 .. Len(wire')
        PROVE  wire'[i].source \in 1 .. Len(texts) /\ texts[wire'[i].source] = wire'[i].kind
    BY <1>1, <1>3, <1>4 DEF ClipboardInv, SourcesOfKind
  <2>. QED  BY <2>1 DEF ClipboardInv, SourcesOfKind
<1>8. ASSUME NEW l \in Kinds, owner'[l] > Nothing PROVE OwnedAsTold(l)'
  <2>1. owner'[l] = owner[l] /\ owner[l] > Nothing /\ (l = k => event # "cancelled")
    BY <1>5, <1>8 DEF Other, Nothing
  <2>2. owner[l] = own[l].source /\ texts[owner[l]] = l
    BY <2>1 DEF ClipboardInv, SourcesOfKind, OwnedAsTold, Nothing
  <2>3. ASSUME NEW i \in 1 .. Len(wire'), wire'[i].event = "cancelled"
        PROVE  wire'[i].source # owner[l]
    <3>1. CASE i \in 1 .. Len(wire)
      BY <1>3, <2>1, <2>3, <3>1 DEF ClipboardInv, OwnedAsTold
    <3>2. CASE i = Len(wire) + 1
      BY <1>1, <1>3, <1>4, <2>1, <2>2, <2>3, <3>2
    <3>. QED  BY <1>1, <1>3, <3>1, <3>2
  <2>. QED  BY <2>1, <2>2, <2>3 DEF OwnedAsTold
<1>9. ASSUME NEW l \in Kinds PROVE OwnsWhole(l)' /\ OwnedAsTold(l)'
  BY <1>8 DEF ClipboardInv, OwnsWhole, OwnedAsTold
<1>. QED  BY <1>6, <1>7, <1>9 DEF ClipboardInv, SendOk

\* The first event is taken from the wire.
LEMMA WireTail ==
  ASSUME ClipboardInv, wire # <<>>, wire' = Tail(wire), UNCHANGED <<texts>>
  PROVE  /\ wire' \in Seq(WireEvents)
         /\ \A i \in 1 .. Len(wire') : i + 1 \in 1 .. Len(wire) /\ wire'[i] = wire[i + 1]
         /\ Head(wire) = wire[1] /\ 1 \in 1 .. Len(wire)
         /\ wire[1] \in WireEvents
BY DEF ClipboardInv, OwnTypes

LEMMA ArrivalInv ==
  ASSUME ClipboardInv, Dropped \/ Cancelled \/ Send PROVE ClipboardInv'
<1>1. /\ wire # <<>> /\ wire' = Tail(wire) /\ UNCHANGED <<texts, owner>>
  BY DEF Dropped, Cancelled, Send, Arrives
<1>2. /\ wire' \in Seq(WireEvents)
      /\ \A i \in 1 .. Len(wire') : i + 1 \in 1 .. Len(wire) /\ wire'[i] = wire[i + 1]
      /\ Head(wire) = wire[1] /\ 1 \in 1 .. Len(wire)
      /\ wire[1] \in WireEvents
  BY <1>1, WireTail
<1>. DEFINE k == wire[1].kind
<1>3. k \in Kinds
  BY <1>2 DEF WireEvents
<1>4. CASE UNCHANGED own
  <2>1. SourcesOfKind' /\ \A l \in Kinds : OwnsWhole(l)' /\ OwnedAsTold(l)'
    BY <1>1, <1>2, <1>4 DEF ClipboardInv, SourcesOfKind, OwnsWhole, OwnedAsTold
  <2>2. CASE UNCHANGED sends
    BY <1>1, <1>2, <1>4, <2>1, <2>2 DEF ClipboardInv, OwnTypes, SendOk
  <2>3. CASE Send
    <3>1. PICK fits \in 0 .. Length, failed \in BOOLEAN :
            sends' = Append(sends,
              [source |-> wire[1].source, kind |-> k,
               out |-> [i \in 1 .. fits |-> own[k].text],
               data |-> IF failed \/ fits = Length THEN Nothing ELSE own[k].text,
               done |-> failed \/ fits = Length])
      BY <1>2, <2>3 DEF Send
    <3>2. own[k].text = wire[1].source /\ own[k].text \in Nat
      BY <1>2, <1>3, <2>3 DEF Send, ForUs, ClipboardInv, OwnTypes, OwnsWhole, Copies
    <3>. DEFINE out == [i \in 1 .. fits |-> own[k].text]
                t == [source |-> wire[1].source, kind |-> k, out |-> out,
                      data |-> IF failed \/ fits = Length THEN Nothing ELSE own[k].text,
                      done |-> failed \/ fits = Length]
    <3>3. /\ out \in Seq(Nat) /\ Len(out) = fits
          /\ \A i \in 1 .. Len(out) : out[i] = own[k].text
      BY <3>2, ClipboardAssumption
    <3>. HIDE DEF out
    <3>4. t \in Transfers
      BY <1>2, <1>3, <3>2, <3>3 DEF Nothing, Transfers, WireEvents
    <3>5. SendOk(t)
      BY <3>2, <3>3 DEF SendOk
    <3>6. sends' = Append(sends, t)
      BY <3>1 DEF out
    <3>. HIDE DEF t
    <3>7. /\ sends' \in Seq(Transfers)
          /\ Len(sends') = Len(sends) + 1 /\ Len(sends) \in Nat /\ sends'[Len(sends) + 1] = t
          /\ \A i \in 1 .. Len(sends) : sends'[i] = sends[i]
      BY <3>4, <3>6 DEF ClipboardInv, OwnTypes
    <3>8. ASSUME NEW i \in 1 .. Len(sends') PROVE SendOk(sends'[i])
      <4>1. CASE i \in 1 .. Len(sends)
        BY <3>7, <4>1 DEF ClipboardInv
      <4>2. CASE i = Len(sends) + 1
        BY <3>5, <3>7, <4>2
      <4>. QED  BY <3>7, <3>8, <4>1, <4>2
    <3>. QED  BY <1>1, <1>2, <1>4, <2>1, <3>7, <3>8 DEF ClipboardInv, OwnTypes, SendOk
  <2>. QED  BY <2>2, <2>3 DEF Dropped, Cancelled, Send
<1>5. CASE Cancelled
  <2>1. own' = [own EXCEPT ![k] = NotOwned] /\ UNCHANGED sends
    BY <1>2, <1>5 DEF Cancelled
  <2>2. own[k].source = wire[1].source /\ wire[1].event = "cancelled"
    BY <1>2, <1>5 DEF Cancelled, ForUs, Arrives
  <2>3. /\ own' \in [Kinds -> Copies]
        /\ own'[k] = NotOwned /\ \A l \in Kinds \ {k} : own'[l] = own[l]
    BY <1>3, <2>1, NotOwnedWhole DEF ClipboardInv, OwnTypes
  <2>4. ~(owner[k] > Nothing)
    BY <1>2, <1>3, <2>2 DEF ClipboardInv, OwnedAsTold
  <2>5. OwnTypes'
    BY <1>1, <1>2, <2>1, <2>3 DEF ClipboardInv, OwnTypes
  <2>6. SourcesOfKind'
    <3>1. ASSUME NEW l \in Kinds, own'[l].source # Nothing
          PROVE  own'[l].source \in 1 .. Len(texts) /\ texts[own'[l].source] = l
      BY <2>3, <3>1, NotOwnedWhole DEF ClipboardInv, SourcesOfKind
    <3>2. ASSUME NEW i \in 1 .. Len(wire')
          PROVE  wire'[i].source \in 1 .. Len(texts) /\ texts[wire'[i].source] = wire'[i].kind
      BY <1>2 DEF ClipboardInv, SourcesOfKind
    <3>. QED  BY <1>1, <3>1, <3>2 DEF SourcesOfKind
  <2>7. ASSUME NEW l \in Kinds PROVE OwnsWhole(l)' /\ OwnedAsTold(l)'
    <3>1. CASE l = k
      BY <1>1, <2>3, <2>4, <3>1, NotOwnedWhole DEF OwnsWhole, OwnedAsTold, Nothing
    <3>2. CASE l # k
      <4>1. own'[l] = own[l] /\ owner'[l] = owner[l]
        BY <1>1, <2>3, <3>2
      <4>. QED  BY <1>2, <4>1 DEF ClipboardInv, OwnsWhole, OwnedAsTold
    <3>. QED  BY <3>1, <3>2
  <2>. QED  BY <2>1, <2>5, <2>6, <2>7 DEF ClipboardInv, SendOk
<1>. QED  BY <1>4, <1>5 DEF Dropped, Cancelled, Send

LEMMA FdmSendInv == ASSUME ClipboardInv, FdmSend PROVE ClipboardInv'
<1>1. PICK i \in DOMAIN sends :
        /\ ~sends[i].done
        /\ \E n \in 0 .. Length - Len(sends[i].out), failed \in BOOLEAN :
             LET out == sends[i].out \o [j \in 1 .. n |-> Rest(sends[i])]
                 done == failed \/ Len(out) = Length
             IN  sends' = [sends EXCEPT ![i] = [sends[i] EXCEPT
                              !.out = out, !.done = done,
                              !.data = IF done THEN Nothing ELSE sends[i].data]]
  BY DEF FdmSend
<1>. DEFINE t == sends[i]
<1>2. sends \in Seq(Transfers) /\ i \in 1 .. Len(sends) /\ t \in Transfers
  BY DEF ClipboardInv, OwnTypes
<1>3. SendOk(t) /\ ~t.done
  BY <1>1, <1>2 DEF ClipboardInv
<1>4. PICK n \in 0 .. Length - Len(t.out), failed \in BOOLEAN :
        LET out == t.out \o [j \in 1 .. n |-> Rest(t)]
            done == failed \/ Len(out) = Length
        IN  sends' = [sends EXCEPT ![i] = [t EXCEPT !.out = out, !.done = done,
                                            !.data = IF done THEN Nothing ELSE t.data]]
  BY <1>1
<1>5. t.out \in Seq(Nat) /\ Len(t.out) \in Nat /\ t.data \in Nat /\ t.source \in Nat
  BY <1>2 DEF Transfers
<1>. HIDE DEF t
<1>6. Len(t.out) + n <= Length /\ (n > 0 => t.data = t.source)
  BY <1>3, <1>5, ClipboardAssumption DEF SendOk
<1>. DEFINE more == [j \in 1 .. n |-> Rest(t)]
            out == t.out \o more
            done == failed \/ Len(out) = Length
            u == [t EXCEPT !.out = out, !.done = done,
                           !.data = IF done THEN Nothing ELSE t.data]
<1>7. /\ more \in Seq(Nat) /\ Len(more) = n /\ \A j \in 1 .. n : more[j] = t.data
  BY <1>5, ClipboardAssumption DEF Rest
<1>8. sends' = [sends EXCEPT ![i] = u]
  BY <1>4
<1>. HIDE DEF more
<1>9. /\ out \in Seq(Nat) /\ Len(out) = Len(t.out) + n
      /\ \A j \in 1 .. Len(t.out) : out[j] = t.out[j]
      /\ \A j \in 1 .. n : out[Len(t.out) + j] = more[j]
  BY <1>5, <1>7
<1>10. \A j \in 1 .. Len(out) : out[j] = t.source
  <2>. SUFFICES ASSUME NEW j \in 1 .. Len(out) PROVE out[j] = t.source
    OBVIOUS
  <2>. HIDE DEF out
  <2>1. CASE j \in 1 .. Len(t.out)
    BY <1>3, <1>9, <2>1 DEF SendOk
  <2>2. CASE j \notin 1 .. Len(t.out)
    <3>1. j - Len(t.out) \in 1 .. n /\ j = Len(t.out) + (j - Len(t.out))
      BY <1>5, <1>9, <2>2
    <3>2. n > 0
      BY <3>1
    <3>3. out[j] = more[j - Len(t.out)]
      BY <1>9, <3>1
    <3>. QED  BY <1>6, <1>7, <3>1, <3>2, <3>3
  <2>. QED  BY <2>1, <2>2
<1>. HIDE DEF out
<1>11. u \in Transfers /\ u.out = out /\ u.source = t.source /\ u.done = done
       /\ u.data = IF done THEN Nothing ELSE t.data
  BY <1>2, <1>5, <1>9 DEF Nothing, t, Transfers
<1>. HIDE DEF u
<1>12. SendOk(u)
  BY <1>3, <1>5, <1>9, <1>10, <1>11, ClipboardAssumption DEF SendOk
<1>13. /\ sends' \in Seq(Transfers) /\ Len(sends') = Len(sends) /\ sends'[i] = u
       /\ \A j \in 1 .. Len(sends) : j # i => sends'[j] = sends[j]
  BY <1>2, <1>8, <1>11, ExceptSeq
<1>14. UNCHANGED <<own, texts, owner, wire>>
  BY DEF FdmSend
<1>15. OwnTypes'
  BY <1>13, <1>14 DEF ClipboardInv, OwnTypes
<1>16. ASSUME NEW j \in 1 .. Len(sends') PROVE SendOk(sends'[j])
  BY <1>12, <1>13 DEF ClipboardInv
<1>17. SourcesOfKind' /\ \A k \in Kinds : OwnsWhole(k)' /\ OwnedAsTold(k)'
  BY <1>14 DEF ClipboardInv, SourcesOfKind, OwnsWhole, OwnedAsTold
<1>. QED  BY <1>15, <1>16, <1>17 DEF ClipboardInv, SendOk

LEMMA ClipboardNextInv == ClipboardInv /\ [ClipboardNext]_clipboardVars => ClipboardInv'
<1>1. ASSUME ClipboardInv, TextToClipboard \/ TextToPrimary PROVE ClipboardInv'
  BY <1>1, TextToInv DEF TextToClipboard, TextToPrimary, Kinds
<1>2. ASSUME ClipboardInv, ClipboardUnset \/ PrimaryUnset PROVE ClipboardInv'
  BY <1>2, UnsetInv DEF ClipboardUnset, PrimaryUnset, Kinds
<1>3. ASSUME ClipboardInv, Taken PROVE ClipboardInv'
  BY <1>3, ToldInv DEF Taken
<1>4. ASSUME ClipboardInv, Asked PROVE ClipboardInv'
  <2>1. PICK k \in Kinds :
          /\ owner[k] > Nothing
          /\ wire' = Append(wire, [event |-> "send", kind |-> k, source |-> owner[k]])
          /\ UNCHANGED <<own, texts, owner, sends>>
    BY <1>4 DEF Asked
  <2>2. owner' = [owner EXCEPT ![k] = owner[k]]
    BY <1>4, <2>1 DEF ClipboardInv, OwnTypes
  <2>. QED  BY <1>4, <2>1, <2>2, ToldInv
<1>5. ASSUME ClipboardInv, UNCHANGED clipboardVars PROVE ClipboardInv'
  BY <1>5 DEF clipboardVars, ClipboardInv, OwnTypes, SourcesOfKind, OwnsWhole, OwnedAsTold, SendOk
<1>. QED  BY <1>1, <1>2, <1>3, <1>4, <1>5, ArrivalInv, FdmSendInv DEF ClipboardNext

\* Copies, their sources and the transfers of them agree.
THEOREM ClipboardInvHolds == ClipboardSpec => []ClipboardInv
<1>. QED  BY ClipboardInitInv, ClipboardNextInv, PTL DEF ClipboardSpec

\* Who asks for what was copied gets the text that was copied when he asked.
THEOREM CopiesAreSent == ClipboardSpec => []CopiesSent
<1>. QED  BY ClipboardInvHolds, InvCopiesSent, PTL

-----------------------------------------------------------------------------
(***************************************************************************)
(* Offers.  OffersOwned needs that an offer is none or the newest one,     *)
(* that one just announced is over no window yet, and that the best type so *)
(* far is the best of the types announced so far.                          *)
(***************************************************************************)

Mimes == Types \cup {"unset"}
Ends == 0 .. made
Reads == [term : Windows, mime : Mimes, of : Seq(Types), ends : Ends]

OffersTypes ==
    /\ made \in 0 .. MaxOffers
    /\ types \in Seq(Types)
    /\ clip \in [offer : {0, made}, mime : Mimes, window : Windows \cup {NoWindow}]
    /\ drag \in [offer : 0 .. made, window : Windows \cup {NoWindow}, accepted : BOOLEAN]
    /\ \A t \in transfers : t \in Reads
    /\ destroyed \in [1 .. MaxOffers -> Nat]

\* An offer that is neither the clipboard nor a drag yet is in nobody's way.
Announced == newest = "new" => clip.offer # NoOffer /\ clip.window = NoWindow

OffersInv == OffersTypes /\ Announced /\ OffersOwned

-----------------------------------------------------------------------------
(* select_mime_type_for_offer() finds the best type, one at a time. *)

\* The first type of a set S that was offered.
First(mime, offered, S) ==
    \E i \in 1 .. Len(offered) :
        /\ mime = offered[i] /\ mime \in S
        /\ \A j \in 1 .. i - 1 : offered[j] \notin S

Lacks(offered, S) == \A i \in 1 .. Len(offered) : offered[i] \notin S

LEMMA BestIs ==
  ASSUME NEW mime, NEW offered \in Seq(Types)
  PROVE  Best(mime, offered) <=>
           \/ First(mime, offered, {"uris"})
           \/ Lacks(offered, {"uris"}) /\ First(mime, offered, Utf8Text)
           \/ Lacks(offered, {"uris"} \cup Utf8Text) /\ First(mime, offered, PlainText)
           \/ offered = <<>> /\ mime = "unset"
<1>1. DOMAIN offered = 1 .. Len(offered)
  OBVIOUS
<1>. QED  BY <1>1 DEF Best, First, Lacks

LEMMA FirstAppended ==
  ASSUME NEW offered \in Seq(Types), NEW t \in Types, NEW mime, NEW S
  PROVE  /\ First(mime, offered, S) => First(mime, Append(offered, t), S)
         /\ Lacks(offered, S) /\ t \in S => First(t, Append(offered, t), S)
         /\ Lacks(offered, S) /\ t \notin S => Lacks(Append(offered, t), S)
<1>. DEFINE s == Append(offered, t)
<1>1. /\ Len(offered) \in Nat /\ Len(s) = Len(offered) + 1 /\ s[Len(offered) + 1] = t
      /\ \A i \in 1 .. Len(offered) : s[i] = offered[i]
  OBVIOUS
<1>. HIDE DEF s
<1>2. ASSUME First(mime, offered, S) PROVE First(mime, s, S)
  <2>1. PICK i \in 1 .. Len(offered) :
          /\ mime = offered[i] /\ mime \in S
          /\ \A j \in 1 .. i - 1 : offered[j] \notin S
    BY <1>2 DEF First
  <2>2. i \in 1 .. Len(s) /\ mime = s[i] /\ \A j \in 1 .. i - 1 : s[j] \notin S
    BY <1>1, <2>1
  <2>. QED  BY <2>1, <2>2 DEF First
<1>3. ASSUME Lacks(offered, S), t \in S PROVE First(t, s, S)
  <2>1. Len(offered) + 1 \in 1 .. Len(s) /\ t = s[Len(offered) + 1]
    BY <1>1
  <2>2. \A j \in 1 .. (Len(offered) + 1) - 1 : s[j] \notin S
    BY <1>1, <1>3 DEF Lacks
  <2>. QED  BY <1>3, <2>1, <2>2 DEF First
<1>4. ASSUME Lacks(offered, S), t \notin S PROVE Lacks(s, S)
  BY <1>1, <1>4 DEF Lacks
<1>. QED  BY <1>2, <1>3, <1>4 DEF s

LEMMA FirstIn ==
  ASSUME NEW offered, NEW mime, NEW S, First(mime, offered, S)
  PROVE  mime \in S
BY DEF First

LEMMA PreferredIsBest ==
  ASSUME NEW offered \in Seq(Types), NEW mime, Best(mime, offered), NEW t \in Types
  PROVE  Best(Preferred(mime, t), Append(offered, t))
<1>. DEFINE s == Append(offered, t)
            p == Preferred(mime, t)
<1>1. s \in Seq(Types)
  OBVIOUS
<1>. SUFFICES \/ First(p, s, {"uris"})
              \/ Lacks(s, {"uris"}) /\ First(p, s, Utf8Text)
              \/ Lacks(s, {"uris"} \cup Utf8Text) /\ First(p, s, PlainText)
  BY <1>1, BestIs
<1>2. \A S : /\ First(mime, offered, S) => First(mime, s, S)
             /\ Lacks(offered, S) /\ t \in S => First(t, s, S)
             /\ Lacks(offered, S) /\ t \notin S => Lacks(s, S)
  BY FirstAppended
<1>. HIDE DEF s
<1>3. CASE First(mime, offered, {"uris"})
  <2>1. mime = "uris"
    BY <1>3, FirstIn
  <2>2. p = mime
    BY <2>1 DEF Preferred, PlainText, Utf8Text, Types
  <2>. QED  BY <1>2, <1>3, <2>2
<1>4. CASE Lacks(offered, {"uris"}) /\ First(mime, offered, Utf8Text)
  <2>1. mime \in Utf8Text
    BY <1>4, FirstIn
  <2>2. CASE t = "uris"
    <3>1. p = t
      BY <2>2 DEF Preferred, PlainText, Utf8Text
    <3>. QED  BY <1>2, <1>4, <2>2, <3>1
  <2>3. CASE t # "uris"
    <3>1. p = mime
      BY <2>1, <2>3 DEF Preferred, PlainText, Utf8Text, Types
    <3>. QED  BY <1>2, <1>4, <2>3, <3>1
  <2>. QED  BY <2>2, <2>3
<1>5. CASE Lacks(offered, {"uris"} \cup Utf8Text) /\ First(mime, offered, PlainText)
  <2>1. mime \in PlainText
    BY <1>5, FirstIn
  <2>0. Lacks(offered, {"uris"}) /\ Lacks(offered, Utf8Text)
    BY <1>5 DEF Lacks
  <2>2. CASE t = "uris"
    <3>1. p = t
      BY <2>2 DEF Preferred, PlainText, Utf8Text
    <3>. QED  BY <1>2, <2>0, <2>2, <3>1
  <2>3. CASE t \in Utf8Text
    <3>1. p = t /\ t # "uris"
      BY <2>1, <2>3 DEF Preferred, PlainText, Utf8Text
    <3>. QED  BY <1>2, <2>0, <2>3, <3>1
  <2>4. CASE t \in PlainText
    <3>1. p = mime /\ t \notin {"uris"} \cup Utf8Text
      BY <2>1, <2>4 DEF Preferred, PlainText, Utf8Text
    <3>. QED  BY <1>2, <1>5, <3>1
  <2>. QED  BY <2>2, <2>3, <2>4 DEF Types
<1>6. CASE offered = <<>> /\ mime = "unset"
  <2>1. \A S : Lacks(offered, S)
    BY <1>6 DEF Lacks
  <2>2. p = t
    BY <1>6 DEF Preferred, PlainText, Utf8Text, Types
  <2>3. t \in {"uris"} \/ t \in Utf8Text \/ t \in PlainText
    BY DEF Types
  <2>4. CASE t \in {"uris"}
    BY <1>2, <2>1, <2>2, <2>4
  <2>5. CASE t \in Utf8Text
    <3>1. t \notin {"uris"}
      BY <2>5 DEF Utf8Text
    <3>. QED  BY <1>2, <2>1, <2>2, <2>5, <3>1
  <2>6. CASE t \in PlainText
    <3>1. t \notin {"uris"} \cup Utf8Text
      BY <2>6 DEF Utf8Text, PlainText
    <3>. QED  BY <1>2, <2>1, <2>2, <2>6, <3>1
  <2>. QED  BY <2>3, <2>4, <2>5, <2>6
<1>. QED  BY <1>3, <1>4, <1>5, <1>6, BestIs

\* No types, and only none, leave it unset.
LEMMA BestOfNone == Best("unset", <<>>)
BY DEF Best

LEMMA BestIsMime ==
  ASSUME NEW offered \in Seq(Types), NEW mime \in Mimes, NEW t \in Types
  PROVE  Preferred(mime, t) \in Mimes
BY DEF Preferred, Mimes, Types

-----------------------------------------------------------------------------
(* The seat's offer, and the transfers. *)

LEMMA NoOffers ==
  /\ NoClip \in [offer : {0}, mime : Mimes, window : {NoWindow}]
  /\ NoClip.offer = NoOffer /\ NoClip.mime = "unset" /\ NoClip.window = NoWindow
  /\ NoDrag.accepted = FALSE /\ NoDrag.offer = 0 /\ NoDrag.window = NoWindow
BY DEF NoClip, NoDrag, NoOffer, Mimes

LEMMA OffersInitInv == OffersInit => OffersInv
<1>. SUFFICES ASSUME OffersInit PROVE OffersInv
  OBVIOUS
<1>. USE DEF OffersInit
<1>1. /\ clip \in [offer : {0, made}, mime : Mimes, window : Windows \cup {NoWindow}]
      /\ drag \in [offer : 0 .. made, window : Windows \cup {NoWindow}, accepted : BOOLEAN]
  BY DEF NoClip, NoDrag, NoOffer, Mimes
<1>2. OffersTypes
  BY <1>1, OffersAssumption DEF OffersTypes
<1>3. OffersOwned
  BY NoOffers, OffersAssumption DEF OffersOwned, NoOffer
<1>. QED  BY <1>2, <1>3 DEF OffersInv, Announced

\* What remains to be shown of a step that keeps the transfers.
OwnedIs(offer) ==
    \A o \in 1 .. MaxOffers :
        destroyed[o] = IF o \in 1 .. made /\ o # offer /\ \A t \in transfers : t.ends # o
                       THEN 1 ELSE 0

LEMMA OwnedMeans ==
  ASSUME OffersTypes
  PROVE  OwnedIs(clip.offer) <=>
           \A o \in DOMAIN destroyed :
             destroyed[o] = IF o \in 1 .. made /\ o \notin Held THEN 1 ELSE 0
BY DEF OffersTypes, OwnedIs, Held

LEMMA DestroyedIs ==
  ASSUME OffersTypes, NEW offer
  PROVE  /\ Destroyed(offer) \in [1 .. MaxOffers -> Nat]
         /\ \A o \in 1 .. MaxOffers :
              Destroyed(offer)[o] = destroyed[o] + (IF o = offer THEN 1 ELSE 0)
BY DEF OffersTypes, Destroyed

\* The parts of OffersOwned, apart.
BestAsked == IF clip.offer = NoOffer THEN clip.mime = "unset" ELSE Best(clip.mime, types)

EndsOnce ==
    \A t \in transfers :
        /\ Best(t.mime, t.of)
        /\ t.ends # NoOffer => t.ends # clip.offer
        /\ \A u \in transfers : t.ends = u.ends /\ t.ends # NoOffer => t = u

DragOver ==
    drag.accepted /\ clip.window # NoWindow =>
        clip.window = drag.window /\ clip.offer = drag.offer

LEMMA OwnedParts ==
  ASSUME OffersTypes
  PROVE  OffersOwned <=> BestAsked /\ OwnedIs(clip.offer) /\ EndsOnce /\ DragOver
BY OwnedMeans DEF OffersOwned, BestAsked, EndsOnce, DragOver

LEMMA OwnedPartsNext ==
  ASSUME OffersTypes'
  PROVE  OffersOwned' <=> (BestAsked /\ OwnedIs(clip.offer) /\ EndsOnce /\ DragOver)'
<1>1. OwnedIs(clip.offer)' <=>
           \A o \in DOMAIN destroyed' :
             destroyed'[o] = IF o \in 1 .. made' /\ o \notin Held' THEN 1 ELSE 0
  BY DEF OffersTypes, OwnedIs, Held
<1>. QED  BY <1>1 DEF OffersOwned, BestAsked, EndsOnce, DragOver

\* An offer is announced: the one before it is destroyed.
LEMMA DataOfferInv == ASSUME OffersInv, DataOffer PROVE OffersInv'
<1>. DEFINE n == made + 1
<1>1. /\ made \in Nat /\ made < MaxOffers /\ n \in 1 .. MaxOffers /\ MaxOffers \in Nat
      /\ clip.offer \in 0 .. made
  BY OffersAssumption DEF OffersInv, OffersTypes, DataOffer
<1>2. /\ clip' \in [offer : {n}, mime : Mimes, window : {NoWindow}]
      /\ clip'.offer = n /\ clip'.mime = "unset" /\ clip'.window = NoWindow
      /\ made' = n /\ types' = <<>> /\ UNCHANGED <<drag, transfers>>
      /\ destroyed' = Destroyed(clip.offer)
  BY NoOffers DEF DataOffer
<1>3. /\ destroyed' \in [1 .. MaxOffers -> Nat]
      /\ \A o \in 1 .. MaxOffers :
           destroyed'[o] = destroyed[o] + (IF o = clip.offer THEN 1 ELSE 0)
  BY <1>2, DestroyedIs DEF OffersInv
<1>4. OffersTypes'
  <2>1. \A t \in transfers : t \in Reads'
    BY <1>1, <1>2 DEF OffersInv, OffersTypes, Reads, Ends
  <2>2. drag \in [offer : 0 .. n, window : Windows \cup {NoWindow}, accepted : BOOLEAN]
    BY <1>1 DEF OffersInv, OffersTypes
  <2>. QED  BY <1>1, <1>2, <1>3, <2>1, <2>2 DEF OffersTypes
<1>5. \A t \in transfers : t.ends \in 0 .. made
  BY DEF OffersInv, OffersTypes, Reads, Ends
<1>6. BestAsked /\ OwnedIs(clip.offer) /\ EndsOnce /\ DragOver
  BY OwnedParts DEF OffersInv
<1>7. BestAsked'
  BY <1>2, BestOfNone DEF BestAsked
<1>8. OwnedIs(clip.offer)'
  <2>. SUFFICES ASSUME NEW o \in 1 .. MaxOffers
                PROVE  destroyed'[o] = IF /\ o \in 1 .. made' /\ o # clip'.offer
                                          /\ \A t \in transfers' : t.ends # o
                                       THEN 1 ELSE 0
    BY DEF OwnedIs
  <2>1. destroyed[o] = IF o \in 1 .. made /\ o # clip.offer /\ \A t \in transfers : t.ends # o
                       THEN 1 ELSE 0
    BY <1>6 DEF OwnedIs
  <2>2. destroyed'[o] = destroyed[o] + (IF o = clip.offer THEN 1 ELSE 0)
    BY <1>3
  <2>3. CASE o = clip.offer
    <3>1. \A t \in transfers : t.ends # o
      BY <1>6, <2>3 DEF EndsOnce, NoOffer
    <3>2. o \in 1 .. made' /\ o # clip'.offer
      BY <1>1, <1>2, <2>3
    <3>. QED  BY <1>2, <2>1, <2>2, <2>3, <3>1, <3>2
  <2>4. CASE o # clip.offer /\ o \in 1 .. made
    BY <1>1, <1>2, <2>1, <2>2, <2>4
  <2>5. CASE o # clip.offer /\ o \notin 1 .. made
    <3>1. o \notin 1 .. made' \/ o = clip'.offer
      BY <1>1, <1>2, <2>5
    <3>. QED  BY <1>2, <2>1, <2>2, <2>5, <3>1
  <2>. QED  BY <2>3, <2>4, <2>5
<1>9. EndsOnce'
  BY <1>1, <1>2, <1>5, <1>6 DEF EndsOnce
<1>10. DragOver'
  BY <1>2 DEF DragOver
<1>11. Announced'
  BY <1>1, <1>2 DEF Announced, NoOffer
<1>. QED  BY <1>4, <1>7, <1>8, <1>9, <1>10, <1>11, OwnedPartsNext DEF OffersInv

LEMMA OfferInv == ASSUME OffersInv, Offer PROVE OffersInv'
<1>1. PICK t \in Types : /\ types' = Append(types, t)
                         /\ clip' = [clip EXCEPT !.mime = Preferred(clip.mime, t)]
  BY DEF Offer
<1>2. UNCHANGED <<made, drag, transfers, destroyed>> /\ newest = "new"
  BY DEF Offer
<1>3. /\ clip \in [offer : {0, made}, mime : Mimes, window : Windows \cup {NoWindow}]
      /\ types \in Seq(Types) /\ made \in Nat
  BY OffersAssumption DEF OffersInv, OffersTypes
<1>4. Preferred(clip.mime, t) \in Mimes
  BY <1>3, BestIsMime
<1>5. /\ clip' \in [offer : {0, made}, mime : Mimes, window : Windows \cup {NoWindow}]
      /\ clip'.offer = clip.offer /\ clip'.window = clip.window
      /\ clip'.mime = Preferred(clip.mime, t)
      /\ types' \in Seq(Types)
  BY <1>1, <1>3, <1>4
<1>6. OffersTypes'
  BY <1>2, <1>5 DEF OffersInv, OffersTypes, Reads, Ends
<1>7. BestAsked /\ OwnedIs(clip.offer) /\ EndsOnce /\ DragOver
  BY OwnedParts DEF OffersInv
<1>8. BestAsked'
  <2>1. clip.offer # NoOffer /\ clip.window = NoWindow
    BY <1>2 DEF OffersInv, Announced
  <2>2. Best(clip.mime, types)
    BY <1>7, <2>1 DEF BestAsked
  <2>3. Best(Preferred(clip.mime, t), Append(types, t))
    BY <1>3, <2>2, PreferredIsBest
  <2>. QED  BY <1>1, <1>5, <2>1, <2>3 DEF BestAsked
<1>9. OwnedIs(clip.offer)' /\ EndsOnce' /\ DragOver'
  BY <1>2, <1>5, <1>7 DEF OwnedIs, EndsOnce, DragOver
<1>10. Announced'
  BY <1>2, <1>5 DEF OffersInv, Announced
<1>. QED  BY <1>6, <1>8, <1>9, <1>10, OwnedPartsNext DEF OffersInv

LEMMA SelectionNoneInv == ASSUME OffersInv, SelectionNone PROVE OffersInv'
<1>1. /\ made \in Nat /\ MaxOffers \in Nat /\ made <= MaxOffers
      /\ clip.offer \in 0 .. made /\ clip.offer # NoOffer
  BY OffersAssumption DEF OffersInv, OffersTypes, SelectionNone
<1>2. /\ clip' = NoClip /\ newest' = "said" /\ UNCHANGED <<made, types, drag, transfers>>
      /\ destroyed' = Destroyed(clip.offer)
  BY DEF SelectionNone
<1>3. /\ destroyed' \in [1 .. MaxOffers -> Nat]
      /\ \A o \in 1 .. MaxOffers :
           destroyed'[o] = destroyed[o] + (IF o = clip.offer THEN 1 ELSE 0)
  BY <1>2, DestroyedIs DEF OffersInv
<1>4. OffersTypes'
  BY <1>1, <1>2, <1>3, NoOffers DEF OffersInv, OffersTypes, Reads, Ends
<1>6. BestAsked /\ OwnedIs(clip.offer) /\ EndsOnce /\ DragOver
  BY OwnedParts DEF OffersInv
<1>7. OwnedIs(clip.offer)'
  <2>. SUFFICES ASSUME NEW o \in 1 .. MaxOffers
                PROVE  destroyed'[o] = IF /\ o \in 1 .. made' /\ o # clip'.offer
                                          /\ \A t \in transfers' : t.ends # o
                                       THEN 1 ELSE 0
    BY DEF OwnedIs
  <2>1. destroyed[o] = IF o \in 1 .. made /\ o # clip.offer /\ \A t \in transfers : t.ends # o
                       THEN 1 ELSE 0
    BY <1>6 DEF OwnedIs
  <2>2. destroyed'[o] = destroyed[o] + (IF o = clip.offer THEN 1 ELSE 0)
    BY <1>3
  <2>3. clip'.offer = 0
    BY <1>2, NoOffers DEF NoOffer
  <2>4. CASE o = clip.offer
    <3>1. \A t \in transfers : t.ends # o
      BY <1>1, <1>6, <2>4 DEF EndsOnce
    <3>. QED  BY <1>1, <1>2, <2>1, <2>2, <2>3, <2>4, <3>1
  <2>5. CASE o # clip.offer
    BY <1>1, <1>2, <2>1, <2>2, <2>3, <2>5
  <2>. QED  BY <2>4, <2>5
<1>8. EndsOnce'
  <2>. SUFFICES ASSUME NEW t \in transfers
                PROVE  /\ Best(t.mime, t.of)
                       /\ t.ends # NoOffer => t.ends # clip'.offer
                       /\ \A u \in transfers : t.ends = u.ends /\ t.ends # NoOffer => t = u
    BY <1>2 DEF EndsOnce
  <2>. QED  BY <1>2, <1>6, NoOffers DEF EndsOnce
<1>9. BestAsked' /\ DragOver' /\ Announced'
  BY <1>2, NoOffers DEF BestAsked, DragOver, Announced
<1>. QED  BY <1>4, <1>7, <1>8, <1>9, OwnedPartsNext DEF OffersInv

\* The window and the drag change, and nothing that the offers hang on.
LEMMA OverInv ==
  ASSUME OffersInv, Selection \/ Enter \/ Leave PROVE OffersInv'
<1>1. /\ clip \in [offer : {0, made}, mime : Mimes, window : Windows \cup {NoWindow}]
      /\ made \in Nat
  BY OffersAssumption DEF OffersInv, OffersTypes
<1>2. UNCHANGED <<made, types, pasting, transfers, destroyed>>
  BY DEF Selection, Enter, Leave
<1>3. /\ clip' \in [offer : {0, made}, mime : Mimes, window : Windows \cup {NoWindow}]
      /\ clip'.offer = clip.offer /\ clip'.mime = clip.mime
  <2>1. CASE Selection \/ Leave
    BY <1>1, <2>1 DEF Selection, Leave
  <2>2. CASE Enter
    <3>1. PICK w \in Windows \cup {NoWindow} : clip' = [clip EXCEPT !.window = w]
      BY <2>2 DEF Enter
    <3>. QED  BY <1>1, <3>1
  <2>. QED  BY <2>1, <2>2
<1>4. drag' \in [offer : 0 .. made, window : Windows \cup {NoWindow}, accepted : BOOLEAN]
  <2>1. CASE Selection
    BY <2>1 DEF OffersInv, OffersTypes, Selection
  <2>2. CASE Leave
    BY <1>1, <2>2 DEF Leave, NoDrag, NoOffer
  <2>3. CASE Enter
    <3>1. PICK w \in Windows, grid \in BOOLEAN :
            drag' = [offer |-> clip.offer, window |-> w,
                     accepted |-> clip.mime # "unset" /\ grid /\ w \notin pasting]
      BY <2>3 DEF Enter
    <3>2. clip.offer \in 0 .. made
      BY <1>1
    <3>3. (clip.mime # "unset" /\ grid /\ w \notin pasting) \in BOOLEAN
      OBVIOUS
    <3>. QED  BY <3>1, <3>2, <3>3
  <2>. QED  BY <2>1, <2>2, <2>3
<1>5. OffersTypes'
  BY <1>2, <1>3, <1>4 DEF OffersInv, OffersTypes, Reads, Ends
<1>6. BestAsked /\ OwnedIs(clip.offer) /\ EndsOnce /\ DragOver
  BY OwnedParts DEF OffersInv
<1>7. BestAsked' /\ OwnedIs(clip.offer)' /\ EndsOnce'
  BY <1>2, <1>3, <1>6 DEF BestAsked, OwnedIs, EndsOnce
<1>8. DragOver'
  <2>1. CASE Selection
    BY <1>6, <2>1 DEF Selection, DragOver
  <2>2. CASE Leave
    BY <2>2, NoOffers DEF Leave, DragOver
  <2>3. CASE Enter
    <3>1. PICK w \in Windows, grid \in BOOLEAN :
            LET accepted == clip.mime # "unset" /\ grid /\ w \notin pasting
            IN  /\ clip' = [clip EXCEPT !.window = IF accepted THEN w ELSE NoWindow]
                /\ drag' = [offer |-> clip.offer, window |-> w, accepted |-> accepted]
      BY <2>3 DEF Enter
    <3>2. drag'.window = w /\ drag'.offer = clip.offer
      BY <3>1
    <3>3. clip'.window \in {w, NoWindow}
      BY <1>1, <3>1
    <3>. QED  BY <1>3, <3>2, <3>3 DEF DragOver
  <2>. QED  BY <2>1, <2>2, <2>3
<1>9. Announced'
  <2>1. CASE Selection \/ Enter
    BY <2>1 DEF Selection, Enter, Announced
  <2>2. CASE Leave
    BY <1>1, <1>3, <2>2 DEF OffersInv, Leave, Announced
  <2>. QED  BY <2>1, <2>2
<1>. QED  BY <1>5, <1>7, <1>8, <1>9, OwnedPartsNext DEF OffersInv

\* A transfer begins; a drop takes the offer with it.
LEMMA TransferInv ==
  ASSUME OffersInv, NEW w \in Windows,
         clip.offer # NoOffer, clip.mime # "unset",
         NEW ends \in {NoOffer, clip.offer},
         ends = clip.offer => clip' = HandedOver /\ clip.window # NoWindow /\ drag' = NoDrag,
         ends = NoOffer => clip' = clip /\ drag' = drag,
         transfers' = transfers \cup
            {[term |-> w, mime |-> clip.mime, of |-> types, ends |-> ends]},
         UNCHANGED <<made, types, newest, destroyed>>
  PROVE  OffersInv'
<1>. DEFINE new == [term |-> w, mime |-> clip.mime, of |-> types, ends |-> ends]
<1>1. /\ clip \in [offer : {0, made}, mime : Mimes, window : Windows \cup {NoWindow}]
      /\ made \in Nat /\ types \in Seq(Types) /\ ends \in 0 .. made
  BY OffersAssumption DEF OffersInv, OffersTypes, NoOffer
<1>2. new \in Reads /\ new.ends = ends /\ new.mime = clip.mime /\ new.of = types
  BY <1>1 DEF Reads, Ends
<1>3. transfers' = transfers \cup {new}
  OBVIOUS
<1>. HIDE DEF new
<1>4. /\ clip' \in [offer : {0, made}, mime : Mimes, window : Windows \cup {NoWindow}]
      /\ clip'.window = clip.window
      /\ ends = clip.offer => clip'.offer = NoOffer /\ clip'.mime = "unset"
      /\ ends = NoOffer => clip'.offer = clip.offer /\ clip'.mime = clip.mime
  BY <1>1 DEF HandedOver, NoOffer, Mimes
<1>5. drag' \in [offer : 0 .. made, window : Windows \cup {NoWindow}, accepted : BOOLEAN]
  <2>1. drag' = NoDrag \/ drag' = drag
    OBVIOUS
  <2>2. NoDrag \in [offer : 0 .. made, window : Windows \cup {NoWindow}, accepted : BOOLEAN]
    BY <1>1 DEF NoDrag, NoOffer
  <2>3. drag \in [offer : 0 .. made, window : Windows \cup {NoWindow}, accepted : BOOLEAN]
    BY DEF OffersInv, OffersTypes
  <2>. QED  BY <2>1, <2>2, <2>3
<1>6. OffersTypes'
  BY <1>2, <1>3, <1>4, <1>5 DEF OffersInv, OffersTypes, Reads, Ends
<1>7. BestAsked /\ OwnedIs(clip.offer) /\ EndsOnce /\ DragOver
  BY OwnedParts DEF OffersInv
<1>8. BestAsked'
  BY <1>4, <1>7 DEF BestAsked
<1>9. OwnedIs(clip.offer)'
  <2>. SUFFICES ASSUME NEW o \in 1 .. MaxOffers
                PROVE  destroyed[o] = IF /\ o \in 1 .. made /\ o # clip'.offer
                                         /\ \A t \in transfers' : t.ends # o
                                      THEN 1 ELSE 0
    BY DEF OwnedIs
  <2>1. destroyed[o] = IF o \in 1 .. made /\ o # clip.offer /\ \A t \in transfers : t.ends # o
                       THEN 1 ELSE 0
    BY <1>7 DEF OwnedIs
  <2>2. (\A t \in transfers' : t.ends # o) <=> (\A t \in transfers : t.ends # o) /\ ends # o
    BY <1>2, <1>3
  <2>3. o # clip'.offer /\ ends # o <=> o # clip.offer
    BY <1>4 DEF NoOffer
  <2>. QED  BY <2>1, <2>2, <2>3
<1>10. EndsOnce'
  <2>. SUFFICES ASSUME NEW t \in transfers'
                PROVE  /\ Best(t.mime, t.of)
                       /\ t.ends # NoOffer => t.ends # clip'.offer
                       /\ \A u \in transfers' : t.ends = u.ends /\ t.ends # NoOffer => t = u
    BY DEF EndsOnce
  <2>1. Best(t.mime, t.of)
    BY <1>2, <1>3, <1>7 DEF EndsOnce, BestAsked
  <2>2. t.ends # NoOffer => t.ends # clip'.offer
    BY <1>2, <1>3, <1>4, <1>7 DEF EndsOnce
  <2>3. ASSUME NEW u \in transfers', t.ends = u.ends, t.ends # NoOffer PROVE t = u
    BY <1>2, <1>3, <1>7, <2>3 DEF EndsOnce
  <2>. QED  BY <2>1, <2>2, <2>3
<1>11. DragOver'
  <2>1. CASE ends = clip.offer
    BY <2>1, NoOffers DEF DragOver
  <2>2. CASE ends = NoOffer
    BY <1>4, <1>7, <2>2 DEF DragOver
  <2>. QED  BY <2>1, <2>2
<1>12. Announced'
  BY <1>4 DEF OffersInv, Announced
<1>. QED  BY <1>6, <1>8, <1>9, <1>10, <1>11, <1>12, OwnedPartsNext DEF OffersInv

LEMMA DropInv == ASSUME OffersInv, Drop PROVE OffersInv'
<1>1. /\ clip.window # NoWindow /\ drag' = NoDrag
      /\ UNCHANGED <<made, types, newest, destroyed>>
  BY DEF Drop
<1>2. BestAsked
  BY OwnedParts DEF OffersInv
<1>3. CASE UNCHANGED <<clip, pasting, transfers>>
  <2>1. OffersTypes'
    BY <1>1, <1>3 DEF OffersInv, OffersTypes, Reads, Ends, NoDrag, NoOffer
  <2>2. BestAsked' /\ OwnedIs(clip.offer)' /\ EndsOnce' /\ DragOver' /\ Announced'
    BY <1>1, <1>3, OwnedParts, NoOffers
       DEF OffersInv, BestAsked, OwnedIs, EndsOnce, DragOver, Announced
  <2>. QED  BY <2>1, <2>2, OwnedPartsNext DEF OffersInv
<1>4. CASE ~UNCHANGED <<clip, pasting, transfers>>
  <2>1. /\ clip.mime # "unset" /\ clip' = HandedOver
        /\ transfers' = transfers \cup
              {[term |-> clip.window, mime |-> clip.mime, of |-> types, ends |-> clip.offer]}
    BY <1>4 DEF Drop
  <2>2. clip.offer # NoOffer
    BY <1>2, <2>1 DEF BestAsked
  <2>3. clip.window \in Windows
    BY <1>1 DEF OffersInv, OffersTypes
  <2>. QED  BY <1>1, <2>1, <2>2, <2>3, TransferInv
<1>. QED  BY <1>3, <1>4

LEMMA PasteInv == ASSUME OffersInv, Paste PROVE OffersInv'
<1>1. PICK w \in Windows :
        /\ clip.offer # NoOffer /\ clip.mime # "unset"
        /\ transfers' = transfers \cup
              {[term |-> w, mime |-> clip.mime, of |-> types, ends |-> NoOffer]}
        /\ UNCHANGED <<clip, made, types, newest, drag, destroyed>>
  BY DEF Paste
<1>. QED  BY <1>1, TransferInv

\* The transfer's offer goes with it, and nobody else's does.
LEMMA DoneInv == ASSUME OffersInv, Done PROVE OffersInv'
<1>1. PICK t \in transfers :
        /\ transfers' = transfers \ {t}
        /\ destroyed' = Destroyed(t.ends)
        /\ UNCHANGED <<clip, made, types, newest, drag>>
  BY DEF Done
<1>2. /\ destroyed' \in [1 .. MaxOffers -> Nat]
      /\ \A o \in 1 .. MaxOffers :
           destroyed'[o] = destroyed[o] + (IF o = t.ends THEN 1 ELSE 0)
  BY <1>1, DestroyedIs DEF OffersInv
<1>3. OffersTypes'
  BY <1>1, <1>2 DEF OffersInv, OffersTypes, Reads, Ends
<1>4. BestAsked /\ OwnedIs(clip.offer) /\ EndsOnce /\ DragOver
  BY OwnedParts DEF OffersInv
<1>5. t.ends \in 0 .. made /\ made \in Nat
  BY OffersAssumption DEF OffersInv, OffersTypes, Reads, Ends
<1>6. OwnedIs(clip.offer)'
  <2>. SUFFICES ASSUME NEW o \in 1 .. MaxOffers
                PROVE  destroyed'[o] = IF /\ o \in 1 .. made /\ o # clip.offer
                                          /\ \A u \in transfers' : u.ends # o
                                       THEN 1 ELSE 0
    BY <1>1 DEF OwnedIs
  <2>1. destroyed[o] = IF o \in 1 .. made /\ o # clip.offer /\ \A u \in transfers : u.ends # o
                       THEN 1 ELSE 0
    BY <1>4 DEF OwnedIs
  <2>2. destroyed'[o] = destroyed[o] + (IF o = t.ends THEN 1 ELSE 0)
    BY <1>2
  <2>3. CASE o = t.ends
    <3>1. o \in 1 .. made /\ o # clip.offer /\ \A u \in transfers' : u.ends # o
      BY <1>1, <1>4, <1>5, <2>3 DEF EndsOnce, NoOffer
    <3>2. ~(\A u \in transfers : u.ends # o)
      BY <2>3
    <3>. QED  BY <2>1, <2>2, <2>3, <3>1, <3>2
  <2>4. CASE o # t.ends
    <3>1. (\A u \in transfers' : u.ends # o) <=> (\A u \in transfers : u.ends # o)
      BY <1>1, <2>4
    <3>. QED  BY <2>1, <2>2, <2>4, <3>1
  <2>. QED  BY <2>3, <2>4
<1>7. EndsOnce'
  BY <1>1, <1>4 DEF EndsOnce
<1>8. BestAsked' /\ DragOver' /\ Announced'
  BY <1>1, <1>4 DEF OffersInv, BestAsked, DragOver, Announced
<1>. QED  BY <1>3, <1>6, <1>7, <1>8, OwnedPartsNext DEF OffersInv

LEMMA OffersNextInv == OffersInv /\ [OffersNext]_offersVars => OffersInv'
<1>1. ASSUME OffersInv, UNCHANGED offersVars PROVE OffersInv'
  <2>1. OffersTypes'
    BY <1>1 DEF offersVars, OffersInv, OffersTypes, Reads, Ends
  <2>2. BestAsked' /\ OwnedIs(clip.offer)' /\ EndsOnce' /\ DragOver' /\ Announced'
    BY <1>1, OwnedParts
       DEF offersVars, OffersInv, BestAsked, OwnedIs, EndsOnce, DragOver, Announced
  <2>. QED  BY <2>1, <2>2, OwnedPartsNext DEF OffersInv
<1>. QED  BY <1>1, DataOfferInv, OfferInv, SelectionNoneInv, OverInv, DropInv, PasteInv, DoneInv
          DEF OffersNext

\* The seat's offer and the transfers keep their offers apart.
THEOREM OffersInvHolds == OffersSpec => []OffersInv
<1>. QED  BY OffersInitInv, OffersNextInv, PTL DEF OffersSpec

\* Each offer has one owner and is destroyed once, after its transfer; what is
\* asked for is the best it has.
THEOREM OffersAreOwned == OffersSpec => []OffersOwned
<1>1. OffersInv => OffersOwned
  BY DEF OffersInv
<1>. QED  BY <1>1, OffersInvHolds, PTL

-----------------------------------------------------------------------------
(***************************************************************************)
(* Resize.  That the size settles needs the shape of the terminal: while an*)
(* interactive resize is under way, the stash keeps what the application   *)
(* asked for, and the grid that is shown, kept or stashed, has the rows    *)
(* that the window gave it.                                                *)
(***************************************************************************)

Selections == [row : Int, kind : {"none", "char"}]
Stashes == [rows : Int, hide : BOOLEAN]
Grids == [rows : Int, whole : BOOLEAN]
Terminals ==
    [height : Int, stashed : Int, cell : Cells, rows : Int, onAlt : BOOLEAN, alt : Int,
     normal : Grids, hide : BOOLEAN, paused : BOOLEAN, stash : Stashes \cup {NoStash},
     selection : Selections, saved : Selections,
     interim : BOOLEAN, shutdown : BOOLEAN, aborted : BOOLEAN]

ResizeTypes ==
    /\ win \in [configured : BOOLEAN, floating : BOOLEAN, resizing : BOOLEAN]
    /\ delayTimer \in BOOLEAN
    /\ term \in Terminals
    /\ app \in [rows : Int, hide : BOOLEAN]

\* Stashed or not, the grids fit the terminal, and what the stash keeps, or the
\* terminal if nothing is stashed, is what the application asked for.
Shaped(t, hide) ==
    /\ t.paused <=> t.stash # NoStash
    /\ t.alt = t.rows /\ t.normal.rows = t.rows
    /\ t.stash = NoStash => t.normal.whole /\ (t.hide <=> hide)
    /\ t.stash # NoStash => (t.stash.hide <=> hide)

ResizeInv ==
    /\ ResizeTypes
    /\ Shaped(term, app.hide)
    /\ term.stash # NoStash => delayTimer
    /\ delayTimer \/ term.shutdown \/ app.rows = term.rows

\* The fields that matter are the same.
Alike(t, u) ==
    /\ t.rows = u.rows /\ t.alt = u.alt /\ t.normal = u.normal /\ t.stash = u.stash
    /\ (t.hide <=> u.hide) /\ (t.paused <=> u.paused) /\ (t.shutdown <=> u.shutdown)

LEMMA AlikeShaped ==
  ASSUME NEW t, NEW u, Alike(t, u), NEW hide, Shaped(u, hide)
  PROVE  Shaped(t, hide)
BY DEF Alike, Shaped

LEMMA CancelledAlike ==
  ASSUME NEW t \in Terminals
  PROVE  SelectionCancelled(t) \in Terminals /\ Alike(SelectionCancelled(t), t)
<1>1. NoSelection \in Selections
  BY DEF NoSelection, Selections
<1>2. (t.selection.row >= 0 /\ t.selection.kind = "none") \in BOOLEAN
  OBVIOUS
<1>3. SelectionCancelled(t) \in Terminals
  BY <1>1, <1>2 DEF SelectionCancelled, Terminals
<1>. QED  BY <1>3 DEF SelectionCancelled, Terminals, Alike

LEMMA ReflowShaped ==
  ASSUME NEW t \in Terminals, NEW hide \in BOOLEAN, Shaped(t, hide)
  PROVE  /\ DelayedReflow(t) \in Terminals
         /\ Shaped(DelayedReflow(t), hide)
         /\ DelayedReflow(t).stash = NoStash /\ DelayedReflow(t).rows = t.rows
         /\ DelayedReflow(t).shutdown <=> t.shutdown
<1>1. CASE t.stash = NoStash
  BY <1>1 DEF DelayedReflow
<1>2. CASE t.stash # NoStash
  <2>1. t.stash \in Stashes
    BY <1>2 DEF Terminals
  <2>. DEFINE u == Unstashed(t)
  <2>2. /\ u \in Terminals /\ u.normal = [rows |-> t.rows, whole |-> TRUE]
        /\ (u.hide <=> t.stash.hide) /\ u.stash = NoStash /\ u.rows = t.rows /\ u.alt = t.alt
        /\ (u.shutdown <=> t.shutdown)
    <3>1. [rows |-> t.rows, whole |-> TRUE] \in Grids /\ t.stash.hide \in BOOLEAN
      BY <2>1 DEF Terminals, Grids, Stashes
    <3>. QED  BY <3>1 DEF Unstashed, Terminals
  <2>3. DelayedReflow(t) = [u EXCEPT !.paused = FALSE]
    BY <1>2 DEF DelayedReflow
  <2>. HIDE DEF u
  <2>4. DelayedReflow(t) \in Terminals
    BY <2>2, <2>3 DEF Terminals
  <2>5. /\ DelayedReflow(t).normal = u.normal /\ DelayedReflow(t).hide = u.hide
        /\ DelayedReflow(t).stash = u.stash /\ DelayedReflow(t).rows = u.rows
        /\ DelayedReflow(t).alt = u.alt /\ DelayedReflow(t).shutdown = u.shutdown
        /\ DelayedReflow(t).paused = FALSE
    BY <2>2, <2>3 DEF Terminals
  <2>. QED  BY <1>2, <2>2, <2>4, <2>5 DEF Shaped
<1>. QED  BY <1>1, <1>2

LEMMA StashedShaped ==
  ASSUME NEW t \in Terminals, NEW hide \in BOOLEAN, Shaped(t, hide)
  PROVE  /\ Stashed(t) \in Terminals
         /\ Stashed(t).paused /\ Stashed(t).stash \in Stashes
         /\ Stashed(t).stash.hide <=> hide
<1>. DEFINE kept == [rows |-> t.rows, hide |-> t.hide]
<1>1. kept \in Stashes /\ (kept.hide <=> t.hide)
  BY DEF Stashes, Terminals
<1>2. CASE t.stash = NoStash
  <2>1. Stashed(t) = StashShown(t)
    BY <1>2 DEF Stashed
  <2>2. t.saved \in Selections /\ t.selection \in Selections
    BY DEF Terminals
  <2>3. StashShown(t) \in Terminals /\ StashShown(t).paused /\ StashShown(t).stash = kept
    <3>. HIDE DEF kept
    <3>1. StashShown(t) = [t EXCEPT !.paused = TRUE, !.stash = kept,
                                    !.saved = IF t.onAlt THEN t.saved ELSE t.selection]
      BY DEF StashShown, kept
    <3>. QED  BY <1>1, <2>2, <3>1 DEF Terminals
  <2>. QED  BY <1>1, <1>2, <2>1, <2>3 DEF Shaped
<1>3. CASE t.stash # NoStash
  BY <1>3 DEF Stashed, Shaped, Terminals
<1>. QED  BY <1>2, <1>3

LEMMA TruncatedFields ==
  ASSUME NEW t \in Terminals, NEW hide \in BOOLEAN, Shaped(t, hide), NEW rows \in Int
  PROVE  /\ Truncated(t, rows) \in Terminals
         /\ Truncated(t, rows).paused /\ Truncated(t, rows).stash \in Stashes
         /\ Truncated(t, rows).stash.hide <=> hide
         /\ Truncated(t, rows).normal.rows = rows
<1>. DEFINE s == Stashed(t)  grid == [rows |-> rows, whole |-> FALSE]
            shift == Shifted(s.selection)
<1>1. s \in Terminals /\ s.paused /\ s.stash \in Stashes /\ (s.stash.hide <=> hide)
  BY StashedShaped
<1>2. grid \in Grids /\ grid.rows = rows
  BY DEF Grids
<1>3. shift \in Selections
  <2>1. s.selection \in Selections
    BY <1>1 DEF Terminals
  <2>. HIDE DEF s
  <2>. QED  BY <2>1, ResizeAssumption DEF Shifted, Selections
<1>4. Truncated(t, rows) = [s EXCEPT !.normal = grid, !.hide = TRUE, !.selection = shift]
  BY DEF Truncated
<1>. HIDE DEF s, grid, shift
<1>. QED  BY <1>1, <1>2, <1>3, <1>4 DEF Terminals

LEMMA WholeFields ==
  ASSUME NEW t \in Terminals, NEW rows \in Int,
         t.stash # NoStash \/ ~t.paused
  PROVE  /\ Whole(t, rows) \in Terminals
         /\ ~Whole(t, rows).paused /\ Whole(t, rows).stash = NoStash
         /\ Whole(t, rows).normal.rows = rows /\ Whole(t, rows).normal.whole
         /\ Whole(t, rows).hide <=> IF t.stash = NoStash THEN t.hide ELSE t.stash.hide
<1>. DEFINE grid == [rows |-> rows, whole |-> TRUE]
            r == [t EXCEPT !.normal = grid]
<1>1. grid \in Grids /\ grid.rows = rows /\ grid.whole
  BY DEF Grids
<1>2. /\ r \in Terminals /\ r.normal = grid
      /\ (r.hide <=> t.hide) /\ (r.paused <=> t.paused) /\ r.stash = t.stash
  <2>. HIDE DEF grid
  <2>. QED  BY <1>1 DEF Terminals
<1>3. NoSelection \in Selections
  BY DEF NoSelection, Selections
<1>. HIDE DEF r, grid
<1>4. CASE t.stash = NoStash
  <2>1. Whole(t, rows) = r
    BY <1>4 DEF Whole, r, grid
  <2>. QED  BY <1>1, <1>2, <1>4, <2>1
<1>5. CASE t.stash # NoStash
  <2>1. Whole(t, rows) = [r EXCEPT !.hide = t.stash.hide, !.selection = t.saved,
                                   !.saved = NoSelection, !.stash = NoStash, !.paused = FALSE]
    BY <1>5 DEF Whole, r, grid
  <2>2. t.stash.hide \in BOOLEAN /\ t.saved \in Selections
    BY <1>5 DEF Terminals, Stashes
  <2>3. Whole(t, rows) \in Terminals
    BY <1>2, <1>3, <2>1, <2>2 DEF Terminals
  <2>4. /\ Whole(t, rows).stash = NoStash /\ Whole(t, rows).paused = FALSE
        /\ Whole(t, rows).normal = grid /\ Whole(t, rows).hide = t.stash.hide
    BY <1>2, <2>1 DEF Terminals
  <2>. QED  BY <1>1, <1>5, <2>3, <2>4
<1>. QED  BY <1>4, <1>5

LEMMA RegriddedShaped ==
  ASSUME NEW t \in Terminals, NEW hide \in BOOLEAN, Shaped(t, hide), NEW rows \in Int
  PROVE  Regridded(t, rows) \in Terminals /\ Shaped(Regridded(t, rows), hide)
<1>. DEFINE first  == IF Drags THEN Truncated(t, rows) ELSE t
            second == IF t.onAlt THEN SelectionCancelled(first) ELSE first
            third  == IF Drags THEN second ELSE Whole(second, rows)
<1>1. /\ first \in Terminals
      /\ (first.paused <=> first.stash # NoStash)
      /\ first.stash = NoStash => (first.hide <=> hide)
      /\ first.stash # NoStash => (first.stash.hide <=> hide)
      /\ Drags => first.stash # NoStash /\ first.normal.rows = rows
  <2>1. CASE Drags
    <3>1. first = Truncated(t, rows)
      BY <2>1
    <3>2. \A s \in Stashes : s # NoStash
      BY ResizeAssumption DEF Stashes
    <3>. QED  BY <3>1, <3>2, TruncatedFields
  <2>2. CASE ~Drags
    BY <2>2 DEF Shaped
  <2>. QED  BY <2>1, <2>2
<1>2. second \in Terminals /\ Alike(second, first)
  <2>. HIDE DEF first
  <2>1. CASE t.onAlt
    BY <1>1, <2>1, CancelledAlike
  <2>2. CASE ~t.onAlt
    BY <1>1, <2>2 DEF Alike
  <2>. QED  BY <2>1, <2>2
<1>. HIDE DEF first, second
<1>3. /\ third \in Terminals /\ third.normal.rows = rows
      /\ (third.paused <=> third.stash # NoStash)
      /\ third.stash = NoStash => third.normal.whole /\ (third.hide <=> hide)
      /\ third.stash # NoStash => (third.stash.hide <=> hide)
  <2>1. CASE Drags
    BY <1>1, <1>2, <2>1 DEF Alike
  <2>2. CASE ~Drags
    <3>1. second.stash # NoStash \/ ~second.paused
      BY <1>1, <1>2 DEF Alike
    <3>2. IF second.stash = NoStash THEN (second.hide <=> hide) ELSE (second.stash.hide <=> hide)
      BY <1>1, <1>2 DEF Alike
    <3>3. third = Whole(second, rows)
      BY <2>2
    <3>. QED  BY <1>2, <3>1, <3>2, <3>3, WholeFields
  <2>. QED  BY <2>1, <2>2
<1>4. Regridded(t, rows) = [third EXCEPT !.alt = rows, !.rows = rows]
  BY DEF Regridded, first, second
<1>. HIDE DEF third
<1>5. Regridded(t, rows) \in Terminals
  BY <1>3, <1>4 DEF Terminals
<1>6. /\ Regridded(t, rows).alt = rows /\ Regridded(t, rows).rows = rows
      /\ Regridded(t, rows).normal = third.normal /\ Regridded(t, rows).stash = third.stash
      /\ Regridded(t, rows).paused = third.paused /\ Regridded(t, rows).hide = third.hide
  BY <1>3, <1>4 DEF Terminals
<1>. QED  BY <1>3, <1>5, <1>6 DEF Shaped

\* What is left to show of a step, once the terminal is shaped.
LEMMA SendDimensionsKeeps ==
  ASSUME ResizeTypes, win' \in [configured : BOOLEAN, floating : BOOLEAN, resizing : BOOLEAN],
         NEW t \in Terminals, Shaped(t, app.hide), SendDimensions(t)
  PROVE  ResizeInv'
<1>1. app \in [rows : Int, hide : BOOLEAN] /\ app.hide \in BOOLEAN
  BY DEF ResizeTypes
<1>2. CASE ToBeTold(t)
  BY <1>1, <1>2 DEF ToBeTold, ResizeInv, ResizeTypes
<1>3. CASE Told(t)
  <2>1. /\ term' \in Terminals /\ Shaped(term', app.hide)
        /\ term'.stash = NoStash /\ term'.rows = t.rows
    BY <1>1, <1>3, ReflowShaped DEF Told
  <2>2. t.rows \in Int
    BY DEF Terminals
  <2>3. app' \in [rows : Int, hide : BOOLEAN] /\ app'.rows = t.rows /\ app'.hide = app.hide
    BY <1>1, <1>3, <2>2 DEF Told
  <2>. QED  BY <1>3, <2>1, <2>3 DEF Told, ResizeInv, ResizeTypes
<1>. QED  BY <1>2, <1>3 DEF SendDimensions

LEMMA HeightIsInt ==
  ASSUME NEW t \in Terminals, NEW floating, NEW height \in Int, NEW opts
  PROVE  /\ Height(t, floating, height, opts) \in Int
         /\ Height(t, floating, height, opts) \div t.cell \in Int
<1>1. t.cell \in Nat \ {0} /\ t.rows \in Int /\ t.stashed \in Int
  BY ResizeAssumption DEF Terminals
<1>. DEFINE kept == IF floating /\ "keep grid" \in opts THEN t.rows * t.cell ELSE height
            chosen == CASE kept # 0      -> kept
                        [] t.stashed # 0 -> t.stashed
                        [] OTHER         -> ConfRows * t.cell
            least == IF chosen < t.cell THEN t.cell ELSE chosen
<1>2. kept \in Int
  <2>1. \A c, n \in Int : n * c \in Int
    OBVIOUS
  <2>2. t.rows * t.cell \in Int
    BY <1>1, <2>1
  <2>. QED  BY <2>2
<1>. HIDE DEF kept
<1>3. chosen \in Int
  BY <1>1, <1>2, ResizeAssumption
<1>. HIDE DEF chosen
<1>4. least \in Int
  BY <1>1, <1>3
<1>. HIDE DEF least
<1>5. \A n \in Int : n \div t.cell \in Int /\ (n \div t.cell) * t.cell \in Int
  <2>1. \A c \in Nat \ {0} : \A n \in Int : n \div c \in Int
    OBVIOUS
  <2>2. \A c, n \in Int : n * c \in Int
    OBVIOUS
  <2>. QED  BY <1>1, <2>1, <2>2
<1>6. Height(t, floating, height, opts) = IF floating /\ ByCells /\ "by cells" \in opts
                                          THEN (least \div t.cell) * t.cell ELSE least
  BY DEF Height, least, chosen, kept
<1>7. Height(t, floating, height, opts) \in Int
  BY <1>4, <1>5, <1>6
<1>. QED  BY <1>5, <1>7

LEMMA RenderResizeKeeps ==
  ASSUME ResizeInv, win' \in [configured : BOOLEAN, floating : BOOLEAN, resizing : BOOLEAN],
         NEW t \in Terminals, Alike(t, term), NEW height \in Int, NEW opts,
         RenderResize(t, height, opts)
  PROVE  ResizeInv'
<1>. DEFINE pixels == Height(t, win'.floating, height, opts)
            rows   == pixels \div t.cell
            sized  == [t EXCEPT !.height = pixels, !.interim = FALSE,
                                !.stashed = IF win'.floating THEN pixels ELSE t.stashed]
<1>1. pixels \in Int /\ rows \in Int
  BY HeightIsInt
<1>2. ResizeTypes /\ Shaped(t, app.hide) /\ app.hide \in BOOLEAN
  BY AlikeShaped DEF ResizeInv, ResizeTypes
<1>3. \/ term' = t /\ UNCHANGED <<delayTimer, app>>
      \/ SendDimensions(IF rows = t.rows THEN sized ELSE Regridded(sized, rows))
  BY DEF RenderResize
<1>. HIDE DEF pixels, rows
<1>4. CASE term' = t /\ UNCHANGED <<delayTimer, app>>
  BY <1>2, <1>4 DEF ResizeInv, ResizeTypes, Alike
<1>5. CASE SendDimensions(IF rows = t.rows THEN sized ELSE Regridded(sized, rows))
  <2>1. sized \in Terminals /\ Alike(sized, t)
    BY <1>1 DEF Terminals, Alike
  <2>2. Shaped(sized, app.hide)
    BY <1>2, <2>1, AlikeShaped
  <2>. HIDE DEF sized
  <2>3. Regridded(sized, rows) \in Terminals /\ Shaped(Regridded(sized, rows), app.hide)
    BY <1>1, <1>2, <2>1, <2>2, RegriddedShaped
  <2>. QED  BY <1>2, <1>5, <2>1, <2>2, <2>3, SendDimensionsKeeps
<1>. QED  BY <1>3, <1>4, <1>5

LEMMA ResizeInitInv == ResizeInit => ResizeInv
<1>. SUFFICES ASSUME ResizeInit PROVE ResizeInv
  OBVIOUS
<1>1. PICK cell \in Cells :
        term = [height |-> 0, stashed |-> 0, cell |-> cell, rows |-> 0,
                onAlt |-> FALSE, alt |-> 0, normal |-> [rows |-> 0, whole |-> TRUE],
                hide |-> FALSE, paused |-> FALSE, stash |-> NoStash,
                selection |-> NoSelection, saved |-> [row |-> 0, kind |-> "none"],
                interim |-> FALSE, shutdown |-> FALSE, aborted |-> FALSE]
  BY DEF ResizeInit
<1>2. /\ NoSelection \in Selections /\ [row |-> 0, kind |-> "none"] \in Selections
      /\ [rows |-> 0, whole |-> TRUE] \in Grids
  BY DEF NoSelection, Selections, Grids
<1>3. term \in Terminals
  BY <1>1, <1>2 DEF Terminals
<1>4. Shaped(term, FALSE) /\ term.rows = 0 /\ term.stash = NoStash
  BY <1>1 DEF Shaped
<1>5. /\ win \in [configured : BOOLEAN, floating : BOOLEAN, resizing : BOOLEAN]
      /\ app \in [rows : Int, hide : BOOLEAN] /\ app.hide = FALSE /\ app.rows = 0
      /\ delayTimer \in BOOLEAN
  <2>1. /\ win = [configured |-> FALSE, floating |-> TRUE, resizing |-> FALSE]
        /\ delayTimer = FALSE /\ app = [rows |-> 0, hide |-> FALSE]
    BY Zenon DEF ResizeInit
  <2>2. win \in [configured : BOOLEAN, floating : BOOLEAN, resizing : BOOLEAN]
    BY <2>1
  <2>3. app \in [rows : Int, hide : BOOLEAN] /\ app.rows = 0
    BY <2>1
  <2>4. app.hide = FALSE /\ delayTimer \in BOOLEAN
    BY Zenon, <2>1
  <2>. QED  BY <2>2, <2>3, <2>4
<1>. QED  BY <1>3, <1>4, <1>5 DEF ResizeInv, ResizeTypes, Shaped

LEMMA ResizeStepInv == ResizeInv /\ [ResizeNext]_resizeVars => ResizeInv'
<1>. SUFFICES ASSUME ResizeInv, [ResizeNext]_resizeVars PROVE ResizeInv'
  OBVIOUS
<1>. DEFINE WindowStates == [configured : BOOLEAN, floating : BOOLEAN, resizing : BOOLEAN]
<1>1. /\ ResizeTypes /\ Shaped(term, app.hide) /\ term \in Terminals
      /\ app \in [rows : Int, hide : BOOLEAN] /\ app.hide \in BOOLEAN
  BY DEF ResizeInv, ResizeTypes
<1>2. CASE SurfaceConfigure
  <2>1. PICK height \in Heights, floating \in BOOLEAN, resizing \in BOOLEAN :
          /\ win' = [configured |-> TRUE, floating |-> floating, resizing |-> resizing]
          /\ RenderResize(term, height, {"by cells"} \cup EndsDrag)
    BY <1>2 DEF SurfaceConfigure
  <2>2. win' \in WindowStates
    BY <2>1
  <2>3. height \in Int /\ Alike(term, term)
    BY ResizeAssumption DEF Alike
  <2>. QED  BY <1>1, <2>1, <2>2, <2>3, RenderResizeKeeps
<1>3. CASE CellChange
  <2>1. PICK cell \in Cells \ {term.cell}, opts \in {{"force"}, {"force", "keep grid"}} :
          /\ UNCHANGED win
          /\ RenderResize([term EXCEPT !.cell = cell], term.height, opts)
    BY <1>3 DEF CellChange
  <2>2. [term EXCEPT !.cell = cell] \in Terminals /\ Alike([term EXCEPT !.cell = cell], term)
        /\ term.height \in Int
    BY <1>1 DEF Terminals, Alike
  <2>3. win' \in WindowStates
    BY <1>1, <2>1 DEF ResizeTypes
  <2>. QED  BY <1>1, <2>1, <2>2, <2>3, RenderResizeKeeps
<1>4. CASE TimerFires
  <2>1. /\ term' \in Terminals /\ Shaped(term', app.hide)
        /\ term'.stash = NoStash /\ term'.rows = term.rows /\ (term'.shutdown <=> term.shutdown)
    BY <1>1, <1>4, ReflowShaped DEF TimerFires
  <2>2. term.rows \in Int
    BY <1>1 DEF Terminals
  <2>3. /\ app' \in [rows : Int, hide : BOOLEAN] /\ (app'.hide <=> app.hide)
        /\ term.shutdown \/ app'.rows = term.rows
    BY <1>1, <1>4, <2>2 DEF TimerFires
  <2>. QED  BY <1>1, <1>4, <2>1, <2>3 DEF TimerFires, ResizeInv, ResizeTypes, Shaped
<1>5. CASE Output
  <2>1. CASE term' = [SelectionCancelled(term) EXCEPT !.onAlt = ~term.onAlt] /\ UNCHANGED app
    <3>. DEFINE c == SelectionCancelled(term)
    <3>1. c \in Terminals /\ Alike(c, term)
      BY <1>1, CancelledAlike
    <3>2. term.onAlt \in BOOLEAN
      BY <1>1 DEF Terminals
    <3>. HIDE DEF c
    <3>3. term' = [c EXCEPT !.onAlt = ~term.onAlt]
      BY <2>1 DEF c
    <3>4. term' \in Terminals /\ Alike(term', term)
      BY <3>1, <3>2, <3>3 DEF Terminals, Alike
    <3>. QED  BY <1>1, <1>5, <2>1, <3>4, AlikeShaped DEF Output, ResizeInv, ResizeTypes, Alike
  <2>2. CASE term' = [term EXCEPT !.hide = ~term.hide] /\ app' = [app EXCEPT !.hide = ~app.hide]
    <3>1. /\ term' \in Terminals
          /\ term'.rows = term.rows /\ term'.alt = term.alt /\ term'.normal = term.normal
          /\ term'.stash = term.stash /\ (term'.hide <=> ~term.hide)
          /\ (term'.paused <=> term.paused) /\ (term'.shutdown <=> term.shutdown)
      BY <1>1, <2>2 DEF Terminals
    <3>2. app' \in [rows : Int, hide : BOOLEAN] /\ app'.rows = app.rows /\ (app'.hide <=> ~app.hide)
      BY <1>1, <2>2
    <3>3. term.stash = NoStash
      BY <1>1, <1>5 DEF Output, Shaped
    <3>. QED  BY <1>1, <1>5, <3>1, <3>2, <3>3 DEF Output, ResizeInv, ResizeTypes, Shaped
  <2>3. CASE term' = [term EXCEPT !.interim = TRUE] /\ UNCHANGED app
    <3>1. term' \in Terminals /\ Alike(term', term)
      BY <1>1, <2>3 DEF Terminals, Alike
    <3>. QED  BY <1>1, <1>5, <2>3, <3>1, AlikeShaped DEF Output, ResizeInv, ResizeTypes, Alike
  <2>. QED  BY <1>5, <2>1, <2>2, <2>3 DEF Output
<1>6. CASE UserInput
  <2>1. term' \in Terminals /\ Alike(term', term)
    <3>1. ASSUME NEW row \in Rows,
                 term' = [term EXCEPT !.selection = [row |-> row, kind |-> "char"]]
          PROVE  term' \in Terminals /\ Alike(term', term)
      <4>1. [row |-> row, kind |-> "char"] \in Selections
        BY ResizeAssumption DEF Selections
      <4>. QED  BY <1>1, <3>1, <4>1 DEF Terminals, Alike
    <3>2. CASE term' = SelectionCancelled(term)
      BY <1>1, <3>2, CancelledAlike
    <3>3. CASE term' = [term EXCEPT !.interim = ~term.interim]
      <4>1. term.interim \in BOOLEAN
        BY <1>1 DEF Terminals
      <4>. QED  BY <1>1, <3>3, <4>1 DEF Terminals, Alike
    <3>. QED  BY <1>6, <3>1, <3>2, <3>3 DEF UserInput
  <2>. QED  BY <1>1, <1>6, <2>1, AlikeShaped DEF UserInput, ResizeInv, ResizeTypes, Alike
<1>7. CASE TermShutdown
  <2>1. /\ term' \in Terminals
        /\ term'.rows = term.rows /\ term'.alt = term.alt /\ term'.normal = term.normal
        /\ term'.stash = term.stash /\ (term'.hide <=> term.hide)
        /\ (term'.paused <=> term.paused) /\ term'.shutdown
    BY <1>1, <1>7 DEF TermShutdown, Terminals
  <2>. QED  BY <1>1, <1>7, <2>1 DEF TermShutdown, ResizeInv, ResizeTypes, Shaped
<1>8. CASE UNCHANGED resizeVars
  BY <1>1, <1>8 DEF resizeVars, ResizeInv, ResizeTypes, Shaped
<1>. QED  BY <1>2, <1>3, <1>4, <1>5, <1>6, <1>7, <1>8 DEF ResizeNext

THEOREM ResizeInvHolds == ResizeSpec => []ResizeInv
<1>. QED  BY ResizeInitInv, ResizeStepInv, PTL DEF ResizeSpec

\* Output is held back exactly while a grid is stashed, and only with a timer armed that
\* brings it back; without one the grids are whole; the application knows the size or will.
THEOREM ResizesSettle == ResizeSpec => []ResizeSettles
<1>1. ResizeInv => ResizeSettles
  BY DEF ResizeInv, ResizeTypes, Terminals, Shaped, ResizeSettles, PausedForStash,
         WholeWithoutStash, ToldOrPending
<1>. QED  BY <1>1, ResizeInvHolds, PTL

-----------------------------------------------------------------------------
(***************************************************************************)
(* Input methods.  ImeKept needs who composes for what: a compositor that  *)
(* has seen all commits composes for the state committed last, the text    *)
(* that counts was composed for that state (TextOk), and without a focus   *)
(* nothing is enabled (SyncOk).                                            *)
(***************************************************************************)

\* Text that counts, composed or pending, was composed for the last state committed, and
\* once the compositor has seen all commits it composes for that.
TextOk(s) ==
    /\ ~unseen[s] => seen[s] = committed[s]
    /\ ~late[s] => {preedit[s], pending[s].commit, pending[s].preedit} \subseteq {None, committed[s]}

\* Without a focus nothing is enabled.
SyncOk(s) ==
    /\ ime[s] = None => committed[s] = None
    /\ Focusing(s) => committed[s] = IF on[ime[s]] THEN Target(s) ELSE None

ImeInv ==
    /\ ImeTypes
    /\ \A s \in Seats : TextOk(s) /\ SyncOk(s)
    /\ AsAsked

\* What a commit does to a seat that it reaches, and to the others.
Renewed(s) ==
    /\ unseen'[s] /\ ~late'[s] /\ preedit'[s] = None
    /\ pending'[s].commit = None /\ pending'[s].preedit = None

LeftAlone(s) ==
    /\ committed'[s] = committed[s] /\ seen'[s] = seen[s] /\ (unseen'[s] <=> unseen[s])
    /\ (late'[s] <=> late[s]) /\ preedit'[s] = preedit[s] /\ pending'[s] = pending[s]

TextTypes ==
    /\ committed \in [Seats -> Targets] /\ seen \in [Seats -> Targets]
    /\ unseen \in [Seats -> BOOLEAN] /\ late \in [Seats -> BOOLEAN]
    /\ pending \in [Seats -> [commit : Targets, preedit : Targets]]
    /\ preedit \in [Seats -> Targets]

RestTypes ==
    /\ kbdOf \in [Seats -> Terms \cup {None}] /\ ime \in [Seats -> Terms \cup {None}]
    /\ on \in [Terms -> BOOLEAN] /\ reenable \in [Terms -> BOOLEAN]
    /\ asked \in [Terms -> BOOLEAN]
    /\ uiOf \in [Terms -> {"normal", "search", "urls"}]
    /\ windowOf \in [Terms -> {"open", "gone"}]

LEMMA ImeTypesParts == ImeTypes <=> TextTypes /\ RestTypes
BY DEF ImeTypes, TextTypes, RestTypes

LEMMA ImeTypesNext == TextTypes' /\ RestTypes' => ImeTypes'
BY DEF ImeTypes, TextTypes, RestTypes

LEMMA CommitsReach ==
  ASSUME ImeTypes, NEW to, DOMAIN to \subseteq Seats, \A s \in DOMAIN to : to[s] \in Targets,
         Commits(to)
  PROVE  /\ TextTypes'
         /\ \A s \in DOMAIN to : committed'[s] = to[s] /\ Renewed(s)
         /\ \A s \in Seats \ DOMAIN to : LeftAlone(s)
<1>1. /\ None \in Targets
      /\ NoText = [commit |-> None, preedit |-> None]
      /\ NoText \in [commit : Targets, preedit : Targets]
  BY DEF Targets, NoText
<1>2. TextTypes
  BY ImeTypesParts
<1>3. committed' \in [Seats -> Targets] /\ seen' \in [Seats -> Targets]
  BY <1>2 DEF TextTypes, Commits
<1>4. unseen' \in [Seats -> BOOLEAN] /\ late' \in [Seats -> BOOLEAN]
  <2>1. \A s \in Seats : /\ (s \in DOMAIN to \/ unseen[s]) \in BOOLEAN
                         /\ (s \notin DOMAIN to /\ late[s]) \in BOOLEAN
    OBVIOUS
  <2>. QED  BY <2>1 DEF Commits
<1>5. pending' \in [Seats -> [commit : Targets, preedit : Targets]]
  <2>. DEFINE Texts == [commit : Targets, preedit : Targets]
  <2>1. pending \in [Seats -> Texts] /\ NoText \in Texts
    BY <1>1, <1>2 DEF TextTypes
  <2>2. pending' = [s \in Seats |-> IF s \in DOMAIN to THEN NoText ELSE pending[s]]
    BY DEF Commits
  <2>. HIDE DEF Texts
  <2>3. pending' \in [Seats -> Texts]
    BY <2>1, <2>2
  <2>. QED  BY <2>3 DEF Texts
<1>6. preedit' \in [Seats -> Targets]
  BY <1>1, <1>2 DEF TextTypes, Commits, DropsPreedit
<1>7. ASSUME NEW s \in DOMAIN to PROVE committed'[s] = to[s] /\ Renewed(s)
  <2>1. s \in Seats
    OBVIOUS
  <2>2. committed'[s] = to[s] /\ unseen'[s] /\ ~late'[s] /\ pending'[s] = NoText /\ preedit'[s] = None
    BY <2>1 DEF Commits, DropsPreedit
  <2>. QED  BY <2>2 DEF Renewed, NoText
<1>8. ASSUME NEW s \in Seats \ DOMAIN to PROVE LeftAlone(s)
  BY <1>8 DEF Commits, DropsPreedit, LeftAlone
<1>. QED  BY <1>3, <1>4, <1>5, <1>6, <1>7, <1>8 DEF TextTypes

LEMMA CommitsText ==
  ASSUME ImeInv, NEW to, DOMAIN to \subseteq Seats, \A s \in DOMAIN to : to[s] \in Targets,
         Commits(to)
  PROVE  \A s \in Seats : TextOk(s)'
<1>. SUFFICES ASSUME NEW s \in Seats PROVE TextOk(s)'
  OBVIOUS
<1>1. CASE s \in DOMAIN to
  <2>1. Renewed(s)
    BY <1>1, CommitsReach DEF ImeInv
  <2>. QED  BY <2>1 DEF Renewed, TextOk
<1>2. CASE s \notin DOMAIN to
  <2>1. LeftAlone(s)
    BY <1>2, CommitsReach DEF ImeInv
  <2>2. TextOk(s)
    BY DEF ImeInv
  <2>. QED  BY <2>1, <2>2 DEF LeftAlone, TextOk
<1>. QED  BY <1>1, <1>2

\* Nothing happens to the text.
LEMMA TextUntouched ==
  ASSUME ImeInv, UNCHANGED <<protocol, text>>
  PROVE  TextTypes' /\ \A s \in Seats : LeftAlone(s) /\ TextOk(s)'
<1>1. /\ committed' = committed /\ seen' = seen /\ unseen' = unseen
      /\ pending' = pending /\ preedit' = preedit /\ late' = late
  BY DEF protocol, text
<1>2. TextTypes /\ \A s \in Seats : TextOk(s)
  BY ImeTypesParts DEF ImeInv
<1>. QED  BY <1>1, <1>2 DEF TextTypes, LeftAlone, TextOk

\* The seats that a terminal reaches, and only they, are enabled for it or disabled.
LEMMA EnabledReach ==
  ASSUME ImeInv, NEW t \in Terms, NEW search \in BOOLEAN, Enabled(t, search)
  PROVE  /\ TextTypes' /\ \A s \in Seats : TextOk(s)'
         /\ \A s \in Reached(t) : committed'[s] = [term |-> ime[s], search |-> search]
         /\ \A s \in Seats \ Reached(t) : committed'[s] = committed[s]
<1>. DEFINE to == [s \in Reached(t) |-> [term |-> ime[s], search |-> search]]
<1>1. DOMAIN to = Reached(t) /\ Reached(t) \subseteq Seats
  BY DEF Reached
<1>2. \A s \in Reached(t) : to[s] = [term |-> ime[s], search |-> search]
  OBVIOUS
<1>3. \A s \in Reached(t) : [term |-> ime[s], search |-> search] \in Targets
  BY DEF Reached, Targets, ImeInv, ImeTypes
<1>4. Commits(to)
  BY DEF Enabled
<1>. HIDE DEF to
<1>. QED  BY <1>1, <1>2, <1>3, <1>4, CommitsReach, CommitsText DEF ImeInv, LeftAlone

LEMMA DisabledReach ==
  ASSUME ImeInv, NEW t \in Terms, Disabled(t)
  PROVE  /\ TextTypes' /\ \A s \in Seats : TextOk(s)'
         /\ \A s \in Reached(t) : committed'[s] = None
         /\ \A s \in Seats \ Reached(t) : committed'[s] = committed[s]
<1>. DEFINE to == [s \in Reached(t) |-> None]
<1>1. DOMAIN to = Reached(t) /\ Reached(t) \subseteq Seats
  BY DEF Reached
<1>2. \A s \in Reached(t) : to[s] = None /\ to[s] \in Targets
  BY DEF Targets
<1>3. Commits(to)
  BY DEF Disabled
<1>. HIDE DEF to
<1>. QED  BY <1>1, <1>2, <1>3, CommitsReach, CommitsText DEF ImeInv, LeftAlone

-----------------------------------------------------------------------------
(* The seat's own events: focus, the compositor, its text. *)

LEMMA KbdEnterInv ==
  ASSUME ImeInv, NEW s \in Seats, NEW t \in Terms, KbdEnter(s, t)
  PROVE  ImeInv'
<1>1. TextTypes' /\ \A x \in Seats : LeftAlone(x) /\ TextOk(x)'
  BY TextUntouched DEF KbdEnter
<1>2. UNCHANGED <<ime, on, reenable, uiOf, windowOf, asked>>
  BY DEF KbdEnter, terminals
<1>3. /\ kbdOf' \in [Seats -> Terms \cup {None}]
      /\ \A x \in Seats : kbdOf'[x] = kbdOf[x] \/ ime[x] = None \/ kbdOf'[x] = None
  BY DEF KbdEnter, ImeInv, ImeTypes
<1>4. RestTypes' /\ AsAsked'
  BY <1>2, <1>3 DEF RestTypes, ImeInv, ImeTypes, AsAsked
<1>5. ASSUME NEW x \in Seats PROVE SyncOk(x)'
  <2>1. SyncOk(x) /\ committed'[x] = committed[x]
    BY <1>1 DEF ImeInv, LeftAlone
  <2>. QED  BY <1>2, <1>3, <2>1 DEF SyncOk, Focusing, Target
<1>. QED  BY <1>1, <1>4, <1>5, ImeTypesNext DEF ImeInv

LEMMA KbdLeaveInv ==
  ASSUME ImeInv, NEW s \in Seats, KbdLeave(s)
  PROVE  ImeInv'
<1>1. TextTypes' /\ \A x \in Seats : LeftAlone(x) /\ TextOk(x)'
  BY TextUntouched DEF KbdLeave
<1>2. UNCHANGED <<ime, on, reenable, uiOf, windowOf, asked>>
  BY DEF KbdLeave, terminals
<1>3. /\ kbdOf' \in [Seats -> Terms \cup {None}]
      /\ \A x \in Seats : kbdOf'[x] = kbdOf[x] \/ ime[x] = None \/ kbdOf'[x] = None
  BY DEF KbdLeave, ImeInv, ImeTypes
<1>4. RestTypes' /\ AsAsked'
  BY <1>2, <1>3 DEF RestTypes, ImeInv, ImeTypes, AsAsked
<1>5. ASSUME NEW x \in Seats PROVE SyncOk(x)'
  <2>1. SyncOk(x) /\ committed'[x] = committed[x]
    BY <1>1 DEF ImeInv, LeftAlone
  <2>. QED  BY <1>2, <1>3, <2>1 DEF SyncOk, Focusing, Target
<1>. QED  BY <1>1, <1>4, <1>5, ImeTypesNext DEF ImeInv

LEMMA ImeEnterInv ==
  ASSUME ImeInv, NEW s \in Seats, ImeEnter(s)
  PROVE  ImeInv'
<1>. DEFINE t == kbdOf[s]  aim == [term |-> t, search |-> uiOf[t] = "search"]
<1>1. t \in Terms /\ t # None /\ ime[s] = None /\ committed[s] = None
  BY DEF ImeEnter, ImeInv, ImeTypes, SyncOk
<1>2. /\ ime' = [ime EXCEPT ![s] = t]
      /\ UNCHANGED <<kbdOf, on, reenable, uiOf, windowOf, asked>>
  BY DEF ImeEnter, terminals
<1>3. /\ TextTypes' /\ \A x \in Seats : TextOk(x)'
      /\ committed'[s] = IF on[t] THEN aim ELSE None
      /\ \A x \in Seats \ {s} : committed'[x] = committed[x]
  <2>1. CASE on[t]
    <3>. DEFINE to == [x \in {s} |-> aim]
    <3>1. Commits(to)
      BY <2>1 DEF ImeEnter
    <3>2. DOMAIN to = {s} /\ to[s] = aim
      OBVIOUS
    <3>3. aim \in Targets
      BY <1>1 DEF Targets
    <3>. HIDE DEF to, aim
    <3>. QED  BY <2>1, <3>1, <3>2, <3>3, CommitsReach, CommitsText DEF ImeInv, LeftAlone
  <2>2. CASE ~on[t]
    <3>1. UNCHANGED <<protocol, text>>
      BY <2>2 DEF ImeEnter
    <3>. QED  BY <1>1, <2>2, <3>1, TextUntouched DEF LeftAlone
  <2>. QED  BY <2>1, <2>2
<1>4. ime' \in [Seats -> Terms \cup {None}] /\ ime'[s] = t /\ \A x \in Seats \ {s} : ime'[x] = ime[x]
  BY <1>1, <1>2 DEF ImeInv, ImeTypes
<1>5. RestTypes' /\ AsAsked'
  BY <1>2, <1>4 DEF RestTypes, ImeInv, ImeTypes, AsAsked
<1>6. ASSUME NEW x \in Seats PROVE SyncOk(x)'
  <2>1. CASE x = s
    BY <1>1, <1>2, <1>3, <1>4, <2>1 DEF SyncOk, Focusing, Target
  <2>2. CASE x # s
    <3>1. SyncOk(x)
      BY DEF ImeInv
    <3>. QED  BY <1>2, <1>3, <1>4, <2>2, <3>1 DEF SyncOk, Focusing, Target
  <2>. QED  BY <2>1, <2>2
<1>. QED  BY <1>3, <1>5, <1>6, ImeTypesNext DEF ImeInv

LEMMA ImeLeaveInv ==
  ASSUME ImeInv, NEW s \in Seats, ImeLeave(s)
  PROVE  ImeInv'
<1>1. /\ ime' = [ime EXCEPT ![s] = None]
      /\ UNCHANGED <<kbdOf, on, reenable, uiOf, windowOf, asked>>
  BY DEF ImeLeave, terminals
<1>2. /\ TextTypes' /\ \A x \in Seats : TextOk(x)'
      /\ committed'[s] = None
      /\ \A x \in Seats \ {s} : committed'[x] = committed[x]
  <2>. DEFINE to == [x \in {s} |-> None]
  <2>1. Commits(to)
    BY DEF ImeLeave
  <2>2. DOMAIN to = {s} /\ to[s] = None /\ None \in Targets
    BY DEF Targets
  <2>. HIDE DEF to
  <2>. QED  BY <2>1, <2>2, CommitsReach, CommitsText DEF ImeInv, LeftAlone
<1>3. ime' \in [Seats -> Terms \cup {None}] /\ ime'[s] = None /\ \A x \in Seats \ {s} : ime'[x] = ime[x]
  BY <1>1 DEF ImeInv, ImeTypes
<1>4. RestTypes' /\ AsAsked'
  BY <1>1, <1>3 DEF RestTypes, ImeInv, ImeTypes, AsAsked
<1>5. ASSUME NEW x \in Seats PROVE SyncOk(x)'
  <2>1. SyncOk(x)
    BY DEF ImeInv
  <2>. QED  BY <1>1, <1>2, <1>3, <2>1 DEF SyncOk, Focusing, Target
<1>. QED  BY <1>2, <1>4, <1>5, ImeTypesNext DEF ImeInv

LEMMA CatchUpInv ==
  ASSUME ImeInv, NEW s \in Seats, CatchUp(s)
  PROVE  ImeInv'
<1>1. /\ unseen' = [unseen EXCEPT ![s] = FALSE] /\ seen' = [seen EXCEPT ![s] = committed[s]]
      /\ UNCHANGED <<kbdOf, ime, on, reenable, uiOf, windowOf, asked, committed, pending, preedit, late>>
  BY DEF CatchUp, terminals, text
<1>2. TextTypes'
  BY <1>1 DEF TextTypes, ImeInv, ImeTypes
<1>3. RestTypes' /\ AsAsked'
  BY <1>1 DEF RestTypes, ImeInv, ImeTypes, AsAsked
<1>4. ASSUME NEW x \in Seats PROVE TextOk(x)'
  BY <1>1 DEF ImeInv, ImeTypes, TextOk
<1>5. ASSUME NEW x \in Seats PROVE SyncOk(x)'
  BY <1>1 DEF ImeInv, SyncOk, Focusing, Target
<1>. QED  BY <1>2, <1>3, <1>4, <1>5, ImeTypesNext DEF ImeInv

LEMMA TextKeepsRest ==
  ASSUME ImeInv, TextTypes', \A s \in Seats : TextOk(s)',
         UNCHANGED <<kbdOf, ime, on, reenable, uiOf, windowOf, asked, committed>>
  PROVE  ImeInv'
<1>1. RestTypes' /\ AsAsked'
  BY DEF RestTypes, ImeInv, ImeTypes, AsAsked
<1>2. \A s \in Seats : SyncOk(s)'
  BY DEF ImeInv, SyncOk, Focusing, Target
<1>. QED  BY <1>1, <1>2, ImeTypesNext DEF ImeInv

LEMMA TextInv ==
  ASSUME ImeInv, NEW s \in Seats, NEW parts, Text(s, parts)
  PROVE  ImeInv'
<1>. DEFINE new == Composed(s, parts)
<1>1. UNCHANGED <<kbdOf, ime, on, reenable, uiOf, windowOf, asked, committed, seen, unseen>>
  BY DEF Text, terminals, protocol
<1>2. /\ pending[s] \in [commit : Targets, preedit : Targets] /\ seen[s] \in Targets
      /\ pending \in [Seats -> [commit : Targets, preedit : Targets]]
      /\ preedit \in [Seats -> Targets] /\ late \in [Seats -> BOOLEAN]
      /\ NoText \in [commit : Targets, preedit : Targets]
      /\ NoText.commit = None /\ NoText.preedit = None
  BY DEF ImeInv, ImeTypes, NoText, Targets
<1>3. /\ new \in [commit : Targets, preedit : Targets]
      /\ new.preedit = IF "preedit" \in parts THEN seen[s] ELSE pending[s].preedit
  BY <1>2 DEF Composed
<1>4. new.preedit \in Targets
  BY <1>3
<1>5. CASE Applies(s)
  <2>. HIDE DEF new
  <2>1. /\ pending' = [pending EXCEPT ![s] = NoText]
        /\ preedit' = [preedit EXCEPT ![s] = new.preedit]
        /\ late' = [late EXCEPT ![s] = late[s] /\ pending[s].preedit # None /\ "preedit" \notin parts]
    BY <1>5 DEF Text, new
  <2>2. TextTypes'
    <3>1. (late[s] /\ pending[s].preedit # None /\ "preedit" \notin parts) \in BOOLEAN
      OBVIOUS
    <3>2. late' \in [Seats -> BOOLEAN]
      BY <1>2, <2>1, <3>1
    <3>3. /\ pending' \in [Seats -> [commit : Targets, preedit : Targets]]
          /\ preedit' \in [Seats -> Targets]
      BY <1>2, <1>4, <2>1
    <3>. QED  BY <1>1, <3>2, <3>3 DEF TextTypes, ImeInv, ImeTypes
  <2>3. ASSUME NEW x \in Seats PROVE TextOk(x)'
    <3>1. TextOk(x)
      BY DEF ImeInv
    <3>2. CASE x # s
      BY <1>1, <1>2, <2>1, <3>1, <3>2 DEF TextOk
    <3>3. CASE x = s
      <4>1. /\ pending'[s] = NoText /\ preedit'[s] = new.preedit
            /\ late'[s] <=> (late[s] /\ pending[s].preedit # None /\ "preedit" \notin parts)
        BY <1>2, <2>1
      <4>2. seen[s] = committed[s]
        BY <1>5, <3>1, <3>3 DEF Applies, TextOk
      <4>3. ~late'[s] => new.preedit \in {None, committed[s]}
        BY <1>3, <3>1, <3>3, <4>1, <4>2 DEF TextOk
      <4>. QED  BY <1>1, <1>2, <3>3, <4>1, <4>2, <4>3 DEF TextOk
    <3>. QED  BY <3>2, <3>3
  <2>. QED  BY <1>1, <2>2, <2>3, TextKeepsRest
<1>6. CASE ~Applies(s)
  <2>. HIDE DEF new
  <2>1. /\ pending' = [pending EXCEPT ![s] = new]
        /\ late' = [late EXCEPT ![s] = TRUE]
        /\ preedit' = preedit
    BY <1>6 DEF Text, new
  <2>2. TextTypes'
    BY <1>1, <1>2, <1>3, <2>1 DEF TextTypes, ImeInv, ImeTypes
  <2>3. ASSUME NEW x \in Seats PROVE TextOk(x)'
    <3>1. TextOk(x)
      BY DEF ImeInv
    <3>2. x = s => late'[x]
      BY <1>2, <2>1
    <3>3. x # s => pending'[x] = pending[x] /\ late'[x] = late[x]
      BY <1>2, <2>1
    <3>. QED  BY <1>1, <2>1, <3>1, <3>2, <3>3 DEF TextOk
  <2>. QED  BY <1>1, <2>2, <2>3, TextKeepsRest
<1>. QED  BY <1>5, <1>6

-----------------------------------------------------------------------------
(* The terminal's. *)

LEMMA ModeSetInv ==
  ASSUME ImeInv, NEW t \in Terms, NEW set \in BOOLEAN, ModeSet(t, set)
  PROVE  ImeInv'
<1>1. /\ on' = [on EXCEPT ![t] = set] /\ asked' = [asked EXCEPT ![t] = set]
      /\ reenable' = [reenable EXCEPT ![t] = reenable[t] /\ set]
      /\ UNCHANGED <<kbdOf, ime, uiOf, windowOf>>
  BY DEF ModeSet, Forgets
<1>2. RestTypes
  BY ImeTypesParts DEF ImeInv
<1>3. RestTypes'
  <2>1. reenable' \in [Terms -> BOOLEAN]
    <3>1. (reenable[t] /\ set) \in BOOLEAN
      OBVIOUS
    <3>. QED  BY <1>1, <1>2, <3>1 DEF RestTypes
  <2>. QED  BY <1>1, <1>2, <2>1 DEF RestTypes
<1>4. AsAsked'
  <2>1. AsAsked
    BY DEF ImeInv
  <2>2. /\ on'[t] = set /\ asked'[t] = set /\ (reenable'[t] <=> reenable[t] /\ set)
        /\ \A u \in Terms \ {t} : on'[u] = on[u] /\ asked'[u] = asked[u] /\ reenable'[u] = reenable[u]
    BY <1>1, <1>2 DEF RestTypes
  <2>. QED  BY <1>1, <2>1, <2>2 DEF AsAsked
<1>5. /\ TextTypes' /\ \A s \in Seats : TextOk(s)'
      /\ \A s \in Seats : ~(s \in Reached(t)) => committed'[s] = committed[s]
      /\ \A s \in Reached(t) : committed'[s] =
           IF on[t] = set THEN committed[s]
           ELSE IF set THEN [term |-> ime[s], search |-> uiOf[t] = "search"] ELSE None
  <2>0. Reached(t) \subseteq Seats
    BY DEF Reached
  <2>1. CASE on[t] = set
    <3>1. UNCHANGED <<protocol, text>>
      BY <2>1 DEF ModeSet
    <3>. QED  BY <2>0, <2>1, <3>1, TextUntouched DEF LeftAlone
  <2>2. CASE on[t] # set /\ set
    <3>1. ~on[t]
      BY <1>2, <2>2 DEF RestTypes
    <3>2. Enabled(t, uiOf[t] = "search")
      BY <2>2, <3>1 DEF ModeSet
    <3>. QED  BY <2>0, <2>2, <3>2, EnabledReach
  <2>3. CASE on[t] # set /\ ~set
    <3>1. on[t]
      BY <1>2, <2>3 DEF RestTypes
    <3>2. Disabled(t)
      BY <2>3, <3>1 DEF ModeSet
    <3>. QED  BY <2>0, <2>3, <3>2, DisabledReach
  <2>. QED  BY <2>1, <2>2, <2>3
<1>6. ASSUME NEW s \in Seats PROVE SyncOk(s)'
  <2>1. SyncOk(s)
    BY DEF ImeInv
  <2>2. CASE ~(s \in Reached(t))
    <3>1. ime[s] # t \/ ~Focusing(s)
      BY <2>2, ParticipantsAssumption DEF Reached, Focusing
    <3>. QED  BY <1>1, <1>2, <1>5, <2>1, <2>2, <3>1 DEF SyncOk, Focusing, Target, RestTypes
  <2>3. CASE s \in Reached(t)
    <3>1. ime[s] # None /\ kbdOf[s] = t
      BY <2>3 DEF Reached
    <3>2. on'[t] = set
      BY <1>1, <1>2 DEF RestTypes
    <3>. QED  BY <1>1, <1>5, <2>1, <2>3, <3>1, <3>2 DEF SyncOk, Focusing, Target
  <2>. QED  BY <2>2, <2>3
<1>. QED  BY <1>3, <1>4, <1>5, <1>6, ImeTypesNext DEF ImeInv

LEMMA SearchSetInv ==
  ASSUME ImeInv, NEW t \in Terms, NEW search \in BOOLEAN, SearchSet(t, search)
  PROVE  ImeInv'
<1>1. /\ uiOf' = [uiOf EXCEPT ![t] = IF search THEN "search" ELSE "normal"]
      /\ uiOf[t] # "urls"
      /\ UNCHANGED <<kbdOf, ime, on, reenable, windowOf, asked>>
  BY DEF SearchSet
<1>2. RestTypes
  BY ImeTypesParts DEF ImeInv
<1>3. /\ uiOf' \in [Terms -> {"normal", "search", "urls"}]
      /\ uiOf'[t] = "search" <=> search
      /\ \A u \in Terms \ {t} : uiOf'[u] = uiOf[u]
  BY <1>1, <1>2 DEF RestTypes
<1>4. RestTypes' /\ AsAsked'
  BY <1>1, <1>2, <1>3 DEF RestTypes, ImeInv, AsAsked
<1>5. /\ TextTypes' /\ \A s \in Seats : TextOk(s)'
      /\ \A s \in Seats : ~(s \in Reached(t)) => committed'[s] = committed[s]
      /\ \A s \in Reached(t) : committed'[s] =
           IF on[t] THEN [term |-> ime[s], search |-> search] ELSE committed[s]
  <2>0. Reached(t) \subseteq Seats
    BY DEF Reached
  <2>1. CASE on[t]
    <3>1. Enabled(t, search)
      BY <2>1 DEF SearchSet, TogglesAlways
    <3>. QED  BY <2>0, <2>1, <3>1, EnabledReach
  <2>2. CASE ~on[t]
    <3>1. UNCHANGED <<protocol, text>>
      BY <2>2 DEF SearchSet, TogglesAlways
    <3>. QED  BY <2>0, <2>2, <3>1, TextUntouched DEF LeftAlone
  <2>. QED  BY <2>1, <2>2
<1>6. ASSUME NEW s \in Seats PROVE SyncOk(s)'
  <2>1. SyncOk(s)
    BY DEF ImeInv
  <2>2. CASE ~(s \in Reached(t))
    <3>1. ime[s] # t \/ ~Focusing(s)
      BY <2>2, ParticipantsAssumption DEF Reached, Focusing
    <3>2. ime[s] \in Terms \cup {None}
      BY <1>2 DEF RestTypes
    <3>. QED  BY <1>1, <1>3, <1>5, <2>1, <2>2, <3>1, <3>2 DEF SyncOk, Focusing, Target
  <2>3. CASE s \in Reached(t)
    <3>1. ime[s] # None /\ kbdOf[s] = t
      BY <2>3 DEF Reached
    <3>. QED  BY <1>1, <1>3, <1>5, <2>1, <2>3, <3>1 DEF SyncOk, Focusing, Target
  <2>. QED  BY <2>2, <2>3
<1>. QED  BY <1>4, <1>5, <1>6, ImeTypesNext DEF ImeInv

LEMMA UrlsRenderInv ==
  ASSUME ImeInv, NEW t \in Terms, UrlsRender(t)
  PROVE  ImeInv'
<1>1. /\ uiOf' = [uiOf EXCEPT ![t] = "urls"] /\ uiOf[t] = "normal"
      /\ reenable' = IF on[t] THEN [reenable EXCEPT ![t] = TRUE] ELSE reenable
      /\ on' = IF on[t] THEN [on EXCEPT ![t] = FALSE] ELSE on
      /\ UNCHANGED <<kbdOf, ime, windowOf, asked>>
  BY DEF UrlsRender
<1>2. RestTypes /\ AsAsked
  BY ImeTypesParts DEF ImeInv
<1>3. /\ uiOf' \in [Terms -> {"normal", "search", "urls"}] /\ uiOf'[t] = "urls"
      /\ \A u \in Terms \ {t} : uiOf'[u] = uiOf[u]
  BY <1>1, <1>2 DEF RestTypes
<1>4. /\ on' \in [Terms -> BOOLEAN] /\ ~on'[t]
      /\ \A u \in Terms \ {t} : on'[u] <=> on[u]
  BY <1>1, <1>2 DEF RestTypes
<1>5. /\ reenable' \in [Terms -> BOOLEAN] /\ (reenable'[t] <=> (on[t] \/ reenable[t]))
      /\ \A u \in Terms \ {t} : reenable'[u] <=> reenable[u]
  BY <1>1, <1>2 DEF RestTypes
<1>6. RestTypes' /\ AsAsked'
  BY <1>1, <1>2, <1>3, <1>4, <1>5 DEF RestTypes, AsAsked
<1>7. /\ TextTypes' /\ \A s \in Seats : TextOk(s)'
      /\ \A s \in Seats : ~(s \in Reached(t)) => committed'[s] = committed[s]
      /\ \A s \in Reached(t) : committed'[s] = IF on[t] THEN None ELSE committed[s]
  <2>0. Reached(t) \subseteq Seats
    BY DEF Reached
  <2>1. CASE on[t]
    <3>1. Disabled(t)
      BY <2>1 DEF UrlsRender
    <3>. QED  BY <2>0, <2>1, <3>1, DisabledReach
  <2>2. CASE ~on[t]
    <3>1. UNCHANGED <<protocol, text>>
      BY <2>2 DEF UrlsRender
    <3>. QED  BY <2>0, <2>2, <3>1, TextUntouched DEF LeftAlone
  <2>. QED  BY <2>1, <2>2
<1>8. ASSUME NEW s \in Seats PROVE SyncOk(s)'
  <2>1. SyncOk(s) /\ ime[s] \in Terms \cup {None}
    BY <1>2 DEF ImeInv, RestTypes
  <2>2. CASE ~(s \in Reached(t))
    <3>1. ime[s] # t \/ ~Focusing(s)
      BY <2>2, ParticipantsAssumption DEF Reached, Focusing
    <3>. QED  BY <1>1, <1>3, <1>4, <1>7, <2>1, <2>2, <3>1 DEF SyncOk, Focusing, Target
  <2>3. CASE s \in Reached(t)
    <3>1. ime[s] # None /\ kbdOf[s] = t
      BY <2>3 DEF Reached
    <3>. QED  BY <1>1, <1>4, <1>7, <2>1, <2>3, <3>1 DEF SyncOk, Focusing
  <2>. QED  BY <2>2, <2>3
<1>. QED  BY <1>6, <1>7, <1>8, ImeTypesNext DEF ImeInv

LEMMA UrlsResetInv ==
  ASSUME ImeInv, NEW t \in Terms, UrlsReset(t)
  PROVE  ImeInv'
<1>1. /\ uiOf' = [uiOf EXCEPT ![t] = "normal"] /\ uiOf[t] = "urls"
      /\ reenable' = [reenable EXCEPT ![t] = FALSE]
      /\ on' = [on EXCEPT ![t] = on[t] \/ reenable[t]]
      /\ UNCHANGED <<kbdOf, ime, windowOf, asked>>
  BY DEF UrlsReset
<1>2. RestTypes /\ AsAsked
  BY ImeTypesParts DEF ImeInv
<1>3. /\ uiOf' \in [Terms -> {"normal", "search", "urls"}] /\ uiOf'[t] = "normal"
      /\ \A u \in Terms \ {t} : uiOf'[u] = uiOf[u]
  BY <1>1, <1>2 DEF RestTypes
<1>4. /\ on' \in [Terms -> BOOLEAN] /\ (on'[t] <=> (on[t] \/ reenable[t]))
      /\ \A u \in Terms \ {t} : on'[u] <=> on[u]
  <2>1. (on[t] \/ reenable[t]) \in BOOLEAN
    OBVIOUS
  <2>. QED  BY <1>1, <1>2, <2>1 DEF RestTypes
<1>5. /\ reenable' \in [Terms -> BOOLEAN] /\ ~reenable'[t]
      /\ \A u \in Terms \ {t} : reenable'[u] <=> reenable[u]
  BY <1>1, <1>2 DEF RestTypes
<1>6. RestTypes' /\ AsAsked'
  BY <1>1, <1>2, <1>3, <1>4, <1>5 DEF RestTypes, AsAsked
<1>7. /\ TextTypes' /\ \A s \in Seats : TextOk(s)'
      /\ \A s \in Seats : ~(s \in Reached(t)) => committed'[s] = committed[s]
      /\ \A s \in Reached(t) : committed'[s] =
           IF reenable[t] /\ ~on[t] THEN [term |-> ime[s], search |-> FALSE] ELSE committed[s]
  <2>0. Reached(t) \subseteq Seats
    BY DEF Reached
  <2>1. CASE reenable[t] /\ ~on[t]
    <3>1. Enabled(t, FALSE)
      BY <2>1 DEF UrlsReset
    <3>. QED  BY <2>0, <2>1, <3>1, EnabledReach
  <2>2. CASE ~(reenable[t] /\ ~on[t])
    <3>1. UNCHANGED <<protocol, text>>
      BY <2>2 DEF UrlsReset
    <3>. QED  BY <2>0, <2>2, <3>1, TextUntouched DEF LeftAlone
  <2>. QED  BY <2>1, <2>2
<1>8. ASSUME NEW s \in Seats PROVE SyncOk(s)'
  <2>1. SyncOk(s) /\ ime[s] \in Terms \cup {None}
    BY <1>2 DEF ImeInv, RestTypes
  <2>2. CASE ~(s \in Reached(t))
    <3>1. ime[s] # t \/ ~Focusing(s)
      BY <2>2, ParticipantsAssumption DEF Reached, Focusing
    <3>. QED  BY <1>1, <1>3, <1>4, <1>7, <2>1, <2>2, <3>1 DEF SyncOk, Focusing, Target
  <2>3. CASE s \in Reached(t)
    <3>1. ime[s] # None /\ kbdOf[s] = t
      BY <2>3 DEF Reached
    <3>2. (uiOf[t] = "search") = FALSE /\ (uiOf'[t] = "search") = FALSE
      BY <1>1, <1>3
    <3>. QED  BY <1>1, <1>4, <1>7, <2>1, <2>3, <3>1, <3>2 DEF SyncOk, Focusing, Target
  <2>. QED  BY <2>2, <2>3
<1>. QED  BY <1>6, <1>7, <1>8, ImeTypesNext DEF ImeInv

LEMMA ImeShutdownInv ==
  ASSUME ImeInv, NEW t \in Terms, ImeShutdown(t)
  PROVE  ImeInv'
<1>1. PICK left \in {{s \in Seats : ime[s] = t}, {}} :
        /\ Commits([s \in left |-> None])
        /\ ime' = [s \in Seats |-> IF s \in left THEN None ELSE ime[s]]
  BY DEF ImeShutdown
<1>2. /\ windowOf' = [windowOf EXCEPT ![t] = "gone"]
      /\ kbdOf' = [s \in Seats |-> IF kbdOf[s] = t THEN None ELSE kbdOf[s]]
      /\ UNCHANGED <<on, reenable, uiOf, asked>>
  BY DEF ImeShutdown
<1>3. left \subseteq Seats
  OBVIOUS
<1>4. /\ TextTypes' /\ \A s \in Seats : TextOk(s)'
      /\ \A s \in left : committed'[s] = None
      /\ \A s \in Seats \ left : committed'[s] = committed[s]
  <2>. DEFINE to == [s \in left |-> None]
  <2>1. Commits(to)
    BY <1>1
  <2>2. DOMAIN to = left /\ None \in Targets /\ \A s \in left : to[s] = None
    BY DEF Targets
  <2>. HIDE DEF to
  <2>. QED  BY <1>3, <2>1, <2>2, CommitsReach, CommitsText DEF ImeInv, LeftAlone
<1>5. RestTypes' /\ AsAsked'
  BY <1>1, <1>2 DEF RestTypes, ImeInv, ImeTypes, AsAsked
<1>6. ASSUME NEW s \in Seats PROVE SyncOk(s)'
  <2>1. SyncOk(s)
    BY DEF ImeInv
  <2>2. /\ ime'[s] = IF s \in left THEN None ELSE ime[s]
        /\ kbdOf'[s] = IF kbdOf[s] = t THEN None ELSE kbdOf[s]
    BY <1>1, <1>2
  <2>. QED  BY <1>2, <1>4, <2>1, <2>2 DEF SyncOk, Focusing, Target
<1>. QED  BY <1>4, <1>5, <1>6, ImeTypesNext DEF ImeInv

LEMMA ImeInitInv == ImeInit => ImeInv
BY DEF ImeInit, ImeInv, ImeTypes, TextOk, SyncOk, AsAsked, Focusing, NoText, Targets

LEMMA ImeStepInv == ImeInv /\ [ImeNext]_imeVars => ImeInv'
<1>. SUFFICES ASSUME ImeInv, [ImeNext]_imeVars PROVE ImeInv'
  OBVIOUS
<1>1. CASE UNCHANGED imeVars
  <2>1. UNCHANGED <<kbdOf, ime, on, reenable, uiOf, windowOf, asked, protocol, text>>
    BY <1>1 DEF imeVars, terminals
  <2>2. TextTypes' /\ (\A s \in Seats : LeftAlone(s) /\ TextOk(s)') /\ committed' = committed
    BY <2>1, TextUntouched DEF protocol
  <2>. QED  BY <2>1, <2>2, TextKeepsRest
<1>2. CASE \E s \in Seats, t \in Terms : KbdEnter(s, t)
  BY <1>2, KbdEnterInv
<1>3. CASE \E s \in Seats : KbdLeave(s)
  BY <1>3, KbdLeaveInv
<1>4. CASE \E s \in Seats : ImeEnter(s) \/ ImeLeave(s) \/ CatchUp(s)
  BY <1>4, ImeEnterInv, ImeLeaveInv, CatchUpInv
<1>5. CASE \E s \in Seats : \E parts \in {{"commit"}, {"preedit"}, {"commit", "preedit"}} : Text(s, parts)
  BY <1>5, TextInv
<1>6. CASE \E t \in Terms : \E set \in BOOLEAN : ModeSet(t, set) \/ SearchSet(t, set)
  BY <1>6, ModeSetInv, SearchSetInv
<1>7. CASE \E t \in Terms : UrlsRender(t) \/ UrlsReset(t) \/ ImeShutdown(t)
  BY <1>7, UrlsRenderInv, UrlsResetInv, ImeShutdownInv
<1>. QED  BY <1>1, <1>2, <1>3, <1>4, <1>5, <1>6, <1>7 DEF ImeNext

THEOREM ImeInvHolds == ImeSpec => []ImeInv
<1>. QED  BY ImeInitInv, ImeStepInv, PTL DEF ImeSpec

\* Input methods are enabled for the target of their text, as the application asked, and
\* the text stays with the target it was composed for.
THEOREM ImeIsKept == ImeSpec => []ImeKept
<1>1. ImeInv => ImeKept
  <2>. SUFFICES ASSUME ImeInv PROVE ImeKept
    OBVIOUS
  <2>1. ImeInSync
    BY DEF ImeInv, SyncOk, ImeInSync
  <2>2. ASSUME NEW s \in Seats, Focusing(s), ~late[s]
        PROVE  {preedit[s], pending[s].commit, pending[s].preedit} \subseteq {None, Target(s)}
    <3>1. TextOk(s) /\ committed[s] \in {None, Target(s)}
      BY <2>1, <2>2 DEF ImeInv, ImeInSync
    <3>. QED  BY <2>2, <3>1 DEF TextOk
  <2>. QED  BY <2>1, <2>2 DEF ImeInv, ImeKept, TextReachesTarget
<1>. QED  BY <1>1, ImeInvHolds, PTL

-----------------------------------------------------------------------------
(***************************************************************************)
(* Pointer and touch.  PointerKept needs who holds a button, and where: the*)
(* pointer only while touch is inhibited, on the surface that has the      *)
(* focus; a touch only while it drags, on its target (HeldOk).  A timer    *)
(* that may move a window waits for a button of the pointer, not of a touch*)
(* (TimerOk).                                                              *)
(***************************************************************************)

Trackers == [button : Buttons, surf : Surfaces, by : {"pointer", "touch", "lost"}]
Members(s) == {s[i] : i \in DOMAIN s}
Unique(s) == \A i, j \in DOMAIN s : s[i].button = s[j].button => i = j

PlaceTypes ==
  /\ place \in Places \cup {None} /\ target \in Places \cup {None}
  /\ down \subseteq Buttons /\ mouseFocus \in Terms \cup {None}
  /\ surface \in [Terms -> Surfaces \cup {"none"}]
  /\ touch \in {"inhibited", "idle", "held", "dragging", "scrolling"}
  /\ selecting \in [Terms -> {"no", "yes", "lost"}]
  /\ moveTimer \in [Terms -> {"none", "armed", "orphan", "stale"}]
  /\ termWindow \in [Terms -> {"open", "gone"}]

ButtonTypes == buttons \in Seq(Trackers) /\ Unique(buttons)

\* Who holds a button: the pointer, on the surface it is on, or a touch that drags.
HeldOk(x) ==
  /\ x.by = "pointer" => /\ touch = "inhibited" /\ x.button \in down
                         /\ mouseFocus # None => x.surf = surface[mouseFocus]
  /\ x.by = "touch" => touch = "dragging" /\ x.button = Left /\ x.surf = target.surf

SelectOk(t) ==
  selecting[t] = "yes" =>
    \E x \in Members(buttons) :
      /\ x.surf = "grid"
      /\ \/ x.by = "pointer" /\ mouseFocus = t
         \/ x.by = "touch" /\ target.term = t

TimerOk(t) ==
  moveTimer[t] = "armed" =>
    /\ touch = "inhibited" /\ mouseFocus = t /\ surface[t] = "title"
    /\ \E x \in Members(buttons) : x.surf = "title"

TouchOk ==
  /\ touch = "inhibited" => buttons # <<>> /\ place # None
  /\ TouchIsActive => target # None

PointerInv ==
  /\ PlaceTypes
  /\ ButtonTypes
  /\ FocusUnderPointer
  /\ TouchOk
  /\ \A x \in Members(buttons) : HeldOk(x)
  /\ \A t \in Terms : SelectOk(t) /\ TimerOk(t)

-----------------------------------------------------------------------------
(* The list of buttons. *)

LEMMA MembersOfSeq ==
  ASSUME NEW s \in Seq(Trackers)
  PROVE  /\ Members(s) \subseteq Trackers
         /\ DOMAIN s = 1 .. Len(s)
         /\ s = <<>> <=> Members(s) = {}
<1>1. DOMAIN s = 1 .. Len(s) /\ Len(s) \in Nat /\ \A i \in 1 .. Len(s) : s[i] \in Trackers
  OBVIOUS
<1>2. s = <<>> <=> Len(s) = 0
  BY EmptySeq
<1>3. Len(s) # 0 => s[1] \in Members(s)
  BY <1>1 DEF Members
<1>. QED  BY <1>1, <1>2, <1>3 DEF Members

LEMMA PlaceOfIs ==
  ASSUME ButtonTypes, NEW b, Tracked(b)
  PROVE  PlaceOf(b) \in 1 .. Len(buttons) /\ buttons[PlaceOf(b)].button = b
<1>1. DOMAIN buttons = 1 .. Len(buttons) /\ Len(buttons) \in Nat
  BY DEF ButtonTypes
<1>2. PICK i \in DOMAIN buttons : buttons[i].button = b
  BY DEF Tracked
<1>3. \A j \in 1 .. i - 1 : buttons[j].button # b
  BY <1>1, <1>2 DEF ButtonTypes, Unique
<1>. QED  BY <1>1, <1>2, <1>3 DEF PlaceOf

LEMMA WithoutIs ==
  ASSUME ButtonTypes, NEW b
  PROVE  /\ Without(b) \in Seq(Trackers) /\ Unique(Without(b))
         /\ Members(Without(b)) = {x \in Members(buttons) : x.button # b}
<1>1. /\ DOMAIN buttons = 1 .. Len(buttons) /\ Len(buttons) \in Nat
      /\ \A i \in 1 .. Len(buttons) : buttons[i] \in Trackers
  BY DEF ButtonTypes
<1>2. CASE ~Tracked(b)
  BY <1>2 DEF Without, Tracked, Members, ButtonTypes
<1>3. CASE Tracked(b)
  <2>. DEFINE k == PlaceOf(b)  n == Len(buttons)
              u == SubSeq(buttons, 1, k - 1)  v == SubSeq(buttons, k + 1, n)  w == u \o v
  <2>1. k \in 1 .. n /\ buttons[k].button = b
    BY <1>3, PlaceOfIs
  <2>2. Without(b) = w
    BY <1>3 DEF Without
  <2>. HIDE DEF k
  <2>3. u \in Seq(Trackers) /\ Len(u) = k - 1 /\ \A i \in 1 .. k - 1 : u[i] = buttons[i]
    <3>1. 1 \in Int /\ k - 1 \in Int /\ \A i \in 1 .. k - 1 : buttons[i] \in Trackers
      BY <1>1, <2>1
    <3>. QED  BY <1>1, <2>1, <3>1, SubSeqProperties
  <2>4. v \in Seq(Trackers) /\ Len(v) = n - k /\ \A i \in 1 .. n - k : v[i] = buttons[k + i]
    <3>1. k + 1 \in Int /\ n \in Int /\ \A i \in k + 1 .. n : buttons[i] \in Trackers
      BY <1>1, <2>1
    <3>2. /\ v \in Seq(Trackers) /\ Len(v) = IF k + 1 <= n THEN n - (k + 1) + 1 ELSE 0
          /\ \A i \in 1 .. n - (k + 1) + 1 : v[i] = buttons[k + 1 + i - 1]
      BY <3>1, SubSeqProperties
    <3>3. n \in Nat /\ k \in 1 .. n
      BY <1>1, <2>1
    <3>4. Len(v) = n - k
      BY <3>2, <3>3
    <3>5. ASSUME NEW i \in 1 .. n - k PROVE v[i] = buttons[k + i]
      <4>1. i \in 1 .. n - (k + 1) + 1 /\ k + 1 + i - 1 = k + i
        BY <3>3
      <4>. QED  BY <3>2, <4>1
    <3>. QED  BY <3>2, <3>4, <3>5
  <2>. HIDE DEF u, v, n
  <2>5. /\ w \in Seq(Trackers) /\ Len(w) = n - 1
        /\ \A i \in 1 .. n - 1 : w[i] = IF i < k THEN buttons[i] ELSE buttons[i + 1]
    <3>1. /\ w \in Seq(Trackers) /\ Len(w) = Len(u) + Len(v)
          /\ \A i \in 1 .. Len(u) + Len(v) : w[i] = IF i <= Len(u) THEN u[i] ELSE v[i - Len(u)]
      BY <2>3, <2>4, ConcatProperties
    <3>2. n \in Nat /\ k \in 1 .. n
      BY <1>1, <2>1 DEF n
    <3>3. Len(u) = k - 1 /\ Len(v) = n - k
      BY <2>3, <2>4
    <3>4. Len(w) = n - 1
      BY <3>1, <3>2, <3>3
    <3>5. ASSUME NEW i \in 1 .. n - 1
          PROVE  w[i] = IF i < k THEN buttons[i] ELSE buttons[i + 1]
      <4>1. w[i] = IF i <= k - 1 THEN u[i] ELSE v[i - (k - 1)]
        BY <3>1, <3>2, <3>3
      <4>2. CASE i < k
        <5>1. i \in 1 .. k - 1
          BY <3>2, <4>2
        <5>. QED  BY <2>3, <4>1, <4>2, <5>1, <3>2
      <4>3. CASE ~(i < k)
        <5>1. i - (k - 1) \in 1 .. n - k /\ k + (i - (k - 1)) = i + 1 /\ ~(i <= k - 1)
          BY <3>2, <4>3
        <5>2. v[i - (k - 1)] = buttons[i + 1]
          BY <2>4, <5>1
        <5>. QED  BY <4>1, <4>3, <5>1, <5>2
      <4>. QED  BY <4>2, <4>3
    <3>. QED  BY <3>1, <3>4, <3>5
  <2>. HIDE DEF w
  <2>6. DOMAIN w = 1 .. n - 1
    BY <2>5
  <2>7. Unique(w)
    <3>1. ASSUME NEW i \in 1 .. n - 1, NEW j \in 1 .. n - 1, w[i].button = w[j].button
          PROVE  i = j
      <4>. DEFINE from(m) == IF m < k THEN m ELSE m + 1
      <4>1. from(i) \in 1 .. n /\ from(j) \in 1 .. n /\ (from(i) = from(j) => i = j)
        BY <1>1, <2>1 DEF n
      <4>2. w[i] = buttons[from(i)] /\ w[j] = buttons[from(j)]
        BY <2>5
      <4>. HIDE DEF from
      <4>. QED  BY <1>1, <3>1, <4>1, <4>2 DEF Unique, ButtonTypes, n
    <3>. QED  BY <2>6, <3>1 DEF Unique
  <2>8. ASSUME NEW x \in Members(w) PROVE x \in Members(buttons) /\ x.button # b
    <3>1. PICK i \in 1 .. n - 1 : x = w[i]
      BY <2>6 DEF Members
    <3>2. PICK j \in 1 .. n : x = buttons[j] /\ j # k
      BY <1>1, <2>1, <2>5, <3>1 DEF n
    <3>. QED  BY <1>1, <2>1, <3>2 DEF Members, Unique, ButtonTypes, n
  <2>9. ASSUME NEW x \in Members(buttons), x.button # b PROVE x \in Members(w)
    <3>1. PICK j \in 1 .. n : x = buttons[j]
      BY <1>1 DEF Members, n
    <3>2. j # k
      BY <2>1, <2>9, <3>1
    <3>3. PICK i \in 1 .. n - 1 : w[i] = buttons[j]
      <4>1. CASE j < k
        BY <1>1, <2>1, <2>5, <4>1 DEF n
      <4>2. CASE j > k
        <5>1. j - 1 \in 1 .. n - 1 /\ ~(j - 1 < k) /\ (j - 1) + 1 = j
          BY <1>1, <2>1, <4>2 DEF n
        <5>. QED  BY <2>5, <5>1
      <4>. QED  BY <1>1, <2>1, <3>2, <4>1, <4>2 DEF n
    <3>. QED  BY <2>6, <3>1, <3>3 DEF Members
  <2>. QED  BY <2>2, <2>5, <2>7, <2>8, <2>9
<1>. QED  BY <1>2, <1>3

LEMMA TrackerIs ==
  ASSUME ButtonTypes, NEW b
  PROVE  /\ Tracked(b) <=> \E x \in Members(buttons) : x.button = b
         /\ Tracked(b) => Tracker(b) \in Members(buttons) /\ Tracker(b).button = b
         /\ \A x \in Members(buttons) : x.button = b => x = Tracker(b)
<1>1. DOMAIN buttons = 1 .. Len(buttons)
  BY DEF ButtonTypes
<1>2. Tracked(b) <=> \E x \in Members(buttons) : x.button = b
  BY DEF Tracked, Members
<1>3. Tracked(b) => Tracker(b) \in Members(buttons) /\ Tracker(b).button = b
  BY <1>1, PlaceOfIs DEF Tracker, Members
<1>4. ASSUME NEW x \in Members(buttons), x.button = b PROVE x = Tracker(b)
  <2>1. PICK i \in DOMAIN buttons : x = buttons[i]
    BY DEF Members
  <2>2. Tracked(b)
    BY <1>2, <1>4
  <2>3. PlaceOf(b) \in DOMAIN buttons /\ buttons[PlaceOf(b)].button = b
    BY <1>1, <2>2, PlaceOfIs
  <2>4. PlaceOf(b) = i
    BY <1>4, <2>1, <2>3 DEF ButtonTypes, Unique
  <2>. QED  BY <2>1, <2>4 DEF Tracker
<1>. QED  BY <1>2, <1>3, <1>4

LEMMA TrackIs ==
  ASSUME ButtonTypes, NEW b \in Buttons, NEW surf \in Surfaces, NEW by \in {"pointer", "touch"}
  PROVE  /\ Track(b, surf, by) \in Seq(Trackers) /\ Unique(Track(b, surf, by))
         /\ Members(Track(b, surf, by)) = {x \in Members(buttons) : x.button # b}
                                            \cup {[button |-> b, surf |-> surf, by |-> by]}
<1>. DEFINE new == [button |-> b, surf |-> surf, by |-> by]
            w == Without(b)  s == Append(w, new)
<1>1. new \in Trackers /\ new.button = b
  BY DEF Trackers
<1>2. w \in Seq(Trackers) /\ Unique(w) /\ Members(w) = {x \in Members(buttons) : x.button # b}
  BY WithoutIs
<1>3. Track(b, surf, by) = s
  BY DEF Track
<1>. HIDE DEF new, w
<1>4. /\ s \in Seq(Trackers) /\ DOMAIN w = 1 .. Len(w) /\ DOMAIN s = 1 .. Len(w) + 1 /\ Len(w) \in Nat
      /\ s[Len(w) + 1] = new /\ \A i \in 1 .. Len(w) : s[i] = w[i]
  BY <1>1, <1>2
<1>. HIDE DEF s
<1>5. \A i \in 1 .. Len(w) : w[i].button # b
  BY <1>2, <1>4 DEF Members
<1>6. Unique(s)
  BY <1>1, <1>2, <1>4, <1>5 DEF Unique
<1>7. Members(s) = Members(w) \cup {new}
  <2>1. ASSUME NEW x \in Members(s) PROVE x \in Members(w) \cup {new}
    <3>1. PICK i \in 1 .. Len(w) + 1 : x = s[i]
      BY <1>4 DEF Members
    <3>. QED  BY <1>4, <3>1 DEF Members
  <2>2. ASSUME NEW x \in Members(w) PROVE x \in Members(s)
    <3>1. PICK i \in 1 .. Len(w) : x = w[i]
      BY <1>4 DEF Members
    <3>. QED  BY <1>4, <3>1 DEF Members
  <2>3. new \in Members(s)
    BY <1>4 DEF Members
  <2>. QED  BY <2>1, <2>2, <2>3
<1>. QED  BY <1>2, <1>3, <1>4, <1>6, <1>7 DEF new

LEMMA LostIs ==
  ASSUME ButtonTypes, NEW by
  PROVE  /\ Lost(by) \in Seq(Trackers) /\ Unique(Lost(by))
         /\ Lost(by) = <<>> <=> buttons = <<>>
         /\ \A x \in Members(buttons) :
              \E y \in Members(Lost(by)) : /\ y.button = x.button /\ y.surf = x.surf
                                           /\ y.by = IF x.by = by THEN "lost" ELSE x.by
         /\ \A y \in Members(Lost(by)) :
              \E x \in Members(buttons) : /\ y.button = x.button /\ y.surf = x.surf
                                          /\ y.by = IF x.by = by THEN "lost" ELSE x.by
<1>. DEFINE n == Len(buttons)  s == Lost(by)
<1>1. DOMAIN buttons = 1 .. n /\ n \in Nat /\ \A i \in 1 .. n : buttons[i] \in Trackers
  BY DEF ButtonTypes
<1>2. s = [i \in 1 .. n |-> IF buttons[i].by = by THEN [buttons[i] EXCEPT !.by = "lost"]
                            ELSE buttons[i]]
  BY <1>1 DEF Lost
<1>3. ASSUME NEW i \in 1 .. n
      PROVE  /\ s[i] \in Trackers /\ s[i].button = buttons[i].button /\ s[i].surf = buttons[i].surf
             /\ s[i].by = IF buttons[i].by = by THEN "lost" ELSE buttons[i].by
  <2>1. buttons[i] \in Trackers
    BY <1>1
  <2>2. s[i] = IF buttons[i].by = by THEN [buttons[i] EXCEPT !.by = "lost"] ELSE buttons[i]
    BY <1>2
  <2>. HIDE DEF s
  <2>. QED  BY <2>1, <2>2 DEF Trackers
<1>4. DOMAIN s = 1 .. n
  BY <1>2
<1>. HIDE DEF s
<1>5. s \in Seq(Trackers) /\ Len(s) = n
  <2>1. s \in [1 .. n -> Trackers]
    BY <1>2, <1>3, <1>4
  <2>. QED  BY <1>1, <2>1
<1>6. Unique(s)
  BY <1>1, <1>3, <1>4 DEF Unique, ButtonTypes
<1>7. s = <<>> <=> buttons = <<>>
  BY <1>5, EmptySeq DEF ButtonTypes
<1>8. \A x \in Members(buttons) :
        \E y \in Members(s) : /\ y.button = x.button /\ y.surf = x.surf
                              /\ y.by = IF x.by = by THEN "lost" ELSE x.by
  BY <1>1, <1>3, <1>4 DEF Members
<1>9. \A y \in Members(s) :
        \E x \in Members(buttons) : /\ y.button = x.button /\ y.surf = x.surf
                                    /\ y.by = IF x.by = by THEN "lost" ELSE x.by
  BY <1>1, <1>3, <1>4 DEF Members
<1>. QED  BY <1>5, <1>6, <1>7, <1>8, <1>9 DEF s

-----------------------------------------------------------------------------
(* The pointer. *)

\* Only the buttons stay as they are.
LEMMA SameButtons ==
  ASSUME ButtonTypes, buttons' = buttons
  PROVE  ButtonTypes' /\ Members(buttons)' = Members(buttons)
BY DEF ButtonTypes, Unique, Members

LEMMA InvNow ==
  ASSUME PointerInv
  PROVE  /\ PlaceTypes /\ ButtonTypes /\ Members(buttons) \subseteq Trackers
         /\ buttons = <<>> <=> Members(buttons) = {}
         /\ touch # "inhibited" => \A x \in Members(buttons) : x.by # "pointer"
         /\ touch # "dragging" => \A x \in Members(buttons) : x.by # "touch"
BY MembersOfSeq DEF PointerInv, ButtonTypes, HeldOk

LEMMA PointerEnterInv ==
  ASSUME PointerInv, NEW p \in Places, PointerEnter(p)
  PROVE  PointerInv'
<1>1. /\ place = None /\ place' = p /\ mouseFocus' = p.term
      /\ surface' = [surface EXCEPT ![p.term] = p.surf]
      /\ UNCHANGED <<down, buttons, touch, target, selecting, moveTimer, termWindow>>
  BY DEF PointerEnter, Enters
<1>2. p.term \in Terms /\ p.surf \in Surfaces /\ p # None
  BY PointerAssumption DEF Places
<1>3. touch # "inhibited"
  BY <1>1 DEF PointerInv, TouchOk
<1>4. PlaceTypes'
  BY <1>1, <1>2, InvNow DEF PlaceTypes
<1>5. ButtonTypes' /\ Members(buttons)' = Members(buttons)
  BY <1>1, InvNow, SameButtons
<1>6. FocusUnderPointer'
  BY <1>1, <1>2, InvNow DEF PlaceTypes, FocusUnderPointer
<1>7. TouchOk'
  BY <1>1, <1>2 DEF PointerInv, TouchOk, TouchIsActive
<1>8. \A x \in Members(buttons) : HeldOk(x)'
  BY <1>1, <1>3, InvNow DEF PointerInv, HeldOk
<1>9. \A t \in Terms : SelectOk(t)' /\ TimerOk(t)'
  BY <1>1, <1>3, <1>5, InvNow DEF PointerInv, SelectOk, TimerOk
<1>. QED  BY <1>4, <1>5, <1>6, <1>7, <1>8, <1>9 DEF PointerInv

LEMMA PointerLeaveInv ==
  ASSUME PointerInv, PointerLeave
  PROVE  PointerInv'
<1>1. place # None /\ place' = None /\ UNCHANGED <<down, target, termWindow>>
  BY DEF PointerLeave
<1>2. FocusUnderPointer'
  BY <1>1 DEF FocusUnderPointer
<1>3. CASE TouchIsActive
  <2>1. UNCHANGED <<mouseFocus, surface, buttons, touch, selecting, moveTimer>>
    BY <1>3 DEF PointerLeave
  <2>2. touch # "inhibited"
    BY <1>3 DEF TouchIsActive
  <2>3. PlaceTypes'
    BY <1>1, <2>1, InvNow DEF PlaceTypes
  <2>4. ButtonTypes' /\ Members(buttons)' = Members(buttons)
    BY <2>1, InvNow, SameButtons
  <2>5. TouchOk'
    BY <1>1, <2>1, <2>2 DEF PointerInv, TouchOk, TouchIsActive
  <2>6. \A x \in Members(buttons) : HeldOk(x)'
    BY <1>1, <2>1 DEF PointerInv, HeldOk
  <2>7. \A t \in Terms : SelectOk(t)' /\ TimerOk(t)'
    BY <1>1, <2>1, <2>4 DEF PointerInv, SelectOk, TimerOk
  <2>. QED  BY <1>2, <2>3, <2>4, <2>5, <2>6, <2>7 DEF PointerInv
<1>4. CASE ~TouchIsActive
  <2>1. /\ touch' = IF touch = "inhibited" THEN "idle" ELSE touch
        /\ buttons' = <<>> /\ mouseFocus' = None
        /\ moveTimer' = [t \in Terms |-> IF t = mouseFocus /\ moveTimer[t] = "armed"
                                         THEN "orphan" ELSE moveTimer[t]]
        /\ surface' = [t \in Terms |-> IF t = mouseFocus THEN "none" ELSE surface[t]]
        /\ selecting' = [t \in Terms |-> IF t = mouseFocus /\ surface[t] = "grid"
                                         THEN "no" ELSE selecting[t]]
    BY <1>4 DEF PointerLeave, LeavesFocus, Orphaned
  <2>2. touch' = "idle"
    BY <1>4, <2>1, InvNow DEF PlaceTypes, TouchIsActive
  <2>3. PlaceTypes'
    BY <1>1, <2>1, <2>2, InvNow DEF PlaceTypes
  <2>4. ButtonTypes' /\ Members(buttons)' = {}
    BY <2>1 DEF ButtonTypes, Unique, Members
  <2>5. TouchOk'
    BY <2>2 DEF TouchOk, TouchIsActive
  <2>6. ASSUME NEW t \in Terms PROVE SelectOk(t)'
    <3>1. selecting'[t] # "yes"
      <4>1. SelectOk(t)
        BY DEF PointerInv
      <4>2. CASE selecting[t] = "yes"
        <5>1. PICK x \in Members(buttons) : x.surf = "grid" /\ x.by = "pointer" /\ mouseFocus = t
          <6>1. touch # "dragging"
            BY <1>4 DEF TouchIsActive
          <6>. QED  BY <4>1, <4>2, <6>1, InvNow DEF SelectOk
        <5>2. surface[t] = "grid"
          <6>1. t # None
            BY ParticipantsAssumption
          <6>. QED  BY <5>1, <6>1 DEF PointerInv, HeldOk
        <5>. QED  BY <2>1, <5>1, <5>2
      <4>3. CASE selecting[t] # "yes"
        BY <2>1, <4>3
      <4>. QED  BY <4>2, <4>3
    <3>. QED  BY <3>1 DEF SelectOk
  <2>7. ASSUME NEW t \in Terms PROVE TimerOk(t)'
    <3>1. TimerOk(t)
      BY DEF PointerInv
    <3>2. moveTimer'[t] # "armed"
      BY <2>1, <3>1 DEF TimerOk
    <3>. QED  BY <3>2 DEF TimerOk
  <2>. QED  BY <1>2, <2>3, <2>4, <2>5, <2>6, <2>7 DEF PointerInv
<1>. QED  BY <1>3, <1>4

LEMMA FocusKnown ==
  ASSUME PointerInv, place # None, termWindow[place.term] = "open"
  PROVE  /\ mouseFocus \in Terms /\ mouseFocus # None
         /\ surface[mouseFocus] \in Surfaces
<1>1. place \in Places
  BY InvNow DEF PlaceTypes
<1>2. place.term \in Terms /\ place.surf \in Surfaces
  BY <1>1 DEF Places
<1>. QED  BY <1>2, ParticipantsAssumption DEF PointerInv, FocusUnderPointer

LEMMA ButtonPressInv ==
  ASSUME PointerInv, NEW b \in Buttons, ButtonPress(b)
  PROVE  PointerInv'
<1>1. /\ place # None /\ b \notin down /\ termWindow[place.term] = "open"
      /\ down' = down \cup {b}
      /\ UNCHANGED <<place, mouseFocus, surface, target, termWindow>>
  BY DEF ButtonPress
<1>2. FocusUnderPointer'
  BY <1>1 DEF PointerInv, FocusUnderPointer
<1>3. CASE TouchIsActive
  <2>1. UNCHANGED <<buttons, touch, selecting, moveTimer>>
    BY <1>3 DEF ButtonPress
  <2>2. PlaceTypes'
    BY <1>1, <2>1, InvNow DEF PlaceTypes
  <2>3. ButtonTypes' /\ Members(buttons)' = Members(buttons)
    BY <2>1, InvNow, SameButtons
  <2>4. TouchOk'
    BY <1>1, <2>1 DEF PointerInv, TouchOk, TouchIsActive
  <2>5. \A x \in Members(buttons) : HeldOk(x)'
    BY <1>1, <2>1 DEF PointerInv, HeldOk
  <2>6. \A t \in Terms : SelectOk(t)' /\ TimerOk(t)'
    BY <1>1, <2>1, <2>3 DEF PointerInv, SelectOk, TimerOk
  <2>. QED  BY <1>2, <2>2, <2>3, <2>4, <2>5, <2>6 DEF PointerInv
<1>4. CASE ~TouchIsActive
  <2>. DEFINE surf == surface[mouseFocus]
              new == [button |-> b, surf |-> surf, by |-> "pointer"]
  <2>1. mouseFocus \in Terms /\ mouseFocus # None /\ surf \in Surfaces
    BY <1>1, FocusKnown
  <2>2. /\ touch' = "inhibited" /\ buttons' = Track(b, surf, "pointer")
        /\ PressEffects(b, [term |-> mouseFocus, surf |-> surf])
    BY <1>4 DEF ButtonPress
  <2>3. /\ ButtonTypes'
        /\ Members(buttons)' = {x \in Members(buttons) : x.button # b} \cup {new}
    BY <2>1, <2>2, TrackIs, InvNow DEF ButtonTypes, Unique, Members
  <2>4. new \in Members(buttons)' /\ new.surf = surf /\ new.by = "pointer" /\ new.button = b
    BY <2>3
  <2>5. /\ \/ selecting' = selecting
           \/ surf = "grid" /\ selecting' = [selecting EXCEPT ![mouseFocus] = "yes"]
        /\ \/ moveTimer' = moveTimer
           \/ surf = "title" /\ moveTimer' = [moveTimer EXCEPT ![mouseFocus] = "armed"]
    <3>. DEFINE p == [term |-> mouseFocus, surf |-> surf]
    <3>1. PressEffects(b, p) /\ p.term = mouseFocus /\ p.surf = surf
      BY <2>2
    <3>. HIDE DEF p, surf
    <3>2. \/ selecting' = selecting
          \/ surf = "grid" /\ selecting' = [selecting EXCEPT ![mouseFocus] = "yes"]
      <4>1. CASE surf = "grid"
        BY <3>1, <4>1 DEF PressEffects
      <4>2. CASE surf # "grid"
        BY <3>1, <4>2 DEF PressEffects
      <4>. QED  BY <4>1, <4>2
    <3>3. \/ moveTimer' = moveTimer
          \/ surf = "title" /\ moveTimer' = [moveTimer EXCEPT ![mouseFocus] = "armed"]
      <4>1. CASE surf = "title" /\ b = Left /\ moveTimer[mouseFocus] = "none"
        BY <3>1, <4>1 DEF PressEffects
      <4>2. CASE ~(surf = "title" /\ b = Left /\ moveTimer[mouseFocus] = "none")
        BY <3>1, <4>2 DEF PressEffects
      <4>. QED  BY <4>1, <4>2
    <3>. QED  BY <3>2, <3>3
  <2>. HIDE DEF surf, new
  <2>6. PlaceTypes'
    BY <1>1, <2>1, <2>2, <2>5, InvNow DEF PlaceTypes
  <2>7. TouchOk'
    <3>1. buttons' # <<>>
      BY <2>3, <2>4, MembersOfSeq DEF ButtonTypes, Members
    <3>. QED  BY <1>1, <2>2, <3>1 DEF TouchOk, TouchIsActive
  \* What was tracked for this button was lost: the pointer does not hold it.
  <2>8. touch # "dragging" /\ \A x \in Members(buttons) : x.button = b => x.by = "lost"
    <3>1. touch # "dragging"
      BY <1>4 DEF TouchIsActive
    <3>2. ASSUME NEW x \in Members(buttons), x.button = b PROVE x.by # "pointer"
      BY <1>1, <3>2 DEF PointerInv, HeldOk
    <3>3. \A x \in Members(buttons) : x.by \in {"pointer", "touch", "lost"}
      BY InvNow DEF Trackers
    <3>. QED  BY <3>1, <3>2, <3>3, InvNow
  <2>9. ASSUME NEW x \in Members(buttons)' PROVE HeldOk(x)'
    <3>1. CASE x = new
      BY <1>1, <2>2, <2>4, <3>1 DEF HeldOk, surf
    <3>2. CASE x # new
      <4>1. x \in Members(buttons) /\ HeldOk(x)
        BY <2>3, <3>2 DEF PointerInv
      <4>. QED  BY <1>1, <2>2, <2>8, <4>1, InvNow DEF HeldOk
    <3>. QED  BY <3>1, <3>2
  <2>10. ASSUME NEW t \in Terms PROVE SelectOk(t)'
    <3>1. CASE surf = "grid" /\ t = mouseFocus
      BY <1>1, <2>4, <3>1 DEF SelectOk
    <3>2. CASE ~(surf = "grid" /\ t = mouseFocus)
      <4>1. selecting'[t] = selecting[t]
        BY <2>1, <2>5, <3>2, InvNow DEF PlaceTypes
      <4>2. SUFFICES ASSUME selecting[t] = "yes" PROVE SelectOk(t)'
        BY <4>1 DEF SelectOk
      <4>3. PICK x \in Members(buttons) :
              /\ x.surf = "grid"
              /\ (x.by = "pointer" /\ mouseFocus = t) \/ (x.by = "touch" /\ target.term = t)
        BY <4>2 DEF PointerInv, SelectOk
      <4>4. x \in Members(buttons)'
        BY <2>3, <2>8, <4>3
      <4>. QED  BY <1>1, <4>3, <4>4 DEF SelectOk
    <3>. QED  BY <3>1, <3>2
  <2>11. ASSUME NEW t \in Terms PROVE TimerOk(t)'
    <3>1. CASE surf = "title" /\ t = mouseFocus
      BY <1>1, <2>2, <2>4, <3>1 DEF TimerOk, surf
    <3>2. CASE ~(surf = "title" /\ t = mouseFocus)
      <4>1. moveTimer'[t] = moveTimer[t]
        BY <2>1, <2>5, <3>2, InvNow DEF PlaceTypes
      <4>2. SUFFICES ASSUME moveTimer[t] = "armed" PROVE TimerOk(t)'
        BY <4>1 DEF TimerOk
      <4>3. mouseFocus = t /\ surface[t] = "title"
        BY <4>2 DEF PointerInv, TimerOk
      <4>. QED  BY <3>2, <4>3 DEF surf
    <3>. QED  BY <3>1, <3>2
  <2>. QED  BY <1>2, <2>3, <2>6, <2>7, <2>9, <2>10, <2>11 DEF PointerInv
<1>. QED  BY <1>3, <1>4

LEMMA ButtonReleaseInv ==
  ASSUME PointerInv, NEW b \in Buttons, ButtonRelease(b)
  PROVE  PointerInv'
<1>1. /\ place # None /\ b \in down /\ termWindow[place.term] = "open"
      /\ down' = down \ {b}
      /\ UNCHANGED <<place, mouseFocus, surface, target, termWindow>>
  BY DEF ButtonRelease
<1>2. FocusUnderPointer'
  BY <1>1 DEF PointerInv, FocusUnderPointer
<1>3. CASE TouchIsActive
  <2>1. UNCHANGED <<buttons, touch, selecting, moveTimer>> /\ touch # "inhibited"
    BY <1>3 DEF ButtonRelease, TouchIsActive
  <2>2. PlaceTypes'
    BY <1>1, <2>1, InvNow DEF PlaceTypes
  <2>3. ButtonTypes' /\ Members(buttons)' = Members(buttons)
    BY <2>1, InvNow, SameButtons
  <2>4. TouchOk'
    BY <1>1, <2>1 DEF PointerInv, TouchOk, TouchIsActive
  <2>5. \A x \in Members(buttons) : HeldOk(x)'
    BY <1>1, <2>1 DEF PointerInv, HeldOk
  <2>6. \A t \in Terms : SelectOk(t)' /\ TimerOk(t)'
    BY <1>1, <2>1, <2>3 DEF PointerInv, SelectOk, TimerOk
  <2>. QED  BY <1>2, <2>2, <2>3, <2>4, <2>5, <2>6 DEF PointerInv
<1>4. CASE ~TouchIsActive
  <2>1. mouseFocus \in Terms
    BY <1>1, FocusKnown
  <2>2. /\ buttons' = Without(b)
        /\ touch' = IF touch = "inhibited" /\ buttons' = <<>> THEN "idle" ELSE touch
        /\ Tracked(b) => /\ selecting' = EndsSelection(Tracker(b).surf, mouseFocus)
                         /\ moveTimer' = EndsTimer(Tracker(b).surf, mouseFocus)
        /\ ~Tracked(b) => selecting' = selecting /\ moveTimer' = moveTimer
    BY <1>4 DEF ButtonRelease, IdleAfterLast
  <2>3. ButtonTypes' /\ Members(buttons)' = {x \in Members(buttons) : x.button # b}
    BY <2>2, WithoutIs, InvNow DEF ButtonTypes, Unique, Members
  <2>4. Members(buttons)' # {} => buttons' # <<>>
    BY DEF Members
  <2>5. touch # "dragging"
    BY <1>4 DEF TouchIsActive
  <2>6. PlaceTypes'
    BY <1>1, <2>1, <2>2, InvNow DEF PlaceTypes, EndsSelection, EndsTimer
  <2>7. TouchOk'
    BY <1>1, <1>4, <2>2 DEF TouchOk, TouchIsActive
  <2>8. ASSUME NEW x \in Members(buttons)' PROVE HeldOk(x)'
    <3>1. x \in Members(buttons) /\ x.button # b /\ HeldOk(x) /\ touch' = touch
      BY <2>2, <2>3, <2>4 DEF PointerInv
    <3>. QED  BY <1>1, <3>1 DEF HeldOk
  \* A tracker on a surface that the release ends is the one that is removed.
  <2>9. ASSUME NEW x \in Members(buttons), x \notin Members(buttons)'
        PROVE  /\ x.surf = "grid" => selecting' = [selecting EXCEPT ![mouseFocus] = "no"]
               /\ x.surf = "title" => moveTimer' = [moveTimer EXCEPT ![mouseFocus] = "none"]
    <3>1. x.button = b
      BY <2>3, <2>9
    <3>2. Tracked(b) /\ x = Tracker(b)
      BY <3>1, TrackerIs, InvNow
    <3>. QED  BY <2>2, <3>2 DEF EndsSelection, EndsTimer
  <2>10. \A t \in Terms : /\ selecting'[t] = "yes" => selecting[t] = "yes"
                          /\ moveTimer'[t] = "armed" => moveTimer[t] = "armed"
    BY <2>2, InvNow DEF PlaceTypes, EndsSelection, EndsTimer
  <2>11. ASSUME NEW t \in Terms, selecting'[t] = "yes" PROVE SelectOk(t)'
    <3>1. PICK x \in Members(buttons) :
            /\ x.surf = "grid"
            /\ (x.by = "pointer" /\ mouseFocus = t) \/ (x.by = "touch" /\ target.term = t)
      BY <2>10, <2>11 DEF PointerInv, SelectOk
    <3>2. x.by = "pointer" /\ mouseFocus = t
      BY <2>5, <3>1, InvNow
    <3>3. x \in Members(buttons)'
      BY <2>9, <2>11, <3>1, <3>2, InvNow DEF PlaceTypes
    <3>. QED  BY <1>1, <3>1, <3>2, <3>3 DEF SelectOk
  <2>12. ASSUME NEW t \in Terms, moveTimer'[t] = "armed" PROVE TimerOk(t)'
    <3>1. touch = "inhibited" /\ mouseFocus = t /\ surface[t] = "title"
      BY <2>10, <2>12 DEF PointerInv, TimerOk
    <3>2. PICK x \in Members(buttons) : x.surf = "title"
      BY <2>10, <2>12 DEF PointerInv, TimerOk
    <3>3. x \in Members(buttons)'
      BY <2>9, <2>12, <3>1, <3>2, InvNow DEF PlaceTypes
    <3>4. touch' = "inhibited"
      BY <2>2, <2>4, <3>1, <3>3
    <3>. QED  BY <1>1, <3>1, <3>2, <3>3, <3>4 DEF TimerOk
  <2>13. \A t \in Terms : SelectOk(t)' /\ TimerOk(t)'
    BY <2>11, <2>12 DEF SelectOk, TimerOk
  <2>. QED  BY <1>2, <2>3, <2>6, <2>7, <2>8, <2>13 DEF PointerInv
<1>. QED  BY <1>3, <1>4

LEMMA WithholdInv ==
  ASSUME PointerInv, Withhold
  PROVE  PointerInv'
<1>1. /\ down' = {} /\ buttons' = Lost("pointer")
      /\ selecting' = [t \in Terms |-> IF selecting[t] = "yes" /\ ~TouchIsActive
                                       THEN "lost" ELSE selecting[t]]
      /\ UNCHANGED <<place, mouseFocus, surface, touch, target, moveTimer, termWindow>>
  BY DEF Withhold
<1>2. ButtonTypes' /\ (buttons' = <<>> <=> buttons = <<>>)
  BY <1>1, LostIs, InvNow DEF ButtonTypes, Unique
<1>3. Members(buttons)' = Members(Lost("pointer"))
  BY <1>1 DEF Members
<1>4. PlaceTypes'
  BY <1>1, InvNow DEF PlaceTypes
<1>5. FocusUnderPointer' /\ TouchOk'
  BY <1>1, <1>2 DEF PointerInv, FocusUnderPointer, TouchOk, TouchIsActive
<1>6. ASSUME NEW y \in Members(buttons)' PROVE HeldOk(y)'
  <2>1. PICK x \in Members(buttons) : /\ y.button = x.button /\ y.surf = x.surf
                                      /\ y.by = IF x.by = "pointer" THEN "lost" ELSE x.by
    BY <1>3, LostIs, InvNow
  <2>. QED  BY <1>1, <2>1 DEF PointerInv, HeldOk
<1>7. ASSUME NEW t \in Terms, selecting'[t] = "yes" PROVE SelectOk(t)'
  <2>1. selecting[t] = "yes" /\ TouchIsActive
    BY <1>1, <1>7
  <2>2. PICK x \in Members(buttons) :
          /\ x.surf = "grid"
          /\ (x.by = "pointer" /\ mouseFocus = t) \/ (x.by = "touch" /\ target.term = t)
    BY <2>1 DEF PointerInv, SelectOk
  <2>3. x.by = "touch" /\ target.term = t
    BY <2>1, <2>2, InvNow DEF TouchIsActive
  <2>4. PICK y \in Members(Lost("pointer")) : y.surf = x.surf /\ y.by = x.by
    <3>1. PICK y \in Members(Lost("pointer")) :
            y.surf = x.surf /\ y.by = IF x.by = "pointer" THEN "lost" ELSE x.by
      BY LostIs, InvNow
    <3>. QED  BY <2>3, <3>1
  <2>. QED  BY <1>1, <1>3, <2>2, <2>3, <2>4 DEF SelectOk
<1>8. ASSUME NEW t \in Terms, moveTimer'[t] = "armed" PROVE TimerOk(t)'
  <2>1. touch = "inhibited" /\ mouseFocus = t /\ surface[t] = "title"
    BY <1>1, <1>8 DEF PointerInv, TimerOk
  <2>2. PICK x \in Members(buttons) : x.surf = "title"
    BY <1>1, <1>8 DEF PointerInv, TimerOk
  <2>3. PICK y \in Members(Lost("pointer")) : y.surf = x.surf
    BY LostIs, InvNow
  <2>. QED  BY <1>1, <1>3, <2>1, <2>2, <2>3 DEF TimerOk
<1>9. \A t \in Terms : SelectOk(t)' /\ TimerOk(t)'
  BY <1>7, <1>8 DEF SelectOk, TimerOk
<1>. QED  BY <1>2, <1>4, <1>5, <1>6, <1>9 DEF PointerInv

\* A timer that is disarmed harms nothing.
LEMMA DisarmedInv ==
  ASSUME PointerInv, moveTimer' \in [Terms -> {"none", "armed", "orphan", "stale"}],
         \A t \in Terms : moveTimer'[t] = "armed" => moveTimer[t] = "armed",
         UNCHANGED <<place, down, mouseFocus, surface, buttons, touch, target, selecting, termWindow>>
  PROVE  PointerInv'
<1>1. ButtonTypes' /\ Members(buttons)' = Members(buttons)
  BY InvNow, SameButtons
<1>2. PlaceTypes'
  BY InvNow DEF PlaceTypes
<1>3. FocusUnderPointer' /\ TouchOk'
  BY DEF PointerInv, FocusUnderPointer, TouchOk, TouchIsActive
<1>4. \A x \in Members(buttons) : HeldOk(x)'
  BY DEF PointerInv, HeldOk
<1>5. \A t \in Terms : SelectOk(t)' /\ TimerOk(t)'
  BY <1>1 DEF PointerInv, SelectOk, TimerOk
<1>. QED  BY <1>1, <1>2, <1>3, <1>4, <1>5 DEF PointerInv

LEMMA MotionInv ==
  ASSUME PointerInv, Motion
  PROVE  PointerInv'
<1>1. moveTimer' = [moveTimer EXCEPT ![mouseFocus] = "none"]
  BY DEF Motion
<1>2. mouseFocus \in Terms /\ moveTimer \in [Terms -> {"none", "armed", "orphan", "stale"}]
  BY InvNow DEF Motion, PlaceTypes
<1>. QED  BY <1>1, <1>2, DisarmedInv DEF Motion

LEMMA CsdMoveInv ==
  ASSUME PointerInv, NEW t \in Terms, CsdMove(t)
  PROVE  PointerInv'
<1>1. moveTimer' = [u \in Terms |-> IF u = mouseFocus THEN "none"
                                    ELSE IF u = t THEN "stale" ELSE moveTimer[u]]
  BY DEF CsdMove
<1>2. moveTimer \in [Terms -> {"none", "armed", "orphan", "stale"}]
  BY InvNow DEF PlaceTypes
<1>3. moveTimer' \in [Terms -> {"none", "armed", "orphan", "stale"}]
  BY <1>1, <1>2
<1>4. \A u \in Terms : moveTimer'[u] = "armed" => moveTimer[u] = "armed"
  BY <1>1
<1>. QED  BY <1>3, <1>4, DisarmedInv DEF CsdMove

-----------------------------------------------------------------------------
(* Touch, and the end of a window. *)

\* While no button is held by a device, nothing is dragged.
LEMMA NothingHeld ==
  ASSUME PointerInv, touch \notin {"inhibited", "dragging"}
  PROVE  /\ \A x \in Members(buttons) : x.by = "lost"
         /\ \A t \in Terms : selecting[t] # "yes" /\ moveTimer[t] # "armed"
<1>1. ASSUME NEW x \in Members(buttons) PROVE x.by = "lost"
  <2>1. x.by \in {"pointer", "touch", "lost"}
    BY InvNow DEF Trackers
  <2>. QED  BY <2>1, InvNow
<1>2. ASSUME NEW t \in Terms PROVE selecting[t] # "yes" /\ moveTimer[t] # "armed"
  <2>1. SelectOk(t) /\ TimerOk(t)
    BY DEF PointerInv
  <2>. QED  BY <1>1, <2>1 DEF SelectOk, TimerOk
<1>. QED  BY <1>1, <1>2

\* A touch that presses nothing.
LEMMA QuietTouchInv ==
  ASSUME PointerInv, touch \notin {"inhibited", "dragging"},
         touch' \in {"idle", "held", "scrolling"}, target' \in Places \cup {None},
         touch' # "idle" => target' # None,
         UNCHANGED <<place, down, mouseFocus, surface, buttons, selecting, moveTimer, termWindow>>
  PROVE  PointerInv'
<1>1. ButtonTypes' /\ Members(buttons)' = Members(buttons)
  BY InvNow, SameButtons
<1>2. PlaceTypes'
  BY InvNow DEF PlaceTypes
<1>3. FocusUnderPointer' /\ TouchOk'
  BY DEF PointerInv, FocusUnderPointer, TouchOk, TouchIsActive
<1>4. \A x \in Members(buttons) : HeldOk(x)'
  BY NothingHeld DEF HeldOk
<1>5. \A t \in Terms : SelectOk(t)' /\ TimerOk(t)'
  BY NothingHeld DEF SelectOk, TimerOk
<1>. QED  BY <1>1, <1>2, <1>3, <1>4, <1>5 DEF PointerInv

LEMMA TouchDownInv ==
  ASSUME PointerInv, NEW p \in Places, TouchDown(p)
  PROVE  PointerInv'
<1>1. /\ touch = "idle" /\ touch' = "held" /\ target' = p
      /\ UNCHANGED <<place, down, mouseFocus, surface, buttons, selecting, moveTimer, termWindow>>
  BY DEF TouchDown
<1>2. p # None
  BY PointerAssumption
<1>. QED  BY <1>1, <1>2, QuietTouchInv

LEMMA TouchMotionInv ==
  ASSUME PointerInv, TouchMotion
  PROVE  PointerInv'
<1>1. /\ touch = "held"
      /\ UNCHANGED <<place, down, mouseFocus, surface, target, termWindow>>
  BY DEF TouchMotion
<1>2. target # None /\ target \in Places
  BY <1>1, InvNow DEF PointerInv, TouchOk, TouchIsActive, PlaceTypes
<1>3. target.term \in Terms /\ target.surf \in Surfaces
  BY <1>2 DEF Places
<1>4. CASE touch' = "scrolling" /\ UNCHANGED <<buttons, selecting, moveTimer>>
  BY <1>1, <1>2, <1>4, QuietTouchInv
<1>5. CASE /\ touch' = "dragging"
           /\ buttons' = Track(Left, target.surf, "touch")
           /\ \E started \in {TRUE, FALSE} :
                selecting' = IF started /\ target.surf = "grid"
                             THEN [selecting EXCEPT ![target.term] = "yes"] ELSE selecting
           /\ moveTimer' = EndsTimer(target.surf, target.term)
  <2>. DEFINE new == [button |-> Left, surf |-> target.surf, by |-> "touch"]
  <2>1. /\ ButtonTypes'
        /\ Members(buttons)' = {x \in Members(buttons) : x.button # Left} \cup {new}
    BY <1>3, <1>5, TrackIs, InvNow, PointerAssumption DEF ButtonTypes, Unique, Members
  <2>2. new \in Members(buttons)' /\ new.surf = target.surf /\ new.by = "touch" /\ new.button = Left
    BY <2>1
  <2>. HIDE DEF new
  <2>3. \/ selecting' = selecting
        \/ target.surf = "grid" /\ selecting' = [selecting EXCEPT ![target.term] = "yes"]
    BY <1>5
  <2>4. \A t \in Terms : moveTimer'[t] = "armed" => moveTimer[t] = "armed"
    BY <1>5, InvNow DEF PlaceTypes, EndsTimer
  <2>5. PlaceTypes'
    BY <1>1, <1>3, <1>5, <2>3, InvNow DEF PlaceTypes, EndsTimer
  <2>6. FocusUnderPointer' /\ TouchOk'
    BY <1>1, <1>2, <1>5 DEF PointerInv, FocusUnderPointer, TouchOk
  <2>7. \A x \in Members(buttons)' : HeldOk(x)'
    BY <1>1, <1>5, <2>1, <2>2, NothingHeld DEF HeldOk
  <2>8. ASSUME NEW t \in Terms PROVE SelectOk(t)' /\ TimerOk(t)'
    <3>1. selecting[t] # "yes" /\ moveTimer[t] # "armed"
      BY <1>1, NothingHeld
    <3>2. TimerOk(t)'
      BY <2>4, <3>1 DEF TimerOk
    <3>3. selecting'[t] = "yes" => target.surf = "grid" /\ target.term = t
      BY <1>3, <2>3, <3>1, InvNow DEF PlaceTypes
    <3>. QED  BY <1>1, <2>2, <3>2, <3>3 DEF SelectOk
  <2>. QED  BY <2>1, <2>5, <2>6, <2>7, <2>8 DEF PointerInv
<1>. QED  BY <1>4, <1>5 DEF TouchMotion

LEMMA TouchUpInv ==
  ASSUME PointerInv, TouchUp
  PROVE  PointerInv'
<1>1. /\ TouchIsActive /\ touch' = "idle" /\ target' = None
      /\ UNCHANGED <<place, down, mouseFocus, surface, termWindow>>
  BY DEF TouchUp
<1>2. target \in Places /\ touch # "inhibited"
  BY <1>1, InvNow DEF PointerInv, TouchOk, PlaceTypes, TouchIsActive
<1>3. target.term \in Terms
  BY <1>2 DEF Places
<1>4. CASE touch = "scrolling"
  <2>1. UNCHANGED <<buttons, selecting, moveTimer>>
    BY <1>4 DEF TouchUp
  <2>. QED  BY <1>1, <1>4, <2>1, QuietTouchInv
<1>5. CASE touch # "scrolling"
  <2>1. /\ buttons' = Without(Left)
        /\ selecting' = EndsSelection(target.surf, target.term)
        /\ moveTimer' = EndsTimer(target.surf, target.term)
    BY <1>5 DEF TouchUp
  <2>2. ButtonTypes' /\ Members(buttons)' = {x \in Members(buttons) : x.button # Left}
    BY <2>1, WithoutIs, InvNow DEF ButtonTypes, Unique, Members
  <2>3. PlaceTypes'
    BY <1>1, <1>3, <2>1, InvNow DEF PlaceTypes, EndsSelection, EndsTimer
  <2>4. FocusUnderPointer' /\ TouchOk'
    BY <1>1 DEF PointerInv, FocusUnderPointer, TouchOk, TouchIsActive
  <2>5. ASSUME NEW x \in Members(buttons)' PROVE HeldOk(x)'
    <3>1. x \in Members(buttons) /\ x.button # Left /\ HeldOk(x)
      BY <2>2 DEF PointerInv
    <3>2. x.by # "pointer" /\ x.by # "touch"
      BY <1>2, <3>1 DEF HeldOk
    <3>. QED  BY <3>2 DEF HeldOk
  <2>6. ASSUME NEW t \in Terms PROVE SelectOk(t)'
    <3>1. CASE selecting[t] = "yes"
      <4>1. PICK x \in Members(buttons) :
              /\ x.surf = "grid"
              /\ (x.by = "pointer" /\ mouseFocus = t) \/ (x.by = "touch" /\ target.term = t)
        BY <3>1 DEF PointerInv, SelectOk
      <4>2. HeldOk(x)
        BY DEF PointerInv
      <4>3. target.term = t /\ target.surf = "grid"
        BY <1>2, <4>1, <4>2 DEF HeldOk
      <4>4. selecting'[t] # "yes"
        BY <2>1, <4>3, InvNow DEF PlaceTypes, EndsSelection
      <4>. QED  BY <4>4 DEF SelectOk
    <3>2. CASE selecting[t] # "yes"
      <4>1. selecting'[t] # "yes"
        BY <2>1, <3>2, InvNow DEF PlaceTypes, EndsSelection
      <4>. QED  BY <4>1 DEF SelectOk
    <3>. QED  BY <3>1, <3>2
  <2>7. ASSUME NEW t \in Terms PROVE TimerOk(t)'
    <3>1. moveTimer[t] # "armed"
      BY <1>2 DEF PointerInv, TimerOk
    <3>2. moveTimer'[t] # "armed"
      BY <2>1, <3>1, InvNow DEF PlaceTypes, EndsTimer
    <3>. QED  BY <3>2 DEF TimerOk
  <2>. QED  BY <2>2, <2>3, <2>4, <2>5, <2>6, <2>7 DEF PointerInv
<1>. QED  BY <1>4, <1>5

LEMMA TouchCancelInv ==
  ASSUME PointerInv, TouchCancel
  PROVE  PointerInv'
<1>1. /\ TouchIsActive /\ touch' = "idle" /\ target' = None /\ buttons' = Lost("touch")
      /\ selecting' = IF selecting[target.term] = "yes"
                      THEN [selecting EXCEPT ![target.term] = "lost"] ELSE selecting
      /\ UNCHANGED <<place, down, mouseFocus, surface, moveTimer, termWindow>>
  BY DEF TouchCancel
<1>2. target \in Places /\ touch # "inhibited"
  BY <1>1, InvNow DEF PointerInv, TouchOk, PlaceTypes, TouchIsActive
<1>3. target.term \in Terms
  BY <1>2 DEF Places
<1>4. ButtonTypes'
  BY <1>1, LostIs, InvNow DEF ButtonTypes, Unique
<1>5. Members(buttons)' = Members(Lost("touch"))
  BY <1>1 DEF Members
<1>6. PlaceTypes'
  BY <1>1, <1>3, InvNow DEF PlaceTypes
<1>7. FocusUnderPointer' /\ TouchOk'
  BY <1>1 DEF PointerInv, FocusUnderPointer, TouchOk, TouchIsActive
<1>8. ASSUME NEW y \in Members(buttons)' PROVE HeldOk(y)'
  <2>1. PICK x \in Members(buttons) : y.by = IF x.by = "touch" THEN "lost" ELSE x.by
    BY <1>5, LostIs, InvNow
  <2>2. x.by # "pointer"
    BY <1>2, InvNow
  <2>. QED  BY <2>1, <2>2 DEF HeldOk
<1>9. ASSUME NEW t \in Terms PROVE SelectOk(t)'
  <2>1. CASE t = target.term
    <3>1. selecting'[t] # "yes"
      BY <1>1, <2>1, InvNow DEF PlaceTypes
    <3>. QED  BY <3>1 DEF SelectOk
  <2>2. CASE t # target.term
    <3>1. selecting[t] # "yes"
      BY <1>2, <2>2, InvNow DEF PointerInv, SelectOk
    <3>2. selecting'[t] # "yes"
      BY <1>1, <2>2, <3>1, InvNow DEF PlaceTypes
    <3>. QED  BY <3>2 DEF SelectOk
  <2>. QED  BY <2>1, <2>2
<1>10. \A t \in Terms : TimerOk(t)'
  BY <1>1, <1>2 DEF PointerInv, TimerOk
<1>. QED  BY <1>4, <1>6, <1>7, <1>8, <1>9, <1>10 DEF PointerInv

LEMMA PointerShutdownInv ==
  ASSUME PointerInv, NEW t \in Terms, PointerShutdown(t)
  PROVE  PointerInv'
<1>1. /\ termWindow[t] = "open" /\ termWindow' = [termWindow EXCEPT ![t] = "gone"]
      /\ mouseFocus' = IF mouseFocus = t THEN None ELSE mouseFocus
      /\ selecting' = [selecting EXCEPT ![t] = "no"]
      /\ moveTimer' = [moveTimer EXCEPT ![t] = "none"]
      /\ UNCHANGED <<down, target>>
  BY DEF PointerShutdown
<1>2. /\ selecting'[t] = "no" /\ moveTimer'[t] = "none"
      /\ \A u \in Terms \ {t} : selecting'[u] = selecting[u] /\ moveTimer'[u] = moveTimer[u]
  BY <1>1, InvNow DEF PlaceTypes
<1>3. t # None
  BY ParticipantsAssumption
<1>4. CASE /\ place # None /\ place.term = t /\ ~TouchIsActive
           /\ place' = None
           /\ touch' = IF touch = "inhibited" THEN "idle" ELSE touch
           /\ buttons' = <<>>
           /\ surface' = [surface EXCEPT ![t] = "none"]
  <2>1. mouseFocus = t /\ touch # "dragging"
    BY <1>1, <1>4 DEF PointerInv, FocusUnderPointer, TouchIsActive
  <2>2. touch' = "idle"
    BY <1>4, InvNow DEF PlaceTypes, TouchIsActive
  <2>3. PlaceTypes'
    BY <1>1, <1>4, <2>2, InvNow DEF PlaceTypes
  <2>4. ButtonTypes' /\ Members(buttons)' = {}
    BY <1>4 DEF ButtonTypes, Unique, Members
  <2>5. FocusUnderPointer' /\ TouchOk'
    BY <1>4, <2>2 DEF FocusUnderPointer, TouchOk, TouchIsActive
  \* What another terminal does, it does with the focus, which this one has.
  <2>6. ASSUME NEW u \in Terms \ {t} PROVE selecting[u] # "yes" /\ moveTimer[u] # "armed"
    <3>1. SelectOk(u) /\ TimerOk(u)
      BY DEF PointerInv
    <3>2. moveTimer[u] # "armed"
      BY <2>1, <3>1 DEF TimerOk
    <3>3. selecting[u] # "yes"
      BY <2>1, <3>1, InvNow DEF SelectOk
    <3>. QED  BY <3>2, <3>3
  <2>7. \A u \in Terms : SelectOk(u)' /\ TimerOk(u)'
    BY <1>2, <2>6 DEF SelectOk, TimerOk
  <2>. QED  BY <2>3, <2>4, <2>5, <2>7 DEF PointerInv
<1>5. CASE UNCHANGED <<place, touch, buttons, surface>>
  <2>1. PlaceTypes'
    BY <1>1, <1>5, InvNow DEF PlaceTypes
  <2>2. ButtonTypes' /\ Members(buttons)' = Members(buttons)
    BY <1>5, InvNow, SameButtons
  <2>3. TouchOk'
    BY <1>1, <1>5 DEF PointerInv, TouchOk, TouchIsActive
  <2>4. FocusUnderPointer'
    <3>1. SUFFICES ASSUME place # None, termWindow'[place.term] = "open"
                   PROVE  mouseFocus' = place.term /\ surface[mouseFocus'] = place.surf
      BY <1>5 DEF FocusUnderPointer
    <3>2. place.term \in Terms
      BY <3>1, InvNow DEF PlaceTypes, Places
    <3>3. place.term # t /\ termWindow[place.term] = "open"
      BY <1>1, <3>1, <3>2, InvNow DEF PlaceTypes
    <3>. QED  BY <1>1, <3>1, <3>3 DEF PointerInv, FocusUnderPointer
  <2>5. \A x \in Members(buttons) : HeldOk(x)'
    BY <1>1, <1>5 DEF PointerInv, HeldOk
  <2>6. ASSUME NEW u \in Terms PROVE SelectOk(u)' /\ TimerOk(u)'
    <3>1. CASE u = t
      BY <1>2, <3>1 DEF SelectOk, TimerOk
    <3>2. CASE u # t
      <4>1. SelectOk(u) /\ TimerOk(u) /\ selecting'[u] = selecting[u] /\ moveTimer'[u] = moveTimer[u]
        BY <1>2, <3>2 DEF PointerInv
      <4>2. mouseFocus = u => mouseFocus' = u
        BY <1>1, <3>2
      <4>. QED  BY <1>1, <1>5, <2>2, <4>1, <4>2 DEF SelectOk, TimerOk
    <3>. QED  BY <3>1, <3>2
  <2>. QED  BY <2>1, <2>2, <2>3, <2>4, <2>5, <2>6 DEF PointerInv
<1>. QED  BY <1>4, <1>5 DEF PointerShutdown

-----------------------------------------------------------------------------
LEMMA PointerInitInv == PointerInit => PointerInv
<1>. SUFFICES ASSUME PointerInit PROVE PointerInv
  OBVIOUS
<1>1. PlaceTypes
  BY DEF PointerInit, PlaceTypes
<1>2. ButtonTypes /\ Members(buttons) = {}
  BY DEF PointerInit, ButtonTypes, Unique, Members
<1>3. FocusUnderPointer /\ TouchOk /\ \A t \in Terms : SelectOk(t) /\ TimerOk(t)
  BY DEF PointerInit, FocusUnderPointer, TouchOk, TouchIsActive, SelectOk, TimerOk
<1>. QED  BY <1>1, <1>2, <1>3 DEF PointerInv

LEMMA PointerStepInv ==
  ASSUME PointerInv, [PointerNext]_pointerVars
  PROVE  PointerInv'
<1>1. CASE UNCHANGED pointerVars
  <2>1. UNCHANGED <<place, down, mouseFocus, surface, buttons, touch, target, selecting, moveTimer,
                    termWindow>>
    BY <1>1 DEF pointerVars
  <2>2. moveTimer' \in [Terms -> {"none", "armed", "orphan", "stale"}]
    BY <2>1, InvNow DEF PlaceTypes
  <2>. QED  BY <2>1, <2>2, DisarmedInv
<1>2. CASE PointerNext
  BY <1>2, PointerEnterInv, PointerLeaveInv, ButtonPressInv, ButtonReleaseInv, WithholdInv,
     MotionInv, CsdMoveInv, TouchDownInv, TouchMotionInv, TouchUpInv, TouchCancelInv,
     PointerShutdownInv
     DEF PointerNext
<1>. QED  BY <1>1, <1>2

THEOREM PointerInvHolds == PointerSpec => []PointerInv
<1>. QED  BY PointerInitInv, PointerStepInv, PTL DEF PointerSpec

\* Pointer events find the surface the pointer is in, a button is tracked once and
\* only while its device holds it down, and a drag goes on only with a button that
\* was pressed for it, in any order of pointer, touch and windows (PointerKept).
THEOREM PointerIsKept == PointerSpec => []PointerKept
<1>1. PointerInv => PointerKept
  <2>. SUFFICES ASSUME PointerInv PROVE PointerKept
    OBVIOUS
  <2>1. DOMAIN buttons = 1 .. Len(buttons) /\ \A i \in DOMAIN buttons : buttons[i] \in Members(buttons)
    BY InvNow DEF ButtonTypes, Members
  <2>2. ButtonsHeld
    BY <2>1, InvNow DEF PointerInv, ButtonTypes, Unique, HeldOk, TouchOk, ButtonsHeld
  <2>3. ASSUME NEW t \in Terms, selecting[t] = "yes"
        PROVE  \E i \in DOMAIN buttons :
                 /\ buttons[i].surf = "grid"
                 /\ IF buttons[i].by = "touch" THEN target.term = t ELSE mouseFocus = t
    <3>1. PICK x \in Members(buttons) :
            /\ x.surf = "grid"
            /\ (x.by = "pointer" /\ mouseFocus = t) \/ (x.by = "touch" /\ target.term = t)
      BY <2>3 DEF PointerInv, SelectOk
    <3>2. PICK i \in DOMAIN buttons : x = buttons[i]
      BY DEF Members
    <3>. QED  BY <3>1, <3>2
  <2>4. ASSUME NEW t \in Terms, moveTimer[t] = "armed"
        PROVE  mouseFocus = t /\ \E i \in DOMAIN buttons : buttons[i].surf = "title"
    BY <2>4 DEF PointerInv, TimerOk, Members
  <2>5. DragsHeld
    BY <2>3, <2>4 DEF DragsHeld
  <2>. QED  BY <2>2, <2>5 DEF PointerInv, PointerKept
<1>. QED  BY <1>1, PointerInvHolds, PTL

-----------------------------------------------------------------------------
(***************************************************************************)
(* KeyBindings.  The sets that a terminal counts itself in, seat by seat   *)
(* (NewForConf), and those that are left when some are destroyed (Removed) *)
(* are recursive functions; NewForConfIs and RemovedKeeps say what they    *)
(* return.  SetsCounted is not inductive alone: it needs that every        *)
(* configuration in use has its set for every seat (Exact), which Found,   *)
(* with the cached place, then finds.                                      *)
(***************************************************************************)

(* The elements of a finite set in some order, each once.                  *)
LEMMA ListOf ==
  ASSUME NEW S, IsFiniteSet(S)
  PROVE  /\ SetToSeq(S) \in Seq(S)
         /\ \A i, j \in 1 .. Len(SetToSeq(S)) : SetToSeq(S)[i] = SetToSeq(S)[j] => i = j
         /\ \A x \in S : \E i \in 1 .. Len(SetToSeq(S)) : SetToSeq(S)[i] = x
<1> DEFINE n == Cardinality(S)
           list == SetToSeq(S)
<1>1. n \in Nat
  BY FS_CardinalityType
<1>2. PICK f : f \in Bijection(1 .. n, S)
  BY FS_CardinalityType DEF ExistsBijection
<1>3. f \in [1 .. n -> S] /\ IsInjective(f)
  BY <1>2 DEF Bijection, Injection
<1>4. list \in [1 .. n -> S] /\ IsInjective(list)
  BY <1>3 DEF SetToSeq
<1> HIDE DEF list
<1>5. list \in Seq(S) /\ Len(list) = n
  <2> HIDE DEF n
  <2> QED BY <1>1, <1>4
<1>6. list \in Injection(1 .. n, S)
  BY <1>4 DEF Injection
<1>7. Cardinality(1 .. n) = n /\ IsFiniteSet(1 .. n)
  <2> HIDE DEF n
  <2>1. IsFiniteSet(1 .. n) /\ Cardinality(1 .. n) = IF 1 > n THEN 0 ELSE n - 1 + 1
    BY <1>1, FS_Interval
  <2> QED BY <2>1, <1>1
<1>8. list \in Surjection(1 .. n, S)
  BY <1>6, <1>7, FS_Injection
<1>9. \A x \in S : \E i \in 1 .. n : list[i] = x
  BY <1>8 DEF Surjection
<1>10. \A i, j \in 1 .. n : list[i] = list[j] => i = j
  BY <1>4 DEF IsInjective
<1> QED BY <1>5, <1>9, <1>10 DEF list

(* What is removed is gone, and what is left keeps its order: pos is where *)
(* it goes.                                                                *)
Kept(q, new, places, pos) ==
  /\ \A i \in 1 .. Len(new) : \E j \in 1 .. Len(q) :
        j \notin places /\ pos[j] = i /\ new[i] = q[j]
  /\ \A j \in 1 .. Len(q) : j \notin places =>
        \E i \in 1 .. Len(new) : pos[j] = i /\ new[i] = q[j]
  /\ \A i, j \in 1 .. Len(q) : i < j /\ j \notin places => pos[i] < pos[j]

LEMMA RemovedIs ==
  ASSUME NEW X, NEW m, m.sets \in Seq(X), m.last \in 0 .. Len(m.sets), NEW places
  PROVE  LET r == Removed(m, places)
         IN  /\ r.sets \in Seq(X) /\ r.last \in 0 .. Len(r.sets)
             /\ \E pos : Kept(m.sets, r.sets, places, pos)
<1> DEFINE Y == Seq(X)
           q == m.sets
           n == Len(q)
           Next1(s, k) == IF k \in places THEN s ELSE Append(s, q[k])
           Rec(g) == [k \in 0 .. n |-> IF k = 0 THEN <<>>
                                       ELSE IF k \in places THEN g[k - 1] ELSE Append(g[k - 1], q[k])]
           f == CHOOSE g : g = Rec(g)
           step == [j \in Nat |-> [s \in Y |-> IF j + 1 \in 1 .. n /\ Next1(s, j + 1) \in Y
                                               THEN Next1(s, j + 1) ELSE <<>>]]
<1>0. q \in Y /\ n \in Nat /\ \A i \in 1 .. n : q[i] \in X
  OBVIOUS
<1>1. ASSUME NEW s \in Y, NEW i \in 1 .. n PROVE Next1(s, i) \in Y
  BY <1>0
<1>2. step \in [Nat -> [Y -> Y]] /\ <<>> \in Y
  OBVIOUS
<1>3. PICK h \in [0 .. n -> Y] : h[0] = <<>> /\ \A i \in 0 .. n - 1 : h[i + 1] = step[i][h[i]]
  <2> HIDE DEF Y, step, Rec, f, n
  <2>1. \E h : Recursive(h, Y, <<>>, step, n)
    BY <1>0, <1>2, FiniteRecursion
  <2> QED BY <2>1 DEF Recursive
<1>4. h = Rec(h)
  <2> SUFFICES ASSUME NEW k \in 0 .. n PROVE h[k] = Rec(h)[k]
    OBVIOUS
  <2>1. CASE k = 0
    BY <2>1, <1>3
  <2>2. CASE k # 0
    <3>1. k - 1 \in 0 .. n - 1 /\ (k - 1) + 1 = k /\ k \in 1 .. n /\ k - 1 \in Nat
      BY <2>2, <1>0
    <3>2. h[k] = step[k - 1][h[k - 1]] /\ h[k - 1] \in Y
      <4> HIDE DEF step, Y, Rec, f, n
      <4>1. h[(k - 1) + 1] = step[k - 1][h[k - 1]]
        BY <1>3, <3>1
      <4>2. k - 1 \in 0 .. n
        BY <1>0, <3>1
      <4> QED BY <4>1, <4>2, <3>1, <1>3
    <3>3. Next1(h[k - 1], k) \in Y
      <4> HIDE DEF Next1, Y, n
      <4> QED BY <3>1, <3>2, <1>1
    <3>4. step[k - 1][h[k - 1]] = Next1(h[k - 1], k)
      <4> HIDE DEF Y, n, Next1
      <4> QED BY <3>1, <3>2, <3>3
    <3> QED BY <3>1, <3>2, <3>4, <2>2
  <2> QED BY <2>1, <2>2
<1>5. f = Rec(f)
  <2> HIDE DEF Rec
  <2> QED BY <1>4
<1>6. /\ Removed(m, places).sets = f[n]
      /\ Removed(m, places).last = IF m.last \in places THEN 0 ELSE Len(f[m.last])
  BY DEF Removed
<1> HIDE DEF f
<1>7. f[0] = <<>> /\ \A k \in 1 .. n : f[k] = Next1(f[k - 1], k)
  <2>1. 0 \in 0 .. n /\ \A k \in 1 .. n : k \in 0 .. n /\ k # 0
    BY <1>0
  <2>2. \A k \in 0 .. n : Rec(f)[k] = IF k = 0 THEN <<>> ELSE Next1(f[k - 1], k)
    <3> HIDE DEF n
    <3> QED OBVIOUS
  <2>3. \A k \in 0 .. n : f[k] = IF k = 0 THEN <<>> ELSE Next1(f[k - 1], k)
    <3> HIDE DEF Rec, n, Next1
    <3> QED BY <2>2, <1>5
  <2> HIDE DEF Rec, n, Next1
  <2> QED BY <2>1, <2>3
<1> DEFINE Good(k) ==
             /\ f[k] \in Y
             /\ \A i \in 1 .. Len(f[k]) : \E j \in 1 .. k :
                  j \notin places /\ Len(f[j]) = i /\ f[k][i] = q[j]
             /\ \A j \in 1 .. k : j \notin places =>
                  Len(f[j]) \in 1 .. Len(f[k]) /\ f[k][Len(f[j])] = q[j]
             /\ \A j \in 0 .. k : Len(f[j]) \in 0 .. Len(f[k])
             /\ \A i, j \in 1 .. k : i < j /\ j \notin places => Len(f[i]) < Len(f[j])
           T == {k \in Nat : k <= n => Good(k)}
<1>8. 0 \in T
  <2>1. f[0] = <<>> /\ 1 .. 0 = {} /\ 0 .. 0 = {0} /\ Len(<<>>) = 0
    BY <1>7
  <2>2. Good(0)
    BY <2>1, <1>2
  <2> QED BY <2>2
<1>9. ASSUME NEW k \in Nat, k \in T PROVE k + 1 \in T
  <2> SUFFICES ASSUME k + 1 <= n PROVE Good(k + 1)
    OBVIOUS
  <2>1. k <= n /\ k + 1 \in 1 .. n /\ (k + 1) - 1 = k
    BY <1>0
  <2>2. Good(k)
    BY <1>9, <2>1
  <2>3. f[k + 1] = Next1(f[k], k + 1)
    <3> HIDE DEF Rec, Good, T, n, Next1
    <3> QED BY <1>7, <2>1
  <2>4. 1 .. k + 1 = (1 .. k) \cup {k + 1} /\ 0 .. k + 1 = (0 .. k) \cup {k + 1}
    OBVIOUS
  <2>5. f[k] \in Y /\ Len(f[k]) \in Nat
    BY <2>2
  <2>6. CASE k + 1 \in places
    <3>1. f[k + 1] = f[k]
      BY <2>3, <2>6
    <3>2. Len(f[k + 1]) \in 0 .. Len(f[k + 1])
      BY <3>1, <2>5
    <3>3. \A i, j \in 1 .. k + 1 : i < j /\ j \notin places => Len(f[i]) < Len(f[j])
      <4>1. ASSUME NEW i \in 1 .. k + 1, NEW j \in 1 .. k + 1, i < j, j \notin places
            PROVE  i \in 1 .. k /\ j \in 1 .. k
        <5>1. j # k + 1
          BY <2>6, <4>1
        <5> QED BY ONLY <5>1, k \in Nat, i \in 1 .. k + 1, j \in 1 .. k + 1, i < j
      <4> QED BY <4>1, <2>2
    <3> QED BY <2>2, <3>1, <3>2, <3>3, <2>4, <2>6
  <2>7. CASE k + 1 \notin places
    <3> DEFINE l == Len(f[k])
    <3>1. f[k + 1] = Append(f[k], q[k + 1])
      BY <2>3, <2>7
    <3>2. /\ f[k + 1] \in Y /\ Len(f[k + 1]) = l + 1 /\ f[k + 1][l + 1] = q[k + 1]
          /\ \A i \in 1 .. l : f[k + 1][i] = f[k][i]
      BY <3>1, <2>5, <2>1, <1>0
    <3>3. 1 .. l + 1 = (1 .. l) \cup {l + 1}
      BY <2>5
    <3>4. \A i \in 1 .. l + 1 : \E j \in 1 .. k + 1 :
            j \notin places /\ Len(f[j]) = i /\ f[k + 1][i] = q[j]
      <4>1. ASSUME NEW i \in 1 .. l
            PROVE  \E j \in 1 .. k + 1 : j \notin places /\ Len(f[j]) = i /\ f[k + 1][i] = q[j]
        <5>1. \E j \in 1 .. k : j \notin places /\ Len(f[j]) = i /\ f[k][i] = q[j]
          BY <2>2
        <5> QED BY <5>1, <3>2, <2>4
      <4>2. \E j \in 1 .. k + 1 : j \notin places /\ Len(f[j]) = l + 1 /\ f[k + 1][l + 1] = q[j]
        BY <3>2, <2>4, <2>7
      <4> QED BY <4>1, <4>2, <3>3
    <3>5. \A j \in 1 .. k + 1 : j \notin places =>
            Len(f[j]) \in 1 .. l + 1 /\ f[k + 1][Len(f[j])] = q[j]
      <4>1. ASSUME NEW j \in 1 .. k, j \notin places
            PROVE  Len(f[j]) \in 1 .. l + 1 /\ f[k + 1][Len(f[j])] = q[j]
        <5>1. Len(f[j]) \in 1 .. l /\ f[k][Len(f[j])] = q[j]
          BY <2>2, <4>1
        <5> QED BY <5>1, <3>2, <3>3
      <4>2. l + 1 \in 1 .. l + 1
        BY <2>5
      <4> QED BY <4>1, <4>2, <3>2, <2>4
    <3>6. \A j \in 0 .. k + 1 : Len(f[j]) \in 0 .. l + 1
      <4>1. \A j \in 0 .. k : Len(f[j]) \in 0 .. l
        BY <2>2
      <4>2. 0 .. l \subseteq 0 .. l + 1 /\ l + 1 \in 0 .. l + 1
        BY <2>5
      <4> QED BY <4>1, <4>2, <3>2, <2>4
    <3>7. ASSUME NEW i \in 1 .. k + 1, NEW j \in 1 .. k + 1, i < j, j \notin places
          PROVE  Len(f[i]) < Len(f[j])
      <4>1. i \in 1 .. k /\ i \in 0 .. k /\ (j \in 1 .. k \/ j = k + 1)
        BY <3>7
      <4>2. Len(f[i]) \in 0 .. l /\ l \in Nat
        BY <4>1, <2>2, <2>5
      <4>3. j = k + 1 => Len(f[j]) = l + 1
        BY <3>2
      <4> HIDE DEF l
      <4>4. j = k + 1 => Len(f[i]) < Len(f[j])
        BY <4>2, <4>3
      <4>5. j \in 1 .. k => Len(f[i]) < Len(f[j])
        <5> HIDE DEF f, n, q
        <5> QED BY <4>1, <3>7, <2>2
      <4> QED BY <4>1, <4>4, <4>5
    <3> HIDE DEF l
    <3> QED BY <3>2, <3>4, <3>5, <3>6, <3>7
  <2> QED BY <2>6, <2>7
<1>10. Good(n)
  <2> HIDE DEF T
  <2>1. n \in T
    BY <1>0, <1>8, <1>9, Induction
  <2>2. n <= n
    BY <1>0
  <2> HIDE DEF Good, n
  <2> QED BY <2>1, <2>2 DEF T
<1> HIDE DEF n, Rec, Next1, Y
<1>11. n = Len(m.sets) /\ q = m.sets
  BY DEF n
<1> DEFINE pos == [j \in 1 .. n |-> Len(f[j])]
<1>12. /\ \A i \in 1 .. Len(f[n]) : \E j \in 1 .. n : j \notin places /\ pos[j] = i /\ f[n][i] = q[j]
       /\ \A j \in 1 .. n : j \notin places =>
            \E i \in 1 .. Len(f[n]) : pos[j] = i /\ f[n][i] = q[j]
       /\ \A i, j \in 1 .. n : i < j /\ j \notin places => pos[i] < pos[j]
  BY <1>10
<1>13. Kept(m.sets, f[n], places, pos)
  <2> HIDE DEF Good, pos
  <2> QED BY <1>11, <1>12 DEF Kept
<1>14. Removed(m, places).last \in 0 .. Len(f[n])
  <2>1. m.last \in 0 .. n /\ Len(f[m.last]) \in 0 .. Len(f[n])
    BY <1>10, <1>11
  <2>2. f[n] \in Seq(X)
    BY <1>10 DEF Y
  <2>3. 0 \in 0 .. Len(f[n])
    BY <2>2
  <2> QED BY <2>1, <2>3, <1>6
<1>15. f[n] \in Seq(X)
  BY <1>10 DEF Y
<1> QED BY <1>6, <1>13, <1>14, <1>15

(* A set, the manager, and the types of the variables.                     *)
KeySet == [conf : Confs, seat : Seats, refs : Nat, bindings : Seq(Nat)]

Manager == {m \in [sets : Seq(KeySet), last : Nat] : m.last <= Len(m.sets)}

KeyTypes ==
  /\ terms \in [Terms -> Confs \cup {None}]
  /\ seats \in [Seats -> [plugged : BOOLEAN, keymap : Nat]]
  /\ \A s \in Seats : ~seats[s].plugged => seats[s].keymap = 0
  /\ mgr \in Manager
  /\ past \in [keymaps : Nat, windows : Nat, miscounted : BOOLEAN]

(* The sets q are sets of seats ss, with the bindings of their keymaps.    *)
OfSeats(q, ss) ==
  \A i \in 1 .. Len(q) :
    /\ q[i].refs > 0 /\ ss[q[i].seat].plugged
    /\ q[i].bindings = IF ss[q[i].seat].keymap = 0 THEN <<>> ELSE <<ss[q[i].seat].keymap>>

(* There is one set for a configuration and a seat at most.                *)
OneEach(q) ==
  \A i, j \in 1 .. Len(q) : q[i].conf = q[j].conf /\ q[i].seat = q[j].seat => i = j

There(q, c, s) == \E i \in 1 .. Len(q) : q[i].conf = c /\ q[i].seat = s

(* There is one for each configuration c that n[c] terminals have.         *)
Exact(q, ss, n) ==
  /\ \A i \in 1 .. Len(q) : q[i].refs = n[q[i].conf]
  /\ OneEach(q)
  /\ \A c \in Confs, s \in Seats : ss[s].plugged /\ n[c] > 0 => There(q, c, s)

(* The same, when the seats in D have counted one more terminal of conf.   *)
Partly(q, ss, n, conf, D) ==
  /\ \A i \in 1 .. Len(q) :
        q[i].refs = IF q[i].conf = conf /\ q[i].seat \in D THEN n[conf] + 1 ELSE n[q[i].conf]
  /\ OneEach(q)
  /\ \A c \in Confs, s \in Seats :
        ss[s].plugged /\ (n[c] > 0 \/ (c = conf /\ s \in D)) => There(q, c, s)

UsersOf(tt) == [c \in Confs |-> Cardinality({t \in Terms : tt[t] = c})]

(* The inductive invariant.                                                *)
KeysInv ==
  /\ KeyTypes
  /\ OfSeats(mgr.sets, seats)
  /\ ~past.miscounted => Exact(mgr.sets, seats, UsersOf(terms))

(* The fields of a set of bindings.                                        *)
LEMMA KeySetIs ==
  ASSUME NEW x \in KeySet
  PROVE  x.conf \in Confs /\ x.seat \in Seats /\ x.refs \in Nat /\ x.bindings \in Seq(Nat)
BY DEF KeySet

(* The last used set is looked at first: what is found is the same.        *)
LEMMA FoundIs ==
  ASSUME NEW m \in Manager, NEW conf, NEW s
  PROVE  LET i == Found(m, conf, s)
         IN  \/ i = 0 /\ ~There(m.sets, conf, s)
             \/ i \in 1 .. Len(m.sets) /\ m.sets[i].conf = conf /\ m.sets[i].seat = s
<1> DEFINE matching == {i \in DOMAIN m.sets : m.sets[i].conf = conf /\ m.sets[i].seat = s}
<1>1. m.sets \in Seq(KeySet) /\ DOMAIN m.sets = 1 .. Len(m.sets)
  BY DEF Manager
<1>2. CASE m.last \in matching
  BY <1>1, <1>2 DEF Found
<1>3. CASE m.last \notin matching /\ matching = {}
  <2>1. Found(m, conf, s) = 0
    BY <1>3 DEF Found
  <2> QED BY <2>1, <1>1, <1>3 DEF There
<1>4. CASE m.last \notin matching /\ matching # {}
  <2>1. Found(m, conf, s) = Min(matching)
    BY <1>4 DEF Found
  <2>2. matching \subseteq Nat
    BY <1>1
  <2>3. \E x \in matching : \A y \in matching : x <= y
    <3> HIDE DEF matching
    <3> QED BY <2>2, <1>4, SmallestOf
  <2>4. Min(matching) \in matching
    <3> HIDE DEF matching
    <3> QED BY <2>3 DEF Min
  <2> QED BY <2>1, <2>4, <1>1
<1> QED BY <1>2, <1>3, <1>4

(* A new set has the bindings of the seat's keymap.                        *)
LEMMA NewSetIs ==
  ASSUME KeyTypes, NEW conf \in Confs, NEW s \in Seats
  PROVE  LET set == NewSet(conf, s)
         IN  /\ set \in KeySet /\ set.conf = conf /\ set.seat = s /\ set.refs = 1
             /\ set.bindings = IF seats[s].keymap = 0 THEN <<>> ELSE <<seats[s].keymap>>
<1> DEFINE keymap == seats[s].keymap
           bare == [conf |-> conf, seat |-> s, refs |-> 1, bindings |-> <<>>]
<1>1. keymap \in Nat
  BY DEF KeyTypes
<1>2. Append(<<>>, keymap) = <<keymap>> /\ <<keymap>> \in Seq(Nat) /\ <<>> \in Seq(Nat)
  BY <1>1
<1>3. bare \in KeySet /\ bare.seat = s
  BY <1>2 DEF KeySet
<1>4. CASE keymap = 0
  <2>1. NewSet(conf, s) = bare
    BY <1>4 DEF NewSet, Loaded
  <2> QED BY <2>1, <1>3, <1>4
<1>5. CASE keymap # 0
  <2>1. NewSet(conf, s) = [conf |-> conf, seat |-> s, refs |-> 1, bindings |-> <<keymap>>]
    <3>1. NewSet(conf, s) = [bare EXCEPT !.bindings = Append(@, keymap)]
      BY <1>5 DEF NewSet, Loaded
    <3> QED BY <3>1, <1>2
  <2>2. [conf |-> conf, seat |-> s, refs |-> 1, bindings |-> <<keymap>>] \in KeySet
    BY <1>2 DEF KeySet
  <2> QED BY <2>1, <2>2, <1>5
<1> QED BY <1>4, <1>5

(* One seat more counts the new terminal.                                  *)
LEMMA NewForSeatKeeps ==
  ASSUME KeyTypes, NEW m \in Manager, OfSeats(m.sets, seats), NEW conf \in Confs,
         NEW s \in Seats, seats[s].plugged
  PROVE  LET r == NewForSeat(m, conf, s)
         IN  /\ r \in Manager /\ OfSeats(r.sets, seats)
             /\ \A n \in [Confs -> Nat] : \A D : s \notin D =>
                  (Partly(m.sets, seats, n, conf, D)
                   => Partly(r.sets, seats, n, conf, D \cup {s}))
<1> DEFINE i == Found(m, conf, s)
           q == m.sets
           l == Len(q)
           r == NewForSeat(m, conf, s)
<1>1. q \in Seq(KeySet) /\ l \in Nat /\ m.last \in Nat
  BY DEF Manager
<1>2. \A k \in 1 .. l : /\ q[k] \in KeySet
                        /\ q[k].conf \in Confs /\ q[k].seat \in Seats /\ q[k].refs \in Nat
                        /\ q[k].bindings \in Seq(Nat)
  <2> SUFFICES ASSUME NEW k \in 1 .. l PROVE q[k] \in KeySet
    BY KeySetIs
  <2> HIDE DEF q
  <2> QED BY <1>1
<1>3. \/ i = 0 /\ ~There(q, conf, s)
      \/ i \in 1 .. l /\ q[i].conf = conf /\ q[i].seat = s
  BY FoundIs
<1>4. CASE i \in 1 .. l /\ q[i].conf = conf /\ q[i].seat = s
  <2> DEFINE new == [q EXCEPT ![i].refs = @ + 1]
             set == [conf |-> q[i].conf, seat |-> q[i].seat, refs |-> q[i].refs + 1,
                     bindings |-> q[i].bindings]
  <2>1. r = [sets |-> new, last |-> i]
    BY <1>1, <1>4 DEF NewForSeat, Counted
  <2>2. set \in KeySet
    BY <1>2, <1>4 DEF KeySet
  <2>3. new = [q EXCEPT ![i] = set]
    <3>1. [q[i] EXCEPT !.refs = @ + 1] = set
      BY <1>2, <1>4 DEF KeySet
    <3> QED BY <3>1
  <2>4. /\ new \in Seq(KeySet) /\ Len(new) = l /\ new[i] = set
        /\ \A k \in 1 .. l : k # i => new[k] = q[k]
    <3> HIDE DEF set, new
    <3> QED BY <1>1, <1>4, <2>2, <2>3
  <2>5. r \in Manager
    <3>1. i <= Len(new) /\ i \in Nat
      BY <1>4, <2>4
    <3> HIDE DEF r, new, i
    <3> QED BY <2>1, <2>4, <3>1 DEF Manager
  <2> HIDE DEF new, i, r
  <2>6. \A k \in 1 .. l : /\ new[k].conf = q[k].conf /\ new[k].seat = q[k].seat
                          /\ new[k].bindings = q[k].bindings
                          /\ new[k].refs = IF k = i THEN q[k].refs + 1 ELSE q[k].refs
    BY <2>4
  <2> HIDE DEF set
  <2>7. OfSeats(r.sets, seats)
    <3>1. ASSUME NEW k \in 1 .. l PROVE new[k].refs > 0
      <4>1. q[k].refs > 0 /\ q[k].refs \in Nat
        BY <1>2 DEF OfSeats
      <4>2. new[k].refs = IF k = i THEN q[k].refs + 1 ELSE q[k].refs
        BY <2>6
      <4> QED BY <4>1, <4>2
    <3>2. \A k \in 1 .. l :
            /\ seats[new[k].seat].plugged
            /\ new[k].bindings = IF seats[new[k].seat].keymap = 0 THEN <<>>
                                 ELSE <<seats[new[k].seat].keymap>>
      <4> SUFFICES ASSUME NEW k \in 1 .. l
                   PROVE /\ seats[new[k].seat].plugged
                         /\ new[k].bindings = IF seats[new[k].seat].keymap = 0 THEN <<>>
                                              ELSE <<seats[new[k].seat].keymap>>
        OBVIOUS
      <4>1. new[k].seat = q[k].seat /\ new[k].bindings = q[k].bindings
        BY <2>6
      <4>2. seats[q[k].seat].plugged
            /\ q[k].bindings = IF seats[q[k].seat].keymap = 0 THEN <<>> ELSE <<seats[q[k].seat].keymap>>
        BY DEF OfSeats
      <4> QED BY <4>1, <4>2
    <3>3. r.sets = new /\ Len(new) = l
      BY <2>1, <2>4
    <3> QED BY <3>1, <3>2, <3>3 DEF OfSeats
  <2>8. ASSUME NEW n \in [Confs -> Nat], NEW D, s \notin D, Partly(q, seats, n, conf, D)
        PROVE  Partly(new, seats, n, conf, D \cup {s})
    <3>1. OneEach(new)
      BY <2>4, <2>6, <2>8 DEF Partly, OneEach
    <3>2. ASSUME NEW k \in 1 .. l
          PROVE  new[k].refs = IF new[k].conf = conf /\ new[k].seat \in D \cup {s}
                               THEN n[conf] + 1 ELSE n[new[k].conf]
      <4>1. q[k].refs = IF q[k].conf = conf /\ q[k].seat \in D THEN n[conf] + 1
                        ELSE n[q[k].conf]
        BY <2>8 DEF Partly
      <4>2. CASE k = i
        BY <4>1, <4>2, <1>4, <2>6, <2>8
      <4>3. CASE k # i
        <5>1. ~(q[k].conf = conf /\ q[k].seat = s)
          BY <4>3, <1>4, <2>8 DEF Partly, OneEach
        <5> QED BY <5>1, <4>1, <4>3, <2>6
      <4> QED BY <4>2, <4>3
    <3>3. ASSUME NEW c \in Confs, NEW z \in Seats, There(q, c, z)
          PROVE  There(new, c, z)
      BY <2>4, <2>6, <3>3 DEF There
    <3>4. There(q, conf, s)
      BY <1>4 DEF There
    <3>5. ASSUME NEW c \in Confs, NEW z \in Seats, seats[z].plugged,
                 n[c] > 0 \/ (c = conf /\ z \in D \cup {s})
          PROVE  There(new, c, z)
      <4>1. There(q, c, z)
        BY <3>4, <3>5, <2>8 DEF Partly
      <4> QED BY <4>1, <3>3
    <3> QED BY <2>4, <3>1, <3>2, <3>5 DEF Partly
  <2> QED BY <2>1, <2>5, <2>7, <2>8 DEF r
<1>5. CASE i = 0 /\ ~There(q, conf, s)
  <2> DEFINE set == NewSet(conf, s)
             new == Append(q, set)
  <2>1. r = [sets |-> new, last |-> l + 1]
    BY <1>5 DEF NewForSeat
  <2>2. /\ set \in KeySet /\ set.conf = conf /\ set.seat = s /\ set.refs = 1
        /\ set.bindings = IF seats[s].keymap = 0 THEN <<>> ELSE <<seats[s].keymap>>
    BY NewSetIs
  <2> HIDE DEF set, i, r
  <2>3. /\ new \in Seq(KeySet) /\ Len(new) = l + 1 /\ new[l + 1] = set
        /\ \A k \in 1 .. l : new[k] = q[k]
        /\ 1 .. l + 1 = (1 .. l) \cup {l + 1} /\ l + 1 \notin 1 .. l
    BY <1>1, <2>2
  <2> HIDE DEF new
  <2>4. r \in Manager
    <3>1. l + 1 <= Len(new) /\ l + 1 \in Nat
      BY <1>1, <2>3
    <3> QED BY <2>1, <2>3, <3>1 DEF Manager
  <2>5. OfSeats(r.sets, seats)
    <3>1. ASSUME NEW k \in 1 .. l
          PROVE  /\ new[k].refs > 0 /\ seats[new[k].seat].plugged
                 /\ new[k].bindings = IF seats[new[k].seat].keymap = 0 THEN <<>>
                                      ELSE <<seats[new[k].seat].keymap>>
      <4>1. new[k] = q[k]
        BY <2>3
      <4> QED BY <4>1 DEF OfSeats
    <3>2. /\ set.refs > 0 /\ seats[set.seat].plugged
          /\ set.bindings = IF seats[set.seat].keymap = 0 THEN <<>>
                            ELSE <<seats[set.seat].keymap>>
      BY <2>2
    <3>3. r.sets = new /\ Len(new) = l + 1
      BY <2>1, <2>3
    <3> QED BY <3>1, <3>2, <3>3, <2>3 DEF OfSeats
  <2>6. ASSUME NEW n \in [Confs -> Nat], NEW D, s \notin D, Partly(q, seats, n, conf, D)
        PROVE  Partly(new, seats, n, conf, D \cup {s})
    <3>0. n[conf] = 0
      <4>1. ~(n[conf] > 0)
        BY <1>5, <2>6 DEF Partly
      <4> QED BY <4>1
    <3>1. OneEach(new)
      <4>1. \A k \in 1 .. l : ~(q[k].conf = conf /\ q[k].seat = s)
        BY <1>5 DEF There
      <4>2. OneEach(q)
        BY <2>6 DEF Partly
      <4> SUFFICES ASSUME NEW j \in 1 .. l + 1, NEW k \in 1 .. l + 1,
                          new[j].conf = new[k].conf, new[j].seat = new[k].seat
                   PROVE  j = k
        BY <2>3 DEF OneEach
      <4>3. CASE j \in 1 .. l /\ k \in 1 .. l
        BY <4>2, <4>3, <2>3 DEF OneEach
      <4>4. CASE j = l + 1 /\ k \in 1 .. l
        BY <4>1, <4>4, <2>2, <2>3
      <4>5. CASE k = l + 1 /\ j \in 1 .. l
        BY <4>1, <4>5, <2>2, <2>3
      <4> QED BY <4>3, <4>4, <4>5, <2>3
    <3>2. ASSUME NEW k \in 1 .. l + 1
          PROVE  new[k].refs = IF new[k].conf = conf /\ new[k].seat \in D \cup {s}
                               THEN n[conf] + 1 ELSE n[new[k].conf]
      <4>1. CASE k \in 1 .. l
        <5>1. q[k].refs = IF q[k].conf = conf /\ q[k].seat \in D THEN n[conf] + 1
                          ELSE n[q[k].conf]
          BY <4>1, <2>6 DEF Partly
        <5>2. ~(q[k].conf = conf /\ q[k].seat = s) /\ new[k] = q[k]
          BY <4>1, <1>5, <2>3 DEF There
        <5> QED BY <5>1, <5>2
      <4>2. CASE k = l + 1
        BY <4>2, <3>0, <2>2, <2>3
      <4> QED BY <4>1, <4>2, <2>3
    <3>3. ASSUME NEW c \in Confs, NEW z \in Seats, There(q, c, z)
          PROVE  There(new, c, z)
      <4>1. PICK k \in 1 .. l : q[k].conf = c /\ q[k].seat = z
        BY <3>3 DEF There
      <4>2. new[k] = q[k] /\ k \in 1 .. Len(new)
        BY <2>3
      <4> QED BY <4>1, <4>2 DEF There
    <3>4. There(new, conf, s)
      <4>1. l + 1 \in 1 .. Len(new)
        BY <2>3
      <4> QED BY <4>1, <2>2, <2>3 DEF There
    <3>5. ASSUME NEW c \in Confs, NEW z \in Seats, seats[z].plugged,
                 n[c] > 0 \/ (c = conf /\ z \in D \cup {s})
          PROVE  There(new, c, z)
      <4>1. CASE c = conf /\ z = s
        BY <4>1, <3>4
      <4>2. CASE ~(c = conf /\ z = s)
        <5>1. There(q, c, z)
          BY <4>2, <3>5, <2>6 DEF Partly
        <5> QED BY <5>1, <3>3
      <4> QED BY <4>1, <4>2
    <3> QED BY <2>3, <3>1, <3>2, <3>5 DEF Partly
  <2> QED BY <2>1, <2>4, <2>5, <2>6 DEF r
<1> QED BY <1>3, <1>4, <1>5

(* The seats that are plugged count the new terminal, one by one.          *)
LEMMA NewForConfIs ==
  ASSUME KeyTypes, NEW m \in Manager, OfSeats(m.sets, seats), NEW conf \in Confs
  PROVE  LET r == NewForConf(m, conf)
         IN  /\ r \in Manager /\ OfSeats(r.sets, seats)
             /\ \A n \in [Confs -> Nat] :
                  Exact(m.sets, seats, n)
                  => Exact(r.sets, seats, [n EXCEPT ![conf] = @ + 1])
<1> DEFINE P == {s \in Seats : seats[s].plugged}
           list == SetToSeq(P)
           N == Len(list)
           Y == {x \in Manager : OfSeats(x.sets, seats)}
           Rec(g) == [k \in 0 .. N |-> IF k = 0 THEN m ELSE NewForSeat(g[k - 1], conf, list[k])]
           f == CHOOSE g : g = Rec(g)
           step == [j \in Nat |-> [x \in Y |-> IF j + 1 \in 1 .. N
                                               THEN NewForSeat(x, conf, list[j + 1]) ELSE m]]
           D(k) == {list[i] : i \in 1 .. k}
<1>0. IsFiniteSet(P)
  BY KeyBindingsAssumption, FS_Subset
<1>1. /\ list \in Seq(P) /\ N \in Nat
      /\ \A i, j \in 1 .. N : list[i] = list[j] => i = j
      /\ \A x \in P : \E i \in 1 .. N : list[i] = x
  <2> HIDE DEF P
  <2>1. /\ list \in Seq(P)
        /\ \A i, j \in 1 .. N : list[i] = list[j] => i = j
        /\ \A x \in P : \E i \in 1 .. N : list[i] = x
    BY <1>0, ListOf
  <2> QED BY <2>1
<1>2. \A i \in 1 .. N : list[i] \in Seats /\ seats[list[i]].plugged
  <2>1. \A i \in 1 .. N : list[i] \in P
    <3> HIDE DEF P, list
    <3> QED BY <1>1
  <2> HIDE DEF list
  <2> QED BY <2>1
<1>3. m \in Y
  OBVIOUS
<1> HIDE DEF list
<1>4. ASSUME NEW x \in Y, NEW i \in 1 .. N PROVE NewForSeat(x, conf, list[i]) \in Y
  BY <1>2, NewForSeatKeeps
<1>5. step \in [Nat -> [Y -> Y]]
  <2> HIDE DEF Y, N
  <2> QED BY <1>3, <1>4
<1>6. PICK h \in [0 .. N -> Y] : h[0] = m /\ \A i \in 0 .. N - 1 : h[i + 1] = step[i][h[i]]
  <2> HIDE DEF Y, step, Rec, f, N
  <2>1. \E h : Recursive(h, Y, m, step, N)
    BY <1>1, <1>3, <1>5, FiniteRecursion
  <2> QED BY <2>1 DEF Recursive
<1> HIDE DEF Y, N
<1>7. h = Rec(h)
  <2> SUFFICES ASSUME NEW k \in 0 .. N PROVE h[k] = Rec(h)[k]
    OBVIOUS
  <2>1. CASE k = 0
    BY <2>1, <1>6
  <2>2. CASE k # 0
    <3>1. k - 1 \in 0 .. N - 1 /\ (k - 1) + 1 = k /\ k \in 1 .. N /\ k - 1 \in Nat /\ k - 1 \in 0 .. N
      BY <2>2, <1>1
    <3>2. h[k] = step[k - 1][h[k - 1]] /\ h[k - 1] \in Y
      <4> HIDE DEF step, Rec, f
      <4>1. h[(k - 1) + 1] = step[k - 1][h[k - 1]]
        BY <1>6, <3>1
      <4> QED BY <4>1, <3>1, <1>6
    <3>3. step[k - 1][h[k - 1]] = NewForSeat(h[k - 1], conf, list[k])
      BY <3>1, <3>2
    <3> QED BY <3>2, <3>3, <2>2
  <2> QED BY <2>1, <2>2
<1>8. f = Rec(f)
  <2> HIDE DEF Rec
  <2> QED BY <1>7
<1>9. NewForConf(m, conf) = f[N]
  BY DEF NewForConf, N, list
<1> HIDE DEF f, step
<1>10. f[0] = m /\ \A k \in 1 .. N : f[k] = NewForSeat(f[k - 1], conf, list[k])
  <2>1. 0 \in 0 .. N /\ \A k \in 1 .. N : k \in 0 .. N /\ k # 0
    BY <1>1
  <2>2. \A k \in 0 .. N : Rec(f)[k] = IF k = 0 THEN m ELSE NewForSeat(f[k - 1], conf, list[k])
    OBVIOUS
  <2>3. \A k \in 0 .. N : f[k] = IF k = 0 THEN m ELSE NewForSeat(f[k - 1], conf, list[k])
    <3> HIDE DEF Rec
    <3> QED BY <2>2, <1>8
  <2> HIDE DEF Rec
  <2> QED BY <2>1, <2>3
<1> DEFINE Good(k) == /\ f[k] \in Y
                      /\ \A n \in [Confs -> Nat] :
                           Exact(m.sets, seats, n)
                           => Partly(f[k].sets, seats, n, conf, D(k))
           T == {k \in Nat : k <= N => Good(k)}
<1> HIDE DEF Rec
<1>11. 0 \in T
  <2>1. D(0) = {}
    OBVIOUS
  <2>2. Good(0)
    BY <2>1, <1>3, <1>10 DEF Exact, Partly
  <2> QED BY <2>2
<1>12. ASSUME NEW k \in Nat, k \in T PROVE k + 1 \in T
  <2> SUFFICES ASSUME k + 1 <= N PROVE Good(k + 1)
    OBVIOUS
  <2>1. k <= N /\ k + 1 \in 1 .. N /\ (k + 1) - 1 = k
    BY <1>1
  <2>2. Good(k)
    BY <1>12, <2>1
  <2>3. f[k + 1] = NewForSeat(f[k], conf, list[k + 1])
    <3> HIDE DEF Good, T
    <3> QED BY <1>10, <2>1
  <2>4. list[k + 1] \notin D(k) /\ D(k + 1) = D(k) \cup {list[k + 1]}
    <3>1. 1 .. k \subseteq 1 .. N /\ 1 .. k + 1 = (1 .. k) \cup {k + 1} /\ k + 1 \notin 1 .. k
      BY <2>1, <1>1
    <3>2. \A i \in 1 .. k : i \in 1 .. N /\ i # k + 1
      BY <3>1
    <3>3. \A i \in 1 .. k : list[i] # list[k + 1]
      <4> HIDE DEF Good, T, D
      <4> QED BY <3>2, <2>1, <1>1
    <3>4. D(k + 1) = D(k) \cup {list[k + 1]}
      <4> HIDE DEF Good, T
      <4> QED BY <3>1
    <3> QED BY <3>3, <3>4
  <2> HIDE DEF D, T
  <2> DEFINE s == list[k + 1]
             x == f[k]
  <2>5. s \in Seats /\ seats[s].plugged
    BY <1>2, <2>1
  <2>6. x \in Manager /\ OfSeats(x.sets, seats)
    BY <2>2 DEF Y
  <2>7. /\ f[k + 1] \in Manager /\ OfSeats(f[k + 1].sets, seats)
        /\ \A n \in [Confs -> Nat] : \A E : s \notin E =>
             (Partly(x.sets, seats, n, conf, E)
              => Partly(f[k + 1].sets, seats, n, conf, E \cup {s}))
    <3> HIDE DEF s, x, Good
    <3>1. f[k + 1] = NewForSeat(x, conf, s)
      BY <2>3 DEF s, x
    <3> QED BY <3>1, <2>5, <2>6, NewForSeatKeeps
  <2>8. f[k + 1] \in Y
    BY <2>7 DEF Y
  <2>9. ASSUME NEW n \in [Confs -> Nat], Exact(m.sets, seats, n)
        PROVE  Partly(f[k + 1].sets, seats, n, conf, D(k + 1))
    <3>1. Partly(x.sets, seats, n, conf, D(k))
      BY <2>2, <2>9
    <3> HIDE DEF Good, x
    <3>2. s \notin D(k) /\ D(k + 1) = D(k) \cup {s}
      BY <2>4
    <3> HIDE DEF s
    <3> QED BY <3>1, <3>2, <2>7
  <2> QED BY <2>8, <2>9
<1>13. Good(N)
  <2> HIDE DEF T
  <2>1. N \in T
    BY <1>1, <1>11, <1>12, Induction
  <2>2. N <= N
    BY <1>1
  <2> HIDE DEF Good
  <2> QED BY <2>1, <2>2 DEF T
<1>14. D(N) = P
  <2> HIDE DEF Good, T
  <2>1. D(N) \subseteq P
    BY <1>2
  <2>2. P \subseteq D(N)
    <3> HIDE DEF P
    <3> QED BY <1>1
  <2> QED BY <2>1, <2>2
<1> DEFINE r == f[N]
<1>15. r \in Manager /\ OfSeats(r.sets, seats)
  BY <1>13 DEF Y
<1>16. ASSUME NEW n \in [Confs -> Nat], Exact(m.sets, seats, n)
       PROVE  Exact(r.sets, seats, [n EXCEPT ![conf] = @ + 1])
  <2>1. Partly(r.sets, seats, n, conf, P)
    BY <1>13, <1>14, <1>16
  <2> HIDE DEF r, Good, T, D
  <2> DEFINE q == r.sets
             n1 == [n EXCEPT ![conf] = @ + 1]
  <2>2. \A c \in Confs : n1[c] = IF c = conf THEN n[c] + 1 ELSE n[c]
    OBVIOUS
  <2> HIDE DEF n1
  <2>3. ASSUME NEW i \in 1 .. Len(q) PROVE q[i].refs = n1[q[i].conf]
    <3>1. q[i] \in KeySet
      <4>1. q \in Seq(KeySet)
        BY <1>15 DEF Manager
      <4> HIDE DEF q
      <4> QED BY <4>1
    <3>2. q[i].conf \in Confs /\ q[i].seat \in Seats
      BY <3>1, KeySetIs
    <3>3. q[i].seat \in P
      BY <1>15, <3>2 DEF OfSeats
    <3> QED BY <2>1, <2>2, <3>2, <3>3 DEF Partly
  <2>4. OneEach(q)
    BY <2>1 DEF Partly
  <2>5. ASSUME NEW c \in Confs, NEW s \in Seats, seats[s].plugged, n1[c] > 0
        PROVE  There(q, c, s)
    <3>1. s \in P
      BY <2>5
    <3>2. n[c] > 0 \/ c = conf
      BY <2>2, <2>5
    <3> QED BY <2>1, <2>5, <3>1, <3>2 DEF Partly
  <2> HIDE DEF q
  <2>6. Exact(q, seats, n1)
    BY <2>3, <2>4, <2>5 DEF Exact
  <2> QED BY <2>6 DEF q, n1
<1> HIDE DEF Good, T, D
<1> QED BY <1>9, <1>15, <1>16

(* What is removed leaves the rest as it is.                               *)
LEMMA RemovedKeeps ==
  ASSUME NEW m \in Manager, NEW places
  PROVE  LET r == Removed(m, places)
         IN  /\ r \in Manager
             /\ OneEach(m.sets) => OneEach(r.sets)
             /\ \A i \in 1 .. Len(r.sets) : \E j \in 1 .. Len(m.sets) :
                  j \notin places /\ r.sets[i] = m.sets[j]
             /\ \A j \in 1 .. Len(m.sets) : j \notin places =>
                  \E i \in 1 .. Len(r.sets) : r.sets[i] = m.sets[j]
<1> DEFINE r == Removed(m, places)
           q == m.sets
           new == r.sets
<1>1. q \in Seq(KeySet) /\ m.last \in 0 .. Len(q)
  BY DEF Manager
<1>2. /\ new \in Seq(KeySet) /\ r.last \in 0 .. Len(new)
      /\ \E pos : Kept(q, new, places, pos)
  <2> HIDE DEF Kept
  <2> QED BY <1>1, RemovedIs
<1>3. r = [sets |-> new, last |-> r.last]
  BY DEF Removed
<1> HIDE DEF r
<1>4. r \in Manager
  <2>1. r.last \in Nat /\ r.last <= Len(new) /\ Len(new) \in Nat
    BY <1>2
  <2> DEFINE last == r.last
  <2>2. r = [sets |-> new, last |-> last] /\ last \in Nat /\ last <= Len(new) /\ new \in Seq(KeySet)
    BY <1>2, <1>3, <2>1
  <2> HIDE DEF new, last
  <2> QED BY <2>2 DEF Manager
<1>5. PICK pos : Kept(q, new, places, pos)
  BY <1>2
<1> HIDE DEF q, new
<1>6. ASSUME OneEach(q) PROVE OneEach(new)
  <2> SUFFICES ASSUME NEW i1 \in 1 .. Len(new), NEW i2 \in 1 .. Len(new),
                      new[i1].conf = new[i2].conf, new[i1].seat = new[i2].seat
               PROVE  i1 = i2
    BY DEF OneEach
  <2>1. PICK j1 \in 1 .. Len(q) : pos[j1] = i1 /\ new[i1] = q[j1]
    BY <1>5 DEF Kept
  <2>2. PICK j2 \in 1 .. Len(q) : pos[j2] = i2 /\ new[i2] = q[j2]
    BY <1>5 DEF Kept
  <2>3. j1 = j2
    BY <1>6, <2>1, <2>2 DEF OneEach
  <2> QED BY <2>1, <2>2, <2>3
<1>7. /\ \A i \in 1 .. Len(new) : \E j \in 1 .. Len(q) : j \notin places /\ new[i] = q[j]
      /\ \A j \in 1 .. Len(q) : j \notin places => \E i \in 1 .. Len(new) : new[i] = q[j]
  BY <1>5 DEF Kept
<1> QED BY <1>4, <1>6, <1>7 DEF q, new, r

(* A terminal of conf less.                                                *)
LEMMA UnrefIs ==
  ASSUME KeyTypes, NEW m \in Manager, OfSeats(m.sets, seats), NEW conf \in Confs
  PROVE  LET r == Unref(m, conf)
         IN  /\ r \in Manager /\ OfSeats(r.sets, seats)
             /\ \A n \in [Confs -> Nat] :
                  Exact(m.sets, seats, n) /\ n[conf] > 0
                  => Exact(r.sets, seats, [n EXCEPT ![conf] = @ - 1])
<1> DEFINE q == m.sets
           l == Len(q)
           of == {i \in DOMAIN m.sets : m.sets[i].conf = conf}
           places == {i \in of : m.sets[i].refs = 1}
           q1 == [i \in DOMAIN q |-> IF i \in of THEN [q[i] EXCEPT !.refs = @ - 1] ELSE q[i]]
           m1 == [sets |-> q1, last |-> m.last]
           r == Unref(m, conf)
           new == r.sets
<1>1. q \in Seq(KeySet) /\ l \in Nat /\ m.last \in Nat /\ m.last <= l /\ DOMAIN q = 1 .. l
  BY DEF Manager
<1>2. ASSUME NEW k \in 1 .. l
      PROVE  /\ q[k] \in KeySet
             /\ q[k].conf \in Confs /\ q[k].seat \in Seats /\ q[k].refs \in Nat \ {0}
             /\ q[k].bindings \in Seq(Nat)
  <2>1. q[k] \in KeySet
    <3> HIDE DEF q
    <3> QED BY <1>1
  <2>2. q[k].refs > 0
    BY DEF OfSeats
  <2> HIDE DEF q
  <2> QED BY <2>1, <2>2, KeySetIs
<1>3. ASSUME NEW k \in 1 .. l
      PROVE  /\ q1[k] \in KeySet
             /\ q1[k].conf = q[k].conf /\ q1[k].seat = q[k].seat
             /\ q1[k].bindings = q[k].bindings
             /\ q1[k].refs = IF q[k].conf = conf THEN q[k].refs - 1 ELSE q[k].refs
  <2> DEFINE set == [conf |-> q[k].conf, seat |-> q[k].seat, refs |-> q[k].refs - 1,
                     bindings |-> q[k].bindings]
  <2>1. q[k].refs - 1 \in Nat
    BY <1>2
  <2>2. set \in KeySet
    BY <1>2, <2>1 DEF KeySet
  <2>3. [q[k] EXCEPT !.refs = @ - 1] = set
    <3>1. q[k] \in KeySet
      BY <1>2
    <3> HIDE DEF q
    <3> QED BY <3>1 DEF KeySet
  <2>4. k \in of <=> q[k].conf = conf
    BY <1>1
  <2>5. q1[k] = IF k \in of THEN [q[k] EXCEPT !.refs = @ - 1] ELSE q[k]
    <3> HIDE DEF of, q
    <3> QED BY <1>1
  <2> HIDE DEF q, of, q1
  <2>6. CASE q[k].conf = conf
    <3>1. q1[k] = set
      BY <2>3, <2>4, <2>5, <2>6
    <3> QED BY <3>1, <2>2, <2>6
  <2>7. CASE q[k].conf # conf
    BY <1>2, <2>4, <2>5, <2>7
  <2> QED BY <2>6, <2>7
<1>4. q1 \in Seq(KeySet) /\ Len(q1) = l
  <2>1. DOMAIN q1 = 1 .. l
    BY <1>1
  <2>2. q1 = [k \in 1 .. l |-> q1[k]]
    <3> HIDE DEF of, q
    <3> QED BY <2>1
  <2> HIDE DEF q1, l
  <2>3. q1 \in [1 .. l -> KeySet]
    BY <1>3, <2>2
  <2> QED BY <2>3, <1>1
<1>6. m1 \in Manager /\ m1.sets = q1
  <2> DEFINE last == m.last
  <2>1. m1 = [sets |-> q1, last |-> last] /\ last \in Nat /\ last <= Len(q1)
    BY <1>1, <1>4
  <2> HIDE DEF q1, m1, last
  <2> QED BY <1>4, <2>1 DEF Manager
<1>7. r = Removed(m1, places)
  BY DEF Unref
<1>8. \A k \in 1 .. l : k \in places <=> q[k].conf = conf /\ q[k].refs = 1
  BY <1>1
<1> HIDE DEF q1, m1, places, of, r, l, q
<1>9. /\ r \in Manager
      /\ OneEach(q1) => OneEach(new)
      /\ \A i \in 1 .. Len(new) : \E j \in 1 .. l : j \notin places /\ new[i] = q1[j]
      /\ \A j \in 1 .. l : j \notin places => \E i \in 1 .. Len(new) : new[i] = q1[j]
  <2> DEFINE r2 == Removed(m1, places)
  <2>1. /\ r2 \in Manager
        /\ OneEach(m1.sets) => OneEach(r2.sets)
        /\ \A i \in 1 .. Len(r2.sets) : \E j \in 1 .. Len(m1.sets) :
             j \notin places /\ r2.sets[i] = m1.sets[j]
        /\ \A j \in 1 .. Len(m1.sets) : j \notin places =>
             \E i \in 1 .. Len(r2.sets) : r2.sets[i] = m1.sets[j]
    BY <1>6, RemovedKeeps
  <2>2. r2 = r /\ m1.sets = q1 /\ Len(q1) = l
    BY <1>4, <1>6, <1>7
  <2> HIDE DEF r2
  <2> QED BY <2>1, <2>2
<1> HIDE DEF new
<1>10. OfSeats(q, seats)
  BY DEF q
<1>11. OfSeats(new, seats)
  <2> SUFFICES ASSUME NEW i \in 1 .. Len(new)
               PROVE  /\ new[i].refs > 0 /\ seats[new[i].seat].plugged
                      /\ new[i].bindings = IF seats[new[i].seat].keymap = 0 THEN <<>>
                                           ELSE <<seats[new[i].seat].keymap>>
    BY DEF OfSeats
  <2>1. PICK j \in 1 .. l : j \notin places /\ new[i] = q1[j]
    BY <1>9
  <2>2. /\ seats[q[j].seat].plugged
        /\ q[j].bindings = IF seats[q[j].seat].keymap = 0 THEN <<>> ELSE <<seats[q[j].seat].keymap>>
    BY <1>10 DEF OfSeats, l
  <2>3. q1[j].refs > 0
    <3>1. q[j].refs \in Nat \ {0} /\ ~(q[j].conf = conf /\ q[j].refs = 1)
      BY <1>2, <1>8, <2>1
    <3>2. q1[j].refs = IF q[j].conf = conf THEN q[j].refs - 1 ELSE q[j].refs
      BY <1>3
    <3> QED BY <3>1, <3>2
  <2>4. new[i].refs = q1[j].refs /\ new[i].seat = q[j].seat /\ new[i].bindings = q[j].bindings
    BY <1>3, <2>1
  <2> QED BY <2>2, <2>3, <2>4
<1>12. ASSUME NEW n \in [Confs -> Nat], Exact(q, seats, n), n[conf] > 0
       PROVE  Exact(new, seats, [n EXCEPT ![conf] = @ - 1])
  <2> DEFINE n1 == [n EXCEPT ![conf] = @ - 1]
  <2>1. \A c \in Confs : n1[c] = IF c = conf THEN n[c] - 1 ELSE n[c]
    OBVIOUS
  <2> HIDE DEF n1
  <2>2. ASSUME NEW i \in 1 .. Len(new) PROVE new[i].refs = n1[new[i].conf]
    <3>1. PICK j \in 1 .. l : j \notin places /\ new[i] = q1[j]
      BY <1>9
    <3>2. q[j].refs = n[q[j].conf] /\ q[j].conf \in Confs
      BY <1>2, <1>12 DEF Exact, l
    <3>3. /\ new[i].refs = IF q[j].conf = conf THEN q[j].refs - 1 ELSE q[j].refs
          /\ new[i].conf = q[j].conf
      BY <1>3, <3>1
    <3> QED BY <2>1, <3>2, <3>3
  <2>3. OneEach(new)
    <3>1. OneEach(q1)
      BY <1>3, <1>4, <1>12 DEF Exact, OneEach, l
    <3> QED BY <1>9, <3>1
  <2>4. ASSUME NEW c \in Confs, NEW s \in Seats, seats[s].plugged, n1[c] > 0
        PROVE  There(new, c, s)
    <3>1. n[c] > 0 /\ (c = conf => n[c] # 1)
      BY <2>1, <2>4, <1>12
    <3>2. There(q, c, s)
      BY <2>4, <3>1, <1>12 DEF Exact
    <3>3. PICK j \in 1 .. l : q[j].conf = c /\ q[j].seat = s
      BY <3>2 DEF There, l
    <3>4. q[j].refs = n[c]
      BY <3>3, <1>12 DEF Exact, l
    <3>5. j \notin places
      BY <1>8, <3>1, <3>3, <3>4
    <3>6. PICK i \in 1 .. Len(new) : new[i] = q1[j]
      BY <1>9, <3>5
    <3>7. new[i].conf = c /\ new[i].seat = s
      BY <1>3, <3>3, <3>6
    <3> QED BY <3>7 DEF There
  <2>5. Exact(new, seats, n1)
    BY <2>2, <2>3, <2>4 DEF Exact
  <2> QED BY <2>5 DEF n1
<1> QED BY <1>9, <1>11, <1>12 DEF q, new, r

(* A terminal more has the configuration conf, or one less.                *)
LEMMA UsersAre ==
  ASSUME KeyTypes
  PROVE  /\ UsersOf(terms) \in [Confs -> Nat]
         /\ \A t \in Terms, conf \in Confs :
              t \notin Open => UsersOf([terms EXCEPT ![t] = conf])
                               = [UsersOf(terms) EXCEPT ![conf] = @ + 1]
         /\ \A t \in Open :
              /\ terms[t] \in Confs /\ UsersOf(terms)[terms[t]] > 0
              /\ UsersOf([terms EXCEPT ![t] = None])
                 = [UsersOf(terms) EXCEPT ![terms[t]] = @ - 1]
<1> DEFINE U(c) == {x \in Terms : terms[x] = c}
<1>1. \A c : IsFiniteSet(U(c)) /\ Cardinality(U(c)) \in Nat
  <2> TAKE c
  <2>1. IsFiniteSet(U(c))
    BY KeyBindingsAssumption, FS_Subset
  <2> HIDE DEF U
  <2> QED BY <2>1, FS_CardinalityType
<1>2. \A c \in Confs : c # None
  BY KeyBindingsAssumption, ParticipantsAssumption DEF Confs
<1>3. \A x \in Terms : terms[x] \in Confs \cup {None}
  BY DEF KeyTypes
<1>4. terms = [x \in Terms |-> terms[x]]
  BY DEF KeyTypes
<1>5. UsersOf(terms) = [c \in Confs |-> Cardinality(U(c))]
  BY DEF UsersOf
<1>6. ASSUME NEW t \in Terms, NEW conf \in Confs, t \notin Open
      PROVE  UsersOf([terms EXCEPT ![t] = conf]) = [UsersOf(terms) EXCEPT ![conf] = @ + 1]
  <2> DEFINE new == [terms EXCEPT ![t] = conf]
             V(c) == {x \in Terms : new[x] = c}
  <2>1. terms[t] = None
    BY <1>6 DEF Open
  <2>2. \A x \in Terms : new[x] = IF x = t THEN conf ELSE terms[x]
    BY <1>4
  <2> HIDE DEF new
  <2>3. \A c \in Confs : V(c) = IF c = conf THEN U(c) \cup {t} ELSE U(c)
    BY <1>2, <2>1, <2>2
  <2>4. t \notin U(conf)
    BY <1>2, <2>1
  <2>5. Cardinality(U(conf) \cup {t}) = Cardinality(U(conf)) + 1
    <3> HIDE DEF U
    <3> QED BY <1>1, <2>4, FS_AddElement
  <2> HIDE DEF U
  <2>6. \A c \in Confs : Cardinality(V(c)) = IF c = conf THEN Cardinality(U(c)) + 1 ELSE Cardinality(U(c))
    BY <2>3, <2>5
  <2>7. UsersOf(new) = [c \in Confs |-> Cardinality(V(c))]
    BY DEF UsersOf
  <2> HIDE DEF V
  <2>8. UsersOf(new) = [UsersOf(terms) EXCEPT ![conf] = @ + 1]
    BY <1>5, <2>6, <2>7
  <2> QED BY <2>8 DEF new
<1>7. ASSUME NEW t \in Open
      PROVE  /\ terms[t] \in Confs /\ UsersOf(terms)[terms[t]] > 0
             /\ UsersOf([terms EXCEPT ![t] = None]) = [UsersOf(terms) EXCEPT ![terms[t]] = @ - 1]
  <2> DEFINE conf == terms[t]
             new == [terms EXCEPT ![t] = None]
             V(c) == {x \in Terms : new[x] = c}
  <2>1. t \in Terms /\ conf \in Confs
    BY <1>3 DEF Open
  <2>2. \A x \in Terms : new[x] = IF x = t THEN None ELSE terms[x]
    BY <1>4
  <2> HIDE DEF new
  <2>3. \A c \in Confs : V(c) = IF c = conf THEN U(c) \ {t} ELSE U(c)
    BY <1>2, <2>1, <2>2
  <2>4. t \in U(conf)
    BY <2>1
  <2> HIDE DEF conf
  <2>5. Cardinality(U(conf) \ {t}) = Cardinality(U(conf)) - 1 /\ Cardinality(U(conf)) \in Nat
    <3> HIDE DEF U
    <3> QED BY <1>1, <2>4, FS_RemoveElement
  <2>6. Cardinality(U(conf)) > 0
    <3>1. IsFiniteSet(U(conf)) /\ U(conf) # {}
      BY <1>1, <2>4
    <3>2. Cardinality(U(conf)) # 0
      <4> HIDE DEF U
      <4> QED BY <3>1, FS_EmptySet
    <3> QED BY <3>2, <2>5
  <2> HIDE DEF U
  <2>7. \A c \in Confs : Cardinality(V(c)) = IF c = conf THEN Cardinality(U(c)) - 1 ELSE Cardinality(U(c))
    BY <2>3, <2>5
  <2>8. UsersOf(new) = [c \in Confs |-> Cardinality(V(c))]
    BY DEF UsersOf
  <2> HIDE DEF V
  <2>9. UsersOf(new) = [UsersOf(terms) EXCEPT ![conf] = @ - 1]
    BY <1>5, <2>7, <2>8
  <2>10. UsersOf(terms)[conf] > 0
    BY <1>5, <2>1, <2>6
  <2> QED BY <2>1, <2>9, <2>10 DEF new, conf
<1>8. UsersOf(terms) \in [Confs -> Nat]
  <2> HIDE DEF U
  <2> QED BY <1>1, <1>5
<1> QED BY <1>6, <1>7, <1>8

(* No terminal and no seat is there at first.                              *)
LEMMA KeysAtFirst == KeysInit => KeysInv
<1> SUFFICES ASSUME KeysInit PROVE KeysInv
  OBVIOUS
<1>1. mgr = [sets |-> <<>>, last |-> 0] /\ 1 .. Len(mgr.sets) = {} /\ <<>> \in Seq(KeySet)
  BY DEF KeysInit
<1>2. mgr \in Manager
  <2>1. 0 <= Len(<<>>) /\ 0 \in Nat
    OBVIOUS
  <2> QED BY <1>1, <2>1 DEF Manager
<1>3. KeyTypes
  BY <1>2 DEF KeysInit, KeyTypes
<1>4. OfSeats(mgr.sets, seats)
  BY <1>1 DEF OfSeats
<1>5. \A s \in Seats : ~seats[s].plugged
  BY DEF KeysInit
<1>6. Exact(mgr.sets, seats, UsersOf(terms))
  BY <1>1, <1>5 DEF Exact, OneEach
<1> QED BY <1>3, <1>4, <1>6 DEF KeysInv

(* A new terminal, or one that fails to start, keeps the counts.           *)
LEMMA TermInitKeeps ==
  ASSUME KeysInv, NEW t \in Terms, NEW conf \in {Shared, t}, TermInit(t, conf)
  PROVE  KeysInv'
<1> DEFINE n == UsersOf(terms)
           r == NewForConf(mgr, conf)
           u == Unref(r, conf)
           n1 == [n EXCEPT ![conf] = @ + 1]
<1>1. KeyTypes /\ mgr \in Manager /\ OfSeats(mgr.sets, seats) /\ conf \in Confs
  BY DEF KeysInv, KeyTypes, Confs
<1>2. /\ r \in Manager /\ OfSeats(r.sets, seats)
      /\ \A k \in [Confs -> Nat] : Exact(mgr.sets, seats, k)
                                   => Exact(r.sets, seats, [k EXCEPT ![conf] = @ + 1])
  <2> HIDE DEF r
  <2> QED BY <1>1, NewForConfIs DEF r
<1>3. n \in [Confs -> Nat]
  BY <1>1, UsersAre
<1> HIDE DEF r
<1>4. /\ u \in Manager /\ OfSeats(u.sets, seats)
      /\ \A k \in [Confs -> Nat] : Exact(r.sets, seats, k) /\ k[conf] > 0
                                   => Exact(u.sets, seats, [k EXCEPT ![conf] = @ - 1])
  BY <1>1, <1>2, UnrefIs
<1> HIDE DEF u
<1>5. t \notin Open /\ UNCHANGED seats
  BY DEF TermInit
<1>6. /\ past' \in [keymaps : Nat, windows : Nat, miscounted : BOOLEAN]
      /\ past'.miscounted = past.miscounted
  <2>1. past \in [keymaps : Nat, windows : Nat, miscounted : BOOLEAN]
    BY <1>1 DEF KeyTypes
  <2>2. past' = [past EXCEPT !.windows = @ + 1]
    BY DEF TermInit
  <2> QED BY <2>1, <2>2
<1>7. CASE terms' = [terms EXCEPT ![t] = conf] /\ mgr' = r
  <2>1. KeyTypes'
    BY <1>1, <1>2, <1>5, <1>6, <1>7 DEF KeyTypes
  <2>2. UsersOf(terms') = n1
    <3> HIDE DEF n
    <3>1. UsersOf([terms EXCEPT ![t] = conf]) = [UsersOf(terms) EXCEPT ![conf] = @ + 1]
      BY <1>1, <1>5, UsersAre
    <3> QED BY <3>1, <1>7 DEF n
  <2>3. ~past.miscounted => Exact(r.sets, seats, n1)
    <3> HIDE DEF n
    <3>1. ~past.miscounted => Exact(mgr.sets, seats, n)
      BY DEF KeysInv, n
    <3> QED BY <3>1, <1>2, <1>3
  <2> HIDE DEF n, n1
  <2> QED BY <2>1, <2>2, <2>3, <1>2, <1>5, <1>6, <1>7 DEF KeysInv
<1>8. CASE mgr' = u /\ UNCHANGED terms
  <2>1. KeyTypes'
    BY <1>1, <1>4, <1>5, <1>6, <1>8 DEF KeyTypes
  <2>2. ~past.miscounted => Exact(u.sets, seats, n)
    <3> SUFFICES ASSUME ~past.miscounted PROVE Exact(u.sets, seats, n)
      OBVIOUS
    <3>1. Exact(mgr.sets, seats, n)
      BY DEF KeysInv
    <3> HIDE DEF n
    <3>2. n1 \in [Confs -> Nat] /\ n1[conf] > 0 /\ [n1 EXCEPT ![conf] = @ - 1] = n
      <4>1. n[conf] \in Nat /\ n1 \in [Confs -> Nat] /\ n1[conf] = n[conf] + 1
        BY <1>1, <1>3
      <4>2. \A c \in Confs : [n1 EXCEPT ![conf] = @ - 1][c] = n[c]
        BY <1>1, <1>3, <4>1
      <4>3. [n1 EXCEPT ![conf] = @ - 1] \in [Confs -> Int]
        BY <4>1, <1>1
      <4>4. [n1 EXCEPT ![conf] = @ - 1] = n
        BY <4>2, <4>3, <1>3
      <4> QED BY <4>1, <4>4
    <3>3. Exact(r.sets, seats, n1)
      BY <3>1, <1>2, <1>3
    <3> HIDE DEF n1
    <3>4. Exact(u.sets, seats, [n1 EXCEPT ![conf] = @ - 1])
      BY <1>4, <3>2, <3>3
    <3> QED BY <3>2, <3>4
  <2> QED BY <2>1, <2>2, <1>4, <1>5, <1>6, <1>8 DEF KeysInv
<1> QED BY <1>7, <1>8 DEF TermInit, r, u

(* A terminal that goes takes its count with it.                           *)
LEMMA TermDestroyKeeps ==
  ASSUME KeysInv, NEW t \in Terms, TermDestroy(t)
  PROVE  KeysInv'
<1> DEFINE n == UsersOf(terms)
           conf == terms[t]
           u == Unref(mgr, conf)
<1>1. KeyTypes /\ mgr \in Manager /\ OfSeats(mgr.sets, seats)
  BY DEF KeysInv, KeyTypes
<1>2. /\ t \in Open /\ terms' = [terms EXCEPT ![t] = None] /\ mgr' = u
      /\ UNCHANGED <<seats, past>>
  BY DEF TermDestroy
<1>3. /\ n \in [Confs -> Nat] /\ conf \in Confs /\ n[conf] > 0
      /\ UsersOf(terms') = [n EXCEPT ![conf] = @ - 1]
  BY <1>1, <1>2, UsersAre
<1> HIDE DEF u, conf
<1>4. /\ u \in Manager /\ OfSeats(u.sets, seats)
      /\ \A k \in [Confs -> Nat] : Exact(mgr.sets, seats, k) /\ k[conf] > 0
                                   => Exact(u.sets, seats, [k EXCEPT ![conf] = @ - 1])
  BY <1>1, <1>3, UnrefIs DEF u
<1>5. KeyTypes'
  BY <1>1, <1>2, <1>4 DEF KeyTypes
<1>6. ~past.miscounted => Exact(u.sets, seats, [n EXCEPT ![conf] = @ - 1])
  <2>1. ~past.miscounted => Exact(mgr.sets, seats, n)
    BY DEF KeysInv
  <2> HIDE DEF n
  <2> QED BY <2>1, <1>3, <1>4
<1> HIDE DEF n
<1> QED BY <1>2, <1>3, <1>4, <1>5, <1>6 DEF KeysInv

(* A seat that goes takes its sets with it.                                *)
LEMMA SeatRemovedKeeps ==
  ASSUME KeysInv, NEW s \in Seats, SeatRemoved(s)
  PROVE  KeysInv'
<1> DEFINE q == mgr.sets
           places == {i \in DOMAIN mgr.sets : mgr.sets[i].seat = s}
           r == Removed(mgr, places)
           new == r.sets
           n == UsersOf(terms)
<1>1. KeyTypes /\ mgr \in Manager /\ OfSeats(q, seats) /\ q \in Seq(KeySet)
  BY DEF KeysInv, KeyTypes, Manager
<1>2. /\ seats' = [seats EXCEPT ![s] = [plugged |-> FALSE, keymap |-> 0]] /\ mgr' = r
      /\ UNCHANGED <<terms, past>>
  BY DEF SeatRemoved
<1>3. seats \in [Seats -> [plugged : BOOLEAN, keymap : Nat]]
  BY <1>1 DEF KeyTypes
<1>4. /\ seats' \in [Seats -> [plugged : BOOLEAN, keymap : Nat]]
      /\ \A z \in Seats : seats'[z] = IF z = s THEN [plugged |-> FALSE, keymap |-> 0] ELSE seats[z]
  BY <1>2, <1>3
<1>5. \A j \in 1 .. Len(q) : j \in places <=> q[j].seat = s
  BY <1>1
<1> HIDE DEF places
<1>6. /\ r \in Manager
      /\ OneEach(q) => OneEach(new)
      /\ \A i \in 1 .. Len(new) : \E j \in 1 .. Len(q) : j \notin places /\ new[i] = q[j]
      /\ \A j \in 1 .. Len(q) : j \notin places => \E i \in 1 .. Len(new) : new[i] = q[j]
  BY <1>1, RemovedKeeps
<1> HIDE DEF r
<1>7. KeyTypes'
  <2>1. \A z \in Seats : ~seats'[z].plugged => seats'[z].keymap = 0
    BY <1>1, <1>4 DEF KeyTypes
  <2> QED BY <1>1, <1>2, <1>4, <1>6, <2>1 DEF KeyTypes
<1> HIDE DEF new, q
<1>8. \A j \in 1 .. Len(q) : q[j].seat \in Seats
  <2> SUFFICES ASSUME NEW j \in 1 .. Len(q) PROVE q[j].seat \in Seats
    OBVIOUS
  <2>1. q[j] \in KeySet
    BY <1>1
  <2> QED BY <2>1, KeySetIs
<1>9. OfSeats(new, seats')
  <2> SUFFICES ASSUME NEW i \in 1 .. Len(new)
               PROVE  /\ new[i].refs > 0 /\ seats'[new[i].seat].plugged
                      /\ new[i].bindings = IF seats'[new[i].seat].keymap = 0 THEN <<>>
                                           ELSE <<seats'[new[i].seat].keymap>>
    BY DEF OfSeats
  <2>1. PICK j \in 1 .. Len(q) : j \notin places /\ new[i] = q[j]
    BY <1>6
  <2>2. seats'[q[j].seat] = seats[q[j].seat]
    BY <1>4, <1>5, <1>8, <2>1
  <2>3. /\ q[j].refs > 0 /\ seats[q[j].seat].plugged
        /\ q[j].bindings = IF seats[q[j].seat].keymap = 0 THEN <<>> ELSE <<seats[q[j].seat].keymap>>
    BY <1>1 DEF OfSeats
  <2> QED BY <2>1, <2>2, <2>3
<1>10. ASSUME Exact(q, seats, n) PROVE Exact(new, seats', n)
  <2> HIDE DEF n
  <2>1. ASSUME NEW i \in 1 .. Len(new) PROVE new[i].refs = n[new[i].conf]
    <3>1. PICK j \in 1 .. Len(q) : j \notin places /\ new[i] = q[j]
      BY <1>6
    <3>2. q[j].refs = n[q[j].conf]
      BY <1>10 DEF Exact
    <3> QED BY <3>1, <3>2
  <2>2. OneEach(new)
    BY <1>6, <1>10 DEF Exact
  <2>3. ASSUME NEW c \in Confs, NEW z \in Seats, seats'[z].plugged, n[c] > 0
        PROVE  There(new, c, z)
    <3>1. z # s /\ seats[z].plugged
      BY <1>4, <2>3
    <3>2. There(q, c, z)
      BY <1>10, <2>3, <3>1 DEF Exact
    <3>3. PICK j \in 1 .. Len(q) : q[j].conf = c /\ q[j].seat = z
      BY <3>2 DEF There
    <3>4. PICK i \in 1 .. Len(new) : new[i] = q[j]
      BY <1>5, <1>6, <3>1, <3>3
    <3> QED BY <3>3, <3>4 DEF There
  <2> QED BY <2>1, <2>2, <2>3 DEF Exact
<1>11. mgr'.sets = new /\ UsersOf(terms') = n /\ (~past'.miscounted => ~past.miscounted)
  BY <1>2 DEF new
<1>12. ~past.miscounted => Exact(q, seats, n)
  BY DEF KeysInv, q
<1> HIDE DEF n
<1> QED BY <1>7, <1>9, <1>10, <1>11, <1>12 DEF KeysInv

(* Bindings are translated anew, and counts stay.                          *)
LEMMA KeymapKeeps ==
  ASSUME KeysInv, NEW s \in Seats, Keymap(s)
  PROVE  KeysInv'
<1> DEFINE q == mgr.sets
           l == Len(q)
           n == UsersOf(terms)
<1>1. PICK keymap \in {0, past.keymaps + 1} :
        /\ seats' = [seats EXCEPT ![s].keymap = keymap]
        /\ mgr' = [mgr EXCEPT !.sets = [i \in DOMAIN mgr.sets |->
                    IF mgr.sets[i].seat # s THEN mgr.sets[i]
                    ELSE [mgr.sets[i] EXCEPT !.bindings =
                            IF keymap = 0 THEN <<>> ELSE <<keymap>>]]]
  BY DEF Keymap
<1> DEFINE b == IF keymap = 0 THEN <<>> ELSE <<keymap>>
           q1 == [i \in DOMAIN q |-> IF q[i].seat # s THEN q[i] ELSE [q[i] EXCEPT !.bindings = b]]
<1>2. /\ KeyTypes /\ mgr \in Manager /\ OfSeats(q, seats)
      /\ q \in Seq(KeySet) /\ l \in Nat /\ DOMAIN q = 1 .. l
      /\ mgr.last \in Nat /\ mgr.last <= l
  BY DEF KeysInv, KeyTypes, Manager
<1>3. past \in [keymaps : Nat, windows : Nat, miscounted : BOOLEAN]
  BY <1>2 DEF KeyTypes
<1>4. keymap \in Nat /\ b \in Seq(Nat)
  <2>1. keymap \in Nat
    BY <1>3
  <2>2. <<keymap>> \in Seq(Nat) /\ <<>> \in Seq(Nat)
    BY <2>1
  <2> QED BY <2>1, <2>2
<1> HIDE DEF b
<1>5. UNCHANGED terms /\ past' = [past EXCEPT !.keymaps = @ + 1] /\ seats[s].plugged
  BY DEF Keymap
<1>6. /\ past' \in [keymaps : Nat, windows : Nat, miscounted : BOOLEAN]
      /\ past'.miscounted = past.miscounted
  BY <1>3, <1>5
<1>7. /\ seats' \in [Seats -> [plugged : BOOLEAN, keymap : Nat]]
      /\ \A z \in Seats : /\ seats'[z].plugged = seats[z].plugged
                          /\ seats'[z].keymap = IF z = s THEN keymap ELSE seats[z].keymap
  <2>1. seats \in [Seats -> [plugged : BOOLEAN, keymap : Nat]]
    BY <1>2 DEF KeyTypes
  <2>2. [seats[s] EXCEPT !.keymap = keymap] \in [plugged : BOOLEAN, keymap : Nat]
    BY <2>1, <1>4
  <2>3. \A z \in Seats : seats'[z] = IF z = s THEN [seats[s] EXCEPT !.keymap = keymap] ELSE seats[z]
    BY <1>1, <2>1
  <2>4. seats' \in [Seats -> [plugged : BOOLEAN, keymap : Nat]]
    BY <1>1, <2>1, <2>2
  <2> QED BY <2>1, <2>3, <2>4
<1>8. ASSUME NEW k \in 1 .. l
      PROVE  /\ q1[k] \in KeySet /\ q[k] \in KeySet
             /\ q1[k].conf = q[k].conf /\ q1[k].seat = q[k].seat /\ q1[k].refs = q[k].refs
             /\ q1[k].bindings = IF q[k].seat = s THEN b ELSE q[k].bindings
  <2> DEFINE set == [conf |-> q[k].conf, seat |-> q[k].seat, refs |-> q[k].refs, bindings |-> b]
  <2>1. q[k] \in KeySet
    <3> HIDE DEF q
    <3> QED BY <1>2
  <2>2. q[k].conf \in Confs /\ q[k].seat \in Seats /\ q[k].refs \in Nat
    <3> HIDE DEF q
    <3> QED BY <2>1, KeySetIs
  <2>3. set \in KeySet
    BY <1>4, <2>2 DEF KeySet
  <2>4. [q[k] EXCEPT !.bindings = b] = set
    <3> HIDE DEF q
    <3> QED BY <2>1 DEF KeySet
  <2>5. q1[k] = IF q[k].seat # s THEN q[k] ELSE [q[k] EXCEPT !.bindings = b]
    <3> HIDE DEF q
    <3> QED BY <1>2
  <2> HIDE DEF q, q1
  <2>6. CASE q[k].seat = s
    <3>1. q1[k] = set
      BY <2>4, <2>5, <2>6
    <3> QED BY <3>1, <2>1, <2>3, <2>6
  <2>7. CASE q[k].seat # s
    BY <2>1, <2>5, <2>7
  <2> QED BY <2>6, <2>7
<1>9. q1 \in Seq(KeySet) /\ Len(q1) = l
  <2>1. DOMAIN q1 = 1 .. l
    BY <1>2
  <2>2. q1 = [k \in 1 .. l |-> q1[k]]
    <3> HIDE DEF q
    <3> QED BY <2>1
  <2> HIDE DEF q1, l
  <2>3. q1 \in [1 .. l -> KeySet]
    BY <1>8, <2>2
  <2> QED BY <2>3, <1>2
<1>10. mgr' = [sets |-> q1, last |-> mgr.last]
  <2>1. mgr' = [mgr EXCEPT !.sets = q1]
    BY <1>1 DEF b
  <2> HIDE DEF q1
  <2> QED BY <2>1, <1>2 DEF Manager
<1>11. mgr' \in Manager /\ mgr'.sets = q1
  <2> DEFINE last == mgr.last
  <2>1. mgr' = [sets |-> q1, last |-> last] /\ last \in Nat /\ last <= Len(q1)
    BY <1>2, <1>9, <1>10
  <2> HIDE DEF q1, last
  <2> QED BY <1>9, <2>1 DEF Manager
<1> HIDE DEF q1, q
<1>12. KeyTypes'
  <2>1. \A z \in Seats : ~seats'[z].plugged => seats'[z].keymap = 0
    BY <1>2, <1>5, <1>7 DEF KeyTypes
  <2>2. terms' \in [Terms -> Confs \cup {None}]
    BY <1>2, <1>5 DEF KeyTypes
  <2> QED BY <1>6, <1>7, <1>11, <2>1, <2>2 DEF KeyTypes
<1>13. OfSeats(q1, seats')
  <2> SUFFICES ASSUME NEW i \in 1 .. l
               PROVE  /\ q1[i].refs > 0 /\ seats'[q1[i].seat].plugged
                      /\ q1[i].bindings = IF seats'[q1[i].seat].keymap = 0 THEN <<>>
                                          ELSE <<seats'[q1[i].seat].keymap>>
    BY <1>9 DEF OfSeats
  <2> DEFINE z == q[i].seat
  <2>1. /\ q[i].refs > 0 /\ seats[z].plugged
        /\ q[i].bindings = IF seats[z].keymap = 0 THEN <<>> ELSE <<seats[z].keymap>>
    BY <1>2 DEF OfSeats
  <2>2. z \in Seats
    BY <1>8, KeySetIs
  <2>3. /\ q1[i].seat = z /\ q1[i].refs = q[i].refs
        /\ q1[i].bindings = IF z = s THEN b ELSE q[i].bindings
    BY <1>8
  <2> HIDE DEF z
  <2> QED BY <1>7, <2>1, <2>2, <2>3 DEF b
<1>14. ASSUME Exact(q, seats, n) PROVE Exact(q1, seats', n)
  <2> HIDE DEF n
  <2>1. \A i \in 1 .. l : q1[i].refs = n[q1[i].conf]
    BY <1>8, <1>14 DEF Exact
  <2>2. OneEach(q1)
    BY <1>8, <1>9, <1>14 DEF Exact, OneEach
  <2>3. ASSUME NEW c \in Confs, NEW z \in Seats, seats'[z].plugged, n[c] > 0
        PROVE  There(q1, c, z)
    <3>1. There(q, c, z)
      BY <1>7, <1>14, <2>3 DEF Exact
    <3> QED BY <3>1, <1>8, <1>9 DEF There
  <2> QED BY <1>9, <2>1, <2>2, <2>3 DEF Exact
<1>15. UsersOf(terms') = n
  BY <1>5
<1>16. ~past.miscounted => Exact(q, seats, n)
  BY DEF KeysInv, q
<1> HIDE DEF n
<1> QED BY <1>6, <1>11, <1>12, <1>13, <1>14, <1>15, <1>16 DEF KeysInv

(* A key press only moves the last used set.                               *)
LEMMA KeyPressedKeeps ==
  ASSUME KeysInv, NEW t \in Terms, NEW s \in Seats, KeyPressed(t, s)
  PROVE  KeysInv'
<1> DEFINE i == Found(mgr, terms[t], s)
<1>1. /\ i # 0 /\ mgr' = [mgr EXCEPT !.last = i] /\ UNCHANGED <<terms, seats, past>>
  BY DEF KeyPressed
<1>2. KeyTypes /\ mgr \in Manager
  BY DEF KeysInv, KeyTypes
<1>3. i \in 1 .. Len(mgr.sets)
  BY <1>1, <1>2, FoundIs
<1> HIDE DEF i
<1>4. mgr' = [sets |-> mgr.sets, last |-> i]
  BY <1>1, <1>2 DEF Manager
<1>5. mgr' \in Manager /\ mgr'.sets = mgr.sets
  <2> DEFINE q == mgr.sets
  <2>1. q \in Seq(KeySet) /\ mgr' = [sets |-> q, last |-> i] /\ i \in Nat /\ i <= Len(q)
    BY <1>2, <1>3, <1>4 DEF Manager
  <2> HIDE DEF q
  <2>2. mgr' \in Manager /\ mgr'.sets = q
    BY <2>1 DEF Manager
  <2> QED BY <2>2 DEF q
<1>6. KeyTypes'
  BY <1>1, <1>2, <1>5 DEF KeyTypes
<1>7. UsersOf(terms') = UsersOf(terms)
  BY <1>1
<1> QED BY <1>1, <1>5, <1>6, <1>7 DEF KeysInv

(* A new seat has a set per terminal: one per configuration, counted once, *)
(* if no two share one.                                                    *)
LEMMA SeatAddedKeeps ==
  ASSUME KeysInv, NEW s \in Seats, SeatAdded(s)
  PROVE  KeysInv'
<1> DEFINE q == mgr.sets
           l == Len(q)
           n == UsersOf(terms)
           list == SetToSeq(Open)
           added == [i \in DOMAIN list |-> NewSet(terms[list[i]], s)]
           N == Len(list)
           new == q \o added
<1>1. /\ KeyTypes /\ mgr \in Manager /\ OfSeats(q, seats)
      /\ q \in Seq(KeySet) /\ l \in Nat
      /\ mgr.last \in Nat /\ mgr.last <= l
  BY DEF KeysInv, KeyTypes, Manager
<1>2. /\ ~seats[s].plugged
      /\ mgr' = [mgr EXCEPT !.sets = @ \o added]
      /\ seats' = [seats EXCEPT ![s] = [plugged |-> TRUE, keymap |-> 0]]
      /\ past' = [past EXCEPT !.miscounted = @ \/ \E c \in Confs : Cardinality(Users(c)) > 1]
      /\ UNCHANGED terms
  BY DEF SeatAdded
<1>3. seats[s].keymap = 0
  BY <1>1, <1>2 DEF KeyTypes
<1>4. /\ seats' \in [Seats -> [plugged : BOOLEAN, keymap : Nat]]
      /\ \A z \in Seats : seats'[z] = IF z = s THEN [plugged |-> TRUE, keymap |-> 0] ELSE seats[z]
  <2>1. seats \in [Seats -> [plugged : BOOLEAN, keymap : Nat]]
    BY <1>1 DEF KeyTypes
  <2> QED BY <2>1, <1>2
<1>5. /\ past' \in [keymaps : Nat, windows : Nat, miscounted : BOOLEAN]
      /\ past'.miscounted = (past.miscounted \/ \E c \in Confs : Cardinality(Users(c)) > 1)
  <2> DEFINE two == \E c \in Confs : Cardinality(Users(c)) > 1
  <2>1. past \in [keymaps : Nat, windows : Nat, miscounted : BOOLEAN]
    BY <1>1 DEF KeyTypes
  <2>2. past' = [past EXCEPT !.miscounted = @ \/ two] /\ two \in BOOLEAN
    BY <1>2
  <2> HIDE DEF two
  <2>3. /\ past' \in [keymaps : Nat, windows : Nat, miscounted : BOOLEAN]
        /\ past'.miscounted = (past.miscounted \/ two)
    BY <2>1, <2>2
  <2> QED BY <2>3 DEF two
<1>6. /\ list \in Seq(Open) /\ N \in Nat /\ DOMAIN list = 1 .. N
      /\ \A i, j \in 1 .. N : list[i] = list[j] => i = j
      /\ \A t \in Open : \E i \in 1 .. N : list[i] = t
      /\ \A i \in 1 .. N : list[i] \in Open
  <2>1. IsFiniteSet(Open)
    BY KeyBindingsAssumption, FS_Subset DEF Open
  <2>2. /\ list \in Seq(Open)
        /\ \A i, j \in 1 .. N : list[i] = list[j] => i = j
        /\ \A t \in Open : \E i \in 1 .. N : list[i] = t
    BY <2>1, ListOf
  <2> HIDE DEF list
  <2> QED BY <2>2
<1> HIDE DEF list
<1>7. ASSUME NEW i \in 1 .. N
      PROVE  /\ added[i] \in KeySet /\ list[i] \in Terms
             /\ added[i].conf = terms[list[i]] /\ added[i].seat = s /\ added[i].refs = 1
             /\ added[i].bindings = <<>> /\ terms[list[i]] \in Confs
  <2>1. terms[list[i]] \in Confs /\ list[i] \in Terms
    BY <1>1, <1>6, UsersAre DEF Open
  <2>2. added[i] = NewSet(terms[list[i]], s)
    BY <1>6
  <2> DEFINE c == terms[list[i]]
  <2> HIDE DEF added, c
  <2>3. c \in Confs /\ added[i] = NewSet(c, s)
    BY <2>1, <2>2 DEF c
  <2>4. /\ NewSet(c, s) \in KeySet /\ NewSet(c, s).conf = c /\ NewSet(c, s).seat = s
        /\ NewSet(c, s).refs = 1
        /\ NewSet(c, s).bindings = IF seats[s].keymap = 0 THEN <<>> ELSE <<seats[s].keymap>>
    BY <2>3, <1>1, NewSetIs
  <2>5. NewSet(c, s).bindings = <<>>
    BY <2>4, <1>3
  <2>6. /\ added[i] \in KeySet /\ added[i].conf = c /\ added[i].seat = s /\ added[i].refs = 1
        /\ added[i].bindings = <<>>
    BY <2>3, <2>4, <2>5
  <2> QED BY <2>1, <2>6 DEF c
<1>8. added \in Seq(KeySet) /\ Len(added) = N
  <2>1. DOMAIN added = 1 .. N
    BY <1>6
  <2>2. added = [k \in 1 .. N |-> added[k]]
    BY <2>1
  <2> HIDE DEF added, N
  <2>3. added \in [1 .. N -> KeySet]
    BY <1>7, <2>2
  <2> QED BY <2>3, <1>6
<1> HIDE DEF added, N
<1>9. new \in Seq(KeySet) /\ Len(new) = l + N
  <2> HIDE DEF q
  <2>1. q \o added \in Seq(KeySet) /\ Len(q \o added) = Len(q) + Len(added)
    BY <1>1, <1>8, ConcatProperties
  <2> QED BY <2>1, <1>8
<1>10. /\ \A i \in 1 .. l : new[i] = q[i]
       /\ \A i \in 1 .. N : new[l + i] = added[i]
       /\ \A i \in 1 .. N : l + i \in 1 .. l + N
       /\ \A i \in 1 .. l : i \in 1 .. l + N
       /\ \A k \in 1 .. l + N : k \in 1 .. l \/ \E i \in 1 .. N : k = l + i
  <2> HIDE DEF q
  <2>1. \A k \in 1 .. Len(q) + Len(added) :
          (q \o added)[k] = IF k <= Len(q) THEN q[k] ELSE added[k - Len(q)]
    BY <1>1, <1>8, ConcatProperties
  <2>2. \A k \in 1 .. l + N : new[k] = IF k <= l THEN q[k] ELSE added[k - l]
    BY <2>1, <1>8
  <2> HIDE DEF new, l
  <2>3. \A i \in 1 .. N : l + i \in 1 .. l + N /\ ~(l + i <= l) /\ (l + i) - l = i
    BY <1>1, <1>6
  <2>4. \A i \in 1 .. l : i \in 1 .. l + N /\ i <= l
    BY <1>1, <1>6
  <2>5. \A k \in 1 .. l + N : k \in 1 .. l \/ (k - l \in 1 .. N /\ k = l + (k - l))
    BY <1>1, <1>6
  <2>6. \A i \in 1 .. l : new[i] = q[i]
    BY <2>2, <2>4
  <2>7. \A i \in 1 .. N : new[l + i] = added[i]
    <3> TAKE i \in 1 .. N
    <3>1. new[l + i] = added[(l + i) - l]
      BY <2>2, <2>3
    <3> QED BY <3>1, <2>3
  <2> QED BY <2>3, <2>4, <2>5, <2>6, <2>7
<1>11. mgr' = [sets |-> new, last |-> mgr.last]
  <2> HIDE DEF q
  <2>1. mgr' = [mgr EXCEPT !.sets = new]
    BY <1>2 DEF q
  <2> HIDE DEF new
  <2> QED BY <2>1, <1>1 DEF Manager
<1>12. mgr' \in Manager /\ mgr'.sets = new
  <2> DEFINE last == mgr.last
  <2> HIDE DEF new, l
  <2>1. mgr' = [sets |-> new, last |-> last] /\ last \in Nat /\ last <= Len(new)
    BY <1>1, <1>6, <1>9, <1>11
  <2> HIDE DEF last
  <2> QED BY <1>9, <2>1 DEF Manager
<1> HIDE DEF new, q, l
<1>13. KeyTypes'
  <2>1. \A z \in Seats : ~seats'[z].plugged => seats'[z].keymap = 0
    BY <1>1, <1>4 DEF KeyTypes
  <2>2. terms' \in [Terms -> Confs \cup {None}]
    BY <1>1, <1>2 DEF KeyTypes
  <2> QED BY <1>4, <1>5, <1>12, <2>1, <2>2 DEF KeyTypes
<1>14. ASSUME NEW k \in 1 .. l
       PROVE  /\ q[k].seat \in Seats /\ q[k].conf \in Confs /\ q[k].seat # s
              /\ q[k].refs > 0 /\ seats[q[k].seat].plugged
              /\ q[k].bindings = IF seats[q[k].seat].keymap = 0 THEN <<>>
                                 ELSE <<seats[q[k].seat].keymap>>
  <2>1. q[k] \in KeySet
    BY <1>1 DEF l
  <2>2. q[k].seat \in Seats /\ q[k].conf \in Confs
    BY <2>1, KeySetIs
  <2>3. /\ q[k].refs > 0 /\ seats[q[k].seat].plugged
        /\ q[k].bindings = IF seats[q[k].seat].keymap = 0 THEN <<>> ELSE <<seats[q[k].seat].keymap>>
    BY <1>1 DEF OfSeats, l
  <2> QED BY <2>2, <2>3, <1>2
<1>15. OfSeats(new, seats')
  <2> DEFINE Fine(x) == /\ x.refs > 0 /\ seats'[x.seat].plugged
                        /\ x.bindings = IF seats'[x.seat].keymap = 0 THEN <<>>
                                        ELSE <<seats'[x.seat].keymap>>
  <2>1. ASSUME NEW k \in 1 .. l PROVE Fine(new[k])
    <3>1. new[k] = q[k] /\ seats'[q[k].seat] = seats[q[k].seat]
      BY <1>4, <1>10, <1>14
    <3> QED BY <3>1, <1>14
  <2>2. ASSUME NEW i \in 1 .. N PROVE Fine(new[l + i])
    <3>1. new[l + i] = added[i] /\ seats'[s] = [plugged |-> TRUE, keymap |-> 0]
      BY <1>4, <1>10
    <3> QED BY <3>1, <1>7
  <2>3. ASSUME NEW k \in 1 .. Len(new) PROVE Fine(new[k])
    <3>1. k \in 1 .. l \/ \E i \in 1 .. N : k = l + i
      BY <1>9, <1>10
    <3> HIDE DEF Fine
    <3> QED BY <3>1, <2>1, <2>2
  <2> QED BY <2>3 DEF OfSeats
<1>16. ASSUME Exact(q, seats, n), \A c \in Confs : ~(Cardinality(Users(c)) > 1)
       PROVE  Exact(new, seats', n)
  <2>1. \A c \in Confs, t, u \in Terms : terms[t] = c /\ terms[u] = c => n[c] = 1 /\ t = u
    <3> SUFFICES ASSUME NEW c \in Confs, NEW t \in Terms, NEW u \in Terms,
                        terms[t] = c, terms[u] = c
                 PROVE  n[c] = 1 /\ t = u
      OBVIOUS
    <3>1. n[c] = Cardinality(Users(c))
      BY DEF UsersOf, Users
    <3>2. t \in Users(c) /\ u \in Users(c)
      BY <3>1 DEF Users
    <3>3. IsFiniteSet(Users(c))
      BY KeyBindingsAssumption, FS_Subset DEF Users
    <3>4. Cardinality(Users(c)) \in Nat /\ Cardinality(Users(c)) # 0
      BY <3>2, <3>3, FS_CardinalityType, FS_EmptySet
    <3>5. Cardinality(Users(c)) = 1
      BY <3>4, <1>16
    <3>6. \E x : Users(c) = {x}
      BY <3>3, <3>5, FS_Singleton
    <3> QED BY <3>1, <3>2, <3>5, <3>6
  <2> HIDE DEF n
  <2>2. ASSUME NEW k \in 1 .. Len(new) PROVE new[k].refs = n[new[k].conf]
    <3>1. CASE k \in 1 .. l
      <4>1. new[k] = q[k]
        BY <3>1, <1>10
      <4>2. q[k].refs = n[q[k].conf]
        BY <3>1, <1>16 DEF Exact, l
      <4> QED BY <4>1, <4>2
    <3>2. ASSUME NEW i \in 1 .. N, k = l + i PROVE new[k].refs = n[new[k].conf]
      <4>1. new[k] = added[i]
        BY <1>10, <3>2
      <4> QED BY <4>1, <1>7, <2>1
    <3> QED BY <3>1, <3>2, <1>9, <1>10
  <2>3. OneEach(new)
    <3> SUFFICES ASSUME NEW j \in 1 .. Len(new), NEW k \in 1 .. Len(new),
                        new[j].conf = new[k].conf, new[j].seat = new[k].seat
                 PROVE  j = k
      BY DEF OneEach
    <3>1. /\ j \in 1 .. l \/ \E i \in 1 .. N : j = l + i
          /\ k \in 1 .. l \/ \E i \in 1 .. N : k = l + i
      BY <1>9, <1>10
    <3>2. CASE j \in 1 .. l /\ k \in 1 .. l
      BY <3>2, <1>10, <1>16 DEF Exact, OneEach, l
    <3>3. \A a \in 1 .. l, i \in 1 .. N : new[a].seat # new[l + i].seat
      <4> TAKE a \in 1 .. l, i \in 1 .. N
      <4>1. new[a] = q[a] /\ new[l + i] = added[i]
        BY <1>10
      <4> QED BY <4>1, <1>7, <1>14
    <3>4. ASSUME NEW a \in 1 .. N, j = l + a, NEW i \in 1 .. N, k = l + i
          PROVE  j = k
      <4>1. new[j] = added[a] /\ new[k] = added[i]
        BY <1>10, <3>4
      <4>2. terms[list[a]] = terms[list[i]]
        BY <4>1, <1>7
      <4>3. list[a] = list[i]
        BY <4>2, <1>7, <2>1
      <4> QED BY <4>3, <1>6, <3>4
    <3> QED BY <3>1, <3>2, <3>3, <3>4
  <2>4. ASSUME NEW c \in Confs, NEW z \in Seats, seats'[z].plugged, n[c] > 0
        PROVE  There(new, c, z)
    <3>1. CASE z # s
      <4>1. seats[z].plugged
        BY <1>4, <2>4, <3>1
      <4>2. There(q, c, z)
        BY <4>1, <1>16, <2>4 DEF Exact
      <4>3. PICK k \in 1 .. l : q[k].conf = c /\ q[k].seat = z
        BY <4>2 DEF There, l
      <4>4. new[k] = q[k] /\ k \in 1 .. Len(new)
        BY <1>9, <1>10
      <4> QED BY <4>3, <4>4 DEF There
    <3>2. CASE z = s
      <4>1. \E t \in Terms : terms[t] = c
        <5>1. n[c] = Cardinality({t \in Terms : terms[t] = c})
          BY DEF n, UsersOf
        <5>2. Cardinality({}) = 0
          BY FS_EmptySet
        <5> QED BY <5>1, <5>2, <2>4
      <4>2. PICK t \in Terms : terms[t] = c
        BY <4>1
      <4>3. t \in Open
        BY <4>2, KeyBindingsAssumption, ParticipantsAssumption DEF Open, Confs
      <4>4. PICK i \in 1 .. N : list[i] = t
        BY <4>3, <1>6
      <4>5. new[l + i] = added[i] /\ l + i \in 1 .. Len(new)
        BY <1>9, <1>10
      <4>6. added[i].conf = c /\ added[i].seat = z
        BY <4>2, <4>4, <3>2, <1>7
      <4> QED BY <4>5, <4>6 DEF There
    <3> QED BY <3>1, <3>2
  <2> QED BY <2>2, <2>3, <2>4 DEF Exact
<1>17. UsersOf(terms') = n
  BY <1>2
<1>18. ~past.miscounted => Exact(q, seats, n)
  BY DEF KeysInv, q
<1> HIDE DEF n
<1>19. ~past'.miscounted => Exact(new, seats', n)
  BY <1>5, <1>16, <1>18
<1> QED BY <1>12, <1>13, <1>15, <1>17, <1>19 DEF KeysInv

(* Every step keeps the invariant.                                         *)
LEMMA KeysKeep == KeysInv /\ [KeysNext]_keyVars => KeysInv'
<1> SUFFICES ASSUME KeysInv, [KeysNext]_keyVars PROVE KeysInv'
  OBVIOUS
<1>1. ASSUME NEW t \in Terms, NEW conf \in {Shared, t}, TermInit(t, conf) PROVE KeysInv'
  BY <1>1, TermInitKeeps
<1>2. ASSUME NEW t \in Terms, TermDestroy(t) PROVE KeysInv'
  BY <1>2, TermDestroyKeeps
<1>3. ASSUME NEW t \in Terms, NEW s \in Seats, KeyPressed(t, s) PROVE KeysInv'
  BY <1>3, KeyPressedKeeps
<1>4. ASSUME NEW s \in Seats, SeatAdded(s) PROVE KeysInv'
  BY <1>4, SeatAddedKeeps
<1>5. ASSUME NEW s \in Seats, SeatRemoved(s) PROVE KeysInv'
  BY <1>5, SeatRemovedKeeps
<1>6. ASSUME NEW s \in Seats, Keymap(s) PROVE KeysInv'
  BY <1>6, KeymapKeeps
<1>7. CASE UNCHANGED keyVars
  <2>1. UNCHANGED <<terms, seats, mgr, past>>
    BY <1>7 DEF keyVars
  <2>2. UsersOf(terms') = UsersOf(terms)
    BY <2>1
  <2>3. KeyTypes'
    BY <2>1 DEF KeysInv, KeyTypes
  <2> QED BY <2>1, <2>2, <2>3 DEF KeysInv
<1> QED BY <1>1, <1>2, <1>3, <1>4, <1>5, <1>6, <1>7 DEF KeysNext

(* The invariant says what SetsCounted says: a set that is counted by its  *)
(* terminals is found by each of them.                                     *)
LEMMA KeysInvSays == KeysInv => SetsCounted
<1> SUFFICES ASSUME KeysInv PROVE SetsCounted
  OBVIOUS
<1> DEFINE q == mgr.sets
           l == Len(q)
<1>1. KeyTypes /\ mgr \in Manager /\ OfSeats(q, seats)
  BY DEF KeysInv, KeyTypes
<1>2. q \in Seq(KeySet) /\ l \in Nat /\ DOMAIN q = 1 .. l /\ mgr.last \in 0 .. l
  BY <1>1 DEF Manager
<1>3. ASSUME NEW i \in 1 .. l
      PROVE  /\ q[i].refs > 0 /\ q[i].conf \in Confs /\ q[i].seat \in Seats
             /\ seats[q[i].seat].plugged
             /\ q[i].bindings = IF seats[q[i].seat].keymap = 0 THEN <<>> ELSE <<seats[q[i].seat].keymap>>
  <2>1. q[i] \in KeySet
    <3> HIDE DEF q
    <3> QED BY <1>2
  <2>2. q[i].conf \in Confs /\ q[i].seat \in Seats
    <3> HIDE DEF q
    <3> QED BY <2>1, KeySetIs
  <2> QED BY <1>1, <2>2 DEF OfSeats
<1>4. ASSUME ~past.miscounted, NEW i \in 1 .. l
      PROVE  /\ q[i].refs = Cardinality(Users(q[i].conf))
             /\ \A j \in 1 .. l : q[j].conf = q[i].conf /\ q[j].seat = q[i].seat => i = j
  <2>1. Exact(q, seats, UsersOf(terms))
    BY <1>4 DEF KeysInv
  <2> HIDE DEF q
  <2>2. q[i].refs = UsersOf(terms)[q[i].conf]
    BY <2>1 DEF Exact, l
  <2>3. UsersOf(terms)[q[i].conf] = Cardinality(Users(q[i].conf))
    BY <1>3 DEF UsersOf, Users
  <2> QED BY <2>1, <2>2, <2>3 DEF Exact, OneEach, l
<1>5. ASSUME ~past.miscounted, NEW t \in Open, NEW s \in Seats, seats[s].plugged
      PROVE  Found(mgr, terms[t], s) # 0
  <2>1. Exact(q, seats, UsersOf(terms))
    BY <1>5 DEF KeysInv
  <2>2. terms[t] \in Confs /\ UsersOf(terms)[terms[t]] > 0
    BY <1>1, UsersAre
  <2>3. There(mgr.sets, terms[t], s)
    BY <2>1, <2>2, <1>5 DEF Exact
  <2>4. Found(mgr, terms[t], s) = 0 => ~There(mgr.sets, terms[t], s)
    <3>1. \/ Found(mgr, terms[t], s) = 0 /\ ~There(mgr.sets, terms[t], s)
          \/ Found(mgr, terms[t], s) \in 1 .. Len(mgr.sets)
      BY <1>1, FoundIs
    <3>2. 0 \notin 1 .. Len(mgr.sets)
      BY <1>2
    <3> QED BY <3>1, <3>2
  <2> QED BY <2>3, <2>4
<1>6. \A i \in DOMAIN mgr.sets :
        /\ seats[mgr.sets[i].seat].plugged
        /\ mgr.sets[i].bindings = IF seats[mgr.sets[i].seat].keymap = 0 THEN <<>>
                                  ELSE <<seats[mgr.sets[i].seat].keymap>>
        /\ ~past.miscounted =>
             /\ mgr.sets[i].refs = Cardinality(Users(mgr.sets[i].conf))
             /\ mgr.sets[i].refs > 0
             /\ \A j \in DOMAIN mgr.sets :
                  mgr.sets[j].conf = mgr.sets[i].conf /\ mgr.sets[j].seat = mgr.sets[i].seat
                  => i = j
  BY <1>2, <1>3, <1>4
<1>7. mgr.last \in 0 .. Len(mgr.sets)
  BY <1>2
<1>8. ~past.miscounted => \A t \in Open, s \in Seats :
                            seats[s].plugged => Found(mgr, terms[t], s) # 0
  BY <1>5
<1> HIDE DEF q, l
<1> QED BY <1>6, <1>7, <1>8 DEF SetsCounted

(* Terminals and seats come and go and keymaps change, in any order and    *)
(* number (the run bounds them): a set of bindings is counted by the       *)
(* terminals that use it and destroyed with the last of them or with its   *)
(* seat, never before, so that a key always finds its bindings, unless a   *)
(* seat was added while a configuration had several terminals              *)
(* (key-binding.c:101, 137, 245).                                          *)
THEOREM TheSetsAreCounted == KeysSpec => []SetsCounted
<1>1. KeysSpec => []KeysInv
  BY KeysAtFirst, KeysKeep, PTL DEF KeysSpec
<1> QED BY <1>1, KeysInvSays, PTL

-----------------------------------------------------------------------------
(* The lists of bindings of a server and of a client (BindingLists).       *)
Who == {"server", "client"}
AnyAction == [name : {"copy", "paste", "pipe", "text"}, with : {"", "cmd", "txt"}]
BoundKind == [action : AnyAction, combo : Combos, block : Nat, master : BOOLEAN]

ListTypes ==
  /\ type \in {"key", "mouse"}
  /\ lists \in [Who -> Seq(BoundKind)]
  /\ parsing \in Who \cup {""}
  /\ blocks \in [used : SUBSET Nat, last : Nat]
  /\ \A b \in blocks.used : b \in 1 .. blocks.last
  /\ unresolved \subseteq Who

(* The bindings of an action are those of one line, next to each other,    *)
(* and the first of them owns their memory.                                *)
OneLineEach(list) ==
  /\ \A i, j, k \in 1 .. Len(list) :
       i < j /\ j < k /\ list[i].action = list[k].action => list[j].action = list[i].action
  /\ \A i, j \in 1 .. Len(list) :
       /\ list[i].action = list[j].action => list[i].block = list[j].block
       /\ list[i].block = list[j].block /\ list[i].block # 0 => list[i].action = list[j].action
  /\ \A i \in 1 .. Len(list) : list[i].block # 0 =>
       (list[i].master <=> \A j \in 1 .. i - 1 : list[j].block # list[i].block)

InUse(list, used) == \A i \in 1 .. Len(list) : list[i].block # 0 => list[i].block \in used

Settled(list) ==
  /\ \A i, j \in 1 .. Len(list) :
       list[i].combo = list[j].combo => list[i].action = list[j].action
  /\ \A i \in 1 .. Len(list) : type = "mouse" /\ i > 1 => list[i].combo.mods # Override

NoneShared(l, m) ==
  \A i \in 1 .. Len(l), j \in 1 .. Len(m) : l[i].block = m[j].block => l[i].block = 0

ListsKept ==
  /\ \A who \in Who : OneLineEach(lists[who]) /\ InUse(lists[who], blocks.used)
  /\ NoneShared(lists["server"], lists["client"])
  /\ \A who \in Who \ ({parsing} \cup unresolved) : Settled(lists[who])

ListsInv == ListTypes /\ (Defined => ListsKept)

-----------------------------------------------------------------------------
(* What is left of a list keeps its order.                                 *)
LEMMA KeptFrom ==
  ASSUME NEW X, NEW q \in Seq(X), NEW new \in Seq(X), NEW places, NEW pos,
         Kept(q, new, places, pos)
  PROVE  \E from \in [1 .. Len(new) -> 1 .. Len(q)] :
           /\ \A i \in 1 .. Len(new) : from[i] \notin places /\ new[i] = q[from[i]]
           /\ \A i, j \in 1 .. Len(new) : i < j => from[i] < from[j]
           /\ \A k \in 1 .. Len(q) : k \notin places => \E i \in 1 .. Len(new) : from[i] = k
<1> DEFINE m == Len(new)
           n == Len(q)
           from == [i \in 1 .. m |-> CHOOSE j \in 1 .. n : j \notin places /\ pos[j] = i /\ new[i] = q[j]]
<1>1. m \in Nat /\ n \in Nat
  OBVIOUS
<1>2. \A i \in 1 .. m : \E j \in 1 .. n : j \notin places /\ pos[j] = i /\ new[i] = q[j]
  BY DEF Kept
<1>3. \A j \in 1 .. n : j \notin places => pos[j] \in 1 .. m
  BY DEF Kept
<1>4. \A i, j \in 1 .. n : i < j /\ j \notin places => pos[i] < pos[j]
  BY DEF Kept
<1> HIDE DEF m, n
<1>5. \A i \in 1 .. m : /\ from[i] \in 1 .. n /\ from[i] \notin places
                        /\ pos[from[i]] = i /\ new[i] = q[from[i]]
  BY <1>2
<1>6. from \in [1 .. m -> 1 .. n]
  BY <1>5
<1> HIDE DEF from
<1>7. ASSUME NEW i \in 1 .. m, NEW j \in 1 .. m, i < j PROVE from[i] < from[j]
  <2>1. /\ from[i] \in 1 .. n /\ from[j] \in 1 .. n /\ from[i] \notin places
        /\ pos[from[i]] = i /\ pos[from[j]] = j
    BY <1>5
  <2>2. from[i] # from[j]
    BY <2>1, <1>7
  <2>3. ~ (from[j] < from[i])
    BY <2>1, <1>4, <1>7
  <2> QED BY ONLY <2>1, <2>2, <2>3, <1>1
<1>8. ASSUME NEW k \in 1 .. n, k \notin places PROVE \E i \in 1 .. m : from[i] = k
  <2>1. pos[k] \in 1 .. m
    BY <1>3, <1>8
  <2> DEFINE l == from[pos[k]]
  <2>2. l \in 1 .. n /\ l \notin places /\ pos[l] = pos[k]
    BY <2>1, <1>5
  <2> HIDE DEF l
  <2>3. ~ (l < k) /\ ~ (k < l)
    BY <2>1, <2>2, <1>4, <1>8
  <2>4. l = k
    BY ONLY <2>2, <2>3, <1>1
  <2> QED BY <2>1, <2>4 DEF l
<1> QED BY <1>5, <1>6, <1>7, <1>8 DEF m, n

LEMMA UnboundIs ==
  ASSUME NEW X, NEW list \in Seq(X), NEW action
  PROVE  /\ Unbound(list, action) \in Seq(X)
         /\ \E pos : Kept(list, Unbound(list, action), Of(list, action), pos)
<1> DEFINE m == [sets |-> list, last |-> 0]
           places == Of(list, action)
<1>1. m.sets = list /\ m.last = 0 /\ 0 \in 0 .. Len(list)
  OBVIOUS
<1>2. Unbound(list, action) = Removed(m, places).sets
  BY DEF Unbound, Removed
<1> HIDE DEF m, places
<1>3. Removed(m, places).sets \in Seq(X) /\ \E pos : Kept(m.sets, Removed(m, places).sets, places, pos)
  <2> HIDE DEF Kept
  <2> QED BY <1>1, RemovedIs
<1> QED BY <1>1, <1>2, <1>3 DEF places

(* The lines that are left are whole.                                      *)
LEMMA UnboundKeeps ==
  ASSUME NEW list \in Seq(BoundKind), NEW action, OneLineEach(list)
  PROVE  /\ Unbound(list, action) \in Seq(BoundKind)
         /\ OneLineEach(Unbound(list, action))
         /\ \A i \in 1 .. Len(Unbound(list, action)) :
              /\ Unbound(list, action)[i].action # action
              /\ \E j \in 1 .. Len(list) : Unbound(list, action)[i] = list[j]
<1> DEFINE r == Unbound(list, action)
           places == Of(list, action)
           m == Len(r)
           n == Len(list)
<1>1. r \in Seq(BoundKind) /\ \E pos : Kept(list, r, places, pos)
  BY UnboundIs
<1> HIDE DEF r
<1>2. PICK from \in [1 .. m -> 1 .. n] :
           /\ \A i \in 1 .. m : from[i] \notin places /\ r[i] = list[from[i]]
           /\ \A i, j \in 1 .. m : i < j => from[i] < from[j]
           /\ \A k \in 1 .. n : k \notin places => \E i \in 1 .. m : from[i] = k
  <2> HIDE DEF places
  <2> QED BY <1>1, KeptFrom
<1>3. m \in Nat /\ n \in Nat /\ DOMAIN list = 1 .. n
  BY <1>1
<1>4. \A k \in 1 .. n : k \in places <=> list[k].action = action
  BY <1>3 DEF Of
<1>5. /\ \A i, j, k \in 1 .. n :
           i < j /\ j < k /\ list[i].action = list[k].action => list[j].action = list[i].action
      /\ \A i, j \in 1 .. n :
           /\ list[i].action = list[j].action => list[i].block = list[j].block
           /\ list[i].block = list[j].block /\ list[i].block # 0 => list[i].action = list[j].action
      /\ \A i \in 1 .. n : list[i].block # 0 =>
           (list[i].master <=> \A j \in 1 .. i - 1 : list[j].block # list[i].block)
  BY DEF OneLineEach
<1> HIDE DEF m, n, places
<1>6. \A i \in 1 .. m : from[i] \in 1 .. n
  OBVIOUS
<1>7. ASSUME NEW i \in 1 .. m PROVE r[i].action # action /\ \E j \in 1 .. n : r[i] = list[j]
  BY <1>2, <1>4, <1>6
<1>8. \A i, j, k \in 1 .. m :
        i < j /\ j < k /\ r[i].action = r[k].action => r[j].action = r[i].action
  BY <1>2, <1>5, <1>6
<1>9. \A i, j \in 1 .. m :
        /\ r[i].action = r[j].action => r[i].block = r[j].block
        /\ r[i].block = r[j].block /\ r[i].block # 0 => r[i].action = r[j].action
  BY <1>2, <1>5, <1>6
<1>10. ASSUME NEW i \in 1 .. m, r[i].block # 0
       PROVE  r[i].master <=> \A j \in 1 .. i - 1 : r[j].block # r[i].block
  <2> DEFINE k == from[i]
  <2>1. k \in 1 .. n /\ r[i] = list[k] /\ list[k].block # 0
    BY <1>2, <1>6, <1>10
  <2>2. list[k].master <=> \A j \in 1 .. k - 1 : list[j].block # list[k].block
    BY <2>1, <1>5
  <2>3. ASSUME NEW j \in 1 .. i - 1, r[j].block = r[i].block
        PROVE  \E l \in 1 .. k - 1 : list[l].block = list[k].block
    <3>1. j \in 1 .. m /\ j < i
      BY <1>3
    <3>2. from[j] < k /\ from[j] \in 1 .. n /\ r[j] = list[from[j]]
      BY <3>1, <1>2, <1>6
    <3>3. from[j] \in 1 .. k - 1
      BY ONLY <3>2, <2>1, <1>3
    <3> QED BY <3>2, <3>3, <2>1, <2>3
  <2>4. ASSUME NEW l \in 1 .. k - 1, list[l].block = list[k].block
        PROVE  \E j \in 1 .. i - 1 : r[j].block = r[i].block
    <3>1. l \in 1 .. n /\ l < k
      BY ONLY <2>1, <1>3
    <3>2. list[l].action = list[k].action
      BY <3>1, <2>1, <2>4, <1>5
    <3>3. l \notin places
      BY <3>1, <3>2, <2>1, <1>2, <1>4
    <3>4. PICK j \in 1 .. m : from[j] = l
      BY <3>1, <3>3, <1>2
    <3>5. ~ (i < j) /\ i # j
      BY <3>1, <3>4, <1>2, <2>1, <1>3
    <3>6. j \in 1 .. i - 1
      BY ONLY <3>5, <1>3, i \in 1 .. m, j \in 1 .. m
    <3>7. r[j] = list[l]
      BY <3>4, <1>2
    <3> QED BY <3>6, <3>7, <2>1, <2>4
  <2> HIDE DEF k
  <2> QED BY <2>1, <2>2, <2>3, <2>4
<1>11. OneLineEach(r)
  BY <1>8, <1>9, <1>10 DEF OneLineEach, m
<1> QED BY <1>1, <1>7, <1>11 DEF r, m, n

-----------------------------------------------------------------------------
(* A line is bound.                                                        *)
LEMMA ActionKinds == type \in {"key", "mouse"} => Actions \subseteq AnyAction
<1> SUFFICES ASSUME NEW a \in Actions PROVE a \in AnyAction
  OBVIOUS
<1> DEFINE withText == IF type = "key" THEN {[name |-> "text", with |-> "txt"]} ELSE {}
<1>1. withText \subseteq {[name |-> "text", with |-> "txt"]}
  OBVIOUS
<1>2. a \in {[name |-> "copy", with |-> ""], [name |-> "paste", with |-> ""],
             [name |-> "pipe", with |-> "cmd"], [name |-> "text", with |-> "txt"]}
  BY <1>1 DEF Actions
<1>3. [name |-> "copy", with |-> ""] \in AnyAction /\ [name |-> "paste", with |-> ""] \in AnyAction
  BY DEF AnyAction
<1>4. [name |-> "pipe", with |-> "cmd"] \in AnyAction /\ [name |-> "text", with |-> "txt"] \in AnyAction
  BY DEF AnyAction
<1> QED BY <1>2, <1>3, <1>4

LEMMA NewIs ==
  ASSUME NEW action \in AnyAction, NEW combos \in Seq(Combos), NEW block \in Nat
  PROVE  /\ New(action, combos, block) \in Seq(BoundKind)
         /\ Len(New(action, combos, block)) = Len(combos)
         /\ \A i \in 1 .. Len(combos) :
              /\ New(action, combos, block)[i].action = action
              /\ New(action, combos, block)[i].block = block
              /\ New(action, combos, block)[i].master <=> i = 1
<1> DEFINE n == Len(combos)
<1>1. n \in Nat /\ DOMAIN combos = 1 .. n /\ \A i \in 1 .. n : combos[i] \in Combos
  OBVIOUS
<1>2. New(action, combos, block) = [i \in 1 .. n |-> Bound(action, combos[i], block, i = 1)]
  BY <1>1 DEF New
<1> HIDE DEF n
<1>3. \A i \in 1 .. n : Bound(action, combos[i], block, i = 1) \in BoundKind
  BY <1>1 DEF Bound, BoundKind
<1>4. New(action, combos, block) \in Seq(BoundKind) /\ Len(New(action, combos, block)) = n
  BY <1>1, <1>2, <1>3
<1>5. \A i \in 1 .. n : New(action, combos, block)[i] = Bound(action, combos[i], block, i = 1)
  BY <1>2
<1>6. \A i \in 1 .. n : /\ New(action, combos, block)[i].action = action
                        /\ New(action, combos, block)[i].block = block
                        /\ New(action, combos, block)[i].master <=> i = 1
  <2> SUFFICES ASSUME NEW i \in 1 .. n
               PROVE  /\ New(action, combos, block)[i].action = action
                      /\ New(action, combos, block)[i].block = block
                      /\ New(action, combos, block)[i].master <=> i = 1
    OBVIOUS
  <2> DEFINE first == i = 1
  <2>1. New(action, combos, block)[i] = Bound(action, combos[i], block, first)
    BY <1>5
  <2> HIDE DEF first
  <2>2. /\ Bound(action, combos[i], block, first).action = action
        /\ Bound(action, combos[i], block, first).block = block
        /\ Bound(action, combos[i], block, first).master = first
    BY DEF Bound
  <2>3. New(action, combos, block)[i].master = first
    BY <2>1, <2>2
  <2> QED BY <2>1, <2>2, <2>3 DEF first
<1> QED BY <1>4, <1>6 DEF n

(* The bindings of one line, and others than those.                        *)
LineOf(s, action, block) ==
  \A i \in 1 .. Len(s) : /\ s[i].action = action /\ s[i].block = block
                         /\ s[i].master <=> i = 1

NoneOf(r, action, block) ==
  \A i \in 1 .. Len(r) : r[i].action # action /\ (block # 0 => r[i].block # block)

LEMMA BoundKeeps ==
  ASSUME NEW r \in Seq(BoundKind), NEW s \in Seq(BoundKind), NEW action, NEW block,
         OneLineEach(r), LineOf(s, action, block), NoneOf(r, action, block)
  PROVE  /\ r \o s \in Seq(BoundKind) /\ OneLineEach(r \o s)
         /\ \A i \in 1 .. Len(r \o s) :
              \/ \E j \in 1 .. Len(r) : (r \o s)[i] = r[j]
              \/ (r \o s)[i].block = block
<1> DEFINE m == Len(r)
           n == Len(s)
           l == r \o s
<1>1. /\ m \in Nat /\ n \in Nat /\ l \in Seq(BoundKind) /\ Len(l) = m + n
      /\ \A i \in 1 .. m : l[i] = r[i]
      /\ \A i \in 1 .. n : l[m + i] = s[i]
  BY ConcatProperties
<1>2. ASSUME NEW i \in 1 .. m + n
      PROVE  \/ i \in 1 .. m /\ l[i] = r[i] /\ l[i].action # action
                /\ (block # 0 => l[i].block # block)
             \/ /\ i \in m + 1 .. m + n /\ l[i].action = action /\ l[i].block = block
                /\ l[i].master <=> i = m + 1
  <2>1. CASE i <= m
    <3>1. i \in 1 .. m
      BY <2>1, <1>1
    <3>2. l[i] = r[i] /\ r[i].action # action /\ (block # 0 => r[i].block # block)
      BY <3>1, <1>1 DEF NoneOf
    <3> HIDE DEF l, m
    <3> QED BY <3>1, <3>2
  <2>2. CASE i > m
    <3>1. i - m \in 1 .. n /\ m + (i - m) = i /\ i \in m + 1 .. m + n /\ (i - m = 1 <=> i = m + 1)
      <4> HIDE DEF l, m, n
      <4>1. i \in Int /\ m \in Int /\ n \in Int /\ i <= m + n /\ m + 1 <= i
        BY <2>2, <1>1
      <4> QED BY ONLY <4>1
    <3>2. l[i] = s[i - m]
      <4> HIDE DEF l, m, n
      <4>1. l[m + (i - m)] = s[i - m]
        BY <3>1, <1>1
      <4> QED BY <3>1, <4>1
    <3>3. s[i - m].action = action /\ s[i - m].block = block /\ (s[i - m].master <=> i - m = 1)
      BY <3>1 DEF LineOf
    <3> HIDE DEF l, m, n
    <3> QED BY <3>1, <3>2, <3>3
  <2> QED BY <2>1, <2>2, <1>1
<1>3. /\ \A i, j, k \in 1 .. m :
           i < j /\ j < k /\ r[i].action = r[k].action => r[j].action = r[i].action
      /\ \A i, j \in 1 .. m :
           /\ r[i].action = r[j].action => r[i].block = r[j].block
           /\ r[i].block = r[j].block /\ r[i].block # 0 => r[i].action = r[j].action
      /\ \A i \in 1 .. m : r[i].block # 0 =>
           (r[i].master <=> \A j \in 1 .. i - 1 : r[j].block # r[i].block)
  BY DEF OneLineEach
<1>4. \A i \in 1 .. m : r[i].action # action /\ (block # 0 => r[i].block # block)
  BY DEF NoneOf
<1> HIDE DEF l, m, n
<1>5. ASSUME NEW i \in 1 .. m + n, NEW j \in 1 .. m + n, NEW k \in 1 .. m + n,
             i < j, j < k, l[i].action = l[k].action
      PROVE  l[j].action = l[i].action
  <2>1. CASE l[i].action = action
    <3>1. i \in m + 1 .. m + n
      BY <1>2, <2>1
    <3>2. j \in m + 1 .. m + n /\ j \notin 1 .. m
      BY ONLY <3>1, <1>5, <1>1
    <3> QED BY <3>2, <1>2, <2>1
  <2>2. CASE l[i].action # action
    <3>1. i \in 1 .. m /\ k \in 1 .. m /\ l[i] = r[i] /\ l[k] = r[k]
      BY <1>2, <1>5, <2>2
    <3>2. j \in 1 .. m
      BY ONLY <3>1, <1>5, <1>1
    <3> QED BY <3>1, <3>2, <1>1, <1>3, <1>5
  <2> QED BY <2>1, <2>2
<1>6. ASSUME NEW i \in 1 .. m + n, NEW j \in 1 .. m + n
      PROVE  /\ l[i].action = l[j].action => l[i].block = l[j].block
             /\ l[i].block = l[j].block /\ l[i].block # 0 => l[i].action = l[j].action
  BY <1>2, <1>3
<1>7. ASSUME NEW i \in 1 .. m + n, l[i].block # 0
      PROVE  l[i].master <=> \A j \in 1 .. i - 1 : l[j].block # l[i].block
  <2>1. \A j \in 1 .. i - 1 : j \in 1 .. m + n
    BY <1>1
  <2>2. CASE i \in 1 .. m /\ l[i] = r[i]
    <3>1. \A j \in 1 .. i - 1 : l[j] = r[j]
      <4>1. \A j \in 1 .. i - 1 : j \in 1 .. m
        BY ONLY <2>2, <1>1
      <4> QED BY <4>1, <1>1
    <3> QED BY <3>1, <2>2, <1>3, <1>7
  <2>3. CASE i \in m + 1 .. m + n /\ l[i].block = block /\ (l[i].master <=> i = m + 1)
    <3>1. CASE i = m + 1
      <4>1. \A j \in 1 .. i - 1 : j \in 1 .. m
        BY <3>1, <1>1
      <4> QED BY <4>1, <3>1, <2>3, <1>1, <1>4, <1>7
    <3>2. CASE i # m + 1
      <4>1. m + 1 \in 1 .. i - 1 /\ m + 1 \in 1 .. m + n /\ m + 1 \notin 1 .. m
        BY ONLY <3>2, <2>3, <1>1
      <4>2. l[m + 1].block = block
        BY <4>1, <1>2
      <4> QED BY <4>1, <4>2, <3>2, <2>3
    <3> QED BY <3>1, <3>2
  <2> QED BY <2>2, <2>3, <1>2
<1>8. OneLineEach(l)
  BY <1>1, <1>5, <1>6, <1>7 DEF OneLineEach
<1>9. \A i \in 1 .. m + n : (\E j \in 1 .. m : l[i] = r[j]) \/ l[i].block = block
  BY <1>2
<1> QED BY <1>1, <1>8, <1>9 DEF l, m

LEMMA BindKeeps ==
  ASSUME ListsInv, NEW action \in Actions, NEW combos \in Seq(Combos), Bind(action, combos)
  PROVE  ListsInv'
<1> DEFINE p == parsing
           list == lists[p]
           block == Block(action)
           r == Unbound(list, action)
           s == New(action, combos, block)
           other == {w \in Who : w # p}
<1>1. /\ ListTypes /\ ListsKept /\ p \in Who /\ list \in Seq(BoundKind) /\ OneLineEach(list)
      /\ action \in AnyAction /\ InUse(list, blocks.used)
  <2>1. p \in Who
    BY DEF ListsInv, ListTypes, Bind, Line
  <2>2. ListTypes /\ ListsKept
    BY DEF ListsInv, Bind, Line
  <2>3. action \in AnyAction
    BY <2>2, ActionKinds DEF ListTypes
  <2> QED BY <2>1, <2>2, <2>3 DEF ListTypes, ListsKept
<1>2. /\ lists' = [lists EXCEPT ![p] = r \o s]
      /\ blocks' = [used |-> (blocks.used \ Owned(list, Of(list, action))) \cup ({block} \ {0}),
                    last |-> blocks.last + IF block = 0 THEN 0 ELSE 1]
      /\ UNCHANGED <<type, parsing, unresolved>>
  BY DEF Bind, Line
<1>3. /\ blocks.last \in Nat /\ \A b \in blocks.used : b \in 1 .. blocks.last
      /\ blocks.used \subseteq Nat
  BY <1>1 DEF ListTypes
<1>4. block = 0 \/ block = blocks.last + 1
  BY DEF Block
<1>5. block \in Nat /\ block \notin blocks.used
  BY <1>3, <1>4
<1> HIDE DEF p, list, block, r, s
<1>6. /\ r \in Seq(BoundKind) /\ OneLineEach(r)
      /\ \A i \in 1 .. Len(r) : r[i].action # action /\ \E j \in 1 .. Len(list) : r[i] = list[j]
  BY <1>1, UnboundKeeps DEF r
<1>7. s \in Seq(BoundKind) /\ LineOf(s, action, block)
  BY <1>1, <1>5, NewIs DEF s, LineOf
<1>8. NoneOf(r, action, block)
  BY <1>1, <1>5, <1>6 DEF InUse, NoneOf
<1>9. /\ r \o s \in Seq(BoundKind) /\ OneLineEach(r \o s)
      /\ \A i \in 1 .. Len(r \o s) :
           \/ \E j \in 1 .. Len(r) : (r \o s)[i] = r[j]
           \/ (r \o s)[i].block = block
  <2> QED BY <1>6, <1>7, <1>8, BoundKeeps
<1> DEFINE l == r \o s
           gone == Owned(list, Of(list, action))
<1>10. /\ lists' \in [Who -> Seq(BoundKind)] /\ lists'[p] = l
       /\ \A w \in Who : w # p => lists'[w] = lists[w]
  <2> HIDE DEF l
  <2> QED BY <1>1, <1>2, <1>9 DEF ListTypes, l
<1>11. blocks'.used = (blocks.used \ gone) \cup ({block} \ {0})
       /\ blocks'.last = blocks.last + (IF block = 0 THEN 0 ELSE 1)
  BY <1>2
<1>12. ListTypes'
  <2>1. blocks' \in [used : SUBSET Nat, last : Nat]
    BY <1>2, <1>3, <1>5
  <2>2. \A b \in blocks'.used : b \in 1 .. blocks'.last
    <3>1. ASSUME NEW b \in blocks'.used PROVE b \in 1 .. blocks'.last
      <4>1. b \in blocks.used \/ (b = block /\ block # 0)
        BY <1>11
      <4> QED BY <4>1, <1>3, <1>4, <1>11
    <3> QED BY <3>1
  <2> QED BY <1>1, <1>2, <1>10, <2>1, <2>2 DEF ListTypes
<1>13. gone \subseteq {list[j].block : j \in {i \in 1 .. Len(list) : list[i].action = action}} \ {0}
  <2>1. DOMAIN list = 1 .. Len(list)
    BY <1>1
  <2> QED BY <2>1 DEF Owned, Of
<1> HIDE DEF gone
<1>14. InUse(l, blocks'.used)
  <2> SUFFICES ASSUME NEW i \in 1 .. Len(l), l[i].block # 0 PROVE l[i].block \in blocks'.used
    BY DEF InUse
  <2>1. CASE l[i].block = block
    BY <2>1, <1>11
  <2>2. CASE \E j \in 1 .. Len(r) : l[i] = r[j]
    <3>1. PICK k \in 1 .. Len(list) : l[i] = list[k] /\ list[k].action # action
      BY <2>2, <1>6
    <3>2. list[k].block \in blocks.used
      BY <3>1, <1>1 DEF InUse
    <3>3. list[k].block \notin gone
      <4> SUFFICES ASSUME list[k].block \in gone PROVE FALSE
        OBVIOUS
      <4>1. PICK j \in 1 .. Len(list) : list[j].action = action /\ list[j].block = list[k].block
        BY <1>13
      <4> QED BY <4>1, <3>1, <1>1 DEF OneLineEach
    <3> QED BY <3>1, <3>2, <3>3, <1>11
  <2> QED BY <2>1, <2>2, <1>9
<1>15. ASSUME NEW w \in Who, w # p
       PROVE  /\ OneLineEach(lists[w]) /\ InUse(lists[w], blocks'.used)
              /\ NoneShared(l, lists[w])
  <2>1. /\ OneLineEach(lists[w]) /\ InUse(lists[w], blocks.used)
        /\ NoneShared(lists["server"], lists["client"])
    BY <1>1 DEF ListsKept
  <2>2. \A i \in 1 .. Len(list), j \in 1 .. Len(lists[w]) :
          list[i].block = lists[w][j].block => list[i].block = 0
    BY <2>1, <1>1, <1>15 DEF NoneShared, Who, list
  <2>3. InUse(lists[w], blocks'.used)
    BY <2>1, <2>2, <1>11, <1>13 DEF InUse
  <2>4. NoneShared(l, lists[w])
    <3> SUFFICES ASSUME NEW i \in 1 .. Len(l), NEW j \in 1 .. Len(lists[w]),
                        l[i].block = lists[w][j].block, l[i].block # 0
                 PROVE  FALSE
      BY DEF NoneShared
    <3>1. lists[w][j].block \in blocks.used
      BY <2>1 DEF InUse
    <3>2. \E k \in 1 .. Len(r) : l[i] = r[k]
      BY <3>1, <1>5, <1>9
    <3>3. \E k \in 1 .. Len(list) : l[i] = list[k]
      BY <3>2, <1>6
    <3> QED BY <3>3, <2>2
  <2> QED BY <2>1, <2>3, <2>4
<1>16. NoneShared(lists'["server"], lists'["client"])
  <2>1. PICK w \in Who : w # p
    BY <1>1 DEF Who
  <2>2. NoneShared(l, lists[w]) /\ NoneShared(lists[w], l)
    BY <2>1, <1>15 DEF NoneShared
  <2>3. (p = "server" /\ w = "client") \/ (p = "client" /\ w = "server")
    BY <2>1, <1>1 DEF Who
  <2> HIDE DEF l
  <2> QED BY <2>1, <2>2, <2>3, <1>1, <1>10
<1>17. ListsKept'
  <2>1. \A w \in Who : OneLineEach(lists'[w]) /\ InUse(lists'[w], blocks'.used)
    BY <1>9, <1>10, <1>14, <1>15
  <2>2. \A w \in Who \ ({parsing'} \cup unresolved') : Settled(lists[w])'
    <3>1. ASSUME NEW w \in Who \ ({parsing'} \cup unresolved') PROVE Settled(lists[w])'
      <4>1. w # p /\ w \in Who \ ({parsing} \cup unresolved)
        BY <1>2 DEF p
      <4>2. Settled(lists[w]) /\ lists'[w] = lists[w] /\ type' = type
        BY <4>1, <1>1, <1>2, <1>10 DEF ListsKept
      <4> QED BY <4>2 DEF Settled
    <3> QED BY <3>1
  <2> QED BY <2>1, <2>2, <1>16 DEF ListsKept
<1> QED BY <1>12, <1>17 DEF ListsInv

-----------------------------------------------------------------------------
(* The copy that a client gets.                                            *)
OwnersIn(list, i) == {j \in 1 .. i : list[j].master /\ list[j].block # 0}

LEMMA OwnersCounted ==
  ASSUME NEW list \in Seq(BoundKind), NEW i \in 0 .. Len(list), NEW j \in i .. Len(list)
  PROVE  /\ IsFiniteSet(OwnersIn(list, j)) /\ Cardinality(OwnersIn(list, j)) \in Nat
         /\ OwnersIn(list, i) \subseteq OwnersIn(list, j)
         /\ Cardinality(OwnersIn(list, i)) <= Cardinality(OwnersIn(list, j))
         /\ OwnersIn(list, i) # OwnersIn(list, j) =>
              Cardinality(OwnersIn(list, i)) < Cardinality(OwnersIn(list, j))
<1> DEFINE S == OwnersIn(list, j)
           T == OwnersIn(list, i)
<1>1. IsFiniteSet(1 .. j)
  BY FS_Interval
<1>2. S \subseteq 1 .. j
  BY DEF OwnersIn
<1>3. T \subseteq S
  BY DEF OwnersIn
<1> HIDE DEF S, T
<1>4. IsFiniteSet(S) /\ Cardinality(S) \in Nat
  BY <1>1, <1>2, FS_Subset, FS_CardinalityType
<1>5. /\ IsFiniteSet(T) /\ Cardinality(T) \in Nat /\ Cardinality(T) <= Cardinality(S)
      /\ T # S => Cardinality(T) < Cardinality(S)
  BY <1>3, <1>4, FS_Subset, FS_CardinalityType
<1> QED BY <1>3, <1>4, <1>5 DEF S, T

(* Bindings share memory if and only if as many owners stand before them.  *)
LEMMA SharersCounted ==
  ASSUME NEW list \in Seq(BoundKind), OneLineEach(list),
         NEW i \in 1 .. Len(list), NEW j \in i .. Len(list),
         list[i].block # 0, list[j].block # 0
  PROVE  Cardinality(OwnersIn(list, i)) = Cardinality(OwnersIn(list, j))
           <=> list[i].block = list[j].block
<1> DEFINE n == Len(list)
<1>1. n \in Nat /\ j \in 1 .. n /\ i \in 0 .. n /\ i <= j /\ \A k \in 1 .. n : list[k].block \in Nat
  <2>1. n \in Nat /\ j \in 1 .. n /\ i \in 0 .. n /\ i <= j /\ \A k \in 1 .. n : list[k] \in BoundKind
    OBVIOUS
  <2>2. \A b \in BoundKind : b.block \in Nat
    BY DEF BoundKind
  <2> QED BY <2>1, <2>2
<1>2. /\ \A k, l, m \in 1 .. n :
           k < l /\ l < m /\ list[k].action = list[m].action => list[l].action = list[k].action
      /\ \A k, l \in 1 .. n :
           /\ list[k].action = list[l].action => list[k].block = list[l].block
           /\ list[k].block = list[l].block /\ list[k].block # 0 => list[k].action = list[l].action
      /\ \A k \in 1 .. n : list[k].block # 0 =>
           (list[k].master <=> \A l \in 1 .. k - 1 : list[l].block # list[k].block)
  BY DEF OneLineEach
<1>3. /\ Cardinality(OwnersIn(list, i)) \in Nat /\ Cardinality(OwnersIn(list, j)) \in Nat
      /\ OwnersIn(list, i) # OwnersIn(list, j) =>
           Cardinality(OwnersIn(list, i)) < Cardinality(OwnersIn(list, j))
  <2>1. i \in 0 .. Len(list) /\ j \in i .. Len(list) /\ i \in i .. Len(list)
    BY <1>1
  <2> QED BY ONLY <2>1, OwnersCounted, list \in Seq(BoundKind)
<1> HIDE DEF n
<1>4. ASSUME list[i].block = list[j].block
      PROVE  OwnersIn(list, i) = OwnersIn(list, j)
  <2>1. ASSUME NEW k \in 1 .. j, list[k].master, list[k].block # 0 PROVE k \in 1 .. i
    <3> SUFFICES ASSUME k > i PROVE FALSE
      BY <1>1
    <3>1. k \in 1 .. n /\ i \in 1 .. k - 1 /\ i < k /\ i \in 1 .. n /\ (k < j \/ k = j)
      BY <1>1, <2>1
    <3>2. list[k].action = list[i].action
      BY <3>1, <1>1, <1>2, <1>4
    <3>3. list[k].block = list[i].block
      BY <3>1, <3>2, <1>2
    <3> QED BY <3>1, <3>3, <2>1, <1>2
  <2>2. 1 .. i \subseteq 1 .. j
    BY <1>1
  <2> QED BY <2>1, <2>2 DEF OwnersIn
<1>5. ASSUME list[i].block # list[j].block
      PROVE  OwnersIn(list, i) # OwnersIn(list, j)
  <2> DEFINE T == {k \in 1 .. n : list[k].block = list[j].block}
  <2>1. PICK f \in T : \A k \in T : f <= k
    <3>1. T \subseteq Nat /\ j \in T
      BY <1>1
    <3> HIDE DEF T
    <3> QED BY <3>1, SmallestOf
  <2>2. f \in 1 .. n /\ f <= j /\ list[f].block = list[j].block
    BY <2>1, <1>1
  <2>3. \A l \in 1 .. f - 1 : list[l].block # list[f].block
    <3> SUFFICES ASSUME NEW l \in 1 .. f - 1, list[l].block = list[f].block PROVE FALSE
      OBVIOUS
    <3>1. l \in 1 .. n /\ ~ (f <= l)
      BY <1>1, <2>2
    <3> QED BY <3>1, <2>1, <2>2
  <2>4. list[f].master /\ list[f].block # 0
    BY <2>2, <2>3, <1>2
  <2>5. f > i
    <3> SUFFICES ASSUME ~ (f > i) PROVE FALSE
      OBVIOUS
    <3>1. f # i /\ i # j /\ list[f].action = list[j].action
      BY <2>2, <2>4, <1>1, <1>2, <1>5
    <3>2. f < i /\ i < j /\ i \in 1 .. n
      BY <3>1, <2>2, <1>1
    <3>3. list[i].action = list[f].action
      BY <3>1, <3>2, <2>2, <1>1, <1>2
    <3> QED BY <3>2, <3>3, <2>2, <1>2, <1>5
  <2> HIDE DEF T
  <2>6. f \in 1 .. j /\ f \notin 1 .. i
    BY ONLY <2>2, <2>5, <1>1
  <2> QED BY <2>4, <2>6 DEF OwnersIn
<1> QED BY <1>3, <1>4, <1>5

LEMMA ClonedIs ==
  ASSUME NEW list \in Seq(BoundKind), OneLineEach(list), blocks.last \in Nat
  PROVE  LET c == Cloned(list)
             last == blocks.last + Cardinality(OwnersIn(list, Len(list)))
         IN  /\ c \in Seq(BoundKind) /\ OneLineEach(c) /\ Len(c) = Len(list)
             /\ \A i \in 1 .. Len(c) : c[i].block # 0 => c[i].block \in blocks.last + 1 .. last
<1> DEFINE n == Len(list)
           N(i) == Cardinality(OwnersIn(list, i))
           c == Cloned(list)
           new(i) == IF list[i].block = 0 THEN 0 ELSE blocks.last + N(i)
<1>1. /\ n \in Nat /\ DOMAIN list = 1 .. n
      /\ \A i \in 1 .. n : list[i] \in BoundKind /\ list[i].block \in Nat
  <2>1. n \in Nat /\ DOMAIN list = 1 .. n /\ \A k \in 1 .. n : list[k] \in BoundKind
    OBVIOUS
  <2>2. \A b \in BoundKind : b.block \in Nat
    BY DEF BoundKind
  <2> QED BY <2>1, <2>2
<1>2. /\ \A k, l, m \in 1 .. n :
           k < l /\ l < m /\ list[k].action = list[m].action => list[l].action = list[k].action
      /\ \A k, l \in 1 .. n :
           /\ list[k].action = list[l].action => list[k].block = list[l].block
           /\ list[k].block = list[l].block /\ list[k].block # 0 => list[k].action = list[l].action
      /\ \A k \in 1 .. n : list[k].block # 0 =>
           (list[k].master <=> \A l \in 1 .. k - 1 : list[l].block # list[k].block)
  BY DEF OneLineEach
<1>3. ASSUME NEW i \in 1 .. n, list[i].block # 0
      PROVE  N(i) \in Nat \ {0} /\ N(n) \in Nat /\ N(i) <= N(n)
  <2>1. 0 \in 0 .. n /\ i \in 0 .. n /\ n \in i .. n /\ i \in i .. n /\ n \in n .. n /\ n \in 0 .. n
        /\ 0 \in 0 .. n /\ i \in 0 .. n
    BY <1>1
  <2>2. N(i) \in Nat /\ N(n) \in Nat /\ N(i) <= N(n)
    BY <2>1, OwnersCounted
  <2>3. PICK k \in 1 .. i : k \in OwnersIn(list, i)
    <3> DEFINE T == {k \in 1 .. n : list[k].block = list[i].block}
    <3>1. PICK f \in T : \A k \in T : f <= k
      <4>1. T \subseteq Nat /\ i \in T
        BY <1>1
      <4> HIDE DEF T
      <4> QED BY <4>1, SmallestOf
    <3>2. f \in 1 .. n /\ f <= i /\ list[f].block = list[i].block
      BY <3>1, <1>1
    <3>3. \A l \in 1 .. f - 1 : list[l].block # list[f].block
      <4> SUFFICES ASSUME NEW l \in 1 .. f - 1, list[l].block = list[f].block PROVE FALSE
        OBVIOUS
      <4>1. l \in 1 .. n /\ ~ (f <= l)
        BY <1>1, <3>2
      <4> QED BY <4>1, <3>1, <3>2
    <3>4. list[f].master /\ list[f].block # 0
      BY <3>2, <3>3, <1>2, <1>3
    <3>5. f \in 1 .. i
      BY ONLY <3>2, <1>1, i \in 1 .. n
    <3> QED BY <3>4, <3>5 DEF OwnersIn
  <2>4. OwnersIn(list, 0) = {} /\ Cardinality({}) = 0
    BY FS_EmptySet DEF OwnersIn
  <2>5. Cardinality(OwnersIn(list, 0)) < N(i)
    <3>1. OwnersIn(list, 0) # OwnersIn(list, i) /\ i \in 0 .. n
      BY <2>1, <2>3, <2>4
    <3>2. 0 \in 0 .. Len(list) /\ i \in 0 .. Len(list)
      BY <2>1
    <3>3. Cardinality(OwnersIn(list, 0)) < Cardinality(OwnersIn(list, i))
      BY ONLY <3>1, <3>2, OwnersCounted, list \in Seq(BoundKind)
    <3> QED BY <3>3
  <2>6. 0 < N(i)
    BY <2>4, <2>5
  <2> HIDE DEF N
  <2> QED BY <2>2, <2>6
<1>4. ASSUME NEW i \in 1 .. n, NEW j \in 1 .. n, list[i].block # 0, list[j].block # 0
      PROVE  N(i) = N(j) <=> list[i].block = list[j].block
  <2>1. i \in j .. n \/ j \in i .. n
    BY <1>1
  <2> QED BY <2>1, <1>4, SharersCounted
<1>5. c = [i \in 1 .. n |-> IF list[i].block = 0 THEN list[i]
                            ELSE [list[i] EXCEPT !.block = blocks.last + N(i)]]
  <2>1. ASSUME NEW i \in 1 .. n
        PROVE  {j \in 1 .. i : list[j].master /\ list[j].block # 0} = OwnersIn(list, i)
    BY DEF OwnersIn
  <2> QED BY <1>1, <2>1 DEF Cloned
<1> HIDE DEF c, n, N
<1>6. ASSUME NEW i \in 1 .. n
      PROVE  /\ c[i] \in BoundKind /\ c[i].action = list[i].action /\ c[i].master = list[i].master
             /\ c[i].combo = list[i].combo /\ c[i].block = new(i)
  <2>1. CASE list[i].block = 0
    BY <2>1, <1>1, <1>5
  <2>2. CASE list[i].block # 0
    <3> DEFINE b == blocks.last + N(i)
    <3>1. c[i] = [list[i] EXCEPT !.block = b] /\ b \in Nat
      BY <2>2, <1>3, <1>5
    <3> HIDE DEF b
    <3>2. /\ c[i] \in BoundKind /\ c[i].action = list[i].action /\ c[i].master = list[i].master
          /\ c[i].combo = list[i].combo /\ c[i].block = b
      BY <3>1, <1>1 DEF BoundKind
    <3> QED BY <3>2, <2>2 DEF b
  <2> QED BY <2>1, <2>2
<1>7. c \in Seq(BoundKind) /\ Len(c) = n
  <2>1. c \in [1 .. n -> BoundKind]
    <3>1. \A i \in 1 .. n : c[i] \in BoundKind
      BY <1>6
    <3>2. DOMAIN c = 1 .. n /\ c = [i \in 1 .. n |-> c[i]]
      BY <1>5
    <3> QED BY ONLY <3>1, <3>2
  <2> QED BY ONLY <2>1, <1>1
<1>8. ASSUME NEW i \in 1 .. n
      PROVE  new(i) # 0 <=> list[i].block # 0
  <2>1. list[i].block # 0 => N(i) \in Nat \ {0}
    BY <1>3
  <2> QED BY <2>1
<1>9. ASSUME NEW i \in 1 .. n, NEW j \in 1 .. n
      PROVE  new(i) = new(j) <=> list[i].block = list[j].block
  <2>1. CASE list[i].block = 0 \/ list[j].block = 0
    BY <2>1, <1>8
  <2>2. CASE list[i].block # 0 /\ list[j].block # 0
    <3>1. N(i) \in Nat /\ N(j) \in Nat
      BY <2>2, <1>3
    <3>2. new(i) = blocks.last + N(i) /\ new(j) = blocks.last + N(j)
      BY <2>2
    <3>3. N(i) = N(j) <=> list[i].block = list[j].block
      BY <2>2, <1>4
    <3> QED BY <3>1, <3>2, <3>3
  <2> QED BY <2>1, <2>2
<1>10. ASSUME NEW i \in 1 .. n, new(i) # 0
       PROVE  new(i) \in blocks.last + 1 .. blocks.last + N(n)
  <2>1. N(i) \in Nat \ {0} /\ N(n) \in Nat /\ N(i) <= N(n) /\ new(i) = blocks.last + N(i)
    BY <1>3, <1>10
  <2> QED BY <2>1
<1> HIDE DEF new
<1>11. OneLineEach(c)
  <2>1. \A i, j, k \in 1 .. n :
          i < j /\ j < k /\ c[i].action = c[k].action => c[j].action = c[i].action
    BY <1>2, <1>6
  <2>2. \A i, j \in 1 .. n :
          /\ c[i].action = c[j].action => c[i].block = c[j].block
          /\ c[i].block = c[j].block /\ c[i].block # 0 => c[i].action = c[j].action
    BY <1>2, <1>6, <1>8, <1>9
  <2>3. ASSUME NEW i \in 1 .. n, c[i].block # 0
        PROVE  c[i].master <=> \A j \in 1 .. i - 1 : c[j].block # c[i].block
    <3>1. \A j \in 1 .. i - 1 : j \in 1 .. n
      BY <1>1
    <3>2. \A j \in 1 .. i - 1 : c[j].block # c[i].block <=> list[j].block # list[i].block
      BY <3>1, <1>6, <1>9
    <3>3. list[i].block # 0 /\ c[i].master = list[i].master
      BY <2>3, <1>6, <1>8
    <3> QED BY <3>2, <3>3, <1>2
  <2> QED BY <1>7, <2>1, <2>2, <2>3 DEF OneLineEach
<1> QED BY <1>6, <1>7, <1>10, <1>11 DEF c, n, N

LEMMA CloneKeeps == ASSUME ListsInv, Clone PROVE ListsInv'
<1> DEFINE list == lists["server"]
           c == Cloned(list)
           n == Cardinality(OwnersIn(list, Len(list)))
           last == blocks.last + n
<1>1. ListTypes /\ ListsKept /\ blocks.last \in Nat /\ parsing = "" /\ lists["client"] = <<>>
      /\ \A b \in blocks.used : b \in 1 .. blocks.last
  BY DEF ListsInv, Clone, ListTypes
<1>2. list \in Seq(BoundKind) /\ OneLineEach(list) /\ InUse(list, blocks.used)
  BY <1>1 DEF ListTypes, ListsKept, Who
<1>3. {i \in DOMAIN list : list[i].master /\ list[i].block # 0} = OwnersIn(list, Len(list))
  <2>1. DOMAIN list = 1 .. Len(list)
    BY <1>2
  <2> QED BY <2>1 DEF OwnersIn
<1>4. /\ lists' = [lists EXCEPT !["client"] = c]
      /\ blocks' = [used |-> blocks.used \cup (blocks.last + 1 .. last), last |-> last]
      /\ parsing' = "client" /\ UNCHANGED <<type, unresolved>>
  BY <1>3 DEF Clone
<1>5. n \in Nat
  <2>1. Len(list) \in 0 .. Len(list) /\ Len(list) \in Len(list) .. Len(list)
    BY <1>2
  <2> HIDE DEF list
  <2> QED BY <2>1, <1>2, OwnersCounted
<1> HIDE DEF n, list
<1>6. /\ c \in Seq(BoundKind) /\ OneLineEach(c)
      /\ \A i \in 1 .. Len(c) : c[i].block # 0 => c[i].block \in blocks.last + 1 .. last
  BY <1>1, <1>2, ClonedIs DEF n
<1> HIDE DEF c
<1>7. /\ lists' \in [Who -> Seq(BoundKind)] /\ lists'["client"] = c
      /\ lists'["server"] = list
  BY <1>1, <1>4, <1>6 DEF ListTypes, Who, list
<1>8. ListTypes'
  <2> DEFINE used == blocks.used \cup (blocks.last + 1 .. last)
  <2>1. last \in Nat /\ \A b \in used : b \in 1 .. last
    <3> HIDE DEF used
    <3>1. last \in Nat /\ blocks.last \in Nat /\ blocks.last <= last
      <4>1. blocks.last \in Nat
        BY <1>1
      <4> QED BY ONLY <4>1, <1>5
    <3> HIDE DEF last
    <3>2. ASSUME NEW b \in blocks.used PROVE b \in 1 .. last
      <4>1. b \in 1 .. blocks.last
        BY <1>1
      <4> QED BY ONLY <4>1, <3>1
    <3>3. \A b \in blocks.last + 1 .. last : b \in 1 .. last
      BY <3>1
    <3> QED BY <3>1, <3>2, <3>3 DEF used
  <2>2. blocks' = [used |-> used, last |-> last]
    BY <1>4
  <2> HIDE DEF used, last
  <2>3. used \subseteq Nat
    BY <2>1
  <2>4. blocks' \in [used : SUBSET Nat, last : Nat] /\ \A b \in blocks'.used : b \in 1 .. blocks'.last
    BY <2>1, <2>2, <2>3
  <2> QED BY <1>1, <1>4, <1>7, <2>4 DEF ListTypes, Who
<1>9. ListsKept'
  <2>1. InUse(list, blocks'.used) /\ InUse(c, blocks'.used)
    BY <1>2, <1>4, <1>6 DEF InUse
  <2>2. \A w \in Who : OneLineEach(lists'[w]) /\ InUse(lists'[w], blocks'.used)
    BY <2>1, <1>2, <1>6, <1>7 DEF Who
  <2>3. NoneShared(list, c)
    <3> SUFFICES ASSUME NEW i \in 1 .. Len(list), NEW j \in 1 .. Len(c),
                        list[i].block = c[j].block, list[i].block # 0
                 PROVE  FALSE
      BY DEF NoneShared
    <3>1. list[i].block \in 1 .. blocks.last
      BY <1>1, <1>2 DEF InUse
    <3>2. c[j].block # 0
      OBVIOUS
    <3>3. c[j].block \in blocks.last + 1 .. last
      BY <3>2, <1>6
    <3>4. c[j].block \in 1 .. blocks.last /\ blocks.last \in Nat
      BY <3>1, <1>1
    <3> QED BY ONLY <3>3, <3>4
  <2>4. \A w \in Who \ ({parsing'} \cup unresolved') : Settled(lists[w])'
    <3>1. ASSUME NEW w \in Who \ ({parsing'} \cup unresolved') PROVE Settled(lists[w])'
      <4>1. w = "server" /\ w \in Who \ ({parsing} \cup unresolved)
        BY <1>1, <1>4 DEF Who
      <4>2. Settled(lists[w]) /\ lists'[w] = lists[w] /\ type' = type
        BY <4>1, <1>1, <1>4, <1>7 DEF ListsKept, list
      <4> QED BY <4>2 DEF Settled
    <3> QED BY <3>1
  <2> QED BY <1>7, <2>2, <2>3, <2>4 DEF ListsKept
<1> QED BY <1>8, <1>9 DEF ListsInv

(* A client goes.                                                          *)
LEMMA FreeClientKeeps == ASSUME ListsInv, FreeClient PROVE ListsInv'
<1> DEFINE list == lists["client"]
           server == lists["server"]
           gone == Owned(list, DOMAIN list)
<1>1. ListTypes /\ ListsKept /\ list \in Seq(BoundKind)
  BY DEF ListsInv, FreeClient, ListTypes, Who
<1>2. /\ lists' = [lists EXCEPT !["client"] = <<>>]
      /\ blocks' = [blocks EXCEPT !.used = @ \ gone]
      /\ UNCHANGED <<type, parsing, unresolved>>
  BY DEF FreeClient
<1>3. gone \subseteq {list[j].block : j \in 1 .. Len(list)} \ {0}
  <2>1. DOMAIN list = 1 .. Len(list)
    BY <1>1
  <2> QED BY <2>1 DEF Owned
<1>4. OneLineEach(server) /\ InUse(server, blocks.used) /\ NoneShared(server, list)
  BY <1>1 DEF ListsKept, Who
<1> HIDE DEF gone, list, server
<1>5. /\ lists' \in [Who -> Seq(BoundKind)] /\ lists'["client"] = <<>> /\ lists'["server"] = server
  <2>1. lists \in [Who -> Seq(BoundKind)]
    BY <1>1 DEF ListTypes
  <2>2. <<>> \in Seq(BoundKind)
    OBVIOUS
  <2> QED BY <2>1, <2>2, <1>2 DEF Who, server
<1>6. blocks'.used = blocks.used \ gone /\ blocks'.last = blocks.last
      /\ blocks' \in [used : SUBSET Nat, last : Nat]
  BY <1>1, <1>2 DEF ListTypes
<1>7. ListTypes'
  BY <1>1, <1>2, <1>5, <1>6 DEF ListTypes
<1>8. InUse(server, blocks'.used)
  BY <1>3, <1>4, <1>6 DEF InUse, NoneShared
<1>9. OneLineEach(<<>>) /\ InUse(<<>>, blocks'.used) /\ NoneShared(server, <<>>)
  <2>1. 1 .. Len(<<>>) = {}
    OBVIOUS
  <2> QED BY <2>1 DEF OneLineEach, InUse, NoneShared
<1>10. \A w \in Who \ ({parsing'} \cup unresolved') : Settled(lists[w])'
  <2>1. ASSUME NEW w \in Who \ ({parsing'} \cup unresolved') PROVE Settled(lists[w])'
    <3>1. CASE w = "client"
      <4>1. 1 .. Len(<<>>) = {}
        OBVIOUS
      <4> QED BY <3>1, <4>1, <1>5 DEF Settled
    <3>2. CASE w = "server"
      <4>1. Settled(lists[w]) /\ lists'[w] = lists[w] /\ type' = type
        BY <3>2, <1>1, <1>2, <1>5 DEF ListsKept, server
      <4> QED BY <4>1 DEF Settled
    <3> QED BY <3>1, <3>2 DEF Who
  <2> QED BY <2>1
<1>11. ListsKept'
  BY <1>4, <1>5, <1>8, <1>9, <1>10 DEF ListsKept, Who
<1> QED BY <1>7, <1>11 DEF ListsInv

LEMMA BadKeyKeeps == ASSUME ListsInv, NEW action, BadKey(action) PROVE ListsInv'
<1>1. ListTypes /\ ListsKept
  BY DEF ListsInv, BadKey, Line
<1>2. UNCHANGED <<type, lists, parsing, unresolved>>
  BY DEF BadKey, Line
<1>3. /\ blocks'.used = blocks.used /\ blocks' \in [used : SUBSET Nat, last : Nat]
      /\ \A b \in blocks'.used : b \in 1 .. blocks'.last
  <2> DEFINE more == IF action.with = "" THEN 0 ELSE 1
             last == blocks.last + more
  <2>1. blocks' = [blocks EXCEPT !.last = last]
    BY DEF BadKey
  <2>2. /\ blocks \in [used : SUBSET Nat, last : Nat] /\ \A b \in blocks.used : b \in 1 .. blocks.last
    BY <1>1 DEF ListTypes
  <2>3. last \in Nat /\ blocks.last \in Nat /\ blocks.last <= last
    <3>1. blocks.last \in Nat
      BY <2>2
    <3>2. more \in {0, 1}
      OBVIOUS
    <3> HIDE DEF more
    <3> QED BY ONLY <3>1, <3>2
  <2> HIDE DEF last
  <2>4. /\ blocks'.used = blocks.used /\ blocks'.last = last
        /\ blocks' \in [used : SUBSET Nat, last : Nat]
    BY <2>1, <2>2, <2>3
  <2>5. ASSUME NEW b \in blocks.used PROVE b \in 1 .. last
    <3>1. b \in 1 .. blocks.last
      BY <2>2
    <3> QED BY ONLY <3>1, <2>3
  <2> QED BY <2>4, <2>5
<1>4. ListTypes'
  BY <1>1, <1>2, <1>3 DEF ListTypes
<1>5. ListsKept'
  <2>1. \A w \in Who \ ({parsing'} \cup unresolved') : Settled(lists[w])'
    BY <1>1, <1>2 DEF ListsKept, Settled
  <2> QED BY <1>1, <1>2, <1>3, <2>1 DEF ListsKept
<1> QED BY <1>4, <1>5 DEF ListsInv

LEMMA UnresolvedKeeps == ASSUME ListsInv, ConfLoadedUnresolved PROVE ListsInv'
<1>1. ListTypes /\ ListsKept
  BY DEF ListsInv, ConfLoadedUnresolved
<1>2. UNCHANGED <<type, lists, blocks>> /\ parsing' = "" /\ unresolved' = unresolved \cup {parsing}
      /\ parsing # ""
  BY DEF ConfLoadedUnresolved
<1>3. ListTypes'
  BY <1>1, <1>2 DEF ListTypes
<1>4. ListsKept'
  <2>1. ASSUME NEW w \in Who \ ({parsing'} \cup unresolved') PROVE Settled(lists[w])'
    <3>1. Settled(lists[w])
      BY <1>1, <1>2 DEF ListsKept
    <3> QED BY <3>1, <1>2 DEF Settled
  <2> QED BY <1>1, <1>2, <2>1 DEF ListsKept
<1> QED BY <1>3, <1>4 DEF ListsInv

-----------------------------------------------------------------------------
(* Collisions are resolved, one binding after the other.                   *)
Examinations == [kept : Seq(BoundKind), heir : BOOLEAN, freed : SUBSET Nat]

Same(a, b) == a.action = b.action /\ a.combo = b.combo /\ a.block = b.block

(* What is kept of the first i bindings: whole lines, but for what was     *)
(* removed; what is yet to come of the last one of them comes next.  The   *)
(* next binding owns its memory, or is to inherit it, if no other of its   *)
(* line was kept; what was freed was nobody's else.                        *)
LinesExamined(list, q, heir, freed, i) ==
  /\ \A k \in 1 .. Len(q) : \E j \in 1 .. i : Same(q[k], list[j])
  /\ \A k, l, m \in 1 .. Len(q) :
       k < l /\ l < m /\ q[k].action = q[m].action => q[l].action = q[k].action
  /\ \A k, l \in 1 .. Len(q), j \in i + 1 .. Len(list) :
       k < l /\ q[k].action = list[j].action => q[l].action = q[k].action
  /\ \A k \in 1 .. Len(q) : q[k].block # 0 =>
       (q[k].master <=> \A l \in 1 .. k - 1 : q[l].block # q[k].block)
  /\ \A j \in 1 .. Len(list) : j = i + 1 /\ list[j].block # 0 =>
       (heir \/ list[j].master <=> \A k \in 1 .. Len(q) : q[k].block # list[j].block)
  /\ \A f \in freed : f # 0 =>
       /\ \A k \in 1 .. Len(q) : q[k].block # f
       /\ \A j \in i + 1 .. Len(list) : list[j].block # f
       /\ \E j \in 1 .. i : list[j].block = f
  /\ Settled(q)

Examining(list, acc, i) == LinesExamined(list, acc.kept, acc.heir, acc.freed, i)

LEMMA FieldsExamined ==
  ASSUME NEW list, NEW q, NEW heir, NEW freed, NEW i, LinesExamined(list, q, heir, freed, i)
  PROVE  Examining(list, [kept |-> q, heir |-> heir, freed |-> freed], i)
<1> DEFINE acc == [kept |-> q, heir |-> heir, freed |-> freed]
<1>1. acc.kept = q /\ acc.heir = heir /\ acc.freed = freed
  OBVIOUS
<1>2. Examining(list, acc, i) = LinesExamined(list, acc.kept, acc.heir, acc.freed, i)
  BY DEF Examining
<1> HIDE DEF acc, LinesExamined, Examining
<1>3. Examining(list, acc, i)
  BY <1>1, <1>2
<1> QED BY <1>3 DEF acc

LEMMA ExaminedIs ==
  ASSUME NEW list \in Seq(BoundKind), NEW acc \in Examinations, NEW i \in 1 .. Len(list)
  PROVE  \E b \in BoundKind :
           /\ Same(b, list[i]) /\ (b.master <=> list[i].master \/ acc.heir)
           /\ \/ /\ ~Collides(acc.kept, b)
                 /\ Examined(list, acc, i) =
                      [kept |-> Append(acc.kept, b), heir |-> FALSE, freed |-> acc.freed]
              \/ /\ i < Len(list) /\ list[i + 1].action = b.action
                 /\ Examined(list, acc, i) =
                      [kept |-> acc.kept, heir |-> b.master, freed |-> acc.freed]
              \/ /\ ~ (i < Len(list) /\ list[i + 1].action = b.action)
                 /\ Examined(list, acc, i) =
                      [kept |-> acc.kept, heir |-> FALSE,
                       freed |-> IF b.master THEN acc.freed \cup {b.block} ELSE acc.freed]
<1> DEFINE r == list[i]
           master == r.master \/ acc.heir
           b == [r EXCEPT !.master = master]
           next == i < Len(list) /\ list[i + 1].action = b.action
<1>1. r \in BoundKind /\ acc.heir \in BOOLEAN
  BY DEF Examinations
<1>2. master \in BOOLEAN
  BY <1>1
<1> HIDE DEF r
<1>3. b \in BoundKind /\ Same(b, r) /\ b.master = master
  <2> HIDE DEF master
  <2> QED BY <1>1, <1>2 DEF BoundKind, Same
<1>4. Examined(list, acc, i) =
        IF ~Collides(acc.kept, b)
        THEN [kept |-> Append(acc.kept, b), heir |-> FALSE, freed |-> acc.freed]
        ELSE [kept |-> acc.kept, heir |-> b.master /\ next,
              freed |-> IF b.master /\ ~next THEN acc.freed \cup {b.block} ELSE acc.freed]
  BY DEF Examined, r
<1> HIDE DEF b, master
<1>5. b.master \in BOOLEAN
  BY <1>2, <1>3
<1>6. CASE ~Collides(acc.kept, b)
  <2>1. Examined(list, acc, i) = [kept |-> Append(acc.kept, b), heir |-> FALSE, freed |-> acc.freed]
    BY <1>4, <1>6
  <2> QED BY <2>1, <1>3, <1>6 DEF r, master
<1>7. CASE Collides(acc.kept, b) /\ next
  <2>1. (b.master /\ next) = b.master /\ (b.master /\ ~next) = FALSE
    BY <1>5, <1>7
  <2>2. Examined(list, acc, i) = [kept |-> acc.kept, heir |-> b.master, freed |-> acc.freed]
    <3> HIDE DEF next
    <3> QED BY <1>4, <1>7, <2>1
  <2> QED BY <2>2, <1>3, <1>7 DEF r, master
<1>8. CASE Collides(acc.kept, b) /\ ~next
  <2>1. (b.master /\ next) = FALSE /\ (b.master /\ ~next) = b.master
    BY <1>5, <1>8
  <2>2. Examined(list, acc, i) =
          [kept |-> acc.kept, heir |-> FALSE,
           freed |-> IF b.master THEN acc.freed \cup {b.block} ELSE acc.freed]
    <3> HIDE DEF next
    <3> QED BY <1>4, <1>8, <2>1
  <2> QED BY <2>2, <1>3, <1>8 DEF r, master
<1> QED BY <1>6, <1>7, <1>8

LEMMA ExaminedType ==
  ASSUME NEW list \in Seq(BoundKind), NEW acc \in Examinations, NEW i \in 1 .. Len(list)
  PROVE  Examined(list, acc, i) \in Examinations
<1>1. PICK b \in BoundKind :
        \/ Examined(list, acc, i) =
             [kept |-> Append(acc.kept, b), heir |-> FALSE, freed |-> acc.freed]
        \/ Examined(list, acc, i) = [kept |-> acc.kept, heir |-> b.master, freed |-> acc.freed]
        \/ Examined(list, acc, i) =
             [kept |-> acc.kept, heir |-> FALSE,
              freed |-> IF b.master THEN acc.freed \cup {b.block} ELSE acc.freed]
  BY ExaminedIs
<1>2. /\ acc.kept \in Seq(BoundKind) /\ acc.freed \in SUBSET Nat
      /\ b.master \in BOOLEAN /\ b.block \in Nat
  BY DEF Examinations, BoundKind
<1>3. Append(acc.kept, b) \in Seq(BoundKind)
  BY <1>2
<1>4. (IF b.master THEN acc.freed \cup {b.block} ELSE acc.freed) \in SUBSET Nat
  BY <1>2
<1>5. ASSUME NEW kept \in Seq(BoundKind), NEW heir \in BOOLEAN, NEW freed \in SUBSET Nat
      PROVE  [kept |-> kept, heir |-> heir, freed |-> freed] \in Examinations
  BY DEF Examinations
<1> DEFINE more == IF b.master THEN acc.freed \cup {b.block} ELSE acc.freed
<1> HIDE DEF more
<1>6. [kept |-> acc.kept, heir |-> FALSE, freed |-> more] \in Examinations
  BY <1>2, <1>4, <1>5 DEF more
<1>7. /\ [kept |-> acc.kept, heir |-> b.master, freed |-> acc.freed] \in Examinations
      /\ [kept |-> Append(acc.kept, b), heir |-> FALSE, freed |-> acc.freed] \in Examinations
  BY <1>2, <1>3, <1>5
<1> QED BY <1>1, <1>6, <1>7 DEF more

LEMMA ResolveIs ==
  ASSUME NEW list \in Seq(BoundKind)
  PROVE  \E h \in [0 .. Len(list) -> Examinations] :
           /\ h[0] = [kept |-> <<>>, heir |-> FALSE, freed |-> {}]
           /\ \A i \in 1 .. Len(list) : h[i] = Examined(list, h[i - 1], i)
           /\ Resolve(list) = h[Len(list)]
<1> DEFINE Y == Examinations
           n == Len(list)
           x0 == [kept |-> <<>>, heir |-> FALSE, freed |-> {}]
           Rec(g) == [i \in 0 .. n |-> IF i = 0 THEN x0 ELSE Examined(list, g[i - 1], i)]
           f == CHOOSE g : g = Rec(g)
           step == [j \in Nat |-> [s \in Y |-> IF j + 1 \in 1 .. n THEN Examined(list, s, j + 1)
                                               ELSE x0]]
<1>0. n \in Nat
  OBVIOUS
<1>1. x0 \in Y
  <2>1. <<>> \in Seq(BoundKind) /\ {} \in SUBSET Nat
    OBVIOUS
  <2> QED BY <2>1 DEF Examinations
<1>2. step \in [Nat -> [Y -> Y]]
  <2>1. ASSUME NEW s \in Y, NEW j \in Nat, j + 1 \in 1 .. n PROVE Examined(list, s, j + 1) \in Y
    BY <2>1, ExaminedType
  <2> HIDE DEF x0, Y, n
  <2> QED BY <2>1, <1>1
<1>3. PICK h \in [0 .. n -> Y] : h[0] = x0 /\ \A i \in 0 .. n - 1 : h[i + 1] = step[i][h[i]]
  <2> HIDE DEF Y, step, Rec, f, n, x0
  <2>1. \E h : Recursive(h, Y, x0, step, n)
    BY <1>0, <1>1, <1>2, FiniteRecursion
  <2> QED BY <2>1 DEF Recursive
<1>4. ASSUME NEW k \in 1 .. n PROVE h[k] = Examined(list, h[k - 1], k)
  <2>1. k - 1 \in 0 .. n - 1 /\ (k - 1) + 1 = k /\ k - 1 \in Nat /\ k - 1 \in 0 .. n
    BY <1>0
  <2>2. h[k - 1] \in Y
    <3> HIDE DEF Y, n, step, f
    <3> QED BY <2>1, <1>3
  <2>3. h[k] = step[k - 1][h[k - 1]]
    <3> HIDE DEF step, Y, Rec, f, n, x0
    <3>1. h[(k - 1) + 1] = step[k - 1][h[k - 1]]
      BY <1>3, <2>1
    <3> QED BY <3>1, <2>1
  <2>4. step[k - 1][h[k - 1]] = Examined(list, h[k - 1], k)
    <3> HIDE DEF Y, n, x0, f
    <3> QED BY <2>1, <2>2
  <2> QED BY <2>3, <2>4
<1>5. h = Rec(h)
  <2>1. \A k \in 0 .. n : k = 0 \/ k \in 1 .. n
    BY <1>0
  <2>2. \A k \in 0 .. n : h[k] = IF k = 0 THEN x0 ELSE Examined(list, h[k - 1], k)
    <3> HIDE DEF x0, n, Y, step, f
    <3> QED BY <2>1, <1>3, <1>4
  <2> HIDE DEF x0, n, Y, step, f
  <2> QED BY <2>2, <1>3
<1>6. f = Rec(f)
  <2> HIDE DEF Rec
  <2> QED BY <1>5
<1>7. Resolve(list) = f[n]
  BY DEF Resolve
<1> HIDE DEF f
<1>8. \A k \in 0 .. n : f[k] = IF k = 0 THEN x0 ELSE Examined(list, f[k - 1], k)
  <2>1. \A k \in 0 .. n : Rec(f)[k] = IF k = 0 THEN x0 ELSE Examined(list, f[k - 1], k)
    <3> HIDE DEF n, x0
    <3> QED OBVIOUS
  <2> HIDE DEF Rec, n, x0
  <2> QED BY <2>1, <1>6
<1> DEFINE T == {k \in Nat : k <= n => f[k] = h[k]}
<1> HIDE DEF n, x0, Y, step, Rec
<1>9. 0 \in T
  BY <1>0, <1>3, <1>8
<1>10. ASSUME NEW k \in Nat, k \in T PROVE k + 1 \in T
  <2> SUFFICES ASSUME k + 1 <= n PROVE f[k + 1] = h[k + 1]
    OBVIOUS
  <2>1. k <= n /\ k + 1 \in 1 .. n /\ k + 1 \in 0 .. n /\ (k + 1) - 1 = k /\ k + 1 # 0
    BY <1>0
  <2>2. f[k] = h[k]
    BY <2>1, <1>10
  <2>3. f[k + 1] = Examined(list, f[(k + 1) - 1], k + 1)
    BY <2>1, <1>8
  <2>4. h[k + 1] = Examined(list, h[(k + 1) - 1], k + 1)
    BY <2>1, <1>4
  <2> QED BY <2>1, <2>2, <2>3, <2>4
<1>11. f[n] = h[n]
  <2>1. n \in T
    <3> HIDE DEF T
    <3> QED BY <1>0, <1>9, <1>10, Induction
  <2> QED BY <2>1, <1>0
<1> QED BY <1>3, <1>4, <1>7, <1>11 DEF n, x0, Y

(* A binding that is examined.                                             *)
LEMMA ExaminedKeeps ==
  ASSUME NEW list \in Seq(BoundKind), OneLineEach(list), NEW acc \in Examinations,
         NEW i \in 1 .. Len(list), Examining(list, acc, i - 1)
  PROVE  Examining(list, Examined(list, acc, i), i)
<1> DEFINE n == Len(list)
           q == acc.kept
           m == Len(q)
           heir == acc.heir
           freed == acc.freed
           new == Examined(list, acc, i)
<1>1. /\ n \in Nat /\ m \in Nat /\ i \in 1 .. n /\ q \in Seq(BoundKind)
      /\ heir \in BOOLEAN /\ freed \in SUBSET Nat /\ (i - 1) + 1 = i
  BY DEF Examinations
<1>2. /\ \A j, k, l \in 1 .. n :
           j < k /\ k < l /\ list[j].action = list[l].action => list[k].action = list[j].action
      /\ \A j, k \in 1 .. n :
           /\ list[j].action = list[k].action => list[j].block = list[k].block
           /\ list[j].block = list[k].block /\ list[j].block # 0 => list[j].action = list[k].action
      /\ \A k \in 1 .. n : list[k].block # 0 =>
           (list[k].master <=> \A j \in 1 .. k - 1 : list[j].block # list[k].block)
  BY DEF OneLineEach
<1>3. /\ \A k \in 1 .. m : \E j \in 1 .. i - 1 : Same(q[k], list[j])
      /\ \A j, k, l \in 1 .. m :
           j < k /\ k < l /\ q[j].action = q[l].action => q[k].action = q[j].action
      /\ \A k, l \in 1 .. m, j \in i .. n :
           k < l /\ q[k].action = list[j].action => q[l].action = q[k].action
      /\ \A k \in 1 .. m : q[k].block # 0 =>
           (q[k].master <=> \A l \in 1 .. k - 1 : q[l].block # q[k].block)
      /\ list[i].block # 0 =>
           (heir \/ list[i].master <=> \A k \in 1 .. m : q[k].block # list[i].block)
      /\ \A f \in freed : f # 0 =>
           /\ \A k \in 1 .. m : q[k].block # f
           /\ \A j \in i .. n : list[j].block # f
           /\ \E j \in 1 .. i - 1 : list[j].block = f
      /\ Settled(q)
  <2> HIDE DEF Settled, Same
  <2>1. \A j \in 1 .. n : j = i => j = (i - 1) + 1
    BY <1>1
  <2> QED BY <1>1, <2>1 DEF Examining, LinesExamined, m, n, q, heir, freed
<1>4. PICK b \in BoundKind :
        /\ Same(b, list[i]) /\ (b.master <=> list[i].master \/ heir)
        /\ \/ /\ ~Collides(q, b)
              /\ new = [kept |-> Append(q, b), heir |-> FALSE, freed |-> freed]
           \/ /\ i < n /\ list[i + 1].action = b.action
              /\ new = [kept |-> q, heir |-> b.master, freed |-> freed]
           \/ /\ ~ (i < n /\ list[i + 1].action = b.action)
              /\ new = [kept |-> q, heir |-> FALSE,
                        freed |-> IF b.master THEN freed \cup {b.block} ELSE freed]
  <2> HIDE DEF Same, Collides
  <2> QED BY ExaminedIs
<1>5. /\ b.action = list[i].action /\ b.combo = list[i].combo /\ b.block = list[i].block
      /\ b.master \in BOOLEAN /\ b.block \in Nat
  BY <1>4 DEF Same, BoundKind
<1>6. \A k \in 1 .. m : \E j \in 1 .. n : j < i /\ Same(q[k], list[j])
  <2>1. \A j \in 1 .. i - 1 : j \in 1 .. n /\ j < i
    BY <1>1
  <2> QED BY <2>1, <1>3
<1>7. b.block # 0 => (b.master <=> \A k \in 1 .. m : q[k].block # b.block)
  BY <1>3, <1>4, <1>5
<1> HIDE DEF n, q, m, heir, freed, new
(* The next binding owns its memory if nothing of its line stood before.   *)
<1>8. ASSUME NEW j \in 1 .. n, j = i + 1, list[j].block # 0
      PROVE  \/ list[j].action = b.action /\ list[j].block = b.block /\ ~list[j].master
             \/ /\ list[j].action # b.action /\ list[j].block # b.block /\ list[j].master
                /\ \A k \in 1 .. m : q[k].block # list[j].block
  <2>1. i \in 1 .. n /\ i \in 1 .. j - 1 /\ i < j
    BY <1>1, <1>8
  <2>2. CASE list[j].action = b.action
    <3>1. list[j].block = list[i].block
      BY <2>1, <2>2, <1>2, <1>5
    <3>2. ~list[j].master
      BY <2>1, <3>1, <1>2, <1>8
    <3> QED BY <2>2, <3>1, <3>2, <1>5
  <2>3. CASE list[j].action # b.action
    <3>1. \A k \in 1 .. j - 1 : k \in 1 .. n /\ (k = i \/ (k < i /\ i < j))
      BY <2>1, <1>1, <1>8
    <3>2. ASSUME NEW k \in 1 .. j - 1, list[k].block = list[j].block PROVE FALSE
      <4>1. list[k].action = list[j].action
        BY <3>1, <3>2, <1>2, <1>8
      <4> QED BY <4>1, <3>1, <2>1, <2>3, <1>2, <1>5
    <3>3. list[j].master
      BY <3>2, <1>2, <1>8
    <3>4. list[j].block # b.block
      BY <3>2, <2>1, <1>5
    <3>5. ASSUME NEW k \in 1 .. m PROVE q[k].block # list[j].block
      <4>1. PICK l \in 1 .. n : l < i /\ Same(q[k], list[l])
        BY <1>6
      <4>2. l \in 1 .. j - 1
        BY <4>1, <2>1, <1>1
      <4>3. q[k].block = list[l].block
        BY <4>1 DEF Same
      <4> QED BY <4>2, <4>3, <3>2
    <3> QED BY <2>3, <3>3, <3>4, <3>5
  <2> QED BY <2>2, <2>3
<1>9. \A j \in i + 1 .. n : j \in i .. n /\ j \in 1 .. n /\ i < j
  BY <1>1
<1>10. 1 .. i - 1 \subseteq 1 .. i /\ i \in 1 .. i /\ i \in i .. n
  BY <1>1
<1>11. CASE ~Collides(q, b) /\ new = [kept |-> Append(q, b), heir |-> FALSE, freed |-> freed]
  <2> DEFINE r == Append(q, b)
  <2>1. /\ Len(r) = m + 1 /\ r[m + 1] = b /\ \A k \in 1 .. m : r[k] = q[k]
    BY <1>1, AppendProperties DEF m
  <2>2. new.kept = r /\ ~new.heir /\ new.freed = freed
    BY <1>11
  <2> HIDE DEF r
  <2>3. \A k \in 1 .. m + 1 : k \in 1 .. m \/ k = m + 1
    BY <1>1
  <2>4. \A k \in 1 .. m + 1 : \E j \in 1 .. i : Same(r[k], list[j])
    <3>1. Same(b, list[i])
      BY <1>4
    <3> QED BY <3>1, <2>1, <2>3, <1>3, <1>10
  <2>5. ASSUME NEW j \in 1 .. m + 1, NEW k \in 1 .. m + 1, NEW l \in 1 .. m + 1,
               j < k, k < l, r[j].action = r[l].action
        PROVE  r[k].action = r[j].action
    <3>1. j \in 1 .. m /\ k \in 1 .. m /\ r[j] = q[j] /\ r[k] = q[k] /\ (l \in 1 .. m \/ l = m + 1)
      BY <2>1, <2>3, <2>5, <1>1
    <3>2. CASE l \in 1 .. m
      BY <3>1, <3>2, <2>1, <2>5, <1>3
    <3>3. CASE l = m + 1
      <4>1. q[j].action = list[i].action
        BY <3>1, <3>3, <2>1, <2>5, <1>5
      <4> QED BY <3>1, <4>1, <2>5, <1>3, <1>10
    <3> QED BY <3>1, <3>2, <3>3
  <2>6. ASSUME NEW k \in 1 .. m + 1, NEW l \in 1 .. m + 1, NEW j \in i + 1 .. n,
               k < l, r[k].action = list[j].action
        PROVE  r[l].action = r[k].action
    <3>1. k \in 1 .. m /\ r[k] = q[k] /\ (l \in 1 .. m \/ l = m + 1)
      BY <2>1, <2>3, <2>6, <1>1
    <3>2. CASE l \in 1 .. m
      BY <3>1, <3>2, <2>1, <2>6, <1>3, <1>9
    <3>3. CASE l = m + 1
      <4>1. PICK p \in 1 .. n : p < i /\ Same(q[k], list[p])
        BY <3>1, <1>6
      <4>2. list[p].action = list[j].action
        BY <4>1, <3>1, <2>6 DEF Same
      <4>3. list[i].action = list[p].action
        BY <4>1, <4>2, <1>1, <1>2, <1>9
      <4> QED BY <4>1, <4>3, <3>1, <3>3, <2>1, <1>5 DEF Same
    <3> QED BY <3>1, <3>2, <3>3
  <2>7. ASSUME NEW k \in 1 .. m + 1, r[k].block # 0
        PROVE  r[k].master <=> \A l \in 1 .. k - 1 : r[l].block # r[k].block
    <3>1. CASE k \in 1 .. m
      <4>1. \A l \in 1 .. k - 1 : l \in 1 .. m /\ r[l] = q[l]
        BY <3>1, <2>1, <1>1
      <4>2. r[k] = q[k] /\ q[k].block # 0
        BY <3>1, <2>1, <2>7
      <4>3. q[k].master <=> \A l \in 1 .. k - 1 : q[l].block # q[k].block
        BY <3>1, <4>2, <1>3
      <4> HIDE DEF m
      <4> QED BY ONLY <4>1, <4>2, <4>3
    <3>2. CASE k = m + 1
      <4>1. 1 .. k - 1 = 1 .. m
        BY <3>2, <1>1
      <4> QED BY <4>1, <3>2, <2>1, <2>7, <1>7
    <3> QED BY <3>1, <3>2, <2>3
  <2>8. ASSUME NEW j \in 1 .. n, j = i + 1, list[j].block # 0
        PROVE  list[j].master <=> \A k \in 1 .. m + 1 : r[k].block # list[j].block
    <3>1. m + 1 \in 1 .. m + 1
      BY <1>1
    <3>2. CASE list[j].block = b.block /\ ~list[j].master
      BY <3>1, <3>2, <2>1
    <3>3. CASE /\ list[j].block # b.block /\ list[j].master
               /\ \A k \in 1 .. m : q[k].block # list[j].block
      BY <3>3, <2>1, <2>3
    <3> QED BY <3>2, <3>3, <2>8, <1>8
  <2>9. ASSUME NEW f \in freed, f # 0
        PROVE  /\ \A k \in 1 .. m + 1 : r[k].block # f
               /\ \A j \in i + 1 .. n : list[j].block # f
               /\ \E j \in 1 .. i : list[j].block = f
    <3>1. \A k \in 1 .. m + 1 : r[k].block # f
      BY <2>1, <2>3, <2>9, <1>3, <1>5, <1>10
    <3> QED BY <3>1, <2>9, <1>3, <1>9, <1>10
  <2>10. Settled(r)
    <3>1. /\ \A k \in 1 .. m : q[k].combo = b.combo => q[k].action = b.action
          /\ m > 0 /\ type = "mouse" => b.combo.mods # Override
      <4>1. DOMAIN q = 1 .. m /\ (m > 0 => q # <<>>)
        BY <1>1 DEF m
      <4>2. q # <<>> => /\ ~ (type = "mouse" /\ b.combo.mods = Override)
                        /\ \A k \in DOMAIN q : ~ (q[k].action # b.action /\ q[k].combo = b.combo)
        BY <1>11 DEF Collides
      <4>3. \A k \in 1 .. m : m > 0
        BY <1>1
      <4> QED BY <4>1, <4>2, <4>3
    <3>2. /\ \A k, l \in 1 .. m : q[k].combo = q[l].combo => q[k].action = q[l].action
          /\ \A k \in 1 .. m : type = "mouse" /\ k > 1 => q[k].combo.mods # Override
      BY <1>3 DEF Settled, m
    <3>3. ASSUME NEW k \in 1 .. m + 1, NEW l \in 1 .. m + 1, r[k].combo = r[l].combo
          PROVE  r[k].action = r[l].action
      BY <3>1, <3>2, <3>3, <2>1, <2>3
    <3>4. ASSUME NEW k \in 1 .. m + 1, type = "mouse", k > 1
          PROVE  r[k].combo.mods # Override
      <4>1. k = m + 1 => m > 0
        BY <3>4, <1>1
      <4> QED BY <4>1, <3>1, <3>2, <3>4, <2>1, <2>3
    <3> QED BY <3>3, <3>4, <2>1 DEF Settled
  <2> HIDE DEF Same, Settled
  <2>11. Len(r) = m + 1 /\ Len(list) = n
    BY <2>1 DEF n
  <2>12. LinesExamined(list, r, FALSE, freed, i)
    BY <2>4, <2>5, <2>6, <2>7, <2>8, <2>9, <2>10, <2>11 DEF LinesExamined
  <2> HIDE DEF LinesExamined, Examining
  <2>13. Examining(list, new, i)
    BY <2>12, <1>11, FieldsExamined DEF r
  <2> QED BY <2>13 DEF new
<1>12. /\ \A k \in 1 .. m : \E j \in 1 .. i : Same(q[k], list[j])
       /\ \A k, l \in 1 .. m, j \in i + 1 .. n :
            k < l /\ q[k].action = list[j].action => q[l].action = q[k].action
       /\ \A f \in freed : f # 0 =>
            /\ \A k \in 1 .. m : q[k].block # f
            /\ \A j \in i + 1 .. n : list[j].block # f
            /\ \E j \in 1 .. i : list[j].block = f
  BY <1>3, <1>9, <1>10
<1>13. CASE /\ i < n /\ list[i + 1].action = b.action
            /\ new = [kept |-> q, heir |-> b.master, freed |-> freed]
  <2>1. new.kept = q /\ new.heir = b.master /\ new.freed = freed
    BY <1>13
  <2>2. ASSUME NEW j \in 1 .. n, j = i + 1, list[j].block # 0
        PROVE  b.master \/ list[j].master <=> \A k \in 1 .. m : q[k].block # list[j].block
    <3>1. list[j].block = b.block /\ ~list[j].master
      BY <2>2, <1>8, <1>13
    <3> QED BY <3>1, <2>2, <1>7
  <2> HIDE DEF Same, Settled
  <2>3. Len(q) = m /\ Len(list) = n
    BY DEF m, n
  <2>4. LinesExamined(list, q, b.master, freed, i)
    BY <2>2, <2>3, <1>3, <1>12 DEF LinesExamined
  <2> HIDE DEF LinesExamined, Examining
  <2>5. Examining(list, new, i)
    BY <2>4, <1>13, FieldsExamined
  <2> QED BY <2>5 DEF new
<1>14. CASE /\ ~ (i < n /\ list[i + 1].action = b.action)
            /\ new = [kept |-> q, heir |-> FALSE,
                      freed |-> IF b.master THEN freed \cup {b.block} ELSE freed]
  <2> DEFINE more == IF b.master THEN freed \cup {b.block} ELSE freed
  <2>1. new.kept = q /\ ~new.heir /\ new.freed = more
    BY <1>14
  <2>2. ASSUME NEW j \in 1 .. n, j = i + 1, list[j].block # 0
        PROVE  list[j].master <=> \A k \in 1 .. m : q[k].block # list[j].block
    <3>1. list[j].action # b.action
      BY <2>2, <1>1, <1>14
    <3> QED BY <3>1, <2>2, <1>8
  <2>3. ASSUME b.master, b.block # 0
        PROVE  /\ \A k \in 1 .. m : q[k].block # b.block
               /\ \A j \in i + 1 .. n : list[j].block # b.block
               /\ \E j \in 1 .. i : list[j].block = b.block
    <3>1. ASSUME NEW j \in i + 1 .. n, list[j].block = b.block PROVE FALSE
      <4>1. list[j].action = list[i].action /\ j \in 1 .. n
        BY <3>1, <2>3, <1>1, <1>2, <1>5, <1>9
      <4>2. i < n /\ i + 1 \in 1 .. n /\ i < i + 1 /\ (j = i + 1 \/ i + 1 < j)
        BY <1>1
      <4>3. list[i + 1].action = list[i].action
        BY <4>1, <4>2, <1>1, <1>2
      <4> QED BY <4>2, <4>3, <1>5, <1>14
    <3> QED BY <3>1, <2>3, <1>5, <1>7, <1>10
  <2>4. \A f \in more : f \in freed \/ (f = b.block /\ b.master)
    OBVIOUS
  <2> HIDE DEF more
  <2>5. \A f \in more : f # 0 =>
          /\ \A k \in 1 .. m : q[k].block # f
          /\ \A j \in i + 1 .. n : list[j].block # f
          /\ \E j \in 1 .. i : list[j].block = f
    BY <2>3, <2>4, <1>12
  <2> HIDE DEF Same, Settled
  <2>6. Len(q) = m /\ Len(list) = n
    BY DEF m, n
  <2>7. LinesExamined(list, q, FALSE, more, i)
    BY <2>2, <2>5, <2>6, <1>3, <1>12 DEF LinesExamined
  <2> HIDE DEF LinesExamined, Examining
  <2>8. Examining(list, new, i)
    BY <2>7, <1>14, FieldsExamined DEF more
  <2> QED BY <2>8 DEF new
<1> QED BY <1>4, <1>11, <1>13, <1>14 DEF new

LEMMA ResolveKeeps ==
  ASSUME NEW list \in Seq(BoundKind), OneLineEach(list)
  PROVE  LET done == Resolve(list)
         IN  /\ done.kept \in Seq(BoundKind) /\ OneLineEach(done.kept) /\ Settled(done.kept)
             /\ \A k \in 1 .. Len(done.kept) :
                  \E j \in 1 .. Len(list) : done.kept[k].block = list[j].block
             /\ \A f \in done.freed : f # 0 =>
                  /\ \A k \in 1 .. Len(done.kept) : done.kept[k].block # f
                  /\ \E j \in 1 .. Len(list) : list[j].block = f
<1> DEFINE n == Len(list)
           x0 == [kept |-> <<>>, heir |-> FALSE, freed |-> {}]
           done == Resolve(list)
<1>1. PICK h \in [0 .. n -> Examinations] :
        /\ h[0] = x0
        /\ \A i \in 1 .. n : h[i] = Examined(list, h[i - 1], i)
        /\ done = h[n]
  BY ResolveIs
<1>2. n \in Nat
  OBVIOUS
<1> HIDE DEF n, x0, done
<1> DEFINE T == {i \in Nat : i <= n => Examining(list, h[i], i)}
<1>3. 0 \in T
  <2>1. \A j \in 1 .. n : j = 0 + 1 /\ list[j].block # 0 => list[j].master
    <3>1. \A j \in 1 .. Len(list) : list[j].block # 0 =>
            (list[j].master <=> \A k \in 1 .. j - 1 : list[k].block # list[j].block)
      BY DEF OneLineEach
    <3>2. ASSUME NEW j \in 1 .. Len(list), j = 0 + 1 PROVE 1 .. j - 1 = {}
      BY <3>2
    <3> QED BY <3>1, <3>2 DEF n
  <2> DEFINE q == <<>>
  <2>2. 1 .. Len(q) = {}
    OBVIOUS
  <2> HIDE DEF q
  <2>3. Settled(q)
    BY <2>2 DEF Settled
  <2>4. LinesExamined(list, q, FALSE, {}, 0)
    <3> HIDE DEF Settled
    <3> QED BY <2>1, <2>2, <2>3 DEF LinesExamined, n
  <2>5. Examining(list, x0, 0)
    <3> HIDE DEF LinesExamined, Examining
    <3> QED BY <2>4, FieldsExamined DEF x0, q
  <2> HIDE DEF Examining
  <2> QED BY <2>5, <1>1
<1>4. ASSUME NEW i \in Nat, i \in T PROVE i + 1 \in T
  <2> SUFFICES ASSUME i + 1 <= n PROVE Examining(list, h[i + 1], i + 1)
    OBVIOUS
  <2>1. i <= n /\ i + 1 \in 1 .. n /\ (i + 1) - 1 = i /\ i \in 0 .. n
    BY <1>2
  <2> HIDE DEF Examining
  <2>2. Examining(list, h[i], i)
    BY <2>1, <1>4
  <2>3. h[i + 1] = Examined(list, h[i], i + 1)
    BY <2>1, <1>1
  <2>4. h[i] \in Examinations /\ i + 1 \in 1 .. Len(list) /\ Examining(list, h[i], (i + 1) - 1)
    BY <2>1, <2>2 DEF n
  <2>5. Examining(list, Examined(list, h[i], i + 1), i + 1)
    BY <2>4, ExaminedKeeps
  <2> QED BY <2>3, <2>5
<1>5. Examining(list, done, n)
  <2>1. n \in T
    <3> HIDE DEF T
    <3> QED BY <1>2, <1>3, <1>4, Induction
  <2> QED BY <2>1, <1>1, <1>2
<1>6. done.kept \in Seq(BoundKind)
  BY <1>1, <1>2 DEF Examinations
<1> DEFINE q == done.kept
<1> HIDE DEF T
<1>7. /\ \A k \in 1 .. Len(q) : \E j \in 1 .. n : Same(q[k], list[j])
      /\ \A k, l, m \in 1 .. Len(q) :
           k < l /\ l < m /\ q[k].action = q[m].action => q[l].action = q[k].action
      /\ \A k \in 1 .. Len(q) : q[k].block # 0 =>
           (q[k].master <=> \A l \in 1 .. k - 1 : q[l].block # q[k].block)
      /\ \A f \in done.freed : f # 0 =>
           /\ \A k \in 1 .. Len(q) : q[k].block # f
           /\ \E j \in 1 .. n : list[j].block = f
      /\ Settled(q)
  <2> HIDE DEF Settled, Same
  <2> QED BY <1>5 DEF Examining, LinesExamined
<1> HIDE DEF q
<1>8. \A k, l \in 1 .. Len(q) :
        /\ q[k].action = q[l].action => q[k].block = q[l].block
        /\ q[k].block = q[l].block /\ q[k].block # 0 => q[k].action = q[l].action
  <2>1. \A i, j \in 1 .. n :
          /\ list[i].action = list[j].action => list[i].block = list[j].block
          /\ list[i].block = list[j].block /\ list[i].block # 0 => list[i].action = list[j].action
    BY DEF OneLineEach, n
  <2> QED BY <2>1, <1>7 DEF Same
<1>9. OneLineEach(q)
  BY <1>7, <1>8 DEF OneLineEach
<1>10. \A k \in 1 .. Len(q) : \E j \in 1 .. n : q[k].block = list[j].block
  BY <1>7 DEF Same
<1> QED BY <1>6, <1>7, <1>9, <1>10 DEF q, done, n

LEMMA ConfLoadedKeeps == ASSUME ListsInv, ConfLoaded PROVE ListsInv'
<1> DEFINE p == parsing
           list == lists[p]
           done == Resolve(list)
           kept == done.kept
           freed == done.freed
<1>1. ListTypes /\ ListsKept /\ p \in Who
  BY DEF ListsInv, ConfLoaded, ListTypes
<1>2. list \in Seq(BoundKind) /\ OneLineEach(list) /\ InUse(list, blocks.used)
  BY <1>1 DEF ListTypes, ListsKept
<1>3. /\ lists' = [lists EXCEPT ![p] = kept]
      /\ blocks' = [blocks EXCEPT !.used = @ \ freed]
      /\ unresolved' = unresolved \ {p} /\ parsing' = "" /\ type' = type
  BY DEF ConfLoaded
<1> HIDE DEF list, done
<1>4. /\ kept \in Seq(BoundKind) /\ OneLineEach(kept) /\ Settled(kept)
      /\ \A k \in 1 .. Len(kept) : \E j \in 1 .. Len(list) : kept[k].block = list[j].block
      /\ \A f \in freed : f # 0 =>
           /\ \A k \in 1 .. Len(kept) : kept[k].block # f
           /\ \E j \in 1 .. Len(list) : list[j].block = f
  BY <1>2, ResolveKeeps DEF done
<1> HIDE DEF kept, freed
<1>5. /\ lists' \in [Who -> Seq(BoundKind)] /\ lists'[p] = kept
      /\ \A w \in Who : w # p => lists'[w] = lists[w]
  BY <1>1, <1>3, <1>4 DEF ListTypes
<1>6. /\ blocks'.used = blocks.used \ freed /\ blocks'.last = blocks.last
      /\ blocks' \in [used : SUBSET Nat, last : Nat]
  BY <1>1, <1>3 DEF ListTypes
<1>7. ListTypes'
  BY <1>1, <1>3, <1>5, <1>6 DEF ListTypes
<1>8. InUse(kept, blocks'.used)
  BY <1>2, <1>4, <1>6 DEF InUse
<1>9. ASSUME NEW w \in Who, w # p
      PROVE  /\ OneLineEach(lists[w]) /\ InUse(lists[w], blocks'.used)
             /\ NoneShared(kept, lists[w]) /\ NoneShared(lists[w], kept)
  <2>1. /\ OneLineEach(lists[w]) /\ InUse(lists[w], blocks.used)
        /\ NoneShared(lists["server"], lists["client"])
    BY <1>1 DEF ListsKept
  <2>2. \A i \in 1 .. Len(list), j \in 1 .. Len(lists[w]) :
          list[i].block = lists[w][j].block => list[i].block = 0
    BY <2>1, <1>1, <1>9 DEF NoneShared, Who, list
  <2>3. InUse(lists[w], blocks'.used)
    BY <2>1, <2>2, <1>4, <1>6 DEF InUse
  <2>4. ASSUME NEW k \in 1 .. Len(kept), NEW i \in 1 .. Len(lists[w]),
               kept[k].block = lists[w][i].block
        PROVE  kept[k].block = 0
    <3>1. PICK j \in 1 .. Len(list) : kept[k].block = list[j].block
      BY <1>4
    <3> QED BY <3>1, <2>2, <2>4
  <2>5. NoneShared(kept, lists[w]) /\ NoneShared(lists[w], kept)
    BY <2>4 DEF NoneShared
  <2> QED BY <2>1, <2>3, <2>5
<1>10. NoneShared(lists'["server"], lists'["client"])
  <2>1. PICK w \in Who : w # p
    BY <1>1 DEF Who
  <2>2. NoneShared(kept, lists[w]) /\ NoneShared(lists[w], kept)
    BY <2>1, <1>9
  <2>3. (p = "server" /\ w = "client") \/ (p = "client" /\ w = "server")
    BY <2>1, <1>1 DEF Who
  <2> QED BY <2>1, <2>2, <2>3, <1>1, <1>5
<1>11. ListsKept'
  <2>1. \A w \in Who : OneLineEach(lists'[w]) /\ InUse(lists'[w], blocks'.used)
    BY <1>4, <1>5, <1>8, <1>9
  <2>2. ASSUME NEW w \in Who \ ({parsing'} \cup unresolved') PROVE Settled(lists[w])'
    <3>1. Settled(lists'[w])
      <4>1. CASE w = p
        BY <4>1, <1>4, <1>5
      <4>2. CASE w # p
        <5>1. w \in Who \ ({parsing} \cup unresolved)
          BY <4>2, <2>2, <1>3
        <5> QED BY <4>2, <5>1, <1>1, <1>5 DEF ListsKept
      <4> QED BY <4>1, <4>2
    <3> QED BY <3>1, <1>3 DEF Settled
  <2> QED BY <2>1, <2>2, <1>10 DEF ListsKept
<1> QED BY <1>7, <1>11 DEF ListsInv

LEMMA ListsStart == ListsInit => ListsInv
<1> SUFFICES ASSUME ListsInit PROVE ListsInv
  OBVIOUS
<1> DEFINE act == [name |-> "copy", with |-> ""]
<1>1. PICK a \in Combos, b \in Combos :
        /\ a # b
        /\ lists = [server |-> <<Bound(act, a, 0, FALSE), Bound(act, b, 0, FALSE)>>,
                    client |-> <<>>]
  BY DEF ListsInit
<1> DEFINE x == Bound(act, a, 0, FALSE)
           y == Bound(act, b, 0, FALSE)
<1>2. act \in AnyAction
  BY DEF AnyAction
<1>3. /\ x \in BoundKind /\ y \in BoundKind
      /\ x.action = act /\ y.action = act /\ x.block = 0 /\ y.block = 0
      /\ x.combo = a /\ y.combo = b
  <2> HIDE DEF act
  <2> QED BY <1>2 DEF BoundKind, Bound
<1> HIDE DEF x, y, act
<1> DEFINE s == <<x, y>>
<1>4. /\ s \in Seq(BoundKind) /\ Len(s) = 2
      /\ \A i \in 1 .. Len(s) : s[i].action = act /\ s[i].block = 0
  BY <1>3
<1> HIDE DEF s
<1>5. lists["server"] = s /\ lists["client"] = <<>> /\ lists \in [Who -> Seq(BoundKind)]
  <2>1. lists = [server |-> s, client |-> <<>>] /\ <<>> \in Seq(BoundKind)
    BY <1>1 DEF x, y, s
  <2> DEFINE X == Seq(BoundKind)
  <2>2. s \in X /\ <<>> \in X
    BY <2>1, <1>4
  <2> HIDE DEF X
  <2>3. [server |-> s, client |-> <<>>] \in [Who -> X]
    BY <2>2 DEF Who
  <2> QED BY <2>1, <2>3 DEF X
<1>6. ListTypes
  <2>1. /\ type \in {"key", "mouse"} /\ parsing = "server" /\ unresolved = {}
        /\ blocks = [used |-> {}, last |-> 0]
    BY DEF ListsInit
  <2>2. blocks \in [used : SUBSET Nat, last : Nat] /\ blocks.used = {}
    BY <2>1
  <2> QED BY <2>1, <2>2, <1>5 DEF ListTypes, Who
<1>7. OneLineEach(s) /\ InUse(s, blocks.used)
  BY <1>4 DEF OneLineEach, InUse
<1>8. OneLineEach(<<>>) /\ InUse(<<>>, blocks.used) /\ NoneShared(s, <<>>) /\ Settled(<<>>)
  <2>1. 1 .. Len(<<>>) = {}
    OBVIOUS
  <2> QED BY <2>1 DEF OneLineEach, InUse, NoneShared, Settled
<1>9. \A w \in Who \ ({parsing} \cup unresolved) : w = "client"
  BY DEF ListsInit, Who
<1>10. ListsKept
  BY <1>5, <1>7, <1>8, <1>9 DEF ListsKept, Who
<1> QED BY <1>6, <1>10 DEF ListsInv

(* What the invariant says of a list.                                      *)
LEMMA SharersTogether ==
  ASSUME NEW list \in Seq(BoundKind), OneLineEach(list),
         NEW i \in 1 .. Len(list), list[i].block # 0
  PROVE  LET Sharing == {j \in 1 .. Len(list) : list[j].block = list[i].block}
         IN  /\ list[i].master <=> i = Min(Sharing)
             /\ Sharing = Min(Sharing) .. Max(Sharing)
<1> DEFINE n == Len(list)
           S == {j \in 1 .. n : list[j].block = list[i].block}
<1>1. n \in Nat /\ i \in S /\ S \subseteq 1 .. n
  OBVIOUS
<1>2. \A j, k \in S : list[j].action = list[k].action
  BY DEF OneLineEach
<1>3. /\ \A j, k, l \in 1 .. n :
           j < k /\ k < l /\ list[j].action = list[l].action => list[k].action = list[j].action
      /\ \A j \in 1 .. n : list[j].action = list[i].action => list[j].block = list[i].block
      /\ list[i].master <=> \A j \in 1 .. i - 1 : list[j].block # list[i].block
  BY DEF OneLineEach
<1>4. S = {j \in 1 .. n : list[j].action = list[i].action}
  BY <1>1, <1>2, <1>3
<1>5. \A j \in 1 .. i - 1 : j \in 1 .. n
  BY <1>1
<1>6. list[i].master <=> \A j \in S : i <= j
  <2>1. \A j \in 1 .. i - 1 : j \in S <=> list[j].block = list[i].block
    BY <1>5
  <2> HIDE DEF S, n
  <2>2. ASSUME NEW j \in S PROVE i <= j <=> j \notin 1 .. i - 1
    BY <1>1
  <2>3. \A j \in 1 .. i - 1 : j \in S => ~ (i <= j)
    BY <1>1
  <2> QED BY <2>1, <2>2, <2>3, <1>3
<1>7. \A j, k, l : j \in S /\ l \in S /\ k \in 1 .. n /\ j < k /\ k < l => k \in S
  BY <1>3, <1>4
<1> HIDE DEF S, n
<1>8. S \subseteq Nat /\ S \subseteq Int
  BY <1>1
<1>9. PICK low \in S : \A j \in S : low <= j
  BY <1>1, <1>8, SmallestOf
<1>10. Min(S) = low
  BY ONLY <1>8, <1>9, MinIs
<1>11. PICK high \in S : \A j \in S : j <= high
  <2> DEFINE R == {n - j : j \in S}
  <2>1. R \subseteq Nat /\ R # {}
    BY <1>1
  <2>2. \A j \in S : n - j \in R
    OBVIOUS
  <2>3. \A r \in R : \E j \in S : r = n - j
    OBVIOUS
  <2> HIDE DEF R
  <2>4. PICK r \in R : \A t \in R : r <= t
    BY <2>1, SmallestOf
  <2>5. PICK j \in S : r = n - j
    BY <2>3
  <2>6. ASSUME NEW k \in S PROVE k <= j
    <3>1. n - j <= n - k
      BY <2>2, <2>4, <2>5
    <3>2. j \in Int /\ k \in Int
      BY <1>8
    <3> QED BY ONLY <3>1, <3>2, <1>1
  <2> QED BY <2>6
<1>12. Max(S) = high
  BY ONLY <1>8, <1>11, MaxIs
<1>13. S = low .. high
  <2>1. \A j \in S : j \in low .. high
    BY <1>8, <1>9, <1>11
  <2>2. ASSUME NEW j \in low .. high PROVE j \in S
    <3>1. low \in Nat /\ high \in Nat /\ low \in 1 .. n /\ high \in 1 .. n
      BY <1>1, <1>8
    <3>2. j \in 1 .. n /\ (j = low \/ j = high \/ (low < j /\ j < high))
      BY ONLY <3>1, <1>1, j \in low .. high
    <3> QED BY <3>2, <1>7
  <2> QED BY <2>1, <2>2
<1>14. (\A j \in S : i <= j) <=> i = low
  <2>1. i \in S /\ low \in S
    BY <1>1
  <2>2. ASSUME \A j \in S : i <= j PROVE i = low
    <3>1. i <= low /\ low <= i /\ i \in Int /\ low \in Int
      BY <2>1, <2>2, <1>8, <1>9
    <3> QED BY ONLY <3>1
  <2> QED BY <2>2, <1>9
<1> QED BY <1>6, <1>10, <1>12, <1>13, <1>14 DEF S, n

LEMMA ListsOwned == ListsInv => BindingsOwned
<1> SUFFICES ASSUME ListsInv, Defined PROVE BindingsOwned
  BY DEF BindingsOwned
<1>1. ListTypes /\ ListsKept /\ Who = {"server", "client"}
  BY DEF ListsInv, Who
<1>2. ASSUME NEW who \in {"server", "client"}, NEW i \in DOMAIN lists[who],
             lists[who][i].block # 0
      PROVE  LET list == lists[who]
                 Sharing(k) == {j \in DOMAIN list : list[j].block = list[k].block}
             IN  /\ list[i].block \in blocks.used
                 /\ list[i].master <=> i = Min(Sharing(i))
                 /\ Sharing(i) = Min(Sharing(i)) .. Max(Sharing(i))
  <2> DEFINE list == lists[who]
  <2>1. /\ list \in Seq(BoundKind) /\ OneLineEach(list) /\ InUse(list, blocks.used)
        /\ DOMAIN list = 1 .. Len(list)
    <3>1. list \in Seq(BoundKind)
      BY <1>1 DEF ListTypes
    <3>2. OneLineEach(list) /\ InUse(list, blocks.used)
      BY <1>1 DEF ListsKept
    <3> HIDE DEF list
    <3> QED BY <3>1, <3>2
  <2> HIDE DEF list
  <2>2. i \in 1 .. Len(list) /\ list[i].block # 0
    BY <2>1, <1>2 DEF list
  <2> DEFINE S == {j \in 1 .. Len(list) : list[j].block = list[i].block}
  <2>3. (list[i].master <=> i = Min(S)) /\ S = Min(S) .. Max(S)
    BY <2>1, <2>2, SharersTogether
  <2>4. {j \in DOMAIN list : list[j].block = list[i].block} = S
    BY <2>1
  <2> HIDE DEF S
  <2>5. list[i].block \in blocks.used
    BY <2>1, <2>2 DEF InUse
  <2> QED BY <2>3, <2>4, <2>5 DEF list
<1>3. {b.block : b \in ToSet(lists.server)} \cap
      {b.block : b \in ToSet(lists.client)} \subseteq {0}
  <2> DEFINE s == lists["server"]
             c == lists["client"]
  <2>1. s \in Seq(BoundKind) /\ c \in Seq(BoundKind) /\ NoneShared(s, c)
    BY <1>1 DEF ListTypes, ListsKept
  <2> HIDE DEF s, c
  <2>2. /\ ToSet(s) = {s[i] : i \in 1 .. Len(s)} /\ ToSet(c) = {c[i] : i \in 1 .. Len(c)}
    BY <2>1 DEF ToSet
  <2>3. {b.block : b \in ToSet(s)} \cap {b.block : b \in ToSet(c)} \subseteq {0}
    BY <2>1, <2>2 DEF NoneShared
  <2> QED BY <2>3 DEF s, c
<1>4. ASSUME NEW who \in {"server", "client"} \ ({parsing} \cup unresolved)
      PROVE  LET list == lists[who]
             IN  /\ \A i, j \in DOMAIN list :
                         list[i].combo = list[j].combo => list[i].action = list[j].action
                 /\ \A i \in DOMAIN list : type = "mouse" /\ i > 1 => list[i].combo.mods # Override
  <2> DEFINE list == lists[who]
  <2>1. list \in Seq(BoundKind) /\ Settled(list)
    BY <1>1, <1>4 DEF ListTypes, ListsKept
  <2> HIDE DEF list
  <2>2. DOMAIN list = 1 .. Len(list)
    BY <2>1
  <2>3. /\ \A i, j \in DOMAIN list :
             list[i].combo = list[j].combo => list[i].action = list[j].action
        /\ \A i \in DOMAIN list : type = "mouse" /\ i > 1 => list[i].combo.mods # Override
    BY <2>1, <2>2 DEF Settled
  <2> QED BY <2>3 DEF list
<1> QED BY <1>2, <1>3, <1>4 DEF BindingsOwned

(* Theorem: in any configuration of lines that bind, replace and unbind,   *)
(* in any order, for a server and the clients that override its options,   *)
(* the command of every binding is in use and owned by the first binding   *)
(* of its line, which are next to each other; a client shares none with    *)
(* the server, and a loaded list has no collisions, unless memory was used *)
(* after it was freed (config.c:1930, 2006, 2500, 3845, 3861).             *)
THEOREM TheBindingsAreOwned == ListsSpec => []BindingsOwned
<1>1. ListsInv /\ [ListsNext]_listVars => ListsInv'
  <2> SUFFICES ASSUME ListsInv, [ListsNext]_listVars PROVE ListsInv'
    OBVIOUS
  <2>1. ASSUME NEW action \in Actions, NEW combos \in Seq(Combos), Bind(action, combos)
        PROVE  ListsInv'
    BY <2>1, BindKeeps
  <2>2. <<>> \in Seq(Combos) /\ \A a, b \in Combos : <<a>> \in Seq(Combos) /\ <<a, b>> \in Seq(Combos)
    OBVIOUS
  <2>3. ASSUME NEW action \in Actions,
               \/ Bind(action, <<>>)
               \/ \E a, b \in Combos : Bind(action, <<a>>) \/ Bind(action, <<a, b>>)
        PROVE  ListsInv'
    <3> HIDE DEF Bind, ListsInv, Actions, Combos
    <3>1. CASE Bind(action, <<>>)
      BY <3>1, <2>1, <2>2
    <3>2. CASE \E a, b \in Combos : Bind(action, <<a>>) \/ Bind(action, <<a, b>>)
      <4>1. PICK a \in Combos, b \in Combos : Bind(action, <<a>>) \/ Bind(action, <<a, b>>)
        BY <3>2
      <4> QED BY <4>1, <2>1, <2>2
    <3> QED BY <2>3, <3>1, <3>2
  <2>4. ASSUME NEW action \in Actions, BadKey(action) PROVE ListsInv'
    BY <2>4, BadKeyKeeps
  <2>5. CASE UNCHANGED listVars
    <3>1. UNCHANGED <<type, lists, parsing, blocks, unresolved, wrong>>
      BY <2>5 DEF listVars
    <3>2. ListTypes'
      BY <3>1 DEF ListsInv, ListTypes
    <3>3. Defined /\ ListsKept => ListsKept'
      <4>1. ASSUME ListsKept, NEW w \in Who \ ({parsing'} \cup unresolved')
            PROVE  Settled(lists[w])'
        BY <3>1, <4>1 DEF ListsKept, Settled
      <4> QED BY <3>1, <4>1 DEF ListsKept
    <3> QED BY <3>1, <3>2, <3>3 DEF ListsInv, Defined
  <2>6. CASE ListsNext
    BY <2>6, <2>3, <2>4, ConfLoadedKeeps, UnresolvedKeeps, CloneKeeps, FreeClientKeeps
       DEF ListsNext
  <2> QED BY <2>5, <2>6
<1>2. ListsInit => ListsInv
  BY ListsStart
<1>3. ListsInv => BindingsOwned
  BY ListsOwned
<1> QED BY <1>1, <1>2, <1>3, PTL DEF ListsSpec

=============================================================================
