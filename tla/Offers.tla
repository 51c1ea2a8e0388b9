------------------------------- MODULE Offers -------------------------------
(***************************************************************************)
(* What other clients offer a seat: the clipboard and what is dragged over *)
(* a window (selection.c).  The protocol announces an offer first, then    *)
(* its types, and only then says whether it is the clipboard or a drag;    *)
(* both are kept in seat->clipboard.  A drop hands the offer over to the   *)
(* transfer, which destroys it when it is done.                            *)
(***************************************************************************)
EXTENDS Integers, FiniteSets, Sequences

CONSTANTS
    Windows,    \* terminals
    NoWindow,
    MaxOffers,  \* bound: offers
    MaxTypes,   \* bound: types of an offer
    MaxReads    \* bound: transfers at a time

ASSUME OffersAssumption ==
    /\ NoWindow \notin Windows
    /\ MaxOffers \in Nat

VARIABLES
    clip,       \* seat->clipboard: offer, mime, window
    made,       \* offers so far
    types,      \* history: the types that came with the newest, in order
    newest,     \* the compositor's: what it said of the last offer
    drag,       \* the compositor's: the offer over a window; accepted?
    pasting,    \* the terminals' is_sending_paste_data
    transfers,  \* begun and not done: terminal, type, offer to be destroyed,
                \* and (history) the types there were
    destroyed   \* history: how often each offer was destroyed

offersVars == <<clip, made, types, newest, drag, pasting, transfers, destroyed>>

NoOffer == 0
Utf8Text == {"utf8", "utf8_string"}
PlainText == {"plain", "text"}
Types == Utf8Text \cup PlainText \cup {"uris"}

NoClip == [offer |-> NoOffer, mime |-> "unset", window |-> NoWindow]
NoDrag == [offer |-> NoOffer, window |-> NoWindow, accepted |-> FALSE]

OffersInit ==
    /\ clip = NoClip
    /\ made = 0
    /\ types = <<>>
    /\ newest = "said"
    /\ drag = NoDrag
    /\ pasting = {}
    /\ transfers = {}
    /\ destroyed = [o \in 1 .. MaxOffers |-> 0]

-----------------------------------------------------------------------------
(* select_mime_type_for_offer() *)
Preferred(mime, offered) ==
    CASE offered \in PlainText -> IF mime = "unset" THEN offered ELSE mime
      [] offered \in Utf8Text  -> IF mime \in PlainText \cup {"unset"} THEN offered ELSE mime
      [] OTHER             -> offered

(* data_offer_reset() *)
Destroyed(offer) == [o \in DOMAIN destroyed |-> destroyed[o] + (IF o = offer THEN 1 ELSE 0)]

DataOffer ==
    /\ newest = "said"
    /\ made < MaxOffers
    /\ made' = made + 1
    /\ types' = <<>>
    /\ newest' = "new"
    /\ clip' = [NoClip EXCEPT !.offer = made + 1]
    /\ destroyed' = Destroyed(clip.offer)
    /\ UNCHANGED <<drag, pasting, transfers>>

Offer ==
    /\ newest = "new"
    /\ Len(types) < MaxTypes
    /\ \E t \in Types :
        /\ types' = Append(types, t)
        /\ clip' = [clip EXCEPT !.mime = Preferred(clip.mime, t)]
    /\ UNCHANGED <<made, newest, drag, pasting, transfers, destroyed>>

(* The newest offer is the clipboard. *)
Selection ==
    /\ newest = "new"
    /\ newest' = "said"
    /\ UNCHANGED <<clip, made, types, drag, pasting, transfers, destroyed>>

(* The clipboard is empty. *)
SelectionNone ==
    /\ newest = "said"
    /\ clip.offer # NoOffer
    /\ clip' = NoClip
    /\ destroyed' = Destroyed(clip.offer)
    /\ UNCHANGED <<made, types, newest, drag, pasting, transfers>>

(* The newest offer is dragged over a window, at its grid or elsewhere.    *)
(* There is one drag, and an offer for each surface it enters.             *)
Enter ==
    /\ newest = "new"
    /\ drag = NoDrag
    /\ newest' = "said"
    /\ \E w \in Windows, grid \in BOOLEAN :
        LET accepted == clip.mime # "unset" /\ grid /\ w \notin pasting
        IN  /\ clip' = [clip EXCEPT !.window = IF accepted THEN w ELSE NoWindow]
            /\ drag' = [offer |-> clip.offer, window |-> w, accepted |-> accepted]
    /\ UNCHANGED <<made, types, pasting, transfers, destroyed>>

Leave ==
    /\ drag # NoDrag
    /\ drag' = NoDrag
    /\ clip' = [clip EXCEPT !.window = NoWindow]
    /\ UNCHANGED <<made, types, newest, pasting, transfers, destroyed>>

(* Faulty variant: the transfer's offer remains the clipboard's, too. *)
StaysWithClipboard == clip

HandedOver == [clip EXCEPT !.offer = NoOffer, !.mime = "unset"]

(* drop(): the compositor drops what was accepted.  The pipe may fail.     *)
Drop ==
    /\ drag.accepted
    /\ clip.window # NoWindow
    /\ Cardinality(transfers) < MaxReads
    /\ drag' = NoDrag
    /\ \/ UNCHANGED <<clip, pasting, transfers>>
       \/ /\ clip.mime # "unset"
          /\ pasting' = pasting \cup {clip.window}
          /\ transfers' = transfers \cup
                {[term |-> clip.window, mime |-> clip.mime, of |-> types,
                  ends |-> clip.offer]}
          /\ clip' = HandedOver
    /\ UNCHANGED <<made, types, newest, destroyed>>

(* selection_from_clipboard() and text_from_clipboard() *)
Paste ==
    \E w \in Windows \ pasting :
        /\ Cardinality(transfers) < MaxReads
        /\ clip.offer # NoOffer
        /\ clip.mime # "unset"
        /\ pasting' = pasting \cup {w}
        /\ transfers' = transfers \cup
                {[term |-> w, mime |-> clip.mime, of |-> types, ends |-> NoOffer]}
        /\ UNCHANGED <<clip, made, types, newest, drag, destroyed>>

(* receive_offer_done(), receive_dnd_done() *)
Done ==
    \E t \in transfers :
        /\ transfers' = transfers \ {t}
        /\ pasting' = pasting \ {t.term}
        /\ destroyed' = Destroyed(t.ends)
        /\ UNCHANGED <<clip, made, types, newest, drag>>

OffersNext ==
    \/ DataOffer \/ Offer \/ Selection \/ SelectionNone \/ Enter \/ Leave
    \/ Drop \/ Paste \/ Done

OffersSpec == OffersInit /\ [][OffersNext]_offersVars

-----------------------------------------------------------------------------
(* The type to be asked for: a list of URIs, or else the first that says   *)
(* it is UTF-8, or else the first.                                         *)
Best(mime, offered) ==
    LET has(S) == \E i \in DOMAIN offered : offered[i] \in S
        first(S) == \E i \in DOMAIN offered :
                       /\ mime = offered[i] /\ mime \in S
                       /\ \A j \in 1 .. i - 1 : offered[j] \notin S
    IN  \/ first({"uris"})
        \/ ~has({"uris"}) /\ first(Utf8Text)
        \/ ~has({"uris"} \cup Utf8Text) /\ first(PlainText)
        \/ offered = <<>> /\ mime = "unset"

Held == {clip.offer} \cup {t.ends : t \in transfers}

(* Every offer has one owner, is destroyed once and not before its         *)
(* transfer is done, and is not used after that; what is asked of it is    *)
(* the best it has, not what an offer before it had; and an accepted drag  *)
(* has the terminal it is over (selection.c:2620, 2705, 2847).             *)
OffersOwned ==
    /\ IF clip.offer = NoOffer THEN clip.mime = "unset" ELSE Best(clip.mime, types)
    /\ \A o \in DOMAIN destroyed : destroyed[o] = IF o \in 1 .. made /\ o \notin Held THEN 1 ELSE 0
    /\ \A t \in transfers :
        /\ Best(t.mime, t.of)
        /\ t.ends # NoOffer => t.ends # clip.offer
        /\ \A u \in transfers : t.ends = u.ends /\ t.ends # NoOffer => t = u
    /\ drag.accepted /\ clip.window # NoWindow =>
            clip.window = drag.window /\ clip.offer = drag.offer

=============================================================================
