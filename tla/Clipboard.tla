------------------------------ MODULE Clipboard ------------------------------
(***************************************************************************)
(* What a seat offers to other clients: its clipboard and its primary      *)
(* selection (selection.c).  Each has at most one data source, with the    *)
(* text it stands for.  The compositor's events about a source, and the    *)
(* requests that replace it, cross on the wire; and a transfer that does   *)
(* not fit into the pipe goes on after the source has gone.                *)
(***************************************************************************)
EXTENDS Integers, FiniteSets, Sequences

CONSTANTS
    MaxSources, \* bound: sources that are created
    Length,     \* bound: pieces of a text that the pipe takes one at a time
    MaxSends    \* bound: transfers

ASSUME ClipboardAssumption == Length \in Nat \ {0}

VARIABLES
    own,        \* seat->clipboard and seat->primary: source, text, serial set?
    texts,      \* history: what the sources stand for
    owner,      \* the compositor's: the source it has for each selection
    wire,       \* events on their way to us
    sends       \* transfers: history of what came out, and struct clipboard_send

clipboardVars == <<own, texts, owner, wire, sends>>

Kinds == {"clipboard", "primary"}
Nothing == 0
Other == -1         \* another client's source

NotOwned == [source |-> Nothing, text |-> Nothing, serial |-> FALSE]

ClipboardInit ==
    /\ own = [k \in Kinds |-> NotOwned]
    /\ texts = <<>>
    /\ owner = [k \in Kinds |-> Other]
    /\ wire = <<>>
    /\ sends = <<>>

-----------------------------------------------------------------------------
(* The text of source s is s: no two copies are of the same text. *)
Created == Len(texts) + 1

(* wl_data_source_destroy(), of a source that is the compositor's: it has   *)
(* no owner then.  Requests are not delayed; it is the events that are.    *)
WithoutOurs(k) == IF owner[k] = own[k].source THEN Nothing ELSE owner[k]

(* What set_selection() makes the owner: the compositor may refuse a stale *)
(* serial; the source whose place is taken is told.                        *)
SetSelection(k, s, accepted) ==
    /\ owner' = [owner EXCEPT ![k] = IF accepted THEN s ELSE WithoutOurs(k)]
    /\ UNCHANGED wire

(* text_to_clipboard(), text_to_primary(): the source that is there is     *)
(* killed, then there may be no other.                                     *)
TextTo(k) ==
    /\ Created <= MaxSources
    /\ \/ /\ texts' = Append(texts, k)
          /\ own' = [own EXCEPT ![k] = [source |-> Created, text |-> Created,
                                        serial |-> TRUE]]
          /\ \E accepted \in BOOLEAN : SetSelection(k, Created, accepted)
       \/ /\ own' = [own EXCEPT ![k] = NotOwned]
          /\ owner' = [owner EXCEPT ![k] = WithoutOurs(k)]
          /\ UNCHANGED <<texts, wire>>
    /\ UNCHANGED sends

TextToClipboard == TextTo("clipboard")

TextToPrimary == TextTo("primary")

(* selection_clipboard_unset(), selection_primary_unset(). *)
Unset(k) ==
    /\ own[k].source # Nothing
    /\ owner' = [owner EXCEPT ![k] = WithoutOurs(k)]
    /\ own' = [own EXCEPT ![k] = NotOwned]
    /\ UNCHANGED <<texts, wire, sends>>

ClipboardUnset == Unset("clipboard")

PrimaryUnset == Unset("primary")

-----------------------------------------------------------------------------
(* Another client takes the selection, or asks for it. *)
Taken ==
    \E k \in Kinds :
        /\ owner[k] > Nothing
        /\ owner' = [owner EXCEPT ![k] = Other]
        /\ wire' = Append(wire, [event |-> "cancelled", kind |-> k, source |-> owner[k]])
        /\ UNCHANGED <<own, texts, sends>>

Asked ==
    \E k \in Kinds :
        /\ owner[k] > Nothing
        /\ Len(sends) + Cardinality({i \in DOMAIN wire : wire[i].event = "send"}) < MaxSends
        /\ wire' = Append(wire, [event |-> "send", kind |-> k, source |-> owner[k]])
        /\ UNCHANGED <<own, texts, owner, sends>>

(* libwayland drops an event for a proxy that was destroyed. *)
Arrives(event) ==
    /\ wire # <<>>
    /\ Head(wire).event = event
    /\ wire' = Tail(wire)

ForUs == own[Head(wire).kind].source = Head(wire).source

Dropped ==
    /\ wire # <<>>
    /\ ~ForUs
    /\ wire' = Tail(wire)
    /\ UNCHANGED <<own, texts, owner, sends>>

Cancelled ==
    /\ Arrives("cancelled")
    /\ ForUs
    /\ own' = [own EXCEPT ![Head(wire).kind] = NotOwned]
    /\ UNCHANGED <<texts, owner, sends>>

(* send(), primary_send(): as much as fits is written; the rest is copied. *)
Send ==
    /\ Arrives("send")
    /\ ForUs
    /\ \E fits \in 0 .. Length, failed \in BOOLEAN :
        LET text == own[Head(wire).kind].text
        IN  sends' = Append(sends,
                [source |-> Head(wire).source,
                 kind |-> Head(wire).kind,
                 out |-> [i \in 1 .. fits |-> text],
                 data |-> IF failed \/ fits = Length THEN Nothing ELSE text,
                 done |-> failed \/ fits = Length])
    /\ UNCHANGED <<own, texts, owner>>

(* Faulty variant: what is left to be sent is not copied. *)
NotCopied(t) == own[t.kind].text

Rest(t) == t.data

(* fdm_send(): the pipe takes more, or its reader has gone. *)
FdmSend ==
    \E i \in DOMAIN sends :
        /\ ~sends[i].done
        /\ \E n \in 0 .. Length - Len(sends[i].out), failed \in BOOLEAN :
            LET out == sends[i].out \o [j \in 1 .. n |-> Rest(sends[i])]
                done == failed \/ Len(out) = Length
            IN  /\ n > 0 \/ failed
                /\ sends' = [sends EXCEPT ![i] = [sends[i] EXCEPT
                                !.out = out, !.done = done,
                                !.data = IF done THEN Nothing ELSE sends[i].data]]
        /\ UNCHANGED <<own, texts, owner, wire>>

ClipboardNext ==
    \/ TextToClipboard \/ TextToPrimary \/ ClipboardUnset \/ PrimaryUnset
    \/ Taken \/ Asked \/ Dropped \/ Cancelled \/ Send \/ FdmSend

ClipboardSpec == ClipboardInit /\ [][ClipboardNext]_clipboardVars

-----------------------------------------------------------------------------
CancelSent(k) ==
    \E i \in DOMAIN wire : wire[i].event = "cancelled" /\ wire[i].source = own[k].source

(* Who asks for what we copied gets the text that was copied when he       *)
(* asked, all of it and nothing else, whatever was copied, unset or taken  *)
(* by others since; a source, its text and its serial come and go          *)
(* together; and a selection the compositor says is ours is ours           *)
(* (selection.c:1864, 1874, 1833).                                         *)
CopiesSent ==
    /\ \A i \in DOMAIN sends :
        /\ \A j \in DOMAIN sends[i].out : sends[i].out[j] = sends[i].source
        /\ Len(sends[i].out) < Length => sends[i].done \/ sends[i].data = sends[i].source
    /\ \A k \in Kinds :
        /\ own[k].serial <=> own[k].source # Nothing
        /\ own[k].text = own[k].source
        /\ owner[k] > Nothing => owner[k] = own[k].source /\ ~CancelSent(k)
=============================================================================
