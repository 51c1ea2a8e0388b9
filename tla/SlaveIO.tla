------------------------------ MODULE SlaveIO ------------------------------
(***************************************************************************)
(* Data from the terminal to the client application ("the slave").         *)
(*                                                                         *)
(* Everything the terminal tells the application (key presses, replies to  *)
(* queries, pasted text) goes through the PTY's master end, "ptmx".  A     *)
(* write is first tried synchronously; what the PTY does not take is       *)
(* queued, and the event loop writes it when ptmx becomes writable         *)
(* (EPOLLOUT).  There are two queues: ptmx_buffers for ordinary events and *)
(* ptmx_paste_buffers for the text of a paste, which arrives piecemeal     *)
(* from another Wayland client while is_sending_paste_data is set.         *)
(*                                                                         *)
(* The program keeps each queue as a list of buffers, each with the index  *)
(* of its first unwritten byte.  A queued buffer always has an unwritten   *)
(* byte, so a list is empty exactly when it holds no byte, and this module *)
(* keeps the sequence of unwritten bytes.  A byte is a record: "from" is   *)
(* the event or the paste it belongs to and "n" its place there.           *)
(***************************************************************************)
EXTENDS Integers, Sequences, FiniteSets

CONSTANTS
    Events,         \* ordinary events (a key press, a query's reply)
    Pastes,         \* pastes from the clipboard, the primary or OSC-52
    Drops,          \* drag-and-drop transfers
    EventLen,       \* bytes in one ordinary event
    MaxChunks       \* bound: chunks of data one paste delivers

ASSUME SlaveIOAssumption ==
    /\ EventLen \in Nat \ {0}
    /\ MaxChunks \in Nat
    /\ Events \cap (Pastes \cup Drops) = {}
    /\ Pastes \cap Drops = {}

VARIABLES
    ptmx,           \* "open", or "closed" once the PTY hung up (ptmx = -1)
    norm,           \* unwritten bytes of ptmx_buffers
    paste,          \* unwritten bytes of ptmx_paste_buffers
    sending,        \* is_sending_paste_data
    epollout,       \* EPOLLOUT is in the events registered for ptmx
    receiving,      \* transfers in progress: transfer -> chunks received
    over,           \* transfers and events that have begun, or ended
    dndTarget,      \* drags whose enter() accepted the offer, not yet dropped
    wire,           \* every byte the PTY took, in order
    accepted        \* history: bytes of the ordinary events, in order

vars == <<ptmx, norm, paste, sending, epollout, receiving, over, dndTarget,
          wire, accepted>>

Transfers == Pastes \cup Drops
Byte == [from : Events \cup Transfers, n : Nat]

EventBytes(e) == [i \in 1 .. EventLen |-> [from |-> e, n |-> i]]
Chunk(t, n)   == << [from |-> t, n |-> n] >>

\* What a transfer's "done" callback sends: the closing marker of bracketed
\* paste, or the terminator of an OSC-52 reply.  The application may turn
\* bracketed paste on and off at any time, also between the two markers, so
\* whether a marker is sent is a free choice.
Opening(t) == { <<>>, Chunk(t, 0) }
Closing(t) == { <<>>, Chunk(t, MaxChunks + 1) }

-----------------------------------------------------------------------------
Init ==
    /\ ptmx = "open"
    /\ norm = <<>>
    /\ paste = <<>>
    /\ sending = FALSE
    /\ epollout = FALSE
    /\ receiving = [t \in {} |-> 0]
    /\ over = {}
    /\ dndTarget = {}
    /\ wire = <<>>
    /\ accepted = <<>>

(***************************************************************************)
(* data_to_slave(): async_write() repeats write() until everything is      *)
(* taken, the PTY is full (EAGAIN) or there is an error.  The PTY takes    *)
(* the first k bytes; the rest is queued, or dropped if it was an error.   *)
(***************************************************************************)
Writes(data) ==
    {w \in [k : 0 .. Len(data), err : BOOLEAN] : w.err => w.k < Len(data)}

Written(data, w) == SubSeq(data, 1, w.k)
Rest(data, k)    == SubSeq(data, k + 1, Len(data))
Queued(data, w)  == IF w.err THEN <<>> ELSE Rest(data, w.k)

\* term_paste_data_to_slave(), called with "on" as the registered EPOLLOUT:
\* only its own queue keeps it from writing.
PasteDataToSlave(data, on) ==
    IF ptmx = "closed"
    THEN /\ epollout' = on
         /\ UNCHANGED <<paste, wire>>
    ELSE IF paste # <<>>
    THEN /\ paste' = paste \o data
         /\ epollout' = on
         /\ UNCHANGED wire
    ELSE \E w \in Writes(data) :
            /\ wire' = wire \o Written(data, w)
            /\ paste' = Queued(data, w)
            /\ epollout' = (on \/ Queued(data, w) # <<>>)

\* term_to_slave() queues behind anything already queued, and while a paste is
\* being sent.  Faulty variants: it looks at the paste queue only; it forgets
\* that a paste with an empty queue is not over.
MustQueueIfPaste == sending \/ paste # <<>>
MustQueueIfQueued == norm # <<>> \/ paste # <<>>
MustQueue == norm # <<>> \/ sending \/ paste # <<>>

TermToSlave(e) ==
    /\ e \notin over
    /\ over' = over \cup {e}
    /\ \/ /\ ptmx = "closed"
          /\ UNCHANGED <<norm, epollout, wire, accepted>>
       \/ /\ ptmx = "open" /\ MustQueue
          /\ norm' = norm \o EventBytes(e)
          /\ accepted' = accepted \o EventBytes(e)
          /\ UNCHANGED <<epollout, wire>>
       \/ /\ ptmx = "open" /\ ~MustQueue
          /\ \E w \in Writes(EventBytes(e)) :
                /\ wire' = wire \o Written(EventBytes(e), w)
                /\ norm' = norm \o Queued(EventBytes(e), w)
                /\ accepted' = accepted \o Written(EventBytes(e), w)
                                        \o Queued(EventBytes(e), w)
                /\ epollout' = (epollout \/ Queued(EventBytes(e), w) # <<>>)
    /\ UNCHANGED <<ptmx, paste, sending, receiving, dndTarget>>

-----------------------------------------------------------------------------
\* begin_receive_clipboard() registers the pipe the other client writes to.
Begin(t) == receiving' = [x \in DOMAIN receiving \cup {t} |->
                             IF x = t THEN 0 ELSE receiving[x]]

\* selection_from_clipboard(), selection_from_primary() and
\* osc_from_clipboard() do nothing (or reply as an ordinary event) when a paste
\* is already being sent.  Faulty variant: they do not look.
MayBeginAlways == TRUE
MayBegin == ~sending

PasteBegin(t) ==
    /\ t \notin over
    /\ MayBegin
    /\ sending' = TRUE
    /\ over' = over \cup {t}
    /\ \E data \in Opening(t) : PasteDataToSlave(data, epollout)
    /\ Begin(t)
    /\ UNCHANGED <<ptmx, norm, dndTarget, accepted>>

\* enter(): a drag is accepted if the terminal is not sending a paste.
DndEnter(t) ==
    /\ t \notin over \cup dndTarget
    /\ ~sending
    /\ dndTarget' = dndTarget \cup {t}
    /\ UNCHANGED <<ptmx, norm, paste, sending, epollout, receiving, over,
                   wire, accepted>>

\* leave(): the drag left the window.
DndLeave(t) ==
    /\ t \in dndTarget
    /\ dndTarget' = dndTarget \ {t}
    /\ UNCHANGED <<ptmx, norm, paste, sending, epollout, receiving, over,
                   wire, accepted>>

\* drop(): the transfer starts, whatever happened since enter().
DndDrop(t) ==
    /\ t \in dndTarget
    /\ dndTarget' = dndTarget \ {t}
    /\ over' = over \cup {t}
    /\ sending' = TRUE
    /\ \E data \in Opening(t) : PasteDataToSlave(data, epollout)
    /\ Begin(t)
    /\ UNCHANGED <<ptmx, norm, accepted>>

\* fdm_receive(): data arrived; receive_offer() passes it on.
PasteData(t) ==
    /\ t \in DOMAIN receiving
    /\ receiving[t] < MaxChunks
    /\ receiving' = [receiving EXCEPT ![t] = @ + 1]
    /\ PasteDataToSlave(Chunk(t, receiving[t] + 1), epollout)
    /\ UNCHANGED <<ptmx, norm, sending, over, dndTarget, accepted>>

\* Once the paste is over the event loop is asked to write the ordinary data
\* queued meanwhile.  Faulty variant: it is not.
RearmNever == FALSE
Rearm == ptmx = "open" /\ norm # <<>>

\* clipboard_receive_done(), after end of file, a read error or the two-second
\* timeout, or because the transfer could not be set up.
PasteDone(t) ==
    /\ t \in DOMAIN receiving
    /\ receiving' = [x \in DOMAIN receiving \ {t} |-> receiving[x]]
    /\ \E data \in Closing(t) : PasteDataToSlave(data, epollout \/ Rearm)
    /\ sending' = FALSE
    /\ UNCHANGED <<ptmx, norm, over, dndTarget, accepted>>

-----------------------------------------------------------------------------
(***************************************************************************)
(* fdm_ptmx_out(): ptmx is writable.  Paste data first; ordinary data only *)
(* when no paste is in progress; if everything that may be written was     *)
(* written, EPOLLOUT is disabled.                                          *)
(***************************************************************************)
\* The PTY filled up while the paste data was being written.
PtmxOutPaste ==
    \E k \in 1 .. Len(paste) - 1 :
        /\ wire' = wire \o SubSeq(paste, 1, k)
        /\ paste' = Rest(paste, k)
        /\ UNCHANGED <<norm, epollout>>

\* All paste data is written, and ordinary data may not be: EPOLLOUT is
\* disabled all the same.
PtmxOutHold ==
    /\ sending
    /\ wire' = wire \o paste
    /\ paste' = <<>>
    /\ epollout' = FALSE
    /\ UNCHANGED norm

\* All paste data is written, then some or all of the ordinary data.  EPOLLOUT
\* stays enabled while data is left.  Faulty variant: it always stays enabled.
StayArmedAlways(n) == TRUE
StayArmed(n) == n # <<>>

PtmxOutNorm ==
    /\ ~sending
    /\ \E k \in 0 .. Len(norm) :
        /\ k > 0 \/ paste # <<>>
        /\ wire' = wire \o paste \o SubSeq(norm, 1, k)
        /\ paste' = <<>>
        /\ norm' = Rest(norm, k)
        /\ epollout' = StayArmed(Rest(norm, k))

PtmxOut ==
    /\ ptmx = "open"
    /\ epollout
    /\ PtmxOutPaste \/ PtmxOutHold \/ PtmxOutNorm
    /\ UNCHANGED <<ptmx, sending, receiving, over, dndTarget, accepted>>

\* fdm_ptmx() with EPOLLHUP: fdm_del() unregisters and closes ptmx.  The queues
\* are kept until the terminal is destroyed; nothing is queued any more.
\* Faulty variant: the descriptor stays registered.
PtmxHupKeep ==
    /\ ptmx = "open"
    /\ ptmx' = "closed"
    /\ UNCHANGED <<norm, paste, sending, epollout, receiving, over, dndTarget,
                   wire, accepted>>
PtmxHup ==
    /\ ptmx = "open"
    /\ ptmx' = "closed"
    /\ epollout' = FALSE
    /\ UNCHANGED <<norm, paste, sending, receiving, over, dndTarget, wire,
                   accepted>>

-----------------------------------------------------------------------------
Next ==
    \/ \E e \in Events : TermToSlave(e)
    \/ \E t \in Pastes : PasteBegin(t)
    \/ \E t \in Drops : DndEnter(t) \/ DndLeave(t) \/ DndDrop(t)
    \/ \E t \in Transfers : PasteData(t) \/ PasteDone(t)
    \/ PtmxOut
    \/ PtmxHup

Spec == Init /\ [][Next]_vars

\* A write error in fdm_ptmx_out() makes fdm_poll() fail, which ends the
\* program: the behaviours simply stop there, which Spec allows.
\*
\* Fairness: the application keeps reading its end of the PTY, so the event
\* loop sees a writable ptmx again and again; and a transfer ends, because its
\* source closes the pipe or, two seconds after its last data, the timer fires.
Fairness ==
    /\ WF_vars(PtmxOut)
    /\ \A t \in Transfers : WF_vars(PasteDone(t))

FairSpec == Spec /\ Fairness

-----------------------------------------------------------------------------
(* Properties *)

\* Type correctness, and: a ptmx that is closed is no longer registered with
\* the event loop (fdm_del() in fdm_ptmx()).
TypeOK ==
    /\ ptmx \in {"open", "closed"}
    /\ norm \in Seq(Byte)
    /\ paste \in Seq(Byte)
    /\ sending \in BOOLEAN
    /\ epollout \in BOOLEAN
    /\ DOMAIN receiving \subseteq Transfers
    /\ \A t \in DOMAIN receiving : receiving[t] \in 0 .. MaxChunks
    /\ over \subseteq Events \cup Transfers
    /\ dndTarget \subseteq Drops
    /\ wire \in Seq(Byte)
    /\ accepted \in Seq(Byte)
    /\ ptmx = "closed" => ~epollout

\* No data is stranded: as long as ptmx is open, queued data that may be
\* written has the event loop waiting for a writable ptmx.  Ordinary data
\* queued during a paste is the exception, until the paste's "done" callback
\* asks for it (receive_offer_done(), from_clipboard_done()).
NothingStranded ==
    ptmx = "open" /\ (paste # <<>> \/ (norm # <<>> /\ ~sending)) => epollout

\* The assertion that opens fdm_ptmx_out(): the event loop never calls it with
\* both queues empty (it would be called again at once, for ever).
NeverIdle == epollout => norm # <<>> \/ paste # <<>>

\* A drag was dropped.  From then on two transfers may overlap: drop() does not
\* repeat the check of enter().
Dropped == Drops \cap over # {}

\* The assertion in receive_offer(): while a transfer is delivering data,
\* is_sending_paste_data is set.
ReceiveWhileSending == Dropped \/ (DOMAIN receiving # {} => sending)

\* The queues agree with what the event loop was asked for, after any order of
\* events, pastes, drags and partial writes.
QueuesServed == TypeOK /\ NothingStranded /\ NeverIdle /\ ReceiveWhileSending

\* How many bytes of ordinary events are among the first i on the wire.
EventBytesUpTo(i) == Cardinality({j \in 1 .. i : wire[j].from \in Events})

\* Ordinary events reach the application in the order they were sent, each
\* byte once, whatever was queued, held back by a paste or written directly:
\* the bytes the PTY took of them are the first ones accepted, in order, and
\* the bytes queued are the others, in order.
EventsInOrder ==
    LET taken == EventBytesUpTo(Len(wire))
    IN  /\ Len(accepted) = taken + Len(norm)
        /\ \A i \in 1 .. Len(wire) :
              wire[i].from \in Events => wire[i] = accepted[EventBytesUpTo(i)]
        /\ \A i \in 1 .. Len(norm) : norm[i] = accepted[taken + i]

\* All the bytes of t that were written lie next to each other on the wire.
Unmixed(t) ==
    \A i, j \in 1 .. Len(wire) :
        i < j /\ wire[i].from = t /\ wire[j].from = t
        => \A k \in i .. j : wire[k].from = t

\* "If we're currently sending paste data to the client, do not mix that
\* stream with other events" (term_to_slave()): no ordinary event and no other
\* paste appears inside a paste.
PasteUnmixed == Dropped \/ \A t \in Pastes : Unmixed(t)

\* What is on the wire: events in order, pastes in one piece.
WireInOrder == EventsInOrder /\ PasteUnmixed

\* Nor does a paste appear inside an ordinary event, an escape sequence say.
\* Does NOT hold: term_paste_data_to_slave() does not look at ptmx_buffers.
EventUnmixed == \A e \in Events : Unmixed(e)

\* Everything queued is eventually written, or the PTY is closed.
Drained ==
    (norm # <<>> \/ paste # <<>>)
        ~> (ptmx = "closed" \/ (norm = <<>> /\ paste = <<>>))
=============================================================================
