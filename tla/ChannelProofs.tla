--------------------------- MODULE ChannelProofs ----------------------------
(***************************************************************************)
(* Proofs about what goes to the application and what comes from it.       *)
(*                                                                         *)
(* 1. SlaveIO, for every number of events, pastes and drags.               *)
(* NothingStranded is not inductive alone: that PtmxOut leaves EPOLLOUT    *)
(* disabled only with nothing left to write needs the types of the queues, *)
(* and TypeOK holds that EPOLLOUT is off once ptmx is closed.  The three   *)
(* invariants are proved together.                                         *)
(* The second half is about the bytes on the wire.  Its invariant adds     *)
(* that each queue holds bytes of its own kind only, that what was taken   *)
(* and what is queued of the events are together what was accepted, and    *)
(* that wire and paste queue together hold each paste in one piece.        *)
(*                                                                         *)
(* 2. Parser, for any bytes, any lengths of the arrays, and any lengths of *)
(* sequences.  What is kept is said of the record of the parser's          *)
(* variables (Good): each action of vt.c takes a good record to a good     *)
(* one, and keeps the handlers but where it hooks or unhooks them.  So a   *)
(* step that leaves dcs_passthrough, or does not enter it, has no handlers *)
(* left.                                                                   *)
(*                                                                         *)
(* 3. Receive, for any data cut anywhere.  FlattenSeq and the loop of Uris *)
(* are recursive functions: FlattenIs and UrisReads say what they compute, *)
(* SequenceInduction what holds of every sequence.  The heart is that to   *)
(* read on from what a part left is to read the whole (UrisConcat,         *)
(* GroupsConcat), and that a "\r\n" is one end of a URI even where a cut   *)
(* takes it apart (FilteredUris).  AnyCut is inductive with HeldIsLeft:    *)
(* what the consumer keeps is what the data so far ends in.                *)
(***************************************************************************)
EXTENDS SlaveIO, Parser, Receive, NumberLemmas, SequenceTheorems, FiniteSetTheorems, TLAPS

-----------------------------------------------------------------------------
(* 1. The channel.                                                         *)

\* The rest of a queue after its first k bytes is a queue; it is empty exactly
\* when all was taken.
LEMMA RestIsQueue ==
    ASSUME NEW S, NEW q \in Seq(S), NEW k \in 0 .. Len(q)
    PROVE  /\ Rest(q, k) \in Seq(S)
           /\ Len(Rest(q, k)) = Len(q) - k
           /\ SubSeq(q, 1, k) \in Seq(S)
<1>1. Len(q) \in Nat /\ k \in Nat /\ k <= Len(q)
  OBVIOUS
<1>2. \A i \in 1 .. k : q[i] \in S
  BY <1>1
<1>3. \A i \in k + 1 .. Len(q) : q[i] \in S
  BY <1>1
<1>4. SubSeq(q, 1, k) \in Seq(S)
  BY <1>1, <1>2, SubSeqProperties
<1>5. /\ SubSeq(q, k + 1, Len(q)) \in Seq(S)
      /\ Len(SubSeq(q, k + 1, Len(q))) = Len(q) - k
  BY <1>1, <1>3, SubSeqProperties
<1>. QED  BY <1>4, <1>5 DEF Rest

\* A queue of length zero is the empty queue.
LEMMA LenZero ==
    ASSUME NEW S, NEW q \in Seq(S)
    PROVE  Len(q) = 0 <=> q = <<>>
BY EmptySeq

\* What a synchronous write puts on the wire and what it leaves to be queued.
LEMMA WriteResult ==
    ASSUME NEW data \in Seq(Byte), NEW w \in Writes(data)
    PROVE  /\ Written(data, w) \in Seq(Byte)
           /\ Queued(data, w) \in Seq(Byte)
           /\ w.err => Queued(data, w) = <<>>
<1>1. w.k \in 0 .. Len(data) /\ w.err \in BOOLEAN
  BY DEF Writes
<1>. QED  BY <1>1, RestIsQueue DEF Written, Queued

\* What the transfers' callbacks send is made of bytes.
LEMMA DataIsBytes ==
    ASSUME NEW t \in Transfers
    PROVE  /\ \A n \in Nat : Chunk(t, n) \in Seq(Byte)
           /\ Opening(t) \subseteq Seq(Byte)
           /\ Closing(t) \subseteq Seq(Byte)
<1>1. \A n \in Nat : Chunk(t, n) \in Seq(Byte)
  BY DEF Chunk, Byte
<1>2. MaxChunks + 1 \in Nat
  BY SlaveIOAssumption
<1>. QED  BY <1>1, <1>2 DEF Opening, Closing

\* An ordinary event is made of bytes.
LEMMA EventIsBytes ==
    ASSUME NEW e \in Events
    PROVE  EventBytes(e) \in Seq(Byte)
BY SlaveIOAssumption DEF EventBytes, Byte

\* term_paste_data_to_slave() keeps the paste queue armed and registered.
LEMMA PasteDataStep ==
    ASSUME TypeOK, NEW data \in Seq(Byte), NEW on \in BOOLEAN,
           PasteDataToSlave(data, on)
    PROVE  /\ paste' \in Seq(Byte)
           /\ wire' \in Seq(Byte)
           /\ epollout' \in BOOLEAN
           /\ on => epollout'
           /\ epollout' => on \/ paste' # <<>>
           /\ ptmx = "closed" => epollout' = on
           /\ ptmx = "open" /\ paste' # <<>> => epollout' \/ paste # <<>>
           /\ paste # <<>> => paste' # <<>>
<1>1. CASE ptmx = "closed"
  BY <1>1 DEF PasteDataToSlave, TypeOK
<1>2. CASE ptmx # "closed" /\ paste # <<>>
  <2>1. paste' = paste \o data /\ epollout' = on /\ wire' = wire
    BY <1>2 DEF PasteDataToSlave
  <2>2. paste \o data \in Seq(Byte) /\ Len(paste \o data) = Len(paste) + Len(data)
    BY DEF TypeOK
  <2>3. paste \o data # <<>>
    BY <1>2, <2>2, LenZero DEF TypeOK
  <2>. QED  BY <1>2, <2>1, <2>2, <2>3 DEF TypeOK
<1>3. CASE ptmx # "closed" /\ paste = <<>>
  <2>1. PICK w \in Writes(data) :
          /\ wire' = wire \o Written(data, w)
          /\ paste' = Queued(data, w)
          /\ epollout' = (on \/ Queued(data, w) # <<>>)
    BY <1>3 DEF PasteDataToSlave
  <2>2. Written(data, w) \in Seq(Byte) /\ Queued(data, w) \in Seq(Byte)
    BY WriteResult
  <2>3. paste' \in Seq(Byte) /\ wire' \in Seq(Byte)
    BY <2>1, <2>2 DEF TypeOK
  <2>4. epollout' = (on \/ paste' # <<>>)
    BY <2>1
  <2>. QED  BY <1>3, <2>3, <2>4
<1>. QED  BY <1>1, <1>2, <1>3

-----------------------------------------------------------------------------
\* The inductive invariant.
Inv == TypeOK /\ NothingStranded /\ NeverIdle

\* The invariant holds initially.
LEMMA InitInv == Init => Inv
<1>1. <<>> \in Seq(Byte)
  OBVIOUS
<1>2. Init => TypeOK
  BY <1>1 DEF Init, TypeOK
<1>. QED  BY <1>2 DEF Init, Inv, NothingStranded, NeverIdle


\* term_to_slave() keeps the invariant, whether it writes or queues.
LEMMA TermToSlaveInv ==
    ASSUME Inv, NEW e \in Events, TermToSlave(e)
    PROVE  Inv'
<1>. USE DEF Inv
<1>0. /\ over' \subseteq Events \cup Transfers
      /\ UNCHANGED <<ptmx, paste, sending, receiving, dndTarget>>
  BY DEF TermToSlave, TypeOK
<1>1. CASE ptmx = "closed" /\ UNCHANGED <<norm, epollout, wire, accepted>>
  BY <1>0, <1>1 DEF TypeOK, NothingStranded, NeverIdle
<1>2. CASE /\ ptmx = "open" /\ MustQueue
           /\ norm' = norm \o EventBytes(e)
           /\ accepted' = accepted \o EventBytes(e)
           /\ UNCHANGED <<epollout, wire>>
  <2>1. /\ norm' \in Seq(Byte) /\ accepted' \in Seq(Byte)
        /\ Len(norm') = Len(norm) + Len(EventBytes(e))
    BY <1>2, EventIsBytes DEF TypeOK
  <2>2. TypeOK'
    BY <1>0, <1>2, <2>1 DEF TypeOK
  <2>3. norm' = <<>> => norm = <<>>
    BY <2>1, LenZero, EventIsBytes DEF TypeOK
  <2>4. NothingStranded'
    BY <1>0, <1>2 DEF NothingStranded, MustQueue
  <2>5. NeverIdle'
    BY <1>0, <1>2, <2>3 DEF NeverIdle
  <2>. QED  BY <2>2, <2>4, <2>5
<1>3. CASE /\ ptmx = "open" /\ ~MustQueue
           /\ \E w \in Writes(EventBytes(e)) :
                 /\ wire' = wire \o Written(EventBytes(e), w)
                 /\ norm' = norm \o Queued(EventBytes(e), w)
                 /\ accepted' = accepted \o Written(EventBytes(e), w)
                                         \o Queued(EventBytes(e), w)
                 /\ epollout' = (epollout \/ Queued(EventBytes(e), w) # <<>>)
  <2>. PICK w \in Writes(EventBytes(e)) :
                 /\ wire' = wire \o Written(EventBytes(e), w)
                 /\ norm' = norm \o Queued(EventBytes(e), w)
                 /\ accepted' = accepted \o Written(EventBytes(e), w)
                                         \o Queued(EventBytes(e), w)
                 /\ epollout' = (epollout \/ Queued(EventBytes(e), w) # <<>>)
    BY <1>3
  <2>. DEFINE W == Written(EventBytes(e), w)
              Q == Queued(EventBytes(e), w)
  <2>1. W \in Seq(Byte) /\ Q \in Seq(Byte)
    BY EventIsBytes, WriteResult
  <2>2. norm = <<>>
    BY <1>3 DEF MustQueue
  <2>3. /\ wire' \in Seq(Byte) /\ norm' \in Seq(Byte) /\ accepted' \in Seq(Byte)
    BY <2>1 DEF TypeOK
  <2>4. norm' = Q
    BY <2>1, <2>2
  <2>5. epollout' = (epollout \/ norm' # <<>>)
    BY <2>4
  <2>6. epollout' \in BOOLEAN
    BY <2>5
  <2>7. TypeOK'
    BY <1>0, <1>3, <2>3, <2>6 DEF TypeOK
  <2>8. NothingStranded' /\ NeverIdle'
    BY <1>0, <2>2, <2>5 DEF NothingStranded, NeverIdle
  <2>. QED  BY <2>7, <2>8
<1>. QED  BY <1>1, <1>2, <1>3 DEF TermToSlave

\* PasteBegin and DndDrop do the same to the queues.
LEMMA OpeningInv ==
    ASSUME Inv, NEW t \in Transfers, NEW data \in Opening(t),
           PasteDataToSlave(data, epollout), Begin(t),
           sending' = TRUE, over' = over \cup {t},
           dndTarget' \subseteq dndTarget,
           UNCHANGED <<ptmx, norm, accepted>>
    PROVE  Inv'
<1>. USE DEF Inv
<1>1. data \in Seq(Byte)
  BY DataIsBytes
<1>2. epollout \in BOOLEAN
  BY DEF TypeOK
<1>3. /\ paste' \in Seq(Byte) /\ wire' \in Seq(Byte) /\ epollout' \in BOOLEAN
      /\ epollout => epollout'
      /\ epollout' => epollout \/ paste' # <<>>
      /\ ptmx = "closed" => epollout' = epollout
      /\ ptmx = "open" /\ paste' # <<>> => epollout' \/ paste # <<>>
      /\ paste # <<>> => paste' # <<>>
  BY <1>1, <1>2, PasteDataStep
<1>4. /\ DOMAIN receiving' \subseteq Transfers
      /\ \A x \in DOMAIN receiving' : receiving'[x] \in 0 .. MaxChunks
  BY SlaveIOAssumption DEF Begin, TypeOK
<1>5. TypeOK'
  BY <1>3, <1>4 DEF TypeOK
<1>6. NothingStranded' /\ NeverIdle'
  BY <1>3 DEF NothingStranded, NeverIdle
<1>. QED  BY <1>5, <1>6

\* So does fdm_receive().
LEMMA PasteDataInv ==
    ASSUME Inv, NEW t \in Transfers, PasteData(t)
    PROVE  Inv'
<1>. USE DEF Inv
<1>. DEFINE data == Chunk(t, receiving[t] + 1)
<1>1. data \in Seq(Byte)
  <2>1. receiving[t] + 1 \in Nat
    BY SlaveIOAssumption DEF PasteData, TypeOK
  <2>. QED  BY <2>1, DataIsBytes
<1>2. epollout \in BOOLEAN /\ PasteDataToSlave(data, epollout)
  BY DEF TypeOK, PasteData
<1>. HIDE DEF data
<1>3. /\ paste' \in Seq(Byte) /\ wire' \in Seq(Byte) /\ epollout' \in BOOLEAN
      /\ epollout => epollout'
      /\ epollout' => epollout \/ paste' # <<>>
      /\ ptmx = "closed" => epollout' = epollout
      /\ ptmx = "open" /\ paste' # <<>> => epollout' \/ paste # <<>>
      /\ paste # <<>> => paste' # <<>>
  BY <1>1, <1>2, PasteDataStep
<1>4. /\ DOMAIN receiving' \subseteq Transfers
      /\ \A x \in DOMAIN receiving' : receiving'[x] \in 0 .. MaxChunks
  BY SlaveIOAssumption DEF PasteData, TypeOK
<1>5. TypeOK'
  BY <1>3, <1>4 DEF TypeOK, PasteData
<1>6. NothingStranded' /\ NeverIdle'
  BY <1>3 DEF NothingStranded, NeverIdle, PasteData
<1>. QED  BY <1>5, <1>6

\* So does the end of a transfer, which lets ordinary data be written again.
LEMMA PasteDoneInv ==
    ASSUME Inv, NEW t \in Transfers, PasteDone(t)
    PROVE  Inv'
<1>. USE DEF Inv
<1>1. PICK data \in Closing(t) : PasteDataToSlave(data, epollout \/ Rearm)
  BY DEF PasteDone
<1>2. data \in Seq(Byte)
  BY DataIsBytes
<1>3. (epollout \/ Rearm) \in BOOLEAN
  OBVIOUS
<1>4. /\ paste' \in Seq(Byte) /\ wire' \in Seq(Byte) /\ epollout' \in BOOLEAN
      /\ epollout \/ Rearm => epollout'
      /\ epollout' => epollout \/ Rearm \/ paste' # <<>>
      /\ ptmx = "closed" => epollout' = (epollout \/ Rearm)
      /\ ptmx = "open" /\ paste' # <<>> => epollout' \/ paste # <<>>
      /\ paste # <<>> => paste' # <<>>
  BY <1>1, <1>2, <1>3, PasteDataStep
<1>5. ptmx = "closed" => ~epollout'
  BY <1>4 DEF TypeOK, Rearm
<1>6. /\ DOMAIN receiving' \subseteq Transfers
      /\ \A x \in DOMAIN receiving' : receiving'[x] \in 0 .. MaxChunks
  BY DEF PasteDone, TypeOK
<1>7. TypeOK'
  BY <1>4, <1>5, <1>6 DEF TypeOK, PasteDone
<1>8. NothingStranded' /\ NeverIdle'
  BY <1>4 DEF NothingStranded, NeverIdle, PasteDone, Rearm
<1>. QED  BY <1>7, <1>8

\* So does fdm_ptmx_out(), which may stop half way through either queue.
LEMMA PtmxOutInv == ASSUME Inv, PtmxOut PROVE Inv'
<1>. USE DEF Inv
<1>0. /\ ptmx = "open" /\ epollout
      /\ UNCHANGED <<ptmx, sending, receiving, over, dndTarget, accepted>>
  BY DEF PtmxOut
<1>1. CASE PtmxOutPaste
  <2>1. PICK k \in 1 .. Len(paste) - 1 :
          /\ wire' = wire \o SubSeq(paste, 1, k)
          /\ paste' = Rest(paste, k)
          /\ UNCHANGED <<norm, epollout>>
    BY <1>1 DEF PtmxOutPaste
  <2>2. k \in 0 .. Len(paste) /\ k < Len(paste)
    BY DEF TypeOK
  <2>3. /\ paste' \in Seq(Byte) /\ SubSeq(paste, 1, k) \in Seq(Byte)
        /\ Len(paste') = Len(paste) - k
    BY <2>1, <2>2, RestIsQueue DEF TypeOK
  <2>4. wire' \in Seq(Byte)
    BY <2>1, <2>3 DEF TypeOK
  <2>5. paste' # <<>>
    BY <2>2, <2>3, LenZero DEF TypeOK
  <2>6. TypeOK'
    BY <1>0, <2>1, <2>3, <2>4 DEF TypeOK
  <2>. QED  BY <1>0, <2>1, <2>5, <2>6 DEF NothingStranded, NeverIdle
<1>2. CASE PtmxOutHold
  <2>1. /\ wire' = wire \o paste /\ paste' = <<>> /\ epollout' = FALSE
        /\ sending /\ UNCHANGED norm
    BY <1>2 DEF PtmxOutHold
  <2>2. wire' \in Seq(Byte) /\ paste' \in Seq(Byte)
    BY <2>1 DEF TypeOK
  <2>3. TypeOK'
    BY <1>0, <2>1, <2>2 DEF TypeOK
  <2>4. NothingStranded' /\ NeverIdle'
    BY <1>0, <2>1 DEF NothingStranded, NeverIdle
  <2>. QED  BY <2>3, <2>4
<1>3. CASE PtmxOutNorm
  <2>1. PICK k \in 0 .. Len(norm) :
          /\ wire' = wire \o paste \o SubSeq(norm, 1, k)
          /\ norm' = Rest(norm, k)
          /\ epollout' = StayArmed(Rest(norm, k))
    BY <1>3 DEF PtmxOutNorm
  <2>2. norm' \in Seq(Byte) /\ SubSeq(norm, 1, k) \in Seq(Byte)
    BY <2>1, RestIsQueue DEF TypeOK
  <2>3. wire' \in Seq(Byte)
    BY <2>1, <2>2 DEF TypeOK
  <2>4. paste' = <<>>
    BY <1>3 DEF PtmxOutNorm
  <2>5. epollout' = (norm' # <<>>)
    BY <2>1 DEF StayArmed
  <2>6. TypeOK'
    BY <1>0, <2>2, <2>3, <2>4, <2>5 DEF TypeOK
  <2>7. NothingStranded' /\ NeverIdle'
    BY <1>0, <2>4, <2>5 DEF NothingStranded, NeverIdle
  <2>. QED  BY <2>6, <2>7
<1>. QED  BY <1>1, <1>2, <1>3 DEF PtmxOut

\* Every step keeps the invariant.
LEMMA NextInv == Inv /\ [Next]_vars => Inv'
<1>. SUFFICES ASSUME Inv, [Next]_vars PROVE Inv'
  OBVIOUS
<1>1. ASSUME NEW e \in Events, TermToSlave(e) PROVE Inv'
  BY <1>1, TermToSlaveInv
<1>2. ASSUME NEW t \in Pastes, PasteBegin(t) PROVE Inv'
  <2>1. t \in Transfers
    BY DEF Transfers
  <2>2. PICK data \in Opening(t) : PasteDataToSlave(data, epollout)
    BY <1>2 DEF PasteBegin
  <2>3. /\ Begin(t) /\ sending' = TRUE /\ over' = over \cup {t}
        /\ dndTarget' = dndTarget /\ UNCHANGED <<ptmx, norm, accepted>>
    BY <1>2 DEF PasteBegin
  <2>. QED  BY <2>1, <2>2, <2>3, OpeningInv
<1>3. ASSUME NEW t \in Drops, DndEnter(t) PROVE Inv'
  BY <1>3 DEF DndEnter, Inv, TypeOK, NothingStranded, NeverIdle
<1>4. ASSUME NEW t \in Drops, DndLeave(t) PROVE Inv'
  BY <1>4 DEF DndLeave, Inv, TypeOK, NothingStranded, NeverIdle
<1>5. ASSUME NEW t \in Drops, DndDrop(t) PROVE Inv'
  <2>1. t \in Transfers
    BY DEF Transfers
  <2>2. PICK data \in Opening(t) : PasteDataToSlave(data, epollout)
    BY <1>5 DEF DndDrop
  <2>3. /\ Begin(t) /\ sending' = TRUE /\ over' = over \cup {t}
        /\ dndTarget' \subseteq dndTarget /\ UNCHANGED <<ptmx, norm, accepted>>
    BY <1>5 DEF DndDrop
  <2>. QED  BY <2>1, <2>2, <2>3, OpeningInv
<1>6. ASSUME NEW t \in Transfers, PasteData(t) PROVE Inv'
  BY <1>6, PasteDataInv
<1>7. ASSUME NEW t \in Transfers, PasteDone(t) PROVE Inv'
  BY <1>7, PasteDoneInv
<1>8. CASE PtmxOut
  BY <1>8, PtmxOutInv
<1>9. CASE PtmxHup
  BY <1>9 DEF PtmxHup, Inv, TypeOK, NothingStranded, NeverIdle
<1>10. CASE UNCHANGED vars
  BY <1>10 DEF vars, Inv, TypeOK, NothingStranded, NeverIdle
<1>. QED
  BY <1>1, <1>2, <1>3, <1>4, <1>5, <1>6, <1>7, <1>8, <1>9, <1>10 DEF Next

\* The inductive invariant holds.
THEOREM InvHolds == Spec => []Inv
BY InitInv, NextInv, PTL DEF Spec

\* The variables keep their types, and a closed ptmx is never registered.
THEOREM TypeCorrect == Spec => []TypeOK
<1>1. Inv => TypeOK
  BY DEF Inv
<1>. QED  BY <1>1, InvHolds, PTL

\* Queued data that may be written always has the event loop waiting to write
\* it, however pastes, drags and events interleave.
THEOREM NothingIsStranded == Spec => []NothingStranded
<1>1. Inv => NothingStranded
  BY DEF Inv
<1>. QED  BY <1>1, InvHolds, PTL

\* fdm_ptmx_out()'s assertion never fails.
THEOREM AssertionHolds == Spec => []NeverIdle
<1>1. Inv => NeverIdle
  BY DEF Inv
<1>. QED  BY <1>1, InvHolds, PTL

-----------------------------------------------------------------------------
\* Until a drag is dropped, at most one transfer delivers data at a time, and
\* is_sending_paste_data is set while it does.
OneTransfer ==
    \/ Dropped
    \/ /\ DOMAIN receiving # {} => sending
       /\ \A t, u \in DOMAIN receiving : t = u

LEMMA OneTransferHolds == Spec => []OneTransfer
<1>1. Init => OneTransfer
  BY DEF Init, OneTransfer
<1>2. OneTransfer /\ [Next]_vars => OneTransfer'
  <2>. SUFFICES ASSUME OneTransfer, [Next]_vars PROVE OneTransfer'
    OBVIOUS
  <2>. USE DEF OneTransfer, Dropped
  <2>1. ASSUME NEW e \in Events, TermToSlave(e) PROVE OneTransfer'
    BY <2>1 DEF TermToSlave
  <2>2. ASSUME NEW t \in Pastes, PasteBegin(t) PROVE OneTransfer'
    BY <2>2 DEF PasteBegin, MayBegin, Begin
  <2>3. ASSUME NEW t \in Drops, DndEnter(t) \/ DndLeave(t) \/ DndDrop(t)
        PROVE OneTransfer'
    BY <2>3 DEF DndEnter, DndLeave, DndDrop
  <2>4. ASSUME NEW t \in Transfers, PasteData(t) PROVE OneTransfer'
    BY <2>4 DEF PasteData
  <2>5. ASSUME NEW t \in Transfers, PasteDone(t) PROVE OneTransfer'
    BY <2>5 DEF PasteDone
  <2>6. CASE PtmxOut
    BY <2>6 DEF PtmxOut
  <2>7. CASE PtmxHup
    BY <2>7 DEF PtmxHup
  <2>8. CASE UNCHANGED vars
    BY <2>8 DEF vars
  <2>. QED  BY <2>1, <2>2, <2>3, <2>4, <2>5, <2>6, <2>7, <2>8 DEF Next
<1>. QED  BY <1>1, <1>2, PTL DEF Spec

\* The assertion in receive_offer() never fails before a drag is dropped.
THEOREM AssertionHoldsWithoutDrops == Spec => []ReceiveWhileSending
<1>1. OneTransfer => ReceiveWhileSending
  BY DEF OneTransfer, ReceiveWhileSending
<1>. QED  BY <1>1, OneTransferHolds, PTL

\* Type correctness, data that may be written, and both assertions together.
THEOREM QueuesAreServed == Spec => []QueuesServed
<1>1. Inv /\ ReceiveWhileSending => QueuesServed
  BY DEF Inv, QueuesServed
<1>. QED  BY <1>1, InvHolds, AssertionHoldsWithoutDrops, PTL

-----------------------------------------------------------------------------
(***************************************************************************)
(* The order of the bytes on the wire.  EventsInOrder is inductive once    *)
(* each queue is known to hold the bytes of its own kind.  The lemmas are  *)
(* about any wire w, queue n and history a.                                *)
(***************************************************************************)
EventsOf(w, i) == {j \in 1 .. i : w[j].from \in Events}
Taken(w, i)    == Cardinality(EventsOf(w, i))

InOrder(w, n, a) ==
    /\ Len(a) = Taken(w, Len(w)) + Len(n)
    /\ \A i \in 1 .. Len(w) : w[i].from \in Events => w[i] = a[Taken(w, i)]
    /\ \A i \in 1 .. Len(n) : n[i] = a[Taken(w, Len(w)) + i]

OfEvents(q) == \A i \in 1 .. Len(q) : q[i].from \in Events
OfTransfers(q) == \A i \in 1 .. Len(q) : q[i].from \in Transfers

\* Bytes of ordinary events are counted among the first i bytes, at most i.
LEMMA TakenBound ==
    ASSUME NEW w, NEW i \in Nat
    PROVE  IsFiniteSet(EventsOf(w, i)) /\ Taken(w, i) \in Nat /\ Taken(w, i) <= i
<1>1. IsFiniteSet(1 .. i) /\ Cardinality(1 .. i) = i
  BY FS_Interval
<1>2. EventsOf(w, i) \subseteq 1 .. i
  BY DEF EventsOf
<1>3. /\ IsFiniteSet(EventsOf(w, i))
      /\ Cardinality(EventsOf(w, i)) <= Cardinality(1 .. i)
  BY <1>1, <1>2, FS_Subset
<1>. QED  BY <1>1, <1>3, FS_CardinalityType DEF Taken

\* The count grows with the place, and so is at least one at an event's byte.
LEMMA TakenGrows ==
    ASSUME NEW w, NEW i \in Nat, NEW j \in Nat, i <= j
    PROVE  /\ Taken(w, i) <= Taken(w, j)
           /\ i \in 1 .. i /\ w[i].from \in Events => Taken(w, i) >= 1
<1>1. EventsOf(w, i) \subseteq EventsOf(w, j)
  BY DEF EventsOf
<1>2. IsFiniteSet(EventsOf(w, j)) /\ IsFiniteSet(EventsOf(w, i))
  BY TakenBound
<1>3. Taken(w, i) <= Taken(w, j)
  BY <1>1, <1>2, FS_Subset DEF Taken
<1>4. ASSUME i \in 1 .. i, w[i].from \in Events PROVE Taken(w, i) >= 1
  <2>1. EventsOf(w, i) # {}
    BY <1>4 DEF EventsOf
  <2>2. Taken(w, i) # 0
    BY <1>2, <2>1, FS_EmptySet DEF Taken
  <2>. QED  BY <2>2, TakenBound
<1>. QED  BY <1>3, <1>4

\* What is appended does not change the count before it; bytes of transfers
\* add nothing to it, bytes of ordinary events one each.
LEMMA TakenAppended ==
    ASSUME NEW w \in Seq(Byte), NEW d \in Seq(Byte)
    PROVE  /\ \A i \in 0 .. Len(w) : Taken(w \o d, i) = Taken(w, i)
           /\ OfTransfers(d) =>
                \A i \in 0 .. Len(d) :
                    Taken(w \o d, Len(w) + i) = Taken(w, Len(w))
           /\ OfEvents(d) =>
                \A i \in 0 .. Len(d) :
                    Taken(w \o d, Len(w) + i) = Taken(w, Len(w)) + i
<1>1. Len(w) \in Nat /\ Len(d) \in Nat
  OBVIOUS
<1>2. \A i \in 1 .. Len(w) + Len(d) :
        (w \o d)[i] = IF i <= Len(w) THEN w[i] ELSE d[i - Len(w)]
  BY ConcatProperties
<1>3. ASSUME NEW i \in 0 .. Len(w) PROVE Taken(w \o d, i) = Taken(w, i)
  <2>1. EventsOf(w \o d, i) = EventsOf(w, i)
    BY <1>1, <1>2 DEF EventsOf
  <2>. QED  BY <2>1 DEF Taken
<1>4. ASSUME OfTransfers(d), NEW i \in 0 .. Len(d)
      PROVE  Taken(w \o d, Len(w) + i) = Taken(w, Len(w))
  <2>1. \A j \in 1 .. Len(d) : d[j].from \notin Events
    BY <1>4, SlaveIOAssumption DEF OfTransfers, Transfers
  <2>2. EventsOf(w \o d, Len(w) + i) = EventsOf(w, Len(w))
    <3>1. ASSUME NEW j \in 1 .. Len(w) + i
          PROVE  (w \o d)[j].from \in Events
                    <=> j <= Len(w) /\ w[j].from \in Events
      <4>1. CASE j <= Len(w)
        BY <1>1, <1>2, <4>1
      <4>2. CASE j > Len(w)
        <5>1. j - Len(w) \in 1 .. Len(d) /\ j \in 1 .. Len(w) + Len(d)
          BY <1>1, <4>2
        <5>2. (w \o d)[j] = d[j - Len(w)]
          BY <1>1, <1>2, <4>2, <5>1
        <5>. QED  BY <1>1, <2>1, <4>2, <5>1, <5>2
      <4>. QED  BY <1>1, <4>1, <4>2
    <3>. QED  BY <1>1, <3>1 DEF EventsOf
  <2>. QED  BY <2>2 DEF Taken
<1>5. ASSUME OfEvents(d), NEW i \in 0 .. Len(d)
      PROVE  Taken(w \o d, Len(w) + i) = Taken(w, Len(w)) + i
  <2>. DEFINE more == Len(w) + 1 .. Len(w) + i
  <2>1. EventsOf(w \o d, Len(w) + i) = EventsOf(w, Len(w)) \cup more
    <3>1. ASSUME NEW j \in 1 .. Len(w) + i
          PROVE  (w \o d)[j].from \in Events
                    <=> j > Len(w) \/ w[j].from \in Events
      <4>1. CASE j <= Len(w)
        BY <1>1, <1>2, <4>1
      <4>2. CASE j > Len(w)
        <5>1. j - Len(w) \in 1 .. Len(d) /\ j \in 1 .. Len(w) + Len(d)
          BY <1>1, <4>2
        <5>2. (w \o d)[j] = d[j - Len(w)]
          BY <1>1, <1>2, <4>2, <5>1
        <5>. QED  BY <1>5, <4>2, <5>1, <5>2 DEF OfEvents
      <4>. QED  BY <1>1, <4>1, <4>2
    <3>. QED  BY <1>1, <3>1 DEF EventsOf
  <2>2. EventsOf(w, Len(w)) \cap more = {}
    BY <1>1 DEF EventsOf
  <2>3. IsFiniteSet(more) /\ Cardinality(more) = i
    <3>1. Len(w) + 1 \in Int /\ Len(w) + i \in Int /\ i \in Nat
      BY <1>1
    <3>2. /\ IsFiniteSet(more)
          /\ Cardinality(more) = IF Len(w) + 1 > Len(w) + i THEN 0
                                 ELSE (Len(w) + i) - (Len(w) + 1) + 1
      BY <3>1, FS_Interval
    <3>. QED  BY <1>1, <3>1, <3>2
  <2>4. IsFiniteSet(EventsOf(w, Len(w)))
    BY <1>1, TakenBound
  <2>. HIDE DEF more
  <2>5. Cardinality(EventsOf(w, Len(w)) \cup more)
            = Taken(w, Len(w)) + i - Cardinality({})
    BY <2>2, <2>3, <2>4, FS_Union DEF Taken
  <2>6. Cardinality({}) = 0 /\ Taken(w, Len(w)) \in Nat
    BY <1>1, FS_EmptySet, TakenBound
  <2>7. Taken(w \o d, Len(w) + i) = Cardinality(EventsOf(w, Len(w)) \cup more)
    BY <2>1 DEF Taken
  <2>. QED  BY <1>1, <2>5, <2>6, <2>7
<1>. QED  BY <1>3, <1>4, <1>5

\* Bytes of transfers on the wire leave the order of the events alone.
LEMMA TransfersPass ==
    ASSUME NEW w \in Seq(Byte), NEW n \in Seq(Byte), NEW a \in Seq(Byte),
           NEW d \in Seq(Byte), OfTransfers(d), InOrder(w, n, a)
    PROVE  InOrder(w \o d, n, a)
<1>1. /\ Len(w) \in Nat /\ Len(d) \in Nat /\ Len(n) \in Nat
      /\ Len(w \o d) = Len(w) + Len(d)
  OBVIOUS
<1>2. /\ \A i \in 0 .. Len(w) : Taken(w \o d, i) = Taken(w, i)
      /\ Taken(w \o d, Len(w) + Len(d)) = Taken(w, Len(w))
  BY <1>1, TakenAppended
<1>3. ASSUME NEW i \in 1 .. Len(w) + Len(d), (w \o d)[i].from \in Events
      PROVE  (w \o d)[i] = a[Taken(w \o d, i)]
  <2>1. CASE i <= Len(w)
    BY <1>1, <1>2, <1>3, <2>1 DEF InOrder
  <2>2. CASE i > Len(w)
    <3>1. i - Len(w) \in 1 .. Len(d) /\ (w \o d)[i] = d[i - Len(w)]
      BY <1>1, <2>2, ConcatProperties
    <3>. QED  BY <1>3, <3>1, SlaveIOAssumption DEF OfTransfers, Transfers
  <2>. QED  BY <1>1, <2>1, <2>2
<1>. QED  BY <1>1, <1>2, <1>3 DEF InOrder

\* Bytes of ordinary events that are accepted and queued keep the order.
LEMMA EventsQueued ==
    ASSUME NEW w \in Seq(Byte), NEW n \in Seq(Byte), NEW a \in Seq(Byte),
           NEW d \in Seq(Byte), InOrder(w, n, a)
    PROVE  InOrder(w, n \o d, a \o d)
<1>1. /\ Len(w) \in Nat /\ Len(d) \in Nat /\ Len(n) \in Nat /\ Len(a) \in Nat
      /\ Len(n \o d) = Len(n) + Len(d) /\ Len(a \o d) = Len(a) + Len(d)
  OBVIOUS
<1>2. Taken(w, Len(w)) \in Nat /\ Len(a) = Taken(w, Len(w)) + Len(n)
  BY <1>1, TakenBound DEF InOrder
<1>3. ASSUME NEW i \in 1 .. Len(w), w[i].from \in Events
      PROVE  w[i] = (a \o d)[Taken(w, i)]
  <2>1. Taken(w, i) \in Nat /\ Taken(w, i) >= 1 /\ Taken(w, i) <= Taken(w, Len(w))
    BY <1>1, <1>3, TakenBound, TakenGrows
  <2>2. Taken(w, i) \in 1 .. Len(a)
    BY <1>1, <1>2, <2>1
  <2>3. (a \o d)[Taken(w, i)] = a[Taken(w, i)]
    BY <1>1, <2>2, ConcatProperties
  <2>. QED  BY <1>3, <2>3 DEF InOrder
<1>4. ASSUME NEW i \in 1 .. Len(n) + Len(d)
      PROVE  (n \o d)[i] = (a \o d)[Taken(w, Len(w)) + i]
  <2>. DEFINE k == Taken(w, Len(w))
  <2>0. k \in Nat /\ Len(a) = k + Len(n) /\ i \in Nat
    BY <1>1, <1>2
  <2>. HIDE DEF k
  <2>1. CASE i <= Len(n)
    <3>1. k + i \in 1 .. Len(a)
      BY <1>1, <2>0, <2>1
    <3>2. (n \o d)[i] = n[i] /\ (a \o d)[k + i] = a[k + i]
      BY <1>1, <2>1, <3>1, ConcatProperties
    <3>. QED  BY <1>1, <2>1, <3>2 DEF InOrder, k
  <2>2. CASE i > Len(n)
    <3>1. /\ k + i \in 1 .. Len(a) + Len(d) /\ k + i > Len(a)
          /\ k + i - Len(a) = i - Len(n)
      BY <1>1, <2>0, <2>2
    <3>2. (n \o d)[i] = d[i - Len(n)]
      BY <1>1, <2>2, ConcatProperties
    <3>3. (a \o d)[k + i] = d[k + i - Len(a)]
      <4>1. \A j \in 1 .. Len(a) + Len(d) :
              j > Len(a) => (a \o d)[j] = d[j - Len(a)]
        BY <1>1, ConcatProperties
      <4>. QED  BY <1>1, <2>0, <3>1, <4>1
    <3>. QED  BY <3>1, <3>2, <3>3 DEF k
  <2>3. i <= Len(n) \/ i > Len(n)
    BY <1>1, <2>0
  <2>. QED  BY <2>1, <2>2, <2>3
<1>5. Len(a \o d) = Taken(w, Len(w)) + Len(n \o d)
  BY <1>1, <1>2
<1>. QED  BY <1>1, <1>3, <1>4, <1>5 DEF InOrder

\* Bytes of ordinary events written from the head of their queue keep it.
LEMMA EventsWritten ==
    ASSUME NEW w \in Seq(Byte), NEW n \in Seq(Byte), NEW a \in Seq(Byte),
           NEW k \in 0 .. Len(n), OfEvents(n), InOrder(w, n, a)
    PROVE  InOrder(w \o SubSeq(n, 1, k), Rest(n, k), a)
<1>. DEFINE d == SubSeq(n, 1, k)
            r == Rest(n, k)
<1>1. /\ Len(w) \in Nat /\ Len(n) \in Nat /\ k \in Nat /\ k <= Len(n)
  OBVIOUS
<1>2. /\ d \in Seq(Byte) /\ Len(d) = k
      /\ \A i \in 1 .. k : d[i] = n[i]
  <2>1. \A i \in 1 .. k : n[i] \in Byte
    BY <1>1
  <2>. QED  BY <1>1, <2>1, SubSeqProperties
<1>3. /\ r \in Seq(Byte) /\ Len(r) = Len(n) - k
      /\ \A i \in 1 .. Len(n) - k : r[i] = n[k + i]
  <2>1. \A i \in k + 1 .. Len(n) : n[i] \in Byte
    BY <1>1
  <2>. QED  BY <1>1, <2>1, SubSeqProperties DEF Rest
<1>. HIDE DEF d, r
<1>4. OfEvents(d)
  BY <1>1, <1>2 DEF OfEvents
<1>5. /\ \A i \in 0 .. Len(w) : Taken(w \o d, i) = Taken(w, i)
      /\ \A i \in 0 .. k : Taken(w \o d, Len(w) + i) = Taken(w, Len(w)) + i
  BY <1>2, <1>4, TakenAppended
<1>6. Len(w \o d) = Len(w) + k /\ Taken(w, Len(w)) \in Nat
  <2>1. Taken(w, Len(w)) \in Nat
    BY <1>1, TakenBound
  <2>2. Len(w \o d) = Len(w) + Len(d)
    BY <1>2, ConcatProperties
  <2>. QED  BY <1>2, <2>1, <2>2
<1>7. ASSUME NEW i \in 1 .. Len(w) + k, (w \o d)[i].from \in Events
      PROVE  (w \o d)[i] = a[Taken(w \o d, i)]
  <2>1. CASE i <= Len(w)
    <3>1. (w \o d)[i] = w[i]
      BY <1>1, <1>2, <2>1, ConcatProperties
    <3>. QED  BY <1>1, <1>5, <1>7, <2>1, <3>1 DEF InOrder
  <2>2. CASE i > Len(w)
    <3>1. i - Len(w) \in 1 .. k
      BY <1>1, <2>2
    <3>2. (w \o d)[i] = d[i - Len(w)]
      BY <1>1, <1>2, <2>2, ConcatProperties
    <3>3. Taken(w \o d, Len(w) + (i - Len(w))) = Taken(w, Len(w)) + (i - Len(w))
      BY <1>5, <3>1
    <3>4. Len(w) + (i - Len(w)) = i
      BY <1>1
    <3>5. n[i - Len(w)] = a[Taken(w, Len(w)) + (i - Len(w))]
      BY <1>1, <3>1 DEF InOrder
    <3>. QED  BY <1>2, <3>1, <3>2, <3>3, <3>4, <3>5
  <2>3. i <= Len(w) \/ i > Len(w)
    BY <1>1
  <2>. QED  BY <2>1, <2>2, <2>3
<1>8. ASSUME NEW i \in 1 .. Len(n) - k
      PROVE  r[i] = a[Taken(w \o d, Len(w) + k) + i]
  <2>1. Taken(w \o d, Len(w) + k) = Taken(w, Len(w)) + k
    BY <1>1, <1>5
  <2>2. n[k + i] = a[Taken(w, Len(w)) + (k + i)]
    BY <1>1 DEF InOrder
  <2>3. Taken(w, Len(w)) + (k + i) = (Taken(w, Len(w)) + k) + i
    BY <1>1, <1>6
  <2>. QED  BY <1>3, <2>1, <2>2, <2>3
<1>9. Len(a) = Taken(w \o d, Len(w) + k) + Len(r)
  <2>1. Len(a) = Taken(w, Len(w)) + Len(n)
    BY DEF InOrder
  <2>. QED  BY <1>1, <1>3, <1>5, <1>6, <2>1
<1>10. InOrder(w \o d, r, a)
  BY <1>3, <1>6, <1>7, <1>8, <1>9 DEF InOrder
<1>. QED  BY <1>10 DEF d, r

-----------------------------------------------------------------------------
(***************************************************************************)
(* Pastes in one piece.  What is written of the pastes is the wire and,    *)
(* after it, the queue of paste data: bytes are only ever appended to the  *)
(* two together.  A transfer in progress is at the end of them, one that   *)
(* has not begun is nowhere in them.                                       *)
(***************************************************************************)
Absent(q, t)  == \A i \in 1 .. Len(q) : q[i].from # t
OnlyOf(q, t)  == \A i \in 1 .. Len(q) : q[i].from = t
AtEnd(q, t)   == Absent(q, t) \/ (Len(q) > 0 /\ q[Len(q)].from = t)
InOnePiece(q, t) ==
    \A i, j \in 1 .. Len(q) :
        i < j /\ q[i].from = t /\ q[j].from = t
        => \A k \in i .. j : q[k].from = t

Whole(q) ==
    \A t \in Pastes : /\ InOnePiece(q, t)
                      /\ t \notin over => Absent(q, t)
                      /\ t \in DOMAIN receiving => AtEnd(q, t)

\* Appending what is not of t leaves t in one piece, and absent if it was.
LEMMA OthersAppended ==
    ASSUME NEW q \in Seq(Byte), NEW d \in Seq(Byte), NEW t, Absent(d, t)
    PROVE  /\ InOnePiece(q, t) => InOnePiece(q \o d, t)
           /\ Absent(q, t) => Absent(q \o d, t)
<1>1. /\ Len(q) \in Nat /\ Len(d) \in Nat
      /\ Len(q \o d) = Len(q) + Len(d)
  OBVIOUS
<1>2. \A i \in 1 .. Len(q) : (q \o d)[i] = q[i]
  BY <1>1, ConcatProperties
<1>3. \A i \in 1 .. Len(q) + Len(d) : i > Len(q) => (q \o d)[i].from # t
  <2>1. SUFFICES ASSUME NEW i \in 1 .. Len(q) + Len(d), i > Len(q)
                 PROVE  (q \o d)[i].from # t
    OBVIOUS
  <2>2. i - Len(q) \in 1 .. Len(d) /\ (q \o d)[i] = d[i - Len(q)]
    BY <1>1, <2>1, ConcatProperties
  <2>. QED  BY <2>2 DEF Absent
<1>4. Absent(q, t) => Absent(q \o d, t)
  BY <1>1, <1>2, <1>3 DEF Absent
<1>5. ASSUME InOnePiece(q, t),
             NEW i \in 1 .. Len(q) + Len(d), NEW j \in 1 .. Len(q) + Len(d), i < j,
             (q \o d)[i].from = t, (q \o d)[j].from = t,
             NEW k \in i .. j
      PROVE  (q \o d)[k].from = t
  <2>1. j <= Len(q)
    BY <1>1, <1>3, <1>5
  <2>2. /\ i \in 1 .. Len(q) /\ j \in 1 .. Len(q) /\ k \in 1 .. Len(q)
    BY <1>1, <1>5, <2>1
  <2>3. q[k].from = t
    BY <1>2, <1>5, <2>2 DEF InOnePiece
  <2>. QED  BY <1>2, <2>2, <2>3
<1>6. InOnePiece(q, t) => InOnePiece(q \o d, t)
  BY <1>1, <1>5 DEF InOnePiece
<1>. QED  BY <1>4, <1>6

\* Appending what is of t where t ends leaves it in one piece, at the end.
LEMMA OwnAppended ==
    ASSUME NEW q \in Seq(Byte), NEW d \in Seq(Byte), NEW t,
           OnlyOf(d, t), InOnePiece(q, t), AtEnd(q, t)
    PROVE  InOnePiece(q \o d, t) /\ AtEnd(q \o d, t)
<1>1. /\ Len(q) \in Nat /\ Len(d) \in Nat
      /\ Len(q \o d) = Len(q) + Len(d)
  OBVIOUS
<1>2. \A i \in 1 .. Len(q) : (q \o d)[i] = q[i]
  BY <1>1, ConcatProperties
<1>3. \A i \in 1 .. Len(q) + Len(d) : i > Len(q) => (q \o d)[i].from = t
  <2>1. SUFFICES ASSUME NEW i \in 1 .. Len(q) + Len(d), i > Len(q)
                 PROVE  (q \o d)[i].from = t
    OBVIOUS
  <2>2. i - Len(q) \in 1 .. Len(d) /\ (q \o d)[i] = d[i - Len(q)]
    BY <1>1, <2>1, ConcatProperties
  <2>. QED  BY <2>2 DEF OnlyOf
<1>4. AtEnd(q \o d, t)
  <2>1. CASE Len(d) = 0
    <3>1. Len(q \o d) = Len(q)
      BY <1>1, <2>1
    <3>. QED  BY <1>1, <1>2, <3>1 DEF AtEnd, Absent
  <2>2. CASE Len(d) > 0
    <3>1. /\ Len(q) + Len(d) \in 1 .. Len(q) + Len(d)
          /\ Len(q) + Len(d) > Len(q) /\ Len(q \o d) > 0
      BY <1>1, <2>2
    <3>2. (q \o d)[Len(q \o d)].from = t
      BY <1>1, <1>3, <3>1
    <3>. QED  BY <3>1, <3>2 DEF AtEnd
  <2>3. Len(d) = 0 \/ Len(d) > 0
    BY <1>1
  <2>. QED  BY <2>1, <2>2, <2>3
<1>5. ASSUME NEW i \in 1 .. Len(q) + Len(d), NEW j \in 1 .. Len(q) + Len(d), i < j,
             (q \o d)[i].from = t, (q \o d)[j].from = t,
             NEW k \in i .. j
      PROVE  (q \o d)[k].from = t
  <2>0. /\ i \in Nat /\ j \in Nat /\ k \in Nat /\ i <= k /\ k <= j
        /\ 1 <= k /\ k <= Len(q) + Len(d)
    BY <1>1, <1>5
  <2>1. CASE k > Len(q)
    BY <1>1, <1>3, <2>0, <2>1
  <2>2. CASE k <= Len(q)
    <3>1. i \in 1 .. Len(q) /\ k \in 1 .. Len(q)
      BY <1>1, <1>5, <2>0, <2>2
    <3>2. q[i].from = t
      BY <1>2, <1>5, <3>1
    <3>3. Len(q) > 0 /\ q[Len(q)].from = t
      BY <3>1, <3>2 DEF AtEnd, Absent
    <3>4. CASE i = Len(q)
      <4>1. k = i
        BY <1>1, <2>0, <2>2, <3>4
      <4>. QED  BY <1>5, <4>1
    <3>5. CASE i # Len(q)
      <4>1. i < Len(q) /\ Len(q) \in 1 .. Len(q) /\ k \in i .. Len(q)
        BY <1>1, <2>0, <2>2, <3>1, <3>3, <3>5
      <4>2. q[k].from = t
        BY <3>1, <3>2, <3>3, <4>1 DEF InOnePiece
      <4>. QED  BY <1>2, <3>1, <4>2
    <3>. QED  BY <3>4, <3>5
  <2>3. k > Len(q) \/ k <= Len(q)
    BY <1>1, <2>0
  <2>. QED  BY <2>1, <2>2, <2>3
<1>6. InOnePiece(q \o d, t)
  BY <1>1, <1>5 DEF InOnePiece
<1>. QED  BY <1>4, <1>6

\* What a synchronous write takes and what it leaves are parts of the data, and
\* together the data, or, after an error, the beginning of it.
LEMMA WriteParts ==
    ASSUME NEW data \in Seq(Byte), NEW w \in Writes(data)
    PROVE  /\ Written(data, w) \in Seq(Byte) /\ Queued(data, w) \in Seq(Byte)
           /\ \A i \in 1 .. Len(Written(data, w)) :
                \E j \in 1 .. Len(data) : Written(data, w)[i] = data[j]
           /\ \A i \in 1 .. Len(Queued(data, w)) :
                \E j \in 1 .. Len(data) : Queued(data, w)[i] = data[j]
<1>1. w.k \in 0 .. Len(data) /\ Len(data) \in Nat
  BY DEF Writes
<1>2. Written(data, w) \in Seq(Byte) /\ Queued(data, w) \in Seq(Byte)
  BY WriteResult
<1>3. /\ Len(SubSeq(data, 1, w.k)) = w.k
      /\ \A i \in 1 .. w.k : SubSeq(data, 1, w.k)[i] = data[i]
  BY <1>1, SubSeqProperties
<1>4. \A i \in 1 .. Len(Written(data, w)) :
        \E j \in 1 .. Len(data) : Written(data, w)[i] = data[j]
  BY <1>1, <1>3 DEF Written
<1>5. /\ Len(Rest(data, w.k)) = Len(data) - w.k
      /\ \A i \in 1 .. Len(data) - w.k : Rest(data, w.k)[i] = data[w.k + i]
  <2>1. \A i \in w.k + 1 .. Len(data) : data[i] \in Byte
    BY <1>1
  <2>. QED  BY <1>1, <2>1, SubSeqProperties DEF Rest
<1>6. \A i \in 1 .. Len(Queued(data, w)) :
        \E j \in 1 .. Len(data) : Queued(data, w)[i] = data[j]
  <2>1. CASE w.err
    BY <2>1, EmptySeq DEF Queued
  <2>2. CASE ~w.err
    <3>. SUFFICES ASSUME NEW i \in 1 .. Len(Rest(data, w.k))
                  PROVE  \E j \in 1 .. Len(data) : Rest(data, w.k)[i] = data[j]
      BY <2>2 DEF Queued
    <3>1. i \in 1 .. Len(data) - w.k /\ w.k + i \in 1 .. Len(data)
      BY <1>1, <1>5
    <3>. QED  BY <1>5, <3>1
  <2>. QED  BY <2>1, <2>2
<1>. QED  BY <1>2, <1>4, <1>6

\* term_paste_data_to_slave() appends data of its transfer, and only that, to
\* what is written of the pastes.
LEMMA PasteAppends ==
    ASSUME TypeOK, OfTransfers(paste), NEW t \in Transfers,
           NEW data \in Seq(Byte), OnlyOf(data, t), NEW on,
           PasteDataToSlave(data, on)
    PROVE  /\ OfTransfers(paste')
           /\ \E y \in Seq(Byte) : OfTransfers(y) /\ wire' = wire \o y
           /\ \E x \in Seq(Byte) :
                OnlyOf(x, t) /\ wire' \o paste' = (wire \o paste) \o x
<1>1. /\ wire \in Seq(Byte) /\ paste \in Seq(Byte) /\ wire \o paste \in Seq(Byte)
      /\ <<>> \in Seq(Byte)
  BY DEF TypeOK
<1>2. OfTransfers(<<>>) /\ OnlyOf(<<>>, t)
  BY EmptySeq DEF OfTransfers, OnlyOf
<1>3. wire \o <<>> = wire /\ (wire \o paste) \o <<>> = wire \o paste
  BY <1>1, ConcatEmptySeq
<1>4. CASE ptmx = "closed"
  <2>1. wire' = wire /\ paste' = paste
    BY <1>4 DEF PasteDataToSlave
  <2>. QED  BY <1>1, <1>2, <1>3, <2>1
<1>5. CASE ptmx # "closed" /\ paste # <<>>
  <2>1. wire' = wire /\ paste' = paste \o data
    BY <1>5 DEF PasteDataToSlave
  <2>2. wire' \o paste' = (wire \o paste) \o data
    BY <1>1, <2>1, ConcatAssociative, SMTT(30)
  <2>3. OfTransfers(paste \o data)
    <3>1. /\ Len(paste \o data) = Len(paste) + Len(data)
          /\ \A i \in 1 .. Len(paste) + Len(data) : (paste \o data)[i] =
                 IF i <= Len(paste) THEN paste[i] ELSE data[i - Len(paste)]
          /\ Len(paste) \in Nat /\ Len(data) \in Nat
      BY <1>1, ConcatProperties
    <3>. QED  BY <3>1 DEF OfTransfers, OnlyOf
  <2>. QED  BY <1>1, <1>2, <1>3, <2>1, <2>2, <2>3
<1>6. CASE ptmx # "closed" /\ paste = <<>>
  <2>1. PICK w \in Writes(data) :
          /\ wire' = wire \o Written(data, w)
          /\ paste' = Queued(data, w)
    BY <1>6 DEF PasteDataToSlave
  <2>. DEFINE W == Written(data, w)
              Q == Queued(data, w)
  <2>2. /\ W \in Seq(Byte) /\ Q \in Seq(Byte)
        /\ \A i \in 1 .. Len(W) : \E j \in 1 .. Len(data) : W[i] = data[j]
        /\ \A i \in 1 .. Len(Q) : \E j \in 1 .. Len(data) : Q[i] = data[j]
    BY WriteParts
  <2>3. wire' = wire \o W /\ paste' = Q
    BY <2>1
  <2>. HIDE DEF W, Q
  <2>4. OnlyOf(W, t) /\ OnlyOf(Q, t)
    BY <2>2 DEF OnlyOf
  <2>5. OfTransfers(W) /\ OfTransfers(Q)
    BY <2>4 DEF OnlyOf, OfTransfers
  <2>6. W \o Q \in Seq(Byte) /\ OnlyOf(W \o Q, t)
    <3>1. /\ Len(W \o Q) = Len(W) + Len(Q)
          /\ \A i \in 1 .. Len(W) + Len(Q) :
               (W \o Q)[i] = IF i <= Len(W) THEN W[i] ELSE Q[i - Len(W)]
          /\ Len(W) \in Nat /\ Len(Q) \in Nat
      BY <2>2, ConcatProperties
    <3>. QED  BY <2>2, <2>4, <3>1 DEF OnlyOf
  <2>7. wire' \o paste' = (wire \o paste) \o (W \o Q)
    <3>1. wire \o paste = wire
      BY <1>6, <1>3
    <3>2. (wire \o W) \o Q = wire \o (W \o Q)
      <4>1. wire \in Seq(Byte) /\ W \in Seq(Byte) /\ Q \in Seq(Byte)
        BY <1>1, <2>2
      <4>. QED  BY <4>1, ConcatAssociative
    <3>. QED  BY <2>3, <3>1, <3>2
  <2>. QED  BY <2>2, <2>3, <2>5, <2>6, <2>7
<1>. QED  BY <1>4, <1>5, <1>6

\* The inductive invariant of what is on the wire and in the queues.
WireInv ==
    /\ InOrder(wire, norm, accepted)
    /\ OfEvents(norm)
    /\ OfTransfers(paste)
    /\ DOMAIN receiving \subseteq over
    /\ Dropped \/ Whole(wire \o paste)

\* The callbacks of a transfer keep it: the transfer is the one in progress, or
\* begins when there is none.
LEMMA TransferWire ==
    ASSUME TypeOK, WireInv, OneTransfer, NEW t \in Transfers,
           NEW data \in Seq(Byte), OnlyOf(data, t), NEW on,
           PasteDataToSlave(data, on), UNCHANGED <<norm, accepted>>,
           over' = over \cup {t},
           DOMAIN receiving' \subseteq DOMAIN receiving \cup {t},
           \/ t \in DOMAIN receiving
           \/ t \in Drops
           \/ t \notin over /\ (Dropped \/ DOMAIN receiving = {})
    PROVE  WireInv'
<1>1. PICK y \in Seq(Byte) : OfTransfers(y) /\ wire' = wire \o y
  BY PasteAppends DEF WireInv
<1>2. PICK x \in Seq(Byte) :
        OnlyOf(x, t) /\ wire' \o paste' = (wire \o paste) \o x
  BY PasteAppends DEF WireInv
<1>3. OfTransfers(paste')
  BY PasteAppends DEF WireInv
<1>4. InOrder(wire', norm', accepted')
  <2>1. InOrder(wire \o y, norm, accepted)
    BY <1>1, TransfersPass DEF WireInv, TypeOK
  <2>. QED  BY <1>1, <2>1
<1>5. OfEvents(norm')
  BY DEF WireInv
<1>6. DOMAIN receiving' \subseteq over'
  BY DEF WireInv
<1>7. Dropped' \/ Whole(wire \o paste)
  BY DEF WireInv, Dropped
<1>8. ASSUME ~Dropped', Whole(wire \o paste) PROVE Whole(wire \o paste)'
  <2>. DEFINE q == wire \o paste
  <2>0. q \in Seq(Byte) /\ Whole(q) /\ (wire \o paste)' = q \o x
    BY <1>2, <1>8 DEF TypeOK
  <2>. HIDE DEF q
  <2>1. t \notin Drops /\ ~Dropped
    BY <1>8 DEF Dropped
  <2>2. \A u \in DOMAIN receiving' : u = t
    BY <2>1 DEF OneTransfer
  <2>3. t \in Pastes
    BY <2>1 DEF Transfers
  <2>4. AtEnd(q, t) /\ InOnePiece(q, t)
    BY <2>0, <2>1, <2>3 DEF Whole, AtEnd
  <2>5. AtEnd(q \o x, t) /\ InOnePiece(q \o x, t)
    BY <1>2, <2>0, <2>4, OwnAppended
  <2>6. ASSUME NEW u \in Pastes, u # t
        PROVE  InOnePiece(q \o x, u) /\ (u \notin over' => Absent(q \o x, u))
    <3>1. Absent(x, u)
      BY <1>2, <2>6 DEF OnlyOf, Absent
    <3>2. InOnePiece(q, u) /\ (u \notin over => Absent(q, u))
      BY <2>0 DEF Whole
    <3>. QED  BY <2>0, <2>6, <3>1, <3>2, OthersAppended
  <2>7. \A u \in Pastes : /\ InOnePiece(q \o x, u)
                          /\ u \notin over' => Absent(q \o x, u)
                          /\ u \in DOMAIN receiving' => AtEnd(q \o x, u)
    BY <2>2, <2>5, <2>6
  <2>. QED  BY <2>0, <2>7 DEF Whole
<1>. QED  BY <1>3, <1>4, <1>5, <1>6, <1>7, <1>8 DEF WireInv

\* So does an event that is written, or queued behind what is queued already:
\* it is written directly only when no paste is in progress.
LEMMA EventWire ==
    ASSUME TypeOK, WireInv, OneTransfer, NEW e \in Events, TermToSlave(e)
    PROVE  WireInv'
<1>. DEFINE E == EventBytes(e)
<1>1. E \in Seq(Byte) /\ OfEvents(E)
  <2>1. E \in Seq(Byte)
    BY EventIsBytes
  <2>2. \A i \in 1 .. Len(E) : E[i].from = e
    BY SlaveIOAssumption DEF EventBytes
  <2>. QED  BY <2>1, <2>2 DEF OfEvents
<1>. HIDE DEF E
<1>2. /\ over' = over \cup {e} /\ UNCHANGED <<ptmx, paste, sending, receiving>>
      /\ OfTransfers(paste') /\ DOMAIN receiving' \subseteq over'
  BY DEF TermToSlave, WireInv
<1>3. e \notin Drops /\ e \notin Pastes /\ (Dropped' <=> Dropped)
  BY <1>2, SlaveIOAssumption DEF Dropped
<1>4. CASE ptmx = "closed" /\ UNCHANGED <<norm, epollout, wire, accepted>>
  BY <1>2, <1>3, <1>4 DEF WireInv, Whole
<1>5. CASE /\ ptmx = "open" /\ MustQueue
           /\ norm' = norm \o E
           /\ accepted' = accepted \o E
           /\ UNCHANGED <<epollout, wire>>
  <2>1. InOrder(wire, norm \o E, accepted \o E)
    BY <1>1, EventsQueued DEF WireInv, TypeOK
  <2>2. OfEvents(norm \o E)
    <3>1. /\ Len(norm \o E) = Len(norm) + Len(E)
          /\ \A i \in 1 .. Len(norm) + Len(E) :
               (norm \o E)[i] = IF i <= Len(norm) THEN norm[i] ELSE E[i - Len(norm)]
          /\ Len(norm) \in Nat /\ Len(E) \in Nat
      BY <1>1, ConcatProperties DEF TypeOK
    <3>. QED  BY <1>1, <3>1 DEF OfEvents, WireInv
  <2>3. InOrder(wire', norm', accepted') /\ OfEvents(norm')
    BY <1>5, <2>1, <2>2
  <2>4. Dropped' \/ Whole(wire \o paste)'
    BY <1>2, <1>3, <1>5 DEF WireInv, Whole
  <2>. QED  BY <1>2, <2>3, <2>4 DEF WireInv
<1>6. CASE /\ ptmx = "open" /\ ~MustQueue
           /\ \E w \in Writes(E) :
                 /\ wire' = wire \o Written(E, w)
                 /\ norm' = norm \o Queued(E, w)
                 /\ accepted' = accepted \o Written(E, w) \o Queued(E, w)
                 /\ epollout' = (epollout \/ Queued(E, w) # <<>>)
  <2>1. PICK w \in Writes(E) :
                 /\ wire' = wire \o Written(E, w)
                 /\ norm' = norm \o Queued(E, w)
                 /\ accepted' = accepted \o Written(E, w) \o Queued(E, w)
    BY <1>6
  <2>. DEFINE W == Written(E, w)
              Q == Queued(E, w)
  <2>2. /\ W \in Seq(Byte) /\ Q \in Seq(Byte)
        /\ \A i \in 1 .. Len(W) : \E j \in 1 .. Len(E) : W[i] = E[j]
        /\ \A i \in 1 .. Len(Q) : \E j \in 1 .. Len(E) : Q[i] = E[j]
    BY <1>1, WriteParts
  <2>3. norm = <<>> /\ paste = <<>> /\ ~sending
    BY <1>6 DEF MustQueue
  <2>4. wire' = wire \o W /\ norm' = norm \o Q /\ accepted' = accepted \o W \o Q
    BY <2>1
  <2>. HIDE DEF W, Q
  <2>5. norm' = Q
    BY <2>2, <2>3, <2>4, ConcatEmptySeq
  <2>6. OfEvents(W) /\ OfEvents(Q)
    BY <1>1, <2>2 DEF OfEvents
  <2>7. /\ wire \in Seq(Byte) /\ accepted \in Seq(Byte) /\ accepted \o W \in Seq(Byte)
        /\ wire \o W \in Seq(Byte) /\ <<>> \in Seq(Byte)
        /\ InOrder(wire, <<>>, accepted)
    BY <2>2, <2>3 DEF WireInv, TypeOK
  <2>8. InOrder(wire \o W, <<>>, accepted \o W)
    <3>1. InOrder(wire, <<>> \o W, accepted \o W)
      BY <2>2, <2>7, EventsQueued
    <3>2. <<>> \o W = W /\ Len(W) \in 0 .. Len(W)
      BY <2>2, ConcatEmptySeq
    <3>3. InOrder(wire \o SubSeq(W, 1, Len(W)), Rest(W, Len(W)), accepted \o W)
      BY <2>2, <2>6, <2>7, <3>1, <3>2, EventsWritten
    <3>4. SubSeq(W, 1, Len(W)) = W
      BY <2>2
    <3>5. Rest(W, Len(W)) = <<>>
      <4>1. Rest(W, Len(W)) \in Seq(Byte) /\ Len(Rest(W, Len(W))) = 0
        BY <2>2, <3>2, RestIsQueue
      <4>. QED  BY <4>1, EmptySeq
    <3>. QED  BY <3>3, <3>4, <3>5
  <2>9. InOrder(wire \o W, <<>> \o Q, (accepted \o W) \o Q)
    BY <2>2, <2>7, <2>8, EventsQueued
  <2>10. InOrder(wire', norm', accepted')
    BY <2>2, <2>4, <2>5, <2>9, ConcatEmptySeq
  <2>11. Dropped' \/ Whole(wire \o paste)'
    <3>. SUFFICES ASSUME ~Dropped PROVE Whole(wire \o paste)'
      BY <1>3
    <3>1. wire \o paste = wire /\ (wire \o paste)' = wire \o W
      BY <1>2, <2>3, <2>4, <2>7, ConcatEmptySeq
    <3>2. Whole(wire)
      BY <3>1 DEF WireInv
    <3>3. DOMAIN receiving = {}
      BY <2>3 DEF OneTransfer
    <3>4. ASSUME NEW t \in Pastes
          PROVE  InOnePiece(wire \o W, t) /\ (t \notin over => Absent(wire \o W, t))
      <4>1. Absent(W, t)
        BY <2>6, <3>4, SlaveIOAssumption DEF OfEvents, Absent
      <4>2. InOnePiece(wire, t) /\ (t \notin over => Absent(wire, t))
        BY <3>2, <3>4 DEF Whole
      <4>. QED  BY <2>2, <2>7, <4>1, <4>2, OthersAppended
    <3>. QED  BY <1>2, <3>1, <3>3, <3>4 DEF Whole
  <2>. QED  BY <1>2, <2>5, <2>6, <2>10, <2>11 DEF WireInv
<1>. QED  BY <1>4, <1>5, <1>6 DEF TermToSlave, E

\* So does fdm_ptmx_out(): the pastes' bytes stay what they are until all of
\* them are written; then, if no paste is in progress, events follow.
LEMMA PtmxOutWire == ASSUME TypeOK, WireInv, OneTransfer, PtmxOut PROVE WireInv'
<1>1. /\ UNCHANGED <<ptmx, sending, receiving, over, dndTarget, accepted>>
      /\ DOMAIN receiving' \subseteq over' /\ (Dropped' <=> Dropped)
  BY DEF PtmxOut, WireInv, Dropped
<1>2. /\ wire \in Seq(Byte) /\ paste \in Seq(Byte) /\ norm \in Seq(Byte)
      /\ accepted \in Seq(Byte) /\ <<>> \in Seq(Byte)
      /\ wire \o paste \in Seq(Byte) /\ Len(paste) \in Nat
  BY DEF TypeOK
<1>3. OfTransfers(<<>>)
  BY EmptySeq DEF OfTransfers
<1>4. ASSUME NEW k \in 0 .. Len(paste),
             wire' = wire \o SubSeq(paste, 1, k), paste' = Rest(paste, k),
             UNCHANGED norm
      PROVE  WireInv'
  <2>. DEFINE d == SubSeq(paste, 1, k)
              r == Rest(paste, k)
  <2>1. /\ d \in Seq(Byte) /\ Len(d) = k
        /\ \A i \in 1 .. k : d[i] = paste[i]
    BY <1>2, SubSeqProperties
  <2>2. /\ r \in Seq(Byte) /\ Len(r) = Len(paste) - k
        /\ \A i \in 1 .. Len(paste) - k : r[i] = paste[k + i]
    <3>1. \A i \in k + 1 .. Len(paste) : paste[i] \in Byte
      BY <1>2
    <3>. QED  BY <1>2, <3>1, SubSeqProperties DEF Rest
  <2>. HIDE DEF d, r
  <2>3. wire' = wire \o d /\ paste' = r
    BY <1>4 DEF d, r
  <2>4. OfTransfers(d) /\ OfTransfers(r)
    <3>1. /\ \A i \in 1 .. k : i \in 1 .. Len(paste)
          /\ \A i \in 1 .. Len(paste) - k : k + i \in 1 .. Len(paste)
      BY <1>2, <1>4
    <3>. QED  BY <2>1, <2>2, <3>1 DEF OfTransfers, WireInv
  <2>5. InOrder(wire', norm', accepted')
    <3>1. InOrder(wire \o d, norm, accepted)
      BY <1>2, <2>1, <2>4, TransfersPass DEF WireInv
    <3>. QED  BY <1>1, <1>4, <2>3, <3>1
  <2>6. d \o r = paste
    <3>1. d \o r \in Seq(Byte) /\ Len(d \o r) = Len(paste)
      <4>1. d \o r \in Seq(Byte) /\ Len(d \o r) = Len(d) + Len(r)
        BY <2>1, <2>2, ConcatProperties
      <4>2. Len(d) + Len(r) = Len(paste)
        BY <1>2, <1>4, <2>1, <2>2
      <4>. QED  BY <4>1, <4>2
    <3>2. ASSUME NEW i \in 1 .. Len(paste) PROVE (d \o r)[i] = paste[i]
      <4>1. (d \o r)[i] = IF i <= k THEN d[i] ELSE r[i - k]
        BY <1>2, <2>1, <2>2, ConcatProperties
      <4>2. CASE i <= k
        BY <1>2, <2>1, <4>1, <4>2
      <4>3. CASE i > k
        <5>1. i - k \in 1 .. Len(paste) - k /\ k + (i - k) = i
          BY <1>2, <4>3
        <5>. QED  BY <1>2, <2>2, <4>1, <4>3, <5>1
      <4>4. i <= k \/ i > k
        BY <1>2, <1>4
      <4>. QED  BY <4>2, <4>3, <4>4
    <3>. QED  BY <1>2, <3>1, <3>2, SeqEqual
  <2>7. wire' \o paste' = wire \o paste
    <3>1. wire \in Seq(Byte) /\ d \in Seq(Byte) /\ r \in Seq(Byte)
      BY <1>2, <2>1, <2>2
    <3>2. (wire \o d) \o r = wire \o (d \o r)
      BY ONLY <3>1, ConcatAssociative
    <3>. QED  BY <2>3, <2>6, <3>2
  <2>8. Dropped' \/ Whole(wire \o paste)'
    BY <1>1, <2>7 DEF WireInv, Whole
  <2>. QED  BY <1>1, <1>4, <2>3, <2>4, <2>5, <2>8 DEF WireInv
<1>5. CASE PtmxOutPaste
  <2>1. PICK k \in 1 .. Len(paste) - 1 :
          /\ wire' = wire \o SubSeq(paste, 1, k)
          /\ paste' = Rest(paste, k)
          /\ UNCHANGED norm
    BY <1>5 DEF PtmxOutPaste
  <2>2. k \in 0 .. Len(paste)
    BY <1>2
  <2>. QED  BY <1>4, <2>1, <2>2
<1>6. SubSeq(paste, 1, Len(paste)) = paste /\ Rest(paste, Len(paste)) = <<>>
  <2>1. /\ Rest(paste, Len(paste)) \in Seq(Byte)
        /\ Len(Rest(paste, Len(paste))) = 0
    BY <1>2, RestIsQueue
  <2>. QED  BY <1>2, <2>1, EmptySeq
<1>7. CASE PtmxOutHold
  <2>1. wire' = wire \o paste /\ paste' = <<>> /\ UNCHANGED norm
    BY <1>7 DEF PtmxOutHold
  <2>2. Len(paste) \in 0 .. Len(paste)
    BY <1>2
  <2>. QED  BY <1>4, <1>6, <2>1, <2>2
<1>8. CASE PtmxOutNorm
  <2>1. PICK k \in 0 .. Len(norm) :
          /\ wire' = wire \o paste \o SubSeq(norm, 1, k)
          /\ norm' = Rest(norm, k)
    BY <1>8 DEF PtmxOutNorm
  <2>. DEFINE d == SubSeq(norm, 1, k)
              r == Rest(norm, k)
              q == wire \o paste
  <2>2. /\ d \in Seq(Byte) /\ Len(d) = k
        /\ \A i \in 1 .. k : d[i] = norm[i]
    BY <1>2, SubSeqProperties
  <2>3. /\ r \in Seq(Byte) /\ Len(r) = Len(norm) - k
        /\ \A i \in 1 .. Len(norm) - k : r[i] = norm[k + i]
    <3>1. \A i \in k + 1 .. Len(norm) : norm[i] \in Byte
      BY <1>2
    <3>. QED  BY <1>2, <3>1, SubSeqProperties DEF Rest
  <2>4. InOrder(q, norm, accepted)
    BY <1>2, TransfersPass DEF WireInv
  <2>5. InOrder(q \o d, r, accepted)
    BY <1>2, <2>4, EventsWritten DEF WireInv
  <2>. HIDE DEF d, r
  <2>6. OfEvents(d) /\ OfEvents(r)
    <3>1. /\ \A i \in 1 .. k : i \in 1 .. Len(norm)
          /\ \A i \in 1 .. Len(norm) - k : k + i \in 1 .. Len(norm)
          /\ Len(norm) \in Nat
      BY <1>2, <2>1
    <3>. QED  BY <2>2, <2>3, <3>1 DEF OfEvents, WireInv
  <2>7. wire' = q \o d /\ norm' = r /\ paste' = <<>> /\ ~sending
    BY <1>8, <2>1 DEF PtmxOutNorm, d, r
  <2>. HIDE DEF q
  <2>8. q \in Seq(Byte) /\ q \o d \in Seq(Byte)
    BY <1>2, <2>2 DEF q
  <2>9. InOrder(wire', norm', accepted') /\ OfEvents(norm') /\ OfTransfers(paste')
    BY <1>1, <1>3, <2>5, <2>6, <2>7
  <2>10. Dropped' \/ Whole(wire \o paste)'
    <3>. SUFFICES ASSUME ~Dropped PROVE Whole(wire \o paste)'
      BY <1>1
    <3>1. (wire \o paste)' = q \o d
      BY <2>7, <2>8, ConcatEmptySeq
    <3>2. Whole(q)
      BY DEF WireInv, q
    <3>3. DOMAIN receiving = {}
      BY <2>7 DEF OneTransfer
    <3>4. ASSUME NEW t \in Pastes
          PROVE  InOnePiece(q \o d, t) /\ (t \notin over => Absent(q \o d, t))
      <4>1. Absent(d, t)
        BY <2>6, <3>4, SlaveIOAssumption DEF OfEvents, Absent
      <4>2. InOnePiece(q, t) /\ (t \notin over => Absent(q, t))
        BY <3>2, <3>4 DEF Whole
      <4>. QED  BY <2>2, <2>8, <4>1, <4>2, OthersAppended
    <3>. QED  BY <1>1, <3>1, <3>3, <3>4 DEF Whole
  <2>. QED  BY <1>1, <2>9, <2>10 DEF WireInv
<1>. QED  BY <1>5, <1>7, <1>8 DEF PtmxOut

\* What a transfer sends is its own.
LEMMA DataIsOfTransfer ==
    ASSUME NEW t \in Transfers
    PROVE  /\ \A n \in Nat : OnlyOf(Chunk(t, n), t)
           /\ \A data \in Opening(t) \cup Closing(t) : OnlyOf(data, t)
<1>1. \A n : OnlyOf(Chunk(t, n), t)
  BY DEF Chunk, OnlyOf
<1>2. OnlyOf(<<>>, t)
  BY EmptySeq DEF OnlyOf
<1>. QED  BY <1>1, <1>2 DEF Opening, Closing

LEMMA WireNext ==
    ASSUME TypeOK, WireInv, OneTransfer, [Next]_vars
    PROVE  WireInv'
<1>1. ASSUME NEW e \in Events, TermToSlave(e) PROVE WireInv'
  BY <1>1, EventWire
<1>2. ASSUME NEW t \in Pastes, PasteBegin(t) PROVE WireInv'
  <2>1. t \in Transfers
    BY DEF Transfers
  <2>2. PICK data \in Opening(t) : PasteDataToSlave(data, epollout)
    BY <1>2 DEF PasteBegin
  <2>3. data \in Seq(Byte) /\ OnlyOf(data, t)
    BY <2>1, DataIsBytes, DataIsOfTransfer
  <2>4. /\ over' = over \cup {t} /\ t \notin over /\ UNCHANGED <<norm, accepted>>
        /\ DOMAIN receiving' \subseteq DOMAIN receiving \cup {t}
    BY <1>2 DEF PasteBegin, Begin
  <2>5. Dropped \/ DOMAIN receiving = {}
    BY <1>2 DEF PasteBegin, MayBegin, OneTransfer
  <2>. QED  BY <2>1, <2>2, <2>3, <2>4, <2>5, TransferWire
<1>3. ASSUME NEW t \in Drops, DndEnter(t) \/ DndLeave(t) PROVE WireInv'
  BY <1>3 DEF DndEnter, DndLeave, WireInv, Whole, Dropped
<1>4. ASSUME NEW t \in Drops, DndDrop(t) PROVE WireInv'
  <2>1. t \in Transfers
    BY DEF Transfers
  <2>2. PICK data \in Opening(t) : PasteDataToSlave(data, epollout)
    BY <1>4 DEF DndDrop
  <2>3. data \in Seq(Byte) /\ OnlyOf(data, t)
    BY <2>1, DataIsBytes, DataIsOfTransfer
  <2>4. /\ over' = over \cup {t} /\ UNCHANGED <<norm, accepted>>
        /\ DOMAIN receiving' \subseteq DOMAIN receiving \cup {t}
    BY <1>4 DEF DndDrop, Begin
  <2>. QED  BY <1>4, <2>1, <2>2, <2>3, <2>4, TransferWire
<1>5. ASSUME NEW t \in Transfers, PasteData(t) PROVE WireInv'
  <2>. DEFINE data == Chunk(t, receiving[t] + 1)
  <2>1. receiving[t] + 1 \in Nat /\ t \in DOMAIN receiving
    BY <1>5, SlaveIOAssumption DEF PasteData, TypeOK
  <2>2. data \in Seq(Byte) /\ OnlyOf(data, t)
    BY <2>1, DataIsBytes, DataIsOfTransfer
  <2>3. /\ PasteDataToSlave(data, epollout) /\ UNCHANGED <<norm, accepted, over>>
        /\ DOMAIN receiving' = DOMAIN receiving
    BY <1>5 DEF PasteData
  <2>4. over' = over \cup {t}
    BY <2>1, <2>3 DEF WireInv
  <2>. HIDE DEF data
  <2>. QED  BY <2>1, <2>2, <2>3, <2>4, TransferWire
<1>6. ASSUME NEW t \in Transfers, PasteDone(t) PROVE WireInv'
  <2>1. PICK data \in Closing(t) : PasteDataToSlave(data, epollout \/ Rearm)
    BY <1>6 DEF PasteDone
  <2>2. data \in Seq(Byte) /\ OnlyOf(data, t)
    BY DataIsBytes, DataIsOfTransfer
  <2>3. /\ UNCHANGED <<norm, accepted, over>> /\ t \in DOMAIN receiving
        /\ DOMAIN receiving' \subseteq DOMAIN receiving
    BY <1>6 DEF PasteDone
  <2>4. over' = over \cup {t}
    BY <2>3 DEF WireInv
  <2>. QED  BY <2>1, <2>2, <2>3, <2>4, TransferWire
<1>7. CASE PtmxOut
  BY <1>7, PtmxOutWire
<1>8. CASE PtmxHup
  BY <1>8 DEF PtmxHup, WireInv, Whole, Dropped
<1>9. CASE UNCHANGED vars
  BY <1>9 DEF vars, WireInv, Whole, Dropped
<1>. QED
  BY <1>1, <1>2, <1>3, <1>4, <1>5, <1>6, <1>7, <1>8, <1>9 DEF Next

LEMMA WireInit == Init => WireInv
<1>. SUFFICES ASSUME Init PROVE WireInv
  OBVIOUS
<1>1. /\ wire = <<>> /\ norm = <<>> /\ paste = <<>> /\ accepted = <<>>
      /\ DOMAIN receiving = {} /\ over = {}
  BY DEF Init
<1>2. Len(<<>>) = 0 /\ <<>> \o <<>> = <<>>
  BY EmptySeq, ConcatEmptySeq
<1>3. Taken(<<>>, 0) = 0
  BY TakenBound
<1>. QED
  BY <1>1, <1>2, <1>3 DEF WireInv, InOrder, OfEvents, OfTransfers, Whole, InOnePiece,
                          Absent

\* Events reach the application in order, each byte once, and, unless a drag was
\* dropped, no event and no other paste appears inside a paste, for any number
\* and length of events and pastes and however much the PTY takes of each write.
THEOREM WireIsInOrder == Spec => []WireInOrder
<1>1. Inv /\ OneTransfer /\ WireInv /\ [Next]_vars => WireInv'
  BY WireNext DEF Inv
<1>2. Inv /\ WireInv => WireInOrder
  <2>. SUFFICES ASSUME Inv, WireInv PROVE WireInOrder
    OBVIOUS
  <2>1. EventsInOrder
    <3>1. \A i : Taken(wire, i) = EventBytesUpTo(i)
      BY DEF Taken, EventsOf, EventBytesUpTo
    <3>. QED  BY <3>1 DEF WireInv, InOrder, EventsInOrder
  <2>2. ASSUME ~Dropped, NEW t \in Pastes PROVE Unmixed(t)
    <3>1. InOnePiece(wire \o paste, t)
      BY <2>2 DEF WireInv, Whole
    <3>2. /\ Len(wire \o paste) = Len(wire) + Len(paste)
          /\ Len(wire) \in Nat /\ Len(paste) \in Nat
          /\ \A i \in 1 .. Len(wire) : (wire \o paste)[i] = wire[i]
      BY ConcatProperties DEF Inv, TypeOK
    <3>3. \A i \in 1 .. Len(wire) : i \in 1 .. Len(wire \o paste)
      BY <3>2
    <3>4. \A i, j \in 1 .. Len(wire) : \A k \in i .. j : k \in 1 .. Len(wire)
      BY <3>2
    <3>. QED  BY <3>1, <3>2, <3>3, <3>4 DEF InOnePiece, Unmixed
  <2>. QED  BY <2>1, <2>2 DEF WireInOrder, PasteUnmixed
<1>. QED  BY <1>1, <1>2, WireInit, InvHolds, OneTransferHolds, PTL DEF Spec

-----------------------------------------------------------------------------
(* 2. The parser.                                                          *)

States == {"ground", "escape", "escape_intermediate",
           "csi_entry", "csi_param", "csi_intermediate", "csi_ignore", "osc_string",
           "dcs_entry", "dcs_param", "dcs_intermediate", "dcs_ignore",
           "dcs_passthrough", "sos_pm_apc_string",
           "utf8_21", "utf8_31", "utf8_32", "utf8_41", "utf8_42", "utf8_43"}

Parameter == [value : Nat, subs : Seq(Nat), at : {"value", "sub", "dummy"}]

InBounds(v) ==
  /\ Len(v.subs) <= MaxSubs
  /\ v.at = "value" <=> v.subs = <<>>
  /\ v.at = "dummy" => Len(v.subs) = MaxSubs

Handlers == {"none", "sixel", "decrqss", "xtgettcap", "graphics", "sync_begin", "sync_end"}

Records == [params : Seq(Parameter), dummy : BOOLEAN, private : Seq(Nat), utf8 : Nat,
            osc : Seq(Nat), handler : Handlers, dcs : Seq(Nat)]

Good(p) ==
  /\ p \in Records
  /\ Len(p.params) <= MaxParams /\ Len(p.private) <= MaxPrivates
  /\ p.dummy /\ p.params # <<>> => Len(p.params) = MaxParams
  /\ \A i \in 1 .. Len(p.params) : InBounds(p.params[i])

Idle(p) == p.handler = "none" /\ p.dcs = <<>>

\* Good, with the handlers and their data that p has.
Keeps(p, q) == Good(q) /\ q.handler = p.handler /\ q.dcs = p.dcs

ParserInv ==
  /\ state \in States
  /\ Good(Parsed)
  /\ state # "dcs_passthrough" => Idle(Parsed)

\* A step's outcome that keeps the invariant.
Sound(r) ==
  /\ r.state \in States
  /\ Good(r.parsed)
  /\ r.state # "dcs_passthrough" => Idle(r.parsed)

-----------------------------------------------------------------------------
(* The actions of vt.c. *)

LEMMA Positive ==
    /\ Bytes \subseteq 0 .. 255
    /\ MaxParams \in Nat /\ MaxParams > 0 /\ MaxSubs \in Nat /\ MaxSubs > 0
    /\ MaxPrivates \in Nat /\ MaxPrivates > 0 /\ ValueMod \in Nat /\ ValueMod > 0
    /\ MaxUnit \in Nat
BY ParserConstants

LEMMA ClearKeeps ==
  ASSUME NEW p, Good(p) PROVE Keeps(p, Clear(p))
<1>. DEFINE none == <<>>
<1>0. none \in Seq(Parameter) /\ none \in Seq(Nat) /\ Len(none) = 0
  OBVIOUS
<1>3. Clear(p) = [p EXCEPT !.params = none, !.private = none]
  BY DEF Clear
<1>4. none = <<>>
  OBVIOUS
<1>. HIDE DEF none
<1>1. Clear(p) \in Records
  BY <1>0, <1>3 DEF Good, Records
<1>2. /\ Clear(p).params = none /\ Clear(p).private = none
      /\ Clear(p).handler = p.handler /\ Clear(p).dcs = p.dcs
  BY <1>3 DEF Good, Records
<1>. QED  BY <1>0, <1>1, <1>2, <1>4, Positive DEF Keeps, Good

LEMMA CollectKeeps ==
  ASSUME NEW p, Good(p), NEW b \in Nat PROVE Keeps(p, Collect(p, b))
<1>1. CASE Len(p.private) < MaxPrivates
  <2>1. Collect(p, b) = [p EXCEPT !.private = Append(p.private, b)]
    BY <1>1 DEF Collect
  <2>2. p.private \in Seq(Nat)
    BY DEF Good, Records
  <2>3. Append(p.private, b) \in Seq(Nat) /\ Len(Append(p.private, b)) = Len(p.private) + 1
    BY <2>2
  <2>4. Collect(p, b) \in Records
    BY <2>1, <2>3 DEF Good, Records
  <2>5. /\ Collect(p, b).private = Append(p.private, b)
        /\ Collect(p, b).params = p.params /\ Collect(p, b).dummy = p.dummy
        /\ Collect(p, b).handler = p.handler /\ Collect(p, b).dcs = p.dcs
    BY <2>1 DEF Good, Records
  <2>. QED  BY <1>1, <2>2, <2>3, <2>4, <2>5, Positive DEF Keeps, Good
<1>2. CASE ~(Len(p.private) < MaxPrivates)
  BY <1>2 DEF Collect, Keeps
<1>. QED  BY <1>1, <1>2

\* With room in the array, a parameter may be added, and cur points to it.
LEMMA AddKeeps ==
  ASSUME NEW p, Good(p), NEW q, Len(p.params) < MaxParams,
         q = [p EXCEPT !.params = Append(p.params, NewParam), !.dummy = FALSE]
  PROVE  Keeps(p, q) /\ q.params # <<>>
<1>1. p.params \in Seq(Parameter)
  BY DEF Good, Records
<1>2. NewParam \in Parameter /\ InBounds(NewParam)
  BY Positive DEF NewParam, Parameter, InBounds
<1>3. /\ Append(p.params, NewParam) \in Seq(Parameter)
      /\ Len(Append(p.params, NewParam)) = Len(p.params) + 1
      /\ \A i \in 1 .. Len(p.params) : Append(p.params, NewParam)[i] = p.params[i]
      /\ Append(p.params, NewParam)[Len(p.params) + 1] = NewParam
  BY <1>1, <1>2
<1>4. q \in Records
  BY <1>3 DEF Good, Records
<1>5. /\ q.params = Append(p.params, NewParam) /\ q.dummy = FALSE
      /\ q.private = p.private /\ q.handler = p.handler /\ q.dcs = p.dcs
  BY DEF Good, Records
<1>6. ASSUME NEW i \in 1 .. Len(q.params) PROVE InBounds(q.params[i])
  BY <1>1, <1>2, <1>3, <1>5, <1>6 DEF Good
<1>. QED  BY <1>1, <1>3, <1>4, <1>5, <1>6, Positive DEF Keeps, Good

LEMMA LazyInitKeeps ==
  ASSUME NEW p, Good(p)
  PROVE  Keeps(p, LazyInit(p)) /\ LazyInit(p).params # <<>>
<1>1. CASE p.params = <<>>
  <2>1. Append(p.params, NewParam) = <<NewParam>>
    BY <1>1
  <2>2. LazyInit(p) = [p EXCEPT !.params = Append(p.params, NewParam), !.dummy = FALSE]
    BY <1>1, <2>1 DEF LazyInit
  <2>3. Len(p.params) < MaxParams
    BY <1>1, Positive
  <2>. QED  BY <2>2, <2>3, AddKeeps
<1>2. CASE p.params # <<>>
  BY <1>2 DEF LazyInit, Keeps
<1>. QED  BY <1>1, <1>2

LEMMA ParamNewKeeps ==
  ASSUME NEW p, Good(p) PROVE Keeps(p, ParamNew(p))
<1>. DEFINE q == LazyInit(p)
<1>1. Keeps(p, q) /\ q.params # <<>>
  BY LazyInitKeeps
<1>2. Good(q)
  BY <1>1 DEF Keeps
<1>3. ParamNew(p) = IF Len(q.params) >= MaxParams THEN [q EXCEPT !.dummy = TRUE]
                    ELSE [q EXCEPT !.params = Append(q.params, NewParam), !.dummy = FALSE]
  BY DEF ParamNew
<1>. HIDE DEF q
<1>4. q.params \in Seq(Parameter)
  BY <1>2 DEF Good, Records
<1>5. CASE Len(q.params) >= MaxParams
  <2>1. ParamNew(p) = [q EXCEPT !.dummy = TRUE]
    BY <1>3, <1>5
  <2>2. ParamNew(p) \in Records
    BY <1>2, <2>1 DEF Good, Records
  <2>3. /\ ParamNew(p).params = q.params /\ ParamNew(p).private = q.private
        /\ ParamNew(p).handler = q.handler /\ ParamNew(p).dcs = q.dcs
    BY <1>2, <2>1 DEF Good, Records
  <2>4. Len(q.params) = MaxParams
    BY <1>2, <1>4, <1>5, Positive DEF Good
  <2>. QED  BY <1>1, <1>2, <2>2, <2>3, <2>4 DEF Keeps, Good
<1>6. CASE ~(Len(q.params) >= MaxParams)
  <2>1. Len(q.params) < MaxParams
    BY <1>4, <1>6, Positive
  <2>2. ParamNew(p) = [q EXCEPT !.params = Append(q.params, NewParam), !.dummy = FALSE]
    BY <1>3, <1>6
  <2>3. Keeps(q, ParamNew(p))
    BY <1>2, <2>1, <2>2, AddKeeps
  <2>. QED  BY <1>1, <2>3 DEF Keeps
<1>. QED  BY <1>5, <1>6

\* The parameter that was begun last may be changed to any in bounds.
LEMMA ChangeKeeps ==
  ASSUME NEW p, Good(p), p.params # <<>>, NEW v \in Parameter, InBounds(v), NEW q,
         q = [p EXCEPT !.params = [p.params EXCEPT ![Len(p.params)] = v]]
  PROVE  Keeps(p, q)
<1>1. p.params \in Seq(Parameter) /\ Len(p.params) \in Nat \ {0}
  BY DEF Good, Records
<1>. DEFINE s == [p.params EXCEPT ![Len(p.params)] = v]
<1>2. /\ s \in Seq(Parameter) /\ Len(s) = Len(p.params)
      /\ s[Len(p.params)] = v
      /\ \A i \in 1 .. Len(p.params) : i # Len(p.params) => s[i] = p.params[i]
  BY <1>1
<1>. HIDE DEF s
<1>3. q = [p EXCEPT !.params = s]
  BY DEF s
<1>4. q \in Records
  BY <1>2, <1>3 DEF Good, Records
<1>5. /\ q.params = s /\ q.dummy = p.dummy /\ q.private = p.private
      /\ q.handler = p.handler /\ q.dcs = p.dcs
  BY <1>3 DEF Good, Records
<1>6. ASSUME NEW i \in 1 .. Len(q.params) PROVE InBounds(q.params[i])
  BY <1>2, <1>5, <1>6 DEF Good
<1>. QED  BY <1>1, <1>2, <1>4, <1>5, <1>6 DEF Keeps, Good

\* The parameter that cur points to.
LEMMA Current ==
  ASSUME NEW p, Good(p), p.params # <<>>
  PROVE  p.params[Len(p.params)] \in Parameter /\ InBounds(p.params[Len(p.params)])
<1>1. p.params \in Seq(Parameter) /\ Len(p.params) \in Nat \ {0}
  BY DEF Good, Records
<1>. QED  BY <1>1 DEF Good

LEMMA ParamNewSubparamKeeps ==
  ASSUME NEW p, Good(p) PROVE Keeps(p, ParamNewSubparam(p))
<1>. DEFINE q == LazyInit(p)
            v == q.params[Len(q.params)]
            w == IF Len(v.subs) >= MaxSubs THEN [v EXCEPT !.at = "dummy"]
                 ELSE [v EXCEPT !.subs = Append(v.subs, 0), !.at = "sub"]
<1>1. Keeps(p, q) /\ q.params # <<>>
  BY LazyInitKeeps
<1>2. Good(q)
  BY <1>1 DEF Keeps
<1>3. ParamNewSubparam(p) = IF q.dummy THEN q
                            ELSE [q EXCEPT !.params = [q.params EXCEPT ![Len(q.params)] = w]]
  BY DEF ParamNewSubparam, OnCurrent, Last
<1>4. v \in Parameter /\ InBounds(v)
  BY <1>1, <1>2, Current
<1>5. w \in Parameter /\ InBounds(w)
  <2>. HIDE DEF v
  <2>1. v.subs \in Seq(Nat) /\ Len(v.subs) \in Nat
    BY <1>4 DEF Parameter
  <2>2. CASE Len(v.subs) >= MaxSubs
    <3>1. w = [v EXCEPT !.at = "dummy"]
      BY <2>2
    <3>2. w \in Parameter /\ w.subs = v.subs /\ w.at = "dummy"
      BY <1>4, <3>1 DEF Parameter
    <3>3. Len(v.subs) = MaxSubs
      BY <1>4, <2>1, <2>2, Positive DEF InBounds
    <3>4. v.subs # <<>>
      BY <3>3, Positive
    <3>. QED  BY <3>2, <3>3, <3>4, Positive DEF InBounds
  <2>3. CASE ~(Len(v.subs) >= MaxSubs)
    <3>1. w = [v EXCEPT !.subs = Append(v.subs, 0), !.at = "sub"]
      BY <2>3
    <3>4. Append(v.subs, 0) \in Seq(Nat)
      BY <2>1
    <3>2. w \in Parameter /\ w.subs = Append(v.subs, 0) /\ w.at = "sub"
      BY <1>4, <3>1, <3>4 DEF Parameter
    <3>3. Len(w.subs) = Len(v.subs) + 1 /\ w.subs # <<>>
      BY <2>1, <3>2
    <3>. QED  BY <2>1, <2>3, <3>2, <3>3, Positive DEF InBounds
  <2>. QED  BY <2>2, <2>3
<1>. HIDE DEF q, v, w
<1>6. CASE q.dummy
  BY <1>1, <1>3, <1>6
<1>7. CASE ~q.dummy
  <2>1. Keeps(q, ParamNewSubparam(p))
    BY <1>1, <1>2, <1>3, <1>5, <1>7, ChangeKeeps
  <2>. QED  BY <1>1, <2>1 DEF Keeps
<1>. QED  BY <1>6, <1>7

LEMMA ParamKeeps ==
  ASSUME NEW p, Good(p), NEW b \in Digits PROVE Keeps(p, Param(p, b))
<1>. DEFINE shifted(n) == (n * 10 + (b - 48)) % ValueMod
            q == LazyInit(p)
            v == q.params[Len(q.params)]
            w == CASE v.at = "value" -> [v EXCEPT !.value = shifted(v.value)]
                   [] v.at = "sub" ->
                        [v EXCEPT !.subs = [v.subs EXCEPT ![Len(v.subs)] = shifted(v.subs[Len(v.subs)])]]
                   [] v.at = "dummy" -> v
<1>1. Keeps(p, q) /\ q.params # <<>>
  BY LazyInitKeeps
<1>2. Good(q)
  BY <1>1 DEF Keeps
<1>3. Param(p, b) = IF q.dummy THEN q
                    ELSE [q EXCEPT !.params = [q.params EXCEPT ![Len(q.params)] = w]]
  BY DEF Param, OnCurrent, Last
<1>4. v \in Parameter /\ InBounds(v)
  BY <1>1, <1>2, Current
<1>5. ASSUME NEW n \in Nat PROVE shifted(n) \in Nat
  BY Positive DEF Digits
<1>6. w \in Parameter /\ InBounds(w)
  <2>. HIDE DEF v, shifted
  <2>1. v.value \in Nat /\ v.subs \in Seq(Nat) /\ v.at \in {"value", "sub", "dummy"}
    BY <1>4 DEF Parameter
  <2>2. CASE v.at = "value"
    <3>1. w = [v EXCEPT !.value = shifted(v.value)]
      BY <2>2
    <3>2. w \in Parameter /\ w.subs = v.subs /\ w.at = v.at
      BY <1>4, <1>5, <2>1, <3>1 DEF Parameter
    <3>. QED  BY <1>4, <3>2 DEF InBounds
  <2>3. CASE v.at = "sub"
    <3>1. v.subs # <<>>
      BY <1>4, <2>3 DEF InBounds
    <3>2. Len(v.subs) \in 1 .. Len(v.subs)
      BY <2>1, <3>1
    <3>. DEFINE n == v.subs[Len(v.subs)]
                m == shifted(n)
                s == [v.subs EXCEPT ![Len(v.subs)] = m]
    <3>8. n \in Nat
      BY <2>1, <3>2
    <3>3. m \in Nat
      BY <1>5, <3>8
    <3>. HIDE DEF m
    <3>4. s \in Seq(Nat) /\ Len(s) = Len(v.subs)
      BY <2>1, <3>2, <3>3, ExceptSeq
    <3>. HIDE DEF s
    <3>5. w = [v EXCEPT !.subs = s]
      BY <2>3 DEF s, m
    <3>6. w \in Parameter /\ w.subs = s /\ w.at = v.at
      BY <1>4, <3>4, <3>5 DEF Parameter
    <3>7. s # <<>>
      BY <2>1, <3>1, <3>4
    <3>. QED  BY <1>4, <2>3, <3>4, <3>6, <3>7 DEF InBounds
  <2>4. CASE v.at = "dummy"
    BY <1>4, <2>4
  <2>. QED  BY <2>1, <2>2, <2>3, <2>4
<1>. HIDE DEF q, v, w
<1>7. CASE q.dummy
  BY <1>1, <1>3, <1>7
<1>8. CASE ~q.dummy
  <2>1. Keeps(q, Param(p, b))
    BY <1>1, <1>2, <1>3, <1>6, <1>8, ChangeKeeps
  <2>. QED  BY <1>1, <2>1 DEF Keeps
<1>. QED  BY <1>7, <1>8

LEMMA HookKeeps ==
  ASSUME NEW p, Good(p), NEW b PROVE Good(Hook(p, b))
<1>1. HandlerOf(p.private, FirstParam(p), b) \in Handlers
  BY DEF HandlerOf, Handlers
<1>2. Hook(p, b) \in Records
  BY <1>1 DEF Hook, Good, Records
<1>3. /\ Hook(p, b).params = p.params /\ Hook(p, b).private = p.private
      /\ Hook(p, b).dummy = p.dummy
  BY DEF Hook, Good, Records
<1>. QED  BY <1>2, <1>3 DEF Good

LEMMA PutKeeps ==
  ASSUME NEW p, Good(p), NEW b \in Nat PROVE Good(Put(p, b))
<1>1. CASE Len(p.dcs) < Room(p.handler)
  <2>1. p.dcs \in Seq(Nat)
    BY DEF Good, Records
  <2>2. Append(p.dcs, b) \in Seq(Nat)
    BY <2>1
  <2>3. Put(p, b) = [p EXCEPT !.dcs = Append(p.dcs, b)]
    BY <1>1 DEF Put
  <2>4. Put(p, b) \in Records
    BY <2>2, <2>3 DEF Good, Records
  <2>5. /\ Put(p, b).params = p.params /\ Put(p, b).private = p.private
        /\ Put(p, b).dummy = p.dummy
    BY <2>3 DEF Good, Records
  <2>. QED  BY <2>4, <2>5 DEF Good
<1>2. CASE ~(Len(p.dcs) < Room(p.handler))
  BY <1>2 DEF Put
<1>. QED  BY <1>1, <1>2

LEMMA UnhookReleases ==
  ASSUME NEW p, Good(p) PROVE Good(Unhook(p)) /\ Idle(Unhook(p))
<1>. DEFINE nothing == <<>>
<1>1. nothing \in Seq(Nat) /\ nothing = <<>>
  OBVIOUS
<1>2. Unhook(p) = [p EXCEPT !.handler = "none", !.dcs = nothing]
  BY DEF Unhook
<1>. HIDE DEF nothing
<1>3. Unhook(p) \in Records
  BY <1>1, <1>2 DEF Good, Records, Handlers
<1>4. /\ Unhook(p).params = p.params /\ Unhook(p).private = p.private
      /\ Unhook(p).dummy = p.dummy
      /\ Unhook(p).handler = "none" /\ Unhook(p).dcs = nothing
  BY <1>2 DEF Good, Records
<1>. QED  BY <1>1, <1>3, <1>4 DEF Good, Idle

LEMMA Utf8Keeps ==
  ASSUME Good(Parsed), NEW n \in Nat PROVE Keeps(Parsed, Decoded(n))
<1>. DEFINE p == Parsed
<1>1. Good(p) /\ Decoded(n) = [p EXCEPT !.utf8 = n]
  BY DEF Decoded
<1>. HIDE DEF p
<1>2. Keeps(p, Decoded(n))
  BY <1>1 DEF Keeps, Good, Records
<1>. QED  BY <1>2 DEF p

LEMMA OscKeeps ==
  ASSUME NEW p, Good(p), NEW s \in Seq(Nat) PROVE Keeps(p, [p EXCEPT !.osc = s])
BY DEF Keeps, Good, Records

-----------------------------------------------------------------------------
(* The states' steps. *)

LEMMA ToSound ==
  ASSUME NEW s \in States, NEW p, Good(p), s # "dcs_passthrough" => Idle(p), NEW events
  PROVE  Sound(To(s, p, events))
BY DEF To, Sound

LEMMA KeepsSound ==
  ASSUME NEW s \in States, NEW p, Idle(p), NEW q, Keeps(p, q), NEW events
  PROVE  Sound(To(s, q, events))
BY ToSound DEF Keeps, Idle

\* While no handlers are set, a state may go anywhere.
LEMMA AnywhereSound ==
  ASSUME Good(Parsed), Idle(Parsed), NEW s \in States, NEW b \in 0 .. 255
  PROVE  Sound(Anywhere(s, b))
<1>1. Keeps(Parsed, Parsed) /\ Keeps(Parsed, Clear(Parsed))
  BY ClearKeeps DEF Keeps
<1>2. "ground" \in States /\ "escape" \in States
  BY DEF States
<1>3. /\ \A events : Sound(To("ground", Parsed, events))
      /\ \A events : Sound(To("escape", Clear(Parsed), events))
      /\ \A events : Sound(To(s, Parsed, events))
  BY <1>1, <1>2, KeepsSound
<1>. QED  BY <1>3, Zenon DEF Anywhere

LEMMA GroundSound ==
  ASSUME Good(Parsed), Idle(Parsed), NEW s \in States, NEW b \in 0 .. 255
  PROVE  Sound(Ground(s, b))
<1>1. Keeps(Parsed, Parsed)
  BY DEF Keeps
<1>2. High(b) \in Nat
  BY DEF High
<1>3. Keeps(Parsed, Decoded(High(b)))
  BY <1>2, Utf8Keeps
<1>4. {"ground", "utf8_21", "utf8_31", "utf8_41"} \subseteq States
  BY DEF States
<1>5. Sound(Anywhere(s, b))
  BY AnywhereSound
<1>6. /\ \A events : Sound(To("ground", Parsed, events))
      /\ \A events : Sound(To("utf8_21", Decoded(High(b)), events))
      /\ \A events : Sound(To("utf8_31", Decoded(High(b)), events))
      /\ \A events : Sound(To("utf8_41", Decoded(High(b)), events))
  BY <1>1, <1>3, <1>4, KeepsSound
<1>. QED  BY <1>5, <1>6, Zenon DEF Ground

\* action_osc_start()
LEMMA OscStartKeeps ==
  ASSUME Good(Parsed) PROVE Keeps(Parsed, [Parsed EXCEPT !.osc = <<>>])
<1>. DEFINE nothing == <<>>
<1>1. nothing \in Seq(Nat)
  OBVIOUS
<1>. HIDE DEF nothing
<1>2. Keeps(Parsed, [Parsed EXCEPT !.osc = nothing])
  BY <1>1, OscKeeps
<1>. QED  BY <1>2 DEF nothing

LEMMA EscapeSound ==
  ASSUME Good(Parsed), Idle(Parsed), NEW b \in 0 .. 255
  PROVE  Sound(Escape(b)) /\ Sound(EscapeIntermediate(b))
<1>1. /\ Keeps(Parsed, Parsed)
      /\ Keeps(Parsed, Clear(Parsed))
      /\ Keeps(Parsed, Collect(Parsed, b))
      /\ Keeps(Parsed, [Parsed EXCEPT !.osc = <<>>])
  <2>1. b \in Nat
    OBVIOUS
  <2>2. Keeps(Parsed, Parsed)
    BY DEF Keeps
  <2>3. Keeps(Parsed, Clear(Parsed))
    BY ClearKeeps
  <2>4. Keeps(Parsed, Collect(Parsed, b))
    BY <2>1, CollectKeeps
  <2>. QED  BY <2>2, <2>3, <2>4, OscStartKeeps
<1>2. /\ {"ground", "escape", "escape_intermediate"} \subseteq States
      /\ {"dcs_entry", "sos_pm_apc_string", "csi_entry", "osc_string"} \subseteq States
  BY DEF States
<1>3. Sound(Anywhere("escape", b)) /\ Sound(Anywhere("escape_intermediate", b))
  BY <1>2, AnywhereSound
<1>4. /\ \A events : Sound(To("escape", Parsed, events))
      /\ \A events : Sound(To("escape_intermediate", Parsed, events))
      /\ \A events : Sound(To("escape_intermediate", Collect(Parsed, b), events))
      /\ \A events : Sound(To("dcs_entry", Clear(Parsed), events))
      /\ \A events : Sound(To("csi_entry", Clear(Parsed), events))
      /\ \A events : Sound(To("sos_pm_apc_string", Parsed, events))
      /\ \A events : Sound(To("osc_string", [Parsed EXCEPT !.osc = <<>>], events))
      /\ \A events : Sound(To("ground", Parsed, events))
  BY <1>1, <1>2, KeepsSound
<1>5. Sound(Escape(b))
  BY <1>3, <1>4, Zenon DEF Escape
<1>6. Sound(EscapeIntermediate(b))
  BY <1>3, <1>4, Zenon DEF EscapeIntermediate
<1>. QED  BY <1>5, <1>6

CsiStates == {"csi_entry", "csi_param", "csi_intermediate", "csi_ignore"}
DcsStates == {"dcs_entry", "dcs_param", "dcs_intermediate", "dcs_ignore"}

\* The parameters of a CSI or DCS sequence.
LEMMA HeaderKeeps ==
  ASSUME Good(Parsed), NEW b \in 0 .. 255
  PROVE  /\ Keeps(Parsed, Parsed)
         /\ Keeps(Parsed, Collect(Parsed, b))
         /\ b \in Digits => Keeps(Parsed, Param(Parsed, b))
         /\ Keeps(Parsed, ParamNew(Parsed))
         /\ Keeps(Parsed, ParamNewSubparam(Parsed))
<1>1. b \in Nat
  OBVIOUS
<1>2. Keeps(Parsed, Parsed)
  BY DEF Keeps
<1>3. Keeps(Parsed, Collect(Parsed, b))
  BY <1>1, CollectKeeps
<1>4. b \in Digits => Keeps(Parsed, Param(Parsed, b))
  BY ParamKeeps
<1>5. Keeps(Parsed, ParamNew(Parsed)) /\ Keeps(Parsed, ParamNewSubparam(Parsed))
  BY ParamNewKeeps, ParamNewSubparamKeeps
<1>. QED  BY <1>2, <1>3, <1>4, <1>5

LEMMA CsiSound ==
  ASSUME Good(Parsed), Idle(Parsed), NEW s \in CsiStates, NEW b \in 0 .. 255
  PROVE  Sound(Csi(s, b))
<1>1. s \in States /\ ({"ground"} \cup CsiStates) \subseteq States
  BY DEF States, CsiStates
<1>2. /\ \A events : Sound(To(s, Parsed, events))
      /\ \A events : Sound(To("ground", Parsed, events))
      /\ \A events : Sound(To("csi_intermediate", Collect(Parsed, b), events))
      /\ \A events : Sound(To("csi_ignore", Parsed, events))
      /\ b \in Digits => \A events : Sound(To("csi_param", Param(Parsed, b), events))
      /\ \A events : Sound(To("csi_param", ParamNewSubparam(Parsed), events))
      /\ \A events : Sound(To("csi_param", ParamNew(Parsed), events))
      /\ \A events : Sound(To("csi_param", Collect(Parsed, b), events))
  BY <1>1, HeaderKeeps, KeepsSound DEF CsiStates
<1>3. Sound(Anywhere(s, b))
  BY <1>1, AnywhereSound
<1>. QED  BY <1>2, <1>3, Zenon DEF Csi

LEMMA OscStringSound ==
  ASSUME Good(Parsed), Idle(Parsed), NEW b \in 0 .. 255
  PROVE  Sound(OscString(b))
<1>1. {"ground", "escape", "osc_string"} \subseteq States
  BY DEF States
<1>2. Keeps(Parsed, Parsed) /\ Keeps(Parsed, Clear(Parsed))
  BY ClearKeeps DEF Keeps
<1>3. Keeps(Parsed, [Parsed EXCEPT !.osc = Append(@, b)])
  <2>1. Parsed.osc \in Seq(Nat)
    BY DEF Good, Records
  <2>2. Append(Parsed.osc, b) \in Seq(Nat)
    BY <2>1
  <2>. QED  BY <2>2, OscKeeps
<1>4. /\ \A events : Sound(To("ground", Parsed, events))
      /\ \A events : Sound(To("osc_string", Parsed, events))
      /\ \A events : Sound(To("escape", Clear(Parsed), events))
      /\ \A events : Sound(To("osc_string", [Parsed EXCEPT !.osc = Append(@, b)], events))
  BY <1>1, <1>2, <1>3, KeepsSound
<1>. QED  BY <1>4, Zenon DEF OscString

LEMMA DcsSound ==
  ASSUME Good(Parsed), Idle(Parsed), NEW s \in DcsStates, NEW b \in 0 .. 255
  PROVE  Sound(Dcs(s, b))
<1>1. s \in States /\ ({"dcs_passthrough"} \cup DcsStates) \subseteq States
  BY DEF States, DcsStates
<1>2. /\ \A events : Sound(To(s, Parsed, events))
      /\ \A events : Sound(To("dcs_intermediate", Collect(Parsed, b), events))
      /\ \A events : Sound(To("dcs_ignore", Parsed, events))
      /\ b \in Digits => \A events : Sound(To("dcs_param", Param(Parsed, b), events))
      /\ \A events : Sound(To("dcs_param", ParamNew(Parsed), events))
      /\ \A events : Sound(To("dcs_param", Collect(Parsed, b), events))
  BY <1>1, HeaderKeeps, KeepsSound DEF DcsStates
<1>3. Sound(Anywhere(s, b))
  BY <1>1, AnywhereSound
<1>4. \A events : Sound(To("dcs_passthrough", Hook(Parsed, b), events))
  BY <1>1, HookKeeps, ToSound
<1>. QED  BY <1>2, <1>3, <1>4, Zenon DEF Dcs

\* Here handlers may be set: whatever leaves the string unhooks them.
LEMMA DcsPassthroughSound ==
  ASSUME Good(Parsed), NEW b \in 0 .. 255
  PROVE  Sound(DcsPassthrough(b))
<1>1. {"ground", "escape", "dcs_passthrough"} \subseteq States
  BY DEF States
<1>2. Good(Unhook(Parsed)) /\ Idle(Unhook(Parsed))
  BY UnhookReleases
<1>3. Keeps(Unhook(Parsed), Clear(Unhook(Parsed)))
  BY <1>2, ClearKeeps
<1>4. b \in Nat
  OBVIOUS
<1>5. Good(Put(Parsed, b))
  BY <1>4, PutKeeps
<1>6. /\ \A events : Sound(To("dcs_passthrough", Put(Parsed, b), events))
      /\ \A events : Sound(To("dcs_passthrough", Parsed, events))
      /\ \A events : Sound(To("ground", Unhook(Parsed), events))
      /\ \A events : Sound(To("escape", Clear(Unhook(Parsed)), events))
  <2>1. /\ \A events : Sound(To("dcs_passthrough", Put(Parsed, b), events))
        /\ \A events : Sound(To("dcs_passthrough", Parsed, events))
    BY <1>1, <1>5, ToSound
  <2>2. \A events : Sound(To("ground", Unhook(Parsed), events))
    BY <1>1, <1>2, ToSound
  <2>3. \A events : Sound(To("escape", Clear(Unhook(Parsed)), events))
    BY <1>1, <1>2, <1>3, KeepsSound
  <2>. QED  BY <2>1, <2>2, <2>3
<1>. QED  BY <1>6, Zenon DEF DcsPassthrough

LEMMA SosPmApcStringSound ==
  ASSUME Good(Parsed), Idle(Parsed), NEW b \in 0 .. 255
  PROVE  Sound(SosPmApcString(b))
<1>1. "sos_pm_apc_string" \in States
  BY DEF States
<1>2. Sound(Anywhere("sos_pm_apc_string", b))
  BY <1>1, AnywhereSound
<1>3. \A events : Sound(To("sos_pm_apc_string", Parsed, events))
  BY <1>1, KeepsSound DEF Keeps
<1>. QED  BY <1>2, <1>3 DEF SosPmApcString

Utf8States == {"utf8_21", "utf8_31", "utf8_32", "utf8_41", "utf8_42", "utf8_43"}

LEMMA Utf8Sound ==
  ASSUME Good(Parsed), Idle(Parsed), NEW s \in Utf8States, NEW b \in 0 .. 255
  PROVE  Sound(Utf8(s, b))
<1>1. s \in States /\ ({"ground"} \cup Utf8States) \subseteq States
  BY DEF States, Utf8States
<1>2. CASE b \in Continuations
  <2>. DEFINE cp == utf8 + (b % 64) * Shift[s]
  <2>1. utf8 \in Nat
    BY DEF Good, Records, Parsed
  <2>2. Shift[s] \in {1, 64, 4096}
    BY DEF Shift, Utf8States
  <2>3. cp \in Nat
    BY <2>1, <2>2
  <2>4. Utf8(s, b) =
          CASE s = "utf8_31" -> To("utf8_32", Decoded(cp), <<>>)
            [] s = "utf8_41" -> To("utf8_42", Decoded(cp), <<>>)
            [] s = "utf8_42" -> To("utf8_43", Decoded(cp), <<>>)
            [] OTHER -> To("ground", Decoded(cp),
                           IF Printable(s, cp) THEN <<Character(cp)>> ELSE <<>>)
    BY <1>2, Zenon DEF Utf8
  <2>. HIDE DEF cp
  <2>5. Keeps(Parsed, Decoded(cp))
    BY <2>3, Utf8Keeps
  <2>6. /\ \A events : Sound(To("utf8_32", Decoded(cp), events))
        /\ \A events : Sound(To("utf8_42", Decoded(cp), events))
        /\ \A events : Sound(To("utf8_43", Decoded(cp), events))
        /\ \A events : Sound(To("ground", Decoded(cp), events))
    BY <1>1, <2>5, KeepsSound DEF Utf8States
  <2>. QED  BY <2>4, <2>6, Zenon
<1>3. CASE b \notin Continuations
  <2>. DEFINE again == Ground(s, b)
  <2>1. Sound(again)
    BY <1>1, GroundSound
  <2>2. Utf8(s, b) = [again EXCEPT !.events = <<Character(Replacement)>> \o again.events]
    BY <1>3 DEF Utf8
  <2>. HIDE DEF again
  <2>3. Utf8(s, b).state = again.state /\ Utf8(s, b).parsed = again.parsed
    BY <2>2
  <2>. QED  BY <2>1, <2>3 DEF Sound
<1>. QED  BY <1>2, <1>3

-----------------------------------------------------------------------------
(* The invariant. *)

LEMMA StepSound ==
  ASSUME ParserInv, NEW b \in Bytes PROVE Sound(Step(state, b))
<1>1. b \in 0 .. 255 /\ Good(Parsed) /\ state \in States
  BY Positive DEF ParserInv
<1>2. CASE state = "dcs_passthrough"
  BY <1>1, <1>2, DcsPassthroughSound DEF Step
<1>3. CASE state # "dcs_passthrough"
  <2>1. Idle(Parsed)
    BY <1>3 DEF ParserInv
  <2>2. /\ Sound(Ground(state, b))
        /\ Sound(Escape(b)) /\ Sound(EscapeIntermediate(b))
        /\ state \in CsiStates => Sound(Csi(state, b))
        /\ Sound(OscString(b))
        /\ state \in DcsStates => Sound(Dcs(state, b))
        /\ Sound(SosPmApcString(b))
        /\ state \in Utf8States => Sound(Utf8(state, b))
    BY <1>1, <2>1, GroundSound, EscapeSound, CsiSound, OscStringSound, DcsSound,
       SosPmApcStringSound, Utf8Sound
  <2>3. \/ state \in {"ground", "escape", "escape_intermediate", "osc_string", "sos_pm_apc_string"}
        \/ state \in CsiStates \/ state \in DcsStates \/ state \in Utf8States
    BY <1>1, <1>3 DEF States, CsiStates, DcsStates, Utf8States
  <2>. QED  BY <2>2, <2>3 DEF Step, CsiStates, DcsStates, Utf8States
<1>. QED  BY <1>2, <1>3

LEMMA ClearedGood == Good(Cleared) /\ Idle(Cleared)
<1>. DEFINE nothing == <<>>
<1>1. /\ nothing \in Seq(Parameter) /\ nothing \in Seq(Nat) /\ Len(nothing) = 0
      /\ nothing = <<>>
  OBVIOUS
<1>2. Cleared = [params |-> nothing, dummy |-> FALSE, private |-> nothing, utf8 |-> 0,
                 osc |-> nothing, handler |-> "none", dcs |-> nothing]
  BY DEF Cleared
<1>. HIDE DEF nothing
<1>3. Cleared \in Records
  BY <1>1, <1>2 DEF Records, Handlers
<1>. QED  BY <1>1, <1>2, <1>3, Positive DEF Good, Idle

LEMMA InvInit == ParserInit => ParserInv
<1>. SUFFICES ASSUME ParserInit PROVE ParserInv
  OBVIOUS
<1>1. Parsed = Cleared
  BY DEF ParserInit, Parsed, Cleared
<1>. QED  BY <1>1, ClearedGood DEF ParserInit, ParserInv, States

\* What vt_from_slave() stores of an outcome.
LEMMA ByteKeeps ==
  ASSUME ParserInv, NEW b \in Bytes, ParseByte(b) PROVE ParserInv'
<1>. DEFINE r == Step(state, b)
            p == IF Resets(r.events) THEN Cleared ELSE r.parsed
<1>1. Sound(r)
  BY StepSound
<1>2. /\ state' = r.state
      /\ params' = p.params /\ dummy' = p.dummy /\ private' = p.private
      /\ utf8' = IF r.state = "ground" THEN 0 ELSE p.utf8
      /\ osc' = IF r.state = "osc_string" THEN p.osc ELSE <<>>
      /\ handler' = p.handler /\ dcs' = p.dcs
  BY Zenon DEF ParseByte
<1>. HIDE DEF r
<1>3. Good(p) /\ (r.state # "dcs_passthrough" => Idle(p))
  BY <1>1, ClearedGood DEF Sound
<1>4. state' \in States
  BY <1>1, <1>2 DEF Sound
<1>. HIDE DEF p
<1>5. /\ params' \in Seq(Parameter) /\ dummy' \in BOOLEAN /\ private' \in Seq(Nat)
      /\ utf8' \in Nat /\ handler' \in Handlers /\ dcs' \in Seq(Nat)
  BY <1>2, <1>3 DEF Good, Records
<1>6. osc' \in Seq(Nat)
  <2>1. p.osc \in Seq(Nat)
    BY <1>3 DEF Good, Records
  <2>. QED  BY <1>2, <2>1
<1>7. /\ Parsed' \in Records
      /\ Parsed'.params = params' /\ Parsed'.private = private' /\ Parsed'.dummy = dummy'
      /\ Parsed'.handler = handler' /\ Parsed'.dcs = dcs'
  BY <1>5, <1>6 DEF Records, Parsed
<1>8. Good(Parsed')
  BY <1>2, <1>3, <1>7 DEF Good
<1>9. state' # "dcs_passthrough" => Idle(Parsed')
  BY <1>2, <1>3, <1>7 DEF Idle
<1>. QED  BY <1>4, <1>8, <1>9 DEF ParserInv, Good, Idle

LEMMA InvNext == ParserInv /\ [ParserNext]_parserVars => ParserInv'
<1>1. ASSUME ParserInv, ParserNext PROVE ParserInv'
  BY <1>1, ByteKeeps DEF ParserNext
<1>2. ASSUME ParserInv, UNCHANGED parserVars PROVE ParserInv'
  BY <1>2 DEF parserVars, ParserInv, Parsed, Good, Idle
<1>. QED  BY <1>1, <1>2

\* The parser's variables are always those of a sequence being parsed: within
\* the bounds of their arrays, and with handlers only inside a DCS string.
THEOREM ParserSound == ParserSpec => []ParserInv
<1>. QED  BY InvInit, InvNext, PTL DEF ParserSpec

\* However a DCS string ended, the next one starts without handlers or data.
THEOREM ReleasedAlways == ParserSpec => []HandlersReleased
<1>1. ParserInv => HandlersReleased
  BY DEF ParserInv, Idle, Parsed, HandlersReleased
<1>. QED  BY <1>1, ParserSound, PTL

\* The cursors into the parameters never point outside what was parsed.
THEOREM BoundsAlways == ParserSpec => []ParamsInBounds
<1>1. ParserInv => ParamsInBounds
  <2>. SUFFICES ASSUME ParserInv PROVE ParamsInBounds
    OBVIOUS
  <2>1. params \in Seq(Parameter)
    BY DEF ParserInv, Good, Records, Parsed
  <2>2. Parsed.params = params /\ Parsed.private = private /\ Parsed.dummy = dummy
    BY DEF Parsed
  <2>3. DOMAIN params = 1 .. Len(params)
    BY <2>1
  <2>. QED  BY <2>2, <2>3 DEF ParserInv, Good, InBounds, ParamsInBounds
<1>. QED  BY <1>1, ParserSound, PTL

\* Neither handlers nor cursors of one sequence are left to another, for any
\* bytes, any limits and any lengths of sequences (ParserKept).
THEOREM ParserIsKept == ParserSpec => []ParserKept
<1>. QED  BY ReleasedAlways, BoundsAlways, PTL DEF ParserKept

-----------------------------------------------------------------------------
(* 3. Receiving.                                                           *)

(* f joins the parts in s one after the other.                             *)
Joins(f, s, X) ==
  /\ f \in [0 .. Len(s) -> Seq(X)]
  /\ f[0] = <<>>
  /\ \A k \in 1 .. Len(s) : f[k] = f[k - 1] \o s[k]

LEMMA JoinsUnique ==
  ASSUME NEW X, NEW s \in Seq(Seq(X)), NEW f, NEW g, Joins(f, s, X), Joins(g, s, X)
  PROVE  \A k \in 0 .. Len(s) : f[k] = g[k]
<1> DEFINE n == Len(s)
           T == {k \in Nat : k <= n => f[k] = g[k]}
<1>1. n \in Nat
  OBVIOUS
<1>2. 0 \in T
  BY DEF Joins
<1>3. ASSUME NEW k \in Nat, k \in T PROVE k + 1 \in T
  <2> SUFFICES ASSUME k + 1 <= n PROVE f[k + 1] = g[k + 1]
    OBVIOUS
  <2>1. f[k] = g[k] /\ k + 1 \in 1 .. Len(s) /\ (k + 1) - 1 = k
    BY <1>1, <1>3
  <2>2. f[k + 1] = f[(k + 1) - 1] \o s[k + 1] /\ g[k + 1] = g[(k + 1) - 1] \o s[k + 1]
    BY <2>1 DEF Joins
  <2> QED BY <2>1, <2>2
<1> HIDE DEF T
<1>4. Nat \subseteq T
  BY <1>2, <1>3, Induction
<1> QED BY <1>1, <1>4 DEF T

LEMMA JoinsExists ==
  ASSUME NEW X, NEW s \in Seq(Seq(X))
  PROVE  \E f : Joins(f, s, X)
<1> DEFINE n == Len(s)
           Y == Seq(X)
           step == [j \in Nat |-> [x \in Y |-> IF j + 1 \in 1 .. n THEN x \o s[j + 1] ELSE x]]
<1>1. n \in Nat /\ <<>> \in Y /\ \A i \in 1 .. n : s[i] \in Y
  OBVIOUS
<1>2. step \in [Nat -> [Y -> Y]]
  <2>1. ASSUME NEW x \in Y, NEW i \in 1 .. n PROVE x \o s[i] \in Y
    <3>1. s[i] \in Y
      BY <1>1
    <3> QED BY <3>1
  <2> HIDE DEF Y, n
  <2> QED BY <2>1
<1>3. PICK h \in [0 .. n -> Y] : h[0] = <<>> /\ \A i \in 0 .. n - 1 : h[i + 1] = step[i][h[i]]
  <2> HIDE DEF Y, step, n
  <2>1. \E h : Recursive(h, Y, <<>>, step, n)
    BY <1>1, <1>2, FiniteRecursion
  <2> QED BY <2>1 DEF Recursive
<1> HIDE DEF Y, n
<1>4. ASSUME NEW k \in 1 .. n PROVE h[k] = h[k - 1] \o s[k]
  <2>1. k - 1 \in 0 .. n - 1 /\ (k - 1) + 1 = k /\ k - 1 \in Nat /\ k - 1 \in 0 .. n
    BY <1>1
  <2>2. h[k - 1] \in Y
    BY <1>3, <2>1
  <2>3. h[k] = step[k - 1][h[k - 1]]
    <3> HIDE DEF step
    <3>1. h[(k - 1) + 1] = step[k - 1][h[k - 1]]
      BY <1>3, <2>1
    <3> QED BY <2>1, <3>1
  <2>4. step[k - 1][h[k - 1]] = IF (k - 1) + 1 \in 1 .. n THEN h[k - 1] \o s[(k - 1) + 1] ELSE h[k - 1]
    BY <2>1, <2>2
  <2> HIDE DEF step
  <2> QED BY <2>1, <2>3, <2>4
<1>5. Joins(h, s, X)
  BY <1>3, <1>4 DEF Joins, Y, n
<1> QED BY <1>5

(* FlattenSeq is the last of the joins.                                    *)
LEMMA FlattenIs ==
  ASSUME NEW X, NEW s \in Seq(Seq(X)), NEW f, Joins(f, s, X)
  PROVE  FlattenSeq(s) = f[Len(s)]
<1> DEFINE n == Len(s)
           Rec(g) == [i \in 1 .. n |-> IF i = 1 THEN s[i] ELSE g[i - 1] \o s[i]]
           flatten == CHOOSE g : g = Rec(g)
           h == [i \in 1 .. n |-> f[i]]
<1>1. n \in Nat /\ \A i \in 1 .. n : s[i] \in Seq(X)
  OBVIOUS
<1>2. /\ \A k \in 0 .. n : f[k] \in Seq(X)
      /\ f[0] = <<>> /\ \A k \in 1 .. n : f[k] = f[k - 1] \o s[k]
  BY DEF Joins
<1>3. CASE n = 0
  <2>1. s = <<>>
    BY <1>3
  <2> QED BY <1>2, <1>3, <2>1 DEF FlattenSeq
<1>4. CASE n # 0
  <2>1. h = Rec(h)
    <3> SUFFICES ASSUME NEW k \in 1 .. n PROVE h[k] = Rec(h)[k]
      OBVIOUS
    <3>1. CASE k = 1
      <4>0. 1 \in 1 .. n /\ 1 - 1 = 0
        BY <1>1, <1>4
      <4>1. f[1] = <<>> \o s[1] /\ s[1] \in Seq(X)
        <5>1. f[1] = f[1 - 1] \o s[1] /\ s[1] \in Seq(X)
          BY <1>1, <1>2, <4>0
        <5> QED BY <1>2, <4>0, <5>1
      <4>2. <<>> \o s[1] = s[1]
        BY <4>1, ConcatEmptySeq
      <4> QED BY <3>1, <4>1, <4>2
    <3>2. CASE k # 1
      <4>1. k - 1 \in 1 .. n
        BY <1>1, <3>2
      <4>2. h[k] = f[k] /\ h[k - 1] = f[k - 1] /\ f[k] = f[k - 1] \o s[k]
        BY <1>2, <4>1
      <4> QED BY <3>2, <4>2
    <3> QED BY <3>1, <3>2
  <2>2. flatten = Rec(flatten)
    <3> HIDE DEF Rec
    <3> QED BY <2>1
  <2>3. FlattenSeq(s) = flatten[n]
    BY <1>4 DEF FlattenSeq
  <2> HIDE DEF flatten
  <2>4. \A k \in 1 .. n : flatten[k] = IF k = 1 THEN s[k] ELSE flatten[k - 1] \o s[k]
    <3>1. \A k \in 1 .. n : Rec(flatten)[k] = IF k = 1 THEN s[k] ELSE flatten[k - 1] \o s[k]
      OBVIOUS
    <3> HIDE DEF Rec
    <3> QED BY <2>2, <3>1
  <2> DEFINE T == {k \in Nat : k \in 1 .. n => flatten[k] = f[k]}
  <2> HIDE DEF Rec, h, n
  <2>5. 0 \in T
    OBVIOUS
  <2>6. ASSUME NEW k \in Nat, k \in T PROVE k + 1 \in T
    <3> SUFFICES ASSUME k + 1 \in 1 .. n PROVE flatten[k + 1] = f[k + 1]
      OBVIOUS
    <3>1. f[k + 1] = f[k] \o s[k + 1]
      <4>1. f[k + 1] = f[(k + 1) - 1] \o s[k + 1]
        BY <1>2
      <4>2. (k + 1) - 1 = k
        OBVIOUS
      <4> QED BY <4>1, <4>2
    <3>2. CASE k = 0
      <4>0. 1 \in 1 .. n /\ k + 1 = 1
        BY <3>2
      <4>3. s[1] \in Seq(X) /\ flatten[1] = s[1]
        BY <1>1, <2>4, <4>0
      <4>1. f[1] = <<>> \o s[1] /\ s[1] \in Seq(X) /\ flatten[1] = s[1]
        BY <1>2, <3>1, <3>2, <4>0, <4>3
      <4>2. <<>> \o s[1] = s[1]
        BY <4>1, ConcatEmptySeq
      <4> QED BY <4>0, <4>1, <4>2
    <3>3. CASE k # 0
      <4>1. k \in 1 .. n /\ k + 1 # 1 /\ (k + 1) - 1 = k
        BY <1>1, <3>3
      <4>2. flatten[k] = f[k]
        BY <2>6, <4>1
      <4>3. flatten[k + 1] = flatten[(k + 1) - 1] \o s[k + 1]
        BY <2>4, <4>1
      <4> QED BY <3>1, <4>1, <4>2, <4>3
    <3> QED BY <3>2, <3>3
  <2> HIDE DEF T
  <2>7. n \in T
    BY <1>1, <2>5, <2>6, Induction
  <2> QED BY <1>1, <1>4, <2>3, <2>7 DEF T, n
<1> QED BY <1>3, <1>4

LEMMA FlattenType ==
  ASSUME NEW X, NEW s \in Seq(Seq(X))
  PROVE  FlattenSeq(s) \in Seq(X)
<1>1. PICK f : Joins(f, s, X)
  BY JoinsExists
<1>2. FlattenSeq(s) = f[Len(s)]
  BY <1>1, FlattenIs
<1>3. Len(s) \in 0 .. Len(s)
  OBVIOUS
<1> QED BY <1>1, <1>2, <1>3 DEF Joins

(* What is flattened in two pieces is flattened as a whole.                *)
LEMMA FlattenConcat ==
  ASSUME NEW X, NEW s \in Seq(Seq(X)), NEW t \in Seq(Seq(X))
  PROVE  FlattenSeq(s \o t) = FlattenSeq(s) \o FlattenSeq(t)
<1> DEFINE n == Len(s)
           m == Len(t)
           q == s \o t
<1>1. PICK f : Joins(f, s, X)
  BY JoinsExists
<1>2. PICK g : Joins(g, t, X)
  BY JoinsExists
<1>3. n \in Nat /\ m \in Nat
  OBVIOUS
<1>4. /\ q \in Seq(Seq(X)) /\ Len(q) = n + m
      /\ \A k \in 1 .. n + m : q[k] = IF k <= n THEN s[k] ELSE t[k - n]
  BY ConcatProperties
<1>5. /\ \A k \in 0 .. n : f[k] \in Seq(X)
      /\ f[0] = <<>> /\ \A k \in 1 .. n : f[k] = f[k - 1] \o s[k]
  BY <1>1 DEF Joins
<1>6. /\ \A k \in 0 .. m : g[k] \in Seq(X)
      /\ g[0] = <<>> /\ \A k \in 1 .. m : g[k] = g[k - 1] \o t[k]
  BY <1>2 DEF Joins
<1>7. FlattenSeq(s) = f[n] /\ FlattenSeq(t) = g[m]
  BY <1>1, <1>2, FlattenIs
<1>8. \A k \in 1 .. m : t[k] \in Seq(X)
  OBVIOUS
<1> DEFINE h == [k \in 0 .. n + m |-> IF k <= n THEN f[k] ELSE f[n] \o g[k - n]]
<1> HIDE DEF n, m, q
<1>9. \A k \in 0 .. n + m : h[k] \in Seq(X)
  <2> SUFFICES ASSUME NEW k \in 0 .. n + m PROVE h[k] \in Seq(X)
    OBVIOUS
  <2>1. CASE k <= n
    <3>1. k \in 0 .. n
      BY <1>3, <2>1
    <3> QED BY <1>5, <2>1, <3>1
  <2>2. CASE ~(k <= n)
    <3>1. k - n \in 0 .. m /\ n \in 0 .. n
      BY <1>3, <2>2
    <3>2. f[n] \in Seq(X) /\ g[k - n] \in Seq(X)
      BY <1>5, <1>6, <3>1
    <3> QED BY <2>2, <3>2
  <2> QED BY <2>1, <2>2
<1>10. ASSUME NEW k \in 1 .. n + m PROVE h[k] = h[k - 1] \o q[k]
  <2>0. k \in 0 .. n + m /\ k - 1 \in 0 .. n + m
    BY <1>3
  <2>1. CASE k <= n
    <3>1. k \in 1 .. n /\ k - 1 <= n
      BY <1>3, <2>1
    <3>2. h[k] = f[k] /\ h[k - 1] = f[k - 1] /\ q[k] = s[k] /\ f[k] = f[k - 1] \o s[k]
      BY <1>4, <1>5, <2>0, <2>1, <3>1
    <3> QED BY <3>2
  <2>2. CASE ~(k <= n)
    <3> DEFINE j == k - n
    <3>1. j \in 1 .. m /\ j - 1 \in 0 .. m /\ n \in 0 .. n /\ (k - 1) - n = j - 1
      BY <1>3, <2>2
    <3>2. /\ f[n] \in Seq(X) /\ g[j - 1] \in Seq(X) /\ t[j] \in Seq(X)
          /\ g[j] = g[j - 1] \o t[j] /\ q[k] = t[j]
      BY <1>4, <1>5, <1>6, <1>8, <2>2, <3>1
    <3>3. h[k] = f[n] \o g[j]
      BY <2>0, <2>2
    <3>4. (f[n] \o g[j - 1]) \o t[j] = f[n] \o (g[j - 1] \o t[j])
      <4> DEFINE a == f[n]
                 b == g[j - 1]
                 c == t[j]
      <4>1. a \in Seq(X) /\ b \in Seq(X) /\ c \in Seq(X)
        BY <3>2
      <4> HIDE DEF a, b, c
      <4>2. (a \o b) \o c = a \o (b \o c)
        BY <4>1, ConcatAssociative, SMTT(30)
      <4> QED BY <4>2 DEF a, b, c
    <3>5. h[k - 1] = f[n] \o g[j - 1]
      <4>1. CASE k - 1 <= n
        <5>1. k - 1 = n /\ j - 1 = 0
          BY <1>3, <2>2, <4>1
        <5>2. h[k - 1] = f[n]
          BY <2>0, <4>1, <5>1
        <5>3. f[n] \o <<>> = f[n]
          BY <3>2, ConcatEmptySeq
        <5> QED BY <1>6, <5>1, <5>2, <5>3
      <4>2. CASE ~(k - 1 <= n)
        BY <2>0, <3>1, <4>2
      <4> QED BY <4>1, <4>2
    <3> HIDE DEF h, j
    <3> QED BY <3>2, <3>3, <3>4, <3>5
  <2> QED BY <2>1, <2>2
<1>11. h[0] = <<>>
  BY <1>3, <1>5
<1>12. h[n + m] = f[n] \o g[m]
  <2>1. CASE m = 0
    <3>1. h[n + m] = f[n] /\ f[n] \in Seq(X)
      BY <1>3, <1>5, <2>1
    <3>2. f[n] \o <<>> = f[n]
      BY <3>1, ConcatEmptySeq
    <3> QED BY <1>6, <2>1, <3>1, <3>2
  <2>2. CASE m # 0
    <3>1. n + m \in 0 .. n + m /\ ~(n + m <= n) /\ (n + m) - n = m
      BY <1>3, <2>2
    <3> QED BY <3>1
  <2> QED BY <2>1, <2>2
<1>13. h = [k \in 0 .. n + m |-> h[k]]
  OBVIOUS
<1> HIDE DEF h
<1>14. Joins(h, q, X)
  <2>1. h \in [0 .. n + m -> Seq(X)]
    BY <1>9, <1>13
  <2> QED BY <1>4, <1>10, <1>11, <2>1 DEF Joins
<1>15. FlattenSeq(q) = h[Len(q)]
  BY <1>4, <1>14, FlattenIs
<1> QED BY <1>4, <1>7, <1>12, <1>15 DEF n, m, q

(* Its elements are those of the parts.                                    *)
LEMMA FlattenElements ==
  ASSUME NEW X, NEW s \in Seq(Seq(X)), NEW P, \A i \in 1 .. Len(s) : s[i] \in Seq(P)
  PROVE  FlattenSeq(s) \in Seq(P)
<1>1. s \in Seq(Seq(P))
  <2>1. s = [i \in 1 .. Len(s) |-> s[i]] /\ Len(s) \in Nat
    OBVIOUS
  <2>2. s \in [1 .. Len(s) -> Seq(P)]
    BY <2>1
  <2> QED BY <2>1, <2>2
<1> QED BY <1>1, FlattenType


(* Induction over sequences, as a statement about a set.                   *)
LEMMA SequenceInduction ==
  ASSUME NEW X, NEW T, <<>> \in T,
         \A s \in Seq(X) : \A x \in X : s \in T => Append(s, x) \in T
  PROVE  Seq(X) \subseteq T
<1> DEFINE D == {n \in Nat : \A s \in Seq(X) : Len(s) = n => s \in T}
<1>1. 0 \in D
  <2> SUFFICES ASSUME NEW s \in Seq(X), Len(s) = 0 PROVE s \in T
    OBVIOUS
  <2>1. s = <<>>
    BY EmptySeq
  <2> QED BY <2>1
<1>2. ASSUME NEW n \in Nat, n \in D PROVE n + 1 \in D
  <2> SUFFICES ASSUME NEW s \in Seq(X), Len(s) = n + 1 PROVE s \in T
    OBVIOUS
  <2>1. s # <<>>
    OBVIOUS
  <2>2. PICK r \in Seq(X), x \in X : s = Append(r, x)
    BY <2>1, SequenceEmptyOrAppend
  <2>3. Len(r) = n
    <3>1. Len(s) = Len(r) + 1 /\ Len(r) \in Nat
      BY <2>2, AppendProperties
    <3> QED BY <3>1
  <2>4. r \in T
    BY <1>2, <2>3
  <2> QED BY <2>2, <2>4
<1> HIDE DEF D
<1>3. Nat \subseteq D
  BY <1>1, <1>2, Induction
<1> QED
  <2> SUFFICES ASSUME NEW s \in Seq(X) PROVE s \in T
    OBVIOUS
  <2>1. Len(s) \in Nat
    OBVIOUS
  <2>2. Len(s) \in D
    BY <1>3, <2>1
  <2> QED BY <2>2 DEF D

(* Flattening one part more.                                               *)
LEMMA FlattenOne ==
  ASSUME NEW X, NEW b \in Seq(X)
  PROVE  FlattenSeq(<<b>>) = b
<1>1. <<b>> \in Seq(Seq(X))
  OBVIOUS
<1> DEFINE f == [k \in 0 .. 1 |-> IF k = 0 THEN <<>> ELSE b]
<1>2. <<>> \o b = b
  BY ConcatEmptySeq
<1>3. Joins(f, <<b>>, X)
  <2>1. f \in [0 .. 1 -> Seq(X)]
    OBVIOUS
  <2>2. f[0] = <<>> /\ f[1] = b /\ Len(<<b>>) = 1 /\ <<b>>[1] = b
    OBVIOUS
  <2>3. ASSUME NEW k \in 1 .. Len(<<b>>) PROVE f[k] = f[k - 1] \o <<b>>[k]
    <3>1. k = 1 /\ k - 1 = 0
      BY <2>2
    <3> HIDE DEF f
    <3> QED BY <1>2, <2>2, <3>1
  <2> HIDE DEF f
  <2> QED BY <2>1, <2>2, <2>3 DEF Joins
<1>4. f[1] = b /\ Len(<<b>>) = 1
  OBVIOUS
<1> HIDE DEF f
<1> QED BY <1>1, <1>3, <1>4, FlattenIs

LEMMA FlattenAppend ==
  ASSUME NEW X, NEW s \in Seq(Seq(X)), NEW b \in Seq(X)
  PROVE  FlattenSeq(Append(s, b)) = FlattenSeq(s) \o b
<1>1. Append(s, b) = s \o <<b>> /\ <<b>> \in Seq(Seq(X))
  BY AppendIsConcat
<1>2. FlattenSeq(s \o <<b>>) = FlattenSeq(s) \o FlattenSeq(<<b>>)
  BY <1>1, FlattenConcat
<1>3. FlattenSeq(<<b>>) = b
  BY FlattenOne
<1> QED BY <1>1, <1>2, <1>3

LEMMA FlattenNone ==
  FlattenSeq(<<>>) = <<>>
BY DEF FlattenSeq

(* What Without does with one byte more.                                   *)
LEMMA WithoutType ==
  ASSUME NEW X, NEW bytes \in Seq(X), NEW out
  PROVE  Without(bytes, out) \in Seq(X)
<1> DEFINE parts == [i \in DOMAIN bytes |-> IF bytes[i] \in out THEN <<>> ELSE <<bytes[i]>>]
<1>1. parts \in Seq(Seq(X))
  <2>1. DOMAIN bytes = 1 .. Len(bytes) /\ Len(bytes) \in Nat
    OBVIOUS
  <2>2. ASSUME NEW i \in 1 .. Len(bytes)
        PROVE  (IF bytes[i] \in out THEN <<>> ELSE <<bytes[i]>>) \in Seq(X)
    <3>1. bytes[i] \in X
      OBVIOUS
    <3> QED BY <3>1
  <2>3. parts \in [1 .. Len(bytes) -> Seq(X)]
    BY <2>1, <2>2
  <2> HIDE DEF parts
  <2> QED BY <2>1, <2>3
<1> HIDE DEF parts
<1>2. FlattenSeq(parts) \in Seq(X)
  BY <1>1, FlattenType
<1> QED BY <1>2 DEF Without, parts

LEMMA WithoutAppend ==
  ASSUME NEW X, NEW bytes \in Seq(X), NEW x \in X, NEW out
  PROVE  Without(Append(bytes, x), out) =
             IF x \in out THEN Without(bytes, out) ELSE Append(Without(bytes, out), x)
<1> DEFINE part(b) == IF b \in out THEN <<>> ELSE <<b>>
           parts == [i \in DOMAIN bytes |-> part(bytes[i])]
           more == [i \in DOMAIN Append(bytes, x) |-> part(Append(bytes, x)[i])]
<1>1. DOMAIN bytes = 1 .. Len(bytes) /\ Len(bytes) \in Nat
  OBVIOUS
<1>2. \A b \in X : part(b) \in Seq(X)
  OBVIOUS
<1> HIDE DEF part
<1>3. parts \in Seq(Seq(X)) /\ Len(parts) = Len(bytes)
  <2>1. ASSUME NEW i \in 1 .. Len(bytes) PROVE part(bytes[i]) \in Seq(X)
    BY <1>2
  <2>2. parts \in [1 .. Len(bytes) -> Seq(X)] /\ DOMAIN parts = 1 .. Len(bytes)
    BY <1>1, <2>1
  <2> HIDE DEF parts
  <2> QED BY <1>1, <2>2
<1>4. more = Append(parts, part(x))
  <2>1. /\ Append(bytes, x) \in Seq(X) /\ Len(Append(bytes, x)) = Len(bytes) + 1
        /\ \A i \in 1 .. Len(bytes) : Append(bytes, x)[i] = bytes[i]
        /\ Append(bytes, x)[Len(bytes) + 1] = x
    BY AppendProperties
  <2>2. DOMAIN Append(bytes, x) = 1 .. Len(bytes) + 1
    BY <1>1, <2>1
  <2>3. /\ Append(parts, part(x)) \in Seq(Seq(X))
        /\ Len(Append(parts, part(x))) = Len(bytes) + 1
        /\ \A i \in 1 .. Len(bytes) : Append(parts, part(x))[i] = parts[i]
        /\ Append(parts, part(x))[Len(bytes) + 1] = part(x)
    <3>1. part(x) \in Seq(X)
      BY <1>2
    <3> HIDE DEF parts
    <3> QED BY <1>3, <3>1, AppendProperties
  <2>4. \A i \in 1 .. Len(bytes) : parts[i] = part(bytes[i])
    BY <1>1
  <2>5. ASSUME NEW i \in 1 .. Len(bytes) + 1 PROVE more[i] = Append(parts, part(x))[i]
    <3>1. more[i] = part(Append(bytes, x)[i])
      BY <2>2
    <3> HIDE DEF parts, more
    <3>2. CASE i \in 1 .. Len(bytes)
      BY <2>1, <2>3, <2>4, <3>1, <3>2
    <3>3. CASE i = Len(bytes) + 1
      <4>1. more[i] = part(x)
        BY <2>1, <3>1, <3>3
      <4>2. Append(parts, part(x))[i] = part(x)
        BY <2>3, <3>3
      <4> QED BY <4>1, <4>2
    <3>4. i \in 1 .. Len(bytes) \/ i = Len(bytes) + 1
      BY <1>1
    <3> QED BY ONLY <3>2, <3>3, <3>4
  <2>6. more = [i \in 1 .. Len(bytes) + 1 |-> more[i]]
    BY <2>2
  <2>7. Append(parts, part(x)) = [i \in 1 .. Len(bytes) + 1 |-> Append(parts, part(x))[i]]
    <3> HIDE DEF parts
    <3>1. \A s \in Seq(Seq(X)) : s = [i \in 1 .. Len(s) |-> s[i]]
      OBVIOUS
    <3> QED BY <2>3, <3>1
  <2> HIDE DEF parts, more
  <2> QED BY <2>5, <2>6, <2>7
<1> HIDE DEF parts, more
<1>5. FlattenSeq(more) = FlattenSeq(parts) \o part(x)
  <2>1. part(x) \in Seq(X)
    BY <1>2
  <2> QED BY <1>3, <1>4, <2>1, FlattenAppend
<1>6. Without(bytes, out) = FlattenSeq(parts) /\ Without(Append(bytes, x), out) = FlattenSeq(more)
  BY DEF Without, parts, more, part
<1>7. Without(bytes, out) \in Seq(X)
  BY WithoutType
<1>8. CASE x \in out
  <2>1. part(x) = <<>>
    BY <1>8 DEF part
  <2> QED BY <1>5, <1>6, <1>7, <1>8, <2>1, ConcatEmptySeq
<1>9. CASE x \notin out
  <2>1. part(x) = <<x>>
    BY <1>9 DEF part
  <2>2. Append(Without(bytes, out), x) = Without(bytes, out) \o <<x>>
    BY <1>7, AppendIsConcat
  <2> QED BY <1>5, <1>6, <1>9, <2>1, <2>2
<1> QED BY <1>8, <1>9

LEMMA WithoutNothing ==
  ASSUME NEW out
  PROVE  Without(<<>>, out) = <<>>
<1>1. [i \in DOMAIN <<>> |-> IF <<>>[i] \in out THEN <<>> ELSE <<<<>>[i]>>] = <<>>
  OBVIOUS
<1> QED BY <1>1, FlattenNone DEF Without

LEMMA WithoutConcat ==
  ASSUME NEW X, NEW a \in Seq(X), NEW b \in Seq(X), NEW out
  PROVE  Without(a \o b, out) = Without(a, out) \o Without(b, out)
<1> DEFINE T == {c \in Seq(X) : Without(a \o c, out) = Without(a, out) \o Without(c, out)}
           w == Without(a, out)
<1>1. w \in Seq(X)
  BY WithoutType
<1>2. <<>> \in T
  <2>1. a \o <<>> = a /\ w \o <<>> = w
    BY <1>1, ConcatEmptySeq
  <2>2. <<>> \in Seq(X) /\ Without(<<>>, out) = <<>>
    BY WithoutNothing
  <2>3. Without(a \o <<>>, out) = w \o Without(<<>>, out)
    BY <2>1, <2>2
  <2> QED BY <2>2, <2>3
<1>3. ASSUME NEW c \in Seq(X), NEW x \in X, c \in T PROVE Append(c, x) \in T
  <2>1. a \o c \in Seq(X) /\ a \o Append(c, x) = Append(a \o c, x)
    OBVIOUS
  <2> DEFINE v == Without(c, out)
  <2>2. v \in Seq(X) /\ Without(a \o c, out) = w \o v
    BY <1>3, WithoutType
  <2>3. /\ Without(Append(c, x), out) = IF x \in out THEN v ELSE Append(v, x)
        /\ Without(Append(a \o c, x), out) = IF x \in out THEN w \o v ELSE Append(w \o v, x)
    <3>1. Without(Append(c, x), out) = IF x \in out THEN v ELSE Append(v, x)
      BY WithoutAppend
    <3> DEFINE ac == a \o c
    <3>2. Without(Append(ac, x), out) = IF x \in out THEN Without(ac, out) ELSE Append(Without(ac, out), x)
      <4>1. ac \in Seq(X)
        BY <2>1
      <4> HIDE DEF ac
      <4> QED BY <4>1, WithoutAppend
    <3> QED BY <2>2, <3>1, <3>2
  <2>4. \A y, z \in Seq(X) : y \o Append(z, x) = Append(y \o z, x)
    OBVIOUS
  <2> HIDE DEF v, w
  <2>5. Append(c, x) \in Seq(X)
    OBVIOUS
  <2> QED BY <1>1, <2>1, <2>2, <2>3, <2>4, <2>5, ZenonT(30) DEF w
<1> HIDE DEF T
<1>4. Seq(X) \subseteq T
  BY <1>2, <1>3, SequenceInduction
<1> QED BY <1>4 DEF T

-----------------------------------------------------------------------------
UriState == [done : Seq(Seq(PipeBytes)), left : Seq(PipeBytes)]
NoUri == [done |-> <<>>, left |-> <<>>]

LEMMA UriByteType ==
  ASSUME NEW u \in UriState, NEW x \in PipeBytes
  PROVE  UriByte(u, x) \in UriState
<1>1. u.done \in Seq(Seq(PipeBytes)) /\ u.left \in Seq(PipeBytes)
  BY DEF UriState
<1> DEFINE w == Append(u.left, x)
           d == Append(u.done, u.left)
<1>2. w \in Seq(PipeBytes) /\ d \in Seq(Seq(PipeBytes)) /\ <<>> \in Seq(PipeBytes)
  BY <1>1
<1> HIDE DEF w, d
<1>3. /\ [done |-> u.done, left |-> w] \in UriState
      /\ [done |-> u.done, left |-> <<>>] \in UriState
      /\ [done |-> d, left |-> <<>>] \in UriState
  BY <1>1, <1>2 DEF UriState
<1> HIDE DEF UriState
<1> QED BY <1>3 DEF UriByte, w, d

(* The recursive function that Uris is defined with.                       *)
LEMMA UrisReads ==
  ASSUME NEW b \in Seq(PipeBytes)
  PROVE  \E f : /\ f[0] = NoUri
                /\ \A k \in 1 .. Len(b) : f[k] = UriByte(f[k - 1], b[k])
                /\ Uris(b) = f[Len(b)]
<1> DEFINE n == Len(b)
           Y == UriState
           Rec(g) == [k \in 0 .. n |-> IF k = 0 THEN [done |-> <<>>, left |-> <<>>]
                                       ELSE UriByte(g[k - 1], b[k])]
           f == CHOOSE g : g = Rec(g)
           step == [j \in Nat |-> [u \in Y |-> IF j + 1 \in 1 .. n THEN UriByte(u, b[j + 1])
                                               ELSE u]]
<1>1. n \in Nat /\ \A k \in 1 .. n : b[k] \in PipeBytes
  OBVIOUS
<1>2. NoUri \in Y
  BY DEF UriState, NoUri
<1>3. ASSUME NEW u \in Y, NEW k \in 1 .. n PROVE UriByte(u, b[k]) \in Y
  BY <1>1, UriByteType
<1> HIDE DEF Y, n
<1>4. step \in [Nat -> [Y -> Y]]
  BY <1>3
<1>5. PICK h \in [0 .. n -> Y] : h[0] = NoUri /\ \A i \in 0 .. n - 1 : h[i + 1] = step[i][h[i]]
  <2> HIDE DEF step, Rec, f
  <2>1. \E h : Recursive(h, Y, NoUri, step, n)
    BY <1>1, <1>2, <1>4, FiniteRecursion
  <2> QED BY <2>1 DEF Recursive
<1>6. h = Rec(h)
  <2> SUFFICES ASSUME NEW k \in 0 .. n PROVE h[k] = Rec(h)[k]
    OBVIOUS
  <2>1. CASE k = 0
    BY <2>1, <1>5 DEF NoUri
  <2>2. CASE k # 0
    <3>1. k - 1 \in 0 .. n - 1 /\ (k - 1) + 1 = k /\ k \in 1 .. n /\ k - 1 \in Nat /\ k - 1 \in 0 .. n
      BY <2>2, <1>1
    <3>2. h[k] = step[k - 1][h[k - 1]] /\ h[k - 1] \in Y
      <4> HIDE DEF step, Rec, f
      <4>1. h[(k - 1) + 1] = step[k - 1][h[k - 1]]
        BY <1>5, <3>1
      <4> QED BY <4>1, <3>1, <1>5
    <3>3. step[k - 1][h[k - 1]] = UriByte(h[k - 1], b[k])
      BY <3>1, <3>2
    <3> QED BY <3>2, <3>3, <2>2
  <2> QED BY <2>1, <2>2
<1>7. f = Rec(f)
  <2> HIDE DEF Rec
  <2> QED BY <1>6
<1>8. Uris(b) = f[n]
  BY DEF Uris, n
<1> HIDE DEF f, step
<1>9. \A k \in 0 .. n : f[k] = IF k = 0 THEN NoUri ELSE UriByte(f[k - 1], b[k])
  <2>1. \A k \in 0 .. n : Rec(f)[k] = IF k = 0 THEN NoUri ELSE UriByte(f[k - 1], b[k])
    BY DEF NoUri
  <2> HIDE DEF Rec
  <2> QED BY <1>7, <2>1
<1> HIDE DEF Rec
<1>10. f[0] = NoUri /\ \A k \in 1 .. n : f[k] = UriByte(f[k - 1], b[k])
  <2>1. 0 \in 0 .. n /\ \A k \in 1 .. n : k \in 0 .. n /\ k # 0
    BY <1>1
  <2> QED BY <1>9, <2>1
<1> QED BY <1>8, <1>10 DEF n

LEMMA UrisNothing == Uris(<<>>) = NoUri
<1>1. <<>> \in Seq(PipeBytes) /\ Len(<<>>) = 0
  OBVIOUS
<1>2. PICK f : f[0] = NoUri /\ Uris(<<>>) = f[Len(<<>>)]
  BY <1>1, UrisReads
<1> QED BY <1>1, <1>2

LEMMA UrisAppend ==
  ASSUME NEW b \in Seq(PipeBytes), NEW x \in PipeBytes
  PROVE  Uris(Append(b, x)) = UriByte(Uris(b), x)
<1> DEFINE n == Len(b)
           c == Append(b, x)
<1>1. /\ n \in Nat /\ c \in Seq(PipeBytes) /\ Len(c) = n + 1
      /\ \A k \in 1 .. n : c[k] = b[k]
      /\ c[n + 1] = x
  BY AppendProperties
<1>2. PICK f : /\ f[0] = NoUri
               /\ \A k \in 1 .. n : f[k] = UriByte(f[k - 1], b[k])
               /\ Uris(b) = f[n]
  BY UrisReads
<1> HIDE DEF c, n
<1>3. PICK g : /\ g[0] = NoUri
               /\ \A k \in 1 .. Len(c) : g[k] = UriByte(g[k - 1], c[k])
               /\ Uris(c) = g[Len(c)]
  BY <1>1, UrisReads
<1> DEFINE T == {k \in Nat : k <= n => g[k] = f[k]}
<1>4. 0 \in T
  BY <1>2, <1>3
<1>5. ASSUME NEW k \in Nat, k \in T PROVE k + 1 \in T
  <2> SUFFICES ASSUME k + 1 <= n PROVE g[k + 1] = f[k + 1]
    OBVIOUS
  <2>1. g[k] = f[k] /\ k + 1 \in 1 .. n /\ k + 1 \in 1 .. Len(c) /\ (k + 1) - 1 = k
    BY <1>1, <1>5
  <2>2. f[k + 1] = UriByte(f[(k + 1) - 1], b[k + 1]) /\ g[k + 1] = UriByte(g[(k + 1) - 1], c[k + 1])
    BY <1>2, <1>3, <2>1
  <2> QED BY <1>1, <2>1, <2>2
<1> HIDE DEF T
<1>6. n \in T
  BY <1>1, <1>4, <1>5, Induction
<1>7. g[n] = f[n]
  BY <1>1, <1>6 DEF T
<1>8. g[n + 1] = UriByte(g[n], x)
  <2>1. n + 1 \in 1 .. Len(c) /\ (n + 1) - 1 = n
    BY <1>1
  <2>2. g[n + 1] = UriByte(g[(n + 1) - 1], c[n + 1])
    BY <1>3, <2>1
  <2> QED BY <1>1, <2>1, <2>2
<1> QED BY <1>1, <1>2, <1>3, <1>7, <1>8 DEF c

(* What is left of a sequence holds no line end, and what holds none is    *)
(* left whole.                                                             *)
Unended == PipeBytes \ {"cr", "nl"}

LEMMA UrisType ==
  ASSUME NEW b \in Seq(PipeBytes)
  PROVE  Uris(b) \in UriState /\ Uris(b).left \in Seq(Unended)
<1> DEFINE T == {c \in Seq(PipeBytes) : Uris(c) \in UriState /\ Uris(c).left \in Seq(Unended)}
<1>1. <<>> \in T
  <2>1. NoUri \in UriState /\ NoUri.left \in Seq(Unended)
    BY DEF NoUri, UriState
  <2> QED BY <2>1, UrisNothing
<1>2. ASSUME NEW c \in Seq(PipeBytes), NEW x \in PipeBytes, c \in T PROVE Append(c, x) \in T
  <2> DEFINE u == Uris(c)
  <2>1. u \in UriState /\ u.left \in Seq(Unended)
    BY <1>2
  <2>2. Uris(Append(c, x)) = UriByte(u, x)
    BY UrisAppend
  <2> HIDE DEF u
  <2>3. UriByte(u, x) \in UriState
    BY <2>1, UriByteType
  <2>4. UriByte(u, x).left \in Seq(Unended)
    <3>1. CASE IsEnd(x)
      <4>1. UriByte(u, x).left = <<>>
        BY <3>1 DEF UriByte
      <4> QED BY <4>1
    <3>2. CASE ~IsEnd(x)
      <4>1. UriByte(u, x).left = Append(u.left, x)
        BY <3>2 DEF UriByte
      <4>2. x \in Unended
        BY <3>2 DEF IsEnd, Unended
      <4> QED BY <2>1, <4>1, <4>2
    <3> QED BY <3>1, <3>2
  <2>5. Append(c, x) \in Seq(PipeBytes)
    OBVIOUS
  <2> QED BY <2>2, <2>3, <2>4, <2>5
<1> HIDE DEF T
<1>3. Seq(PipeBytes) \subseteq T
  BY <1>1, <1>2, SequenceInduction
<1> QED BY <1>3 DEF T

LEMMA UrisWhole ==
  ASSUME NEW b \in Seq(Unended)
  PROVE  Uris(b) = [done |-> <<>>, left |-> b]
<1> DEFINE T == {c \in Seq(Unended) : Uris(c) = [done |-> <<>>, left |-> c]}
<1>1. <<>> \in T
  BY UrisNothing DEF NoUri
<1>2. ASSUME NEW c \in Seq(Unended), NEW x \in Unended, c \in T PROVE Append(c, x) \in T
  <2>1. c \in Seq(PipeBytes) /\ x \in PipeBytes /\ ~IsEnd(x)
    BY SeqMonotonic DEF Unended, IsEnd
  <2>2. Uris(c) = [done |-> <<>>, left |-> c]
    BY <1>2
  <2>3. Uris(Append(c, x)) = UriByte(Uris(c), x)
    BY <2>1, UrisAppend
  <2>4. UriByte(Uris(c), x) = [done |-> <<>>, left |-> Append(c, x)]
    BY <2>1, <2>2 DEF UriByte
  <2>5. Append(c, x) \in Seq(Unended)
    OBVIOUS
  <2> QED BY <2>3, <2>4, <2>5
<1> HIDE DEF T
<1>3. Seq(Unended) \subseteq T
  BY <1>1, <1>2, SequenceInduction
<1> QED BY <1>3 DEF T

(* Reading on from what was left of a part gives what reading the whole    *)
(* would.                                                                  *)
LEMMA UrisConcat ==
  ASSUME NEW a \in Seq(PipeBytes), NEW b \in Seq(PipeBytes)
  PROVE  /\ Uris(a \o b).done = Uris(a).done \o Uris(Uris(a).left \o b).done
         /\ Uris(a \o b).left = Uris(Uris(a).left \o b).left
<1> DEFINE d == Uris(a).done
           l == Uris(a).left
           Agrees(c) == /\ Uris(a \o c).done = d \o Uris(l \o c).done
                        /\ Uris(a \o c).left = Uris(l \o c).left
           T == {c \in Seq(PipeBytes) : Agrees(c)}
<1>1. d \in Seq(Seq(PipeBytes)) /\ l \in Seq(PipeBytes) /\ l \in Seq(Unended)
  BY UrisType DEF UriState
<1>2. <<>> \in T
  <2>1. a \o <<>> = a /\ l \o <<>> = l
    BY <1>1, ConcatEmptySeq
  <2>2. Uris(l) = [done |-> <<>>, left |-> l]
    BY <1>1, UrisWhole
  <2>3. d \o <<>> = d
    BY <1>1, ConcatEmptySeq
  <2>4. /\ Uris(a \o <<>>).done = d /\ Uris(a \o <<>>).left = l
        /\ Uris(l \o <<>>).done = <<>> /\ Uris(l \o <<>>).left = l
    BY <2>1, <2>2
  <2> HIDE DEF d, l
  <2>5. Agrees(<<>>)
    BY <2>3, <2>4
  <2> HIDE DEF Agrees
  <2> QED BY <2>5
<1>3. ASSUME NEW c \in Seq(PipeBytes), NEW x \in PipeBytes, c \in T PROVE Append(c, x) \in T
  <2> DEFINE u == Uris(a \o c)
             v == Uris(l \o c)
  <2>1. /\ a \o c \in Seq(PipeBytes) /\ l \o c \in Seq(PipeBytes)
        /\ a \o Append(c, x) = Append(a \o c, x) /\ l \o Append(c, x) = Append(l \o c, x)
        /\ Append(c, x) \in Seq(PipeBytes)
    <3> HIDE DEF l, d
    <3> QED BY <1>1
  <2>2. u.done = d \o v.done /\ u.left = v.left
    BY <1>3
  <2>3. v.done \in Seq(Seq(PipeBytes)) /\ v.left \in Seq(PipeBytes)
    <3> HIDE DEF l, d
    <3>1. v \in UriState
      BY <2>1, UrisType
    <3> HIDE DEF v
    <3> QED BY <3>1 DEF UriState
  <2>4. Uris(a \o Append(c, x)) = UriByte(u, x) /\ Uris(l \o Append(c, x)) = UriByte(v, x)
    <3> HIDE DEF l, d
    <3>1. Uris(Append(a \o c, x)) = UriByte(u, x)
      BY <2>1, UrisAppend
    <3>2. Uris(Append(l \o c, x)) = UriByte(v, x)
      BY <2>1, UrisAppend
    <3> QED BY <2>1, <3>1, <3>2
  <2> HIDE DEF u, v
  <2>5. /\ UriByte(u, x).done = d \o UriByte(v, x).done
        /\ UriByte(u, x).left = UriByte(v, x).left
    <3> HIDE DEF d, l
    <3>1. CASE ~IsEnd(x)
      BY <2>2, <3>1 DEF UriByte
    <3>2. CASE IsEnd(x) /\ v.left = <<>>
      BY <2>2, <3>2 DEF UriByte
    <3>3. CASE IsEnd(x) /\ v.left # <<>>
      <4>1. d \o Append(v.done, v.left) = Append(d \o v.done, v.left)
        <5>1. \A p, q \in Seq(Seq(PipeBytes)) : \A e \in Seq(PipeBytes) :
                  p \o Append(q, e) = Append(p \o q, e)
          OBVIOUS
        <5> QED BY <1>1, <2>3, <5>1
      <4>2. /\ UriByte(u, x).done = Append(d \o v.done, v.left)
            /\ UriByte(v, x).done = Append(v.done, v.left)
            /\ UriByte(u, x).left = <<>> /\ UriByte(v, x).left = <<>>
        BY <2>2, <3>3 DEF UriByte
      <4> QED BY <4>1, <4>2
    <3> QED BY <3>1, <3>2, <3>3
  <2>6. Agrees(Append(c, x))
    <3> HIDE DEF d, l
    <3> QED BY <2>4, <2>5
  <2> HIDE DEF Agrees
  <2> QED BY <2>1, <2>6
<1> HIDE DEF T
<1>4. Seq(PipeBytes) \subseteq T
  BY <1>2, <1>3, SequenceInduction
<1>5. b \in T
  BY <1>4
<1> QED BY <1>5 DEF T

-----------------------------------------------------------------------------
LEMMA FlattenExtends ==
  ASSUME NEW X, NEW s \in Seq(Seq(X)), NEW t \in Seq(Seq(X)),
         Len(t) = Len(s) + 1, \A i \in 1 .. Len(s) : t[i] = s[i]
  PROVE  FlattenSeq(t) = FlattenSeq(s) \o t[Len(s) + 1]
<1> DEFINE n == Len(s)
           b == t[n + 1]
           a == Append(s, b)
<1>1. n \in Nat /\ b \in Seq(X)
  <2>1. n \in Nat /\ n + 1 \in 1 .. Len(t)
    OBVIOUS
  <2> HIDE DEF n
  <2> QED BY <2>1
<1> HIDE DEF b
<1>2. /\ a \in Seq(Seq(X)) /\ Len(a) = n + 1
      /\ \A i \in 1 .. n : a[i] = s[i]
      /\ a[n + 1] = b
  BY <1>1, AppendProperties
<1> HIDE DEF a
<1>3. \A i \in 1 .. n + 1 : t[i] = a[i]
  <2> SUFFICES ASSUME NEW i \in 1 .. n + 1 PROVE t[i] = a[i]
    OBVIOUS
  <2>1. i \in 1 .. n \/ i = n + 1
    BY <1>1
  <2> QED BY <1>2, <2>1 DEF b
<1>4. t = a
  <2>1. Len(t) = Len(a) /\ \A i \in 1 .. Len(t) : t[i] = a[i]
    BY <1>2, <1>3
  <2> QED BY <1>2, <2>1, SeqEqual
<1>5. FlattenSeq(a) = FlattenSeq(s) \o b
  BY <1>1, FlattenAppend DEF a
<1> QED BY <1>4, <1>5 DEF b

ReceiveModes == [consumer : Consumers, bracketed : BOOLEAN]

(* What becomes of a byte, given the one before it in the piece.           *)
FilterPart(prior, x) ==
  IF Stripped(x) THEN <<>>
  ELSE IF x = "nl" /\ Converts THEN IF prior = "cr" THEN <<>> ELSE <<"cr">>
  ELSE <<x>>

LastByte(p) == IF Len(p) = 0 THEN "none" ELSE p[Len(p)]

LEMMA StrippedBytes ==
  /\ \A x : Stripped(x) => x \in {"esc", "bs"}
  /\ Converts => Stripped("esc") /\ Stripped("bs")
  /\ \A x \in PipeBytes : x \in Strippable <=> Stripped(x)
  /\ LineEnds = {"cr", "nl"}
BY DEF Stripped, Converts, Strippable, LineEnds, IsEnd, PipeBytes

LEMMA FilterPartType ==
  ASSUME NEW prior, NEW x \in PipeBytes
  PROVE  FilterPart(prior, x) \in Seq(PipeBytes)
<1>1. <<>> \in Seq(PipeBytes) /\ <<"cr">> \in Seq(PipeBytes) /\ <<x>> \in Seq(PipeBytes)
  BY DEF PipeBytes
<1> QED BY <1>1 DEF FilterPart

FilteredParts(p) ==
  [i \in 1 .. Len(p) |-> FilterPart(IF i = 1 THEN "none" ELSE p[i - 1], p[i])]

LEMMA FilteredIs ==
  ASSUME NEW p \in Seq(PipeBytes)
  PROVE  /\ FilteredParts(p) \in Seq(Seq(PipeBytes))
         /\ Len(FilteredParts(p)) = Len(p)
         /\ Filtered(p) = FlattenSeq(FilteredParts(p))
<1> DEFINE n == Len(p)
           parts == [i \in DOMAIN p |->
                        CASE Stripped(p[i]) -> <<>>
                          [] p[i] = "nl" /\ Converts ->
                                IF FollowsReturn(p, i) THEN <<>> ELSE <<"cr">>
                          [] OTHER -> <<p[i]>>]
<1>1. n \in Nat /\ DOMAIN p = 1 .. n /\ \A i \in 1 .. n : p[i] \in PipeBytes
  OBVIOUS
<1>2. ASSUME NEW i \in 1 .. n
      PROVE  FilterPart(IF i = 1 THEN "none" ELSE p[i - 1], p[i]) \in Seq(PipeBytes)
  <2> DEFINE prior == IF i = 1 THEN "none" ELSE p[i - 1]
  <2>1. p[i] \in PipeBytes
    BY <1>1
  <2> HIDE DEF prior
  <2>2. FilterPart(prior, p[i]) \in Seq(PipeBytes)
    BY <2>1, FilterPartType
  <2> QED BY <2>2 DEF prior
<1>3. FilteredParts(p) \in Seq(Seq(PipeBytes)) /\ Len(FilteredParts(p)) = n
  <2>1. FilteredParts(p) = [i \in 1 .. n |-> FilterPart(IF i = 1 THEN "none" ELSE p[i - 1], p[i])]
    BY DEF FilteredParts
  <2>2. FilteredParts(p) \in [1 .. n -> Seq(PipeBytes)] /\ DOMAIN FilteredParts(p) = 1 .. n
    BY <1>2, <2>1
  <2> HIDE DEF n
  <2> QED BY <1>1, <2>2
<1>4. ASSUME NEW i \in 1 .. n
      PROVE  parts[i] = FilterPart(IF i = 1 THEN "none" ELSE p[i - 1], p[i])
  <2>1. FollowsReturn(p, i) <=> (IF i = 1 THEN "none" ELSE p[i - 1]) = "cr"
    BY <1>1 DEF FollowsReturn
  <2> DEFINE prior == IF i = 1 THEN "none" ELSE p[i - 1]
             follows == FollowsReturn(p, i)
  <2>2. parts[i] = CASE Stripped(p[i]) -> <<>>
                     [] p[i] = "nl" /\ Converts ->
                           IF follows THEN <<>> ELSE <<"cr">>
                     [] OTHER -> <<p[i]>>
    BY <1>1
  <2>3. follows <=> prior = "cr"
    BY <2>1
  <2> HIDE DEF prior, follows, parts, n
  <2>4. CASE Stripped(p[i])
    <3>1. p[i] # "nl"
      BY <2>4, StrippedBytes
    <3>2. parts[i] = <<>>
      BY <2>2, <2>4, <3>1
    <3> QED BY <2>4, <3>2 DEF FilterPart, prior
  <2>5. CASE ~Stripped(p[i]) /\ p[i] = "nl" /\ Converts
    <3>1. parts[i] = IF follows THEN <<>> ELSE <<"cr">>
      BY <2>2, <2>5
    <3>2. parts[i] = FilterPart(prior, p[i])
      BY <2>3, <2>5, <3>1 DEF FilterPart
    <3> QED BY <3>2 DEF prior
  <2>6. CASE ~Stripped(p[i]) /\ ~(p[i] = "nl" /\ Converts)
    <3>1. parts[i] = <<p[i]>>
      BY <2>2, <2>6
    <3>2. parts[i] = FilterPart(prior, p[i])
      BY <2>6, <3>1 DEF FilterPart
    <3> QED BY <3>2 DEF prior
  <2> QED BY <2>4, <2>5, <2>6
<1>5. parts = FilteredParts(p)
  <2>1. parts = [i \in 1 .. n |-> parts[i]]
    BY <1>1
  <2> HIDE DEF parts
  <2> QED BY <1>4, <2>1 DEF FilteredParts
<1>6. Filtered(p) = FlattenSeq(parts)
  BY DEF Filtered
<1> HIDE DEF parts
<1> QED BY <1>3, <1>5, <1>6

LEMMA FilteredAppend ==
  ASSUME NEW p \in Seq(PipeBytes), NEW x \in PipeBytes
  PROVE  /\ Filtered(p) \in Seq(PipeBytes)
         /\ Filtered(Append(p, x)) = Filtered(p) \o FilterPart(LastByte(p), x)
<1> DEFINE n == Len(p)
           q == Append(p, x)
           s == FilteredParts(p)
           t == FilteredParts(q)
<1>1. /\ n \in Nat /\ q \in Seq(PipeBytes) /\ Len(q) = n + 1
      /\ \A i \in 1 .. n : q[i] = p[i]
      /\ q[n + 1] = x
  BY AppendProperties
<1> HIDE DEF q
<1>2. s \in Seq(Seq(PipeBytes)) /\ Len(s) = n /\ Filtered(p) = FlattenSeq(s)
  BY FilteredIs
<1>3. t \in Seq(Seq(PipeBytes)) /\ Len(t) = n + 1 /\ Filtered(q) = FlattenSeq(t)
  BY <1>1, FilteredIs
<1>4. ASSUME NEW i \in 1 .. n PROVE t[i] = s[i]
  <2>1. q[i] = p[i] /\ (i # 1 => q[i - 1] = p[i - 1])
    BY <1>1
  <2>2. i \in 1 .. Len(q) /\ i \in 1 .. Len(p)
    BY <1>1
  <2>3. /\ t[i] = FilterPart(IF i = 1 THEN "none" ELSE q[i - 1], q[i])
        /\ s[i] = FilterPart(IF i = 1 THEN "none" ELSE p[i - 1], p[i])
    BY <2>2 DEF FilteredParts
  <2>4. (IF i = 1 THEN "none" ELSE q[i - 1]) = (IF i = 1 THEN "none" ELSE p[i - 1])
    BY <2>1
  <2> HIDE DEF s, t
  <2> QED BY <2>1, <2>3, <2>4
<1>5. t[n + 1] = FilterPart(LastByte(p), x)
  <2>1. n + 1 \in 1 .. Len(q)
    BY <1>1
  <2>2. t[n + 1] = FilterPart(IF n + 1 = 1 THEN "none" ELSE q[(n + 1) - 1], q[n + 1])
    BY <2>1 DEF FilteredParts
  <2>3. (IF n + 1 = 1 THEN "none" ELSE q[(n + 1) - 1]) = LastByte(p)
    <3>1. CASE n = 0
      BY <3>1 DEF LastByte
    <3>2. CASE n # 0
      <4>1. n \in 1 .. n /\ (n + 1) - 1 = n /\ n + 1 # 1
        BY <1>1, <3>2
      <4>2. q[n] = p[n]
        BY <1>1, <4>1
      <4> QED BY <4>1, <4>2, <3>2 DEF LastByte
    <3> QED BY <3>1, <3>2
  <2> HIDE DEF t
  <2> QED BY <1>1, <2>2, <2>3
<1> HIDE DEF s, t, n
<1>6. FlattenSeq(s) \in Seq(PipeBytes)
  BY <1>2, FlattenType
<1>7. FlattenSeq(t) = FlattenSeq(s) \o t[Len(s) + 1]
  BY <1>2, <1>3, <1>4, FlattenExtends
<1> QED BY <1>2, <1>3, <1>5, <1>6, <1>7 DEF q

LEMMA FilteredNothing == Filtered(<<>>) = <<>>
<1>1. <<>> \in Seq(PipeBytes) /\ Len(<<>>) = 0
  OBVIOUS
<1>2. FilteredParts(<<>>) \in Seq(Seq(PipeBytes)) /\ Len(FilteredParts(<<>>)) = 0
      /\ Filtered(<<>>) = FlattenSeq(FilteredParts(<<>>))
  BY <1>1, FilteredIs
<1>3. FilteredParts(<<>>) = <<>>
  BY <1>2, EmptySeq
<1> QED BY <1>2, <1>3, FlattenNone

(* What is read never holds what is to be left out.                        *)
Passable == PipeBytes \ (Strippable \cup (IF Converts THEN {"nl"} ELSE {}))

LEMMA FilteredPassable ==
  ASSUME NEW p \in Seq(PipeBytes)
  PROVE  Filtered(p) \in Seq(Passable)
<1> DEFINE T == {q \in Seq(PipeBytes) : Filtered(q) \in Seq(Passable)}
<1>1. <<>> \in T
  <2>1. <<>> \in Seq(PipeBytes) /\ <<>> \in Seq(Passable)
    OBVIOUS
  <2> QED BY <2>1, FilteredNothing
<1>2. ASSUME NEW q \in Seq(PipeBytes), NEW x \in PipeBytes, q \in T PROVE Append(q, x) \in T
  <2> DEFINE b == FilterPart(LastByte(q), x)
             w == Filtered(q)
  <2>1. Filtered(Append(q, x)) = w \o b /\ w \in Seq(Passable)
    BY <1>2, FilteredAppend
  <2>2. b \in Seq(Passable)
    <3>1. Converts => "cr" \in Passable
      BY StrippedBytes DEF Passable, PipeBytes
    <3>2. ~Stripped(x) /\ ~(x = "nl" /\ Converts) => x \in Passable
      BY StrippedBytes DEF Passable
    <3>3. \A y \in Passable : <<y>> \in Seq(Passable)
      OBVIOUS
    <3>4. <<>> \in Seq(Passable)
      OBVIOUS
    <3> HIDE DEF Passable
    <3>5. b = <<>> \/ (b = <<"cr">> /\ Converts) \/ (b = <<x>> /\ ~Stripped(x) /\ ~(x = "nl" /\ Converts))
      BY DEF FilterPart
    <3> HIDE DEF b
    <3> QED BY <3>1, <3>2, <3>3, <3>4, <3>5
  <2> HIDE DEF b, w
  <2>3. w \o b \in Seq(Passable)
    BY <2>1, <2>2, ConcatProperties
  <2>4. Append(q, x) \in Seq(PipeBytes)
    OBVIOUS
  <2> QED BY <2>1, <2>3, <2>4
<1> HIDE DEF T
<1>3. Seq(PipeBytes) \subseteq T
  BY <1>1, <1>2, SequenceInduction
<1> QED BY <1>3 DEF T

(* If no line end is converted, only controls are left out.                *)
LEMMA FilteredUnconverted ==
  ASSUME ~Converts, NEW p \in Seq(PipeBytes)
  PROVE  Filtered(p) = Without(p, Strippable)
<1> DEFINE T == {q \in Seq(PipeBytes) : Filtered(q) = Without(q, Strippable)}
<1>1. <<>> \in T
  <2>1. Filtered(<<>>) = Without(<<>>, Strippable)
    BY FilteredNothing, WithoutNothing
  <2>2. <<>> \in Seq(PipeBytes)
    OBVIOUS
  <2> QED BY <2>1, <2>2
<1>2. ASSUME NEW q \in Seq(PipeBytes), NEW x \in PipeBytes, q \in T PROVE Append(q, x) \in T
  <2> DEFINE b == FilterPart(LastByte(q), x)
             w == Without(q, Strippable)
  <2>1. Filtered(Append(q, x)) = w \o b
    BY <1>2, FilteredAppend
  <2>2. Without(Append(q, x), Strippable) = IF x \in Strippable THEN w ELSE Append(w, x)
    BY WithoutAppend
  <2>3. w \in Seq(PipeBytes)
    BY WithoutType
  <2>4. b = IF x \in Strippable THEN <<>> ELSE <<x>>
    BY StrippedBytes DEF FilterPart
  <2> HIDE DEF b, w
  <2>5. w \o <<>> = w /\ w \o <<x>> = Append(w, x)
    BY <2>3, ConcatEmptySeq, AppendIsConcat
  <2>6. Append(q, x) \in Seq(PipeBytes)
    OBVIOUS
  <2>7. Filtered(Append(q, x)) = Without(Append(q, x), Strippable)
    BY <2>1, <2>2, <2>4, <2>5
  <2> QED BY <2>6, <2>7
<1> HIDE DEF T
<1>3. Seq(PipeBytes) \subseteq T
  BY <1>1, <1>2, SequenceInduction
<1> QED BY <1>3 DEF T

(* But for the line ends, what is read is what was sent.                   *)
LEMMA FilteredText ==
  ASSUME NEW p \in Seq(PipeBytes)
  PROVE  Without(Filtered(p), LineEnds) = Without(Without(p, Strippable), LineEnds)
<1> DEFINE T == {q \in Seq(PipeBytes) :
                    Without(Filtered(q), LineEnds) = Without(Without(q, Strippable), LineEnds)}
<1>1. <<>> \in T
  <2>1. Filtered(<<>>) = <<>> /\ Without(<<>>, Strippable) = <<>>
    BY FilteredNothing, WithoutNothing
  <2>2. <<>> \in Seq(PipeBytes)
    OBVIOUS
  <2> QED BY <2>1, <2>2
<1>2. ASSUME NEW q \in Seq(PipeBytes), NEW x \in PipeBytes, q \in T PROVE Append(q, x) \in T
  <2> DEFINE b == FilterPart(LastByte(q), x)
             g == Filtered(q)
             w == Without(q, Strippable)
  <2>1. Filtered(Append(q, x)) = g \o b /\ g \in Seq(PipeBytes)
    BY FilteredAppend
  <2>2. Without(Append(q, x), Strippable) = IF x \in Strippable THEN w ELSE Append(w, x)
    BY WithoutAppend
  <2>3. w \in Seq(PipeBytes)
    BY WithoutType
  <2>4. Without(g, LineEnds) = Without(w, LineEnds)
    BY <1>2
  <2>5. g \o <<>> = g /\ \A y \in PipeBytes : g \o <<y>> = Append(g, y)
    BY <2>1, ConcatEmptySeq, AppendIsConcat
  <2>6. /\ \A y \in PipeBytes : Without(Append(g, y), LineEnds) =
              IF y \in LineEnds THEN Without(g, LineEnds) ELSE Append(Without(g, LineEnds), y)
        /\ \A y \in PipeBytes : Without(Append(w, y), LineEnds) =
              IF y \in LineEnds THEN Without(w, LineEnds) ELSE Append(Without(w, LineEnds), y)
    <3>1. \A v \in Seq(PipeBytes) : \A y \in PipeBytes : Without(Append(v, y), LineEnds) =
              IF y \in LineEnds THEN Without(v, LineEnds) ELSE Append(Without(v, LineEnds), y)
      BY WithoutAppend
    <3> HIDE DEF g, w
    <3> QED BY <2>1, <2>3, <3>1
  <2>7. Without(Filtered(Append(q, x)), LineEnds)
          = Without(Without(Append(q, x), Strippable), LineEnds)
    <3>1. CASE Stripped(x)
      <4>1. b = <<>> /\ x \in Strippable
        BY <3>1, StrippedBytes DEF FilterPart
      <4> HIDE DEF b, g, w
      <4> QED BY <2>1, <2>2, <2>4, <2>5, <4>1
    <3>2. CASE ~Stripped(x) /\ x = "nl" /\ Converts
      <4>1. (b = <<>> \/ b = <<"cr">>) /\ x \notin Strippable
        BY <3>2, StrippedBytes DEF FilterPart
      <4>2. x \in LineEnds /\ "cr" \in LineEnds /\ "cr" \in PipeBytes
        BY <3>2, StrippedBytes DEF PipeBytes
      <4> HIDE DEF b, g, w
      <4>3. Filtered(Append(q, x)) = g \/ Filtered(Append(q, x)) = Append(g, "cr")
        BY <2>1, <2>5, <4>1, <4>2
      <4>4. Without(Filtered(Append(q, x)), LineEnds) = Without(g, LineEnds)
        BY <2>6, <4>2, <4>3
      <4>5. Without(Append(q, x), Strippable) = Append(w, x)
        BY <2>2, <4>1
      <4>6. Without(Append(w, x), LineEnds) = Without(w, LineEnds)
        BY <2>6, <4>2
      <4> QED BY <2>4, <4>4, <4>5, <4>6
    <3>3. CASE ~Stripped(x) /\ ~(x = "nl" /\ Converts)
      <4>1. b = <<x>> /\ x \notin Strippable
        BY <3>3, StrippedBytes DEF FilterPart
      <4> HIDE DEF b, g, w
      <4>2. Filtered(Append(q, x)) = Append(g, x) /\ Without(Append(q, x), Strippable) = Append(w, x)
        BY <2>1, <2>2, <2>5, <4>1
      <4> QED BY <2>4, <2>6, <4>2
    <3> QED BY <3>1, <3>2, <3>3
  <2>8. Append(q, x) \in Seq(PipeBytes)
    OBVIOUS
  <2> QED BY <2>7, <2>8
<1> HIDE DEF T
<1>3. Seq(PipeBytes) \subseteq T
  BY <1>1, <1>2, SequenceInduction
<1> QED BY <1>3 DEF T

(* The line ends of a piece may be converted, but the URIs in it are told  *)
(* apart as they were sent: a newline that follows a return ends no other. *)
LEMMA FilteredUris ==
  ASSUME NEW a \in Seq(PipeBytes), NEW p \in Seq(PipeBytes)
  PROVE  Uris(a \o Filtered(p)) = Uris(a \o Without(p, Strippable))
<1> DEFINE w(q) == Without(q, Strippable)
           Same(q) == Uris(a \o Filtered(q)) = Uris(a \o w(q))
           Ended(q) == LastByte(q) = "cr" => Uris(a \o w(q)).left = <<>>
           T == {q \in Seq(PipeBytes) : Same(q) /\ Ended(q)}
<1>1. <<>> \in T
  <2>1. Filtered(<<>>) = <<>> /\ w(<<>>) = <<>>
    BY FilteredNothing, WithoutNothing
  <2>2. <<>> \in Seq(PipeBytes) /\ LastByte(<<>>) = "none"
    BY DEF LastByte
  <2> QED BY <2>1, <2>2
<1>2. ASSUME NEW q \in Seq(PipeBytes), NEW x \in PipeBytes, q \in T PROVE Append(q, x) \in T
  <2> DEFINE b == FilterPart(LastByte(q), x)
             g == a \o Filtered(q)
             v == a \o w(q)
             u == Uris(v)
             r == Append(q, x)
  <2>1. Filtered(r) = Filtered(q) \o b /\ Filtered(q) \in Seq(PipeBytes)
    BY FilteredAppend
  <2>2. w(r) = IF x \in Strippable THEN w(q) ELSE Append(w(q), x)
    BY WithoutAppend
  <2>3. w(q) \in Seq(PipeBytes)
    BY WithoutType
  <2>4. Uris(g) = u /\ (LastByte(q) = "cr" => u.left = <<>>)
    BY <1>2
  <2> HIDE DEF w
  <2>5. g \in Seq(PipeBytes) /\ v \in Seq(PipeBytes)
    BY <2>1, <2>3
  <2>6. u \in UriState
    <3> HIDE DEF v
    <3> QED BY <2>5, UrisType
  <2>7. r \in Seq(PipeBytes) /\ LastByte(r) = x
    <3>1. r \in Seq(PipeBytes) /\ Len(r) = Len(q) + 1 /\ r[Len(q) + 1] = x /\ Len(q) \in Nat
      BY AppendProperties
    <3> HIDE DEF r
    <3> QED BY <3>1 DEF LastByte
  <2>8. ASSUME NEW y \in PipeBytes
        PROVE  Uris(Append(g, y)) = UriByte(u, y) /\ Uris(Append(v, y)) = UriByte(u, y)
    <3>1. Uris(Append(g, y)) = UriByte(Uris(g), y) /\ Uris(Append(v, y)) = UriByte(Uris(v), y)
      <4> HIDE DEF g, v
      <4>1. Uris(Append(g, y)) = UriByte(Uris(g), y)
        BY <2>5, UrisAppend
      <4>2. Uris(Append(v, y)) = UriByte(Uris(v), y)
        BY <2>5, UrisAppend
      <4> QED BY <4>1, <4>2
    <3> HIDE DEF g, v
    <3> QED BY <2>4, <3>1
  <2>9. /\ \A y \in PipeBytes : a \o (Filtered(q) \o <<y>>) = Append(g, y)
        /\ a \o (Filtered(q) \o <<>>) = g
        /\ \A y \in PipeBytes : a \o Append(w(q), y) = Append(v, y)
    BY <2>1, <2>3
  <2>10. u = [done |-> u.done, left |-> u.left]
    BY <2>6 DEF UriState
  <2> HIDE DEF g, v, u, b, r
  <2>11. Same(r) /\ (x = "cr" => Uris(a \o w(r)).left = <<>>)
    <3>1. CASE Stripped(x)
      <4>1. b = <<>> /\ x \in Strippable /\ x # "cr"
        BY <3>1, StrippedBytes DEF FilterPart, b
      <4>2. a \o Filtered(r) = g /\ a \o w(r) = v
        BY <2>1, <2>2, <2>9, <4>1 DEF v
      <4> QED BY <2>4, <4>1, <4>2 DEF u
    <3>2. CASE ~Stripped(x) /\ x = "nl" /\ Converts
      <4>1. /\ x \notin Strippable /\ x # "cr"
            /\ b = IF LastByte(q) = "cr" THEN <<>> ELSE <<"cr">>
        BY <3>2, StrippedBytes DEF FilterPart, b
      <4>2. a \o w(r) = Append(v, x)
        BY <2>2, <2>9, <4>1
      <4>3. Uris(a \o w(r)) = UriByte(u, x)
        BY <2>8, <4>2
      <4>4. UriByte(u, "cr") = UriByte(u, x)
        BY <3>2 DEF UriByte, IsEnd
      <4>5. CASE LastByte(q) = "cr"
        <5>1. a \o Filtered(r) = g
          BY <2>1, <2>9, <4>1, <4>5
        <5>2. UriByte(u, x) = u
          BY <2>4, <2>10, <3>2, <4>5 DEF UriByte, IsEnd
        <5> QED BY <2>4, <4>1, <4>3, <5>1, <5>2
      <4>6. CASE LastByte(q) # "cr"
        <5>1. "cr" \in PipeBytes
          BY DEF PipeBytes
        <5>2. a \o Filtered(r) = Append(g, "cr")
          BY <2>1, <2>9, <4>1, <4>6, <5>1
        <5>3. Uris(a \o Filtered(r)) = UriByte(u, "cr")
          BY <2>8, <5>1, <5>2
        <5> QED BY <4>1, <4>3, <4>4, <5>3
      <4> QED BY <4>5, <4>6
    <3>3. CASE ~Stripped(x) /\ ~(x = "nl" /\ Converts)
      <4>1. b = <<x>> /\ x \notin Strippable
        BY <3>3, StrippedBytes DEF FilterPart, b
      <4>2. a \o Filtered(r) = Append(g, x) /\ a \o w(r) = Append(v, x)
        BY <2>1, <2>2, <2>9, <4>1
      <4>3. Uris(a \o Filtered(r)) = UriByte(u, x) /\ Uris(a \o w(r)) = UriByte(u, x)
        BY <2>8, <4>2
      <4>4. x = "cr" => UriByte(u, x).left = <<>>
        BY DEF UriByte, IsEnd
      <4> QED BY <4>3, <4>4
    <3> QED BY <3>1, <3>2, <3>3
  <2>12. Ended(r)
    BY <2>7, <2>11
  <2> HIDE DEF Same, Ended
  <2> QED BY <2>7, <2>11, <2>12 DEF r
<1> HIDE DEF T
<1>3. Seq(PipeBytes) \subseteq T
  BY <1>1, <1>2, SequenceInduction
<1> QED BY <1>3 DEF T, w

-----------------------------------------------------------------------------
(* Groups of three: reading on from what was left of a part.               *)
LEMMA ByThrees ==
  ASSUME NEW n \in Nat
  PROVE  /\ n \div 3 \in Nat
         /\ 3 * (n \div 3) <= n
         /\ n < 3 * (n \div 3) + 3
OBVIOUS

LEMMA GroupsType ==
  ASSUME NEW b \in Seq(PipeBytes)
  PROVE  LET n == Len(b) \div 3
         IN  /\ Groups(b).left \in Seq(PipeBytes)
             /\ Len(Groups(b).left) = Len(b) - (3 * n)
             /\ \A i \in 1 .. Len(b) - (3 * n) : Groups(b).left[i] = b[(3 * n) + i]
             /\ Groups(b).done \in Seq(Seq(PipeBytes))
             /\ Len(Groups(b).done) = n
             /\ \A g \in 1 .. n : /\ Groups(b).done[g] \in Seq(PipeBytes)
                                  /\ Len(Groups(b).done[g]) = 3
                                  /\ \A i \in 1 .. 3 : Groups(b).done[g][i] = b[(3 * g) - 3 + i]
<1> DEFINE n == Len(b) \div 3
           N == Len(b)
           l == SubSeq(b, (3 * n) + 1, N)
           d == [g \in 1 .. n |-> SubSeq(b, (3 * g) - 2, 3 * g)]
<1>1. N \in Nat /\ n \in Nat /\ 3 * n <= N /\ N < (3 * n) + 3
  BY ByThrees
<1>2. \A i \in 1 .. N : b[i] \in PipeBytes
  OBVIOUS
<1>3. Groups(b) = [done |-> d, left |-> l]
  BY DEF Groups
<1> HIDE DEF n, N
<1>4. /\ l \in Seq(PipeBytes) /\ Len(l) = N - (3 * n)
      /\ \A i \in 1 .. N - (3 * n) : l[i] = b[(3 * n) + i]
  <2> DEFINE k == (3 * n) + 1
  <2>1. k \in Int /\ N \in Int /\ \A i \in k .. N : b[i] \in PipeBytes
    BY <1>1, <1>2
  <2> HIDE DEF k
  <2>2. /\ SubSeq(b, k, N) \in Seq(PipeBytes)
        /\ Len(SubSeq(b, k, N)) = IF k <= N THEN (N - k) + 1 ELSE 0
        /\ \A i \in 1 .. (N - k) + 1 : SubSeq(b, k, N)[i] = b[(k + i) - 1]
    BY <2>1, SubSeqProperties
  <2>3. (N - k) + 1 = N - (3 * n) /\ (k > N => N - (3 * n) = 0)
    BY <1>1 DEF k
  <2>4. \A i \in 1 .. N - (3 * n) : (k + i) - 1 = (3 * n) + i
    BY <1>1 DEF k
  <2>5. Len(SubSeq(b, k, N)) = N - (3 * n)
    BY <1>1, <2>1, <2>2, <2>3
  <2> QED BY <2>2, <2>3, <2>4, <2>5 DEF k
<1>5. ASSUME NEW g \in 1 .. n
      PROVE  /\ SubSeq(b, (3 * g) - 2, 3 * g) \in Seq(PipeBytes)
             /\ Len(SubSeq(b, (3 * g) - 2, 3 * g)) = 3
             /\ \A i \in 1 .. 3 : SubSeq(b, (3 * g) - 2, 3 * g)[i] = b[(3 * g) - 3 + i]
  <2> DEFINE p == (3 * g) - 2
             q == 3 * g
  <2>1. p \in Int /\ q \in Int /\ p >= 1 /\ q <= N /\ (q - p) + 1 = 3 /\ p <= q
    BY <1>1
  <2>2. \A i \in p .. q : b[i] \in PipeBytes
    BY <1>1, <1>2, <2>1
  <2>3. \A i \in 1 .. 3 : (p + i) - 1 = (3 * g) - 3 + i
    BY <1>1
  <2> HIDE DEF p, q
  <2>4. /\ SubSeq(b, p, q) \in Seq(PipeBytes)
        /\ Len(SubSeq(b, p, q)) = IF p <= q THEN (q - p) + 1 ELSE 0
        /\ \A i \in 1 .. (q - p) + 1 : SubSeq(b, p, q)[i] = b[(p + i) - 1]
    BY <2>1, <2>2, SubSeqProperties
  <2> QED BY <2>1, <2>3, <2>4 DEF p, q
<1>6. /\ d \in Seq(Seq(PipeBytes)) /\ Len(d) = n
      /\ \A g \in 1 .. n : /\ d[g] \in Seq(PipeBytes)
                           /\ Len(d[g]) = 3
                           /\ \A i \in 1 .. 3 : d[g][i] = b[(3 * g) - 3 + i]
  <2>1. \A g \in 1 .. n : d[g] = SubSeq(b, (3 * g) - 2, 3 * g)
    OBVIOUS
  <2>2. DOMAIN d = 1 .. n /\ d = [g \in 1 .. n |-> d[g]]
    OBVIOUS
  <2> HIDE DEF d
  <2>3. d \in [1 .. n -> Seq(PipeBytes)]
    BY <1>5, <2>1, <2>2
  <2>4. d \in Seq(Seq(PipeBytes)) /\ Len(d) = n
    BY <1>1, <2>2, <2>3
  <2> QED BY <1>5, <2>1, <2>4
<1> HIDE DEF d, l
<1> QED BY <1>3, <1>4, <1>6 DEF n, N

(* Concatenation, as a statement about all the sequences of a set.         *)
LEMMA ConcatAll ==
  ASSUME NEW X
  PROVE  \A x, y \in Seq(X) :
           /\ x \o y \in Seq(X)
           /\ Len(x \o y) = Len(x) + Len(y)
           /\ \A i \in 1 .. Len(x) + Len(y) :
                 (x \o y)[i] = IF i <= Len(x) THEN x[i] ELSE y[i - Len(x)]
BY ConcatProperties

LEMMA GroupsConcat ==
  ASSUME NEW a \in Seq(PipeBytes), NEW b \in Seq(PipeBytes)
  PROVE  /\ Groups(a \o b).done = Groups(a).done \o Groups(Groups(a).left \o b).done
         /\ Groups(a \o b).left = Groups(Groups(a).left \o b).left
<1> DEFINE l == Groups(a).left
           d == Groups(a).done
           c == a \o b
           e == l \o b
           A == Len(a)
           B == Len(b)
           n == A \div 3
           m == Len(e) \div 3
           k == Len(c) \div 3
           dc == Groups(c).done
           de == Groups(e).done
<1>1. /\ A \in Nat /\ B \in Nat /\ n \in Nat /\ 3 * n <= A /\ A < (3 * n) + 3
      /\ l \in Seq(PipeBytes) /\ Len(l) = A - (3 * n)
      /\ \A i \in 1 .. A - (3 * n) : l[i] = a[(3 * n) + i]
      /\ d \in Seq(Seq(PipeBytes)) /\ Len(d) = n
      /\ \A g \in 1 .. n : /\ d[g] \in Seq(PipeBytes)
                           /\ Len(d[g]) = 3
                           /\ \A i \in 1 .. 3 : d[g][i] = a[(3 * g) - 3 + i]
  <2>1. A \in Nat /\ B \in Nat
    OBVIOUS
  <2>2. n \in Nat /\ 3 * n <= A /\ A < (3 * n) + 3
    BY <2>1, ByThrees
  <2>3. /\ l \in Seq(PipeBytes) /\ Len(l) = A - (3 * n)
        /\ \A i \in 1 .. A - (3 * n) : l[i] = a[(3 * n) + i]
    BY GroupsType
  <2>4. /\ d \in Seq(Seq(PipeBytes)) /\ Len(d) = n
        /\ \A g \in 1 .. n : /\ d[g] \in Seq(PipeBytes)
                             /\ Len(d[g]) = 3
                             /\ \A i \in 1 .. 3 : d[g][i] = a[(3 * g) - 3 + i]
    BY GroupsType
  <2> HIDE DEF l, d, n, A, B
  <2> QED BY <2>1, <2>2, <2>3, <2>4
<1> HIDE DEF l, d, n
<1>2. /\ c \in Seq(PipeBytes) /\ Len(c) = A + B
      /\ \A i \in 1 .. A + B : c[i] = IF i <= A THEN a[i] ELSE b[i - A]
  BY ConcatProperties
<1>3. /\ e \in Seq(PipeBytes) /\ Len(e) = (A - (3 * n)) + B
      /\ \A i \in 1 .. (A - (3 * n)) + B :
             e[i] = IF i <= A - (3 * n) THEN l[i] ELSE b[i - (A - (3 * n))]
  <2>1. /\ e \in Seq(PipeBytes) /\ Len(e) = Len(l) + B
        /\ \A i \in 1 .. Len(l) + B : e[i] = IF i <= Len(l) THEN l[i] ELSE b[i - Len(l)]
    <3>1. \A x, y \in Seq(PipeBytes) :
            /\ x \o y \in Seq(PipeBytes)
            /\ Len(x \o y) = Len(x) + Len(y)
            /\ \A i \in 1 .. Len(x) + Len(y) :
                  (x \o y)[i] = IF i <= Len(x) THEN x[i] ELSE y[i - Len(x)]
      BY ConcatAll
    <3>2. b \in Seq(PipeBytes) /\ l \in Seq(PipeBytes)
      BY <1>1
    <3> QED BY ONLY <3>1, <3>2
  <2> HIDE DEF c, e, A, B
  <2> QED BY <1>1, <2>1
<1> HIDE DEF c, e, A, B
<1>4. ASSUME NEW i \in 1 .. (A - (3 * n)) + B PROVE e[i] = c[(3 * n) + i]
  <2>1. (3 * n) + i \in 1 .. A + B
    BY <1>1
  <2>2. CASE i <= A - (3 * n)
    <3>1. i \in 1 .. A - (3 * n) /\ (3 * n) + i <= A
      BY <1>1, <2>2
    <3> QED BY <1>1, <1>2, <1>3, <2>1, <2>2, <3>1
  <2>3. CASE ~(i <= A - (3 * n))
    <3>1. ~((3 * n) + i <= A) /\ ((3 * n) + i) - A = i - (A - (3 * n))
      BY <1>1, <2>3
    <3>2. e[i] = b[i - (A - (3 * n))]
      BY <1>3, <2>3
    <3>3. c[(3 * n) + i] = b[((3 * n) + i) - A]
      BY <1>2, <2>1, <3>1
    <3> QED BY <3>1, <3>2, <3>3
  <2> QED BY <2>2, <2>3
<1>5. /\ k \in Nat /\ m \in Nat /\ k = n + m
      /\ 3 * m <= Len(e) /\ Len(e) < (3 * m) + 3
  <2>1. Len(e) \in Nat /\ Len(c) \in Nat /\ Len(c) = (3 * n) + Len(e)
    BY <1>1, <1>2, <1>3
  <2>2. /\ k \in Nat /\ 3 * k <= Len(c) /\ Len(c) < (3 * k) + 3
        /\ m \in Nat /\ 3 * m <= Len(e) /\ Len(e) < (3 * m) + 3
    BY <2>1, ByThrees
  <2> HIDE DEF k, m
  <2>3. k = n + m
    BY <1>1, <2>1, <2>2
  <2> QED BY <2>2, <2>3
<1>6. /\ Groups(c).left \in Seq(PipeBytes)
      /\ Len(Groups(c).left) = Len(c) - (3 * k)
      /\ \A i \in 1 .. Len(c) - (3 * k) : Groups(c).left[i] = c[(3 * k) + i]
      /\ dc \in Seq(Seq(PipeBytes)) /\ Len(dc) = k
      /\ \A g \in 1 .. k : /\ dc[g] \in Seq(PipeBytes)
                           /\ Len(dc[g]) = 3
                           /\ \A i \in 1 .. 3 : dc[g][i] = c[(3 * g) - 3 + i]
  BY <1>2, GroupsType
<1>7. /\ Groups(e).left \in Seq(PipeBytes)
      /\ Len(Groups(e).left) = Len(e) - (3 * m)
      /\ \A i \in 1 .. Len(e) - (3 * m) : Groups(e).left[i] = e[(3 * m) + i]
      /\ de \in Seq(Seq(PipeBytes)) /\ Len(de) = m
      /\ \A g \in 1 .. m : /\ de[g] \in Seq(PipeBytes)
                           /\ Len(de[g]) = 3
                           /\ \A i \in 1 .. 3 : de[g][i] = e[(3 * g) - 3 + i]
  BY <1>3, GroupsType
<1> HIDE DEF k, m, dc, de
<1>8. Groups(c).left = Groups(e).left
  <2> DEFINE p == Groups(c).left
             q == Groups(e).left
             z == Len(e) - (3 * m)
  <2>1. Len(c) - (3 * k) = z /\ z \in Nat
    BY <1>1, <1>2, <1>3, <1>5
  <2>2. ASSUME NEW i \in 1 .. z PROVE p[i] = q[i]
    <3>1. /\ (3 * m) + i \in 1 .. (A - (3 * n)) + B
          /\ (3 * n) + ((3 * m) + i) = (3 * k) + i
      BY <1>1, <1>3, <1>5
    <3>2. p[i] = c[(3 * k) + i] /\ q[i] = e[(3 * m) + i]
      BY <1>6, <1>7, <2>1
    <3> QED BY <1>4, <3>1, <3>2
  <2>3. p \in Seq(PipeBytes) /\ q \in Seq(PipeBytes) /\ Len(p) = z /\ Len(q) = z
    BY <1>6, <1>7, <2>1
  <2> HIDE DEF p, q, z
  <2>4. p = q
    BY <2>2, <2>3, SeqEqual
  <2> QED BY <2>4 DEF p, q
<1>9. dc = d \o de
  <2>1. /\ d \o de \in Seq(Seq(PipeBytes)) /\ Len(d \o de) = n + m
        /\ \A g \in 1 .. n + m : (d \o de)[g] = IF g <= n THEN d[g] ELSE de[g - n]
    <3>1. /\ d \o de \in Seq(Seq(PipeBytes)) /\ Len(d \o de) = Len(d) + Len(de)
          /\ \A g \in 1 .. Len(d) + Len(de) :
                 (d \o de)[g] = IF g <= Len(d) THEN d[g] ELSE de[g - Len(d)]
      <4>1. \A x, y \in Seq(Seq(PipeBytes)) :
              /\ x \o y \in Seq(Seq(PipeBytes))
              /\ Len(x \o y) = Len(x) + Len(y)
              /\ \A i \in 1 .. Len(x) + Len(y) :
                    (x \o y)[i] = IF i <= Len(x) THEN x[i] ELSE y[i - Len(x)]
        BY ConcatAll
      <4>2. d \in Seq(Seq(PipeBytes)) /\ de \in Seq(Seq(PipeBytes))
        BY <1>1, <1>7
      <4> QED BY ONLY <4>1, <4>2
    <3> QED BY <1>1, <1>7, <3>1
  <2>2. ASSUME NEW g \in 1 .. n + m PROVE dc[g] = (d \o de)[g]
    <3>1. /\ dc[g] \in Seq(PipeBytes) /\ Len(dc[g]) = 3
          /\ \A i \in 1 .. 3 : dc[g][i] = c[(3 * g) - 3 + i]
      BY <1>5, <1>6
    <3>2. CASE g <= n
      <4>1. g \in 1 .. n
        BY <1>1, <3>2
      <4>2. /\ d[g] \in Seq(PipeBytes) /\ Len(d[g]) = 3
            /\ \A i \in 1 .. 3 : d[g][i] = a[(3 * g) - 3 + i]
        BY <1>1, <4>1
      <4>3. ASSUME NEW i \in 1 .. 3 PROVE c[(3 * g) - 3 + i] = a[(3 * g) - 3 + i]
        <5> DEFINE j == ((3 * g) - 3) + i
        <5>1. j \in Int /\ j >= 1 /\ j <= 3 * n
          BY <1>1, <4>1
        <5> HIDE DEF j
        <5>2. j \in 1 .. A + B /\ j <= A
          BY <1>1, <5>1
        <5>3. c[j] = a[j]
          BY <1>2, <5>2
        <5> QED BY <5>3 DEF j
      <4>4. \A i \in 1 .. 3 : dc[g][i] = d[g][i]
        BY <3>1, <4>2, <4>3
      <4>5. dc[g] = d[g]
        BY <3>1, <4>2, <4>4, SeqEqual
      <4> QED BY <2>1, <3>2, <4>5
    <3>3. CASE ~(g <= n)
      <4> DEFINE h == g - n
      <4>1. h \in 1 .. m /\ (3 * g) - 3 = (3 * n) + ((3 * h) - 3)
        BY <1>1, <1>5, <3>3
      <4> HIDE DEF h
      <4>2. /\ de[h] \in Seq(PipeBytes) /\ Len(de[h]) = 3
            /\ \A i \in 1 .. 3 : de[h][i] = e[(3 * h) - 3 + i]
        BY <1>7, <4>1
      <4>3. ASSUME NEW i \in 1 .. 3 PROVE c[(3 * g) - 3 + i] = e[(3 * h) - 3 + i]
        <5>1. /\ ((3 * h) - 3) + i \in 1 .. (A - (3 * n)) + B
              /\ ((3 * g) - 3) + i = (3 * n) + (((3 * h) - 3) + i)
          BY <1>1, <1>3, <1>5, <4>1
        <5> QED BY <1>4, <5>1
      <4>4. \A i \in 1 .. 3 : dc[g][i] = de[h][i]
        BY <3>1, <4>2, <4>3
      <4>5. dc[g] = de[h]
        BY <3>1, <4>2, <4>4, SeqEqual
      <4> QED BY <2>1, <3>3, <4>5 DEF h
    <3> QED BY <3>2, <3>3
  <2>3. Len(dc) = Len(d \o de) /\ \A g \in 1 .. Len(dc) : dc[g] = (d \o de)[g]
    BY <1>5, <1>6, <2>1, <2>2
  <2> QED BY <1>6, <2>1, <2>3, SeqEqual
<1> QED BY <1>8, <1>9 DEF dc, de, c, e, l, d

LEMMA WithoutNone ==
  ASSUME NEW X, NEW b \in Seq(X)
  PROVE  Without(b, {}) = b
<1> DEFINE T == {c \in Seq(X) : Without(c, {}) = c}
<1>1. <<>> \in T
  <2>1. <<>> \in Seq(X)
    OBVIOUS
  <2> QED BY <2>1, WithoutNothing
<1>2. ASSUME NEW c \in Seq(X), NEW x \in X, c \in T PROVE Append(c, x) \in T
  <2>1. Without(Append(c, x), {}) = Append(Without(c, {}), x)
    BY WithoutAppend
  <2>2. Append(c, x) \in Seq(X)
    OBVIOUS
  <2> QED BY <1>2, <2>1, <2>2
<1> HIDE DEF T
<1>3. Seq(X) \subseteq T
  BY <1>1, <1>2, SequenceInduction
<1> QED BY <1>3 DEF T

-----------------------------------------------------------------------------
Kept == Without(input, Strippable)

ReceiveTypes ==
  /\ mode \in ReceiveModes
  /\ input \in Seq(PipeBytes)
  /\ ended \in {"no", "end", "timeout"}
  /\ mode.consumer = "paste" => output \in Seq(PipeBytes)
  /\ mode.consumer # "paste" => output \in Seq(Seq(PipeBytes))

(* What the consumer waits with is what the data so far ends in.           *)
HeldIsLeft ==
  held = IF ended # "no" \/ mode.consumer = "paste" THEN <<>>
         ELSE IF mode.consumer = "uris" THEN Uris(Kept).left
         ELSE Groups(input).left

PasteArrives ==
  /\ output \in Seq(Passable)
  /\ Without(output, LineEnds) = Without(Kept, LineEnds)
  /\ ~Converts => output = Kept

UrisArrive == output = Uris(Kept).done \o Final(Uris(Kept).left, ended = "end")

GroupsArrive == output = Groups(input).done \o Final(Groups(input).left, ended # "no")

ReceiveInv ==
  /\ ReceiveTypes
  /\ HeldIsLeft
  /\ mode.consumer = "paste" => PasteArrives
  /\ mode.consumer = "uris" => UrisArrive
  /\ mode.consumer = "osc52" => GroupsArrive

LEMMA ReceiveInvImplies == ReceiveInv => AnyCut
<1> SUFFICES ASSUME ReceiveInv PROVE AnyCut
  OBVIOUS
<1>1. ASSUME mode.consumer = "paste"
      PROVE  \A i \in DOMAIN output :
               output[i] \notin Strippable \cup (IF Converts THEN {"nl"} ELSE {})
  <2>1. output \in Seq(Passable)
    BY <1>1 DEF ReceiveInv, PasteArrives
  <2>2. \A i \in DOMAIN output : output[i] \in Passable
    <3> HIDE DEF Passable
    <3> QED BY <2>1
  <2> QED BY <2>2 DEF Passable
<1>2. mode.consumer = "paste" =>
        Without(output, LineEnds) = Without(Kept, LineEnds) /\ (~Converts => output = Kept)
  BY DEF ReceiveInv, PasteArrives
<1>3. mode.consumer = "uris" =>
        output = Uris(Kept).done \o Final(Uris(Kept).left, ended = "end")
  BY DEF ReceiveInv, UrisArrive
<1>4. mode.consumer = "osc52" =>
        output = Groups(input).done \o Final(Groups(input).left, ended # "no")
  BY DEF ReceiveInv, GroupsArrive
<1> QED BY <1>1, <1>2, <1>3, <1>4 DEF AnyCut, Kept

LEMMA ReceiveInvInit == ReceiveInit => ReceiveInv
<1> SUFFICES ASSUME ReceiveInit PROVE ReceiveInv
  OBVIOUS
<1>1. /\ mode \in ReceiveModes /\ input = <<>> /\ held = <<>> /\ output = <<>> /\ ended = "no"
  BY DEF ReceiveInit, ReceiveModes
<1>2. Kept = <<>>
  BY <1>1, WithoutNothing DEF Kept
<1>3. Uris(Kept) = NoUri /\ NoUri.done = <<>> /\ NoUri.left = <<>>
  BY <1>2, UrisNothing DEF NoUri
<1>4. Groups(input).done = <<>> /\ Groups(input).left = <<>>
  <2>1. <<>> \in Seq(PipeBytes) /\ Len(<<>>) = 0 /\ 0 \div 3 = 0
    OBVIOUS
  <2>2. /\ Groups(<<>>).left \in Seq(PipeBytes)
        /\ Len(Groups(<<>>).left) = Len(<<>>) - (3 * (Len(<<>>) \div 3))
        /\ Groups(<<>>).done \in Seq(Seq(PipeBytes))
        /\ Len(Groups(<<>>).done) = Len(<<>>) \div 3
    BY <2>1, GroupsType
  <2>3. Len(Groups(<<>>).left) = 0 /\ Len(Groups(<<>>).done) = 0
    BY <2>1, <2>2
  <2>4. Groups(<<>>).left = <<>> /\ Groups(<<>>).done = <<>>
    BY <2>2, <2>3, EmptySeq
  <2> QED BY <1>1, <2>4
<1>5. <<>> \o <<>> = <<>>
  OBVIOUS
<1>6. ReceiveTypes
  <2>1. \A X : <<>> \in Seq(X)
    OBVIOUS
  <2> QED BY <1>1, <2>1 DEF ReceiveTypes
<1>7. HeldIsLeft
  BY <1>1, <1>3, <1>4 DEF HeldIsLeft
<1>8. PasteArrives
  <2>1. <<>> \in Seq(Passable)
    OBVIOUS
  <2> QED BY <1>1, <1>2, <2>1 DEF PasteArrives
<1>9. UrisArrive /\ GroupsArrive
  <2>1. Final(<<>>, FALSE) = <<>>
    BY DEF Final
  <2>2. (ended = "end") = FALSE /\ (ended # "no") = FALSE
    BY <1>1
  <2> QED BY <1>1, <1>3, <1>4, <1>5, <2>1, <2>2 DEF UrisArrive, GroupsArrive
<1> QED BY <1>6, <1>7, <1>8, <1>9 DEF ReceiveInv

(* What a mode decides stays.                                              *)
LEMMA ModeStays ==
  ASSUME mode' = mode
  PROVE  /\ Strippable' = Strippable
         /\ Converts' = Converts
         /\ Passable' = Passable
         /\ LineEnds' = LineEnds
<1>1. Strippable' = Strippable
  BY DEF Strippable, Stripped, Raw
<1>2. Converts' = Converts
  BY DEF Converts, Raw
<1> QED BY <1>1, <1>2 DEF Passable, LineEnds

LEMMA ReadKeeps == ReceiveInv /\ Read => ReceiveInv'
<1> SUFFICES ASSUME ReceiveInv, Read PROVE ReceiveInv'
  OBVIOUS
<1>1. /\ mode \in ReceiveModes /\ input \in Seq(PipeBytes)
      /\ mode.consumer \in Consumers
  BY DEF ReceiveInv, ReceiveTypes, ReceiveModes
<1>2. ended = "no" /\ mode' = mode /\ ended' = ended
  BY DEF Read
<1>3. PICK n \in 1 .. MaxInput - Len(input) : \E p \in [1 .. n -> PipeBytes] :
        LET taken == Takes(held \o Filtered(p))
        IN  /\ input' = input \o p
            /\ held' = taken.left
            /\ output' = output \o taken.done
  BY DEF Read
<1>4. PICK piece \in [1 .. n -> PipeBytes] :
        LET taken == Takes(held \o Filtered(piece))
        IN  /\ input' = input \o piece
            /\ held' = taken.left
            /\ output' = output \o taken.done
  BY <1>3
<1>5. piece \in Seq(PipeBytes)
  <2>1. n \in Nat
    BY <1>1, ReceiveAssumption
  <2> QED BY <2>1
<1> DEFINE F == Filtered(piece)
           W == Without(piece, Strippable)
           taken == Takes(held \o F)
<1>6. input' = input \o piece /\ held' = taken.left /\ output' = output \o taken.done
  BY <1>4
<1>7. F \in Seq(PipeBytes) /\ W \in Seq(PipeBytes) /\ Kept \in Seq(PipeBytes)
  <2>1. "x" \in PipeBytes
    BY DEF PipeBytes
  <2> QED BY <1>1, <1>5, <2>1, FilteredAppend, WithoutType DEF Kept
<1>8. input' \in Seq(PipeBytes)
  <2>1. input \o piece \in Seq(PipeBytes)
    BY <1>1, <1>5
  <2> QED BY <1>6, <2>1
<1>9. Kept' = Kept \o W
  <2>1. Without(input \o piece, Strippable) = Kept \o W
    BY <1>1, <1>5, WithoutConcat DEF Kept
  <2>2. Kept' = Without(input', Strippable')
    BY DEF Kept
  <2> QED BY <1>2, <1>6, <2>1, <2>2, ModeStays
<1>10. CASE mode.consumer = "paste"
  <2>1. held = <<>> /\ PasteArrives /\ output \in Seq(PipeBytes)
    BY <1>10 DEF ReceiveInv, HeldIsLeft, ReceiveTypes
  <2>2. held \o F = F
    BY <1>7, <2>1, ConcatEmptySeq
  <2>3. taken = [done |-> F, left |-> <<>>]
    BY <1>10, <2>2 DEF Takes
  <2>4. held' = <<>> /\ output' = output \o F
    BY <1>6, <2>3
  <2>5. F \in Seq(Passable)
    BY <1>5, FilteredPassable
  <2>6. Without(F, LineEnds) = Without(W, LineEnds)
    BY <1>5, FilteredText
  <2>7. ~Converts => F = W
    BY <1>5, FilteredUnconverted
  <2> HIDE DEF F, W
  <2>8. output' \in Seq(PipeBytes) /\ output' \in Seq(Passable)
    <3>1. output \in Seq(Passable)
      BY <2>1 DEF PasteArrives
    <3>2. \A X : \A y, z \in Seq(X) : y \o z \in Seq(X)
      BY ConcatAll
    <3> QED BY <1>7, <2>1, <2>4, <2>5, <3>1, <3>2
  <2>9. Without(output', LineEnds) = Without(Kept', LineEnds)
    <3>1. \A y, z \in Seq(PipeBytes) :
             Without(y \o z, LineEnds) = Without(y, LineEnds) \o Without(z, LineEnds)
      BY WithoutConcat
    <3>2. Without(output, LineEnds) = Without(Kept, LineEnds)
      BY <2>1 DEF PasteArrives
    <3> QED BY <1>7, <1>9, <2>1, <2>4, <2>6, <3>1, <3>2, ZenonT(30)
  <2>10. ~Converts => output' = Kept'
    BY <1>9, <2>1, <2>4, <2>7 DEF PasteArrives
  <2>11. PasteArrives'
    BY <1>2, <2>8, <2>9, <2>10, ModeStays DEF PasteArrives
  <2>12. ReceiveTypes'
    BY <1>1, <1>2, <1>8, <1>10, <2>8 DEF ReceiveTypes
  <2>13. HeldIsLeft'
    BY <1>2, <1>10, <2>4 DEF HeldIsLeft
  <2> QED BY <1>2, <1>10, <2>11, <2>12, <2>13 DEF ReceiveInv
<1>11. CASE mode.consumer = "uris"
  <2> DEFINE u == Uris(Kept)
  <2>1. /\ held = u.left /\ output \in Seq(Seq(PipeBytes))
        /\ output = u.done \o Final(u.left, ended = "end")
    BY <1>2, <1>11 DEF ReceiveInv, HeldIsLeft, ReceiveTypes, UrisArrive
  <2>2. u.done \in Seq(Seq(PipeBytes)) /\ u.left \in Seq(PipeBytes)
    BY <1>7, UrisType DEF UriState
  <2>3. output = u.done
    <3>1. Final(u.left, ended = "end") = <<>>
      BY <1>2 DEF Final
    <3> HIDE DEF u
    <3> QED BY <2>1, <2>2, <3>1, ConcatEmptySeq
  <2> DEFINE v == Uris(u.left \o W)
  <2>4. taken = v
    <3>1. taken = Uris(u.left \o F)
      BY <1>11, <2>1 DEF Takes
    <3>2. Uris(u.left \o F) = Uris(u.left \o W)
      <4> HIDE DEF u
      <4> QED BY <1>5, <2>2, FilteredUris
    <3> QED BY <3>1, <3>2
  <2>5. Uris(Kept').done = u.done \o v.done /\ Uris(Kept').left = v.left
    <3>1. Uris(Kept \o W).done = u.done \o v.done /\ Uris(Kept \o W).left = v.left
      <4> HIDE DEF W
      <4> QED BY <1>7, UrisConcat
    <3> HIDE DEF u, v, W
    <3> QED BY <1>9, <3>1
  <2>6. v.done \in Seq(Seq(PipeBytes))
    <3>1. u.left \o W \in Seq(PipeBytes)
      <4> HIDE DEF u, W
      <4> QED BY <1>7, <2>2
    <3>2. v \in UriState
      <4> DEFINE y == u.left \o W
      <4>1. y \in Seq(PipeBytes)
        BY <3>1
      <4> HIDE DEF y
      <4>2. Uris(y) \in UriState
        BY <4>1, UrisType
      <4> QED BY <4>2 DEF y
    <3> HIDE DEF v
    <3> QED BY <3>2 DEF UriState
  <2> HIDE DEF u, v, taken, W
  <2>7. held' = v.left /\ output' = u.done \o v.done
    BY <1>6, <2>3, <2>4
  <2>8. output' \in Seq(Seq(PipeBytes))
    BY <2>2, <2>6, <2>7
  <2>9. UrisArrive'
    <3>1. Final(Uris(Kept').left, ended' = "end") = <<>>
      BY <1>2 DEF Final
    <3>2. output' \o <<>> = output'
      BY <2>8, ConcatEmptySeq
    <3>3. output' = Uris(Kept').done \o Final(Uris(Kept').left, ended' = "end")
      BY <2>5, <2>7, <3>1, <3>2
    <3> QED BY <3>3 DEF UrisArrive
  <2>10. ReceiveTypes'
    BY <1>1, <1>2, <1>8, <1>11, <2>8 DEF ReceiveTypes
  <2>11. HeldIsLeft'
    BY <1>2, <1>11, <2>5, <2>7 DEF HeldIsLeft
  <2> QED BY <1>2, <1>11, <2>9, <2>10, <2>11 DEF ReceiveInv
<1>12. CASE mode.consumer = "osc52"
  <2> DEFINE u == Groups(input)
             v == Groups(u.left \o piece)
  <2>1. /\ held = u.left /\ output \in Seq(Seq(PipeBytes))
        /\ output = u.done \o Final(u.left, ended # "no")
    BY <1>2, <1>12 DEF ReceiveInv, HeldIsLeft, ReceiveTypes, GroupsArrive
  <2>2. u.done \in Seq(Seq(PipeBytes)) /\ u.left \in Seq(PipeBytes)
    BY <1>1, GroupsType
  <2>3. output = u.done
    <3>1. Final(u.left, ended # "no") = <<>>
      BY <1>2 DEF Final
    <3> HIDE DEF u
    <3> QED BY <2>1, <2>2, <3>1, ConcatEmptySeq
  <2>4. F = piece
    <3>1. ~Converts /\ Strippable = {}
      BY <1>12 DEF Converts, Raw, Strippable, Stripped
    <3>2. F = Without(piece, Strippable)
      BY <1>5, <3>1, FilteredUnconverted
    <3>3. Without(piece, {}) = piece
      BY <1>5, WithoutNone
    <3> QED BY <3>1, <3>2, <3>3
  <2>5. taken = v
    BY <1>12, <2>1, <2>4 DEF Takes
  <2>6. Groups(input').done = u.done \o v.done /\ Groups(input').left = v.left
    <3>1. /\ Groups(input \o piece).done = u.done \o v.done
          /\ Groups(input \o piece).left = v.left
      BY <1>1, <1>5, GroupsConcat
    <3> HIDE DEF u, v
    <3> QED BY <1>6, <3>1
  <2>7. v.done \in Seq(Seq(PipeBytes))
    <3> DEFINE y == u.left \o piece
    <3>1. y \in Seq(PipeBytes)
      <4> HIDE DEF u
      <4> QED BY <1>5, <2>2
    <3> HIDE DEF y
    <3>2. Groups(y).done \in Seq(Seq(PipeBytes))
      BY <3>1, GroupsType
    <3> QED BY <3>2 DEF y
  <2> HIDE DEF u, v, taken
  <2>8. held' = v.left /\ output' = u.done \o v.done
    BY <1>6, <2>3, <2>5
  <2>9. output' \in Seq(Seq(PipeBytes))
    BY <2>2, <2>7, <2>8
  <2>10. GroupsArrive'
    <3>1. Final(Groups(input').left, ended' # "no") = <<>>
      BY <1>2 DEF Final
    <3>2. output' \o <<>> = output'
      BY <2>9, ConcatEmptySeq
    <3>3. output' = Groups(input').done \o Final(Groups(input').left, ended' # "no")
      BY <2>6, <2>8, <3>1, <3>2
    <3> QED BY <3>3 DEF GroupsArrive
  <2>11. ReceiveTypes'
    BY <1>1, <1>2, <1>8, <1>12, <2>9 DEF ReceiveTypes
  <2>12. HeldIsLeft'
    BY <1>2, <1>12, <2>6, <2>8 DEF HeldIsLeft
  <2> QED BY <1>2, <1>12, <2>10, <2>11, <2>12 DEF ReceiveInv
<1> QED BY <1>1, <1>10, <1>11, <1>12 DEF Consumers

LEMMA FinishKeeps == ReceiveInv /\ Finish => ReceiveInv'
<1> SUFFICES ASSUME ReceiveInv, Finish PROVE ReceiveInv'
  OBVIOUS
<1>1. /\ mode \in ReceiveModes /\ input \in Seq(PipeBytes)
      /\ mode.consumer \in Consumers
  BY DEF ReceiveInv, ReceiveTypes, ReceiveModes
<1>2. ended = "no" /\ mode' = mode /\ input' = input /\ held' = <<>>
  BY DEF Finish
<1>3. /\ ended' \in {"end", "timeout"}
      /\ output' = IF held = <<>> \/ (mode.consumer = "uris" /\ ended' = "timeout")
                   THEN output ELSE Append(output, held)
  BY DEF Finish
<1>4. Kept' = Kept /\ Kept \in Seq(PipeBytes)
  BY <1>1, <1>2, ModeStays, WithoutType DEF Kept
<1>5. HeldIsLeft'
  BY <1>2, <1>3 DEF HeldIsLeft
<1>6. ASSUME NEW d \in Seq(Seq(PipeBytes)), NEW l \in Seq(PipeBytes), NEW passed \in BOOLEAN
      PROVE  /\ d \o Final(l, passed) = IF l = <<>> \/ ~passed THEN d ELSE Append(d, l)
             /\ d \o Final(l, passed) \in Seq(Seq(PipeBytes))
  <2>1. d \o <<>> = d /\ d \o <<l>> = Append(d, l) /\ Append(d, l) \in Seq(Seq(PipeBytes))
    BY ConcatEmptySeq, AppendIsConcat
  <2> QED BY <2>1 DEF Final
<1>7. CASE mode.consumer = "paste"
  <2>1. held = <<>> /\ PasteArrives /\ output \in Seq(PipeBytes)
    BY <1>7 DEF ReceiveInv, HeldIsLeft, ReceiveTypes
  <2>2. output' = output
    BY <1>3, <2>1
  <2>3. PasteArrives'
    BY <1>2, <1>4, <2>1, <2>2, ModeStays DEF PasteArrives
  <2>4. ReceiveTypes'
    BY <1>1, <1>2, <1>3, <1>7, <2>1, <2>2 DEF ReceiveTypes
  <2> QED BY <1>2, <1>5, <1>7, <2>3, <2>4 DEF ReceiveInv
<1>8. CASE mode.consumer = "uris"
  <2> DEFINE d == Uris(Kept).done
             l == Uris(Kept).left
  <2>1. held = l /\ output = d \o Final(l, ended = "end")
    BY <1>2, <1>8 DEF ReceiveInv, HeldIsLeft, UrisArrive
  <2>2. d \in Seq(Seq(PipeBytes)) /\ l \in Seq(PipeBytes)
    BY <1>4, UrisType DEF UriState
  <2> HIDE DEF d, l
  <2>3. output = d
    <3>1. output = d \o Final(l, FALSE)
      BY <1>2, <2>1
    <3> QED BY <1>6, <2>2, <3>1
  <2>4. output' = d \o Final(l, ended' = "end")
    <3>1. (ended' = "end") \in BOOLEAN
      OBVIOUS
    <3>2. d \o Final(l, ended' = "end") = IF l = <<>> \/ ~(ended' = "end") THEN d ELSE Append(d, l)
      BY <1>6, <2>2, <3>1
    <3> QED BY <1>3, <1>8, <2>1, <2>3, <3>2
  <2>5. output' \in Seq(Seq(PipeBytes))
    <3>1. (ended' = "end") \in BOOLEAN
      OBVIOUS
    <3> QED BY <1>6, <2>2, <2>4, <3>1
  <2>6. UrisArrive'
    BY <1>4, <2>4 DEF UrisArrive, d, l
  <2>7. ReceiveTypes'
    BY <1>1, <1>2, <1>3, <1>8, <2>5 DEF ReceiveTypes
  <2> QED BY <1>2, <1>5, <1>8, <2>6, <2>7 DEF ReceiveInv
<1>9. CASE mode.consumer = "osc52"
  <2> DEFINE d == Groups(input).done
             l == Groups(input).left
  <2>1. held = l /\ output = d \o Final(l, ended # "no")
    BY <1>2, <1>9 DEF ReceiveInv, HeldIsLeft, GroupsArrive
  <2>2. d \in Seq(Seq(PipeBytes)) /\ l \in Seq(PipeBytes)
    BY <1>1, GroupsType
  <2> HIDE DEF d, l
  <2>3. output = d
    <3>1. output = d \o Final(l, FALSE)
      BY <1>2, <2>1
    <3> QED BY <1>6, <2>2, <3>1
  <2>4. (ended' # "no") \in BOOLEAN /\ ended' # "no"
    BY <1>3
  <2>5. output' = d \o Final(l, ended' # "no") /\ output' \in Seq(Seq(PipeBytes))
    <3>1. /\ d \o Final(l, ended' # "no") = IF l = <<>> \/ ~(ended' # "no") THEN d ELSE Append(d, l)
          /\ d \o Final(l, ended' # "no") \in Seq(Seq(PipeBytes))
      BY <1>6, <2>2, <2>4
    <3> QED BY <1>3, <1>9, <2>1, <2>3, <2>4, <3>1
  <2>6. GroupsArrive'
    BY <1>2, <2>5 DEF GroupsArrive, d, l
  <2>7. ReceiveTypes'
    BY <1>1, <1>2, <1>3, <1>9, <2>5 DEF ReceiveTypes
  <2> QED BY <1>2, <1>5, <1>9, <2>6, <2>7 DEF ReceiveInv
<1> QED BY <1>1, <1>7, <1>8, <1>9 DEF Consumers

LEMMA ReceiveInvStep == ReceiveInv /\ [ReceiveNext]_receiveVars => ReceiveInv'
<1> SUFFICES ASSUME ReceiveInv, [ReceiveNext]_receiveVars PROVE ReceiveInv'
  OBVIOUS
<1>1. CASE Read
  BY <1>1, ReadKeeps
<1>2. CASE Finish
  BY <1>2, FinishKeeps
<1>3. CASE UNCHANGED receiveVars
  <2>1. mode' = mode /\ input' = input /\ held' = held /\ output' = output /\ ended' = ended
    BY <1>3 DEF receiveVars
  <2>2. Kept' = Kept
    BY <2>1, ModeStays DEF Kept
  <2>3. ReceiveTypes' /\ HeldIsLeft'
    BY <2>1, <2>2 DEF ReceiveInv, ReceiveTypes, HeldIsLeft
  <2>4. PasteArrives' <=> PasteArrives
    BY <2>1, <2>2, ModeStays DEF PasteArrives
  <2>5. (UrisArrive' <=> UrisArrive) /\ (GroupsArrive' <=> GroupsArrive)
    BY <2>1, <2>2 DEF UrisArrive, GroupsArrive
  <2> QED BY <2>1, <2>3, <2>4, <2>5 DEF ReceiveInv
<1> QED BY <1>1, <1>2, <1>3 DEF ReceiveNext

(* However the pipe cuts the data, what fdm_receive() passes on is what    *)
(* the data, read at once, would have become: pasted text whole and in     *)
(* order and without what is to be left out, the URIs told apart where the *)
(* data does, base64 groups full but for the last (selection.c:2115,       *)
(* 2190; osc.c:117).                                                       *)
THEOREM AnyCutArrives == ReceiveSpec => []AnyCut
<1>1. ReceiveInit => ReceiveInv
  BY ReceiveInvInit
<1>2. ReceiveInv /\ [ReceiveNext]_receiveVars => ReceiveInv'
  BY ReceiveInvStep
<1>3. ReceiveInv => AnyCut
  BY ReceiveInvImplies
<1> QED BY <1>1, <1>2, <1>3, PTL DEF ReceiveSpec

=============================================================================
