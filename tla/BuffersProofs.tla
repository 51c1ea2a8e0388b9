---------------------------- MODULE BuffersProofs ---------------------------
(***************************************************************************)
(* Proofs about FrameBuffers, for any number of buffers, window sizes and  *)
(* frames.                                                                 *)
(*                                                                         *)
(* That a frame is never torn (NoTornFrame) rests on the meaning of a      *)
(* buffer's age (AgeTellsFrame) and on what last_buf is: it shows the      *)
(* newest frame (LastAge), and while any buffer is one frame behind, its   *)
(* damage is the newest frame's (LastDamage).  The worker changes          *)
(* last_buf, so its half-done work is part of the invariant (JobPixels),   *)
(* and so is that its buffer is the only one that is one frame behind      *)
(* (DistinctAges: two buffers that are equally far behind were committed   *)
(* with the same frame).  References are counted for a chain that a        *)
(* destroyed window left with last_buf alone (Closed).                     *)
(*                                                                         *)
(* Below them, proofs about RenderWorkers, for any number of workers, rows *)
(* and frames.                                                             *)
(*                                                                         *)
(* No post of the semaphore "start" belongs to a worker, so what is known  *)
(* of a worker is known by counting only.  Tokens: a post that was not     *)
(* taken and a worker that took one and has not found a marker yet are as  *)
(* many as there are markers in the queue (but for those grid_render() is  *)
(* about to put there).  A worker that looks into the queue therefore      *)
(* finds it filled.  The rest of the invariant says what is in the queue   *)
(* in each phase: in a frame, every "done" that is still to be taken was   *)
(* posted, or will be by the worker that is about to, or by one that finds *)
(* an end marker; so when the last is taken, no worker is left that could  *)
(* still draw.                                                             *)
(***************************************************************************)
EXTENDS FrameBuffers, RenderWorkers, FiniteSetTheorems, SequenceTheorems, TLAPS

LastAge == last # None /\ window # "gone" => buf[last].age = 0

DistinctAges ==
    \A a, b \in chain : a # b /\ buf[a].age = buf[b].age =>
        buf[a].age = 0 /\ (~buf[a].busy \/ ~buf[b].busy)

LastDamage ==
    last # None /\ (\E b \in chain : buf[b].age = 1) =>
        buf[last].dirty \in {Full, frame}

JobPixels ==
    job # None =>
        /\ pc \in {"queued", "copy"} =>
              buf[job].age = 1 /\ buf[job].holds = frame - 1
        /\ pc = "age" => buf[job].age = 1 /\ buf[job].holds = frame
        /\ pc \in {"unref", "swap", "finish"} =>
              buf[job].age = 0 /\ buf[job].holds = frame
        /\ pc \in {"unref", "swap"} => \A b \in chain : buf[b].age # 1

Closed == window # "open" => job = None /\ chain \subseteq {last}

Content == NoTornFrame /\ LastAge /\ DistinctAges /\ LastDamage /\ JobPixels

BuffersInv == BuffersKept /\ Content /\ Closed

-----------------------------------------------------------------------------
(* Dropping references *)

\* Who has how many references in an open window without a job.
LEMMA OpenRefs ==
    ASSUME BuffersInv, window = "open", job = None, NEW a \in chain
    PROVE  buf[a].ref = IF a = last THEN 2 ELSE 1
BY DEF BuffersInv, BuffersKept, TypeOK, RefsExact

\* Giving up last_buf in an open window leaves every buffer in the chain.
LEMMA LastStays ==
    ASSUME BuffersInv, window = "open", job = None
    PROVE  Unreferenced(Once(LastBuf)) = {}
<1>. SUFFICES ASSUME NEW a \in chain,
                     Once(LastBuf)[a] > 0, Left(Once(LastBuf), a) = 0
              PROVE  FALSE
  BY DEF Unreferenced
<1>1. a \in Bufs
  BY DEF BuffersInv, BuffersKept, TypeOK
<1>2. a = last
  BY <1>1 DEF Once, LastBuf
<1>3. buf[a].ref = 2
  BY <1>2, OpenRefs
<1>. QED  BY <1>1, <1>2, <1>3 DEF Left, Once, LastBuf

Purged(b) == Mismatching \cup (Reusable \ {b})
Dropped(b) == Plus(Once(Purged(b)), Once(LastBuf))

\* The buffers a frame does not reuse are the ones that leave the chain.
LEMMA PurgedLeave ==
    ASSUME BuffersInv, window = "open", job = None, NEW b \in Bufs
    PROVE  /\ Unreferenced(Dropped(b)) = Purged(b)
           /\ \A a \in chain :
                Left(Dropped(b), a) = IF a \in Purged(b) THEN 0 ELSE 1
           /\ \A a \in Bufs \ chain : Left(Dropped(b), a) = buf[a].ref
<1>1. chain \subseteq Bufs /\ Purged(b) \subseteq chain
  BY DEF BuffersInv, BuffersKept, TypeOK, Purged, Mismatching, Reusable
<1>2. ASSUME NEW a \in chain
      PROVE  /\ Dropped(b)[a] = (IF a \in Purged(b) THEN 1 ELSE 0)
                                   + (IF a = last THEN 1 ELSE 0)
             /\ Left(Dropped(b), a) = IF a \in Purged(b) THEN 0 ELSE 1
  <2>1. a \in Bufs /\ a # None
    BY <1>1, FrameBuffersAssumption
  <2>2. Dropped(b)[a] = (IF a \in Purged(b) THEN 1 ELSE 0)
                           + (IF a = last THEN 1 ELSE 0)
    BY <2>1 DEF Dropped, Plus, Once, LastBuf
  <2>3. buf[a].ref = IF a = last THEN 2 ELSE 1
    BY OpenRefs
  <2>. QED  BY <2>2, <2>3 DEF Left
<1>3. ASSUME NEW a \in Bufs \ chain PROVE Left(Dropped(b), a) = buf[a].ref
  <2>1. a # last
    <3>1. CASE last = None
      BY <3>1, FrameBuffersAssumption
    <3>2. CASE last # None
      BY <3>2 DEF BuffersInv, BuffersKept, RefsExact
    <3>. QED  BY <3>1, <3>2
  <2>2. Dropped(b)[a] = 0
    BY <1>1, <2>1 DEF Dropped, Plus, Once, LastBuf
  <2>3. buf[a].ref \in Nat
    BY DEF BuffersInv, BuffersKept, TypeOK, Buffers
  <2>. QED  BY <2>2, <2>3 DEF Left
<1>4. Unreferenced(Dropped(b)) = Purged(b)
  BY <1>1, <1>2 DEF Unreferenced
<1>. QED  BY <1>2, <1>3, <1>4

\* A buffer of the chain, by the parts of the invariant.
LEMMA ChainTypes ==
    ASSUME BuffersInv
    PROVE  /\ chain \subseteq Bufs /\ alive \subseteq Bufs /\ None \notin Bufs
           /\ \A a \in Bufs : buf[a] \in Buffers
           /\ alive = chain \cup deferred /\ chain \cap deferred = {}
           /\ frame \in Nat
BY FrameBuffersAssumption DEF BuffersInv, BuffersKept, TypeOK, RefsExact

-----------------------------------------------------------------------------
(* A frame *)

\* What grid_render() does with buffer b.
Draws(b, allDirty) ==
    LET full == FullRepaint(b, allDirty) IN
    /\ chain' = (chain \ Purged(b)) \cup {b}
    /\ alive' = (alive \ {a \in Purged(b) : ~buf[a].busy}) \cup {b}
    /\ deferred' = deferred \cup {a \in Purged(b) : buf[a].busy}
    /\ buf' = [a \in Bufs |->
         IF a = b
         THEN [ref |-> IF b \in alive THEN Left(Dropped(b), b) + 1 ELSE 2,
               busy |-> TRUE, age |-> 0, size |-> size,
               holds |-> Rendered(b, full),
               dirty |-> IF full THEN Full ELSE frame + 1]
         ELSE [buf[a] EXCEPT !.ref = Left(Dropped(b), a), !.age = Aged(a)]]
    /\ late' \in 0 .. PreapplyAfter + 1 /\ preapply' \in BOOLEAN
    /\ last' = b
    /\ frame' = frame + 1 /\ frame < MaxFrames
    /\ window = "open" /\ job = None
    /\ UNCHANGED <<size, job, pc, window>>

LEMMA FrameDraws ==
    ASSUME BuffersInv, GridRender
    PROVE  \E b \in Bufs, allDirty \in BOOLEAN : Gets(b) /\ Draws(b, allDirty)
<1>1. PICK b \in Bufs, allDirty \in BOOLEAN :
        /\ Gets(b)
        /\ LET full == FullRepaint(b, allDirty)
               behind == Comparable /\ AgeOf(b) > 0
           IN  /\ chain' = (chain \ Unreferenced(Dropped(b))) \cup {b}
               /\ alive' = (alive \ {a \in Unreferenced(Dropped(b)) : ~buf[a].busy})
                            \cup {b}
               /\ deferred' = deferred
                      \cup {a \in Unreferenced(Dropped(b)) : buf[a].busy}
               /\ buf' = [a \in Bufs |->
                    IF a = b
                    THEN [ref |-> IF b \in alive THEN Left(Dropped(b), b) + 1 ELSE 2,
                          busy |-> TRUE, age |-> 0, size |-> size,
                          holds |-> Rendered(b, full),
                          dirty |-> IF full THEN Full ELSE frame + 1]
                    ELSE [buf[a] EXCEPT !.ref = Left(Dropped(b), a), !.age = Aged(a)]]
               /\ preapply' = (preapply \/ (behind /\ late >= PreapplyAfter))
               /\ late' = CASE behind /\ late <= PreapplyAfter -> late + 1
                            [] ~behind /\ Comparable /\ ~preapply -> 0
                            [] OTHER -> late
        /\ last' = b
  BY DEF GridRender, Dropped, Purged
<1>2. /\ window = "open" /\ job = None /\ frame < MaxFrames
      /\ frame' = frame + 1 /\ UNCHANGED <<size, job, pc, window>>
  BY DEF GridRender, PreapplyDone
<1>3. Unreferenced(Dropped(b)) = Purged(b)
  BY <1>2, PurgedLeave
<1>4. late \in 0 .. PreapplyAfter + 1 /\ PreapplyAfter \in Nat
  BY FrameBuffersAssumption DEF BuffersInv, BuffersKept, TypeOK
<1>5. late' \in 0 .. PreapplyAfter + 1
  <2>1. late' = CASE Comparable /\ AgeOf(b) > 0 /\ late <= PreapplyAfter -> late + 1
                  [] ~(Comparable /\ AgeOf(b) > 0) /\ Comparable /\ ~preapply -> 0
                  [] OTHER -> late
    BY <1>1, Zenon
  <2>. QED  BY <2>1, <1>4
<1>6. preapply' \in BOOLEAN
  BY <1>1
<1>7. Draws(b, allDirty)
  BY <1>1, <1>2, <1>3, <1>5, <1>6 DEF Draws
<1>. QED  BY <1>1, <1>7

\* What the chain is after a frame: b, and the busy buffers of the window's size.
LEMMA DrawnChain ==
    ASSUME BuffersInv, NEW b \in Bufs, Gets(b),
           NEW allDirty \in BOOLEAN, Draws(b, allDirty)
    PROVE  /\ chain' = {a \in chain : buf[a].size = size /\ buf[a].busy} \cup {b}
           /\ b \in chain \/ b \notin alive
           /\ b \in alive => ~buf[b].busy /\ b \notin Purged(b)
           /\ b \notin deferred
           /\ Purged(b) \subseteq chain
           /\ \A a \in Purged(b) : buf[a].busy => buf[a].size # size
<1>1. chain \subseteq alive /\ alive = chain \cup deferred
        /\ chain \cap deferred = {}
  BY DEF BuffersInv, BuffersKept, TypeOK, RefsExact
<1>2. b \in Reusable \/ b \notin alive
  BY DEF Gets, Youngest
<1>3. Purged(b) \subseteq chain
        /\ \A a \in Purged(b) : buf[a].busy => buf[a].size # size
  BY DEF Purged, Mismatching, Reusable
<1>4. b \in alive => b \in chain /\ ~buf[b].busy /\ b \notin Purged(b)
  BY <1>2 DEF Purged, Mismatching, Reusable
<1>5. chain \ (Purged(b) \cup {b}) =
        {a \in chain : buf[a].size = size /\ buf[a].busy}
  BY <1>1, <1>4 DEF Purged, Mismatching, Reusable
<1>6. chain' = (chain \ Purged(b)) \cup {b}
  BY DEF Draws
<1>7. chain' = (chain \ (Purged(b) \cup {b})) \cup {b}
  BY <1>6
<1>. QED  BY <1>1, <1>3, <1>4, <1>5, <1>7

\* The pixels: whatever is behind is brought up to the previous frame first.
LEMMA FrameIsDrawn ==
    ASSUME BuffersInv, NEW b \in Bufs, Gets(b),
           NEW allDirty \in BOOLEAN, Draws(b, allDirty)
    PROVE  Rendered(b, FullRepaint(b, allDirty)) = frame + 1
<1>. DEFINE base == IF AgeOf(b) = 0 THEN buf[b].holds
                    ELSE ReapplyOldDamage(buf[b].holds, AgeOf(b))
<1>1. SUFFICES ASSUME ~FullRepaint(b, allDirty) PROVE base = frame
  BY DEF Rendered
<1>2. last # None /\ Comparable
  BY <1>1 DEF FullRepaint, Comparable
<1>3. last \in chain /\ buf[last].age = 0
  BY <1>2 DEF Draws, BuffersInv, BuffersKept, RefsExact, Content, LastAge
<1>4. chain \subseteq Bufs /\ frame \in Nat
  BY DEF BuffersInv, BuffersKept, TypeOK
<1>5. \A a \in chain : a # job /\ buf[a].holds = frame - buf[a].age
  BY <1>4, FrameBuffersAssumption
  DEF Draws, BuffersInv, BuffersKept, AgeTellsFrame
<1>6. buf[last].holds = frame
  BY <1>3, <1>4, <1>5
<1>7. CASE b \notin alive
  BY <1>6, <1>7 DEF AgeOf, New, ReapplyOldDamage
<1>8. CASE b \in alive
  <2>1. b \in chain /\ AgeOf(b) = buf[b].age /\ buf[b].age \in Nat
    BY <1>8, DrawnChain DEF AgeOf, BuffersInv, BuffersKept, TypeOK, Buffers
  <2>0. buf[b].holds = frame - buf[b].age
    BY <2>1, <1>5
  <2>2. CASE AgeOf(b) = 0
    <3>1. buf[b].holds = frame
      BY <2>0, <2>1, <2>2, <1>4
    <3>. QED  BY <3>1, <2>2
  <2>3. CASE AgeOf(b) = 1
    <3>1. buf[last].dirty \in {Full, frame}
      BY <1>2, <2>1, <2>3 DEF BuffersInv, Content, LastDamage
    <3>2. buf[b].holds + 1 = frame
      BY <2>0, <2>1, <2>3, <1>4
    <3>. QED  BY <3>1, <3>2, <2>3, <1>6 DEF ReapplyOldDamage, CopyDamage
  <2>4. CASE AgeOf(b) > 1
    BY <2>1, <2>4, <1>6 DEF ReapplyOldDamage
  <2>. QED  BY <2>1, <2>2, <2>3, <2>4
<1>. QED  BY <1>7, <1>8

LEMMA GridRenderInv ==
    ASSUME BuffersInv, GridRender
    PROVE  BuffersInv'
<1>1. PICK b \in Bufs, allDirty \in BOOLEAN : Gets(b) /\ Draws(b, allDirty)
  BY FrameDraws
<1>2. TypeOK /\ chain \subseteq Bufs /\ frame \in Nat
  BY DEF BuffersInv, BuffersKept, TypeOK
<1>3. /\ chain' = {a \in chain : buf[a].size = size /\ buf[a].busy} \cup {b}
      /\ b \in chain \/ b \notin alive
      /\ b \in alive => ~buf[b].busy /\ b \notin Purged(b)
      /\ b \notin deferred
      /\ Purged(b) \subseteq chain
      /\ \A a \in Purged(b) : buf[a].busy => buf[a].size # size
  BY <1>1, DrawnChain
<1>4. /\ window = "open" /\ window' = "open" /\ job = None /\ job' = None
      /\ pc = "idle" /\ pc' = "idle" /\ last' = b /\ last' # None
      /\ size' = size /\ frame' = frame + 1 /\ frame < MaxFrames
      /\ alive' = (alive \ {a \in Purged(b) : ~buf[a].busy}) \cup {b}
      /\ deferred' = deferred \cup {a \in Purged(b) : buf[a].busy}
  BY <1>1, <1>2, FrameBuffersAssumption DEF Draws, TypeOK
<1>5. /\ \A a \in chain : Left(Dropped(b), a) = IF a \in Purged(b) THEN 0 ELSE 1
      /\ \A a \in Bufs \ chain : Left(Dropped(b), a) = buf[a].ref
  BY <1>4, PurgedLeave
<1>6. Rendered(b, FullRepaint(b, allDirty)) = frame + 1
  BY <1>1, FrameIsDrawn
<1>7. buf'[b] = [ref |-> 2, busy |-> TRUE, age |-> 0, size |-> size,
                 holds |-> frame + 1,
                 dirty |-> IF FullRepaint(b, allDirty) THEN Full ELSE frame + 1]
  <2>1. b \in alive => Left(Dropped(b), b) + 1 = 2
    BY <1>3, <1>5
  <2>. QED  BY <1>1, <1>6, <2>1 DEF Draws
<1>70. /\ buf'[b].ref = 2 /\ buf'[b].busy /\ buf'[b].age = 0
       /\ buf'[b].size = size /\ buf'[b].holds = frame + 1
       /\ buf'[b].dirty \in {Full, frame + 1}
  BY <1>7
<1>71. \A a \in Bufs \ {b} :
         buf'[a] = [buf[a] EXCEPT !.ref = Left(Dropped(b), a), !.age = Aged(a)]
  BY <1>1 DEF Draws
<1>8. \A a \in Bufs : buf[a] \in Buffers
  BY <1>2 DEF TypeOK
<1>9. \A a \in Bufs \ {b} :
        /\ buf'[a].ref = Left(Dropped(b), a) /\ buf'[a].ref \in Nat
        /\ buf'[a].age = Aged(a) /\ buf'[a].age \in Nat
        /\ buf'[a].busy = buf[a].busy /\ buf'[a].size = buf[a].size
        /\ buf'[a].holds = buf[a].holds /\ buf'[a].dirty = buf[a].dirty
  <2>. SUFFICES ASSUME NEW a \in Bufs \ {b}
                PROVE  /\ buf'[a].ref = Left(Dropped(b), a) /\ buf'[a].ref \in Nat
                       /\ buf'[a].age = Aged(a) /\ buf'[a].age \in Nat
                       /\ buf'[a].busy = buf[a].busy
                       /\ buf'[a].size = buf[a].size
                       /\ buf'[a].holds = buf[a].holds
                       /\ buf'[a].dirty = buf[a].dirty
    OBVIOUS
  <2>1. buf[a] \in Buffers
    BY <1>8
  <2>2. Left(Dropped(b), a) \in Nat
    BY <1>5, <2>1 DEF Buffers
  <2>3. Aged(a) \in Nat
    BY <2>1 DEF Aged, Buffers
  <2>4. buf'[a] = [buf[a] EXCEPT !.ref = Left(Dropped(b), a), !.age = Aged(a)]
    BY <1>71
  <2>. QED  BY <2>1, <2>2, <2>3, <2>4 DEF Buffers
<1>10. TypeOK'
  <2>1. buf' \in [Bufs -> Buffers]
    <3>1. buf'[b] \in Buffers
      BY <1>7, <1>2 DEF TypeOK, Buffers, Full
    <3>2. ASSUME NEW a \in Bufs \ {b} PROVE buf'[a] \in Buffers
      <4>1. buf'[a] = [buf[a] EXCEPT !.ref = Left(Dropped(b), a), !.age = Aged(a)]
        BY <1>71
      <4>. QED  BY <4>1, <1>8, <1>9 DEF Buffers
    <3>3. buf' = [a \in Bufs |-> buf'[a]]
      BY <1>1 DEF Draws
    <3>. QED  BY <3>1, <3>2, <3>3
  <2>2. alive' \subseteq Bufs /\ chain' \subseteq alive' /\ deferred' \subseteq alive'
    <3>1. chain \cap deferred = {} /\ chain \subseteq alive
            /\ deferred \subseteq alive /\ alive \subseteq Bufs
      BY DEF BuffersInv, BuffersKept, RefsExact, TypeOK
    <3>2. alive' \subseteq Bufs
      BY <3>1, <1>4
    <3>3. chain' \subseteq alive'
      <4>1. \A a \in chain' \ {b} : a \in alive /\ a \notin {c \in Purged(b) : ~buf[c].busy}
        BY <1>3, <3>1
      <4>. QED  BY <4>1, <1>4
    <3>4. deferred' \subseteq alive'
      BY <1>3, <1>4, <3>1
    <3>. QED  BY <3>2, <3>3, <3>4
  <2>3. frame' \in 0 .. MaxFrames
    BY <1>2, <1>4, FrameBuffersAssumption DEF New
  <2>4. late' \in 0 .. PreapplyAfter + 1 /\ preapply' \in BOOLEAN
    BY <1>1 DEF Draws
  <2>. QED  BY <1>2, <1>4, <2>1, <2>2, <2>3, <2>4 DEF TypeOK
<1>11. AgeTellsFrame'
  <2>. SUFFICES ASSUME NEW a \in chain'
                PROVE  buf'[a].holds = frame' - buf'[a].age
    BY DEF AgeTellsFrame
  <2>1. CASE a = b
    BY <2>1, <1>4, <1>70, <1>2
  <2>2. CASE a # b
    <3>1. a \in chain \ Mismatching /\ buf[a].busy /\ a \in Bufs /\ a # job
      BY <2>2, <1>2, <1>3, <1>4, FrameBuffersAssumption DEF Mismatching
    <3>2. buf[a].holds = frame - buf[a].age
      BY <3>1 DEF BuffersInv, BuffersKept, AgeTellsFrame
    <3>3. buf'[a].age = buf[a].age + 1 /\ buf'[a].holds = buf[a].holds
      BY <2>2, <3>1, <1>9 DEF Aged
    <3>4. buf[a].age \in Nat /\ frame \in Nat
      BY <3>1, <1>2, <1>8 DEF TypeOK, Buffers
    <3>. QED  BY <3>2, <3>3, <3>4, <1>4
  <2>. QED  BY <2>1, <2>2
<1>12. RefsExact'
  <2>1. alive' = chain' \cup deferred' /\ chain' \cap deferred' = {}
    <3>1. alive = chain \cup deferred /\ chain \cap deferred = {}
            /\ \A a \in deferred : buf[a].busy
      BY DEF BuffersInv, BuffersKept, RefsExact
    <3>2. chain' = (chain \ Purged(b)) \cup {b}
            /\ alive' = (alive \ {a \in Purged(b) : ~buf[a].busy}) \cup {b}
            /\ deferred' = deferred \cup {a \in Purged(b) : buf[a].busy}
      BY <1>1 DEF Draws
    <3>3. alive' = chain' \cup deferred'
      BY <1>3, <3>1, <3>2
    <3>4. chain' \cap deferred' = {}
      BY <1>3, <3>1, <3>2
    <3>. QED  BY <3>3, <3>4
  <2>2. ASSUME NEW a \in deferred' PROVE buf'[a].ref = 0 /\ buf'[a].busy
    <3>1. a # b /\ a \in Bufs
      BY <2>1, <1>3, <1>10 DEF TypeOK
    <3>2. CASE a \in deferred
      <4>1. a \notin chain /\ buf[a].ref = 0 /\ buf[a].busy
        BY <3>2 DEF BuffersInv, BuffersKept, RefsExact
      <4>. QED  BY <3>1, <4>1, <1>5, <1>9
    <3>3. CASE a \in Purged(b) /\ buf[a].busy
      BY <3>1, <3>3, <1>3, <1>5, <1>9
    <3>. QED  BY <3>2, <3>3, <1>1 DEF Draws
  <2>3. ASSUME NEW a \in chain'
        PROVE  buf'[a].ref = 1 + (IF a = b THEN 1 ELSE 0)
    <3>1. CASE a = b
      BY <3>1, <1>70
    <3>2. CASE a # b
      <4>1. a \in chain /\ a \in Bufs /\ a \notin Purged(b)
        BY <3>2, <1>2, <1>3
      <4>. QED  BY <3>2, <4>1, <1>5, <1>9
    <3>. QED  BY <3>1, <3>2
  <2>4. last' \in chain'
    BY <1>3, <1>4
  <2>. QED  BY <2>1, <2>2, <2>3, <2>4, <1>4 DEF RefsExact
<1>13. NoTornFrame'
  <2>. SUFFICES ASSUME NEW a \in alive', buf'[a].busy
                PROVE  buf'[a].holds # Garbage
    BY DEF NoTornFrame
  <2>1. CASE a = b
    BY <2>1, <1>70, <1>2 DEF Garbage
  <2>2. CASE a # b
    <3>1. a \in alive /\ a \in Bufs
      BY <2>2, <1>1, <1>2 DEF Draws, TypeOK
    <3>2. buf[a].busy /\ buf'[a].holds = buf[a].holds
      BY <2>2, <3>1, <1>9
    <3>. QED  BY <3>1, <3>2 DEF BuffersInv, Content, NoTornFrame
  <2>. QED  BY <2>1, <2>2
<1>14. DistinctAges'
  <2>1. ASSUME NEW a \in chain', a # b
        PROVE  a \in chain /\ buf[a].busy /\ buf'[a].age = buf[a].age + 1
                 /\ buf[a].age \in Nat
    BY <2>1, <1>2, <1>3, <1>8, <1>9 DEF Aged, Mismatching, Buffers
  <2>2. buf'[b].age = 0
    BY <1>70
  <2>. SUFFICES ASSUME NEW a \in chain', NEW c \in chain', a # c,
                       buf'[a].age = buf'[c].age
                PROVE  FALSE
    BY DEF DistinctAges
  <2>3. a # b /\ c # b
    BY <2>1, <2>2
  <2>4. buf[a].age = buf[c].age
    BY <2>1, <2>3
  <2>. QED  BY <2>1, <2>3, <2>4 DEF BuffersInv, Content, DistinctAges
<1>15. LastAge' /\ LastDamage'
  BY <1>4, <1>70 DEF LastAge, LastDamage
<1>16. JobPixels' /\ Closed' /\ JobOwnsBuffer' /\ ChainEmptied'
  BY <1>4 DEF JobPixels, Closed, JobOwnsBuffer, ChainEmptied
<1>. QED
  BY <1>10, <1>11, <1>12, <1>13, <1>14, <1>15, <1>16
  DEF BuffersInv, BuffersKept, Content

-----------------------------------------------------------------------------
(* The compositor and the worker *)

LEMMA BufferReleaseInv ==
    ASSUME BuffersInv, NEW b \in Bufs, BufferRelease(b)
    PROVE  BuffersInv'
<1>1. /\ chain \subseteq Bufs /\ alive \subseteq Bufs /\ None \notin Bufs
      /\ \A a \in Bufs : buf[a] \in Buffers
      /\ alive = chain \cup deferred /\ chain \cap deferred = {}
      /\ frame \in Nat
  BY ChainTypes
<1>2. TypeOK /\ AgeTellsFrame /\ JobOwnsBuffer /\ RefsExact /\ ChainEmptied
        /\ NoTornFrame /\ LastAge /\ DistinctAges /\ LastDamage /\ JobPixels
        /\ Closed
  BY DEF BuffersInv, BuffersKept, Content
<1>3. /\ b \in alive /\ buf[b].busy /\ buf' = [buf EXCEPT ![b].busy = FALSE]
      /\ UNCHANGED <<chain, last, size, frame, late, preapply, window>>
  BY DEF BufferRelease
<1>4. buf' \in [Bufs -> Buffers]
  <2>1. buf \in [Bufs -> Buffers]
    BY <1>2 DEF TypeOK
  <2>. QED  BY <1>3, <2>1 DEF Buffers
<1>5. \A a \in Bufs :
        /\ buf'[a].ref = buf[a].ref /\ buf'[a].age = buf[a].age
        /\ buf'[a].holds = buf[a].holds /\ buf'[a].dirty = buf[a].dirty
        /\ buf'[a].size = buf[a].size
        /\ buf'[a].busy = (IF a = b THEN FALSE ELSE buf[a].busy)
  <2>1. buf \in [Bufs -> Buffers]
    BY <1>2 DEF TypeOK
  <2>. QED  BY <1>3, <2>1 DEF Buffers
<1>6. b # job
  BY <1>1, <1>2, <1>3 DEF JobOwnsBuffer, TypeOK
<1>7. LastAge' /\ LastDamage' /\ ChainEmptied'
  <2>1. last \in Bufs \cup {None}
    BY <1>2 DEF TypeOK
  <2>2. LastAge'
    BY <1>2, <1>3, <1>5, <2>1 DEF LastAge
  <2>3. LastDamage'
    BY <1>1, <1>2, <1>3, <1>5, <2>1 DEF LastDamage
  <2>. QED  BY <2>2, <2>3, <1>2, <1>3 DEF ChainEmptied
<1>8. DistinctAges'
  BY <1>1, <1>2, <1>3, <1>5 DEF DistinctAges
<1>9. NoTornFrame' /\ alive' \subseteq alive
  <2>1. alive' \subseteq alive
    BY DEF BufferRelease
  <2>. QED  BY <2>1, <1>1, <1>2, <1>5 DEF NoTornFrame
<1>10. CASE /\ buf[b].ref = 0
            /\ alive' = alive \ {b}
            /\ deferred' = deferred \ {b}
            /\ UNCHANGED <<job, pc>>
  <2>1. b \in deferred
    <3>1. buf[b].ref = 0
      BY <1>10
    <3>2. SUFFICES ASSUME b \in chain PROVE FALSE
      BY <1>1, <1>3
    <3>3. buf[b].ref = (IF window = "open" THEN 1 ELSE 0)
                        + (IF b = last /\ pc # "swap" THEN 1 ELSE 0)
      BY <1>2, <3>2 DEF RefsExact
    <3>4. window = "destroyed" \/ window = "gone"
      BY <1>2, <3>1, <3>3 DEF TypeOK
    <3>5. b = last /\ pc # "swap"
      BY <1>2, <3>2, <3>4 DEF Closed, TypeOK
    <3>. QED  BY <3>1, <3>3, <3>4, <3>5
  <2>2. TypeOK'
    BY <1>1, <1>2, <1>3, <1>4, <1>10, <2>1 DEF TypeOK
  <2>3. RefsExact'
    <3>1. alive' = chain' \cup deferred' /\ chain' \cap deferred' = {}
      BY <1>1, <1>3, <1>10, <2>1
    <3>2. \A a \in deferred' : buf'[a].ref = 0 /\ buf'[a].busy
      BY <1>1, <1>2, <1>5, <1>10 DEF RefsExact
    <3>3. \A a \in chain' : buf'[a].ref = (IF window' = "open" THEN 1 ELSE 0)
                        + (IF a = last' /\ pc' # "swap" THEN 1 ELSE 0)
      BY <1>1, <1>2, <1>3, <1>5, <1>10 DEF RefsExact
    <3>. QED  BY <3>1, <3>2, <3>3, <1>2, <1>3 DEF RefsExact
  <2>4. AgeTellsFrame'
    BY <1>1, <1>2, <1>3, <1>5, <1>10 DEF AgeTellsFrame
  <2>5. JobOwnsBuffer' /\ JobPixels' /\ Closed'
    <3>1. job \in Bufs \cup {None}
      BY <1>2 DEF TypeOK
    <3>2. JobOwnsBuffer'
      BY <1>1, <1>2, <1>3, <1>5, <1>6, <1>10, <3>1 DEF JobOwnsBuffer
    <3>3. JobPixels'
      BY <1>2, <1>3, <1>5, <1>10, <3>1 DEF JobPixels
    <3>. QED  BY <3>2, <3>3, <1>2, <1>3, <1>10 DEF Closed
  <2>. QED
    BY <1>7, <1>8, <1>9, <2>2, <2>3, <2>4, <2>5 DEF BuffersInv, BuffersKept, Content
<1>11. CASE /\ buf[b].ref > 0
            /\ IF StartsJob(b) THEN job' = b /\ pc' = "queued"
                               ELSE UNCHANGED <<job, pc>>
            /\ UNCHANGED <<alive, deferred>>
  <2>1. b \in chain
    <3>1. b \in deferred => buf[b].ref = 0
      BY <1>2 DEF RefsExact
    <3>. QED  BY <1>1, <1>3, <1>11, <3>1
  <2>2. RefsExact' /\ TypeOK' /\ JobOwnsBuffer' /\ AgeTellsFrame'
          /\ JobPixels' /\ Closed'
    <3>1. CASE ~StartsJob(b)
      <4>1. UNCHANGED <<alive, deferred, job, pc>>
        BY <1>11, <3>1
      <4>2. TypeOK'
        BY <1>1, <1>2, <1>3, <1>4, <4>1 DEF TypeOK
      <4>3. RefsExact'
        BY <1>1, <1>2, <1>3, <1>5, <2>1, <4>1 DEF RefsExact
      <4>4. AgeTellsFrame'
        BY <1>1, <1>2, <1>3, <1>5, <4>1 DEF AgeTellsFrame
      <4>5. job \in Bufs \cup {None}
        BY <1>2 DEF TypeOK
      <4>6. JobOwnsBuffer'
        BY <1>1, <1>2, <1>3, <1>5, <1>6, <4>1, <4>5 DEF JobOwnsBuffer
      <4>7. JobPixels' /\ Closed'
        BY <1>2, <1>3, <1>5, <4>1, <4>5 DEF JobPixels, Closed
      <4>. QED  BY <4>2, <4>3, <4>4, <4>6, <4>7
    <3>2. CASE StartsJob(b)
      <4>1. UNCHANGED <<alive, deferred>> /\ job' = b /\ pc' = "queued"
        BY <1>11, <3>2
      <4>2. buf[b].age = 1 /\ last # None /\ buf[last].age = 0 /\ job = None
        BY <3>2 DEF StartsJob
      <4>3. b # last /\ b # None /\ pc = "idle"
        BY <1>1, <1>2, <4>2 DEF TypeOK
      <4>4. window = "open"
        BY <1>2, <2>1, <4>3 DEF Closed
      <4>5. last \in chain
        BY <1>2, <4>2, <4>4 DEF RefsExact
      <4>6. TypeOK'
        BY <1>1, <1>2, <1>3, <1>4, <4>1, <4>3 DEF TypeOK
      <4>7. RefsExact'
        <5>1. \A a \in deferred' : buf'[a].ref = 0 /\ buf'[a].busy
          BY <1>1, <1>2, <1>5, <2>1, <4>1 DEF RefsExact
        <5>2. \A a \in chain' : buf'[a].ref = (IF window' = "open" THEN 1 ELSE 0)
                          + (IF a = last' /\ pc' # "swap" THEN 1 ELSE 0)
          BY <1>1, <1>2, <1>3, <1>5, <4>1, <4>3 DEF RefsExact
        <5>. QED  BY <5>1, <5>2, <1>1, <1>2, <1>3, <4>1 DEF RefsExact
      <4>8. AgeTellsFrame'
        BY <1>1, <1>2, <1>3, <1>5, <4>1, <4>2 DEF AgeTellsFrame
      <4>9. JobOwnsBuffer'
        BY <1>1, <1>3, <1>5, <2>1, <4>1, <4>2, <4>3, <4>5 DEF JobOwnsBuffer
      <4>10. JobPixels'
        <5>1. buf[b].holds = frame - buf[b].age
          BY <1>2, <2>1, <4>2, <4>3 DEF AgeTellsFrame
        <5>. QED  BY <1>3, <1>5, <4>1, <4>2, <5>1 DEF JobPixels
      <4>11. Closed'
        BY <1>3, <4>4 DEF Closed
      <4>. QED  BY <4>6, <4>7, <4>8, <4>9, <4>10, <4>11
    <3>. QED  BY <3>1, <3>2
  <2>. QED
    BY <1>7, <1>8, <1>9, <2>2 DEF BuffersInv, BuffersKept, Content
<1>. QED  BY <1>10, <1>11 DEF BufferRelease

\* What holds while the worker has a job.
LEMMA JobFacts ==
    ASSUME BuffersInv, pc # "idle"
    PROVE  /\ job \in chain /\ job \in Bufs /\ job # None /\ ~buf[job].busy
           /\ last \in chain /\ last # None /\ window = "open"
           /\ buf[last].age = 0
           /\ last # job => buf[last].holds = frame
<1>1. job # None /\ last # None /\ job \in chain /\ last \in chain /\ ~buf[job].busy
  BY DEF BuffersInv, BuffersKept, TypeOK, JobOwnsBuffer
<1>2. window = "open"
  BY <1>1 DEF BuffersInv, Closed
<1>3. buf[last].age = 0
  BY <1>1, <1>2 DEF BuffersInv, Content, LastAge
<1>4. last # job => buf[last].holds = frame - 0
  BY <1>1, <1>3 DEF BuffersInv, BuffersKept, AgeTellsFrame
<1>. QED  BY <1>1, <1>2, <1>3, <1>4, ChainTypes

LEMMA WorkerInv ==
    ASSUME BuffersInv, WorkerRuns
    PROVE  BuffersInv'
<1>1. /\ chain \subseteq Bufs /\ alive \subseteq Bufs /\ None \notin Bufs
      /\ \A a \in Bufs : buf[a] \in Buffers
      /\ alive = chain \cup deferred /\ chain \cap deferred = {}
      /\ frame \in Nat /\ buf \in [Bufs -> Buffers]
  BY ChainTypes DEF BuffersInv, BuffersKept, TypeOK
<1>2. TypeOK /\ AgeTellsFrame /\ JobOwnsBuffer /\ RefsExact /\ ChainEmptied
        /\ NoTornFrame /\ LastAge /\ DistinctAges /\ LastDamage /\ JobPixels
        /\ Closed
  BY DEF BuffersInv, BuffersKept, Content
<1>3. pc # "idle"
  BY DEF WorkerRuns, WorkerTake, WorkerCopy, WorkerAge, WorkerUnref, WorkerSwap,
         WorkerFinish
<1>4. /\ job \in chain /\ job \in Bufs /\ job # None /\ ~buf[job].busy
      /\ last \in chain /\ last # None /\ window = "open"
      /\ buf[last].age = 0
      /\ last # job => buf[last].holds = frame
  BY <1>3, JobFacts
<1>5. CASE WorkerTake
  <2>1. pc = "queued" /\ pc' = "copy"
          /\ UNCHANGED <<buf, alive, chain, deferred, last, size, frame, late,
                         preapply, job, window>>
    BY <1>4, <1>5 DEF WorkerTake
  <2>2. TypeOK' /\ AgeTellsFrame' /\ JobOwnsBuffer' /\ RefsExact' /\ ChainEmptied'
    BY <1>2, <1>4, <2>1
    DEF TypeOK, AgeTellsFrame, JobOwnsBuffer, RefsExact, ChainEmptied
  <2>3. NoTornFrame' /\ LastAge' /\ DistinctAges' /\ LastDamage' /\ JobPixels'
          /\ Closed'
    BY <1>2, <2>1
    DEF NoTornFrame, LastAge, DistinctAges, LastDamage, JobPixels, Closed
  <2>. QED  BY <2>2, <2>3 DEF BuffersInv, BuffersKept, Content
<1>6. CASE WorkerCopy
  <2>1. pc = "copy" /\ pc' = "age"
          /\ UNCHANGED <<alive, chain, deferred, last, size, frame, late,
                         preapply, job, window>>
    BY <1>6 DEF WorkerCopy
  <2>2. buf[job].age = 1 /\ buf[job].holds = frame - 1 /\ job # last
    BY <1>2, <1>4, <2>1 DEF JobPixels, JobOwnsBuffer
  <2>3. buf[last].dirty \in {Full, frame}
    BY <1>2, <1>4, <2>2 DEF LastDamage
  <2>4. CopyDamage(buf[job].holds, last) = frame
    BY <1>1, <1>4, <2>2, <2>3 DEF CopyDamage
  <2>5. buf' = [buf EXCEPT ![job].holds = frame]
    <3>. DEFINE new == CASE buf[job].age = 0 -> buf[job].holds
                         [] buf[job].age = 1 -> CopyDamage(buf[job].holds, last)
                         [] OTHER -> buf[last].holds
    <3>1. buf' = [buf EXCEPT ![job].holds = new]
      BY <1>6 DEF WorkerCopy
    <3>2. new = frame
      BY <2>2, <2>4
    <3>. QED  BY <3>1, <3>2
  <2>6. buf' \in [Bufs -> Buffers]
    BY <1>1, <1>4, <2>5 DEF Buffers
  <2>7. \A a \in Bufs :
          /\ buf'[a].ref = buf[a].ref /\ buf'[a].age = buf[a].age
          /\ buf'[a].dirty = buf[a].dirty /\ buf'[a].busy = buf[a].busy
          /\ buf'[a].size = buf[a].size
          /\ a # job => buf'[a].holds = buf[a].holds
    BY <1>1, <2>5 DEF Buffers
  <2>8. buf'[job].holds = frame
    BY <1>1, <1>4, <2>5 DEF Buffers
  <2>9. TypeOK' /\ RefsExact' /\ ChainEmptied'
    <3>1. TypeOK'
      BY <1>2, <1>4, <2>1, <2>6 DEF TypeOK
    <3>2. RefsExact'
      BY <1>1, <1>2, <2>1, <2>7 DEF RefsExact
    <3>. QED  BY <3>1, <3>2, <1>4, <2>1 DEF ChainEmptied
  <2>10. AgeTellsFrame' /\ JobOwnsBuffer'
    <3>1. AgeTellsFrame'
      BY <1>1, <1>2, <2>1, <2>7 DEF AgeTellsFrame
    <3>2. JobOwnsBuffer'
      BY <1>4, <2>1, <2>2, <2>7 DEF JobOwnsBuffer
    <3>. QED  BY <3>1, <3>2
  <2>11. NoTornFrame' /\ LastAge'
    <3>1. NoTornFrame'
      BY <1>1, <1>2, <1>4, <2>1, <2>7 DEF NoTornFrame
    <3>2. LastAge'
      BY <1>1, <1>4, <2>1, <2>7 DEF LastAge
    <3>. QED  BY <3>1, <3>2
  <2>12. DistinctAges' /\ LastDamage'
    <3>1. DistinctAges'
      BY <1>1, <1>2, <2>1, <2>7 DEF DistinctAges
    <3>2. LastDamage'
      BY <1>1, <1>4, <2>1, <2>3, <2>7 DEF LastDamage
    <3>. QED  BY <3>1, <3>2
  <2>13. JobPixels' /\ Closed'
    BY <1>4, <2>1, <2>2, <2>7, <2>8 DEF JobPixels, Closed
  <2>. QED  BY <2>9, <2>10, <2>11, <2>12, <2>13 DEF BuffersInv, BuffersKept, Content
<1>7. CASE WorkerAge
  <2>1. pc = "age" /\ pc' = "unref" /\ buf' = [buf EXCEPT ![job].age = 0]
          /\ UNCHANGED <<alive, chain, deferred, last, size, frame, late,
                         preapply, job, window>>
    BY <1>7 DEF WorkerAge
  <2>2. buf[job].age = 1 /\ buf[job].holds = frame /\ job # last
    BY <1>2, <1>4, <2>1 DEF JobPixels, JobOwnsBuffer
  <2>3. buf' \in [Bufs -> Buffers]
    BY <1>1, <2>1 DEF Buffers
  <2>4. \A a \in Bufs :
          /\ buf'[a].ref = buf[a].ref /\ buf'[a].holds = buf[a].holds
          /\ buf'[a].dirty = buf[a].dirty /\ buf'[a].busy = buf[a].busy
          /\ buf'[a].size = buf[a].size
          /\ a # job => buf'[a].age = buf[a].age
    BY <1>1, <2>1 DEF Buffers
  <2>5. buf'[job].age = 0
    BY <1>1, <1>4, <2>1 DEF Buffers
  <2>6. \A a \in chain : a # job => buf[a].age # 1
    BY <1>2, <1>4, <2>2 DEF DistinctAges
  <2>7. TypeOK' /\ RefsExact' /\ ChainEmptied'
    <3>1. TypeOK'
      BY <1>2, <1>4, <2>1, <2>3 DEF TypeOK
    <3>2. RefsExact'
      BY <1>1, <1>2, <2>1, <2>4 DEF RefsExact
    <3>. QED  BY <3>1, <3>2, <1>4, <2>1 DEF ChainEmptied
  <2>8. AgeTellsFrame' /\ JobOwnsBuffer'
    <3>1. AgeTellsFrame'
      BY <1>1, <1>2, <2>1, <2>4 DEF AgeTellsFrame
    <3>2. JobOwnsBuffer'
      BY <1>4, <2>1, <2>2, <2>4 DEF JobOwnsBuffer
    <3>. QED  BY <3>1, <3>2
  <2>9. NoTornFrame' /\ LastAge'
    <3>1. NoTornFrame'
      BY <1>1, <1>2, <2>1, <2>4 DEF NoTornFrame
    <3>2. LastAge'
      BY <1>1, <1>4, <2>1, <2>2, <2>4 DEF LastAge
    <3>. QED  BY <3>1, <3>2
  <2>10. DistinctAges' /\ LastDamage'
    <3>1. DistinctAges'
      <4>. SUFFICES ASSUME NEW a \in chain, NEW b \in chain, a # b,
                           buf'[a].age = buf'[b].age
                    PROVE  buf'[a].age = 0 /\ (~buf'[a].busy \/ ~buf'[b].busy)
        BY <2>1 DEF DistinctAges
      <4>1. CASE a = job \/ b = job
        BY <4>1, <1>1, <1>4, <2>4, <2>5
      <4>2. CASE a # job /\ b # job
        BY <4>2, <1>1, <1>2, <2>4 DEF DistinctAges
      <4>. QED  BY <4>1, <4>2
    <3>2. LastDamage'
      BY <1>1, <2>1, <2>4, <2>5, <2>6 DEF LastDamage
    <3>. QED  BY <3>1, <3>2
  <2>11. JobPixels' /\ Closed'
    <3>1. \A a \in chain' : buf'[a].age # 1
      BY <1>1, <2>1, <2>4, <2>5, <2>6
    <3>. QED  BY <3>1, <1>4, <2>1, <2>2, <2>4, <2>5 DEF JobPixels, Closed
  <2>. QED  BY <2>7, <2>8, <2>9, <2>10, <2>11 DEF BuffersInv, BuffersKept, Content
<1>8. CASE WorkerUnref
  <2>1. pc = "unref" /\ pc' = "swap" /\ buf' = [buf EXCEPT ![last].ref = @ - 1]
          /\ Drop(Once({last}))
          /\ UNCHANGED <<last, size, frame, late, preapply, job, window>>
    BY <1>8 DEF WorkerUnref
  <2>2. \A a \in chain : buf[a].ref = 1 + (IF a = last THEN 1 ELSE 0)
    BY <1>2, <1>4, <2>1 DEF RefsExact
  <2>3. Unreferenced(Once({last})) = {}
    <3>. SUFFICES ASSUME NEW a \in chain, Once({last})[a] > 0,
                         Left(Once({last}), a) = 0
                  PROVE  FALSE
      BY DEF Unreferenced
    <3>1. a = last /\ a \in Bufs
      BY <1>1 DEF Once
    <3>. QED  BY <3>1, <2>2 DEF Once, Left
  <2>4. UNCHANGED <<alive, chain, deferred>>
    BY <2>1, <2>3 DEF Drop
  <2>5. buf[last].ref = 2 /\ last \in Bufs
    BY <1>1, <1>4, <2>2
  <2>6. buf' = [buf EXCEPT ![last].ref = 1]
    BY <2>1, <2>5
  <2>7. buf' \in [Bufs -> Buffers]
    BY <1>1, <2>6 DEF Buffers
  <2>8. \A a \in Bufs :
          /\ buf'[a].holds = buf[a].holds /\ buf'[a].age = buf[a].age
          /\ buf'[a].dirty = buf[a].dirty /\ buf'[a].busy = buf[a].busy
          /\ buf'[a].size = buf[a].size
          /\ buf'[a].ref = (IF a = last THEN 1 ELSE buf[a].ref)
    BY <1>1, <2>5, <2>6 DEF Buffers
  <2>9. TypeOK' /\ RefsExact' /\ ChainEmptied'
    <3>1. TypeOK'
      BY <1>2, <1>4, <2>1, <2>4, <2>7 DEF TypeOK
    <3>2. \A a \in chain' : buf'[a].ref = 1
      BY <1>1, <2>2, <2>4, <2>8
    <3>3. \A a \in deferred' : buf'[a].ref = 0 /\ buf'[a].busy
      BY <1>1, <1>2, <1>4, <2>4, <2>8 DEF RefsExact
    <3>4. RefsExact'
      BY <1>1, <1>4, <2>1, <2>4, <3>2, <3>3 DEF RefsExact
    <3>. QED  BY <3>1, <3>4, <1>4, <2>1 DEF ChainEmptied
  <2>10. AgeTellsFrame' /\ JobOwnsBuffer'
    <3>1. AgeTellsFrame'
      BY <1>1, <1>2, <2>1, <2>4, <2>8 DEF AgeTellsFrame
    <3>2. JobOwnsBuffer'
      BY <1>4, <2>1, <2>4, <2>8 DEF JobOwnsBuffer
    <3>. QED  BY <3>1, <3>2
  <2>11. NoTornFrame' /\ LastAge'
    BY <1>1, <1>2, <1>4, <2>1, <2>4, <2>8 DEF NoTornFrame, LastAge
  <2>12. DistinctAges'
    BY <1>1, <1>2, <2>4, <2>8 DEF DistinctAges
  <2>13. LastDamage'
    BY <1>1, <1>2, <1>4, <2>1, <2>4, <2>8 DEF LastDamage
  <2>14. JobPixels' /\ Closed'
    <3>1. buf[job].age = 0 /\ buf[job].holds = frame
            /\ \A a \in chain : buf[a].age # 1
      BY <1>2, <1>4, <2>1 DEF JobPixels
    <3>2. \A a \in chain' : buf'[a].age # 1
      BY <1>1, <2>4, <2>8, <3>1
    <3>. QED  BY <3>1, <3>2, <1>4, <2>1, <2>8 DEF JobPixels, Closed
  <2>. QED
    BY <2>9, <2>10, <2>11, <2>12, <2>13, <2>14 DEF BuffersInv, BuffersKept, Content
<1>9. CASE WorkerSwap
  <2>1. pc = "swap" /\ pc' = "finish" /\ buf' = [buf EXCEPT ![job].ref = @ + 1]
          /\ last' = job
          /\ UNCHANGED <<alive, chain, deferred, size, frame, late, preapply,
                         job, window>>
    BY <1>9 DEF WorkerSwap, AddRef
  <2>2. buf[job].age = 0 /\ buf[job].holds = frame
          /\ \A a \in chain : buf[a].age # 1 /\ buf[a].ref = 1
    BY <1>2, <1>4, <2>1 DEF JobPixels, RefsExact
  <2>3. buf' = [buf EXCEPT ![job].ref = 2]
    <3>1. buf' = [buf EXCEPT ![job].ref = buf[job].ref + 1]
      BY <2>1
    <3>2. buf[job].ref + 1 = 2
      BY <1>4, <2>2
    <3>. QED  BY <3>1, <3>2
  <2>4. buf' \in [Bufs -> Buffers]
    BY <1>1, <2>3 DEF Buffers
  <2>5. \A a \in Bufs :
          /\ buf'[a].holds = buf[a].holds /\ buf'[a].age = buf[a].age
          /\ buf'[a].dirty = buf[a].dirty /\ buf'[a].busy = buf[a].busy
          /\ buf'[a].size = buf[a].size
          /\ buf'[a].ref = (IF a = job THEN 2 ELSE buf[a].ref)
    BY <1>1, <2>3 DEF Buffers
  <2>6. TypeOK' /\ RefsExact' /\ ChainEmptied'
    <3>1. TypeOK'
      BY <1>2, <1>4, <2>1, <2>4 DEF TypeOK
    <3>2. \A a \in chain' : buf'[a].ref = 1 + (IF a = job THEN 1 ELSE 0)
      BY <1>1, <2>1, <2>2, <2>5
    <3>3. \A a \in deferred' : buf'[a].ref = 0 /\ buf'[a].busy
      BY <1>1, <1>2, <1>4, <2>1, <2>5 DEF RefsExact
    <3>4. RefsExact'
      BY <1>1, <1>4, <2>1, <3>2, <3>3 DEF RefsExact
    <3>. QED  BY <3>1, <3>4, <1>4, <2>1 DEF ChainEmptied
  <2>7. AgeTellsFrame' /\ JobOwnsBuffer'
    <3>1. AgeTellsFrame'
      BY <1>1, <1>2, <2>1, <2>5 DEF AgeTellsFrame
    <3>2. JobOwnsBuffer'
      BY <1>4, <2>1, <2>5 DEF JobOwnsBuffer
    <3>. QED  BY <3>1, <3>2
  <2>8. NoTornFrame' /\ LastAge'
    BY <1>1, <1>2, <1>4, <2>1, <2>2, <2>5 DEF NoTornFrame, LastAge
  <2>9. DistinctAges'
    BY <1>1, <1>2, <2>1, <2>5 DEF DistinctAges
  <2>10. LastDamage'
    BY <1>1, <2>1, <2>2, <2>5 DEF LastDamage
  <2>11. JobPixels' /\ Closed'
    BY <1>4, <2>1, <2>2, <2>5 DEF JobPixels, Closed
  <2>. QED  BY <2>6, <2>7, <2>8, <2>9, <2>10, <2>11 DEF BuffersInv, BuffersKept, Content
<1>10. CASE WorkerFinish
  <2>1. pc = "finish" /\ pc' = "idle" /\ job' = None
          /\ UNCHANGED <<buf, alive, chain, deferred, last, size, frame, late,
                         preapply, window>>
    BY <1>10 DEF WorkerFinish
  <2>2. AgeTellsFrame'
    <3>1. buf[job].age = 0 /\ buf[job].holds = frame
      BY <1>2, <1>4, <2>1 DEF JobPixels
    <3>. QED  BY <1>1, <1>2, <2>1, <3>1 DEF AgeTellsFrame
  <2>3. TypeOK' /\ JobOwnsBuffer' /\ RefsExact' /\ ChainEmptied'
    BY <1>2, <1>4, <2>1
    DEF TypeOK, JobOwnsBuffer, RefsExact, ChainEmptied
  <2>4. NoTornFrame' /\ LastAge' /\ DistinctAges' /\ LastDamage' /\ JobPixels'
          /\ Closed'
    BY <1>2, <1>4, <2>1
    DEF NoTornFrame, LastAge, DistinctAges, LastDamage, JobPixels, Closed
  <2>. QED  BY <2>2, <2>3, <2>4 DEF BuffersInv, BuffersKept, Content
<1>. QED  BY <1>5, <1>6, <1>7, <1>8, <1>9, <1>10 DEF WorkerRuns

-----------------------------------------------------------------------------
(* The window *)

LEMMA ResizeInv ==
    ASSUME BuffersInv, Resize
    PROVE  BuffersInv'
<1>1. /\ chain \subseteq Bufs /\ alive \subseteq Bufs /\ None \notin Bufs
      /\ \A a \in Bufs : buf[a] \in Buffers
      /\ alive = chain \cup deferred /\ chain \cap deferred = {}
      /\ frame \in Nat /\ buf \in [Bufs -> Buffers]
  BY ChainTypes DEF BuffersInv, BuffersKept, TypeOK
<1>2. TypeOK /\ AgeTellsFrame /\ RefsExact /\ NoTornFrame /\ DistinctAges
  BY DEF BuffersInv, BuffersKept, Content
<1>3. /\ window = "open" /\ window' = "open" /\ job = None /\ job' = None
      /\ pc = "idle" /\ pc' = "idle" /\ size' \in Sizes /\ last' = None
      /\ UnrefLast /\ UNCHANGED <<frame, late, preapply>>
  BY <1>2 DEF Resize, PreapplyDone, TypeOK
<1>4. Unreferenced(Once(LastBuf)) = {}
  BY <1>3, LastStays
<1>5. UNCHANGED <<chain, alive, deferred>>
  BY <1>3, <1>4 DEF UnrefLast, Drop
<1>6. \A a \in Bufs : Left(Once(LastBuf), a) = IF a \in chain THEN 1 ELSE buf[a].ref
  <2>. SUFFICES ASSUME NEW a \in Bufs
                PROVE  Left(Once(LastBuf), a) = IF a \in chain THEN 1 ELSE buf[a].ref
    OBVIOUS
  <2>1. a \in chain => buf[a].ref = IF a = last THEN 2 ELSE 1
    BY <1>3, OpenRefs
  <2>2. a \notin chain => a # last
    BY <1>1, <1>2, <1>3 DEF RefsExact
  <2>3. Once(LastBuf)[a] = IF a = last THEN 1 ELSE 0
    BY <1>1 DEF Once, LastBuf
  <2>4. buf[a].ref \in Nat
    BY <1>1 DEF Buffers
  <2>. QED  BY <2>1, <2>2, <2>3, <2>4 DEF Left
<1>7. \A a \in Bufs : buf'[a] = [buf[a] EXCEPT !.ref = Left(Once(LastBuf), a)]
  BY <1>3 DEF UnrefLast
<1>8. \A a \in Bufs :
        /\ buf'[a].holds = buf[a].holds /\ buf'[a].age = buf[a].age
        /\ buf'[a].dirty = buf[a].dirty /\ buf'[a].busy = buf[a].busy
        /\ buf'[a].size = buf[a].size
        /\ buf'[a].ref = (IF a \in chain THEN 1 ELSE buf[a].ref)
        /\ buf'[a] \in Buffers
  <2>. SUFFICES ASSUME NEW a \in Bufs
                PROVE  /\ buf'[a].holds = buf[a].holds /\ buf'[a].age = buf[a].age
                       /\ buf'[a].dirty = buf[a].dirty
                       /\ buf'[a].busy = buf[a].busy
                       /\ buf'[a].size = buf[a].size
                       /\ buf'[a].ref = (IF a \in chain THEN 1 ELSE buf[a].ref)
                       /\ buf'[a] \in Buffers
    OBVIOUS
  <2>1. buf[a] \in Buffers
    BY <1>1
  <2>2. Left(Once(LastBuf), a) = IF a \in chain THEN 1 ELSE buf[a].ref
    BY <1>6
  <2>3. Left(Once(LastBuf), a) \in Nat
    BY <2>1, <2>2 DEF Buffers
  <2>4. buf'[a] = [buf[a] EXCEPT !.ref = Left(Once(LastBuf), a)]
    BY <1>7
  <2>. QED  BY <2>1, <2>2, <2>3, <2>4 DEF Buffers
<1>9. TypeOK'
  <2>1. buf' = [a \in Bufs |-> buf'[a]]
    BY <1>3 DEF UnrefLast
  <2>2. buf' \in [Bufs -> Buffers]
    BY <1>8, <2>1
  <2>. QED  BY <1>2, <1>3, <1>5, <2>2 DEF TypeOK
<1>10. RefsExact'
  <2>1. \A a \in deferred' : buf'[a].ref = 0 /\ buf'[a].busy
    BY <1>1, <1>2, <1>5, <1>8 DEF RefsExact
  <2>2. \A a \in chain' : buf'[a].ref = 1 /\ a # last'
    BY <1>1, <1>3, <1>5, <1>8
  <2>. QED  BY <2>1, <2>2, <1>1, <1>3, <1>5 DEF RefsExact
<1>11. AgeTellsFrame' /\ NoTornFrame' /\ DistinctAges'
  <2>1. AgeTellsFrame'
    BY <1>1, <1>2, <1>3, <1>5, <1>8 DEF AgeTellsFrame
  <2>2. NoTornFrame'
    BY <1>1, <1>2, <1>5, <1>8 DEF NoTornFrame
  <2>3. DistinctAges'
    BY <1>1, <1>2, <1>5, <1>8 DEF DistinctAges
  <2>. QED  BY <2>1, <2>2, <2>3
<1>12. JobOwnsBuffer' /\ ChainEmptied' /\ LastAge' /\ LastDamage' /\ JobPixels' /\ Closed'
  BY <1>3 DEF JobOwnsBuffer, ChainEmptied, LastAge, LastDamage, JobPixels, Closed
<1>. QED
  BY <1>9, <1>10, <1>11, <1>12 DEF BuffersInv, BuffersKept, Content

\* The chain is purged: last_buf, which has another reference, stays.
LEMMA WinDestroyInv ==
    ASSUME BuffersInv, WinDestroy
    PROVE  BuffersInv'
<1>1. /\ chain \subseteq Bufs /\ alive \subseteq Bufs /\ None \notin Bufs
      /\ \A a \in Bufs : buf[a] \in Buffers
      /\ alive = chain \cup deferred /\ chain \cap deferred = {}
      /\ frame \in Nat /\ buf \in [Bufs -> Buffers]
  BY ChainTypes DEF BuffersInv, BuffersKept, TypeOK
<1>2. TypeOK /\ AgeTellsFrame /\ RefsExact /\ NoTornFrame /\ DistinctAges
        /\ LastAge /\ LastDamage
  BY DEF BuffersInv, BuffersKept, Content
<1>3. /\ window = "open" /\ window' = "destroyed" /\ job = None /\ job' = None
      /\ pc = "idle" /\ pc' = "idle"
      /\ Drop(Once(chain))
      /\ buf' = [a \in Bufs |-> [buf[a] EXCEPT !.ref = Left(Once(chain), a)]]
      /\ UNCHANGED <<last, size, frame, late, preapply>>
  BY <1>2 DEF WinDestroy, PreapplyDone, TypeOK
<1>4. \A a \in Bufs :
        Left(Once(chain), a) =
            IF a \in chain THEN (IF a = last THEN 1 ELSE 0) ELSE buf[a].ref
  <2>. SUFFICES ASSUME NEW a \in Bufs
                PROVE  Left(Once(chain), a) =
                   IF a \in chain THEN (IF a = last THEN 1 ELSE 0) ELSE buf[a].ref
    OBVIOUS
  <2>1. a \in chain => buf[a].ref = IF a = last THEN 2 ELSE 1
    BY <1>3, OpenRefs
  <2>2. Once(chain)[a] = IF a \in chain THEN 1 ELSE 0
    BY DEF Once
  <2>3. buf[a].ref \in Nat
    BY <1>1 DEF Buffers
  <2>. QED  BY <2>1, <2>2, <2>3 DEF Left
<1>5. Unreferenced(Once(chain)) = chain \ {last}
  BY <1>1, <1>4 DEF Unreferenced, Once
<1>6. /\ chain' = chain \cap {last}
      /\ deferred' = deferred \cup {a \in chain \ {last} : buf[a].busy}
      /\ alive' = alive \ {a \in chain \ {last} : ~buf[a].busy}
  BY <1>3, <1>5 DEF Drop
<1>7. \A a \in Bufs : buf'[a] = [buf[a] EXCEPT !.ref = Left(Once(chain), a)]
  BY <1>3
<1>8. \A a \in Bufs :
        /\ buf'[a].holds = buf[a].holds /\ buf'[a].age = buf[a].age
        /\ buf'[a].dirty = buf[a].dirty /\ buf'[a].busy = buf[a].busy
        /\ buf'[a].size = buf[a].size
        /\ buf'[a].ref = (IF a \in chain THEN (IF a = last THEN 1 ELSE 0)
                                         ELSE buf[a].ref)
        /\ buf'[a] \in Buffers
  <2>. SUFFICES ASSUME NEW a \in Bufs
                PROVE  /\ buf'[a].holds = buf[a].holds /\ buf'[a].age = buf[a].age
                       /\ buf'[a].dirty = buf[a].dirty
                       /\ buf'[a].busy = buf[a].busy
                       /\ buf'[a].size = buf[a].size
                       /\ buf'[a].ref = (IF a \in chain THEN (IF a = last THEN 1 ELSE 0) ELSE buf[a].ref)
                       /\ buf'[a] \in Buffers
    OBVIOUS
  <2>1. buf[a] \in Buffers
    BY <1>1
  <2>2. Left(Once(chain), a) = IF a \in chain THEN (IF a = last THEN 1 ELSE 0) ELSE buf[a].ref
    BY <1>4
  <2>3. Left(Once(chain), a) \in Nat
    BY <2>1, <2>2 DEF Buffers
  <2>4. buf'[a] = [buf[a] EXCEPT !.ref = Left(Once(chain), a)]
    BY <1>7
  <2>. QED  BY <2>1, <2>2, <2>3, <2>4 DEF Buffers
<1>9. TypeOK'
  <2>1. buf' \in [Bufs -> Buffers]
    <3>1. buf' = [a \in Bufs |-> buf'[a]]
      BY <1>3
    <3>. QED  BY <1>8, <3>1
  <2>2. alive' \subseteq Bufs /\ chain' \subseteq alive' /\ deferred' \subseteq alive'
    BY <1>1, <1>6
  <2>. QED  BY <1>2, <1>3, <2>1, <2>2 DEF TypeOK
<1>10. RefsExact'
  <2>1. \A a \in deferred' : buf'[a].ref = 0 /\ buf'[a].busy
    BY <1>1, <1>2, <1>6, <1>8 DEF RefsExact
  <2>2. \A a \in chain' : buf'[a].ref = 1 /\ a = last'
    BY <1>1, <1>3, <1>6, <1>8
  <2>3. alive' = chain' \cup deferred' /\ chain' \cap deferred' = {}
    BY <1>1, <1>6
  <2>4. last' # None => last' \in chain'
    BY <1>2, <1>3, <1>6 DEF RefsExact
  <2>5. \A a \in chain' : buf'[a].ref = (IF window' = "open" THEN 1 ELSE 0)
                              + (IF a = last' /\ pc' # "swap" THEN 1 ELSE 0)
    BY <2>2, <1>3
  <2>. QED  BY <2>1, <2>3, <2>4, <2>5 DEF RefsExact
<1>11. AgeTellsFrame' /\ NoTornFrame' /\ DistinctAges'
  <2>1. AgeTellsFrame'
    BY <1>1, <1>2, <1>3, <1>6, <1>8 DEF AgeTellsFrame
  <2>2. NoTornFrame'
    BY <1>1, <1>2, <1>6, <1>8 DEF NoTornFrame
  <2>3. DistinctAges'
    BY <1>6 DEF DistinctAges
  <2>. QED  BY <2>1, <2>2, <2>3
<1>12. LastAge' /\ LastDamage'
  <2>1. last # None => last \in chain /\ last \in Bufs
    BY <1>1, <1>2, <1>3 DEF RefsExact
  <2>2. LastAge'
    BY <1>2, <1>3, <1>8, <2>1 DEF LastAge
  <2>3. LastDamage'
    BY <1>1, <1>2, <1>3, <1>6, <1>8, <2>1 DEF LastDamage
  <2>. QED  BY <2>2, <2>3
<1>13. JobOwnsBuffer' /\ ChainEmptied' /\ JobPixels' /\ Closed'
  BY <1>3, <1>6 DEF JobOwnsBuffer, ChainEmptied, JobPixels, Closed
<1>. QED
  BY <1>9, <1>10, <1>11, <1>12, <1>13 DEF BuffersInv, BuffersKept, Content

\* The last reference to the last buffer: the chain is empty.
LEMMA TermDestroyInv ==
    ASSUME BuffersInv, TermDestroy
    PROVE  BuffersInv'
<1>1. /\ chain \subseteq Bufs /\ alive \subseteq Bufs /\ None \notin Bufs
      /\ \A a \in Bufs : buf[a] \in Buffers
      /\ alive = chain \cup deferred /\ chain \cap deferred = {}
      /\ frame \in Nat /\ buf \in [Bufs -> Buffers]
  BY ChainTypes DEF BuffersInv, BuffersKept, TypeOK
<1>2. TypeOK /\ RefsExact /\ NoTornFrame /\ Closed
  BY DEF BuffersInv, BuffersKept, Content
<1>3. /\ window = "destroyed" /\ window' = "gone" /\ job = None /\ job' = None
      /\ pc = "idle" /\ pc' = "idle" /\ chain \subseteq {last}
      /\ UnrefLast /\ UNCHANGED <<last, size, frame, late, preapply>>
  BY <1>2 DEF TermDestroy, Closed, TypeOK
<1>4. \A a \in Bufs : Left(Once(LastBuf), a) = IF a \in chain THEN 0 ELSE buf[a].ref
  <2>. SUFFICES ASSUME NEW a \in Bufs
                PROVE  Left(Once(LastBuf), a) = IF a \in chain THEN 0 ELSE buf[a].ref
    OBVIOUS
  <2>1. a \in chain => a = last /\ buf[a].ref = 1
    BY <1>2, <1>3 DEF RefsExact
  <2>2. a \notin chain => a # last
    BY <1>1, <1>2, <1>3 DEF RefsExact
  <2>3. Once(LastBuf)[a] = IF a = last THEN 1 ELSE 0
    BY <1>1 DEF Once, LastBuf
  <2>4. buf[a].ref \in Nat
    BY <1>1 DEF Buffers
  <2>. QED  BY <2>1, <2>2, <2>3, <2>4 DEF Left
<1>5. Unreferenced(Once(LastBuf)) = chain
  <2>1. \A a \in chain : a \in Bufs /\ a \in LastBuf
    BY <1>1, <1>3 DEF LastBuf
  <2>. QED  BY <1>4, <2>1 DEF Unreferenced, Once
<1>6. /\ chain' = {} /\ deferred' = deferred \cup {a \in chain : buf[a].busy}
      /\ alive' = alive \ {a \in chain : ~buf[a].busy}
  BY <1>3, <1>5 DEF UnrefLast, Drop
<1>7. \A a \in Bufs : buf'[a] = [buf[a] EXCEPT !.ref = Left(Once(LastBuf), a)]
  BY <1>3 DEF UnrefLast
<1>8. \A a \in Bufs :
        /\ buf'[a].holds = buf[a].holds /\ buf'[a].busy = buf[a].busy
        /\ buf'[a].ref = (IF a \in chain THEN 0 ELSE buf[a].ref)
        /\ buf'[a] \in Buffers
  <2>. SUFFICES ASSUME NEW a \in Bufs
                PROVE  /\ buf'[a].holds = buf[a].holds
                       /\ buf'[a].busy = buf[a].busy
                       /\ buf'[a].ref = (IF a \in chain THEN 0 ELSE buf[a].ref)
                       /\ buf'[a] \in Buffers
    OBVIOUS
  <2>1. buf[a] \in Buffers
    BY <1>1
  <2>2. Left(Once(LastBuf), a) = IF a \in chain THEN 0 ELSE buf[a].ref
    BY <1>4
  <2>3. Left(Once(LastBuf), a) \in Nat
    BY <2>1, <2>2 DEF Buffers
  <2>4. buf'[a] = [buf[a] EXCEPT !.ref = Left(Once(LastBuf), a)]
    BY <1>7
  <2>. QED  BY <2>1, <2>2, <2>3, <2>4 DEF Buffers
<1>9. TypeOK'
  <2>1. buf' \in [Bufs -> Buffers]
    <3>1. buf' = [a \in Bufs |-> buf'[a]]
      BY <1>3 DEF UnrefLast
    <3>. QED  BY <1>8, <3>1
  <2>2. alive' \subseteq Bufs /\ chain' \subseteq alive' /\ deferred' \subseteq alive'
    BY <1>1, <1>6
  <2>. QED  BY <1>2, <1>3, <2>1, <2>2 DEF TypeOK
<1>10. RefsExact'
  <2>1. \A a \in deferred' : buf'[a].ref = 0 /\ buf'[a].busy
    BY <1>1, <1>2, <1>6, <1>8 DEF RefsExact
  <2>2. alive' = chain' \cup deferred' /\ chain' \cap deferred' = {}
    BY <1>1, <1>6
  <2>. QED  BY <2>1, <2>2, <1>3, <1>6 DEF RefsExact
<1>11. NoTornFrame'
  BY <1>1, <1>2, <1>6, <1>8 DEF NoTornFrame
<1>12. AgeTellsFrame' /\ DistinctAges' /\ LastAge' /\ LastDamage'
        /\ JobOwnsBuffer' /\ ChainEmptied' /\ JobPixels' /\ Closed'
  BY <1>3, <1>6
  DEF AgeTellsFrame, DistinctAges, LastAge, LastDamage, JobOwnsBuffer,
      ChainEmptied, JobPixels, Closed
<1>. QED
  BY <1>9, <1>10, <1>11, <1>12 DEF BuffersInv, BuffersKept, Content

-----------------------------------------------------------------------------
(* The theorems *)

LEMMA BuffersInitInv ==
    ASSUME Init
    PROVE  BuffersInv
<1>1. Sizes # {} /\ size \in Sizes
  BY DEF Init
<1>2. AnyBuffer \in Buffers
  <2>1. (CHOOSE s \in Sizes : TRUE) \in Sizes
    BY <1>1
  <2>. QED  BY <2>1 DEF AnyBuffer, Buffers, Garbage, Full
<1>3. TypeOK
  <2>1. buf \in [Bufs -> Buffers]
    BY <1>2 DEF Init
  <2>2. 0 \in 0 .. MaxFrames /\ 0 \in 0 .. PreapplyAfter + 1
    BY FrameBuffersAssumption DEF New
  <2>. QED  BY <1>1, <2>1, <2>2, FrameBuffersAssumption DEF Init, TypeOK
<1>. QED
  BY <1>3, FrameBuffersAssumption
  DEF Init, BuffersInv, BuffersKept, Content, AgeTellsFrame, JobOwnsBuffer, RefsExact,
      ChainEmptied, NoTornFrame, LastAge, DistinctAges, LastDamage, JobPixels, Closed

LEMMA BuffersNextInv ==
    ASSUME BuffersInv, [Next]_vars
    PROVE  BuffersInv'
<1>1. CASE UNCHANGED vars
  BY <1>1
  DEF vars, BuffersInv, BuffersKept, Content, TypeOK, AgeTellsFrame, JobOwnsBuffer,
      RefsExact, ChainEmptied, NoTornFrame, LastAge, DistinctAges, LastDamage,
      JobPixels, Closed
<1>. QED
  BY <1>1, GridRenderInv, BufferReleaseInv, WorkerInv, ResizeInv, WinDestroyInv,
     TermDestroyInv
  DEF Next

\* The inductive invariant: the chain with its references and ages, the pixels
\* of its buffers, and the worker's half-done job (shm.c, render.c).
THEOREM BuffersInvHolds == Spec => []BuffersInv
<1>. QED  BY BuffersInitInv, BuffersNextInv, PTL DEF Spec

\* The chain's references, the meaning of a buffer's age and the worker's claim
\* on its buffer hold for any number of buffers and late releases.
THEOREM BuffersAreKept == Spec => []BuffersKept
<1>1. BuffersInv => BuffersKept
  BY DEF BuffersInv
<1>. QED  BY <1>1, BuffersInvHolds, PTL

\* No buffer the compositor may show ever holds anything but a whole frame, for
\* any number of buffers and in whatever order they are released.
THEOREM NothingTorn == Spec => []NoTornFrame
<1>1. BuffersInv => NoTornFrame
  BY DEF BuffersInv, Content
<1>. QED  BY <1>1, BuffersInvHolds, PTL

-----------------------------------------------------------------------------
(* Render workers.                                                         *)

Marks == {FrameEnd, Exit, Preapply}

DrawStates == {"table", "alloc", "glyph", "lock", "create", "blink", "arm", "rest"}
InHand     == {"took", "pop"} \cup DrawStates
Alive      == {"wait", "post", "copy"} \cup InHand
States     == {"exited"} \cup Alive

\* The workers that are in some of the states S, by their program counters p.
In(p, S) == {w \in Workers : p[w] \in S}

\* The places of a queue q with an entry of S.
Places(q, S) == {i \in 1 .. Len(q) : q[i] \in S}

RenderTypeOK ==
    /\ main \in {"idle", "fill", "render", "destroy", "join", "gone"}
    /\ takes \in Nat /\ start \in Nat /\ done \in Nat /\ frameNo \in Nat
    /\ started \subseteq Workers
    /\ queue \in Seq(Rows \cup Marks)
    /\ preapplying \in BOOLEAN
    /\ wpc \in [Workers -> States]
    /\ wbuf \in [Workers -> Nat]
    /\ row \in [Workers -> Rows \cup Marks]
    /\ target \in Nat
    /\ timers \in {0, 1}

Tokens ==
    start + Cardinality(In(wpc, InHand)) =
        Cardinality(Places(queue, Marks)) + (IF main = "fill" THEN NumWorkers ELSE 0)

\* No worker does, or is about to do, anything but wait for work or exit.
NoneIn(S) == \A w \in Workers : wpc[w] \notin S

Idle ==
    main = "idle" /\ ~preapplying =>
        queue = <<>> /\ done = 0 /\ NoneIn({"post", "copy"})

Job ==
    preapplying =>
        /\ main = "idle" /\ done = 0 /\ NoneIn({"post"})
        /\ \/ queue = <<Preapply>> /\ NoneIn({"copy"})
           \/ queue = <<>> /\ \A v, w \in Workers :
                                 wpc[v] = "copy" /\ wpc[w] = "copy" => v = w

Filling ==
    main = "fill" =>
        /\ lock = Main /\ ~preapplying /\ target = frameNo
        /\ queue = <<>> /\ done = 0 /\ NoneIn({"post", "copy"})

Rendering ==
    main = "render" =>
        /\ ~preapplying /\ target = frameNo /\ NoneIn({"copy"})
        /\ takes # 0
        /\ takes = done + Cardinality(In(wpc, {"post"}))
                        + Cardinality(Places(queue, {FrameEnd}))
        /\ \A i \in 1 .. Len(queue) : queue[i] \in Rows \cup {FrameEnd}
        /\ queue # <<>> => queue[Len(queue)] = FrameEnd

Destroying ==
    main = "destroy" =>
        /\ ~preapplying /\ queue = <<>> /\ start = 0
        /\ NoneIn({"post", "copy"})

Leaving ==
    main \in {"join", "gone"} =>
        /\ ~preapplying /\ NoneIn({"post", "copy"})
        /\ \A i \in 1 .. Len(queue) : queue[i] = Exit
        /\ Cardinality(In(wpc, Alive)) = Cardinality(Places(queue, {Exit}))
        /\ main = "gone" => NoneIn(Alive)

Threaded ==
    main \notin {"join", "gone"} =>
        \A w \in Workers : wpc[w] = "exited" <=> w \notin started

\* Who draws, draws a row into the buffer of the frame.
Drawn ==
    \A w \in Workers :
        /\ wpc[w] \in DrawStates => main = "render" /\ row[w] \in Rows
        /\ wpc[w] \in {"pop"} \cup DrawStates /\ main \in {"fill", "render"} =>
              wbuf[w] = frameNo

RenderInv ==
    /\ RenderTypeOK /\ Tokens /\ Idle /\ Job /\ Filling /\ Rendering
    /\ Destroying /\ Leaving /\ Threaded /\ Drawn

-----------------------------------------------------------------------------
(* Counting *)

LEMMA Constants ==
    /\ NumWorkers \in Nat /\ NumWorkers # 0
    /\ Rows \subseteq Nat /\ Rows \cap Marks = {}
    /\ IsFiniteSet(Workers)
    /\ DrawStates \subseteq InHand /\ InHand \subseteq Alive /\ Alive \subseteq States
<1>1. NumWorkers \in Nat /\ NumWorkers # 0 /\ Rows \subseteq Nat
  BY RenderWorkersAssumption
<1>2. IsFiniteSet(Workers)
  BY <1>1, FS_Interval DEF Workers
<1>3. \A r \in Marks : r < 0
  BY DEF Marks, FrameEnd, Exit, Preapply
<1>4. Rows \cap Marks = {}
  <2>1. \A r \in Rows : r >= 0
    BY <1>1
  <2>2. \A r : ~(r \in Rows /\ r \in Marks)
    <3>. SUFFICES ASSUME NEW r, r \in Rows, r \in Marks PROVE FALSE
      OBVIOUS
    <3>1. r \in Nat /\ r >= 0 /\ r < 0
      BY <1>1, <1>3, <2>1
    <3>. QED  BY <3>1
  <2>. QED  BY <2>2
<1>. QED  BY <1>1, <1>2, <1>4 DEF InHand, Alive, States

\* A worker's step moves it from one set of states to another.
LEMMA Moves ==
    ASSUME RenderInv, NEW w \in Workers, NEW x \in States,
           wpc' = [wpc EXCEPT ![w] = x], NEW S
    PROVE  /\ Cardinality(In(wpc, S)) \in Nat
           /\ Cardinality(In(wpc', S)) = Cardinality(In(wpc, S))
                  - (IF wpc[w] \in S THEN 1 ELSE 0) + (IF x \in S THEN 1 ELSE 0)
<1>. DEFINE rest == In(wpc, S) \ {w}
<1>1. \A v \in Workers : wpc'[v] = IF v = w THEN x ELSE wpc[v]
  BY DEF RenderInv, RenderTypeOK
<1>2. IsFiniteSet(In(wpc, S)) /\ IsFiniteSet(rest) /\ IsFiniteSet(In(wpc', S))
  <2>1. In(wpc, S) \in SUBSET Workers /\ In(wpc', S) \in SUBSET Workers
          /\ rest \in SUBSET Workers
    BY DEF In
  <2>. QED  BY <2>1, Constants, FS_Subset
<1>3. Cardinality(rest) = IF wpc[w] \in S THEN Cardinality(In(wpc, S)) - 1
                                          ELSE Cardinality(In(wpc, S))
  <2>1. w \in In(wpc, S) <=> wpc[w] \in S
    BY DEF In
  <2>. QED  BY <1>2, <2>1, FS_RemoveElement
<1>4. Cardinality(In(wpc', S)) = IF x \in S THEN Cardinality(rest) + 1
                                            ELSE Cardinality(rest)
  <2>1. CASE x \in S
    <3>1. In(wpc', S) = rest \cup {w} /\ w \notin rest
      BY <1>1, <2>1 DEF In
    <3>. QED  BY <1>2, <2>1, <3>1, FS_AddElement
  <2>2. CASE x \notin S
    <3>1. In(wpc', S) = rest
      BY <1>1, <2>2 DEF In
    <3>. QED  BY <2>2, <3>1
  <2>. QED  BY <2>1, <2>2
<1>5. Cardinality(In(wpc, S)) \in Nat /\ Cardinality(rest) \in Nat
  BY <1>2, FS_CardinalityType
<1>. QED  BY <1>3, <1>4, <1>5

LEMMA InNobody ==
    ASSUME NEW p, NEW S
    PROVE  /\ Cardinality(In(p, S)) \in Nat
           /\ Cardinality(In(p, S)) = 0 <=> \A w \in Workers : p[w] \notin S
<1>1. In(p, S) \in SUBSET Workers
  BY DEF In
<1>2. IsFiniteSet(In(p, S))
  BY <1>1, Constants, FS_Subset
<1>. QED  BY <1>2, FS_EmptySet, FS_CardinalityType DEF In

\* What is counted in a queue; and what is left after an entry was taken.
LEMMA PlacesNone ==
    ASSUME NEW T, NEW q \in Seq(T), NEW S
    PROVE  /\ Len(q) \in Nat
           /\ Cardinality(Places(q, S)) \in Nat
           /\ Cardinality(Places(q, S)) = 0 <=> \A i \in 1 .. Len(q) : q[i] \notin S
<1>1. Len(q) \in Nat
  BY LenProperties
<1>2. IsFiniteSet(1 .. Len(q)) /\ Places(q, S) \in SUBSET (1 .. Len(q))
  BY <1>1, FS_Interval DEF Places
<1>3. IsFiniteSet(Places(q, S))
  BY <1>2, FS_Subset
<1>4. Cardinality(Places(q, S)) \in Nat
        /\ (Cardinality(Places(q, S)) = 0 <=> Places(q, S) = {})
  BY <1>3, FS_EmptySet, FS_CardinalityType
<1>5. Places(q, S) = {} <=> \A i \in 1 .. Len(q) : q[i] \notin S
  BY DEF Places
<1>. QED  BY <1>1, <1>4, <1>5

LEMMA PlacesTail ==
    ASSUME NEW T, NEW q \in Seq(T), q # <<>>, NEW S
    PROVE  Cardinality(Places(Tail(q), S)) =
               Cardinality(Places(q, S)) - (IF Head(q) \in S THEN 1 ELSE 0)
<1>. DEFINE rest == Places(q, S) \ {1}
            f == [i \in rest |-> i - 1]
<1>1. Len(q) \in Nat \ {0} /\ Head(q) = q[1]
        /\ Len(Tail(q)) = Len(q) - 1
        /\ \A i \in 1 .. Len(q) - 1 : Tail(q)[i] = q[i + 1]
  BY EmptySeq, HeadTailProperties
<1>2. IsFiniteSet(Places(q, S)) /\ IsFiniteSet(rest)
  <2>1. Places(q, S) \in SUBSET (1 .. Len(q)) /\ rest \in SUBSET (1 .. Len(q))
    BY DEF Places
  <2>2. IsFiniteSet(1 .. Len(q))
    BY <1>1, FS_Interval
  <2>. QED  BY <2>1, <2>2, FS_Subset
<1>3. rest \subseteq 2 .. Len(q) /\ \A i \in rest : q[i] \in S
  BY <1>1 DEF Places
<1>4. f \in Bijection(rest, Places(Tail(q), S))
  <2>1. ASSUME NEW i \in rest PROVE f[i] \in Places(Tail(q), S)
    <3>1. i \in 2 .. Len(q) /\ q[i] \in S /\ f[i] = i - 1
      BY <1>3
    <3>2. i - 1 \in 1 .. Len(q) - 1 /\ Tail(q)[i - 1] = q[i]
      BY <1>1, <3>1
    <3>. QED  BY <1>1, <3>1, <3>2 DEF Places
  <2>2. ASSUME NEW i \in rest, NEW j \in rest, f[i] = f[j] PROVE i = j
    BY <1>3, <2>2
  <2>3. ASSUME NEW k \in Places(Tail(q), S) PROVE \E i \in rest : f[i] = k
    <3>1. k \in 1 .. Len(q) - 1 /\ Tail(q)[k] \in S
      BY <1>1 DEF Places
    <3>2. k + 1 \in rest
      BY <1>1, <3>1 DEF Places
    <3>3. f[k + 1] = k
      BY <3>1, <3>2
    <3>. QED  BY <3>2, <3>3
  <2>4. f \in [rest -> Places(Tail(q), S)]
    BY <2>1
  <2>. QED  BY <2>2, <2>3, <2>4 DEF Bijection, Injection, Surjection, IsInjective
<1>5. Cardinality(Places(Tail(q), S)) = Cardinality(rest)
  BY <1>2, <1>4, FS_Bijection DEF ExistsBijection
<1>6. 1 \in Places(q, S) <=> Head(q) \in S
  BY <1>1 DEF Places
<1>7. Cardinality(Places(q, S)) \in Nat
  BY <1>2, FS_CardinalityType
<1>. QED  BY <1>2, <1>5, <1>6, <1>7, FS_RemoveElement

\* The queues that begin a frame, a job and the exit.
LEMMA WorkPlaces ==
    ASSUME NEW dirty \in SUBSET Rows, NEW q \in TopToBottom(dirty)
    PROVE  LET work == q \o Copies(FrameEnd, NumWorkers) IN
           /\ work \in Seq(Rows \cup {FrameEnd})
           /\ work # <<>> /\ work[Len(work)] = FrameEnd
           /\ Cardinality(Places(work, {FrameEnd})) = NumWorkers
           /\ Cardinality(Places(work, Marks)) = NumWorkers
           /\ q \in Seq(Rows)
           /\ Places(work, {FrameEnd}) = Len(q) + 1 .. Len(q) + NumWorkers
           /\ \A r \in Rows : Places(work, {r}) = Places(q, {r})
<1>. DEFINE ends == Copies(FrameEnd, NumWorkers)
            work == q \o ends
            T == Rows \cup {FrameEnd}
<1>1. NumWorkers \in Nat /\ NumWorkers # 0
  BY Constants
<1>2. q \in Seq(dirty) /\ q \in Seq(Rows) /\ q \in Seq(T)
  <2>1. Cardinality(dirty) \in Nat
    BY RenderWorkersAssumption, FS_Subset, FS_CardinalityType
  <2>2. q \in [1 .. Cardinality(dirty) -> dirty]
    BY DEF TopToBottom
  <2>3. q \in Seq(dirty)
    BY <2>1, <2>2, SMT
  <2>4. dirty \subseteq Rows /\ dirty \subseteq T
    OBVIOUS
  <2>. QED  BY <2>3, <2>4, SeqMonotonic
<1>3. ends \in [1 .. NumWorkers -> {FrameEnd}]
  BY DEF Copies
<1>. HIDE DEF ends
<1>4. ends \in Seq({FrameEnd}) /\ ends \in Seq(T) /\ Len(ends) = NumWorkers
        /\ \A i \in 1 .. NumWorkers : ends[i] = FrameEnd
  <2>1. ends \in Seq({FrameEnd}) /\ Len(ends) = NumWorkers
    BY <1>1, <1>3, SMT
  <2>2. {FrameEnd} \subseteq T
    OBVIOUS
  <2>. QED  BY <1>3, <2>1, <2>2, SeqMonotonic
<1>5. /\ work \in Seq(T) /\ Len(work) = Len(q) + NumWorkers /\ Len(q) \in Nat
      /\ \A i \in 1 .. Len(q) + NumWorkers :
            work[i] = IF i <= Len(q) THEN q[i] ELSE ends[i - Len(q)]
  BY <1>2, <1>4, ConcatProperties, LenProperties
<1>. HIDE DEF work
<1>6. \A i \in 1 .. Len(q) : work[i] = q[i] /\ q[i] \in Rows
  BY <1>1, <1>2, <1>5, ElementOfSeq
<1>7. \A i \in Len(q) + 1 .. Len(q) + NumWorkers : work[i] = FrameEnd
  BY <1>1, <1>4, <1>5
<1>8. Places(work, {FrameEnd}) = Len(q) + 1 .. Len(q) + NumWorkers
        /\ Places(work, Marks) = Len(q) + 1 .. Len(q) + NumWorkers
  <2>1. \A i \in 1 .. Len(q) : work[i] \notin Marks /\ work[i] # FrameEnd
    BY <1>6, Constants DEF Marks
  <2>2. \A i \in 1 .. Len(work) : i \in 1 .. Len(q)
                                  \/ i \in Len(q) + 1 .. Len(q) + NumWorkers
    BY <1>1, <1>5
  <2>3. \A i \in Len(q) + 1 .. Len(q) + NumWorkers : i \in 1 .. Len(work)
    BY <1>1, <1>5
  <2>4. Places(work, {FrameEnd}) = Len(q) + 1 .. Len(q) + NumWorkers
    BY <1>7, <2>1, <2>2, <2>3 DEF Places
  <2>5. Places(work, Marks) = Len(q) + 1 .. Len(q) + NumWorkers
    BY <1>7, <2>1, <2>2, <2>3 DEF Places, Marks
  <2>. QED  BY <2>4, <2>5
<1>9. Cardinality(Len(q) + 1 .. Len(q) + NumWorkers) = NumWorkers
  BY <1>1, <1>5, FS_Interval
<1>10. work # <<>> /\ work[Len(work)] = FrameEnd
  <2>1. Len(work) # 0 /\ Len(work) \in Len(q) + 1 .. Len(q) + NumWorkers
    BY <1>1, <1>5
  <2>2. Len(<<>>) = 0
    BY EmptySeq
  <2>. QED  BY <1>7, <2>1, <2>2
<1>11. ASSUME NEW r \in Rows PROVE Places(work, {r}) = Places(q, {r})
  <2>1. r # FrameEnd
    BY Constants DEF Marks
  <2>2. \A i \in 1 .. Len(work) : i \in 1 .. Len(q)
                                  \/ i \in Len(q) + 1 .. Len(q) + NumWorkers
    BY <1>1, <1>5
  <2>3. \A i \in 1 .. Len(q) : i \in 1 .. Len(work)
    BY <1>1, <1>5
  <2>. QED  BY <1>6, <1>7, <2>1, <2>2, <2>3 DEF Places
<1>. QED  BY <1>2, <1>5, <1>8, <1>9, <1>10, <1>11 DEF work, ends

LEMMA CopiesPlaces ==
    ASSUME NEW m \in Marks, NEW n \in Nat
    PROVE  /\ Copies(m, n) \in Seq(Rows \cup Marks)
           /\ Len(Copies(m, n)) = n
           /\ \A i \in 1 .. n : Copies(m, n)[i] = m
           /\ \A S : m \in S => Cardinality(Places(Copies(m, n), S)) = n
<1>1. Copies(m, n) \in [1 .. n -> Rows \cup Marks] /\ \A i \in 1 .. n : Copies(m, n)[i] = m
  BY DEF Copies
<1>2. Copies(m, n) \in Seq(Rows \cup Marks) /\ Len(Copies(m, n)) = n
  BY <1>1, SMT
<1>3. ASSUME NEW S, m \in S PROVE Cardinality(Places(Copies(m, n), S)) = n
  <2>1. Places(Copies(m, n), S) = 1 .. n
    BY <1>1, <1>2, <1>3 DEF Places
  <2>. QED  BY <2>1, FS_Interval
<1>. QED  BY <1>1, <1>2, <1>3

LEMMA OnePlace ==
    ASSUME NEW m \in Marks
    PROVE  /\ <<m>> \in Seq(Rows \cup Marks) /\ Len(<<m>>) = 1 /\ <<m>>[1] = m
           /\ Cardinality(Places(<<m>>, Marks)) = 1
           /\ Cardinality(Places(<<>>, Marks)) = 0
           /\ Len(<<>>) = 0
<1>1. Len(<<m>>) = 1 /\ <<m>>[1] = m /\ Len(<<>>) = 0
  OBVIOUS
<1>2. Places(<<m>>, Marks) = {1} /\ Places(<<>>, Marks) = {}
  BY <1>1 DEF Places
<1>3. <<m>> \in Seq(Rows \cup Marks)
  OBVIOUS
<1>. QED  BY <1>1, <1>2, <1>3, FS_Singleton, FS_EmptySet

-----------------------------------------------------------------------------
(* The event loop's thread *)

\* A worker that finds the queue open finds something in it.
LEMMA TokensCount ==
    ASSUME RenderInv, NEW w \in Workers, wpc[w] \in InHand, main # "fill"
    PROVE  queue # <<>>
<1>1. Cardinality(In(wpc, InHand)) \in Nat /\ Cardinality(In(wpc, InHand)) # 0
  BY InNobody
<1>2. start \in Nat /\ queue \in Seq(Rows \cup Marks)
        /\ start + Cardinality(In(wpc, InHand)) = Cardinality(Places(queue, Marks))
  <2>1. start + Cardinality(In(wpc, InHand)) =
            Cardinality(Places(queue, Marks)) + 0
    BY DEF RenderInv, Tokens
  <2>. QED  BY <2>1, PlacesNone DEF RenderInv, RenderTypeOK
<1>3. Cardinality(Places(queue, Marks)) # 0 /\ Cardinality(Places(queue, Marks)) \in Nat
  BY <1>1, <1>2, PlacesNone
<1>4. Cardinality(Places(<<>>, Marks)) = 0
  BY OnePlace DEF Marks
<1>. QED  BY <1>3, <1>4

\* With nothing in the queue there is nothing to take, and no worker has work.
LEMMA NothingLeft ==
    ASSUME RenderInv, main # "fill",
           \A i \in 1 .. Len(queue) : queue[i] \notin Marks
    PROVE  start = 0 /\ NoneIn(InHand)
<1>1. Cardinality(Places(queue, Marks)) = 0
  BY PlacesNone DEF RenderInv, RenderTypeOK
<1>2. start + Cardinality(In(wpc, InHand)) = 0 /\ start \in Nat
  <2>1. start + Cardinality(In(wpc, InHand)) = 0 + 0
    BY <1>1 DEF RenderInv, Tokens
  <2>. QED  BY <2>1 DEF RenderInv, RenderTypeOK
<1>3. start = 0 /\ Cardinality(In(wpc, InHand)) = 0
  BY <1>2, InNobody
<1>. QED  BY <1>3, InNobody DEF NoneIn

\* What the event loop's thread relies on between frames.
LEMMA BetweenFrames ==
    ASSUME RenderInv, main \in {"idle", "destroy"}, ~preapplying
    PROVE  /\ queue = <<>> /\ start = 0 /\ NoneIn({"post", "copy"})
           /\ NoneIn(InHand)
<1>1. queue = <<>> /\ NoneIn({"post", "copy"})
  BY DEF RenderInv, Idle, Destroying
<1>2. Len(queue) = 0
  BY <1>1
<1>3. main # "fill" /\ \A i \in 1 .. Len(queue) : queue[i] \notin Marks
  BY <1>2
<1>. QED  BY <1>1, <1>3, NothingLeft

LEMMA FrameBeginInv ==
    ASSUME RenderInv, FrameBegin
    PROVE  RenderInv'
<1>1. /\ main = "idle" /\ ~preapplying /\ main' = "fill" /\ lock' = Main
      /\ frameNo' = frameNo + 1 /\ target' = frameNo + 1
      /\ start' = start + NumWorkers
      /\ UNCHANGED <<takes, started, queue, done, preapplying, wpc, wbuf, row,
                     timers>>
  BY DEF FrameBegin, CanBegin, workerVars
<1>2. queue = <<>> /\ start = 0 /\ NoneIn({"post", "copy"}) /\ NoneIn(InHand)
  BY <1>1, BetweenFrames
<1>3. done = 0
  BY <1>1 DEF RenderInv, Idle
<1>4. RenderTypeOK'
  BY <1>1, Constants DEF RenderInv, RenderTypeOK
<1>5. Tokens'
  <2>1. Cardinality(In(wpc, InHand)) = 0
    BY <1>2, InNobody DEF NoneIn
  <2>2. Cardinality(Places(queue, Marks)) = 0
    BY <1>2, OnePlace DEF Marks
  <2>. QED  BY <1>1, <1>2, <2>1, <2>2, Constants DEF Tokens
<1>6. Filling' /\ Idle' /\ Job' /\ Rendering' /\ Destroying' /\ Leaving'
  BY <1>1, <1>2, <1>3
  DEF Filling, Idle, Job, Rendering, Destroying, Leaving, NoneIn
<1>7. Threaded'
  BY <1>1 DEF RenderInv, Threaded
<1>8. Drawn'
  BY <1>1, <1>2 DEF Drawn, NoneIn, InHand
<1>. QED  BY <1>4, <1>5, <1>6, <1>7, <1>8 DEF RenderInv

LEMMA FrameFillInv ==
    ASSUME RenderInv, FrameFill
    PROVE  RenderInv'
<1>0. PICK dirty \in SUBSET Rows :
        \E work \in Work(dirty) : queue' = queue \o work
  BY DEF FrameFill
<1>1. PICK q \in TopToBottom(dirty) :
        queue' = queue \o (q \o Copies(FrameEnd, NumWorkers))
  BY <1>0 DEF Work
<1>. DEFINE work == q \o Copies(FrameEnd, NumWorkers)
<1>2. /\ work \in Seq(Rows \cup {FrameEnd})
      /\ work # <<>> /\ work[Len(work)] = FrameEnd
      /\ Cardinality(Places(work, {FrameEnd})) = NumWorkers
      /\ Cardinality(Places(work, Marks)) = NumWorkers
  BY WorkPlaces
<1>. HIDE DEF work
<1>3. /\ main = "fill" /\ main' = "render" /\ takes' = NumWorkers
      /\ UNCHANGED <<started, frameNo, target, start, done, preapplying, wpc,
                     wbuf, row, timers>>
  BY DEF FrameFill, AllDone, workerVars
<1>4. /\ ~preapplying /\ target = frameNo /\ queue = <<>> /\ done = 0
      /\ NoneIn({"post", "copy"})
  BY <1>3 DEF RenderInv, Filling
<1>5. queue' = work
  <2>1. queue' = <<>> \o work
    BY <1>1, <1>4 DEF work
  <2>. QED  BY <1>2, <2>1, ConcatEmptySeq
<1>6. queue' \in Seq(Rows \cup Marks)
  <2>1. Rows \cup {FrameEnd} \subseteq Rows \cup Marks
    BY DEF Marks
  <2>. QED  BY <1>2, <1>5, <2>1, SeqMonotonic
<1>7. RenderTypeOK'
  BY <1>3, <1>6, Constants DEF RenderInv, RenderTypeOK
<1>8. Tokens'
  <2>1. start + Cardinality(In(wpc, InHand)) =
            Cardinality(Places(queue, Marks)) + NumWorkers
    BY <1>3 DEF RenderInv, Tokens
  <2>2. Cardinality(Places(queue, Marks)) = 0
    BY <1>4, OnePlace DEF Marks
  <2>3. start + Cardinality(In(wpc, InHand)) = NumWorkers + 0
    BY <2>1, <2>2, Constants
  <2>. QED  BY <1>2, <1>3, <1>5, <2>3 DEF Tokens
<1>9. Rendering'
  <2>1. Cardinality(In(wpc, {"post"})) = 0
    BY <1>4, InNobody DEF NoneIn
  <2>2. takes' = done' + Cardinality(In(wpc', {"post"}))
                       + Cardinality(Places(queue', {FrameEnd}))
    BY <1>2, <1>3, <1>4, <1>5, <2>1, Constants
  <2>3. \A i \in 1 .. Len(queue') : queue'[i] \in Rows \cup {FrameEnd}
    BY <1>2, <1>5, ElementOfSeq
  <2>. QED
    BY <1>2, <1>3, <1>4, <1>5, <2>2, <2>3, Constants DEF Rendering, NoneIn
<1>10. Idle' /\ Job' /\ Filling' /\ Destroying' /\ Leaving'
  BY <1>3, <1>4 DEF Idle, Job, Filling, Destroying, Leaving
<1>11. Threaded' /\ Drawn'
  BY <1>3 DEF RenderInv, Threaded, Drawn
<1>. QED  BY <1>7, <1>8, <1>9, <1>10, <1>11 DEF RenderInv

\* When the last "done" is taken no worker has work, so none of them draws.
LEMMA LastTaken ==
    ASSUME RenderInv, FrameWait, takes = 1
    PROVE  /\ queue = <<>> /\ done = 1 /\ start = 0
           /\ NoneIn({"post", "copy"}) /\ NoneIn(InHand)
<1>1. main = "render" /\ done > 0
  BY DEF FrameWait
<1>2. /\ takes = done + Cardinality(In(wpc, {"post"}))
                      + Cardinality(Places(queue, {FrameEnd}))
      /\ NoneIn({"copy"})
      /\ \A i \in 1 .. Len(queue) : queue[i] \in Rows \cup {FrameEnd}
      /\ queue # <<>> => queue[Len(queue)] = FrameEnd
      /\ done \in Nat /\ queue \in Seq(Rows \cup Marks)
  BY <1>1 DEF RenderInv, Rendering, RenderTypeOK
<1>3. Cardinality(In(wpc, {"post"})) \in Nat
        /\ Cardinality(Places(queue, {FrameEnd})) \in Nat
  BY <1>2, InNobody, PlacesNone
<1>4. done = 1 /\ Cardinality(In(wpc, {"post"})) = 0
        /\ Cardinality(Places(queue, {FrameEnd})) = 0
  BY <1>1, <1>2, <1>3
<1>5. NoneIn({"post", "copy"})
  BY <1>2, <1>4, InNobody DEF NoneIn
<1>6. queue = <<>>
  <2>1. Len(queue) \in Nat /\ \A i \in 1 .. Len(queue) : queue[i] # FrameEnd
    BY <1>2, <1>4, PlacesNone
  <2>2. queue # <<>> => Len(queue) \in 1 .. Len(queue)
    BY <1>2, EmptySeq
  <2>. QED  BY <1>2, <2>1, <2>2
<1>7. Len(queue) = 0
  BY <1>6
<1>8. main # "fill" /\ \A i \in 1 .. Len(queue) : queue[i] \notin Marks
  BY <1>1, <1>7
<1>. QED  BY <1>4, <1>5, <1>6, <1>8, NothingLeft

LEMMA FrameWaitInv ==
    ASSUME RenderInv, FrameWait
    PROVE  RenderInv'
<1>1. /\ main = "render" /\ done > 0 /\ done' = done - 1 /\ takes' = takes - 1
      /\ IF takes = 1 THEN main' = "idle" /\ target' = 0
                      ELSE UNCHANGED <<main, target>>
      /\ UNCHANGED <<started, frameNo, queue, lock, start, preapplying, wpc,
                     wbuf, row, timers>>
  BY DEF FrameWait, workerVars
<1>2. RenderTypeOK /\ Tokens /\ Rendering /\ Threaded /\ Drawn
  BY DEF RenderInv
<1>3. done \in Nat /\ takes \in Nat /\ takes # 0 /\ ~preapplying
        /\ queue \in Seq(Rows \cup Marks)
  BY <1>1, <1>2 DEF RenderTypeOK, Rendering
<1>4. RenderTypeOK'
  BY <1>1, <1>2, <1>3 DEF RenderTypeOK
<1>5. main' # "fill" /\ main' \in {"render", "idle"}
  BY <1>1
<1>6. Tokens'
  BY <1>1, <1>2, <1>5 DEF Tokens
<1>7. Threaded'
  BY <1>1, <1>2, <1>5 DEF Threaded
<1>8. Job' /\ Filling' /\ Destroying' /\ Leaving'
  BY <1>1, <1>3, <1>5 DEF Job, Filling, Destroying, Leaving
<1>9. CASE takes = 1
  <2>1. queue = <<>> /\ done = 1 /\ NoneIn({"post", "copy"}) /\ NoneIn(InHand)
    BY <1>9, LastTaken
  <2>2. Idle' /\ Rendering'
    BY <1>1, <1>9, <2>1 DEF Idle, Rendering, NoneIn
  <2>3. Drawn'
    BY <1>1, <2>1 DEF Drawn, NoneIn, InHand
  <2>. QED  BY <1>4, <1>6, <1>7, <1>8, <2>2, <2>3 DEF RenderInv
<1>10. CASE takes # 1
  <2>1. main' = "render" /\ target' = target
    BY <1>1, <1>10
  <2>2. takes = done + Cardinality(In(wpc, {"post"}))
                     + Cardinality(Places(queue, {FrameEnd}))
    BY <1>1, <1>2 DEF Rendering
  <2>3. Cardinality(In(wpc, {"post"})) \in Nat
          /\ Cardinality(Places(queue, {FrameEnd})) \in Nat
    BY <1>3, InNobody, PlacesNone
  <2>4. takes' = done' + Cardinality(In(wpc', {"post"}))
                       + Cardinality(Places(queue', {FrameEnd}))
    BY <1>1, <1>3, <2>2, <2>3
  <2>5. takes' # 0
    BY <1>1, <1>3, <1>10
  <2>6. Rendering'
    BY <1>1, <1>2, <2>1, <2>4, <2>5 DEF Rendering, NoneIn
  <2>7. Idle' /\ Drawn'
    BY <1>1, <1>2, <2>1 DEF Idle, Drawn
  <2>. QED  BY <1>4, <1>6, <1>7, <1>8, <2>6, <2>7 DEF RenderInv
<1>. QED  BY <1>9, <1>10

LEMMA JobBeginInv ==
    ASSUME RenderInv, JobBegin
    PROVE  RenderInv'
<1>1. /\ main = "idle" /\ ~preapplying /\ preapplying' = TRUE
      /\ start' = start + 1 /\ queue' = Append(queue, Preapply)
      /\ UNCHANGED <<main, takes, started, frameNo, target, lock, done, wpc,
                     wbuf, row, timers>>
  BY DEF JobBegin, workerVars
<1>2. queue = <<>> /\ start = 0 /\ NoneIn({"post", "copy"}) /\ NoneIn(InHand)
  BY <1>1, BetweenFrames
<1>3. done = 0
  BY <1>1 DEF RenderInv, Idle
<1>4. queue' = <<Preapply>>
  BY <1>1, <1>2
<1>5. Preapply \in Marks
  BY DEF Marks
<1>6. RenderTypeOK'
  <2>1. queue' \in Seq(Rows \cup Marks)
    BY <1>4, <1>5, OnePlace
  <2>. QED  BY <1>1, <2>1 DEF RenderInv, RenderTypeOK
<1>7. Tokens'
  <2>1. Cardinality(In(wpc, InHand)) = 0
    BY <1>2, InNobody DEF NoneIn
  <2>2. Cardinality(Places(queue', Marks)) = 1
    BY <1>4, <1>5, OnePlace
  <2>. QED  BY <1>1, <1>2, <2>1, <2>2 DEF Tokens
<1>8. Job' /\ Idle' /\ Filling' /\ Rendering' /\ Destroying' /\ Leaving'
  BY <1>1, <1>2, <1>3, <1>4
  DEF Job, Idle, Filling, Rendering, Destroying, Leaving, NoneIn
<1>9. Threaded' /\ Drawn'
  BY <1>1 DEF RenderInv, Threaded, Drawn
<1>. QED  BY <1>6, <1>7, <1>8, <1>9 DEF RenderInv

\* The table of glyphs and the blink timer are given up between frames.
LEMMA SetFontsBlinkInv ==
    ASSUME RenderInv, SetFonts \/ Blink
    PROVE  RenderInv'
<1>1. /\ timers' \in {0, 1}
      /\ UNCHANGED <<main, takes, started, frameNo, target, queue, lock, start,
                     done, preapplying, wpc, wbuf, row>>
  BY DEF SetFonts, Blink, workerVars, RenderInv, RenderTypeOK
<1>2. RenderTypeOK' /\ Tokens'
  BY <1>1 DEF RenderInv, RenderTypeOK, Tokens
<1>3. Idle' /\ Job' /\ Filling' /\ Rendering' /\ Destroying' /\ Leaving'
  BY <1>1
  DEF RenderInv, Idle, Job, Filling, Rendering, Destroying, Leaving, NoneIn
<1>4. Threaded' /\ Drawn'
  BY <1>1 DEF RenderInv, Threaded, Drawn
<1>. QED  BY <1>2, <1>3, <1>4 DEF RenderInv

LEMMA DestroyInv ==
    ASSUME RenderInv, Destroy
    PROVE  RenderInv'
<1>1. /\ main \in {"idle", "destroy"} /\ ~preapplying /\ main' = "join"
      /\ start' = start + Threads /\ queue' = queue \o Copies(Exit, Threads)
      /\ UNCHANGED <<takes, started, frameNo, target, lock, done, preapplying,
                     wpc, wbuf, row, timers>>
  BY DEF Destroy, workerVars
<1>2. queue = <<>> /\ start = 0 /\ NoneIn({"post", "copy"}) /\ NoneIn(InHand)
  BY <1>1, BetweenFrames
<1>3. /\ \A w \in Workers : wpc[w] = "exited" <=> w \notin started
      /\ started \subseteq Workers /\ wpc \in [Workers -> States]
  BY <1>1 DEF RenderInv, Threaded, RenderTypeOK
<1>4. Threads \in Nat /\ Cardinality(In(wpc, Alive)) = Threads
  <2>1. In(wpc, Alive) = started
    <3>1. \A w \in Workers : wpc[w] \in Alive <=> wpc[w] # "exited"
      BY <1>3 DEF States, Alive, InHand, DrawStates
    <3>. QED  BY <1>3, <3>1 DEF In
  <2>2. IsFiniteSet(started)
    BY <1>3, Constants, FS_Subset
  <2>. QED  BY <2>1, <2>2, FS_CardinalityType DEF Threads
<1>5. Exit \in Marks
  BY DEF Marks
<1>6. /\ queue' = Copies(Exit, Threads) /\ queue' \in Seq(Rows \cup Marks)
      /\ Len(queue') = Threads
      /\ \A i \in 1 .. Threads : queue'[i] = Exit
      /\ Cardinality(Places(queue', Marks)) = Threads
      /\ Cardinality(Places(queue', {Exit})) = Threads
  <2>1. queue' = <<>> \o Copies(Exit, Threads)
    BY <1>1, <1>2
  <2>2. queue' = Copies(Exit, Threads)
    BY <2>1, <1>4, <1>5, CopiesPlaces, ConcatEmptySeq
  <2>3. Exit \in {Exit}
    OBVIOUS
  <2>. QED  BY <2>2, <2>3, <1>4, <1>5, CopiesPlaces
<1>7. RenderTypeOK'
  BY <1>1, <1>2, <1>4, <1>6 DEF RenderInv, RenderTypeOK
<1>8. Tokens'
  <2>1. Cardinality(In(wpc, InHand)) = 0
    BY <1>2, InNobody DEF NoneIn
  <2>. QED  BY <1>1, <1>2, <1>4, <1>6, <2>1 DEF Tokens
<1>9. Leaving'
  BY <1>1, <1>2, <1>4, <1>6 DEF Leaving, NoneIn
<1>10. Idle' /\ Job' /\ Filling' /\ Rendering' /\ Destroying' /\ Threaded'
  BY <1>1 DEF Idle, Job, Filling, Rendering, Destroying, Threaded
<1>11. Drawn'
  BY <1>1, <1>2 DEF Drawn, NoneIn, InHand
<1>. QED  BY <1>7, <1>8, <1>9, <1>10, <1>11 DEF RenderInv

LEMMA JoinInv ==
    ASSUME RenderInv, Join
    PROVE  RenderInv'
<1>1. /\ main = "join" /\ main' = "gone" /\ \A w \in Workers : wpc[w] = "exited"
      /\ UNCHANGED <<takes, started, frameNo, target, queue, lock, start, done,
                     preapplying, wpc, wbuf, row, timers>>
  BY DEF Join, workerVars
<1>2. RenderTypeOK' /\ Tokens'
  BY <1>1 DEF RenderInv, RenderTypeOK, Tokens
<1>3. NoneIn(Alive)
  BY <1>1 DEF NoneIn, Alive, InHand, DrawStates
<1>4. Leaving'
  BY <1>1, <1>3 DEF RenderInv, Leaving, NoneIn
<1>5. Idle' /\ Job' /\ Filling' /\ Rendering' /\ Destroying' /\ Threaded' /\ Drawn'
  BY <1>1
  DEF RenderInv, Idle, Job, Filling, Rendering, Destroying, Leaving, Threaded, Drawn,
      DrawStates
<1>. QED  BY <1>2, <1>4, <1>5 DEF RenderInv

-----------------------------------------------------------------------------
(* The workers *)

\* What a worker's place says of the event loop's thread.
LEMMA WorkerPhase ==
    ASSUME RenderInv, NEW w \in Workers
    PROVE  /\ wpc[w] = "post" => main = "render"
           /\ wpc[w] = "copy" => preapplying /\ main = "idle" /\ queue = <<>>
           /\ wpc[w] \in DrawStates => main = "render"
           /\ wpc[w] \in Alive => main # "gone"
BY DEF RenderInv, RenderTypeOK, Idle, Job, Filling, Rendering, Destroying, Leaving,
       Drawn, NoneIn

LEMMA TakeInv ==
    ASSUME RenderInv, NEW w \in Workers, Take(w)
    PROVE  RenderInv'
<1>1. /\ wpc[w] = "wait" /\ start > 0 /\ start' = start - 1
      /\ wpc' = [wpc EXCEPT ![w] = "took"]
      /\ UNCHANGED <<main, takes, started, frameNo, target, queue, lock, done,
                     preapplying, wbuf, row, timers>>
  BY DEF Take, Goes
<1>2. /\ wpc \in [Workers -> States] /\ "took" \in States
      /\ start \in Nat /\ queue \in Seq(Rows \cup Marks)
  BY DEF RenderInv, RenderTypeOK, States, Alive, InHand
<1>3. wpc' \in [Workers -> States]
        /\ \A v \in Workers : wpc'[v] = IF v = w THEN "took" ELSE wpc[v]
  BY <1>1, <1>2
<1>4. Cardinality(In(wpc', InHand)) = Cardinality(In(wpc, InHand)) + 1
        /\ Cardinality(In(wpc, InHand)) \in Nat
  <2>1. "wait" \notin InHand /\ "took" \in InHand
    BY DEF InHand, DrawStates
  <2>2. /\ Cardinality(In(wpc, InHand)) \in Nat
        /\ Cardinality(In(wpc', InHand)) = Cardinality(In(wpc, InHand))
              - (IF wpc[w] \in InHand THEN 1 ELSE 0)
              + (IF "took" \in InHand THEN 1 ELSE 0)
    BY <1>1, <1>2, Moves
  <2>. QED  BY <1>1, <2>1, <2>2
<1>5. RenderTypeOK'
  BY <1>1, <1>2, <1>3 DEF RenderInv, RenderTypeOK
<1>6. Tokens'
  <2>1. start + Cardinality(In(wpc, InHand)) =
            start' + Cardinality(In(wpc', InHand))
    BY <1>1, <1>2, <1>4
  <2>. QED  BY <1>1, <2>1 DEF RenderInv, Tokens
<1>7. Idle' /\ Job' /\ Filling'
  BY <1>1, <1>3 DEF RenderInv, Idle, Job, Filling, NoneIn
<1>8. Rendering'
  <2>1. /\ Cardinality(In(wpc, {"post"})) \in Nat
        /\ Cardinality(In(wpc', {"post"})) = Cardinality(In(wpc, {"post"}))
              - (IF wpc[w] \in {"post"} THEN 1 ELSE 0)
              + (IF "took" \in {"post"} THEN 1 ELSE 0)
    BY <1>1, <1>2, Moves
  <2>2. Cardinality(In(wpc', {"post"})) = Cardinality(In(wpc, {"post"}))
    BY <1>1, <2>1
  <2>. QED  BY <1>1, <1>3, <2>2 DEF RenderInv, Rendering, NoneIn
<1>9. Destroying'
  BY <1>1, <1>2, <1>3 DEF RenderInv, Destroying, NoneIn
<1>10. Leaving'
  <2>1. "wait" \in Alive /\ "took" \in Alive
    BY DEF Alive, InHand
  <2>2. /\ Cardinality(In(wpc, Alive)) \in Nat
        /\ Cardinality(In(wpc', Alive)) = Cardinality(In(wpc, Alive))
              - (IF wpc[w] \in Alive THEN 1 ELSE 0)
              + (IF "took" \in Alive THEN 1 ELSE 0)
    BY <1>1, <1>2, Moves
  <2>3. Cardinality(In(wpc', Alive)) = Cardinality(In(wpc, Alive))
    BY <1>1, <2>1, <2>2
  <2>4. main # "gone"
    BY <1>1, <2>1, WorkerPhase
  <2>. QED  BY <1>1, <1>3, <2>3, <2>4 DEF RenderInv, Leaving, NoneIn
<1>11. Threaded' /\ Drawn'
  BY <1>1, <1>3 DEF RenderInv, Threaded, Drawn, DrawStates
<1>. QED  BY <1>5, <1>6, <1>7, <1>8, <1>9, <1>10, <1>11 DEF RenderInv

LEMMA ReadBufInv ==
    ASSUME RenderInv, NEW w \in Workers, ReadBuf(w)
    PROVE  RenderInv'
<1>1. /\ wpc[w] = "took" /\ wpc' = [wpc EXCEPT ![w] = "pop"]
      /\ wbuf' = [wbuf EXCEPT ![w] = target]
      /\ UNCHANGED <<main, takes, started, frameNo, target, queue, lock, start,
                     done, preapplying, row, timers>>
  BY DEF ReadBuf, AtQueue
<1>2. /\ wpc \in [Workers -> States] /\ "pop" \in States
      /\ queue \in Seq(Rows \cup Marks)
      /\ wbuf \in [Workers -> Nat] /\ target \in Nat
  BY DEF RenderInv, RenderTypeOK, States, Alive, InHand
<1>3. wpc' \in [Workers -> States]
        /\ \A v \in Workers : wpc'[v] = IF v = w THEN "pop" ELSE wpc[v]
  BY <1>1, <1>2
<1>4. wbuf' \in [Workers -> Nat]
        /\ \A v \in Workers : wbuf'[v] = IF v = w THEN target ELSE wbuf[v]
  BY <1>1, <1>2
<1>5. \A S : ("took" \in S <=> "pop" \in S) =>
          Cardinality(In(wpc', S)) = Cardinality(In(wpc, S))
  <2>. SUFFICES ASSUME NEW S, "took" \in S <=> "pop" \in S
                PROVE  Cardinality(In(wpc', S)) = Cardinality(In(wpc, S))
    OBVIOUS
  <2>1. /\ Cardinality(In(wpc, S)) \in Nat
        /\ Cardinality(In(wpc', S)) = Cardinality(In(wpc, S))
              - (IF wpc[w] \in S THEN 1 ELSE 0) + (IF "pop" \in S THEN 1 ELSE 0)
    BY <1>1, <1>2, Moves
  <2>. QED  BY <1>1, <2>1
<1>6. RenderTypeOK'
  BY <1>1, <1>2, <1>3, <1>4 DEF RenderInv, RenderTypeOK
<1>7. Tokens' /\ Rendering'
  <2>1. Cardinality(In(wpc', InHand)) = Cardinality(In(wpc, InHand))
    BY <1>5 DEF InHand
  <2>2. Cardinality(In(wpc', {"post"})) = Cardinality(In(wpc, {"post"}))
    BY <1>5
  <2>. QED  BY <1>1, <1>3, <2>1, <2>2 DEF RenderInv, Tokens, Rendering, NoneIn
<1>8. Idle' /\ Job' /\ Filling' /\ Destroying'
  BY <1>1, <1>3 DEF RenderInv, Idle, Job, Filling, Destroying, NoneIn
<1>9. Leaving'
  <2>1. "took" \in Alive /\ "pop" \in Alive
    BY DEF Alive, InHand
  <2>2. Cardinality(In(wpc', Alive)) = Cardinality(In(wpc, Alive))
    BY <1>5, <2>1
  <2>3. main # "gone"
    BY <1>1, <2>1, WorkerPhase
  <2>. QED  BY <1>1, <1>3, <2>2, <2>3 DEF RenderInv, Leaving, NoneIn
<1>10. Threaded'
  BY <1>1, <1>3 DEF RenderInv, Threaded
<1>11. Drawn'
  <2>1. main \in {"fill", "render"} => target = frameNo
    BY DEF RenderInv, Filling, Rendering
  <2>2. "pop" \notin DrawStates
    BY DEF DrawStates
  <2>. QED  BY <1>1, <1>3, <1>4, <2>1, <2>2 DEF RenderInv, Drawn
<1>. QED  BY <1>6, <1>7, <1>8, <1>9, <1>10, <1>11 DEF RenderInv

\* Drawing a row, up to its end.
LEMMA DrawInv ==
    ASSUME RenderInv, NEW w \in Workers, wpc[w] \in DrawStates,
           NEW x \in {"pop"} \cup DrawStates,
           wpc' = [wpc EXCEPT ![w] = x],
           row' = IF x = "pop" THEN [row EXCEPT ![w] = FrameEnd] ELSE row,
           timers' \in {0, 1},
           UNCHANGED <<main, takes, started, frameNo, target, queue, start, done,
                       preapplying, wbuf>>
    PROVE  RenderInv'
<1>1. main = "render" /\ main' = "render"
  BY WorkerPhase
<1>2. /\ wpc \in [Workers -> States] /\ x \in States /\ x \in InHand
      /\ wpc[w] \in InHand
  BY Constants DEF RenderInv, RenderTypeOK, States, Alive, InHand
<1>3. wpc' \in [Workers -> States]
        /\ \A v \in Workers : wpc'[v] = IF v = w THEN x ELSE wpc[v]
  BY <1>2
<1>4. Cardinality(In(wpc', InHand)) = Cardinality(In(wpc, InHand))
  <2>1. /\ Cardinality(In(wpc, InHand)) \in Nat
        /\ Cardinality(In(wpc', InHand)) = Cardinality(In(wpc, InHand))
              - (IF wpc[w] \in InHand THEN 1 ELSE 0)
              + (IF x \in InHand THEN 1 ELSE 0)
    BY <1>2, Moves
  <2>. QED  BY <1>2, <2>1
<1>5. Cardinality(In(wpc', {"post"})) = Cardinality(In(wpc, {"post"}))
  <2>1. wpc[w] \notin {"post"} /\ x \notin {"post"}
    BY DEF DrawStates
  <2>2. /\ Cardinality(In(wpc, {"post"})) \in Nat
        /\ Cardinality(In(wpc', {"post"})) = Cardinality(In(wpc, {"post"}))
              - (IF wpc[w] \in {"post"} THEN 1 ELSE 0)
              + (IF x \in {"post"} THEN 1 ELSE 0)
    BY <1>2, Moves
  <2>. QED  BY <2>1, <2>2
<1>6. row' \in [Workers -> Rows \cup Marks]
  BY DEF RenderInv, RenderTypeOK, Marks
<1>7. RenderTypeOK'
  BY <1>3, <1>6 DEF RenderInv, RenderTypeOK
<1>8. Tokens'
  BY <1>1, <1>4 DEF RenderInv, Tokens
<1>9. Rendering'
  <2>1. x # "copy"
    BY DEF DrawStates
  <2>2. NoneIn({"copy"})'
    BY <1>1, <1>3, <2>1 DEF RenderInv, Rendering, NoneIn
  <2>. QED  BY <1>1, <1>5, <2>2 DEF RenderInv, Rendering
<1>10. Idle' /\ Job' /\ Filling' /\ Destroying' /\ Leaving'
  <2>1. ~preapplying
    BY <1>1 DEF RenderInv, Rendering
  <2>. QED  BY <1>1, <2>1 DEF Idle, Job, Filling, Destroying, Leaving
<1>11. Threaded'
  <2>1. wpc[w] # "exited" /\ x # "exited"
    BY DEF DrawStates
  <2>. QED  BY <1>1, <1>3, <2>1 DEF RenderInv, Threaded
<1>12. Drawn'
  <2>1. wpc[w] \in DrawStates /\ row[w] \in Rows /\ wbuf[w] = frameNo
    BY <1>1 DEF RenderInv, Drawn
  <2>2. "pop" \notin DrawStates
    BY DEF DrawStates
  <2>3. \A v \in Workers : row'[v] = IF v = w /\ x = "pop" THEN FrameEnd ELSE row[v]
    BY DEF RenderInv, RenderTypeOK
  <2>. QED  BY <1>1, <1>3, <2>1, <2>2, <2>3 DEF RenderInv, Drawn
<1>. QED  BY <1>7, <1>8, <1>9, <1>10, <1>11, <1>12 DEF RenderInv

LEMMA DrawStepsInv ==
    ASSUME RenderInv, NEW w \in Workers,
           \/ CheckTable(w) \/ AllocTable(w) \/ CheckGlyph(w) \/ LockGlyph(w)
           \/ CreateGlyph(w) \/ CheckBlink(w) \/ ArmBlink(w) \/ RowDone(w)
    PROVE  RenderInv'
<1>1. wpc[w] \in DrawStates
  BY DEF CheckTable, AllocTable, CheckGlyph, LockGlyph, CreateGlyph, CheckBlink,
         ArmBlink, RowDone, DrawStates
<1>2. BlinkOrRest(row[w]) \in DrawStates
  BY DEF BlinkOrRest, DrawStates
<1>3. \E x \in {"pop"} \cup DrawStates :
        /\ wpc' = [wpc EXCEPT ![w] = x]
        /\ row' = IF x = "pop" THEN [row EXCEPT ![w] = FrameEnd] ELSE row
  <2>1. CASE CheckTable(w) \/ AllocTable(w)
    <3>1. "alloc" \in DrawStates /\ "glyph" \in DrawStates
      BY DEF DrawStates
    <3>2. row' = row /\ (wpc' = [wpc EXCEPT ![w] = "alloc"]
                         \/ wpc' = [wpc EXCEPT ![w] = "glyph"])
      BY <2>1 DEF CheckTable, AllocTable, Goes
    <3>. QED  BY <3>1, <3>2
  <2>2. CASE CheckGlyph(w) \/ LockGlyph(w) \/ CreateGlyph(w)
    <3>1. "lock" \in DrawStates /\ "create" \in DrawStates /\ "pop" \notin DrawStates
      BY DEF DrawStates
    <3>2. row' = row /\ (\/ wpc' = [wpc EXCEPT ![w] = "lock"]
                         \/ wpc' = [wpc EXCEPT ![w] = "create"]
                         \/ wpc' = [wpc EXCEPT ![w] = BlinkOrRest(row[w])])
      BY <2>2 DEF CheckGlyph, LockGlyph, CreateGlyph, Goes
    <3>3. CASE wpc' = [wpc EXCEPT ![w] = BlinkOrRest(row[w])]
      <4>. DEFINE x == BlinkOrRest(row[w])
      <4>1. x \in DrawStates /\ x # "pop"
        BY <1>2, <3>1
      <4>. HIDE DEF x
      <4>2. wpc' = [wpc EXCEPT ![w] = x]
        BY <3>3 DEF x
      <4>. QED  BY <3>2, <4>1, <4>2
    <3>4. CASE wpc' = [wpc EXCEPT ![w] = "lock"] \/ wpc' = [wpc EXCEPT ![w] = "create"]
      BY <3>1, <3>2, <3>4
    <3>. QED  BY <3>2, <3>3, <3>4
  <2>3. CASE CheckBlink(w) \/ ArmBlink(w)
    <3>1. "arm" \in DrawStates /\ "rest" \in DrawStates
      BY DEF DrawStates
    <3>2. row' = row /\ (wpc' = [wpc EXCEPT ![w] = "arm"]
                         \/ wpc' = [wpc EXCEPT ![w] = "rest"])
      BY <2>3 DEF CheckBlink, ArmBlink, Goes
    <3>. QED  BY <3>1, <3>2
  <2>4. CASE RowDone(w)
    BY <2>4 DEF RowDone, AtQueue
  <2>. QED  BY <2>1, <2>2, <2>3, <2>4
<1>4. timers' \in {0, 1}
  BY DEF RenderInv, RenderTypeOK, CheckTable, AllocTable, CheckGlyph, LockGlyph,
         CreateGlyph, CheckBlink, ArmBlink, RowDone, Armed
<1>5. UNCHANGED <<main, takes, started, frameNo, target, queue, start, done,
                  preapplying, wbuf>>
  BY DEF CheckTable, AllocTable, CheckGlyph, LockGlyph, CreateGlyph, CheckBlink,
         ArmBlink, RowDone
<1>. QED  BY <1>1, <1>3, <1>4, <1>5, DrawInv

LEMMA PostDoneInv ==
    ASSUME RenderInv, NEW w \in Workers, PostDone(w)
    PROVE  RenderInv'
<1>1. /\ wpc[w] = "post" /\ done' = done + 1
      /\ wpc' = [wpc EXCEPT ![w] = "wait"]
      /\ UNCHANGED <<main, takes, started, frameNo, target, queue, lock, start,
                     preapplying, wbuf, row, timers>>
  BY DEF PostDone, Goes
<1>2. main = "render"
  BY <1>1, WorkerPhase
<1>3. /\ wpc \in [Workers -> States] /\ "wait" \in States
      /\ done \in Nat /\ queue \in Seq(Rows \cup Marks)
  BY DEF RenderInv, RenderTypeOK, States, Alive
<1>4. wpc' \in [Workers -> States]
        /\ \A v \in Workers : wpc'[v] = IF v = w THEN "wait" ELSE wpc[v]
  BY <1>1, <1>3
<1>5. RenderTypeOK'
  BY <1>1, <1>3, <1>4 DEF RenderInv, RenderTypeOK
<1>6. Tokens'
  <2>1. "post" \notin InHand /\ "wait" \notin InHand
    BY DEF InHand, DrawStates
  <2>2. /\ Cardinality(In(wpc, InHand)) \in Nat
        /\ Cardinality(In(wpc', InHand)) = Cardinality(In(wpc, InHand))
              - (IF wpc[w] \in InHand THEN 1 ELSE 0)
              + (IF "wait" \in InHand THEN 1 ELSE 0)
    BY <1>1, <1>3, Moves
  <2>3. Cardinality(In(wpc', InHand)) = Cardinality(In(wpc, InHand))
    BY <1>1, <2>1, <2>2
  <2>. QED  BY <1>1, <2>3 DEF RenderInv, Tokens
<1>7. Rendering'
  <2>1. /\ Cardinality(In(wpc, {"post"})) \in Nat
        /\ Cardinality(In(wpc', {"post"})) = Cardinality(In(wpc, {"post"}))
              - (IF wpc[w] \in {"post"} THEN 1 ELSE 0)
              + (IF "wait" \in {"post"} THEN 1 ELSE 0)
    BY <1>1, <1>3, Moves
  <2>2. Cardinality(In(wpc', {"post"})) = Cardinality(In(wpc, {"post"})) - 1
    BY <1>1, <2>1
  <2>3. Cardinality(Places(queue, {FrameEnd})) \in Nat
    BY <1>3, PlacesNone
  <2>4. takes = done + Cardinality(In(wpc, {"post"}))
                     + Cardinality(Places(queue, {FrameEnd}))
    BY <1>2 DEF RenderInv, Rendering
  <2>5. takes' = done' + Cardinality(In(wpc', {"post"}))
                       + Cardinality(Places(queue', {FrameEnd}))
    BY <1>1, <1>3, <2>1, <2>2, <2>3, <2>4
  <2>6. NoneIn({"copy"})'
    BY <1>2, <1>4 DEF RenderInv, Rendering, NoneIn
  <2>. QED  BY <1>1, <1>2, <2>5, <2>6 DEF RenderInv, Rendering
<1>8. Idle' /\ Job' /\ Filling' /\ Destroying' /\ Leaving'
  <2>1. ~preapplying
    BY <1>2 DEF RenderInv, Rendering
  <2>. QED  BY <1>1, <1>2, <2>1 DEF Idle, Job, Filling, Destroying, Leaving
<1>9. Threaded' /\ Drawn'
  BY <1>1, <1>4 DEF RenderInv, Threaded, Drawn, DrawStates
<1>. QED  BY <1>5, <1>6, <1>7, <1>8, <1>9 DEF RenderInv

LEMMA JobDoneInv ==
    ASSUME RenderInv, NEW w \in Workers, JobDone(w)
    PROVE  RenderInv'
<1>1. /\ wpc[w] = "copy" /\ preapplying' = FALSE
      /\ wpc' = [wpc EXCEPT ![w] = "wait"]
      /\ UNCHANGED <<main, takes, started, frameNo, target, queue, lock, start,
                     done, wbuf, row, timers>>
  BY DEF JobDone, Goes
<1>2. main = "idle" /\ preapplying /\ queue = <<>>
  BY <1>1, WorkerPhase
<1>3. wpc \in [Workers -> States] /\ "wait" \in States
  BY DEF RenderInv, RenderTypeOK, States, Alive
<1>4. wpc' \in [Workers -> States]
        /\ \A v \in Workers : wpc'[v] = IF v = w THEN "wait" ELSE wpc[v]
  BY <1>1, <1>3
<1>5. RenderTypeOK'
  BY <1>1, <1>3, <1>4 DEF RenderInv, RenderTypeOK
<1>6. Tokens'
  <2>1. "copy" \notin InHand /\ "wait" \notin InHand
    BY DEF InHand, DrawStates
  <2>2. /\ Cardinality(In(wpc, InHand)) \in Nat
        /\ Cardinality(In(wpc', InHand)) = Cardinality(In(wpc, InHand))
              - (IF wpc[w] \in InHand THEN 1 ELSE 0)
              + (IF "wait" \in InHand THEN 1 ELSE 0)
    BY <1>1, <1>3, Moves
  <2>3. Cardinality(In(wpc', InHand)) = Cardinality(In(wpc, InHand))
    BY <1>1, <2>1, <2>2
  <2>. QED  BY <1>1, <2>3 DEF RenderInv, Tokens
<1>7. done = 0 /\ NoneIn({"post"})
        /\ \A u, v \in Workers : wpc[u] = "copy" /\ wpc[v] = "copy" => u = v
  BY <1>1, <1>2 DEF RenderInv, Job, NoneIn
<1>8. Idle'
  BY <1>1, <1>2, <1>4, <1>7 DEF Idle, NoneIn
<1>9. Job' /\ Filling' /\ Rendering' /\ Destroying' /\ Leaving'
  BY <1>1, <1>2 DEF Job, Filling, Rendering, Destroying, Leaving
<1>10. Threaded' /\ Drawn'
  BY <1>1, <1>4 DEF RenderInv, Threaded, Drawn, DrawStates
<1>. QED  BY <1>5, <1>6, <1>8, <1>9, <1>10 DEF RenderInv

\* What comes first in the queue, by phase, and where the worker goes with it.
LEMMA PopInv ==
    ASSUME RenderInv, NEW w \in Workers, Pop(w)
    PROVE  RenderInv'
<1>. DEFINE r == Head(queue)
            x == CASE r = FrameEnd -> "post"
                   [] r = Exit -> "exited"
                   [] r = Preapply -> "copy"
                   [] OTHER -> FirstCell(r)
<1>1. /\ wpc[w] = "pop" /\ lock = Nobody /\ queue # <<>> /\ queue' = Tail(queue)
      /\ row' = [row EXCEPT ![w] = r]
      /\ wpc' = [wpc EXCEPT ![w] = x]
      /\ UNCHANGED <<main, takes, started, frameNo, target, lock, start, done,
                     preapplying, wbuf, timers>>
  BY DEF Pop, Goes
<1>2. /\ wpc \in [Workers -> States] /\ queue \in Seq(Rows \cup Marks)
      /\ row \in [Workers -> Rows \cup Marks]
      /\ takes \in Nat /\ done \in Nat /\ start \in Nat
  BY DEF RenderInv, RenderTypeOK
<1>3. /\ r \in Rows \cup Marks /\ queue' \in Seq(Rows \cup Marks)
      /\ Len(queue) \in Nat \ {0} /\ Len(queue') = Len(queue) - 1 /\ r = queue[1]
      /\ \A i \in 1 .. Len(queue') : queue'[i] = queue[i + 1]
  BY <1>1, <1>2, HeadTailProperties, EmptySeq
<1>4. /\ r = FrameEnd => x = "post"
      /\ r = Exit => x = "exited"
      /\ r = Preapply => x = "copy"
      /\ r \in Rows => x \in DrawStates
  <2>1. r \in Rows => r \notin Marks /\ FirstCell(r) \in DrawStates
    BY Constants DEF FirstCell, BlinkOrRest, DrawStates
  <2>. QED  BY <2>1 DEF FrameEnd, Exit, Preapply, Marks
<1>. HIDE DEF r, x
<1>5. \A S : Cardinality(Places(queue', S)) =
              Cardinality(Places(queue, S)) - (IF r \in S THEN 1 ELSE 0)
  BY <1>1, <1>2, PlacesTail DEF r
<1>6. x \in States /\ (x \in InHand <=> r \in Rows)
        /\ (x \in Alive <=> r # Exit) /\ (x = "post" <=> r = FrameEnd)
        /\ (x = "copy" <=> r = Preapply) /\ (x = "exited" <=> r = Exit)
        /\ (r \in Rows <=> r \notin Marks)
  <2>1. r \in Rows \/ r = FrameEnd \/ r = Exit \/ r = Preapply
    BY <1>3 DEF Marks
  <2>2. r \in Rows => r \notin Marks
    BY Constants
  <2>3. CASE r \in Rows
    <3>1. x \in DrawStates /\ r # FrameEnd /\ r # Exit /\ r # Preapply
      BY <1>4, <2>2, <2>3 DEF Marks
    <3>2. x # "post" /\ x # "copy" /\ x # "exited"
      BY <3>1 DEF DrawStates
    <3>. QED  BY <2>2, <2>3, <3>1, <3>2 DEF States, Alive, InHand
  <2>4. CASE r \notin Rows
    <3>1. r \in Marks
      BY <2>1, <2>4 DEF Marks
    <3>2. FrameEnd # Exit /\ FrameEnd # Preapply /\ Exit # Preapply
      BY DEF FrameEnd, Exit, Preapply
    <3>. QED
      BY <1>4, <2>1, <2>4, <3>1, <3>2 DEF States, Alive, InHand, DrawStates
  <2>. QED  BY <2>3, <2>4
<1>7. wpc' \in [Workers -> States]
        /\ \A v \in Workers : wpc'[v] = IF v = w THEN x ELSE wpc[v]
  BY <1>1, <1>2, <1>6
<1>8. row' \in [Workers -> Rows \cup Marks]
        /\ \A v \in Workers : row'[v] = IF v = w THEN r ELSE row[v]
  BY <1>1, <1>2, <1>3
<1>9. RenderTypeOK'
  BY <1>1, <1>3, <1>7, <1>8 DEF RenderInv, RenderTypeOK
<1>10. main # "fill" /\ main # "destroy" /\ main # "gone"
         /\ (main = "idle" => preapplying)
  <2>1. main # "fill"
    BY <1>1 DEF RenderInv, Filling, Main, Nobody
  <2>2. main # "destroy" /\ (main = "idle" => preapplying)
    BY <1>1 DEF RenderInv, Destroying, Idle
  <2>3. "pop" \in Alive
    BY DEF Alive, InHand
  <2>. QED  BY <1>1, <2>1, <2>2, <2>3, WorkerPhase
<1>11. Tokens'
  <2>1. /\ Cardinality(In(wpc, InHand)) \in Nat
        /\ Cardinality(In(wpc', InHand)) = Cardinality(In(wpc, InHand))
              - (IF wpc[w] \in InHand THEN 1 ELSE 0)
              + (IF x \in InHand THEN 1 ELSE 0)
    BY <1>1, <1>6, Moves
  <2>2. wpc[w] \in InHand
    BY <1>1 DEF InHand
  <2>3. Cardinality(Places(queue', Marks)) =
            Cardinality(Places(queue, Marks)) - (IF r \in Marks THEN 1 ELSE 0)
    BY <1>5
  <2>4. start + Cardinality(In(wpc, InHand)) = Cardinality(Places(queue, Marks)) + 0
    BY <1>10 DEF RenderInv, Tokens
  <2>5. Cardinality(Places(queue, Marks)) \in Nat
    BY <1>2, PlacesNone
  <2>6. start' + Cardinality(In(wpc', InHand)) = Cardinality(Places(queue', Marks)) + 0
    <3>1. CASE r \in Marks
      BY <1>1, <1>2, <1>6, <2>1, <2>2, <2>3, <2>4, <2>5, <3>1
    <3>2. CASE r \notin Marks
      BY <1>1, <1>2, <1>6, <2>1, <2>2, <2>3, <2>4, <2>5, <3>2
    <3>. QED  BY <3>1, <3>2
  <2>. QED  BY <1>1, <1>10, <2>6 DEF Tokens
<1>12. Drawn'
  <2>1. main = "idle" => r = Preapply
    <3>1. main = "idle" => queue = <<Preapply>>
      BY <1>1, <1>10 DEF RenderInv, Job
    <3>. QED  BY <1>3, <3>1
  <2>2. main = "join" => r = Exit
    BY <1>3 DEF RenderInv, Leaving
  <2>3. r \in Rows => main = "render"
    <3>1. r \in Rows => r # Preapply /\ r # Exit
      BY <1>6 DEF Marks
    <3>. QED  BY <2>1, <2>2, <3>1, <1>10 DEF RenderInv, RenderTypeOK
  <2>4. x \in DrawStates => r \in Rows
    BY <1>6 DEF InHand
  <2>5. x # "pop"
    <3>1. x \in InHand => r \in Rows /\ x \in DrawStates
      BY <1>4, <1>6
    <3>. QED  BY <3>1 DEF InHand, DrawStates
  <2>. QED  BY <1>1, <1>7, <1>8, <2>3, <2>4, <2>5 DEF RenderInv, Drawn
<1>13. Threaded'
  <2>1. main # "join" => r # Exit
    <3>1. main = "idle" => queue = <<Preapply>>
      BY <1>1, <1>10 DEF RenderInv, Job
    <3>2. main = "render" => r \in Rows \cup {FrameEnd}
      BY <1>3 DEF RenderInv, Rendering
    <3>3. Exit # Preapply /\ Exit # FrameEnd /\ Exit \notin Rows
      BY Constants DEF Exit, Preapply, FrameEnd, Marks
    <3>. QED  BY <1>3, <1>10, <3>1, <3>2, <3>3 DEF RenderInv, RenderTypeOK
  <2>2. main \notin {"join", "gone"} => x # "exited"
    BY <1>6, <2>1
  <2>. QED  BY <1>1, <1>7, <2>2 DEF RenderInv, Threaded
<1>14. CASE main = "idle"
  <2>1. queue = <<Preapply>> /\ NoneIn({"copy", "post"}) /\ done = 0
    BY <1>1, <1>10, <1>14 DEF RenderInv, Job, NoneIn
  <2>2. r = Preapply /\ queue' = <<>> /\ x = "copy"
    BY <1>1, <1>3, <1>4, <2>1
  <2>3. Job'
    BY <1>1, <1>7, <1>14, <2>1, <2>2 DEF Job, NoneIn
  <2>. QED
    BY <1>1, <1>9, <1>10, <1>11, <1>12, <1>13, <1>14, <2>3
    DEF RenderInv, Idle, Filling, Rendering, Destroying, Leaving
<1>15. CASE main = "render"
  <2>1. /\ takes = done + Cardinality(In(wpc, {"post"}))
                        + Cardinality(Places(queue, {FrameEnd}))
        /\ takes # 0 /\ ~preapplying /\ NoneIn({"copy"}) /\ target = frameNo
        /\ \A i \in 1 .. Len(queue) : queue[i] \in Rows \cup {FrameEnd}
        /\ queue[Len(queue)] = FrameEnd
    BY <1>1, <1>15 DEF RenderInv, Rendering
  <2>2. r \in Rows \cup {FrameEnd}
    BY <1>3, <2>1
  <2>3. x # "copy"
    BY <1>6, <2>2 DEF Marks, FrameEnd, Preapply
  <2>4. /\ Cardinality(In(wpc, {"post"})) \in Nat
        /\ Cardinality(In(wpc', {"post"})) = Cardinality(In(wpc, {"post"}))
              - (IF wpc[w] \in {"post"} THEN 1 ELSE 0)
              + (IF x \in {"post"} THEN 1 ELSE 0)
    BY <1>1, <1>6, Moves
  <2>5. Cardinality(Places(queue', {FrameEnd})) =
            Cardinality(Places(queue, {FrameEnd})) - (IF r \in {FrameEnd} THEN 1 ELSE 0)
    BY <1>5
  <2>6. Cardinality(Places(queue, {FrameEnd})) \in Nat
    BY <1>2, PlacesNone
  <2>7. takes' = done' + Cardinality(In(wpc', {"post"}))
                       + Cardinality(Places(queue', {FrameEnd}))
    BY <1>1, <1>2, <1>6, <2>1, <2>4, <2>5, <2>6
  <2>8. \A i \in 1 .. Len(queue') : queue'[i] \in Rows \cup {FrameEnd}
    BY <1>3, <2>1
  <2>9. queue' # <<>> => queue'[Len(queue')] = FrameEnd
    <3>. SUFFICES ASSUME queue' # <<>> PROVE queue'[Len(queue')] = FrameEnd
      OBVIOUS
    <3>1. Len(queue') \in Nat \ {0}
      BY <1>3, EmptySeq
    <3>2. Len(queue') \in 1 .. Len(queue') /\ Len(queue') + 1 = Len(queue)
      BY <1>3, <3>1
    <3>. QED  BY <1>3, <2>1, <3>2
  <2>10. NoneIn({"copy"})'
    BY <1>7, <2>1, <2>3 DEF NoneIn
  <2>11. Rendering'
    BY <1>1, <1>15, <2>1, <2>7, <2>8, <2>9, <2>10 DEF Rendering
  <2>. QED
    BY <1>1, <1>9, <1>11, <1>12, <1>13, <1>15, <2>1, <2>11
    DEF RenderInv, Idle, Job, Filling, Destroying, Leaving
<1>16. CASE main = "join"
  <2>1. /\ ~preapplying /\ NoneIn({"post", "copy"})
        /\ \A i \in 1 .. Len(queue) : queue[i] = Exit
        /\ Cardinality(In(wpc, Alive)) = Cardinality(Places(queue, {Exit}))
    BY <1>16 DEF RenderInv, Leaving
  <2>2. r = Exit /\ x = "exited" /\ \A i \in 1 .. Len(queue') : queue'[i] = Exit
    BY <1>3, <1>4, <2>1
  <2>3. /\ Cardinality(In(wpc, Alive)) \in Nat
        /\ Cardinality(In(wpc', Alive)) = Cardinality(In(wpc, Alive))
              - (IF wpc[w] \in Alive THEN 1 ELSE 0)
              + (IF x \in Alive THEN 1 ELSE 0)
    BY <1>1, <1>6, Moves
  <2>4. wpc[w] \in Alive /\ x \notin Alive
    BY <1>1, <1>6, <2>2 DEF Alive, InHand
  <2>5. Cardinality(Places(queue', {Exit})) =
            Cardinality(Places(queue, {Exit})) - (IF r \in {Exit} THEN 1 ELSE 0)
    BY <1>5
  <2>6. Cardinality(In(wpc', Alive)) = Cardinality(Places(queue', {Exit}))
    BY <2>1, <2>2, <2>3, <2>4, <2>5
  <2>7. NoneIn({"post", "copy"})'
    BY <1>7, <2>1, <2>2 DEF NoneIn
  <2>8. Leaving'
    BY <1>1, <1>16, <2>1, <2>2, <2>6, <2>7 DEF Leaving
  <2>. QED
    BY <1>1, <1>9, <1>11, <1>12, <1>13, <1>16, <2>1, <2>8
    DEF RenderInv, Idle, Job, Filling, Rendering, Destroying
<1>. QED  BY <1>10, <1>14, <1>15, <1>16 DEF RenderInv, RenderTypeOK

-----------------------------------------------------------------------------
(* The theorems *)

LEMMA RenderInitInv ==
    ASSUME RenderInit
    PROVE  RenderInv
<1>1. /\ takes = 0 /\ frameNo = 0 /\ target = 0 /\ queue = <<>> /\ start = 0
      /\ done = 0 /\ preapplying = FALSE /\ timers = 0
      /\ wpc = [w \in Workers |-> IF w \in started THEN "wait" ELSE "exited"]
      /\ wbuf = [w \in Workers |-> 0]
      /\ row = [w \in Workers |-> FrameEnd]
      /\ main \in {"idle", "destroy"}
  BY DEF RenderInit
<1>2. started \subseteq Workers
  <2>1. PICK n \in 0 .. NumWorkers : started = 1 .. n
    BY DEF RenderInit
  <2>. QED  BY <2>1, Constants DEF Workers
<1>3. \A w \in Workers : wpc[w] \in {"wait", "exited"} /\ wpc[w] \in States
        /\ wpc[w] \notin InHand
        /\ (wpc[w] = "exited" <=> w \notin started)
  BY <1>1 DEF States, Alive, InHand, DrawStates
<1>4. RenderTypeOK
  <2>1. FrameEnd \in Marks
    BY DEF Marks
  <2>. QED  BY <1>1, <1>2, <1>3, <2>1, EmptySeq DEF RenderTypeOK
<1>5. Tokens
  <2>1. Cardinality(In(wpc, InHand)) = 0
    BY <1>3, InNobody
  <2>2. Cardinality(Places(queue, Marks)) = 0
    BY <1>1, OnePlace DEF Marks
  <2>. QED  BY <1>1, <2>1, <2>2 DEF Tokens
<1>6. Idle /\ Job /\ Filling /\ Rendering /\ Destroying /\ Leaving
  BY <1>1, <1>3 DEF Idle, Job, Filling, Rendering, Destroying, Leaving, NoneIn
<1>7. Threaded /\ Drawn
  BY <1>1, <1>3 DEF Threaded, Drawn, InHand
<1>. QED  BY <1>4, <1>5, <1>6, <1>7 DEF RenderInv

LEMMA RenderNextInv ==
    ASSUME RenderInv, [RenderNext]_renderVars
    PROVE  RenderInv'
<1>1. CASE UNCHANGED renderVars
  <2>1. UNCHANGED <<main, takes, started, frameNo, target, queue, lock, start, done,
                    preapplying, wpc, wbuf, row, timers>>
    BY <1>1 DEF renderVars, workerVars
  <2>2. RenderTypeOK' /\ Tokens' /\ Threaded' /\ Drawn'
    BY <2>1 DEF RenderInv, RenderTypeOK, Tokens, Threaded, Drawn
  <2>3. Idle' /\ Job' /\ Filling' /\ Rendering' /\ Destroying' /\ Leaving'
    BY <2>1
    DEF RenderInv, Idle, Job, Filling, Rendering, Destroying, Leaving, NoneIn
  <2>. QED  BY <2>2, <2>3 DEF RenderInv
<1>2. CASE EventLoop
  BY <1>2, FrameBeginInv, FrameFillInv, FrameWaitInv, JobBeginInv, SetFontsBlinkInv,
     DestroyInv, JoinInv
  DEF EventLoop
<1>3. CASE \E w \in Workers : Worker(w)
  BY <1>3, TakeInv, ReadBufInv, PopInv, PostDoneInv, JobDoneInv, DrawStepsInv
  DEF Worker
<1>. QED  BY <1>1, <1>2, <1>3 DEF RenderNext

\* The inductive invariant: the posts of the semaphores and the markers in the
\* queue balance, and what is in the queue fits the event loop's phase.
THEOREM RenderInvHolds == RenderSpec => []RenderInv
<1>. QED  BY RenderInitInv, RenderNextInv, PTL DEF RenderSpec

LEMMA InvShares ==
    ASSUME RenderInv
    PROVE  ThreadsShare
<1>1. QueueServed
  <2>1. ASSUME lock = Nobody, NEW w \in Workers, wpc[w] = "pop" PROVE queue # <<>>
    <3>1. main # "fill"
      BY <2>1 DEF RenderInv, Filling, Main, Nobody
    <3>2. wpc[w] \in InHand
      BY <2>1 DEF InHand
    <3>. QED  BY <3>1, <3>2, TokensCount
  <2>2. main = "gone" => queue = <<>>
    <3>. SUFFICES ASSUME main = "gone" PROVE queue = <<>>
      OBVIOUS
    <3>1. Cardinality(In(wpc, Alive)) = 0
      BY InNobody DEF RenderInv, Leaving, NoneIn
    <3>2. queue \in Seq(Rows \cup Marks) /\ Cardinality(Places(queue, {Exit})) = 0
            /\ \A i \in 1 .. Len(queue) : queue[i] = Exit
      BY <3>1 DEF RenderInv, RenderTypeOK, Leaving
    <3>3. \A i \in 1 .. Len(queue) : queue[i] # Exit
      BY <3>2, PlacesNone
    <3>4. queue # <<>> => 1 \in 1 .. Len(queue)
      BY <3>2, EmptySeq
    <3>. QED  BY <3>2, <3>3, <3>4
  <2>3. main = "fill" => queue = <<>>
    BY DEF RenderInv, Filling
  <2>4. main = "idle" /\ ~preapplying => queue = <<>> /\ done = 0
    BY DEF RenderInv, Idle
  <2>. QED  BY <2>1, <2>2, <2>3, <2>4 DEF QueueServed
<1>2. RowsIntoFrame
  <2>1. ASSUME NEW w \in Workers, Drawing(w)
        PROVE  main = "render" /\ wbuf[w] = frameNo
    <3>1. wpc[w] \in DrawStates
      BY <2>1 DEF Drawing, DrawStates
    <3>. QED  BY <3>1 DEF RenderInv, Drawn
  <2>. QED  BY <2>1 DEF RowsIntoFrame
<1>3. OneBlinkTimer
  BY DEF RenderInv, RenderTypeOK, OneBlinkTimer
<1>. QED  BY <1>1, <1>2, <1>3 DEF ThreadsShare

\* A worker never finds the queue empty, nothing of a frame or a job is left when
\* the next one begins, a row is drawn into the buffer of the frame that is being
\* rendered, and the blink timer is created once: for any number of workers.
THEOREM WorkersShare == RenderSpec => []ThreadsShare
<1>1. RenderInv => ThreadsShare
  BY InvShares
<1>. QED  BY <1>1, RenderInvHolds, PTL

-----------------------------------------------------------------------------
(* RenderWorkers implements FrameRows *)

\* The safety part of ImplementsFrameRows.
FrameOfRowsSafe == FrameOfRows!Init /\ [][FrameOfRows!Next]_(FrameOfRows!vars)

\* The workers that draw row r.
Drawers(r) == {w \in Workers : Drawing(w) /\ row[w] = r}

LEMMA HeldCounts ==
    ASSUME RenderInv, NEW r
    PROVE  /\ Held(r) = Cardinality(Drawers(r)) + Cardinality(Places(queue, {r}))
           /\ Cardinality(Drawers(r)) \in Nat
           /\ Cardinality(Places(queue, {r})) \in Nat
           /\ IsFiniteSet(Drawers(r))
           /\ \A w \in Workers : Drawing(w) <=> wpc[w] \in DrawStates
<1>1. queue \in Seq(Rows \cup Marks)
  BY DEF RenderInv, RenderTypeOK
<1>2. Places(queue, {r}) = {i \in DOMAIN queue : queue[i] = r}
  BY <1>1, LenProperties DEF Places
<1>3. IsFiniteSet(Drawers(r))
  <2>1. Drawers(r) \in SUBSET Workers
    BY DEF Drawers
  <2>. QED  BY <2>1, Constants, FS_Subset
<1>4. \A w \in Workers : Drawing(w) <=> wpc[w] \in DrawStates
  BY DEF Drawing, DrawStates
<1>. QED
  BY <1>1, <1>2, <1>3, <1>4, PlacesNone, FS_CardinalityType DEF Held, Drawers

\* Nothing is held of a row but in a frame, nor when no worker is left in it.
LEMMA NothingHeld ==
    ASSUME RenderInv, NEW r \in Rows,
           \/ main # "render"
           \/ queue = <<>> /\ NoneIn(InHand)
    PROVE  Held(r) = 0
<1>1. \A w \in Workers : wpc[w] \notin DrawStates
  BY DEF RenderInv, Drawn, NoneIn, InHand
<1>2. Drawers(r) = {}
  BY <1>1, HeldCounts DEF Drawers
<1>3. \A i \in 1 .. Len(queue) : queue[i] # r
  <2>1. CASE queue = <<>>
    BY <2>1
  <2>2. CASE main = "idle" /\ queue # <<>>
    <3>1. queue = <<Preapply>>
      BY <2>2 DEF RenderInv, Idle, Job
    <3>2. r # Preapply
      BY Constants DEF Marks
    <3>. QED  BY <3>1, <3>2
  <2>3. CASE main \in {"join", "gone"}
    <3>1. r # Exit
      BY Constants DEF Marks
    <3>. QED  BY <2>3, <3>1 DEF RenderInv, Leaving
  <2>. QED
    BY <2>1, <2>2, <2>3 DEF RenderInv, RenderTypeOK, Filling, Destroying
<1>4. Cardinality(Places(queue, {r})) = 0
  BY <1>3, PlacesNone DEF RenderInv, RenderTypeOK
<1>5. Cardinality(Drawers(r)) = 0
  BY <1>2, FS_EmptySet
<1>. QED  BY <1>4, <1>5, HeldCounts

\* A worker's step changes who draws a row by that worker only.
LEMMA DrawersChange ==
    ASSUME RenderInv, RenderInv', NEW w \in Workers, NEW r,
           \A v \in Workers \ {w} : wpc'[v] = wpc[v] /\ row'[v] = row[v]
    PROVE  Cardinality(Drawers(r)') = Cardinality(Drawers(r))
               - (IF wpc[w] \in DrawStates /\ row[w] = r THEN 1 ELSE 0)
               + (IF wpc'[w] \in DrawStates /\ row'[w] = r THEN 1 ELSE 0)
<1>. DEFINE rest == Drawers(r) \ {w}
<1>1. Drawers(r) = {v \in Workers : wpc[v] \in DrawStates /\ row[v] = r}
        /\ Drawers(r)' = {v \in Workers : wpc'[v] \in DrawStates /\ row'[v] = r}
  BY DEF Drawers, Drawing, DrawStates
<1>2. IsFiniteSet(Drawers(r)) /\ IsFiniteSet(rest)
  <2>1. IsFiniteSet(Drawers(r))
    BY HeldCounts
  <2>. QED  BY <2>1, FS_RemoveElement
<1>3. Cardinality(Drawers(r)) \in Nat /\ Cardinality(rest) \in Nat
  BY <1>2, FS_CardinalityType
<1>4. Cardinality(rest) = Cardinality(Drawers(r))
          - (IF wpc[w] \in DrawStates /\ row[w] = r THEN 1 ELSE 0)
  <2>1. w \in Drawers(r) <=> wpc[w] \in DrawStates /\ row[w] = r
    BY <1>1
  <2>. QED  BY <1>2, <1>3, <2>1, FS_RemoveElement
<1>5. Cardinality(Drawers(r)') = Cardinality(rest)
          + (IF wpc'[w] \in DrawStates /\ row'[w] = r THEN 1 ELSE 0)
  <2>1. CASE wpc'[w] \in DrawStates /\ row'[w] = r
    <3>1. Drawers(r)' = rest \cup {w} /\ w \notin rest
      BY <1>1, <2>1
    <3>. QED  BY <1>2, <1>3, <2>1, <3>1, FS_AddElement
  <2>2. CASE ~(wpc'[w] \in DrawStates /\ row'[w] = r)
    <3>1. Drawers(r)' = rest
      BY <1>1, <2>2
    <3>. QED  BY <1>3, <2>2, <3>1
  <2>. QED  BY <2>1, <2>2
<1>. QED  BY <1>3, <1>4, <1>5

\* A frame begins with each of its dirty rows in the queue once.
LEMMA DirtyOnce ==
    ASSUME NEW dirty \in SUBSET Rows, NEW q \in TopToBottom(dirty), NEW r \in Rows
    PROVE  Cardinality(Places(q, {r})) = IF r \in dirty THEN 1 ELSE 0
<1>. DEFINE n == Cardinality(dirty)
<1>1. IsFiniteSet(dirty) /\ n \in Nat
  BY RenderWorkersAssumption, FS_Subset, FS_CardinalityType
<1>2. q \in [1 .. n -> dirty] /\ \A i, j \in 1 .. n : i < j => q[i] < q[j]
  BY DEF TopToBottom
<1>. HIDE DEF n
<1>3. Len(q) = n /\ q \in Seq(dirty)
  BY <1>1, <1>2, SMT
<1>4. \A i \in 1 .. n : q[i] \in Int
  <2>1. dirty \subseteq Int
    BY Constants
  <2>. QED  BY <1>2, <2>1
<1>5. ASSUME NEW i \in 1 .. n, NEW j \in 1 .. n, q[i] = q[j] PROVE i = j
  <2>1. ~(i < j) /\ ~(j < i)
    BY <1>2, <1>4, <1>5
  <2>. QED  BY <1>1, <2>1
<1>6. q \in Injection(1 .. n, dirty)
  BY <1>2, <1>5 DEF Injection, IsInjective
<1>7. q \in Surjection(1 .. n, dirty)
  <2>1. IsFiniteSet(1 .. n) /\ Cardinality(1 .. n) = Cardinality(dirty)
    BY <1>1, FS_Interval DEF n
  <2>. QED  BY <1>1, <1>6, <2>1, FS_Injection
<1>8. CASE r \in dirty
  <2>1. PICK i \in 1 .. n : q[i] = r
    BY <1>7, <1>8 DEF Surjection
  <2>2. Places(q, {r}) = {i}
    BY <1>3, <1>5, <2>1 DEF Places
  <2>. QED  BY <1>8, <2>2, FS_Singleton
<1>9. CASE r \notin dirty
  <2>1. Places(q, {r}) = {}
    BY <1>2, <1>3, <1>9 DEF Places
  <2>. QED  BY <1>9, <2>1, FS_EmptySet
<1>. QED  BY <1>8, <1>9

\* The same, as formulas of one state (which hold in the next state, too).
NoneHeld == main # "render" => \A r \in Rows : Held(r) = 0

LEMMA NoneHeldOutside == RenderInv => NoneHeld
BY NothingHeld DEF NoneHeld

HeldIs == \A r \in Rows :
    /\ Held(r) = Cardinality(Drawers(r)) + Cardinality(Places(queue, {r}))
    /\ Cardinality(Drawers(r)) \in Nat
    /\ Cardinality(Places(queue, {r})) \in Nat

LEMMA HeldIsCounted == RenderInv => HeldIs
BY HeldCounts DEF HeldIs

\* Outside a frame nothing happens to the rows.
LEMMA NoFrameStutters ==
    ASSUME RenderInv, RenderInv', main # "render", main' # "render"
    PROVE  UNCHANGED FrameOfRows!vars
<1>1. NoneHeld
  BY NoneHeldOutside
<1>2. NoneHeld'
  BY NoneHeldOutside, PTL
<1>3. [r \in Rows |-> Held(r)]' = [r \in Rows |-> Held(r)]
  BY <1>1, <1>2 DEF NoneHeld
<1>. QED  BY <1>3 DEF FrameOfRows!vars

\* In a frame, neither the queue's rows nor the workers that draw change.
LEMMA SameHeldStutters ==
    ASSUME RenderInv, RenderInv', (main' = "render") = (main = "render"),
           \A r \in Rows :
              /\ Cardinality(Drawers(r)') = Cardinality(Drawers(r))
              /\ Cardinality(Places(queue', {r})) = Cardinality(Places(queue, {r}))
    PROVE  UNCHANGED FrameOfRows!vars
<1>1. HeldIs
  BY HeldIsCounted
<1>2. HeldIs'
  BY HeldIsCounted, PTL
<1>3. \A r \in Rows : Held(r)' = Held(r)
  BY <1>1, <1>2 DEF HeldIs
<1>4. [r \in Rows |-> Held(r)]' = [r \in Rows |-> Held(r)]
  BY <1>3
<1>. QED  BY <1>4 DEF FrameOfRows!vars

\* The second half of the beginning of a frame is FrameRows' Begin.
LEMMA FillBegins ==
    ASSUME RenderInv, RenderInv', FrameFill
    PROVE  \E dirty \in SUBSET Rows : FrameOfRows!Begin(dirty)
<1>0. PICK dirty \in SUBSET Rows :
        \E work \in Work(dirty) : queue' = queue \o work
  BY DEF FrameFill
<1>1. PICK q \in TopToBottom(dirty) :
        queue' = queue \o (q \o Copies(FrameEnd, NumWorkers))
  BY <1>0 DEF Work
<1>. DEFINE work == q \o Copies(FrameEnd, NumWorkers)
<1>2. main = "fill" /\ main' = "render" /\ wpc' = wpc /\ queue = <<>>
  BY DEF FrameFill, workerVars, RenderInv, Filling
<1>3. work \in Seq(Rows \cup {FrameEnd})
        /\ \A r \in Rows : Places(work, {r}) = Places(q, {r})
  BY WorkPlaces
<1>. HIDE DEF work
<1>4. queue' = work
  <2>1. queue' = <<>> \o work
    BY <1>1, <1>2 DEF work
  <2>. QED  BY <1>3, <2>1, ConcatEmptySeq
<1>5. ASSUME NEW r \in Rows PROVE Cardinality(Drawers(r)') = 0
  <2>1. \A w \in Workers : wpc'[w] \notin DrawStates
    BY <1>2 DEF RenderInv, Drawn
  <2>2. Drawers(r)' = {}
    BY <2>1 DEF Drawers, Drawing, DrawStates
  <2>. QED  BY <2>2, FS_EmptySet
<1>6. HeldIs'
  BY HeldIsCounted, PTL
<1>7. ASSUME NEW r \in Rows PROVE Held(r)' = IF r \in dirty THEN 1 ELSE 0
  <2>1. Cardinality(Places(queue', {r})) = IF r \in dirty THEN 1 ELSE 0
    BY <1>3, <1>4, DirtyOnce
  <2>2. Held(r)' = Cardinality(Drawers(r)') + Cardinality(Places(queue', {r}))
    BY <1>6 DEF HeldIs
  <2>. QED  BY <1>5, <2>1, <2>2
<1>8. [r \in Rows |-> Held(r)]' = [r \in Rows |-> IF r \in dirty THEN 1 ELSE 0]
  BY <1>7
<1>9. FrameOfRows!Begin(dirty)
  BY <1>2, <1>8 DEF FrameOfRows!Begin
<1>. QED  BY <1>9

\* The last "done" is FrameRows' End.
LEMMA WaitEnds ==
    ASSUME RenderInv, RenderInv', FrameWait
    PROVE  FrameOfRows!End \/ UNCHANGED FrameOfRows!vars
<1>1. /\ main = "render" /\ UNCHANGED <<queue, wpc, row>>
      /\ IF takes = 1 THEN main' = "idle" ELSE main' = main
  BY DEF FrameWait, workerVars
<1>2. \A r : Drawers(r)' = Drawers(r)
  BY <1>1 DEF Drawers, Drawing
<1>3. CASE takes = 1
  <2>1. queue = <<>> /\ NoneIn(InHand)
    BY <1>3, LastTaken
  <2>2. \A r \in Rows : Held(r) = 0
    BY <2>1, NothingHeld
  <2>3. NoneHeld'
    BY NoneHeldOutside, PTL
  <2>4. \A r \in Rows : Held(r)' = 0
    BY <1>1, <1>3, <2>3 DEF NoneHeld
  <2>5. [r \in Rows |-> Held(r)]' = [r \in Rows |-> Held(r)]
          /\ [r \in Rows |-> Held(r)] = [r \in Rows |-> 0]
    BY <2>2, <2>4
  <2>6. main' # "render"
    BY <1>1, <1>3
  <2>7. FrameOfRows!End
    BY <1>1, <2>5, <2>6 DEF FrameOfRows!End, FrameOfRows!Nothing
  <2>. QED  BY <2>7
<1>4. CASE takes # 1
  <2>1. main' = main
    BY <1>1, <1>4
  <2>. QED  BY <1>1, <1>2, <2>1, SameHeldStutters
<1>. QED  BY <1>3, <1>4

\* The end of a row is FrameRows' Render; nothing else a worker does shows.
LEMMA RowRendered ==
    ASSUME RenderInv, RenderInv', NEW w \in Workers, RowDone(w)
    PROVE  \E r \in Rows : FrameOfRows!Render(r)
<1>1. /\ wpc[w] = "rest" /\ wpc' = [wpc EXCEPT ![w] = "pop"]
      /\ row' = [row EXCEPT ![w] = FrameEnd] /\ queue' = queue /\ main' = main
  BY DEF RowDone, AtQueue
<1>2. /\ wpc \in [Workers -> States] /\ row \in [Workers -> Rows \cup Marks]
      /\ wpc[w] \in DrawStates
  BY <1>1 DEF RenderInv, RenderTypeOK, DrawStates
<1>3. main = "render" /\ row[w] \in Rows
  BY <1>2 DEF RenderInv, Drawn
<1>4. wpc'[w] = "pop" /\ "pop" \notin DrawStates
        /\ \A v \in Workers \ {w} : wpc'[v] = wpc[v] /\ row'[v] = row[v]
  BY <1>1, <1>2 DEF DrawStates
<1>5. HeldIs
  BY HeldIsCounted
<1>6. HeldIs'
  BY HeldIsCounted, PTL
<1>7. ASSUME NEW r \in Rows
      PROVE  Held(r)' = Held(r) - (IF r = row[w] THEN 1 ELSE 0)
  <2>1. Cardinality(Drawers(r)') = Cardinality(Drawers(r))
            - (IF wpc[w] \in DrawStates /\ row[w] = r THEN 1 ELSE 0)
            + (IF wpc'[w] \in DrawStates /\ row'[w] = r THEN 1 ELSE 0)
    BY <1>4, DrawersChange
  <2>2. Cardinality(Drawers(r)') = Cardinality(Drawers(r))
            - (IF r = row[w] THEN 1 ELSE 0)
    <3>1. Cardinality(Drawers(r)) \in Nat
      BY <1>5 DEF HeldIs
    <3>. QED  BY <1>2, <1>4, <2>1, <3>1
  <2>3. Held(r)' = Cardinality(Drawers(r)') + Cardinality(Places(queue', {r}))
    BY <1>6 DEF HeldIs
  <2>4. /\ Held(r) = Cardinality(Drawers(r)) + Cardinality(Places(queue, {r}))
        /\ Cardinality(Drawers(r)) \in Nat /\ Cardinality(Places(queue, {r})) \in Nat
    BY <1>5 DEF HeldIs
  <2>. QED  BY <1>1, <2>2, <2>3, <2>4
<1>8. Held(row[w]) > 0
  <2>1. w \in Drawers(row[w])
    BY <1>2, HeldCounts DEF Drawers
  <2>2. Cardinality(Drawers(row[w])) # 0
    BY <2>1, HeldCounts, FS_EmptySet
  <2>3. /\ Held(row[w]) = Cardinality(Drawers(row[w])) + Cardinality(Places(queue, {row[w]}))
        /\ Cardinality(Drawers(row[w])) \in Nat
        /\ Cardinality(Places(queue, {row[w]})) \in Nat
    BY <1>3, <1>5 DEF HeldIs
  <2>. QED  BY <2>2, <2>3
<1>. DEFINE left == [r \in Rows |-> Held(r)]
            rest == [r \in Rows |-> Held(r)']
<1>9. rest = [left EXCEPT ![row[w]] = left[row[w]] - 1]
  <2>1. \A r \in Rows : Held(r)' = IF r = row[w] THEN Held(row[w]) - 1 ELSE Held(r)
    <3>. SUFFICES ASSUME NEW r \in Rows
                  PROVE  Held(r)' = IF r = row[w] THEN Held(row[w]) - 1 ELSE Held(r)
      OBVIOUS
    <3>1. /\ Held(r) = Cardinality(Drawers(r)) + Cardinality(Places(queue, {r}))
          /\ Cardinality(Drawers(r)) \in Nat /\ Cardinality(Places(queue, {r})) \in Nat
      BY <1>5 DEF HeldIs
    <3>2. Held(r) \in Nat
      BY <3>1
    <3>. QED  BY <1>7, <3>2
  <2>. QED  BY <1>3, <2>1
<1>10. FrameOfRows!Render(row[w])
  BY <1>1, <1>3, <1>8, <1>9 DEF FrameOfRows!Render
<1>. QED  BY <1>3, <1>10

LEMMA OtherStepsStutter ==
    ASSUME RenderInv, RenderInv', NEW w \in Workers, Worker(w), ~RowDone(w)
    PROVE  UNCHANGED FrameOfRows!vars
<1>1. main' = main /\ wpc[w] # "exited" /\ (wpc[w] = "copy" => main # "render")
  <2>1. main' = main
    BY DEF Worker, Take, ReadBuf, Pop, PostDone, JobDone, CheckTable, AllocTable,
           CheckGlyph, LockGlyph, CreateGlyph, CheckBlink, ArmBlink, RowDone
  <2>2. wpc[w] # "exited"
    BY DEF Worker, Take, ReadBuf, Pop, PostDone, JobDone, CheckTable, AllocTable,
           CheckGlyph, LockGlyph, CreateGlyph, CheckBlink, ArmBlink, RowDone
  <2>. QED  BY <2>1, <2>2, WorkerPhase
<1>2. wpc \in [Workers -> States] /\ row \in [Workers -> Rows \cup Marks]
        /\ queue \in Seq(Rows \cup Marks)
  BY DEF RenderInv, RenderTypeOK
<1>3. HeldIs
  BY HeldIsCounted
<1>4. CASE main # "render"
  BY <1>1, <1>4, NoFrameStutters
<1>5. CASE main = "render" /\ Pop(w)
  <2>. DEFINE r0 == Head(queue)
              x == CASE r0 = FrameEnd -> "post"
                     [] r0 = Exit -> "exited"
                     [] r0 = Preapply -> "copy"
                     [] OTHER -> FirstCell(r0)
  <2>1. /\ wpc[w] = "pop" /\ queue # <<>> /\ queue' = Tail(queue)
        /\ row' = [row EXCEPT ![w] = r0]
        /\ wpc' = [wpc EXCEPT ![w] = x]
    BY <1>5 DEF Pop, Goes
  <2>2. r0 \in Rows \cup {FrameEnd}
    <3>1. r0 = queue[1] /\ 1 \in 1 .. Len(queue)
      BY <1>2, <2>1, EmptySeq, HeadTailProperties
    <3>. QED  BY <1>5, <3>1 DEF RenderInv, Rendering
  <2>3. x \in DrawStates <=> r0 \in Rows
    <3>1. r0 \in Rows => r0 \notin Marks /\ FirstCell(r0) \in DrawStates
      BY Constants DEF FirstCell, BlinkOrRest, DrawStates
    <3>2. FrameEnd \notin Rows /\ "post" \notin DrawStates
      BY Constants DEF Marks, DrawStates
    <3>3. CASE r0 = FrameEnd
      <4>1. x = "post"
        BY <3>3 DEF FrameEnd, Exit, Preapply
      <4>. QED  BY <3>2, <3>3, <4>1
    <3>4. CASE r0 \in Rows
      <4>1. r0 # FrameEnd /\ r0 # Exit /\ r0 # Preapply
        BY <3>1, <3>4 DEF Marks
      <4>2. x = FirstCell(r0)
        BY <4>1
      <4>. QED  BY <3>1, <3>4, <4>2
    <3>. QED  BY <2>2, <3>3, <3>4
  <2>. HIDE DEF r0, x
  <2>4. ASSUME NEW r \in Rows
        PROVE  Cardinality(Places(queue', {r})) =
                   Cardinality(Places(queue, {r})) - (IF r0 = r THEN 1 ELSE 0)
    <3>1. Cardinality(Places(Tail(queue), {r})) =
              Cardinality(Places(queue, {r})) - (IF Head(queue) \in {r} THEN 1 ELSE 0)
      BY <1>2, <2>1, PlacesTail
    <3>. QED  BY <2>1, <3>1 DEF r0
  <2>5. ASSUME NEW r \in Rows
        PROVE  Cardinality(Drawers(r)') =
                   Cardinality(Drawers(r)) + (IF r0 = r THEN 1 ELSE 0)
    <3>1. /\ wpc'[w] = x /\ row'[w] = r0
          /\ \A v \in Workers \ {w} : wpc'[v] = wpc[v] /\ row'[v] = row[v]
      BY <1>2, <2>1
    <3>2. wpc[w] \notin DrawStates
      BY <2>1 DEF DrawStates
    <3>3. Cardinality(Drawers(r)') = Cardinality(Drawers(r))
              - (IF wpc[w] \in DrawStates /\ row[w] = r THEN 1 ELSE 0)
              + (IF wpc'[w] \in DrawStates /\ row'[w] = r THEN 1 ELSE 0)
      BY <3>1, DrawersChange
    <3>4. Cardinality(Drawers(r)) \in Nat
      BY <1>3 DEF HeldIs
    <3>. QED  BY <2>3, <3>1, <3>2, <3>3, <3>4
  <2>6. HeldIs'
    BY HeldIsCounted, PTL
  <2>7. ASSUME NEW r \in Rows PROVE Held(r)' = Held(r)
    <3>1. Held(r)' = Cardinality(Drawers(r)') + Cardinality(Places(queue', {r}))
      BY <2>6 DEF HeldIs
    <3>2. /\ Held(r) = Cardinality(Drawers(r)) + Cardinality(Places(queue, {r}))
          /\ Cardinality(Drawers(r)) \in Nat /\ Cardinality(Places(queue, {r})) \in Nat
      BY <1>3 DEF HeldIs
    <3>. QED  BY <2>4, <2>5, <3>1, <3>2
  <2>8. [r \in Rows |-> Held(r)]' = [r \in Rows |-> Held(r)]
    BY <2>7
  <2>. QED  BY <1>1, <2>8 DEF FrameOfRows!vars
<1>6. CASE main = "render" /\ ~Pop(w)
  <2>1. /\ queue' = queue /\ row' = row
        /\ \E x \in States : wpc' = [wpc EXCEPT ![w] = x]
                              /\ (wpc[w] \in DrawStates <=> x \in DrawStates)
    <3>1. CASE Take(w) \/ ReadBuf(w) \/ PostDone(w)
      <4>1. queue' = queue /\ row' = row /\ wpc[w] \in {"wait", "took", "post"}
              /\ \E x \in {"took", "pop", "wait"} : wpc' = [wpc EXCEPT ![w] = x]
        BY <3>1 DEF Take, ReadBuf, PostDone, Goes, AtQueue
      <4>2. \A x \in {"wait", "took", "post", "pop"} : x \in States /\ x \notin DrawStates
        BY DEF States, Alive, InHand, DrawStates
      <4>. QED  BY <4>1, <4>2
    <3>2. CASE \/ CheckTable(w) \/ AllocTable(w) \/ CheckGlyph(w) \/ LockGlyph(w)
               \/ CreateGlyph(w) \/ CheckBlink(w) \/ ArmBlink(w)
      <4>1. queue' = queue /\ row' = row /\ wpc[w] \in DrawStates
        BY <3>2 DEF CheckTable, AllocTable, CheckGlyph, LockGlyph, CreateGlyph,
                    CheckBlink, ArmBlink, DrawStates
      <4>2. \E x \in {"alloc", "glyph", "lock", "create", "arm", "rest",
                      BlinkOrRest(row[w])} : wpc' = [wpc EXCEPT ![w] = x]
        BY <3>2 DEF CheckTable, AllocTable, CheckGlyph, LockGlyph, CreateGlyph,
                    CheckBlink, ArmBlink, Goes
      <4>3. BlinkOrRest(row[w]) \in DrawStates
        BY DEF BlinkOrRest, DrawStates
      <4>4. \A x \in {"alloc", "glyph", "lock", "create", "arm", "rest",
                      BlinkOrRest(row[w])} : x \in DrawStates /\ x \in States
        BY <4>3 DEF DrawStates, States, Alive, InHand
      <4>. QED  BY <4>1, <4>2, <4>4
    <3>3. ~JobDone(w)
      BY <1>1, <1>6 DEF JobDone
    <3>. QED  BY <1>6, <3>1, <3>2, <3>3 DEF Worker
  <2>2. PICK x \in States : wpc' = [wpc EXCEPT ![w] = x]
                            /\ (wpc[w] \in DrawStates <=> x \in DrawStates)
    BY <2>1
  <2>3. \A v \in Workers : wpc'[v] \in DrawStates <=> wpc[v] \in DrawStates
    BY <1>2, <2>2
  <2>4. ASSUME NEW r PROVE Drawers(r)' = Drawers(r)
    <3>1. \A v \in Workers : Drawing(v) <=> wpc[v] \in DrawStates
      BY DEF Drawing, DrawStates
    <3>2. \A v \in Workers : Drawing(v)' <=> wpc'[v] \in DrawStates
      BY DEF Drawing, DrawStates
    <3>. QED  BY <2>1, <2>3, <3>1, <3>2 DEF Drawers
  <2>. QED  BY <1>1, <2>1, <2>4, SameHeldStutters
<1>. QED  BY <1>4, <1>5, <1>6

LEMMA RefinesStep ==
    ASSUME RenderInv, [RenderNext]_renderVars
    PROVE  [FrameOfRows!Next]_(FrameOfRows!vars)
<1>0. RenderInv'
  BY RenderNextInv
<1>1. CASE UNCHANGED renderVars
  <2>1. main' = main /\ queue' = queue /\ wpc' = wpc /\ row' = row
    BY <1>1 DEF renderVars, workerVars
  <2>2. \A r : Drawers(r)' = Drawers(r)
    BY <2>1 DEF Drawers, Drawing
  <2>. QED  BY <1>0, <2>1, <2>2, SameHeldStutters
<1>2. CASE FrameFill
  BY <1>0, <1>2, FillBegins DEF FrameOfRows!Next
<1>3. CASE FrameWait
  BY <1>0, <1>3, WaitEnds DEF FrameOfRows!Next, FrameOfRows!Progress
<1>4. CASE \/ FrameBegin \/ JobBegin \/ SetFonts \/ Blink \/ Destroy \/ Join
  <2>1. main # "render" /\ main' # "render"
    BY <1>4 DEF FrameBegin, CanBegin, JobBegin, SetFonts, Blink, Destroy, Join
  <2>. QED  BY <1>0, <2>1, NoFrameStutters
<1>5. CASE \E w \in Workers : Worker(w)
  <2>1. PICK w \in Workers : Worker(w)
    BY <1>5
  <2>2. CASE RowDone(w)
    BY <1>0, <2>2, RowRendered DEF FrameOfRows!Next, FrameOfRows!Progress
  <2>3. CASE ~RowDone(w)
    BY <1>0, <2>1, <2>3, OtherStepsStutter
  <2>. QED  BY <2>2, <2>3
<1>. QED  BY <1>1, <1>2, <1>3, <1>4, <1>5 DEF RenderNext, EventLoop

LEMMA RefinesInit ==
    ASSUME RenderInit
    PROVE  FrameOfRows!Init
<1>1. RenderInv /\ main # "render"
  BY RenderInitInv DEF RenderInit
<1>2. \A r \in Rows : Held(r) = 0
  BY <1>1, NothingHeld
<1>3. [r \in Rows |-> Held(r)] = [r \in Rows |-> 0]
  BY <1>2
<1>. QED  BY <1>1, <1>3 DEF FrameOfRows!Init, FrameOfRows!Nothing

\* The workers implement FrameRows (its safety part; that a frame ends is checked
\* by the run): every dirty row of a frame is rendered once, whoever takes it from
\* the queue, and the frame ends after the last, for any number of workers.
THEOREM RowsOnce == RenderSpec => FrameOfRowsSafe
<1>1. RenderInit => FrameOfRows!Init
  BY RefinesInit
<1>2. RenderInv /\ [RenderNext]_renderVars => [FrameOfRows!Next]_(FrameOfRows!vars)
  BY RefinesStep
<1>. QED  BY <1>1, <1>2, RenderInvHolds, PTL DEF RenderSpec, FrameOfRowsSafe

=============================================================================
