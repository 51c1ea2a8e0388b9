---------------------------- MODULE FrameBuffers ----------------------------
(***************************************************************************)
(* The buffers a terminal's frames are rendered into.                      *)
(*                                                                         *)
(* shm.c keeps a chain of shared memory buffers.  A committed buffer is    *)
(* busy until the compositor releases it.  A frame is rendered into a      *)
(* buffer that is not busy, and only what changed is rendered: what the    *)
(* buffer holds must first be brought up to the previous frame.  Its age   *)
(* says how far behind it is.  When the compositor keeps releasing buffers *)
(* late, the previous frame's damage is copied into a released buffer as   *)
(* soon as it is released, by a worker thread, which runs concurrently     *)
(* with the event loop's thread and replaces last_buf.                     *)
(*                                                                         *)
(* The pixels of a buffer are abstracted to the number of the frame it     *)
(* holds, and its damage region dirty[0] to the number of the frame whose  *)
(* changes it covers, or Full.                                             *)
(***************************************************************************)
EXTENDS Integers, FiniteSets

CONSTANTS
    Bufs,           \* struct buffer's, allocated or not
    Sizes,          \* window sizes
    PreapplyAfter,  \* late releases tolerated (10 in grid_render())
    MaxFrames,      \* bound: frames rendered
    None

Full    == 0        \* a damage region that covers the whole buffer
Garbage == -1       \* pixels of no frame: damage applied to the wrong one
New     == 1234     \* the age of a new buffer

ASSUME FrameBuffersAssumption ==
    /\ None \notin Bufs
    /\ PreapplyAfter \in Nat
    /\ MaxFrames \in 1 .. New - 1

VARIABLES
    buf,            \* the buffers' fields (see Buffers)
    alive,          \* buffers that are allocated
    chain,          \* chain->bufs
    deferred,       \* buffers without references that are still busy
    last,           \* term->render.last_buf
    size,           \* the window's size
    frame,          \* frames rendered so far
    late,           \* frames_since_last_immediate_release
    preapply,       \* preapply_last_frame_damage
    job,            \* preapplied_damage.buf, None if there is no job
    pc,             \* where the worker thread is with the job
    window          \* "open", "destroyed", then "gone" with the terminal

vars == <<buf, alive, chain, deferred, last, size, frame, late, preapply, job,
          pc, window>>

Buffers == [ref : Nat, busy : BOOLEAN, age : Nat, size : Sizes,
            holds : Int, dirty : Nat]

AnyBuffer == [ref |-> 0, busy |-> FALSE, age |-> 0,
              size |-> CHOOSE s \in Sizes : TRUE, holds |-> Garbage,
              dirty |-> Full]

Init ==
    /\ buf = [b \in Bufs |-> AnyBuffer]
    /\ alive = {}
    /\ chain = {}
    /\ deferred = {}
    /\ last = None
    /\ size \in Sizes
    /\ frame = 0
    /\ late = 0
    /\ preapply = FALSE
    /\ job = None
    /\ pc = "idle"
    /\ window = "open"

-----------------------------------------------------------------------------
(***************************************************************************)
(* buffer_unref_no_remove_from_chain(), for all the buffers of the chain   *)
(* that lose drop[b] references: a buffer that has none left leaves the    *)
(* chain, and is destroyed, or deferred until it is released.              *)
(***************************************************************************)
Left(drop, b) == buf[b].ref - drop[b]
Unreferenced(drop) == {b \in chain : drop[b] > 0 /\ Left(drop, b) = 0}

Drop(drop) ==
    LET dead == Unreferenced(drop) IN
    /\ chain' = chain \ dead
    /\ deferred' = deferred \cup {b \in dead : buf[b].busy}
    /\ alive' = alive \ {b \in dead : ~buf[b].busy}

Once(S) == [b \in Bufs |-> IF b \in S THEN 1 ELSE 0]
Plus(f, g) == [b \in Bufs |-> f[b] + g[b]]

\* Nothing or last_buf itself, as the set of buffers to drop.
LastBuf == {last} \ {None}

\* render_wait_for_preapply_damage(): the event loop's thread goes on only
\* when the worker has no job.  Faulty variant: it does not wait.
DoNotWait == TRUE
PreapplyDone == job = None

-----------------------------------------------------------------------------
(* shm_get_buffer() and grid_render() *)

Mismatching == {b \in chain : buf[b].size # size}
Reusable    == {b \in chain \ Mismatching : ~buf[b].busy}
Youngest    == {b \in Reusable : \A a \in Reusable : buf[b].age <= buf[a].age}

\* The buffer shm_get_buffer() returns, with its age.  Of several youngest
\* buffers the first in the list is taken, which may be any.
Gets(b) ==
    \/ b \in Youngest
    \/ Reusable = {} /\ b \in Bufs \ alive

AgeOf(b) == IF b \in alive THEN buf[b].age ELSE New

\* Buffers that are still busy grow older.  Faulty variant: they do not.
AgedNever(b) == buf[b].age
Aged(b) == IF b \in chain \ Mismatching /\ buf[b].busy THEN buf[b].age + 1
           ELSE buf[b].age

\* The damage of "from" is copied to a buffer that holds frame "holds".
CopyDamage(holds, from) ==
    IF buf[from].dirty \in {Full, holds + 1} THEN buf[from].holds ELSE Garbage

\* reapply_old_damage(): what a buffer that holds frame "holds" then holds.
\* Faulty variant: older buffers get the last frame's damage only.
ReapplyDamageOnly(holds, age) == CopyDamage(holds, last)
ReapplyOldDamage(holds, age) ==
    IF age > 1 THEN buf[last].holds ELSE CopyDamage(holds, last)

\* grid_render() forces a full repaint without a last_buf of the same size (and
\* once there are margins, which is left out); reapply_old_damage() does, too,
\* if every cell changed.
Comparable == last # None /\ buf[last].size = size
FullRepaint(b, allDirty) == ~Comparable \/ (AgeOf(b) = 1 /\ allDirty)

\* Rendering frame n on top of frame n - 1 gives frame n.
Rendered(b, full) ==
    LET base == IF AgeOf(b) = 0 THEN buf[b].holds
                ELSE ReapplyOldDamage(buf[b].holds, AgeOf(b))
    IN  IF full \/ base = frame THEN frame + 1 ELSE Garbage

\* grid_render(): one frame, from waiting for the worker to the commit.  The
\* buffers that are not reused are dropped, and last_buf, which is replaced.
GridRender ==
    /\ window = "open"
    /\ PreapplyDone
    /\ frame < MaxFrames
    /\ \E b \in Bufs, allDirty \in BOOLEAN :
        /\ Gets(b)
        /\ LET full == FullRepaint(b, allDirty)
               purged == Mismatching \cup (Reusable \ {b})
               drop == Plus(Once(purged), Once(LastBuf))
               behind == Comparable /\ AgeOf(b) > 0
           IN  /\ chain' = (chain \ Unreferenced(drop)) \cup {b}
               /\ alive' = (alive \ {a \in Unreferenced(drop) : ~buf[a].busy})
                            \cup {b}
               /\ deferred' = deferred \cup {a \in Unreferenced(drop) : buf[a].busy}
               /\ buf' = [a \in Bufs |->
                    IF a = b
                    THEN [ref |-> IF b \in alive THEN Left(drop, b) + 1 ELSE 2,
                          busy |-> TRUE, age |-> 0, size |-> size,
                          holds |-> Rendered(b, full),
                          dirty |-> IF full THEN Full ELSE frame + 1]
                    ELSE [buf[a] EXCEPT !.ref = Left(drop, a), !.age = Aged(a)]]
               /\ preapply' = (preapply \/ (behind /\ late >= PreapplyAfter))
               /\ late' = CASE behind /\ late <= PreapplyAfter -> late + 1
                            [] ~behind /\ Comparable /\ ~preapply -> 0
                            [] OTHER -> late
        /\ last' = b
    /\ frame' = frame + 1
    /\ UNCHANGED <<size, job, pc, window>>

-----------------------------------------------------------------------------
(* The compositor *)

\* render_buffer_release_callback() starts a job: b is one frame behind.
StartsJob(b) ==
    /\ buf[b].age = 1
    /\ preapply
    /\ last # None
    /\ buf[last].age = 0
    /\ buf[last].size = buf[b].size
    /\ job = None

\* buffer_release()
BufferRelease(b) ==
    /\ b \in alive
    /\ buf[b].busy
    /\ buf' = [buf EXCEPT ![b].busy = FALSE]
    /\ \/ /\ buf[b].ref = 0
          /\ alive' = alive \ {b}
          /\ deferred' = deferred \ {b}
          /\ UNCHANGED <<job, pc>>
       \/ /\ buf[b].ref > 0
          /\ IF StartsJob(b) THEN job' = b /\ pc' = "queued"
                             ELSE UNCHANGED <<job, pc>>
          /\ UNCHANGED <<alive, deferred>>
    /\ UNCHANGED <<chain, last, size, frame, late, preapply, window>>

-----------------------------------------------------------------------------
(* The worker thread's job (-3), one action per access to what it shares *)

WorkerTake ==
    /\ pc = "queued"
    /\ pc' = IF last # None THEN "copy" ELSE "finish"
    /\ UNCHANGED <<buf, alive, chain, deferred, last, size, frame, late,
                   preapply, job, window>>

\* The damage that is copied depends on the buffer's age.
WorkerCopy ==
    /\ pc = "copy"
    /\ pc' = "age"
    /\ buf' = [buf EXCEPT ![job].holds =
                  CASE buf[job].age = 0 -> @
                    [] buf[job].age = 1 -> CopyDamage(@, last)
                    [] OTHER -> buf[last].holds]
    /\ UNCHANGED <<alive, chain, deferred, last, size, frame, late, preapply,
                   job, window>>

WorkerAge ==
    /\ pc = "age"
    /\ pc' = "unref"
    /\ buf' = [buf EXCEPT ![job].age = 0]
    /\ UNCHANGED <<alive, chain, deferred, last, size, frame, late, preapply,
                   job, window>>

WorkerUnref ==
    /\ pc = "unref"
    /\ pc' = "swap"
    /\ Drop(Once({last}))
    /\ buf' = [buf EXCEPT ![last].ref = @ - 1]
    /\ UNCHANGED <<last, size, frame, late, preapply, job, window>>

\* Faulty variant: the new last_buf is not referenced.
AddRefNot(b) == buf
AddRef(b) == [buf EXCEPT ![b].ref = @ + 1]

WorkerSwap ==
    /\ pc = "swap"
    /\ pc' = "finish"
    /\ buf' = AddRef(job)
    /\ last' = job
    /\ UNCHANGED <<alive, chain, deferred, size, frame, late, preapply, job,
                   window>>

\* Faulty variant: the job is not marked as done.
WorkerFinishSilently ==
    /\ pc = "finish"
    /\ pc' = "idle"
    /\ UNCHANGED <<buf, alive, chain, deferred, last, size, frame, late,
                   preapply, job, window>>
WorkerFinish ==
    /\ pc = "finish"
    /\ pc' = "idle"
    /\ job' = None
    /\ UNCHANGED <<buf, alive, chain, deferred, last, size, frame, late,
                   preapply, window>>

WorkerRuns == WorkerTake \/ WorkerCopy \/ WorkerAge \/ WorkerUnref \/ WorkerSwap
            \/ WorkerFinish

-----------------------------------------------------------------------------
\* render_resize() and, with the size unchanged, delayed_reflow_of_normal_grid():
\* last_buf is given up.
\* Faulty variant: its reference is not.
ForgetLast == UNCHANGED <<chain, deferred, alive, buf>>
UnrefLast ==
    /\ Drop(Once(LastBuf))
    /\ buf' = [b \in Bufs |-> [buf[b] EXCEPT !.ref = Left(Once(LastBuf), b)]]

Resize ==
    /\ window = "open"
    /\ PreapplyDone
    /\ size' \in Sizes
    /\ UnrefLast
    /\ last' = None
    /\ UNCHANGED <<frame, late, preapply, job, pc, window>>

\* wayl_win_destroy(): the chain is purged (shm_purge()).
WinDestroy ==
    /\ window = "open"
    /\ PreapplyDone
    /\ window' = "destroyed"
    /\ Drop(Once(chain))
    /\ buf' = [b \in Bufs |-> [buf[b] EXCEPT !.ref = Left(Once(chain), b)]]
    /\ UNCHANGED <<last, size, frame, late, preapply, job, pc>>

\* term_destroy(): shm_unref(last_buf), and shm_chain_free(), which purges what
\* is left of the chain (nothing, see ChainEmptied).
TermDestroy ==
    /\ window = "destroyed"
    /\ window' = "gone"
    /\ UnrefLast
    /\ UNCHANGED <<last, size, frame, late, preapply, job, pc>>

Next ==
    \/ GridRender
    \/ \E b \in Bufs : BufferRelease(b)
    \/ WorkerRuns
    \/ Resize
    \/ WinDestroy
    \/ TermDestroy

Spec == Init /\ [][Next]_vars

\* The worker thread runs; the compositor releases a buffer it no longer shows;
\* a destroyed window's terminal is destroyed.
Fairness ==
    /\ WF_vars(WorkerRuns)
    /\ \A b \in Bufs : WF_vars(BufferRelease(b))
    /\ WF_vars(TermDestroy)

FairSpec == Spec /\ Fairness

-----------------------------------------------------------------------------
(* Properties *)

\* Type correctness of the chain of buffers and of the pre-apply job, as
\* get_buffer() and the pre-apply worker keep them.
TypeOK ==
    /\ buf \in [Bufs -> Buffers]
    /\ alive \subseteq Bufs
    /\ chain \subseteq alive
    /\ deferred \subseteq alive
    /\ last \in Bufs \cup {None}
    /\ size \in Sizes
    /\ frame \in 0 .. MaxFrames
    /\ late \in 0 .. PreapplyAfter + 1
    /\ preapply \in BOOLEAN
    /\ job \in Bufs \cup {None}
    /\ pc \in {"idle", "queued", "copy", "age", "unref", "swap", "finish"}
    /\ (pc = "idle") <=> (job = None)
    /\ window \in {"open", "destroyed", "gone"}

\* What the compositor shows is the frame that was rendered: damage was never
\* applied to a buffer that held some other frame than the previous one, in
\* whatever order buffers are released, reused, dropped and brought up to date
\* by the worker.
NoTornFrame == \A b \in alive : buf[b].busy => buf[b].holds # Garbage

\* The meaning of a buffer's age, which reapply_old_damage(), the release
\* callback and the worker all rely on: a buffer of age n is n frames behind.
AgeTellsFrame ==
    \A b \in chain : b # job => buf[b].holds = frame - buf[b].age

\* The worker never writes to pixels the compositor may be reading, nor to a
\* buffer that was destroyed, nor reads the buffer it writes to.
JobOwnsBuffer ==
    job # None =>
        /\ job \in chain /\ ~buf[job].busy
        /\ last # None /\ last \in chain
        /\ pc \in {"queued", "copy", "age", "unref"} => job # last

\* One reference for the chain and one for last_buf, and a buffer without any is
\* kept only until the compositor releases it, on the list where
\* buffer_release() expects it.  In particular the worker's shm_unref() never
\* drops the last reference: it neither frees memory nor touches the list of
\* deferred buffers, which the terminals share and no lock protects.
RefsExact ==
    /\ alive = chain \cup deferred
    /\ chain \cap deferred = {}
    /\ \A b \in deferred : buf[b].ref = 0 /\ buf[b].busy
    /\ \A b \in chain :
        buf[b].ref = (IF window = "open" THEN 1 ELSE 0)
                        + (IF b = last /\ pc # "swap" THEN 1 ELSE 0)
    /\ last # None /\ window # "gone" => last \in chain

\* shm_chain_free()'s BUG: "there are buffers remaining; is there a missing
\* call to shm_unref()?"
ChainEmptied == window = "gone" => chain = {}

\* The chain, its references and ages, and the worker's job, all the time.
BuffersKept ==
    TypeOK /\ AgeTellsFrame /\ JobOwnsBuffer /\ RefsExact /\ ChainEmptied

\* When the terminal is gone, the compositor's releases free all its memory.
MemoryFreed == (window = "gone") ~> (alive = {})
=============================================================================
