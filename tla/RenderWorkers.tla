---------------------------- MODULE RenderWorkers ----------------------------
(***************************************************************************)
(* The render threads of a terminal.                                       *)
(*                                                                         *)
(* grid_render() puts the numbers of the dirty rows in a queue, then one   *)
(* end marker per worker, and posts the semaphore "start" once per worker; *)
(* it goes on when "done" was posted as often.  Nothing ties a post to a   *)
(* worker: a fast worker may take the posts, the rows and the end markers  *)
(* of a slow one.  The same queue carries the job that copies old damage   *)
(* (-3, one post) and the order to exit (-2, one post per worker).         *)
(*                                                                         *)
(* Two things are shared by the workers while they render cells: the table *)
(* of custom glyphs, filled on first use, and the blink timer, armed on    *)
(* first use.                                                              *)
(*                                                                         *)
(* A critical section is one action, unless somebody can see that it is    *)
(* not: "start" is posted before the queue is filled.                      *)
(***************************************************************************)
EXTENDS Integers, FiniteSets, Sequences

CONSTANTS
    NumWorkers,     \* term->render.workers.count
    Rows,           \* rows of the screen
    GlyphRows,      \* rows with a custom (box drawing) glyph
    BlinkRows,      \* rows with a blinking cell
    MaxRendered     \* bound: frames rendered

ASSUME RenderWorkersAssumption ==
    /\ NumWorkers \in Nat \ {0}
    /\ Rows \subseteq Nat /\ IsFiniteSet(Rows)
    /\ GlyphRows \subseteq Rows /\ BlinkRows \subseteq Rows
    /\ MaxRendered \in Nat

Workers == 1 .. NumWorkers

FrameEnd == -1      \* queue entries that are not rows
Exit     == -2
Preapply == -3
Main     == 0       \* the event loop's thread, as an owner of the lock
Nobody   == -1

VARIABLES
    main,           \* where the event loop's thread is
    takes,          \* posts of "done" it still has to take
    started,        \* workers whose thread was created
    frameNo,        \* the frame being rendered, or the last one
    target,         \* workers.buf: a frame's number, 0 for NULL
    queue, lock, start, done,
    preapplying,    \* preapplied_damage.buf # NULL
    wpc,            \* where each worker is
    wbuf,           \* the buffer it read when it started
    row,            \* the row it renders
    tables,         \* glyph tables allocated since the fonts were loaded
    table,          \* the table in use, 0 for NULL
    seen,           \* the table a worker is about to store a glyph in
    glyphs,         \* tables with a glyph in them
    timers          \* blink timers created while there is one

workerVars == <<wpc, wbuf, row, seen>>
glyphVars == <<tables, table, glyphs>>
renderVars == <<main, takes, started, frameNo, target, queue, lock, start, done,
                preapplying, workerVars, glyphVars, timers>>

\* initialize_render_workers(): creating a thread may fail; term_init() then
\* destroys the terminal with the threads that run.
RenderInit ==
    /\ started \in {1 .. n : n \in 0 .. NumWorkers}
    /\ main = IF started = Workers THEN "idle" ELSE "destroy"
    /\ takes = 0 /\ frameNo = 0 /\ target = 0
    /\ queue = <<>> /\ lock = Nobody /\ start = 0 /\ done = 0
    /\ preapplying = FALSE
    /\ wpc = [w \in Workers |-> IF w \in started THEN "wait" ELSE "exited"]
    /\ wbuf = [w \in Workers |-> 0]
    /\ row = [w \in Workers |-> FrameEnd]
    /\ seen = [w \in Workers |-> 0]
    /\ tables = 0 /\ table = 0 /\ glyphs = {}
    /\ timers = 0

Copies(marker, n) == [i \in 1 .. n |-> marker]

-----------------------------------------------------------------------------
(* The event loop's thread *)

\* grid_render(), first half: it waits for the pre-apply job, then takes the
\* lock and posts "start" before anything is in the queue.
\* Faulty variant: it does not wait for the job.
FrameBeginAtOnce(n) == main = "idle" /\ n < MaxRendered
CanBegin(n) == main = "idle" /\ n < MaxRendered /\ ~preapplying

FrameBegin ==
    /\ CanBegin(frameNo)
    /\ lock = Nobody
    /\ main' = "fill"
    /\ lock' = Main
    /\ frameNo' = frameNo + 1
    /\ target' = frameNo + 1
    /\ start' = start + NumWorkers
    /\ UNCHANGED <<takes, started, queue, done, preapplying, workerVars,
                   glyphVars, timers>>

\* grid_render(), second half: the dirty rows from top to bottom and an end
\* marker per worker.  Faulty variant: one end marker for all of them.
TopToBottom(dirty) ==
    {q \in [1 .. Cardinality(dirty) -> dirty] :
        \A i, j \in DOMAIN q : i < j => q[i] < q[j]}
OneMarker(dirty) == {q \o <<FrameEnd>> : q \in TopToBottom(dirty)}
Work(dirty) == {q \o Copies(FrameEnd, NumWorkers) : q \in TopToBottom(dirty)}

\* The frame ends when every worker posted "done".  Faulty variant: when one did.
FirstDone == 1
AllDone == NumWorkers

FrameFill ==
    /\ main = "fill"
    /\ main' = "render"
    /\ takes' = AllDone
    /\ lock' = Nobody
    /\ \E dirty \in SUBSET Rows : \E work \in Work(dirty) : queue' = queue \o work
    /\ UNCHANGED <<started, frameNo, target, start, done, preapplying,
                   workerVars, glyphVars, timers>>

\* sem_wait(done), once per worker; buf is cleared after the last.
FrameWait ==
    /\ main = "render"
    /\ done > 0
    /\ done' = done - 1
    /\ takes' = takes - 1
    /\ IF takes = 1 THEN main' = "idle" /\ target' = 0
                    ELSE UNCHANGED <<main, target>>
    /\ UNCHANGED <<started, frameNo, queue, lock, start, preapplying,
                   workerVars, glyphVars, timers>>

\* render_buffer_release_callback(): between frames, if there is a last frame
\* and no job yet.
JobBegin ==
    /\ main = "idle"
    /\ frameNo > 0
    /\ ~preapplying
    /\ lock = Nobody
    /\ preapplying' = TRUE
    /\ start' = start + 1
    /\ queue' = Append(queue, Preapply)
    /\ UNCHANGED <<main, takes, started, frameNo, target, lock, done,
                   workerVars, glyphVars, timers>>

\* term_set_fonts() frees the custom glyphs (free_custom_glyphs()); it runs in
\* the event loop's thread, between frames.
SetFonts ==
    /\ main = "idle"
    /\ table # 0
    /\ table' = 0
    /\ tables' = 0
    /\ glyphs' = {}
    /\ UNCHANGED <<main, takes, started, frameNo, target, queue, lock, start,
                   done, preapplying, workerVars, timers>>

\* fdm_blink(): no cell blinks any more, the timer is deleted.
Blink ==
    /\ main = "idle"
    /\ timers > 0
    /\ timers' = 0
    /\ UNCHANGED <<main, takes, started, frameNo, target, queue, lock, start,
                   done, preapplying, workerVars, glyphVars>>

\* term_destroy(): the window is gone, so the job is done (wayl_win_destroy()
\* waits for it).  The threads that run are told to exit.
\* Faulty variant: one of them is.
OneThread == IF started = {} THEN 0 ELSE 1
Threads == Cardinality(started)

Destroy ==
    /\ main \in {"idle", "destroy"}
    /\ ~preapplying
    /\ lock = Nobody
    /\ main' = "join"
    /\ start' = start + Threads
    /\ queue' = queue \o Copies(Exit, Threads)
    /\ UNCHANGED <<takes, started, frameNo, target, lock, done, preapplying,
                   workerVars, glyphVars, timers>>

\* thrd_join() of every thread.
Join ==
    /\ main = "join"
    /\ \A w \in Workers : wpc[w] = "exited"
    /\ main' = "gone"
    /\ UNCHANGED <<takes, started, frameNo, target, queue, lock, start, done,
                   preapplying, workerVars, glyphVars, timers>>

EventLoop == FrameBegin \/ FrameFill \/ FrameWait \/ JobBegin \/ SetFonts
                \/ Blink \/ Destroy \/ Join

-----------------------------------------------------------------------------
(* A worker, render_worker_thread() *)

AtQueue(w) == wpc' = [wpc EXCEPT ![w] = "pop"]
Goes(w, where) == wpc' = [wpc EXCEPT ![w] = where]

\* What comes first in a row: a custom glyph, a blinking cell, or neither.
BlinkOrRest(r) == IF r \in BlinkRows THEN "blink" ELSE "rest"
FirstCell(r) == IF r \in GlyphRows THEN "table" ELSE BlinkOrRest(r)

Take(w) ==
    /\ wpc[w] = "wait"
    /\ start > 0
    /\ start' = start - 1
    /\ Goes(w, "took")
    /\ UNCHANGED <<main, takes, started, frameNo, target, queue, lock, done,
                   preapplying, wbuf, row, seen, glyphVars, timers>>

ReadBuf(w) ==
    /\ wpc[w] = "took"
    /\ wbuf' = [wbuf EXCEPT ![w] = target]
    /\ AtQueue(w)
    /\ UNCHANGED <<main, takes, started, frameNo, target, queue, lock, start,
                   done, preapplying, row, seen, glyphVars, timers>>

Pop(w) ==
    /\ wpc[w] = "pop"
    /\ lock = Nobody
    /\ queue # <<>>
    /\ queue' = Tail(queue)
    /\ LET r == Head(queue) IN
        /\ row' = [row EXCEPT ![w] = r]
        /\ Goes(w, CASE r = FrameEnd -> "post"
                     [] r = Exit -> "exited"
                     [] r = Preapply -> "copy"
                     [] OTHER -> FirstCell(r))
    /\ UNCHANGED <<main, takes, started, frameNo, target, lock, start, done,
                   preapplying, wbuf, seen, glyphVars, timers>>

PostDone(w) ==
    /\ wpc[w] = "post"
    /\ done' = done + 1
    /\ Goes(w, "wait")
    /\ UNCHANGED <<main, takes, started, frameNo, target, queue, lock, start,
                   preapplying, wbuf, row, seen, glyphVars, timers>>

\* The pre-apply job; what it does to the buffers is FrameBuffers' subject.
JobDone(w) ==
    /\ wpc[w] = "copy"
    /\ preapplying' = FALSE
    /\ Goes(w, "wait")
    /\ UNCHANGED <<main, takes, started, frameNo, target, queue, lock, start,
                   done, wbuf, row, seen, glyphVars, timers>>

\* render_cell(): the table of glyphs is allocated without the lock.
CheckTable(w) ==
    /\ wpc[w] = "table"
    /\ Goes(w, IF table = 0 THEN "alloc" ELSE "glyph")
    /\ UNCHANGED <<main, takes, started, frameNo, target, queue, lock, start,
                   done, preapplying, wbuf, row, seen, glyphVars, timers>>

AllocTable(w) ==
    /\ wpc[w] = "alloc"
    /\ tables' = tables + 1
    /\ table' = tables + 1
    /\ Goes(w, "glyph")
    /\ UNCHANGED <<main, takes, started, frameNo, target, queue, lock, start,
                   done, preapplying, wbuf, row, seen, glyphs, timers>>

\* The glyph is looked up without the lock, and again with it.
CheckGlyph(w) ==
    /\ wpc[w] = "glyph"
    /\ Goes(w, IF table \in glyphs THEN BlinkOrRest(row[w]) ELSE "lock")
    /\ UNCHANGED <<main, takes, started, frameNo, target, queue, lock, start,
                   done, preapplying, wbuf, row, seen, glyphVars, timers>>

LockGlyph(w) ==
    /\ wpc[w] = "lock"
    /\ lock = Nobody
    /\ IF table \in glyphs
       THEN Goes(w, BlinkOrRest(row[w])) /\ UNCHANGED <<lock, seen>>
       ELSE /\ Goes(w, "create")
            /\ lock' = w
            /\ seen' = [seen EXCEPT ![w] = table]
    /\ UNCHANGED <<main, takes, started, frameNo, target, queue, start, done,
                   preapplying, wbuf, row, glyphVars, timers>>

\* (*arr)[idx] = box_drawing(): *arr is read before or after the call.
CreateGlyph(w) ==
    /\ wpc[w] = "create"
    /\ \E t \in {seen[w], table} : glyphs' = glyphs \cup {t}
    /\ lock' = Nobody
    /\ Goes(w, BlinkOrRest(row[w]))
    /\ UNCHANGED <<main, takes, started, frameNo, target, queue, start, done,
                   preapplying, wbuf, row, seen, tables, table, timers>>

CheckBlink(w) ==
    /\ wpc[w] = "blink"
    /\ Goes(w, IF timers = 0 THEN "arm" ELSE "rest")
    /\ UNCHANGED <<main, takes, started, frameNo, target, queue, lock, start,
                   done, preapplying, wbuf, row, seen, glyphVars, timers>>

\* term_arm_blink_timer(), called with the lock.  Faulty variant: it relies on
\* the caller's check.
ArmUnchecked == timers + 1
Armed == IF timers > 0 THEN timers ELSE 1

ArmBlink(w) ==
    /\ wpc[w] = "arm"
    /\ lock = Nobody
    /\ timers' = Armed
    /\ Goes(w, "rest")
    /\ UNCHANGED <<main, takes, started, frameNo, target, queue, lock, start,
                   done, preapplying, wbuf, row, seen, glyphVars>>

\* The end of render_row().
RowDone(w) ==
    /\ wpc[w] = "rest"
    /\ row' = [row EXCEPT ![w] = FrameEnd]
    /\ AtQueue(w)
    /\ UNCHANGED <<main, takes, started, frameNo, target, queue, lock, start,
                   done, preapplying, wbuf, seen, glyphVars, timers>>

Worker(w) ==
    \/ Take(w) \/ ReadBuf(w) \/ Pop(w) \/ PostDone(w) \/ JobDone(w)
    \/ CheckTable(w) \/ AllocTable(w) \/ CheckGlyph(w) \/ LockGlyph(w)
    \/ CreateGlyph(w) \/ CheckBlink(w) \/ ArmBlink(w) \/ RowDone(w)

RenderNext == EventLoop \/ \E w \in Workers : Worker(w)

RenderSpec == RenderInit /\ [][RenderNext]_renderVars

\* Threads run, and grid_render() and term_destroy() do not return early.
RenderFairness ==
    /\ WF_renderVars(FrameFill \/ FrameWait \/ Join)
    /\ \A w \in Workers : WF_renderVars(Worker(w))

RenderFairSpec == RenderSpec /\ RenderFairness

-----------------------------------------------------------------------------
(* Properties *)

Drawing(w) == wpc[w] \in {"table", "alloc", "glyph", "lock", "create", "blink",
                          "arm", "rest"}

\* No worker finds the queue empty, though posts, rows and end markers may go to
\* other workers than they were meant for; and nothing is left of a frame when
\* the next one, a job or the exit begins (the code asserts all of it).
QueueServed ==
    /\ lock = Nobody => \A w \in Workers : wpc[w] = "pop" => queue # <<>>
    /\ main \in {"fill", "gone"} => queue = <<>>
    /\ main = "idle" /\ ~preapplying => queue = <<>> /\ done = 0

\* A row is rendered into the buffer of the frame that is being rendered: never
\* into an earlier frame's buffer, nor after the frame was committed.
RowsIntoFrame ==
    \A w \in Workers : Drawing(w) => main = "render" /\ wbuf[w] = frameNo

\* The workers arm the blink timer concurrently; it is created once (a second
\* one would never be deleted).
OneBlinkTimer == timers <= 1

\* What the threads share: none of them finds it in another's hands.
ThreadsShare == QueueServed /\ RowsIntoFrame /\ OneBlinkTimer

\* The queue, the semaphores and the workers implement a frame's rows.
Held(r) == Cardinality({w \in Workers : Drawing(w) /\ row[w] = r})
            + Cardinality({i \in DOMAIN queue : queue[i] = r})

FrameOfRows == INSTANCE FrameRows WITH
    rendering <- main = "render",
    left <- [r \in Rows |-> Held(r)]

ImplementsFrameRows == FrameOfRows!Spec

\* The threads of a destroyed terminal exit, and are joined.
Joined == (main = "join") ~> (main = "gone")

==============================================================================
