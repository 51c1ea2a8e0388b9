----------------------------- MODULE MCBuffers ------------------------------
(***************************************************************************)
(* Rendering for TLC: the buffers frames are rendered into (FrameBuffers), *)
(* and the threads that render one (RenderWorkers).  A behaviour runs one  *)
(* of the two; the other stays as it is initially.                         *)
(***************************************************************************)
EXTENDS FrameBuffers, RenderWorkers

VARIABLE machine  \* the one that runs

Only(name, A) == machine = name /\ A

MCInit ==
    /\ Init /\ RenderInit
    /\ machine \in {"buffers", "threads"}
    /\ machine = "buffers" => started = Workers
    /\ machine = "threads" => size = CHOOSE s \in Sizes : TRUE

MCNext ==
    /\ UNCHANGED machine
    /\ \/ Only("buffers", Next) /\ UNCHANGED renderVars
       \/ Only("threads", RenderNext) /\ UNCHANGED vars

\* Fairness and RenderFairness, each for the behaviours of its own machine.
MCFairness ==
    /\ WF_vars(Only("buffers", WorkerRuns))
    /\ \A b \in Bufs : WF_vars(Only("buffers", BufferRelease(b)))
    /\ WF_vars(Only("buffers", TermDestroy))
    /\ WF_renderVars(Only("threads", FrameFill \/ FrameWait \/ Join))
    /\ \A w \in Workers : WF_renderVars(Only("threads", Worker(w)))

MCSpec == MCInit /\ [][MCNext]_<<vars, renderVars, machine>> /\ MCFairness
=============================================================================
