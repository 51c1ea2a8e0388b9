------------------------------ MODULE MCFrames ------------------------------
(***************************************************************************)
(* The event loop for TLC (EventLoop), and when it renders a frame         *)
(* (FrameSched).  A behaviour runs one of the two; the other stays as it   *)
(* is initially.                                                           *)
(***************************************************************************)
EXTENDS FrameSched, EventLoop

VARIABLE machine  \* the one that runs

Only(name, A) == machine = name /\ A

MCInit == Init /\ LoopInit /\ machine \in {"loop", "schedule"}

MCNext ==
    /\ UNCHANGED machine
    /\ \/ Only("loop", LoopNext) /\ UNCHANGED vars
       \/ Only("schedule", Next) /\ UNCHANGED loopVars

\* LoopFairness and Fairness, each for the behaviours of its own machine.
MCFairness ==
    /\ WF_loopVars(Only("loop", Poll))
    /\ SF_loopVars(Only("loop", WaitEvents))
    /\ WF_vars(Only("schedule", XdgSurfaceConfigure /\ ~configured))
    /\ WF_vars(Only("schedule", HookRefresh))
    /\ WF_vars(Only("schedule", FrameCallback))
    /\ WF_vars(Only("schedule", UpperTimer))
    /\ WF_vars(Only("schedule", SyncTimeout))

MCSpec == MCInit /\ [][MCNext]_<<vars, loopVars, machine>> /\ MCFairness
=============================================================================
