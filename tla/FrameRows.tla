------------------------------ MODULE FrameRows ------------------------------
(***************************************************************************)
(* What grid_render() promises of the rows of a frame, whoever renders     *)
(* them: every row that was dirty when the frame began is rendered once,   *)
(* into the frame's buffer, and the frame ends (and is committed) only     *)
(* then; and a frame that has begun does end.                              *)
(***************************************************************************)
EXTENDS Naturals

CONSTANT Rows           \* the rows of the screen

VARIABLES
    rendering,          \* a frame is being rendered
    left                \* how often each row is still to be rendered in it

vars == <<rendering, left>>

Nothing == [r \in Rows |-> 0]

Init == ~rendering /\ left = Nothing

Begin(dirty) ==
    /\ ~rendering
    /\ rendering' = TRUE
    /\ left' = [r \in Rows |-> IF r \in dirty THEN 1 ELSE 0]

Render(r) ==
    /\ rendering
    /\ left[r] > 0
    /\ left' = [left EXCEPT ![r] = @ - 1]
    /\ UNCHANGED rendering

End ==
    /\ rendering
    /\ left = Nothing
    /\ rendering' = FALSE
    /\ UNCHANGED left

Progress == End \/ \E r \in Rows : Render(r)

Next == Progress \/ \E dirty \in SUBSET Rows : Begin(dirty)

Spec == Init /\ [][Next]_vars /\ WF_vars(Progress)

==============================================================================
