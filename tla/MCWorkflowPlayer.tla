--------------------------- MODULE MCWorkflowPlayer ---------------------------
(***************************************************************************)
(* Two workflows that callers execute, and two below the first one, of     *)
(* which the lower runs the first once more.                               *)
(***************************************************************************)
EXTENDS WorkflowPlayer, TLC

CONSTANTS outer, other, inner, loop

Plain(k) == [kind |-> k, of |-> NoWorkflow]
Run(w) == [kind |-> "run", of |-> w]

MCSteps == (outer :> <<Plain("click"), Run(inner), Plain("page")>>)
        @@ (other :> <<Plain("page")>>)
        @@ (inner :> <<Plain("plain"), Run(loop)>>)
        @@ (loop :> <<Run(outer)>>)
=============================================================================
