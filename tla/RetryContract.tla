--------------------------- MODULE RetryContract ----------------------------
(***************************************************************************)
(* What the callers of AntiBlockOrchestrator.execute_with_recovery rely    *)
(* on: their function runs one call at a time, at most MaxRetries times,   *)
(* never again once the execution has ended, and every execution ends.     *)
(***************************************************************************)
EXTENDS Naturals

CONSTANTS Execution, MaxRetries

VARIABLES phase, calls

Init ==
  /\ phase = [e \in Execution |-> "waiting"]
  /\ calls = [e \in Execution |-> 0]

Call(e) ==
  /\ phase[e] = "waiting" /\ calls[e] < MaxRetries[e]
  /\ phase' = [phase EXCEPT ![e] = "calling"]
  /\ calls' = [calls EXCEPT ![e] = @ + 1]

Answer(e) ==
  /\ phase[e] = "calling"
  /\ phase' \in {[phase EXCEPT ![e] = p] : p \in {"waiting", "ended"}}
  /\ UNCHANGED calls

End(e) ==
  /\ phase[e] = "waiting"
  /\ phase' = [phase EXCEPT ![e] = "ended"]
  /\ UNCHANGED calls

Next == \E e \in Execution : Call(e) \/ Answer(e) \/ End(e)

Bounded == Init /\ [][Next]_<<phase, calls>>

Ends == \A e \in Execution : calls[e] > 0 ~> phase[e] = "ended"

Spec == Bounded /\ Ends
=============================================================================
