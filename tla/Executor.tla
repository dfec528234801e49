------------------------------ MODULE Executor ------------------------------
(***************************************************************************)
(* What BackgroundOperationHandler promises its callers, whatever threads  *)
(* and queues are behind it: a function that is accepted is executed at    *)
(* most once, is not refused later, and one that is refused is never       *)
(* executed.                                                               *)
(***************************************************************************)
CONSTANT Functions

VARIABLE state  \* "new", "accepted", "refused" or "executed"

Init == state = [f \in Functions |-> "new"]

Accept(f) == state[f] = "new" /\ state' = [state EXCEPT ![f] = "accepted"]

Refuse(f) == state[f] = "new" /\ state' = [state EXCEPT ![f] = "refused"]

\* In a thread of the handler, or in the calling thread before run returns.
Execute(f) ==
  state[f] \in {"new", "accepted"} /\ state' = [state EXCEPT ![f] = "executed"]

Next == \E f \in Functions : Accept(f) \/ Refuse(f) \/ Execute(f)

Spec == Init /\ [][Next]_state
=============================================================================
