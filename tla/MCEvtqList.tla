------------------------------ MODULE MCEvtqList ------------------------------
(* Model checking the list event queues with concrete priorities. *)
EXTENDS EvtqList, TLC

CONSTANTS lo, also, hi

\* Two edas share the lower queue.
PrioTrio == lo :> 1 @@ also :> 1 @@ hi :> 2
=============================================================================
