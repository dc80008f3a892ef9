--------------------------- MODULE MCCallbackTimer ---------------------------
(* Model checking three callback timers that tasks, interrupts and their own   *)
(* callbacks add and remove at any time.                                       *)
EXTENDS CallbackTimer
=============================================================================
