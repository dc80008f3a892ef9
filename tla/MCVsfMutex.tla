------------------------------ MODULE MCVsfMutex ------------------------------
(* Model checking a mutex and the priorities it lends. *)
EXTENDS VsfMutex

CONSTANTS lo, mid, hi, top

\* Four tasks of four priorities: three wait at once, so that one may have to
\* queue between the two others.
PrioQuad == (lo :> 1) @@ (mid :> 2) @@ (hi :> 3) @@ (top :> 4)

\* The lowest takes the mutex only when it is free, with a timeout of 0; one in
\* the middle waits with a timeout, the others without.
MidTimed == [t \in Tasks |-> CASE t = lo  -> {}
                               [] t = mid -> {"timed"}
                               [] OTHER   -> {"forever"}]
=============================================================================
