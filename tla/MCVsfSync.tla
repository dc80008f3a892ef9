------------------------------ MODULE MCVsfSync ------------------------------
(* Model checking vsf_sync_t. *)
EXTENDS VsfSync

\* Which timeouts the tasks use: both that wait, but for the one that cancels;
\* one task uses both, the others wait for ever or not at all.
TimedOrForever ==
    [t \in Tasks |-> IF t \in Cancellers THEN {"forever"} ELSE {"timed", "forever"}]
OneTimed ==
    LET one == CHOOSE t \in Tasks : TRUE
    IN  [t \in Tasks |-> IF t = one THEN {"timed", "forever"} ELSE {"try", "forever"}]

\* A semaphore with the list queue; an event with the array queue.
Semaphore == [Manual |-> FALSE, InitCount |-> 1, EvtqList |-> TRUE]
Event == [Manual |-> TRUE, InitCount |-> 0, EvtqList |-> FALSE]
SemaphoreAndEvent == {Semaphore, Event}
OnlySemaphore == {Semaphore}

Symmetry == Permutations(Tasks \ (Cancellers \cup Resetters))
=============================================================================
