------------------------------ MODULE EventQueue ------------------------------
(***************************************************************************)
(* What an event queue of the kernel promises to the agents of its         *)
(* priority: events are handled one at a time and in the order they were   *)
(* posted, none is lost and none is made up; an agent may throw away       *)
(* events of its own, whose places are skipped; events of an agent that    *)
(* asked to exit are dropped, and the agent is terminated once, when       *)
(* nothing of it is left.                                                  *)
(***************************************************************************)
EXTENDS Sequences

CONSTANTS
    Edas, Evts,
    NoEda     \* the agent of an event that was thrown away

VARIABLES
    queue,    \* the events that wait, oldest first, with their agents
    running,  \* <<the event being handled>>, or <<>>
    alive,    \* the agents that were started and not terminated
    exiting   \* the agents that asked to exit

vars == <<queue, running, alive, exiting>>

Init == queue = <<>> /\ running = <<>> /\ alive = {} /\ exiting = {}

Start(e, v) ==
    /\ e \notin alive
    /\ alive' = alive \cup {e}
    /\ queue' = Append(queue, [eda |-> e, evt |-> v])
    /\ UNCHANGED <<running, exiting>>

Post(e, v) ==
    /\ e \in alive \ exiting
    /\ queue' = Append(queue, [eda |-> e, evt |-> v])
    /\ UNCHANGED <<running, alive, exiting>>

Dispatch ==
    /\ running = <<>> /\ queue # <<>>
    /\ Head(queue).eda \notin exiting \cup {NoEda}
    /\ running' = <<Head(queue)>>
    /\ queue' = Tail(queue)
    /\ UNCHANGED <<alive, exiting>>

Drop ==
    /\ running = <<>> /\ queue # <<>>
    /\ Head(queue).eda \in exiting \cup {NoEda}
    /\ queue' = Tail(queue)
    /\ UNCHANGED <<running, alive, exiting>>

Return ==
    /\ running # <<>>
    /\ running' = <<>>
    /\ UNCHANGED <<queue, alive, exiting>>

\* The running agent discards one of its own waiting events.
Discard(i) ==
    /\ running # <<>> /\ queue[i].eda = running[1].eda
    /\ queue' = [queue EXCEPT ![i].eda = NoEda]
    /\ UNCHANGED <<running, alive, exiting>>

Exit(e) ==
    /\ e \in alive
    /\ exiting' = exiting \cup {e}
    /\ UNCHANGED <<queue, running, alive>>

Terminate(e) ==
    /\ e \in alive
    /\ \A i \in DOMAIN queue : queue[i].eda # e
    /\ running = <<>> \/ running[1].eda # e
    /\ alive' = alive \ {e}
    /\ exiting' = exiting \ {e}
    /\ UNCHANGED <<queue, running>>

Next ==
    \/ \E e \in Edas, v \in Evts : Start(e, v) \/ Post(e, v)
    \/ Dispatch \/ Drop \/ Return
    \/ \E i \in DOMAIN queue : Discard(i)
    \/ \E e \in Edas : Exit(e) \/ Terminate(e)

Spec == Init /\ [][Next]_vars
=============================================================================
