--------------------------- MODULE EvtqArrayRefines ---------------------------
(***************************************************************************)
(* The array event queue as an implementation of EventQueue.               *)
(***************************************************************************)
EXTENDS EvtqArray, Sequences

\* The number of nodes from head up to tail.
RingLen == IF head <= tail THEN tail - head ELSE tail - head + Size

\* The node that is k nodes behind node i.
Ahead(i, k) == IF i + k < Size THEN i + k ELSE i + k - Size

\* The nodes that wait: those from head to tail, preceded by the one that poll
\* moved head past but has not looked at yet.
FirstWaiting == IF pc = "popped" THEN slot ELSE head
Waiting == RingLen + (IF pc = "popped" THEN 1 ELSE 0)
WaitingNodes == [k \in 1 .. Waiting |-> node[Ahead(FirstWaiting, k - 1)]]

\* The event that poll is about to hand, or has handed, to its handler.
RunningEvent ==
    IF pc = "start" THEN <<[eda |-> eda, evt |-> node[slot].evt]>>
    ELSE IF pc \in {"dispatch", "clean"} THEN <<cur>> ELSE <<>>

Abstract == INSTANCE EventQueue WITH
    queue   <- WaitingNodes,
    running <- RunningEvent,
    alive   <- live,
    exiting <- {e \in live : is_to_exit[e]}

\* The ring implements the abstract queue: in every interleaving of
\* vsf_evtq_poll with the producers, the kills and vsf_evtq_clean_evt, events
\* are handled in the order of __vsf_evtq_post and an eda is terminated once
\* nothing of it is queued or running.
ImplementsEventQueue == Abstract!Spec
=============================================================================
