----------------------------- MODULE MCVsfQueue ------------------------------
(* Model checking the message queue. *)
EXTENDS VsfQueue

\* The kernel task is above all, as it is by default; the receiver is below the
\* tasks that send, take and cancel, or above them.
ReceiverBelow ==
    [c \in Ctxs |-> IF c = Kernel THEN 2 ELSE IF c = Receiver THEN 0 ELSE 1]
ReceiverAbove ==
    [c \in Ctxs |-> IF c = Kernel THEN 2 ELSE IF c = Receiver THEN 1 ELSE 0]
BothPrios == {ReceiverBelow, ReceiverAbove}

\* Bound: once two ends of its wait have crossed, runs are not followed beyond the
\* state in which the receiver begins a wait with wake-ups of an earlier one in
\* its queue, which otherwise become more and more.
NoLeftOverWakeups ==
    late \/ crossed =>
        ~(op[Receiver].kind \in Pends /\ evts[Receiver] # <<>>)
=============================================================================
