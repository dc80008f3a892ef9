----------------------------- MODULE MCKernelTimer -----------------------------
(* Model checking the timers of the kernel: two edas. *)
EXTENDS KernelTimer

\* Ticks, or a one-shot timer that refuses the past or fires at once; with either
\* event queue.
AllBuilds ==
    {b \in [Tickless : BOOLEAN, EvtqList : BOOLEAN, SetRefusesPast : BOOLEAN] :
        ~b.Tickless => b.SetRefusesPast}
=============================================================================
