------------------------------- MODULE VsfSync -------------------------------
(***************************************************************************)
(* vsf_sync_t, __eda/vsf_eda_sync.c: the counting object that semaphores,  *)
(* mutexes, triggers, critical sections and events of the kernel are made  *)
(* of, with timed waits, cancellation and the increase from an interrupt.  *)
(* Tasks and the kernel task preempt each other between the sections under *)
(* vsf_protect_sched, each of which is one action; the events travel       *)
(* through the queue of the task's eda, which refuses an unforced post to  *)
(* a limited eda that is ready (see EvtqArray).                            *)
(***************************************************************************)
EXTENDS Integers, FiniteSets, Sequences, SequencesExt

CONSTANTS
    Tasks,          \* the edas that use the object
    Kernel,         \* the kernel task, __vsf_eda.task
    MaxCount,       \* max_union.bits.max
    Modes,          \* the objects and builds to consider, one of which is fixed
                    \* in the initial state: [Manual, InitCount, EvtqList]
    Timeouts,       \* those each task uses: "try" (0), "timed" (> 0), "forever"
    Cancellers,     \* the tasks that call vsf_eda_sync_cancel
    Resetters,      \* the tasks that call vsf_eda_sync_force_reset
    MaxMsgs,        \* bound: interrupts whose increase waits for the kernel
    KernelHighest   \* the kernel task has the highest priority, the default

ASSUME TaskAssumption == IsFiniteSet(Tasks) /\ Kernel \notin Tasks
ASSUME CountAssumption == MaxCount \in Nat /\ MaxMsgs \in Nat
ASSUME ModeAssumption ==
    /\ Modes \subseteq [Manual : BOOLEAN, InitCount : 0 .. MaxCount,
                        EvtqList : BOOLEAN]
    /\ KernelHighest \in BOOLEAN
ASSUME UseAssumption == /\ Timeouts \in [Tasks -> SUBSET {"try", "timed", "forever"}]
                        /\ Cancellers \subseteq Tasks /\ Resetters \subseteq Tasks

VARIABLES
    mode,           \* the object and the build
    cur,            \* cur_union.bits.cur
    pending,        \* pending_list, oldest first
    evts,           \* the events queued for each task
    st,             \* where each task is in vsf_evtq_poll
    evt,            \* the event that a task in "reason" was dispatched with
    wait,           \* the timeout of the wait a task is in, or "no"
    is_limitted,
    is_sync_got,
    is_to_set_due,
    is_timed,       \* the flags of eda->flag.state
    op,             \* the call a context is in the middle of: [kind, to]
    msgs,           \* increases that interrupts posted to the kernel task
    holders,        \* history: the tasks that obtained a count and keep it
    granted,        \* history: the tasks that were given one and not told yet
    made            \* history: counts that interrupts added, less those reset

vars == <<cur, pending, evts, st, evt, wait, is_limitted, is_sync_got,
          is_to_set_due, is_timed, op, msgs, holders, granted, made>>

flagVars == <<is_limitted, is_sync_got, is_to_set_due, is_timed>>
taskVars == <<evts, st, evt, wait>>
histVars == <<holders, granted, made>>

\* max_union.bits.manual_rst
Manual == mode.Manual
\* __VSF_OS_CFG_EVTQ_LIST, else __VSF_OS_CFG_EVTQ_ARRAY
EvtqList == mode.EvtqList

Ctxs == Tasks \cup {Kernel}
Events == {"SYNC", "TIMER", "CANCEL"}
NoOp == [kind |-> "none", to |-> Kernel]
OpKinds == {"none", "SYNC", "TIMER", "CANCEL", "incloop", "cancelloop"}

TypeOK ==
    /\ mode \in Modes
    /\ cur \in 0 .. MaxCount
    /\ pending \in Seq(Tasks)
    /\ evts \in [Tasks -> Seq(Events)]
    /\ st \in [Tasks -> {"idle", "run", "reason", "reason2", "setdue"}]
    /\ evt \in [Tasks -> Events]
    /\ wait \in [Tasks -> {"no", "timed", "forever"}]
    /\ is_limitted \in [Tasks -> BOOLEAN]
    /\ is_sync_got \in [Tasks -> BOOLEAN]
    /\ is_to_set_due \in [Tasks -> BOOLEAN]
    /\ is_timed \in [Tasks -> BOOLEAN]
    /\ op \in [Ctxs -> [kind : OpKinds, to : Ctxs]]
    /\ msgs \in 0 .. MaxMsgs
    /\ holders \subseteq Tasks /\ granted \subseteq Tasks
    /\ made \in Int

Init ==
    /\ mode \in Modes
    /\ cur = mode.InitCount /\ pending = <<>>
    /\ evts = [t \in Tasks |-> <<>>]
    /\ st = [t \in Tasks |-> "run"]
    /\ evt = [t \in Tasks |-> "SYNC"]
    /\ wait = [t \in Tasks |-> "no"]
    /\ is_limitted = [t \in Tasks |-> FALSE]
    /\ is_sync_got = [t \in Tasks |-> FALSE]
    /\ is_to_set_due = [t \in Tasks |-> FALSE]
    /\ is_timed = [t \in Tasks |-> FALSE]
    /\ op = [c \in Ctxs |-> NoOp]
    /\ msgs = 0
    /\ holders = {} /\ granted = {} /\ made = 0

-----------------------------------------------------------------------------
(* Who may run *)

\* A kernel task of the highest priority is not interrupted by tasks.
TasksMayRun == KernelHighest => op[Kernel].kind = "none"

\* The handler of t runs the application: it waits for nothing.
AtWork(t) == TasksMayRun /\ st[t] = "run" /\ wait[t] = "no" /\ op[t] = NoOp

\* The queue of t refuses an unforced post: the eda is limited, and has an
\* event waiting or is being dispatched.
Ready(t) == evts[t] # <<>> \/ st[t] \in {"run", "reason", "reason2"}
Refused(t) == is_limitted[t] /\ Ready(t)

-----------------------------------------------------------------------------
(* vsf_eda_sync_decrease *)

\* Mutant: the count is not looked at.
Mut_Obtain(t) ==
    /\ AtWork(t) /\ t \notin holders
    /\ pending = <<>>
    /\ cur' = IF Manual THEN cur ELSE cur - 1
    /\ holders' = IF Manual THEN holders ELSE holders \cup {t}
    /\ UNCHANGED <<pending, taskVars, flagVars, op, msgs, granted, made>>

Obtain(t) ==
    /\ AtWork(t) /\ t \notin holders
    /\ cur > 0 /\ pending = <<>>
    /\ cur' = IF Manual THEN cur ELSE cur - 1
    /\ holders' = IF Manual THEN holders ELSE holders \cup {t}
    /\ UNCHANGED <<pending, taskVars, flagVars, op, msgs, granted, made>>

\* Mutant: the list queue sets the timer at once, too.
Mut_SetTimeout(t) ==
    /\ is_limitted' = [is_limitted EXCEPT ![t] = TRUE]
    /\ is_timed' = [is_timed EXCEPT ![t] = TRUE]
    /\ UNCHANGED is_to_set_due

\* __vsf_eda_sync_set_timeout: the list queue puts the timer off until the
\* eda is not ready any more, the array queue sets it at once.
SetTimeout(t) ==
    /\ is_limitted' = [is_limitted EXCEPT ![t] = TRUE]
    /\ IF EvtqList
       THEN is_to_set_due' = [is_to_set_due EXCEPT ![t] = TRUE]
            /\ UNCHANGED is_timed
       ELSE is_timed' = [is_timed EXCEPT ![t] = TRUE]
            /\ UNCHANGED is_to_set_due

\* __vsf_eda_sync_pend, then the caller leaves its handler to wait.
Pend(t, timeout) ==
    /\ AtWork(t) /\ t \notin holders
    /\ ~(cur > 0 /\ pending = <<>>)
    /\ timeout # "try"
    /\ pending' = Append(pending, t)
    /\ wait' = [wait EXCEPT ![t] = timeout]
    /\ IF timeout = "timed" THEN SetTimeout(t)
                            ELSE UNCHANGED <<is_limitted, is_to_set_due, is_timed>>
    /\ UNCHANGED <<cur, evts, st, evt, is_sync_got, op, msgs, histVars>>

-----------------------------------------------------------------------------
(* __vsf_eda_sync_increase_ex and vsf_eda_sync_cancel *)

\* Mutants: the last count is kept; the count is not taken; last in first out.
Mut_GrantNextKeep(c, n) ==
    IF n > 1 /\ pending # <<>>
    THEN LET t == Head(pending) IN
         /\ pending' = Tail(pending)
         /\ is_sync_got' = [is_sync_got EXCEPT ![t] = TRUE]
         /\ cur' = IF Manual THEN n ELSE n - 1
         /\ granted' = IF Manual THEN granted ELSE granted \cup {t}
         /\ op' = [op EXCEPT ![c] = [kind |-> "SYNC", to |-> t]]
    ELSE /\ cur' = n
         /\ op' = [op EXCEPT ![c] = NoOp]
         /\ UNCHANGED <<pending, is_sync_got, granted>>
Mut_GrantNextTwice(c, n) ==
    IF n > 0 /\ pending # <<>>
    THEN LET t == Head(pending) IN
         /\ pending' = Tail(pending)
         /\ is_sync_got' = [is_sync_got EXCEPT ![t] = TRUE]
         /\ cur' = n
         /\ granted' = IF Manual THEN granted ELSE granted \cup {t}
         /\ op' = [op EXCEPT ![c] = [kind |-> "SYNC", to |-> t]]
    ELSE /\ cur' = n
         /\ op' = [op EXCEPT ![c] = NoOp]
         /\ UNCHANGED <<pending, is_sync_got, granted>>
Mut_GrantNextLifo(c, n) ==
    IF n > 0 /\ pending # <<>>
    THEN LET t == Last(pending) IN
         /\ pending' = Front(pending)
         /\ is_sync_got' = [is_sync_got EXCEPT ![t] = TRUE]
         /\ cur' = IF Manual THEN n ELSE n - 1
         /\ granted' = IF Manual THEN granted ELSE granted \cup {t}
         /\ op' = [op EXCEPT ![c] = [kind |-> "SYNC", to |-> t]]
    ELSE /\ cur' = n
         /\ op' = [op EXCEPT ![c] = NoOp]
         /\ UNCHANGED <<pending, is_sync_got, granted>>

\* One turn of the loop of increase, with n in the count: a waiting task is
\* taken from the list and marked, its event is posted after the section.
GrantNext(c, n) ==
    IF n > 0 /\ pending # <<>>
    THEN LET t == Head(pending) IN
         /\ pending' = Tail(pending)
         /\ is_sync_got' = [is_sync_got EXCEPT ![t] = TRUE]
         /\ cur' = IF Manual THEN n ELSE n - 1
         /\ granted' = IF Manual THEN granted ELSE granted \cup {t}
         /\ op' = [op EXCEPT ![c] = [kind |-> "SYNC", to |-> t]]
    ELSE /\ cur' = n
         /\ op' = [op EXCEPT ![c] = NoOp]
         /\ UNCHANGED <<pending, is_sync_got, granted>>

\* A task gives back the count it holds, or sets the event.
Increase(t) ==
    /\ AtWork(t) /\ (Manual \/ t \in holders)
    /\ cur < MaxCount
    /\ GrantNext(t, cur + 1)
    /\ holders' = holders \ {t}
    /\ UNCHANGED <<taskVars, is_limitted, is_to_set_due, is_timed, msgs, made>>

\* VSF_ERR_OVERRUN: the count the task holds is one too many, it is gone.
IncreaseOverrun(t) ==
    /\ AtWork(t) /\ t \in holders
    /\ cur >= MaxCount
    /\ holders' = holders \ {t}
    /\ made' = made - 1
    /\ UNCHANGED <<cur, pending, taskVars, flagVars, op, msgs, granted>>

IncreaseLoop(c) ==
    /\ op[c].kind = "incloop" /\ (c \in Tasks => TasksMayRun)
    /\ GrantNext(c, cur)
    /\ UNCHANGED <<taskVars, is_limitted, is_to_set_due, is_timed, msgs,
                   holders, made>>

\* One turn of the loop of cancel.
CancelNext(c) ==
    IF pending # <<>>
    THEN LET t == Head(pending) IN
         /\ pending' = Tail(pending)
         /\ is_sync_got' = [is_sync_got EXCEPT ![t] = TRUE]
         /\ op' = [op EXCEPT ![c] = [kind |-> "CANCEL", to |-> t]]
    ELSE op' = [op EXCEPT ![c] = NoOp] /\ UNCHANGED <<pending, is_sync_got>>

Cancel(t) ==
    /\ AtWork(t) /\ t \in Cancellers /\ pending # <<>>
    /\ CancelNext(t)
    /\ UNCHANGED <<cur, taskVars, is_limitted, is_to_set_due, is_timed, msgs,
                   histVars>>

CancelLoop(t) ==
    /\ op[t].kind = "cancelloop" /\ TasksMayRun
    /\ CancelNext(t)
    /\ UNCHANGED <<cur, taskVars, is_limitted, is_to_set_due, is_timed, msgs,
                   histVars>>

\* Mutant: increase stops after the first task it wakes.
Mut_PostEvent(c) ==
    /\ op[c].kind \in Events /\ (c \in Tasks => TasksMayRun)
    /\ LET t == op[c].to
           k == op[c].kind
       IN evts' = IF k = "TIMER" /\ Refused(t) THEN evts
                  ELSE [evts EXCEPT ![t] = Append(@, k)]
    /\ op' = [op EXCEPT ![c] = NoOp]
    /\ UNCHANGED <<cur, pending, st, evt, wait, flagVars, msgs, histVars>>

\* The post that increase and cancel make outside the section, with force,
\* and that the kernel task makes for a timer, without.
PostEvent(c) ==
    /\ op[c].kind \in Events /\ (c \in Tasks => TasksMayRun)
    /\ LET t == op[c].to
           k == op[c].kind
       IN /\ evts' = IF k = "TIMER" /\ Refused(t) THEN evts
                     ELSE [evts EXCEPT ![t] = Append(@, k)]
          /\ op' = [op EXCEPT ![c] =
                       IF k = "SYNC" THEN [kind |-> "incloop", to |-> Kernel]
                       ELSE IF k = "CANCEL"
                       THEN [kind |-> "cancelloop", to |-> Kernel] ELSE NoOp]
    /\ UNCHANGED <<cur, pending, st, evt, wait, flagVars, msgs, histVars>>

Reset(t) ==
    /\ AtWork(t) /\ t \in Resetters /\ cur > 0
    /\ cur' = 0
    /\ made' = IF Manual THEN made ELSE made - cur
    /\ UNCHANGED <<pending, taskVars, flagVars, op, msgs, holders, granted>>

-----------------------------------------------------------------------------
(* The dispatch of a waiting task and vsf_eda_sync_get_reason *)

\* The handler returns.  With the list queue, the eda is not ready from here
\* on if it has no event.
HandlerReturn(t) ==
    /\ TasksMayRun /\ st[t] = "run" /\ wait[t] # "no" /\ op[t] = NoOp
    /\ st' = [st EXCEPT ![t] =
                 IF EvtqList /\ evts[t] = <<>> THEN "setdue" ELSE "idle"]
    /\ UNCHANGED <<cur, pending, evts, evt, wait, flagVars, op, msgs, histVars>>

\* vsf_evtq_poll sets the timer that the handler asked for.
SetDue(t) ==
    /\ TasksMayRun /\ st[t] = "setdue"
    /\ is_timed' = [is_timed EXCEPT ![t] = @ \/ is_to_set_due[t]]
    /\ is_to_set_due' = [is_to_set_due EXCEPT ![t] = FALSE]
    /\ st' = [st EXCEPT ![t] = "idle"]
    /\ UNCHANGED <<cur, pending, evts, evt, wait, is_limitted, is_sync_got, op,
                   msgs, histVars>>

Dispatch(t) ==
    /\ TasksMayRun /\ st[t] = "idle" /\ evts[t] # <<>>
    /\ evt' = [evt EXCEPT ![t] = Head(evts[t])]
    /\ evts' = [evts EXCEPT ![t] = Tail(@)]
    /\ st' = [st EXCEPT ![t] = "reason"]
    /\ UNCHANGED <<cur, pending, wait, flagVars, op, msgs, histVars>>

\* The timer came second: VSF_SYNC_PENDING, the task waits on.
ReasonPending(t) ==
    /\ TasksMayRun /\ st[t] = "reason" /\ evt[t] = "TIMER" /\ is_sync_got[t]
    /\ st' = [st EXCEPT ![t] = "run"]
    /\ UNCHANGED <<cur, pending, evts, evt, wait, flagVars, op, msgs, histVars>>

\* Mutant: the latch is not looked at.
Mut_ReasonTimeoutLatch(t) ==
    /\ TasksMayRun /\ st[t] = "reason" /\ evt[t] = "TIMER"
    /\ pending' = Remove(pending, t)
    /\ is_limitted' = [is_limitted EXCEPT ![t] = FALSE]
    /\ wait' = [wait EXCEPT ![t] = "no"]
    /\ st' = [st EXCEPT ![t] = "run"]
    /\ UNCHANGED <<cur, evts, evt, is_sync_got, is_to_set_due, is_timed, op,
                   msgs, histVars>>

\* VSF_SYNC_TIMEOUT: the task leaves the list.
ReasonTimeout(t) ==
    /\ TasksMayRun /\ st[t] = "reason" /\ evt[t] = "TIMER" /\ ~is_sync_got[t]
    /\ \E i \in DOMAIN pending : pending[i] = t /\ pending' = RemoveAt(pending, i)
    /\ is_limitted' = [is_limitted EXCEPT ![t] = FALSE]
    /\ wait' = [wait EXCEPT ![t] = "no"]
    /\ st' = [st EXCEPT ![t] = "run"]
    /\ UNCHANGED <<cur, evts, evt, is_sync_got, is_to_set_due, is_timed, op,
                   msgs, histVars>>

\* __vsf_teda_cancel_timer
ReasonCancelTimer(t) ==
    /\ TasksMayRun /\ st[t] = "reason" /\ evt[t] # "TIMER"
    /\ is_timed' = [is_timed EXCEPT ![t] = FALSE]
    /\ is_to_set_due' = [is_to_set_due EXCEPT ![t] = FALSE]
    /\ st' = [st EXCEPT ![t] = "reason2"]
    /\ UNCHANGED <<cur, pending, evts, evt, wait, is_limitted, is_sync_got, op,
                   msgs, histVars>>

\* Mutant: the latch is cleared for VSF_EVT_SYNC only.
Mut_ReasonGet(t) ==
    /\ TasksMayRun /\ st[t] = "reason2"
    /\ is_sync_got' = [is_sync_got EXCEPT ![t] = @ /\ evt[t] # "SYNC"]
    /\ is_limitted' = [is_limitted EXCEPT ![t] = FALSE]
    /\ wait' = [wait EXCEPT ![t] = "no"]
    /\ st' = [st EXCEPT ![t] = "run"]
    /\ granted' = granted \ {t}
    /\ holders' = IF evt[t] = "SYNC" /\ ~Manual THEN holders \cup {t}
                                                ELSE holders
    /\ UNCHANGED <<cur, pending, evts, evt, is_to_set_due, is_timed, op, msgs,
                   made>>

\* VSF_SYNC_GET or VSF_SYNC_CANCEL
ReasonGet(t) ==
    /\ TasksMayRun /\ st[t] = "reason2"
    /\ is_sync_got' = [is_sync_got EXCEPT ![t] = FALSE]
    /\ is_limitted' = [is_limitted EXCEPT ![t] = FALSE]
    /\ wait' = [wait EXCEPT ![t] = "no"]
    /\ st' = [st EXCEPT ![t] = "run"]
    /\ granted' = granted \ {t}
    /\ holders' = IF evt[t] = "SYNC" /\ ~Manual THEN holders \cup {t}
                                                ELSE holders
    /\ UNCHANGED <<cur, pending, evts, evt, is_to_set_due, is_timed, op, msgs,
                   made>>

-----------------------------------------------------------------------------
(* The kernel task and the interrupts *)

\* A timer is due: the kernel task takes the eda from the timer queue.
KernelTimer(t) ==
    /\ op[Kernel] = NoOp /\ is_timed[t]
    /\ is_timed' = [is_timed EXCEPT ![t] = FALSE]
    /\ op' = [op EXCEPT ![Kernel] = [kind |-> "TIMER", to |-> t]]
    /\ UNCHANGED <<cur, pending, taskVars, is_limitted, is_sync_got,
                   is_to_set_due, msgs, histVars>>

\* vsf_eda_sync_increase_isr
Isr ==
    /\ msgs < MaxMsgs
    /\ msgs' = msgs + 1
    /\ UNCHANGED <<cur, pending, taskVars, flagVars, op, histVars>>

\* VSF_EVT_MESSAGE of __vsf_kernel_evthandler
KernelIncrease ==
    /\ op[Kernel] = NoOp /\ msgs > 0
    /\ msgs' = msgs - 1
    /\ IF cur < MaxCount
       THEN /\ GrantNext(Kernel, cur + 1)
            /\ made' = IF Manual THEN made ELSE made + 1
       ELSE UNCHANGED <<cur, pending, is_sync_got, op, granted, made>>
    /\ UNCHANGED <<taskVars, is_limitted, is_to_set_due, is_timed, holders>>

-----------------------------------------------------------------------------
Use(t) ==
    \/ Obtain(t) \/ \E timeout \in Timeouts[t] : Pend(t, timeout)
    \/ Cancel(t) \/ Reset(t)

Release(t) == Increase(t) \/ IncreaseOverrun(t)

Step(t) ==
    \/ IncreaseLoop(t) \/ CancelLoop(t) \/ PostEvent(t)
    \/ HandlerReturn(t) \/ SetDue(t) \/ Dispatch(t)
    \/ ReasonPending(t) \/ ReasonTimeout(t) \/ ReasonCancelTimer(t)
    \/ ReasonGet(t)

KernelStep ==
    \/ KernelIncrease \/ IncreaseLoop(Kernel) \/ PostEvent(Kernel)
    \/ \E t \in Tasks : KernelTimer(t)

Next == /\ Isr \/ KernelStep \/ \E t \in Tasks : Use(t) \/ Release(t) \/ Step(t)
        /\ UNCHANGED mode

\* A context that is ready runs and a running timer becomes due.  Nobody has to
\* give back a count.
Fairness ==
    /\ WF_vars(KernelStep)
    /\ \A t \in Tasks : /\ SF_vars(KernelTimer(t))
                        /\ SF_vars(Step(t))

Spec == Init /\ [][Next]_<<vars, mode>>
FairSpec == Spec /\ Fairness

-----------------------------------------------------------------------------
(* Properties *)

\* Without manual reset a count that is available is never kept from a task
\* that waits: increase hands it over in the section that adds it, and
\* decrease lets nobody overtake the list.
NoIdleCount == ~Manual /\ pending # <<>> => cur = 0

\* No count is lost or doubled, whatever timeouts, cancels and grants cross:
\* what is available, on its way to a task, or held adds up.
CountsConserved ==
    ~Manual => cur + Cardinality(holders) + Cardinality(granted)
                 = mode.InitCount + made

\* A task that does not wait has no wake-up left over from an earlier wait: a
\* timer that loses against the grant is cancelled or refused.
NoStaleWakeup == \A t \in Tasks : wait[t] = "no" => evts[t] = <<>>

\* The latch is set exactly while one SYNC or CANCEL is on its way to the
\* task, in the hands of the context that took the task from the list, in its
\* queue or in its handler; so a timer event that meets the latch may be
\* ignored, and one that does not may take the task off the list.
Carried(t) ==
    {c \in Ctxs : op[c].kind \in {"SYNC", "CANCEL"} /\ op[c].to = t}
Delivered(t) == {i \in DOMAIN evts[t] : evts[t][i] # "TIMER"}
Handled(t) == IF st[t] = "reason2" \/ (st[t] = "reason" /\ evt[t] # "TIMER")
              THEN 1 ELSE 0
LatchIsOneWakeup ==
    \A t \in Tasks :
        Cardinality(Carried(t)) + Cardinality(Delivered(t)) + Handled(t)
            = IF is_sync_got[t] THEN 1 ELSE 0

\* A waiting task is in the list or has its wake-up under way, never neither
\* and never both.
WaiterIsAccounted ==
    \A t \in Tasks :
        wait[t] # "no" <=> (t \in ToSet(pending)) # is_sync_got[t]

\* Every wait has one wake-up: the place in the list and the latch exclude each
\* other, and the latch stands for one event, whoever carries it.
WakeupsAreExact == LatchIsOneWakeup /\ WaiterIsAccounted

\* With manual reset every task in the list of a set event is being woken: the
\* context that set it is still in the loop of increase.
EventReachesAll ==
    cur > 0 /\ pending # <<>> => \E c \in Ctxs : op[c].kind \in {"SYNC", "incloop"}

\* A wait with a timeout ends.
TimedWaitEnds == \A t \in Tasks : wait[t] = "timed" ~> wait[t] = "no"

\* The list is fair: as long as counts are given to waiting tasks, every task
\* that waits for ever gets one.
WaiterIsServed ==
    \A t \in Tasks :
        []<>(granted # {}) => (wait[t] = "forever" ~> wait[t] = "no")
=============================================================================
