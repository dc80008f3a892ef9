----------------------------- MODULE KernelTimer -----------------------------
(***************************************************************************)
(* The timers of the kernel, __eda/vsf_eda_timer.c, and the VSF_EVT_TIMER  *)
(* branch of the kernel task: a queue of edas sorted by due, from which    *)
(* the kernel task takes those that are due; in tickless mode a one-shot   *)
(* system timer is set for the head of the queue, in tick mode a periodic  *)
(* interrupt wakes the kernel task.  The kernel task has the highest       *)
(* priority; callback timers are not built in, and the tick mode is the    *)
(* one in which nothing is programmed.  vsf_protect_sched keeps tasks and  *)
(* the kernel task apart, and never the system timer.                      *)
(***************************************************************************)
EXTENDS Integers, FiniteSets, Sequences, SequencesExt

CONSTANTS
    Tedas,           \* the edas that use timers
    Kernel,          \* the kernel task
    NoCtx,           \* no context
    MaxTick,         \* bound: the last tick
    Delays,          \* the ticks that timers are set for
    MaxMsgs,         \* bound: other events in the queue of the kernel task
    Builds           \* the configurations to consider, one of which is fixed
                     \* in the initial state

ASSUME TedaAssumption == /\ IsFiniteSet(Tedas) /\ Kernel \notin Tedas
                         /\ NoCtx \notin Tedas \cup {Kernel}
ASSUME TickAssumption == /\ MaxTick \in Nat \ {0} /\ MaxMsgs \in Nat
                         /\ Delays \subseteq Nat \ {0}
ASSUME BuildAssumption ==
    Builds \subseteq [Tickless : BOOLEAN, EvtqList : BOOLEAN,
                      SetRefusesPast : BOOLEAN]

VARIABLES
    build,       \* the configuration
    now,         \* vsf_systimer_get_tick()
    timq,        \* __vsf_eda.timer.timq
    due,         \* teda->due
    is_timed,    \* eda->flag.state.is_timed
    evts,        \* the VSF_EVT_TIMERs queued for each eda
    pc,          \* where each eda is in a call of the timer functions
    kq,          \* the events queued for the kernel task
    kpc,         \* where the kernel task is
    teda,        \* its local teda
    owner,       \* the context under vsf_protect_sched between two steps
    armed,       \* the due the system timer will fire at, or NoDue
    pre_tick,
    processing,  \* __vsf_eda.timer
    wants,       \* history: a timer was asked for, and not seen or cancelled
    overlooked   \* history: the last update left out a due that had passed

vars == <<now, timq, due, is_timed, evts, pc, kq, kpc, teda, owner, armed,
          pre_tick, processing, wants, overlooked>>

queueVars == <<timq, due, is_timed>>
timerVars == <<armed, pre_tick, processing>>
histVars == <<wants, overlooked>>
kernelVars == <<kq, kpc, teda>>

\* VSF_KERNEL_CFG_TIMER_MODE_TICKLESS, else ..._TICK
Tickless == build.Tickless
\* __VSF_OS_CFG_EVTQ_LIST, else __VSF_OS_CFG_EVTQ_ARRAY
EvtqList == build.EvtqList
\* vsf_systimer_set fails for a due that has passed.
SetRefusesPast == build.SetRefusesPast

Ticks == 1 .. MaxTick
NoDue == 0
Ctxs == Tedas \cup {Kernel}

TypeOK ==
    /\ build \in Builds
    /\ now \in Ticks
    /\ timq \in Seq(Tedas)
    /\ due \in [Tedas -> Ticks \cup {NoDue}]
    /\ is_timed \in [Tedas -> BOOLEAN]
    /\ evts \in [Tedas -> Nat]
    /\ pc \in [Tedas -> {"idle", "insert", "update", "check", "post", "clean"}]
    /\ kq \in Seq({"TIMER", "MESSAGE"})
    /\ kpc \in {"idle", "timer", "expired", "update", "check", "post"}
    /\ teda \in Tedas \cup {NoCtx}
    /\ owner \in Ctxs \cup {NoCtx}
    /\ armed \in Ticks \cup {NoDue} /\ pre_tick \in Ticks \cup {NoDue}
    /\ processing \in BOOLEAN
    /\ wants \subseteq Tedas /\ overlooked \in BOOLEAN

Init ==
    /\ build \in Builds
    /\ now = 1 /\ timq = <<>>
    /\ due = [t \in Tedas |-> NoDue]
    /\ is_timed = [t \in Tedas |-> FALSE]
    /\ evts = [t \in Tedas |-> 0]
    /\ pc = [t \in Tedas |-> "idle"]
    /\ kq = <<>> /\ kpc = "idle" /\ teda = NoCtx
    /\ owner = NoCtx
    /\ armed = NoDue /\ pre_tick = NoDue /\ processing = FALSE
    /\ wants = {} /\ overlooked = FALSE

-----------------------------------------------------------------------------
(* Who may run *)

\* The kernel task interrupts a task as soon as it has an event, and is not
\* interrupted; a protected section is interrupted by neither.
TaskRuns(t) == kpc = "idle" /\ (owner = t \/ (owner = NoCtx /\ kq = <<>>))
KernelRuns == owner \in {Kernel, NoCtx}

\* A context leaves its protected section.
Leave(c) == IF c = Kernel THEN kpc' = "idle" /\ UNCHANGED pc
                          ELSE pc' = [pc EXCEPT ![c] = "idle"] /\ UNCHANGED kpc
Enter(c, at) == IF c = Kernel THEN kpc' = at /\ UNCHANGED pc
                              ELSE pc' = [pc EXCEPT ![c] = at] /\ UNCHANGED kpc
At(c) == IF c = Kernel THEN kpc ELSE pc[c]
Runs(c) == IF c = Kernel THEN KernelRuns ELSE TaskRuns(c)

-----------------------------------------------------------------------------
(* The system timer *)

\* __vsf_systimer_wakeup in an interrupt.
Wakeup == IF processing THEN UNCHANGED <<kq, processing>>
          ELSE processing' = TRUE /\ kq' = Append(kq, "TIMER")

\* In another context the system timer may interrupt between its test ...
WakeupCheck(c) ==
    /\ Runs(c) /\ At(c) = "check"
    /\ IF processing THEN Leave(c) /\ owner' = NoCtx
                     ELSE Enter(c, "post") /\ UNCHANGED owner
    /\ UNCHANGED <<now, queueVars, evts, kq, teda, timerVars, histVars>>

\* ... and the post.
WakeupPost(c) ==
    /\ Runs(c) /\ At(c) = "post"
    /\ processing' = TRUE
    /\ kq' = Append(kq, "TIMER")
    /\ Leave(c) /\ owner' = NoCtx
    /\ UNCHANGED <<now, queueVars, evts, teda, armed, pre_tick, histVars>>

\* Mutant: only a due that is earlier than the last one is set.
Mut_Skipped(c) ==
    c # Kernel /\ due[Head(timq)] >= pre_tick /\ pre_tick # NoDue

\* A task does not program the due that was programmed last.
Skipped(c) == c # Kernel /\ due[Head(timq)] = pre_tick

\* __vsf_systimer_update, with force in the kernel task.  An idle system timer
\* stops or keeps the due it had; a due that has passed fires at once, or is
\* refused and the kernel task woken.
Update(c) ==
    /\ Runs(c) /\ At(c) = "update"
    /\ IF timq = <<>>
       THEN armed' \in {armed, NoDue} /\ Leave(c) /\ owner' = NoCtx
            /\ UNCHANGED pre_tick
       ELSE LET d == due[Head(timq)] IN
            IF Skipped(c)
            THEN Leave(c) /\ owner' = NoCtx /\ UNCHANGED <<armed, pre_tick>>
            ELSE /\ pre_tick' = d
                 /\ IF SetRefusesPast /\ d <= now
                    THEN Enter(c, "check") /\ UNCHANGED <<armed, owner>>
                    ELSE armed' = d /\ Leave(c) /\ owner' = NoCtx
    /\ overlooked' = (timq # <<>> /\ Skipped(c) /\ due[Head(timq)] <= now)
    /\ UNCHANGED <<now, queueVars, evts, kq, teda, processing, wants>>

\* vsf_systimer_evthandler: the one shot is over.
Fire ==
    /\ armed # NoDue /\ armed <= now
    /\ armed' = NoDue
    /\ Wakeup
    /\ UNCHANGED <<now, queueVars, evts, pc, kpc, teda, owner, pre_tick, histVars>>

\* The kernel task has an event that is queued or, with the array queue,
\* being dispatched.
KernelPending == kq # <<>> \/ (~EvtqList /\ kpc # "idle")

\* vsf_systimer_on_tick
OnTick == IF KernelPending THEN UNCHANGED kq ELSE kq' = Append(kq, "TIMER")

\* Time passes; the periodic interrupt goes on when the bound is reached.
Tick ==
    /\ Tickless => now < MaxTick
    /\ now' = IF now < MaxTick THEN now + 1 ELSE now
    /\ IF Tickless THEN UNCHANGED kq ELSE OnTick
    /\ UNCHANGED <<queueVars, evts, pc, kpc, teda, owner, timerVars, histVars>>

-----------------------------------------------------------------------------
(* Tasks *)

\* vsf_teda_set_timer_ex reads the tick; so does __vsf_eda_sync_set_timeout,
\* whose due the list queue sets when the eda is not ready any more.
ReadTick(t, d) ==
    /\ TaskRuns(t) /\ pc[t] = "idle" /\ t \notin wants
    /\ now + d <= MaxTick
    /\ due' = [due EXCEPT ![t] = now + d]
    /\ pc' = [pc EXCEPT ![t] = "insert"]
    /\ wants' = wants \cup {t}
    /\ UNCHANGED <<now, timq, is_timed, evts, kernelVars, owner, timerVars,
                   overlooked>>

\* vsf_timq_insert, before the first that is due as early or later.
Insert(t) ==
    \E n \in 1 .. Len(timq) + 1 :
        /\ \A i \in 1 .. n - 1 : due[timq[i]] < due[t]
        /\ n <= Len(timq) => due[timq[n]] >= due[t]
        /\ timq' = InsertAt(timq, n, t)

\* vsf_teda_set_due_ex: __vsf_teda_timer_enqueue, then the update.
SetDue(t) ==
    /\ TaskRuns(t) /\ pc[t] = "insert"
    /\ Insert(t)
    /\ is_timed' = [is_timed EXCEPT ![t] = TRUE]
    /\ pc' = [pc EXCEPT ![t] = IF Tickless THEN "update" ELSE "idle"]
    /\ owner' = IF Tickless THEN t ELSE NoCtx
    /\ UNCHANGED <<now, due, evts, kernelVars, timerVars, histVars>>

\* The handler of t gets its timer event.
Receive(t) ==
    /\ TaskRuns(t) /\ pc[t] = "idle" /\ evts[t] > 0
    /\ evts' = [evts EXCEPT ![t] = @ - 1]
    /\ wants' = wants \ {t}
    /\ UNCHANGED <<now, queueVars, pc, kernelVars, owner, timerVars, overlooked>>

\* vsf_teda_cancel_timer: __vsf_teda_cancel_timer ...
Cancel(t) ==
    /\ TaskRuns(t) /\ pc[t] = "idle" /\ t \in wants
    /\ IF is_timed[t]
       THEN \E i \in DOMAIN timq : timq[i] = t /\ timq' = RemoveAt(timq, i)
       ELSE UNCHANGED timq
    /\ is_timed' = [is_timed EXCEPT ![t] = FALSE]
    /\ pc' = [pc EXCEPT ![t] = "clean"]
    /\ UNCHANGED <<now, due, evts, kernelVars, owner, timerVars, histVars>>

\* Mutant: the event that was posted before the cancel is left.
Mut_CancelClean(t) ==
    /\ TaskRuns(t) /\ pc[t] = "clean"
    /\ wants' = wants \ {t}
    /\ pc' = [pc EXCEPT ![t] = "idle"]
    /\ UNCHANGED <<now, queueVars, evts, kernelVars, owner, timerVars, overlooked>>

\* ... and vsf_evtq_clean_evt(VSF_EVT_TIMER).
CancelClean(t) ==
    /\ TaskRuns(t) /\ pc[t] = "clean"
    /\ evts' = [evts EXCEPT ![t] = 0]
    /\ wants' = wants \ {t}
    /\ pc' = [pc EXCEPT ![t] = "idle"]
    /\ UNCHANGED <<now, queueVars, kernelVars, owner, timerVars, overlooked>>

-----------------------------------------------------------------------------
(* __vsf_kernel_evthandler *)

\* An interrupt posts another event to the kernel task.
Message ==
    /\ Cardinality({i \in DOMAIN kq : kq[i] = "MESSAGE"}) < MaxMsgs
    /\ kq' = Append(kq, "MESSAGE")
    /\ UNCHANGED <<now, queueVars, evts, pc, kpc, teda, owner, timerVars, histVars>>

KernelDispatch ==
    /\ KernelRuns /\ kpc = "idle" /\ kq # <<>>
    /\ kq' = Tail(kq)
    /\ kpc' = IF Head(kq) = "TIMER" THEN "timer" ELSE "idle"
    /\ UNCHANGED <<now, queueVars, evts, pc, teda, owner, timerVars, histVars>>

HeadIsDue == timq # <<>> /\ due[Head(timq)] <= now

KernelExpire ==
    /\ KernelRuns /\ kpc = "timer" /\ HeadIsDue
    /\ teda' = Head(timq)
    /\ timq' = Tail(timq)
    /\ is_timed' = [is_timed EXCEPT ![Head(timq)] = FALSE]
    /\ kpc' = "expired"
    /\ UNCHANGED <<now, due, evts, pc, kq, owner, timerVars, histVars>>

KernelPost ==
    /\ KernelRuns /\ kpc = "expired"
    /\ evts' = [evts EXCEPT ![teda] = @ + 1]
    /\ kpc' = "timer"
    /\ UNCHANGED <<now, queueVars, pc, kq, teda, owner, timerVars, histVars>>

\* Mutant: processing stays set.
Mut_KernelDone ==
    /\ KernelRuns /\ kpc = "timer" /\ ~HeadIsDue
    /\ IF Tickless THEN kpc' = "update" /\ owner' = Kernel
                   ELSE kpc' = "idle" /\ UNCHANGED owner
    /\ UNCHANGED <<now, queueVars, evts, pc, kq, teda, timerVars, histVars>>

KernelDone ==
    /\ KernelRuns /\ kpc = "timer" /\ ~HeadIsDue
    /\ IF Tickless
       THEN processing' = FALSE /\ kpc' = "update" /\ owner' = Kernel
       ELSE kpc' = "idle" /\ UNCHANGED <<processing, owner>>
    /\ UNCHANGED <<now, queueVars, evts, pc, kq, teda, armed, pre_tick, histVars>>

-----------------------------------------------------------------------------
Systimer(c) == Update(c) \/ WakeupCheck(c) \/ WakeupPost(c)
KernelStep == \/ KernelDispatch \/ KernelExpire \/ KernelPost \/ KernelDone
              \/ Systimer(Kernel)
Call(t) == SetDue(t) \/ CancelClean(t) \/ Systimer(t)

Step ==
    \/ Tick \/ Fire \/ Message \/ KernelStep
    \/ \E t \in Tedas : \/ Call(t) \/ Receive(t) \/ Cancel(t)
                        \/ \E d \in Delays : ReadTick(t, d)
Next == Step /\ UNCHANGED build

\* Time goes on, interrupts are taken, the kernel task runs and a task ends
\* the call it is in.  The other events leave the kernel task idle at some tick.
Fairness ==
    /\ WF_vars(Tick) /\ SF_vars(~KernelPending /\ Tick)
    /\ WF_vars(Fire) /\ WF_vars(KernelStep)
    /\ \A t \in Tedas : SF_vars(Call(t))

Spec == Init /\ [][Next]_<<vars, build>>
FairSpec == Spec /\ Fairness

-----------------------------------------------------------------------------
(* Properties *)

\* The timer queue holds the edas with is_timed, each once, earliest first:
\* the head is what the system timer is set for.
TimqSorted ==
    /\ \A t \in Tedas : is_timed[t] <=> t \in ToSet(timq)
    /\ \A i, j \in DOMAIN timq :
          i < j => timq[i] # timq[j] /\ due[timq[i]] <= due[timq[j]]

\* A timer that was set leads to one event, and a cancelled one to none: it is
\* in the queue, in the hands of the kernel task or in the event queue of the
\* eda, in one place only, until the eda has seen or cancelled it.
OneTimerOneEvent ==
    \A t \in Tedas :
        LET places == (IF is_timed[t] THEN 1 ELSE 0) + evts[t]
                       + (IF kpc = "expired" /\ teda = t THEN 1 ELSE 0)
        IN  /\ places <= 1
            /\ places = 1 => t \in wants
            /\ t \in wants /\ pc[t] \notin {"insert", "clean"} => places = 1

\* The timer queue and the event queues account for every timer once, in order.
TimqIsSound == TypeOK /\ TimqSorted /\ OneTimerOneEvent

\* The system timer fires no later than the earliest timer is due, or the kernel
\* task is being woken.
HeadIsTold ==
    \/ armed # NoDue /\ armed <= due[Head(timq)]
    \/ processing
    \/ \E c \in Ctxs : At(c) \in {"timer", "expired", "update", "check", "post"}

\* In tickless mode the earliest timer is never left alone, except in one way: a
\* task is overtaken by the due it has computed, puts it into the queue when it
\* has passed, and __vsf_systimer_update leaves it out because it is pre_tick.
HeadIsArmed == Tickless /\ timq # <<>> => HeadIsTold \/ overlooked

\* In tick mode ticks are not stored up while the kernel task is busy: it has
\* at most one timer event queued.
TicksDeduped ==
    ~Tickless => \A i, j \in DOMAIN kq : kq[i] = "TIMER" /\ kq[j] = "TIMER" => i = j

\* The kernel task is told of the head in both modes, and is not flooded.
KernelIsTold == HeadIsArmed /\ TicksDeduped

\* A timer that is set expires, unless it is cancelled, or the earliest timer is
\* left out in that one way: then no timer of the kernel expires.
TimerExpires ==
    \A t \in Tedas :
        is_timed[t] ~>
            ~is_timed[t] \/ (overlooked /\ timq # <<>> /\ ~HeadIsTold)
=============================================================================
