------------------------------ MODULE VsfQueue -------------------------------
(***************************************************************************)
(* vsf_eda_queue_t, __eda/vsf_eda_queue.c, as it is built by default: one  *)
(* place for a waiting sender, one for a waiting receiver, and calls from  *)
(* interrupts whose notifications the kernel task makes.  Each protected   *)
(* section is one action; a call goes through two of them, first the queue *)
(* and then the notification or the registration, and a context of higher  *)
(* priority may run in between.  A wait and its timer are those of VsfSync *)
(* with the list event queue: the timer runs once the handler has returned.*)
(***************************************************************************)
EXTENDS Integers, FiniteSets, Sequences, SequencesExt

CONSTANTS
    Sender,         \* the task that sends
    Receiver,       \* the task that receives and may wait
    Thief,          \* a task that receives without waiting, timeout 0
    Canceller,      \* the task that calls vsf_eda_queue_cancel
    Kernel,         \* the kernel task
    Capacity,       \* max_union.max_value
    MaxMsgs,        \* bound: messages of interrupts that the kernel task's
                    \* event queue holds; a post beyond it fails
    SendTimeouts,
    RecvTimeouts,   \* those used: "timed" (> 0), "forever" (< 0)
    Prios           \* the assignments of priorities to consider

Tasks == {Sender, Receiver, Thief, Canceller}
Ctxs == Tasks \cup {Kernel}
Nobody == "nobody"

ASSUME CtxAssumption ==
    /\ Nobody \notin Ctxs
    /\ Sender \notin {Receiver, Thief, Canceller, Kernel}
    /\ Receiver \notin {Thief, Canceller, Kernel}
    /\ Thief \notin {Canceller, Kernel} /\ Canceller # Kernel
ASSUME BoundAssumption == Capacity \in Nat \ {0} /\ MaxMsgs \in Nat
ASSUME UseAssumption == /\ SendTimeouts \subseteq {"timed", "forever"}
                        /\ RecvTimeouts \subseteq {"timed", "forever"}
                        /\ Prios \subseteq [Ctxs -> Nat]

VARIABLES
    cur,            \* cur_union.cur_value, the length of the queue
    readable,       \* readable_cnt
    tx,             \* eda_tx, which shares its word with pending_list.head
    eda_rx,
    wait,           \* what each task waits for
    st,             \* the handler of the task runs, or has returned
    evts,           \* the events queued for each task
    is_limitted,
    is_sync_got,    \* flags of eda->flag.state
    is_timed,       \* the timer of the task runs
    op,             \* the call a context is in the middle of
    msgs,           \* [send, recv]: messages in the kernel task's queue
    prio,           \* the priorities of the contexts, fixed
    stuck,          \* history: nodes whose message to the kernel task failed
    missed,         \* history: a notification came while the receiver, told
                    \* that the queue is empty, was not yet registered
    starved,        \* history: the node the receiver was woken for was gone
    late,           \* history: a notification came between the timeout of the
                    \* receiver and the end of its registration
    crossed         \* history: a cancel and another end of the wait crossed

vars == <<cur, readable, tx, eda_rx, wait, st, evts, is_limitted, is_sync_got,
          is_timed, op, msgs, prio, stuck, missed, starved, late, crossed>>

queueVars == <<cur, readable>>
taskVars == <<wait, st, evts, is_limitted, is_sync_got, is_timed>>
raceVars == <<missed, starved, late, crossed>>
histVars == <<prio, stuck, raceVars>>

Kinds == {"none", "notify_rx", "notify_tx", "pend_timed", "pend_forever",
          "dequeue", "clear_rx", "cancel_rx", "cancel_clear",
          "SYNC", "TIMER", "CANCEL", "CANCEL_tx"}
Op(k, t) == [kind |-> k, to |-> t]
NoOp == Op("none", Nobody)
Pends == {"pend_timed", "pend_forever"}
PendKind(timeout) == IF timeout = "timed" THEN "pend_timed" ELSE "pend_forever"

TypeOK ==
    /\ cur \in 0 .. Capacity /\ readable \in 0 .. Capacity
    /\ tx \in {"none", "linked", "stale", "loop"}
    /\ eda_rx \in {Nobody, Receiver}
    /\ wait \in [Tasks -> {"no", "send", "recv"}]
    /\ st \in [Tasks -> {"run", "idle"}]
    /\ evts \in [Tasks -> Seq({"SYNC", "TIMER", "CANCEL"})]
    /\ is_limitted \in [Tasks -> BOOLEAN]
    /\ is_sync_got \in [Tasks -> BOOLEAN]
    /\ is_timed \in [Tasks -> BOOLEAN]
    /\ op \in [Ctxs -> [kind : Kinds, to : Tasks \cup {Nobody}]]
    /\ msgs \in [send : 0 .. MaxMsgs, recv : 0 .. MaxMsgs]
    /\ prio \in [Ctxs -> Nat]
    /\ stuck \in 0 .. Capacity
    /\ missed \in BOOLEAN /\ starved \in BOOLEAN
    /\ late \in BOOLEAN /\ crossed \in BOOLEAN

Init ==
    /\ cur = 0 /\ readable = 0 /\ tx = "none" /\ eda_rx = Nobody
    /\ wait = [t \in Tasks |-> "no"] /\ st = [t \in Tasks |-> "run"]
    /\ evts = [t \in Tasks |-> <<>>]
    /\ is_limitted = [t \in Tasks |-> FALSE]
    /\ is_sync_got = [t \in Tasks |-> FALSE]
    /\ is_timed = [t \in Tasks |-> FALSE]
    /\ op = [c \in Ctxs |-> NoOp]
    /\ msgs = [send |-> 0, recv |-> 0]
    /\ prio \in Prios
    /\ stuck = 0
    /\ missed = FALSE /\ starved = FALSE /\ late = FALSE /\ crossed = FALSE

-----------------------------------------------------------------------------
(* Who may run *)

\* A context that is in the middle of a call is preempted by those of higher
\* priority only.
MayRun(c) == \A d \in Ctxs \ {c} : op[d] # NoOp => prio[c] > prio[d]

AtWork(t) == MayRun(t) /\ st[t] = "run" /\ wait[t] = "no" /\ op[t] = NoOp
InCall(c, kind) == MayRun(c) /\ op[c].kind = kind
SetOp(c, k, t) == op' = [op EXCEPT ![c] = Op(k, t)]
EndOp(c) == op' = [op EXCEPT ![c] = NoOp]

\* The event queue refuses an unforced post to a limited eda that is ready.
Refused(t) == is_limitted[t] /\ (evts[t] # <<>> \/ st[t] = "run")

-----------------------------------------------------------------------------
(* vsf_eda_queue_send and vsf_eda_queue_recv *)

SendEnqueue ==
    /\ AtWork(Sender) /\ cur < Capacity
    /\ cur' = cur + 1 /\ readable' = readable + 1
    /\ SetOp(Sender, "notify_rx", Nobody)
    /\ UNCHANGED <<tx, eda_rx, taskVars, msgs, histVars>>

\* The queue is full; the sender will register in a section of its own.
SendFull ==
    /\ AtWork(Sender) /\ cur >= Capacity
    /\ \E timeout \in SendTimeouts : SetOp(Sender, PendKind(timeout), Nobody)
    /\ UNCHANGED <<queueVars, tx, eda_rx, taskVars, msgs, histVars>>

Wait(t, for, timed) ==
    /\ wait' = [wait EXCEPT ![t] = for]
    /\ is_limitted' = [is_limitted EXCEPT ![t] = timed]
    /\ EndOp(t)
    /\ UNCHANGED <<st, evts, is_sync_got, is_timed>>

\* __vsf_eda_sync_pend appends the pending_node of the sender to pending_list.
\* A tail that a notification has left behind ("stale") links the node to
\* itself and leaves head NULL ("loop").
SendPend ==
    /\ \E timeout \in SendTimeouts :
          /\ InCall(Sender, PendKind(timeout))
          /\ Wait(Sender, "send", timeout = "timed")
    /\ tx' = IF tx = "none" THEN "linked" ELSE "loop"
    /\ UNCHANGED <<queueVars, eda_rx, msgs, histVars>>

RecvDequeue(t) ==
    /\ t \in {Receiver, Thief} /\ AtWork(t) /\ readable > 0
    /\ cur' = cur - 1 /\ readable' = readable - 1
    /\ SetOp(t, "notify_tx", Nobody)
    /\ UNCHANGED <<tx, eda_rx, taskVars, msgs, histVars>>

RecvEmpty ==
    /\ AtWork(Receiver) /\ readable = 0
    /\ \E timeout \in RecvTimeouts : SetOp(Receiver, PendKind(timeout), Nobody)
    /\ missed' = FALSE /\ starved' = FALSE
    /\ UNCHANGED <<queueVars, tx, eda_rx, taskVars, msgs, prio, stuck, late,
                   crossed>>

\* VSF_KERNEL_ASSERT(NULL == pthis->eda_rx): the system stops if it fails.
RecvPend ==
    /\ eda_rx = Nobody
    /\ \E timeout \in RecvTimeouts :
          /\ InCall(Receiver, PendKind(timeout))
          /\ Wait(Receiver, "recv", timeout = "timed")
    /\ eda_rx' = Receiver
    /\ UNCHANGED <<queueVars, tx, msgs, histVars>>

-----------------------------------------------------------------------------
(* __vsf_eda_queue_notify and the post after it *)

\* What the notification finds of the receiver's own call.
NotifyFinds ==
    /\ missed' = (missed \/ op[Receiver].kind \in Pends)
    /\ late' = (late \/ op[Receiver].kind = "clear_rx")
    /\ UNCHANGED <<prio, stuck, starved, crossed>>

\* Mutant: the receiver is taken off and not told.
Mut_NotifyRxSilent(c) ==
    /\ InCall(c, "notify_rx")
    /\ EndOp(c)
    /\ eda_rx' = Nobody /\ NotifyFinds
    /\ UNCHANGED <<queueVars, tx, taskVars, msgs>>

NotifyRx(c) ==
    /\ InCall(c, "notify_rx")
    /\ IF eda_rx # Nobody
       THEN /\ is_sync_got' = [is_sync_got EXCEPT ![eda_rx] = TRUE]
            /\ SetOp(c, "SYNC", eda_rx)
       ELSE EndOp(c) /\ UNCHANGED is_sync_got
    /\ eda_rx' = Nobody /\ NotifyFinds
    /\ UNCHANGED <<queueVars, tx, wait, st, evts, is_limitted, is_timed, msgs>>

\* eda_tx is read from pending_list.head, which holds the address of the
\* sender's pending_node and not of its eda: the flag is set and the event is
\* posted at a wrong address, the sender sees neither.  eda_tx = NULL clears
\* head and leaves tail.
NotifyTx(c) ==
    /\ InCall(c, "notify_tx")
    /\ tx' = IF tx = "linked" THEN "stale" ELSE tx
    /\ EndOp(c)
    /\ UNCHANGED <<queueVars, eda_rx, taskVars, msgs, histVars>>

\* Forced, except for the timer.  A cancel goes on with the receiver.
PostEvent(c) ==
    /\ MayRun(c) /\ op[c].kind \in {"SYNC", "TIMER", "CANCEL", "CANCEL_tx"}
    /\ LET t == op[c].to
           e == IF op[c].kind = "CANCEL_tx" THEN "CANCEL" ELSE op[c].kind
       IN evts' = IF e = "TIMER" /\ Refused(t) THEN evts
                  ELSE [evts EXCEPT ![t] = Append(@, e)]
    /\ IF op[c].kind = "CANCEL_tx" THEN SetOp(c, "cancel_rx", Nobody) ELSE EndOp(c)
    /\ UNCHANGED <<queueVars, tx, eda_rx, wait, st, is_limitted, is_sync_got,
                   is_timed, msgs, histVars>>

-----------------------------------------------------------------------------
(* The waiting task: vsf_thread_queue_send, vsf_thread_queue_recv *)

HandlerReturn(t) ==
    /\ MayRun(t) /\ st[t] = "run" /\ wait[t] # "no" /\ op[t] = NoOp
    /\ st' = [st EXCEPT ![t] = "idle"]
    /\ is_timed' = [is_timed EXCEPT ![t] = is_limitted[t]]
    /\ UNCHANGED <<queueVars, tx, eda_rx, wait, evts, is_limitted, is_sync_got,
                   op, msgs, histVars>>

Take(t, e) ==
    /\ MayRun(t) /\ st[t] = "idle" /\ evts[t] # <<>> /\ Head(evts[t]) = e
    /\ evts' = [evts EXCEPT ![t] = Tail(@)]
    /\ st' = [st EXCEPT ![t] = "run"]

\* VSF_SYNC_PENDING: a notification is on its way.
ReasonPending(t) ==
    /\ Take(t, "TIMER") /\ is_sync_got[t]
    /\ UNCHANGED <<queueVars, tx, eda_rx, wait, is_limitted, is_sync_got,
                   is_timed, op, msgs, histVars>>

\* VSF_SYNC_TIMEOUT of a send: vsf_dlist_remove.  A node that is linked to
\* itself stays so.
SendTimeout ==
    /\ Take(Sender, "TIMER") /\ ~is_sync_got[Sender]
    /\ tx' = IF tx = "loop" THEN "loop" ELSE "none"
    /\ is_limitted' = [is_limitted EXCEPT ![Sender] = FALSE]
    /\ wait' = [wait EXCEPT ![Sender] = "no"]
    /\ UNCHANGED <<queueVars, eda_rx, is_sync_got, is_timed, op, msgs, histVars>>

\* The wake-ups of a task that are on their way, in a context or in its queue.
OnTheWay(t, kinds) ==
    \/ \E c \in Ctxs : op[c].kind \in kinds /\ op[c].to = t
    \/ \E e \in ToSet(evts[t]) : e \in kinds

\* Mutant: the notification on its way is not looked at.
Mut_RecvTimeout ==
    /\ Take(Receiver, "TIMER")
    /\ is_limitted' = [is_limitted EXCEPT ![Receiver] = FALSE]
    /\ SetOp(Receiver, "clear_rx", Nobody)
    /\ crossed' = (crossed \/ OnTheWay(Receiver, {"CANCEL"}))
    /\ UNCHANGED <<queueVars, tx, eda_rx, wait, is_sync_got, is_timed, msgs,
                   prio, stuck, missed, starved, late>>

\* VSF_SYNC_TIMEOUT of a receive.  The registration ends after the section.
RecvTimeout ==
    /\ Take(Receiver, "TIMER") /\ ~is_sync_got[Receiver]
    /\ is_limitted' = [is_limitted EXCEPT ![Receiver] = FALSE]
    /\ SetOp(Receiver, "clear_rx", Nobody)
    /\ crossed' = (crossed \/ OnTheWay(Receiver, {"CANCEL"}))
    /\ UNCHANGED <<queueVars, tx, eda_rx, wait, is_sync_got, is_timed, msgs,
                   prio, stuck, missed, starved, late>>

RecvTimeoutClear ==
    /\ InCall(Receiver, "clear_rx")
    /\ eda_rx' = Nobody
    /\ wait' = [wait EXCEPT ![Receiver] = "no"]
    /\ EndOp(Receiver)
    /\ UNCHANGED <<queueVars, tx, st, evts, is_limitted, is_sync_got, is_timed,
                   msgs, histVars>>

\* The event is SYNC or CANCEL: the timer is cancelled, the flags are cleared.
Woken(t, e) ==
    /\ Take(t, e)
    /\ is_timed' = [is_timed EXCEPT ![t] = FALSE]
    /\ is_sync_got' = [is_sync_got EXCEPT ![t] = FALSE]
    /\ is_limitted' = [is_limitted EXCEPT ![t] = FALSE]

\* VSF_SYNC_CANCEL
ReasonCancel(t) ==
    /\ Woken(t, "CANCEL")
    /\ wait' = [wait EXCEPT ![t] = "no"]
    /\ UNCHANGED <<queueVars, tx, eda_rx, op, msgs, histVars>>

\* VSF_SYNC_GET: the receiver tries again, in a section of its own.
RecvWoken ==
    /\ Woken(Receiver, "SYNC")
    /\ SetOp(Receiver, "dequeue", Nobody)
    /\ UNCHANGED <<queueVars, tx, eda_rx, wait, msgs, histVars>>

RecvAgain ==
    /\ InCall(Receiver, "dequeue") /\ readable > 0
    /\ cur' = cur - 1 /\ readable' = readable - 1
    /\ wait' = [wait EXCEPT ![Receiver] = "no"]
    /\ SetOp(Receiver, "notify_tx", Nobody)
    /\ UNCHANGED <<tx, eda_rx, st, evts, is_limitted, is_sync_got, is_timed,
                   msgs, histVars>>

\* Somebody else took the node: VSF_SYNC_PENDING, the receiver waits again
\* and is not registered, without a timer.
RecvStarved ==
    /\ InCall(Receiver, "dequeue") /\ readable = 0
    /\ starved' = TRUE
    /\ EndOp(Receiver)
    /\ UNCHANGED <<queueVars, tx, eda_rx, taskVars, msgs, prio, stuck, missed,
                   late, crossed>>

-----------------------------------------------------------------------------
(* vsf_eda_queue_cancel *)

\* Bound: nothing is cancelled any more once two ends of the receiver's wait
\* have crossed.
CancelTx ==
    /\ AtWork(Canceller) /\ ~crossed /\ ~late
    /\ IF tx = "linked"
       THEN /\ tx' = "none"
            /\ is_sync_got' = [is_sync_got EXCEPT ![Sender] = TRUE]
            /\ SetOp(Canceller, "CANCEL_tx", Sender)
       ELSE SetOp(Canceller, "cancel_rx", Nobody) /\ UNCHANGED <<tx, is_sync_got>>
    /\ UNCHANGED <<queueVars, eda_rx, wait, st, evts, is_limitted, is_timed,
                   msgs, histVars>>

\* eda_rx is read, cleared and posted to without protection and without
\* is_sync_got: the receiver that was read may have been notified, or its
\* timeout decided, in between.
CancelRxRead ==
    /\ InCall(Canceller, "cancel_rx")
    /\ IF eda_rx # Nobody THEN SetOp(Canceller, "cancel_clear", eda_rx)
                          ELSE EndOp(Canceller)
    /\ UNCHANGED <<queueVars, tx, eda_rx, taskVars, msgs, histVars>>

CancelRxClear ==
    /\ InCall(Canceller, "cancel_clear")
    /\ eda_rx' = Nobody
    /\ crossed' = \/ crossed
                  \/ eda_rx = Nobody \/ op[Receiver].kind = "clear_rx"
    /\ SetOp(Canceller, "CANCEL", op[Canceller].to)
    /\ UNCHANGED <<queueVars, tx, taskVars, msgs, prio, stuck, missed, starved,
                   late>>

-----------------------------------------------------------------------------
(* The interrupts and the kernel task *)

\* Mutant: the node is readable at once.
Mut_IsrSend ==
    /\ cur < Capacity
    /\ cur' = cur + 1 /\ readable' = readable + 1
    /\ IF msgs.send < MaxMsgs
       THEN msgs' = [msgs EXCEPT !.send = @ + 1] /\ UNCHANGED stuck
       ELSE stuck' = stuck + 1 /\ UNCHANGED msgs
    /\ UNCHANGED <<tx, eda_rx, taskVars, op, prio, raceVars>>

\* vsf_eda_queue_send_isr: the node becomes readable in the kernel task.  If
\* there is no room for the message, the call fails and the node stays.
IsrSend ==
    /\ cur < Capacity
    /\ cur' = cur + 1 /\ UNCHANGED readable
    /\ IF msgs.send < MaxMsgs
       THEN msgs' = [msgs EXCEPT !.send = @ + 1] /\ UNCHANGED stuck
       ELSE stuck' = stuck + 1 /\ UNCHANGED msgs
    /\ UNCHANGED <<tx, eda_rx, taskVars, op, prio, raceVars>>

\* vsf_eda_queue_recv_isr
IsrRecv ==
    /\ readable > 0
    /\ cur' = cur - 1 /\ readable' = readable - 1
    /\ msgs' = [msgs EXCEPT !.recv = IF @ < MaxMsgs THEN @ + 1 ELSE @]
    /\ UNCHANGED <<tx, eda_rx, taskVars, op, histVars>>

KernelFree == MayRun(Kernel) /\ op[Kernel] = NoOp

\* VSF_KERNEL_EVT_QUEUE_SEND_NOTIFY
KernelSendNotify ==
    /\ KernelFree /\ msgs.send > 0
    /\ msgs' = [msgs EXCEPT !.send = @ - 1]
    /\ readable' = readable + 1
    /\ SetOp(Kernel, "notify_rx", Nobody)
    /\ UNCHANGED <<cur, tx, eda_rx, taskVars, histVars>>

\* VSF_KERNEL_EVT_QUEUE_RECV_NOTIFY
KernelRecvNotify ==
    /\ KernelFree /\ msgs.recv > 0
    /\ msgs' = [msgs EXCEPT !.recv = @ - 1]
    /\ SetOp(Kernel, "notify_tx", Nobody)
    /\ UNCHANGED <<queueVars, tx, eda_rx, taskVars, histVars>>

KernelTimer(t) ==
    /\ KernelFree /\ is_timed[t]
    /\ is_timed' = [is_timed EXCEPT ![t] = FALSE]
    /\ SetOp(Kernel, "TIMER", t)
    /\ UNCHANGED <<queueVars, tx, eda_rx, wait, st, evts, is_limitted,
                   is_sync_got, msgs, histVars>>

-----------------------------------------------------------------------------
Use == \/ SendEnqueue \/ SendFull \/ RecvEmpty \/ CancelTx
       \/ \E t \in Tasks : RecvDequeue(t)

Isr == IsrSend \/ IsrRecv

Step(c) == \/ NotifyRx(c) \/ NotifyTx(c) \/ PostEvent(c)
TaskStep(t) ==
    \/ Step(t) \/ HandlerReturn(t) \/ ReasonPending(t) \/ ReasonCancel(t)
    \/ t = Sender /\ (SendPend \/ SendTimeout)
    \/ t = Receiver /\ \/ RecvPend \/ RecvTimeout \/ RecvTimeoutClear
                       \/ RecvWoken \/ RecvAgain \/ RecvStarved
    \/ t = Canceller /\ (CancelRxRead \/ CancelRxClear)

KernelStep == Step(Kernel) \/ KernelSendNotify \/ KernelRecvNotify

Next == \/ Use \/ Isr \/ KernelStep
        \/ \E t \in Tasks : TaskStep(t) \/ KernelTimer(t)

Spec == Init /\ [][Next]_vars

-----------------------------------------------------------------------------
(* Properties *)

Telling == \E c \in Ctxs : op[c].kind = "notify_rx"

\* A node in the queue may be read, or the kernel task has still to be told of
\* it, or could not be told: readable_cnt, which three contexts change in
\* different sections, never promises a node that is not there.
ReadableIsAccounted == readable + msgs.send + stuck = cur

\* The counters of the queue agree with its content and stay in their ranges.
QueueIsSound == TypeOK /\ ReadableIsAccounted

\* "recv pends while empty", whoever preempts whom: a registered receiver has
\* nothing to read, or somebody is about to notify it. The one exception is a
\* notification between the section that found the queue empty and the one that
\* registers: it finds nobody, and the code makes no other.
RecvPendsWhileEmpty == eda_rx # Nobody => readable = 0 \/ Telling \/ missed

\* A receiver that waits can be reached: it is registered, its wake-up is on
\* its way or it is awake and looks. The one exception is the receiver whose
\* node another one took: it waits on, and the code does not register it again.
ReceiverIsReachable ==
    wait[Receiver] = "recv" =>
        \/ eda_rx = Receiver \/ OnTheWay(Receiver, {"SYNC", "CANCEL"})
        \/ op[Receiver].kind = "dequeue" \/ starved

\* is_sync_got is set exactly while a SYNC is on its way to a receiver that
\* waits: the timer and the notification never both end a wait, and no SYNC is
\* left for a later one.
SyncEndsOneWait ==
    /\ is_sync_got[Receiver] <=> OnTheWay(Receiver, {"SYNC"})
    /\ is_sync_got[Receiver] => wait[Receiver] = "recv"

\* VSF_KERNEL_ASSERT(NULL == pthis->eda_rx) of vsf_eda_queue_recv_ex holds:
\* every end of a wait, by the timer, a node or a cancel, ends the registration.
RxIsFree == op[Receiver].kind \in Pends => eda_rx = Nobody

\* No notification of the receiver is lost: it does not wait for a node that is
\* there, and while it waits the next node reaches it.
ReceiverIsWoken == RecvPendsWhileEmpty /\ ReceiverIsReachable

\* A wait of the receiver ends once, by the timer, a node or a cancel, and
\* leaves neither a SYNC nor a registration to the next one. This lasts until
\* one of two things happens in the middle of the end of a wait, where the code
\* has no section: a notification after the timeout is decided and before the
\* registration is cleared ("late"), or a cancel that is under way while the
\* timer or a node ends the wait ("crossed").
WaitEndsOnce == ~late /\ ~crossed => SyncEndsOneWait /\ RxIsFree

\* "send pends while full": a sender waits only while the queue is full, or
\* while somebody is about to notify it. This fails, because vsf_eda_queue_t
\* keeps eda_tx in the word of its pending list, and no run lists it (README,
\* Observations).
SendPendsWhileFull ==
    wait[Sender] = "send" =>
        \/ cur >= Capacity \/ msgs.recv > 0 \/ OnTheWay(Sender, {"CANCEL", "TIMER"})
        \/ \E c \in Ctxs : op[c].kind = "notify_tx"
=============================================================================
