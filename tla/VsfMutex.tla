------------------------------- MODULE VsfMutex -------------------------------
(***************************************************************************)
(* A mutex of the kernel, vsf_sync_owner_t, and the priorities it lends:   *)
(* the paths of __eda/vsf_eda_sync.c for an object with has_owner, over    *)
(* the dynamic priorities of vsf_evtq_list.c.  A task that has to wait     *)
(* lends its priority to the owner; an owner that is being dispatched      *)
(* keeps its queue until its handler returns, and the interrupt of that    *)
(* queue is raised instead.  Tasks preempt each other between the sections *)
(* under vsf_protect_sched, which are one action each.  The ready lists    *)
(* and event nodes are those of EvtqList without their windows: here the   *)
(* dispatch of an eda ends in one step, and an interrupt that may preempt  *)
(* does so before the next step of a handler.                              *)
(***************************************************************************)
EXTENDS Integers, FiniteSets, Sequences, SequencesExt

CONSTANTS
    Tasks,          \* the edas that use the mutex
    Prio,           \* Prio[t]: eda->priority
    Levels,         \* the priorities below that of the kernel task
    Timeouts,       \* those each task gives to vsf_eda_mutex_enter: "timed" or
                    \* "forever"
    Cancellers,     \* the tasks that call vsf_eda_sync_cancel
    NoTask          \* NULL

Prios == 1 .. Levels

ASSUME LevelAssumption == Levels \in Nat
ASSUME TaskAssumption == /\ IsFiniteSet(Tasks) /\ NoTask \notin Tasks
                         /\ Prio \in [Tasks -> Prios]
                         /\ Cancellers \subseteq Tasks
ASSUME UseAssumption == Timeouts \in [Tasks -> SUBSET {"timed", "forever"}]

VARIABLES
    eda_owner,
    pending,        \* pending_list
    cur_priority,   \* eda->cur_priority
    new_priority,   \* eda->new_priority if is_new_prio, else 0
    rdy_list,       \* the ready edas of each queue, but for the current one
    cur,            \* evtq->cur.eda of each queue
    level,          \* the priority of the software interrupt of each queue
    stack,          \* the queues whose poll is active, the running one first
    evts,           \* eda->evt_list
    evt,            \* the event each queue dispatches, "none" once it is handled
    wait,           \* the timeout of the wait of each task, or "no"
    timer,          \* its timer: "no", "due" (is_to_set_due) or "set"
    is_sync_got,
    op,             \* what the handler of each queue has to post: [kind, to]
    holds,          \* history: the tasks that know they are in the mutex
    undercut,       \* history: the waiters whose loan a smaller one replaced
    indebted        \* history: those that queued with a loan to give back

vars == <<eda_owner, pending, cur_priority, new_priority, rdy_list, cur, level,
          stack, evts, evt, wait, timer, is_sync_got, op, holds, undercut,
          indebted>>

prioVars == <<cur_priority, new_priority, level>>
pollVars == <<cur, stack, evt>>
waitVars == <<wait, timer, is_sync_got>>
histVars == <<holds, undercut, indebted>>

Kinds == {"none", "SYNC", "CANCEL", "cancelloop"}
Events == {"USER", "SYNC", "CANCEL", "TIMER"}
NoOp == [kind |-> "none", to |-> NoTask]

TypeOK ==
    /\ eda_owner \in Tasks \cup {NoTask}
    /\ pending \in Seq(Tasks)
    /\ cur_priority \in [Tasks -> Prios]
    /\ new_priority \in [Tasks -> 0 .. Levels]
    /\ rdy_list \in [Prios -> Seq(Tasks)]
    /\ cur \in [Prios -> Tasks \cup {NoTask}]
    /\ level \in [Prios -> Prios]
    /\ stack \in Seq(Prios)
    /\ evts \in [Tasks -> Seq(Events)]
    /\ evt \in [Prios -> Events \cup {"none"}]
    /\ wait \in [Tasks -> {"no", "timed", "forever"}]
    /\ timer \in [Tasks -> {"no", "due", "set"}]
    /\ is_sync_got \in [Tasks -> BOOLEAN]
    /\ op \in [Prios -> [kind : Kinds, to : Tasks \cup {NoTask}]]
    /\ holds \cup undercut \cup indebted \subseteq Tasks

Init ==
    /\ eda_owner = NoTask /\ pending = <<>>
    /\ cur_priority = Prio
    /\ new_priority = [t \in Tasks |-> 0]
    /\ rdy_list = [p \in Prios |-> <<>>]
    /\ cur = [p \in Prios |-> NoTask]
    /\ level = [p \in Prios |-> p]
    /\ stack = <<>>
    /\ evts = [t \in Tasks |-> <<>>]
    /\ evt = [p \in Prios |-> "none"]
    /\ wait = [t \in Tasks |-> "no"]
    /\ timer = [t \in Tasks |-> "no"]
    /\ is_sync_got = [t \in Tasks |-> FALSE]
    /\ op = [p \in Prios |-> NoOp]
    /\ holds = {} /\ undercut = {} /\ indebted = {}

-----------------------------------------------------------------------------
(* Who may run *)

Dispatched(t) == \E p \in Prios : cur[p] = t
IsReady(t) == Dispatched(t) \/ evts[t] # <<>>

\* The interrupt of p, which is not active, is pending and may preempt.
Preempts(p) == /\ rdy_list[p] # <<>> /\ p \notin ToSet(stack)
               /\ \A q \in ToSet(stack) : level[p] > level[q]

\* The handler that queue p dispatches is the one that the processor runs.
Running(p) == /\ stack # <<>> /\ Head(stack) = p
              /\ \A q \in Prios : ~Preempts(q)

\* It has looked at its event, waits for nothing and may call the kernel.
AtWork(p) == /\ Running(p) /\ cur[p] # NoTask /\ wait[cur[p]] = "no"
             /\ evt[p] = "none" /\ op[p] = NoOp

\* What __vsf_eda_get_cur_priority returns.
GetCurPriority(t) == IF new_priority[t] # 0 THEN new_priority[t]
                                            ELSE cur_priority[t]

-----------------------------------------------------------------------------
(* The event queues *)

\* An event for t; a task that was not ready enters the list of its priority.
Post(t, e) ==
    /\ evts' = [evts EXCEPT ![t] = Append(@, e)]
    /\ rdy_list' = IF IsReady(t) THEN rdy_list
                   ELSE [rdy_list EXCEPT ![cur_priority[t]] = Append(@, t)]

\* Something else that a task does is due: an interrupt posts to it.
Wake(t) ==
    /\ ~IsReady(t) /\ wait[t] = "no"
    /\ Post(t, "USER")
    /\ UNCHANGED <<eda_owner, pending, prioVars, pollVars, waitVars, op, histVars>>

\* vsf_evtq_poll takes the first eda of the list and its oldest event, when its
\* interrupt preempts, the highest first, or in the loop of the running one,
\* whatever the interrupts it has preempted were raised to meanwhile.
Dispatch(p) ==
    /\ \/ Preempts(p) /\ stack' = <<p>> \o stack
       \/ Running(p) /\ cur[p] = NoTask /\ rdy_list[p] # <<>> /\ UNCHANGED stack
    /\ \A q \in Prios : q > p => ~Preempts(q)
    /\ LET t == Head(rdy_list[p]) IN
       /\ cur' = [cur EXCEPT ![p] = t]
       /\ evt' = [evt EXCEPT ![p] = Head(evts[t])]
       /\ evts' = [evts EXCEPT ![t] = Tail(@)]
    /\ rdy_list' = [rdy_list EXCEPT ![p] = Tail(@)]
    /\ UNCHANGED <<eda_owner, pending, prioVars, waitVars, op, histVars>>

\* Mutant: the interrupt is put back, the new priority is not taken up.
Mut_Finish(p) ==
    /\ Running(p) /\ cur[p] # NoTask /\ evt[p] = "none" /\ op[p] = NoOp
    /\ LET t == cur[p]
           q == cur_priority[t]
           more == evts[t] # <<>>
       IN /\ new_priority' = [new_priority EXCEPT ![t] = 0]
          /\ level' = [level EXCEPT ![p] = p]
          /\ rdy_list' = IF more THEN [rdy_list EXCEPT ![q] = Append(@, t)]
                                 ELSE rdy_list
          /\ timer' = [timer EXCEPT ![t] =
                          IF @ = "due" /\ ~more THEN "set" ELSE @]
    /\ cur' = [cur EXCEPT ![p] = NoTask]
    /\ UNCHANGED <<eda_owner, pending, cur_priority, stack, evts, evt, wait,
                   is_sync_got, op, histVars>>

\* The handler returns and vsf_evtq_poll ends the dispatch: the task takes up a
\* new priority, the interrupt goes back to that of its queue, and the timer of a
\* timed wait is set if the task is not ready any more.
Finish(p) ==
    /\ Running(p) /\ cur[p] # NoTask /\ evt[p] = "none" /\ op[p] = NoOp
    /\ LET t == cur[p]
           q == GetCurPriority(t)
           more == evts[t] # <<>>
       IN /\ cur_priority' = [cur_priority EXCEPT ![t] = q]
          /\ new_priority' = [new_priority EXCEPT ![t] = 0]
          /\ level' = IF new_priority[t] # 0 THEN [level EXCEPT ![p] = p]
                                             ELSE level
          /\ rdy_list' = IF more THEN [rdy_list EXCEPT ![q] = Append(@, t)]
                                 ELSE rdy_list
          /\ timer' = [timer EXCEPT ![t] =
                          IF @ = "due" /\ ~more THEN "set" ELSE @]
    /\ cur' = [cur EXCEPT ![p] = NoTask]
    /\ UNCHANGED <<eda_owner, pending, stack, evts, evt, wait, is_sync_got, op,
                   histVars>>

\* Nothing is left in the list: poll and its interrupt end.
SwiLeave(p) ==
    /\ Running(p) /\ cur[p] = NoTask /\ rdy_list[p] = <<>>
    /\ stack' = Tail(stack)
    /\ UNCHANGED <<eda_owner, pending, prioVars, rdy_list, cur, evts, evt,
                   waitVars, op, histVars>>

-----------------------------------------------------------------------------
(* Priorities *)

\* __vsf_eda_update_priotiry: a ready task goes to the end of the other list.
MoveReady(t, p, q) ==
    IF evts[t] = <<>> THEN UNCHANGED rdy_list
    ELSE \E i \in DOMAIN rdy_list[p] :
            /\ rdy_list[p][i] = t
            /\ rdy_list' = [rdy_list EXCEPT ![p] = RemoveAt(@, i), ![q] = Append(@, t)]

\* Mutant: the interrupt of the queue that dispatches t is not raised.
Mut_SetPriority(t, q) ==
    LET p == cur_priority[t] IN
    IF p = q THEN UNCHANGED <<rdy_list, prioVars>>
    ELSE IF cur[p] # t /\ new_priority[t] = 0
    THEN /\ MoveReady(t, p, q)
         /\ cur_priority' = [cur_priority EXCEPT ![t] = q]
         /\ UNCHANGED <<new_priority, level>>
    ELSE /\ new_priority' = [new_priority EXCEPT ![t] = q]
         /\ UNCHANGED <<rdy_list, cur_priority, level>>

\* __vsf_eda_set_priority: at once, or when the dispatch of t ends.
SetPriority(t, q) ==
    LET p == cur_priority[t] IN
    IF p = q THEN UNCHANGED <<rdy_list, prioVars>>
    ELSE IF cur[p] # t /\ new_priority[t] = 0
    THEN /\ MoveReady(t, p, q)
         /\ cur_priority' = [cur_priority EXCEPT ![t] = q]
         /\ UNCHANGED <<new_priority, level>>
    ELSE /\ new_priority' = [new_priority EXCEPT ![t] = q]
         /\ level' = IF q > p THEN [level EXCEPT ![p] = q] ELSE level
         /\ UNCHANGED <<rdy_list, cur_priority>>

\* Mutant: the raise of a loan that was not taken up is kept.
Mut_GiveBackRaised(t) ==
    IF cur_priority[t] # Prio[t] THEN SetPriority(t, Prio[t])
    ELSE /\ new_priority' = [new_priority EXCEPT ![t] = 0]
         /\ UNCHANGED <<rdy_list, cur_priority, level>>

\* What the owner t was lent is given back, or dropped if it was not taken up.
GiveBack(t) ==
    IF cur_priority[t] # Prio[t] THEN SetPriority(t, Prio[t])
    ELSE /\ new_priority' = [new_priority EXCEPT ![t] = 0]
         /\ level' = IF new_priority[t] # 0 THEN [level EXCEPT ![Prio[t]] = Prio[t]]
                                            ELSE level
         /\ UNCHANGED <<rdy_list, cur_priority>>

-----------------------------------------------------------------------------
(* vsf_eda_mutex_enter *)

Enter(p) ==
    /\ AtWork(p) /\ eda_owner = NoTask /\ pending = <<>>
    /\ eda_owner' = cur[p]
    /\ holds' = holds \cup {cur[p]}
    /\ indebted' = indebted \ {cur[p]}
    /\ UNCHANGED <<pending, prioVars, rdy_list, pollVars, evts, waitVars, op,
                   undercut>>

\* Mutant: first come, first served.
Mut_InsertByPriority(t) == pending' = Append(pending, t)

\* vsf_dlist_insert: in front of the first waiter of lower priority.
InsertByPriority(t) ==
    \E n \in 1 .. Len(pending) + 1 :
        /\ \A i \in 1 .. n - 1 : cur_priority[pending[i]] >= GetCurPriority(t)
        /\ n <= Len(pending) => cur_priority[pending[n]] < GetCurPriority(t)
        /\ pending' = InsertAt(pending, n, t)

EnterPend(p, timeout) ==
    /\ AtWork(p) /\ eda_owner \notin {NoTask, cur[p]}
    /\ timeout \in Timeouts[cur[p]]
    /\ LET t == cur[p] IN
       /\ InsertByPriority(t)
       /\ wait' = [wait EXCEPT ![t] = timeout]
       /\ timer' = [timer EXCEPT ![t] = IF timeout = "timed" THEN "due" ELSE "no"]
       /\ IF cur_priority[t] > cur_priority[eda_owner]
          THEN /\ SetPriority(eda_owner, cur_priority[t])
               /\ undercut' = (undercut \ {t}) \cup
                     {w \in ToSet(pending) : Prio[w] > cur_priority[t]}
          ELSE /\ undercut' = undercut \ {t}
               /\ UNCHANGED <<rdy_list, prioVars>>
       /\ indebted' = IF new_priority[t] # 0 THEN indebted \cup {t}
                                             ELSE indebted \ {t}
    /\ UNCHANGED <<eda_owner, pollVars, evts, is_sync_got, op, holds>>

-----------------------------------------------------------------------------
(* vsf_eda_mutex_leave and vsf_eda_sync_cancel *)

\* Mutant: the owner is not set to the task that is woken.
Mut_Leave(p) ==
    /\ AtWork(p) /\ cur[p] \in holds /\ eda_owner = cur[p]
    /\ GiveBack(cur[p])
    /\ eda_owner' = NoTask
    /\ IF pending = <<>>
       THEN UNCHANGED <<pending, is_sync_got, op>>
       ELSE /\ pending' = Tail(pending)
            /\ is_sync_got' = [is_sync_got EXCEPT ![Head(pending)] = TRUE]
            /\ op' = [op EXCEPT ![p] = [kind |-> "SYNC", to |-> Head(pending)]]
    /\ holds' = holds \ {cur[p]}
    /\ UNCHANGED <<pollVars, evts, wait, timer, undercut, indebted>>

\* The count is given back and handed to the first waiter in one section, its
\* event is posted after the section.
Leave(p) ==
    /\ AtWork(p) /\ cur[p] \in holds /\ eda_owner = cur[p]
    /\ GiveBack(cur[p])
    /\ IF pending = <<>>
       THEN /\ eda_owner' = NoTask
            /\ UNCHANGED <<pending, is_sync_got, op>>
       ELSE /\ eda_owner' = Head(pending)
            /\ pending' = Tail(pending)
            /\ is_sync_got' = [is_sync_got EXCEPT ![Head(pending)] = TRUE]
            /\ op' = [op EXCEPT ![p] = [kind |-> "SYNC", to |-> Head(pending)]]
    /\ holds' = holds \ {cur[p]}
    /\ UNCHANGED <<pollVars, evts, wait, timer, undercut, indebted>>

CancelNext(p) ==
    /\ IF pending = <<>>
       THEN op' = [op EXCEPT ![p] = NoOp] /\ UNCHANGED <<pending, is_sync_got>>
       ELSE /\ pending' = Tail(pending)
            /\ is_sync_got' = [is_sync_got EXCEPT ![Head(pending)] = TRUE]
            /\ op' = [op EXCEPT ![p] = [kind |-> "CANCEL", to |-> Head(pending)]]
    /\ UNCHANGED <<eda_owner, prioVars, rdy_list, pollVars, evts, wait, timer,
                   histVars>>

Cancel(p) == AtWork(p) /\ cur[p] \in Cancellers /\ CancelNext(p)

CancelLoop(p) == Running(p) /\ op[p].kind = "cancelloop" /\ CancelNext(p)

\* The post is forced.  After a SYNC the loop of leave finds the count taken.
PostEvent(p) ==
    /\ Running(p) /\ op[p].kind \in Events
    /\ Post(op[p].to, op[p].kind)
    /\ op' = [op EXCEPT ![p] = IF @.kind = "SYNC" THEN NoOp
                               ELSE [kind |-> "cancelloop", to |-> NoTask]]
    /\ UNCHANGED <<eda_owner, pending, prioVars, pollVars, waitVars, histVars>>

-----------------------------------------------------------------------------
(* The end of a wait *)

\* The kernel task posts VSF_EVT_TIMER; the queue refuses it to a task that is
\* ready, which is limited by its timed wait.
Expire(t) ==
    /\ timer[t] = "set"
    /\ timer' = [timer EXCEPT ![t] = "no"]
    /\ IF IsReady(t) THEN UNCHANGED <<evts, rdy_list>> ELSE Post(t, "TIMER")
    /\ UNCHANGED <<eda_owner, pending, prioVars, pollVars, wait, is_sync_got, op,
                   histVars>>

\* An event that is not about the mutex.
Handle(p) ==
    /\ Running(p) /\ evt[p] = "USER"
    /\ evt' = [evt EXCEPT ![p] = "none"]
    /\ UNCHANGED <<eda_owner, pending, prioVars, rdy_list, cur, stack, evts,
                   waitVars, op, histVars>>

\* vsf_eda_sync_get_reason for VSF_EVT_TIMER: a task that was given the mutex
\* meanwhile waits on for its VSF_EVT_SYNC, any other one leaves the list.
ReasonTimer(p) ==
    /\ Running(p) /\ evt[p] = "TIMER"
    /\ LET t == cur[p] IN
       IF is_sync_got[t] THEN UNCHANGED <<pending, wait>>
       ELSE /\ \E i \in DOMAIN pending :
                  pending[i] = t /\ pending' = RemoveAt(pending, i)
            /\ wait' = [wait EXCEPT ![t] = "no"]
    /\ evt' = [evt EXCEPT ![p] = "none"]
    /\ UNCHANGED <<eda_owner, prioVars, rdy_list, cur, stack, evts, timer,
                   is_sync_got, op, histVars>>

\* For VSF_EVT_SYNC and VSF_EVT_SYNC_CANCEL.
ReasonGet(p) ==
    /\ Running(p) /\ evt[p] \in {"SYNC", "CANCEL"}
    /\ LET t == cur[p] IN
       /\ timer' = [timer EXCEPT ![t] = "no"]
       /\ is_sync_got' = [is_sync_got EXCEPT ![t] = FALSE]
       /\ wait' = [wait EXCEPT ![t] = "no"]
       /\ holds' = IF evt[p] = "SYNC" THEN holds \cup {t} ELSE holds
    /\ evt' = [evt EXCEPT ![p] = "none"]
    /\ UNCHANGED <<eda_owner, pending, prioVars, rdy_list, cur, stack, evts, op,
                   undercut, indebted>>

Use(p) == \/ Enter(p) \/ Leave(p) \/ Cancel(p)
          \/ \E timeout \in {"timed", "forever"} : EnterPend(p, timeout)

Step(p) == \/ Dispatch(p) \/ Handle(p) \/ ReasonTimer(p) \/ ReasonGet(p)
           \/ CancelLoop(p) \/ PostEvent(p) \/ Finish(p) \/ SwiLeave(p)

Next == \/ \E p \in Prios : Use(p) \/ Step(p)
        \/ \E t \in Tasks : Wake(t) \/ Expire(t)

Spec == Init /\ [][Next]_vars

-----------------------------------------------------------------------------
(* Properties *)

\* How urgent t is to the processor: by the interrupt of the queue that
\* dispatches it, else by the queue it is or will be in.
Urgency(t) == IF Dispatched(t) THEN level[CHOOSE p \in Prios : cur[p] = t]
                               ELSE cur_priority[t]

\* While a task waits, the owner is at least as urgent, whether it is being
\* dispatched, ready, waiting for something else or not told yet. This fails
\* when a smaller loan replaces one the owner has not taken up yet, and no run
\* lists it (README, Observations).
SupportsInheritance ==
    \A i \in DOMAIN pending : Urgency(eda_owner) >= Prio[pending[i]]

\* Priority inheritance of vsf_mutex_t: the owner is at least as urgent as every
\* waiter but those whose loan to an owner that is being dispatched was replaced
\* by a smaller one, and those that queued before they had given a loan back;
\* an owner that had queued so is left out too.
OwnerInherits ==
    \A i \in DOMAIN pending :
        pending[i] \notin undercut \cup indebted /\ eda_owner \notin indebted
            => Urgency(eda_owner) >= Prio[pending[i]]

\* A loan ends with the ownership: a task that is not the owner and whose
\* handler has returned is back at its own priority.
LoanIsReturned ==
    \A t \in Tasks : t # eda_owner /\ ~Dispatched(t)
                        => cur_priority[t] = Prio[t] /\ new_priority[t] = 0

\* The task that leaves hands the mutex to the most urgent waiter: nobody waits
\* behind a less urgent one, but a task that queued before it had given a loan
\* back.
MostUrgentFirst ==
    \A i, j \in DOMAIN pending :
        i < j /\ pending[j] \notin indebted
            => GetCurPriority(pending[i]) >= GetCurPriority(pending[j])

\* At most one task is in the mutex, and it is the owner; an owner that is not
\* in it was taken out of the list.
OwnerIsInside ==
    /\ holds \subseteq {eda_owner}
    /\ eda_owner # NoTask => (eda_owner \in holds) # is_sync_got[eda_owner]

\* The VSF_EVT_SYNC of t is to be posted, is in its event list, or is with its
\* handler.
SyncUnderWay(t) ==
    \/ \E p \in Prios : op[p].kind = "SYNC" /\ op[p].to = t
    \/ \E i \in DOMAIN evts[t] : evts[t][i] = "SYNC"
    \/ \E p \in Prios : cur[p] = t /\ evt[p] = "SYNC"

\* The mutex excludes, and its owner is inside or is being told so.
MutexIsSound ==
    /\ TypeOK /\ OwnerIsInside
    /\ eda_owner \notin holds \cup {NoTask} => SyncUnderWay(eda_owner)

\* The interrupt of a queue is raised only while it dispatches the owner, so
\* that the task the mutex was handed to preempts the one that left; only an
\* owner that had taken up an earlier loan keeps it until its handler returns.
RaiseEnds ==
    \A p \in Prios : level[p] # p =>
        cur[p] = eda_owner \/ (cur[p] # NoTask /\ Prio[cur[p]] # p)

\* What was lent is taken back, from the task and from the interrupt of its
\* queue, in whichever order loan, leave and end of dispatch come.
LoanEnds == LoanIsReturned /\ RaiseEnds

\* No task that is less urgent than a waiter keeps the processor from an owner
\* that could run, unless its queue had preempted the owner before.
NoInversion ==
    \A p \in Prios : Running(p) =>
        \A i \in DOMAIN pending :
            /\ pending[i] \notin undercut \cup indebted
            /\ eda_owner \notin indebted
            /\ IsReady(eda_owner)
            /\ \A q \in ToSet(stack) \ {p} : cur[q] # eda_owner
            => level[p] >= Prio[pending[i]]
=============================================================================
