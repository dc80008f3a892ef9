------------------------------- MODULE EvtqList -------------------------------
(***************************************************************************)
(* The list event queues of the kernel, vsf_evtq_list.c: the event queues  *)
(* that are built when dynamic priority is enabled.  There is one queue    *)
(* per priority, a list of the edas that are ready; each eda has its own   *)
(* list of events.  The software interrupt of a queue preempts those of    *)
(* lower priority; a mutex moves an eda to another queue, or, while the    *)
(* eda is being dispatched, raises the interrupt of the queue it is in.    *)
(* Sections under vsf_protect_int are atomic.                              *)
(***************************************************************************)
EXTENDS Integers, FiniteSets, Sequences, SequencesExt

CONSTANTS
    Edas,          \* the event driven agents
    Prio,          \* Prio[e]: eda->priority
    Levels,        \* the priorities, 1 .. Levels
    Isrs,          \* interrupt handlers that post
    PoolSize,      \* event nodes, VSF_OS_CFG_EVTPOOL_SIZE
    Boosted,       \* the edas whose priority other tasks raise
    Killed,        \* the edas that are finalised, by themselves or by others
    Cleaners,      \* the edas that call vsf_evtq_clean_evt
    Limited,       \* the edas that set is_limitted, for a wait with a timeout
    NoEda          \* NULL

Prios == 1 .. Levels

ASSUME EdaAssumption == /\ IsFiniteSet(Edas) /\ NoEda \notin Edas
                        /\ Prio \in [Edas -> Prios]
                        /\ Boosted \cup Killed \subseteq Edas
                        /\ Cleaners \cup Limited \subseteq Edas
ASSUME BoundAssumption == /\ Levels \in Nat /\ PoolSize \in Nat
                          /\ IsFiniteSet(Isrs) /\ Isrs \cap Prios = {}

VARIABLES
    rdy_list,      \* evtq->rdy_list of each priority
    cur,           \* evtq->cur.eda of each priority
    evt_list,      \* the number of events in eda->evt_list
    is_ready,      \* eda->is_ready
    cur_priority,  \* eda->cur_priority
    new_priority,  \* eda->new_priority if is_new_prio, else 0
    is_limitted,
    is_to_exit,
    live,          \* the edas that were not terminated
    pool,          \* free event nodes
    swi,           \* the priorities whose software interrupt is pending
    level,         \* the priority of each software interrupt
    stack,         \* the queues whose poll is active, the running one first
    pc,            \* where the poll of each queue is
    eda,           \* its local eda, the one it dispatches or finalises
    node_eda,      \* its local node_eda, the next eda of the list
    target,        \* the eda a producer has allocated an event node for
    pulled         \* history: the queues whose poll has enabled the interrupts,
                   \* and lost the eda it is to go on with to a higher queue

vars == <<rdy_list, cur, evt_list, is_ready, cur_priority, new_priority,
          is_limitted, is_to_exit, live, pool, swi, level, stack, pc, eda,
          node_eda, target, pulled>>

prioVars == <<cur_priority, new_priority, level>>
flagVars == <<is_limitted, is_to_exit, live>>
pollVars == <<stack, pc, eda, node_eda>>

Producers == Isrs \cup Prios
PcStates == {"poll", "next", "start", "dispatch", "finish", "fini", "setdue",
             "fault"}

TypeOK ==
    /\ rdy_list \in [Prios -> Seq(Edas)]
    /\ cur \in [Prios -> Edas \cup {NoEda}]
    /\ evt_list \in [Edas -> Nat]
    /\ is_ready \in [Edas -> BOOLEAN]
    /\ cur_priority \in [Edas -> Prios]
    /\ new_priority \in [Edas -> 0 .. Levels]
    /\ is_limitted \in [Edas -> BOOLEAN] /\ is_to_exit \in [Edas -> BOOLEAN]
    /\ live \subseteq Edas
    /\ pool \in Nat
    /\ swi \subseteq Prios /\ pulled \subseteq Prios
    /\ level \in [Prios -> Prios]
    /\ stack \in Seq(Prios) /\ pc \in [Prios -> PcStates]
    /\ eda \in [Prios -> Edas \cup {NoEda}]
    /\ node_eda \in [Prios -> Edas \cup {NoEda}]
    /\ target \in [Producers -> Edas \cup {NoEda}]

Init ==
    /\ rdy_list = [p \in Prios |-> <<>>]
    /\ cur = [p \in Prios |-> NoEda]
    /\ evt_list = [e \in Edas |-> 0]
    /\ is_ready = [e \in Edas |-> FALSE]
    /\ cur_priority = Prio
    /\ new_priority = [e \in Edas |-> 0]
    /\ is_limitted = [e \in Edas |-> FALSE]
    /\ is_to_exit = [e \in Edas |-> FALSE]
    /\ live = Edas
    /\ pool = PoolSize
    /\ swi = {} /\ level = [p \in Prios |-> p]
    /\ stack = <<>> /\ pc = [p \in Prios |-> "poll"]
    /\ eda = [p \in Prios |-> NoEda] /\ node_eda = [p \in Prios |-> NoEda]
    /\ target = [c \in Producers |-> NoEda] /\ pulled = {}

-----------------------------------------------------------------------------
(* Who may run *)

\* The inner loop of poll goes from one eda to the next without unprotecting.
Unlocked == \A p \in Prios : pc[p] # "next"

Running(p) == stack # <<>> /\ Head(stack) = p

\* The event handler that queue p runs may call the kernel.
InHandler(p) ==
    Running(p) /\ Unlocked /\ pc[p] = "dispatch" /\ target[p] = NoEda

\* Posting to an eda that was finalised is outside the contract of
\* vsf_eda_post_evt.
MayReceive(e) == e \in live /\ ~is_to_exit[e]

-----------------------------------------------------------------------------
(* __vsf_evtq_post *)

\* __vsf_os_alloc_evt_node, before the protected section; with an empty pool the
\* post fails and changes nothing.
PostAlloc(c, e) ==
    /\ Unlocked /\ MayReceive(e) /\ pool > 0
    /\ c \in Prios => InHandler(c)
    /\ target[c] = NoEda
    /\ pool' = pool - 1
    /\ target' = [target EXCEPT ![c] = e]
    /\ UNCHANGED <<rdy_list, cur, evt_list, is_ready, prioVars, flagVars, swi,
                   pollVars, pulled>>

MayPost(c, e) ==
    /\ Unlocked /\ target[c] = e
    /\ c \in Prios => Running(c)

Refused(e, force) == is_limitted[e] /\ is_ready[e] /\ ~force

PostEnqueue(c, e, force) ==
    /\ MayPost(c, e) /\ ~Refused(e, force)
    /\ evt_list' = [evt_list EXCEPT ![e] = @ + 1]
    /\ IF is_ready[e] THEN UNCHANGED <<is_ready, rdy_list>>
       ELSE /\ is_ready' = [is_ready EXCEPT ![e] = TRUE]
            /\ rdy_list' = [rdy_list EXCEPT ![cur_priority[e]] = Append(@, e)]
    /\ swi' = swi \cup {cur_priority[e]}
    /\ target' = [target EXCEPT ![c] = NoEda]
    /\ UNCHANGED <<cur, prioVars, flagVars, pool, pollVars, pulled>>

\* Mutant: the node is not freed.
Mut_PostRefused(c, e, force) ==
    /\ MayPost(c, e) /\ Refused(e, force)
    /\ target' = [target EXCEPT ![c] = NoEda]
    /\ UNCHANGED <<rdy_list, cur, evt_list, is_ready, prioVars, flagVars, pool,
                   swi, pollVars, pulled>>

\* VSF_ERR_FAIL: the node goes back to the pool.
PostRefused(c, e, force) ==
    /\ MayPost(c, e) /\ Refused(e, force)
    /\ pool' = pool + 1
    /\ target' = [target EXCEPT ![c] = NoEda]
    /\ UNCHANGED <<rdy_list, cur, evt_list, is_ready, prioVars, flagVars, swi,
                   pollVars, pulled>>

-----------------------------------------------------------------------------
(* Priorities *)

Position(list, e) == CHOOSE i \in DOMAIN list : list[i] = e

\* vsf_dlist_remove of an eda that is in the list.
Unlink(list, e) == RemoveAt(list, Position(list, e))

\* The queues whose poll is to go on with e and has enabled the interrupts.
Remembering(e) ==
    {p \in Prios : node_eda[p] = e /\ pc[p] \in {"setdue", "fini"}}

\* Mutant: the queue that the eda moves to is not activated.
Mut_UpdatePriority(e, q, lists, ready) ==
    /\ rdy_list' = IF ready[e]
                   THEN [lists EXCEPT ![cur_priority[e]] = Unlink(@, e),
                                      ![q] = Append(@, e)]
                   ELSE lists
    /\ cur_priority' = [cur_priority EXCEPT ![e] = q]
    /\ UNCHANGED swi

\* __vsf_eda_update_priotiry, given the ready lists and flags it starts from:
\* the eda moves to the queue of q, which is activated if there is an event.
UpdatePriority(e, q, lists, ready) ==
    /\ IF ready[e]
       THEN /\ rdy_list' = [lists EXCEPT ![cur_priority[e]] = Unlink(@, e),
                                         ![q] = Append(@, e)]
            /\ swi' = IF evt_list[e] > 0 THEN swi \cup {q} ELSE swi
       ELSE rdy_list' = lists /\ UNCHANGED swi
    /\ cur_priority' = [cur_priority EXCEPT ![e] = q]

\* __vsf_eda_set_priority
SetPriority(e, q) ==
    /\ cur_priority[e] # q
    /\ IF cur[cur_priority[e]] # e /\ new_priority[e] = 0
       THEN /\ UpdatePriority(e, q, rdy_list, is_ready)
            /\ UNCHANGED <<new_priority, level>>
       ELSE /\ new_priority' = [new_priority EXCEPT ![e] = q]
            /\ level' = IF q > cur_priority[e]
                        THEN [level EXCEPT ![cur_priority[e]] = q] ELSE level
            /\ UNCHANGED <<rdy_list, swi, cur_priority>>

\* __vsf_eda_sync_decrease_ex lends the priority of the caller to the owner.
Boost(p, e) ==
    /\ InHandler(p) /\ e \in Boosted /\ e # cur[p] /\ MayReceive(e)
    /\ cur_priority[cur[p]] > cur_priority[e]
    /\ SetPriority(e, cur_priority[cur[p]])
    /\ pulled' = pulled \cup Remembering(e)
    /\ UNCHANGED <<cur, evt_list, is_ready, flagVars, pool, pollVars, target>>

\* Mutant: the priority of the interrupt is not put back.
Mut_Restore(p) ==
    /\ InHandler(p)
    /\ LET e == cur[p] IN
       \/ cur_priority[e] # Prio[e] /\ SetPriority(e, Prio[e])
       \/ /\ cur_priority[e] = Prio[e] /\ new_priority[e] # 0
          /\ new_priority' = [new_priority EXCEPT ![e] = 0]
          /\ UNCHANGED <<rdy_list, swi, cur_priority, level>>
    /\ UNCHANGED <<cur, evt_list, is_ready, flagVars, pool, pollVars, target,
                   pulled>>

\* __vsf_eda_sync_increase_ex gives it back, or drops a priority that was lent
\* during this dispatch and has not been taken up.
Restore(p) ==
    /\ InHandler(p)
    /\ LET e == cur[p] IN
       \/ cur_priority[e] # Prio[e] /\ SetPriority(e, Prio[e])
       \/ /\ cur_priority[e] = Prio[e] /\ new_priority[e] # 0
          /\ new_priority' = [new_priority EXCEPT ![e] = 0]
          /\ level' = [level EXCEPT ![Prio[e]] = Prio[e]]
          /\ UNCHANGED <<rdy_list, swi, cur_priority>>
    /\ UNCHANGED <<cur, evt_list, is_ready, flagVars, pool, pollVars, target,
                   pulled>>

-----------------------------------------------------------------------------
(* vsf_evtq_poll *)

\* The interrupt of a queue preempts every queue of lower priority.
SwiEnter(p) ==
    /\ Unlocked /\ p \in swi /\ p \notin ToSet(stack)
    /\ \A q \in ToSet(stack) : level[p] > level[q]
    /\ swi' = swi \ {p}
    /\ stack' = <<p>> \o stack
    /\ pc' = [pc EXCEPT ![p] = "poll"]
    /\ UNCHANGED <<rdy_list, cur, evt_list, is_ready, prioVars, flagVars, pool,
                   eda, node_eda, target, pulled>>

SwiLeave(p) ==
    /\ Running(p) /\ Unlocked /\ pc[p] = "poll" /\ rdy_list[p] = <<>>
    /\ stack' = Tail(stack)
    /\ UNCHANGED <<rdy_list, cur, evt_list, is_ready, prioVars, flagVars, pool,
                   swi, pc, eda, node_eda, target, pulled>>

\* The eda at hand becomes current and its oldest event is taken. An eda that
\* has no event (node_evt is NULL) or is not of this list is a fault: what the
\* program does then is not modelled.
Take(p, e) ==
    /\ IF e \in ToSet(rdy_list[p]) /\ evt_list[e] > 0
       THEN /\ cur' = [cur EXCEPT ![p] = e]
            /\ eda' = [eda EXCEPT ![p] = e]
            /\ evt_list' = [evt_list EXCEPT ![e] = @ - 1]
            /\ pc' = [pc EXCEPT ![p] = "start"]
            /\ node_eda' = [node_eda EXCEPT ![p] = NoEda]
            /\ pulled' = pulled \ {p}
       ELSE /\ pc' = [pc EXCEPT ![p] = "fault"]
            /\ UNCHANGED <<cur, eda, evt_list, node_eda, pulled>>
    /\ UNCHANGED <<rdy_list, is_ready, prioVars, flagVars, pool, swi, stack,
                   target>>

\* Mutant: the list is read from its tail.
Mut_PollFirst(p) ==
    /\ Running(p) /\ Unlocked /\ pc[p] = "poll" /\ rdy_list[p] # <<>>
    /\ Take(p, Last(rdy_list[p]))

PollFirst(p) ==
    /\ Running(p) /\ Unlocked /\ pc[p] = "poll" /\ rdy_list[p] # <<>>
    /\ Take(p, Head(rdy_list[p]))

PollNext(p) ==
    /\ Running(p) /\ pc[p] = "next" /\ node_eda[p] # NoEda
    /\ Take(p, node_eda[p])

\* The inner loop ends.
PollAgain(p) ==
    /\ Running(p) /\ pc[p] = "next" /\ node_eda[p] = NoEda
    /\ pc' = [pc EXCEPT ![p] = "poll"]
    /\ UNCHANGED <<rdy_list, cur, evt_list, is_ready, prioVars, flagVars, pool,
                   swi, stack, eda, node_eda, target, pulled>>

\* After a fault, this queue does nothing any more.
Halt(p) == pc[p] = "fault" /\ UNCHANGED vars

\* The node is freed and the event handler called.
PollStart(p) ==
    /\ Running(p) /\ Unlocked /\ pc[p] = "start"
    /\ pool' = pool + 1
    /\ pc' = [pc EXCEPT ![p] = IF is_to_exit[eda[p]] THEN "finish"
                                                     ELSE "dispatch"]
    /\ UNCHANGED <<rdy_list, cur, evt_list, is_ready, prioVars, flagVars, swi,
                   stack, eda, node_eda, target, pulled>>

HandlerReturn(p) ==
    /\ InHandler(p)
    /\ pc' = [pc EXCEPT ![p] = "finish"]
    /\ UNCHANGED <<rdy_list, cur, evt_list, is_ready, prioVars, flagVars, pool,
                   swi, stack, eda, node_eda, target, pulled>>

\* Mutant: the eda to go on with is read when this one has been enqueued again,
\* and before it changes its queue.
Mut_Successor(e, before, after) == IF after = <<>> THEN NoEda ELSE Head(after)

\* rdy_node.next of e, before e is removed from its list and enqueued again.
Successor(e, before, after) ==
    LET i == Position(before, e)
    IN  IF i < Len(before) THEN before[i + 1] ELSE NoEda

\* The protected section after the dispatch: the next eda is remembered, this
\* one goes to the end of the list or is not ready any more, and a priority
\* that was lent meanwhile is taken up.
PollFinish(p) ==
    /\ Running(p) /\ Unlocked /\ pc[p] = "finish"
    /\ LET e     == eda[p]
           more  == evt_list[e] > 0
           lists == [rdy_list EXCEPT ![p] = IF more THEN Append(Unlink(@, e), e)
                                                    ELSE Unlink(@, e)]
           ready == [is_ready EXCEPT ![e] = more]
       IN /\ node_eda' = [node_eda EXCEPT ![p] = Successor(e, rdy_list[p],
                                                           lists[p])]
          /\ is_ready' = ready
          /\ IF new_priority[e] # 0
             THEN /\ UpdatePriority(e, new_priority[e], lists, ready)
                  /\ new_priority' = [new_priority EXCEPT ![e] = 0]
                  /\ level' = [level EXCEPT ![p] = p]
             ELSE rdy_list' = lists /\ UNCHANGED <<prioVars, swi>>
          /\ pc' = [pc EXCEPT ![p] = IF is_to_exit[e] THEN "fini"
                                     ELSE IF more THEN "next" ELSE "setdue"]
          /\ eda' = [eda EXCEPT ![p] = IF is_to_exit[e] THEN e ELSE NoEda]
    /\ cur' = [cur EXCEPT ![p] = NoEda]
    /\ UNCHANGED <<evt_list, flagVars, pool, stack, target, pulled>>

\* Interrupts are enabled while the timer of the eda is set.
PollSetDue(p) ==
    /\ Running(p) /\ Unlocked /\ pc[p] = "setdue"
    /\ pc' = [pc EXCEPT ![p] = "next"]
    /\ UNCHANGED <<rdy_list, cur, evt_list, is_ready, prioVars, flagVars, pool,
                   swi, stack, eda, node_eda, target, pulled>>

\* vsf_evtq_on_eda_fini of an eda that is not being dispatched.
Terminate(e) ==
    /\ rdy_list' = IF is_ready[e]
                   THEN [rdy_list EXCEPT ![cur_priority[e]] = Unlink(@, e)]
                   ELSE rdy_list
    /\ is_ready' = [is_ready EXCEPT ![e] = FALSE]
    /\ evt_list' = [evt_list EXCEPT ![e] = 0]
    /\ pool' = pool + evt_list[e]
    /\ live' = live \ {e}
    /\ pulled' = pulled \cup Remembering(e)

\* Interrupts are enabled here, too.
PollFini(p) ==
    /\ Running(p) /\ Unlocked /\ pc[p] = "fini"
    /\ Terminate(eda[p])
    /\ pc' = [pc EXCEPT ![p] = "next"]
    /\ eda' = [eda EXCEPT ![p] = NoEda]
    /\ UNCHANGED <<cur, prioVars, is_limitted, is_to_exit, swi, stack,
                   node_eda, target>>

-----------------------------------------------------------------------------
(* What event handlers do *)

SetLimitted(p, b) ==
    /\ InHandler(p) /\ cur[p] \in Limited
    /\ is_limitted' = [is_limitted EXCEPT ![cur[p]] = b]
    /\ UNCHANGED <<rdy_list, cur, evt_list, is_ready, prioVars, is_to_exit,
                   live, pool, swi, pollVars, target, pulled>>

\* vsf_eda_fini of the running eda, or of another one, once nobody is posting
\* to it any more.
Fini(p, e) ==
    /\ InHandler(p) /\ e \in Killed /\ MayReceive(e)
    /\ \A c \in Producers : target[c] # e
    /\ IF cur[cur_priority[e]] = e
       THEN /\ is_to_exit' = [is_to_exit EXCEPT ![e] = TRUE]
            /\ UNCHANGED <<rdy_list, is_ready, evt_list, pool, live, pulled>>
       ELSE Terminate(e) /\ UNCHANGED is_to_exit
    /\ UNCHANGED <<cur, prioVars, is_limitted, swi, pollVars, target>>

\* One node removed by vsf_evtq_clean_evt.
Clean(p) ==
    /\ InHandler(p) /\ cur[p] \in Cleaners /\ evt_list[cur[p]] > 0
    /\ evt_list' = [evt_list EXCEPT ![cur[p]] = @ - 1]
    /\ pool' = pool + 1
    /\ UNCHANGED <<rdy_list, cur, is_ready, prioVars, flagVars, swi, pollVars,
                   target, pulled>>

Produce(c) ==
    \/ \E e \in Edas : PostAlloc(c, e)
    \/ \E e \in Edas, force \in BOOLEAN : \/ PostEnqueue(c, e, force)
                                          \/ PostRefused(c, e, force)

Poll(p) ==
    \/ SwiEnter(p) \/ SwiLeave(p) \/ PollFirst(p) \/ PollNext(p)
    \/ PollAgain(p) \/ PollStart(p) \/ PollFinish(p) \/ PollSetDue(p)
    \/ PollFini(p)

Handle(p) ==
    \/ HandlerReturn(p) \/ Restore(p) \/ Clean(p)
    \/ \E e \in Edas : Boost(p, e) \/ Fini(p, e)
    \/ \E b \in BOOLEAN : SetLimitted(p, b)

Next == \/ \E c \in Producers : Produce(c)
        \/ \E p \in Prios : Poll(p) \/ Handle(p) \/ Halt(p)

\* The processor runs, takes a pending interrupt as soon as interrupts are
\* enabled, and every handler and every post of a handler comes to an end.
Fairness ==
    \A p \in Prios : /\ WF_vars(Poll(p)) /\ SF_vars(SwiEnter(p))
                     /\ SF_vars(HandlerReturn(p))
                     /\ SF_vars(\E e \in Edas : PostEnqueue(p, e, TRUE))

Spec == Init /\ [][Next]_vars
FairSpec == Spec /\ Fairness

-----------------------------------------------------------------------------
(* Properties *)

\* vsf_evtq_poll dispatches pending events: it never takes an eda that has none,
\* or one that is not of its queue. This fails when an eda that shares its queue
\* is moved or finalised from a higher one, and no run lists it (README,
\* Observations).
DispatchesPending == \A p \in Prios : pc[p] # "fault"

\* vsf_evtq_poll terminates an eda that is still there. This fails when an eda
\* that finalised itself with an event left takes up a lent priority: the higher
\* queue terminates it before its own poll does. No run lists it, either.
TerminatesOnce == [][\A p \in Prios : PollFini(p) => eda[p] \in live]_vars

\* The eda that poll remembers, interrupts being enabled meanwhile, stays in its
\* list until poll goes on with it, and has an event then, unless a higher queue
\* moved or finalised that very eda: posts, cleans, kills and moves of the others
\* and of the one just dispatched leave it.
NextIsListed ==
    \A p \in Prios \ pulled :
        /\ pc[p] # "fault"
        /\ pc[p] \in {"setdue", "fini", "next"} /\ node_eda[p] # NoEda
              => node_eda[p] \in ToSet(rdy_list[p])

\* An eda is in the list of its current priority, once, exactly while it is
\* ready, and in no other; a ready eda has an event or is being dispatched.
ReadyIsListed ==
    /\ \A p \in Prios : \A i, j \in DOMAIN rdy_list[p] :
          rdy_list[p][i] = rdy_list[p][j] => i = j
    /\ \A e \in Edas : \A p \in Prios :
          e \in ToSet(rdy_list[p]) <=> is_ready[e] /\ cur_priority[e] = p
    /\ \A e \in Edas :
          is_ready[e] => evt_list[e] > 0 \/ \E p \in Prios : cur[p] = e

\* The ready lists, the flags and the eda that poll remembers agree in every
\* interleaving of posts, moves, kills and dispatches.
ListsAreSound == TypeOK /\ NextIsListed /\ ReadyIsListed

\* The nodes in the event lists, those a producer has allocated, and those that
\* poll has taken out of a list and not freed yet.
QueuedNodes == UNION {{e} \X (1 .. evt_list[e]) : e \in Edas}
AllocatedNodes == {c \in Producers : target[c] # NoEda}
TakenNodes == {p \in Prios : pc[p] = "start"}

\* Every event node is free, queued, or in the hands of one producer or poll.
NodesConserved ==
    pool + Cardinality(QueuedNodes) + Cardinality(AllocatedNodes)
         + Cardinality(TakenNodes) = PoolSize

\* A queue with a ready eda runs, or its interrupt is pending.
NoLostWakeup ==
    \A p \in Prios : rdy_list[p] # <<>> => p \in swi \/ p \in ToSet(stack)

\* The interrupt of a queue is raised only while the eda that was lent the
\* priority is being dispatched in it: poll or the owner puts it back.
RaiseIsTemporary ==
    \A p \in Prios :
        level[p] # p => cur[p] # NoEda /\ new_priority[cur[p]] # 0

\* No eda is dispatched by two queues at once: one that is lent a priority while
\* its handler is preempted is not entered again by the higher queue.
NotReentered ==
    \A p, q \in Prios : p # q /\ cur[p] = cur[q] => cur[p] = NoEda

\* A lent priority raises the dispatch of the eda it is lent to and nothing
\* else: not a second dispatch of it, and not the others of its queue.
LoanIsSound == RaiseIsTemporary /\ NotReentered

\* An eda that is ready in the highest queue, by its own priority or by a lent
\* one, is dispatched, whatever the others of that queue post to themselves.
ReadyIsServed ==
    \A e \in Boosted \cup {h \in Edas : Prio[h] = Levels} :
        is_ready[e] /\ cur_priority[e] = Levels
            ~> ~is_ready[e] \/ \E p \in Prios : cur[p] = e
=============================================================================
