------------------------------- MODULE BmpEvt --------------------------------
(***************************************************************************)
(* vsf_bmpevt_t, __eda/vsf_eda_bmpevt.c: tasks wait for bits.  Whoever     *)
(* sets bits does not look for the tasks these wake: it posts one          *)
(* VSF_EVT_SYNC_POLL to the first task in the list, which tests the bits   *)
(* in its own context and posts the event on to the next one.  A poll that *)
(* is asked for meanwhile is remembered in is_to_repoll.  Every protected  *)
(* section, and every unprotected read that others may disturb, is a step; *)
(* tasks of higher priority may run between two steps.  Event queue and    *)
(* timers are those of the list event queue: an eda is ready until its     *)
(* handler has returned, and its timer is set after that.  Adapters are    *)
(* left out (adapter_count is 0).                                          *)
(***************************************************************************)
EXTENDS Integers, FiniteSets, Sequences, SequencesExt

CONSTANTS
    Tasks,
    Null,
    Bits,
    AutoReset,      \* auto_reset
    Pender,         \* what each task waits for: [mask, op]
    Masks,          \* the masks of set and reset
    CancelMasks,
    Timeouts,       \* those each task uses: "timed" (> 0), "forever" (< 0)
    Prios           \* the assignments of priorities to consider

ASSUME TaskAssumption == IsFiniteSet(Tasks) /\ Null \notin Tasks
ASSUME BitAssumption == IsFiniteSet(Bits) /\ AutoReset \subseteq Bits
ASSUME UseAssumption ==
    /\ Pender \in [Tasks -> [mask : SUBSET Bits \ {{}}, op : {"OR", "AND"}]]
    /\ Masks \cup CancelMasks \subseteq SUBSET Bits \ {{}}
    /\ Timeouts \in [Tasks -> SUBSET {"timed", "forever"}]
    /\ Prios \subseteq [Tasks -> Nat]

VARIABLES
    value,
    cancelled_value,
    is_polling,
    is_to_repoll,
    pending_list,
    evts,           \* the events queued for each task
    timer,          \* the timer of the task's wait; it has one iff is_limitted
    at,             \* where each task is
    prio,           \* the priorities of the tasks, fixed
    passed,         \* history: tasks that the last poll has passed over
    dropped         \* history: a poll event met a task that did not wait

vars == <<value, cancelled_value, is_polling, is_to_repoll, pending_list,
          evts, timer, at, prio, passed, dropped>>

Nodes == Tasks \cup {Null}
Rests == {"idle", "wait"}
Steps == {"start", "head", "post", "next", "repoll", "reset", "clear", "remove"}

\* pc: the next step; evt, node: of __vsf_eda_bmpevt_post_evt; mask: of
\* vsf_eda_bmpevt_reset; then: what the task does when it returns.
Rest(pc) == [pc |-> pc, evt |-> "POLL", node |-> Null, mask |-> {}, then |-> pc]

TypeOK ==
    /\ value \subseteq Bits /\ cancelled_value \subseteq Bits
    /\ is_polling \in BOOLEAN /\ is_to_repoll \in BOOLEAN
    /\ pending_list \in Seq(Tasks)
    /\ evts \in [Tasks -> Seq({"POLL", "CANCEL", "TIMER"})]
    /\ timer \in [Tasks -> {"no", "to_set", "set", "posted", "refused"}]
    /\ at \in [Tasks -> [pc : Rests \cup Steps, evt : {"POLL", "CANCEL"},
                         node : Nodes, mask : SUBSET Bits, then : Rests]]
    /\ prio \in [Tasks -> Nat]
    /\ passed \subseteq Tasks /\ dropped \in BOOLEAN

Init ==
    /\ value = {} /\ cancelled_value = {}
    /\ is_polling = FALSE /\ is_to_repoll = FALSE
    /\ pending_list = <<>>
    /\ evts = [t \in Tasks |-> <<>>]
    /\ timer = [t \in Tasks |-> "no"]
    /\ at = [t \in Tasks |-> Rest("idle")]
    /\ prio \in Prios
    /\ passed = {} /\ dropped = FALSE

-----------------------------------------------------------------------------
(* Who may run, and the list *)

Running(t) == at[t].pc \notin Rests
MayRun(t) ==
    \A u \in Tasks \ {t} : /\ Running(u) => prio[t] > prio[u]
                           /\ evts[u] # <<>> => prio[t] >= prio[u]
Idle(t) == MayRun(t) /\ at[t].pc = "idle"
AtStep(t, pc) == MayRun(t) /\ at[t].pc = pc

\* A post is refused to an eda that is limited and ready.
Refuses(t) == timer[t] # "no" /\ (evts[t] # <<>> \/ Running(t))

Listed(t) == t \in Range(pending_list)
Position(t) == CHOOSE i \in DOMAIN pending_list : pending_list[i] = t
After(t) == SubSeq(pending_list, Position(t) + 1, Len(pending_list))
First(s) == IF s = <<>> THEN Null ELSE Head(s)
\* pending_node.next; __vsf_dlist_remove_imp clears that of the node it removes.
NextOf(t) == IF Listed(t) THEN First(After(t)) ELSE Null
\* vsf_dlist_remove of a task that is in the list.
Without(t) == RemoveAt(pending_list, Position(t))

Goto(t, pc) == at' = [at EXCEPT ![t].pc = pc]

\* The handler returns, after the events became e.  A wait that is over has its
\* timer cancelled and is not limited any more; else is_to_set_due is served
\* when the eda is not ready any more.
Return(t, e) ==
    /\ evts' = e
    /\ at' = [at EXCEPT ![t] = Rest(at[t].then)]
    /\ timer' = CASE at[t].then = "idle" -> [timer EXCEPT ![t] = "no"]
                  [] timer[t] = "to_set" /\ e[t] = <<>> ->
                         [timer EXCEPT ![t] = "set"]
                  [] OTHER -> timer

-----------------------------------------------------------------------------
(* The calls *)

Satisfied(t) == IF Pender[t].op = "AND" THEN Pender[t].mask \subseteq value
                                        ELSE Pender[t].mask \cap value # {}

Call(t, pc, evt, then) ==
    at' = [at EXCEPT ![t] = [Rest(then) EXCEPT !.pc = pc, !.evt = evt]]

\* vsf_eda_bmpevt_pend; it fails, with no effect, if bits of the mask are
\* cancelled.
Pend(t, timeout) ==
    /\ Idle(t) /\ Pender[t].mask \cap cancelled_value = {}
    /\ pending_list' = Append(pending_list, t)
    /\ timer' = [timer EXCEPT ![t] = IF timeout = "timed" THEN "to_set" ELSE "no"]
    /\ Call(t, "start", "POLL", "wait")
    /\ passed' = passed \ {t}
    /\ UNCHANGED <<value, cancelled_value, is_polling, is_to_repoll, evts, prio,
                   dropped>>

\* vsf_eda_bmpevt_pend with timeout 0, when the bits are there
Try(t) ==
    /\ Idle(t) /\ Satisfied(t)
    /\ at' = [at EXCEPT ![t] = [Rest("idle") EXCEPT
                 !.pc = "reset", !.mask = value \cap Pender[t].mask \cap AutoReset]]
    /\ UNCHANGED <<value, cancelled_value, is_polling, is_to_repoll,
                   pending_list, evts, timer, prio, passed, dropped>>

Set(t, mask) ==
    /\ Idle(t)
    /\ value' = value \cup mask
    /\ Call(t, "start", "POLL", "idle")
    /\ UNCHANGED <<cancelled_value, is_polling, is_to_repoll, pending_list,
                   evts, timer, prio, passed, dropped>>

ResetCall(t, mask) ==
    /\ Idle(t)
    /\ at' = [at EXCEPT ![t] =
                 [Rest("idle") EXCEPT !.pc = "reset", !.mask = mask]]
    /\ UNCHANGED <<value, cancelled_value, is_polling, is_to_repoll,
                   pending_list, evts, timer, prio, passed, dropped>>

\* Bound: bits are cancelled once.
Cancel(t, mask) ==
    /\ Idle(t) /\ ~(mask \subseteq cancelled_value)
    /\ cancelled_value' = cancelled_value \cup mask
    /\ Call(t, "head", "CANCEL", "idle")
    /\ UNCHANGED <<value, is_polling, is_to_repoll, pending_list, evts,
                   timer, prio, passed, dropped>>

-----------------------------------------------------------------------------
(* vsf_eda_bmpevt_reset: mask &= value, then the protected section *)

Reset(t) ==
    /\ AtStep(t, "reset")
    /\ at' = [at EXCEPT ![t].mask = @ \cap value, ![t].pc = "clear"]
    /\ UNCHANGED <<value, cancelled_value, is_polling, is_to_repoll,
                   pending_list, evts, timer, prio, passed, dropped>>

Clear(t) ==
    /\ AtStep(t, "clear")
    /\ value' = value \ at[t].mask
    /\ IF Listed(t) THEN Goto(t, "remove") /\ UNCHANGED <<evts, timer>>
                    ELSE Return(t, evts)
    /\ UNCHANGED <<cancelled_value, is_polling, is_to_repoll, pending_list,
                   prio, passed, dropped>>

-----------------------------------------------------------------------------
(* __vsf_eda_bmpevt_poll_start and __vsf_eda_bmpevt_post_evt *)

\* Mutant: a poll that is asked for during a poll is not remembered.
Mut_PollStart(t) ==
    /\ AtStep(t, "start")
    /\ is_polling' = TRUE
    /\ IF is_polling THEN Return(t, evts)
                     ELSE Goto(t, "head") /\ UNCHANGED <<evts, timer>>
    /\ UNCHANGED <<value, cancelled_value, is_to_repoll, pending_list,
                   prio, passed, dropped>>

PollStart(t) ==
    /\ AtStep(t, "start")
    /\ is_polling' = TRUE
    /\ is_to_repoll' = (is_to_repoll \/ is_polling)
    /\ IF is_polling THEN Return(t, evts)
                     ELSE Goto(t, "head") /\ UNCHANGED <<evts, timer>>
    /\ UNCHANGED <<value, cancelled_value, pending_list, prio, passed,
                   dropped>>

TakeHead(t) ==
    /\ AtStep(t, "head")
    /\ at' = [at EXCEPT ![t].node = First(pending_list), ![t].pc = "post"]
    /\ UNCHANGED <<value, cancelled_value, is_polling, is_to_repoll,
                   pending_list, evts, timer, prio, passed, dropped>>

Repoll(t) ==
    /\ AtStep(t, "repoll")
    /\ is_to_repoll' = FALSE
    /\ Goto(t, "head")
    /\ UNCHANGED <<value, cancelled_value, is_polling, pending_list,
                   evts, timer, prio, passed, dropped>>

PostRepoll(t) ==
    /\ AtStep(t, "post") /\ at[t].evt = "POLL" /\ is_to_repoll
    /\ Goto(t, "repoll")
    /\ UNCHANGED <<value, cancelled_value, is_polling, is_to_repoll,
                   pending_list, evts, timer, prio, passed, dropped>>

\* The end of the list; the end of a poll is a protected section.
PostEnd(t) ==
    /\ AtStep(t, "post") /\ at[t].node = Null
    /\ at[t].evt = "POLL" => ~is_to_repoll
    /\ is_polling' = (is_polling /\ at[t].evt # "POLL")
    /\ Return(t, evts)
    /\ UNCHANGED <<value, cancelled_value, is_to_repoll, pending_list,
                   prio, passed, dropped>>

\* The event is posted to node, or is refused; then node->next is next.
Post(t) ==
    LET node == at[t].node IN
    /\ AtStep(t, "post") /\ node # Null
    /\ at[t].evt = "POLL" => ~is_to_repoll
    /\ IF Refuses(node)
       THEN /\ Goto(t, "next")
            /\ passed' = IF at[t].evt = "POLL" THEN passed \cup {node} ELSE passed
            /\ UNCHANGED <<evts, timer>>
       ELSE /\ Return(t, [evts EXCEPT ![node] = Append(@, at[t].evt)])
            /\ UNCHANGED passed
    /\ UNCHANGED <<value, cancelled_value, is_polling, is_to_repoll,
                   pending_list, prio, dropped>>

\* A node that has left the list since has no next.
PostNext(t) ==
    LET node == at[t].node IN
    /\ AtStep(t, "next")
    /\ at' = [at EXCEPT ![t].node = NextOf(node), ![t].pc = "post"]
    /\ passed' = IF Listed(node) THEN passed ELSE passed \cup Range(pending_list)
    /\ UNCHANGED <<value, cancelled_value, is_polling, is_to_repoll,
                   pending_list, evts, timer, prio, dropped>>

-----------------------------------------------------------------------------
(* Events; a waiting task calls vsf_eda_bmpevt_poll for each *)

Event(t, evt) == /\ MayRun(t) /\ at[t].pc = "wait"
                 /\ evts[t] # <<>> /\ Head(evts[t]) = evt
Taken(t) == [evts EXCEPT ![t] = Tail(@)]

\* A task that leaves the list while the event of a poll is in its queue takes
\* the rest of that poll with it.
PassedWith(t) == IF \E i \in DOMAIN evts[t] : evts[t][i] = "POLL"
                 THEN passed \cup Range(pending_list) ELSE passed

TimerEvent(t) ==
    /\ Event(t, "TIMER")
    /\ evts' = Taken(t)
    /\ pending_list' = Without(t)
    /\ timer' = [timer EXCEPT ![t] = "no"]
    /\ at' = [at EXCEPT ![t] = Rest("idle")]
    /\ passed' = PassedWith(t)
    /\ UNCHANGED <<value, cancelled_value, is_polling, is_to_repoll,
                   prio, dropped>>

\* `cancelled_value && pender->mask`: any cancel ends any wait.  The event goes
\* on to next, which the removal has cleared.
CancelEvent(t) ==
    /\ Event(t, "CANCEL")
    /\ evts' = Taken(t)
    /\ pending_list' = IF cancelled_value # {} THEN Without(t) ELSE pending_list
    /\ at' = [at EXCEPT ![t] = [Rest(IF cancelled_value # {} THEN "idle" ELSE "wait")
                 EXCEPT !.pc = "post", !.evt = "CANCEL",
                        !.node = IF cancelled_value # {} THEN Null ELSE NextOf(t)]]
    /\ passed' = PassedWith(t)
    /\ UNCHANGED <<value, cancelled_value, is_polling, is_to_repoll,
                   timer, prio, dropped>>

\* Mutant: the event is not posted on.
Mut_PollEventPending(t) ==
    /\ Event(t, "POLL") /\ ~Satisfied(t)
    /\ Return(t, Taken(t))
    /\ passed' = passed \ {t}
    /\ UNCHANGED <<value, cancelled_value, is_polling, is_to_repoll,
                   pending_list, prio, dropped>>

PollEventPending(t) ==
    /\ Event(t, "POLL") /\ ~Satisfied(t)
    /\ evts' = Taken(t)
    /\ at' = [at EXCEPT ![t] = [Rest("wait") EXCEPT !.pc = "post", !.node = NextOf(t)]]
    /\ passed' = passed \ {t}
    /\ UNCHANGED <<value, cancelled_value, is_polling, is_to_repoll,
                   pending_list, timer, prio, dropped>>

PollEventGet(t) ==
    /\ Event(t, "POLL") /\ Satisfied(t)
    /\ evts' = Taken(t)
    /\ at' = [at EXCEPT ![t] = [Rest("idle") EXCEPT
                 !.pc = "reset",
                 !.mask = value \cap Pender[t].mask \cap AutoReset]]
    /\ UNCHANGED <<value, cancelled_value, is_polling, is_to_repoll,
                   pending_list, timer, prio, passed, dropped>>

\* The event goes on to next, which the removal has cleared: the poll ends
\* here, or begins again.
RemovePender(t) ==
    /\ AtStep(t, "remove")
    /\ pending_list' = Without(t)
    /\ at' = [at EXCEPT ![t].pc = "post", ![t].node = Null]
    /\ passed' = passed \cup Range(After(t))
    /\ UNCHANGED <<value, cancelled_value, is_polling, is_to_repoll,
                   evts, timer, prio, dropped>>

\* An event for a wait that is over
StrayEvent(t) ==
    /\ Idle(t) /\ evts[t] # <<>>
    /\ evts' = Taken(t)
    /\ dropped' = (dropped \/ Head(evts[t]) = "POLL")
    /\ UNCHANGED <<value, cancelled_value, is_polling, is_to_repoll,
                   pending_list, timer, at, prio, passed>>

\* The timer expires; the kernel task, above all others, posts the event.
Expire(t) ==
    /\ timer[t] = "set"
    /\ timer' = [timer EXCEPT ![t] = IF Refuses(t) THEN "refused" ELSE "posted"]
    /\ evts' = IF Refuses(t) THEN evts ELSE [evts EXCEPT ![t] = Append(@, "TIMER")]
    /\ UNCHANGED <<value, cancelled_value, is_polling, is_to_repoll,
                   pending_list, at, prio, passed, dropped>>

-----------------------------------------------------------------------------
TaskCall(t) ==
    \/ Try(t) \/ \E timeout \in Timeouts[t] : Pend(t, timeout)
    \/ \E mask \in Masks : Set(t, mask) \/ ResetCall(t, mask)
    \/ \E mask \in CancelMasks : Cancel(t, mask)
TaskStep(t) ==
    \/ Reset(t) \/ Clear(t) \/ PollStart(t) \/ TakeHead(t) \/ Repoll(t)
    \/ PostRepoll(t) \/ PostEnd(t) \/ Post(t) \/ PostNext(t) \/ RemovePender(t)
    \/ TimerEvent(t) \/ CancelEvent(t) \/ PollEventPending(t)
    \/ PollEventGet(t) \/ StrayEvent(t)

Next == \E t \in Tasks : TaskCall(t) \/ TaskStep(t) \/ Expire(t)

Spec == Init /\ [][Next]_vars

-----------------------------------------------------------------------------
(* Properties *)

\* The tasks that carry on a poll: the event is in their queue, or they are
\* about to post it.
Polling(t) ==
    \/ \E i \in DOMAIN evts[t] : evts[t][i] = "POLL"
    \/ at[t].pc \in {"head", "post", "next", "repoll"} /\ at[t].evt = "POLL"
    \/ at[t].pc \in {"reset", "clear", "remove"} /\ Listed(t)

\* There is one poll at a time and is_polling says so: the flag is not left
\* set, which would end all polling for good, unless the event met a task that
\* did not wait any more.
OnePoll ==
    /\ \A t, u \in Tasks : Polling(t) /\ Polling(u) => t = u
    /\ is_polling = ((\E t \in Tasks : Polling(t)) \/ dropped)

\* A list of the waiting tasks, each once.
ListedIsWaiting ==
    /\ IsInjective(pending_list)
    /\ \A t \in Tasks : /\ at[t].pc = "wait" => Listed(t)
                        /\ at[t].pc = "idle" => ~Listed(t)

\* The walk over the pending list, which nothing protects, stays the only one,
\* and the list stays the list of those who wait.
PollIsSound == TypeOK /\ ListedIsWaiting /\ OnePoll

Resting == ~is_polling /\ \A t \in Tasks : ~Running(t)

\* When all is quiet, a task whose bits are there and that still waits was
\* passed over by the last poll: it refused the event, or the poll ended at a
\* task before it.  No set or pend is overlooked that comes during a poll.
OverlookedWasPassed ==
    Resting => \A t \in Range(pending_list) : Satisfied(t) => t \in passed

\* When all is quiet no task waits for bits that are there.
SatisfiedIsWoken ==
    Resting => \A t \in Range(pending_list) : ~Satisfied(t)
=============================================================================
