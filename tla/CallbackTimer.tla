---------------------------- MODULE CallbackTimer ----------------------------
(***************************************************************************)
(* Callback timers: vsf_callback_timer_* of __eda/vsf_eda_timer.c and the  *)
(* events of the kernel task that serve them.  A timer moves between two   *)
(* doubly linked lists, callback_timq, sorted by due, and                  *)
(* callback_timq_done, through the list functions of                       *)
(* utilities/template/vsf_list.c, which are modelled on pointers: a node   *)
(* that is unlinked through the wrong list damages both.  The kernel task  *)
(* has the highest priority and its own timer is that of KernelTimer; an   *)
(* interrupt may come between any two steps.                               *)
(***************************************************************************)
EXTENDS Integers, FiniteSets, Sequences

CONSTANTS
    Timers,         \* the callback timers
    Null,
    MaxTick,        \* bound: the last tick
    Delays,         \* the ticks that timers are added with
    IsrTimers,      \* bound: the timers that interrupts add
    MaxMsgs         \* bound: events the queue of the kernel task takes from
                    \* interrupts; a post beyond it fails

ASSUME TimerAssumption == IsFiniteSet(Timers) /\ Null \notin Timers
ASSUME BoundAssumption == /\ MaxTick \in Nat \ {0} /\ MaxMsgs \in Nat
                          /\ Delays \subseteq Nat \ {0} /\ IsrTimers \subseteq Timers

VARIABLES
    now,        \* vsf_systimer_get_tick()
    mem,        \* [next, prev: of each timer_node; head, tail: of each list]
    due,        \* timer->due, 0 for a timer that is not added
    kdue,       \* due of the kernel task in the timer queue, or NotTimed
    kq,         \* the events queued for the kernel task: [evt, timer]
    kpc,        \* where the kernel task is
    timer,      \* its local timer, while it uses one
    tick,       \* its local tick, while it adds a timer, else 0
    adding,     \* what a task and the kernel task are about to add, once they
                \* have found its due 0
    upd,        \* who is to set the kernel task's timer for a new head
    wants,      \* history: timers added and neither fired nor removed
    asked,      \* history: the due that was asked for them
    failed,     \* history: timers whose message found no room
    crossed     \* history: a call came to a timer while another one that the
                \* code does not see was under way (Crossed...)

cbVars == <<now, mem, due, kdue, kq, kpc, timer, tick, adding, upd, wants, asked,
            failed, crossed>>
kernelVars == <<kdue, kq, kpc, timer, tick>>
histVars == <<wants, asked, failed, crossed>>

Lists == {"timq", "done"}
Nodes == Timers \cup {Null}
NotTimed == -1
Ticks == 0 .. MaxTick
NoUpd == [by |-> "nobody", timer |-> Null]
Callers == {"task", "kernel"}
NotAdding == [timer |-> Null, due |-> 0]

CbTypeOK ==
    /\ now \in Ticks
    /\ mem \in [next : [Timers -> Nodes], prev : [Timers -> Nodes],
                head : [Lists -> Nodes], tail : [Lists -> Nodes]]
    /\ due \in [Timers -> Ticks] /\ asked \in [Timers -> Ticks]
    /\ kdue \in Ticks \cup {NotTimed}
    /\ kq \in Seq([evt : {"CALLBACK", "ADD"}, timer : Nodes])
    /\ kpc \in {"idle", "walk", "move", "calls", "on_timer", "on_timer_add", "add"}
    /\ timer \in Nodes /\ tick \in Ticks
    /\ adding \in [Callers -> [timer : Nodes, due : Ticks]]
    /\ upd \in [by : {"nobody", "task", "kernel"}, timer : Nodes]
    /\ wants \subseteq Timers /\ failed \subseteq Timers /\ crossed \in BOOLEAN

CbInit ==
    /\ now = 1
    /\ mem = [next |-> [t \in Timers |-> Null], prev |-> [t \in Timers |-> Null],
              head |-> [l \in Lists |-> Null], tail |-> [l \in Lists |-> Null]]
    /\ due = [t \in Timers |-> 0] /\ asked = [t \in Timers |-> 0]
    /\ kdue = NotTimed /\ kq = <<>> /\ kpc = "idle" /\ timer = Null /\ tick = 0
    /\ adding = [c \in Callers |-> NotAdding] /\ upd = NoUpd
    /\ wants = {} /\ failed = {} /\ crossed = FALSE

-----------------------------------------------------------------------------
(* vsf_dlist_t *)

\* __vsf_dlist_add_to_tail_imp
AddToTail(m, l, n) ==
    LET p == m.tail[l] IN
    [next |-> IF p = Null THEN [m.next EXCEPT ![n] = Null]
                          ELSE [m.next EXCEPT ![n] = Null, ![p] = n],
     prev |-> [m.prev EXCEPT ![n] = p],
     head |-> IF p = Null THEN [m.head EXCEPT ![l] = n] ELSE m.head,
     tail |-> [m.tail EXCEPT ![l] = n]]

\* __vsf_dlist_remove_head_imp; the pointer prev of the node is NULL already.
RemoveHead(m, l) ==
    LET n == m.head[l] IN
    IF n = Null THEN m ELSE
    LET x == m.next[n] IN
    [next |-> [m.next EXCEPT ![n] = Null],
     prev |-> IF x = Null THEN m.prev ELSE [m.prev EXCEPT ![x] = Null],
     head |-> [m.head EXCEPT ![l] = x],
     tail |-> IF x = Null THEN [m.tail EXCEPT ![l] = Null] ELSE m.tail]

\* __vsf_dlist_insert_before_imp
InsertBefore(m, l, x, n) ==
    LET p == m.prev[x] IN
    [next |-> IF p = Null THEN [m.next EXCEPT ![n] = x]
                          ELSE [m.next EXCEPT ![n] = x, ![p] = n],
     prev |-> [m.prev EXCEPT ![n] = p, ![x] = n],
     head |-> IF p = Null THEN [m.head EXCEPT ![l] = n] ELSE m.head,
     tail |-> m.tail]

\* __vsf_dlist_remove_imp: the list is touched only at its ends, and trusts the
\* caller that the node is in it.
RemoveNode(m, l, n) ==
    LET x == m.next[n]
        p == m.prev[n]
        next == [m.next EXCEPT ![n] = Null]
        prev == [m.prev EXCEPT ![n] = Null]
    IN [next |-> IF p = Null THEN next ELSE [next EXCEPT ![p] = x],
        prev |-> IF x = Null THEN prev ELSE [prev EXCEPT ![x] = p],
        head |-> IF p = Null THEN [m.head EXCEPT ![l] = x] ELSE m.head,
        tail |-> IF x = Null THEN [m.tail EXCEPT ![l] = p] ELSE m.tail]

\* The nodes that a walk along next comes to, the k-th one and all of them.
Walk(m, l) ==
    LET node[k \in 0 .. Cardinality(Timers)] ==
            IF k = 0 THEN m.head[l]
            ELSE IF node[k - 1] = Null THEN Null ELSE m.next[node[k - 1]]
    IN node
InList(m, l) == {Walk(m, l)[k] : k \in 0 .. Cardinality(Timers)} \ {Null}

\* vsf_callback_timq_insert: before the first timer that is due then or later
Insert(m, l, n, d) ==
    LET walk == Walk(m, l)
        at == CHOOSE k \in DOMAIN walk :
                 /\ walk[k] = Null \/ d[walk[k]] >= d[n]
                 /\ \A j \in 0 .. k - 1 : walk[j] # Null /\ d[walk[j]] < d[n]
    IN IF walk[at] = Null THEN AddToTail(m, l, n)
                          ELSE InsertBefore(m, l, walk[at], n)

-----------------------------------------------------------------------------
(* Who may run *)

Unlocked == upd.by = "nobody"
KernelMay == Unlocked /\ adding["kernel"] = NotAdding
TaskMay == KernelMay /\ kpc = "idle" /\ kq = <<>>

-----------------------------------------------------------------------------
(* The calls *)

\* vsf_callback_timer_add up to the test of due, which nothing protects. A timer
\* whose due is not 0 is refused.
Add(c, t, delay) ==
    /\ due[t] = 0 /\ now + delay <= MaxTick
    /\ adding' = [adding EXCEPT ![c] = [timer |-> t, due |-> now + delay]]
    /\ UNCHANGED <<now, mem, due, kernelVars, upd, histVars>>

\* A timer that was found not added and has been added since is added twice.
CrossedAdd(t) == due[t] # 0

\* The section of vsf_callback_timer_add_due: a timer that becomes the head is
\* to change the timer of the kernel task, still under vsf_protect_sched but
\* with interrupts enabled.
AddSection(c) ==
    LET t == adding[c].timer
        d == [due EXCEPT ![t] = adding[c].due]
        m == Insert(mem, "timq", t, d)
    IN /\ Unlocked /\ t # Null
       /\ mem' = m /\ due' = d
       /\ upd' = IF m.prev[t] = Null THEN [by |-> c, timer |-> t] ELSE NoUpd
       /\ wants' = wants \cup {t}
       /\ asked' = IF t \in wants THEN asked ELSE [asked EXCEPT ![t] = adding[c].due]
       /\ crossed' = (crossed \/ CrossedAdd(t))
       /\ adding' = [adding EXCEPT ![c] = NotAdding]
       /\ UNCHANGED <<now, kernelVars, failed>>

\* The timer may have been removed meanwhile, then its due is 0.
Update ==
    /\ upd.by # "nobody"
    /\ kdue' = due[upd.timer]
    /\ upd' = NoUpd
    /\ UNCHANGED <<now, mem, due, kq, kpc, timer, tick, adding, histVars>>

\* The timer is added but not in callback_timq: it has expired and its call is
\* to come, its message is on the way or failed, or the kernel task adds it
\* again and its due is 0 for now.
CrossedRemove(t) == (due[t] # 0 \/ t \in wants) /\ t \notin InList(mem, "timq")

\* vsf_callback_timer_remove, also from an interrupt. Only due is looked at.
TimerRemove(t) ==
    /\ mem' = IF due[t] # 0 THEN RemoveNode(mem, "timq", t) ELSE mem
    /\ due' = [due EXCEPT ![t] = 0]
    /\ wants' = wants \ {t} /\ asked' = [asked EXCEPT ![t] = 0]
    /\ crossed' = (crossed \/ CrossedRemove(t))
    /\ UNCHANGED <<now, kernelVars, adding, upd, failed>>

\* The message fails and with it the timer that the kernel task adds again; or
\* the timer, removed since, is the one whose due Update reads.
CrossedIsrAdd(t) == upd.timer = t \/ (Len(kq) >= MaxMsgs /\ t \in wants)

\* vsf_callback_timer_add_isr.  If the message finds no room the call fails,
\* and due is set.
IsrAdd(t, delay) ==
    /\ due[t] = 0 /\ now + delay <= MaxTick
    /\ due' = [due EXCEPT ![t] = now + delay]
    /\ IF Len(kq) < MaxMsgs
       THEN /\ kq' = Append(kq, [evt |-> "ADD", timer |-> t])
            /\ wants' = wants \cup {t}
            /\ asked' = [asked EXCEPT ![t] = now + delay] /\ UNCHANGED failed
       ELSE /\ failed' = failed \cup {t} /\ UNCHANGED <<kq, wants, asked>>
    /\ crossed' = (crossed \/ CrossedIsrAdd(t))
    /\ UNCHANGED <<now, mem, kdue, kpc, timer, tick, adding, upd>>

-----------------------------------------------------------------------------
(* The kernel task *)

\* VSF_EVT_TIMER: the kernel task finds itself in the timer queue, due.
KernelTimer ==
    /\ KernelMay /\ kpc = "idle" /\ kdue # NotTimed /\ kdue <= now
    /\ kdue' = NotTimed
    /\ kpc' = "walk"
    /\ UNCHANGED <<now, mem, due, kq, timer, tick, adding, upd, histVars>>

\* Mutant: the comparison is off by one.
Mut_KernelWalkExpired ==
    LET t == mem.head["timq"] IN
    /\ kpc = "walk" /\ t # Null /\ due[t] <= now + 1
    /\ mem' = RemoveHead(mem, "timq")
    /\ timer' = t
    /\ kpc' = "move"
    /\ UNCHANGED <<now, due, kdue, kq, tick, adding, upd, histVars>>

KernelWalkExpired ==
    LET t == mem.head["timq"] IN
    /\ kpc = "walk" /\ t # Null /\ due[t] <= now
    /\ mem' = RemoveHead(mem, "timq")
    /\ timer' = t
    /\ kpc' = "move"
    /\ UNCHANGED <<now, due, kdue, kq, tick, adding, upd, histVars>>

\* The done queue is not protected.
KernelMove ==
    /\ kpc = "move"
    /\ mem' = AddToTail(mem, "done", timer)
    /\ kpc' = "walk" /\ timer' = Null
    /\ UNCHANGED <<now, due, kdue, kq, tick, adding, upd, histVars>>

\* Mutant: the timers that are left in the list are forgotten.
Mut_KernelWalkEndForget ==
    LET t == mem.head["timq"] IN
    /\ kpc = "walk" /\ (t # Null => due[t] > now)
    /\ kq' = Append(kq, [evt |-> "CALLBACK", timer |-> Null])
    /\ kpc' = "idle"
    /\ UNCHANGED <<now, mem, due, kdue, timer, tick, adding, upd, histVars>>

\* The timer of the kernel task is set for what is left.
KernelWalkEnd ==
    LET t == mem.head["timq"] IN
    /\ kpc = "walk" /\ (t # Null => due[t] > now)
    /\ kdue' = IF t # Null THEN due[t] ELSE kdue
    /\ kq' = Append(kq, [evt |-> "CALLBACK", timer |-> Null])
    /\ kpc' = "idle"
    /\ UNCHANGED <<now, mem, due, timer, tick, adding, upd, histVars>>

\* VSF_KERNEL_EVT_CALLBACK_TIMER
KernelCallbackEvent ==
    /\ KernelMay /\ kpc = "idle" /\ kq # <<>> /\ Head(kq).evt = "CALLBACK"
    /\ kq' = Tail(kq)
    /\ kpc' = "calls"
    /\ UNCHANGED <<now, mem, due, kdue, timer, tick, adding, upd, histVars>>

\* timer->on_timer is called.
KernelCall ==
    LET t == mem.head["done"] IN
    /\ kpc = "calls" /\ t # Null
    /\ mem' = RemoveHead(mem, "done")
    /\ timer' = t
    /\ due' = [due EXCEPT ![t] = 0]
    /\ wants' = wants \ {t} /\ asked' = [asked EXCEPT ![t] = 0]
    /\ kpc' = "on_timer"
    /\ UNCHANGED <<now, kdue, kq, tick, adding, upd, failed, crossed>>

KernelCallsEnd ==
    /\ kpc = "calls" /\ mem.head["done"] = Null
    /\ kpc' = "idle"
    /\ UNCHANGED <<now, mem, due, kdue, kq, timer, tick, adding, upd, histVars>>

\* The callback may add and remove timers before it returns.
OnTimer == KernelMay /\ kpc \in {"on_timer", "on_timer_add"}
OnTimerAdd(t, delay) == OnTimer /\ Add("kernel", t, delay)
OnTimerRemove(t) == OnTimer /\ TimerRemove(t)
OnTimerReturn ==
    /\ OnTimer
    /\ kpc' = IF kpc = "on_timer" THEN "calls" ELSE "idle"
    /\ timer' = Null
    /\ UNCHANGED <<now, mem, due, kdue, kq, tick, adding, upd, histVars>>

\* Mutant: a timer that is due already is dropped.
Mut_KernelAddExpired ==
    /\ KernelMay /\ kpc = "idle" /\ kq # <<>> /\ Head(kq).evt = "ADD"
    /\ LET t == Head(kq).timer IN
       /\ now >= due[t]
       /\ due' = [due EXCEPT ![t] = 0]
    /\ kq' = Tail(kq)
    /\ UNCHANGED <<now, mem, kdue, kpc, timer, tick, adding, upd, histVars>>

\* VSF_KERNEL_EVT_CALLBACK_TIMER_ADD for a timer that is due already
KernelAddExpired ==
    /\ KernelMay /\ kpc = "idle" /\ kq # <<>> /\ Head(kq).evt = "ADD"
    /\ LET t == Head(kq).timer IN
       /\ now >= due[t]
       /\ due' = [due EXCEPT ![t] = 0]
       /\ timer' = t
       /\ wants' = wants \ {t} /\ asked' = [asked EXCEPT ![t] = 0]
    /\ kq' = Tail(kq)
    /\ kpc' = "on_timer_add"
    /\ UNCHANGED <<now, mem, kdue, tick, adding, upd, failed, crossed>>

\* Else due is cleared, and the timer is added again for the ticks that are
\* left, unless an interrupt has added it in between.
KernelAdd ==
    /\ KernelMay /\ kpc = "idle" /\ kq # <<>> /\ Head(kq).evt = "ADD"
    /\ LET t == Head(kq).timer IN
       /\ now < due[t]
       /\ tick' = due[t] - now
       /\ due' = [due EXCEPT ![t] = 0]
       /\ timer' = t
    /\ kq' = Tail(kq)
    /\ kpc' = "add"
    /\ UNCHANGED <<now, mem, kdue, adding, upd, histVars>>

KernelAddAgain ==
    /\ kpc = "add"
    /\ adding' = IF due[timer] = 0
                 THEN [adding EXCEPT !["kernel"] = [timer |-> timer, due |-> now + tick]]
                 ELSE adding
    /\ kpc' = "idle" /\ timer' = Null /\ tick' = 0
    /\ UNCHANGED <<now, mem, due, kdue, kq, upd, histVars>>

-----------------------------------------------------------------------------
\* Bound: a timer that is being added is not due after the last tick.
Tick == /\ now + tick < MaxTick
        /\ now' = now + 1
        /\ UNCHANGED <<mem, due, kernelVars, adding, upd, histVars>>

Task == /\ TaskMay /\ adding["task"] = NotAdding
        /\ \E t \in Timers : TimerRemove(t) \/ \E d \in Delays : Add("task", t, d)
Isr == \/ \E t \in Timers : TimerRemove(t)
       \/ \E t \in IsrTimers, d \in Delays : IsrAdd(t, d)
Callback == \E t \in Timers :
                OnTimerRemove(t) \/ \E d \in Delays : OnTimerAdd(t, d)

TaskAdds == TaskMay /\ AddSection("task")
KernelStep ==
    \/ KernelTimer \/ KernelWalkExpired \/ KernelMove \/ KernelWalkEnd
    \/ KernelCallbackEvent \/ KernelCall \/ KernelCallsEnd \/ OnTimerReturn
    \/ KernelAddExpired \/ KernelAdd \/ KernelAddAgain \/ AddSection("kernel")

\* The system rests when the last tick has passed.
Rest == (now = MaxTick \/ crossed) /\ UNCHANGED cbVars

\* Bound: calls are followed until two of them have crossed.
CbNext == \/ ~crossed /\ (\/ Tick \/ Task \/ TaskAdds \/ Isr \/ Callback
                          \/ KernelStep \/ Update)
          \/ Rest

\* Time passes (strongly fair only because the bound disables Tick now and
\* then), and the kernel task runs when it has something to do.
CbFairness == SF_cbVars(Tick) /\ WF_cbVars(KernelStep) /\ WF_cbVars(Update)

CbSpec == CbInit /\ [][CbNext]_cbVars
CbFairSpec == CbSpec /\ CbFairness

-----------------------------------------------------------------------------
(* Properties *)

\* Both lists are lists: forward and backward pointers agree, the ends are
\* where head and tail point, and no timer is in both.
ListsAreSound ==
    /\ InList(mem, "timq") \cap InList(mem, "done") = {}
    /\ \A l \in Lists :
          /\ Walk(mem, l)[Cardinality(Timers)] = Null
          /\ (mem.head[l] = Null) = (mem.tail[l] = Null)
          /\ \A n \in InList(mem, l) :
                /\ mem.prev[n] = Null <=> mem.head[l] = n
                /\ mem.next[n] = Null <=> mem.tail[l] = n
                /\ mem.next[n] # Null => mem.prev[mem.next[n]] = n

Messages(t) == {i \in DOMAIN kq : kq[i] = [evt |-> "ADD", timer |-> t]}

\* A timer that somebody waits for is in one of the lists, in the hands of the
\* kernel task between them, or its message is on the way: none is lost
\* whatever is added, removed and expired around it.
WantedIsListed ==
    \A t \in wants :
        \/ t \in InList(mem, "timq") \cup InList(mem, "done")
        \/ kpc \in {"move", "add"} /\ timer = t
        \/ adding["kernel"].timer = t
        \/ Messages(t) # {}

\* Conversely due # 0, which keeps a timer from being added, means that it is
\* wanted, unless its message found no room.
DueIsWanted == \A t \in Timers \ failed : due[t] # 0 => t \in wants

\* The queue is sorted, and the kernel task's timer is set for its head or
\* earlier, or will be before the kernel task rests.
HeadIsCovered ==
    /\ \A n \in InList(mem, "timq") :
          mem.next[n] # Null => due[n] <= due[mem.next[n]]
    /\ mem.head["timq"] # Null =>
          \/ kdue # NotTimed /\ kdue <= due[mem.head["timq"]]
          \/ kpc \in {"walk", "move"} \/ upd.by # "nobody"

\* The timers that are wanted are those that are kept: in sound lists, in order,
\* with the kernel task set for the first of them. This lasts until a call
\* crosses another one that the code does not see, and no longer: due # 0 is all
\* that vsf_callback_timer_remove asks, and the test of due is not in the section
\* that adds.
TimersAreKept ==
    ~crossed => /\ CbTypeOK
                /\ ListsAreSound /\ WantedIsListed /\ DueIsWanted /\ HeadIsCovered

\* Until then on_timer is called only for a timer that is wanted, not for one
\* that was removed, and never before its due.
FiresWhenWanted ==
    [][~crossed /\ kpc' \in {"on_timer", "on_timer_add"} /\ kpc # kpc' =>
          timer' \in wants /\ asked[timer'] <= now]_cbVars

\* And a timer that is added fires, unless it is removed.
TimerFires == \A t \in Timers : t \in wants ~> t \notin wants \/ crossed
=============================================================================
