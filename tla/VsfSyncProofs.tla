---------------------------- MODULE VsfSyncProofs ----------------------------
(***************************************************************************)
(* Proofs about vsf_sync_t, for every number of tasks, every maximum, with *)
(* and without manual reset, and for both event queues.                    *)
(***************************************************************************)
EXTENDS VsfSync, ListLemmas, FiniteSetTheorems, TLAPS

\* What the pending list is after its first or any other task has left it.
LEMMA ListFacts ==
    ASSUME NEW s \in Seq(Tasks)
    PROVE  /\ \A t \in Tasks : Append(s, t) \in Seq(Tasks)
           /\ s # <<>> => Head(s) \in Tasks /\ Tail(s) \in Seq(Tasks)
           /\ \A i \in DOMAIN s : RemoveAt(s, i) \in Seq(Tasks)
<1>1. ASSUME NEW i \in DOMAIN s PROVE RemoveAt(s, i) \in Seq(Tasks)
    BY <1>1 DEF RemoveAt
<1> QED BY <1>1

\* The calls that a context can be in the middle of.
OpType == [kind : OpKinds, to : Ctxs]

LEMMA OpFacts ==
    ASSUME NEW c \in Ctxs, NEW o \in [Ctxs -> OpType]
    PROVE  /\ [o EXCEPT ![c] = NoOp] \in [Ctxs -> OpType]
           /\ \A k \in OpKinds, t \in Ctxs :
                 [o EXCEPT ![c] = [kind |-> k, to |-> t]] \in [Ctxs -> OpType]
           /\ Kernel \in Ctxs /\ \A t \in Tasks : t \in Ctxs
           /\ {"none", "SYNC", "TIMER", "CANCEL", "incloop", "cancelloop"}
                 \subseteq OpKinds
BY DEF OpType, NoOp, OpKinds, Ctxs

\* Setting and clearing a flag of one task.
LEMMA FlagFacts ==
    ASSUME NEW f \in [Tasks -> BOOLEAN], NEW t \in Tasks, NEW b \in BOOLEAN
    PROVE  [f EXCEPT ![t] = b] \in [Tasks -> BOOLEAN]
OBVIOUS

LEMMA GrantType ==
    ASSUME TypeOK, NEW c \in Ctxs, NEW n \in 0 .. MaxCount, GrantNext(c, n)
    PROVE  /\ cur' \in 0 .. MaxCount /\ pending' \in Seq(Tasks)
           /\ is_sync_got' \in [Tasks -> BOOLEAN]
           /\ granted' \subseteq Tasks
           /\ op' \in [Ctxs -> OpType]
<1>1. op \in [Ctxs -> OpType]
    BY DEF TypeOK, OpType
<1>2. CASE n > 0 /\ pending # <<>>
  <2> DEFINE t == Head(pending)
  <2>1. t \in Tasks /\ Tail(pending) \in Seq(Tasks)
    BY <1>2, ListFacts DEF TypeOK
  <2>2. /\ pending' = Tail(pending)
        /\ is_sync_got' = [is_sync_got EXCEPT ![t] = TRUE]
        /\ cur' = IF Manual THEN n ELSE n - 1
        /\ granted' = IF Manual THEN granted ELSE granted \cup {t}
        /\ op' = [op EXCEPT ![c] = [kind |-> "SYNC", to |-> t]]
    BY <1>2 DEF GrantNext
  <2> HIDE DEF t
  <2>3. cur' \in 0 .. MaxCount
    BY <1>2, <2>2, CountAssumption
  <2>4. is_sync_got' \in [Tasks -> BOOLEAN]
    BY <2>1, <2>2, FlagFacts DEF TypeOK
  <2>5. op' \in [Ctxs -> OpType]
    BY <1>1, <2>1, <2>2, OpFacts
  <2> QED BY <2>1, <2>2, <2>3, <2>4, <2>5 DEF TypeOK
<1>3. CASE ~(n > 0 /\ pending # <<>>)
  <2>1. /\ cur' = n /\ op' = [op EXCEPT ![c] = NoOp]
        /\ UNCHANGED <<pending, is_sync_got, granted>>
    BY <1>3 DEF GrantNext
  <2>2. op' \in [Ctxs -> OpType]
    BY <1>1, <2>1, OpFacts
  <2> QED BY <2>1, <2>2 DEF TypeOK
<1> QED BY <1>2, <1>3

LEMMA CancelType ==
    ASSUME TypeOK, NEW c \in Ctxs, CancelNext(c)
    PROVE  /\ pending' \in Seq(Tasks)
           /\ is_sync_got' \in [Tasks -> BOOLEAN]
           /\ op' \in [Ctxs -> OpType]
<1>1. op \in [Ctxs -> OpType]
    BY DEF TypeOK, OpType
<1>2. CASE pending # <<>>
  <2> DEFINE t == Head(pending)
  <2>1. t \in Tasks /\ Tail(pending) \in Seq(Tasks)
    BY <1>2, ListFacts DEF TypeOK
  <2>2. /\ pending' = Tail(pending)
        /\ is_sync_got' = [is_sync_got EXCEPT ![t] = TRUE]
        /\ op' = [op EXCEPT ![c] = [kind |-> "CANCEL", to |-> t]]
    BY <1>2 DEF CancelNext
  <2> HIDE DEF t
  <2>3. is_sync_got' \in [Tasks -> BOOLEAN]
    BY <2>1, <2>2, FlagFacts DEF TypeOK
  <2>4. op' \in [Ctxs -> OpType]
    BY <1>1, <2>1, <2>2, OpFacts
  <2> QED BY <2>1, <2>2, <2>3, <2>4
<1>3. CASE pending = <<>>
  <2>1. op' = [op EXCEPT ![c] = NoOp] /\ UNCHANGED <<pending, is_sync_got>>
    BY <1>3 DEF CancelNext
  <2>2. op' \in [Ctxs -> OpType]
    BY <1>1, <2>1, OpFacts
  <2> QED BY <2>1, <2>2 DEF TypeOK
<1> QED BY <1>2, <1>3

-----------------------------------------------------------------------------
(* Type correctness, action by action *)

LEMMA TypeUse == ASSUME TypeOK, mode' = mode, NEW t \in Tasks, Use(t) PROVE TypeOK'
<1> USE DEF TypeOK, taskVars, flagVars, histVars
<1>1. CASE Obtain(t)
    BY <1>1, CountAssumption DEF Obtain
<1>2. ASSUME NEW timeout \in Timeouts[t], Pend(t, timeout) PROVE TypeOK'
  <2>1. /\ is_limitted' \in [Tasks -> BOOLEAN]
        /\ is_to_set_due' \in [Tasks -> BOOLEAN]
        /\ is_timed' \in [Tasks -> BOOLEAN]
    <3>1. CASE timeout = "timed"
      <4>1. SetTimeout(t)
        BY <1>2, <3>1 DEF Pend
      <4>2. /\ is_limitted' = [is_limitted EXCEPT ![t] = TRUE]
            /\ \/ is_to_set_due' = [is_to_set_due EXCEPT ![t] = TRUE]
               \/ is_to_set_due' = is_to_set_due
            /\ \/ is_timed' = [is_timed EXCEPT ![t] = TRUE]
               \/ is_timed' = is_timed
        BY <4>1 DEF SetTimeout
      <4> QED BY <4>2, FlagFacts
    <3>2. CASE timeout # "timed"
        BY <1>2, <3>2 DEF Pend
    <3> QED BY <3>1, <3>2
  <2>2. pending' \in Seq(Tasks)
    BY <1>2, ListFacts DEF Pend
  <2>3. timeout \in {"timed", "forever"}
    BY <1>2, UseAssumption DEF Pend
  <2> QED BY <1>2, <2>1, <2>2, <2>3 DEF Pend
<1>3. CASE Cancel(t)
    BY <1>3, CancelType DEF Cancel, Ctxs, OpType
<1>4. CASE Reset(t)
    BY <1>4, CountAssumption DEF Reset
<1> QED BY <1>1, <1>2, <1>3, <1>4 DEF Use

LEMMA TypeRelease == ASSUME TypeOK, mode' = mode, NEW t \in Tasks, Release(t) PROVE TypeOK'
<1> USE DEF TypeOK, taskVars, flagVars
<1>1. CASE Increase(t)
  <2>1. cur + 1 \in 0 .. MaxCount
    BY <1>1, CountAssumption DEF Increase
  <2> QED BY <1>1, <2>1, GrantType DEF Increase, Ctxs, OpType
<1>2. CASE IncreaseOverrun(t)
    BY <1>2 DEF IncreaseOverrun
<1> QED BY <1>1, <1>2 DEF Release

LEMMA TypePost == ASSUME TypeOK, mode' = mode, NEW c \in Ctxs, PostEvent(c) PROVE TypeOK'
<1> USE DEF TypeOK, flagVars, histVars
<1>1. op \in [Ctxs -> OpType]
    BY DEF OpType
<1>2. op' \in [Ctxs -> OpType]
  <2>1. PICK k \in {"none", "incloop", "cancelloop"} :
            op' = [op EXCEPT ![c] = [kind |-> k, to |-> Kernel]]
    BY DEF PostEvent, NoOp
  <2> QED BY <1>1, <2>1, OpFacts
<1>3. evts' \in [Tasks -> Seq(Events)]
  <2> DEFINE k == op[c].kind  t == op[c].to
  <2>1. k \in Events /\ \/ evts' = evts
                         \/ evts' = [evts EXCEPT ![t] = Append(@, k)]
    BY DEF PostEvent
  <2> HIDE DEF k, t
  <2>2. CASE evts' = evts \/ t \notin Tasks
    BY <2>1, <2>2
  <2>3. CASE evts' = [evts EXCEPT ![t] = Append(@, k)] /\ t \in Tasks
    <3>1. Append(evts[t], k) \in Seq(Events)
        BY <2>1, <2>3
    <3> QED BY <2>3, <3>1
  <2> QED BY <2>1, <2>2, <2>3
<1> QED BY <1>2, <1>3 DEF PostEvent, OpType

LEMMA TypeLoop == ASSUME TypeOK, mode' = mode, NEW c \in Ctxs, IncreaseLoop(c) PROVE TypeOK'
BY GrantType DEF IncreaseLoop, TypeOK, taskVars, OpType

LEMMA TypeTask == ASSUME TypeOK, mode' = mode, NEW t \in Tasks, Step(t) PROVE TypeOK'
<1> USE DEF TypeOK, flagVars, histVars
<1>1. CASE IncreaseLoop(t) \/ PostEvent(t)
    BY <1>1, TypeLoop, TypePost DEF Ctxs
<1>2. CASE CancelLoop(t)
    BY <1>2, CancelType DEF CancelLoop, Ctxs, OpType, taskVars
<1>3. CASE HandlerReturn(t)
    BY <1>3 DEF HandlerReturn
<1>4. CASE SetDue(t)
  <2>1. (is_timed[t] \/ is_to_set_due[t]) \in BOOLEAN
    BY Zenon
  <2> QED BY <1>4, <2>1, FlagFacts DEF SetDue
<1>5. CASE Dispatch(t)
  <2>1. Head(evts[t]) \in Events /\ Tail(evts[t]) \in Seq(Events)
    BY <1>5 DEF Dispatch
  <2> QED BY <1>5, <2>1 DEF Dispatch
<1>6. CASE ReasonPending(t)
    BY <1>6 DEF ReasonPending
<1>7. CASE ReasonTimeout(t)
  <2>1. pending' \in Seq(Tasks)
    BY <1>7, ListFacts DEF ReasonTimeout
  <2> QED BY <1>7, <2>1, FlagFacts DEF ReasonTimeout
<1>8. CASE ReasonCancelTimer(t)
    BY <1>8, FlagFacts DEF ReasonCancelTimer
<1>9. CASE ReasonGet(t)
  <2>1. holders' \subseteq Tasks /\ granted' \subseteq Tasks
    BY <1>9 DEF ReasonGet
  <2> QED BY <1>9, <2>1, FlagFacts DEF ReasonGet
<1> QED BY <1>1, <1>2, <1>3, <1>4, <1>5, <1>6, <1>7, <1>8, <1>9 DEF Step

LEMMA TypeKernel == ASSUME TypeOK, mode' = mode, KernelStep \/ Isr PROVE TypeOK'
<1> USE DEF TypeOK, taskVars, flagVars, histVars
<1>1. CASE KernelIncrease
  <2>1. CASE cur < MaxCount
    <3>1. cur + 1 \in 0 .. MaxCount
        BY <2>1, CountAssumption
    <3>2. GrantNext(Kernel, cur + 1)
        BY <1>1, <2>1 DEF KernelIncrease
    <3>3. /\ cur' \in 0 .. MaxCount /\ pending' \in Seq(Tasks)
          /\ is_sync_got' \in [Tasks -> BOOLEAN]
          /\ granted' \subseteq Tasks
          /\ op' \in [Ctxs -> [kind : OpKinds, to : Ctxs]]
        BY <3>1, <3>2, GrantType DEF Ctxs, OpType
    <3>4. msgs' \in 0 .. MaxMsgs /\ made' \in Int
        BY <1>1, <2>1, CountAssumption DEF KernelIncrease
    <3> QED BY <1>1, <3>3, <3>4 DEF KernelIncrease
  <2>2. CASE ~(cur < MaxCount)
    BY <1>1, <2>2, CountAssumption DEF KernelIncrease
  <2> QED BY <2>1, <2>2
<1>2. CASE IncreaseLoop(Kernel) \/ PostEvent(Kernel)
    BY <1>2, TypeLoop, TypePost DEF Ctxs
<1>3. ASSUME NEW t \in Tasks, KernelTimer(t) PROVE TypeOK'
  <2>1. op' \in [Ctxs -> OpType]
    BY <1>3, OpFacts DEF KernelTimer, OpType
  <2> QED BY <1>3, <2>1, FlagFacts DEF KernelTimer, OpType
<1>4. CASE Isr
    BY <1>4, CountAssumption DEF Isr
<1> QED BY <1>1, <1>2, <1>3, <1>4 DEF KernelStep

LEMMA TypeStep == TypeOK /\ [Next]_<<vars, mode>> => TypeOK'
<1> SUFFICES ASSUME TypeOK, [Next]_<<vars, mode>> PROVE TypeOK'
    OBVIOUS
<1>1. CASE Next
    BY <1>1, TypeUse, TypeRelease, TypeTask, TypeKernel DEF Next
<1>2. CASE UNCHANGED <<vars, mode>>
    BY <1>2 DEF vars, TypeOK
<1> QED BY <1>1, <1>2

LEMMA TypeInit == Init => TypeOK
<1> SUFFICES ASSUME Init PROVE TypeOK
    OBVIOUS
<1>1. /\ is_limitted \in [Tasks -> BOOLEAN] /\ is_sync_got \in [Tasks -> BOOLEAN]
      /\ is_to_set_due \in [Tasks -> BOOLEAN] /\ is_timed \in [Tasks -> BOOLEAN]
    BY Zenon DEF Init
<1>2. op \in [Ctxs -> [kind : OpKinds, to : Ctxs]]
    BY DEF Init, NoOp, OpKinds, Ctxs
<1>3. cur \in 0 .. MaxCount
    BY ModeAssumption DEF Init
<1> QED BY <1>1, <1>2, <1>3, CountAssumption DEF Init, TypeOK, Events

\* TypeOK holds in every reachable state of vsf_sync_t: among other things the
\* count never leaves 0 .. MaxCount.
THEOREM SyncTypeCorrect == Spec => []TypeOK
BY TypeInit, TypeStep, PTL DEF Spec

-----------------------------------------------------------------------------
(* No count is kept from a task that waits *)

\* A turn of the loop that starts with one count more than the invariant
\* allows, or with as many, ends with the invariant.
LEMMA GrantHandsOver ==
    ASSUME TypeOK, NoIdleCount, Manual' = Manual,
           NEW c, NEW n \in {cur, cur + 1}, GrantNext(c, n)
    PROVE  NoIdleCount'
<1>1. CASE n > 0 /\ pending # <<>> /\ ~Manual
  <2>1. cur = 0 /\ n = 1
    BY <1>1 DEF NoIdleCount
  <2>2. cur' = 0
    BY <1>1, <2>1 DEF GrantNext
  <2> QED BY <2>2 DEF NoIdleCount
<1>2. CASE ~(n > 0 /\ pending # <<>>)
    BY <1>2, CountAssumption DEF GrantNext, NoIdleCount, TypeOK
<1>3. CASE Manual
    BY <1>3 DEF NoIdleCount
<1> QED BY <1>1, <1>2, <1>3, ModeAssumption

LEMMA IdleStep == TypeOK /\ NoIdleCount /\ [Next]_<<vars, mode>> => NoIdleCount'
<1> SUFFICES ASSUME TypeOK, NoIdleCount, [Next]_<<vars, mode>> PROVE NoIdleCount'
    OBVIOUS
<1>0. Manual' = Manual
    BY DEF Next, Manual
<1> USE <1>0
<1>1. ASSUME NEW t \in Tasks, Use(t) PROVE NoIdleCount'
  <2>1. CASE Obtain(t)
    BY <2>1 DEF Obtain, NoIdleCount
  <2>2. ASSUME NEW timeout \in Timeouts[t], Pend(t, timeout) PROVE NoIdleCount'
    BY <2>2, CountAssumption DEF Pend, NoIdleCount, TypeOK
  <2>3. CASE Cancel(t)
    BY <2>3 DEF Cancel, CancelNext, NoIdleCount
  <2>4. CASE Reset(t)
    BY <2>4 DEF Reset, NoIdleCount
  <2> QED BY <1>1, <2>1, <2>2, <2>3, <2>4 DEF Use
<1>2. ASSUME NEW t \in Tasks, Release(t) PROVE NoIdleCount'
    BY <1>2, GrantHandsOver DEF Release, Increase, IncreaseOverrun, NoIdleCount
<1>3. ASSUME NEW t \in Tasks, Step(t) PROVE NoIdleCount'
  <2>1. CASE IncreaseLoop(t)
    BY <2>1, GrantHandsOver DEF IncreaseLoop
  <2>2. CASE CancelLoop(t)
    BY <2>2 DEF CancelLoop, CancelNext, NoIdleCount
  <2>3. CASE ReasonTimeout(t)
    BY <2>3 DEF ReasonTimeout, NoIdleCount, TypeOK
  <2>4. CASE \/ PostEvent(t) \/ HandlerReturn(t) \/ SetDue(t) \/ Dispatch(t)
             \/ ReasonPending(t) \/ ReasonCancelTimer(t) \/ ReasonGet(t)
    BY <2>4 DEF PostEvent, HandlerReturn, SetDue, Dispatch, ReasonPending,
                ReasonCancelTimer, ReasonGet, NoIdleCount
  <2> QED BY <1>3, <2>1, <2>2, <2>3, <2>4 DEF Step
<1>4. CASE KernelStep
  <2>1. CASE KernelIncrease
    BY <2>1, GrantHandsOver DEF KernelIncrease, NoIdleCount
  <2>2. CASE IncreaseLoop(Kernel)
    BY <2>2, GrantHandsOver DEF IncreaseLoop
  <2>3. CASE PostEvent(Kernel) \/ \E t \in Tasks : KernelTimer(t)
    BY <2>3 DEF PostEvent, KernelTimer, NoIdleCount
  <2> QED BY <1>4, <2>1, <2>2, <2>3 DEF KernelStep
<1>5. CASE Isr \/ UNCHANGED <<vars, mode>>
    BY <1>5 DEF Isr, vars, NoIdleCount
<1> QED BY <1>1, <1>2, <1>3, <1>4, <1>5 DEF Next

\* For every number of tasks and every maximum: while a task waits, the count
\* of an object without manual reset is zero.
THEOREM CountIsHandedOver == Spec => []NoIdleCount
<1>1. Init => NoIdleCount
    BY DEF Init, NoIdleCount
<1> QED BY <1>1, SyncTypeCorrect, IdleStep, PTL DEF Spec

-----------------------------------------------------------------------------
(* A set event reaches every task in the list *)

LEMMA GrantReaches ==
    ASSUME TypeOK, NEW c \in Ctxs, NEW n \in 0 .. MaxCount, GrantNext(c, n)
    PROVE  EventReachesAll'
<1>1. CASE n > 0 /\ pending # <<>>
  <2>1. op' = [op EXCEPT ![c] = [kind |-> "SYNC", to |-> Head(pending)]]
    BY <1>1 DEF GrantNext
  <2>2. op'[c].kind = "SYNC"
    BY <2>1 DEF TypeOK
  <2> QED BY <2>2 DEF EventReachesAll
<1>2. CASE ~(n > 0 /\ pending # <<>>)
    BY <1>2 DEF GrantNext, EventReachesAll
<1> QED BY <1>1, <1>2

\* The context that is in the loop stays in it while another one steps.
LEMMA LoopGoesOn ==
    ASSUME TypeOK, EventReachesAll, NEW c \in Ctxs, NEW o,
           op' = [op EXCEPT ![c] = o],
           cur' > 0 /\ pending' # <<>> => cur > 0 /\ pending # <<>>,
           \/ op[c].kind \notin {"SYNC", "incloop"}
           \/ o.kind \in {"SYNC", "incloop"}
    PROVE  EventReachesAll'
BY DEF EventReachesAll, TypeOK

LEMMA EventStep ==
    TypeOK /\ EventReachesAll /\ [Next]_<<vars, mode>> => EventReachesAll'
<1> SUFFICES ASSUME TypeOK, EventReachesAll, [Next]_<<vars, mode>>
             PROVE  EventReachesAll'
    OBVIOUS
<1>0. /\ NoOp.kind = "none" /\ Kernel \in Ctxs /\ Tasks \subseteq Ctxs
      /\ cur \in 0 .. MaxCount
      /\ cur < MaxCount => cur + 1 \in 0 .. MaxCount
    BY CountAssumption DEF NoOp, Ctxs, TypeOK
<1>1. ASSUME NEW t \in Tasks, Use(t) PROVE EventReachesAll'
  <2>1. CASE Obtain(t) \/ Reset(t)
    BY <2>1 DEF Obtain, Reset, EventReachesAll
  <2>2. ASSUME NEW timeout \in Timeouts[t], Pend(t, timeout)
        PROVE  EventReachesAll'
    BY <2>2 DEF Pend, EventReachesAll
  <2>3. CASE Cancel(t)
    BY <1>0, <2>3, LoopGoesOn DEF Cancel, CancelNext, AtWork
  <2> QED BY <1>1, <2>1, <2>2, <2>3 DEF Use
<1>2. ASSUME NEW t \in Tasks, Release(t) PROVE EventReachesAll'
  <2>1. CASE Increase(t)
    BY <1>0, <2>1, GrantReaches DEF Increase
  <2>2. CASE IncreaseOverrun(t)
    BY <2>2 DEF IncreaseOverrun, EventReachesAll
  <2> QED BY <1>2, <2>1, <2>2 DEF Release
<1>3. ASSUME NEW c \in Ctxs, PostEvent(c) PROVE EventReachesAll'
  <2> DEFINE k == op[c].kind
             o == IF k = "SYNC" THEN [kind |-> "incloop", to |-> Kernel]
                  ELSE IF k = "CANCEL"
                  THEN [kind |-> "cancelloop", to |-> Kernel] ELSE NoOp
  <2>1. /\ op' = [op EXCEPT ![c] = o] /\ k \in Events
        /\ UNCHANGED <<cur, pending>>
    BY <1>3 DEF PostEvent
  <2>2. k \notin {"SYNC", "incloop"} \/ o.kind \in {"SYNC", "incloop"}
    BY <2>1 DEF Events
  <2> HIDE DEF o
  <2> QED BY <2>1, <2>2, LoopGoesOn
<1>4. ASSUME NEW t \in Tasks, Step(t) PROVE EventReachesAll'
  <2>1. CASE IncreaseLoop(t)
    BY <1>0, <2>1, GrantReaches DEF IncreaseLoop
  <2>2. CASE CancelLoop(t)
    BY <1>0, <2>2, LoopGoesOn DEF CancelLoop, CancelNext
  <2>3. CASE ReasonTimeout(t)
    <3>1. pending # <<>> /\ UNCHANGED <<cur, op>>
        BY <2>3 DEF ReasonTimeout, TypeOK
    <3> QED BY <3>1 DEF EventReachesAll
  <2>4. CASE \/ HandlerReturn(t) \/ SetDue(t) \/ Dispatch(t)
             \/ ReasonPending(t) \/ ReasonCancelTimer(t) \/ ReasonGet(t)
    BY <2>4 DEF HandlerReturn, SetDue, Dispatch, ReasonPending,
                ReasonCancelTimer, ReasonGet, EventReachesAll
  <2> QED BY <1>0, <1>3, <1>4, <2>1, <2>2, <2>3, <2>4 DEF Step
<1>5. CASE KernelStep
  <2>1. CASE KernelIncrease
    BY <1>0, <2>1, GrantReaches DEF KernelIncrease, EventReachesAll
  <2>2. CASE IncreaseLoop(Kernel)
    BY <1>0, <2>2, GrantReaches DEF IncreaseLoop
  <2>3. ASSUME NEW t \in Tasks, KernelTimer(t) PROVE EventReachesAll'
    BY <1>0, <2>3, LoopGoesOn DEF KernelTimer
  <2> QED BY <1>0, <1>3, <1>5, <2>1, <2>2, <2>3 DEF KernelStep
<1>6. CASE Isr \/ UNCHANGED <<vars, mode>>
    BY <1>6 DEF Isr, vars, EventReachesAll
<1> QED BY <1>1, <1>2, <1>4, <1>5, <1>6 DEF Next

\* For every number of tasks: as long as a set event has tasks in its list, a
\* context is in the loop that wakes them.
THEOREM EventWakesAll == Spec => []EventReachesAll
<1>1. Init => EventReachesAll
    BY DEF Init, EventReachesAll
<1> QED BY <1>1, SyncTypeCorrect, EventStep, PTL DEF Spec

-----------------------------------------------------------------------------
(* One wake-up for every wait *)

\* The wake-ups of a task that are under way, without counting.
NoWakeup(t) == Carried(t) = {} /\ Delivered(t) = {} /\ Handled(t) = 0
OneWakeup(t) ==
    \/ (\E c : Carried(t) = {c}) /\ Delivered(t) = {} /\ Handled(t) = 0
    \/ Carried(t) = {} /\ (\E i : Delivered(t) = {i}) /\ Handled(t) = 0
    \/ Carried(t) = {} /\ Delivered(t) = {} /\ Handled(t) = 1

\* Strengthens WakeupsAreExact for one task: it also says that a task that does
\* not wait is neither in the list nor marked.
WakeOk(t) ==
    /\ is_sync_got[t] => /\ OneWakeup(t) /\ t \notin ToSet(pending)
                         /\ wait[t] # "no"
    /\ ~is_sync_got[t] => NoWakeup(t)
    /\ t \in ToSet(pending) => wait[t] # "no"
    /\ wait[t] # "no" => t \in ToSet(pending) \/ is_sync_got[t]

WakeInv == NoTwice(pending) /\ \A t \in Tasks : WakeOk(t)

\* A step that does not concern t.
LEMMA WakeFrame ==
    ASSUME NEW t, WakeOk(t),
           Carried(t)' = Carried(t), Delivered(t)' = Delivered(t),
           Handled(t)' = Handled(t), is_sync_got'[t] = is_sync_got[t],
           wait'[t] = wait[t],
           t \in ToSet(pending') <=> t \in ToSet(pending)
    PROVE  WakeOk(t)'
BY DEF WakeOk, OneWakeup, NoWakeup

\* What a context carries is replaced by what it carries next.
LEMMA CarriedNext ==
    ASSUME TypeOK, NEW c \in Ctxs, NEW o, op' = [op EXCEPT ![c] = o], NEW t
    PROVE  Carried(t)' = IF o.kind \in {"SYNC", "CANCEL"} /\ o.to = t
                         THEN Carried(t) \cup {c} ELSE Carried(t) \ {c}
BY DEF TypeOK, Carried

\* The wake-ups among the events of a queue.
Wakeups(s) == {i \in DOMAIN s : s[i] # "TIMER"}

\* vsf_evtq_post and the removal of the first event, as the wake-ups see them.
LEMMA WakeupsFacts ==
    ASSUME NEW s \in Seq(Events)
    PROVE  /\ Wakeups(Append(s, "TIMER")) = Wakeups(s)
           /\ \A k \in Events \ {"TIMER"} :
                 Wakeups(s) = {} => Wakeups(Append(s, k)) = {Len(s) + 1}
           /\ s # <<>> /\ Head(s) = "TIMER" =>
                 /\ Wakeups(s) = {} => Wakeups(Tail(s)) = {}
                 /\ \A i : Wakeups(s) = {i} => Wakeups(Tail(s)) = {i - 1}
           /\ s # <<>> /\ Head(s) # "TIMER" =>
                 /\ Wakeups(s) # {}
                 /\ \A i : Wakeups(s) = {i} => Wakeups(Tail(s)) = {}
<1>1. /\ Len(s) \in Nat /\ DOMAIN s = 1 .. Len(s)
      /\ "TIMER" \in Events
    BY DEF Events
<1>2. \A k \in Events : /\ DOMAIN Append(s, k) = 1 .. Len(s) + 1
                        /\ \A i \in 1 .. Len(s) : Append(s, k)[i] = s[i]
                        /\ Append(s, k)[Len(s) + 1] = k
    OBVIOUS
<1>3. s # <<>> => /\ DOMAIN Tail(s) = 1 .. Len(s) - 1 /\ Len(s) > 0
                  /\ \A i \in 1 .. Len(s) - 1 : Tail(s)[i] = s[i + 1]
                  /\ Head(s) = s[1]
    OBVIOUS
<1>4. Wakeups(Append(s, "TIMER")) = Wakeups(s)
    BY <1>1, <1>2 DEF Wakeups
<1>5. ASSUME NEW k \in Events \ {"TIMER"}, Wakeups(s) = {}
      PROVE  Wakeups(Append(s, k)) = {Len(s) + 1}
    BY <1>1, <1>2, <1>5 DEF Wakeups
<1>6. ASSUME s # <<>>, Head(s) = "TIMER", Wakeups(s) = {}
      PROVE  Wakeups(Tail(s)) = {}
    BY <1>1, <1>3, <1>6 DEF Wakeups
<1>7. ASSUME s # <<>>, Head(s) = "TIMER", NEW i, Wakeups(s) = {i}
      PROVE  Wakeups(Tail(s)) = {i - 1}
  <2>1. i \in 2 .. Len(s) /\ s[i] # "TIMER"
    BY <1>1, <1>3, <1>7 DEF Wakeups
  <2>2. \A j \in 1 .. Len(s) : j # i => s[j] = "TIMER"
    BY <1>1, <1>7 DEF Wakeups
  <2>3. i - 1 \in 1 .. Len(s) - 1 /\ Tail(s)[i - 1] = s[i]
    BY <1>1, <1>3, <1>7, <2>1
  <2>4. \A j \in 1 .. Len(s) - 1 : j # i - 1 => Tail(s)[j] = "TIMER"
    BY <1>1, <1>3, <1>7, <2>1, <2>2
  <2> QED BY <1>3, <1>7, <2>1, <2>3, <2>4 DEF Wakeups
<1>8. ASSUME s # <<>>, Head(s) # "TIMER"
      PROVE  Wakeups(s) # {} /\ \A i : Wakeups(s) = {i} => Wakeups(Tail(s)) = {}
  <2>1. 1 \in Wakeups(s)
    BY <1>1, <1>3, <1>8 DEF Wakeups
  <2>2. ASSUME NEW i, Wakeups(s) = {i} PROVE Wakeups(Tail(s)) = {}
    <3>1. \A j \in 1 .. Len(s) : j # 1 => s[j] = "TIMER"
        BY <1>1, <2>1, <2>2 DEF Wakeups
    <3> QED BY <1>1, <1>3, <1>8, <3>1 DEF Wakeups
  <2> QED BY <2>1, <2>2
<1> QED BY <1>4, <1>5, <1>6, <1>7, <1>8

\* The first task of the list is marked and its wake-up is in the hands of c.
LEMMA HandOver ==
    ASSUME TypeOK, WakeInv, NEW c \in Ctxs, NEW k \in {"SYNC", "CANCEL"},
           op[c].kind \notin {"SYNC", "CANCEL"}, pending # <<>>,
           pending' = Tail(pending),
           is_sync_got' = [is_sync_got EXCEPT ![Head(pending)] = TRUE],
           op' = [op EXCEPT ![c] = [kind |-> k, to |-> Head(pending)]],
           UNCHANGED taskVars
    PROVE  WakeInv'
<1>0. PICK h \in Tasks : h = Head(pending)
    BY TailFacts DEF TypeOK
<1>1. /\ h \in ToSet(pending) /\ NoTwice(pending')
      /\ ToSet(pending') = ToSet(pending) \ {h}
    BY <1>0, TailFacts DEF TypeOK, WakeInv
<1>2. \A t : Carried(t)' = IF h = t THEN Carried(t) \cup {c} ELSE Carried(t)
  <2>1. \A t : c \notin Carried(t)
    BY DEF Carried
  <2>2. ASSUME NEW t
        PROVE  Carried(t)' = IF h = t THEN Carried(t) \cup {c}
                                      ELSE Carried(t) \ {c}
    <3> DEFINE o == [kind |-> k, to |-> h]
    <3>1. o.kind = k /\ o.to = h /\ op' = [op EXCEPT ![c] = o]
        BY <1>0
    <3> HIDE DEF o
    <3> QED BY <3>1, CarriedNext
  <2> QED BY <2>1, <2>2
<1>3. \A t : Delivered(t)' = Delivered(t) /\ Handled(t)' = Handled(t)
    BY DEF taskVars, Delivered, Handled
<1>4. ASSUME NEW t \in Tasks, t # h PROVE WakeOk(t)'
  <2>1. is_sync_got'[t] = is_sync_got[t] /\ wait'[t] = wait[t]
    BY <1>0, <1>4 DEF TypeOK, taskVars
  <2> QED BY <1>1, <1>2, <1>3, <1>4, <2>1, WakeFrame DEF WakeInv
<1>5. WakeOk(h)'
  <2>1. ~is_sync_got[h] /\ NoWakeup(h) /\ wait[h] # "no"
    BY <1>1 DEF WakeInv, WakeOk
  <2>2. is_sync_got'[h] /\ wait'[h] = wait[h]
    BY <1>0 DEF TypeOK, taskVars
  <2>3. OneWakeup(h)'
    BY <1>2, <1>3, <2>1 DEF NoWakeup, OneWakeup
  <2> QED BY <1>1, <2>1, <2>2, <2>3 DEF WakeOk
<1> QED BY <1>1, <1>4, <1>5 DEF WakeInv

\* A context that carries no wake-up goes on to a state in which it carries
\* none.
LEMMA NoHandOver ==
    ASSUME TypeOK, WakeInv, NEW c \in Ctxs, NEW o,
           op[c].kind \notin {"SYNC", "CANCEL"},
           o.kind \notin {"SYNC", "CANCEL"},
           op' = [op EXCEPT ![c] = o],
           UNCHANGED <<pending, is_sync_got, st, evt, wait>>,
           \A t \in Tasks : Delivered(t)' = Delivered(t)
    PROVE  WakeInv'
<1>1. \A t : c \notin Carried(t)
    BY DEF Carried
<1>2. ASSUME NEW t PROVE Carried(t)' = Carried(t) \ {c}
    BY CarriedNext
<1>3. \A t : Handled(t)' = Handled(t)
    BY DEF Handled
<1> QED BY <1>1, <1>2, <1>3, WakeFrame DEF WakeInv

LEMMA GrantWakes ==
    ASSUME TypeOK, WakeInv, NEW c \in Ctxs, NEW n, GrantNext(c, n),
           op[c].kind \notin {"SYNC", "CANCEL"}, UNCHANGED taskVars
    PROVE  WakeInv'
<1>1. CASE n > 0 /\ pending # <<>>
    BY <1>1, HandOver DEF GrantNext
<1>2. CASE ~(n > 0 /\ pending # <<>>)
    BY <1>2, NoHandOver DEF GrantNext, NoOp, taskVars, Delivered
<1> QED BY <1>1, <1>2

LEMMA CancelWakes ==
    ASSUME TypeOK, WakeInv, NEW c \in Ctxs, CancelNext(c),
           op[c].kind \notin {"SYNC", "CANCEL"}, UNCHANGED taskVars
    PROVE  WakeInv'
<1>1. CASE pending # <<>>
    BY <1>1, HandOver DEF CancelNext
<1>2. CASE ~(pending # <<>>)
    BY <1>2, NoHandOver DEF CancelNext, NoOp, taskVars, Delivered
<1> QED BY <1>1, <1>2

\* A wake-up leaves the hands of the context and is in the queue of the task.
LEMMA PostDelivers ==
    ASSUME TypeOK, TypeOK', WakeInv, NEW c \in Ctxs, PostEvent(c)
    PROVE  WakeInv'
<1>0. PICK k \in Events, u \in Ctxs : k = op[c].kind /\ u = op[c].to
    BY DEF PostEvent, TypeOK
<1> DEFINE o == IF k = "SYNC" THEN [kind |-> "incloop", to |-> Kernel]
                ELSE IF k = "CANCEL"
                THEN [kind |-> "cancelloop", to |-> Kernel] ELSE NoOp
<1>1. /\ op' = [op EXCEPT ![c] = o] /\ o.kind \notin {"SYNC", "CANCEL"}
      /\ UNCHANGED <<pending, is_sync_got, st, evt, wait>>
      /\ evts' = IF k = "TIMER" /\ Refused(u) THEN evts
                 ELSE [evts EXCEPT ![u] = Append(@, k)]
    BY <1>0 DEF PostEvent, NoOp, flagVars
<1> HIDE DEF o
<1>2. \A t : Delivered(t) = Wakeups(evts[t]) /\ Delivered(t)' = Wakeups(evts'[t])
    BY DEF Delivered, Wakeups
<1>3. \A t \in Tasks : t # u => evts'[t] = evts[t]
    BY <1>1 DEF TypeOK
<1>4. CASE k = "TIMER"
  <2>1. ASSUME NEW t \in Tasks PROVE Delivered(t)' = Delivered(t)
    <3>1. CASE evts'[t] = evts[t]
        BY <1>2, <3>1
    <3>2. CASE evts'[t] # evts[t]
        <4>1. evts'[t] = Append(evts[t], "TIMER") /\ evts[t] \in Seq(Events)
            BY <1>1, <1>3, <1>4, <3>2 DEF TypeOK
        <4> QED BY <1>2, <4>1, WakeupsFacts
    <3> QED BY <3>1, <3>2
  <2> QED BY <1>0, <1>1, <1>4, <2>1, NoHandOver
<1>5. CASE k # "TIMER"
  <2>1. \A t : Handled(t)' = Handled(t)
    BY <1>1 DEF Handled
  <2>2. ASSUME NEW t PROVE Carried(t)' = Carried(t) \ {c}
    BY <1>1, CarriedNext
  <2>3. c \in Carried(u) /\ \A t : t # u => c \notin Carried(t)
    BY <1>0, <1>5 DEF Carried, Events
  <2>4. ASSUME NEW t \in Tasks, t # u PROVE WakeOk(t)'
    BY <1>1, <1>2, <1>3, <2>1, <2>2, <2>3, <2>4, WakeFrame DEF WakeInv
  <2>5. ASSUME u \in Tasks PROVE WakeOk(u)'
    <3>1. is_sync_got[u] /\ OneWakeup(u)
        BY <2>3, <2>5 DEF WakeInv, WakeOk, NoWakeup
    <3>2. Carried(u) = {c} /\ Delivered(u) = {} /\ Handled(u) = 0
        BY <2>3, <3>1 DEF OneWakeup
    <3>3. evts'[u] = Append(evts[u], k) /\ evts[u] \in Seq(Events)
        BY <1>1, <1>5, <2>5 DEF TypeOK
    <3>4. Delivered(u)' = {Len(evts[u]) + 1}
        <4>1. Wakeups(evts[u]) = {} /\ k \in Events \ {"TIMER"}
            BY <1>2, <1>5, <3>2
        <4>2. Wakeups(Append(evts[u], k)) = {Len(evts[u]) + 1}
            BY <3>3, <4>1, WakeupsFacts
        <4> QED BY <1>2, <3>3, <4>2
    <3>5. Carried(u)' = {}
        BY <2>2, <3>2
    <3>6. OneWakeup(u)'
        BY <2>1, <3>2, <3>4, <3>5 DEF OneWakeup
    <3> QED BY <1>1, <2>5, <3>1, <3>6 DEF WakeInv, WakeOk
  <2> QED BY <1>1, <2>4, <2>5 DEF WakeInv
<1> QED BY <1>4, <1>5

\* A step of t that no other task takes part in.
LEMMA OwnStep ==
    ASSUME WakeInv, NEW t \in Tasks, op' = op, NoTwice(pending'), WakeOk(t)',
           \A x \in Tasks \ {t} :
              /\ evts'[x] = evts[x] /\ st'[x] = st[x] /\ evt'[x] = evt[x]
              /\ is_sync_got'[x] = is_sync_got[x] /\ wait'[x] = wait[x]
              /\ x \in ToSet(pending') <=> x \in ToSet(pending)
    PROVE  WakeInv'
<1>1. \A x : Carried(x)' = Carried(x)
    BY DEF Carried
<1>2. \A x \in Tasks \ {t} : Delivered(x)' = Delivered(x)
    BY DEF Delivered
<1>3. \A x \in Tasks \ {t} : Handled(x)' = Handled(x)
    BY DEF Handled
<1>4. ASSUME NEW x \in Tasks \ {t} PROVE WakeOk(x)'
    BY <1>1, <1>2, <1>3, WakeFrame DEF WakeInv
<1> QED BY <1>4 DEF WakeInv

\* A task that does not wait enters the list.
LEMMA PendWakes ==
    ASSUME TypeOK, WakeInv, NEW t \in Tasks, NEW timeout \in Timeouts[t],
           Pend(t, timeout)
    PROVE  WakeInv'
<1>1. /\ pending' = Append(pending, t) /\ wait[t] = "no"
      /\ wait' = [wait EXCEPT ![t] = timeout]
      /\ timeout \in {"timed", "forever"}
      /\ UNCHANGED <<evts, st, evt, is_sync_got, op>>
    BY UseAssumption DEF Pend, AtWork
<1>2. ~is_sync_got[t] /\ t \notin ToSet(pending) /\ NoWakeup(t)
    BY <1>1 DEF WakeInv, WakeOk
<1>3. NoTwice(pending') /\ ToSet(pending') = ToSet(pending) \cup {t}
    BY <1>1, <1>2, AppendFacts DEF TypeOK, WakeInv
<1>4. WakeOk(t)'
  <2>1. NoWakeup(t)'
    BY <1>1, <1>2 DEF NoWakeup, Carried, Delivered, Handled
  <2>2. wait'[t] # "no"
    BY <1>1 DEF TypeOK
  <2> QED BY <1>1, <1>2, <1>3, <2>1, <2>2 DEF WakeOk
<1> QED BY <1>1, <1>3, <1>4, OwnStep DEF TypeOK

\* A timer that finds no mark takes the task off the list.
LEMMA TimeoutWakes ==
    ASSUME TypeOK, WakeInv, NEW t \in Tasks, ReasonTimeout(t)
    PROVE  WakeInv'
<1>1. /\ ~is_sync_got[t] /\ st[t] = "reason" /\ evt[t] = "TIMER"
      /\ wait' = [wait EXCEPT ![t] = "no"] /\ st' = [st EXCEPT ![t] = "run"]
      /\ UNCHANGED <<evts, evt, is_sync_got, op>>
    BY DEF ReasonTimeout
<1>2. PICK i \in DOMAIN pending : pending[i] = t /\ pending' = RemoveAt(pending, i)
    BY DEF ReasonTimeout
<1>3. NoTwice(pending') /\ ToSet(pending') = ToSet(pending) \ {t}
    BY <1>2, RemoveAtFacts DEF TypeOK, WakeInv
<1>4. WakeOk(t)'
  <2>1. NoWakeup(t)
    BY <1>1 DEF WakeInv, WakeOk
  <2>2. st'[t] = "run" /\ wait'[t] = "no"
    BY <1>1 DEF TypeOK
  <2>3. NoWakeup(t)'
    BY <1>1, <2>1, <2>2 DEF NoWakeup, Carried, Delivered, Handled
  <2> QED BY <1>1, <1>3, <2>2, <2>3 DEF WakeOk
<1> QED BY <1>1, <1>3, <1>4, OwnStep DEF TypeOK

\* The wake-up is consumed: the mark is cleared with it.
LEMMA GetWakes ==
    ASSUME TypeOK, WakeInv, NEW t \in Tasks, ReasonGet(t)
    PROVE  WakeInv'
<1>1. /\ st[t] = "reason2"
      /\ is_sync_got' = [is_sync_got EXCEPT ![t] = FALSE]
      /\ wait' = [wait EXCEPT ![t] = "no"] /\ st' = [st EXCEPT ![t] = "run"]
      /\ UNCHANGED <<pending, evts, evt, op>>
    BY DEF ReasonGet
<1>2. Handled(t) = 1
    BY <1>1 DEF Handled
<1>3. is_sync_got[t] /\ OneWakeup(t) /\ t \notin ToSet(pending)
    BY <1>2 DEF WakeInv, WakeOk, NoWakeup
<1>4. WakeOk(t)'
  <2>1. st'[t] = "run" /\ wait'[t] = "no" /\ ~is_sync_got'[t]
    BY <1>1 DEF TypeOK
  <2>2. NoWakeup(t)'
    BY <1>1, <1>2, <1>3, <2>1
       DEF OneWakeup, NoWakeup, Carried, Delivered, Handled
  <2> QED BY <1>1, <1>3, <2>1, <2>2 DEF WakeOk
<1>5. NoTwice(pending')
    BY <1>1 DEF WakeInv
<1> QED BY <1>1, <1>4, <1>5, OwnStep DEF TypeOK

\* The first event of the queue goes to the handler.
LEMMA DispatchWakes ==
    ASSUME TypeOK, WakeInv, NEW t \in Tasks, Dispatch(t)
    PROVE  WakeInv'
<1>1. /\ st[t] = "idle" /\ evts[t] # <<>> /\ evts[t] \in Seq(Events)
      /\ evt' = [evt EXCEPT ![t] = Head(evts[t])]
      /\ evts' = [evts EXCEPT ![t] = Tail(@)]
      /\ st' = [st EXCEPT ![t] = "reason"]
      /\ UNCHANGED <<pending, wait, is_sync_got, op>>
    BY DEF Dispatch, flagVars, TypeOK
<1>2. evt'[t] = Head(evts[t]) /\ evts'[t] = Tail(evts[t]) /\ st'[t] = "reason"
    BY <1>1 DEF TypeOK
<1>3. /\ Delivered(t) = Wakeups(evts[t]) /\ Delivered(t)' = Wakeups(Tail(evts[t]))
      /\ Carried(t)' = Carried(t)
      /\ Handled(t) = 0 /\ Handled(t)' = IF Head(evts[t]) = "TIMER" THEN 0 ELSE 1
    BY <1>1, <1>2 DEF Delivered, Wakeups, Carried, Handled
<1>4. WakeOk(t)'
  <2>1. CASE Head(evts[t]) = "TIMER"
    <3>1. /\ Wakeups(evts[t]) = {} => Wakeups(Tail(evts[t])) = {}
          /\ \A i : Wakeups(evts[t]) = {i} => Wakeups(Tail(evts[t])) = {i - 1}
        BY <1>1, <2>1, WakeupsFacts
    <3>2. /\ NoWakeup(t) => NoWakeup(t)'
          /\ OneWakeup(t) => OneWakeup(t)'
        BY <1>3, <2>1, <3>1 DEF NoWakeup, OneWakeup
    <3> QED BY <1>1, <3>2 DEF WakeInv, WakeOk
  <2>2. CASE Head(evts[t]) # "TIMER"
    <3>1. /\ Wakeups(evts[t]) # {}
          /\ \A i : Wakeups(evts[t]) = {i} => Wakeups(Tail(evts[t])) = {}
        BY <1>1, <2>2, WakeupsFacts
    <3>2. ~NoWakeup(t) /\ (OneWakeup(t) => OneWakeup(t)')
        BY <1>3, <2>2, <3>1 DEF NoWakeup, OneWakeup
    <3> QED BY <1>1, <3>2 DEF WakeInv, WakeOk
  <2> QED BY <2>1, <2>2
<1>5. NoTwice(pending')
    BY <1>1 DEF WakeInv
<1> QED BY <1>1, <1>4, <1>5, OwnStep DEF TypeOK

\* Steps of the handler that leave the wait and its wake-up alone.
LEMMA HandlerWakes ==
    ASSUME TypeOK, WakeInv, NEW t \in Tasks,
           \/ HandlerReturn(t) \/ SetDue(t) \/ ReasonPending(t)
           \/ ReasonCancelTimer(t)
    PROVE  WakeInv'
<1>1. /\ UNCHANGED <<pending, evts, evt, wait, is_sync_got, op>>
      /\ \A x \in Tasks \ {t} : st'[x] = st[x]
      /\ Handled(t)' = Handled(t)
  <2>1. CASE HandlerReturn(t)
    BY <2>1 DEF HandlerReturn, flagVars, Handled, TypeOK
  <2>2. CASE SetDue(t)
    BY <2>2 DEF SetDue, Handled, TypeOK
  <2>3. CASE ReasonPending(t)
    BY <2>3 DEF ReasonPending, flagVars, Handled, TypeOK
  <2>4. CASE ReasonCancelTimer(t)
    BY <2>4 DEF ReasonCancelTimer, Handled, TypeOK
  <2> QED BY <2>1, <2>2, <2>3, <2>4
<1>2. WakeOk(t)'
  <2>1. Carried(t)' = Carried(t) /\ Delivered(t)' = Delivered(t)
    BY <1>1 DEF Carried, Delivered
  <2> QED BY <1>1, <2>1, WakeFrame DEF WakeInv
<1>3. NoTwice(pending')
    BY <1>1 DEF WakeInv
<1> QED BY <1>1, <1>2, <1>3, OwnStep

LEMMA WakeStep == TypeOK /\ WakeInv /\ [Next]_<<vars, mode>> => WakeInv'
<1> SUFFICES ASSUME TypeOK, WakeInv, [Next]_<<vars, mode>> PROVE WakeInv'
    OBVIOUS
<1>0. /\ NoOp.kind \notin {"SYNC", "CANCEL"}
      /\ Kernel \in Ctxs /\ Tasks \subseteq Ctxs /\ TypeOK'
    BY TypeStep DEF NoOp, Ctxs
<1>f. ASSUME UNCHANGED <<pending, evts, st, evt, wait, is_sync_got, op>>
      PROVE  WakeInv'
  <2>1. \A t : /\ Carried(t)' = Carried(t) /\ Delivered(t)' = Delivered(t)
               /\ Handled(t)' = Handled(t)
    BY <1>f DEF Carried, Delivered, Handled
  <2> QED BY <1>f, <2>1, WakeFrame DEF WakeInv
<1>1. ASSUME NEW t \in Tasks, Use(t) PROVE WakeInv'
  <2>1. CASE Obtain(t) \/ Reset(t)
    BY <1>f, <2>1 DEF Obtain, Reset, taskVars, flagVars
  <2>2. CASE Cancel(t)
    BY <1>0, <2>2, CancelWakes DEF Cancel, AtWork
  <2> QED BY <1>1, <2>1, <2>2, PendWakes DEF Use
<1>2. ASSUME NEW t \in Tasks, Release(t) PROVE WakeInv'
  <2>1. CASE Increase(t)
    BY <1>0, <2>1, GrantWakes DEF Increase, AtWork
  <2>2. CASE IncreaseOverrun(t)
    BY <1>f, <2>2 DEF IncreaseOverrun, taskVars, flagVars
  <2> QED BY <1>2, <2>1, <2>2 DEF Release
<1>3. ASSUME NEW t \in Tasks, Step(t) PROVE WakeInv'
  <2>1. CASE IncreaseLoop(t)
    BY <1>0, <2>1, GrantWakes DEF IncreaseLoop
  <2>2. CASE CancelLoop(t)
    BY <1>0, <2>2, CancelWakes DEF CancelLoop
  <2> QED BY <1>0, <1>3, <2>1, <2>2, PostDelivers, DispatchWakes, TimeoutWakes,
             GetWakes, HandlerWakes DEF Step
<1>4. CASE KernelStep
  <2>1. CASE KernelIncrease
    <3>1. CASE cur < MaxCount
        BY <1>0, <2>1, <3>1, GrantWakes DEF KernelIncrease
    <3>2. CASE ~(cur < MaxCount)
        BY <1>f, <2>1, <3>2 DEF KernelIncrease, taskVars
    <3> QED BY <3>1, <3>2
  <2>2. CASE IncreaseLoop(Kernel)
    BY <1>0, <2>2, GrantWakes DEF IncreaseLoop
  <2>3. ASSUME NEW t \in Tasks, KernelTimer(t) PROVE WakeInv'
    <3> DEFINE o == [kind |-> "TIMER", to |-> t]
    <3>1. /\ op' = [op EXCEPT ![Kernel] = o] /\ op[Kernel] = NoOp
          /\ UNCHANGED <<pending, is_sync_got, taskVars>>
        BY <2>3 DEF KernelTimer
    <3>2. o.kind \notin {"SYNC", "CANCEL"}
        OBVIOUS
    <3> HIDE DEF o
    <3> QED BY <1>0, <3>1, <3>2, NoHandOver DEF taskVars, Delivered
  <2> QED BY <1>0, <1>4, <2>1, <2>2, <2>3, PostDelivers DEF KernelStep
<1>5. CASE Isr \/ UNCHANGED <<vars, mode>>
    BY <1>5, <1>f DEF Isr, vars, taskVars, flagVars
<1> QED BY <1>1, <1>2, <1>3, <1>4, <1>5 DEF Next

LEMMA WakeInvariant == Spec => [](TypeOK /\ WakeInv)
<1>1. Init => WakeInv
  <2> SUFFICES ASSUME Init PROVE WakeInv
    OBVIOUS
  <2>1. NoTwice(pending) /\ ToSet(pending) = {}
    BY DEF Init, NoTwice, ToSet
  <2>2. ASSUME NEW t \in Tasks PROVE WakeOk(t)
    <3>1. ~is_sync_got[t] /\ wait[t] = "no" /\ st[t] = "run" /\ evts[t] = <<>>
        BY DEF Init
    <3>2. Carried(t) = {}
        BY DEF Init, Carried, NoOp
    <3>3. NoWakeup(t)
        BY <3>1, <3>2 DEF NoWakeup, Delivered, Handled
    <3> QED BY <2>1, <3>1, <3>3 DEF WakeOk
  <2> QED BY <2>1, <2>2 DEF WakeInv
<1> QED BY <1>1, TypeInit, TypeStep, WakeStep, PTL DEF Spec

\* For every number of tasks, cancellers and interrupts: a task that waits is in
\* the list or is marked, not both, and the mark stands for exactly one SYNC or
\* CANCEL, in the hands of a context, in the task's queue or in its handler.
THEOREM WakeupsCorrect == Spec => []WakeupsAreExact
<1>1. TypeOK /\ WakeInv => WakeupsAreExact
  <2> SUFFICES ASSUME TypeOK, WakeInv, NEW t \in Tasks
               PROVE  /\ Cardinality(Carried(t)) + Cardinality(Delivered(t))
                           + Handled(t) = IF is_sync_got[t] THEN 1 ELSE 0
                      /\ wait[t] # "no" <=>
                            (t \in ToSet(pending)) # is_sync_got[t]
    BY DEF WakeupsAreExact, LatchIsOneWakeup, WaiterIsAccounted
  <2>1. WakeOk(t) /\ is_sync_got[t] \in BOOLEAN
    BY DEF WakeInv, TypeOK
  <2>2. wait[t] # "no" <=> (t \in ToSet(pending)) # is_sync_got[t]
    <3>1. ASSUME NEW a \in BOOLEAN, NEW b \in BOOLEAN
          PROVE  a # b <=> ~(a <=> b)
        BY <3>1
    <3>2. (t \in ToSet(pending)) # is_sync_got[t]
            <=> ~(t \in ToSet(pending) <=> is_sync_got[t])
        BY <2>1, <3>1
    <3> QED BY <2>1, <3>2 DEF WakeOk
  <2>3. /\ Cardinality({}) = 0
        /\ \A c : Cardinality({c}) = 1
    BY FS_EmptySet, FS_Singleton
  <2>4. NoWakeup(t) => Cardinality(Carried(t)) + Cardinality(Delivered(t))
                         + Handled(t) = 0
    BY <2>3 DEF NoWakeup
  <2>5. OneWakeup(t) => Cardinality(Carried(t)) + Cardinality(Delivered(t))
                          + Handled(t) = 1
    BY <2>3 DEF OneWakeup
  <2> QED BY <2>1, <2>2, <2>4, <2>5 DEF WakeOk
<1> QED BY <1>1, WakeInvariant, PTL

-----------------------------------------------------------------------------
(* No count is lost or doubled *)

\* A SYNC, and not a CANCEL, is under way to t.
SyncCarried(t) == \E c \in Ctxs : op[c].kind = "SYNC" /\ op[c].to = t
SyncUnderWay(t) ==
    \/ SyncCarried(t)
    \/ "SYNC" \in ToSet(evts[t])
    \/ st[t] \in {"reason", "reason2"} /\ evt[t] = "SYNC"

\* Strengthens CountsConserved: the tasks that hold a count are not waiting, and
\* those that were given one are those that a SYNC is under way to.
HoldInv ==
    /\ \A t \in holders : wait[t] = "no"
    /\ ~Manual => \A t \in Tasks : t \in granted <=> SyncUnderWay(t)

LEMMA NothingUnderWay ==
    ASSUME TypeOK, NEW t, NoWakeup(t)
    PROVE  ~SyncUnderWay(t)
<1>1. ~SyncCarried(t)
    BY DEF NoWakeup, Carried, SyncCarried
<1>2. "SYNC" \notin ToSet(evts[t])
    BY DEF NoWakeup, Delivered, ToSet
<1>3. ~(st[t] \in {"reason", "reason2"} /\ evt[t] = "SYNC")
    BY DEF NoWakeup, Handled
<1> QED BY <1>1, <1>2, <1>3 DEF SyncUnderWay

LEMMA SyncCarriedNext ==
    ASSUME TypeOK, NEW c \in Ctxs, NEW o, op' = [op EXCEPT ![c] = o], NEW t,
           op[c].kind = "SYNC" => op[c].to # t
    PROVE  SyncCarried(t)' <=> SyncCarried(t) \/ (o.kind = "SYNC" /\ o.to = t)
BY DEF TypeOK, SyncCarried

\* One turn of the loop of increase gives a count to the task that it marks.
LEMMA GrantHolds ==
    ASSUME TypeOK, WakeInv, HoldInv, NEW c \in Ctxs, NEW n, GrantNext(c, n),
           op[c].kind # "SYNC", holders' \subseteq holders, Manual' = Manual,
           UNCHANGED taskVars
    PROVE  HoldInv'
<1>1. \A t \in holders' : wait'[t] = "no"
    BY DEF HoldInv, taskVars
<1>2. ASSUME ~Manual, NEW t \in Tasks PROVE t \in granted' <=> SyncUnderWay(t)'
  <2>1. t \in granted <=> SyncUnderWay(t)
    BY <1>2 DEF HoldInv
  <2>2. CASE n > 0 /\ pending # <<>>
    <3>1. PICK h \in Tasks : h = Head(pending)
        BY <2>2, TailFacts DEF TypeOK
    <3> DEFINE o == [kind |-> "SYNC", to |-> h]
    <3>2. /\ o.kind = "SYNC" /\ o.to = h /\ op' = [op EXCEPT ![c] = o]
          /\ granted' = granted \cup {h}
        BY <1>2, <2>2, <3>1 DEF GrantNext
    <3> HIDE DEF o
    <3>3. SyncCarried(t)' <=> SyncCarried(t) \/ h = t
        BY <3>2, SyncCarriedNext
    <3> QED BY <2>1, <3>2, <3>3 DEF SyncUnderWay, taskVars
  <2>3. CASE ~(n > 0 /\ pending # <<>>)
    <3>1. op' = [op EXCEPT ![c] = NoOp] /\ granted' = granted
        BY <2>3 DEF GrantNext
    <3>2. SyncCarried(t)' <=> SyncCarried(t)
        <4>1. NoOp.kind # "SYNC"
            BY DEF NoOp
        <4> QED BY <3>1, <4>1, SyncCarriedNext
    <3> QED BY <2>1, <3>1, <3>2 DEF SyncUnderWay, taskVars
  <2> QED BY <2>2, <2>3
<1> QED BY <1>1, <1>2 DEF HoldInv

\* The other calls of a context leave the counts on their way alone.
LEMMA CallHolds ==
    ASSUME TypeOK, HoldInv, NEW c \in Ctxs, NEW o, op' = [op EXCEPT ![c] = o],
           op[c].kind # "SYNC", o.kind # "SYNC", Manual' = Manual,
           UNCHANGED <<wait, st, evt, holders, granted>>,
           \A t \in Tasks : "SYNC" \in ToSet(evts'[t]) <=> "SYNC" \in ToSet(evts[t])
    PROVE  HoldInv'
<1>1. ASSUME NEW t PROVE SyncCarried(t)' <=> SyncCarried(t)
    BY SyncCarriedNext
<1> QED BY <1>1 DEF HoldInv, SyncUnderWay

LEMMA PostHolds ==
    ASSUME TypeOK, WakeInv, HoldInv, NEW c \in Ctxs, PostEvent(c),
           Manual' = Manual
    PROVE  HoldInv'
<1>0. PICK k \in Events, u \in Ctxs : k = op[c].kind /\ u = op[c].to
    BY DEF PostEvent, TypeOK
<1> DEFINE o == IF k = "SYNC" THEN [kind |-> "incloop", to |-> Kernel]
                ELSE IF k = "CANCEL"
                THEN [kind |-> "cancelloop", to |-> Kernel] ELSE NoOp
<1>1. /\ op' = [op EXCEPT ![c] = o] /\ o.kind # "SYNC"
      /\ UNCHANGED <<st, evt, wait, holders, granted>>
      /\ evts' = IF k = "TIMER" /\ Refused(u) THEN evts
                 ELSE [evts EXCEPT ![u] = Append(@, k)]
    BY <1>0 DEF PostEvent, NoOp, histVars
<1> HIDE DEF o
<1>2. ASSUME NEW t \in Tasks
      PROVE  "SYNC" \in ToSet(evts'[t])
               <=> "SYNC" \in ToSet(evts[t]) \/ (k = "SYNC" /\ u = t)
  <2>1. CASE evts'[t] = evts[t] /\ ~(k = "SYNC" /\ u = t)
    BY <2>1
  <2>2. CASE ~(evts'[t] = evts[t] /\ ~(k = "SYNC" /\ u = t))
    <3>1. u = t /\ evts'[t] = Append(evts[t], k) /\ evts[t] \in Seq(Events)
        BY <1>1, <2>2 DEF TypeOK
    <3>2. ToSet(evts'[t]) = ToSet(evts[t]) \cup {k}
        BY <3>1, AppendFacts
    <3> QED BY <3>1, <3>2
  <2> QED BY <2>1, <2>2
<1>3. CASE k # "SYNC"
    BY <1>0, <1>1, <1>2, <1>3, CallHolds
<1>4. CASE k = "SYNC"
  <2>1. ASSUME NEW t \in Tasks PROVE SyncUnderWay(t)' <=> SyncUnderWay(t)
    <3>1. CASE t # u
        <4>1. SyncCarried(t)' <=> SyncCarried(t)
            BY <1>0, <1>1, <3>1, SyncCarriedNext
        <4> QED BY <1>1, <1>2, <3>1, <4>1 DEF SyncUnderWay
    <3>2. CASE t = u
        BY <1>0, <1>2, <1>4, <3>2 DEF SyncUnderWay, SyncCarried
    <3> QED BY <3>1, <3>2
  <2> QED BY <1>1, <2>1 DEF HoldInv
<1> QED BY <1>3, <1>4

\* A step of t that gives nothing and takes nothing.
LEMMA OwnHolds ==
    ASSUME HoldInv, NEW t \in Tasks, op' = op, Manual' = Manual,
           holders' \subseteq holders \cup {t}, t \in holders' => wait'[t] = "no",
           ~Manual => (t \in granted' <=> SyncUnderWay(t)'),
           \A x \in Tasks \ {t} :
              /\ evts'[x] = evts[x] /\ st'[x] = st[x] /\ evt'[x] = evt[x]
              /\ wait'[x] = wait[x]
              /\ x \in granted' <=> x \in granted,
           holders \subseteq Tasks
    PROVE  HoldInv'
<1>1. \A x \in Tasks \ {t} : SyncUnderWay(x)' <=> SyncUnderWay(x)
    BY DEF SyncUnderWay, SyncCarried
<1>2. \A x \in holders' : wait'[x] = "no"
    BY DEF HoldInv
<1>3. ~Manual => \A x \in Tasks : x \in granted' <=> SyncUnderWay(x)'
    BY <1>1 DEF HoldInv
<1> QED BY <1>2, <1>3 DEF HoldInv

LEMMA TaskHolds ==
    ASSUME TypeOK, TypeOK', WakeInv, WakeInv', HoldInv, NEW t \in Tasks,
           Manual' = Manual,
           \/ HandlerReturn(t) \/ SetDue(t) \/ Dispatch(t) \/ ReasonPending(t)
           \/ ReasonTimeout(t) \/ ReasonCancelTimer(t) \/ ReasonGet(t)
           \/ \E timeout \in Timeouts[t] : Pend(t, timeout)
    PROVE  HoldInv'
<1>0. /\ holders \subseteq Tasks
      /\ ~Manual => (t \in granted <=> SyncUnderWay(t))
      /\ t \in holders => wait[t] = "no"
    BY DEF TypeOK, HoldInv
<1>1. CASE HandlerReturn(t)
  <2>1. SyncUnderWay(t)' <=> SyncUnderWay(t)
    BY <1>1 DEF HandlerReturn, SyncUnderWay, SyncCarried, TypeOK
  <2> QED BY <1>0, <1>1, <2>1, OwnHolds DEF HandlerReturn, histVars, TypeOK
<1>2. CASE SetDue(t)
  <2>1. SyncUnderWay(t)' <=> SyncUnderWay(t)
    BY <1>2 DEF SetDue, SyncUnderWay, SyncCarried, TypeOK
  <2> QED BY <1>0, <1>2, <2>1, OwnHolds DEF SetDue, histVars, TypeOK
<1>3. CASE ReasonPending(t)
  <2>1. SyncUnderWay(t)' <=> SyncUnderWay(t)
    BY <1>3 DEF ReasonPending, SyncUnderWay, SyncCarried, TypeOK
  <2> QED BY <1>0, <1>3, <2>1, OwnHolds DEF ReasonPending, histVars, TypeOK
<1>4. CASE ReasonCancelTimer(t)
  <2>1. SyncUnderWay(t)' <=> SyncUnderWay(t)
    BY <1>4 DEF ReasonCancelTimer, SyncUnderWay, SyncCarried, TypeOK
  <2> QED BY <1>0, <1>4, <2>1, OwnHolds DEF ReasonCancelTimer, histVars, TypeOK
<1>5. ASSUME NEW timeout \in Timeouts[t], Pend(t, timeout) PROVE HoldInv'
  <2>1. SyncUnderWay(t)' <=> SyncUnderWay(t)
    BY <1>5 DEF Pend, SyncUnderWay, SyncCarried, TypeOK
  <2>2. /\ t \notin holders /\ UNCHANGED <<op, evts, st, evt, histVars>>
        /\ \A x \in Tasks \ {t} : wait'[x] = wait[x]
    BY <1>5 DEF Pend, TypeOK
  <2> QED BY <1>0, <2>1, <2>2, OwnHolds DEF histVars
<1>6. CASE Dispatch(t)
  <2>1. /\ evts[t] # <<>> /\ evts[t] \in Seq(Events) /\ st[t] = "idle"
        /\ evts'[t] = Tail(evts[t]) /\ evt'[t] = Head(evts[t])
        /\ st'[t] = "reason" /\ op' = op
    BY <1>6 DEF Dispatch, TypeOK
  <2>2. ToSet(evts[t]) = ToSet(evts'[t]) \cup {evt'[t]}
    BY <2>1, TailFacts
  <2>3. SyncUnderWay(t)' <=> SyncUnderWay(t)
    BY <2>1, <2>2 DEF SyncUnderWay, SyncCarried
  <2> QED BY <1>0, <1>6, <2>3, OwnHolds DEF Dispatch, histVars, TypeOK
<1>7. CASE ReasonTimeout(t)
  <2>1. ~is_sync_got[t] /\ ~is_sync_got'[t]
    BY <1>7 DEF ReasonTimeout
  <2>2. NoWakeup(t) /\ NoWakeup(t)'
    BY <2>1 DEF WakeInv, WakeOk
  <2>3. ~SyncUnderWay(t) /\ ~SyncUnderWay(t)'
    BY <2>2, NothingUnderWay DEF NoWakeup, Carried, Delivered, Handled,
         SyncUnderWay, SyncCarried, ToSet
  <2> QED BY <1>0, <1>7, <2>3, OwnHolds DEF ReasonTimeout, histVars, TypeOK
<1>8. CASE ReasonGet(t)
  <2>1. ~is_sync_got'[t] /\ t \notin granted' /\ wait'[t] = "no"
    BY <1>8 DEF ReasonGet, TypeOK
  <2>2. NoWakeup(t)'
    BY <2>1 DEF WakeInv, WakeOk
  <2>3. ~SyncUnderWay(t)'
    BY <2>2 DEF NoWakeup, Carried, Delivered, Handled,
         SyncUnderWay, SyncCarried, ToSet
  <2> QED BY <1>0, <1>8, <2>1, <2>3, OwnHolds DEF ReasonGet, TypeOK
<1> QED BY <1>1, <1>2, <1>3, <1>4, <1>5, <1>6, <1>7, <1>8

LEMMA CancelHolds ==
    ASSUME TypeOK, HoldInv, NEW c \in Ctxs, CancelNext(c), Manual' = Manual,
           op[c].kind # "SYNC", UNCHANGED <<taskVars, histVars>>
    PROVE  HoldInv'
<1>1. PICK o : op' = [op EXCEPT ![c] = o] /\ o.kind # "SYNC"
  <2>1. CASE pending # <<>>
    <3>1. [kind |-> "CANCEL", to |-> Head(pending)].kind # "SYNC"
        OBVIOUS
    <3> QED BY <2>1, <3>1 DEF CancelNext
  <2>2. CASE pending = <<>>
    <3>1. NoOp.kind # "SYNC"
        BY DEF NoOp
    <3> QED BY <2>2, <3>1 DEF CancelNext
  <2> QED BY <2>1, <2>2
<1> QED BY <1>1, CallHolds DEF taskVars, histVars

LEMMA HoldStep ==
    TypeOK /\ WakeInv /\ HoldInv /\ [Next]_<<vars, mode>> => HoldInv'
<1> SUFFICES ASSUME TypeOK, WakeInv, HoldInv, [Next]_<<vars, mode>>
             PROVE  HoldInv'
    OBVIOUS
<1>0. /\ NoOp.kind # "SYNC" /\ Kernel \in Ctxs /\ Tasks \subseteq Ctxs
      /\ TypeOK' /\ WakeInv' /\ Manual' = Manual
    BY TypeStep, WakeStep DEF NoOp, Ctxs, Next, Manual
<1>f. ASSUME UNCHANGED <<evts, st, evt, wait, op, granted>>,
             \A t \in holders' : wait[t] = "no"
      PROVE  HoldInv'
    BY <1>0, <1>f DEF HoldInv, SyncUnderWay, SyncCarried
<1>1. ASSUME NEW t \in Tasks, Use(t) PROVE HoldInv'
  <2>1. CASE Obtain(t)
    <3>1. \A x \in holders' : wait[x] = "no"
        BY <2>1 DEF Obtain, AtWork, HoldInv
    <3> QED BY <1>f, <2>1, <3>1 DEF Obtain, taskVars
  <2>2. CASE Reset(t)
    BY <1>f, <2>2 DEF Reset, taskVars, HoldInv
  <2>3. CASE Cancel(t)
    BY <1>0, <2>3, CancelHolds DEF Cancel, AtWork
  <2> QED BY <1>0, <1>1, <2>1, <2>2, <2>3, TaskHolds DEF Use
<1>2. ASSUME NEW t \in Tasks, Release(t) PROVE HoldInv'
  <2>1. CASE Increase(t)
    BY <1>0, <2>1, GrantHolds DEF Increase, AtWork
  <2>2. CASE IncreaseOverrun(t)
    BY <1>f, <2>2 DEF IncreaseOverrun, taskVars, HoldInv
  <2> QED BY <1>2, <2>1, <2>2 DEF Release
<1>3. ASSUME NEW t \in Tasks, Step(t) PROVE HoldInv'
  <2>1. CASE IncreaseLoop(t)
    BY <1>0, <2>1, GrantHolds DEF IncreaseLoop
  <2>2. CASE CancelLoop(t)
    BY <1>0, <2>2, CancelHolds DEF CancelLoop
  <2> QED BY <1>0, <1>3, <2>1, <2>2, PostHolds, TaskHolds DEF Step
<1>4. CASE KernelStep
  <2>1. CASE KernelIncrease
    <3>1. CASE cur < MaxCount
        BY <1>0, <2>1, <3>1, GrantHolds DEF KernelIncrease
    <3>2. CASE ~(cur < MaxCount)
        BY <1>f, <2>1, <3>2 DEF KernelIncrease, taskVars, HoldInv
    <3> QED BY <3>1, <3>2
  <2>2. CASE IncreaseLoop(Kernel)
    BY <1>0, <2>2, GrantHolds DEF IncreaseLoop
  <2>3. ASSUME NEW t \in Tasks, KernelTimer(t) PROVE HoldInv'
    <3> DEFINE o == [kind |-> "TIMER", to |-> t]
    <3>1. /\ op' = [op EXCEPT ![Kernel] = o] /\ op[Kernel] = NoOp
          /\ UNCHANGED <<taskVars, histVars>>
        BY <2>3 DEF KernelTimer
    <3>2. o.kind # "SYNC"
        OBVIOUS
    <3> HIDE DEF o
    <3> QED BY <1>0, <3>1, <3>2, CallHolds DEF taskVars, histVars
  <2> QED BY <1>0, <1>4, <2>1, <2>2, <2>3, PostHolds DEF KernelStep
<1>5. CASE Isr \/ UNCHANGED <<vars, mode>>
    BY <1>5, <1>f DEF Isr, vars, taskVars, histVars, HoldInv
<1> QED BY <1>1, <1>2, <1>3, <1>4, <1>5 DEF Next

\* Counting the tasks that hold or were given a count.
LEMMA SetCounts ==
    ASSUME NEW S \in SUBSET Tasks
    PROVE  /\ Cardinality(S) \in Nat
           /\ \A t \in Tasks \ S : Cardinality(S \cup {t}) = Cardinality(S) + 1
           /\ \A t \in S : Cardinality(S \ {t}) = Cardinality(S) - 1
<1>1. IsFiniteSet(S)
    BY FS_Subset, TaskAssumption
<1> QED BY <1>1, FS_CardinalityType, FS_AddElement, FS_RemoveElement

\* What a turn of the loop takes from the count it adds to those on their way.
LEMMA GrantConserves ==
    ASSUME TypeOK, WakeInv, HoldInv, ~Manual,
           NEW c, NEW n \in 0 .. MaxCount, GrantNext(c, n)
    PROVE  cur' + Cardinality(granted') = n + Cardinality(granted)
<1>1. CASE n > 0 /\ pending # <<>>
  <2>1. PICK h \in Tasks : h = Head(pending) /\ h \in ToSet(pending)
    BY <1>1, TailFacts DEF TypeOK
  <2>2. NoWakeup(h)
    BY <2>1 DEF WakeInv, WakeOk
  <2>3. h \notin granted
    BY <2>2, NothingUnderWay DEF HoldInv
  <2>4. cur' = n - 1 /\ granted' = granted \cup {h}
    BY <1>1, <2>1 DEF GrantNext
  <2>5. Cardinality(granted') = Cardinality(granted) + 1
    BY <2>1, <2>3, <2>4, SetCounts DEF TypeOK
  <2>6. Cardinality(granted) \in Nat /\ n \in Int
    BY SetCounts DEF TypeOK
  <2> QED BY <2>4, <2>5, <2>6
<1>2. CASE ~(n > 0 /\ pending # <<>>)
    BY <1>2 DEF GrantNext
<1> QED BY <1>1, <1>2

LEMMA ConserveStep ==
    TypeOK /\ WakeInv /\ HoldInv /\ CountsConserved /\ [Next]_<<vars, mode>>
        => CountsConserved'
<1> SUFFICES ASSUME TypeOK, WakeInv, HoldInv, CountsConserved,
                    [Next]_<<vars, mode>>, ~Manual
             PROVE  CountsConserved'
    BY DEF CountsConserved, Next, Manual
<1>0. /\ cur + Cardinality(holders) + Cardinality(granted)
            = mode.InitCount + made
      /\ cur \in Nat /\ cur \in 0 .. MaxCount /\ made \in Int
      /\ Cardinality(holders) \in Nat /\ Cardinality(granted) \in Nat
      /\ mode.InitCount \in Int /\ mode' = mode
    BY SetCounts, ModeAssumption, CountAssumption
       DEF CountsConserved, TypeOK, Next
<1>g. TypeOK' /\ Manual' = Manual
    BY TypeStep DEF Next, Manual
<1>c. Cardinality(granted') \in Nat /\ Cardinality(holders') \in Nat
      /\ cur' \in Int /\ made' \in Int
    BY <1>g, SetCounts, CountAssumption DEF TypeOK
<1>s. ASSUME cur' + Cardinality(holders') + Cardinality(granted') - made'
               = cur + Cardinality(holders) + Cardinality(granted) - made
      PROVE  CountsConserved'
    BY <1>0, <1>c, <1>s DEF CountsConserved
<1>1. ASSUME NEW t \in Tasks, Use(t) PROVE CountsConserved'
  <2>1. CASE Obtain(t)
    <3>1. Cardinality(holders') = Cardinality(holders) + 1
        BY <2>1, SetCounts DEF Obtain, TypeOK
    <3> QED BY <1>0, <1>s, <2>1, <3>1 DEF Obtain
  <2>2. CASE Reset(t)
    BY <1>0, <1>s, <2>2 DEF Reset
  <2>3. CASE Cancel(t) \/ \E timeout \in Timeouts[t] : Pend(t, timeout)
    BY <1>0, <1>s, <2>3 DEF Cancel, Pend, histVars
  <2> QED BY <1>1, <2>1, <2>2, <2>3 DEF Use
<1>2. ASSUME NEW t \in Tasks, Release(t) PROVE CountsConserved'
  <2>1. t \in holders /\ Cardinality(holders \ {t}) = Cardinality(holders) - 1
    BY <1>2, SetCounts DEF Release, Increase, IncreaseOverrun, TypeOK
  <2>2. CASE Increase(t)
    <3>1. cur + 1 \in 0 .. MaxCount
        BY <1>0, <2>2, CountAssumption DEF Increase
    <3>2. cur' + Cardinality(granted') = cur + 1 + Cardinality(granted)
        BY <2>2, <3>1, GrantConserves DEF Increase
    <3> QED BY <1>0, <1>c, <1>s, <2>1, <2>2, <3>2 DEF Increase
  <2>3. CASE IncreaseOverrun(t)
    BY <1>0, <1>s, <2>1, <2>3 DEF IncreaseOverrun
  <2> QED BY <1>2, <2>2, <2>3 DEF Release
<1>3. ASSUME NEW c \in Ctxs, IncreaseLoop(c) PROVE CountsConserved'
  <2>1. cur' + Cardinality(granted') = cur + Cardinality(granted)
    BY <1>0, <1>3, GrantConserves DEF IncreaseLoop
  <2> QED BY <1>0, <1>c, <1>s, <1>3, <2>1 DEF IncreaseLoop
<1>4. ASSUME NEW t \in Tasks, Step(t) PROVE CountsConserved'
  <2>1. CASE ReasonGet(t)
    <3>1. st[t] = "reason2" /\ Handled(t) = 1
        BY <2>1 DEF ReasonGet, Handled
    <3>2. is_sync_got[t] /\ wait[t] # "no" /\ OneWakeup(t)
        BY <3>1 DEF WakeInv, WakeOk, NoWakeup
    <3>3. t \notin holders
        BY <3>2 DEF HoldInv
    <3>4. CASE evt[t] = "SYNC"
        <4>1. t \in granted
            BY <3>1, <3>4 DEF HoldInv, SyncUnderWay
        <4>2. holders' = holders \cup {t} /\ granted' = granted \ {t}
            BY <2>1, <3>4 DEF ReasonGet
        <4>3. /\ Cardinality(holders') = Cardinality(holders) + 1
              /\ Cardinality(granted') = Cardinality(granted) - 1
            BY <3>3, <4>1, <4>2, SetCounts DEF TypeOK
        <4> QED BY <1>0, <1>s, <2>1, <4>3 DEF ReasonGet
    <3>5. CASE evt[t] # "SYNC"
        <4>1. Carried(t) = {} /\ Delivered(t) = {}
            BY <3>1, <3>2 DEF OneWakeup
        <4>2. ~SyncUnderWay(t)
            BY <3>5, <4>1
               DEF SyncUnderWay, SyncCarried, Carried, Delivered, ToSet
        <4>3. holders' = holders /\ granted' = granted
            BY <2>1, <3>5, <4>2 DEF ReasonGet, HoldInv
        <4> QED BY <1>0, <1>s, <2>1, <4>3 DEF ReasonGet
    <3> QED BY <3>4, <3>5
  <2>2. CASE IncreaseLoop(t)
    BY <1>3, <2>2 DEF Ctxs
  <2>3. CASE \/ CancelLoop(t) \/ PostEvent(t) \/ HandlerReturn(t) \/ SetDue(t)
             \/ Dispatch(t) \/ ReasonPending(t) \/ ReasonTimeout(t)
             \/ ReasonCancelTimer(t)
    <3>1. UNCHANGED <<cur, holders, granted, made>>
        BY <2>3 DEF CancelLoop, PostEvent, HandlerReturn, SetDue, Dispatch,
               ReasonPending, ReasonTimeout, ReasonCancelTimer, histVars
    <3> QED BY <1>s, <3>1
  <2> QED BY <1>4, <2>1, <2>2, <2>3 DEF Step
<1>5. CASE KernelStep
  <2>1. CASE KernelIncrease /\ cur < MaxCount
    <3>1. cur + 1 \in 0 .. MaxCount
        BY <1>0, <2>1, CountAssumption
    <3>2. cur' + Cardinality(granted') = cur + 1 + Cardinality(granted)
        BY <2>1, <3>1, GrantConserves DEF KernelIncrease
    <3> QED BY <1>0, <1>c, <1>s, <2>1, <3>2 DEF KernelIncrease
  <2>2. CASE KernelIncrease /\ ~(cur < MaxCount)
    BY <1>s, <2>2 DEF KernelIncrease
  <2>3. CASE PostEvent(Kernel) \/ \E t \in Tasks : KernelTimer(t)
    BY <1>s, <2>3 DEF PostEvent, KernelTimer, histVars
  <2> QED BY <1>3, <1>5, <2>1, <2>2, <2>3 DEF KernelStep, Ctxs
<1>6. CASE Isr \/ UNCHANGED <<vars, mode>>
    BY <1>6, <1>s DEF Isr, vars, histVars
<1> QED BY <1>1, <1>2, <1>4, <1>5, <1>6 DEF Next

\* For every number of tasks, of interrupts and every maximum: the counts that
\* are available, on their way and held add up to those that were put in.
THEOREM CountsAddUp == Spec => []CountsConserved
<1>1. Init => HoldInv /\ CountsConserved
  <2> SUFFICES ASSUME Init PROVE HoldInv /\ CountsConserved
    OBVIOUS
  <2>1. ASSUME NEW t \in Tasks PROVE ~SyncUnderWay(t)
    <3>1. evts[t] = <<>> /\ st[t] = "run"
        BY DEF Init
    <3>2. ~SyncCarried(t)
        BY DEF Init, SyncCarried, NoOp
    <3> QED BY <3>1, <3>2 DEF SyncUnderWay, ToSet
  <2>2. HoldInv
    BY <2>1 DEF Init, HoldInv
  <2>3. Cardinality({}) = 0 /\ mode.InitCount \in Int
    BY FS_EmptySet, ModeAssumption DEF Init
  <2> QED BY <2>2, <2>3 DEF Init, CountsConserved
<1> QED BY <1>1, WakeInvariant, HoldStep, ConserveStep, PTL DEF Spec

-----------------------------------------------------------------------------
(* A timer leaves nothing behind *)

\* The timer of t runs or is to be set, or the kernel task is about to post it.
Armed(t) == is_timed[t] \/ is_to_set_due[t]
TimerCarried(t) == op[Kernel].kind = "TIMER" /\ op[Kernel].to = t
TimerQueued(t) == "TIMER" \in ToSet(evts[t])

\* A wait has one timer, which is at one place at a time, and is limited as long
\* as the timer has not been posted; the event of the timer is the first of its
\* queue, since it is refused by a task that is ready.
TimerOk(t) ==
    /\ Armed(t) \/ TimerCarried(t) =>
          /\ is_limitted[t] /\ wait[t] # "no" /\ ~TimerQueued(t)
          /\ ~(st[t] = "reason" /\ evt[t] = "TIMER")
    /\ ~(is_timed[t] /\ is_to_set_due[t]) /\ ~(Armed(t) /\ TimerCarried(t))
    /\ \A i \in DOMAIN evts[t] : evts[t][i] = "TIMER" => i = 1
    /\ TimerQueued(t) => wait[t] # "no" /\ st[t] \in {"idle", "setdue"}
    /\ st[t] = "reason2" => ~Armed(t)

TimerInv == /\ \A t \in Tasks : TimerOk(t)
            /\ \A c \in Tasks : op[c].kind # "TIMER"

\* A step that does not concern t.
LEMMA TimerFrame ==
    ASSUME NEW t, TimerOk(t), TimerCarried(t)' <=> TimerCarried(t),
           is_timed'[t] = is_timed[t], is_to_set_due'[t] = is_to_set_due[t],
           is_limitted'[t] = is_limitted[t], evts'[t] = evts[t],
           wait'[t] = wait[t], st'[t] = st[t], evt'[t] = evt[t]
    PROVE  TimerOk(t)'
BY DEF TimerOk, Armed, TimerQueued

\* A step of t in its handler.
LEMMA OwnTimer ==
    ASSUME TimerInv, NEW t \in Tasks, op' = op, TimerOk(t)',
           \A x \in Tasks \ {t} :
              /\ is_timed'[x] = is_timed[x] /\ is_to_set_due'[x] = is_to_set_due[x]
              /\ is_limitted'[x] = is_limitted[x] /\ evts'[x] = evts[x]
              /\ wait'[x] = wait[x] /\ st'[x] = st[x] /\ evt'[x] = evt[x]
    PROVE  TimerInv'
<1>1. \A x : TimerCarried(x)' <=> TimerCarried(x)
    BY DEF TimerCarried
<1>2. ASSUME NEW x \in Tasks \ {t} PROVE TimerOk(x)'
    BY <1>1, TimerFrame DEF TimerInv
<1> QED BY <1>2 DEF TimerInv

\* A context goes on with a call that is not about a timer.
LEMMA CallTimer ==
    ASSUME TypeOK, TimerInv, NEW c \in Ctxs, NEW o, op' = [op EXCEPT ![c] = o],
           op[c].kind # "TIMER", o.kind # "TIMER",
           UNCHANGED <<is_timed, is_to_set_due, is_limitted, taskVars>>
    PROVE  TimerInv'
<1>1. \A x : TimerCarried(x)' <=> TimerCarried(x)
    BY DEF TimerCarried, TypeOK, Ctxs
<1>2. \A d \in Tasks : op'[d].kind # "TIMER"
    BY DEF TimerInv, TypeOK, Ctxs
<1> QED BY <1>1, <1>2, TimerFrame DEF TimerInv, taskVars

LEMMA GrantTimer ==
    ASSUME TypeOK, TimerInv, NEW c \in Ctxs, NEW n,
           GrantNext(c, n) \/ CancelNext(c), op[c].kind # "TIMER",
           UNCHANGED <<is_timed, is_to_set_due, is_limitted, taskVars>>
    PROVE  TimerInv'
<1>1. PICK o : op' = [op EXCEPT ![c] = o] /\ o.kind # "TIMER"
  <2>1. /\ [kind |-> "CANCEL", to |-> Head(pending)].kind # "TIMER"
        /\ [kind |-> "SYNC", to |-> Head(pending)].kind # "TIMER"
        /\ NoOp.kind # "TIMER"
    BY DEF NoOp
  <2>2. CASE GrantNext(c, n)
    BY <2>1, <2>2 DEF GrantNext
  <2>3. CASE CancelNext(c)
    BY <2>1, <2>3 DEF CancelNext
  <2> QED BY <2>2, <2>3
<1> QED BY <1>1, CallTimer

\* The kernel task posts a timer to a task that is not ready, any context posts
\* a SYNC or a CANCEL behind it.
LEMMA PostTimer ==
    ASSUME TypeOK, TimerInv, NEW c \in Ctxs, PostEvent(c)
    PROVE  TimerInv'
<1>0. PICK k \in Events, u \in Ctxs : k = op[c].kind /\ u = op[c].to
    BY DEF PostEvent, TypeOK
<1> DEFINE o == IF k = "SYNC" THEN [kind |-> "incloop", to |-> Kernel]
                ELSE IF k = "CANCEL"
                THEN [kind |-> "cancelloop", to |-> Kernel] ELSE NoOp
<1>1. /\ op' = [op EXCEPT ![c] = o] /\ o.kind # "TIMER"
      /\ UNCHANGED <<st, evt, wait, flagVars>>
      /\ evts' = IF k = "TIMER" /\ Refused(u) THEN evts
                 ELSE [evts EXCEPT ![u] = Append(@, k)]
    BY <1>0 DEF PostEvent, NoOp
<1> HIDE DEF o
<1>2. \A d \in Tasks : op'[d].kind # "TIMER"
    BY <1>1 DEF TimerInv, TypeOK, Ctxs
<1>3. \A t \in Tasks : TimerCarried(t)' => TimerCarried(t)
    BY <1>1 DEF TimerCarried, TypeOK, Ctxs
<1>4. \A t \in Tasks : t # u => evts'[t] = evts[t]
    BY <1>1 DEF TypeOK
<1>5. CASE k # "TIMER"
  <2>1. \A t \in Tasks : TimerCarried(t)' <=> TimerCarried(t)
    BY <1>0, <1>1, <1>5 DEF TimerCarried, TypeOK, Ctxs
  <2>2. ASSUME NEW t \in Tasks PROVE TimerOk(t)'
    <3>1. CASE t # u
        BY <1>1, <1>4, <2>1, <3>1, TimerFrame DEF TimerInv, flagVars
    <3>2. CASE t = u
        <4>1. evts'[t] = Append(evts[t], k) /\ evts[t] \in Seq(Events)
            BY <1>1, <1>5, <3>2 DEF TypeOK
        <4>2. ToSet(evts'[t]) = ToSet(evts[t]) \cup {k}
            BY <4>1, AppendFacts
        <4>3. TimerQueued(t)' <=> TimerQueued(t)
            BY <1>5, <4>2 DEF TimerQueued
        <4>4. TimerOk(t)
            BY DEF TimerInv
        <4>5. \A i \in DOMAIN evts'[t] : evts'[t][i] = "TIMER" => i = 1
            BY <1>5, <4>1, <4>4 DEF TimerOk
        <4> QED BY <1>1, <2>1, <4>3, <4>4, <4>5 DEF TimerOk, Armed, flagVars
    <3> QED BY <3>1, <3>2
  <2> QED BY <1>2, <2>2 DEF TimerInv
<1>6. CASE k = "TIMER"
  <2>1. c = Kernel
    BY <1>0, <1>6 DEF TimerInv, Ctxs
  <2>2. \A t \in Tasks : /\ TimerCarried(t) <=> t = u
                         /\ ~TimerCarried(t)'
    BY <1>0, <1>1, <1>6, <2>1 DEF TimerCarried, TypeOK, Ctxs
  <2>3. ASSUME NEW t \in Tasks PROVE TimerOk(t)'
    <3>0. TimerOk(t)
        BY DEF TimerInv
    <3>1. CASE t # u
        BY <1>1, <1>4, <2>2, <3>1, TimerFrame DEF TimerInv, flagVars
    <3>2. CASE t = u /\ Refused(u)
        BY <1>1, <1>6, <2>2, <3>0, <3>2
           DEF TimerOk, Armed, TimerQueued, flagVars
    <3>3. CASE t = u /\ ~Refused(u)
        <4>1. /\ is_limitted[t] /\ wait[t] # "no" /\ ~Armed(t)
            BY <2>2, <3>0, <3>3 DEF TimerOk
        <4>2. evts[t] = <<>> /\ st[t] \in {"idle", "setdue"}
            BY <3>3, <4>1 DEF Refused, Ready, TypeOK
        <4>3. evts'[t] = <<"TIMER">>
            BY <1>1, <1>6, <3>3, <4>2 DEF TypeOK
        <4>4. \A i \in DOMAIN evts'[t] : i = 1
            BY <4>3
        <4> QED BY <1>1, <2>2, <4>1, <4>2, <4>4 DEF TimerOk, Armed, flagVars
    <3> QED BY <3>1, <3>2, <3>3
  <2> QED BY <1>2, <2>3 DEF TimerInv
<1> QED BY <1>5, <1>6

\* A task that does not wait has no timer, and starts one with its wait.
LEMMA PendTimer ==
    ASSUME TypeOK, TimerInv, NEW t \in Tasks, NEW timeout \in Timeouts[t],
           Pend(t, timeout)
    PROVE  TimerInv'
<1>1. /\ st[t] = "run" /\ wait[t] = "no" /\ wait' = [wait EXCEPT ![t] = timeout]
      /\ timeout # "no" /\ UNCHANGED <<evts, st, evt, op>>
    BY UseAssumption DEF Pend, AtWork
<1>2. ~Armed(t) /\ ~TimerCarried(t) /\ ~TimerQueued(t)
    BY <1>1 DEF TimerInv, TimerOk
<1>3. /\ wait'[t] # "no" /\ ~TimerCarried(t)' /\ ~TimerQueued(t)'
    BY <1>1, <1>2 DEF TypeOK, TimerCarried, TimerQueued
<1>4. CASE timeout # "timed"
  <2>1. UNCHANGED <<is_limitted, is_to_set_due, is_timed>>
    BY <1>4 DEF Pend
  <2>2. TimerOk(t)'
    BY <1>1, <1>2, <1>3, <2>1 DEF TimerInv, TimerOk, Armed
  <2> QED BY <1>1, <2>1, <2>2, OwnTimer DEF TypeOK
<1>5. CASE timeout = "timed"
  <2>1. SetTimeout(t)
    BY <1>5 DEF Pend
  <2>2. /\ is_limitted'[t] /\ ~(is_timed'[t] /\ is_to_set_due'[t])
    BY <1>2, <2>1 DEF SetTimeout, Armed, TypeOK
  <2>3. TimerOk(t)'
    BY <1>1, <1>3, <2>2 DEF TimerInv, TimerOk, Armed
  <2>4. \A x \in Tasks \ {t} :
           /\ is_timed'[x] = is_timed[x] /\ is_to_set_due'[x] = is_to_set_due[x]
           /\ is_limitted'[x] = is_limitted[x]
    BY <2>1 DEF SetTimeout, TypeOK
  <2> QED BY <1>1, <2>3, <2>4, OwnTimer DEF TypeOK
<1> QED BY <1>4, <1>5

LEMMA TaskTimer ==
    ASSUME TypeOK, KernelHighest, TimerInv, NEW t \in Tasks,
           \/ HandlerReturn(t) \/ SetDue(t) \/ Dispatch(t) \/ ReasonPending(t)
           \/ ReasonTimeout(t) \/ ReasonCancelTimer(t) \/ ReasonGet(t)
    PROVE  TimerInv'
<1>0. TimerOk(t) /\ op' = op /\ (TimerCarried(t)' <=> TimerCarried(t))
    BY DEF TimerInv, TimerCarried, HandlerReturn, SetDue, Dispatch,
           ReasonPending, ReasonTimeout, ReasonCancelTimer, ReasonGet
<1>1. CASE HandlerReturn(t) \/ ReasonPending(t)
  <2>1. /\ UNCHANGED <<evts, evt, wait, flagVars>>
        /\ \A x \in Tasks \ {t} : st'[x] = st[x]
        /\ st'[t] \notin {"reason", "reason2"} /\ ~TimerQueued(t)
    BY <1>0, <1>1 DEF HandlerReturn, ReasonPending, TimerOk, TypeOK
  <2>2. TimerOk(t)'
    BY <1>0, <2>1 DEF TimerOk, Armed, TimerQueued, flagVars
  <2> QED BY <1>0, <2>1, <2>2, OwnTimer DEF flagVars
<1>2. CASE SetDue(t)
  <2>1. /\ UNCHANGED <<evts, evt, wait, is_limitted>> /\ st'[t] = "idle"
        /\ is_timed'[t] <=> Armed(t)
        /\ ~is_to_set_due'[t]
        /\ \A x \in Tasks \ {t} :
              /\ is_timed'[x] = is_timed[x] /\ st'[x] = st[x]
              /\ is_to_set_due'[x] = is_to_set_due[x]
    BY <1>2 DEF SetDue, Armed, TypeOK
  <2>2. TimerOk(t)'
    BY <1>0, <2>1 DEF TimerOk, Armed, TimerQueued
  <2> QED BY <1>0, <2>1, <2>2, OwnTimer
<1>3. CASE Dispatch(t)
  <2>1. /\ evts[t] # <<>> /\ evts[t] \in Seq(Events) /\ st[t] = "idle"
        /\ evts'[t] = Tail(evts[t]) /\ evt'[t] = Head(evts[t])
        /\ st'[t] = "reason" /\ UNCHANGED <<wait, flagVars>>
    BY <1>3 DEF Dispatch, TypeOK
  <2>2. \A i \in DOMAIN evts'[t] : evts'[t][i] # "TIMER"
    BY <1>0, <2>1 DEF TimerOk
  <2>3. ~TimerQueued(t)'
    BY <2>2 DEF TimerQueued, ToSet
  <2>4. evt'[t] = "TIMER" => TimerQueued(t)
    BY <2>1, TailFacts DEF TimerQueued
  <2>5. TimerOk(t)'
    BY <1>0, <2>1, <2>2, <2>3, <2>4 DEF TimerOk, Armed, flagVars
  <2> QED BY <1>0, <1>3, <2>5, OwnTimer DEF Dispatch, TypeOK, flagVars
<1>4. CASE ReasonTimeout(t)
  <2>1. ~Armed(t) /\ ~TimerCarried(t) /\ ~TimerQueued(t)
    BY <1>0, <1>4 DEF ReasonTimeout, TimerOk
  <2>2. UNCHANGED <<evts, evt, is_timed, is_to_set_due>> /\ st'[t] = "run"
    BY <1>4 DEF ReasonTimeout, TypeOK
  <2>3. TimerOk(t)'
    BY <1>0, <2>1, <2>2 DEF TimerOk, Armed, TimerQueued
  <2> QED BY <1>0, <1>4, <2>3, OwnTimer DEF ReasonTimeout, TypeOK
<1>5. CASE ReasonCancelTimer(t)
  <2>1. /\ UNCHANGED <<evts, evt, wait, is_limitted>> /\ st'[t] = "reason2"
        /\ st[t] = "reason" /\ ~is_timed'[t] /\ ~is_to_set_due'[t]
    BY <1>5 DEF ReasonCancelTimer, TypeOK
  <2>2. TimerOk(t)'
    BY <1>0, <2>1 DEF TimerOk, Armed, TimerQueued
  <2> QED BY <1>0, <1>5, <2>2, OwnTimer DEF ReasonCancelTimer, TypeOK
<1>6. CASE ReasonGet(t)
  <2>1. ~Armed(t) /\ ~TimerQueued(t)
    BY <1>0, <1>6 DEF ReasonGet, TimerOk
  <2>2. ~TimerCarried(t)
    BY <1>6 DEF ReasonGet, TasksMayRun, TimerCarried
  <2>3. UNCHANGED <<evts, evt, is_timed, is_to_set_due>> /\ st'[t] = "run"
    BY <1>6 DEF ReasonGet, TypeOK
  <2>4. TimerOk(t)'
    BY <1>0, <2>1, <2>2, <2>3 DEF TimerOk, Armed, TimerQueued
  <2> QED BY <1>0, <1>6, <2>4, OwnTimer DEF ReasonGet, TypeOK
<1> QED BY <1>1, <1>2, <1>3, <1>4, <1>5, <1>6

LEMMA TimerStep ==
    ASSUME KernelHighest
    PROVE  TypeOK /\ TimerInv /\ [Next]_<<vars, mode>> => TimerInv'
<1> SUFFICES ASSUME TypeOK, TimerInv, [Next]_<<vars, mode>> PROVE TimerInv'
    OBVIOUS
<1>0. NoOp.kind # "TIMER" /\ Kernel \in Ctxs /\ Tasks \subseteq Ctxs
    BY DEF NoOp, Ctxs
<1>f. ASSUME UNCHANGED <<taskVars, is_limitted, is_to_set_due, is_timed, op>>
      PROVE  TimerInv'
  <2>1. \A t : TimerCarried(t)' <=> TimerCarried(t)
    BY <1>f DEF TimerCarried
  <2> QED BY <1>f, <2>1, TimerFrame DEF TimerInv, taskVars
<1>1. ASSUME NEW t \in Tasks, Use(t) PROVE TimerInv'
  <2>1. CASE Obtain(t) \/ Reset(t)
    BY <1>f, <2>1 DEF Obtain, Reset, flagVars
  <2>2. CASE Cancel(t)
    BY <1>0, <2>2, GrantTimer DEF Cancel, AtWork
  <2> QED BY <1>1, <2>1, <2>2, PendTimer DEF Use
<1>2. ASSUME NEW t \in Tasks, Release(t) PROVE TimerInv'
  <2>1. CASE Increase(t)
    BY <1>0, <2>1, GrantTimer DEF Increase, AtWork
  <2>2. CASE IncreaseOverrun(t)
    BY <1>f, <2>2 DEF IncreaseOverrun, flagVars
  <2> QED BY <1>2, <2>1, <2>2 DEF Release
<1>3. ASSUME NEW t \in Tasks, Step(t) PROVE TimerInv'
  <2>1. CASE IncreaseLoop(t)
    BY <1>0, <2>1, GrantTimer DEF IncreaseLoop
  <2>2. CASE CancelLoop(t)
    BY <1>0, <2>2, GrantTimer DEF CancelLoop
  <2> QED BY <1>0, <1>3, <2>1, <2>2, PostTimer, TaskTimer DEF Step
<1>4. CASE KernelStep
  <2>1. CASE KernelIncrease
    <3>1. CASE cur < MaxCount
        BY <1>0, <2>1, <3>1, GrantTimer DEF KernelIncrease
    <3>2. CASE ~(cur < MaxCount)
        BY <1>f, <2>1, <3>2 DEF KernelIncrease
    <3> QED BY <3>1, <3>2
  <2>2. CASE IncreaseLoop(Kernel)
    BY <1>0, <2>2, GrantTimer DEF IncreaseLoop
  <2>3. ASSUME NEW t \in Tasks, KernelTimer(t) PROVE TimerInv'
    <3>1. /\ op[Kernel] = NoOp /\ is_timed[t] /\ ~is_timed'[t]
          /\ \A x \in Tasks \ {t} : is_timed'[x] = is_timed[x]
          /\ UNCHANGED <<taskVars, is_limitted, is_to_set_due>>
          /\ op'[Kernel] = [kind |-> "TIMER", to |-> t]
          /\ \A c \in Tasks : op'[c] = op[c]
        BY <2>3, TaskAssumption DEF KernelTimer, TypeOK, Ctxs
    <3>2. \A x : ~TimerCarried(x) /\ (TimerCarried(x)' <=> x = t)
        BY <1>0, <3>1 DEF TimerCarried
    <3>3. TimerOk(t)'
        BY <3>1, <3>2 DEF TimerInv, TimerOk, Armed, TimerQueued, taskVars
    <3>4. ASSUME NEW x \in Tasks \ {t} PROVE TimerOk(x)'
        BY <3>1, <3>2, <3>4, TimerFrame DEF TimerInv, taskVars
    <3> QED BY <3>1, <3>3, <3>4 DEF TimerInv
  <2> QED BY <1>0, <1>4, <2>1, <2>2, <2>3, PostTimer DEF KernelStep
<1>5. CASE Isr \/ UNCHANGED <<vars, mode>>
    BY <1>5, <1>f DEF Isr, vars, taskVars, flagVars
<1> QED BY <1>1, <1>2, <1>3, <1>4, <1>5 DEF Next

\* With a kernel task of the highest priority, the default, and for every number
\* of tasks: whatever timers, grants and cancels cross, the end of a wait leaves
\* no event of it in the queue of the task.
THEOREM NothingIsLeft ==
    ASSUME KernelHighest
    PROVE  Spec => []NoStaleWakeup
<1>1. Init => TimerInv
  <2> SUFFICES ASSUME Init PROVE TimerInv
    OBVIOUS
  <2>1. ASSUME NEW t \in Tasks PROVE TimerOk(t)
    <3>1. /\ evts[t] = <<>> /\ st[t] = "run" /\ ~is_timed[t] /\ ~is_to_set_due[t]
        BY DEF Init
    <3>2. ~TimerCarried(t)
        BY DEF Init, TimerCarried, NoOp, Ctxs
    <3> QED BY <3>1, <3>2 DEF TimerOk, Armed, TimerQueued, ToSet
  <2> QED BY <2>1 DEF Init, TimerInv, NoOp, Ctxs
<1>2. TypeOK /\ WakeInv /\ TimerInv => NoStaleWakeup
  <2> SUFFICES ASSUME TypeOK, WakeInv, TimerInv, NEW t \in Tasks, wait[t] = "no"
               PROVE  evts[t] = <<>>
    BY DEF NoStaleWakeup
  <2>1. Delivered(t) = {}
    BY DEF WakeInv, WakeOk, NoWakeup
  <2>2. ~TimerQueued(t)
    BY DEF TimerInv, TimerOk
  <2>3. DOMAIN evts[t] = {}
    BY <2>1, <2>2 DEF Delivered, TimerQueued, ToSet
  <2>4. evts[t] \in Seq(Events)
    BY DEF TypeOK
  <2>5. evts[t] # <<>> => 1 \in DOMAIN evts[t]
    BY <2>4
  <2> QED BY <2>3, <2>5
<1> QED BY <1>1, <1>2, WakeInvariant, TimerStep, PTL DEF Spec
=============================================================================
