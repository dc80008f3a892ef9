------------------------- MODULE QueueAndPipeProofs --------------------------
(***************************************************************************)
(* Proofs about vsf_eda_queue_t, for every capacity, every number of       *)
(* messages that the kernel task's queue holds and every assignment of     *)
(* priorities; and proofs about the pipe of the linux shell, for every     *)
(* capacity, all sizes of the calls, every number of failing allocations   *)
(* and every setting of the priorities of its two threads.                 *)
(***************************************************************************)
EXTENDS VsfQueue, LinuxPipe, ListLemmas, TLAPS

Evts == {"SYNC", "TIMER", "CANCEL"}
OpType == [kind : Kinds, to : Tasks \cup {Nobody}]

\* The contexts, and what SetOp and EndOp store.
LEMMA CtxFacts ==
    /\ {Sender, Receiver, Thief, Canceller} = Tasks /\ Tasks \subseteq Ctxs
    /\ Kernel \in Ctxs /\ Receiver \in Tasks /\ Sender \in Tasks
    /\ Canceller \in Tasks
    /\ NoOp.kind = "none" /\ NoOp.to = Nobody /\ NoOp \in OpType
    /\ \A k, t : Op(k, t).kind = k /\ Op(k, t).to = t
    /\ \A k \in Kinds, t \in Tasks \cup {Nobody} : Op(k, t) \in OpType
BY DEF Tasks, Ctxs, NoOp, Op, OpType, Kinds

LEMMA OpNext ==
    ASSUME TypeOK, NEW c \in Ctxs, NEW o \in OpType, op' = [op EXCEPT ![c] = o]
    PROVE  op' \in [Ctxs -> OpType]
BY DEF TypeOK, OpType

LEMMA SetOpType ==
    ASSUME TypeOK, NEW c \in Ctxs, NEW k \in Kinds,
           NEW t \in Tasks \cup {Nobody}, SetOp(c, k, t) \/ EndOp(c)
    PROVE  op' \in [Ctxs -> OpType]
BY CtxFacts, OpNext DEF SetOp, EndOp

\* The counters that a call changes keep their sum and their ranges.
LEMMA CountersSound ==
    ASSUME TypeOK, ReadableIsAccounted
    PROVE  /\ cur \in 0 .. Capacity /\ readable \in 0 .. Capacity
           /\ msgs.send \in 0 .. MaxMsgs /\ msgs.recv \in 0 .. MaxMsgs
           /\ stuck \in 0 .. Capacity /\ readable + msgs.send + stuck = cur
           /\ Capacity \in Nat /\ MaxMsgs \in Nat
BY BoundAssumption DEF TypeOK, ReadableIsAccounted

\* A flag or an event queue of one task changes.
LEMMA FlagFacts ==
    ASSUME NEW f \in [Tasks -> BOOLEAN], NEW t, NEW b \in BOOLEAN
    PROVE  [f EXCEPT ![t] = b] \in [Tasks -> BOOLEAN]
OBVIOUS

LEMMA AppendEvt ==
    ASSUME NEW q \in [Tasks -> Seq(Evts)], NEW t, NEW e \in Evts
    PROVE  [q EXCEPT ![t] = Append(@, e)] \in [Tasks -> Seq(Evts)]
<1>1. CASE t \in Tasks
  <2>1. Append(q[t], e) \in Seq(Evts)
    BY <1>1, AppendFacts
  <2> QED BY <1>1, <2>1
<1>2. CASE t \notin Tasks
    BY <1>2
<1> QED BY <1>1, <1>2

LEMMA TakeEvt ==
    ASSUME NEW q \in [Tasks -> Seq(Evts)], NEW t \in Tasks, q[t] # <<>>
    PROVE  [q EXCEPT ![t] = Tail(@)] \in [Tasks -> Seq(Evts)]
<1>1. Tail(q[t]) \in Seq(Evts)
    BY TailFacts
<1> QED BY <1>1

-----------------------------------------------------------------------------
(* The counters of the queue and the types *)

LEMMA SoundUse ==
    ASSUME QueueIsSound, Use PROVE QueueIsSound'
<1> USE DEF QueueIsSound
<1>0. TypeOK /\ ReadableIsAccounted
    OBVIOUS
<1>1. UNCHANGED <<stuck, prio, msgs, eda_rx, wait, st, evts, is_limitted, is_timed>>
    BY DEF Use, SendEnqueue, SendFull, RecvEmpty, CancelTx, RecvDequeue,
           taskVars, histVars
<1>2. op' \in [Ctxs -> OpType]
    BY <1>0, SetOpType, CtxFacts
       DEF Use, SendEnqueue, SendFull, RecvEmpty, CancelTx, RecvDequeue, Kinds,
           PendKind
<1>3. tx' \in {"none", "linked", "stale", "loop"}
    BY <1>0 DEF Use, SendEnqueue, SendFull, RecvEmpty, CancelTx, RecvDequeue,
           TypeOK
<1>4. is_sync_got' \in [Tasks -> BOOLEAN]
    BY <1>0, FlagFacts
       DEF Use, SendEnqueue, SendFull, RecvEmpty, CancelTx, RecvDequeue,
           TypeOK, taskVars
<1>5. /\ cur' \in 0 .. Capacity /\ readable' \in 0 .. Capacity
      /\ readable' + msgs.send + stuck = cur'
    BY <1>0, CountersSound
       DEF Use, SendEnqueue, SendFull, RecvEmpty, CancelTx, RecvDequeue,
           queueVars
<1>6. /\ missed' \in BOOLEAN /\ starved' \in BOOLEAN
      /\ late' \in BOOLEAN /\ crossed' \in BOOLEAN
    BY <1>0 DEF Use, SendEnqueue, SendFull, RecvEmpty, CancelTx, RecvDequeue,
           histVars, raceVars, TypeOK
<1> QED BY <1>0, <1>1, <1>2, <1>3, <1>4, <1>5, <1>6
        DEF TypeOK, ReadableIsAccounted, OpType

LEMMA SoundIsr ==
    ASSUME QueueIsSound, Isr PROVE QueueIsSound'
<1> USE DEF QueueIsSound
<1>0. TypeOK /\ ReadableIsAccounted
    OBVIOUS
<1>1. UNCHANGED <<missed, starved, late, crossed, prio, tx, eda_rx, taskVars, op>>
    BY DEF Isr, IsrSend, IsrRecv, histVars, raceVars
<1>2. msgs \in [send : 0 .. MaxMsgs, recv : 0 .. MaxMsgs]
    BY <1>0 DEF TypeOK
<1>3. CASE IsrSend
  <2>1. CASE msgs.send < MaxMsgs
    <3>1. /\ msgs' = [msgs EXCEPT !.send = @ + 1] /\ stuck' = stuck
          /\ cur' = cur + 1 /\ readable' = readable /\ cur < Capacity
        BY <1>3, <2>1 DEF IsrSend
    <3>2. /\ msgs' \in [send : 0 .. MaxMsgs, recv : 0 .. MaxMsgs]
          /\ msgs'.send = msgs.send + 1
        BY <1>0, <1>2, <2>1, <3>1, CountersSound
    <3>3. /\ cur' \in 0 .. Capacity /\ readable' \in 0 .. Capacity
          /\ stuck' \in 0 .. Capacity /\ readable' + msgs'.send + stuck' = cur'
        BY <1>0, <3>1, <3>2, CountersSound
    <3> QED BY <1>0, <1>1, <3>2, <3>3 DEF TypeOK, ReadableIsAccounted, taskVars
  <2>2. CASE ~(msgs.send < MaxMsgs)
    <3>1. /\ msgs' = msgs /\ stuck' = stuck + 1
          /\ cur' = cur + 1 /\ readable' = readable /\ cur < Capacity
        BY <1>3, <2>2 DEF IsrSend
    <3>2. /\ cur' \in 0 .. Capacity /\ readable' \in 0 .. Capacity
          /\ stuck' \in 0 .. Capacity /\ readable' + msgs'.send + stuck' = cur'
        BY <1>0, <3>1, CountersSound
    <3> QED BY <1>0, <1>1, <3>1, <3>2 DEF TypeOK, ReadableIsAccounted, taskVars
  <2> QED BY <2>1, <2>2
<1>4. CASE IsrRecv
  <2>1. /\ cur' = cur - 1 /\ readable' = readable - 1 /\ readable > 0
        /\ stuck' = stuck
        /\ msgs' = [msgs EXCEPT !.recv = IF @ < MaxMsgs THEN @ + 1 ELSE @]
    BY <1>4 DEF IsrRecv, histVars
  <2>2. /\ msgs' \in [send : 0 .. MaxMsgs, recv : 0 .. MaxMsgs]
        /\ msgs'.send = msgs.send
    BY <1>0, <1>2, <2>1, CountersSound
  <2>3. /\ cur' \in 0 .. Capacity /\ readable' \in 0 .. Capacity
        /\ stuck' \in 0 .. Capacity /\ readable' + msgs'.send + stuck' = cur'
    BY <1>0, <2>1, <2>2, CountersSound
  <2> QED BY <1>0, <1>1, <2>2, <2>3 DEF TypeOK, ReadableIsAccounted, taskVars
<1> QED BY <1>3, <1>4 DEF Isr

LEMMA SoundStep ==
    ASSUME QueueIsSound, NEW c \in Ctxs, Step(c) PROVE QueueIsSound'
<1> USE DEF QueueIsSound
<1>0. TypeOK /\ ReadableIsAccounted
    OBVIOUS
<1>1. UNCHANGED <<cur, readable, stuck, starved, crossed, prio, msgs, wait, st,
                  is_limitted, is_timed>>
    BY DEF Step, NotifyRx, NotifyTx, PostEvent, NotifyFinds, queueVars, taskVars,
           histVars, raceVars
<1>2. op' \in [Ctxs -> OpType]
    BY <1>0, SetOpType, CtxFacts, SMTT(30)
       DEF Step, NotifyRx, NotifyTx, PostEvent, Kinds, TypeOK
<1>3. tx' \in {"none", "linked", "stale", "loop"} /\ eda_rx' \in {Nobody, Receiver}
    BY <1>0 DEF Step, NotifyRx, NotifyTx, PostEvent, TypeOK
<1>4. is_sync_got' \in [Tasks -> BOOLEAN]
    BY <1>0, FlagFacts DEF Step, NotifyRx, NotifyTx, PostEvent, TypeOK, taskVars
<1>5. evts' \in [Tasks -> Seq(Evts)]
  <2>1. CASE PostEvent(c)
    <3>1. PICK t \in Tasks \cup {Nobody}, e \in Evts :
             \/ evts' = evts
             \/ evts' = [evts EXCEPT ![t] = Append(@, e)]
        BY <1>0, <2>1 DEF PostEvent, Evts, TypeOK
    <3>2. evts \in [Tasks -> Seq(Evts)]
        BY <1>0 DEF TypeOK, Evts
    <3>3. [evts EXCEPT ![t] = Append(@, e)] \in [Tasks -> Seq(Evts)]
        BY <3>2, AppendEvt
    <3> QED BY <3>1, <3>2, <3>3
  <2>2. CASE ~PostEvent(c)
    BY <1>0, <2>2 DEF Step, NotifyRx, NotifyTx, taskVars, TypeOK, Evts
  <2> QED BY <2>1, <2>2
<1>6. missed' \in BOOLEAN /\ late' \in BOOLEAN
    BY <1>0 DEF Step, NotifyRx, NotifyTx, PostEvent, NotifyFinds, histVars,
           raceVars, TypeOK
<1> QED BY <1>0, <1>1, <1>2, <1>3, <1>4, <1>5, <1>6
        DEF TypeOK, ReadableIsAccounted, OpType, Evts

\* The steps of a waiting task: HandlerReturn and the ends of a wait.
LEMMA SoundTask ==
    ASSUME QueueIsSound, NEW t \in Tasks, TaskStep(t), ~Step(t)
    PROVE  QueueIsSound'
<1> USE DEF QueueIsSound
<1>0. TypeOK /\ ReadableIsAccounted
    OBVIOUS
<1>1. UNCHANGED <<stuck, prio, msgs>> /\ eda_rx' \in {Nobody, Receiver}
    BY <1>0 DEF TaskStep, HandlerReturn, ReasonPending, ReasonCancel, SendPend,
           SendTimeout, RecvPend, RecvTimeout, RecvTimeoutClear, RecvWoken,
           RecvAgain, RecvStarved, CancelRxRead, CancelRxClear, histVars, TypeOK
<1>2. op' \in [Ctxs -> OpType]
  <2>1. \A c \in Ctxs : op[c].to \in Tasks \cup {Nobody}
    BY <1>0 DEF TypeOK
  <2>2. op \in [Ctxs -> OpType]
    BY <1>0 DEF TypeOK, OpType
  <2>3. {Sender, Receiver, Canceller} \subseteq Ctxs
        /\ {"clear_rx", "dequeue", "notify_tx", "cancel_clear", "CANCEL"} \subseteq Kinds
        /\ {Nobody, Receiver} \subseteq Tasks \cup {Nobody}
    BY <1>0, CtxFacts DEF Kinds
  <2>4. CASE \E c \in {Sender, Receiver, Canceller} : EndOp(c)
    BY <1>0, <2>3, <2>4, SetOpType DEF Kinds
  <2>5. CASE \E c \in {Sender, Receiver, Canceller},
                k \in {"clear_rx", "dequeue", "notify_tx", "cancel_clear", "CANCEL"},
                x \in Tasks \cup {Nobody} : SetOp(c, k, x)
    BY <1>0, <2>3, <2>5, SetOpType
  <2>6. CASE op' = op
    BY <2>2, <2>6
  <2> QED BY <1>0, <2>1, <2>3, <2>4, <2>5, <2>6
       DEF TaskStep, HandlerReturn, ReasonPending, ReasonCancel, SendPend,
           SendTimeout, RecvPend, RecvTimeout, RecvTimeoutClear, RecvWoken,
           RecvAgain, RecvStarved, CancelRxRead, CancelRxClear, Wait, TypeOK
<1>3. tx' \in {"none", "linked", "stale", "loop"}
    BY <1>0 DEF TaskStep, HandlerReturn, ReasonPending, ReasonCancel, SendPend,
           SendTimeout, RecvPend, RecvTimeout, RecvTimeoutClear, RecvWoken,
           RecvAgain, RecvStarved, CancelRxRead, CancelRxClear, TypeOK
<1>4. /\ is_sync_got' \in [Tasks -> BOOLEAN]
      /\ is_timed' \in [Tasks -> BOOLEAN] /\ is_limitted' \in [Tasks -> BOOLEAN]
  <2>1. /\ is_sync_got \in [Tasks -> BOOLEAN] /\ is_timed \in [Tasks -> BOOLEAN]
        /\ is_limitted \in [Tasks -> BOOLEAN]
    BY <1>0 DEF TypeOK
  <2>2. \/ is_sync_got' = is_sync_got
        \/ \E x \in Tasks, y \in BOOLEAN : is_sync_got' = [is_sync_got EXCEPT ![x] = y]
    BY <2>1, CtxFacts
       DEF TaskStep, HandlerReturn, ReasonPending, ReasonCancel, SendPend,
           SendTimeout, RecvPend, RecvTimeout, RecvTimeoutClear, RecvWoken,
           RecvAgain, RecvStarved, CancelRxRead, CancelRxClear, Wait, Woken,
           Take, taskVars
  <2>3. \/ is_timed' = is_timed
        \/ \E x \in Tasks, y \in BOOLEAN : is_timed' = [is_timed EXCEPT ![x] = y]
    BY <2>1, CtxFacts
       DEF TaskStep, HandlerReturn, ReasonPending, ReasonCancel, SendPend,
           SendTimeout, RecvPend, RecvTimeout, RecvTimeoutClear, RecvWoken,
           RecvAgain, RecvStarved, CancelRxRead, CancelRxClear, Wait, Woken,
           Take, taskVars
  <2>4. \/ is_limitted' = is_limitted
        \/ \E x \in Tasks, y \in BOOLEAN : is_limitted' = [is_limitted EXCEPT ![x] = y]
    BY <2>1, CtxFacts
       DEF TaskStep, HandlerReturn, ReasonPending, ReasonCancel, SendPend,
           SendTimeout, RecvPend, RecvTimeout, RecvTimeoutClear, RecvWoken,
           RecvAgain, RecvStarved, CancelRxRead, CancelRxClear, Wait, Woken,
           Take, taskVars
  <2> QED BY <2>1, <2>2, <2>3, <2>4, FlagFacts
<1>5. /\ wait' \in [Tasks -> {"no", "send", "recv"}]
      /\ st' \in [Tasks -> {"run", "idle"}]
  <2>1. \/ wait' = wait
        \/ \E x \in Tasks, y \in {"no", "send", "recv"} :
              wait' = [wait EXCEPT ![x] = y]
    BY CtxFacts
       DEF TaskStep, HandlerReturn, ReasonPending, ReasonCancel, SendPend,
           SendTimeout, RecvPend, RecvTimeout, RecvTimeoutClear, RecvWoken,
           RecvAgain, RecvStarved, CancelRxRead, CancelRxClear, Wait, Woken,
           Take, taskVars
  <2>2. \/ st' = st \/ st' = [st EXCEPT ![t] = "run"]
        \/ st' = [st EXCEPT ![t] = "idle"]
    BY DEF TaskStep, HandlerReturn, ReasonPending, ReasonCancel, SendPend,
           SendTimeout, RecvPend, RecvTimeout, RecvTimeoutClear, RecvWoken,
           RecvAgain, RecvStarved, CancelRxRead, CancelRxClear, Wait, Woken,
           Take, taskVars
  <2> QED BY <1>0, <2>1, <2>2 DEF TypeOK
<1>6. evts' \in [Tasks -> Seq(Evts)]
  <2>1. evts \in [Tasks -> Seq(Evts)]
    BY <1>0 DEF TypeOK, Evts
  <2>2. CASE \E x \in Tasks, e \in Evts : Take(x, e)
    BY <2>1, <2>2, TakeEvt DEF Take
  <2>3. CASE evts' = evts
    BY <2>1, <2>3
  <2> QED BY <2>2, <2>3, CtxFacts
       DEF TaskStep, HandlerReturn, ReasonPending, ReasonCancel, SendPend,
           SendTimeout, RecvPend, RecvTimeout, RecvTimeoutClear, RecvWoken,
           RecvAgain, RecvStarved, CancelRxRead, CancelRxClear, Wait, Woken,
           taskVars, Evts
<1>7. /\ missed' \in BOOLEAN /\ starved' \in BOOLEAN
      /\ late' \in BOOLEAN /\ crossed' \in BOOLEAN
    BY <1>0
       DEF TaskStep, HandlerReturn, ReasonPending, ReasonCancel, SendPend,
           SendTimeout, RecvPend, RecvTimeout, RecvTimeoutClear, RecvWoken,
           RecvAgain, RecvStarved, CancelRxRead, CancelRxClear, histVars,
           raceVars, TypeOK
<1>8. /\ cur' \in 0 .. Capacity /\ readable' \in 0 .. Capacity
      /\ readable' + msgs.send + stuck = cur'
  <2>1. \/ cur' = cur /\ readable' = readable
        \/ cur' = cur - 1 /\ readable' = readable - 1 /\ readable > 0
    BY DEF TaskStep, HandlerReturn, ReasonPending, ReasonCancel, SendPend,
           SendTimeout, RecvPend, RecvTimeout, RecvTimeoutClear, RecvWoken,
           RecvAgain, RecvStarved, CancelRxRead, CancelRxClear, queueVars
  <2> QED BY <1>0, <2>1, CountersSound
<1> QED BY <1>0, <1>1, <1>2, <1>3, <1>4, <1>5, <1>6, <1>7, <1>8
        DEF TypeOK, ReadableIsAccounted, OpType, Evts

LEMMA SoundKernel ==
    ASSUME QueueIsSound,
           KernelSendNotify \/ KernelRecvNotify \/ \E t \in Tasks : KernelTimer(t)
    PROVE  QueueIsSound'
<1> USE DEF QueueIsSound
<1>0. TypeOK /\ ReadableIsAccounted
    OBVIOUS
<1>1. UNCHANGED <<cur, tx, eda_rx, wait, st, evts, is_limitted, is_sync_got,
                  histVars>>
    BY DEF KernelSendNotify, KernelRecvNotify, KernelTimer, taskVars, queueVars
<1>2. op' \in [Ctxs -> OpType]
    BY <1>0, SetOpType, CtxFacts
       DEF KernelSendNotify, KernelRecvNotify, KernelTimer, Kinds
<1>3. is_timed' \in [Tasks -> BOOLEAN]
    BY <1>0, FlagFacts
       DEF KernelSendNotify, KernelRecvNotify, KernelTimer, TypeOK, taskVars
<1>4. /\ msgs' \in [send : 0 .. MaxMsgs, recv : 0 .. MaxMsgs]
      /\ readable' + msgs'.send = readable + msgs.send /\ readable' >= readable
      /\ readable' \in Int
  <2>1. msgs \in [send : 0 .. MaxMsgs, recv : 0 .. MaxMsgs]
    BY <1>0 DEF TypeOK
  <2>2. CASE KernelSendNotify
    BY <1>0, <2>1, <2>2, CountersSound DEF KernelSendNotify
  <2>3. CASE KernelRecvNotify
    BY <1>0, <2>1, <2>3, CountersSound DEF KernelRecvNotify, queueVars
  <2>4. CASE \E t \in Tasks : KernelTimer(t)
    BY <1>0, <2>1, <2>4, CountersSound DEF KernelTimer, queueVars
  <2> QED BY <2>2, <2>3, <2>4
<1>5. msgs'.send \in Nat
    BY <1>4, CountersSound, <1>0
<1>6. readable' \in 0 .. Capacity /\ readable' + msgs'.send + stuck = cur
    BY <1>0, <1>4, <1>5, CountersSound
<1> QED BY <1>0, <1>1, <1>2, <1>3, <1>4, <1>6
        DEF TypeOK, ReadableIsAccounted, OpType, histVars, raceVars

LEMMA SoundNext == QueueIsSound /\ [Next]_vars => QueueIsSound'
<1> SUFFICES ASSUME QueueIsSound, [Next]_vars PROVE QueueIsSound'
    OBVIOUS
<1>1. ASSUME NEW t \in Tasks, TaskStep(t) PROVE QueueIsSound'
    BY <1>1, SoundStep, SoundTask, CtxFacts
<1>2. CASE KernelStep
    BY <1>2, SoundStep, SoundKernel, CtxFacts DEF KernelStep
<1>3. ASSUME NEW t \in Tasks, KernelTimer(t) PROVE QueueIsSound'
    BY <1>3, SoundKernel
<1>4. CASE UNCHANGED vars
    BY <1>4 DEF vars, QueueIsSound, TypeOK, ReadableIsAccounted
<1> QED BY <1>1, <1>2, <1>3, <1>4, SoundUse, SoundIsr DEF Next

LEMMA SoundInit == Init => QueueIsSound
<1> SUFFICES ASSUME Init PROVE QueueIsSound
    OBVIOUS
<1>1. op \in [Ctxs -> OpType]
    BY CtxFacts DEF Init
<1>2. prio \in [Ctxs -> Nat]
    BY UseAssumption DEF Init
<1>3. /\ is_limitted \in [Tasks -> BOOLEAN] /\ is_sync_got \in [Tasks -> BOOLEAN]
      /\ is_timed \in [Tasks -> BOOLEAN]
      /\ missed \in BOOLEAN /\ starved \in BOOLEAN
      /\ late \in BOOLEAN /\ crossed \in BOOLEAN
    BY Zenon DEF Init
<1>4. /\ msgs \in [send : 0 .. MaxMsgs, recv : 0 .. MaxMsgs] /\ msgs.send = 0
      /\ 0 \in 0 .. Capacity
    BY BoundAssumption DEF Init
<1>5. evts \in [Tasks -> Seq(Evts)]
    BY DEF Init
<1> QED BY <1>1, <1>2, <1>3, <1>4, <1>5
        DEF Init, QueueIsSound, TypeOK, ReadableIsAccounted, OpType, Evts

\* For every capacity, whatever tasks, interrupts and the kernel task do in
\* whatever order: readable_cnt, the messages that are under way to the kernel
\* task and those that failed add up to the nodes in the queue, and no counter
\* leaves its range.
THEOREM QueueCorrect == Spec => []QueueIsSound
BY SoundInit, SoundNext, PTL DEF Spec

-----------------------------------------------------------------------------
(* The receiver *)

Carries(c, k) == op[c].kind = k /\ op[c].to = Receiver
Queued(e) == e \in ToSet(evts[Receiver])

\* A task whose handler has returned is not in a call.
IdleIsQuiet == \A t \in Tasks : st[t] = "idle" => op[t] = NoOp

\* There is nothing to read, or it is being told.
Unread == readable = 0 \/ Telling \/ missed

\* What makes ReceiverIsWoken inductive: the receiver that is about to register
\* is in the place of the one that is registered.
ReadInv == eda_rx # Nobody \/ op[Receiver].kind \in Pends => Unread

\* A cancel is the canceller's and the receiver's, or the sender's.
CarryInv ==
    \A c \in Ctxs :
        /\ op[c].kind = "CANCEL_tx" => c = Canceller /\ op[c].to = Sender
        /\ op[c].kind \in {"CANCEL", "cancel_clear"} =>
              c = Canceller /\ op[c].to = Receiver

WaitShape == /\ st[Receiver] = "idle" => wait[Receiver] = "recv"
             /\ wait[Receiver] # "send"

\* The receiver of a cancelled wait has not seen the CANCEL.
Cancelled ==
    /\ wait[Receiver] = "recv" /\ ~is_sync_got[Receiver]
    /\ eda_rx = Nobody /\ op[Receiver].kind = "none"

\* What makes WaitEndsOnce inductive: at most one SYNC or one CANCEL is on its
\* way to the receiver, which is registered only while it waits, and only until
\* it is notified or cancelled.
OneSync ==
    /\ \A c, d \in Ctxs : Carries(c, "SYNC") /\ Carries(d, "SYNC") => c = d
    /\ \A c \in Ctxs : Carries(c, "SYNC") => is_sync_got[Receiver] /\ ~Queued("SYNC")
    /\ Once(evts[Receiver], "SYNC")
    /\ Queued("SYNC") => is_sync_got[Receiver]
Synced ==
    is_sync_got[Receiver] =>
        /\ wait[Receiver] = "recv" /\ eda_rx = Nobody /\ op[Receiver].kind = "none"
        /\ Queued("SYNC") \/ \E c \in Ctxs : Carries(c, "SYNC")
OneCancel ==
    /\ \A c \in Ctxs : Carries(c, "CANCEL") => ~Queued("CANCEL") /\ Cancelled
    /\ Once(evts[Receiver], "CANCEL")
    /\ Queued("CANCEL") => Cancelled
Registered ==
    /\ eda_rx = Receiver =>
          wait[Receiver] = "recv" /\ op[Receiver].kind \in {"none", "clear_rx"}
    /\ op[Receiver].kind \in Pends => wait[Receiver] = "no"
    /\ op[Receiver].kind \in {"clear_rx", "dequeue"} => wait[Receiver] = "recv"
    /\ op[Receiver].kind = "dequeue" => eda_rx = Nobody

RecvInv ==
    /\ IdleIsQuiet /\ ReadInv /\ ReceiverIsReachable /\ CarryInv /\ WaitShape
    /\ ~late /\ ~crossed => OneSync /\ Synced /\ OneCancel /\ Registered

\* What a call that goes on, or ends, changes.
LEMMA SetFacts ==
    ASSUME TypeOK, NEW c \in Ctxs
    PROVE  /\ \A k, t : SetOp(c, k, t) => op'[c].kind = k /\ op'[c].to = t
           /\ EndOp(c) => op'[c].kind = "none" /\ op'[c] = NoOp
           /\ \A k, t : SetOp(c, k, t) \/ EndOp(c) =>
                 \A d \in Ctxs : d # c => op'[d] = op[d]
BY CtxFacts DEF TypeOK, SetOp, EndOp

LEMMA WayFacts ==
    ASSUME TypeOK
    PROVE  /\ OnTheWay(Receiver, {"SYNC"}) <=>
                 Queued("SYNC") \/ \E c \in Ctxs : Carries(c, "SYNC")
           /\ OnTheWay(Receiver, {"CANCEL"}) <=>
                 Queued("CANCEL") \/ \E c \in Ctxs : Carries(c, "CANCEL")
           /\ OnTheWay(Receiver, {"SYNC", "CANCEL"}) <=>
                 \/ Queued("SYNC") \/ \E c \in Ctxs : Carries(c, "SYNC")
                 \/ Queued("CANCEL") \/ \E c \in Ctxs : Carries(c, "CANCEL")
BY DEF OnTheWay, Queued, Carries

\* What taking an event does.
LEMMA TakeFacts ==
    ASSUME TypeOK, NEW t \in Tasks, NEW e, Take(t, e)
    PROVE  /\ st[t] = "idle" /\ st'[t] = "run"
           /\ \A x \in Tasks \ {t} : st'[x] = st[x]
           /\ t # Receiver => evts'[Receiver] = evts[Receiver]
           /\ t = Receiver => /\ evts[Receiver] # <<>> /\ Head(evts[Receiver]) = e
                              /\ evts'[Receiver] = Tail(evts[Receiver])
                              /\ ToSet(evts[Receiver]) = ToSet(evts'[Receiver]) \cup {e}
<1>1. evts \in [Tasks -> Seq(Evts)] /\ Receiver \in Tasks /\ st \in [Tasks -> {"run", "idle"}]
    BY CtxFacts DEF TypeOK, Evts
<1>2. t # Receiver => evts'[Receiver] = evts[Receiver]
    BY <1>1 DEF Take
<1>3. ASSUME t = Receiver
      PROVE  /\ evts[Receiver] # <<>> /\ Head(evts[Receiver]) = e
             /\ evts'[Receiver] = Tail(evts[Receiver])
    BY <1>1, <1>3 DEF Take
<1>4. ASSUME t = Receiver
      PROVE  ToSet(evts[Receiver]) = ToSet(Tail(evts[Receiver])) \cup {e}
    BY <1>1, <1>3, <1>4, TailFacts
<1>5. /\ st[t] = "idle" /\ st'[t] = "run"
      /\ \A x \in Tasks \ {t} : st'[x] = st[x]
    BY <1>1 DEF Take
<1> QED BY <1>2, <1>3, <1>4, <1>5

LEMMA PostFacts ==
    ASSUME TypeOK, NEW c \in Ctxs, PostEvent(c)
    PROVE  \E e \in Evts :
              /\ e = IF op[c].kind = "CANCEL_tx" THEN "CANCEL" ELSE op[c].kind
              /\ \/ evts'[Receiver] = Append(evts[Receiver], e) /\ op[c].to = Receiver
                 \/ /\ evts'[Receiver] = evts[Receiver]
                    /\ e = "TIMER" \/ op[c].to # Receiver
<1>1. PICK t \in Tasks \cup {Nobody}, e \in Evts :
         /\ t = op[c].to
         /\ e = IF op[c].kind = "CANCEL_tx" THEN "CANCEL" ELSE op[c].kind
         /\ \/ evts' = evts /\ e = "TIMER"
            \/ evts' = [evts EXCEPT ![t] = Append(@, e)]
    BY DEF PostEvent, TypeOK, Evts
<1>2. evts \in [Tasks -> Seq(Evts)] /\ Receiver \in Tasks
    BY CtxFacts DEF TypeOK, Evts
<1>3. CASE evts' = evts /\ e = "TIMER"
    BY <1>1, <1>3
<1>4. CASE evts' = [evts EXCEPT ![t] = Append(@, e)]
  <2>1. CASE t = Receiver
    BY <1>1, <1>2, <1>4, <2>1
  <2>2. CASE t # Receiver
    BY <1>1, <1>2, <1>4, <2>2
  <2> QED BY <2>1, <2>2
<1> QED BY <1>1, <1>3, <1>4

\* A task enters a call while its handler runs, and leaves its handler only
\* between two calls.
LEMMA QuietNext ==
    ASSUME TypeOK, IdleIsQuiet, [Next]_vars PROVE IdleIsQuiet'
<1>0. /\ st \in [Tasks -> {"run", "idle"}] /\ \A x \in Tasks : op[x].kind # "none" => st[x] = "run"
      /\ {Sender, Receiver, Thief, Canceller} = Tasks /\ Tasks \subseteq Ctxs
      /\ Kernel \in Ctxs \ Tasks
    BY CtxFacts, CtxAssumption DEF TypeOK, IdleIsQuiet, Tasks
<1>1. ASSUME NEW c \in Ctxs, st' = st, c \in Tasks => st[c] = "run",
             \A d \in Ctxs : d # c => op'[d] = op[d]
      PROVE  IdleIsQuiet'
    BY <1>0, <1>1 DEF IdleIsQuiet
<1>2. ASSUME st' = st, op' = op PROVE IdleIsQuiet'
    BY <1>2 DEF IdleIsQuiet
<1>3. CASE Use
  <2>1. PICK c \in Tasks : AtWork(c) /\ \E k, t : SetOp(c, k, t)
    BY <1>0, <1>3 DEF Use, SendEnqueue, SendFull, RecvEmpty, CancelTx, RecvDequeue
  <2>2. st' = st
    BY <1>3 DEF Use, SendEnqueue, SendFull, RecvEmpty, CancelTx, RecvDequeue, taskVars
  <2> QED BY <1>0, <1>1, <2>1, <2>2, SetFacts DEF AtWork
<1>4. CASE Isr
    BY <1>2, <1>4 DEF Isr, IsrSend, IsrRecv, taskVars
<1>5. CASE KernelSendNotify \/ KernelRecvNotify \/ \E t \in Tasks : KernelTimer(t)
  <2>1. (\E k, t : SetOp(Kernel, k, t)) /\ st' = st
    BY <1>5 DEF KernelSendNotify, KernelRecvNotify, KernelTimer, taskVars
  <2> QED BY <1>0, <1>1, <2>1, SetFacts
<1>6. ASSUME NEW c \in Ctxs, Step(c) PROVE IdleIsQuiet'
  <2>1. op[c].kind # "none" /\ st' = st
    BY <1>6 DEF Step, NotifyRx, NotifyTx, PostEvent, InCall, taskVars
  <2>2. EndOp(c) \/ \E k, t : SetOp(c, k, t)
    BY <1>6 DEF Step, NotifyRx, NotifyTx, PostEvent
  <2> QED BY <1>0, <1>1, <2>1, <2>2, SetFacts
<1>7. ASSUME NEW t \in Tasks, TaskStep(t), ~Step(t) PROVE IdleIsQuiet'
  <2>1. CASE HandlerReturn(t)
    BY <1>0, <2>1 DEF HandlerReturn, IdleIsQuiet
  <2>2. CASE \E e : Take(t, e)
    <3>1. st[t] = "idle" /\ op[t].kind = "none"
        BY <1>0, <2>2, TakeFacts
    <3>2. ~HandlerReturn(t)
        BY <3>1 DEF HandlerReturn
    <3>3. op' = op \/ \E k, x : SetOp(t, k, x)
        BY <1>7, <3>1, <3>2
        DEF TaskStep, ReasonPending, ReasonCancel, SendPend, SendTimeout, RecvPend,
            RecvTimeout, RecvTimeoutClear, RecvWoken, RecvAgain, RecvStarved,
            CancelRxRead, CancelRxClear, InCall, PendKind
    <3> QED BY <1>0, <2>2, <3>3, SetFacts, TakeFacts DEF IdleIsQuiet
  <2>3. CASE ~HandlerReturn(t) /\ ~\E e : Take(t, e)
    <3>1. /\ op[t].kind # "none" /\ st' = st
          /\ EndOp(t) \/ \E k, x : SetOp(t, k, x)
        BY <1>7, <2>3 DEF TaskStep, ReasonPending, ReasonCancel, SendPend,
           SendTimeout, RecvPend, RecvTimeout, RecvTimeoutClear, RecvWoken,
           RecvAgain, RecvStarved, CancelRxRead, CancelRxClear, Woken, InCall,
           Wait, PendKind, taskVars
    <3> QED BY <1>0, <1>1, <3>1, SetFacts
  <2> QED BY <2>1, <2>2, <2>3
<1>8. CASE UNCHANGED vars
    BY <1>2, <1>8 DEF vars
<1> QED BY <1>0, <1>3, <1>4, <1>5, <1>6, <1>7, <1>8 DEF Next, KernelStep
\* The wake-ups that are queued for the receiver stay the same.
EvtsKept ==
    \A e \in {"SYNC", "CANCEL"} :
        /\ e \in ToSet(evts'[Receiver]) <=> e \in ToSet(evts[Receiver])
        /\ Once(evts[Receiver], e) => Once(evts'[Receiver], e)

LEMMA SameEvts == ASSUME evts'[Receiver] = evts[Receiver] PROVE EvtsKept
BY DEF EvtsKept

\* A step that leaves the receiver's wait, its registration and its wake-ups
\* alone: context c, or no context, goes on with its own call.
LEMMA Elsewhere ==
    ASSUME TypeOK, RecvInv, IdleIsQuiet', UNCHANGED <<eda_rx, late, crossed>>,
           wait'[Receiver] = wait[Receiver], EvtsKept,
           is_sync_got'[Receiver] = is_sync_got[Receiver],
           st'[Receiver] = "idle" => wait[Receiver] = "recv",
           missed => missed', starved => starved',
           NEW c \in Ctxs, NEW k, NEW t,
           \/ op' = op /\ (readable = 0 => readable' = 0)
           \/ /\ op'[c].kind = k /\ op'[c].to = t
              /\ \A d \in Ctxs : d # c => op'[d] = op[d]
              /\ op[c].kind # "notify_rx"
              /\ ~Carries(c, "SYNC") /\ ~Carries(c, "CANCEL")
              /\ k \notin {"SYNC", "CANCEL", "cancel_clear"}
              /\ k = "CANCEL_tx" => t = Sender /\ c = Canceller
              /\ k = "notify_rx" \/ (readable = 0 => readable' = 0)
              /\ c = Receiver =>
                    /\ op[c].kind # "dequeue"
                    /\ k \notin Pends \cup {"clear_rx", "dequeue"}
                    /\ k = "none" \/ wait[Receiver] = "no"
    PROVE  RecvInv'
<1>0. /\ Receiver \in Ctxs /\ Canceller \in Ctxs /\ Receiver # Canceller
      /\ Nobody # Receiver /\ eda_rx \in {Nobody, Receiver}
    BY CtxFacts, CtxAssumption DEF TypeOK, Ctxs
<1>1. Queued("SYNC")' = Queued("SYNC") /\ Queued("CANCEL")' = Queued("CANCEL")
    BY DEF Queued, EvtsKept
<1>2. \A x \in Ctxs : /\ Carries(x, "SYNC")' <=> Carries(x, "SYNC")
                      /\ Carries(x, "CANCEL")' <=> Carries(x, "CANCEL")
    BY DEF Carries
<1>3. /\ OnTheWay(Receiver, {"SYNC", "CANCEL"})
            => OnTheWay(Receiver, {"SYNC", "CANCEL"})'
    BY <1>1, <1>2 DEF OnTheWay, Carries, Queued
<1>4. ReadInv'
  <2>1. eda_rx' # Nobody \/ op'[Receiver].kind \in Pends =>
           eda_rx # Nobody \/ op[Receiver].kind \in Pends
    BY <1>0
  <2>2. Unread => Unread'
    BY <1>0 DEF Unread, Telling
  <2> QED BY <2>1, <2>2 DEF ReadInv, RecvInv
<1>5. ReceiverIsReachable'
  <2>1. op[Receiver].kind = "dequeue" => op'[Receiver].kind = "dequeue"
    BY <1>0
  <2> QED BY <1>3, <2>1 DEF ReceiverIsReachable, RecvInv
<1>6. CarryInv' /\ WaitShape'
    BY <1>0 DEF CarryInv, WaitShape, RecvInv
<1>7. ASSUME ~late /\ ~crossed PROVE (OneSync /\ Synced /\ OneCancel /\ Registered)'
  <2>0. OneSync /\ Synced /\ OneCancel /\ Registered
    BY <1>7 DEF RecvInv
  <2>1. OneSync'
    BY <1>1, <1>2, <2>0 DEF OneSync, EvtsKept
  <2>2. op[Receiver].kind = "none" /\ wait[Receiver] = "recv" => op'[Receiver].kind = "none"
    BY <1>0
  <2>3. Synced'
    BY <1>1, <1>2, <2>0, <2>2 DEF Synced
  <2>4. OneCancel'
    BY <1>1, <1>2, <2>0, <2>2 DEF OneCancel, Cancelled, EvtsKept
  <2>5. Registered'
    BY <1>0, <2>0 DEF Registered
  <2> QED BY <2>1, <2>3, <2>4, <2>5
<1> QED BY <1>4, <1>5, <1>6, <1>7 DEF RecvInv

LEMMA RecvEmptyKeeps ==
    ASSUME TypeOK, RecvInv, RecvEmpty, IdleIsQuiet' PROVE RecvInv'
<1>0. /\ Receiver \in Ctxs /\ Canceller \in Ctxs /\ Receiver # Canceller
      /\ Nobody # Receiver /\ eda_rx \in {Nobody, Receiver} /\ NoOp.kind = "none"
    BY CtxFacts, CtxAssumption DEF TypeOK, Ctxs
<1>1. PICK k \in Pends : SetOp(Receiver, k, Nobody)
    BY DEF RecvEmpty, PendKind, Pends
<1>2. /\ UNCHANGED <<readable, eda_rx, wait, st, evts, is_sync_got, late, crossed>>
      /\ st[Receiver] = "run" /\ wait[Receiver] = "no" /\ op[Receiver] = NoOp
      /\ readable = 0
    BY DEF RecvEmpty, AtWork, queueVars, taskVars
<1>3. /\ op'[Receiver].kind = k /\ op'[Receiver].to = Nobody
      /\ \A d \in Ctxs : d # Receiver => op'[d] = op[d]
    BY <1>0, <1>1, SetFacts
<1>4. Queued("SYNC")' = Queued("SYNC") /\ Queued("CANCEL")' = Queued("CANCEL")
    BY <1>2 DEF Queued
<1>5. \A x \in Ctxs : /\ Carries(x, "SYNC")' <=> Carries(x, "SYNC")
                      /\ Carries(x, "CANCEL")' <=> Carries(x, "CANCEL")
    BY <1>0, <1>2, <1>3 DEF Carries, Pends
<1>6. ReadInv' /\ ReceiverIsReachable'
    BY <1>2 DEF ReadInv, Unread, ReceiverIsReachable
<1>7. CarryInv' /\ WaitShape'
    BY <1>0, <1>2, <1>3 DEF CarryInv, WaitShape, RecvInv, Pends
<1>8. ASSUME ~late /\ ~crossed PROVE (OneSync /\ Synced /\ OneCancel /\ Registered)'
  <2>0. OneSync /\ Synced /\ OneCancel /\ Registered
    BY <1>8 DEF RecvInv
  <2>1. OneSync'
    BY <1>2, <1>4, <1>5, <2>0 DEF OneSync
  <2>2. Synced'
    BY <1>2, <2>0 DEF Synced
  <2>3. OneCancel'
    BY <1>2, <1>4, <1>5, <2>0 DEF OneCancel, Cancelled
  <2>4. Registered'
    BY <1>0, <1>2, <1>3, <2>0 DEF Registered, Pends
  <2> QED BY <2>1, <2>2, <2>3, <2>4
<1> QED BY <1>2, <1>6, <1>7, <1>8 DEF RecvInv

LEMMA RecvUse ==
    ASSUME TypeOK, RecvInv, Use, ~RecvEmpty, IdleIsQuiet' PROVE RecvInv'
<1>0. /\ {Sender, Receiver, Thief, Canceller} \subseteq Ctxs /\ Sender # Receiver
      /\ Tasks \subseteq Ctxs /\ Canceller # Receiver
    BY CtxFacts, CtxAssumption
<1>1. PICK c \in Tasks, k \in {"notify_rx", "pend_timed", "pend_forever",
                               "notify_tx", "CANCEL_tx", "cancel_rx"},
           t \in Tasks \cup {Nobody} :
         /\ AtWork(c) /\ SetOp(c, k, t)
         /\ k = "CANCEL_tx" => t = Sender /\ c = Canceller
         /\ c = Receiver => k = "notify_tx"
         /\ k = "notify_rx" \/ (readable = 0 => readable' = 0)
  <2>1. CASE SendEnqueue
    BY <1>0, <2>1, CtxFacts DEF SendEnqueue
  <2>2. CASE SendFull
    BY <1>0, <2>2, CtxFacts DEF SendFull, PendKind, queueVars
  <2>3. CASE CancelTx
    BY <1>0, <2>3, CtxFacts DEF CancelTx, queueVars
  <2>4. CASE \E x \in Tasks : RecvDequeue(x)
    BY <2>4, CtxFacts DEF RecvDequeue
  <2> QED BY <2>1, <2>2, <2>3, <2>4 DEF Use
<1>2. UNCHANGED <<eda_rx, wait, st, evts, missed, starved, late, crossed>>
    BY DEF Use, SendEnqueue, SendFull, CancelTx, RecvDequeue, taskVars, histVars,
           raceVars
<1>3. is_sync_got'[Receiver] = is_sync_got[Receiver]
  <2>1. \/ is_sync_got' = is_sync_got
        \/ is_sync_got' = [is_sync_got EXCEPT ![Sender] = TRUE]
    BY DEF Use, SendEnqueue, SendFull, CancelTx, RecvDequeue, taskVars
  <2> QED BY <1>0, <2>1, CtxFacts DEF TypeOK
<1>4. /\ op[c].kind = "none" /\ wait[c] = "no" /\ c \in Ctxs
      /\ op'[c].kind = k /\ op'[c].to = t
      /\ \A d \in Ctxs : d # c => op'[d] = op[d]
    BY <1>0, <1>1, SetFacts, CtxFacts DEF AtWork
<1>5. st'[Receiver] = "idle" => wait[Receiver] = "recv"
    BY <1>2 DEF RecvInv, WaitShape
<1> QED BY <1>1, <1>2, <1>3, <1>4, <1>5, SameEvts, Elsewhere DEF Pends, Carries

LEMMA RecvIsr ==
    ASSUME TypeOK, RecvInv, Isr, IdleIsQuiet' PROVE RecvInv'
<1>1. UNCHANGED <<eda_rx, wait, st, evts, is_sync_got, op, missed, starved, late,
                  crossed>>
    BY DEF Isr, IsrSend, IsrRecv, taskVars, histVars, raceVars
<1>2. readable = 0 => readable' = 0
    BY DEF Isr, IsrSend, IsrRecv
<1>3. st'[Receiver] = "idle" => wait[Receiver] = "recv"
    BY <1>1 DEF RecvInv, WaitShape
<1> QED BY <1>1, <1>2, <1>3, CtxFacts, SameEvts, Elsewhere DEF Carries

LEMMA RecvKernel ==
    ASSUME TypeOK, RecvInv, IdleIsQuiet',
           KernelSendNotify \/ KernelRecvNotify \/ \E x \in Tasks : KernelTimer(x)
    PROVE  RecvInv'
<1>0. Kernel \in Ctxs /\ Kernel # Receiver
    BY CtxFacts, CtxAssumption
<1>1. PICK k \in {"notify_rx", "notify_tx", "TIMER"}, t \in Tasks \cup {Nobody} :
         /\ op[Kernel] = NoOp /\ SetOp(Kernel, k, t)
         /\ k = "notify_rx" \/ readable' = readable
    BY DEF KernelSendNotify, KernelRecvNotify, KernelTimer, queueVars, KernelFree
<1>2. UNCHANGED <<eda_rx, wait, st, evts, is_sync_got, missed, starved, late,
                  crossed>>
    BY DEF KernelSendNotify, KernelRecvNotify, KernelTimer, taskVars, histVars,
           raceVars
<1>3. /\ op[Kernel].kind = "none" /\ op'[Kernel].kind = k /\ op'[Kernel].to = t
      /\ \A d \in Ctxs : d # Kernel => op'[d] = op[d]
    BY <1>0, <1>1, SetFacts, CtxFacts
<1>4. st'[Receiver] = "idle" => wait[Receiver] = "recv"
    BY <1>2 DEF RecvInv, WaitShape
<1> QED BY <1>0, <1>1, <1>2, <1>3, <1>4, SameEvts, Elsewhere DEF Carries

\* The parts of a step of context c in its call: who carries what afterwards.
LEMMA CarryFacts ==
    ASSUME TypeOK, NEW c \in Ctxs, NEW k, NEW t,
           op'[c].kind = k, op'[c].to = t,
           \A d \in Ctxs : d # c => op'[d] = op[d]
    PROVE  \A x \in Ctxs, e \in {"SYNC", "CANCEL"} :
              /\ x # c => (Carries(x, e)' <=> Carries(x, e))
              /\ Carries(c, e)' <=> k = e /\ t = Receiver
BY DEF Carries

LEMMA NotifyKeeps ==
    ASSUME TypeOK, RecvInv, NEW c \in Ctxs, NotifyRx(c), IdleIsQuiet'
    PROVE  RecvInv'
<1>0. /\ Receiver \in Ctxs /\ Canceller \in Ctxs /\ Receiver # Canceller
      /\ Nobody # Receiver /\ eda_rx \in {Nobody, Receiver} /\ Receiver \in Tasks
    BY CtxFacts, CtxAssumption DEF TypeOK, Ctxs
<1>1. /\ UNCHANGED <<readable, wait, st, evts, starved, crossed>>
      /\ eda_rx' = Nobody /\ op[c].kind = "notify_rx"
      /\ op[Receiver].kind \in Pends => missed'
      /\ late' <=> late \/ op[Receiver].kind = "clear_rx"
    BY DEF NotifyRx, NotifyFinds, InCall, queueVars
<1>2. Queued("SYNC")' = Queued("SYNC") /\ Queued("CANCEL")' = Queued("CANCEL")
    BY <1>1 DEF Queued
<1>3. WaitShape'
    BY <1>1 DEF WaitShape, RecvInv
<1>4. CASE eda_rx = Nobody
  <2>1. /\ op'[c].kind = "none" /\ op'[c] = NoOp /\ is_sync_got' = is_sync_got
        /\ \A d \in Ctxs : d # c => op'[d] = op[d]
    BY <1>4, SetFacts DEF NotifyRx
  <2>2. \A x \in Ctxs : /\ Carries(x, "SYNC")' <=> Carries(x, "SYNC")
                        /\ Carries(x, "CANCEL")' <=> Carries(x, "CANCEL")
    BY <1>1, <2>1 DEF Carries
  <2>3. ReadInv'
    BY <1>0, <1>1, <2>1 DEF ReadInv, Unread, Pends
  <2>4. ReceiverIsReachable'
    BY <1>0, <1>1, <1>2, <1>4, <2>1, <2>2
       DEF ReceiverIsReachable, RecvInv, OnTheWay, Carries, Queued
  <2>5. CarryInv'
    BY <1>1, <2>1 DEF CarryInv, RecvInv
  <2>6. ASSUME ~late' /\ ~crossed'
        PROVE (OneSync /\ Synced /\ OneCancel /\ Registered)'
    <3>0. OneSync /\ Synced /\ OneCancel /\ Registered
        BY <1>1, <2>6 DEF RecvInv
    <3>1. /\ c = Receiver => op'[Receiver].kind = "none"
          /\ c # Receiver => op'[Receiver].kind = op[Receiver].kind
        BY <1>0, <2>1
    <3>2. OneSync'
        BY <1>1, <1>2, <2>1, <2>2, <3>0 DEF OneSync
    <3>3. Synced'
        BY <1>1, <1>2, <2>1, <2>2, <3>0, <3>1 DEF Synced
    <3>4. OneCancel'
        BY <1>1, <1>2, <2>1, <2>2, <3>0, <3>1 DEF OneCancel, Cancelled
    <3>5. Registered'
        BY <1>0, <1>1, <3>0, <3>1 DEF Registered, Pends
    <3> QED BY <3>2, <3>3, <3>4, <3>5
  <2> QED BY <1>3, <2>3, <2>4, <2>5, <2>6 DEF RecvInv
<1>5. CASE eda_rx = Receiver
  <2>1. /\ op'[c].kind = "SYNC" /\ op'[c].to = Receiver
        /\ \A d \in Ctxs : d # c => op'[d] = op[d]
    BY <1>0, <1>5, SetFacts DEF NotifyRx
  <2>2. is_sync_got'[Receiver]
    BY <1>0, <1>5 DEF NotifyRx, TypeOK
  <2>3. /\ Carries(c, "SYNC")' /\ ~Carries(c, "CANCEL")'
        /\ \A x \in Ctxs : x # c => /\ Carries(x, "SYNC")' <=> Carries(x, "SYNC")
                                    /\ Carries(x, "CANCEL")' <=> Carries(x, "CANCEL")
    BY <1>1, <2>1 DEF Carries
  <2>4. ReadInv'
    BY <1>0, <1>1, <2>1 DEF ReadInv, Unread, Pends
  <2>5. ReceiverIsReachable'
    BY <2>1 DEF ReceiverIsReachable, OnTheWay
  <2>6. CarryInv'
    BY <1>1, <2>1 DEF CarryInv, RecvInv
  <2>7. ASSUME ~late' /\ ~crossed'
        PROVE (OneSync /\ Synced /\ OneCancel /\ Registered)'
    <3>0. OneSync /\ Synced /\ OneCancel /\ Registered
        BY <1>1, <2>7 DEF RecvInv
    <3>1. /\ wait[Receiver] = "recv" /\ op[Receiver].kind = "none" /\ c # Receiver
          /\ op'[Receiver].kind = "none"
        BY <1>0, <1>1, <1>5, <2>1, <2>7, <3>0 DEF Registered
    <3>2. /\ ~is_sync_got[Receiver] /\ ~Queued("SYNC") /\ ~Queued("CANCEL")
          /\ \A x \in Ctxs : ~Carries(x, "SYNC") /\ ~Carries(x, "CANCEL")
        BY <1>0, <1>5, <3>0 DEF Synced, OneSync, OneCancel, Cancelled
    <3>3. OneSync'
        BY <1>1, <1>2, <2>2, <2>3, <3>0, <3>2 DEF OneSync
    <3>4. Synced'
        BY <1>1, <2>3, <3>1 DEF Synced
    <3>5. OneCancel'
        BY <1>1, <1>2, <2>3, <3>0, <3>2 DEF OneCancel
    <3>6. Registered'
        BY <1>0, <1>1, <3>1 DEF Registered, Pends
    <3> QED BY <3>3, <3>4, <3>5, <3>6
  <2> QED BY <1>3, <2>4, <2>5, <2>6, <2>7 DEF RecvInv
<1> QED BY <1>0, <1>4, <1>5

\* The SYNC or the CANCEL that context c carries is queued.
LEMMA PostKeeps ==
    ASSUME TypeOK, RecvInv, NEW c \in Ctxs, PostEvent(c), IdleIsQuiet'
    PROVE  RecvInv'
<1>0. /\ Receiver \in Ctxs /\ Canceller \in Ctxs /\ Receiver # Canceller
      /\ Nobody # Receiver /\ eda_rx \in {Nobody, Receiver} /\ Receiver \in Tasks
      /\ Sender # Receiver /\ evts[Receiver] \in Seq(Evts)
    BY CtxFacts, CtxAssumption DEF TypeOK, Ctxs, Evts
<1>1. /\ UNCHANGED <<readable, eda_rx, wait, st, is_sync_got, missed, starved,
                     late, crossed>>
      /\ op[c].kind \in {"SYNC", "TIMER", "CANCEL", "CANCEL_tx"}
    BY DEF PostEvent, queueVars, histVars, raceVars
<1>2. PICK e \in Evts :
         /\ e = IF op[c].kind = "CANCEL_tx" THEN "CANCEL" ELSE op[c].kind
         /\ \/ evts'[Receiver] = Append(evts[Receiver], e) /\ op[c].to = Receiver
            \/ /\ evts'[Receiver] = evts[Receiver]
               /\ e = "TIMER" \/ op[c].to # Receiver
    BY PostFacts
<1>3. op[c].kind = "CANCEL_tx" => op[c].to # Receiver /\ c # Receiver
    BY <1>0 DEF RecvInv, CarryInv
<1>4. PICK k \in {"none", "cancel_rx"} :
         /\ op'[c].kind = k /\ op'[c].to = Nobody
         /\ k = "cancel_rx" => op[c].kind = "CANCEL_tx"
         /\ \A d \in Ctxs : d # c => op'[d] = op[d]
    BY SetFacts, CtxFacts DEF PostEvent
<1>5. /\ ToSet(Append(evts[Receiver], e)) = ToSet(evts[Receiver]) \cup {e}
      /\ \A x : e # x \/ x \notin ToSet(evts[Receiver]) =>
            (Once(evts[Receiver], x) => Once(Append(evts[Receiver], e), x))
    BY <1>0, AppendFacts, OnceFacts
<1>6. CASE ~Carries(c, "SYNC") /\ ~Carries(c, "CANCEL")
  <2>1. EvtsKept
    <3>1. CASE evts'[Receiver] = evts[Receiver]
        BY <3>1, SameEvts
    <3>2. CASE evts'[Receiver] = Append(evts[Receiver], e) /\ op[c].to = Receiver
      <4>1. e \notin {"SYNC", "CANCEL"}
        BY <1>2, <1>3, <1>6, <3>2 DEF Carries
      <4>2. \A x \in {"SYNC", "CANCEL"} :
                /\ x \in ToSet(evts'[Receiver]) <=> x \in ToSet(evts[Receiver])
                /\ Once(evts[Receiver], x) => Once(evts'[Receiver], x)
        BY <1>5, <3>2, <4>1
      <4> QED BY <4>2 DEF EvtsKept
    <3> QED BY <1>2, <3>1, <3>2
  <2>2. st'[Receiver] = "idle" => wait[Receiver] = "recv"
    BY <1>1 DEF RecvInv, WaitShape
  <2> QED BY <1>0, <1>1, <1>3, <1>4, <1>6, <2>1, <2>2, Elsewhere DEF Pends
<1>7. CASE Carries(c, "SYNC") \/ Carries(c, "CANCEL")
  <2>1. /\ evts'[Receiver] = Append(evts[Receiver], e) /\ e = op[c].kind
        /\ e \in {"SYNC", "CANCEL"} /\ Carries(c, e) /\ k = "none"
    BY <1>0, <1>2, <1>4, <1>7 DEF Carries
  <2>2. /\ \A x \in {"SYNC", "CANCEL"} : Queued(x)' <=> Queued(x) \/ x = e
        /\ ToSet(evts'[Receiver]) = ToSet(evts[Receiver]) \cup {e}
    BY <1>5, <2>1 DEF Queued
  <2>3. \A x \in Ctxs, y \in {"SYNC", "CANCEL"} :
           Carries(x, y)' <=> Carries(x, y) /\ x # c
    BY <1>4, <2>1 DEF Carries
  <2>4. /\ c = Receiver => op'[Receiver].kind = "none"
        /\ c # Receiver => op'[Receiver].kind = op[Receiver].kind
    BY <1>0, <1>4, <2>1
  <2>5. ReadInv'
    <3>1. Unread => Unread'
        BY <1>1, <1>4 DEF Unread, Telling
    <3> QED BY <1>1, <2>4, <3>1 DEF ReadInv, RecvInv, Pends
  <2>6. ReceiverIsReachable'
    <3>1. OnTheWay(Receiver, {"SYNC", "CANCEL"})'
        BY <2>1, <2>2 DEF OnTheWay
    <3> QED BY <3>1 DEF ReceiverIsReachable
  <2>7. CarryInv' /\ WaitShape'
    BY <1>1, <1>4, <2>1 DEF CarryInv, WaitShape, RecvInv
  <2>8. ASSUME ~late /\ ~crossed
        PROVE (OneSync /\ Synced /\ OneCancel /\ Registered)'
    <3>0. OneSync /\ Synced /\ OneCancel /\ Registered
        BY <2>8 DEF RecvInv
    <3>1. op[Receiver].kind = "none" => op'[Receiver].kind = "none"
        BY <2>4
    <3>2. /\ e = "SYNC" => ~Queued("SYNC") /\ is_sync_got[Receiver]
          /\ e = "CANCEL" => ~Queued("CANCEL") /\ Cancelled
        BY <2>1, <3>0 DEF OneSync, OneCancel
    <3>3. /\ Once(evts'[Receiver], "SYNC") /\ Once(evts'[Receiver], "CANCEL")
        BY <1>5, <2>1, <3>0, <3>2 DEF OneSync, OneCancel, Queued
    <3>4. OneSync'
        BY <1>1, <2>1, <2>2, <2>3, <3>0, <3>2, <3>3 DEF OneSync
    <3>5. Synced'
      <4>1. \A x \in Ctxs : Carries(x, "SYNC") => Carries(x, "SYNC")' \/ Queued("SYNC")'
        BY <2>1, <2>2, <2>3 DEF Carries
      <4> QED BY <1>1, <2>2, <3>0, <3>1, <4>1 DEF Synced
    <3>6. OneCancel'
      <4>1. Cancelled => Cancelled'
        BY <1>1, <3>1 DEF Cancelled
      <4>2. \A x \in Ctxs : Carries(x, "CANCEL")' => ~Queued("CANCEL")' /\ Cancelled'
        <5> SUFFICES ASSUME NEW x \in Ctxs, Carries(x, "CANCEL")'
                     PROVE  ~Queued("CANCEL")' /\ Cancelled'
            OBVIOUS
        <5>1. Carries(x, "CANCEL") /\ x # c
            BY <2>3
        <5>2. e # "CANCEL"
            BY <2>1, <5>1 DEF Carries, RecvInv, CarryInv
        <5> QED BY <2>2, <3>0, <4>1, <5>1, <5>2 DEF OneCancel
      <4>3. Queued("CANCEL")' => Cancelled'
        BY <2>2, <3>0, <3>2, <4>1 DEF OneCancel
      <4> QED BY <3>3, <4>2, <4>3 DEF OneCancel
    <3>7. Registered'
        BY <1>0, <1>1, <2>4, <3>0 DEF Registered, Pends
    <3> QED BY <3>4, <3>5, <3>6, <3>7
  <2> QED BY <1>1, <2>5, <2>6, <2>7, <2>8 DEF RecvInv
<1> QED BY <1>6, <1>7

LEMMA RecvStep ==
    ASSUME TypeOK, RecvInv, NEW c \in Ctxs, Step(c), IdleIsQuiet' PROVE RecvInv'
<1>1. CASE NotifyTx(c)
  <2>1. UNCHANGED <<readable, eda_rx, wait, st, evts, is_sync_got, missed,
                    starved, late, crossed>> /\ op[c].kind = "notify_tx"
    BY <1>1 DEF NotifyTx, InCall, queueVars, taskVars, histVars, raceVars
  <2>2. /\ op'[c].kind = "none" /\ op'[c].to = Nobody
        /\ \A d \in Ctxs : d # c => op'[d] = op[d]
    BY <1>1, SetFacts, CtxFacts DEF NotifyTx
  <2>3. st'[Receiver] = "idle" => wait[Receiver] = "recv"
    BY <2>1 DEF RecvInv, WaitShape
  <2> QED BY <2>1, <2>2, <2>3, SameEvts, Elsewhere DEF Carries, Pends
<1> QED BY <1>1, NotifyKeeps, PostKeeps DEF Step

\* The facts about the receiver that the steps of its own calls rest on.
LEMMA RxBasics ==
    ASSUME TypeOK
    PROVE  /\ Receiver \in Ctxs /\ Canceller \in Ctxs /\ Receiver # Canceller
           /\ Nobody # Receiver /\ eda_rx \in {Nobody, Receiver}
           /\ Receiver \in Tasks /\ Sender # Receiver
           /\ evts[Receiver] \in Seq(Evts)
           /\ wait \in [Tasks -> {"no", "send", "recv"}]
           /\ is_sync_got \in [Tasks -> BOOLEAN]
BY CtxFacts, CtxAssumption DEF TypeOK, Ctxs, Evts

LEMMA PendKeeps ==
    ASSUME TypeOK, RecvInv, RecvPend, IdleIsQuiet' PROVE RecvInv'
<1>1. /\ op[Receiver].kind \in Pends /\ eda_rx = Nobody /\ eda_rx' = Receiver
      /\ UNCHANGED <<readable, st, evts, is_sync_got, missed, starved, late, crossed>>
      /\ wait' = [wait EXCEPT ![Receiver] = "recv"] /\ EndOp(Receiver)
    BY DEF RecvPend, InCall, Wait, PendKind, Pends, queueVars, histVars, raceVars
<1>2. wait'[Receiver] = "recv"
    BY <1>1, RxBasics
<1>3. /\ op'[Receiver].kind = "none" /\ op'[Receiver].to = Nobody
      /\ \A d \in Ctxs : d # Receiver => op'[d] = op[d]
    BY <1>1, RxBasics, SetFacts, CtxFacts
<1>4. /\ Queued("SYNC")' = Queued("SYNC") /\ Queued("CANCEL")' = Queued("CANCEL")
      /\ \A x \in Ctxs : /\ Carries(x, "SYNC")' <=> Carries(x, "SYNC")
                         /\ Carries(x, "CANCEL")' <=> Carries(x, "CANCEL")
    BY <1>1, <1>3, RxBasics DEF Queued, Carries, Pends
<1>5. ReadInv'
  <2>1. Unread => Unread'
    BY <1>1, <1>3 DEF Unread, Telling, Pends
  <2> QED BY <1>1, <2>1 DEF ReadInv, RecvInv
<1>6. ReceiverIsReachable' /\ WaitShape' /\ CarryInv'
    BY <1>1, <1>2, <1>3, RxBasics DEF ReceiverIsReachable, WaitShape, CarryInv, RecvInv
<1>7. ASSUME ~late /\ ~crossed PROVE (OneSync /\ Synced /\ OneCancel /\ Registered)'
  <2>0. OneSync /\ Synced /\ OneCancel /\ Registered
    BY <1>7 DEF RecvInv
  <2>1. wait[Receiver] = "no"
    BY <1>1, <2>0 DEF Registered
  <2>2. /\ ~is_sync_got[Receiver] /\ ~Queued("CANCEL")
        /\ \A x \in Ctxs : ~Carries(x, "CANCEL")
    BY <2>0, <2>1 DEF Synced, OneCancel, Cancelled
  <2>3. OneSync'
    BY <1>1, <1>4, <2>0 DEF OneSync
  <2>4. Synced' /\ OneCancel'
    BY <1>1, <1>4, <2>0, <2>2 DEF Synced, OneCancel
  <2>5. Registered'
    BY <1>1, <1>2, <1>3 DEF Registered, Pends
  <2> QED BY <2>3, <2>4, <2>5
<1> QED BY <1>1, <1>5, <1>6, <1>7 DEF RecvInv

LEMMA TimeoutKeeps ==
    ASSUME TypeOK, RecvInv, RecvTimeout, IdleIsQuiet' PROVE RecvInv'
<1>1. /\ Take(Receiver, "TIMER") /\ ~is_sync_got[Receiver]
      /\ UNCHANGED <<readable, eda_rx, wait, is_sync_got, missed, starved, late>>
      /\ SetOp(Receiver, "clear_rx", Nobody)
      /\ crossed' <=> crossed \/ OnTheWay(Receiver, {"CANCEL"})
    BY DEF RecvTimeout, queueVars
<1>2. /\ st[Receiver] = "idle" /\ st'[Receiver] = "run" /\ evts[Receiver] # <<>>
      /\ Head(evts[Receiver]) = "TIMER" /\ evts'[Receiver] = Tail(evts[Receiver])
      /\ ToSet(evts[Receiver]) = ToSet(evts'[Receiver]) \cup {"TIMER"}
    BY <1>1, RxBasics, TakeFacts
<1>3. /\ op'[Receiver].kind = "clear_rx" /\ op'[Receiver].to = Nobody
      /\ \A d \in Ctxs : d # Receiver => op'[d] = op[d]
      /\ op[Receiver].kind = "none" /\ wait[Receiver] = "recv"
    BY <1>1, <1>2, RxBasics, SetFacts, CtxFacts DEF RecvInv, IdleIsQuiet, WaitShape
<1>4. /\ Queued("SYNC")' <=> Queued("SYNC")
      /\ Queued("CANCEL")' <=> Queued("CANCEL")
      /\ \A x \in Ctxs : /\ Carries(x, "SYNC")' <=> Carries(x, "SYNC")
                         /\ Carries(x, "CANCEL")' <=> Carries(x, "CANCEL")
    BY <1>2, <1>3, RxBasics DEF Queued, Carries
<1>5. ReadInv'
  <2>1. Unread => Unread'
    BY <1>1, <1>3 DEF Unread, Telling
  <2> QED BY <1>1, <1>3, <2>1 DEF ReadInv, RecvInv, Pends
<1>6. ReceiverIsReachable'
  <2>1. OnTheWay(Receiver, {"SYNC", "CANCEL"}) => OnTheWay(Receiver, {"SYNC", "CANCEL"})'
    BY <1>4 DEF OnTheWay, Carries, Queued
  <2> QED BY <1>1, <1>3, <2>1 DEF ReceiverIsReachable, RecvInv
<1>7. CarryInv' /\ WaitShape'
    BY <1>1, <1>2, <1>3, RxBasics DEF WaitShape, CarryInv, RecvInv
<1>8. ASSUME ~late' /\ ~crossed' PROVE (OneSync /\ Synced /\ OneCancel /\ Registered)'
  <2>0. OneSync /\ Synced /\ OneCancel /\ Registered
    BY <1>1, <1>8 DEF RecvInv
  <2>1. ~Queued("CANCEL") /\ \A x \in Ctxs : ~Carries(x, "CANCEL")
    BY <1>1, <1>8, WayFacts
  <2>2. Once(evts'[Receiver], "SYNC") /\ Once(evts'[Receiver], "CANCEL")
    BY <1>2, <2>0, RxBasics, OnceFacts DEF OneSync, OneCancel
  <2>3. OneSync'
    BY <1>1, <1>4, <2>0, <2>2 DEF OneSync
  <2>4. Synced' /\ OneCancel'
    BY <1>1, <1>4, <2>1, <2>2 DEF Synced, OneCancel
  <2>5. Registered'
    BY <1>1, <1>3, <2>0 DEF Registered, Pends
  <2> QED BY <2>3, <2>4, <2>5
<1> QED BY <1>1, <1>5, <1>6, <1>7, <1>8 DEF RecvInv

LEMMA TimeoutClearKeeps ==
    ASSUME TypeOK, RecvInv, RecvTimeoutClear, IdleIsQuiet' PROVE RecvInv'
<1>1. /\ op[Receiver].kind = "clear_rx" /\ eda_rx' = Nobody
      /\ UNCHANGED <<readable, st, evts, is_sync_got, missed, starved, late, crossed>>
      /\ wait' = [wait EXCEPT ![Receiver] = "no"] /\ EndOp(Receiver)
    BY DEF RecvTimeoutClear, InCall, queueVars, histVars, raceVars
<1>2. wait'[Receiver] = "no"
    BY <1>1, RxBasics
<1>3. /\ op'[Receiver].kind = "none" /\ op'[Receiver].to = Nobody
      /\ \A d \in Ctxs : d # Receiver => op'[d] = op[d]
    BY <1>1, RxBasics, SetFacts, CtxFacts
<1>4. /\ Queued("SYNC")' = Queued("SYNC") /\ Queued("CANCEL")' = Queued("CANCEL")
      /\ \A x \in Ctxs : /\ Carries(x, "SYNC")' <=> Carries(x, "SYNC")
                         /\ Carries(x, "CANCEL")' <=> Carries(x, "CANCEL")
    BY <1>1, <1>3, RxBasics DEF Queued, Carries
<1>5. ReadInv' /\ ReceiverIsReachable'
    BY <1>1, <1>2, <1>3 DEF ReadInv, ReceiverIsReachable, Pends
<1>6. CarryInv'
    BY <1>3, RxBasics DEF CarryInv, RecvInv
<1>7. st[Receiver] # "idle"
    BY <1>1, RxBasics, CtxFacts DEF RecvInv, IdleIsQuiet
<1>8. WaitShape'
    BY <1>1, <1>2, <1>7 DEF WaitShape
<1>9. ASSUME ~late /\ ~crossed PROVE (OneSync /\ Synced /\ OneCancel /\ Registered)'
  <2>0. OneSync /\ Synced /\ OneCancel /\ Registered
    BY <1>9 DEF RecvInv
  <2>1. /\ ~is_sync_got[Receiver] /\ ~Queued("CANCEL")
        /\ \A x \in Ctxs : ~Carries(x, "CANCEL")
    BY <1>1, <2>0 DEF Synced, OneCancel, Cancelled
  <2>2. OneSync'
    BY <1>1, <1>4, <2>0 DEF OneSync
  <2>3. Synced' /\ OneCancel'
    BY <1>1, <1>4, <2>0, <2>1 DEF Synced, OneCancel
  <2>4. Registered'
    BY <1>1, <1>3, RxBasics DEF Registered, Pends
  <2> QED BY <2>2, <2>3, <2>4
<1> QED BY <1>1, <1>5, <1>6, <1>8, <1>9 DEF RecvInv

LEMMA ReasonCancelKeeps ==
    ASSUME TypeOK, RecvInv, ReasonCancel(Receiver), IdleIsQuiet' PROVE RecvInv'
<1>1. /\ Take(Receiver, "CANCEL")
      /\ UNCHANGED <<readable, eda_rx, op, missed, starved, late, crossed>>
      /\ wait' = [wait EXCEPT ![Receiver] = "no"]
      /\ is_sync_got' = [is_sync_got EXCEPT ![Receiver] = FALSE]
    BY DEF ReasonCancel, Woken, queueVars, histVars, raceVars
<1>2. /\ st[Receiver] = "idle" /\ st'[Receiver] = "run" /\ evts[Receiver] # <<>>
      /\ Head(evts[Receiver]) = "CANCEL" /\ evts'[Receiver] = Tail(evts[Receiver])
      /\ ToSet(evts[Receiver]) = ToSet(evts'[Receiver]) \cup {"CANCEL"}
    BY <1>1, RxBasics, TakeFacts
<1>3. wait'[Receiver] = "no" /\ ~is_sync_got'[Receiver]
    BY <1>1, RxBasics
<1>4. \A x \in Ctxs : /\ Carries(x, "SYNC")' <=> Carries(x, "SYNC")
                      /\ Carries(x, "CANCEL")' <=> Carries(x, "CANCEL")
    BY <1>1 DEF Carries
<1>5. ReadInv'
    BY <1>1 DEF ReadInv, RecvInv, Unread, Telling, Pends
<1>6. ReceiverIsReachable' /\ CarryInv' /\ WaitShape'
    BY <1>1, <1>2, <1>3 DEF ReceiverIsReachable, CarryInv, WaitShape, RecvInv
<1>7. ASSUME ~late /\ ~crossed PROVE (OneSync /\ Synced /\ OneCancel /\ Registered)'
  <2>0. OneSync /\ Synced /\ OneCancel /\ Registered
    BY <1>7 DEF RecvInv
  <2>1. Queued("CANCEL") /\ Once(evts[Receiver], "CANCEL") /\ Once(evts[Receiver], "SYNC")
    BY <1>2, <2>0 DEF Queued, OneCancel, OneSync
  <2>2. /\ Cancelled /\ \A x \in Ctxs : ~Carries(x, "CANCEL")
    BY <2>0, <2>1 DEF OneCancel
  <2>3. /\ ~Queued("CANCEL")' /\ Once(evts'[Receiver], "CANCEL")
        /\ Once(evts'[Receiver], "SYNC")
    BY <1>2, <2>1, RxBasics, OnceFacts DEF Queued
  <2>4. /\ ~Queued("SYNC") /\ ~Queued("SYNC")'
        /\ \A x \in Ctxs : ~Carries(x, "SYNC")
    BY <1>2, <2>0, <2>2 DEF OneSync, Cancelled, Queued
  <2>5. OneSync'
    BY <1>4, <2>3, <2>4 DEF OneSync
  <2>6. Synced' /\ OneCancel'
    BY <1>3, <1>4, <2>2, <2>3 DEF Synced, OneCancel
  <2>7. Registered'
    BY <1>1, <2>2, RxBasics DEF Registered, Cancelled, Pends
  <2> QED BY <2>5, <2>6, <2>7
<1> QED BY <1>1, <1>5, <1>6, <1>7 DEF RecvInv

LEMMA WokenKeeps ==
    ASSUME TypeOK, RecvInv, RecvWoken, IdleIsQuiet' PROVE RecvInv'
<1>1. /\ Take(Receiver, "SYNC") /\ SetOp(Receiver, "dequeue", Nobody)
      /\ UNCHANGED <<readable, eda_rx, wait, missed, starved, late, crossed>>
      /\ is_sync_got' = [is_sync_got EXCEPT ![Receiver] = FALSE]
    BY DEF RecvWoken, Woken, queueVars, histVars, raceVars
<1>2. /\ st[Receiver] = "idle" /\ st'[Receiver] = "run" /\ evts[Receiver] # <<>>
      /\ Head(evts[Receiver]) = "SYNC" /\ evts'[Receiver] = Tail(evts[Receiver])
      /\ ToSet(evts[Receiver]) = ToSet(evts'[Receiver]) \cup {"SYNC"}
    BY <1>1, RxBasics, TakeFacts
<1>3. ~is_sync_got'[Receiver]
    BY <1>1, RxBasics
<1>4. /\ op'[Receiver].kind = "dequeue" /\ op'[Receiver].to = Nobody
      /\ \A d \in Ctxs : d # Receiver => op'[d] = op[d]
      /\ op[Receiver].kind = "none" /\ wait[Receiver] = "recv"
    BY <1>1, <1>2, RxBasics, SetFacts, CtxFacts DEF RecvInv, IdleIsQuiet, WaitShape
<1>5. \A x \in Ctxs : /\ Carries(x, "SYNC")' <=> Carries(x, "SYNC")
                      /\ Carries(x, "CANCEL")' <=> Carries(x, "CANCEL")
    BY <1>4, RxBasics DEF Carries
<1>6. ReadInv'
  <2>1. Unread => Unread'
    BY <1>1, <1>4 DEF Unread, Telling
  <2> QED BY <1>1, <1>4, <2>1 DEF ReadInv, RecvInv, Pends
<1>7. ReceiverIsReachable' /\ CarryInv' /\ WaitShape'
    BY <1>1, <1>2, <1>4, RxBasics DEF ReceiverIsReachable, CarryInv, WaitShape, RecvInv
<1>8. ASSUME ~late /\ ~crossed PROVE (OneSync /\ Synced /\ OneCancel /\ Registered)'
  <2>0. OneSync /\ Synced /\ OneCancel /\ Registered
    BY <1>8 DEF RecvInv
  <2>1. Queued("SYNC") /\ Once(evts[Receiver], "CANCEL") /\ Once(evts[Receiver], "SYNC")
    BY <1>2, <2>0 DEF Queued, OneCancel, OneSync
  <2>2. /\ is_sync_got[Receiver] /\ eda_rx = Nobody
        /\ \A x \in Ctxs : ~Carries(x, "SYNC")
    BY <2>0, <2>1 DEF OneSync, Synced
  <2>3. /\ ~Queued("SYNC")' /\ Once(evts'[Receiver], "CANCEL")
        /\ Once(evts'[Receiver], "SYNC")
    BY <1>2, <2>1, RxBasics, OnceFacts DEF Queued
  <2>4. /\ ~Queued("CANCEL") /\ ~Queued("CANCEL")'
        /\ \A x \in Ctxs : ~Carries(x, "CANCEL")
    BY <1>2, <2>0, <2>2 DEF OneCancel, Cancelled, Queued
  <2>5. OneSync'
    BY <1>5, <2>2, <2>3 DEF OneSync
  <2>6. Synced' /\ OneCancel'
    BY <1>3, <1>5, <2>3, <2>4 DEF Synced, OneCancel
  <2>7. Registered'
    BY <1>1, <1>4, <2>2, RxBasics DEF Registered, Pends
  <2> QED BY <2>5, <2>6, <2>7
<1> QED BY <1>1, <1>6, <1>7, <1>8 DEF RecvInv

LEMMA AgainKeeps ==
    ASSUME TypeOK, RecvInv, RecvAgain, IdleIsQuiet' PROVE RecvInv'
<1>1. /\ op[Receiver].kind = "dequeue" /\ readable > 0 /\ SetOp(Receiver, "notify_tx", Nobody)
      /\ UNCHANGED <<eda_rx, st, evts, is_sync_got, missed, starved, late, crossed>>
      /\ wait' = [wait EXCEPT ![Receiver] = "no"]
    BY DEF RecvAgain, InCall, histVars, raceVars
<1>2. wait'[Receiver] = "no" /\ readable # 0
    BY <1>1, RxBasics
<1>3. /\ op'[Receiver].kind = "notify_tx" /\ op'[Receiver].to = Nobody
      /\ \A d \in Ctxs : d # Receiver => op'[d] = op[d]
    BY <1>1, RxBasics, SetFacts
<1>4. /\ Queued("SYNC")' = Queued("SYNC") /\ Queued("CANCEL")' = Queued("CANCEL")
      /\ \A x \in Ctxs : /\ Carries(x, "SYNC")' <=> Carries(x, "SYNC")
                         /\ Carries(x, "CANCEL")' <=> Carries(x, "CANCEL")
    BY <1>1, <1>3, RxBasics DEF Queued, Carries
<1>5. ReadInv'
  <2>1. Unread => Unread'
    BY <1>1, <1>2, <1>3 DEF Unread, Telling
  <2> QED BY <1>1, <1>3, <2>1 DEF ReadInv, RecvInv, Pends
<1>6. st[Receiver] # "idle"
    BY <1>1, RxBasics, CtxFacts DEF RecvInv, IdleIsQuiet
<1>7. ReceiverIsReachable' /\ CarryInv' /\ WaitShape'
    BY <1>1, <1>2, <1>3, <1>6, RxBasics
       DEF ReceiverIsReachable, CarryInv, WaitShape, RecvInv
<1>8. ASSUME ~late /\ ~crossed PROVE (OneSync /\ Synced /\ OneCancel /\ Registered)'
  <2>0. OneSync /\ Synced /\ OneCancel /\ Registered
    BY <1>8 DEF RecvInv
  <2>1. /\ ~is_sync_got[Receiver] /\ ~Queued("CANCEL") /\ eda_rx = Nobody
        /\ \A x \in Ctxs : ~Carries(x, "CANCEL")
    BY <1>1, <2>0 DEF Synced, OneCancel, Cancelled, Registered
  <2>2. OneSync'
    BY <1>1, <1>4, <2>0 DEF OneSync
  <2>3. Synced' /\ OneCancel'
    BY <1>1, <1>4, <2>0, <2>1 DEF Synced, OneCancel
  <2>4. Registered'
    BY <1>1, <1>3, <2>1, RxBasics DEF Registered, Pends
  <2> QED BY <2>2, <2>3, <2>4
<1> QED BY <1>1, <1>5, <1>7, <1>8 DEF RecvInv

LEMMA StarvedKeeps ==
    ASSUME TypeOK, RecvInv, RecvStarved, IdleIsQuiet' PROVE RecvInv'
<1>1. /\ op[Receiver].kind = "dequeue" /\ starved' /\ EndOp(Receiver)
      /\ UNCHANGED <<readable, eda_rx, wait, st, evts, is_sync_got, missed, late, crossed>>
    BY DEF RecvStarved, InCall, queueVars, taskVars
<1>2. /\ op'[Receiver].kind = "none" /\ op'[Receiver].to = Nobody
      /\ \A d \in Ctxs : d # Receiver => op'[d] = op[d]
    BY <1>1, RxBasics, SetFacts, CtxFacts
<1>3. /\ Queued("SYNC")' = Queued("SYNC") /\ Queued("CANCEL")' = Queued("CANCEL")
      /\ \A x \in Ctxs : /\ Carries(x, "SYNC")' <=> Carries(x, "SYNC")
                         /\ Carries(x, "CANCEL")' <=> Carries(x, "CANCEL")
    BY <1>1, <1>2, RxBasics DEF Queued, Carries
<1>4. ReadInv'
  <2>1. Unread => Unread'
    BY <1>1, <1>2 DEF Unread, Telling
  <2> QED BY <1>1, <1>2, <2>1 DEF ReadInv, RecvInv, Pends
<1>5. ReceiverIsReachable' /\ CarryInv' /\ WaitShape'
    BY <1>1, <1>2, RxBasics DEF ReceiverIsReachable, CarryInv, WaitShape, RecvInv
<1>6. ASSUME ~late /\ ~crossed PROVE (OneSync /\ Synced /\ OneCancel /\ Registered)'
  <2>0. OneSync /\ Synced /\ OneCancel /\ Registered
    BY <1>6 DEF RecvInv
  <2>1. /\ ~is_sync_got[Receiver] /\ ~Queued("CANCEL") /\ eda_rx = Nobody
        /\ \A x \in Ctxs : ~Carries(x, "CANCEL")
    BY <1>1, <2>0 DEF Synced, OneCancel, Cancelled, Registered
  <2>2. OneSync'
    BY <1>1, <1>3, <2>0 DEF OneSync
  <2>3. Synced' /\ OneCancel'
    BY <1>1, <1>3, <2>0, <2>1 DEF Synced, OneCancel
  <2>4. Registered'
    BY <1>1, <1>2, <2>1, RxBasics DEF Registered, Pends
  <2> QED BY <2>2, <2>3, <2>4
<1> QED BY <1>1, <1>4, <1>5, <1>6 DEF RecvInv

LEMMA CancelReadKeeps ==
    ASSUME TypeOK, RecvInv, CancelRxRead, IdleIsQuiet' PROVE RecvInv'
<1>1. /\ UNCHANGED <<readable, eda_rx, wait, st, evts, is_sync_got, missed, starved,
                     late, crossed>>
      /\ op[Canceller].kind = "cancel_rx"
    BY DEF CancelRxRead, InCall, queueVars, taskVars, histVars, raceVars
<1>2. PICK k \in {"none", "cancel_clear"}, t \in {Nobody, Receiver} :
         /\ op'[Canceller].kind = k /\ op'[Canceller].to = t
         /\ k = "cancel_clear" => t = Receiver
         /\ \A d \in Ctxs : d # Canceller => op'[d] = op[d]
    BY RxBasics, SetFacts, CtxFacts DEF CancelRxRead
<1>3. CASE k = "none"
  <2>1. st'[Receiver] = "idle" => wait[Receiver] = "recv"
    BY <1>1 DEF RecvInv, WaitShape
  <2> QED BY <1>1, <1>2, <1>3, <2>1, RxBasics, SameEvts, Elsewhere DEF Carries, Pends
<1>4. CASE k = "cancel_clear"
  <2>1. /\ Queued("SYNC")' = Queued("SYNC") /\ Queued("CANCEL")' = Queued("CANCEL")
        /\ \A x \in Ctxs : /\ Carries(x, "SYNC")' <=> Carries(x, "SYNC")
                           /\ Carries(x, "CANCEL")' <=> Carries(x, "CANCEL")
    BY <1>1, <1>2, <1>4 DEF Queued, Carries
  <2>2. op'[Receiver] = op[Receiver]
    BY <1>2, RxBasics
  <2>3. ReadInv'
    <3>1. Unread => Unread'
        BY <1>1, <1>2 DEF Unread, Telling
    <3> QED BY <1>1, <2>2, <3>1 DEF ReadInv, RecvInv
  <2>4. ReceiverIsReachable'
    <3>1. OnTheWay(Receiver, {"SYNC", "CANCEL"}) => OnTheWay(Receiver, {"SYNC", "CANCEL"})'
        BY <2>1 DEF OnTheWay, Carries, Queued
    <3> QED BY <1>1, <2>2, <3>1 DEF ReceiverIsReachable, RecvInv
  <2>5. CarryInv' /\ WaitShape'
    BY <1>1, <1>2, <1>4 DEF CarryInv, WaitShape, RecvInv
  <2>6. ASSUME ~late /\ ~crossed PROVE (OneSync /\ Synced /\ OneCancel /\ Registered)'
    <3>0. OneSync /\ Synced /\ OneCancel /\ Registered
        BY <2>6 DEF RecvInv
    <3>1. OneSync'
        BY <1>1, <2>1, <3>0 DEF OneSync
    <3>2. Synced'
        BY <1>1, <2>1, <2>2, <3>0 DEF Synced
    <3>3. OneCancel'
        BY <1>1, <2>1, <2>2, <3>0 DEF OneCancel, Cancelled
    <3>4. Registered'
        BY <1>1, <2>2, <3>0 DEF Registered
    <3> QED BY <3>1, <3>2, <3>3, <3>4
  <2> QED BY <1>1, <2>3, <2>4, <2>5, <2>6 DEF RecvInv
<1> QED BY <1>2, <1>3, <1>4

LEMMA CancelClearKeeps ==
    ASSUME TypeOK, RecvInv, CancelRxClear, IdleIsQuiet' PROVE RecvInv'
<1>1. /\ UNCHANGED <<readable, wait, st, evts, is_sync_got, missed, starved, late>>
      /\ op[Canceller].kind = "cancel_clear" /\ eda_rx' = Nobody
      /\ SetOp(Canceller, "CANCEL", op[Canceller].to)
      /\ crossed' <=> crossed \/ eda_rx = Nobody \/ op[Receiver].kind = "clear_rx"
    BY DEF CancelRxClear, InCall, queueVars, taskVars
<1>2. /\ op'[Canceller].kind = "CANCEL" /\ op'[Canceller].to = Receiver
      /\ \A d \in Ctxs : d # Canceller => op'[d] = op[d]
      /\ op'[Receiver] = op[Receiver]
    BY <1>1, RxBasics, SetFacts DEF RecvInv, CarryInv
<1>3. /\ Queued("SYNC")' = Queued("SYNC") /\ Queued("CANCEL")' = Queued("CANCEL")
      /\ \A x \in Ctxs : /\ Carries(x, "SYNC")' <=> Carries(x, "SYNC")
                         /\ Carries(x, "CANCEL")' <=> Carries(x, "CANCEL") \/ x = Canceller
    BY <1>1, <1>2 DEF Queued, Carries
<1>4. ReadInv'
  <2>1. Unread => Unread'
    BY <1>1, <1>2 DEF Unread, Telling
  <2> QED BY <1>1, <1>2, <2>1 DEF ReadInv, RecvInv
<1>5. ReceiverIsReachable'
    BY <1>2, RxBasics DEF ReceiverIsReachable, OnTheWay
<1>6. CarryInv' /\ WaitShape'
    BY <1>1, <1>2 DEF CarryInv, WaitShape, RecvInv
<1>7. ASSUME ~late' /\ ~crossed' PROVE (OneSync /\ Synced /\ OneCancel /\ Registered)'
  <2>0. OneSync /\ Synced /\ OneCancel /\ Registered
    BY <1>1, <1>7 DEF RecvInv
  <2>1. /\ eda_rx = Receiver /\ wait[Receiver] = "recv" /\ op[Receiver].kind = "none"
    BY <1>1, <1>7, <2>0, RxBasics DEF Registered
  <2>2. ~is_sync_got[Receiver] /\ ~Queued("CANCEL")
    BY <2>0, <2>1, RxBasics DEF Synced, OneCancel, Cancelled
  <2>3. OneSync'
    BY <1>1, <1>3, <2>0 DEF OneSync
  <2>4. Synced'
    BY <1>1, <2>2 DEF Synced
  <2>5. OneCancel'
    BY <1>1, <1>2, <1>3, <2>0, <2>1, <2>2 DEF OneCancel, Cancelled
  <2>6. Registered'
    BY <1>1, <1>2, <2>1, RxBasics DEF Registered, Pends
  <2> QED BY <2>3, <2>4, <2>5, <2>6
<1> QED BY <1>1, <1>4, <1>5, <1>6, <1>7 DEF RecvInv

\* The steps of the other tasks' waits, and those of the receiver's that its
\* registration and its wake-ups do not see.
LEMMA OtherKeeps ==
    ASSUME TypeOK, RecvInv, IdleIsQuiet', NEW t \in Tasks,
           \/ HandlerReturn(t) \/ ReasonPending(t)
           \/ t # Receiver /\ ReasonCancel(t)
           \/ SendPend \/ SendTimeout
    PROVE  RecvInv'
<1>0. Sender \in Ctxs /\ Sender \in Tasks /\ t \in Ctxs
    BY CtxFacts
<1>1. /\ UNCHANGED <<readable, eda_rx, missed, starved, late, crossed>>
      /\ \/ op' = op
         \/ SendPend /\ EndOp(Sender) /\ op[Sender].kind \in Pends
    BY DEF HandlerReturn, ReasonPending, ReasonCancel, SendPend, SendTimeout, Wait,
           InCall, PendKind, Pends, queueVars, histVars, raceVars
<1>2. wait'[Receiver] = wait[Receiver] /\ is_sync_got'[Receiver] = is_sync_got[Receiver]
  <2>1. \/ wait' = wait
        \/ \E x \in Tasks \ {Receiver} : \E y : wait' = [wait EXCEPT ![x] = y]
    BY <1>0, RxBasics
       DEF HandlerReturn, ReasonPending, ReasonCancel, SendPend, SendTimeout, Wait
  <2>2. \/ is_sync_got' = is_sync_got
        \/ \E x \in Tasks \ {Receiver} : \E y : is_sync_got' = [is_sync_got EXCEPT ![x] = y]
    BY RxBasics
       DEF HandlerReturn, ReasonPending, ReasonCancel, SendPend, SendTimeout, Wait,
           Woken
  <2> QED BY <2>1, <2>2, RxBasics
<1>3. EvtsKept /\ (st'[Receiver] = "idle" => wait[Receiver] = "recv")
  <2>1. CASE HandlerReturn(t) \/ SendPend
    <3>1. /\ UNCHANGED evts
          /\ \/ st' = st
             \/ wait[t] # "no" /\ st' = [st EXCEPT ![t] = "idle"]
      <4>1. CASE HandlerReturn(t)
        BY <4>1 DEF HandlerReturn
      <4>2. CASE SendPend
        BY <4>2 DEF SendPend, Wait
      <4> QED BY <2>1, <4>1, <4>2
    <3>2. st'[Receiver] = "idle" => wait[Receiver] = "recv"
        BY <3>1, RxBasics DEF RecvInv, WaitShape, TypeOK
    <3> QED BY <3>1, <3>2, SameEvts
  <2>2. CASE ReasonPending(t)
    <3>1. Take(t, "TIMER")
        BY <2>2 DEF ReasonPending
    <3>2. CASE t = Receiver
      <4>1. /\ evts'[Receiver] = Tail(evts[Receiver]) /\ evts[Receiver] # <<>>
            /\ ToSet(evts[Receiver]) = ToSet(evts'[Receiver]) \cup {"TIMER"}
            /\ st'[Receiver] = "run"
        BY <3>1, <3>2, TakeFacts
      <4>2. EvtsKept
        BY <4>1, RxBasics, OnceFacts DEF EvtsKept
      <4> QED BY <4>1, <4>2
    <3>3. CASE t # Receiver
        BY <3>1, <3>3, TakeFacts, SameEvts, RxBasics DEF RecvInv, WaitShape
    <3> QED BY <3>2, <3>3
  <2>3. CASE (t # Receiver /\ ReasonCancel(t)) \/ SendTimeout
    <3>1. PICK x \in Tasks \ {Receiver} : \E e : Take(x, e)
        BY <2>3, RxBasics, <1>0 DEF ReasonCancel, SendTimeout, Woken
    <3>2. PICK e : Take(x, e)
        BY <3>1
    <3> QED BY <3>2, TakeFacts, SameEvts, RxBasics DEF RecvInv, WaitShape
  <2> QED BY <2>1, <2>2, <2>3
<1>4. CASE op' = op
    BY <1>0, <1>1, <1>2, <1>3, <1>4, Elsewhere
<1>5. CASE op' # op
  <2>1. /\ op'[Sender].kind = "none" /\ op'[Sender].to = Nobody
        /\ \A d \in Ctxs : d # Sender => op'[d] = op[d]
        /\ op[Sender].kind \in Pends
    BY <1>0, <1>1, <1>5, SetFacts, CtxFacts
  <2> QED BY <1>0, <1>1, <1>2, <1>3, <2>1, RxBasics, Elsewhere DEF Carries, Pends
<1> QED BY <1>4, <1>5

LEMMA RecvNext == TypeOK /\ RecvInv /\ [Next]_vars => RecvInv'
<1> SUFFICES ASSUME TypeOK, RecvInv, [Next]_vars PROVE RecvInv'
    OBVIOUS
<1>0. IdleIsQuiet'
    BY QuietNext DEF RecvInv
<1>1. CASE Use
    BY <1>0, <1>1, RecvUse, RecvEmptyKeeps
<1>2. CASE Isr
    BY <1>0, <1>2, RecvIsr
<1>3. ASSUME NEW c \in Ctxs, Step(c) PROVE RecvInv'
    BY <1>0, <1>3, RecvStep
<1>4. ASSUME NEW t \in Tasks, TaskStep(t), ~Step(t) PROVE RecvInv'
  <2>1. CASE HandlerReturn(t) \/ ReasonPending(t) \/ ReasonCancel(t) \/ SendPend
                \/ SendTimeout
    BY <1>0, <2>1, OtherKeeps, ReasonCancelKeeps
  <2>2. CASE RecvPend \/ RecvTimeout \/ RecvTimeoutClear
    BY <1>0, <2>2, PendKeeps, TimeoutKeeps, TimeoutClearKeeps
  <2>3. CASE RecvWoken \/ RecvAgain \/ RecvStarved
    BY <1>0, <2>3, WokenKeeps, AgainKeeps, StarvedKeeps
  <2>4. CASE CancelRxRead \/ CancelRxClear
    BY <1>0, <2>4, CancelReadKeeps, CancelClearKeeps
  <2> QED BY <1>4, <2>1, <2>2, <2>3, <2>4 DEF TaskStep
<1>5. CASE KernelSendNotify \/ KernelRecvNotify \/ \E x \in Tasks : KernelTimer(x)
    BY <1>0, <1>5, RecvKernel
<1>6. CASE UNCHANGED vars
  <2>1. UNCHANGED <<readable, eda_rx, wait, st, evts, is_sync_got, op, missed,
                    starved, late, crossed>>
    BY <1>6 DEF vars
  <2>2. st'[Receiver] = "idle" => wait[Receiver] = "recv"
    BY <2>1 DEF RecvInv, WaitShape
  <2> QED BY <1>0, <2>1, <2>2, SameEvts, RxBasics, Elsewhere
<1>7. Tasks \subseteq Ctxs /\ Kernel \in Ctxs
    BY CtxFacts
<1> QED BY <1>1, <1>2, <1>3, <1>4, <1>5, <1>6, <1>7 DEF Next, KernelStep

LEMMA RecvInit == Init => RecvInv
<1> SUFFICES ASSUME Init PROVE RecvInv
    OBVIOUS
<1>1. \A c \in Ctxs : op[c] = NoOp /\ op[c].kind = "none"
    BY CtxFacts DEF Init
<1>2. /\ eda_rx = Nobody /\ wait[Receiver] = "no" /\ \A t \in Tasks : st[t] = "run"
      /\ evts[Receiver] = <<>> /\ ~is_sync_got[Receiver]
      /\ Receiver \in Ctxs /\ Nobody # Receiver /\ Receiver \in Tasks
    BY CtxFacts, CtxAssumption DEF Init
<1>3. /\ ToSet(evts[Receiver]) = {} /\ Once(evts[Receiver], "SYNC")
      /\ Once(evts[Receiver], "CANCEL")
    BY <1>2 DEF ToSet, Once
<1>4. IdleIsQuiet /\ ReadInv /\ ReceiverIsReachable /\ CarryInv /\ WaitShape
    BY <1>1, <1>2 DEF IdleIsQuiet, ReadInv, ReceiverIsReachable, CarryInv, WaitShape,
                      Pends
<1>5. OneSync /\ Synced /\ OneCancel /\ Registered
    BY <1>1, <1>2, <1>3 DEF OneSync, Synced, OneCancel, Registered, Carries, Queued,
                            Pends
<1> QED BY <1>4, <1>5 DEF RecvInv

\* For every capacity, every assignment of priorities and whatever the tasks,
\* the interrupts and the cancels do: no notification of the receiver is lost.
\* A registered receiver has nothing to read or somebody is about to notify it,
\* except when the notification came between the two sections of its own
\* vsf_eda_queue_recv; and a receiver that waits is registered or its wake-up is
\* on its way, except when another one took the node it had been woken for.
THEOREM ReceiverWoken == Spec => []ReceiverIsWoken
<1>1. Init => TypeOK /\ RecvInv
    BY SoundInit, RecvInit DEF QueueIsSound
<1>2. TypeOK /\ RecvInv => ReceiverIsWoken
    BY DEF ReceiverIsWoken, RecvPendsWhileEmpty, RecvInv, ReadInv, Unread
<1>3. QueueIsSound => TypeOK
    BY DEF QueueIsSound
<1> QED BY <1>1, <1>2, <1>3, SoundInit, SoundNext, RecvNext, PTL DEF Spec

\* For every capacity, every assignment of priorities and cancels at any time:
\* until a notification comes after the timeout is decided and before the
\* registration is cleared, or a cancel crosses another end of the wait, a wait
\* of the receiver ends once. is_sync_got is set exactly while the one SYNC is
\* on its way, and the assertion NULL == pthis->eda_rx holds whenever the
\* receiver registers again.
THEOREM WaitOnce == Spec => []WaitEndsOnce
<1>1. Init => RecvInv
    BY RecvInit
<1>2. TypeOK /\ RecvInv => WaitEndsOnce
  <2> SUFFICES ASSUME TypeOK, RecvInv, ~late, ~crossed
               PROVE  SyncEndsOneWait /\ RxIsFree
    BY DEF WaitEndsOnce
  <2>1. OneSync /\ Synced /\ OneCancel /\ Registered
    BY DEF RecvInv
  <2>2. SyncEndsOneWait
    BY <2>1, WayFacts DEF SyncEndsOneWait, OneSync, Synced
  <2>3. RxIsFree
    BY <2>1, RxBasics DEF RxIsFree, Registered
  <2> QED BY <2>2, <2>3
<1>3. QueueIsSound => TypeOK
    BY DEF QueueIsSound
<1> QED BY <1>1, <1>2, <1>3, SoundInit, SoundNext, RecvNext, PTL DEF Spec

------------------------------------------------------------------------------
(***************************************************************************)
(* The pipe of the linux shell                                             *)
(***************************************************************************)

\* k bytes are in the buffer nodes s: rest[i] of them from node i on.
IsSumOf(s, k, rest) ==
    /\ rest \in [1 .. Len(s) + 1 -> Nat]
    /\ rest[1] = k /\ rest[Len(s) + 1] = 0
    /\ \A i \in 1 .. Len(s) : rest[i] = s[i] + rest[i + 1]

HoldsBytes(s, k) == \E rest : IsSumOf(s, k, rest)

LEMMA NoBytes == HoldsBytes(<<>>, 0)
<1>1. IsSumOf(<<>>, 0, [i \in 1 .. 1 |-> 0])
    BY DEF IsSumOf
<1> QED BY <1>1 DEF HoldsBytes

LEMMA EmptyHoldsNothing ==
    ASSUME NEW k, HoldsBytes(<<>>, k)
    PROVE  k = 0
BY DEF HoldsBytes, IsSumOf

\* The first node holds some of the bytes, the others the rest.
LEMMA FirstNode ==
    ASSUME NEW M \in Nat, NEW s \in Seq(1 .. M), NEW k, HoldsBytes(s, k), s # <<>>
    PROVE  /\ k \in Nat /\ Head(s) \in 1 .. M /\ Head(s) <= k
           /\ Tail(s) \in Seq(1 .. M) /\ HoldsBytes(Tail(s), k - Head(s))
<1>1. /\ Head(s) = s[1] /\ Head(s) \in 1 .. M /\ Tail(s) \in Seq(1 .. M)
      /\ Len(s) \in Nat /\ Len(s) > 0 /\ Len(Tail(s)) = Len(s) - 1
      /\ \A i \in 1 .. Len(s) - 1 : Tail(s)[i] = s[i + 1]
    OBVIOUS
<1>2. PICK rest : IsSumOf(s, k, rest)
    BY DEF HoldsBytes
<1> DEFINE less == [i \in 1 .. Len(s) |-> rest[i + 1]]
<1>3. /\ k \in Nat /\ rest[2] \in Nat /\ k = Head(s) + rest[2]
  <2>1. 1 \in 1 .. Len(s) /\ 2 \in 1 .. Len(s) + 1 /\ 1 \in 1 .. Len(s) + 1
    BY <1>1
  <2>2. rest[1] = s[1] + rest[1 + 1]
    BY <1>2, <2>1 DEF IsSumOf
  <2>3. rest[1] = k /\ rest[1] \in Nat /\ rest[2] \in Nat
    BY <1>2, <2>1 DEF IsSumOf
  <2> QED BY <1>1, <2>2, <2>3
<1>4. less \in [1 .. Len(Tail(s)) + 1 -> Nat]
    BY <1>1, <1>2 DEF IsSumOf
<1>5. less[1] = k - Head(s) /\ less[Len(Tail(s)) + 1] = 0
  <2>1. less[1] = rest[2] /\ less[Len(s)] = rest[Len(s) + 1]
    BY <1>1
  <2> QED BY <1>1, <1>2, <1>3, <2>1 DEF IsSumOf
<1>6. ASSUME NEW i \in 1 .. Len(Tail(s)) PROVE less[i] = Tail(s)[i] + less[i + 1]
  <2>1. /\ i \in 1 .. Len(s) /\ i + 1 \in 1 .. Len(s) /\ Tail(s)[i] = s[i + 1]
        /\ less[i] = rest[i + 1] /\ less[i + 1] = rest[(i + 1) + 1]
    BY <1>1
  <2>2. rest[i + 1] = s[i + 1] + rest[(i + 1) + 1]
    BY <1>2, <2>1 DEF IsSumOf
  <2> QED BY <2>1, <2>2
<1>7. IsSumOf(Tail(s), k - Head(s), less)
    BY <1>4, <1>5, <1>6 DEF IsSumOf
<1>8. HoldsBytes(Tail(s), k - Head(s))
    BY <1>7 DEF HoldsBytes
<1>9. Head(s) <= k
    BY <1>1, <1>3
<1> QED BY <1>1, <1>3, <1>8, <1>9

LEMMA SomeBytes ==
    ASSUME NEW M \in Nat, NEW s \in Seq(1 .. M), NEW k, HoldsBytes(s, k), s # <<>>
    PROVE  k # 0
BY FirstNode

\* A node with n bytes before the others.
LEMMA NodeBefore ==
    ASSUME NEW M \in Nat, NEW s \in Seq(1 .. M), NEW k \in Nat, HoldsBytes(s, k),
           NEW n \in 1 .. M
    PROVE  /\ <<n>> \o s \in Seq(1 .. M) /\ <<n>> \o s # <<>>
           /\ HoldsBytes(<<n>> \o s, n + k)
<1> DEFINE t == <<n>> \o s
<1>1. /\ t \in Seq(1 .. M) /\ Len(t) = Len(s) + 1 /\ t[1] = n /\ Len(s) \in Nat
      /\ \A i \in 2 .. Len(s) + 1 : t[i] = s[i - 1]
    OBVIOUS
<1>2. PICK rest : IsSumOf(s, k, rest)
    BY DEF HoldsBytes
<1> DEFINE more == [i \in 1 .. Len(s) + 2 |-> IF i = 1 THEN n + k ELSE rest[i - 1]]
<1>3. more \in [1 .. Len(t) + 1 -> Nat]
  <2>1. ASSUME NEW i \in 1 .. Len(s) + 2 PROVE more[i] \in Nat
    <3>1. i # 1 => i - 1 \in 1 .. Len(s) + 1
        BY <1>1
    <3>2. i # 1 => rest[i - 1] \in Nat
        BY <1>2, <3>1 DEF IsSumOf
    <3>3. more[i] = IF i = 1 THEN n + k ELSE rest[i - 1]
        OBVIOUS
    <3> QED BY <3>2, <3>3
  <2> QED BY <1>1, <2>1
<1>4. more[1] = n + k /\ more[2] = k /\ more[Len(t) + 1] = 0
    BY <1>1, <1>2 DEF IsSumOf
<1>5. ASSUME NEW i \in 1 .. Len(t) PROVE more[i] = t[i] + more[i + 1]
  <2>1. CASE i = 1
    BY <1>1, <1>4, <2>1
  <2>2. CASE i # 1
    <3>0. /\ i - 1 \in 1 .. Len(s) /\ i \in 2 .. Len(s) + 1 /\ (i - 1) + 1 = i
          /\ i \in 1 .. Len(s) + 2 /\ i + 1 \in 1 .. Len(s) + 2 /\ i + 1 # 1
          /\ (i + 1) - 1 = i
        BY <1>1, <2>2
    <3>1. more[i] = rest[i - 1] /\ more[i + 1] = rest[(i - 1) + 1]
        BY <2>2, <3>0
    <3>2. rest[i - 1] = s[i - 1] + rest[(i - 1) + 1]
        BY <1>2, <3>0 DEF IsSumOf
    <3>3. t[i] = s[i - 1]
        BY <1>1, <3>0
    <3> QED BY <3>1, <3>2, <3>3
  <2> QED BY <2>1, <2>2
<1>6. IsSumOf(t, n + k, more)
    BY <1>3, <1>4, <1>5 DEF IsSumOf
<1>7. HoldsBytes(t, n + k)
    BY <1>6 DEF HoldsBytes
<1>8. t # <<>>
  <2>1. Len(t) # 0
    BY <1>1
  <2> QED BY <2>1
<1> QED BY <1>1, <1>7, <1>8

\* A node with n bytes after the others.
LEMMA NodeAfter ==
    ASSUME NEW M \in Nat, NEW s \in Seq(1 .. M), NEW k \in Nat, HoldsBytes(s, k),
           NEW n \in 1 .. M
    PROVE  /\ Append(s, n) \in Seq(1 .. M) /\ Append(s, n) # <<>>
           /\ HoldsBytes(Append(s, n), k + n)
<1> DEFINE t == Append(s, n)
<1>1. /\ t \in Seq(1 .. M) /\ Len(t) = Len(s) + 1 /\ t[Len(s) + 1] = n /\ Len(s) \in Nat
      /\ \A i \in 1 .. Len(s) : t[i] = s[i]
    OBVIOUS
<1>2. PICK rest : IsSumOf(s, k, rest)
    BY DEF HoldsBytes
<1> DEFINE more == [i \in 1 .. Len(s) + 2 |-> IF i = Len(s) + 2 THEN 0 ELSE rest[i] + n]
<1>3. more \in [1 .. Len(t) + 1 -> Nat]
  <2>1. ASSUME NEW i \in 1 .. Len(s) + 2 PROVE more[i] \in Nat
    <3>1. i # Len(s) + 2 => i \in 1 .. Len(s) + 1
        BY <1>1
    <3> QED BY <1>1, <1>2, <3>1 DEF IsSumOf
  <2> QED BY <1>1, <2>1
<1>4. more[1] = k + n /\ more[Len(t) + 1] = 0 /\ more[Len(s) + 1] = n
  <2>1. Len(s) + 2 # 1 /\ Len(s) + 1 # Len(s) + 2 /\ Len(t) + 1 = Len(s) + 2
        /\ 1 \in 1 .. Len(s) + 2 /\ Len(s) + 1 \in 1 .. Len(s) + 2
    BY <1>1
  <2>2. more[1] = rest[1] + n /\ more[Len(s) + 1] = rest[Len(s) + 1] + n
    BY <1>1, <2>1
  <2> QED BY <1>1, <1>2, <2>1, <2>2 DEF IsSumOf
<1>5. ASSUME NEW i \in 1 .. Len(t) PROVE more[i] = t[i] + more[i + 1]
  <2>1. CASE i = Len(s) + 1
    BY <1>1, <1>4, <2>1
  <2>2. CASE i # Len(s) + 1
    <3>1. i \in 1 .. Len(s) /\ t[i] = s[i] /\ s[i] \in Nat
        BY <1>1, <2>2
    <3>2. /\ i + 1 \in 1 .. Len(s) + 1 /\ i # Len(s) + 2 /\ i + 1 # Len(s) + 2
          /\ i \in 1 .. Len(s) + 2 /\ i + 1 \in 1 .. Len(s) + 2
        BY <1>1, <3>1
    <3>3. more[i] = rest[i] + n /\ more[i + 1] = rest[i + 1] + n
        BY <3>2
    <3>4. rest[i] = s[i] + rest[i + 1] /\ rest[i + 1] \in Nat
        BY <1>2, <3>1, <3>2 DEF IsSumOf
    <3>5. \A a, b, c \in Nat : (a + b) + c = a + (b + c)
        OBVIOUS
    <3>6. (s[i] + rest[i + 1]) + n = s[i] + (rest[i + 1] + n)
        BY <3>1, <3>4, <3>5
    <3>7. t[i] + more[i + 1] = s[i] + (rest[i + 1] + n)
        BY <3>1, <3>3
    <3> QED BY <3>3, <3>4, <3>6, <3>7
  <2> QED BY <2>1, <2>2
<1>6. IsSumOf(t, k + n, more)
    BY <1>3, <1>4, <1>5 DEF IsSumOf
<1>7. HoldsBytes(t, k + n)
    BY <1>6 DEF HoldsBytes
<1>8. t # <<>>
  <2>1. Len(t) # 0
    BY <1>1
  <2> QED BY <2>1
<1> QED BY <1>1, <1>7, <1>8

\* The smaller of two numbers.
LEMMA MinOfTwo ==
    ASSUME NEW a \in Nat, NEW b \in Nat
    PROVE  Min({a, b}) = IF a <= b THEN a ELSE b
<1>1. \E x \in {a, b} : \A y \in {a, b} : x <= y
    OBVIOUS
<1>2. Min({a, b}) \in {a, b} /\ \A y \in {a, b} : Min({a, b}) <= y
    BY <1>1 DEF Min
<1> QED BY <1>2
------------------------------------------------------------------------------
(* The inductive invariant *)

FdType == [status : BOOLEAN, events : BOOLEAN, sticky : BOOLEAN, armed : BOOLEAN]
AllPcs == PcOf["tx"] \cup PcOf["rx"]

\* The nodes hold what size says.
BytesInv ==
    /\ pc \in [Ends -> AllPcs]
    /\ HoldsBytes(nodes, size)

\* A thread that executes: of equal ones, only the one that runs does.
Busy(e) == pc[e] \notin {"idle", "closed", "pend", "pollpend"}

BusyInv == high = "none" => \A e \in Ends : Busy(e) => active = e

\* From the notification of the other end to the end of a call.
Moving == Notifying \cup {"after"}

\* Where a close is, and that a close and calls of the other end do not mix.
CloseInv ==
    /\ \A e \in Ends : term[e].ready <=> pc[e] # "closed"
    /\ \A e \in Ends : pc[e] \in Closing \cup {"closed"} => closing[e]
    /\ \A e \in Ends : closing[e] => high = "none"
    /\ closing["tx"] => pc["tx"] \in Closing \cup {"closed"}
    /\ closing["rx"] => pc["rx"] \in {"node"} \cup Notifying \cup Closing \cup {"closed"}
    /\ \A e \in Ends : pc[e] \in {"set", "call"} => pc[Other(e)] # "closed"

\* What a call has moved, and what it therefore knows about the pipe while the
\* other thread cannot come in.
WriteCallInv ==
    /\ pc["tx"] \in {"check", "pend", "avail", "enqueue"} \cup Moving => todo["tx"] > 0
    /\ pc["tx"] = "enqueue" => done["tx"] = 0 /\ avail + size <= MaxBufferSize
    /\ pc["tx"] \in Moving => done["tx"] <= todo["tx"]
    /\ high = "tx" /\ pc["tx"] \in Moving /\ done["tx"] > 0 => nodes # <<>>

ReadCallInv ==
    /\ pc["rx"] \in {"check", "pend"} => todo["rx"] > 0 /\ done["rx"] = 0
    /\ pc["rx"] \in {"node"} \cup Moving /\ ~closing["rx"] => todo["rx"] > 0 \/ done["rx"] > 0
    /\ high = "rx" /\ pc["rx"] = "node" /\ done["rx"] > 0 => size < MaxBufferSize
    /\ high = "rx" /\ pc["rx"] \in Moving => size < MaxBufferSize
    /\ pc["rx"] \in Moving /\ done["rx"] = 0 /\ ~closing["rx"] => nodes = <<>> /\ high # "tx"

\* The bits of the writing end: a writer waits only while POLLOUT is not set,
\* and POLLOUT stays set from its check to the end of its round.
WriterBits ==
    /\ ~fd["tx"].sticky
    /\ fd["tx"].events => fd["tx"].status
    /\ fd["tx"].armed => pc["tx"] = "pend" /\ ~fd["tx"].status
    /\ pc["tx"] = "pend" => fd["tx"].armed \/ fd["tx"].status
    /\ pc["tx"] \in {"avail", "enqueue"} \cup Moving => fd["tx"].status

\* The writer was told of the space there is, or is about to be told.
WriterTold ==
    /\ term["tx"].notified => fd["tx"].status \/ pc["rx"] = "call"
    /\ pc["tx"] \in {"test", "set", "call", "after"} /\ term["tx"].notified
         => size < MaxBufferSize
    /\ size < MaxBufferSize /\ pc["tx"] # "closed"
         => fd["tx"].status \/ pc["rx"] \in {"node"} \cup Notifying

\* The bits of the reading end.
ReaderBits ==
    /\ fd["rx"].sticky => high = "none"
    /\ fd["rx"].armed => pc["rx"] \in {"pend", "pollpend"}
    /\ fd["rx"].armed /\ fd["rx"].status
         => pc["rx"] = "pollpend" /\ nodes = <<>> /\ pc["tx"] = "closed"
    /\ pc["rx"] \in {"pend", "pollpend"} => fd["rx"].armed \/ fd["rx"].status
    /\ pc["rx"] \in {"idle", "poll"} /\ fd["rx"].status
         => fd["rx"].events \/ (nodes = <<>> /\ pc["tx"] = "closed")
    /\ pc["tx"] \in {"leave", "closed"} => ~(pc["rx"] = "pend" /\ fd["rx"].armed)
    /\ high = "tx" => ~fd["rx"].events \/ fd["rx"].status

\* A writer above the reader whose allocation has failed tries again before
\* the reader runs.
Retrying ==
    /\ pc["tx"] \in {"check", "avail", "enqueue"} \cup Moving
    /\ fd["tx"].status

\* The reader was told of the data there is, or is about to be told.
ReaderTold ==
    /\ term["rx"].notified => fd["rx"].status \/ pc["tx"] = "call"
    /\ pc["rx"] \in {"test", "set", "call", "after"} /\ term["rx"].notified
         => high = "tx" /\ (nodes # <<>> \/ Retrying)
    /\ nodes # <<>> /\ pc["rx"] # "closed" => fd["rx"].status \/ pc["tx"] \in Notifying
    /\ high = "tx" /\ nodes = <<>> /\ (fd["rx"].status \/ pc["rx"] \in {"node"} \cup Moving)
         => Retrying \/ (pc["rx"] \in {"node"} \cup Moving /\ done["rx"] > 0)

PipeInv ==
    /\ PipeTypeOK /\ BytesInv /\ BusyInv /\ CloseInv
    /\ WriteCallInv /\ ReadCallInv
    /\ WriterBits /\ WriterTold /\ ReaderBits /\ ReaderTold

------------------------------------------------------------------------------
(* What the actions are built from *)

LEMMA PipeEnds ==
    /\ Ends = {"tx", "rx"} /\ "tx" \in Ends /\ "rx" \in Ends
    /\ Other("tx") = "rx" /\ Other("rx") = "tx"
BY DEF Ends, Other

\* The writer takes a step only while the reader is not inside a call, or was
\* interrupted by a writer of higher priority; and the other way round.
LEMMA WriterGoes ==
    ASSUME PipeInv, NEW p, At("tx", p)
    PROVE  /\ pc["tx"] = p /\ active' = "tx"
           /\ high = "tx" \/ ~Busy("rx")
           /\ high = "rx" => ~Running("rx")
<1>1. pc["tx"] = p /\ active' = "tx" /\ MayGo("tx")
    BY DEF At
<1>2. high = "rx" => ~Running("rx")
    BY <1>1, PipeEnds DEF MayGo
<1>3. Busy("rx") => Running("rx")
    BY DEF Busy, Running
<1>4. high = "none" => ~Busy("rx")
    BY <1>1, <1>3, PipeEnds DEF MayGo, PipeInv, BusyInv
<1>5. high \in {"tx", "rx", "none"}
    BY PipeAssumption DEF PipeInv, PipeTypeOK
<1> QED BY <1>1, <1>2, <1>3, <1>4, <1>5

LEMMA ReaderGoes ==
    ASSUME PipeInv, NEW p, At("rx", p)
    PROVE  /\ pc["rx"] = p /\ active' = "rx"
           /\ high = "rx" \/ ~Busy("tx")
           /\ high = "tx" => ~Running("tx")
<1>1. pc["rx"] = p /\ active' = "rx" /\ MayGo("rx")
    BY DEF At
<1>2. high = "tx" => ~Running("tx")
    BY <1>1, PipeEnds DEF MayGo
<1>3. Busy("tx") => Running("tx")
    BY DEF Busy, Running
<1>4. high = "none" => ~Busy("tx")
    BY <1>1, <1>3, PipeEnds DEF MayGo, PipeInv, BusyInv
<1>5. high \in {"tx", "rx", "none"}
    BY PipeAssumption DEF PipeInv, PipeTypeOK
<1> QED BY <1>1, <1>2, <1>3, <1>4, <1>5

LEMMA GotoFacts ==
    ASSUME PipeInv, NEW p
    PROVE  /\ Goto("tx", p) /\ p \in AllPcs =>
                /\ pc' \in [Ends -> AllPcs] /\ pc'["tx"] = p /\ pc'["rx"] = pc["rx"]
           /\ Goto("rx", p) /\ p \in AllPcs =>
                /\ pc' \in [Ends -> AllPcs] /\ pc'["rx"] = p /\ pc'["tx"] = pc["tx"]
BY PipeEnds DEF Goto, PipeInv, BytesInv

\* The bits of a file descriptor.
LEMMA SetEventsFacts ==
    ASSUME NEW f \in FdType
    PROVE  /\ SetEvents(f) \in FdType
           /\ SetEvents(f).status = f.status /\ SetEvents(f).sticky = f.sticky
           /\ ~SetEvents(f).armed
           /\ SetEvents(f).events <=> (f.armed => f.sticky)
BY DEF FdType, SetEvents

LEMMA SetStatusFacts ==
    ASSUME NEW f \in FdType
    PROVE  /\ SetStatus(f) \in FdType
           /\ SetStatus(f).status /\ SetStatus(f).sticky = f.sticky
           /\ SetStatus(f).armed <=> f.armed /\ f.status
           /\ SetStatus(f).events <=>
                 \/ (f.status /\ f.events)
                 \/ (~f.status /\ (f.armed => f.sticky))
<1>1. CASE f.status
    BY <1>1 DEF FdType, SetStatus
<1>2. CASE ~f.status
  <2> DEFINE g == [f EXCEPT !.status = TRUE]
  <2>1. g \in FdType /\ g.status /\ g.sticky = f.sticky /\ g.armed = f.armed
    BY DEF FdType
  <2>2. SetStatus(f) = SetEvents(g)
    BY <1>2 DEF SetStatus
  <2> HIDE DEF g
  <2> QED BY <1>2, <2>1, <2>2, SetEventsFacts
<1> QED BY <1>1, <1>2

LEMMA ClearStatusFacts ==
    ASSUME NEW f \in FdType
    PROVE  /\ ClearStatus(f) \in FdType
           /\ ~ClearStatus(f).status /\ ClearStatus(f).sticky = f.sticky
           /\ ClearStatus(f).armed = f.armed
           /\ ClearStatus(f).events <=> f.events /\ f.sticky
BY DEF FdType, ClearStatus

LEMMA PendEventsFacts ==
    ASSUME NEW f \in FdType
    PROVE  /\ PendEvents(f) \in FdType
           /\ PendEvents(f).status = f.status /\ PendEvents(f).sticky = f.sticky
           /\ PendEvents(f).armed <=> f.armed \/ ~f.events
           /\ PendEvents(f).events <=> f.events /\ f.sticky
BY DEF FdType, PendEvents

\* One of the two descriptors changes.
LEMMA FdNext ==
    ASSUME PipeInv, NEW g \in FdType
    PROVE  /\ fd["tx"] \in FdType /\ fd["rx"] \in FdType
           /\ fd' = [fd EXCEPT !["tx"] = g] =>
                /\ fd' \in [Ends -> FdType] /\ fd'["tx"] = g /\ fd'["rx"] = fd["rx"]
           /\ fd' = [fd EXCEPT !["rx"] = g] =>
                /\ fd' \in [Ends -> FdType] /\ fd'["rx"] = g /\ fd'["tx"] = fd["tx"]
BY PipeEnds DEF PipeInv, PipeTypeOK, FdType

LEMMA NotifyClearRxKeeps ==
    ASSUME PipeInv, NotifyClear("rx")
    PROVE  PipeInv'
<1>1. /\ pc["rx"] = "clear" /\ active' = "rx"
      /\ high = "rx" \/ ~Busy("tx")
      /\ high = "tx" => ~Running("tx")
    BY ReaderGoes DEF NotifyClear
<1>2. UNCHANGED <<nodes, size, fd, todo, done, avail, closing, high, fails>>
    BY DEF NotifyClear
<1>3. /\ pc' \in [Ends -> AllPcs]
      /\ pc'["rx"] = "test" /\ pc'["tx"] = pc["tx"]
      /\ term' \in [Ends -> [ready : BOOLEAN, notified : BOOLEAN]]
      /\ term'["tx"] = term["tx"]
      /\ term'["rx"].ready = term["rx"].ready /\ ~term'["rx"].notified
  <2>1. "test" \in AllPcs
    BY DEF AllPcs, PcOf, Notifying, Closing
  <2>2. /\ pc' \in [Ends -> AllPcs]
        /\ pc'["rx"] = "test" /\ pc'["tx"] = pc["tx"]
    BY <2>1, GotoFacts DEF NotifyClear
  <2>3. term \in [Ends -> [ready : BOOLEAN, notified : BOOLEAN]]
    BY DEF PipeInv, PipeTypeOK
  <2>4. term' = [term EXCEPT !["rx"].notified = FALSE]
    BY DEF NotifyClear
  <2> QED BY PipeEnds, <2>2, <2>3, <2>4
<1>10. PipeTypeOK'
    BY <1>1, <1>2, <1>3, PipeEnds
       DEF PipeInv, PipeTypeOK, FdType, PcOf, Notifying, Closing
<1>11. BytesInv'
    BY <1>1, <1>2, <1>3, PipeEnds
       DEF PipeInv, BytesInv
<1>12. BusyInv'
    BY <1>1, <1>2, <1>3, PipeEnds
       DEF PipeInv, BusyInv, Busy
<1>13. CloseInv'
    BY <1>1, <1>2, <1>3, PipeEnds
       DEF PipeInv, CloseInv, Busy, Notifying, Closing, Moving
<1>14. WriteCallInv'
    BY <1>1, <1>2, <1>3, PipeEnds
       DEF PipeInv, WriteCallInv, Moving, Notifying, PipeTypeOK, Busy, Running
<1>15. ReadCallInv'
    BY <1>1, <1>2, <1>3, PipeEnds
       DEF PipeInv, ReadCallInv, Moving, Notifying, PipeTypeOK, Busy, CloseInv, Running
<1>16. WriterBits'
    BY <1>1, <1>2, <1>3, PipeEnds
       DEF PipeInv, WriterBits, Moving, Notifying
<1>17. WriterTold'
    BY <1>1, <1>2, <1>3, PipeEnds
       DEF PipeInv, WriterTold, PipeTypeOK, WriterBits, CloseInv, Moving, Notifying,
           Busy, ReadCallInv
<1>18. ReaderBits'
    BY <1>1, <1>2, <1>3, PipeEnds
       DEF PipeInv, ReaderBits, ReaderTold, ReadCallInv, CloseInv, Moving, Notifying,
           Busy, Running, Retrying
<1>19. ReaderTold'
    BY <1>1, <1>2, <1>3, PipeEnds
       DEF PipeInv, ReaderTold, ReaderBits, ReadCallInv, WriteCallInv, WriterBits,
           CloseInv, Moving, Notifying, Busy, Running, Retrying
<1> QED BY <1>10, <1>11, <1>12, <1>13, <1>14, <1>15, <1>16, <1>17, <1>18, <1>19 DEF PipeInv

LEMMA NotifyTestRxKeeps ==
    ASSUME PipeInv, NotifyTest("rx")
    PROVE  PipeInv'
<1>1. /\ pc["rx"] = "test" /\ active' = "rx"
      /\ high = "rx" \/ ~Busy("tx")
      /\ high = "tx" => ~Running("tx")
    BY ReaderGoes DEF NotifyTest
<1>2. UNCHANGED <<nodes, size, term, fd, todo, done, avail, closing, high, fails>>
    BY DEF NotifyTest
<1>3. /\ pc' \in [Ends -> AllPcs] /\ pc'["tx"] = pc["tx"]
      /\ term["tx"].ready /\ ~term["tx"].notified => pc'["rx"] = "set"
      /\ ~term["tx"].ready \/ term["tx"].notified =>
         pc'["rx"] = IF closing["rx"] THEN "detach" ELSE "after"
  <2>1. {"set", "detach", "after"} \subseteq AllPcs
    BY DEF AllPcs, PcOf, Notifying, Closing
  <2> QED BY <2>1, GotoFacts, PipeEnds DEF NotifyTest
<1>10. PipeTypeOK'
    BY <1>1, <1>2, <1>3, PipeEnds
       DEF PipeInv, PipeTypeOK, FdType, PcOf, Notifying, Closing
<1>11. BytesInv'
    BY <1>1, <1>2, <1>3, PipeEnds
       DEF PipeInv, BytesInv
<1>12. BusyInv'
    BY <1>1, <1>2, <1>3, PipeEnds
       DEF PipeInv, BusyInv, Busy
<1>13. CloseInv'
    BY <1>1, <1>2, <1>3, PipeEnds
       DEF PipeInv, CloseInv, Busy, Notifying, Closing, Moving
<1>14. WriteCallInv'
    BY <1>1, <1>2, <1>3, PipeEnds
       DEF PipeInv, WriteCallInv, Moving, Notifying, PipeTypeOK, Busy, Running
<1>15. ReadCallInv'
    BY <1>1, <1>2, <1>3, PipeEnds
       DEF PipeInv, ReadCallInv, Moving, Notifying, PipeTypeOK, Busy, CloseInv, Running
<1>16. WriterBits'
    BY <1>1, <1>2, <1>3, PipeEnds
       DEF PipeInv, WriterBits, Moving, Notifying
<1>17. WriterTold'
    BY <1>1, <1>2, <1>3, PipeEnds
       DEF PipeInv, WriterTold, PipeTypeOK, WriterBits, CloseInv, Moving, Notifying,
           Busy, ReadCallInv
<1>18. ReaderBits'
    BY <1>1, <1>2, <1>3, PipeEnds
       DEF PipeInv, ReaderBits, ReaderTold, ReadCallInv, CloseInv, Moving, Notifying,
           Busy, Running, Retrying
<1>19. ReaderTold'
    BY <1>1, <1>2, <1>3, PipeEnds
       DEF PipeInv, ReaderTold, ReaderBits, ReadCallInv, WriteCallInv, WriterBits,
           CloseInv, Moving, Notifying, Busy, Running, Retrying
<1> QED BY <1>10, <1>11, <1>12, <1>13, <1>14, <1>15, <1>16, <1>17, <1>18, <1>19 DEF PipeInv

LEMMA NotifySetRxKeeps ==
    ASSUME PipeInv, NotifySet("rx")
    PROVE  PipeInv'
<1>1. /\ pc["rx"] = "set" /\ active' = "rx"
      /\ high = "rx" \/ ~Busy("tx")
      /\ high = "tx" => ~Running("tx")
    BY ReaderGoes DEF NotifySet
<1>2. UNCHANGED <<nodes, size, fd, todo, done, avail, closing, high, fails>>
    BY DEF NotifySet
<1>3. /\ pc' \in [Ends -> AllPcs]
      /\ pc'["rx"] = "call" /\ pc'["tx"] = pc["tx"]
      /\ term' \in [Ends -> [ready : BOOLEAN, notified : BOOLEAN]]
      /\ term'["rx"] = term["rx"]
      /\ term'["tx"].ready = term["tx"].ready /\ term'["tx"].notified
  <2>1. "call" \in AllPcs
    BY DEF AllPcs, PcOf, Notifying, Closing
  <2>2. /\ pc' \in [Ends -> AllPcs]
        /\ pc'["rx"] = "call" /\ pc'["tx"] = pc["tx"]
    BY <2>1, GotoFacts DEF NotifySet
  <2>3. term \in [Ends -> [ready : BOOLEAN, notified : BOOLEAN]]
    BY DEF PipeInv, PipeTypeOK
  <2>4. term' = [term EXCEPT !["tx"].notified = TRUE]
    BY PipeEnds DEF NotifySet
  <2> QED BY PipeEnds, <2>2, <2>3, <2>4
<1>10. PipeTypeOK'
    BY <1>1, <1>2, <1>3, PipeEnds
       DEF PipeInv, PipeTypeOK, FdType, PcOf, Notifying, Closing
<1>11. BytesInv'
    BY <1>1, <1>2, <1>3, PipeEnds
       DEF PipeInv, BytesInv
<1>12. BusyInv'
    BY <1>1, <1>2, <1>3, PipeEnds
       DEF PipeInv, BusyInv, Busy
<1>13. CloseInv'
    BY <1>1, <1>2, <1>3, PipeEnds
       DEF PipeInv, CloseInv, Busy, Notifying, Closing, Moving
<1>14. WriteCallInv'
    BY <1>1, <1>2, <1>3, PipeEnds
       DEF PipeInv, WriteCallInv, Moving, Notifying, PipeTypeOK, Busy, Running
<1>15. ReadCallInv'
    BY <1>1, <1>2, <1>3, PipeEnds
       DEF PipeInv, ReadCallInv, Moving, Notifying, PipeTypeOK, Busy, CloseInv, Running
<1>16. WriterBits'
    BY <1>1, <1>2, <1>3, PipeEnds
       DEF PipeInv, WriterBits, Moving, Notifying
<1>17. WriterTold'
    BY <1>1, <1>2, <1>3, PipeEnds
       DEF PipeInv, WriterTold, PipeTypeOK, WriterBits, CloseInv, Moving, Notifying,
           Busy, ReadCallInv
<1>18. ReaderBits'
    BY <1>1, <1>2, <1>3, PipeEnds
       DEF PipeInv, ReaderBits, ReaderTold, ReadCallInv, CloseInv, Moving, Notifying,
           Busy, Running, Retrying
<1>19. ReaderTold'
    BY <1>1, <1>2, <1>3, PipeEnds
       DEF PipeInv, ReaderTold, ReaderBits, ReadCallInv, WriteCallInv, WriterBits,
           CloseInv, Moving, Notifying, Busy, Running, Retrying
<1> QED BY <1>10, <1>11, <1>12, <1>13, <1>14, <1>15, <1>16, <1>17, <1>18, <1>19 DEF PipeInv

LEMMA NotifyCallRxKeeps ==
    ASSUME PipeInv, NotifyCall("rx")
    PROVE  PipeInv'
<1>1. /\ pc["rx"] = "call" /\ active' = "rx"
      /\ high = "rx" \/ ~Busy("tx")
      /\ high = "tx" => ~Running("tx")
    BY ReaderGoes DEF NotifyCall
<1>2. UNCHANGED <<nodes, size, term, todo, done, avail, closing, high, fails>>
    BY DEF NotifyCall
<1>3. /\ pc' \in [Ends -> AllPcs] /\ pc'["tx"] = pc["tx"]
      /\ pc'["rx"] = IF closing["rx"] THEN "detach" ELSE "after"
      /\ fd' \in [Ends -> FdType]
      /\ fd'["rx"] = fd["rx"]
      /\ fd'["tx"].status /\ fd'["tx"].sticky = fd["tx"].sticky
      /\ fd'["tx"].armed <=> fd["tx"].armed /\ fd["tx"].status
      /\ fd'["tx"].events <=>
            \/ (fd["tx"].status /\ fd["tx"].events)
            \/ (~fd["tx"].status /\ (fd["tx"].armed => fd["tx"].sticky))
  <2>1. {"detach", "after"} \subseteq AllPcs
    BY DEF AllPcs, PcOf, Closing
  <2>2. /\ pc' \in [Ends -> AllPcs] /\ pc'["tx"] = pc["tx"]
        /\ pc'["rx"] = IF closing["rx"] THEN "detach" ELSE "after"
    BY <2>1, GotoFacts DEF NotifyCall
  <2>3. fd["tx"] \in FdType /\ fd["rx"] \in FdType /\ fd \in [Ends -> FdType]
    BY PipeEnds DEF PipeInv, PipeTypeOK, FdType
  <2>4. fd' \in [Ends -> FdType] /\ fd'["tx"] = SetStatus(fd["tx"]) /\ fd'["rx"] = fd["rx"]
    <3>1. SetStatus(fd["tx"]) \in FdType
        BY <2>3, SetStatusFacts
    <3> QED BY <3>1, FdNext, PipeEnds DEF NotifyCall
  <2> QED BY <2>2, <2>3, <2>4, SetStatusFacts
<1>10. PipeTypeOK'
    BY <1>1, <1>2, <1>3, PipeEnds
       DEF PipeInv, PipeTypeOK, FdType, PcOf, Notifying, Closing
<1>11. BytesInv'
    BY <1>1, <1>2, <1>3, PipeEnds
       DEF PipeInv, BytesInv
<1>12. BusyInv'
    BY <1>1, <1>2, <1>3, PipeEnds
       DEF PipeInv, BusyInv, Busy
<1>13. CloseInv'
    BY <1>1, <1>2, <1>3, PipeEnds
       DEF PipeInv, CloseInv, Busy, Notifying, Closing, Moving
<1>14. WriteCallInv'
    BY <1>1, <1>2, <1>3, PipeEnds
       DEF PipeInv, WriteCallInv, Moving, Notifying, PipeTypeOK, Busy, Running
<1>15. ReadCallInv'
    BY <1>1, <1>2, <1>3, PipeEnds
       DEF PipeInv, ReadCallInv, Moving, Notifying, PipeTypeOK, Busy, CloseInv, Running
<1>16. WriterBits'
    BY <1>1, <1>2, <1>3, PipeEnds
       DEF PipeInv, WriterBits, Moving, Notifying
<1>17. WriterTold'
    BY <1>1, <1>2, <1>3, PipeEnds
       DEF PipeInv, WriterTold, PipeTypeOK, WriterBits, CloseInv, Moving, Notifying,
           Busy, ReadCallInv
<1>18. ReaderBits'
    BY <1>1, <1>2, <1>3, PipeEnds
       DEF PipeInv, ReaderBits, ReaderTold, ReadCallInv, CloseInv, Moving, Notifying,
           Busy, Running, Retrying
<1>19. ReaderTold'
    BY <1>1, <1>2, <1>3, PipeEnds
       DEF PipeInv, ReaderTold, ReaderBits, ReadCallInv, WriteCallInv, WriterBits,
           CloseInv, Moving, Notifying, Busy, Running, Retrying
<1> QED BY <1>10, <1>11, <1>12, <1>13, <1>14, <1>15, <1>16, <1>17, <1>18, <1>19 DEF PipeInv

LEMMA WakeRxKeeps ==
    ASSUME PipeInv, Wake("rx")
    PROVE  PipeInv'
<1>1. /\ pc["rx"] = "pend" /\ active' = "rx"
      /\ high = "rx" \/ ~Busy("tx")
      /\ high = "tx" => ~Running("tx")
    BY ReaderGoes DEF Wake
<1>2. UNCHANGED <<nodes, size, term, fd, todo, done, avail, closing, high, fails>>
    BY DEF Wake
<1>3. /\ pc' \in [Ends -> AllPcs]
      /\ pc'["rx"] = "node" /\ pc'["tx"] = pc["tx"]
      /\ ~fd["rx"].armed
  <2>1. "node" \in AllPcs
    BY DEF AllPcs, PcOf, Notifying, Closing
  <2>2. /\ pc' \in [Ends -> AllPcs]
        /\ pc'["rx"] = "node" /\ pc'["tx"] = pc["tx"]
    BY <2>1, GotoFacts DEF Wake
  <2>3. ~fd["rx"].armed
    BY DEF Wake
  <2> QED BY <2>2, <2>3
<1>10. PipeTypeOK'
    BY <1>1, <1>2, <1>3, PipeEnds
       DEF PipeInv, PipeTypeOK, FdType, PcOf, Notifying, Closing
<1>11. BytesInv'
    BY <1>1, <1>2, <1>3, PipeEnds
       DEF PipeInv, BytesInv
<1>12. BusyInv'
    BY <1>1, <1>2, <1>3, PipeEnds
       DEF PipeInv, BusyInv, Busy
<1>13. CloseInv'
    BY <1>1, <1>2, <1>3, PipeEnds
       DEF PipeInv, CloseInv, Busy, Notifying, Closing, Moving
<1>14. WriteCallInv'
    BY <1>1, <1>2, <1>3, PipeEnds
       DEF PipeInv, WriteCallInv, Moving, Notifying, PipeTypeOK, Busy, Running
<1>15. ReadCallInv'
    BY <1>1, <1>2, <1>3, PipeEnds
       DEF PipeInv, ReadCallInv, Moving, Notifying, PipeTypeOK, Busy, CloseInv, Running
<1>16. WriterBits'
    BY <1>1, <1>2, <1>3, PipeEnds
       DEF PipeInv, WriterBits, Moving, Notifying
<1>17. WriterTold'
    BY <1>1, <1>2, <1>3, PipeEnds
       DEF PipeInv, WriterTold, PipeTypeOK, WriterBits, CloseInv, Moving, Notifying,
           Busy, ReadCallInv
<1>18. ReaderBits'
    BY <1>1, <1>2, <1>3, PipeEnds
       DEF PipeInv, ReaderBits, ReaderTold, ReadCallInv, CloseInv, Moving, Notifying,
           Busy, Running, Retrying
<1>19. ReaderTold'
    BY <1>1, <1>2, <1>3, PipeEnds
       DEF PipeInv, ReaderTold, ReaderBits, ReadCallInv, WriteCallInv, WriterBits,
           CloseInv, Moving, Notifying, Busy, Running, Retrying
<1> QED BY <1>10, <1>11, <1>12, <1>13, <1>14, <1>15, <1>16, <1>17, <1>18, <1>19 DEF PipeInv

LEMMA NotifyClearTxKeeps ==
    ASSUME PipeInv, NotifyClear("tx")
    PROVE  PipeInv'
<1>1. /\ pc["tx"] = "clear" /\ active' = "tx"
      /\ high = "tx" \/ ~Busy("rx")
      /\ high = "rx" => ~Running("rx")
    BY WriterGoes DEF NotifyClear
<1>2. UNCHANGED <<nodes, size, fd, todo, done, avail, closing, high, fails>>
    BY DEF NotifyClear
<1>3. /\ pc' \in [Ends -> AllPcs]
      /\ pc'["tx"] = "test" /\ pc'["rx"] = pc["rx"]
      /\ term' \in [Ends -> [ready : BOOLEAN, notified : BOOLEAN]]
      /\ term'["rx"] = term["rx"]
      /\ term'["tx"].ready = term["tx"].ready /\ ~term'["tx"].notified
  <2>1. "test" \in AllPcs
    BY DEF AllPcs, PcOf, Notifying, Closing
  <2>2. /\ pc' \in [Ends -> AllPcs]
        /\ pc'["tx"] = "test" /\ pc'["rx"] = pc["rx"]
    BY <2>1, GotoFacts DEF NotifyClear
  <2>3. term \in [Ends -> [ready : BOOLEAN, notified : BOOLEAN]]
    BY DEF PipeInv, PipeTypeOK
  <2>4. term' = [term EXCEPT !["tx"].notified = FALSE]
    BY DEF NotifyClear
  <2> QED BY PipeEnds, <2>2, <2>3, <2>4
<1>10. PipeTypeOK'
    BY <1>1, <1>2, <1>3, PipeEnds
       DEF PipeInv, PipeTypeOK, FdType, PcOf, Notifying, Closing
<1>11. BytesInv'
    BY <1>1, <1>2, <1>3, PipeEnds
       DEF PipeInv, BytesInv
<1>12. BusyInv'
    BY <1>1, <1>2, <1>3, PipeEnds
       DEF PipeInv, BusyInv, Busy
<1>13. CloseInv'
    BY <1>1, <1>2, <1>3, PipeEnds
       DEF PipeInv, CloseInv, Busy, Notifying, Closing, Moving
<1>14. WriteCallInv'
    BY <1>1, <1>2, <1>3, PipeEnds
       DEF PipeInv, WriteCallInv, Moving, Notifying, PipeTypeOK, Busy, Running
<1>15. ReadCallInv'
    BY <1>1, <1>2, <1>3, PipeEnds
       DEF PipeInv, ReadCallInv, Moving, Notifying, PipeTypeOK, Busy, CloseInv, Running
<1>16. WriterBits'
    BY <1>1, <1>2, <1>3, PipeEnds
       DEF PipeInv, WriterBits, Moving, Notifying
<1>17. WriterTold'
    BY <1>1, <1>2, <1>3, PipeEnds
       DEF PipeInv, WriterTold, PipeTypeOK, WriterBits, CloseInv, Moving, Notifying,
           Busy, ReadCallInv
<1>18. ReaderBits'
    BY <1>1, <1>2, <1>3, PipeEnds
       DEF PipeInv, ReaderBits, ReaderTold, ReadCallInv, CloseInv, Moving, Notifying,
           Busy, Running, Retrying
<1>19. ReaderTold'
    BY <1>1, <1>2, <1>3, PipeEnds
       DEF PipeInv, ReaderTold, ReaderBits, ReadCallInv, WriteCallInv, WriterBits,
           CloseInv, Moving, Notifying, Busy, Running, Retrying
<1> QED BY <1>10, <1>11, <1>12, <1>13, <1>14, <1>15, <1>16, <1>17, <1>18, <1>19 DEF PipeInv

LEMMA NotifyTestTxKeeps ==
    ASSUME PipeInv, NotifyTest("tx")
    PROVE  PipeInv'
<1>1. /\ pc["tx"] = "test" /\ active' = "tx"
      /\ high = "tx" \/ ~Busy("rx")
      /\ high = "rx" => ~Running("rx")
    BY WriterGoes DEF NotifyTest
<1>2. UNCHANGED <<nodes, size, term, fd, todo, done, avail, closing, high, fails>>
    BY DEF NotifyTest
<1>3. /\ pc' \in [Ends -> AllPcs] /\ pc'["rx"] = pc["rx"]
      /\ term["rx"].ready /\ ~term["rx"].notified => pc'["tx"] = "set"
      /\ ~term["rx"].ready \/ term["rx"].notified =>
         pc'["tx"] = IF closing["tx"] THEN "detach" ELSE "after"
  <2>1. {"set", "detach", "after"} \subseteq AllPcs
    BY DEF AllPcs, PcOf, Notifying, Closing
  <2> QED BY <2>1, GotoFacts, PipeEnds DEF NotifyTest
<1>10. PipeTypeOK'
    BY <1>1, <1>2, <1>3, PipeEnds
       DEF PipeInv, PipeTypeOK, FdType, PcOf, Notifying, Closing
<1>11. BytesInv'
    BY <1>1, <1>2, <1>3, PipeEnds
       DEF PipeInv, BytesInv
<1>12. BusyInv'
    BY <1>1, <1>2, <1>3, PipeEnds
       DEF PipeInv, BusyInv, Busy
<1>13. CloseInv'
    BY <1>1, <1>2, <1>3, PipeEnds
       DEF PipeInv, CloseInv, Busy, Notifying, Closing, Moving
<1>14. WriteCallInv'
    BY <1>1, <1>2, <1>3, PipeEnds
       DEF PipeInv, WriteCallInv, Moving, Notifying, PipeTypeOK, Busy, Running
<1>15. ReadCallInv'
    BY <1>1, <1>2, <1>3, PipeEnds
       DEF PipeInv, ReadCallInv, Moving, Notifying, PipeTypeOK, Busy, CloseInv, Running
<1>16. WriterBits'
    BY <1>1, <1>2, <1>3, PipeEnds
       DEF PipeInv, WriterBits, Moving, Notifying
<1>17. WriterTold'
    BY <1>1, <1>2, <1>3, PipeEnds
       DEF PipeInv, WriterTold, PipeTypeOK, WriterBits, CloseInv, Moving, Notifying,
           Busy, ReadCallInv
<1>18. ReaderBits'
    BY <1>1, <1>2, <1>3, PipeEnds
       DEF PipeInv, ReaderBits, ReaderTold, ReadCallInv, CloseInv, Moving, Notifying,
           Busy, Running, Retrying
<1>19. ReaderTold'
    BY <1>1, <1>2, <1>3, PipeEnds
       DEF PipeInv, ReaderTold, ReaderBits, ReadCallInv, WriteCallInv, WriterBits,
           CloseInv, Moving, Notifying, Busy, Running, Retrying
<1> QED BY <1>10, <1>11, <1>12, <1>13, <1>14, <1>15, <1>16, <1>17, <1>18, <1>19 DEF PipeInv

LEMMA NotifySetTxKeeps ==
    ASSUME PipeInv, NotifySet("tx")
    PROVE  PipeInv'
<1>1. /\ pc["tx"] = "set" /\ active' = "tx"
      /\ high = "tx" \/ ~Busy("rx")
      /\ high = "rx" => ~Running("rx")
    BY WriterGoes DEF NotifySet
<1>2. UNCHANGED <<nodes, size, fd, todo, done, avail, closing, high, fails>>
    BY DEF NotifySet
<1>3. /\ pc' \in [Ends -> AllPcs]
      /\ pc'["tx"] = "call" /\ pc'["rx"] = pc["rx"]
      /\ term' \in [Ends -> [ready : BOOLEAN, notified : BOOLEAN]]
      /\ term'["tx"] = term["tx"]
      /\ term'["rx"].ready = term["rx"].ready /\ term'["rx"].notified
  <2>1. "call" \in AllPcs
    BY DEF AllPcs, PcOf, Notifying, Closing
  <2>2. /\ pc' \in [Ends -> AllPcs]
        /\ pc'["tx"] = "call" /\ pc'["rx"] = pc["rx"]
    BY <2>1, GotoFacts DEF NotifySet
  <2>3. term \in [Ends -> [ready : BOOLEAN, notified : BOOLEAN]]
    BY DEF PipeInv, PipeTypeOK
  <2>4. term' = [term EXCEPT !["rx"].notified = TRUE]
    BY PipeEnds DEF NotifySet
  <2> QED BY PipeEnds, <2>2, <2>3, <2>4
<1>10. PipeTypeOK'
    BY <1>1, <1>2, <1>3, PipeEnds
       DEF PipeInv, PipeTypeOK, FdType, PcOf, Notifying, Closing
<1>11. BytesInv'
    BY <1>1, <1>2, <1>3, PipeEnds
       DEF PipeInv, BytesInv
<1>12. BusyInv'
    BY <1>1, <1>2, <1>3, PipeEnds
       DEF PipeInv, BusyInv, Busy
<1>13. CloseInv'
    BY <1>1, <1>2, <1>3, PipeEnds
       DEF PipeInv, CloseInv, Busy, Notifying, Closing, Moving
<1>14. WriteCallInv'
    BY <1>1, <1>2, <1>3, PipeEnds
       DEF PipeInv, WriteCallInv, Moving, Notifying, PipeTypeOK, Busy, Running
<1>15. ReadCallInv'
    BY <1>1, <1>2, <1>3, PipeEnds
       DEF PipeInv, ReadCallInv, Moving, Notifying, PipeTypeOK, Busy, CloseInv, Running
<1>16. WriterBits'
    BY <1>1, <1>2, <1>3, PipeEnds
       DEF PipeInv, WriterBits, Moving, Notifying
<1>17. WriterTold'
    BY <1>1, <1>2, <1>3, PipeEnds
       DEF PipeInv, WriterTold, PipeTypeOK, WriterBits, CloseInv, Moving, Notifying,
           Busy, ReadCallInv
<1>18. ReaderBits'
    BY <1>1, <1>2, <1>3, PipeEnds
       DEF PipeInv, ReaderBits, ReaderTold, ReadCallInv, CloseInv, Moving, Notifying,
           Busy, Running, Retrying
<1>19. ReaderTold'
    BY <1>1, <1>2, <1>3, PipeEnds
       DEF PipeInv, ReaderTold, ReaderBits, ReadCallInv, WriteCallInv, WriterBits,
           CloseInv, Moving, Notifying, Busy, Running, Retrying
<1> QED BY <1>10, <1>11, <1>12, <1>13, <1>14, <1>15, <1>16, <1>17, <1>18, <1>19 DEF PipeInv

LEMMA NotifyCallTxKeeps ==
    ASSUME PipeInv, NotifyCall("tx")
    PROVE  PipeInv'
<1>1. /\ pc["tx"] = "call" /\ active' = "tx"
      /\ high = "tx" \/ ~Busy("rx")
      /\ high = "rx" => ~Running("rx")
    BY WriterGoes DEF NotifyCall
<1>2. UNCHANGED <<nodes, size, term, todo, done, avail, closing, high, fails>>
    BY DEF NotifyCall
<1>3. /\ pc' \in [Ends -> AllPcs] /\ pc'["rx"] = pc["rx"]
      /\ pc'["tx"] = IF closing["tx"] THEN "detach" ELSE "after"
      /\ fd' \in [Ends -> FdType]
      /\ fd'["tx"] = fd["tx"]
      /\ fd'["rx"].status /\ fd'["rx"].sticky = fd["rx"].sticky
      /\ fd'["rx"].armed <=> fd["rx"].armed /\ fd["rx"].status
      /\ fd'["rx"].events <=>
            \/ (fd["rx"].status /\ fd["rx"].events)
            \/ (~fd["rx"].status /\ (fd["rx"].armed => fd["rx"].sticky))
  <2>1. {"detach", "after"} \subseteq AllPcs
    BY DEF AllPcs, PcOf, Closing
  <2>2. /\ pc' \in [Ends -> AllPcs] /\ pc'["rx"] = pc["rx"]
        /\ pc'["tx"] = IF closing["tx"] THEN "detach" ELSE "after"
    BY <2>1, GotoFacts DEF NotifyCall
  <2>3. fd["tx"] \in FdType /\ fd["rx"] \in FdType /\ fd \in [Ends -> FdType]
    BY PipeEnds DEF PipeInv, PipeTypeOK, FdType
  <2>4. fd' \in [Ends -> FdType] /\ fd'["rx"] = SetStatus(fd["rx"]) /\ fd'["tx"] = fd["tx"]
    <3>1. SetStatus(fd["rx"]) \in FdType
        BY <2>3, SetStatusFacts
    <3> QED BY <3>1, FdNext, PipeEnds DEF NotifyCall
  <2> QED BY <2>2, <2>3, <2>4, SetStatusFacts
<1>10. PipeTypeOK'
    BY <1>1, <1>2, <1>3, PipeEnds
       DEF PipeInv, PipeTypeOK, FdType, PcOf, Notifying, Closing
<1>11. BytesInv'
    BY <1>1, <1>2, <1>3, PipeEnds
       DEF PipeInv, BytesInv
<1>12. BusyInv'
    BY <1>1, <1>2, <1>3, PipeEnds
       DEF PipeInv, BusyInv, Busy
<1>13. CloseInv'
    BY <1>1, <1>2, <1>3, PipeEnds
       DEF PipeInv, CloseInv, Busy, Notifying, Closing, Moving
<1>14. WriteCallInv'
    BY <1>1, <1>2, <1>3, PipeEnds
       DEF PipeInv, WriteCallInv, Moving, Notifying, PipeTypeOK, Busy, Running
<1>15. ReadCallInv'
    BY <1>1, <1>2, <1>3, PipeEnds
       DEF PipeInv, ReadCallInv, Moving, Notifying, PipeTypeOK, Busy, CloseInv, Running
<1>16. WriterBits'
    BY <1>1, <1>2, <1>3, PipeEnds
       DEF PipeInv, WriterBits, Moving, Notifying
<1>17. WriterTold'
    BY <1>1, <1>2, <1>3, PipeEnds
       DEF PipeInv, WriterTold, PipeTypeOK, WriterBits, CloseInv, Moving, Notifying,
           Busy, ReadCallInv
<1>18. ReaderBits'
    BY <1>1, <1>2, <1>3, PipeEnds
       DEF PipeInv, ReaderBits, ReaderTold, ReadCallInv, CloseInv, Moving, Notifying,
           Busy, Running, Retrying
<1>19. ReaderTold'
    BY <1>1, <1>2, <1>3, PipeEnds
       DEF PipeInv, ReaderTold, ReaderBits, ReadCallInv, WriteCallInv, WriterBits,
           CloseInv, Moving, Notifying, Busy, Running, Retrying
<1> QED BY <1>10, <1>11, <1>12, <1>13, <1>14, <1>15, <1>16, <1>17, <1>18, <1>19 DEF PipeInv

LEMMA WakeTxKeeps ==
    ASSUME PipeInv, Wake("tx")
    PROVE  PipeInv'
<1>1. /\ pc["tx"] = "pend" /\ active' = "tx"
      /\ high = "tx" \/ ~Busy("rx")
      /\ high = "rx" => ~Running("rx")
    BY WriterGoes DEF Wake
<1>2. UNCHANGED <<nodes, size, term, fd, todo, done, avail, closing, high, fails>>
    BY DEF Wake
<1>3. /\ pc' \in [Ends -> AllPcs]
      /\ pc'["tx"] = "avail" /\ pc'["rx"] = pc["rx"]
      /\ ~fd["tx"].armed
  <2>1. "avail" \in AllPcs
    BY DEF AllPcs, PcOf, Notifying, Closing
  <2>2. /\ pc' \in [Ends -> AllPcs]
        /\ pc'["tx"] = "avail" /\ pc'["rx"] = pc["rx"]
    BY <2>1, GotoFacts DEF Wake
  <2>3. ~fd["tx"].armed
    BY DEF Wake
  <2> QED BY <2>2, <2>3
<1>10. PipeTypeOK'
    BY <1>1, <1>2, <1>3, PipeEnds
       DEF PipeInv, PipeTypeOK, FdType, PcOf, Notifying, Closing
<1>11. BytesInv'
    BY <1>1, <1>2, <1>3, PipeEnds
       DEF PipeInv, BytesInv
<1>12. BusyInv'
    BY <1>1, <1>2, <1>3, PipeEnds
       DEF PipeInv, BusyInv, Busy
<1>13. CloseInv'
    BY <1>1, <1>2, <1>3, PipeEnds
       DEF PipeInv, CloseInv, Busy, Notifying, Closing, Moving
<1>14. WriteCallInv'
    BY <1>1, <1>2, <1>3, PipeEnds
       DEF PipeInv, WriteCallInv, Moving, Notifying, PipeTypeOK, Busy, Running
<1>15. ReadCallInv'
    BY <1>1, <1>2, <1>3, PipeEnds
       DEF PipeInv, ReadCallInv, Moving, Notifying, PipeTypeOK, Busy, CloseInv, Running
<1>16. WriterBits'
    BY <1>1, <1>2, <1>3, PipeEnds
       DEF PipeInv, WriterBits, Moving, Notifying
<1>17. WriterTold'
    BY <1>1, <1>2, <1>3, PipeEnds
       DEF PipeInv, WriterTold, PipeTypeOK, WriterBits, CloseInv, Moving, Notifying,
           Busy, ReadCallInv
<1>18. ReaderBits'
    BY <1>1, <1>2, <1>3, PipeEnds
       DEF PipeInv, ReaderBits, ReaderTold, ReadCallInv, CloseInv, Moving, Notifying,
           Busy, Running, Retrying
<1>19. ReaderTold'
    BY <1>1, <1>2, <1>3, PipeEnds
       DEF PipeInv, ReaderTold, ReaderBits, ReadCallInv, WriteCallInv, WriterBits,
           CloseInv, Moving, Notifying, Busy, Running, Retrying
<1> QED BY <1>10, <1>11, <1>12, <1>13, <1>14, <1>15, <1>16, <1>17, <1>18, <1>19 DEF PipeInv

LEMMA WriteCheckKeeps ==
    ASSUME PipeInv, WriteCheck
    PROVE  PipeInv'
<1>1. /\ pc["tx"] = "check" /\ active' = "tx"
      /\ high = "tx" \/ ~Busy("rx")
      /\ high = "rx" => ~Running("rx")
    BY WriterGoes DEF WriteCheck
<1>2. UNCHANGED <<nodes, size, term, todo, done, avail, closing, high, fails>>
    BY DEF WriteCheck
<1>3. /\ fd' \in [Ends -> FdType] /\ fd'["rx"] = fd["rx"]
      /\ pc' \in [Ends -> AllPcs] /\ pc'["rx"] = pc["rx"]
      /\ fd'["tx"].status = fd["tx"].status /\ fd'["tx"].sticky = fd["tx"].sticky
      /\ fd["tx"].status => pc'["tx"] = "avail" /\ fd' = fd
      /\ ~fd["tx"].status => pc'["tx"] = "pend" /\ fd'["tx"].armed /\ ~fd'["tx"].events
  <2>1. {"avail", "pend"} \subseteq AllPcs
    BY DEF AllPcs, PcOf
  <2>2. ~fd["tx"].sticky /\ (fd["tx"].events => fd["tx"].status)
    BY DEF PipeInv, WriterBits
  <2>3. fd["tx"] \in FdType /\ fd["rx"] \in FdType /\ fd \in [Ends -> FdType]
    BY PipeEnds DEF PipeInv, PipeTypeOK, FdType
  <2>4. CASE fd["tx"].status
    BY <2>1, <2>3, <2>4, GotoFacts DEF WriteCheck
  <2>5. CASE ~fd["tx"].status
    <3>1. Goto("tx", "pend") /\ fd' = [fd EXCEPT !["tx"] = PendEvents(fd["tx"])]
        BY <2>2, <2>5 DEF WriteCheck
    <3>2. /\ PendEvents(fd["tx"]) \in FdType
          /\ PendEvents(fd["tx"]).status = fd["tx"].status
          /\ PendEvents(fd["tx"]).sticky = fd["tx"].sticky
          /\ PendEvents(fd["tx"]).armed /\ ~PendEvents(fd["tx"]).events
        BY <2>2, <2>3, <2>5, PendEventsFacts
    <3>3. fd' \in [Ends -> FdType] /\ fd'["tx"] = PendEvents(fd["tx"]) /\ fd'["rx"] = fd["rx"]
        BY <3>1, <3>2, FdNext
    <3> QED BY <2>1, <2>5, <3>1, <3>2, <3>3, GotoFacts
  <2> QED BY <2>4, <2>5
<1>10. PipeTypeOK'
    BY <1>1, <1>2, <1>3, PipeEnds
       DEF PipeInv, PipeTypeOK, FdType, PcOf, Notifying, Closing
<1>11. BytesInv'
    BY <1>1, <1>2, <1>3, PipeEnds
       DEF PipeInv, BytesInv
<1>12. BusyInv'
    BY <1>1, <1>2, <1>3, PipeEnds
       DEF PipeInv, BusyInv, Busy
<1>13. CloseInv'
    BY <1>1, <1>2, <1>3, PipeEnds
       DEF PipeInv, CloseInv, Busy, Notifying, Closing, Moving
<1>14. WriteCallInv'
    BY <1>1, <1>2, <1>3, PipeEnds
       DEF PipeInv, WriteCallInv, Moving, Notifying, PipeTypeOK, Busy, Running
<1>15. ReadCallInv'
    BY <1>1, <1>2, <1>3, PipeEnds
       DEF PipeInv, ReadCallInv, Moving, Notifying, PipeTypeOK, Busy, CloseInv, Running
<1>16. WriterBits'
    BY <1>1, <1>2, <1>3, PipeEnds
       DEF PipeInv, WriterBits, Moving, Notifying
<1>17. WriterTold'
    BY <1>1, <1>2, <1>3, PipeEnds
       DEF PipeInv, WriterTold, PipeTypeOK, WriterBits, CloseInv, Moving, Notifying,
           Busy, ReadCallInv
<1>18. ReaderBits'
    BY <1>1, <1>2, <1>3, PipeEnds
       DEF PipeInv, ReaderBits, ReaderTold, ReadCallInv, CloseInv, Moving, Notifying,
           Busy, Running, Retrying
<1>19. ReaderTold'
    BY <1>1, <1>2, <1>3, PipeEnds
       DEF PipeInv, ReaderTold, ReaderBits, ReadCallInv, WriteCallInv, WriterBits,
           CloseInv, Moving, Notifying, Busy, Running, Retrying
<1> QED BY <1>10, <1>11, <1>12, <1>13, <1>14, <1>15, <1>16, <1>17, <1>18, <1>19 DEF PipeInv

LEMMA StartWriteKeeps ==
    ASSUME PipeInv, NEW n \in WriteSizes, StartWrite(n)
    PROVE  PipeInv'
<1>1. /\ pc["tx"] = "idle" /\ active' = "tx"
      /\ high = "tx" \/ ~Busy("rx")
      /\ high = "rx" => ~Running("rx")
    BY WriterGoes DEF StartWrite
<1>2. UNCHANGED <<nodes, size, term, fd, done, avail, closing, high, fails>>
    BY DEF StartWrite
<1>3. /\ pc' \in [Ends -> AllPcs]
      /\ pc'["tx"] = "check" /\ pc'["rx"] = pc["rx"]
      /\ todo' \in [Ends -> Nat] /\ todo'["tx"] > 0 /\ todo'["rx"] = todo["rx"]
      /\ term["rx"].ready
  <2>1. "check" \in AllPcs
    BY DEF AllPcs, PcOf, Notifying, Closing
  <2>2. /\ pc' \in [Ends -> AllPcs]
        /\ pc'["tx"] = "check" /\ pc'["rx"] = pc["rx"]
    BY <2>1, GotoFacts DEF StartWrite
  <2>3. n \in Nat /\ n > 0
    BY PipeAssumption
  <2>4. /\ todo' \in [Ends -> Nat] /\ todo'["tx"] > 0 /\ todo'["rx"] = todo["rx"]
        /\ term["rx"].ready
    BY <2>3, PipeEnds DEF StartWrite, PipeInv, PipeTypeOK
  <2> QED BY <2>2, <2>3, <2>4
<1>10. PipeTypeOK'
    BY <1>1, <1>2, <1>3, PipeEnds
       DEF PipeInv, PipeTypeOK, FdType, PcOf, Notifying, Closing
<1>11. BytesInv'
    BY <1>1, <1>2, <1>3, PipeEnds
       DEF PipeInv, BytesInv
<1>12. BusyInv'
    BY <1>1, <1>2, <1>3, PipeEnds
       DEF PipeInv, BusyInv, Busy
<1>13. CloseInv'
    BY <1>1, <1>2, <1>3, PipeEnds
       DEF PipeInv, CloseInv, Busy, Notifying, Closing, Moving
<1>14. WriteCallInv'
    BY <1>1, <1>2, <1>3, PipeEnds
       DEF PipeInv, WriteCallInv, Moving, Notifying, PipeTypeOK, Busy, Running
<1>15. ReadCallInv'
    BY <1>1, <1>2, <1>3, PipeEnds
       DEF PipeInv, ReadCallInv, Moving, Notifying, PipeTypeOK, Busy, CloseInv, Running
<1>16. WriterBits'
    BY <1>1, <1>2, <1>3, PipeEnds
       DEF PipeInv, WriterBits, Moving, Notifying
<1>17. WriterTold'
    BY <1>1, <1>2, <1>3, PipeEnds
       DEF PipeInv, WriterTold, PipeTypeOK, WriterBits, CloseInv, Moving, Notifying,
           Busy, ReadCallInv
<1>18. ReaderBits'
    BY <1>1, <1>2, <1>3, PipeEnds
       DEF PipeInv, ReaderBits, ReaderTold, ReadCallInv, CloseInv, Moving, Notifying,
           Busy, Running, Retrying
<1>19. ReaderTold'
    BY <1>1, <1>2, <1>3, PipeEnds
       DEF PipeInv, ReaderTold, ReaderBits, ReadCallInv, WriteCallInv, WriterBits,
           CloseInv, Moving, Notifying, Busy, Running, Retrying
<1> QED BY <1>10, <1>11, <1>12, <1>13, <1>14, <1>15, <1>16, <1>17, <1>18, <1>19 DEF PipeInv

LEMMA WriteAvailKeeps ==
    ASSUME PipeInv, WriteAvail
    PROVE  PipeInv'
<1>1. /\ pc["tx"] = "avail" /\ active' = "tx"
      /\ high = "tx" \/ ~Busy("rx")
      /\ high = "rx" => ~Running("rx")
    BY WriterGoes DEF WriteAvail
<1>2. UNCHANGED <<nodes, size, term, fd, todo, closing, high, fails>>
    BY DEF WriteAvail
<1>3. /\ pc' \in [Ends -> AllPcs]
      /\ pc'["tx"] = "enqueue" /\ pc'["rx"] = pc["rx"]
      /\ done' \in [Ends -> Nat] /\ done'["tx"] = 0 /\ done'["rx"] = done["rx"]
      /\ avail' \in 0 .. MaxBufferSize /\ avail' + size <= MaxBufferSize
  <2>1. "enqueue" \in AllPcs
    BY DEF AllPcs, PcOf, Notifying, Closing
  <2>2. /\ pc' \in [Ends -> AllPcs]
        /\ pc'["tx"] = "enqueue" /\ pc'["rx"] = pc["rx"]
    BY <2>1, GotoFacts DEF WriteAvail
  <2>3. done' \in [Ends -> Nat] /\ done'["tx"] = 0 /\ done'["rx"] = done["rx"]
    BY PipeEnds DEF WriteAvail, PipeInv, PipeTypeOK
  <2>4. avail' \in 0 .. MaxBufferSize /\ avail' + size <= MaxBufferSize
    BY PipeAssumption DEF WriteAvail, PipeInv, PipeTypeOK
  <2> QED BY <2>2, <2>3, <2>4
<1>10. PipeTypeOK'
    BY <1>1, <1>2, <1>3, PipeEnds
       DEF PipeInv, PipeTypeOK, FdType, PcOf, Notifying, Closing
<1>11. BytesInv'
    BY <1>1, <1>2, <1>3, PipeEnds
       DEF PipeInv, BytesInv
<1>12. BusyInv'
    BY <1>1, <1>2, <1>3, PipeEnds
       DEF PipeInv, BusyInv, Busy
<1>13. CloseInv'
    BY <1>1, <1>2, <1>3, PipeEnds
       DEF PipeInv, CloseInv, Busy, Notifying, Closing, Moving
<1>14. WriteCallInv'
    BY <1>1, <1>2, <1>3, PipeEnds
       DEF PipeInv, WriteCallInv, Moving, Notifying, PipeTypeOK, Busy, Running
<1>15. ReadCallInv'
    BY <1>1, <1>2, <1>3, PipeEnds
       DEF PipeInv, ReadCallInv, Moving, Notifying, PipeTypeOK, Busy, CloseInv, Running
<1>16. WriterBits'
    BY <1>1, <1>2, <1>3, PipeEnds
       DEF PipeInv, WriterBits, Moving, Notifying
<1>17. WriterTold'
    BY <1>1, <1>2, <1>3, PipeEnds
       DEF PipeInv, WriterTold, PipeTypeOK, WriterBits, CloseInv, Moving, Notifying,
           Busy, ReadCallInv
<1>18. ReaderBits'
    BY <1>1, <1>2, <1>3, PipeEnds
       DEF PipeInv, ReaderBits, ReaderTold, ReadCallInv, CloseInv, Moving, Notifying,
           Busy, Running, Retrying
<1>19. ReaderTold'
    BY <1>1, <1>2, <1>3, PipeEnds
       DEF PipeInv, ReaderTold, ReaderBits, ReadCallInv, WriteCallInv, WriterBits,
           CloseInv, Moving, Notifying, Busy, Running, Retrying
<1> QED BY <1>10, <1>11, <1>12, <1>13, <1>14, <1>15, <1>16, <1>17, <1>18, <1>19 DEF PipeInv

LEMMA WriteEnqueueKeeps ==
    ASSUME PipeInv, WriteEnqueue
    PROVE  PipeInv'
<1>1. /\ pc["tx"] = "enqueue" /\ active' = "tx"
      /\ high = "tx" \/ ~Busy("rx")
      /\ high = "rx" => ~Running("rx")
    BY WriterGoes DEF WriteEnqueue
<1>2. UNCHANGED <<term, fd, todo, avail, closing, high>>
    BY DEF WriteEnqueue
<1>3. /\ pc' \in [Ends -> AllPcs]
      /\ pc'["tx"] = "clear" /\ pc'["rx"] = pc["rx"]
      /\ fails' \in 0 .. MaxFails /\ size' \in 0 .. MaxBufferSize
      /\ nodes' \in Seq(1 .. MaxBufferSize) /\ HoldsBytes(nodes', size')
      /\ done' \in [Ends -> Nat] /\ done'["rx"] = done["rx"] /\ done'["tx"] <= todo["tx"]
      /\ done'["tx"] > 0 => nodes' # <<>>
      /\ size <= size'
      /\ nodes = <<>> \/ nodes' # <<>>
      /\ nodes = <<>> /\ nodes' # <<>> => size' > 0 /\ done'["tx"] > 0
      /\ size' = size => nodes' = nodes
  <2>1. "clear" \in AllPcs
    BY DEF AllPcs, PcOf, Notifying, Closing
  <2>2. /\ pc' \in [Ends -> AllPcs]
        /\ pc'["tx"] = "clear" /\ pc'["rx"] = pc["rx"]
    BY <2>1, GotoFacts DEF WriteEnqueue
  <2> DEFINE n == Min({avail, todo["tx"]})
  <2>3. /\ done \in [Ends -> Nat] /\ done["tx"] = 0 /\ MaxBufferSize \in Nat
        /\ avail \in 0 .. MaxBufferSize /\ size \in 0 .. MaxBufferSize
        /\ avail + size <= MaxBufferSize /\ todo["tx"] \in Nat
        /\ fails \in 0 .. MaxFails /\ MaxFails \in Nat
        /\ nodes \in Seq(1 .. MaxBufferSize) /\ HoldsBytes(nodes, size)
    BY <1>1, PipeEnds, PipeAssumption DEF PipeInv, PipeTypeOK, BytesInv, WriteCallInv
  <2>4. n \in Nat /\ n <= avail /\ n <= todo["tx"]
    <3>1. avail \in Nat /\ todo["tx"] \in Nat
        BY <2>3
    <3> QED BY <3>1, MinOfTwo
  <2>5. \/ /\ n > 0 /\ nodes' = Append(nodes, n) /\ size' = size + n
           /\ done' = [done EXCEPT !["tx"] = n] /\ fails' = fails
        \/ UNCHANGED <<nodes, size, done>> /\ fails' \in {fails, fails + 1} /\ (fails' = fails \/ fails < MaxFails)
    BY DEF WriteEnqueue
  <2> HIDE DEF n
  <2>6. CASE UNCHANGED <<nodes, size, done>> /\ fails' \in {fails, fails + 1} /\ (fails' = fails \/ fails < MaxFails)
    BY <2>2, <2>3, <2>6, PipeEnds
  <2>7. CASE /\ n > 0 /\ nodes' = Append(nodes, n) /\ size' = size + n
             /\ done' = [done EXCEPT !["tx"] = n] /\ fails' = fails
    <3>1. n \in 1 .. MaxBufferSize /\ size \in Nat /\ size + n \in 0 .. MaxBufferSize
        BY <2>3, <2>4, <2>7
    <3>2. nodes' \in Seq(1 .. MaxBufferSize) /\ nodes' # <<>> /\ HoldsBytes(nodes', size')
        BY <2>3, <2>7, <3>1, NodeAfter
    <3>3. done' \in [Ends -> Nat] /\ done'["tx"] = n /\ done'["rx"] = done["rx"]
        BY <2>3, <2>4, <2>7, PipeEnds
    <3>4. /\ fails' \in 0 .. MaxFails /\ size' \in 0 .. MaxBufferSize /\ size < size'
        BY <2>3, <2>7, <3>1
    <3> QED BY <2>2, <2>3, <2>4, <2>7, <3>1, <3>2, <3>3, <3>4
  <2> QED BY <2>5, <2>6, <2>7
<1>10. PipeTypeOK'
    BY <1>1, <1>2, <1>3, PipeEnds
       DEF PipeInv, PipeTypeOK, FdType, PcOf, Notifying, Closing
<1>11. BytesInv'
    BY <1>1, <1>2, <1>3, PipeEnds
       DEF PipeInv, BytesInv
<1>12. BusyInv'
    BY <1>1, <1>2, <1>3, PipeEnds
       DEF PipeInv, BusyInv, Busy
<1>13. CloseInv'
    BY <1>1, <1>2, <1>3, PipeEnds
       DEF PipeInv, CloseInv, Busy, Notifying, Closing, Moving
<1>14. WriteCallInv'
    BY <1>1, <1>2, <1>3, PipeEnds
       DEF PipeInv, WriteCallInv, Moving, Notifying, PipeTypeOK, Busy, Running
<1>15. ReadCallInv'
    BY <1>1, <1>2, <1>3, PipeEnds
       DEF PipeInv, ReadCallInv, Moving, Notifying, PipeTypeOK, Busy, CloseInv, Running
<1>16. WriterBits'
    BY <1>1, <1>2, <1>3, PipeEnds
       DEF PipeInv, WriterBits, Moving, Notifying
<1>17. WriterTold'
    BY <1>1, <1>2, <1>3, PipeEnds
       DEF PipeInv, WriterTold, PipeTypeOK, WriterBits, CloseInv, Moving, Notifying,
           Busy, ReadCallInv
<1>18. ReaderBits'
    BY <1>1, <1>2, <1>3, PipeEnds
       DEF PipeInv, ReaderBits, ReaderTold, ReadCallInv, CloseInv, Moving, Notifying,
           Busy, Running, Retrying
<1>19. ReaderTold'
    BY <1>1, <1>2, <1>3, PipeEnds
       DEF PipeInv, ReaderTold, ReaderBits, ReadCallInv, WriteCallInv, WriterBits,
           CloseInv, Moving, Notifying, Busy, Running, Retrying
<1> QED BY <1>10, <1>11, <1>12, <1>13, <1>14, <1>15, <1>16, <1>17, <1>18, <1>19 DEF PipeInv

LEMMA WriteAfterKeeps ==
    ASSUME PipeInv, WriteAfter
    PROVE  PipeInv'
<1>1. /\ pc["tx"] = "after" /\ active' = "tx"
      /\ high = "tx" \/ ~Busy("rx")
      /\ high = "rx" => ~Running("rx")
    BY WriterGoes DEF WriteAfter
<1>2. UNCHANGED <<nodes, size, term, done, avail, closing, high, fails>>
    BY DEF WriteAfter
<1>3. /\ fd' \in [Ends -> FdType] /\ fd'["rx"] = fd["rx"]
      /\ pc' \in [Ends -> AllPcs] /\ pc'["rx"] = pc["rx"]
      /\ todo' \in [Ends -> Nat] /\ todo'["rx"] = todo["rx"]
      /\ pc'["tx"] = "idle" \/ (pc'["tx"] = "check" /\ todo'["tx"] > 0)
      /\ done["tx"] = 0 => pc'["tx"] = "check"
      /\ fd'["tx"].sticky = fd["tx"].sticky /\ ~fd'["tx"].armed
      /\ size = MaxBufferSize => ~fd'["tx"].status /\ ~fd'["tx"].events
      /\ size # MaxBufferSize => fd'["tx"].status /\ fd'["tx"].events
  <2>1. {"idle", "check"} \subseteq AllPcs
    BY DEF AllPcs, PcOf
  <2>2. /\ ~fd["tx"].sticky /\ ~fd["tx"].armed /\ fd["tx"].status
        /\ todo["tx"] \in Nat /\ todo["tx"] > 0 /\ todo \in [Ends -> Nat]
        /\ done["tx"] \in Nat /\ done["tx"] <= todo["tx"]
    BY <1>1, PipeEnds DEF PipeInv, WriterBits, WriteCallInv, Moving, PipeTypeOK
  <2>3. fd["tx"] \in FdType /\ fd["rx"] \in FdType /\ fd \in [Ends -> FdType]
    BY PipeEnds DEF PipeInv, PipeTypeOK, FdType
  <2>4. /\ todo' \in [Ends -> Nat] /\ todo'["rx"] = todo["rx"]
        /\ todo'["tx"] = todo["tx"] - done["tx"]
    BY <2>2, PipeEnds DEF WriteAfter
  <2>5. Goto("tx", IF todo["tx"] = done["tx"] THEN "idle" ELSE "check")
    BY DEF WriteAfter
  <2>6. pc' \in [Ends -> AllPcs] /\ pc'["rx"] = pc["rx"]
    BY <2>1, <2>5, GotoFacts
  <2>7. /\ pc'["tx"] = "idle" \/ (pc'["tx"] = "check" /\ todo'["tx"] > 0)
        /\ done["tx"] = 0 => pc'["tx"] = "check"
    <3>1. CASE todo["tx"] = done["tx"]
      <4>1. Goto("tx", "idle") /\ done["tx"] # 0
        BY <2>2, <2>5, <3>1
      <4>2. pc'["tx"] = "idle"
        BY <2>1, <4>1, GotoFacts
      <4> QED BY <4>1, <4>2
    <3>2. CASE todo["tx"] # done["tx"]
      <4>1. todo'["tx"] > 0
        BY <2>2, <2>4, <3>2
      <4>2. Goto("tx", "check")
        BY <2>5, <3>2
      <4> QED BY <2>1, <4>1, <4>2, GotoFacts
    <3> QED BY <3>1, <3>2
  <2>8. CASE size = MaxBufferSize
    <3>1. fd' = [fd EXCEPT !["tx"] = ClearStatus(fd["tx"])]
        BY <2>8 DEF WriteAfter
    <3>2. ClearStatus(fd["tx"]) \in FdType
        BY <2>3, ClearStatusFacts
    <3>3. fd' \in [Ends -> FdType] /\ fd'["tx"] = ClearStatus(fd["tx"]) /\ fd'["rx"] = fd["rx"]
        BY <3>1, <3>2, FdNext
    <3>4. /\ fd'["tx"].sticky = fd["tx"].sticky /\ ~fd'["tx"].armed
          /\ ~fd'["tx"].status /\ ~fd'["tx"].events
        BY <2>2, <2>3, <3>3, ClearStatusFacts
    <3> QED BY <2>4, <2>6, <2>7, <2>8, <3>3, <3>4
  <2>9. CASE size # MaxBufferSize
    <3>1. fd' = [fd EXCEPT !["tx"] = SetEvents(fd["tx"])]
        BY <2>9 DEF WriteAfter
    <3>2. SetEvents(fd["tx"]) \in FdType
        BY <2>3, SetEventsFacts
    <3>3. fd' \in [Ends -> FdType] /\ fd'["tx"] = SetEvents(fd["tx"]) /\ fd'["rx"] = fd["rx"]
        BY <3>1, <3>2, FdNext
    <3>4. /\ fd'["tx"].sticky = fd["tx"].sticky /\ ~fd'["tx"].armed
          /\ fd'["tx"].status /\ fd'["tx"].events
        BY <2>2, <2>3, <3>3, SetEventsFacts
    <3> QED BY <2>4, <2>6, <2>7, <2>9, <3>3, <3>4
  <2> QED BY <2>8, <2>9
<1>4. nodes = <<>> => size # MaxBufferSize
    BY EmptyHoldsNothing, PipeAssumption DEF PipeInv, BytesInv
<1>5. done["tx"] = 0 \/ done["tx"] > 0
    BY PipeEnds DEF PipeInv, PipeTypeOK
<1>10. PipeTypeOK'
    BY <1>1, <1>2, <1>3, <1>4, <1>5, PipeEnds
       DEF PipeInv, PipeTypeOK, FdType, PcOf, Notifying, Closing
<1>11. BytesInv'
    BY <1>1, <1>2, <1>3, <1>4, <1>5, PipeEnds
       DEF PipeInv, BytesInv
<1>12. BusyInv'
    BY <1>1, <1>2, <1>3, <1>4, <1>5, PipeEnds
       DEF PipeInv, BusyInv, Busy
<1>13. CloseInv'
    BY <1>1, <1>2, <1>3, <1>4, <1>5, PipeEnds
       DEF PipeInv, CloseInv, Busy, Notifying, Closing, Moving
<1>14. WriteCallInv'
    BY <1>1, <1>2, <1>3, <1>4, <1>5, PipeEnds
       DEF PipeInv, WriteCallInv, Moving, Notifying, PipeTypeOK, Busy, Running
<1>15. ReadCallInv'
    BY <1>1, <1>2, <1>3, <1>4, <1>5, PipeEnds
       DEF PipeInv, ReadCallInv, Moving, Notifying, PipeTypeOK, Busy, CloseInv, Running
<1>16. WriterBits'
    BY <1>1, <1>2, <1>3, <1>4, <1>5, PipeEnds
       DEF PipeInv, WriterBits, Moving, Notifying
<1>17. WriterTold'
    BY <1>1, <1>2, <1>3, <1>4, <1>5, PipeEnds
       DEF PipeInv, WriterTold, PipeTypeOK, WriterBits, CloseInv, Moving, Notifying,
           Busy, ReadCallInv
<1>18. ReaderBits'
    BY <1>1, <1>2, <1>3, <1>4, <1>5, PipeEnds
       DEF PipeInv, ReaderBits, ReaderTold, ReadCallInv, CloseInv, Moving, Notifying,
           Busy, Running, Retrying
<1>19. ReaderTold'
  <2>1. high = "tx" /\ nodes = <<>> => pc'["tx"] = "check" /\ fd'["tx"].status
    BY <1>1, <1>3, <1>4, <1>5 DEF PipeInv, WriteCallInv, Moving
  <2>2. high = "tx" /\ nodes = <<>> => Retrying'
    BY <2>1 DEF Retrying
  <2> QED BY <1>1, <1>2, <1>3, <2>2 DEF PipeInv, ReaderTold, Notifying, Moving
<1> QED BY <1>10, <1>11, <1>12, <1>13, <1>14, <1>15, <1>16, <1>17, <1>18, <1>19 DEF PipeInv

LEMMA StartReadKeeps ==
    ASSUME PipeInv, NEW n \in ReadSizes, StartRead(n)
    PROVE  PipeInv'
<1>1. /\ pc["rx"] = "idle" /\ active' = "rx"
      /\ high = "rx" \/ ~Busy("tx")
      /\ high = "tx" => ~Running("tx")
    BY ReaderGoes DEF StartRead
<1>2. UNCHANGED <<nodes, size, term, fd, avail, closing, high, fails>>
    BY DEF StartRead
<1>3. /\ pc' \in [Ends -> AllPcs]
      /\ pc'["rx"] = "check" /\ pc'["tx"] = pc["tx"]
      /\ todo' \in [Ends -> Nat] /\ todo'["rx"] > 0 /\ todo'["tx"] = todo["tx"]
      /\ done' \in [Ends -> Nat] /\ done'["rx"] = 0 /\ done'["tx"] = done["tx"]
  <2>1. "check" \in AllPcs
    BY DEF AllPcs, PcOf, Notifying, Closing
  <2>2. /\ pc' \in [Ends -> AllPcs]
        /\ pc'["rx"] = "check" /\ pc'["tx"] = pc["tx"]
    BY <2>1, GotoFacts DEF StartRead
  <2>3. n \in Nat /\ n > 0
    BY PipeAssumption
  <2>4. todo' \in [Ends -> Nat] /\ todo'["rx"] > 0 /\ todo'["tx"] = todo["tx"]
    BY <2>3, PipeEnds DEF StartRead, PipeInv, PipeTypeOK
  <2>5. done' \in [Ends -> Nat] /\ done'["rx"] = 0 /\ done'["tx"] = done["tx"]
    BY <2>3, PipeEnds DEF StartRead, PipeInv, PipeTypeOK
  <2> QED BY <2>2, <2>4, <2>5
<1>10. PipeTypeOK'
    BY <1>1, <1>2, <1>3, PipeEnds
       DEF PipeInv, PipeTypeOK, FdType, PcOf, Notifying, Closing
<1>11. BytesInv'
    BY <1>1, <1>2, <1>3, PipeEnds
       DEF PipeInv, BytesInv
<1>12. BusyInv'
    BY <1>1, <1>2, <1>3, PipeEnds
       DEF PipeInv, BusyInv, Busy
<1>13. CloseInv'
    BY <1>1, <1>2, <1>3, PipeEnds
       DEF PipeInv, CloseInv, Busy, Notifying, Closing, Moving
<1>14. WriteCallInv'
    BY <1>1, <1>2, <1>3, PipeEnds
       DEF PipeInv, WriteCallInv, Moving, Notifying, PipeTypeOK, Busy, Running
<1>15. ReadCallInv'
    BY <1>1, <1>2, <1>3, PipeEnds
       DEF PipeInv, ReadCallInv, Moving, Notifying, PipeTypeOK, Busy, CloseInv, Running
<1>16. WriterBits'
    BY <1>1, <1>2, <1>3, PipeEnds
       DEF PipeInv, WriterBits, Moving, Notifying
<1>17. WriterTold'
    BY <1>1, <1>2, <1>3, PipeEnds
       DEF PipeInv, WriterTold, PipeTypeOK, WriterBits, CloseInv, Moving, Notifying,
           Busy, ReadCallInv
<1>18. ReaderBits'
    BY <1>1, <1>2, <1>3, PipeEnds
       DEF PipeInv, ReaderBits, ReaderTold, ReadCallInv, CloseInv, Moving, Notifying,
           Busy, Running, Retrying
<1>19. ReaderTold'
    BY <1>1, <1>2, <1>3, PipeEnds
       DEF PipeInv, ReaderTold, ReaderBits, ReadCallInv, WriteCallInv, WriterBits,
           CloseInv, Moving, Notifying, Busy, Running, Retrying
<1> QED BY <1>10, <1>11, <1>12, <1>13, <1>14, <1>15, <1>16, <1>17, <1>18, <1>19 DEF PipeInv

LEMMA StartPollKeeps ==
    ASSUME PipeInv, StartPoll
    PROVE  PipeInv'
<1>1. /\ pc["rx"] = "idle" /\ active' = "rx"
      /\ high = "rx" \/ ~Busy("tx")
      /\ high = "tx" => ~Running("tx")
    BY ReaderGoes DEF StartPoll
<1>2. UNCHANGED <<nodes, size, term, fd, todo, done, avail, closing, high, fails>>
    BY DEF StartPoll
<1>3. /\ pc' \in [Ends -> AllPcs]
      /\ pc'["rx"] = "poll" /\ pc'["tx"] = pc["tx"]
  <2>1. "poll" \in AllPcs
    BY DEF AllPcs, PcOf, Notifying, Closing
  <2>2. /\ pc' \in [Ends -> AllPcs]
        /\ pc'["rx"] = "poll" /\ pc'["tx"] = pc["tx"]
    BY <2>1, GotoFacts DEF StartPoll
  <2> QED BY <2>2
<1>10. PipeTypeOK'
    BY <1>1, <1>2, <1>3, PipeEnds
       DEF PipeInv, PipeTypeOK, FdType, PcOf, Notifying, Closing
<1>11. BytesInv'
    BY <1>1, <1>2, <1>3, PipeEnds
       DEF PipeInv, BytesInv
<1>12. BusyInv'
    BY <1>1, <1>2, <1>3, PipeEnds
       DEF PipeInv, BusyInv, Busy
<1>13. CloseInv'
    BY <1>1, <1>2, <1>3, PipeEnds
       DEF PipeInv, CloseInv, Busy, Notifying, Closing, Moving
<1>14. WriteCallInv'
    BY <1>1, <1>2, <1>3, PipeEnds
       DEF PipeInv, WriteCallInv, Moving, Notifying, PipeTypeOK, Busy, Running
<1>15. ReadCallInv'
    BY <1>1, <1>2, <1>3, PipeEnds
       DEF PipeInv, ReadCallInv, Moving, Notifying, PipeTypeOK, Busy, CloseInv, Running
<1>16. WriterBits'
    BY <1>1, <1>2, <1>3, PipeEnds
       DEF PipeInv, WriterBits, Moving, Notifying
<1>17. WriterTold'
    BY <1>1, <1>2, <1>3, PipeEnds
       DEF PipeInv, WriterTold, PipeTypeOK, WriterBits, CloseInv, Moving, Notifying,
           Busy, ReadCallInv
<1>18. ReaderBits'
    BY <1>1, <1>2, <1>3, PipeEnds
       DEF PipeInv, ReaderBits, ReaderTold, ReadCallInv, CloseInv, Moving, Notifying,
           Busy, Running, Retrying
<1>19. ReaderTold'
    BY <1>1, <1>2, <1>3, PipeEnds
       DEF PipeInv, ReaderTold, ReaderBits, ReadCallInv, WriteCallInv, WriterBits,
           CloseInv, Moving, Notifying, Busy, Running, Retrying
<1> QED BY <1>10, <1>11, <1>12, <1>13, <1>14, <1>15, <1>16, <1>17, <1>18, <1>19 DEF PipeInv

LEMMA ReadNodesEndKeeps ==
    ASSUME PipeInv, ReadNodesEnd
    PROVE  PipeInv'
<1>1. /\ pc["rx"] = "node" /\ active' = "rx"
      /\ high = "rx" \/ ~Busy("tx")
      /\ high = "tx" => ~Running("tx")
    BY ReaderGoes DEF ReadNodesEnd
<1>2. UNCHANGED <<nodes, size, term, fd, todo, done, avail, closing, high, fails>>
    BY DEF ReadNodesEnd
<1>3. /\ pc' \in [Ends -> AllPcs]
      /\ pc'["rx"] = "clear" /\ pc'["tx"] = pc["tx"]
      /\ todo["rx"] = 0 \/ nodes = <<>>
  <2>1. "clear" \in AllPcs
    BY DEF AllPcs, PcOf, Notifying, Closing
  <2>2. /\ pc' \in [Ends -> AllPcs]
        /\ pc'["rx"] = "clear" /\ pc'["tx"] = pc["tx"]
    BY <2>1, GotoFacts DEF ReadNodesEnd
  <2>3. todo["rx"] = 0 \/ nodes = <<>>
    BY DEF ReadNodesEnd
  <2> QED BY <2>2, <2>3
<1>4. nodes = <<>> => size < MaxBufferSize
    BY EmptyHoldsNothing, PipeAssumption DEF PipeInv, BytesInv
<1>5. high = "tx" /\ nodes = <<>> => done["rx"] > 0
  <2>1. Retrying => Running("tx")
    BY DEF Retrying, Running, Moving, Notifying
  <2> QED BY <1>1, <2>1 DEF PipeInv, ReaderTold
<1>6. ~closing["rx"] => \/ done["rx"] > 0
                        \/ todo["rx"] > 0 /\ nodes = <<>>
    BY <1>1, <1>3 DEF PipeInv, ReadCallInv
<1>7. closing["rx"] => high = "none"
    BY PipeEnds DEF PipeInv, CloseInv
<1>8. done["rx"] \in Nat
    BY PipeEnds DEF PipeInv, PipeTypeOK
<1>10. PipeTypeOK'
    BY <1>1, <1>2, <1>3, <1>4, <1>5, <1>6, <1>7, <1>8, PipeEnds
       DEF PipeInv, PipeTypeOK, FdType, PcOf, Notifying, Closing
<1>11. BytesInv'
    BY <1>1, <1>2, <1>3, <1>4, <1>5, <1>6, <1>7, <1>8, PipeEnds
       DEF PipeInv, BytesInv
<1>12. BusyInv'
    BY <1>1, <1>2, <1>3, <1>4, <1>5, <1>6, <1>7, <1>8, PipeEnds
       DEF PipeInv, BusyInv, Busy
<1>13. CloseInv'
    BY <1>1, <1>2, <1>3, <1>4, <1>5, <1>6, <1>7, <1>8, PipeEnds
       DEF PipeInv, CloseInv, Busy, Notifying, Closing, Moving
<1>14. WriteCallInv'
    BY <1>1, <1>2, <1>3, <1>4, <1>5, <1>6, <1>7, <1>8, PipeEnds
       DEF PipeInv, WriteCallInv, Moving, Notifying, PipeTypeOK, Busy, Running
<1>15. ReadCallInv'
    BY <1>1, <1>2, <1>3, <1>4, <1>5, <1>6, <1>7, <1>8
       DEF PipeInv, ReadCallInv, Moving, Notifying
<1>16. WriterBits'
    BY <1>1, <1>2, <1>3, <1>4, <1>5, <1>6, <1>7, <1>8, PipeEnds
       DEF PipeInv, WriterBits, Moving, Notifying
<1>17. WriterTold'
    BY <1>1, <1>2, <1>3, <1>4, <1>5, <1>6, <1>7, <1>8, PipeEnds
       DEF PipeInv, WriterTold, PipeTypeOK, WriterBits, CloseInv, Moving, Notifying,
           Busy, ReadCallInv
<1>18. ReaderBits'
    BY <1>1, <1>2, <1>3, <1>4, <1>5, <1>6, <1>7, <1>8, PipeEnds
       DEF PipeInv, ReaderBits, ReaderTold, ReadCallInv, CloseInv, Moving, Notifying,
           Busy, Running, Retrying
<1>19. ReaderTold'
    BY <1>1, <1>2, <1>3, <1>4, <1>5, <1>6, <1>7, <1>8, PipeEnds
       DEF PipeInv, ReaderTold, ReaderBits, ReadCallInv, WriteCallInv, WriterBits,
           CloseInv, Moving, Notifying, Busy, Running, Retrying
<1> QED BY <1>10, <1>11, <1>12, <1>13, <1>14, <1>15, <1>16, <1>17, <1>18, <1>19 DEF PipeInv

LEMMA ReadNodeKeeps ==
    ASSUME PipeInv, ReadNode
    PROVE  PipeInv'
<1>1. /\ pc["rx"] = "node" /\ active' = "rx"
      /\ high = "rx" \/ ~Busy("tx")
      /\ high = "tx" => ~Running("tx")
    BY ReaderGoes DEF ReadNode
<1>2. UNCHANGED <<term, fd, pc, avail, closing, high, fails>>
    BY DEF ReadNode
<1>3. /\ nodes # <<>> /\ todo["rx"] > 0
      /\ todo' \in [Ends -> Nat] /\ todo'["tx"] = todo["tx"]
      /\ done' \in [Ends -> Nat] /\ done'["tx"] = done["tx"] /\ done'["rx"] > 0
      /\ size' \in 0 .. MaxBufferSize /\ size' < MaxBufferSize /\ size' < size /\ size \in 0 .. MaxBufferSize
      /\ nodes' \in Seq(1 .. MaxBufferSize) /\ HoldsBytes(nodes', size')
      /\ pc' = pc
  <2> DEFINE n == Min({todo["rx"], Head(nodes)})
  <2>1. /\ todo \in [Ends -> Nat] /\ done \in [Ends -> Nat] /\ MaxBufferSize \in Nat
        /\ size \in 0 .. MaxBufferSize
        /\ nodes \in Seq(1 .. MaxBufferSize) /\ HoldsBytes(nodes, size)
    BY PipeAssumption DEF PipeInv, PipeTypeOK, BytesInv
  <2>2. nodes # <<>> /\ todo["rx"] > 0 /\ pc' = pc
    BY DEF ReadNode
  <2>3. /\ Head(nodes) \in 1 .. MaxBufferSize /\ Head(nodes) <= size
        /\ Tail(nodes) \in Seq(1 .. MaxBufferSize)
        /\ HoldsBytes(Tail(nodes), size - Head(nodes))
    BY <2>1, <2>2, FirstNode
  <2>4. /\ n \in Nat /\ n > 0 /\ n <= todo["rx"] /\ n <= Head(nodes)
    <3>1. /\ todo["rx"] \in Nat /\ todo["rx"] > 0
          /\ Head(nodes) \in Nat /\ Head(nodes) > 0
        BY <2>1, <2>2, <2>3, PipeEnds
    <3> QED BY <3>1, MinOfTwo
  <2>5. /\ todo' = [todo EXCEPT !["rx"] = @ - n]
        /\ done' = [done EXCEPT !["rx"] = @ + n]
        /\ size' = size - n
        /\ nodes' = IF n < Head(nodes) THEN <<Head(nodes) - n>> \o Tail(nodes) ELSE Tail(nodes)
    BY DEF ReadNode
  <2> HIDE DEF n
  <2>6. todo' \in [Ends -> Nat] /\ todo'["tx"] = todo["tx"]
    <3>1. todo["rx"] - n \in Nat
      <4>1. todo["rx"] \in Nat
        BY <2>1, PipeEnds
      <4> QED BY <2>4, <4>1
    <3>2. todo' = [todo EXCEPT !["rx"] = todo["rx"] - n]
        BY <2>5
    <3> QED BY <2>1, <3>1, <3>2, PipeEnds
  <2>7. /\ done' \in [Ends -> Nat] /\ done'["tx"] = done["tx"] /\ done'["rx"] > 0
    <3>1. done["rx"] + n \in Nat /\ done["rx"] + n > 0
      <4>1. done["rx"] \in Nat
        BY <2>1, PipeEnds
      <4> QED BY <2>4, <4>1
    <3>2. done' = [done EXCEPT !["rx"] = done["rx"] + n]
        BY <2>5
    <3> QED BY <2>1, <3>1, <3>2, PipeEnds
  <2>8. size' \in 0 .. MaxBufferSize /\ size' < MaxBufferSize /\ size' < size
    BY <2>1, <2>3, <2>4, <2>5
  <2>9. nodes' \in Seq(1 .. MaxBufferSize) /\ HoldsBytes(nodes', size')
    <3>1. CASE n < Head(nodes)
      <4>1. /\ Head(nodes) - n \in 1 .. MaxBufferSize /\ size - Head(nodes) \in Nat
            /\ (Head(nodes) - n) + (size - Head(nodes)) = size - n
        <5>1. /\ MaxBufferSize \in Nat /\ size \in Nat /\ Head(nodes) \in Nat /\ n \in Nat
              /\ Head(nodes) <= MaxBufferSize /\ Head(nodes) <= size
              /\ n > 0 /\ n < Head(nodes)
            BY <2>1, <2>3, <2>4, <3>1
        <5> QED BY <5>1
      <4> QED BY <2>1, <2>3, <2>5, <3>1, <4>1, NodeBefore
    <3>2. CASE ~(n < Head(nodes))
      <4>1. n = Head(nodes)
        BY <2>3, <2>4, <3>2
      <4> QED BY <2>3, <2>5, <3>2, <4>1
    <3> QED BY <3>1, <3>2
  <2> QED BY <2>1, <2>2, <2>6, <2>7, <2>8, <2>9
<1>4. high = "tx" => pc["tx"] \notin Moving
    BY <1>1 DEF Running, Moving, Notifying
<1>5. avail \in 0 .. MaxBufferSize /\ MaxBufferSize \in Nat
    BY PipeAssumption DEF PipeInv, PipeTypeOK
<1>10. PipeTypeOK'
    BY <1>1, <1>2, <1>3, <1>4, <1>5, PipeEnds
       DEF PipeInv, PipeTypeOK, FdType, PcOf, Notifying, Closing
<1>11. BytesInv'
    BY <1>1, <1>2, <1>3, <1>4, <1>5, PipeEnds
       DEF PipeInv, BytesInv
<1>12. BusyInv'
    BY <1>1, <1>2, <1>3, <1>4, <1>5, PipeEnds
       DEF PipeInv, BusyInv, Busy
<1>13. CloseInv'
    BY <1>1, <1>2, <1>3, <1>4, <1>5, PipeEnds
       DEF PipeInv, CloseInv, Busy, Notifying, Closing, Moving
<1>14. WriteCallInv'
  <2>1. avail + size <= MaxBufferSize => avail + size' <= MaxBufferSize
    <3>1. PICK k : k = size'
        OBVIOUS
    <3>2. /\ size \in Nat /\ k \in Nat /\ k < size
          /\ avail \in Nat /\ MaxBufferSize \in Nat
        BY <1>3, <1>5, <3>1
    <3>3. avail + size <= MaxBufferSize => avail + k <= MaxBufferSize
        BY <3>2
    <3> QED BY <3>1, <3>3
  <2> QED BY <1>1, <1>2, <1>3, <1>4, <2>1 DEF PipeInv, WriteCallInv
<1>15. ReadCallInv'
    BY <1>1, <1>2, <1>3, <1>4, <1>5, PipeEnds
       DEF PipeInv, ReadCallInv, Moving, Notifying, PipeTypeOK, Busy, CloseInv, Running
<1>16. WriterBits'
    BY <1>1, <1>2, <1>3, <1>4, <1>5, PipeEnds
       DEF PipeInv, WriterBits, Moving, Notifying
<1>17. WriterTold'
    BY <1>1, <1>2, <1>3, <1>4, <1>5, PipeEnds
       DEF PipeInv, WriterTold, PipeTypeOK, WriterBits, CloseInv, Moving, Notifying,
           Busy, ReadCallInv
<1>18. ReaderBits'
    BY <1>1, <1>2, <1>3, <1>4, <1>5, PipeEnds
       DEF PipeInv, ReaderBits, ReaderTold, ReadCallInv, CloseInv, Moving, Notifying,
           Busy, Running, Retrying
<1>19. ReaderTold'
    BY <1>1, <1>2, <1>3, <1>4, <1>5, PipeEnds
       DEF PipeInv, ReaderTold, ReaderBits, ReadCallInv, WriteCallInv, WriterBits,
           CloseInv, Moving, Notifying, Busy, Running, Retrying
<1> QED BY <1>10, <1>11, <1>12, <1>13, <1>14, <1>15, <1>16, <1>17, <1>18, <1>19 DEF PipeInv

LEMMA ReadCheckKeeps ==
    ASSUME PipeInv, ReadCheck
    PROVE  PipeInv'
<1>1. /\ pc["rx"] = "check" /\ active' = "rx"
      /\ high = "rx" \/ ~Busy("tx")
      /\ high = "tx" => ~Running("tx")
    BY ReaderGoes DEF ReadCheck
<1>2. UNCHANGED <<nodes, size, term, todo, done, avail, closing, high, fails>>
    BY DEF ReadCheck
<1>3. /\ fd' \in [Ends -> FdType] /\ fd'["tx"] = fd["tx"]
      /\ pc' \in [Ends -> AllPcs] /\ pc'["tx"] = pc["tx"]
      /\ fd'["rx"].status = fd["rx"].status /\ fd'["rx"].sticky = fd["rx"].sticky
      /\ \/ pc'["rx"] = "node" /\ (fd["rx"].status \/ nodes # <<>>) /\ fd' = fd
         \/ pc'["rx"] = "idle" /\ ~fd["rx"].status /\ ~term["tx"].ready /\ fd' = fd
         \/ /\ ~fd["rx"].status /\ nodes = <<>> /\ term["tx"].ready
            /\ \/ /\ pc'["rx"] = "node" /\ fd["rx"].events /\ ~fd'["rx"].armed
                  /\ fd'["rx"].events => fd["rx"].events
               \/ pc'["rx"] = "pend" /\ fd'["rx"].armed /\ ~fd'["rx"].events
  <2>1. {"idle", "node", "pend"} \subseteq AllPcs
    BY DEF AllPcs, PcOf
  <2>2. ~fd["rx"].armed
    BY <1>1 DEF PipeInv, ReaderBits
  <2>3. fd["tx"] \in FdType /\ fd["rx"] \in FdType /\ fd \in [Ends -> FdType]
    BY PipeEnds DEF PipeInv, PipeTypeOK, FdType
  <2>4. CASE fd["rx"].status \/ nodes # <<>>
    BY <2>1, <2>3, <2>4, GotoFacts DEF ReadCheck
  <2>5. CASE ~(fd["rx"].status \/ nodes # <<>>) /\ ~term["tx"].ready
    BY <2>1, <2>3, <2>5, GotoFacts DEF ReadCheck
  <2>6. CASE ~(fd["rx"].status \/ nodes # <<>>) /\ term["tx"].ready
    <3>1. /\ Goto("rx", IF fd["rx"].events THEN "node" ELSE "pend")
          /\ fd' = [fd EXCEPT !["rx"] = PendEvents(fd["rx"])]
        BY <2>6 DEF ReadCheck
    <3>2. PendEvents(fd["rx"]) \in FdType
        BY <2>3, PendEventsFacts
    <3>3. fd' \in [Ends -> FdType] /\ fd'["rx"] = PendEvents(fd["rx"]) /\ fd'["tx"] = fd["tx"]
        BY <3>1, <3>2, FdNext
    <3>4. /\ fd'["rx"].status = fd["rx"].status /\ fd'["rx"].sticky = fd["rx"].sticky
          /\ fd'["rx"].armed <=> ~fd["rx"].events
          /\ fd'["rx"].events => fd["rx"].events
        BY <2>2, <2>3, <3>3, PendEventsFacts
    <3>5. CASE fd["rx"].events
        BY <2>1, <2>6, <3>1, <3>3, <3>4, <3>5, GotoFacts
    <3>6. CASE ~fd["rx"].events
        BY <2>1, <2>6, <3>1, <3>3, <3>4, <3>6, GotoFacts
    <3> QED BY <3>5, <3>6
  <2> QED BY <2>4, <2>5, <2>6
<1>10. PipeTypeOK'
    BY <1>1, <1>2, <1>3, PipeEnds
       DEF PipeInv, PipeTypeOK, FdType, PcOf, Notifying, Closing
<1>11. BytesInv'
    BY <1>1, <1>2, <1>3, PipeEnds
       DEF PipeInv, BytesInv
<1>12. BusyInv'
    BY <1>1, <1>2, <1>3, PipeEnds
       DEF PipeInv, BusyInv, Busy
<1>13. CloseInv'
    BY <1>1, <1>2, <1>3, PipeEnds
       DEF PipeInv, CloseInv, Busy, Notifying, Closing, Moving
<1>14. WriteCallInv'
    BY <1>1, <1>2, <1>3, PipeEnds
       DEF PipeInv, WriteCallInv, Moving, Notifying, PipeTypeOK, Busy, Running
<1>15. ReadCallInv'
    BY <1>1, <1>2, <1>3, PipeEnds
       DEF PipeInv, ReadCallInv, Moving, Notifying, PipeTypeOK, Busy, CloseInv, Running
<1>16. WriterBits'
    BY <1>1, <1>2, <1>3, PipeEnds
       DEF PipeInv, WriterBits, Moving, Notifying
<1>17. WriterTold'
    BY <1>1, <1>2, <1>3, PipeEnds
       DEF PipeInv, WriterTold, PipeTypeOK, WriterBits, CloseInv, Moving, Notifying,
           Busy, ReadCallInv
<1>18. ReaderBits'
  <2>1. ~fd["rx"].armed /\ pc["tx"] # "leave" /\ (term["tx"].ready => pc["tx"] # "closed")
    BY <1>1, PipeEnds DEF PipeInv, ReaderBits, CloseInv, Busy, Closing
  <2>2. CASE pc'["rx"] = "node" /\ fd' = fd
    BY <1>1, <1>2, <2>1, <2>2 DEF PipeInv, ReaderBits
  <2>3. CASE pc'["rx"] = "idle" /\ ~fd["rx"].status /\ fd' = fd
    BY <1>1, <1>2, <2>1, <2>3 DEF PipeInv, ReaderBits
  <2>4. CASE /\ ~fd["rx"].status /\ pc'["rx"] = "node"
             /\ ~fd'["rx"].armed /\ (fd'["rx"].events => fd["rx"].events)
    BY <1>1, <1>2, <1>3, <2>1, <2>4 DEF PipeInv, ReaderBits
  <2>5. CASE /\ ~fd["rx"].status /\ term["tx"].ready /\ pc'["rx"] = "pend"
             /\ fd'["rx"].armed /\ ~fd'["rx"].events
    BY <1>1, <1>2, <1>3, <2>1, <2>5 DEF PipeInv, ReaderBits
  <2> QED BY <1>3, <2>2, <2>3, <2>4, <2>5
<1>19. ReaderTold'
    BY <1>1, <1>2, <1>3, PipeEnds
       DEF PipeInv, ReaderTold, ReaderBits, ReadCallInv, WriteCallInv, WriterBits,
           CloseInv, Moving, Notifying, Busy, Running, Retrying
<1> QED BY <1>10, <1>11, <1>12, <1>13, <1>14, <1>15, <1>16, <1>17, <1>18, <1>19 DEF PipeInv

LEMMA ReadStaleKeeps ==
    ASSUME PipeInv, ReadStale
    PROVE  PipeInv'
<1>1. /\ pc["rx"] = "after" /\ active' = "rx"
      /\ high = "rx" \/ ~Busy("tx")
      /\ high = "tx" => ~Running("tx")
    BY ReaderGoes DEF ReadStale
<1>2. UNCHANGED <<nodes, size, term, todo, done, avail, closing, high, fails>>
    BY DEF ReadStale
<1>3. /\ fd' \in [Ends -> FdType] /\ fd'["tx"] = fd["tx"]
      /\ pc' \in [Ends -> AllPcs] /\ pc'["tx"] = pc["tx"]
      /\ done["rx"] = 0
      /\ fd'["rx"].sticky = fd["rx"].sticky /\ ~fd'["rx"].armed
      /\ \/ /\ pc'["rx"] = "check" /\ term["tx"].ready
            /\ ~fd'["rx"].status /\ (fd'["rx"].events => fd["rx"].sticky)
         \/ pc'["rx"] = "idle" /\ ~term["tx"].ready /\ fd' = fd
  <2>1. {"idle", "check"} \subseteq AllPcs
    BY DEF AllPcs, PcOf
  <2>2. ~fd["rx"].armed /\ done["rx"] = 0
    BY <1>1 DEF PipeInv, ReaderBits, ReadStale
  <2>3. fd["tx"] \in FdType /\ fd["rx"] \in FdType /\ fd \in [Ends -> FdType]
    BY PipeEnds DEF PipeInv, PipeTypeOK, FdType
  <2>4. CASE ~term["tx"].ready
    BY <2>1, <2>2, <2>3, <2>4, GotoFacts DEF ReadStale
  <2>5. CASE term["tx"].ready
    <3>1. Goto("rx", "check") /\ fd' = [fd EXCEPT !["rx"] = ClearStatus(fd["rx"])]
        BY <2>5 DEF ReadStale
    <3>2. ClearStatus(fd["rx"]) \in FdType
        BY <2>3, ClearStatusFacts
    <3>3. fd' \in [Ends -> FdType] /\ fd'["rx"] = ClearStatus(fd["rx"]) /\ fd'["tx"] = fd["tx"]
        BY <3>1, <3>2, FdNext
    <3>4. /\ ~fd'["rx"].status /\ fd'["rx"].sticky = fd["rx"].sticky /\ ~fd'["rx"].armed
          /\ fd'["rx"].events => fd["rx"].sticky
        BY <2>2, <2>3, <3>3, ClearStatusFacts
    <3> QED BY <2>1, <2>2, <2>5, <3>1, <3>3, <3>4, GotoFacts
  <2> QED BY <2>4, <2>5
<1>4. ~closing["rx"]
    BY <1>1 DEF PipeInv, CloseInv, Notifying, Closing
<1>5. nodes = <<>> /\ high # "tx" /\ todo["rx"] > 0
    BY <1>1, <1>3, <1>4 DEF PipeInv, ReadCallInv, Moving
<1>6. ~term["rx"].notified
    BY <1>1, <1>5 DEF PipeInv, ReaderTold
<1>7. ~term["tx"].ready => pc["tx"] = "closed"
    BY PipeEnds DEF PipeInv, CloseInv
<1>10. PipeTypeOK'
    BY <1>1, <1>2, <1>3, <1>4, <1>5, <1>6, <1>7, PipeEnds
       DEF PipeInv, PipeTypeOK, FdType, PcOf, Notifying, Closing
<1>11. BytesInv'
    BY <1>1, <1>2, <1>3, <1>4, <1>5, <1>6, <1>7, PipeEnds
       DEF PipeInv, BytesInv
<1>12. BusyInv'
    BY <1>1, <1>2, <1>3, <1>4, <1>5, <1>6, <1>7, PipeEnds
       DEF PipeInv, BusyInv, Busy
<1>13. CloseInv'
    BY <1>1, <1>2, <1>3, <1>4, <1>5, <1>6, <1>7, PipeEnds
       DEF PipeInv, CloseInv, Busy, Notifying, Closing, Moving
<1>14. WriteCallInv'
    BY <1>1, <1>2, <1>3, <1>4, <1>5, <1>6, <1>7, PipeEnds
       DEF PipeInv, WriteCallInv, Moving, Notifying, PipeTypeOK, Busy, Running
<1>15. ReadCallInv'
    BY <1>1, <1>2, <1>3, <1>5 DEF PipeInv, ReadCallInv, Moving, Notifying
<1>16. WriterBits'
    BY <1>1, <1>2, <1>3, <1>4, <1>5, <1>6, <1>7, PipeEnds
       DEF PipeInv, WriterBits, Moving, Notifying
<1>17. WriterTold'
    BY <1>1, <1>2, <1>3, <1>4, <1>5, <1>6, <1>7, PipeEnds
       DEF PipeInv, WriterTold, PipeTypeOK, WriterBits, CloseInv, Moving, Notifying,
           Busy, ReadCallInv
<1>18. ReaderBits'
    BY <1>1, <1>2, <1>3, <1>5, <1>7 DEF PipeInv, ReaderBits
<1>19. ReaderTold'
    BY <1>1, <1>2, <1>3, <1>5, <1>6 DEF PipeInv, ReaderTold
<1> QED BY <1>10, <1>11, <1>12, <1>13, <1>14, <1>15, <1>16, <1>17, <1>18, <1>19 DEF PipeInv

LEMMA ReadAfterKeeps ==
    ASSUME PipeInv, ReadAfter
    PROVE  PipeInv'
<1>1. /\ pc["rx"] = "after" /\ active' = "rx"
      /\ high = "rx" \/ ~Busy("tx")
      /\ high = "tx" => ~Running("tx")
    BY ReaderGoes DEF ReadAfter
<1>2. UNCHANGED <<nodes, size, term, todo, done, avail, closing, high, fails>>
    BY DEF ReadAfter
<1>3. /\ fd' \in [Ends -> FdType] /\ fd'["tx"] = fd["tx"]
      /\ pc' \in [Ends -> AllPcs]
      /\ pc'["rx"] = "idle" /\ pc'["tx"] = pc["tx"]
      /\ fd'["rx"].sticky = fd["rx"].sticky /\ ~fd'["rx"].armed
      /\ size = 0 => ~fd'["rx"].status /\ (fd'["rx"].events => fd["rx"].sticky)
      /\ size # 0 => fd'["rx"].status = fd["rx"].status /\ fd'["rx"].events
  <2>1. "idle" \in AllPcs
    BY DEF AllPcs, PcOf
  <2>2. ~fd["rx"].armed
    BY <1>1 DEF PipeInv, ReaderBits
  <2>3. fd["tx"] \in FdType /\ fd["rx"] \in FdType /\ fd \in [Ends -> FdType]
    BY PipeEnds DEF PipeInv, PipeTypeOK, FdType
  <2>4. pc' \in [Ends -> AllPcs] /\ pc'["rx"] = "idle" /\ pc'["tx"] = pc["tx"]
    BY <2>1, GotoFacts DEF ReadAfter
  <2>5. CASE size = 0
    <3>1. fd' = [fd EXCEPT !["rx"] = ClearStatus(fd["rx"])]
        BY <2>5 DEF ReadAfter
    <3>2. ClearStatus(fd["rx"]) \in FdType
        BY <2>3, ClearStatusFacts
    <3>3. fd' \in [Ends -> FdType] /\ fd'["rx"] = ClearStatus(fd["rx"]) /\ fd'["tx"] = fd["tx"]
        BY <3>1, <3>2, FdNext
    <3>4. /\ ~fd'["rx"].status /\ fd'["rx"].sticky = fd["rx"].sticky /\ ~fd'["rx"].armed
          /\ fd'["rx"].events => fd["rx"].sticky
        BY <2>2, <2>3, <3>3, ClearStatusFacts
    <3> QED BY <2>4, <2>5, <3>3, <3>4
  <2>6. CASE size # 0
    <3>1. fd' = [fd EXCEPT !["rx"] = SetEvents(fd["rx"])]
        BY <2>6 DEF ReadAfter
    <3>2. SetEvents(fd["rx"]) \in FdType
        BY <2>3, SetEventsFacts
    <3>3. fd' \in [Ends -> FdType] /\ fd'["rx"] = SetEvents(fd["rx"]) /\ fd'["tx"] = fd["tx"]
        BY <3>1, <3>2, FdNext
    <3>4. /\ fd'["rx"].status = fd["rx"].status /\ fd'["rx"].sticky = fd["rx"].sticky
          /\ ~fd'["rx"].armed /\ fd'["rx"].events
        BY <2>2, <2>3, <3>3, SetEventsFacts
    <3> QED BY <2>4, <2>6, <3>3, <3>4
  <2> QED BY <2>5, <2>6
<1>4. nodes = <<>> <=> size = 0
    BY EmptyHoldsNothing, SomeBytes, PipeAssumption DEF PipeInv, BytesInv, PipeTypeOK
<1>10. PipeTypeOK'
    BY <1>1, <1>2, <1>3, <1>4, PipeEnds
       DEF PipeInv, PipeTypeOK, FdType, PcOf, Notifying, Closing
<1>11. BytesInv'
    BY <1>1, <1>2, <1>3, <1>4, PipeEnds
       DEF PipeInv, BytesInv
<1>12. BusyInv'
    BY <1>1, <1>2, <1>3, <1>4, PipeEnds
       DEF PipeInv, BusyInv, Busy
<1>13. CloseInv'
    BY <1>1, <1>2, <1>3, <1>4, PipeEnds
       DEF PipeInv, CloseInv, Busy, Notifying, Closing, Moving
<1>14. WriteCallInv'
    BY <1>1, <1>2, <1>3, <1>4, PipeEnds
       DEF PipeInv, WriteCallInv, Moving, Notifying, PipeTypeOK, Busy, Running
<1>15. ReadCallInv'
    BY <1>1, <1>2, <1>3, <1>4, PipeEnds
       DEF PipeInv, ReadCallInv, Moving, Notifying, PipeTypeOK, Busy, CloseInv, Running
<1>16. WriterBits'
    BY <1>1, <1>2, <1>3, <1>4, PipeEnds
       DEF PipeInv, WriterBits, Moving, Notifying
<1>17. WriterTold'
    BY <1>1, <1>2, <1>3, <1>4, PipeEnds
       DEF PipeInv, WriterTold, PipeTypeOK, WriterBits, CloseInv, Moving, Notifying,
           Busy, ReadCallInv
<1>18. ReaderBits'
    BY <1>1, <1>2, <1>3, <1>4, PipeEnds
       DEF PipeInv, ReaderBits, ReaderTold, ReadCallInv, CloseInv, Moving, Notifying,
           Busy, Running, Retrying
<1>19. ReaderTold'
    BY <1>1, <1>2, <1>3, <1>4, PipeEnds
       DEF PipeInv, ReaderTold, ReaderBits, ReadCallInv, WriteCallInv, WriterBits,
           CloseInv, Moving, Notifying, Busy, Running, Retrying
<1> QED BY <1>10, <1>11, <1>12, <1>13, <1>14, <1>15, <1>16, <1>17, <1>18, <1>19 DEF PipeInv

LEMMA PollCheckKeeps ==
    ASSUME PipeInv, PollCheck
    PROVE  PipeInv'
<1>1. /\ pc["rx"] = "poll" /\ active' = "rx"
      /\ high = "rx" \/ ~Busy("tx")
      /\ high = "tx" => ~Running("tx")
    BY ReaderGoes DEF PollCheck
<1>2. UNCHANGED <<nodes, size, term, todo, done, avail, closing, high, fails>>
    BY DEF PollCheck
<1>3. /\ fd' \in [Ends -> FdType] /\ fd'["tx"] = fd["tx"]
      /\ pc' \in [Ends -> AllPcs] /\ pc'["tx"] = pc["tx"]
      /\ fd'["rx"].status = fd["rx"].status /\ fd'["rx"].sticky = fd["rx"].sticky
      /\ fd["rx"].events =>
         /\ pc'["rx"] = "idle" /\ ~fd'["rx"].armed
         /\ fd'["rx"].events <=> fd["rx"].sticky \/ fd["rx"].status
      /\ ~fd["rx"].events => pc'["rx"] = "pollpend" /\ fd'["rx"].armed /\ ~fd'["rx"].events
  <2>1. {"idle", "pollpend"} \subseteq AllPcs
    BY DEF AllPcs, PcOf
  <2>2. ~fd["rx"].armed
    BY <1>1 DEF PipeInv, ReaderBits
  <2>3. fd["tx"] \in FdType /\ fd["rx"] \in FdType /\ fd \in [Ends -> FdType]
    BY PipeEnds DEF PipeInv, PipeTypeOK, FdType
  <2> DEFINE g == IF fd["rx"].events
                  THEN [fd["rx"] EXCEPT !.events = fd["rx"].sticky \/ fd["rx"].status]
                  ELSE [fd["rx"] EXCEPT !.armed = TRUE]
  <2>4. g \in FdType
    BY <2>3 DEF FdType
  <2>5. /\ g.status = fd["rx"].status /\ g.sticky = fd["rx"].sticky
        /\ fd["rx"].events =>
             /\ ~g.armed
             /\ g.events <=> fd["rx"].sticky \/ fd["rx"].status
        /\ ~fd["rx"].events => g.armed /\ ~g.events
    BY <2>2, <2>3 DEF FdType
  <2>6. fd' = [fd EXCEPT !["rx"] = g]
    BY DEF PollCheck
  <2> HIDE DEF g
  <2>7. fd' \in [Ends -> FdType] /\ fd'["rx"] = g /\ fd'["tx"] = fd["tx"]
    BY <2>4, <2>6, FdNext
  <2>8. Goto("rx", IF fd["rx"].events THEN "idle" ELSE "pollpend")
    BY DEF PollCheck
  <2>9. /\ pc' \in [Ends -> AllPcs] /\ pc'["tx"] = pc["tx"]
        /\ fd["rx"].events => pc'["rx"] = "idle"
        /\ ~fd["rx"].events => pc'["rx"] = "pollpend"
    BY <2>1, <2>8, GotoFacts
  <2> QED BY <2>5, <2>7, <2>9
<1>10. PipeTypeOK'
    BY <1>1, <1>2, <1>3, PipeEnds
       DEF PipeInv, PipeTypeOK, FdType, PcOf, Notifying, Closing
<1>11. BytesInv'
    BY <1>1, <1>2, <1>3, PipeEnds
       DEF PipeInv, BytesInv
<1>12. BusyInv'
    BY <1>1, <1>2, <1>3, PipeEnds
       DEF PipeInv, BusyInv, Busy
<1>13. CloseInv'
    BY <1>1, <1>2, <1>3, PipeEnds
       DEF PipeInv, CloseInv, Busy, Notifying, Closing, Moving
<1>14. WriteCallInv'
    BY <1>1, <1>2, <1>3, PipeEnds
       DEF PipeInv, WriteCallInv, Moving, Notifying, PipeTypeOK, Busy, Running
<1>15. ReadCallInv'
    BY <1>1, <1>2, <1>3, PipeEnds
       DEF PipeInv, ReadCallInv, Moving, Notifying, PipeTypeOK, Busy, CloseInv, Running
<1>16. WriterBits'
    BY <1>1, <1>2, <1>3, PipeEnds
       DEF PipeInv, WriterBits, Moving, Notifying
<1>17. WriterTold'
    BY <1>1, <1>2, <1>3, PipeEnds
       DEF PipeInv, WriterTold, PipeTypeOK, WriterBits, CloseInv, Moving, Notifying,
           Busy, ReadCallInv
<1>18. ReaderBits'
    BY <1>1, <1>2, <1>3, PipeEnds
       DEF PipeInv, ReaderBits, ReaderTold, ReadCallInv, CloseInv, Moving, Notifying,
           Busy, Running, Retrying
<1>19. ReaderTold'
    BY <1>1, <1>2, <1>3, PipeEnds
       DEF PipeInv, ReaderTold, ReaderBits, ReadCallInv, WriteCallInv, WriterBits,
           CloseInv, Moving, Notifying, Busy, Running, Retrying
<1> QED BY <1>10, <1>11, <1>12, <1>13, <1>14, <1>15, <1>16, <1>17, <1>18, <1>19 DEF PipeInv

LEMMA PollWakeKeeps ==
    ASSUME PipeInv, PollWake
    PROVE  PipeInv'
<1>1. /\ pc["rx"] = "pollpend" /\ active' = "rx"
      /\ high = "rx" \/ ~Busy("tx")
      /\ high = "tx" => ~Running("tx")
    BY ReaderGoes DEF PollWake
<1>2. UNCHANGED <<nodes, size, term, todo, done, avail, closing, high, fails>>
    BY DEF PollWake
<1>3. /\ fd' \in [Ends -> FdType] /\ fd'["tx"] = fd["tx"]
      /\ pc' \in [Ends -> AllPcs]
      /\ pc'["rx"] = "poll" /\ pc'["tx"] = pc["tx"]
      /\ fd'["rx"].status = fd["rx"].status /\ fd'["rx"].sticky = fd["rx"].sticky
      /\ ~fd["rx"].armed /\ ~fd'["rx"].armed /\ fd'["rx"].events
  <2>1. "poll" \in AllPcs
    BY DEF AllPcs, PcOf, Notifying, Closing
  <2>2. /\ pc' \in [Ends -> AllPcs]
        /\ pc'["rx"] = "poll" /\ pc'["tx"] = pc["tx"]
    BY <2>1, GotoFacts DEF PollWake
  <2>3. fd["tx"] \in FdType /\ fd["rx"] \in FdType /\ fd \in [Ends -> FdType]
    BY PipeEnds DEF PipeInv, PipeTypeOK, FdType
  <2>4. ~fd["rx"].armed /\ fd' = [fd EXCEPT !["rx"].events = TRUE]
    BY DEF PollWake
  <2>5. /\ fd' \in [Ends -> FdType] /\ fd'["tx"] = fd["tx"]
        /\ fd'["rx"].status = fd["rx"].status /\ fd'["rx"].sticky = fd["rx"].sticky
        /\ fd'["rx"].armed = fd["rx"].armed /\ fd'["rx"].events
    BY <2>3, <2>4, PipeEnds DEF FdType
  <2> QED BY <2>2, <2>4, <2>5
<1>10. PipeTypeOK'
    BY <1>1, <1>2, <1>3, PipeEnds
       DEF PipeInv, PipeTypeOK, FdType, PcOf, Notifying, Closing
<1>11. BytesInv'
    BY <1>1, <1>2, <1>3, PipeEnds
       DEF PipeInv, BytesInv
<1>12. BusyInv'
    BY <1>1, <1>2, <1>3, PipeEnds
       DEF PipeInv, BusyInv, Busy
<1>13. CloseInv'
    BY <1>1, <1>2, <1>3, PipeEnds
       DEF PipeInv, CloseInv, Busy, Notifying, Closing, Moving
<1>14. WriteCallInv'
    BY <1>1, <1>2, <1>3, PipeEnds
       DEF PipeInv, WriteCallInv, Moving, Notifying, PipeTypeOK, Busy, Running
<1>15. ReadCallInv'
    BY <1>1, <1>2, <1>3, PipeEnds
       DEF PipeInv, ReadCallInv, Moving, Notifying, PipeTypeOK, Busy, CloseInv, Running
<1>16. WriterBits'
    BY <1>1, <1>2, <1>3, PipeEnds
       DEF PipeInv, WriterBits, Moving, Notifying
<1>17. WriterTold'
    BY <1>1, <1>2, <1>3, PipeEnds
       DEF PipeInv, WriterTold, PipeTypeOK, WriterBits, CloseInv, Moving, Notifying,
           Busy, ReadCallInv
<1>18. ReaderBits'
    BY <1>1, <1>2, <1>3, PipeEnds
       DEF PipeInv, ReaderBits, ReaderTold, ReadCallInv, CloseInv, Moving, Notifying,
           Busy, Running, Retrying
<1>19. ReaderTold'
    BY <1>1, <1>2, <1>3, PipeEnds
       DEF PipeInv, ReaderTold, ReaderBits, ReadCallInv, WriteCallInv, WriterBits,
           CloseInv, Moving, Notifying, Busy, Running, Retrying
<1> QED BY <1>10, <1>11, <1>12, <1>13, <1>14, <1>15, <1>16, <1>17, <1>18, <1>19 DEF PipeInv

LEMMA StartCloseRxKeeps ==
    ASSUME ClosePrios \subseteq {"none"}, PipeInv, StartClose("rx")
    PROVE  PipeInv'
<1>1. /\ pc["rx"] = "idle" /\ active' = "rx"
      /\ high = "rx" \/ ~Busy("tx")
      /\ high = "tx" => ~Running("tx")
    BY ReaderGoes DEF StartClose
<1>2. UNCHANGED <<nodes, size, term, fd, done, avail, high, fails>>
    BY DEF StartClose
<1>3. /\ pc' \in [Ends -> AllPcs]
      /\ pc'["rx"] = "node" /\ pc'["tx"] = pc["tx"]
      /\ high = "none"
      /\ todo' \in [Ends -> Nat]
      /\ todo'["tx"] = todo["tx"]
      /\ todo'["rx"] > 0
      /\ closing' \in [Ends -> BOOLEAN] /\ closing'["rx"] /\ closing'["tx"] = closing["tx"]
  <2>1. "node" \in AllPcs
    BY DEF AllPcs, PcOf, Notifying, Closing
  <2>2. /\ pc' \in [Ends -> AllPcs]
        /\ pc'["rx"] = "node" /\ pc'["tx"] = pc["tx"]
    BY <2>1, GotoFacts DEF StartClose
  <2>3. high = "none"
    BY DEF StartClose
  <2>4. /\ todo' \in [Ends -> Nat] /\ todo'["tx"] = todo["tx"]
        /\ todo'["rx"] > 0
    BY PipeEnds DEF StartClose, PipeInv, PipeTypeOK, Unlimited
  <2>5. closing' \in [Ends -> BOOLEAN] /\ closing'["rx"] /\ closing'["tx"] = closing["tx"]
    BY PipeEnds DEF StartClose, PipeInv, PipeTypeOK
  <2> QED BY <2>2, <2>3, <2>4, <2>5
<1>10. PipeTypeOK'
    BY <1>1, <1>2, <1>3, PipeEnds
       DEF PipeInv, PipeTypeOK, FdType, PcOf, Notifying, Closing
<1>11. BytesInv'
    BY <1>1, <1>2, <1>3, PipeEnds
       DEF PipeInv, BytesInv
<1>12. BusyInv'
    BY <1>1, <1>2, <1>3, PipeEnds
       DEF PipeInv, BusyInv, Busy
<1>13. CloseInv'
    BY <1>1, <1>2, <1>3, PipeEnds
       DEF PipeInv, CloseInv, Busy, Notifying, Closing, Moving
<1>14. WriteCallInv'
    BY <1>1, <1>2, <1>3, PipeEnds
       DEF PipeInv, WriteCallInv, Moving, Notifying, PipeTypeOK, Busy, Running
<1>15. ReadCallInv'
    BY <1>1, <1>2, <1>3, PipeEnds
       DEF PipeInv, ReadCallInv, Moving, Notifying, PipeTypeOK, Busy, CloseInv, Running
<1>16. WriterBits'
    BY <1>1, <1>2, <1>3, PipeEnds
       DEF PipeInv, WriterBits, Moving, Notifying
<1>17. WriterTold'
    BY <1>1, <1>2, <1>3, PipeEnds
       DEF PipeInv, WriterTold, PipeTypeOK, WriterBits, CloseInv, Moving, Notifying,
           Busy, ReadCallInv
<1>18. ReaderBits'
    BY <1>1, <1>2, <1>3, PipeEnds
       DEF PipeInv, ReaderBits, ReaderTold, ReadCallInv, CloseInv, Moving, Notifying,
           Busy, Running, Retrying
<1>19. ReaderTold'
    BY <1>1, <1>2, <1>3, PipeEnds
       DEF PipeInv, ReaderTold, ReaderBits, ReadCallInv, WriteCallInv, WriterBits,
           CloseInv, Moving, Notifying, Busy, Running, Retrying
<1> QED BY <1>10, <1>11, <1>12, <1>13, <1>14, <1>15, <1>16, <1>17, <1>18, <1>19 DEF PipeInv

LEMMA CloseDetachRxKeeps ==
    ASSUME PipeInv, CloseDetach("rx")
    PROVE  PipeInv'
<1>1. /\ pc["rx"] = "detach" /\ active' = "rx"
      /\ high = "rx" \/ ~Busy("tx")
      /\ high = "tx" => ~Running("tx")
    BY ReaderGoes DEF CloseDetach
<1>2. UNCHANGED <<nodes, size, term, todo, done, avail, closing, high, fails>>
    BY DEF CloseDetach
<1>3. /\ pc' \in [Ends -> AllPcs]
      /\ pc'["rx"] = "disconnect" /\ pc'["tx"] = pc["tx"]
      /\ fd' = fd
  <2>1. "disconnect" \in AllPcs
    BY DEF AllPcs, PcOf, Notifying, Closing
  <2>2. /\ pc' \in [Ends -> AllPcs]
        /\ pc'["rx"] = "disconnect" /\ pc'["tx"] = pc["tx"]
    BY <2>1, GotoFacts DEF CloseDetach
  <2>3. fd' = fd
    BY DEF CloseDetach
  <2> QED BY <2>2, <2>3
<1>10. PipeTypeOK'
    BY <1>1, <1>2, <1>3, PipeEnds
       DEF PipeInv, PipeTypeOK, FdType, PcOf, Notifying, Closing
<1>11. BytesInv'
    BY <1>1, <1>2, <1>3, PipeEnds
       DEF PipeInv, BytesInv
<1>12. BusyInv'
    BY <1>1, <1>2, <1>3, PipeEnds
       DEF PipeInv, BusyInv, Busy
<1>13. CloseInv'
    BY <1>1, <1>2, <1>3, PipeEnds
       DEF PipeInv, CloseInv, Busy, Notifying, Closing, Moving
<1>14. WriteCallInv'
    BY <1>1, <1>2, <1>3, PipeEnds
       DEF PipeInv, WriteCallInv, Moving, Notifying, PipeTypeOK, Busy, Running
<1>15. ReadCallInv'
    BY <1>1, <1>2, <1>3, PipeEnds
       DEF PipeInv, ReadCallInv, Moving, Notifying, PipeTypeOK, Busy, CloseInv, Running
<1>16. WriterBits'
    BY <1>1, <1>2, <1>3, PipeEnds
       DEF PipeInv, WriterBits, Moving, Notifying
<1>17. WriterTold'
    BY <1>1, <1>2, <1>3, PipeEnds
       DEF PipeInv, WriterTold, PipeTypeOK, WriterBits, CloseInv, Moving, Notifying,
           Busy, ReadCallInv
<1>18. ReaderBits'
    BY <1>1, <1>2, <1>3, PipeEnds
       DEF PipeInv, ReaderBits, ReaderTold, ReadCallInv, CloseInv, Moving, Notifying,
           Busy, Running, Retrying
<1>19. ReaderTold'
    BY <1>1, <1>2, <1>3, PipeEnds
       DEF PipeInv, ReaderTold, ReaderBits, ReadCallInv, WriteCallInv, WriterBits,
           CloseInv, Moving, Notifying, Busy, Running, Retrying
<1> QED BY <1>10, <1>11, <1>12, <1>13, <1>14, <1>15, <1>16, <1>17, <1>18, <1>19 DEF PipeInv

LEMMA DisconnectRxKeeps ==
    ASSUME PipeInv, Disconnect("rx")
    PROVE  PipeInv'
<1>1. /\ pc["rx"] = "disconnect" /\ active' = "rx"
      /\ high = "rx" \/ ~Busy("tx")
      /\ high = "tx" => ~Running("tx")
    BY ReaderGoes DEF Disconnect
<1>2. UNCHANGED <<nodes, size, term, todo, done, avail, closing, high, fails>>
    BY DEF Disconnect
<1>3. /\ pc' \in [Ends -> AllPcs]
      /\ pc'["rx"] = "leave" /\ pc'["tx"] = pc["tx"]
      /\ fd' \in [Ends -> FdType] /\ fd'["rx"] = fd["rx"]
      /\ term["tx"].ready =>
         /\ fd'["tx"].status /\ fd'["tx"].sticky = fd["tx"].sticky
         /\ fd'["tx"].armed <=> fd["tx"].armed /\ fd["tx"].status
         /\ fd'["tx"].events <=>
               \/ (fd["tx"].status /\ fd["tx"].events)
               \/ (~fd["tx"].status /\ (fd["tx"].armed => fd["tx"].sticky))
      /\ ~term["tx"].ready => fd' = fd
  <2>1. "leave" \in AllPcs
    BY DEF AllPcs, PcOf, Notifying, Closing
  <2>2. /\ pc' \in [Ends -> AllPcs]
        /\ pc'["rx"] = "leave" /\ pc'["tx"] = pc["tx"]
    BY <2>1, GotoFacts DEF Disconnect
  <2>3. fd["tx"] \in FdType /\ fd["rx"] \in FdType /\ fd \in [Ends -> FdType]
    BY PipeEnds DEF PipeInv, PipeTypeOK, FdType
  <2>4. term["rx"].ready
    BY <1>1, PipeEnds DEF PipeInv, CloseInv
  <2>5. CASE term["tx"].ready
    <3>1. fd' = [fd EXCEPT !["tx"] = SetStatus(fd["tx"])]
        BY <2>4, <2>5, PipeEnds DEF Disconnect
    <3>2. SetStatus(fd["tx"]) \in FdType
        BY <2>3, SetStatusFacts
    <3>3. fd' \in [Ends -> FdType] /\ fd'["tx"] = SetStatus(fd["tx"]) /\ fd'["rx"] = fd["rx"]
        BY <3>1, <3>2, FdNext
    <3> QED BY <2>2, <2>3, <2>5, <3>3, SetStatusFacts
  <2>6. CASE ~term["tx"].ready
    BY <2>2, <2>3, <2>6, PipeEnds DEF Disconnect
  <2> QED BY <2>5, <2>6
<1>4. high = "none" /\ (~term["tx"].ready => pc["tx"] = "closed")
    BY <1>1, PipeEnds DEF PipeInv, CloseInv, Closing
<1>10. PipeTypeOK'
    BY <1>1, <1>2, <1>3, <1>4, PipeEnds
       DEF PipeInv, PipeTypeOK, FdType, PcOf, Notifying, Closing
<1>11. BytesInv'
    BY <1>1, <1>2, <1>3, <1>4, PipeEnds
       DEF PipeInv, BytesInv
<1>12. BusyInv'
    BY <1>1, <1>2, <1>3, <1>4, PipeEnds
       DEF PipeInv, BusyInv, Busy
<1>13. CloseInv'
    BY <1>1, <1>2, <1>3, <1>4, PipeEnds
       DEF PipeInv, CloseInv, Busy, Notifying, Closing, Moving
<1>14. WriteCallInv'
    BY <1>1, <1>2, <1>3, <1>4, PipeEnds
       DEF PipeInv, WriteCallInv, Moving, Notifying, PipeTypeOK, Busy, Running
<1>15. ReadCallInv'
    BY <1>1, <1>2, <1>3, <1>4, PipeEnds
       DEF PipeInv, ReadCallInv, Moving, Notifying, PipeTypeOK, Busy, CloseInv, Running
<1>16. WriterBits'
    BY <1>1, <1>2, <1>3, <1>4, PipeEnds
       DEF PipeInv, WriterBits, Moving, Notifying
<1>17. WriterTold'
    BY <1>1, <1>2, <1>3, <1>4, PipeEnds
       DEF PipeInv, WriterTold, PipeTypeOK, WriterBits, CloseInv, Moving, Notifying,
           Busy, ReadCallInv
<1>18. ReaderBits'
    BY <1>1, <1>2, <1>3, <1>4, PipeEnds
       DEF PipeInv, ReaderBits, ReaderTold, ReadCallInv, CloseInv, Moving, Notifying,
           Busy, Running, Retrying
<1>19. ReaderTold'
    BY <1>1, <1>2, <1>3, <1>4, PipeEnds
       DEF PipeInv, ReaderTold, ReaderBits, ReadCallInv, WriteCallInv, WriterBits,
           CloseInv, Moving, Notifying, Busy, Running, Retrying
<1> QED BY <1>10, <1>11, <1>12, <1>13, <1>14, <1>15, <1>16, <1>17, <1>18, <1>19 DEF PipeInv

LEMMA LeaveRxKeeps ==
    ASSUME PipeInv, Leave("rx")
    PROVE  PipeInv'
<1>1. /\ pc["rx"] = "leave" /\ active' = "rx"
      /\ high = "rx" \/ ~Busy("tx")
      /\ high = "tx" => ~Running("tx")
    BY ReaderGoes DEF Leave
<1>2. UNCHANGED <<nodes, size, fd, todo, done, avail, closing, high, fails>>
    BY DEF Leave
<1>3. /\ pc' \in [Ends -> AllPcs]
      /\ pc'["rx"] = "closed" /\ pc'["tx"] = pc["tx"]
      /\ term' \in [Ends -> [ready : BOOLEAN, notified : BOOLEAN]]
      /\ term'["tx"] = term["tx"]
      /\ term'["rx"].notified = term["rx"].notified /\ ~term'["rx"].ready
  <2>1. "closed" \in AllPcs
    BY DEF AllPcs, PcOf, Notifying, Closing
  <2>2. /\ pc' \in [Ends -> AllPcs]
        /\ pc'["rx"] = "closed" /\ pc'["tx"] = pc["tx"]
    BY <2>1, GotoFacts DEF Leave
  <2>3. term \in [Ends -> [ready : BOOLEAN, notified : BOOLEAN]]
    BY DEF PipeInv, PipeTypeOK
  <2>4. term' = [term EXCEPT !["rx"].ready = FALSE]
    BY DEF Leave
  <2> QED BY PipeEnds, <2>2, <2>3, <2>4
<1>10. PipeTypeOK'
    BY <1>1, <1>2, <1>3, PipeEnds
       DEF PipeInv, PipeTypeOK, FdType, PcOf, Notifying, Closing
<1>11. BytesInv'
    BY <1>1, <1>2, <1>3, PipeEnds
       DEF PipeInv, BytesInv
<1>12. BusyInv'
    BY <1>1, <1>2, <1>3, PipeEnds
       DEF PipeInv, BusyInv, Busy
<1>13. CloseInv'
    BY <1>1, <1>2, <1>3, PipeEnds
       DEF PipeInv, CloseInv, Busy, Notifying, Closing, Moving
<1>14. WriteCallInv'
    BY <1>1, <1>2, <1>3, PipeEnds
       DEF PipeInv, WriteCallInv, Moving, Notifying, PipeTypeOK, Busy, Running
<1>15. ReadCallInv'
    BY <1>1, <1>2, <1>3, PipeEnds
       DEF PipeInv, ReadCallInv, Moving, Notifying, PipeTypeOK, Busy, CloseInv, Running
<1>16. WriterBits'
    BY <1>1, <1>2, <1>3, PipeEnds
       DEF PipeInv, WriterBits, Moving, Notifying
<1>17. WriterTold'
    BY <1>1, <1>2, <1>3, PipeEnds
       DEF PipeInv, WriterTold, PipeTypeOK, WriterBits, CloseInv, Moving, Notifying,
           Busy, ReadCallInv
<1>18. ReaderBits'
    BY <1>1, <1>2, <1>3, PipeEnds
       DEF PipeInv, ReaderBits, ReaderTold, ReadCallInv, CloseInv, Moving, Notifying,
           Busy, Running, Retrying
<1>19. ReaderTold'
    BY <1>1, <1>2, <1>3, PipeEnds
       DEF PipeInv, ReaderTold, ReaderBits, ReadCallInv, WriteCallInv, WriterBits,
           CloseInv, Moving, Notifying, Busy, Running, Retrying
<1> QED BY <1>10, <1>11, <1>12, <1>13, <1>14, <1>15, <1>16, <1>17, <1>18, <1>19 DEF PipeInv

LEMMA StartCloseTxKeeps ==
    ASSUME ClosePrios \subseteq {"none"}, PipeInv, StartClose("tx")
    PROVE  PipeInv'
<1>1. /\ pc["tx"] = "idle" /\ active' = "tx"
      /\ high = "tx" \/ ~Busy("rx")
      /\ high = "rx" => ~Running("rx")
    BY WriterGoes DEF StartClose
<1>2. UNCHANGED <<nodes, size, term, fd, done, avail, high, fails>>
    BY DEF StartClose
<1>3. /\ pc' \in [Ends -> AllPcs]
      /\ pc'["tx"] = "detach" /\ pc'["rx"] = pc["rx"]
      /\ high = "none"
      /\ todo' \in [Ends -> Nat]
      /\ todo'["rx"] = todo["rx"]
      /\ closing' \in [Ends -> BOOLEAN] /\ closing'["tx"] /\ closing'["rx"] = closing["rx"]
  <2>1. "detach" \in AllPcs
    BY DEF AllPcs, PcOf, Notifying, Closing
  <2>2. /\ pc' \in [Ends -> AllPcs]
        /\ pc'["tx"] = "detach" /\ pc'["rx"] = pc["rx"]
    BY <2>1, GotoFacts DEF StartClose
  <2>3. high = "none"
    BY DEF StartClose
  <2>4. /\ todo' \in [Ends -> Nat] /\ todo'["rx"] = todo["rx"]
    BY PipeEnds DEF StartClose, PipeInv, PipeTypeOK, Unlimited
  <2>5. closing' \in [Ends -> BOOLEAN] /\ closing'["tx"] /\ closing'["rx"] = closing["rx"]
    BY PipeEnds DEF StartClose, PipeInv, PipeTypeOK
  <2> QED BY <2>2, <2>3, <2>4, <2>5
<1>10. PipeTypeOK'
    BY <1>1, <1>2, <1>3, PipeEnds
       DEF PipeInv, PipeTypeOK, FdType, PcOf, Notifying, Closing
<1>11. BytesInv'
    BY <1>1, <1>2, <1>3, PipeEnds
       DEF PipeInv, BytesInv
<1>12. BusyInv'
    BY <1>1, <1>2, <1>3, PipeEnds
       DEF PipeInv, BusyInv, Busy
<1>13. CloseInv'
    BY <1>1, <1>2, <1>3, PipeEnds
       DEF PipeInv, CloseInv, Busy, Notifying, Closing, Moving
<1>14. WriteCallInv'
    BY <1>1, <1>2, <1>3, PipeEnds
       DEF PipeInv, WriteCallInv, Moving, Notifying, PipeTypeOK, Busy, Running
<1>15. ReadCallInv'
    BY <1>1, <1>2, <1>3, PipeEnds
       DEF PipeInv, ReadCallInv, Moving, Notifying, PipeTypeOK, Busy, CloseInv, Running
<1>16. WriterBits'
    BY <1>1, <1>2, <1>3, PipeEnds
       DEF PipeInv, WriterBits, Moving, Notifying
<1>17. WriterTold'
    BY <1>1, <1>2, <1>3, PipeEnds
       DEF PipeInv, WriterTold, PipeTypeOK, WriterBits, CloseInv, Moving, Notifying,
           Busy, ReadCallInv
<1>18. ReaderBits'
    BY <1>1, <1>2, <1>3, PipeEnds
       DEF PipeInv, ReaderBits, ReaderTold, ReadCallInv, CloseInv, Moving, Notifying,
           Busy, Running, Retrying
<1>19. ReaderTold'
    BY <1>1, <1>2, <1>3, PipeEnds
       DEF PipeInv, ReaderTold, ReaderBits, ReadCallInv, WriteCallInv, WriterBits,
           CloseInv, Moving, Notifying, Busy, Running, Retrying
<1> QED BY <1>10, <1>11, <1>12, <1>13, <1>14, <1>15, <1>16, <1>17, <1>18, <1>19 DEF PipeInv

LEMMA CloseDetachTxKeeps ==
    ASSUME PipeInv, CloseDetach("tx")
    PROVE  PipeInv'
<1>1. /\ pc["tx"] = "detach" /\ active' = "tx"
      /\ high = "tx" \/ ~Busy("rx")
      /\ high = "rx" => ~Running("rx")
    BY WriterGoes DEF CloseDetach
<1>2. UNCHANGED <<nodes, size, term, todo, done, avail, closing, high, fails>>
    BY DEF CloseDetach
<1>3. /\ pc' \in [Ends -> AllPcs]
      /\ pc'["tx"] = "disconnect" /\ pc'["rx"] = pc["rx"]
      /\ fd' \in [Ends -> FdType] /\ fd'["tx"] = fd["tx"]
      /\ fd'["rx"].status = fd["rx"].status /\ fd'["rx"].events = fd["rx"].events
      /\ fd'["rx"].armed = fd["rx"].armed
  <2>1. "disconnect" \in AllPcs
    BY DEF AllPcs, PcOf, Notifying, Closing
  <2>2. /\ pc' \in [Ends -> AllPcs]
        /\ pc'["tx"] = "disconnect" /\ pc'["rx"] = pc["rx"]
    BY <2>1, GotoFacts DEF CloseDetach
  <2>3. fd["tx"] \in FdType /\ fd["rx"] \in FdType /\ fd \in [Ends -> FdType]
    BY PipeEnds DEF PipeInv, PipeTypeOK, FdType
  <2>4. /\ fd' \in [Ends -> FdType] /\ fd'["tx"] = fd["tx"]
        /\ fd'["rx"].status = fd["rx"].status /\ fd'["rx"].events = fd["rx"].events
        /\ fd'["rx"].armed = fd["rx"].armed
    <3>1. CASE closing["rx"]
        BY <2>3, <3>1 DEF CloseDetach
    <3>2. CASE ~closing["rx"]
      <4>1. fd' = [fd EXCEPT !["rx"].sticky = TRUE]
        BY <3>2 DEF CloseDetach
      <4> QED BY <2>3, <4>1, PipeEnds DEF FdType
    <3> QED BY <3>1, <3>2
  <2> QED BY <2>2, <2>4
<1>4. high = "none"
    BY <1>1, PipeEnds DEF PipeInv, CloseInv, Closing
<1>10. PipeTypeOK'
    BY <1>1, <1>2, <1>3, <1>4, PipeEnds
       DEF PipeInv, PipeTypeOK, FdType, PcOf, Notifying, Closing
<1>11. BytesInv'
    BY <1>1, <1>2, <1>3, <1>4, PipeEnds
       DEF PipeInv, BytesInv
<1>12. BusyInv'
    BY <1>1, <1>2, <1>3, <1>4, PipeEnds
       DEF PipeInv, BusyInv, Busy
<1>13. CloseInv'
    BY <1>1, <1>2, <1>3, <1>4, PipeEnds
       DEF PipeInv, CloseInv, Busy, Notifying, Closing, Moving
<1>14. WriteCallInv'
    BY <1>1, <1>2, <1>3, <1>4, PipeEnds
       DEF PipeInv, WriteCallInv, Moving, Notifying, PipeTypeOK, Busy, Running
<1>15. ReadCallInv'
    BY <1>1, <1>2, <1>3, <1>4, PipeEnds
       DEF PipeInv, ReadCallInv, Moving, Notifying, PipeTypeOK, Busy, CloseInv, Running
<1>16. WriterBits'
    BY <1>1, <1>2, <1>3, <1>4, PipeEnds
       DEF PipeInv, WriterBits, Moving, Notifying
<1>17. WriterTold'
    BY <1>1, <1>2, <1>3, <1>4, PipeEnds
       DEF PipeInv, WriterTold, PipeTypeOK, WriterBits, CloseInv, Moving, Notifying,
           Busy, ReadCallInv
<1>18. ReaderBits'
    BY <1>1, <1>2, <1>3, <1>4 DEF PipeInv, ReaderBits
<1>19. ReaderTold'
    BY <1>1, <1>2, <1>3, <1>4, PipeEnds
       DEF PipeInv, ReaderTold, ReaderBits, ReadCallInv, WriteCallInv, WriterBits,
           CloseInv, Moving, Notifying, Busy, Running, Retrying
<1> QED BY <1>10, <1>11, <1>12, <1>13, <1>14, <1>15, <1>16, <1>17, <1>18, <1>19 DEF PipeInv

LEMMA DisconnectTxKeeps ==
    ASSUME PipeInv, Disconnect("tx")
    PROVE  PipeInv'
<1>1. /\ pc["tx"] = "disconnect" /\ active' = "tx"
      /\ high = "tx" \/ ~Busy("rx")
      /\ high = "rx" => ~Running("rx")
    BY WriterGoes DEF Disconnect
<1>2. UNCHANGED <<nodes, size, term, todo, done, avail, closing, high, fails>>
    BY DEF Disconnect
<1>3. /\ pc' \in [Ends -> AllPcs]
      /\ pc'["tx"] = "leave" /\ pc'["rx"] = pc["rx"]
      /\ fd' \in [Ends -> FdType] /\ fd'["tx"] = fd["tx"]
      /\ term["rx"].ready =>
         /\ fd'["rx"].status /\ fd'["rx"].sticky = fd["rx"].sticky
         /\ fd'["rx"].armed <=> fd["rx"].armed /\ fd["rx"].status
         /\ fd'["rx"].events <=>
               \/ (fd["rx"].status /\ fd["rx"].events)
               \/ (~fd["rx"].status /\ (fd["rx"].armed => fd["rx"].sticky))
      /\ ~term["rx"].ready => fd' = fd
  <2>1. "leave" \in AllPcs
    BY DEF AllPcs, PcOf, Notifying, Closing
  <2>2. /\ pc' \in [Ends -> AllPcs]
        /\ pc'["tx"] = "leave" /\ pc'["rx"] = pc["rx"]
    BY <2>1, GotoFacts DEF Disconnect
  <2>3. fd["tx"] \in FdType /\ fd["rx"] \in FdType /\ fd \in [Ends -> FdType]
    BY PipeEnds DEF PipeInv, PipeTypeOK, FdType
  <2>4. term["tx"].ready
    BY <1>1, PipeEnds DEF PipeInv, CloseInv
  <2>5. CASE term["rx"].ready
    <3>1. fd' = [fd EXCEPT !["rx"] = SetStatus(fd["rx"])]
        BY <2>4, <2>5, PipeEnds DEF Disconnect
    <3>2. SetStatus(fd["rx"]) \in FdType
        BY <2>3, SetStatusFacts
    <3>3. fd' \in [Ends -> FdType] /\ fd'["rx"] = SetStatus(fd["rx"]) /\ fd'["tx"] = fd["tx"]
        BY <3>1, <3>2, FdNext
    <3> QED BY <2>2, <2>3, <2>5, <3>3, SetStatusFacts
  <2>6. CASE ~term["rx"].ready
    BY <2>2, <2>3, <2>6, PipeEnds DEF Disconnect
  <2> QED BY <2>5, <2>6
<1>4. high = "none" /\ (~term["rx"].ready => pc["rx"] = "closed")
    BY <1>1, PipeEnds DEF PipeInv, CloseInv, Closing
<1>10. PipeTypeOK'
    BY <1>1, <1>2, <1>3, <1>4, PipeEnds
       DEF PipeInv, PipeTypeOK, FdType, PcOf, Notifying, Closing
<1>11. BytesInv'
    BY <1>1, <1>2, <1>3, <1>4, PipeEnds
       DEF PipeInv, BytesInv
<1>12. BusyInv'
    BY <1>1, <1>2, <1>3, <1>4, PipeEnds
       DEF PipeInv, BusyInv, Busy
<1>13. CloseInv'
    BY <1>1, <1>2, <1>3, <1>4, PipeEnds
       DEF PipeInv, CloseInv, Busy, Notifying, Closing, Moving
<1>14. WriteCallInv'
    BY <1>1, <1>2, <1>3, <1>4, PipeEnds
       DEF PipeInv, WriteCallInv, Moving, Notifying, PipeTypeOK, Busy, Running
<1>15. ReadCallInv'
    BY <1>1, <1>2, <1>3, <1>4, PipeEnds
       DEF PipeInv, ReadCallInv, Moving, Notifying, PipeTypeOK, Busy, CloseInv, Running
<1>16. WriterBits'
    BY <1>1, <1>2, <1>3, <1>4, PipeEnds
       DEF PipeInv, WriterBits, Moving, Notifying
<1>17. WriterTold'
    BY <1>1, <1>2, <1>3, <1>4, PipeEnds
       DEF PipeInv, WriterTold, PipeTypeOK, WriterBits, CloseInv, Moving, Notifying,
           Busy, ReadCallInv
<1>18. ReaderBits'
    BY <1>1, <1>2, <1>3, <1>4, PipeEnds
       DEF PipeInv, ReaderBits, ReaderTold, ReadCallInv, CloseInv, Moving, Notifying,
           Busy, Running, Retrying
<1>19. ReaderTold'
  <2>1. CASE term["rx"].ready
    BY <1>1, <1>2, <1>3, <1>4, <2>1 DEF PipeInv, ReaderTold
  <2>2. CASE ~term["rx"].ready
    BY <1>1, <1>2, <1>3, <1>4, <2>2 DEF PipeInv, ReaderTold, Notifying
  <2> QED BY <2>1, <2>2
<1> QED BY <1>10, <1>11, <1>12, <1>13, <1>14, <1>15, <1>16, <1>17, <1>18, <1>19 DEF PipeInv

LEMMA LeaveTxKeeps ==
    ASSUME PipeInv, Leave("tx")
    PROVE  PipeInv'
<1>1. /\ pc["tx"] = "leave" /\ active' = "tx"
      /\ high = "tx" \/ ~Busy("rx")
      /\ high = "rx" => ~Running("rx")
    BY WriterGoes DEF Leave
<1>2. UNCHANGED <<nodes, size, fd, todo, done, avail, closing, high, fails>>
    BY DEF Leave
<1>3. /\ pc' \in [Ends -> AllPcs]
      /\ pc'["tx"] = "closed" /\ pc'["rx"] = pc["rx"]
      /\ term' \in [Ends -> [ready : BOOLEAN, notified : BOOLEAN]]
      /\ term'["rx"] = term["rx"]
      /\ term'["tx"].notified = term["tx"].notified /\ ~term'["tx"].ready
  <2>1. "closed" \in AllPcs
    BY DEF AllPcs, PcOf, Notifying, Closing
  <2>2. /\ pc' \in [Ends -> AllPcs]
        /\ pc'["tx"] = "closed" /\ pc'["rx"] = pc["rx"]
    BY <2>1, GotoFacts DEF Leave
  <2>3. term \in [Ends -> [ready : BOOLEAN, notified : BOOLEAN]]
    BY DEF PipeInv, PipeTypeOK
  <2>4. term' = [term EXCEPT !["tx"].ready = FALSE]
    BY DEF Leave
  <2> QED BY PipeEnds, <2>2, <2>3, <2>4
<1>10. PipeTypeOK'
    BY <1>1, <1>2, <1>3, PipeEnds
       DEF PipeInv, PipeTypeOK, FdType, PcOf, Notifying, Closing
<1>11. BytesInv'
    BY <1>1, <1>2, <1>3, PipeEnds
       DEF PipeInv, BytesInv
<1>12. BusyInv'
    BY <1>1, <1>2, <1>3, PipeEnds
       DEF PipeInv, BusyInv, Busy
<1>13. CloseInv'
    BY <1>1, <1>2, <1>3, PipeEnds
       DEF PipeInv, CloseInv, Busy, Notifying, Closing, Moving
<1>14. WriteCallInv'
    BY <1>1, <1>2, <1>3, PipeEnds
       DEF PipeInv, WriteCallInv, Moving, Notifying, PipeTypeOK, Busy, Running
<1>15. ReadCallInv'
    BY <1>1, <1>2, <1>3, PipeEnds
       DEF PipeInv, ReadCallInv, Moving, Notifying, PipeTypeOK, Busy, CloseInv, Running
<1>16. WriterBits'
    BY <1>1, <1>2, <1>3, PipeEnds
       DEF PipeInv, WriterBits, Moving, Notifying
<1>17. WriterTold'
    BY <1>1, <1>2, <1>3, PipeEnds
       DEF PipeInv, WriterTold, PipeTypeOK, WriterBits, CloseInv, Moving, Notifying,
           Busy, ReadCallInv
<1>18. ReaderBits'
    BY <1>1, <1>2, <1>3, PipeEnds
       DEF PipeInv, ReaderBits, ReaderTold, ReadCallInv, CloseInv, Moving, Notifying,
           Busy, Running, Retrying
<1>19. ReaderTold'
    BY <1>1, <1>2, <1>3, PipeEnds
       DEF PipeInv, ReaderTold, ReaderBits, ReadCallInv, WriteCallInv, WriterBits,
           CloseInv, Moving, Notifying, Busy, Running, Retrying
<1> QED BY <1>10, <1>11, <1>12, <1>13, <1>14, <1>15, <1>16, <1>17, <1>18, <1>19 DEF PipeInv

------------------------------------------------------------------------------
(* The theorem *)

LEMMA PipeStarts ==
    ASSUME PipeInit
    PROVE  PipeInv
<1>1. PipeTypeOK
    BY PipeEnds, PipeAssumption DEF PipeInit, PipeTypeOK, PcOf
<1>2. BytesInv
    BY PipeEnds, NoBytes DEF PipeInit, BytesInv, AllPcs, PcOf
<1>3. \A e \in Ends : pc[e] = "idle" /\ term[e].ready /\ ~term[e].notified
    BY DEF PipeInit
<1>4. \A e \in Ends : ~closing[e] /\ ~fd[e].sticky /\ ~fd[e].armed
    BY DEF PipeInit
<1>5. fd["tx"].status /\ fd["tx"].events /\ ~fd["rx"].status /\ ~fd["rx"].events
    BY PipeEnds DEF PipeInit
<1>6. nodes = <<>>
    BY DEF PipeInit
<1>7. BusyInv /\ CloseInv
    BY <1>3, <1>4, PipeEnds DEF BusyInv, Busy, CloseInv, Closing
<1>8. WriteCallInv /\ ReadCallInv
    BY <1>3, PipeEnds DEF WriteCallInv, ReadCallInv, Moving, Notifying
<1>9. WriterBits /\ WriterTold
    BY <1>3, <1>4, <1>5, PipeEnds DEF WriterBits, WriterTold, Moving, Notifying
<1>10. ReaderBits /\ ReaderTold
    BY <1>3, <1>4, <1>5, <1>6, PipeEnds DEF ReaderBits, ReaderTold, Moving, Notifying
<1> QED BY <1>1, <1>2, <1>7, <1>8, <1>9, <1>10 DEF PipeInv

LEMMA PipeStutters ==
    ASSUME PipeInv, UNCHANGED pipeVars
    PROVE  PipeInv'
BY DEF PipeInv, pipeVars, PipeTypeOK, BytesInv, BusyInv, Busy, CloseInv, WriteCallInv,
       ReadCallInv, WriterBits, WriterTold, ReaderBits, ReaderTold, Retrying

LEMMA PipeKept ==
    ASSUME ClosePrios \subseteq {"none"}, PipeInv, [PipeNext]_pipeVars
    PROVE  PipeInv'
<1>1. CASE UNCHANGED pipeVars
    BY <1>1, PipeStutters
<1>2. CASE \E n \in ReadSizes : StartRead(n)
    BY <1>2, StartReadKeeps
<1>3. CASE \E n \in WriteSizes : StartWrite(n)
    BY <1>3, StartWriteKeeps
<1>4. CASE StartPoll
    BY <1>4, StartPollKeeps
<1>5. CASE \E e \in Ends : StartClose(e)
    BY <1>5, PipeEnds, StartCloseTxKeeps, StartCloseRxKeeps
<1>6. CASE ReaderStep
    BY <1>6, ReadCheckKeeps, WakeRxKeeps, ReadNodeKeeps, ReadNodesEndKeeps,
       NotifyClearRxKeeps, NotifyTestRxKeeps, NotifySetRxKeeps, NotifyCallRxKeeps,
       ReadStaleKeeps, ReadAfterKeeps, PollCheckKeeps, PollWakeKeeps,
       CloseDetachRxKeeps, DisconnectRxKeeps, LeaveRxKeeps
       DEF ReaderStep, Notify
<1>7. CASE WriterStep
    BY <1>7, WriteCheckKeeps, WakeTxKeeps, WriteAvailKeeps, WriteEnqueueKeeps,
       NotifyClearTxKeeps, NotifyTestTxKeeps, NotifySetTxKeeps, NotifyCallTxKeeps,
       WriteAfterKeeps, CloseDetachTxKeeps, DisconnectTxKeeps, LeaveTxKeeps
       DEF WriterStep, Notify
<1> QED BY <1>1, <1>2, <1>3, <1>4, <1>5, <1>6, <1>7 DEF PipeNext

LEMMA InvMeansWoken ==
    ASSUME PipeInv
    PROVE  BlockedIsWoken
<1>1. PipeTypeOK
    BY DEF PipeInv
<1>2. ReaderIsWoken
    BY DEF PipeInv, ReaderIsWoken, Blocked, ReaderBits, ReaderTold
<1>3. WriterIsWoken
    BY DEF PipeInv, WriterIsWoken, Blocked, WriterBits, WriterTold
<1>4. EofIsSeen
    BY PipeEnds DEF PipeInv, EofIsSeen, Blocked, ReaderBits, CloseInv
<1>5. ClosedIsNotCalled
    BY PipeEnds DEF PipeInv, ClosedIsNotCalled, CloseInv
<1> QED BY <1>1, <1>2, <1>3, <1>4, <1>5 DEF BlockedIsWoken

(***************************************************************************)
(* Nobody stays blocked on a pipe that has data, space or its end for him  *)
(* unless the other thread is about to wake him, and the handler of a      *)
(* closed end is not called (BlockedIsWoken): for every capacity, all      *)
(* sizes of the calls, any number of failing allocations and every setting *)
(* of the two priorities, provided that only threads of equal priority     *)
(* close an end.                                                           *)
(***************************************************************************)
THEOREM PipeThreadsAreWoken ==
    ASSUME ClosePrios \subseteq {"none"}
    PROVE  PipeSpec => []BlockedIsWoken
<1>1. PipeInit => PipeInv
    BY PipeStarts
<1>2. PipeInv /\ [PipeNext]_pipeVars => PipeInv'
    BY PipeKept
<1>3. PipeInv => BlockedIsWoken
    BY InvMeansWoken
<1> QED BY <1>1, <1>2, <1>3, PTL DEF PipeSpec
==============================================================================
