----------------------- MODULE ArrayAndCallbackProofs -----------------------
(***************************************************************************)
(* Proofs about the array event queue, for every number of agents,         *)
(* contexts and nodes, and after them proofs about the callback timers,    *)
(* for every number of timers.  The two have nothing in common.            *)
(***************************************************************************)
EXTENDS EvtqArrayRefines, CallbackTimer, ListLemmas, FiniteSetTheorems,
        SequenceTheorems, WellFoundedInduction, TLAPS


\* Moving an index forward in the ring stays in the ring and is injective.
LEMMA IncFacts ==
    /\ \A i \in Idx : Inc(i) \in Idx
    /\ \A i, j \in Idx : Inc(i) = Inc(j) => i = j
    /\ \A i \in Idx : Inc(i) # i
BY SizeAssumption DEF Inc, Idx

\* Every action keeps every variable in its type.
LEMMA TypeStep == TypeOK /\ [Next]_vars => TypeOK'
<1> SUFFICES ASSUME TypeOK, [Next]_vars PROVE TypeOK'
    OBVIOUS
<1> USE CntAssumption, IncFacts DEF TypeOK, ringVars, edaVars, pollVars
<1>1. ASSUME NEW p \in Posters, Produce(p) PROVE TypeOK'
  <2>1. ASSUME NEW e \in Edas, NEW v \in Evts, NEW f \in BOOLEAN,
               Post(p, e, v, f)
        PROVE  TypeOK'
    <3>1. (evt_cnt[e] + 1) % CntMod \in 0 .. CntMod - 1
      <4>1. PICK n \in Nat : n = evt_cnt[e] + 1
        OBVIOUS
      <4>2. CntMod \in Nat /\ CntMod > 0
        BY SizeAssumption
      <4>3. n % CntMod \in 0 .. CntMod - 1
        BY <4>2
      <4> QED BY <4>1, <4>3
    <3> QED BY <2>1, <3>1 DEF Post, Enqueue
  <2>2. ASSUME NEW e \in Edas, NEW f \in BOOLEAN,
               PostRefused(p, e, f) \/ PostFull(p, e, f)
        PROVE  TypeOK'
    BY <2>2 DEF PostRefused, PostFull
  <2>3. ASSUME NEW e \in Edas, NEW v \in Evts, Start(p, e, v) PROVE TypeOK'
    <3>1. (0 + 1) % CntMod \in 0 .. CntMod - 1
        OBVIOUS
    <3> QED BY <2>3, <3>1 DEF Start, Enqueue
  <2>4. ASSUME NEW e \in Edas, Kill(p, e) PROVE TypeOK'
    BY <2>4 DEF Kill, OnEdaFini
  <2>5. CASE Activate(p)
    BY <2>5 DEF Activate
  <2>6. CASE PostError(p)
    BY <2>6 DEF PostError
  <2> QED BY <1>1, <2>1, <2>2, <2>3, <2>4, <2>5, <2>6 DEF Produce
<1>2. CASE Poll
  <2>1. CASE SwiEnter \/ PollEmpty
    BY <2>1 DEF SwiEnter, PollEmpty, PcStates
  <2>2. CASE PollFetch
    BY <2>2 DEF PollFetch, PcStates
  <2>3. CASE PollExit
    BY <2>3 DEF PollExit, PcStates
  <2>4. CASE PollPop
    BY <2>4 DEF PollPop, PcStates
  <2>5. CASE PollStart
    BY <2>5 DEF PollStart, PcStates
  <2>6. CASE PollFinish
    <3>1. \A e \in Edas : (evt_cnt[e] - 1) % CntMod \in 0 .. CntMod - 1
        OBVIOUS
    <3> QED BY <2>6, <3>1 DEF PollFinish, PcStates, NoNode
  <2>7. CASE PollTerminate
    BY <2>7 DEF PollTerminate, PcStates
  <2>8. CASE CleanStep
    BY <2>8 DEF CleanStep
  <2>9. CASE CleanEnd
    <3>1. 0 \in Idx
        BY SizeAssumption DEF Idx
    <3> QED BY <2>9, <3>1 DEF CleanEnd, NoClean, PcStates
  <2> QED BY <1>2, <2>1, <2>2, <2>3, <2>4, <2>5, <2>6, <2>7, <2>8, <2>9
      DEF Poll
<1>3. CASE Handle
  <2>1. CASE HandlerReturn
    BY <2>1 DEF HandlerReturn, PcStates
  <2>2. ASSUME NEW b \in BOOLEAN, SetLimitted(b) PROVE TypeOK'
    BY <2>2 DEF SetLimitted
  <2>3. CASE Fini
    BY <2>3 DEF Fini, OnEdaFini
  <2>4. ASSUME NEW v \in CleanEvts, CleanBegin(v) PROVE TypeOK'
    BY <2>4, EvtAssumption DEF CleanBegin, PcStates
  <2> QED BY <1>3, <2>1, <2>2, <2>3, <2>4 DEF Handle
<1>4. CASE UNCHANGED vars
    BY <1>4 DEF vars
<1> QED BY <1>1, <1>2, <1>3, <1>4 DEF Next

LEMMA TypeInit == Init => TypeOK
<1>1. 0 \in Idx /\ 0 \in 0 .. CntMod - 1
    BY SizeAssumption, CntAssumption DEF Idx
<1> SUFFICES ASSUME Init PROVE TypeOK
    OBVIOUS
<1>2. swi \in BOOLEAN /\ is_limitted \in [Edas -> BOOLEAN]
                     /\ is_to_exit \in [Edas -> BOOLEAN]
    BY Zenon DEF Init
<1>3. node \in [Idx -> [eda : Edas \cup {NoEda}, evt : Evts \cup {NoEvt}]]
    BY DEF Init, NoNode
<1> QED BY <1>1, <1>2, <1>3 DEF Init, TypeOK, NoNode, NoClean, PcStates

\* TypeOK holds in every reachable state of the array event queue.
THEOREM TypeCorrect == Spec => []TypeOK
BY TypeInit, TypeStep, PTL DEF Spec

-----------------------------------------------------------------------------
(* No event is forgotten *)

LEMMA WakeupStep == TypeOK /\ NoLostWakeup /\ [Next]_vars => NoLostWakeup'
<1> SUFFICES ASSUME TypeOK, NoLostWakeup, [Next]_vars PROVE NoLostWakeup'
    OBVIOUS
<1> USE DEF TypeOK, NoLostWakeup, ringVars, edaVars, pollVars
<1>1. ASSUME NEW p \in Posters, Produce(p) PROVE NoLostWakeup'
  <2>1. ASSUME NEW e \in Edas, NEW v \in Evts, NEW f \in BOOLEAN,
               Post(p, e, v, f) \/ Start(p, e, v)
        PROVE  NoLostWakeup'
    BY <2>1 DEF Post, Start, Enqueue
  <2>2. ASSUME NEW e \in Edas, NEW f \in BOOLEAN,
               PostRefused(p, e, f) \/ PostFull(p, e, f)
        PROVE  NoLostWakeup'
    BY <2>2 DEF PostRefused, PostFull, MayCall
  <2>3. ASSUME NEW e \in Edas, Kill(p, e) PROVE NoLostWakeup'
    BY <2>3 DEF Kill
  <2>4. CASE Activate(p) \/ PostError(p)
    BY <2>4 DEF Activate, PostError
  <2> QED BY <1>1, <2>1, <2>2, <2>3, <2>4 DEF Produce
<1>2. CASE Poll
    BY <1>2 DEF Poll, SwiEnter, PollPop, PollEmpty, PollFetch, PollStart,
               PollFinish, PollExit, PollTerminate, CleanStep, CleanEnd
<1>3. CASE Handle
    BY <1>3 DEF Handle, HandlerReturn, SetLimitted, Fini, CleanBegin
<1>4. CASE UNCHANGED vars
    BY <1>4 DEF vars
<1> QED BY <1>1, <1>2, <1>3, <1>4 DEF Next

\* For every number of producers: while the ring holds an event, the software
\* interrupt runs, is pending or is about to be raised.
THEOREM NeverForgotten == Spec => []NoLostWakeup
<1>1. Init => NoLostWakeup
    BY DEF Init, NoLostWakeup
<1> QED BY <1>1, TypeCorrect, WakeupStep, PTL DEF Spec

-----------------------------------------------------------------------------
(* The node that poll reads *)

\* The node that poll has taken and not read yet is the one before head.
ReadsBeforeHead == pc \in {"popped", "start"} => Inc(slot) = head

LEMMA ReadsStep == TypeOK /\ ReadsBeforeHead /\ [Next]_vars => ReadsBeforeHead'
<1> SUFFICES ASSUME TypeOK, ReadsBeforeHead, [Next]_vars PROVE ReadsBeforeHead'
    OBVIOUS
<1> USE DEF TypeOK, ReadsBeforeHead, ringVars, edaVars, pollVars, Inc
<1>1. ASSUME NEW p \in Posters, Produce(p) PROVE ReadsBeforeHead'
    BY <1>1 DEF Produce, Post, Start, Enqueue, PostRefused, PostFull, Kill,
               Activate, PostError
<1>2. CASE Poll
    BY <1>2 DEF Poll, SwiEnter, PollPop, PollEmpty, PollFetch, PollStart,
               PollFinish, PollExit, PollTerminate, CleanStep, CleanEnd
<1>3. CASE Handle
    BY <1>3 DEF Handle, HandlerReturn, SetLimitted, Fini, CleanBegin
<1>4. CASE UNCHANGED vars
    BY <1>4 DEF vars
<1> QED BY <1>1, <1>2, <1>3, <1>4 DEF Next

\* A producer writes the node at tail, and only if the ring is not full; the
\* node before head is at tail only in a full ring.
LEMMA TakenNodeKept ==
    ASSUME TypeOK, ReadsBeforeHead, [Next]_vars, pc \in {"popped", "start"}
    PROVE  node'[slot] = node[slot]
<1> USE DEF TypeOK, ReadsBeforeHead, ringVars, edaVars, pollVars
<1>1. ASSUME NEW p \in Posters, Produce(p) PROVE node'[slot] = node[slot]
  <2>1. ASSUME NEW e \in Edas, NEW v \in Evts, NEW f \in BOOLEAN,
               Post(p, e, v, f) \/ Start(p, e, v)
        PROVE  node'[slot] = node[slot]
    BY <2>1 DEF Post, Start, Enqueue, Full
  <2> QED BY <1>1, <2>1 DEF Produce, PostRefused, PostFull, Kill, Activate,
                           PostError
<1>2. CASE Poll
    BY <1>2 DEF Poll, SwiEnter, PollPop, PollEmpty, PollFetch, PollStart,
               PollFinish, PollExit, PollTerminate, CleanStep, CleanEnd
<1>3. CASE Handle
    BY <1>3 DEF Handle, HandlerReturn, SetLimitted, Fini, CleanBegin
<1>4. CASE UNCHANGED vars
    BY <1>4 DEF vars
<1> QED BY <1>1, <1>2, <1>3, <1>4 DEF Next

\* For every ring size and every number of producers: what poll reads from a
\* node after it moved head is what was posted.
THEOREM TakenNodeStable == Spec => PoppedNodeStable
<1>1. Init => ReadsBeforeHead
    BY DEF Init, ReadsBeforeHead
<1>2. Spec => [](TypeOK /\ ReadsBeforeHead)
    BY <1>1, TypeCorrect, ReadsStep, PTL DEF Spec
<1>3. TypeOK /\ ReadsBeforeHead /\ [Next]_vars
        => [(pc \in {"popped", "start"}) => node'[slot] = node[slot]]_vars
    BY TakenNodeKept
<1> QED BY <1>2, <1>3, PTL DEF Spec, PoppedNodeStable

-----------------------------------------------------------------------------
(* The event count *)

\* Strengthens CountExact: nothing is left of an agent that is gone, and what
\* poll reads unprotected about an exiting agent stays true until it is used.
CountInv ==
    /\ CountExact
    /\ \A e \in Edas \ live : Queued(e) = {} /\ ~Popped(e)
    /\ pc \in {"start", "dispatch", "finish", "exit", "terminate"}
         => eda \in Edas
    /\ pc = "exit" => eda \in live \/ ~is_to_exit[eda]
    /\ pc = "terminate" => eda \in live /\ is_to_exit[eda] /\ evt_cnt[eda] = 0
    /\ pc # "clean"

\* A count in the range of the uint8_t is stored as it is.
LEMMA NoWrap == \A n \in 0 .. CntMod - 1 : n % CntMod = n
BY CntAssumption, SizeAssumption

\* One node of the ring is never used.
LEMMA SlotsBound ==
    ASSUME NEW t \in Idx, NEW S \in SUBSET (Idx \ {t})
    PROVE  IsFiniteSet(S) /\ Cardinality(S) \in Nat /\ Cardinality(S) < Size
<1>1. IsFiniteSet(Idx) /\ Cardinality(Idx) = Size
    BY SizeAssumption, FS_Interval, 0 \in Int, Size - 1 \in Int DEF Idx
<1>2. IsFiniteSet(Idx \ {t}) /\ Cardinality(Idx \ {t}) = Size - 1
    BY <1>1, FS_RemoveElement
<1>3. IsFiniteSet(S) /\ Cardinality(S) <= Size - 1
    BY <1>2, FS_Subset
<1> QED BY <1>3, FS_CardinalityType, SizeAssumption

LEMMA QueuedBound ==
    ASSUME TypeOK, NEW e
    PROVE  /\ IsFiniteSet(Queued(e))
           /\ Cardinality(Queued(e)) \in Nat
           /\ Cardinality(Queued(e)) < Size
<1>1. Queued(e) \in SUBSET (Idx \ {tail})
    BY DEF TypeOK, Queued, InRing, Idx
<1> QED BY <1>1, SlotsBound DEF TypeOK

\* The ring grows by the node at tail.
LEMMA RingGrows ==
    ASSUME TypeOK, ~Full, tail' = Inc(tail), head' = head
    PROVE  /\ ~InRing(tail)
           /\ \A i \in Idx : InRing(i)' <=> InRing(i) \/ i = tail
BY SizeAssumption DEF TypeOK, Full, Inc, InRing, Idx

\* The ring shrinks by the node at head.
LEMMA RingShrinks ==
    ASSUME TypeOK, head # tail, head' = Inc(head), tail' = tail
    PROVE  /\ InRing(head)
           /\ \A i \in Idx : InRing(i)' <=> InRing(i) /\ i # head
BY SizeAssumption DEF TypeOK, Inc, InRing, Idx

\* An event that enters the ring is counted once, for its agent only.
LEMMA EnqueueCounts ==
    ASSUME TypeOK, TypeOK', ReadsBeforeHead, ~Full, UNCHANGED <<head, pollVars>>,
           NEW p, NEW e \in Edas, NEW v \in Evts, NEW cnt, Enqueue(p, e, v, cnt)
    PROVE  /\ Cardinality(Queued(e)') = Cardinality(Queued(e)) + 1
           /\ Cardinality(Queued(e)') < Size
           /\ \A x \in Edas \ {e} : Queued(x)' = Queued(x)
           /\ \A x \in Edas : Popped(x)' <=> Popped(x)
<1>1. /\ node' = [node EXCEPT ![tail] = [eda |-> e, evt |-> v]]
      /\ tail' = Inc(tail) /\ head' = head
    BY DEF Enqueue
<1>2. /\ ~InRing(tail)
      /\ \A i \in Idx : InRing(i)' <=> InRing(i) \/ i = tail
    BY <1>1, RingGrows
<1>3. \A i \in Idx : node'[i].eda = IF i = tail THEN e ELSE node[i].eda
    BY <1>1 DEF TypeOK
<1>4. Queued(e)' = Queued(e) \cup {tail} /\ tail \notin Queued(e)
    BY <1>2, <1>3 DEF Queued, TypeOK
<1>5. \A x \in Edas \ {e} : Queued(x)' = Queued(x)
  <2> SUFFICES ASSUME NEW x \in Edas, x # e PROVE Queued(x)' = Queued(x)
    OBVIOUS
  <2>1. ASSUME NEW i \in Idx
        PROVE  InRing(i)' /\ node'[i].eda = x <=> InRing(i) /\ node[i].eda = x
    BY <1>2, <1>3
  <2> QED BY <2>1 DEF Queued
<1>6. IsFiniteSet(Queued(e))
    BY QueuedBound
<1>7. Cardinality(Queued(e)') = Cardinality(Queued(e)) + 1
    BY <1>4, <1>6, FS_AddElement
<1>8. Cardinality(Queued(e)') < Size
    <2>a. tail' \in Idx /\ head' \in Idx
        BY DEF TypeOK
    <2>b. ~InRing(tail)'
        BY <2>a DEF InRing, Idx
    <2>c. Queued(e)' \subseteq Idx /\ tail' \notin Queued(e)'
        BY <2>b DEF Queued
    <2>1. Queued(e)' \in SUBSET (Idx \ {tail'}) /\ tail' \in Idx
        BY <2>a, <2>c
    <2> QED BY <2>1, SlotsBound
<1>9. pc = "popped" => slot # tail
    BY DEF ReadsBeforeHead, Full
<1>10. \A x \in Edas : Popped(x)' <=> Popped(x)
    BY <1>3, <1>9 DEF Popped, pollVars, TypeOK
<1> QED BY <1>5, <1>7, <1>8, <1>10

\* An agent whose count is zero has nothing in the ring or in poll.
LEMMA ZeroIsClear ==
    ASSUME TypeOK, CountInv, NEW e \in live, evt_cnt[e] = 0
    PROVE  Queued(e) = {} /\ ~Popped(e)
BY QueuedBound, FS_EmptySet DEF CountInv, CountExact

\* Steps that neither touch the ring nor the counters.
LEMMA CountFrame ==
    ASSUME TypeOK, CountInv, UNCHANGED <<ringVars, evt_cnt, live>>,
           \A e \in Edas : Popped(e)' <=> Popped(e)
    PROVE  /\ CountExact'
           /\ \A e \in Edas \ live' : Queued(e)' = {} /\ ~Popped(e)'
<1>1. \A e : Queued(e)' = Queued(e)
    BY DEF Queued, InRing, ringVars
<1> QED BY <1>1 DEF CountInv, CountExact, TypeOK

\* vsf_evtq_on_eda_fini, from whatever context.
LEMMA FiniIsCounted ==
    ASSUME TypeOK, CountInv, NEW e \in Edas, MayReceive(e), OnEdaFini(e),
           UNCHANGED <<ringVars, evt_cnt, pollVars>>
    PROVE  CountInv'
<1>1. \A x : (Queued(x)' = Queued(x)) /\ (Popped(x)' <=> Popped(x))
    BY DEF Queued, InRing, Popped, ringVars, pollVars
<1>2. e \in live /\ ~is_to_exit[e] /\ UNCHANGED <<evt_cnt, pc, eda>>
    BY DEF MayReceive, pollVars
<1>3. CASE evt_cnt[e] = 0
  <2>1. live' = live \ {e} /\ is_to_exit' = is_to_exit
    BY <1>3 DEF OnEdaFini
  <2>2. Queued(e) = {} /\ ~Popped(e)
    BY <1>2, <1>3, ZeroIsClear
  <2> QED BY <1>1, <1>2, <2>1, <2>2 DEF CountInv, CountExact
<1>4. CASE evt_cnt[e] # 0
  <2>1. live' = live /\ is_to_exit' = [is_to_exit EXCEPT ![e] = TRUE]
    BY <1>4 DEF OnEdaFini
  <2> QED BY <1>1, <1>2, <2>1 DEF CountInv, CountExact, TypeOK
<1> QED BY <1>3, <1>4

LEMMA CountProduce ==
    ASSUME TypeOK, TypeOK', ReadsBeforeHead, CountInv,
           NEW p \in Posters, Produce(p)
    PROVE  CountInv'
<1>1. ASSUME NEW e \in Edas, NEW v \in Evts, NEW f \in BOOLEAN,
             Post(p, e, v, f)
      PROVE  CountInv'
  <2>1. /\ e \in live /\ ~is_to_exit[e] /\ ~Full
        /\ Enqueue(p, e, v, evt_cnt[e])
        /\ UNCHANGED <<head, is_limitted, is_to_exit, live, pollVars, swi>>
    BY <1>1 DEF Post, MayReceive
  <2>2. /\ Cardinality(Queued(e)') = Cardinality(Queued(e)) + 1
        /\ Cardinality(Queued(e)') < Size
        /\ \A x \in Edas \ {e} : Queued(x)' = Queued(x)
        /\ \A x \in Edas : Popped(x)' <=> Popped(x)
    BY <2>1, EnqueueCounts
  <2>3. evt_cnt[e] + 1 \in 0 .. CntMod - 1
    BY <2>1, <2>2, QueuedBound, SizeAssumption, CntAssumption
       DEF CountInv, CountExact
  <2>4. evt_cnt' = [evt_cnt EXCEPT ![e] = evt_cnt[e] + 1]
    BY <2>1, <2>3, NoWrap DEF Enqueue
  <2>5. CountExact'
    BY <2>1, <2>2, <2>4, QueuedBound DEF CountInv, CountExact, TypeOK
  <2> QED BY <2>1, <2>2, <2>4, <2>5 DEF CountInv, pollVars, TypeOK
<1>2. ASSUME NEW e \in Edas, NEW v \in Evts, Start(p, e, v) PROVE CountInv'
  <2>1. /\ e \notin live /\ ~Full /\ live' = live \cup {e}
        /\ is_to_exit' = [is_to_exit EXCEPT ![e] = FALSE]
        /\ Enqueue(p, e, v, 0)
        /\ UNCHANGED <<head, pollVars, swi>>
    BY <1>2 DEF Start
  <2>2. /\ Cardinality(Queued(e)') = Cardinality(Queued(e)) + 1
        /\ \A x \in Edas \ {e} : Queued(x)' = Queued(x)
        /\ \A x \in Edas : Popped(x)' <=> Popped(x)
    BY <2>1, EnqueueCounts
  <2>3. evt_cnt' = [evt_cnt EXCEPT ![e] = 1]
    <3>1. (0 + 1) % CntMod = 1
        BY CntAssumption, SizeAssumption
    <3> QED BY <2>1, <3>1 DEF Enqueue
  <2>4. Cardinality(Queued(e)) = 0 /\ ~Popped(e)
    BY <2>1, FS_EmptySet DEF CountInv
  <2>5. CountExact'
    BY <2>1, <2>2, <2>3, <2>4 DEF CountInv, CountExact, TypeOK
  <2> QED BY <2>1, <2>2, <2>3, <2>5 DEF CountInv, pollVars, TypeOK
<1>3. ASSUME NEW e \in Edas, Kill(p, e) PROVE CountInv'
    BY <1>3, FiniIsCounted DEF Kill
<1>4. ASSUME NEW e \in Edas, NEW f \in BOOLEAN,
             \/ PostRefused(p, e, f) \/ PostFull(p, e, f)
             \/ Activate(p) \/ PostError(p)
      PROVE  CountInv'
  <2>1. UNCHANGED <<ringVars, edaVars, pollVars>>
    BY <1>4 DEF PostRefused, PostFull, Activate, PostError
  <2> QED BY <2>1, CountFrame DEF CountInv, Popped, ringVars, edaVars, pollVars
<1>5. CASE Activate(p) \/ PostError(p)
  <2>1. UNCHANGED <<ringVars, edaVars, pollVars>>
    BY <1>5 DEF Activate, PostError
  <2> QED BY <2>1, CountFrame DEF CountInv, Popped, ringVars, edaVars, pollVars
<1> QED BY <1>1, <1>2, <1>3, <1>4, <1>5 DEF Produce

LEMMA CountPoll ==
    ASSUME TypeOK, ReadsBeforeHead, CountInv, Poll
    PROVE  CountInv'
<1>1. CASE SwiEnter \/ PollEmpty \/ PollFetch \/ PollStart
  <2>1. UNCHANGED <<ringVars, edaVars>>
    BY <1>1 DEF SwiEnter, PollEmpty, PollFetch, PollStart
  <2>2. \A e \in Edas : Popped(e)' <=> Popped(e)
    BY <1>1, <2>1, EdaAssumption
       DEF SwiEnter, PollEmpty, PollFetch, PollStart, Popped, ringVars
  <2>3. CountExact' /\ \A e \in Edas \ live' : Queued(e)' = {} /\ ~Popped(e)'
    BY <2>1, <2>2, CountFrame DEF edaVars
  <2> QED BY <1>1, <2>3
          DEF SwiEnter, PollEmpty, PollFetch, PollStart, CountInv, TypeOK
<1>2. CASE PollPop
  <2>1. /\ head # tail /\ head' = Inc(head) /\ slot' = head /\ pc = "poll"
        /\ pc' = "popped" /\ UNCHANGED <<node, tail, edaVars, eda>>
    BY <1>2 DEF PollPop
  <2>2. /\ InRing(head)
        /\ \A i \in Idx : InRing(i)' <=> InRing(i) /\ i # head
    BY <2>1, RingShrinks
  <2>3. \A e \in Edas : Queued(e)' = Queued(e) \ {head}
    BY <2>1, <2>2 DEF Queued
  <2>4. /\ \A e \in Edas : ~Popped(e)
        /\ \A e \in Edas : head \in Queued(e) => Popped(e)'
        /\ \A e \in Edas : head \notin Queued(e) => ~Popped(e)'
    BY <2>1, <2>2 DEF Popped, Queued, TypeOK
  <2>5. \A e \in Edas : Cardinality(Queued(e)') =
                           IF head \in Queued(e) THEN Cardinality(Queued(e)) - 1
                                                 ELSE Cardinality(Queued(e))
    <3> SUFFICES ASSUME NEW e \in Edas
                 PROVE  Cardinality(Queued(e) \ {head}) =
                           IF head \in Queued(e) THEN Cardinality(Queued(e)) - 1
                                                 ELSE Cardinality(Queued(e))
        BY <2>3
    <3> QED BY QueuedBound, FS_RemoveElement
  <2>6. CountExact'
    BY <2>1, <2>4, <2>5, QueuedBound DEF CountInv, CountExact, TypeOK, edaVars
  <2> QED BY <2>1, <2>3, <2>4, <2>6 DEF CountInv, edaVars
<1>3. CASE PollFinish
  <2>1. /\ pc = "finish" /\ pc' = "exit" /\ eda' = eda /\ eda \in Edas
        /\ evt_cnt' = [evt_cnt EXCEPT ![eda] = (@ - 1) % CntMod]
        /\ UNCHANGED <<ringVars, is_to_exit, live>>
    BY <1>3 DEF PollFinish, CountInv
  <2>2. /\ Popped(eda)
        /\ \A e \in Edas \ {eda} : ~Popped(e)
        /\ \A e \in Edas : ~Popped(e)'
        /\ \A e \in Edas : Queued(e)' = Queued(e)
    BY <2>1 DEF Queued, InRing, Popped, ringVars
  <2>3. eda \in live
    BY <2>1, <2>2 DEF CountInv
  <2>4. evt_cnt[eda] - 1 = Cardinality(Queued(eda))
    <3>1. evt_cnt[eda] = Cardinality(Queued(eda)) + 1
        BY <2>1, <2>2, <2>3 DEF CountInv, CountExact
    <3>2. Cardinality(Queued(eda)) \in Nat
        BY QueuedBound
    <3> QED BY <3>1, <3>2
  <2>5. evt_cnt[eda] - 1 \in 0 .. CntMod - 1
    BY <2>1, <2>4, QueuedBound, CntAssumption DEF TypeOK
  <2>6. evt_cnt' = [evt_cnt EXCEPT ![eda] = evt_cnt[eda] - 1]
    BY <2>1, <2>5, NoWrap
  <2>7. CountExact'
    BY <2>1, <2>2, <2>4, <2>6, QueuedBound DEF CountInv, CountExact, TypeOK
  <2> QED BY <2>1, <2>2, <2>3, <2>7 DEF CountInv
<1>4. CASE PollExit
  <2>1. UNCHANGED <<ringVars, edaVars, eda>> /\ pc = "exit"
    BY <1>4 DEF PollExit
  <2>2. \A e \in Edas : Popped(e)' <=> Popped(e)
    BY <1>4, <2>1 DEF PollExit, Popped
  <2>3. CountExact' /\ \A e \in Edas \ live' : Queued(e)' = {} /\ ~Popped(e)'
    BY <2>1, <2>2, CountFrame DEF edaVars
  <2> QED BY <1>4, <2>1, <2>3 DEF PollExit, CountInv, edaVars
<1>5. CASE PollTerminate
  <2>1. /\ pc = "terminate" /\ pc' = "poll" /\ live' = live \ {eda}
        /\ UNCHANGED <<ringVars, evt_cnt, is_to_exit, eda>>
    BY <1>5 DEF PollTerminate
  <2>2. \A e \in Edas : Queued(e)' = Queued(e) /\ ~Popped(e) /\ ~Popped(e)'
    BY <2>1 DEF Queued, InRing, Popped, ringVars
  <2>3. Queued(eda) = {}
    BY <2>1, ZeroIsClear DEF CountInv
  <2> QED BY <2>1, <2>2, <2>3 DEF CountInv, CountExact, TypeOK
<1> QED BY <1>1, <1>2, <1>3, <1>4, <1>5
        DEF Poll, CountInv, CleanStep, CleanEnd

LEMMA CountHandle ==
    ASSUME TypeOK, CountInv, Handle, CleanEvts = {}
    PROVE  CountInv'
<1>1. CASE HandlerReturn \/ \E b \in BOOLEAN : SetLimitted(b)
  <2>1. UNCHANGED <<ringVars, evt_cnt, is_to_exit, live, eda>>
        /\ pc = "dispatch" /\ pc' \in {"dispatch", "finish"}
    BY <1>1 DEF HandlerReturn, SetLimitted, InHandler, pollVars, edaVars
  <2>2. \A e \in Edas : Popped(e)' <=> Popped(e)
    BY <2>1 DEF Popped
  <2>3. CountExact' /\ \A e \in Edas \ live' : Queued(e)' = {} /\ ~Popped(e)'
    BY <2>1, <2>2, CountFrame
  <2> QED BY <2>1, <2>3 DEF CountInv
<1>2. CASE Fini
  <2>1. cur.eda \in Edas
    BY <1>2 DEF Fini, MayReceive, TypeOK
  <2> QED BY <1>2, <2>1, FiniIsCounted DEF Fini
<1> QED BY <1>1, <1>2 DEF Handle

LEMMA CountInvariant ==
    ASSUME CleanEvts = {}
    PROVE  Spec => [](TypeOK /\ CountInv)
<1>1. Init => TypeOK /\ ReadsBeforeHead /\ CountInv
  <2> SUFFICES ASSUME Init PROVE CountInv
    BY TypeInit DEF Init, ReadsBeforeHead
  <2>1. \A e : Queued(e) = {} /\ ~Popped(e)
    BY SizeAssumption DEF Init, Queued, InRing, Idx, Popped
  <2> QED BY <2>1 DEF Init, CountInv, CountExact
<1>2. TypeOK /\ ReadsBeforeHead /\ CountInv /\ [Next]_vars
        => TypeOK' /\ ReadsBeforeHead' /\ CountInv'
  <2> SUFFICES ASSUME TypeOK, ReadsBeforeHead, CountInv, [Next]_vars
               PROVE  CountInv'
    BY TypeStep, ReadsStep
  <2>1. CASE Next
    BY <2>1, TypeStep, CountProduce, CountPoll, CountHandle DEF Next
  <2>2. CASE UNCHANGED vars
    <3>1. \A e \in Edas : Popped(e)' <=> Popped(e)
        BY <2>2 DEF vars, Popped
    <3> QED BY <2>2, <3>1, CountFrame DEF vars, ringVars, CountInv
  <2> QED BY <2>1, <2>2
<1> QED BY <1>1, <1>2, PTL DEF Spec

\* evt_cnt is exact, for every ring size below the range of the counter and
\* whatever contexts post, start and kill agents, as long as no handler calls
\* vsf_evtq_clean_evt.
THEOREM CountCorrect ==
    ASSUME CleanEvts = {}
    PROVE  Spec => []CountExact
<1>1. CountInv => CountExact
    BY DEF CountInv
<1> QED BY <1>1, CountInvariant, PTL

\* Under the same assumption __vsf_evtq_post returns VSF_ERR_FAIL only while an
\* event of the agent is queued or being handled.
THEOREM RefusalCorrect ==
    ASSUME CleanEvts = {}
    PROVE  Spec => RefusedOnlyWhilePending
<1>1. ASSUME TypeOK, CountInv, NEW p \in Posters, NEW e \in Edas,
             NEW force \in BOOLEAN, PostRefused(p, e, force)
      PROVE  Queued(e) # {} \/ Popped(e)
  <2>1. e \in live /\ evt_cnt[e] # 0
    BY <1>1 DEF PostRefused, MayReceive, Refused
  <2>2. evt_cnt[e] = Cardinality(Queued(e)) + (IF Popped(e) THEN 1 ELSE 0)
    BY <1>1, <2>1 DEF CountInv, CountExact
  <2> QED BY <2>1, <2>2, FS_EmptySet
<1>2. TypeOK /\ CountInv =>
        [\A p \in Posters, e \in Edas, force \in BOOLEAN :
           PostRefused(p, e, force) => Queued(e) # {} \/ Popped(e)]_vars
    BY <1>1
<1> QED BY <1>2, CountInvariant, PTL DEF RefusedOnlyWhilePending

-----------------------------------------------------------------------------
(* The end of an agent *)

\* Strengthens ExitIsFinished: the handler that finalises an agent is the one
\* of the agent that poll is serving, and that agent is still there when poll
\* looks at it for the last time.
ExitInv ==
    /\ pc = "dispatch" => cur.eda = eda
    /\ pc = "exit" => eda \in live
    /\ ExitIsFinished

\* Steps that change neither the agents nor what the ring and poll hold of them.
LEMMA ExitFrame ==
    ASSUME TypeOK, ExitInv, UNCHANGED <<ringVars, is_to_exit, live>>,
           pc \notin {"exit", "terminate"},
           \A e \in Edas : Popped(e)' <=> Popped(e)
    PROVE  ExitIsFinished'
<1>1. \A e : Queued(e)' = Queued(e)
    BY DEF Queued, InRing, ringVars
<1> QED BY <1>1 DEF ExitInv, ExitIsFinished, TypeOK

LEMMA ExitProduce ==
    ASSUME TypeOK, TypeOK', ReadsBeforeHead, ExitInv, Killers = {},
           NEW p \in Posters, Produce(p)
    PROVE  ExitInv'
<1>1. UNCHANGED pollVars /\ live \subseteq live'
    BY DEF Produce, Post, Start, Kill, PostRefused, PostFull, Activate,
           PostError, edaVars
<1>2. ExitIsFinished'
  <2>1. ASSUME NEW e \in Edas, NEW v \in Evts, NEW f \in BOOLEAN,
               Post(p, e, v, f)
        PROVE  ExitIsFinished'
    <3>1. ~is_to_exit[e] /\ is_to_exit' = is_to_exit /\ live' = live
        BY <2>1 DEF Post, MayReceive
    <3>2. /\ \A x \in Edas \ {e} : Queued(x)' = Queued(x)
          /\ \A x \in Edas : Popped(x)' <=> Popped(x)
        BY <1>1, <2>1, EnqueueCounts DEF Post
    <3> QED BY <1>1, <3>1, <3>2 DEF ExitInv, ExitIsFinished, TypeOK, pollVars
  <2>2. ASSUME NEW e \in Edas, NEW v \in Evts, Start(p, e, v)
        PROVE  ExitIsFinished'
    <3>1. /\ live' = live \cup {e}
          /\ is_to_exit' = [is_to_exit EXCEPT ![e] = FALSE]
        BY <2>2 DEF Start
    <3>2. /\ \A x \in Edas \ {e} : Queued(x)' = Queued(x)
          /\ \A x \in Edas : Popped(x)' <=> Popped(x)
        BY <1>1, <2>2, EnqueueCounts DEF Start
    <3> QED BY <1>1, <3>1, <3>2 DEF ExitInv, ExitIsFinished, TypeOK, pollVars
  <2>3. CASE UNCHANGED <<ringVars, edaVars>>
    BY <1>1, <2>3 DEF ExitInv, ExitIsFinished, Queued, InRing, Popped,
                     ringVars, edaVars, pollVars
  <2> QED BY <2>1, <2>2, <2>3
          DEF Produce, Kill, PostRefused, PostFull, Activate, PostError
<1> QED BY <1>1, <1>2 DEF ExitInv, pollVars

LEMMA ExitPoll ==
    ASSUME TypeOK, CountInv, ExitInv, Poll
    PROVE  ExitInv'
<1>1. CASE SwiEnter \/ PollEmpty \/ PollFetch \/ PollStart
  <2>1. UNCHANGED <<ringVars, edaVars>> /\ pc \notin {"exit", "terminate"}
    BY <1>1 DEF SwiEnter, PollEmpty, PollFetch, PollStart
  <2>2. \A e \in Edas : Popped(e)' <=> Popped(e)
    BY <1>1, <2>1, EdaAssumption
       DEF SwiEnter, PollEmpty, PollFetch, PollStart, Popped, ringVars
  <2>3. ExitIsFinished'
    BY <2>1, <2>2, ExitFrame DEF edaVars
  <2> QED BY <1>1, <2>3
          DEF SwiEnter, PollEmpty, PollFetch, PollStart, ExitInv
<1>2. CASE PollPop
  <2>1. /\ head # tail /\ head' = Inc(head) /\ slot' = head /\ pc = "poll"
        /\ pc' = "popped" /\ UNCHANGED <<node, tail, is_to_exit, live>>
    BY <1>2 DEF PollPop, edaVars
  <2>2. /\ InRing(head)
        /\ \A i \in Idx : InRing(i)' <=> InRing(i) /\ i # head
    BY <2>1, RingShrinks
  <2>3. \A e \in Edas : ~Popped(e)
    BY <2>1 DEF Popped
  <2>4. \A e \in Edas : ~Popped(e)' => Queued(e)' = Queued(e)
    BY <2>1, <2>2 DEF Popped, Queued, TypeOK
  <2> QED BY <2>1, <2>3, <2>4 DEF ExitInv, ExitIsFinished, TypeOK
<1>3. CASE PollFinish
  <2>1. /\ pc = "finish" /\ pc' = "exit" /\ eda' = eda
        /\ UNCHANGED <<ringVars, is_to_exit, live>>
    BY <1>3 DEF PollFinish
  <2>2. /\ eda \in live
        /\ \A e \in Edas : Popped(e) <=> e = eda
        /\ \A e \in Edas : Queued(e)' = Queued(e)
    BY <2>1 DEF CountInv, Queued, InRing, Popped, ringVars
  <2> QED BY <2>1, <2>2 DEF ExitInv, ExitIsFinished, TypeOK
<1>4. CASE PollExit
  <2>1. /\ UNCHANGED <<ringVars, edaVars, eda>> /\ pc = "exit"
        /\ pc' = IF is_to_exit[eda] /\ evt_cnt[eda] = 0 THEN "terminate"
                                                        ELSE "poll"
    BY <1>4 DEF PollExit
  <2>2. \A e \in Edas : Queued(e)' = Queued(e) /\ ~Popped(e) /\ ~Popped(e)'
    BY <2>1 DEF Queued, InRing, Popped, ringVars
  <2>3. eda \in live /\ eda \in Edas
    BY <2>1 DEF ExitInv, TypeOK
  <2>4. evt_cnt[eda] = Cardinality(Queued(eda)) + 0
    BY <2>2, <2>3 DEF CountInv, CountExact
  <2>5. Queued(eda) = {} => evt_cnt[eda] = 0
    BY <2>4, FS_EmptySet
  <2> QED BY <2>1, <2>2, <2>3, <2>5 DEF ExitInv, ExitIsFinished, TypeOK, edaVars
<1>5. CASE PollTerminate
  <2>1. /\ pc = "terminate" /\ pc' = "poll" /\ live' = live \ {eda}
        /\ UNCHANGED <<ringVars, is_to_exit>>
    BY <1>5 DEF PollTerminate
  <2>2. \A e \in Edas : Queued(e)' = Queued(e) /\ ~Popped(e)
    BY <2>1 DEF Queued, InRing, Popped, ringVars
  <2> QED BY <2>1, <2>2 DEF ExitInv, ExitIsFinished, TypeOK
<1> QED BY <1>1, <1>2, <1>3, <1>4, <1>5
        DEF Poll, CountInv, CleanStep, CleanEnd

LEMMA ExitHandle ==
    ASSUME TypeOK, CountInv, ExitInv, Handle, CleanEvts = {}
    PROVE  ExitInv'
<1>1. CASE HandlerReturn \/ \E b \in BOOLEAN : SetLimitted(b)
  <2>1. UNCHANGED <<ringVars, is_to_exit, live, eda, cur>>
        /\ pc = "dispatch" /\ pc' \in {"dispatch", "finish"}
    BY <1>1 DEF HandlerReturn, SetLimitted, InHandler, pollVars, edaVars
  <2>2. \A e \in Edas : Popped(e)' <=> Popped(e)
    BY <2>1 DEF Popped
  <2>3. ExitIsFinished'
    BY <2>1, <2>2, ExitFrame
  <2> QED BY <2>1, <2>3 DEF ExitInv
<1>2. CASE Fini
  <2>1. pc = "dispatch" /\ UNCHANGED <<ringVars, pollVars>> /\ OnEdaFini(cur.eda)
    BY <1>2 DEF Fini, InHandler
  <2>2. cur.eda = eda /\ Popped(eda)
    BY <2>1 DEF ExitInv, Popped
  <2>3. \A e \in Edas : Queued(e)' = Queued(e) /\ (Popped(e)' <=> Popped(e))
    BY <2>1 DEF Queued, InRing, Popped, ringVars, pollVars
  <2>4. /\ live' \subseteq live
        /\ \A e \in Edas \ {eda} : is_to_exit'[e] = is_to_exit[e]
    BY <2>1, <2>2 DEF OnEdaFini, TypeOK
  <2> QED BY <2>1, <2>2, <2>3, <2>4
          DEF ExitInv, ExitIsFinished, TypeOK, pollVars
<1> QED BY <1>1, <1>2 DEF Handle

\* An agent that finalises itself is terminated exactly when its last event has
\* gone, for every ring size and whatever contexts post to it, as long as no
\* other context kills it and no handler calls vsf_evtq_clean_evt.
THEOREM ExitCorrect ==
    ASSUME CleanEvts = {}, Killers = {}
    PROVE  Spec => []ExitIsExact
<1>1. Init => ReadsBeforeHead /\ ExitInv
    BY DEF Init, ReadsBeforeHead, ExitInv, ExitIsFinished
<1>2. TypeOK /\ TypeOK' /\ CountInv /\ ReadsBeforeHead /\ ExitInv /\ [Next]_vars
        => ReadsBeforeHead' /\ ExitInv'
  <2> SUFFICES ASSUME TypeOK, TypeOK', CountInv, ReadsBeforeHead, ExitInv,
                      [Next]_vars
               PROVE  ExitInv'
    BY ReadsStep
  <2>1. CASE Next
    BY <2>1, ExitProduce, ExitPoll, ExitHandle DEF Next
  <2>2. CASE UNCHANGED vars
    BY <2>2 DEF vars, ExitInv, ExitIsFinished, Queued, InRing, Popped
  <2> QED BY <2>1, <2>2
<1>3. TypeOK /\ CountInv /\ ExitInv => ExitIsExact
  <2> SUFFICES ASSUME TypeOK, CountInv, ExitInv PROVE NoDanglingEda
    BY DEF ExitInv, ExitIsExact
  <2>1. \A i \in Idx : InRing(i) => node[i].eda \in live \cup {NoEda}
    BY DEF CountInv, Queued, TypeOK
  <2>2. pc \in {"start", "dispatch", "finish"} => eda \in live
    BY DEF CountInv, Popped
  <2> QED BY <2>1, <2>2 DEF NoDanglingEda, CountInv, ExitInv
<1> QED BY <1>1, <1>2, <1>3, CountInvariant, PTL DEF Spec

-----------------------------------------------------------------------------
(* The event count where handlers do call vsf_evtq_clean_evt *)

\* How far node i is behind head.
Dist(i) == IF head <= i THEN i - head ELSE i - head + Size

\* The nodes of e that were posted after vsf_evtq_clean_evt took its snapshot.
Late(e) == {i \in Queued(e) : Dist(clean.end) <= Dist(i)}

\* What the ring and poll hold of e.
Held(e) == Cardinality(Queued(e)) + (IF Popped(e) THEN 1 ELSE 0)

\* A cleaned event stays counted, so that evt_cnt may be too large, but by what
\* it may be when a clean begins, and never too small.
Covered == \A e \in live : Held(e) <= evt_cnt[e] /\ evt_cnt[e] <= CleanBound + Held(e)

\* Nothing is left of an agent that is gone.
GoneIsClear == \A e \in Edas \ live : Queued(e) = {} /\ ~Popped(e)

\* What poll knows of its eda.
PollKnows ==
    /\ pc \in {"start", "dispatch", "clean", "finish", "exit", "terminate"}
         => eda \in Edas
    /\ pc = "exit" => eda \in live \/ ~is_to_exit[eda]
    /\ pc = "terminate" => eda \in live /\ is_to_exit[eda] /\ evt_cnt[eda] = 0
    /\ pc \in {"dispatch", "clean"} => cur.eda = eda

\* The walk of vsf_evtq_clean_evt is inside the ring, and what it may still
\* clear is not needed for the bound of the count.
CleanWalk ==
    pc = "clean" =>
        /\ Dist(clean.idx) <= Dist(clean.end)
        /\ Dist(clean.end) <= Dist(tail)
        /\ evt_cnt[eda] <= CleanBound + Cardinality(Late(eda))

CoverInv == Covered /\ GoneIsClear /\ PollKnows /\ CleanWalk

\* The counter does not wrap, with what cleans may add to it.
CleanIsBounded == CleanBound \in Nat /\ CleanBound + Size < CntMod

\* Distances from head, for the steps that move along the ring.
LEMMA DistFacts ==
    ASSUME TypeOK
    PROVE  /\ \A i \in Idx : Dist(i) \in 0 .. Size - 1
           /\ \A i, j \in Idx : Dist(i) = Dist(j) => i = j
           /\ Dist(head) = 0
           /\ \A i \in Idx : InRing(i) <=> Dist(i) < Dist(tail)
           /\ \A i \in Idx : Inc(i) # head => Dist(Inc(i)) = Dist(i) + 1
           /\ ~Full => Dist(Inc(tail)) = Dist(tail) + 1
<1> USE SizeAssumption DEF TypeOK, Idx
<1>1. \A i \in Idx : Dist(i) \in 0 .. Size - 1
    BY DEF Dist
<1>2. \A i, j \in Idx : Dist(i) = Dist(j) => i = j
    BY DEF Dist
<1>3. Dist(head) = 0
    BY DEF Dist
<1>4. \A i \in Idx : InRing(i) <=> Dist(i) < Dist(tail)
    BY DEF Dist, InRing
<1>5. \A i \in Idx : Inc(i) # head => Dist(Inc(i)) = Dist(i) + 1
    BY DEF Dist, Inc
<1>6. ~Full => Dist(Inc(tail)) = Dist(tail) + 1
    BY <1>5 DEF Full
<1> QED BY <1>1, <1>2, <1>3, <1>4, <1>5, <1>6

LEMMA HeldFacts ==
    ASSUME TypeOK, NEW e
    PROVE  /\ Held(e) \in Nat
           /\ Cardinality(Queued(e)) \in Nat
           /\ IsFiniteSet(Late(e)) /\ Cardinality(Late(e)) \in Nat
           /\ Cardinality(Late(e)) <= Cardinality(Queued(e))
<1>1. IsFiniteSet(Queued(e)) /\ Cardinality(Queued(e)) \in Nat
    BY QueuedBound
<1>2. Late(e) \subseteq Queued(e)
    BY DEF Late
<1>3. IsFiniteSet(Late(e)) /\ Cardinality(Late(e)) <= Cardinality(Queued(e))
    BY <1>1, <1>2, FS_Subset
<1>4. Cardinality(Late(e)) \in Nat
    BY <1>3, FS_CardinalityType
<1> QED BY <1>1, <1>3, <1>4 DEF Held

\* An agent whose count is zero has nothing in the ring or in poll.
LEMMA ZeroIsCleared ==
    ASSUME TypeOK, Covered, NEW e \in live, evt_cnt[e] = 0
    PROVE  Queued(e) = {} /\ ~Popped(e)
<1>1. Held(e) <= 0
    BY DEF Covered
<1>2. IsFiniteSet(Queued(e)) /\ Cardinality(Queued(e)) \in Nat
    BY QueuedBound
<1>3. Cardinality(Queued(e)) = 0 /\ ~Popped(e)
    BY <1>1, <1>2 DEF Held
<1> QED BY <1>2, <1>3, FS_EmptySet

\* Steps that neither touch the ring nor the counters.
LEMMA CoverFrame ==
    ASSUME TypeOK, Covered, GoneIsClear, UNCHANGED <<ringVars, evt_cnt, live>>,
           \A e \in Edas : Popped(e)' <=> Popped(e)
    PROVE  Covered' /\ GoneIsClear'
<1>1. \A e : Queued(e)' = Queued(e)
    BY DEF Queued, InRing, ringVars
<1>2. \A e \in Edas : Held(e)' = Held(e)
    BY <1>1 DEF Held
<1> QED BY <1>1, <1>2 DEF Covered, GoneIsClear, TypeOK

\* ... nor what poll and vsf_evtq_clean_evt are doing.
LEMMA CleanFrame ==
    ASSUME CleanWalk, UNCHANGED <<ringVars, evt_cnt, pc, eda, clean>>
    PROVE  CleanWalk'
<1>1. \A i : Dist(i)' = Dist(i)
    BY DEF Dist, ringVars
<1>2. Late(eda)' = Late(eda)
    BY <1>1 DEF Late, Queued, InRing, ringVars
<1> QED BY <1>1, <1>2 DEF CleanWalk, Dist, ringVars

\* vsf_evtq_on_eda_fini, from whatever context.
LEMMA FiniIsCovered ==
    ASSUME TypeOK, CoverInv, NEW e \in Edas, MayReceive(e), OnEdaFini(e),
           UNCHANGED <<ringVars, evt_cnt, pollVars>>
    PROVE  CoverInv'
<1>1. \A x : /\ Queued(x)' = Queued(x) /\ (Popped(x)' <=> Popped(x))
             /\ Held(x)' = Held(x)
    BY DEF Queued, InRing, Popped, Held, ringVars, pollVars
<1>2. /\ e \in live /\ ~is_to_exit[e]
      /\ UNCHANGED <<evt_cnt, pc, eda, cur, clean>>
    BY DEF MayReceive, pollVars
<1>3. CleanWalk'
    BY <1>2, CleanFrame DEF CoverInv
<1>4. CASE evt_cnt[e] = 0
  <2>1. live' = live \ {e} /\ is_to_exit' = is_to_exit
    BY <1>4 DEF OnEdaFini
  <2>2. Queued(e) = {} /\ ~Popped(e)
    BY <1>2, <1>4, ZeroIsCleared DEF CoverInv
  <2> QED BY <1>1, <1>2, <1>3, <2>1, <2>2
          DEF CoverInv, Covered, GoneIsClear, PollKnows
<1>5. CASE evt_cnt[e] # 0
  <2>1. live' = live /\ is_to_exit' = [is_to_exit EXCEPT ![e] = TRUE]
    BY <1>5 DEF OnEdaFini
  <2> QED BY <1>1, <1>2, <1>3, <2>1
          DEF CoverInv, Covered, GoneIsClear, PollKnows, TypeOK
<1> QED BY <1>4, <1>5

\* A node that enters the ring is behind the snapshot of vsf_evtq_clean_evt.
LEMMA EnqueueIsLate ==
    ASSUME TypeOK, TypeOK', ReadsBeforeHead, CleanWalk, pc = "clean", ~Full,
           UNCHANGED <<head, pollVars>>, NEW p, NEW e \in Edas, NEW v \in Evts,
           NEW cnt, Enqueue(p, e, v, cnt), eda \in Edas
    PROVE  /\ Dist(clean.idx)' <= Dist(clean.end)'
           /\ Dist(clean.end)' <= Dist(tail)'
           /\ Cardinality(Late(eda)') =
                 Cardinality(Late(eda)) + (IF eda = e THEN 1 ELSE 0)
<1>1. /\ node' = [node EXCEPT ![tail] = [eda |-> e, evt |-> v]]
      /\ tail' = Inc(tail) /\ UNCHANGED <<head, clean, eda>>
    BY DEF Enqueue, pollVars
<1>2. /\ ~InRing(tail)
      /\ \A i \in Idx : InRing(i)' <=> InRing(i) \/ i = tail
    BY <1>1, RingGrows
<1>4. Dist(clean.idx)' = Dist(clean.idx) /\ Dist(clean.end)' = Dist(clean.end)
    BY <1>1 DEF Dist
<1>5. Dist(tail)' = Dist(tail) + 1
  <2>1. Dist(tail)' = Dist(Inc(tail))
    BY <1>1 DEF Dist
  <2> QED BY <2>1, DistFacts
<1>6. clean.idx \in Idx /\ clean.end \in Idx /\ tail \in Idx
    BY DEF TypeOK
<1>7. /\ Dist(clean.idx) \in Int /\ Dist(clean.end) \in Int /\ Dist(tail) \in Int
    BY <1>6, DistFacts
<1>8. Dist(clean.end) <= Dist(tail) /\ Dist(clean.idx) <= Dist(clean.end)
    BY DEF CleanWalk
<1>9. \A i \in Idx : node'[i].eda = IF i = tail THEN e ELSE node[i].eda
    BY <1>1 DEF TypeOK
<1>10. Late(eda)' = {i \in Idx : /\ InRing(i)' /\ node'[i].eda = eda
                                 /\ Dist(clean.end) <= Dist(i)}
    BY <1>1 DEF Late, Queued, Dist
<1>11. Late(eda) = {i \in Idx : /\ InRing(i) /\ node[i].eda = eda
                                /\ Dist(clean.end) <= Dist(i)}
    BY DEF Late, Queued
<1>12. tail \notin Late(eda)
    BY <1>2, <1>11
<1>13. IsFiniteSet(Late(eda)) /\ Cardinality(Late(eda)) \in Nat
    BY HeldFacts
<1>14. CASE eda = e
  <2>1. Late(eda)' = Late(eda) \cup {tail}
    BY <1>2, <1>6, <1>8, <1>9, <1>10, <1>11, <1>14
  <2>2. Cardinality(Late(eda)') = Cardinality(Late(eda)) + 1
    BY <2>1, <1>12, <1>13, FS_AddElement
  <2> QED BY <2>2, <1>4, <1>5, <1>7, <1>8, <1>14
<1>15. CASE eda # e
  <2>1. Late(eda)' = Late(eda)
    BY <1>2, <1>9, <1>10, <1>11, <1>15
  <2> QED BY <2>1, <1>4, <1>5, <1>7, <1>8, <1>13, <1>15
<1> QED BY <1>14, <1>15

LEMMA CoverProduce ==
    ASSUME CleanIsBounded, TypeOK, TypeOK', ReadsBeforeHead, CoverInv,
           NEW p \in Posters, Produce(p)
    PROVE  CoverInv'
<1>0. pc = "clean" => eda \in Edas /\ eda \in live
    BY DEF CoverInv, PollKnows, GoneIsClear, Popped
<1>1. ASSUME NEW e \in Edas, NEW v \in Evts, NEW f \in BOOLEAN,
             Post(p, e, v, f)
      PROVE  CoverInv'
  <2>1. /\ e \in live /\ ~is_to_exit[e] /\ ~Full
        /\ Enqueue(p, e, v, evt_cnt[e])
        /\ UNCHANGED <<head, is_limitted, is_to_exit, live, pollVars, swi>>
    BY <1>1 DEF Post, MayReceive
  <2>2. /\ Cardinality(Queued(e)') = Cardinality(Queued(e)) + 1
        /\ Cardinality(Queued(e)') < Size
        /\ \A x \in Edas \ {e} : Queued(x)' = Queued(x)
        /\ \A x \in Edas : Popped(x)' <=> Popped(x)
    BY <2>1, EnqueueCounts
  <2>3. Held(e)' = Held(e) + 1 /\ \A x \in Edas \ {e} : Held(x)' = Held(x)
    BY <2>2, HeldFacts DEF Held
  <2>4. evt_cnt[e] + 1 \in 0 .. CntMod - 1
    <3>1. evt_cnt[e] <= CleanBound + Held(e) /\ evt_cnt[e] \in Nat
        BY <2>1 DEF CoverInv, Covered, TypeOK
    <3>2. Held(e) < Size /\ Held(e) \in Nat
        BY <2>2, HeldFacts, SizeAssumption DEF Held
    <3> QED BY <3>1, <3>2, SizeAssumption, CntAssumption DEF CleanIsBounded
  <2>5. evt_cnt' = [evt_cnt EXCEPT ![e] = evt_cnt[e] + 1]
    BY <2>1, <2>4, NoWrap DEF Enqueue
  <2>6. Covered'
    BY <2>1, <2>3, <2>5, HeldFacts DEF CoverInv, Covered, TypeOK, CleanIsBounded
  <2>7. GoneIsClear' /\ PollKnows'
    BY <2>1, <2>2, <2>5 DEF CoverInv, GoneIsClear, PollKnows, pollVars, TypeOK
  <2>8. CleanWalk'
    <3> SUFFICES ASSUME pc = "clean" PROVE CleanWalk'
        BY <2>1 DEF CleanWalk, pollVars
    <3>1. /\ Dist(clean.idx)' <= Dist(clean.end)'
          /\ Dist(clean.end)' <= Dist(tail)'
          /\ Cardinality(Late(eda)') =
                 Cardinality(Late(eda)) + (IF eda = e THEN 1 ELSE 0)
        BY <1>0, <2>1, EnqueueIsLate DEF CoverInv
    <3>2. evt_cnt'[eda] = evt_cnt[eda] + (IF eda = e THEN 1 ELSE 0)
        BY <1>0, <2>5 DEF TypeOK
    <3>3. evt_cnt[eda] <= CleanBound + Cardinality(Late(eda))
        BY DEF CoverInv, CleanWalk
    <3>4. evt_cnt[eda] \in Nat /\ Cardinality(Late(eda)) \in Nat
        BY <1>0, HeldFacts DEF TypeOK
    <3>5. eda' = eda
        BY <2>1 DEF pollVars
    <3> QED BY <3>1, <3>2, <3>3, <3>4, <3>5 DEF CleanWalk, CleanIsBounded
  <2> QED BY <2>6, <2>7, <2>8 DEF CoverInv
<1>2. ASSUME NEW e \in Edas, NEW v \in Evts, Start(p, e, v) PROVE CoverInv'
  <2>1. /\ e \notin live /\ ~Full /\ live' = live \cup {e}
        /\ is_to_exit' = [is_to_exit EXCEPT ![e] = FALSE]
        /\ Enqueue(p, e, v, 0)
        /\ UNCHANGED <<head, pollVars, swi>>
    BY <1>2 DEF Start
  <2>2. /\ Cardinality(Queued(e)') = Cardinality(Queued(e)) + 1
        /\ \A x \in Edas \ {e} : Queued(x)' = Queued(x)
        /\ \A x \in Edas : Popped(x)' <=> Popped(x)
    BY <2>1, EnqueueCounts
  <2>3. evt_cnt' = [evt_cnt EXCEPT ![e] = 1]
    <3>1. (0 + 1) % CntMod = 1
        BY CntAssumption, SizeAssumption
    <3> QED BY <2>1, <3>1 DEF Enqueue
  <2>4. Cardinality(Queued(e)) = 0 /\ ~Popped(e)
    BY <2>1, FS_EmptySet DEF CoverInv, GoneIsClear
  <2>5. Held(e)' = 1 /\ \A x \in Edas \ {e} : Held(x)' = Held(x)
    BY <2>2, <2>4 DEF Held
  <2>6. Covered'
    BY <2>1, <2>3, <2>5 DEF CoverInv, Covered, TypeOK, CleanIsBounded
  <2>7. GoneIsClear' /\ PollKnows'
    BY <2>1, <2>2, <2>3 DEF CoverInv, GoneIsClear, PollKnows, pollVars, TypeOK
  <2>8. CleanWalk'
    <3> SUFFICES ASSUME pc = "clean" PROVE CleanWalk'
        BY <2>1 DEF CleanWalk, pollVars
    <3>1. /\ Dist(clean.idx)' <= Dist(clean.end)'
          /\ Dist(clean.end)' <= Dist(tail)'
          /\ Cardinality(Late(eda)') =
                 Cardinality(Late(eda)) + (IF eda = e THEN 1 ELSE 0)
        BY <1>0, <2>1, EnqueueIsLate DEF CoverInv
    <3>2. eda # e
        BY <1>0, <2>1
    <3>3. evt_cnt'[eda] = evt_cnt[eda] /\ eda' = eda
        BY <1>0, <2>1, <2>3, <3>2 DEF TypeOK, pollVars
    <3>4. Cardinality(Late(eda)) \in Nat
        BY HeldFacts
    <3> QED BY <3>1, <3>2, <3>3, <3>4 DEF CoverInv, CleanWalk
  <2> QED BY <2>6, <2>7, <2>8 DEF CoverInv
<1>3. ASSUME NEW e \in Edas, Kill(p, e) PROVE CoverInv'
    BY <1>3, FiniIsCovered DEF Kill
<1>4. ASSUME UNCHANGED <<ringVars, edaVars, pollVars>> PROVE CoverInv'
    BY <1>4, CoverFrame, CleanFrame
       DEF CoverInv, PollKnows, Popped, ringVars, edaVars, pollVars
<1> QED BY <1>1, <1>2, <1>3, <1>4
        DEF Produce, PostRefused, PostFull, Activate, PostError

LEMMA CoverPoll ==
    ASSUME CleanIsBounded, TypeOK, ReadsBeforeHead, CoverInv,
           Poll, ~CleanStep, ~CleanEnd
    PROVE  CoverInv'
<1>0. pc' # "clean" /\ CleanWalk'
    BY DEF Poll, SwiEnter, PollPop, PollEmpty, PollFetch, PollStart, PollFinish,
           PollExit, PollTerminate, CleanWalk
<1>1. CASE SwiEnter \/ PollEmpty \/ PollFetch \/ PollStart
  <2>1. UNCHANGED <<ringVars, edaVars>>
    BY <1>1 DEF SwiEnter, PollEmpty, PollFetch, PollStart
  <2>2. \A e \in Edas : Popped(e)' <=> Popped(e)
    BY <1>1, <2>1, EdaAssumption
       DEF SwiEnter, PollEmpty, PollFetch, PollStart, Popped, ringVars
  <2>3. Covered' /\ GoneIsClear'
    BY <2>1, <2>2, CoverFrame DEF edaVars, CoverInv
  <2>4. PollKnows'
    BY <1>1 DEF SwiEnter, PollEmpty, PollFetch, PollStart, CoverInv, PollKnows,
                TypeOK
  <2> QED BY <1>0, <2>3, <2>4 DEF CoverInv
<1>2. CASE PollPop
  <2>1. /\ head # tail /\ head' = Inc(head) /\ slot' = head /\ pc = "poll"
        /\ pc' = "popped" /\ UNCHANGED <<node, tail, edaVars, eda>>
    BY <1>2 DEF PollPop
  <2>2. /\ InRing(head)
        /\ \A i \in Idx : InRing(i)' <=> InRing(i) /\ i # head
    BY <2>1, RingShrinks
  <2>3. \A e \in Edas : Queued(e)' = Queued(e) \ {head}
    BY <2>1, <2>2 DEF Queued
  <2>4. /\ \A e \in Edas : ~Popped(e)
        /\ \A e \in Edas : head \in Queued(e) => Popped(e)'
        /\ \A e \in Edas : head \notin Queued(e) => ~Popped(e)'
    BY <2>1, <2>2 DEF Popped, Queued, TypeOK
  <2>5. \A e \in Edas : Held(e)' = Held(e)
    <3> SUFFICES ASSUME NEW e \in Edas PROVE Held(e)' = Held(e)
        OBVIOUS
    <3>1. IsFiniteSet(Queued(e)) /\ Cardinality(Queued(e)) \in Nat
        BY QueuedBound
    <3>2. Cardinality(Queued(e) \ {head}) =
             IF head \in Queued(e) THEN Cardinality(Queued(e)) - 1
                                   ELSE Cardinality(Queued(e))
        BY <3>1, FS_RemoveElement
    <3> QED BY <2>3, <2>4, <3>1, <3>2 DEF Held
  <2>6. Covered' /\ GoneIsClear' /\ PollKnows'
    BY <2>1, <2>3, <2>4, <2>5
       DEF CoverInv, Covered, GoneIsClear, PollKnows, TypeOK, edaVars
  <2> QED BY <1>0, <2>6 DEF CoverInv
<1>3. CASE PollFinish
  <2>1. /\ pc = "finish" /\ pc' = "exit" /\ eda' = eda /\ eda \in Edas
        /\ evt_cnt' = [evt_cnt EXCEPT ![eda] = (@ - 1) % CntMod]
        /\ UNCHANGED <<ringVars, is_to_exit, live>>
    BY <1>3 DEF PollFinish, CoverInv, PollKnows
  <2>2. /\ Popped(eda)
        /\ \A e \in Edas \ {eda} : ~Popped(e)
        /\ \A e \in Edas : ~Popped(e)'
        /\ \A e \in Edas : Queued(e)' = Queued(e)
    BY <2>1 DEF Queued, InRing, Popped, ringVars
  <2>3. eda \in live
    BY <2>1, <2>2 DEF CoverInv, GoneIsClear
  <2>4. /\ Held(eda)' = Held(eda) - 1 /\ Held(eda) >= 1
        /\ \A e \in Edas \ {eda} : Held(e)' = Held(e)
    BY <2>1, <2>2, HeldFacts DEF Held
  <2>5. evt_cnt[eda] - 1 \in 0 .. CntMod - 1
    BY <2>1, <2>3, <2>4, HeldFacts, CntAssumption DEF TypeOK, CoverInv, Covered
  <2>6. evt_cnt' = [evt_cnt EXCEPT ![eda] = evt_cnt[eda] - 1]
    BY <2>1, <2>5, NoWrap
  <2>7. Covered'
    BY <2>1, <2>4, <2>6, HeldFacts
       DEF CoverInv, Covered, TypeOK, CleanIsBounded
  <2>8. GoneIsClear' /\ PollKnows'
    BY <2>1, <2>2, <2>3 DEF CoverInv, GoneIsClear, PollKnows
  <2> QED BY <1>0, <2>7, <2>8 DEF CoverInv
<1>4. CASE PollExit
  <2>1. UNCHANGED <<ringVars, edaVars, eda>> /\ pc = "exit"
    BY <1>4 DEF PollExit
  <2>2. \A e \in Edas : Popped(e)' <=> Popped(e)
    BY <1>4, <2>1 DEF PollExit, Popped
  <2>3. Covered' /\ GoneIsClear'
    BY <2>1, <2>2, CoverFrame DEF edaVars, CoverInv
  <2>4. PollKnows'
    BY <1>4, <2>1 DEF PollExit, CoverInv, PollKnows, edaVars
  <2> QED BY <1>0, <2>3, <2>4 DEF CoverInv
<1>5. CASE PollTerminate
  <2>1. /\ pc = "terminate" /\ pc' = "poll" /\ live' = live \ {eda}
        /\ UNCHANGED <<ringVars, evt_cnt, is_to_exit, eda>>
    BY <1>5 DEF PollTerminate
  <2>2. \A e \in Edas : /\ Queued(e)' = Queued(e) /\ ~Popped(e) /\ ~Popped(e)'
                        /\ Held(e)' = Held(e)
    BY <2>1 DEF Queued, InRing, Popped, Held, ringVars
  <2>3. Queued(eda) = {}
    BY <2>1, ZeroIsCleared DEF CoverInv, PollKnows
  <2>4. Covered' /\ GoneIsClear' /\ PollKnows'
    BY <2>1, <2>2, <2>3 DEF CoverInv, Covered, GoneIsClear, PollKnows, TypeOK
  <2> QED BY <1>0, <2>4 DEF CoverInv
<1> QED BY <1>1, <1>2, <1>3, <1>4, <1>5 DEF Poll

\* What the handler does, but cleaning.
LEMMA CoverHandle ==
    ASSUME CleanIsBounded, TypeOK, CoverInv, Handle
    PROVE  CoverInv'
<1>1. CASE HandlerReturn \/ \E b \in BOOLEAN : SetLimitted(b)
  <2>1. /\ UNCHANGED <<ringVars, evt_cnt, is_to_exit, live, eda, cur>>
        /\ pc = "dispatch" /\ pc' \in {"dispatch", "finish"}
    BY <1>1 DEF HandlerReturn, SetLimitted, InHandler, pollVars, edaVars
  <2>2. \A e \in Edas : Popped(e)' <=> Popped(e)
    BY <2>1 DEF Popped
  <2>3. Covered' /\ GoneIsClear'
    BY <2>1, <2>2, CoverFrame DEF CoverInv
  <2> QED BY <2>1, <2>3 DEF CoverInv, PollKnows, CleanWalk
<1>2. CASE Fini
  <2>1. cur.eda \in Edas
    BY <1>2 DEF Fini, MayReceive, TypeOK
  <2> QED BY <1>2, <2>1, FiniIsCovered DEF Fini
<1>3. ASSUME NEW v \in CleanEvts, CleanBegin(v) PROVE CoverInv'
  <2>1. /\ UNCHANGED <<ringVars, edaVars, eda, cur>>
        /\ pc = "dispatch" /\ pc' = "clean" /\ evt_cnt[cur.eda] <= CleanBound
        /\ clean' = [idx |-> head, end |-> tail, evt |-> v]
    BY <1>3 DEF CleanBegin, InHandler
  <2>2. \A e \in Edas : Popped(e)' <=> Popped(e)
    BY <2>1 DEF Popped
  <2>3. Covered' /\ GoneIsClear'
    BY <2>1, <2>2, CoverFrame DEF CoverInv, edaVars
  <2>4. PollKnows' /\ cur.eda = eda /\ eda \in Edas
    BY <2>1 DEF CoverInv, PollKnows
  <2>5. /\ Dist(clean.idx)' = Dist(head) /\ Dist(clean.end)' = Dist(tail)
        /\ Dist(tail)' = Dist(tail)
    BY <2>1 DEF Dist, ringVars
  <2>6. Late(eda)' \subseteq Queued(eda)
    BY <2>1 DEF Late, Queued, InRing, ringVars
  <2>7. Cardinality(Late(eda)') \in Nat
    BY <2>6, QueuedBound, FS_Subset, FS_CardinalityType
  <2>8. Dist(head) = 0 /\ Dist(tail) \in Nat
    BY DistFacts DEF TypeOK
  <2>9. CleanWalk'
    <3>1. evt_cnt'[eda'] <= CleanBound /\ evt_cnt'[eda'] \in Nat /\ eda' = eda
        BY <2>1, <2>4 DEF edaVars, TypeOK
    <3> QED BY <2>5, <2>7, <2>8, <3>1 DEF CleanWalk, CleanIsBounded
  <2> QED BY <2>3, <2>4, <2>9 DEF CoverInv
<1> QED BY <1>1, <1>2, <1>3 DEF Handle

\* A step of vsf_evtq_clean_evt clears a node of the ring, of its own agent and
\* in its snapshot, or none.
LEMMA CleanStepFacts ==
    ASSUME TypeOK, CoverInv, CleanStep
    PROVE  /\ clean.idx \in Idx /\ Dist(clean.idx) < Dist(clean.end)
           /\ InRing(clean.idx) /\ Dist(Inc(clean.idx)) = Dist(clean.idx) + 1
           /\ cur.eda = eda /\ eda \in Edas
           /\ \A i \in Idx :
                 node'[i].eda = IF /\ i = clean.idx /\ node[i].eda = eda
                                   /\ clean.evt \in {AnyEvt, node[i].evt}
                                THEN NoEda ELSE node[i].eda
<1>1. /\ clean.idx \in Idx /\ clean.end \in Idx /\ clean.idx # clean.end
      /\ pc = "clean" /\ tail \in Idx /\ head \in Idx
    BY DEF CleanStep, TypeOK
<1>2. cur.eda = eda /\ eda \in Edas
    BY <1>1 DEF CoverInv, PollKnows
<1>3. Dist(clean.idx) < Dist(clean.end) /\ Dist(clean.end) <= Dist(tail)
    BY <1>1, DistFacts DEF CoverInv, CleanWalk
<1>4. InRing(clean.idx)
    BY <1>1, <1>3, DistFacts
<1>5. Inc(clean.idx) # head
    BY <1>1, <1>3, SizeAssumption DEF Dist, Inc, Idx
<1>6. \A i \in Idx :
         node'[i].eda = IF /\ i = clean.idx /\ node[i].eda = eda
                           /\ clean.evt \in {AnyEvt, node[i].evt}
                        THEN NoEda ELSE node[i].eda
    BY <1>1, <1>2 DEF CleanStep, TypeOK
<1> QED BY <1>1, <1>2, <1>3, <1>4, <1>5, <1>6, DistFacts

LEMMA CoverClean ==
    ASSUME CleanIsBounded, TypeOK, CoverInv, CleanStep \/ CleanEnd
    PROVE  CoverInv'
<1>1. CASE CleanStep
  <2>1. /\ pc = "clean" /\ clean' = [clean EXCEPT !.idx = Inc(@)]
        /\ UNCHANGED <<head, tail, edaVars, cur, pc, slot, eda, swi, ppc>>
    BY <1>1 DEF CleanStep
  <2>2. /\ clean.idx \in Idx /\ Dist(clean.idx) < Dist(clean.end)
        /\ InRing(clean.idx) /\ Dist(Inc(clean.idx)) = Dist(clean.idx) + 1
        /\ cur.eda = eda /\ eda \in Edas
        /\ \A i \in Idx :
              node'[i].eda = IF /\ i = clean.idx /\ node[i].eda = eda
                                /\ clean.evt \in {AnyEvt, node[i].evt}
                             THEN NoEda ELSE node[i].eda
    BY <1>1, CleanStepFacts
  <2>3. \A i : InRing(i)' <=> InRing(i)
    BY <2>1 DEF InRing
  <2>4. \A e \in Edas \ {eda} : Queued(e)' = Queued(e)
    BY <2>2, <2>3, EdaAssumption DEF Queued
  <2>5. Queued(eda)' \subseteq Queued(eda)
    BY <2>1, <2>2, <2>3, EdaAssumption DEF Queued
  <2>6. \A e \in Edas : Popped(e)' <=> Popped(e)
    BY <2>1 DEF Popped
  <2>7. clean'.end = clean.end /\ clean'.idx = Inc(clean.idx) /\ clean.end \in Idx
    BY <2>1 DEF TypeOK
  <2>8. /\ Dist(clean.end)' = Dist(clean.end) /\ Dist(tail)' = Dist(tail)
        /\ Dist(clean.idx)' = Dist(clean.idx) + 1
    BY <2>1, <2>2, <2>7 DEF Dist
  <2>9. Late(eda)' = Late(eda)
    <3>1. Late(eda)' = {i \in Idx : /\ InRing(i) /\ node'[i].eda = eda
                                    /\ Dist(clean.end) <= Dist(i)}
        BY <2>1, <2>3, <2>7 DEF Late, Queued, Dist
    <3>2. Late(eda) = {i \in Idx : /\ InRing(i) /\ node[i].eda = eda
                                   /\ Dist(clean.end) <= Dist(i)}
        BY DEF Late, Queued
    <3>3. \A i \in Idx : Dist(clean.end) <= Dist(i) => i # clean.idx
        BY <2>2, <2>7, DistFacts
    <3> QED BY <2>2, <3>1, <3>2, <3>3
  <2>10. CleanWalk'
    <3>1. Dist(clean.idx) + 1 <= Dist(clean.end)
        BY <2>2, <2>7, DistFacts
    <3> QED BY <2>1, <2>8, <2>9, <3>1 DEF CoverInv, CleanWalk, edaVars
  <2>11. /\ IsFiniteSet(Queued(eda)) /\ Cardinality(Queued(eda)) \in Nat
         /\ IsFiniteSet(Queued(eda)') /\ Cardinality(Queued(eda)') \in Nat
         /\ Cardinality(Queued(eda)') <= Cardinality(Queued(eda))
    BY <2>5, QueuedBound, FS_Subset, FS_CardinalityType
  <2>12. Late(eda)' \subseteq Queued(eda)'
    BY <2>1 DEF Late
  <2>13. Cardinality(Late(eda)) <= Cardinality(Queued(eda)')
    BY <2>9, <2>11, <2>12, FS_Subset
  <2>14. /\ Popped(eda) /\ Popped(eda)'
         /\ \A e \in Edas \ {eda} : Held(e)' = Held(e)
    BY <2>1, <2>2, <2>4, <2>6 DEF Popped, Held
  <2>15. Held(eda)' <= Held(eda) /\ Cardinality(Late(eda)) <= Held(eda)'
         /\ Held(eda)' \in Nat
    BY <2>11, <2>13, <2>14, HeldFacts DEF Held
  <2>16. evt_cnt[eda] <= CleanBound + Held(eda)' /\ evt_cnt[eda] \in Nat
    <3>1. evt_cnt[eda] <= CleanBound + Cardinality(Late(eda))
        BY <2>1 DEF CoverInv, CleanWalk
    <3>2. evt_cnt[eda] \in Nat /\ Cardinality(Late(eda)) \in Nat
        BY <2>2, HeldFacts DEF TypeOK
    <3> QED BY <2>15, <3>1, <3>2 DEF CleanIsBounded
  <2>17. Covered'
    <3> SUFFICES ASSUME NEW e \in live
                 PROVE  /\ Held(e)' <= evt_cnt[e]
                        /\ evt_cnt[e] <= CleanBound + Held(e)'
        BY <2>1 DEF Covered, edaVars
    <3>1. Held(e) <= evt_cnt[e] /\ evt_cnt[e] <= CleanBound + Held(e)
        BY DEF CoverInv, Covered
    <3>2. CASE e = eda
      <4>1. Held(e)' = Held(eda)'
        BY <2>1, <3>2 DEF Held, Queued, Popped
      <4>2. Held(e) \in Nat
        BY HeldFacts
      <4> QED BY <2>15, <2>16, <3>1, <3>2, <4>1, <4>2
    <3>3. CASE e # eda
        BY <2>14, <3>1, <3>3 DEF TypeOK
    <3> QED BY <3>2, <3>3
  <2>18. GoneIsClear' /\ PollKnows'
    BY <2>1, <2>4, <2>5, <2>6 DEF CoverInv, GoneIsClear, PollKnows, edaVars
  <2> QED BY <2>10, <2>17, <2>18 DEF CoverInv
<1>2. CASE CleanEnd
  <2>1. /\ UNCHANGED <<ringVars, edaVars, eda, cur>>
        /\ pc = "clean" /\ pc' = "dispatch"
    BY <1>2 DEF CleanEnd
  <2>2. \A e \in Edas : Popped(e)' <=> Popped(e)
    BY <2>1 DEF Popped
  <2>3. Covered' /\ GoneIsClear'
    BY <2>1, <2>2, CoverFrame DEF CoverInv, edaVars
  <2> QED BY <2>1, <2>3 DEF CoverInv, PollKnows, CleanWalk
<1> QED BY <1>1, <1>2

LEMMA CoverInit == Init /\ CleanIsBounded => ReadsBeforeHead /\ CoverInv
<1> SUFFICES ASSUME Init PROVE ReadsBeforeHead /\ CoverInv
    OBVIOUS
<1>1. \A e : Queued(e) = {} /\ ~Popped(e)
    BY SizeAssumption DEF Init, Queued, InRing, Idx, Popped
<1> QED BY <1>1 DEF Init, CoverInv, ReadsBeforeHead, Covered, GoneIsClear,
                    PollKnows, CleanWalk

LEMMA CoverStep ==
    ASSUME CleanIsBounded, TypeOK, TypeOK', ReadsBeforeHead, CoverInv, [Next]_vars
    PROVE  CoverInv'
<1>1. ASSUME UNCHANGED vars PROVE CoverInv'
    BY <1>1, CoverFrame, CleanFrame
       DEF vars, CoverInv, PollKnows, Popped, ringVars
<1> QED BY <1>1, CoverProduce, CoverPoll, CoverClean, CoverHandle DEF Next

-----------------------------------------------------------------------------
(* The refinement of EventQueue *)

Node == [eda : Edas \cup {NoEda}, evt : Evts \cup {NoEvt}]

\* Append and Tail, place by place.
LEMMA IsAppend ==
    ASSUME NEW T, NEW s \in Seq(T), NEW x \in T, NEW r \in Seq(T),
           Len(r) = Len(s) + 1, \A k \in 1 .. Len(s) : r[k] = s[k],
           r[Len(s) + 1] = x
    PROVE  r = Append(s, x)
<1>1. /\ Append(s, x) \in Seq(T) /\ Len(Append(s, x)) = Len(s) + 1
      /\ \A k \in 1 .. Len(s) : Append(s, x)[k] = s[k]
      /\ Append(s, x)[Len(s) + 1] = x /\ Len(s) \in Nat
    OBVIOUS
<1>2. \A k \in 1 .. Len(s) + 1 : k \in 1 .. Len(s) \/ k = Len(s) + 1
    BY <1>1
<1>3. \A k \in 1 .. Len(s) + 1 : r[k] = Append(s, x)[k]
    BY <1>1, <1>2
<1> QED BY <1>1, <1>3, SeqEqual

LEMMA IsTail ==
    ASSUME NEW T, NEW s \in Seq(T), NEW r \in Seq(T), s # <<>>,
           Len(s) = Len(r) + 1, \A k \in 1 .. Len(r) : r[k] = s[k + 1]
    PROVE  r = Tail(s)
<1>1. /\ Tail(s) \in Seq(T) /\ Len(Tail(s)) = Len(s) - 1 /\ Len(r) \in Nat
      /\ \A k \in 1 .. Len(s) - 1 : Tail(s)[k] = s[k + 1]
    OBVIOUS
<1>2. Len(s) - 1 = Len(r)
    BY <1>1
<1>3. \A k \in 1 .. Len(r) : r[k] = Tail(s)[k]
    BY <1>1, <1>2
<1> QED BY <1>1, <1>2, <1>3, SeqEqual

\* The nodes that wait are a sequence.
LEMMA WaitingFacts ==
    ASSUME TypeOK
    PROVE  /\ RingLen \in 0 .. Size - 1 /\ Waiting \in Nat
           /\ Waiting <= Size /\ RingLen = Dist(tail)
           /\ \A k \in 1 .. Waiting : Ahead(FirstWaiting, k - 1) \in Idx
           /\ WaitingNodes \in Seq(Node)
           /\ Len(WaitingNodes) = Waiting /\ DOMAIN WaitingNodes = 1 .. Waiting
<1> USE SizeAssumption DEF TypeOK, Idx
<1>1. RingLen \in 0 .. Size - 1 /\ RingLen = Dist(tail)
    BY DEF RingLen, Dist
<1>2. Waiting \in Nat /\ Waiting <= Size
    BY <1>1 DEF Waiting
<1>3. \A k \in 1 .. Waiting : Ahead(FirstWaiting, k - 1) \in Idx
    BY <1>2 DEF Ahead, FirstWaiting
<1>4. \A k \in 1 .. Waiting : node[Ahead(FirstWaiting, k - 1)] \in Node
    BY <1>3 DEF Node
<1>5. WaitingNodes \in [1 .. Waiting -> Node]
    BY <1>4 DEF WaitingNodes
<1> QED BY <1>1, <1>2, <1>3, <1>5

\* The ring is the same and poll does not take or look at a node: so is the
\* queue.
LEMMA QueueKept ==
    ASSUME TypeOK, UNCHANGED <<ringVars, slot>>,
           (pc' = "popped") <=> (pc = "popped")
    PROVE  WaitingNodes' = WaitingNodes
<1>1. /\ FirstWaiting' = FirstWaiting /\ Waiting' = Waiting /\ node' = node
    BY DEF FirstWaiting, Waiting, RingLen, ringVars
<1> QED BY <1>1 DEF WaitingNodes, Ahead

\* __vsf_evtq_post appends.
LEMMA QueueGrows ==
    ASSUME TypeOK, ReadsBeforeHead, ~Full, NEW n \in Node,
           node' = [node EXCEPT ![tail] = n], tail' = Inc(tail),
           UNCHANGED <<head, pc, slot>>
    PROVE  WaitingNodes' = Append(WaitingNodes, n)
<1> USE SizeAssumption DEF TypeOK, Idx
<1>1. RingLen' = RingLen + 1 /\ RingLen \in 0 .. Size - 2
    BY DEF RingLen, Inc, Full
<1>2. Waiting' = Waiting + 1 /\ Waiting \in Nat /\ FirstWaiting' = FirstWaiting
    BY <1>1 DEF Waiting, FirstWaiting
<1>3. pc = "popped" => Inc(slot) = head
    BY DEF ReadsBeforeHead
<1>4. Ahead(FirstWaiting, Waiting) = tail
  <2>1. CASE pc = "popped"
    BY <1>1, <1>3, <2>1 DEF Ahead, FirstWaiting, Waiting, RingLen, Inc
  <2>2. CASE pc # "popped"
    BY <1>1, <2>2 DEF Ahead, FirstWaiting, Waiting, RingLen
  <2> QED BY <2>1, <2>2
<1>5. \A k \in 1 .. Waiting : /\ Ahead(FirstWaiting, k - 1) \in Idx
                              /\ Ahead(FirstWaiting, k - 1) # tail
  <2>0. FirstWaiting \in Idx /\ Waiting < Size
    BY <1>1 DEF FirstWaiting, Waiting
  <2> QED BY <1>2, <1>4, <2>0 DEF Ahead
<1>6. \A k \in 1 .. Waiting :
         node'[Ahead(FirstWaiting, k - 1)] = node[Ahead(FirstWaiting, k - 1)]
    BY <1>5
<1>7. node'[tail] = n
    OBVIOUS
<1>8. WaitingNodes' = [k \in 1 .. Waiting + 1 |-> node'[Ahead(FirstWaiting, k - 1)]]
    BY <1>2 DEF WaitingNodes, Ahead
<1>9. /\ WaitingNodes \in Seq(Node) /\ Len(WaitingNodes) = Waiting
      /\ \A k \in 1 .. Waiting : WaitingNodes[k] = node[Ahead(FirstWaiting, k - 1)]
    BY WaitingFacts DEF WaitingNodes
<1>10. \A k \in 1 .. Waiting : WaitingNodes'[k] = WaitingNodes[k]
    BY <1>2, <1>6, <1>8, <1>9
<1>11. WaitingNodes'[Waiting + 1] = n
  <2>1. Waiting + 1 \in 1 .. Waiting + 1 /\ (Waiting + 1) - 1 = Waiting
    BY <1>2
  <2> QED BY <1>4, <1>7, <1>8, <2>1
<1>12. \A k \in 1 .. Waiting + 1 : WaitingNodes'[k] \in Node
    <2>1. \A k \in 1 .. Waiting : WaitingNodes[k] \in Node
        BY <1>9
    <2>2. \A k \in 1 .. Waiting + 1 : k \in 1 .. Waiting \/ k = Waiting + 1
        BY <1>2
    <2> QED BY <1>10, <1>11, <2>1, <2>2
<1>13. WaitingNodes' \in Seq(Node) /\ Len(WaitingNodes') = Waiting + 1
    BY <1>2, <1>8, <1>12
<1> HIDE DEF TypeOK, Idx
<1> QED BY <1>9, <1>10, <1>11, <1>13, IsAppend

\* poll moves head: the node stays in front of the queue.
LEMMA QueueTaken ==
    ASSUME TypeOK, PollPop
    PROVE  WaitingNodes' = WaitingNodes
<1> USE SizeAssumption DEF TypeOK, Idx
<1>1. /\ pc = "poll" /\ head # tail /\ slot' = head /\ head' = Inc(head)
      /\ pc' = "popped" /\ UNCHANGED <<node, tail>>
    BY DEF PollPop
<1>2. FirstWaiting' = FirstWaiting
    BY <1>1 DEF FirstWaiting
<1>3. Waiting' = Waiting
    BY <1>1 DEF Waiting, RingLen, Inc
<1> QED BY <1>1, <1>2, <1>3 DEF WaitingNodes, Ahead

\* poll looks at the node it has taken: the queue loses its head.
LEMMA QueueShrinks ==
    ASSUME TypeOK, ReadsBeforeHead, PollFetch
    PROVE  /\ WaitingNodes # <<>> /\ Head(WaitingNodes) = node[slot]
           /\ WaitingNodes' = Tail(WaitingNodes)
<1> USE SizeAssumption DEF TypeOK, Idx
<1>1. /\ pc = "popped" /\ pc' # "popped" /\ UNCHANGED <<ringVars, slot>>
      /\ Inc(slot) = head
    BY DEF PollFetch, ReadsBeforeHead
<1>2. /\ FirstWaiting = slot /\ Waiting = RingLen + 1 /\ RingLen \in Nat
      /\ FirstWaiting' = head /\ Waiting' = RingLen
    BY <1>1, WaitingFacts DEF FirstWaiting, Waiting, RingLen, ringVars
<1>3. /\ WaitingNodes \in Seq(Node) /\ Len(WaitingNodes) = RingLen + 1
      /\ \A k \in 1 .. RingLen + 1 : WaitingNodes[k] = node[Ahead(slot, k - 1)]
    BY <1>2, WaitingFacts DEF WaitingNodes
<1>4. WaitingNodes # <<>> /\ Head(WaitingNodes) = node[slot]
  <2>1. Ahead(slot, 1 - 1) = slot
    BY DEF Ahead
  <2> QED BY <1>2, <1>3, <2>1
<1>5. WaitingNodes' = [k \in 1 .. RingLen |-> node[Ahead(head, k - 1)]]
    BY <1>1, <1>2 DEF WaitingNodes, Ahead, ringVars
<1>6. \A k \in 1 .. RingLen : Ahead(head, k - 1) = Ahead(slot, k)
    BY <1>1, WaitingFacts DEF Ahead, Inc
<1>7. WaitingNodes' \in Seq(Node) /\ Len(WaitingNodes') = RingLen
  <2>1. \A k \in 1 .. RingLen : node[Ahead(head, k - 1)] \in Node
    <3>1. \A k \in 1 .. RingLen : Ahead(head, k - 1) \in Idx
        BY WaitingFacts DEF Ahead
    <3> QED BY <3>1 DEF Node
  <2> QED BY <1>2, <1>5, <2>1
<1>8. \A k \in 1 .. RingLen : WaitingNodes'[k] = WaitingNodes[k + 1]
  <2> SUFFICES ASSUME NEW k \in 1 .. RingLen
               PROVE  WaitingNodes'[k] = WaitingNodes[k + 1]
    OBVIOUS
  <2>1. k + 1 \in 1 .. RingLen + 1 /\ (k + 1) - 1 = k
    BY <1>2
  <2>2. WaitingNodes[k + 1] = node[Ahead(slot, k)]
    BY <1>3, <2>1
  <2> QED BY <1>5, <1>6, <2>2
<1> HIDE DEF TypeOK, Idx
<1> QED BY <1>3, <1>4, <1>7, <1>8, IsTail

\* The node at the distance of i from head is i.
LEMMA AheadOfDist ==
    ASSUME head \in Idx, NEW i \in Idx
    PROVE  Ahead(head, Dist(i)) = i
BY SizeAssumption DEF Ahead, Dist, Idx

\* The node that is n nodes behind head is in the ring when n of them are.
LEMMA AheadInRing ==
    ASSUME head \in Int, 0 <= head, head < Size, tail \in Int, 0 <= tail, tail < Size,
           Size \in Int, NEW n \in Nat, n < RingLen
    PROVE  InRing(Ahead(head, n))
<1> DEFINE j == Ahead(head, n)
<1>1. j = IF head + n < Size THEN head + n ELSE head + n - Size
    BY DEF Ahead
<1> HIDE DEF j
<1>2. CASE head <= tail
  <2>1. n < tail - head
    BY <1>2 DEF RingLen
  <2>2. j = head + n
    BY <1>1, <1>2, <2>1
  <2> QED BY <1>2, <2>1, <2>2 DEF InRing, j
<1>3. CASE ~(head <= tail)
  <2>1. n < tail - head + Size
    BY <1>3 DEF RingLen
  <2>2. head <= j \/ j < tail
    BY <1>1, <2>1
  <2> QED BY <1>3, <2>2 DEF InRing, j
<1> QED BY <1>2, <1>3

\* vsf_evtq_clean_evt makes a place of the queue void.
LEMMA QueueVoided ==
    ASSUME TypeOK, pc # "popped", NEW i \in Idx, InRing(i),
           node' = [node EXCEPT ![i].eda = NoEda], UNCHANGED <<head, tail, pc, slot>>
    PROVE  /\ Dist(i) + 1 \in DOMAIN WaitingNodes
           /\ WaitingNodes[Dist(i) + 1] = node[i]
           /\ WaitingNodes' = [WaitingNodes EXCEPT ![Dist(i) + 1].eda = NoEda]
<1> USE SizeAssumption DEF TypeOK, Idx
<1>1. /\ FirstWaiting = head /\ Waiting = RingLen
      /\ FirstWaiting' = head /\ Waiting' = RingLen
    BY WaitingFacts DEF FirstWaiting, Waiting, RingLen
<1>2. Dist(i) \in Nat /\ Dist(i) < RingLen /\ RingLen \in 0 .. Size - 1
  <2>1. Dist(i) < Dist(tail) /\ Dist(i) \in 0 .. Size - 1
    BY DistFacts DEF InRing
  <2>2. RingLen = Dist(tail) /\ RingLen \in 0 .. Size - 1
    BY WaitingFacts
  <2> QED BY <2>1, <2>2
<1>3. Ahead(head, (Dist(i) + 1) - 1) = i
  <2>1. (Dist(i) + 1) - 1 = Dist(i)
    BY <1>2
  <2> QED BY <2>1, AheadOfDist
<1>4. DOMAIN WaitingNodes = 1 .. RingLen /\ Dist(i) + 1 \in 1 .. RingLen
  <2>1. Dist(i) + 1 \in 1 .. RingLen
    BY <1>2
  <2>2. WaitingNodes \in Seq(Node) /\ Len(WaitingNodes) = RingLen
    BY <1>1, WaitingFacts
  <2> QED BY <2>1, <2>2
<1>5. WaitingNodes = [k \in 1 .. RingLen |-> node[Ahead(head, k - 1)]]
    BY <1>1 DEF WaitingNodes
<1>6. WaitingNodes' = [k \in 1 .. RingLen |-> node'[Ahead(head, k - 1)]]
    BY <1>1 DEF WaitingNodes, Ahead
<1>7. \A k \in 1 .. RingLen : /\ Ahead(head, k - 1) \in Idx
                              /\ Ahead(head, k - 1) = i => k = Dist(i) + 1
  <2> SUFFICES ASSUME NEW k \in 1 .. RingLen
               PROVE  /\ Ahead(head, k - 1) \in Idx
                      /\ Ahead(head, k - 1) = i => k = Dist(i) + 1
    OBVIOUS
  <2>1. k \in Int /\ 1 <= k /\ k < Size
    BY <1>2
  <2>2. Ahead(head, k - 1) \in Idx
    <3>1. head \in Int /\ 0 <= head /\ head < Size /\ Size \in Int
        OBVIOUS
    <3>2. \A m \in Int : 0 <= m /\ m < Size => m \in Idx
        OBVIOUS
    <3> HIDE DEF TypeOK, Idx
    <3>3. Ahead(head, k - 1) \in Int /\ 0 <= Ahead(head, k - 1) /\ Ahead(head, k - 1) < Size
        BY <2>1, <3>1 DEF Ahead
    <3> QED BY <3>2, <3>3
  <2>3. ASSUME Ahead(head, k - 1) = i PROVE k = Dist(i) + 1
    <3>1. head \in Int /\ 0 <= head /\ head < Size /\ i \in Int /\ Size \in Int
        OBVIOUS
    <3> HIDE DEF TypeOK, Idx
    <3> QED BY <2>1, <2>3, <3>1 DEF Ahead, Dist
  <2> QED BY <2>2, <2>3
<1>8. WaitingNodes[Dist(i) + 1] = node[i]
    BY <1>3, <1>4, <1>5
<1>9. ASSUME NEW k \in 1 .. RingLen
      PROVE  WaitingNodes'[k] =
                [WaitingNodes EXCEPT ![Dist(i) + 1].eda = NoEda][k]
  <2>1. CASE k = Dist(i) + 1
    BY <1>3, <1>4, <1>5, <1>6, <1>8, <2>1
  <2>2. CASE k # Dist(i) + 1
    BY <1>4, <1>5, <1>6, <1>7, <2>2
  <2> QED BY <2>1, <2>2
<1>10. WaitingNodes' = [WaitingNodes EXCEPT ![Dist(i) + 1].eda = NoEda]
    BY <1>4, <1>5, <1>6, <1>9
<1> QED BY <1>4, <1>8, <1>10

\* An agent that has nothing in the ring or in poll has none in EventQueue.
LEMMA ClearIsAbsent ==
    ASSUME TypeOK, ReadsBeforeHead, PollKnows,
           NEW e \in Edas, Queued(e) = {}, ~Popped(e)
    PROVE  /\ \A k \in DOMAIN WaitingNodes : WaitingNodes[k].eda # e
           /\ RunningEvent = <<>> \/ RunningEvent[1].eda # e
<1>1. ASSUME NEW k \in DOMAIN WaitingNodes PROVE WaitingNodes[k].eda # e
  <2>1. k \in 1 .. Waiting /\ Ahead(FirstWaiting, k - 1) \in Idx
    BY WaitingFacts
  <2>2. WaitingNodes[k] = node[Ahead(FirstWaiting, k - 1)]
    BY <2>1 DEF WaitingNodes
  <2>3. CASE pc = "popped" /\ k = 1
    <3>1. Ahead(FirstWaiting, k - 1) = slot
        BY <2>3, SizeAssumption DEF Ahead, FirstWaiting, TypeOK, Idx
    <3> QED BY <2>2, <2>3, <3>1 DEF Popped
  <2>4. CASE pc # "popped" \/ k # 1
    <3>1. PICK j \in Idx : j = Ahead(FirstWaiting, k - 1)
        BY <2>1
    <3>2. k \in Int /\ 1 <= k /\ k <= Waiting
        BY <2>1, WaitingFacts
    <3>3. InRing(j)
      <4>1. CASE pc = "popped"
        <5>1. Inc(slot) = head /\ FirstWaiting = slot /\ Waiting = RingLen + 1
            BY <4>1 DEF ReadsBeforeHead, FirstWaiting, Waiting
        <5>2. /\ head \in Int /\ 0 <= head /\ head < Size
              /\ tail \in Int /\ 0 <= tail /\ tail < Size
              /\ slot \in Int /\ 0 <= slot /\ slot < Size /\ Size \in Int
            BY SizeAssumption DEF TypeOK, Idx
        <5>3. k >= 2 /\ k <= RingLen + 1
            BY <2>4, <3>2, <4>1, <5>1
        <5>4. k - 1 < Size /\ head = IF slot = Size - 1 THEN 0 ELSE slot + 1
            BY <3>2, <5>1, <5>2, <5>3, WaitingFacts DEF Inc
        <5>5. j = Ahead(slot, k - 1)
            BY <3>1, <5>1
        <5>6. j = Ahead(head, k - 2)
            BY <3>2, <5>2, <5>3, <5>4, <5>5 DEF Ahead
        <5>7. k - 2 \in Nat /\ k - 2 < RingLen
            BY <3>2, <5>2, <5>3, WaitingFacts
        <5> QED BY <5>2, <5>6, <5>7, AheadInRing
      <4>2. CASE pc # "popped"
        <5>1. FirstWaiting = head /\ Waiting = RingLen
            BY <4>2, WaitingFacts DEF FirstWaiting, Waiting
        <5>2. /\ head \in Int /\ 0 <= head /\ head < Size
              /\ tail \in Int /\ 0 <= tail /\ tail < Size /\ Size \in Int
            BY SizeAssumption DEF TypeOK, Idx
        <5>3. j = Ahead(head, k - 1) /\ k <= RingLen
            BY <3>1, <3>2, <5>1
        <5>4. k - 1 \in Nat /\ k - 1 < RingLen
            BY <3>2, <5>3, WaitingFacts
        <5> QED BY <5>2, <5>3, <5>4, AheadInRing
      <4> QED BY <4>1, <4>2
    <3> QED BY <2>2, <3>1, <3>3 DEF Queued
  <2> QED BY <2>3, <2>4
<1>2. RunningEvent = <<>> \/ RunningEvent[1].eda # e
    BY DEF RunningEvent, Popped, PollKnows
<1> QED BY <1>1, <1>2

\* A step that leaves queue, handler and agents alone is a stutter.
LEMMA StutterIsAllowed ==
    ASSUME WaitingNodes' = WaitingNodes, RunningEvent' = RunningEvent,
           UNCHANGED <<live, is_to_exit>>
    PROVE  UNCHANGED Abstract!vars
BY DEF Abstract!vars

\* vsf_evtq_on_eda_fini is Exit, or Terminate where nothing is counted.
LEMMA FiniRefines ==
    ASSUME TypeOK, ReadsBeforeHead, CoverInv, NEW e \in Edas, MayReceive(e), OnEdaFini(e),
           UNCHANGED <<ringVars, evt_cnt, pollVars>>
    PROVE  Abstract!Exit(e) \/ Abstract!Terminate(e)
<1>1. e \in live /\ ~is_to_exit[e]
    BY DEF MayReceive
<1>2. WaitingNodes' = WaitingNodes
    BY QueueKept DEF pollVars
<1>3. RunningEvent' = RunningEvent
    BY DEF RunningEvent, ringVars, pollVars
<1>4. CASE evt_cnt[e] = 0
  <2>1. live' = live \ {e} /\ is_to_exit' = is_to_exit
    BY <1>4 DEF OnEdaFini
  <2>2. Queued(e) = {} /\ ~Popped(e)
    BY <1>1, <1>4, ZeroIsCleared DEF CoverInv
  <2>3. /\ \A k \in DOMAIN WaitingNodes : WaitingNodes[k].eda # e
        /\ RunningEvent = <<>> \/ RunningEvent[1].eda # e
    BY <2>2, ClearIsAbsent DEF CoverInv
  <2>4. {x \in live : is_to_exit[x]}' = {x \in live : is_to_exit[x]} \ {e}
    BY <2>1
  <2>5. Abstract!Terminate(e)
    BY <1>1, <1>2, <1>3, <2>1, <2>3, <2>4 DEF Abstract!Terminate
  <2> QED BY <2>5
<1>5. CASE evt_cnt[e] # 0
  <2>1. live' = live /\ is_to_exit' = [is_to_exit EXCEPT ![e] = TRUE]
    BY <1>5 DEF OnEdaFini
  <2>2. {x \in live : is_to_exit[x]}' = {x \in live : is_to_exit[x]} \cup {e}
    BY <1>1, <2>1 DEF TypeOK
  <2>3. Abstract!Exit(e)
    BY <1>1, <1>2, <1>3, <2>1, <2>2 DEF Abstract!Exit
  <2> QED BY <2>3
<1> QED BY <1>4, <1>5

LEMMA ProduceRefines ==
    ASSUME TypeOK, ReadsBeforeHead, CoverInv, NEW p \in Posters, Produce(p)
    PROVE  Abstract!Next \/ UNCHANGED Abstract!vars
<1>1. ASSUME NEW e \in Edas, NEW v \in Evts, NEW cnt, ~Full, Enqueue(p, e, v, cnt),
             UNCHANGED <<head, pollVars>>
      PROVE  /\ WaitingNodes' = Append(WaitingNodes, [eda |-> e, evt |-> v])
             /\ RunningEvent' = RunningEvent
  <2>1. [eda |-> e, evt |-> v] \in Node
    BY DEF Node
  <2>2. WaitingNodes' = Append(WaitingNodes, [eda |-> e, evt |-> v])
    BY <1>1, <2>1, QueueGrows DEF Enqueue, pollVars
  <2>3. pc = "start" => slot # tail
    BY <1>1 DEF ReadsBeforeHead, Full
  <2>4. pc = "start" => node'[slot] = node[slot]
    BY <1>1, <2>3 DEF Enqueue, TypeOK
  <2> QED BY <1>1, <2>2, <2>4 DEF RunningEvent, pollVars
<1>2. ASSUME NEW e \in Edas, NEW v \in Evts, NEW f \in BOOLEAN,
             Post(p, e, v, f)
      PROVE  Abstract!Post(e, v)
  <2>1. /\ e \in live /\ ~is_to_exit[e] /\ ~Full
        /\ Enqueue(p, e, v, evt_cnt[e])
        /\ UNCHANGED <<head, is_to_exit, live, pollVars>>
    BY <1>2 DEF Post, MayReceive
  <2>2. /\ WaitingNodes' = Append(WaitingNodes, [eda |-> e, evt |-> v])
        /\ RunningEvent' = RunningEvent
    BY <1>1, <2>1
  <2> QED BY <2>1, <2>2 DEF Abstract!Post
<1>3. ASSUME NEW e \in Edas, NEW v \in Evts, Start(p, e, v)
      PROVE  Abstract!Start(e, v)
  <2>1. /\ e \notin live /\ ~Full /\ live' = live \cup {e}
        /\ is_to_exit' = [is_to_exit EXCEPT ![e] = FALSE]
        /\ Enqueue(p, e, v, 0)
        /\ UNCHANGED <<head, pollVars>>
    BY <1>3 DEF Start
  <2>2. /\ WaitingNodes' = Append(WaitingNodes, [eda |-> e, evt |-> v])
        /\ RunningEvent' = RunningEvent
    BY <1>1, <2>1
  <2>3. {x \in live : is_to_exit[x]}' = {x \in live : is_to_exit[x]}
    BY <2>1 DEF TypeOK
  <2> QED BY <2>1, <2>2, <2>3 DEF Abstract!Start
<1>4. ASSUME NEW e \in Edas, Kill(p, e)
      PROVE  Abstract!Exit(e) \/ Abstract!Terminate(e)
    BY <1>4, FiniRefines DEF Kill
<1>5. ASSUME UNCHANGED <<ringVars, edaVars, pollVars>>
      PROVE  UNCHANGED Abstract!vars
  <2>1. WaitingNodes' = WaitingNodes
    BY <1>5, QueueKept DEF pollVars
  <2>2. RunningEvent' = RunningEvent
    BY <1>5 DEF RunningEvent, ringVars, pollVars
  <2> QED BY <1>5, <2>1, <2>2, StutterIsAllowed DEF edaVars
<1> QED BY <1>2, <1>3, <1>4, <1>5
        DEF Produce, PostRefused, PostFull, Activate, PostError, Abstract!Next

LEMMA PollRefines ==
    ASSUME TypeOK, ReadsBeforeHead, CoverInv, Poll, ~CleanStep, ~CleanEnd
    PROVE  Abstract!Next \/ UNCHANGED Abstract!vars
<1>1. CASE SwiEnter \/ PollEmpty \/ PollStart \/ PollFinish \/ PollExit
  <2>1. UNCHANGED <<ringVars, slot, live, is_to_exit>>
    BY <1>1 DEF SwiEnter, PollEmpty, PollStart, PollFinish, PollExit, edaVars
  <2>2. WaitingNodes' = WaitingNodes
    BY <1>1, <2>1, QueueKept
       DEF SwiEnter, PollEmpty, PollStart, PollFinish, PollExit
  <2>3. RunningEvent' = RunningEvent
    BY <1>1, <2>1 DEF SwiEnter, PollEmpty, PollStart, PollFinish, PollExit,
                      RunningEvent, ringVars
  <2> QED BY <2>1, <2>2, <2>3, StutterIsAllowed
<1>2. CASE PollPop
  <2>1. WaitingNodes' = WaitingNodes
    BY <1>2, QueueTaken
  <2>2. RunningEvent' = RunningEvent /\ UNCHANGED <<live, is_to_exit>>
    BY <1>2 DEF PollPop, RunningEvent, edaVars
  <2> QED BY <2>1, <2>2, StutterIsAllowed
<1>3. CASE PollFetch
  <2>1. /\ WaitingNodes # <<>> /\ Head(WaitingNodes) = node[slot]
        /\ WaitingNodes' = Tail(WaitingNodes)
    BY <1>3, QueueShrinks
  <2>2. /\ pc = "popped" /\ UNCHANGED <<node, slot, live, is_to_exit>>
        /\ RunningEvent = <<>>
    BY <1>3 DEF PollFetch, RunningEvent, ringVars, edaVars
  <2>3. node[slot] \in Node /\ node[slot].eda \in Edas \cup {NoEda}
    BY DEF TypeOK, Node
  <2>4. CASE node[slot].eda = NoEda
    <3>1. RunningEvent' = <<>>
        BY <1>3, <2>4 DEF PollFetch, RunningEvent
    <3>2. Abstract!Drop
        BY <2>1, <2>2, <2>4, <3>1 DEF Abstract!Drop
    <3> QED BY <3>2 DEF Abstract!Next
  <2>5. CASE node[slot].eda # NoEda /\ is_to_exit[node[slot].eda]
    <3>1. RunningEvent' = <<>>
        BY <1>3, <2>5 DEF PollFetch, RunningEvent
    <3>2. Popped(node[slot].eda) /\ node[slot].eda \in Edas
        BY <2>2, <2>3, <2>5 DEF Popped
    <3>3. node[slot].eda \in live
        BY <3>2 DEF CoverInv, GoneIsClear
    <3>4. Abstract!Drop
        BY <2>1, <2>2, <2>5, <3>1, <3>3 DEF Abstract!Drop
    <3> QED BY <3>4 DEF Abstract!Next
  <2>6. CASE node[slot].eda # NoEda /\ ~is_to_exit[node[slot].eda]
    <3>1. RunningEvent' = <<[eda |-> node[slot].eda, evt |-> node[slot].evt]>>
        BY <1>3, <2>2, <2>6 DEF PollFetch, RunningEvent
    <3>2. node[slot] = [eda |-> node[slot].eda, evt |-> node[slot].evt]
        BY <2>3 DEF Node
    <3>3. Abstract!Dispatch
        BY <2>1, <2>2, <2>6, <3>1, <3>2 DEF Abstract!Dispatch
    <3> QED BY <3>3 DEF Abstract!Next
  <2> QED BY <2>4, <2>5, <2>6
<1>4. CASE PollTerminate
  <2>1. /\ pc = "terminate" /\ pc' = "poll" /\ live' = live \ {eda}
        /\ UNCHANGED <<ringVars, evt_cnt, is_to_exit, slot>>
    BY <1>4 DEF PollTerminate
  <2>e. PICK e \in Edas : e = eda
    BY <2>1 DEF CoverInv, PollKnows
  <2>2. e \in live /\ evt_cnt[e] = 0
    BY <2>1, <2>e DEF CoverInv, PollKnows
  <2>3. Queued(e) = {} /\ ~Popped(e)
    BY <2>2, ZeroIsCleared DEF CoverInv
  <2>4. /\ \A k \in DOMAIN WaitingNodes : WaitingNodes[k].eda # e
        /\ RunningEvent = <<>> \/ RunningEvent[1].eda # e
    BY <2>2, <2>3, ClearIsAbsent DEF CoverInv
  <2>5. WaitingNodes' = WaitingNodes
    BY <2>1, QueueKept
  <2>6. RunningEvent' = RunningEvent
    BY <2>1 DEF RunningEvent
  <2>7. {x \in live : is_to_exit[x]}' = {x \in live : is_to_exit[x]} \ {e}
    BY <2>1, <2>e
  <2>8. Abstract!Terminate(e)
    BY <2>1, <2>e, <2>2, <2>4, <2>5, <2>6, <2>7 DEF Abstract!Terminate
  <2> QED BY <2>8 DEF Abstract!Next
<1> QED BY <1>1, <1>2, <1>3, <1>4 DEF Poll

LEMMA HandleRefines ==
    ASSUME TypeOK, ReadsBeforeHead, CoverInv, Handle \/ CleanStep \/ CleanEnd
    PROVE  Abstract!Next \/ UNCHANGED Abstract!vars
<1>1. CASE HandlerReturn
  <2>1. WaitingNodes' = WaitingNodes
    BY <1>1, QueueKept DEF HandlerReturn
  <2>2. RunningEvent = <<cur>> /\ RunningEvent' = <<>>
    BY <1>1 DEF HandlerReturn, RunningEvent
  <2>3. Abstract!Return
    BY <1>1, <2>1, <2>2 DEF HandlerReturn, edaVars, Abstract!Return
  <2> QED BY <2>3 DEF Abstract!Next
<1>2. CASE Fini
  <2>1. PICK e \in Edas : e = cur.eda
    BY <1>2 DEF Fini, MayReceive, TypeOK
  <2>2. Abstract!Exit(e) \/ Abstract!Terminate(e)
    BY <1>2, <2>1, FiniRefines DEF Fini
  <2> QED BY <2>2 DEF Abstract!Next
<1>3. ASSUME NEW b \in BOOLEAN, SetLimitted(b) PROVE UNCHANGED Abstract!vars
  <2>1. WaitingNodes' = WaitingNodes
    BY <1>3, QueueKept DEF SetLimitted, pollVars
  <2>2. RunningEvent' = RunningEvent
    BY <1>3 DEF SetLimitted, RunningEvent, ringVars, pollVars
  <2> QED BY <1>3, <2>1, <2>2, StutterIsAllowed DEF SetLimitted
<1>4. ASSUME (\E v \in CleanEvts : CleanBegin(v)) \/ CleanEnd
      PROVE  UNCHANGED Abstract!vars
  <2>1. /\ pc \in {"dispatch", "clean"} /\ pc' \in {"dispatch", "clean"}
        /\ UNCHANGED <<ringVars, slot, cur, live, is_to_exit>>
    BY <1>4 DEF CleanBegin, CleanEnd, InHandler, edaVars
  <2>2. WaitingNodes' = WaitingNodes
    BY <2>1, QueueKept
  <2>3. RunningEvent' = RunningEvent
    BY <2>1 DEF RunningEvent
  <2> QED BY <2>1, <2>2, <2>3, StutterIsAllowed
<1>5. CASE CleanStep
  <2>1. /\ pc = "clean"
        /\ UNCHANGED <<head, tail, edaVars, cur, pc, slot, eda>>
    BY <1>5 DEF CleanStep
  <2>2. RunningEvent = <<cur>> /\ RunningEvent' = <<cur>>
    BY <2>1 DEF RunningEvent
  <2>3. CASE /\ node[clean.idx].eda = cur.eda
             /\ clean.evt \in {AnyEvt, node[clean.idx].evt}
    <3>1. node' = [node EXCEPT ![clean.idx].eda = NoEda]
        BY <1>5, <2>3 DEF CleanStep
    <3>2. clean.idx \in Idx /\ InRing(clean.idx)
        BY <1>5, CleanStepFacts
    <3>3. /\ Dist(clean.idx) + 1 \in DOMAIN WaitingNodes
          /\ WaitingNodes[Dist(clean.idx) + 1] = node[clean.idx]
          /\ WaitingNodes' =
                [WaitingNodes EXCEPT ![Dist(clean.idx) + 1].eda = NoEda]
        BY <2>1, <3>1, <3>2, QueueVoided
    <3>4. Abstract!Discard(Dist(clean.idx) + 1)
        BY <2>1, <2>2, <2>3, <3>3 DEF Abstract!Discard, edaVars
    <3> QED BY <3>3, <3>4 DEF Abstract!Next
  <2>4. CASE ~(/\ node[clean.idx].eda = cur.eda
               /\ clean.evt \in {AnyEvt, node[clean.idx].evt})
    <3>1. node' = node
        BY <1>5, <2>4 DEF CleanStep
    <3>2. WaitingNodes' = WaitingNodes
        BY <2>1, <3>1, QueueKept DEF ringVars
    <3> QED BY <2>1, <2>2, <3>2, StutterIsAllowed DEF edaVars
  <2> QED BY <2>3, <2>4
<1> QED BY <1>1, <1>2, <1>3, <1>4, <1>5 DEF Handle

\* The ring implements the event queue, for every ring size and any number of
\* agents and producers, with agents that are killed and with handlers that
\* call vsf_evtq_clean_evt, as long as cleans do not make evt_cnt wrap.
THEOREM RingImplementsQueue ==
    ASSUME CleanIsBounded
    PROVE  Spec => ImplementsEventQueue
<1>1. Init => Abstract!Init
  <2> SUFFICES ASSUME Init PROVE Abstract!Init
    OBVIOUS
  <2>1. TypeOK /\ Waiting = 0
    BY TypeInit DEF Init, Waiting, RingLen
  <2>2. WaitingNodes = <<>>
    BY <2>1, WaitingFacts
  <2> QED BY <2>2 DEF Init, RunningEvent, Abstract!Init
<1>2. Spec => [](TypeOK /\ ReadsBeforeHead /\ CoverInv)
  <2>1. Init => TypeOK /\ ReadsBeforeHead /\ CoverInv
    BY TypeInit, CoverInit
  <2>2. TypeOK /\ ReadsBeforeHead /\ CoverInv /\ [Next]_vars
          => TypeOK' /\ ReadsBeforeHead' /\ CoverInv'
    BY TypeStep, ReadsStep, CoverStep
  <2> QED BY <2>1, <2>2, PTL DEF Spec
<1>3. TypeOK /\ ReadsBeforeHead /\ CoverInv /\ [Next]_vars
        => [Abstract!Next]_(Abstract!vars)
  <2> SUFFICES ASSUME TypeOK, ReadsBeforeHead, CoverInv, [Next]_vars
               PROVE  Abstract!Next \/ UNCHANGED Abstract!vars
    OBVIOUS
  <2>1. ASSUME UNCHANGED vars PROVE UNCHANGED Abstract!vars
    <3>1. WaitingNodes' = WaitingNodes
        BY <2>1, QueueKept DEF vars, ringVars
    <3>2. RunningEvent' = RunningEvent
        BY <2>1 DEF vars, RunningEvent
    <3> QED BY <2>1, <3>1, <3>2, StutterIsAllowed DEF vars
  <2> QED BY <2>1, ProduceRefines, PollRefines, HandleRefines DEF Next
<1> QED BY <1>1, <1>2, <1>3, PTL DEF Spec, ImplementsEventQueue, Abstract!Spec

-----------------------------------------------------------------------------
(* Callback timers.  What the list functions do to the pointers is stated    *)
(* first, with a list as the sequence of timers that its pointers link; then *)
(* what that means for the set of timers in each list; then the invariant    *)
(* over these sets, one lemma per action.                                    *)

LEMMA LeastNumber ==
    ASSUME NEW T, T \subseteq Nat, T # {}
    PROVE  \E k \in T : \A j \in T : k <= j
<1>1. PICK k \in T : \A j \in T : ~(<<j, k>> \in OpToRel(<, Nat))
    BY NatLessThanWellFounded, WFMin, Zenon
<1>2. \A j \in T : ~(j < k)
    BY <1>1 DEF OpToRel
<1> QED BY <1>2

NumTimers == Cardinality(Timers)

MemType == [next : [Timers -> Nodes], prev : [Timers -> Nodes],
            head : [Lists -> Nodes], tail : [Lists -> Nodes]]

\* The pointers of list l in memory m link the timers of s, in this order.
Linked(m, l, s) ==
    /\ s \in Seq(Timers) /\ NoTwice(s)
    /\ m.head[l] = IF Len(s) = 0 THEN Null ELSE s[1]
    /\ m.tail[l] = IF Len(s) = 0 THEN Null ELSE s[Len(s)]
    /\ \A i \in 1 .. Len(s) :
          /\ m.next[s[i]] = IF i = Len(s) THEN Null ELSE s[i + 1]
          /\ m.prev[s[i]] = IF i = 1 THEN Null ELSE s[i - 1]

LEMMA LengthIsBounded ==
    ASSUME NEW s \in Seq(Timers), NoTwice(s)
    PROVE  NumTimers \in Nat /\ Len(s) <= NumTimers
<1>1. IsFiniteSet(Timers) /\ NumTimers \in Nat
    BY TimerAssumption, FS_CardinalityType DEF NumTimers
<1>2. Len(s) \in Nat /\ DOMAIN s = 1 .. Len(s) /\ s \in [1 .. Len(s) -> Timers]
    OBVIOUS
<1>3. IsFiniteSet(1 .. Len(s)) /\ Cardinality(1 .. Len(s)) = Len(s)
    BY <1>2, FS_Interval
<1>4. s \in Injection(1 .. Len(s), Timers)
    BY <1>2 DEF NoTwice, Injection, IsInjective
<1>5. Cardinality(1 .. Len(s)) <= Cardinality(Timers)
    BY <1>1, <1>4, FS_Injection, Zenon DEF ExistsInjection
<1> QED BY <1>1, <1>3, <1>5 DEF NumTimers

\* What the k-th step of a walk along next comes to.
WalkOf(s) == [k \in 0 .. NumTimers |-> IF k < Len(s) THEN s[k + 1] ELSE Null]
WalkRec(m, l, f) ==
    [k \in 0 .. NumTimers |-> IF k = 0 THEN m.head[l]
                      ELSE IF f[k - 1] = Null THEN Null ELSE m.next[f[k - 1]]]

LEMMA WalkUnfolds ==
    ASSUME NEW m, NEW l, NEW f, f = WalkRec(m, l, f)
    PROVE  Walk(m, l) = WalkRec(m, l, Walk(m, l))
BY DEF Walk, WalkRec, NumTimers

LEMMA WalkIsList ==
    ASSUME NEW m, NEW l, NEW s, Linked(m, l, s)
    PROVE  Walk(m, l) = WalkOf(s)
<1>0. s \in Seq(Timers) /\ Len(s) \in Nat /\ NumTimers \in Nat /\ Len(s) <= NumTimers
    BY LengthIsBounded DEF Linked
<1>n. \A i \in 1 .. Len(s) : s[i] # Null
    BY <1>0, TimerAssumption
<1>1. WalkOf(s) = WalkRec(m, l, WalkOf(s))
  <2> SUFFICES ASSUME NEW k \in 0 .. NumTimers
      PROVE  WalkOf(s)[k] = IF k = 0 THEN m.head[l]
                            ELSE IF WalkOf(s)[k - 1] = Null THEN Null
                            ELSE m.next[WalkOf(s)[k - 1]]
    BY DEF WalkOf, WalkRec
  <2>0. k \in Int /\ 0 <= k /\ k <= NumTimers
    BY <1>0
  <2>1. WalkOf(s)[k] = IF k < Len(s) THEN s[k + 1] ELSE Null
    BY DEF WalkOf
  <2>2. CASE k = 0
    BY <1>0, <2>1, <2>2 DEF Linked
  <2>3. CASE k # 0
    <3>1. k - 1 \in 0 .. NumTimers
        BY <1>0, <2>0, <2>3
    <3>2. WalkOf(s)[k - 1] = IF k - 1 < Len(s) THEN s[k - 1 + 1] ELSE Null
        BY <3>1 DEF WalkOf
    <3>3. k - 1 + 1 = k
        BY <2>0
    <3>4. CASE k - 1 < Len(s)
      <4>1. k \in 1 .. Len(s)
        BY <1>0, <2>0, <2>3, <3>4
      <4>2. WalkOf(s)[k - 1] = s[k] /\ s[k] # Null
        BY <1>n, <3>2, <3>3, <3>4, <4>1
      <4>3. m.next[s[k]] = IF k = Len(s) THEN Null ELSE s[k + 1]
        BY <4>1 DEF Linked
      <4>4. k = Len(s) <=> ~(k < Len(s))
        BY <1>0, <4>1
      <4> QED BY <2>1, <2>3, <4>2, <4>3, <4>4
    <3>5. CASE ~(k - 1 < Len(s))
      <4>1. ~(k < Len(s))
        BY <1>0, <2>0, <3>5
      <4> QED BY <2>1, <2>3, <3>2, <3>5, <4>1
    <3> QED BY <3>4, <3>5
  <2> QED BY <2>2, <2>3
<1>2. Walk(m, l) = WalkRec(m, l, Walk(m, l))
    BY <1>1, WalkUnfolds
<1> DEFINE bad == {k \in 0 .. NumTimers : Walk(m, l)[k] # WalkOf(s)[k]}
<1>3. bad = {}
  <2> SUFFICES ASSUME bad # {} PROVE FALSE
    OBVIOUS
  <2>0. bad \subseteq Nat
    BY <1>0
  <2> HIDE DEF bad
  <2>1. PICK k \in bad : \A j \in bad : k <= j
    BY <2>0, LeastNumber
  <2> USE DEF bad
  <2>2. k \in 0 .. NumTimers /\ Walk(m, l)[k] # WalkOf(s)[k]
    OBVIOUS
  <2>3. /\ Walk(m, l)[k] = IF k = 0 THEN m.head[l]
                           ELSE IF Walk(m, l)[k - 1] = Null THEN Null
                           ELSE m.next[Walk(m, l)[k - 1]]
        /\ WalkOf(s)[k] = IF k = 0 THEN m.head[l]
                          ELSE IF WalkOf(s)[k - 1] = Null THEN Null
                          ELSE m.next[WalkOf(s)[k - 1]]
    <3> HIDE DEF bad
    <3> DEFINE w == Walk(m, l)  v == WalkOf(s)
    <3>1. w = WalkRec(m, l, w) /\ v = WalkRec(m, l, v)
        BY <1>1, <1>2
    <3> HIDE DEF w, v
    <3>2. /\ WalkRec(m, l, w)[k] = IF k = 0 THEN m.head[l]
                           ELSE IF w[k - 1] = Null THEN Null
                           ELSE m.next[w[k - 1]]
          /\ WalkRec(m, l, v)[k] = IF k = 0 THEN m.head[l]
                           ELSE IF v[k - 1] = Null THEN Null
                           ELSE m.next[v[k - 1]]
        BY <2>2 DEF WalkRec
    <3> QED BY <3>1, <3>2 DEF w, v
  <2>4. k # 0
    BY <2>2, <2>3
  <2>5. k - 1 \in 0 .. NumTimers /\ ~(k <= k - 1)
    BY <1>0, <2>2, <2>4
  <2>6. Walk(m, l)[k - 1] = WalkOf(s)[k - 1]
    BY <2>1, <2>5
  <2> QED BY <2>2, <2>3, <2>6
<1>4. Walk(m, l) = [k \in 0 .. NumTimers |-> Walk(m, l)[k]]
    BY <1>2 DEF WalkRec
<1> QED BY <1>3, <1>4 DEF WalkOf

LEMMA InListIsSet ==
    ASSUME NEW m, NEW l, NEW s, Linked(m, l, s)
    PROVE  InList(m, l) = ToSet(s) /\ Walk(m, l)[NumTimers] = Null
<1>0. /\ s \in Seq(Timers) /\ Len(s) \in Nat /\ NumTimers \in Nat /\ Len(s) <= NumTimers
      /\ DOMAIN s = 1 .. Len(s)
    BY LengthIsBounded DEF Linked
<1>1. \A k \in 0 .. NumTimers : Walk(m, l)[k] = IF k < Len(s) THEN s[k + 1] ELSE Null
  <2>1. Walk(m, l) = WalkOf(s)
    BY WalkIsList
  <2> QED BY <2>1 DEF WalkOf
<1>2. Null \notin ToSet(s)
    BY <1>0, TimerAssumption DEF ToSet
<1>3. ASSUME NEW k \in 0 .. NumTimers, Walk(m, l)[k] # Null PROVE Walk(m, l)[k] \in ToSet(s)
  <2>1. k < Len(s) /\ Walk(m, l)[k] = s[k + 1]
    BY <1>1, <1>3
  <2>2. k + 1 \in DOMAIN s
    BY <1>0, <2>1
  <2> QED BY <2>1, <2>2 DEF ToSet
<1>4. ASSUME NEW i \in DOMAIN s PROVE \E k \in 0 .. NumTimers : Walk(m, l)[k] = s[i]
  <2>1. i - 1 \in 0 .. NumTimers /\ i - 1 < Len(s) /\ i - 1 + 1 = i
    BY <1>0
  <2> QED BY <1>1, <2>1
<1>5. InList(m, l) = {Walk(m, l)[k] : k \in 0 .. NumTimers} \ {Null}
    BY DEF InList, NumTimers
<1>6. \A x \in InList(m, l) : x \in ToSet(s)
    BY <1>3, <1>5
<1>7. \A x \in ToSet(s) : x \in InList(m, l)
    BY <1>2, <1>4, <1>5 DEF ToSet
<1>8. Walk(m, l)[NumTimers] = Null
    BY <1>0, <1>1
<1> QED BY <1>6, <1>7, <1>8

\* What an operation on list l leaves alone: the other list, and the timers that
\* are not in S.
LeavesOthers(m, r, l, S) ==
    /\ r \in MemType
    /\ \A o \in Lists \ {l} : r.head[o] = m.head[o] /\ r.tail[o] = m.tail[o]
    /\ \A x \in Timers \ S : r.next[x] = m.next[x] /\ r.prev[x] = m.prev[x]

LEMMA OtherListKept ==
    ASSUME NEW m, NEW r, NEW l, NEW S, LeavesOthers(m, r, l, S),
           NEW o \in Lists \ {l}, NEW s, Linked(m, o, s), ToSet(s) \cap S = {}
    PROVE  Linked(r, o, s)
<1>1. s \in Seq(Timers) /\ DOMAIN s = 1 .. Len(s)
    BY DEF Linked
<1>2. \A i \in 1 .. Len(s) : s[i] \in Timers \ S
    BY <1>1 DEF ToSet
<1> QED BY <1>2 DEF Linked, LeavesOthers

\* __vsf_dlist_add_to_tail_imp
PutsLast(m, l, s, n) ==
    /\ Linked(AddToTail(m, l, n), l, Append(s, n))
    /\ LeavesOthers(m, AddToTail(m, l, n), l, ToSet(s) \cup {n})
    /\ AddToTail(m, l, n).prev[n] = IF Len(s) = 0 THEN Null ELSE s[Len(s)]

LEMMA AddToTailFacts ==
    ASSUME NEW m \in MemType, NEW l \in Lists, NEW s, Linked(m, l, s),
           NEW n \in Timers, n \notin ToSet(s)
    PROVE  PutsLast(m, l, s, n)
<1> DEFINE r == AddToTail(m, l, n)
           p == m.tail[l]
           t == Append(s, n)
<1>0. /\ s \in Seq(Timers) /\ Len(s) \in Nat /\ DOMAIN s = 1 .. Len(s) /\ NoTwice(s)
      /\ \A i \in 1 .. Len(s) : s[i] \in Timers /\ s[i] # Null /\ s[i] # n
      /\ n # Null
    BY TimerAssumption DEF Linked, ToSet
<1>1. /\ t \in Seq(Timers) /\ Len(t) = Len(s) + 1 /\ t[Len(s) + 1] = n
      /\ \A i \in 1 .. Len(s) : t[i] = s[i]
    BY <1>0
<1>2. NoTwice(t)
    BY <1>0, AppendFacts
<1>3. /\ r.next = IF p = Null THEN [m.next EXCEPT ![n] = Null]
                              ELSE [m.next EXCEPT ![n] = Null, ![p] = n]
      /\ r.prev = [m.prev EXCEPT ![n] = p]
      /\ r.head = IF p = Null THEN [m.head EXCEPT ![l] = n] ELSE m.head
      /\ r.tail = [m.tail EXCEPT ![l] = n]
      /\ r = [next |-> r.next, prev |-> r.prev, head |-> r.head, tail |-> r.tail]
    BY DEF AddToTail
<1>4. /\ m.next \in [Timers -> Nodes] /\ m.prev \in [Timers -> Nodes]
      /\ m.head \in [Lists -> Nodes] /\ m.tail \in [Lists -> Nodes] /\ p \in Nodes
    BY DEF MemType
<1>5. p = IF Len(s) = 0 THEN Null ELSE s[Len(s)]
    BY DEF Linked
<1> HIDE DEF r, p, t
<1>6. \A x \in Timers : r.next[x] = IF p # Null /\ x = p THEN n
                                    ELSE IF x = n THEN Null ELSE m.next[x]
    BY <1>3, <1>4, TimerAssumption DEF Nodes
<1>7. \A x \in Timers : r.prev[x] = IF x = n THEN p ELSE m.prev[x]
    BY <1>3, <1>4
<1>8. /\ r.head[l] = IF p = Null THEN n ELSE m.head[l]
      /\ r.tail[l] = n
      /\ \A o \in Lists \ {l} : r.head[o] = m.head[o] /\ r.tail[o] = m.tail[o]
    BY <1>3, <1>4
<1>9. r \in MemType
  <2>1. r.next \in [Timers -> Nodes] /\ r.prev \in [Timers -> Nodes]
    BY <1>3, <1>4 DEF Nodes
  <2>2. r.head \in [Lists -> Nodes] /\ r.tail \in [Lists -> Nodes]
    BY <1>3, <1>4 DEF Nodes
  <2> QED BY <1>3, <2>1, <2>2 DEF MemType
<1>10. Len(s) # 0 => p \in ToSet(s) /\ p # Null
    BY <1>0, <1>5 DEF ToSet
<1>11. LeavesOthers(m, r, l, ToSet(s) \cup {n})
    BY <1>5, <1>6, <1>7, <1>8, <1>9, <1>10 DEF LeavesOthers
<1>12. ASSUME NEW i \in 1 .. Len(t)
       PROVE  /\ r.next[t[i]] = IF i = Len(t) THEN Null ELSE t[i + 1]
              /\ r.prev[t[i]] = IF i = 1 THEN Null ELSE t[i - 1]
  <2>1. CASE i = Len(s) + 1
    <3>1. t[i] = n /\ i = Len(t) /\ p # n
        BY <1>0, <1>1, <1>5, <2>1
    <3>2. r.next[n] = Null /\ r.prev[n] = p
        BY <1>6, <1>7, <3>1
    <3>3. p = IF i = 1 THEN Null ELSE t[i - 1]
        BY <1>0, <1>1, <1>5, <2>1
    <3> QED BY <3>1, <3>2, <3>3
  <2>2. CASE i # Len(s) + 1
    <3>1. i \in 1 .. Len(s) /\ t[i] = s[i] /\ i # Len(t) /\ Len(s) # 0
        BY <1>0, <1>1, <2>2
    <3>2. s[i] \in Timers /\ s[i] # n
        BY <1>0, <3>1
    <3>3. r.prev[s[i]] = m.prev[s[i]] /\ m.prev[s[i]] = IF i = 1 THEN Null ELSE s[i - 1]
        BY <1>7, <3>1, <3>2 DEF Linked
    <3>4. i # 1 => i - 1 \in 1 .. Len(s)
        BY <1>0, <3>1
    <3>5. CASE i = Len(s)
      <4>1. s[i] = p /\ p # Null
        BY <1>0, <1>5, <3>1, <3>5
      <4>2. r.next[s[i]] = n /\ t[i + 1] = n
        BY <1>1, <1>6, <3>2, <3>5, <4>1
      <4> QED BY <1>1, <3>1, <3>3, <3>4, <4>2
    <3>6. CASE i # Len(s)
      <4>1. i + 1 \in 1 .. Len(s) /\ t[i + 1] = s[i + 1]
        BY <1>0, <1>1, <3>1, <3>6
      <4>2. s[i] # p
        BY <1>0, <1>5, <3>1, <3>6 DEF NoTwice
      <4>3. r.next[s[i]] = m.next[s[i]] /\ m.next[s[i]] = s[i + 1]
        BY <1>6, <3>1, <3>2, <3>6, <4>2 DEF Linked
      <4> QED BY <1>1, <3>1, <3>3, <3>4, <4>1, <4>3
    <3> QED BY <3>5, <3>6
  <2> QED BY <2>1, <2>2
<1>13. r.head[l] = t[1] /\ r.tail[l] = t[Len(t)] /\ Len(t) # 0
  <2>1. CASE Len(s) = 0
    BY <1>1, <1>5, <1>8, <2>1
  <2>2. CASE Len(s) # 0
    <3>1. m.head[l] = s[1]
        BY <2>2 DEF Linked
    <3>2. 1 \in 1 .. Len(s)
        BY <1>0, <2>2
    <3>3. t[1] = s[1]
        BY <1>1, <3>2
    <3> QED BY <1>0, <1>1, <1>8, <1>10, <2>2, <3>1, <3>3
  <2> QED BY <2>1, <2>2
<1>14. Linked(r, l, t)
    BY <1>1, <1>2, <1>12, <1>13 DEF Linked
<1>15. r.prev[n] = IF Len(s) = 0 THEN Null ELSE s[Len(s)]
    BY <1>5, <1>7
<1> QED BY <1>11, <1>14, <1>15 DEF r, t, PutsLast

\* __vsf_dlist_remove_head_imp
LEMMA RemoveHeadFacts ==
    ASSUME NEW m \in MemType, NEW l \in Lists, NEW s, Linked(m, l, s),
           Len(s) # 0
    PROVE  /\ Linked(RemoveHead(m, l), l, Tail(s))
           /\ LeavesOthers(m, RemoveHead(m, l), l, ToSet(s))
<1> DEFINE r == RemoveHead(m, l)
           n == s[1]
           x == m.next[n]
           t == Tail(s)
<1>0. /\ s \in Seq(Timers) /\ Len(s) \in Nat /\ DOMAIN s = 1 .. Len(s) /\ NoTwice(s)
      /\ \A i \in 1 .. Len(s) : s[i] \in Timers /\ s[i] # Null
      /\ 1 \in 1 .. Len(s) /\ s # <<>> /\ m.head[l] = n /\ n # Null /\ n \in Timers
    BY TimerAssumption DEF Linked
<1>1. /\ t \in Seq(Timers) /\ Len(t) = Len(s) - 1
      /\ \A i \in 1 .. Len(s) - 1 : t[i] = s[i + 1]
    BY <1>0
<1>2. NoTwice(t)
    BY <1>0, TailFacts
<1>3. /\ r.next = [m.next EXCEPT ![n] = Null]
      /\ r.prev = IF x = Null THEN m.prev ELSE [m.prev EXCEPT ![x] = Null]
      /\ r.head = [m.head EXCEPT ![l] = x]
      /\ r.tail = IF x = Null THEN [m.tail EXCEPT ![l] = Null] ELSE m.tail
      /\ r = [next |-> r.next, prev |-> r.prev, head |-> r.head, tail |-> r.tail]
    BY <1>0 DEF RemoveHead
<1>4. /\ m.next \in [Timers -> Nodes] /\ m.prev \in [Timers -> Nodes]
      /\ m.head \in [Lists -> Nodes] /\ m.tail \in [Lists -> Nodes] /\ x \in Nodes
    BY <1>0 DEF MemType
<1>5. x = IF Len(s) = 1 THEN Null ELSE s[2]
  <2>1. m.next[s[1]] = IF 1 = Len(s) THEN Null ELSE s[1 + 1]
    BY <1>0 DEF Linked
  <2> QED BY <2>1
<1> HIDE DEF r, x, t, n
<1>n. n = s[1]
    BY DEF n
<1>6. /\ \A y \in Timers : r.next[y] = IF y = n THEN Null ELSE m.next[y]
      /\ \A y \in Timers : r.prev[y] = IF x # Null /\ y = x THEN Null ELSE m.prev[y]
    BY <1>3, <1>4
<1>8. /\ r.head[l] = x
      /\ r.tail[l] = IF x = Null THEN Null ELSE m.tail[l]
      /\ \A o \in Lists \ {l} : r.head[o] = m.head[o] /\ r.tail[o] = m.tail[o]
    BY <1>3, <1>4
<1>9. r \in MemType
  <2>0. Null \in Nodes
    BY DEF Nodes
  <2>1. r.next \in [Timers -> Nodes] /\ r.prev \in [Timers -> Nodes]
    <3>1. r.next \in [Timers -> Nodes]
        BY <1>3, <1>4, <2>0
    <3>2. r.prev \in [Timers -> Nodes]
      <4>1. CASE x = Null
        BY <1>3, <1>4, <4>1
      <4>2. CASE x # Null
        <5>1. r.prev = [m.prev EXCEPT ![x] = Null]
            BY <1>3, <4>2
        <5>2. m.prev \in [Timers -> Nodes]
            BY <1>4
        <5> QED BY <2>0, <5>1, <5>2
      <4> QED BY <4>1, <4>2
    <3> QED BY <3>1, <3>2
  <2>2. r.head \in [Lists -> Nodes] /\ r.tail \in [Lists -> Nodes]
    BY <1>3, <1>4 DEF Nodes
  <2> QED BY <1>3, <2>1, <2>2 DEF MemType
<1>10. n \in ToSet(s) /\ (x # Null => x \in ToSet(s) /\ 2 \in 1 .. Len(s) /\ x = s[2])
    BY <1>0, <1>5, <1>n DEF ToSet
<1>11. LeavesOthers(m, r, l, ToSet(s))
    BY <1>6, <1>8, <1>9, <1>10 DEF LeavesOthers
<1>12. ASSUME NEW i \in 1 .. Len(t)
       PROVE  /\ r.next[t[i]] = IF i = Len(t) THEN Null ELSE t[i + 1]
              /\ r.prev[t[i]] = IF i = 1 THEN Null ELSE t[i - 1]
  <2>0. i \in Int /\ 1 <= i /\ i <= Len(s) - 1 /\ Len(s) \in Int
    BY <1>0, <1>1
  <2>1. /\ i + 1 \in 1 .. Len(s) /\ t[i] = s[i + 1] /\ i + 1 # 1
        /\ i = Len(t) <=> i + 1 = Len(s)
    BY <1>1, <2>0
  <2>2. s[i + 1] # n /\ s[i + 1] \in Timers
    BY <1>0, <1>n, <2>1 DEF NoTwice
  <2>3. /\ m.next[s[i + 1]] = IF i + 1 = Len(s) THEN Null ELSE s[i + 1 + 1]
        /\ m.prev[s[i + 1]] = s[i + 1 - 1]
    BY <2>1 DEF Linked
  <2>4. r.next[t[i]] = IF i = Len(t) THEN Null ELSE t[i + 1]
    <3>1. i # Len(t) => i + 1 \in 1 .. Len(s) - 1
        BY <1>1, <2>0
    <3>2. i # Len(t) => t[i + 1] = s[i + 1 + 1]
        BY <1>1, <3>1
    <3> QED BY <1>6, <2>1, <2>2, <2>3, <3>2
  <2>5. CASE i = 1
    <3>1. s[i + 1] = x /\ x # Null
        BY <1>0, <1>1, <1>5, <2>1, <2>5
    <3> QED BY <1>6, <2>1, <2>2, <2>4, <2>5, <3>1
  <2>6. CASE i # 1
    <3>1. i - 1 \in 1 .. Len(s) - 1 /\ i - 1 + 1 = i /\ i + 1 - 1 = i
        BY <2>0, <2>6
    <3>2. t[i - 1] = s[i]
        BY <1>1, <3>1
    <3>3. x # Null => s[i + 1] # x
      <4>1. i + 1 # 2
        BY <2>0, <2>6
      <4> QED BY <1>0, <1>10, <2>1, <4>1 DEF NoTwice
    <3> QED BY <1>6, <2>1, <2>2, <2>3, <2>4, <2>6, <3>1, <3>2, <3>3
  <2> QED BY <2>5, <2>6
<1>13. /\ r.head[l] = IF Len(t) = 0 THEN Null ELSE t[1]
       /\ r.tail[l] = IF Len(t) = 0 THEN Null ELSE t[Len(t)]
  <2>1. CASE Len(s) = 1
    BY <1>1, <1>5, <1>8, <2>1
  <2>2. CASE Len(s) # 1
    <3>1. Len(t) # 0 /\ t[1] = s[2] /\ t[Len(t)] = s[Len(s)] /\ x = s[2] /\ x # Null
        BY <1>0, <1>1, <1>5, <2>2
    <3>2. m.tail[l] = s[Len(s)]
        BY <1>0 DEF Linked
    <3> QED BY <1>8, <3>1, <3>2
  <2> QED BY <2>1, <2>2
<1>14. Linked(r, l, t)
    BY <1>1, <1>2, <1>12, <1>13 DEF Linked
<1> QED BY <1>11, <1>14 DEF r, t

\* __vsf_dlist_remove_imp
LEMMA RemoveNodeFacts ==
    ASSUME NEW m \in MemType, NEW l \in Lists, NEW s, Linked(m, l, s),
           NEW i \in 1 .. Len(s)
    PROVE  /\ Linked(RemoveNode(m, l, s[i]), l, RemoveAt(s, i))
           /\ LeavesOthers(m, RemoveNode(m, l, s[i]), l, ToSet(s))
<1> DEFINE n == s[i]
           r == RemoveNode(m, l, n)
           x == m.next[n]
           p == m.prev[n]
           t == RemoveAt(s, i)
           next == [m.next EXCEPT ![n] = Null]
           prev == [m.prev EXCEPT ![n] = Null]
<1>0. /\ s \in Seq(Timers) /\ Len(s) \in Nat /\ DOMAIN s = 1 .. Len(s) /\ NoTwice(s)
      /\ \A j \in 1 .. Len(s) : s[j] \in Timers /\ s[j] # Null
      /\ i \in Int /\ 1 <= i /\ i <= Len(s)
    BY TimerAssumption DEF Linked
<1>1. /\ t \in Seq(Timers) /\ Len(t) = Len(s) - 1
      /\ \A j \in 1 .. Len(s) - 1 : t[j] = IF j < i THEN s[j] ELSE s[j + 1]
    BY <1>0, RemoveAtPlaces
<1>a. /\ Len(s) \in Int /\ i \in Int /\ 1 <= i /\ i <= Len(s)
      /\ Len(t) = Len(s) - 1 /\ Len(t) \in Int
  <2> HIDE DEF t
  <2> QED BY <1>0, <1>1
<1>2. NoTwice(t)
    BY <1>0, RemoveAtFacts
<1>3. /\ r.next = IF p = Null THEN next ELSE [next EXCEPT ![p] = x]
      /\ r.prev = IF x = Null THEN prev ELSE [prev EXCEPT ![x] = p]
      /\ r.head = IF p = Null THEN [m.head EXCEPT ![l] = x] ELSE m.head
      /\ r.tail = IF x = Null THEN [m.tail EXCEPT ![l] = p] ELSE m.tail
      /\ r = [next |-> r.next, prev |-> r.prev, head |-> r.head, tail |-> r.tail]
    BY DEF RemoveNode
<1>4. /\ m.next \in [Timers -> Nodes] /\ m.prev \in [Timers -> Nodes]
      /\ m.head \in [Lists -> Nodes] /\ m.tail \in [Lists -> Nodes]
      /\ x \in Nodes /\ p \in Nodes /\ Null \in Nodes /\ n \in Timers
    BY <1>0 DEF MemType, Nodes
<1>5. /\ x = IF i = Len(s) THEN Null ELSE s[i + 1]
      /\ p = IF i = 1 THEN Null ELSE s[i - 1]
    BY DEF Linked
<1>n. n = s[i]
    OBVIOUS
<1>6. /\ next \in [Timers -> Nodes] /\ prev \in [Timers -> Nodes]
      /\ \A y \in Timers : next[y] = IF y = n THEN Null ELSE m.next[y]
      /\ \A y \in Timers : prev[y] = IF y = n THEN Null ELSE m.prev[y]
    BY <1>4
<1> HIDE DEF r, x, p, t, n, next, prev
<1>7. /\ \A y \in Timers : r.next[y] = IF p # Null /\ y = p THEN x
                                       ELSE IF y = n THEN Null ELSE m.next[y]
      /\ \A y \in Timers : r.prev[y] = IF x # Null /\ y = x THEN p
                                       ELSE IF y = n THEN Null ELSE m.prev[y]
    BY <1>3, <1>6
<1>8. /\ r.head[l] = IF p = Null THEN x ELSE m.head[l]
      /\ r.tail[l] = IF x = Null THEN p ELSE m.tail[l]
      /\ \A o \in Lists \ {l} : r.head[o] = m.head[o] /\ r.tail[o] = m.tail[o]
    BY <1>3, <1>4
<1>9. r \in MemType
  <2>1. r.next \in [Timers -> Nodes]
    <3>1. CASE p = Null
        BY <1>3, <1>6, <3>1
    <3>2. CASE p # Null
      <4>1. r.next = [next EXCEPT ![p] = x]
        BY <1>3, <3>2
      <4> QED BY <1>4, <1>6, <4>1
    <3> QED BY <3>1, <3>2
  <2>2. r.prev \in [Timers -> Nodes]
    <3>1. CASE x = Null
        BY <1>3, <1>6, <3>1
    <3>2. CASE x # Null
      <4>1. r.prev = [prev EXCEPT ![x] = p]
        BY <1>3, <3>2
      <4> QED BY <1>4, <1>6, <4>1
    <3> QED BY <3>1, <3>2
  <2>3. r.head \in [Lists -> Nodes] /\ r.tail \in [Lists -> Nodes]
    BY <1>3, <1>4
  <2> QED BY <1>3, <2>1, <2>2, <2>3 DEF MemType
<1>10. /\ n \in ToSet(s)
       /\ x # Null => x \in ToSet(s) /\ i + 1 \in 1 .. Len(s) /\ x = s[i + 1]
       /\ p # Null => p \in ToSet(s) /\ i - 1 \in 1 .. Len(s) /\ p = s[i - 1]
  <2>1. i # Len(s) => i + 1 \in 1 .. Len(s)
    BY <1>a
  <2>2. i # 1 => i - 1 \in 1 .. Len(s)
    BY <1>a
  <2> QED BY <1>0, <1>5, <1>n, <2>1, <2>2 DEF ToSet
<1>11. LeavesOthers(m, r, l, ToSet(s))
    BY <1>7, <1>8, <1>9, <1>10 DEF LeavesOthers
<1>12. \A j, k \in 1 .. Len(s) : s[j] = s[k] <=> j = k
    BY <1>0 DEF NoTwice
<1>13. \A j \in 1 .. Len(s) : /\ m.next[s[j]] = IF j = Len(s) THEN Null ELSE s[j + 1]
                              /\ m.prev[s[j]] = IF j = 1 THEN Null ELSE s[j - 1]
    BY DEF Linked
<1>14. ASSUME NEW j \in 1 .. Len(t)
       PROVE  r.next[t[j]] = IF j = Len(t) THEN Null ELSE t[j + 1]
  <2>0. j \in Int /\ 1 <= j /\ j <= Len(s) - 1 /\ j \in 1 .. Len(s) - 1
    BY <1>0, <1>1
  <2>1. CASE j < i - 1
    <3>1. /\ j \in 1 .. Len(s) /\ j < i /\ j + 1 < i /\ j + 1 \in 1 .. Len(s) - 1
          /\ j # Len(s) /\ j # Len(s) - 1 /\ j # i /\ j # i - 1
        BY <1>a, <2>0, <2>1
    <3>2. t[j] = s[j] /\ t[j + 1] = s[j + 1]
        BY <1>1, <2>0, <3>1
    <3>3. s[j] # n /\ (p # Null => s[j] # p) /\ s[j] \in Timers
      <4>1. s[j] # n /\ s[j] \in Timers
        BY <1>0, <1>12, <1>n, <3>1
      <4>2. p # Null => s[j] # p
        BY <1>10, <1>12, <3>1
      <4> QED BY <4>1, <4>2
    <3>4. m.next[s[j]] = s[j + 1]
        BY <1>13, <3>1
    <3>5. r.next[s[j]] = m.next[s[j]]
        BY <1>7, <3>3
    <3>6. j # Len(t)
        BY <1>1, <3>1
    <3> QED BY <3>2, <3>4, <3>5, <3>6
  <2>2. CASE j = i - 1
    <3>1. j \in 1 .. Len(s) /\ j < i /\ i # 1 /\ j + 1 = i
        BY <1>a, <2>0, <2>2
    <3>2. t[j] = p /\ p # Null /\ p \in Timers
        BY <1>0, <1>1, <1>5, <2>0, <2>2, <3>1
    <3>3. r.next[t[j]] = x
        BY <1>7, <3>2
    <3>4. i # Len(s) => t[j + 1] = s[i + 1]
      <4>1. i # Len(s) => i \in 1 .. Len(s) - 1
        BY <1>a
      <4>2. i # Len(s) => t[i] = IF i < i THEN s[i] ELSE s[i + 1]
        BY <1>1, <4>1
      <4> QED BY <1>a, <3>1, <4>2
    <3>5. j = Len(t) <=> i = Len(s)
        BY <1>a, <2>2
    <3> QED BY <1>5, <3>3, <3>4, <3>5
  <2>3. CASE j >= i
    <3>1. /\ j + 1 \in 1 .. Len(s) /\ ~(j < i) /\ j + 1 # i /\ j + 1 # i - 1
          /\ j = Len(t) <=> j + 1 = Len(s)
        BY <1>a, <2>0, <2>3
    <3>2. t[j] = s[j + 1]
        BY <1>1, <2>0, <3>1
    <3>3. s[j + 1] # n /\ (p # Null => s[j + 1] # p) /\ s[j + 1] \in Timers
      <4>1. s[j + 1] # n /\ s[j + 1] \in Timers
        BY <1>0, <1>12, <1>n, <3>1
      <4>2. p # Null => s[j + 1] # p
        BY <1>10, <1>12, <3>1
      <4> QED BY <4>1, <4>2
    <3>4. j # Len(t) => t[j + 1] = s[j + 1 + 1]
      <4>1. j # Len(t) => j + 1 \in 1 .. Len(s) - 1 /\ ~(j + 1 < i)
        BY <1>a, <2>0, <2>3
      <4> QED BY <1>1, <4>1
    <3>5. m.next[s[j + 1]] = IF j + 1 = Len(s) THEN Null ELSE s[j + 1 + 1]
        BY <1>13, <3>1
    <3> QED BY <1>7, <3>1, <3>2, <3>3, <3>4, <3>5
  <2> QED BY <1>0, <2>0, <2>1, <2>2, <2>3
<1>15. ASSUME NEW j \in 1 .. Len(t)
       PROVE  r.prev[t[j]] = IF j = 1 THEN Null ELSE t[j - 1]
  <2>0. j \in Int /\ 1 <= j /\ j <= Len(s) - 1 /\ j \in 1 .. Len(s) - 1
    BY <1>0, <1>1
  <2>1. CASE j < i
    <3>1. j \in 1 .. Len(s) /\ j # i /\ j # i + 1
        BY <1>a, <2>0, <2>1
    <3>2. t[j] = s[j]
        BY <1>1, <2>0, <2>1
    <3>3. s[j] # n /\ (x # Null => s[j] # x) /\ s[j] \in Timers
        BY <1>0, <1>10, <1>12, <1>n, <3>1
    <3>4. j # 1 => t[j - 1] = s[j - 1]
      <4>1. j # 1 => j - 1 \in 1 .. Len(s) - 1 /\ j - 1 < i
        BY <1>a, <2>0, <2>1
      <4> QED BY <1>1, <4>1
    <3> QED BY <1>7, <1>13, <3>1, <3>2, <3>3, <3>4
  <2>2. CASE j = i
    <3>1. i # Len(s) /\ ~(j < i)
        BY <1>a, <2>0, <2>2
    <3>2. t[j] = x /\ x # Null /\ x \in Timers
      <4>0. i + 1 \in 1 .. Len(s)
        BY <1>a, <3>1
      <4>1. t[j] = s[i + 1] /\ i + 1 \in 1 .. Len(s)
        BY <1>1, <2>0, <2>2, <3>1, <4>0
      <4> QED BY <1>0, <1>5, <3>1, <4>1
    <3>3. r.prev[t[j]] = p
        BY <1>7, <3>2
    <3>4. j # 1 => t[j - 1] = s[i - 1]
      <4>1. j # 1 => j - 1 \in 1 .. Len(s) - 1 /\ j - 1 < i
        BY <1>a, <2>0, <2>2
      <4> QED BY <1>1, <2>2, <4>1
    <3> QED BY <1>5, <2>2, <3>3, <3>4
  <2>3. CASE j > i
    <3>1. /\ j + 1 \in 1 .. Len(s) /\ ~(j < i) /\ j + 1 # i /\ j + 1 # i + 1
          /\ j + 1 # 1 /\ j # 1 /\ j + 1 - 1 = j
        BY <1>a, <2>0, <2>3
    <3>2. t[j] = s[j + 1]
        BY <1>1, <2>0, <3>1
    <3>3. s[j + 1] # n /\ (x # Null => s[j + 1] # x) /\ s[j + 1] \in Timers
        BY <1>0, <1>10, <1>12, <1>n, <3>1
    <3>4. t[j - 1] = s[j]
      <4>1. j - 1 \in 1 .. Len(s) - 1 /\ ~(j - 1 < i) /\ j - 1 + 1 = j
        BY <1>a, <2>0, <2>3
      <4> QED BY <1>1, <4>1
    <3>5. m.prev[s[j + 1]] = s[j]
        BY <1>13, <3>1
    <3> QED BY <1>7, <3>1, <3>2, <3>3, <3>4, <3>5
  <2> QED BY <1>0, <2>0, <2>1, <2>2, <2>3
<1>16. /\ r.head[l] = IF Len(t) = 0 THEN Null ELSE t[1]
       /\ r.tail[l] = IF Len(t) = 0 THEN Null ELSE t[Len(t)]
  <2>0. m.head[l] = s[1] /\ m.tail[l] = s[Len(s)]
    <3>1. Len(s) # 0
        BY <1>a
    <3> QED BY <3>1 DEF Linked
  <2>1. Len(t) \in Int /\ Len(t) = Len(s) - 1 /\ (Len(t) = 0 => i = 1 /\ i = Len(s))
    BY <1>a
  <2>2. r.head[l] = IF Len(t) = 0 THEN Null ELSE t[1]
    <3>1. CASE i = 1
      <4>1. Len(t) # 0 => 1 \in 1 .. Len(s) - 1 /\ ~(1 < i) /\ 1 + 1 = i + 1
        BY <1>a, <2>1, <3>1
      <4>2. Len(t) # 0 => t[1] = s[i + 1]
        BY <1>1, <4>1
      <4> QED BY <1>5, <1>8, <2>1, <3>1, <4>2
    <3>2. CASE i # 1
      <4>1. 1 \in 1 .. Len(s) - 1 /\ 1 < i
        BY <1>a, <3>2
      <4>2. t[1] = s[1]
        BY <1>1, <4>1
      <4>3. p # Null
        <5>1. i - 1 \in 1 .. Len(s)
            BY <1>a, <3>2
        <5> QED BY <1>0, <1>5, <3>2, <5>1
      <4> QED BY <1>8, <2>0, <2>1, <3>2, <4>2, <4>3
    <3> QED BY <3>1, <3>2
  <2>3. r.tail[l] = IF Len(t) = 0 THEN Null ELSE t[Len(t)]
    <3>1. CASE i = Len(s)
      <4>1. Len(t) # 0 => Len(t) \in 1 .. Len(s) - 1 /\ Len(t) < i /\ Len(t) = i - 1
        BY <1>a, <2>1, <3>1
      <4>2. Len(t) # 0 => t[Len(t)] = s[i - 1]
        BY <1>1, <4>1
      <4> QED BY <1>5, <1>8, <2>1, <3>1, <4>2
    <3>2. CASE i # Len(s)
      <4>1. Len(t) \in 1 .. Len(s) - 1 /\ ~(Len(t) < i) /\ Len(t) + 1 = Len(s) /\ i + 1 \in 1 .. Len(s)
        BY <1>a, <2>1, <3>2
      <4>2. t[Len(t)] = s[Len(s)] /\ x # Null
        BY <1>0, <1>1, <1>5, <3>2, <4>1
      <4> QED BY <1>8, <2>0, <2>1, <3>2, <4>2
    <3> QED BY <3>1, <3>2
  <2> QED BY <2>2, <2>3
<1>17. Linked(r, l, t)
    BY <1>1, <1>2, <1>14, <1>15, <1>16 DEF Linked
<1> QED BY <1>11, <1>17 DEF r, t, n

\* __vsf_dlist_insert_before_imp
PutsBefore(m, l, s, i, n) ==
    /\ Linked(InsertBefore(m, l, s[i], n), l, InsertAt(s, i, n))
    /\ LeavesOthers(m, InsertBefore(m, l, s[i], n), l, ToSet(s) \cup {n})
    /\ InsertBefore(m, l, s[i], n).prev[n] = IF i = 1 THEN Null ELSE s[i - 1]

LEMMA InsertBeforeFacts ==
    ASSUME NEW m \in MemType, NEW l \in Lists, NEW s, Linked(m, l, s),
           NEW i \in 1 .. Len(s), NEW n \in Timers, n \notin ToSet(s)
    PROVE  PutsBefore(m, l, s, i, n)
<1> DEFINE x == s[i]
           r == InsertBefore(m, l, x, n)
           p == m.prev[x]
           t == InsertAt(s, i, n)
           next == [m.next EXCEPT ![n] = x]
<1>0. /\ s \in Seq(Timers) /\ Len(s) \in Nat /\ DOMAIN s = 1 .. Len(s) /\ NoTwice(s)
      /\ \A j \in 1 .. Len(s) : s[j] \in Timers /\ s[j] # Null /\ s[j] # n
      /\ i \in Int /\ 1 <= i /\ i <= Len(s) /\ n # Null
    BY TimerAssumption DEF Linked, ToSet
<1>i. i \in 1 .. Len(s) + 1
    BY <1>0
<1>1. /\ t \in Seq(Timers) /\ Len(t) = Len(s) + 1
      /\ \A j \in 1 .. Len(s) + 1 : t[j] = IF j < i THEN s[j]
                                           ELSE IF j = i THEN n ELSE s[j - 1]
  <2>0. s \in Seq(Timers)
    BY <1>0
  <2>1. /\ InsertAt(s, i, n) \in Seq(Timers)
        /\ Len(InsertAt(s, i, n)) = Len(s) + 1
        /\ \A j \in 1 .. Len(s) + 1 :
              InsertAt(s, i, n)[j] = IF j < i THEN s[j]
                                     ELSE IF j = i THEN n ELSE s[j - 1]
    BY <1>i, <2>0, InsertAtPlaces
  <2> QED BY <2>1
<1>a. /\ Len(s) \in Int /\ i \in Int /\ 1 <= i /\ i <= Len(s)
      /\ Len(t) = Len(s) + 1 /\ Len(t) \in Int
  <2> HIDE DEF t
  <2> QED BY <1>0, <1>1
<1>2. NoTwice(t)
    BY <1>0, <1>i, InsertAtFacts
<1>3. /\ r.next = IF p = Null THEN next ELSE [m.next EXCEPT ![n] = x, ![p] = n]
      /\ r.prev = [m.prev EXCEPT ![n] = p, ![x] = n]
      /\ r.head = IF p = Null THEN [m.head EXCEPT ![l] = n] ELSE m.head
      /\ r.tail = m.tail
      /\ r = [next |-> r.next, prev |-> r.prev, head |-> r.head, tail |-> r.tail]
    BY DEF InsertBefore
<1>4. /\ m.next \in [Timers -> Nodes] /\ m.prev \in [Timers -> Nodes]
      /\ m.head \in [Lists -> Nodes] /\ m.tail \in [Lists -> Nodes]
      /\ x \in Timers /\ p \in Nodes /\ Null \in Nodes /\ n \in Nodes /\ x \in Nodes
      /\ x # n /\ x # Null
    BY <1>0 DEF MemType, Nodes
<1>5. p = IF i = 1 THEN Null ELSE s[i - 1]
    BY DEF Linked
<1>n. x = s[i]
    OBVIOUS
<1> HIDE DEF r, x, p, t, next
<1>10. /\ x \in ToSet(s)
       /\ p # Null => p \in ToSet(s) /\ i - 1 \in 1 .. Len(s) /\ p = s[i - 1] /\ p # n
  <2>1. i # 1 => i - 1 \in 1 .. Len(s)
    BY <1>a
  <2> QED BY <1>0, <1>5, <1>n, <2>1 DEF ToSet
<1>6. next \in [Timers -> Nodes] /\ \A y \in Timers : next[y] = IF y = n THEN x ELSE m.next[y]
    BY <1>4 DEF next
<1>7. /\ \A y \in Timers : r.next[y] = IF p # Null /\ y = p THEN n
                                       ELSE IF y = n THEN x ELSE m.next[y]
      /\ \A y \in Timers : r.prev[y] = IF y = x THEN n
                                       ELSE IF y = n THEN p ELSE m.prev[y]
  <2>1. CASE p = Null
    BY <1>3, <1>4, <1>6, <2>1
  <2>2. CASE p # Null
    BY <1>3, <1>4, <1>10, <2>2
  <2> QED BY <2>1, <2>2
<1>8. /\ r.head[l] = IF p = Null THEN n ELSE m.head[l]
      /\ r.tail[l] = m.tail[l]
      /\ \A o \in Lists \ {l} : r.head[o] = m.head[o] /\ r.tail[o] = m.tail[o]
    BY <1>3, <1>4
<1>9. r \in MemType
  <2>1. r.next \in [Timers -> Nodes]
    <3>1. CASE p = Null
        BY <1>3, <1>6, <3>1
    <3>2. CASE p # Null
      <4>1. r.next = [m.next EXCEPT ![n] = x, ![p] = n]
        BY <1>3, <3>2
      <4> QED BY <1>4, <4>1
    <3> QED BY <3>1, <3>2
  <2>2. r.prev \in [Timers -> Nodes]
    <3>1. r.prev = [m.prev EXCEPT ![n] = p, ![x] = n]
        BY <1>3
    <3> QED BY <1>4, <3>1
  <2>3. r.head \in [Lists -> Nodes] /\ r.tail \in [Lists -> Nodes]
    BY <1>3, <1>4
  <2> QED BY <1>3, <2>1, <2>2, <2>3 DEF MemType
<1>11. LeavesOthers(m, r, l, ToSet(s) \cup {n})
    BY <1>7, <1>8, <1>9, <1>10 DEF LeavesOthers
<1>12. \A j, k \in 1 .. Len(s) : s[j] = s[k] <=> j = k
    BY <1>0 DEF NoTwice
<1>13. \A j \in 1 .. Len(s) : /\ m.next[s[j]] = IF j = Len(s) THEN Null ELSE s[j + 1]
                              /\ m.prev[s[j]] = IF j = 1 THEN Null ELSE s[j - 1]
    BY DEF Linked
<1>14. ASSUME NEW j \in 1 .. Len(t)
       PROVE  r.next[t[j]] = IF j = Len(t) THEN Null ELSE t[j + 1]
  <2>0. j \in Int /\ 1 <= j /\ j <= Len(s) + 1 /\ j \in 1 .. Len(s) + 1
    BY <1>a
  <2>1. CASE j < i - 1
    <3>1. /\ j \in 1 .. Len(s) /\ j < i /\ j + 1 < i /\ j + 1 \in 1 .. Len(s) + 1
          /\ j # Len(s) /\ j # Len(s) + 1 /\ j # i - 1
        BY <1>a, <2>0, <2>1
    <3>2. t[j] = s[j] /\ t[j + 1] = s[j + 1]
        BY <1>1, <2>0, <3>1
    <3>3. s[j] # n /\ (p # Null => s[j] # p) /\ s[j] \in Timers
      <4>1. s[j] # n /\ s[j] \in Timers
        BY <1>0, <3>1
      <4>2. p # Null => s[j] # p
        BY <1>10, <1>12, <3>1
      <4> QED BY <4>1, <4>2
    <3>4. m.next[s[j]] = s[j + 1]
        BY <1>13, <3>1
    <3>5. r.next[s[j]] = m.next[s[j]]
        BY <1>7, <3>3
    <3> QED BY <1>1, <3>1, <3>2, <3>4, <3>5
  <2>2. CASE j = i - 1
    <3>1. /\ j \in 1 .. Len(s) /\ j < i /\ i # 1 /\ j + 1 = i /\ j # Len(s) + 1
          /\ i - 1 \in 1 .. Len(s)
        BY <1>a, <2>0, <2>2
    <3>2. t[j] = p /\ p # Null /\ p \in Timers
        BY <1>0, <1>1, <1>5, <2>0, <2>2, <3>1
    <3>3. r.next[t[j]] = n
        BY <1>7, <3>2
    <3>4. t[j + 1] = n
      <4>1. t[i] = n
        BY <1>1, <1>i, <1>a
      <4> QED BY <3>1, <4>1
    <3> QED BY <1>1, <3>1, <3>3, <3>4
  <2>3. CASE j = i
    <3>1. t[j] = n /\ j # Len(s) + 1
      <4>1. ~(j < i) /\ j # Len(s) + 1
        BY <1>a, <2>3
      <4> QED BY <1>1, <2>0, <2>3, <4>1
    <3>2. t[j + 1] = x
      <4>1. i + 1 \in 1 .. Len(s) + 1 /\ ~(i + 1 < i) /\ i + 1 # i /\ i + 1 - 1 = i
        BY <1>a
      <4>2. t[i + 1] = s[i]
        BY <1>1, <4>1
      <4> QED BY <1>n, <2>3, <4>2
    <3>3. r.next[n] = x
        BY <1>7, <1>10
    <3> QED BY <1>1, <3>1, <3>2, <3>3
  <2>4. CASE j > i
    <3>1. /\ j - 1 \in 1 .. Len(s) /\ ~(j < i) /\ j # i /\ j - 1 # i - 1
          /\ j = Len(s) + 1 <=> j - 1 = Len(s)
          /\ j - 1 + 1 = j
        BY <1>a, <2>0, <2>4
    <3>2. t[j] = s[j - 1]
        BY <1>1, <2>0, <3>1
    <3>3. s[j - 1] # n /\ (p # Null => s[j - 1] # p) /\ s[j - 1] \in Timers
      <4>1. s[j - 1] # n /\ s[j - 1] \in Timers
        BY <1>0, <3>1
      <4>2. p # Null => s[j - 1] # p
        BY <1>10, <1>12, <3>1
      <4> QED BY <4>1, <4>2
    <3>4. j # Len(s) + 1 => t[j + 1] = s[j]
      <4>1. j # Len(s) + 1 => /\ j + 1 \in 1 .. Len(s) + 1 /\ ~(j + 1 < i)
                              /\ j + 1 # i /\ j + 1 - 1 = j
        BY <1>a, <2>0, <2>4
      <4> QED BY <1>1, <4>1
    <3>5. m.next[s[j - 1]] = IF j - 1 = Len(s) THEN Null ELSE s[j]
        BY <1>13, <3>1
    <3> QED BY <1>1, <1>7, <3>1, <3>2, <3>3, <3>4, <3>5
  <2> QED BY <1>a, <2>0, <2>1, <2>2, <2>3, <2>4
<1>15. ASSUME NEW j \in 1 .. Len(t)
       PROVE  r.prev[t[j]] = IF j = 1 THEN Null ELSE t[j - 1]
  <2>0. j \in Int /\ 1 <= j /\ j <= Len(s) + 1 /\ j \in 1 .. Len(s) + 1
    BY <1>a
  <2>1. CASE j < i
    <3>1. j \in 1 .. Len(s) /\ j # i
        BY <1>a, <2>0, <2>1
    <3>2. t[j] = s[j]
        BY <1>1, <2>0, <2>1
    <3>3. s[j] # n /\ s[j] # x /\ s[j] \in Timers
        BY <1>0, <1>12, <1>n, <3>1
    <3>4. j # 1 => t[j - 1] = s[j - 1]
      <4>1. j # 1 => j - 1 \in 1 .. Len(s) + 1 /\ j - 1 < i
        BY <1>a, <2>0, <2>1
      <4> QED BY <1>1, <4>1
    <3>5. m.prev[s[j]] = IF j = 1 THEN Null ELSE s[j - 1]
        BY <1>13, <3>1
    <3>6. r.prev[s[j]] = m.prev[s[j]]
        BY <1>7, <3>3
    <3> QED BY <3>2, <3>4, <3>5, <3>6
  <2>2. CASE j = i
    <3>1. t[j] = n
      <4>1. ~(j < i)
        BY <1>a, <2>2
      <4> QED BY <1>1, <2>0, <2>2, <4>1
    <3>2. r.prev[n] = p
        BY <1>4, <1>7
    <3>3. j # 1 => t[j - 1] = s[i - 1]
      <4>1. j # 1 => j - 1 \in 1 .. Len(s) + 1 /\ j - 1 < i
        BY <1>a, <2>0, <2>2
      <4> QED BY <1>1, <2>2, <4>1
    <3> QED BY <1>5, <2>2, <3>1, <3>2, <3>3
  <2>3. CASE j = i + 1
    <3>1. t[j] = x /\ t[j - 1] = n /\ j # 1
      <4>1. /\ ~(j < i) /\ j # i /\ j - 1 = i /\ ~(i < i) /\ j # 1
        BY <1>a, <2>3
      <4>2. t[j] = s[j - 1] /\ t[i] = n
        BY <1>1, <1>i, <2>0, <4>1
      <4> QED BY <1>n, <4>1, <4>2
    <3> QED BY <1>4, <1>7, <3>1
  <2>4. CASE j > i + 1
    <3>1. /\ j - 1 \in 1 .. Len(s) /\ ~(j < i) /\ j # i /\ j - 1 # i /\ j - 1 # 1
          /\ j # 1 /\ ~(j - 1 < i) /\ j - 1 \in 1 .. Len(s) + 1
        BY <1>a, <2>0, <2>4
    <3>2. t[j] = s[j - 1] /\ t[j - 1] = s[j - 1 - 1]
        BY <1>1, <2>0, <3>1
    <3>3. s[j - 1] # n /\ s[j - 1] # x /\ s[j - 1] \in Timers
        BY <1>0, <1>12, <1>n, <3>1
    <3>4. m.prev[s[j - 1]] = s[j - 1 - 1]
        BY <1>13, <3>1
    <3> QED BY <1>7, <3>1, <3>2, <3>3, <3>4
  <2> QED BY <1>a, <2>0, <2>1, <2>2, <2>3, <2>4
<1>16. r.head[l] = t[1] /\ r.tail[l] = t[Len(t)] /\ Len(t) # 0
  <2>0. m.head[l] = s[1] /\ m.tail[l] = s[Len(s)]
    <3>1. Len(s) # 0
        BY <1>a
    <3> QED BY <3>1 DEF Linked
  <2>1. r.head[l] = t[1]
    <3>1. CASE i = 1
      <4>1. t[1] = n
        <5>1. ~(1 < i) /\ 1 = i
            BY <3>1
        <5> QED BY <1>1, <1>i, <5>1
      <4> QED BY <1>5, <1>8, <3>1, <4>1
    <3>2. CASE i # 1
      <4>1. 1 \in 1 .. Len(s) + 1 /\ 1 < i /\ i - 1 \in 1 .. Len(s)
        BY <1>a, <3>2
      <4>2. t[1] = s[1]
        BY <1>1, <4>1
      <4>3. p # Null
        BY <1>0, <1>5, <3>2, <4>1
      <4> QED BY <1>8, <2>0, <4>2, <4>3
    <3> QED BY <3>1, <3>2
  <2>2. r.tail[l] = t[Len(t)] /\ Len(t) # 0
    <3>1. /\ Len(s) + 1 \in 1 .. Len(s) + 1 /\ ~(Len(s) + 1 < i) /\ Len(s) + 1 # i
          /\ Len(s) + 1 - 1 = Len(s) /\ Len(s) + 1 # 0
        BY <1>a
    <3>2. t[Len(s) + 1] = s[Len(s)]
        BY <1>1, <3>1
    <3> QED BY <1>1, <1>8, <2>0, <3>1, <3>2
  <2> QED BY <2>1, <2>2
<1>17. Linked(r, l, t)
    BY <1>1, <1>2, <1>14, <1>15, <1>16 DEF Linked
<1>18. r.prev[n] = IF i = 1 THEN Null ELSE s[i - 1]
    BY <1>4, <1>5, <1>7
<1> QED BY <1>11, <1>17, <1>18 DEF r, t, x, PutsBefore

Sorted(s, d) == \A i, j \in 1 .. Len(s) : i < j => d[s[i]] <= d[s[j]]

\* The place that vsf_callback_timq_insert finds.
LEMMA PlaceFacts ==
    ASSUME NEW m, NEW l, NEW s, Linked(m, l, s),
           NEW n \in Timers, NEW d \in [Timers -> Nat]
    PROVE  \E at \in 0 .. Len(s) :
              /\ Insert(m, l, n, d) = IF at = Len(s) THEN AddToTail(m, l, n)
                                      ELSE InsertBefore(m, l, s[at + 1], n)
              /\ at # Len(s) => d[s[at + 1]] >= d[n]
              /\ \A j \in 1 .. at : d[s[j]] < d[n]
<1> DEFINE walk == Walk(m, l)
           fits(k) == walk[k] = Null \/ d[walk[k]] >= d[n]
           here(k) == /\ walk[k] = Null \/ d[walk[k]] >= d[n]
                      /\ \A j \in 0 .. k - 1 : walk[j] # Null /\ d[walk[j]] < d[n]
<1>0. /\ s \in Seq(Timers) /\ Len(s) \in Nat /\ NumTimers \in Nat /\ Len(s) <= NumTimers
      /\ \A i \in 1 .. Len(s) : s[i] \in Timers /\ s[i] # Null
    BY LengthIsBounded, TimerAssumption DEF Linked
<1>1. walk = WalkOf(s)
    BY WalkIsList
<1>2. /\ DOMAIN walk = 0 .. NumTimers
      /\ \A k \in 0 .. NumTimers : walk[k] = IF k < Len(s) THEN s[k + 1] ELSE Null
    BY <1>1 DEF WalkOf
<1> HIDE DEF walk
<1>3. \A k \in 0 .. NumTimers :
         /\ k < Len(s) => walk[k] = s[k + 1] /\ walk[k] \in Timers /\ walk[k] # Null
         /\ ~(k < Len(s)) => walk[k] = Null
  <2> SUFFICES ASSUME NEW k \in 0 .. NumTimers, k < Len(s)
               PROVE  s[k + 1] \in Timers /\ s[k + 1] # Null
    BY <1>2
  <2>1. k + 1 \in 1 .. Len(s)
    BY <1>0
  <2> QED BY <1>0, <2>1
<1>4. \E k \in DOMAIN walk : here(k)
  <2> DEFINE T == {k \in 0 .. NumTimers : fits(k)}
  <2>1. Len(s) \in T
    BY <1>0, <1>3
  <2>2. T \subseteq Nat
    BY <1>0
  <2> HIDE DEF T
  <2>3. PICK k \in T : \A j \in T : k <= j
    BY <2>1, <2>2, LeastNumber
  <2>4. k \in 0 .. NumTimers /\ fits(k)
    BY DEF T
  <2>5. ASSUME NEW j \in 0 .. k - 1 PROVE walk[j] # Null /\ d[walk[j]] < d[n]
    <3>1. j \in 0 .. NumTimers /\ ~(k <= j)
        BY <1>0, <2>4
    <3>2. ~fits(j)
        BY <2>3, <3>1 DEF T
    <3>3. walk[j] # Null /\ walk[j] \in Timers
        BY <1>3, <3>1, <3>2
    <3>4. d[walk[j]] \in Nat /\ d[n] \in Nat
        BY <3>3
    <3> QED BY <3>2, <3>3, <3>4
  <2> QED BY <1>2, <2>4, <2>5
<1> DEFINE at == CHOOSE k \in DOMAIN walk : here(k)
<1>5. at \in 0 .. NumTimers /\ here(at)
    BY <1>2, <1>4
<1>6. Insert(m, l, n, d) = IF walk[at] = Null THEN AddToTail(m, l, n)
                           ELSE InsertBefore(m, l, walk[at], n)
    BY DEF Insert, walk
<1> HIDE DEF at
<1>7. at \in Int /\ 0 <= at /\ at <= Len(s)
  <2>1. at \in Int /\ 0 <= at
    BY <1>0, <1>5
  <2>2. ASSUME at > Len(s) PROVE FALSE
    <3>1. Len(s) \in 0 .. at - 1 /\ Len(s) \in 0 .. NumTimers /\ ~(Len(s) < Len(s))
        BY <1>0, <2>1, <2>2
    <3> QED BY <1>3, <1>5, <3>1
  <2> QED BY <1>0, <2>1, <2>2
<1>8. /\ at # Len(s) => walk[at] = s[at + 1] /\ walk[at] # Null
      /\ at = Len(s) => walk[at] = Null
  <2>1. at # Len(s) => at < Len(s)
    BY <1>0, <1>7
  <2> QED BY <1>0, <1>3, <1>5, <2>1
<1>9. ASSUME NEW j \in 1 .. at PROVE d[s[j]] < d[n]
  <2>1. j - 1 \in 0 .. at - 1 /\ j - 1 \in 0 .. NumTimers /\ j - 1 < Len(s) /\ j - 1 + 1 = j
    BY <1>0, <1>7
  <2> QED BY <1>3, <1>5, <2>1
<1>10. at # Len(s) => d[s[at + 1]] >= d[n]
    BY <1>5, <1>8
<1>11. at \in 0 .. Len(s)
    BY <1>0, <1>7
<1>12. Insert(m, l, n, d) = IF at = Len(s) THEN AddToTail(m, l, n)
                            ELSE InsertBefore(m, l, s[at + 1], n)
    BY <1>6, <1>8
<1> QED BY <1>9, <1>10, <1>11, <1>12

\* What vsf_callback_timq_insert does to the list.
Inserts(m, l, s, n, d, r, t) ==
    /\ Linked(r, l, t) /\ ToSet(t) = ToSet(s) \cup {n}
    /\ LeavesOthers(m, r, l, ToSet(s) \cup {n})
    /\ Sorted(t, d)
    /\ r.prev[n] = Null => t[1] = n
    /\ r.prev[n] # Null => Len(s) # 0 /\ t[1] = s[1]

\* The list with n at a place where it fits is sorted.
Fits(s, n, d, i) ==
    /\ i # Len(s) + 1 => d[s[i]] >= d[n]
    /\ \A j \in 1 .. i - 1 : d[s[j]] < d[n]

LEMMA SortedInsert ==
    ASSUME NEW s \in Seq(Timers), NEW t \in Seq(Timers), NEW n \in Timers,
           NEW d \in [Timers -> Nat], Sorted(s, d),
           NEW i \in 1 .. Len(s) + 1, PutAt(s, t, n, i), Fits(s, n, d, i)
    PROVE  Sorted(t, d)
<1>p. /\ Len(t) = Len(s) + 1
      /\ \A j \in 1 .. Len(s) + 1 : t[j] = IF j < i THEN s[j]
                                           ELSE IF j = i THEN n ELSE s[j - 1]
    BY DEF PutAt
<1>f. /\ i # Len(s) + 1 => d[s[i]] >= d[n]
      /\ \A j \in 1 .. i - 1 : d[s[j]] < d[n]
    BY DEF Fits
<1>0. /\ Len(s) \in Int /\ Len(s) >= 0 /\ i \in Int /\ 1 <= i /\ i <= Len(s) + 1
      /\ \A j \in 1 .. Len(s) : d[s[j]] \in Nat
      /\ d[n] \in Nat
    OBVIOUS
<1>a. /\ Len(s) \in Int /\ Len(s) >= 0 /\ i \in Int /\ 1 <= i /\ i <= Len(s) + 1
    BY <1>0
<1>s. \A j, k \in 1 .. Len(s) : j <= k => d[s[j]] <= d[s[k]]
  <2> SUFFICES ASSUME NEW j \in 1 .. Len(s), NEW k \in 1 .. Len(s), j <= k
               PROVE  d[s[j]] <= d[s[k]]
    OBVIOUS
  <2>1. CASE j = k
    BY <1>0, <2>1
  <2>2. CASE j # k
    <3>1. j < k
        BY <2>2
    <3> QED BY <3>1 DEF Sorted
  <2> QED BY <2>1, <2>2
<1>b. \A x \in 1 .. Len(s) : x >= i => d[n] <= d[s[x]]
  <2> SUFFICES ASSUME NEW x \in 1 .. Len(s), x >= i PROVE d[n] <= d[s[x]]
    OBVIOUS
  <2>1. i \in 1 .. Len(s) /\ i # Len(s) + 1
    BY <1>0
  <2>2. d[s[i]] <= d[s[x]] /\ d[n] <= d[s[i]]
    <3>1. d[s[i]] <= d[s[x]]
        BY <1>s, <2>1
    <3>2. d[s[i]] >= d[n]
        BY <1>f, <2>1
    <3>3. d[s[i]] \in Nat /\ d[n] \in Nat
        BY <1>0, <2>1
    <3> QED BY <3>1, <3>2, <3>3
  <2>3. d[n] \in Nat /\ d[s[i]] \in Nat /\ d[s[x]] \in Nat
    <3>1. \A j \in 1 .. Len(s) : d[s[j]] \in Nat
        BY <1>0
    <3>2. d[n] \in Nat
        BY <1>0
    <3>3. d[s[x]] \in Nat
        BY <3>1
    <3>4. d[s[i]] \in Nat
        BY <2>1, <3>1
    <3> QED BY <3>2, <3>3, <3>4
  <2> QED BY <2>2, <2>3
<1> SUFFICES ASSUME NEW j \in 1 .. Len(t), NEW k \in 1 .. Len(t), j < k
             PROVE  d[t[j]] <= d[t[k]]
    BY DEF Sorted
<1>1. /\ j \in Int /\ k \in Int /\ 1 <= j /\ k <= Len(s) + 1 /\ j < k
      /\ j \in 1 .. Len(s) + 1 /\ k \in 1 .. Len(s) + 1
    BY <1>a, <1>p
<1>2. CASE k < i
  <2>1. j \in 1 .. Len(s) /\ k \in 1 .. Len(s) /\ j < i /\ j <= k
    BY <1>a, <1>1, <1>2
  <2>2. t[j] = s[j] /\ t[k] = s[k]
    BY <1>p, <1>1, <1>2, <2>1
  <2> QED BY <1>s, <2>1, <2>2
<1>3. CASE k = i
  <2>1. j \in 1 .. i - 1 /\ j < i /\ j \in 1 .. Len(s)
    BY <1>a, <1>1, <1>3
  <2>2. t[j] = s[j]
    BY <1>p, <1>1, <2>1
  <2>3. t[k] = n
    BY <1>p, <1>1, <1>3
  <2>4. d[s[j]] < d[n]
    BY <1>f, <2>1
  <2>5. d[s[j]] \in Nat
    BY <1>0, <2>1
  <2> QED BY <1>0, <2>2, <2>3, <2>4, <2>5
<1>4. CASE k > i
  <2>1. ~(k < i) /\ k # i /\ k - 1 \in 1 .. Len(s) /\ k - 1 >= i
    BY <1>a, <1>1, <1>4
  <2>2. t[k] = s[k - 1]
    BY <1>p, <1>1, <2>1
  <2>3. CASE j < i
    <3>1. j \in 1 .. Len(s) /\ j <= k - 1
        BY <1>a, <1>1, <1>4, <2>3
    <3>2. t[j] = s[j]
        BY <1>p, <1>1, <2>3
    <3> QED BY <1>s, <2>1, <2>2, <3>1, <3>2
  <2>4. CASE j = i
    <3>1. t[j] = n
        BY <1>p, <1>1, <2>4
    <3> QED BY <1>b, <2>1, <2>2, <3>1
  <2>5. CASE j > i
    <3>1. j - 1 \in 1 .. Len(s) /\ j - 1 <= k - 1 /\ ~(j < i) /\ j # i
        BY <1>a, <1>1, <2>5
    <3>2. t[j] = s[j - 1]
        BY <1>p, <1>1, <3>1
    <3> QED BY <1>s, <2>1, <2>2, <3>1, <3>2
  <2> QED BY <1>a, <1>1, <2>3, <2>4, <2>5
<1> QED BY <1>a, <1>1, <1>2, <1>3, <1>4

\* A node that is put before the i-th, where it fits.
LEMMA InsertInside ==
    ASSUME NEW m \in MemType, NEW l \in Lists, NEW s, Linked(m, l, s),
           NEW n \in Timers, n \notin ToSet(s), NEW d \in [Timers -> Nat],
           Sorted(s, d), NEW i \in 1 .. Len(s), Fits(s, n, d, i)
    PROVE  Inserts(m, l, s, n, d, InsertBefore(m, l, s[i], n), InsertAt(s, i, n))
<1>1. s \in Seq(Timers)
    BY DEF Linked
<1>2. /\ Len(s) \in Nat /\ Len(s) \in Int
      /\ \A j \in 1 .. Len(s) : s[j] \in Timers /\ s[j] # Null
    BY <1>1, TimerAssumption
<1>3. i \in 1 .. Len(s) + 1
    BY <1>2
<1>4. /\ Linked(InsertBefore(m, l, s[i], n), l, InsertAt(s, i, n))
      /\ LeavesOthers(m, InsertBefore(m, l, s[i], n), l, ToSet(s) \cup {n})
      /\ InsertBefore(m, l, s[i], n).prev[n] = IF i = 1 THEN Null ELSE s[i - 1]
  <2>1. PutsBefore(m, l, s, i, n)
    BY InsertBeforeFacts, Zenon
  <2> QED BY <2>1 DEF PutsBefore
<1>5. InsertAt(s, i, n) \in Seq(Timers) /\ ToSet(InsertAt(s, i, n)) = ToSet(s) \cup {n}
    BY <1>1, <1>3, InsertAtFacts
<1>6. PutAt(s, InsertAt(s, i, n), n, i)
    BY <1>1, <1>3, InsertAtPut, Zenon
<1>7. \A j \in 1 .. Len(s) + 1 :
         InsertAt(s, i, n)[j] = IF j < i THEN s[j] ELSE IF j = i THEN n ELSE s[j - 1]
    BY <1>6 DEF PutAt
<1>8. Sorted(InsertAt(s, i, n), d)
    BY <1>1, <1>3, <1>5, <1>6, SortedInsert
<1>9. /\ i = 1 => InsertAt(s, i, n)[1] = n
      /\ i # 1 => InsertAt(s, i, n)[1] = s[1] /\ s[i - 1] # Null /\ Len(s) # 0
    <2>1. 1 \in 1 .. Len(s) + 1 /\ (i # 1 => 1 < i /\ i - 1 \in 1 .. Len(s) /\ Len(s) # 0)
        BY <1>2
    <2>2. InsertAt(s, i, n)[1] = IF 1 < i THEN s[1] ELSE IF 1 = i THEN n ELSE s[1 - 1]
        BY <1>7, <2>1
    <2>3. CASE i = 1
        BY <2>2, <2>3
    <2>4. CASE i # 1
        BY <1>2, <2>1, <2>2, <2>4
    <2> QED BY <2>3, <2>4
<1> QED BY <1>4, <1>5, <1>8, <1>9 DEF Inserts

LEMMA InsertFacts ==
    ASSUME NEW m \in MemType, NEW l \in Lists, NEW s, Linked(m, l, s),
           NEW n \in Timers, n \notin ToSet(s), NEW d \in [Timers -> Nat],
           Sorted(s, d)
    PROVE  \E t : Inserts(m, l, s, n, d, Insert(m, l, n, d), t)
<1>1. PICK at \in 0 .. Len(s) :
              /\ Insert(m, l, n, d) = IF at = Len(s) THEN AddToTail(m, l, n)
                                      ELSE InsertBefore(m, l, s[at + 1], n)
              /\ at # Len(s) => d[s[at + 1]] >= d[n]
              /\ \A j \in 1 .. at : d[s[j]] < d[n]
    BY PlaceFacts
<1>2. /\ s \in Seq(Timers) /\ Len(s) \in Nat /\ Len(s) \in Int
      /\ \A j \in 1 .. Len(s) : s[j] \in Timers /\ s[j] # Null
    BY TimerAssumption DEF Linked
<1>3. at \in Int /\ 0 <= at /\ at <= Len(s)
    BY <1>2
<1> DEFINE r == Insert(m, l, n, d)
<1>4. CASE at = Len(s)
  <2> DEFINE t == Append(s, n)
  <2>1. r = AddToTail(m, l, n)
    BY <1>1, <1>4
  <2>2. /\ Linked(r, l, t) /\ LeavesOthers(m, r, l, ToSet(s) \cup {n})
        /\ r.prev[n] = IF Len(s) = 0 THEN Null ELSE s[Len(s)]
    <3>1. PutsLast(m, l, s, n)
        BY AddToTailFacts, Zenon
    <3> QED BY <2>1, <3>1 DEF PutsLast
  <2>3. t \in Seq(Timers) /\ ToSet(t) = ToSet(s) \cup {n}
    BY <1>2, AppendFacts
  <2>4. /\ Len(t) = Len(s) + 1 /\ t[Len(s) + 1] = n
        /\ \A j \in 1 .. Len(s) : t[j] = s[j]
    BY <1>2
  <2> HIDE DEF t
  <2>5. Len(s) + 1 \in 1 .. Len(s) + 1 /\ Len(s) + 1 - 1 = Len(s)
    BY <1>2
  <2>6. \A j \in 1 .. Len(s) + 1 : t[j] = IF j < Len(s) + 1 THEN s[j]
                                          ELSE IF j = Len(s) + 1 THEN n ELSE s[j - 1]
    BY <1>2, <2>4
  <2>7. Sorted(t, d)
    <3>1. PICK i \in 1 .. Len(s) + 1 : i = Len(s) + 1
        BY <2>5
    <3>2. PutAt(s, t, n, i)
        BY <2>4, <2>6, <3>1 DEF PutAt
    <3>3. Fits(s, n, d, i)
        BY <1>1, <1>4, <2>5, <3>1 DEF Fits
    <3>4. s \in Seq(Timers) /\ t \in Seq(Timers)
        BY <1>2, <2>3
    <3> QED BY <3>1, <3>2, <3>3, <3>4, SortedInsert
  <2>8. CASE Len(s) = 0
    <3>1. t[1] = n /\ r.prev[n] = Null
        BY <2>2, <2>4, <2>8
    <3> QED BY <2>2, <2>3, <2>7, <3>1 DEF Inserts
  <2>9. CASE Len(s) # 0
    <3>1. 1 \in 1 .. Len(s) /\ Len(s) \in 1 .. Len(s)
        BY <1>2, <2>9
    <3>2. t[1] = s[1] /\ r.prev[n] # Null
        BY <1>2, <2>2, <2>4, <2>9, <3>1
    <3> QED BY <2>2, <2>3, <2>7, <2>9, <3>2 DEF Inserts
  <2> QED BY <2>8, <2>9
<1>5. CASE at # Len(s)
  <2>1. PICK i \in 1 .. Len(s) : i = at + 1
    BY <1>2, <1>3, <1>5
  <2>2. at = i - 1 /\ i # Len(s) + 1
    BY <1>3, <2>1
  <2>3. r = InsertBefore(m, l, s[i], n)
    BY <1>1, <1>5, <2>1
  <2>4. Fits(s, n, d, i)
    BY <1>1, <1>5, <2>1, <2>2 DEF Fits
  <2>5. Inserts(m, l, s, n, d, InsertBefore(m, l, s[i], n), InsertAt(s, i, n))
    BY <2>4, InsertInside
  <2> QED BY <2>3, <2>5
<1> QED BY <1>4, <1>5

\* The pointers of m link the timers of Q in callback_timq, sorted by due, and
\* those of D in callback_timq_done.
Holds(m, d, Q, D) ==
    /\ m \in MemType /\ d \in [Timers -> Nat]
    /\ Q \cap D = {}
    /\ \E q, p : /\ Linked(m, "timq", q) /\ Sorted(q, d) /\ ToSet(q) = Q
                 /\ Linked(m, "done", p) /\ ToSet(p) = D

LEMMA HoldsLists ==
    ASSUME NEW m, NEW d, NEW Q, NEW D, Holds(m, d, Q, D)
    PROVE  InList(m, "timq") = Q /\ InList(m, "done") = D
<1>1. PICK q, p : /\ Linked(m, "timq", q) /\ ToSet(q) = Q
                  /\ Linked(m, "done", p) /\ ToSet(p) = D
    BY DEF Holds
<1> QED BY <1>1, InListIsSet

LEMMA HoldsHeads ==
    ASSUME NEW m, NEW d, NEW Q, NEW D, Holds(m, d, Q, D)
    PROVE  /\ Q \subseteq Timers /\ D \subseteq Timers
           /\ m.head["timq"] \in Q \/ (m.head["timq"] = Null /\ Q = {})
           /\ m.head["done"] \in D \/ (m.head["done"] = Null /\ D = {})
           /\ \A n \in Q : d[m.head["timq"]] <= d[n]
<1>1. PICK q, p : /\ Linked(m, "timq", q) /\ Sorted(q, d) /\ ToSet(q) = Q
                  /\ Linked(m, "done", p) /\ ToSet(p) = D
    BY DEF Holds
<1>2. /\ q \in Seq(Timers) /\ p \in Seq(Timers) /\ Len(q) \in Nat /\ Len(p) \in Nat
      /\ DOMAIN q = 1 .. Len(q) /\ DOMAIN p = 1 .. Len(p)
    BY <1>1 DEF Linked
<1>3. /\ Q \subseteq Timers /\ D \subseteq Timers
      /\ \A i \in 1 .. Len(q) : q[i] \in Q
      /\ \A i \in 1 .. Len(p) : p[i] \in D
      /\ \A n \in Q : \E i \in 1 .. Len(q) : q[i] = n
      /\ \A n \in D : \E i \in 1 .. Len(p) : p[i] = n
    BY <1>1, <1>2 DEF ToSet
<1>4. /\ m.head["timq"] = IF Len(q) = 0 THEN Null ELSE q[1]
      /\ m.head["done"] = IF Len(p) = 0 THEN Null ELSE p[1]
    BY <1>1 DEF Linked
<1>a. (Len(q) # 0 => 1 \in 1 .. Len(q)) /\ (Len(p) # 0 => 1 \in 1 .. Len(p))
    BY <1>2
<1>b. (Len(q) = 0 => 1 .. Len(q) = {}) /\ (Len(p) = 0 => 1 .. Len(p) = {})
    BY <1>2
<1>5. m.head["timq"] \in Q \/ (m.head["timq"] = Null /\ Q = {})
  <2>1. CASE Len(q) = 0
    BY <1>3, <1>4, <1>b, <2>1, Zenon
  <2>2. CASE Len(q) # 0
    <3>1. \A i \in 1 .. Len(q) : q[i] \in Q
        BY <1>3
    <3>2. q[1] \in Q
        BY <1>a, <2>2, <3>1
    <3>3. m.head["timq"] = q[1]
        BY <1>4, <2>2
    <3> QED BY <3>2, <3>3
  <2> QED BY <2>1, <2>2
<1>6. m.head["done"] \in D \/ (m.head["done"] = Null /\ D = {})
  <2>1. CASE Len(p) = 0
    BY <1>3, <1>4, <1>b, <2>1, Zenon
  <2>2. CASE Len(p) # 0
    <3>1. \A i \in 1 .. Len(p) : p[i] \in D
        BY <1>3
    <3>2. p[1] \in D
        BY <1>a, <2>2, <3>1
    <3>3. m.head["done"] = p[1]
        BY <1>4, <2>2
    <3> QED BY <3>2, <3>3
  <2> QED BY <2>1, <2>2
<1>7. ASSUME NEW n \in Q
      PROVE  d[m.head["timq"]] <= d[n]
  <2>1. PICK i \in 1 .. Len(q) : q[i] = n
    BY <1>3
  <2>2. Len(q) # 0 /\ 1 \in 1 .. Len(q) /\ (i = 1 \/ 1 < i)
    BY <1>2
  <2>3. d[n] \in Nat
    BY <1>3 DEF Holds
  <2>4. m.head["timq"] = q[1]
    BY <1>4, <2>2
  <2>5. CASE i = 1
    BY <2>1, <2>3, <2>4, <2>5
  <2>6. CASE 1 < i
    BY <1>1, <2>1, <2>2, <2>4, <2>6 DEF Sorted
  <2> QED BY <2>2, <2>5, <2>6
<1> QED BY <1>3, <1>5, <1>6, <1>7

LEMMA HoldsDue ==
    ASSUME NEW m, NEW d, NEW Q, NEW D, Holds(m, d, Q, D),
           NEW e \in [Timers -> Nat], \A n \in Q : e[n] = d[n]
    PROVE  Holds(m, e, Q, D)
<1>1. PICK q, p : /\ Linked(m, "timq", q) /\ Sorted(q, d) /\ ToSet(q) = Q
                  /\ Linked(m, "done", p) /\ ToSet(p) = D
    BY DEF Holds
<1>2. DOMAIN q = 1 .. Len(q)
    BY <1>1 DEF Linked
<1>3. \A i \in 1 .. Len(q) : e[q[i]] = d[q[i]]
    BY <1>1, <1>2 DEF ToSet
<1>4. Sorted(q, e)
    BY <1>1, <1>3 DEF Sorted
<1> QED BY <1>1, <1>4 DEF Holds

\* vsf_callback_timq_insert
LEMMA HoldsInsert ==
    ASSUME NEW m, NEW d, NEW Q, NEW D, Holds(m, d, Q, D),
           NEW n \in Timers, n \notin Q, n \notin D
    PROVE  /\ Holds(Insert(m, "timq", n, d), d, Q \cup {n}, D)
           /\ Insert(m, "timq", n, d).prev[n] = Null =>
                 Insert(m, "timq", n, d).head["timq"] = n
           /\ Insert(m, "timq", n, d).prev[n] # Null =>
                 Insert(m, "timq", n, d).head["timq"] = m.head["timq"]
<1>1. PICK q, p : /\ Linked(m, "timq", q) /\ Sorted(q, d) /\ ToSet(q) = Q
                  /\ Linked(m, "done", p) /\ ToSet(p) = D
    BY DEF Holds
<1>2. m \in MemType /\ d \in [Timers -> Nat] /\ Q \cap D = {}
    BY DEF Holds
<1>3. PICK r : r = Insert(m, "timq", n, d)
    OBVIOUS
<1>4. PICK t : Inserts(m, "timq", q, n, d, r, t)
  <2>1. "timq" \in Lists /\ n \notin ToSet(q)
    BY <1>1 DEF Lists
  <2> QED BY <1>1, <1>2, <1>3, <2>1, InsertFacts
<1>5. /\ Linked(r, "timq", t) /\ ToSet(t) = Q \cup {n}
      /\ LeavesOthers(m, r, "timq", Q \cup {n})
      /\ Sorted(t, d)
      /\ r.prev[n] = Null => t[1] = n
      /\ r.prev[n] # Null => Len(q) # 0 /\ t[1] = q[1]
    BY <1>1, <1>4 DEF Inserts
<1>6. Linked(r, "done", p)
  <2>1. "done" \in Lists \ {"timq"}
    BY DEF Lists
  <2>2. ToSet(p) \cap (Q \cup {n}) = {}
    BY <1>1, <1>2
  <2> QED BY <1>1, <1>5, <2>1, <2>2, OtherListKept
<1>7. r \in MemType
    BY <1>5 DEF LeavesOthers
<1>8. Holds(r, d, Q \cup {n}, D)
    BY <1>1, <1>2, <1>5, <1>6, <1>7 DEF Holds
<1>9. Len(t) # 0
  <2>1. t \in Seq(Timers) /\ n \in ToSet(t)
    BY <1>5 DEF Linked
  <2> QED BY <2>1 DEF ToSet
<1>10. r.head["timq"] = t[1] /\ (Len(q) # 0 => m.head["timq"] = q[1])
    BY <1>1, <1>5, <1>9 DEF Linked
<1> QED BY <1>3, <1>5, <1>8, <1>10

\* vsf_callback_timer_remove of a timer that is in callback_timq
LEMMA HoldsRemove ==
    ASSUME NEW m, NEW d, NEW Q, NEW D, Holds(m, d, Q, D), NEW n \in Q
    PROVE  /\ Holds(RemoveNode(m, "timq", n), d, Q \ {n}, D)
           /\ m.head["timq"] # n =>
                 RemoveNode(m, "timq", n).head["timq"] = m.head["timq"]
<1>1. PICK q, p : /\ Linked(m, "timq", q) /\ Sorted(q, d) /\ ToSet(q) = Q
                  /\ Linked(m, "done", p) /\ ToSet(p) = D
    BY DEF Holds
<1>2. m \in MemType /\ d \in [Timers -> Nat] /\ Q \cap D = {}
    BY DEF Holds
<1>3. /\ q \in Seq(Timers) /\ Len(q) \in Nat /\ DOMAIN q = 1 .. Len(q) /\ NoTwice(q)
    BY <1>1 DEF Linked
<1>4. PICK i \in 1 .. Len(q) : q[i] = n
    BY <1>1, <1>3 DEF ToSet
<1>5. PICK r : r = RemoveNode(m, "timq", n)
    OBVIOUS
<1>6. Linked(r, "timq", RemoveAt(q, i)) /\ LeavesOthers(m, r, "timq", Q)
  <2>1. "timq" \in Lists
    BY DEF Lists
  <2>2. /\ Linked(RemoveNode(m, "timq", q[i]), "timq", RemoveAt(q, i))
        /\ LeavesOthers(m, RemoveNode(m, "timq", q[i]), "timq", ToSet(q))
    BY <1>1, <1>2, <2>1, RemoveNodeFacts
  <2> QED BY <1>1, <1>4, <1>5, <2>2
<1>7. /\ RemoveAt(q, i) \in Seq(Timers) /\ ToSet(RemoveAt(q, i)) = Q \ {n}
      /\ Len(RemoveAt(q, i)) = Len(q) - 1
      /\ \A j \in 1 .. Len(q) - 1 : RemoveAt(q, i)[j] = IF j < i THEN q[j] ELSE q[j + 1]
  <2>1. i \in DOMAIN q
    BY <1>3
  <2>2. ToSet(RemoveAt(q, i)) = ToSet(q) \ {q[i]}
    BY <1>3, <2>1, RemoveAtFacts
  <2>3. /\ RemoveAt(q, i) \in Seq(Timers)
        /\ Len(RemoveAt(q, i)) = Len(q) - 1
        /\ \A j \in 1 .. Len(q) - 1 : RemoveAt(q, i)[j] = IF j < i THEN q[j] ELSE q[j + 1]
    BY <1>3, <2>1, RemoveAtPlaces
  <2> QED BY <1>1, <1>4, <2>2, <2>3
<1>8. PICK t : t = RemoveAt(q, i)
    OBVIOUS
<1>9. Linked(r, "done", p)
  <2>1. "done" \in Lists \ {"timq"}
    BY DEF Lists
  <2>2. ToSet(p) \cap Q = {}
    BY <1>1, <1>2
  <2> QED BY <1>1, <1>6, <2>1, <2>2, OtherListKept
<1>10. Sorted(t, d)
  <2>1. SUFFICES ASSUME NEW j \in 1 .. Len(t), NEW k \in 1 .. Len(t), j < k
                 PROVE  d[t[j]] <= d[t[k]]
    BY DEF Sorted
  <2>2. PICK u \in 1 .. Len(q) : t[j] = q[u] /\ u = IF j < i THEN j ELSE j + 1
    BY <1>3, <1>7, <1>8
  <2>3. PICK v \in 1 .. Len(q) : t[k] = q[v] /\ v = IF k < i THEN k ELSE k + 1
    BY <1>3, <1>7, <1>8
  <2>4. u < v
    BY <1>3, <2>1, <2>2, <2>3
  <2> QED BY <1>1, <2>2, <2>3, <2>4 DEF Sorted
<1>11. r \in MemType
    BY <1>6 DEF LeavesOthers
<1>12. Holds(r, d, Q \ {n}, D)
    BY <1>1, <1>2, <1>6, <1>7, <1>8, <1>9, <1>10, <1>11 DEF Holds
<1>13. ASSUME m.head["timq"] # n
       PROVE  r.head["timq"] = m.head["timq"]
  <2>0. Len(q) # 0
    BY <1>3
  <2>1. m.head["timq"] = q[1]
    BY <1>1, <2>0 DEF Linked
  <2>2. i # 1 /\ 1 < i /\ Len(q) - 1 # 0 /\ 1 \in 1 .. Len(q) - 1
    BY <1>3, <1>4, <1>13, <2>1
  <2>3. t[1] = q[1] /\ Len(t) # 0
    BY <1>7, <1>8, <2>2
  <2>4. r.head["timq"] = t[1]
    BY <1>6, <1>8, <2>3 DEF Linked
  <2> QED BY <2>1, <2>3, <2>4
<1> QED BY <1>5, <1>12, <1>13

\* The first timer of callback_timq is taken.
LEMMA HoldsExpire ==
    ASSUME NEW m, NEW d, NEW Q, NEW D, Holds(m, d, Q, D), m.head["timq"] # Null
    PROVE  Holds(RemoveHead(m, "timq"), d, Q \ {m.head["timq"]}, D)
<1>1. PICK q, p : /\ Linked(m, "timq", q) /\ Sorted(q, d) /\ ToSet(q) = Q
                  /\ Linked(m, "done", p) /\ ToSet(p) = D
    BY DEF Holds
<1>2. m \in MemType /\ d \in [Timers -> Nat] /\ Q \cap D = {}
    BY DEF Holds
<1>3. /\ q \in Seq(Timers) /\ Len(q) \in Nat /\ DOMAIN q = 1 .. Len(q) /\ NoTwice(q)
    BY <1>1 DEF Linked
<1>4. Len(q) # 0 /\ m.head["timq"] = q[1]
    BY <1>1 DEF Linked
<1>5. PICK r : r = RemoveHead(m, "timq")
    OBVIOUS
<1>6. Linked(r, "timq", Tail(q)) /\ LeavesOthers(m, r, "timq", Q)
  <2>1. "timq" \in Lists
    BY DEF Lists
  <2> QED BY <1>1, <1>2, <1>4, <1>5, <2>1, RemoveHeadFacts
<1>7. /\ Len(Tail(q)) = Len(q) - 1
      /\ \A j \in 1 .. Len(q) - 1 : Tail(q)[j] = q[j + 1]
      /\ q # <<>> /\ Head(q) = q[1]
    BY <1>3, <1>4
<1>8. ToSet(Tail(q)) = Q \ {m.head["timq"]}
  <2>1. ToSet(Tail(q)) = ToSet(q) \ {Head(q)}
    BY <1>3, <1>7, TailFacts
  <2> QED BY <1>1, <1>4, <1>7, <2>1
<1>9. PICK t : t = Tail(q)
    OBVIOUS
<1>10. Linked(r, "done", p)
  <2>1. "done" \in Lists \ {"timq"}
    BY DEF Lists
  <2>2. ToSet(p) \cap Q = {}
    BY <1>1, <1>2
  <2> QED BY <1>1, <1>6, <2>1, <2>2, OtherListKept
<1>11. Sorted(t, d)
  <2>1. SUFFICES ASSUME NEW j \in 1 .. Len(t), NEW k \in 1 .. Len(t), j < k
                 PROVE  d[t[j]] <= d[t[k]]
    BY DEF Sorted
  <2>2. /\ t[j] = q[j + 1] /\ t[k] = q[k + 1] /\ j + 1 < k + 1
        /\ j + 1 \in 1 .. Len(q) /\ k + 1 \in 1 .. Len(q)
    BY <1>3, <1>7, <1>9, <2>1
  <2> QED BY <1>1, <2>2 DEF Sorted
<1>12. r \in MemType
    BY <1>6 DEF LeavesOthers
<1> QED BY <1>1, <1>2, <1>5, <1>6, <1>8, <1>9, <1>10, <1>11, <1>12 DEF Holds

\* The first timer of callback_timq_done is taken.
LEMMA HoldsCall ==
    ASSUME NEW m, NEW d, NEW Q, NEW D, Holds(m, d, Q, D), m.head["done"] # Null
    PROVE  /\ Holds(RemoveHead(m, "done"), d, Q, D \ {m.head["done"]})
           /\ RemoveHead(m, "done").head["timq"] = m.head["timq"]
<1>1. PICK q, p : /\ Linked(m, "timq", q) /\ Sorted(q, d) /\ ToSet(q) = Q
                  /\ Linked(m, "done", p) /\ ToSet(p) = D
    BY DEF Holds
<1>2. m \in MemType /\ d \in [Timers -> Nat] /\ Q \cap D = {}
    BY DEF Holds
<1>3. /\ p \in Seq(Timers) /\ Len(p) \in Nat /\ DOMAIN p = 1 .. Len(p) /\ NoTwice(p)
    BY <1>1 DEF Linked
<1>4. Len(p) # 0 /\ m.head["done"] = p[1]
    BY <1>1 DEF Linked
<1>5. PICK r : r = RemoveHead(m, "done")
    OBVIOUS
<1>6. Linked(r, "done", Tail(p)) /\ LeavesOthers(m, r, "done", D)
  <2>1. "done" \in Lists
    BY DEF Lists
  <2> QED BY <1>1, <1>2, <1>4, <1>5, <2>1, RemoveHeadFacts
<1>7. p # <<>> /\ Head(p) = p[1]
    BY <1>3, <1>4
<1>8. ToSet(Tail(p)) = D \ {m.head["done"]}
  <2>1. ToSet(Tail(p)) = ToSet(p) \ {Head(p)}
    BY <1>3, <1>7, TailFacts
  <2> QED BY <1>1, <1>4, <1>7, <2>1
<1>9. Linked(r, "timq", q)
  <2>1. "timq" \in Lists \ {"done"}
    BY DEF Lists
  <2>2. ToSet(q) \cap D = {}
    BY <1>1, <1>2
  <2> QED BY <1>1, <1>6, <2>1, <2>2, OtherListKept
<1>10. r \in MemType /\ r.head["timq"] = m.head["timq"]
    BY <1>6 DEF LeavesOthers, Lists
<1>11. Q \cap (D \ {m.head["done"]}) = {}
    BY <1>2
<1>12. Holds(r, d, Q, D \ {m.head["done"]})
    BY <1>1, <1>2, <1>6, <1>8, <1>9, <1>10, <1>11 DEF Holds
<1> QED BY <1>5, <1>10, <1>12

\* A timer is put at the end of callback_timq_done.
LEMMA HoldsMove ==
    ASSUME NEW m, NEW d, NEW Q, NEW D, Holds(m, d, Q, D),
           NEW n \in Timers, n \notin Q, n \notin D
    PROVE  /\ Holds(AddToTail(m, "done", n), d, Q, D \cup {n})
           /\ AddToTail(m, "done", n).head["timq"] = m.head["timq"]
<1>1. PICK q, p : /\ Linked(m, "timq", q) /\ Sorted(q, d) /\ ToSet(q) = Q
                  /\ Linked(m, "done", p) /\ ToSet(p) = D
    BY DEF Holds
<1>2. m \in MemType /\ d \in [Timers -> Nat] /\ Q \cap D = {}
    BY DEF Holds
<1>3. p \in Seq(Timers) /\ n \notin ToSet(p)
    BY <1>1 DEF Linked
<1>4. PICK r : r = AddToTail(m, "done", n)
    OBVIOUS
<1>5. Linked(r, "done", Append(p, n)) /\ LeavesOthers(m, r, "done", D \cup {n})
  <2>1. "done" \in Lists
    BY DEF Lists
  <2>2. /\ Linked(AddToTail(m, "done", n), "done", Append(p, n))
        /\ LeavesOthers(m, AddToTail(m, "done", n), "done", ToSet(p) \cup {n})
    BY <1>1, <1>2, <1>3, <2>1, AddToTailFacts DEF PutsLast
  <2> QED BY <1>1, <1>4, <2>2
<1>6. ToSet(Append(p, n)) = D \cup {n}
    BY <1>1, <1>3, AppendFacts
<1>7. Linked(r, "timq", q)
  <2>1. "timq" \in Lists \ {"done"}
    BY DEF Lists
  <2>2. ToSet(q) \cap (D \cup {n}) = {}
    BY <1>1, <1>2
  <2> QED BY <1>1, <1>5, <2>1, <2>2, OtherListKept
<1>8. r \in MemType /\ r.head["timq"] = m.head["timq"]
    BY <1>5 DEF LeavesOthers, Lists
<1>9. Q \cap (D \cup {n}) = {}
    BY <1>2
<1>10. Holds(r, d, Q, D \cup {n})
    BY <1>1, <1>2, <1>5, <1>6, <1>7, <1>8, <1>9 DEF Holds
<1> QED BY <1>4, <1>8, <1>10

\* What ListsAreSound says of one list, and that callback_timq is sorted.
SoundList(m, l) ==
    /\ Walk(m, l)[Cardinality(Timers)] = Null
    /\ (m.head[l] = Null) = (m.tail[l] = Null)
    /\ \A n \in InList(m, l) :
          /\ m.prev[n] = Null <=> m.head[l] = n
          /\ m.next[n] = Null <=> m.tail[l] = n
          /\ m.next[n] # Null => m.prev[m.next[n]] = n
InOrder(m, d) == \A n \in InList(m, "timq") :
                    m.next[n] # Null => d[n] <= d[m.next[n]]

LEMMA LinkedIsSound ==
    ASSUME NEW m, NEW l, NEW s, Linked(m, l, s)
    PROVE  SoundList(m, l)
<1>1. InList(m, l) = ToSet(s) /\ Walk(m, l)[Cardinality(Timers)] = Null
    BY InListIsSet DEF NumTimers
<1>2. /\ s \in Seq(Timers) /\ Len(s) \in Nat /\ Len(s) \in Int
      /\ DOMAIN s = 1 .. Len(s)
      /\ \A i, j \in 1 .. Len(s) : s[i] = s[j] => i = j
      /\ \A i \in 1 .. Len(s) : s[i] \in Timers /\ s[i] # Null
    BY TimerAssumption DEF Linked, NoTwice
<1>i. Len(s) \in Nat
    BY <1>2
<1>3. /\ m.head[l] = IF Len(s) = 0 THEN Null ELSE s[1]
      /\ m.tail[l] = IF Len(s) = 0 THEN Null ELSE s[Len(s)]
      /\ \A i \in 1 .. Len(s) :
            /\ m.next[s[i]] = IF i = Len(s) THEN Null ELSE s[i + 1]
            /\ m.prev[s[i]] = IF i = 1 THEN Null ELSE s[i - 1]
    BY DEF Linked
<1>4. Len(s) # 0 => 1 \in 1 .. Len(s) /\ Len(s) \in 1 .. Len(s)
    BY <1>2
<1>5. (m.head[l] = Null) = (m.tail[l] = Null)
  <2>1. CASE Len(s) = 0
    BY <1>3, <2>1
  <2>2. CASE Len(s) # 0
    BY <1>2, <1>3, <1>4, <2>2
  <2> QED BY <2>1, <2>2
<1>6. ASSUME NEW n \in ToSet(s)
      PROVE  /\ m.prev[n] = Null <=> m.head[l] = n
             /\ m.next[n] = Null <=> m.tail[l] = n
             /\ m.next[n] # Null => m.prev[m.next[n]] = n
  <2>1. PICK i \in 1 .. Len(s) : s[i] = n
    BY <1>2 DEF ToSet
  <2>0. Len(s) # 0
    BY <1>i
  <2>2. Len(s) # 0 /\ m.head[l] = s[1] /\ m.tail[l] = s[Len(s)]
    BY <1>3, <2>0
  <2>3. m.prev[n] = Null <=> m.head[l] = n
    <3>1. CASE i = 1
        BY <1>3, <2>1, <2>2, <3>1
    <3>2. CASE i # 1
      <4>1. i - 1 \in 1 .. Len(s)
        BY <1>2, <3>2
      <4>2. m.prev[n] = s[i - 1] /\ s[i - 1] # Null
        BY <1>2, <1>3, <2>1, <3>2, <4>1
      <4>3. s[1] # n
        BY <1>2, <1>4, <2>1, <2>2, <3>2
      <4> QED BY <2>2, <4>2, <4>3
    <3> QED BY <3>1, <3>2
  <2>4. CASE i = Len(s)
    BY <1>3, <2>1, <2>2, <2>3, <2>4
  <2>5. CASE i # Len(s)
    <3>1. i + 1 \in 1 .. Len(s) /\ i + 1 # 1 /\ i + 1 - 1 = i
        BY <1>i, <2>5
    <3>2. m.next[n] = s[i + 1] /\ s[i + 1] # Null
        BY <1>2, <1>3, <2>1, <2>5, <3>1
    <3>3. m.prev[s[i + 1]] = s[i]
        BY <1>3, <3>1
    <3>4. s[Len(s)] # n
        BY <1>2, <1>4, <2>1, <2>2, <2>5
    <3> QED BY <2>1, <2>2, <2>3, <3>2, <3>3, <3>4
  <2> QED BY <2>4, <2>5
<1> QED BY <1>1, <1>5, <1>6 DEF SoundList

LEMMA HoldsSound ==
    ASSUME NEW m, NEW d, NEW Q, NEW D, Holds(m, d, Q, D)
    PROVE  SoundList(m, "timq") /\ SoundList(m, "done") /\ InOrder(m, d)
<1>1. PICK q, p : /\ Linked(m, "timq", q) /\ Sorted(q, d) /\ ToSet(q) = Q
                  /\ Linked(m, "done", p) /\ ToSet(p) = D
    BY DEF Holds
<1>2. SoundList(m, "timq") /\ SoundList(m, "done")
    BY <1>1, LinkedIsSound
<1>3. ASSUME NEW n \in InList(m, "timq"), m.next[n] # Null
      PROVE  d[n] <= d[m.next[n]]
  <2>1. /\ q \in Seq(Timers) /\ Len(q) \in Nat /\ DOMAIN q = 1 .. Len(q)
        /\ \A i \in 1 .. Len(q) :
              m.next[q[i]] = IF i = Len(q) THEN Null ELSE q[i + 1]
    BY <1>1 DEF Linked
  <2>2. InList(m, "timq") = ToSet(q)
    BY <1>1, InListIsSet
  <2>3. PICK i \in 1 .. Len(q) : q[i] = n
    BY <1>3, <2>1, <2>2 DEF ToSet
  <2>4. i # Len(q) /\ m.next[n] = q[i + 1]
    BY <1>3, <2>1, <2>3
  <2>a. Len(q) \in Nat /\ i # Len(q)
    BY <2>1, <2>4
  <2>5. i + 1 \in 1 .. Len(q) /\ i < i + 1
    BY <2>a
  <2> QED BY <1>1, <2>3, <2>4, <2>5 DEF Sorted
<1> QED BY <1>2, <1>3 DEF InOrder

\* The timers that the events ADD in k are for.
Msg == [evt : {"CALLBACK", "ADD"}, timer : Nodes]
Sent(k) == {k[i].timer : i \in {j \in 1 .. Len(k) : k[j].evt = "ADD"}}
SentOnce(k) == \A i, j \in 1 .. Len(k) :
    k[i].evt = "ADD" /\ k[j].evt = "ADD" /\ k[i].timer = k[j].timer => i = j

LEMMA SentAppend ==
    ASSUME NEW k \in Seq(Msg), NEW x \in Msg, SentOnce(k),
           x.evt = "ADD" => x.timer \notin Sent(k)
    PROVE  /\ Append(k, x) \in Seq(Msg) /\ SentOnce(Append(k, x))
           /\ Sent(Append(k, x)) = IF x.evt = "ADD" THEN Sent(k) \cup {x.timer}
                                   ELSE Sent(k)
<1>1. PICK r : r = Append(k, x)
    OBVIOUS
<1>2. /\ r \in Seq(Msg) /\ Len(r) = Len(k) + 1 /\ Len(k) \in Nat
      /\ r[Len(k) + 1] = x /\ \A i \in 1 .. Len(k) : r[i] = k[i]
    BY <1>1
<1>3. \A i \in 1 .. Len(k) + 1 : i \in 1 .. Len(k) \/ i = Len(k) + 1
    BY <1>2
<1>4. /\ \A i \in 1 .. Len(k) : i \in 1 .. Len(k) + 1
      /\ Len(k) + 1 \in 1 .. Len(k) + 1
    BY <1>2
<1>5. \A i \in 1 .. Len(k) : k[i].evt = "ADD" => k[i].timer \in Sent(k)
    BY DEF Sent
<1>6. SentOnce(r)
  <2> SUFFICES ASSUME NEW i \in 1 .. Len(k) + 1, NEW j \in 1 .. Len(k) + 1,
                      r[i].evt = "ADD", r[j].evt = "ADD", r[i].timer = r[j].timer
               PROVE  i = j
    BY <1>2 DEF SentOnce
  <2>1. CASE i \in 1 .. Len(k) /\ j \in 1 .. Len(k)
    BY <1>2, <2>1 DEF SentOnce
  <2>2. CASE i \in 1 .. Len(k) /\ j = Len(k) + 1
    BY <1>2, <1>5, <2>2
  <2>3. CASE i = Len(k) + 1 /\ j \in 1 .. Len(k)
    BY <1>2, <1>5, <2>3
  <2> QED BY <1>3, <2>1, <2>2, <2>3
<1>7. \A t : t \in Sent(r) <=> \/ t \in Sent(k)
                               \/ x.evt = "ADD" /\ t = x.timer
  <2> TAKE t
  <2>1. t \in Sent(r) <=> \E i \in 1 .. Len(k) + 1 : r[i].evt = "ADD" /\ r[i].timer = t
    BY <1>2 DEF Sent
  <2>2. t \in Sent(k) <=> \E i \in 1 .. Len(k) : k[i].evt = "ADD" /\ k[i].timer = t
    BY DEF Sent
  <2> QED BY <1>2, <1>3, <1>4, <2>1, <2>2
<1> QED BY <1>1, <1>2, <1>6, <1>7

LEMMA SentTail ==
    ASSUME NEW k \in Seq(Msg), k # <<>>, SentOnce(k)
    PROVE  /\ Head(k) \in Msg /\ Tail(k) \in Seq(Msg) /\ SentOnce(Tail(k))
           /\ Head(k).evt = "ADD" => /\ Head(k).timer \in Sent(k)
                                     /\ Sent(Tail(k)) = Sent(k) \ {Head(k).timer}
           /\ Head(k).evt # "ADD" => Sent(Tail(k)) = Sent(k)
<1>1. PICK r, h : r = Tail(k) /\ h = Head(k)
    OBVIOUS
<1>2. /\ r \in Seq(Msg) /\ Len(r) = Len(k) - 1 /\ Len(k) \in Nat /\ Len(k) # 0
      /\ h = k[1] /\ h \in Msg /\ \A i \in 1 .. Len(k) - 1 : r[i] = k[i + 1]
    BY <1>1
<1>3. /\ \A i \in 1 .. Len(k) - 1 : i + 1 \in 1 .. Len(k) /\ i + 1 # 1
      /\ \A i \in 1 .. Len(k) : i # 1 => i - 1 \in 1 .. Len(k) - 1 /\ i - 1 + 1 = i
      /\ \A i, j \in 1 .. Len(k) - 1 : i + 1 = j + 1 => i = j
      /\ 1 \in 1 .. Len(k)
    BY <1>2
<1>4. \A i \in 1 .. Len(k) : i # 1 => k[i] = r[i - 1]
    BY <1>2, <1>3
<1>5. SentOnce(r)
  <2> SUFFICES ASSUME NEW i \in 1 .. Len(k) - 1, NEW j \in 1 .. Len(k) - 1,
                      r[i].evt = "ADD", r[j].evt = "ADD", r[i].timer = r[j].timer
               PROVE  i = j
    BY <1>2 DEF SentOnce
  <2>1. i + 1 \in 1 .. Len(k) /\ j + 1 \in 1 .. Len(k) /\ r[i] = k[i + 1] /\ r[j] = k[j + 1]
    BY <1>2, <1>3
  <2>2. i + 1 = j + 1
    BY <2>1 DEF SentOnce
  <2> QED BY <1>3, <2>2
<1>6. \A t : t \in Sent(r) <=> \E i \in 1 .. Len(k) - 1 : r[i].evt = "ADD" /\ r[i].timer = t
    BY <1>2 DEF Sent
<1>7. \A t : t \in Sent(k) <=> \E i \in 1 .. Len(k) : k[i].evt = "ADD" /\ k[i].timer = t
    BY DEF Sent
<1>8. \A t : t \in Sent(r) => t \in Sent(k)
    BY <1>2, <1>3, <1>6, <1>7
<1>9. \A t : t \in Sent(k) => t \in Sent(r) \/ (h.evt = "ADD" /\ h.timer = t)
  <2> SUFFICES ASSUME NEW t \in Sent(k) PROVE t \in Sent(r) \/ (h.evt = "ADD" /\ h.timer = t)
    OBVIOUS
  <2>1. PICK i \in 1 .. Len(k) : k[i].evt = "ADD" /\ k[i].timer = t
    BY <1>7
  <2>2. CASE i = 1
    BY <1>2, <2>1, <2>2
  <2>3. CASE i # 1
    <3>1. i - 1 \in 1 .. Len(k) - 1 /\ r[i - 1].evt = "ADD" /\ r[i - 1].timer = t
        BY <1>3, <1>4, <2>1, <2>3
    <3> QED BY <1>6, <3>1
  <2> QED BY <2>2, <2>3
<1>10. ASSUME h.evt = "ADD"
       PROVE  h.timer \in Sent(k) /\ h.timer \notin Sent(r)
  <2>1. h.timer \in Sent(k)
    BY <1>2, <1>3, <1>7, <1>10
  <2>2. ASSUME NEW i \in 1 .. Len(k) - 1, r[i].evt = "ADD", r[i].timer = h.timer
        PROVE  FALSE
    <3>1. i + 1 \in 1 .. Len(k) /\ i + 1 # 1 /\ r[i] = k[i + 1] /\ 1 \in 1 .. Len(k)
        BY <1>2, <1>3
    <3> QED BY <1>2, <1>10, <2>2, <3>1 DEF SentOnce
  <2> QED BY <1>6, <2>1, <2>2
<1>11. h.evt = "ADD" => Sent(r) = Sent(k) \ {h.timer}
    BY <1>8, <1>9, <1>10
<1>12. h.evt # "ADD" => Sent(r) = Sent(k)
    BY <1>8, <1>9
<1> QED BY <1>1, <1>2, <1>5, <1>10, <1>11, <1>12

InTimq == InList(mem, "timq")
InDone == InList(mem, "done")
\* The timer that the kernel task holds outside both lists, unless an interrupt
\* has added it meanwhile.
AddsAgain == kpc = "idle" /\ adding["kernel"] # NotAdding
InHand == IF kpc = "move" \/ (kpc = "add" /\ due[timer] = 0) THEN {timer}
          ELSE IF AddsAgain /\ due[adding["kernel"].timer] = 0
               THEN {adding["kernel"].timer} ELSE {}

\* The timers that are wanted are those of Q, D, S and H, which share none.  The
\* timers that are added have a due that is not before the one asked for.
Places(Q, D, S, H, w, d, a, n) ==
    /\ (Q \cup D) \cap S = {} /\ H \cap (Q \cup D \cup S) = {}
    /\ w = Q \cup D \cup S \cup H
    /\ \A t \in Q \cup S : d[t] # 0 /\ a[t] <= d[t]
    /\ \A t \in D : d[t] # 0 /\ a[t] <= n

HandInv ==
    /\ now + tick <= MaxTick
    /\ kpc \in {"walk", "move", "calls", "add"} =>
          upd = NoUpd /\ adding["kernel"] = NotAdding
    /\ upd # NoUpd => /\ upd.by # "nobody" /\ upd.timer \in Timers
                      /\ due[upd.timer] = 0 \/ upd.timer = mem.head["timq"]
    /\ kpc = "move" => due[timer] # 0 /\ asked[timer] <= now
    /\ kpc = "add" => timer \in Timers /\ tick # 0
    /\ kpc = "add" /\ due[timer] = 0 => asked[timer] <= now + tick
    /\ \A c \in Callers :
          adding[c] # NotAdding => adding[c].timer \in Timers /\ adding[c].due # 0
    /\ AddsAgain /\ due[adding["kernel"].timer] = 0 =>
          asked[adding["kernel"].timer] <= adding["kernel"].due
    /\ kpc = "add" /\ due[timer] # 0 => timer \in Sent(kq)
    /\ AddsAgain /\ due[adding["kernel"].timer] # 0 =>
          adding["kernel"].timer \in Sent(kq)

HeadInv ==
    mem.head["timq"] # Null =>
        \/ kdue # NotTimed /\ kdue <= due[mem.head["timq"]]
        \/ kpc \in {"walk", "move"} \/ upd # NoUpd

KeptInv ==
    /\ CbTypeOK
    /\ Holds(mem, due, InTimq, InDone)
    /\ SentOnce(kq)
    /\ Places(InTimq, InDone, Sent(kq), InHand, wants, due, asked, now)
    /\ HandInv /\ HeadInv /\ DueIsWanted

CbInv == ~crossed => KeptInv

\* Everything that the invariant says, in terms of Q, D and S.
Facts(Q, D, S) ==
    /\ CbTypeOK
    /\ Holds(mem, due, Q, D)
    /\ Sent(kq) = S /\ SentOnce(kq)
    /\ Places(Q, D, S, InHand, wants, due, asked, now)
    /\ HandInv /\ HeadInv /\ DueIsWanted

LEMMA FactsFromInv ==
    ASSUME KeptInv
    PROVE  \E Q, D, S : Facts(Q, D, S) /\ Q = InTimq
BY DEF KeptInv, Facts

LEMMA InvFromFacts ==
    ASSUME NEW Q, NEW D, NEW S, Facts(Q, D, S)'
    PROVE  KeptInv'
<1>1. PICK m, d : m = mem' /\ d = due'
    OBVIOUS
<1>2. Holds(m, d, Q, D)
    BY <1>1 DEF Facts
<1>3. InList(m, "timq") = Q /\ InList(m, "done") = D
    BY <1>2, HoldsLists
<1>4. InTimq' = Q /\ InDone' = D
    BY <1>1, <1>3 DEF InTimq, InDone
<1> QED BY <1>4 DEF KeptInv, Facts

LEMMA TypesOfFacts ==
    ASSUME NEW Q, NEW D, NEW S, Facts(Q, D, S)
    PROVE  /\ now \in Nat /\ now <= MaxTick /\ tick \in Nat /\ MaxTick \in Nat
           /\ now + tick <= MaxTick
           /\ due \in [Timers -> Ticks] /\ due \in [Timers -> Nat]
           /\ asked \in [Timers -> Ticks] /\ asked \in [Timers -> Nat]
           /\ kq \in Seq(Msg)
           /\ Q \subseteq Timers /\ D \subseteq Timers /\ S \subseteq Timers
           /\ InHand \subseteq Timers
           /\ mem.head["timq"] \in Q \/ (mem.head["timq"] = Null /\ Q = {})
           /\ mem.head["done"] \in D \/ (mem.head["done"] = Null /\ D = {})
           /\ \A n \in Q : due[mem.head["timq"]] <= due[n]
           /\ Null \notin Timers
<1>1. CbTypeOK /\ now + tick <= MaxTick
    BY DEF Facts, HandInv, AddsAgain
<1>2. now \in Nat /\ now <= MaxTick /\ tick \in Nat /\ MaxTick \in Nat
    BY <1>1, BoundAssumption DEF CbTypeOK, Ticks
<1>3. Ticks \subseteq Nat
    BY <1>2 DEF Ticks
<1>4. /\ due \in [Timers -> Ticks] /\ due \in [Timers -> Nat]
      /\ asked \in [Timers -> Ticks] /\ asked \in [Timers -> Nat]
    BY <1>1, <1>3 DEF CbTypeOK
<1>5. kq \in Seq(Msg) /\ wants \subseteq Timers
    BY <1>1 DEF CbTypeOK, Msg
<1>6. S \subseteq Timers /\ InHand \subseteq Timers
    BY <1>5 DEF Facts, Places
<1>7. PICK m, d : m = mem /\ d = due
    OBVIOUS
<1>8. Holds(m, d, Q, D)
    BY <1>7 DEF Facts
<1>9. /\ Q \subseteq Timers /\ D \subseteq Timers
      /\ m.head["timq"] \in Q \/ (m.head["timq"] = Null /\ Q = {})
      /\ m.head["done"] \in D \/ (m.head["done"] = Null /\ D = {})
      /\ \A n \in Q : d[m.head["timq"]] <= d[n]
    BY <1>8, HoldsHeads
<1> QED BY <1>1, <1>2, <1>4, <1>5, <1>6, <1>7, <1>9, TimerAssumption

LEMMA TickKeeps ==
    ASSUME NEW Q, NEW D, NEW S, Facts(Q, D, S), Tick
    PROVE  Facts(Q, D, S)'
<1>1. /\ now' = now + 1 /\ now + tick < MaxTick
      /\ UNCHANGED <<mem, due, kernelVars, adding, upd, histVars>>
    BY DEF Tick
<1>2. /\ now \in Nat /\ now <= MaxTick /\ tick \in Nat /\ MaxTick \in Nat
      /\ asked \in [Timers -> Nat] /\ Q \subseteq Timers /\ D \subseteq Timers
      /\ InHand \subseteq Timers
    BY TypesOfFacts
<1>3. CbTypeOK'
  <2>1. now' \in Ticks
    BY <1>1, <1>2 DEF Ticks
  <2> QED BY <1>1, <2>1 DEF Facts, CbTypeOK, kernelVars, histVars
<1>4. Places(Q, D, S, InHand', wants', due', asked', now')
  <2>1. InHand' = InHand
    BY <1>1 DEF InHand, kernelVars, AddsAgain
  <2>2. \A t \in D : asked[t] <= now + 1
    <3>1. \A t \in D : asked[t] <= now /\ asked[t] \in Nat
        BY <1>2 DEF Facts, Places
    <3> QED BY <1>2, <3>1
  <2> QED BY <1>1, <2>1, <2>2 DEF Facts, Places, histVars
<1>5. HandInv'
  <2>1. now' + tick' <= MaxTick
    BY <1>1, <1>2 DEF kernelVars
  <2>2. kpc = "move" => asked[timer] <= now + 1
    <3>1. kpc = "move" => asked[timer] <= now /\ asked[timer] \in Nat
        BY <1>2 DEF Facts, HandInv, InHand, AddsAgain
    <3> QED BY <1>2, <3>1
  <2>3. kpc = "add" /\ due[timer] = 0 => asked[timer] <= now + 1 + tick
    <3>1. kpc = "add" /\ due[timer] = 0 =>
              asked[timer] <= now + tick /\ asked[timer] \in Nat
        BY <1>2 DEF Facts, HandInv, InHand, AddsAgain
    <3> QED BY <1>2, <3>1
  <2> QED BY <1>1, <2>1, <2>2, <2>3 DEF Facts, HandInv, kernelVars, histVars, AddsAgain
<1>6. HeadInv' /\ DueIsWanted' /\ SentOnce(kq') /\ Sent(kq') = S /\ Holds(mem', due', Q, D)
    BY <1>1 DEF Facts, HeadInv, DueIsWanted, kernelVars, histVars
<1> QED BY <1>3, <1>4, <1>5, <1>6 DEF Facts

\* A step of the kernel task that touches neither the lists nor the timers.
LEMMA KernelTimerKeeps ==
    ASSUME NEW Q, NEW D, NEW S, Facts(Q, D, S), KernelTimer
    PROVE  Facts(Q, D, S)'
<1>1. /\ KernelMay /\ kpc = "idle" /\ kpc' = "walk" /\ kdue' = NotTimed
      /\ UNCHANGED <<now, mem, due, kq, timer, tick, adding, upd, histVars>>
    BY DEF KernelTimer
<1>2. CbTypeOK'
    BY <1>1 DEF Facts, CbTypeOK, histVars
<1>3. InHand = {} /\ InHand' = {}
    BY <1>1 DEF InHand, AddsAgain, KernelMay
<1>4. HandInv'
    BY <1>1 DEF Facts, HandInv, KernelMay, Unlocked, histVars, AddsAgain
<1>5. HeadInv' /\ DueIsWanted' /\ SentOnce(kq') /\ Sent(kq') = S /\ Holds(mem', due', Q, D)
    BY <1>1 DEF Facts, HeadInv, DueIsWanted, histVars
<1>6. Places(Q, D, S, InHand', wants', due', asked', now')
    BY <1>1, <1>3 DEF Facts, histVars
<1> QED BY <1>2, <1>4, <1>5, <1>6 DEF Facts

LEMMA KernelWalkExpiredKeeps ==
    ASSUME NEW Q, NEW D, NEW S, Facts(Q, D, S), KernelWalkExpired
    PROVE  \E R : Facts(R, D, S)'
<1>1. PICK t : /\ t = mem.head["timq"] /\ kpc = "walk" /\ t # Null /\ due[t] <= now
               /\ mem' = RemoveHead(mem, "timq") /\ timer' = t /\ kpc' = "move"
               /\ UNCHANGED <<now, due, kdue, kq, tick, adding, upd, histVars>>
    BY DEF KernelWalkExpired
<1>2. /\ now \in Nat /\ due \in [Timers -> Nat] /\ asked \in [Timers -> Nat]
      /\ Q \subseteq Timers /\ t \in Q
    BY <1>1, TypesOfFacts
<1>3. PICK m, d : m = mem /\ d = due
    OBVIOUS
<1>4. PICK R : R = Q \ {t}
    OBVIOUS
<1>5. Holds(mem', due', R, D)
  <2>1. Holds(m, d, Q, D) /\ m.head["timq"] # Null
    BY <1>1, <1>3 DEF Facts
  <2>2. Holds(RemoveHead(m, "timq"), d, Q \ {m.head["timq"]}, D)
    BY <2>1, HoldsExpire
  <2> QED BY <1>1, <1>3, <1>4, <2>2
<1>6. CbTypeOK'
  <2>1. mem' \in MemType
    BY <1>5 DEF Holds
  <2> QED BY <1>1, <1>2, <2>1 DEF Facts, CbTypeOK, MemType, Nodes, histVars
<1>7. InHand = {} /\ InHand' = {t}
    BY <1>1 DEF InHand, AddsAgain
<1>8. Q \cap D = {}
    BY DEF Facts, Holds
<1>9. Places(Q, D, S, {}, wants, due, asked, now)
    BY <1>7 DEF Facts
<1>10. Places(R, D, S, {t}, wants, due, asked, now)
    BY <1>2, <1>4, <1>8, <1>9 DEF Places
<1>11. HandInv'
  <2>1. due[t] # 0 /\ asked[t] <= due[t]
    BY <1>2, <1>9 DEF Places
  <2>2. asked[t] \in Nat /\ due[t] \in Nat /\ due[t] <= now
    BY <1>1, <1>2
  <2>3. asked[t] <= now
    BY <1>2, <2>1, <2>2
  <2> QED BY <1>1, <2>1, <2>3 DEF Facts, HandInv, histVars, AddsAgain
<1>12. HeadInv' /\ DueIsWanted' /\ SentOnce(kq') /\ Sent(kq') = S
    BY <1>1 DEF Facts, HeadInv, DueIsWanted, histVars
<1> QED BY <1>1, <1>5, <1>6, <1>7, <1>10, <1>11, <1>12 DEF Facts, histVars

LEMMA KernelMoveKeeps ==
    ASSUME NEW Q, NEW D, NEW S, Facts(Q, D, S), KernelMove
    PROVE  \E R : Facts(Q, R, S)'
<1>1. PICK t : /\ t = timer /\ kpc = "move"
               /\ mem' = AddToTail(mem, "done", t) /\ kpc' = "walk" /\ timer' = Null
               /\ UNCHANGED <<now, due, kdue, kq, tick, adding, upd, histVars>>
    BY DEF KernelMove
<1>2. InHand = {t} /\ InHand' = {}
    BY <1>1 DEF InHand, AddsAgain
<1>3. t \in Timers
    BY <1>2, TypesOfFacts
<1>4. Places(Q, D, S, {t}, wants, due, asked, now)
    BY <1>2 DEF Facts
<1>5. PICK m, d, R : m = mem /\ d = due /\ R = D \cup {t}
    OBVIOUS
<1>6. Holds(mem', due', Q, R)
  <2>1. Holds(m, d, Q, D)
    BY <1>5 DEF Facts
  <2>2. t \notin Q /\ t \notin D
    BY <1>4 DEF Places
  <2>3. Holds(AddToTail(m, "done", t), d, Q, D \cup {t})
    BY <1>3, <2>1, <2>2, HoldsMove
  <2> QED BY <1>1, <1>5, <2>3
<1>7. CbTypeOK'
  <2>1. mem' \in MemType
    BY <1>6 DEF Holds
  <2> QED BY <1>1, <2>1 DEF Facts, CbTypeOK, MemType, Nodes, histVars
<1>8. HandInv'
    BY <1>1 DEF Facts, HandInv, histVars, AddsAgain
<1>9. Places(Q, R, S, {}, wants, due, asked, now)
  <2>1. due[t] # 0 /\ asked[t] <= now
    BY <1>1 DEF Facts, HandInv, AddsAgain
  <2> QED BY <1>4, <1>5, <2>1 DEF Places
<1>10. HeadInv' /\ DueIsWanted' /\ SentOnce(kq') /\ Sent(kq') = S
    BY <1>1 DEF Facts, HeadInv, DueIsWanted, histVars
<1> QED BY <1>1, <1>2, <1>6, <1>7, <1>8, <1>9, <1>10 DEF Facts, histVars

LEMMA KernelWalkEndKeeps ==
    ASSUME NEW Q, NEW D, NEW S, Facts(Q, D, S), KernelWalkEnd
    PROVE  Facts(Q, D, S)'
<1>1. PICK t : /\ t = mem.head["timq"] /\ kpc = "walk"
               /\ kdue' = IF t # Null THEN due[t] ELSE kdue
               /\ kq' = Append(kq, [evt |-> "CALLBACK", timer |-> Null])
               /\ kpc' = "idle"
               /\ UNCHANGED <<now, mem, due, timer, tick, adding, upd, histVars>>
    BY DEF KernelWalkEnd
<1>2. /\ due \in [Timers -> Ticks] /\ Q \subseteq Timers /\ kq \in Seq(Msg)
      /\ due \in [Timers -> Nat]
      /\ t # Null => t \in Timers
    BY <1>1, TypesOfFacts
<1>3. PICK k, x : k = kq /\ x = [evt |-> "CALLBACK", timer |-> Null]
    OBVIOUS
<1>4. kq' \in Seq(Msg) /\ SentOnce(kq') /\ Sent(kq') = S
  <2>1. x \in Msg /\ x.evt # "ADD"
    BY <1>3 DEF Msg, Nodes
  <2>2. k \in Seq(Msg) /\ SentOnce(k) /\ Sent(k) = S
    BY <1>2, <1>3 DEF Facts
  <2>3. /\ Append(k, x) \in Seq(Msg) /\ SentOnce(Append(k, x))
        /\ Sent(Append(k, x)) = Sent(k)
    BY <2>1, <2>2, SentAppend
  <2> QED BY <1>1, <1>3, <2>2, <2>3
<1>5. CbTypeOK'
  <2>1. kdue' \in Ticks \cup {NotTimed}
    BY <1>1, <1>2 DEF Facts, CbTypeOK
  <2> QED BY <1>1, <1>4, <2>1 DEF Facts, CbTypeOK, Msg, histVars
<1>6. InHand = {} /\ InHand' = {}
    BY <1>1 DEF Facts, HandInv, InHand, AddsAgain
<1>7. HandInv'
    BY <1>1 DEF Facts, HandInv, histVars, AddsAgain
<1>8. HeadInv'
  <2>1. t # Null => due[t] # NotTimed /\ due[t] <= due[t]
    <3>1. t # Null => due[t] \in Nat
        BY <1>2
    <3> QED BY <3>1 DEF NotTimed
  <2> QED BY <1>1, <2>1 DEF HeadInv
<1>9. DueIsWanted' /\ Holds(mem', due', Q, D)
    BY <1>1 DEF Facts, DueIsWanted, histVars
<1>10. Places(Q, D, S, InHand', wants', due', asked', now')
    BY <1>1, <1>6 DEF Facts, histVars
<1> QED BY <1>4, <1>5, <1>7, <1>8, <1>9, <1>10 DEF Facts

LEMMA KernelCallbackEventKeeps ==
    ASSUME NEW Q, NEW D, NEW S, Facts(Q, D, S), KernelCallbackEvent
    PROVE  Facts(Q, D, S)'
<1>1. /\ KernelMay /\ kpc = "idle" /\ kq # <<>> /\ Head(kq).evt = "CALLBACK"
      /\ kq' = Tail(kq) /\ kpc' = "calls"
      /\ UNCHANGED <<now, mem, due, kdue, timer, tick, adding, upd, histVars>>
    BY DEF KernelCallbackEvent
<1>2. PICK k : k = kq
    OBVIOUS
<1>3. kq' \in Seq(Msg) /\ SentOnce(kq') /\ Sent(kq') = S
  <2>1. k \in Seq(Msg) /\ SentOnce(k) /\ Sent(k) = S
    BY <1>2, TypesOfFacts DEF Facts
  <2>2. k # <<>> /\ Head(k).evt # "ADD"
    BY <1>1, <1>2
  <2>3. Tail(k) \in Seq(Msg) /\ SentOnce(Tail(k)) /\ Sent(Tail(k)) = Sent(k)
    BY <2>1, <2>2, SentTail
  <2> QED BY <1>1, <1>2, <2>1, <2>3
<1>4. CbTypeOK'
    BY <1>1, <1>3 DEF Facts, CbTypeOK, Msg, histVars
<1>5. InHand = {} /\ InHand' = {}
    BY <1>1 DEF InHand, AddsAgain, KernelMay
<1>6. upd = NoUpd /\ adding["kernel"] = NotAdding
    BY <1>1 DEF Facts, HandInv, KernelMay, Unlocked, AddsAgain
<1>7. HandInv' /\ HeadInv'
    BY <1>1, <1>6 DEF Facts, HandInv, HeadInv, histVars, AddsAgain
<1>8. DueIsWanted' /\ Holds(mem', due', Q, D)
    BY <1>1 DEF Facts, DueIsWanted, histVars
<1>9. Places(Q, D, S, InHand', wants', due', asked', now')
    BY <1>1, <1>5 DEF Facts, histVars
<1> QED BY <1>3, <1>4, <1>7, <1>8, <1>9 DEF Facts

LEMMA KernelCallKeeps ==
    ASSUME NEW Q, NEW D, NEW S, Facts(Q, D, S), KernelCall
    PROVE  \E R : Facts(Q, R, S)'
<1>1. PICK t : /\ t = mem.head["done"] /\ kpc = "calls" /\ t # Null
               /\ mem' = RemoveHead(mem, "done") /\ timer' = t
               /\ due' = [due EXCEPT ![t] = 0] /\ wants' = wants \ {t}
               /\ asked' = [asked EXCEPT ![t] = 0]
               /\ kpc' = "on_timer"
               /\ UNCHANGED <<now, kdue, kq, tick, adding, upd, failed, crossed>>
    BY DEF KernelCall
<1>2. /\ due \in [Timers -> Ticks] /\ due \in [Timers -> Nat] /\ MaxTick \in Nat
      /\ asked \in [Timers -> Ticks]
      /\ Q \subseteq Timers /\ D \subseteq Timers /\ S \subseteq Timers /\ t \in D
      /\ mem.head["timq"] \in Q \/ mem.head["timq"] = Null
    BY <1>1, TypesOfFacts
<1>3. /\ due' \in [Timers -> Ticks] /\ due' \in [Timers -> Nat]
      /\ due'[t] = 0 /\ \A x \in Timers \ {t} : due'[x] = due[x]
      /\ asked' \in [Timers -> Ticks] /\ \A x \in Timers \ {t} : asked'[x] = asked[x]
    BY <1>1, <1>2 DEF Ticks
<1>4. PICK m, d, e, R : m = mem /\ d = due /\ e = due' /\ R = D \ {t}
    OBVIOUS
<1>5. Q \cap D = {}
    BY DEF Facts, Holds
<1>6. Holds(mem', due', Q, R) /\ mem'.head["timq"] = mem.head["timq"]
  <2>1. Holds(m, d, Q, D) /\ m.head["done"] # Null
    BY <1>1, <1>4 DEF Facts
  <2>2. /\ Holds(RemoveHead(m, "done"), d, Q, D \ {m.head["done"]})
        /\ RemoveHead(m, "done").head["timq"] = m.head["timq"]
    BY <2>1, HoldsCall
  <2>3. PICK r : r = RemoveHead(m, "done")
    OBVIOUS
  <2>4. Holds(r, d, Q, R)
    BY <1>1, <1>4, <2>2, <2>3
  <2>5. e \in [Timers -> Nat] /\ \A x \in Q : e[x] = d[x]
    BY <1>2, <1>3, <1>4, <1>5
  <2>6. Holds(r, e, Q, R)
    BY <2>4, <2>5, HoldsDue
  <2> QED BY <1>1, <1>4, <2>2, <2>3, <2>6
<1>7. CbTypeOK'
  <2>1. mem' \in MemType
    BY <1>6 DEF Holds
  <2> QED BY <1>1, <1>2, <1>3, <2>1 DEF Facts, CbTypeOK, MemType, Nodes
<1>8. InHand = {} /\ InHand' = {}
    BY <1>1 DEF InHand, AddsAgain
<1>9. Places(Q, D, S, {}, wants, due, asked, now)
    BY <1>8 DEF Facts
<1>10. Places(Q, R, S, {}, wants', due', asked', now)
    BY <1>1, <1>2, <1>3, <1>4, <1>5, <1>9 DEF Places
<1>11. upd = NoUpd /\ adding["kernel"] = NotAdding
    BY <1>1 DEF Facts, HandInv
<1>12. HandInv'
    BY <1>1, <1>11 DEF Facts, HandInv, AddsAgain
<1>13. HeadInv'
  <2>1. mem.head["timq"] # Null => due'[mem.head["timq"]] = due[mem.head["timq"]]
    BY <1>2, <1>3, <1>5
  <2> QED BY <1>1, <1>6, <1>11, <2>1 DEF Facts, HeadInv
<1>14. DueIsWanted'
  <2> SUFFICES ASSUME NEW x \in Timers \ failed, due'[x] # 0 PROVE x \in wants'
    BY <1>1 DEF DueIsWanted
  <2>1. x # t /\ due[x] # 0
    BY <1>3
  <2> QED BY <1>1, <2>1 DEF Facts, DueIsWanted
<1> QED BY <1>1, <1>6, <1>7, <1>8, <1>10, <1>12, <1>13, <1>14 DEF Facts

LEMMA KernelCallsEndKeeps ==
    ASSUME NEW Q, NEW D, NEW S, Facts(Q, D, S), KernelCallsEnd
    PROVE  Facts(Q, D, S)'
<1>1. /\ kpc = "calls" /\ kpc' = "idle"
      /\ UNCHANGED <<now, mem, due, kdue, kq, timer, tick, adding, upd, histVars>>
    BY DEF KernelCallsEnd
<1>2. CbTypeOK'
    BY <1>1 DEF Facts, CbTypeOK, Nodes, histVars
<1>3. InHand = {} /\ InHand' = {}
    BY <1>1 DEF Facts, HandInv, InHand, AddsAgain
<1>4. HandInv' /\ HeadInv' /\ DueIsWanted' /\ SentOnce(kq') /\ Sent(kq') = S
    BY <1>1 DEF Facts, HandInv, HeadInv, DueIsWanted, histVars, AddsAgain
<1>5. Holds(mem', due', Q, D) /\ Places(Q, D, S, InHand', wants', due', asked', now')
    BY <1>1, <1>3 DEF Facts, histVars
<1> QED BY <1>2, <1>4, <1>5 DEF Facts

LEMMA OnTimerReturnKeeps ==
    ASSUME NEW Q, NEW D, NEW S, Facts(Q, D, S), OnTimerReturn
    PROVE  Facts(Q, D, S)'
<1>1. /\ kpc \in {"on_timer", "on_timer_add"} /\ KernelMay
      /\ kpc' \in {"calls", "idle"} /\ timer' = Null
      /\ UNCHANGED <<now, mem, due, kdue, kq, tick, adding, upd, histVars>>
    BY DEF OnTimerReturn, OnTimer
<1>2. CbTypeOK'
    BY <1>1 DEF Facts, CbTypeOK, Nodes, histVars
<1>3. InHand = {} /\ InHand' = {}
    BY <1>1 DEF InHand, AddsAgain, KernelMay
<1>4. upd = NoUpd /\ adding["kernel"] = NotAdding
    BY <1>1 DEF Facts, HandInv, KernelMay, Unlocked
<1>5. HandInv'
    BY <1>1, <1>4 DEF Facts, HandInv, histVars, AddsAgain
<1>6. HeadInv' /\ DueIsWanted' /\ SentOnce(kq') /\ Sent(kq') = S
    BY <1>1 DEF Facts, HeadInv, DueIsWanted, histVars
<1>7. Holds(mem', due', Q, D) /\ Places(Q, D, S, InHand', wants', due', asked', now')
    BY <1>1, <1>3 DEF Facts, histVars
<1> QED BY <1>2, <1>5, <1>6, <1>7 DEF Facts

\* An event ADD is taken, and the due of its timer is cleared.
Takes(t) ==
    /\ kq # <<>> /\ Head(kq).evt = "ADD" /\ t = Head(kq).timer
    /\ kq' = Tail(kq) /\ due' = [due EXCEPT ![t] = 0] /\ mem' = mem

LEMMA AddTaken ==
    ASSUME NEW Q, NEW D, NEW S, Facts(Q, D, S), NEW t, Takes(t)
    PROVE  /\ t \in S /\ t \in Timers /\ t \notin Q /\ t \notin D /\ t \notin InHand
           /\ due[t] # 0 /\ asked[t] <= due[t]
           /\ kq' \in Seq(Msg) /\ SentOnce(kq') /\ Sent(kq') = S \ {t}
           /\ due' \in [Timers -> Ticks] /\ due' \in [Timers -> Nat]
           /\ due'[t] = 0 /\ \A x \in Timers \ {t} : due'[x] = due[x]
           /\ Holds(mem', due', Q, D)
           /\ mem.head["timq"] # Null => due'[mem.head["timq"]] = due[mem.head["timq"]]
<1>0. /\ kq # <<>> /\ Head(kq).evt = "ADD" /\ t = Head(kq).timer
      /\ kq' = Tail(kq) /\ due' = [due EXCEPT ![t] = 0] /\ mem' = mem
    BY DEF Takes
<1>1. /\ due \in [Timers -> Ticks] /\ due \in [Timers -> Nat] /\ MaxTick \in Nat
      /\ Q \subseteq Timers /\ S \subseteq Timers /\ kq \in Seq(Msg)
      /\ mem.head["timq"] \in Q \/ mem.head["timq"] = Null
    BY TypesOfFacts
<1>2. PICK m, d, e, k : m = mem /\ d = due /\ e = due' /\ k = kq
    OBVIOUS
<1>3. t \in S /\ kq' \in Seq(Msg) /\ SentOnce(kq') /\ Sent(kq') = S \ {t}
  <2>1. k \in Seq(Msg) /\ SentOnce(k) /\ Sent(k) = S
    BY <1>1, <1>2 DEF Facts
  <2>2. k # <<>> /\ Head(k).evt = "ADD" /\ Head(k).timer = t
    BY <1>0, <1>2
  <2>3. /\ Tail(k) \in Seq(Msg) /\ SentOnce(Tail(k))
        /\ Head(k).timer \in Sent(k) /\ Sent(Tail(k)) = Sent(k) \ {Head(k).timer}
    BY <2>1, <2>2, SentTail
  <2> QED BY <1>0, <1>2, <2>1, <2>2, <2>3
<1>4. t \in Timers /\ t \notin Q /\ t \notin D /\ t \notin InHand
      /\ due[t] # 0 /\ asked[t] <= due[t]
    BY <1>1, <1>3 DEF Facts, Places
<1>5. /\ due' \in [Timers -> Ticks] /\ due' \in [Timers -> Nat]
      /\ due'[t] = 0 /\ \A x \in Timers \ {t} : due'[x] = due[x]
    BY <1>0, <1>1, <1>4 DEF Ticks
<1>6. Holds(mem', due', Q, D)
  <2>1. Holds(m, d, Q, D)
    BY <1>2 DEF Facts
  <2>2. e \in [Timers -> Nat] /\ \A x \in Q : e[x] = d[x]
    BY <1>1, <1>2, <1>4, <1>5
  <2>3. Holds(m, e, Q, D)
    BY <2>1, <2>2, HoldsDue
  <2> QED BY <1>0, <1>2, <2>3
<1> QED BY <1>1, <1>3, <1>4, <1>5, <1>6

LEMMA KernelAddExpiredKeeps ==
    ASSUME NEW Q, NEW D, NEW S, Facts(Q, D, S), KernelAddExpired
    PROVE  \E T : Facts(Q, D, T)'
<1>1. PICK t : /\ KernelMay /\ kpc = "idle" /\ kq # <<>> /\ Head(kq).evt = "ADD"
               /\ t = Head(kq).timer /\ now >= due[t]
               /\ due' = [due EXCEPT ![t] = 0] /\ timer' = t /\ wants' = wants \ {t}
               /\ asked' = [asked EXCEPT ![t] = 0]
               /\ kq' = Tail(kq) /\ kpc' = "on_timer_add"
               /\ UNCHANGED <<now, mem, kdue, tick, adding, upd, failed, crossed>>
    BY DEF KernelAddExpired
<1>2. /\ t \in S /\ t \in Timers /\ t \notin Q /\ t \notin D
      /\ kq' \in Seq(Msg) /\ SentOnce(kq') /\ Sent(kq') = S \ {t}
      /\ due' \in [Timers -> Ticks]
      /\ due'[t] = 0 /\ \A x \in Timers \ {t} : due'[x] = due[x]
      /\ Holds(mem', due', Q, D)
      /\ mem.head["timq"] # Null => due'[mem.head["timq"]] = due[mem.head["timq"]]
  <2>1. Takes(t)
    BY <1>1 DEF Takes
  <2> QED BY <2>1, AddTaken
<1>3. PICK T : T = S \ {t}
    OBVIOUS
<1>a. asked' \in [Timers -> Ticks] /\ \A x \in Timers \ {t} : asked'[x] = asked[x]
  <2>1. asked \in [Timers -> Ticks] /\ MaxTick \in Nat
    BY TypesOfFacts
  <2> QED BY <1>1, <1>2, <2>1 DEF Ticks
<1>4. CbTypeOK'
    BY <1>1, <1>2, <1>a DEF Facts, CbTypeOK, Msg, Nodes
<1>5. InHand = {} /\ InHand' = {}
    BY <1>1 DEF InHand, AddsAgain, KernelMay
<1>6. Places(Q, D, S, {}, wants, due, asked, now)
    BY <1>5 DEF Facts
<1>7. Q \subseteq Timers /\ D \subseteq Timers /\ S \subseteq Timers
    BY TypesOfFacts
<1>8. Places(Q, D, T, {}, wants', due', asked', now)
    BY <1>1, <1>2, <1>a, <1>3, <1>6, <1>7 DEF Places
<1>9. upd = NoUpd /\ adding["kernel"] = NotAdding
    BY <1>1 DEF Facts, HandInv, KernelMay, Unlocked
<1>10. HandInv' /\ HeadInv'
    BY <1>1, <1>2, <1>9 DEF Facts, HandInv, HeadInv, AddsAgain
<1>11. DueIsWanted'
  <2> SUFFICES ASSUME NEW x \in Timers \ failed, due'[x] # 0 PROVE x \in wants'
    BY <1>1 DEF DueIsWanted
  <2>1. x # t /\ due[x] # 0
    BY <1>2
  <2> QED BY <1>1, <2>1 DEF Facts, DueIsWanted
<1> QED BY <1>1, <1>2, <1>3, <1>4, <1>5, <1>8, <1>10, <1>11 DEF Facts

LEMMA KernelAddKeeps ==
    ASSUME NEW Q, NEW D, NEW S, Facts(Q, D, S), KernelAdd
    PROVE  \E T : Facts(Q, D, T)'
<1>1. PICK t : /\ KernelMay /\ kpc = "idle" /\ kq # <<>> /\ Head(kq).evt = "ADD"
               /\ t = Head(kq).timer /\ now < due[t] /\ tick' = due[t] - now
               /\ due' = [due EXCEPT ![t] = 0] /\ timer' = t
               /\ kq' = Tail(kq) /\ kpc' = "add"
               /\ UNCHANGED <<now, mem, kdue, adding, upd, histVars>>
    BY DEF KernelAdd
<1>2. /\ t \in S /\ t \in Timers /\ t \notin Q /\ t \notin D
      /\ asked[t] <= due[t]
      /\ kq' \in Seq(Msg) /\ SentOnce(kq') /\ Sent(kq') = S \ {t}
      /\ due' \in [Timers -> Ticks]
      /\ due'[t] = 0 /\ \A x \in Timers \ {t} : due'[x] = due[x]
      /\ Holds(mem', due', Q, D)
      /\ mem.head["timq"] # Null => due'[mem.head["timq"]] = due[mem.head["timq"]]
  <2>1. Takes(t)
    BY <1>1 DEF Takes
  <2> QED BY <2>1, AddTaken
<1>3. PICK T : T = S \ {t}
    OBVIOUS
<1>t. now \in Nat /\ due \in [Timers -> Ticks] /\ MaxTick \in Nat /\ asked \in [Timers -> Nat]
    BY TypesOfFacts
<1>a. /\ due[t] \in Nat /\ due[t] <= MaxTick /\ asked[t] \in Nat
    BY <1>2, <1>t DEF Ticks
<1>b. /\ tick' \in Ticks /\ tick' # 0 /\ now + tick' = due[t] /\ now + tick' <= MaxTick
  <2>1. PICK v \in Nat : v = due[t]
    BY <1>a
  <2>2. now < v /\ v <= MaxTick /\ tick' = v - now /\ now \in Nat /\ MaxTick \in Nat
    BY <1>1, <1>t, <1>a, <2>1
  <2>3. tick' \in 0 .. MaxTick /\ tick' # 0 /\ now + tick' = v /\ now + tick' <= MaxTick
    BY <2>2
  <2> QED BY <2>1, <2>3 DEF Ticks
<1>4. CbTypeOK'
    BY <1>1, <1>2, <1>b DEF Facts, CbTypeOK, Msg, Nodes, histVars
<1>5. InHand = {} /\ InHand' = {t}
    BY <1>1, <1>2 DEF InHand, AddsAgain, KernelMay
<1>6. Places(Q, D, S, {}, wants, due, asked, now)
    BY <1>5 DEF Facts
<1>7. Q \subseteq Timers /\ D \subseteq Timers /\ S \subseteq Timers
    BY TypesOfFacts
<1>8. Places(Q, D, T, {t}, wants, due', asked, now)
    BY <1>1, <1>2, <1>3, <1>6, <1>7 DEF Places
<1>9. upd = NoUpd /\ adding["kernel"] = NotAdding
    BY <1>1 DEF Facts, HandInv, KernelMay, Unlocked
<1>10. HandInv'
    BY <1>1, <1>2, <1>9, <1>b DEF Facts, HandInv, histVars, AddsAgain
<1>11. HeadInv'
    BY <1>1, <1>2, <1>9 DEF Facts, HeadInv, histVars
<1>12. DueIsWanted'
  <2> SUFFICES ASSUME NEW x \in Timers \ failed, due'[x] # 0 PROVE x \in wants
    BY <1>1 DEF DueIsWanted, histVars
  <2>1. x # t /\ due[x] # 0
    BY <1>2
  <2> QED BY <2>1 DEF Facts, DueIsWanted
<1> QED BY <1>1, <1>2, <1>3, <1>4, <1>5, <1>8, <1>10, <1>11, <1>12 DEF Facts, histVars

\* vsf_callback_timer_add up to its test
LEMMA AddKeeps ==
    ASSUME NEW Q, NEW D, NEW S, Facts(Q, D, S), NEW t \in Timers,
           NEW delay \in Delays, NEW c \in Callers, Add(c, t, delay),
           c = "task" \/ kpc \in {"on_timer", "on_timer_add"}
    PROVE  Facts(Q, D, S)'
<1>1. /\ now + delay <= MaxTick
      /\ adding' = [adding EXCEPT ![c] = [timer |-> t, due |-> now + delay]]
      /\ UNCHANGED <<now, mem, due, kdue, kq, kpc, timer, tick, upd, wants, asked,
                     failed, crossed>>
    BY DEF Add, kernelVars, histVars
<1>2. /\ now + delay \in Ticks /\ now + delay # 0
  <2>1. delay \in Nat /\ delay # 0 /\ now \in Nat /\ MaxTick \in Nat
    BY BoundAssumption, TypesOfFacts
  <2> QED BY <1>1, <2>1 DEF Ticks
<1>3. adding \in [Callers -> [timer : Nodes, due : Ticks]]
    BY DEF Facts, CbTypeOK
<1>4. /\ adding' \in [Callers -> [timer : Nodes, due : Ticks]]
      /\ adding'[c] = [timer |-> t, due |-> now + delay]
      /\ \A x \in Callers \ {c} : adding'[x] = adding[x]
    BY <1>1, <1>2, <1>3 DEF Nodes
<1>5. CbTypeOK'
    BY <1>1, <1>4 DEF Facts, CbTypeOK
<1>6. "kernel" \in Callers /\ "task" # "kernel"
    BY DEF Callers
<1>7. adding'["kernel"] = adding["kernel"] \/ kpc \in {"on_timer", "on_timer_add"}
    BY <1>4, <1>6
<1>8. InHand' = InHand
    BY <1>1, <1>7 DEF InHand, AddsAgain
<1>9. HandInv'
  <2>1. kpc \in {"walk", "move", "calls", "add"} =>
            upd = NoUpd /\ adding'["kernel"] = NotAdding
    BY <1>7 DEF Facts, HandInv
  <2>2. ASSUME NEW x \in Callers, adding'[x] # NotAdding
        PROVE  adding'[x].timer \in Timers /\ adding'[x].due # 0
    <3>1. CASE x = c
        BY <1>2, <1>4, <3>1
    <3>2. CASE x # c
        BY <1>4, <2>2, <3>2 DEF Facts, HandInv
    <3> QED BY <3>1, <3>2
  <2>3. AddsAgain' => AddsAgain /\ adding'["kernel"] = adding["kernel"]
    BY <1>1, <1>7 DEF AddsAgain
  <2> QED BY <1>1, <2>1, <2>2, <2>3 DEF Facts, HandInv
<1>10. /\ HeadInv' /\ DueIsWanted' /\ SentOnce(kq') /\ Sent(kq') = S
       /\ Holds(mem', due', Q, D)
    BY <1>1 DEF Facts, HeadInv, DueIsWanted
<1>11. Places(Q, D, S, InHand', wants', due', asked', now')
    BY <1>1, <1>8 DEF Facts
<1> QED BY <1>5, <1>9, <1>10, <1>11 DEF Facts

\* vsf_callback_timer_add_due of a timer that is in no list
LEMMA SectionFacts ==
    ASSUME NEW Q, NEW D, NEW S, Facts(Q, D, S), NEW t \in Timers,
           t \notin Q, t \notin D, NEW d \in Ticks,
           due' = [due EXCEPT ![t] = d],
           mem' = Insert(mem, "timq", t, [due EXCEPT ![t] = d])
    PROVE  /\ due' \in [Timers -> Ticks] /\ due' \in [Timers -> Nat]
           /\ due'[t] = d /\ \A x \in Timers \ {t} : due'[x] = due[x]
           /\ Holds(mem', due', Q \cup {t}, D)
           /\ mem'.prev[t] = Null => mem'.head["timq"] = t
           /\ mem'.prev[t] # Null => mem'.head["timq"] = mem.head["timq"]
<1>2. due \in [Timers -> Ticks] /\ MaxTick \in Nat /\ Q \subseteq Timers
    BY TypesOfFacts
<1>3. /\ due' \in [Timers -> Ticks]
      /\ due'[t] = d /\ \A x \in Timers \ {t} : due'[x] = due[x]
    BY <1>2
<1>4. due' \in [Timers -> Nat]
    BY <1>2, <1>3 DEF Ticks
<1>5. PICK m, c, e, r : m = mem /\ c = due /\ e = due' /\ r = mem'
    OBVIOUS
<1>6. Holds(m, c, Q, D)
    BY <1>5 DEF Facts
<1>7. e \in [Timers -> Nat] /\ \A x \in Q : e[x] = c[x]
    BY <1>2, <1>3, <1>4, <1>5
<1>8. Holds(m, e, Q, D)
    BY <1>6, <1>7, HoldsDue
<1>9. /\ Holds(Insert(m, "timq", t, e), e, Q \cup {t}, D)
      /\ Insert(m, "timq", t, e).prev[t] = Null => Insert(m, "timq", t, e).head["timq"] = t
      /\ Insert(m, "timq", t, e).prev[t] # Null =>
            Insert(m, "timq", t, e).head["timq"] = m.head["timq"]
    BY <1>8, HoldsInsert
<1>10. r = Insert(m, "timq", t, e)
    BY <1>5
<1>11. /\ Holds(r, e, Q \cup {t}, D)
       /\ r.prev[t] = Null => r.head["timq"] = t
       /\ r.prev[t] # Null => r.head["timq"] = m.head["timq"]
    BY <1>9, <1>10
<1> QED BY <1>3, <1>4, <1>5, <1>11

LEMMA AddSectionKeeps ==
    ASSUME NEW Q, NEW D, NEW S, Facts(Q, D, S), NEW c \in Callers, AddSection(c),
           c = "task" => TaskMay, ~crossed'
    PROVE  \E R : Facts(R, D, S)'
<1>1. PICK t, d : /\ t = adding[c].timer /\ d = adding[c].due
                  /\ upd.by = "nobody" /\ t # Null
                  /\ due' = [due EXCEPT ![t] = d]
                  /\ mem' = Insert(mem, "timq", t, [due EXCEPT ![t] = d])
                  /\ upd' = IF mem'.prev[t] = Null THEN [by |-> c, timer |-> t] ELSE NoUpd
                  /\ wants' = wants \cup {t}
                  /\ asked' = IF t \in wants THEN asked ELSE [asked EXCEPT ![t] = d]
                  /\ crossed' = (crossed \/ CrossedAdd(t))
                  /\ adding' = [adding EXCEPT ![c] = NotAdding]
                  /\ UNCHANGED <<now, kdue, kq, kpc, timer, tick, failed>>
    BY DEF AddSection, Unlocked, kernelVars
<1>2. /\ MaxTick \in Nat /\ asked \in [Timers -> Ticks] /\ now \in Nat
      /\ due \in [Timers -> Nat]
      /\ Q \subseteq Timers /\ D \subseteq Timers /\ S \subseteq Timers
      /\ InHand \subseteq Timers
      /\ mem.head["timq"] \in Q \/ mem.head["timq"] = Null
    BY TypesOfFacts
<1>3. adding \in [Callers -> [timer : Nodes, due : Ticks]]
    BY DEF Facts, CbTypeOK
<1>4. adding[c] # NotAdding
    BY <1>1 DEF NotAdding
<1>5. t \in Timers /\ d \in Ticks /\ d # 0
    BY <1>1, <1>3, <1>4 DEF Facts, HandInv
<1>6. due[t] = 0
    BY <1>1 DEF CrossedAdd
<1>7. upd = NoUpd
    BY <1>1 DEF Facts, HandInv
<1>8. Places(Q, D, S, InHand, wants, due, asked, now)
    BY DEF Facts
<1>9. t \notin Q /\ t \notin D /\ t \notin S
    BY <1>6, <1>8 DEF Places
<1>10. c = "task" \/ c = "kernel"
    BY DEF Callers
<1>11. /\ c = "task" => kpc = "idle" /\ adding["kernel"] = NotAdding
       /\ kpc \notin {"walk", "move", "calls", "add"}
  <2>1. CASE c = "task"
    BY <2>1 DEF TaskMay, KernelMay
  <2>2. CASE c = "kernel"
    BY <1>4, <2>2 DEF Facts, HandInv
  <2> QED BY <1>10, <2>1, <2>2
<1>12. /\ adding' \in [Callers -> [timer : Nodes, due : Ticks]]
       /\ adding'[c] = NotAdding /\ adding'["kernel"] = NotAdding
       /\ \A x \in Callers \ {c} : adding'[x] = adding[x]
  <2>1. NotAdding \in [timer : Nodes, due : Ticks]
    BY <1>2 DEF NotAdding, Nodes, Ticks
  <2> QED BY <1>1, <1>3, <1>10, <1>11, <2>1 DEF Callers
<1>13. InHand \subseteq {t} /\ InHand' = {}
    BY <1>1, <1>10, <1>11, <1>12 DEF InHand, AddsAgain
<1>14. t \in wants => asked[t] <= d
  <2> SUFFICES ASSUME t \in wants PROVE asked[t] <= d
    OBVIOUS
  <2>1. t \in InHand
    BY <1>8, <1>9 DEF Places
  <2>2. AddsAgain /\ adding["kernel"].timer = t /\ c = "kernel"
    BY <1>4, <1>10, <1>11, <2>1 DEF InHand, AddsAgain
  <2> QED BY <1>1, <1>6, <2>2 DEF Facts, HandInv
<1>15. /\ due' \in [Timers -> Ticks] /\ due' \in [Timers -> Nat]
       /\ due'[t] = d /\ \A x \in Timers \ {t} : due'[x] = due[x]
       /\ Holds(mem', due', Q \cup {t}, D)
       /\ \/ upd' = [by |-> c, timer |-> t] /\ mem'.head["timq"] = t
          \/ upd' = NoUpd /\ mem'.head["timq"] = mem.head["timq"]
  <2>1. /\ due' \in [Timers -> Ticks] /\ due' \in [Timers -> Nat]
        /\ due'[t] = d /\ \A x \in Timers \ {t} : due'[x] = due[x]
        /\ Holds(mem', due', Q \cup {t}, D)
        /\ mem'.prev[t] = Null => mem'.head["timq"] = t
        /\ mem'.prev[t] # Null => mem'.head["timq"] = mem.head["timq"]
    <3>1. /\ due' = [due EXCEPT ![t] = d]
          /\ mem' = Insert(mem, "timq", t, [due EXCEPT ![t] = d])
        BY <1>1
    <3>2. t \in Timers /\ t \notin Q /\ t \notin D /\ d \in Ticks
        BY <1>5, <1>9
    <3> QED BY <3>1, <3>2, SectionFacts
  <2> QED BY <1>1, <2>1
<1>16. /\ asked' \in [Timers -> Ticks] /\ asked'[t] <= d
       /\ \A x \in Timers \ {t} : asked'[x] = asked[x]
  <2>1. CASE t \in wants
    BY <1>1, <1>2, <1>14, <2>1
  <2>2. CASE t \notin wants
    <3>1. d <= d
        BY <1>2, <1>5 DEF Ticks
    <3> QED BY <1>1, <1>2, <1>5, <2>2, <3>1
  <2> QED BY <2>1, <2>2
<1>17. PICK R : R = Q \cup {t}
    OBVIOUS
<1>18. CbTypeOK'
  <2>1. mem' \in MemType
    BY <1>15 DEF Holds
  <2>2. upd' \in [by : {"nobody", "task", "kernel"}, timer : Nodes]
    BY <1>5, <1>10, <1>15 DEF NoUpd, Nodes
  <2>3. wants' \subseteq Timers
    BY <1>1, <1>5 DEF Facts, CbTypeOK
  <2>4. crossed' \in BOOLEAN
    BY <1>1
  <2> QED BY <1>1, <1>12, <1>15, <1>16, <2>1, <2>2, <2>3, <2>4 DEF Facts, CbTypeOK, MemType
<1>19. Places(R, D, S, {}, wants', due', asked', now)
  <2>1. \A x \in Q \cup D \cup S : due'[x] = due[x] /\ asked'[x] = asked[x]
    BY <1>2, <1>9, <1>15, <1>16
  <2>2. /\ {} \cap (R \cup D \cup S) = {}
        /\ wants' = R \cup D \cup S \cup {}
    BY <1>1, <1>8, <1>13, <1>17 DEF Places
  <2>3. (R \cup D) \cap S = {}
    BY <1>8, <1>9, <1>17 DEF Places
  <2>4. \A x \in R \cup S : due'[x] # 0 /\ asked'[x] <= due'[x]
    BY <1>5, <1>8, <1>15, <1>16, <1>17, <2>1 DEF Places
  <2>5. \A x \in D : due'[x] # 0 /\ asked'[x] <= now
    BY <1>1, <1>8, <2>1 DEF Places
  <2> QED BY <2>2, <2>3, <2>4, <2>5 DEF Places
<1>20. HandInv'
  <2>1. kpc' \notin {"walk", "move", "calls", "add"}
    BY <1>1, <1>11
  <2>2. now' + tick' <= MaxTick
    BY <1>1 DEF Facts, HandInv
  <2>3. upd' # NoUpd => /\ upd'.by # "nobody" /\ upd'.timer \in Timers
                        /\ upd'.timer = mem'.head["timq"]
    BY <1>5, <1>10, <1>15
  <2>4. \A x \in Callers : adding'[x] # NotAdding =>
            adding'[x].timer \in Timers /\ adding'[x].due # 0
    BY <1>12 DEF Facts, HandInv
  <2>5. ~AddsAgain'
    BY <1>12 DEF AddsAgain
  <2> QED BY <2>1, <2>2, <2>3, <2>4, <2>5 DEF HandInv
<1>21. HeadInv'
  <2>1. CASE upd' = NoUpd
    <3>1. mem'.head["timq"] = mem.head["timq"]
        BY <1>5, <1>15, <2>1, TimerAssumption DEF NoUpd
    <3>2. ASSUME mem.head["timq"] # Null
          PROVE  /\ due'[mem.head["timq"]] = due[mem.head["timq"]]
                 /\ kdue # NotTimed /\ kdue <= due[mem.head["timq"]]
      <4>1. mem.head["timq"] \in Q /\ mem.head["timq"] # t
        BY <1>2, <1>9, <3>2
      <4> QED BY <1>2, <1>7, <1>11, <1>15, <3>2, <4>1 DEF Facts, HeadInv
    <3> QED BY <1>1, <3>1, <3>2 DEF HeadInv
  <2>2. CASE upd' # NoUpd
    BY <2>2 DEF HeadInv
  <2> QED BY <2>1, <2>2
<1>22. DueIsWanted'
  <2> SUFFICES ASSUME NEW x \in Timers \ failed', due'[x] # 0 PROVE x \in wants'
    BY DEF DueIsWanted
  <2>1. CASE x = t
    BY <1>1, <2>1
  <2>2. CASE x # t
    <3>1. x \in Timers \ failed /\ due[x] # 0
        BY <1>1, <1>15, <2>2
    <3> QED BY <1>1, <3>1 DEF Facts, DueIsWanted
  <2> QED BY <2>1, <2>2
<1>23. SentOnce(kq') /\ Sent(kq') = S
    BY <1>1 DEF Facts
<1> QED BY <1>1, <1>13, <1>15, <1>17, <1>18, <1>19, <1>20, <1>21, <1>22, <1>23 DEF Facts

LEMMA KernelAddAgainKeeps ==
    ASSUME NEW Q, NEW D, NEW S, Facts(Q, D, S), KernelAddAgain
    PROVE  Facts(Q, D, S)'
<1>1. PICK k : /\ kpc = "add" /\ kpc' = "idle" /\ timer' = Null /\ tick' = 0
               /\ k = [timer |-> timer, due |-> now + tick]
               /\ adding' = IF due[timer] = 0 THEN [adding EXCEPT !["kernel"] = k]
                                              ELSE adding
               /\ UNCHANGED <<now, mem, due, kdue, kq, upd, wants, asked, failed,
                              crossed>>
    BY DEF KernelAddAgain, histVars
<1>2. /\ now \in Nat /\ MaxTick \in Nat /\ tick \in Nat
      /\ now <= MaxTick /\ now + tick <= MaxTick /\ Null \notin Timers
    BY TypesOfFacts
<1>3. timer \in Timers /\ tick # 0 /\ adding["kernel"] = NotAdding /\ upd = NoUpd
    BY <1>1 DEF Facts, HandInv
<1>4. now + tick \in Ticks /\ now + tick # 0
    BY <1>2, <1>3 DEF Ticks
<1>5. k \in [timer : Nodes, due : Ticks] /\ k # NotAdding
  <2>1. k.timer = timer /\ NotAdding.timer = Null
    BY <1>1 DEF NotAdding
  <2> QED BY <1>1, <1>2, <1>3, <1>4, <2>1 DEF Nodes
<1>6. adding \in [Callers -> [timer : Nodes, due : Ticks]]
    BY DEF Facts, CbTypeOK
<1>7. /\ adding' \in [Callers -> [timer : Nodes, due : Ticks]]
      /\ due[timer] = 0 => adding'["kernel"] = k
      /\ due[timer] # 0 => adding'["kernel"] = NotAdding
      /\ adding'["task"] = adding["task"]
    BY <1>1, <1>3, <1>5, <1>6 DEF Callers
<1>8. CbTypeOK'
  <2>1. tick' \in Ticks /\ timer' \in Nodes
    BY <1>1, <1>2 DEF Ticks, Nodes
  <2> QED BY <1>1, <1>7, <2>1 DEF Facts, CbTypeOK
<1>9. k.timer = timer /\ k.due = now + tick
    BY <1>1
<1>10. InHand' = InHand
  <2>1. CASE due[timer] = 0
    BY <1>1, <1>5, <1>7, <1>9, <2>1 DEF InHand, AddsAgain
  <2>2. CASE due[timer] # 0
    BY <1>1, <1>7, <2>2 DEF InHand, AddsAgain
  <2> QED BY <2>1, <2>2
<1>11. HandInv'
  <2>1. kpc' \notin {"walk", "move", "calls", "add"}
    BY <1>1
  <2>2. now' + tick' <= MaxTick
    BY <1>1, <1>2
  <2>3. \A x \in Callers : adding'[x] # NotAdding =>
            adding'[x].timer \in Timers /\ adding'[x].due # 0
    <3>1. adding["task"] # NotAdding =>
              adding["task"].timer \in Timers /\ adding["task"].due # 0
        BY DEF Facts, HandInv, Callers
    <3>2. adding'["kernel"] = k \/ adding'["kernel"] = NotAdding
        BY <1>7
    <3>3. \A x \in Callers : x = "task" \/ x = "kernel"
        BY DEF Callers
    <3> QED BY <1>3, <1>4, <1>7, <1>9, <3>1, <3>2, <3>3
  <2>4. AddsAgain' => /\ asked[adding'["kernel"].timer] <= adding'["kernel"].due
                      /\ due[adding'["kernel"].timer] = 0
    <3>1. due[timer] = 0 => asked[timer] <= now + tick
        BY <1>1 DEF Facts, HandInv
    <3> QED BY <1>7, <1>9, <3>1 DEF AddsAgain
  <2> QED BY <1>1, <1>3, <2>1, <2>2, <2>3, <2>4 DEF HandInv
<1>12. /\ DueIsWanted' /\ SentOnce(kq') /\ Sent(kq') = S /\ Holds(mem', due', Q, D)
    BY <1>1 DEF Facts, DueIsWanted
<1>13. HeadInv'
    BY <1>1, <1>3 DEF Facts, HeadInv
<1>14. Places(Q, D, S, InHand', wants', due', asked', now')
    BY <1>1, <1>10 DEF Facts
<1> QED BY <1>8, <1>11, <1>12, <1>13, <1>14 DEF Facts

LEMMA UpdateKeeps ==
    ASSUME NEW Q, NEW D, NEW S, Facts(Q, D, S), Update
    PROVE  Facts(Q, D, S)'
<1>1. /\ upd.by # "nobody" /\ kdue' = due[upd.timer] /\ upd' = NoUpd
      /\ UNCHANGED <<now, mem, due, kq, kpc, timer, tick, adding, wants, asked, failed,
                     crossed>>
    BY DEF Update, histVars
<1>2. /\ due \in [Timers -> Ticks] /\ due \in [Timers -> Nat] /\ Q \subseteq Timers
      /\ mem.head["timq"] \in Q \/ mem.head["timq"] = Null
    BY TypesOfFacts
<1>3. /\ upd # NoUpd /\ upd.timer \in Timers
      /\ due[upd.timer] = 0 \/ upd.timer = mem.head["timq"]
    BY <1>1 DEF Facts, HandInv, NoUpd, AddsAgain
<1>4. kdue' \in Ticks /\ kdue' \in Nat /\ kdue' # NotTimed
    BY <1>1, <1>2, <1>3 DEF NotTimed
<1>5. CbTypeOK'
  <2>1. NoUpd \in [by : {"nobody", "task", "kernel"}, timer : Nodes]
    BY DEF NoUpd, Nodes
  <2> QED BY <1>1, <1>4, <2>1 DEF Facts, CbTypeOK
<1>6. InHand' = InHand
    BY <1>1 DEF InHand, AddsAgain
<1>7. HandInv'
    BY <1>1 DEF Facts, HandInv, AddsAgain
<1>8. HeadInv'
  <2>1. ASSUME mem.head["timq"] # Null
        PROVE  kdue' <= due[mem.head["timq"]]
    <3>1. due[mem.head["timq"]] \in Nat
        BY <1>2, <2>1
    <3>2. CASE due[upd.timer] = 0
        BY <1>1, <3>1, <3>2
    <3>3. CASE upd.timer = mem.head["timq"]
        BY <1>1, <3>1, <3>3
    <3> QED BY <1>3, <3>2, <3>3
  <2> QED BY <1>1, <1>4, <2>1 DEF HeadInv
<1>9. DueIsWanted' /\ SentOnce(kq') /\ Sent(kq') = S /\ Holds(mem', due', Q, D)
    BY <1>1 DEF Facts, DueIsWanted
<1>10. Places(Q, D, S, InHand', wants', due', asked', now')
    BY <1>1, <1>6 DEF Facts
<1> QED BY <1>5, <1>7, <1>8, <1>9, <1>10 DEF Facts

LEMMA UnchangedKeeps ==
    ASSUME NEW Q, NEW D, NEW S, Facts(Q, D, S), UNCHANGED cbVars
    PROVE  Facts(Q, D, S)'
<1>1. /\ now' = now /\ mem' = mem /\ due' = due /\ kdue' = kdue /\ kq' = kq
      /\ kpc' = kpc /\ timer' = timer /\ tick' = tick /\ upd' = upd
      /\ wants' = wants /\ asked' = asked /\ failed' = failed /\ adding' = adding
      /\ crossed' = crossed
    BY DEF cbVars
<1>2. CbTypeOK' /\ InHand' = InHand /\ HandInv' /\ HeadInv' /\ DueIsWanted'
    BY <1>1 DEF Facts, CbTypeOK, InHand, HandInv, HeadInv, DueIsWanted, AddsAgain
<1> QED BY <1>1, <1>2 DEF Facts

\* vsf_callback_timer_remove of a timer that is not added touches no other.
LEMMA RemoveOfNoneKeeps ==
    ASSUME NEW Q, NEW D, NEW S, Facts(Q, D, S), NEW t \in Timers,
           due[t] = 0, t \notin wants, TimerRemove(t)
    PROVE  Facts(Q, D, S)'
<1>1. /\ asked' = [asked EXCEPT ![t] = 0]
      /\ due' = [due EXCEPT ![t] = 0] /\ wants' = wants \ {t}
      /\ crossed' = (crossed \/ CrossedRemove(t))
      /\ UNCHANGED <<now, mem, kdue, kq, kpc, timer, tick, adding, upd, failed>>
    BY DEF TimerRemove, kernelVars
<1>2. /\ due \in [Timers -> Ticks] /\ asked \in [Timers -> Ticks] /\ MaxTick \in Nat
      /\ InHand \subseteq Timers
    BY TypesOfFacts
<1>3. due' = due /\ wants' = wants
    BY <1>1, <1>2
<1>4. /\ asked' \in [Timers -> Ticks]
      /\ \A x \in Timers \ {t} : asked'[x] = asked[x]
    BY <1>1, <1>2 DEF Ticks
<1>5. CbTypeOK'
  <2>1. crossed' \in BOOLEAN
    BY <1>1
  <2> QED BY <1>1, <1>3, <1>4, <2>1 DEF Facts, CbTypeOK
<1>6. InHand' = InHand
    BY <1>1, <1>3 DEF InHand, AddsAgain
<1>7. Places(Q, D, S, InHand, wants, due, asked, now)
    BY DEF Facts
<1>8. \A x \in Q \cup D \cup S \cup InHand : asked'[x] = asked[x]
  <2>1. wants \subseteq Timers
    BY DEF Facts, CbTypeOK
  <2> QED BY <1>4, <1>7, <2>1 DEF Places
<1>9. Places(Q, D, S, InHand', wants', due', asked', now')
    BY <1>1, <1>3, <1>6, <1>7, <1>8 DEF Places
<1>10. HandInv'
  <2>1. kpc = "move" => asked'[timer] = asked[timer]
    BY <1>8 DEF InHand
  <2>2. kpc = "add" /\ due[timer] = 0 => asked'[timer] = asked[timer]
    BY <1>8 DEF InHand
  <2>3. AddsAgain /\ due[adding["kernel"].timer] = 0 =>
            asked'[adding["kernel"].timer] = asked[adding["kernel"].timer]
    BY <1>8 DEF InHand, AddsAgain
  <2> QED BY <1>1, <1>3, <2>1, <2>2, <2>3 DEF Facts, HandInv, AddsAgain
<1>11. /\ HeadInv' /\ DueIsWanted' /\ SentOnce(kq') /\ Sent(kq') = S
       /\ Holds(mem', due', Q, D)
    BY <1>1, <1>3 DEF Facts, HeadInv, DueIsWanted
<1> QED BY <1>5, <1>9, <1>10, <1>11 DEF Facts

\* vsf_callback_timer_remove of a timer that is in callback_timq
LEMMA RemoveOfQueuedKeeps ==
    ASSUME NEW Q, NEW D, NEW S, Facts(Q, D, S), NEW t \in Q, TimerRemove(t)
    PROVE  \E R : Facts(R, D, S)'
<1>1. /\ mem' = IF due[t] # 0 THEN RemoveNode(mem, "timq", t) ELSE mem
      /\ due' = [due EXCEPT ![t] = 0] /\ wants' = wants \ {t}
      /\ asked' = [asked EXCEPT ![t] = 0]
      /\ crossed' = (crossed \/ CrossedRemove(t))
      /\ UNCHANGED <<now, kdue, kq, kpc, timer, tick, adding, upd, failed>>
    BY DEF TimerRemove, kernelVars
<1>2. /\ due \in [Timers -> Ticks] /\ due \in [Timers -> Nat] /\ MaxTick \in Nat
      /\ asked \in [Timers -> Ticks]
      /\ Q \subseteq Timers /\ D \subseteq Timers /\ S \subseteq Timers
      /\ InHand \subseteq Timers
      /\ mem.head["timq"] \in Q \/ (mem.head["timq"] = Null /\ Q = {})
      /\ \A n \in Q : due[mem.head["timq"]] <= due[n]
      /\ Null \notin Timers
    BY TypesOfFacts
<1>3. Places(Q, D, S, InHand, wants, due, asked, now)
    BY DEF Facts
<1>4. due[t] # 0 /\ t \notin S /\ t \notin InHand /\ t \notin D
    BY <1>3 DEF Places, Facts, Holds
<1>5. /\ due' \in [Timers -> Ticks] /\ due' \in [Timers -> Nat]
      /\ due'[t] = 0 /\ \A x \in Timers \ {t} : due'[x] = due[x]
      /\ asked' \in [Timers -> Ticks] /\ \A x \in Timers \ {t} : asked'[x] = asked[x]
    BY <1>1, <1>2 DEF Ticks
<1>6. PICK m, d, e, R : m = mem /\ d = due /\ e = due' /\ R = Q \ {t}
    OBVIOUS
<1>7. /\ Holds(mem', due', R, D)
      /\ mem.head["timq"] # t => mem'.head["timq"] = mem.head["timq"]
  <2>1. Holds(m, d, Q, D)
    BY <1>6 DEF Facts
  <2>2. PICK r : r = RemoveNode(m, "timq", t)
    OBVIOUS
  <2>3. /\ Holds(RemoveNode(m, "timq", t), d, Q \ {t}, D)
        /\ m.head["timq"] # t => RemoveNode(m, "timq", t).head["timq"] = m.head["timq"]
    BY <2>1, HoldsRemove
  <2>4. Holds(r, d, R, D)
    BY <1>6, <2>2, <2>3
  <2>5. e \in [Timers -> Nat] /\ \A x \in R : e[x] = d[x]
    BY <1>2, <1>5, <1>6
  <2>6. Holds(r, e, R, D)
    BY <2>4, <2>5, HoldsDue
  <2> QED BY <1>1, <1>4, <1>6, <2>2, <2>3, <2>6
<1>8. CbTypeOK'
  <2>1. mem' \in MemType
    BY <1>7 DEF Holds
  <2>2. crossed' \in BOOLEAN
    BY <1>1
  <2> QED BY <1>1, <1>5, <2>1, <2>2 DEF Facts, CbTypeOK, MemType
<1>9. /\ kpc \in {"move", "add"} => timer # t
      /\ AddsAgain => adding["kernel"].timer # t
  <2>1. kpc = "move" => timer # t
    BY <1>4 DEF InHand
  <2>2. kpc = "add" => timer # t
    BY <1>4 DEF InHand, Facts, HandInv
  <2>3. AddsAgain => adding["kernel"].timer # t
    BY <1>4 DEF InHand, AddsAgain, Facts, HandInv
  <2> QED BY <2>1, <2>2, <2>3
<1>10. /\ kpc \in {"move", "add"} =>
             due'[timer] = due[timer] /\ asked'[timer] = asked[timer]
       /\ AddsAgain => LET k == adding["kernel"].timer IN
             due'[k] = due[k] /\ asked'[k] = asked[k]
  <2>1. /\ kpc = "add" => timer \in Timers
        /\ kpc = "move" => timer \in Timers
        /\ AddsAgain => adding["kernel"].timer \in Timers
    <3>1. kpc = "move" => timer \in Timers
        BY <1>2 DEF InHand
    <3>2. kpc = "add" => timer \in Timers
        BY DEF Facts, HandInv
    <3>3. AddsAgain => adding["kernel"].timer \in Timers
        BY DEF Facts, HandInv, AddsAgain, Callers
    <3> QED BY <3>1, <3>2, <3>3
  <2> QED BY <1>5, <1>9, <2>1
<1>11. InHand' = InHand
    BY <1>1, <1>10 DEF InHand, AddsAgain
<1>12. Places(R, D, S, InHand, wants', due', asked', now)
  <2>1. \A x \in R \cup D \cup S : due'[x] = due[x] /\ asked'[x] = asked[x]
    BY <1>2, <1>4, <1>5, <1>6
  <2> QED BY <1>1, <1>3, <1>4, <1>6, <2>1 DEF Places
<1>13. HandInv'
  <2>1. upd # NoUpd => /\ upd.by # "nobody" /\ upd.timer \in Timers
                       /\ due'[upd.timer] = 0 \/ upd.timer = mem'.head["timq"]
    BY <1>5, <1>7 DEF Facts, HandInv
  <2> QED BY <1>1, <1>10, <2>1 DEF Facts, HandInv, AddsAgain
<1>14. HeadInv'
  <2>1. SUFFICES ASSUME mem'.head["timq"] # Null,
                        kpc \notin {"walk", "move"}, upd = NoUpd
                 PROVE  kdue # NotTimed /\ kdue <= due'[mem'.head["timq"]]
    BY <1>1 DEF HeadInv
  <2>2. PICK h, g : h = mem'.head["timq"] /\ g = mem.head["timq"]
    OBVIOUS
  <2>3. h \in R
    <3>1. PICK r : r = mem'
        OBVIOUS
    <3>2. Holds(r, e, R, D)
        BY <1>6, <1>7, <3>1
    <3>3. r.head["timq"] \in R \/ (r.head["timq"] = Null /\ R = {})
        BY <3>2, HoldsHeads
    <3> QED BY <2>1, <2>2, <3>1, <3>3
  <2>4. h \in Q /\ due'[h] = due[h] /\ g \in Q /\ g # Null /\ due[g] <= due[h]
    BY <1>2, <1>5, <1>6, <2>2, <2>3
  <2>5. kdue # NotTimed /\ kdue <= due[g]
    BY <2>1, <2>2, <2>4 DEF Facts, HeadInv
  <2>6. due[g] \in Nat /\ due[h] \in Nat /\ kdue \in Int
    <3>1. kdue \in Ticks \cup {NotTimed}
        BY DEF Facts, CbTypeOK
    <3> QED BY <1>2, <2>4, <3>1 DEF Ticks, NotTimed
  <2> QED BY <2>2, <2>4, <2>5, <2>6
<1>15. DueIsWanted'
  <2> SUFFICES ASSUME NEW x \in Timers \ failed, due'[x] # 0 PROVE x \in wants'
    BY <1>1 DEF DueIsWanted
  <2>1. x # t /\ due[x] # 0
    BY <1>5
  <2> QED BY <1>1, <2>1 DEF Facts, DueIsWanted
<1>16. SentOnce(kq') /\ Sent(kq') = S
    BY <1>1 DEF Facts
<1> QED BY <1>1, <1>6, <1>7, <1>8, <1>11, <1>12, <1>13, <1>14, <1>15, <1>16 DEF Facts

\* Any other removal crosses a call.
LEMMA TimerRemoveKeeps ==
    ASSUME NEW Q, NEW D, NEW S, Facts(Q, D, S), Q = InTimq,
           NEW t \in Timers, TimerRemove(t), ~crossed'
    PROVE  \E R : Facts(R, D, S)'
<1>1. t \in Q \/ (due[t] = 0 /\ t \notin wants)
    BY DEF TimerRemove, CrossedRemove, InTimq
<1> QED BY <1>1, RemoveOfNoneKeeps, RemoveOfQueuedKeeps

LEMMA IsrAddKeeps ==
    ASSUME NEW Q, NEW D, NEW S, Facts(Q, D, S), ~crossed',
           NEW t \in IsrTimers, NEW delay \in Delays, IsrAdd(t, delay)
    PROVE  \E T : Facts(Q, D, T)'
<1>1. /\ due[t] = 0 /\ now + delay <= MaxTick
      /\ due' = [due EXCEPT ![t] = now + delay]
      /\ crossed' = (crossed \/ CrossedIsrAdd(t))
      /\ UNCHANGED <<now, mem, kdue, kpc, timer, tick, adding, upd>>
    BY DEF IsrAdd
<1>2. \/ /\ kq' = Append(kq, [evt |-> "ADD", timer |-> t])
         /\ wants' = wants \cup {t} /\ failed' = failed
         /\ asked' = [asked EXCEPT ![t] = now + delay]
      \/ /\ kq' = kq /\ wants' = wants /\ asked' = asked /\ t \notin wants
         /\ failed' = failed \cup {t}
  <2>1. CASE Len(kq) < MaxMsgs
    BY <2>1 DEF IsrAdd
  <2>2. CASE ~(Len(kq) < MaxMsgs)
    <3>1. Len(kq) \in Nat /\ MaxMsgs \in Nat
        BY TypesOfFacts, BoundAssumption
    <3>2. Len(kq) >= MaxMsgs
        BY <2>2, <3>1
    <3> QED BY <1>1, <2>2, <3>2 DEF IsrAdd, CrossedIsrAdd
  <2> QED BY <2>1, <2>2
<1>u. upd.timer # t
    BY <1>1 DEF CrossedIsrAdd
<1>3. /\ now \in Nat /\ MaxTick \in Nat /\ asked \in [Timers -> Ticks]
      /\ asked \in [Timers -> Nat] /\ due \in [Timers -> Nat] /\ due \in [Timers -> Ticks]
      /\ Q \subseteq Timers /\ D \subseteq Timers /\ S \subseteq Timers
      /\ InHand \subseteq Timers /\ kq \in Seq(Msg) /\ t \in Timers
      /\ mem.head["timq"] \in Q \/ mem.head["timq"] = Null
    BY TypesOfFacts, BoundAssumption
<1>4. PICK d \in Ticks : d = now + delay /\ d # 0
  <2>1. delay \in Nat /\ delay # 0
    BY BoundAssumption
  <2> QED BY <1>1, <1>3, <2>1 DEF Ticks
<1>5. Places(Q, D, S, InHand, wants, due, asked, now)
    BY DEF Facts
<1>6. t \notin Q /\ t \notin D /\ t \notin S
    BY <1>1, <1>5 DEF Places
<1>7. /\ due' \in [Timers -> Ticks] /\ due' \in [Timers -> Nat]
      /\ due'[t] = d /\ \A x \in Timers \ {t} : due'[x] = due[x]
  <2>1. d \in Nat
    BY <1>3 DEF Ticks
  <2> QED BY <1>1, <1>3, <1>4, <2>1
<1>8. /\ asked' \in [Timers -> Ticks]
      /\ \A x \in Timers \ {t} : asked'[x] = asked[x]
    BY <1>2, <1>3, <1>4
<1>9. PICK m, c, e, k, x : /\ m = mem /\ c = due /\ e = due' /\ k = kq
                           /\ x = [evt |-> "ADD", timer |-> t]
    OBVIOUS
<1>10. Holds(mem', due', Q, D)
  <2>1. Holds(m, c, Q, D)
    BY <1>9 DEF Facts
  <2>2. e \in [Timers -> Nat] /\ \A n \in Q : e[n] = c[n]
    BY <1>3, <1>6, <1>7, <1>9
  <2>3. Holds(m, e, Q, D)
    BY <2>1, <2>2, HoldsDue
  <2> QED BY <1>1, <1>9, <2>3
<1>11. PICK T : /\ kq' \in Seq(Msg) /\ SentOnce(kq') /\ Sent(kq') = T
                /\ \/ /\ T = S \cup {t} /\ wants' = wants \cup {t} /\ failed' = failed
                      /\ asked'[t] = d
                   \/ /\ T = S /\ wants' = wants /\ failed' = failed \cup {t}
                      /\ t \notin wants
  <2>1. x \in Msg /\ x.evt = "ADD" /\ x.timer = t
    BY <1>3, <1>9 DEF Msg, Nodes
  <2>2. k \in Seq(Msg) /\ SentOnce(k) /\ Sent(k) = S
    BY <1>3, <1>9 DEF Facts
  <2>3. /\ Append(k, x) \in Seq(Msg) /\ SentOnce(Append(k, x))
        /\ Sent(Append(k, x)) = S \cup {t}
    BY <1>6, <2>1, <2>2, SentAppend
  <2>4. CASE kq' = Append(k, x) /\ wants' = wants \cup {t} /\ failed' = failed
             /\ asked' = [asked EXCEPT ![t] = now + delay]
    <3>1. asked'[t] = d
        BY <1>3, <1>4, <2>4
    <3> QED BY <2>3, <2>4, <3>1
  <2>5. CASE kq' = kq /\ wants' = wants /\ failed' = failed \cup {t} /\ t \notin wants
    BY <1>9, <2>2, <2>5
  <2> QED BY <1>2, <1>9, <2>4, <2>5
<1>12. CbTypeOK'
  <2>1. wants' \subseteq Timers /\ failed' \subseteq Timers
    BY <1>2, <1>3 DEF Facts, CbTypeOK
  <2>2. crossed' \in BOOLEAN
    BY <1>1
  <2> QED BY <1>1, <1>7, <1>8, <1>11, <2>1, <2>2 DEF Facts, CbTypeOK, Msg
<1>13. InHand' = InHand \ {t}
  <2>1. /\ kpc = "move" => timer \in Timers /\ timer # t
        /\ kpc = "add" => timer \in Timers
        /\ AddsAgain => adding["kernel"].timer \in Timers
    <3>1. kpc = "move" => timer \in Timers /\ timer # t
        BY <1>1, <1>3 DEF InHand, Facts, HandInv
    <3>2. kpc = "add" => timer \in Timers
        BY DEF Facts, HandInv
    <3>3. AddsAgain => adding["kernel"].timer \in Timers
        BY DEF Facts, HandInv, AddsAgain, Callers
    <3> QED BY <3>1, <3>2, <3>3
  <2>2. CASE kpc = "move"
    BY <1>1, <2>1, <2>2 DEF InHand
  <2>3. CASE kpc = "add"
    <3>1. CASE timer = t
        BY <1>1, <1>4, <1>7, <2>3, <3>1 DEF InHand, AddsAgain
    <3>2. CASE timer # t
        BY <1>1, <1>7, <2>1, <2>3, <3>2 DEF InHand, AddsAgain
    <3> QED BY <3>1, <3>2
  <2>4. CASE AddsAgain
    <3>1. CASE adding["kernel"].timer = t
        BY <1>1, <1>4, <1>7, <2>4, <3>1 DEF InHand, AddsAgain
    <3>2. CASE adding["kernel"].timer # t
        BY <1>1, <1>7, <2>1, <2>4, <3>2 DEF InHand, AddsAgain
    <3> QED BY <3>1, <3>2
  <2>5. CASE kpc \notin {"move", "add"} /\ ~AddsAgain
    BY <1>1, <2>5 DEF InHand, AddsAgain
  <2> QED BY <2>2, <2>3, <2>4, <2>5
<1>14. Places(Q, D, T, InHand', wants', due', asked', now')
  <2>1. d <= d /\ d # 0
    BY <1>3, <1>4 DEF Ticks
  <2>2. \A n \in Q \cup D \cup S : due'[n] = due[n] /\ asked'[n] = asked[n]
    BY <1>3, <1>6, <1>7, <1>8
  <2>3. CASE T = S /\ wants' = wants /\ t \notin wants
    <3>1. InHand' = InHand
        BY <1>5, <1>13, <2>3 DEF Places
    <3> QED BY <1>1, <1>5, <2>2, <2>3, <3>1 DEF Places
  <2>4. CASE T = S \cup {t} /\ wants' = wants \cup {t} /\ asked'[t] = d
    BY <1>1, <1>5, <1>6, <1>7, <1>13, <2>1, <2>2, <2>4 DEF Places
  <2> QED BY <1>11, <2>3, <2>4
<1>15. HandInv'
  <2>1. upd # NoUpd => /\ upd.by # "nobody" /\ upd.timer \in Timers
                       /\ due'[upd.timer] = 0 \/ upd.timer = mem.head["timq"]
    BY <1>u, <1>7 DEF Facts, HandInv
  <2>2. kpc = "move" => due'[timer] # 0 /\ asked'[timer] <= now
    <3>1. kpc = "move" => timer \in Timers \ {t} /\ due[timer] # 0 /\ asked[timer] <= now
        BY <1>1, <1>3 DEF InHand, Facts, HandInv
    <3> QED BY <1>7, <1>8, <3>1
  <2>3. kpc = "add" => /\ timer \in Timers /\ tick # 0
                       /\ due'[timer] = 0 => asked'[timer] <= now + tick
                       /\ due'[timer] # 0 => timer \in T
    <3> SUFFICES ASSUME kpc = "add"
                 PROVE  /\ timer \in Timers /\ tick # 0
                        /\ due'[timer] = 0 => asked'[timer] <= now + tick
                        /\ due'[timer] # 0 => timer \in T
        OBVIOUS
    <3>1. /\ timer \in Timers /\ tick # 0
          /\ due[timer] = 0 => asked[timer] <= now + tick
          /\ due[timer] # 0 => timer \in S
        BY DEF Facts, HandInv
    <3>2. CASE timer = t
      <4>1. t \in wants
        BY <1>1, <1>5, <3>2 DEF InHand, Places
      <4> QED BY <1>4, <1>7, <1>11, <3>1, <3>2, <4>1
    <3>3. CASE timer # t
        BY <1>7, <1>8, <1>11, <3>1, <3>3
    <3> QED BY <3>2, <3>3
  <2>4. AddsAgain => LET y == adding["kernel"].timer IN
                     /\ due'[y] = 0 => asked'[y] <= adding["kernel"].due
                     /\ due'[y] # 0 => y \in T
    <3> SUFFICES ASSUME AddsAgain, NEW y, y = adding["kernel"].timer
                 PROVE  /\ due'[y] = 0 => asked'[y] <= adding["kernel"].due
                        /\ due'[y] # 0 => y \in T
        OBVIOUS
    <3>1. /\ y \in Timers
          /\ due[y] = 0 => asked[y] <= adding["kernel"].due
          /\ due[y] # 0 => y \in S
        BY DEF Facts, HandInv, AddsAgain, Callers
    <3>2. CASE y = t
      <4>1. t \in wants
        BY <1>1, <1>5, <3>2 DEF InHand, AddsAgain, Places
      <4> QED BY <1>4, <1>7, <1>11, <3>1, <3>2, <4>1
    <3>3. CASE y # t
        BY <1>7, <1>8, <1>11, <3>1, <3>3
    <3> QED BY <3>2, <3>3
  <2> QED BY <1>1, <1>11, <2>1, <2>2, <2>3, <2>4 DEF Facts, HandInv, AddsAgain
<1>16. HeadInv'
  <2>1. mem.head["timq"] # Null => due'[mem.head["timq"]] = due[mem.head["timq"]]
    BY <1>3, <1>6, <1>7
  <2> QED BY <1>1, <2>1 DEF Facts, HeadInv
<1>17. DueIsWanted'
  <2> SUFFICES ASSUME NEW n \in Timers \ failed', due'[n] # 0 PROVE n \in wants'
    BY DEF DueIsWanted
  <2>1. CASE n = t
    BY <1>2, <2>1
  <2>2. CASE n # t
    <3>1. n \in Timers \ failed /\ due[n] # 0
        BY <1>2, <1>7, <2>2
    <3> QED BY <1>2, <3>1 DEF Facts, DueIsWanted
  <2> QED BY <2>1, <2>2
<1> QED BY <1>1, <1>10, <1>11, <1>12, <1>14, <1>15, <1>16, <1>17 DEF Facts

LEMMA CbInitInv ==
    ASSUME CbInit
    PROVE  CbInv
<1>1. /\ now = 1 /\ due = [t \in Timers |-> 0] /\ asked = [t \in Timers |-> 0]
      /\ mem = [next |-> [t \in Timers |-> Null], prev |-> [t \in Timers |-> Null],
                head |-> [l \in Lists |-> Null], tail |-> [l \in Lists |-> Null]]
      /\ kdue = NotTimed /\ kq = <<>> /\ kpc = "idle" /\ timer = Null /\ tick = 0
      /\ upd = NoUpd /\ wants = {} /\ failed = {} /\ crossed = FALSE
      /\ adding = [c \in Callers |-> NotAdding]
    BY DEF CbInit
<1>2. 0 \in Ticks /\ 1 \in Ticks /\ 1 + 0 <= MaxTick
    BY BoundAssumption DEF Ticks
<1>3. mem \in MemType /\ mem.head = [l \in Lists |-> Null] /\ mem.tail = [l \in Lists |-> Null]
    BY <1>1 DEF MemType, Nodes
<1>a. adding \in [Callers -> [timer : Nodes, due : Ticks]]
    BY <1>1, <1>2 DEF NotAdding, Nodes
<1>4. CbTypeOK
  <2>1. /\ now \in Ticks /\ tick \in Ticks /\ kdue \in Ticks \cup {NotTimed}
        /\ due \in [Timers -> Ticks] /\ asked \in [Timers -> Ticks]
    BY <1>1, <1>2
  <2>2. /\ kq \in Seq([evt : {"CALLBACK", "ADD"}, timer : Nodes])
        /\ timer \in Nodes /\ upd \in [by : {"nobody", "task", "kernel"}, timer : Nodes]
    BY <1>1 DEF Nodes, NoUpd
  <2>3. /\ kpc \in {"idle", "walk", "move", "calls", "on_timer", "on_timer_add", "add"}
        /\ wants \subseteq Timers /\ failed \subseteq Timers /\ crossed \in BOOLEAN
    BY <1>1
  <2> QED BY <1>3, <1>a, <2>1, <2>2, <2>3 DEF CbTypeOK, MemType
<1>5. PICK m, d : m = mem /\ d = due
    OBVIOUS
<1>6. Holds(m, d, {}, {})
  <2>1. PICK s : s = <<>>
    OBVIOUS
  <2>2. s \in Seq(Timers) /\ Len(s) = 0 /\ NoTwice(s) /\ ToSet(s) = {} /\ 1 .. Len(s) = {}
    BY <2>1 DEF NoTwice, ToSet
  <2>3. Linked(m, "timq", s) /\ Linked(m, "done", s) /\ Sorted(s, d)
    BY <1>3, <1>5, <2>2 DEF Linked, Sorted, Lists
  <2>4. d \in [Timers -> Nat]
    BY <1>1, <1>5
  <2>5. m \in MemType
    BY <1>3, <1>5
  <2> QED BY <2>2, <2>3, <2>4, <2>5 DEF Holds
<1>7. InTimq = {} /\ InDone = {}
  <2>1. InList(m, "timq") = {} /\ InList(m, "done") = {}
    BY <1>6, HoldsLists
  <2> QED BY <1>5, <2>1 DEF InTimq, InDone
<1>8. SentOnce(kq) /\ Sent(kq) = {}
  <2>1. PICK k : k = kq
    OBVIOUS
  <2>2. k = <<>> /\ Len(k) = 0 /\ 1 .. Len(k) = {}
    BY <1>1, <2>1
  <2>3. SentOnce(k) /\ Sent(k) = {}
    BY <2>2 DEF SentOnce, Sent
  <2> QED BY <2>1, <2>3
<1>9. InHand = {}
    BY <1>1 DEF InHand, AddsAgain, Callers
<1>10. Places({}, {}, {}, {}, wants, due, asked, now)
    BY <1>1 DEF Places
<1>11. HandInv
    BY <1>1, <1>2 DEF HandInv, AddsAgain, Callers
<1>12. HeadInv
    BY <1>1, <1>3 DEF HeadInv, Lists
<1>13. DueIsWanted
    BY <1>1 DEF DueIsWanted
<1> QED BY <1>4, <1>5, <1>6, <1>7, <1>8, <1>9, <1>10, <1>11, <1>12, <1>13 DEF CbInv, KeptInv

LEMMA CbNextInv ==
    ASSUME CbInv, [CbNext]_cbVars
    PROVE  CbInv'
<1>a. SUFFICES ASSUME ~crossed' PROVE KeptInv'
    BY DEF CbInv
<1>b. ~crossed
  <2>1. CASE crossed
    <3>1. Rest \/ UNCHANGED cbVars
        BY <2>1 DEF CbNext
    <3>2. UNCHANGED cbVars
        BY <3>1 DEF Rest
    <3>3. crossed' = crossed
        BY <3>2 DEF cbVars
    <3> QED BY <1>a, <2>1, <3>3
  <2> QED BY <2>1
<1>1. PICK Q, D, S : Facts(Q, D, S) /\ Q = InTimq
    BY <1>b, FactsFromInv DEF CbInv
<1>2. SUFFICES \E R, E, T : Facts(R, E, T)'
    BY InvFromFacts
<1>3. CASE Tick
    BY <1>1, <1>3, TickKeeps
<1>4. ASSUME NEW t \in Timers, TimerRemove(t)
      PROVE  \E R, E, T : Facts(R, E, T)'
    BY <1>1, <1>4, <1>a, TimerRemoveKeeps
<1>5. ASSUME NEW t \in Timers, NEW delay \in Delays, NEW c \in Callers,
             c = "task" \/ kpc \in {"on_timer", "on_timer_add"}, Add(c, t, delay)
      PROVE  \E R, E, T : Facts(R, E, T)'
    BY <1>1, <1>5, AddKeeps
<1>c. "task" \in Callers /\ "kernel" \in Callers /\ "kernel" # "task"
    BY DEF Callers
<1>6. CASE Task
  <2>1. TaskMay /\ \E t \in Timers : TimerRemove(t) \/ \E d \in Delays : Add("task", t, d)
    BY <1>6 DEF Task
  <2>2. CASE \E t \in Timers : TimerRemove(t)
    BY <1>4, <2>2
  <2>3. CASE \E t \in Timers : \E d \in Delays : Add("task", t, d)
    BY <1>5, <1>c, <2>3
  <2> QED BY <2>1, <2>2, <2>3
<1>d. CASE TaskAdds
    BY <1>1, <1>a, <1>c, <1>d, AddSectionKeeps DEF TaskAdds
<1>7. CASE Isr
  <2>1. CASE \E t \in Timers : TimerRemove(t)
    BY <1>4, <2>1
  <2>2. CASE \E t \in IsrTimers : \E d \in Delays : IsrAdd(t, d)
    BY <1>1, <1>a, <2>2, IsrAddKeeps
  <2> QED BY <1>7, <2>1, <2>2 DEF Isr
<1>8. CASE Callback
  <2>1. CASE \E t \in Timers : OnTimerRemove(t)
    BY <1>4, <2>1 DEF OnTimerRemove
  <2>2. CASE \E t \in Timers : \E d \in Delays : OnTimerAdd(t, d)
    BY <1>5, <1>c, <2>2 DEF OnTimerAdd, OnTimer
  <2> QED BY <1>8, <2>1, <2>2 DEF Callback
<1>9. CASE KernelStep
  <2>1. CASE KernelTimer
    BY <1>1, <2>1, KernelTimerKeeps
  <2>2. CASE KernelWalkExpired
    BY <1>1, <2>2, KernelWalkExpiredKeeps
  <2>3. CASE KernelMove
    BY <1>1, <2>3, KernelMoveKeeps
  <2>4. CASE KernelWalkEnd
    BY <1>1, <2>4, KernelWalkEndKeeps
  <2>5. CASE KernelCallbackEvent
    BY <1>1, <2>5, KernelCallbackEventKeeps
  <2>6. CASE KernelCall
    BY <1>1, <2>6, KernelCallKeeps
  <2>7. CASE KernelCallsEnd
    BY <1>1, <2>7, KernelCallsEndKeeps
  <2>8. CASE OnTimerReturn
    BY <1>1, <2>8, OnTimerReturnKeeps
  <2>9. CASE KernelAddExpired
    BY <1>1, <2>9, KernelAddExpiredKeeps
  <2>10. CASE KernelAdd
    BY <1>1, <2>10, KernelAddKeeps
  <2>11. CASE KernelAddAgain
    BY <1>1, <2>11, KernelAddAgainKeeps
  <2>12. CASE AddSection("kernel")
    BY <1>1, <1>a, <1>c, <2>12, AddSectionKeeps
  <2> QED BY <1>9, <2>1, <2>2, <2>3, <2>4, <2>5, <2>6, <2>7, <2>8, <2>9, <2>10, <2>11, <2>12
          DEF KernelStep
<1>10. CASE Update
    BY <1>1, <1>10, UpdateKeeps
<1>11. CASE UNCHANGED cbVars
    BY <1>1, <1>11, UnchangedKeeps
<1>12. CASE Rest
  <2>1. UNCHANGED cbVars
    BY <1>12 DEF Rest
  <2> QED BY <1>11, <2>1
<1> QED BY <1>3, <1>6, <1>7, <1>8, <1>9, <1>10, <1>11, <1>12, <1>d DEF CbNext

\* What CallbackTimersAreKept and CallbackFiresWhenWanted rest on: until two calls
\* cross, the pointers of vsf_dlist_t hold two disjoint sequences of timers, the
\* first of them sorted by due, and every timer is where its due says.
THEOREM CallbackTimerInvariant == CbSpec => []CbInv
<1>1. CbInit => CbInv
    BY CbInitInv
<1>2. CbInv /\ [CbNext]_cbVars => CbInv'
    BY CbNextInv
<1> QED BY <1>1, <1>2, PTL DEF CbSpec

LEMMA CbInvKeepsTimers ==
    ASSUME CbInv
    PROVE  TimersAreKept
<1>a. SUFFICES ASSUME KeptInv
               PROVE  /\ CbTypeOK
                      /\ ListsAreSound /\ WantedIsListed /\ DueIsWanted /\ HeadIsCovered
    BY DEF CbInv, TimersAreKept
<1>1. PICK Q, D, S : /\ Facts(Q, D, S)
                     /\ Q = InList(mem, "timq") /\ D = InList(mem, "done") /\ S = Sent(kq)
  <2>1. PICK Q, D, S : Q = InTimq /\ D = InDone /\ S = Sent(kq)
    OBVIOUS
  <2> QED BY <1>a, <2>1 DEF KeptInv, Facts, InTimq, InDone
<1>2. PICK m, d : m = mem /\ d = due
    OBVIOUS
<1>3. Holds(m, d, Q, D)
    BY <1>1, <1>2 DEF Facts
<1>4. SoundList(m, "timq") /\ SoundList(m, "done") /\ InOrder(m, d)
    BY <1>3, HoldsSound
<1>5. ListsAreSound
  <2>1. Q \cap D = {}
    BY <1>3 DEF Holds
  <2>2. \A l \in Lists : SoundList(mem, l)
    BY <1>2, <1>4 DEF Lists
  <2> QED BY <1>1, <2>1, <2>2 DEF ListsAreSound, SoundList
<1>6. WantedIsListed
  <2> SUFFICES ASSUME NEW t \in wants
               PROVE  \/ t \in Q \cup D
                      \/ kpc \in {"move", "add"} /\ timer = t
                      \/ adding["kernel"].timer = t
                      \/ Messages(t) # {}
    BY <1>1 DEF WantedIsListed
  <2>1. t \in Q \cup D \cup S \cup InHand
    BY <1>1 DEF Facts, Places
  <2>2. CASE t \in InHand
    BY <2>2 DEF InHand, AddsAgain
  <2>3. CASE t \in S
    <3>1. PICK k : k = kq /\ k \in Seq(Msg)
        BY <1>1, TypesOfFacts
    <3>2. PICK i \in 1 .. Len(k) : k[i].evt = "ADD" /\ k[i].timer = t
        BY <1>1, <2>3, <3>1 DEF Sent
    <3>3. i \in DOMAIN k /\ k[i] \in Msg
        BY <3>1
    <3>4. k[i] = [evt |-> "ADD", timer |-> t]
        BY <3>2, <3>3 DEF Msg
    <3>5. i \in Messages(t)
        BY <3>1, <3>3, <3>4 DEF Messages
    <3> QED BY <3>5
  <2> QED BY <2>1, <2>2, <2>3
<1>7. HeadIsCovered
  <2>1. upd # NoUpd => upd.by # "nobody"
    BY <1>1 DEF Facts, HandInv
  <2>2. \A n \in InList(mem, "timq") : mem.next[n] # Null => due[n] <= due[mem.next[n]]
    BY <1>2, <1>4 DEF InOrder
  <2>3. mem.head["timq"] # Null =>
          \/ kdue # NotTimed /\ kdue <= due[mem.head["timq"]]
          \/ kpc \in {"walk", "move"} \/ upd.by # "nobody"
    BY <1>1, <2>1 DEF Facts, HeadInv
  <2> QED BY <2>2, <2>3 DEF HeadIsCovered
<1> QED BY <1>1, <1>5, <1>6, <1>7 DEF Facts

\* For any number of timers, delays and ticks, with tasks, interrupts and
\* callbacks that add and remove any timer at any time: until a call crosses one
\* that the code does not see, both lists are sound on their pointers, no timer
\* that is wanted is lost, and the kernel task's own timer covers the first one.
THEOREM CallbackTimersAreKept == CbSpec => []TimersAreKept
BY CallbackTimerInvariant, CbInvKeepsTimers, PTL

LEMMA CbFiresStep ==
    ASSUME CbInv, [CbNext]_cbVars, ~crossed, kpc' \in {"on_timer", "on_timer_add"}, kpc # kpc'
    PROVE  timer' \in wants /\ asked[timer'] <= now
<1>1. PICK Q, D, S : Facts(Q, D, S) /\ Q = InTimq
    BY FactsFromInv DEF CbInv
<1>2. /\ mem.head["done"] \in D \/ mem.head["done"] = Null
      /\ due \in [Timers -> Nat] /\ asked \in [Timers -> Nat] /\ now \in Nat
      /\ S \subseteq Timers
    BY <1>1, TypesOfFacts
<1>3. Places(Q, D, S, InHand, wants, due, asked, now)
    BY <1>1 DEF Facts
<1>4. KernelCall \/ KernelAddExpired
  <2>1. kpc' # kpc /\ kpc' \in {"on_timer", "on_timer_add"}
    OBVIOUS
  <2>2. ~UNCHANGED cbVars
    BY <2>1 DEF cbVars
  <2>3. ~Tick /\ ~Update /\ ~Rest
    BY <2>1 DEF Tick, Update, Rest, kernelVars, cbVars
  <2>4. \A t \in Timers : ~TimerRemove(t)
    BY <2>1 DEF TimerRemove, kernelVars
  <2>5. /\ \A t \in Timers : \A d \in Delays : \A c \in Callers : ~Add(c, t, d)
        /\ \A c \in Callers : ~AddSection(c)
    BY <2>1 DEF Add, AddSection, kernelVars
  <2>c. "task" \in Callers /\ "kernel" \in Callers
    BY DEF Callers
  <2>6. \A t \in IsrTimers : \A d \in Delays : ~IsrAdd(t, d)
    BY <2>1 DEF IsrAdd
  <2>7. ~Task /\ ~TaskAdds /\ ~Isr /\ ~Callback
    BY <2>4, <2>5, <2>6, <2>c DEF Task, TaskAdds, Isr, Callback, OnTimerRemove, OnTimerAdd
  <2>8. KernelStep
    BY <2>2, <2>3, <2>7 DEF CbNext
  <2> QED BY <2>1, <2>5, <2>8, <2>c
          DEF KernelStep, KernelTimer, KernelWalkExpired, KernelMove, KernelWalkEnd,
              KernelCallbackEvent, KernelCallsEnd, OnTimerReturn, KernelAdd,
              KernelAddAgain
<1>5. CASE KernelCall
  <2>1. timer' = mem.head["done"] /\ timer' \in D
    BY <1>2, <1>5 DEF KernelCall
  <2> QED BY <1>3, <2>1 DEF Places
<1>6. CASE KernelAddExpired
  <2>1. PICK t : /\ Takes(t) /\ timer' = t /\ now >= due[t]
    BY <1>6 DEF KernelAddExpired, Takes
  <2>2. t \in S /\ t \in Timers /\ asked[t] <= due[t]
    BY <1>1, <2>1, AddTaken
  <2>3. t \in wants
    BY <1>3, <2>2 DEF Places
  <2>4. asked[t] \in Nat /\ due[t] \in Nat
    BY <1>2, <2>2
  <2> QED BY <1>2, <2>1, <2>2, <2>3, <2>4
<1> QED BY <1>4, <1>5, <1>6

\* Under the same conditions the kernel task calls on_timer only for a timer that
\* was added and neither removed nor called since, and never before its due.
THEOREM CallbackFiresWhenWanted == CbSpec => FiresWhenWanted
<1>1. CbInv /\ [CbNext]_cbVars =>
          [~crossed /\ kpc' \in {"on_timer", "on_timer_add"} /\ kpc # kpc' =>
              timer' \in wants /\ asked[timer'] <= now]_cbVars
    BY CbFiresStep
<1> QED BY <1>1, CallbackTimerInvariant, PTL DEF CbSpec, FiresWhenWanted
=============================================================================
