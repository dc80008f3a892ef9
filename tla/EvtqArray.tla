------------------------------ MODULE EvtqArray ------------------------------
(***************************************************************************)
(* The array event queue of the kernel, vsf_evtq_array.c: the event queue  *)
(* that is built when dynamic priority is disabled.  One queue serves one  *)
(* priority.  Its consumer is the software interrupt (SWI) of that         *)
(* priority, which runs vsf_evtq_poll; its producers are the interrupt     *)
(* handlers and the tasks of other priorities, and the event handler that  *)
(* the consumer is running.  What the code does between vsf_protect_int    *)
(* and vsf_unprotect_int is one action here; every unprotected access to   *)
(* shared state is an action of its own.                                   *)
(***************************************************************************)
EXTENDS Integers, FiniteSets

CONSTANTS
    Edas,        \* the event driven agents of this priority
    Evts,        \* the events they are sent
    Ctxs,        \* producers that preempt the consumer: ISRs, higher tasks
    Self,        \* the producer that is the event handler being dispatched
    Size,        \* nodes of the ring, 1 << bitsize
    CntMod,      \* 2^8, the range of the uint8_t eda->evt_cnt
    Killers,     \* the contexts that call vsf_eda_fini on another eda
    CleanEvts,   \* what handlers pass to vsf_evtq_clean_evt
    CleanBound,  \* bound: no clean by an eda whose evt_cnt is above it
    AnyEvt,      \* VSF_EVT_NONE, "every event", as such an argument
    NoEvt,       \* VSF_EVT_INVALID, the current event of an idle queue
    NoEda        \* the NULL eda of a cleaned node

ASSUME SizeAssumption == Size \in Nat /\ Size > 1
ASSUME CntAssumption == CntMod \in Nat /\ Size < CntMod
ASSUME CtxAssumption == Self \notin Ctxs /\ Killers \subseteq Ctxs
ASSUME EdaAssumption == NoEda \notin Edas
ASSUME EvtAssumption == CleanEvts \subseteq Evts \cup {AnyEvt}

VARIABLES
    node,        \* evtq->node[]: the ring of [eda, evt]
    head,        \* evtq->head, written by the consumer only
    tail,        \* evtq->tail, written by producers only
    evt_cnt,     \* eda->evt_cnt
    is_limitted, \* eda->flag.state.is_limitted
    is_to_exit,  \* eda->flag.state.is_to_exit
    live,        \* the edas that were started and whose on_terminate is due
    cur,         \* evtq->cur: [eda, evt]
    pc,          \* where the consumer is
    slot,        \* the local node of vsf_evtq_poll, as an index
    eda,         \* the local eda of vsf_evtq_poll
    swi,         \* the SWI of this priority is pending
    ppc,         \* where each producer is in __vsf_evtq_post
    clean        \* the locals of vsf_evtq_clean_evt

vars == <<node, head, tail, evt_cnt, is_limitted, is_to_exit, live, cur, pc,
          slot, eda, swi, ppc, clean>>

ringVars == <<node, head, tail>>
edaVars == <<evt_cnt, is_limitted, is_to_exit, live>>
pollVars == <<cur, pc, slot, eda, clean>>

Idx == 0 .. Size - 1
NoNode == [eda |-> NoEda, evt |-> NoEvt]
Posters == Ctxs \cup {Self}
NoClean == [idx |-> 0, end |-> 0, evt |-> AnyEvt]
PcStates == {"idle", "poll", "popped", "start", "dispatch", "clean", "finish",
             "exit", "terminate"}

\* Mutant: the mask is forgotten.
Mut_Inc(i) == i + 1

\* (i + 1) & mask
Inc(i) == IF i = Size - 1 THEN 0 ELSE i + 1

\* The nodes from head up to, and not with, tail.
InRing(i) == IF head <= tail THEN head <= i /\ i < tail
                             ELSE head <= i \/ i < tail

TypeOK ==
    /\ node \in [Idx -> [eda : Edas \cup {NoEda}, evt : Evts \cup {NoEvt}]]
    /\ head \in Idx /\ tail \in Idx /\ slot \in Idx
    /\ evt_cnt \in [Edas -> 0 .. CntMod - 1]
    /\ is_limitted \in [Edas -> BOOLEAN]
    /\ is_to_exit \in [Edas -> BOOLEAN]
    /\ live \subseteq Edas
    /\ cur \in [eda : Edas \cup {NoEda}, evt : Evts \cup {NoEvt}]
    /\ eda \in Edas \cup {NoEda}
    /\ pc \in PcStates
    /\ swi \in BOOLEAN
    /\ ppc \in [Posters -> {"idle", "activate", "fail", "full"}]
    /\ clean \in [idx : Idx, end : Idx, evt : Evts \cup {AnyEvt}]

Init ==
    /\ node = [i \in Idx |-> NoNode]
    /\ head = 0 /\ tail = 0 /\ slot = 0
    /\ evt_cnt = [e \in Edas |-> 0]
    /\ is_limitted = [e \in Edas |-> FALSE]
    /\ is_to_exit = [e \in Edas |-> FALSE]
    /\ live = {}
    /\ cur = NoNode /\ eda = NoEda
    /\ pc = "idle"
    /\ swi = FALSE
    /\ ppc = [p \in Posters |-> "idle"]
    /\ clean = NoClean

-----------------------------------------------------------------------------
(* Producers *)

\* A producer may enter the kernel: the handler only while it is dispatched.
MayCall(p) == ppc[p] = "idle" /\ (p = Self => pc = "dispatch")

\* Posting to an eda that was finalised, or never started, is outside the
\* contract of vsf_eda_post_evt.
MayReceive(e) == e \in live /\ ~is_to_exit[e]

\* The refusal of __vsf_evtq_post.
Refused(e, force) == evt_cnt[e] # 0 /\ is_limitted[e] /\ ~force

\* Mutant: a full ring is not noticed.
Mut_Full == FALSE

Full == Inc(tail) = head

\* The node written and the counter raised, both under vsf_protect_int.
Enqueue(p, e, v, cnt) ==
    /\ node' = [node EXCEPT ![tail] = [eda |-> e, evt |-> v]]
    /\ tail' = Inc(tail)
    /\ evt_cnt' = [evt_cnt EXCEPT ![e] = (cnt + 1) % CntMod]
    /\ ppc' = [ppc EXCEPT ![p] = "activate"]

Post(p, e, v, force) ==
    /\ MayCall(p) /\ MayReceive(e)
    /\ ~Refused(e, force) /\ ~Full
    /\ Enqueue(p, e, v, evt_cnt[e])
    /\ UNCHANGED <<head, is_limitted, is_to_exit, live, pollVars, swi>>

\* VSF_ERR_FAIL
PostRefused(p, e, force) ==
    /\ MayCall(p) /\ MayReceive(e)
    /\ Refused(e, force)
    /\ ppc' = [ppc EXCEPT ![p] = "fail"]
    /\ UNCHANGED <<ringVars, edaVars, pollVars, swi>>

\* Mutant: the counter is raised before the ring is found full.
Mut_PostFull(p, e, force) ==
    /\ MayCall(p) /\ MayReceive(e)
    /\ ~Refused(e, force) /\ Full
    /\ evt_cnt' = [evt_cnt EXCEPT ![e] = (@ + 1) % CntMod]
    /\ ppc' = [ppc EXCEPT ![p] = "full"]
    /\ UNCHANGED <<ringVars, is_limitted, is_to_exit, live, pollVars, swi>>

\* VSF_ERR_NOT_ENOUGH_RESOURCES
PostFull(p, e, force) ==
    /\ MayCall(p) /\ MayReceive(e)
    /\ ~Refused(e, force) /\ Full
    /\ ppc' = [ppc EXCEPT ![p] = "full"]
    /\ UNCHANGED <<ringVars, edaVars, pollVars, swi>>

\* __vsf_os_evtq_activate, after the protected section was left.
Activate(p) ==
    /\ ppc[p] = "activate"
    /\ swi' = TRUE
    /\ ppc' = [ppc EXCEPT ![p] = "idle"]
    /\ UNCHANGED <<ringVars, edaVars, pollVars>>

\* The caller sees the error code.
PostError(p) ==
    /\ ppc[p] \in {"fail", "full"}
    /\ ppc' = [ppc EXCEPT ![p] = "idle"]
    /\ UNCHANGED <<ringVars, edaVars, pollVars, swi>>

\* __vsf_eda_init: the members are reset and the first event is posted.
Start(p, e, v) ==
    /\ MayCall(p) /\ e \notin live /\ ~Full
    /\ live' = live \cup {e}
    /\ is_limitted' = [is_limitted EXCEPT ![e] = FALSE]
    /\ is_to_exit' = [is_to_exit EXCEPT ![e] = FALSE]
    /\ Enqueue(p, e, v, 0)
    /\ UNCHANGED <<head, pollVars, swi>>

\* vsf_evtq_on_eda_fini
OnEdaFini(e) ==
    IF evt_cnt[e] = 0
    THEN live' = live \ {e} /\ UNCHANGED is_to_exit
    ELSE is_to_exit' = [is_to_exit EXCEPT ![e] = TRUE] /\ UNCHANGED live

\* A context that preempts the consumer kills an eda.
Kill(p, e) ==
    /\ p \in Killers /\ MayCall(p) /\ MayReceive(e)
    /\ OnEdaFini(e)
    /\ UNCHANGED <<ringVars, evt_cnt, is_limitted, pollVars, swi, ppc>>

-----------------------------------------------------------------------------
(* The consumer: the SWI handler running vsf_evtq_poll *)

\* __vsf_os_evtq_swi_handler is entered.
SwiEnter ==
    /\ pc = "idle" /\ swi
    /\ swi' = FALSE
    /\ pc' = "poll"
    /\ UNCHANGED <<ringVars, edaVars, cur, slot, eda, ppc, clean>>

\* The loop condition, the node's address and the new head.
PollPop ==
    /\ pc = "poll" /\ head # tail
    /\ slot' = head
    /\ head' = Inc(head)
    /\ pc' = "popped"
    /\ UNCHANGED <<node, tail, edaVars, cur, eda, swi, ppc, clean>>

PollEmpty ==
    /\ pc = "poll" /\ head = tail
    /\ pc' = "idle"
    /\ UNCHANGED <<ringVars, edaVars, cur, slot, eda, swi, ppc, clean>>

\* Mutant: the event of an exiting eda is dropped without being counted.
Mut_PollFetch ==
    /\ pc = "popped"
    /\ eda' = node[slot].eda
    /\ pc' = IF \/ node[slot].eda = NoEda
                \/ is_to_exit[node[slot].eda] THEN "poll" ELSE "start"
    /\ UNCHANGED <<ringVars, edaVars, cur, slot, swi, ppc, clean>>

\* eda = node->eda, the NULL test and the is_to_exit test.
PollFetch ==
    /\ pc = "popped"
    /\ eda' = node[slot].eda
    /\ pc' = IF node[slot].eda = NoEda THEN "poll"
             ELSE IF is_to_exit[node[slot].eda] THEN "finish" ELSE "start"
    /\ UNCHANGED <<ringVars, edaVars, cur, slot, swi, ppc, clean>>

\* The context is published and the event handler called.
PollStart ==
    /\ pc = "start"
    /\ cur' = [eda |-> eda, evt |-> node[slot].evt]
    /\ pc' = "dispatch"
    /\ UNCHANGED <<ringVars, edaVars, slot, eda, swi, ppc, clean>>

\* The event handler returns.
HandlerReturn ==
    /\ pc = "dispatch" /\ ppc[Self] = "idle"
    /\ pc' = "finish"
    /\ UNCHANGED <<ringVars, edaVars, cur, slot, eda, swi, ppc, clean>>

PollFinish ==
    /\ pc = "finish"
    /\ cur' = NoNode
    /\ evt_cnt' = [evt_cnt EXCEPT ![eda] = (@ - 1) % CntMod]
    /\ pc' = "exit"
    /\ UNCHANGED <<ringVars, is_limitted, is_to_exit, live, slot, eda, swi,
                   ppc, clean>>

\* Mutants: one event per SWI; termination with events left.
Mut_PollExitOnce ==
    /\ pc = "exit"
    /\ pc' = IF is_to_exit[eda] /\ evt_cnt[eda] = 0 THEN "terminate"
                                                    ELSE "idle"
    /\ UNCHANGED <<ringVars, edaVars, cur, slot, eda, swi, ppc, clean>>
Mut_PollExitEarly ==
    /\ pc = "exit"
    /\ pc' = IF is_to_exit[eda] THEN "terminate" ELSE "poll"
    /\ UNCHANGED <<ringVars, edaVars, cur, slot, eda, swi, ppc, clean>>

\* is_to_exit and, in __vsf_eda_terminate, evt_cnt are read unprotected.
PollExit ==
    /\ pc = "exit"
    /\ pc' = IF is_to_exit[eda] /\ evt_cnt[eda] = 0 THEN "terminate"
                                                    ELSE "poll"
    /\ UNCHANGED <<ringVars, edaVars, cur, slot, eda, swi, ppc, clean>>

\* __vsf_eda_on_terminate: from here on the owner may free the eda.
PollTerminate ==
    /\ pc = "terminate"
    /\ live' = live \ {eda}
    /\ pc' = "poll"
    /\ UNCHANGED <<ringVars, evt_cnt, is_limitted, is_to_exit, cur, slot, eda,
                   swi, ppc, clean>>

-----------------------------------------------------------------------------
(* What the event handler of cur does to its own eda *)

InHandler == pc = "dispatch" /\ ppc[Self] = "idle"

\* A timed pend sets the flag, the reason of its end clears it.
SetLimitted(b) ==
    /\ InHandler
    /\ is_limitted' = [is_limitted EXCEPT ![cur.eda] = b]
    /\ UNCHANGED <<ringVars, evt_cnt, is_to_exit, live, pollVars, swi, ppc>>

\* vsf_eda_fini(NULL)
Fini ==
    /\ InHandler /\ MayReceive(cur.eda)
    /\ OnEdaFini(cur.eda)
    /\ UNCHANGED <<ringVars, evt_cnt, is_limitted, pollVars, swi, ppc>>

\* vsf_evtq_clean_evt takes its snapshot of head and tail ...
CleanBegin(v) ==
    /\ InHandler /\ evt_cnt[cur.eda] <= CleanBound
    /\ clean' = [idx |-> head, end |-> tail, evt |-> v]
    /\ pc' = "clean"
    /\ UNCHANGED <<ringVars, edaVars, cur, slot, eda, swi, ppc>>

\* Mutant: the events of the other edas are cleared, too.
Mut_CleanStep ==
    /\ pc = "clean" /\ clean.idx # clean.end
    /\ node' = IF clean.evt \in {AnyEvt, node[clean.idx].evt}
               THEN [node EXCEPT ![clean.idx].eda = NoEda]
               ELSE node
    /\ clean' = [clean EXCEPT !.idx = Inc(@)]
    /\ UNCHANGED <<head, tail, edaVars, cur, pc, slot, eda, swi, ppc>>

\* ... and clears the matching nodes, one at a time and unprotected.
CleanStep ==
    /\ pc = "clean" /\ clean.idx # clean.end
    /\ node' = IF /\ node[clean.idx].eda = cur.eda
                  /\ clean.evt \in {AnyEvt, node[clean.idx].evt}
               THEN [node EXCEPT ![clean.idx].eda = NoEda]
               ELSE node
    /\ clean' = [clean EXCEPT !.idx = Inc(@)]
    /\ UNCHANGED <<head, tail, edaVars, cur, pc, slot, eda, swi, ppc>>

CleanEnd ==
    /\ pc = "clean" /\ clean.idx = clean.end
    /\ pc' = "dispatch"
    /\ clean' = NoClean
    /\ UNCHANGED <<ringVars, edaVars, cur, slot, eda, swi, ppc>>

Produce(p) ==
    \/ \E e \in Edas, v \in Evts, force \in BOOLEAN : Post(p, e, v, force)
    \/ \E e \in Edas, force \in BOOLEAN : PostRefused(p, e, force)
    \/ \E e \in Edas, force \in BOOLEAN : PostFull(p, e, force)
    \/ \E e \in Edas, v \in Evts : Start(p, e, v)
    \/ \E e \in Edas : Kill(p, e)
    \/ Activate(p)
    \/ PostError(p)

Poll ==
    \/ SwiEnter \/ PollPop \/ PollEmpty \/ PollFetch \/ PollStart
    \/ PollFinish \/ PollExit \/ PollTerminate \/ CleanStep \/ CleanEnd

Handle ==
    \/ HandlerReturn
    \/ \E b \in BOOLEAN : SetLimitted(b)
    \/ Fini
    \/ \E v \in CleanEvts : CleanBegin(v)

Next == Poll \/ Handle \/ \E p \in Posters : Produce(p)

\* The hardware runs a pending SWI and a preempted context; handlers return.
Fairness ==
    /\ WF_vars(Poll)
    /\ SF_vars(HandlerReturn)
    /\ \A p \in Posters : WF_vars(Activate(p) \/ PostError(p))

Spec == Init /\ [][Next]_vars
FairSpec == Spec /\ Fairness

-----------------------------------------------------------------------------
(* Properties *)

\* The entries of the ring that belong to e.
Queued(e) == {i \in Idx : InRing(i) /\ node[i].eda = e}

\* An event of e was taken from the ring and is not accounted for yet.
Popped(e) ==
    \/ pc = "popped" /\ node[slot].eda = e
    \/ pc \in {"start", "dispatch", "clean", "finish"} /\ eda = e

\* The node that poll has moved head past stays as it was posted until poll
\* has read its eda and its event, although it is outside the ring by then and
\* producers may preempt poll and fill the ring in between.
PoppedNodeStable ==
    [][(pc \in {"popped", "start"}) => node'[slot] = node[slot]]_vars

\* evt_cnt is exactly the number of events that the ring or poll still holds.
CountExact ==
    \A e \in live :
        evt_cnt[e] = Cardinality(Queued(e)) + (IF Popped(e) THEN 1 ELSE 0)

\* A queued event is never forgotten: as long as the ring holds one, the
\* consumer is at work, its SWI is pending or a producer is about to raise it.
NoLostWakeup ==
    head # tail => pc # "idle" \/ swi \/ \E p \in Posters : ppc[p] = "activate"

\* The owner of an eda may free it once on_terminate was called, so neither
\* poll nor any node of the ring refers to an eda that is gone.
NoDanglingEda ==
    /\ \A i \in Idx : InRing(i) => node[i].eda \in live \cup {NoEda}
    /\ pc \in {"start", "dispatch", "clean", "finish", "exit", "terminate"}
         => eda \in live

\* An eda whose last event was consumed after it asked to exit is on its way
\* to on_terminate: it cannot stay half dead for ever.
ExitIsFinished ==
    \A e \in live :
        is_to_exit[e] /\ Queued(e) = {} /\ ~Popped(e)
            => pc \in {"exit", "terminate"} /\ eda = e

\* An eda that finalises itself is terminated exactly once its events are gone:
\* not before, while the ring or poll still refers to it, and not never, when
\* poll has dropped the last of them.
ExitIsExact == NoDanglingEda /\ ExitIsFinished

\* A post without force is refused only while the eda has an event of its own
\* that is queued or being handled: a refusal loses no wake-up, the eda will
\* run again or is running.
RefusedOnlyWhilePending ==
    [][\A p \in Posters, e \in Edas, force \in BOOLEAN :
           PostRefused(p, e, force) => Queued(e) # {} \/ Popped(e)]_vars

\* Every event that enters the ring is taken out of it again.
Served == \A i \in Idx : InRing(i) ~> ~InRing(i)
=============================================================================
