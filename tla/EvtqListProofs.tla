---------------------------- MODULE EvtqListProofs ----------------------------
(***************************************************************************)
(* Proofs about the list event queues, for any number of edas, priorities, *)
(* interrupts and event nodes, and whichever edas are lent priorities, are *)
(* finalised, clean their events or are limited.                           *)
(***************************************************************************)
EXTENDS EvtqList, ListLemmas, FiniteSetTheorems, TLAPS

\* The ready lists L hold the edas of R, each once, in the list of its priority
\* by P.
Listed(L, R, P) ==
    /\ \A p \in Prios : NoTwice(L[p])
    /\ \A p \in Prios : \A e \in ToSet(L[p]) : e \in R /\ P[e] = p
    /\ \A e \in R : e \in ToSet(L[P[e]])

\* The lists L and M hold the same edas but for e.
SameBut(e, L, M) ==
    \A p \in Prios : \A x \in Edas :
        x # e => (x \in ToSet(L[p]) <=> x \in ToSet(M[p]))

Ready == {e \in Edas : is_ready[e]}

ListInv == Listed(rdy_list, Ready, cur_priority)

\* A queue that dispatches is active and dispatches a ready eda of its priority;
\* any other ready eda has an event.
CurInv ==
    /\ \A p \in Prios : cur[p] # NoEda =>
          /\ cur_priority[cur[p]] = p /\ is_ready[cur[p]]
          /\ eda[p] = cur[p] /\ p \in ToSet(stack)
    /\ \A p \in Prios :
          cur[p] # NoEda <=> pc[p] \in {"start", "dispatch", "finish"}
    /\ \A p \in Prios : pc[p] = "fini" => eda[p] # NoEda
    /\ \A e \in Edas :
          is_ready[e] => evt_list[e] > 0 \/ cur[cur_priority[e]] = e

\* A priority that is not taken up belongs to an eda that is being dispatched,
\* and only such an eda keeps the interrupt of its queue raised.
LoanInv ==
    /\ \A e \in Edas : new_priority[e] # 0 =>
          cur[cur_priority[e]] = e /\ new_priority[e] # cur_priority[e]
    /\ RaiseIsTemporary

\* A queue is active once, and no queue below the one that finalises an eda
\* dispatches that eda.
StackInv ==
    /\ NoTwice(stack)
    /\ \A i, j \in DOMAIN stack :
          i < j /\ pc[stack[i]] = "fini" => cur[stack[j]] # eda[stack[i]]

\* The queues with a ready eda run or are about to.
WakeInv ==
    \A p \in Prios : ToSet(rdy_list[p]) # {} => p \in swi \/ p \in ToSet(stack)

IInv == /\ TypeOK /\ ListInv /\ CurInv /\ LoanInv /\ StackInv /\ WakeInv
        /\ NextIsListed

-----------------------------------------------------------------------------
(* What the operations on the ready lists do *)

LEMMA PrioFacts ==
    /\ Levels \in Nat /\ Prios \subseteq Int /\ NoEda \notin Edas
    /\ \A p \in Prios : p \in 0 .. Levels /\ p # 0
    /\ 0 \in 0 .. Levels /\ \A n \in 0 .. Levels : n # 0 => n \in Prios
    /\ Prio \in [Edas -> Prios]
BY BoundAssumption, EdaAssumption DEF Prios

LEMMA UnlinkFacts ==
    ASSUME NEW s \in Seq(Edas), NoTwice(s), NEW e \in ToSet(s)
    PROVE  /\ Unlink(s, e) \in Seq(Edas) /\ NoTwice(Unlink(s, e))
           /\ ToSet(Unlink(s, e)) = ToSet(s) \ {e}
           /\ Position(s, e) \in DOMAIN s /\ s[Position(s, e)] = e
<1>1. PICK k \in DOMAIN s : s[k] = e
    BY DEF ToSet
<1>2. Position(s, e) \in DOMAIN s /\ s[Position(s, e)] = e
    BY <1>1 DEF Position
<1>3. PICK i \in DOMAIN s : i = Position(s, e)
    BY <1>2
<1>4. /\ RemoveAt(s, i) \in Seq(Edas) /\ NoTwice(RemoveAt(s, i))
      /\ ToSet(RemoveAt(s, i)) = ToSet(s) \ {s[i]}
    BY RemoveAtFacts
<1> QED BY <1>2, <1>3, <1>4 DEF Unlink

LEMMA InEdas ==
    ASSUME NEW s \in Seq(Edas)
    PROVE  ToSet(s) \subseteq Edas /\ (s = <<>> <=> ToSet(s) = {})
<1>1. Len(s) \in Nat /\ DOMAIN s = 1 .. Len(s) /\ \A i \in DOMAIN s : s[i] \in Edas
    OBVIOUS
<1>2. CASE s = <<>>
    BY <1>2 DEF ToSet
<1>3. CASE s # <<>>
  <2>1. 1 \in DOMAIN s
    BY <1>1, <1>3
  <2> QED BY <1>1, <1>3, <2>1 DEF ToSet
<1> QED BY <1>2, <1>3

Enqueued(L, R, P, e, M) ==
    /\ M = [L EXCEPT ![P[e]] = Append(@, e)]
    /\ SameBut(e, L, M) /\ Listed(M, R \cup {e}, P)
    /\ \A p \in Prios : ToSet(L[p]) \subseteq ToSet(M[p])

LEMMA Enqueue ==
    ASSUME NEW L \in [Prios -> Seq(Edas)], NEW R \in SUBSET Edas,
           NEW P \in [Edas -> Prios], Listed(L, R, P), NEW e \in Edas,
           e \notin ToSet(L[P[e]])
    PROVE  \E M \in [Prios -> Seq(Edas)] : Enqueued(L, R, P, e, M)
<1> DEFINE p == P[e]
           M == [L EXCEPT ![P[e]] = Append(@, e)]
<1>1. p \in Prios /\ L[p] \in Seq(Edas) /\ e \notin ToSet(L[p])
    BY DEF Listed
<1>2. /\ Append(L[p], e) \in Seq(Edas) /\ NoTwice(Append(L[p], e))
      /\ ToSet(Append(L[p], e)) = ToSet(L[p]) \cup {e}
  <2>1. PICK s \in Seq(Edas) : s = L[p]
    BY <1>1
  <2>2. NoTwice(s) /\ e \notin ToSet(s)
    BY <1>1, <2>1 DEF Listed
  <2> QED BY <2>1, <2>2, AppendFacts
<1>3. M \in [Prios -> Seq(Edas)] /\ M[p] = Append(L[p], e)
      /\ \A r \in Prios : r # p => M[r] = L[r]
    BY <1>1, <1>2
<1>0. M = [L EXCEPT ![P[e]] = Append(@, e)]
    OBVIOUS
<1> HIDE DEF p, M
<1>4. \A r \in Prios : ToSet(M[r]) = ToSet(L[r]) \cup (IF r = p THEN {e} ELSE {})
  <2>1. ToSet(M[p]) = ToSet(L[p]) \cup {e}
    BY <1>2, <1>3
  <2>2. \A r \in Prios : r # p => ToSet(M[r]) = ToSet(L[r])
    BY <1>3
  <2> QED BY <2>1, <2>2
<1>5. Listed(M, R \cup {e}, P)
  <2>1. \A r \in Prios : NoTwice(M[r])
    <3>1. NoTwice(M[p])
        BY <1>2, <1>3
    <3>2. \A r \in Prios : r # p => NoTwice(M[r])
        BY <1>3 DEF Listed
    <3> QED BY <3>1, <3>2
  <2>2. \A r \in Prios : \A x \in ToSet(M[r]) : x \in Edas
    BY <1>3, InEdas
  <2> QED BY <2>1, <2>2, <1>1, <1>4 DEF Listed, p
<1>6. SameBut(e, L, M) /\ \A r \in Prios : ToSet(L[r]) \subseteq ToSet(M[r])
  <2> SUFFICES ASSUME NEW r \in Prios
               PROVE  /\ \A x \in Edas : x # e => (x \in ToSet(L[r]) <=> x \in ToSet(M[r]))
                      /\ ToSet(L[r]) \subseteq ToSet(M[r])
    BY DEF SameBut
  <2> QED BY <1>4
<1> QED BY <1>0, <1>3, <1>5, <1>6 DEF Enqueued

Dropped(L, R, P, e, M) ==
    /\ M = [L EXCEPT ![P[e]] = Unlink(@, e)]
    /\ SameBut(e, L, M) /\ Listed(M, R \ {e}, P)
    /\ \A p \in Prios : ToSet(M[p]) = ToSet(L[p]) \ {e}

LEMMA Drop ==
    ASSUME NEW L \in [Prios -> Seq(Edas)], NEW R \in SUBSET Edas,
           NEW P \in [Edas -> Prios], Listed(L, R, P), NEW e \in Edas,
           e \in ToSet(L[P[e]])
    PROVE  \E M \in [Prios -> Seq(Edas)] : Dropped(L, R, P, e, M)
<1> DEFINE p == P[e]
           M == [L EXCEPT ![P[e]] = Unlink(@, e)]
<1>1. p \in Prios /\ L[p] \in Seq(Edas) /\ e \in ToSet(L[p]) /\ NoTwice(L[p])
    BY DEF Listed
<1>2. /\ Unlink(L[p], e) \in Seq(Edas) /\ NoTwice(Unlink(L[p], e))
      /\ ToSet(Unlink(L[p], e)) = ToSet(L[p]) \ {e}
    BY <1>1, UnlinkFacts
<1>3. M \in [Prios -> Seq(Edas)] /\ M[p] = Unlink(L[p], e)
      /\ \A r \in Prios : r # p => M[r] = L[r]
    BY <1>1, <1>2
<1>4. \A r \in Prios : r # p => e \notin ToSet(L[r])
    BY <1>1 DEF Listed
<1>0. M = [L EXCEPT ![P[e]] = Unlink(@, e)]
    OBVIOUS
<1> HIDE DEF p, M
<1>5. \A r \in Prios : ToSet(M[r]) = ToSet(L[r]) \ {e}
    BY <1>2, <1>3, <1>4
<1>6. Listed(M, R \ {e}, P)
  <2>1. \A r \in Prios : NoTwice(M[r])
    BY <1>2, <1>3 DEF Listed
  <2>2. \A r \in Prios : \A x \in ToSet(M[r]) : x \in Edas
    BY <1>3, InEdas
  <2> QED BY <2>1, <2>2, <1>5 DEF Listed
<1>7. SameBut(e, L, M)
    BY <1>5 DEF SameBut
<1> QED BY <1>0, <1>3, <1>5, <1>6, <1>7 DEF Dropped

Requeued(L, R, P, e, M) ==
    /\ M = [L EXCEPT ![P[e]] = Append(Unlink(@, e), e)]
    /\ Listed(M, R, P) /\ \A p \in Prios : ToSet(M[p]) = ToSet(L[p])

LEMMA Requeue ==
    ASSUME NEW L \in [Prios -> Seq(Edas)], NEW R \in SUBSET Edas,
           NEW P \in [Edas -> Prios], Listed(L, R, P), NEW e \in Edas,
           e \in ToSet(L[P[e]])
    PROVE  \E M \in [Prios -> Seq(Edas)] : Requeued(L, R, P, e, M)
<1> DEFINE p == P[e]
           M == [L EXCEPT ![P[e]] = Append(Unlink(@, e), e)]
<1>1. p \in Prios /\ L[p] \in Seq(Edas) /\ e \in ToSet(L[p]) /\ NoTwice(L[p])
    BY DEF Listed
<1>2. /\ Unlink(L[p], e) \in Seq(Edas) /\ NoTwice(Unlink(L[p], e))
      /\ ToSet(Unlink(L[p], e)) = ToSet(L[p]) \ {e}
    BY <1>1, UnlinkFacts
<1>3. PICK s \in Seq(Edas) : s = Unlink(L[p], e)
    BY <1>2
<1>4. /\ Append(s, e) \in Seq(Edas) /\ NoTwice(Append(s, e))
      /\ ToSet(Append(s, e)) = ToSet(s) \cup {e}
  <2>1. NoTwice(s) /\ e \notin ToSet(s)
    BY <1>2, <1>3
  <2> QED BY <2>1, AppendFacts
<1>5. ToSet(Append(s, e)) = ToSet(L[p])
    BY <1>1, <1>2, <1>3, <1>4
<1>6. M \in [Prios -> Seq(Edas)] /\ M[p] = Append(s, e)
      /\ \A r \in Prios : r # p => M[r] = L[r]
    BY <1>1, <1>3, <1>4
<1>0. M = [L EXCEPT ![P[e]] = Append(Unlink(@, e), e)]
    OBVIOUS
<1> HIDE DEF p, M
<1>7. \A r \in Prios : ToSet(M[r]) = ToSet(L[r]) /\ NoTwice(M[r])
    BY <1>4, <1>5, <1>6 DEF Listed
<1>8. Listed(M, R, P)
    BY <1>7 DEF Listed
<1> QED BY <1>0, <1>6, <1>7, <1>8 DEF Requeued

Moved(L, R, P, e, q, M) ==
    /\ M = [L EXCEPT ![P[e]] = Unlink(@, e), ![q] = Append(@, e)]
    /\ SameBut(e, L, M) /\ Listed(M, R, [P EXCEPT ![e] = q])
    /\ \A p \in Prios : e \in ToSet(M[p]) => p = q

LEMMA Move ==
    ASSUME NEW L \in [Prios -> Seq(Edas)], NEW R \in SUBSET Edas,
           NEW P \in [Edas -> Prios], Listed(L, R, P), NEW e \in Edas,
           e \in ToSet(L[P[e]]), NEW q \in Prios, q # P[e]
    PROVE  \E M \in [Prios -> Seq(Edas)] : Moved(L, R, P, e, q, M)
<1> DEFINE p == P[e]
           M == [L EXCEPT ![P[e]] = Unlink(@, e), ![q] = Append(@, e)]
           Q == [P EXCEPT ![e] = q]
<1>1. /\ p \in Prios /\ L[p] \in Seq(Edas) /\ e \in ToSet(L[p]) /\ e \in R /\ p # q
      /\ NoTwice(L[p]) /\ L[q] \in Seq(Edas) /\ NoTwice(L[q]) /\ e \notin ToSet(L[q])
    BY DEF Listed
<1>2. /\ Unlink(L[p], e) \in Seq(Edas) /\ NoTwice(Unlink(L[p], e))
      /\ ToSet(Unlink(L[p], e)) = ToSet(L[p]) \ {e}
    BY <1>1, UnlinkFacts
<1>3. PICK s \in Seq(Edas) : s = L[q]
    BY <1>1
<1>4. /\ Append(s, e) \in Seq(Edas) /\ NoTwice(Append(s, e))
      /\ ToSet(Append(s, e)) = ToSet(s) \cup {e}
    BY <1>1, <1>3, AppendFacts
<1>5. M \in [Prios -> Seq(Edas)] /\ M[p] = Unlink(L[p], e) /\ M[q] = Append(s, e)
      /\ \A r \in Prios : r \notin {p, q} => M[r] = L[r]
    BY <1>1, <1>2, <1>3, <1>4
<1>6. \A r \in Prios : r # p => e \notin ToSet(L[r])
    BY <1>1 DEF Listed
<1>7. Q[e] = q /\ \A x \in Edas : x # e => Q[x] = P[x]
    OBVIOUS
<1>0. M = [L EXCEPT ![P[e]] = Unlink(@, e), ![q] = Append(@, e)]
    OBVIOUS
<1> HIDE DEF p, Q, M
<1>8. ToSet(M[q]) = ToSet(L[q]) \cup {e}
    BY <1>3, <1>4, <1>5
<1>9. ASSUME NEW r \in Prios, r # q PROVE ToSet(M[r]) = ToSet(L[r]) \ {e}
  <2>1. CASE r = p
    BY <2>1, <1>2, <1>5
  <2>2. CASE r # p
    <3>1. M[r] = L[r] /\ e \notin ToSet(L[r])
      BY <1>5, <1>6, <1>9, <2>2
    <3> QED BY <3>1
  <2> QED BY <2>1, <2>2
<1>10. SameBut(e, L, M)
  <2> SUFFICES ASSUME NEW r \in Prios, NEW x \in Edas, x # e
               PROVE  x \in ToSet(L[r]) <=> x \in ToSet(M[r])
    BY DEF SameBut
  <2>1. CASE r = q
    BY <1>8, <2>1
  <2>2. CASE r # q
    <3>1. ToSet(M[r]) = ToSet(L[r]) \ {e}
      BY <1>9, <2>2
    <3> QED BY <3>1
  <2> QED BY <2>1, <2>2
<1>11. \A r \in Prios : NoTwice(M[r])
  <2>1. NoTwice(M[p]) /\ NoTwice(M[q])
    BY <1>2, <1>4, <1>1, <1>3, <1>5
  <2>2. \A r \in Prios : NoTwice(L[r])
    BY DEF Listed
  <2> QED BY <1>5, <2>1, <2>2
<1>12. ASSUME NEW r \in Prios, NEW x \in ToSet(M[r]) PROVE x \in R /\ Q[x] = r
  <2>1. x \in Edas
    BY <1>5, InEdas
  <2>2. CASE x = e
    BY <1>1, <1>7, <1>9, <1>12, <2>2
  <2>3. CASE x # e
    <3>1. x \in ToSet(L[r])
      BY <1>10, <1>12, <2>1, <2>3 DEF SameBut
    <3> QED BY <1>7, <2>1, <2>3, <3>1 DEF Listed
  <2> QED BY <2>2, <2>3
<1>13. ASSUME NEW x \in R PROVE x \in ToSet(M[Q[x]])
  <2>1. CASE x = e
    BY <1>7, <1>8, <2>1
  <2>2. CASE x # e
    <3>1. x \in ToSet(L[P[x]]) /\ P[x] \in Prios /\ Q[x] = P[x]
      BY <1>7, <1>13, <2>2 DEF Listed
    <3> QED BY <1>10, <2>2, <3>1 DEF SameBut
  <2> QED BY <2>1, <2>2
<1>14. Listed(M, R, Q)
    BY <1>11, <1>12, <1>13 DEF Listed
<1>15. \A r \in Prios : e \in ToSet(M[r]) => r = q
    BY <1>9
<1> QED BY <1>0, <1>5, <1>10, <1>14, <1>15 DEF Moved, Q

\* An eda that is not ready is of another queue from now on.
LEMMA Retarget ==
    ASSUME NEW L \in [Prios -> Seq(Edas)], NEW R \in SUBSET Edas,
           NEW P \in [Edas -> Prios], Listed(L, R, P), NEW e \in Edas,
           e \notin ToSet(L[P[e]]), NEW q \in Prios
    PROVE  Listed(L, R, [P EXCEPT ![e] = q])
<1>1. e \notin R
    BY DEF Listed
<1>2. \A p \in Prios : e \notin ToSet(L[p])
    BY <1>1 DEF Listed
<1>3. \A p \in Prios : \A x \in ToSet(L[p]) : x \in Edas
    BY InEdas
<1> QED BY <1>1, <1>2, <1>3 DEF Listed

-----------------------------------------------------------------------------
(* The state *)

LEMMA EdaFacts ==
    ASSUME TypeOK, NEW e \in Edas
    PROVE  /\ cur_priority[e] \in Prios /\ Prio[e] \in Prios
           /\ new_priority[e] \in 0 .. Levels /\ evt_list[e] \in Nat
           /\ cur_priority[e] \in Int /\ new_priority[e] \in Int
           /\ cur[cur_priority[e]] \in Edas \cup {NoEda} /\ is_ready[e] \in BOOLEAN
           /\ (new_priority[e] # 0 => new_priority[e] \in Prios)
<1>1. /\ cur_priority[e] \in Prios /\ Prio[e] \in Prios
      /\ new_priority[e] \in 0 .. Levels /\ evt_list[e] \in Nat
      /\ cur[cur_priority[e]] \in Edas \cup {NoEda} /\ is_ready[e] \in BOOLEAN
    BY PrioFacts DEF TypeOK
<1>2. new_priority[e] \in Int
    BY <1>1, PrioFacts
<1>3. cur_priority[e] \in Int
    BY <1>1, PrioFacts
<1>4. new_priority[e] # 0 => new_priority[e] \in Prios
    BY <1>1, PrioFacts
<1> QED BY <1>1, <1>2, <1>3, <1>4

LEMMA QueueFacts ==
    ASSUME TypeOK, NEW p \in Prios
    PROVE  /\ cur[p] \in Edas \cup {NoEda} /\ eda[p] \in Edas \cup {NoEda}
           /\ node_eda[p] \in Edas \cup {NoEda} /\ pc[p] \in PcStates
           /\ rdy_list[p] \in Seq(Edas) /\ level[p] \in Prios /\ p \in Int
           /\ level[p] \in Int /\ ToSet(rdy_list[p]) \subseteq Edas
<1>1. /\ cur[p] \in Edas \cup {NoEda} /\ eda[p] \in Edas \cup {NoEda}
      /\ node_eda[p] \in Edas \cup {NoEda} /\ pc[p] \in PcStates
      /\ rdy_list[p] \in Seq(Edas) /\ level[p] \in Prios /\ p \in Int
    BY PrioFacts DEF TypeOK
<1> QED BY <1>1, PrioFacts, InEdas

LEMMA RunningFacts ==
    ASSUME TypeOK, NEW p \in Prios, Running(p)
    PROVE  /\ p \in ToSet(stack) /\ stack \in Seq(Prios) /\ Len(stack) \in Nat
           /\ 1 \in DOMAIN stack /\ stack[1] = p /\ stack # <<>>
<1>1. stack \in Seq(Prios) /\ stack # <<>> /\ Head(stack) = p
    BY DEF TypeOK, Running
<1>2. Len(stack) \in Nat /\ 1 \in DOMAIN stack /\ stack[1] = p
    BY <1>1
<1> QED BY <1>1, <1>2 DEF ToSet

\* The steps that leave the lists, the priorities and the dispatches alone.
Quiet ==
    /\ UNCHANGED <<rdy_list, cur, is_ready, prioVars, swi, stack, eda, node_eda,
                   pulled>>
    /\ evt_list' = evt_list
    /\ \A p \in Prios : pc'[p] \in {"start", "dispatch", "finish"}
                            <=> pc[p] \in {"start", "dispatch", "finish"}
    /\ \A p \in Prios : pc'[p] \in {"setdue", "fini", "next"} =>
                            \/ pc[p] \in {"setdue", "fini", "next"}
    /\ \A p \in Prios : pc'[p] = "fini" => pc[p] = "fini"
    /\ \A p \in Prios : pc'[p] = "fault" => pc[p] = "fault"

LEMMA QuietInv ==
    ASSUME IInv, Quiet, TypeOK'
    PROVE  IInv'
<1>1. ListInv'
    BY DEF IInv, Quiet, ListInv, Ready, prioVars
<1>2. CurInv'
  <2>1. \A p \in Prios : cur[p]' = cur[p] /\ eda[p]' = eda[p] /\ pc'[p] = pc[p]'
    BY DEF Quiet
  <2>2. UNCHANGED <<cur_priority, is_ready, evt_list, stack, cur, eda>>
    BY DEF Quiet, prioVars
  <2>3. \A p \in Prios : pc'[p] = "fini" => eda[p] # NoEda
    BY DEF IInv, CurInv, Quiet
  <2>4. \A p \in Prios :
          cur[p] # NoEda <=> pc'[p] \in {"start", "dispatch", "finish"}
    BY DEF IInv, CurInv, Quiet
  <2> QED BY <2>2, <2>3, <2>4 DEF IInv, CurInv
<1>3. LoanInv'
    BY DEF IInv, Quiet, LoanInv, RaiseIsTemporary, prioVars
<1>4. StackInv'
  <2>1. \A i \in DOMAIN stack : stack[i] \in Prios
    BY DEF IInv, TypeOK
  <2> QED BY <2>1 DEF IInv, Quiet, StackInv
<1>5. WakeInv'
    BY DEF IInv, Quiet, WakeInv
<1>6. NextIsListed'
    BY DEF IInv, Quiet, NextIsListed
<1> QED BY <1>1, <1>2, <1>3, <1>4, <1>5, <1>6 DEF IInv

LEMMA QuietSteps ==
    ASSUME IInv,
           \/ \E c \in Producers, e \in Edas : PostAlloc(c, e)
           \/ \E c \in Producers, e \in Edas, force \in BOOLEAN :
                 PostRefused(c, e, force)
           \/ \E p \in Prios : \/ PollAgain(p) \/ PollStart(p) \/ PollSetDue(p)
                               \/ HandlerReturn(p)
                               \/ \E b \in BOOLEAN : SetLimitted(p, b)
    PROVE  IInv'
<1>0. TypeOK
    BY DEF IInv
<1>1. ASSUME NEW c \in Producers, NEW e \in Edas, PostAlloc(c, e) PROVE IInv'
  <2>1. TypeOK'
    BY <1>0, <1>1 DEF TypeOK, PostAlloc, prioVars, flagVars, pollVars
  <2>2. Quiet
    BY <1>1 DEF PostAlloc, Quiet, prioVars, flagVars, pollVars
  <2> QED BY <2>1, <2>2, QuietInv
<1>2. ASSUME NEW c \in Producers, NEW e \in Edas, NEW force \in BOOLEAN,
             PostRefused(c, e, force)
      PROVE  IInv'
  <2>0. pool' \in Nat
    BY <1>0, <1>2 DEF TypeOK, PostRefused
  <2>1. TypeOK'
    BY <1>0, <1>2, <2>0 DEF TypeOK, PostRefused, prioVars, flagVars, pollVars
  <2>2. Quiet
    BY <1>2 DEF PostRefused, Quiet, prioVars, flagVars, pollVars
  <2> QED BY <2>1, <2>2, QuietInv
<1>3. ASSUME NEW p \in Prios, PollAgain(p) PROVE IInv'
  <2>1. TypeOK'
    BY <1>0, <1>3 DEF TypeOK, PollAgain, prioVars, flagVars, PcStates
  <2>2. Quiet
    BY <1>0, <1>3 DEF TypeOK, PollAgain, Quiet, prioVars, flagVars
  <2> QED BY <2>1, <2>2, QuietInv
<1>4. ASSUME NEW p \in Prios, PollStart(p) PROVE IInv'
  <2>0. pool' \in Nat
    BY <1>0, <1>4 DEF TypeOK, PollStart
  <2>1. TypeOK'
    BY <1>0, <1>4, <2>0 DEF TypeOK, PollStart, prioVars, flagVars, PcStates
  <2>2. Quiet
    BY <1>0, <1>4 DEF TypeOK, PollStart, Quiet, prioVars, flagVars
  <2> QED BY <2>1, <2>2, QuietInv
<1>5. ASSUME NEW p \in Prios, PollSetDue(p) PROVE IInv'
  <2>1. TypeOK'
    BY <1>0, <1>5 DEF TypeOK, PollSetDue, prioVars, flagVars, PcStates
  <2>2. Quiet
    BY <1>0, <1>5 DEF TypeOK, PollSetDue, Quiet, prioVars, flagVars
  <2> QED BY <2>1, <2>2, QuietInv
<1>6. ASSUME NEW p \in Prios, HandlerReturn(p) PROVE IInv'
  <2>1. TypeOK'
    BY <1>0, <1>6 DEF TypeOK, HandlerReturn, prioVars, flagVars, PcStates
  <2>2. Quiet
    BY <1>0, <1>6 DEF TypeOK, HandlerReturn, InHandler, Quiet, prioVars, flagVars
  <2> QED BY <2>1, <2>2, QuietInv
<1>7. ASSUME NEW p \in Prios, NEW b \in BOOLEAN, SetLimitted(p, b) PROVE IInv'
  <2>1. TypeOK'
    BY <1>0, <1>7 DEF TypeOK, SetLimitted, prioVars, flagVars, pollVars
  <2>2. Quiet
    BY <1>7 DEF SetLimitted, Quiet, prioVars, flagVars, pollVars
  <2> QED BY <2>1, <2>2, QuietInv
<1> QED BY <1>1, <1>2, <1>3, <1>4, <1>5, <1>6, <1>7

LEMMA StutterInv ==
    ASSUME IInv, UNCHANGED vars
    PROVE  IInv'
<1>1. TypeOK'
    BY DEF IInv, TypeOK, vars
<1>2. Quiet
    BY DEF vars, Quiet, prioVars
<1> QED BY <1>1, <1>2, QuietInv

LEMMA CleanInv ==
    ASSUME IInv, NEW p \in Prios, Clean(p)
    PROVE  IInv'
<1> DEFINE e == cur[p]
<1>1. TypeOK /\ e \in Edas /\ cur_priority[e] = p /\ is_ready[e]
  <2>1. TypeOK /\ pc[p] = "dispatch"
    BY DEF IInv, Clean, InHandler
  <2>2. e # NoEda
    BY <2>1 DEF IInv, CurInv
  <2> QED BY <2>1, <2>2, QueueFacts DEF IInv, CurInv
<1>2. TypeOK'
    BY <1>1 DEF TypeOK, Clean, prioVars, flagVars, pollVars
<1>3. /\ UNCHANGED <<rdy_list, cur, is_ready, cur_priority, new_priority, level,
                     swi, stack, pc, eda, node_eda, pulled>>
      /\ \A x \in Edas : x # e => evt_list'[x] = evt_list[x]
    BY <1>1 DEF TypeOK, Clean, prioVars, pollVars
<1>4. CurInv'
    BY <1>1, <1>3 DEF IInv, CurInv
<1>5. ListInv' /\ LoanInv' /\ StackInv' /\ WakeInv' /\ NextIsListed'
    BY <1>3 DEF IInv, ListInv, Ready, LoanInv, RaiseIsTemporary, StackInv, WakeInv,
                NextIsListed
<1> QED BY <1>2, <1>4, <1>5 DEF IInv

LEMMA SwiEnterInv ==
    ASSUME IInv, NEW p \in Prios, SwiEnter(p)
    PROVE  IInv'
<1>1. /\ TypeOK /\ stack \in Seq(Prios) /\ p \notin ToSet(stack)
      /\ stack' = <<p>> \o stack /\ pc' = [pc EXCEPT ![p] = "poll"]
      /\ swi' = swi \ {p} /\ pc \in [Prios -> PcStates]
      /\ UNCHANGED <<rdy_list, cur, evt_list, is_ready, cur_priority, new_priority,
                     level, eda, node_eda, pulled>>
    BY DEF IInv, TypeOK, SwiEnter, prioVars
<1>2. /\ stack' \in Seq(Prios) /\ Len(stack') = Len(stack) + 1 /\ stack'[1] = p
      /\ \A i \in 1 .. Len(stack) : stack'[i + 1] = stack[i]
      /\ ToSet(stack') = ToSet(stack) \cup {p}
    BY <1>1, ConsFacts
<1>3. /\ Len(stack) \in Nat /\ DOMAIN stack = 1 .. Len(stack)
      /\ DOMAIN stack' = 1 .. Len(stack) + 1
      /\ \A j \in DOMAIN stack' : j = 1 \/ (j - 1 \in DOMAIN stack /\ stack'[j] = stack[j - 1])
  <2>1. /\ Len(stack) \in Nat /\ DOMAIN stack = 1 .. Len(stack)
        /\ DOMAIN stack' = 1 .. Len(stack')
    BY <1>1, <1>2
  <2>2. ASSUME NEW j \in 1 .. Len(stack) + 1, j # 1
        PROVE  j - 1 \in 1 .. Len(stack) /\ stack'[j] = stack[j - 1]
    <3>1. j - 1 \in 1 .. Len(stack) /\ (j - 1) + 1 = j
      BY <2>1, <2>2
    <3> QED BY <1>2, <3>1
  <2> QED BY <1>2, <2>1, <2>2
<1>4. TypeOK'
    BY <1>1, <1>2 DEF TypeOK, SwiEnter, prioVars, flagVars, PcStates
<1>5. cur[p] = NoEda
    BY <1>1 DEF IInv, CurInv
<1>6. CurInv'
    BY <1>1, <1>2, <1>5 DEF IInv, CurInv
<1>7. StackInv'
  <2>1. \A i \in DOMAIN stack : stack[i] # p /\ stack[i] \in Prios
    BY <1>1 DEF ToSet
  <2>2. NoTwice(stack')
    BY <1>2, <1>3, <2>1 DEF IInv, StackInv, NoTwice
  <2>3. ASSUME NEW i \in DOMAIN stack', NEW j \in DOMAIN stack', i < j,
               pc'[stack'[i]] = "fini"
        PROVE  cur'[stack'[j]] # eda'[stack'[i]]
    <3>1. i # 1
      BY <1>1, <1>2, <2>3
    <3>2. i - 1 \in DOMAIN stack /\ stack'[i] = stack[i - 1]
      BY <1>3, <3>1
    <3>3. j - 1 \in DOMAIN stack /\ stack'[j] = stack[j - 1]
      BY <1>3, <2>3
    <3>4. pc[stack[i - 1]] = "fini"
      BY <1>1, <2>1, <2>3, <3>2
    <3>5. i - 1 < j - 1
      BY <1>3, <2>3
    <3> QED BY <1>1, <3>2, <3>3, <3>4, <3>5 DEF IInv, StackInv
  <2> QED BY <2>2, <2>3 DEF StackInv
<1>8. ListInv' /\ LoanInv'
    BY <1>1 DEF IInv, ListInv, Ready, LoanInv, RaiseIsTemporary
<1>9. WakeInv'
    BY <1>1, <1>2 DEF IInv, WakeInv
<1>10. NextIsListed'
    BY <1>1 DEF IInv, NextIsListed
<1> QED BY <1>4, <1>6, <1>7, <1>8, <1>9, <1>10 DEF IInv

LEMMA SwiLeaveInv ==
    ASSUME IInv, NEW p \in Prios, SwiLeave(p)
    PROVE  IInv'
<1>1. /\ TypeOK /\ Running(p) /\ pc[p] = "poll" /\ rdy_list[p] = <<>>
      /\ stack' = Tail(stack) /\ stack \in Seq(Prios) /\ stack # <<>> /\ Head(stack) = p
      /\ UNCHANGED <<rdy_list, cur, evt_list, is_ready, cur_priority, new_priority,
                     level, swi, pc, eda, node_eda, pulled>>
    BY DEF IInv, TypeOK, SwiLeave, Running, prioVars
<1>2. /\ stack' \in Seq(Prios) /\ NoTwice(stack') /\ Len(stack) \in Nat /\ Len(stack) > 0
      /\ ToSet(stack) = ToSet(stack') \cup {p}
      /\ \A i \in 1 .. Len(stack) - 1 : stack'[i] = stack[i + 1]
      /\ DOMAIN stack' = 1 .. Len(stack) - 1 /\ DOMAIN stack = 1 .. Len(stack)
  <2>1. NoTwice(stack)
    BY DEF IInv, StackInv
  <2>2. /\ NoTwice(Tail(stack)) /\ ToSet(stack) = ToSet(Tail(stack)) \cup {Head(stack)}
        /\ Tail(stack) \in Seq(Prios)
    BY <1>1, <2>1, TailFacts
  <2>3. /\ Len(stack) \in Nat /\ Len(stack) > 0
        /\ \A i \in 1 .. Len(stack) - 1 : Tail(stack)[i] = stack[i + 1]
        /\ DOMAIN Tail(stack) = 1 .. Len(stack) - 1 /\ DOMAIN stack = 1 .. Len(stack)
    BY <1>1
  <2> QED BY <1>1, <2>2, <2>3
<1>3. TypeOK'
    BY <1>1, <1>2 DEF TypeOK, SwiLeave, prioVars, flagVars
<1>4. CurInv'
  <2>1. cur[p] = NoEda
    BY <1>1 DEF IInv, CurInv
  <2> QED BY <1>1, <1>2, <2>1 DEF IInv, CurInv
<1>5. StackInv'
  <2>1. ASSUME NEW i \in DOMAIN stack', NEW j \in DOMAIN stack', i < j,
               pc'[stack'[i]] = "fini"
        PROVE  cur'[stack'[j]] # eda'[stack'[i]]
    <3>1. /\ i + 1 \in DOMAIN stack /\ j + 1 \in DOMAIN stack /\ i + 1 < j + 1
          /\ stack'[i] = stack[i + 1] /\ stack'[j] = stack[j + 1]
      BY <1>2, <2>1
    <3> QED BY <1>1, <2>1, <3>1 DEF IInv, StackInv
  <2> QED BY <1>2, <2>1 DEF StackInv
<1>6. ListInv' /\ LoanInv'
    BY <1>1 DEF IInv, ListInv, Ready, LoanInv, RaiseIsTemporary
<1>7. WakeInv'
  <2>1. ToSet(rdy_list[p]) = {}
    BY <1>1, QueueFacts, InEdas
  <2> QED BY <1>1, <1>2, <2>1 DEF IInv, WakeInv
<1>8. NextIsListed'
    BY <1>1 DEF IInv, NextIsListed
<1> QED BY <1>3, <1>4, <1>5, <1>6, <1>7, <1>8 DEF IInv

LEMMA PostInv ==
    ASSUME IInv, NEW c \in Producers, NEW e \in Edas, NEW force \in BOOLEAN,
           PostEnqueue(c, e, force)
    PROVE  IInv'
<1>1. /\ TypeOK /\ evt_list' = [evt_list EXCEPT ![e] = @ + 1]
      /\ swi' = swi \cup {cur_priority[e]} /\ cur_priority[e] \in Prios
      /\ UNCHANGED <<cur, cur_priority, new_priority, level, stack, pc, eda,
                     node_eda, pulled>>
      /\ evt_list \in [Edas -> Nat]
    BY EdaFacts DEF IInv, TypeOK, PostEnqueue, prioVars, pollVars
<1>2. /\ rdy_list' \in [Prios -> Seq(Edas)] /\ is_ready' \in [Edas -> BOOLEAN]
      /\ Listed(rdy_list', Ready', cur_priority)
      /\ SameBut(e, rdy_list, rdy_list')
      /\ \A p \in Prios : e \in ToSet(rdy_list'[p]) => p = cur_priority[e]
      /\ \A x \in Edas : x # e => is_ready'[x] = is_ready[x]
      /\ \A x \in Edas : is_ready[x] => is_ready'[x]
      /\ \A p \in Prios : ToSet(rdy_list[p]) \subseteq ToSet(rdy_list'[p])
  <2>1. CASE is_ready[e]
    <3>1. UNCHANGED <<rdy_list, is_ready>>
      BY <2>1 DEF PostEnqueue
    <3> QED BY <1>1, <3>1 DEF IInv, ListInv, Listed, Ready, SameBut, TypeOK
  <2>2. CASE ~is_ready[e]
    <3>1. /\ is_ready' = [is_ready EXCEPT ![e] = TRUE]
          /\ rdy_list' = [rdy_list EXCEPT ![cur_priority[e]] = Append(@, e)]
      BY <2>2 DEF PostEnqueue
    <3>2. PICK L \in [Prios -> Seq(Edas)], R \in SUBSET Edas,
               P \in [Edas -> Prios] :
             L = rdy_list /\ R = Ready /\ P = cur_priority
      BY <1>1 DEF TypeOK, Ready
    <3>3. Listed(L, R, P) /\ e \notin ToSet(L[P[e]])
      BY <2>2, <3>2, <1>1 DEF IInv, ListInv, Listed, Ready
    <3>4. PICK M \in [Prios -> Seq(Edas)] : Enqueued(L, R, P, e, M)
      BY <3>3, Enqueue
    <3>5. M = rdy_list'
      BY <3>1, <3>2, <3>4 DEF Enqueued
    <3>6. \A p \in Prios : e \in ToSet(M[p]) => p = P[e]
      BY <3>4 DEF Listed, Enqueued
    <3>7. /\ is_ready' \in [Edas -> BOOLEAN]
          /\ \A x \in Edas : x # e => is_ready'[x] = is_ready[x]
          /\ \A x \in Edas : is_ready[x] => is_ready'[x]
          /\ Ready' = Ready \cup {e}
      BY <3>1, <1>1 DEF TypeOK, Ready
    <3> QED BY <3>2, <3>4, <3>5, <3>6, <3>7 DEF Enqueued
  <2> QED BY <2>1, <2>2
<1>3. TypeOK'
  <2>1. evt_list' \in [Edas -> Nat] /\ swi' \subseteq Prios
    BY <1>1 DEF TypeOK
  <2> QED BY <1>1, <1>2, <2>1 DEF TypeOK, PostEnqueue, prioVars, flagVars, pollVars
<1>4. ListInv'
    BY <1>1, <1>2 DEF ListInv
<1>5. CurInv'
  <2>1. \A p \in Prios : cur[p] # NoEda => cur[p] \in Edas
    BY <1>1 DEF TypeOK
  <2>2. evt_list'[e] > 0 /\ \A x \in Edas : x # e => evt_list'[x] = evt_list[x]
    BY <1>1
  <2>3. \A x \in Edas : is_ready'[x] => evt_list'[x] > 0 \/ cur[cur_priority[x]] = x
    BY <1>2, <2>2 DEF IInv, CurInv
  <2>4. \A p \in Prios : cur[p] # NoEda =>
          /\ cur_priority[cur[p]] = p /\ is_ready'[cur[p]]
          /\ eda[p] = cur[p] /\ p \in ToSet(stack)
    BY <1>2, <2>1 DEF IInv, CurInv
  <2> QED BY <1>1, <2>3, <2>4 DEF IInv, CurInv
<1>6. LoanInv' /\ StackInv'
    BY <1>1 DEF IInv, LoanInv, RaiseIsTemporary, StackInv
<1>7. WakeInv'
  <2> SUFFICES ASSUME NEW p \in Prios, NEW x \in ToSet(rdy_list'[p])
               PROVE  p \in swi' \/ p \in ToSet(stack')
    BY DEF WakeInv
  <2>1. x \in Edas
    BY <1>2, InEdas
  <2>2. CASE x = e
    BY <1>1, <1>2, <2>2
  <2>3. CASE x # e
    <3>1. x \in ToSet(rdy_list[p])
      BY <1>2, <2>1, <2>3 DEF SameBut
    <3> QED BY <1>1, <3>1 DEF IInv, WakeInv
  <2> QED BY <2>2, <2>3
<1>8. NextIsListed'
    BY <1>1, <1>2 DEF IInv, NextIsListed
<1> QED BY <1>3, <1>4, <1>5, <1>6, <1>7, <1>8 DEF IInv

\* poll goes on with an eda of its list; if it has no event, or is not of the
\* list, the queue has lost it to a higher one.
LEMMA TakeInv ==
    ASSUME IInv, NEW p \in Prios, NEW e \in Edas, Running(p), Take(p, e),
           pc[p] \in {"poll", "next"}, e \in ToSet(rdy_list[p]) \/ p \in pulled
    PROVE  IInv'
<1>1. /\ TypeOK /\ p \in ToSet(stack) /\ stack[1] = p /\ 1 \in DOMAIN stack
      /\ UNCHANGED <<rdy_list, is_ready, cur_priority, new_priority, level, swi, stack>>
      /\ Len(stack) \in Nat /\ stack \in Seq(Prios)
    BY RunningFacts DEF IInv, Take, prioVars
<1>2. cur[p] = NoEda
    BY DEF IInv, CurInv
<1>3. CASE ~(e \in ToSet(rdy_list[p]) /\ evt_list[e] > 0)
  <2>1. pc' = [pc EXCEPT ![p] = "fault"] /\ UNCHANGED <<cur, eda, evt_list, node_eda, pulled>>
    BY <1>3 DEF Take
  <2>2. p \in pulled
    <3>1. ASSUME e \in ToSet(rdy_list[p]) PROVE evt_list[e] > 0
      <4>1. is_ready[e] /\ cur_priority[e] = p
        BY <3>1 DEF IInv, ListInv, Listed, Ready
      <4>2. cur[cur_priority[e]] # e
        BY <1>2, <4>1, PrioFacts
      <4> QED BY <4>1, <4>2 DEF IInv, CurInv
    <3> QED BY <1>3, <3>1
  <2>3. TypeOK'
    BY <1>1, <2>1 DEF TypeOK, Take, prioVars, flagVars, PcStates
  <2>4. CurInv'
    BY <1>1, <1>2, <2>1 DEF TypeOK, IInv, CurInv
  <2>5. StackInv'
    BY <1>1, <2>1 DEF TypeOK, IInv, StackInv
  <2>6. ListInv' /\ LoanInv' /\ WakeInv'
    BY <1>1, <2>1 DEF IInv, ListInv, Ready, LoanInv, RaiseIsTemporary, WakeInv
  <2>7. NextIsListed'
    BY <1>1, <2>1, <2>2 DEF TypeOK, IInv, NextIsListed
  <2> QED BY <2>3, <2>4, <2>5, <2>6, <2>7 DEF IInv
<1>4. CASE e \in ToSet(rdy_list[p]) /\ evt_list[e] > 0
  <2>1. /\ cur' = [cur EXCEPT ![p] = e] /\ eda' = [eda EXCEPT ![p] = e]
        /\ evt_list' = [evt_list EXCEPT ![e] = @ - 1]
        /\ pc' = [pc EXCEPT ![p] = "start"]
        /\ node_eda' = [node_eda EXCEPT ![p] = NoEda]
        /\ pulled' = pulled \ {p}
    BY <1>4 DEF Take
  <2>2. is_ready[e] /\ cur_priority[e] = p
    BY <1>4 DEF IInv, ListInv, Listed, Ready
  <2>3. /\ cur'[p] = e /\ eda'[p] = e /\ pc'[p] = "start"
        /\ \A q \in Prios : q # p => /\ cur'[q] = cur[q] /\ eda'[q] = eda[q]
                                     /\ pc'[q] = pc[q] /\ node_eda'[q] = node_eda[q]
        /\ \A x \in Edas : x # e => evt_list'[x] = evt_list[x]
    BY <1>1, <2>1 DEF TypeOK
  <2>4. TypeOK'
    <3>1. evt_list' \in [Edas -> Nat]
      <4>1. evt_list[e] - 1 \in Nat
        BY <1>1, <1>4, EdaFacts
      <4> QED BY <1>1, <2>1, <4>1 DEF TypeOK
    <3> QED BY <1>1, <2>1, <3>1 DEF TypeOK, Take, prioVars, flagVars, PcStates
  <2>5. CurInv'
    <3>1. \A q \in Prios : cur'[q] # NoEda =>
            /\ cur_priority[cur'[q]] = q /\ is_ready[cur'[q]]
            /\ eda'[q] = cur'[q] /\ q \in ToSet(stack)
      BY <1>1, <2>2, <2>3 DEF IInv, CurInv
    <3>2. \A q \in Prios :
            cur'[q] # NoEda <=> pc'[q] \in {"start", "dispatch", "finish"}
      BY <2>3, PrioFacts DEF IInv, CurInv
    <3>3. \A q \in Prios : pc'[q] = "fini" => eda'[q] # NoEda
      BY <2>3 DEF IInv, CurInv
    <3>4. ASSUME NEW x \in Edas, is_ready[x]
          PROVE  evt_list'[x] > 0 \/ cur'[cur_priority[x]] = x
      <4>1. CASE x = e
        BY <2>2, <2>3, <4>1
      <4>2. CASE x # e
        <5>1. evt_list'[x] = evt_list[x] /\ cur_priority[x] \in Prios
          BY <1>1, <2>3, <4>2, EdaFacts
        <5>2. cur[cur_priority[x]] = x => cur_priority[x] # p
          BY <1>2, PrioFacts
        <5> QED BY <2>3, <3>4, <5>1, <5>2 DEF IInv, CurInv
      <4> QED BY <4>1, <4>2
    <3> QED BY <1>1, <3>1, <3>2, <3>3, <3>4 DEF CurInv
  <2>6. LoanInv'
    <3>1. new_priority[e] = 0
      BY <1>2, <2>2, PrioFacts DEF IInv, LoanInv
    <3>2. ASSUME NEW x \in Edas, new_priority[x] # 0
          PROVE  cur'[cur_priority[x]] = x /\ new_priority[x] # cur_priority[x]
      <4>1. /\ cur[cur_priority[x]] = x /\ new_priority[x] # cur_priority[x]
            /\ cur_priority[x] \in Prios
        BY <1>1, <3>2, EdaFacts DEF IInv, LoanInv
      <4>2. cur_priority[x] # p
        BY <1>2, <4>1, PrioFacts
      <4> QED BY <2>3, <4>1, <4>2
    <3>3. \A q \in Prios : level[q] # q => cur'[q] # NoEda /\ new_priority[cur'[q]] # 0
      BY <1>2, <2>3 DEF IInv, LoanInv, RaiseIsTemporary
    <3> QED BY <1>1, <3>2, <3>3 DEF LoanInv, RaiseIsTemporary
  <2>7. StackInv'
    <3>1. ASSUME NEW i \in DOMAIN stack, NEW j \in DOMAIN stack, i < j,
                 pc'[stack[i]] = "fini"
          PROVE  cur'[stack[j]] # eda'[stack[i]]
      <4>1. stack[i] \in Prios /\ stack[j] \in Prios /\ stack[i] # p
        BY <1>1, <2>3, <3>1
      <4>2. j # 1
        BY <1>1, <3>1
      <4>3. stack[j] # p
        BY <1>1, <4>2 DEF IInv, StackInv, NoTwice
      <4> QED BY <2>3, <3>1, <4>1, <4>3 DEF IInv, StackInv
    <3> QED BY <1>1, <3>1 DEF IInv, StackInv
  <2>8. ListInv' /\ WakeInv'
    BY <1>1 DEF IInv, ListInv, Ready, WakeInv
  <2>9. NextIsListed'
    BY <1>1, <2>1, <2>3 DEF IInv, NextIsListed
  <2> QED BY <2>4, <2>5, <2>6, <2>7, <2>8, <2>9 DEF IInv
<1> QED BY <1>3, <1>4

LEMMA TerminateLists ==
    ASSUME IInv, NEW e \in Edas, Terminate(e), UNCHANGED cur_priority
    PROVE  /\ rdy_list' \in [Prios -> Seq(Edas)] /\ is_ready' \in [Edas -> BOOLEAN]
           /\ evt_list' \in [Edas -> Nat] /\ pool' \in Nat
           /\ live' \subseteq Edas /\ pulled' \subseteq Prios
           /\ ListInv' /\ SameBut(e, rdy_list, rdy_list')
           /\ \A p \in Prios : ToSet(rdy_list'[p]) \subseteq ToSet(rdy_list[p])
           /\ ~is_ready'[e]
           /\ \A x \in Edas : x # e => /\ is_ready'[x] = is_ready[x]
                                       /\ evt_list'[x] = evt_list[x]
<1>1. /\ TypeOK /\ is_ready' = [is_ready EXCEPT ![e] = FALSE]
      /\ evt_list' = [evt_list EXCEPT ![e] = 0] /\ pool' = pool + evt_list[e]
      /\ live' = live \ {e} /\ pulled' = pulled \cup Remembering(e)
    BY DEF IInv, Terminate
<1>2. PICK L \in [Prios -> Seq(Edas)], R \in SUBSET Edas, P \in [Edas -> Prios] :
         L = rdy_list /\ R = Ready /\ P = cur_priority
    BY <1>1 DEF TypeOK, Ready
<1>3. Listed(L, R, P)
    BY <1>2 DEF IInv, ListInv
<1>4. Ready' = Ready \ {e}
    BY <1>1 DEF TypeOK, Ready
<1>5. /\ rdy_list' \in [Prios -> Seq(Edas)] /\ Listed(rdy_list', R \ {e}, P)
      /\ SameBut(e, L, rdy_list')
      /\ \A p \in Prios : ToSet(rdy_list'[p]) \subseteq ToSet(L[p])
  <2>1. CASE is_ready[e]
    <3>1. e \in ToSet(L[P[e]])
      BY <1>2, <1>3, <2>1 DEF Listed, Ready
    <3>2. PICK M \in [Prios -> Seq(Edas)] : Dropped(L, R, P, e, M)
      BY <1>3, <3>1, Drop
    <3>3. M = rdy_list'
      BY <1>2, <2>1, <3>2 DEF Terminate, Dropped
    <3> QED BY <3>2, <3>3 DEF Dropped
  <2>2. CASE ~is_ready[e]
    <3>1. rdy_list' = L /\ R \ {e} = R
      BY <1>2, <2>2 DEF Terminate, Ready
    <3> QED BY <1>3, <3>1 DEF SameBut
  <2> QED BY <2>1, <2>2
<1>6. ListInv' /\ SameBut(e, rdy_list, rdy_list')
    BY <1>2, <1>4, <1>5 DEF ListInv
<1>7. pool' \in Nat /\ evt_list' \in [Edas -> Nat]
    BY <1>1 DEF TypeOK
<1>8. /\ is_ready' \in [Edas -> BOOLEAN] /\ ~is_ready'[e]
      /\ \A x \in Edas : x # e => /\ is_ready'[x] = is_ready[x]
                                  /\ evt_list'[x] = evt_list[x]
    BY <1>1 DEF TypeOK
<1>9. live' \subseteq Edas /\ pulled' \subseteq Prios
    BY <1>1 DEF TypeOK, Remembering
<1> QED BY <1>2, <1>5, <1>6, <1>7, <1>8, <1>9

LEMMA TerminateInv ==
    ASSUME IInv, NEW e \in Edas, Terminate(e), TypeOK',
           \A p \in Prios : cur[p] # e,
           UNCHANGED <<cur, cur_priority, new_priority, level, swi, stack, node_eda>>,
           \A p \in Prios : \/ pc'[p] = pc[p] /\ eda'[p] = eda[p]
                            \/ pc[p] = "fini" /\ pc'[p] = "next",
           Unlocked
    PROVE  IInv'
<1>1. /\ ListInv' /\ SameBut(e, rdy_list, rdy_list') /\ ~is_ready'[e]
      /\ \A p \in Prios : ToSet(rdy_list'[p]) \subseteq ToSet(rdy_list[p])
      /\ \A x \in Edas : x # e => /\ is_ready'[x] = is_ready[x]
                                  /\ evt_list'[x] = evt_list[x]
    BY TerminateLists
<1>2. TypeOK /\ pulled' = pulled \cup Remembering(e)
    BY DEF IInv, Terminate
<1>3. CurInv'
  <2>1. ASSUME NEW p \in Prios, cur[p] # NoEda
        PROVE  /\ cur_priority[cur[p]] = p /\ is_ready'[cur[p]]
               /\ eda'[p] = cur[p] /\ p \in ToSet(stack)
    <3>1. cur[p] \in Edas /\ cur[p] # e
      BY <1>2, <2>1, QueueFacts
    <3>2. pc[p] # "fini"
      BY <2>1 DEF IInv, CurInv
    <3> QED BY <1>1, <2>1, <3>1, <3>2 DEF IInv, CurInv
  <2>2. \A p \in Prios :
          cur[p] # NoEda <=> pc'[p] \in {"start", "dispatch", "finish"}
    BY DEF IInv, CurInv
  <2>3. \A p \in Prios : pc'[p] = "fini" => eda'[p] # NoEda
    BY DEF IInv, CurInv
  <2>4. \A x \in Edas : is_ready'[x] => evt_list'[x] > 0 \/ cur[cur_priority[x]] = x
    BY <1>1 DEF IInv, CurInv
  <2> QED BY <2>1, <2>2, <2>3, <2>4 DEF CurInv
<1>4. LoanInv'
    BY DEF IInv, LoanInv, RaiseIsTemporary
<1>5. StackInv'
  <2>1. \A i \in DOMAIN stack : stack[i] \in Prios
    BY <1>2 DEF TypeOK
  <2>2. \A p \in Prios : pc'[p] = "fini" => pc[p] = "fini" /\ eda'[p] = eda[p]
    OBVIOUS
  <2> QED BY <2>1, <2>2 DEF IInv, StackInv
<1>6. WakeInv'
    BY <1>1 DEF IInv, WakeInv
<1>7. NextIsListed'
  <2> SUFFICES ASSUME NEW p \in Prios, p \notin pulled'
               PROVE  /\ pc'[p] # "fault"
                      /\ pc'[p] \in {"setdue", "fini", "next"} /\ node_eda[p] # NoEda
                            => node_eda[p] \in ToSet(rdy_list'[p])
    BY DEF NextIsListed
  <2>1. p \notin pulled /\ p \notin Remembering(e)
    BY <1>2
  <2>2. pc'[p] # "fault"
    BY <2>1 DEF IInv, NextIsListed
  <2>3. ASSUME pc'[p] \in {"setdue", "fini", "next"}, node_eda[p] # NoEda
        PROVE  node_eda[p] \in ToSet(rdy_list'[p])
    <3>1. pc[p] \in {"setdue", "fini"}
      BY <2>3 DEF Unlocked
    <3>2. node_eda[p] \in ToSet(rdy_list[p]) /\ node_eda[p] \in Edas /\ node_eda[p] # e
      BY <1>2, <2>1, <2>3, <3>1, QueueFacts DEF IInv, NextIsListed, Remembering
    <3> QED BY <1>1, <3>2 DEF SameBut
  <2> QED BY <2>2, <2>3
<1> QED BY <1>1, <1>3, <1>4, <1>5, <1>6, <1>7 DEF IInv

LEMMA PollFiniInv ==
    ASSUME IInv, NEW p \in Prios, PollFini(p)
    PROVE  IInv'
<1>1. /\ TypeOK /\ Running(p) /\ Unlocked /\ pc[p] = "fini" /\ Terminate(eda[p])
      /\ pc' = [pc EXCEPT ![p] = "next"] /\ eda' = [eda EXCEPT ![p] = NoEda]
      /\ UNCHANGED <<cur, cur_priority, new_priority, level, swi, stack, node_eda>>
    BY DEF IInv, PollFini, prioVars
<1>2. PICK e \in Edas : e = eda[p]
    BY <1>1, QueueFacts DEF IInv, CurInv
<1>3. \A q \in Prios : cur[q] # e
  <2> SUFFICES ASSUME NEW q \in Prios, cur[q] = e PROVE FALSE
    OBVIOUS
  <2>1. q \in ToSet(stack) /\ q # p /\ pc[q] \in {"start", "dispatch", "finish"}
    BY <1>1, PrioFacts DEF IInv, CurInv
  <2>2. PICK j \in DOMAIN stack : stack[j] = q
    BY <2>1 DEF ToSet
  <2>3. stack[1] = p /\ 1 \in DOMAIN stack /\ j # 1 /\ 1 < j
    <3>1. stack[1] = p /\ 1 \in DOMAIN stack /\ stack \in Seq(Prios)
      BY <1>1, RunningFacts
    <3> QED BY <2>1, <2>2, <3>1
  <2> QED BY <1>1, <1>2, <2>2, <2>3 DEF IInv, StackInv
<1>4. TypeOK'
  <2>1. Terminate(e)
    BY <1>1, <1>2
  <2>2. /\ rdy_list' \in [Prios -> Seq(Edas)] /\ is_ready' \in [Edas -> BOOLEAN]
        /\ evt_list' \in [Edas -> Nat] /\ pool' \in Nat
        /\ live' \subseteq Edas /\ pulled' \subseteq Prios
    BY <1>1, <2>1, TerminateLists
  <2>3. pc' \in [Prios -> PcStates] /\ eda' \in [Prios -> Edas \cup {NoEda}]
    BY <1>1 DEF TypeOK, PcStates
  <2> QED BY <1>1, <2>2, <2>3 DEF TypeOK, PollFini
<1>5. \A q \in Prios : \/ pc'[q] = pc[q] /\ eda'[q] = eda[q]
                       \/ pc[q] = "fini" /\ pc'[q] = "next"
    BY <1>1 DEF TypeOK
<1>6. Terminate(e)
    BY <1>1, <1>2
<1> QED BY <1>1, <1>3, <1>4, <1>5, <1>6, TerminateInv

LEMMA FiniInv ==
    ASSUME IInv, NEW p \in Prios, NEW e \in Edas, Fini(p, e)
    PROVE  IInv'
<1>1. /\ TypeOK /\ Unlocked
      /\ UNCHANGED <<cur, cur_priority, new_priority, level, swi, stack, node_eda, pc, eda>>
    BY DEF IInv, Fini, InHandler, prioVars, pollVars
<1>2. CASE cur[cur_priority[e]] = e
  <2>1. UNCHANGED <<rdy_list, is_ready, evt_list, pool, live, pulled>>
    BY <1>2 DEF Fini
  <2>2. TypeOK'
    BY <1>1, <1>2, <2>1 DEF TypeOK, Fini
  <2>3. Quiet
    BY <1>1, <2>1 DEF Quiet, prioVars
  <2> QED BY <2>2, <2>3, QuietInv
<1>3. CASE cur[cur_priority[e]] # e
  <2>1. Terminate(e) /\ UNCHANGED is_to_exit
    BY <1>3 DEF Fini
  <2>2. /\ rdy_list' \in [Prios -> Seq(Edas)] /\ is_ready' \in [Edas -> BOOLEAN]
        /\ evt_list' \in [Edas -> Nat] /\ pool' \in Nat
        /\ live' \subseteq Edas /\ pulled' \subseteq Prios
    BY <1>1, <2>1, TerminateLists
  <2>3. TypeOK'
    BY <1>1, <2>1, <2>2 DEF TypeOK, Fini
  <2>4. \A q \in Prios : cur[q] # e
    BY <1>3, PrioFacts DEF IInv, CurInv
  <2> QED BY <1>1, <2>1, <2>3, <2>4, TerminateInv
<1> QED BY <1>2, <1>3

-----------------------------------------------------------------------------
(* Priorities *)

\* F[x] is the flag is_ready of the edas x of R.
Flags(F, R) == \A x \in Edas : F[x] <=> x \in R

\* __vsf_eda_update_priotiry moves a ready eda and activates its new queue.
Updated(L, R, e, q) ==
    /\ rdy_list' \in [Prios -> Seq(Edas)] /\ swi \subseteq swi'
    /\ swi' \subseteq Prios /\ cur_priority' = [cur_priority EXCEPT ![e] = q]
    /\ cur_priority' \in [Edas -> Prios]
    /\ Listed(rdy_list', R, cur_priority') /\ SameBut(e, L, rdy_list')
    /\ \A p \in Prios : e \in ToSet(rdy_list'[p]) =>
          e \in R /\ p = q /\ (evt_list[e] > 0 => q \in swi')

LEMMA UpdateFacts ==
    ASSUME TypeOK, NEW L \in [Prios -> Seq(Edas)], NEW F \in [Edas -> BOOLEAN],
           NEW R \in SUBSET Edas, Flags(F, R), Listed(L, R, cur_priority),
           NEW e \in Edas, NEW q \in Prios, q # cur_priority[e],
           UpdatePriority(e, q, L, F)
    PROVE  Updated(L, R, e, q)
<1>1. PICK P \in [Edas -> Prios] : P = cur_priority
    BY DEF TypeOK
<1>2. cur_priority' = [P EXCEPT ![e] = q] /\ cur_priority' \in [Edas -> Prios]
    BY <1>1 DEF UpdatePriority
<1>3. Listed(L, R, P) /\ q # P[e]
    BY <1>1
<1>4. CASE e \in R
  <2>1. /\ rdy_list' = [L EXCEPT ![P[e]] = Unlink(@, e), ![q] = Append(@, e)]
        /\ swi' = IF evt_list[e] > 0 THEN swi \cup {q} ELSE swi
    BY <1>1, <1>4 DEF UpdatePriority, Flags
  <2>2. e \in ToSet(L[P[e]])
    BY <1>3, <1>4 DEF Listed
  <2>3. PICK M \in [Prios -> Seq(Edas)] : Moved(L, R, P, e, q, M)
    BY <1>3, <2>2, Move
  <2>4. M = rdy_list'
    BY <2>1, <2>3 DEF Moved
  <2>5. /\ swi \subseteq swi' /\ swi' \subseteq Prios
        /\ (evt_list[e] > 0 => q \in swi')
    BY <2>1 DEF TypeOK
  <2> QED BY <1>1, <1>2, <1>4, <2>3, <2>4, <2>5 DEF Moved, Updated
<1>5. CASE e \notin R
  <2>1. rdy_list' = L /\ swi' = swi
    BY <1>5 DEF UpdatePriority, Flags
  <2>2. e \notin ToSet(L[P[e]]) /\ \A p \in Prios : e \notin ToSet(L[p])
    BY <1>3, <1>5 DEF Listed
  <2>3. Listed(L, R, [P EXCEPT ![e] = q])
    BY <1>3, <2>2, Retarget
  <2>4. SameBut(e, L, L)
    BY DEF SameBut
  <2> QED BY <1>1, <1>2, <2>1, <2>2, <2>3, <2>4 DEF TypeOK, Updated
<1> QED BY <1>4, <1>5

\* __vsf_eda_set_priority moves an eda at once, or leaves it to the end of the
\* dispatch.
LEMMA SetPriorityInv ==
    ASSUME IInv, NEW e \in Edas, NEW q \in Prios, SetPriority(e, q), Unlocked,
           UNCHANGED <<cur, evt_list, is_ready, flagVars, pool, pollVars, target>>,
           pulled \subseteq pulled', pulled' \subseteq Prios,
           cur[cur_priority[e]] # e => Remembering(e) \subseteq pulled'
    PROVE  IInv'
<1>1. /\ TypeOK /\ q # cur_priority[e]
      /\ UNCHANGED <<cur, evt_list, is_ready, stack, pc, eda, node_eda>>
    BY DEF IInv, SetPriority, pollVars
<1>2. Ready \in SUBSET Edas /\ \A x \in Edas : is_ready[x] <=> x \in Ready
    BY DEF Ready
<1>3. new_priority[e] # 0 => cur[cur_priority[e]] = e
    BY DEF IInv, LoanInv
<1>4. CASE cur[cur_priority[e]] # e
  <2>1. UpdatePriority(e, q, rdy_list, is_ready) /\ UNCHANGED <<new_priority, level>>
    BY <1>3, <1>4 DEF SetPriority
  <2>2. PICK L \in [Prios -> Seq(Edas)], F \in [Edas -> BOOLEAN], R \in SUBSET Edas :
           L = rdy_list /\ F = is_ready /\ R = Ready
    BY <1>1, <1>2 DEF TypeOK
  <2>3. UpdatePriority(e, q, L, F) /\ Listed(L, R, cur_priority)
    BY <2>1, <2>2 DEF IInv, ListInv
  <2>4. Flags(F, R)
    BY <1>2, <2>2 DEF Flags
  <2>5. /\ rdy_list' \in [Prios -> Seq(Edas)] /\ swi \subseteq swi'
        /\ swi' \subseteq Prios /\ cur_priority' = [cur_priority EXCEPT ![e] = q]
        /\ cur_priority' \in [Edas -> Prios]
        /\ Listed(rdy_list', R, cur_priority') /\ SameBut(e, L, rdy_list')
        /\ \A p \in Prios : e \in ToSet(rdy_list'[p]) =>
              e \in R /\ p = q /\ (evt_list[e] > 0 => q \in swi')
    <3>1. Updated(L, R, e, q)
      BY <1>1, <2>3, <2>4, UpdateFacts
    <3> QED BY <3>1 DEF Updated
  <2>6. Ready' = Ready
    BY <1>1 DEF Ready
  <2>7. \A x \in Edas : x # e => cur_priority'[x] = cur_priority[x]
    BY <1>1, <2>5 DEF TypeOK
  <2>8. \A p \in Prios : cur[p] # e
    BY <1>4, PrioFacts DEF IInv, CurInv
  <2>9. TypeOK'
    BY <1>1, <2>1, <2>5 DEF TypeOK, flagVars
  <2>10. ListInv'
    BY <2>2, <2>5, <2>6 DEF ListInv
  <2>11. CurInv'
    <3>1. ASSUME NEW p \in Prios, cur[p] # NoEda PROVE cur_priority'[cur[p]] = p
      <4>1. cur[p] \in Edas /\ cur[p] # e
        BY <1>1, <2>8, <3>1, QueueFacts
      <4> QED BY <2>7, <3>1, <4>1 DEF IInv, CurInv
    <3>2. ASSUME NEW x \in Edas, is_ready[x]
          PROVE  evt_list[x] > 0 \/ cur[cur_priority'[x]] = x
      <4>1. CASE x = e
        BY <1>4, <3>2, <4>1 DEF IInv, CurInv
      <4>2. CASE x # e
        BY <2>7, <3>2, <4>2 DEF IInv, CurInv
      <4> QED BY <4>1, <4>2
    <3> QED BY <1>1, <3>1, <3>2 DEF IInv, CurInv
  <2>12. LoanInv'
    <3>1. \A x \in Edas : new_priority[x] # 0 => x # e
      BY <1>3, <1>4
    <3> QED BY <1>1, <2>1, <2>7, <3>1 DEF IInv, LoanInv, RaiseIsTemporary
  <2>13. StackInv'
    BY <1>1 DEF IInv, StackInv
  <2>14. WakeInv'
    <3> SUFFICES ASSUME NEW p \in Prios, NEW x \in ToSet(rdy_list'[p])
                 PROVE  p \in swi' \/ p \in ToSet(stack)
      BY <1>1 DEF WakeInv
    <3>1. x \in Edas
      BY <2>5, InEdas
    <3>2. CASE x = e
      <4>1. is_ready[e] /\ p = q /\ (evt_list[e] > 0 => q \in swi')
        BY <1>2, <2>2, <2>5, <3>2
      <4>2. evt_list[e] > 0
        BY <1>4, <4>1 DEF IInv, CurInv
      <4> QED BY <4>1, <4>2
    <3>3. CASE x # e
      <4>1. x \in ToSet(rdy_list[p])
        BY <2>2, <2>5, <3>1, <3>3 DEF SameBut
      <4> QED BY <2>5, <4>1 DEF IInv, WakeInv
    <3> QED BY <3>2, <3>3
  <2>15. NextIsListed'
    <3> SUFFICES ASSUME NEW p \in Prios, p \notin pulled'
                 PROVE  /\ pc[p] # "fault"
                        /\ pc[p] \in {"setdue", "fini", "next"} /\ node_eda[p] # NoEda
                              => node_eda[p] \in ToSet(rdy_list'[p])
      BY <1>1 DEF NextIsListed
    <3>1. p \notin pulled /\ p \notin Remembering(e)
      BY <1>4
    <3>2. pc[p] # "fault"
      BY <3>1 DEF IInv, NextIsListed
    <3>3. ASSUME pc[p] \in {"setdue", "fini", "next"}, node_eda[p] # NoEda
          PROVE  node_eda[p] \in ToSet(rdy_list'[p])
      <4>1. pc[p] \in {"setdue", "fini"}
        BY <3>3 DEF Unlocked
      <4>2. /\ node_eda[p] \in ToSet(rdy_list[p]) /\ node_eda[p] \in Edas
            /\ node_eda[p] # e
        BY <1>1, <3>1, <3>3, <4>1, QueueFacts DEF IInv, NextIsListed, Remembering
      <4> QED BY <2>2, <2>5, <4>2 DEF SameBut
    <3> QED BY <3>2, <3>3
  <2> QED BY <2>9, <2>10, <2>11, <2>12, <2>13, <2>14, <2>15 DEF IInv
<1>5. CASE cur[cur_priority[e]] = e
  <2> DEFINE p == cur_priority[e]
  <2>1. /\ p \in Prios /\ cur[p] = e /\ p # q
        /\ new_priority' = [new_priority EXCEPT ![e] = q]
        /\ level' = IF q > p THEN [level EXCEPT ![p] = q] ELSE level
        /\ UNCHANGED <<rdy_list, swi, cur_priority>>
    BY <1>1, <1>5, EdaFacts DEF SetPriority
  <2> HIDE DEF p
  <2>2. /\ new_priority'[e] = q /\ q # 0 /\ q \in 0 .. Levels
        /\ \A x \in Edas : x # e => new_priority'[x] = new_priority[x]
        /\ \A r \in Prios : r # p => level'[r] = level[r]
        /\ level' \in [Prios -> Prios] /\ new_priority' \in [Edas -> 0 .. Levels]
    BY <1>1, <2>1, PrioFacts DEF TypeOK
  <2>3. TypeOK'
    BY <1>1, <2>1, <2>2 DEF TypeOK, flagVars
  <2>4. LoanInv'
    <3>1. \A x \in Edas : new_priority'[x] # 0 =>
             cur[cur_priority[x]] = x /\ new_priority'[x] # cur_priority[x]
      BY <1>1, <1>5, <2>2 DEF IInv, LoanInv
    <3>2. ASSUME NEW r \in Prios, level'[r] # r
          PROVE  cur[r] # NoEda /\ new_priority'[cur[r]] # 0
      <4>1. CASE r = p
        BY <2>1, <2>2, <4>1, PrioFacts
      <4>2. CASE r # p
        <5>1. cur[r] # NoEda /\ new_priority[cur[r]] # 0 /\ cur[r] \in Edas
          BY <1>1, <2>2, <3>2, <4>2, QueueFacts DEF IInv, LoanInv, RaiseIsTemporary
        <5> QED BY <2>2, <5>1
      <4> QED BY <4>1, <4>2
    <3> QED BY <1>1, <2>1, <3>1, <3>2 DEF LoanInv, RaiseIsTemporary
  <2>5. ListInv' /\ CurInv' /\ StackInv' /\ WakeInv'
    BY <1>1, <2>1 DEF IInv, ListInv, Ready, CurInv, StackInv, WakeInv
  <2>6. NextIsListed'
    BY <1>1, <2>1 DEF IInv, NextIsListed
  <2> QED BY <2>3, <2>4, <2>5, <2>6 DEF IInv
<1> QED BY <1>4, <1>5

LEMMA BoostInv ==
    ASSUME IInv, NEW p \in Prios, NEW e \in Edas, Boost(p, e)
    PROVE  IInv'
<1>1. TypeOK /\ Unlocked /\ pc[p] = "dispatch"
    BY DEF IInv, Boost, InHandler
<1>2. cur[p] \in Edas
    BY <1>1, QueueFacts DEF IInv, CurInv
<1>3. PICK q \in Prios : q = cur_priority[cur[p]]
    BY <1>1, <1>2, EdaFacts
<1>4. SetPriority(e, q)
    BY <1>3 DEF Boost
<1>5. /\ pulled' = pulled \cup Remembering(e)
      /\ UNCHANGED <<cur, evt_list, is_ready, flagVars, pool, pollVars, target>>
    BY DEF Boost
<1>6. pulled' \subseteq Prios
    BY <1>1, <1>5 DEF TypeOK, Remembering
<1> QED BY <1>1, <1>4, <1>5, <1>6, SetPriorityInv

LEMMA RestoreInv ==
    ASSUME IInv, NEW p \in Prios, Restore(p)
    PROVE  IInv'
<1>1. /\ TypeOK /\ Unlocked /\ pc[p] = "dispatch"
      /\ UNCHANGED <<cur, evt_list, is_ready, flagVars, pool, pollVars, target, pulled>>
      /\ UNCHANGED <<stack, pc, eda, node_eda>>
    BY DEF IInv, Restore, InHandler, pollVars
<1>2. PICK e \in Edas : e = cur[p]
    BY <1>1, QueueFacts DEF IInv, CurInv
<1>3. cur_priority[e] = p
    BY <1>1, <1>2, PrioFacts DEF IInv, CurInv
<1>4. CASE cur_priority[cur[p]] # Prio[cur[p]] /\ SetPriority(cur[p], Prio[cur[p]])
  <2>1. PICK q \in Prios : q = Prio[e]
    BY <1>1, EdaFacts
  <2>2. SetPriority(e, q) /\ cur[cur_priority[e]] = e
    BY <1>2, <1>3, <1>4, <2>1
  <2>3. pulled \subseteq pulled' /\ pulled' \subseteq Prios
    BY <1>1 DEF TypeOK
  <2> QED BY <1>1, <2>2, <2>3, SetPriorityInv
<1>5. CASE /\ cur_priority[cur[p]] = Prio[cur[p]]
           /\ new_priority' = [new_priority EXCEPT ![cur[p]] = 0]
           /\ level' = [level EXCEPT ![Prio[cur[p]]] = Prio[cur[p]]]
           /\ UNCHANGED <<rdy_list, swi, cur_priority>>
  <2>1. /\ new_priority' = [new_priority EXCEPT ![e] = 0]
        /\ level' = [level EXCEPT ![p] = p]
    BY <1>2, <1>3, <1>5
  <2>2. /\ new_priority'[e] = 0 /\ level'[p] = p
        /\ \A x \in Edas : x # e => new_priority'[x] = new_priority[x]
        /\ \A r \in Prios : r # p => level'[r] = level[r]
        /\ level' \in [Prios -> Prios] /\ new_priority' \in [Edas -> 0 .. Levels]
    BY <1>1, <2>1, PrioFacts DEF TypeOK
  <2>3. TypeOK'
    BY <1>1, <1>5, <2>2 DEF TypeOK, flagVars
  <2>4. LoanInv'
    <3>1. \A x \in Edas : new_priority'[x] # 0 =>
             cur[cur_priority[x]] = x /\ new_priority'[x] # cur_priority[x]
      BY <2>2 DEF IInv, LoanInv
    <3>2. ASSUME NEW r \in Prios, level'[r] # r
          PROVE  cur[r] # NoEda /\ new_priority'[cur[r]] # 0
      <4>1. r # p /\ level[r] # r
        BY <2>2, <3>2
      <4>2. cur[r] # NoEda /\ new_priority[cur[r]] # 0 /\ cur[r] \in Edas
        BY <1>1, <4>1, QueueFacts DEF IInv, LoanInv, RaiseIsTemporary
      <4>3. cur[r] # e
        BY <1>3, <4>1, <4>2 DEF IInv, CurInv
      <4> QED BY <2>2, <4>2, <4>3
    <3> QED BY <1>1, <1>5, <3>1, <3>2 DEF LoanInv, RaiseIsTemporary
  <2>5. ListInv' /\ CurInv' /\ StackInv' /\ WakeInv' /\ NextIsListed'
    BY <1>1, <1>5 DEF IInv, ListInv, Ready, CurInv, StackInv, WakeInv, NextIsListed
  <2> QED BY <2>3, <2>4, <2>5 DEF IInv
<1> QED BY <1>4, <1>5 DEF Restore

-----------------------------------------------------------------------------
(* The end of a dispatch *)

\* rdy_node.next is another eda of the list, if there is one.
LEMMA SuccessorFacts ==
    ASSUME NEW s \in Seq(Edas), NoTwice(s), NEW e \in ToSet(s), NEW t
    PROVE  \/ Successor(e, s, t) = NoEda
           \/ Successor(e, s, t) \in ToSet(s) /\ Successor(e, s, t) # e
<1>1. Position(s, e) \in DOMAIN s /\ s[Position(s, e)] = e
    BY UnlinkFacts
<1>2. PICK i \in DOMAIN s : i = Position(s, e)
    BY <1>1
<1>3. Len(s) \in Nat /\ DOMAIN s = 1 .. Len(s) /\ i \in Int /\ s[i] = e
    BY <1>1, <1>2
<1>4. CASE i < Len(s)
  <2>1. i + 1 \in DOMAIN s /\ i + 1 # i
    BY <1>3, <1>4
  <2>2. s[i + 1] \in ToSet(s) /\ s[i + 1] # e
    BY <1>2, <1>3, <2>1 DEF ToSet, NoTwice
  <2>3. Successor(e, s, t) = s[i + 1]
    BY <1>2, <1>4 DEF Successor
  <2> QED BY <2>2, <2>3
<1>5. CASE ~(i < Len(s))
    BY <1>2, <1>5 DEF Successor
<1> QED BY <1>4, <1>5

\* What the end of a dispatch does to the lists and the priorities.
LEMMA FinishLists ==
    ASSUME IInv, NEW p \in Prios, PollFinish(p), NEW e \in Edas, e = eda[p],
           cur[p] = e
    PROVE  /\ rdy_list' \in [Prios -> Seq(Edas)] /\ is_ready' \in [Edas -> BOOLEAN]
           /\ swi \subseteq swi' /\ swi' \subseteq Prios
           /\ cur_priority' \in [Edas -> Prios] /\ level' \in [Prios -> Prios]
           /\ new_priority' \in [Edas -> 0 .. Levels] /\ new_priority'[e] = 0
           /\ level'[p] = p /\ \A r \in Prios : r # p => level'[r] = level[r]
           /\ ListInv' /\ SameBut(e, rdy_list, rdy_list')
           /\ \A q \in Prios : e \in ToSet(rdy_list'[q]) => q = p \/ q \in swi'
           /\ is_ready'[e] => evt_list[e] > 0
           /\ \A x \in Edas : x # e => /\ is_ready'[x] = is_ready[x]
                                       /\ cur_priority'[x] = cur_priority[x]
                                       /\ new_priority'[x] = new_priority[x]
<1>1. TypeOK /\ is_ready[e] /\ cur_priority[e] = p
    BY PrioFacts DEF IInv, CurInv
<1> DEFINE more == evt_list[e] > 0
           lists == [rdy_list EXCEPT ![p] = IF more THEN Append(Unlink(@, e), e)
                                                    ELSE Unlink(@, e)]
           ready == [is_ready EXCEPT ![e] = more]
<1>2. /\ is_ready' = ready
      /\ IF new_priority[e] # 0
         THEN /\ UpdatePriority(e, new_priority[e], lists, ready)
              /\ new_priority' = [new_priority EXCEPT ![e] = 0]
              /\ level' = [level EXCEPT ![p] = p]
         ELSE rdy_list' = lists /\ UNCHANGED <<prioVars, swi>>
    BY DEF PollFinish
<1>3. PICK L \in [Prios -> Seq(Edas)], R \in SUBSET Edas, P \in [Edas -> Prios] :
         L = rdy_list /\ R = Ready /\ P = cur_priority
    BY <1>1 DEF TypeOK, Ready
<1>4. Listed(L, R, P) /\ P[e] = p /\ e \in R
    BY <1>1, <1>3 DEF IInv, ListInv, Ready
<1>5. e \in ToSet(L[P[e]])
    BY <1>4 DEF Listed
<1>6. /\ ready \in [Edas -> BOOLEAN] /\ (ready[e] <=> more)
      /\ \A x \in Edas : x # e => ready[x] = is_ready[x]
  <2>1. more \in BOOLEAN /\ is_ready \in [Edas -> BOOLEAN]
    BY <1>1 DEF TypeOK
  <2> HIDE DEF more
  <2>2. ready \in [Edas -> BOOLEAN] /\ ready[e] = more
    BY <2>1
  <2>3. \A x \in Edas : x # e => ready[x] = is_ready[x]
    BY <2>1
  <2> QED BY <2>2, <2>3
<1>7. PICK S \in SUBSET Edas : S = {x \in Edas : ready[x]}
    OBVIOUS
<1>8. (more => S = R) /\ (~more => S = R \ {e})
    BY <1>3, <1>4, <1>6, <1>7 DEF Ready
<1>9. PICK M \in [Prios -> Seq(Edas)] : /\ M = lists /\ Listed(M, S, P)
                                        /\ SameBut(e, L, M)
  <2>1. CASE more
    <3>1. PICK M \in [Prios -> Seq(Edas)] : Requeued(L, R, P, e, M)
      BY <1>4, <1>5, Requeue
    <3>2. M = lists
      BY <1>3, <1>4, <2>1, <3>1 DEF Requeued
    <3>3. Listed(M, S, P) /\ SameBut(e, L, M)
      BY <1>8, <2>1, <3>1 DEF Requeued, SameBut
    <3> QED BY <3>2, <3>3
  <2>2. CASE ~more
    <3>1. PICK M \in [Prios -> Seq(Edas)] : Dropped(L, R, P, e, M)
      BY <1>4, <1>5, Drop
    <3>2. M = lists
      BY <1>3, <1>4, <2>2, <3>1 DEF Dropped
    <3>3. Listed(M, S, P) /\ SameBut(e, L, M)
      BY <1>8, <2>2, <3>1 DEF Dropped
    <3> QED BY <3>2, <3>3
  <2> QED BY <2>1, <2>2
<1>10. PICK F \in [Edas -> BOOLEAN] : F = ready
    BY <1>6
<1>11. Ready' = S
    BY <1>2, <1>7 DEF Ready
<1> HIDE DEF more, lists, ready
<1>12. Flags(F, S)
    BY <1>7, <1>10 DEF Flags
<1>13. /\ is_ready' \in [Edas -> BOOLEAN] /\ (is_ready'[e] => more)
       /\ \A x \in Edas : x # e => is_ready'[x] = is_ready[x]
    BY <1>2, <1>6
<1>14. CASE new_priority[e] = 0
  <2>1. rdy_list' = M /\ UNCHANGED <<cur_priority, new_priority, level, swi>>
    BY <1>2, <1>9, <1>14 DEF prioVars
  <2>2. ListInv' /\ SameBut(e, rdy_list, rdy_list')
    BY <1>3, <1>9, <1>11, <2>1 DEF ListInv
  <2>3. \A q \in Prios : e \in ToSet(rdy_list'[q]) => q = p
    BY <1>4, <1>9, <2>1 DEF Listed
  <2>4. level[p] = p
    BY <1>14, PrioFacts DEF IInv, LoanInv, RaiseIsTemporary
  <2> QED BY <1>1, <1>9, <1>13, <1>14, <2>1, <2>2, <2>3, <2>4 DEF TypeOK, more
<1>15. CASE new_priority[e] # 0
  <2>1. PICK q \in Prios : q = new_priority[e] /\ q # cur_priority[e]
    BY <1>1, <1>15, EdaFacts DEF IInv, LoanInv
  <2>2. UpdatePriority(e, q, M, F)
    BY <1>2, <1>9, <1>10, <1>15, <2>1
  <2>3. Listed(M, S, cur_priority)
    BY <1>3, <1>9
  <2>4. Updated(M, S, e, q)
    BY <1>1, <1>12, <2>1, <2>2, <2>3, UpdateFacts
  <2>5. /\ rdy_list' \in [Prios -> Seq(Edas)] /\ swi \subseteq swi'
        /\ swi' \subseteq Prios /\ cur_priority' = [cur_priority EXCEPT ![e] = q]
        /\ cur_priority' \in [Edas -> Prios]
        /\ Listed(rdy_list', S, cur_priority') /\ SameBut(e, M, rdy_list')
        /\ \A r \in Prios : e \in ToSet(rdy_list'[r]) =>
              e \in S /\ r = q /\ (evt_list[e] > 0 => q \in swi')
    BY <2>4 DEF Updated
  <2>6. ListInv'
    BY <1>11, <2>5 DEF ListInv
  <2>7. SameBut(e, rdy_list, rdy_list')
    BY <1>3, <1>9, <2>5 DEF SameBut
  <2>8. \A r \in Prios : e \in ToSet(rdy_list'[r]) => r \in swi'
    <3> SUFFICES ASSUME NEW r \in Prios, e \in ToSet(rdy_list'[r])
                 PROVE  r \in swi'
      OBVIOUS
    <3>1. e \in S /\ r = q
      BY <2>5
    <3>2. more
      BY <1>6, <1>7, <3>1
    <3> QED BY <2>5, <3>1, <3>2 DEF more
  <2>9. /\ new_priority' \in [Edas -> 0 .. Levels] /\ new_priority'[e] = 0
        /\ \A x \in Edas : x # e => new_priority'[x] = new_priority[x]
    <3>1. /\ new_priority' = [new_priority EXCEPT ![e] = 0]
          /\ new_priority \in [Edas -> 0 .. Levels] /\ 0 \in 0 .. Levels
      BY <1>1, <1>2, <1>15, PrioFacts DEF TypeOK
    <3> QED BY <3>1
  <2>10. /\ level' \in [Prios -> Prios] /\ level'[p] = p
        /\ \A r \in Prios : r # p => level'[r] = level[r]
    <3>1. level' = [level EXCEPT ![p] = p] /\ level \in [Prios -> Prios]
      BY <1>1, <1>2, <1>15 DEF TypeOK
    <3> QED BY <3>1
  <2>11. \A x \in Edas : x # e => cur_priority'[x] = cur_priority[x]
    BY <1>1, <2>5 DEF TypeOK
  <2> QED BY <1>13, <2>5, <2>6, <2>7, <2>8, <2>9, <2>10, <2>11 DEF more
<1> QED BY <1>14, <1>15

LEMMA PollFinishInv ==
    ASSUME IInv, NEW p \in Prios, PollFinish(p)
    PROVE  IInv'
<1>1. /\ TypeOK /\ Running(p) /\ Unlocked /\ pc[p] = "finish"
      /\ cur' = [cur EXCEPT ![p] = NoEda]
      /\ UNCHANGED <<evt_list, stack, pulled>>
    BY DEF IInv, PollFinish
<1>2. PICK e \in Edas : e = cur[p]
    BY <1>1, QueueFacts DEF IInv, CurInv
<1>3. e = eda[p] /\ is_ready[e] /\ cur_priority[e] = p /\ e # NoEda
    BY <1>2, PrioFacts DEF IInv, CurInv
<1>4. /\ rdy_list' \in [Prios -> Seq(Edas)] /\ is_ready' \in [Edas -> BOOLEAN]
      /\ swi \subseteq swi' /\ swi' \subseteq Prios
      /\ cur_priority' \in [Edas -> Prios] /\ level' \in [Prios -> Prios]
      /\ new_priority' \in [Edas -> 0 .. Levels] /\ new_priority'[e] = 0
      /\ level'[p] = p /\ \A r \in Prios : r # p => level'[r] = level[r]
      /\ ListInv' /\ SameBut(e, rdy_list, rdy_list')
      /\ \A q \in Prios : e \in ToSet(rdy_list'[q]) => q = p \/ q \in swi'
      /\ is_ready'[e] => evt_list[e] > 0
      /\ \A x \in Edas : x # e => /\ is_ready'[x] = is_ready[x]
                                  /\ cur_priority'[x] = cur_priority[x]
                                  /\ new_priority'[x] = new_priority[x]
    BY <1>2, <1>3, FinishLists
<1>5. \E t : node_eda' = [node_eda EXCEPT ![p] = Successor(e, rdy_list[p], t)]
    BY <1>3 DEF PollFinish
<1>6. \/ node_eda'[p] = NoEda
      \/ node_eda'[p] \in ToSet(rdy_list[p]) /\ node_eda'[p] # e
  <2>1. PICK t : node_eda' = [node_eda EXCEPT ![p] = Successor(e, rdy_list[p], t)]
    BY <1>5
  <2>2. PICK s \in Seq(Edas) : s = rdy_list[p]
    BY <1>1, QueueFacts
  <2>3. NoTwice(s) /\ e \in ToSet(s)
    BY <1>3, <2>2 DEF IInv, ListInv, Listed, Ready
  <2>4. \/ Successor(e, s, t) = NoEda
        \/ Successor(e, s, t) \in ToSet(s) /\ Successor(e, s, t) # e
    BY <2>3, SuccessorFacts
  <2> QED BY <1>1, <2>1, <2>2, <2>4 DEF TypeOK
<1>7. /\ node_eda'[p] \in Edas \cup {NoEda} /\ node_eda' \in [Prios -> Edas \cup {NoEda}]
      /\ \A r \in Prios : r # p => node_eda'[r] = node_eda[r]
  <2>1. node_eda'[p] \in Edas \cup {NoEda}
    BY <1>1, <1>6, QueueFacts
  <2> QED BY <1>1, <1>5, <2>1 DEF TypeOK
<1>8. /\ pc' \in [Prios -> PcStates] /\ pc'[p] \in {"fini", "next", "setdue"}
      /\ eda' \in [Prios -> Edas \cup {NoEda}] /\ (pc'[p] = "fini" => eda'[p] = e)
      /\ \A r \in Prios : r # p => pc'[r] = pc[r] /\ eda'[r] = eda[r]
  <2>1. \E b \in BOOLEAN :
           /\ pc' = [pc EXCEPT ![p] = IF is_to_exit[e] THEN "fini"
                                      ELSE IF b THEN "next" ELSE "setdue"]
           /\ eda' = [eda EXCEPT ![p] = IF is_to_exit[e] THEN e ELSE NoEda]
    BY <1>3 DEF PollFinish
  <2>2. /\ pc \in [Prios -> PcStates] /\ eda \in [Prios -> Edas \cup {NoEda}]
        /\ p \in Prios /\ e \in Edas
    BY <1>1 DEF TypeOK
  <2> QED BY <2>1, <2>2 DEF PcStates
<1>9. cur'[p] = NoEda /\ \A r \in Prios : r # p => cur'[r] = cur[r] /\ cur[r] # e
  <2>1. \A r \in Prios : r # p => cur[r] # e
    BY <1>3 DEF IInv, CurInv
  <2> QED BY <1>1, <2>1 DEF TypeOK
<1>10. TypeOK'
  <2>1. cur' \in [Prios -> Edas \cup {NoEda}]
    BY <1>1 DEF TypeOK
  <2>2. UNCHANGED <<is_limitted, is_to_exit, live, pool, target>>
    BY DEF PollFinish, flagVars
  <2>3. /\ evt_list' \in [Edas -> Nat] /\ live' \subseteq Edas /\ pool' \in Nat
        /\ is_limitted' \in [Edas -> BOOLEAN] /\ is_to_exit' \in [Edas -> BOOLEAN]
        /\ stack' \in Seq(Prios) /\ pulled' \subseteq Prios
        /\ target' \in [Producers -> Edas \cup {NoEda}]
    BY <1>1, <2>2 DEF TypeOK
  <2> QED BY <1>4, <1>7, <1>8, <2>1, <2>3 DEF TypeOK
<1>11. CurInv'
  <2>1. ASSUME NEW r \in Prios, cur'[r] # NoEda
        PROVE  /\ cur_priority'[cur'[r]] = r /\ is_ready'[cur'[r]]
               /\ eda'[r] = cur'[r] /\ r \in ToSet(stack)
    <3>1. r # p /\ cur'[r] = cur[r] /\ cur[r] # e /\ eda'[r] = eda[r]
      BY <1>8, <1>9, <2>1
    <3>2. cur[r] \in Edas
      BY <1>1, <2>1, <3>1, QueueFacts
    <3>3. /\ cur_priority[cur[r]] = r /\ is_ready[cur[r]]
          /\ eda[r] = cur[r] /\ r \in ToSet(stack)
      BY <2>1, <3>1 DEF IInv, CurInv
    <3>4. /\ cur_priority'[cur[r]] = cur_priority[cur[r]]
          /\ is_ready'[cur[r]] = is_ready[cur[r]]
      BY <1>4, <3>1, <3>2
    <3> QED BY <3>1, <3>3, <3>4
  <2>2. \A r \in Prios :
          cur'[r] # NoEda <=> pc'[r] \in {"start", "dispatch", "finish"}
    BY <1>8, <1>9 DEF IInv, CurInv
  <2>3. \A r \in Prios : pc'[r] = "fini" => eda'[r] # NoEda
    BY <1>3, <1>8 DEF IInv, CurInv
  <2>4. ASSUME NEW x \in Edas, is_ready'[x]
        PROVE  evt_list[x] > 0 \/ cur'[cur_priority'[x]] = x
    <3>1. CASE x = e
      BY <1>4, <2>4, <3>1
    <3>2. CASE x # e
      <4>1. /\ is_ready[x] /\ cur_priority'[x] = cur_priority[x]
            /\ cur_priority[x] \in Prios
        BY <1>1, <1>4, <2>4, <3>2, EdaFacts
      <4>2. cur[cur_priority[x]] = x => cur_priority[x] # p
        BY <1>2, <3>2
      <4> QED BY <1>9, <4>1, <4>2 DEF IInv, CurInv
    <3> QED BY <3>1, <3>2
  <2> QED BY <1>1, <2>1, <2>2, <2>3, <2>4 DEF CurInv
<1>12. LoanInv'
  <2>1. ASSUME NEW x \in Edas, new_priority'[x] # 0
        PROVE  cur'[cur_priority'[x]] = x /\ new_priority'[x] # cur_priority'[x]
    <3>1. x # e
      BY <1>4, <2>1
    <3>2. /\ new_priority'[x] = new_priority[x] /\ cur_priority'[x] = cur_priority[x]
          /\ cur[cur_priority[x]] = x /\ new_priority[x] # cur_priority[x]
          /\ cur_priority[x] \in Prios
      BY <1>1, <1>4, <2>1, <3>1, EdaFacts DEF IInv, LoanInv
    <3>3. cur_priority[x] # p
      BY <1>2, <3>1, <3>2
    <3> QED BY <1>9, <3>2, <3>3
  <2>2. ASSUME NEW r \in Prios, level'[r] # r
        PROVE  cur'[r] # NoEda /\ new_priority'[cur'[r]] # 0
    <3>1. r # p /\ level[r] # r /\ cur'[r] = cur[r] /\ cur[r] # e
      BY <1>4, <1>9, <2>2
    <3>2. cur[r] # NoEda /\ new_priority[cur[r]] # 0 /\ cur[r] \in Edas
      BY <1>1, <3>1, QueueFacts DEF IInv, LoanInv, RaiseIsTemporary
    <3> QED BY <1>4, <3>1, <3>2
  <2> QED BY <2>1, <2>2 DEF LoanInv, RaiseIsTemporary
<1>13. StackInv'
  <2>1. stack[1] = p /\ 1 \in DOMAIN stack /\ stack \in Seq(Prios) /\ Len(stack) \in Nat
    BY <1>1, RunningFacts
  <2>2. ASSUME NEW i \in DOMAIN stack, NEW j \in DOMAIN stack, i < j,
               pc'[stack[i]] = "fini"
        PROVE  cur'[stack[j]] # eda'[stack[i]]
    <3>1. stack[i] \in Prios /\ stack[j] \in Prios /\ j # 1
      BY <2>1, <2>2
    <3>2. stack[j] # p
      BY <2>1, <3>1 DEF IInv, StackInv, NoTwice
    <3>3. CASE stack[i] = p
      BY <1>8, <1>9, <2>2, <3>1, <3>2, <3>3
    <3>4. CASE stack[i] # p
      BY <1>8, <1>9, <2>2, <3>1, <3>2, <3>4 DEF IInv, StackInv
    <3> QED BY <3>3, <3>4
  <2> QED BY <1>1, <2>2 DEF IInv, StackInv
<1>14. WakeInv'
  <2> SUFFICES ASSUME NEW r \in Prios, NEW x \in ToSet(rdy_list'[r])
               PROVE  r \in swi' \/ r \in ToSet(stack)
    BY <1>1 DEF WakeInv
  <2>1. x \in Edas
    BY <1>4, InEdas
  <2>2. CASE x = e
    BY <1>1, <1>4, <2>2, RunningFacts
  <2>3. CASE x # e
    <3>1. x \in ToSet(rdy_list[r])
      BY <1>4, <2>1, <2>3 DEF SameBut
    <3> QED BY <1>4, <3>1 DEF IInv, WakeInv
  <2> QED BY <2>2, <2>3
<1>15. NextIsListed'
  <2> SUFFICES ASSUME NEW r \in Prios, r \notin pulled
               PROVE  /\ pc'[r] # "fault"
                      /\ pc'[r] \in {"setdue", "fini", "next"} /\ node_eda'[r] # NoEda
                            => node_eda'[r] \in ToSet(rdy_list'[r])
    BY <1>1 DEF NextIsListed
  <2>1. CASE r = p
    BY <1>4, <1>6, <1>7, <1>8, <2>1 DEF SameBut
  <2>2. CASE r # p
    <3>1. pc'[r] = pc[r] /\ node_eda'[r] = node_eda[r] /\ pc[r] # "fault"
      BY <1>7, <1>8, <2>2 DEF IInv, NextIsListed
    <3>2. ASSUME pc[r] \in {"setdue", "fini", "next"}, node_eda[r] # NoEda
          PROVE  node_eda[r] \in ToSet(rdy_list'[r])
      <4>1. node_eda[r] \in ToSet(rdy_list[r]) /\ node_eda[r] \in Edas
        BY <1>1, <3>2, QueueFacts DEF IInv, NextIsListed
      <4>2. node_eda[r] # e
        BY <1>3, <2>2, <4>1 DEF IInv, ListInv, Listed
      <4> QED BY <1>4, <4>1, <4>2 DEF SameBut
    <3> QED BY <3>1, <3>2
  <2> QED BY <2>1, <2>2
<1> QED BY <1>4, <1>10, <1>11, <1>12, <1>13, <1>14, <1>15 DEF IInv

-----------------------------------------------------------------------------
(* The steps of poll that go on with an eda, and the invariant *)

LEMMA PollFirstInv ==
    ASSUME IInv, NEW p \in Prios, PollFirst(p)
    PROVE  IInv'
<1>1. TypeOK /\ Running(p) /\ pc[p] = "poll" /\ rdy_list[p] # <<>>
    BY DEF IInv, PollFirst
<1>2. PICK s \in Seq(Edas) : s = rdy_list[p]
    BY <1>1, QueueFacts
<1>3. Head(s) \in Edas /\ Head(s) \in ToSet(s)
    BY <1>1, <1>2, TailFacts
<1>4. PICK e \in Edas : e = Head(rdy_list[p])
    BY <1>2, <1>3
<1>5. Take(p, e) /\ e \in ToSet(rdy_list[p])
    BY <1>2, <1>3, <1>4 DEF PollFirst
<1> QED BY <1>1, <1>5, TakeInv

LEMMA PollNextInv ==
    ASSUME IInv, NEW p \in Prios, PollNext(p)
    PROVE  IInv'
<1>1. TypeOK /\ Running(p) /\ pc[p] = "next" /\ node_eda[p] # NoEda
    BY DEF IInv, PollNext
<1>2. PICK e \in Edas : e = node_eda[p]
    BY <1>1, QueueFacts
<1>3. Take(p, e)
    BY <1>2 DEF PollNext
<1>4. e \in ToSet(rdy_list[p]) \/ p \in pulled
    BY <1>1, <1>2 DEF IInv, NextIsListed
<1> QED BY <1>1, <1>3, <1>4, TakeInv

LEMMA InitInv == Init => IInv
<1> SUFFICES ASSUME Init PROVE IInv
    OBVIOUS
<1>1. /\ \A p \in Prios : rdy_list[p] = <<>> /\ cur[p] = NoEda /\ pc[p] = "poll"
                          /\ level[p] = p /\ eda[p] = NoEda
      /\ \A e \in Edas : is_ready[e] = FALSE /\ new_priority[e] = 0
      /\ stack = <<>> /\ pulled = {}
    BY DEF Init
<1>2. TypeOK
    BY PrioFacts, BoundAssumption DEF Init, TypeOK, PcStates, Producers
<1>3. \A p \in Prios : ToSet(rdy_list[p]) = {}
    BY <1>1, <1>2, QueueFacts, InEdas
<1>4. ListInv
  <2>1. Ready = {}
    BY <1>1 DEF Ready
  <2>2. \A p \in Prios : NoTwice(rdy_list[p])
    BY <1>1 DEF NoTwice
  <2> QED BY <1>3, <2>1, <2>2 DEF ListInv, Listed
<1>5. CurInv
    BY <1>1 DEF CurInv
<1>6. LoanInv
    BY <1>1 DEF LoanInv, RaiseIsTemporary
<1>7. StackInv
    BY <1>1 DEF StackInv, NoTwice
<1>8. WakeInv
    BY <1>3 DEF WakeInv
<1>9. NextIsListed
    BY <1>1 DEF NextIsListed
<1> QED BY <1>2, <1>4, <1>5, <1>6, <1>7, <1>8, <1>9 DEF IInv

LEMMA ProduceInv ==
    ASSUME IInv, NEW c \in Producers, Produce(c)
    PROVE  IInv'
<1>1. ASSUME NEW e \in Edas, PostAlloc(c, e) PROVE IInv'
    BY <1>1, QuietSteps
<1>2. ASSUME NEW e \in Edas, NEW force \in BOOLEAN, PostEnqueue(c, e, force)
      PROVE  IInv'
    BY <1>2, PostInv
<1>3. ASSUME NEW e \in Edas, NEW force \in BOOLEAN, PostRefused(c, e, force)
      PROVE  IInv'
    BY <1>3, QuietSteps
<1> QED BY <1>1, <1>2, <1>3 DEF Produce

LEMMA PollInv ==
    ASSUME IInv, NEW p \in Prios, Poll(p)
    PROVE  IInv'
<1>1. CASE SwiEnter(p)
    BY <1>1, SwiEnterInv
<1>2. CASE SwiLeave(p)
    BY <1>2, SwiLeaveInv
<1>3. CASE PollFirst(p)
    BY <1>3, PollFirstInv
<1>4. CASE PollNext(p)
    BY <1>4, PollNextInv
<1>5. CASE PollAgain(p) \/ PollStart(p) \/ PollSetDue(p)
    BY <1>5, QuietSteps
<1>6. CASE PollFinish(p)
    BY <1>6, PollFinishInv
<1>7. CASE PollFini(p)
    BY <1>7, PollFiniInv
<1> QED BY <1>1, <1>2, <1>3, <1>4, <1>5, <1>6, <1>7 DEF Poll

LEMMA HandleInv ==
    ASSUME IInv, NEW p \in Prios, Handle(p)
    PROVE  IInv'
<1>1. CASE HandlerReturn(p)
    BY <1>1, QuietSteps
<1>2. CASE Restore(p)
    BY <1>2, RestoreInv
<1>3. CASE Clean(p)
    BY <1>3, CleanInv
<1>4. ASSUME NEW e \in Edas, Boost(p, e) PROVE IInv'
    BY <1>4, BoostInv
<1>5. ASSUME NEW e \in Edas, Fini(p, e) PROVE IInv'
    BY <1>5, FiniInv
<1>6. CASE \E b \in BOOLEAN : SetLimitted(p, b)
    BY <1>6, QuietSteps
<1> QED BY <1>1, <1>2, <1>3, <1>4, <1>5, <1>6 DEF Handle

LEMMA NextInv == IInv /\ [Next]_vars => IInv'
<1> SUFFICES ASSUME IInv, [Next]_vars PROVE IInv'
    OBVIOUS
<1>1. ASSUME NEW c \in Producers, Produce(c) PROVE IInv'
    BY <1>1, ProduceInv
<1>2. ASSUME NEW p \in Prios, Poll(p) PROVE IInv'
    BY <1>2, PollInv
<1>3. ASSUME NEW p \in Prios, Handle(p) PROVE IInv'
    BY <1>3, HandleInv
<1>4. CASE \/ UNCHANGED vars
           \/ \E p \in Prios : Halt(p)
  <2>1. UNCHANGED vars
    BY <1>4 DEF Halt
  <2> QED BY <2>1, StutterInv
<1> QED BY <1>1, <1>2, <1>3, <1>4 DEF Next

\* The inductive invariant of the list event queues holds whatever the posts,
\* the dispatches, the priorities lent and given back, the finalisations and
\* the cleans of vsf_evtq_list.c do, and in whatever order.
THEOREM Invariant == Spec => []IInv
<1>1. Init => IInv
    BY InitInv
<1>2. IInv /\ [Next]_vars => IInv'
    BY NextInv
<1> QED BY <1>1, <1>2, PTL DEF Spec

-----------------------------------------------------------------------------
(* What follows from it *)

\* The ready lists hold every ready eda once, in the queue of its priority; a
\* ready eda has an event or is being dispatched; and the eda that
\* vsf_evtq_poll remembers over the sections in which interrupts are enabled is
\* still in its list, with an event to take, unless a higher queue moved or
\* finalised that eda.
THEOREM ListsCorrect == Spec => []ListsAreSound
<1>1. IInv => ListsAreSound
  <2> SUFFICES ASSUME IInv PROVE ReadyIsListed
    BY DEF IInv, ListsAreSound
  <2>1. \A p \in Prios : \A i, j \in DOMAIN rdy_list[p] :
           rdy_list[p][i] = rdy_list[p][j] => i = j
    BY DEF IInv, ListInv, Listed, NoTwice
  <2>2. ASSUME NEW e \in Edas, NEW p \in Prios
        PROVE  e \in ToSet(rdy_list[p]) <=> is_ready[e] /\ cur_priority[e] = p
    BY <2>2 DEF IInv, ListInv, Listed, Ready
  <2>3. ASSUME NEW e \in Edas, is_ready[e]
        PROVE  evt_list[e] > 0 \/ \E p \in Prios : cur[p] = e
    <3>1. cur_priority[e] \in Prios
      BY EdaFacts DEF IInv
    <3> QED BY <2>3, <3>1 DEF IInv, CurInv
  <2> QED BY <2>1, <2>2, <2>3 DEF ReadyIsListed
<1> QED BY <1>1, Invariant, PTL

\* No event stays in a queue that nothing will poll: wherever a post, a change
\* of priority or the end of a dispatch puts an eda, the poll of that queue is
\* active or its software interrupt is pending.
THEOREM WakeupKept == Spec => []NoLostWakeup
<1>1. IInv => NoLostWakeup
  <2> SUFFICES ASSUME IInv, NEW p \in Prios, rdy_list[p] # <<>>
               PROVE  p \in swi \/ p \in ToSet(stack)
    BY DEF NoLostWakeup
  <2>1. ToSet(rdy_list[p]) # {}
    BY QueueFacts, InEdas DEF IInv
  <2> QED BY <2>1 DEF IInv, WakeInv
<1> QED BY <1>1, Invariant, PTL

\* The priority that __vsf_eda_sync_decrease_ex lends to an eda that is being
\* dispatched raises the interrupt of its queue for that dispatch only, and
\* never makes a second queue dispatch the eda as well.
THEOREM LoanCorrect == Spec => []LoanIsSound
<1>1. IInv => LoanIsSound
  <2> SUFFICES ASSUME IInv PROVE NotReentered
    BY DEF IInv, LoanInv, LoanIsSound
  <2> QED BY DEF IInv, CurInv, NotReentered
<1> QED BY <1>1, Invariant, PTL

-----------------------------------------------------------------------------
(* No event node is lost or freed twice *)

\* The nodes of event lists of the lengths L.
Nodes(L) == UNION {{e} \X (1 .. L[e]) : e \in Edas}

LEMMA NodesMember ==
    ASSUME NEW L \in [Edas -> Nat]
    PROVE  /\ \A x \in Edas, i \in Int : <<x, i>> \in Nodes(L) <=> 1 <= i /\ i <= L[x]
           /\ \A n \in Nodes(L) : n \in Edas \X Int
<1>1. ASSUME NEW x \in Edas, NEW i \in Int
      PROVE  <<x, i>> \in Nodes(L) <=> 1 <= i /\ i <= L[x]
    BY DEF Nodes
<1>2. ASSUME NEW n \in Nodes(L) PROVE n \in Edas \X Int
  <2>1. PICK x \in Edas : n \in {x} \X (1 .. L[x])
    BY DEF Nodes
  <2> QED BY <2>1
<1> QED BY <1>1, <1>2

\* An event that is put into a list, or taken out of it, takes one node.
LEMMA NodeAdded ==
    ASSUME NEW L \in [Edas -> Nat], NEW M \in [Edas -> Nat], NEW e \in Edas,
           M[e] = L[e] + 1, \A x \in Edas : x # e => M[x] = L[x]
    PROVE  /\ IsFiniteSet(Nodes(L)) <=> IsFiniteSet(Nodes(M))
           /\ IsFiniteSet(Nodes(L)) =>
                 Cardinality(Nodes(M)) = Cardinality(Nodes(L)) + 1
<1> DEFINE n == <<e, M[e]>>
<1>1. n \notin Nodes(L) /\ n \in Nodes(M)
    BY NodesMember
<1>2. Nodes(M) = Nodes(L) \cup {n}
  <2>1. ASSUME NEW x \in Edas, NEW i \in Int
        PROVE  <<x, i>> \in Nodes(M) <=> <<x, i>> \in Nodes(L) \/ <<x, i>> = n
    <3>1. CASE x = e
        BY <3>1, NodesMember
    <3>2. CASE x # e
        BY <3>2, NodesMember
    <3> QED BY <3>1, <3>2
  <2>2. \A m \in Nodes(L) \cup Nodes(M) \cup {n} : m \in Edas \X Int
    BY NodesMember
  <2> HIDE DEF n
  <2>3. ASSUME NEW m \in Edas \X Int
        PROVE  m \in Nodes(M) <=> m \in Nodes(L) \/ m = n
    <3>1. m = <<m[1], m[2]>> /\ m[1] \in Edas /\ m[2] \in Int
        OBVIOUS
    <3> QED BY <2>1, <3>1
  <2> QED BY <2>2, <2>3
<1> HIDE DEF n
<1>3. Nodes(L) \subseteq Nodes(M)
    BY <1>2
<1> QED BY <1>1, <1>2, <1>3, FS_AddElement, FS_Subset

LEMMA PairsWithOne ==
    ASSUME NEW x, NEW T, IsFiniteSet(T)
    PROVE  IsFiniteSet({x} \X T) /\ Cardinality({x} \X T) = Cardinality(T)
<1>1. IsFiniteSet({x}) /\ Cardinality({x}) = 1
    BY FS_Singleton
<1>2. IsFiniteSet({x} \X T) /\ Cardinality({x} \X T) = Cardinality({x}) * Cardinality(T)
    BY <1>1, FS_Product
<1>3. Cardinality(T) \in Nat
    BY FS_CardinalityType
<1> QED BY <1>1, <1>2, <1>3

\* A list that is emptied gives back the nodes of all its events.
LEMMA NodesDropped ==
    ASSUME NEW L \in [Edas -> Nat], NEW M \in [Edas -> Nat], NEW e \in Edas,
           M[e] = 0, \A x \in Edas : x # e => M[x] = L[x], IsFiniteSet(Nodes(L))
    PROVE  /\ IsFiniteSet(Nodes(M))
           /\ Cardinality(Nodes(L)) = Cardinality(Nodes(M)) + L[e]
<1> DEFINE D == {e} \X (1 .. L[e])
<1>1. IsFiniteSet(D) /\ Cardinality(D) = L[e]
  <2>1. IsFiniteSet(1 .. L[e]) /\ Cardinality(1 .. L[e]) = L[e]
    BY FS_Interval
  <2> QED BY <2>1, PairsWithOne
<1>2. D \subseteq Nodes(L)
    BY DEF Nodes
<1>3. Nodes(M) = Nodes(L) \ D
  <2>1. ASSUME NEW x \in Edas, NEW i \in Int
        PROVE  <<x, i>> \in Nodes(M) <=> <<x, i>> \in Nodes(L) /\ <<x, i>> \notin D
    <3>1. CASE x = e
        BY <3>1, NodesMember
    <3>2. CASE x # e
        BY <3>2, NodesMember
    <3> QED BY <3>1, <3>2
  <2>2. \A m \in Nodes(L) \cup Nodes(M) : m \in Edas \X Int
    BY NodesMember
  <2> HIDE DEF D
  <2>3. ASSUME NEW m \in Edas \X Int
        PROVE  m \in Nodes(M) <=> m \in Nodes(L) /\ m \notin D
    <3>1. m = <<m[1], m[2]>> /\ m[1] \in Edas /\ m[2] \in Int
        OBVIOUS
    <3> QED BY <2>1, <3>1
  <2> QED BY <2>2, <2>3
<1> HIDE DEF D
<1>4. IsFiniteSet(Nodes(M)) /\ Cardinality(Nodes(M)) = Cardinality(Nodes(L)) - Cardinality(D)
  <2>1. Nodes(L) \cap D = D
    BY <1>2
  <2> QED BY <1>3, <2>1, FS_Difference
<1>5. Cardinality(Nodes(L)) \in Nat
    BY FS_CardinalityType
<1> QED BY <1>1, <1>4, <1>5

NodesInv == IsFiniteSet(QueuedNodes) /\ NodesConserved

LEMMA NodesFacts ==
    ASSUME TypeOK, IsFiniteSet(QueuedNodes)
    PROVE  /\ IsFiniteSet(AllocatedNodes) /\ IsFiniteSet(TakenNodes)
           /\ Cardinality(AllocatedNodes) \in Nat /\ Cardinality(TakenNodes) \in Nat
           /\ Cardinality(QueuedNodes) \in Nat /\ pool \in Nat /\ PoolSize \in Nat
           /\ QueuedNodes = Nodes(evt_list) /\ evt_list \in [Edas -> Nat]
<1>1. IsFiniteSet(Prios) /\ IsFiniteSet(Isrs)
    BY FS_Interval, BoundAssumption DEF Prios
<1>2. IsFiniteSet(Producers)
    BY <1>1, FS_Union DEF Producers
<1>3. AllocatedNodes \in SUBSET Producers /\ TakenNodes \in SUBSET Prios
    BY DEF AllocatedNodes, TakenNodes
<1>4. IsFiniteSet(AllocatedNodes) /\ IsFiniteSet(TakenNodes)
    BY <1>1, <1>2, <1>3, FS_Subset
<1> QED BY <1>4, FS_CardinalityType, BoundAssumption
        DEF TypeOK, QueuedNodes, Nodes

\* The steps that move no node.
LEMMA NodesUntouched ==
    ASSUME NodesInv, UNCHANGED <<pool, evt_list, target>>, TakenNodes' = TakenNodes
    PROVE  NodesInv'
BY DEF NodesInv, NodesConserved, QueuedNodes, AllocatedNodes

LEMMA NodesProduce ==
    ASSUME IInv, NodesInv, NEW c \in Producers, Produce(c)
    PROVE  NodesInv'
<1>0. TypeOK /\ IsFiniteSet(QueuedNodes) /\ target \in [Producers -> Edas \cup {NoEda}]
    BY DEF IInv, TypeOK, NodesInv
<1>1. ASSUME NEW e \in Edas, PostAlloc(c, e) PROVE NodesInv'
  <2>1. /\ pool' = pool - 1 /\ target[c] = NoEda /\ target' = [target EXCEPT ![c] = e]
        /\ evt_list' = evt_list /\ pc' = pc
    BY <1>1 DEF PostAlloc, pollVars
  <2>2. c \notin AllocatedNodes /\ AllocatedNodes' = AllocatedNodes \cup {c}
    BY <1>0, <2>1, EdaAssumption DEF AllocatedNodes
  <2>3. Cardinality(AllocatedNodes') = Cardinality(AllocatedNodes) + 1
    BY <1>0, <2>2, NodesFacts, FS_AddElement
  <2>4. QueuedNodes' = QueuedNodes /\ TakenNodes' = TakenNodes
    BY <2>1 DEF QueuedNodes, TakenNodes
  <2> QED BY <1>0, <2>1, <2>3, <2>4, NodesFacts DEF NodesInv, NodesConserved
<1>2. ASSUME target[c] # NoEda, target' = [target EXCEPT ![c] = NoEda]
      PROVE  Cardinality(AllocatedNodes') = Cardinality(AllocatedNodes) - 1
  <2>1. c \in AllocatedNodes /\ AllocatedNodes' = AllocatedNodes \ {c}
    BY <1>0, <1>2 DEF AllocatedNodes
  <2> QED BY <1>0, <2>1, NodesFacts, FS_RemoveElement
<1>3. ASSUME NEW e \in Edas, NEW force \in BOOLEAN, PostEnqueue(c, e, force)
      PROVE  NodesInv'
  <2>1. /\ target[c] = e /\ target' = [target EXCEPT ![c] = NoEda]
        /\ evt_list' = [evt_list EXCEPT ![e] = @ + 1] /\ pc' = pc /\ pool' = pool
    BY <1>3 DEF PostEnqueue, MayPost, pollVars
  <2>2. Cardinality(AllocatedNodes') = Cardinality(AllocatedNodes) - 1
    BY <1>2, <2>1, EdaAssumption
  <2>3. /\ evt_list \in [Edas -> Nat] /\ evt_list' \in [Edas -> Nat]
        /\ evt_list'[e] = evt_list[e] + 1
        /\ \A x \in Edas : x # e => evt_list'[x] = evt_list[x]
    BY <1>0, <2>1 DEF TypeOK
  <2>4. IsFiniteSet(QueuedNodes') /\ Cardinality(QueuedNodes') = Cardinality(QueuedNodes) + 1
    <3>1. QueuedNodes' = Nodes(evt_list') /\ QueuedNodes = Nodes(evt_list)
        BY DEF QueuedNodes, Nodes
    <3>2. PICK L \in [Edas -> Nat], M \in [Edas -> Nat] : L = evt_list /\ M = evt_list'
        BY <2>3
    <3>3. M[e] = L[e] + 1 /\ \A x \in Edas : x # e => M[x] = L[x]
        BY <2>3, <3>2
    <3>4. IsFiniteSet(Nodes(M)) /\ Cardinality(Nodes(M)) = Cardinality(Nodes(L)) + 1
        BY <1>0, <3>1, <3>2, <3>3, NodeAdded
    <3> QED BY <3>1, <3>2, <3>4
  <2>5. TakenNodes' = TakenNodes
    BY <2>1 DEF TakenNodes
  <2> QED BY <1>0, <2>1, <2>2, <2>4, <2>5, NodesFacts DEF NodesInv, NodesConserved
<1>4. ASSUME NEW e \in Edas, NEW force \in BOOLEAN, PostRefused(c, e, force)
      PROVE  NodesInv'
  <2>1. /\ target[c] = e /\ target' = [target EXCEPT ![c] = NoEda]
        /\ evt_list' = evt_list /\ pc' = pc /\ pool' = pool + 1
    BY <1>4 DEF PostRefused, MayPost, pollVars
  <2>2. Cardinality(AllocatedNodes') = Cardinality(AllocatedNodes) - 1
    BY <1>2, <2>1, EdaAssumption
  <2>3. QueuedNodes' = QueuedNodes /\ TakenNodes' = TakenNodes
    BY <2>1 DEF QueuedNodes, TakenNodes
  <2> QED BY <1>0, <2>1, <2>2, <2>3, NodesFacts DEF NodesInv, NodesConserved
<1> QED BY <1>1, <1>3, <1>4 DEF Produce

\* The oldest node of e is taken out of its list.
LEMMA NodeRemoved ==
    ASSUME TypeOK, NodesInv, NEW e \in Edas, evt_list[e] > 0,
           evt_list' = [evt_list EXCEPT ![e] = @ - 1]
    PROVE  IsFiniteSet(QueuedNodes') /\ Cardinality(QueuedNodes') = Cardinality(QueuedNodes) - 1
<1>1. /\ evt_list \in [Edas -> Nat] /\ evt_list' \in [Edas -> Nat]
      /\ evt_list[e] = evt_list'[e] + 1 /\ \A x \in Edas : x # e => evt_list[x] = evt_list'[x]
    BY DEF TypeOK
<1>2. QueuedNodes' = Nodes(evt_list') /\ QueuedNodes = Nodes(evt_list)
    BY DEF QueuedNodes, Nodes
<1>3. PICK L \in [Edas -> Nat], M \in [Edas -> Nat] : L = evt_list' /\ M = evt_list
    BY <1>1
<1>4. M[e] = L[e] + 1 /\ \A x \in Edas : x # e => M[x] = L[x]
    BY <1>1, <1>3
<1>5. IsFiniteSet(Nodes(M))
    BY <1>2, <1>3 DEF NodesInv
<1>6. IsFiniteSet(Nodes(L)) /\ Cardinality(Nodes(M)) = Cardinality(Nodes(L)) + 1
    BY <1>4, <1>5, NodeAdded
<1>7. Cardinality(Nodes(L)) \in Nat
    BY <1>6, FS_CardinalityType
<1> QED BY <1>2, <1>3, <1>6, <1>7

\* vsf_evtq_on_eda_fini frees the nodes of the list.
LEMMA NodesFreed ==
    ASSUME TypeOK, NodesInv, NEW e \in Edas, Terminate(e), target' = target,
           TakenNodes' = TakenNodes
    PROVE  NodesInv'
<1>1. /\ evt_list \in [Edas -> Nat] /\ evt_list' \in [Edas -> Nat]
      /\ evt_list'[e] = 0 /\ \A x \in Edas : x # e => evt_list'[x] = evt_list[x]
    BY DEF TypeOK, Terminate
<1>2. QueuedNodes' = Nodes(evt_list') /\ QueuedNodes = Nodes(evt_list)
    BY DEF QueuedNodes, Nodes
<1>3. PICK L \in [Edas -> Nat], M \in [Edas -> Nat] : L = evt_list /\ M = evt_list'
    BY <1>1
<1>4. M[e] = 0 /\ \A x \in Edas : x # e => M[x] = L[x]
    BY <1>1, <1>3
<1>5. IsFiniteSet(Nodes(L))
    BY <1>2, <1>3 DEF NodesInv
<1>6. IsFiniteSet(Nodes(M)) /\ Cardinality(Nodes(L)) = Cardinality(Nodes(M)) + L[e]
    BY <1>4, <1>5, NodesDropped
<1>7. Cardinality(Nodes(M)) \in Nat /\ L[e] \in Nat
    BY <1>6, FS_CardinalityType
<1>8. IsFiniteSet(QueuedNodes') /\ Cardinality(QueuedNodes') + evt_list[e] = Cardinality(QueuedNodes)
    BY <1>2, <1>3, <1>6, <1>7
<1>9. pool' = pool + evt_list[e] /\ AllocatedNodes' = AllocatedNodes
    BY DEF Terminate, AllocatedNodes
<1>10. Cardinality(QueuedNodes') \in Nat /\ evt_list[e] \in Nat
    BY <1>1, <1>8, FS_CardinalityType
<1> QED BY <1>8, <1>9, <1>10, NodesFacts DEF NodesInv, NodesConserved

LEMMA NodesTake ==
    ASSUME TypeOK, NodesInv, NEW p \in Prios, NEW e \in Edas, Take(p, e), pc[p] # "start"
    PROVE  NodesInv'
<1>1. pc \in [Prios -> PcStates] /\ pool' = pool /\ target' = target
    BY DEF TypeOK, Take
<1>2. CASE e \in ToSet(rdy_list[p]) /\ evt_list[e] > 0
  <2>1. evt_list' = [evt_list EXCEPT ![e] = @ - 1] /\ pc' = [pc EXCEPT ![p] = "start"]
    BY <1>2 DEF Take
  <2>2. IsFiniteSet(QueuedNodes') /\ Cardinality(QueuedNodes') = Cardinality(QueuedNodes) - 1
    BY <1>2, <2>1, NodeRemoved
  <2>3. p \notin TakenNodes /\ TakenNodes' = TakenNodes \cup {p}
    BY <1>1, <2>1 DEF TakenNodes
  <2>4. Cardinality(TakenNodes') = Cardinality(TakenNodes) + 1
    BY <2>3, NodesFacts, FS_AddElement DEF NodesInv
  <2>5. AllocatedNodes' = AllocatedNodes
    BY <1>1 DEF AllocatedNodes
  <2> QED BY <1>1, <2>2, <2>4, <2>5, NodesFacts DEF NodesInv, NodesConserved
<1>3. CASE ~(e \in ToSet(rdy_list[p]) /\ evt_list[e] > 0)
  <2>1. evt_list' = evt_list /\ pc' = [pc EXCEPT ![p] = "fault"]
    BY <1>3 DEF Take
  <2>2. TakenNodes' = TakenNodes
    BY <1>1, <2>1 DEF TakenNodes
  <2> QED BY <1>1, <2>1, <2>2, NodesUntouched
<1> QED BY <1>2, <1>3

LEMMA NodesPoll ==
    ASSUME IInv, NodesInv, NEW p \in Prios, Poll(p)
    PROVE  NodesInv'
<1>0. TypeOK /\ IsFiniteSet(QueuedNodes) /\ pc \in [Prios -> PcStates]
    BY DEF IInv, TypeOK, NodesInv
<1>1. ASSUME NEW to \in PcStates \ {"start"}, pc[p] # "start", pc' = [pc EXCEPT ![p] = to]
      PROVE  TakenNodes' = TakenNodes
    BY <1>0, <1>1 DEF TakenNodes
<1>2. CASE PollFirst(p)
  <2>1. PICK e \in Edas : e = Head(rdy_list[p]) /\ Take(p, e)
    BY <1>0, <1>2, QueueFacts DEF PollFirst
  <2>2. pc[p] # "start"
    BY <1>2 DEF PollFirst
  <2> QED BY <1>0, <2>1, <2>2, NodesTake
<1>3. CASE PollNext(p)
  <2>1. node_eda[p] \in Edas /\ Take(p, node_eda[p]) /\ pc[p] # "start"
    BY <1>0, <1>3, QueueFacts DEF PollNext
  <2> QED BY <1>0, <2>1, NodesTake
<1>4. CASE PollStart(p)
  <2>1. /\ pool' = pool + 1 /\ evt_list' = evt_list /\ target' = target /\ pc[p] = "start"
        /\ pc' = [pc EXCEPT ![p] = IF is_to_exit[eda[p]] THEN "finish" ELSE "dispatch"]
    BY <1>4 DEF PollStart
  <2>2. p \in TakenNodes /\ TakenNodes' = TakenNodes \ {p}
    BY <1>0, <2>1 DEF TakenNodes
  <2>3. Cardinality(TakenNodes') = Cardinality(TakenNodes) - 1
    BY <1>0, <2>2, NodesFacts, FS_RemoveElement
  <2>4. QueuedNodes' = QueuedNodes /\ AllocatedNodes' = AllocatedNodes
    BY <2>1 DEF QueuedNodes, AllocatedNodes
  <2> QED BY <1>0, <2>1, <2>3, <2>4, NodesFacts DEF NodesInv, NodesConserved
<1>5. CASE PollFini(p)
  <2>1. eda[p] \in Edas
    BY <1>0, <1>5, QueueFacts DEF PollFini, IInv, CurInv
  <2>2. Terminate(eda[p]) /\ target' = target /\ pc[p] # "start" /\ pc' = [pc EXCEPT ![p] = "next"]
    BY <1>5 DEF PollFini
  <2>3. TakenNodes' = TakenNodes
    BY <1>1, <2>2 DEF PcStates
  <2> QED BY <1>0, <2>1, <2>2, <2>3, NodesFreed
<1>6. CASE PollFinish(p)
  <2>1. /\ UNCHANGED <<pool, evt_list, target>> /\ pc[p] = "finish"
        /\ pc' = [pc EXCEPT ![p] = IF is_to_exit[eda[p]] THEN "fini"
                                   ELSE IF evt_list[eda[p]] > 0 THEN "next" ELSE "setdue"]
    BY <1>6 DEF PollFinish
  <2>2. \E to \in PcStates \ {"start"} : pc' = [pc EXCEPT ![p] = to]
    BY <2>1 DEF PcStates
  <2> QED BY <1>1, <2>1, <2>2, NodesUntouched
<1>7. CASE SwiLeave(p)
    BY <1>7, NodesUntouched DEF SwiLeave, TakenNodes
<1>8. CASE SwiEnter(p)
  <2>1. /\ UNCHANGED <<pool, evt_list, target>> /\ p \notin ToSet(stack)
        /\ pc' = [pc EXCEPT ![p] = "poll"]
    BY <1>8 DEF SwiEnter
  <2>2. pc[p] # "start"
    BY <2>1 DEF IInv, CurInv
  <2> QED BY <1>1, <2>1, <2>2, NodesUntouched DEF PcStates
<1>9. CASE PollAgain(p)
  <2>1. /\ UNCHANGED <<pool, evt_list, target>> /\ pc[p] = "next"
        /\ pc' = [pc EXCEPT ![p] = "poll"]
    BY <1>9 DEF PollAgain
  <2> QED BY <1>1, <2>1, NodesUntouched DEF PcStates
<1>10. CASE PollSetDue(p)
  <2>1. /\ UNCHANGED <<pool, evt_list, target>> /\ pc[p] = "setdue"
        /\ pc' = [pc EXCEPT ![p] = "next"]
    BY <1>10 DEF PollSetDue
  <2> QED BY <1>1, <2>1, NodesUntouched DEF PcStates
<1> QED BY <1>2, <1>3, <1>4, <1>5, <1>6, <1>7, <1>8, <1>9, <1>10 DEF Poll

LEMMA NodesHandle ==
    ASSUME IInv, NodesInv, NEW p \in Prios, Handle(p)
    PROVE  NodesInv'
<1>0. TypeOK /\ IsFiniteSet(QueuedNodes) /\ pc \in [Prios -> PcStates]
    BY DEF IInv, TypeOK, NodesInv
<1>1. CASE HandlerReturn(p)
  <2>1. /\ UNCHANGED <<pool, evt_list, target>> /\ pc[p] = "dispatch"
        /\ pc' = [pc EXCEPT ![p] = "finish"]
    BY <1>1 DEF HandlerReturn, InHandler
  <2>2. TakenNodes' = TakenNodes
    BY <1>0, <2>1 DEF TakenNodes
  <2> QED BY <2>1, <2>2, NodesUntouched
<1>2. CASE Restore(p)
  <2>1. UNCHANGED <<pool, evt_list, target, pc>>
    BY <1>2 DEF Restore, pollVars
  <2> QED BY <2>1, NodesUntouched DEF TakenNodes
<1>3. CASE Clean(p)
  <2>1. /\ cur[p] # NoEda /\ InHandler(p) /\ evt_list[cur[p]] > 0
        /\ evt_list' = [evt_list EXCEPT ![cur[p]] = @ - 1]
        /\ pool' = pool + 1 /\ UNCHANGED <<target, pc>>
    <3>1. InHandler(p)
        BY <1>3 DEF Clean
    <3>2. cur[p] # NoEda
        BY <3>1 DEF InHandler, IInv, CurInv
    <3> QED BY <1>3, <3>1, <3>2 DEF Clean, pollVars
  <2>2. PICK e \in Edas : e = cur[p]
    BY <1>0, <2>1, QueueFacts
  <2>3. IsFiniteSet(QueuedNodes') /\ Cardinality(QueuedNodes') = Cardinality(QueuedNodes) - 1
    BY <1>0, <2>1, <2>2, NodeRemoved
  <2>4. AllocatedNodes' = AllocatedNodes /\ TakenNodes' = TakenNodes
    BY <2>1 DEF AllocatedNodes, TakenNodes
  <2> QED BY <1>0, <2>1, <2>3, <2>4, NodesFacts DEF NodesInv, NodesConserved
<1>4. ASSUME NEW e \in Edas, Boost(p, e) PROVE NodesInv'
  <2>1. UNCHANGED <<pool, evt_list, target, pc>>
    BY <1>4 DEF Boost, pollVars
  <2> QED BY <2>1, NodesUntouched DEF TakenNodes
<1>5. ASSUME NEW e \in Edas, Fini(p, e) PROVE NodesInv'
  <2>1. UNCHANGED <<target, pc>>
    BY <1>5 DEF Fini, pollVars
  <2>2. TakenNodes' = TakenNodes
    BY <2>1 DEF TakenNodes
  <2>3. CASE cur[cur_priority[e]] = e
    BY <1>5, <2>1, <2>2, <2>3, NodesUntouched DEF Fini
  <2>4. CASE cur[cur_priority[e]] # e
    BY <1>0, <1>5, <2>1, <2>2, <2>4, NodesFreed DEF Fini
  <2> QED BY <2>3, <2>4
<1>6. ASSUME NEW b \in BOOLEAN, SetLimitted(p, b) PROVE NodesInv'
  <2>1. UNCHANGED <<pool, evt_list, target, pc>>
    BY <1>6 DEF SetLimitted, pollVars
  <2> QED BY <2>1, NodesUntouched DEF TakenNodes
<1> QED BY <1>1, <1>2, <1>3, <1>4, <1>5, <1>6 DEF Handle

\* Every event node that __vsf_evtq_post, vsf_evtq_poll, vsf_evtq_clean_evt and
\* vsf_evtq_on_eda_fini move is free, in the list of one eda, or in the hands of
\* one producer or of poll: none is lost, and none is freed twice.
THEOREM NoNodeIsLost == Spec => []NodesConserved
<1>1. Init => NodesInv
  <2> SUFFICES ASSUME Init PROVE NodesInv
    OBVIOUS
  <2>1. evt_list = [e \in Edas |-> 0] /\ pool = PoolSize
    BY DEF Init
  <2>2. QueuedNodes = {}
    BY <2>1 DEF QueuedNodes
  <2>3. AllocatedNodes = {} /\ TakenNodes = {}
    BY DEF Init, AllocatedNodes, TakenNodes
  <2> QED BY <2>1, <2>2, <2>3, FS_EmptySet, BoundAssumption DEF NodesInv, NodesConserved
<1>2. IInv /\ NodesInv /\ [Next]_vars => NodesInv'
  <2> SUFFICES ASSUME IInv, NodesInv, [Next]_vars PROVE NodesInv'
    OBVIOUS
  <2>1. ASSUME NEW c \in Producers, Produce(c) PROVE NodesInv'
    BY <2>1, NodesProduce
  <2>2. ASSUME NEW p \in Prios, Poll(p) PROVE NodesInv'
    BY <2>2, NodesPoll
  <2>3. ASSUME NEW p \in Prios, Handle(p) PROVE NodesInv'
    BY <2>3, NodesHandle
  <2>4. CASE UNCHANGED vars
    BY <2>4, NodesUntouched DEF vars, TakenNodes
  <2>5. CASE \E p \in Prios : Halt(p)
    BY <2>4, <2>5 DEF Halt
  <2> QED BY <2>1, <2>2, <2>3, <2>4, <2>5 DEF Next
<1>3. NodesInv => NodesConserved
    BY DEF NodesInv
<1> QED BY <1>1, <1>2, <1>3, Invariant, PTL DEF Spec
=============================================================================
