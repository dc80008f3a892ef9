---------------------------- MODULE VsfMutexProofs ----------------------------
(***************************************************************************)
(* Proofs about the mutex of the kernel and the priorities it lends, for   *)
(* any number of tasks and priorities and every use of timeouts and        *)
(* cancels.                                                                *)
(***************************************************************************)
EXTENDS VsfMutex, ListLemmas, TLAPS

Notices == {"SYNC", "CANCEL"}

\* t is being dispatched.
In(t) == cur[cur_priority[t]] = t

\* A queue that dispatches is active, and dispatches a task of its priority.
CurInv ==
    /\ \A p \in Prios : cur[p] # NoTask => cur_priority[cur[p]] = p /\ p \in ToSet(stack)
    /\ \A p \in Prios : evt[p] # "none" => cur[p] # NoTask
    /\ \A p \in Prios : op[p].kind \in Notices => op[p].to \in Tasks

\* The ready lists hold the tasks that have events and are not being
\* dispatched, each once, in the list of its priority.
RdyInv ==
    /\ \A p \in Prios : NoTwice(rdy_list[p])
    /\ \A p \in Prios : \A t \in ToSet(rdy_list[p]) :
          cur_priority[t] = p /\ evts[t] # <<>> /\ ~In(t)
    /\ \A t \in Tasks : evts[t] # <<>> /\ ~In(t) => t \in ToSet(rdy_list[cur_priority[t]])

BaseInv == TypeOK /\ CurInv /\ RdyInv

-----------------------------------------------------------------------------
(* Types and the ready lists *)

LEMMA PrioFacts ==
    /\ Levels \in Nat /\ Prios \subseteq Int /\ NoTask \notin Tasks
    /\ \A n \in Int : n \in Prios <=> 1 <= n /\ n <= Levels
    /\ \A p \in Prios : p \in 0 .. Levels /\ p # 0 /\ p >= 1
    /\ 0 \in 0 .. Levels /\ \A n \in 0 .. Levels : n # 0 => n \in Prios
    /\ Prio \in [Tasks -> Prios]
BY LevelAssumption, TaskAssumption DEF Prios

LEMMA TaskFacts ==
    ASSUME TypeOK, NEW t \in Tasks
    PROVE  /\ cur_priority[t] \in Prios /\ Prio[t] \in Prios
           /\ new_priority[t] \in 0 .. Levels /\ GetCurPriority(t) \in Prios
           /\ cur_priority[t] \in Int /\ Prio[t] \in Int /\ new_priority[t] \in Int
           /\ GetCurPriority(t) \in Int /\ evts[t] \in Seq(Events)
<1>1. /\ cur_priority[t] \in Prios /\ Prio[t] \in Prios
      /\ new_priority[t] \in 0 .. Levels /\ evts[t] \in Seq(Events)
    BY PrioFacts DEF TypeOK
<1>2. GetCurPriority(t) \in Prios
    BY <1>1, PrioFacts DEF GetCurPriority
<1>3. new_priority[t] \in Int
    BY <1>1, PrioFacts
<1> QED BY <1>1, <1>2, <1>3, PrioFacts

LEMMA QueueFacts ==
    ASSUME TypeOK, NEW p \in Prios
    PROVE  /\ cur[p] \in Tasks \cup {NoTask} /\ level[p] \in Prios /\ level[p] \in Int
           /\ rdy_list[p] \in Seq(Tasks) /\ op[p].kind \in Kinds
           /\ op[p].to \in Tasks \cup {NoTask} /\ p \in Int
BY PrioFacts DEF TypeOK

\* A task is dispatched only by the queue of its priority.
LEMMA DispatchedIn ==
    ASSUME TypeOK, CurInv, NEW t \in Tasks
    PROVE  /\ Dispatched(t) <=> In(t)
           /\ IsReady(t) <=> In(t) \/ evts[t] # <<>>
           /\ \A p \in Prios : cur[p] = t => cur_priority[t] = p
<1>1. \A p \in Prios : cur[p] = t => cur_priority[t] = p
    BY PrioFacts DEF CurInv
<1>2. Dispatched(t) <=> In(t)
    BY <1>1, TaskFacts DEF Dispatched, In
<1> QED BY <1>1, <1>2 DEF IsReady

LEMMA RunningFacts ==
    ASSUME TypeOK, NEW p \in Prios, Running(p)
    PROVE  stack # <<>> /\ Head(stack) = p /\ p \in ToSet(stack) /\ Tail(stack) \in Seq(Prios)
BY TailFacts DEF Running, TypeOK

\* The handler that runs.
LEMMA AtWorkFacts ==
    ASSUME TypeOK, CurInv, NEW p \in Prios, AtWork(p)
    PROVE  /\ cur[p] \in Tasks /\ cur_priority[cur[p]] = p /\ In(cur[p])
           /\ wait[cur[p]] = "no" /\ op[p] = NoOp /\ evt[p] = "none" /\ Running(p)
BY QueueFacts, PrioFacts DEF AtWork, CurInv, In

\* Nothing that the ready lists are about has changed.
LEMMA RdyFrame ==
    ASSUME RdyInv, UNCHANGED <<rdy_list, evts, cur, cur_priority>> PROVE RdyInv'
BY DEF RdyInv, In, NoTwice

\* __vsf_evtq_post
LEMMA PostFacts ==
    ASSUME BaseInv, NEW t \in Tasks, NEW e \in Events, Post(t, e),
           UNCHANGED <<cur, cur_priority>>
    PROVE  /\ evts' \in [Tasks -> Seq(Events)] /\ rdy_list' \in [Prios -> Seq(Tasks)]
           /\ RdyInv'
           /\ evts'[t] = Append(evts[t], e) /\ \A x \in Tasks : x # t => evts'[x] = evts[x]
<1>0. /\ TypeOK /\ CurInv /\ RdyInv
    BY DEF BaseInv
<1>1. /\ evts \in [Tasks -> Seq(Events)] /\ rdy_list \in [Prios -> Seq(Tasks)]
      /\ cur_priority[t] \in Prios
    BY <1>0, TaskFacts DEF TypeOK
<1>2. Append(evts[t], e) \in Seq(Events) /\ Append(evts[t], e) # <<>>
  <2>1. PICK s \in Seq(Events) : s = evts[t]
    BY <1>1
  <2>2. Append(s, e) \in Seq(Events) /\ Len(Append(s, e)) = Len(s) + 1 /\ Len(s) \in Nat
    OBVIOUS
  <2> QED BY <2>1, <2>2
<1>3. /\ evts' \in [Tasks -> Seq(Events)]
      /\ evts'[t] = Append(evts[t], e) /\ \A x \in Tasks : x # t => evts'[x] = evts[x]
    BY <1>1, <1>2 DEF Post
<1>4. \A x \in Tasks : In(x)' <=> In(x)
    BY DEF In
<1>5. CASE IsReady(t)
  <2>1. rdy_list' = rdy_list
    BY <1>5 DEF Post
  <2>2. In(t) \/ evts[t] # <<>>
    BY <1>0, <1>5, DispatchedIn
  <2>3. \A x \in Tasks : evts[x] # <<>> => evts'[x] # <<>>
    BY <1>2, <1>3
  <2>4. \A p \in Prios : \A x \in ToSet(rdy_list[p]) : x \in Tasks
    BY <1>1 DEF ToSet
  <2>5. \A x \in Tasks : evts'[x] # <<>> /\ ~In(x) => evts[x] # <<>>
    BY <1>3, <2>2
  <2>6. RdyInv'
    BY <1>0, <1>4, <2>1, <2>3, <2>4, <2>5 DEF RdyInv, NoTwice
  <2> QED BY <1>1, <1>3, <2>1, <2>6
<1>6. CASE ~IsReady(t)
  <2>1. evts[t] = <<>> /\ ~In(t)
    BY <1>0, <1>6, DispatchedIn
  <2>2. PICK p \in Prios : p = cur_priority[t]
    BY <1>1
  <2>3. rdy_list' = [rdy_list EXCEPT ![p] = Append(@, t)]
    BY <1>6, <2>2 DEF Post
  <2>4. \A q \in Prios : t \notin ToSet(rdy_list[q])
    BY <1>0, <2>1 DEF RdyInv
  <2>5. /\ Append(rdy_list[p], t) \in Seq(Tasks)
        /\ ToSet(Append(rdy_list[p], t)) = ToSet(rdy_list[p]) \cup {t}
        /\ NoTwice(Append(rdy_list[p], t))
    BY <1>0, <1>1, <2>4, AppendFacts DEF RdyInv
  <2>6. /\ rdy_list' \in [Prios -> Seq(Tasks)] /\ rdy_list'[p] = Append(rdy_list[p], t)
        /\ \A q \in Prios : q # p => rdy_list'[q] = rdy_list[q]
    BY <1>1, <2>3, <2>5
  <2>7. \A q \in Prios : NoTwice(rdy_list'[q])
    BY <1>0, <2>5, <2>6 DEF RdyInv
  <2>8. \A q \in Prios : \A x \in Tasks :
           x \in ToSet(rdy_list'[q]) <=> x \in ToSet(rdy_list[q]) \/ (x = t /\ q = p)
    BY <2>5, <2>6
  <2>9. \A q \in Prios : \A x \in ToSet(rdy_list'[q]) : x \in Tasks
    BY <2>6 DEF ToSet
  <2>10. ASSUME NEW q \in Prios, NEW x \in ToSet(rdy_list'[q])
         PROVE  cur_priority'[x] = q /\ evts'[x] # <<>> /\ ~In(x)'
    <3>1. CASE x = t
        BY <1>2, <1>3, <1>4, <2>1, <2>2, <2>4, <2>8, <2>9, <3>1
    <3>2. CASE x # t
        BY <1>0, <1>3, <1>4, <2>8, <2>9, <3>2 DEF RdyInv
    <3> QED BY <3>1, <3>2
  <2>11. ASSUME NEW x \in Tasks, evts'[x] # <<>>, ~In(x)'
         PROVE  x \in ToSet(rdy_list'[cur_priority'[x]])
    BY <1>0, <1>1, <1>3, <1>4, <2>2, <2>8, <2>11, TaskFacts DEF RdyInv
  <2>12. RdyInv'
    BY <2>7, <2>10, <2>11 DEF RdyInv
  <2> QED BY <1>3, <2>6, <2>12
<1> QED BY <1>5, <1>6

LEMMA BaseDispatch ==
    ASSUME BaseInv, NEW p \in Prios, Dispatch(p) PROVE BaseInv'
<1>0. /\ TypeOK /\ CurInv /\ RdyInv
    BY DEF BaseInv
<1>1. /\ rdy_list[p] # <<>> /\ cur[p] = NoTask
      /\ stack' = stack \/ stack' = <<p>> \o stack
      /\ stack' = stack => p \in ToSet(stack)
  <2>1. CASE Preempts(p) /\ stack' = <<p>> \o stack
    <3>1. rdy_list[p] # <<>> /\ cur[p] = NoTask
        BY <1>0, <2>1 DEF Preempts, CurInv
    <3>2. stack \in Seq(Prios)
        BY <1>0 DEF TypeOK
    <3>3. Len(<<p>> \o stack) = Len(stack) + 1 /\ Len(stack) \in Nat
        BY <3>2
    <3>4. stack' # stack
        BY <2>1, <3>3
    <3> QED BY <2>1, <3>1, <3>4
  <2>2. CASE Running(p) /\ cur[p] = NoTask /\ rdy_list[p] # <<>> /\ stack' = stack
    BY <1>0, <2>2, RunningFacts
  <2> QED BY <2>1, <2>2 DEF Dispatch
<1>2. /\ stack' \in Seq(Prios) /\ ToSet(stack)' = ToSet(stack) \cup {p}
  <2>1. stack \in Seq(Prios)
    BY <1>0 DEF TypeOK
  <2>2. CASE stack' = stack
    BY <1>1, <2>1, <2>2
  <2>3. CASE stack' = <<p>> \o stack
    BY <2>1, <2>3, ConsFacts
  <2> QED BY <1>1, <2>2, <2>3
<1>3. PICK t \in Tasks : t = Head(rdy_list[p])
    BY <1>0, <1>1, QueueFacts, TailFacts
<1>4. /\ cur_priority[t] = p /\ evts[t] # <<>> /\ ~In(t) /\ t \in ToSet(rdy_list[p])
      /\ NoTwice(rdy_list[p])
    BY <1>0, <1>1, <1>3, QueueFacts, TailFacts DEF RdyInv
<1>5. /\ cur' = [cur EXCEPT ![p] = t] /\ evt' = [evt EXCEPT ![p] = Head(evts[t])]
      /\ evts' = [evts EXCEPT ![t] = Tail(@)]
      /\ rdy_list' = [rdy_list EXCEPT ![p] = Tail(@)]
      /\ UNCHANGED <<eda_owner, pending, cur_priority, new_priority, level, wait,
                     timer, is_sync_got, op, holds, undercut, indebted>>
    BY <1>3 DEF Dispatch, prioVars, waitVars, histVars
<1>6. Head(evts[t]) \in Events /\ Tail(evts[t]) \in Seq(Events)
    BY <1>0, <1>4, TaskFacts, TailFacts
<1>7. Tail(rdy_list[p]) \in Seq(Tasks) /\ ToSet(Tail(rdy_list[p])) = ToSet(rdy_list[p]) \ {t}
      /\ NoTwice(Tail(rdy_list[p]))
    BY <1>0, <1>1, <1>3, <1>4, QueueFacts, TailFacts
<1>8. TypeOK'
  <2>1. cur' \in [Prios -> Tasks \cup {NoTask}] /\ evt' \in [Prios -> Events \cup {"none"}]
    BY <1>0, <1>5, <1>6 DEF TypeOK
  <2>2. evts' \in [Tasks -> Seq(Events)] /\ rdy_list' \in [Prios -> Seq(Tasks)]
    BY <1>0, <1>5, <1>6, <1>7 DEF TypeOK
  <2> QED BY <1>0, <1>2, <1>5, <2>1, <2>2 DEF TypeOK
<1>9. CurInv'
    BY <1>0, <1>2, <1>4, <1>5, PrioFacts DEF CurInv, TypeOK
<1>10. \A x \in Tasks : In(x)' <=> In(x) \/ x = t
    BY <1>0, <1>1, <1>4, <1>5, PrioFacts, TaskFacts DEF In, TypeOK
<1>11. /\ rdy_list'[p] = Tail(rdy_list[p])
       /\ \A q \in Prios : q # p => rdy_list'[q] = rdy_list[q]
       /\ \A x \in Tasks : x # t => evts'[x] = evts[x]
    BY <1>0, <1>5 DEF TypeOK
<1>12. \A q \in Prios : \A x \in ToSet(rdy_list'[q]) :
          x \in Tasks /\ x # t /\ x \in ToSet(rdy_list[q])
  <2>1. \A q \in Prios : \A x \in ToSet(rdy_list[q]) : x \in Tasks
    BY <1>0, QueueFacts DEF ToSet
  <2> QED BY <1>0, <1>4, <1>7, <1>11, <2>1 DEF RdyInv
<1>13. RdyInv'
  <2>1. \A q \in Prios : NoTwice(rdy_list'[q])
    BY <1>0, <1>7, <1>11 DEF RdyInv
  <2>2. \A q \in Prios : \A x \in ToSet(rdy_list'[q]) :
           cur_priority'[x] = q /\ evts'[x] # <<>> /\ ~In(x)'
    BY <1>0, <1>5, <1>10, <1>11, <1>12 DEF RdyInv
  <2>3. \A x \in Tasks : evts'[x] # <<>> /\ ~In(x)' =>
           x \in ToSet(rdy_list'[cur_priority'[x]])
    <3> SUFFICES ASSUME NEW x \in Tasks, evts'[x] # <<>>, ~In(x)'
                 PROVE  x \in ToSet(rdy_list'[cur_priority[x]])
        BY <1>5
    <3>1. x # t /\ x \in ToSet(rdy_list[cur_priority[x]])
        BY <1>0, <1>10, <1>11 DEF RdyInv
    <3> QED BY <1>0, <1>7, <1>11, <3>1, TaskFacts
  <2> QED BY <2>1, <2>2, <2>3 DEF RdyInv
<1> QED BY <1>8, <1>9, <1>13 DEF BaseInv

\* vsf_evtq_poll ends the dispatch.
LEMMA BaseFinish ==
    ASSUME BaseInv, NEW p \in Prios, Finish(p)
    PROVE  /\ BaseInv' /\ cur[p] \in Tasks /\ cur_priority[cur[p]] = p
           /\ \A x \in Tasks : In(x)' <=> In(x) /\ x # cur[p]
<1>0. /\ TypeOK /\ CurInv /\ RdyInv
    BY DEF BaseInv
<1>1. PICK t \in Tasks : t = cur[p]
    BY <1>0, QueueFacts DEF Finish
<1>2. cur_priority[t] = p /\ In(t)
    BY <1>0, <1>1, PrioFacts DEF CurInv, In
<1>3. PICK q \in Prios : q = GetCurPriority(t)
    BY <1>0, TaskFacts
<1>4. /\ cur_priority' = [cur_priority EXCEPT ![t] = q]
      /\ new_priority' = [new_priority EXCEPT ![t] = 0]
      /\ level' = IF new_priority[t] # 0 THEN [level EXCEPT ![p] = p] ELSE level
      /\ rdy_list' = IF evts[t] # <<>> THEN [rdy_list EXCEPT ![q] = Append(@, t)]
                                       ELSE rdy_list
      /\ timer' = [timer EXCEPT ![t] = IF @ = "due" /\ ~(evts[t] # <<>>) THEN "set" ELSE @]
      /\ cur' = [cur EXCEPT ![p] = NoTask] /\ evt[p] = "none"
      /\ UNCHANGED <<eda_owner, pending, stack, evts, evt, wait, is_sync_got, op,
                     holds, undercut, indebted>>
    BY <1>1, <1>3 DEF Finish, histVars
<1>5. ASSUME NEW x \in Tasks PROVE In(x)' <=> In(x) /\ x # t
  <2>1. /\ cur'[p] = NoTask /\ \A r \in Prios : r # p => cur'[r] = cur[r]
        /\ cur_priority'[t] = q /\ \A y \in Tasks : y # t => cur_priority'[y] = cur_priority[y]
    BY <1>0, <1>4 DEF TypeOK
  <2>2. CASE x = t
    <3>1. \A r \in Prios : cur[r] = t => r = p
        BY <1>0, <1>2, DispatchedIn
    <3> QED BY <2>1, <2>2, <3>1, PrioFacts DEF In
  <2>3. CASE x # t
    BY <1>0, <1>1, <2>1, <2>3, PrioFacts, TaskFacts DEF In
  <2> QED BY <2>2, <2>3
<1>6. \A r \in Prios : t \notin ToSet(rdy_list[r])
    BY <1>0, <1>2 DEF RdyInv
<1>7. /\ Append(rdy_list[q], t) \in Seq(Tasks)
      /\ ToSet(Append(rdy_list[q], t)) = ToSet(rdy_list[q]) \cup {t}
      /\ NoTwice(Append(rdy_list[q], t))
    BY <1>0, <1>6, QueueFacts, AppendFacts DEF RdyInv
<1>8. /\ rdy_list' \in [Prios -> Seq(Tasks)]
      /\ \A r \in Prios : NoTwice(rdy_list'[r])
      /\ \A r \in Prios : \A x \in Tasks : x \in ToSet(rdy_list'[r]) <=>
            x \in ToSet(rdy_list[r]) \/ (x = t /\ r = q /\ evts[t] # <<>>)
  <2>0. rdy_list \in [Prios -> Seq(Tasks)]
    BY <1>0 DEF TypeOK
  <2>1. CASE evts[t] = <<>>
    BY <1>0, <1>4, <2>0, <2>1 DEF RdyInv
  <2>2. CASE evts[t] # <<>>
    <3>1. /\ rdy_list' \in [Prios -> Seq(Tasks)] /\ rdy_list'[q] = Append(rdy_list[q], t)
          /\ \A r \in Prios : r # q => rdy_list'[r] = rdy_list[r]
        BY <1>4, <1>7, <2>0, <2>2
    <3>2. \A r \in Prios : NoTwice(rdy_list'[r])
        BY <1>0, <1>7, <3>1 DEF RdyInv
    <3>3. \A r \in Prios : \A x \in Tasks : x \in ToSet(rdy_list'[r]) <=>
             x \in ToSet(rdy_list[r]) \/ (x = t /\ r = q /\ evts[t] # <<>>)
        BY <1>7, <2>2, <3>1
    <3> QED BY <3>1, <3>2, <3>3
  <2> QED BY <2>1, <2>2
<1>9. TypeOK'
  <2>1. cur_priority' \in [Tasks -> Prios] /\ new_priority' \in [Tasks -> 0 .. Levels]
    BY <1>0, <1>4, PrioFacts DEF TypeOK
  <2>2. level' \in [Prios -> Prios] /\ cur' \in [Prios -> Tasks \cup {NoTask}]
    BY <1>0, <1>4 DEF TypeOK
  <2>3. timer' \in [Tasks -> {"no", "due", "set"}]
    BY <1>0, <1>4 DEF TypeOK
  <2> QED BY <1>0, <1>4, <1>8, <2>1, <2>2, <2>3 DEF TypeOK
<1>10. CurInv'
  <2>1. \A r \in Prios : /\ r # p => cur'[r] = cur[r] /\ cur[r] # t
                         /\ cur'[p] = NoTask
    BY <1>0, <1>2, <1>4, PrioFacts DEF CurInv, TypeOK
  <2>2. \A r \in Prios : cur'[r] # NoTask => cur_priority'[cur'[r]] = r /\ r \in ToSet(stack)
    <3> SUFFICES ASSUME NEW r \in Prios, cur'[r] # NoTask
                 PROVE  cur_priority'[cur'[r]] = r /\ r \in ToSet(stack)
        OBVIOUS
    <3>1. r # p /\ cur'[r] = cur[r] /\ cur[r] # t /\ cur[r] \in Tasks
        BY <1>0, <2>1, QueueFacts
    <3> QED BY <1>0, <1>4, <3>1 DEF CurInv, TypeOK
  <2> QED BY <1>0, <1>4, <2>1, <2>2 DEF CurInv
<1>11. RdyInv'
  <2>1. \A r \in Prios : \A x \in ToSet(rdy_list'[r]) : x \in Tasks
    BY <1>8 DEF ToSet
  <2>2. \A x \in Tasks : x # t => cur_priority'[x] = cur_priority[x]
    BY <1>0, <1>4 DEF TypeOK
  <2>3. cur_priority'[t] = q
    BY <1>0, <1>4 DEF TypeOK
  <2>4. ASSUME NEW r \in Prios, NEW x \in ToSet(rdy_list'[r])
        PROVE  cur_priority'[x] = r /\ evts'[x] # <<>> /\ ~In(x)'
    <3>1. CASE x = t
        BY <1>4, <1>5, <1>6, <1>8, <2>1, <2>3, <3>1
    <3>2. CASE x # t
        <4>1. x \in Tasks /\ x \in ToSet(rdy_list[r])
            BY <1>8, <2>1, <3>2
        <4> QED BY <1>0, <1>4, <1>5, <2>2, <3>2, <4>1 DEF RdyInv
    <3> QED BY <3>1, <3>2
  <2>5. ASSUME NEW x \in Tasks, evts'[x] # <<>>, ~In(x)'
        PROVE  x \in ToSet(rdy_list'[cur_priority'[x]])
    <3>1. CASE x = t
        BY <1>4, <1>8, <2>3, <2>5, <3>1
    <3>2. CASE x # t
        BY <1>0, <1>4, <1>5, <1>8, <2>2, <2>5, <3>2, TaskFacts DEF RdyInv
    <3> QED BY <3>1, <3>2
  <2> QED BY <1>8, <2>4, <2>5 DEF RdyInv
<1> QED BY <1>1, <1>2, <1>5, <1>9, <1>10, <1>11 DEF BaseInv

\* __vsf_eda_set_priority of a task that is being dispatched.
LEMMA SetInFacts ==
    ASSUME BaseInv, NEW t \in Tasks, NEW q \in Prios, In(t), SetPriority(t, q)
    PROVE  /\ UNCHANGED <<rdy_list, cur_priority>>
           /\ cur_priority[t] = q => UNCHANGED <<new_priority, level>>
           /\ cur_priority[t] # q =>
                 /\ new_priority' = [new_priority EXCEPT ![t] = q]
                 /\ level' = IF q > cur_priority[t]
                             THEN [level EXCEPT ![cur_priority[t]] = q] ELSE level
BY DEF SetPriority, In, prioVars

\* __vsf_eda_set_priority of a task that is not.
LEMMA SetOutFacts ==
    ASSUME BaseInv, NEW t \in Tasks, NEW q \in Prios, ~In(t), new_priority[t] = 0,
           SetPriority(t, q), UNCHANGED <<cur, evts>>
    PROVE  /\ UNCHANGED <<new_priority, level>>
           /\ cur_priority' = [cur_priority EXCEPT ![t] = q]
           /\ rdy_list' \in [Prios -> Seq(Tasks)] /\ RdyInv'
           /\ \A x \in Tasks : In(x)' <=> In(x)
<1>0. TypeOK /\ CurInv /\ RdyInv
    BY DEF BaseInv
<1>1. PICK p \in Prios : p = cur_priority[t]
    BY <1>0, TaskFacts
<1>2. CASE p = q
  <2>1. UNCHANGED <<rdy_list, new_priority, level, cur_priority>>
    BY <1>1, <1>2 DEF SetPriority, prioVars
  <2>2. cur_priority' = [cur_priority EXCEPT ![t] = q]
    BY <1>0, <1>1, <1>2, <2>1 DEF TypeOK
  <2> QED BY <1>0, <2>1, <2>2, RdyFrame DEF TypeOK, In
<1>3. CASE p # q
  <2>1. /\ MoveReady(t, p, q) /\ cur_priority' = [cur_priority EXCEPT ![t] = q]
        /\ UNCHANGED <<new_priority, level>>
    BY <1>1, <1>3 DEF SetPriority, In
  <2>2. \A x \in Tasks : In(x)' <=> In(x)
    BY <1>0, <1>1, <1>3, <2>1, PrioFacts DEF In, TypeOK, CurInv
  <2>3. rdy_list \in [Prios -> Seq(Tasks)]
    BY <1>0 DEF TypeOK
  <2>4. \A r \in Prios : t \in ToSet(rdy_list[r]) => r = p
    BY <1>0, <1>1 DEF RdyInv
  <2>5. /\ rdy_list' \in [Prios -> Seq(Tasks)]
        /\ \A r \in Prios : NoTwice(rdy_list'[r])
        /\ \A r \in Prios : \A x \in Tasks : x \in ToSet(rdy_list'[r]) <=>
              IF x = t THEN r = q /\ evts[t] # <<>> ELSE x \in ToSet(rdy_list[r])
    <3>1. CASE evts[t] = <<>>
        <4>1. rdy_list' = rdy_list /\ \A r \in Prios : t \notin ToSet(rdy_list[r])
            BY <1>0, <2>1, <3>1 DEF MoveReady, RdyInv
        <4> QED BY <1>0, <2>3, <3>1, <4>1 DEF RdyInv
    <3>2. CASE evts[t] # <<>>
        <4>1. PICK i \in DOMAIN rdy_list[p] :
                 /\ rdy_list[p][i] = t
                 /\ rdy_list' = [rdy_list EXCEPT ![p] = RemoveAt(@, i), ![q] = Append(@, t)]
            BY <2>1, <3>2 DEF MoveReady
        <4>2. /\ RemoveAt(rdy_list[p], i) \in Seq(Tasks) /\ NoTwice(RemoveAt(rdy_list[p], i))
              /\ ToSet(RemoveAt(rdy_list[p], i)) = ToSet(rdy_list[p]) \ {t}
            BY <1>0, <2>3, <4>1, RemoveAtFacts DEF RdyInv
        <4>3. /\ Append(rdy_list[q], t) \in Seq(Tasks) /\ NoTwice(Append(rdy_list[q], t))
              /\ ToSet(Append(rdy_list[q], t)) = ToSet(rdy_list[q]) \cup {t}
            BY <1>0, <1>3, <2>3, <2>4, AppendFacts DEF RdyInv
        <4>4. /\ rdy_list'[p] = RemoveAt(rdy_list[p], i) /\ rdy_list'[q] = Append(rdy_list[q], t)
              /\ \A r \in Prios : r # p /\ r # q => rdy_list'[r] = rdy_list[r]
              /\ rdy_list' \in [Prios -> Seq(Tasks)]
            BY <1>3, <2>3, <4>1, <4>2, <4>3
        <4>5. \A r \in Prios : NoTwice(rdy_list'[r])
          <5>1. \A r \in Prios : NoTwice(rdy_list[r])
            BY <1>0 DEF RdyInv
          <5> QED BY <4>2, <4>3, <4>4, <5>1
        <4>6. ASSUME NEW r \in Prios, NEW x \in Tasks
              PROVE  x \in ToSet(rdy_list'[r]) <=>
                        IF x = t THEN r = q ELSE x \in ToSet(rdy_list[r])
            <5>1. CASE r = p
                BY <1>3, <4>2, <4>4, <5>1
            <5>2. CASE r = q
                BY <4>3, <4>4, <5>2
            <5>3. CASE r # p /\ r # q
                BY <2>4, <4>4, <5>3
            <5> QED BY <5>1, <5>2, <5>3
        <4> QED BY <3>2, <4>4, <4>5, <4>6
    <3> QED BY <3>1, <3>2
  <2>6. cur_priority'[t] = q /\ \A x \in Tasks : x # t => cur_priority'[x] = cur_priority[x]
    BY <1>0, <2>1 DEF TypeOK
  <2>7. \A r \in Prios : \A x \in ToSet(rdy_list'[r]) : x \in Tasks
    BY <2>5 DEF ToSet
  <2>8. ASSUME NEW r \in Prios, NEW x \in ToSet(rdy_list'[r])
        PROVE  cur_priority'[x] = r /\ evts'[x] # <<>> /\ ~In(x)'
    BY <1>0, <2>2, <2>5, <2>6, <2>7 DEF RdyInv
  <2>9. ASSUME NEW x \in Tasks, evts'[x] # <<>>, ~In(x)'
        PROVE  x \in ToSet(rdy_list'[cur_priority'[x]])
    <3>1. CASE x = t
        BY <2>5, <2>6, <2>9, <3>1
    <3>2. CASE x # t
        BY <1>0, <2>2, <2>5, <2>6, <2>9, <3>2, TaskFacts DEF RdyInv
    <3> QED BY <3>1, <3>2
  <2>10. RdyInv'
    BY <2>5, <2>8, <2>9 DEF RdyInv
  <2> QED BY <2>1, <2>2, <2>5, <2>10
<1> QED BY <1>2, <1>3

-----------------------------------------------------------------------------
(* Priorities and loans *)

\* A queue is raised only while it dispatches a task that has a new priority
\* to take up; a task is never below its own priority, and only the owner is
\* above it once its handler has returned.
PrioInv ==
    /\ \A p \in Prios : level[p] >= p
    /\ \A p \in Prios : level[p] # p => cur[p] # NoTask /\ new_priority[cur[p]] # 0
    /\ \A t \in Tasks : new_priority[t] # 0 =>
          In(t) /\ new_priority[t] # cur_priority[t] /\ new_priority[t] >= Prio[t]
    /\ \A t \in Tasks : cur_priority[t] >= Prio[t]
    /\ \A t \in Tasks : t # eda_owner => GetCurPriority(t) = Prio[t]

LEMMA PrioFrame ==
    ASSUME PrioInv, UNCHANGED <<level, cur, new_priority, cur_priority, eda_owner>>
    PROVE  PrioInv'
BY DEF PrioInv, In, GetCurPriority

LEMMA PrioDispatch ==
    ASSUME BaseInv, PrioInv, NEW p \in Prios, Dispatch(p) PROVE PrioInv'
<1>1. cur[p] = NoTask
    BY DEF Dispatch, Preempts, BaseInv, CurInv
<1>2. /\ UNCHANGED <<level, new_priority, cur_priority, eda_owner>>
      /\ \A r \in Prios : r # p => cur'[r] = cur[r]
    BY DEF Dispatch, prioVars, BaseInv, TypeOK
<1>3. level[p] = p
    BY <1>1 DEF PrioInv
<1>4. \A t \in Tasks : In(t) => In(t)'
    BY <1>1, <1>2, TaskFacts, PrioFacts DEF In, BaseInv
<1>5. \A r \in Prios : level'[r] # r => cur'[r] # NoTask /\ new_priority'[cur'[r]] # 0
    BY <1>2, <1>3 DEF PrioInv
<1> QED BY <1>2, <1>4, <1>5 DEF PrioInv, GetCurPriority

LEMMA PrioFinish ==
    ASSUME BaseInv, PrioInv, NEW p \in Prios, Finish(p) PROVE PrioInv'
<1>0. TypeOK /\ CurInv
    BY DEF BaseInv
<1>1. PICK t \in Tasks : t = cur[p] /\ cur_priority[t] = p
    BY BaseFinish
<1>2. /\ cur_priority' = [cur_priority EXCEPT ![t] = GetCurPriority(t)]
      /\ new_priority' = [new_priority EXCEPT ![t] = 0]
      /\ level' = IF new_priority[t] # 0 THEN [level EXCEPT ![p] = p] ELSE level
      /\ cur' = [cur EXCEPT ![p] = NoTask] /\ eda_owner' = eda_owner
    BY <1>1 DEF Finish
<1>3. /\ cur_priority'[t] = GetCurPriority(t) /\ new_priority'[t] = 0
      /\ \A x \in Tasks : x # t => /\ cur_priority'[x] = cur_priority[x]
                                   /\ new_priority'[x] = new_priority[x]
      /\ cur'[p] = NoTask /\ \A r \in Prios : r # p => cur'[r] = cur[r] /\ level'[r] = level[r]
      /\ level'[p] = p
  <2>1. new_priority[t] = 0 => level[p] = p
    BY <1>1 DEF PrioInv
  <2> QED BY <1>0, <1>2, <2>1 DEF TypeOK
<1>4. \A x \in Tasks : GetCurPriority(x)' = GetCurPriority(x)
    BY <1>3 DEF GetCurPriority
<1>5. \A r \in Prios : level'[r] >= r
    BY <1>3, PrioFacts DEF PrioInv
<1>6. ASSUME NEW r \in Prios, level'[r] # r
      PROVE  cur'[r] # NoTask /\ new_priority'[cur'[r]] # 0
  <2>1. r # p /\ cur'[r] = cur[r] /\ level[r] # r
    BY <1>3, <1>6
  <2>2. cur[r] # NoTask /\ new_priority[cur[r]] # 0 /\ cur[r] \in Tasks
    BY <1>0, <2>1, QueueFacts DEF PrioInv
  <2>3. cur[r] # t
    BY <1>0, <1>1, <2>1, DispatchedIn
  <2> QED BY <1>3, <2>1, <2>2, <2>3
<1>7. ASSUME NEW x \in Tasks, new_priority'[x] # 0
      PROVE  In(x)' /\ new_priority'[x] # cur_priority'[x] /\ new_priority'[x] >= Prio[x]
  <2>1. x # t /\ In(x)
    BY <1>3, <1>7 DEF PrioInv
  <2>2. In(x)'
    BY <1>1, <2>1, BaseFinish
  <2> QED BY <1>3, <1>7, <2>1, <2>2 DEF PrioInv
<1>8. \A x \in Tasks : cur_priority'[x] >= Prio[x]
    BY <1>3 DEF PrioInv, GetCurPriority
<1>9. \A x \in Tasks : x # eda_owner' => GetCurPriority(x)' = Prio[x]
    BY <1>2, <1>4 DEF PrioInv
<1> QED BY <1>5, <1>6, <1>7, <1>8, <1>9 DEF PrioInv

\* A loan to the owner o.
LEMMA PrioLend ==
    ASSUME BaseInv, PrioInv, NEW o \in Tasks, o = eda_owner, NEW q \in Prios,
           q > cur_priority[o], SetPriority(o, q), UNCHANGED <<cur, evts, eda_owner>>
    PROVE  /\ PrioInv' /\ RdyInv' /\ GetCurPriority(o)' = q
           /\ In(o) => /\ UNCHANGED cur_priority
                       /\ level' = [level EXCEPT ![cur_priority[o]] = q]
           /\ ~In(o) => /\ cur_priority' = [cur_priority EXCEPT ![o] = q]
                        /\ UNCHANGED <<new_priority, level>>
           /\ \A x \in Tasks : x # o => /\ cur_priority'[x] = cur_priority[x]
                                        /\ new_priority'[x] = new_priority[x]
           /\ \A x \in Tasks : In(x)' <=> In(x)
           /\ rdy_list' \in [Prios -> Seq(Tasks)] /\ cur_priority' \in [Tasks -> Prios]
           /\ new_priority' \in [Tasks -> 0 .. Levels] /\ level' \in [Prios -> Prios]
<1>0. TypeOK /\ CurInv /\ RdyInv
    BY DEF BaseInv
<1>1. PICK p \in Prios : p = cur_priority[o]
    BY <1>0, TaskFacts
<1>2. /\ p \in Int /\ q \in Int /\ q > p /\ q # 0 /\ q \in 0 .. Levels /\ p # q
      /\ Prio[o] \in Int /\ q >= Prio[o]
  <2>1. p \in Int /\ q \in Int /\ q # 0 /\ q \in 0 .. Levels /\ Prio[o] \in Int
    BY <1>0, TaskFacts, PrioFacts
  <2> QED BY <1>1, <2>1 DEF PrioInv
<1>3. CASE In(o)
  <2>1. /\ UNCHANGED <<rdy_list, cur_priority>>
        /\ new_priority' = [new_priority EXCEPT ![o] = q]
        /\ level' = [level EXCEPT ![p] = q]
    BY <1>1, <1>2, <1>3, SetInFacts
  <2>2. /\ new_priority'[o] = q /\ \A x \in Tasks : x # o => new_priority'[x] = new_priority[x]
        /\ level'[p] = q /\ \A r \in Prios : r # p => level'[r] = level[r]
        /\ new_priority' \in [Tasks -> 0 .. Levels] /\ level' \in [Prios -> Prios]
    BY <1>0, <1>2, <2>1 DEF TypeOK
  <2>3. RdyInv' /\ rdy_list' \in [Prios -> Seq(Tasks)] /\ cur_priority' \in [Tasks -> Prios]
    BY <1>0, <2>1, RdyFrame DEF TypeOK
  <2>4. \A x \in Tasks : In(x)' <=> In(x)
    BY <2>1 DEF In
  <2>5. GetCurPriority(o)' = q /\ \A x \in Tasks : x # o => GetCurPriority(x)' = GetCurPriority(x)
    BY <1>2, <2>1, <2>2 DEF GetCurPriority
  <2>6. \A r \in Prios : level'[r] >= r
    BY <1>2, <2>2 DEF PrioInv
  <2>7. ASSUME NEW r \in Prios, level'[r] # r
        PROVE  cur'[r] # NoTask /\ new_priority'[cur'[r]] # 0
    <3>1. CASE r = p
        BY <1>1, <1>2, <1>3, <2>2, <3>1, PrioFacts DEF In
    <3>2. CASE r # p
        <4>1. cur[r] \in Tasks /\ new_priority[cur[r]] # 0
            BY <1>0, <2>2, <2>7, <3>2, QueueFacts DEF PrioInv
        <4> QED BY <1>2, <2>2, <4>1, PrioFacts
    <3> QED BY <3>1, <3>2
  <2>8. ASSUME NEW x \in Tasks, new_priority'[x] # 0
        PROVE  In(x)' /\ new_priority'[x] # cur_priority'[x] /\ new_priority'[x] >= Prio[x]
    <3>1. CASE x = o
        BY <1>1, <1>2, <1>3, <2>1, <2>2, <2>4, <3>1
    <3>2. CASE x # o
        BY <2>1, <2>2, <2>4, <2>8, <3>2 DEF PrioInv
    <3> QED BY <3>1, <3>2
  <2>9. PrioInv'
    BY <2>1, <2>5, <2>6, <2>7, <2>8 DEF PrioInv
  <2> QED BY <1>1, <1>3, <2>1, <2>2, <2>3, <2>4, <2>5, <2>9
<1>4. CASE ~In(o)
  <2>1. new_priority[o] = 0
    BY <1>4 DEF PrioInv
  <2>2. /\ UNCHANGED <<new_priority, level>>
        /\ cur_priority' = [cur_priority EXCEPT ![o] = q]
        /\ rdy_list' \in [Prios -> Seq(Tasks)] /\ RdyInv'
        /\ \A x \in Tasks : In(x)' <=> In(x)
    BY <1>4, <2>1, SetOutFacts
  <2>3. /\ cur_priority'[o] = q /\ \A x \in Tasks : x # o => cur_priority'[x] = cur_priority[x]
        /\ cur_priority' \in [Tasks -> Prios] /\ new_priority' \in [Tasks -> 0 .. Levels]
        /\ level' \in [Prios -> Prios]
    BY <1>0, <2>2 DEF TypeOK
  <2>4. GetCurPriority(o)' = q /\ \A x \in Tasks : x # o => GetCurPriority(x)' = GetCurPriority(x)
    BY <2>1, <2>2, <2>3 DEF GetCurPriority
  <2>5. \A x \in Tasks : new_priority'[x] # 0 =>
           In(x)' /\ new_priority'[x] # cur_priority'[x] /\ new_priority'[x] >= Prio[x]
    BY <2>1, <2>2, <2>3 DEF PrioInv
  <2>6. PrioInv'
    BY <1>2, <2>2, <2>3, <2>4, <2>5 DEF PrioInv
  <2> QED BY <1>4, <2>2, <2>3, <2>4, <2>6
<1> QED BY <1>3, <1>4

\* The owner o, which is being dispatched, gives back what it was lent and is
\* not the owner any more.
LEMMA PrioGiveBack ==
    ASSUME BaseInv, PrioInv, NEW o \in Tasks, In(o), GiveBack(o),
           \A t \in Tasks : t # eda_owner' /\ t # o => t # eda_owner,
           UNCHANGED cur
    PROVE  /\ PrioInv' /\ UNCHANGED <<rdy_list, cur_priority>>
           /\ \A x \in Tasks : x # o => new_priority'[x] = new_priority[x]
           /\ new_priority' \in [Tasks -> 0 .. Levels] /\ level' \in [Prios -> Prios]
           /\ \A r \in Prios : level'[r] <= level[r]
           /\ \A r \in Prios : r # cur_priority[o] => level'[r] = level[r]
<1>0. TypeOK /\ CurInv
    BY DEF BaseInv
<1>1. PICK p \in Prios : p = cur_priority[o]
    BY <1>0, TaskFacts
<1>2. /\ p \in Int /\ Prio[o] \in Int /\ Prio[o] # 0 /\ Prio[o] \in 0 .. Levels
      /\ Prio[o] \in Prios /\ p >= Prio[o] /\ \A r \in Prios : level[r] \in Int /\ level[r] >= r
    BY <1>0, <1>1, TaskFacts, PrioFacts, QueueFacts DEF PrioInv
<1>3. CASE p # Prio[o]
  <2>1. /\ UNCHANGED <<rdy_list, cur_priority, level>>
        /\ new_priority' = [new_priority EXCEPT ![o] = Prio[o]]
    <3>1. SetPriority(o, Prio[o])
        BY <1>1, <1>3 DEF GiveBack
    <3> QED BY <1>1, <1>2, <1>3, <3>1, SetInFacts
  <2>2. /\ new_priority'[o] = Prio[o]
        /\ \A x \in Tasks : x # o => new_priority'[x] = new_priority[x]
        /\ new_priority' \in [Tasks -> 0 .. Levels] /\ level' \in [Prios -> Prios]
    BY <1>0, <1>2, <2>1 DEF TypeOK
  <2>3. \A x \in Tasks : In(x)' <=> In(x)
    BY <2>1 DEF In
  <2>4. \A r \in Prios : level'[r] # r => cur'[r] # NoTask /\ new_priority'[cur'[r]] # 0
    <3> SUFFICES ASSUME NEW r \in Prios, level[r] # r
                 PROVE  cur[r] # NoTask /\ new_priority'[cur[r]] # 0
        BY <2>1
    <3>1. cur[r] \in Tasks /\ new_priority[cur[r]] # 0 /\ cur[r] # NoTask
        BY <1>0, QueueFacts DEF PrioInv
    <3> QED BY <1>2, <2>2, <3>1
  <2>5. ASSUME NEW x \in Tasks, new_priority'[x] # 0
        PROVE  In(x)' /\ new_priority'[x] # cur_priority'[x] /\ new_priority'[x] >= Prio[x]
    <3>1. CASE x = o
        BY <1>1, <1>2, <1>3, <2>1, <2>2, <2>3, <3>1
    <3>2. CASE x # o
        BY <2>1, <2>2, <2>3, <2>5, <3>2 DEF PrioInv
    <3> QED BY <3>1, <3>2
  <2>6. \A x \in Tasks : x # eda_owner' => GetCurPriority(x)' = Prio[x]
    BY <1>2, <2>1, <2>2 DEF PrioInv, GetCurPriority
  <2>7. PrioInv'
    BY <2>1, <2>4, <2>5, <2>6 DEF PrioInv
  <2>8. \A r \in Prios : level'[r] <= level[r] /\ level'[r] = level[r]
    BY <1>2, <2>1
  <2> QED BY <2>1, <2>2, <2>7, <2>8
<1>4. CASE p = Prio[o]
  <2>1. /\ UNCHANGED <<rdy_list, cur_priority>>
        /\ new_priority' = [new_priority EXCEPT ![o] = 0]
        /\ level' = IF new_priority[o] # 0 THEN [level EXCEPT ![p] = p] ELSE level
    BY <1>1, <1>4 DEF GiveBack
  <2>2. /\ new_priority'[o] = 0
        /\ \A x \in Tasks : x # o => new_priority'[x] = new_priority[x]
        /\ new_priority' \in [Tasks -> 0 .. Levels] /\ level' \in [Prios -> Prios]
        /\ \A r \in Prios : r # p => level'[r] = level[r]
    BY <1>0, <2>1, PrioFacts DEF TypeOK
  <2>3. \A x \in Tasks : In(x)' <=> In(x)
    BY <2>1 DEF In
  <2>4. level'[p] = p
    <3>1. new_priority[o] = 0 => level[p] = p
        BY <1>1 DEF PrioInv, In
    <3> QED BY <1>0, <2>1, <3>1 DEF TypeOK
  <2>5. \A r \in Prios : level'[r] # r => cur'[r] # NoTask /\ new_priority'[cur'[r]] # 0
    <3> SUFFICES ASSUME NEW r \in Prios, level'[r] # r
                 PROVE  cur[r] # NoTask /\ new_priority'[cur[r]] # 0
        OBVIOUS
    <3>1. r # p /\ level[r] # r
        BY <2>2, <2>4
    <3>2. cur[r] \in Tasks /\ new_priority[cur[r]] # 0 /\ cur[r] # NoTask
        BY <1>0, <3>1, QueueFacts DEF PrioInv
    <3>3. cur[r] # o
        BY <1>0, <1>1, <3>1, DispatchedIn
    <3> QED BY <2>2, <3>2, <3>3
  <2>6. ASSUME NEW x \in Tasks, new_priority'[x] # 0
        PROVE  In(x)' /\ new_priority'[x] # cur_priority'[x] /\ new_priority'[x] >= Prio[x]
    BY <2>1, <2>2, <2>3, <2>6 DEF PrioInv
  <2>7. \A x \in Tasks : x # eda_owner' => GetCurPriority(x)' = Prio[x]
    BY <1>1, <1>4, <2>1, <2>2 DEF PrioInv, GetCurPriority
  <2>8. \A r \in Prios : level'[r] >= r /\ level'[r] <= level[r]
    BY <1>2, <2>2, <2>4, PrioFacts
  <2>9. PrioInv'
    BY <2>1, <2>5, <2>6, <2>7, <2>8 DEF PrioInv
  <2> QED BY <1>1, <2>1, <2>2, <2>8, <2>9
<1> QED BY <1>3, <1>4

-----------------------------------------------------------------------------
(* Every step keeps the types, the ready lists and the priorities *)

BasePrio == BaseInv /\ PrioInv

LEMMA BaseEnter ==
    ASSUME BasePrio, NEW p \in Prios, Enter(p) PROVE BasePrio'
<1>0. TypeOK /\ CurInv /\ RdyInv /\ PrioInv
    BY DEF BaseInv, BasePrio
<1>1. PICK t \in Tasks : t = cur[p]
    BY <1>0, AtWorkFacts DEF Enter
<1>2. /\ eda_owner = NoTask /\ eda_owner' = t /\ holds' = holds \cup {t}
      /\ indebted' = indebted \ {t}
      /\ UNCHANGED <<pending, cur_priority, new_priority, level, rdy_list, cur, stack,
                     evt, evts, wait, timer, is_sync_got, op, undercut>>
    BY <1>1 DEF Enter, prioVars, pollVars, waitVars
<1>3. TypeOK'
    BY <1>0, <1>2 DEF TypeOK
<1>4. CurInv' /\ RdyInv'
    BY <1>0, <1>2, RdyFrame DEF CurInv
<1>5. PrioInv'
    BY <1>0, <1>2, PrioFacts DEF PrioInv, In, GetCurPriority
<1> QED BY <1>3, <1>4, <1>5 DEF BaseInv, BasePrio

\* What a step of EnterPend is, the loan aside.
LEMMA PendFacts ==
    ASSUME BasePrio, NEW p \in Prios, NEW timeout \in {"timed", "forever"},
           EnterPend(p, timeout), NEW t \in Tasks, t = cur[p], NEW o \in Tasks, o = eda_owner
    PROVE  /\ PrioInv' /\ RdyInv' /\ t # o /\ In(t) /\ cur_priority[t] = p
           /\ \A x \in Tasks : x # o => /\ cur_priority'[x] = cur_priority[x]
                                        /\ new_priority'[x] = new_priority[x]
           /\ \A x \in Tasks : In(x)' <=> In(x)
           /\ rdy_list' \in [Prios -> Seq(Tasks)] /\ cur_priority' \in [Tasks -> Prios]
           /\ new_priority' \in [Tasks -> 0 .. Levels] /\ level' \in [Prios -> Prios]
           /\ In(o) => cur_priority' = cur_priority
<1>0. TypeOK /\ CurInv /\ RdyInv /\ PrioInv /\ BaseInv
    BY DEF BaseInv, BasePrio
<1>1. In(t) /\ cur_priority[t] = p /\ t # o
    BY <1>0, AtWorkFacts DEF EnterPend
<1>2. UNCHANGED <<eda_owner, cur, stack, evt, evts, is_sync_got, op, holds>>
    BY DEF EnterPend, pollVars
<1>3. CASE cur_priority[t] > cur_priority[o]
  <2>1. SetPriority(o, p)
    BY <1>1, <1>3 DEF EnterPend
  <2> QED BY <1>0, <1>1, <1>2, <1>3, <2>1, PrioLend
<1>4. CASE ~(cur_priority[t] > cur_priority[o])
  <2>1. UNCHANGED <<rdy_list, cur_priority, new_priority, level>>
    BY <1>4 DEF EnterPend, prioVars
  <2>2. PrioInv' /\ RdyInv'
    BY <1>0, <1>2, <2>1, PrioFrame, RdyFrame
  <2> QED BY <1>0, <1>1, <1>2, <2>1, <2>2 DEF TypeOK, In
<1> QED BY <1>3, <1>4

LEMMA BaseEnterPend ==
    ASSUME BasePrio, NEW p \in Prios, NEW timeout \in {"timed", "forever"},
           EnterPend(p, timeout)
    PROVE  BasePrio'
<1>0. TypeOK /\ CurInv /\ RdyInv /\ PrioInv
    BY DEF BaseInv, BasePrio
<1>1. PICK t \in Tasks : t = cur[p]
    BY <1>0, AtWorkFacts DEF EnterPend
<1>2. PICK o \in Tasks : o = eda_owner
    BY <1>0 DEF EnterPend, TypeOK
<1>3. /\ UNCHANGED <<eda_owner, cur, stack, evt, evts, is_sync_got, op, holds>>
      /\ wait' = [wait EXCEPT ![t] = timeout]
      /\ timer' = [timer EXCEPT ![t] = IF timeout = "timed" THEN "due" ELSE "no"]
      /\ InsertByPriority(t)
    BY <1>1 DEF EnterPend, pollVars
<1>4. indebted' \subseteq Tasks /\ undercut' \subseteq Tasks
  <2>1. indebted \subseteq Tasks /\ undercut \subseteq Tasks /\ ToSet(pending) \subseteq Tasks
    BY <1>0 DEF TypeOK, ToSet
  <2>2. indebted' \subseteq Tasks
    BY <1>1, <2>1 DEF EnterPend
  <2>3. undercut' \subseteq Tasks
    BY <1>1, <2>1 DEF EnterPend
  <2> QED BY <2>2, <2>3
<1>5. pending' \in Seq(Tasks)
  <2>1. PICK n \in 1 .. Len(pending) + 1 : pending' = InsertAt(pending, n, t)
    BY <1>3 DEF InsertByPriority
  <2> QED BY <1>0, <2>1, InsertAtFacts DEF TypeOK
<1>6. /\ wait' \in [Tasks -> {"no", "timed", "forever"}]
      /\ timer' \in [Tasks -> {"no", "due", "set"}]
    BY <1>0, <1>3 DEF TypeOK
<1>7. /\ PrioInv' /\ RdyInv'
      /\ \A x \in Tasks : x # o => cur_priority'[x] = cur_priority[x]
      /\ \A x \in Tasks : In(x)' <=> In(x)
      /\ rdy_list' \in [Prios -> Seq(Tasks)] /\ cur_priority' \in [Tasks -> Prios]
      /\ new_priority' \in [Tasks -> 0 .. Levels] /\ level' \in [Prios -> Prios]
      /\ In(o) => cur_priority' = cur_priority
    BY <1>1, <1>2, PendFacts
<1>8. TypeOK'
    BY <1>0, <1>3, <1>4, <1>5, <1>6, <1>7 DEF TypeOK
<1>9. CurInv'
  <2>1. ASSUME NEW r \in Prios, cur[r] # NoTask
        PROVE  cur_priority'[cur[r]] = r /\ r \in ToSet(stack)
    <3>1. cur[r] \in Tasks /\ cur_priority[cur[r]] = r /\ In(cur[r]) /\ r \in ToSet(stack)
        BY <1>0, <2>1, QueueFacts DEF CurInv, In
    <3> QED BY <1>7, <3>1
  <2> QED BY <1>0, <1>3, <2>1 DEF CurInv
<1> QED BY <1>7, <1>8, <1>9 DEF BaseInv, BasePrio

LEMMA BaseLeave ==
    ASSUME BasePrio, NEW p \in Prios, Leave(p) PROVE BasePrio'
<1>0. TypeOK /\ CurInv /\ RdyInv /\ PrioInv /\ BaseInv
    BY DEF BaseInv, BasePrio
<1>1. PICK t \in Tasks : t = cur[p] /\ In(t) /\ t = eda_owner
    BY <1>0, AtWorkFacts DEF Leave
<1>2. /\ UNCHANGED <<cur, stack, evt, evts, wait, timer, undercut, indebted>>
      /\ holds' = holds \ {t} /\ GiveBack(t)
    BY <1>1 DEF Leave, pollVars
<1>3. /\ PrioInv' /\ UNCHANGED <<rdy_list, cur_priority>>
      /\ new_priority' \in [Tasks -> 0 .. Levels] /\ level' \in [Prios -> Prios]
    BY <1>0, <1>1, <1>2, PrioGiveBack
<1>4. /\ eda_owner' \in Tasks \cup {NoTask} /\ pending' \in Seq(Tasks)
      /\ is_sync_got' \in [Tasks -> BOOLEAN]
      /\ op' \in [Prios -> [kind : Kinds, to : Tasks \cup {NoTask}]]
      /\ \A r \in Prios : op'[r].kind \in Notices => op'[r].to \in Tasks
  <2>1. CASE pending = <<>>
    BY <1>0, <2>1 DEF Leave, TypeOK, CurInv
  <2>2. CASE pending # <<>>
    <3>1. PICK h \in Tasks : h = Head(pending) /\ Tail(pending) \in Seq(Tasks)
        BY <1>0, <2>2, TailFacts DEF TypeOK
    <3>2. /\ eda_owner' = h /\ pending' = Tail(pending)
          /\ is_sync_got' = [is_sync_got EXCEPT ![h] = TRUE]
          /\ op' = [op EXCEPT ![p] = [kind |-> "SYNC", to |-> h]]
        BY <2>2, <3>1 DEF Leave
    <3>3. is_sync_got' \in [Tasks -> BOOLEAN]
        BY <1>0, <3>2 DEF TypeOK
    <3>4. op' \in [Prios -> [kind : Kinds, to : Tasks \cup {NoTask}]]
        BY <1>0, <3>2 DEF TypeOK, Kinds
    <3>5. \A r \in Prios : op'[r].kind \in Notices => op'[r].to \in Tasks
        BY <1>0, <3>2 DEF TypeOK, CurInv
    <3> QED BY <3>1, <3>2, <3>3, <3>4, <3>5
  <2> QED BY <2>1, <2>2
<1>5. TypeOK'
    BY <1>0, <1>2, <1>3, <1>4 DEF TypeOK
<1>6. CurInv' /\ RdyInv'
  <2>1. RdyInv'
    BY <1>0, <1>2, <1>3, RdyFrame
  <2> QED BY <1>0, <1>2, <1>3, <1>4, <2>1 DEF CurInv
<1> QED BY <1>3, <1>5, <1>6 DEF BaseInv, BasePrio

LEMMA BaseCancelNext ==
    ASSUME BasePrio, NEW p \in Prios, CancelNext(p) PROVE BasePrio'
<1>0. TypeOK /\ CurInv /\ RdyInv /\ PrioInv
    BY DEF BaseInv, BasePrio
<1>1. UNCHANGED <<eda_owner, cur_priority, new_priority, level, rdy_list, cur, stack, evt,
                  evts, wait, timer, holds, undercut, indebted>>
    BY DEF CancelNext, prioVars, pollVars, histVars
<1>2. /\ pending' \in Seq(Tasks) /\ is_sync_got' \in [Tasks -> BOOLEAN]
      /\ op' \in [Prios -> [kind : Kinds, to : Tasks \cup {NoTask}]]
      /\ \A r \in Prios : op'[r].kind \in Notices => op'[r].to \in Tasks
  <2>1. CASE pending = <<>>
    <3>1. op' = [op EXCEPT ![p] = NoOp] /\ UNCHANGED <<pending, is_sync_got>>
        BY <2>1 DEF CancelNext
    <3> QED BY <1>0, <3>1 DEF TypeOK, CurInv, NoOp, Kinds, Notices
  <2>2. CASE pending # <<>>
    <3>1. PICK h \in Tasks : h = Head(pending) /\ Tail(pending) \in Seq(Tasks)
        BY <1>0, <2>2, TailFacts DEF TypeOK
    <3>2. /\ pending' = Tail(pending) /\ is_sync_got' = [is_sync_got EXCEPT ![h] = TRUE]
          /\ op' = [op EXCEPT ![p] = [kind |-> "CANCEL", to |-> h]]
        BY <2>2, <3>1 DEF CancelNext
    <3>3. is_sync_got' \in [Tasks -> BOOLEAN]
        BY <1>0, <3>2 DEF TypeOK
    <3>4. op' \in [Prios -> [kind : Kinds, to : Tasks \cup {NoTask}]]
        BY <1>0, <3>2 DEF TypeOK, Kinds
    <3>5. \A r \in Prios : op'[r].kind \in Notices => op'[r].to \in Tasks
        BY <1>0, <3>2 DEF TypeOK, CurInv
    <3> QED BY <3>1, <3>2, <3>3, <3>4, <3>5
  <2> QED BY <2>1, <2>2
<1>3. TypeOK'
    BY <1>0, <1>1, <1>2 DEF TypeOK
<1>4. CurInv' /\ RdyInv' /\ PrioInv'
    BY <1>0, <1>1, <1>2, RdyFrame, PrioFrame DEF CurInv
<1> QED BY <1>3, <1>4 DEF BaseInv, BasePrio

\* The steps that post an event.
LEMMA BasePost ==
    ASSUME BasePrio, NEW t \in Tasks, NEW e \in Events, Post(t, e),
           UNCHANGED <<eda_owner, pending, prioVars, pollVars, wait, is_sync_got, histVars>>,
           timer' \in [Tasks -> {"no", "due", "set"}],
           op' \in [Prios -> [kind : Kinds, to : Tasks \cup {NoTask}]],
           \A r \in Prios : op'[r].kind \in Notices => op'[r].to \in Tasks
    PROVE  BasePrio'
<1>0. TypeOK /\ CurInv /\ RdyInv /\ PrioInv /\ BaseInv
    BY DEF BaseInv, BasePrio
<1>1. UNCHANGED <<eda_owner, pending, cur_priority, new_priority, level, cur, stack, evt,
                  wait, is_sync_got, holds, undercut, indebted>>
    BY DEF prioVars, pollVars, histVars
<1>2. /\ evts' \in [Tasks -> Seq(Events)] /\ rdy_list' \in [Prios -> Seq(Tasks)] /\ RdyInv'
    BY <1>0, <1>1, PostFacts
<1>3. TypeOK'
    BY <1>0, <1>1, <1>2 DEF TypeOK
<1>4. CurInv' /\ PrioInv'
    BY <1>0, <1>1, PrioFrame DEF CurInv
<1> QED BY <1>2, <1>3, <1>4 DEF BaseInv, BasePrio

LEMMA BaseWake ==
    ASSUME BasePrio, NEW t \in Tasks, Wake(t) PROVE BasePrio'
<1>1. /\ UNCHANGED <<eda_owner, pending, prioVars, pollVars, wait, is_sync_got, histVars>>
      /\ UNCHANGED <<timer, op>> /\ Post(t, "USER") /\ "USER" \in Events
    BY DEF Wake, waitVars, Events
<1>2. TypeOK /\ CurInv
    BY DEF BasePrio, BaseInv
<1>3. /\ timer' \in [Tasks -> {"no", "due", "set"}]
      /\ op' \in [Prios -> [kind : Kinds, to : Tasks \cup {NoTask}]]
      /\ \A r \in Prios : op'[r].kind \in Notices => op'[r].to \in Tasks
    BY <1>1, <1>2 DEF TypeOK, CurInv
<1> QED BY <1>1, <1>3, BasePost

LEMMA BaseExpire ==
    ASSUME BasePrio, NEW t \in Tasks, Expire(t) PROVE BasePrio'
<1>0. TypeOK /\ CurInv /\ RdyInv /\ PrioInv
    BY DEF BaseInv, BasePrio
<1>1. /\ UNCHANGED <<eda_owner, pending, prioVars, pollVars, wait, is_sync_got, histVars>>
      /\ UNCHANGED op /\ timer' = [timer EXCEPT ![t] = "no"] /\ "TIMER" \in Events
    BY DEF Expire, Events
<1>2. timer' \in [Tasks -> {"no", "due", "set"}]
    BY <1>0, <1>1 DEF TypeOK
<1>3. /\ op' \in [Prios -> [kind : Kinds, to : Tasks \cup {NoTask}]]
      /\ \A r \in Prios : op'[r].kind \in Notices => op'[r].to \in Tasks
    BY <1>0, <1>1 DEF TypeOK, CurInv
<1>4. CASE IsReady(t)
  <2>1. UNCHANGED <<eda_owner, pending, cur_priority, new_priority, level, cur, stack, evt,
                    evts, rdy_list, wait, is_sync_got, op, holds, undercut, indebted>>
    BY <1>1, <1>4 DEF Expire, prioVars, pollVars, histVars
  <2>2. TypeOK'
    BY <1>0, <1>2, <2>1 DEF TypeOK
  <2>3. CurInv' /\ RdyInv' /\ PrioInv'
    BY <1>0, <2>1, RdyFrame, PrioFrame DEF CurInv
  <2> QED BY <2>2, <2>3 DEF BaseInv, BasePrio
<1>5. CASE ~IsReady(t)
  <2>1. Post(t, "TIMER")
    BY <1>5 DEF Expire
  <2> QED BY <1>1, <1>2, <1>3, <2>1, BasePost
<1> QED BY <1>4, <1>5

LEMMA BasePostEvent ==
    ASSUME BasePrio, NEW p \in Prios, PostEvent(p) PROVE BasePrio'
<1>0. TypeOK /\ CurInv
    BY DEF BaseInv, BasePrio
<1>1. op[p].kind \in Notices /\ op[p].kind \in Events
    BY <1>0, QueueFacts DEF PostEvent, Events, Kinds, Notices
<1>2. PICK t \in Tasks, e \in Events : t = op[p].to /\ e = op[p].kind
    BY <1>0, <1>1 DEF CurInv
<1>3. /\ UNCHANGED <<eda_owner, pending, prioVars, pollVars, wait, is_sync_got, histVars>>
      /\ UNCHANGED timer /\ Post(t, e)
      /\ op' = [op EXCEPT ![p] = IF e = "SYNC" THEN NoOp
                                 ELSE [kind |-> "cancelloop", to |-> NoTask]]
    BY <1>2 DEF PostEvent, waitVars
<1>4. timer' \in [Tasks -> {"no", "due", "set"}]
    BY <1>0, <1>3 DEF TypeOK
<1>5. op' \in [Prios -> [kind : Kinds, to : Tasks \cup {NoTask}]]
    BY <1>0, <1>3 DEF TypeOK, NoOp, Kinds
<1>6. op'[p].kind \notin Notices /\ \A r \in Prios : r # p => op'[r] = op[r]
    BY <1>0, <1>3 DEF TypeOK, NoOp, Notices
<1>7. \A r \in Prios : op'[r].kind \in Notices => op'[r].to \in Tasks
    BY <1>0, <1>6 DEF CurInv
<1> QED BY <1>3, <1>4, <1>5, <1>7, BasePost

LEMMA BaseSwiLeave ==
    ASSUME BasePrio, NEW p \in Prios, SwiLeave(p) PROVE BasePrio'
<1>0. TypeOK /\ CurInv /\ RdyInv /\ PrioInv
    BY DEF BaseInv, BasePrio
<1>1. /\ UNCHANGED <<eda_owner, pending, cur_priority, new_priority, level, rdy_list, cur,
                     evts, evt, wait, timer, is_sync_got, op, holds, undercut, indebted>>
      /\ stack' = Tail(stack) /\ cur[p] = NoTask
    BY DEF SwiLeave, prioVars, waitVars, histVars
<1>2. stack # <<>> /\ Head(stack) = p /\ Tail(stack) \in Seq(Prios) /\ stack \in Seq(Prios)
    BY <1>0, RunningFacts DEF SwiLeave, TypeOK
<1>3. ToSet(stack) = ToSet(stack') \cup {p}
    BY <1>1, <1>2, TailFacts
<1>4. TypeOK'
    BY <1>0, <1>1, <1>2 DEF TypeOK
<1>5. CurInv' /\ RdyInv' /\ PrioInv'
    BY <1>0, <1>1, <1>3, RdyFrame, PrioFrame DEF CurInv
<1> QED BY <1>4, <1>5 DEF BaseInv, BasePrio

\* The steps of a handler that looks at its event.
LEMMA BaseLook ==
    ASSUME BasePrio, NEW p \in Prios, Handle(p) \/ ReasonTimer(p) \/ ReasonGet(p)
    PROVE  BasePrio'
<1>0. TypeOK /\ CurInv /\ RdyInv /\ PrioInv
    BY DEF BaseInv, BasePrio
<1>1. /\ UNCHANGED <<eda_owner, cur_priority, new_priority, level, rdy_list, cur, stack,
                     evts, op, undercut, indebted>>
      /\ evt' = [evt EXCEPT ![p] = "none"] /\ evt[p] # "none"
    BY DEF Handle, ReasonTimer, ReasonGet, prioVars, histVars
<1>2. PICK t \in Tasks : t = cur[p]
    BY <1>0, <1>1, QueueFacts DEF CurInv
<1>3. /\ pending' \in Seq(Tasks) /\ wait' \in [Tasks -> {"no", "timed", "forever"}]
      /\ timer' \in [Tasks -> {"no", "due", "set"}] /\ is_sync_got' \in [Tasks -> BOOLEAN]
      /\ holds' \subseteq Tasks
  <2>1. CASE Handle(p)
    BY <1>0, <2>1 DEF Handle, TypeOK, waitVars, histVars
  <2>2. CASE ReasonTimer(p) /\ is_sync_got[t]
    BY <1>0, <1>2, <2>2 DEF ReasonTimer, TypeOK, histVars
  <2>3. CASE ReasonTimer(p) /\ ~is_sync_got[t]
    <3>1. PICK i \in DOMAIN pending : pending' = RemoveAt(pending, i)
        BY <1>2, <2>3 DEF ReasonTimer
    <3>2. pending' \in Seq(Tasks)
        BY <1>0, <3>1, RemoveAtPlaces DEF TypeOK
    <3> QED BY <1>0, <1>2, <2>3, <3>2 DEF ReasonTimer, TypeOK, histVars
  <2>4. CASE ReasonGet(p)
    <3>1. /\ timer' = [timer EXCEPT ![t] = "no"] /\ UNCHANGED pending
          /\ is_sync_got' = [is_sync_got EXCEPT ![t] = FALSE]
          /\ wait' = [wait EXCEPT ![t] = "no"] /\ holds' \subseteq holds \cup {t}
        BY <1>2, <2>4 DEF ReasonGet
    <3> QED BY <1>0, <3>1 DEF TypeOK
  <2> QED BY <2>1, <2>2, <2>3, <2>4
<1>4. TypeOK'
    BY <1>0, <1>1, <1>3 DEF TypeOK
<1>5. \A r \in Prios : evt'[r] # "none" => evt[r] # "none"
    BY <1>0, <1>1 DEF TypeOK
<1>6. CurInv' /\ RdyInv' /\ PrioInv'
    BY <1>0, <1>1, <1>5, RdyFrame, PrioFrame DEF CurInv
<1> QED BY <1>4, <1>6 DEF BaseInv, BasePrio

\* Nothing happens.
LEMMA BaseStutter ==
    ASSUME BasePrio, UNCHANGED vars PROVE BasePrio'
<1>0. TypeOK /\ CurInv /\ RdyInv /\ PrioInv
    BY DEF BaseInv, BasePrio
<1>1. UNCHANGED <<eda_owner, pending, cur_priority, new_priority, rdy_list, cur, level,
                  stack, evts, evt, wait, timer, is_sync_got, op, holds, undercut,
                  indebted>>
    BY DEF vars
<1>2. TypeOK'
    BY <1>0, <1>1 DEF TypeOK
<1>3. CurInv' /\ RdyInv' /\ PrioInv'
    BY <1>0, <1>1, RdyFrame, PrioFrame DEF CurInv
<1> QED BY <1>2, <1>3 DEF BaseInv, BasePrio

LEMMA BaseNext ==
    ASSUME BasePrio, [Next]_vars PROVE BasePrio'
<1>1. ASSUME NEW p \in Prios, Use(p) PROVE BasePrio'
    BY <1>1, BaseEnter, BaseLeave, BaseCancelNext, BaseEnterPend DEF Use, Cancel
<1>2. ASSUME NEW p \in Prios, Step(p) PROVE BasePrio'
  <2>1. CASE Dispatch(p)
    BY <2>1, BaseDispatch, PrioDispatch DEF BasePrio
  <2>2. CASE Finish(p)
    BY <2>2, BaseFinish, PrioFinish DEF BasePrio
  <2>3. CASE CancelLoop(p)
    BY <2>3, BaseCancelNext DEF CancelLoop
  <2> QED BY <1>2, <2>1, <2>2, <2>3, BaseLook, BasePostEvent, BaseSwiLeave DEF Step
<1>3. ASSUME NEW t \in Tasks, Wake(t) \/ Expire(t) PROVE BasePrio'
    BY <1>3, BaseWake, BaseExpire
<1> QED BY <1>1, <1>2, <1>3, BaseStutter DEF Next

LEMMA BaseInit ==
    ASSUME Init PROVE BasePrio
<1>1. /\ eda_owner = NoTask /\ pending = <<>> /\ cur_priority = Prio
      /\ new_priority = [t \in Tasks |-> 0] /\ rdy_list = [p \in Prios |-> <<>>]
      /\ cur = [p \in Prios |-> NoTask] /\ level = [p \in Prios |-> p] /\ stack = <<>>
      /\ evts = [t \in Tasks |-> <<>>] /\ evt = [p \in Prios |-> "none"]
      /\ wait = [t \in Tasks |-> "no"] /\ timer = [t \in Tasks |-> "no"]
      /\ op = [p \in Prios |-> NoOp] /\ holds = {} /\ undercut = {} /\ indebted = {}
    BY DEF Init
<1>2. is_sync_got \in [Tasks -> BOOLEAN]
    BY Zenon DEF Init
<1>3. TypeOK
  <2>1. pending \in Seq(Tasks) /\ stack \in Seq(Prios) /\ evts \in [Tasks -> Seq(Events)]
        /\ rdy_list \in [Prios -> Seq(Tasks)]
    BY <1>1
  <2>2. op \in [Prios -> [kind : Kinds, to : Tasks \cup {NoTask}]]
    BY <1>1 DEF NoOp, Kinds
  <2> QED BY <1>1, <1>2, <2>1, <2>2, PrioFacts DEF TypeOK
<1>4. CurInv
    BY <1>1 DEF CurInv, NoOp, Notices
<1>5. RdyInv
    BY <1>1, PrioFacts DEF RdyInv, NoTwice, ToSet
<1>6. PrioInv
  <2>1. \A t \in Tasks : Prio[t] \in Int /\ cur_priority[t] = Prio[t] /\ new_priority[t] = 0
    BY <1>1, PrioFacts
  <2>2. \A p \in Prios : p \in Int /\ level[p] = p
    BY <1>1, PrioFacts
  <2> QED BY <2>1, <2>2 DEF PrioInv, GetCurPriority
<1> QED BY <1>3, <1>4, <1>5, <1>6 DEF BaseInv, BasePrio

\* LoanEnds.  What a waiter lent to the owner is taken back by the time the
\* handler of the former owner has returned, and the interrupt of its queue is
\* lowered again, in whichever order the loan, vsf_eda_mutex_leave and the end
\* of the dispatch come.
THEOREM LoansEnd == Spec => []LoanEnds
<1>1. ASSUME BasePrio PROVE LoanEnds
  <2>0. TypeOK /\ CurInv /\ PrioInv
    BY <1>1 DEF BasePrio, BaseInv
  <2>1. LoanIsReturned
    <3> SUFFICES ASSUME NEW t \in Tasks, t # eda_owner, ~Dispatched(t)
                 PROVE  cur_priority[t] = Prio[t] /\ new_priority[t] = 0
        BY DEF LoanIsReturned
    <3>1. ~In(t)
        BY <2>0, DispatchedIn
    <3> QED BY <2>0, <3>1 DEF PrioInv, GetCurPriority
  <2>2. RaiseEnds
    <3> SUFFICES ASSUME NEW p \in Prios, level[p] # p, cur[p] # eda_owner
                 PROVE  cur[p] # NoTask /\ Prio[cur[p]] # p
        BY DEF RaiseEnds
    <3>1. PICK t \in Tasks : t = cur[p] /\ new_priority[t] # 0 /\ cur_priority[t] = p
        BY <2>0, QueueFacts DEF PrioInv, CurInv
    <3>2. new_priority[t] = Prio[t] /\ new_priority[t] # p
        BY <2>0, <3>1 DEF PrioInv, GetCurPriority
    <3> QED BY <3>1, <3>2, PrioFacts
  <2> QED BY <2>1, <2>2 DEF LoanEnds
<1> QED BY <1>1, BaseInit, BaseNext, PTL DEF Spec

-----------------------------------------------------------------------------
(* The owner and the notices under way *)

\* Who waits is in the list or was taken out of it, not both; what comes after
\* the wait is the owner's alone.
PendInv ==
    /\ NoTwice(pending) /\ eda_owner \notin ToSet(pending)
    /\ eda_owner = NoTask => pending = <<>>
    /\ \A t \in ToSet(pending) : wait[t] # "no" /\ ~is_sync_got[t]
    /\ \A t \in Tasks : is_sync_got[t] => wait[t] # "no"
    /\ OwnerIsInside

\* Where a VSF_EVT_SYNC or VSF_EVT_SYNC_CANCEL for t may be: taken out of the
\* list but not posted, in its event list, or with its handler.
InOp(p, t) == op[p].kind \in Notices /\ op[p].to = t
InEvts(t, i) == evts[t][i] \in Notices
InHand(p, t) == cur[p] = t /\ evt[p] \in Notices

\* A task is told of the mutex if and only if it is the owner.
IsFor(e, t) == (e = "SYNC") <=> (t = eda_owner)

\* A notice is for a task that was taken out of the list, and is in one place.
NoticeOf(t) ==
    /\ \A p \in Prios : InOp(p, t) => is_sync_got[t] /\ IsFor(op[p].kind, t)
    /\ \A i \in DOMAIN evts[t] : InEvts(t, i) => is_sync_got[t] /\ IsFor(evts[t][i], t)
    /\ \A p \in Prios : InHand(p, t) => is_sync_got[t] /\ IsFor(evt[p], t)
    /\ \A p, q \in Prios : InOp(p, t) /\ InOp(q, t) => p = q
    /\ \A p \in Prios : \A i \in DOMAIN evts[t] : ~(InOp(p, t) /\ InEvts(t, i))
    /\ \A p, q \in Prios : ~(InOp(p, t) /\ InHand(q, t))
    /\ \A i, j \in DOMAIN evts[t] : InEvts(t, i) /\ InEvts(t, j) => i = j
    /\ \A p \in Prios : \A i \in DOMAIN evts[t] : ~(InHand(p, t) /\ InEvts(t, i))

NoticeInv == \A t \in Tasks : NoticeOf(t)

\* No notice for t is under way.
Quiet(t) ==
    /\ \A p \in Prios : ~InOp(p, t) /\ ~InHand(p, t)
    /\ \A i \in DOMAIN evts[t] : ~InEvts(t, i)

\* A task that was taken out of the list is told.
Told(t) == is_sync_got[t] => ~Quiet(t)
ToldInv == \A t \in Tasks : Told(t)

SoundInv == BasePrio /\ PendInv /\ NoticeInv /\ ToldInv

LEMMA QuietFacts ==
    ASSUME NEW t
    PROVE  /\ NoticeOf(t) /\ ~is_sync_got[t] => Quiet(t)
           /\ Quiet(t) => NoticeOf(t)
BY DEF NoticeOf, Quiet

LEMMA QuietNext ==
    ASSUME NEW t PROVE Quiet(t)' => NoticeOf(t)'
BY DEF NoticeOf, Quiet

\* Nothing that the notices for t are about has changed.
LEMMA NoticeFrame ==
    ASSUME NEW t, NoticeOf(t), is_sync_got'[t] = is_sync_got[t], evts'[t] = evts[t],
           (t = eda_owner') <=> (t = eda_owner),
           \A p \in Prios : InOp(p, t)' => InOp(p, t) /\ op'[p] = op[p],
           \A p \in Prios : InHand(p, t)' => InHand(p, t) /\ evt'[p] = evt[p]
    PROVE  NoticeOf(t)'
<1>1. \A e : IsFor(e, t)' <=> IsFor(e, t)
    BY DEF IsFor
<1>2. \A i : InEvts(t, i)' <=> InEvts(t, i)
    BY DEF InEvts
<1>3. \A p \in Prios : InOp(p, t)' => is_sync_got'[t] /\ IsFor(op[p].kind, t)'
    BY <1>1 DEF NoticeOf
<1>4. \A i \in DOMAIN evts'[t] : InEvts(t, i)' => is_sync_got'[t] /\ IsFor(evts[t][i], t)'
    BY <1>1, <1>2 DEF NoticeOf
<1>5. \A p \in Prios : InHand(p, t)' => is_sync_got'[t] /\ IsFor(evt[p], t)'
    BY <1>1 DEF NoticeOf
<1>6. /\ \A p, q \in Prios : InOp(p, t)' /\ InOp(q, t)' => p = q
      /\ \A p, q \in Prios : ~(InOp(p, t)' /\ InHand(q, t)')
    BY DEF NoticeOf
<1>7. /\ \A p \in Prios : \A i \in DOMAIN evts'[t] : ~(InOp(p, t)' /\ InEvts(t, i)')
      /\ \A i, j \in DOMAIN evts'[t] : InEvts(t, i)' /\ InEvts(t, j)' => i = j
      /\ \A p \in Prios : \A i \in DOMAIN evts'[t] : ~(InHand(p, t)' /\ InEvts(t, i)')
    BY <1>2 DEF NoticeOf
<1> QED BY <1>3, <1>4, <1>5, <1>6, <1>7 DEF NoticeOf

LEMMA AppendPlaces ==
    ASSUME NEW T, NEW s \in Seq(T), NEW e \in T
    PROVE  /\ DOMAIN Append(s, e) = DOMAIN s \cup {Len(s) + 1}
           /\ Append(s, e)[Len(s) + 1] = e /\ Len(s) + 1 \notin DOMAIN s
           /\ \A i \in DOMAIN s : Append(s, e)[i] = s[i]
OBVIOUS

LEMMA TailPlaces ==
    ASSUME NEW T, NEW s \in Seq(T), s # <<>>
    PROVE  /\ \A i \in DOMAIN Tail(s) : i + 1 \in DOMAIN s /\ Tail(s)[i] = s[i + 1] /\ i \in Nat
                                         /\ i + 1 # 1
           /\ 1 \in DOMAIN s /\ Head(s) = s[1]
OBVIOUS

\* An event that is no notice is posted.
LEMMA NoticeAppend ==
    ASSUME TypeOK, NEW t \in Tasks, NoticeOf(t), NEW e \in Events, e \notin Notices,
           evts'[t] = Append(evts[t], e), UNCHANGED <<eda_owner, is_sync_got, op, cur, evt>>
    PROVE  NoticeOf(t)'
<1>1. evts[t] \in Seq(Events)
    BY TaskFacts
<1>2. /\ DOMAIN evts'[t] = DOMAIN evts[t] \cup {Len(evts[t]) + 1}
      /\ evts'[t][Len(evts[t]) + 1] = e
      /\ \A i \in DOMAIN evts[t] : evts'[t][i] = evts[t][i]
    BY <1>1, AppendPlaces
<1>3. \A i \in DOMAIN evts'[t] : InEvts(t, i)' =>
         i \in DOMAIN evts[t] /\ InEvts(t, i) /\ evts'[t][i] = evts[t][i]
    BY <1>2 DEF InEvts
<1>4. \A p \in Prios : (InOp(p, t)' <=> InOp(p, t)) /\ (InHand(p, t)' <=> InHand(p, t))
    BY DEF InOp, InHand
<1>5. \A i \in DOMAIN evts'[t] : InEvts(t, i)' => is_sync_got'[t] /\ IsFor(evts[t][i], t)'
    BY <1>3 DEF NoticeOf, IsFor
<1>6. /\ \A p \in Prios : InOp(p, t)' => is_sync_got'[t] /\ IsFor(op[p].kind, t)'
      /\ \A p \in Prios : InHand(p, t)' => is_sync_got'[t] /\ IsFor(evt[p], t)'
    BY <1>4 DEF NoticeOf, IsFor
<1>7. /\ \A p, q \in Prios : InOp(p, t)' /\ InOp(q, t)' => p = q
      /\ \A p, q \in Prios : ~(InOp(p, t)' /\ InHand(q, t)')
    BY <1>4 DEF NoticeOf
<1>8. /\ \A p \in Prios : \A i \in DOMAIN evts'[t] : ~(InOp(p, t)' /\ InEvts(t, i)')
      /\ \A i, j \in DOMAIN evts'[t] : InEvts(t, i)' /\ InEvts(t, j)' => i = j
      /\ \A p \in Prios : \A i \in DOMAIN evts'[t] : ~(InHand(p, t)' /\ InEvts(t, i)')
    BY <1>3, <1>4 DEF NoticeOf
<1> QED BY <1>5, <1>6, <1>7, <1>8 DEF NoticeOf

\* The notice that was to be posted to t is posted.
LEMMA NoticePosted ==
    ASSUME TypeOK, NEW t \in Tasks, NoticeOf(t), NEW p \in Prios, InOp(p, t),
           op[p].kind \in Events, evts'[t] = Append(evts[t], op[p].kind),
           UNCHANGED <<eda_owner, is_sync_got, cur, evt>>,
           \A r \in Prios : r # p => op'[r] = op[r], op'[p].kind \notin Notices
    PROVE  NoticeOf(t)'
<1>1. evts[t] \in Seq(Events)
    BY TaskFacts
<1>2. /\ DOMAIN evts'[t] = DOMAIN evts[t] \cup {Len(evts[t]) + 1}
      /\ evts'[t][Len(evts[t]) + 1] = op[p].kind
      /\ \A i \in DOMAIN evts[t] : evts'[t][i] = evts[t][i]
    BY <1>1, AppendPlaces
<1>3. \A i \in DOMAIN evts'[t] : InEvts(t, i)' =>
         i = Len(evts[t]) + 1 /\ evts'[t][i] = op[p].kind
    BY <1>2 DEF InEvts, NoticeOf
<1>4. \A r \in Prios : ~InOp(r, t)' /\ ~InHand(r, t)'
    BY DEF InOp, InHand, NoticeOf
<1>5. is_sync_got[t] /\ IsFor(op[p].kind, t)
    BY DEF NoticeOf
<1>6. \A i \in DOMAIN evts'[t] : InEvts(t, i)' => is_sync_got'[t] /\ IsFor(evts[t][i], t)'
    BY <1>3, <1>5 DEF IsFor
<1>7. \A i, j \in DOMAIN evts'[t] : InEvts(t, i)' /\ InEvts(t, j)' => i = j
    BY <1>3
<1> QED BY <1>4, <1>6, <1>7 DEF NoticeOf

\* The oldest event of t goes to its handler.
LEMMA NoticeDispatched ==
    ASSUME TypeOK, NEW t \in Tasks, NoticeOf(t), NEW p \in Prios, evts[t] # <<>>,
           \A r \in Prios : cur[r] # t,
           evts'[t] = Tail(evts[t]), evt'[p] = Head(evts[t]),
           \A r \in Prios : r # p => cur'[r] = cur[r],
           UNCHANGED <<eda_owner, is_sync_got, op>>
    PROVE  NoticeOf(t)'
<1>1. evts[t] \in Seq(Events)
    BY TaskFacts
<1>2. /\ \A i \in DOMAIN evts'[t] : /\ i + 1 \in DOMAIN evts[t] /\ i \in Nat
                                    /\ evts'[t][i] = evts[t][i + 1] /\ i + 1 # 1
      /\ 1 \in DOMAIN evts[t] /\ evt'[p] = evts[t][1]
    BY <1>1, TailPlaces
<1>3. \A i \in DOMAIN evts'[t] : InEvts(t, i)' <=> InEvts(t, i + 1)
    BY <1>2 DEF InEvts
<1>4. \A r \in Prios : InHand(r, t)' => r = p /\ InEvts(t, 1)
    BY <1>2 DEF InHand, InEvts
<1>5. \A r \in Prios : InOp(r, t)' <=> InOp(r, t)
    BY DEF InOp
<1>6. /\ \A r \in Prios : InOp(r, t)' => is_sync_got'[t] /\ IsFor(op[r].kind, t)'
      /\ \A r, q \in Prios : InOp(r, t)' /\ InOp(q, t)' => r = q
    BY <1>5 DEF NoticeOf, IsFor
<1>7. \A r \in Prios : InHand(r, t)' => is_sync_got'[t] /\ IsFor(evt[r], t)'
    BY <1>2, <1>4 DEF NoticeOf, IsFor
<1>8. \A i \in DOMAIN evts'[t] : InEvts(t, i)' => is_sync_got'[t] /\ IsFor(evts[t][i], t)'
    BY <1>2, <1>3 DEF NoticeOf, IsFor
<1>9. /\ \A r \in Prios : \A i \in DOMAIN evts'[t] : ~(InOp(r, t)' /\ InEvts(t, i)')
      /\ \A r \in Prios : \A i \in DOMAIN evts'[t] : ~(InHand(r, t)' /\ InEvts(t, i)')
      /\ \A r, q \in Prios : ~(InOp(r, t)' /\ InHand(q, t)')
  <2>1. \A r \in Prios : \A i \in DOMAIN evts'[t] : ~(InOp(r, t)' /\ InEvts(t, i)')
    BY <1>2, <1>3, <1>5 DEF NoticeOf
  <2>2. \A r \in Prios : \A i \in DOMAIN evts'[t] : ~(InHand(r, t)' /\ InEvts(t, i)')
    BY <1>2, <1>3, <1>4 DEF NoticeOf
  <2>3. \A r, q \in Prios : ~(InOp(r, t)' /\ InHand(q, t)')
    BY <1>2, <1>4, <1>5 DEF NoticeOf
  <2> QED BY <2>1, <2>2, <2>3
<1>10. ASSUME NEW i \in DOMAIN evts'[t], NEW j \in DOMAIN evts'[t],
              InEvts(t, i)', InEvts(t, j)'
       PROVE  i = j
  <2>1. i + 1 = j + 1
    BY <1>2, <1>3, <1>10 DEF NoticeOf
  <2> QED BY <1>2, <2>1
<1> QED BY <1>6, <1>7, <1>8, <1>9, <1>10 DEF NoticeOf

\* t is taken out of the list and is to be told.
LEMMA NoticeStarted ==
    ASSUME TypeOK, NEW t \in Tasks, NoticeOf(t), ~is_sync_got[t], is_sync_got'[t],
           NEW p \in Prios, \A r \in Prios : r # p => op'[r] = op[r],
           IsFor(op[p].kind, t)', UNCHANGED <<cur, evt, evts>>
    PROVE  NoticeOf(t)'
<1>1. Quiet(t)
    BY QuietFacts
<1>2. \A r \in Prios : ~InHand(r, t)'
    BY <1>1 DEF Quiet, InHand
<1>3. \A i \in DOMAIN evts'[t] : ~InEvts(t, i)'
    BY <1>1 DEF Quiet, InEvts
<1>4. \A r \in Prios : InOp(r, t)' => r = p
    BY <1>1 DEF Quiet, InOp
<1> QED BY <1>2, <1>3, <1>4 DEF NoticeOf

LEMMA PendFrame ==
    ASSUME PendInv, UNCHANGED <<pending, eda_owner, wait, is_sync_got, holds>>
    PROVE  PendInv'
BY DEF PendInv, OwnerIsInside, NoTwice

LEMMA OneOrOther ==
    ASSUME NEW a \in BOOLEAN, NEW b \in BOOLEAN
    PROVE  (a # b) <=> (a <=> ~b)
BY Zenon

\* OwnerIsInside for the owner o.
LEMMA InsideFacts ==
    ASSUME TypeOK, OwnerIsInside, NEW o \in Tasks, o = eda_owner
    PROVE  (o \in holds <=> ~is_sync_got[o]) /\ holds \subseteq {o}
<1>1. is_sync_got[o] \in BOOLEAN
    BY DEF TypeOK
<1>2. o # NoTask /\ (o \in holds) # is_sync_got[o] /\ holds \subseteq {o}
    BY PrioFacts DEF OwnerIsInside
<1>3. (o \in holds) \in BOOLEAN
    OBVIOUS
<1>4. o \in holds <=> ~is_sync_got[o]
    BY <1>1, <1>2, <1>3, OneOrOther, Zenon
<1> QED BY <1>2, <1>4

\* The steps that neither wait nor end a wait.
LEMMA SoundDispatch ==
    ASSUME SoundInv, NEW p \in Prios, Dispatch(p) PROVE PendInv' /\ NoticeInv'
<1>0. TypeOK /\ CurInv /\ RdyInv /\ PrioInv /\ PendInv /\ NoticeInv
    BY DEF BaseInv, BasePrio, SoundInv
<1>1. cur[p] = NoTask /\ rdy_list[p] # <<>>
    BY <1>0 DEF Dispatch, Preempts, CurInv
<1>2. PICK t \in Tasks : t = Head(rdy_list[p]) /\ t \in ToSet(rdy_list[p])
    BY <1>0, <1>1, QueueFacts, TailFacts
<1>3. evts[t] # <<>> /\ \A r \in Prios : cur[r] # t
    BY <1>0, <1>2, DispatchedIn DEF RdyInv, Dispatched
<1>4. /\ cur' = [cur EXCEPT ![p] = t] /\ evt' = [evt EXCEPT ![p] = Head(evts[t])]
      /\ evts' = [evts EXCEPT ![t] = Tail(@)]
      /\ UNCHANGED <<eda_owner, pending, wait, is_sync_got, op, holds>>
    BY <1>2 DEF Dispatch, waitVars, histVars
<1>5. /\ evts'[t] = Tail(evts[t]) /\ evt'[p] = Head(evts[t]) /\ cur'[p] = t
      /\ \A r \in Prios : r # p => cur'[r] = cur[r] /\ evt'[r] = evt[r]
      /\ \A x \in Tasks : x # t => evts'[x] = evts[x]
    BY <1>0, <1>4 DEF TypeOK
<1>6. ASSUME NEW x \in Tasks PROVE NoticeOf(x)'
  <2>1. CASE x = t
    BY <1>0, <1>3, <1>4, <1>5, <2>1, NoticeDispatched DEF NoticeInv
  <2>2. CASE x # t
    <3>1. \A r \in Prios : InHand(r, x)' => InHand(r, x) /\ evt'[r] = evt[r]
        BY <1>5, <2>2 DEF InHand
    <3>2. \A r \in Prios : InOp(r, x)' => InOp(r, x) /\ op'[r] = op[r]
        BY <1>4 DEF InOp
    <3> QED BY <1>0, <1>4, <1>5, <2>2, <3>1, <3>2, NoticeFrame DEF NoticeInv
  <2> QED BY <2>1, <2>2
<1>7. PendInv'
    BY <1>0, <1>4, PendFrame
<1> QED BY <1>6, <1>7 DEF NoticeInv

LEMMA SoundQuietStep ==
    ASSUME SoundInv, NEW p \in Prios, Finish(p) \/ SwiLeave(p) \/ Handle(p)
    PROVE  PendInv' /\ NoticeInv'
<1>0. TypeOK /\ PendInv /\ NoticeInv
    BY DEF BaseInv, BasePrio, SoundInv
<1>1. /\ UNCHANGED <<eda_owner, pending, wait, is_sync_got, op, holds, evts>>
      /\ cur' = [cur EXCEPT ![p] = NoTask] \/ cur' = cur
      /\ evt' = [evt EXCEPT ![p] = "none"] \/ evt' = evt
    BY DEF Finish, SwiLeave, Handle, waitVars, histVars
<1>2. \A r \in Prios : /\ cur'[r] = cur[r] \/ cur'[r] = NoTask
                       /\ evt'[r] = evt[r] \/ evt'[r] = "none"
    BY <1>0, <1>1 DEF TypeOK
<1>3. ASSUME NEW x \in Tasks PROVE NoticeOf(x)'
  <2>1. \A r \in Prios : InHand(r, x)' => InHand(r, x) /\ evt'[r] = evt[r]
    BY <1>2, PrioFacts DEF InHand, Notices
  <2>2. \A r \in Prios : InOp(r, x)' => InOp(r, x) /\ op'[r] = op[r]
    BY <1>1 DEF InOp
  <2> QED BY <1>0, <1>1, <2>1, <2>2, NoticeFrame DEF NoticeInv
<1>4. PendInv'
    BY <1>0, <1>1, PendFrame
<1> QED BY <1>3, <1>4 DEF NoticeInv

LEMMA SoundTold ==
    ASSUME SoundInv, NEW t \in Tasks, NEW e \in Events \ Notices,
           Post(t, e) \/ UNCHANGED <<evts, rdy_list>>,
           UNCHANGED <<eda_owner, pending, wait, is_sync_got, op, holds, cur, evt>>
    PROVE  PendInv' /\ NoticeInv'
<1>0. TypeOK /\ PendInv /\ NoticeInv
    BY DEF BaseInv, BasePrio, SoundInv
<1>1. ASSUME NEW x \in Tasks, evts'[x] = evts[x] PROVE NoticeOf(x)'
  <2>1. /\ \A r \in Prios : InHand(r, x)' => InHand(r, x) /\ evt'[r] = evt[r]
        /\ \A r \in Prios : InOp(r, x)' => InOp(r, x) /\ op'[r] = op[r]
    BY DEF InHand, InOp
  <2> QED BY <1>0, <1>1, <2>1, NoticeFrame DEF NoticeInv
<1>2. CASE UNCHANGED evts
    BY <1>0, <1>1, <1>2, PendFrame DEF NoticeInv
<1>3. CASE Post(t, e)
  <2>1. evts'[t] = Append(evts[t], e) /\ \A x \in Tasks : x # t => evts'[x] = evts[x]
    BY <1>0, <1>3 DEF Post, TypeOK
  <2>2. NoticeOf(t)'
    BY <1>0, <2>1, NoticeAppend DEF NoticeInv
  <2> QED BY <1>0, <1>1, <2>1, <2>2, PendFrame DEF NoticeInv
<1> QED BY <1>2, <1>3

LEMMA SoundInterrupt ==
    ASSUME SoundInv, NEW t \in Tasks, Wake(t) \/ Expire(t)
    PROVE  PendInv' /\ NoticeInv'
<1>1. /\ UNCHANGED <<eda_owner, pending, wait, is_sync_got, op, holds, cur, evt>>
      /\ Post(t, "USER") \/ Post(t, "TIMER") \/ UNCHANGED <<evts, rdy_list>>
    BY DEF Wake, Expire, waitVars, pollVars, histVars
<1>2. "USER" \in Events \ Notices /\ "TIMER" \in Events \ Notices
    BY DEF Events, Notices
<1> QED BY <1>1, <1>2, SoundTold

LEMMA SoundPostEvent ==
    ASSUME SoundInv, NEW p \in Prios, PostEvent(p) PROVE PendInv' /\ NoticeInv'
<1>0. TypeOK /\ CurInv /\ PendInv /\ NoticeInv
    BY DEF BaseInv, BasePrio, SoundInv
<1>1. op[p].kind \in Notices /\ op[p].kind \in Events
    BY <1>0, QueueFacts DEF PostEvent, Events, Kinds, Notices
<1>2. PICK t \in Tasks : t = op[p].to
    BY <1>0, <1>1 DEF CurInv
<1>3. /\ UNCHANGED <<eda_owner, pending, cur, evt, wait, is_sync_got, holds>>
      /\ evts' = [evts EXCEPT ![t] = Append(@, op[p].kind)]
      /\ op' = [op EXCEPT ![p] = IF op[p].kind = "SYNC" THEN NoOp
                                 ELSE [kind |-> "cancelloop", to |-> NoTask]]
    BY <1>2 DEF PostEvent, Post, waitVars, pollVars, histVars
<1>4. op'[p].kind \notin Notices /\ \A r \in Prios : r # p => op'[r] = op[r]
    BY <1>0, <1>3 DEF TypeOK, NoOp, Notices
<1>5. /\ evts'[t] = Append(evts[t], op[p].kind)
      /\ \A x \in Tasks : x # t => evts'[x] = evts[x]
    BY <1>0, <1>3 DEF TypeOK
<1>6. ASSUME NEW x \in Tasks PROVE NoticeOf(x)'
  <2>1. CASE x = t
    <3>1. InOp(p, x)
        BY <1>1, <1>2, <2>1 DEF InOp
    <3> QED BY <1>0, <1>1, <1>3, <1>4, <1>5, <2>1, <3>1, NoticePosted DEF NoticeInv
  <2>2. CASE x # t
    <3>1. \A r \in Prios : InHand(r, x)' => InHand(r, x) /\ evt'[r] = evt[r]
        BY <1>3 DEF InHand
    <3>2. \A r \in Prios : InOp(r, x)' => InOp(r, x) /\ op'[r] = op[r]
        BY <1>4 DEF InOp
    <3> QED BY <1>0, <1>3, <1>5, <2>2, <3>1, <3>2, NoticeFrame DEF NoticeInv
  <2> QED BY <2>1, <2>2
<1>7. PendInv'
    BY <1>0, <1>3, PendFrame
<1> QED BY <1>6, <1>7 DEF NoticeInv

LEMMA InsideNext ==
    ASSUME is_sync_got' \in [Tasks -> BOOLEAN], NEW o \in Tasks, o = eda_owner',
           o \in holds' <=> ~is_sync_got'[o], holds' \subseteq {o}
    PROVE  OwnerIsInside'
<1>1. is_sync_got'[o] \in BOOLEAN /\ (o \in holds') \in BOOLEAN
    OBVIOUS
<1>2. (o \in holds') # is_sync_got'[o]
    BY <1>1, OneOrOther, Zenon
<1> QED BY <1>2 DEF OwnerIsInside

LEMMA SoundEnter ==
    ASSUME SoundInv, NEW p \in Prios, Enter(p) PROVE PendInv' /\ NoticeInv'
<1>0. TypeOK /\ CurInv /\ PendInv /\ NoticeInv
    BY DEF BaseInv, BasePrio, SoundInv
<1>1. PICK t \in Tasks : t = cur[p] /\ wait[t] = "no"
    BY <1>0, AtWorkFacts DEF Enter
<1>2. /\ eda_owner = NoTask /\ eda_owner' = t /\ holds' = holds \cup {t} /\ pending = <<>>
      /\ UNCHANGED <<pending, cur, evt, evts, wait, is_sync_got, op>>
    BY <1>1 DEF Enter, pollVars, waitVars
<1>3. ~is_sync_got[t] /\ holds = {}
    BY <1>0, <1>1, <1>2, PrioFacts DEF PendInv, OwnerIsInside, TypeOK
<1>4. ASSUME NEW x \in Tasks PROVE NoticeOf(x)'
  <2>1. CASE x = t
    <3>1. Quiet(x)
        BY <1>0, <1>3, <2>1, QuietFacts DEF NoticeInv
    <3>2. Quiet(x)'
        BY <1>2, <3>1 DEF Quiet, InOp, InEvts, InHand
    <3> QED BY <3>2, QuietNext
  <2>2. CASE x # t
    <3>1. /\ \A r \in Prios : InHand(r, x)' => InHand(r, x) /\ evt'[r] = evt[r]
          /\ \A r \in Prios : InOp(r, x)' => InOp(r, x) /\ op'[r] = op[r]
        BY <1>2 DEF InHand, InOp
    <3>2. (x = eda_owner') <=> (x = eda_owner)
        BY <1>2, <2>2, PrioFacts
    <3> QED BY <1>0, <1>2, <3>1, <3>2, NoticeFrame DEF NoticeInv
  <2> QED BY <2>1, <2>2
<1>5. OwnerIsInside'
    BY <1>0, <1>2, <1>3, InsideNext DEF TypeOK
<1>6. PendInv'
    BY <1>0, <1>2, <1>5, PrioFacts DEF PendInv, ToSet, NoTwice
<1> QED BY <1>4, <1>6 DEF NoticeInv

LEMMA SoundEnterPend ==
    ASSUME SoundInv, NEW p \in Prios, NEW timeout \in {"timed", "forever"},
           EnterPend(p, timeout)
    PROVE  PendInv' /\ NoticeInv'
<1>0. TypeOK /\ CurInv /\ PendInv /\ NoticeInv
    BY DEF BaseInv, BasePrio, SoundInv
<1>1. PICK t \in Tasks : t = cur[p] /\ wait[t] = "no"
    BY <1>0, AtWorkFacts DEF EnterPend
<1>2. /\ eda_owner # NoTask /\ eda_owner # t /\ wait' = [wait EXCEPT ![t] = timeout]
      /\ UNCHANGED <<eda_owner, cur, evt, evts, is_sync_got, op, holds>>
      /\ InsertByPriority(t)
    BY <1>1 DEF EnterPend, pollVars
<1>3. ASSUME NEW x \in Tasks PROVE NoticeOf(x)'
  <2>1. /\ \A r \in Prios : InHand(r, x)' => InHand(r, x) /\ evt'[r] = evt[r]
        /\ \A r \in Prios : InOp(r, x)' => InOp(r, x) /\ op'[r] = op[r]
    BY <1>2 DEF InHand, InOp
  <2> QED BY <1>0, <1>2, <2>1, NoticeFrame DEF NoticeInv
<1>4. t \notin ToSet(pending) /\ ~is_sync_got[t]
    BY <1>0, <1>1 DEF PendInv
<1>5. NoTwice(pending') /\ ToSet(pending') = ToSet(pending) \cup {t}
  <2>1. PICK n \in 1 .. Len(pending) + 1 : pending' = InsertAt(pending, n, t)
    BY <1>2 DEF InsertByPriority
  <2>2. pending \in Seq(Tasks) /\ NoTwice(pending)
    BY <1>0 DEF TypeOK, PendInv
  <2>3. /\ ToSet(InsertAt(pending, n, t)) = ToSet(pending) \cup {t}
        /\ NoTwice(InsertAt(pending, n, t))
    BY <1>4, <2>2, InsertAtFacts
  <2> QED BY <2>1, <2>3
<1>6. wait'[t] # "no" /\ \A x \in Tasks : x # t => wait'[x] = wait[x]
    BY <1>0, <1>2 DEF TypeOK
<1>7. OwnerIsInside'
    BY <1>0, <1>2 DEF PendInv, OwnerIsInside
<1>8. \A x \in ToSet(pending) : x \in Tasks
    BY <1>0 DEF TypeOK, ToSet
<1>9. PendInv'
    BY <1>0, <1>2, <1>4, <1>5, <1>6, <1>7, <1>8 DEF PendInv
<1> QED BY <1>3, <1>9 DEF NoticeInv

LEMMA SoundLeave ==
    ASSUME SoundInv, NEW p \in Prios, Leave(p) PROVE PendInv' /\ NoticeInv'
<1>0. TypeOK /\ CurInv /\ PendInv /\ NoticeInv
    BY DEF BaseInv, BasePrio, SoundInv
<1>1. PICK t \in Tasks : t = cur[p] /\ t = eda_owner /\ t \in holds /\ op[p] = NoOp
    BY <1>0, AtWorkFacts DEF Leave
<1>2. UNCHANGED <<cur, evt, evts, wait>> /\ holds' = holds \ {t}
    BY <1>1 DEF Leave, pollVars
<1>3. ~is_sync_got[t] /\ holds' = {}
    BY <1>0, <1>1, <1>2, InsideFacts DEF PendInv
<1>4. CASE pending = <<>>
  <2>1. eda_owner' = NoTask /\ UNCHANGED <<pending, is_sync_got, op>>
    BY <1>4 DEF Leave
  <2>2. ASSUME NEW x \in Tasks PROVE NoticeOf(x)'
    <3>1. CASE x = t
        <4>1. Quiet(x)
            BY <1>0, <1>3, <3>1, QuietFacts DEF NoticeInv
        <4>2. Quiet(x)'
            BY <1>2, <2>1, <4>1 DEF Quiet, InOp, InEvts, InHand
        <4> QED BY <4>2, QuietNext
    <3>2. CASE x # t
        <4>1. /\ \A r \in Prios : InHand(r, x)' => InHand(r, x) /\ evt'[r] = evt[r]
              /\ \A r \in Prios : InOp(r, x)' => InOp(r, x) /\ op'[r] = op[r]
            BY <1>2, <2>1 DEF InHand, InOp
        <4>2. (x = eda_owner') <=> (x = eda_owner)
            BY <1>1, <2>1, <3>2, PrioFacts
        <4> QED BY <1>0, <1>2, <2>1, <4>1, <4>2, NoticeFrame DEF NoticeInv
    <3> QED BY <3>1, <3>2
  <2>3. OwnerIsInside'
    BY <1>3, <2>1 DEF OwnerIsInside
  <2>4. PendInv'
    BY <1>0, <1>2, <1>4, <2>1, <2>3 DEF PendInv, ToSet, NoTwice
  <2> QED BY <2>2, <2>4 DEF NoticeInv
<1>5. CASE pending # <<>>
  <2>1. PICK h \in Tasks : h = Head(pending) /\ h \in ToSet(pending)
    BY <1>0, <1>5, TailFacts DEF TypeOK
  <2>2. /\ eda_owner' = h /\ pending' = Tail(pending)
        /\ is_sync_got' = [is_sync_got EXCEPT ![h] = TRUE]
        /\ op' = [op EXCEPT ![p] = [kind |-> "SYNC", to |-> h]]
    BY <1>5, <2>1 DEF Leave
  <2>3. /\ NoTwice(Tail(pending)) /\ ToSet(Tail(pending)) = ToSet(pending) \ {h}
    BY <1>0, <1>5, <2>1, TailFacts DEF TypeOK, PendInv
  <2>4. h # t /\ ~is_sync_got[h] /\ wait[h] # "no"
    BY <1>0, <1>1, <2>1 DEF PendInv
  <2>5. is_sync_got'[h] /\ \A x \in Tasks : x # h => is_sync_got'[x] = is_sync_got[x]
    BY <1>0, <2>2 DEF TypeOK
  <2>6. /\ op'[p] = [kind |-> "SYNC", to |-> h] /\ \A r \in Prios : r # p => op'[r] = op[r]
    BY <1>0, <2>2 DEF TypeOK
  <2>7. ASSUME NEW x \in Tasks PROVE NoticeOf(x)'
    <3>1. CASE x = t
        <4>1. Quiet(x)
            BY <1>0, <1>3, <3>1, QuietFacts DEF NoticeInv
        <4>2. \A r \in Prios : ~InOp(r, x)'
            BY <2>4, <2>6, <3>1, <4>1 DEF Quiet, InOp
        <4>3. Quiet(x)'
            BY <1>2, <4>1, <4>2 DEF Quiet, InEvts, InHand
        <4> QED BY <4>3, QuietNext
    <3>2. CASE x = h
        <4>1. IsFor(op[p].kind, x)'
            BY <2>2, <2>6, <3>2 DEF IsFor
        <4> QED BY <1>0, <1>2, <2>4, <2>5, <2>6, <3>2, <4>1, NoticeStarted DEF NoticeInv
    <3>3. CASE x # t /\ x # h
        <4>1. \A r \in Prios : InHand(r, x)' => InHand(r, x) /\ evt'[r] = evt[r]
            BY <1>2 DEF InHand
        <4>2. \A r \in Prios : InOp(r, x)' => InOp(r, x) /\ op'[r] = op[r]
            BY <2>6, <3>3 DEF InOp
        <4>3. (x = eda_owner') <=> (x = eda_owner)
            BY <1>1, <2>2, <3>3
        <4> QED BY <1>0, <1>2, <2>5, <3>3, <4>1, <4>2, <4>3, NoticeFrame DEF NoticeInv
    <3> QED BY <3>1, <3>2, <3>3
  <2>8. is_sync_got' \in [Tasks -> BOOLEAN]
    BY <1>0, <2>2 DEF TypeOK
  <2>9. OwnerIsInside'
    BY <1>3, <2>2, <2>5, <2>8, InsideNext
  <2>10. \A x \in ToSet(pending) : x \in Tasks
    BY <1>0 DEF TypeOK, ToSet
  <2>11. /\ NoTwice(pending') /\ ToSet(pending') = ToSet(pending) \ {h}
    BY <2>2, <2>3
  <2>12. PendInv'
    BY <1>0, <1>2, <2>2, <2>4, <2>5, <2>9, <2>10, <2>11, PrioFacts DEF PendInv
  <2> QED BY <2>7, <2>12 DEF NoticeInv
<1> QED BY <1>4, <1>5

LEMMA SoundCancelNext ==
    ASSUME SoundInv, NEW p \in Prios, CancelNext(p), op[p].kind \notin Notices
    PROVE  PendInv' /\ NoticeInv'
<1>0. TypeOK /\ CurInv /\ PendInv /\ NoticeInv
    BY DEF BaseInv, BasePrio, SoundInv
<1>1. UNCHANGED <<eda_owner, cur, evt, evts, wait, holds>>
    BY DEF CancelNext, pollVars, histVars
<1>2. CASE pending = <<>>
  <2>1. op' = [op EXCEPT ![p] = NoOp] /\ UNCHANGED <<pending, is_sync_got>>
    BY <1>2 DEF CancelNext
  <2>2. op'[p] = NoOp /\ \A r \in Prios : r # p => op'[r] = op[r]
    BY <1>0, <2>1 DEF TypeOK
  <2>3. ASSUME NEW x \in Tasks PROVE NoticeOf(x)'
    <3>1. \A r \in Prios : InHand(r, x)' => InHand(r, x) /\ evt'[r] = evt[r]
        BY <1>1 DEF InHand
    <3>2. \A r \in Prios : InOp(r, x)' => InOp(r, x) /\ op'[r] = op[r]
        BY <2>2 DEF InOp, NoOp, Notices
    <3> QED BY <1>0, <1>1, <2>1, <3>1, <3>2, NoticeFrame DEF NoticeInv
  <2>4. PendInv'
    BY <1>0, <1>1, <2>1, PendFrame
  <2> QED BY <2>3, <2>4 DEF NoticeInv
<1>3. CASE pending # <<>>
  <2>1. PICK h \in Tasks : h = Head(pending) /\ h \in ToSet(pending)
    BY <1>0, <1>3, TailFacts DEF TypeOK
  <2>2. /\ pending' = Tail(pending) /\ is_sync_got' = [is_sync_got EXCEPT ![h] = TRUE]
        /\ op' = [op EXCEPT ![p] = [kind |-> "CANCEL", to |-> h]]
    BY <1>3, <2>1 DEF CancelNext
  <2>3. /\ NoTwice(Tail(pending)) /\ ToSet(Tail(pending)) = ToSet(pending) \ {h}
    BY <1>0, <1>3, <2>1, TailFacts DEF TypeOK, PendInv
  <2>4. h # eda_owner /\ ~is_sync_got[h] /\ wait[h] # "no" /\ eda_owner # NoTask
    BY <1>0, <1>3, <2>1 DEF PendInv
  <2>5. is_sync_got'[h] /\ \A x \in Tasks : x # h => is_sync_got'[x] = is_sync_got[x]
    BY <1>0, <2>2 DEF TypeOK
  <2>6. /\ op'[p] = [kind |-> "CANCEL", to |-> h] /\ \A r \in Prios : r # p => op'[r] = op[r]
    BY <1>0, <2>2 DEF TypeOK
  <2>7. ASSUME NEW x \in Tasks PROVE NoticeOf(x)'
    <3>1. CASE x = h
        <4>1. IsFor(op[p].kind, x)'
            BY <1>1, <2>4, <2>6, <3>1 DEF IsFor
        <4> QED BY <1>0, <1>1, <2>4, <2>5, <2>6, <3>1, <4>1, NoticeStarted DEF NoticeInv
    <3>2. CASE x # h
        <4>1. \A r \in Prios : InHand(r, x)' => InHand(r, x) /\ evt'[r] = evt[r]
            BY <1>1 DEF InHand
        <4>2. \A r \in Prios : InOp(r, x)' => InOp(r, x) /\ op'[r] = op[r]
            BY <2>6, <3>2 DEF InOp
        <4> QED BY <1>0, <1>1, <2>5, <3>2, <4>1, <4>2, NoticeFrame DEF NoticeInv
    <3> QED BY <3>1, <3>2
  <2>8. is_sync_got' \in [Tasks -> BOOLEAN]
    BY <1>0, <2>2 DEF TypeOK
  <2>9. OwnerIsInside'
    <3>1. PICK o \in Tasks : o = eda_owner
        BY <1>0, <2>4 DEF TypeOK
    <3>2. (o \in holds <=> ~is_sync_got[o]) /\ holds \subseteq {o}
        BY <1>0, <3>1, InsideFacts DEF PendInv
    <3>3. is_sync_got'[o] = is_sync_got[o]
        BY <2>4, <2>5, <3>1
    <3>4. o = eda_owner' /\ holds' = holds
        BY <1>1, <3>1
    <3> QED BY <2>8, <3>2, <3>3, <3>4, InsideNext
  <2>10. \A x \in ToSet(pending) : x \in Tasks
    BY <1>0 DEF TypeOK, ToSet
  <2>11. /\ NoTwice(pending') /\ ToSet(pending') = ToSet(pending) \ {h}
    BY <2>2, <2>3
  <2>12. PendInv'
    BY <1>0, <1>1, <2>4, <2>5, <2>9, <2>10, <2>11 DEF PendInv
  <2> QED BY <2>7, <2>12 DEF NoticeInv
<1> QED BY <1>2, <1>3

\* VSF_EVT_TIMER is no notice; a task that was not taken out of the list
\* leaves it.
LEMMA SoundReasonTimer ==
    ASSUME SoundInv, NEW p \in Prios, ReasonTimer(p) PROVE PendInv' /\ NoticeInv'
<1>0. TypeOK /\ CurInv /\ PendInv /\ NoticeInv
    BY DEF BaseInv, BasePrio, SoundInv
<1>1. PICK t \in Tasks : t = cur[p]
    BY <1>0, QueueFacts DEF ReasonTimer, CurInv
<1>2. /\ UNCHANGED <<eda_owner, cur, evts, is_sync_got, op, holds>>
      /\ evt' = [evt EXCEPT ![p] = "none"]
    BY DEF ReasonTimer, histVars
<1>3. evt'[p] = "none" /\ \A r \in Prios : r # p => evt'[r] = evt[r]
    BY <1>0, <1>2 DEF TypeOK
<1>4. ASSUME NEW x \in Tasks PROVE NoticeOf(x)'
  <2>1. \A r \in Prios : InHand(r, x)' => InHand(r, x) /\ evt'[r] = evt[r]
    BY <1>2, <1>3 DEF InHand, Notices
  <2>2. \A r \in Prios : InOp(r, x)' => InOp(r, x) /\ op'[r] = op[r]
    BY <1>2 DEF InOp
  <2> QED BY <1>0, <1>2, <2>1, <2>2, NoticeFrame DEF NoticeInv
<1>5. PendInv'
  <2>1. CASE is_sync_got[t]
    <3>1. UNCHANGED <<pending, wait>>
        BY <1>1, <2>1 DEF ReasonTimer
    <3> QED BY <1>0, <1>2, <3>1, PendFrame
  <2>2. CASE ~is_sync_got[t]
    <3>1. PICK i \in DOMAIN pending : pending[i] = t /\ pending' = RemoveAt(pending, i)
        BY <1>1, <2>2 DEF ReasonTimer
    <3>2. /\ NoTwice(RemoveAt(pending, i))
          /\ ToSet(RemoveAt(pending, i)) = ToSet(pending) \ {t}
        BY <1>0, <3>1, RemoveAtFacts DEF TypeOK, PendInv
    <3>3. NoTwice(pending') /\ ToSet(pending') = ToSet(pending) \ {t}
        BY <3>1, <3>2
    <3>4. wait' = [wait EXCEPT ![t] = "no"]
        BY <1>1, <2>2 DEF ReasonTimer
    <3>5. \A x \in Tasks : x # t => wait'[x] = wait[x]
        BY <1>0, <3>4 DEF TypeOK
    <3>6. OwnerIsInside'
        BY <1>0, <1>2 DEF PendInv, OwnerIsInside
    <3>7. \A x \in ToSet(pending) : x \in Tasks
        BY <1>0 DEF TypeOK, ToSet
    <3>8. eda_owner' # NoTask
        <4>1. pending # <<>>
            BY <3>1
        <4> QED BY <1>0, <1>2, <4>1 DEF PendInv
    <3> QED BY <1>0, <1>2, <2>2, <3>3, <3>5, <3>6, <3>7, <3>8 DEF PendInv
  <2> QED BY <2>1, <2>2
<1> QED BY <1>4, <1>5 DEF NoticeInv

\* The notice ends with the wait.
LEMMA SoundReasonGet ==
    ASSUME SoundInv, NEW p \in Prios, ReasonGet(p) PROVE PendInv' /\ NoticeInv'
<1>0. TypeOK /\ CurInv /\ PendInv /\ NoticeInv
    BY DEF BaseInv, BasePrio, SoundInv
<1>1. PICK t \in Tasks : t = cur[p]
    BY <1>0, QueueFacts DEF ReasonGet, CurInv
<1>2. /\ UNCHANGED <<eda_owner, pending, cur, evts, op>>
      /\ is_sync_got' = [is_sync_got EXCEPT ![t] = FALSE]
      /\ wait' = [wait EXCEPT ![t] = "no"] /\ evt' = [evt EXCEPT ![p] = "none"]
      /\ holds' = IF evt[p] = "SYNC" THEN holds \cup {t} ELSE holds
    BY <1>1 DEF ReasonGet
<1>3. /\ evt'[p] = "none" /\ \A r \in Prios : r # p => evt'[r] = evt[r]
      /\ ~is_sync_got'[t] /\ wait'[t] = "no"
      /\ \A x \in Tasks : x # t => is_sync_got'[x] = is_sync_got[x] /\ wait'[x] = wait[x]
    BY <1>0, <1>2 DEF TypeOK
<1>4. InHand(p, t) /\ is_sync_got[t] /\ IsFor(evt[p], t)
    BY <1>0, <1>1 DEF ReasonGet, InHand, Notices, NoticeInv, NoticeOf
<1>5. \A r \in Prios : cur[r] = t => r = p
    BY <1>0, <1>1, DispatchedIn
<1>6. ASSUME NEW x \in Tasks PROVE NoticeOf(x)'
  <2>1. \A r \in Prios : InOp(r, x)' <=> InOp(r, x)
    BY <1>2 DEF InOp
  <2>2. \A r \in Prios : InHand(r, x)' => InHand(r, x) /\ evt'[r] = evt[r] /\ r # p
    BY <1>2, <1>3 DEF InHand, Notices
  <2>3. CASE x = t
    <3>1. /\ \A r \in Prios : ~InOp(r, x)
          /\ \A i \in DOMAIN evts[x] : ~InEvts(x, i)
        BY <1>0, <1>4, <2>3 DEF NoticeInv, NoticeOf
    <3>2. \A r \in Prios : ~InHand(r, x)'
        BY <1>5, <2>2, <2>3 DEF InHand
    <3>3. \A i \in DOMAIN evts'[x] : ~InEvts(x, i)'
        BY <1>2, <3>1 DEF InEvts
    <3>4. Quiet(x)'
        BY <2>1, <3>1, <3>2, <3>3 DEF Quiet
    <3> QED BY <3>4, QuietNext
  <2>4. CASE x # t
    <3>1. \A r \in Prios : InOp(r, x)' => InOp(r, x) /\ op'[r] = op[r]
        BY <1>2, <2>1
    <3> QED BY <1>0, <1>2, <1>3, <2>2, <2>4, <3>1, NoticeFrame DEF NoticeInv
  <2> QED BY <2>3, <2>4
<1>7. is_sync_got' \in [Tasks -> BOOLEAN]
    BY <1>0, <1>2 DEF TypeOK
<1>8. OwnerIsInside'
  <2>1. CASE t = eda_owner
    <3>1. evt[p] = "SYNC" /\ holds' = holds \cup {t} /\ holds \subseteq {t}
        BY <1>0, <1>2, <1>4, <2>1, InsideFacts DEF IsFor, PendInv
    <3>2. t \in holds' /\ holds' \subseteq {t} /\ t = eda_owner'
        BY <1>2, <2>1, <3>1
    <3> QED BY <1>3, <1>7, <3>2, InsideNext
  <2>2. CASE t # eda_owner
    <3>1. holds' = holds
        BY <1>2, <1>4, <2>2 DEF IsFor
    <3>2. CASE eda_owner = NoTask
        BY <1>0, <1>2, <3>1, <3>2 DEF PendInv, OwnerIsInside
    <3>3. CASE eda_owner # NoTask
        <4>1. PICK o \in Tasks : o = eda_owner
            BY <1>0, <3>3 DEF TypeOK
        <4>2. (o \in holds <=> ~is_sync_got[o]) /\ holds \subseteq {o}
            BY <1>0, <4>1, InsideFacts DEF PendInv
        <4>3. is_sync_got'[o] = is_sync_got[o] /\ o = eda_owner'
            BY <1>2, <1>3, <2>2, <4>1
        <4> QED BY <1>7, <3>1, <4>2, <4>3, InsideNext
    <3> QED BY <3>2, <3>3
  <2> QED BY <2>1, <2>2
<1>9. \A x \in ToSet(pending) : x \in Tasks /\ x # t
    BY <1>0, <1>4 DEF TypeOK, ToSet, PendInv
<1>10. PendInv'
    BY <1>0, <1>2, <1>3, <1>8, <1>9 DEF PendInv, NoTwice
<1> QED BY <1>6, <1>10 DEF NoticeInv

LEMMA SoundStutter ==
    ASSUME SoundInv, UNCHANGED vars PROVE PendInv' /\ NoticeInv'
<1>0. TypeOK /\ PendInv /\ NoticeInv
    BY DEF BaseInv, BasePrio, SoundInv
<1>1. UNCHANGED <<eda_owner, pending, wait, is_sync_got, op, holds, evts, cur, evt>>
    BY DEF vars
<1>2. ASSUME NEW x \in Tasks PROVE NoticeOf(x)'
  <2>1. /\ \A r \in Prios : InHand(r, x)' => InHand(r, x) /\ evt'[r] = evt[r]
        /\ \A r \in Prios : InOp(r, x)' => InOp(r, x) /\ op'[r] = op[r]
    BY <1>1 DEF InHand, InOp
  <2> QED BY <1>0, <1>1, <2>1, NoticeFrame DEF NoticeInv
<1> QED BY <1>0, <1>1, <1>2, PendFrame DEF NoticeInv

\* Nothing that t is told by is lost.
LEMMA ToldFrame ==
    ASSUME NEW t, Told(t), is_sync_got'[t] => is_sync_got[t], evts'[t] = evts[t],
           \A p \in Prios : InOp(p, t) => InOp(p, t)',
           \A p \in Prios : InHand(p, t) => InHand(p, t)'
    PROVE  Told(t)'
<1>1. \A i : InEvts(t, i)' <=> InEvts(t, i)
    BY DEF InEvts
<1>2. Quiet(t)' => Quiet(t)
    BY <1>1 DEF Quiet
<1> QED BY <1>2 DEF Told

\* t gets one more event.
LEMMA ToldAppend ==
    ASSUME TypeOK, NEW t \in Tasks, Told(t), NEW e \in Events,
           evts'[t] = Append(evts[t], e), is_sync_got'[t] => is_sync_got[t],
           \A p \in Prios : InOp(p, t) => InOp(p, t)' \/ e \in Notices,
           \A p \in Prios : InHand(p, t) => InHand(p, t)'
    PROVE  Told(t)'
<1>1. evts[t] \in Seq(Events)
    BY TaskFacts
<1>2. /\ DOMAIN evts'[t] = DOMAIN evts[t] \cup {Len(evts[t]) + 1}
      /\ evts'[t][Len(evts[t]) + 1] = e
      /\ \A i \in DOMAIN evts[t] : evts'[t][i] = evts[t][i]
    BY <1>1, AppendPlaces
<1>3. Quiet(t)' => Quiet(t)
    BY <1>2 DEF Quiet, InEvts
<1> QED BY <1>3 DEF Told

LEMMA ToldDispatch ==
    ASSUME SoundInv, NEW p \in Prios, Dispatch(p), NEW x \in Tasks PROVE Told(x)'
<1>0. TypeOK /\ CurInv /\ RdyInv /\ Told(x)
    BY DEF BaseInv, BasePrio, SoundInv, ToldInv
<1>1. cur[p] = NoTask /\ rdy_list[p] # <<>>
    BY <1>0 DEF Dispatch, Preempts, CurInv
<1>2. PICK t \in Tasks : t = Head(rdy_list[p]) /\ t \in ToSet(rdy_list[p])
    BY <1>0, <1>1, QueueFacts, TailFacts
<1>3. evts[t] # <<>> /\ \A r \in Prios : cur[r] # t
    BY <1>0, <1>2, DispatchedIn DEF RdyInv, Dispatched
<1>4. /\ cur' = [cur EXCEPT ![p] = t] /\ evt' = [evt EXCEPT ![p] = Head(evts[t])]
      /\ evts' = [evts EXCEPT ![t] = Tail(@)] /\ UNCHANGED <<is_sync_got, op>>
    BY <1>2 DEF Dispatch, waitVars
<1>5. /\ evts'[t] = Tail(evts[t]) /\ evt'[p] = Head(evts[t]) /\ cur'[p] = t
      /\ \A r \in Prios : r # p => cur'[r] = cur[r] /\ evt'[r] = evt[r]
      /\ \A y \in Tasks : y # t => evts'[y] = evts[y]
    BY <1>0, <1>4 DEF TypeOK
<1>6. \A r \in Prios : InOp(r, x) => InOp(r, x)'
    BY <1>4 DEF InOp
<1>7. CASE x = t
  <2>1. evts[t] \in Seq(Events)
    BY <1>0, TaskFacts
  <2>2. ASSUME NEW i \in DOMAIN evts[t], InEvts(t, i) PROVE ~Quiet(t)'
    <3>1. CASE i = 1
        BY <1>3, <1>5, <2>1, <2>2, <3>1 DEF Quiet, InHand, InEvts
    <3>2. CASE i # 1
        <4>1. i - 1 \in DOMAIN Tail(evts[t]) /\ Tail(evts[t])[i - 1] = evts[t][i]
            BY <1>3, <2>1, <3>2
        <4> QED BY <1>5, <2>2, <4>1 DEF Quiet, InEvts
    <3> QED BY <3>1, <3>2
  <2>3. \A r \in Prios : ~InHand(r, t)
    BY <1>3 DEF InHand
  <2> QED BY <1>0, <1>4, <1>6, <1>7, <2>2, <2>3 DEF Told, Quiet
<1>8. CASE x # t
  <2>1. \A r \in Prios : InHand(r, x) => InHand(r, x)'
    BY <1>1, <1>5, PrioFacts DEF InHand
  <2> QED BY <1>0, <1>4, <1>5, <1>6, <1>8, <2>1, ToldFrame
<1> QED BY <1>7, <1>8

\* The steps that leave op and evts alone: a handler returns or looks at an
\* event, and only the one that gets a notice ends it.
LEMMA ToldStep ==
    ASSUME SoundInv, NEW p \in Prios, NEW x \in Tasks,
           Finish(p) \/ SwiLeave(p) \/ Handle(p) \/ ReasonTimer(p) \/ ReasonGet(p)
    PROVE  Told(x)'
<1>0. TypeOK /\ CurInv /\ Told(x)
    BY DEF BaseInv, BasePrio, SoundInv, ToldInv
<1>1. UNCHANGED <<evts, op>>
    BY DEF Finish, SwiLeave, Handle, ReasonTimer, ReasonGet
<1>2. \A r \in Prios : InOp(r, x) => InOp(r, x)'
    BY <1>1 DEF InOp
<1>3. CASE ReasonGet(p) /\ x = cur[p]
  <2>1. is_sync_got' = [is_sync_got EXCEPT ![x] = FALSE]
    BY <1>3 DEF ReasonGet
  <2>2. ~is_sync_got'[x]
    BY <1>0, <2>1 DEF TypeOK
  <2> QED BY <2>2 DEF Told
<1>4. CASE ReasonGet(p) /\ x # cur[p]
  <2>1. PICK t \in Tasks : t = cur[p]
    BY <1>0, <1>4, QueueFacts DEF ReasonGet, CurInv
  <2>2. /\ is_sync_got' = [is_sync_got EXCEPT ![t] = FALSE] /\ UNCHANGED cur
        /\ evt' = [evt EXCEPT ![p] = "none"]
    BY <1>4, <2>1 DEF ReasonGet
  <2>3. is_sync_got'[x] => is_sync_got[x]
    BY <1>0, <1>4, <2>1, <2>2 DEF TypeOK
  <2>4. \A r \in Prios : InHand(r, x) => InHand(r, x)'
    BY <1>0, <1>4, <2>2 DEF InHand, TypeOK
  <2> QED BY <1>0, <1>1, <1>2, <2>3, <2>4, ToldFrame
<1>5. CASE Finish(p) \/ SwiLeave(p) \/ Handle(p) \/ ReasonTimer(p)
  <2>1. UNCHANGED is_sync_got
    BY <1>5 DEF Finish, SwiLeave, Handle, ReasonTimer, waitVars
  <2>2. /\ evt[p] \in {"none", "USER", "TIMER"} \/ UNCHANGED <<cur, evt>>
        /\ cur' = [cur EXCEPT ![p] = NoTask] \/ cur' = cur
        /\ evt' = [evt EXCEPT ![p] = "none"] \/ evt' = evt
    BY <1>5 DEF Finish, SwiLeave, Handle, ReasonTimer
  <2>3. \A r \in Prios : InHand(r, x) => InHand(r, x)'
    BY <1>0, <2>2 DEF InHand, TypeOK, Notices
  <2> QED BY <1>0, <1>1, <1>2, <2>1, <2>3, ToldFrame
<1> QED BY <1>3, <1>4, <1>5

LEMMA ToldInterrupt ==
    ASSUME SoundInv, NEW t \in Tasks, Wake(t) \/ Expire(t), NEW x \in Tasks
    PROVE  Told(x)'
<1>0. TypeOK /\ Told(x)
    BY DEF BaseInv, BasePrio, SoundInv, ToldInv
<1>1. /\ UNCHANGED <<is_sync_got, op, cur, evt>>
      /\ Post(t, "USER") \/ Post(t, "TIMER") \/ UNCHANGED <<evts, rdy_list>>
    BY DEF Wake, Expire, waitVars, pollVars
<1>2. \A r \in Prios : (InOp(r, x) => InOp(r, x)') /\ (InHand(r, x) => InHand(r, x)')
    BY <1>1 DEF InOp, InHand
<1>3. CASE evts'[x] = evts[x]
    BY <1>0, <1>1, <1>2, <1>3, ToldFrame
<1>4. CASE evts'[x] # evts[x]
  <2>1. PICK e \in Events : Post(t, e)
    BY <1>1, <1>4 DEF Events
  <2>2. evts'[x] = Append(evts[x], e)
    BY <1>0, <1>4, <2>1 DEF Post, TypeOK
  <2> QED BY <1>0, <1>1, <1>2, <2>2, ToldAppend
<1> QED BY <1>3, <1>4

LEMMA ToldPostEvent ==
    ASSUME SoundInv, NEW p \in Prios, PostEvent(p), NEW x \in Tasks PROVE Told(x)'
<1>0. TypeOK /\ CurInv /\ Told(x)
    BY DEF BaseInv, BasePrio, SoundInv, ToldInv
<1>1. op[p].kind \in Notices
    BY <1>0, QueueFacts DEF PostEvent, Events, Kinds, Notices
<1>2. PICK t \in Tasks, e \in Events : t = op[p].to /\ e = op[p].kind
    BY <1>0, <1>1 DEF CurInv, PostEvent
<1>3. /\ UNCHANGED <<cur, evt, is_sync_got>> /\ evts' = [evts EXCEPT ![t] = Append(@, e)]
    BY <1>2 DEF PostEvent, Post, waitVars, pollVars
<1>4. \A r \in Prios : r # p => op'[r] = op[r]
    BY <1>0 DEF PostEvent, TypeOK
<1>5. \A r \in Prios : InHand(r, x) => InHand(r, x)'
    BY <1>3 DEF InHand
<1>6. CASE x = t
  <2>1. evts'[x] = Append(evts[x], e)
    BY <1>0, <1>3, <1>6 DEF TypeOK
  <2> QED BY <1>0, <1>1, <1>2, <1>3, <1>5, <2>1, ToldAppend
<1>7. CASE x # t
  <2>1. evts'[x] = evts[x]
    BY <1>0, <1>3, <1>7 DEF TypeOK
  <2>2. \A r \in Prios : InOp(r, x) => InOp(r, x)'
    BY <1>2, <1>4, <1>7 DEF InOp
  <2> QED BY <1>0, <1>3, <1>5, <2>1, <2>2, ToldFrame
<1> QED BY <1>6, <1>7

\* vsf_eda_mutex_leave and vsf_eda_sync_cancel take the first waiter out.
LEMMA ToldTaken ==
    ASSUME SoundInv, NEW p \in Prios, Leave(p) \/ CancelNext(p), op[p].kind \notin Notices,
           NEW x \in Tasks
    PROVE  Told(x)'
<1>0. TypeOK /\ Told(x)
    BY DEF BaseInv, BasePrio, SoundInv, ToldInv
<1>1. UNCHANGED <<cur, evt, evts>> /\ op' = [op EXCEPT ![p] = op'[p]]
    BY <1>0 DEF Leave, CancelNext, pollVars, TypeOK
<1>2. \A r \in Prios : r # p => op'[r] = op[r]
    BY <1>0, <1>1 DEF TypeOK
<1>3. \A r \in Prios : (InOp(r, x) => InOp(r, x)') /\ (InHand(r, x) => InHand(r, x)')
    BY <1>1, <1>2 DEF InOp, InHand
<1>4. CASE pending = <<>>
  <2>1. UNCHANGED is_sync_got
    BY <1>4 DEF Leave, CancelNext
  <2> QED BY <1>0, <1>1, <1>3, <2>1, ToldFrame
<1>5. CASE pending # <<>>
  <2>1. PICK h \in Tasks : h = Head(pending)
    BY <1>0, <1>5, TailFacts DEF TypeOK
  <2>2. /\ is_sync_got' = [is_sync_got EXCEPT ![h] = TRUE]
        /\ \E k \in Notices : op' = [op EXCEPT ![p] = [kind |-> k, to |-> h]]
    BY <1>5, <2>1 DEF Leave, CancelNext, Notices
  <2>3. CASE x = h
    <3>1. InOp(p, x)'
        BY <1>0, <2>2, <2>3 DEF InOp, TypeOK
    <3> QED BY <3>1 DEF Told, Quiet
  <2>4. CASE x # h
    <3>1. is_sync_got'[x] = is_sync_got[x]
        BY <1>0, <2>2, <2>4 DEF TypeOK
    <3> QED BY <1>0, <1>1, <1>3, <3>1, ToldFrame
  <2> QED BY <2>3, <2>4
<1> QED BY <1>4, <1>5

\* The steps in which nobody is told anything.
LEMMA ToldOther ==
    ASSUME SoundInv, NEW x \in Tasks, UNCHANGED <<cur, evt, evts, is_sync_got, op>>
    PROVE  Told(x)'
<1>1. \A r \in Prios : (InOp(r, x) => InOp(r, x)') /\ (InHand(r, x) => InHand(r, x)')
    BY DEF InOp, InHand
<1> QED BY <1>1, ToldFrame DEF SoundInv, ToldInv

LEMMA SoundNext ==
    ASSUME SoundInv, [Next]_vars PROVE SoundInv'
<1>0. BasePrio' /\ BasePrio
    BY BaseNext DEF SoundInv
<1>1. ASSUME NEW p \in Prios, Use(p) PROVE PendInv' /\ NoticeInv'
  <2>1. CASE Cancel(p)
    <3>1. CancelNext(p) /\ op[p] = NoOp
        BY <2>1 DEF Cancel, AtWork
    <3>2. op[p].kind \notin Notices
        BY <3>1 DEF NoOp, Notices
    <3> QED BY <3>1, <3>2, SoundCancelNext
  <2> QED BY <1>1, <2>1, SoundEnter, SoundLeave, SoundEnterPend DEF Use
<1>2. ASSUME NEW p \in Prios, Step(p) PROVE PendInv' /\ NoticeInv'
  <2>1. CASE CancelLoop(p)
    <3>1. CancelNext(p) /\ op[p].kind \notin Notices
        BY <2>1 DEF CancelLoop, Notices
    <3> QED BY <3>1, SoundCancelNext
  <2> QED BY <1>2, <2>1, SoundDispatch, SoundQuietStep, SoundReasonTimer, SoundReasonGet,
             SoundPostEvent DEF Step
<1>3. ASSUME NEW t \in Tasks, Wake(t) \/ Expire(t) PROVE PendInv' /\ NoticeInv'
    BY <1>3, SoundInterrupt
<1>4. PendInv' /\ NoticeInv'
    BY <1>1, <1>2, <1>3, SoundStutter DEF Next
<1>5. ASSUME NEW x \in Tasks PROVE Told(x)'
  <2>1. ASSUME NEW p \in Prios, Leave(p) \/ Cancel(p) \/ CancelLoop(p) PROVE Told(x)'
    <3>1. /\ Leave(p) \/ CancelNext(p)
          /\ op[p] = NoOp \/ op[p].kind = "cancelloop"
        BY <2>1 DEF Leave, Cancel, CancelLoop, AtWork
    <3>2. op[p].kind \notin Notices
        BY <3>1 DEF NoOp, Notices
    <3> QED BY <3>1, <3>2, ToldTaken
  <2>2. ASSUME NEW p \in Prios, NEW timeout \in {"timed", "forever"},
               Enter(p) \/ EnterPend(p, timeout)
        PROVE  Told(x)'
    <3>1. UNCHANGED <<cur, evt, evts, is_sync_got, op>>
        BY <2>2 DEF Enter, EnterPend, pollVars, waitVars
    <3> QED BY <3>1, ToldOther
  <2>3. ASSUME NEW p \in Prios, Use(p) PROVE Told(x)'
    BY <2>1, <2>2, <2>3 DEF Use
  <2>4. ASSUME NEW p \in Prios, Step(p) PROVE Told(x)'
    BY <2>1, <2>4, ToldDispatch, ToldStep, ToldPostEvent DEF Step
  <2>5. ASSUME UNCHANGED vars PROVE Told(x)'
    BY <2>5, ToldOther DEF vars
  <2> QED BY <2>3, <2>4, <2>5, ToldInterrupt DEF Next
<1> QED BY <1>0, <1>4, <1>5 DEF SoundInv, ToldInv

LEMMA SoundInit ==
    ASSUME Init PROVE SoundInv
<1>1. /\ eda_owner = NoTask /\ pending = <<>> /\ cur = [p \in Prios |-> NoTask]
      /\ evts = [t \in Tasks |-> <<>>] /\ op = [p \in Prios |-> NoOp] /\ holds = {}
    BY DEF Init
<1>2. \A t \in Tasks : ~is_sync_got[t]
    BY DEF Init
<1>3. OwnerIsInside
    BY <1>1 DEF OwnerIsInside
<1>4. PendInv
    BY <1>1, <1>2, <1>3 DEF PendInv, ToSet, NoTwice
<1>5. ASSUME NEW t \in Tasks PROVE NoticeOf(t)
  <2>1. Quiet(t)
    BY <1>1, PrioFacts DEF Quiet, InOp, InHand, NoOp, Notices
  <2> QED BY <2>1, QuietFacts
<1> QED BY <1>2, <1>4, <1>5, BaseInit DEF NoticeInv, SoundInv, ToldInv, Told

\* MutexIsSound.  At most one task is in the mutex and it is eda_owner; an owner
\* that is not in it yet has its VSF_EVT_SYNC under way, whatever timeouts,
\* cancels and other events come between vsf_eda_mutex_leave and its wake up.
THEOREM MutexCorrect == Spec => []MutexIsSound
<1>1. ASSUME SoundInv PROVE MutexIsSound
  <2>1. TypeOK /\ OwnerIsInside /\ NoticeInv /\ ToldInv
    BY <1>1 DEF SoundInv, BasePrio, BaseInv, PendInv
  <2>2. ASSUME eda_owner \notin holds \cup {NoTask} PROVE SyncUnderWay(eda_owner)
    <3>1. PICK o \in Tasks : o = eda_owner
        BY <2>1, <2>2 DEF TypeOK
    <3>2. is_sync_got[o]
        BY <2>1, <2>2, <3>1, InsideFacts
    <3> SUFFICES SyncUnderWay(o)
        BY <3>1
    <3>3. ~Quiet(o) /\ NoticeOf(o)
        BY <2>1, <3>2 DEF ToldInv, Told, NoticeInv
    <3>4. \A e : IsFor(e, o) => e = "SYNC"
        BY <3>1 DEF IsFor
    <3>5. CASE \E p \in Prios : InOp(p, o)
        BY <3>3, <3>4, <3>5 DEF NoticeOf, InOp, SyncUnderWay
    <3>6. CASE \E p \in Prios : InHand(p, o)
        BY <3>3, <3>4, <3>6 DEF NoticeOf, InHand, SyncUnderWay
    <3>7. CASE \E i \in DOMAIN evts[o] : InEvts(o, i)
        BY <3>3, <3>4, <3>7 DEF NoticeOf, SyncUnderWay
    <3> QED BY <3>3, <3>5, <3>6, <3>7 DEF Quiet
  <2> QED BY <2>1, <2>2 DEF MutexIsSound
<1> QED BY <1>1, SoundInit, SoundNext, PTL DEF Spec

-----------------------------------------------------------------------------
(* The order of the active queues and of the waiters *)

\* A queue preempts only those of lower priority; those it has preempted since
\* are below it still, but for the one that dispatches the owner.
StackInv ==
    /\ \A i, j \in DOMAIN stack : i < j => stack[i] > stack[j]
    /\ \A i, j \in DOMAIN stack :
          i < j /\ (cur[stack[j]] = NoTask \/ cur[stack[j]] # eda_owner)
              => stack[i] > level[stack[j]]

\* Nobody but a task of D is behind a less urgent one in s.
Ordered(s, D) ==
    \A i, j \in DOMAIN s : i < j /\ s[j] \notin D => Prio[s[i]] >= Prio[s[j]]

OrderInv ==
    /\ \A t \in ToSet(pending) : t \notin indebted => new_priority[t] = 0
    /\ Ordered(pending, indebted)

UrgentInv == SoundInv /\ StackInv /\ OrderInv

LEMMA OrderedTail ==
    ASSUME NEW s \in Seq(Tasks), s # <<>>, NEW D, Ordered(s, D)
    PROVE  Ordered(Tail(s), D)
<1>1. \A i \in DOMAIN Tail(s) : i + 1 \in DOMAIN s /\ Tail(s)[i] = s[i + 1] /\ i \in Int
    OBVIOUS
<1> SUFFICES ASSUME NEW i \in DOMAIN Tail(s), NEW j \in DOMAIN Tail(s), i < j,
                    Tail(s)[j] \notin D
             PROVE  Prio[Tail(s)[i]] >= Prio[Tail(s)[j]]
    BY DEF Ordered
<1>2. i + 1 < j + 1
    BY <1>1
<1> QED BY <1>1, <1>2 DEF Ordered

LEMMA OrderedRemove ==
    ASSUME NEW s \in Seq(Tasks), NEW k \in DOMAIN s, NEW D, Ordered(s, D)
    PROVE  Ordered(RemoveAt(s, k), D)
<1>1. /\ RemoveAt(s, k) \in Seq(Tasks) /\ Len(RemoveAt(s, k)) = Len(s) - 1
      /\ \A j \in 1 .. Len(s) - 1 : RemoveAt(s, k)[j] = IF j < k THEN s[j] ELSE s[j + 1]
    BY RemoveAtPlaces
<1>2. PICK r \in Seq(Tasks) : r = RemoveAt(s, k)
    BY <1>1
<1>3. /\ DOMAIN r = 1 .. Len(s) - 1 /\ DOMAIN s = 1 .. Len(s) /\ Len(s) \in Nat /\ k \in Int
      /\ \A j \in 1 .. Len(s) - 1 : r[j] = IF j < k THEN s[j] ELSE s[j + 1]
    BY <1>1, <1>2
<1>4. ASSUME NEW i \in DOMAIN r, NEW j \in DOMAIN r, i < j, r[j] \notin D
      PROVE  Prio[r[i]] >= Prio[r[j]]
  <2>1. PICK m \in DOMAIN s : r[i] = s[m] /\ m = IF i < k THEN i ELSE i + 1
    BY <1>3
  <2>2. PICK n \in DOMAIN s : r[j] = s[n] /\ n = IF j < k THEN j ELSE j + 1
    BY <1>3
  <2>3. m < n
    BY <1>3, <1>4, <2>1, <2>2
  <2> QED BY <1>4, <2>1, <2>2, <2>3 DEF Ordered
<1> QED BY <1>2, <1>4 DEF Ordered

\* t goes behind those that are as urgent and before a less urgent one.
LEMMA OrderedInsert ==
    ASSUME NEW s \in Seq(Tasks), NEW n \in 1 .. Len(s) + 1, NEW t \in Tasks, NEW D,
           Ordered(s, D), \A x \in Tasks : Prio[x] \in Int,
           t \notin D => \A i \in 1 .. n - 1 : Prio[s[i]] >= Prio[t],
           n <= Len(s) => Prio[t] >= Prio[s[n]]
    PROVE  Ordered(InsertAt(s, n, t), D)
<1>1. /\ InsertAt(s, n, t) \in Seq(Tasks) /\ Len(InsertAt(s, n, t)) = Len(s) + 1
      /\ \A j \in 1 .. Len(s) + 1 :
            InsertAt(s, n, t)[j] = IF j < n THEN s[j] ELSE IF j = n THEN t ELSE s[j - 1]
    BY InsertAtPlaces
<1>2. PICK r \in Seq(Tasks) : r = InsertAt(s, n, t)
    BY <1>1
<1>3. /\ DOMAIN r = 1 .. Len(s) + 1 /\ DOMAIN s = 1 .. Len(s) /\ Len(s) \in Nat /\ n \in Int
      /\ \A j \in 1 .. Len(s) + 1 :
            r[j] = IF j < n THEN s[j] ELSE IF j = n THEN t ELSE s[j - 1]
    BY <1>1, <1>2
<1>4. ASSUME NEW i \in DOMAIN r, NEW j \in DOMAIN r, i < j, r[j] \notin D
      PROVE  Prio[r[i]] >= Prio[r[j]]
  <2>1. CASE j = n
    <3>1. r[j] = t /\ i \in 1 .. n - 1 /\ r[i] = s[i]
        BY <1>3, <1>4, <2>1
    <3> QED BY <1>4, <3>1
  <2>2. CASE i = n
    <3>1. r[i] = t /\ r[j] = s[j - 1] /\ j - 1 \in DOMAIN s /\ n <= j - 1 /\ n \in DOMAIN s
        BY <1>3, <1>4, <2>2
    <3>2. Prio[t] >= Prio[s[n]]
        BY <1>3, <3>1
    <3>3. CASE j - 1 = n
        BY <3>1, <3>2, <3>3
    <3>4. CASE n < j - 1
        <4>1. Prio[s[n]] >= Prio[s[j - 1]]
            BY <1>4, <3>1, <3>4 DEF Ordered
        <4>2. Prio[t] \in Int /\ Prio[s[n]] \in Int /\ Prio[s[j - 1]] \in Int
            BY <3>1
        <4> QED BY <3>1, <3>2, <4>1, <4>2
    <3> QED BY <1>3, <3>1, <3>3, <3>4
  <2>3. CASE i # n /\ j # n
    <3>1. PICK k \in DOMAIN s : r[i] = s[k] /\ k = IF i < n THEN i ELSE i - 1
        BY <1>3, <2>3
    <3>2. PICK m \in DOMAIN s : r[j] = s[m] /\ m = IF j < n THEN j ELSE j - 1
        BY <1>3, <2>3
    <3>3. k < m
        BY <1>3, <1>4, <2>3, <3>1, <3>2
    <3> QED BY <1>4, <3>1, <3>2, <3>3 DEF Ordered
  <2> QED BY <2>1, <2>2, <2>3
<1> QED BY <1>2, <1>4 DEF Ordered

\* The running queue is above every other active one.
LEMMA TopFacts ==
    ASSUME TypeOK, StackInv, NEW p \in Prios, stack # <<>>, Head(stack) = p
    PROVE  /\ \A q \in ToSet(stack) : q \in Prios /\ q <= p /\ (q # p => q < p)
           /\ \A q \in ToSet(stack) : q # p =>
                 \E j \in DOMAIN stack : j # 1 /\ stack[j] = q
           /\ stack[1] = p /\ 1 \in DOMAIN stack
           /\ \A j \in DOMAIN stack : j # 1 => 1 < j /\ stack[j] < p /\ stack[j] # p
<1>1. stack \in Seq(Prios) /\ stack[1] = p /\ 1 \in DOMAIN stack
    BY DEF TypeOK
<1>2. \A j \in DOMAIN stack : stack[j] \in Prios /\ j \in Int /\ (j # 1 => 1 < j)
    BY <1>1
<1>3. \A j \in DOMAIN stack : j # 1 => stack[j] < p
    BY <1>1, <1>2, PrioFacts DEF StackInv
<1>4. \A q \in ToSet(stack) : \E j \in DOMAIN stack : stack[j] = q
    BY DEF ToSet
<1>5. ASSUME NEW q \in ToSet(stack) PROVE q \in Prios /\ q <= p /\ (q # p => q < p)
  <2>1. PICK j \in DOMAIN stack : stack[j] = q
    BY <1>4
  <2>2. q \in Prios /\ q \in Int /\ p \in Int
    BY <1>2, <2>1, PrioFacts
  <2>3. j # 1 => q < p
    BY <1>3, <2>1
  <2>4. j = 1 => q = p
    BY <1>1, <2>1
  <2> QED BY <2>2, <2>3, <2>4
<1>6. \A j \in DOMAIN stack : j # 1 => stack[j] # p
    BY <1>2, <1>3, PrioFacts
<1> QED BY <1>1, <1>2, <1>3, <1>4, <1>5, <1>6

\* Nothing that the order of the active queues is about has changed.
LEMMA StackFrame ==
    ASSUME TypeOK, StackInv, UNCHANGED stack,
           \A j \in DOMAIN stack : j # 1 =>
              \/ level'[stack[j]] = level[stack[j]]
              \/ cur'[stack[j]] # NoTask /\ cur'[stack[j]] = eda_owner',
           \A j \in DOMAIN stack : j # 1 =>
              \/ cur[stack[j]] = NoTask \/ cur[stack[j]] # eda_owner
              \/ cur'[stack[j]] # NoTask /\ cur'[stack[j]] = eda_owner'
    PROVE  StackInv'
<1>1. stack \in Seq(Prios) /\ \A j \in DOMAIN stack : j \in Int /\ j >= 1
    BY DEF TypeOK
<1>2. ASSUME NEW i \in DOMAIN stack, NEW j \in DOMAIN stack, i < j,
             cur'[stack[j]] = NoTask \/ cur'[stack[j]] # eda_owner'
      PROVE  stack[i] > level'[stack[j]]
  <2>1. j # 1
    BY <1>1, <1>2
  <2>2. /\ level'[stack[j]] = level[stack[j]]
        /\ cur[stack[j]] = NoTask \/ cur[stack[j]] # eda_owner
    BY <1>2, <2>1
  <2> QED BY <1>2, <2>2 DEF StackInv
<1> QED BY <1>2 DEF StackInv

LEMMA StackDispatch ==
    ASSUME SoundInv, StackInv, NEW p \in Prios, Dispatch(p) PROVE StackInv'
<1>0. TypeOK /\ CurInv /\ PrioInv
    BY DEF BaseInv, BasePrio, SoundInv
<1>1. /\ UNCHANGED <<level, eda_owner>> /\ cur[p] = NoTask
      /\ \A r \in Prios : r # p => cur'[r] = cur[r]
    BY <1>0 DEF Dispatch, prioVars, Preempts, CurInv, TypeOK
<1>2. CASE Running(p) /\ UNCHANGED stack
  <2>1. \A j \in DOMAIN stack : j # 1 => stack[j] # p /\ stack[j] \in Prios
    <3>1. stack # <<>> /\ Head(stack) = p /\ \A j \in DOMAIN stack : stack[j] \in Prios
        BY <1>0, <1>2, RunningFacts DEF TypeOK
    <3> QED BY <1>0, <3>1, TopFacts
  <2>2. \A j \in DOMAIN stack : j # 1 => cur'[stack[j]] = cur[stack[j]]
    BY <1>1, <2>1
  <2> QED BY <1>0, <1>1, <1>2, <2>2, StackFrame
<1>3. CASE Preempts(p) /\ stack' = <<p>> \o stack
  <2>1. /\ stack \in Seq(Prios) /\ Len(stack) \in Nat /\ DOMAIN stack = 1 .. Len(stack)
        /\ stack' \in Seq(Prios) /\ Len(stack') = Len(stack) + 1 /\ stack'[1] = p
        /\ \A i \in 1 .. Len(stack) : stack'[i + 1] = stack[i]
    <3>1. stack \in Seq(Prios)
        BY <1>0 DEF TypeOK
    <3>2. /\ <<p>> \o stack \in Seq(Prios) /\ Len(<<p>> \o stack) = Len(stack) + 1
          /\ (<<p>> \o stack)[1] = p
          /\ \A i \in 1 .. Len(stack) : (<<p>> \o stack)[i + 1] = stack[i]
        BY <3>1, ConsFacts
    <3> QED BY <1>3, <3>1, <3>2
  <2>2. DOMAIN stack' = 1 .. Len(stack) + 1
    BY <2>1
  <2>3. \A j \in DOMAIN stack' : j # 1 => /\ j - 1 \in DOMAIN stack
                                          /\ stack'[j] = stack[j - 1]
    BY <2>1, <2>2
  <2>4. level[p] = p
    BY <1>0, <1>1 DEF PrioInv
  <2>5. \A k \in DOMAIN stack : /\ p > level[stack[k]] /\ p > stack[k]
                                /\ stack[k] # p /\ stack[k] \in Prios
    <3> SUFFICES ASSUME NEW k \in DOMAIN stack
                 PROVE  /\ p > level[stack[k]] /\ p > stack[k]
                        /\ stack[k] # p /\ stack[k] \in Prios
        OBVIOUS
    <3>1. stack[k] \in ToSet(stack) /\ stack[k] \in Prios
        BY <2>1 DEF ToSet
    <3>2. p > level[stack[k]] /\ level[stack[k]] >= stack[k]
        BY <1>0, <1>3, <2>4, <3>1 DEF Preempts, PrioInv
    <3>3. level[stack[k]] \in Int /\ stack[k] \in Int /\ p \in Int
        BY <1>0, <3>1, QueueFacts
    <3> QED BY <3>1, <3>2, <3>3
  <2>6. \A k \in DOMAIN stack : cur'[stack[k]] = cur[stack[k]]
    BY <1>1, <2>5
  <2>7. ASSUME NEW i \in DOMAIN stack', NEW j \in DOMAIN stack', i < j
        PROVE  /\ stack'[i] > stack'[j]
               /\ cur'[stack'[j]] = NoTask \/ cur'[stack'[j]] # eda_owner'
                     => stack'[i] > level'[stack'[j]]
    <3>1. j # 1 /\ j - 1 \in DOMAIN stack /\ stack'[j] = stack[j - 1]
        BY <2>1, <2>2, <2>3, <2>7
    <3>2. CASE i = 1
        BY <1>1, <2>1, <2>5, <3>1, <3>2
    <3>3. CASE i # 1
        <4>1. i - 1 \in DOMAIN stack /\ stack'[i] = stack[i - 1] /\ i - 1 < j - 1
            BY <2>1, <2>2, <2>3, <2>7, <3>3
        <4> QED BY <1>1, <2>6, <3>1, <4>1 DEF StackInv
    <3> QED BY <3>2, <3>3
  <2> QED BY <2>7 DEF StackInv
<1> QED BY <1>2, <1>3 DEF Dispatch

LEMMA StackFinish ==
    ASSUME SoundInv, StackInv, NEW p \in Prios, Finish(p) PROVE StackInv'
<1>0. TypeOK
    BY DEF BaseInv, BasePrio, SoundInv
<1>1. UNCHANGED <<stack, eda_owner>> /\ stack # <<>> /\ Head(stack) = p
    BY DEF Finish, Running
<1>2. \A r \in Prios : r # p => cur'[r] = cur[r] /\ level'[r] = level[r]
    BY <1>0 DEF Finish, TypeOK
<1>3. \A j \in DOMAIN stack : j # 1 => stack[j] # p /\ stack[j] \in Prios
    BY <1>0, <1>1, TopFacts DEF TypeOK
<1> QED BY <1>0, <1>1, <1>2, <1>3, StackFrame

LEMMA StackSwiLeave ==
    ASSUME SoundInv, StackInv, NEW p \in Prios, SwiLeave(p) PROVE StackInv'
<1>1. /\ UNCHANGED <<cur, level, eda_owner>> /\ stack' = Tail(stack) /\ stack # <<>>
      /\ stack \in Seq(Prios)
    BY DEF SwiLeave, Running, prioVars, BaseInv, BasePrio, SoundInv, TypeOK
<1>2. \A i \in DOMAIN stack' : i + 1 \in DOMAIN stack /\ stack'[i] = stack[i + 1] /\ i \in Int
    BY <1>1
<1>3. ASSUME NEW i \in DOMAIN stack', NEW j \in DOMAIN stack', i < j
      PROVE  /\ stack'[i] > stack'[j]
             /\ cur'[stack'[j]] = NoTask \/ cur'[stack'[j]] # eda_owner'
                   => stack'[i] > level'[stack'[j]]
  <2>1. i + 1 < j + 1
    BY <1>2, <1>3
  <2> QED BY <1>1, <1>2, <2>1 DEF StackInv
<1> QED BY <1>3 DEF StackInv

\* The owner leaves: it is the one that runs.
LEMMA StackLeave ==
    ASSUME SoundInv, StackInv, NEW p \in Prios, Leave(p) PROVE StackInv'
<1>0. TypeOK /\ CurInv /\ PrioInv /\ BaseInv
    BY DEF BaseInv, BasePrio, SoundInv
<1>1. PICK t \in Tasks : t = cur[p] /\ In(t) /\ t = eda_owner /\ cur_priority[t] = p
    BY <1>0, AtWorkFacts DEF Leave
<1>2. UNCHANGED <<stack, cur>> /\ stack # <<>> /\ Head(stack) = p /\ GiveBack(t)
    BY <1>1 DEF Leave, AtWork, Running, pollVars
<1>3. \A r \in Prios : r # p => level'[r] = level[r]
    BY <1>0, <1>1, <1>2, PrioGiveBack
<1>4. \A j \in DOMAIN stack : j # 1 => stack[j] # p /\ stack[j] \in Prios
    BY <1>0, <1>2, TopFacts DEF TypeOK
<1>5. \A j \in DOMAIN stack : j # 1 =>
         cur[stack[j]] = NoTask \/ cur[stack[j]] # eda_owner
    BY <1>0, <1>1, <1>4, DispatchedIn
<1> QED BY <1>0, <1>2, <1>3, <1>4, <1>5, StackFrame

\* The loan raises no queue but the one that dispatches the owner.
LEMMA StackEnterPend ==
    ASSUME SoundInv, StackInv, NEW p \in Prios, NEW timeout \in {"timed", "forever"},
           EnterPend(p, timeout)
    PROVE  StackInv'
<1>0. TypeOK /\ CurInv /\ PrioInv /\ BaseInv
    BY DEF BaseInv, BasePrio, SoundInv
<1>1. PICK t \in Tasks : t = cur[p] /\ cur_priority[t] = p
    BY <1>0, AtWorkFacts DEF EnterPend
<1>2. PICK o \in Tasks : o = eda_owner
    BY <1>0 DEF EnterPend, TypeOK
<1>3. UNCHANGED <<stack, cur, evts, eda_owner>>
    BY DEF EnterPend, pollVars
<1>4. \A r \in Prios : level'[r] = level[r] \/ (In(o) /\ r = cur_priority[o])
  <2>1. CASE cur_priority[t] > cur_priority[o]
    <3>1. SetPriority(o, p)
        BY <1>1, <1>2, <2>1 DEF EnterPend
    <3>2. /\ In(o) => level' = [level EXCEPT ![cur_priority[o]] = p]
          /\ ~In(o) => level' = level
        BY <1>0, <1>1, <1>2, <1>3, <2>1, <3>1, PrioLend
    <3> QED BY <1>0, <3>2 DEF TypeOK
  <2>2. CASE ~(cur_priority[t] > cur_priority[o])
    BY <1>1, <1>2, <2>2 DEF EnterPend, prioVars
  <2> QED BY <2>1, <2>2
<1>5. \A j \in DOMAIN stack : stack[j] \in Prios
    BY <1>0 DEF TypeOK
<1>6. \A j \in DOMAIN stack : j # 1 =>
         \/ level'[stack[j]] = level[stack[j]]
         \/ cur'[stack[j]] # NoTask /\ cur'[stack[j]] = eda_owner'
    BY <1>2, <1>3, <1>4, <1>5, PrioFacts DEF In
<1>7. \A j \in DOMAIN stack : j # 1 =>
         \/ cur[stack[j]] = NoTask \/ cur[stack[j]] # eda_owner
         \/ cur'[stack[j]] # NoTask /\ cur'[stack[j]] = eda_owner'
    BY <1>3
<1> QED BY <1>0, <1>3, <1>6, <1>7, StackFrame

\* The mutex was free: nobody was raised.
LEMMA StackEnter ==
    ASSUME SoundInv, StackInv, NEW p \in Prios, Enter(p) PROVE StackInv'
<1>1. UNCHANGED <<stack, cur, level>> /\ eda_owner = NoTask /\ TypeOK
    BY DEF Enter, pollVars, prioVars, SoundInv, BasePrio, BaseInv
<1> QED BY <1>1, StackFrame

LEMMA StackOther ==
    ASSUME StackInv, UNCHANGED <<stack, cur, level, eda_owner>> PROVE StackInv'
BY DEF StackInv

LEMMA StackNext ==
    ASSUME SoundInv, StackInv, [Next]_vars PROVE StackInv'
<1>1. ASSUME NEW p \in Prios, Cancel(p) \/ CancelLoop(p) \/ Handle(p) \/ ReasonTimer(p)
                              \/ ReasonGet(p) \/ PostEvent(p)
      PROVE  StackInv'
  <2>1. UNCHANGED <<stack, cur, level, eda_owner>>
    BY <1>1 DEF Cancel, CancelLoop, CancelNext, Handle, ReasonTimer, ReasonGet, PostEvent,
                prioVars, pollVars
  <2> QED BY <2>1, StackOther
<1>2. ASSUME NEW p \in Prios, Use(p) \/ Step(p) PROVE StackInv'
    BY <1>1, <1>2, StackEnter, StackLeave, StackEnterPend, StackDispatch, StackFinish,
       StackSwiLeave DEF Use, Step
<1>3. ASSUME NEW t \in Tasks, Wake(t) \/ Expire(t) PROVE StackInv'
  <2>1. UNCHANGED <<stack, cur, level, eda_owner>>
    BY <1>3 DEF Wake, Expire, prioVars, pollVars
  <2> QED BY <2>1, StackOther
<1>4. ASSUME UNCHANGED vars PROVE StackInv'
    BY <1>4, StackOther DEF vars
<1> QED BY <1>2, <1>3, <1>4 DEF Next

\* A step that adds no waiter and gives none a new priority.
LEMMA OrderFrame ==
    ASSUME TypeOK, OrderInv, UNCHANGED indebted,
           \/ UNCHANGED pending
           \/ pending # <<>> /\ pending' = Tail(pending)
           \/ \E i \in DOMAIN pending : pending' = RemoveAt(pending, i),
           \A t \in ToSet(pending) : new_priority[t] = 0 => new_priority'[t] = 0
    PROVE  OrderInv'
<1>1. pending \in Seq(Tasks) /\ Ordered(pending, indebted)
    BY DEF TypeOK, OrderInv
<1>2. Ordered(pending', indebted) /\ ToSet(pending') \subseteq ToSet(pending)
  <2>1. CASE UNCHANGED pending
    BY <1>1, <2>1
  <2>2. CASE pending # <<>> /\ pending' = Tail(pending)
    <3>1. Ordered(Tail(pending), indebted) /\ ToSet(Tail(pending)) \subseteq ToSet(pending)
        BY <1>1, <2>2, OrderedTail, TailFacts
    <3> QED BY <2>2, <3>1
  <2>3. ASSUME NEW i \in DOMAIN pending, pending' = RemoveAt(pending, i)
        PROVE  Ordered(pending', indebted) /\ ToSet(pending') \subseteq ToSet(pending)
    <3>1. Ordered(RemoveAt(pending, i), indebted)
        BY <1>1, OrderedRemove
    <3>2. \A j \in DOMAIN RemoveAt(pending, i) : RemoveAt(pending, i)[j] \in ToSet(pending)
        <4>1. /\ RemoveAt(pending, i) \in Seq(Tasks)
              /\ Len(RemoveAt(pending, i)) = Len(pending) - 1
              /\ \A j \in 1 .. Len(pending) - 1 :
                    RemoveAt(pending, i)[j] = IF j < i THEN pending[j] ELSE pending[j + 1]
            BY <1>1, RemoveAtPlaces
        <4>2. /\ DOMAIN RemoveAt(pending, i) = 1 .. Len(pending) - 1
              /\ DOMAIN pending = 1 .. Len(pending) /\ Len(pending) \in Nat
            BY <1>1, <4>1
        <4>3. \A j \in 1 .. Len(pending) : pending[j] \in ToSet(pending)
            BY <4>2 DEF ToSet
        <4>4. \A j \in 1 .. Len(pending) - 1 : j \in 1 .. Len(pending) /\ j + 1 \in 1 .. Len(pending)
            BY <4>2
        <4> QED BY <4>1, <4>2, <4>3, <4>4
    <3>3. ToSet(RemoveAt(pending, i)) \subseteq ToSet(pending)
        BY <3>2 DEF ToSet
    <3> QED BY <2>3, <3>1, <3>3
  <2> QED BY <2>1, <2>2, <2>3
<1> QED BY <1>2 DEF OrderInv, Ordered

LEMMA OrderEnterPend ==
    ASSUME UrgentInv, NEW p \in Prios, NEW timeout \in {"timed", "forever"},
           EnterPend(p, timeout)
    PROVE  OrderInv'
<1>0. /\ TypeOK /\ CurInv /\ PrioInv /\ PendInv /\ StackInv /\ OrderInv /\ BasePrio
    BY DEF BaseInv, BasePrio, SoundInv, UrgentInv
<1>1. PICK t \in Tasks : t = cur[p] /\ cur_priority[t] = p /\ wait[t] = "no"
    BY <1>0, AtWorkFacts DEF EnterPend
<1>2. PICK o \in Tasks : o = eda_owner /\ o # t
    BY <1>0, <1>1 DEF EnterPend, TypeOK
<1>3. PICK n \in 1 .. Len(pending) + 1 :
         /\ \A i \in 1 .. n - 1 : cur_priority[pending[i]] >= GetCurPriority(t)
         /\ n <= Len(pending) => cur_priority[pending[n]] < GetCurPriority(t)
         /\ pending' = InsertAt(pending, n, t)
    BY <1>1 DEF EnterPend, InsertByPriority
<1>4. /\ indebted' = IF new_priority[t] # 0 THEN indebted \cup {t} ELSE indebted \ {t}
      /\ stack # <<>> /\ Head(stack) = p
    BY <1>1 DEF EnterPend, AtWork, Running
<1>5. /\ pending \in Seq(Tasks) /\ t \notin ToSet(pending) /\ o \notin ToSet(pending)
      /\ \A i \in DOMAIN pending : pending[i] \in ToSet(pending) /\ pending[i] \in Tasks
      /\ DOMAIN pending = 1 .. Len(pending) /\ Len(pending) \in Nat
  <2>1. pending \in Seq(Tasks)
    BY <1>0 DEF TypeOK
  <2>2. /\ DOMAIN pending = 1 .. Len(pending) /\ Len(pending) \in Nat
        /\ \A i \in DOMAIN pending : pending[i] \in Tasks
    BY <2>1
  <2>3. t \notin ToSet(pending) /\ o \notin ToSet(pending)
    BY <1>0, <1>1, <1>2 DEF PendInv
  <2> QED BY <2>1, <2>2, <2>3 DEF ToSet
<1>6. GetCurPriority(t) = Prio[t] /\ \A x \in Tasks : Prio[x] \in Int /\ cur_priority[x] \in Int
    BY <1>0, <1>2, TaskFacts DEF PrioInv
<1>7. Ordered(pending, indebted')
    BY <1>0, <1>4, <1>5 DEF OrderInv, Ordered
<1>8. ASSUME t \notin indebted', NEW i \in 1 .. n - 1 PROVE Prio[pending[i]] >= Prio[t]
  <2>1. PICK x \in Tasks : x = pending[i] /\ x \in ToSet(pending)
    BY <1>5
  <2>2. new_priority[t] = 0 /\ Prio[t] = p
    BY <1>1, <1>4, <1>6, <1>8 DEF GetCurPriority
  <2>3. cur_priority[x] >= p
    BY <1>3, <1>6, <2>1, <2>2
  <2>4. ~In(x)
    <3> SUFFICES ASSUME In(x) PROVE FALSE
        OBVIOUS
    <3>1. PICK q \in Prios : q = cur_priority[x] /\ cur[q] = x
        BY <1>0, TaskFacts DEF In
    <3>2. q \in ToSet(stack) /\ q # p
        BY <1>0, <1>1, <1>5, <2>1, <3>1, PrioFacts DEF CurInv
    <3>3. q < p
        BY <1>0, <1>4, <3>2, TopFacts
    <3> QED BY <2>3, <3>1, <3>3, PrioFacts
  <2>5. new_priority[x] = 0 /\ GetCurPriority(x) = Prio[x]
    BY <1>0, <1>2, <1>5, <2>1, <2>4 DEF PrioInv
  <2> QED BY <2>1, <2>2, <2>3, <2>5 DEF GetCurPriority
<1>9. ASSUME n <= Len(pending) PROVE Prio[t] >= Prio[pending[n]]
  <2>1. PICK x \in Tasks : x = pending[n]
    BY <1>5, <1>9
  <2>2. cur_priority[x] < Prio[t] /\ cur_priority[x] >= Prio[x]
    BY <1>0, <1>3, <1>6, <1>9, <2>1 DEF PrioInv
  <2> QED BY <1>6, <2>1, <2>2
<1>10. /\ Ordered(InsertAt(pending, n, t), indebted')
       /\ ToSet(InsertAt(pending, n, t)) = ToSet(pending) \cup {t}
  <2>1. PICK D : D = indebted'
    OBVIOUS
  <2>2. t \notin D => \A i \in 1 .. n - 1 : Prio[pending[i]] >= Prio[t]
    BY <1>8, <2>1
  <2>3. Ordered(pending, D)
    BY <1>7, <2>1
  <2>4. Ordered(InsertAt(pending, n, t), D)
    BY <1>5, <1>6, <1>9, <2>2, <2>3, OrderedInsert
  <2> QED BY <1>5, <2>1, <2>4, InsertAtFacts
<1>11. \A x \in Tasks : x # o => new_priority'[x] = new_priority[x]
    BY <1>0, <1>1, <1>2, PendFacts
<1>12. \A x \in ToSet(pending) : x \in Tasks /\ x # o /\ x # t
    BY <1>5 DEF ToSet
<1>13. Ordered(pending', indebted') /\ ToSet(pending') = ToSet(pending) \cup {t}
    BY <1>3, <1>10
<1>14. \A x \in ToSet(pending') : x \notin indebted' => new_priority'[x] = 0
    BY <1>0, <1>2, <1>4, <1>11, <1>12, <1>13 DEF OrderInv
<1> QED BY <1>13, <1>14 DEF OrderInv, Ordered

LEMMA OrderLeave ==
    ASSUME UrgentInv, NEW p \in Prios, Leave(p) PROVE OrderInv'
<1>0. /\ TypeOK /\ CurInv /\ PrioInv /\ PendInv /\ OrderInv /\ BaseInv
    BY DEF BaseInv, BasePrio, SoundInv, UrgentInv
<1>1. PICK t \in Tasks : t = cur[p] /\ In(t) /\ t = eda_owner
    BY <1>0, AtWorkFacts DEF Leave
<1>2. UNCHANGED <<cur, indebted>> /\ GiveBack(t)
    BY <1>1 DEF Leave, pollVars
<1>3. \A x \in Tasks : x # t => new_priority'[x] = new_priority[x]
    BY <1>0, <1>1, <1>2, PrioGiveBack
<1>4. \A x \in ToSet(pending) : x \in Tasks /\ x # t
    BY <1>0, <1>1 DEF PendInv, TypeOK, ToSet
<1>5. pending' = pending \/ (pending # <<>> /\ pending' = Tail(pending))
    BY DEF Leave
<1> QED BY <1>0, <1>2, <1>3, <1>4, <1>5, OrderFrame

LEMMA OrderStep ==
    ASSUME UrgentInv, NEW p \in Prios, Step(p) \/ Cancel(p) PROVE OrderInv'
<1>0. /\ TypeOK /\ CurInv /\ OrderInv
    BY DEF BaseInv, BasePrio, SoundInv, UrgentInv
<1>1. UNCHANGED indebted
    BY DEF Step, Dispatch, Handle, ReasonTimer, ReasonGet, CancelLoop, PostEvent, Finish,
           SwiLeave, Cancel, CancelNext, histVars
<1>2. \/ UNCHANGED pending
      \/ pending # <<>> /\ pending' = Tail(pending)
      \/ \E i \in DOMAIN pending : pending' = RemoveAt(pending, i)
    BY DEF Step, Dispatch, Handle, ReasonTimer, ReasonGet, CancelLoop, PostEvent, Finish,
           SwiLeave, Cancel, CancelNext
<1>3. UNCHANGED new_priority \/ \E t \in Tasks : new_priority' = [new_priority EXCEPT ![t] = 0]
  <2>1. CASE Finish(p)
    BY <1>0, <2>1, QueueFacts DEF Finish
  <2>2. CASE ~Finish(p)
    BY <2>2 DEF Step, Dispatch, Handle, ReasonTimer, ReasonGet, CancelLoop, PostEvent,
                SwiLeave, Cancel, CancelNext, prioVars
  <2> QED BY <2>1, <2>2
<1>4. \A t \in ToSet(pending) : t \in Tasks
    BY <1>0 DEF TypeOK, ToSet
<1>5. \A t \in ToSet(pending) : new_priority[t] = 0 => new_priority'[t] = 0
    BY <1>0, <1>3, <1>4 DEF TypeOK
<1> QED BY <1>0, <1>1, <1>2, <1>5, OrderFrame

LEMMA OrderEnter ==
    ASSUME UrgentInv, NEW p \in Prios, Enter(p) PROVE OrderInv'
<1>1. pending' = <<>>
    BY DEF Enter
<1>2. ToSet(pending') = {} /\ DOMAIN pending' = {}
    BY <1>1 DEF ToSet
<1> QED BY <1>2 DEF OrderInv, Ordered

LEMMA UrgentNext ==
    ASSUME UrgentInv, [Next]_vars PROVE UrgentInv'
<1>1. SoundInv' /\ StackInv' /\ TypeOK /\ OrderInv
    BY SoundNext, StackNext DEF UrgentInv, SoundInv, BasePrio, BaseInv
<1>2. ASSUME NEW p \in Prios, Use(p) \/ Step(p) PROVE OrderInv'
    BY <1>2, OrderEnter, OrderEnterPend, OrderLeave, OrderStep DEF Use
<1>3. ASSUME NEW t \in Tasks, Wake(t) \/ Expire(t) PROVE OrderInv'
  <2>1. UNCHANGED <<pending, indebted, new_priority>>
    BY <1>3 DEF Wake, Expire, prioVars, histVars
  <2> QED BY <1>1, <2>1, OrderFrame
<1>4. ASSUME UNCHANGED vars PROVE OrderInv'
  <2>1. UNCHANGED <<pending, indebted, new_priority>>
    BY <1>4 DEF vars
  <2> QED BY <1>1, <2>1, OrderFrame
<1>5. OrderInv'
    BY <1>2, <1>3, <1>4 DEF Next
<1> QED BY <1>1, <1>5 DEF UrgentInv

LEMMA UrgentInit ==
    ASSUME Init PROVE UrgentInv
<1>1. pending = <<>> /\ stack = <<>>
    BY DEF Init
<1>2. StackInv /\ OrderInv
    BY <1>1 DEF StackInv, OrderInv, Ordered, ToSet
<1> QED BY <1>2, SoundInit DEF UrgentInv

\* MostUrgentFirst.  vsf_eda_mutex_leave hands the mutex to the most urgent
\* waiter: the list stays in the order of the priorities, although only the
\* cur_priority that a waiter happens to have is looked at when another one is
\* inserted, and it may be a loan that it still has to give back.
THEOREM UrgentFirst == Spec => []MostUrgentFirst
<1>1. ASSUME UrgentInv PROVE MostUrgentFirst
  <2>1. TypeOK /\ PendInv /\ PrioInv /\ OrderInv
    BY <1>1 DEF UrgentInv, SoundInv, BasePrio, BaseInv
  <2>2. \A i \in DOMAIN pending : GetCurPriority(pending[i]) = Prio[pending[i]]
    <3> SUFFICES ASSUME NEW i \in DOMAIN pending
                 PROVE  GetCurPriority(pending[i]) = Prio[pending[i]]
        OBVIOUS
    <3>1. pending[i] \in Tasks /\ pending[i] \in ToSet(pending)
        BY <2>1 DEF TypeOK, ToSet
    <3> QED BY <2>1, <3>1 DEF PendInv, PrioInv
  <2> QED BY <2>1, <2>2 DEF OrderInv, Ordered, MostUrgentFirst
<1> QED BY <1>1, UrgentInit, UrgentNext, PTL DEF Spec

-----------------------------------------------------------------------------
(* The owner has what was lent to it *)

\* Those whose loan counts: it was not replaced, and was a loan of their own
\* priority.
Lenders == ToSet(pending) \ (undercut \cup indebted)

\* The owner runs with the priority of w once its handler has returned, and the
\* queue that dispatches it meanwhile does so at once.
LentBy(w) ==
    /\ GetCurPriority(eda_owner) >= Prio[w]
    /\ In(eda_owner) => level[cur_priority[eda_owner]] >= Prio[w]

InheritInv == eda_owner \notin indebted => \A w \in Lenders : LentBy(w)

LentInv == UrgentInv /\ InheritInv

LEMMA LenderFacts ==
    ASSUME TypeOK, PendInv, NEW w \in Lenders
    PROVE  w \in Tasks /\ w \in ToSet(pending) /\ eda_owner \in Tasks /\ w # eda_owner
<1>1. w \in Tasks /\ w \in ToSet(pending) /\ pending # <<>>
    BY DEF TypeOK, Lenders, ToSet
<1> QED BY <1>1 DEF TypeOK, PendInv

\* Nobody new lends, and the owner keeps what it has.
LEMMA LentFrame ==
    ASSUME InheritInv, UNCHANGED <<eda_owner, undercut, indebted>>,
           ToSet(pending') \subseteq ToSet(pending),
           \A w \in Lenders : LentBy(w) => LentBy(w)'
    PROVE  InheritInv'
<1>1. Lenders' \subseteq Lenders
    BY DEF Lenders
<1> QED BY <1>1 DEF InheritInv

LEMMA LentDispatch ==
    ASSUME LentInv, NEW p \in Prios, Dispatch(p) PROVE InheritInv'
<1>0. TypeOK /\ CurInv /\ PrioInv /\ PendInv /\ RdyInv /\ InheritInv
    BY DEF BaseInv, BasePrio, SoundInv, UrgentInv, LentInv
<1>1. /\ UNCHANGED <<eda_owner, pending, cur_priority, new_priority, level, undercut, indebted>>
      /\ \A r \in Prios : r # p => cur'[r] = cur[r]
      /\ cur[p] = NoTask
    BY <1>0 DEF Dispatch, prioVars, histVars, TypeOK, Preempts, CurInv
<1>2. ASSUME NEW w \in Lenders, LentBy(w) PROVE LentBy(w)'
  <2>1. PICK o \in Tasks : o = eda_owner
    BY <1>0, LenderFacts
  <2>2. GetCurPriority(o) >= Prio[w] /\ (In(o) => level[cur_priority[o]] >= Prio[w])
    BY <1>2, <2>1 DEF LentBy
  <2>3. level[cur_priority[o]] >= Prio[w]
    <3>1. CASE In(o)
        BY <2>2, <3>1
    <3>2. CASE ~In(o)
        <4>1. new_priority[o] = 0 /\ GetCurPriority(o) = cur_priority[o]
            BY <1>0, <3>2 DEF PrioInv, GetCurPriority
        <4>2. cur_priority[o] \in Prios /\ level[cur_priority[o]] >= cur_priority[o]
            BY <1>0, TaskFacts DEF PrioInv
        <4>3. /\ cur_priority[o] \in Int /\ level[cur_priority[o]] \in Int /\ Prio[w] \in Int
            BY <1>0, <4>2, TaskFacts, QueueFacts, LenderFacts
        <4> QED BY <2>2, <4>1, <4>2, <4>3
    <3> QED BY <3>1, <3>2
  <2>4. GetCurPriority(o)' = GetCurPriority(o)
    BY <1>1 DEF GetCurPriority
  <2> QED BY <1>1, <2>1, <2>2, <2>3, <2>4 DEF LentBy
<1> QED BY <1>0, <1>1, <1>2, LentFrame

LEMMA LentFinish ==
    ASSUME LentInv, NEW p \in Prios, Finish(p) PROVE InheritInv'
<1>0. TypeOK /\ CurInv /\ PrioInv /\ PendInv /\ InheritInv /\ BaseInv
    BY DEF BaseInv, BasePrio, SoundInv, UrgentInv, LentInv
<1>1. /\ UNCHANGED <<eda_owner, pending, undercut, indebted>>
    BY DEF Finish, histVars
<1>2. PICK t \in Tasks : t = cur[p] /\ cur_priority[t] = p
    BY <1>0, BaseFinish
<1>3. /\ cur_priority' = [cur_priority EXCEPT ![t] = GetCurPriority(t)]
      /\ new_priority' = [new_priority EXCEPT ![t] = 0]
      /\ level' = IF new_priority[t] # 0 THEN [level EXCEPT ![p] = p] ELSE level
    BY <1>2 DEF Finish
<1>4. /\ cur_priority'[t] = GetCurPriority(t) /\ new_priority'[t] = 0
      /\ \A x \in Tasks : x # t => /\ cur_priority'[x] = cur_priority[x]
                                   /\ new_priority'[x] = new_priority[x]
      /\ \A r \in Prios : r # p => level'[r] = level[r]
    BY <1>0, <1>3 DEF TypeOK
<1>5. \A x \in Tasks : GetCurPriority(x)' = GetCurPriority(x)
    BY <1>4 DEF GetCurPriority
<1>6. \A x \in Tasks : In(x)' => In(x) /\ x # t
    BY <1>0, <1>2, BaseFinish
<1>7. ASSUME NEW w \in Lenders, LentBy(w) PROVE LentBy(w)'
  <2>1. PICK o \in Tasks : o = eda_owner
    BY <1>0, LenderFacts
  <2>2. ASSUME In(o)' PROVE level'[cur_priority'[o]] >= Prio[w]
    <3>1. In(o) /\ o # t /\ cur_priority'[o] = cur_priority[o] /\ cur_priority[o] \in Prios
        BY <1>0, <1>4, <1>6, <2>2, TaskFacts
    <3>2. cur_priority[o] # p
        BY <1>2, <3>1 DEF In
    <3> QED BY <1>4, <1>7, <2>1, <3>1, <3>2 DEF LentBy
  <2> QED BY <1>1, <1>5, <1>7, <2>1, <2>2 DEF LentBy
<1> QED BY <1>0, <1>1, <1>7, LentFrame

\* The steps that leave the priorities alone: waiters leave.
LEMMA LentOther ==
    ASSUME LentInv, UNCHANGED <<eda_owner, cur_priority, new_priority, level, cur, undercut,
                                indebted>>,
           \/ UNCHANGED pending
           \/ pending # <<>> /\ pending' = Tail(pending)
           \/ \E i \in DOMAIN pending : pending' = RemoveAt(pending, i)
    PROVE  InheritInv'
<1>0. TypeOK /\ InheritInv /\ NoTwice(pending) /\ pending \in Seq(Tasks)
    BY DEF BaseInv, BasePrio, SoundInv, UrgentInv, LentInv, PendInv, TypeOK
<1>1. ToSet(pending') \subseteq ToSet(pending)
  <2>1. CASE UNCHANGED pending
    BY <2>1
  <2>2. CASE pending # <<>> /\ pending' = Tail(pending)
    <3>1. ToSet(Tail(pending)) \subseteq ToSet(pending)
        BY <1>0, <2>2, TailFacts
    <3> QED BY <2>2, <3>1
  <2>3. ASSUME NEW i \in DOMAIN pending, pending' = RemoveAt(pending, i)
        PROVE  ToSet(pending') \subseteq ToSet(pending)
    <3>1. ToSet(RemoveAt(pending, i)) \subseteq ToSet(pending)
        BY <1>0, RemoveAtFacts
    <3> QED BY <2>3, <3>1
  <2> QED BY <2>1, <2>2, <2>3
<1>2. \A w \in Lenders : LentBy(w) => LentBy(w)'
    BY DEF LentBy, GetCurPriority, In
<1> QED BY <1>0, <1>1, <1>2, LentFrame

\* The most urgent waiter becomes the owner with the priority it has.
LEMMA LentLeave ==
    ASSUME LentInv, NEW p \in Prios, Leave(p) PROVE InheritInv'
<1>0. /\ TypeOK /\ CurInv /\ PrioInv /\ PendInv /\ OrderInv /\ BaseInv
    BY DEF BaseInv, BasePrio, SoundInv, UrgentInv, LentInv
<1>1. PICK t \in Tasks : t = cur[p] /\ In(t) /\ t = eda_owner
    BY <1>0, AtWorkFacts DEF Leave
<1>2. UNCHANGED <<cur, undercut, indebted>> /\ GiveBack(t)
    BY <1>1 DEF Leave, pollVars
<1>3. /\ \A x \in Tasks : x # t => new_priority'[x] = new_priority[x]
      /\ UNCHANGED cur_priority /\ PrioInv' /\ level' \in [Prios -> Prios]
    BY <1>0, <1>1, <1>2, PrioGiveBack
<1>4. CASE pending = <<>>
  <2>1. pending' = <<>>
    BY <1>4 DEF Leave
  <2>2. Lenders' = {}
    BY <2>1 DEF Lenders, ToSet
  <2> QED BY <2>2 DEF InheritInv
<1>5. CASE pending # <<>>
  <2>1. PICK h \in Tasks : h = Head(pending) /\ h \in ToSet(pending) /\ eda_owner' = h
    BY <1>0, <1>5, TailFacts DEF TypeOK, Leave
  <2>2. pending' = Tail(pending)
    BY <1>5 DEF Leave
  <2>3. h # t
    BY <1>0, <1>1, <2>1 DEF PendInv
  <2>4. ASSUME h \notin indebted, NEW w \in Lenders' PROVE LentBy(w)'
    <3>1. new_priority[h] = 0 /\ cur_priority[h] = Prio[h]
        BY <1>0, <1>1, <2>1, <2>3, <2>4 DEF OrderInv, PrioInv, GetCurPriority
    <3>2. GetCurPriority(h)' = Prio[h]
        BY <1>3, <2>3, <3>1 DEF GetCurPriority
    <3>3. PICK i \in DOMAIN Tail(pending) : Tail(pending)[i] = w /\ w \notin indebted
        BY <1>2, <2>2, <2>4 DEF Lenders, ToSet
    <3>4. /\ i + 1 \in DOMAIN pending /\ pending[i + 1] = w /\ 1 < i + 1 /\ 1 \in DOMAIN pending
          /\ pending[1] = h /\ w \in Tasks
        <4>1. pending \in Seq(Tasks)
            BY <1>0 DEF TypeOK
        <4>2. i + 1 \in DOMAIN pending /\ pending[i + 1] = w /\ 1 < i + 1
            BY <1>5, <3>3, <4>1
        <4>3. 1 \in DOMAIN pending /\ pending[1] = h
            BY <1>5, <2>1, <4>1
        <4> QED BY <4>1, <4>2, <4>3
    <3>5. Prio[h] >= Prio[w]
        BY <1>0, <3>3, <3>4 DEF OrderInv, Ordered
    <3>6. level'[Prio[h]] >= Prio[h] /\ Prio[h] \in Prios
        BY <1>0, <1>3, TaskFacts DEF PrioInv
    <3>7. level'[Prio[h]] \in Int /\ Prio[h] \in Int /\ Prio[w] \in Int
        BY <1>0, <1>3, <3>4, <3>6, TaskFacts, PrioFacts
    <3>8. level'[Prio[h]] >= Prio[w]
        BY <3>5, <3>6, <3>7
    <3> QED BY <1>3, <2>1, <3>1, <3>2, <3>5, <3>8 DEF LentBy
  <2> QED BY <1>2, <2>1, <2>4 DEF InheritInv
<1> QED BY <1>4, <1>5

\* A waiter lends its priority unless the owner has it already.
LEMMA LentEnterPend ==
    ASSUME LentInv, NEW p \in Prios, NEW timeout \in {"timed", "forever"},
           EnterPend(p, timeout)
    PROVE  InheritInv'
<1>0. /\ TypeOK /\ CurInv /\ PrioInv /\ PendInv /\ StackInv /\ BasePrio /\ BaseInv /\ InheritInv
    BY DEF BaseInv, BasePrio, SoundInv, UrgentInv, LentInv
<1>1. PICK t \in Tasks : t = cur[p] /\ cur_priority[t] = p /\ wait[t] = "no"
    BY <1>0, AtWorkFacts DEF EnterPend
<1>2. PICK o \in Tasks : o = eda_owner /\ o # t
    BY <1>0, <1>1 DEF EnterPend, TypeOK
<1>3. /\ indebted' = IF new_priority[t] # 0 THEN indebted \cup {t} ELSE indebted \ {t}
      /\ stack # <<>> /\ Head(stack) = p /\ UNCHANGED <<eda_owner, cur, evts>>
    BY <1>1 DEF EnterPend, AtWork, Running, pollVars
<1>4. ToSet(pending') = ToSet(pending) \cup {t}
  <2>1. PICK n \in 1 .. Len(pending) + 1 : pending' = InsertAt(pending, n, t)
    BY <1>1 DEF EnterPend, InsertByPriority
  <2>2. ToSet(InsertAt(pending, n, t)) = ToSet(pending) \cup {t}
    BY <1>0, InsertAtFacts DEF TypeOK
  <2> QED BY <2>1, <2>2
<1>5. /\ \A x \in Tasks : Prio[x] \in Int /\ cur_priority[x] \in Int
      /\ cur_priority[t] >= Prio[t] /\ p \in Int
    BY <1>0, TaskFacts, PrioFacts DEF PrioInv
<1>6. \A w \in ToSet(pending) : w \in Tasks
    BY <1>0 DEF TypeOK, ToSet
<1>7. CASE cur_priority[t] > cur_priority[o]
  <2>1. SetPriority(o, p) /\ undercut' = (undercut \ {t}) \cup {w \in ToSet(pending) : Prio[w] > p}
    BY <1>1, <1>2, <1>7 DEF EnterPend
  <2>2. /\ GetCurPriority(o)' = p
        /\ In(o) => UNCHANGED cur_priority /\ level' = [level EXCEPT ![cur_priority[o]] = p]
        /\ In(o)' <=> In(o)
    BY <1>0, <1>1, <1>2, <1>3, <1>7, <2>1, PrioLend
  <2>3. In(o)' => level'[cur_priority'[o]] = p
    <3>1. cur_priority[o] \in Prios
        BY <1>0, TaskFacts
    <3> QED BY <1>0, <2>2, <3>1 DEF TypeOK
  <2>4. ASSUME NEW w \in Lenders' PROVE LentBy(w)'
    <3>1. w \in Tasks /\ p >= Prio[w]
        BY <1>1, <1>4, <1>5, <1>6, <2>1, <2>4 DEF Lenders
    <3> QED BY <1>2, <1>3, <1>5, <2>2, <2>3, <3>1 DEF LentBy
  <2> QED BY <2>4 DEF InheritInv
<1>8. CASE ~(cur_priority[t] > cur_priority[o])
  <2>1. /\ UNCHANGED <<cur_priority, new_priority, level>> /\ undercut' = undercut \ {t}
    BY <1>1, <1>2, <1>8 DEF EnterPend, prioVars
  <2>2. cur_priority[o] >= p
    BY <1>1, <1>5, <1>8
  <2>3. ~In(o)
    <3> SUFFICES ASSUME In(o) PROVE FALSE
        OBVIOUS
    <3>1. PICK q \in Prios : q = cur_priority[o] /\ cur[q] = o
        BY <1>0, TaskFacts DEF In
    <3>2. q \in ToSet(stack) /\ q # p
        BY <1>0, <1>1, <1>2, <3>1, PrioFacts DEF CurInv
    <3>3. q < p
        BY <1>0, <1>3, <3>2, TopFacts
    <3> QED BY <2>2, <3>1, <3>3, PrioFacts
  <2>4. GetCurPriority(o) = cur_priority[o] /\ GetCurPriority(o)' = GetCurPriority(o)
    BY <1>0, <2>1, <2>3 DEF PrioInv, GetCurPriority
  <2>5. ~In(o)'
    BY <1>3, <2>1, <2>3 DEF In
  <2>6. ASSUME NEW w \in Lenders', o \notin indebted' PROVE LentBy(w)'
    <3>1. CASE w = t
        <4>1. GetCurPriority(o)' >= Prio[w]
            BY <1>1, <1>5, <2>2, <2>4, <3>1
        <4> QED BY <1>2, <1>3, <2>5, <4>1 DEF LentBy
    <3>2. CASE w # t
        <4>1. w \in Lenders /\ o \notin indebted
            BY <1>2, <1>3, <1>4, <2>1, <2>6, <3>2 DEF Lenders
        <4>2. GetCurPriority(o) >= Prio[w]
            BY <1>0, <1>2, <4>1 DEF InheritInv, LentBy
        <4> QED BY <1>2, <1>3, <2>4, <2>5, <4>2 DEF LentBy
    <3> QED BY <3>1, <3>2
  <2> QED BY <1>2, <1>3, <2>6 DEF InheritInv
<1> QED BY <1>7, <1>8

LEMMA LentEnter ==
    ASSUME LentInv, NEW p \in Prios, Enter(p) PROVE InheritInv'
<1>1. pending' = <<>>
    BY DEF Enter
<1>2. Lenders' = {}
    BY <1>1 DEF Lenders, ToSet
<1> QED BY <1>2 DEF InheritInv

LEMMA LentNext ==
    ASSUME LentInv, [Next]_vars PROVE LentInv'
<1>1. ASSUME NEW p \in Prios, Cancel(p) \/ CancelLoop(p) \/ Handle(p) \/ ReasonTimer(p)
                              \/ ReasonGet(p) \/ PostEvent(p) \/ SwiLeave(p)
      PROVE  InheritInv'
  <2>1. UNCHANGED <<eda_owner, cur_priority, new_priority, level, cur, undercut, indebted>>
    BY <1>1 DEF Cancel, CancelLoop, CancelNext, Handle, ReasonTimer, ReasonGet, PostEvent,
                SwiLeave, prioVars, pollVars, histVars
  <2>2. \/ UNCHANGED pending
        \/ pending # <<>> /\ pending' = Tail(pending)
        \/ \E i \in DOMAIN pending : pending' = RemoveAt(pending, i)
    BY <1>1 DEF Cancel, CancelLoop, CancelNext, Handle, ReasonTimer, ReasonGet, PostEvent,
                SwiLeave
  <2> QED BY <2>1, <2>2, LentOther
<1>2. ASSUME NEW p \in Prios, Use(p) \/ Step(p) PROVE InheritInv'
    BY <1>1, <1>2, LentEnter, LentLeave, LentEnterPend, LentDispatch, LentFinish DEF Use, Step
<1>3. ASSUME NEW t \in Tasks, Wake(t) \/ Expire(t) PROVE InheritInv'
  <2>1. UNCHANGED <<eda_owner, cur_priority, new_priority, level, cur, undercut, indebted,
                    pending>>
    BY <1>3 DEF Wake, Expire, prioVars, pollVars, histVars
  <2> QED BY <2>1, LentOther
<1>4. ASSUME UNCHANGED vars PROVE InheritInv'
    BY <1>4, LentOther DEF vars
<1>5. InheritInv'
    BY <1>2, <1>3, <1>4 DEF Next
<1> QED BY <1>5, UrgentNext DEF LentInv

LEMMA LentInit ==
    ASSUME Init PROVE LentInv
<1>1. pending = <<>>
    BY DEF Init
<1>2. InheritInv
    BY <1>1 DEF InheritInv, Lenders, ToSet
<1> QED BY <1>2, UrgentInit DEF LentInv

\* OwnerInherits.  Priority inheritance: whatever the order of loans, ends of
\* dispatch, hand overs and cancels, the owner is at least as urgent to the
\* processor as every waiter whose loan was neither replaced by a smaller one
\* nor a borrowed one.
THEOREM OwnerIsUrgent == Spec => []OwnerInherits
<1>1. ASSUME LentInv PROVE OwnerInherits
  <2>0. TypeOK /\ CurInv /\ PrioInv /\ PendInv /\ InheritInv
    BY <1>1 DEF LentInv, UrgentInv, SoundInv, BasePrio, BaseInv
  <2> SUFFICES ASSUME NEW i \in DOMAIN pending, pending[i] \notin undercut \cup indebted,
                      eda_owner \notin indebted
               PROVE  Urgency(eda_owner) >= Prio[pending[i]]
    BY DEF OwnerInherits
  <2>1. PICK w \in Lenders : w = pending[i]
    BY DEF Lenders, ToSet
  <2>2. PICK o \in Tasks : o = eda_owner
    BY <2>0, LenderFacts
  <2>3. /\ GetCurPriority(o) >= Prio[w]
        /\ In(o) => level[cur_priority[o]] >= Prio[w]
    BY <2>0, <2>2 DEF InheritInv, LentBy
  <2>4. CASE In(o)
    <3>1. Dispatched(o) /\ \A p \in Prios : cur[p] = o <=> p = cur_priority[o]
        BY <2>0, <2>4, DispatchedIn DEF In
    <3>2. cur_priority[o] \in Prios
        BY <2>0, TaskFacts
    <3>3. (CHOOSE p \in Prios : cur[p] = o) = cur_priority[o]
        BY <3>1, <3>2
    <3>4. Urgency(o) = level[cur_priority[o]]
        BY <3>1, <3>3 DEF Urgency
    <3> QED BY <2>1, <2>2, <2>3, <2>4, <3>4
  <2>5. CASE ~In(o)
    <3>1. ~Dispatched(o) /\ GetCurPriority(o) = cur_priority[o]
        BY <2>0, <2>5, DispatchedIn DEF PrioInv, GetCurPriority
    <3>2. Urgency(o) = cur_priority[o]
        BY <3>1 DEF Urgency
    <3> QED BY <2>1, <2>2, <2>3, <3>1, <3>2
  <2> QED BY <2>4, <2>5
<1> QED BY <1>1, LentInit, LentNext, PTL DEF Spec

\* NoInversion.  While a waiter's loan counts, no task that is less urgent than
\* the waiter keeps the processor from an owner that could run, unless its queue
\* had preempted that of the owner before the loan.
THEOREM NoInversionHolds == Spec => []NoInversion
<1>1. ASSUME LentInv PROVE NoInversion
  <2>0. TypeOK /\ CurInv /\ RdyInv /\ PrioInv /\ PendInv /\ StackInv /\ InheritInv
    BY <1>1 DEF LentInv, UrgentInv, SoundInv, BasePrio, BaseInv
  <2> SUFFICES ASSUME NEW p \in Prios, Running(p), NEW i \in DOMAIN pending,
                      pending[i] \notin undercut \cup indebted, eda_owner \notin indebted,
                      IsReady(eda_owner),
                      \A q \in ToSet(stack) \ {p} : cur[q] # eda_owner
               PROVE  level[p] >= Prio[pending[i]]
    BY DEF NoInversion
  <2>1. PICK w \in Lenders : w = pending[i]
    BY DEF Lenders, ToSet
  <2>2. PICK o \in Tasks : o = eda_owner
    BY <2>0, LenderFacts
  <2>3. /\ GetCurPriority(o) >= Prio[w]
        /\ In(o) => level[cur_priority[o]] >= Prio[w]
    BY <2>0, <2>2 DEF InheritInv, LentBy
  <2>4. PICK q \in Prios : q = cur_priority[o]
    BY <2>0, TaskFacts
  <2>5. /\ stack # <<>> /\ Head(stack) = p /\ ~Preempts(q)
    BY <2>0 DEF Running
  <2>6. /\ level[p] >= p /\ level[q] >= q /\ p \in Int /\ q \in Int /\ level[p] \in Int
        /\ level[q] \in Int /\ Prio[w] \in Int
    BY <2>0, QueueFacts, TaskFacts, LenderFacts DEF PrioInv
  <2>7. CASE In(o)
    <3>1. cur[q] = o /\ q \in ToSet(stack)
        BY <2>0, <2>4, <2>7, PrioFacts DEF In, CurInv
    <3>2. q = p
        BY <2>2, <3>1
    <3> QED BY <2>1, <2>3, <2>4, <2>7, <3>2
  <2>8. CASE ~In(o)
    <3>1. q >= Prio[w]
        BY <2>0, <2>3, <2>4, <2>8 DEF PrioInv, GetCurPriority
    <3>2. rdy_list[q] # <<>>
        <4>1. evts[o] # <<>>
            BY <2>0, <2>2, <2>8, DispatchedIn
        <4>2. o \in ToSet(rdy_list[q])
            BY <2>0, <2>4, <2>8, <4>1 DEF RdyInv
        <4> QED BY <4>2 DEF ToSet
    <3>3. q \in ToSet(stack) \/ \E r \in ToSet(stack) : ~(level[q] > level[r])
        BY <2>5, <3>2 DEF Preempts
    <3>4. CASE q \in ToSet(stack)
        <4>1. q <= p
            BY <2>0, <2>5, <3>4, TopFacts
        <4> QED BY <2>1, <2>6, <3>1, <4>1
    <3>5. ASSUME NEW r \in ToSet(stack), ~(level[q] > level[r])
          PROVE  level[p] >= Prio[w]
        <4>1. r \in Prios /\ level[r] \in Int
            BY <2>0, <2>5, TopFacts, QueueFacts
        <4>2. level[r] >= q
            BY <2>6, <3>5, <4>1
        <4>3. CASE r = p
            BY <2>6, <3>1, <4>2, <4>3
        <4>4. CASE r # p
            <5>1. PICK j \in DOMAIN stack : j # 1 /\ stack[j] = r
                BY <2>0, <2>5, <4>4, TopFacts
            <5>2. stack[1] = p /\ 1 \in DOMAIN stack /\ 1 < j
                BY <2>0, <2>5, <5>1, TopFacts
            <5>3. cur[r] # eda_owner
                BY <4>4
            <5>4. p > level[r]
                BY <2>0, <5>1, <5>2, <5>3 DEF StackInv
            <5> QED BY <2>6, <3>1, <4>1, <4>2, <5>4
        <4> QED BY <4>3, <4>4
    <3> QED BY <2>1, <3>3, <3>4, <3>5
  <2> QED BY <2>7, <2>8
<1> QED BY <1>1, LentInit, LentNext, PTL DEF Spec
=============================================================================
