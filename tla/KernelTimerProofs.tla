-------------------------- MODULE KernelTimerProofs ---------------------------
(***************************************************************************)
(* Proofs about the timers of the kernel, for every set of edas, every     *)
(* delay and every bound on the ticks.                                     *)
(***************************************************************************)
EXTENDS KernelTimer, ListLemmas, TLAPS

PcType == {"idle", "insert", "update", "check", "post", "clean"}
KpcType == {"idle", "timer", "expired", "update", "check", "post"}

-----------------------------------------------------------------------------
(* Types *)

LEMMA TickFacts ==
    /\ MaxTick \in Nat /\ MaxTick >= 1 /\ 1 \in Ticks /\ NoDue = 0
    /\ \A n \in Int : n \in Ticks <=> 1 <= n /\ n <= MaxTick
    /\ Ticks \subseteq Int /\ Delays \subseteq Nat \ {0}
BY TickAssumption DEF Ticks, NoDue

LEMMA HeadFacts ==
    ASSUME TypeOK, timq # <<>>
    PROVE  /\ Head(timq) \in Tedas /\ Tail(timq) \in Seq(Tedas)
           /\ due[Head(timq)] \in Ticks \cup {NoDue}
           /\ Head(timq) \in ToSet(timq)
BY TailFacts DEF TypeOK

\* Leave and Enter keep the types of the program counters.
LEMMA PcFacts ==
    ASSUME TypeOK, NEW c \in Ctxs,
           Leave(c) \/ Enter(c, "check") \/ Enter(c, "post")
    PROVE  pc' \in [Tedas -> PcType] /\ kpc' \in KpcType
<1>1. CASE c = Kernel
    BY <1>1 DEF TypeOK, Leave, Enter, PcType, KpcType
<1>2. CASE c # Kernel
  <2>1. c \in Tedas
    BY <1>2 DEF Ctxs
  <2> QED BY <1>2, <2>1 DEF TypeOK, Leave, Enter, PcType, KpcType
<1> QED BY <1>1, <1>2

LEMMA KqFacts ==
    ASSUME TypeOK
    PROVE  /\ Append(kq, "TIMER") \in Seq({"TIMER", "MESSAGE"})
           /\ Append(kq, "MESSAGE") \in Seq({"TIMER", "MESSAGE"})
           /\ kq # <<>> => Tail(kq) \in Seq({"TIMER", "MESSAGE"})
BY TailFacts, AppendFacts DEF TypeOK

LEMMA TypeSystimer ==
    ASSUME TypeOK, NEW c \in Ctxs, Systimer(c), UNCHANGED build PROVE TypeOK'
<1>1. pc' \in [Tedas -> PcType] /\ kpc' \in KpcType
    BY PcFacts DEF Systimer, Update, WakeupCheck, WakeupPost
<1>2. UNCHANGED <<now, timq, due, is_timed, evts, teda, wants>>
    BY DEF Systimer, Update, WakeupCheck, WakeupPost, queueVars, histVars
<1>3. kq' \in Seq({"TIMER", "MESSAGE"})
    BY KqFacts DEF Systimer, Update, WakeupCheck, WakeupPost, TypeOK
<1>4. armed' \in Ticks \cup {NoDue} /\ pre_tick' \in Ticks \cup {NoDue}
    BY HeadFacts DEF Systimer, Update, WakeupCheck, WakeupPost, TypeOK, timerVars
<1>5. owner' \in Ctxs \cup {NoCtx} /\ processing' \in BOOLEAN
    BY DEF Systimer, Update, WakeupCheck, WakeupPost, TypeOK, timerVars
<1>6. overlooked' \in BOOLEAN
  <2>1. CASE Update(c)
    BY <2>1 DEF Update
  <2>2. CASE WakeupCheck(c) \/ WakeupPost(c)
    BY <2>2 DEF WakeupCheck, WakeupPost, histVars, TypeOK
  <2> QED BY <2>1, <2>2 DEF Systimer
<1> QED BY <1>1, <1>2, <1>3, <1>4, <1>5, <1>6 DEF TypeOK, PcType, KpcType

LEMMA TypeInterrupt ==
    ASSUME TypeOK, Tick \/ Fire \/ Message, UNCHANGED build PROVE TypeOK'
<1>1. UNCHANGED <<timq, due, is_timed, evts, pc, kpc, teda, owner, pre_tick,
                  wants, overlooked>>
    BY DEF Tick, Fire, Message, queueVars, timerVars, histVars
<1>2. kq' \in Seq({"TIMER", "MESSAGE"})
    BY KqFacts DEF Tick, Fire, Message, Wakeup, OnTick, TypeOK
<1>3. now' \in Ticks
  <2>1. now \in Ticks /\ now \in Int /\ 1 <= now
    BY TickFacts DEF TypeOK
  <2>2. CASE now' = now
    BY <2>1, <2>2
  <2>3. CASE now' = now + 1 /\ now < MaxTick
    BY <2>1, <2>3, TickFacts
  <2> QED BY <2>2, <2>3 DEF Tick, Fire, Message
<1>4. armed' \in Ticks \cup {NoDue} /\ processing' \in BOOLEAN
    BY DEF Tick, Fire, Message, Wakeup, TypeOK, timerVars
<1> QED BY <1>1, <1>2, <1>3, <1>4 DEF TypeOK

LEMMA TypeKernel ==
    ASSUME TypeOK, KernelDispatch \/ KernelExpire \/ KernelPost \/ KernelDone,
           UNCHANGED build
    PROVE  TypeOK'
<1>1. UNCHANGED <<now, due, pc, armed, pre_tick, wants, overlooked>>
    BY DEF KernelDispatch, KernelExpire, KernelPost, KernelDone, queueVars,
           timerVars, histVars
<1>2. kpc' \in KpcType
    BY DEF KernelDispatch, KernelExpire, KernelPost, KernelDone, KpcType
<1>3. kq' \in Seq({"TIMER", "MESSAGE"})
    BY KqFacts DEF KernelDispatch, KernelExpire, KernelPost, KernelDone, TypeOK
<1>4. timq' \in Seq(Tedas) /\ teda' \in Tedas \cup {NoCtx}
    BY HeadFacts
       DEF KernelDispatch, KernelExpire, KernelPost, KernelDone, TypeOK,
           queueVars, HeadIsDue
<1>5. is_timed' \in [Tedas -> BOOLEAN] /\ processing' \in BOOLEAN
    BY DEF KernelDispatch, KernelExpire, KernelPost, KernelDone, TypeOK,
           queueVars, timerVars
<1>6. evts' \in [Tedas -> Nat]
  <2>1. CASE KernelPost
    <3>1. evts \in [Tedas -> Nat] /\ evts' = [evts EXCEPT ![teda] = @ + 1]
        BY <2>1 DEF KernelPost, TypeOK
    <3>2. teda \in Tedas => evts[teda] + 1 \in Nat
        BY <3>1
    <3> QED BY <3>1, <3>2
  <2>2. CASE ~KernelPost
    BY <2>2 DEF KernelDispatch, KernelExpire, KernelDone, TypeOK
  <2> QED BY <2>1, <2>2
<1>7. owner' \in Ctxs \cup {NoCtx}
    BY DEF KernelDispatch, KernelExpire, KernelPost, KernelDone, TypeOK, Ctxs
<1> QED BY <1>1, <1>2, <1>3, <1>4, <1>5, <1>6, <1>7 DEF TypeOK, KpcType

TaskAct(t) == \/ SetDue(t) \/ CancelClean(t) \/ Receive(t) \/ Cancel(t)
              \/ \E d \in Delays : ReadTick(t, d)

LEMMA TypeTask ==
    ASSUME TypeOK, NEW t \in Tedas, TaskAct(t), UNCHANGED build PROVE TypeOK'
<1> USE DEF TaskAct
<1>1. UNCHANGED <<now, kq, kpc, teda, armed, pre_tick, processing, overlooked>>
    BY DEF SetDue, CancelClean, Receive, Cancel, ReadTick, kernelVars, timerVars,
           histVars
<1>2. pc' \in [Tedas -> PcType]
    BY DEF SetDue, CancelClean, Receive, Cancel, ReadTick, TypeOK, PcType
<1>3. timq' \in Seq(Tedas)
  <2>1. CASE SetDue(t)
    BY <2>1, InsertAtPlaces DEF SetDue, Insert, TypeOK
  <2>2. CASE Cancel(t)
    BY <2>2, RemoveAtPlaces DEF Cancel, TypeOK
  <2>3. CASE ~SetDue(t) /\ ~Cancel(t)
    BY <2>3 DEF CancelClean, Receive, ReadTick, queueVars, TypeOK
  <2> QED BY <2>1, <2>2, <2>3
<1>4. due' \in [Tedas -> Ticks \cup {NoDue}]
  <2>1. ASSUME NEW d \in Delays, ReadTick(t, d) PROVE due' \in [Tedas -> Ticks \cup {NoDue}]
    <3>1. now + d \in Ticks
        <4>1. now \in Int /\ d \in Int /\ 1 <= now /\ 1 <= d /\ now + d <= MaxTick
            BY <2>1, TickFacts DEF ReadTick, TypeOK
        <4> QED BY <4>1, TickFacts
    <3> QED BY <2>1, <3>1 DEF ReadTick, TypeOK
  <2>2. CASE ~\E d \in Delays : ReadTick(t, d)
    BY <2>2 DEF SetDue, CancelClean, Receive, Cancel, queueVars, TypeOK
  <2> QED BY <2>1, <2>2
<1>5. is_timed' \in [Tedas -> BOOLEAN]
    BY DEF SetDue, CancelClean, Receive, Cancel, ReadTick, queueVars, TypeOK
<1>6. evts' \in [Tedas -> Nat]
    BY DEF SetDue, CancelClean, Receive, Cancel, ReadTick, TypeOK
<1>7. owner' \in Ctxs \cup {NoCtx} /\ wants' \subseteq Tedas
    BY DEF SetDue, CancelClean, Receive, Cancel, ReadTick, TypeOK, Ctxs, histVars
<1> QED BY <1>1, <1>2, <1>3, <1>4, <1>5, <1>6, <1>7 DEF TypeOK, PcType

LEMMA NextCases ==
    ASSUME Next
    PROVE  /\ UNCHANGED build
           /\ \/ Tick \/ Fire \/ Message
              \/ KernelDispatch \/ KernelExpire \/ KernelPost \/ KernelDone
              \/ \E c \in Ctxs : Systimer(c)
              \/ \E t \in Tedas : TaskAct(t)
BY DEF Next, Step, KernelStep, Call, TaskAct, Ctxs

LEMMA TypeNext == TypeOK /\ [Next]_<<vars, build>> => TypeOK'
<1> SUFFICES ASSUME TypeOK, [Next]_<<vars, build>> PROVE TypeOK'
    OBVIOUS
<1>1. CASE Next
    BY <1>1, NextCases, TypeInterrupt, TypeKernel, TypeSystimer, TypeTask
<1>2. CASE UNCHANGED <<vars, build>>
    BY <1>2 DEF vars, TypeOK
<1> QED BY <1>1, <1>2

LEMMA TypeInit == Init => TypeOK
<1> SUFFICES ASSUME Init PROVE TypeOK
    OBVIOUS
<1>1. /\ is_timed \in [Tedas -> BOOLEAN] /\ processing \in BOOLEAN
      /\ overlooked \in BOOLEAN
    BY Zenon DEF Init
<1> QED BY <1>1, TickFacts DEF Init, TypeOK
-----------------------------------------------------------------------------
(* One timer, one event *)

Expiring(t) == kpc = "expired" /\ teda = t

\* Where the timer of t is: OneTimerOneEvent for one eda, without counting.
OneEvent(t) ==
    /\ evts[t] <= 1
    /\ is_timed[t] => evts[t] = 0 /\ ~Expiring(t)
    /\ Expiring(t) => evts[t] = 0
    /\ is_timed[t] \/ Expiring(t) \/ evts[t] = 1 => t \in wants
    /\ t \in wants /\ pc[t] \notin {"insert", "clean"} =>
          is_timed[t] \/ Expiring(t) \/ evts[t] = 1

LEMMA OneEventFacts ==
    ASSUME TypeOK PROVE OneTimerOneEvent <=> \A t \in Tedas : OneEvent(t)
<1>1. ASSUME NEW t \in Tedas
      PROVE  LET places == (IF is_timed[t] THEN 1 ELSE 0) + evts[t]
                            + (IF kpc = "expired" /\ teda = t THEN 1 ELSE 0)
             IN  OneEvent(t) <=>
                    /\ places <= 1
                    /\ places = 1 => t \in wants
                    /\ t \in wants /\ pc[t] \notin {"insert", "clean"} => places = 1
  <2>1. evts[t] \in Nat
    BY DEF TypeOK
  <2>2. CASE is_timed[t]
    <3>1. CASE Expiring(t)
        BY <2>1, <2>2, <3>1 DEF OneEvent, Expiring
    <3>2. CASE ~Expiring(t)
        BY <2>1, <2>2, <3>2 DEF OneEvent, Expiring
    <3> QED BY <3>1, <3>2
  <2>3. CASE ~is_timed[t]
    <3>1. CASE Expiring(t)
        BY <2>1, <2>3, <3>1 DEF OneEvent, Expiring
    <3>2. CASE ~Expiring(t)
        BY <2>1, <2>3, <3>2 DEF OneEvent, Expiring
    <3> QED BY <3>1, <3>2
  <2> QED BY <2>2, <2>3
<1> QED BY <1>1 DEF OneTimerOneEvent

\* What makes TimqIsSound inductive: a timer that is being set is nowhere yet,
\* and one whose cancel has begun is not in the queue.
CallOk(t) ==
    /\ pc[t] = "insert" => t \in wants /\ ~is_timed[t] /\ ~Expiring(t) /\ evts[t] = 0
    /\ pc[t] = "clean" => ~is_timed[t]

TimerInv ==
    /\ TypeOK /\ TimqSorted
    /\ \A t \in Tedas : OneEvent(t) /\ CallOk(t)

\* A step that moves no timer.
LEMMA TimerFrame ==
    ASSUME TimerInv, TypeOK', UNCHANGED <<timq, due, is_timed, evts, wants, teda>>,
           kpc' = "expired" <=> kpc = "expired",
           \A t \in Tedas : /\ pc'[t] = "insert" <=> pc[t] = "insert"
                            /\ pc'[t] = "clean" <=> pc[t] = "clean"
    PROVE  TimerInv'
<1>1. TimqSorted'
    BY DEF TimerInv, TimqSorted
<1>2. \A t \in Tedas : Expiring(t)' <=> Expiring(t)
    BY DEF Expiring
<1>3. ASSUME NEW t \in Tedas PROVE OneEvent(t)' /\ CallOk(t)'
    BY <1>2, <1>3 DEF TimerInv, OneEvent, CallOk
<1> QED BY <1>1, <1>3 DEF TimerInv

LEMMA TimerSystimer ==
    ASSUME TimerInv, TypeOK', NEW c \in Ctxs, Systimer(c) PROVE TimerInv'
<1>1. UNCHANGED <<timq, due, is_timed, evts, wants, teda>>
    BY DEF Systimer, Update, WakeupCheck, WakeupPost, queueVars, histVars
<1>2. /\ At(c) \in {"update", "check", "post"}
      /\ Leave(c) \/ Enter(c, "check") \/ Enter(c, "post")
    BY DEF Systimer, Update, WakeupCheck, WakeupPost
<1>3. CASE c = Kernel
    BY <1>1, <1>2, <1>3, TimerFrame DEF At, Leave, Enter
<1>4. CASE c # Kernel
  <2>1. c \in Tedas /\ pc \in [Tedas -> PcType]
    BY <1>4 DEF Ctxs, TimerInv, TypeOK, PcType
  <2>2. /\ pc[c] \in {"update", "check", "post"} /\ kpc' = kpc
        /\ \E v \in {"idle", "check", "post"} : pc' = [pc EXCEPT ![c] = v]
    BY <1>2, <1>4 DEF At, Leave, Enter
  <2>3. \A t \in Tedas : /\ pc'[t] = "insert" <=> pc[t] = "insert"
                         /\ pc'[t] = "clean" <=> pc[t] = "clean"
    BY <2>1, <2>2
  <2> QED BY <1>1, <2>2, <2>3, TimerFrame
<1> QED BY <1>3, <1>4

LEMMA TimerKernel ==
    ASSUME TimerInv, TypeOK',
           KernelDispatch \/ KernelExpire \/ KernelPost \/ KernelDone
    PROVE  TimerInv'
<1>1. CASE KernelDispatch
    BY <1>1, TimerFrame DEF KernelDispatch, queueVars, histVars
<1>2. CASE KernelDone
    BY <1>2, TimerFrame DEF KernelDone, queueVars, histVars
<1>3. CASE KernelExpire
  <2>1. /\ timq # <<>> /\ teda' = Head(timq) /\ timq' = Tail(timq)
        /\ is_timed' = [is_timed EXCEPT ![Head(timq)] = FALSE]
        /\ kpc = "timer" /\ kpc' = "expired"
        /\ UNCHANGED <<due, evts, pc, wants>>
    BY <1>3 DEF KernelExpire, HeadIsDue, histVars
  <2>2. PICK h \in Tedas : h = Head(timq)
    BY <2>1, HeadFacts DEF TimerInv
  <2>3. timq \in Seq(Tedas) /\ NoTwice(timq) /\ is_timed \in [Tedas -> BOOLEAN]
    <3>1. timq \in Seq(Tedas)
        BY DEF TimerInv, TypeOK
    <3>2. DOMAIN timq = 1 .. Len(timq) /\ Len(timq) \in Nat
        BY <3>1
    <3> QED BY <3>1, <3>2 DEF TimerInv, TimqSorted, NoTwice, TypeOK
  <2>4. ToSet(timq)' = ToSet(timq) \ {h} /\ h \in ToSet(timq)
    BY <2>1, <2>2, <2>3, TailFacts
  <2>5. TimqSorted'
    <3>1. \A t \in Tedas : is_timed'[t] <=> t \in ToSet(timq)'
        BY <2>1, <2>2, <2>3, <2>4 DEF TimerInv, TimqSorted
    <3>2. /\ Len(timq) \in Nat /\ DOMAIN timq = 1 .. Len(timq)
          /\ DOMAIN timq' = 1 .. Len(timq) - 1
          /\ \A i \in 1 .. Len(timq) - 1 : timq'[i] = timq[i + 1]
        BY <2>1, <2>3
    <3>3. \A i, j \in DOMAIN timq' :
             i < j => timq'[i] # timq'[j] /\ due[timq'[i]] <= due[timq'[j]]
      <4> SUFFICES ASSUME NEW i \in DOMAIN timq', NEW j \in DOMAIN timq', i < j
                   PROVE  timq'[i] # timq'[j] /\ due[timq'[i]] <= due[timq'[j]]
        OBVIOUS
      <4>1. /\ i + 1 \in DOMAIN timq /\ j + 1 \in DOMAIN timq /\ i + 1 < j + 1
            /\ timq'[i] = timq[i + 1] /\ timq'[j] = timq[j + 1]
        BY <3>2
      <4> QED BY <4>1 DEF TimerInv, TimqSorted
    <3> QED BY <2>1, <3>1, <3>3 DEF TimqSorted
  <2>6. ASSUME NEW t \in Tedas PROVE OneEvent(t)' /\ CallOk(t)'
    <3>0. OneEvent(t) /\ CallOk(t)
        BY DEF TimerInv
    <3>1. ~Expiring(t)
        BY <2>1 DEF Expiring
    <3>2. CASE t = h
        <4>1. is_timed[t] /\ is_timed'[t] = FALSE /\ Expiring(t)'
            BY <2>1, <2>2, <2>3, <2>4, <3>2 DEF TimerInv, TimqSorted, Expiring
        <4> QED BY <2>1, <3>0, <3>1, <4>1 DEF OneEvent, CallOk
    <3>3. CASE t # h
        <4>1. is_timed'[t] = is_timed[t] /\ ~Expiring(t)'
            BY <2>1, <2>2, <2>3, <3>3 DEF Expiring
        <4> QED BY <2>1, <3>0, <3>1, <4>1 DEF OneEvent, CallOk
    <3> QED BY <3>2, <3>3
  <2> QED BY <2>5, <2>6 DEF TimerInv
<1>4. CASE KernelPost
  <2>1. /\ kpc = "expired" /\ kpc' = "timer" /\ evts' = [evts EXCEPT ![teda] = @ + 1]
        /\ UNCHANGED <<timq, due, is_timed, pc, wants, teda>>
    BY <1>4 DEF KernelPost, queueVars, histVars
  <2>2. TimqSorted'
    BY <2>1 DEF TimerInv, TimqSorted
  <2>3. ASSUME NEW t \in Tedas PROVE OneEvent(t)' /\ CallOk(t)'
    <3>0. OneEvent(t) /\ CallOk(t) /\ evts \in [Tedas -> Nat]
        BY DEF TimerInv, TypeOK
    <3>1. ~Expiring(t)'
        BY <2>1 DEF Expiring
    <3>2. CASE teda = t
        <4>1. evts'[t] = 1 /\ evts[t] = 0 /\ Expiring(t)
            BY <2>1, <3>0, <3>2 DEF OneEvent, Expiring
        <4> QED BY <2>1, <3>0, <3>1, <4>1 DEF OneEvent, CallOk
    <3>3. CASE teda # t
        <4>1. evts'[t] = evts[t] /\ ~Expiring(t)
            BY <2>1, <3>0, <3>3 DEF Expiring
        <4> QED BY <2>1, <3>0, <3>1, <4>1 DEF OneEvent, CallOk
    <3> QED BY <3>2, <3>3
  <2> QED BY <2>2, <2>3 DEF TimerInv
<1> QED BY <1>1, <1>2, <1>3, <1>4
LEMMA SortedFacts ==
    ASSUME TimerInv
    PROVE  /\ timq \in Seq(Tedas) /\ NoTwice(timq) /\ Len(timq) \in Nat
           /\ DOMAIN timq = 1 .. Len(timq)
           /\ \A i \in 1 .. Len(timq) : timq[i] \in Tedas /\ due[timq[i]] \in Int
           /\ \A t \in Tedas : due[t] \in Int
<1>1. timq \in Seq(Tedas) /\ \A t \in Tedas : due[t] \in Int
  <2>1. Ticks \cup {NoDue} \subseteq Int
    BY TickFacts
  <2>2. timq \in Seq(Tedas) /\ due \in [Tedas -> Ticks \cup {NoDue}]
    BY DEF TimerInv, TypeOK
  <2> QED BY <2>1, <2>2
<1>2. DOMAIN timq = 1 .. Len(timq) /\ Len(timq) \in Nat
    BY <1>1
<1>3. NoTwice(timq)
    BY <1>1, <1>2 DEF TimerInv, TimqSorted, NoTwice
<1> QED BY <1>1, <1>2, <1>3

\* vsf_timq_insert keeps the queue sorted.
LEMMA InsertSorted ==
    ASSUME TimerInv, NEW t \in Tedas, ~is_timed[t], Insert(t), due' = due,
           is_timed' = [is_timed EXCEPT ![t] = TRUE]
    PROVE  TimqSorted'
<1>0. /\ timq \in Seq(Tedas) /\ NoTwice(timq) /\ Len(timq) \in Nat
      /\ DOMAIN timq = 1 .. Len(timq) /\ due[t] \in Int
      /\ \A i \in 1 .. Len(timq) : timq[i] \in Tedas /\ due[timq[i]] \in Int
      /\ is_timed \in [Tedas -> BOOLEAN] /\ t \notin ToSet(timq)
    BY SortedFacts DEF TimerInv, TimqSorted, TypeOK
<1>1. PICK n \in 1 .. Len(timq) + 1 :
         /\ \A i \in 1 .. n - 1 : due[timq[i]] < due[t]
         /\ n <= Len(timq) => due[timq[n]] >= due[t]
         /\ timq' = InsertAt(timq, n, t)
    BY DEF Insert
<1>2. /\ timq' \in Seq(Tedas) /\ ToSet(timq)' = ToSet(timq) \cup {t}
      /\ NoTwice(timq)' /\ Len(timq') = Len(timq) + 1
      /\ \A j \in 1 .. Len(timq) + 1 :
            timq'[j] = IF j < n THEN timq[j] ELSE IF j = n THEN t ELSE timq[j - 1]
  <2>1. /\ timq' \in Seq(Tedas) /\ Len(timq') = Len(timq) + 1
        /\ \A j \in 1 .. Len(timq) + 1 :
              timq'[j] = IF j < n THEN timq[j] ELSE IF j = n THEN t ELSE timq[j - 1]
    <3>1. PICK s \in Seq(Tedas) : s = timq
        BY <1>0
    <3>2. PICK k \in 1 .. Len(s) + 1 : k = n
        BY <3>1
    <3>3. /\ InsertAt(s, k, t) \in Seq(Tedas)
          /\ Len(InsertAt(s, k, t)) = Len(s) + 1
          /\ \A j \in 1 .. Len(s) + 1 :
                InsertAt(s, k, t)[j] = IF j < k THEN s[j]
                                       ELSE IF j = k THEN t ELSE s[j - 1]
        BY InsertAtPlaces
    <3>4. timq' = InsertAt(s, k, t)
        BY <1>1, <3>1, <3>2
    <3> QED BY <3>1, <3>2, <3>3, <3>4
  <2>2. ToSet(timq)' = ToSet(timq) \cup {t} /\ NoTwice(timq)'
    BY <1>0, <1>1, InsertAtFacts
  <2> QED BY <2>1, <2>2
<1>3. DOMAIN timq' = 1 .. Len(timq) + 1
    BY <1>2
<1>4. \A x \in Tedas : is_timed'[x] <=> x \in ToSet(timq)'
    BY <1>0, <1>2 DEF TimerInv, TimqSorted
<1>5. \A i \in 1 .. Len(timq) : i >= n => due[timq[i]] >= due[t]
  <2> SUFFICES ASSUME NEW i \in 1 .. Len(timq), i >= n PROVE due[timq[i]] >= due[t]
    OBVIOUS
  <2>1. n \in DOMAIN timq /\ i \in DOMAIN timq /\ due[timq[n]] >= due[t]
    BY <1>0, <1>1
  <2>2. CASE i = n
    BY <2>1, <2>2
  <2>3. CASE n < i
    <3>1. due[timq[n]] <= due[timq[i]]
        BY <2>1, <2>3 DEF TimerInv, TimqSorted
    <3> QED BY <1>0, <2>1, <3>1
  <2> QED BY <1>0, <2>2, <2>3
<1>6. ASSUME NEW i \in DOMAIN timq', NEW j \in DOMAIN timq', i < j
      PROVE  due[timq'[i]] <= due[timq'[j]]
  <2>0. /\ i \in Int /\ j \in Int /\ 1 <= i /\ j <= Len(timq) + 1 /\ n \in Int
        /\ 1 <= n /\ n <= Len(timq) + 1
        /\ \A k, l \in 1 .. Len(timq) : k < l => due[timq[k]] <= due[timq[l]]
    <3>1. \A k, l \in 1 .. Len(timq) : k < l => due[timq[k]] <= due[timq[l]]
        BY <1>0 DEF TimerInv, TimqSorted
    <3>2. Len(timq) \in Nat
        BY <1>0
    <3>3. i \in 1 .. Len(timq) + 1 /\ j \in 1 .. Len(timq) + 1
        BY <1>3
    <3> QED BY <3>1, <3>2, <3>3
  <2>1. CASE j < n
    <3>1. timq'[i] = timq[i] /\ timq'[j] = timq[j] /\ i \in 1 .. Len(timq) /\ j \in 1 .. Len(timq)
        BY <1>0, <1>2, <1>6, <2>0, <2>1
    <3> QED BY <1>6, <2>0, <3>1
  <2>2. CASE j = n
    <3>1. timq'[i] = timq[i] /\ timq'[j] = t /\ i \in 1 .. n - 1 /\ i \in 1 .. Len(timq)
        BY <1>0, <1>2, <1>6, <2>0, <2>2
    <3> QED BY <1>0, <1>1, <3>1
  <2>3. CASE j > n /\ i < n
    <3>1. /\ timq'[i] = timq[i] /\ timq'[j] = timq[j - 1] /\ i < j - 1
          /\ i \in 1 .. Len(timq) /\ j - 1 \in 1 .. Len(timq)
        BY <1>0, <1>2, <1>6, <2>0, <2>3
    <3> QED BY <2>0, <3>1
  <2>4. CASE j > n /\ i = n
    <3>1. timq'[i] = t /\ timq'[j] = timq[j - 1] /\ j - 1 >= n /\ j - 1 \in 1 .. Len(timq)
        BY <1>0, <1>2, <1>6, <2>0, <2>4
    <3> QED BY <1>0, <1>5, <3>1
  <2>5. CASE j > n /\ i > n
    <3>1. /\ timq'[i] = timq[i - 1] /\ timq'[j] = timq[j - 1] /\ i - 1 < j - 1
          /\ i - 1 \in 1 .. Len(timq) /\ j - 1 \in 1 .. Len(timq)
        BY <1>0, <1>2, <1>6, <2>0, <2>5
    <3> QED BY <2>0, <3>1
  <2> QED BY <2>0, <2>1, <2>2, <2>3, <2>4, <2>5
<1>7. \A i, j \in DOMAIN timq' : i < j => timq'[i] # timq'[j]
    BY <1>2, <1>3 DEF NoTwice
<1> QED BY <1>4, <1>6, <1>7 DEF TimqSorted

\* vsf_timq_remove keeps the queue sorted.
LEMMA RemoveSorted ==
    ASSUME TimerInv, NEW t \in Tedas, NEW n \in DOMAIN timq, timq[n] = t,
           timq' = RemoveAt(timq, n), due' = due,
           is_timed' = [is_timed EXCEPT ![t] = FALSE]
    PROVE  TimqSorted'
<1>0. /\ timq \in Seq(Tedas) /\ NoTwice(timq) /\ Len(timq) \in Nat
      /\ DOMAIN timq = 1 .. Len(timq) /\ is_timed \in [Tedas -> BOOLEAN]
    BY SortedFacts DEF TimerInv, TypeOK
<1>1. /\ timq' \in Seq(Tedas) /\ ToSet(timq)' = ToSet(timq) \ {t}
      /\ Len(timq') = Len(timq) - 1
      /\ \A j \in 1 .. Len(timq) - 1 :
            timq'[j] = IF j < n THEN timq[j] ELSE timq[j + 1]
    BY <1>0, RemoveAtPlaces, RemoveAtFacts
<1>2. DOMAIN timq' = 1 .. Len(timq) - 1
    BY <1>0, <1>1
<1>3. \A x \in Tedas : is_timed'[x] <=> x \in ToSet(timq)'
    BY <1>0, <1>1 DEF TimerInv, TimqSorted
<1>4. ASSUME NEW i \in DOMAIN timq', NEW j \in DOMAIN timq', i < j
      PROVE  timq'[i] # timq'[j] /\ due[timq'[i]] <= due[timq'[j]]
  <2>1. \E k, l \in DOMAIN timq : k < l /\ timq'[i] = timq[k] /\ timq'[j] = timq[l]
    <3>1. CASE j < n
        BY <1>0, <1>1, <1>2, <1>4, <3>1
    <3>2. CASE ~(j < n) /\ i < n
        <4>1. j + 1 \in DOMAIN timq /\ i \in DOMAIN timq /\ i < j + 1
            BY <1>0, <1>2, <1>4
        <4> QED BY <1>1, <1>2, <3>2, <4>1
    <3>3. CASE ~(i < n)
        <4>1. j + 1 \in DOMAIN timq /\ i + 1 \in DOMAIN timq /\ i + 1 < j + 1 /\ ~(j < n)
            BY <1>0, <1>2, <1>4, <3>3
        <4> QED BY <1>1, <1>2, <3>3, <4>1
    <3> QED BY <3>1, <3>2, <3>3
  <2> QED BY <2>1 DEF TimerInv, TimqSorted
<1> QED BY <1>3, <1>4 DEF TimqSorted

LEMMA TimerTask ==
    ASSUME TimerInv, TypeOK', NEW t \in Tedas, TaskAct(t) PROVE TimerInv'
<1>0. /\ UNCHANGED <<kpc, teda>> /\ kpc = "idle"
      /\ pc \in [Tedas -> PcType] /\ evts \in [Tedas -> Nat]
      /\ is_timed \in [Tedas -> BOOLEAN]
      /\ \A x \in Tedas : OneEvent(x) /\ CallOk(x)
    BY DEF TaskAct, SetDue, CancelClean, Receive, Cancel, ReadTick, TaskRuns,
           kernelVars, TimerInv, TypeOK, PcType
<1>1. \A x \in Tedas : ~Expiring(x) /\ ~Expiring(x)'
    BY <1>0 DEF Expiring
<1>2. \A x \in Tedas : x # t => /\ pc'[x] = pc[x] /\ evts'[x] = evts[x]
                                /\ is_timed'[x] = is_timed[x]
                                /\ x \in wants' <=> x \in wants
    BY <1>0
       DEF TaskAct, SetDue, CancelClean, Receive, Cancel, ReadTick, queueVars, histVars
<1>3. \A x \in Tedas : x # t => OneEvent(x)' /\ CallOk(x)'
    BY <1>0, <1>1, <1>2 DEF OneEvent, CallOk
<1>4. TimqSorted'
  <2>1. CASE SetDue(t)
    <3>1. ~is_timed[t]
        BY <1>0, <2>1 DEF SetDue, CallOk
    <3> QED BY <2>1, <3>1, InsertSorted DEF SetDue
  <2>2. CASE Cancel(t) /\ is_timed[t]
    BY <2>2, RemoveSorted DEF Cancel
  <2>3. CASE Cancel(t) /\ ~is_timed[t]
    <3>1. \A x \in Tedas : is_timed'[x] = is_timed[x]
        BY <1>0, <2>3 DEF Cancel
    <3> QED BY <2>3, <3>1 DEF Cancel, TimerInv, TimqSorted
  <2>4. CASE CancelClean(t) \/ Receive(t)
    BY <2>4 DEF CancelClean, Receive, queueVars, TimerInv, TimqSorted
  <2>5. CASE \E d \in Delays : ReadTick(t, d)
    <3>1. /\ UNCHANGED <<timq, is_timed>> /\ t \notin wants
          /\ \A x \in Tedas : x # t => due'[x] = due[x]
        BY <2>5 DEF ReadTick, TimerInv, TypeOK
    <3>2. t \notin ToSet(timq)
        BY <1>0, <3>1 DEF TimerInv, TimqSorted, OneEvent
    <3>3. \A i \in DOMAIN timq : due'[timq[i]] = due[timq[i]]
        BY <3>1, <3>2, SortedFacts DEF ToSet
    <3> QED BY <3>1, <3>3 DEF TimerInv, TimqSorted
  <2> QED BY <2>1, <2>2, <2>3, <2>4, <2>5 DEF TaskAct
<1>5. OneEvent(t)' /\ CallOk(t)'
  <2>0. OneEvent(t) /\ CallOk(t) /\ ~Expiring(t) /\ ~Expiring(t)' /\ evts[t] \in Nat
    BY <1>0, <1>1
  <2>1. CASE SetDue(t)
    <3>1. /\ pc[t] = "insert" /\ pc'[t] \in {"update", "idle"} /\ is_timed'[t] = TRUE
          /\ UNCHANGED <<evts, wants>>
        BY <1>0, <2>1 DEF SetDue, histVars
    <3> QED BY <2>0, <3>1 DEF OneEvent, CallOk
  <2>2. CASE Cancel(t)
    <3>1. /\ pc'[t] = "clean" /\ is_timed'[t] = FALSE /\ UNCHANGED <<evts, wants>>
        BY <1>0, <2>2 DEF Cancel, histVars
    <3> QED BY <2>0, <3>1 DEF OneEvent, CallOk
  <2>3. CASE CancelClean(t)
    <3>1. /\ pc[t] = "clean" /\ pc'[t] = "idle" /\ evts'[t] = 0 /\ t \notin wants'
          /\ UNCHANGED is_timed
        BY <1>0, <2>3 DEF CancelClean, queueVars
    <3> QED BY <2>0, <3>1 DEF OneEvent, CallOk
  <2>4. CASE Receive(t)
    <3>1. /\ pc[t] = "idle" /\ UNCHANGED <<pc, is_timed>> /\ t \notin wants'
          /\ evts[t] > 0 /\ evts'[t] = evts[t] - 1
        BY <1>0, <2>4 DEF Receive, queueVars
    <3>2. evts[t] = 1 /\ evts'[t] = 0 /\ ~is_timed[t]
        BY <2>0, <3>1 DEF OneEvent
    <3> QED BY <2>0, <3>1, <3>2 DEF OneEvent, CallOk
  <2>5. CASE \E d \in Delays : ReadTick(t, d)
    <3>1. /\ pc'[t] = "insert" /\ UNCHANGED <<evts, is_timed>> /\ t \in wants'
          /\ t \notin wants
        BY <1>0, <2>5 DEF ReadTick
    <3>2. ~is_timed[t] /\ evts[t] = 0
        BY <2>0, <3>1 DEF OneEvent
    <3> QED BY <2>0, <3>1, <3>2 DEF OneEvent, CallOk
  <2> QED BY <2>1, <2>2, <2>3, <2>4, <2>5 DEF TaskAct
<1> QED BY <1>3, <1>4, <1>5 DEF TimerInv

LEMMA TimerNext == TimerInv /\ [Next]_<<vars, build>> => TimerInv'
<1> SUFFICES ASSUME TimerInv, [Next]_<<vars, build>> PROVE TimerInv'
    OBVIOUS
<1>1. TypeOK'
    BY TypeNext DEF TimerInv
<1>2. CASE Next
  <2>1. CASE Tick \/ Fire \/ Message
    BY <1>1, <2>1, TimerFrame DEF Tick, Fire, Message, queueVars, histVars
  <2> QED BY <1>1, <1>2, <2>1, NextCases, TimerKernel, TimerSystimer, TimerTask
<1>3. CASE UNCHANGED <<vars, build>>
    BY <1>1, <1>3, TimerFrame DEF vars
<1> QED BY <1>2, <1>3

LEMMA TimerInit == Init => TimerInv
<1> SUFFICES ASSUME Init PROVE TimerInv
    OBVIOUS
<1>1. TypeOK
    BY TypeInit
<1>2. TimqSorted
    BY DEF Init, TimqSorted, ToSet
<1>3. \A t \in Tedas : OneEvent(t) /\ CallOk(t)
    BY DEF Init, OneEvent, CallOk, Expiring
<1> QED BY <1>1, <1>2, <1>3 DEF TimerInv

\* For every set of edas, delays and configurations: the timer queue holds the
\* edas with is_timed, each once and sorted by due, and a timer that was set is
\* in one place only, the queue, the kernel task or the event queue of its eda,
\* so that it leads to one event and a cancelled one to none.
THEOREM TimqCorrect == Spec => []TimqIsSound
<1>1. TimerInv => TimqIsSound
    BY OneEventFacts DEF TimerInv, TimqIsSound
<1> QED BY <1>1, TimerInit, TimerNext, PTL DEF Spec
-----------------------------------------------------------------------------
(* The kernel task is told of the head *)

InUpdate == {"update", "check", "post"}
Unlocked == {"idle", "insert", "clean"}

\* Who is under vsf_protect_sched.
LockInv ==
    /\ \A t \in Tedas : owner = t => kpc = "idle" /\ pc[t] \in InUpdate
    /\ \A t \in Tedas : pc[t] \in InUpdate => owner = t
    /\ owner = Kernel <=> kpc \in InUpdate

\* In tick mode nothing is programmed, and one event at most is queued.
TickInv ==
    /\ armed = NoDue /\ kpc \notin InUpdate /\ Once(kq, "TIMER")
    /\ \A t \in Tedas : pc[t] \notin InUpdate

\* In tickless mode: what __vsf_systimer_update relies on when it leaves out a
\* due that it has programmed before.  A due in the future that was programmed
\* is still programmed, ...
StillArmed == pre_tick > now => armed = pre_tick
\* ... the kernel task is not woken before it with nothing to program, ...
NotForNothing ==
    pre_tick > now /\ (kpc # "idle" \/ "TIMER" \in ToSet(kq)) => timq # <<>>
\* ... and nothing else is due before it, once the update is done.
NothingEarlier ==
    pre_tick > now /\ timq # <<>> /\ (\A t \in Tedas : pc[t] # "update")
        => due[Head(timq)] >= pre_tick
\* A due is refused only if it has passed.
RefusedIsPast ==
    /\ kpc \in {"check", "post"} => pre_tick <= now
    /\ \A t \in Tedas : pc[t] \in {"check", "post"} => pre_tick <= now
\* A task that updates the system timer has a timer in the queue.
TaskHasTimer == \A t \in Tedas : pc[t] = "update" => timq # <<>>
\* HeadIsArmed, with the contexts told apart.
HeadInv ==
    timq # <<>> =>
        \/ armed # NoDue /\ armed <= due[Head(timq)]
        \/ processing \/ kpc # "idle" \/ \E t \in Tedas : pc[t] \in InUpdate
        \/ overlooked

TicklessInv == /\ StillArmed /\ NotForNothing /\ NothingEarlier
               /\ RefusedIsPast /\ TaskHasTimer /\ HeadInv

\* A timer that was asked for has a due.
DueIsSet == \A t \in wants : due[t] # NoDue

ToldInv == /\ TimerInv /\ LockInv /\ DueIsSet
           /\ ~Tickless => TickInv
           /\ Tickless => TicklessInv

LEMMA CtxFacts ==
    /\ Kernel \in Ctxs /\ Tedas \subseteq Ctxs /\ Ctxs = Tedas \cup {Kernel}
    /\ Kernel \notin Tedas /\ NoCtx \notin Tedas /\ NoCtx # Kernel
BY TedaAssumption DEF Ctxs

LEMMA IntFacts ==
    ASSUME TypeOK
    PROVE  /\ now \in Int /\ now >= 1 /\ armed \in Int /\ pre_tick \in Int
           /\ \A t \in Tedas : due[t] \in Int
           /\ timq # <<>> => Head(timq) \in Tedas /\ due[Head(timq)] \in Int
<1>1. Ticks \cup {NoDue} \subseteq Int /\ \A n \in Ticks : n >= 1
    BY TickFacts
<1>2. /\ now \in Ticks /\ armed \in Ticks \cup {NoDue} /\ pre_tick \in Ticks \cup {NoDue}
      /\ due \in [Tedas -> Ticks \cup {NoDue}]
    BY DEF TypeOK
<1>3. timq # <<>> => Head(timq) \in Tedas
    BY HeadFacts
<1> QED BY <1>1, <1>2, <1>3

\* The shape of the steps of __vsf_systimer_update.
LEMMA SystimerShape ==
    ASSUME TypeOK, LockInv, NEW c \in Ctxs, Systimer(c)
    PROVE  /\ owner = c /\ At(c) \in InUpdate
           /\ \/ Leave(c) /\ owner' = NoCtx
              \/ owner' = owner /\ (Enter(c, "check") \/ Enter(c, "post"))
<1>1. At(c) \in InUpdate
    BY DEF Systimer, Update, WakeupCheck, WakeupPost, InUpdate
<1>2. owner = c
    BY <1>1, CtxFacts DEF At, LockInv
<1>3. \/ Leave(c) /\ owner' = NoCtx
      \/ owner' = owner /\ (Enter(c, "check") \/ Enter(c, "post"))
    BY DEF Systimer, Update, WakeupCheck, WakeupPost
<1> QED BY <1>1, <1>2, <1>3

\* What a step of a context does to the program counters.
LEMMA MoveFacts ==
    ASSUME TypeOK, NEW c \in Ctxs, NEW v \in {"check", "post"}
    PROVE  /\ Leave(c) =>
                 /\ c = Kernel => kpc' = "idle" /\ pc' = pc
                 /\ c # Kernel => /\ kpc' = kpc /\ pc'[c] = "idle"
                                  /\ \A t \in Tedas : t # c => pc'[t] = pc[t]
           /\ Enter(c, v) =>
                 /\ c = Kernel => kpc' = v /\ pc' = pc
                 /\ c # Kernel => /\ kpc' = kpc /\ pc'[c] = v
                                  /\ \A t \in Tedas : t # c => pc'[t] = pc[t]
<1>1. pc \in [Tedas -> PcType] /\ (c # Kernel => c \in Tedas)
    BY CtxFacts DEF TypeOK, PcType
<1> QED BY <1>1 DEF Leave, Enter

LEMMA LockSystimer ==
    ASSUME TypeOK, LockInv, NEW c \in Ctxs, Systimer(c) PROVE LockInv'
<1>1. /\ owner = c /\ At(c) \in InUpdate
      /\ \/ Leave(c) /\ owner' = NoCtx
         \/ owner' = owner /\ (Enter(c, "check") \/ Enter(c, "post"))
    BY SystimerShape
<1>2. CASE c = Kernel
  <2>1. /\ pc' = pc /\ \A t \in Tedas : pc[t] \notin InUpdate
    BY <1>1, <1>2, MoveFacts, CtxFacts DEF LockInv
  <2> QED BY <1>1, <1>2, <2>1, MoveFacts, CtxFacts DEF LockInv, InUpdate
<1>3. CASE c # Kernel
  <2>0. c \in Tedas
    BY <1>3, CtxFacts
  <2>1. /\ kpc' = kpc /\ kpc = "idle"
        /\ \A t \in Tedas : t # c => pc'[t] = pc[t] /\ pc[t] \notin InUpdate
    BY <1>1, <1>3, <2>0, MoveFacts, CtxFacts DEF LockInv
  <2>2. CASE Leave(c) /\ owner' = NoCtx
    BY <1>3, <2>0, <2>1, <2>2, MoveFacts, CtxFacts DEF LockInv, InUpdate
  <2>3. CASE owner' = owner /\ (Enter(c, "check") \/ Enter(c, "post"))
    BY <1>1, <1>3, <2>0, <2>1, <2>3, MoveFacts, CtxFacts DEF LockInv, InUpdate
  <2> QED BY <1>1, <2>2, <2>3
<1> QED BY <1>2, <1>3

LEMMA LockTask ==
    ASSUME TypeOK, LockInv, NEW t \in Tedas, TaskAct(t) PROVE LockInv'
<1>1. /\ kpc = "idle" /\ kpc' = kpc
      /\ owner = t \/ owner = NoCtx
      /\ pc \in [Tedas -> PcType]
    BY DEF TaskAct, SetDue, CancelClean, Receive, Cancel, ReadTick, TaskRuns,
           kernelVars, TypeOK, PcType
<1>2. \A x \in Tedas : x # t => pc'[x] = pc[x] /\ pc[x] \notin InUpdate
    BY <1>1, CtxFacts
       DEF TaskAct, SetDue, CancelClean, Receive, Cancel, ReadTick, LockInv
<1>3. \/ owner' = t /\ pc'[t] \in InUpdate
      \/ owner' = NoCtx /\ pc'[t] \notin InUpdate
  <2>1. CASE SetDue(t)
    BY <1>1, <2>1 DEF SetDue, InUpdate
  <2>2. CASE \/ Receive(t) \/ Cancel(t) \/ CancelClean(t)
             \/ \E d \in Delays : ReadTick(t, d)
    <3>1. owner = NoCtx
        BY <1>1, <2>2 DEF LockInv, Receive, Cancel, CancelClean, ReadTick, InUpdate
    <3> QED BY <1>1, <2>2, <3>1 DEF Receive, Cancel, CancelClean, ReadTick, InUpdate
  <2> QED BY <2>1, <2>2 DEF TaskAct
<1> QED BY <1>1, <1>2, <1>3, CtxFacts DEF LockInv, InUpdate

LEMMA LockKernel ==
    ASSUME TypeOK, LockInv,
           KernelDispatch \/ KernelExpire \/ KernelPost \/ KernelDone
    PROVE  LockInv'
<1>1. /\ pc' = pc /\ kpc \notin InUpdate /\ owner = NoCtx
    BY DEF KernelDispatch, KernelExpire, KernelPost, KernelDone, KernelRuns,
           LockInv, InUpdate
<1>2. \A t \in Tedas : pc[t] \notin InUpdate
    BY <1>1, CtxFacts DEF LockInv
<1>3. \/ owner' = NoCtx /\ kpc' \notin InUpdate
      \/ owner' = Kernel /\ kpc' = "update"
    BY <1>1 DEF KernelDispatch, KernelExpire, KernelPost, KernelDone, InUpdate
<1> QED BY <1>1, <1>2, <1>3, CtxFacts DEF LockInv, InUpdate

LEMMA LockNext ==
    ASSUME TypeOK, LockInv, [Next]_<<vars, build>> PROVE LockInv'
<1>1. CASE Tick \/ Fire \/ Message \/ UNCHANGED <<vars, build>>
  <2>1. UNCHANGED <<owner, pc, kpc>>
    BY <1>1 DEF Tick, Fire, Message, vars
  <2> QED BY <2>1 DEF LockInv
<1>2. CASE Next /\ ~(Tick \/ Fire \/ Message)
    BY <1>2, NextCases, LockSystimer, LockTask, LockKernel
<1> QED BY <1>1, <1>2

LEMMA DueNext ==
    ASSUME TypeOK, DueIsSet, [Next]_<<vars, build>> PROVE DueIsSet'
<1>1. ASSUME NEW t \in Tedas, NEW d \in Delays, ReadTick(t, d) PROVE DueIsSet'
  <2>1. now \in Int /\ d \in Int /\ now >= 1 /\ d >= 1
    BY IntFacts, TickFacts
  <2>2. now + d # NoDue
    BY <2>1, TickFacts
  <2>3. /\ due' = [due EXCEPT ![t] = now + d] /\ wants' = wants \cup {t}
        /\ due \in [Tedas -> Ticks \cup {NoDue}] /\ wants \subseteq Tedas
    BY <1>1 DEF ReadTick, TypeOK
  <2> QED BY <2>2, <2>3 DEF DueIsSet
<1>2. CASE ~\E t \in Tedas : \E d \in Delays : ReadTick(t, d)
  <2>1. due' = due /\ wants' \subseteq wants
    <3>1. CASE UNCHANGED <<vars, build>>
        BY <3>1 DEF vars
    <3>2. CASE Tick \/ Fire \/ Message
        BY <3>2 DEF Tick, Fire, Message, queueVars, histVars
    <3>3. CASE KernelDispatch \/ KernelExpire \/ KernelPost \/ KernelDone
        BY <3>3
           DEF KernelDispatch, KernelExpire, KernelPost, KernelDone, queueVars, histVars
    <3>4. ASSUME NEW c \in Ctxs, Systimer(c) PROVE due' = due /\ wants' \subseteq wants
        BY <3>4 DEF Systimer, Update, WakeupCheck, WakeupPost, queueVars, histVars
    <3>5. ASSUME NEW t \in Tedas, TaskAct(t) PROVE due' = due /\ wants' \subseteq wants
        BY <1>2, <3>5
           DEF TaskAct, SetDue, CancelClean, Receive, Cancel, queueVars, histVars
    <3> QED BY <3>1, <3>2, <3>3, <3>4, <3>5, NextCases
  <2> QED BY <2>1 DEF DueIsSet
<1> QED BY <1>1, <1>2

LEMMA TickNext ==
    ASSUME TypeOK, TickInv, ~Tickless, [Next]_<<vars, build>> PROVE TickInv'
<1>0. kq \in Seq({"TIMER", "MESSAGE"}) /\ Once(kq, "TIMER")
    BY DEF TypeOK, TickInv
<1>1. CASE UNCHANGED <<vars, build>>
    BY <1>1 DEF vars, TickInv
<1>2. CASE Tick
  <2>1. UNCHANGED <<armed, kpc, pc>> /\ (kq' = kq \/ (kq = <<>> /\ kq' = Append(kq, "TIMER")))
    BY <1>2 DEF Tick, OnTick, KernelPending, timerVars
  <2>2. Once(kq, "TIMER")'
    <3>1. CASE kq' = kq
        BY <1>0, <3>1
    <3>2. CASE kq = <<>> /\ kq' = Append(kq, "TIMER")
        <4>1. "TIMER" \notin ToSet(kq)
            BY <3>2 DEF ToSet
        <4>2. Once(Append(kq, "TIMER"), "TIMER")
            BY <1>0, <4>1, OnceFacts
        <4> QED BY <3>2, <4>2
    <3> QED BY <2>1, <3>1, <3>2
  <2> QED BY <2>1, <2>2 DEF TickInv
<1>3. CASE Fire
    BY <1>3 DEF Fire, TickInv
<1>4. CASE Message
  <2>1. Once(kq, "TIMER")'
    BY <1>0, <1>4, OnceFacts DEF Message
  <2> QED BY <1>4, <2>1 DEF Message, TickInv, timerVars
<1>5. CASE KernelDispatch
  <2>1. Once(kq, "TIMER")'
    BY <1>0, <1>5, OnceFacts DEF KernelDispatch
  <2> QED BY <1>5, <2>1 DEF KernelDispatch, TickInv, timerVars, InUpdate
<1>6. CASE KernelExpire \/ KernelPost \/ KernelDone
    BY <1>6 DEF KernelExpire, KernelPost, KernelDone, TickInv, timerVars, InUpdate
<1>7. ASSUME NEW c \in Ctxs, Systimer(c) PROVE FALSE
  <2>1. At(c) \in InUpdate
    BY <1>7 DEF Systimer, Update, WakeupCheck, WakeupPost, InUpdate
  <2> QED BY <2>1, CtxFacts DEF At, TickInv
<1>8. ASSUME NEW t \in Tedas, TaskAct(t) PROVE TickInv'
  <2>1. UNCHANGED <<kq, kpc, armed>>
    BY <1>8 DEF TaskAct, SetDue, CancelClean, Receive, Cancel, ReadTick,
                kernelVars, timerVars
  <2>2. pc \in [Tedas -> PcType]
    BY DEF TypeOK, PcType
  <2>3. \A x \in Tedas : pc'[x] \notin InUpdate
    BY <1>8, <2>2 DEF TaskAct, SetDue, CancelClean, Receive, Cancel, ReadTick,
                      TickInv, InUpdate
  <2> QED BY <2>1, <2>3 DEF TickInv
<1> QED BY <1>1, <1>2, <1>3, <1>4, <1>5, <1>6, <1>7, <1>8, NextCases

\* The head of the timer queue has a due.
LEMMA HeadIsSet ==
    ASSUME TimerInv, DueIsSet, timq # <<>>
    PROVE  Head(timq) \in Tedas /\ due[Head(timq)] # NoDue
<1>1. Head(timq) \in Tedas /\ Head(timq) \in ToSet(timq)
    BY HeadFacts DEF TimerInv
<1>2. Head(timq) \in wants
    BY <1>1 DEF TimerInv, TimqSorted, OneEvent
<1> QED BY <1>1, <1>2 DEF DueIsSet

\* A step that changes nothing a tickless timer depends on.
LEMMA TicklessFrame ==
    ASSUME TypeOK, TypeOK', TicklessInv,
           UNCHANGED <<timq, due, armed, pre_tick, processing, overlooked>>,
           now' >= now,
           "TIMER" \in ToSet(kq)' => "TIMER" \in ToSet(kq),
           kpc' = "idle" <=> kpc = "idle",
           kpc' \in {"check", "post"} => kpc \in {"check", "post"},
           \A t \in Tedas : pc'[t] = pc[t] \/ {pc'[t], pc[t]} \subseteq {"idle", "clean"}
    PROVE  TicklessInv'
<1>0. now \in Int /\ now' \in Int /\ pre_tick \in Int
    BY IntFacts, TickFacts DEF TypeOK
<1>1. pre_tick' > now' => pre_tick > now
    BY <1>0
<1>2. pre_tick <= now => pre_tick' <= now'
    BY <1>0
<1>3. \A t \in Tedas : \A v \in {"insert", "update", "check", "post"} :
         pc'[t] = v <=> pc[t] = v
    OBVIOUS
<1>4. StillArmed' /\ NotForNothing'
    BY <1>1 DEF TicklessInv, StillArmed, NotForNothing
<1>5. NothingEarlier'
    BY <1>1, <1>3 DEF TicklessInv, NothingEarlier
<1>6. RefusedIsPast'
    BY <1>2, <1>3 DEF TicklessInv, RefusedIsPast
<1>7. TaskHasTimer'
    BY <1>3 DEF TicklessInv, TaskHasTimer
<1>8. HeadInv'
    BY <1>3 DEF TicklessInv, HeadInv, InUpdate
<1> QED BY <1>4, <1>5, <1>6, <1>7, <1>8 DEF TicklessInv

LEMMA TicklessInterrupt ==
    ASSUME TypeOK, TypeOK', Tickless, TicklessInv, Tick \/ Message PROVE TicklessInv'
<1>1. kq \in Seq({"TIMER", "MESSAGE"}) /\ now \in Int
    BY IntFacts DEF TypeOK
<1>2. "TIMER" \in ToSet(kq)' => "TIMER" \in ToSet(kq)
  <2>1. CASE kq' = kq
    BY <2>1
  <2>2. CASE kq' = Append(kq, "MESSAGE")
    BY <1>1, <2>2, AppendFacts
  <2> QED BY <2>1, <2>2 DEF Tick, Message
<1>3. now' >= now
    BY <1>1 DEF Tick, Message
<1>4. UNCHANGED <<timq, due, armed, pre_tick, processing, pc, kpc, overlooked>>
    BY DEF Tick, Message, queueVars, timerVars, histVars
<1> QED BY <1>2, <1>3, <1>4, TicklessFrame

LEMMA TicklessFire ==
    ASSUME TypeOK, TypeOK', TicklessInv, Fire PROVE TicklessInv'
<1>1. /\ armed <= now /\ processing' /\ UNCHANGED <<now, timq, due, pc, kpc, owner, pre_tick>>
    BY DEF Fire, Wakeup, queueVars
<1>2. pre_tick <= now
    BY <1>1, IntFacts DEF TicklessInv, StillArmed
<1>3. ~(pre_tick' > now')
    BY <1>1, <1>2, IntFacts
<1>4. RefusedIsPast'
    BY <1>1 DEF TicklessInv, RefusedIsPast
<1>5. TaskHasTimer'
    BY <1>1 DEF TicklessInv, TaskHasTimer
<1> QED BY <1>1, <1>3, <1>4, <1>5
        DEF TicklessInv, StillArmed, NotForNothing, NothingEarlier, HeadInv

\* Outside of a protected section no eda updates the system timer.
LEMMA NoCall ==
    ASSUME TypeOK, LockInv
    PROVE  \A t \in Tedas : owner # t => pc[t] \in Unlocked
<1>1. \A t \in Tedas : pc[t] \in PcType
    BY DEF TypeOK, PcType
<1> QED BY <1>1 DEF LockInv, InUpdate, PcType, Unlocked

LEMMA TicklessKernel ==
    ASSUME TimerInv, TypeOK, TypeOK', LockInv, Tickless, TicklessInv,
           KernelDispatch \/ KernelExpire \/ KernelPost \/ KernelDone
    PROVE  TicklessInv'
<1>0. /\ pc' = pc /\ kpc \notin InUpdate /\ owner = NoCtx
      /\ UNCHANGED <<now, due, armed, pre_tick, overlooked>>
    BY DEF KernelDispatch, KernelExpire, KernelPost, KernelDone, KernelRuns,
           LockInv, InUpdate, queueVars, timerVars, histVars
<1>1. \A t \in Tedas : pc[t] \in Unlocked
    BY <1>0, NoCall, CtxFacts
<1>2. TaskHasTimer'
    BY <1>0, <1>1 DEF TaskHasTimer, Unlocked
<1>3. RefusedIsPast'
    BY <1>0, <1>1
       DEF Unlocked, RefusedIsPast, KernelDispatch, KernelExpire, KernelPost, KernelDone
<1>4. StillArmed'
    BY <1>0 DEF TicklessInv, StillArmed
<1>5. kq \in Seq({"TIMER", "MESSAGE"})
    BY DEF TypeOK
<1>6. CASE KernelDispatch
  <2>1. /\ kq # <<>> /\ kq' = Tail(kq) /\ UNCHANGED <<timq, processing>>
        /\ kpc = "idle" /\ (kpc' = "idle" \/ Head(kq) = "TIMER")
    BY <1>6 DEF KernelDispatch, queueVars, timerVars
  <2>2. ToSet(kq)' \subseteq ToSet(kq) /\ Head(kq) \in ToSet(kq)
    BY <1>5, <2>1, TailFacts
  <2>3. NotForNothing'
    BY <1>0, <2>1, <2>2 DEF TicklessInv, NotForNothing
  <2>4. NothingEarlier'
    BY <1>0, <2>1 DEF TicklessInv, NothingEarlier
  <2>5. HeadInv'
    BY <1>0, <2>1 DEF TicklessInv, HeadInv
  <2> QED BY <1>2, <1>3, <1>4, <2>3, <2>4, <2>5 DEF TicklessInv
<1>7. CASE KernelExpire
  <2>1. timq # <<>> /\ due[Head(timq)] <= now /\ kpc' = "expired"
    BY <1>7 DEF KernelExpire, HeadIsDue
  <2>2. ~(pre_tick > now)
    BY <1>1, <2>1, IntFacts DEF TicklessInv, NothingEarlier, Unlocked
  <2> QED BY <1>0, <1>2, <1>3, <1>4, <2>1, <2>2
          DEF TicklessInv, NotForNothing, NothingEarlier, HeadInv
<1>8. CASE KernelPost
  <2>1. now' >= now
    BY <1>0, IntFacts
  <2> QED BY <1>0, <1>8, <2>1, TicklessFrame DEF KernelPost, queueVars, timerVars
<1>9. CASE KernelDone
  <2>1. UNCHANGED <<timq, kq>> /\ kpc = "timer" /\ kpc' = "update"
    BY <1>9 DEF KernelDone, queueVars
  <2>2. NotForNothing'
    BY <1>0, <2>1 DEF TicklessInv, NotForNothing
  <2>3. NothingEarlier'
    BY <1>0, <2>1 DEF TicklessInv, NothingEarlier
  <2> QED BY <1>2, <1>3, <1>4, <2>1, <2>2, <2>3 DEF TicklessInv, HeadInv
<1> QED BY <1>6, <1>7, <1>8, <1>9

\* __vsf_systimer_update and __vsf_systimer_wakeup, in any context.
LEMMA TicklessSystimer ==
    ASSUME TimerInv, TypeOK, TypeOK', LockInv, DueIsSet, TicklessInv,
           NEW c \in Ctxs, Systimer(c)
    PROVE  TicklessInv'
<1>0. UNCHANGED <<now, timq, due>> /\ owner = c
    BY SystimerShape DEF Systimer, Update, WakeupCheck, WakeupPost, queueVars
<1>1. \A t \in Tedas : t # c => pc[t] \in Unlocked /\ pc'[t] = pc[t]
  <2>1. Leave(c) \/ Enter(c, "check") \/ Enter(c, "post")
    BY SystimerShape
  <2>2. \A t \in Tedas : t # c => pc'[t] = pc[t]
    BY <2>1, MoveFacts, CtxFacts
  <2> QED BY <1>0, <2>2, NoCall
<1>2. ASSUME Leave(c)
      PROVE  (\A t \in Tedas : pc'[t] \in Unlocked) /\ kpc' = "idle"
  <2>1. c # Kernel => kpc = "idle"
    BY <1>0, CtxFacts DEF LockInv
  <2> QED BY <1>1, <1>2, <2>1, MoveFacts, CtxFacts DEF Unlocked
<1>3. ASSUME NEW v \in {"check", "post"}, Enter(c, v)
      PROVE  /\ \A t \in Tedas : pc'[t] \in Unlocked \cup {v}
             /\ kpc' = v \/ \E t \in Tedas : pc'[t] = v
    BY <1>1, <1>3, MoveFacts, CtxFacts DEF Unlocked
<1>4. TaskHasTimer'
    BY <1>2, <1>3, SystimerShape DEF TaskHasTimer, Unlocked
<1>5. ASSUME pre_tick' <= now,
             \/ Leave(c) /\ (timq = <<>> \/ processing')
             \/ Leave(c) /\ timq # <<>> /\ armed' # NoDue /\ armed' <= due[Head(timq)]
             \/ Enter(c, "check") \/ Enter(c, "post")
      PROVE  TicklessInv'
  <2>1. ~(pre_tick' > now')
    <3>1. pre_tick' \in Int
        BY TickFacts DEF TypeOK
    <3> QED BY <1>0, <1>5, <3>1, IntFacts
  <2>2. RefusedIsPast'
    BY <1>0, <1>5 DEF RefusedIsPast
  <2>3. HeadInv'
    BY <1>0, <1>3, <1>5 DEF HeadInv, InUpdate
  <2> QED BY <1>4, <2>1, <2>2, <2>3
          DEF TicklessInv, StillArmed, NotForNothing, NothingEarlier
<1>6. CASE At(c) \in {"check", "post"}
  <2>1. pre_tick <= now
    BY <1>6, CtxFacts DEF At, TicklessInv, RefusedIsPast
  <2>2. /\ pre_tick' = pre_tick /\ armed' = armed
        /\ \/ Leave(c) /\ processing'
           \/ Enter(c, "check") \/ Enter(c, "post")
    BY <1>6 DEF Systimer, Update, WakeupCheck, WakeupPost, timerVars
  <2> QED BY <1>5, <2>1, <2>2
<1>7. CASE Update(c) /\ timq = <<>>
  <2>1. /\ At(c) = "update" /\ Leave(c) /\ pre_tick' = pre_tick
        /\ armed' = NoDue \/ armed' = armed
    BY <1>7 DEF Update
  <2>2. c = Kernel
    BY <1>7, <2>1, CtxFacts DEF At, TicklessInv, TaskHasTimer
  <2>3. pre_tick <= now
    BY <1>7, <2>1, <2>2, IntFacts DEF At, TicklessInv, NotForNothing
  <2> QED BY <1>5, <1>7, <2>1, <2>3
<1>8. CASE Update(c) /\ timq # <<>>
  <2>0. PICK d \in Ticks : d = due[Head(timq)]
    BY <1>8, HeadFacts, HeadIsSet
  <2>1. /\ d \in Int /\ d # NoDue /\ now \in Int /\ d = due'[Head(timq')]
    BY <1>0, <2>0, TickFacts, IntFacts
  <2>2. CASE pre_tick' = d /\ armed' = d /\ Leave(c)
    <3>1. StillArmed' /\ NotForNothing' /\ NothingEarlier' /\ HeadInv'
        BY <1>0, <1>8, <2>1, <2>2 DEF StillArmed, NotForNothing, NothingEarlier, HeadInv
    <3>2. RefusedIsPast'
        BY <1>2, <2>2 DEF RefusedIsPast, Unlocked
    <3> QED BY <1>4, <3>1, <3>2 DEF TicklessInv
  <2>3. CASE pre_tick' = d /\ d <= now /\ armed' = armed /\ Enter(c, "check")
    BY <1>5, <2>3
  <2>4. CASE /\ c # Kernel /\ d = pre_tick /\ Leave(c)
             /\ UNCHANGED <<armed, pre_tick, processing, kq>>
             /\ overlooked' = (d <= now)
    <3>1. armed = d \/ overlooked'
        <4>1. CASE d <= now
            BY <2>4, <4>1
        <4>2. CASE d > now
            BY <2>4, <4>2 DEF TicklessInv, StillArmed
        <4> QED BY <2>1, <4>1, <4>2
    <3>2. HeadInv'
        BY <1>0, <2>1, <2>4, <3>1 DEF HeadInv
    <3>3. StillArmed' /\ NothingEarlier' /\ NotForNothing'
        BY <1>0, <1>8, <2>1, <2>4 DEF TicklessInv, StillArmed, NotForNothing, NothingEarlier
    <3>4. RefusedIsPast'
        BY <1>2, <2>4 DEF RefusedIsPast, Unlocked
    <3> QED BY <1>4, <3>2, <3>3, <3>4 DEF TicklessInv
  <2> QED BY <1>8, <2>0, <2>2, <2>3, <2>4 DEF Update, Skipped
<1> QED BY <1>6, <1>7, <1>8 DEF Systimer, WakeupCheck, WakeupPost

LEMMA InsertNotEmpty ==
    ASSUME TypeOK, NEW t \in Tedas, Insert(t) PROVE timq' # <<>>
<1>0. timq \in Seq(Tedas) /\ Len(timq) \in Nat
    BY DEF TypeOK
<1>1. PICK n \in 1 .. Len(timq) + 1 : timq' = InsertAt(timq, n, t)
    BY DEF Insert
<1>2. timq' \in Seq(Tedas) /\ Len(timq') = Len(timq) + 1
    BY <1>0, <1>1, InsertAtPlaces
<1> QED BY <1>0, <1>2

\* The head after vsf_timq_remove is due no earlier.
LEMMA RemoveHead ==
    ASSUME TimerInv, NEW n \in DOMAIN timq, timq' = RemoveAt(timq, n), timq' # <<>>
    PROVE  timq # <<>> /\ due[Head(timq)] <= due[Head(timq')]
<1>0. /\ timq \in Seq(Tedas) /\ Len(timq) \in Nat /\ DOMAIN timq = 1 .. Len(timq)
      /\ \A i \in 1 .. Len(timq) : due[timq[i]] \in Int
    BY SortedFacts
<1>1. /\ timq' \in Seq(Tedas) /\ Len(timq') = Len(timq) - 1
      /\ \A j \in 1 .. Len(timq) - 1 :
            timq'[j] = IF j < n THEN timq[j] ELSE timq[j + 1]
    BY <1>0, RemoveAtPlaces
<1>2. /\ Len(timq) > 1 /\ Head(timq') = timq'[1] /\ timq # <<>> /\ Head(timq) = timq[1]
    BY <1>0, <1>1
<1>3. 1 \in DOMAIN timq /\ 2 \in DOMAIN timq /\ 1 \in 1 .. Len(timq) - 1
    BY <1>0, <1>2
<1>4. timq'[1] = timq[1] \/ timq'[1] = timq[2]
    BY <1>1, <1>3
<1>5. due[timq[1]] <= due[timq[2]]
    BY <1>3 DEF TimerInv, TimqSorted
<1> QED BY <1>0, <1>2, <1>3, <1>4, <1>5

LEMMA TicklessTask ==
    ASSUME TimerInv, TypeOK, TypeOK', LockInv, Tickless, TicklessInv,
           NEW t \in Tedas, TaskAct(t)
    PROVE  TicklessInv'
<1>0. /\ UNCHANGED <<now, armed, pre_tick, processing, kq, kpc, overlooked>>
      /\ kpc = "idle" /\ pc \in [Tedas -> PcType]
    BY DEF TaskAct, SetDue, CancelClean, Receive, Cancel, ReadTick, TaskRuns,
           kernelVars, timerVars, histVars, TypeOK, PcType
<1>1. \A x \in Tedas : x # t => pc[x] \in Unlocked /\ pc'[x] = pc[x]
  <2>1. \A x \in Tedas : x # t => owner # x
    BY CtxFacts DEF TaskAct, SetDue, CancelClean, Receive, Cancel, ReadTick, TaskRuns
  <2>2. \A x \in Tedas : x # t => pc'[x] = pc[x]
    BY <1>0 DEF TaskAct, SetDue, CancelClean, Receive, Cancel, ReadTick
  <2> QED BY <2>1, <2>2, NoCall
<1>2. ASSUME pc'[t] \notin {"check", "post"} PROVE RefusedIsPast'
    BY <1>0, <1>1, <1>2 DEF RefusedIsPast, Unlocked
<1>3. StillArmed'
    BY <1>0 DEF TicklessInv, StillArmed
<1>4. CASE Receive(t) \/ CancelClean(t)
  <2>1. now' >= now
    BY <1>0, IntFacts
  <2>2. UNCHANGED <<timq, due>>
    BY <1>4 DEF Receive, CancelClean, queueVars
  <2>3. pc'[t] = pc[t] \/ {pc'[t], pc[t]} \subseteq {"idle", "clean"}
    BY <1>0, <1>4 DEF Receive, CancelClean
  <2> QED BY <1>0, <1>1, <2>1, <2>2, <2>3, TicklessFrame
<1>5. CASE SetDue(t)
  <2>1. /\ pc[t] = "insert" /\ Insert(t) /\ due' = due /\ pc'[t] = "update"
    BY <1>0, <1>5 DEF SetDue
  <2>2. timq' # <<>>
    BY <2>1, InsertNotEmpty
  <2>3. RefusedIsPast'
    BY <1>2, <2>1
  <2> QED BY <1>3, <2>1, <2>2, <2>3
          DEF TicklessInv, NotForNothing, NothingEarlier, TaskHasTimer, HeadInv, InUpdate
<1>6. CASE Cancel(t)
  <2>0. owner # t
    BY <1>6, CtxFacts DEF Cancel, LockInv, InUpdate
  <2>1. /\ kq = <<>> /\ due' = due /\ pc'[t] = "clean" /\ pc[t] = "idle"
    BY <1>0, <1>6, <2>0 DEF Cancel, TaskRuns
  <2>2. timq' # <<>> => timq # <<>> /\ due[Head(timq)] <= due[Head(timq')]
    <3>1. CASE is_timed[t]
        BY <1>6, <3>1, RemoveHead DEF Cancel
    <3>2. CASE ~is_timed[t]
        BY <1>6, <3>2, IntFacts DEF Cancel
    <3> QED BY <3>1, <3>2
  <2>3. TaskHasTimer'
    BY <1>1, <2>1 DEF TaskHasTimer, Unlocked
  <2>4. NotForNothing'
    BY <1>0, <2>1 DEF NotForNothing, ToSet
  <2>5. \A x \in Tedas : pc[x] \notin InUpdate
    BY <1>1, <2>1 DEF InUpdate, Unlocked
  <2>6. timq' # <<>> => /\ Head(timq') \in Tedas /\ due[Head(timq')] \in Int
                        /\ due[Head(timq)] \in Int
    <3>1. timq' # <<>> => Head(timq') \in Tedas
        <4>1. timq' \in Seq(Tedas)
            BY DEF TypeOK
        <4> QED BY <4>1
    <3> QED BY <2>2, <3>1, IntFacts
  <2>7. NothingEarlier'
    BY <1>0, <2>1, <2>2, <2>5, <2>6, IntFacts DEF TicklessInv, NothingEarlier, InUpdate
  <2>8. HeadInv'
    BY <1>0, <2>1, <2>2, <2>5, <2>6, IntFacts DEF TicklessInv, HeadInv
  <2> QED BY <1>2, <1>3, <2>1, <2>3, <2>4, <2>7, <2>8 DEF TicklessInv
<1>7. ASSUME NEW d \in Delays, ReadTick(t, d) PROVE TicklessInv'
  <2>1. /\ pc[t] = "idle" /\ pc'[t] = "insert" /\ timq' = timq
        /\ t \notin wants /\ due'[t] = now + d
        /\ \A x \in Tedas : x # t => due'[x] = due[x]
    BY <1>0, <1>7 DEF ReadTick, TypeOK
  <2>2. timq # <<>> => due'[Head(timq')] = due[Head(timq)]
    <3>1. ~is_timed[t]
        BY <2>1 DEF TimerInv, OneEvent
    <3>2. timq # <<>> => Head(timq) \in Tedas /\ Head(timq) # t
        BY <3>1, HeadFacts DEF TimerInv, TimqSorted
    <3> QED BY <2>1, <3>2
  <2>3. TaskHasTimer'
    BY <1>1, <2>1 DEF TaskHasTimer, Unlocked
  <2>4. NotForNothing'
    BY <1>0, <2>1 DEF TicklessInv, NotForNothing
  <2>5. NothingEarlier'
    BY <1>0, <1>1, <2>1, <2>2 DEF TicklessInv, NothingEarlier, Unlocked
  <2>6. HeadInv'
    BY <1>0, <1>1, <2>1, <2>2 DEF TicklessInv, HeadInv, InUpdate, Unlocked
  <2> QED BY <1>2, <1>3, <2>1, <2>3, <2>4, <2>5, <2>6 DEF TicklessInv
<1> QED BY <1>4, <1>5, <1>6, <1>7 DEF TaskAct

LEMMA ToldInit == Init => ToldInv
<1> SUFFICES ASSUME Init PROVE ToldInv
    OBVIOUS
<1>1. TimerInv
    BY TimerInit
<1>2. LockInv /\ DueIsSet
    BY CtxFacts DEF Init, LockInv, DueIsSet, InUpdate
<1>3. TickInv
    BY DEF Init, TickInv, InUpdate, Once
<1>4. TicklessInv
  <2>1. ~(pre_tick > now)
    BY DEF Init, NoDue
  <2> QED BY <2>1 DEF Init, TicklessInv, StillArmed, NotForNothing, NothingEarlier,
                      RefusedIsPast, TaskHasTimer, HeadInv
<1> QED BY <1>1, <1>2, <1>3, <1>4 DEF ToldInv

LEMMA ToldNext == ToldInv /\ [Next]_<<vars, build>> => ToldInv'
<1> SUFFICES ASSUME ToldInv, [Next]_<<vars, build>> PROVE ToldInv'
    OBVIOUS
<1>1. TypeOK /\ TimerInv /\ LockInv /\ DueIsSet /\ TimerInv' /\ TypeOK'
    BY TimerNext DEF ToldInv, TimerInv
<1>2. LockInv' /\ DueIsSet'
    BY <1>1, LockNext, DueNext
<1>3. Tickless' = Tickless
    BY NextCases DEF Tickless
<1>4. ~Tickless => TickInv'
    BY <1>1, TickNext DEF ToldInv
<1>5. ASSUME Tickless PROVE TicklessInv'
  <2>0. TicklessInv
    BY <1>5 DEF ToldInv
  <2>1. CASE UNCHANGED <<vars, build>>
    <3>1. now' >= now
        BY <1>1, <2>1, IntFacts DEF vars
    <3> QED BY <1>1, <2>0, <2>1, <3>1, TicklessFrame DEF vars
  <2>2. CASE Next
    BY <1>1, <1>5, <2>0, <2>2, NextCases, TicklessInterrupt, TicklessFire,
       TicklessKernel, TicklessSystimer, TicklessTask
  <2> QED BY <2>1, <2>2
<1> QED BY <1>1, <1>2, <1>3, <1>4, <1>5 DEF ToldInv

\* For every set of edas, delays and configurations, with tasks that are
\* overtaken between the reading of the tick and the insertion: the earliest
\* timer always has the system timer set no later or the kernel task on its way,
\* although __vsf_systimer_update leaves out a due that it has set before, unless
\* the last update left out a due that had passed; in tick mode one tick at most
\* is queued.
THEOREM KernelTold == Spec => []KernelIsTold
<1>1. ToldInv => KernelIsTold
  <2> SUFFICES ASSUME ToldInv PROVE KernelIsTold
    OBVIOUS
  <2>1. TicksDeduped
    BY DEF ToldInv, TickInv, Once, TicksDeduped
  <2>2. HeadIsArmed
    <3> SUFFICES ASSUME Tickless, timq # <<>>
                 PROVE  \/ armed # NoDue /\ armed <= due[Head(timq)]
                        \/ processing \/ overlooked
                        \/ \E c \in Ctxs : At(c) \in InUpdate \cup {"timer", "expired"}
        BY DEF HeadIsArmed, HeadIsTold, InUpdate
    <3>1. CASE kpc # "idle"
        <4>1. kpc \in InUpdate \cup {"timer", "expired"}
            BY <3>1 DEF ToldInv, TimerInv, TypeOK, InUpdate
        <4> QED BY <4>1, CtxFacts DEF At
    <3>2. CASE \E t \in Tedas : pc[t] \in InUpdate
        BY <3>2, CtxFacts DEF At
    <3> QED BY <3>1, <3>2 DEF ToldInv, TicklessInv, HeadInv
  <2> QED BY <2>1, <2>2 DEF KernelIsTold
<1> QED BY <1>1, ToldInit, ToldNext, PTL DEF Spec
=============================================================================
