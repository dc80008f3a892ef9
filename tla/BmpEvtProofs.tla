----------------------------- MODULE BmpEvtProofs -----------------------------
(***************************************************************************)
(* Proofs about the bitmap event, for any number of tasks and bits,        *)
(* whatever the tasks wait for and whatever their priorities are.          *)
(***************************************************************************)
EXTENDS BmpEvt, ListLemmas, TLAPS

\* A task that polls has the event in its queue, or carries it from one task of
\* the list to the next.
Asked(t) == "POLL" \in ToSet(evts[t])
Carries(t) ==
    \/ at[t].pc \in {"head", "post", "next", "repoll"} /\ at[t].evt = "POLL"
    \/ at[t].pc \in {"reset", "clear", "remove"} /\ Listed(t)

\* Who stands where in the list: a task that waits, and one that is in a call
\* which returns to its wait, is in the list.
AtOf(t) ==
    /\ at[t].pc \in {"start", "repoll", "reset", "clear", "remove"} =>
          at[t].evt = "POLL"
    /\ at[t].pc = "wait" => Listed(t)
    /\ at[t].pc = "idle" => ~Listed(t)
    /\ at[t].pc \in {"start", "head", "post", "next", "repoll"} =>
          (Listed(t) <=> at[t].then = "wait")
    /\ at[t].pc \in {"reset", "clear", "remove"} => at[t].then = "idle"
    /\ at[t].pc = "remove" => Listed(t)
AtInv == \A t \in Tasks : AtOf(t)

\* The poll is in one place, is_polling says whether there is one, and after it
\* was dropped there is none any more.
PollInv ==
    /\ \A t \in Tasks : Once(evts[t], "POLL") /\ ~(Asked(t) /\ Carries(t))
    /\ \A t, u \in Tasks : Polling(t) /\ Polling(u) => t = u
    /\ dropped => \A t \in Tasks : ~Polling(t)
    /\ is_polling <=> (\E t \in Tasks : Polling(t)) \/ dropped
    /\ is_to_repoll => is_polling

SoundInv == TypeOK /\ NoTwice(pending_list) /\ AtInv /\ PollInv

\* In the list s, t is n or comes after it; t comes after n.
BehindIn(s, n, t) == \E i, j \in DOMAIN s : i <= j /\ s[i] = n /\ s[j] = t
PastIn(s, n, t) == \E i, j \in DOMAIN s : i < j /\ s[i] = n /\ s[j] = t

Behind(n, t) == BehindIn(pending_list, n, t)
Past(n, t) == PastIn(pending_list, n, t)

\* The poll that h carries comes to t, or to a task that has left the list.
Reaches(h, t) ==
    \/ Asked(h) /\ (~Listed(h) \/ Behind(h, t))
    \/ /\ Carries(h)
       /\ \/ at[h].pc \in {"head", "repoll"}
          \/ /\ at[h].pc = "post" /\ at[h].node # Null
             /\ ~Listed(at[h].node) \/ Behind(at[h].node, t)
          \/ at[h].pc = "next" /\ (~Listed(at[h].node) \/ Past(at[h].node, t))
          \/ at[h].pc \in {"reset", "clear", "remove"} /\ Behind(h, t)

\* A task whose bits are there and that was not passed is still ahead of the
\* poll, or the poll starts once more.
Ahead(t) ==
    \/ dropped \/ is_to_repoll
    \/ \E u \in Tasks : at[u].pc = "start"
    \/ \E h \in Tasks : Reaches(h, t)
CoverInv ==
    \A t \in Tasks : Listed(t) /\ Satisfied(t) /\ t \notin passed => Ahead(t)

-----------------------------------------------------------------------------
(* The list *)

\* Removing another node keeps the order of two nodes.
LEMMA RemovedOrder ==
    ASSUME NEW T, NEW s \in Seq(T), NEW i \in DOMAIN s, NEW n, NEW x,
           n # s[i], x # s[i]
    PROVE  /\ BehindIn(s, n, x) => BehindIn(RemoveAt(s, i), n, x)
           /\ PastIn(s, n, x) => PastIn(RemoveAt(s, i), n, x)
<1> DEFINE r == RemoveAt(s, i)
           to(a) == IF a < i THEN a ELSE a - 1
<1>1. /\ Len(r) = Len(s) - 1 /\ DOMAIN r = 1 .. Len(s) - 1
      /\ \A j \in 1 .. Len(s) - 1 : r[j] = IF j < i THEN s[j] ELSE s[j + 1]
    BY RemoveAtPlaces
<1>2. Len(s) \in Nat /\ DOMAIN s = 1 .. Len(s) /\ i \in 1 .. Len(s)
    OBVIOUS
<1> HIDE DEF r
<1>3. ASSUME NEW a \in DOMAIN s, s[a] # s[i]
      PROVE  to(a) \in DOMAIN r /\ r[to(a)] = s[a]
  <2>1. a # i /\ a \in 1 .. Len(s)
    BY <1>2, <1>3
  <2>2. CASE a < i
    BY <1>1, <1>2, <2>1, <2>2
  <2>3. CASE ~(a < i)
    <3>1. a - 1 \in 1 .. Len(s) - 1 /\ ~(a - 1 < i) /\ (a - 1) + 1 = a
        BY <1>2, <2>1, <2>3
    <3> QED BY <1>1, <2>3, <3>1
  <2> QED BY <2>2, <2>3
<1>4. \A a, b \in DOMAIN s : a <= b => to(a) <= to(b)
    BY <1>2
<1>5. \A a, b \in DOMAIN s : a < b /\ a # i /\ b # i => to(a) < to(b)
    BY <1>2
<1> HIDE DEF to
<1>6. BehindIn(s, n, x) => BehindIn(r, n, x)
    BY <1>3, <1>4 DEF BehindIn
<1>7. PastIn(s, n, x) => PastIn(r, n, x)
    BY <1>3, <1>5 DEF PastIn
<1> QED BY <1>6, <1>7 DEF r

\* What comes after the node at i, and the node after it.
LEMMA AfterFacts ==
    ASSUME NEW T, NEW s \in Seq(T), NoTwice(s), NEW i \in DOMAIN s
    PROVE  LET a == SubSeq(s, i + 1, Len(s)) IN
           /\ a \in Seq(T)
           /\ \A x : PastIn(s, s[i], x) <=> x \in ToSet(a)
           /\ \A x \in ToSet(a) : BehindIn(s, Head(a), x)
           /\ \A x : BehindIn(s, s[i], x) <=> x = s[i] \/ PastIn(s, s[i], x)
<1> DEFINE a == SubSeq(s, i + 1, Len(s))
<1>1. Len(s) \in Nat /\ DOMAIN s = 1 .. Len(s) /\ i \in 1 .. Len(s)
    OBVIOUS
<1>2. /\ a \in Seq(T) /\ Len(a) = Len(s) - i
      /\ \A j \in 1 .. Len(s) - i : a[j] = s[i + j]
    BY <1>1
<1>3. DOMAIN a = 1 .. Len(s) - i
    BY <1>2
<1> HIDE DEF a
<1>4. ASSUME NEW x, PastIn(s, s[i], x) PROVE x \in ToSet(a)
  <2>0. PICK k, j \in DOMAIN s : k < j /\ s[k] = s[i] /\ s[j] = x
    BY <1>4 DEF PastIn
  <2>1. k = i /\ i < j /\ s[j] = x
    BY <2>0 DEF NoTwice
  <2>2. j - i \in 1 .. Len(s) - i /\ i + (j - i) = j
    BY <1>1, <2>1
  <2>3. a[j - i] = x
    BY <1>2, <2>1, <2>2
  <2> QED BY <1>3, <2>2, <2>3 DEF ToSet
<1>5. ASSUME NEW x \in ToSet(a) PROVE PastIn(s, s[i], x) /\ BehindIn(s, Head(a), x)
  <2>1. PICK k \in 1 .. Len(s) - i : x = a[k]
    BY <1>3 DEF ToSet
  <2>2. i + k \in DOMAIN s /\ i < i + k /\ i + 1 \in DOMAIN s /\ i + 1 <= i + k
    BY <1>1
  <2>3. s[i + k] = x /\ s[i + 1] = Head(a)
    <3>1. 1 \in 1 .. Len(s) - i /\ Head(a) = a[1]
        BY <1>1, <1>2
    <3> QED BY <1>2, <2>1, <3>1
  <2> QED BY <2>2, <2>3 DEF PastIn, BehindIn
<1>6. ASSUME NEW x PROVE BehindIn(s, s[i], x) <=> x = s[i] \/ PastIn(s, s[i], x)
  <2>1. ASSUME BehindIn(s, s[i], x) PROVE x = s[i] \/ PastIn(s, s[i], x)
    <3>1. PICK j, k \in DOMAIN s : j <= k /\ s[j] = s[i] /\ s[k] = x
        BY <2>1 DEF BehindIn
    <3>2. j = k \/ j < k
        BY <1>1, <3>1
    <3> QED BY <3>1, <3>2 DEF PastIn
  <2>2. ASSUME x = s[i] \/ PastIn(s, s[i], x) PROVE BehindIn(s, s[i], x)
    BY <1>1, <2>2 DEF PastIn, BehindIn
  <2> QED BY <2>1, <2>2
<1> QED BY <1>2, <1>4, <1>5, <1>6 DEF a

\* Everything in the list is the first node or comes after it.
LEMMA FirstIsBeforeAll ==
    ASSUME NEW T, NEW s \in Seq(T)
    PROVE  /\ First(s) \in T \cup {Null}
           /\ \A x \in ToSet(s) : s # <<>> /\ First(s) = Head(s) /\ BehindIn(s, Head(s), x)
<1>1. First(s) \in T \cup {Null}
    BY DEF First
<1>2. ASSUME NEW x \in ToSet(s)
      PROVE  s # <<>> /\ First(s) = Head(s) /\ BehindIn(s, Head(s), x)
  <2>1. PICK k \in DOMAIN s : s[k] = x
    BY DEF ToSet
  <2>2. 1 \in DOMAIN s /\ Head(s) = s[1] /\ 1 <= k /\ s # <<>>
    OBVIOUS
  <2> QED BY <2>1, <2>2 DEF BehindIn, First
<1> QED BY <1>1, <1>2

LEMMA ListedFacts ==
    ASSUME TypeOK
    PROVE  /\ \A x : Listed(x) <=> x \in ToSet(pending_list)
           /\ \A x : Listed(x) => /\ x \in Tasks /\ Position(x) \in DOMAIN pending_list
                                  /\ pending_list[Position(x)] = x
           /\ Range(pending_list) \subseteq Tasks
<1>1. Range(pending_list) = ToSet(pending_list) /\ pending_list \in Seq(Tasks)
    BY DEF Range, ToSet, TypeOK
<1>2. ASSUME NEW x, Listed(x)
      PROVE  /\ x \in Tasks /\ Position(x) \in DOMAIN pending_list
             /\ pending_list[Position(x)] = x
  <2>1. \E i \in DOMAIN pending_list : pending_list[i] = x
    BY <1>2 DEF Listed, Range
  <2>2. Position(x) \in DOMAIN pending_list /\ pending_list[Position(x)] = x
    BY <2>1 DEF Position
  <2> QED BY <1>1, <2>2
<1> QED BY <1>1, <1>2 DEF Listed

\* A task leaves the list.
LEMMA WithoutFacts ==
    ASSUME TypeOK, NoTwice(pending_list), NEW t \in Tasks, Listed(t),
           pending_list' = Without(t)
    PROVE  /\ pending_list' \in Seq(Tasks) /\ NoTwice(pending_list')
           /\ \A x : Listed(x)' <=> Listed(x) /\ x # t
           /\ \A n, x : n # t /\ x # t => /\ Behind(n, x) => Behind(n, x)'
                                          /\ Past(n, x) => Past(n, x)'
<1>1. PICK s \in Seq(Tasks) : s = pending_list
    BY DEF TypeOK
<1>2. PICK i \in DOMAIN s : i = Position(t) /\ s[i] = t
    BY <1>1, ListedFacts
<1>3. pending_list' = RemoveAt(s, i)
    BY <1>1, <1>2 DEF Without
<1>4. /\ RemoveAt(s, i) \in Seq(Tasks) /\ NoTwice(RemoveAt(s, i))
      /\ ToSet(RemoveAt(s, i)) = ToSet(s) \ {t}
    BY <1>1, <1>2, RemoveAtFacts
<1>5. \A x : (Listed(x)' <=> x \in ToSet(pending_list)') /\ (Listed(x) <=> x \in ToSet(s))
    BY <1>1 DEF Listed, Range, ToSet
<1>6. ASSUME NEW n, NEW x, n # t, x # t
      PROVE  /\ Behind(n, x) => Behind(n, x)'
             /\ Past(n, x) => Past(n, x)'
  <2>1. /\ BehindIn(s, n, x) => BehindIn(RemoveAt(s, i), n, x)
        /\ PastIn(s, n, x) => PastIn(RemoveAt(s, i), n, x)
    BY <1>2, <1>6, RemovedOrder
  <2>2. Behind(n, x)' <=> BehindIn(pending_list', n, x)
    BY DEF Behind, BehindIn
  <2>3. Past(n, x)' <=> PastIn(pending_list', n, x)
    BY DEF Past, PastIn
  <2> QED BY <1>1, <1>3, <2>1, <2>2, <2>3 DEF Behind, Past
<1> QED BY <1>3, <1>4, <1>5, <1>6

\* The next task of one that is in the list, and what comes after it.
LEMMA NextFacts ==
    ASSUME TypeOK, NoTwice(pending_list), NEW t \in Tasks
    PROVE  /\ NextOf(t) \in Nodes
           /\ Listed(t) =>
                 /\ Range(After(t)) \subseteq Tasks
                 /\ \A x : Past(t, x) =>
                       x \in Range(After(t)) /\ NextOf(t) # Null /\ Behind(NextOf(t), x)
                 /\ \A x : Behind(t, x) => x = t \/ Past(t, x)
<1>1. CASE ~Listed(t)
    BY <1>1 DEF NextOf, Nodes
<1>2. CASE Listed(t)
  <2>1. PICK s \in Seq(Tasks) : s = pending_list
    BY DEF TypeOK
  <2>2. PICK i \in DOMAIN s : i = Position(t) /\ s[i] = t
    BY <1>2, <2>1, ListedFacts
  <2>3. PICK a \in Seq(Tasks) : a = SubSeq(s, i + 1, Len(s))
    BY <2>1, AfterFacts
  <2>4. /\ \A x : PastIn(s, t, x) <=> x \in ToSet(a)
        /\ \A x \in ToSet(a) : BehindIn(s, Head(a), x)
        /\ \A x : BehindIn(s, t, x) <=> x = t \/ PastIn(s, t, x)
    BY <2>1, <2>2, <2>3, AfterFacts
  <2>5. After(t) = a /\ NextOf(t) = First(a)
    BY <1>2, <2>1, <2>2, <2>3 DEF After, NextOf
  <2>6. First(a) \in Nodes /\ \A x \in ToSet(a) : First(a) = Head(a) /\ Head(a) \in Tasks
    <3>1. \A x \in ToSet(a) : a # <<>> /\ First(a) = Head(a)
        BY FirstIsBeforeAll
    <3>2. a # <<>> => Head(a) \in Tasks
        OBVIOUS
    <3> QED BY <3>1, <3>2 DEF First, Nodes
  <2>7. Range(a) = ToSet(a) /\ ToSet(a) \subseteq Tasks
    BY DEF Range, ToSet
  <2> HIDE DEF First
  <2> QED BY <2>1, <2>4, <2>5, <2>6, <2>7, TaskAssumption DEF Behind, Past
<1> QED BY <1>1, <1>2

-----------------------------------------------------------------------------
(* Where the tasks are, and where the poll is *)

AtType == [pc : Rests \cup Steps, evt : {"POLL", "CANCEL"}, node : Nodes,
           mask : SUBSET Bits, then : Rests]

\* The task t goes to the place r.
Goes(t, r) == at' = [at EXCEPT ![t] = r]

LEMMA AtFacts ==
    ASSUME TypeOK, NEW t \in Tasks
    PROVE  /\ at[t] \in AtType /\ at \in [Tasks -> AtType]
           /\ at[t].pc \in Rests \cup Steps /\ at[t].evt \in {"POLL", "CANCEL"}
           /\ at[t].node \in Nodes /\ at[t].mask \subseteq Bits /\ at[t].then \in Rests
BY DEF TypeOK, AtType

LEMMA GoesFacts ==
    ASSUME TypeOK, NEW t \in Tasks, NEW r \in AtType, Goes(t, r)
    PROVE  /\ at' \in [Tasks -> AtType] /\ at'[t] = r
           /\ \A u \in Tasks : u # t => at'[u] = at[u]
BY AtFacts DEF Goes

\* Another place, in the same call.
LEMMA GoesOn ==
    ASSUME TypeOK, NEW t \in Tasks, NEW pc \in Rests \cup Steps, Goto(t, pc)
    PROVE  \E r \in AtType : /\ Goes(t, r) /\ r.pc = pc /\ r.evt = at[t].evt
                             /\ r.node = at[t].node /\ r.then = at[t].then
<1> DEFINE r == [at[t] EXCEPT !.pc = pc]
<1>1. at[t] \in AtType /\ at \in [Tasks -> AtType]
    BY AtFacts
<1>2. r \in AtType /\ r.pc = pc /\ r.evt = at[t].evt /\ r.node = at[t].node /\ r.then = at[t].then
    BY <1>1 DEF AtType
<1>3. Goes(t, r)
    BY <1>1 DEF Goto, Goes
<1> QED BY <1>2, <1>3

LEMMA RestFacts ==
    ASSUME NEW p \in Rests
    PROVE  /\ Rest(p) \in AtType /\ Rest(p).pc = p /\ Rest(p).evt = "POLL"
           /\ Rest(p).node = Null /\ Rest(p).then = p
BY DEF Rest, AtType, Rests, Nodes

\* The places where a call begins that ends in p.
CallPlace(p, pc, evt) == [Rest(p) EXCEPT !.pc = pc, !.evt = evt]
ResetPlace(p, pc, mask) == [Rest(p) EXCEPT !.pc = pc, !.mask = mask]
PostPlace(p, pc, node) == [Rest(p) EXCEPT !.pc = pc, !.node = node]
CancelPlace(p, pc, evt, node) == [Rest(p) EXCEPT !.pc = pc, !.evt = evt, !.node = node]

LEMMA NewCall ==
    ASSUME NEW p \in Rests, NEW pc \in Steps, NEW evt \in {"POLL", "CANCEL"}
    PROVE  \E r \in AtType : /\ r = CallPlace(p, pc, evt)
                             /\ r.pc = pc /\ r.then = p /\ r.evt = evt
<1>1. PICK q \in AtType : q = Rest(p) /\ q.evt = "POLL" /\ q.then = p
    BY RestFacts
<1> DEFINE r == [q EXCEPT !.pc = pc, !.evt = evt]
<1>2. r \in AtType /\ r.pc = pc /\ r.then = p /\ r.evt = evt
    BY <1>1 DEF AtType
<1>3. r = CallPlace(p, pc, evt)
    BY <1>1 DEF CallPlace
<1> QED BY <1>2, <1>3

LEMMA NewReset ==
    ASSUME NEW p \in Rests, NEW pc \in Steps, NEW mask \in SUBSET Bits
    PROVE  \E r \in AtType : /\ r = ResetPlace(p, pc, mask)
                             /\ r.pc = pc /\ r.then = p /\ r.evt = "POLL"
<1>1. PICK q \in AtType : q = Rest(p) /\ q.evt = "POLL" /\ q.then = p
    BY RestFacts
<1> DEFINE r == [q EXCEPT !.pc = pc, !.mask = mask]
<1>2. r \in AtType /\ r.pc = pc /\ r.then = p /\ r.evt = "POLL"
    BY <1>1 DEF AtType
<1>3. r = ResetPlace(p, pc, mask)
    BY <1>1 DEF ResetPlace
<1> QED BY <1>2, <1>3

LEMMA NewPost ==
    ASSUME NEW p \in Rests, NEW pc \in Steps, NEW node \in Nodes
    PROVE  \E r \in AtType : /\ r = PostPlace(p, pc, node)
                             /\ r.pc = pc /\ r.then = p /\ r.evt = "POLL" /\ r.node = node
<1>1. PICK q \in AtType : q = Rest(p) /\ q.evt = "POLL" /\ q.then = p
    BY RestFacts
<1> DEFINE r == [q EXCEPT !.pc = pc, !.node = node]
<1>2. r \in AtType /\ r.pc = pc /\ r.then = p /\ r.evt = "POLL" /\ r.node = node
    BY <1>1 DEF AtType
<1>3. r = PostPlace(p, pc, node)
    BY <1>1 DEF PostPlace
<1> QED BY <1>2, <1>3

LEMMA NewCancel ==
    ASSUME NEW p \in Rests, NEW pc \in Steps, NEW evt \in {"POLL", "CANCEL"}, NEW node \in Nodes
    PROVE  \E r \in AtType : /\ r = CancelPlace(p, pc, evt, node)
                             /\ r.pc = pc /\ r.then = p /\ r.evt = evt /\ r.node = node
<1>1. PICK q \in AtType : q = Rest(p) /\ q.evt = "POLL" /\ q.then = p
    BY RestFacts
<1> DEFINE r == [q EXCEPT !.pc = pc, !.evt = evt, !.node = node]
<1>2. r \in AtType /\ r.pc = pc /\ r.then = p /\ r.evt = evt /\ r.node = node
    BY <1>1 DEF AtType
<1>3. r = CancelPlace(p, pc, evt, node)
    BY <1>1 DEF CancelPlace
<1> QED BY <1>2, <1>3

LEMMA CallGoes ==
    ASSUME NEW t \in Tasks, NEW p \in Rests, NEW pc \in Steps,
           NEW evt \in {"POLL", "CANCEL"}, Call(t, pc, evt, p)
    PROVE  \E r \in AtType : Goes(t, r) /\ r.pc = pc /\ r.then = p /\ r.evt = evt
<1>1. Goes(t, CallPlace(p, pc, evt))
    BY Zenon DEF Call, CallPlace, Goes
<1> QED BY <1>1, NewCall

\* The call returns.
Returned(t) ==
    /\ Goes(t, Rest(at[t].then))
    /\ \/ timer' = timer
       \/ \E v \in {"no", "set"} : timer' = [timer EXCEPT ![t] = v]

LEMMA ReturnFacts ==
    ASSUME NEW t \in Tasks, NEW e, Return(t, e)
    PROVE  Returned(t) /\ evts' = e
BY DEF Return, Returned, Goes

LEMMA TimerType ==
    ASSUME TypeOK, NEW t \in Tasks,
           \/ timer' = timer
           \/ \E v \in {"no", "to_set", "set", "posted", "refused"} :
                 timer' = [timer EXCEPT ![t] = v]
    PROVE  timer' \in [Tasks -> {"no", "to_set", "set", "posted", "refused"}]
BY DEF TypeOK

Evts == {"POLL", "CANCEL", "TIMER"}

LEMMA EvtFacts ==
    ASSUME TypeOK
    PROVE  /\ evts \in [Tasks -> Seq(Evts)]
           /\ \A t \in Tasks : evts[t] \in Seq(Evts)
           /\ \A t \in Tasks : Polling(t) <=> Asked(t) \/ Carries(t)
           /\ \A t \in Tasks : (\E i \in DOMAIN evts[t] : evts[t][i] = "POLL") <=> Asked(t)
BY DEF TypeOK, Evts, Polling, Asked, Carries, ToSet

\* An event is put into the queue of u.
LEMMA EventAdded ==
    ASSUME TypeOK, NEW u \in Tasks, NEW v \in Evts, Once(evts[u], "POLL"),
           v = "POLL" => ~Asked(u), evts' = [evts EXCEPT ![u] = Append(@, v)]
    PROVE  /\ evts' \in [Tasks -> Seq(Evts)] /\ Once(evts'[u], "POLL")
           /\ \A w \in Tasks : w # u => evts'[w] = evts[w]
           /\ Asked(u)' <=> Asked(u) \/ v = "POLL"
<1>1. PICK s \in Seq(Evts) : s = evts[u]
    BY EvtFacts
<1>2. /\ Append(s, v) \in Seq(Evts) /\ ToSet(Append(s, v)) = ToSet(s) \cup {v}
      /\ Once(Append(s, v), "POLL")
    BY <1>1, AppendFacts, OnceFacts DEF Asked
<1>3. evts' = [evts EXCEPT ![u] = Append(s, v)]
    BY <1>1
<1>4. /\ evts' \in [Tasks -> Seq(Evts)] /\ evts'[u] = Append(s, v)
      /\ \A w \in Tasks : w # u => evts'[w] = evts[w]
    BY <1>2, <1>3, EvtFacts
<1>5. Asked(u)' <=> "POLL" \in ToSet(evts'[u])
    BY DEF Asked, ToSet
<1> QED BY <1>1, <1>2, <1>4, <1>5 DEF Asked

\* The first event of u is taken.
LEMMA EventTaken ==
    ASSUME TypeOK, NEW u \in Tasks, Once(evts[u], "POLL"), evts[u] # <<>>,
           evts' = [evts EXCEPT ![u] = Tail(@)]
    PROVE  /\ evts' \in [Tasks -> Seq(Evts)] /\ Once(evts'[u], "POLL")
           /\ \A w \in Tasks : w # u => evts'[w] = evts[w]
           /\ Asked(u)' <=> Asked(u) /\ Head(evts[u]) # "POLL"
           /\ Head(evts[u]) = "POLL" => Asked(u)
<1>1. PICK s \in Seq(Evts) : s = evts[u]
    BY EvtFacts
<1>2. /\ Tail(s) \in Seq(Evts) /\ ToSet(s) = ToSet(Tail(s)) \cup {Head(s)}
      /\ Once(Tail(s), "POLL") /\ (Head(s) = "POLL" => "POLL" \notin ToSet(Tail(s)))
    BY <1>1, TailFacts, OnceFacts
<1>3. evts' = [evts EXCEPT ![u] = Tail(s)]
    BY <1>1
<1>4. /\ evts' \in [Tasks -> Seq(Evts)] /\ evts'[u] = Tail(s)
      /\ \A w \in Tasks : w # u => evts'[w] = evts[w]
    BY <1>2, <1>3, EvtFacts
<1>5. Asked(u)' <=> "POLL" \in ToSet(evts'[u])
    BY DEF Asked, ToSet
<1> QED BY <1>1, <1>2, <1>4, <1>5 DEF Asked

\* A step of t moves t only, and only t enters or leaves the list.
Only(t) == \A u \in Tasks : u # t => at'[u] = at[u] /\ (Listed(u)' <=> Listed(u))

LEMMA AtKept ==
    ASSUME AtInv, NEW t \in Tasks, Only(t), AtOf(t)'
    PROVE  AtInv'
BY DEF AtInv, AtOf, Only

LEMMA CarriersKept ==
    ASSUME NEW t \in Tasks, Only(t)
    PROVE  \A u \in Tasks : u # t => (Carries(u)' <=> Carries(u))
BY DEF Carries, Only

\* Who polls before and after a step.
LEMMA PollingIs ==
    \A t \in Tasks : /\ Polling(t) <=> Asked(t) \/ Carries(t)
                     /\ Polling(t)' <=> Asked(t)' \/ Carries(t)'
BY DEF Polling, Asked, Carries, ToSet

\* The poll stays where it is.
LEMMA PollKept ==
    ASSUME PollInv,
           \A u \in Tasks : /\ Asked(u)' <=> Asked(u)
                            /\ Carries(u)' <=> Carries(u)
                            /\ Once(evts'[u], "POLL"),
           is_polling' = is_polling, dropped' = dropped,
           is_to_repoll' => is_to_repoll \/ is_polling
    PROVE  PollInv'
<1>1. \A u \in Tasks : Polling(u)' <=> Polling(u)
    BY PollingIs
<1> QED BY <1>1 DEF PollInv, Once

\* The poll moves from h to g.
LEMMA PollMoved ==
    ASSUME PollInv, NEW h \in Tasks, NEW g \in Tasks, Polling(h),
           \A u \in Tasks : /\ Asked(u)' \/ Carries(u)' <=> u = g
                            /\ ~(Asked(u)' /\ Carries(u)')
                            /\ Once(evts'[u], "POLL"),
           is_polling' = is_polling, dropped' = dropped, is_to_repoll' => is_polling
    PROVE  PollInv'
<1>1. \A u \in Tasks : Polling(u)' <=> u = g
    BY PollingIs
<1>2. is_polling /\ ~dropped
    BY DEF PollInv
<1> QED BY <1>1, <1>2 DEF PollInv, Once

\* The poll ends, and the flag is cleared unless the event was dropped.
LEMMA PollOver ==
    ASSUME PollInv, \A u \in Tasks : ~Asked(u)' /\ ~Carries(u)' /\ Once(evts'[u], "POLL"),
           is_polling' <=> dropped', is_to_repoll' => is_polling'
    PROVE  PollInv'
<1>1. \A u \in Tasks : ~Polling(u)'
    BY PollingIs
<1> QED BY <1>1 DEF PollInv, Once

\* A poll begins at g.
LEMMA PollBegun ==
    ASSUME PollInv, ~is_polling, is_polling', dropped' = dropped, NEW g \in Tasks,
           \A u \in Tasks : /\ Asked(u)' <=> Asked(u)
                            /\ Carries(u)' <=> u = g
                            /\ Once(evts'[u], "POLL")
    PROVE  PollInv'
<1>1. ~dropped /\ \A u \in Tasks : ~Asked(u)
    BY PollingIs DEF PollInv
<1>2. \A u \in Tasks : Polling(u)' <=> u = g
    BY <1>1, PollingIs
<1> QED BY <1>1, <1>2 DEF PollInv, Once

-----------------------------------------------------------------------------
(* The poll is sound: action by action *)

LEMMA TypeFrom ==
    ASSUME TypeOK, at' \in [Tasks -> AtType], evts' \in [Tasks -> Seq(Evts)],
           timer' \in [Tasks -> {"no", "to_set", "set", "posted", "refused"}],
           pending_list' \in Seq(Tasks), value' \subseteq Bits,
           cancelled_value' \subseteq Bits, passed' \subseteq Tasks, prio' = prio,
           is_polling' \in BOOLEAN, is_to_repoll' \in BOOLEAN, dropped' \in BOOLEAN
    PROVE  TypeOK'
BY DEF TypeOK, AtType, Evts

\* The invariant, for a step of t that moves no other task and takes none but t
\* into or out of the list.
LEMMA SoundFrom ==
    ASSUME SoundInv, NEW t \in Tasks, TypeOK', NoTwice(pending_list)', Only(t), AtOf(t)',
           PollInv'
    PROVE  SoundInv'
BY AtKept DEF SoundInv

\* vsf_eda_bmpevt_pend puts the caller at the end of the list.
LEMMA Joined ==
    ASSUME TypeOK, NoTwice(pending_list), NEW t \in Tasks, ~Listed(t),
           pending_list' = Append(pending_list, t)
    PROVE  /\ pending_list' \in Seq(Tasks) /\ NoTwice(pending_list)'
           /\ \A x : Listed(x)' <=> Listed(x) \/ x = t
<1>1. PICK s \in Seq(Tasks) : s = pending_list
    BY DEF TypeOK
<1>2. t \notin ToSet(s)
    BY <1>1, ListedFacts
<1>3. /\ Append(s, t) \in Seq(Tasks) /\ ToSet(Append(s, t)) = ToSet(s) \cup {t}
      /\ NoTwice(Append(s, t))
    BY <1>1, <1>2, AppendFacts
<1>4. \A x : (Listed(x)' <=> x \in ToSet(pending_list')) /\ (Listed(x) <=> x \in ToSet(s))
    BY <1>1 DEF Listed, Range, ToSet
<1>5. NoTwice(pending_list)' <=> NoTwice(pending_list')
    BY DEF NoTwice
<1> QED BY <1>1, <1>3, <1>4, <1>5

LEMMA KeptList ==
    ASSUME pending_list' = pending_list
    PROVE  /\ \A x : Listed(x)' <=> Listed(x)
           /\ NoTwice(pending_list) => NoTwice(pending_list)'
BY DEF Listed, NoTwice

\* The variables that have no place in the argument keep their types.
OtherTypes ==
    /\ value \subseteq Bits /\ cancelled_value \subseteq Bits /\ passed \subseteq Tasks
    /\ is_polling \in BOOLEAN /\ is_to_repoll \in BOOLEAN /\ dropped \in BOOLEAN

\* A step of t that keeps the list.
LEMMA Moves ==
    ASSUME TypeOK, NoTwice(pending_list), NEW t \in Tasks, NEW r \in AtType, Goes(t, r),
           pending_list' = pending_list
    PROVE  /\ at' \in [Tasks -> AtType] /\ at'[t] = r /\ Only(t)
           /\ Listed(t)' <=> Listed(t)
           /\ NoTwice(pending_list)' /\ pending_list' \in Seq(Tasks)
           /\ \A u \in Tasks : u # t => (Carries(u)' <=> Carries(u))
<1>1. /\ at' \in [Tasks -> AtType] /\ at'[t] = r
      /\ \A u \in Tasks : u # t => at'[u] = at[u]
    BY GoesFacts
<1>2. (\A x : Listed(x)' <=> Listed(x)) /\ NoTwice(pending_list)'
    BY KeptList
<1>3. Only(t)
    BY <1>1, <1>2 DEF Only
<1> QED BY <1>1, <1>2, <1>3, CarriersKept DEF TypeOK

\* A step of t, which removes t from the list.
LEMMA Leaves ==
    ASSUME TypeOK, NoTwice(pending_list), NEW t \in Tasks, NEW r \in AtType, Goes(t, r),
           Listed(t), pending_list' = Without(t)
    PROVE  /\ at' \in [Tasks -> AtType] /\ at'[t] = r /\ Only(t) /\ ~Listed(t)'
           /\ NoTwice(pending_list)' /\ pending_list' \in Seq(Tasks)
           /\ \A u \in Tasks : u # t => (Carries(u)' <=> Carries(u))
<1>1. /\ at' \in [Tasks -> AtType] /\ at'[t] = r
      /\ \A u \in Tasks : u # t => at'[u] = at[u]
    BY GoesFacts
<1>2. /\ pending_list' \in Seq(Tasks) /\ NoTwice(pending_list')
      /\ \A x : Listed(x)' <=> Listed(x) /\ x # t
    BY WithoutFacts
<1>3. Only(t)
    BY <1>1, <1>2 DEF Only
<1>4. NoTwice(pending_list)' <=> NoTwice(pending_list')
    BY DEF NoTwice
<1> QED BY <1>1, <1>2, <1>3, <1>4, CarriersKept

LEMMA AskedKept ==
    ASSUME PollInv, evts' = evts
    PROVE  \A u \in Tasks : (Asked(u)' <=> Asked(u)) /\ Once(evts'[u], "POLL")
BY DEF PollInv, Asked

LEMMA StepSound ==
    ASSUME SoundInv, NEW t \in Tasks, at' \in [Tasks -> AtType], Only(t), AtOf(t)',
           NoTwice(pending_list)', pending_list' \in Seq(Tasks),
           evts' \in [Tasks -> Seq(Evts)],
           timer' \in [Tasks -> {"no", "to_set", "set", "posted", "refused"}],
           prio' = prio, OtherTypes', PollInv'
    PROVE  SoundInv'
<1>1. TypeOK'
    BY TypeFrom DEF SoundInv, OtherTypes
<1> QED BY <1>1, SoundFrom

\* The handler returns into a wait, or into none.
LEMMA ReturnGoes ==
    ASSUME TypeOK, NEW t \in Tasks, NEW e, Return(t, e)
    PROVE  /\ \E r \in AtType : /\ Goes(t, r) /\ r.pc = at[t].then
                                /\ r.then = at[t].then /\ r.evt = "POLL"
           /\ timer' \in [Tasks -> {"no", "to_set", "set", "posted", "refused"}]
           /\ evts' = e
<1>1. Returned(t) /\ evts' = e
    BY ReturnFacts
<1>2. at[t].then \in Rests
    BY AtFacts
<1>3. PICK p \in Rests : p = at[t].then
    BY <1>2
<1>4. timer' \in [Tasks -> {"no", "to_set", "set", "posted", "refused"}]
    BY <1>1, TimerType DEF Returned
<1> QED BY <1>1, <1>3, <1>4, RestFacts DEF Returned

LEMMA PendSound ==
    ASSUME SoundInv, NEW t \in Tasks, NEW timeout \in {"timed", "forever"}, Pend(t, timeout)
    PROVE  SoundInv'
<1>1. /\ TypeOK /\ PollInv /\ at[t].pc = "idle" /\ ~Listed(t) /\ NoTwice(pending_list)
      /\ pending_list' = Append(pending_list, t)
    BY DEF SoundInv, AtInv, AtOf, Pend, Idle
<1>2. PICK r \in AtType : Goes(t, r) /\ r.pc = "start" /\ r.evt = "POLL" /\ r.then = "wait"
  <2>1. Call(t, "start", "POLL", "wait")
    BY DEF Pend
  <2> QED BY <2>1, CallGoes DEF Rests, Steps
<1>3. at' \in [Tasks -> AtType] /\ at'[t] = r /\ \A u \in Tasks : u # t => at'[u] = at[u]
    BY <1>1, <1>2, GoesFacts
<1>4. /\ pending_list' \in Seq(Tasks) /\ NoTwice(pending_list)'
      /\ \A x : Listed(x)' <=> Listed(x) \/ x = t
    BY <1>1, Joined
<1>5. TypeOK'
  <2>1. timer' \in [Tasks -> {"no", "to_set", "set", "posted", "refused"}]
    BY <1>1, TimerType DEF Pend
  <2> QED BY <1>1, <1>3, <1>4, <2>1, EvtFacts, TypeFrom DEF TypeOK, Pend
<1>6. Only(t) /\ AtOf(t)' /\ ~Carries(t) /\ ~Carries(t)'
    BY <1>1, <1>2, <1>3, <1>4 DEF Only, AtOf, Carries
<1>7. PollInv'
  <2>1. evts' = evts /\ is_polling' = is_polling /\ dropped' = dropped
        /\ is_to_repoll' = is_to_repoll
    BY DEF Pend
  <2>2. \A u \in Tasks : Asked(u)' <=> Asked(u)
    BY <2>1 DEF Asked
  <2>3. \A u \in Tasks : Once(evts'[u], "POLL")
    BY <1>1, <2>1 DEF PollInv
  <2>4. \A u \in Tasks : Carries(u)' <=> Carries(u)
    BY <1>6, CarriersKept
  <2> QED BY <1>1, <2>1, <2>2, <2>3, <2>4, PollKept
<1> QED BY <1>4, <1>5, <1>6, <1>7, SoundFrom

\* What is known of a task, and of the poll.
LEMMA Given ==
    ASSUME SoundInv, NEW t \in Tasks
    PROVE  TypeOK /\ PollInv /\ AtOf(t) /\ NoTwice(pending_list) /\ OtherTypes
BY DEF SoundInv, AtInv, OtherTypes, TypeOK

\* A call that begins, and one that goes on, without a poll.
LEMMA QuietSound ==
    ASSUME SoundInv, NEW t \in Tasks, NEW r \in AtType, Goes(t, r),
           pending_list' = pending_list, evts' = evts, prio' = prio,
           timer' \in [Tasks -> {"no", "to_set", "set", "posted", "refused"}],
           OtherTypes', AtOf(t)', Carries(t)' <=> Carries(t),
           is_polling' = is_polling, dropped' = dropped,
           is_to_repoll' => is_to_repoll \/ is_polling
    PROVE  SoundInv'
<1>1. TypeOK /\ PollInv /\ NoTwice(pending_list)
    BY Given
<1>2. /\ at' \in [Tasks -> AtType] /\ Only(t)
      /\ NoTwice(pending_list)' /\ pending_list' \in Seq(Tasks)
      /\ \A u \in Tasks : u # t => (Carries(u)' <=> Carries(u))
    BY <1>1, Moves
<1>3. \A u \in Tasks : (Asked(u)' <=> Asked(u)) /\ Once(evts'[u], "POLL")
    BY <1>1, AskedKept
<1>4. PollInv'
    BY <1>1, <1>2, <1>3, PollKept
<1>5. evts' \in [Tasks -> Seq(Evts)]
    BY <1>1, EvtFacts
<1> QED BY <1>2, <1>4, <1>5, StepSound

LEMMA TimerKept ==
    ASSUME TypeOK, timer' = timer
    PROVE  timer' \in [Tasks -> {"no", "to_set", "set", "posted", "refused"}]
BY DEF TypeOK

LEMMA CallSound ==
    ASSUME SoundInv, NEW t \in Tasks,
           \/ Try(t)
           \/ \E mask \in Masks : Set(t, mask) \/ ResetCall(t, mask)
           \/ \E mask \in CancelMasks : Cancel(t, mask)
    PROVE  SoundInv'
<1>1. TypeOK /\ AtOf(t) /\ OtherTypes
    BY Given
<1>2. at[t].pc = "idle" /\ ~Listed(t) /\ ~Carries(t)
  <2>1. Idle(t)
    BY Zenon DEF Try, Set, ResetCall, Cancel
  <2> QED BY <1>1, <2>1 DEF AtOf, Carries, Idle
<1>3. \E r \in AtType : /\ Goes(t, r) /\ r.then = "idle"
                        /\ \/ r.pc \in {"start", "reset"} /\ r.evt = "POLL"
                           \/ r.pc = "head" /\ r.evt = "CANCEL"
  <2>1. CASE Try(t)
    <3>1. PICK mask \in SUBSET Bits : mask = value \cap Pender[t].mask \cap AutoReset
        BY <1>1 DEF OtherTypes
    <3>2. Goes(t, ResetPlace("idle", "reset", mask))
        BY <2>1, <3>1, Zenon DEF Try, ResetPlace, Goes
    <3> QED BY <3>2, NewReset DEF Rests, Steps
  <2>2. ASSUME NEW mask \in Masks, Set(t, mask)
        PROVE  \E r \in AtType : Goes(t, r) /\ r.pc = "start" /\ r.then = "idle" /\ r.evt = "POLL"
    <3>1. Call(t, "start", "POLL", "idle")
        BY <2>2 DEF Set
    <3> QED BY <3>1, CallGoes DEF Rests, Steps
  <2>3. ASSUME NEW mask \in Masks, ResetCall(t, mask)
        PROVE  \E r \in AtType : Goes(t, r) /\ r.pc = "reset" /\ r.then = "idle" /\ r.evt = "POLL"
    <3>1. mask \in SUBSET Bits
        BY UseAssumption
    <3>2. Goes(t, ResetPlace("idle", "reset", mask))
        BY <2>3, Zenon DEF ResetCall, ResetPlace, Goes
    <3> QED BY <3>1, <3>2, NewReset DEF Rests, Steps
  <2>4. ASSUME NEW mask \in CancelMasks, Cancel(t, mask)
        PROVE  \E r \in AtType : Goes(t, r) /\ r.pc = "head" /\ r.then = "idle" /\ r.evt = "CANCEL"
    <3>1. Call(t, "head", "CANCEL", "idle")
        BY <2>4 DEF Cancel
    <3> QED BY <3>1, CallGoes DEF Rests, Steps
  <2> QED BY <2>1, <2>2, <2>3, <2>4
<1>4. PICK r \in AtType : /\ Goes(t, r) /\ r.then = "idle"
                          /\ \/ r.pc \in {"start", "reset"} /\ r.evt = "POLL"
                             \/ r.pc = "head" /\ r.evt = "CANCEL"
    BY <1>3
<1>5. /\ pending_list' = pending_list /\ evts' = evts /\ prio' = prio
      /\ is_polling' = is_polling /\ dropped' = dropped /\ is_to_repoll' = is_to_repoll
      /\ timer' = timer /\ passed' = passed
    BY Zenon DEF Try, Set, ResetCall, Cancel
<1>6. value' \subseteq Bits /\ cancelled_value' \subseteq Bits
  <2>1. \A mask \in Masks \cup CancelMasks : mask \subseteq Bits
    BY UseAssumption
  <2>2. \/ value' = value /\ cancelled_value' = cancelled_value
        \/ \E mask \in Masks : value' = value \cup mask /\ cancelled_value' = cancelled_value
        \/ \E mask \in CancelMasks :
              value' = value /\ cancelled_value' = cancelled_value \cup mask
    BY Zenon DEF Try, Set, ResetCall, Cancel
  <2> QED BY <1>1, <2>1, <2>2 DEF OtherTypes
<1>7. OtherTypes' /\ timer' \in [Tasks -> {"no", "to_set", "set", "posted", "refused"}]
    BY <1>1, <1>5, <1>6, TimerKept DEF OtherTypes
<1>8. at'[t] = r /\ ~Listed(t)'
    BY <1>1, <1>2, <1>4, <1>5, GoesFacts, KeptList
<1>9. AtOf(t)' /\ ~Carries(t)'
    BY <1>4, <1>8 DEF AtOf, Carries
<1> QED BY <1>2, <1>4, <1>5, <1>7, <1>9, QuietSound

LEMMA ResetSound ==
    ASSUME SoundInv, NEW t \in Tasks, Reset(t)
    PROVE  SoundInv'
<1>1. TypeOK /\ AtOf(t) /\ OtherTypes /\ at[t].pc = "reset" /\ at[t] \in AtType
    BY Given, AtFacts DEF Reset, AtStep
<1>2. PICK q \in AtType : q = at[t]
    BY <1>1
<1> DEFINE r == [q EXCEPT !.mask = q.mask \cap value, !.pc = "clear"]
<1>3. r \in AtType /\ r.pc = "clear" /\ r.evt = q.evt /\ r.then = q.then
    BY DEF AtType, Rests, Steps
<1>4. Goes(t, r)
    BY <1>2, AtFacts, <1>1 DEF Reset, Goes, AtType
<1> HIDE DEF r
<1>5. /\ pending_list' = pending_list /\ evts' = evts /\ prio' = prio
      /\ is_polling' = is_polling /\ dropped' = dropped /\ is_to_repoll' = is_to_repoll
      /\ timer' = timer /\ OtherTypes'
    BY <1>1 DEF Reset, OtherTypes
<1>6. at'[t] = r /\ (Listed(t)' <=> Listed(t))
    BY <1>1, <1>3, <1>4, <1>5, GoesFacts, KeptList
<1>7. AtOf(t)' /\ (Carries(t)' <=> Carries(t))
    BY <1>1, <1>2, <1>3, <1>6 DEF AtOf, Carries
<1> QED BY <1>1, <1>3, <1>4, <1>5, <1>7, QuietSound, TimerKept

LEMMA ClearSound ==
    ASSUME SoundInv, NEW t \in Tasks, Clear(t)
    PROVE  SoundInv'
<1>1. TypeOK /\ AtOf(t) /\ OtherTypes /\ at[t].pc = "clear"
    BY Given DEF Clear, AtStep
<1>2. /\ pending_list' = pending_list /\ prio' = prio
      /\ is_polling' = is_polling /\ dropped' = dropped /\ is_to_repoll' = is_to_repoll
      /\ OtherTypes'
    BY <1>1 DEF Clear, OtherTypes
<1>3. CASE Listed(t)
  <2>1. Goto(t, "remove") /\ evts' = evts /\ timer' = timer
    BY <1>3 DEF Clear
  <2>2. PICK r \in AtType : Goes(t, r) /\ r.pc = "remove" /\ r.evt = at[t].evt
                            /\ r.then = at[t].then
    BY <1>1, <2>1, GoesOn DEF Steps
  <2>3. at'[t] = r /\ (Listed(t)' <=> Listed(t))
    BY <1>1, <1>2, <2>2, GoesFacts, KeptList
  <2>4. AtOf(t)' /\ (Carries(t)' <=> Carries(t))
    BY <1>1, <1>3, <2>2, <2>3 DEF AtOf, Carries
  <2> QED BY <1>1, <1>2, <2>1, <2>2, <2>4, QuietSound, TimerKept
<1>4. CASE ~Listed(t)
  <2>1. Return(t, evts)
    BY <1>4 DEF Clear
  <2>2. /\ timer' \in [Tasks -> {"no", "to_set", "set", "posted", "refused"}]
        /\ evts' = evts
    BY <1>1, <2>1, ReturnGoes
  <2>3. PICK r \in AtType : /\ Goes(t, r) /\ r.pc = at[t].then
                            /\ r.then = at[t].then /\ r.evt = "POLL"
    BY <1>1, <2>1, ReturnGoes
  <2>4. at'[t] = r /\ ~Listed(t)'
    BY <1>1, <1>2, <1>4, <2>3, GoesFacts, KeptList
  <2>5. AtOf(t)' /\ (Carries(t)' <=> Carries(t))
    BY <1>1, <1>4, <2>3, <2>4 DEF AtOf, Carries
  <2> QED BY <1>1, <1>2, <2>2, <2>3, <2>5, QuietSound
<1> QED BY <1>3, <1>4

LEMMA PollStartSound ==
    ASSUME SoundInv, NEW t \in Tasks, PollStart(t)
    PROVE  SoundInv'
<1>1. TypeOK /\ PollInv /\ AtOf(t) /\ OtherTypes /\ at[t].pc = "start" /\ NoTwice(pending_list)
    BY Given DEF PollStart, AtStep
<1>2. /\ pending_list' = pending_list /\ prio' = prio /\ dropped' = dropped
      /\ is_polling' = TRUE /\ is_to_repoll' = (is_to_repoll \/ is_polling)
      /\ value' = value /\ cancelled_value' = cancelled_value /\ passed' = passed
    BY DEF PollStart
<1>3. OtherTypes'
    BY <1>1, <1>2 DEF OtherTypes
<1>4. CASE is_polling
  <2>1. Return(t, evts)
    BY <1>4 DEF PollStart
  <2>2. /\ timer' \in [Tasks -> {"no", "to_set", "set", "posted", "refused"}]
        /\ evts' = evts
    BY <1>1, <2>1, ReturnGoes
  <2>3. PICK r \in AtType : /\ Goes(t, r) /\ r.pc = at[t].then
                            /\ r.then = at[t].then /\ r.evt = "POLL"
    BY <1>1, <2>1, ReturnGoes
  <2>4. at'[t] = r /\ (Listed(t)' <=> Listed(t)) /\ r.pc \in Rests
    BY <1>1, <1>2, <2>3, GoesFacts, KeptList, AtFacts
  <2>5. AtOf(t)' /\ (Carries(t)' <=> Carries(t))
    BY <1>1, <2>3, <2>4 DEF AtOf, Carries, Rests
  <2>6. is_polling' = is_polling
    BY <1>1, <1>2, <1>4 DEF OtherTypes
  <2> QED BY <1>2, <1>3, <2>2, <2>3, <2>5, <2>6, QuietSound
<1>5. CASE ~is_polling
  <2>1. Goto(t, "head") /\ evts' = evts /\ timer' = timer
    BY <1>5 DEF PollStart
  <2>2. PICK r \in AtType : Goes(t, r) /\ r.pc = "head" /\ r.evt = at[t].evt
                            /\ r.then = at[t].then
    BY <1>1, <2>1, GoesOn DEF Steps
  <2>3. /\ at' \in [Tasks -> AtType] /\ at'[t] = r /\ Only(t) /\ (Listed(t)' <=> Listed(t))
        /\ NoTwice(pending_list)' /\ pending_list' \in Seq(Tasks)
        /\ \A u \in Tasks : u # t => (Carries(u)' <=> Carries(u))
    BY <1>1, <1>2, <2>2, Moves
  <2>4. AtOf(t)' /\ Carries(t)'
    BY <1>1, <2>2, <2>3 DEF AtOf, Carries
  <2>5. PollInv'
    <3>1. \A u \in Tasks : (Asked(u)' <=> Asked(u)) /\ Once(evts'[u], "POLL")
        BY <1>1, <2>1, AskedKept
    <3>2. \A u \in Tasks : ~Carries(u)
        BY <1>1, <1>5, PollingIs DEF PollInv
    <3> QED BY <1>1, <1>2, <1>5, <2>3, <2>4, <3>1, <3>2, PollBegun
  <2>6. /\ timer' \in [Tasks -> {"no", "to_set", "set", "posted", "refused"}]
        /\ evts' \in [Tasks -> Seq(Evts)]
    BY <1>1, <2>1, TimerKept, EvtFacts
  <2> QED BY <1>2, <1>3, <2>3, <2>4, <2>5, <2>6, StepSound
<1> QED BY <1>4, <1>5

\* The walk goes on, in the same task.
LEMMA WalkSound ==
    ASSUME SoundInv, NEW t \in Tasks,
           TakeHead(t) \/ Repoll(t) \/ PostRepoll(t) \/ PostNext(t)
    PROVE  SoundInv'
<1>1. TypeOK /\ AtOf(t) /\ OtherTypes /\ at[t] \in AtType /\ at \in [Tasks -> AtType]
      /\ NoTwice(pending_list)
    BY Given, AtFacts
<1>2. PICK q \in AtType : q = at[t]
    BY <1>1
<1>3. /\ q.pc \in {"head", "repoll", "post", "next"}
      /\ q.pc = "post" => q.evt = "POLL"
    BY <1>2 DEF TakeHead, Repoll, PostRepoll, PostNext, AtStep
<1>4. \E r \in AtType : /\ Goes(t, r) /\ r.pc \in {"head", "post", "repoll"}
                        /\ r.pc = "repoll" => r.evt = "POLL"
                        /\ r.evt = q.evt /\ r.then = q.then
  <2>1. CASE TakeHead(t) \/ PostNext(t)
    <3>1. \E n \in Nodes : at' = [at EXCEPT ![t].node = n, ![t].pc = "post"]
      <4>1. CASE TakeHead(t)
        <5>1. First(pending_list) \in Nodes
            BY <1>1, FirstIsBeforeAll DEF TypeOK, Nodes
        <5> QED BY <4>1, <5>1 DEF TakeHead
      <4>2. CASE PostNext(t)
        <5>1. NextOf(at[t].node) \in Nodes
          <6>1. CASE at[t].node \in Tasks
            BY <1>1, <6>1, NextFacts
          <6>2. CASE at[t].node \notin Tasks
            BY <1>1, <6>2, ListedFacts DEF NextOf, Nodes
          <6> QED BY <6>1, <6>2
        <5> QED BY <4>2, <5>1 DEF PostNext
      <4> QED BY <2>1, <4>1, <4>2
    <3>2. PICK n \in Nodes : at' = [at EXCEPT ![t].node = n, ![t].pc = "post"]
        BY <3>1
    <3> DEFINE r == [q EXCEPT !.node = n, !.pc = "post"]
    <3>3. r \in AtType /\ r.pc = "post" /\ r.evt = q.evt /\ r.then = q.then
        BY DEF AtType, Rests, Steps
    <3>4. Goes(t, r)
        BY <1>1, <1>2, <3>2 DEF Goes, AtType
    <3> QED BY <3>3, <3>4
  <2>2. CASE Repoll(t)
    <3>1. Goto(t, "head")
        BY <2>2 DEF Repoll
    <3> QED BY <1>1, <1>2, <3>1, GoesOn DEF Steps
  <2>3. CASE PostRepoll(t)
    <3>1. Goto(t, "repoll") /\ q.evt = "POLL"
        BY <1>2, <2>3 DEF PostRepoll
    <3> QED BY <1>1, <1>2, <3>1, GoesOn DEF Steps
  <2> QED BY <2>1, <2>2, <2>3
<1>5. PICK r \in AtType : /\ Goes(t, r) /\ r.pc \in {"head", "post", "repoll"}
                          /\ r.pc = "repoll" => r.evt = "POLL"
                          /\ r.evt = q.evt /\ r.then = q.then
    BY <1>4
<1>6. /\ pending_list' = pending_list /\ evts' = evts /\ prio' = prio /\ timer' = timer
      /\ is_polling' = is_polling /\ dropped' = dropped
      /\ is_to_repoll' = is_to_repoll \/ is_to_repoll' = FALSE
      /\ value' = value /\ cancelled_value' = cancelled_value
    BY Zenon DEF TakeHead, Repoll, PostRepoll, PostNext
<1>7. passed' = passed \/ passed' = passed \cup Range(pending_list)
    BY Zenon DEF TakeHead, Repoll, PostRepoll, PostNext
<1>8. OtherTypes'
    BY <1>1, <1>6, <1>7, ListedFacts DEF OtherTypes
<1>9. at'[t] = r /\ (Listed(t)' <=> Listed(t))
    BY <1>1, <1>5, <1>6, GoesFacts, KeptList
<1>10. AtOf(t)' /\ (Carries(t)' <=> Carries(t))
    BY <1>1, <1>2, <1>3, <1>5, <1>9 DEF AtOf, Carries
<1> QED BY <1>1, <1>5, <1>6, <1>8, <1>10, QuietSound, TimerKept

\* The walk comes to its end.
LEMMA PostEndSound ==
    ASSUME SoundInv, NEW t \in Tasks, PostEnd(t)
    PROVE  SoundInv'
<1>1. /\ TypeOK /\ PollInv /\ AtOf(t) /\ OtherTypes /\ at[t].pc = "post"
      /\ NoTwice(pending_list)
    BY Given DEF PostEnd, AtStep
<1>2. /\ pending_list' = pending_list /\ prio' = prio /\ dropped' = dropped
      /\ is_polling' = (is_polling /\ at[t].evt # "POLL") /\ is_to_repoll' = is_to_repoll
      /\ value' = value /\ cancelled_value' = cancelled_value /\ passed' = passed
      /\ at[t].evt = "POLL" => ~is_to_repoll
    BY DEF PostEnd
<1>3. OtherTypes'
    BY <1>1, <1>2 DEF OtherTypes
<1>4. Return(t, evts)
    BY DEF PostEnd
<1>5. /\ timer' \in [Tasks -> {"no", "to_set", "set", "posted", "refused"}]
      /\ evts' = evts
    BY <1>1, <1>4, ReturnGoes
<1>6. PICK r \in AtType : /\ Goes(t, r) /\ r.pc = at[t].then
                          /\ r.then = at[t].then /\ r.evt = "POLL"
    BY <1>1, <1>4, ReturnGoes
<1>7. /\ at' \in [Tasks -> AtType] /\ at'[t] = r /\ Only(t) /\ (Listed(t)' <=> Listed(t))
      /\ NoTwice(pending_list)' /\ pending_list' \in Seq(Tasks)
      /\ \A u \in Tasks : u # t => (Carries(u)' <=> Carries(u))
    BY <1>1, <1>2, <1>6, Moves
<1>8. AtOf(t)' /\ ~Carries(t)'
  <2>1. r.pc \in Rests
    BY <1>1, <1>6, AtFacts
  <2> QED BY <1>1, <1>6, <1>7, <2>1 DEF AtOf, Carries, Rests
<1>9. CASE at[t].evt = "POLL"
  <2>1. Carries(t)
    BY <1>1, <1>9 DEF Carries
  <2>2. /\ \A u \in Tasks : ~Asked(u) /\ Once(evts[u], "POLL")
        /\ \A u \in Tasks : u # t => ~Carries(u)
        /\ ~dropped
    BY <1>1, <2>1, PollingIs DEF PollInv
  <2>3. \A u \in Tasks : ~Asked(u)' /\ ~Carries(u)' /\ Once(evts'[u], "POLL")
    BY <1>1, <1>5, <1>7, <1>8, <2>2, AskedKept
  <2>4. PollInv'
    BY <1>1, <1>2, <1>9, <2>2, <2>3, PollOver
  <2> QED BY <1>1, <1>2, <1>3, <1>5, <1>7, <1>8, <2>4, EvtFacts, StepSound
<1>10. CASE at[t].evt # "POLL"
  <2>1. ~Carries(t) /\ is_polling' = is_polling
    BY <1>1, <1>2, <1>10 DEF Carries, OtherTypes
  <2> QED BY <1>2, <1>3, <1>5, <1>6, <1>8, <2>1, QuietSound
<1> QED BY <1>9, <1>10

\* The event goes to another task, or is refused.
LEMMA PostSound ==
    ASSUME SoundInv, NEW t \in Tasks, Post(t)
    PROVE  SoundInv'
<1>1. /\ TypeOK /\ PollInv /\ AtOf(t) /\ OtherTypes /\ at[t].pc = "post"
      /\ NoTwice(pending_list)
    BY Given DEF Post, AtStep
<1>2. PICK n \in Tasks : n = at[t].node
  <2>1. at[t].node # Null
    BY DEF Post
  <2> QED BY <1>1, <2>1, AtFacts DEF Nodes
<1>3. /\ pending_list' = pending_list /\ prio' = prio /\ dropped' = dropped
      /\ is_polling' = is_polling /\ is_to_repoll' = is_to_repoll
      /\ value' = value /\ cancelled_value' = cancelled_value
      /\ at[t].evt = "POLL" => ~is_to_repoll
    BY DEF Post
<1>4. passed' \subseteq Tasks
  <2>1. passed' = passed \/ passed' = passed \cup {n}
    BY <1>2 DEF Post
  <2> QED BY <1>1, <2>1 DEF OtherTypes
<1>5. OtherTypes'
    BY <1>1, <1>3, <1>4 DEF OtherTypes
<1>6. CASE Refuses(n)
  <2>1. Goto(t, "next") /\ evts' = evts /\ timer' = timer
    BY <1>2, <1>6 DEF Post
  <2>2. PICK r \in AtType : Goes(t, r) /\ r.pc = "next" /\ r.evt = at[t].evt
                            /\ r.then = at[t].then
    BY <1>1, <2>1, GoesOn DEF Steps
  <2>3. at'[t] = r /\ (Listed(t)' <=> Listed(t))
    BY <1>1, <1>3, <2>2, GoesFacts, KeptList
  <2>4. AtOf(t)' /\ (Carries(t)' <=> Carries(t))
    BY <1>1, <2>2, <2>3 DEF AtOf, Carries
  <2> QED BY <1>1, <1>3, <1>5, <2>1, <2>2, <2>4, QuietSound, TimerKept
<1>7. CASE ~Refuses(n)
  <2>0. PICK v \in Evts : v = at[t].evt
    BY <1>1, AtFacts DEF Evts
  <2>1. Return(t, [evts EXCEPT ![n] = Append(@, v)])
    BY <1>2, <1>7, <2>0 DEF Post
  <2>2. /\ timer' \in [Tasks -> {"no", "to_set", "set", "posted", "refused"}]
        /\ evts' = [evts EXCEPT ![n] = Append(@, v)]
    BY <1>1, <2>1, ReturnGoes
  <2>3. PICK r \in AtType : /\ Goes(t, r) /\ r.pc = at[t].then
                            /\ r.then = at[t].then /\ r.evt = "POLL"
    BY <1>1, <2>1, ReturnGoes
  <2>4. /\ at' \in [Tasks -> AtType] /\ at'[t] = r /\ Only(t) /\ (Listed(t)' <=> Listed(t))
        /\ NoTwice(pending_list)' /\ pending_list' \in Seq(Tasks)
        /\ \A u \in Tasks : u # t => (Carries(u)' <=> Carries(u))
    BY <1>1, <1>3, <2>3, Moves
  <2>5. AtOf(t)' /\ ~Carries(t)'
    <3>1. r.pc \in Rests
        BY <1>1, <2>3, AtFacts
    <3> QED BY <1>1, <2>3, <2>4, <3>1 DEF AtOf, Carries, Rests
  <2>6. v = "POLL" => Carries(t)
    BY <1>1, <2>0 DEF Carries
  <2>7. v = "POLL" => \A u \in Tasks : ~Asked(u) /\ (u # t => ~Carries(u))
    BY <1>1, <2>6, PollingIs DEF PollInv
  <2>8. /\ evts' \in [Tasks -> Seq(Evts)] /\ Once(evts'[n], "POLL")
        /\ \A w \in Tasks : w # n => evts'[w] = evts[w]
        /\ Asked(n)' <=> Asked(n) \/ v = "POLL"
    BY <1>1, <2>2, <2>7, EventAdded DEF PollInv
  <2>9. \A u \in Tasks : /\ Once(evts'[u], "POLL")
                         /\ u # n => (Asked(u)' <=> Asked(u))
    BY <1>1, <2>8 DEF PollInv, Asked
  <2>10. \A u \in Tasks : Asked(u)' <=> Asked(u) \/ (u = n /\ v = "POLL")
    BY <2>8, <2>9 DEF Asked
  <2>11. \A u \in Tasks : Carries(u)' <=> Carries(u) /\ u # t
    BY <2>4, <2>5
  <2>12. PollInv'
    <3>1. CASE v = "POLL"
      <4>1. Polling(t)
        BY <2>6, <3>1, PollingIs
      <4>2. \A u \in Tasks : /\ Asked(u)' \/ Carries(u)' <=> u = n
                             /\ ~(Asked(u)' /\ Carries(u)')
        BY <2>7, <2>10, <2>11, <3>1
      <4>3. is_to_repoll' => is_polling
        BY <1>1, <1>3 DEF PollInv
      <4> QED BY <1>1, <1>3, <2>9, <4>1, <4>2, <4>3, PollMoved
    <3>2. CASE v # "POLL"
      <4>1. ~Carries(t)
        BY <1>1, <2>0, <3>2 DEF Carries
      <4>2. \A u \in Tasks : /\ Asked(u)' <=> Asked(u)
                             /\ Carries(u)' <=> Carries(u)
                             /\ Once(evts'[u], "POLL")
        BY <2>9, <2>10, <2>11, <3>2, <4>1
      <4> QED BY <1>1, <1>3, <4>2, PollKept
    <3> QED BY <3>1, <3>2
  <2> QED BY <1>3, <1>5, <2>2, <2>4, <2>5, <2>8, <2>12, StepSound
<1> QED BY <1>6, <1>7

LEMMA RemovePenderSound ==
    ASSUME SoundInv, NEW t \in Tasks, RemovePender(t)
    PROVE  SoundInv'
<1>1. /\ TypeOK /\ PollInv /\ AtOf(t) /\ OtherTypes /\ at[t].pc = "remove"
      /\ NoTwice(pending_list)
    BY Given DEF RemovePender, AtStep
<1>2. Listed(t) /\ at[t].evt = "POLL" /\ at[t].then = "idle" /\ Carries(t)
    BY <1>1 DEF AtOf, Carries
<1>3. /\ pending_list' = Without(t) /\ prio' = prio /\ dropped' = dropped
      /\ is_polling' = is_polling /\ is_to_repoll' = is_to_repoll
      /\ value' = value /\ cancelled_value' = cancelled_value
      /\ passed' = passed \cup Range(After(t)) /\ evts' = evts /\ timer' = timer
    BY DEF RemovePender
<1>4. OtherTypes'
    BY <1>1, <1>2, <1>3, NextFacts DEF OtherTypes
<1>5. PICK q \in AtType : q = at[t]
    BY <1>1, AtFacts
<1> DEFINE r == [q EXCEPT !.pc = "post", !.node = Null]
<1>6. r \in AtType /\ r.pc = "post" /\ r.evt = q.evt /\ r.then = q.then
    BY DEF AtType, Rests, Steps, Nodes
<1>7. Goes(t, r)
    BY <1>1, <1>5, AtFacts DEF RemovePender, Goes, AtType
<1> HIDE DEF r
<1>8. /\ at' \in [Tasks -> AtType] /\ at'[t] = r /\ Only(t) /\ ~Listed(t)'
      /\ NoTwice(pending_list)' /\ pending_list' \in Seq(Tasks)
      /\ \A u \in Tasks : u # t => (Carries(u)' <=> Carries(u))
    BY <1>1, <1>2, <1>3, <1>6, <1>7, Leaves
<1>9. AtOf(t)' /\ Carries(t)'
    BY <1>2, <1>5, <1>6, <1>8 DEF AtOf, Carries
<1>10. \A u \in Tasks : (Asked(u)' <=> Asked(u)) /\ Once(evts'[u], "POLL")
    BY <1>1, <1>3, AskedKept
<1>11. PollInv'
    BY <1>1, <1>2, <1>3, <1>8, <1>9, <1>10, PollKept
<1> QED BY <1>1, <1>3, <1>4, <1>8, <1>9, <1>11, EvtFacts, TimerKept, StepSound

\* A task that waits takes its first event, evt.
LEMMA EventGiven ==
    ASSUME SoundInv, NEW t \in Tasks, NEW evt, Event(t, evt), evts' = Taken(t)
    PROVE  /\ at[t].pc = "wait" /\ Listed(t) /\ ~Carries(t)
           /\ evts' \in [Tasks -> Seq(Evts)]
           /\ \A u \in Tasks : /\ Once(evts'[u], "POLL")
                               /\ u # t => (Asked(u)' <=> Asked(u))
           /\ Asked(t)' <=> Asked(t) /\ evt # "POLL"
           /\ evt = "POLL" => Asked(t)
<1>1. TypeOK /\ AtOf(t) /\ \A u \in Tasks : Once(evts[u], "POLL")
    BY Given DEF PollInv
<1>2. at[t].pc = "wait" /\ evts[t] # <<>> /\ Head(evts[t]) = evt
    BY DEF Event
<1>3. evts' = [evts EXCEPT ![t] = Tail(@)]
    BY DEF Taken
<1>4. /\ evts' \in [Tasks -> Seq(Evts)] /\ Once(evts'[t], "POLL")
      /\ \A w \in Tasks : w # t => evts'[w] = evts[w]
      /\ Asked(t)' <=> Asked(t) /\ Head(evts[t]) # "POLL"
      /\ Head(evts[t]) = "POLL" => Asked(t)
    BY <1>1, <1>2, <1>3, EventTaken
<1>5. \A u \in Tasks : Once(evts'[u], "POLL") /\ (u # t => (Asked(u)' <=> Asked(u)))
    BY <1>1, <1>4 DEF Asked
<1>6. Listed(t) /\ ~Carries(t)
    BY <1>1, <1>2 DEF AtOf, Carries
<1> QED BY <1>2, <1>4, <1>5, <1>6

LEMMA PassedType ==
    ASSUME TypeOK, NEW t \in Tasks
    PROVE  PassedWith(t) \subseteq Tasks
BY ListedFacts DEF PassedWith, TypeOK

LEMMA TimerEventSound ==
    ASSUME SoundInv, NEW t \in Tasks, TimerEvent(t)
    PROVE  SoundInv'
<1>1. TypeOK /\ PollInv /\ OtherTypes /\ NoTwice(pending_list)
    BY Given
<1>2. /\ pending_list' = Without(t) /\ prio' = prio /\ dropped' = dropped
      /\ is_polling' = is_polling /\ is_to_repoll' = is_to_repoll
      /\ value' = value /\ cancelled_value' = cancelled_value
      /\ passed' = PassedWith(t) /\ evts' = Taken(t) /\ Event(t, "TIMER")
      /\ timer' = [timer EXCEPT ![t] = "no"] /\ Goes(t, Rest("idle"))
    BY DEF TimerEvent, Goes
<1>3. OtherTypes' /\ timer' \in [Tasks -> {"no", "to_set", "set", "posted", "refused"}]
    BY <1>1, <1>2, PassedType, TimerType DEF OtherTypes
<1>4. /\ Listed(t) /\ ~Carries(t) /\ evts' \in [Tasks -> Seq(Evts)]
      /\ \A u \in Tasks : Once(evts'[u], "POLL") /\ (Asked(u)' <=> Asked(u))
    BY <1>2, EventGiven
<1>5. PICK r \in AtType : Goes(t, r) /\ r.pc = "idle"
    BY <1>2, RestFacts DEF Rests
<1>6. /\ at' \in [Tasks -> AtType] /\ at'[t] = r /\ Only(t) /\ ~Listed(t)'
      /\ NoTwice(pending_list)' /\ pending_list' \in Seq(Tasks)
      /\ \A u \in Tasks : u # t => (Carries(u)' <=> Carries(u))
    BY <1>1, <1>2, <1>4, <1>5, Leaves
<1>7. AtOf(t)' /\ ~Carries(t)'
    BY <1>5, <1>6 DEF AtOf, Carries
<1>8. PollInv'
    BY <1>1, <1>2, <1>4, <1>6, <1>7, PollKept
<1> QED BY <1>2, <1>3, <1>4, <1>6, <1>7, <1>8, StepSound

\* A task that waits posts a cancel on, or leaves the list with the cancel.
LEMMA CancelEventSound ==
    ASSUME SoundInv, NEW t \in Tasks, CancelEvent(t)
    PROVE  SoundInv'
<1>1. TypeOK /\ PollInv /\ OtherTypes /\ NoTwice(pending_list)
    BY Given
<1>2. /\ prio' = prio /\ dropped' = dropped
      /\ is_polling' = is_polling /\ is_to_repoll' = is_to_repoll
      /\ value' = value /\ cancelled_value' = cancelled_value
      /\ passed' = PassedWith(t) /\ evts' = Taken(t) /\ Event(t, "CANCEL")
      /\ timer' = timer
    BY Zenon DEF CancelEvent
<1>3. OtherTypes' /\ timer' \in [Tasks -> {"no", "to_set", "set", "posted", "refused"}]
    BY <1>1, <1>2, PassedType, TimerKept DEF OtherTypes
<1>4. /\ Listed(t) /\ ~Carries(t) /\ evts' \in [Tasks -> Seq(Evts)]
      /\ \A u \in Tasks : Once(evts'[u], "POLL") /\ (Asked(u)' <=> Asked(u))
    BY <1>2, EventGiven
<1>5. CASE cancelled_value # {}
  <2>1. Goes(t, CancelPlace("idle", "post", "CANCEL", Null)) /\ pending_list' = Without(t)
    BY <1>5, Zenon DEF CancelEvent, Goes, CancelPlace
  <2>2. PICK r \in AtType : /\ r = CancelPlace("idle", "post", "CANCEL", Null)
                            /\ r.pc = "post" /\ r.then = "idle" /\ r.evt = "CANCEL"
    BY NewCancel DEF Rests, Steps, Nodes
  <2>3. /\ at' \in [Tasks -> AtType] /\ at'[t] = r /\ Only(t) /\ ~Listed(t)'
        /\ NoTwice(pending_list)' /\ pending_list' \in Seq(Tasks)
        /\ \A u \in Tasks : u # t => (Carries(u)' <=> Carries(u))
    BY <1>1, <1>4, <2>1, <2>2, Leaves
  <2>4. AtOf(t)' /\ ~Carries(t)'
    BY <2>2, <2>3 DEF AtOf, Carries
  <2>5. PollInv'
    BY <1>1, <1>2, <1>4, <2>3, <2>4, PollKept
  <2> QED BY <1>2, <1>3, <1>4, <2>3, <2>4, <2>5, StepSound
<1>6. CASE ~(cancelled_value # {})
  <2>1. PICK n \in Nodes : n = NextOf(t)
    BY <1>1, NextFacts
  <2>2. Goes(t, CancelPlace("wait", "post", "CANCEL", n)) /\ pending_list' = pending_list
    BY <1>6, <2>1, Zenon DEF CancelEvent, Goes, CancelPlace
  <2>3. PICK r \in AtType : /\ r = CancelPlace("wait", "post", "CANCEL", n)
                            /\ r.pc = "post" /\ r.then = "wait" /\ r.evt = "CANCEL"
    BY NewCancel DEF Rests, Steps
  <2>4. /\ at' \in [Tasks -> AtType] /\ at'[t] = r /\ Only(t) /\ (Listed(t)' <=> Listed(t))
        /\ NoTwice(pending_list)' /\ pending_list' \in Seq(Tasks)
        /\ \A u \in Tasks : u # t => (Carries(u)' <=> Carries(u))
    BY <1>1, <2>2, <2>3, Moves
  <2>5. AtOf(t)' /\ ~Carries(t)'
    BY <1>4, <2>3, <2>4 DEF AtOf, Carries
  <2>6. PollInv'
    BY <1>1, <1>2, <1>4, <2>4, <2>5, PollKept
  <2> QED BY <1>2, <1>3, <1>4, <2>4, <2>5, <2>6, StepSound
<1> QED BY <1>5, <1>6

\* A task that waits takes the event of the poll, and has the poll in its hands.
LEMMA PollEventSound ==
    ASSUME SoundInv, NEW t \in Tasks, PollEventPending(t) \/ PollEventGet(t)
    PROVE  SoundInv'
<1>1. TypeOK /\ PollInv /\ OtherTypes /\ NoTwice(pending_list)
    BY Given
<1>2. /\ prio' = prio /\ dropped' = dropped /\ pending_list' = pending_list
      /\ is_polling' = is_polling /\ is_to_repoll' = is_to_repoll
      /\ value' = value /\ cancelled_value' = cancelled_value
      /\ evts' = Taken(t) /\ Event(t, "POLL") /\ timer' = timer
      /\ passed' = passed \/ passed' = passed \ {t}
    BY Zenon DEF PollEventPending, PollEventGet
<1>3. OtherTypes' /\ timer' \in [Tasks -> {"no", "to_set", "set", "posted", "refused"}]
    BY <1>1, <1>2, TimerKept DEF OtherTypes
<1>4. /\ Listed(t) /\ ~Carries(t) /\ evts' \in [Tasks -> Seq(Evts)]
      /\ \A u \in Tasks : /\ Once(evts'[u], "POLL")
                          /\ u # t => (Asked(u)' <=> Asked(u))
      /\ ~Asked(t)' /\ Asked(t)
    BY <1>2, EventGiven
<1>5. PICK r \in AtType : /\ Goes(t, r) /\ r.evt = "POLL"
                          /\ \/ r.pc = "post" /\ r.then = "wait"
                             \/ r.pc = "reset" /\ r.then = "idle"
  <2>1. CASE PollEventPending(t)
    <3>1. PICK n \in Nodes : n = NextOf(t)
        BY <1>1, NextFacts
    <3>2. Goes(t, PostPlace("wait", "post", n))
        BY <2>1, <3>1, Zenon DEF PollEventPending, Goes, PostPlace
    <3> QED BY <3>2, NewPost DEF Rests, Steps
  <2>2. CASE PollEventGet(t)
    <3>1. PICK mask \in SUBSET Bits : mask = value \cap Pender[t].mask \cap AutoReset
        BY <1>1 DEF OtherTypes
    <3>2. Goes(t, ResetPlace("idle", "reset", mask))
        BY <2>2, <3>1, Zenon DEF PollEventGet, Goes, ResetPlace
    <3> QED BY <3>2, NewReset DEF Rests, Steps
  <2> QED BY <2>1, <2>2
<1>6. /\ at' \in [Tasks -> AtType] /\ at'[t] = r /\ Only(t) /\ (Listed(t)' <=> Listed(t))
      /\ NoTwice(pending_list)' /\ pending_list' \in Seq(Tasks)
      /\ \A u \in Tasks : u # t => (Carries(u)' <=> Carries(u))
    BY <1>1, <1>2, <1>5, Moves
<1>7. AtOf(t)' /\ Carries(t)'
    BY <1>4, <1>5, <1>6 DEF AtOf, Carries
<1>8. Polling(t) /\ \A u \in Tasks : u # t => ~Asked(u) /\ ~Carries(u)
    BY <1>1, <1>4, PollingIs DEF PollInv
<1>9. \A u \in Tasks : /\ Asked(u)' \/ Carries(u)' <=> u = t
                       /\ ~(Asked(u)' /\ Carries(u)')
                       /\ Once(evts'[u], "POLL")
    BY <1>4, <1>6, <1>7, <1>8
<1>10. PollInv'
    BY <1>1, <1>2, <1>8, <1>9, PollMoved DEF PollInv
<1> QED BY <1>2, <1>3, <1>4, <1>6, <1>7, <1>10, StepSound

\* A step that moves no task.
LEMMA StaysFacts ==
    ASSUME SoundInv, NEW t \in Tasks, at' = at, pending_list' = pending_list
    PROVE  /\ at' \in [Tasks -> AtType] /\ Only(t) /\ AtOf(t)'
           /\ NoTwice(pending_list)' /\ pending_list' \in Seq(Tasks)
           /\ \A u \in Tasks : Carries(u)' <=> Carries(u)
<1>1. TypeOK /\ AtOf(t) /\ NoTwice(pending_list) /\ at \in [Tasks -> AtType]
    BY Given, AtFacts
<1>2. (\A x : Listed(x)' <=> Listed(x)) /\ NoTwice(pending_list)'
    BY <1>1, KeptList
<1>3. Only(t) /\ AtOf(t)' /\ \A u \in Tasks : Carries(u)' <=> Carries(u)
    BY <1>1, <1>2 DEF Only, AtOf, Carries
<1> QED BY <1>1, <1>2, <1>3 DEF TypeOK

\* An event for a wait that is over; that of a poll is lost, and polling with it.
LEMMA StrayEventSound ==
    ASSUME SoundInv, NEW t \in Tasks, StrayEvent(t)
    PROVE  SoundInv'
<1>1. TypeOK /\ PollInv /\ AtOf(t) /\ OtherTypes
    BY Given
<1>2. /\ at' = at /\ pending_list' = pending_list /\ prio' = prio /\ timer' = timer
      /\ is_polling' = is_polling /\ is_to_repoll' = is_to_repoll
      /\ value' = value /\ cancelled_value' = cancelled_value /\ passed' = passed
      /\ dropped' = (dropped \/ Head(evts[t]) = "POLL")
      /\ evts' = [evts EXCEPT ![t] = Tail(@)] /\ evts[t] # <<>>
      /\ at[t].pc = "idle"
    BY DEF StrayEvent, Idle, Taken
<1>3. OtherTypes' /\ timer' \in [Tasks -> {"no", "to_set", "set", "posted", "refused"}]
    BY <1>1, <1>2, TimerKept DEF OtherTypes
<1>4. /\ evts' \in [Tasks -> Seq(Evts)] /\ Once(evts'[t], "POLL")
      /\ \A w \in Tasks : w # t => evts'[w] = evts[w]
      /\ Asked(t)' <=> Asked(t) /\ Head(evts[t]) # "POLL"
      /\ Head(evts[t]) = "POLL" => Asked(t)
    BY <1>1, <1>2, EventTaken DEF PollInv
<1>5. \A u \in Tasks : Once(evts'[u], "POLL") /\ (u # t => (Asked(u)' <=> Asked(u)))
    BY <1>1, <1>4 DEF Asked, PollInv
<1>6. /\ at' \in [Tasks -> AtType] /\ Only(t) /\ AtOf(t)'
      /\ NoTwice(pending_list)' /\ pending_list' \in Seq(Tasks)
      /\ \A u \in Tasks : Carries(u)' <=> Carries(u)
    BY <1>2, StaysFacts
<1>7. PollInv'
  <2>1. CASE Head(evts[t]) = "POLL"
    <3>1. Polling(t) /\ ~Carries(t)
        BY <1>1, <1>4, <2>1, PollingIs DEF PollInv
    <3>2. is_polling /\ \A u \in Tasks : ~Carries(u) /\ (u # t => ~Asked(u))
        BY <1>1, <3>1, PollingIs DEF PollInv
    <3>3. \A u \in Tasks : ~Asked(u)' /\ ~Carries(u)' /\ Once(evts'[u], "POLL")
        BY <1>4, <1>5, <1>6, <2>1, <3>2
    <3> QED BY <1>1, <1>2, <2>1, <3>2, <3>3, PollOver
  <2>2. CASE Head(evts[t]) # "POLL"
    <3>1. \A u \in Tasks : Asked(u)' <=> Asked(u)
        BY <1>4, <1>5, <2>2
    <3>2. dropped' = dropped
        BY <1>1, <1>2, <2>2 DEF OtherTypes
    <3> QED BY <1>1, <1>2, <1>5, <1>6, <3>1, <3>2, PollKept
  <2> QED BY <2>1, <2>2
<1> QED BY <1>2, <1>3, <1>4, <1>6, <1>7, StepSound

LEMMA ExpireSound ==
    ASSUME SoundInv, NEW t \in Tasks, Expire(t)
    PROVE  SoundInv'
<1>1. TypeOK /\ PollInv /\ OtherTypes
    BY Given
<1>2. /\ at' = at /\ pending_list' = pending_list /\ prio' = prio /\ dropped' = dropped
      /\ is_polling' = is_polling /\ is_to_repoll' = is_to_repoll
      /\ value' = value /\ cancelled_value' = cancelled_value /\ passed' = passed
    BY DEF Expire
<1>3. OtherTypes' /\ timer' \in [Tasks -> {"no", "to_set", "set", "posted", "refused"}]
  <2>1. \E v \in {"posted", "refused"} : timer' = [timer EXCEPT ![t] = v]
    BY DEF Expire
  <2> QED BY <1>1, <1>2, <2>1, TimerType DEF OtherTypes
<1>4. /\ evts' \in [Tasks -> Seq(Evts)]
      /\ \A u \in Tasks : (Asked(u)' <=> Asked(u)) /\ Once(evts'[u], "POLL")
  <2>1. CASE evts' = evts
    BY <1>1, <2>1, AskedKept, EvtFacts
  <2>2. CASE evts' = [evts EXCEPT ![t] = Append(@, "TIMER")]
    <3>1. PICK v \in Evts : v = "TIMER"
        BY DEF Evts
    <3>2. evts' = [evts EXCEPT ![t] = Append(@, v)]
        BY <2>2, <3>1
    <3>3. /\ evts' \in [Tasks -> Seq(Evts)] /\ Once(evts'[t], "POLL")
          /\ \A w \in Tasks : w # t => evts'[w] = evts[w]
          /\ Asked(t)' <=> Asked(t) \/ v = "POLL"
        BY <1>1, <3>1, <3>2, EventAdded DEF PollInv
    <3>4. \A u \in Tasks : Once(evts'[u], "POLL") /\ (u # t => (Asked(u)' <=> Asked(u)))
        BY <1>1, <3>3 DEF Asked, PollInv
    <3> QED BY <3>1, <3>3, <3>4
  <2> QED BY <2>1, <2>2 DEF Expire
<1>5. /\ at' \in [Tasks -> AtType] /\ Only(t) /\ AtOf(t)'
      /\ NoTwice(pending_list)' /\ pending_list' \in Seq(Tasks)
      /\ \A u \in Tasks : Carries(u)' <=> Carries(u)
    BY <1>2, StaysFacts
<1>6. PollInv'
    BY <1>1, <1>2, <1>4, <1>5, PollKept
<1> QED BY <1>2, <1>3, <1>4, <1>5, <1>6, StepSound

LEMMA InitSound == Init => SoundInv
<1> SUFFICES ASSUME Init PROVE SoundInv
    OBVIOUS
<1>1. /\ pending_list = <<>> /\ evts = [t \in Tasks |-> <<>>]
      /\ timer = [t \in Tasks |-> "no"] /\ prio \in Prios
      /\ value = {} /\ cancelled_value = {} /\ is_polling = FALSE /\ is_to_repoll = FALSE
      /\ passed = {} /\ dropped = FALSE /\ at = [t \in Tasks |-> Rest("idle")]
    BY DEF Init
<1>2. PICK r \in AtType : r = Rest("idle") /\ r.pc = "idle"
    BY RestFacts DEF Rests
<1>3. at \in [Tasks -> AtType] /\ \A t \in Tasks : at[t] = r
    BY <1>1, <1>2
<1>4. \A t \in Tasks : evts[t] = <<>> /\ ~Asked(t) /\ Once(evts[t], "POLL") /\ ~Listed(t)
    BY <1>1 DEF Asked, Once, Listed, Range, ToSet
<1>5. prio \in [Tasks -> Nat]
    BY <1>1, UseAssumption
<1>6. TypeOK
  <2>1. evts \in [Tasks -> Seq({"POLL", "CANCEL", "TIMER"})] /\ pending_list \in Seq(Tasks)
    BY <1>1
  <2>2. timer \in [Tasks -> {"no", "to_set", "set", "posted", "refused"}]
    BY <1>1
  <2> QED BY <1>1, <1>3, <1>5, <2>1, <2>2 DEF TypeOK, AtType
<1>7. NoTwice(pending_list)
    BY <1>1 DEF NoTwice
<1>8. AtInv /\ \A t \in Tasks : ~Carries(t)
    BY <1>2, <1>3, <1>4 DEF AtInv, AtOf, Carries
<1>9. PollInv
    BY <1>1, <1>4, <1>8, PollingIs DEF PollInv
<1> QED BY <1>6, <1>7, <1>8, <1>9 DEF SoundInv

LEMMA NextSound == SoundInv /\ [Next]_vars => SoundInv'
<1> SUFFICES ASSUME SoundInv, [Next]_vars PROVE SoundInv'
    OBVIOUS
<1>1. CASE UNCHANGED vars
    BY <1>1 DEF vars, SoundInv, TypeOK, NoTwice, AtInv, AtOf, PollInv, Polling, Carries,
                Asked, Listed, Once
<1>2. ASSUME NEW t \in Tasks, TaskCall(t) PROVE SoundInv'
  <2>1. ASSUME NEW timeout \in Timeouts[t], Pend(t, timeout) PROVE SoundInv'
    <3>1. timeout \in {"timed", "forever"}
        BY UseAssumption
    <3> QED BY <2>1, <3>1, PendSound
  <2> QED BY <1>2, <2>1, CallSound DEF TaskCall
<1>3. ASSUME NEW t \in Tasks, TaskStep(t) PROVE SoundInv'
    BY <1>3, ResetSound, ClearSound, PollStartSound, WalkSound, PostEndSound, PostSound,
       RemovePenderSound, TimerEventSound, CancelEventSound, PollEventSound, StrayEventSound
       DEF TaskStep
<1>4. ASSUME NEW t \in Tasks, Expire(t) PROVE SoundInv'
    BY <1>4, ExpireSound
<1> QED BY <1>1, <1>2, <1>3, <1>4 DEF Next

LEMMA Sound == Spec => []SoundInv
<1> QED BY InitSound, NextSound, PTL DEF Spec

\* The unprotected walk over the pending list is the only one, is_polling says
\* whether it goes on, and the list is the list of those who wait: whatever the
\* number of tasks, their priorities, and what they set, reset or cancel.
THEOREM PollStaysSound == Spec => []PollIsSound
<1>1. ASSUME SoundInv PROVE PollIsSound
  <2>1. TypeOK /\ NoTwice(pending_list) /\ AtInv /\ PollInv
    BY <1>1 DEF SoundInv
  <2>2. IsInjective(pending_list)
    BY <2>1 DEF IsInjective, NoTwice
  <2>3. ListedIsWaiting
    BY <2>1, <2>2 DEF ListedIsWaiting, AtInv, AtOf
  <2>4. OnePoll
    <3>1. is_polling \in BOOLEAN /\ dropped \in BOOLEAN
        BY <2>1 DEF TypeOK
    <3> QED BY <2>1, <3>1 DEF PollInv, OnePoll
  <2> QED BY <2>1, <2>3, <2>4 DEF PollIsSound
<1> QED BY <1>1, Sound, PTL

-----------------------------------------------------------------------------
(* No task is overlooked: action by action *)

\* Whether the poll is still ahead of all tasks.
AllAhead ==
    \/ dropped \/ is_to_repoll \/ \E u \in Tasks : at[u].pc = "start"
    \/ \E h \in Tasks : Carries(h) /\ at[h].pc \in {"head", "repoll"}

LEMMA CoverAll == ASSUME AllAhead' PROVE CoverInv'
BY DEF AllAhead, CoverInv, Ahead, Reaches

\* What t does not touch stays as it was, as long as the list is the same.
LEMMA ReachKept ==
    ASSUME NEW h \in Tasks, at'[h] = at[h], pending_list' = pending_list, Asked(h) => Asked(h)'
    PROVE  \A x \in Tasks : Reaches(h, x) => Reaches(h, x)'
<1>1. Carries(h)' <=> Carries(h)
    BY DEF Carries, Listed
<1>2. \A x : /\ Listed(x)' <=> Listed(x)
             /\ \A n : (Behind(n, x)' <=> Behind(n, x)) /\ (Past(n, x)' <=> Past(n, x))
    BY DEF Listed, Behind, Past
<1>3. ASSUME NEW x \in Tasks, Reaches(h, x) PROVE Reaches(h, x)'
  <2>1. CASE Asked(h) /\ (~Listed(h) \/ Behind(h, x))
    BY <1>2, <2>1 DEF Reaches
  <2>2. CASE ~(Asked(h) /\ (~Listed(h) \/ Behind(h, x)))
    BY <1>1, <1>2, <1>3, <2>2 DEF Reaches
  <2> QED BY <2>1, <2>2
<1> QED BY <1>3

\* A task that does not carry the poll reaches with the event in its queue.
LEMMA ReachAsked ==
    ASSUME NEW t \in Tasks, ~Carries(t), pending_list' = pending_list, Asked(t) => Asked(t)'
    PROVE  \A x \in Tasks : Reaches(t, x) => Reaches(t, x)'
<1>1. \A x : (Listed(x)' <=> Listed(x)) /\ (Behind(t, x)' <=> Behind(t, x))
    BY DEF Listed, Behind
<1>2. ASSUME NEW x \in Tasks, Reaches(t, x) PROVE Reaches(t, x)'
  <2>1. Asked(t) /\ (~Listed(t) \/ Behind(t, x))
    BY <1>2 DEF Reaches
  <2> QED BY <1>1, <2>1 DEF Reaches
<1> QED BY <1>2

\* A step of t that keeps the list: only what t reached has to be reached again.
LEMMA CoverMove ==
    ASSUME SoundInv, CoverInv, NEW t \in Tasks, NEW r \in AtType, Goes(t, r),
           pending_list' = pending_list, dropped => dropped', is_to_repoll => is_to_repoll',
           at[t].pc = "start" => r.pc = "start",
           \A x \in Tasks : Satisfied(x)' /\ x \notin passed' => Satisfied(x) /\ x \notin passed,
           \A u \in Tasks : u # t /\ Asked(u) => Asked(u)',
           \A x \in Tasks : Reaches(t, x) /\ Listed(x) /\ Satisfied(x) /\ x \notin passed' =>
                              \E g \in Tasks : Reaches(g, x)'
    PROVE  CoverInv'
<1>1. at'[t] = r /\ \A u \in Tasks : u # t => at'[u] = at[u]
    BY GoesFacts DEF SoundInv
<1>2. \A x : Listed(x)' <=> Listed(x)
    BY KeptList
<1>3. ASSUME NEW x \in Tasks, Listed(x)', Satisfied(x)', x \notin passed' PROVE Ahead(x)'
  <2>1. Listed(x) /\ Satisfied(x) /\ Ahead(x)
    BY <1>2, <1>3 DEF CoverInv
  <2>2. CASE dropped \/ is_to_repoll
    BY <2>2 DEF Ahead
  <2>3. ASSUME NEW u \in Tasks, at[u].pc = "start" PROVE Ahead(x)'
    <3>1. at'[u].pc = "start"
        BY <1>1, <2>3
    <3> QED BY <3>1 DEF Ahead
  <2>4. ASSUME NEW h \in Tasks, Reaches(h, x) PROVE Ahead(x)'
    <3>1. \E g \in Tasks : Reaches(g, x)'
      <4>1. CASE h = t
        BY <1>3, <2>1, <2>4, <4>1
      <4>2. CASE h # t
        <5>1. at'[h] = at[h] /\ (Asked(h) => Asked(h)')
            BY <1>1, <4>2
        <5> QED BY <2>4, <5>1, ReachKept
      <4> QED BY <4>1, <4>2
    <3> QED BY <3>1 DEF Ahead
  <2> QED BY <2>1, <2>2, <2>3, <2>4 DEF Ahead
<1> QED BY <1>3 DEF CoverInv

\* A step of t with which t leaves the list.
LEMMA CoverLeave ==
    ASSUME SoundInv, CoverInv, NEW t \in Tasks, NEW r \in AtType, Goes(t, r), Listed(t),
           pending_list' = Without(t), dropped => dropped', is_to_repoll => is_to_repoll',
           at[t].pc # "start", value' = value, passed \subseteq passed',
           \A u \in Tasks : u # t /\ Asked(u) => Asked(u)',
           \A x \in Tasks : Reaches(t, x) /\ Listed(x) /\ x # t => x \in passed'
    PROVE  CoverInv'
<1>1. at'[t] = r /\ \A u \in Tasks : u # t => at'[u] = at[u]
    BY GoesFacts DEF SoundInv
<1>2. /\ \A x : Listed(x)' <=> Listed(x) /\ x # t
      /\ \A n, x : n # t /\ x # t => /\ Behind(n, x) => Behind(n, x)'
                                     /\ Past(n, x) => Past(n, x)'
    BY WithoutFacts DEF SoundInv
<1>3. ASSUME NEW x \in Tasks, x # t, NEW h \in Tasks, h # t, Reaches(h, x)
      PROVE  Reaches(h, x)'
  <2>1. at'[h] = at[h] /\ (Asked(h) => Asked(h)')
    BY <1>1, <1>3
  <2>2. Carries(h) => Carries(h)'
    BY <1>2, <1>3, <2>1 DEF Carries
  <2>3. CASE Asked(h) /\ (~Listed(h) \/ Behind(h, x))
    BY <1>2, <1>3, <2>1, <2>3 DEF Reaches
  <2>4. CASE Carries(h)
    <3>1. CASE at[h].pc \in {"head", "repoll"}
        BY <2>1, <2>2, <2>4, <3>1 DEF Reaches
    <3>2. CASE at[h].pc \in {"reset", "clear", "remove"} /\ Behind(h, x)
        BY <1>2, <1>3, <2>1, <2>2, <2>4, <3>2 DEF Reaches
    <3>3. CASE at[h].pc = "post" /\ at[h].node # Null /\ (~Listed(at[h].node) \/ Behind(at[h].node, x))
      <4>1. PICK n : n = at[h].node
        OBVIOUS
      <4>2. ~Listed(n)' \/ Behind(n, x)'
        BY <1>2, <1>3, <3>3, <4>1
      <4>3. at'[h].pc = "post" /\ at'[h].node # Null /\ n = at'[h].node
        BY <2>1, <3>3, <4>1
      <4> QED BY <2>2, <2>4, <4>2, <4>3 DEF Reaches, Listed, Behind
    <3>4. CASE at[h].pc = "next" /\ (~Listed(at[h].node) \/ Past(at[h].node, x))
      <4>1. PICK n : n = at[h].node
        OBVIOUS
      <4>2. ~Listed(n)' \/ Past(n, x)'
        BY <1>2, <1>3, <3>4, <4>1
      <4>3. at'[h].pc = "next" /\ n = at'[h].node
        BY <2>1, <3>4, <4>1
      <4> QED BY <2>2, <2>4, <4>2, <4>3 DEF Reaches, Listed, Past
    <3> QED BY <1>3, <2>3, <2>4, <3>1, <3>2, <3>3, <3>4 DEF Reaches
  <2> QED BY <1>3, <2>3, <2>4 DEF Reaches
<1>4. ASSUME NEW x \in Tasks, Listed(x)', Satisfied(x)', x \notin passed' PROVE Ahead(x)'
  <2>1. Listed(x) /\ Satisfied(x) /\ Ahead(x) /\ x # t
    BY <1>2, <1>4 DEF CoverInv, Satisfied
  <2>2. CASE dropped \/ is_to_repoll
    BY <2>2 DEF Ahead
  <2>3. ASSUME NEW u \in Tasks, at[u].pc = "start" PROVE Ahead(x)'
    <3>1. at'[u].pc = "start"
        BY <1>1, <2>3
    <3> QED BY <3>1 DEF Ahead
  <2>4. ASSUME NEW h \in Tasks, Reaches(h, x) PROVE Ahead(x)'
    <3>1. h # t
        BY <1>4, <2>1, <2>4
    <3>2. Reaches(h, x)'
        BY <1>3, <2>1, <2>4, <3>1
    <3> QED BY <3>2 DEF Ahead
  <2> QED BY <2>1, <2>2, <2>3, <2>4 DEF Ahead
<1> QED BY <1>4 DEF CoverInv

\* Calls that begin: nothing is reached through the caller but by its events.
LEMMA CallCover ==
    ASSUME SoundInv, CoverInv, SoundInv', NEW t \in Tasks, TaskCall(t)
    PROVE  CoverInv'
<1>1. TypeOK /\ AtOf(t) /\ AtOf(t)'
    BY Given DEF SoundInv, AtInv
<1>2. at[t].pc = "idle" /\ ~Listed(t) /\ ~Carries(t)
  <2>1. Idle(t)
    BY Zenon DEF TaskCall, Try, Set, ResetCall, Cancel, Pend
  <2> QED BY <1>1, <2>1 DEF AtOf, Carries, Idle
<1>3. ASSUME NEW then \in Rests, Call(t, "start", "POLL", then) PROVE CoverInv'
  <2>1. PICK r \in AtType : Goes(t, r) /\ r.pc = "start"
    BY <1>3, CallGoes DEF Steps
  <2>2. at'[t].pc = "start"
    BY <1>1, <2>1, GoesFacts
  <2> QED BY <2>2, CoverAll DEF AllAhead
<1>4. CASE (\E timeout \in Timeouts[t] : Pend(t, timeout)) \/ \E mask \in Masks : Set(t, mask)
  <2>1. \E then \in Rests : Call(t, "start", "POLL", then)
    BY <1>4, Zenon DEF Pend, Set, Rests
  <2> QED BY <1>3, <2>1
<1>5. CASE \/ Try(t) \/ \E mask \in Masks : ResetCall(t, mask)
           \/ \E mask \in CancelMasks : Cancel(t, mask)
  <2>1. \E r \in AtType : Goes(t, r)
    <3>1. at' \in [Tasks -> AtType]
        BY AtFacts DEF SoundInv, TypeOK, AtType
    <3>2. \E r : at' = [at EXCEPT ![t] = r]
        BY <1>5, Zenon DEF Try, ResetCall, Cancel, Call
    <3> QED BY <1>1, <3>1, <3>2, AtFacts DEF Goes
  <2>2. PICK r \in AtType : Goes(t, r)
    BY <2>1
  <2>3. /\ pending_list' = pending_list /\ evts' = evts /\ dropped' = dropped
        /\ is_to_repoll' = is_to_repoll /\ passed' = passed /\ value' = value
    BY <1>5, Zenon DEF Try, ResetCall, Cancel
  <2>4. \A u \in Tasks : Asked(u)' <=> Asked(u)
    BY <2>3 DEF Asked
  <2>5. \A x \in Tasks : Satisfied(x)' <=> Satisfied(x)
    BY <2>3 DEF Satisfied
  <2>6. \A x \in Tasks : Reaches(t, x) => Reaches(t, x)'
    BY <1>2, <2>3, <2>4, ReachAsked
  <2> QED BY <1>2, <2>2, <2>3, <2>4, <2>5, <2>6, CoverMove
<1> QED BY <1>4, <1>5 DEF TaskCall

\* The place to which a step has taken t.
LEMMA PlaceIs ==
    ASSUME SoundInv, SoundInv', NEW t \in Tasks, NEW r, at' = [at EXCEPT ![t] = r]
    PROVE  r \in AtType /\ Goes(t, r)
<1>1. at \in [Tasks -> AtType] /\ at' \in [Tasks -> AtType]
    BY AtFacts DEF SoundInv, TypeOK, AtType
<1> QED BY <1>1 DEF Goes

\* A step of a call that is not the poll, which keeps the list.
LEMMA CoverQuiet ==
    ASSUME SoundInv, CoverInv, NEW t \in Tasks, NEW r \in AtType, Goes(t, r),
           pending_list' = pending_list, evts' = evts, dropped' = dropped,
           is_to_repoll' = is_to_repoll, at[t].pc # "start", passed \subseteq passed',
           value' = value, ~Carries(t)
    PROVE  CoverInv'
<1>1. \A u \in Tasks : Asked(u)' <=> Asked(u)
    BY DEF Asked
<1>2. \A x \in Tasks : Satisfied(x)' <=> Satisfied(x)
    BY DEF Satisfied
<1>3. \A x \in Tasks : Reaches(t, x) => Reaches(t, x)'
    BY <1>1, ReachAsked
<1> QED BY <1>1, <1>2, <1>3, CoverMove

LEMMA ResetCover ==
    ASSUME SoundInv, CoverInv, SoundInv', NEW t \in Tasks, Reset(t) \/ Clear(t)
    PROVE  CoverInv'
<1>1. TypeOK /\ AtOf(t) /\ at[t].pc \in {"reset", "clear"}
    BY Given DEF Reset, Clear, AtStep
<1>2. /\ pending_list' = pending_list /\ evts' = evts /\ dropped' = dropped
      /\ is_to_repoll' = is_to_repoll /\ passed' = passed /\ value' \subseteq value
  <2>1. Clear(t) => evts' = evts
    BY Zenon DEF Clear, Return
  <2> QED BY <2>1 DEF Reset, Clear
<1>3. \A u \in Tasks : Asked(u)' <=> Asked(u)
    BY <1>2 DEF Asked
<1>4. \A x \in Tasks : Satisfied(x)' => Satisfied(x)
    BY <1>2 DEF Satisfied
<1>5. \E r \in AtType : Goes(t, r) /\ (Listed(t) => r.pc \in {"clear", "remove"})
  <2>1. CASE Reset(t)
    <3>1. PICK q \in AtType : q = at[t]
        BY <1>1, AtFacts
    <3> DEFINE r == [q EXCEPT !.mask = q.mask \cap value, !.pc = "clear"]
    <3>2. r \in AtType /\ r.pc = "clear"
        BY DEF AtType, Rests, Steps
    <3>3. Goes(t, r)
        BY <1>1, <2>1, <3>1, AtFacts DEF Reset, Goes, AtType
    <3> QED BY <3>2, <3>3
  <2>2. CASE Clear(t) /\ Listed(t)
    <3>1. Goto(t, "remove")
        BY <2>2 DEF Clear
    <3> QED BY <1>1, <3>1, GoesOn DEF Steps
  <2>3. CASE Clear(t) /\ ~Listed(t)
    <3>1. Return(t, evts)
        BY <2>3 DEF Clear
    <3> QED BY <1>1, <2>3, <3>1, ReturnGoes
  <2> QED BY <2>1, <2>2, <2>3
<1>6. PICK r \in AtType : Goes(t, r) /\ (Listed(t) => r.pc \in {"clear", "remove"})
    BY <1>5
<1>7. ASSUME NEW x \in Tasks, Reaches(t, x) PROVE Reaches(t, x)'
  <2>1. CASE ~Carries(t)
    BY <1>2, <1>3, <1>7, <2>1, ReachAsked
  <2>2. CASE Carries(t)
    <3>1. Listed(t) /\ at'[t] = r
        BY <1>1, <1>6, <2>2, GoesFacts DEF Carries
    <3>2. Listed(t)' /\ (Behind(t, x)' <=> Behind(t, x))
        BY <1>2, <3>1 DEF Listed, Behind
    <3>3. Behind(t, x)
        BY <1>1, <1>7, <3>1 DEF Reaches
    <3> QED BY <1>6, <3>1, <3>2, <3>3 DEF Reaches, Carries
  <2> QED BY <2>1, <2>2
<1> QED BY <1>1, <1>2, <1>3, <1>4, <1>6, <1>7, CoverMove

\* A poll starts, or starts once more.
LEMMA StartCover ==
    ASSUME SoundInv, CoverInv, SoundInv', NEW t \in Tasks,
           PollStart(t) \/ Repoll(t) \/ PostRepoll(t)
    PROVE  CoverInv'
<1>1. TypeOK /\ AtOf(t)
    BY Given
<1>2. CASE PollStart(t) /\ is_polling
  <2>1. is_to_repoll'
    BY <1>2 DEF PollStart
  <2> QED BY <2>1, CoverAll DEF AllAhead
<1>3. CASE PostRepoll(t)
  <2>1. is_to_repoll'
    BY <1>3 DEF PostRepoll
  <2> QED BY <2>1, CoverAll DEF AllAhead
<1>4. CASE (PollStart(t) /\ ~is_polling) \/ Repoll(t)
  <2>1. Goto(t, "head") /\ at[t].pc \in {"start", "repoll"}
    BY <1>4 DEF PollStart, Repoll, AtStep
  <2>2. PICK r \in AtType : Goes(t, r) /\ r.pc = "head" /\ r.evt = at[t].evt
    BY <1>1, <2>1, GoesOn DEF Steps
  <2>3. at'[t].pc = "head" /\ at'[t].evt = "POLL"
    BY <1>1, <2>1, <2>2, GoesFacts DEF AtOf
  <2> QED BY <2>3, CoverAll DEF AllAhead, Carries
<1> QED BY <1>2, <1>3, <1>4

LEMMA TakeHeadCover ==
    ASSUME SoundInv, CoverInv, SoundInv', NEW t \in Tasks, TakeHead(t)
    PROVE  CoverInv'
<1>1. /\ TypeOK /\ AtOf(t) /\ NoTwice(pending_list) /\ at[t].pc = "head"
      /\ at[t] \in AtType /\ at \in [Tasks -> AtType]
    BY Given, AtFacts DEF TakeHead, AtStep
<1>2. /\ pending_list' = pending_list /\ evts' = evts /\ dropped' = dropped
      /\ is_to_repoll' = is_to_repoll /\ passed' = passed /\ value' = value
    BY DEF TakeHead
<1>3. PICK n \in Nodes : n = First(pending_list)
  <2>1. First(pending_list) \in Nodes
    BY <1>1, FirstIsBeforeAll DEF TypeOK, Nodes
  <2> QED BY <2>1
<1>4. PICK q \in AtType : q = at[t]
    BY <1>1
<1> DEFINE r == [q EXCEPT !.node = n, !.pc = "post"]
<1>5. r \in AtType /\ r.pc = "post" /\ r.evt = q.evt /\ r.node = n
    BY DEF AtType, Rests, Steps
<1>6. Goes(t, r)
    BY <1>1, <1>3, <1>4 DEF TakeHead, Goes, AtType
<1> HIDE DEF r
<1>7. at'[t] = r
    BY <1>1, <1>5, <1>6, GoesFacts
<1>8. CASE at[t].evt = "POLL"
  <2>1. ASSUME NEW x \in Tasks, Listed(x) PROVE Reaches(t, x)'
    <3>1. n = Head(pending_list) /\ Behind(n, x) /\ n # Null
      <4>1. PICK s \in Seq(Tasks) : s = pending_list
        BY <1>1 DEF TypeOK
      <4>2. x \in ToSet(s)
        BY <1>1, <2>1, <4>1, ListedFacts
      <4>3. s # <<>> /\ First(s) = Head(s) /\ BehindIn(s, Head(s), x)
        BY <4>2, FirstIsBeforeAll
      <4>4. Head(s) \in Tasks
        BY <4>3
      <4> QED BY <1>3, <4>1, <4>3, <4>4, TaskAssumption DEF Behind
    <3>2. Behind(n, x)'
        BY <1>2, <3>1 DEF Behind
    <3>3. at'[t].pc = "post" /\ at'[t].node = n /\ at'[t].evt = "POLL"
        BY <1>4, <1>5, <1>7, <1>8
    <3> QED BY <3>1, <3>2, <3>3 DEF Reaches, Carries, Behind
  <2>2. \A u \in Tasks : Asked(u)' <=> Asked(u)
    BY <1>2 DEF Asked
  <2>3. \A x \in Tasks : Satisfied(x)' <=> Satisfied(x)
    BY <1>2 DEF Satisfied
  <2> QED BY <1>1, <1>2, <1>5, <1>6, <2>1, <2>2, <2>3, CoverMove
<1>9. CASE at[t].evt # "POLL"
  <2>1. ~Carries(t)
    BY <1>1, <1>9 DEF Carries
  <2> QED BY <1>1, <1>2, <1>5, <1>6, <2>1, CoverQuiet
<1> QED BY <1>8, <1>9

\* At the end of the list nothing is reached any more.
LEMMA PostEndCover ==
    ASSUME SoundInv, CoverInv, SoundInv', NEW t \in Tasks, PostEnd(t)
    PROVE  CoverInv'
<1>1. TypeOK /\ PollInv /\ at[t].pc = "post"
    BY Given DEF PostEnd, AtStep
<1>2. /\ pending_list' = pending_list /\ dropped' = dropped
      /\ is_to_repoll' = is_to_repoll /\ passed' = passed /\ value' = value
      /\ at[t].node = Null /\ Return(t, evts)
    BY DEF PostEnd
<1>3. evts' = evts
    BY <1>1, <1>2, ReturnGoes
<1>4. PICK r \in AtType : Goes(t, r)
    BY <1>1, <1>2, ReturnGoes
<1>5. \A u \in Tasks : Asked(u)' <=> Asked(u)
    BY <1>3 DEF Asked
<1>6. \A x \in Tasks : Satisfied(x)' <=> Satisfied(x)
    BY <1>2 DEF Satisfied
<1>7. ASSUME NEW x \in Tasks, Reaches(t, x) PROVE Reaches(t, x)'
  <2>1. ~Carries(t)
    <3>1. CASE Asked(t)
        BY <1>1, <3>1 DEF PollInv
    <3>2. CASE ~Asked(t)
        BY <1>1, <1>2, <1>7, <3>2 DEF Reaches
    <3> QED BY <3>1, <3>2
  <2> QED BY <1>2, <1>5, <1>7, <2>1, ReachAsked
<1> QED BY <1>1, <1>2, <1>4, <1>5, <1>6, <1>7, CoverMove

\* A refused event has passed its task, and goes on to the next.
LEMMA PostCover ==
    ASSUME SoundInv, CoverInv, SoundInv', NEW t \in Tasks, Post(t)
    PROVE  CoverInv'
<1>1. TypeOK /\ PollInv /\ NoTwice(pending_list) /\ at[t].pc = "post"
    BY Given DEF Post, AtStep
<1>2. PICK n \in Tasks : n = at[t].node
  <2>1. at[t].node # Null
    BY DEF Post
  <2> QED BY <1>1, <2>1, AtFacts DEF Nodes
<1>3. /\ pending_list' = pending_list /\ dropped' = dropped
      /\ is_to_repoll' = is_to_repoll /\ value' = value
    BY DEF Post
<1>4. \A x \in Tasks : Satisfied(x)' <=> Satisfied(x)
    BY <1>3 DEF Satisfied
<1>5. \A x : (Listed(x)' <=> Listed(x)) /\ (Behind(n, x)' <=> Behind(n, x))
             /\ (Past(n, x)' <=> Past(n, x))
    BY <1>3 DEF Listed, Behind, Past
<1>6. CASE Refuses(n)
  <2>1. Goto(t, "next") /\ evts' = evts
    BY <1>2, <1>6 DEF Post
  <2>2. passed' = IF at[t].evt = "POLL" THEN passed \cup {n} ELSE passed
    BY <1>2, <1>6 DEF Post
  <2>3. PICK r \in AtType : Goes(t, r) /\ r.pc = "next" /\ r.evt = at[t].evt
                            /\ r.node = at[t].node
    BY <1>1, <2>1, GoesOn DEF Steps
  <2>4. \A u \in Tasks : Asked(u)' <=> Asked(u)
    BY <2>1 DEF Asked
  <2>5. CASE at[t].evt = "POLL"
    <3>1. ASSUME NEW x \in Tasks, Reaches(t, x), x \notin passed' PROVE Reaches(t, x)'
      <4>1. Carries(t) /\ ~Asked(t)
        BY <1>1, <2>5 DEF Carries, PollInv
      <4>2. ~Listed(n) \/ Behind(n, x)
        BY <1>1, <1>2, <3>1, <4>1 DEF Reaches
      <4>3. ~Listed(n) \/ Past(n, x)
        BY <1>1, <2>2, <2>5, <3>1, <4>2, NextFacts
      <4>4. ~Listed(n)' \/ Past(n, x)'
        BY <1>5, <4>3
      <4>5. at'[t].pc = "next" /\ n = at'[t].node /\ at'[t].evt = "POLL"
        BY <1>1, <1>2, <2>3, <2>5, GoesFacts
      <4> QED BY <4>4, <4>5 DEF Reaches, Carries, Listed, Past
    <3>2. passed \subseteq passed'
        BY <2>2
    <3> QED BY <1>1, <1>3, <1>4, <2>3, <2>4, <3>1, <3>2, CoverMove
  <2>6. CASE at[t].evt # "POLL"
    <3>1. ~Carries(t)
        BY <1>1, <2>6 DEF Carries
    <3> QED BY <1>1, <1>3, <2>1, <2>2, <2>3, <2>6, <3>1, CoverQuiet
  <2> QED BY <2>5, <2>6
<1>7. CASE ~Refuses(n)
  <2>0. PICK v \in Evts : v = at[t].evt
    BY <1>1, AtFacts DEF Evts
  <2>1. Return(t, [evts EXCEPT ![n] = Append(@, v)]) /\ passed' = passed
    BY <1>2, <1>7, <2>0 DEF Post
  <2>2. evts' = [evts EXCEPT ![n] = Append(@, v)]
    BY <1>1, <2>1, ReturnGoes
  <2>3. PICK r \in AtType : Goes(t, r)
    BY <1>1, <2>1, ReturnGoes
  <2>4. \A u \in Tasks : Asked(u) => Asked(u)'
    <3>1. \A u \in Tasks : u # n => evts'[u] = evts[u]
        BY <1>1, <2>2, EvtFacts
    <3>2. PICK s \in Seq(Evts) : s = evts[n]
        BY <1>1, EvtFacts
    <3>3. ToSet(Append(s, v)) = ToSet(s) \cup {v} /\ evts'[n] = Append(s, v)
        BY <1>1, <2>2, <3>2, AppendFacts, EvtFacts
    <3> QED BY <3>1, <3>2, <3>3 DEF Asked
  <2>5. CASE v = "POLL"
    <3>1. Asked(n)'
      <4>1. PICK s \in Seq(Evts) : s = evts[n]
        BY <1>1, EvtFacts
      <4>2. ToSet(Append(s, v)) = ToSet(s) \cup {v} /\ evts'[n] = Append(s, v)
        BY <1>1, <2>2, <4>1, AppendFacts, EvtFacts
      <4> QED BY <2>5, <4>2 DEF Asked
    <3>2. ASSUME NEW x \in Tasks, Reaches(t, x) PROVE Reaches(n, x)'
      <4>1. Carries(t) /\ ~Asked(t)
        BY <1>1, <2>0, <2>5 DEF Carries, PollInv
      <4>2. ~Listed(n) \/ Behind(n, x)
        BY <1>1, <1>2, <3>2, <4>1 DEF Reaches
      <4> QED BY <1>5, <3>1, <4>2 DEF Reaches
    <3> QED BY <1>1, <1>3, <1>4, <2>1, <2>3, <2>4, <3>2, CoverMove
  <2>6. CASE v # "POLL"
    <3>1. ~Carries(t)
        BY <1>1, <2>0, <2>6 DEF Carries
    <3>2. \A x \in Tasks : Reaches(t, x) => Reaches(t, x)'
        BY <1>3, <2>4, <3>1, ReachAsked
    <3> QED BY <1>1, <1>3, <1>4, <2>1, <2>3, <2>4, <3>2, CoverMove
  <2> QED BY <2>5, <2>6
<1> QED BY <1>6, <1>7

\* The walk goes on to the next node, or ends at a node that has left the list.
LEMMA PostNextCover ==
    ASSUME SoundInv, CoverInv, SoundInv', NEW t \in Tasks, PostNext(t)
    PROVE  CoverInv'
<1>1. /\ TypeOK /\ PollInv /\ NoTwice(pending_list) /\ at[t].pc = "next"
      /\ at[t] \in AtType /\ at \in [Tasks -> AtType]
    BY Given, AtFacts DEF PostNext, AtStep
<1>2. PICK m : m = at[t].node
    OBVIOUS
<1>3. /\ pending_list' = pending_list /\ dropped' = dropped /\ evts' = evts
      /\ is_to_repoll' = is_to_repoll /\ value' = value
      /\ passed' = IF Listed(m) THEN passed ELSE passed \cup Range(pending_list)
      /\ at' = [at EXCEPT ![t].node = NextOf(m), ![t].pc = "post"]
    BY <1>2 DEF PostNext
<1>4. PICK n \in Nodes : n = NextOf(m)
  <2>1. CASE m \in Tasks
    BY <1>1, <2>1, NextFacts
  <2>2. CASE m \notin Tasks
    BY <1>1, <2>2, ListedFacts DEF NextOf, Nodes
  <2> QED BY <2>1, <2>2
<1>5. PICK q \in AtType : q = at[t]
    BY <1>1
<1> DEFINE r == [q EXCEPT !.node = n, !.pc = "post"]
<1>6. r \in AtType /\ r.pc = "post" /\ r.evt = q.evt /\ r.node = n
    BY DEF AtType, Rests, Steps
<1>7. Goes(t, r)
    BY <1>1, <1>3, <1>4, <1>5 DEF Goes, AtType
<1> HIDE DEF r
<1>8. CASE at[t].evt = "POLL"
  <2>1. ASSUME NEW x \in Tasks, Listed(x), x \notin passed', Reaches(t, x) PROVE Reaches(t, x)'
    <3>1. Listed(m)
        BY <1>3, <2>1 DEF Listed
    <3>2. Past(m, x)
      <4>1. ~Asked(t)
        BY <1>1, <1>8 DEF PollInv, Carries
      <4> QED BY <1>1, <1>2, <2>1, <3>1, <4>1 DEF Reaches
    <3>3. n # Null /\ Behind(n, x)
        BY <1>1, <1>4, <3>1, <3>2, ListedFacts, NextFacts
    <3>4. Behind(n, x)'
        BY <1>3, <3>3 DEF Behind
    <3>5. at'[t].pc = "post" /\ at'[t].node = n /\ at'[t].evt = "POLL"
        BY <1>1, <1>5, <1>6, <1>7, <1>8, GoesFacts
    <3> QED BY <3>3, <3>4, <3>5 DEF Reaches, Carries, Behind
  <2>2. \A u \in Tasks : Asked(u)' <=> Asked(u)
    BY <1>3 DEF Asked
  <2>3. (\A x \in Tasks : Satisfied(x)' <=> Satisfied(x)) /\ passed \subseteq passed'
    BY <1>3 DEF Satisfied
  <2> QED BY <1>1, <1>3, <1>6, <1>7, <2>1, <2>2, <2>3, CoverMove
<1>9. CASE at[t].evt # "POLL"
  <2>1. ~Carries(t) /\ passed \subseteq passed'
    BY <1>1, <1>3, <1>9 DEF Carries
  <2> QED BY <1>1, <1>3, <1>6, <1>7, <2>1, CoverQuiet
<1> QED BY <1>8, <1>9

\* A task that leaves the list with the poll takes all with it that comes after.
LEMMA RemovePenderCover ==
    ASSUME SoundInv, CoverInv, SoundInv', NEW t \in Tasks, RemovePender(t)
    PROVE  CoverInv'
<1>1. /\ TypeOK /\ PollInv /\ AtOf(t) /\ NoTwice(pending_list) /\ at[t].pc = "remove"
      /\ at[t] \in AtType /\ at \in [Tasks -> AtType]
    BY Given, AtFacts DEF RemovePender, AtStep
<1>2. /\ pending_list' = Without(t) /\ dropped' = dropped /\ evts' = evts
      /\ is_to_repoll' = is_to_repoll /\ value' = value
      /\ passed' = passed \cup Range(After(t))
    BY DEF RemovePender
<1>3. Listed(t) /\ Carries(t) /\ ~Asked(t)
    BY <1>1 DEF AtOf, Carries, PollInv
<1>4. \E r \in AtType : Goes(t, r)
  <2>1. PICK q \in AtType : q = at[t]
    BY <1>1
  <2> DEFINE r == [q EXCEPT !.pc = "post", !.node = Null]
  <2>2. r \in AtType
    BY DEF AtType, Rests, Steps, Nodes
  <2>3. Goes(t, r)
    BY <1>1, <2>1 DEF RemovePender, Goes, AtType
  <2> QED BY <2>2, <2>3
<1>5. PICK r \in AtType : Goes(t, r)
    BY <1>4
<1>6. ASSUME NEW x \in Tasks, Reaches(t, x), x # t PROVE x \in passed'
  <2>1. Behind(t, x)
    BY <1>1, <1>3, <1>6 DEF Reaches
  <2>2. x \in Range(After(t))
    BY <1>1, <1>3, <1>6, <2>1, NextFacts
  <2> QED BY <1>2, <2>2
<1>7. passed \subseteq passed' /\ \A u \in Tasks : Asked(u)' <=> Asked(u)
    BY <1>2 DEF Asked
<1> QED BY <1>1, <1>2, <1>3, <1>5, <1>6, <1>7, CoverLeave

\* A task that leaves the list, or stays in it, with another event.
LEMMA OtherEventCover ==
    ASSUME SoundInv, CoverInv, SoundInv', NEW t \in Tasks, TimerEvent(t) \/ CancelEvent(t)
    PROVE  CoverInv'
<1>1. TypeOK
    BY Given
<1>2. /\ dropped' = dropped /\ is_to_repoll' = is_to_repoll /\ value' = value
      /\ passed' = PassedWith(t) /\ evts' = Taken(t)
    BY Zenon DEF TimerEvent, CancelEvent
<1>3. pending_list' = Without(t) \/ pending_list' = pending_list
    BY Zenon DEF TimerEvent, CancelEvent
<1>4. /\ at[t].pc = "wait" /\ Listed(t) /\ ~Carries(t)
      /\ \A u \in Tasks : Asked(u)' <=> Asked(u)
  <2>1. PICK evt \in {"TIMER", "CANCEL"} : Event(t, evt)
    BY Zenon DEF TimerEvent, CancelEvent
  <2> QED BY <1>2, <2>1, EventGiven
<1>5. PICK r \in AtType : Goes(t, r)
  <2>1. \E r : at' = [at EXCEPT ![t] = r]
    BY Zenon DEF TimerEvent, CancelEvent
  <2> QED BY <2>1, PlaceIs
<1>6. passed \subseteq passed'
    BY <1>2 DEF PassedWith
<1>7. CASE pending_list' = Without(t)
  <2>1. ASSUME NEW x \in Tasks, Reaches(t, x), Listed(x) PROVE x \in passed'
    <3>1. Asked(t)
        BY <1>4, <2>1 DEF Reaches
    <3>2. passed' = passed \cup Range(pending_list)
        BY <1>1, <1>2, <3>1, EvtFacts DEF PassedWith
    <3> QED BY <2>1, <3>2 DEF Listed
  <2> QED BY <1>2, <1>4, <1>5, <1>6, <1>7, <2>1, CoverLeave
<1>8. CASE pending_list' = pending_list
  <2>1. \A x \in Tasks : Reaches(t, x) => Reaches(t, x)'
    BY <1>4, <1>8, ReachAsked
  <2>2. \A x \in Tasks : Satisfied(x)' <=> Satisfied(x)
    BY <1>2 DEF Satisfied
  <2> QED BY <1>2, <1>4, <1>5, <1>6, <1>8, <2>1, <2>2, CoverMove
<1> QED BY <1>3, <1>7, <1>8

\* A task whose bits are not there has the event go on to the next.
LEMMA PollEventCover ==
    ASSUME SoundInv, CoverInv, SoundInv', NEW t \in Tasks,
           PollEventPending(t) \/ PollEventGet(t)
    PROVE  CoverInv'
<1>1. TypeOK /\ NoTwice(pending_list)
    BY Given
<1>2. /\ dropped' = dropped /\ is_to_repoll' = is_to_repoll /\ value' = value
      /\ evts' = Taken(t) /\ Event(t, "POLL") /\ pending_list' = pending_list
    BY Zenon DEF PollEventPending, PollEventGet
<1>3. /\ at[t].pc = "wait" /\ Listed(t) /\ ~Carries(t)
      /\ \A u \in Tasks : u # t => (Asked(u)' <=> Asked(u))
    BY <1>2, EventGiven
<1>4. \A x \in Tasks : Satisfied(x)' <=> Satisfied(x)
    BY <1>2 DEF Satisfied
<1>5. ASSUME NEW x \in Tasks, Reaches(t, x) PROVE Behind(t, x)
    BY <1>3, <1>5 DEF Reaches
<1>6. CASE PollEventPending(t)
  <2>1. PICK n \in Nodes : n = NextOf(t)
    BY <1>1, NextFacts
  <2>2. Goes(t, PostPlace("wait", "post", n)) /\ ~Satisfied(t) /\ passed' = passed \ {t}
    BY <1>6, <2>1, Zenon DEF PollEventPending, Goes, PostPlace
  <2>3. PICK r \in AtType : /\ r = PostPlace("wait", "post", n) /\ r.pc = "post"
                            /\ r.evt = "POLL" /\ r.node = n
    BY NewPost DEF Rests, Steps
  <2>4. ASSUME NEW x \in Tasks, Reaches(t, x), Satisfied(x) PROVE Reaches(t, x)'
    <3>1. Behind(t, x) /\ x # t
        BY <1>5, <2>2, <2>4
    <3>2. n # Null /\ Behind(n, x)
        BY <1>1, <1>3, <2>1, <3>1, NextFacts
    <3>3. Behind(n, x)'
        BY <1>2, <3>2 DEF Behind
    <3>4. at'[t].pc = "post" /\ at'[t].node = n /\ at'[t].evt = "POLL"
        BY <1>1, <2>2, <2>3, GoesFacts
    <3> QED BY <3>2, <3>3, <3>4 DEF Reaches, Carries, Behind
  <2>5. \A x \in Tasks : Satisfied(x)' /\ x \notin passed' => Satisfied(x) /\ x \notin passed
    BY <1>4, <2>2
  <2> QED BY <1>2, <1>3, <2>2, <2>3, <2>4, <2>5, CoverMove
<1>7. CASE PollEventGet(t)
  <2>1. PICK mask \in SUBSET Bits : mask = value \cap Pender[t].mask \cap AutoReset
    BY <1>1 DEF TypeOK
  <2>2. Goes(t, ResetPlace("idle", "reset", mask)) /\ passed' = passed
    BY <1>7, <2>1, Zenon DEF PollEventGet, Goes, ResetPlace
  <2>3. PICK r \in AtType : r = ResetPlace("idle", "reset", mask) /\ r.pc = "reset"
    BY NewReset DEF Rests, Steps
  <2>4. ASSUME NEW x \in Tasks, Reaches(t, x) PROVE Reaches(t, x)'
    <3>1. Listed(t)' /\ Behind(t, x)'
        BY <1>2, <1>3, <1>5, <2>4 DEF Listed, Behind
    <3>2. at'[t].pc = "reset"
        BY <1>1, <2>2, <2>3, GoesFacts
    <3> QED BY <3>1, <3>2 DEF Reaches, Carries
  <2> QED BY <1>2, <1>3, <1>4, <2>2, <2>3, <2>4, CoverMove
<1> QED BY <1>6, <1>7

\* Events of other kinds change nothing; a poll that is dropped excuses all.
LEMMA StayCover ==
    ASSUME SoundInv, CoverInv, SoundInv', NEW t \in Tasks, StrayEvent(t) \/ Expire(t)
    PROVE  CoverInv'
<1>1. TypeOK /\ \A u \in Tasks : Once(evts[u], "POLL")
    BY Given DEF PollInv
<1>2. /\ at' = at /\ pending_list' = pending_list /\ (dropped => dropped')
      /\ is_to_repoll' = is_to_repoll /\ value' = value /\ passed' = passed
  <2>1. CASE StrayEvent(t)
    <3>1. dropped' = (dropped \/ Head(evts[t]) = "POLL")
        BY <2>1 DEF StrayEvent
    <3>2. dropped => dropped'
        BY <3>1
    <3> QED BY <2>1, <3>2 DEF StrayEvent
  <2>2. CASE Expire(t)
    BY <2>2 DEF Expire
  <2> QED BY <2>1, <2>2
<1>3. CASE dropped'
    BY <1>3, CoverAll DEF AllAhead
<1>4. CASE ~dropped'
  <2>1. \A u \in Tasks : Asked(u) => Asked(u)'
    <3>1. CASE StrayEvent(t)
      <4>1. /\ evts' = [evts EXCEPT ![t] = Tail(@)] /\ evts[t] # <<>>
            /\ Head(evts[t]) # "POLL"
        BY <1>4, <3>1 DEF StrayEvent, Taken
      <4>2. /\ \A w \in Tasks : w # t => evts'[w] = evts[w]
            /\ Asked(t)' <=> Asked(t) /\ Head(evts[t]) # "POLL"
        BY <1>1, <4>1, EventTaken
      <4>3. \A u \in Tasks : u # t => (Asked(u)' <=> Asked(u))
        BY <4>2 DEF Asked
      <4> QED BY <4>1, <4>2, <4>3
    <3>2. CASE Expire(t)
      <4>1. CASE evts' = evts
        BY <4>1 DEF Asked
      <4>2. CASE evts' = [evts EXCEPT ![t] = Append(@, "TIMER")]
        <5>1. PICK s \in Seq(Evts) : s = evts[t]
            BY <1>1, EvtFacts
        <5>2. ToSet(Append(s, "TIMER")) = ToSet(s) \cup {"TIMER"}
            BY AppendFacts DEF Evts
        <5>3. evts'[t] = Append(s, "TIMER") /\ \A w \in Tasks : w # t => evts'[w] = evts[w]
            BY <1>1, <4>2, <5>1, EvtFacts
        <5> QED BY <5>1, <5>2, <5>3 DEF Asked
      <4> QED BY <3>2, <4>1, <4>2 DEF Expire
    <3> QED BY <3>1, <3>2
  <2>2. PICK r \in AtType : Goes(t, r) /\ r = at[t]
    <3>1. at[t] \in AtType /\ Goes(t, at[t])
        BY <1>1, <1>2, AtFacts DEF Goes
    <3> QED BY <3>1
  <2>3. \A x \in Tasks : Satisfied(x)' <=> Satisfied(x)
    BY <1>2 DEF Satisfied
  <2>4. \A x \in Tasks : Reaches(t, x) => Reaches(t, x)'
    BY <1>2, <2>1, ReachKept
  <2> QED BY <1>2, <2>1, <2>2, <2>3, <2>4, CoverMove
<1> QED BY <1>3, <1>4

LEMMA NextCover == SoundInv /\ CoverInv /\ SoundInv' /\ [Next]_vars => CoverInv'
<1> SUFFICES ASSUME SoundInv, CoverInv, SoundInv', [Next]_vars PROVE CoverInv'
    OBVIOUS
<1>1. CASE UNCHANGED vars
    BY <1>1 DEF vars, CoverInv, Ahead, Reaches, Carries, Asked, Listed, Behind, Past, Satisfied
<1>2. ASSUME NEW t \in Tasks, TaskCall(t) PROVE CoverInv'
    BY <1>2, CallCover
<1>3. ASSUME NEW t \in Tasks, TaskStep(t) PROVE CoverInv'
    BY <1>3, ResetCover, StartCover, TakeHeadCover, PostEndCover, PostCover, PostNextCover,
       RemovePenderCover, OtherEventCover, PollEventCover, StayCover DEF TaskStep
<1>4. ASSUME NEW t \in Tasks, Expire(t) PROVE CoverInv'
    BY <1>4, StayCover
<1> QED BY <1>1, <1>2, <1>3, <1>4 DEF Next

\* When all is quiet, a task whose bits are there and that still waits was passed
\* over by the last poll: no set or pend is overlooked that comes during a poll,
\* in whatever order the steps of the tasks come.
THEOREM NoneIsOverlooked == Spec => []OverlookedWasPassed
<1>1. Init => CoverInv
  <2>1. ASSUME Init PROVE \A t : ~Listed(t)
    BY <2>1 DEF Init, Listed, Range
  <2> QED BY <2>1 DEF CoverInv
<1>2. ASSUME SoundInv, CoverInv PROVE OverlookedWasPassed
  <2>1. TypeOK /\ PollInv
    BY <1>2, Given DEF SoundInv
  <2>2. ASSUME Resting, NEW x \in Range(pending_list), Satisfied(x) PROVE x \in passed
    <3>1. ~is_polling /\ \A u \in Tasks : at[u].pc \in Rests
        BY <2>2 DEF Resting, Running
    <3>2. ~dropped /\ ~is_to_repoll /\ \A h \in Tasks : ~Asked(h) /\ ~Carries(h)
        BY <2>1, <3>1, PollingIs DEF PollInv
    <3>3. \A h \in Tasks : ~Reaches(h, x)
        BY <3>2 DEF Reaches
    <3>4. ~\E u \in Tasks : at[u].pc = "start"
        BY <3>1 DEF Rests
    <3>5. ~Ahead(x) /\ x \in Tasks /\ Listed(x)
        BY <2>1, <3>2, <3>3, <3>4, ListedFacts DEF Ahead, Listed
    <3> QED BY <1>2, <2>2, <3>5 DEF CoverInv
  <2> QED BY <2>2 DEF OverlookedWasPassed
<1> QED BY <1>1, <1>2, NextCover, Sound, PTL DEF Spec
=============================================================================
