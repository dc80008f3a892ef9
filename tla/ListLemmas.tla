----------------------------- MODULE ListLemmas ------------------------------
(***************************************************************************)
(* Facts about the lists of the kernel, vsf_dlist_t, as sequences in which *)
(* every node occurs once: what a list holds after a node was added at its *)
(* end or inserted, and after its first node or any other was removed.     *)
(***************************************************************************)
EXTENDS Integers, Sequences, SequencesExt, SequenceTheorems, TLAPS

\* A node is linked once.
NoTwice(s) == \A i, j \in DOMAIN s : s[i] = s[j] => i = j

\* vsf_dlist_add_to_tail
LEMMA AppendFacts ==
    ASSUME NEW T, NEW s \in Seq(T), NEW x \in T
    PROVE  /\ Append(s, x) \in Seq(T)
           /\ ToSet(Append(s, x)) = ToSet(s) \cup {x}
           /\ NoTwice(s) /\ x \notin ToSet(s) => NoTwice(Append(s, x))
<1>1. /\ Append(s, x) \in Seq(T) /\ Len(Append(s, x)) = Len(s) + 1
      /\ \A i \in 1 .. Len(s) : Append(s, x)[i] = s[i]
      /\ Append(s, x)[Len(s) + 1] = x
      /\ Len(s) \in Nat
    OBVIOUS
<1>2. DOMAIN s = 1 .. Len(s) /\ DOMAIN Append(s, x) = 1 .. Len(s) + 1
    BY <1>1
<1>3. ToSet(Append(s, x)) = ToSet(s) \cup {x}
  <2>1. \A i \in DOMAIN Append(s, x) : Append(s, x)[i] \in ToSet(s) \cup {x}
    BY <1>1, <1>2 DEF ToSet
  <2>2. \A i \in DOMAIN s : s[i] \in ToSet(Append(s, x))
    BY <1>1, <1>2 DEF ToSet
  <2>3. x \in ToSet(Append(s, x))
    BY <1>1, <1>2 DEF ToSet
  <2> QED BY <2>1, <2>2, <2>3 DEF ToSet
<1>4. ASSUME NoTwice(s), x \notin ToSet(s) PROVE NoTwice(Append(s, x))
    BY <1>1, <1>2, <1>4 DEF NoTwice, ToSet
<1> QED BY <1>1, <1>3, <1>4

\* vsf_dlist_remove_head
LEMMA TailFacts ==
    ASSUME NEW T, NEW s \in Seq(T), s # <<>>
    PROVE  /\ Head(s) \in T /\ Head(s) \in ToSet(s) /\ Tail(s) \in Seq(T)
           /\ NoTwice(s) => /\ NoTwice(Tail(s))
                            /\ ToSet(Tail(s)) = ToSet(s) \ {Head(s)}
           /\ ToSet(s) = ToSet(Tail(s)) \cup {Head(s)}
<1>1. /\ Head(s) \in T /\ Tail(s) \in Seq(T) /\ Head(s) = s[1]
      /\ Len(s) \in Nat /\ Len(s) > 0 /\ Len(Tail(s)) = Len(s) - 1
      /\ \A i \in 1 .. Len(s) - 1 : Tail(s)[i] = s[i + 1]
    OBVIOUS
<1>2. DOMAIN s = 1 .. Len(s) /\ DOMAIN Tail(s) = 1 .. Len(s) - 1
    BY <1>1
<1>3. Head(s) \in ToSet(s)
    BY <1>1, <1>2 DEF ToSet
<1>4. ToSet(Tail(s)) \subseteq ToSet(s)
  <2>1. \A i \in DOMAIN Tail(s) : i + 1 \in DOMAIN s /\ Tail(s)[i] = s[i + 1]
    BY <1>1, <1>2
  <2> QED BY <2>1 DEF ToSet
<1>5. \A i \in DOMAIN s : s[i] # Head(s) => s[i] \in ToSet(Tail(s))
  <2> SUFFICES ASSUME NEW i \in DOMAIN s, s[i] # Head(s)
               PROVE  s[i] \in ToSet(Tail(s))
    OBVIOUS
  <2>1. i - 1 \in DOMAIN Tail(s) /\ Tail(s)[i - 1] = s[i]
    BY <1>1, <1>2
  <2> QED BY <2>1 DEF ToSet
<1>6. ToSet(s) = ToSet(Tail(s)) \cup {Head(s)}
  <2>1. ToSet(s) \subseteq ToSet(Tail(s)) \cup {Head(s)}
    BY <1>5 DEF ToSet
  <2> QED BY <1>3, <1>4, <2>1
<1>7. ASSUME NoTwice(s)
      PROVE  NoTwice(Tail(s)) /\ ToSet(Tail(s)) = ToSet(s) \ {Head(s)}
  <2>1. NoTwice(Tail(s))
    BY <1>1, <1>2, <1>7 DEF NoTwice
  <2>2. \A i \in DOMAIN Tail(s) : Tail(s)[i] \in ToSet(s) \ {Head(s)}
    BY <1>1, <1>2, <1>7 DEF NoTwice, ToSet
  <2>3. ToSet(Tail(s)) \subseteq ToSet(s) \ {Head(s)}
    BY <2>2 DEF ToSet
  <2>4. ToSet(s) \ {Head(s)} \subseteq ToSet(Tail(s))
    BY <1>5 DEF ToSet
  <2> QED BY <2>1, <2>3, <2>4
<1> QED BY <1>1, <1>3, <1>6, <1>7

\* An event is queued at most once.
Once(s, x) == \A i, j \in DOMAIN s : s[i] = x /\ s[j] = x => i = j

LEMMA OnceFacts ==
    ASSUME NEW T, NEW s \in Seq(T), NEW x, Once(s, x)
    PROVE  /\ \A y \in T : y # x \/ x \notin ToSet(s) => Once(Append(s, y), x)
           /\ s # <<>> => Once(Tail(s), x)
           /\ s # <<>> /\ Head(s) = x => x \notin ToSet(Tail(s))
<1>1. ASSUME NEW y \in T, y # x \/ x \notin ToSet(s) PROVE Once(Append(s, y), x)
  <2>1. /\ Len(s) \in Nat /\ DOMAIN Append(s, y) = 1 .. Len(s) + 1
        /\ \A i \in 1 .. Len(s) : Append(s, y)[i] = s[i]
        /\ Append(s, y)[Len(s) + 1] = y /\ DOMAIN s = 1 .. Len(s)
    OBVIOUS
  <2> QED BY <1>1, <2>1 DEF Once, ToSet
<1>2. ASSUME s # <<>>
      PROVE  Once(Tail(s), x) /\ (Head(s) = x => x \notin ToSet(Tail(s)))
  <2>1. /\ Len(s) \in Nat /\ Len(s) > 0 /\ DOMAIN Tail(s) = 1 .. Len(s) - 1
        /\ DOMAIN s = 1 .. Len(s) /\ Head(s) = s[1]
        /\ \A i \in 1 .. Len(s) - 1 : Tail(s)[i] = s[i + 1]
    BY <1>2
  <2> QED BY <2>1 DEF Once, ToSet
<1> QED BY <1>1, <1>2

LEMMA ConcatFacts ==
    ASSUME NEW T, NEW a \in Seq(T), NEW b \in Seq(T)
    PROVE  /\ a \o b \in Seq(T) /\ Len(a \o b) = Len(a) + Len(b)
           /\ \A j \in 1 .. Len(a) + Len(b) :
                 (a \o b)[j] = IF j <= Len(a) THEN a[j] ELSE b[j - Len(a)]
OBVIOUS

\* What RemoveAt is, place by place.
LEMMA RemoveAtPlaces ==
    ASSUME NEW T, NEW s \in Seq(T), NEW i \in DOMAIN s
    PROVE  /\ RemoveAt(s, i) \in Seq(T)
           /\ Len(RemoveAt(s, i)) = Len(s) - 1
           /\ \A j \in 1 .. Len(s) - 1 :
                 RemoveAt(s, i)[j] = IF j < i THEN s[j] ELSE s[j + 1]
<1> DEFINE a == SubSeq(s, 1, i - 1)
           b == SubSeq(s, i + 1, Len(s))
<1>0. i \in Int /\ 1 <= i /\ i <= Len(s) /\ Len(s) \in Nat
    OBVIOUS
<1>1. a \in Seq(T) /\ Len(a) = i - 1 /\ \A j \in 1 .. i - 1 : a[j] = s[j]
    BY <1>0
<1>2. /\ b \in Seq(T) /\ Len(b) = Len(s) - i
      /\ \A j \in 1 .. Len(s) - i : b[j] = s[i + j]
    BY <1>0
<1>3. RemoveAt(s, i) = a \o b
    BY DEF RemoveAt
<1> HIDE DEF a, b
<1>4. /\ a \o b \in Seq(T) /\ Len(a \o b) = Len(s) - 1
      /\ \A j \in 1 .. Len(s) - 1 :
            (a \o b)[j] = IF j <= i - 1 THEN a[j] ELSE b[j - (i - 1)]
  <2>1. Len(a) + Len(b) = Len(s) - 1
    BY <1>0, <1>1, <1>2
  <2>2. /\ a \o b \in Seq(T) /\ Len(a \o b) = Len(a) + Len(b)
        /\ \A j \in 1 .. Len(a) + Len(b) :
              (a \o b)[j] = IF j <= Len(a) THEN a[j] ELSE b[j - Len(a)]
    BY <1>1, <1>2, ConcatFacts
  <2> QED BY <1>1, <2>1, <2>2
<1>5. ASSUME NEW j \in 1 .. Len(s) - 1
      PROVE  (a \o b)[j] = IF j < i THEN s[j] ELSE s[j + 1]
  <2>1. CASE j < i
    BY <1>0, <1>1, <1>4, <2>1
  <2>2. CASE ~(j < i)
    <3>1. (a \o b)[j] = b[j - (i - 1)] /\ j - (i - 1) \in 1 .. Len(s) - i
        BY <1>0, <1>4, <2>2
    <3>2. i + (j - (i - 1)) = j + 1
        BY <1>0
    <3> QED BY <1>2, <2>2, <3>1, <3>2
  <2> QED BY <2>1, <2>2
<1> QED BY <1>3, <1>4, <1>5

\* vsf_dlist_remove
LEMMA RemoveAtFacts ==
    ASSUME NEW T, NEW s \in Seq(T), NEW i \in DOMAIN s, NoTwice(s)
    PROVE  /\ RemoveAt(s, i) \in Seq(T)
           /\ NoTwice(RemoveAt(s, i))
           /\ ToSet(RemoveAt(s, i)) = ToSet(s) \ {s[i]}
<1> DEFINE r == RemoveAt(s, i)
<1>1. /\ r \in Seq(T) /\ Len(r) = Len(s) - 1 /\ Len(s) \in Nat
      /\ \A j \in 1 .. Len(s) - 1 : r[j] = IF j < i THEN s[j] ELSE s[j + 1]
    BY RemoveAtPlaces
<1>2. DOMAIN s = 1 .. Len(s) /\ DOMAIN r = 1 .. Len(s) - 1
    BY <1>1
<1> HIDE DEF r
<1>3. NoTwice(r)
  <2> DEFINE at(j) == IF j < i THEN j ELSE j + 1
  <2>1. \A j \in DOMAIN r : at(j) \in DOMAIN s /\ r[j] = s[at(j)]
    BY <1>1, <1>2
  <2>2. \A j, k \in DOMAIN r : at(j) = at(k) => j = k
    BY <1>1, <1>2
  <2> HIDE DEF at
  <2> QED BY <2>1, <2>2 DEF NoTwice
<1>4. ToSet(r) \subseteq ToSet(s) \ {s[i]}
  <2>1. ASSUME NEW j \in DOMAIN r
        PROVE  \E k \in DOMAIN s : r[j] = s[k] /\ k # i
    <3>1. CASE j < i
        BY <1>1, <1>2, <3>1
    <3>2. CASE ~(j < i)
        <4>1. j + 1 \in DOMAIN s /\ r[j] = s[j + 1] /\ j + 1 # i
            BY <1>1, <1>2, <3>2
        <4> QED BY <4>1
    <3> QED BY <3>1, <3>2
  <2>2. \A j \in DOMAIN r : r[j] \in ToSet(s) /\ r[j] # s[i]
    BY <2>1 DEF NoTwice, ToSet
  <2> QED BY <2>2 DEF ToSet
<1>5. ToSet(s) \ {s[i]} \subseteq ToSet(r)
  <2>1. ASSUME NEW k \in DOMAIN s, k # i
        PROVE  \E j \in DOMAIN r : r[j] = s[k]
    <3>1. CASE k < i
        BY <1>1, <1>2, <3>1
    <3>2. CASE k > i
        <4>1. k - 1 \in DOMAIN r /\ r[k - 1] = s[k]
            BY <1>1, <1>2, <3>2
        <4> QED BY <4>1
    <3> QED BY <1>1, <1>2, <2>1, <3>1, <3>2
  <2>2. \A k \in DOMAIN s : k # i => s[k] \in ToSet(r)
    BY <2>1 DEF ToSet
  <2> QED BY <2>2 DEF ToSet
<1> QED BY <1>1, <1>3, <1>4, <1>5 DEF r

\* What InsertAt is, place by place.
LEMMA InsertAtPlaces ==
    ASSUME NEW T, NEW s \in Seq(T), NEW n \in 1 .. Len(s) + 1, NEW x \in T
    PROVE  /\ InsertAt(s, n, x) \in Seq(T)
           /\ Len(InsertAt(s, n, x)) = Len(s) + 1
           /\ \A j \in 1 .. Len(s) + 1 :
                 InsertAt(s, n, x)[j] = IF j < n THEN s[j]
                                        ELSE IF j = n THEN x ELSE s[j - 1]
<1> DEFINE a == SubSeq(s, 1, n - 1)
           b == SubSeq(s, n, Len(s))
           m == <<x>>
<1>0. n \in Int /\ 1 <= n /\ n <= Len(s) + 1 /\ Len(s) \in Nat
    OBVIOUS
<1>1. a \in Seq(T) /\ Len(a) = n - 1 /\ \A j \in 1 .. n - 1 : a[j] = s[j]
    BY <1>0
<1>2. /\ b \in Seq(T) /\ Len(b) = Len(s) - n + 1
      /\ \A j \in 1 .. Len(s) - n + 1 : b[j] = s[n + j - 1]
    BY <1>0
<1>3. m \in Seq(T) /\ Len(m) = 1 /\ m[1] = x
    OBVIOUS
<1>4. InsertAt(s, n, x) = (a \o m) \o b
    BY DEF InsertAt
<1> HIDE DEF a, b, m
<1>5. /\ a \o m \in Seq(T) /\ Len(a \o m) = n
      /\ \A j \in 1 .. n : (a \o m)[j] = IF j <= n - 1 THEN a[j] ELSE m[j - (n - 1)]
  <2>1. Len(a) + Len(m) = n
    BY <1>0, <1>1, <1>3
  <2>2. /\ a \o m \in Seq(T) /\ Len(a \o m) = Len(a) + Len(m)
        /\ \A j \in 1 .. Len(a) + Len(m) :
              (a \o m)[j] = IF j <= Len(a) THEN a[j] ELSE m[j - Len(a)]
    BY <1>1, <1>3, ConcatFacts
  <2> QED BY <1>1, <2>1, <2>2
<1>6. \A j \in 1 .. n : (a \o m)[j] = IF j < n THEN s[j] ELSE x
    BY <1>0, <1>1, <1>3, <1>5
<1> DEFINE am == a \o m
<1>7. am \in Seq(T) /\ Len(am) = n /\ \A j \in 1 .. n : am[j] = IF j < n THEN s[j] ELSE x
    BY <1>5, <1>6
<1> HIDE DEF am
<1>8. /\ am \o b \in Seq(T) /\ Len(am \o b) = Len(s) + 1
      /\ \A j \in 1 .. Len(s) + 1 : (am \o b)[j] = IF j <= n THEN am[j] ELSE b[j - n]
  <2>1. Len(am) + Len(b) = Len(s) + 1
    BY <1>0, <1>2, <1>7
  <2>2. /\ am \o b \in Seq(T) /\ Len(am \o b) = Len(am) + Len(b)
        /\ \A j \in 1 .. Len(am) + Len(b) :
              (am \o b)[j] = IF j <= Len(am) THEN am[j] ELSE b[j - Len(am)]
    BY <1>2, <1>7, ConcatFacts
  <2> QED BY <1>7, <2>1, <2>2
<1>9. ASSUME NEW j \in 1 .. Len(s) + 1
      PROVE  (am \o b)[j] = IF j < n THEN s[j] ELSE IF j = n THEN x ELSE s[j - 1]
  <2>1. CASE j <= n
    BY <1>0, <1>7, <1>8, <2>1
  <2>2. CASE ~(j <= n)
    <3>0. j \in Int /\ j > n /\ j <= Len(s) + 1
        BY <1>0, <2>2
    <3>1. (am \o b)[j] = b[j - n] /\ j - n \in 1 .. Len(s) - n + 1
      <4>1. j - n \in 1 .. Len(s) - n + 1
        BY <1>0, <3>0
      <4> QED BY <1>8, <2>2, <4>1
    <3>2. n + (j - n) - 1 = j - 1
        BY <1>0
    <3> QED BY <1>0, <1>2, <2>2, <3>1, <3>2
  <2> QED BY <2>1, <2>2
<1> QED BY <1>4, <1>8, <1>9 DEF am

\* t is s with x put at the n-th place.
PutAt(s, t, x, n) ==
    /\ Len(t) = Len(s) + 1
    /\ \A j \in 1 .. Len(s) + 1 : t[j] = IF j < n THEN s[j]
                                         ELSE IF j = n THEN x ELSE s[j - 1]

LEMMA InsertAtPut ==
    ASSUME NEW T, NEW s \in Seq(T), NEW n \in 1 .. Len(s) + 1, NEW x \in T
    PROVE  PutAt(s, InsertAt(s, n, x), x, n)
<1>1. /\ InsertAt(s, n, x) \in Seq(T)
      /\ Len(InsertAt(s, n, x)) = Len(s) + 1
      /\ \A j \in 1 .. Len(s) + 1 :
            InsertAt(s, n, x)[j] = IF j < n THEN s[j]
                                   ELSE IF j = n THEN x ELSE s[j - 1]
    BY InsertAtPlaces
<1> QED BY <1>1 DEF PutAt

\* vsf_dlist_insert
LEMMA InsertAtFacts ==
    ASSUME NEW T, NEW s \in Seq(T), NEW n \in 1 .. Len(s) + 1, NEW x \in T
    PROVE  /\ InsertAt(s, n, x) \in Seq(T)
           /\ ToSet(InsertAt(s, n, x)) = ToSet(s) \cup {x}
           /\ NoTwice(s) /\ x \notin ToSet(s) => NoTwice(InsertAt(s, n, x))
<1> DEFINE r == InsertAt(s, n, x)
<1>1. /\ r \in Seq(T) /\ Len(r) = Len(s) + 1 /\ Len(s) \in Nat
      /\ \A j \in 1 .. Len(s) + 1 :
            r[j] = IF j < n THEN s[j] ELSE IF j = n THEN x ELSE s[j - 1]
    BY InsertAtPlaces
<1>2. DOMAIN s = 1 .. Len(s) /\ DOMAIN r = 1 .. Len(s) + 1
    BY <1>1
<1> HIDE DEF r
<1>3. ToSet(r) = ToSet(s) \cup {x}
  <2>1. \A j \in DOMAIN r : r[j] \in ToSet(s) \cup {x}
    BY <1>1, <1>2 DEF ToSet
  <2>2. ASSUME NEW k \in DOMAIN s PROVE \E j \in DOMAIN r : r[j] = s[k]
    <3>1. CASE k < n
        BY <1>1, <1>2, <3>1
    <3>2. CASE ~(k < n)
        <4>1. k + 1 \in DOMAIN r /\ r[k + 1] = s[k]
            BY <1>1, <1>2, <3>2
        <4> QED BY <4>1
    <3> QED BY <3>1, <3>2
  <2>3. n \in DOMAIN r /\ r[n] = x
    BY <1>1, <1>2
  <2> QED BY <2>1, <2>2, <2>3 DEF ToSet
<1>4. ASSUME NoTwice(s), x \notin ToSet(s) PROVE NoTwice(r)
  <2> DEFINE at(j) == IF j < n THEN j ELSE j - 1
  <2>1. \A j \in DOMAIN r : j # n => at(j) \in DOMAIN s /\ r[j] = s[at(j)]
    BY <1>1, <1>2
  <2>2. \A j, k \in DOMAIN r : j # n /\ k # n /\ at(j) = at(k) => j = k
    BY <1>1, <1>2
  <2>3. \A j \in DOMAIN r : j # n => r[j] # x
    BY <1>4, <2>1 DEF ToSet
  <2>4. r[n] = x
    BY <1>1
  <2> HIDE DEF at
  <2> QED BY <1>4, <2>1, <2>2, <2>3, <2>4 DEF NoTwice
<1> QED BY <1>1, <1>3, <1>4 DEF r

\* A queue that preempts the others.
LEMMA ConsFacts ==
    ASSUME NEW T, NEW s \in Seq(T), NEW x \in T
    PROVE  /\ <<x>> \o s \in Seq(T) /\ Len(<<x>> \o s) = Len(s) + 1
           /\ (<<x>> \o s)[1] = x
           /\ \A i \in 1 .. Len(s) : (<<x>> \o s)[i + 1] = s[i]
           /\ ToSet(<<x>> \o s) = ToSet(s) \cup {x}
<1> DEFINE r == <<x>> \o s
<1>1. /\ r \in Seq(T) /\ Len(r) = Len(s) + 1 /\ r[1] = x /\ Len(s) \in Nat
      /\ \A i \in 1 .. Len(s) : r[i + 1] = s[i]
      /\ DOMAIN r = 1 .. Len(s) + 1 /\ DOMAIN s = 1 .. Len(s)
    OBVIOUS
<1>2. \A i \in DOMAIN r : r[i] \in ToSet(s) \cup {x}
  <2> SUFFICES ASSUME NEW i \in DOMAIN r PROVE r[i] \in ToSet(s) \cup {x}
    OBVIOUS
  <2>1. CASE i = 1
    BY <1>1, <2>1
  <2>2. CASE i # 1
    <3>1. i - 1 \in 1 .. Len(s) /\ (i - 1) + 1 = i
        BY <1>1, <2>2
    <3>2. r[i] = s[i - 1]
        BY <1>1, <3>1
    <3> QED BY <1>1, <3>1, <3>2 DEF ToSet
  <2> QED BY <2>1, <2>2
<1>3. \A i \in DOMAIN s : i + 1 \in DOMAIN r /\ r[i + 1] = s[i]
    BY <1>1
<1>4. ToSet(s) \cup {x} \subseteq ToSet(r)
  <2>1. x \in ToSet(r)
    BY <1>1 DEF ToSet
  <2>2. \A i \in DOMAIN s : s[i] \in ToSet(r)
    BY <1>3 DEF ToSet
  <2> QED BY <2>1, <2>2 DEF ToSet
<1>5. ToSet(r) \subseteq ToSet(s) \cup {x}
    BY <1>2 DEF ToSet
<1> QED BY <1>1, <1>4, <1>5
=============================================================================
