------------------------ MODULE ThreadedQueueProofs ------------------------
(***************************************************************************)
(* Proofs about ThreadedQueue for every Keep and any number of pushes: the *)
(* counter never hides an element and is exact where keep_only_latest is   *)
(* not used, and each class of elements keeps its order.                   *)
(***************************************************************************)
EXTENDS ThreadedQueue, SequenceTheorems, FiniteSetTheorems, TLAPS

\* The strengthening, one part for each class C of elements (urgent or not), t
\* being what was handed out and s the deque of the class: the deque is sorted by
\* age and holds its class only, the elements of the class were handed out in
\* order, and they are older than what waits.
Sorted(s) == \A i, j \in 1..Len(s) : i < j => s[i] < s[j]
Holds(s, C) == \A i \in 1..Len(s) : s[i] \in C
InOrder(t, C) ==
  \A i, j \in 1..Len(t) : i < j /\ t[i] \in C /\ t[j] \in C => t[i] < t[j]
Before(t, s, C) ==
  \A i \in 1..Len(t), k \in 1..Len(s) : t[i] \in C => t[i] < s[k]

Class(t, s, C) == Sorted(s) /\ Holds(s, C) /\ InOrder(t, C) /\ Before(t, s, C)

ordinary == 1..pushed \ urgent

OrderInv ==
  /\ TypeOK /\ CountCoversSize
  /\ Class(taken, priority_, urgent) /\ Class(taken, queue_, ordinary)

----------------------------------------------------------------------------
\* t is s with x added at its end.
Extended(s, t, x) ==
  /\ Len(t) = Len(s) + 1 /\ t[Len(s) + 1] = x
  /\ \A i \in 1..Len(s) : t[i] = s[i]

\* t is what follows position k in s.
Rest(s, t, k) ==
  /\ Len(t) = Len(s) - k
  /\ \A i \in 1..Len(t) : t[i] = s[i + k]

\* What keep_only_latest leaves is a non-empty suffix.
LEMMA LatestIsSuffix ==
  ASSUME NEW S, NEW s \in Seq(S), s /= <<>>
  PROVE  /\ Latest(s) \in Seq(S) /\ Latest(s) /= <<>>
         /\ Len(Latest(s)) \in 1..Len(s)
         /\ \A i \in 1..Len(Latest(s)) :
              Latest(s)[i] = s[i + (Len(s) - Len(Latest(s)))]
<1>1. CASE Keep > 0 /\ Len(s) > Keep
  <2>1. Latest(s) = SubSeq(s, Len(s) - Keep + 1, Len(s))
    BY <1>1 DEF Latest
  <2>2. /\ Len(s) - Keep + 1 \in 1..Len(s) /\ Len(s) \in Nat
    BY <1>1, KeepAssumption
  <2>3. /\ Latest(s) \in Seq(S) /\ Len(Latest(s)) = Keep
        /\ \A i \in 1..Keep : Latest(s)[i] = s[i + (Len(s) - Keep)]
    BY <1>1, <2>1, <2>2, KeepAssumption
  <2> QED
    BY <1>1, <2>2, <2>3, KeepAssumption
<1>2. CASE ~(Keep > 0 /\ Len(s) > Keep)
  BY <1>2 DEF Latest
<1> QED
  BY <1>1, <1>2

\* The rest of that suffix, after its head was taken.
LEMMA TailOfLatest ==
  ASSUME NEW S, NEW s \in Seq(S), s /= <<>>
  PROVE  \E m \in 0..(Len(s) - 1) :
           /\ Head(Latest(s)) = s[m + 1]
           /\ Tail(Latest(s)) \in Seq(S)
           /\ Rest(s, Tail(Latest(s)), m + 1)
<1> DEFINE q == Latest(s)
           m == Len(s) - Len(q)
<1>1. /\ q \in Seq(S) /\ q /= <<>> /\ Len(q) \in 1..Len(s) /\ Len(s) \in Nat
      /\ \A i \in 1..Len(q) : q[i] = s[i + m]
  BY LatestIsSuffix
<1> HIDE DEF q
<1>2. m \in 0..(Len(s) - 1)
  BY <1>1
<1>3. Head(q) = s[m + 1]
  BY <1>1
<1>4. /\ Tail(q) \in Seq(S) /\ Len(Tail(q)) = Len(q) - 1
      /\ \A i \in 1..Len(Tail(q)) : Tail(q)[i] = q[i + 1]
  BY <1>1, HeadTailProperties
<1>5. \A i \in 1..Len(Tail(q)) : i + 1 \in 1..Len(q) /\ (i + 1) + m = i + (m + 1)
  BY <1>1, <1>4
<1>6. \A i \in 1..Len(Tail(q)) : Tail(q)[i] = s[i + (m + 1)]
  BY <1>1, <1>4, <1>5
<1>7. Len(Tail(q)) = Len(s) - (m + 1)
  BY <1>1, <1>4
<1> QED
  BY <1>2, <1>3, <1>4, <1>6, <1>7 DEF q, Rest

LEMMA AppendExtends ==
  ASSUME NEW S, NEW s \in Seq(S), NEW x \in S
  PROVE  Append(s, x) \in Seq(S) /\ Extended(s, Append(s, x), x)
  BY AppendProperties DEF Extended

----------------------------------------------------------------------------
\* A push adds the newest element of all to its class.
LEMMA ClassPush ==
  ASSUME NEW n \in Nat, NEW C, NEW t, NEW s, NEW s2,
         Len(s) \in Nat, Len(t) \in Nat, Class(t, s, C),
         \A i \in 1..Len(s) : s[i] \in 1..n, \A i \in 1..Len(t) : t[i] \in 1..n,
         Extended(s, s2, n + 1)
  PROVE  Class(t, s2, C \cup {n + 1})
<1>1. \A i \in 1..Len(s2) : \/ i \in 1..Len(s) /\ s2[i] = s[i]
                            \/ i = Len(s) + 1 /\ s2[i] = n + 1
  BY DEF Extended
<1>2. Sorted(s2)
  <2> SUFFICES ASSUME NEW i \in 1..Len(s2), NEW j \in 1..Len(s2), i < j
               PROVE  s2[i] < s2[j]
    BY DEF Sorted
  <2>1. i \in 1..Len(s) /\ s2[i] = s[i]
    BY DEF Extended
  <2> QED
    BY <1>1, <2>1 DEF Class, Sorted
<1>3. Holds(s2, C \cup {n + 1})
  BY <1>1 DEF Class, Holds
<1>4. InOrder(t, C \cup {n + 1})
  BY DEF Class, InOrder
<1>5. Before(t, s2, C \cup {n + 1})
  <2> SUFFICES ASSUME NEW i \in 1..Len(t), NEW k \in 1..Len(s2), t[i] \in C \cup {n + 1}
               PROVE  t[i] < s2[k]
    BY DEF Before
  <2>1. t[i] \in 1..n /\ t[i] \in C
    OBVIOUS
  <2>2. CASE k \in 1..Len(s) /\ s2[k] = s[k]
    BY <2>1, <2>2 DEF Class, Before
  <2>3. CASE s2[k] = n + 1
    BY <2>1, <2>3
  <2> QED
    BY <1>1, <2>2, <2>3
<1> QED
  BY <1>2, <1>3, <1>4, <1>5 DEF Class

\* Taking an element of the deque, and dropping those before it, keeps the class.
LEMMA ClassTake ==
  ASSUME NEW C, NEW t, NEW s, NEW t2, NEW s2, Class(t, s, C),
         Len(s) \in Nat, Len(t) \in Nat, NEW m \in 0..(Len(s) - 1),
         Rest(s, s2, m + 1), Extended(t, t2, s[m + 1])
  PROVE  Class(t2, s2, C)
<1>1. \A k \in 1..Len(s2) : /\ k + (m + 1) \in 1..Len(s) /\ m + 1 < k + (m + 1)
                            /\ s2[k] = s[k + (m + 1)]
  BY DEF Rest
<1>2. m + 1 \in 1..Len(s)
  OBVIOUS
<1>3. \A i \in 1..Len(t2) :
        \/ i \in 1..Len(t) /\ t2[i] = t[i]
        \/ i = Len(t) + 1 /\ t2[i] = s[m + 1]
  BY DEF Extended
<1>4. Sorted(s2)
  BY <1>1 DEF Class, Sorted
<1>5. Holds(s2, C)
  BY <1>1 DEF Class, Holds
<1>6. InOrder(t2, C)
  <2> SUFFICES ASSUME NEW i \in 1..Len(t2), NEW j \in 1..Len(t2), i < j,
                      t2[i] \in C, t2[j] \in C
               PROVE  t2[i] < t2[j]
    BY DEF InOrder
  <2>1. i \in 1..Len(t) /\ t2[i] = t[i]
    BY DEF Extended
  <2> QED
    BY <1>2, <1>3, <2>1 DEF Class, InOrder, Before
<1>7. Before(t2, s2, C)
  <2> SUFFICES ASSUME NEW i \in 1..Len(t2), NEW k \in 1..Len(s2), t2[i] \in C
               PROVE  t2[i] < s2[k]
    BY DEF Before
  <2>1. CASE i \in 1..Len(t) /\ t2[i] = t[i]
    BY <1>1, <2>1 DEF Class, Before
  <2>2. CASE t2[i] = s[m + 1]
    BY <1>1, <1>2, <2>2 DEF Class, Sorted
  <2> QED
    BY <1>3, <2>1, <2>2
<1> QED
  BY <1>4, <1>5, <1>6, <1>7 DEF Class

\* Handing out an element of the other class changes nothing.
LEMMA ClassOther ==
  ASSUME NEW C, NEW t, NEW s, NEW t2, NEW x, Class(t, s, C), Len(t) \in Nat,
         Extended(t, t2, x), x \notin C
  PROVE  Class(t2, s, C)
<1>1. \A i \in 1..Len(t2) : t2[i] \in C => i \in 1..Len(t) /\ t2[i] = t[i]
  BY DEF Extended
<1>2. InOrder(t2, C)
  BY <1>1 DEF Class, InOrder
<1>3. Before(t2, s, C)
  BY <1>1 DEF Class, Before
<1> QED
  BY <1>2, <1>3 DEF Class

\* t2 is t followed by s.
Joined(t, s, t2) ==
  /\ Len(t2) = Len(t) + Len(s)
  /\ \A i \in 1..Len(t) : t2[i] = t[i]
  /\ \A i \in (Len(t) + 1)..Len(t2) : i - Len(t) \in 1..Len(s) /\ t2[i] = s[i - Len(t)]

\* Handing out a whole deque keeps its class, with nothing left to wait.
LEMMA ClassDrain ==
  ASSUME NEW C, NEW t, NEW s, NEW t2, Class(t, s, C),
         Len(s) \in Nat, Len(t) \in Nat, Joined(t, s, t2)
  PROVE  Class(t2, <<>>, C)
<1>1. InOrder(t2, C)
  <2> SUFFICES ASSUME NEW i \in 1..Len(t2), NEW j \in 1..Len(t2), i < j,
                      t2[i] \in C, t2[j] \in C
               PROVE  t2[i] < t2[j]
    BY DEF InOrder
  <2>1. CASE j \in 1..Len(t)
    <3>1. i \in 1..Len(t) /\ t2[i] = t[i] /\ t2[j] = t[j]
      BY <2>1 DEF Joined
    <3> QED
      BY <2>1, <3>1 DEF Class, InOrder
  <2>2. CASE j \notin 1..Len(t) /\ i \in 1..Len(t)
    <3>1. t2[i] = t[i] /\ j - Len(t) \in 1..Len(s) /\ t2[j] = s[j - Len(t)]
      BY <2>2 DEF Joined
    <3> QED
      BY <2>2, <3>1 DEF Class, Before
  <2>3. CASE i \notin 1..Len(t)
    <3>1. /\ i - Len(t) \in 1..Len(s) /\ t2[i] = s[i - Len(t)]
          /\ j - Len(t) \in 1..Len(s) /\ t2[j] = s[j - Len(t)]
      BY <2>3 DEF Joined
    <3> QED
      BY <3>1 DEF Class, Sorted
  <2> QED
    BY <2>1, <2>2, <2>3
<1> QED
  BY <1>1 DEF Class, Sorted, Holds, Before

\* Handing out the deque of the other class changes nothing.
LEMMA ClassDrainOther ==
  ASSUME NEW C, NEW t, NEW s, NEW r, NEW t2, Class(t, s, C),
         Len(r) \in Nat, Len(t) \in Nat, Joined(t, r, t2),
         \A i \in 1..Len(r) : r[i] \notin C
  PROVE  Class(t2, s, C)
<1>1. \A i \in 1..Len(t2) : t2[i] \in C => i \in 1..Len(t) /\ t2[i] = t[i]
  BY DEF Joined
<1>2. InOrder(t2, C)
  BY <1>1 DEF Class, InOrder
<1>3. Before(t2, s, C)
  BY <1>1 DEF Class, Before
<1> QED
  BY <1>2, <1>3 DEF Class

LEMMA ConcatJoins ==
  ASSUME NEW S, NEW t \in Seq(S), NEW s \in Seq(S)
  PROVE  t \o s \in Seq(S) /\ Joined(t, s, t \o s)
<1>1. /\ t \o s \in Seq(S) /\ Len(t \o s) = Len(t) + Len(s)
      /\ \A i \in 1..(Len(t) + Len(s)) :
           (t \o s)[i] = IF i <= Len(t) THEN t[i] ELSE s[i - Len(t)]
  BY ConcatProperties
<1>2. Len(t) \in Nat /\ Len(s) \in Nat
  OBVIOUS
<1> DEFINE c == t \o s
<1>3. /\ c \in Seq(S) /\ Len(c) = Len(t) + Len(s)
      /\ \A i \in 1..(Len(t) + Len(s)) :
           c[i] = IF i <= Len(t) THEN t[i] ELSE s[i - Len(t)]
  BY <1>1
<1> HIDE DEF c
<1>4. Joined(t, s, c)
  BY <1>2, <1>3 DEF Joined
<1> QED
  BY <1>3, <1>4 DEF c

----------------------------------------------------------------------------
\* What TypeOK says of the elements, in the form the class lemmas ask for.
LEMMA Typing ==
  ASSUME TypeOK
  PROVE  /\ pushed \in Nat /\ urgent \subseteq 1..pushed /\ total_count_ \in Nat
         /\ Len(priority_) \in Nat /\ Len(queue_) \in Nat /\ Len(taken) \in Nat
         /\ \A i \in 1..Len(priority_) : priority_[i] \in 1..pushed
         /\ \A i \in 1..Len(queue_) : queue_[i] \in 1..pushed
         /\ \A i \in 1..Len(taken) : taken[i] \in 1..pushed
  BY DEF TypeOK

LEMMA InitOrder == Init => OrderInv
  BY DEF Init, OrderInv, TypeOK, CountCoversSize, Class, Sorted, Holds, InOrder, Before

LEMMA PushOrder ==
  ASSUME OrderInv, NEW p \in BOOLEAN, push(p)
  PROVE  OrderInv'
<1>0. TypeOK /\ CountCoversSize
  BY DEF OrderInv
<1>1. /\ pushed' = pushed + 1 /\ total_count_' = total_count_ + 1
      /\ UNCHANGED <<taken, erased>>
  BY DEF push
<1>2. \A s \in Seq(1..pushed) :
        s \in Seq(1..pushed') /\ Append(s, pushed + 1) \in Seq(1..pushed')
        /\ Extended(s, Append(s, pushed + 1), pushed + 1)
  <2>1. 1..pushed \subseteq 1..pushed' /\ pushed + 1 \in 1..pushed'
    BY <1>0, <1>1, Typing
  <2>2. ASSUME NEW s \in Seq(1..pushed) PROVE s \in Seq(1..pushed')
    BY <2>1, SeqMonotonic
  <2> QED
    BY <2>1, <2>2, AppendExtends
<1>3. CASE p = TRUE
  <2>1. /\ priority_' = Append(priority_, pushed + 1) /\ queue_' = queue_
        /\ urgent' = urgent \cup {pushed + 1}
    BY <1>3 DEF push
  <2>2. ordinary' = ordinary
    BY <1>0, <1>1, <2>1, Typing DEF ordinary
  <2>3. Extended(priority_, priority_', pushed + 1)
    BY <1>0, <1>2, <2>1 DEF TypeOK
  <2>4. TypeOK'
    BY <1>0, <1>1, <1>2, <2>1, Typing DEF TypeOK
  <2>5. CountCoversSize'
    BY <1>0, <1>1, <2>1, <2>3, Typing DEF CountCoversSize, Extended
  <2>6. Class(taken, priority_', urgent \cup {pushed + 1})
    BY <1>0, <2>3, Typing, ClassPush DEF OrderInv
  <2> QED
    BY <1>1, <2>1, <2>2, <2>4, <2>5, <2>6 DEF OrderInv
<1>4. CASE p = FALSE
  <2>1. /\ queue_' = Append(queue_, pushed + 1) /\ priority_' = priority_
        /\ urgent' = urgent
    BY <1>4 DEF push
  <2>2. ordinary' = ordinary \cup {pushed + 1}
    BY <1>0, <1>1, <2>1, Typing DEF ordinary
  <2>3. Extended(queue_, queue_', pushed + 1)
    BY <1>0, <1>2, <2>1 DEF TypeOK
  <2>4. TypeOK'
    BY <1>0, <1>1, <1>2, <2>1, Typing DEF TypeOK
  <2>5. CountCoversSize'
    BY <1>0, <1>1, <2>1, <2>3, Typing DEF CountCoversSize, Extended
  <2>6. Class(taken, queue_', ordinary \cup {pushed + 1})
    BY <1>0, <2>3, Typing, ClassPush DEF OrderInv
  <2> QED
    BY <1>1, <2>1, <2>2, <2>4, <2>5, <2>6 DEF OrderInv
<1> QED
  BY <1>3, <1>4

LEMMA DequeueAllOrder == ASSUME OrderInv, dequeueAll PROVE OrderInv'
<1>0. TypeOK
  BY DEF OrderInv
<1>1. /\ priority_' = <<>> /\ queue_' = <<>> /\ total_count_' = 0
      /\ taken' = (taken \o priority_) \o queue_ /\ UNCHANGED <<pushed, urgent, erased>>
  BY <1>0 DEF dequeueAll, TypeOK
<1> DEFINE t == taken \o priority_
<1>2. t \in Seq(1..pushed) /\ Joined(taken, priority_, t)
  BY <1>0, ConcatJoins DEF TypeOK
<1>3. taken' \in Seq(1..pushed) /\ Joined(t, queue_, taken')
  BY <1>0, <1>1, <1>2, ConcatJoins DEF TypeOK
<1>4. Len(t) \in Nat
  BY <1>2
<1> HIDE DEF t
<1>5. Class(t, <<>>, urgent)
  BY <1>0, <1>2, Typing, ClassDrain DEF OrderInv
<1>6. Class(t, queue_, ordinary)
  <2>1. \A i \in 1..Len(priority_) : priority_[i] \notin ordinary
    BY DEF OrderInv, Class, Holds, ordinary
  <2> QED
    BY <1>0, <1>2, <2>1, Typing, ClassDrainOther DEF OrderInv
<1>7. Class(taken', <<>>, urgent)
  <2>1. \A i \in 1..Len(queue_) : queue_[i] \notin urgent
    BY DEF OrderInv, Class, Holds, ordinary
  <2> QED
    BY <1>0, <1>3, <1>4, <1>5, <2>1, Typing, ClassDrainOther
<1>8. Class(taken', <<>>, ordinary)
  BY <1>0, <1>3, <1>4, <1>6, Typing, ClassDrain
<1>9. TypeOK' /\ CountCoversSize'
  BY <1>0, <1>1, <1>3 DEF TypeOK, CountCoversSize
<1> QED
  BY <1>1, <1>7, <1>8, <1>9 DEF OrderInv, ordinary

\* What both ways of taking an element do to the urgent deque: one of its
\* elements is handed out, those before it are gone, those after it stay.
LEMMA TakeUrgent ==
  ASSUME OrderInv, NEW m \in 0..(Len(priority_) - 1),
         priority_' \in Seq(1..pushed), Rest(priority_, priority_', m + 1),
         taken' = Append(taken, priority_[m + 1]), erased' \subseteq 1..pushed,
         total_count_' = total_count_ - 1, UNCHANGED <<queue_, pushed, urgent>>
  PROVE  OrderInv'
<1>0. TypeOK /\ CountCoversSize
  BY DEF OrderInv
<1>1. m + 1 \in 1..Len(priority_)
  BY <1>0, Typing
<1>2. /\ priority_[m + 1] \in 1..pushed /\ priority_[m + 1] \notin ordinary
  BY <1>0, <1>1, Typing DEF OrderInv, Class, Holds, ordinary
<1>3. taken' \in Seq(1..pushed) /\ Extended(taken, taken', priority_[m + 1])
  BY <1>0, <1>2, AppendExtends DEF TypeOK
<1>4. Len(priority_') = Len(priority_) - (m + 1)
  BY DEF Rest
<1>5. CountCoversSize' /\ total_count_' \in Nat
  BY <1>0, <1>1, <1>4, Typing DEF CountCoversSize
<1>6. TypeOK'
  BY <1>0, <1>3, <1>5 DEF TypeOK
<1>7. Class(taken', priority_', urgent)
  BY <1>0, <1>3, Typing, ClassTake DEF OrderInv
<1>8. Class(taken', queue_, ordinary)
  BY <1>0, <1>2, <1>3, Typing, ClassOther DEF OrderInv
<1> QED
  BY <1>5, <1>6, <1>7, <1>8 DEF OrderInv, ordinary

\* The same for the ordinary deque.
LEMMA TakeOrdinary ==
  ASSUME OrderInv, NEW m \in 0..(Len(queue_) - 1),
         queue_' \in Seq(1..pushed), Rest(queue_, queue_', m + 1),
         taken' = Append(taken, queue_[m + 1]), erased' \subseteq 1..pushed,
         total_count_' = total_count_ - 1, UNCHANGED <<priority_, pushed, urgent>>
  PROVE  OrderInv'
<1>0. TypeOK /\ CountCoversSize
  BY DEF OrderInv
<1>1. m + 1 \in 1..Len(queue_)
  BY <1>0, Typing
<1>2. /\ queue_[m + 1] \in 1..pushed /\ queue_[m + 1] \notin urgent
  BY <1>0, <1>1, Typing DEF OrderInv, Class, Holds, ordinary
<1>3. taken' \in Seq(1..pushed) /\ Extended(taken, taken', queue_[m + 1])
  BY <1>0, <1>2, AppendExtends DEF TypeOK
<1>4. Len(queue_') = Len(queue_) - (m + 1)
  BY DEF Rest
<1>5. CountCoversSize' /\ total_count_' \in Nat
  BY <1>0, <1>1, <1>4, Typing DEF CountCoversSize
<1>6. TypeOK'
  BY <1>0, <1>3, <1>5 DEF TypeOK
<1>7. Class(taken', queue_', ordinary)
  BY <1>0, <1>3, Typing, ClassTake DEF OrderInv
<1>8. Class(taken', priority_, urgent)
  BY <1>0, <1>2, <1>3, Typing, ClassOther DEF OrderInv
<1> QED
  BY <1>5, <1>6, <1>7, <1>8 DEF OrderInv, ordinary

LEMMA DequeueOrder == ASSUME OrderInv, dequeueUrgent \/ dequeueOrdinary PROVE OrderInv'
<1>0. TypeOK
  BY DEF OrderInv
<1>e. ASSUME NEW s \in Seq(1..pushed), NEW r
      PROVE  erased \cup (Elements(s) \ r) \subseteq 1..pushed
  <2>1. ASSUME NEW x \in Elements(s) PROVE x \in 1..pushed
    <3>1. PICK k \in DOMAIN s : x = s[k]
      BY DEF Elements
    <3>2. k \in 1..Len(s)
      BY <3>1, LenProperties
    <3> QED
      BY <3>1, <3>2, ElementOfSeq
  <2> QED
    BY <1>0, <2>1 DEF TypeOK
<1>1. CASE dequeueUrgent
  <2>1. \E m \in 0..(Len(priority_) - 1) :
          /\ taken' = Append(taken, priority_[m + 1])
          /\ priority_' \in Seq(1..pushed) /\ Rest(priority_, priority_', m + 1)
    BY <1>0, <1>1, TailOfLatest DEF dequeueUrgent, TypeOK
  <2>2. erased' \subseteq 1..pushed
    BY <1>0, <1>1, <1>e DEF dequeueUrgent, TypeOK
  <2>3. total_count_' = total_count_ - 1 /\ UNCHANGED <<queue_, pushed, urgent>>
    BY <1>1 DEF dequeueUrgent
  <2> QED
    BY <2>1, <2>2, <2>3, TakeUrgent
<1>2. CASE dequeueOrdinary
  <2>1. \E m \in 0..(Len(queue_) - 1) :
          /\ taken' = Append(taken, queue_[m + 1])
          /\ queue_' \in Seq(1..pushed) /\ Rest(queue_, queue_', m + 1)
    BY <1>0, <1>2, TailOfLatest DEF dequeueOrdinary, TypeOK
  <2>2. erased' \subseteq 1..pushed
    BY <1>0, <1>2, <1>e DEF dequeueOrdinary, TypeOK
  <2>3. total_count_' = total_count_ - 1 /\ UNCHANGED <<priority_, pushed, urgent>>
    BY <1>2 DEF dequeueOrdinary
  <2> QED
    BY <2>1, <2>2, <2>3, TakeOrdinary
<1> QED
  BY <1>1, <1>2

LEMMA TryPopOrder == ASSUME OrderInv, tryPopUrgent \/ tryPopOrdinary PROVE OrderInv'
<1>0. TypeOK
  BY DEF OrderInv
<1>1. CASE tryPopUrgent
  <2>1. /\ 0 \in 0..(Len(priority_) - 1) /\ taken' = Append(taken, priority_[0 + 1])
        /\ priority_' \in Seq(1..pushed) /\ Rest(priority_, priority_', 0 + 1)
    BY <1>0, <1>1, HeadTailProperties DEF tryPopUrgent, TypeOK, Rest
  <2>2. erased' \subseteq 1..pushed /\ total_count_' = total_count_ - 1
        /\ UNCHANGED <<queue_, pushed, urgent>>
    BY <1>0, <1>1 DEF tryPopUrgent, TypeOK
  <2> QED
    BY <2>1, <2>2, TakeUrgent
<1>2. CASE tryPopOrdinary
  <2>1. /\ 0 \in 0..(Len(queue_) - 1) /\ taken' = Append(taken, queue_[0 + 1])
        /\ queue_' \in Seq(1..pushed) /\ Rest(queue_, queue_', 0 + 1)
    BY <1>0, <1>2, HeadTailProperties DEF tryPopOrdinary, TypeOK, Rest
  <2>2. erased' \subseteq 1..pushed /\ total_count_' = total_count_ - 1
        /\ UNCHANGED <<priority_, pushed, urgent>>
    BY <1>0, <1>2 DEF tryPopOrdinary, TypeOK
  <2> QED
    BY <2>1, <2>2, TakeOrdinary
<1> QED
  BY <1>1, <1>2

\* The invariant holds initially and every operation of the queue keeps it.
THEOREM OrderInductive == Spec => []OrderInv
<1>1. OrderInv /\ [Next]_vars => OrderInv'
  <2> SUFFICES ASSUME OrderInv, [Next]_vars PROVE OrderInv'
    OBVIOUS
  <2>1. CASE UNCHANGED vars
    BY <2>1 DEF vars, OrderInv, TypeOK, CountCoversSize, ordinary
  <2>2. CASE \E priority \in BOOLEAN : push(priority)
    BY <2>2, PushOrder
  <2> QED
    BY <2>1, <2>2, DequeueAllOrder, DequeueOrder, TryPopOrder DEF Next
<1> QED
  BY InitOrder, <1>1, PTL DEF Spec

\* The counter is never negative and the deques hold elements pushed before.
THEOREM TypesHold == Spec => []TypeOK
  BY OrderInductive, PTL DEF OrderInv

\* isEmpty() never hides an element from the consumer about to sleep, for every
\* value of keep_only_latest.
THEOREM CountCovers == Spec => []CountCoversSize
<1>1. OrderInv => CountCoversSize
  BY DEF OrderInv
<1> QED
  BY <1>1, OrderInductive, PTL

\* Elements of one class are handed out in the order they were pushed.
THEOREM OrderHolds == Spec => []ClassOrder
<1>1. OrderInv => ClassOrder
  <2> SUFFICES ASSUME OrderInv, NEW i \in DOMAIN taken,
                      NEW e \in Elements(SubSeq(taken, i + 1, Len(taken))) \cup Pending,
                      e \in ClassOf(taken[i])
               PROVE  taken[i] < e
    BY DEF ClassOrder
  <2>0. TypeOK
    BY DEF OrderInv
  <2>1. i \in 1..Len(taken) /\ taken[i] \in 1..pushed
    BY <2>0, Typing DEF TypeOK
  <2>2. \/ taken[i] \in urgent /\ e \in urgent
        \/ taken[i] \in ordinary /\ e \in ordinary
    BY <2>1 DEF ClassOf, ordinary
  <2>3. CASE e \in Elements(SubSeq(taken, i + 1, Len(taken)))
    <3>1. \E j \in 1..Len(taken) : i < j /\ e = taken[j]
      <4> DEFINE r == SubSeq(taken, i + 1, Len(taken))
      <4>1. /\ r \in Seq(1..pushed)
            /\ Len(r) = IF i + 1 <= Len(taken) THEN Len(taken) - (i + 1) + 1 ELSE 0
            /\ \A k \in 1..(Len(taken) - (i + 1) + 1) : r[k] = taken[(i + 1) + k - 1]
        <5>1. \A k \in (i + 1)..Len(taken) : taken[k] \in 1..pushed
          BY <2>0, <2>1, Typing
        <5>2. i + 1 \in Int /\ Len(taken) \in Int
          BY <2>0, <2>1, Typing
        <5> QED
          BY <5>1, <5>2, SubSeqProperties
      <4>2. PICK k \in DOMAIN r : e = r[k]
        BY <2>3 DEF Elements
      <4> HIDE DEF r
      <4>3. k \in 1..Len(r)
        BY <4>1, <4>2, LenProperties
      <4>4. Len(taken) \in Nat /\ Len(r) \in Nat
        BY <2>0, <4>1, Typing, LenProperties
      <4>5. k \in 1..(Len(taken) - (i + 1) + 1)
        BY <2>1, <4>1, <4>3, <4>4
      <4>6. (i + 1) + k - 1 \in 1..Len(taken) /\ i < (i + 1) + k - 1
        BY <2>1, <4>4, <4>5
      <4>7. e = taken[(i + 1) + k - 1]
        BY <4>1, <4>2, <4>5
      <4> QED
        BY <4>6, <4>7
    <3> QED
      BY <2>1, <2>2, <3>1 DEF OrderInv, Class, InOrder
  <2>4. CASE e \in Elements(priority_)
    <3>1. \E k \in 1..Len(priority_) : e = priority_[k]
      BY <2>0, <2>4 DEF Elements, TypeOK
    <3>2. taken[i] \in urgent
      BY <2>2, <3>1 DEF OrderInv, Class, Holds, ordinary
    <3> QED
      BY <2>1, <3>1, <3>2 DEF OrderInv, Class, Before
  <2>5. CASE e \in Elements(queue_)
    <3>1. \E k \in 1..Len(queue_) : e = queue_[k]
      BY <2>0, <2>5 DEF Elements, TypeOK
    <3>2. taken[i] \in ordinary
      BY <2>2, <3>1 DEF OrderInv, Class, Holds, ordinary
    <3> QED
      BY <2>1, <3>1, <3>2 DEF OrderInv, Class, Before
  <2> QED
    BY <2>3, <2>4, <2>5 DEF Pending
<1> QED
  BY <1>1, OrderInductive, PTL

\* Where keep_only_latest is not used, as with every queue but the preamble tasks
\* of sema_manager.cc, size() is exact.
THEOREM SizeHolds == ASSUME Keep = 0 PROVE Spec => []CountIsSize
<1>1. Init => CountIsSize
  BY DEF Init, CountIsSize
<1>2. OrderInv /\ CountIsSize /\ [Next]_vars => CountIsSize'
  <2> SUFFICES ASSUME OrderInv, CountIsSize, [Next]_vars PROVE CountIsSize'
    OBVIOUS
  <2>0. TypeOK
    BY DEF OrderInv
  <2>1. CASE UNCHANGED vars
    BY <2>1 DEF vars, CountIsSize
  <2>2. ASSUME NEW p \in BOOLEAN, push(p) PROVE CountIsSize'
    <3>1. /\ Len(Append(priority_, pushed + 1)) = Len(priority_) + 1
          /\ Len(Append(queue_, pushed + 1)) = Len(queue_) + 1
      BY <2>0 DEF TypeOK
    <3> QED
      BY <2>0, <2>2, <3>1, Typing DEF push, CountIsSize
  <2>3. CASE dequeueAll
    BY <2>3 DEF dequeueAll, CountIsSize
  <2>4. ASSUME NEW s \in Seq(1..pushed), s /= <<>>
        PROVE  Latest(s) = s /\ Len(Tail(s)) = Len(s) - 1
    BY <2>4, HeadTailProperties DEF Latest
  <2>5. CASE dequeueUrgent \/ tryPopUrgent
    <3>1. /\ Len(priority_') = Len(priority_) - 1 /\ queue_' = queue_
          /\ total_count_' = total_count_ - 1
      BY <2>0, <2>4, <2>5 DEF dequeueUrgent, tryPopUrgent, TypeOK
    <3> QED
      BY <2>0, <3>1, Typing DEF CountIsSize
  <2>6. CASE dequeueOrdinary \/ tryPopOrdinary
    <3>1. /\ Len(queue_') = Len(queue_) - 1 /\ priority_' = priority_
          /\ total_count_' = total_count_ - 1
      BY <2>0, <2>4, <2>6 DEF dequeueOrdinary, tryPopOrdinary, TypeOK
    <3> QED
      BY <2>0, <3>1, Typing DEF CountIsSize
  <2> QED
    BY <2>1, <2>2, <2>3, <2>5, <2>6 DEF Next
<1> QED
  BY <1>1, <1>2, OrderInductive, PTL DEF Spec

----------------------------------------------------------------------------
\* What keep_only_latest erased no longer waits.
OnceInv == OrderInv /\ ExactlyOnce /\ erased \cap Pending = {}

\* The sets of elements of longer and shorter deques.
LEMMA ElementsOf ==
  ASSUME NEW S, NEW s \in Seq(S)
  PROVE  Elements(s) = {s[i] : i \in 1..Len(s)} /\ Elements(s) \subseteq S
<1>1. DOMAIN s = 1..Len(s) /\ \A i \in 1..Len(s) : s[i] \in S
  BY LenProperties, ElementOfSeq
<1> QED
  BY <1>1 DEF Elements

LEMMA ElementsAppend ==
  ASSUME NEW S, NEW s \in Seq(S), NEW x \in S
  PROVE  Elements(Append(s, x)) = Elements(s) \cup {x}
<1> DEFINE t == Append(s, x)
<1>1. /\ t \in Seq(S) /\ Len(t) = Len(s) + 1 /\ t[Len(s) + 1] = x
      /\ \A i \in 1..Len(s) : t[i] = s[i]
  BY AppendProperties
<1>2. Len(s) \in Nat
  OBVIOUS
<1> HIDE DEF t
<1>3. Elements(t) = {t[i] : i \in 1..Len(t)}
  BY <1>1, ElementsOf
<1>4. Elements(s) = {s[i] : i \in 1..Len(s)}
  BY ElementsOf
<1>5. \A i \in 1..Len(t) : i \in 1..Len(s) \/ i = Len(s) + 1
  BY <1>1, <1>2
<1>6. ASSUME NEW e \in Elements(t) PROVE e \in Elements(s) \cup {x}
  BY <1>1, <1>3, <1>4, <1>5
<1>7. ASSUME NEW e \in Elements(s) \cup {x} PROVE e \in Elements(t)
  <2>1. Len(s) + 1 \in 1..Len(t) /\ \A i \in 1..Len(s) : i \in 1..Len(t)
    BY <1>1, <1>2
  <2> QED
    BY <1>1, <1>3, <1>4, <2>1
<1> QED
  BY <1>6, <1>7 DEF t

LEMMA ElementsConcat ==
  ASSUME NEW S, NEW s \in Seq(S), NEW r \in Seq(S)
  PROVE  Elements(s \o r) = Elements(s) \cup Elements(r)
<1> DEFINE t == s \o r
<1>1. t \in Seq(S) /\ Joined(s, r, t)
  BY ConcatJoins
<1>2. Len(s) \in Nat /\ Len(r) \in Nat
  OBVIOUS
<1> HIDE DEF t
<1>3. /\ Elements(t) = {t[i] : i \in 1..Len(t)}
      /\ Elements(s) = {s[i] : i \in 1..Len(s)}
      /\ Elements(r) = {r[i] : i \in 1..Len(r)}
  BY <1>1, ElementsOf
<1>4. ASSUME NEW e \in Elements(t) PROVE e \in Elements(s) \cup Elements(r)
  <2>1. PICK i \in 1..Len(t) : e = t[i]
    BY <1>3
  <2>2. \/ i \in 1..Len(s) /\ e = s[i]
        \/ i - Len(s) \in 1..Len(r) /\ e = r[i - Len(s)]
    <3>1. i \in 1..Len(s) \/ i \in (Len(s) + 1)..Len(t)
      BY <1>1, <1>2 DEF Joined
    <3> QED
      BY <1>1, <2>1, <3>1 DEF Joined
  <2> QED
    BY <1>3, <2>2
<1>5. ASSUME NEW e \in Elements(s) PROVE e \in Elements(t)
  <2>1. PICK i \in 1..Len(s) : e = s[i]
    BY <1>3, <1>5
  <2>2. i \in 1..Len(t) /\ e = t[i]
    BY <1>1, <1>2, <2>1 DEF Joined
  <2> QED
    BY <1>3, <2>2
<1>6. ASSUME NEW e \in Elements(r) PROVE e \in Elements(t)
  <2>1. PICK i \in 1..Len(r) : e = r[i]
    BY <1>3, <1>6
  <2>2. i + Len(s) \in (Len(s) + 1)..Len(t) /\ i + Len(s) \in 1..Len(t)
    BY <1>1, <1>2 DEF Joined
  <2>3. (i + Len(s)) - Len(s) = i
    BY <1>2
  <2>4. e = t[i + Len(s)]
    BY <1>1, <2>1, <2>2, <2>3 DEF Joined
  <2> QED
    BY <1>3, <2>2, <2>4
<1> QED
  BY <1>4, <1>5, <1>6 DEF t

\* What is erased from a sorted deque s when the m elements before its suffix q
\* go and the head of q is taken: m elements, none of which still waits.
LEMMA Dropped ==
  ASSUME NEW S, NEW s \in Seq(S), Sorted(s), S \subseteq Nat, s /= <<>>
  PROVE  LET q == Latest(s)
             d == Elements(s) \ Elements(q)
         IN /\ Elements(s) = d \cup {Head(q)} \cup Elements(Tail(q))
            /\ d \cap Elements(Tail(q)) = {}
            /\ IsFiniteSet(d) /\ Len(s) = Cardinality(d) + 1 + Len(Tail(q))
<1> DEFINE q == Latest(s)
           m == Len(s) - Len(q)
           d == Elements(s) \ Elements(q)
<1>1. /\ q \in Seq(S) /\ q /= <<>> /\ Len(q) \in 1..Len(s) /\ Len(s) \in Nat
      /\ \A i \in 1..Len(q) : q[i] = s[i + m]
  BY LatestIsSuffix
<1>2. \A i \in 1..Len(s) : s[i] \in Nat
  BY ElementOfSeq
<1> HIDE DEF q
<1>3. /\ Tail(q) \in Seq(S) /\ Len(Tail(q)) = Len(q) - 1 /\ Head(q) = q[1]
      /\ \A i \in 1..Len(Tail(q)) : Tail(q)[i] = q[i + 1]
  BY <1>1, HeadTailProperties
<1>4. /\ Elements(s) = {s[i] : i \in 1..Len(s)} /\ Elements(q) = {q[i] : i \in 1..Len(q)}
      /\ Elements(Tail(q)) = {Tail(q)[i] : i \in 1..Len(Tail(q))}
  BY <1>1, <1>3, ElementsOf
<1>5. Elements(q) = {Head(q)} \cup Elements(Tail(q))
  <2>1. ASSUME NEW e \in Elements(q) PROVE e \in {Head(q)} \cup Elements(Tail(q))
    <3>1. PICK i \in 1..Len(q) : e = q[i]
      BY <1>4
    <3>2. i = 1 \/ (i - 1 \in 1..Len(Tail(q)) /\ (i - 1) + 1 = i)
      BY <1>1, <1>3
    <3>3. ASSUME i /= 1 PROVE e = Tail(q)[i - 1] /\ i - 1 \in 1..Len(Tail(q))
      BY <1>3, <3>1, <3>2, <3>3
    <3> QED
      BY <1>3, <1>4, <3>1, <3>3
  <2>2. ASSUME NEW e \in Elements(Tail(q)) PROVE e \in Elements(q)
    <3>1. PICK i \in 1..Len(Tail(q)) : e = Tail(q)[i]
      BY <1>4, <2>2
    <3>2. e = q[i + 1] /\ i + 1 \in 1..Len(q)
      BY <1>1, <1>3, <3>1
    <3> QED
      BY <1>4, <3>2
  <2>3. Head(q) \in Elements(q)
    <3>1. 1 \in 1..Len(q)
      BY <1>1
    <3> QED
      BY <1>3, <1>4, <3>1
  <2> QED
    BY <2>1, <2>2, <2>3
<1>6. Elements(q) \subseteq Elements(s)
  <2> SUFFICES ASSUME NEW i \in 1..Len(q) PROVE q[i] \in Elements(s)
    BY <1>4
  <2>1. i + m \in 1..Len(s)
    BY <1>1
  <2> QED
    BY <1>1, <1>4, <2>1
<1>7. d = {s[i] : i \in 1..m}
  <2>1. ASSUME NEW i \in 1..m PROVE s[i] \in d
    <3>1. i \in 1..Len(s)
      BY <1>1
    <3>2. ASSUME NEW k \in 1..Len(q) PROVE q[k] /= s[i]
      <4>1. k + m \in 1..Len(s) /\ i < k + m
        BY <1>1
      <4>2. s[i] < s[k + m] /\ s[i] \in Nat
        BY <1>2, <3>1, <4>1 DEF Sorted
      <4> QED
        BY <1>1, <4>2
    <3> QED
      BY <1>4, <3>1, <3>2
  <2>2. ASSUME NEW e \in d PROVE \E i \in 1..m : e = s[i]
    <3>1. PICK i \in 1..Len(s) : e = s[i]
      BY <1>4
    <3>2. ASSUME i \notin 1..m PROVE FALSE
      <4>1. i - m \in 1..Len(q) /\ (i - m) + m = i
        BY <1>1, <3>2
      <4>2. e = q[i - m]
        BY <1>1, <3>1, <4>1
      <4> QED
        BY <1>4, <4>1, <4>2
    <3> QED
      BY <3>1, <3>2
  <2> HIDE DEF d
  <2> QED
    BY <2>1, <2>2
<1>8. IsFiniteSet(d) /\ Cardinality(d) = m
  <2> DEFINE f == [i \in 1..m |-> s[i]]
  <2>1. m \in Nat
    BY <1>1
  <2>2. ASSUME NEW i \in 1..m, NEW j \in 1..m, s[i] = s[j] PROVE i = j
    <3>1. i \in 1..Len(s) /\ j \in 1..Len(s) /\ s[i] \in Nat
      BY <1>1, <1>2
    <3>2. ~(i < j) /\ ~(j < i)
      BY <1>2, <2>2, <3>1 DEF Sorted
    <3> QED
      BY <3>2
  <2>3. f \in Bijection(1..m, d)
    <3> HIDE DEF m
    <3>1. f \in [1..m -> d] /\ \A e \in d : \E i \in 1..m : f[i] = e
      BY <1>7
    <3>2. \A i, j \in 1..m : f[i] = f[j] => i = j
      BY <2>2
    <3> HIDE DEF f, d
    <3> QED
      BY <3>1, <3>2 DEF Bijection, Injection, Surjection, IsInjective
  <2> HIDE DEF m, d
  <2>4. ExistsBijection(1..m, d)
    BY <2>3 DEF ExistsBijection
  <2>5. IsFiniteSet(1..m) /\ Cardinality(1..m) = m
    BY <2>1, FS_Interval
  <2> QED
    BY <2>4, <2>5, FS_Bijection
<1>9. Len(s) = Cardinality(d) + 1 + Len(Tail(q))
  <2> HIDE DEF d
  <2> QED
    BY <1>1, <1>3, <1>8
<1> QED
  BY <1>5, <1>6, <1>8, <1>9 DEF q

LEMMA InitOnce == Init => OnceInv
<1> SUFFICES ASSUME Init PROVE OnceInv
  OBVIOUS
<1>1. OrderInv
  BY InitOrder
<1>2. Elements(<<>>) = {} /\ Len(<<>>) = 0 /\ Cardinality({}) = 0 /\ 1..0 = {}
  BY FS_EmptySet DEF Elements
<1> QED
  BY <1>1, <1>2 DEF Init, OnceInv, ExactlyOnce, Pending

\* What OnceInv says in the form the steps need.
LEMMA OnceFacts ==
  ASSUME OnceInv
  PROVE  /\ TypeOK /\ Sorted(priority_) /\ Sorted(queue_)
         /\ Elements(priority_) \cap Elements(queue_) = {}
         /\ Elements(priority_) \subseteq 1..pushed /\ Elements(queue_) \subseteq 1..pushed
         /\ IsFiniteSet(erased) /\ Cardinality(erased) \in Nat
         /\ 1..pushed \subseteq Nat
<1>1. TypeOK /\ Sorted(priority_) /\ Sorted(queue_)
  BY DEF OnceInv, OrderInv, Class
<1>2. Elements(priority_) \subseteq urgent /\ Elements(queue_) \subseteq ordinary
  <2>1. /\ Elements(priority_) = {priority_[i] : i \in 1..Len(priority_)}
        /\ Elements(queue_) = {queue_[i] : i \in 1..Len(queue_)}
    BY <1>1, ElementsOf DEF TypeOK
  <2> QED
    BY <2>1 DEF OnceInv, OrderInv, Class, Holds
<1>3. urgent \subseteq 1..pushed /\ pushed \in Nat /\ erased \subseteq 1..pushed
  BY <1>1 DEF TypeOK
<1>4. IsFiniteSet(erased) /\ Cardinality(erased) \in Nat
  <2>1. IsFiniteSet(1..pushed)
    BY <1>3, FS_Interval
  <2> QED
    BY <1>3, <2>1, FS_Subset, FS_CardinalityType
<1>5. /\ Elements(priority_) \cap Elements(queue_) = {}
      /\ Elements(priority_) \subseteq 1..pushed /\ Elements(queue_) \subseteq 1..pushed
  BY <1>2, <1>3 DEF ordinary
<1>6. 1..pushed \subseteq Nat
  BY <1>3
<1> QED
  BY <1>1, <1>4, <1>5, <1>6

LEMMA PushOnce ==
  ASSUME OnceInv, NEW p \in BOOLEAN, push(p)
  PROVE  OnceInv'
<1>0. TypeOK /\ OrderInv'
  BY PushOrder, OnceFacts DEF OnceInv
<1>1. /\ pushed' = pushed + 1 /\ UNCHANGED <<taken, erased>>
      /\ 1..pushed' = (1..pushed) \cup {pushed + 1} /\ pushed \in Nat
  BY <1>0 DEF push, TypeOK
<1>2. /\ pushed + 1 \notin erased /\ pushed + 1 \in 1..pushed'
      /\ priority_ \in Seq(1..pushed') /\ queue_ \in Seq(1..pushed')
  <2>1. 1..pushed \subseteq 1..pushed' /\ pushed + 1 \in 1..pushed' /\ pushed + 1 \notin 1..pushed
    BY <1>1
  <2>2. priority_ \in Seq(1..pushed) /\ queue_ \in Seq(1..pushed) /\ erased \subseteq 1..pushed
    BY <1>0 DEF TypeOK
  <2> QED
    BY <2>1, <2>2, SeqMonotonic
<1>3. Pending' = Pending \cup {pushed + 1}
  <2>1. /\ Elements(Append(priority_, pushed + 1)) = Elements(priority_) \cup {pushed + 1}
        /\ Elements(Append(queue_, pushed + 1)) = Elements(queue_) \cup {pushed + 1}
    BY <1>2, ElementsAppend
  <2>2. \/ priority_' = Append(priority_, pushed + 1) /\ queue_' = queue_
        \/ queue_' = Append(queue_, pushed + 1) /\ priority_' = priority_
    BY DEF push
  <2> QED
    BY <2>1, <2>2 DEF Pending
<1>4. Len(priority_') + Len(queue_') = Len(priority_) + Len(queue_) + 1
  <2>1. /\ Len(Append(priority_, pushed + 1)) = Len(priority_) + 1
        /\ Len(Append(queue_, pushed + 1)) = Len(queue_) + 1
    BY <1>2, AppendProperties
  <2>2. Len(priority_) \in Nat /\ Len(queue_) \in Nat
    BY <1>0, Typing
  <2> QED
    BY <2>1, <2>2 DEF push
<1>5. ExactlyOnce'
  <2>1. 1..pushed' = Pending' \cup Elements(taken') \cup erased'
    BY <1>1, <1>3 DEF OnceInv, ExactlyOnce
  <2>2. /\ Len(priority_) \in Nat /\ Len(queue_) \in Nat /\ Len(taken) \in Nat
        /\ Cardinality(erased) \in Nat
    BY <1>0, Typing, OnceFacts
  <2>3. Len(priority_) + Len(queue_) + Len(taken) + Cardinality(erased) = pushed
    BY DEF OnceInv, ExactlyOnce
  <2>4. Len(priority_') \in Nat /\ Len(queue_') \in Nat
    BY <1>2, AppendProperties, EmptySeq DEF push
  <2>5. Len(priority_') + Len(queue_') + Len(taken') + Cardinality(erased') = pushed'
    BY <1>1, <1>4, <2>2, <2>3, <2>4
  <2> QED
    BY <2>1, <2>5 DEF ExactlyOnce
<1> QED
  BY <1>0, <1>1, <1>2, <1>3, <1>5 DEF OnceInv

LEMMA DequeueAllOnce == ASSUME OnceInv, dequeueAll PROVE OnceInv'
<1>0. TypeOK /\ OrderInv'
  BY DequeueAllOrder, OnceFacts DEF OnceInv
<1>1. /\ priority_' = <<>> /\ queue_' = <<>> /\ UNCHANGED <<pushed, erased>>
      /\ taken' = (taken \o priority_) \o queue_
  BY <1>0 DEF dequeueAll, TypeOK
<1>2. /\ taken \in Seq(1..pushed) /\ priority_ \in Seq(1..pushed) /\ queue_ \in Seq(1..pushed)
      /\ taken \o priority_ \in Seq(1..pushed)
  BY <1>0 DEF TypeOK
<1>3. Elements(taken') = Elements(taken) \cup Elements(priority_) \cup Elements(queue_)
  <2>1. Elements(taken \o priority_) = Elements(taken) \cup Elements(priority_)
    BY <1>2, ElementsConcat
  <2> DEFINE u == taken \o priority_
  <2>2. Elements(u \o queue_) = Elements(u) \cup Elements(queue_)
    <3>1. u \in Seq(1..pushed)
      BY <1>2
    <3> HIDE DEF u
    <3> QED
      BY <1>2, <3>1, ElementsConcat
  <2> QED
    BY <1>1, <2>1, <2>2, Zenon
<1>4. Len(taken') = Len(taken) + Len(priority_) + Len(queue_)
  BY <1>1, <1>2, ConcatProperties
<1>5. Elements(<<>>) = {} /\ Len(<<>>) = 0
  BY DEF Elements
<1>6. Pending' = {}
  BY <1>1, <1>5 DEF Pending
<1>7. ExactlyOnce'
  <2>1. 1..pushed' = Pending' \cup Elements(taken') \cup erased'
    BY <1>1, <1>3, <1>6 DEF OnceInv, ExactlyOnce, Pending
  <2>2. Len(priority_) \in Nat /\ Len(queue_) \in Nat /\ Len(taken) \in Nat /\ Cardinality(erased) \in Nat
    BY <1>0, Typing, OnceFacts
  <2>3. Len(priority_) + Len(queue_) + Len(taken) + Cardinality(erased) = pushed
    BY DEF OnceInv, ExactlyOnce
  <2>4. Len(priority_') + Len(queue_') + Len(taken') + Cardinality(erased') = pushed'
    BY <1>1, <1>4, <1>5, <2>2, <2>3
  <2> QED
    BY <2>1, <2>4 DEF ExactlyOnce
<1> QED
  BY <1>0, <1>6, <1>7 DEF OnceInv

\* An element leaves deque s, which becomes t, and d is what is erased with it;
\* r is the other deque.
LEMMA TakeOnce ==
  ASSUME NEW s, NEW t, NEW r, NEW d, NEW x, OnceInv,
         Pending = Elements(s) \cup Elements(r), Pending' = Elements(t) \cup Elements(r),
         Len(priority_) + Len(queue_) = Len(s) + Len(r),
         Len(priority_') + Len(queue_') = Len(t) + Len(r),
         Len(s) \in Nat, Len(t) \in Nat, Len(r) \in Nat,
         Elements(s) \cap Elements(r) = {},
         Elements(s) = d \cup {x} \cup Elements(t), d \cap Elements(t) = {},
         IsFiniteSet(d), Len(s) = Cardinality(d) + 1 + Len(t), x \in 1..pushed,
         taken' = Append(taken, x), erased' = erased \cup d, pushed' = pushed
  PROVE  ExactlyOnce' /\ erased' \cap Pending' = {}
<1>1. taken \in Seq(1..pushed) /\ pushed \in Nat
  BY DEF OnceInv, OrderInv, TypeOK
<1>2. Elements(taken') = Elements(taken) \cup {x}
  BY <1>1, ElementsAppend
<1>3. Len(taken') = Len(taken) + 1 /\ Len(taken) \in Nat
  BY <1>1, AppendProperties
<1>4. erased \cap Pending = {}
  BY DEF OnceInv
<1>5. d \subseteq Pending /\ Pending' \subseteq Pending /\ d \cap Pending' = {}
  OBVIOUS
<1>6. erased \cap d = {}
  BY <1>4, <1>5
<1>7. Cardinality(erased') = Cardinality(erased) + Cardinality(d)
  <2>1. IsFiniteSet(erased) /\ Cardinality(erased) \in Nat /\ Cardinality(d) \in Nat
    BY OnceFacts, FS_CardinalityType
  <2>2. Cardinality(erased \cap d) = 0
    BY <1>6, FS_EmptySet
  <2>3. Cardinality(erased \cup d)
          = Cardinality(erased) + Cardinality(d) - Cardinality(erased \cap d)
    BY <2>1, FS_Union
  <2>4. Cardinality(erased') = Cardinality(erased \cup d)
    OBVIOUS
  <2> QED
    BY <2>1, <2>2, <2>3, <2>4
<1>8. 1..pushed' = Pending' \cup Elements(taken') \cup erased'
  <2>1. 1..pushed = Pending \cup Elements(taken) \cup erased
    BY DEF OnceInv, ExactlyOnce
  <2> QED
    BY <1>2, <2>1
<1>9. Len(priority_') + Len(queue_') + Len(taken') + Cardinality(erased') = pushed'
  <2>1. Len(priority_) + Len(queue_) + Len(taken) + Cardinality(erased) = pushed
    BY DEF OnceInv, ExactlyOnce
  <2>2. Cardinality(erased) \in Nat /\ Cardinality(d) \in Nat
    BY OnceFacts, FS_CardinalityType
  <2>3. (Len(s) + Len(r)) + Len(taken) + Cardinality(erased) = pushed
    BY <2>1
  <2>4. Len(s) = Cardinality(d) + 1 + Len(t) /\ Len(s) \in Nat /\ Len(t) \in Nat /\ Len(r) \in Nat
    OBVIOUS
  <2>5. (Len(t) + Len(r)) + (Len(taken) + 1) + (Cardinality(erased) + Cardinality(d)) = pushed
    <3> DEFINE ls == Len(s)
               lt == Len(t)
               lr == Len(r)
               cd == Cardinality(d)
               ce == Cardinality(erased)
               lk == Len(taken)
    <3>1. /\ ls \in Nat /\ lt \in Nat /\ lr \in Nat /\ cd \in Nat /\ ce \in Nat /\ lk \in Nat
          /\ ls = cd + 1 + lt /\ (ls + lr) + lk + ce = pushed
      BY <1>3, <2>2, <2>3, <2>4, Zenon
    <3> HIDE DEF ls, lt, lr, cd, ce, lk
    <3>2. (lt + lr) + (lk + 1) + (ce + cd) = pushed
      BY <3>1
    <3> QED
      BY <3>2 DEF lt, lr, lk, ce, cd
  <2> QED
    BY <1>3, <1>7, <2>5
<1> QED
  BY <1>4, <1>5, <1>8, <1>9 DEF ExactlyOnce

\* Of a deque whose first element is taken, nothing is erased.
LEMMA NoneDropped ==
  ASSUME NEW S, NEW s \in Seq(S), s /= <<>>
  PROVE  Elements(s) = {Head(s)} \cup Elements(Tail(s)) /\ Len(s) = 1 + Len(Tail(s))
<1>1. /\ Tail(s) \in Seq(S) /\ Len(Tail(s)) = Len(s) - 1 /\ Head(s) = s[1]
      /\ \A i \in 1..Len(Tail(s)) : Tail(s)[i] = s[i + 1]
      /\ Len(s) \in Nat \ {0}
  BY HeadTailProperties, EmptySeq
<1>2. /\ Elements(s) = {s[i] : i \in 1..Len(s)}
      /\ Elements(Tail(s)) = {Tail(s)[i] : i \in 1..Len(Tail(s))}
  BY <1>1, ElementsOf
<1> DEFINE t == Tail(s)
<1>3. /\ Len(t) = Len(s) - 1 /\ \A i \in 1..Len(t) : t[i] = s[i + 1]
      /\ Elements(t) = {t[i] : i \in 1..Len(t)}
  BY <1>1, <1>2
<1> HIDE DEF t
<1>4. ASSUME NEW i \in 1..Len(s), i /= 1 PROVE s[i] \in Elements(t)
  <2>1. i - 1 \in 1..Len(t) /\ (i - 1) + 1 = i
    BY <1>1, <1>3, <1>4
  <2>2. s[i] = t[i - 1]
    BY <1>3, <2>1
  <2> QED
    BY <1>3, <2>1, <2>2
<1>5. ASSUME NEW i \in 1..Len(t) PROVE t[i] \in Elements(s)
  <2>1. i + 1 \in 1..Len(s)
    BY <1>1, <1>3
  <2> QED
    BY <1>2, <1>3, <2>1
<1>6. s[1] \in Elements(s)
  <2>1. 1 \in 1..Len(s)
    BY <1>1
  <2> QED
    BY <1>2, <2>1
<1>7. Elements(s) = {s[1]} \cup Elements(t)
  <2>1. ASSUME NEW e \in Elements(s) PROVE e \in {s[1]} \cup Elements(t)
    BY <1>2, <1>4
  <2>2. ASSUME NEW e \in Elements(t) PROVE e \in Elements(s)
    BY <1>3, <1>5
  <2> QED
    BY <1>6, <2>1, <2>2
<1> QED
  BY <1>1, <1>7 DEF t

LEMMA TakesOnce ==
  ASSUME OnceInv, dequeueUrgent \/ dequeueOrdinary \/ tryPopUrgent \/ tryPopOrdinary
  PROVE  OnceInv'
<1>0. /\ TypeOK /\ OrderInv' /\ TypeOK' /\ Sorted(priority_) /\ Sorted(queue_)
      /\ 1..pushed \subseteq Nat /\ Elements(priority_) \cap Elements(queue_) = {}
  BY DequeueOrder, TryPopOrder, OnceFacts DEF OnceInv, OrderInv
<1>1. priority_ \in Seq(1..pushed) /\ queue_ \in Seq(1..pushed)
  BY <1>0 DEF TypeOK
<1>2. /\ Len(priority_) \in Nat /\ Len(queue_) \in Nat
      /\ Len(priority_') \in Nat /\ Len(queue_') \in Nat
  BY <1>0, <1>1 DEF TypeOK
<1>3. IsFiniteSet({}) /\ Cardinality({}) = 0
  BY FS_EmptySet
<1>4. CASE dequeueUrgent
  <2> DEFINE q == Latest(priority_)
             d == Elements(priority_) \ Elements(q)
  <2>1. /\ Elements(priority_) = d \cup {Head(q)} \cup Elements(Tail(q))
        /\ d \cap Elements(Tail(q)) = {} /\ IsFiniteSet(d)
        /\ Len(priority_) = Cardinality(d) + 1 + Len(Tail(q))
    BY <1>0, <1>1, <1>4, Dropped DEF dequeueUrgent
  <2>2. /\ priority_' = Tail(q) /\ queue_' = queue_ /\ taken' = Append(taken, Head(q))
        /\ erased' = erased \cup d /\ pushed' = pushed
    BY <1>4 DEF dequeueUrgent
  <2> HIDE DEF q, d
  <2>3. Head(q) \in 1..pushed
    BY <2>1, OnceFacts
  <2>4. /\ Pending = Elements(priority_) \cup Elements(queue_)
        /\ Pending' = Elements(priority_') \cup Elements(queue_)
    BY <2>2 DEF Pending
  <2>5. /\ Len(priority_) + Len(queue_) = Len(queue_) + Len(priority_)
        /\ Len(priority_') + Len(queue_') = Len(queue_') + Len(priority_')
    BY <1>2
  <2>6. ExactlyOnce' /\ erased' \cap Pending' = {}
    BY <1>0, <1>2, <2>1, <2>2, <2>3, <2>4, <2>5, TakeOnce
  <2> QED
    BY <1>0, <2>6 DEF OnceInv
<1>5. CASE dequeueOrdinary
  <2> DEFINE q == Latest(queue_)
             d == Elements(queue_) \ Elements(q)
  <2>1. /\ Elements(queue_) = d \cup {Head(q)} \cup Elements(Tail(q))
        /\ d \cap Elements(Tail(q)) = {} /\ IsFiniteSet(d)
        /\ Len(queue_) = Cardinality(d) + 1 + Len(Tail(q))
    BY <1>0, <1>1, <1>5, Dropped DEF dequeueOrdinary
  <2>2. /\ queue_' = Tail(q) /\ priority_' = priority_ /\ taken' = Append(taken, Head(q))
        /\ erased' = erased \cup d /\ pushed' = pushed
    BY <1>5 DEF dequeueOrdinary
  <2> HIDE DEF q, d
  <2>3. Head(q) \in 1..pushed
    BY <2>1, OnceFacts
  <2>4. /\ Pending = Elements(queue_) \cup Elements(priority_)
        /\ Pending' = Elements(queue_') \cup Elements(priority_)
    BY <2>2 DEF Pending
  <2>5. /\ Len(priority_) + Len(queue_) = Len(queue_) + Len(priority_)
        /\ Len(priority_') + Len(queue_') = Len(queue_') + Len(priority_')
    BY <1>2
  <2>6. ExactlyOnce' /\ erased' \cap Pending' = {}
    BY <1>0, <1>2, <2>1, <2>2, <2>3, <2>4, <2>5, TakeOnce
  <2> QED
    BY <1>0, <2>6 DEF OnceInv
<1>6. CASE tryPopUrgent
  <2>1. /\ Elements(priority_) = {Head(priority_)} \cup Elements(Tail(priority_))
        /\ Len(priority_) = 1 + Len(Tail(priority_))
    BY <1>1, <1>6, NoneDropped DEF tryPopUrgent
  <2>2. /\ priority_' = Tail(priority_) /\ queue_' = queue_ /\ pushed' = pushed
        /\ taken' = Append(taken, Head(priority_)) /\ erased' = erased \cup {}
    BY <1>6 DEF tryPopUrgent
  <2>3. Head(priority_) \in 1..pushed
    BY <2>1, OnceFacts
  <2>4. /\ Pending = Elements(priority_) \cup Elements(queue_)
        /\ Pending' = Elements(priority_') \cup Elements(queue_)
    BY <2>2 DEF Pending
  <2>5. /\ Len(priority_) = Cardinality({}) + 1 + Len(priority_')
        /\ Elements(priority_) = {} \cup {Head(priority_)} \cup Elements(priority_')
    BY <1>2, <1>3, <2>1, <2>2
  <2>6. /\ Len(priority_) + Len(queue_) = Len(queue_) + Len(priority_)
        /\ Len(priority_') + Len(queue_') = Len(queue_') + Len(priority_')
    BY <1>2
  <2>7. ExactlyOnce' /\ erased' \cap Pending' = {}
    BY <1>0, <1>2, <1>3, <2>2, <2>3, <2>4, <2>5, <2>6, TakeOnce
  <2> QED
    BY <1>0, <2>7 DEF OnceInv
<1>7. CASE tryPopOrdinary
  <2>1. /\ Elements(queue_) = {Head(queue_)} \cup Elements(Tail(queue_))
        /\ Len(queue_) = 1 + Len(Tail(queue_))
    BY <1>1, <1>7, NoneDropped DEF tryPopOrdinary
  <2>2. /\ queue_' = Tail(queue_) /\ priority_' = priority_ /\ pushed' = pushed
        /\ taken' = Append(taken, Head(queue_)) /\ erased' = erased \cup {}
    BY <1>7 DEF tryPopOrdinary
  <2>3. Head(queue_) \in 1..pushed
    BY <2>1, OnceFacts
  <2>4. /\ Pending = Elements(queue_) \cup Elements(priority_)
        /\ Pending' = Elements(queue_') \cup Elements(priority_)
    BY <2>2 DEF Pending
  <2>5. /\ Len(queue_) = Cardinality({}) + 1 + Len(queue_')
        /\ Elements(queue_) = {} \cup {Head(queue_)} \cup Elements(queue_')
    BY <1>2, <1>3, <2>1, <2>2
  <2>6. /\ Len(priority_) + Len(queue_) = Len(queue_) + Len(priority_)
        /\ Len(priority_') + Len(queue_') = Len(queue_') + Len(priority_')
    BY <1>2
  <2>7. ExactlyOnce' /\ erased' \cap Pending' = {}
    BY <1>0, <1>2, <1>3, <2>2, <2>3, <2>4, <2>5, <2>6, TakeOnce
  <2> QED
    BY <1>0, <2>7 DEF OnceInv
<1> QED
  BY <1>4, <1>5, <1>6, <1>7

\* No element is lost and none is handed out twice, for every keep_only_latest.
THEOREM OnceHolds == Spec => []ExactlyOnce
<1>1. OnceInv /\ [Next]_vars => OnceInv'
  <2> SUFFICES ASSUME OnceInv, [Next]_vars PROVE OnceInv'
    OBVIOUS
  <2>1. CASE UNCHANGED vars
    BY <2>1 DEF vars, OnceInv, OrderInv, TypeOK, CountCoversSize, ordinary, ExactlyOnce,
                Pending
  <2>2. CASE \E priority \in BOOLEAN : push(priority)
    BY <2>2, PushOnce
  <2> QED
    BY <2>1, <2>2, DequeueAllOnce, TakesOnce DEF Next
<1>2. OnceInv => ExactlyOnce
  BY DEF OnceInv
<1> QED
  BY InitOnce, <1>1, <1>2, PTL DEF Spec
============================================================================
