------------------------ MODULE IndexPipelineProofs ------------------------
(***************************************************************************)
(* Proofs about IndexPipeline for any files, indexers and bounds: types,   *)
(* the counters of the progress report, and, within Scope, that the        *)
(* reference counts add up to the indexes stored and that the pipeline     *)
(* implements IndexedDB.  Urgent and background work may meet in a file,   *)
(* and reloads happen.                                                     *)
(***************************************************************************)
EXTENDS IndexPipeline, Induction, FiniteSetTheorems, SequenceTheorems, TLAPS

----------------------------------------------------------------------------
(* OfPaths *)

\* The function in the definition of OfPaths, and OfPaths is its last value.
Filters(S, s, P) ==
  {f \in [0..Len(s) -> Seq(S)] :
     /\ f[0] = <<>> /\ OfPaths(s, P) = f[Len(s)]
     /\ \A n \in 1..Len(s) :
          f[n] = IF s[n].path \in P THEN Append(f[n - 1], s[n]) ELSE f[n - 1]}

\* It exists.
LEMMA OfPathsSteps ==
  ASSUME NEW S, NEW s \in Seq(S), NEW P
  PROVE  Filters(S, s, P) /= {}
<1> DEFINE N == Len(s)
           T == Seq(S)
           step == [x \in (1..N) \X T |->
                      IF s[x[1]].path \in P THEN Append(x[2], s[x[1]]) ELSE x[2]]
<1>1. N \in Nat /\ <<>> \in T /\ \A n \in 1..N : s[n] \in S
  OBVIOUS
<1>2. step \in [(1..N) \X T -> T]
  <2>1. ASSUME NEW n \in 1..N, NEW t \in T PROVE Append(t, s[n]) \in T
    BY <1>1, AppendProperties
  <2> HIDE DEF T
  <2> QED
    BY <2>1
<1>3. \A n \in 1..N, t \in T :
        step[<<n, t>>] = IF s[n].path \in P THEN Append(t, s[n]) ELSE t
  <2> HIDE DEF T
  <2> QED
    OBVIOUS
<1> HIDE DEF step, T, N
<1>4. PICK f \in [0..N -> T] : f[0] = <<>> /\ \A n \in 1..N : f[n] = step[<<n, f[n - 1]>>]
  <2> DEFINE e == <<>>
  <2>1. e \in T
    BY <1>1
  <2> HIDE DEF e
  <2>2. StepFunctions(N, T, e, step) /= {}
    BY <1>1, <1>2, <2>1, StepsDefine
  <2> QED
    BY <2>2 DEF e, StepFunctions
<1>5. ASSUME NEW n \in 1..N
      PROVE  /\ f[n] = IF s[n].path \in P THEN Append(f[n - 1], s[n]) ELSE f[n - 1]
  <2>1. f[n - 1] \in T
    BY <1>1, <1>4
  <2> QED
    BY <1>3, <1>4, <2>1
<1>6. f = [n \in 0..N |-> IF n = 0 THEN <<>>
                          ELSE IF s[n].path \in P THEN Append(f[n - 1], s[n]) ELSE f[n - 1]]
  <2>1. ASSUME NEW n \in 0..N, n /= 0 PROVE n \in 1..N
    BY <1>1, <2>1
  <2>2. \A n \in 0..N : f[n] = IF n = 0 THEN <<>>
                          ELSE IF s[n].path \in P THEN Append(f[n - 1], s[n]) ELSE f[n - 1]
    BY <1>4, <1>5, <2>1
  <2> QED
    BY <1>4, <2>2
<1> DEFINE Eq(F) == F = [n \in 0..N |->
              IF n = 0 THEN <<>>
              ELSE IF s[n].path \in P THEN Append(F[n - 1], s[n]) ELSE F[n - 1]]
<1>7. OfPaths(s, P) = (CHOOSE F : Eq(F))[N]
  BY DEF OfPaths, N
<1>8. ASSUME NEW g, Eq(g) PROVE g = f
  <2>1. g[0] = <<>> /\ \A n \in 1..N :
          g[n] = IF s[n].path \in P THEN Append(g[n - 1], s[n]) ELSE g[n - 1]
    <3>1. 0 \in 0..N /\ \A n \in 1..N : n \in 0..N /\ n /= 0
      BY <1>1
    <3> QED
      BY <1>8, <3>1
  <2> DEFINE E == {n \in 0..N : g[n] = f[n]}
  <2>2. 0 \in E
    BY <1>1, <1>4, <2>1
  <2>3. ASSUME NEW n \in 1..N, n - 1 \in E PROVE n \in E
    BY <1>1, <1>5, <2>1, <2>3
  <2> HIDE DEF E
  <2>4. \A n \in 0..N : n \in E
    BY <1>1, <2>2, <2>3, UpToInduct
  <2>5. \A n \in 0..N : g[n] = f[n]
    BY <2>4 DEF E
  <2>6. g = [n \in 0..N |-> g[n]] /\ f = [n \in 0..N |-> f[n]]
    BY <1>4, <1>8
  <2> QED
    BY <2>5, <2>6
<1>9. (CHOOSE F : Eq(F)) = f
  <2>1. Eq(f)
    BY <1>6
  <2> HIDE DEF Eq
  <2> QED
    BY <1>8, <2>1
<1> HIDE DEF Eq
<1> QED
  BY <1>4, <1>5, <1>7, <1>9 DEF N, T, Filters

LEMMA OfPathsEmpty ==
  ASSUME NEW P
  PROVE  OfPaths(<<>>, P) = <<>>
<1>1. <<>> \in Seq({}) /\ Len(<<>>) = 0
  OBVIOUS
<1> DEFINE e == <<>>
<1>2. e \in Seq({}) /\ Len(e) = 0
  BY <1>1
<1> HIDE DEF e
<1>3. Filters({}, e, P) /= {}
  BY <1>2, OfPathsSteps
<1>4. OfPaths(e, P) = <<>>
  BY <1>2, <1>3 DEF Filters
<1> QED
  BY <1>4 DEF e

LEMMA OfPathsType ==
  ASSUME NEW S, NEW s \in Seq(S), NEW P
  PROVE  OfPaths(s, P) \in Seq(S)
<1>1. PICK f \in [0..Len(s) -> Seq(S)] : OfPaths(s, P) = f[Len(s)]
  <2>1. Filters(S, s, P) /= {}
    BY OfPathsSteps
  <2> QED
    BY <2>1 DEF Filters
<1>2. Len(s) \in 0..Len(s)
  OBVIOUS
<1> QED
  BY <1>1, <1>2

LEMMA OfPathsAppend ==
  ASSUME NEW S, NEW s \in Seq(S), NEW u \in S, NEW P
  PROVE  OfPaths(Append(s, u), P) =
           IF u.path \in P THEN Append(OfPaths(s, P), u) ELSE OfPaths(s, P)
<1> DEFINE t == Append(s, u)
           N == Len(s)
<1>1. N \in Nat /\ t \in Seq(S) /\ Len(t) = N + 1 /\ t[N + 1] = u
      /\ \A n \in 1..N : t[n] = s[n]
  BY AppendProperties
<1> HIDE DEF t
<1>2. PICK f \in [0..N -> Seq(S)] :
        /\ f[0] = <<>> /\ OfPaths(s, P) = f[N]
        /\ \A n \in 1..N :
             f[n] = IF s[n].path \in P THEN Append(f[n - 1], s[n]) ELSE f[n - 1]
  <2>1. Filters(S, s, P) /= {}
    BY OfPathsSteps
  <2> QED
    BY <2>1 DEF Filters
<1>3. PICK g \in [0..(N + 1) -> Seq(S)] :
        /\ g[0] = <<>> /\ OfPaths(t, P) = g[N + 1]
        /\ \A n \in 1..(N + 1) :
             g[n] = IF t[n].path \in P THEN Append(g[n - 1], t[n]) ELSE g[n - 1]
  <2>1. Filters(S, t, P) /= {}
    BY <1>1, OfPathsSteps
  <2> QED
    BY <1>1, <2>1 DEF Filters
<1> HIDE DEF N
<1> DEFINE E == {n \in 0..N : g[n] = f[n]}
<1>4. 0 \in E
  BY <1>1, <1>2, <1>3
<1>5. ASSUME NEW n \in 1..N, n - 1 \in E PROVE n \in E
  <2>1. n \in 1..(N + 1) /\ n \in 0..N /\ t[n] = s[n] /\ g[n - 1] = f[n - 1]
    BY <1>1, <1>5
  <2> QED
    BY <1>2, <1>3, <2>1
<1> HIDE DEF E
<1>6. \A n \in 0..N : n \in E
  BY <1>1, <1>4, <1>5, UpToInduct
<1>7. g[N] = f[N]
  BY <1>1, <1>6 DEF E
<1>8. g[N + 1] = IF u.path \in P THEN Append(g[N], u) ELSE g[N]
  <2>1. N + 1 \in 1..(N + 1) /\ (N + 1) - 1 = N
    BY <1>1
  <2> QED
    BY <1>1, <1>3, <2>1
<1> QED
  BY <1>2, <1>3, <1>7, <1>8 DEF t

\* What is left of the elements of P when the first element of s is taken.
LEMMA OfPathsTail ==
  ASSUME NEW S, NEW s \in Seq(S), s /= <<>>, NEW P
  PROVE  IF Head(s).path \in P
         THEN /\ OfPaths(s, P) /= <<>> /\ Head(OfPaths(s, P)) = Head(s)
              /\ OfPaths(Tail(s), P) = Tail(OfPaths(s, P))
              /\ Len(OfPaths(Tail(s), P)) = Len(OfPaths(s, P)) - 1
         ELSE OfPaths(Tail(s), P) = OfPaths(s, P)
<1> DEFINE t == Tail(s)
           N == Len(t)
           first == IF s[1].path \in P THEN <<s[1]>> ELSE <<>>
<1>1. /\ t \in Seq(S) /\ N \in Nat /\ Len(s) = N + 1 /\ Head(s) = s[1] /\ s[1] \in S
      /\ \A n \in 1..N : t[n] = s[n + 1] /\ t[n] \in S
  BY HeadTailProperties
<1>2. first \in Seq(S)
  BY <1>1
<1> HIDE DEF t
<1>3. PICK f \in [0..N -> Seq(S)] :
        /\ f[0] = <<>> /\ OfPaths(t, P) = f[N]
        /\ \A n \in 1..N :
             f[n] = IF t[n].path \in P THEN Append(f[n - 1], t[n]) ELSE f[n - 1]
  <2>1. Filters(S, t, P) /= {}
    BY <1>1, OfPathsSteps
  <2> QED
    BY <2>1 DEF Filters
<1>4. PICK g \in [0..(N + 1) -> Seq(S)] :
        /\ g[0] = <<>> /\ OfPaths(s, P) = g[N + 1]
        /\ \A n \in 1..(N + 1) :
             g[n] = IF s[n].path \in P THEN Append(g[n - 1], s[n]) ELSE g[n - 1]
  <2>1. Filters(S, s, P) /= {}
    BY OfPathsSteps
  <2> QED
    BY <1>1, <2>1 DEF Filters
<1> HIDE DEF N
<1> DEFINE E == {n \in 0..N : g[n + 1] = first \o f[n]}
<1>5. 0 \in E
  <2>1. 1 \in 1..(N + 1) /\ 1 - 1 = 0 /\ 0 + 1 = 1 /\ 0 \in 0..N
    BY <1>1
  <2>2. g[1] = IF s[1].path \in P THEN Append(<<>>, s[1]) ELSE <<>>
    BY <1>4, <2>1
  <2>3. Append(<<>>, s[1]) = <<s[1]>>
    BY <1>1
  <2>4. g[1] = first
    BY <2>2, <2>3
  <2> HIDE DEF first
  <2>5. first \o <<>> = first
    BY <1>2, ConcatEmptySeq
  <2> QED
    BY <1>3, <2>1, <2>4, <2>5
<1>6. ASSUME NEW n \in 1..N, n - 1 \in E PROVE n \in E
  <2>1. /\ n + 1 \in 1..(N + 1) /\ n \in 0..N /\ t[n] = s[n + 1] /\ t[n] \in S
        /\ (n + 1) - 1 = n /\ (n - 1) + 1 = n /\ n - 1 \in 0..N
    BY <1>1
  <2>2. g[n] = first \o f[n - 1]
    BY <1>6, <2>1
  <2>3. g[n + 1] = IF t[n].path \in P THEN Append(g[n], t[n]) ELSE g[n]
    BY <1>4, <2>1
  <2>4. f[n - 1] \in Seq(S)
    BY <1>3, <2>1
  <2> HIDE DEF first
  <2>5. Append(first \o f[n - 1], t[n]) = first \o Append(f[n - 1], t[n])
    <3> DEFINE a == f[n - 1]
               x == t[n]
    <3>1. a \in Seq(S) /\ x \in S /\ first \in Seq(S)
      BY <1>2, <2>1, <2>4
    <3> HIDE DEF a, x
    <3>2. /\ Append(first \o a, x) = (first \o a) \o <<x>>
          /\ Append(a, x) = a \o <<x>> /\ <<x>> \in Seq(S)
      <4> DEFINE b == first \o a
      <4>1. b \in Seq(S)
        BY <3>1, ConcatProperties
      <4> HIDE DEF b
      <4>2. Append(b, x) = b \o <<x>> /\ Append(a, x) = a \o <<x>> /\ <<x>> \in Seq(S)
        BY <3>1, <4>1, AppendIsConcat
      <4> QED
        BY <4>2 DEF b
    <3>3. (first \o a) \o <<x>> = first \o (a \o <<x>>)
      BY <3>1, <3>2, ConcatAssociative
    <3>4. Append(first \o a, x) = first \o Append(a, x)
      BY <3>2, <3>3
    <3> QED
      BY <3>4 DEF a, x
  <2>6. f[n] = IF t[n].path \in P THEN Append(f[n - 1], t[n]) ELSE f[n - 1]
    BY <1>3
  <2>7. g[n + 1] = first \o f[n]
    BY <2>2, <2>3, <2>5, <2>6
  <2> QED
    BY <2>1, <2>7
<1> HIDE DEF E
<1>7. \A n \in 0..N : n \in E
  BY <1>1, <1>5, <1>6, UpToInduct
<1>8. OfPaths(s, P) = first \o OfPaths(t, P)
  <2>1. N \in E
    BY <1>1, <1>7
  <2>2. g[N + 1] = first \o f[N]
    BY <2>1 DEF E
  <2> HIDE DEF first
  <2> QED
    BY <1>3, <1>4, <2>2
<1>9. OfPaths(t, P) \in Seq(S)
  BY <1>1, OfPathsType
<1> DEFINE r == OfPaths(t, P)
           h == s[1]
<1>10. r \in Seq(S) /\ h \in S
  BY <1>1, <1>9
<1> HIDE DEF r, h
<1>11. /\ <<h>> \o r /= <<>> /\ Head(<<h>> \o r) = h /\ Tail(<<h>> \o r) = r
       /\ Len(r) = Len(<<h>> \o r) - 1 /\ <<>> \o r = r
  <2> DEFINE c == <<h>> \o r
  <2>1. /\ c \in Seq(S) /\ Len(c) = 1 + Len(r) /\ Len(r) \in Nat /\ c[1] = h
        /\ \A i \in 1..Len(r) : c[i + 1] = r[i]
    BY <1>10
  <2> HIDE DEF c
  <2>2. c /= <<>> /\ Head(c) = h
    BY <2>1
  <2>3. /\ Tail(c) \in Seq(S) /\ Len(Tail(c)) = Len(r)
        /\ \A i \in 1..Len(r) : Tail(c)[i] = r[i]
    BY <2>1, <2>2, HeadTailProperties
  <2>4. Tail(c) = r
    BY <1>10, <2>3, SeqEqual
  <2>5. <<>> \o r = r
    BY <1>10, ConcatEmptySeq
  <2> QED
    BY <2>1, <2>2, <2>4, <2>5 DEF c
<1>12. CASE s[1].path \in P
  <2>1. OfPaths(s, P) = <<h>> \o r
    BY <1>8, <1>12 DEF h, r
  <2> QED
    BY <1>1, <1>11, <1>12, <2>1 DEF h, r, t
<1>13. CASE s[1].path \notin P
  <2>1. OfPaths(s, P) = <<>> \o r
    BY <1>8, <1>13 DEF r
  <2> QED
    BY <1>1, <1>11, <1>13, <2>1 DEF r, t
<1> QED
  BY <1>12, <1>13

----------------------------------------------------------------------------
(* Queues of requests *)

UrgentRequests == [path : Paths, mode : {"Normal", "Delete"}]
BackgroundRequests == [path : Paths \cup {None}, mode : {"Background"}]
RequestQueues == [priority_ : Seq(UrgentRequests), queue_ : Seq(BackgroundRequests)]

\* One more request: it counts unless it is a dummy one.
LEMMA PushUrgent ==
  ASSUME NEW q \in RequestQueues, NEW e \in Paths, NEW m \in {"Normal", "Delete"}
  PROVE  LET r == PushBack(q, Request(e, m), TRUE)
         IN r \in RequestQueues /\ r.queue_ = q.queue_ /\ Counted(r) = Counted(q) + 1
<1> DEFINE x == Request(e, m)
           r == PushBack(q, x, TRUE)
<1>1. x \in UrgentRequests /\ x.path \in Paths
  BY DEF Request, UrgentRequests
<1> HIDE DEF x
<1>2. q.priority_ \in Seq(UrgentRequests) /\ q.queue_ \in Seq(BackgroundRequests)
  BY DEF RequestQueues
<1>3. r = [q EXCEPT !.priority_ = Append(@, x)]
  BY DEF PushBack
<1>4. r.priority_ = Append(q.priority_, x) /\ r.queue_ = q.queue_
  BY <1>3 DEF RequestQueues
<1>5. Append(q.priority_, x) \in Seq(UrgentRequests)
  BY <1>1, <1>2, AppendProperties
<1>6. r \in RequestQueues
  BY <1>2, <1>3, <1>5 DEF RequestQueues
<1> HIDE DEF r
<1>7. Counted(r) = Counted(q) + 1
  <2> DEFINE a == OfPaths(q.priority_, Paths)
             b == OfPaths(q.queue_, Paths)
  <2>1. a \in Seq(UrgentRequests) /\ b \in Seq(BackgroundRequests)
    BY <1>2, OfPathsType
  <2>2. OfPaths(r.priority_, Paths) = Append(a, x)
    <3>1. OfPaths(Append(q.priority_, x), Paths)
            = IF x.path \in Paths THEN Append(a, x) ELSE a
      BY <1>1, <1>2, OfPathsAppend
    <3> QED
      BY <1>1, <1>4, <3>1
  <2>3. OfPaths(r.queue_, Paths) = b
    BY <1>4
  <2> HIDE DEF a, b
  <2>4. Len(Append(a, x)) = Len(a) + 1 /\ Len(a) \in Nat /\ Len(b) \in Nat
    BY <1>1, <2>1, AppendProperties
  <2>5. Counted(q) = Len(a) + Len(b)
    BY DEF Counted, a, b
  <2>6. Counted(r) = (Len(a) + 1) + Len(b)
    BY <2>2, <2>3, <2>4 DEF Counted
  <2> QED
    BY <2>4, <2>5, <2>6
<1> QED
  BY <1>4, <1>6, <1>7 DEF r, x

LEMMA PushBackground ==
  ASSUME NEW q \in RequestQueues, NEW e \in Paths \cup {None}
  PROVE  LET r == PushBack(q, Request(e, "Background"), FALSE)
         IN /\ r \in RequestQueues /\ r.priority_ = q.priority_
            /\ Counted(r) = IF e \in Paths THEN Counted(q) + 1 ELSE Counted(q)
<1> DEFINE x == Request(e, "Background")
           r == PushBack(q, x, FALSE)
<1>1. x \in BackgroundRequests /\ x.path = e
  BY DEF Request, BackgroundRequests
<1> HIDE DEF x
<1>2. q.priority_ \in Seq(UrgentRequests) /\ q.queue_ \in Seq(BackgroundRequests)
  BY DEF RequestQueues
<1>3. r = [q EXCEPT !.queue_ = Append(@, x)]
  BY DEF PushBack
<1>4. r.queue_ = Append(q.queue_, x) /\ r.priority_ = q.priority_
  BY <1>3 DEF RequestQueues
<1>5. Append(q.queue_, x) \in Seq(BackgroundRequests)
  BY <1>1, <1>2, AppendProperties
<1>6. r \in RequestQueues
  BY <1>2, <1>3, <1>5 DEF RequestQueues
<1> HIDE DEF r
<1>7. Counted(r) = IF e \in Paths THEN Counted(q) + 1 ELSE Counted(q)
  <2> DEFINE a == OfPaths(q.priority_, Paths)
             b == OfPaths(q.queue_, Paths)
  <2>1. a \in Seq(UrgentRequests) /\ b \in Seq(BackgroundRequests)
    BY <1>2, OfPathsType
  <2>2. OfPaths(r.queue_, Paths) = IF e \in Paths THEN Append(b, x) ELSE b
    <3>1. OfPaths(Append(q.queue_, x), Paths)
            = IF x.path \in Paths THEN Append(b, x) ELSE b
      BY <1>1, <1>2, OfPathsAppend
    <3> QED
      BY <1>1, <1>4, <3>1
  <2>3. OfPaths(r.priority_, Paths) = a
    BY <1>4
  <2> HIDE DEF a, b
  <2>4. Len(Append(b, x)) = Len(b) + 1 /\ Len(a) \in Nat /\ Len(b) \in Nat
    BY <1>1, <2>1, AppendProperties
  <2>5. Counted(q) = Len(a) + Len(b)
    BY DEF Counted, a, b
  <2>6. Counted(r) = Len(a) + (IF e \in Paths THEN Len(b) + 1 ELSE Len(b))
    BY <2>2, <2>3, <2>4 DEF Counted
  <2> QED
    BY <2>4, <2>5, <2>6
<1> QED
  BY <1>4, <1>6, <1>7 DEF r, x

LEMMA CountedType == ASSUME NEW q \in RequestQueues PROVE Counted(q) \in Nat
<1>1. q.priority_ \in Seq(UrgentRequests) /\ q.queue_ \in Seq(BackgroundRequests)
  BY DEF RequestQueues
<1>2. /\ OfPaths(q.priority_, Paths) \in Seq(UrgentRequests)
      /\ OfPaths(q.queue_, Paths) \in Seq(BackgroundRequests)
  BY <1>1, OfPathsType
<1>3. Len(OfPaths(q.priority_, Paths)) \in Nat /\ Len(OfPaths(q.queue_, Paths)) \in Nat
  BY <1>2
<1> QED
  BY <1>3 DEF Counted

\* What Project::index leaves of a queue: one more request for each entry, none of
\* them urgent if no file is open.
LEMMA ProjectIndexed ==
  ASSUME NEW q \in RequestQueues, NEW open \in SUBSET Paths
  PROVE  LET r == ProjectIndex(q, open)
         IN /\ r \in RequestQueues /\ Counted(r) = Counted(q) + Len(Entries)
            /\ open = {} => r.priority_ = q.priority_
<1> DEFINE N == Len(Entries)
           T == RequestQueues
           entry(e) == Request(e, IF e \in open THEN "Normal" ELSE "Background")
           more(r, e) == PushBack(r, entry(e), e \in open)
           step == [x \in (1..N) \X T |-> more(x[2], Entries[x[1]])]
<1>1. N \in Nat /\ \A n \in 1..N : Entries[n] \in Paths
  BY PipelineAssumption
<1>2. ASSUME NEW r \in T, NEW e \in Paths
      PROVE  /\ more(r, e) \in T /\ Counted(more(r, e)) = Counted(r) + 1
             /\ open = {} => more(r, e).priority_ = r.priority_
  <2>1. CASE e \in open
    <3>1. (e \in open) = TRUE /\ entry(e) = Request(e, "Normal")
      BY <2>1
    <3>2. more(r, e) = PushBack(r, Request(e, "Normal"), TRUE)
      BY <3>1
    <3> QED
      BY <2>1, <3>2, PushUrgent
  <2>2. CASE e \notin open
    <3>1. (e \in open) = FALSE /\ entry(e) = Request(e, "Background")
      BY <2>2
    <3>2. more(r, e) = PushBack(r, Request(e, "Background"), FALSE)
      BY <3>1
    <3> QED
      BY <3>2, PushBackground
  <2> QED
    BY <2>1, <2>2
<1>3. step \in [(1..N) \X T -> T]
  <2> HIDE DEF more, T
  <2> QED
    BY <1>1, <1>2
<1>4. \A n \in 1..N, r \in T : step[<<n, r>>] = more(r, Entries[n])
  <2> HIDE DEF more, T
  <2> QED
    OBVIOUS
<1> HIDE DEF step, N, T
<1>5. q \in T
  BY DEF T
<1>6. PICK f \in StepFunctions(N, T, q, step) : TRUE
  BY <1>1, <1>3, <1>5, StepsDefine
<1>7. /\ f \in [0..N -> T] /\ f[0] = q
      /\ \A n \in 1..N : f[n] = more(f[n - 1], Entries[n])
  <2>1. /\ f \in [0..N -> T] /\ f[0] = q
        /\ \A n \in 1..N : f[n] = step[<<n, f[n - 1]>>]
    BY <1>6 DEF StepFunctions
  <2>2. ASSUME NEW n \in 1..N PROVE f[n] = more(f[n - 1], Entries[n])
    <3>1. f[n - 1] \in T
      BY <1>1, <2>1
    <3> HIDE DEF more
    <3> QED
      BY <1>4, <2>1, <3>1
  <2> HIDE DEF more
  <2> QED
    BY <2>1, <2>2
<1> DEFINE Eq(F) == F = [n \in 0..N |->
              IF n = 0 THEN q ELSE PushBack(F[n - 1], entry(Entries[n]), Entries[n] \in open)]
<1>8. ProjectIndex(q, open) = PushBack((CHOOSE F : Eq(F))[N], Request(None, "Background"), FALSE)
  BY DEF ProjectIndex, N
<1>9. (CHOOSE F : Eq(F)) = f
  <2>1. Eq(f)
    <3>1. \A n \in 0..N : n /= 0 => n \in 1..N
      BY <1>1
    <3> HIDE DEF entry
    <3>2. \A n \in 0..N : f[n] = IF n = 0 THEN q ELSE more(f[n - 1], Entries[n])
      BY <1>7, <3>1
    <3> QED
      BY <1>7, <3>2
  <2>2. ASSUME NEW g, Eq(g) PROVE g = f
    <3> HIDE DEF entry
    <3>1. g[0] = q /\ \A n \in 1..N : g[n] = more(g[n - 1], Entries[n])
      <4>1. 0 \in 0..N /\ \A n \in 1..N : n \in 0..N /\ n /= 0
        BY <1>1
      <4> QED
        BY <2>2, <4>1
    <3> DEFINE E == {n \in 0..N : g[n] = f[n]}
    <3>2. 0 \in E
      BY <1>1, <1>7, <3>1
    <3>3. ASSUME NEW n \in 1..N, n - 1 \in E PROVE n \in E
      <4>1. g[n - 1] = f[n - 1] /\ n \in 0..N
        BY <1>1, <3>3
      <4> HIDE DEF more
      <4> QED
        BY <1>7, <3>1, <4>1
    <3> HIDE DEF E
    <3>4. \A n \in 0..N : n \in E
      BY <1>1, <3>2, <3>3, UpToInduct
    <3>5. \A n \in 0..N : g[n] = f[n]
      BY <3>4 DEF E
    <3>6. g = [n \in 0..N |-> g[n]] /\ f = [n \in 0..N |-> f[n]]
      BY <1>7, <2>2
    <3> QED
      BY <3>5, <3>6
  <2> HIDE DEF Eq
  <2> QED
    BY <2>1, <2>2
<1> HIDE DEF Eq
<1> DEFINE E == {n \in 0..N : /\ Counted(f[n]) = Counted(q) + n
                              /\ open = {} => f[n].priority_ = q.priority_}
<1>10. 0 \in E
  <2>1. Counted(q) \in Nat
    BY CountedType
  <2> QED
    BY <1>1, <1>7, <2>1
<1>11. ASSUME NEW n \in 1..N, n - 1 \in E PROVE n \in E
  <2>1. /\ n \in 0..N /\ n - 1 \in 0..N /\ Counted(f[n - 1]) = Counted(q) + (n - 1)
        /\ open = {} => f[n - 1].priority_ = q.priority_
    BY <1>1, <1>11
  <2>2. f[n - 1] \in T /\ Entries[n] \in Paths
    BY <1>1, <1>7, <2>1
  <2>3. Counted(q) \in Nat
    BY CountedType
  <2> HIDE DEF more
  <2>4. /\ Counted(f[n]) = Counted(f[n - 1]) + 1
        /\ open = {} => f[n].priority_ = f[n - 1].priority_
    BY <1>2, <1>7, <2>2
  <2>5. Counted(f[n]) = Counted(q) + n
    BY <2>1, <2>3, <2>4
  <2> QED
    BY <2>1, <2>4, <2>5
<1> HIDE DEF E
<1>12. \A n \in 0..N : n \in E
  BY <1>1, <1>10, <1>11, UpToInduct
<1>13. /\ N \in E /\ f[N] \in RequestQueues
  BY <1>1, <1>7, <1>12 DEF T
<1>14. /\ f[N] \in RequestQueues /\ Counted(f[N]) = Counted(q) + N
       /\ open = {} => f[N].priority_ = q.priority_
  BY <1>13 DEF E
<1>15. ProjectIndex(q, open) = PushBack(f[N], Request(None, "Background"), FALSE)
  BY <1>8, <1>9
<1>16. None \notin Paths
  BY NoneAssumption
<1> DEFINE p == f[N]
           r == PushBack(p, Request(None, "Background"), FALSE)
<1>17. p \in RequestQueues
  BY <1>14
<1> HIDE DEF p
<1>18. r \in RequestQueues /\ r.priority_ = p.priority_ /\ Counted(r) = Counted(p)
  BY <1>16, <1>17, PushBackground
<1> HIDE DEF r
<1> QED
  BY <1>14, <1>15, <1>18 DEF N, p, r

\* What is taken from a queue, and what is left of it.
Popped(q, r, p, A, B) ==
  \/ /\ q.priority_ /= <<>> /\ r = Head(q.priority_) /\ r \in A
     /\ p.priority_ = Tail(q.priority_) /\ p.queue_ = q.queue_
  \/ /\ q.priority_ = <<>> /\ q.queue_ /= <<>> /\ r = Head(q.queue_) /\ r \in B
     /\ p.priority_ = <<>> /\ p.queue_ = Tail(q.queue_)

LEMMA PopCases ==
  ASSUME NEW A, NEW B, NEW q \in [priority_ : Seq(A), queue_ : Seq(B)], q /= EmptyQueue
  PROVE  /\ PopFront(q) \in [priority_ : Seq(A), queue_ : Seq(B)]
         /\ Popped(q, Head(InOrder(q)), PopFront(q), A, B)
<1> DEFINE a == q.priority_
           b == q.queue_
<1>1. a \in Seq(A) /\ b \in Seq(B)
  OBVIOUS
<1>2. a /= <<>> \/ b /= <<>>
  <2>1. q = [priority_ |-> a, queue_ |-> b]
    OBVIOUS
  <2> QED
    BY <2>1 DEF EmptyQueue
<1>3. CASE a /= <<>>
  <2>1. PopFront(q) = [q EXCEPT !.priority_ = Tail(@)]
    BY <1>3 DEF PopFront
  <2>2. /\ PopFront(q) \in [priority_ : Seq(A), queue_ : Seq(B)]
        /\ PopFront(q).priority_ = Tail(a) /\ PopFront(q).queue_ = b /\ Head(a) \in A
    <3>1. Tail(a) \in Seq(A) /\ Head(a) \in A
      BY <1>1, <1>3, HeadTailProperties
    <3> DEFINE t == Tail(a)
    <3>2. t \in Seq(A) /\ PopFront(q) = [q EXCEPT !.priority_ = t]
      BY <2>1, <3>1
    <3> HIDE DEF t
    <3>3. /\ PopFront(q) \in [priority_ : Seq(A), queue_ : Seq(B)]
          /\ PopFront(q).priority_ = t /\ PopFront(q).queue_ = b
      BY <3>2
    <3> QED
      BY <3>1, <3>3 DEF t
  <2>3. Head(a \o b) = Head(a)
    <3> HIDE DEF a, b
    <3>1. a \in Seq(A \cup B) /\ b \in Seq(A \cup B)
      BY <1>1, SeqMonotonic
    <3>2. Len(a) \in Nat /\ Len(a) /= 0 /\ Len(b) \in Nat
      BY <1>1, <1>3, EmptySeq, LenProperties
    <3> DEFINE c == a \o b
    <3>3. /\ c \in Seq(A \cup B) /\ Len(c) = Len(a) + Len(b)
          /\ \A i \in 1..(Len(a) + Len(b)) : c[i] = IF i <= Len(a) THEN a[i] ELSE b[i - Len(a)]
      BY <3>1, ConcatProperties
    <3> HIDE DEF c
    <3>4. 1 \in 1..(Len(a) + Len(b)) /\ 1 <= Len(a)
      BY <3>2
    <3>5. c[1] = a[1] /\ c /= <<>>
      BY <3>2, <3>3, <3>4
    <3>6. Head(c) = c[1] /\ Head(a) = a[1]
      BY <1>1, <1>3, <3>3, <3>5
    <3> QED
      BY <3>5, <3>6 DEF c
  <2> QED
    BY <1>3, <2>2, <2>3 DEF InOrder, Popped
<1>4. CASE a = <<>> /\ b /= <<>>
  <2>1. PopFront(q) = [q EXCEPT !.queue_ = Tail(@)]
    BY <1>4 DEF PopFront
  <2>2. /\ PopFront(q) \in [priority_ : Seq(A), queue_ : Seq(B)]
        /\ PopFront(q).priority_ = <<>> /\ PopFront(q).queue_ = Tail(b) /\ Head(b) \in B
    <3>1. Tail(b) \in Seq(B) /\ Head(b) \in B
      BY <1>1, <1>4, HeadTailProperties
    <3> DEFINE t == Tail(b)
    <3>2. t \in Seq(B) /\ PopFront(q) = [q EXCEPT !.queue_ = t]
      BY <2>1, <3>1
    <3> HIDE DEF t
    <3>3. /\ PopFront(q) \in [priority_ : Seq(A), queue_ : Seq(B)]
          /\ PopFront(q).priority_ = a /\ PopFront(q).queue_ = t
      BY <3>2
    <3> QED
      BY <1>4, <3>1, <3>3 DEF t
  <2>3. a \o b = b
    BY <1>1, <1>4, ConcatEmptySeq
  <2> QED
    BY <1>4, <2>2, <2>3 DEF InOrder, Popped
<1> QED
  BY <1>2, <1>3, <1>4

\* A request taken from the queue.
LEMMA PopRequest ==
  ASSUME NEW q \in RequestQueues, q /= EmptyQueue
  PROVE  LET r == Head(InOrder(q))
         IN /\ PopFront(q) \in RequestQueues
            /\ \/ r \in UrgentRequests /\ q.priority_ /= <<>>
               \/ r \in BackgroundRequests /\ q.queue_ /= <<>>
            /\ Counted(q) = IF r.path \in Paths THEN Counted(PopFront(q)) + 1
                            ELSE Counted(PopFront(q))
            /\ q.priority_ = <<>> => PopFront(q).priority_ = <<>>
            /\ q.queue_ = <<>> => PopFront(q).queue_ = <<>>
<1> DEFINE r == Head(InOrder(q))
           p == PopFront(q)
<1>1. /\ p \in RequestQueues
      /\ \/ /\ q.priority_ /= <<>> /\ r = Head(q.priority_) /\ r \in UrgentRequests
            /\ p.priority_ = Tail(q.priority_) /\ p.queue_ = q.queue_
         \/ /\ q.priority_ = <<>> /\ q.queue_ /= <<>>
            /\ r = Head(q.queue_) /\ r \in BackgroundRequests
            /\ p.priority_ = <<>> /\ p.queue_ = Tail(q.queue_)
  <2>1. q \in [priority_ : Seq(UrgentRequests), queue_ : Seq(BackgroundRequests)]
    BY DEF RequestQueues
  <2>2. /\ p \in [priority_ : Seq(UrgentRequests), queue_ : Seq(BackgroundRequests)]
        /\ Popped(q, r, p, UrgentRequests, BackgroundRequests)
    BY <2>1, PopCases
  <2> HIDE DEF r, p
  <2> QED
    BY <2>2 DEF RequestQueues, Popped
<1> HIDE DEF r, p
<1>2. /\ q.priority_ \in Seq(UrgentRequests) /\ q.queue_ \in Seq(BackgroundRequests)
  BY DEF RequestQueues
<1> DEFINE a == OfPaths(q.priority_, Paths)
           b == OfPaths(q.queue_, Paths)
           c == OfPaths(p.priority_, Paths)
           d == OfPaths(p.queue_, Paths)
<1>3. Counted(q) = Len(a) + Len(b) /\ Counted(p) = Len(c) + Len(d)
  BY DEF Counted
<1>4. Len(a) \in Nat /\ Len(b) \in Nat /\ Len(c) \in Nat /\ Len(d) \in Nat
  <2>1. p.priority_ \in Seq(UrgentRequests) /\ p.queue_ \in Seq(BackgroundRequests)
    BY <1>1 DEF RequestQueues
  <2>2. /\ a \in Seq(UrgentRequests) /\ b \in Seq(BackgroundRequests)
        /\ c \in Seq(UrgentRequests) /\ d \in Seq(BackgroundRequests)
    BY <1>2, <2>1, OfPathsType
  <2> QED
    BY <2>2, LenProperties
<1>5. CASE /\ q.priority_ /= <<>> /\ r = Head(q.priority_) /\ r \in UrgentRequests
           /\ p.priority_ = Tail(q.priority_) /\ p.queue_ = q.queue_
  <2>1. IF r.path \in Paths THEN Len(c) = Len(a) - 1 ELSE c = a
    BY <1>2, <1>5, OfPathsTail
  <2>2. d = b
    BY <1>5
  <2> HIDE DEF a, b, c, d
  <2>3. Counted(q) = IF r.path \in Paths THEN Counted(p) + 1 ELSE Counted(p)
    BY <1>3, <1>4, <2>1, <2>2
  <2> QED
    BY <1>1, <1>5, <2>3 DEF r, p
<1>6. CASE /\ q.priority_ = <<>> /\ q.queue_ /= <<>>
           /\ r = Head(q.queue_) /\ r \in BackgroundRequests
           /\ p.priority_ = <<>> /\ p.queue_ = Tail(q.queue_)
  <2>1. IF r.path \in Paths THEN Len(d) = Len(b) - 1 ELSE d = b
    BY <1>2, <1>6, OfPathsTail
  <2>2. c = a
    BY <1>6
  <2> HIDE DEF a, b, c, d
  <2>3. Counted(q) = IF r.path \in Paths THEN Counted(p) + 1 ELSE Counted(p)
    BY <1>3, <1>4, <2>1, <2>2
  <2> QED
    BY <1>1, <1>6, <2>3 DEF r, p
<1> QED
  BY <1>1, <1>5, <1>6

----------------------------------------------------------------------------
(* Types *)

AnyFile == UNION {Files(D) : D \in SUBSET Paths}
Seen == UNION {[D -> Stamps] : D \in SUBSET Paths}
Locals ==
  [path : Paths \cup {None}, urgent : BOOLEAN, deleted : BOOLEAN, reparse : 0..1,
   no_linkage : BOOLEAN, track : BOOLEAN, prev : AnyFile \cup {None},
   file : Paths \cup {None}, todo : SUBSET Paths, seen : Seen, indexes : SUBSET Paths]
UpdateQueues == [priority_ : Seq(Updates), queue_ : Seq(Updates)]

\* The locals j of an indexer that is at step `at': a request it works on is for a
\* file that matched; what it loads is there; and every file of which it makes an
\* index was read, unless the source is deleted.
JobAt(at, j) ==
  /\ at /= "idle" => j.path \in Matched
  /\ at \in {"load", "deps", "depload"} => j.prev /= None
  /\ at \in {"stamp", "cache"} => j.indexes = {}
  /\ at \in {"deps", "depload"} => j.todo \subseteq DOMAIN j.prev.dependencies
  /\ at \in {"load", "depload", "push"} => j.file \in Paths
  /\ at = "see" => ~j.deleted
  /\ at \in {"see", "store", "push"} /\ ~j.deleted => j.indexes \subseteq DOMAIN j.seen
  /\ at = "push" /\ ~j.deleted => j.file \in DOMAIN j.seen

JobInv == \A i \in Indexers : JobAt(pc[i], job[i])

Types ==
  /\ clock \in Nat /\ revision \in Revs
  /\ disk \in [Paths -> Stamps \cup {None}]
  /\ index_request \in RequestQueues /\ on_indexed \in UpdateQueues
  /\ vfs \in [Paths -> [timestamp : Nat, step : 0..3, loaded : Nat]]
  /\ cache \in [Paths -> AnyFile \cup {None}] /\ g_index \in [Paths -> AnyFile \cup {None}]
  /\ db \in [Paths -> Shares]
  /\ pc \in [Indexers -> Steps] /\ job \in [Indexers -> Locals]
  /\ enqueued \in Nat /\ completed \in Nat /\ requests \in Nat /\ reloads \in Nat
  /\ unsaved \subseteq Paths
  /\ JobInv

LEMMA FilesAre ==
  ASSUME NEW D \in SUBSET Paths
  PROVE  Files(D) \subseteq AnyFile
  BY DEF AnyFile

LEMMA LocalsAre ==
  ASSUME NEW j \in Locals
  PROVE  \E D, E \in SUBSET Paths : j \in Jobs(D, E)
<1>1. PICK D \in SUBSET Paths : j.seen \in [D -> Stamps]
  BY DEF Locals, Seen
<1>2. PICK E \in SUBSET Paths : j.prev \in Files(E) \cup {None}
  BY DEF Locals, AnyFile
<1>3. j \in Jobs(D, E)
  BY <1>1, <1>2 DEF Locals, Jobs
<1> QED
  BY <1>3

LEMMA TypesSuffice == Types => TypeOK
<1> SUFFICES ASSUME Types PROVE TypeOK
  OBVIOUS
<1>1. \A i \in Indexers : \E D, E \in SUBSET Paths : job[i] \in Jobs(D, E)
  BY LocalsAre DEF Types
<1>2. ASSUME NEW p \in Paths
      PROVE  \E D, E \in SUBSET Paths :
               cache[p] \in Files(D) \cup {None} /\ g_index[p] \in Files(E) \cup {None}
  <2>1. cache[p] \in AnyFile \cup {None} /\ g_index[p] \in AnyFile \cup {None}
    BY DEF Types
  <2>2. PICK D \in SUBSET Paths : cache[p] \in Files(D) \cup {None}
    BY <2>1 DEF AnyFile
  <2>3. PICK E \in SUBSET Paths : g_index[p] \in Files(E) \cup {None}
    BY <2>1 DEF AnyFile
  <2> QED
    BY <2>2, <2>3
<1>3. DOMAIN cache = Paths /\ DOMAIN g_index = Paths /\ DOMAIN job = Indexers
  BY DEF Types
<1>4. /\ index_request \in [priority_ : Seq([path : Paths, mode : {"Normal", "Delete"}]),
                            queue_ : Seq([path : Paths \cup {None}, mode : {"Background"}])]
      /\ on_indexed \in [priority_ : Seq(Updates), queue_ : Seq(Updates)]
  BY DEF Types, RequestQueues, UrgentRequests, BackgroundRequests, UpdateQueues
<1>5. /\ clock \in Nat /\ revision \in Revs /\ disk \in [Paths -> Stamps \cup {None}]
      /\ vfs \in [Paths -> [timestamp : Nat, step : 0..3, loaded : Nat]]
      /\ db \in [Paths -> Shares] /\ pc \in [Indexers -> Steps] /\ unsaved \subseteq Paths
      /\ {enqueued, completed, requests, reloads} \subseteq Nat
  BY DEF Types
<1> QED
  BY <1>1, <1>2, <1>3, <1>4, <1>5 DEF TypeOK

\* Index files.
LEMMA IndexTyped ==
  ASSUME NEW mtime \in Nat, NEW rev \in Revs \cup {None}, NEW nl \in BOOLEAN,
         NEW D \in SUBSET Paths, NEW deps \in [D -> Nat]
  PROVE  /\ IndexOf(mtime, rev, nl, deps) \in AnyFile
         /\ ContentOf(IndexOf(mtime, rev, nl, deps)) \in Contents \cup {None}
<1> DEFINE f == IndexOf(mtime, rev, nl, deps)
<1>1. f \in Files(D)
  BY DEF IndexOf, Files
<1>2. f.rev = rev /\ f.no_linkage = nl
  BY DEF IndexOf
<1> HIDE DEF f
<1>3. ContentOf(f) \in Contents \cup {None}
  BY <1>2 DEF ContentOf, Contents
<1> QED
  BY <1>1, <1>3, FilesAre DEF f

LEMMA FileFacts ==
  ASSUME NEW f \in AnyFile
  PROVE  /\ f.mtime \in Nat /\ f.rev \in Revs \cup {None} /\ f.no_linkage \in BOOLEAN
         /\ DOMAIN f.dependencies \subseteq Paths
         /\ \A d \in DOMAIN f.dependencies : f.dependencies[d] \in Nat
<1>1. PICK D \in SUBSET Paths : f \in Files(D)
  BY DEF AnyFile
<1> QED
  BY <1>1 DEF Files

LEMMA ContentTyped ==
  ASSUME NEW f \in AnyFile \cup {None}
  PROVE  ContentOf(f) \in Contents \cup {None}
<1>1. CASE f = None
  BY <1>1 DEF ContentOf
<1>2. CASE f \in AnyFile
  <2>1. f.rev \in Revs \cup {None} /\ f.no_linkage \in BOOLEAN
    BY <1>2, FileFacts
  <2> QED
    BY <2>1 DEF ContentOf, Contents
<1> QED
  BY <1>1, <1>2

LEMMA EmptyTyped ==
  /\ EmptyIndex \in AnyFile /\ ContentOf(EmptyIndex) = None
  /\ NoJob \in Locals /\ JobAt("idle", NoJob)
<1>1. <<>> \in [{} -> Nat] /\ <<>> \in [{} -> Stamps] /\ DOMAIN <<>> = {}
  OBVIOUS
<1>2. EmptyIndex \in AnyFile
  BY <1>1, IndexTyped DEF EmptyIndex
<1>3. ContentOf(EmptyIndex) = None
  BY DEF ContentOf, EmptyIndex, IndexOf
<1>4. <<>> \in Seen
  BY <1>1 DEF Seen
<1> DEFINE e == <<>>
<1>5. e \in Seen
  BY <1>4
<1> HIDE DEF e
<1>6. [path |-> None, urgent |-> FALSE, deleted |-> FALSE, reparse |-> 0,
       no_linkage |-> FALSE, track |-> FALSE, prev |-> None, file |-> None,
       todo |-> {}, seen |-> e, indexes |-> {}] \in Locals
  BY <1>5 DEF Locals
<1>7. NoJob \in Locals
  BY <1>6 DEF NoJob, e
<1>8. JobAt("idle", NoJob)
  BY DEF JobAt
<1> QED
  BY <1>2, <1>3, <1>7, <1>8

LEMMA InitTypes == Init => Types
<1> SUFFICES ASSUME Init PROVE Types
  OBVIOUS
<1>1. /\ clock \in Nat /\ revision \in Revs /\ disk \in [Paths -> Stamps \cup {None}]
  <2>1. 1 \in Revs
    BY RevAssumption DEF Revs
  <2>2. [mtime |-> 2, rev |-> 1] \in Stamps
    BY <2>1 DEF Stamps
  <2>3. disk = [p \in Paths |-> [mtime |-> 2, rev |-> 1]] /\ clock = 2 /\ revision = 1
    BY DEF Init
  <2> QED
    BY <2>1, <2>2, <2>3
<1>2. EmptyQueue \in RequestQueues /\ EmptyQueue \in UpdateQueues
  BY DEF EmptyQueue, RequestQueues, UpdateQueues
<1>3. index_request \in RequestQueues /\ on_indexed \in UpdateQueues
  BY <1>2, ProjectIndexed DEF Init
<1>4. vfs \in [Paths -> [timestamp : Nat, step : 0..3, loaded : Nat]]
  <2>1. NeverSeen \in [timestamp : Nat, step : 0..3, loaded : Nat]
    BY DEF NeverSeen
  <2>2. vfs = [p \in Paths |-> NeverSeen]
    BY DEF Init
  <2> QED
    BY <2>1, <2>2
<1>5. cache \in [Paths -> AnyFile \cup {None}] /\ g_index \in [Paths -> AnyFile \cup {None}]
  <2>1. PICK age \in [Paths -> IF CacheDirectory THEN 0..2 ELSE {0}], nl \in BOOLEAN :
          cache = [p \in Paths |->
            IF age[p] = 0 THEN None
            ELSE IndexOf(age[p], age[p] - 1, nl, [d \in Includes[p] |-> age[d]])]
    BY DEF Init
  <2>2. \A p \in Paths : age[p] \in 0..2
    OBVIOUS
  <2>3. ASSUME NEW p \in Paths, age[p] /= 0
        PROVE  IndexOf(age[p], age[p] - 1, nl, [d \in Includes[p] |-> age[d]]) \in AnyFile
    <3>1. age[p] \in Nat /\ age[p] - 1 \in Revs \cup {None}
      BY <2>2, <2>3, RevAssumption DEF Revs
    <3>2. Includes[p] \in SUBSET Paths
      BY PipelineAssumption
    <3>3. [d \in Includes[p] |-> age[d]] \in [Includes[p] -> Nat]
      BY <2>2, <3>2
    <3> QED
      BY <3>1, <3>2, <3>3, IndexTyped
  <2>4. cache \in [Paths -> AnyFile \cup {None}]
    <3>1. \A p \in Paths : cache[p] \in AnyFile \cup {None}
      BY <2>1, <2>3
    <3> QED
      BY <2>1, <3>1
  <2> QED
    BY <2>4 DEF Init
<1>6. db \in [Paths -> Shares]
  <2>1. NotIndexed \in Shares
    BY DEF NotIndexed, Shares
  <2> QED
    BY <2>1 DEF Init
<1>7. pc \in [Indexers -> Steps] /\ job \in [Indexers -> Locals]
  BY EmptyTyped DEF Init, Steps
<1>8. enqueued \in Nat /\ completed \in Nat /\ requests \in Nat /\ reloads \in Nat
  <2>1. Len(Entries) \in Nat
    BY PipelineAssumption, LenProperties
  <2>2. enqueued = Len(Entries) /\ completed = 0 /\ requests = 0 /\ reloads = 0
    BY DEF Init
  <2> QED
    BY <2>1, <2>2
<1>9. unsaved \subseteq Paths
  BY DEF Init
<1>10. JobInv
  BY EmptyTyped DEF Init, JobInv
<1> QED
  BY <1>1, <1>3, <1>4, <1>5, <1>6, <1>7, <1>8, <1>9, <1>10 DEF Types

\* The step of one indexer leaves the others where they are.
Moves(i, at, j) ==
  pc' = [pc EXCEPT ![i] = at] /\ job' = [job EXCEPT ![i] = j]

LEMMA MovesTyped ==
  ASSUME Types, NEW i \in Indexers, NEW at \in Steps, NEW j \in Locals,
         Moves(i, at, j), JobAt(at, j)
  PROVE  /\ pc' \in [Indexers -> Steps] /\ job' \in [Indexers -> Locals] /\ JobInv'
         /\ pc'[i] = at /\ job'[i] = j
         /\ \A k \in Indexers \ {i} : pc'[k] = pc[k] /\ job'[k] = job[k]
<1>1. pc \in [Indexers -> Steps] /\ job \in [Indexers -> Locals] /\ JobInv
  BY DEF Types
<1>2. /\ pc' \in [Indexers -> Steps] /\ job' \in [Indexers -> Locals]
      /\ pc'[i] = at /\ job'[i] = j
      /\ \A k \in Indexers \ {i} : pc'[k] = pc[k] /\ job'[k] = job[k]
  BY <1>1 DEF Moves
<1>3. ASSUME NEW k \in Indexers PROVE JobAt(pc'[k], job'[k])
  BY <1>1, <1>2 DEF JobInv
<1> QED
  BY <1>2, <1>3 DEF JobInv

\* What every step of an indexer but the store and the loads keeps.
LEMMA MoveTypes ==
  ASSUME Types, NEW i \in Indexers, NEW at \in Steps, NEW j \in Locals,
         Moves(i, at, j), JobAt(at, j), Unchanged, completed' \in Nat,
         index_request' \in RequestQueues, on_indexed' \in UpdateQueues,
         vfs' \in [Paths -> [timestamp : Nat, step : 0..3, loaded : Nat]],
         cache' \in [Paths -> AnyFile \cup {None}], g_index' \in [Paths -> AnyFile \cup {None}]
  PROVE  Types'
<1>1. pc' \in [Indexers -> Steps] /\ job' \in [Indexers -> Locals] /\ JobInv'
  BY MovesTyped
<1>2. UNCHANGED <<disk, clock, revision, db, enqueued, requests, reloads, unsaved>>
  BY DEF Unchanged, fileVars, clientVars
<1> QED
  BY <1>1, <1>2 DEF Types

VFSs == [Paths -> [timestamp : Nat, step : 0..3, loaded : Nat]]

\* An indexer goes on with its request or is done with it.
Goes(i, at, j) ==
  /\ Moves(i, at, j) /\ JobAt(at, j)
  /\ IF at = "idle" THEN completed' = completed + 1
                    ELSE completed' = completed /\ j.urgent = job[i].urgent

\* A step of an indexer at work that neither takes nor gives up a file's mutex and
\* sends nothing.
Plain(i, at, j) ==
  /\ pc[i] \notin {"idle", "load", "push"} /\ at \in Steps \ {"load", "push"}
  /\ j \in Locals /\ Goes(i, at, j)
  /\ Unchanged /\ UNCHANGED <<index_request, on_indexed, cache, g_index>>
  /\ vfs' \in VFSs /\ \A p \in Paths : vfs'[p].loaded = vfs[p].loaded

LEMMA PushUpdate ==
  ASSUME NEW q \in UpdateQueues, NEW u \in Updates, NEW b \in BOOLEAN
  PROVE  PushBack(q, u, b) \in UpdateQueues
<1>1. q.priority_ \in Seq(Updates) /\ q.queue_ \in Seq(Updates)
  BY DEF UpdateQueues
<1>2. Append(q.priority_, u) \in Seq(Updates) /\ Append(q.queue_, u) \in Seq(Updates)
  BY <1>1, AppendProperties
<1>3. PushBack(q, u, b) = [q EXCEPT !.priority_ = Append(@, u)]
      \/ PushBack(q, u, b) = [q EXCEPT !.queue_ = Append(@, u)]
  BY DEF PushBack
<1> QED
  BY <1>1, <1>2, <1>3 DEF UpdateQueues

LEMMA DeltaTyped ==
  ASSUME NEW p \in Paths, NEW f, NEW g, ContentOf(f) \in Contents \cup {None},
         ContentOf(g) \in Contents \cup {None}
  PROVE  /\ createDelta(p, f, g) \in Updates
         /\ createDelta(p, f, g).path = p /\ createDelta(p, f, g).prev = ContentOf(f)
         /\ createDelta(p, f, g).curr = ContentOf(g)
  BY DEF createDelta, Updates

LEMMA RefreshTyped ==
  RefreshUpdate \in Updates /\ RefreshUpdate.path = None
  BY DEF RefreshUpdate, Updates

\* rawCacheLoad finds an index file or nothing.
LEMMA RawTyped ==
  ASSUME Types, NEW p \in Paths
  PROVE  rawCacheLoad(p) \in AnyFile \cup {None}
  BY DEF Types, rawCacheLoad

\* What stamp() leaves of an entry of the VFS.
LEMMA StampTyped ==
  ASSUME NEW st \in [timestamp : Nat, step : 0..3, loaded : Nat], NEW ts \in Nat, NEW n \in 0..3
  PROVE  /\ Stamped(st, ts, n) \in [timestamp : Nat, step : 0..3, loaded : Nat]
         /\ Stamped(st, ts, n).loaded = st.loaded
  BY DEF Stamped

\* Where an indexer that starts to parse goes.
LEMMA StartParseMoves ==
  ASSUME NEW i \in Indexers, NEW j \in Locals, j.path \in Matched, j.indexes = {},
         StartParse(i, j)
  PROVE  \E at \in {"see", "store"}, k \in Locals :
           /\ Moves(i, at, k) /\ JobAt(at, k) /\ completed' = completed
           /\ k.urgent = j.urgent
<1>p. Matched \subseteq Paths
  BY PipelineAssumption
<1>1. CASE j.deleted
  <2> DEFINE k == [j EXCEPT !.indexes = {j.path}]
  <2>1. Moves(i, "store", k) /\ completed' = completed
    BY <1>1 DEF StartParse, Step, Goto, Moves
  <2>2. k \in Locals /\ k.deleted = j.deleted /\ k.path = j.path /\ k.urgent = j.urgent
    BY <1>p DEF Locals
  <2> HIDE DEF k
  <2>3. JobAt("store", k)
    BY <1>1, <2>2 DEF JobAt
  <2> QED
    BY <2>1, <2>2, <2>3
<1>2. CASE ~j.deleted
  <2> DEFINE k == [j EXCEPT !.todo = {j.path}]
  <2>1. Moves(i, "see", k) /\ completed' = completed
    BY <1>2 DEF StartParse, Step, Goto, Moves
  <2>2. /\ k \in Locals /\ k.deleted = j.deleted /\ k.path = j.path /\ k.urgent = j.urgent
        /\ k.indexes = {}
    BY <1>p DEF Locals
  <2> HIDE DEF k
  <2>3. JobAt("see", k)
    BY <1>2, <2>2 DEF JobAt
  <2> QED
    BY <2>1, <2>2, <2>3
<1> QED
  BY <1>1, <1>2

LEMMA FinishGoes ==
  ASSUME NEW i, Finish(i)
  PROVE  Goes(i, "idle", NoJob)
  BY EmptyTyped DEF Finish, Goto, Goes, Moves

LEMMA StepGoes ==
  ASSUME NEW i, NEW at \in Steps, NEW j, Step(i, at, j), at /= "idle", JobAt(at, j),
         j.urgent = job[i].urgent
  PROVE  Goes(i, at, j)
  BY DEF Step, Goto, Goes, Moves

\* What Types says of one file and of one indexer.
LEMMA TypesOf ==
  ASSUME Types
  PROVE  /\ \A p \in Paths : vfs[p] \in [timestamp : Nat, step : 0..3, loaded : Nat]
         /\ \A p \in Paths : disk[p] \in Stamps \cup {None}
         /\ \A i \in Indexers : pc[i] \in Steps /\ job[i] \in Locals /\ JobAt(pc[i], job[i])
         /\ Matched \subseteq Paths /\ vfs \in VFSs
  BY PipelineAssumption DEF Types, JobInv, VFSs

LEMMA SameLoaded ==
  ASSUME Types, UNCHANGED vfs
  PROVE  vfs' \in VFSs /\ \A p \in Paths : vfs'[p].loaded = vfs[p].loaded
  BY TypesOf

\* Stamping one file changes no count.
LEMMA StampSame ==
  ASSUME Types, NEW p \in Paths, NEW ts \in Nat, NEW n \in 0..3,
         vfs' = [vfs EXCEPT ![p] = Stamped(@, ts, n)]
  PROVE  vfs' \in VFSs /\ \A q \in Paths : vfs'[q].loaded = vfs[q].loaded
<1>1. vfs \in VFSs
  BY TypesOf
<1> DEFINE x == Stamped(vfs[p], ts, n)
<1>2. x \in [timestamp : Nat, step : 0..3, loaded : Nat] /\ x.loaded = vfs[p].loaded
  BY TypesOf, StampTyped
<1>3. vfs' = [vfs EXCEPT ![p] = x]
  BY <1>1
<1> HIDE DEF x
<1> QED
  BY <1>1, <1>2, <1>3 DEF VFSs

LEMMA StampPlain ==
  ASSUME Types, NEW i \in Indexers, Stamp(i)
  PROVE  \E at, j : Plain(i, at, j)
<1> DEFINE p == job[i].path
           there == disk[p] /= None
           n == IF job[i].no_linkage THEN 2 ELSE 0
           wins == there /\ Newer(vfs[p], disk[p].mtime, n)
<1>1. /\ pc[i] = "stamp" /\ p \in Matched /\ job[i] \in Locals /\ job[i].indexes = {}
      /\ Matched \subseteq Paths
  BY TypesOf DEF Stamp, JobAt
<1>2. vfs' \in VFSs /\ \A q \in Paths : vfs'[q].loaded = vfs[q].loaded
  <2>1. CASE there
    <3>1. vfs' = [vfs EXCEPT ![p] = Stamped(@, disk[p].mtime, n)]
      BY <2>1 DEF Stamp
    <3>2. disk[p].mtime \in Nat /\ n \in 0..3
      BY <1>1, <2>1, TypesOf DEF Stamps
    <3> HIDE DEF p, n
    <3> QED
      BY <1>1, <3>1, <3>2, StampSame
  <2>2. CASE ~there
    BY <2>2, SameLoaded DEF Stamp
  <2> QED
    BY <2>1, <2>2
<1>3. Unchanged /\ UNCHANGED <<index_request, on_indexed, cache, g_index>>
  BY DEF Stamp
<1> DEFINE j == [job[i] EXCEPT !.deleted = ~there, !.reparse = IF wins THEN 1 ELSE 0]
<1>4. Step(i, "cache", j) \/ Finish(i)
  BY DEF Stamp
<1>5. CASE Step(i, "cache", j)
  <2>1. j \in Locals /\ j.path = p /\ j.urgent = job[i].urgent /\ j.indexes = {}
    <3> DEFINE a == ~there
               b == IF wins THEN 1 ELSE 0
    <3>1. a \in BOOLEAN /\ b \in 0..1
      OBVIOUS
    <3>2. j = [job[i] EXCEPT !.deleted = a, !.reparse = b]
      OBVIOUS
    <3> HIDE DEF a, b, j, p
    <3> QED
      BY <1>1, <3>1, <3>2 DEF Locals, p
  <2> HIDE DEF j
  <2>2. JobAt("cache", j)
    BY <1>1, <2>1 DEF JobAt
  <2>3. Goes(i, "cache", j)
    BY <1>5, <2>1, <2>2, StepGoes DEF Steps
  <2>4. Plain(i, "cache", j)
    BY <1>1, <1>2, <1>3, <2>1, <2>3 DEF Plain, Steps
  <2> QED
    BY <2>4
<1>6. CASE Finish(i)
  <2>1. Plain(i, "idle", NoJob)
    BY <1>1, <1>2, <1>3, <1>6, FinishGoes, EmptyTyped DEF Plain, Steps
  <2> QED
    BY <2>1
<1> QED
  BY <1>4, <1>5, <1>6

\* An indexer takes the mutex of a file to load its index from the cache.
ToLoad(i, j) ==
  /\ pc[i] = "cache" /\ j \in Locals /\ Goes(i, "load", j)
  /\ j.file = j.path /\ FileMutexFree(j.file) /\ vfs[j.file].loaded = 0
  /\ j.prev = rawCacheLoad(j.file)
  /\ Unchanged /\ UNCHANGED <<index_request, on_indexed, cache, g_index, vfs>>

LEMMA CacheCheckPlain ==
  ASSUME Types, NEW i \in Indexers, CacheCheck(i)
  PROVE  (\E at, j : Plain(i, at, j)) \/ (\E j : ToLoad(i, j))
<1> DEFINE p == job[i].path
           prev == rawCacheLoad(p)
           j == [job[i] EXCEPT !.prev = prev, !.file = p]
<1>1. /\ pc[i] = "cache" /\ p \in Matched /\ job[i] \in Locals /\ job[i].indexes = {}
      /\ Matched \subseteq Paths /\ vfs[p].loaded \in Nat
  BY TypesOf DEF CacheCheck, JobAt
<1>2. Unchanged /\ UNCHANGED <<index_request, on_indexed, cache, g_index, vfs>>
  BY DEF CacheCheck, storeVars
<1>3. vfs' \in VFSs /\ \A q \in Paths : vfs'[q].loaded = vfs[q].loaded
  BY <1>2, SameLoaded
<1>4. \/ StartParse(i, job[i])
      \/ Finish(i)
      \/ Step(i, "load", j) /\ ~(vfs[p].loaded > 0) /\ FileMutexFree(p) /\ prev /= None
  BY DEF CacheCheck
<1>5. CASE StartParse(i, job[i])
  <2>1. PICK at \in {"see", "store"}, k \in Locals :
          /\ Moves(i, at, k) /\ JobAt(at, k) /\ completed' = completed
          /\ k.urgent = job[i].urgent
    BY <1>1, <1>5, StartParseMoves
  <2>2. Goes(i, at, k)
    BY <2>1 DEF Goes
  <2>3. Plain(i, at, k)
    BY <1>1, <1>2, <1>3, <2>1, <2>2 DEF Plain, Steps
  <2> QED
    BY <2>3
<1>6. CASE Finish(i)
  <2>1. Plain(i, "idle", NoJob)
    BY <1>1, <1>2, <1>3, <1>6, FinishGoes, EmptyTyped DEF Plain, Steps
  <2> QED
    BY <2>1
<1>7. CASE Step(i, "load", j) /\ ~(vfs[p].loaded > 0) /\ FileMutexFree(p) /\ prev /= None
  <2>1. prev \in AnyFile /\ p \in Paths
    BY <1>1, <1>7, RawTyped
  <2>2. /\ j \in Locals /\ j.path = p /\ j.file = p /\ j.prev = prev
        /\ j.urgent = job[i].urgent
    <3> HIDE DEF prev
    <3> QED
      BY <1>1, <2>1 DEF Locals
  <2> HIDE DEF j
  <2>3. JobAt("load", j)
    BY <1>1, <1>7, <2>1, <2>2 DEF JobAt
  <2>4. Goes(i, "load", j)
    BY <1>7, <2>2, <2>3, StepGoes DEF Steps
  <2>5. vfs[p].loaded = 0
    BY <1>1, <1>7
  <2>6. ToLoad(i, j)
    BY <1>1, <1>2, <1>7, <2>2, <2>4, <2>5 DEF ToLoad
  <2> QED
    BY <2>6
<1> QED
  BY <1>4, <1>5, <1>6, <1>7

\* An indexer sends update u of file p and counts p as loaded once more.
Sends(i, at, j, p, u) ==
  /\ at \in Steps \ {"idle", "load", "push"} /\ j \in Locals /\ Goes(i, at, j)
  /\ p \in Paths /\ u \in Updates /\ u.path = p
  /\ on_indexed' = PushBack(on_indexed, u, job[i].urgent)
  /\ vfs' \in VFSs /\ vfs'[p].loaded = vfs[p].loaded + 1
  /\ \A q \in Paths \ {p} : vfs'[q].loaded = vfs[q].loaded
  /\ Unchanged /\ UNCHANGED <<index_request, cache, g_index>>

LEMMA CountLoad ==
  ASSUME NEW st \in [timestamp : Nat, step : 0..3, loaded : Nat], NEW n \in 0..3
  PROVE  LET x == [st EXCEPT !.loaded = @ + 1, !.step = n]
         IN /\ x \in [timestamp : Nat, step : 0..3, loaded : Nat]
            /\ x.loaded = st.loaded + 1
<1> DEFINE m == st.loaded + 1
<1>1. m \in Nat
  OBVIOUS
<1>2. [st EXCEPT !.loaded = @ + 1, !.step = n] = [st EXCEPT !.loaded = m, !.step = n]
  OBVIOUS
<1> HIDE DEF m
<1>3. /\ [st EXCEPT !.loaded = m, !.step = n] \in [timestamp : Nat, step : 0..3, loaded : Nat]
      /\ [st EXCEPT !.loaded = m, !.step = n].loaded = m
  BY <1>1
<1> QED
  BY <1>2, <1>3 DEF m

LEMMA CacheLoadSends ==
  ASSUME Types, NEW i \in Indexers, CacheLoad(i)
  PROVE  /\ pc[i] = "load"
         /\ \E j, u : Sends(i, "deps", j, job[i].path, u)
                      /\ u.prev = None /\ u.curr = ContentOf(job[i].prev)
<1> DEFINE p == job[i].path
           prev == job[i].prev
           j == [job[i] EXCEPT !.todo = DOMAIN prev.dependencies]
           u == createDelta(p, None, prev)
<1>1. /\ pc[i] = "load" /\ p \in Matched /\ job[i] \in Locals
      /\ prev \in AnyFile /\ prev /= None /\ Matched \subseteq Paths /\ vfs \in VFSs
  <2>1. pc[i] = "load"
    BY DEF CacheLoad
  <2>2. job[i] \in Locals /\ JobAt("load", job[i]) /\ Matched \subseteq Paths /\ vfs \in VFSs
    BY <2>1, TypesOf
  <2>3. prev \in AnyFile \cup {None} /\ prev /= None /\ p \in Matched
    BY <2>2 DEF JobAt, Locals
  <2> QED
    BY <2>1, <2>2, <2>3
<1>2. /\ on_indexed' = PushBack(on_indexed, u, job[i].urgent) /\ Step(i, "deps", j)
      /\ vfs' = [vfs EXCEPT ![p].loaded = @ + 1,
                            ![p].step = IF prev.no_linkage THEN 2 ELSE @]
      /\ Unchanged /\ UNCHANGED <<index_request, cache, g_index>>
  BY DEF CacheLoad
<1>3. u \in Updates /\ u.path = p /\ u.prev = None /\ u.curr = ContentOf(prev)
  <2>1. ContentOf(None) = None /\ ContentOf(prev) \in Contents \cup {None}
    BY <1>1, ContentTyped DEF ContentOf
  <2> QED
    BY <1>1, <2>1, DeltaTyped
<1>4. /\ j \in Locals /\ j.path = p /\ j.prev = prev /\ j.urgent = job[i].urgent
      /\ j.todo = DOMAIN prev.dependencies
  <2>1. DOMAIN prev.dependencies \subseteq Paths
    BY <1>1, FileFacts
  <2> DEFINE d == DOMAIN prev.dependencies
  <2> HIDE DEF d
  <2> QED
    BY <1>1, <2>1 DEF Locals, d
<1> HIDE DEF j, u
<1>5. vfs' \in VFSs /\ vfs'[p].loaded = vfs[p].loaded + 1
      /\ \A q \in Paths \ {p} : vfs'[q].loaded = vfs[q].loaded
  <2> DEFINE n == IF prev.no_linkage THEN 2 ELSE vfs[p].step
             x == [vfs[p] EXCEPT !.loaded = @ + 1, !.step = n]
  <2>1. vfs' = [vfs EXCEPT ![p] = x]
    <3> HIDE DEF p, prev
    <3> QED
      BY <1>1, <1>2 DEF VFSs
  <2>2. n \in 0..3
    BY <1>1 DEF VFSs
  <2> HIDE DEF n
  <2>3. vfs[p] \in [timestamp : Nat, step : 0..3, loaded : Nat]
    BY <1>1 DEF VFSs
  <2>4. x \in [timestamp : Nat, step : 0..3, loaded : Nat] /\ x.loaded = vfs[p].loaded + 1
    BY <2>2, <2>3, CountLoad
  <2> HIDE DEF x
  <2> QED
    BY <1>1, <2>1, <2>4 DEF VFSs
<1>6. JobAt("deps", j)
  BY <1>1, <1>4 DEF JobAt
<1>7. Goes(i, "deps", j)
  BY <1>2, <1>4, <1>6, StepGoes DEF Steps
<1>8. Sends(i, "deps", j, p, u)
  BY <1>1, <1>2, <1>3, <1>4, <1>5, <1>7 DEF Sends, Steps
<1> QED
  BY <1>1, <1>3, <1>8

\* A step of an indexer that sends nothing and leaves the VFS alone.
LEMMA StillPlain ==
  ASSUME Types, NEW i \in Indexers, NEW at \in Steps \ {"load", "push"}, NEW j \in Locals,
         pc[i] \notin {"idle", "load", "push"}, Goes(i, at, j),
         Unchanged, UNCHANGED <<index_request, on_indexed, storeVars>>
  PROVE  Plain(i, at, j)
<1>1. UNCHANGED <<vfs, cache, g_index, index_request, on_indexed>>
  BY DEF storeVars
<1>2. vfs' \in VFSs /\ \A p \in Paths : vfs'[p].loaded = vfs[p].loaded
  BY <1>1, SameLoaded
<1> QED
  BY <1>1, <1>2 DEF Plain

LEMMA FinishPlain ==
  ASSUME Types, NEW i \in Indexers, pc[i] \notin {"idle", "load", "push"}, Finish(i),
         Unchanged, UNCHANGED <<index_request, on_indexed, storeVars>>
  PROVE  Plain(i, "idle", NoJob)
<1>1. Goes(i, "idle", NoJob) /\ NoJob \in Locals
  BY FinishGoes, EmptyTyped
<1>2. "idle" \in Steps \ {"load", "push"}
  BY DEF Steps
<1> QED
  BY <1>1, <1>2, StillPlain

LEMMA DonePlain ==
  ASSUME Types, NEW i \in Indexers, DepsDone(i) \/ ParseFail(i) \/ StoreDone(i)
  PROVE  Plain(i, "idle", NoJob)
<1>1. /\ pc[i] \notin {"idle", "load", "push"} /\ Finish(i)
      /\ Unchanged /\ UNCHANGED <<index_request, on_indexed, storeVars>>
  BY DEF DepsDone, ParseFail, StoreDone
<1> QED
  BY <1>1, FinishPlain

LEMMA DepStampPlain ==
  ASSUME Types, NEW i \in Indexers, DepStamp(i)
  PROVE  \E at, j : Plain(i, at, j)
<1>1. /\ pc[i] = "deps" /\ job[i] \in Locals /\ JobAt("deps", job[i])
  <2>1. pc[i] = "deps"
    BY DEF DepStamp
  <2> QED
    BY <2>1, TypesOf
<1>2. PICK d \in job[i].todo :
        LET ts == job[i].prev.dependencies[d] IN
        /\ vfs' = [vfs EXCEPT ![d] = Stamped(@, ts, 1)]
        /\ \/ Step(i, "depload", [job[i] EXCEPT !.file = d, !.todo = @ \ {d}])
           \/ Step(i, "deps", [job[i] EXCEPT !.todo = @ \ {d}])
  BY DEF DepStamp
<1>3. Unchanged /\ UNCHANGED <<index_request, on_indexed, cache, g_index>>
  BY DEF DepStamp
<1> DEFINE prev == job[i].prev
           ts == prev.dependencies[d]
<1>4. /\ prev \in AnyFile /\ job[i].path \in Matched /\ job[i].todo \in SUBSET Paths
      /\ job[i].todo \subseteq DOMAIN prev.dependencies /\ prev /= None
  BY <1>1 DEF JobAt, Locals
<1>5. d \in Paths /\ ts \in Nat
  BY <1>2, <1>4, FileFacts
<1>6. vfs' \in VFSs /\ \A q \in Paths : vfs'[q].loaded = vfs[q].loaded
  <2>1. vfs' = [vfs EXCEPT ![d] = Stamped(@, ts, 1)]
    BY <1>2
  <2>2. 1 \in 0..3
    OBVIOUS
  <2> HIDE DEF ts
  <2> QED
    BY <1>5, <2>1, <2>2, StampSame
<1> DEFINE rest == job[i].todo \ {d}
<1>7. rest \in SUBSET Paths /\ rest \subseteq DOMAIN prev.dependencies
  BY <1>4
<1>8. CASE Step(i, "depload", [job[i] EXCEPT !.file = d, !.todo = @ \ {d}])
  <2> DEFINE j == [job[i] EXCEPT !.file = d, !.todo = rest]
  <2>1. Step(i, "depload", j)
    BY <1>8
  <2>2. /\ j \in Locals /\ j.path = job[i].path /\ j.prev = prev /\ j.file = d
        /\ j.todo = rest /\ j.urgent = job[i].urgent
    <3> HIDE DEF rest
    <3> QED
      BY <1>1, <1>5, <1>7 DEF Locals
  <2> HIDE DEF j, rest
  <2>3. JobAt("depload", j)
    BY <1>4, <1>5, <1>7, <2>2 DEF JobAt
  <2>4. Plain(i, "depload", j)
    BY <1>1, <1>3, <1>6, <2>1, <2>2, <2>3, StepGoes DEF Plain, Steps
  <2> QED
    BY <2>4
<1>9. CASE Step(i, "deps", [job[i] EXCEPT !.todo = @ \ {d}])
  <2> DEFINE j == [job[i] EXCEPT !.todo = rest]
  <2>1. Step(i, "deps", j)
    BY <1>9
  <2>2. /\ j \in Locals /\ j.path = job[i].path /\ j.prev = prev
        /\ j.todo = rest /\ j.urgent = job[i].urgent
    <3> HIDE DEF rest
    <3> QED
      BY <1>1, <1>7 DEF Locals
  <2> HIDE DEF j, rest
  <2>3. JobAt("deps", j)
    BY <1>4, <1>7, <2>2 DEF JobAt
  <2>4. Plain(i, "deps", j)
    BY <1>1, <1>3, <1>6, <2>1, <2>2, <2>3, StepGoes DEF Plain, Steps
  <2> QED
    BY <2>4
<1> QED
  BY <1>2, <1>8, <1>9

LEMMA DepLoadSends ==
  ASSUME Types, NEW i \in Indexers, DepLoad(i)
  PROVE  \/ \E at, j : Plain(i, at, j)
         \/ /\ pc[i] = "depload" /\ FileMutexFree(job[i].file) /\ vfs[job[i].file].loaded = 0
            /\ \E j, u : /\ Sends(i, "deps", j, job[i].file, u)
                         /\ u.prev = None /\ u.curr = ContentOf(rawCacheLoad(job[i].file))
<1> DEFINE d == job[i].file
           dep == rawCacheLoad(d)
           j == job[i]
           u == createDelta(d, None, dep)
<1>1. /\ pc[i] = "depload" /\ FileMutexFree(d) /\ Step(i, "deps", j)
      /\ Unchanged /\ UNCHANGED <<index_request, cache, g_index>>
  BY DEF DepLoad
<1>2. /\ j \in Locals /\ JobAt("depload", j) /\ Matched \subseteq Paths /\ vfs \in VFSs
      /\ d \in Paths
  <2>1. j \in Locals /\ JobAt("depload", j) /\ Matched \subseteq Paths /\ vfs \in VFSs
    BY <1>1, TypesOf
  <2> QED
    BY <2>1 DEF JobAt
<1>3. JobAt("deps", j)
  BY <1>2 DEF JobAt
<1>4. Goes(i, "deps", j)
  BY <1>1, <1>3, StepGoes DEF Steps
<1>5. dep \in AnyFile \cup {None} /\ vfs[d].loaded \in Nat
  BY <1>2, RawTyped, TypesOf
<1>6. CASE UNCHANGED <<vfs, on_indexed>>
  <2>1. Plain(i, "deps", j)
    BY <1>1, <1>2, <1>4, <1>6, StillPlain DEF Steps, storeVars
  <2> QED
    BY <2>1
<1>7. CASE /\ dep /= None /\ ~(vfs[d].loaded > 0)
           /\ vfs' = [vfs EXCEPT ![d] = [timestamp |-> dep.mtime, loaded |-> 1,
                             step |-> IF dep.no_linkage THEN 3 ELSE @.step]]
           /\ on_indexed' = PushBack(on_indexed, createDelta(d, None, dep), job[i].urgent)
  <2>1. dep \in AnyFile /\ vfs[d].loaded = 0
    BY <1>5, <1>7
  <2>2. u \in Updates /\ u.path = d /\ u.prev = None /\ u.curr = ContentOf(dep)
    <3>1. ContentOf(None) = None /\ ContentOf(dep) \in Contents \cup {None}
      BY <2>1, ContentTyped DEF ContentOf
    <3> HIDE DEF dep
    <3> QED
      BY <1>2, <3>1, DeltaTyped
  <2>3. vfs' \in VFSs /\ vfs'[d].loaded = 1 /\ \A q \in Paths \ {d} : vfs'[q].loaded = vfs[q].loaded
    <3> DEFINE m == dep.mtime
               n == IF dep.no_linkage THEN 3 ELSE vfs[d].step
               x == [timestamp |-> m, loaded |-> 1, step |-> n]
    <3>1. m \in Nat /\ n \in 0..3
      BY <1>2, <2>1, FileFacts DEF VFSs
    <3>2. vfs' = [vfs EXCEPT ![d] = x]
      <4> HIDE DEF dep, d
      <4> QED
        BY <1>2, <1>7 DEF VFSs
    <3> HIDE DEF m, n
    <3>3. x \in [timestamp : Nat, step : 0..3, loaded : Nat] /\ x.loaded = 1
      BY <3>1
    <3> HIDE DEF x
    <3> QED
      BY <1>2, <3>2, <3>3 DEF VFSs
  <2>4. on_indexed' = PushBack(on_indexed, u, job[i].urgent)
    BY <1>7
  <2> HIDE DEF u
  <2>5. Sends(i, "deps", j, d, u)
    BY <1>1, <1>2, <1>4, <2>1, <2>2, <2>3, <2>4 DEF Sends, Steps
  <2> QED
    BY <1>1, <2>1, <2>2, <2>5
<1> QED
  BY <1>6, <1>7 DEF DepLoad

LEMMA SeeFilePlain ==
  ASSUME Types, NEW i \in Indexers, SeeFile(i)
  PROVE  \E at, j : Plain(i, at, j)
<1> DEFINE j == job[i]
           n == IF j.no_linkage THEN 3 ELSE 1
<1>1. /\ pc[i] = "see" /\ j \in Locals /\ JobAt("see", j) /\ Matched \subseteq Paths
  <2>1. pc[i] = "see"
    BY DEF SeeFile
  <2> QED
    BY <2>1, TypesOf
<1>2. /\ j.path \in Matched /\ ~j.deleted /\ j.indexes \subseteq DOMAIN j.seen
      /\ j.todo \in SUBSET Paths /\ j.indexes \in SUBSET Paths /\ j.seen \in Seen
  BY <1>1 DEF JobAt, Locals
<1>3. Unchanged /\ UNCHANGED <<index_request, on_indexed, cache, g_index>>
  BY DEF SeeFile
<1>4. PICK f \in j.todo :
        LET rest == (j.todo \ {f}) \cup (IF f = j.path THEN Includes[f] ELSE {})
            next == IF rest = {} THEN "store" ELSE "see"
        IN \/ Step(i, next, [j EXCEPT !.todo = rest]) /\ UNCHANGED vfs
           \/ /\ disk[f] /= None /\ vfs' = [vfs EXCEPT ![f] = Stamped(@, disk[f].mtime, n)]
              /\ Step(i, next,
                   [j EXCEPT !.todo = rest,
                             !.seen = [x \in DOMAIN @ \cup {f} |-> IF x = f THEN disk[f] ELSE @[x]],
                             !.indexes = IF Newer(vfs[f], disk[f].mtime, n)
                                         THEN @ \cup {f} ELSE @])
  BY DEF SeeFile
<1> DEFINE rest == (j.todo \ {f}) \cup (IF f = j.path THEN Includes[f] ELSE {})
           next == IF rest = {} THEN "store" ELSE "see"
<1>5. f \in Paths /\ rest \in SUBSET Paths /\ next \in {"store", "see"}
  <2>1. \A p \in Paths : Includes[p] \subseteq Paths
    BY PipelineAssumption
  <2> QED
    BY <1>2, <2>1
<1>6. CASE Step(i, next, [j EXCEPT !.todo = rest]) /\ UNCHANGED vfs
  <2> DEFINE k == [j EXCEPT !.todo = rest]
  <2>1. Step(i, next, k)
    BY <1>6
  <2> HIDE DEF rest, next
  <2>2. /\ k \in Locals /\ k.path = j.path /\ k.deleted = j.deleted /\ k.indexes = j.indexes
        /\ k.seen = j.seen /\ k.urgent = j.urgent
    BY <1>1, <1>5 DEF Locals
  <2> HIDE DEF k
  <2>3. JobAt(next, k) /\ next \in Steps \ {"load", "push", "idle"}
    BY <1>2, <1>5, <2>2 DEF JobAt, Steps
  <2>4. Goes(i, next, k)
    BY <2>1, <2>2, <2>3, StepGoes
  <2>5. Plain(i, next, k)
    BY <1>1, <1>3, <1>6, <2>2, <2>3, <2>4, StillPlain DEF storeVars
  <2> QED
    BY <2>5
<1>7. CASE /\ disk[f] /= None /\ vfs' = [vfs EXCEPT ![f] = Stamped(@, disk[f].mtime, n)]
           /\ Step(i, next,
                [j EXCEPT !.todo = rest,
                          !.seen = [x \in DOMAIN @ \cup {f} |-> IF x = f THEN disk[f] ELSE @[x]],
                          !.indexes = IF Newer(vfs[f], disk[f].mtime, n)
                                      THEN @ \cup {f} ELSE @])
  <2> DEFINE s == [x \in DOMAIN j.seen \cup {f} |-> IF x = f THEN disk[f] ELSE j.seen[x]]
             ix == IF Newer(vfs[f], disk[f].mtime, n) THEN j.indexes \cup {f} ELSE j.indexes
             k == [j EXCEPT !.todo = rest, !.seen = s, !.indexes = ix]
  <2>1. Step(i, next, k)
    BY <1>7
  <2>2. disk[f] \in Stamps
    BY <1>5, <1>7, TypesOf
  <2>3. s \in Seen /\ ix \in SUBSET Paths /\ ix \subseteq DOMAIN s
    <3>1. PICK D \in SUBSET Paths : j.seen \in [D -> Stamps]
      BY <1>2 DEF Seen
    <3>2. s \in [D \cup {f} -> Stamps] /\ D \cup {f} \in SUBSET Paths
      BY <1>5, <2>2, <3>1
    <3>3. ix \subseteq D \cup {f}
      BY <1>2, <3>1
    <3> QED
      BY <3>2, <3>3 DEF Seen
  <2>4. vfs' \in VFSs /\ \A q \in Paths : vfs'[q].loaded = vfs[q].loaded
    <3>1. disk[f].mtime \in Nat /\ n \in 0..3
      BY <2>2 DEF Stamps
    <3>2. vfs' = [vfs EXCEPT ![f] = Stamped(@, disk[f].mtime, n)]
      BY <1>7
    <3> HIDE DEF n
    <3> QED
      BY <1>5, <3>1, <3>2, StampSame
  <2> HIDE DEF rest, next, s, ix
  <2>5. /\ k \in Locals /\ k.path = j.path /\ k.deleted = j.deleted /\ k.indexes = ix
        /\ k.seen = s /\ k.urgent = j.urgent
    BY <1>1, <1>5, <2>3 DEF Locals
  <2> HIDE DEF k
  <2>6. JobAt(next, k) /\ next \in Steps \ {"load", "push", "idle"}
    BY <1>2, <1>5, <2>3, <2>5 DEF JobAt, Steps
  <2>7. Goes(i, next, k)
    BY <2>1, <2>5, <2>6, StepGoes
  <2>8. Plain(i, next, k)
    BY <1>1, <1>3, <2>4, <2>5, <2>6, <2>7 DEF Plain
  <2> QED
    BY <2>8
<1> QED
  BY <1>4, <1>6, <1>7

\* The index file made for a file.
LEMMA NewTyped ==
  ASSUME NEW j \in Locals, NEW f \in Paths, ~j.deleted => f \in DOMAIN j.seen
  PROVE  NewIndex(j, f) \in AnyFile /\ ContentOf(NewIndex(j, f)) \in Contents \cup {None}
<1>1. CASE j.deleted
  BY <1>1, EmptyTyped DEF NewIndex
<1>2. CASE ~j.deleted
  <2>1. j.seen \in Seen /\ j.no_linkage \in BOOLEAN
    BY DEF Locals
  <2>2. PICK D \in SUBSET Paths : j.seen \in [D -> Stamps]
    BY <2>1 DEF Seen
  <2>3. /\ DOMAIN j.seen = D /\ f \in D
        /\ \A d \in D : j.seen[d].mtime \in Nat /\ j.seen[d].rev \in Revs
    BY <1>2, <2>2 DEF Stamps
  <2> DEFINE E == D \ {f, j.path}
             deps == [d \in E |-> j.seen[d].mtime]
             m == j.seen[f].mtime
             r == j.seen[f].rev
  <2>4. deps \in [E -> Nat] /\ E \in SUBSET Paths /\ m \in Nat /\ r \in Revs \cup {None}
    BY <2>3
  <2>5. NewIndex(j, f) = IndexOf(m, r, j.no_linkage, deps)
    BY <1>2, <2>3 DEF NewIndex
  <2> DEFINE nl == j.no_linkage
  <2>6. nl \in BOOLEAN /\ NewIndex(j, f) = IndexOf(m, r, nl, deps)
    BY <2>1, <2>5
  <2> HIDE DEF E, deps, m, r, nl
  <2>7. IndexOf(m, r, nl, deps) \in AnyFile
        /\ ContentOf(IndexOf(m, r, nl, deps)) \in Contents \cup {None}
    BY <2>4, <2>6, IndexTyped
  <2> QED
    BY <2>6, <2>7
<1> QED
  BY <1>1, <1>2

\* Under the file's mutex, an index file is sent for f.
LEMMA PushSends ==
  ASSUME Types, NEW i \in Indexers, Push(i)
  PROVE  /\ pc[i] = "push"
         /\ \E j, u : /\ Sends(i, "store", j, job[i].file, u)
                      /\ u.prev = ContentOf(job[i].prev)
                      /\ u.curr = ContentOf(NewIndex(job[i], job[i].file))
<1> DEFINE f == job[i].file
           new == NewIndex(job[i], f)
           u == createDelta(f, job[i].prev, new)
           j == [job[i] EXCEPT !.prev = None, !.file = None]
<1>1. /\ pc[i] = "push" /\ on_indexed' = PushBack(on_indexed, u, job[i].urgent)
      /\ vfs' = [vfs EXCEPT ![f].loaded = @ + 1] /\ Step(i, "store", j)
      /\ Unchanged /\ UNCHANGED <<index_request, cache, g_index>>
  BY DEF Push
<1>2. job[i] \in Locals /\ JobAt("push", job[i]) /\ Matched \subseteq Paths /\ vfs \in VFSs
  BY <1>1, TypesOf
<1>3. /\ f \in Paths /\ job[i].prev \in AnyFile \cup {None} /\ job[i].path \in Matched
      /\ ~job[i].deleted => f \in DOMAIN job[i].seen /\ job[i].indexes \subseteq DOMAIN job[i].seen
  BY <1>2 DEF JobAt, Locals
<1>4. u \in Updates /\ u.path = f /\ u.prev = ContentOf(job[i].prev) /\ u.curr = ContentOf(new)
  <2>1. ContentOf(job[i].prev) \in Contents \cup {None} /\ ContentOf(new) \in Contents \cup {None}
    BY <1>2, <1>3, ContentTyped, NewTyped
  <2> HIDE DEF new
  <2> QED
    BY <1>3, <2>1, DeltaTyped
<1>5. /\ j \in Locals /\ j.path = job[i].path /\ j.deleted = job[i].deleted
      /\ j.indexes = job[i].indexes /\ j.seen = job[i].seen /\ j.urgent = job[i].urgent
  BY <1>2 DEF Locals
<1> HIDE DEF j
<1>6. JobAt("store", j)
  BY <1>3, <1>5 DEF JobAt
<1>7. Goes(i, "store", j)
  BY <1>1, <1>5, <1>6, StepGoes DEF Steps
<1>8. vfs' \in VFSs /\ vfs'[f].loaded = vfs[f].loaded + 1
      /\ \A q \in Paths \ {f} : vfs'[q].loaded = vfs[q].loaded
  <2> DEFINE st == vfs[f]
             m == st.loaded + 1
             x == [st EXCEPT !.loaded = m]
  <2>1. vfs' = [vfs EXCEPT ![f] = x]
    <3> HIDE DEF f
    <3> QED
      BY <1>1, <1>2 DEF VFSs
  <2>2. st \in [timestamp : Nat, step : 0..3, loaded : Nat] /\ m \in Nat
    BY <1>2, <1>3 DEF VFSs
  <2> HIDE DEF st, m
  <2>3. x \in [timestamp : Nat, step : 0..3, loaded : Nat] /\ x.loaded = m
    BY <2>2
  <2> HIDE DEF x
  <2> QED
    BY <1>2, <1>3, <2>1, <2>3 DEF VFSs, m, st
<1> HIDE DEF u, new
<1>9. Sends(i, "store", j, f, u)
  BY <1>1, <1>2, <1>3, <1>4, <1>5, <1>7, <1>8 DEF Sends, Steps
<1> QED
  BY <1>1, <1>4, <1>9 DEF new

\* An indexer takes the mutex of file f and stores an index file of it.
Stores(i, f, j) ==
  /\ pc[i] = "store" /\ j \in Locals /\ Goes(i, "push", j)
  /\ f \in Matched /\ FileMutexFree(f) /\ j.file = f
  /\ j.prev = IF vfs[f].loaded > 0 THEN rawCacheLoad(f) ELSE None
  /\ NewIndex(j, f) \in AnyFile /\ (j.deleted => ContentOf(NewIndex(j, f)) = None)
  /\ g_index' = IF RetainInMemory > 0 /\ RetainInMemory <= vfs[f].loaded + 1
                THEN [g_index EXCEPT ![f] = NewIndex(j, f)] ELSE g_index
  /\ cache' = IF ~CacheDirectory THEN cache
              ELSE [cache EXCEPT ![f] = IF j.deleted THEN None ELSE NewIndex(j, f)]
  /\ Unchanged /\ UNCHANGED <<index_request, on_indexed, vfs>>

LEMMA StoreStores ==
  ASSUME Types, NEW i \in Indexers, Store(i)
  PROVE  \E f, j : Stores(i, f, j)
<1>1. pc[i] = "store" /\ Unchanged /\ UNCHANGED <<index_request, on_indexed, vfs>>
  BY DEF Store
<1>2. PICK f \in job[i].indexes \cap Matched :
        /\ FileMutexFree(f)
        /\ Step(i, "push", [job[i] EXCEPT !.file = f, !.indexes = @ \ {f},
                              !.prev = IF vfs[f].loaded > 0 THEN rawCacheLoad(f) ELSE None])
        /\ g_index' = IF RetainInMemory > 0 /\ RetainInMemory <= vfs[f].loaded + 1
                      THEN [g_index EXCEPT ![f] = NewIndex(job[i], f)] ELSE g_index
        /\ cache' = IF ~CacheDirectory THEN cache
                    ELSE [cache EXCEPT ![f] = IF job[i].deleted THEN None ELSE NewIndex(job[i], f)]
  BY DEF Store
<1>3. job[i] \in Locals /\ JobAt("store", job[i]) /\ Matched \subseteq Paths
  BY <1>1, TypesOf
<1>4. /\ f \in Paths /\ job[i].path \in Matched /\ job[i].indexes \in SUBSET Paths
      /\ ~job[i].deleted => job[i].indexes \subseteq DOMAIN job[i].seen
  BY <1>2, <1>3 DEF JobAt, Locals
<1> DEFINE prev == IF vfs[f].loaded > 0 THEN rawCacheLoad(f) ELSE None
           rest == job[i].indexes \ {f}
           j == [job[i] EXCEPT !.file = f, !.indexes = rest, !.prev = prev]
<1>5. prev \in AnyFile \cup {None} /\ rest \in SUBSET Paths
  BY <1>4, RawTyped
<1>6. Step(i, "push", j)
  BY <1>2
<1>6a. /\ f \in Matched /\ FileMutexFree(f)
       /\ g_index' = IF RetainInMemory > 0 /\ RetainInMemory <= vfs[f].loaded + 1
                     THEN [g_index EXCEPT ![f] = NewIndex(job[i], f)] ELSE g_index
       /\ cache' = IF ~CacheDirectory THEN cache
                   ELSE [cache EXCEPT ![f] = IF job[i].deleted THEN None ELSE NewIndex(job[i], f)]
  BY <1>2
<1>6b. ~job[i].deleted => f \in DOMAIN job[i].seen /\ rest \subseteq DOMAIN job[i].seen
  BY <1>2, <1>4
<1>6c. j.prev = IF vfs[f].loaded > 0 THEN rawCacheLoad(f) ELSE None
  BY <1>3 DEF Locals
<1> HIDE DEF prev, rest
<1>7. /\ j \in Locals /\ j.path = job[i].path /\ j.deleted = job[i].deleted /\ j.indexes = rest
      /\ j.seen = job[i].seen /\ j.urgent = job[i].urgent /\ j.file = f
      /\ j.no_linkage = job[i].no_linkage
  BY <1>3, <1>4, <1>5 DEF Locals
<1> HIDE DEF j
<1>8. NewIndex(j, f) = NewIndex(job[i], f)
  BY <1>7 DEF NewIndex
<1>9. NewIndex(j, f) \in AnyFile /\ (j.deleted => ContentOf(NewIndex(j, f)) = None)
  <2>1. NewIndex(j, f) \in AnyFile
    BY <1>4, <1>6b, <1>7, NewTyped
  <2>2. j.deleted => NewIndex(j, f) = EmptyIndex
    BY DEF NewIndex
  <2> QED
    BY <2>1, <2>2, EmptyTyped
<1>10. JobAt("push", j)
  BY <1>4, <1>6b, <1>7 DEF JobAt
<1>11. Goes(i, "push", j)
  BY <1>6, <1>7, <1>10, StepGoes DEF Steps
<1>12. Stores(i, f, j)
  BY <1>1, <1>6a, <1>6c, <1>7, <1>8, <1>9, <1>11 DEF Stores
<1> QED
  BY <1>12

\* An indexer takes a request off the queue.
Takes(i, at, j) ==
  LET r == Head(InOrder(index_request)) IN
  /\ pc[i] = "idle" /\ at \in {"stamp", "see", "store"} /\ j \in Locals
  /\ Moves(i, at, j) /\ JobAt(at, j) /\ UNCHANGED completed
  /\ index_request /= EmptyQueue /\ index_request' = PopFront(index_request)
  /\ r.path \in Matched /\ j.urgent = Urgent(r.mode)
  /\ Unchanged /\ UNCHANGED <<on_indexed, vfs, cache, g_index>>

LEMMA AcceptTakes ==
  ASSUME Types, NEW i \in Indexers, Accept(i)
  PROVE  \E at, j : Takes(i, at, j)
<1> DEFINE r == Head(InOrder(index_request))
           Local(track) == [NoJob EXCEPT !.path = r.path, !.urgent = Urgent(r.mode),
                                 !.deleted = r.mode = "Delete",
                                 !.no_linkage = NoLinkage \/ r.mode /= "Background",
                                 !.track = track]
<1>1. /\ pc[i] = "idle" /\ index_request /= EmptyQueue
      /\ r.path \in Matched /\ index_request' = PopFront(index_request)
      /\ Unchanged /\ UNCHANGED <<on_indexed, vfs, cache, g_index>>
  BY DEF Accept, storeVars
<1>2. PICK track \in Tracks :
        IF Local(track).deleted THEN StartParse(i, Local(track)) ELSE Step(i, "stamp", Local(track))
  BY DEF Accept
<1> DEFINE j == Local(track)
<1>3. IF j.deleted THEN StartParse(i, j) ELSE Step(i, "stamp", j)
  BY <1>2
<1>4. j \in Locals /\ j.path = r.path /\ j.urgent = Urgent(r.mode) /\ j.indexes = {}
  <2> DEFINE u == Urgent(r.mode)
             d == r.mode = "Delete"
             n == NoLinkage \/ r.mode /= "Background"
             p == r.path
  <2>1. u \in BOOLEAN /\ d \in BOOLEAN /\ n \in BOOLEAN /\ track \in BOOLEAN /\ p \in Paths
    BY <1>1, PipelineAssumption DEF Urgent
  <2>2. NoJob \in Locals /\ NoJob.indexes = {}
    BY EmptyTyped DEF NoJob
  <2> DEFINE k == [NoJob EXCEPT !.path = p, !.urgent = u, !.deleted = d, !.no_linkage = n,
                                !.track = track]
  <2>3. j = k
    OBVIOUS
  <2> HIDE DEF u, d, n, p, j
  <2>4. k \in Locals /\ k.path = p /\ k.urgent = u /\ k.indexes = {}
    BY <2>1, <2>2 DEF Locals
  <2> HIDE DEF k
  <2>5. j \in Locals /\ j.path = p /\ j.urgent = u /\ j.indexes = {}
    BY <2>3, <2>4
  <2> QED
    BY <2>5 DEF p, u
<1> HIDE DEF j
<1>5. CASE StartParse(i, j)
  <2>1. PICK at \in {"see", "store"}, k \in Locals :
          /\ Moves(i, at, k) /\ JobAt(at, k) /\ completed' = completed
          /\ k.urgent = j.urgent
    BY <1>1, <1>4, <1>5, StartParseMoves
  <2>2. Takes(i, at, k)
    BY <1>1, <1>4, <2>1 DEF Takes
  <2> QED
    BY <2>2
<1>6. CASE Step(i, "stamp", j)
  <2>1. JobAt("stamp", j)
    BY <1>1, <1>4 DEF JobAt
  <2>2. Moves(i, "stamp", j) /\ UNCHANGED completed
    BY <1>6 DEF Step, Goto, Moves
  <2>3. Takes(i, "stamp", j)
    BY <1>1, <1>4, <2>1, <2>2 DEF Takes
  <2> QED
    BY <2>3
<1> QED
  BY <1>3, <1>5, <1>6

\* What an indexer sends, and of which file: the cached index it loads, the cached
\* index of a dependency nobody has loaded, or the change from what was loaded to
\* what it stored.
Sent(i, p, u) ==
  \/ pc[i] = "load" /\ p = job[i].path /\ u.prev = None /\ u.curr = ContentOf(job[i].prev)
  \/ /\ pc[i] = "depload" /\ p = job[i].file /\ FileMutexFree(p) /\ vfs[p].loaded = 0
     /\ u.prev = None /\ u.curr = ContentOf(rawCacheLoad(p))
  \/ /\ pc[i] = "push" /\ p = job[i].file /\ u.prev = ContentOf(job[i].prev)
     /\ u.curr = ContentOf(NewIndex(job[i], p))

\* The kinds of steps of an indexer.
Effect(i) ==
  \/ Refuse(i)
  \/ \E at, j : Takes(i, at, j)
  \/ \E at, j : Plain(i, at, j)
  \/ \E j : ToLoad(i, j)
  \/ \E f, j : Stores(i, f, j)
  \/ \E at, j, p, u : Sends(i, at, j, p, u) /\ Sent(i, p, u)

LEMMA Effects ==
  ASSUME Types, NEW i \in Indexers, indexer_Parse(i)
  PROVE  Effect(i)
<1>1. CASE Refuse(i)
  BY <1>1 DEF Effect
<1>2. CASE Accept(i)
  BY <1>2, AcceptTakes DEF Effect
<1>3. CASE Stamp(i)
  BY <1>3, StampPlain DEF Effect
<1>4. CASE CacheCheck(i)
  BY <1>4, CacheCheckPlain DEF Effect
<1>5. CASE CacheLoad(i)
  <2>1. PICK j, u : Sends(i, "deps", j, job[i].path, u)
                      /\ u.prev = None /\ u.curr = ContentOf(job[i].prev)
    BY <1>5, CacheLoadSends
  <2>2. Sent(i, job[i].path, u)
    BY <1>5, <2>1, CacheLoadSends DEF Sent
  <2> QED
    BY <2>1, <2>2 DEF Effect
<1>6. CASE DepStamp(i)
  BY <1>6, DepStampPlain DEF Effect
<1>7. CASE DepLoad(i)
  <2>1. CASE \E at, j : Plain(i, at, j)
    BY <2>1 DEF Effect
  <2> DEFINE p == job[i].file
  <2>2. CASE /\ pc[i] = "depload" /\ FileMutexFree(p) /\ vfs[p].loaded = 0
             /\ \E j, u : /\ Sends(i, "deps", j, p, u)
                          /\ u.prev = None /\ u.curr = ContentOf(rawCacheLoad(p))
    <3>1. PICK j, u : Sends(i, "deps", j, p, u)
                      /\ u.prev = None /\ u.curr = ContentOf(rawCacheLoad(p))
      BY <2>2
    <3>2. Sent(i, p, u)
      BY <2>2, <3>1 DEF Sent
    <3> QED
      BY <3>1, <3>2 DEF Effect
  <2> QED
    BY <1>7, <2>1, <2>2, DepLoadSends
<1>8. CASE SeeFile(i)
  BY <1>8, SeeFilePlain DEF Effect
<1>9. CASE DepsDone(i) \/ ParseFail(i) \/ StoreDone(i)
  BY <1>9, DonePlain DEF Effect
<1>10. CASE Store(i)
  BY <1>10, StoreStores DEF Effect
<1>11. CASE Push(i)
  <2> DEFINE p == job[i].file
  <2>1. PICK j, u : /\ Sends(i, "store", j, p, u)
                    /\ u.prev = ContentOf(job[i].prev)
                    /\ u.curr = ContentOf(NewIndex(job[i], p))
    BY <1>11, PushSends
  <2>2. Sent(i, p, u)
    BY <1>11, <2>1, PushSends DEF Sent
  <2> QED
    BY <2>1, <2>2 DEF Effect
<1> QED
  BY <1>1, <1>2, <1>3, <1>4, <1>5, <1>6, <1>7, <1>8, <1>9, <1>10, <1>11 DEF indexer_Parse

LEMMA QueuesPop ==
  ASSUME NEW q \in UpdateQueues, q /= EmptyQueue
  PROVE  /\ PopFront(q) \in UpdateQueues /\ Head(InOrder(q)) \in Updates
         /\ Popped(q, Head(InOrder(q)), PopFront(q), Updates, Updates)
<1>1. q \in [priority_ : Seq(Updates), queue_ : Seq(Updates)]
  BY DEF UpdateQueues
<1> DEFINE r == Head(InOrder(q))
           p == PopFront(q)
<1>2. /\ p \in [priority_ : Seq(Updates), queue_ : Seq(Updates)]
      /\ Popped(q, r, p, Updates, Updates)
  BY <1>1, PopCases
<1> HIDE DEF r, p
<1>3. r \in Updates /\ p \in UpdateQueues
  BY <1>2 DEF Popped, UpdateQueues
<1> QED
  BY <1>2, <1>3 DEF r, p

LEMMA ApplyTyped ==
  ASSUME NEW d \in Shares, NEW u \in Updates
  PROVE  apply(d, u) \in Shares
<1> DEFINE rc == [c \in Contents |-> d.refcnt[c] - Delta(c, u.prev) + Delta(c, u.curr)]
           us == [c \in Contents |-> (IF c = u.prev THEN 0 ELSE d.uses[c]) + Delta(c, u.curr)]
           df == IF u.curr /= None \/ u.prev /= None THEN u.curr ELSE d.def
<1>1. /\ \A c \in Contents : d.refcnt[c] \in Int /\ d.uses[c] \in Nat
      /\ d.def \in Contents \cup {None} /\ u.curr \in Contents \cup {None}
  BY DEF Shares, Updates
<1>2. \A c, x : Delta(c, x) \in {0, 1}
  BY DEF Delta
<1>3. rc \in [Contents -> Int]
  <2>1. ASSUME NEW c \in Contents
        PROVE  d.refcnt[c] - Delta(c, u.prev) + Delta(c, u.curr) \in Int
    BY <1>1, <1>2
  <2> QED
    BY <2>1
<1>4. us \in [Contents -> Nat]
  <2>1. ASSUME NEW c \in Contents
        PROVE  (IF c = u.prev THEN 0 ELSE d.uses[c]) + Delta(c, u.curr) \in Nat
    <3>1. (IF c = u.prev THEN 0 ELSE d.uses[c]) \in Nat
      BY <1>1
    <3>2. Delta(c, u.curr) \in {0, 1}
      BY <1>2
    <3> QED
      BY <3>1, <3>2
  <2> QED
    BY <2>1
<1>5. df \in Contents \cup {None}
  BY <1>1
<1>6. apply(d, u) = [refcnt |-> rc, uses |-> us, def |-> df]
  BY DEF apply
<1> HIDE DEF rc, us, df
<1> QED
  BY <1>3, <1>4, <1>5, <1>6 DEF Shares

\* A step of an indexer keeps the types.
LEMMA EffectTypes ==
  ASSUME Types, NEW i \in Indexers, Effect(i)
  PROVE  Types'
<1>t. /\ completed \in Nat /\ index_request \in RequestQueues /\ on_indexed \in UpdateQueues
      /\ vfs \in VFSs /\ cache \in [Paths -> AnyFile \cup {None}]
      /\ g_index \in [Paths -> AnyFile \cup {None}] /\ job[i] \in Locals /\ Matched \subseteq Paths
      /\ job[i].urgent \in BOOLEAN
  BY TypesOf DEF Types, Locals
<1>1. CASE Refuse(i)
  <2>1. index_request /= EmptyQueue /\ index_request' = PopFront(index_request)
    BY <1>1 DEF Refuse
  <2>2. index_request' \in RequestQueues
    BY <1>t, <2>1, PopRequest
  <2>3. completed' \in Nat
    <3>1. completed' = completed \/ completed' = completed + 1
      BY <1>1 DEF Refuse
    <3> QED
      BY <1>t, <3>1
  <2>4. on_indexed' \in UpdateQueues
    <3>1. on_indexed' = on_indexed \/ on_indexed' = PushBack(on_indexed, RefreshUpdate, FALSE)
      BY <1>1 DEF Refuse
    <3>2. PushBack(on_indexed, RefreshUpdate, FALSE) \in UpdateQueues
      BY <1>t, PushUpdate, RefreshTyped
    <3> QED
      BY <1>t, <3>1, <3>2
  <2>5. UNCHANGED <<disk, clock, revision, db, enqueued, requests, reloads, unsaved, vfs, cache,
                    g_index, pc, job>>
    BY <1>1 DEF Refuse, Unchanged, fileVars, clientVars, storeVars
  <2> QED
    BY <2>2, <2>3, <2>4, <2>5 DEF Types, JobInv
<1>2. CASE \E at, j : Takes(i, at, j)
  <2>1. PICK at, j : Takes(i, at, j)
    BY <1>2
  <2>2. index_request' \in RequestQueues
    BY <1>t, <2>1, PopRequest DEF Takes
  <2>3. at \in Steps /\ j \in Locals /\ Moves(i, at, j) /\ JobAt(at, j) /\ Unchanged
        /\ completed' \in Nat /\ UNCHANGED <<on_indexed, vfs, cache, g_index>>
    BY <1>t, <2>1 DEF Takes, Steps
  <2> QED
    BY <1>t, <2>2, <2>3, MoveTypes DEF VFSs
<1>3. CASE \E at, j : Plain(i, at, j)
  <2>1. PICK at, j : Plain(i, at, j)
    BY <1>3
  <2>2. at \in Steps /\ j \in Locals /\ Moves(i, at, j) /\ JobAt(at, j) /\ Unchanged
        /\ UNCHANGED <<index_request, on_indexed, cache, g_index>> /\ vfs' \in VFSs
        /\ (completed' = completed \/ completed' = completed + 1)
    BY <2>1 DEF Plain, Goes
  <2>3. completed' \in Nat
    BY <1>t, <2>2
  <2> QED
    BY <1>t, <2>2, <2>3, MoveTypes DEF VFSs
<1>4. CASE \E j : ToLoad(i, j)
  <2>1. PICK j : ToLoad(i, j)
    BY <1>4
  <2>2. "load" \in Steps /\ j \in Locals /\ Moves(i, "load", j) /\ JobAt("load", j) /\ Unchanged
        /\ UNCHANGED <<index_request, on_indexed, cache, g_index, vfs, completed>>
    BY <2>1 DEF ToLoad, Goes, Steps
  <2> QED
    BY <1>t, <2>2, MoveTypes DEF VFSs
<1>5. CASE \E f, j : Stores(i, f, j)
  <2>1. PICK f, j : Stores(i, f, j)
    BY <1>5
  <2>2. "push" \in Steps /\ j \in Locals /\ Moves(i, "push", j) /\ JobAt("push", j) /\ Unchanged
        /\ UNCHANGED <<index_request, on_indexed, vfs, completed>>
    BY <2>1 DEF Stores, Goes, Steps
  <2> DEFINE new == NewIndex(j, f)
  <2>3. f \in Paths /\ new \in AnyFile
    BY <1>t, <2>1 DEF Stores
  <2>4. g_index' = g_index \/ g_index' = [g_index EXCEPT ![f] = new]
    BY <2>1 DEF Stores
  <2>5. \/ cache' = cache \/ cache' = [cache EXCEPT ![f] = new]
        \/ cache' = [cache EXCEPT ![f] = None]
    BY <2>1 DEF Stores
  <2> HIDE DEF new
  <2>6. cache' \in [Paths -> AnyFile \cup {None}] /\ g_index' \in [Paths -> AnyFile \cup {None}]
    BY <1>t, <2>3, <2>4, <2>5
  <2> QED
    BY <1>t, <2>2, <2>6, MoveTypes DEF VFSs
<1>6. CASE \E at, j, p, u : Sends(i, at, j, p, u) /\ Sent(i, p, u)
  <2>1. PICK at, j, p, u : Sends(i, at, j, p, u)
    BY <1>6
  <2>2. at \in Steps /\ j \in Locals /\ Moves(i, at, j) /\ JobAt(at, j) /\ Unchanged
        /\ UNCHANGED <<index_request, cache, g_index, completed>> /\ vfs' \in VFSs
        /\ u \in Updates /\ on_indexed' = PushBack(on_indexed, u, job[i].urgent)
    BY <2>1 DEF Sends, Goes
  <2>3. on_indexed' \in UpdateQueues
    BY <1>t, <2>2, PushUpdate
  <2> QED
    BY <1>t, <2>2, <2>3, MoveTypes DEF VFSs
<1> QED
  BY <1>1, <1>2, <1>3, <1>4, <1>5, <1>6 DEF Effect

\* What the client, the environment and the main thread do keeps the types.
LEMMA OtherTypes ==
  ASSUME Types,
         \/ \E p \in Paths : \/ Write(p) \/ Remove(p) \/ removeCache(p)
                             \/ \E mode \in Modes : index(p, mode)
         \/ reload \/ main_OnIndexed
  PROVE  Types'
<1>t. /\ enqueued \in Nat /\ requests \in Nat /\ reloads \in Nat /\ clock \in Nat
      /\ revision \in Revs /\ disk \in [Paths -> Stamps \cup {None}] /\ unsaved \subseteq Paths
      /\ index_request \in RequestQueues /\ on_indexed \in UpdateQueues /\ JobInv
      /\ db \in [Paths -> Shares] /\ g_index \in [Paths -> AnyFile \cup {None}]
  BY DEF Types
<1>j. UNCHANGED <<pc, job>> => JobInv'
  BY <1>t DEF JobInv
<1>1. ASSUME NEW p \in Paths, Write(p) PROVE Types'
  <2>1. PICK now \in {clock, clock + 1} :
          clock' = now /\ disk' = [disk EXCEPT ![p] = [mtime |-> now, rev |-> revision']]
    BY <1>1 DEF Write
  <2>2. revision' = revision + 1 /\ revision < MaxRev /\ unsaved' = unsaved \cup {p}
    BY <1>1 DEF Write
  <2>3. revision' \in Revs /\ clock' \in Nat /\ now \in Nat
    BY <1>t, <2>1, <2>2, RevAssumption DEF Revs
  <2>4. disk' \in [Paths -> Stamps \cup {None}]
    <3> DEFINE r == revision'
               x == [mtime |-> now, rev |-> r]
    <3>1. x \in Stamps
      BY <2>3 DEF Stamps
    <3>2. disk' = [disk EXCEPT ![p] = x]
      BY <2>1
    <3> HIDE DEF x
    <3> QED
      BY <1>t, <3>1, <3>2
  <2>5. UNCHANGED <<index_request, on_indexed, vfs, cache, g_index, db, pc, job, enqueued,
                    completed, requests, reloads>>
    BY <1>1 DEF Write, storeVars
  <2> QED
    BY <1>j, <2>2, <2>3, <2>4, <2>5 DEF Types
<1>2. ASSUME NEW p \in Paths, Remove(p) PROVE Types'
  <2>1. disk' \in [Paths -> Stamps \cup {None}] /\ unsaved' \subseteq Paths
    BY <1>t, <1>2 DEF Remove
  <2>2. UNCHANGED <<clock, revision, index_request, on_indexed, vfs, cache, g_index, db, pc, job,
                    enqueued, completed, requests, reloads>>
    BY <1>2 DEF Remove, storeVars
  <2> QED
    BY <1>j, <2>1, <2>2 DEF Types
<1>3. ASSUME NEW p \in Paths, removeCache(p) PROVE Types'
  <2>1. g_index' \in [Paths -> AnyFile \cup {None}]
    BY <1>t, <1>3 DEF removeCache
  <2>2. UNCHANGED <<disk, clock, revision, index_request, on_indexed, vfs, cache, db, pc, job,
                    enqueued, completed, requests, reloads, unsaved>>
    BY <1>3 DEF removeCache, fileVars, clientVars
  <2> QED
    BY <1>j, <2>1, <2>2 DEF Types
<1>4. ASSUME NEW p \in Paths, NEW mode \in Modes, index(p, mode) PROVE Types'
  <2>1. /\ requests' = requests + 1 /\ enqueued' = enqueued + 1
        /\ index_request' = PushBack(index_request, Request(p, mode), Urgent(mode))
        /\ unsaved' = unsaved \/ unsaved' = unsaved \ {p}
    BY <1>4 DEF index
  <2>2. index_request' \in RequestQueues
    <3>1. CASE mode = "Background"
      BY <1>t, <2>1, <3>1, PushBackground DEF Urgent
    <3>2. CASE mode \in {"Normal", "Delete"}
      <4>1. Urgent(mode) = TRUE
        BY <3>2 DEF Urgent
      <4> QED
        BY <1>t, <2>1, <3>2, <4>1, PushUrgent
    <3> QED
      BY <3>1, <3>2, PipelineAssumption
  <2>3. UNCHANGED <<disk, clock, revision, on_indexed, vfs, cache, g_index, db, pc, job,
                    completed, reloads>>
    BY <1>4 DEF index, fileVars, storeVars
  <2>4. requests' \in Nat /\ enqueued' \in Nat /\ unsaved' \subseteq Paths
    BY <1>t, <2>1
  <2> QED
    BY <1>j, <2>2, <2>3, <2>4 DEF Types
<1>5. CASE reload
  <2>1. PICK open \in SUBSET EntrySet : index_request' = ProjectIndex(index_request, open)
    BY <1>5 DEF reload
  <2>2. EntrySet \subseteq Paths /\ Len(Entries) \in Nat
    BY PipelineAssumption DEF EntrySet
  <2>3. index_request' \in RequestQueues
    BY <1>t, <2>1, <2>2, ProjectIndexed
  <2>4. reloads' = reloads + 1 /\ enqueued' = enqueued + Len(Entries)
        /\ vfs' = [p \in Paths |-> NeverSeen] /\ db' = [p \in Paths |-> NotIndexed]
        /\ unsaved' \subseteq unsaved
    BY <1>5 DEF reload
  <2>5. vfs' \in [Paths -> [timestamp : Nat, step : 0..3, loaded : Nat]]
    <3>1. NeverSeen \in [timestamp : Nat, step : 0..3, loaded : Nat]
      BY DEF NeverSeen
    <3> QED
      BY <2>4, <3>1
  <2>6. db' \in [Paths -> Shares]
    <3>1. NotIndexed \in Shares
      BY DEF NotIndexed, Shares
    <3> QED
      BY <2>4, <3>1
  <2>7. reloads' \in Nat /\ enqueued' \in Nat /\ unsaved' \subseteq Paths
    BY <1>t, <2>2, <2>4
  <2>8. UNCHANGED <<disk, clock, revision, on_indexed, cache, g_index, pc, job, completed,
                    requests>>
    BY <1>5 DEF reload, fileVars
  <2> QED
    BY <1>j, <2>3, <2>5, <2>6, <2>7, <2>8 DEF Types
<1>6. CASE main_OnIndexed
  <2> DEFINE u == Head(InOrder(on_indexed))
  <2>1. /\ on_indexed /= EmptyQueue /\ on_indexed' = PopFront(on_indexed)
        /\ db' = IF u.path = None THEN db ELSE [db EXCEPT ![u.path] = apply(@, u)]
    BY <1>6 DEF main_OnIndexed
  <2>2. on_indexed' \in UpdateQueues /\ u \in Updates
    BY <1>t, <2>1, QueuesPop
  <2> HIDE DEF u
  <2>3. db' \in [Paths -> Shares]
    <3>1. CASE u.path = None
      BY <1>t, <2>1, <3>1
    <3>2. CASE u.path /= None
      <4> DEFINE p == u.path
                 x == apply(db[p], u)
      <4>1. p \in Paths
        BY <2>2, <3>2 DEF Updates
      <4>2. db' = [db EXCEPT ![p] = x]
        BY <1>t, <2>1, <3>2
      <4>3. x \in Shares
        BY <1>t, <2>2, <4>1, ApplyTyped
      <4> HIDE DEF p, x
      <4> QED
        BY <1>t, <4>1, <4>2, <4>3
    <3> QED
      BY <3>1, <3>2
  <2>4. UNCHANGED <<disk, clock, revision, index_request, vfs, cache, g_index, pc, job, enqueued,
                    completed, requests, reloads, unsaved>>
    BY <1>6 DEF main_OnIndexed, fileVars, storeVars, clientVars
  <2> QED
    BY <1>j, <2>2, <2>3, <2>4 DEF Types
<1> QED
  BY <1>1, <1>2, <1>3, <1>4, <1>5, <1>6

LEMMA TypesStep ==
  ASSUME Types, [Next]_vars
  PROVE  Types'
<1>1. CASE \E i \in Indexers : indexer_Parse(i)
  BY <1>1, Effects, EffectTypes
<1>2. CASE UNCHANGED vars
  BY <1>2 DEF Types, JobInv, vars, fileVars, storeVars, clientVars
<1> QED
  BY <1>1, <1>2, OtherTypes DEF Next

\* indexer_Parse and what it shares with the main thread: at all times every
\* variable holds what the code can put there; a request that is worked on is for a
\* file that matched, and an index is only made of a file that was read (or deleted).
THEOREM Typed == Spec => []Types
<1>1. Init => Types
  BY InitTypes
<1>2. Types /\ [Next]_vars => Types'
  BY TypesStep
<1> QED
  BY <1>1, <1>2, PTL DEF Spec

THEOREM TypeCorrect == Spec => []TypeOK
<1>1. Types => TypeOK
  BY TypesSuffice
<1> QED
  BY <1>1, Typed, PTL

----------------------------------------------------------------------------
(* The counters of the progress report *)

\* The indexers at work are those before, with i or without it.
LEMMA BusyMoves ==
  ASSUME Types, NEW i \in Indexers, NEW at \in Steps, NEW j, Moves(i, at, j)
  PROVE  Cardinality(Busy') = IF pc[i] = "idle"
                              THEN IF at = "idle" THEN Cardinality(Busy) ELSE Cardinality(Busy) + 1
                              ELSE IF at = "idle" THEN Cardinality(Busy) - 1 ELSE Cardinality(Busy)
<1>1. IsFiniteSet(Busy) /\ Cardinality(Busy) \in Nat
  <2>1. IsFiniteSet(Indexers) /\ Busy \subseteq Indexers
    BY PipelineAssumption DEF Busy
  <2> QED
    BY <2>1, FS_Subset, FS_CardinalityType
<1>2. pc' = [pc EXCEPT ![i] = at] /\ pc \in [Indexers -> Steps]
  BY DEF Moves, Types
<1>3. CASE pc[i] = "idle" /\ at /= "idle"
  <2>1. Busy' = Busy \cup {i} /\ i \notin Busy
    BY <1>2, <1>3 DEF Busy
  <2>2. Cardinality(Busy \cup {i}) = Cardinality(Busy) + 1
    BY <1>1, <2>1, FS_AddElement
  <2> QED
    BY <1>3, <2>1, <2>2
<1>4. CASE pc[i] /= "idle" /\ at = "idle"
  <2>1. Busy' = Busy \ {i} /\ i \in Busy
    BY <1>2, <1>4 DEF Busy
  <2>2. Cardinality(Busy \ {i}) = Cardinality(Busy) - 1
    BY <1>1, <2>1, FS_RemoveElement
  <2> QED
    BY <1>4, <2>1, <2>2
<1>5. CASE (pc[i] = "idle") <=> (at = "idle")
  <2>1. Busy' = Busy
    BY <1>2, <1>5 DEF Busy
  <2> QED
    BY <1>5, <2>1
<1> QED
  BY <1>3, <1>4, <1>5

LEMMA BusyType ==
  IsFiniteSet(Busy) /\ Cardinality(Busy) \in Nat
<1>1. IsFiniteSet(Indexers) /\ Busy \subseteq Indexers
  BY PipelineAssumption DEF Busy
<1> QED
  BY <1>1, FS_Subset, FS_CardinalityType

LEMMA InitOutstanding == Init => Outstanding
<1> SUFFICES ASSUME Init PROVE Outstanding
  OBVIOUS
<1> DEFINE n == Len(Entries)
<1>1. n \in Nat /\ enqueued = n /\ completed = 0
  BY PipelineAssumption, LenProperties DEF Init
<1>2. Busy = {} /\ Cardinality(Busy) = 0
  BY FS_EmptySet DEF Init, Busy
<1>3. EmptyQueue \in RequestQueues /\ Counted(EmptyQueue) = 0
  <2>1. EmptyQueue \in RequestQueues
    BY EmptySeq DEF EmptyQueue, RequestQueues
  <2>2. OfPaths(<<>>, Paths) = <<>> /\ Len(<<>>) = 0
    BY OfPathsEmpty
  <2> QED
    BY <2>1, <2>2 DEF Counted, EmptyQueue
<1>4. index_request = ProjectIndex(EmptyQueue, {})
  BY DEF Init
<1>5. Counted(index_request) = Counted(EmptyQueue) + n
  BY <1>3, <1>4, ProjectIndexed
<1> HIDE DEF n
<1> QED
  BY <1>1, <1>2, <1>3, <1>5 DEF Outstanding

LEMMA EffectOutstanding ==
  ASSUME Types, Outstanding, NEW i \in Indexers, Effect(i)
  PROVE  Outstanding'
<1> DEFINE c == Counted(index_request)
           b == Cardinality(Busy)
           cn == Counted(index_request')
           bn == Cardinality(Busy')
<1>1. /\ enqueued \in Nat /\ completed \in Nat /\ c \in Nat /\ b \in Nat
      /\ index_request \in RequestQueues /\ Matched \subseteq Paths
  BY BusyType, CountedType, PipelineAssumption DEF Types
<1>2. enqueued - completed = c + b
  BY DEF Outstanding
<1>3. SUFFICES enqueued' - completed' = cn + bn
  BY DEF Outstanding
<1>4. CASE Refuse(i)
  <2> DEFINE r == Head(InOrder(index_request))
  <2>1. /\ index_request /= EmptyQueue /\ index_request' = PopFront(index_request)
        /\ completed' = IF r.path = None THEN completed ELSE completed + 1
        /\ enqueued' = enqueued /\ pc' = pc
    BY <1>4 DEF Refuse, Unchanged
  <2>2. bn = b
    BY <2>1 DEF Busy
  <2>3. /\ r \in UrgentRequests \/ r \in BackgroundRequests
        /\ c = IF r.path \in Paths THEN cn + 1 ELSE cn
    BY <1>1, <2>1, PopRequest
  <2>4. r.path \in Paths <=> r.path /= None
    BY <2>3, NoneAssumption DEF UrgentRequests, BackgroundRequests
  <2>5. cn \in Nat
    BY <1>1, <2>1, PopRequest, CountedType
  <2> HIDE DEF r, c, b, cn, bn
  <2> QED
    BY <1>1, <1>2, <2>1, <2>2, <2>3, <2>4, <2>5
<1>5. CASE \E at, j : Takes(i, at, j)
  <2>1. PICK at, j : Takes(i, at, j)
    BY <1>5
  <2> DEFINE r == Head(InOrder(index_request))
  <2>2. /\ index_request /= EmptyQueue /\ index_request' = PopFront(index_request)
        /\ completed' = completed /\ enqueued' = enqueued /\ r.path \in Paths
        /\ pc[i] = "idle" /\ at \in Steps /\ at /= "idle" /\ Moves(i, at, j)
    BY <1>1, <2>1 DEF Takes, Unchanged, Steps
  <2>3. bn = b + 1
    BY <2>2, BusyMoves
  <2>4. c = IF r.path \in Paths THEN cn + 1 ELSE cn
    BY <1>1, <2>2, PopRequest
  <2>5. cn \in Nat
    BY <1>1, <2>2, PopRequest, CountedType
  <2> HIDE DEF r, c, b, cn, bn
  <2> QED
    BY <1>1, <1>2, <2>2, <2>3, <2>4, <2>5
<1>6. CASE \E at, j : /\ at \in Steps /\ pc[i] /= "idle" /\ Goes(i, at, j) /\ Unchanged
                      /\ UNCHANGED index_request
  <2>1. PICK at, j : /\ at \in Steps /\ pc[i] /= "idle" /\ Goes(i, at, j) /\ Unchanged
                     /\ UNCHANGED index_request
    BY <1>6
  <2>2. /\ Moves(i, at, j) /\ enqueued' = enqueued /\ cn = c
        /\ completed' = IF at = "idle" THEN completed + 1 ELSE completed
    BY <2>1 DEF Goes, Unchanged
  <2>3. bn = IF at = "idle" THEN b - 1 ELSE b
    BY <2>1, <2>2, BusyMoves
  <2> HIDE DEF c, b, cn, bn
  <2> QED
    BY <1>1, <1>2, <2>2, <2>3
<1>7. CASE \E at, j : Plain(i, at, j)
  <2>1. PICK at, j : Plain(i, at, j)
    BY <1>7
  <2> QED
    BY <1>6, <2>1 DEF Plain
<1>8. CASE \E j : ToLoad(i, j)
  <2>1. PICK j : ToLoad(i, j)
    BY <1>8
  <2> QED
    BY <1>6, <2>1 DEF ToLoad, Steps
<1>9. CASE \E f, j : Stores(i, f, j)
  <2>1. PICK f, j : Stores(i, f, j)
    BY <1>9
  <2> QED
    BY <1>6, <2>1 DEF Stores, Steps
<1>10. CASE \E at, j, p, u : Sends(i, at, j, p, u) /\ Sent(i, p, u)
  <2>1. PICK at, j, p, u : Sends(i, at, j, p, u) /\ Sent(i, p, u)
    BY <1>10
  <2>2. pc[i] /= "idle"
    BY <2>1 DEF Sent
  <2> QED
    BY <1>6, <2>1, <2>2 DEF Sends
<1> QED
  BY <1>4, <1>5, <1>7, <1>8, <1>9, <1>10 DEF Effect

LEMMA OtherOutstanding ==
  ASSUME Types, Outstanding,
         \/ \E p \in Paths : \/ Write(p) \/ Remove(p) \/ removeCache(p)
                             \/ \E mode \in Modes : index(p, mode)
         \/ reload \/ main_OnIndexed
  PROVE  Outstanding'
<1> DEFINE c == Counted(index_request)
           b == Cardinality(Busy)
           cn == Counted(index_request')
           bn == Cardinality(Busy')
<1>1. /\ enqueued \in Nat /\ completed \in Nat /\ c \in Nat /\ b \in Nat
      /\ index_request \in RequestQueues /\ Len(Entries) \in Nat
  BY BusyType, CountedType, PipelineAssumption DEF Types
<1>2. enqueued - completed = c + b
  BY DEF Outstanding
<1>3. SUFFICES enqueued' - completed' = cn + bn
  BY DEF Outstanding
<1>4. pc' = pc /\ completed' = completed
  BY DEF Write, Remove, removeCache, index, reload, main_OnIndexed
<1>5. bn = b
  BY <1>4 DEF Busy
<1>6. ASSUME NEW p \in Paths, NEW mode \in Modes, index(p, mode) PROVE enqueued' - completed' = cn + bn
  <2>1. /\ enqueued' = enqueued + 1
        /\ index_request' = PushBack(index_request, Request(p, mode), Urgent(mode))
    BY <1>6 DEF index
  <2>2. cn = c + 1
    <3>1. CASE mode = "Background"
      BY <1>1, <2>1, <3>1, PushBackground DEF Urgent
    <3>2. CASE mode \in {"Normal", "Delete"}
      <4>1. Urgent(mode) = TRUE
        BY <3>2 DEF Urgent
      <4> QED
        BY <1>1, <2>1, <3>2, <4>1, PushUrgent
    <3> QED
      BY <3>1, <3>2, PipelineAssumption
  <2> HIDE DEF c, b, cn, bn
  <2> QED
    BY <1>1, <1>2, <1>4, <1>5, <2>1, <2>2
<1>7. CASE reload
  <2>1. PICK open \in SUBSET EntrySet : index_request' = ProjectIndex(index_request, open)
    BY <1>7 DEF reload
  <2>2. EntrySet \subseteq Paths /\ enqueued' = enqueued + Len(Entries)
    BY <1>7, PipelineAssumption DEF EntrySet, reload
  <2>3. cn = c + Len(Entries)
    BY <1>1, <2>1, <2>2, ProjectIndexed
  <2> HIDE DEF c, b, cn, bn
  <2> QED
    BY <1>1, <1>2, <1>4, <1>5, <2>2, <2>3
<1>8. CASE \/ \E p \in Paths : Write(p) \/ Remove(p) \/ removeCache(p)
           \/ main_OnIndexed
  <2>1. enqueued' = enqueued /\ index_request' = index_request
    BY <1>8 DEF Write, Remove, removeCache, main_OnIndexed
  <2> QED
    BY <1>2, <1>4, <1>5, <2>1
<1> QED
  BY <1>6, <1>7, <1>8

\* IndexStats, which reindexing and the progress report go by: however requests
\* come, are refused, fail or are reloaded, the two counters differ by exactly the
\* requests that wait and those that are worked on.
THEOREM OutstandingHolds == Spec => []Outstanding
<1>1. Init => Types /\ Outstanding
  BY InitTypes, InitOutstanding
<1>2. Types /\ Outstanding /\ [Next]_vars => (Types /\ Outstanding)'
  <2> SUFFICES ASSUME Types, Outstanding, [Next]_vars PROVE Types' /\ Outstanding'
    OBVIOUS
  <2>1. CASE \E i \in Indexers : indexer_Parse(i)
    BY <2>1, Effects, EffectOutstanding, TypesStep
  <2>2. CASE UNCHANGED vars
    <3>1. Outstanding'
      BY <2>2 DEF Outstanding, Busy, vars
    <3> QED
      BY <3>1, TypesStep
  <2> QED
    BY <2>1, <2>2, OtherOutstanding, TypesStep DEF Next
<1> QED
  BY <1>1, <1>2, PTL DEF Spec
----------------------------------------------------------------------------
(* That a file's reference counts add up and that the pipeline implements  *)
(* IndexedDB hold whatever urgent and background work meets.  They do not  *)
(* hold of the code, and are not proved, where a reload comes while work   *)
(* is under way (the updates that wait start from a database that was      *)
(* cleared meanwhile), or where there are reloads and index files are kept *)
(* in memory only after several loads (a reload clears the counts of loads *)
(* and not the index files, which grow stale then).                        *)

Scope == ~BusyReload /\ (RetainInMemory <= 1 \/ MaxReloads = 0)

----------------------------------------------------------------------------
(* The inductive invariant *)

\* The mutexes of the files.
Holding(i) == pc[i] \in {"load", "push"}
Mutex == \A i, k \in Indexers : i /= k /\ Holding(i) /\ Holding(k) => job[i].file /= job[k].file

\* The content of the index file of p that memory and the cache hold.
Kept(p) == ContentOf(rawCacheLoad(p))

\* A copy in memory is only there if the settings and the loads allow it, and is
\* the same as the cache file if there are cache files.
StoreInv ==
  \A p \in Paths :
    /\ g_index[p] /= None =>
         RetainInMemory > 0 /\ (RetainInMemory = 1 \/ RetainInMemory <= vfs[p].loaded + 1)
    /\ CacheDirectory /\ g_index[p] /= None => ContentOf(g_index[p]) = ContentOf(cache[p])
    /\ ~CacheDirectory => cache[p] = None

\* An indexer that holds a file's mutex: what it is about to send is what is kept,
\* and what it loads is not loaded yet.
Ready(i) ==
  /\ pc[i] = "push" => Kept(job[i].file) = ContentOf(NewIndex(job[i], job[i].file))
  /\ pc[i] = "load" => /\ job[i].file = job[i].path /\ vfs[job[i].path].loaded = 0
                       /\ ContentOf(job[i].prev) = Kept(job[i].path)

HeldInv == \A i \in Indexers : Ready(i)

Inv == Types /\ Mutex /\ StoreInv /\ HeldInv /\ CountsAddUp

Image(c) == Abstract!Image(c)

----------------------------------------------------------------------------
(* Counting the updates in a queue *)

\* The number of elements of s in P.
Count(s, P) == Cardinality({k \in DOMAIN s : s[k] \in P})

LEMMA CountType ==
  ASSUME NEW S, NEW s \in Seq(S), NEW P
  PROVE  Count(s, P) \in Nat /\ IsFiniteSet({k \in DOMAIN s : s[k] \in P})
<1>1. Len(s) \in Nat /\ DOMAIN s = 1..Len(s)
  BY LenProperties
<1>2. IsFiniteSet(DOMAIN s)
  BY <1>1, FS_Interval
<1>3. {k \in DOMAIN s : s[k] \in P} \subseteq DOMAIN s
  OBVIOUS
<1> QED
  BY <1>2, <1>3, FS_Subset, FS_CardinalityType DEF Count

LEMMA CountAppend ==
  ASSUME NEW S, NEW s \in Seq(S), NEW u \in S, NEW P
  PROVE  Count(Append(s, u), P) = Count(s, P) + (IF u \in P THEN 1 ELSE 0)
<1> DEFINE n == Len(s)
           t == Append(s, u)
           A == {k \in DOMAIN s : s[k] \in P}
           B == {k \in DOMAIN t : t[k] \in P}
<1>1. /\ n \in Nat /\ DOMAIN s = 1..n /\ DOMAIN t = 1..(n + 1)
      /\ t[n + 1] = u /\ \A k \in 1..n : t[k] = s[k]
  BY AppendProperties, LenProperties
<1>2. IsFiniteSet(A) /\ Cardinality(A) \in Nat /\ n + 1 \notin A
  <2>1. IsFiniteSet(A) /\ Cardinality(A) \in Nat
    BY CountType DEF Count
  <2>2. n + 1 \notin DOMAIN s
    BY <1>1
  <2> QED
    BY <2>1, <2>2
<1>3. B = IF u \in P THEN A \cup {n + 1} ELSE A
  <2> HIDE DEF t, n
  <2>1. \A k : k \in 1..(n + 1) <=> k \in 1..n \/ k = n + 1
    BY <1>1
  <2> QED
    BY <1>1, <2>1
<1>4. Cardinality(A \cup {n + 1}) = Cardinality(A) + 1
  BY <1>2, FS_AddElement
<1> HIDE DEF A, B, t, n
<1>5. Cardinality(B) = Cardinality(A) + (IF u \in P THEN 1 ELSE 0)
  BY <1>2, <1>3, <1>4
<1> QED
  BY <1>5 DEF Count, A, B, t

LEMMA CountTail ==
  ASSUME NEW S, NEW s \in Seq(S), s /= <<>>, NEW P
  PROVE  Count(s, P) = Count(Tail(s), P) + (IF Head(s) \in P THEN 1 ELSE 0)
<1> DEFINE t == Tail(s)
           n == Len(t)
           A == {k \in DOMAIN s : s[k] \in P}
           B == {k \in DOMAIN t : t[k] \in P}
           C == A \ {1}
           f == [k \in B |-> k + 1]
<1>1. /\ t \in Seq(S) /\ n \in Nat /\ DOMAIN t = 1..n /\ DOMAIN s = 1..(n + 1)
      /\ Head(s) = s[1] /\ \A k \in 1..n : t[k] = s[k + 1]
  BY HeadTailProperties, LenProperties, EmptySeq
<1>2. IsFiniteSet(A) /\ IsFiniteSet(B) /\ Cardinality(A) \in Nat /\ Cardinality(B) \in Nat
  BY <1>1, CountType DEF Count
<1> HIDE DEF t, n
<1>3. f \in Bijection(B, C)
  <2>1. ASSUME NEW k \in B PROVE k + 1 \in C
    BY <1>1
  <2>2. ASSUME NEW k \in C PROVE k - 1 \in B /\ k = (k - 1) + 1
    BY <1>1
  <2>3. B \subseteq Int
    BY <1>1
  <2> HIDE DEF B, C
  <2>4. f \in [B -> C]
    BY <2>1
  <2>5. ASSUME NEW k \in C PROVE \E l \in B : f[l] = k
    <3>1. k - 1 \in B /\ k = (k - 1) + 1
      BY <2>2
    <3>2. f[k - 1] = k
      BY <3>1
    <3> QED
      BY <3>1, <3>2
  <2>6. ASSUME NEW k \in B, NEW l \in B, f[k] = f[l] PROVE k = l
    <3>1. f[k] = k + 1 /\ f[l] = l + 1 /\ k \in Int /\ l \in Int
      BY <2>3
    <3> QED
      BY <2>6, <3>1
  <2> HIDE DEF f
  <2> QED
    BY <2>4, <2>5, <2>6 DEF Bijection, Injection, Surjection, IsInjective
<1>4. Cardinality(C) = Cardinality(B)
  <2>1. ExistsBijection(B, C)
    BY <1>3 DEF ExistsBijection
  <2> QED
    BY <1>2, <2>1, FS_Bijection
<1>5. Cardinality(C) = IF 1 \in A THEN Cardinality(A) - 1 ELSE Cardinality(A)
  BY <1>2, FS_RemoveElement
<1>6. 1 \in A <=> Head(s) \in P
  BY <1>1
<1> HIDE DEF A, B, C
<1>7. Cardinality(A) = Cardinality(B) + (IF Head(s) \in P THEN 1 ELSE 0)
  BY <1>2, <1>4, <1>5, <1>6
<1> QED
  BY <1>7 DEF Count, A, B, t

\* The updates of p that start from c and those that end at it.
Starts(p, c) == {u \in Updates : u.path = p /\ u.prev = c}
Ends(p, c) == {u \in Updates : u.path = p /\ u.curr = c}

\* What an update does to the count of c in p.
Worth(u, p, c) == IF u.path = p THEN Delta(c, u.curr) - Delta(c, u.prev) ELSE 0

LEMMA OutcomeIs ==
  ASSUME NEW s \in Seq(Updates), NEW p, NEW c
  PROVE  /\ Outcome(s, p, c) = Count(s, Ends(p, c)) - Count(s, Starts(p, c))
         /\ Count(s, Ends(p, c)) \in Nat /\ Count(s, Starts(p, c)) \in Nat
         /\ Outcome(s, p, c) \in Int
<1>1. \A k \in DOMAIN s : s[k] \in Updates
  BY LenProperties
<1>2. /\ {k \in DOMAIN s : s[k].path = p /\ s[k].curr = c} = {k \in DOMAIN s : s[k] \in Ends(p, c)}
      /\ {k \in DOMAIN s : s[k].path = p /\ s[k].prev = c} = {k \in DOMAIN s : s[k] \in Starts(p, c)}
  BY <1>1 DEF Starts, Ends
<1>3. Outcome(s, p, c) = Count(s, Ends(p, c)) - Count(s, Starts(p, c))
  BY <1>2 DEF Outcome, Count
<1>4. Count(s, Ends(p, c)) \in Nat /\ Count(s, Starts(p, c)) \in Nat
  BY CountType
<1> QED
  BY <1>3, <1>4

LEMMA WorthIs ==
  ASSUME NEW u \in Updates, NEW p, NEW c
  PROVE  /\ Worth(u, p, c) = (IF u \in Ends(p, c) THEN 1 ELSE 0)
                             - (IF u \in Starts(p, c) THEN 1 ELSE 0)
         /\ Worth(u, p, c) \in Int
  BY DEF Worth, Starts, Ends, Delta

LEMMA OutcomeAppend ==
  ASSUME NEW s \in Seq(Updates), NEW u \in Updates, NEW p, NEW c
  PROVE  Outcome(Append(s, u), p, c) = Outcome(s, p, c) + Worth(u, p, c)
<1> DEFINE t == Append(s, u)
<1>1. t \in Seq(Updates)
  BY AppendProperties
<1>2. /\ Count(t, Ends(p, c)) = Count(s, Ends(p, c)) + (IF u \in Ends(p, c) THEN 1 ELSE 0)
      /\ Count(t, Starts(p, c)) = Count(s, Starts(p, c)) + (IF u \in Starts(p, c) THEN 1 ELSE 0)
  BY CountAppend
<1> HIDE DEF t
<1>3. /\ Outcome(s, p, c) = Count(s, Ends(p, c)) - Count(s, Starts(p, c))
      /\ Outcome(t, p, c) = Count(t, Ends(p, c)) - Count(t, Starts(p, c))
      /\ Count(s, Ends(p, c)) \in Nat /\ Count(s, Starts(p, c)) \in Nat
  BY <1>1, OutcomeIs
<1>4. Worth(u, p, c) = (IF u \in Ends(p, c) THEN 1 ELSE 0) - (IF u \in Starts(p, c) THEN 1 ELSE 0)
  BY WorthIs
<1>5. Outcome(t, p, c) = Outcome(s, p, c) + Worth(u, p, c)
  BY <1>2, <1>3, <1>4
<1> QED
  BY <1>5 DEF t

LEMMA OutcomeTail ==
  ASSUME NEW s \in Seq(Updates), s /= <<>>, NEW p, NEW c
  PROVE  Outcome(s, p, c) = Outcome(Tail(s), p, c) + Worth(Head(s), p, c)
<1> DEFINE t == Tail(s)
           u == Head(s)
<1>1. t \in Seq(Updates) /\ u \in Updates
  BY HeadTailProperties
<1>2. /\ Count(s, Ends(p, c)) = Count(t, Ends(p, c)) + (IF u \in Ends(p, c) THEN 1 ELSE 0)
      /\ Count(s, Starts(p, c)) = Count(t, Starts(p, c)) + (IF u \in Starts(p, c) THEN 1 ELSE 0)
  BY CountTail
<1> HIDE DEF t, u
<1>3. /\ Outcome(s, p, c) = Count(s, Ends(p, c)) - Count(s, Starts(p, c))
      /\ Outcome(t, p, c) = Count(t, Ends(p, c)) - Count(t, Starts(p, c))
      /\ Count(t, Ends(p, c)) \in Nat /\ Count(t, Starts(p, c)) \in Nat
  BY <1>1, OutcomeIs
<1>4. Worth(u, p, c) = (IF u \in Ends(p, c) THEN 1 ELSE 0) - (IF u \in Starts(p, c) THEN 1 ELSE 0)
  BY <1>1, WorthIs
<1>5. Outcome(s, p, c) = Outcome(t, p, c) + Worth(u, p, c)
  BY <1>2, <1>3, <1>4
<1> QED
  BY <1>5 DEF t, u

\* The same of both deques together.
Both(q, p, c) == Outcome(q.priority_, p, c) + Outcome(q.queue_, p, c)

LEMMA BothPush ==
  ASSUME NEW q \in UpdateQueues, NEW u \in Updates, NEW b \in BOOLEAN, NEW p, NEW c
  PROVE  Both(PushBack(q, u, b), p, c) = Both(q, p, c) + Worth(u, p, c)
<1> DEFINE x == q.priority_
           y == q.queue_
           w == Worth(u, p, c)
<1>1. x \in Seq(Updates) /\ y \in Seq(Updates)
  BY DEF UpdateQueues
<1>2. /\ Outcome(Append(x, u), p, c) = Outcome(x, p, c) + w
      /\ Outcome(Append(y, u), p, c) = Outcome(y, p, c) + w
      /\ Outcome(x, p, c) \in Int /\ Outcome(y, p, c) \in Int /\ w \in Int
  <2>1. /\ Outcome(Append(x, u), p, c) = Outcome(x, p, c) + w
        /\ Outcome(Append(y, u), p, c) = Outcome(y, p, c) + w
    BY <1>1, OutcomeAppend
  <2>2. Outcome(x, p, c) \in Int /\ Outcome(y, p, c) \in Int
    BY <1>1, OutcomeIs
  <2>3. w \in Int
    BY WorthIs
  <2> QED
    BY <2>1, <2>2, <2>3
<1>3. \/ PushBack(q, u, b).priority_ = Append(x, u) /\ PushBack(q, u, b).queue_ = y
      \/ PushBack(q, u, b).priority_ = x /\ PushBack(q, u, b).queue_ = Append(y, u)
  BY DEF PushBack, UpdateQueues
<1> HIDE DEF x, y, w
<1>4. Both(q, p, c) = Outcome(x, p, c) + Outcome(y, p, c)
  BY DEF Both, x, y
<1>5. \/ Both(PushBack(q, u, b), p, c) = Outcome(Append(x, u), p, c) + Outcome(y, p, c)
      \/ Both(PushBack(q, u, b), p, c) = Outcome(x, p, c) + Outcome(Append(y, u), p, c)
  BY <1>3 DEF Both
<1>6. Both(PushBack(q, u, b), p, c) = Both(q, p, c) + w
  BY <1>2, <1>4, <1>5
<1> QED
  BY <1>6 DEF w

LEMMA BothPop ==
  ASSUME NEW q \in UpdateQueues, q /= EmptyQueue, NEW p, NEW c
  PROVE  Both(q, p, c) = Both(PopFront(q), p, c) + Worth(Head(InOrder(q)), p, c)
<1> DEFINE x == q.priority_
           y == q.queue_
           r == PopFront(q)
           u == Head(InOrder(q))
<1>1. x \in Seq(Updates) /\ y \in Seq(Updates)
  BY DEF UpdateQueues
<1>2. Popped(q, u, r, Updates, Updates)
  BY QueuesPop
<1> HIDE DEF r, u
<1>3. CASE x /= <<>> /\ u = Head(x) /\ r.priority_ = Tail(x) /\ r.queue_ = y
  <2>1. Outcome(x, p, c) = Outcome(Tail(x), p, c) + Worth(u, p, c)
    BY <1>1, <1>3, OutcomeTail
  <2>2. /\ Outcome(x, p, c) \in Int /\ Outcome(y, p, c) \in Int
        /\ Outcome(Tail(x), p, c) \in Int /\ Worth(u, p, c) \in Int
    <3>1. Tail(x) \in Seq(Updates) /\ Head(x) \in Updates
      BY <1>1, <1>3, HeadTailProperties
    <3> QED
      BY <1>1, <1>3, <3>1, OutcomeIs, WorthIs
  <2>3. Both(q, p, c) = Outcome(x, p, c) + Outcome(y, p, c)
        /\ Both(r, p, c) = Outcome(Tail(x), p, c) + Outcome(y, p, c)
    BY <1>3 DEF Both
  <2> HIDE DEF x, y
  <2>4. Both(q, p, c) = Both(r, p, c) + Worth(u, p, c)
    BY <2>1, <2>2, <2>3
  <2> QED
    BY <2>4 DEF r, u
<1>4. CASE /\ x = <<>> /\ y /= <<>> /\ u = Head(y)
           /\ r.priority_ = <<>> /\ r.queue_ = Tail(y)
  <2>1. Outcome(y, p, c) = Outcome(Tail(y), p, c) + Worth(u, p, c)
    BY <1>1, <1>4, OutcomeTail
  <2>2. /\ Outcome(x, p, c) \in Int /\ Outcome(y, p, c) \in Int
        /\ Outcome(Tail(y), p, c) \in Int /\ Worth(u, p, c) \in Int
    <3>1. Tail(y) \in Seq(Updates) /\ Head(y) \in Updates
      BY <1>1, <1>4, HeadTailProperties
    <3> QED
      BY <1>1, <1>4, <3>1, OutcomeIs, WorthIs
  <2>3. Both(q, p, c) = Outcome(x, p, c) + Outcome(y, p, c)
        /\ Both(r, p, c) = Outcome(x, p, c) + Outcome(Tail(y), p, c)
    BY <1>4 DEF Both
  <2> HIDE DEF x, y
  <2>4. Both(q, p, c) = Both(r, p, c) + Worth(u, p, c)
    BY <2>1, <2>2, <2>3
  <2> QED
    BY <2>4 DEF r, u
<1> QED
  BY <1>2, <1>3, <1>4 DEF Popped

LEMMA BothEmpty ==
  ASSUME NEW p, NEW c
  PROVE  Both(EmptyQueue, p, c) = 0
<1>1. Outcome(<<>>, p, c) = 0
  <2> DEFINE e == <<>>
  <2>1. DOMAIN e = {}
    OBVIOUS
  <2> HIDE DEF e
  <2>2. {k \in DOMAIN e : e[k].path = p /\ e[k].curr = c} = {}
        /\ {k \in DOMAIN e : e[k].path = p /\ e[k].prev = c} = {}
    BY <2>1
  <2>3. Outcome(e, p, c) = Cardinality({}) - Cardinality({})
    BY <2>2 DEF Outcome
  <2> QED
    BY <2>3, FS_EmptySet DEF e
<1> QED
  BY <1>1 DEF Both, EmptyQueue

----------------------------------------------------------------------------
(* The mutexes *)

LEMMA MutexMoves ==
  ASSUME Types, Mutex, NEW i \in Indexers, NEW at \in Steps, NEW j \in Locals,
         Moves(i, at, j), JobAt(at, j),
         at \in {"load", "push"} => FileMutexFree(j.file)
  PROVE  Mutex'
<1>1. /\ pc'[i] = at /\ job'[i] = j
      /\ \A k \in Indexers \ {i} : pc'[k] = pc[k] /\ job'[k] = job[k]
  BY MovesTyped
<1>2. ASSUME NEW k \in Indexers, NEW l \in Indexers, k /= l, Holding(k)', Holding(l)'
      PROVE  job'[k].file /= job'[l].file
  <2>1. CASE k = i
    <3>1. at \in {"load", "push"} /\ pc[l] \in {"load", "push"} /\ job'[l] = job[l]
      BY <1>1, <1>2, <2>1 DEF Holding
    <3> QED
      BY <1>1, <2>1, <3>1 DEF FileMutexFree
  <2>2. CASE l = i
    <3>1. at \in {"load", "push"} /\ pc[k] \in {"load", "push"} /\ job'[k] = job[k]
      BY <1>1, <1>2, <2>2 DEF Holding
    <3> QED
      BY <1>1, <2>2, <3>1 DEF FileMutexFree
  <2>3. CASE k /= i /\ l /= i
    BY <1>1, <1>2, <2>3 DEF Mutex, Holding
  <2> QED
    BY <2>1, <2>2, <2>3
<1> QED
  BY <1>2 DEF Mutex

LEMMA EffectMutex ==
  ASSUME Types, Mutex, NEW i \in Indexers, Effect(i)
  PROVE  Mutex'
<1>1. CASE Refuse(i)
  <2>1. UNCHANGED <<pc, job>>
    BY <1>1 DEF Refuse
  <2> QED
    BY <2>1 DEF Mutex, Holding
<1>2. CASE \E at, j : Takes(i, at, j)
  BY <1>2, MutexMoves DEF Takes, Steps
<1>3. CASE \E at, j : Plain(i, at, j)
  BY <1>3, MutexMoves DEF Plain, Goes
<1>4. CASE \E j : ToLoad(i, j)
  BY <1>4, MutexMoves DEF ToLoad, Goes, Steps
<1>5. CASE \E f, j : Stores(i, f, j)
  BY <1>5, MutexMoves DEF Stores, Goes, Steps
<1>6. CASE \E at, j, p, u : Sends(i, at, j, p, u) /\ Sent(i, p, u)
  BY <1>6, MutexMoves DEF Sends, Goes
<1> QED
  BY <1>1, <1>2, <1>3, <1>4, <1>5, <1>6 DEF Effect

----------------------------------------------------------------------------
(* What the steps do to the index files stored and the updates sent *)

\* Nothing is stored anew, and nothing but a refresh of the highlighting sent.
Keeping ==
  /\ db' = db /\ \A q \in Paths : Stored(q)' = Stored(q)
  /\ on_indexed' = on_indexed \/ on_indexed' = PushBack(on_indexed, RefreshUpdate, FALSE)

\* The update u of p is sent in class c: it leads from what was stored to what is.
Sending(p, u, c) ==
  /\ db' = db /\ on_indexed' = PushBack(on_indexed, u, c)
  /\ u.path = p /\ u.prev = Stored(p) /\ u.curr = Stored(p)'
  /\ \A q \in Paths \ {p} : Stored(q)' = Stored(q)

\* An update is applied.
Applying == main_OnIndexed /\ \A q \in Paths : Stored(q)' = Stored(q)

\* A reload: nothing waits, and all is forgotten.
Resetting ==
  /\ on_indexed = EmptyQueue /\ on_indexed' = EmptyQueue
  /\ db' = [p \in Paths |-> NotIndexed] /\ \A q \in Paths : Stored(q)' = None

DataStep ==
  \/ Keeping \/ Applying \/ Resetting
  \/ \E p \in Paths, u \in Updates, c \in BOOLEAN : Sending(p, u, c)

LEMMA KeptSame ==
  ASSUME NEW q, g_index'[q] = g_index[q], cache'[q] = cache[q]
  PROVE  Kept(q)' = Kept(q)
  BY DEF Kept, rawCacheLoad

\* What is stored of a file that an indexer is about to push, and of any other.
LEMMA StoredOf ==
  ASSUME NEW q, NEW i, Storing(q) = {i}
  PROVE  Stored(q) = ContentOf(job[i].prev)
<1>1. (CHOOSE k \in Storing(q) : TRUE) = i
  OBVIOUS
<1> QED
  BY <1>1 DEF Stored

LEMMA StoredThen ==
  ASSUME NEW q, NEW i, Storing(q)' = {i}
  PROVE  Stored(q)' = ContentOf(job'[i].prev)
<1>1. (CHOOSE k \in Storing(q)' : TRUE) = i
  OBVIOUS
<1> QED
  BY <1>1 DEF Stored

LEMMA StoredElse ==
  ASSUME NEW q
  PROVE  /\ Storing(q) = {} => Stored(q) = IF vfs[q].loaded > 0 THEN Kept(q) ELSE None
         /\ Storing(q)' = {} => Stored(q)' = IF vfs'[q].loaded > 0 THEN Kept(q)' ELSE None
  BY DEF Stored, Kept

LEMMA StoredSame ==
  ASSUME NEW q, Storing(q)' = Storing(q), \A k \in Storing(q) : job'[k] = job[k],
         vfs'[q].loaded = vfs[q].loaded, Kept(q)' = Kept(q)
  PROVE  Stored(q)' = Stored(q)
<1>1. CASE Storing(q) = {}
  BY <1>1, StoredElse
<1>2. CASE Storing(q) /= {}
  <2> DEFINE i == CHOOSE k \in Storing(q) : TRUE
  <2>1. i \in Storing(q) /\ job'[i] = job[i]
    BY <1>2
  <2>2. Stored(q) = ContentOf(job[i].prev)
    BY <1>2 DEF Stored
  <2>3. Stored(q)' = ContentOf(job'[i].prev)
    <3>1. (CHOOSE k \in Storing(q) : TRUE)' = i
      OBVIOUS
    <3> HIDE DEF i
    <3> QED
      BY <1>2, <3>1 DEF Stored
  <2> HIDE DEF i
  <2> QED
    BY <2>1, <2>2, <2>3
<1> QED
  BY <1>1, <1>2

\* A file of which nothing changes.
Same(q) == vfs'[q].loaded = vfs[q].loaded /\ Kept(q)' = Kept(q)

LEMMA AllSame ==
  ASSUME UNCHANGED <<g_index, cache>>, \A q \in Paths : vfs'[q].loaded = vfs[q].loaded
  PROVE  (\A q \in Paths : Same(q)) /\ (StoreInv => StoreInv')
<1>1. \A q \in Paths : Same(q)
  BY KeptSame DEF Same
<1>2. StoreInv => StoreInv'
  BY DEF StoreInv
<1> QED
  BY <1>1, <1>2

\* Steps of others than the indexers that leave every file the same.
LEMMA StillHeld ==
  ASSUME Types, HeldInv, UNCHANGED <<pc, job>>, \A q \in Paths : Same(q)
  PROVE  HeldInv' /\ \A q \in Paths : Stored(q)' = Stored(q)
<1>1. ASSUME NEW i \in Indexers PROVE Ready(i)'
  <2>1. JobAt(pc[i], job[i]) /\ Ready(i)
    BY TypesOf DEF HeldInv
  <2>2. NewIndex(job[i], job[i].file)' = NewIndex(job[i], job[i].file)
    BY DEF NewIndex
  <2>3. pc[i] \in {"load", "push"} => Same(job[i].file)
    BY <2>1 DEF JobAt
  <2> QED
    BY <2>1, <2>2, <2>3 DEF Ready, Same
<1>2. ASSUME NEW q \in Paths PROVE Stored(q)' = Stored(q)
  <2>1. Storing(q)' = Storing(q)
    BY DEF Storing
  <2> QED
    BY <2>1, StoredSame DEF Same
<1> QED
  BY <1>1, <1>2 DEF HeldInv

\* A step of indexer i that changes only the files of F, which no other indexer
\* holds.
LEMMA OthersHeld ==
  ASSUME Types, HeldInv, NEW i \in Indexers, NEW at \in Steps, NEW j \in Locals,
         Moves(i, at, j), JobAt(at, j), NEW F \in SUBSET Paths,
         \A q \in Paths \ F : Same(q),
         \A k \in Indexers \ {i} : Holding(k) => job[k].file \notin F,
         pc[i] = "push" => job[i].file \in F, at = "push" => j.file \in F, Ready(i)'
  PROVE  HeldInv' /\ \A q \in Paths \ F : Stored(q)' = Stored(q)
<1>1. /\ pc'[i] = at /\ job'[i] = j
      /\ \A k \in Indexers \ {i} : pc'[k] = pc[k] /\ job'[k] = job[k]
  BY MovesTyped
<1>2. ASSUME NEW q \in Paths \ F PROVE Stored(q)' = Stored(q)
  <2>1. Storing(q)' = Storing(q) /\ i \notin Storing(q)
    BY <1>1 DEF Storing
  <2>2. \A k \in Storing(q) : job'[k] = job[k]
    BY <1>1, <2>1 DEF Storing
  <2> QED
    BY <2>1, <2>2, StoredSame DEF Same
<1>3. ASSUME NEW k \in Indexers \ {i} PROVE Ready(k)'
  <2>1. JobAt(pc[k], job[k]) /\ Ready(k) /\ pc'[k] = pc[k] /\ job'[k] = job[k]
    BY <1>1, TypesOf DEF HeldInv
  <2>2. NewIndex(job[k], job[k].file)' = NewIndex(job[k], job[k].file)
    BY <2>1 DEF NewIndex
  <2>3. pc[k] \in {"load", "push"} => Same(job[k].file)
    BY <2>1 DEF JobAt, Holding
  <2> QED
    BY <2>1, <2>2, <2>3 DEF Ready, Same
<1> QED
  BY <1>2, <1>3 DEF HeldInv

\* What is proved of every step.
Goal == StoreInv' /\ HeldInv' /\ DataStep

\* An indexer at work, or taking a request, that changes no file's data.
LEMMA QuietData ==
  ASSUME Types, StoreInv, HeldInv, NEW i \in Indexers, NEW at \in Steps \ {"load", "push"},
         NEW j \in Locals, Moves(i, at, j), JobAt(at, j), pc[i] \notin {"load", "push"},
         UNCHANGED <<on_indexed, db, g_index, cache>>,
         \A q \in Paths : vfs'[q].loaded = vfs[q].loaded
  PROVE  Goal
<1>1. (\A q \in Paths : Same(q)) /\ StoreInv'
  BY AllSame
<1>2. pc'[i] = at
  BY MovesTyped
<1>3. Ready(i)'
  BY <1>2 DEF Ready
<1> DEFINE F == {}
<1>4. /\ F \in SUBSET Paths /\ (\A q \in Paths \ F : Same(q))
      /\ \A k \in Indexers \ {i} : Holding(k) => job[k].file \notin F
      /\ \A q \in Paths : q \in Paths \ F
  BY <1>1
<1> HIDE DEF F
<1>5. at \in Steps /\ (pc[i] = "push" => job[i].file \in F) /\ (at = "push" => j.file \in F)
  OBVIOUS
<1>6. HeldInv' /\ \A q \in Paths : Stored(q)' = Stored(q)
  BY <1>3, <1>4, <1>5, OthersHeld
<1> QED
  BY <1>1, <1>6 DEF Goal, DataStep, Keeping

LEMMA ToLoadData ==
  ASSUME Types, StoreInv, HeldInv, NEW i \in Indexers, NEW j, ToLoad(i, j)
  PROVE  Goal
<1>1. /\ j \in Locals /\ Moves(i, "load", j) /\ JobAt("load", j) /\ pc[i] = "cache"
      /\ j.file = j.path /\ vfs[j.file].loaded = 0 /\ j.prev = rawCacheLoad(j.file)
      /\ UNCHANGED <<on_indexed, db, g_index, cache, vfs>> /\ "load" \in Steps
  BY DEF ToLoad, Goes, Unchanged, Steps
<1>2. (\A q \in Paths : Same(q)) /\ StoreInv'
  BY <1>1, AllSame
<1>3. pc'[i] = "load" /\ job'[i] = j
  BY <1>1, MovesTyped
<1>4. Ready(i)'
  <2>1. ContentOf(j.prev) = Kept(j.path)'
    BY <1>1 DEF Kept, rawCacheLoad
  <2> QED
    BY <1>1, <1>3, <2>1 DEF Ready
<1> DEFINE F == {}
<1>5. /\ F \in SUBSET Paths /\ (\A q \in Paths \ F : Same(q))
      /\ \A k \in Indexers \ {i} : Holding(k) => job[k].file \notin F
      /\ \A q \in Paths : q \in Paths \ F
  BY <1>2
<1> HIDE DEF F
<1>6. HeldInv' /\ \A q \in Paths : Stored(q)' = Stored(q)
  BY <1>1, <1>4, <1>5, OthersHeld
<1> QED
  BY <1>1, <1>2, <1>6 DEF Goal, DataStep, Keeping

\* An index file is stored: what the next delta starts from is now in the hands of
\* the indexer, and memory and cache are one ahead of it.
LEMMA StoresData ==
  ASSUME Types, StoreInv, HeldInv, NEW i \in Indexers, NEW f, NEW j, Stores(i, f, j)
  PROVE  Goal
<1> DEFINE new == NewIndex(j, f)
           loaded == vfs[f].loaded
           inMemory == RetainInMemory > 0 /\ RetainInMemory <= loaded + 1
<1>1. /\ pc[i] = "store" /\ j \in Locals /\ Moves(i, "push", j) /\ JobAt("push", j)
      /\ f \in Matched /\ FileMutexFree(f) /\ j.file = f
      /\ j.prev = IF loaded > 0 THEN rawCacheLoad(f) ELSE None
      /\ j.deleted => ContentOf(new) = None
      /\ g_index' = IF inMemory THEN [g_index EXCEPT ![f] = new] ELSE g_index
      /\ cache' = IF ~CacheDirectory THEN cache
                  ELSE [cache EXCEPT ![f] = IF j.deleted THEN None ELSE new]
      /\ UNCHANGED <<on_indexed, db, vfs>> /\ "push" \in Steps
  BY DEF Stores, Goes, Unchanged, Steps
<1>2. /\ f \in Paths /\ loaded \in Nat /\ RetainInMemory \in Nat
      /\ g_index \in [Paths -> AnyFile \cup {None}] /\ cache \in [Paths -> AnyFile \cup {None}]
  BY <1>1, TypesOf, PipelineAssumption DEF Types
<1>4. /\ pc'[i] = "push" /\ job'[i] = j
      /\ \A k \in Indexers \ {i} : pc'[k] = pc[k] /\ job'[k] = job[k]
  BY <1>1, MovesTyped
<1> HIDE DEF new
<1>5. ~CacheDirectory => inMemory
  BY <1>2, PipelineAssumption
<1>6. ~inMemory => g_index[f] = None
  BY <1>2 DEF StoreInv
<1>n. ContentOf(None) = None
  BY DEF ContentOf
<1>7. Kept(f)' = ContentOf(new)
  <2>1. CASE inMemory
    <3>1. g_index'[f] = new /\ RetainInMemory > 0
      BY <1>1, <1>2, <2>1
    <3>2. CASE new /= None
      BY <3>1, <3>2 DEF Kept, rawCacheLoad
    <3>3. CASE new = None
      <4>1. cache'[f] = None
        BY <1>1, <1>2, <3>3 DEF StoreInv
      <4> QED
        BY <3>1, <3>3, <4>1 DEF Kept, rawCacheLoad
    <3> QED
      BY <3>2, <3>3
  <2>2. CASE ~inMemory
    <3>1. g_index'[f] = None /\ CacheDirectory
      BY <1>1, <1>5, <1>6, <2>2
    <3>2. cache'[f] = IF j.deleted THEN None ELSE new
      BY <1>1, <1>2, <3>1
    <3>3. rawCacheLoad(f)' = cache'[f]
      BY <3>1 DEF rawCacheLoad
    <3> QED
      BY <1>1, <1>n, <3>2, <3>3 DEF Kept
  <2> HIDE DEF inMemory
  <2> QED
    BY <2>1, <2>2
<1>8. StoreInv'
  <2>1. ASSUME NEW p \in Paths, p /= f
        PROVE  g_index'[p] = g_index[p] /\ cache'[p] = cache[p]
    BY <1>1, <1>2, <2>1
  <2>2. ASSUME g_index'[f] /= None
        PROVE  /\ RetainInMemory > 0 /\ RetainInMemory <= vfs[f].loaded + 1
               /\ CacheDirectory => ContentOf(g_index'[f]) = ContentOf(cache'[f])
    <3>1. inMemory /\ g_index'[f] = new
      BY <1>1, <1>2, <1>6, <2>2
    <3>2. CacheDirectory => cache'[f] = IF j.deleted THEN None ELSE new
      BY <1>1, <1>2
    <3>3. CacheDirectory => ContentOf(g_index'[f]) = ContentOf(cache'[f])
      BY <1>1, <1>n, <3>1, <3>2
    <3> QED
      BY <3>1, <3>3
  <2>3. ~CacheDirectory => cache' = cache
    BY <1>1
  <2> QED
    BY <1>1, <2>1, <2>2, <2>3 DEF StoreInv
<1>9. Ready(i)'
  <2>1. NewIndex(job'[i], f) = new
    BY <1>4 DEF new
  <2> QED
    BY <1>1, <1>2, <1>4, <1>7, <2>1 DEF Ready, NewIndex
<1>10. Stored(f)' = Stored(f)
  <2>1. Storing(f) = {} /\ Storing(f)' = {i}
    BY <1>1, <1>4 DEF Storing, FileMutexFree
  <2>2. Stored(f) = IF loaded > 0 THEN Kept(f) ELSE None
    BY <2>1, StoredElse
  <2>3. Stored(f)' = ContentOf(j.prev)
    BY <1>4, <2>1, StoredThen
  <2> QED
    BY <1>1, <1>n, <2>2, <2>3 DEF Kept
<1> DEFINE F == {f}
<1>11. \A q \in Paths \ F : Same(q)
  <2>1. ASSUME NEW q \in Paths, q /= f PROVE g_index'[q] = g_index[q] /\ cache'[q] = cache[q]
    BY <1>1, <1>2, <2>1
  <2> QED
    BY <1>1, <2>1, KeptSame DEF Same
<1>12. /\ F \in SUBSET Paths /\ j.file \in F /\ pc[i] /= "push"
       /\ \A k \in Indexers \ {i} : Holding(k) => job[k].file \notin F
       /\ \A q \in Paths : q = f \/ q \in Paths \ F
  BY <1>1, <1>2 DEF Holding, FileMutexFree
<1> HIDE DEF F
<1>13. HeldInv' /\ \A q \in Paths \ F : Stored(q)' = Stored(q)
  BY <1>1, <1>9, <1>11, <1>12, OthersHeld
<1>14. \A q \in Paths : Stored(q)' = Stored(q)
  <2>1. ASSUME NEW q \in Paths PROVE Stored(q)' = Stored(q)
    <3>1. CASE q = f
      BY <1>10, <3>1
    <3>2. CASE q \in Paths \ F
      BY <1>13, <3>2
    <3> QED
      BY <1>12, <3>1, <3>2
  <2> QED
    BY <2>1
<1> QED
  BY <1>1, <1>8, <1>13, <1>14 DEF Goal, DataStep, Keeping

\* What an indexer sends starts from what was stored and ends at what is kept, and
\* no other indexer holds the file.
LEMMA SentFacts ==
  ASSUME Types, Mutex, HeldInv, NEW i \in Indexers, NEW p \in Paths, NEW u, Sent(i, p, u)
  PROVE  /\ u.prev = Stored(p) /\ u.curr = Kept(p)
         /\ \A k \in Indexers \ {i} : Holding(k) => job[k].file /= p
         /\ pc[i] = "push" => job[i].file = p
<1>1. \A k \in Indexers : JobAt(pc[k], job[k]) /\ Ready(k)
  BY TypesOf DEF HeldInv
<1>2. CASE pc[i] = "load" /\ p = job[i].path /\ u.prev = None /\ u.curr = ContentOf(job[i].prev)
  <2>1. job[i].file = p /\ vfs[p].loaded = 0 /\ u.curr = Kept(p)
    BY <1>1, <1>2 DEF Ready
  <2>2. \A k \in Indexers \ {i} : Holding(k) => job[k].file /= p
    BY <1>2, <2>1 DEF Mutex, Holding
  <2>3. Storing(p) = {}
    BY <1>2, <2>2 DEF Storing, Holding
  <2>4. Stored(p) = None
    BY <2>1, <2>3, StoredElse
  <2> QED
    BY <1>2, <2>1, <2>2, <2>4
<1>3. CASE /\ pc[i] = "depload" /\ p = job[i].file /\ FileMutexFree(p) /\ vfs[p].loaded = 0
           /\ u.prev = None /\ u.curr = ContentOf(rawCacheLoad(p))
  <2>1. Storing(p) = {}
    BY <1>3 DEF Storing, FileMutexFree
  <2>2. Stored(p) = None
    BY <1>3, <2>1, StoredElse
  <2> QED
    BY <1>3, <2>2 DEF Kept, FileMutexFree, Holding
<1>4. CASE /\ pc[i] = "push" /\ p = job[i].file /\ u.prev = ContentOf(job[i].prev)
           /\ u.curr = ContentOf(NewIndex(job[i], p))
  <2>1. \A k \in Indexers \ {i} : Holding(k) => job[k].file /= p
    BY <1>4 DEF Mutex, Holding
  <2>2. Storing(p) = {i}
    BY <1>4, <2>1 DEF Storing, Holding
  <2>3. Stored(p) = u.prev
    BY <1>4, <2>2, StoredOf
  <2>4. Kept(p) = u.curr
    BY <1>1, <1>4 DEF Ready
  <2> QED
    BY <1>4, <2>1, <2>3, <2>4
<1> QED
  BY <1>2, <1>3, <1>4 DEF Sent

LEMMA SendsData ==
  ASSUME Types, Mutex, StoreInv, HeldInv, NEW i \in Indexers, NEW at, NEW j, NEW p, NEW u,
         Sends(i, at, j, p, u), Sent(i, p, u)
  PROVE  Goal
<1>1. /\ at \in Steps \ {"idle", "load", "push"} /\ j \in Locals
      /\ Moves(i, at, j) /\ JobAt(at, j) /\ p \in Paths /\ u \in Updates /\ u.path = p
      /\ on_indexed' = PushBack(on_indexed, u, job[i].urgent)
      /\ vfs'[p].loaded = vfs[p].loaded + 1
      /\ \A q \in Paths \ {p} : vfs'[q].loaded = vfs[q].loaded
      /\ UNCHANGED <<db, cache, g_index>>
  BY DEF Sends, Goes, Unchanged
<1>2. job[i].urgent \in BOOLEAN /\ vfs[p].loaded \in Nat /\ RetainInMemory \in Nat
  BY <1>1, TypesOf, PipelineAssumption DEF Locals
<1>3. /\ u.prev = Stored(p) /\ u.curr = Kept(p)
      /\ \A k \in Indexers \ {i} : Holding(k) => job[k].file /= p
      /\ pc[i] = "push" => job[i].file = p
  BY <1>1, SentFacts
<1>4. StoreInv'
  BY <1>1, <1>2 DEF StoreInv
<1>5. /\ pc'[i] = at /\ job'[i] = j
      /\ \A k \in Indexers \ {i} : pc'[k] = pc[k] /\ job'[k] = job[k]
  BY <1>1, MovesTyped
<1>6. Ready(i)'
  BY <1>1, <1>5 DEF Ready
<1> DEFINE F == {p}
<1>7. \A q \in Paths \ F : Same(q)
  BY <1>1, KeptSame DEF Same
<1>8. /\ F \in SUBSET Paths
      /\ \A k \in Indexers \ {i} : Holding(k) => job[k].file \notin F
      /\ pc[i] = "push" => job[i].file \in F
      /\ \A q \in Paths \ {p} : q \in Paths \ F
  BY <1>1, <1>3
<1> HIDE DEF F
<1>9. at \in Steps /\ at /= "push"
  BY <1>1
<1>10. HeldInv' /\ \A q \in Paths \ F : Stored(q)' = Stored(q)
  BY <1>1, <1>6, <1>7, <1>8, <1>9, OthersHeld
<1>11. Stored(p)' = u.curr
  <2>1. Storing(p)' = {}
    BY <1>3, <1>5, <1>9 DEF Storing, Holding
  <2>2. Stored(p)' = Kept(p)'
    BY <1>1, <1>2, <2>1, StoredElse
  <2>3. Kept(p)' = Kept(p)
    BY <1>1, KeptSame
  <2> QED
    BY <1>3, <2>2, <2>3
<1>12. Sending(p, u, job[i].urgent)
  BY <1>1, <1>3, <1>8, <1>10, <1>11 DEF Sending
<1> QED
  BY <1>1, <1>2, <1>4, <1>10, <1>12 DEF Goal, DataStep

LEMMA EffectData ==
  ASSUME Types, Mutex, StoreInv, HeldInv, NEW i \in Indexers, Effect(i)
  PROVE  Goal
<1>1. CASE Refuse(i)
  <2>1. /\ on_indexed' = on_indexed \/ on_indexed' = PushBack(on_indexed, RefreshUpdate, FALSE)
        /\ UNCHANGED <<pc, job, db, vfs, cache, g_index>>
    BY <1>1 DEF Refuse, Unchanged, storeVars
  <2>2. (\A q \in Paths : Same(q)) /\ StoreInv'
    BY <2>1, AllSame
  <2>3. HeldInv' /\ \A q \in Paths : Stored(q)' = Stored(q)
    BY <2>1, <2>2, StillHeld
  <2> QED
    BY <2>1, <2>2, <2>3 DEF Goal, DataStep, Keeping
<1>2. CASE \E at, j : Takes(i, at, j)
  <2>1. PICK at, j : Takes(i, at, j)
    BY <1>2
  <2>2. /\ at \in Steps \ {"load", "push"} /\ j \in Locals /\ Moves(i, at, j) /\ JobAt(at, j)
        /\ pc[i] \notin {"load", "push"} /\ UNCHANGED <<on_indexed, db, g_index, cache, vfs>>
    BY <2>1 DEF Takes, Unchanged, Steps
  <2> QED
    BY <2>2, QuietData
<1>3. CASE \E at, j : Plain(i, at, j)
  <2>1. PICK at, j : Plain(i, at, j)
    BY <1>3
  <2>2. /\ at \in Steps \ {"load", "push"} /\ j \in Locals /\ Moves(i, at, j) /\ JobAt(at, j)
        /\ pc[i] \notin {"load", "push"} /\ UNCHANGED <<on_indexed, db, g_index, cache>>
        /\ \A p \in Paths : vfs'[p].loaded = vfs[p].loaded
    BY <2>1 DEF Plain, Goes, Unchanged
  <2> QED
    BY <2>2, QuietData
<1>4. CASE \E j : ToLoad(i, j)
  BY <1>4, ToLoadData
<1>5. CASE \E f, j : Stores(i, f, j)
  BY <1>5, StoresData
<1>6. CASE \E at, j, p, u : Sends(i, at, j, p, u) /\ Sent(i, p, u)
  BY <1>6, SendsData
<1> QED
  BY <1>1, <1>2, <1>3, <1>4, <1>5, <1>6 DEF Effect

LEMMA OtherData ==
  ASSUME Types, StoreInv, HeldInv, Scope,
         \/ \E p \in Paths : \/ Write(p) \/ Remove(p) \/ removeCache(p)
                             \/ \E mode \in Modes : index(p, mode)
         \/ reload \/ main_OnIndexed
  PROVE  Goal
<1>1. ASSUME \/ main_OnIndexed
             \/ \E p \in Paths : Write(p) \/ Remove(p) \/ \E mode \in Modes : index(p, mode)
      PROVE  Goal
  <2>1. /\ UNCHANGED <<g_index, cache, vfs, pc, job>>
        /\ main_OnIndexed \/ UNCHANGED <<on_indexed, db>>
    BY <1>1 DEF main_OnIndexed, Write, Remove, index, storeVars
  <2>2. (\A q \in Paths : Same(q)) /\ StoreInv'
    BY <2>1, AllSame
  <2>3. HeldInv' /\ \A q \in Paths : Stored(q)' = Stored(q)
    BY <2>1, <2>2, StillHeld
  <2> QED
    BY <2>1, <2>2, <2>3 DEF Goal, DataStep, Keeping, Applying
<1>2. ASSUME NEW p \in Paths, removeCache(p) PROVE Goal
  <2>1. /\ CacheDirectory /\ g_index[p] /= None /\ g_index' = [g_index EXCEPT ![p] = None]
        /\ UNCHANGED <<on_indexed, db, cache, vfs, pc, job>>
    BY <1>2 DEF removeCache
  <2>2. g_index \in [Paths -> AnyFile \cup {None}]
    BY DEF Types
  <2>3. g_index'[p] = None /\ \A q \in Paths : q /= p => g_index'[q] = g_index[q]
    BY <2>1, <2>2
  <2>4. StoreInv'
    BY <2>1, <2>2, <2>3 DEF StoreInv
  <2>5. Kept(p)' = Kept(p)
    <3>1. Kept(p)' = ContentOf(cache[p])
      BY <2>1, <2>3 DEF Kept, rawCacheLoad
    <3>2. Kept(p) = ContentOf(g_index[p]) /\ ContentOf(g_index[p]) = ContentOf(cache[p])
      BY <2>1, <2>2 DEF StoreInv, Kept, rawCacheLoad
    <3> QED
      BY <3>1, <3>2
  <2>6. ASSUME NEW q \in Paths PROVE Kept(q)' = Kept(q)
    <3>1. CASE q = p
      BY <2>5, <3>1 DEF Kept, rawCacheLoad
    <3>2. CASE q /= p
      BY <2>1, <2>3, <3>2, KeptSame
    <3> QED
      BY <3>1, <3>2
  <2>7. \A q \in Paths : Same(q)
    BY <2>1, <2>6 DEF Same
  <2>8. HeldInv' /\ \A q \in Paths : Stored(q)' = Stored(q)
    BY <2>1, <2>7, StillHeld
  <2> QED
    BY <2>1, <2>4, <2>8 DEF Goal, DataStep, Keeping
<1>3. CASE reload
  <2>1. /\ Busy = {} /\ on_indexed = EmptyQueue /\ reloads < MaxReloads
        /\ vfs' = [p \in Paths |-> NeverSeen] /\ db' = [p \in Paths |-> NotIndexed]
        /\ UNCHANGED <<pc, job, on_indexed, cache, g_index>>
    BY <1>3 DEF reload, Quiet, Scope
  <2>2. RetainInMemory <= 1 /\ RetainInMemory \in Nat
    <3>1. reloads \in Nat /\ MaxReloads \in Nat /\ RetainInMemory \in Nat
      BY PipelineAssumption DEF Types
    <3> QED
      BY <2>1, <3>1 DEF Scope
  <2>3. \A p \in Paths : vfs'[p].loaded = 0
    BY <2>1 DEF NeverSeen
  <2>4. StoreInv'
    BY <2>1, <2>2 DEF StoreInv
  <2>5. HeldInv'
    BY <2>1 DEF HeldInv, Ready, Busy
  <2>6. \A q \in Paths : Stored(q)' = None
    <3>1. ASSUME NEW q \in Paths PROVE Storing(q)' = {}
      BY <2>1 DEF Storing, Busy
    <3> QED
      BY <2>3, <3>1, StoredElse
  <2> QED
    BY <2>1, <2>4, <2>5, <2>6 DEF Goal, DataStep, Resetting
<1> QED
  BY <1>1, <1>2, <1>3

----------------------------------------------------------------------------
(* The counts add up *)

LEMMA CountsAre ==
  ASSUME Types
  PROVE  CountsAddUp <=> \A p \in Paths, c \in Contents :
           db[p].refcnt[c] + Both(on_indexed, p, c) = Delta(c, Stored(p))
<1>1. ASSUME NEW p \in Paths, NEW c \in Contents
      PROVE  db[p].refcnt[c] + Outcome(on_indexed.priority_, p, c) + Outcome(on_indexed.queue_, p, c)
             = db[p].refcnt[c] + Both(on_indexed, p, c)
  <2>1. db[p].refcnt[c] \in Int
    BY DEF Types, Shares
  <2>2. on_indexed.priority_ \in Seq(Updates) /\ on_indexed.queue_ \in Seq(Updates)
    BY DEF Types, UpdateQueues
  <2>3. Outcome(on_indexed.priority_, p, c) \in Int /\ Outcome(on_indexed.queue_, p, c) \in Int
    BY <2>2, OutcomeIs
  <2>4. \A x, y, z \in Int : x + y + z = x + (y + z)
    OBVIOUS
  <2> QED
    BY <2>1, <2>3, <2>4 DEF Both
<1> QED
  BY <1>1 DEF CountsAddUp

LEMMA BothType ==
  ASSUME NEW q \in UpdateQueues, NEW p, NEW c
  PROVE  Both(q, p, c) \in Int
<1>1. q.priority_ \in Seq(Updates) /\ q.queue_ \in Seq(Updates)
  BY DEF UpdateQueues
<1>2. Outcome(q.priority_, p, c) \in Int /\ Outcome(q.queue_, p, c) \in Int
  BY <1>1, OutcomeIs
<1> QED
  BY <1>2 DEF Both

LEMMA CountsStep ==
  ASSUME Types, Types', CountsAddUp, DataStep
  PROVE  CountsAddUp'
<1> DEFINE ref(p, c) == db[p].refcnt[c]
           sum(p, c) == Both(on_indexed, p, c)
<1>1. \A p \in Paths, c \in Contents : ref(p, c) + sum(p, c) = Delta(c, Stored(p))
  BY CountsAre
<1>2. /\ on_indexed \in UpdateQueues /\ on_indexed' \in UpdateQueues
      /\ \A p \in Paths, c \in Contents : ref(p, c) \in Int /\ ref(p, c)' \in Int
  BY DEF Types, Shares
<1>3. \A p \in Paths, c \in Contents : sum(p, c) \in Int /\ Both(on_indexed', p, c) \in Int
  BY <1>2, BothType
<1>4. SUFFICES ASSUME NEW p \in Paths, NEW c \in Contents
               PROVE  ref(p, c)' + Both(on_indexed', p, c) = Delta(c, Stored(p)')
  <2>1. \A p \in Paths, c \in Contents :
          ref(p, c)' + Outcome(on_indexed'.priority_, p, c) + Outcome(on_indexed'.queue_, p, c)
          = ref(p, c)' + Both(on_indexed', p, c)
    <3>1. \A x, y, z \in Int : x + y + z = x + (y + z)
      OBVIOUS
    <3>2. on_indexed'.priority_ \in Seq(Updates) /\ on_indexed'.queue_ \in Seq(Updates)
      BY <1>2 DEF UpdateQueues
    <3>3. ASSUME NEW p \in Paths, NEW c \in Contents
          PROVE  Outcome(on_indexed'.priority_, p, c) \in Int /\ Outcome(on_indexed'.queue_, p, c) \in Int
      BY <3>2, OutcomeIs
    <3> HIDE DEF ref
    <3> QED
      BY <1>2, <3>1, <3>3 DEF Both
  <2>2. \A q \in Paths, d \in Contents :
          ref(q, d)' + Outcome(on_indexed'.priority_, q, d) + Outcome(on_indexed'.queue_, q, d)
            = Delta(d, Stored(q)')
    BY <1>4, <2>1
  <2> QED
    BY <2>2 DEF CountsAddUp, Outcome, Delta
<1>5. CASE Keeping
  <2>1. ref(p, c)' = ref(p, c) /\ Stored(p)' = Stored(p)
    BY <1>5 DEF Keeping
  <2>2. Both(on_indexed', p, c) = sum(p, c)
    <3>1. CASE on_indexed' = PushBack(on_indexed, RefreshUpdate, FALSE)
      <4>1. RefreshUpdate \in Updates /\ Worth(RefreshUpdate, p, c) = 0
        BY RefreshTyped, NoneAssumption DEF Worth
      <4> HIDE DEF sum
      <4>2. Both(PushBack(on_indexed, RefreshUpdate, FALSE), p, c)
              = Both(on_indexed, p, c) + Worth(RefreshUpdate, p, c)
        <5> DEFINE b == FALSE
        <5>1. b \in BOOLEAN
          OBVIOUS
        <5> HIDE DEF b
        <5>2. Both(PushBack(on_indexed, RefreshUpdate, b), p, c)
                = Both(on_indexed, p, c) + Worth(RefreshUpdate, p, c)
          BY <1>2, <4>1, <5>1, BothPush
        <5> QED
          BY <5>2 DEF b
      <4>4. Both(on_indexed', p, c) = Both(PushBack(on_indexed, RefreshUpdate, FALSE), p, c)
        BY <3>1
      <4>3. \A x \in Int : x + 0 = x
        OBVIOUS
      <4> QED
        BY <1>3, <4>1, <4>2, <4>3, <4>4 DEF sum
    <3> QED
      BY <1>5, <3>1 DEF Keeping
  <2> HIDE DEF ref, sum
  <2> QED
    BY <1>1, <2>1, <2>2
<1>6. CASE \E q \in Paths, u \in Updates, b \in BOOLEAN : Sending(q, u, b)
  <2>1. PICK q \in Paths, u \in Updates, b \in BOOLEAN : Sending(q, u, b)
    BY <1>6
  <2>2. /\ ref(p, c)' = ref(p, c)
        /\ Both(on_indexed', p, c) = sum(p, c) + Worth(u, p, c)
    BY <1>2, <2>1, BothPush DEF Sending
  <2>3. Worth(u, p, c) = Delta(c, Stored(p)') - Delta(c, Stored(p))
    <3>1. CASE q = p
      BY <2>1, <3>1 DEF Sending, Worth
    <3>2. CASE q /= p
      <4>1. Worth(u, p, c) = 0 /\ Stored(p)' = Stored(p)
        BY <2>1, <3>2 DEF Sending, Worth
      <4>2. Delta(c, Stored(p)) \in Int
        BY DEF Delta
      <4> QED
        BY <4>1, <4>2
    <3> QED
      BY <3>1, <3>2
  <2>4. Delta(c, Stored(p)) \in Int /\ Delta(c, Stored(p)') \in Int
    BY DEF Delta
  <2>5. /\ ref(p, c) \in Int /\ sum(p, c) \in Int
        /\ ref(p, c) + sum(p, c) = Delta(c, Stored(p))
    BY <1>1, <1>2, <1>3
  <2> DEFINE x == Delta(c, Stored(p))
             y == Delta(c, Stored(p)')
             r == ref(p, c)
             t == sum(p, c)
             b2 == Both(on_indexed', p, c)
  <2>6. x \in Int /\ y \in Int /\ r \in Int /\ t \in Int /\ r + t = x /\ b2 = t + (y - x)
    BY <2>2, <2>3, <2>4, <2>5
  <2> HIDE DEF x, y, r, t, b2
  <2>7. r + b2 = y
    BY <2>6
  <2> QED
    BY <2>2, <2>7 DEF r, b2, y
<1>7. CASE Applying
  <2> DEFINE u == Head(InOrder(on_indexed))
  <2>1. /\ on_indexed /= EmptyQueue /\ on_indexed' = PopFront(on_indexed)
        /\ db' = IF u.path = None THEN db ELSE [db EXCEPT ![u.path] = apply(@, u)]
        /\ Stored(p)' = Stored(p) /\ db \in [Paths -> Shares]
    BY <1>7 DEF Applying, main_OnIndexed, Types
  <2>2. sum(p, c) = Both(on_indexed', p, c) + Worth(u, p, c) /\ u \in Updates
    BY <1>2, <2>1, BothPop, QueuesPop
  <2> HIDE DEF u
  <2>3. ref(p, c)' = ref(p, c) + Worth(u, p, c)
    <3>1. CASE u.path = p
      <4>1. db'[p] = apply(db[p], u)
        BY <2>1, <3>1, NoneAssumption
      <4>2. apply(db[p], u).refcnt[c] = db[p].refcnt[c] - Delta(c, u.prev) + Delta(c, u.curr)
        BY DEF apply
      <4>3. Delta(c, u.prev) \in Int /\ Delta(c, u.curr) \in Int /\ db[p].refcnt[c] \in Int
        BY <1>2 DEF Delta
      <4>4. \A x, y, z \in Int : x - y + z = x + (z - y)
        OBVIOUS
      <4> QED
        BY <3>1, <4>1, <4>2, <4>3, <4>4 DEF Worth
    <3>2. CASE u.path /= p
      <4>1. db'[p] = db[p] /\ Worth(u, p, c) = 0
        BY <2>1, <3>2 DEF Worth
      <4>2. ref(p, c) \in Int
        BY <1>2
      <4> QED
        BY <4>1, <4>2
    <3> QED
      BY <3>1, <3>2
  <2>4. Worth(u, p, c) \in Int
    BY <2>2, WorthIs
  <2> DEFINE w == Worth(u, p, c)
             x == Delta(c, Stored(p))
             r == ref(p, c)
             b2 == Both(on_indexed', p, c)
  <2>5. w \in Int /\ r \in Int /\ b2 \in Int /\ r + (b2 + w) = x
    BY <1>1, <1>2, <1>3, <2>2, <2>4
  <2> HIDE DEF w, x, r, b2
  <2>6. (r + w) + b2 = x
    BY <2>5
  <2> QED
    BY <2>1, <2>3, <2>6 DEF w, x, r, b2
<1>8. CASE Resetting
  <2>1. Both(on_indexed', p, c) = 0
    BY <1>8, BothEmpty DEF Resetting
  <2>2. ref(p, c)' = 0 /\ Stored(p)' = None
    BY <1>8 DEF Resetting, NotIndexed
  <2>3. Delta(c, None) = 0
    BY NoneAssumption DEF Delta
  <2> QED
    BY <2>1, <2>2, <2>3
<1> QED
  BY <1>5, <1>6, <1>7, <1>8 DEF DataStep

LEMMA InitInv == Init => Inv
<1> SUFFICES ASSUME Init PROVE Inv
  OBVIOUS
<1>1. Types
  BY InitTypes
<1>2. Mutex /\ HeldInv
  BY DEF Init, Mutex, Holding, HeldInv, Ready
<1>3. /\ on_indexed = EmptyQueue /\ \A p \in Paths : vfs[p].loaded = 0 /\ db[p] = NotIndexed
      /\ \A p \in Paths : g_index[p] = None
      /\ \A i \in Indexers : pc[i] = "idle"
  BY DEF Init, NeverSeen
<1>4. StoreInv
  <2>1. ~CacheDirectory => \A p \in Paths : cache[p] = None
    BY DEF Init
  <2> QED
    BY <1>3, <2>1 DEF StoreInv
<1>5. CountsAddUp
  <2>1. ASSUME NEW p \in Paths PROVE Stored(p) = None
    <3>1. Storing(p) = {}
      BY <1>3 DEF Storing
    <3> QED
      BY <1>3, <3>1, StoredElse
  <2>2. ASSUME NEW p \in Paths, NEW c \in Contents
        PROVE  db[p].refcnt[c] + Both(on_indexed, p, c) = Delta(c, Stored(p))
    <3>1. Both(on_indexed, p, c) = 0
      BY <1>3, BothEmpty
    <3>2. db[p].refcnt[c] = 0 /\ Delta(c, None) = 0
      BY <1>3, NoneAssumption DEF NotIndexed, Delta
    <3> QED
      BY <2>1, <3>1, <3>2
  <2> QED
    BY <1>1, <2>2, CountsAre
<1> QED
  BY <1>1, <1>2, <1>4, <1>5 DEF Inv

LEMMA NextData ==
  ASSUME Scope, Inv, Next
  PROVE  Goal /\ Mutex'
<1>1. Types /\ Mutex /\ StoreInv /\ HeldInv
  BY DEF Inv
<1>2. CASE \E i \in Indexers : indexer_Parse(i)
  <2>1. PICK i \in Indexers : indexer_Parse(i)
    BY <1>2
  <2>2. Effect(i)
    BY <1>1, <2>1, Effects
  <2> QED
    BY <1>1, <2>2, EffectData, EffectMutex
<1>3. CASE \/ \E p \in Paths : \/ Write(p) \/ Remove(p) \/ removeCache(p)
                               \/ \E mode \in Modes : index(p, mode)
           \/ reload \/ main_OnIndexed
  <2>1. UNCHANGED <<pc, job>>
    BY <1>3 DEF Write, Remove, removeCache, index, reload, main_OnIndexed
  <2>2. Mutex'
    BY <1>1, <2>1 DEF Mutex, Holding
  <2> QED
    BY <1>1, <1>3, <2>2, OtherData
<1> QED
  BY <1>2, <1>3 DEF Next

LEMMA IdleData ==
  ASSUME Inv, UNCHANGED vars
  PROVE  Goal /\ Mutex'
<1>1. UNCHANGED <<on_indexed, db, g_index, cache, vfs, pc, job>>
  BY DEF vars, storeVars
<1>2. (\A q \in Paths : Same(q)) /\ StoreInv'
  BY <1>1, AllSame DEF Inv
<1>3. HeldInv' /\ \A q \in Paths : Stored(q)' = Stored(q)
  BY <1>1, <1>2, StillHeld DEF Inv
<1>4. Mutex'
  BY <1>1 DEF Inv, Mutex, Holding
<1> QED
  BY <1>1, <1>2, <1>3, <1>4 DEF Goal, DataStep, Keeping

LEMMA InvStep ==
  ASSUME Scope, Inv, [Next]_vars
  PROVE  Inv' /\ DataStep
<1>1. Goal /\ Mutex'
  BY NextData, IdleData
<1>2. Types'
  BY TypesStep DEF Inv
<1>3. CountsAddUp'
  BY <1>1, <1>2, CountsStep DEF Inv, Goal
<1> QED
  BY <1>1, <1>2, <1>3 DEF Inv, Goal

\* What holds in every reachable state: an indexer alone holds a file's mutex from
\* the store of its index file to the push of the delta, memory and cache agree,
\* what is about to be sent is what is kept, and the counts add up.
THEOREM Invariant ==
  ASSUME Scope
  PROVE  Spec => []Inv
<1>1. Init => Inv
  BY InitInv
<1>2. Inv /\ [Next]_vars => Inv'
  BY InvStep
<1> QED
  BY <1>1, <1>2, PTL DEF Spec

\* What the assertions of applyIndexUpdate (query.cc:281 and 292) rest on: with
\* any number of indexers and in whatever order the updates of urgent and of
\* background requests are applied, a file's reference counts and the updates of
\* it that wait add up to the index file the next delta starts from.
THEOREM CountsHold ==
  ASSUME Scope
  PROVE  Spec => []CountsAddUp
<1>1. Inv => CountsAddUp
  BY DEF Inv
<1> QED
  BY <1>1, Invariant, PTL

----------------------------------------------------------------------------
(* Every step of the pipeline is a step of IndexedDB or none *)

\* The steps of a file's share that updates stand for.
StepOf(u) == [prev |-> u.prev, curr |-> u.curr]
StepsOf(m) == [k \in DOMAIN m |-> StepOf(m[k])]

pendingOf == [p \in Paths |-> Pending(p)]
storedOf == [p \in Paths |-> Stored(p)]

LEMMA WaitingIs ==
  ASSUME NEW s, NEW p
  PROVE  Waiting(s, p) = StepsOf(OfPaths(s, {p}))
  BY DEF Waiting, StepsOf, StepOf

LEMMA StepsAppend ==
  ASSUME NEW m \in Seq(Updates), NEW u \in Updates
  PROVE  StepsOf(Append(m, u)) = Append(StepsOf(m), StepOf(u))
<1> DEFINE n == Len(m)
           t == Append(m, u)
           C == {StepOf(x) : x \in Updates}
           a == StepsOf(m)
           b == StepsOf(t)
<1>1. /\ n \in Nat /\ m \in [1..n -> Updates] /\ t \in Seq(Updates)
      /\ Len(t) = n + 1 /\ t[n + 1] = u /\ \A k \in 1..n : t[k] = m[k]
  BY AppendProperties, LenProperties
<1>2. t \in [1..(n + 1) -> Updates]
  BY <1>1, LenProperties
<1>3. \A x \in Updates : StepOf(x) \in C
  OBVIOUS
<1> HIDE DEF t, n, C
<1>4. /\ a = [k \in 1..n |-> StepOf(m[k])] /\ a \in [1..n -> C]
      /\ b = [k \in 1..(n + 1) |-> StepOf(t[k])] /\ b \in [1..(n + 1) -> C]
  BY <1>1, <1>2, <1>3 DEF StepsOf
<1> HIDE DEF a, b
<1>5. a \in Seq(C) /\ b \in Seq(C) /\ Len(a) = n /\ Len(b) = n + 1 /\ StepOf(u) \in C
  BY <1>1, <1>3, <1>4, SeqDef
<1> DEFINE y == StepOf(u)
           d == Append(a, y)
<1>6. /\ d \in Seq(C) /\ Len(d) = n + 1 /\ d[n + 1] = y
      /\ \A k \in 1..n : d[k] = a[k]
  BY <1>5, AppendProperties
<1> HIDE DEF d
<1>7. \A k \in 1..(n + 1) : d[k] = b[k]
  BY <1>1, <1>4, <1>6
<1>8. d = b
  BY <1>5, <1>6, <1>7, SeqEqual
<1> QED
  BY <1>8 DEF d, t, a, b

LEMMA StepsTail ==
  ASSUME NEW m \in Seq(Updates), m /= <<>>
  PROVE  /\ StepsOf(m) /= <<>> /\ Head(StepsOf(m)) = StepOf(Head(m))
         /\ StepsOf(Tail(m)) = Tail(StepsOf(m))
<1> DEFINE n == Len(m)
           t == Tail(m)
           C == {StepOf(x) : x \in Updates}
           a == StepsOf(m)
           b == StepsOf(t)
<1>1. /\ n \in Nat \ {0} /\ m \in [1..n -> Updates] /\ t \in Seq(Updates)
      /\ Len(t) = n - 1 /\ \A k \in 1..(n - 1) : t[k] = m[k + 1]
  BY HeadTailProperties, LenProperties, EmptySeq
<1>2. t \in [1..(n - 1) -> Updates] /\ Head(m) = m[1]
  <2>1. Head(m) = m[1]
    BY <1>1, HeadTailProperties
  <2> HIDE DEF t, n
  <2>2. t \in [1..Len(t) -> Updates]
    BY <1>1, LenProperties
  <2> QED
    BY <1>1, <2>1, <2>2
<1>3. \A x \in Updates : StepOf(x) \in C
  OBVIOUS
<1> HIDE DEF t, n, C
<1>4. /\ a = [k \in 1..n |-> StepOf(m[k])] /\ a \in [1..n -> C]
      /\ b = [k \in 1..(n - 1) |-> StepOf(t[k])] /\ b \in [1..(n - 1) -> C]
  BY <1>1, <1>2, <1>3 DEF StepsOf
<1> HIDE DEF a, b
<1>5. a \in Seq(C) /\ b \in Seq(C) /\ Len(a) = n /\ Len(b) = n - 1
  BY <1>1, <1>4, SeqDef
<1>6. a /= <<>> /\ Head(a) = a[1]
  BY <1>1, <1>5, EmptySeq
<1>7. a[1] = StepOf(Head(m))
  BY <1>1, <1>2, <1>4
<1> DEFINE d == Tail(a)
<1>8. /\ d \in Seq(C) /\ Len(d) = n - 1 /\ \A k \in 1..(n - 1) : d[k] = a[k + 1]
  BY <1>5, <1>6, HeadTailProperties
<1> HIDE DEF d
<1>9. ASSUME NEW k \in 1..(n - 1) PROVE d[k] = b[k]
  <2>1. k + 1 \in 1..n
    BY <1>1
  <2> QED
    BY <1>1, <1>4, <1>8, <2>1
<1>10. d = b
  BY <1>5, <1>8, <1>9, SeqEqual
<1> QED
  BY <1>6, <1>7, <1>10 DEF d, t, a, b

LEMMA WaitingEmpty == \A p : Waiting(<<>>, p) = <<>>
<1>1. ASSUME NEW p PROVE Waiting(<<>>, p) = StepsOf(<<>>)
  BY WaitingIs, OfPathsEmpty
<1>2. StepsOf(<<>>) = <<>>
  BY DEF StepsOf
<1> QED
  BY <1>1, <1>2

LEMMA WaitingAppend ==
  ASSUME NEW s \in Seq(Updates), NEW u \in Updates, NEW p
  PROVE  Waiting(Append(s, u), p) = IF u.path = p THEN Append(Waiting(s, p), StepOf(u))
                                    ELSE Waiting(s, p)
<1> DEFINE m == OfPaths(s, {p})
<1>1. m \in Seq(Updates)
  BY OfPathsType
<1>2. OfPaths(Append(s, u), {p}) = IF u.path = p THEN Append(m, u) ELSE m
  BY OfPathsAppend
<1>3. Waiting(s, p) = StepsOf(m) /\ Waiting(Append(s, u), p) = StepsOf(OfPaths(Append(s, u), {p}))
  BY WaitingIs
<1> HIDE DEF m
<1>4. StepsOf(Append(m, u)) = Append(StepsOf(m), StepOf(u))
  BY <1>1, StepsAppend
<1> QED
  BY <1>2, <1>3, <1>4

LEMMA WaitingTail ==
  ASSUME NEW s \in Seq(Updates), s /= <<>>, NEW p
  PROVE  IF Head(s).path = p
         THEN /\ Waiting(s, p) /= <<>> /\ Head(Waiting(s, p)) = StepOf(Head(s))
              /\ Waiting(Tail(s), p) = Tail(Waiting(s, p))
         ELSE Waiting(Tail(s), p) = Waiting(s, p)
<1> DEFINE m == OfPaths(s, {p})
           t == OfPaths(Tail(s), {p})
<1>1. m \in Seq(Updates)
  BY OfPathsType
<1>2. IF Head(s).path = p THEN m /= <<>> /\ Head(m) = Head(s) /\ t = Tail(m) ELSE t = m
  BY OfPathsTail
<1>3. Waiting(s, p) = StepsOf(m) /\ Waiting(Tail(s), p) = StepsOf(t)
  BY WaitingIs
<1> HIDE DEF m, t
<1> QED
  BY <1>1, <1>2, <1>3, StepsTail

\* A delta that starts from the image of c makes the image of another.
LEMMA ApplyImage ==
  ASSUME NEW u \in Updates
  PROVE  apply(Image(u.prev), u) = Image(u.curr)
<1> DEFINE c == u.prev
           e == u.curr
           once(y) == [x \in Contents |-> IF x = y THEN 1 ELSE 0]
<1>1. Image(c).refcnt = once(c) /\ Image(c).uses = once(c) /\ Image(c).def = c
  BY DEF Image, Abstract!Image
<1>2. [x \in Contents |-> Image(c).refcnt[x] - Delta(x, c) + Delta(x, e)] = once(e)
  BY <1>1 DEF Delta
<1>3. [x \in Contents |-> (IF x = c THEN 0 ELSE Image(c).uses[x]) + Delta(x, e)] = once(e)
  BY <1>1 DEF Delta
<1>4. (IF e /= None \/ c /= None THEN e ELSE Image(c).def) = e
  BY <1>1
<1> QED
  BY <1>2, <1>3, <1>4 DEF apply, Image, Abstract!Image

LEMMA ImageNone == NotIndexed = Image(None)
  BY NoneAssumption DEF NotIndexed, Image, Abstract!Image

LEMMA InitRefines == Init => Abstract!Init
<1> SUFFICES ASSUME Init PROVE Abstract!Init
  OBVIOUS
<1>1. \A p \in Paths : Pending(p) = Abstract!Nothing
  BY WaitingEmpty DEF Pending, Abstract!Nothing, Init, EmptyQueue
<1>2. \A p \in Paths : Stored(p) = None
  <2>1. ASSUME NEW p \in Paths PROVE Stored(p) = None
    <3>1. Storing(p) = {} /\ vfs[p].loaded = 0
      BY DEF Init, Storing, NeverSeen
    <3> QED
      BY <3>1, StoredElse
  <2> QED
    BY <2>1
<1>3. db = [p \in Paths |-> Image(None)]
  BY ImageNone DEF Init
<1> QED
  BY <1>1, <1>2, <1>3 DEF Abstract!Init, Image

\* What a step does to the functions that IndexedDB goes by.
LEMMA StoredThese ==
  ASSUME NEW p \in Paths, NEW x, Stored(p)' = x, \A q \in Paths \ {p} : Stored(q)' = Stored(q)
  PROVE  storedOf' = [storedOf EXCEPT ![p] = x]
  BY DEF storedOf

LEMMA PushRefines ==
  ASSUME Types, NEW p \in Paths, NEW u \in Updates, u.path = p, NEW c \in BOOLEAN,
         on_indexed' = PushBack(on_indexed, u, c)
  PROVE  LET class == IF c THEN "urgent" ELSE "background"
         IN pendingOf' = [pendingOf EXCEPT ![p][class] = Append(@, StepOf(u))]
<1> DEFINE x == on_indexed.priority_
           y == on_indexed.queue_
<1>1. on_indexed \in UpdateQueues /\ x \in Seq(Updates) /\ y \in Seq(Updates)
  BY DEF Types, UpdateQueues
<1>2. /\ c => on_indexed'.priority_ = Append(x, u) /\ on_indexed'.queue_ = y
      /\ ~c => on_indexed'.priority_ = x /\ on_indexed'.queue_ = Append(y, u)
  BY <1>1 DEF PushBack, UpdateQueues
<1>3. \A q : Pending(q) = [urgent |-> Waiting(x, q), background |-> Waiting(y, q)]
  BY DEF Pending
<1>4. \A q : Pending(q)' = [urgent |-> Waiting(on_indexed'.priority_, q),
                            background |-> Waiting(on_indexed'.queue_, q)]
  BY DEF Pending, Waiting
<1>5. \A q : /\ Waiting(Append(x, u), q) = IF q = p THEN Append(Waiting(x, q), StepOf(u)) ELSE Waiting(x, q)
             /\ Waiting(Append(y, u), q) = IF q = p THEN Append(Waiting(y, q), StepOf(u)) ELSE Waiting(y, q)
  BY <1>1, WaitingAppend
<1> HIDE DEF x, y
<1>6. CASE c
  <2>1. \A q \in Paths :
          Pending(q)' = IF q = p THEN [Pending(q) EXCEPT !["urgent"] = Append(@, StepOf(u))] ELSE Pending(q)
    BY <1>2, <1>3, <1>4, <1>5, <1>6
  <2> HIDE DEF Pending
  <2> QED
    BY <1>6, <2>1 DEF pendingOf
<1>7. CASE ~c
  BY <1>2, <1>3, <1>4, <1>5, <1>7 DEF pendingOf
<1> QED
  BY <1>6, <1>7

LEMMA RefreshRefines ==
  ASSUME Types, on_indexed' = on_indexed \/ on_indexed' = PushBack(on_indexed, RefreshUpdate, FALSE)
  PROVE  pendingOf' = pendingOf
<1> DEFINE x == on_indexed.priority_
           y == on_indexed.queue_
<1>1. on_indexed \in UpdateQueues /\ x \in Seq(Updates) /\ y \in Seq(Updates)
  BY DEF Types, UpdateQueues
<1>2. /\ on_indexed'.priority_ = x
      /\ on_indexed'.queue_ = y \/ on_indexed'.queue_ = Append(y, RefreshUpdate)
  BY <1>1 DEF PushBack, UpdateQueues
<1>3. \A q \in Paths : Waiting(Append(y, RefreshUpdate), q) = Waiting(y, q)
  BY <1>1, WaitingAppend, RefreshTyped, NoneAssumption
<1>4. \A q : Pending(q) = [urgent |-> Waiting(x, q), background |-> Waiting(y, q)]
  BY DEF Pending
<1>5. \A q : Pending(q)' = [urgent |-> Waiting(on_indexed'.priority_, q),
                            background |-> Waiting(on_indexed'.queue_, q)]
  BY DEF Pending, Waiting
<1> HIDE DEF x, y
<1>6. \A q \in Paths : Pending(q)' = Pending(q)
  BY <1>2, <1>3, <1>4, <1>5
<1> QED
  BY <1>6 DEF pendingOf

LEMMA PopRefines ==
  ASSUME Types, on_indexed /= EmptyQueue, on_indexed' = PopFront(on_indexed),
         NEW u, u = Head(InOrder(on_indexed)), NEW p, p = u.path
  PROVE  /\ p \notin Paths => pendingOf' = pendingOf
         /\ p \in Paths =>
              LET class == IF pendingOf[p].urgent /= <<>> THEN "urgent" ELSE "background"
              IN /\ pendingOf[p][class] /= <<>> /\ Head(pendingOf[p][class]) = StepOf(u)
                 /\ pendingOf' = [pendingOf EXCEPT ![p][class] = Tail(@)]
<1> DEFINE x == on_indexed.priority_
           y == on_indexed.queue_
<1>1. on_indexed \in UpdateQueues /\ x \in Seq(Updates) /\ y \in Seq(Updates)
  BY DEF Types, UpdateQueues
<1>2. \/ /\ x /= <<>> /\ u = Head(x)
         /\ on_indexed'.priority_ = Tail(x) /\ on_indexed'.queue_ = y
      \/ /\ x = <<>> /\ y /= <<>> /\ u = Head(y)
         /\ on_indexed'.priority_ = <<>> /\ on_indexed'.queue_ = Tail(y)
  BY <1>1, QueuesPop DEF Popped
<1>3. \A q : Pending(q) = [urgent |-> Waiting(x, q), background |-> Waiting(y, q)]
  BY DEF Pending
<1>4. \A q : Pending(q)' = [urgent |-> Waiting(on_indexed'.priority_, q),
                            background |-> Waiting(on_indexed'.queue_, q)]
  BY DEF Pending, Waiting
<1>5. \A q \in Paths : pendingOf[q] = Pending(q)
  BY DEF pendingOf
<1> HIDE DEF x, y
<1>6. CASE /\ x /= <<>> /\ u = Head(x)
           /\ on_indexed'.priority_ = Tail(x) /\ on_indexed'.queue_ = y
  <2>1. \A q : IF p = q
               THEN /\ Waiting(x, q) /= <<>> /\ Head(Waiting(x, q)) = StepOf(u)
                    /\ Waiting(Tail(x), q) = Tail(Waiting(x, q))
               ELSE Waiting(Tail(x), q) = Waiting(x, q)
    BY <1>1, <1>6, WaitingTail
  <2>2. \A q : Pending(q)' = [Pending(q) EXCEPT !.urgent = IF p = q THEN Tail(@) ELSE @]
    BY <1>3, <1>4, <1>6, <2>1
  <2>3. CASE p \in Paths
    <3>1. /\ pendingOf[p].urgent /= <<>> /\ Head(pendingOf[p].urgent) = StepOf(u)
      BY <1>3, <1>5, <2>1, <2>3
    <3>2. pendingOf' = [pendingOf EXCEPT ![p].urgent = Tail(@)]
      BY <1>3, <2>2, <2>3 DEF pendingOf
    <3> QED
      BY <2>3, <3>1, <3>2
  <2>4. CASE p \notin Paths
    <3>1. \A q \in Paths : Pending(q)' = Pending(q)
      BY <1>3, <2>2, <2>4
    <3> QED
      BY <2>4, <3>1 DEF pendingOf
  <2> QED
    BY <2>3, <2>4
<1>7. CASE /\ x = <<>> /\ y /= <<>> /\ u = Head(y)
           /\ on_indexed'.priority_ = <<>> /\ on_indexed'.queue_ = Tail(y)
  <2>1. \A q : IF p = q
               THEN /\ Waiting(y, q) /= <<>> /\ Head(Waiting(y, q)) = StepOf(u)
                    /\ Waiting(Tail(y), q) = Tail(Waiting(y, q))
               ELSE Waiting(Tail(y), q) = Waiting(y, q)
    BY <1>1, <1>7, WaitingTail
  <2>2. \A q : Pending(q)' = [Pending(q) EXCEPT !.background = IF p = q THEN Tail(@) ELSE @]
    BY <1>3, <1>4, <1>7, <2>1
  <2>3. CASE p \in Paths
    <3>1. /\ pendingOf[p].urgent = <<>>
          /\ pendingOf[p].background /= <<>> /\ Head(pendingOf[p].background) = StepOf(u)
      BY <1>3, <1>5, <1>7, <2>1, <2>3, WaitingEmpty
    <3>2. pendingOf' = [pendingOf EXCEPT ![p].background = Tail(@)]
      BY <1>3, <2>2, <2>3 DEF pendingOf
    <3> QED
      BY <2>3, <3>1, <3>2
  <2>4. CASE p \notin Paths
    <3>1. \A q \in Paths : Pending(q)' = Pending(q)
      BY <1>3, <2>2, <2>4
    <3> QED
      BY <2>4, <3>1 DEF pendingOf
  <2> QED
    BY <2>3, <2>4
<1> QED
  BY <1>2, <1>6, <1>7

LEMMA StepRefines ==
  ASSUME Types, Types', DataStep
  PROVE  [Abstract!Next]_<<db, storedOf, pendingOf>>
<1>1. CASE Keeping
  <2>1. pendingOf' = pendingOf
    BY <1>1, RefreshRefines DEF Keeping
  <2>2. storedOf' = storedOf
    BY <1>1 DEF Keeping, storedOf
  <2> QED
    BY <1>1, <2>1, <2>2 DEF Keeping
<1>2. CASE \E p \in Paths, u \in Updates, c \in BOOLEAN : Sending(p, u, c)
  <2>1. PICK p \in Paths, u \in Updates, c \in BOOLEAN : Sending(p, u, c)
    BY <1>2
  <2> DEFINE class == IF c THEN "urgent" ELSE "background"
  <2>2. db' = db /\ u.path = p /\ u.prev = storedOf[p] /\ u.curr \in Contents \cup {None}
    BY <2>1 DEF Sending, storedOf, Updates
  <2>3. storedOf' = [storedOf EXCEPT ![p] = u.curr]
    BY <2>1, StoredThese DEF Sending
  <2>4. pendingOf' = [pendingOf EXCEPT ![p][class] = Append(@, [prev |-> storedOf[p], curr |-> u.curr])]
    <3>1. pendingOf' = [pendingOf EXCEPT ![p][class] = Append(@, StepOf(u))]
      BY <2>1, PushRefines DEF Sending
    <3> QED
      BY <2>2, <3>1 DEF StepOf
  <2>5. class \in DOMAIN Abstract!Nothing
    BY DEF Abstract!Nothing
  <2> HIDE DEF class
  <2>6. storedOf'[p] = u.curr
    BY <2>3 DEF storedOf
  <2>7. Abstract!Store(p)
    BY <2>2, <2>3, <2>4, <2>5, <2>6 DEF Abstract!Store, pendingOf, storedOf
  <2> QED
    BY <2>7 DEF Abstract!Next
<1>3. CASE Applying
  <2> DEFINE u == Head(InOrder(on_indexed))
             p == u.path
  <2>1. /\ on_indexed /= EmptyQueue /\ on_indexed' = PopFront(on_indexed)
        /\ db' = IF p = None THEN db ELSE [db EXCEPT ![p] = apply(@, u)]
        /\ db \in [Paths -> Shares] /\ db' \in [Paths -> Shares]
    BY <1>3 DEF Applying, main_OnIndexed, Types
  <2>2. storedOf' = storedOf
    BY <1>3 DEF Applying, storedOf
  <2>3. u \in Updates /\ (p = None <=> p \notin Paths)
    <3>1. u \in Updates
      BY <2>1, QueuesPop DEF Types
    <3> HIDE DEF u
    <3> QED
      BY <3>1, NoneAssumption DEF Updates
  <2>p. /\ p \notin Paths => pendingOf' = pendingOf
        /\ p \in Paths =>
             LET class == IF pendingOf[p].urgent /= <<>> THEN "urgent" ELSE "background"
             IN /\ pendingOf[p][class] /= <<>> /\ Head(pendingOf[p][class]) = StepOf(u)
                /\ pendingOf' = [pendingOf EXCEPT ![p][class] = Tail(@)]
    BY <2>1, PopRefines
  <2> HIDE DEF u
  <2>4. CASE p \notin Paths
    BY <2>1, <2>2, <2>3, <2>4, <2>p
  <2>5. CASE p \in Paths
    <3> DEFINE class == IF pendingOf[p].urgent /= <<>> THEN "urgent" ELSE "background"
    <3>1. /\ pendingOf[p][class] /= <<>> /\ Head(pendingOf[p][class]) = StepOf(u)
          /\ pendingOf' = [pendingOf EXCEPT ![p][class] = Tail(@)]
      BY <2>5, <2>p
    <3>2. db'[p] = apply(db[p], u) /\ \A q \in Paths \ {p} : db'[q] = db[q]
      BY <2>1, <2>3, <2>5
    <3>3. StepOf(u).prev = u.prev /\ StepOf(u).curr = u.curr
      BY DEF StepOf
    <3>4. db[p] = Image(u.prev) => db'[p] = Image(u.curr)
      BY <2>3, <3>2, ApplyImage
    <3>5. DOMAIN db' = Paths
      BY <2>1
    <3>6. Abstract!Apply(p)
      BY <2>2, <3>1, <3>2, <3>3, <3>4, <3>5 DEF Abstract!Apply, pendingOf, storedOf, Image
    <3> QED
      BY <2>5, <3>6 DEF Abstract!Next
  <2> QED
    BY <2>4, <2>5
<1>4. CASE Resetting
  <2>1. db' = [p \in Paths |-> Image(None)] /\ on_indexed = EmptyQueue /\ on_indexed' = on_indexed
    BY <1>4, ImageNone DEF Resetting
  <2>2. storedOf' = [p \in Paths |-> None]
    BY <1>4 DEF Resetting, storedOf
  <2>3. pendingOf = [p \in Paths |-> Abstract!Nothing]
    BY <2>1, WaitingEmpty DEF pendingOf, Pending, Abstract!Nothing, EmptyQueue
  <2>4. pendingOf' = pendingOf
    BY <2>1, RefreshRefines
  <2>5. Abstract!Reset
    BY <2>1, <2>2, <2>3, <2>4 DEF Abstract!Reset, pendingOf, storedOf, Image
  <2> QED
    BY <2>5 DEF Abstract!Next
<1> QED
  BY <1>1, <1>2, <1>3, <1>4 DEF DataStep

\* What the pipeline promises of the database: the index files stored for a file
\* follow one another without a gap, each is sent as the step from the one before
\* it, and a step applied to the image of that one makes exactly the image of the
\* next, whatever work the two classes of requests are about at once.
THEOREM Refines ==
  ASSUME Scope
  PROVE  Spec => ImplementsIndexedDB
<1>1. Init => Abstract!Init
  BY InitRefines
<1>2. Inv /\ Inv' /\ [Next]_vars => [Abstract!Next]_<<db, storedOf, pendingOf>>
  BY InvStep, StepRefines DEF Inv
<1> QED
  BY <1>1, <1>2, Invariant, PTL DEF Spec, ImplementsIndexedDB, Abstract!Spec, pendingOf, storedOf
=============================================================================
