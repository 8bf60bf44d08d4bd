----------------------------- MODULE Induction -----------------------------
(***************************************************************************)
(* Induction over the natural numbers with a set in place of a predicate,  *)
(* that a function defined step by step exists, and that sequences can be  *)
(* joined: what the proofs about operators with recursive functions in     *)
(* them rest on.                                                           *)
(***************************************************************************)
EXTENDS Integers, SequenceTheorems, WellFoundedInduction, TLAPS

\* A non-empty set of natural numbers has a least element.
LEMMA LeastElement ==
  ASSUME NEW T, T \subseteq Nat, T /= {}
  PROVE  \E m \in T : \A k \in T : m <= k
<1> DEFINE R == {ss \in Nat \X Nat : ss[1] < ss[2]}
<1>1. IsWellFoundedOn(R, Nat)
  BY NatLessThanWellFounded, Zenon DEF OpToRel
<1> HIDE DEF R
<1>2. PICK m \in T : \A k \in T : ~ (<<k, m>> \in R)
  BY <1>1, WFMin
<1>3. ASSUME NEW k \in T PROVE m <= k
  <2>1. ~ (<<k, m>> \in R)
    BY <1>2
  <2> QED
    BY <2>1 DEF R
<1> QED
  BY <1>3

\* What holds at 0 and goes from each number to the next holds everywhere.
LEMMA NatInduct ==
  ASSUME NEW T, 0 \in T, \A n \in Nat : n \in T => n + 1 \in T
  PROVE  \A n \in Nat : n \in T
<1> DEFINE B == {n \in Nat : n \notin T}
<1> SUFFICES ASSUME B /= {} PROVE FALSE
  OBVIOUS
<1>1. PICK m \in B : \A k \in B : m <= k
  BY LeastElement
<1>2. m \in Nat /\ m /= 0 /\ m \notin T
  OBVIOUS
<1>3. m - 1 \in Nat /\ m - 1 \notin B
  BY <1>1, <1>2
<1> QED
  BY <1>2, <1>3

\* The same up to a bound.
LEMMA UpToInduct ==
  ASSUME NEW N \in Nat, NEW T, 0 \in T, \A n \in 1..N : n - 1 \in T => n \in T
  PROVE  \A n \in 0..N : n \in T
<1> DEFINE U == {n \in Nat : n <= N => n \in T}
<1>1. 0 \in U
  OBVIOUS
<1>2. ASSUME NEW n \in Nat, n \in U PROVE n + 1 \in U
  <2>1. CASE n + 1 <= N
    <3>1. n + 1 \in 1..N /\ (n + 1) - 1 = n /\ n <= N
      BY <2>1
    <3>2. n \in T
      BY <1>2, <3>1
    <3> QED
      BY <3>1, <3>2
  <2>2. CASE ~(n + 1 <= N)
    BY <2>2
  <2> QED
    BY <2>1, <2>2
<1> HIDE DEF U
<1>3. \A n \in Nat : n \in U
  BY <1>1, <1>2, NatInduct
<1> QED
  BY <1>3 DEF U

\* The functions on 0..N into S that begin with a and go on as step says.
StepFunctions(N, S, a, step) ==
  {f \in [0..N -> S] : f[0] = a /\ \A n \in 1..N : f[n] = step[<<n, f[n - 1]>>]}

\* A function defined by its first value and by steps exists.
LEMMA StepsDefine ==
  ASSUME NEW N \in Nat, NEW S, NEW a \in S, NEW step \in [(1..N) \X S -> S]
  PROVE  StepFunctions(N, S, a, step) /= {}
<1> DEFINE Upto(n, f) == f[0] = a /\ \A k \in 1..n : f[k] = step[<<k, f[k - 1]>>]
           T == {n \in 0..N : \E f \in [0..n -> S] : Upto(n, f)}
<1>1. 0 \in T
  <2> DEFINE f == [k \in 0..0 |-> a]
  <2>1. f \in [0..0 -> S] /\ f[0] = a
    OBVIOUS
  <2> HIDE DEF f
  <2>2. Upto(0, f)
    BY <2>1
  <2>3. \E g \in [0..0 -> S] : Upto(0, g)
    BY <2>1, <2>2
  <2> QED
    BY <2>3
<1>2. ASSUME NEW n \in 1..N, n - 1 \in T PROVE n \in T
  <2>1. PICK g \in [0..(n - 1) -> S] : Upto(n - 1, g)
    BY <1>2
  <2> DEFINE x == step[<<n, g[n - 1]>>]
             f == [k \in 0..n |-> IF k = n THEN x ELSE g[k]]
  <2>2. g[n - 1] \in S /\ x \in S
    BY <2>1
  <2> HIDE DEF x
  <2>3. f \in [0..n -> S]
    BY <2>1, <2>2
  <2>4. /\ f[n] = x /\ \A k \in 0..(n - 1) : f[k] = g[k]
    OBVIOUS
  <2> HIDE DEF f
  <2>5. ASSUME NEW k \in 1..n PROVE f[k] = step[<<k, f[k - 1]>>]
    <3>1. k - 1 \in 0..(n - 1) /\ f[k - 1] = g[k - 1]
      BY <2>4
    <3>2. CASE k = n
      BY <2>4, <3>1, <3>2 DEF x
    <3>3. CASE k /= n
      <4>1. k \in 1..(n - 1) /\ k \in 0..(n - 1)
        BY <3>3
      <4>2. g[k] = step[<<k, g[k - 1]>>]
        BY <2>1, <4>1
      <4> QED
        BY <2>4, <3>1, <4>1, <4>2
    <3> QED
      BY <3>2, <3>3
  <2>6. f[0] = a
    <3>1. 0 \in 0..(n - 1)
      OBVIOUS
    <3> QED
      BY <2>1, <2>4, <3>1
  <2>7. Upto(n, f)
    BY <2>5, <2>6
  <2> HIDE DEF Upto
  <2> QED
    BY <2>3, <2>7
<1> HIDE DEF T
<1>3. \A n \in 0..N : n \in T
  BY <1>1, <1>2, UpToInduct
<1>4. N \in T
  BY <1>3
<1> QED
  BY <1>4 DEF T, StepFunctions

\* The sequences of a sequence one after the other, as FlattenSeq of SequencesExt
\* has them (other names of which are taken by modules that need this one).
Joined(seqs) ==
  IF Len(seqs) = 0 THEN seqs
  ELSE LET joined[i \in 1..Len(seqs)] ==
             IF i = 1 THEN seqs[i] ELSE joined[i - 1] \o seqs[i]
       IN joined[Len(seqs)]

\* The function in this definition with the empty sequence before its first value:
\* what is joined is its last value.
Flat(S, t) ==
  {f \in [0..Len(t) -> Seq(S)] :
     f[0] = <<>> /\ Joined(t) = f[Len(t)] /\ \A n \in 1..Len(t) : f[n] = f[n - 1] \o t[n]}

\* It exists.
LEMMA FlatExists ==
  ASSUME NEW S, NEW t \in Seq(Seq(S))
  PROVE  Flat(S, t) /= {}
<1> DEFINE N == Len(t)
           T == Seq(S)
           step == [x \in (1..N) \X T |-> x[2] \o t[x[1]]]
           e == <<>>
<1>1. N \in Nat /\ e \in T /\ \A n \in 1..N : t[n] \in T
  OBVIOUS
<1>2. step \in [(1..N) \X T -> T]
  <2>1. ASSUME NEW n \in 1..N, NEW u \in T PROVE u \o t[n] \in T
    BY <1>1, ConcatProperties
  <2> HIDE DEF T
  <2> QED
    BY <2>1
<1>3. \A n \in 1..N, u \in T : step[<<n, u>>] = u \o t[n]
  <2> HIDE DEF T
  <2> QED
    OBVIOUS
<1> HIDE DEF step, T, N, e
<1>4. PICK f \in [0..N -> T] : f[0] = e /\ \A n \in 1..N : f[n] = step[<<n, f[n - 1]>>]
  <2>1. StepFunctions(N, T, e, step) /= {}
    BY <1>1, <1>2, StepsDefine
  <2> QED
    BY <2>1 DEF StepFunctions
<1>5. ASSUME NEW n \in 1..N PROVE f[n] = f[n - 1] \o t[n]
  <2>1. f[n - 1] \in T
    BY <1>1, <1>4
  <2> QED
    BY <1>3, <1>4, <2>1
<1>6. Joined(t) = f[N]
  <2>1. CASE N = 0
    <3>1. t = <<>>
      BY <2>1 DEF N
    <3>2. Joined(t) = t
      BY <2>1 DEF Joined, N
    <3> QED
      BY <3>1, <3>2, <1>4, <2>1 DEF e
  <2>2. CASE N /= 0
    <3> DEFINE Eq(F) == F = [i \in 1..N |-> IF i = 1 THEN t[i] ELSE F[i - 1] \o t[i]]
               g == [i \in 1..N |-> f[i]]
    <3>1. Joined(t) = (CHOOSE F : Eq(F))[N]
      BY <2>2 DEF Joined, N
    <3>2. 1 \in 1..N /\ N \in 1..N /\ \A i \in 1..N : i /= 1 => i - 1 \in 1..N
      BY <1>1, <2>2
    <3>3. f[1] = t[1]
      <4>1. f[1] = f[1 - 1] \o t[1] /\ t[1] \in T
        BY <1>1, <1>5, <3>2, Zenon
      <4>2. 1 - 1 = 0
        OBVIOUS
      <4> QED
        BY <1>4, <4>1, <4>2, ConcatEmptySeq DEF e, T
    <3>4. Eq(g)
      <4>1. ASSUME NEW i \in 1..N PROVE g[i] = IF i = 1 THEN t[i] ELSE g[i - 1] \o t[i]
        BY <1>5, <3>2, <3>3
      <4>2. g = [i \in 1..N |-> g[i]]
        OBVIOUS
      <4> HIDE DEF g
      <4> QED
        BY <4>1, <4>2
    <3>5. ASSUME NEW h, Eq(h) PROVE h[N] = f[N]
      <4>1. \A i \in 1..N : h[i] = IF i = 1 THEN t[i] ELSE h[i - 1] \o t[i]
        BY <3>5
      <4> DEFINE E == {n \in 0..N : n = 0 \/ h[n] = f[n]}
      <4>2. 0 \in E
        BY <1>1
      <4>3. ASSUME NEW n \in 1..N, n - 1 \in E PROVE n \in E
        <5>1. CASE n = 1
          BY <3>3, <4>1, <5>1
        <5>2. CASE n /= 1
          <6>1. h[n - 1] = f[n - 1]
            BY <4>3, <5>2
          <6>2. f[n] = f[n - 1] \o t[n]
            BY <1>5, Zenon
          <6>3. h[n] = h[n - 1] \o t[n]
            BY <4>1, <5>2, Zenon
          <6>4. h[n] = f[n]
            BY <6>1, <6>2, <6>3, Zenon
          <6> QED
            BY <6>4
        <5> QED
          BY <5>1, <5>2
      <4> HIDE DEF E
      <4>4. \A n \in 0..N : n \in E
        BY <1>1, <4>2, <4>3, UpToInduct
      <4> QED
        BY <2>2, <4>4, <3>2 DEF E
    <3>6. Eq(CHOOSE F : Eq(F))
      <4> HIDE DEF Eq
      <4> QED
        BY <3>4
    <3>7. (CHOOSE F : Eq(F))[N] = f[N]
      <4> HIDE DEF Eq
      <4> QED
        BY <3>5, <3>6
    <3> QED
        BY <3>1, <3>7
  <2> QED
    BY <2>1, <2>2
<1> QED
  BY <1>4, <1>5, <1>6 DEF N, T, e, Flat

\* Nothing joined is nothing.
LEMMA JoinedEmpty == Joined(<<>>) = <<>>
<1>1. Len(<<>>) = 0
  OBVIOUS
<1> QED
  BY <1>1 DEF Joined

\* What is joined is a sequence of what was in the sequences.
LEMMA JoinedType ==
  ASSUME NEW S, NEW t \in Seq(Seq(S))
  PROVE  Joined(t) \in Seq(S)
<1>1. PICK f \in Flat(S, t) : TRUE
  BY FlatExists
<1>2. Len(t) \in Nat
  OBVIOUS
<1> QED
  BY <1>1, <1>2 DEF Flat

\* One more comes behind the others.
LEMMA JoinedAppend ==
  ASSUME NEW S, NEW t \in Seq(Seq(S)), NEW c \in Seq(S)
  PROVE  Joined(Append(t, c)) = Joined(t) \o c
<1> DEFINE N == Len(t)
           u == Append(t, c)
<1>1. /\ u \in Seq(Seq(S)) /\ N \in Nat /\ Len(u) = N + 1
      /\ u[N + 1] = c /\ \A i \in 1..N : u[i] = t[i]
  <2> DEFINE T == Seq(S)
  <2> HIDE DEF T
  <2>1. t \in Seq(T) /\ c \in T
    BY DEF T
  <2>2. /\ Append(t, c) \in Seq(T) /\ Len(t) \in Nat /\ Len(Append(t, c)) = Len(t) + 1
        /\ Append(t, c)[Len(t) + 1] = c /\ \A i \in 1..Len(t) : Append(t, c)[i] = t[i]
    BY <2>1, AppendProperties
  <2> QED
    BY <2>2 DEF T
<1> HIDE DEF N, u
<1>2. PICK f \in Flat(S, t) : TRUE
  BY FlatExists
<1>3. PICK g \in Flat(S, u) : TRUE
  BY <1>1, FlatExists
<1>4. f[0] = <<>> /\ Joined(t) = f[N] /\ \A n \in 1..N : f[n] = f[n - 1] \o t[n]
  BY <1>2 DEF Flat, N
<1>5. g[0] = <<>> /\ Joined(u) = g[N + 1] /\ \A n \in 1..(N + 1) : g[n] = g[n - 1] \o u[n]
  BY <1>1, <1>3 DEF Flat
<1> DEFINE E == {n \in 0..N : g[n] = f[n]}
<1>6. 0 \in E
  BY <1>1, <1>4, <1>5
<1>7. ASSUME NEW n \in 1..N, n - 1 \in E PROVE n \in E
  <2>1. n \in 1..(N + 1)
    BY <1>1
  <2>2. g[n] = g[n - 1] \o t[n]
    BY <1>1, <1>5, <2>1
  <2>3. g[n - 1] = f[n - 1] /\ n \in 0..N
    BY <1>7
  <2>4. g[n] = f[n]
    BY <1>4, <2>2, <2>3, Zenon
  <2> QED
    BY <2>3, <2>4
<1> HIDE DEF E
<1>8. \A n \in 0..N : n \in E
  BY <1>1, <1>6, <1>7, UpToInduct
<1>9. g[N] = f[N] /\ N + 1 \in 1..(N + 1) /\ (N + 1) - 1 = N
  BY <1>1, <1>8 DEF E
<1>10. g[N + 1] = g[N] \o c
  BY <1>1, <1>5, <1>9
<1> QED
  BY <1>4, <1>5, <1>9, <1>10 DEF u
=============================================================================
