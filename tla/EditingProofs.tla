--------------------------- MODULE EditingProofs ---------------------------
(***************************************************************************)
(* Proofs about Editing for any documents, inserts, clang and bounds: the  *)
(* server's buffer is the client's document, and the ranges of the index   *)
(* follow their text through any change of the buffer.                     *)
(***************************************************************************)
EXTENDS Editing, Induction, FiniteSetTheorems, SequenceTheorems, TLAPS

Byte == 0..255
Texts == Seq(Characters)

----------------------------------------------------------------------------
(* Bytes *)

LEMMA BytesJoined == \A t : Bytes(t) = Joined(t)
BY DEF Bytes, FlattenSeq, Joined

LEMMA BytesEmpty == Bytes(<<>>) = <<>>
BY BytesJoined, JoinedEmpty

LEMMA BytesType ==
  ASSUME NEW t \in Seq(Seq(Byte))
  PROVE  Bytes(t) \in Seq(Byte)
BY BytesJoined, JoinedType

LEMMA BytesAppend ==
  ASSUME NEW t \in Seq(Seq(Byte)), NEW c \in Seq(Byte)
  PROVE  Bytes(Append(t, c)) = Bytes(t) \o c
BY BytesJoined, JoinedAppend, Zenon

LEMMA ByteAssociative ==
  ASSUME NEW a \in Seq(Byte), NEW b \in Seq(Byte), NEW c \in Seq(Byte)
  PROVE  (a \o b) \o c = a \o (b \o c)
BY ConcatAssociative

LEMMA BytesConcat ==
  ASSUME NEW s \in Seq(Seq(Byte)), NEW t \in Seq(Seq(Byte))
  PROVE  Bytes(s \o t) = Bytes(s) \o Bytes(t)
<1> DEFINE S == Seq(Byte)
           N == Len(t)
           E == {n \in 0..N : Bytes(s \o SubSeq(t, 1, n)) = Bytes(s) \o Bytes(SubSeq(t, 1, n))}
<1>1. N \in Nat /\ s \in Seq(S) /\ t \in Seq(S) /\ \A n \in 1..N : t[n] \in S
  OBVIOUS
<1>2. \A u \in Seq(S) : Bytes(u) \in S
  BY BytesType
<1>3. \A u \in Seq(S), c \in S : Bytes(Append(u, c)) = Bytes(u) \o c
  BY BytesAppend
<1> HIDE DEF S, N
<1>4. 0 \in E
  <2>1. SubSeq(t, 1, 0) = <<>>
    BY SubSeqEmpty
  <2>2. s \o <<>> = s /\ Bytes(s) \o <<>> = Bytes(s)
    BY <1>1, <1>2, ConcatEmptySeq DEF S
  <2>3. Bytes(s \o SubSeq(t, 1, 0)) = Bytes(s) \o Bytes(SubSeq(t, 1, 0))
    BY <2>1, <2>2, BytesEmpty, Zenon
  <2>4. 0 \in 0..N
    BY <1>1
  <2> QED
    BY <2>3, <2>4
<1>5. ASSUME NEW n \in 1..N, n - 1 \in E PROVE n \in E
  <2> DEFINE u == SubSeq(t, 1, n - 1)
  <2>1. u \in Seq(S) /\ SubSeq(t, 1, n) = u \o <<t[n]>> /\ t[n] \in S
    <3>1. 1 \in 1..Len(t) /\ n \in 1..Len(t)
      BY <1>1 DEF N
    <3>2. \A i \in 1..(n - 1) : t[i] \in S
      BY <1>1
    <3>3. u \in Seq(S)
      BY <3>2, SubSeqProperties
    <3>4. SubSeq(t, 1, n) = u \o <<t[n]>>
      BY <1>1, <3>1, SubSeqRecursiveSecond
    <3> QED
      BY <1>1, <3>3, <3>4
  <2> HIDE DEF u
  <2>2. SubSeq(t, 1, n) = Append(u, t[n]) /\ <<t[n]>> \in Seq(S)
    BY <2>1, AppendIsConcat
  <2>3. s \o SubSeq(t, 1, n) = Append(s \o u, t[n]) /\ s \o u \in Seq(S)
    <3>1. s \o u \in Seq(S)
      BY <1>1, <2>1, ConcatProperties
    <3>2. (s \o u) \o <<t[n]>> = s \o (u \o <<t[n]>>)
      <4> DEFINE v == <<t[n]>>
      <4>1. s \in Seq(S) /\ u \in Seq(S) /\ v \in Seq(S)
        BY <1>1, <2>1, <2>2
      <4> HIDE DEF v
      <4>2. (s \o u) \o v = s \o (u \o v)
        BY <4>1, ConcatAssociative
      <4> QED
        BY <4>2 DEF v
    <3>3. (s \o u) \o <<t[n]>> = Append(s \o u, t[n])
      BY <3>1, <2>1, AppendIsConcat
    <3> QED
      BY <3>1, <3>2, <3>3, <2>1, Zenon
  <2>4. Bytes(s \o SubSeq(t, 1, n)) = Bytes(s \o u) \o t[n]
    BY <1>3, <2>1, <2>3
  <2>5. Bytes(s \o u) = Bytes(s) \o Bytes(u)
    BY <1>5 DEF u
  <2>6. Bytes(SubSeq(t, 1, n)) = Bytes(u) \o t[n]
    BY <1>3, <2>1, <2>2
  <2>7. (Bytes(s) \o Bytes(u)) \o t[n] = Bytes(s) \o (Bytes(u) \o t[n])
    <3>1. Bytes(s) \in Seq(Byte) /\ Bytes(u) \in Seq(Byte) /\ t[n] \in Seq(Byte)
      BY <1>1, <1>2, <2>1 DEF S
    <3> DEFINE a == Bytes(s)
               b == Bytes(u)
               c == t[n]
    <3>2. a \in Seq(Byte) /\ b \in Seq(Byte) /\ c \in Seq(Byte)
      BY <3>1
    <3> HIDE DEF a, b, c
    <3>3. (a \o b) \o c = a \o (b \o c)
      BY <3>2, ByteAssociative, Zenon
    <3> QED
      BY <3>3 DEF a, b, c
  <2>8. Bytes(s \o SubSeq(t, 1, n)) = Bytes(s) \o Bytes(SubSeq(t, 1, n))
    BY <2>4, <2>5, <2>6, <2>7, Zenon
  <2>9. n \in 0..N
    BY <1>1
  <2> QED
    BY <2>8, <2>9
<1> HIDE DEF E
<1>6. \A n \in 0..N : n \in E
  BY <1>1, <1>4, <1>5, UpToInduct
<1>7. N \in E
  BY <1>1, <1>6
<1>8. SubSeq(t, 1, N) = t
  BY <1>1, SubSeqFull DEF N
<1> QED
  BY <1>7, <1>8 DEF E

----------------------------------------------------------------------------
(* The place of a character in the bytes *)

Prefix(t, n) == SubSeq(t, 1, n)
Suffix(t, n) == SubSeq(t, n + 1, Len(t))

\* How many bytes the first n characters have.
Offset(t, n) == Len(Bytes(Prefix(t, n)))

LEMMA TextBytes ==
  ASSUME NEW t \in Texts
  PROVE  /\ t \in Seq(Seq(Byte)) /\ Len(t) \in Nat /\ Bytes(t) \in Seq(Byte)
         /\ \A n \in 1..Len(t) : t[n] \in Characters /\ t[n] \in Seq(Byte)
<1>1. Characters \subseteq Seq(Byte)
  BY DEF Characters, Byte
<1>2. t \in Seq(Characters)
  BY DEF Texts
<1>3. t \in Seq(Seq(Byte))
  BY <1>1, <1>2, SeqMonotonic
<1>4. Len(t) \in Nat /\ \A n \in 1..Len(t) : t[n] \in Characters
  BY <1>2, ElementOfSeq, LenProperties
<1> QED
  BY <1>1, <1>3, <1>4, BytesType

LEMMA Parts ==
  ASSUME NEW t \in Texts, NEW n \in 0..Len(t)
  PROVE  /\ Prefix(t, n) \in Texts /\ Len(Prefix(t, n)) = n
         /\ Suffix(t, n) \in Texts /\ t = Prefix(t, n) \o Suffix(t, n)
         /\ \A i \in 1..n : Prefix(t, n)[i] = t[i]
<1>1. t \in Seq(Characters) /\ Len(t) \in Nat
  BY TextBytes DEF Texts
<1>2. \A i \in 1..Len(t) : t[i] \in Characters
  BY <1>1, ElementOfSeq
<1>3. /\ SubSeq(t, 1, n) \in Seq(Characters) /\ Len(SubSeq(t, 1, n)) = n
      /\ \A i \in 1..n : SubSeq(t, 1, n)[i] = t[i]
  <2>1. \A i \in 1..n : t[i] \in Characters
    BY <1>1, <1>2
  <2>2. /\ SubSeq(t, 1, n) \in Seq(Characters)
        /\ Len(SubSeq(t, 1, n)) = IF 1 <= n THEN n - 1 + 1 ELSE 0
        /\ \A i \in 1..(n - 1 + 1) : SubSeq(t, 1, n)[i] = t[1 + i - 1]
    BY <2>1, <1>1, SubSeqProperties
  <2> QED
    BY <2>2, <1>1
<1>4. SubSeq(t, n + 1, Len(t)) \in Seq(Characters)
  <2>1. \A i \in (n + 1)..Len(t) : t[i] \in Characters
    BY <1>1, <1>2
  <2> QED
    BY <2>1, <1>1, SubSeqProperties
<1>5. SubSeq(t, 1, n) \o SubSeq(t, n + 1, Len(t)) = SubSeq(t, 1, Len(t))
  <2>1. 1 \in 1..(Len(t) + 1) /\ n \in (1 - 1)..Len(t) /\ Len(t) \in n..Len(t)
    BY <1>1
  <2> QED
    BY <1>1, <2>1, ConcatAdjacentSubSeq
<1>6. SubSeq(t, 1, Len(t)) = t
  BY <1>1, SubSeqFull
<1> QED
  BY <1>3, <1>4, <1>5, <1>6 DEF Prefix, Suffix, Texts

LEMMA PrefixStep ==
  ASSUME NEW t \in Texts, NEW n \in 1..Len(t)
  PROVE  /\ Bytes(Prefix(t, n)) = Bytes(Prefix(t, n - 1)) \o t[n]
         /\ Offset(t, n) = Offset(t, n - 1) + Len(t[n])
         /\ Len(t[n]) \in Nat \ {0} /\ Offset(t, n - 1) \in Nat
<1>1. /\ t \in Seq(Characters) /\ Len(t) \in Nat /\ n - 1 \in 0..Len(t)
      /\ 1 \in 1..Len(t) /\ n \in 1..Len(t) /\ t[n] \in Characters /\ t[n] \in Seq(Byte)
  BY TextBytes DEF Texts
<1>2. Prefix(t, n - 1) \in Texts
  BY <1>1, Parts
<1>3. SubSeq(t, 1, n) = SubSeq(t, 1, n - 1) \o <<t[n]>>
  BY <1>1, SubSeqRecursiveSecond
<1>4. Prefix(t, n) = Append(Prefix(t, n - 1), t[n])
  BY <1>1, <1>2, <1>3, AppendIsConcat DEF Prefix, Texts
<1>5. Prefix(t, n - 1) \in Seq(Seq(Byte)) /\ Bytes(Prefix(t, n - 1)) \in Seq(Byte)
  BY <1>2, TextBytes
<1>6. Bytes(Prefix(t, n)) = Bytes(Prefix(t, n - 1)) \o t[n]
  BY <1>1, <1>4, <1>5, BytesAppend
<1>7. Len(t[n]) \in Nat \ {0}
  <2>1. t[n] /= <<>>
    BY <1>1 DEF Characters
  <2> QED
    BY <1>1, <2>1, EmptySeq
<1>8. /\ Len(Bytes(Prefix(t, n - 1)) \o t[n]) = Len(Bytes(Prefix(t, n - 1))) + Len(t[n])
      /\ Len(Bytes(Prefix(t, n - 1))) \in Nat
  BY <1>1, <1>5, ConcatProperties, LenProperties
<1> QED
  BY <1>6, <1>7, <1>8 DEF Offset

LEMMA Offsets ==
  ASSUME NEW t \in Texts
  PROVE  /\ \A n \in 0..Len(t) : Offset(t, n) \in Nat
         /\ Offset(t, 0) = 0 /\ Offset(t, Len(t)) = Len(Bytes(t))
         /\ \A n \in 0..Len(t) : \A m \in 0..Len(t) : m < n => Offset(t, m) < Offset(t, n)
<1>1. t \in Seq(Characters) /\ Len(t) \in Nat
  BY TextBytes DEF Texts
<1>2. ASSUME NEW n \in 0..Len(t) PROVE Offset(t, n) \in Nat
  BY Parts, TextBytes, LenProperties DEF Offset
<1>3. Offset(t, 0) = 0
  <2>1. Prefix(t, 0) = <<>>
    BY SubSeqEmpty DEF Prefix
  <2>2. Len(<<>>) = 0
    OBVIOUS
  <2> QED
    BY <2>1, <2>2, BytesEmpty DEF Offset
<1>4. Offset(t, Len(t)) = Len(Bytes(t))
  <2>1. Prefix(t, Len(t)) = t
    BY <1>1, SubSeqFull DEF Prefix
  <2> QED
    BY <2>1 DEF Offset
<1> DEFINE E == {n \in 0..Len(t) : \A m \in 0..Len(t) : m < n => Offset(t, m) < Offset(t, n)}
<1>5. 0 \in E
  BY <1>1
<1>6. ASSUME NEW n \in 1..Len(t), n - 1 \in E PROVE n \in E
  <2>1. Offset(t, n - 1) < Offset(t, n)
    <3>1. Offset(t, n) = Offset(t, n - 1) + Len(t[n]) /\ Len(t[n]) \in Nat \ {0} /\ Offset(t, n - 1) \in Nat
      BY PrefixStep
    <3> QED
      BY <3>1
  <2>2. ASSUME NEW m \in 0..Len(t), m < n PROVE Offset(t, m) < Offset(t, n)
    <3>1. m = n - 1 \/ m < n - 1
      BY <2>2, <1>1
    <3>2. Offset(t, m) \in Nat /\ Offset(t, n - 1) \in Nat /\ Offset(t, n) \in Nat
      BY <1>1, <1>2
    <3>3. m < n - 1 => Offset(t, m) < Offset(t, n - 1)
      BY <1>6
    <3> QED
      BY <2>1, <3>1, <3>2, <3>3
  <2>3. n \in 0..Len(t)
    BY <1>1
  <2> QED
    BY <2>2, <2>3
<1> HIDE DEF E
<1>7. \A n \in 0..Len(t) : n \in E
  BY <1>1, <1>5, <1>6, UpToInduct
<1> QED
  BY <1>2, <1>3, <1>4, <1>7 DEF E

\* The bytes before a character are those of the characters before it.
LEMMA SplitAtOffset ==
  ASSUME NEW t \in Texts, NEW n \in 0..Len(t)
  PROVE  /\ SubSeq(Bytes(t), 1, Offset(t, n)) = Bytes(Prefix(t, n))
         /\ SubSeq(Bytes(t), Offset(t, n) + 1, Len(Bytes(t))) = Bytes(Suffix(t, n))
         /\ \A i \in 1..Offset(t, n) : Bytes(t)[i] = Bytes(Prefix(t, n))[i]
<1> DEFINE p == Bytes(Prefix(t, n))
           q == Bytes(Suffix(t, n))
<1>1. p \in Seq(Byte) /\ q \in Seq(Byte) /\ Bytes(t) = p \o q
  <2>1. /\ Prefix(t, n) \in Seq(Seq(Byte)) /\ Suffix(t, n) \in Seq(Seq(Byte))
        /\ t = Prefix(t, n) \o Suffix(t, n)
    BY Parts, TextBytes
  <2> QED
    BY <2>1, BytesConcat, BytesType
<1>2. Len(p) = Offset(t, n) /\ Len(p) \in Nat /\ Len(q) \in Nat
  BY <1>1, LenProperties DEF Offset
<1> HIDE DEF p, q
<1>3. /\ Len(p \o q) = Len(p) + Len(q) /\ p \o q \in Seq(Byte)
      /\ \A i \in 1..(Len(p) + Len(q)) : (p \o q)[i] = IF i <= Len(p) THEN p[i] ELSE q[i - Len(p)]
  BY <1>1, ConcatProperties
<1>4. SubSeq(p \o q, 1, Len(p)) = p
  <2>1. \A i \in 1..Len(p) : (p \o q)[i] = p[i] /\ p[i] \in Byte
    BY <1>1, <1>2, <1>3, ElementOfSeq
  <2>2. /\ SubSeq(p \o q, 1, Len(p)) \in Seq(Byte)
        /\ Len(SubSeq(p \o q, 1, Len(p))) = IF 1 <= Len(p) THEN Len(p) - 1 + 1 ELSE 0
        /\ \A i \in 1..(Len(p) - 1 + 1) : SubSeq(p \o q, 1, Len(p))[i] = (p \o q)[1 + i - 1]
    BY <1>2, <2>1, SubSeqProperties
  <2>3. Len(SubSeq(p \o q, 1, Len(p))) = Len(p)
    BY <1>2, <2>2
  <2>4. \A i \in 1..Len(p) : SubSeq(p \o q, 1, Len(p))[i] = p[i]
    BY <1>2, <2>1, <2>2
  <2> QED
    BY <1>1, <2>2, <2>3, <2>4, SeqEqual
<1>5. SubSeq(p \o q, Len(p) + 1, Len(p) + Len(q)) = q
  <2> DEFINE r == SubSeq(p \o q, Len(p) + 1, Len(p) + Len(q))
  <2>1. \A i \in 1..Len(q) : (p \o q)[Len(p) + i] = q[i] /\ q[i] \in Byte
    <3>1. ASSUME NEW i \in 1..Len(q) PROVE (p \o q)[Len(p) + i] = q[i]
      <4>1. /\ Len(p) + i \in 1..(Len(p) + Len(q)) /\ ~(Len(p) + i <= Len(p))
            /\ (Len(p) + i) - Len(p) = i
        BY <1>2
      <4> QED
        BY <1>3, <4>1
    <3> QED
      BY <1>1, <3>1, ElementOfSeq
  <2>2. \A i \in (Len(p) + 1)..(Len(p) + Len(q)) : (p \o q)[i] \in Byte
    <3>1. ASSUME NEW i \in (Len(p) + 1)..(Len(p) + Len(q)) PROVE (p \o q)[i] \in Byte
      <4>1. i \in 1..Len(p \o q)
        BY <1>2, <1>3
      <4> QED
        BY <1>3, <4>1, ElementOfSeq
    <3> QED
      BY <3>1
  <2>3. /\ r \in Seq(Byte)
        /\ Len(r) = IF Len(p) + 1 <= Len(p) + Len(q) THEN (Len(p) + Len(q)) - (Len(p) + 1) + 1 ELSE 0
        /\ \A i \in 1..((Len(p) + Len(q)) - (Len(p) + 1) + 1) : r[i] = (p \o q)[(Len(p) + 1) + i - 1]
    <3> DEFINE x == p \o q
               m == Len(p) + 1
               n1 == Len(p) + Len(q)
    <3>1. m \in Int /\ n1 \in Int /\ \A i \in m..n1 : x[i] \in Byte
      BY <1>2, <2>2
    <3> HIDE DEF x, m, n1
    <3>2. /\ SubSeq(x, m, n1) \in Seq(Byte)
          /\ Len(SubSeq(x, m, n1)) = IF m <= n1 THEN n1 - m + 1 ELSE 0
          /\ \A i \in 1..(n1 - m + 1) : SubSeq(x, m, n1)[i] = x[m + i - 1]
      BY <3>1, SubSeqProperties
    <3> QED
      BY <3>2 DEF x, m, n1
  <2> HIDE DEF r
  <2>4. Len(r) = Len(q)
    BY <1>2, <2>3
  <2>5. ASSUME NEW i \in 1..Len(q) PROVE r[i] = q[i]
    <3>1. i \in 1..((Len(p) + Len(q)) - (Len(p) + 1) + 1) /\ (Len(p) + 1) + i - 1 = Len(p) + i
      BY <1>2
    <3> QED
      BY <2>1, <2>3, <3>1
  <2>6. r = q
    BY <1>1, <2>3, <2>4, <2>5, SeqEqual
  <2> QED
    BY <2>6 DEF r
<1>6. Len(Bytes(t)) = Len(p) + Len(q)
  BY <1>1, <1>3
<1>7. \A i \in 1..Offset(t, n) : Bytes(t)[i] = p[i]
  BY <1>1, <1>2, <1>3
<1> QED
  BY <1>1, <1>2, <1>4, <1>5, <1>6, <1>7 DEF p, q

LEMMA ByteAt ==
  ASSUME NEW t \in Texts, NEW n \in 1..Len(t), NEW j \in 1..Len(t[n])
  PROVE  /\ Offset(t, n - 1) + j \in 1..Len(Bytes(t))
         /\ Offset(t, n - 1) + j <= Offset(t, n)
         /\ Bytes(t)[Offset(t, n - 1) + j] = t[n][j]
<1>1. /\ n \in 0..Len(t) /\ n - 1 \in 0..Len(t) /\ Len(t) \in Nat
      /\ t[n] \in Seq(Byte) /\ Bytes(t) \in Seq(Byte)
  BY TextBytes
<1>2. /\ Bytes(Prefix(t, n)) = Bytes(Prefix(t, n - 1)) \o t[n]
      /\ Offset(t, n) = Offset(t, n - 1) + Len(t[n])
      /\ Len(t[n]) \in Nat \ {0} /\ Offset(t, n - 1) \in Nat
  BY PrefixStep
<1>3. Offset(t, n) <= Len(Bytes(t)) /\ Offset(t, n) \in Nat /\ Len(Bytes(t)) \in Nat
  <2>1. Offset(t, n) \in Nat /\ Offset(t, Len(t)) = Len(Bytes(t)) /\ Len(t) \in 0..Len(t)
        /\ (n < Len(t) => Offset(t, n) < Offset(t, Len(t)))
    BY <1>1, Offsets
  <2>2. Len(Bytes(t)) \in Nat
    BY <1>1, LenProperties
  <2> QED
    BY <1>1, <2>1, <2>2
<1> DEFINE p == Bytes(Prefix(t, n - 1))
           i == Offset(t, n - 1) + j
<1>4. p \in Seq(Byte) /\ Len(p) = Offset(t, n - 1)
  BY <1>1, Parts, TextBytes DEF Offset
<1>5. i \in 1..Offset(t, n) /\ i \in 1..(Len(p) + Len(t[n])) /\ ~(i <= Len(p)) /\ i - Len(p) = j
  <2>1. j \in Nat /\ 1 <= j /\ j <= Len(t[n])
    BY <1>2
  <2> HIDE DEF p
  <2> QED
    BY <1>2, <1>4, <2>1
<1> HIDE DEF p
<1> HIDE DEF i
<1>6. (p \o t[n])[i] = t[n][i - Len(p)]
  BY <1>1, <1>4, <1>5, ConcatProperties
<1>7. Bytes(t)[i] = Bytes(Prefix(t, n))[i]
  BY <1>1, <1>5, SplitAtOffset
<1>8. Bytes(t)[i] = t[n][j]
  BY <1>2, <1>5, <1>6, <1>7, Zenon DEF p
<1>9. i \in 1..Len(Bytes(t)) /\ i <= Offset(t, n)
  BY <1>3, <1>5
<1> QED
  BY <1>8, <1>9, Zenon DEF i

\* Every byte belongs to a character.
LEMMA ByteHasCharacter ==
  ASSUME NEW t \in Texts, NEW i \in 1..Len(Bytes(t))
  PROVE  \E n \in 1..Len(t) : \E j \in 1..Len(t[n]) : i = Offset(t, n - 1) + j
<1>1. Len(t) \in Nat /\ Len(Bytes(t)) \in Nat
  BY TextBytes, LenProperties
<1> DEFINE In(k, n) == \E j \in 1..Len(t[n]) : k = Offset(t, n - 1) + j
           E == {n \in 0..Len(t) : \A k \in 1..Offset(t, n) : \E m \in 1..Len(t) : In(k, m)}
<1>2. 0 \in E
  <2>1. Offset(t, 0) = 0
    BY Offsets
  <2> QED
    BY <1>1, <2>1
<1>3. ASSUME NEW n \in 1..Len(t), n - 1 \in E PROVE n \in E
  <2>1. /\ Offset(t, n) = Offset(t, n - 1) + Len(t[n])
        /\ Len(t[n]) \in Nat \ {0} /\ Offset(t, n - 1) \in Nat
    BY PrefixStep
  <2>2. ASSUME NEW k \in 1..Offset(t, n) PROVE \E m \in 1..Len(t) : In(k, m)
    <3>1. CASE k <= Offset(t, n - 1)
      <4>1. k \in 1..Offset(t, n - 1)
        BY <2>1, <3>1
      <4> HIDE DEF In
      <4> QED
        BY <1>3, <4>1
    <3>2. CASE ~(k <= Offset(t, n - 1))
      <4> DEFINE j == k - Offset(t, n - 1)
      <4>1. j \in 1..Len(t[n]) /\ k = Offset(t, n - 1) + j
        BY <2>1, <3>2
      <4>2. In(k, n)
        BY <4>1
      <4> HIDE DEF In
      <4> QED
        BY <4>2
    <3> QED
      BY <3>1, <3>2
  <2>3. n \in 0..Len(t)
    BY <1>1
  <2> HIDE DEF In
  <2> QED
    BY <2>2, <2>3
<1> HIDE DEF E
<1>4. \A n \in 0..Len(t) : n \in E
  BY <1>1, <1>2, <1>3, UpToInduct
<1>5. Len(t) \in E /\ Offset(t, Len(t)) = Len(Bytes(t))
  BY <1>1, <1>4, Offsets
<1> QED
  BY <1>5 DEF E

\* Offsets keep the order.
LEMMA OffsetOrder ==
  ASSUME NEW t \in Texts, NEW m \in 0..Len(t), NEW n \in 0..Len(t)
  PROVE  /\ m <= n <=> Offset(t, m) <= Offset(t, n)
         /\ m = n <=> Offset(t, m) = Offset(t, n)
         /\ Offset(t, m) \in 0..Len(Bytes(t))
<1>1. Len(t) \in Nat /\ Len(t) \in 0..Len(t) /\ m \in Nat /\ n \in Nat
  BY TextBytes
<1>2. /\ Offset(t, m) \in Nat /\ Offset(t, n) \in Nat /\ Offset(t, Len(t)) = Len(Bytes(t))
      /\ m < n => Offset(t, m) < Offset(t, n)
      /\ n < m => Offset(t, n) < Offset(t, m)
      /\ m < Len(t) => Offset(t, m) < Offset(t, Len(t))
      /\ Offset(t, Len(t)) \in Nat
  BY <1>1, Offsets
<1> QED
  BY <1>1, <1>2

\* The newlines of a text, up to a character.
NewlinesTo(t, k) == {i \in 1..k : t[i] = <<Newline>>}

\* A byte of a character with several of them is no newline.
LEMMA NewlineByte ==
  ASSUME NEW c \in Characters, NEW j \in 1..Len(c)
  PROVE  c[j] = Newline <=> c = <<Newline>>
<1>1. c \in Seq(Byte) /\ (c[1] < 128 => Len(c) = 1) /\ \A k \in 2..Len(c) : IsContinuation(c[k])
  BY DEF Characters, Byte
<1>2. Len(c) \in Nat /\ \A k \in 1..Len(c) : c[k] \in Byte
  BY <1>1, ElementOfSeq, LenProperties
<1>3. ASSUME c[j] = Newline PROVE c = <<Newline>>
  <2>1. j = 1
    <3>1. j \in Nat /\ (j /= 1 => j \in 2..Len(c))
      BY <1>2
    <3>2. j /= 1 => c[j] \in 128..191
      BY <1>1, <3>1 DEF IsContinuation
    <3> QED
      BY <1>3, <3>2 DEF Newline
  <2>2. Len(c) = 1 /\ c[1] = Newline
    BY <1>1, <1>2, <1>3, <2>1 DEF Newline
  <2>3. <<Newline>> \in Seq(Byte) /\ Len(<<Newline>>) = 1 /\ <<Newline>>[1] = Newline
    BY DEF Byte, Newline
  <2> DEFINE d == <<Newline>>
  <2>4. d \in Seq(Byte) /\ Len(d) = 1 /\ d[1] = Newline
    BY <2>3
  <2> HIDE DEF d
  <2>5. \A i \in 1..Len(c) : c[i] = d[i]
    BY <2>2, <2>4
  <2>6. c = d
    BY <1>1, <2>2, <2>4, <2>5, SeqEqual
  <2> QED
    BY <2>6 DEF d
<1>4. ASSUME c = <<Newline>> PROVE c[j] = Newline
  <2>1. Len(<<Newline>>) = 1 /\ <<Newline>>[1] = Newline
    OBVIOUS
  <2>2. j = 1
    BY <1>4, <2>1
  <2> QED
    BY <1>4, <2>1, <2>2
<1> QED
  BY <1>3, <1>4

\* The newlines among the bytes are those of the text.
LEMMA NewlinesOfBytes ==
  ASSUME NEW t \in Texts
  PROVE  Newlines(Bytes(t)) = {Offset(t, n) : n \in NewlinesTo(t, Len(t))}
<1>1. Len(t) \in Nat
  BY TextBytes
<1>2. ASSUME NEW i \in Newlines(Bytes(t))
      PROVE  \E n \in NewlinesTo(t, Len(t)) : i = Offset(t, n)
  <2>1. i \in 1..Len(Bytes(t)) /\ Bytes(t)[i] = Newline
    BY DEF Newlines
  <2>2. PICK n \in 1..Len(t) : \E j \in 1..Len(t[n]) : i = Offset(t, n - 1) + j
    BY <2>1, ByteHasCharacter
  <2>3. PICK j \in 1..Len(t[n]) : i = Offset(t, n - 1) + j
    BY <2>2
  <2>4. t[n][j] = Newline
    BY <2>1, <2>3, ByteAt
  <2>5. t[n] \in Characters
    BY TextBytes
  <2>6. t[n] = <<Newline>>
    BY <2>3, <2>4, <2>5, NewlineByte
  <2>7. Len(t[n]) = 1
    BY <2>6
  <2>8. Offset(t, n) = Offset(t, n - 1) + Len(t[n]) /\ Offset(t, n - 1) \in Nat
    BY PrefixStep
  <2>9. i = Offset(t, n)
    BY <2>3, <2>7, <2>8
  <2> QED
    BY <2>6, <2>9 DEF NewlinesTo
<1>3. ASSUME NEW n \in NewlinesTo(t, Len(t)) PROVE Offset(t, n) \in Newlines(Bytes(t))
  <2>1. n \in 1..Len(t) /\ t[n] = <<Newline>>
    BY DEF NewlinesTo
  <2>2. Len(t[n]) = 1 /\ t[n][1] = Newline /\ 1 \in 1..Len(t[n])
    BY <2>1
  <2>3. Offset(t, n) = Offset(t, n - 1) + 1
    BY <2>1, <2>2, PrefixStep
  <2>4. Offset(t, n) \in 1..Len(Bytes(t)) /\ Bytes(t)[Offset(t, n)] = Newline
    BY <2>1, <2>2, <2>3, ByteAt
  <2> QED
    BY <2>4 DEF Newlines
<1> QED
  BY <1>2, <1>3

\* Sets of characters and of their offsets are of one size.
LEMMA OffsetsCounted ==
  ASSUME NEW t \in Texts, NEW S \in SUBSET (0..Len(t))
  PROVE  /\ IsFiniteSet(S) /\ IsFiniteSet({Offset(t, n) : n \in S})
         /\ Cardinality({Offset(t, n) : n \in S}) = Cardinality(S)
<1> DEFINE T == {Offset(t, n) : n \in S}
           f == [n \in S |-> Offset(t, n)]
<1>1. Len(t) \in Nat
  BY TextBytes
<1>2. IsFiniteSet(S)
  <2>1. IsFiniteSet(0..Len(t))
    BY <1>1, FS_Interval
  <2> QED
    BY <2>1, FS_Subset
<1>3. f \in Bijection(S, T)
  <2>1. \A x \in S, y \in S : f[x] = f[y] => x = y
    BY OffsetOrder
  <2> QED
    BY <2>1 DEF Bijection, Injection, Surjection, IsInjective
<1>4. ExistsBijection(S, T)
  BY <1>3 DEF ExistsBijection
<1> HIDE DEF T
<1>5. IsFiniteSet(T) /\ Cardinality(T) = Cardinality(S)
  BY <1>2, <1>4, FS_Bijection
<1> QED
  BY <1>2, <1>5 DEF T

----------------------------------------------------------------------------
(* Largest and least elements *)

LEMMA MaxIs ==
  ASSUME NEW S \in SUBSET Int, NEW m \in S, \A y \in S : y <= m
  PROVE  Max(S) = m
<1>1. \A y \in S : m >= y
  OBVIOUS
<1>2. \A x \in S : (\A y \in S : x >= y) => x = m
  OBVIOUS
<1> QED
  BY <1>1, <1>2 DEF Max

LEMMA MinIs ==
  ASSUME NEW S \in SUBSET Int, NEW m \in S, \A y \in S : m <= y
  PROVE  Min(S) = m
<1>1. \A y \in S : m =< y
  OBVIOUS
<1>2. \A x \in S : (\A y \in S : x =< y) => x = m
  OBVIOUS
<1> QED
  BY <1>1, <1>2 DEF Min

LEMMA MinIn ==
  ASSUME NEW S \in SUBSET Nat, S /= {}
  PROVE  Min(S) \in S /\ \A y \in S : Min(S) <= y
<1>1. PICK m \in S : \A y \in S : m <= y
  BY LeastElement
<1>2. Min(S) = m
  BY <1>1, MinIs
<1> QED
  BY <1>1, <1>2

LEMMA MaxIn ==
  ASSUME NEW N \in Nat, NEW S \in SUBSET (0..N), S /= {}
  PROVE  Max(S) \in S /\ \A y \in S : y <= Max(S)
<1> DEFINE T == {n \in Nat : \A y \in S : y <= n}
<1>1. N \in T
  OBVIOUS
<1>2. PICK m \in T : \A k \in T : m <= k
  BY <1>1, LeastElement
<1>3. m \in S
  <2>1. ASSUME m \notin S PROVE FALSE
    <3>1. \A y \in S : y <= m - 1
      BY <1>2, <2>1
    <3>2. PICK y \in S : TRUE
      OBVIOUS
    <3>3. m - 1 \in Nat
      BY <1>2, <3>1, <3>2
    <3>4. m - 1 \in T
      BY <3>1, <3>3
    <3> QED
      BY <1>2, <3>4
  <2> QED
    BY <2>1
<1>4. \A y \in S : y <= m
  BY <1>2
<1>5. Max(S) = m
  BY <1>3, <1>4, MaxIs
<1> QED
  BY <1>3, <1>4, <1>5

----------------------------------------------------------------------------
(* getOffsetForPosition finds the character of a position *)

\* The last newline before a place, zero if there is none.
LineStart(t, k) == Max(NewlinesTo(t, k) \cup {0})

LEMMA PlaceInLine ==
  ASSUME NEW t \in Texts, NEW k \in 0..Len(t)
  PROVE  /\ LineStart(t, k) \in 0..k
         /\ PosAt(t, k) = <<Cardinality(NewlinesTo(t, k)), k - LineStart(t, k)>>
         /\ NewlinesTo(t, k) = NewlinesTo(t, LineStart(t, k))
         /\ NewlinesTo(t, k) = {} <=> LineStart(t, k) = 0
         /\ LineStart(t, k) /= 0 => LineStart(t, k) \in NewlinesTo(t, k)
         /\ IsFiniteSet(NewlinesTo(t, k)) /\ Cardinality(NewlinesTo(t, k)) \in Nat
         /\ Cardinality(NewlinesTo(t, k)) = 0 <=> NewlinesTo(t, k) = {}
<1> DEFINE S == NewlinesTo(t, k) \cup {0}
<1>1. Len(t) \in Nat /\ k \in Nat
  BY TextBytes
<1>2. S \in SUBSET (0..k) /\ S /= {}
  BY <1>1 DEF NewlinesTo
<1>3. Max(S) \in S /\ \A y \in S : y <= Max(S)
  <2> HIDE DEF S
  <2> QED
    BY <1>1, <1>2, MaxIn
<1>4. LineStart(t, k) \in S /\ \A y \in S : y <= LineStart(t, k)
  BY <1>3 DEF LineStart
<1>5. LineStart(t, k) \in 0..k
  BY <1>2, <1>4
<1>6. NewlinesTo(t, k) = NewlinesTo(t, LineStart(t, k))
  BY <1>1, <1>4, <1>5 DEF NewlinesTo
<1>7. \A i \in NewlinesTo(t, k) : i >= 1
  BY <1>1 DEF NewlinesTo
<1>8. PosAt(t, k) = <<Cardinality(NewlinesTo(t, k)), k - LineStart(t, k)>>
  BY DEF PosAt, NewlinesTo, LineStart
<1>9. IsFiniteSet(NewlinesTo(t, k))
  <2>1. NewlinesTo(t, k) \in SUBSET (0..Len(t))
    BY <1>1 DEF NewlinesTo
  <2> QED
    BY <2>1, OffsetsCounted
<1>10. Cardinality(NewlinesTo(t, k)) \in Nat
  BY <1>9, FS_CardinalityType
<1>11. Cardinality(NewlinesTo(t, k)) = 0 <=> NewlinesTo(t, k) = {}
  BY <1>9, FS_EmptySet
<1>12. /\ NewlinesTo(t, k) = {} <=> LineStart(t, k) = 0
       /\ LineStart(t, k) /= 0 => LineStart(t, k) \in NewlinesTo(t, k)
  <2>1. LineStart(t, k) /= 0 => LineStart(t, k) \in NewlinesTo(t, k)
    BY <1>4
  <2>2. ASSUME LineStart(t, k) = 0, NEW i \in NewlinesTo(t, k) PROVE FALSE
    <3>1. i \in S
      OBVIOUS
    <3>2. i <= 0 /\ i >= 1 /\ i \in Nat
      BY <1>1, <1>4, <1>7, <2>2, <3>1 DEF NewlinesTo
    <3> QED
      BY <3>2
  <2> QED
    BY <2>1, <2>2
<1> QED
  BY <1>5, <1>6, <1>8, <1>9, <1>10, <1>11, <1>12

\* The newlines up to the offset of a character.
LEMMA NewlinesBefore ==
  ASSUME NEW t \in Texts, NEW m \in 0..Len(t)
  PROVE  /\ {i \in Newlines(Bytes(t)) : i <= Offset(t, m)} = {Offset(t, n) : n \in NewlinesTo(t, m)}
         /\ Cardinality({i \in Newlines(Bytes(t)) : i <= Offset(t, m)}) = Cardinality(NewlinesTo(t, m))
<1>1. Len(t) \in Nat /\ NewlinesTo(t, m) \in SUBSET (0..Len(t))
  BY TextBytes DEF NewlinesTo
<1>2. {i \in Newlines(Bytes(t)) : i <= Offset(t, m)} = {Offset(t, n) : n \in NewlinesTo(t, m)}
  <2>1. \A n \in 0..Len(t) : Offset(t, n) <= Offset(t, m) <=> n <= m
    BY OffsetOrder
  <2>2. NewlinesTo(t, m) = {n \in NewlinesTo(t, Len(t)) : n <= m}
    BY <1>1 DEF NewlinesTo
  <2>3. NewlinesTo(t, Len(t)) \subseteq 0..Len(t)
    BY <1>1 DEF NewlinesTo
  <2>4. Newlines(Bytes(t)) = {Offset(t, n) : n \in NewlinesTo(t, Len(t))}
    BY NewlinesOfBytes
  <2> QED
    BY <2>1, <2>2, <2>3, <2>4
<1> QED
  BY <1>1, <1>2, OffsetsCounted

\* The newline at which the line of a place begins is the one that is counted.
LEMMA LineStartFound ==
  ASSUME NEW t \in Texts, NEW k \in 0..Len(t), LineStart(t, k) /= 0
  PROVE  /\ NthNewline(Bytes(t), Cardinality(NewlinesTo(t, k))) = Offset(t, LineStart(t, k))
         /\ Cardinality(NewlinesTo(t, k)) <= Cardinality(Newlines(Bytes(t)))
<1> DEFINE m == LineStart(t, k)
           C == Newlines(Bytes(t))
           Rank(i) == Cardinality({j \in C : j <= i})
<1>1. /\ Len(t) \in Nat /\ m \in 0..k /\ m \in 0..Len(t) /\ m \in NewlinesTo(t, k)
      /\ NewlinesTo(t, k) = NewlinesTo(t, m) /\ NewlinesTo(t, m) \subseteq NewlinesTo(t, Len(t))
  <2>1. Len(t) \in Nat
    BY TextBytes
  <2>2. m \in 0..k /\ m \in NewlinesTo(t, k) /\ NewlinesTo(t, k) = NewlinesTo(t, m)
    BY PlaceInLine
  <2> HIDE DEF m
  <2> QED
    BY <2>1, <2>2 DEF NewlinesTo
<1> HIDE DEF m
<1>2. C = {Offset(t, n) : n \in NewlinesTo(t, Len(t))}
  BY NewlinesOfBytes
<1>3. \A n \in 0..Len(t) : Rank(Offset(t, n)) = Cardinality(NewlinesTo(t, n))
  BY NewlinesBefore
<1>4. Offset(t, m) \in C
  BY <1>1, <1>2
<1>5. ASSUME NEW i \in C, Rank(i) = Cardinality(NewlinesTo(t, m)) PROVE i = Offset(t, m)
  <2>1. PICK n \in NewlinesTo(t, Len(t)) : i = Offset(t, n)
    BY <1>2
  <2>2. n \in 0..Len(t) /\ n \in NewlinesTo(t, n)
    BY <1>1, <2>1 DEF NewlinesTo
  <2>3. Cardinality(NewlinesTo(t, n)) = Cardinality(NewlinesTo(t, m))
    BY <1>3, <1>5, <2>1, <2>2
  <2>4. IsFiniteSet(NewlinesTo(t, n)) /\ IsFiniteSet(NewlinesTo(t, m))
    BY <1>1, <2>2, PlaceInLine
  <2>5. m \in NewlinesTo(t, m)
    BY <1>1
  <2>6. NewlinesTo(t, n) \subseteq NewlinesTo(t, m) \/ NewlinesTo(t, m) \subseteq NewlinesTo(t, n)
    BY <1>1, <2>2 DEF NewlinesTo
  <2>7. NewlinesTo(t, n) = NewlinesTo(t, m)
    BY <2>3, <2>4, <2>6, FS_Subset
  <2>8. n \in NewlinesTo(t, m) /\ m \in NewlinesTo(t, n)
    BY <2>2, <2>5, <2>7
  <2>9. n = m
    BY <1>1, <2>2, <2>8 DEF NewlinesTo
  <2> QED
    BY <2>1, <2>9
<1>6. NthNewline(Bytes(t), Cardinality(NewlinesTo(t, m))) = Offset(t, m)
  <2>1. NthNewline(Bytes(t), Cardinality(NewlinesTo(t, m))) =
          CHOOSE i \in C : Rank(i) = Cardinality(NewlinesTo(t, m))
    BY DEF NthNewline
  <2>2. Rank(Offset(t, m)) = Cardinality(NewlinesTo(t, m))
    BY <1>1, <1>3
  <2> HIDE DEF C, Rank
  <2> QED
    BY <1>4, <1>5, <2>1, <2>2
<1>7. Cardinality(NewlinesTo(t, m)) <= Cardinality(C)
  <2>1. Len(t) \in 0..Len(t) /\ NewlinesTo(t, Len(t)) \in SUBSET (0..Len(t))
    BY <1>1 DEF NewlinesTo
  <2>2. Cardinality(C) = Cardinality(NewlinesTo(t, Len(t)))
    BY <1>2, <2>1, OffsetsCounted
  <2>3. IsFiniteSet(NewlinesTo(t, Len(t)))
    BY <2>1, PlaceInLine
  <2> QED
    BY <1>1, <2>2, <2>3, FS_Subset
<1> QED
  BY <1>1, <1>6, <1>7 DEF m

\* The conditions under which getOffsetForPosition counts a character, behind the
\* begin of its line.
StartsAt(content, begin, limit, i) ==
  /\ begin < i /\ i <= limit
  /\ i = begin + 1 \/ ~IsContinuation(content[i]) \/ content[i - 1] < 128

\* Behind the begin of a line up to a place, the bytes that begin a character.
LEMMA CharactersCounted ==
  ASSUME NEW t \in Texts, NEW m \in 0..Len(t), NEW k \in m..Len(t),
         NEW limit \in Offset(t, k)..Len(Bytes(t))
  PROVE  /\ {i \in 1..Offset(t, k) : StartsAt(Bytes(t), Offset(t, m), limit, i)}
              = {Offset(t, j - 1) + 1 : j \in (m + 1)..k}
         /\ Cardinality({i \in 1..Offset(t, k) : StartsAt(Bytes(t), Offset(t, m), limit, i)}) = k - m
<1> DEFINE begin == Offset(t, m)
           A == {i \in 1..Offset(t, k) : StartsAt(Bytes(t), begin, limit, i)}
           B == {Offset(t, j - 1) + 1 : j \in (m + 1)..k}
<1>1. /\ Len(t) \in Nat /\ m \in Nat /\ k \in Nat /\ k \in 0..Len(t) /\ begin \in Nat
      /\ Offset(t, k) \in Nat /\ limit \in Nat /\ Offset(t, k) <= limit
      /\ Offset(t, k) <= Len(Bytes(t)) /\ Len(Bytes(t)) \in Nat
  <2>1. Len(t) \in Nat /\ Len(Bytes(t)) \in Nat
    BY TextBytes, LenProperties
  <2>2. m \in Nat /\ k \in Nat /\ k \in 0..Len(t)
    BY <2>1
  <2>3. begin \in Nat /\ Offset(t, k) \in Nat /\ Offset(t, k) \in 0..Len(Bytes(t))
    BY <2>2, Offsets, OffsetOrder
  <2> HIDE DEF begin
  <2> QED
    BY <2>1, <2>2, <2>3
<1>2. ASSUME NEW i \in A PROVE i \in B
  <2>1. i \in 1..Offset(t, k) /\ begin < i /\ i \in 1..Len(Bytes(t)) /\ i \in Nat
    BY <1>1 DEF StartsAt
  <2>2. i = begin + 1 \/ ~IsContinuation(Bytes(t)[i]) \/ Bytes(t)[i - 1] < 128
    BY DEF StartsAt
  <2>3. PICK n \in 1..Len(t) : \E j \in 1..Len(t[n]) : i = Offset(t, n - 1) + j
    BY <2>1, ByteHasCharacter
  <2>4. PICK j \in 1..Len(t[n]) : i = Offset(t, n - 1) + j
    BY <2>3
  <2>5. /\ t[n] \in Characters /\ t[n] \in Seq(Byte) /\ Len(t[n]) \in Nat
        /\ Offset(t, n - 1) \in Nat /\ n - 1 \in 0..Len(t) /\ n \in 0..Len(t) /\ n \in Nat
        /\ Offset(t, n) = Offset(t, n - 1) + Len(t[n]) /\ j \in Nat /\ 1 <= j /\ j <= Len(t[n])
    <3>1. t[n] \in Characters /\ t[n] \in Seq(Byte)
      BY TextBytes
    <3>2. Len(t[n]) \in Nat /\ Offset(t, n - 1) \in Nat /\ Offset(t, n) = Offset(t, n - 1) + Len(t[n])
      BY PrefixStep
    <3> QED
      BY <1>1, <3>1, <3>2
  <2>6. m <= n - 1
    <3>1. Offset(t, n) > begin /\ Offset(t, n) \in Nat
      BY <1>1, <2>1, <2>4, <2>5
    <3>2. ~(n <= m)
      <4>1. n <= m => Offset(t, n) <= Offset(t, m)
        BY <2>5, OffsetOrder
      <4> QED
        BY <1>1, <3>1, <4>1
    <3> QED
      BY <1>1, <2>5, <3>2
  <2>7. n <= k
    <3>1. Offset(t, n - 1) < Offset(t, k)
      BY <1>1, <2>1, <2>4, <2>5
    <3>2. k <= n - 1 => Offset(t, k) <= Offset(t, n - 1)
      BY <1>1, <2>5, OffsetOrder
    <3> QED
      BY <1>1, <2>5, <3>1, <3>2
  <2>8. j = 1
    <3>1. ASSUME j /= 1 PROVE FALSE
      <4>1. j \in 2..Len(t[n]) /\ j - 1 \in 1..Len(t[n])
        BY <2>5, <3>1
      <4>2. IsContinuation(t[n][j])
        BY <2>5, <4>1 DEF Characters
      <4>3. t[n][j - 1] \in Nat /\ ~(t[n][j - 1] < 128)
        <5>1. CASE j - 1 = 1
          <6>1. t[n][1] < 128 => Len(t[n]) = 1
            BY <2>5 DEF Characters
          <6>2. t[n][1] \in 0..255
            BY <2>5, <4>1, <5>1, ElementOfSeq DEF Byte
          <6>3. PICK l : l = Len(t[n])
            OBVIOUS
          <6>4. l \in Nat /\ j <= l /\ j \in Nat
            BY <2>5, <6>3, Zenon
          <6>5. l /= 1
            BY <5>1, <6>4
          <6>6. ~(t[n][1] < 128)
            BY <6>1, <6>3, <6>5, Zenon
          <6>7. 0..255 \subseteq Nat
            OBVIOUS
          <6>8. t[n][1] \in Nat
            BY <6>2, <6>7, Zenon
          <6> QED
            BY <5>1, <6>6, <6>8, Zenon
        <5>2. CASE j - 1 /= 1
          <6>1. j - 1 \in 2..Len(t[n])
            BY <2>5, <4>1, <5>2
          <6>2. IsContinuation(t[n][j - 1])
            BY <2>5, <6>1 DEF Characters
          <6>3. PICK b : b = t[n][j - 1]
            OBVIOUS
          <6>4. b \in 128..191
            BY <6>2, <6>3 DEF IsContinuation
          <6>5. b \in Nat /\ ~(b < 128)
            BY <6>4
          <6> QED
            BY <6>3, <6>5, Zenon
        <5> QED
          BY <5>1, <5>2
      <4>4. Bytes(t)[i] = t[n][j]
        BY <2>4, ByteAt
      <4>5. Bytes(t)[i - 1] = t[n][j - 1]
        <5>1. Bytes(t)[Offset(t, n - 1) + (j - 1)] = t[n][j - 1]
          BY <4>1, ByteAt
        <5>2. Offset(t, n - 1) + (j - 1) = i - 1
          BY <2>4, <2>5
        <5> QED
          BY <5>1, <5>2
      <4>6. i /= begin + 1
        <5>1. begin <= Offset(t, n - 1)
          BY <2>5, <2>6, OffsetOrder
        <5> HIDE DEF begin
        <5> QED
          BY <1>1, <2>4, <2>5, <3>1, <5>1
      <4> QED
        BY <2>2, <4>2, <4>3, <4>4, <4>5, <4>6
    <3> QED
      BY <3>1
  <2>9. n \in (m + 1)..k
    BY <1>1, <2>5, <2>6, <2>7
  <2> QED
    BY <2>4, <2>8, <2>9
<1>3. ASSUME NEW n \in (m + 1)..k PROVE Offset(t, n - 1) + 1 \in A
  <2>1. n \in 1..Len(t) /\ n \in 0..Len(t) /\ n - 1 \in 0..Len(t) /\ m <= n - 1 /\ n <= k
    BY <1>1
  <2>2. /\ t[n] \in Characters /\ Len(t[n]) \in Nat \ {0} /\ 1 \in 1..Len(t[n])
    <3>1. t[n] \in Characters
      BY <2>1, TextBytes
    <3>2. Len(t[n]) \in Nat \ {0}
      BY <2>1, PrefixStep
    <3> QED
      BY <3>1, <3>2
  <2>3. /\ Bytes(t)[Offset(t, n - 1) + 1] = t[n][1]
        /\ Offset(t, n - 1) + 1 <= Offset(t, n)
    BY <2>1, <2>2, ByteAt
  <2>4. ~IsContinuation(t[n][1])
    BY <2>2 DEF Characters
  <2>5. begin <= Offset(t, n - 1) /\ Offset(t, n) <= Offset(t, k)
    BY <1>1, <2>1, OffsetOrder
  <2>6. Offset(t, n - 1) \in Nat /\ Offset(t, n) \in Nat
    BY <2>1, Offsets
  <2> HIDE DEF begin
  <2>7. Offset(t, n - 1) + 1 \in 1..Offset(t, k) /\ begin < Offset(t, n - 1) + 1
        /\ Offset(t, n - 1) + 1 <= limit
    BY <1>1, <2>3, <2>5, <2>6
  <2> QED
    BY <2>3, <2>4, <2>7 DEF StartsAt
<1>4. A = B
  <2> HIDE DEF A
  <2> QED
    BY <1>2, <1>3
<1>5. Cardinality(B) = k - m
  <2> DEFINE f == [j \in (m + 1)..k |-> Offset(t, j - 1) + 1]
  <2>1. f \in Bijection((m + 1)..k, B)
    <3>1. ASSUME NEW x \in (m + 1)..k, NEW y \in (m + 1)..k, f[x] = f[y] PROVE x = y
      <4>1. x - 1 \in 0..Len(t) /\ y - 1 \in 0..Len(t)
        BY <1>1
      <4>2. Offset(t, x - 1) \in Nat /\ Offset(t, y - 1) \in Nat
        BY <4>1, Offsets
      <4>3. Offset(t, x - 1) + 1 = Offset(t, y - 1) + 1
        BY <3>1
      <4>4. Offset(t, x - 1) = Offset(t, y - 1)
        BY <4>2, <4>3
      <4>5. x - 1 = y - 1
        BY <4>1, <4>4, OffsetOrder
      <4> QED
        BY <1>1, <4>5
    <3>2. \A x \in (m + 1)..k, y \in (m + 1)..k : f[x] = f[y] => x = y
      BY <3>1
    <3>3. f \in [(m + 1)..k -> B] /\ \A b \in B : \E x \in (m + 1)..k : f[x] = b
      OBVIOUS
    <3> HIDE DEF f, B
    <3> QED
      BY <3>2, <3>3 DEF Bijection, Injection, Surjection, IsInjective
  <2>2. ExistsBijection((m + 1)..k, B)
    BY <2>1 DEF ExistsBijection
  <2>3. IsFiniteSet((m + 1)..k) /\ Cardinality((m + 1)..k) = IF m + 1 > k THEN 0 ELSE k - (m + 1) + 1
    BY <1>1, FS_Interval
  <2> HIDE DEF B
  <2>4. Cardinality(B) = Cardinality((m + 1)..k)
    BY <2>2, <2>3, FS_Bijection
  <2> QED
    BY <1>1, <2>3, <2>4
<1> QED
  BY <1>4, <1>5

\* A client's position leads to the byte behind the characters before it.
LEMMA PositionFound ==
  ASSUME NEW t \in Texts, NEW k \in 0..Len(t)
  PROVE  getOffsetForPosition(PosAt(t, k), Bytes(t)) = Offset(t, k)
<1> DEFINE content == Bytes(t)
           C == Newlines(content)
           m == LineStart(t, k)
           pos == PosAt(t, k)
           begin == IF Line(pos) <= 0 THEN 0
                    ELSE IF Line(pos) > Cardinality(C) THEN Len(content)
                    ELSE NthNewline(content, Line(pos))
           above == {i \in C : i > begin} \cup {Len(content) + 1}
           limit == Min(above) - 1
           Past(n) == Cardinality({i \in 1..n : StartsAt(content, begin, limit, i)})
           fitting == {n \in begin..limit : Past(n) <= Maximum(Column(pos), 0)}
<1>1. getOffsetForPosition(pos, content) = Max(fitting)
  BY DEF getOffsetForPosition, StartsAt
<1>2. /\ Len(t) \in Nat /\ Len(content) \in Nat /\ k \in Nat /\ m \in 0..k /\ m \in 0..Len(t)
      /\ Line(pos) = Cardinality(NewlinesTo(t, k)) /\ Column(pos) = k - m
      /\ Line(pos) \in Nat /\ (Line(pos) = 0 <=> m = 0)
  <2>1. Len(t) \in Nat /\ Len(content) \in Nat
    BY TextBytes, LenProperties
  <2>2. /\ m \in 0..k
        /\ pos = <<Cardinality(NewlinesTo(t, k)), k - m>>
        /\ Cardinality(NewlinesTo(t, k)) \in Nat
        /\ (Cardinality(NewlinesTo(t, k)) = 0 <=> NewlinesTo(t, k) = {})
        /\ (NewlinesTo(t, k) = {} <=> m = 0)
    BY PlaceInLine
  <2> HIDE DEF m, pos, content
  <2>3. Line(pos) = Cardinality(NewlinesTo(t, k)) /\ Column(pos) = k - m
    BY <2>2 DEF Line, Column
  <2> QED
    BY <2>1, <2>2, <2>3
<1>3. begin = Offset(t, m)
  <2>1. CASE m = 0
    <3>1. begin = 0
      BY <1>2, <2>1
    <3> QED
      BY <2>1, <3>1, Offsets
  <2>2. CASE m /= 0
    <3>1. /\ NthNewline(content, Cardinality(NewlinesTo(t, k))) = Offset(t, m)
          /\ Cardinality(NewlinesTo(t, k)) <= Cardinality(C)
      BY <2>2, LineStartFound
    <3>2. ~(Line(pos) <= 0)
      BY <1>2, <2>2
    <3>3. ~(Line(pos) > Cardinality(C))
      <4>1. Cardinality(C) \in Nat
        <5>1. IsFiniteSet(1..Len(content)) /\ C \in SUBSET (1..Len(content))
          BY <1>2, FS_Interval DEF Newlines
        <5> QED
          BY <5>1, FS_Subset, FS_CardinalityType
      <4> QED
        BY <1>2, <3>1, <4>1
    <3> HIDE DEF C, m, pos, content
    <3> QED
      BY <1>2, <3>1, <3>2, <3>3
  <2> QED
    BY <2>1, <2>2
<1> HIDE DEF begin
<1>4. /\ Offset(t, k) \in Nat /\ begin \in Nat /\ begin <= Offset(t, k)
      /\ Offset(t, k) <= Len(content)
  <2>1. k \in 0..Len(t) /\ m <= k
    BY <1>2
  <2>2. Offset(t, k) \in 0..Len(content) /\ Offset(t, m) \in 0..Len(content)
    BY <1>2, <2>1, OffsetOrder
  <2>3. Offset(t, m) <= Offset(t, k)
    BY <1>2, <2>1, OffsetOrder
  <2> HIDE DEF content, m
  <2> QED
    BY <1>2, <1>3, <2>2, <2>3
<1>5. limit \in Offset(t, k)..Len(content)
  <2>1. above \in SUBSET Nat /\ Len(content) + 1 \in above
    BY <1>2 DEF Newlines
  <2>2. \A i \in above : i > Offset(t, k)
    <3>1. ASSUME NEW i \in C, i > begin PROVE i > Offset(t, k)
      <4>1. PICK n \in NewlinesTo(t, Len(t)) : i = Offset(t, n)
        BY NewlinesOfBytes
      <4>2. n \in 1..Len(t) /\ n \in 0..Len(t) /\ t[n] = <<Newline>>
        BY <1>2, <4>1 DEF NewlinesTo
      <4>3. ~(n <= m)
        <5>1. n <= m => Offset(t, n) <= Offset(t, m)
          BY <1>2, <4>2, OffsetOrder
        <5>2. Offset(t, n) \in Nat
          BY <4>2, Offsets
        <5> HIDE DEF m, C
        <5> QED
          BY <1>3, <1>4, <3>1, <4>1, <5>1, <5>2
      <4>4. ~(n <= k)
        <5>1. ASSUME n <= k PROVE FALSE
          <6>1. n \in NewlinesTo(t, k)
            BY <1>2, <4>2, <5>1 DEF NewlinesTo
          <6>2. n \in NewlinesTo(t, m)
            BY <6>1, PlaceInLine
          <6> HIDE DEF m
          <6> QED
            BY <1>2, <4>2, <4>3, <6>2 DEF NewlinesTo
        <5> QED
          BY <5>1
      <4>5. ~(Offset(t, n) <= Offset(t, k))
        BY <4>2, <4>4, OffsetOrder
      <4>6. Offset(t, n) \in Nat
        BY <4>2, Offsets
      <4> QED
        BY <1>4, <4>1, <4>5, <4>6
    <3> HIDE DEF C
    <3> QED
      BY <1>2, <1>4, <3>1
  <2> HIDE DEF above
  <2>3. Min(above) \in above /\ Min(above) <= Len(content) + 1
    BY <2>1, MinIn
  <2>4. Min(above) \in Nat /\ Min(above) > Offset(t, k)
    BY <2>1, <2>2, <2>3
  <2> HIDE DEF content
  <2> QED
    BY <1>2, <1>4, <2>3, <2>4
<1> HIDE DEF limit
<1>6. Past(Offset(t, k)) = k - m
  <2>1. m \in 0..Len(t) /\ k \in m..Len(t)
    BY <1>2
  <2> QED
    BY <1>3, <1>5, <2>1, CharactersCounted
<1>7. Maximum(Column(pos), 0) = k - m
  <2> HIDE DEF pos, m
  <2> QED
    BY <1>2 DEF Maximum
<1>8. limit \in Nat /\ Offset(t, k) <= limit /\ limit <= Len(content)
  BY <1>2, <1>4, <1>5
<1>9. Offset(t, k) \in fitting
  <2> HIDE DEF Past, pos, content, m
  <2> QED
    BY <1>2, <1>4, <1>6, <1>7, <1>8
<1>10. ASSUME NEW n \in fitting PROVE n <= Offset(t, k)
  <2>1. n \in Nat /\ begin <= n /\ n <= limit /\ Past(n) <= k - m
    <3> HIDE DEF Past, pos, content, m
    <3> QED
      BY <1>4, <1>7, <1>8
  <2>2. ASSUME ~(n <= Offset(t, k)) PROVE FALSE
    <3> DEFINE o == Offset(t, k)
               S == {i \in 1..o : StartsAt(content, begin, limit, i)}
               U == {i \in 1..n : StartsAt(content, begin, limit, i)}
    <3>1. o + 1 <= n /\ o < Len(content) /\ o \in Nat
      BY <1>2, <1>4, <1>8, <2>1, <2>2
    <3>2. k < Len(t)
      <4>1. k /= Len(t)
        BY <3>1, Offsets
      <4> QED
        BY <1>2, <4>1
    <3>3. /\ k + 1 \in 1..Len(t) /\ (k + 1) - 1 = k /\ t[k + 1] \in Characters
      BY <1>2, <3>2, TextBytes
    <3>4. content[o + 1] = t[k + 1][1]
      <4>1. Len(t[k + 1]) \in Nat \ {0}
        BY <3>3, PrefixStep
      <4>2. 1 \in 1..Len(t[k + 1])
        BY <4>1
      <4> QED
        BY <3>3, <4>2, ByteAt
    <3>5. ~IsContinuation(content[o + 1])
      BY <3>3, <3>4 DEF Characters
    <3>6. StartsAt(content, begin, limit, o + 1)
      <4> HIDE DEF content
      <4> QED
        BY <1>4, <1>8, <2>1, <3>1, <3>5 DEF StartsAt
    <3>7. S \cup {o + 1} \subseteq U
      <4>1. 1..o \subseteq 1..n /\ o + 1 \in 1..n
        BY <2>1, <3>1
      <4> HIDE DEF content, o
      <4> QED
        BY <3>6, <4>1
    <3>8. o + 1 \notin S /\ IsFiniteSet(S) /\ IsFiniteSet(U)
      <4>1. o + 1 \notin 1..o
        BY <3>1
      <4>2. IsFiniteSet(1..o) /\ IsFiniteSet(1..n)
        BY <2>1, <3>1, FS_Interval
      <4>3. S \in SUBSET (1..o) /\ U \in SUBSET (1..n)
        OBVIOUS
      <4> HIDE DEF S, U
      <4> QED
        BY <4>1, <4>2, <4>3, FS_Subset
    <3> HIDE DEF S, U
    <3>9. Cardinality(S \cup {o + 1}) = Cardinality(S) + 1 /\ IsFiniteSet(S \cup {o + 1})
      BY <3>8, FS_AddElement
    <3>10. Cardinality(S \cup {o + 1}) <= Cardinality(U)
      BY <3>7, <3>8, <3>9, FS_Subset
    <3>11. Cardinality(S) = k - m /\ Cardinality(U) <= k - m /\ Cardinality(U) \in Nat
      <4>1. Cardinality(S) = Past(o) /\ Cardinality(U) = Past(n)
        BY DEF S, U
      <4>2. Cardinality(U) \in Nat
        BY <3>8, FS_CardinalityType
      <4> HIDE DEF Past
      <4> QED
        BY <1>6, <2>1, <4>1, <4>2
    <3> HIDE DEF o, m
    <3> QED
      BY <1>2, <3>9, <3>10, <3>11
  <2> QED
    BY <2>2
<1>11. fitting \in SUBSET Int
  BY <1>4, <1>8
<1>12. Max(fitting) = Offset(t, k)
  <2> HIDE DEF fitting
  <2> QED
    BY <1>9, <1>10, <1>11, MaxIs
<1> QED
  BY <1>1, <1>12

----------------------------------------------------------------------------
(* Changes *)

\* What replaces a part of a text, as a text and in bytes.
LEMMA ReplacedBytes ==
  ASSUME NEW t \in Texts, NEW a \in 0..Len(t), NEW b \in a..Len(t), NEW insert \in Texts
  PROVE  /\ Replaced(t, a, b, insert) \in Texts
         /\ Len(Replaced(t, a, b, insert)) = a + Len(insert) + (Len(t) - b)
         /\ Bytes(Replaced(t, a, b, insert))
              = Bytes(Prefix(t, a)) \o Bytes(insert) \o Bytes(Suffix(t, b))
<1> DEFINE p == Prefix(t, a)
           q == Suffix(t, b)
<1>1. Len(t) \in Nat /\ a \in Nat /\ b \in Nat /\ b \in 0..Len(t) /\ a <= b /\ b <= Len(t)
  BY TextBytes
<1>2. p \in Texts /\ q \in Texts /\ Len(p) = a
  BY <1>1, Parts
<1>3. Len(q) = Len(t) - b
  <2>1. \A i \in (b + 1)..Len(t) : t[i] \in Characters
    BY <1>1, TextBytes
  <2>2. Len(SubSeq(t, b + 1, Len(t))) = IF b + 1 <= Len(t) THEN Len(t) - (b + 1) + 1 ELSE 0
    BY <1>1, <2>1, SubSeqProperties
  <2> QED
    BY <1>1, <2>2 DEF Suffix
<1> HIDE DEF p, q
<1>4. p \o insert \in Texts /\ Len(p \o insert) = a + Len(insert)
  BY <1>2, ConcatProperties DEF Texts
<1>5. (p \o insert) \o q \in Texts /\ Len((p \o insert) \o q) = a + Len(insert) + (Len(t) - b)
  <2> DEFINE u == p \o insert
  <2>1. /\ u \in Seq(Characters) /\ q \in Seq(Characters)
        /\ Len(u) = a + Len(insert) /\ Len(q) = Len(t) - b
    BY <1>2, <1>3, <1>4 DEF Texts
  <2> HIDE DEF u
  <2>2. u \o q \in Seq(Characters) /\ Len(u \o q) = Len(u) + Len(q)
    BY <2>1, ConcatProperties
  <2> QED
    BY <2>1, <2>2, Zenon DEF u, Texts
<1>6. Replaced(t, a, b, insert) = (p \o insert) \o q
  BY DEF Replaced, p, q, Prefix, Suffix
<1>7. /\ p \in Seq(Seq(Byte)) /\ q \in Seq(Seq(Byte)) /\ insert \in Seq(Seq(Byte))
      /\ p \o insert \in Seq(Seq(Byte))
  BY <1>2, <1>4, TextBytes
<1>8. Bytes((p \o insert) \o q) = Bytes(p \o insert) \o Bytes(q)
  BY <1>7, BytesConcat
<1>9. Bytes(p \o insert) = Bytes(p) \o Bytes(insert)
  BY <1>7, BytesConcat
<1>10. Bytes((p \o insert) \o q) = (Bytes(p) \o Bytes(insert)) \o Bytes(q)
  BY <1>8, <1>9, Zenon
<1> QED
  BY <1>5, <1>6, <1>10, Zenon DEF p, q

\* A change of the client means to the server's buffer what it means to the
\* client's document.
LEMMA ChangeApplied ==
  ASSUME NEW t \in Texts, NEW a \in 0..Len(t), NEW b \in a..Len(t), NEW insert \in Texts
  PROVE  applyChange(Bytes(t), ChangeOf(t, a, b, insert)) = Bytes(Replaced(t, a, b, insert))
<1> DEFINE d == ChangeOf(t, a, b, insert)
<1>1. a \in 0..Len(t) /\ b \in 0..Len(t)
  BY TextBytes
<1>2. /\ d.range = RangeOf(PosAt(t, a), PosAt(t, b)) /\ d.text = Bytes(insert)
      /\ d.range.start = PosAt(t, a) /\ d.range.end = PosAt(t, b)
  BY DEF ChangeOf, RangeOf
<1>3. d.range /= NoFile
  <2>1. ASSUME NEW k \in 0..Len(t) PROVE PosAt(t, k) \in Nat \X Int
    <3>1. /\ PosAt(t, k) = <<Cardinality(NewlinesTo(t, k)), k - LineStart(t, k)>>
          /\ Cardinality(NewlinesTo(t, k)) \in Nat /\ LineStart(t, k) \in 0..k
      BY PlaceInLine
    <3>2. k - LineStart(t, k) \in Int
      BY <3>1
    <3> QED
      BY <3>1, <3>2
  <2>2. RangeOf(PosAt(t, a), PosAt(t, b)) \in [start : Nat \X Int, end : Nat \X Int]
    BY <1>1, <2>1 DEF RangeOf
  <2> QED
    BY <1>2, <2>2, NoFileAssumption
<1> HIDE DEF d
<1>4. /\ getOffsetForPosition(d.range.start, Bytes(t)) = Offset(t, a)
      /\ getOffsetForPosition(d.range.end, Bytes(t)) = Offset(t, b)
  BY <1>1, <1>2, PositionFound
<1>5. applyChange(Bytes(t), d) =
        SubSeq(Bytes(t), 1, Offset(t, a)) \o Bytes(insert)
          \o SubSeq(Bytes(t), Offset(t, b) + 1, Len(Bytes(t)))
  BY <1>2, <1>3, <1>4, Zenon DEF applyChange
<1>6. /\ SubSeq(Bytes(t), 1, Offset(t, a)) = Bytes(Prefix(t, a))
      /\ SubSeq(Bytes(t), Offset(t, b) + 1, Len(Bytes(t))) = Bytes(Suffix(t, b))
  BY <1>1, SplitAtOffset
<1>7. Bytes(Replaced(t, a, b, insert)) = Bytes(Prefix(t, a)) \o Bytes(insert) \o Bytes(Suffix(t, b))
  BY ReplacedBytes
<1> QED
  BY <1>5, <1>6, <1>7, Zenon DEF d

\* Notifications of one change and of two.
LEMMA ChangedOnce ==
  ASSUME NEW content, NEW d
  PROVE  Changed(content, <<d>>) = applyChange(content, d)
<1> DEFINE r == applyChange(content, d)
           s == <<d>>
           Eq(F) == F = [n \in 0..1 |-> IF n = 0 THEN content ELSE applyChange(F[n - 1], s[n])]
           f == [n \in 0..1 |-> IF n = 0 THEN content ELSE r]
<1>1. Len(s) = 1 /\ s[1] = d
  OBVIOUS
<1>2. Changed(content, s) = (CHOOSE F : Eq(F))[1]
  <2> HIDE DEF s
  <2> QED
    BY <1>1 DEF Changed
<1> HIDE DEF s
<1>3. Eq(f)
  <2>1. f[0] = content /\ f[1] = r
    OBVIOUS
  <2>2. f = [n \in 0..1 |-> f[n]]
    OBVIOUS
  <2>3. \A n \in 0..1 : n = 0 \/ n = 1
    OBVIOUS
  <2> HIDE DEF f
  <2>4. ASSUME NEW n \in 0..1
        PROVE  f[n] = IF n = 0 THEN content ELSE applyChange(f[n - 1], s[n])
    <3>1. CASE n = 0
      BY <2>1, <3>1
    <3>2. CASE n = 1
      <4>1. n - 1 = 0 /\ n /= 0
        BY <3>2
      <4>2. applyChange(f[n - 1], s[n]) = r
        BY <1>1, <2>1, <3>2, <4>1, Zenon
      <4> QED
        BY <2>1, <3>2, <4>1, <4>2, Zenon
    <3> QED
      BY <2>3, <3>1, <3>2
  <2> QED
    BY <2>2, <2>4
<1>4. ASSUME NEW g, Eq(g) PROVE g[1] = r
  <2>1. \A n \in 0..1 : g[n] = IF n = 0 THEN content ELSE applyChange(g[n - 1], s[n])
    BY <1>4
  <2>2. 0 \in 0..1 /\ 1 \in 0..1 /\ 1 - 1 = 0 /\ 1 /= 0
    OBVIOUS
  <2>3. g[0] = content
    BY <2>1, <2>2, Zenon
  <2>4. g[1] = applyChange(g[0], s[1])
    BY <2>1, <2>2, Zenon
  <2> QED
    BY <1>1, <2>3, <2>4, Zenon
<1>5. Eq(CHOOSE F : Eq(F))
  <2> HIDE DEF Eq
  <2> QED
    BY <1>3
<1>6. (CHOOSE F : Eq(F))[1] = r
  <2> HIDE DEF Eq
  <2> QED
    BY <1>4, <1>5
<1> QED
  BY <1>2, <1>6 DEF s

LEMMA ChangedTwice ==
  ASSUME NEW content, NEW d, NEW e
  PROVE  Changed(content, <<d, e>>) = applyChange(applyChange(content, d), e)
<1> DEFINE q == applyChange(content, d)
           r == applyChange(q, e)
           s == <<d, e>>
           Eq(F) == F = [n \in 0..2 |-> IF n = 0 THEN content ELSE applyChange(F[n - 1], s[n])]
           f == [n \in 0..2 |-> IF n = 0 THEN content ELSE IF n = 1 THEN q ELSE r]
<1>1. Len(s) = 2 /\ s[1] = d /\ s[2] = e
  OBVIOUS
<1>2. Changed(content, s) = (CHOOSE F : Eq(F))[2]
  <2> HIDE DEF s
  <2> QED
    BY <1>1 DEF Changed
<1> HIDE DEF s
<1>3. Eq(f)
  <2>1. f[0] = content /\ f[1] = q /\ f[2] = r
    OBVIOUS
  <2>2. f = [n \in 0..2 |-> f[n]]
    OBVIOUS
  <2>3. \A n \in 0..2 : n = 0 \/ n = 1 \/ n = 2
    OBVIOUS
  <2> HIDE DEF f
  <2>4. ASSUME NEW n \in 0..2
        PROVE  f[n] = IF n = 0 THEN content ELSE applyChange(f[n - 1], s[n])
    <3>1. CASE n = 0
      BY <2>1, <3>1
    <3>2. CASE n = 1
      <4>1. n - 1 = 0 /\ n /= 0
        BY <3>2
      <4>2. applyChange(f[n - 1], s[n]) = q
        BY <1>1, <2>1, <3>2, <4>1, Zenon
      <4> QED
        BY <2>1, <3>2, <4>1, <4>2, Zenon
    <3>3. CASE n = 2
      <4>1. n - 1 = 1 /\ n /= 0
        BY <3>3
      <4>2. applyChange(f[n - 1], s[n]) = r
        BY <1>1, <2>1, <3>3, <4>1, Zenon
      <4> QED
        BY <2>1, <3>3, <4>1, <4>2, Zenon
    <3> QED
      BY <2>3, <3>1, <3>2, <3>3
  <2> QED
    BY <2>2, <2>4
<1>4. ASSUME NEW g, Eq(g) PROVE g[2] = r
  <2>1. \A n \in 0..2 : g[n] = IF n = 0 THEN content ELSE applyChange(g[n - 1], s[n])
    BY <1>4
  <2>2. /\ 0 \in 0..2 /\ 1 \in 0..2 /\ 2 \in 0..2
        /\ 1 - 1 = 0 /\ 1 /= 0 /\ 2 - 1 = 1 /\ 2 /= 0
    OBVIOUS
  <2>3. g[0] = content
    BY <2>1, <2>2, Zenon
  <2>4. g[1] = applyChange(g[0], s[1])
    BY <2>1, <2>2, Zenon
  <2>5. g[2] = applyChange(g[1], s[2])
    BY <2>1, <2>2, Zenon
  <2> QED
    BY <1>1, <2>3, <2>4, <2>5, Zenon
<1>5. Eq(CHOOSE F : Eq(F))
  <2> HIDE DEF Eq
  <2> QED
    BY <1>3
<1>6. (CHOOSE F : Eq(F))[2] = r
  <2> HIDE DEF Eq
  <2> QED
    BY <1>4, <1>5
<1> QED
  BY <1>2, <1>6 DEF s

----------------------------------------------------------------------------
(* The lines of a text *)

\* A set of numbers has an element of every rank.
LEMMA RankTaken ==
  ASSUME NEW N \in Nat, NEW S \in SUBSET (1..N), NEW k \in 1..Cardinality(S)
  PROVE  \E i \in S : Cardinality({j \in S : j <= i}) = k
<1> DEFINE To(n) == {j \in S : j <= n}
           E == {n \in 0..N : \A r \in 1..Cardinality(To(n)) : \E i \in S : Cardinality(To(i)) = r}
<1>0. \A j \in S : j \in Nat /\ 1 <= j /\ j <= N /\ j \in 1..N
  OBVIOUS
<1>1. \A n \in 0..N : IsFiniteSet(To(n)) /\ Cardinality(To(n)) \in Nat
  <2>1. IsFiniteSet(1..N)
    BY FS_Interval
  <2>2. \A n \in 0..N : To(n) \in SUBSET (1..N)
    <3>1. ASSUME NEW n, NEW j \in To(n) PROVE j \in 1..N
      BY <1>0
    <3> HIDE DEF To
    <3> QED
      BY <3>1
  <2> HIDE DEF To
  <2> QED
    BY <2>1, <2>2, FS_Subset, FS_CardinalityType
<1>2. 0 \in E
  <2>1. To(0) = {}
    <3>1. \A j \in S : ~(j <= 0)
      BY <1>0
    <3> QED
      BY <3>1
  <2>2. Cardinality(To(0)) = 0
    BY <2>1, FS_EmptySet
  <2> HIDE DEF To
  <2> QED
    BY <2>2
<1>3. ASSUME NEW n \in 1..N, n - 1 \in E PROVE n \in E
  <2>1. n - 1 \in 0..N /\ n \in 0..N
    OBVIOUS
  <2>2. CASE n \in S
    <3>0. ~(n <= n - 1) /\ n <= n /\ \A j \in S : j <= n <=> (j <= n - 1 \/ j = n)
      BY <1>0
    <3>1. To(n) = To(n - 1) \cup {n} /\ n \notin To(n - 1)
      BY <2>2, <3>0, Zenon
    <3> HIDE DEF To
    <3>2. Cardinality(To(n)) = Cardinality(To(n - 1)) + 1
      BY <1>1, <2>1, <3>1, FS_AddElement
    <3>3. ASSUME NEW r \in 1..Cardinality(To(n)) PROVE \E i \in S : Cardinality(To(i)) = r
      <4>1. CASE r = Cardinality(To(n))
        BY <2>2, <4>1
      <4>2. CASE r /= Cardinality(To(n))
        <5>1. r \in 1..Cardinality(To(n - 1))
          BY <1>1, <2>1, <3>2, <4>2
        <5> QED
          BY <1>3, <5>1
      <4> QED
        BY <4>1, <4>2
    <3> QED
      BY <2>1, <3>3
  <2>3. CASE n \notin S
    <3>0. \A j \in S : j <= n <=> j <= n - 1
      BY <1>0, <2>3
    <3>1. To(n) = To(n - 1)
      BY <3>0, Zenon
    <3> HIDE DEF To
    <3> QED
      BY <1>3, <2>1, <3>1
  <2> QED
    BY <2>2, <2>3
<1> HIDE DEF E
<1>4. \A n \in 0..N : n \in E
  BY <1>2, <1>3, UpToInduct
<1>5. N \in E /\ To(N) = S
  <2>1. To(N) = S
    BY <1>0
  <2>2. N \in 0..N
    OBVIOUS
  <2> QED
    BY <1>4, <2>1, <2>2
<1> HIDE DEF To
<1>6. \E i \in S : Cardinality(To(i)) = k
  BY <1>5 DEF E
<1> QED
  BY <1>6 DEF To

LEMMA NthNewlineIn ==
  ASSUME NEW content \in Seq(Byte), NEW n \in 1..Cardinality(Newlines(content))
  PROVE  NthNewline(content, n) \in 1..Len(content)
<1>1. Len(content) \in Nat /\ Newlines(content) \in SUBSET (1..Len(content))
  BY LenProperties DEF Newlines
<1>2. \E i \in Newlines(content) : Cardinality({j \in Newlines(content) : j <= i}) = n
  BY <1>1, RankTaken
<1>3. NthNewline(content, n) \in Newlines(content)
  BY <1>2 DEF NthNewline
<1> QED
  BY <1>1, <1>3

\* A part of a sequence of bytes.
LEMMA PartOfBytes ==
  ASSUME NEW s \in Seq(Byte), NEW m \in Nat \ {0}, NEW n \in Int, n <= Len(s)
  PROVE  SubSeq(s, m, n) \in Seq(Byte)
<1>1. Len(s) \in Nat
  BY LenProperties
<1>2. \A i \in m..n : i \in 1..Len(s)
  BY <1>1
<1>3. \A i \in m..n : s[i] \in Byte
  BY <1>2, ElementOfSeq
<1> QED
  BY <1>3, SubSeqProperties

LEMMA LinesType ==
  ASSUME NEW content \in Seq(Byte)
  PROVE  toLines(content) \in Seq(Seq(Byte))
<1> DEFINE count == Cardinality(Newlines(content))
           end == [k \in 0..count |-> IF k = 0 THEN 0 ELSE NthNewline(content, k)]
           upto(k) == IF end[k] > 1 /\ content[end[k] - 1] = CarriageReturn
                      THEN end[k] - 2 ELSE end[k] - 1
           first == end[count] + 1
           body == [k \in 1..count |-> SubSeq(content, end[k - 1] + 1, upto(k))]
           rest == IF first <= Len(content) THEN <<SubSeq(content, first, Len(content))>> ELSE <<>>
           S == Seq(Byte)
<1>1. Len(content) \in Nat /\ count \in Nat
  <2>1. Len(content) \in Nat /\ Newlines(content) \in SUBSET (1..Len(content))
    BY LenProperties DEF Newlines
  <2>2. IsFiniteSet(Newlines(content))
    <3>1. IsFiniteSet(1..Len(content))
      BY <2>1, FS_Interval
    <3> QED
      BY <2>1, <3>1, FS_Subset
  <2> QED
    BY <2>1, <2>2, FS_CardinalityType
<1>2. toLines(content) = body \o rest
  BY DEF toLines
<1>3. \A k \in 0..count : end[k] \in 0..Len(content)
  <2>1. \A k \in 1..count : NthNewline(content, k) \in 1..Len(content)
    BY NthNewlineIn
  <2> HIDE DEF count
  <2> QED
    BY <1>1, <2>1
<1> HIDE DEF end
<1>4. ASSUME NEW k \in 1..count PROVE SubSeq(content, end[k - 1] + 1, upto(k)) \in S
  <2>1. k - 1 \in 0..count /\ k \in 0..count
    BY <1>1
  <2>2. end[k - 1] \in 0..Len(content) /\ end[k] \in 0..Len(content)
    BY <1>3, <2>1
  <2>3. end[k - 1] + 1 \in Nat \ {0} /\ upto(k) \in Int /\ upto(k) <= Len(content)
    <3> HIDE DEF count
    <3>1. PICK x, y : x = end[k - 1] /\ y = end[k]
      OBVIOUS
    <3>2. x \in 0..Len(content) /\ y \in 0..Len(content)
      BY <2>2, <3>1, Zenon
    <3>3. x + 1 \in Nat \ {0} /\ y - 2 \in Int /\ y - 1 \in Int /\ y - 2 <= Len(content) /\ y - 1 <= Len(content)
      BY <1>1, <3>2
    <3>4. upto(k) = y - 2 \/ upto(k) = y - 1
      BY <3>1, Zenon
    <3> QED
      BY <3>1, <3>3, <3>4, Zenon
  <2> HIDE DEF upto, count
  <2> QED
    BY <2>3, PartOfBytes
<1>5. first \in Nat \ {0}
  <2> HIDE DEF count
  <2> QED
    BY <1>1, <1>3
<1>6. SubSeq(content, first, Len(content)) \in S
  <2> HIDE DEF first
  <2> QED
    BY <1>1, <1>5, PartOfBytes
<1>7. body \in Seq(S)
  <2> HIDE DEF count, S, upto
  <2>1. body \in [1..count -> S]
    BY <1>4
  <2> HIDE DEF body
  <2> QED
    BY <1>1, <2>1, SeqDef
<1>8. rest \in Seq(S)
  <2> DEFINE x == SubSeq(content, first, Len(content))
  <2>1. x \in S
    BY <1>6
  <2> HIDE DEF S, x, first
  <2>2. <<x>> \in Seq(S) /\ <<>> \in Seq(S)
    BY <2>1
  <2> QED
    BY <2>2 DEF x
<1> HIDE DEF body, rest, S
<1>9. body \o rest \in Seq(S)
  BY <1>7, <1>8, ConcatProperties
<1> QED
  BY <1>2, <1>9 DEF S

LEMMA PositionType ==
  ASSUME NEW content \in Seq(Byte), NEW offset \in 0..Len(content)
  PROVE  getPositionForOffset(content, offset) \in Nat \X Int
<1> DEFINE to == IF offset >= Len(content) THEN Len(content) - 1 ELSE offset
           S == {i \in 1..to : content[i] = Newline}
<1>1. Len(content) \in Nat /\ to \in Int
  BY LenProperties
<1> HIDE DEF to
<1>2. getPositionForOffset(content, offset) =
        IF S = {} THEN <<0, Maximum(to, 0)>> ELSE <<Cardinality(S), to - Max(S)>>
  BY DEF getPositionForOffset, to
<1>3. CASE S = {}
  <2>1. Maximum(to, 0) \in Int
    BY <1>1 DEF Maximum
  <2> QED
    BY <1>2, <1>3, <2>1
<1>4. CASE S /= {}
  <2>1. to \in Nat /\ S \in SUBSET (0..to)
    <3>1. PICK i \in S : TRUE
      BY <1>4
    <3> QED
      BY <1>1, <3>1
  <2>2. IsFiniteSet(0..to)
    BY <2>1, FS_Interval
  <2> HIDE DEF S
  <2>3. Max(S) \in 0..to
    BY <1>4, <2>1, MaxIn
  <2>4. Cardinality(S) \in Nat
    BY <2>1, <2>2, FS_Subset, FS_CardinalityType
  <2>5. to - Max(S) \in Int
    BY <2>1, <2>3
  <2> QED
    BY <1>2, <1>4, <2>4, <2>5
<1> QED
  BY <1>3, <1>4

----------------------------------------------------------------------------
(* The inductive invariant *)

\* The buffer of a working file is a text, in bytes and in lines.
Holds(wf, t) ==
  wf = [version |-> wf.version, buffer_content |-> Bytes(t), buffer_lines |-> toLines(Bytes(t)),
        index_lines |-> wf.index_lines]

TextsInv == doc \in [Paths -> Texts]

FilesInv ==
  /\ DOMAIN files \subseteq Paths
  /\ \A path \in DOMAIN files : Holds(files[path], doc[path])

Requests ==
  [kind : Kinds, path : Paths, position : Nat \X Int, begin : Nat \X Int,
   filter : Seq(Byte), line : Seq(Byte), raced : BOOLEAN]

CacheInv ==
  /\ DOMAIN cache = Kinds
  /\ \A kind \in Kinds : cache[kind].line \in Seq(Byte)

\* What waits for the completion thread, or for the second lock of the cache.
RequestInv ==
  /\ comp_tasks \in Seq(Requests)
  /\ request /= NoFile => request \in Requests

Inv == TextsInv /\ FilesInv /\ CacheInv /\ RequestInv

LEMMA HoldsNew ==
  ASSUME NEW t
  PROVE  Holds(NewWorkingFile(Bytes(t)), t)
BY DEF Holds, NewWorkingFile

LEMMA HoldsIndexed ==
  ASSUME NEW wf, NEW t, Holds(wf, t), NEW content
  PROVE  Holds(setIndexContent(wf, content), t)
<1>1. PICK v, x : wf = [version |-> v, buffer_content |-> Bytes(t),
                        buffer_lines |-> toLines(Bytes(t)), index_lines |-> x]
  BY Zenon DEF Holds
<1>2. setIndexContent(wf, content)
        = [version |-> v, buffer_content |-> Bytes(t), buffer_lines |-> toLines(Bytes(t)),
           index_lines |-> toLines(content)]
  BY <1>1 DEF setIndexContent
<1> DEFINE r == setIndexContent(wf, content)
<1>3. r.version = v /\ r.index_lines = toLines(content)
  BY <1>2
<1> QED
  BY <1>2, <1>3, Zenon DEF Holds

LEMMA HoldsUpdated ==
  ASSUME NEW wf, NEW t, Holds(wf, t), NEW u, NEW version
  PROVE  Holds([onBufferContentUpdated(wf, Bytes(u)) EXCEPT !.version = version], u)
<1>1. PICK v, x : wf = [version |-> v, buffer_content |-> Bytes(t),
                        buffer_lines |-> toLines(Bytes(t)), index_lines |-> x]
  BY Zenon DEF Holds
<1> DEFINE r == [onBufferContentUpdated(wf, Bytes(u)) EXCEPT !.version = version]
<1>2. r = [version |-> version, buffer_content |-> Bytes(u), buffer_lines |-> toLines(Bytes(u)),
           index_lines |-> x]
  <2>1. PICK b, l, c, m : /\ b = Bytes(t) /\ l = toLines(Bytes(t))
                          /\ c = Bytes(u) /\ m = toLines(Bytes(u))
    OBVIOUS
  <2>2. wf = [version |-> v, buffer_content |-> b, buffer_lines |-> l, index_lines |-> x]
    BY <1>1, <2>1, Zenon
  <2>3. onBufferContentUpdated(wf, Bytes(u)) = [wf EXCEPT !.buffer_content = c, !.buffer_lines = m]
    BY <2>1, Zenon DEF onBufferContentUpdated
  <2>4. [wf EXCEPT !.buffer_content = c, !.buffer_lines = m]
          = [version |-> v, buffer_content |-> c, buffer_lines |-> m, index_lines |-> x]
    <3> DEFINE w == [version |-> v, buffer_content |-> b, buffer_lines |-> l, index_lines |-> x]
    <3>1. [w EXCEPT !.buffer_content = c, !.buffer_lines = m]
            = [version |-> v, buffer_content |-> c, buffer_lines |-> m, index_lines |-> x]
      <4> DEFINE k == [version |-> v, buffer_content |-> c, buffer_lines |-> l, index_lines |-> x]
      <4>1. [w EXCEPT !.buffer_content = c] = k
        OBVIOUS
      <4>2. [k EXCEPT !.buffer_lines = m]
              = [version |-> v, buffer_content |-> c, buffer_lines |-> m, index_lines |-> x]
        OBVIOUS
      <4>3. [w EXCEPT !.buffer_content = c, !.buffer_lines = m]
              = [[w EXCEPT !.buffer_content = c] EXCEPT !.buffer_lines = m]
        OBVIOUS
      <4> HIDE DEF k, w
      <4> QED
        BY <4>1, <4>2, <4>3, Zenon
    <3>2. wf = w
      BY <2>2
    <3> HIDE DEF w
    <3> QED
      BY <3>1, <3>2, Zenon
  <2> DEFINE q == [version |-> v, buffer_content |-> c, buffer_lines |-> m, index_lines |-> x]
  <2>5. [q EXCEPT !.version = version]
          = [version |-> version, buffer_content |-> c, buffer_lines |-> m, index_lines |-> x]
    OBVIOUS
  <2>6. onBufferContentUpdated(wf, Bytes(u)) = q
    BY <2>3, <2>4
  <2> HIDE DEF q
  <2>7. r = [q EXCEPT !.version = version]
    BY <2>6, Zenon
  <2> QED
    BY <2>1, <2>5, <2>7, Zenon
<1>3. r.version = version /\ r.index_lines = x
  BY <1>2
<1> QED
  BY <1>2, <1>3, Zenon DEF Holds

\* A notification brings the buffer to the text that it means.
LEMMA FilesChanged ==
  ASSUME FilesInv, TextsInv, NEW path \in DOMAIN files, NEW u \in Texts,
         NEW version, NEW contentChanges,
         Changed(Bytes(doc[path]), contentChanges) = Bytes(u),
         doc' = [doc EXCEPT ![path] = u],
         files' = onChange(files, path, version, contentChanges)
  PROVE  FilesInv' /\ TextsInv'
<1>1. path \in Paths /\ doc \in [Paths -> Texts] /\ Holds(files[path], doc[path])
  BY DEF FilesInv, TextsInv
<1>2. TextsInv'
  BY <1>1 DEF TextsInv
<1>3. doc'[path] = u /\ \A p \in Paths : p /= path => doc'[p] = doc[p]
  BY <1>1
<1>4. files[path].buffer_content = Bytes(doc[path])
  <2>1. files[path] = [version |-> files[path].version, buffer_content |-> Bytes(doc[path]),
                       buffer_lines |-> toLines(Bytes(doc[path])),
                       index_lines |-> files[path].index_lines]
    BY <1>1, Zenon DEF Holds
  <2>2. PICK v, x, b, l : files[path] = [version |-> v, buffer_content |-> b,
                                        buffer_lines |-> l, index_lines |-> x]
                          /\ b = Bytes(doc[path])
    BY <2>1, Zenon
  <2> QED
    BY <2>2
<1>5. PICK v : v = IF version = NoFile THEN files[path].version ELSE version
  OBVIOUS
<1>6. files' = [files EXCEPT ![path] = [onBufferContentUpdated(files[path], Bytes(u)) EXCEPT !.version = v]]
  <2>1. onChange(files, path, version, contentChanges) =
          [files EXCEPT ![path] =
            [onBufferContentUpdated(files[path], Changed(files[path].buffer_content, contentChanges))
               EXCEPT !.version =
                 IF version = NoFile THEN files[path].version ELSE version]]
    <3>1. path \in DOMAIN files
      OBVIOUS
    <3> QED
      BY <3>1, Zenon DEF onChange
  <2>2. Changed(files[path].buffer_content, contentChanges) = Bytes(u)
    BY <1>4, Zenon
  <2> QED
    BY <1>5, <2>1, <2>2, Zenon
<1>7. Holds([onBufferContentUpdated(files[path], Bytes(u)) EXCEPT !.version = v], u)
  BY <1>1, HoldsUpdated
<1> DEFINE wf == [onBufferContentUpdated(files[path], Bytes(u)) EXCEPT !.version = v]
<1>8. Holds(wf, u) /\ files' = [files EXCEPT ![path] = wf]
  BY <1>6, <1>7
<1> HIDE DEF wf
<1>9. DOMAIN files' = DOMAIN files /\ files'[path] = wf
      /\ \A p \in DOMAIN files : p /= path => files'[p] = files[p]
  BY <1>8
<1>10. ASSUME NEW p \in DOMAIN files' PROVE Holds(files'[p], doc'[p])
  <2>1. CASE p = path
    BY <1>3, <1>8, <1>9, <2>1
  <2>2. CASE p /= path
    <3>1. p \in DOMAIN files /\ p \in Paths
      BY <1>9 DEF FilesInv
    <3>2. files'[p] = files[p] /\ doc'[p] = doc[p]
      BY <1>3, <1>9, <2>2, <3>1
    <3> QED
      BY <3>1, <3>2 DEF FilesInv
  <2> QED
    BY <2>1, <2>2
<1>11. FilesInv'
  BY <1>9, <1>10 DEF FilesInv
<1> QED
  BY <1>2, <1>11

LEMMA InitInv == Init => Inv
<1> SUFFICES ASSUME Init PROVE Inv
  OBVIOUS
<1>1. TextsInv
  <2>1. \A t \in Documents : t \in Texts
    BY TextsAssumption DEF Texts
  <2> QED
    BY <2>1 DEF Init, TextsInv
<1>2. FilesInv
  BY DEF Init, FilesInv
<1>3. CacheInv
  <2>1. \A kind \in Kinds : cache[kind].line = <<>>
    BY DEF Init
  <2>2. <<>> \in Seq(Byte)
    OBVIOUS
  <2>3. DOMAIN cache = Kinds
    BY DEF Init
  <2> QED
    BY <2>1, <2>2, <2>3, Zenon DEF CacheInv
<1>4. RequestInv
  <2>1. <<>> \in Seq(Requests)
    OBVIOUS
  <2> QED
    BY <2>1 DEF Init, RequestInv
<1> QED
  BY <1>1, <1>2, <1>3, <1>4 DEF Inv

----------------------------------------------------------------------------
(* Documents and buffers *)

LEMMA didOpenKeeps ==
  ASSUME TextsInv, FilesInv, NEW path \in Paths, didOpen(path)
  PROVE  TextsInv' /\ FilesInv'
<1>1. doc' = doc /\ path \notin DOMAIN files
  BY DEF didOpen, IsOpen
<1> DEFINE wf == NewWorkingFile(Bytes(doc[path]))
           opened == [p \in DOMAIN files \cup {path} |-> IF p = path THEN wf ELSE files[p]]
<1>2. onOpen(files, path, 1, Bytes(doc[path])) = opened
  BY <1>1 DEF onOpen
<1>3. \/ files' = opened
      \/ files' = [opened EXCEPT ![path] = setIndexContent(opened[path], indexed[path])]
  BY <1>2 DEF didOpen
<1>4. Holds(wf, doc[path])
  BY HoldsNew
<1>5. Holds(setIndexContent(wf, indexed[path]), doc[path])
  BY <1>4, HoldsIndexed
<1> HIDE DEF wf
<1>6. PICK x : /\ Holds(x, doc[path])
               /\ files' = [p \in DOMAIN files \cup {path} |-> IF p = path THEN x ELSE files[p]]
  <2>1. CASE files' = opened
    BY <1>4, <2>1
  <2>2. CASE files' = [opened EXCEPT ![path] = setIndexContent(opened[path], indexed[path])]
    <3>1. opened[path] = wf
      OBVIOUS
    <3> DEFINE y == setIndexContent(wf, indexed[path])
    <3>2. files' = [opened EXCEPT ![path] = y]
      BY <2>2, <3>1
    <3>3. Holds(y, doc[path])
      BY <1>5
    <3> HIDE DEF y
    <3>4. files' = [p \in DOMAIN files \cup {path} |-> IF p = path THEN y ELSE files[p]]
      BY <3>2
    <3> QED
      BY <3>3, <3>4
  <2> QED
    BY <1>3, <2>1, <2>2
<1>7. /\ DOMAIN files' = DOMAIN files \cup {path} /\ files'[path] = x
      /\ \A p \in DOMAIN files : files'[p] = files[p]
  BY <1>1, <1>6
<1>8. FilesInv'
  BY <1>1, <1>6, <1>7 DEF FilesInv
<1> QED
  BY <1>1, <1>8 DEF TextsInv

LEMMA didChangeKeeps ==
  ASSUME TextsInv, FilesInv, NEW path \in Paths, didChange(path)
  PROVE  TextsInv' /\ FilesInv'
<1>1. path \in DOMAIN files
  BY DEF didChange, IsOpen
<1>2. PICK a \in 0..Len(doc[path]), insert \in Inserts : \E b \in a..Len(doc[path]) :
        /\ doc' = [doc EXCEPT ![path] = Replaced(doc[path], a, b, insert)]
        /\ files' = onChange(files, path, NoFile, <<ChangeOf(doc[path], a, b, insert)>>)
  BY DEF didChange
<1>3. PICK b \in a..Len(doc[path]) :
        /\ doc' = [doc EXCEPT ![path] = Replaced(doc[path], a, b, insert)]
        /\ files' = onChange(files, path, NoFile, <<ChangeOf(doc[path], a, b, insert)>>)
  BY <1>2
<1>4. insert \in Texts /\ doc[path] \in Texts
  BY TextsAssumption DEF TextsInv, Texts
<1>5. PICK u : u = Replaced(doc[path], a, b, insert)
  OBVIOUS
<1>6. PICK c : c = <<ChangeOf(doc[path], a, b, insert)>>
  OBVIOUS
<1>7. u \in Texts
  BY <1>4, <1>5, ReplacedBytes
<1>8. Changed(Bytes(doc[path]), c) = Bytes(u)
  <2>1. applyChange(Bytes(doc[path]), ChangeOf(doc[path], a, b, insert)) = Bytes(u)
    BY <1>4, <1>5, ChangeApplied
  <2> QED
    BY <1>6, <2>1, ChangedOnce, Zenon
<1>9. doc' = [doc EXCEPT ![path] = u] /\ files' = onChange(files, path, NoFile, c)
  BY <1>3, <1>5, <1>6
<1> QED
  BY <1>1, <1>7, <1>8, <1>9, FilesChanged

LEMMA didChangeTwiceKeeps ==
  ASSUME TextsInv, FilesInv, NEW path \in Paths, didChangeTwice(path)
  PROVE  TextsInv' /\ FilesInv'
<1>1. path \in DOMAIN files
  BY DEF didChangeTwice, IsOpen
<1> DEFINE t == doc[path]
           Once(insert) == Replaced(t, 0, 0, insert)
<1>2. PICK insert \in Inserts, other \in Inserts : \E a \in 0..Len(t) :
        /\ doc' = [doc EXCEPT ![path] = Replaced(Once(insert), a, Len(Once(insert)), other)]
        /\ files' = onChange(files, path, events,
             <<ChangeOf(t, 0, 0, insert), ChangeOf(Once(insert), a, Len(Once(insert)), other)>>)
  BY DEF didChangeTwice
<1>3. PICK a \in 0..Len(t) :
        /\ doc' = [doc EXCEPT ![path] = Replaced(Once(insert), a, Len(Once(insert)), other)]
        /\ files' = onChange(files, path, events,
             <<ChangeOf(t, 0, 0, insert), ChangeOf(Once(insert), a, Len(Once(insert)), other)>>)
  BY <1>2
<1>4. insert \in Texts /\ other \in Texts /\ t \in Texts
  BY TextsAssumption DEF TextsInv, Texts
<1> HIDE DEF t
<1>5. PICK once : once = Once(insert)
  OBVIOUS
<1>6. once \in Texts /\ Bytes(once) = applyChange(Bytes(t), ChangeOf(t, 0, 0, insert))
      /\ Len(once) = Len(insert) + Len(t) /\ Len(insert) \in Nat /\ Len(t) \in Nat /\ Len(once) \in Nat
  <2>1. Len(t) \in Nat /\ Len(insert) \in Nat /\ 0 \in 0..Len(t) /\ 0 \in 0..Len(t)
    BY <1>4, TextBytes
  <2>2. /\ Replaced(t, 0, 0, insert) \in Texts
        /\ Len(Replaced(t, 0, 0, insert)) = 0 + Len(insert) + (Len(t) - 0)
        /\ applyChange(Bytes(t), ChangeOf(t, 0, 0, insert)) = Bytes(Replaced(t, 0, 0, insert))
    BY <1>4, <2>1, ReplacedBytes, ChangeApplied
  <2>3. Len(Replaced(t, 0, 0, insert)) = Len(insert) + Len(t)
    BY <2>1, <2>2
  <2>4. Len(Replaced(t, 0, 0, insert)) \in Nat
    BY <2>1, <2>3
  <2> QED
    BY <1>5, <2>1, <2>2, <2>3, <2>4, Zenon
<1>7. PICK u, d, e : /\ u = Replaced(once, a, Len(once), other)
                     /\ d = ChangeOf(t, 0, 0, insert)
                     /\ e = ChangeOf(once, a, Len(once), other)
  OBVIOUS
<1>8. a \in 0..Len(once) /\ Len(once) \in a..Len(once)
  BY <1>6
<1>9. u \in Texts /\ applyChange(Bytes(once), e) = Bytes(u)
  BY <1>4, <1>6, <1>7, <1>8, ReplacedBytes, ChangeApplied
<1>10. PICK c : c = <<d, e>>
  OBVIOUS
<1>11. Changed(Bytes(t), c) = Bytes(u)
  <2>1. Changed(Bytes(t), <<d, e>>) = applyChange(applyChange(Bytes(t), d), e)
    BY ChangedTwice
  <2>2. applyChange(Bytes(t), d) = Bytes(once)
    BY <1>6, <1>7, Zenon
  <2> QED
    BY <1>9, <1>10, <2>1, <2>2, Zenon
<1>12. doc' = [doc EXCEPT ![path] = u] /\ files' = onChange(files, path, events, c)
  BY <1>3, <1>5, <1>7, <1>10, Zenon
<1> QED
  BY <1>1, <1>9, <1>11, <1>12, FilesChanged DEF t

LEMMA didCloseKeeps ==
  ASSUME TextsInv, FilesInv, NEW path \in Paths, didClose(path)
  PROVE  TextsInv' /\ FilesInv'
<1>1. doc' = doc /\ files' = [p \in DOMAIN files \ {path} |-> files[p]]
  BY DEF didClose, onClose, Restrict
<1> QED
  BY <1>1 DEF TextsInv, FilesInv

LEMMA IndexedKeeps ==
  ASSUME TextsInv, FilesInv, NEW path \in Paths, Indexed(path)
  PROVE  TextsInv' /\ FilesInv'
<1>1. doc' = doc
  BY DEF Indexed
<1>2. CASE path \notin DOMAIN files
  BY <1>1, <1>2 DEF Indexed, IsOpen, TextsInv, FilesInv
<1>3. CASE path \in DOMAIN files
  <2>1. files' = [files EXCEPT ![path] = setIndexContent(files[path], Bytes(doc[path]))]
    BY <1>3 DEF Indexed, IsOpen
  <2> DEFINE x == setIndexContent(files[path], Bytes(doc[path]))
  <2>2. Holds(x, doc[path])
    BY <1>3, HoldsIndexed DEF FilesInv
  <2> HIDE DEF x
  <2>3. /\ DOMAIN files' = DOMAIN files /\ files'[path] = x
        /\ \A p \in DOMAIN files : p /= path => files'[p] = files[p]
    BY <1>3, <2>1 DEF x
  <2> QED
    BY <1>1, <2>2, <2>3 DEF TextsInv, FilesInv
<1> QED
  BY <1>2, <1>3

----------------------------------------------------------------------------
(* Requests and the cache *)

\* What a client's cursor asks for is a request.
LEMMA RequestType ==
  ASSUME TextsInv, FilesInv, NEW kind \in Kinds, NEW path \in DOMAIN files,
         NEW k \in 0..Len(doc[path])
  PROVE  RequestAt(kind, path, PosAt(doc[path], k)) \in Requests
<1> DEFINE t == doc[path]
           wf == files[path]
           pos == PosAt(t, k)
           content == Bytes(t)
           start == getOffsetForPosition(pos, content)
           stops == {i \in 1..start : ~isAsciiIdentifierContinue(content[i])}
           i0 == IF stops = {} THEN 0 ELSE Max(stops)
<1>1. path \in Paths /\ t \in Texts /\ Holds(wf, t)
  BY DEF TextsInv, FilesInv
<1>2. wf.buffer_content = content /\ wf.buffer_lines = toLines(content)
  <2>1. PICK v, x, b, l : wf = [version |-> v, buffer_content |-> b, buffer_lines |-> l,
                                index_lines |-> x] /\ b = content /\ l = toLines(content)
    BY <1>1, Zenon DEF Holds
  <2> QED
    BY <2>1
<1> HIDE DEF t, wf
<1>3. content \in Seq(Byte) /\ Len(content) \in Nat /\ start \in 0..Len(content)
  <2>1. content \in Seq(Byte) /\ Len(content) \in Nat /\ k \in 0..Len(t)
    BY <1>1, TextBytes, LenProperties DEF t
  <2> HIDE DEF content
  <2>2. start = Offset(t, k)
    BY <1>1, <2>1, PositionFound DEF content
  <2>3. Offset(t, k) \in 0..Len(content)
    BY <1>1, <2>1, OffsetOrder DEF content
  <2> QED
    BY <2>1, <2>2, <2>3
<1> HIDE DEF start
<1>4. i0 \in 0..start
  <2>1. CASE stops = {}
    BY <1>3, <2>1
  <2>2. CASE stops /= {}
    <3>1. start \in Nat /\ stops \in SUBSET (0..start)
      BY <1>3
    <3> HIDE DEF stops, content
    <3>2. Max(stops) \in stops
      BY <2>2, <3>1, MaxIn
    <3> QED
      BY <2>2, <3>1, <3>2
  <2> QED
    BY <2>1, <2>2
<1>5. getCompletionPosition(content, pos)
        = [pos |-> getPositionForOffset(content, i0), filter |-> SubSeq(content, i0 + 1, start)]
  BY Zenon DEF getCompletionPosition, start
<1> HIDE DEF i0
<1>6. i0 \in 0..Len(content) /\ i0 + 1 \in Nat \ {0} /\ start \in Int /\ start <= Len(content)
  BY <1>3, <1>4
<1>7. getPositionForOffset(content, i0) \in Nat \X Int
  BY <1>3, <1>6, PositionType
<1>8. SubSeq(content, i0 + 1, start) \in Seq(Byte)
  BY <1>3, <1>6, PartOfBytes
<1>9. pos \in Nat \X Int
  <2>1. k \in 0..Len(t)
    BY DEF t
  <2>2. /\ pos = <<Cardinality(NewlinesTo(t, k)), k - LineStart(t, k)>>
        /\ Cardinality(NewlinesTo(t, k)) \in Nat /\ LineStart(t, k) \in 0..k
    BY <1>1, <2>1, PlaceInLine
  <2>3. k - LineStart(t, k) \in Int
    BY <2>1, <2>2
  <2> HIDE DEF pos
  <2> QED
    BY <2>2, <2>3
<1>10. LineAt(wf, pos) \in Seq(Byte)
  <2>1. wf.buffer_lines \in Seq(Seq(Byte))
    BY <1>2, <1>3, LinesType
  <2>2. pos[1] \in Nat
    BY <1>9
  <2> DEFINE lines == wf.buffer_lines
             S == Seq(Byte)
  <2> HIDE DEF pos, lines, S
  <2>3. LineAt(wf, pos) = IF pos[1] < Len(lines) THEN lines[pos[1] + 1] ELSE <<>>
    BY DEF LineAt, Line, lines
  <2>4. <<>> \in S
    BY DEF S
  <2>5. lines \in Seq(S)
    BY <2>1 DEF S, lines
  <2>6. pos[1] < Len(lines) => lines[pos[1] + 1] \in S
    <3>1. Len(lines) \in Nat
      BY <2>5, LenProperties
    <3>2. pos[1] < Len(lines) => pos[1] + 1 \in 1..Len(lines)
      BY <2>2, <3>1
    <3> QED
      BY <2>5, <3>2, ElementOfSeq
  <2>7. LineAt(wf, pos) \in S
    BY <2>3, <2>4, <2>6, Zenon
  <2> QED
    BY <2>7 DEF S
<1> DEFINE b == getPositionForOffset(content, i0)
           f == SubSeq(content, i0 + 1, start)
           l == LineAt(wf, pos)
<1>11. RequestAt(kind, path, pos) =
         [kind |-> kind, path |-> path, position |-> pos, begin |-> b, filter |-> f,
          line |-> l, raced |-> FALSE]
  <2>1. getCompletionPosition(wf.buffer_content, pos).pos = b
        /\ getCompletionPosition(wf.buffer_content, pos).filter = f
    <3>1. getCompletionPosition(wf.buffer_content, pos) = [pos |-> b, filter |-> f]
      BY <1>2, <1>5
    <3> HIDE DEF b, f, pos
    <3> QED
      BY <3>1
  <2> HIDE DEF b, f, pos
  <2> QED
    BY <2>1, Zenon DEF RequestAt, l, wf
<1>12. b \in Nat \X Int /\ f \in Seq(Byte) /\ l \in Seq(Byte) /\ pos \in Nat \X Int
  BY <1>7, <1>8, <1>9, <1>10
<1> HIDE DEF b, f, l, pos
<1>13. RequestAt(kind, path, pos) \in Requests
  <2>1. FALSE \in BOOLEAN
    OBVIOUS
  <2> QED
    BY <1>1, <1>11, <1>12, <2>1 DEF Requests
<1> QED
  BY <1>13 DEF pos, t

\* A request that is between its two locks or waits in the queue is one.
LEMMA RequestKeeps ==
  ASSUME Inv, NEW path \in Paths, NEW kind \in Kinds, Request(kind, path)
  PROVE  CacheInv' /\ RequestInv'
<1>1. path \in DOMAIN files /\ cache' = cache /\ request = NoFile
  BY DEF Request, Event, Counted, IsOpen
<1>2. PICK k \in 0..Len(doc[path]), typed \in BOOLEAN :
        LET pos == PosAt(doc[path], k)
            r == RequestAt(kind, path, pos)
            refused == /\ kind = "completion" /\ typed /\ k > 0
                       /\ ~TriggerFits(r.line, Column(pos), doc[path][k][1])
        IN IF refused
           THEN /\ reply' = Reply(r, <<>>, r.line, <<>>)
                /\ UNCHANGED <<request, comp_tasks>>
           ELSE IF isCacheValid(cache[kind], r)
           THEN request' = r /\ UNCHANGED <<comp_tasks, reply>>
           ELSE comp_tasks' = Append(comp_tasks, r) /\ UNCHANGED <<request, reply>>
  BY DEF Request
<1>3. PICK r : r = RequestAt(kind, path, PosAt(doc[path], k))
  OBVIOUS
<1>4. r \in Requests
  BY <1>1, <1>3, RequestType DEF Inv
<1>5. \/ UNCHANGED <<request, comp_tasks>>
      \/ request' = r /\ comp_tasks' = comp_tasks
      \/ comp_tasks' = Append(comp_tasks, r) /\ request' = request
  BY <1>2, <1>3
<1>6. comp_tasks \in Seq(Requests)
  BY DEF Inv, RequestInv
<1>7. Append(comp_tasks, r) \in Seq(Requests)
  BY <1>4, <1>6, AppendProperties
<1>8. CacheInv'
  BY <1>1 DEF Inv, CacheInv
<1>9. RequestInv'
  BY <1>1, <1>4, <1>5, <1>6, <1>7 DEF RequestInv
<1> QED
  BY <1>8, <1>9

LEMMA ReadCacheKeeps == Inv /\ ReadCache => CacheInv' /\ RequestInv'
BY DEF Inv, ReadCache, CacheInv, RequestInv

LEMMA CompDoneKeeps ==
  ASSUME Inv, CompDone
  PROVE  CacheInv' /\ RequestInv'
<1>1. /\ comp_tasks \in Seq(Requests) /\ comp_tasks /= <<>> /\ comp_tasks' = Tail(comp_tasks)
      /\ request' = IF request = NoFile THEN NoFile ELSE [request EXCEPT !.raced = TRUE]
  BY DEF CompDone, Inv, RequestInv
<1>2. Head(comp_tasks) \in Requests /\ comp_tasks' \in Seq(Requests)
  BY <1>1, HeadTailProperties
<1>3. PICK r, x :
        /\ r = Head(comp_tasks)
        /\ x.line = r.line
        /\ cache' = cache \/ cache' = [cache EXCEPT ![r.kind] = x]
  <2>1. PICK r, seen, result :
          /\ r = Head(comp_tasks)
          /\ \/ cache' = cache
             \/ cache' = [cache EXCEPT ![r.kind] =
                            [path |-> r.path, line |-> r.line, position |-> r.begin,
                             result |-> result, seen |-> seen]]
    BY Zenon DEF CompDone
  <2>2. PICK x : x = [path |-> r.path, line |-> r.line, position |-> r.begin,
                      result |-> result, seen |-> seen]
    OBVIOUS
  <2>3. x.line = r.line
    BY <2>2
  <2> QED
    BY <2>1, <2>2, <2>3, Zenon
<1>4. r.kind \in Kinds /\ r.line \in Seq(Byte)
  <2>1. r \in Requests
    BY <1>2, <1>3
  <2> QED
    BY <2>1 DEF Requests
<1>5. DOMAIN cache = Kinds /\ \A kind \in Kinds : cache[kind].line \in Seq(Byte)
  BY DEF Inv, CacheInv
<1>6. CacheInv'
  <2>1. CASE cache' = cache
    BY <1>5, <2>1 DEF CacheInv
  <2>2. CASE cache' = [cache EXCEPT ![r.kind] = x]
    <3>1. x.line \in Seq(Byte)
      BY <1>3, <1>4
    <3>2. /\ DOMAIN cache' = Kinds
          /\ \A kind \in Kinds : cache'[kind] = IF kind = r.kind THEN x ELSE cache[kind]
      BY <1>4, <1>5, <2>2
    <3>3. \A kind \in Kinds : cache'[kind].line \in Seq(Byte)
      BY <1>5, <3>1, <3>2, Zenon
    <3> QED
      BY <3>2, <3>3 DEF CacheInv
  <2> QED
    BY <1>3, <2>1, <2>2
<1>7. request' /= NoFile => request' \in Requests
  <2>1. CASE request = NoFile
    BY <1>1, <2>1
  <2>2. CASE request /= NoFile
    <3>1. request \in Requests
      BY <2>2 DEF Inv, RequestInv
    <3>2. request' = [request EXCEPT !.raced = TRUE]
      BY <1>1, <2>2
    <3> QED
      BY <3>1, <3>2 DEF Requests
  <2> QED
    BY <2>1, <2>2
<1>8. RequestInv'
  BY <1>2, <1>7 DEF RequestInv
<1> QED
  BY <1>6, <1>8

LEMMA CompDropKeeps ==
  ASSUME Inv, CompDrop
  PROVE  CacheInv' /\ RequestInv'
<1>1. /\ cache' = cache /\ request' = request
      /\ comp_tasks' = Tail(comp_tasks) /\ Len(comp_tasks) > 1
  BY DEF CompDrop
<1>2. comp_tasks \in Seq(Requests) /\ comp_tasks /= <<>>
  <2>1. comp_tasks \in Seq(Requests)
    BY DEF Inv, RequestInv
  <2>2. Len(<<>>) = 0
    OBVIOUS
  <2>3. comp_tasks /= <<>>
    <3>1. ASSUME comp_tasks = <<>> PROVE FALSE
      <4>1. Len(comp_tasks) = 0
        BY <2>2, <3>1
      <4> QED
        BY <1>1, <4>1
    <3> QED
      BY <3>1
  <2> QED
    BY <2>1, <2>3
<1>3. comp_tasks' \in Seq(Requests)
  BY <1>1, <1>2, HeadTailProperties
<1> QED
  BY <1>1, <1>3 DEF Inv, CacheInv, RequestInv

LEMMA UnchangedKeeps ==
  ASSUME Inv, UNCHANGED <<cache, request, comp_tasks>>
  PROVE  CacheInv' /\ RequestInv'
BY DEF Inv, CacheInv, RequestInv

LEMMA NextInv == Inv /\ [Next]_vars => Inv'
<1> SUFFICES ASSUME Inv, [Next]_vars PROVE Inv'
  OBVIOUS
<1>1. TextsInv /\ FilesInv
  BY DEF Inv
<1>2. ASSUME NEW path \in Paths, didOpen(path) PROVE Inv'
  <2>1. UNCHANGED <<cache, request, comp_tasks>>
    BY <1>2 DEF didOpen
  <2> QED
    BY <1>1, <1>2, <2>1, didOpenKeeps, UnchangedKeeps DEF Inv
<1>3. ASSUME NEW path \in Paths, didChange(path) PROVE Inv'
  <2>1. UNCHANGED <<cache, request, comp_tasks>>
    BY <1>3 DEF didChange
  <2> QED
    BY <1>1, <1>3, <2>1, didChangeKeeps, UnchangedKeeps DEF Inv
<1>4. ASSUME NEW path \in Paths, didChangeTwice(path) PROVE Inv'
  <2>1. UNCHANGED <<cache, request, comp_tasks>>
    BY <1>4 DEF didChangeTwice
  <2> QED
    BY <1>1, <1>4, <2>1, didChangeTwiceKeeps, UnchangedKeeps DEF Inv
<1>5. ASSUME NEW path \in Paths, didClose(path) PROVE Inv'
  <2>1. UNCHANGED <<cache, request, comp_tasks>>
    BY <1>5 DEF didClose
  <2> QED
    BY <1>1, <1>5, <2>1, didCloseKeeps, UnchangedKeeps DEF Inv
<1>6. ASSUME NEW path \in Paths, Indexed(path) PROVE Inv'
  <2>1. UNCHANGED <<cache, request, comp_tasks>>
    BY <1>6 DEF Indexed
  <2> QED
    BY <1>1, <1>6, <2>1, IndexedKeeps, UnchangedKeeps DEF Inv
<1>7. ASSUME UNCHANGED <<doc, files>> PROVE TextsInv' /\ FilesInv'
  BY <1>1, <1>7 DEF TextsInv, FilesInv
<1>8. ASSUME NEW path \in Paths, NEW kind \in Kinds, Request(kind, path) PROVE Inv'
  <2>1. UNCHANGED <<doc, files>>
    BY <1>8 DEF Request
  <2> QED
    BY <1>7, <1>8, <2>1, RequestKeeps DEF Inv
<1>9. ASSUME NEW path \in Paths,
             \/ textDocument_formatting(path) \/ textDocument_rangeFormatting(path)
             \/ textDocument_onTypeFormatting(path)
      PROVE  Inv'
  <2>1. UNCHANGED <<doc, files>> /\ UNCHANGED <<cache, request, comp_tasks>>
    BY <1>9, Zenon DEF textDocument_formatting, textDocument_rangeFormatting,
                       textDocument_onTypeFormatting
  <2> QED
    BY <1>7, <2>1, UnchangedKeeps DEF Inv
<1>12. ASSUME ReadCache PROVE Inv'
  <2>1. UNCHANGED <<doc, files>>
    BY <1>12 DEF ReadCache
  <2> QED
    BY <1>7, <1>12, <2>1, ReadCacheKeeps DEF Inv
<1>13. ASSUME CompDone PROVE Inv'
  <2>1. UNCHANGED <<doc, files>>
    BY <1>13 DEF CompDone
  <2> QED
    BY <1>7, <1>13, <2>1, CompDoneKeeps DEF Inv
<1>14. ASSUME CompDrop PROVE Inv'
  <2>1. UNCHANGED <<doc, files>>
    BY <1>14 DEF CompDrop
  <2> QED
    BY <1>7, <1>14, <2>1, CompDropKeeps DEF Inv
<1>15. CASE UNCHANGED vars
  <2>1. UNCHANGED <<doc, files>> /\ UNCHANGED <<cache, request, comp_tasks>>
    BY <1>15 DEF vars
  <2> QED
    BY <1>7, <2>1, UnchangedKeeps DEF Inv
<1> QED
  BY <1>2, <1>3, <1>4, <1>5, <1>6, <1>8, <1>9, <1>12, <1>13, <1>14, <1>15 DEF Next

\* The inductive invariant.
THEOREM Invariant == Spec => []Inv
BY InitInv, NextInv, PTL DEF Spec

\* However the client's changes are said, several in one notification and with
\* characters of several bytes among them, the server's buffer is the client's
\* document (working_files.cc:387 onChange, :435
\* getOffsetForPosition).
THEOREM BufferHoldsDocument == Spec => []BufferIsDocument
<1>1. Inv => BufferIsDocument
  <2> SUFFICES ASSUME Inv, NEW path \in DOMAIN files
               PROVE  /\ files[path].buffer_content = Bytes(doc[path])
                      /\ files[path].buffer_lines = toLines(Bytes(doc[path]))
    BY DEF BufferIsDocument
  <2>1. Holds(files[path], doc[path])
    BY DEF Inv, FilesInv
  <2>2. PICK v, x, b, l : files[path] = [version |-> v, buffer_content |-> b, buffer_lines |-> l,
                                         index_lines |-> x]
                          /\ b = Bytes(doc[path]) /\ l = toLines(Bytes(doc[path]))
    BY <2>1, Zenon DEF Holds
  <2> QED
    BY <2>2
<1> QED
  BY <1>1, Invariant, PTL

----------------------------------------------------------------------------
(* Distances and columns *)

\* One row of distances from the row before it.
NextRow_(a, b, m, d, i) ==
  CHOOSE F : F = [j \in 0..m |->
    IF j = 0 THEN i
    ELSE IF a[i] = b[j] THEN d[j - 1] ELSE 1 + Minimum(F[j - 1], d[j])]

LEMMA RowType ==
  ASSUME NEW a, NEW b, NEW m \in Nat, NEW d \in [0..m -> Nat], NEW i \in Nat
  PROVE  NextRow_(a, b, m, d, i) \in [0..m -> Nat]
<1> DEFINE New(x, j) == IF a[i] = b[j] THEN d[j - 1] ELSE 1 + Minimum(x, d[j])
           Eq(F) == F = [j \in 0..m |-> IF j = 0 THEN i ELSE New(F[j - 1], j)]
           step == [x \in (1..m) \X Nat |-> New(x[2], x[1])]
<1>1. ASSUME NEW j \in 1..m, NEW x \in Nat PROVE New(x, j) \in Nat
  <2>1. d[j - 1] \in Nat /\ d[j] \in Nat
    OBVIOUS
  <2> QED
    BY <2>1 DEF Minimum
<1> HIDE DEF New
<1>2. step \in [(1..m) \X Nat -> Nat] /\ \A j \in 1..m, x \in Nat : step[<<j, x>>] = New(x, j)
  BY <1>1
<1> HIDE DEF step
<1>3. PICK f \in [0..m -> Nat] : f[0] = i /\ \A j \in 1..m : f[j] = step[<<j, f[j - 1]>>]
  <2>1. StepFunctions(m, Nat, i, step) /= {}
    BY <1>2, StepsDefine
  <2> QED
    BY <2>1 DEF StepFunctions
<1>4. ASSUME NEW j \in 1..m PROVE f[j] = New(f[j - 1], j)
  <2>1. f[j - 1] \in Nat
    BY <1>3
  <2> QED
    BY <1>2, <1>3, <2>1
<1>5. Eq(f)
  <2>1. ASSUME NEW j \in 0..m, j /= 0 PROVE j \in 1..m
    BY <2>1
  <2>2. \A j \in 0..m : f[j] = IF j = 0 THEN i ELSE New(f[j - 1], j)
    BY <1>3, <1>4, <2>1
  <2> QED
    BY <1>3, <2>2
<1>6. ASSUME NEW g, Eq(g) PROVE g = f
  <2>1. g[0] = i /\ \A j \in 1..m : g[j] = New(g[j - 1], j)
    <3>1. 0 \in 0..m /\ \A j \in 1..m : j \in 0..m /\ j /= 0
      OBVIOUS
    <3> QED
      BY <1>6, <3>1
  <2> DEFINE E == {j \in 0..m : g[j] = f[j]}
  <2>2. 0 \in E
    BY <1>3, <2>1
  <2>3. ASSUME NEW j \in 1..m, j - 1 \in E PROVE j \in E
    <3>1. g[j - 1] = f[j - 1] /\ j \in 0..m
      BY <2>3
    <3>2. g[j] = f[j]
      BY <1>4, <2>1, <3>1, Zenon
    <3> QED
      BY <3>1, <3>2
  <2> HIDE DEF E
  <2>4. \A j \in 0..m : j \in E
    BY <2>2, <2>3, UpToInduct
  <2>5. \A j \in 0..m : g[j] = f[j]
    BY <2>4 DEF E
  <2>6. g = [j \in 0..m |-> g[j]] /\ f = [j \in 0..m |-> f[j]]
    BY <1>3, <1>6
  <2> QED
    BY <2>5, <2>6
<1>7. (CHOOSE F : Eq(F)) = f
  <2> HIDE DEF Eq
  <2> QED
    BY <1>5, <1>6
<1>8. (CHOOSE F : Eq(F)) \in [0..m -> Nat]
  <2> HIDE DEF Eq
  <2> QED
    BY <1>3, <1>7
<1> QED
  BY <1>8 DEF New, NextRow_

LEMMA DistanceType ==
  ASSUME NEW a, NEW b, Len(a) \in Nat, Len(b) \in Nat
  PROVE  editDistanceVector(a, b) \in [0..Len(b) -> Nat]
<1> DEFINE N == Len(a)
           m == Len(b)
           S == [0..m -> Nat]
           New(d, i) == NextRow_(a, b, m, d, i)
           Row(d, i) == [j \in 0..m |-> New(d, i)[j]]
           first == [j \in 0..m |-> j]
           Eq(F) == F = [i \in 0..N |-> IF i = 0 THEN first ELSE Row(F[i - 1], i)]
           step == [x \in (1..N) \X S |-> Row(x[2], x[1])]
<1>1. editDistanceVector(a, b) = (CHOOSE F : Eq(F))[N]
  BY DEF editDistanceVector, NextRow_
<1>2. N \in Nat /\ m \in Nat
  OBVIOUS
<1> HIDE DEF N, m
<1>3. ASSUME NEW d \in S, NEW i \in Nat PROVE Row(d, i) \in S
  <2>0. d \in [0..m -> Nat]
    BY <1>3
  <2>1. i \in Nat /\ m \in Nat
    BY <1>2, <1>3
  <2>2. New(d, i) \in [0..m -> Nat]
    BY <2>0, <2>1, RowType
  <2> HIDE DEF New
  <2> QED
    BY <2>2 DEF S
<1>4. first \in S
  BY <1>2
<1> HIDE DEF Row, first, S
<1>5. \A i \in 1..N : i \in Nat
  BY <1>2
<1>6. step \in [(1..N) \X S -> S] /\ \A i \in 1..N, d \in S : step[<<i, d>>] = Row(d, i)
  BY <1>3, <1>5
<1> HIDE DEF step
<1>7. PICK f \in [0..N -> S] : f[0] = first /\ \A i \in 1..N : f[i] = step[<<i, f[i - 1]>>]
  <2>1. StepFunctions(N, S, first, step) /= {}
    BY <1>2, <1>4, <1>6, StepsDefine
  <2> QED
    BY <2>1 DEF StepFunctions
<1>8. ASSUME NEW i \in 1..N PROVE f[i] = Row(f[i - 1], i)
  <2>1. f[i - 1] \in S
    BY <1>2, <1>7
  <2> QED
    BY <1>6, <1>7, <2>1
<1>9. Eq(f)
  <2>1. ASSUME NEW i \in 0..N, i /= 0 PROVE i \in 1..N
    BY <1>2, <2>1
  <2>2. \A i \in 0..N : f[i] = IF i = 0 THEN first ELSE Row(f[i - 1], i)
    BY <1>7, <1>8, <2>1
  <2> QED
    BY <1>7, <2>2
<1>10. ASSUME NEW g, Eq(g) PROVE g[N] = f[N]
  <2>1. g[0] = first /\ \A i \in 1..N : g[i] = Row(g[i - 1], i)
    <3>1. 0 \in 0..N /\ \A i \in 1..N : i \in 0..N /\ i /= 0
      BY <1>2
    <3> QED
      BY <1>10, <3>1
  <2> DEFINE E == {i \in 0..N : g[i] = f[i]}
  <2>2. 0 \in E
    BY <1>2, <1>7, <2>1
  <2>3. ASSUME NEW i \in 1..N, i - 1 \in E PROVE i \in E
    <3>1. g[i - 1] = f[i - 1] /\ i \in 0..N
      BY <2>3, <1>2
    <3>2. g[i] = f[i]
      BY <1>8, <2>1, <3>1, Zenon
    <3> QED
      BY <3>1, <3>2
  <2> HIDE DEF E
  <2>4. \A i \in 0..N : i \in E
    BY <1>2, <2>2, <2>3, UpToInduct
  <2> QED
    BY <1>2, <2>4 DEF E
<1>11. (CHOOSE F : Eq(F))[N] = f[N]
  <2> HIDE DEF Eq
  <2> QED
    BY <1>9, <1>10
<1>12. f[N] \in S
  BY <1>2, <1>7
<1> QED
  BY <1>1, <1>11, <1>12 DEF S, m

\* The common prefix of two lines; that of a line with itself is the line.
LEMMA HeadType ==
  ASSUME NEW a, NEW b, Len(a) \in Nat, Len(b) \in Nat
  PROVE  /\ Head_(a, b) \in Nat /\ Head_(a, b) <= Len(a) /\ Head_(a, b) <= Len(b)
         /\ Head_(a, a) = Len(a)
<1> DEFINE S == {n \in 0..Minimum(Len(a), Len(b)) : SubSeq(a, 1, n) = SubSeq(b, 1, n)}
           T == {n \in 0..Minimum(Len(a), Len(a)) : SubSeq(a, 1, n) = SubSeq(a, 1, n)}
<1>1. Minimum(Len(a), Len(b)) \in Nat /\ Minimum(Len(a), Len(b)) <= Len(a)
      /\ Minimum(Len(a), Len(b)) <= Len(b)
  BY DEF Minimum
<1>2. 0 \in S
  <2>1. SubSeq(a, 1, 0) = <<>> /\ SubSeq(b, 1, 0) = <<>>
    BY SubSeqEmpty
  <2> QED
    BY <1>1, <2>1
<1>3. S \in SUBSET (0..Minimum(Len(a), Len(b))) /\ S /= {}
  BY <1>2
<1> HIDE DEF S
<1>4. Max(S) \in S
  BY <1>1, <1>3, MaxIn
<1>5. Head_(a, b) = Max(S)
  BY DEF Head_, S
<1>6. Minimum(Len(a), Len(a)) = Len(a)
  BY DEF Minimum
<1>7. T = 0..Len(a)
  BY <1>6
<1>8. Max(0..Len(a)) = Len(a)
  <2> DEFINE U == 0..Len(a)
  <2>1. U \in SUBSET Int /\ Len(a) \in U /\ \A y \in U : y <= Len(a)
    OBVIOUS
  <2> HIDE DEF U
  <2>2. Max(U) = Len(a)
    BY <2>1, MaxIs
  <2> QED
    BY <2>2 DEF U
<1>9. Head_(a, a) = Max(T)
  BY DEF Head_
<1> HIDE DEF T
<1>10. Head_(a, a) = Len(a)
  BY <1>7, <1>8, <1>9, Zenon
<1>11. Max(S) \in 0..Minimum(Len(a), Len(b))
  BY <1>3, <1>4, Zenon
<1> QED
  BY <1>1, <1>5, <1>10, <1>11

LEMMA ReversedType ==
  ASSUME NEW a \in Seq(Byte)
  PROVE  Reverse(a) \in Seq(Byte) /\ Len(Reverse(a)) = Len(a)
<1>1. Len(a) \in Nat
  BY LenProperties
<1>2. ASSUME NEW i \in 1..Len(a) PROVE a[(Len(a) - i) + 1] \in Byte
  <2>1. (Len(a) - i) + 1 \in 1..Len(a)
    BY <1>1
  <2> QED
    BY <2>1, ElementOfSeq
<1>3. Reverse(a) \in [1..Len(a) -> Byte]
  BY <1>2 DEF Reverse
<1>4. Reverse(a) \in Seq(Byte)
  BY <1>1, <1>3, SeqDef
<1>5. Len(Reverse(a)) = Len(a)
  BY <1>1, <1>3, <1>4
<1> QED
  BY <1>4, <1>5

LEMMA TailType ==
  ASSUME NEW a \in Seq(Byte), NEW b \in Seq(Byte)
  PROVE  /\ Tail_(a, b) \in Nat /\ Tail_(a, b) <= Len(a) /\ Tail_(a, b) <= Len(b)
         /\ Tail_(a, a) = Len(a)
<1>1. Len(a) \in Nat /\ Len(b) \in Nat
  BY LenProperties
<1>2. Len(Reverse(a)) = Len(a) /\ Len(Reverse(b)) = Len(b)
  BY ReversedType
<1> DEFINE c == Reverse(a)
           d == Reverse(b)
<1>3. Tail_(a, b) = Head_(c, d) /\ Tail_(a, a) = Head_(c, c)
  BY DEF Tail_
<1>4. Len(c) = Len(a) /\ Len(d) = Len(b)
  BY <1>2
<1> HIDE DEF c, d
<1>5. /\ Head_(c, d) \in Nat /\ Head_(c, d) <= Len(c) /\ Head_(c, d) <= Len(d)
      /\ Head_(c, c) = Len(c)
  BY <1>1, <1>4, HeadType
<1> QED
  BY <1>3, <1>4, <1>5
\* The places with the least sum of costs are among the columns of the line.
LEMMA BestPlaces ==
  ASSUME NEW m \in Nat, NEW l \in [0..m -> Nat], NEW r \in [0..m -> Nat], NEW S,
         S = {i \in 0..m : \A k \in 0..m : l[i] + r[m - i] <= l[k] + r[m - k]}
  PROVE  Max(S) \in 0..m /\ Min(S) \in 0..m
<1> DEFINE cost == [i \in 0..m |-> l[i] + r[m - i]]
           T == {cost[i] : i \in 0..m}
<1>1. ASSUME NEW i \in 0..m PROVE cost[i] \in Nat /\ cost[i] = l[i] + r[m - i]
  <2>1. m - i \in 0..m
    OBVIOUS
  <2>2. l[i] \in Nat /\ r[m - i] \in Nat
    BY <2>1
  <2> QED
    BY <2>2
<1> HIDE DEF cost
<1>2. T \subseteq Nat /\ T /= {}
  <2>1. \A y \in T : y \in Nat
    BY <1>1
  <2>2. 0 \in 0..m
    OBVIOUS
  <2>3. cost[0] \in T
    BY <2>2
  <2> QED
    BY <2>1, <2>3
<1>3. PICK c \in T : \A d \in T : c <= d
  BY <1>2, LeastElement
<1>4. PICK i \in 0..m : cost[i] = c
  BY <1>3
<1>5. \A k \in 0..m : cost[i] <= cost[k]
  BY <1>3, <1>4
<1>6. i \in S
  BY <1>1, <1>5
<1>7. S \subseteq 0..m
  OBVIOUS
<1>8. S \in SUBSET (0..m) /\ S /= {}
  BY <1>6, <1>7
<1>9. 0..m \subseteq Nat
  OBVIOUS
<1>10. S \in SUBSET Nat
  BY <1>7, <1>9
<1>11. Max(S) \in S
  BY <1>8, MaxIn
<1>12. Min(S) \in S
  BY <1>8, <1>10, MinIn
<1> QED
  BY <1>7, <1>11, <1>12

LEMMA PartOfLine ==
  ASSUME NEW a \in Seq(Byte), NEW m \in Int, NEW n \in Int, 1 <= m, n <= Len(a)
  PROVE  SubSeq(a, m, n) \in Seq(Byte) /\ Len(SubSeq(a, m, n)) \in Nat
<1>1. Len(a) \in Nat
  BY LenProperties
<1>2. \A i \in m..n : a[i] \in Byte
  <2> SUFFICES ASSUME NEW i \in m..n PROVE a[i] \in Byte
    OBVIOUS
  <2>1. i \in 1..Len(a)
    BY <1>1
  <2> QED
    BY <2>1, ElementOfSeq
<1>3. SubSeq(a, m, n) \in Seq(Byte)
  BY <1>2, SubSeqProperties
<1> QED
  BY <1>3, LenProperties

\* A column of a line stays a number in whatever line it is looked for, and is
\* itself in the same line.
LEMMA AlignType ==
  ASSUME NEW a \in Seq(Byte), NEW b0 \in Seq(Byte), NEW column \in 0..Len(a),
         NEW is_end
  PROVE  /\ alignColumn(a, column, b0, is_end) \in Int
         /\ b0 = a => alignColumn(a, column, b0, is_end) = column
<1> DEFINE head == Head_(a, b0)
           tail == Tail_(a, b0)
           n == IF head + tail > Len(b0) THEN Len(b0) ELSE Len(b0) - tail
           b == SubSeq(b0, head + 1, n)
           u == SubSeq(a, head + 1, column)
           w == Reverse(SubSeq(a, column + 1, Len(a) - tail))
           left == editDistanceVector(u, b)
           right == editDistanceVector(w, Reverse(b))
           best == {i \in 0..Len(b) : \A k \in 0..Len(b) :
                      left[i] + right[Len(b) - i] <= left[k] + right[Len(b) - k]}
           x == IF is_end THEN Min(best) ELSE Max(best)
<1>1. alignColumn(a, column, b0, is_end) =
        IF column < head THEN column
        ELSE IF Len(a) - tail < column THEN column + Len(b0) - Len(a)
        ELSE IF Maximum(Len(a), Len(b0)) - head - tail >= kMaxColumnAlignSize
             THEN Minimum(column, Len(b0))
        ELSE head + x
  BY DEF alignColumn
<1>2. Len(a) \in Nat /\ Len(b0) \in Nat
  BY LenProperties
<1>3. /\ head \in Nat /\ head <= Len(a) /\ head <= Len(b0)
      /\ tail \in Nat /\ tail <= Len(a) /\ tail <= Len(b0)
  BY <1>2, HeadType, TailType
<1>4. b0 = a => head = Len(a) /\ tail = Len(a)
  BY <1>2, HeadType, TailType
<1> HIDE DEF head, tail
<1>16. n \in Int /\ n <= Len(b0) /\ (Len(b0) = 0 => n = 0)
  BY <1>2, <1>3
<1> HIDE DEF n
<1>5. b \in Seq(Byte) /\ Len(b) \in Nat
  BY <1>2, <1>3, <1>16, PartOfLine
<1>6. Reverse(b) \in Seq(Byte) /\ Len(Reverse(b)) = Len(b)
  BY <1>5, ReversedType
<1>7. Len(u) \in Nat
  <2>1. head + 1 \in Int /\ 1 <= head + 1 /\ column \in Int /\ column <= Len(a)
    BY <1>2, <1>3
  <2> QED
    BY <2>1, PartOfLine
<1>8. Len(w) \in Nat
  <2>1. /\ column + 1 \in Int /\ 1 <= column + 1
        /\ Len(a) - tail \in Int /\ Len(a) - tail <= Len(a)
    BY <1>2, <1>3
  <2>2. SubSeq(a, column + 1, Len(a) - tail) \in Seq(Byte)
    BY <2>1, PartOfLine
  <2>3. w \in Seq(Byte)
    BY <2>2, ReversedType
  <2> QED
    BY <2>3, LenProperties
<1> HIDE DEF b, u, w
<1>9. left \in [0..Len(b) -> Nat]
  BY <1>5, <1>7, DistanceType
<1>10. right \in [0..Len(b) -> Nat]
  BY <1>5, <1>6, <1>8, DistanceType
<1> HIDE DEF left, right
<1>11. x \in 0..Len(b)
  <2>1. Max(best) \in 0..Len(b) /\ Min(best) \in 0..Len(b)
    BY <1>5, <1>9, <1>10, BestPlaces
  <2> HIDE DEF best
  <2> QED
    BY <2>1
<1>12. b0 = a /\ column = 0 /\ Len(a) = 0 => Len(b) = 0
  <2>1. ASSUME b0 = a, Len(a) = 0 PROVE Len(b) = 0
    <3>1. head = 0 /\ tail = 0 /\ Len(b0) = 0
      BY <1>4, <2>1
    <3>2. b = SubSeq(b0, 1, 0)
      BY <1>16, <3>1 DEF b
    <3>3. b = <<>>
      BY <3>2, SubSeqEmpty
    <3> QED
      BY <3>3
  <2> QED
    BY <2>1
<1> HIDE DEF x
<1>13. Minimum(column, Len(b0)) \in Int /\ (b0 = a => Minimum(column, Len(b0)) = column)
  BY <1>2 DEF Minimum
<1>14. alignColumn(a, column, b0, is_end) \in Int
  <2>1. column \in Int /\ column + Len(b0) - Len(a) \in Int /\ head + x \in Int
    BY <1>2, <1>3, <1>5, <1>11
  <2> QED
    BY <1>1, <1>13, <2>1
<1>15. ASSUME b0 = a PROVE alignColumn(a, column, b0, is_end) = column
  <2>1. CASE column < Len(a)
    BY <1>1, <1>4, <1>15, <2>1
  <2>2. CASE column = Len(a) /\ column > 0
    <3>1. ~(column < head) /\ Len(a) - tail < column /\ column + Len(b0) - Len(a) = column
      BY <1>2, <1>4, <1>15, <2>2
    <3> QED
      BY <1>1, <3>1
  <2>3. CASE column = Len(a) /\ column = 0
    <3>1. head = 0 /\ tail = 0 /\ Len(b) = 0
      BY <1>4, <1>12, <1>15, <2>3
    <3>2. x = 0 /\ head + x = column
      BY <1>11, <2>3, <3>1
    <3>3. ~(column < head) /\ ~(Len(a) - tail < column)
      BY <2>3, <3>1
    <3> QED
      BY <1>1, <1>13, <1>15, <3>2, <3>3
  <2> QED
    BY <1>2, <2>1, <2>2, <2>3
<1> QED
  BY <1>14, <1>15

----------------------------------------------------------------------------
(* The mapping of lines *)

\* The lines of b that are equal to line i of a.
Matches(a, b, i) == {j \in 0..Len(b) - 1 : a[i + 1] = b[j + 1]}

LEMMA OnlyMatchIs ==
  ASSUME NEW a, NEW b, NEW i, NEW j
  PROVE  OnlyMatch(a, b, i, j) <=> IsUnique(a, i + 1) /\ Matches(a, b, i) = {j}
BY DEF OnlyMatch, Matches

\* The steps of computeLineMapping: the unique lines, down, up.
UniqueLines(a, b) ==
  [i \in 0..Len(a) - 1 |->
     IF IsUnique(a, i + 1)
     THEN IF Cardinality(Matches(a, b, i)) = 1 THEN Max(Matches(a, b, i)) ELSE -1
     ELSE -1]
Below(a, b, i, j) ==
  IF 0 <= j /\ j + 1 < Len(b) /\ a[i + 1] = b[(j + 1) + 1] THEN j + 1 ELSE UniqueLines(a, b)[i]
Down(a, b) ==
  CHOOSE F : F = [i \in 0..Len(a) - 1 |->
    IF i = 0 THEN UniqueLines(a, b)[0] ELSE Below(a, b, i, F[i - 1])]
Above(a, b, i, j) ==
  IF 0 < j /\ a[i + 1] = b[(j - 1) + 1] THEN j - 1 ELSE Down(a, b)[i]
Up(a, b) ==
  CHOOSE F : F = [i \in 0..Len(a) - 1 |->
    IF i = Len(a) - 1 THEN Down(a, b)[i] ELSE Above(a, b, i, F[i + 1])]

LEMMA MappingIs ==
  ASSUME NEW a, NEW b
  PROVE  computeLineMapping(a, b) =
           [index_to_buffer |-> [i \in 0..Len(a) - 1 |-> Up(a, b)[i]],
            buffer_to_index |->
              [j \in 0..Len(b) - 1 |->
                 Max({i \in 0..Len(a) - 1 : [k \in 0..Len(a) - 1 |-> Up(a, b)[k]][i] = j} \cup {-1})]]
BY DEF computeLineMapping, Up, Above, Down, Below, UniqueLines, Matches

\* A value that a line is mapped to is a line that is equal to it, and the only one
\* that is if there is one.
Right(a, b, i, j) ==
  /\ j \in -1..Len(b) - 1
  /\ j >= 0 => a[i + 1] = b[j + 1]
  /\ \A k : OnlyMatch(a, b, i, k) => j = k

LEMMA UniqueLinesRight ==
  ASSUME NEW a, NEW b, Len(a) \in Nat, Len(b) \in Nat, NEW i \in 0..Len(a) - 1
  PROVE  Right(a, b, i, UniqueLines(a, b)[i])
<1> DEFINE S == Matches(a, b, i)
<1>1. UniqueLines(a, b)[i] =
        IF IsUnique(a, i + 1) THEN IF Cardinality(S) = 1 THEN Max(S) ELSE -1 ELSE -1
  BY DEF UniqueLines
<1>2. S \in SUBSET (0..Len(b) - 1) /\ \A j \in S : a[i + 1] = b[j + 1]
  BY DEF Matches
<1> HIDE DEF S
<1>3. IsFiniteSet(S)
  <2>1. IsFiniteSet(0..Len(b) - 1)
    BY FS_Interval
  <2> QED
    BY <1>2, <2>1, FS_Subset
<1>4. ASSUME NEW j, S = {j} PROVE Max(S) = j /\ Cardinality(S) = 1 /\ j \in S
  <2>1. j \in S /\ \A y \in S : y = j
    BY <1>4
  <2>2. j \in Nat /\ S \in SUBSET Int
    BY <1>2, <2>1
  <2>3. \A y \in S : y <= j
    BY <2>1, <2>2
  <2>4. Max(S) = j
    BY <2>1, <2>2, <2>3, MaxIs
  <2>5. Cardinality(S) = 1
    BY <1>4, FS_Singleton
  <2> QED
    BY <2>1, <2>4, <2>5
<1>5. ASSUME Cardinality(S) = 1 PROVE \E j : S = {j}
  BY <1>3, <1>5, FS_Singleton
<1>6. CASE IsUnique(a, i + 1) /\ Cardinality(S) = 1
  <2>1. PICK j : S = {j}
    BY <1>5, <1>6
  <2>2. UniqueLines(a, b)[i] = j /\ j \in S
    BY <1>1, <1>4, <1>6, <2>1
  <2>3. j \in -1..Len(b) - 1 /\ a[i + 1] = b[j + 1]
    BY <1>2, <2>2
  <2>4. \A k : OnlyMatch(a, b, i, k) => j = k
    BY <2>1, OnlyMatchIs DEF S
  <2> QED
    BY <2>2, <2>3, <2>4 DEF Right
<1>7. CASE ~(IsUnique(a, i + 1) /\ Cardinality(S) = 1)
  <2>1. UniqueLines(a, b)[i] = -1
    BY <1>1, <1>7
  <2>2. \A k : ~OnlyMatch(a, b, i, k)
    BY <1>4, <1>7, OnlyMatchIs DEF S
  <2> QED
    BY <2>1, <2>2 DEF Right
<1> QED
  BY <1>6, <1>7

\* What a neighbour's line suggests is right when the lines are equal.
LEMMA NeighbourRight ==
  ASSUME NEW a, NEW b, Len(b) \in Nat, NEW i \in 0..Len(a) - 1, NEW j \in 0..Len(b) - 1,
         a[i + 1] = b[j + 1]
  PROVE  Right(a, b, i, j)
<1>1. j \in Matches(a, b, i)
  BY DEF Matches
<1>2. \A k : OnlyMatch(a, b, i, k) => j = k
  BY <1>1, OnlyMatchIs
<1> QED
  BY <1>2 DEF Right

LEMMA DownIs ==
  ASSUME NEW a, NEW b, Len(a) \in Nat, Len(a) > 0, Len(b) \in Nat
  PROVE  /\ Down(a, b)[0] = UniqueLines(a, b)[0]
         /\ \A i \in 1..Len(a) - 1 : Down(a, b)[i] = Below(a, b, i, Down(a, b)[i - 1])
<1> DEFINE N == Len(a) - 1
           S == -1..Len(b) - 1
           first == UniqueLines(a, b)[0]
           Next_(i, j) == Below(a, b, i, j)
           Eq(F) == F = [i \in 0..N |-> IF i = 0 THEN first ELSE Next_(i, F[i - 1])]
           step == [x \in (1..N) \X S |-> Next_(x[1], x[2])]
<1>1. Down(a, b) = CHOOSE F : Eq(F)
  BY DEF Down
<1>2. N \in Nat
  OBVIOUS
<1>3. \A i \in 0..N : UniqueLines(a, b)[i] \in S
  BY UniqueLinesRight DEF Right
<1>4. ASSUME NEW i \in 1..N, NEW j \in S PROVE Next_(i, j) \in S
  BY <1>3 DEF Below
<1>5. first \in S
  BY <1>2, <1>3
<1> HIDE DEF first, Next_, S, N
<1>6. step \in [(1..N) \X S -> S] /\ \A i \in 1..N, j \in S : step[<<i, j>>] = Next_(i, j)
  BY <1>4
<1> HIDE DEF step
<1>7. PICK f \in [0..N -> S] : f[0] = first /\ \A i \in 1..N : f[i] = step[<<i, f[i - 1]>>]
  <2>1. StepFunctions(N, S, first, step) /= {}
    BY <1>2, <1>5, <1>6, StepsDefine
  <2> QED
    BY <2>1 DEF StepFunctions
<1>8. ASSUME NEW i \in 1..N PROVE f[i] = Next_(i, f[i - 1])
  <2>1. f[i - 1] \in S
    BY <1>2, <1>7
  <2> QED
    BY <1>6, <1>7, <2>1
<1>9. Eq(f)
  <2>1. ASSUME NEW i \in 0..N, i /= 0 PROVE i \in 1..N
    BY <1>2, <2>1
  <2>2. \A i \in 0..N : f[i] = IF i = 0 THEN first ELSE Next_(i, f[i - 1])
    BY <1>7, <1>8, <2>1
  <2> QED
    BY <1>7, <2>2
<1>10. Eq(Down(a, b))
  <2> HIDE DEF Eq
  <2> QED
    BY <1>1, <1>9
<1> QED
  <2>1. 0 \in 0..N /\ \A i \in 1..N : i \in 0..N /\ i /= 0
    BY <1>2
  <2>2. Down(a, b)[0] = first /\ \A i \in 1..N : Down(a, b)[i] = Next_(i, Down(a, b)[i - 1])
    BY <1>10, <2>1
  <2> QED
    BY <2>2 DEF first, N, Next_

LEMMA DownRight ==
  ASSUME NEW a, NEW b, Len(a) \in Nat, Len(a) > 0, Len(b) \in Nat
  PROVE  \A i \in 0..Len(a) - 1 : Right(a, b, i, Down(a, b)[i])
<1> DEFINE N == Len(a) - 1
           T == {i \in 0..N : Right(a, b, i, Down(a, b)[i])}
<1>1. N \in Nat /\ 0 \in 0..N
  OBVIOUS
<1>2. 0 \in T
  BY <1>1, DownIs, UniqueLinesRight
<1>3. ASSUME NEW i \in 1..N, i - 1 \in T PROVE i \in T
  <2>1. PICK j : j = Down(a, b)[i - 1]
    OBVIOUS
  <2>2. j \in -1..Len(b) - 1
    BY <1>3, <2>1 DEF Right
  <2>3. Down(a, b)[i] = Below(a, b, i, j) /\ i \in 0..N
    BY <2>1, DownIs
  <2>4. CASE 0 <= j /\ j + 1 < Len(b) /\ a[i + 1] = b[(j + 1) + 1]
    <3>1. Down(a, b)[i] = j + 1 /\ j + 1 \in 0..Len(b) - 1
      BY <2>2, <2>3, <2>4 DEF Below
    <3> QED
      BY <2>3, <2>4, <3>1, NeighbourRight
  <2>5. CASE ~(0 <= j /\ j + 1 < Len(b) /\ a[i + 1] = b[(j + 1) + 1])
    <3>1. Down(a, b)[i] = UniqueLines(a, b)[i]
      BY <2>3, <2>5 DEF Below
    <3> QED
      BY <2>3, <3>1, UniqueLinesRight
  <2> QED
    BY <2>4, <2>5
<1> HIDE DEF T
<1>4. \A i \in 0..N : i \in T
  BY <1>1, <1>2, <1>3, UpToInduct
<1> QED
  BY <1>4 DEF T

\* The same from the last line upwards.
LEMMA UpIs ==
  ASSUME NEW a, NEW b, Len(a) \in Nat, Len(a) > 0, Len(b) \in Nat
  PROVE  /\ Up(a, b)[Len(a) - 1] = Down(a, b)[Len(a) - 1]
         /\ \A i \in 0..Len(a) - 2 : Up(a, b)[i] = Above(a, b, i, Up(a, b)[i + 1])
<1> DEFINE N == Len(a) - 1
           S == -1..Len(b) - 1
           last == Down(a, b)[N]
           Next_(i, j) == Above(a, b, i, j)
           Eq(F) == F = [i \in 0..N |-> IF i = N THEN Down(a, b)[i] ELSE Next_(i, F[i + 1])]
           step == [x \in (1..N) \X S |-> Next_(N - x[1], x[2])]
<1>1. Up(a, b) = CHOOSE F : Eq(F)
  BY DEF Up
<1>2. N \in Nat
  OBVIOUS
<1>3. \A i \in 0..N : Down(a, b)[i] \in S
  BY DownRight DEF Right
<1>4. ASSUME NEW i \in 0..N, NEW j \in S PROVE Next_(i, j) \in S
  BY <1>3 DEF Above
<1>5. last \in S
  BY <1>2, <1>3
<1> HIDE DEF Next_, S, N
<1>6. step \in [(1..N) \X S -> S] /\ \A k \in 1..N, j \in S : step[<<k, j>>] = Next_(N - k, j)
  <2>1. \A k \in 1..N : N - k \in 0..N
    BY <1>2
  <2> QED
    BY <1>4, <2>1
<1> HIDE DEF step, last
<1>7. PICK f \in [0..N -> S] : f[0] = last /\ \A k \in 1..N : f[k] = step[<<k, f[k - 1]>>]
  <2>1. StepFunctions(N, S, last, step) /= {}
    BY <1>2, <1>5, <1>6, StepsDefine
  <2> QED
    BY <2>1 DEF StepFunctions
<1> DEFINE g == [i \in 0..N |-> f[N - i]]
<1>8. ASSUME NEW i \in 0..N, i /= N PROVE g[i] = Next_(i, g[i + 1])
  <2>1. /\ N - i \in 1..N /\ (N - i) - 1 = N - (i + 1) /\ N - (N - i) = i
        /\ i + 1 \in 0..N /\ N - (i + 1) \in 0..N
    BY <1>2, <1>8
  <2>2. f[N - (i + 1)] \in S
    BY <1>7, <2>1
  <2>3. f[N - i] = Next_(i, f[N - (i + 1)])
    BY <1>6, <1>7, <2>1, <2>2
  <2> QED
    BY <2>1, <2>3
<1>9. g[N] = last
  BY <1>2, <1>7
<1> HIDE DEF g
<1>10. Eq(g)
  <2>1. g = [i \in 0..N |-> g[i]]
    BY DEF g
  <2>2. \A i \in 0..N : g[i] = IF i = N THEN Down(a, b)[i] ELSE Next_(i, g[i + 1])
    BY <1>8, <1>9 DEF last
  <2> QED
    BY <2>1, <2>2
<1>11. Eq(Up(a, b))
  <2> HIDE DEF Eq
  <2> QED
    BY <1>1, <1>10
<1> QED
  <2>1. N \in 0..N /\ \A i \in 0..N - 1 : i \in 0..N /\ i /= N
    BY <1>2
  <2>2. Up(a, b)[N] = Down(a, b)[N] /\ \A i \in 0..N - 1 : Up(a, b)[i] = Next_(i, Up(a, b)[i + 1])
    BY <1>11, <2>1
  <2>3. 0..N - 1 = 0..Len(a) - 2
    BY <1>2 DEF N
  <2> QED
    BY <2>2, <2>3 DEF N, Next_

\* What goes from each number to the one below it.
LEMMA DownToInduct ==
  ASSUME NEW N \in Nat, NEW T, N \in T, \A n \in 0..N - 1 : n + 1 \in T => n \in T
  PROVE  \A n \in 0..N : n \in T
<1> DEFINE U == {k \in 0..N : N - k \in T}
<1>1. 0 \in U
  OBVIOUS
<1>2. ASSUME NEW k \in 1..N, k - 1 \in U PROVE k \in U
  <2>1. N - k \in 0..N - 1 /\ (N - k) + 1 = N - (k - 1) /\ k \in 0..N
    OBVIOUS
  <2>2. (N - k) + 1 \in T
    BY <1>2, <2>1
  <2>3. N - k \in T
    BY <2>1, <2>2
  <2> QED
    BY <2>1, <2>3
<1> HIDE DEF U
<1>3. \A k \in 0..N : k \in U
  BY <1>1, <1>2, UpToInduct
<1>4. ASSUME NEW n \in 0..N PROVE n \in T
  <2>1. N - n \in U /\ N - (N - n) = n
    BY <1>3
  <2> QED
    BY <2>1 DEF U
<1> QED
  BY <1>4

LEMMA UpRight ==
  ASSUME NEW a, NEW b, Len(a) \in Nat, Len(a) > 0, Len(b) \in Nat
  PROVE  \A i \in 0..Len(a) - 1 : Right(a, b, i, Up(a, b)[i])
<1> DEFINE N == Len(a) - 1
           T == {i \in 0..N : Right(a, b, i, Up(a, b)[i])}
<1>1. N \in Nat /\ N \in 0..N /\ N - 1 = Len(a) - 2
  OBVIOUS
<1>2. N \in T
  BY <1>1, UpIs, DownRight
<1>3. ASSUME NEW i \in 0..N - 1, i + 1 \in T PROVE i \in T
  <2>1. PICK j : j = Up(a, b)[i + 1]
    OBVIOUS
  <2>2. j \in -1..Len(b) - 1
    BY <1>3, <2>1 DEF Right
  <2>3. Up(a, b)[i] = Above(a, b, i, j) /\ i \in 0..N
    BY <1>1, <2>1, UpIs
  <2>4. CASE 0 < j /\ a[i + 1] = b[(j - 1) + 1]
    <3>1. Up(a, b)[i] = j - 1 /\ j - 1 \in 0..Len(b) - 1
      BY <2>2, <2>3, <2>4 DEF Above
    <3> QED
      BY <2>3, <2>4, <3>1, NeighbourRight
  <2>5. CASE ~(0 < j /\ a[i + 1] = b[(j - 1) + 1])
    <3>1. Up(a, b)[i] = Down(a, b)[i]
      BY <2>3, <2>5 DEF Above
    <3> QED
      BY <2>3, <3>1, DownRight
  <2> QED
    BY <2>4, <2>5
<1> HIDE DEF T
<1>4. \A i \in 0..N : i \in T
  BY <1>1, <1>2, <1>3, DownToInduct
<1> QED
  BY <1>4 DEF T

\* A text that did not change is mapped to itself if it has a line that is unique.
LEMMA SelfMapped ==
  ASSUME NEW a, Len(a) \in Nat, NEW u \in 0..Len(a) - 1, IsUnique(a, u + 1)
  PROVE  \A i \in 0..Len(a) - 1 : Up(a, a)[i] = i
<1> DEFINE N == Len(a) - 1
           T == {i \in 0..N : Up(a, a)[i] = i}
           U == {k \in 0..N : k >= u => Down(a, a)[k] = k}
<1>1. N \in Nat /\ N \in 0..N /\ Len(a) > 0 /\ N - 1 = Len(a) - 2
  OBVIOUS
<1>2. Down(a, a)[u] = u
  <2>1. Matches(a, a, u) = {u}
    <3>1. u \in Matches(a, a, u)
      BY DEF Matches
    <3>2. ASSUME NEW j \in Matches(a, a, u) PROVE j = u
      <4>1. j \in 0..Len(a) - 1 /\ a[j + 1] = a[u + 1]
        BY DEF Matches
      <4>2. j + 1 \in 1..Len(a)
        BY <4>1
      <4>3. j + 1 = u + 1
        BY <4>1, <4>2 DEF IsUnique
      <4> QED
        BY <4>1, <4>3
    <3> QED
      BY <3>1, <3>2
  <2>2. OnlyMatch(a, a, u, u)
    BY <2>1, OnlyMatchIs
  <2>3. Right(a, a, u, Down(a, a)[u])
    BY <1>1, DownRight
  <2> QED
    BY <2>2, <2>3 DEF Right
<1>3. \A k \in 0..N : k \in U
  <2>1. 0 \in U
    BY <1>1, <1>2
  <2>2. ASSUME NEW k \in 1..N, k - 1 \in U PROVE k \in U
    <3>1. CASE k <= u
      BY <1>2, <3>1
    <3>2. CASE k > u
      <4>1. Down(a, a)[k - 1] = k - 1
        BY <2>2, <3>2
      <4>2. Down(a, a)[k] = Below(a, a, k, k - 1)
        BY <1>1, <4>1, DownIs
      <4>3. (k - 1) + 1 = k /\ k < Len(a) /\ 0 <= k - 1
        OBVIOUS
      <4>4. Below(a, a, k, k - 1) = k
        BY <4>3 DEF Below
      <4> QED
        BY <4>2, <4>4
    <3> QED
      BY <3>1, <3>2
  <2> HIDE DEF U, N
  <2> QED
    BY <1>1, <2>1, <2>2, UpToInduct
<1>4. N \in T
  <2>1. N \in U /\ N >= u
    BY <1>1, <1>3
  <2>2. Down(a, a)[N] = N
    BY <2>1
  <2> QED
    BY <1>1, <2>2, UpIs
<1>5. ASSUME NEW i \in 0..N - 1, i + 1 \in T PROVE i \in T
  <2>1. Up(a, a)[i + 1] = i + 1
    BY <1>5
  <2>2. Up(a, a)[i] = Above(a, a, i, i + 1)
    BY <1>1, <2>1, UpIs
  <2>3. (i + 1) - 1 = i /\ 0 < i + 1 /\ i \in 0..N
    OBVIOUS
  <2>4. Above(a, a, i, i + 1) = i
    BY <2>3 DEF Above
  <2> QED
    BY <2>2, <2>3, <2>4
<1> HIDE DEF T
<1>6. \A i \in 0..N : i \in T
  BY <1>1, <1>4, <1>5, DownToInduct
<1> QED
  BY <1>6 DEF T

LEMMA MaxOrNone ==
  ASSUME NEW N \in Nat, NEW S \in SUBSET (0..N)
  PROVE  Max(S \cup {-1}) \in S \cup {-1} /\ \A y \in S : y <= Max(S \cup {-1})
<1> DEFINE U == S \cup {-1}
<1>1. U \in SUBSET Int
  OBVIOUS
<1>2. PICK m \in U : \A y \in U : y <= m
  <2>1. CASE S = {}
    <3>1. -1 \in U /\ \A y \in U : y <= -1
      BY <2>1
    <3> QED
      BY <3>1
  <2>2. CASE S /= {}
    <3>1. Max(S) \in S /\ \A y \in S : y <= Max(S)
      BY <2>2, MaxIn
    <3>2. PICK m : m = Max(S)
      OBVIOUS
    <3>3. m \in 0..N /\ m \in S /\ \A y \in S : y <= m
      BY <3>1, <3>2
    <3>4. -1 <= m
      BY <3>3
    <3>5. m \in U /\ \A y \in U : y <= m
      BY <3>3, <3>4
    <3> QED
      BY <3>5
  <2> QED
    BY <2>1, <2>2
<1>3. Max(U) = m
  BY <1>1, <1>2, MaxIs
<1> QED
  BY <1>2, <1>3

\* Both directions of the mapping agree.
LEMMA MappingIsSound ==
  ASSUME NEW wf, Len(wf.index_lines) \in Nat, Len(wf.index_lines) > 0, Len(wf.buffer_lines) \in Nat
  PROVE  MappingSound(wf)
<1> DEFINE a == wf.index_lines
           b == wf.buffer_lines
           to == [i \in 0..Len(a) - 1 |-> Up(a, b)[i]]
           from == [j \in 0..Len(b) - 1 |-> Max({i \in 0..Len(a) - 1 : to[i] = j} \cup {-1})]
<1>1. computeLineMapping(a, b) = [index_to_buffer |-> to, buffer_to_index |-> from]
  BY MappingIs
<1>2. /\ computeLineMapping(a, b).index_to_buffer = to
      /\ computeLineMapping(a, b).buffer_to_index = from
  <2> HIDE DEF to, from
  <2> QED
    BY <1>1
<1>3. DOMAIN to = 0..Len(a) - 1 /\ DOMAIN from = 0..Len(b) - 1
  OBVIOUS
<1>4. \A i \in 0..Len(a) - 1 : to[i] = Up(a, b)[i] /\ Right(a, b, i, to[i])
  BY UpRight
<1>5. ASSUME NEW j \in 0..Len(b) - 1
      PROVE  /\ from[j] \in {i \in 0..Len(a) - 1 : to[i] = j} \cup {-1}
             /\ \A i \in 0..Len(a) - 1 : to[i] = j => i <= from[j]
  <2> DEFINE S == {i \in 0..Len(a) - 1 : to[i] = j}
  <2>1. from[j] = Max(S \cup {-1})
    OBVIOUS
  <2>2. S \in SUBSET (0..Len(a) - 1) /\ Len(a) - 1 \in Nat
    OBVIOUS
  <2>3. \A i \in 0..Len(a) - 1 : to[i] = j => i \in S
    OBVIOUS
  <2> HIDE DEF S, from, to
  <2>4. from[j] \in S \cup {-1} /\ \A y \in S : y <= from[j]
    BY <2>1, <2>2, MaxOrNone
  <2> QED
    BY <2>3, <2>4 DEF S
<1> HIDE DEF to, from
<1>6. ASSUME NEW i \in 0..Len(a) - 1, to[i] >= 0
      PROVE  a[i + 1] = b[to[i] + 1] /\ from[to[i]] >= i
  <2>1. to[i] \in 0..Len(b) - 1 /\ a[i + 1] = b[to[i] + 1]
    BY <1>4, <1>6 DEF Right
  <2>2. i <= from[to[i]] /\ from[to[i]] \in Int
    BY <1>5, <2>1
  <2> QED
    BY <2>1, <2>2
<1>7. ASSUME NEW j \in 0..Len(b) - 1, from[j] >= 0 PROVE to[from[j]] = j
  BY <1>5, <1>7
<1>8. ASSUME a = b, NEW u \in 0..Len(a) - 1, IsUnique(a, u + 1), NEW i \in 0..Len(a) - 1
      PROVE  to[i] = i
  <2>1. \A k \in 0..Len(a) - 1 : Up(a, a)[k] = k
    BY <1>8, SelfMapped
  <2> QED
    BY <1>4, <1>8, <2>1
<1> QED
  BY <1>2, <1>3, <1>6, <1>7, <1>8 DEF MappingSound

LEMMA AlikeBetween ==
  ASSUME NEW up \in Nat, NEW down \in Nat, up <= down, NEW dist
  PROVE  MostAlike(up, down, dist) \in up..down
<1> DEFINE near == {i \in up..down : dist[i] <= kMaxDiff /\ \A k \in up..down : dist[i] <= dist[k]}
<1>1. MostAlike(up, down, dist) = IF near = {} THEN up ELSE Min(near)
  BY DEF MostAlike
<1>2. near \subseteq up..down /\ up..down \subseteq Nat
  OBVIOUS
<1> HIDE DEF near
<1>3. ASSUME near /= {} PROVE Min(near) \in up..down
  <2>1. near \in SUBSET Nat
    BY <1>2
  <2>2. Min(near) \in near
    BY <1>3, <2>1, MinIn
  <2> QED
    BY <1>2, <2>2
<1>4. up \in up..down
  OBVIOUS
<1> QED
  BY <1>1, <1>3, <1>4

\* The line that is looked for is one of the buffer's.
LEMMA BetweenIs ==
  ASSUME NEW a, NEW b, Len(b) \in Nat, NEW n \in Nat, NEW to \in [0..n -> -1..Len(b) - 1],
         NEW sure \in SUBSET (0..n), \A i \in sure : to[i] >= 0, NEW line \in 0..n,
         NEW l, l = Between(a, to, sure, line, b), l /= NoFile
  PROVE  l \in 0..Len(b) - 1
<1> DEFINE above == {i \in sure : i < line}
           below == {i \in sure : i > line}
           up == IF above = {} THEN 0 ELSE to[Max(above)]
           down == IF below = {} THEN Len(b) - 1 ELSE to[Min(below)]
           dist == [i \in up..down |-> myersDiff(a[line + 1], b[i + 1], kMaxDiff)]
<1>1. Between(a, to, sure, line, b) =
        IF line \in sure THEN to[line]
        ELSE IF up > down THEN NoFile ELSE MostAlike(up, down, dist)
  BY DEF Between
<1>2. ASSUME NEW i \in sure PROVE to[i] \in 0..Len(b) - 1
  <2>1. i \in 0..n /\ to[i] >= 0
    OBVIOUS
  <2>2. to[i] \in -1..Len(b) - 1
    BY <2>1
  <2> QED
    BY <2>1, <2>2
<1>3. above \in SUBSET (0..n) /\ below \in SUBSET Nat /\ above \subseteq sure /\ below \subseteq sure
  <2>1. above \subseteq sure /\ below \subseteq sure
    OBVIOUS
  <2>2. 0..n \subseteq Nat
    OBVIOUS
  <2> QED
    BY <2>1, <2>2, Zenon
<1> HIDE DEF above, below
<1>4. above /= {} => Max(above) \in sure
  BY <1>3, MaxIn
<1>5. below /= {} => Min(below) \in sure
  BY <1>3, MinIn
<1>6. up \in Nat /\ (above = {} \/ up \in 0..Len(b) - 1)
  <2>1. CASE above = {}
    BY <2>1
  <2>2. CASE above /= {}
    <3>1. to[Max(above)] \in 0..Len(b) - 1
      BY <1>2, <1>4, <2>2
    <3> QED
      BY <2>2, <3>1
  <2> QED
    BY <2>1, <2>2
<1>7. down \in -1..Len(b) - 1
  <2>1. CASE below = {}
    BY <2>1
  <2>2. CASE below /= {}
    <3>1. to[Min(below)] \in 0..Len(b) - 1
      BY <1>2, <1>5, <2>2
    <3> QED
      BY <2>2, <3>1
  <2> QED
    BY <2>1, <2>2
<1> HIDE DEF dist
<1>8. ASSUME ~(up > down) PROVE MostAlike(up, down, dist) \in 0..Len(b) - 1
  <2> HIDE DEF up, down
  <2>1. up <= down /\ down \in Nat
    BY <1>6, <1>7, <1>8
  <2>2. MostAlike(up, down, dist) \in up..down
    BY <1>6, <2>1, AlikeBetween
  <2> QED
    BY <1>6, <1>7, <2>1, <2>2
<1> HIDE DEF up, down
<1>9. CASE line \in sure
  BY <1>1, <1>2, <1>9
<1>10. CASE line \notin sure
  <2>1. ~(up > down)
    BY <1>1, <1>10
  <2> QED
    BY <1>1, <1>8, <1>10, <2>1
<1> QED
  BY <1>9, <1>10

\* A line that the mapping is sure of is the one that it is mapped to.
LEMMA SureIs ==
  ASSUME NEW a, NEW b, NEW to, NEW sure, NEW line \in sure
  PROVE  Between(a, to, sure, line, b) = to[line]
BY DEF Between

\* The lines that the mapping is sure of.
Sure(to) == {i \in DOMAIN to : to[i] >= 0}

LEMMA LineFound ==
  ASSUME NEW a, NEW b, Len(a) \in Nat, Len(a) > 0, Len(b) \in Nat,
         NEW line \in 0..Len(a) - 1,
         NEW to, to = computeLineMapping(a, b).index_to_buffer,
         NEW l, l = Between(a, to, Sure(to), line, b)
  PROVE  /\ l = NoFile \/ l \in 0..Len(b) - 1
         /\ \A k : OnlyMatch(a, b, line, k) => l = k
<1>1. PICK n \in Nat : n = Len(a) - 1
  OBVIOUS
<1>2. to = [i \in 0..n |-> Up(a, b)[i]]
  <2>1. PICK f : f = [i \in 0..Len(a) - 1 |-> Up(a, b)[i]]
    OBVIOUS
  <2>2. PICK g : computeLineMapping(a, b) = [index_to_buffer |-> f, buffer_to_index |-> g]
    BY <2>1, MappingIs
  <2> QED
    BY <1>1, <2>1, <2>2
<1>3. \A i \in 0..n : to[i] = Up(a, b)[i] /\ Right(a, b, i, to[i])
  BY <1>1, <1>2, UpRight
<1>4. to \in [0..n -> -1..Len(b) - 1] /\ DOMAIN to = 0..n
  BY <1>2, <1>3 DEF Right
<1>5. Sure(to) \in SUBSET (0..n) /\ (\A i \in Sure(to) : to[i] >= 0) /\ line \in 0..n
  BY <1>1, <1>4 DEF Sure
<1>6. PICK u : u = Sure(to)
  OBVIOUS
<1>7. u \in SUBSET (0..n) /\ \A i \in u : to[i] >= 0
  BY <1>5, <1>6
<1>8. l = Between(a, to, u, line, b)
  BY <1>6
<1>9. l = NoFile \/ l \in 0..Len(b) - 1
  BY <1>4, <1>5, <1>7, <1>8, BetweenIs
<1>10. line \in u => l = to[line]
  BY <1>8, SureIs
<1>11. ASSUME NEW k, OnlyMatch(a, b, line, k) PROVE l = k
  <2>1. k \in 0..Len(b) - 1
    BY <1>11 DEF OnlyMatch, Matches
  <2>2. to[line] = k
    BY <1>3, <1>5, <1>11 DEF Right
  <2>3. line \in u
    BY <1>4, <1>5, <1>6, <2>1, <2>2 DEF Sure
  <2> QED
    BY <1>8, <1>10, <2>2, <2>3
<1> QED
  BY <1>8, <1>9, <1>11

\* A place on a line of the buffer; on the only line that is equal, if there is one,
\* at the column that it had.
Follows(a, b, line, column, r) ==
  \E l \in 0..Len(b) - 1, c \in Int :
    r = <<l, c>> /\ \A k : OnlyMatch(a, b, line, k) => l = k /\ c = column

LEMMA PlaceFound ==
  ASSUME NEW a \in Seq(Seq(Byte)), NEW b \in Seq(Seq(Byte)), Len(a) > 0,
         NEW line \in 0..Len(a) - 1, NEW column \in 0..Len(a[line + 1]), NEW is_end,
         NEW r, r = findMatchingLine(a, computeLineMapping(a, b).index_to_buffer, line, column, b, is_end),
         r /= NoFile
  PROVE  Follows(a, b, line, column, r)
<1>1. PICK to, l : to = computeLineMapping(a, b).index_to_buffer /\ l = Between(a, to, Sure(to), line, b)
  OBVIOUS
<1>2. PICK c : c = alignColumn(a[line + 1], column, b[l + 1], is_end)
  OBVIOUS
<1>3. r = IF l = NoFile THEN NoFile ELSE <<l, c>>
  BY <1>1, <1>2 DEF findMatchingLine, Sure
<1>4. Len(a) \in Nat /\ Len(b) \in Nat
  BY LenProperties
<1>5. (l = NoFile \/ l \in 0..Len(b) - 1) /\ \A k : OnlyMatch(a, b, line, k) => l = k
  BY <1>1, <1>4, LineFound
<1>6. l \in 0..Len(b) - 1 /\ r = <<l, c>>
  BY <1>3, <1>5
<1>7. a[line + 1] \in Seq(Byte) /\ b[l + 1] \in Seq(Byte)
  <2>1. line + 1 \in 1..Len(a) /\ l + 1 \in 1..Len(b)
    BY <1>4, <1>6
  <2> QED
    BY <2>1, ElementOfSeq
<1>8. PICK s, t : s = a[line + 1] /\ t = b[l + 1]
  OBVIOUS
<1>9. c \in Int /\ (t = s => c = column)
  <2>1. s \in Seq(Byte) /\ t \in Seq(Byte) /\ column \in 0..Len(s)
    BY <1>7, <1>8
  <2>2. c = alignColumn(s, column, t, is_end)
    BY <1>2, <1>8
  <2> QED
    BY <2>1, <2>2, AlignType
<1>10. ASSUME NEW k, OnlyMatch(a, b, line, k) PROVE l = k /\ c = column
  <2>1. a[line + 1] = b[k + 1]
    BY <1>10 DEF OnlyMatch, Matches
  <2>2. l = k
    BY <1>5, <1>10
  <2>3. t = s
    BY <1>8, <2>1, <2>2
  <2> QED
    BY <1>9, <2>2, <2>3
<1> QED
  BY <1>6, <1>9, <1>10 DEF Follows

\* The end of a range is put after its start.
PutAt(r, h, p, q) ==
  /\ AtOrBefore(r.start, r.end) /\ r.start = p /\ Line(r.start) = Line(p)
  /\ Line(r.end) = Line(q) \/ Line(r.end) - Line(r.start) = h
  /\ AtOrBefore(r.start, q) => r.end = q

LEMMA RemappedIs ==
  ASSUME NEW range, NEW h \in Nat, Line(range.end) - Line(range.start) = h,
         NEW l1 \in Nat, NEW c1 \in Int, NEW l2 \in Nat, NEW c2 \in Int,
         NEW r, r = Remapped(range, <<l1, c1>>, <<l2, c2>>), r /= NoFile
  PROVE  PutAt(r, h, <<l1, c1>>, <<l2, c2>>)
<1> DEFINE x == IF l2 < l1 THEN l1 + h ELSE l2
           y == IF l1 = x /\ c1 > c2 THEN c1 ELSE c2
<1>1. r = RangeOf(<<l1, c1>>, <<x, y>>)
  <2>1. /\ Line(<<l1, c1>>) = l1 /\ Column(<<l1, c1>>) = c1
        /\ Line(<<l2, c2>>) = l2 /\ Column(<<l2, c2>>) = c2
    BY DEF Line, Column
  <2>2. <<l1, c1>> /= NoFile /\ <<l2, c2>> /= NoFile
    BY DEF Remapped
  <2> QED
    BY <2>1, <2>2, Zenon DEF Remapped
<1>2. x \in Nat /\ y \in Int /\ l1 <= x /\ (l1 = x => c1 <= y)
  OBVIOUS
<1>3. x = l2 \/ x - l1 = h
  OBVIOUS
<1>4. l1 < l2 \/ (l1 = l2 /\ c1 <= c2) => x = l2 /\ y = c2
  OBVIOUS
<1> HIDE DEF x, y
<1>5. r.start = <<l1, c1>> /\ r.end = <<x, y>> /\ Line(r.start) = l1 /\ Line(r.end) = x
  BY <1>1 DEF RangeOf, Line
<1>6. AtOrBefore(r.start, r.end)
  BY <1>2, <1>5 DEF AtOrBefore, Before
<1>7. AtOrBefore(r.start, <<l2, c2>>) => l1 < l2 \/ (l1 = l2 /\ c1 <= c2)
  BY <1>5 DEF AtOrBefore, Before
<1>8. Line(<<l1, c1>>) = l1 /\ Line(<<l2, c2>>) = l2
  BY DEF Line
<1> QED
  BY <1>3, <1>4, <1>5, <1>6, <1>7, <1>8 DEF PutAt

\* The places of the index are the columns of its lines and one behind them.
LEMMA PlacesAre ==
  ASSUME NEW a, Len(a) \in Nat, NEW pos \in Places(a)
  PROVE  \/ /\ Line(pos) \in 0..Len(a) - 1 /\ Column(pos) \in 0..Len(a[Line(pos) + 1])
            /\ pos = <<Line(pos), Column(pos)>>
         \/ pos = <<Len(a), 0>> /\ Line(pos) = Len(a) /\ Column(pos) = 0
<1>1. CASE pos = <<Len(a), 0>>
  BY <1>1 DEF Line, Column
<1>2. CASE pos /= <<Len(a), 0>>
  <2> DEFINE Row(line) == {<<line, column>> : column \in 0..Len(a[line + 1])}
             Rows == {Row(line) : line \in 0..Len(a) - 1}
  <2>1. pos \in {<<Len(a), 0>>} \cup UNION Rows
    BY DEF Places
  <2> HIDE DEF Row
  <2>2. \A row \in Rows : \E line \in 0..Len(a) - 1 : row = Row(line)
    OBVIOUS
  <2> HIDE DEF Rows
  <2>3. PICK row \in Rows : pos \in row
    BY <1>2, <2>1
  <2>4. PICK line \in 0..Len(a) - 1 : row = Row(line)
    BY <2>2
  <2>5. PICK column \in 0..Len(a[line + 1]) : pos = <<line, column>>
    BY <2>3, <2>4 DEF Row
  <2>6. Line(pos) = line /\ Column(pos) = column
    BY <2>5 DEF Line, Column
  <2> QED
    BY <2>5, <2>6
<1> QED
  BY <1>1, <1>2

\* Where a place of the index is looked for.
LEMMA PosIs ==
  ASSUME NEW wf, Len(wf.index_lines) \in Nat, NEW c, NEW e
  PROVE  /\ \A line \in 0..Len(wf.index_lines) - 1 :
              getBufferPosFromIndexPos(wf, line, c, e) =
                findMatchingLine(wf.index_lines,
                  computeLineMapping(wf.index_lines, wf.buffer_lines).index_to_buffer,
                  line, c, wf.buffer_lines, e)
         /\ getBufferPosFromIndexPos(wf, Len(wf.index_lines), 0, e) = <<Len(wf.buffer_content), 0>>
<1>1. ASSUME NEW line \in 0..Len(wf.index_lines) - 1
      PROVE  getBufferPosFromIndexPos(wf, line, c, e) =
               findMatchingLine(wf.index_lines,
                 computeLineMapping(wf.index_lines, wf.buffer_lines).index_to_buffer,
                 line, c, wf.buffer_lines, e)
  <2>1. line /= Len(wf.index_lines)
    BY <1>1
  <2> QED
    BY <2>1, Zenon DEF getBufferPosFromIndexPos
<1>2. getBufferPosFromIndexPos(wf, Len(wf.index_lines), 0, e) = <<Len(wf.buffer_content), 0>>
  BY DEF getBufferPosFromIndexPos
<1> QED
  BY <1>1, <1>2

\* A place of the index, found again: on a line of the buffer and, on a line that is
\* the only one of its kind, where it was; or at the size of the buffer.
FoundAt(wf, pos, r) ==
  \E l \in Nat, c \in Int :
    /\ r = <<l, c>>
    /\ \/ /\ Line(pos) \in 0..Len(wf.index_lines) - 1 /\ l < Len(wf.buffer_lines)
          /\ \A k : OnlyMatch(wf.index_lines, wf.buffer_lines, Line(pos), k) =>
                     l = k /\ c = Column(pos)
       \/ Line(pos) = Len(wf.index_lines) /\ l = Len(wf.buffer_content)

LEMMA PosFound ==
  ASSUME NEW wf, wf.index_lines /= <<>>, Len(wf.buffer_content) \in Nat,
         wf.index_lines \in Seq(Seq(Byte)), wf.buffer_lines \in Seq(Seq(Byte)),
         NEW pos \in Places(wf.index_lines), NEW e, NEW r,
         r = getBufferPosFromIndexPos(wf, Line(pos), Column(pos), e), r /= NoFile
  PROVE  FoundAt(wf, pos, r)
<1>1. PICK a, b : a = wf.index_lines /\ b = wf.buffer_lines
  OBVIOUS
<1>2. a \in Seq(Seq(Byte)) /\ b \in Seq(Seq(Byte)) /\ a /= <<>> /\ pos \in Places(a)
  BY <1>1
<1>3. Len(a) \in Nat /\ Len(b) \in Nat /\ Len(a) > 0
  <2>1. Len(a) \in Nat /\ Len(b) \in Nat
    BY <1>2, LenProperties
  <2> QED
    BY <1>2, <2>1
<1>4. CASE Line(pos) \in 0..Len(a) - 1
  <2>1. Column(pos) \in 0..Len(a[Line(pos) + 1])
    BY <1>2, <1>3, <1>4, PlacesAre
  <2>2. r = findMatchingLine(a, computeLineMapping(a, b).index_to_buffer, Line(pos), Column(pos), b, e)
    BY <1>1, <1>3, <1>4, PosIs
  <2>3. Follows(a, b, Line(pos), Column(pos), r)
    BY <1>2, <1>3, <1>4, <2>1, <2>2, PlaceFound
  <2>4. PICK l \in 0..Len(b) - 1, c \in Int :
          r = <<l, c>> /\ \A k : OnlyMatch(a, b, Line(pos), k) => l = k /\ c = Column(pos)
    BY <2>3 DEF Follows
  <2>5. l \in Nat /\ l < Len(b)
    BY <1>3
  <2> QED
    BY <1>1, <1>4, <2>4, <2>5 DEF FoundAt
<1>5. CASE Line(pos) \notin 0..Len(a) - 1
  <2>1. Line(pos) = Len(a) /\ Column(pos) = 0
    BY <1>2, <1>3, <1>5, PlacesAre
  <2>2. r = <<Len(wf.buffer_content), 0>>
    BY <1>1, <1>3, <2>1, PosIs
  <2> QED
    BY <1>1, <2>1, <2>2 DEF FoundAt
<1> QED
  BY <1>4, <1>5

LEMMA FollowsText ==
  ASSUME NEW wf, wf /= NoFile, wf.index_lines /= <<>>, Len(wf.buffer_content) \in Nat,
         wf.index_lines \in Seq(Seq(Byte)), wf.buffer_lines \in Seq(Seq(Byte)),
         NEW from \in Places(wf.index_lines), NEW to \in Places(wf.index_lines),
         Line(from) < Len(wf.index_lines), AtOrBefore(from, to)
  PROVE  RangeFollows(wf, from, to, getLsRange(wf, RangeOf(from, to)))
<1>1. PICK a, b : a = wf.index_lines /\ b = wf.buffer_lines
  OBVIOUS
<1>2. Len(a) \in Nat /\ Len(b) \in Nat
  BY <1>1, LenProperties
<1>3. /\ Line(from) \in 0..Len(a) - 1 /\ Column(from) \in Int
      /\ Line(to) \in 0..Len(a) /\ Line(from) <= Line(to) /\ to = <<Line(to), Column(to)>>
  <2>1. Line(from) \in 0..Len(a) - 1 /\ Column(from) \in 0..Len(a[Line(from) + 1])
    BY <1>1, <1>2, PlacesAre
  <2>2. Line(to) \in 0..Len(a) /\ to = <<Line(to), Column(to)>>
    BY <1>1, <1>2, PlacesAre
  <2>3. Line(from) <= Line(to)
    BY <1>2, <2>1, <2>2 DEF AtOrBefore, Before, Line
  <2> QED
    BY <2>1, <2>2, <2>3
<1>4. PICK h \in Nat : h = Line(to) - Line(from)
  BY <1>2, <1>3
<1>5. PICK range : range = RangeOf(from, to)
  OBVIOUS
<1>6. range.start = from /\ range.end = to
  BY <1>5 DEF RangeOf
<1>7. PICK s, e : /\ s = getBufferPosFromIndexPos(wf, Line(from), Column(from), FALSE)
                  /\ e = getBufferPosFromIndexPos(wf, Line(to), Column(to), TRUE)
  OBVIOUS
<1>8. PICK r : r = getLsRange(wf, range)
  OBVIOUS
<1>9. r = Remapped(range, s, e)
  BY <1>6, <1>7, <1>8, Zenon DEF getLsRange
<1>10. CASE r = NoFile
  BY <1>5, <1>8, <1>10 DEF RangeFollows
<1>11. CASE r /= NoFile
  <2>1. s /= NoFile /\ e /= NoFile
    BY <1>9, <1>11 DEF Remapped
  <2>2. PICK l1 \in Nat, c1 \in Int :
          /\ s = <<l1, c1>>
          /\ \/ /\ l1 < Len(b)
                /\ \A k : OnlyMatch(a, b, Line(from), k) => l1 = k /\ c1 = Column(from)
             \/ Line(from) = Len(a)
    <3>1. FoundAt(wf, from, s)
      BY <1>7, <2>1, PosFound
    <3> QED
      BY <1>1, <3>1 DEF FoundAt
  <2>3. PICK l2 \in Nat, c2 \in Int :
          /\ e = <<l2, c2>>
          /\ \/ /\ Line(to) \in 0..Len(a) - 1 /\ l2 < Len(b)
                /\ \A k : OnlyMatch(a, b, Line(to), k) => l2 = k /\ c2 = Column(to)
             \/ Line(to) = Len(a) /\ l2 = Len(wf.buffer_content)
    <3>1. FoundAt(wf, to, e)
      BY <1>7, <2>1, PosFound
    <3> QED
      BY <1>1, <3>1 DEF FoundAt
  <2>4. r = Remapped(range, <<l1, c1>>, <<l2, c2>>)
    BY <1>9, <2>2, <2>3
  <2>5. Line(range.end) - Line(range.start) = h
    BY <1>4, <1>6
  <2>6. /\ AtOrBefore(r.start, r.end) /\ r.start = <<l1, c1>> /\ Line(r.start) = l1
        /\ Line(r.end) = l2 \/ Line(r.end) - Line(r.start) = h
        /\ AtOrBefore(r.start, <<l2, c2>>) => r.end = <<l2, c2>>
    <3>1. PutAt(r, h, <<l1, c1>>, <<l2, c2>>)
      BY <1>11, <2>4, <2>5, RemappedIs
    <3>2. Line(<<l1, c1>>) = l1 /\ Line(<<l2, c2>>) = l2
      BY DEF Line
    <3> QED
      BY <3>1, <3>2 DEF PutAt
  <2>7. Line(from) /= Len(a)
    BY <1>2, <1>3
  <2>8. /\ Line(r.start) < Len(b)
        /\ \A k : OnlyMatch(a, b, Line(from), k) => r.start = <<k, Column(from)>>
    BY <2>2, <2>6, <2>7
  <2>9. \/ Line(r.end) < Len(b)
        \/ Line(r.end) - Line(r.start) = Line(to) - Line(from)
        \/ Line(to) = Len(a) /\ Line(r.end) = Len(wf.buffer_content)
    BY <1>4, <2>3, <2>6
  <2>10. ASSUME NEW k, Line(to) < Len(a), OnlyMatch(a, b, Line(to), k),
                AtOrBefore(r.start, <<k, Column(to)>>)
         PROVE  r.end = <<k, Column(to)>>
    <3>1. Line(to) /= Len(a)
      BY <1>2, <1>3, <2>10
    <3>2. l2 = k /\ c2 = Column(to)
      BY <2>3, <2>10, <3>1
    <3> QED
      BY <2>6, <2>10, <3>2
  <2>11. RangeFollows(wf, from, to, r)
    <3> HIDE DEF RangeFollows
    <3>1. \A j \in 0..Len(b) - 1 : OnlyMatch(a, b, Line(from), j) => r.start = <<j, Column(from)>>
      BY <2>8
    <3>2. \A j \in 0..Len(b) - 1 :
            (/\ Line(to) < Len(a) /\ OnlyMatch(a, b, Line(to), j)
             /\ AtOrBefore(r.start, <<j, Column(to)>>)) => r.end = <<j, Column(to)>>
      BY <2>10
    <3> QED
      BY <1>1, <2>6, <2>8, <2>9, <3>1, <3>2, Zenon DEF RangeFollows
  <2> QED
    BY <1>5, <1>8, <2>11
<1> QED
  BY <1>10, <1>11

----------------------------------------------------------------------------
(* The lines of the index *)

LinesInv ==
  /\ events \in Nat
  /\ indexed \in [Paths -> Seq(Byte) \cup {NoFile}]
  /\ \A path \in DOMAIN files :
       files[path].version \in Nat /\ files[path].index_lines \in Seq(Seq(Byte))

LEMMA IndexedFields ==
  ASSUME NEW wf, NEW t, Holds(wf, t), NEW content
  PROVE  /\ setIndexContent(wf, content).version = wf.version
         /\ setIndexContent(wf, content).index_lines = toLines(content)
<1>1. PICK v, x, b, l : wf = [version |-> v, buffer_content |-> b, buffer_lines |-> l,
                              index_lines |-> x]
  BY Zenon DEF Holds
<1>2. PICK y : y = toLines(content)
  OBVIOUS
<1>3. setIndexContent(wf, content) = [wf EXCEPT !.index_lines = y]
  BY <1>2 DEF setIndexContent
<1> QED
  BY <1>1, <1>2, <1>3

LEMMA UpdatedFields ==
  ASSUME NEW wf, NEW t, Holds(wf, t), NEW content, NEW version
  PROVE  /\ [onBufferContentUpdated(wf, content) EXCEPT !.version = version].version = version
         /\ [onBufferContentUpdated(wf, content) EXCEPT !.version = version].index_lines = wf.index_lines
<1>1. PICK v, x, b, l : wf = [version |-> v, buffer_content |-> b, buffer_lines |-> l,
                              index_lines |-> x]
  BY Zenon DEF Holds
<1>2. PICK y : y = toLines(content)
  OBVIOUS
<1>3. PICK q : q = onBufferContentUpdated(wf, content)
  OBVIOUS
<1>4. q = [[wf EXCEPT !.buffer_content = content] EXCEPT !.buffer_lines = y]
  BY <1>1, <1>2, <1>3 DEF onBufferContentUpdated
<1>5. "version" \in DOMAIN q /\ q.index_lines = wf.index_lines
  BY <1>1, <1>4
<1>6. /\ [q EXCEPT !.version = version].version = version
      /\ [q EXCEPT !.version = version].index_lines = q.index_lines
  BY <1>5
<1> QED
  BY <1>3, <1>5, <1>6

LEMMA LinesOfText ==
  ASSUME NEW t \in Texts
  PROVE  Bytes(t) \in Seq(Byte) /\ toLines(Bytes(t)) \in Seq(Seq(Byte))
BY TextBytes, LinesType

LEMMA InitLines == Init => LinesInv
BY DEF Init, LinesInv

\* A file that has changed keeps the lines of its index.
LEMMA ChangeKeepsLines ==
  ASSUME FilesInv, LinesInv, NEW path \in DOMAIN files, NEW version, version = NoFile \/ version \in Nat,
         NEW contentChanges, files' = onChange(files, path, version, contentChanges),
         indexed' = indexed, events' = events + 1
  PROVE  LinesInv'
<1>1. PICK c : c = Changed(files[path].buffer_content, contentChanges)
  OBVIOUS
<1>2. PICK v : v = IF version = NoFile THEN files[path].version ELSE version
  OBVIOUS
<1>3. v \in Nat
  BY <1>2 DEF LinesInv
<1>4. PICK wf : wf = [onBufferContentUpdated(files[path], c) EXCEPT !.version = v]
  OBVIOUS
<1>5. files' = [files EXCEPT ![path] = wf]
  BY <1>1, <1>2, <1>4, Zenon DEF onChange
<1>6. wf.version = v /\ wf.index_lines = files[path].index_lines
  BY <1>4, UpdatedFields DEF FilesInv
<1>7. ASSUME NEW p \in DOMAIN files'
      PROVE  files'[p].version \in Nat /\ files'[p].index_lines \in Seq(Seq(Byte))
  <2>1. p \in DOMAIN files /\ files'[p] = IF p = path THEN wf ELSE files[p]
    BY <1>5
  <2> QED
    BY <1>3, <1>6, <2>1 DEF LinesInv
<1> QED
  BY <1>7 DEF LinesInv

LEMMA didOpenKeepsLines ==
  ASSUME TextsInv, FilesInv, LinesInv, NEW path \in Paths, didOpen(path)
  PROVE  LinesInv'
<1>1. path \notin DOMAIN files /\ indexed' = indexed /\ events' = events
  BY DEF didOpen, IsOpen
<1>2. PICK wf : wf = NewWorkingFile(Bytes(doc[path]))
  OBVIOUS
<1>3. PICK x : x = setIndexContent(wf, indexed[path])
  OBVIOUS
<1>4. Holds(wf, doc[path])
  BY <1>2, HoldsNew
<1>5. wf.version = 0 /\ wf.index_lines = <<>>
  BY <1>2 DEF NewWorkingFile
<1>6. x.version = 0 /\ x.index_lines = toLines(indexed[path])
  BY <1>3, <1>4, <1>5, IndexedFields
<1> DEFINE opened == [p \in DOMAIN files \cup {path} |-> IF p = path THEN wf ELSE files[p]]
<1>7. onOpen(files, path, 1, Bytes(doc[path])) = opened
  BY <1>1, <1>2 DEF onOpen
<1>8. opened[path] = wf /\ DOMAIN opened = DOMAIN files \cup {path}
      /\ \A p \in DOMAIN files : opened[p] = files[p]
  BY <1>1
<1> HIDE DEF opened
<1>9. CASE indexed[path] = NoFile
  <2>1. files' = opened
    BY <1>7, <1>9 DEF didOpen
  <2>2. ASSUME NEW p \in DOMAIN files'
        PROVE  files'[p].version \in Nat /\ files'[p].index_lines \in Seq(Seq(Byte))
    <3>1. CASE p = path
      <4>1. files'[p] = wf
        BY <1>8, <2>1, <3>1
      <4>2. <<>> \in Seq(Seq(Byte))
        OBVIOUS
      <4>3. wf.version \in Nat
        BY <1>5
      <4>4. wf.index_lines \in Seq(Seq(Byte))
        BY <1>5, <4>2, Zenon
      <4> QED
        BY <4>1, <4>3, <4>4, Zenon
    <3>2. CASE p /= path
      BY <1>8, <2>1, <3>2 DEF LinesInv
    <3> QED
      BY <3>1, <3>2
  <2> QED
    BY <1>1, <2>2 DEF LinesInv
<1>10. CASE indexed[path] /= NoFile
  <2>1. files' = [opened EXCEPT ![path] = x]
    BY <1>3, <1>7, <1>8, <1>10 DEF didOpen
  <2>2. indexed[path] \in Seq(Byte)
    BY <1>10 DEF LinesInv
  <2>3. x.index_lines \in Seq(Seq(Byte))
    BY <1>6, <2>2, LinesType
  <2>4. ASSUME NEW p \in DOMAIN files'
        PROVE  files'[p].version \in Nat /\ files'[p].index_lines \in Seq(Seq(Byte))
    <3>1. CASE p = path
      BY <1>6, <1>8, <2>1, <2>3, <3>1
    <3>2. CASE p /= path
      BY <1>8, <2>1, <3>2 DEF LinesInv
    <3> QED
      BY <3>1, <3>2
  <2> QED
    BY <1>1, <2>4 DEF LinesInv
<1> QED
  BY <1>9, <1>10

LEMMA IndexedKeepsLines ==
  ASSUME TextsInv, FilesInv, LinesInv, NEW path \in Paths, Indexed(path)
  PROVE  LinesInv'
<1>1. PICK c : c = Bytes(doc[path])
  OBVIOUS
<1>2. c \in Seq(Byte) /\ toLines(c) \in Seq(Seq(Byte))
  BY <1>1, LinesOfText DEF TextsInv
<1>3. indexed' = [indexed EXCEPT ![path] = c] /\ events' = events + 1
  BY <1>1 DEF Indexed, Event, Counted
<1>4. indexed' \in [Paths -> Seq(Byte) \cup {NoFile}] /\ events' \in Nat
  BY <1>2, <1>3 DEF LinesInv
<1>5. CASE path \notin DOMAIN files
  <2>1. files' = files
    BY <1>5 DEF Indexed, IsOpen
  <2> QED
    BY <1>4, <2>1 DEF LinesInv
<1>6. CASE path \in DOMAIN files
  <2>1. PICK x : x = setIndexContent(files[path], c)
    OBVIOUS
  <2>2. files' = [files EXCEPT ![path] = x]
    BY <1>1, <1>6, <2>1 DEF Indexed, IsOpen
  <2>3. x.version = files[path].version /\ x.index_lines = toLines(c)
    BY <1>6, <2>1, IndexedFields DEF FilesInv
  <2>4. ASSUME NEW p \in DOMAIN files'
        PROVE  files'[p].version \in Nat /\ files'[p].index_lines \in Seq(Seq(Byte))
    <3>1. p \in DOMAIN files /\ files'[p] = IF p = path THEN x ELSE files[p]
      BY <2>2
    <3> QED
      BY <1>2, <2>3, <3>1 DEF LinesInv
  <2> QED
    BY <1>4, <2>4 DEF LinesInv
<1> QED
  BY <1>5, <1>6

LEMMA NextLines == Inv /\ LinesInv /\ [Next]_vars => LinesInv'
<1> SUFFICES ASSUME Inv, LinesInv, [Next]_vars PROVE LinesInv'
  OBVIOUS
<1>1. TextsInv /\ FilesInv
  BY DEF Inv
<1>2. ASSUME UNCHANGED <<files, indexed>>, events' = events \/ events' = events + 1 PROVE LinesInv'
  BY <1>2 DEF LinesInv
<1>3. ASSUME NEW path \in Paths, didOpen(path) PROVE LinesInv'
  BY <1>1, <1>3, didOpenKeepsLines
<1>4. ASSUME NEW path \in Paths, didChange(path) PROVE LinesInv'
  <2>1. path \in DOMAIN files /\ indexed' = indexed /\ events' = events + 1
    BY <1>4 DEF didChange, Change, Counted, IsOpen
  <2>2. PICK cc : files' = onChange(files, path, NoFile, cc)
    BY <1>4, Zenon DEF didChange
  <2> QED
    BY <1>1, <2>1, <2>2, ChangeKeepsLines
<1>5. ASSUME NEW path \in Paths, didChangeTwice(path) PROVE LinesInv'
  <2>1. path \in DOMAIN files /\ indexed' = indexed /\ events' = events + 1
    BY <1>5 DEF didChangeTwice, Change, Counted, IsOpen
  <2>2. PICK cc : files' = onChange(files, path, events, cc)
    BY <1>5, Zenon DEF didChangeTwice
  <2>3. events \in Nat
    BY DEF LinesInv
  <2> QED
    BY <1>1, <2>1, <2>2, <2>3, ChangeKeepsLines
<1>6. ASSUME NEW path \in Paths, didClose(path) PROVE LinesInv'
  <2>1. /\ files' = [p \in DOMAIN files \ {path} |-> files[p]]
        /\ indexed' = indexed /\ events' = events + 1
    BY <1>6 DEF didClose, onClose, Restrict, Event, Counted
  <2> QED
    BY <2>1 DEF LinesInv
<1>7. ASSUME NEW path \in Paths, Indexed(path) PROVE LinesInv'
  BY <1>1, <1>7, IndexedKeepsLines
<1>8. ASSUME NEW path \in Paths, NEW kind \in Kinds, Request(kind, path) PROVE LinesInv'
  <2>1. UNCHANGED <<files, indexed>> /\ events' = events + 1
    BY <1>8, Zenon DEF Request, Event, Counted
  <2> QED
    BY <1>2, <2>1
<1>9. ASSUME NEW path \in Paths,
             \/ textDocument_formatting(path) \/ textDocument_rangeFormatting(path)
             \/ textDocument_onTypeFormatting(path)
      PROVE  LinesInv'
  <2>1. UNCHANGED <<files, indexed>> /\ events' = events + 1
    BY <1>9, Zenon DEF textDocument_formatting, textDocument_rangeFormatting,
                       textDocument_onTypeFormatting, CanFormat, Event, Counted
  <2> QED
    BY <1>2, <2>1
<1>10. CASE ReadCache \/ CompDone \/ CompDrop
  <2>1. UNCHANGED <<files, indexed>> /\ events' = events
    BY <1>10, Zenon DEF ReadCache, CompDone, CompDrop
  <2> QED
    BY <1>2, <2>1
<1>11. CASE UNCHANGED vars
  BY <1>2, <1>11 DEF vars
<1> QED
  BY <1>3, <1>4, <1>5, <1>6, <1>7, <1>8, <1>9, <1>10, <1>11 DEF Next

\* Whatever was typed since the index was made, the lines it maps are equal in both
\* texts, and a range of the index that is shown, over one line or several, begins in
\* the buffer, never ends before it begins, and keeps its ends where they are on lines
\* that are still the only ones of their kind, unless the end now lies before the
\* start; what may reach beyond the buffer is a range that kept its height, or one
\* that ends behind the last line (working_files.cc:243 computeLineMapping, :318
\* getBufferPosFromIndexPos, query.cc getLsRange).
THEOREM RangesFollow == Spec => []RangesFollowText
<1>1. Inv /\ LinesInv => RangesFollowText
  <2> SUFFICES ASSUME Inv, LinesInv, NEW path \in DOMAIN files, NEW wf, wf = files[path],
                      wf.index_lines /= <<>>
               PROVE  /\ MappingSound(wf)
                      /\ \A from, to \in Places(wf.index_lines) :
                           Line(from) < Len(wf.index_lines) /\ AtOrBefore(from, to) =>
                             RangeFollows(wf, from, to, getLsRange(wf, RangeOf(from, to)))
    BY DEF RangesFollowText
  <2>1. path \in Paths /\ doc[path] \in Texts /\ Holds(wf, doc[path])
    BY DEF Inv, TextsInv, FilesInv
  <2>2. PICK b, l : b = Bytes(doc[path]) /\ l = toLines(Bytes(doc[path]))
    OBVIOUS
  <2>3. b \in Seq(Byte) /\ l \in Seq(Seq(Byte))
    BY <2>1, <2>2, LinesOfText
  <2>4. PICK v, x : wf = [version |-> v, buffer_content |-> b, buffer_lines |-> l, index_lines |-> x]
    BY <2>1, <2>2, Zenon DEF Holds
  <2>5. v \in Nat /\ x \in Seq(Seq(Byte))
    <3>1. wf.version = v /\ wf.index_lines = x
      BY <2>4
    <3>2. files[path].version \in Nat /\ files[path].index_lines \in Seq(Seq(Byte))
      BY DEF LinesInv
    <3> QED
      BY <3>1, <3>2
  <2>6. wf /= NoFile
    BY <2>3, <2>4, <2>5, NoFileAssumption DEF Byte
  <2>7. wf.index_lines \in Seq(Seq(Byte)) /\ wf.buffer_lines \in Seq(Seq(Byte))
    BY <2>3, <2>4, <2>5
  <2>8. Len(wf.index_lines) \in Nat /\ Len(wf.buffer_lines) \in Nat /\ Len(wf.index_lines) > 0
    <3>1. Len(wf.index_lines) \in Nat /\ Len(wf.buffer_lines) \in Nat
      BY <2>7, LenProperties
    <3> QED
      BY <2>7, <3>1
  <2>9. MappingSound(wf)
    BY <2>8, MappingIsSound
  <2>10. Len(wf.buffer_content) \in Nat
    BY <2>3, <2>4, LenProperties
  <2> QED
    BY <2>6, <2>7, <2>9, <2>10, FollowsText
<1>2. Spec => []LinesInv
  BY InitLines, NextLines, Invariant, PTL DEF Spec
<1> QED
  BY <1>1, <1>2, Invariant, PTL
=============================================================================
