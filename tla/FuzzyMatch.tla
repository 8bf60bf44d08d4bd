----------------------------- MODULE FuzzyMatch -----------------------------
(***************************************************************************)
(* The fuzzy matcher of completion items and workspace symbols             *)
(* (fuzzy_match.cc FuzzyMatcher, utils.cc reverseSubseqMatch), and the     *)
(* definition it is to compute: the best score of an alignment of the      *)
(* pattern to the text.  Words are sequences of bytes; the indices i and j *)
(* count from one here.                                                    *)
(***************************************************************************)
EXTENDS Integers, Sequences, FiniteSetsExt, SequencesExt

CONSTANT kMaxText   \* texts that are longer are not scored

IsUpper(c) == c \in 65..90
IsLower(c) == c \in 97..122
Lowered(c) == IF IsUpper(c) THEN c + 32 ELSE c
AnyUpper(word) == \E k \in 1..Len(word) : IsUpper(word[k])

kMinScore == -536870912   \* INT_MIN / 4

\* An option of 1 means: sensitive to case if the pattern has a capital.
Sensitivity(option, pat) ==
  IF option = 1 THEN IF AnyUpper(pat) THEN 2 ELSE 0 ELSE option

\* calculateRoles: the first letter of a word is its head; U(U)L is Head while
\* U(U)U is Tail.
Role_(word, k) ==
  LET pre == IF k = 1 THEN 0 ELSE word[k - 1]
      \* For the last character suc is what it was before: its own class.
      suc == IF k = Len(word) THEN word[k] ELSE word[k + 1]
  IN IF ~IsLower(word[k]) /\ ~IsUpper(word[k]) THEN "None"
     ELSE IF \/ ~IsLower(pre) /\ ~IsUpper(pre)
             \/ IsUpper(word[k]) /\ (IsLower(pre) \/ IsLower(suc)) THEN "Head"
     ELSE "Tail"

Roles(word) == [k \in 1..Len(word) |-> Role_(word, k)]

\* The constructor drops the spaces of the pattern but not the roles the
\* letters have beside them.
Pattern(pattern, option) ==
  LET kept == SetToSortSeq({k \in 1..Len(pattern) : pattern[k] /= 32}, <)
  IN [pat |-> [k \in 1..Len(kept) |-> pattern[kept[k]]],
      role |-> [k \in 1..Len(kept) |-> Role_(pattern, kept[k])],
      upper |-> AnyUpper(pattern),
      sensitivity |-> Sensitivity(option, pattern)]

missScore(text, j, last) ==
  -3 - (IF last THEN 10 ELSE 0) - (IF Role_(text, j) = "Head" THEN 10 ELSE 0)

matchScore(p, text, i, j, last) ==
  LET role == Role_(text, j)
  IN (IF p.pat[i] = text[j] THEN IF p.upper \/ i = j THEN 2 ELSE 1 ELSE 0)
     + (IF p.role[i] /= "Head" THEN 0
        ELSE CASE role = "Head" -> 30 [] role = "Tail" -> -10 [] OTHER -> 0)
     - (IF role = "Tail" /\ i > 1 /\ ~last THEN 30 ELSE 0)
     - (IF role = "Tail" /\ i = 1 THEN 40 ELSE 0)

\* Letter i of the pattern may be aligned to letter j of the text.
CanMatch(p, text, i, j) ==
  IF p.sensitivity /= 0 THEN p.pat[i] = text[j]
  ELSE /\ Lowered(p.pat[i]) = Lowered(text[j])
       /\ i > 1 \/ Role_(text, j) /= "Tail" \/ p.pat[i] = text[j]

\* The row of the table before any letter of the pattern is aligned.
FirstRow(text) ==
  LET miss[j \in 0..Len(text)] == IF j = 0 THEN 0 ELSE miss[j - 1] + missScore(text, j, FALSE)
  IN [j \in 0..Len(text) |-> <<miss[j], IF j = 0 THEN 0 ELSE 2 * kMinScore>>]

\* The row after letter i: the best score if letter j is skipped, if it is aligned.
\* What is left of it was written for letter i - 2, or never, and is not read.
NextRow(p, text, pre, i) ==
  LET cur[j \in (i - 1)..Len(text)] ==
        IF j = i - 1 THEN <<kMinScore, kMinScore>>
        ELSE <<Max({cur[j - 1][1] + missScore(text, j, FALSE),
                    cur[j - 1][2] + missScore(text, j, TRUE)}),
               IF CanMatch(p, text, i, j)
               THEN Max({pre[j - 1][1] + matchScore(p, text, i, j, FALSE),
                         pre[j - 1][2] + matchScore(p, text, i, j, TRUE)})
               ELSE 2 * kMinScore>>
  IN [j \in (i - 1)..Len(text) |-> cur[j]]

\* match: every letter behind the last aligned one costs two.
match(p, text, strict) ==
  LET n == Len(text)
      m == Len(p.pat)
      Row(pre, i) == NextRow(p, text, pre, i)
      last == FoldLeft(Row, FirstRow(text), [i \in 1..m |-> i])
  IN IF (p.pat = <<>>) /= (text = <<>>) THEN kMinScore
     ELSE IF n > kMaxText THEN kMinScore + 1
     ELSE IF strict /\ n > 0 /\ (p.role[1] = "None") /= (Role_(text, 1) = "None")
          THEN kMinScore
     ELSE IF m > n THEN kMinScore
     ELSE Max({kMinScore} \cup {last[j][2] - 2 * (n - j) : j \in m..n})

\* reverseSubseqMatch: the place in the text where the pattern begins if its
\* letters are looked for from the end, -1 if one is not found.
reverseSubseqMatch(pat, text, option) ==
  LET sensitive == Sensitivity(option, pat) /= 0
      Same(c, d) == IF sensitive THEN c = d ELSE Lowered(c) = Lowered(d)
      \* what is left of the pattern when text[i + 1..] has been seen
      left[i \in 0..Len(text)] ==
        IF i = Len(text) THEN Len(pat)
        ELSE LET j == left[i + 1]
             IN IF j > 0 /\ Same(text[i + 1], pat[j]) THEN j - 1 ELSE j
      found == {i \in 0..Len(text) : left[i] = 0}
  IN IF pat = <<>> THEN Len(text) ELSE IF found = {} THEN -1 ELSE Max(found)

----------------------------------------------------------------------------
(* The definition *)

Alignments(p, text) ==
  {f \in [1..Len(p.pat) -> 1..Len(text)] :
     /\ \A i \in 1..Len(p.pat) : CanMatch(p, text, i, f[i])
     /\ \A i, k \in 1..Len(p.pat) : i < k => f[i] < f[k]}

AlignmentScore(p, text, f) ==
  LET m == Len(p.pat)
      aligned == {f[i] : i \in 1..m}
      Cost(j) == IF j \in aligned
                 THEN LET i == CHOOSE i \in 1..m : f[i] = j
                      IN matchScore(p, text, i, j, j - 1 \in aligned)
                 ELSE missScore(text, j, j - 1 \in aligned)
  IN MapThenSumSet(Cost, 1..f[m]) - 2 * (Len(text) - f[m])

BestScore(p, text) == Max({AlignmentScore(p, text, f) : f \in Alignments(p, text)})
============================================================================
