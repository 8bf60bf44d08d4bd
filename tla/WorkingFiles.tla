---------------------------- MODULE WorkingFiles ----------------------------
(***************************************************************************)
(* The functions of working_files.cc: the texts of open files, how changes *)
(* are applied to them, and the mapping between the lines of the text that *)
(* was indexed and the lines of the buffer, which every handler applies to *)
(* positions that come from the client and to ranges that go to it.        *)
(*                                                                         *)
(* A text is a sequence of bytes.  Offsets, lines and columns count from   *)
(* zero as in the code, the elements of sequences from one.                *)
(***************************************************************************)
EXTENDS Ranges, Sequences, FiniteSetsExt, SequencesExt

CONSTANTS
  NoFile,               \* a file that is not open, an absent optional
  kMaxDiff,             \* limit of the edit distance between matched lines
  kMaxColumnAlignSize   \* limit of the lengths of lines that are aligned

ASSUME LimitsAssumption == kMaxDiff \in Nat /\ kMaxColumnAlignSize \in Nat

Newline == 10
CarriageReturn == 13
Colon == 58

\* clang's isAsciiIdentifierContinue
isAsciiIdentifierContinue(byte) ==
  byte \in (48..57) \cup (65..90) \cup {95} \cup (97..122)

\* 0b10xxxxxx, the later bytes of a character in UTF-8
IsContinuation(byte) == byte \in 128..191

Minimum(m, n) == IF m < n THEN m ELSE n
Maximum(m, n) == IF m < n THEN n ELSE m

----------------------------------------------------------------------------
(* Offsets *)

\* The position of the last byte stands for any offset past it.
getPositionForOffset(content, offset) ==
  LET to == IF offset >= Len(content) THEN Len(content) - 1 ELSE offset
      newlines == {i \in 1..to : content[i] = Newline}
  IN IF newlines = {} THEN <<0, Maximum(to, 0)>>
     ELSE <<Cardinality(newlines), to - Max(newlines)>>

Newlines(content) == {i \in 1..Len(content) : content[i] = Newline}
NthNewline(content, n) ==
  CHOOSE i \in Newlines(content) : Cardinality({j \in Newlines(content) : j <= i}) = n

\* Past as many newlines as the line says, or to the end; then over as many
\* characters as the column says, or to the end of the line.
getOffsetForPosition(pos, content) ==
  LET begin == IF Line(pos) <= 0 THEN 0
               ELSE IF Line(pos) > Cardinality(Newlines(content)) THEN Len(content)
               ELSE NthNewline(content, Line(pos))
      limit == Min({i \in Newlines(content) : i > begin} \cup {Len(content) + 1}) - 1
      Starts(i) == /\ begin < i /\ i <= limit
                   /\ i = begin + 1 \/ ~IsContinuation(content[i]) \/ content[i - 1] < 128
      Past(n) == Cardinality({i \in 1..n : Starts(i)})
  IN Max({n \in begin..limit : Past(n) <= Maximum(Column(pos), 0)})

\* toLines: what is behind the last newline is a line only if it is not empty.
toLines(content) ==
  LET count == Cardinality(Newlines(content))
      end == [k \in 0..count |-> IF k = 0 THEN 0 ELSE NthNewline(content, k)]
      upto(k) == IF end[k] > 1 /\ content[end[k] - 1] = CarriageReturn
                 THEN end[k] - 2 ELSE end[k] - 1
      last == end[count] + 1
  IN [k \in 1..count |-> SubSeq(content, end[k - 1] + 1, upto(k))]
       \o (IF last <= Len(content) THEN <<SubSeq(content, last, Len(content))>> ELSE <<>>)

\* Back over the identifier before the cursor, which is the filter.
getCompletionPosition(content, pos) ==
  LET start == getOffsetForPosition(pos, content)
      stops == {i \in 1..start : ~isAsciiIdentifierContinue(content[i])}
      i == IF stops = {} THEN 0 ELSE Max(stops)
  IN [pos |-> getPositionForOffset(content, i), filter |-> SubSeq(content, i + 1, start)]

\* The identifier around the cursor, with the qualifiers before it.
lexIdentifierAroundPos(pos, content) ==
  LET offset == getOffsetForPosition(pos, content)
      back[i \in 0..Len(content)] ==
        IF i = 0 THEN 0
        ELSE IF content[i] = Colon /\ i > 1 /\ content[i - 1] = Colon THEN back[i - 2]
        ELSE IF isAsciiIdentifierContinue(content[i]) THEN back[i - 1] ELSE i
      stops == {i \in (offset + 2)..Len(content) : ~isAsciiIdentifierContinue(content[i])}
      end == Min(stops \cup {Len(content) + 1}) - 1
  IN SubSeq(content, back[offset] + 1, end)

----------------------------------------------------------------------------
(* Distances *)

\* editDistanceVector: d[j] is the number of insertions and deletions that turn
\* a into the first j elements of b.
editDistanceVector(a, b) ==
  LET Row(d, i) ==
        LET new[j \in 0..Len(b)] ==
              IF j = 0 THEN i
              ELSE IF a[i] = b[j] THEN d[j - 1] ELSE 1 + Minimum(new[j - 1], d[j])
        IN [j \in 0..Len(b) |-> new[j]]
      row[i \in 0..Len(a)] == IF i = 0 THEN [j \in 0..Len(b) |-> j] ELSE Row(row[i - 1], i)
  IN row[Len(a)]

\* The lengths of the common prefix and of the common suffix of two lines.
Head_(a, b) ==
  Max({n \in 0..Minimum(Len(a), Len(b)) : SubSeq(a, 1, n) = SubSeq(b, 1, n)})
Tail_(a, b) == Head_(Reverse(a), Reverse(b))

\* One round of Myers' algorithm for the distance di: the furthest x on each
\* diagonal i, from those of the round before.
MyersRound(a, b, v, di) ==
  LET low == -di + 2 * Maximum(0, di - Len(b))
      high == di - 2 * Maximum(0, di - Len(a))
      Snake(x, y) == x + Head_(SubSeq(a, x + 1, Len(a)), SubSeq(b, y + 1, Len(b)))
      Step(w, k) ==
        LET i == low + 2 * (k - 1)
            x == IF i = -di \/ (i /= di /\ w[i - 1] < w[i + 1]) THEN w[i + 1] ELSE w[i - 1] + 1
        IN [w EXCEPT ![i] = Snake(x, x - i)]
  IN FoldLeft(Step, v, [k \in 1..((high - low) \div 2 + 1) |-> k])

\* myersDiff: the distance of two lines if it does not exceed the threshold,
\* threshold + 1 if it does.  The common ends are stripped first; what is still
\* too long is only bounded from below.
myersDiff(a0, b0, threshold) ==
  LET h == Head_(a0, b0)
      a1 == SubSeq(a0, h + 1, Len(a0))
      b1 == SubSeq(b0, h + 1, Len(b0))
      t == Tail_(a1, b1)
      a == SubSeq(a1, 1, Len(a1) - t)
      b == SubSeq(b1, 1, Len(b1) - t)
      round[di \in -1..threshold] ==
        IF di = -1 THEN [i \in -(Len(b) + 1)..(Len(a) + 1) |-> 0]
        ELSE MyersRound(a, b, round[di - 1], di)
      reached == {di \in 0..threshold :
                    /\ di >= Maximum(Len(a) - Len(b), Len(b) - Len(a))
                    /\ di <= Len(a) + Len(b)
                    /\ (di - (Len(a) - Len(b))) % 2 = 0
                    /\ round[di][Len(a) - Len(b)] = Len(a)}
  IN IF Len(a) + Len(b) > 2 * kMaxColumnAlignSize
     THEN Minimum(Maximum(Len(a) - Len(b), Len(b) - Len(a)), threshold + 1)
     ELSE IF reached = {} THEN threshold + 1 ELSE Min(reached)

\* alignColumn: the place in b of the column of a, at which the costs of aligning
\* what is before it and what is behind it have the least sum; the last such
\* place for the start of a range, the first for its end.  The common ends may
\* overlap in b: the length b.size() - tail - head then wraps, and substr() takes
\* all that is behind the head.
alignColumn(a, column, b0, is_end) ==
  LET head == Head_(a, b0)
      tail == Tail_(a, b0)
      b == SubSeq(b0, head + 1, IF head + tail > Len(b0) THEN Len(b0) ELSE Len(b0) - tail)
      left == editDistanceVector(SubSeq(a, head + 1, column), b)
      right == editDistanceVector(Reverse(SubSeq(a, column + 1, Len(a) - tail)), Reverse(b))
      cost(i) == left[i] + right[Len(b) - i]
      best == {i \in 0..Len(b) : \A k \in 0..Len(b) : cost(i) <= cost(k)}
  IN IF column < head THEN column
     ELSE IF Len(a) - tail < column THEN column + Len(b0) - Len(a)
     ELSE IF Maximum(Len(a), Len(b0)) - head - tail >= kMaxColumnAlignSize
          THEN Minimum(column, Len(b0))
     ELSE head + (IF is_end THEN Min(best) ELSE Max(best))

----------------------------------------------------------------------------
(* The mapping of lines: index_to_buffer[i] = j >= 0 if index line i is taken
   to be buffer line j, -1 if that is not known. *)

IsUnique(lines, i) == \A k \in 1..Len(lines) : lines[k] = lines[i] => k = i

computeLineMappingMutant(index_lines, buffer_lines) ==
  LET n == Len(index_lines)
      unique == [i \in 0..n - 1 |->
                   IF \E j \in 1..Len(buffer_lines) : buffer_lines[j] = index_lines[i + 1]
                   THEN CHOOSE j \in 0..Len(buffer_lines) - 1 : buffer_lines[j + 1] = index_lines[i + 1]
                   ELSE -1]
      inverse == [j \in 0..Len(buffer_lines) - 1 |->
                    Max({i \in 0..n - 1 : unique[i] = j} \cup {-1})]
  IN [index_to_buffer |-> unique, buffer_to_index |-> inverse]

\* computeLineMapping: lines that are unique in both texts are mapped to each
\* other; the mapping is extended downwards and then upwards to neighbours that
\* are equal; the inverse is filled in from above, a later line over an earlier.
computeLineMapping(index_lines, buffer_lines) ==
  LET n == Len(index_lines)
      Equal(i, j) == index_lines[i + 1] = buffer_lines[j + 1]
      unique == [i \in 0..n - 1 |->
                   IF IsUnique(index_lines, i + 1)
                   THEN LET same == {j \in 0..Len(buffer_lines) - 1 : Equal(i, j)}
                        IN IF Cardinality(same) = 1 THEN Max(same) ELSE -1
                   ELSE -1]
      down[i \in 0..n - 1] ==
        IF i = 0 THEN unique[0]
        ELSE LET j == down[i - 1]
             IN IF 0 <= j /\ j + 1 < Len(buffer_lines) /\ Equal(i, j + 1) THEN j + 1 ELSE unique[i]
      up[i \in 0..n - 1] ==
        IF i = n - 1 THEN down[i]
        ELSE LET j == up[i + 1]
             IN IF 0 < j /\ Equal(i, j - 1) THEN j - 1 ELSE down[i]
      index_to_buffer == [i \in 0..n - 1 |-> up[i]]
  IN [index_to_buffer |-> index_to_buffer,
      buffer_to_index |-> [j \in 0..Len(buffer_lines) - 1 |->
                             Max({i \in 0..n - 1 : index_to_buffer[i] = j} \cup {-1})]]

\* The line from up to down that has the least distance, up itself if all have
\* more than kMaxDiff.
MostAlike(up, down, dist) ==
  LET near == {i \in up..down : dist[i] <= kMaxDiff /\ \A k \in up..down : dist[i] <= dist[k]}
  IN IF near = {} THEN up ELSE Min(near)

\* Of a line, the nearest above and below that the mapping is sure of; the most
\* alike line is looked for between them.
Between(index_lines, index_to_buffer, sure, line, buffer_lines) ==
  LET above == {i \in sure : i < line}
      below == {i \in sure : i > line}
      up == IF above = {} THEN 0 ELSE index_to_buffer[Max(above)]
      down == IF below = {} THEN Len(buffer_lines) - 1 ELSE index_to_buffer[Min(below)]
  IN IF line \in sure THEN index_to_buffer[line]
     ELSE IF up > down THEN NoFile
     ELSE MostAlike(up, down, [i \in up..down |->
            myersDiff(index_lines[line + 1], buffer_lines[i + 1], kMaxDiff)])

\* findMatchingLine: the line the mapping is sure of; otherwise the one most like
\* it between the nearest lines above and below that the mapping is sure of.
findMatchingLine(index_lines, index_to_buffer, line, column, buffer_lines, is_end) ==
  LET Found(to) ==
        IF to = NoFile THEN NoFile
        ELSE <<to, alignColumn(index_lines[line + 1], column, buffer_lines[to + 1], is_end)>>
  IN Found(Between(index_lines, index_to_buffer,
                   {i \in DOMAIN index_to_buffer : index_to_buffer[i] >= 0}, line, buffer_lines))

----------------------------------------------------------------------------
(* WorkingFile *)

\* onBufferContentUpdated: the mapping is computed when it is next needed.
onBufferContentUpdated(wf, content) ==
  [wf EXCEPT !.buffer_content = content, !.buffer_lines = toLines(content)]

\* setIndexContent, called with the text that was indexed.
setIndexContent(wf, content) == [wf EXCEPT !.index_lines = toLines(content)]

NewWorkingFile(content) ==
  [version |-> 0, buffer_content |-> content, buffer_lines |-> toLines(content),
   index_lines |-> <<>>]

\* One past the last line is taken to the size of the buffer.
getBufferPosFromIndexPos(wf, line, column, is_end) ==
  IF line = Len(wf.index_lines) /\ column = 0 THEN <<Len(wf.buffer_content), column>>
  ELSE IF line \notin 0..Len(wf.index_lines) - 1 THEN NoFile
  ELSE findMatchingLine(wf.index_lines,
         computeLineMapping(wf.index_lines, wf.buffer_lines).index_to_buffer,
         line, column, wf.buffer_lines, is_end)

getIndexPosFromBufferPos(wf, line, column, is_end) ==
  IF line \notin 0..Len(wf.buffer_lines) - 1 THEN NoFile
  ELSE findMatchingLine(wf.buffer_lines,
         computeLineMapping(wf.index_lines, wf.buffer_lines).buffer_to_index,
         line, column, wf.index_lines, is_end)

\* The two ends of a range once they are mapped: the end never is before the start.
Remapped(range, start, end) ==
  LET line == IF Line(end) < Line(start)
              THEN Line(start) + (Line(range.end) - Line(range.start)) ELSE Line(end)
      column == IF Line(start) = line /\ Column(start) > Column(end)
                THEN Column(start) ELSE Column(end)
  IN IF start = NoFile \/ end = NoFile THEN NoFile ELSE RangeOf(start, <<line, column>>)

\* query.cc getLsRange: a range of the index in terms of the buffer.
getLsRange(wf, range) ==
  IF wf = NoFile THEN range
  ELSE IF wf.index_lines = <<>> THEN range
  ELSE Remapped(range,
         getBufferPosFromIndexPos(wf, Line(range.start), Column(range.start), FALSE),
         getBufferPosFromIndexPos(wf, Line(range.end), Column(range.end), TRUE))

----------------------------------------------------------------------------
(* WorkingFiles: files is a function from the paths that are open. *)

onOpen(files, path, version, text) ==
  IF path \in DOMAIN files
  THEN [files EXCEPT ![path] = [onBufferContentUpdated(@, text) EXCEPT !.version = version]]
  ELSE [p \in DOMAIN files \cup {path} |->
          IF p = path THEN NewWorkingFile(text) ELSE files[p]]

\* A change without a range replaces everything.
applyChange(content, diff) ==
  IF diff.range = NoFile THEN diff.text
  ELSE LET start == getOffsetForPosition(diff.range.start, content)
           end == getOffsetForPosition(diff.range.end, content)
       IN SubSeq(content, 1, start) \o diff.text \o SubSeq(content, end + 1, Len(content))

onChangeMutant(files, path, version, contentChanges) ==
  IF path \notin DOMAIN files THEN files
  ELSE LET Original(content, diff) == applyChange(files[path].buffer_content, diff)
       IN [files EXCEPT ![path] =
            [onBufferContentUpdated(@, FoldLeft(Original, @.buffer_content, contentChanges))
               EXCEPT !.version = IF version = NoFile THEN @ ELSE version]]

\* The changes of one notification are applied in turn, each to what the one
\* before it left.
Changed(content, contentChanges) ==
  LET after[n \in 0..Len(contentChanges)] ==
        IF n = 0 THEN content ELSE applyChange(after[n - 1], contentChanges[n])
  IN after[Len(contentChanges)]

onChange(files, path, version, contentChanges) ==
  IF path \notin DOMAIN files THEN files
  ELSE LET wf == files[path]
           changed == onBufferContentUpdated(wf, Changed(wf.buffer_content, contentChanges))
       IN [files EXCEPT ![path] =
            [changed EXCEPT !.version = IF version = NoFile THEN wf.version ELSE version]]

onClose(files, path) == Restrict(files, DOMAIN files \ {path})

getContent(files, path) ==
  IF path \in DOMAIN files THEN files[path].buffer_content ELSE <<>>
============================================================================
