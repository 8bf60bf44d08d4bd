------------------------------ MODULE Ranges ------------------------------
(***************************************************************************)
(* Positions and ranges: position.hh Pos and Range, which the index keeps  *)
(* in 16-bit fields, and lsp.hh Position and lsRange, which go to and come *)
(* from the client.  Both are lines and columns counted from zero and are  *)
(* ordered lexicographically, so one representation serves both.           *)
(***************************************************************************)
EXTENDS Integers

Pos(line, column) == <<line, column>>
Line(p) == p[1]
Column(p) == p[2]

\* Pos::operator< and Position::operator<
Before(p, q) == p[1] < q[1] \/ (p[1] = q[1] /\ p[2] < q[2])
AtOrBefore(p, q) == ~Before(q, p)

RangeOf(start, end) == [start |-> start, end |-> end]

\* Range(): the start is not valid.
NoRange == RangeOf(<<0, -1>>, <<0, -1>>)

Valid(range) == range.start[2] >= 0

\* Pos as its fields store it: uint16_t line, int16_t column.
Signed16(n) == ((n + 32768) % 65536) - 32768
Stored(line, column) == <<line % 65536, Signed16(column)>>

\* Pos::fromString(p.toString()): one is added to what is written and taken from
\* what is read, before and after it is narrowed.
Reread(p) ==
  LET written == <<p[1] + 1, p[2] + 1>>
  IN <<(written[1] - 1) % 65536, Signed16(Signed16(written[2]) - 1)>>

\* Range::contains: a line past the 16 bits is nowhere, a column is cut.
ContainsPos(range, p) ==
  /\ p[1] <= 65535
  /\ LET q == <<p[1] % 65536, IF p[2] > 32767 THEN 32767 ELSE p[2]>>
     IN ~Before(q, range.start) /\ Before(q, range.end)

\* Range::operator<
RangeBefore(r, s) ==
  \/ Before(r.start, s.start)
  \/ r.start = s.start /\ Before(r.end, s.end)

\* lsRange::includes, lsRange::intersects
Includes(r, s) == AtOrBefore(r.start, s.start) /\ AtOrBefore(s.end, r.end)
Intersects(r, s) == Before(r.start, s.end) /\ Before(s.start, r.end)
============================================================================
