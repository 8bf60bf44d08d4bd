----------------------------- MODULE Highlight -----------------------------
(***************************************************************************)
(* Semantic highlighting: emitSemanticHighlight of message_handler.cc.     *)
(* The ranges of the symbols of a file may nest and overlap; what is       *)
(* published are disjoint pieces, each with one symbol.  The buffer is     *)
(* taken to be what was indexed, and a function's name to be one token;    *)
(* the offsets that stand for the ranges if highlight.lsRanges is not set  *)
(* are not modelled.                                                       *)
(***************************************************************************)
EXTENDS Navigation

\* The values of SymbolKind (lsp.hh).
KindNumber ==
  [Unknown |-> 0, File |-> 1, Namespace |-> 3, Class |-> 5, Method |-> 6, Field |-> 8,
   Constructor |-> 9, Enum |-> 10, Function |-> 12, Variable |-> 13,
   EnumMember |-> 22, TypeAlias |-> 252, Parameter |-> 253, Macro |-> 255]

\* The first definition with a spell, or the last; of a function without any
\* nothing is shown.
ShownKind(db, sym) ==
  LET def == anyDef(getEntity(db, sym)) IN IF def = None THEN "Unknown" ELSE def.def.kind

\* The symbols to highlight and where: functions only where their name is
\* (Reads), so not at calls that are not written out.
Grouped(db, path) ==
  LET shown(r) == \/ r.kind \in {"Type", "Var"}
                  \/ /\ r.kind = "Func" /\ getEntity(db, SymOf(r)).def /= <<>>
                     /\ Reads(LocationOf(UseOf(r.range, r.role, path)))
      syms == Enumerated(DOMAIN db.ents)
  IN {[range |-> r.range, symbol |-> SymOf(r), kind |-> ShownKind(db, SymOf(r)),
       id |-> CHOOSE i \in 1..Len(syms) : syms[i] = SymOf(r)] :
        r \in {r \in Present(db.files[path]) : shown(r)}}

----------------------------------------------------------------------------
(* Make ranges non-overlapping using a scan line algorithm. *)

\* ScanLineEvent::operator<: of the ranges that start at a place the one that
\* ends last comes first, then the one of the smaller kind: a macro, whose kind
\* is the largest, hides what it stands for.
SortsBeforeMutant(e, f) ==
  IF e.pos /= f.pos THEN Before(e.pos, f.pos)
  ELSE IF e.end_pos /= f.end_pos THEN Before(f.end_pos, e.end_pos)
  ELSE e.of.id < f.of.id

SortsBefore(e, f) ==
  IF e.pos /= f.pos THEN Before(e.pos, f.pos)
  ELSE IF e.end_pos /= f.end_pos THEN Before(f.end_pos, e.end_pos)
  ELSE IF KindNumber[e.of.kind] /= KindNumber[f.of.kind]
  THEN KindNumber[e.of.kind] < KindNumber[f.of.kind]
  ELSE e.of.id < f.of.id

ScanLineEvents(grouped) ==
  Sorted({[pos |-> g.range.start, end_pos |-> g.range.end, of |-> g, insertion |-> TRUE] :
                  g \in grouped}
                 \cup {[pos |-> g.range.end, end_pos |-> g.range.end, of |-> g, insertion |-> FALSE] :
                         g \in grouped},
               SortsBefore)

\* The ranges that have begun and not ended, the last one to begin on top.  What
\* ended below the top stays until it comes up.
Popped(stack, deleted) ==
  LET alive == {i \in 1..Len(stack) : stack[i] \notin deleted}
  IN SubSeq(stack, 1, IF alive = {} THEN 0 ELSE Max(alive))

Scan(acc, e) ==
  LET stack == Popped(acc.stack, acc.deleted)
      piece == [range |-> RangeOf(acc.pos, e.pos), symbol |-> stack[Len(stack)].symbol]
  IN [stack |-> IF e.insertion THEN Append(stack, e.of) ELSE stack,
      deleted |-> IF e.insertion THEN acc.deleted ELSE acc.deleted \cup {e.of},
      pos |-> e.pos,
      pieces |-> IF stack = <<>> \/ acc.pos = e.pos THEN acc.pieces ELSE acc.pieces \cup {piece}]

Pieces(grouped) ==
  FoldLeft(Scan, [stack |-> <<>>, deleted |-> {}, pos |-> None, pieces |-> {}],
           ScanLineEvents(grouped)).pieces

emitSemanticHighlight(db, path) == Pieces(Grouped(db, path))

emitSkippedRanges(db, path) == ToSet(db.files[path].def.skipped_ranges)
============================================================================
