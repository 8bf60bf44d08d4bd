----------------------------- MODULE Completion -----------------------------
(***************************************************************************)
(* What clang answers to a completion or a signature request, made into    *)
(* what the client is sent: textDocument_completion.cc buildItem,          *)
(* ProcessCodeCompleteResults and filterCandidates,                        *)
(* textDocument_signatureHelp.cc ProcessOverloadCandidates, and            *)
(* textDocument_formatting.cc replacementsToEdits.                         *)
(*                                                                         *)
(* A result of clang is [kind, accessible, ignored, priority, chunks,      *)
(* fixits]; a chunk is [kind, text].  The chunks of an optional part stand *)
(* between one of kind Optional and one of kind End.  Texts are sequences  *)
(* of bytes.  An edit is [range, newText].                                 *)
(***************************************************************************)
EXTENDS WorkingFiles, FuzzyMatch

CONSTANT g_config   \* snippetSupport, duplicateOptional, placeholder, detailedLabel,
                    \* filterAndSort, caseSensitivity, maxNum

Space == 32
Quoted == 34
ParenOpen == 40
ParenClose == 41
Dash == 45
Slash == 47
Less == 60
Greater == 62
Hash == 35
BraceOpen == 123

IsBlank(byte) == byte \in {Space} \cup (9..13)

\* ${n:text}
SnippetField(n, text) == <<36, 123, 48 + n, Colon>> \o text \o <<125>>

----------------------------------------------------------------------------
(* Items *)

NewItem ==
  [label |-> <<>>, filterText |-> <<>>, newText |-> <<>>, parameters |-> <<>>,
   snippet |-> FALSE, priority |-> 0, edits |-> <<>>, score |-> 0,
   range |-> NoFile, sortText |-> 0]

\* One chunk that is text: every item gets it in its label; a parameter is a
\* field of the snippet, ends what a pattern inserts, and, as everything behind
\* it, is left out for a client without snippets.
WithText(item, chunk, pattern, ignore) ==
  LET it == [item EXCEPT
               !.label = @ \o chunk.text,
               !.filterText = IF chunk.kind = "TypedText" THEN chunk.text ELSE @,
               !.parameters = IF chunk.kind = "Placeholder" THEN Append(@, chunk.text) ELSE @]
  IN IF ignore \/ (~g_config.snippetSupport /\ it.parameters /= <<>>) THEN it
     ELSE IF chunk.kind = "Placeholder"
          THEN IF pattern THEN it
               ELSE [it EXCEPT !.newText = @ \o SnippetField(Len(it.parameters), chunk.text),
                               !.snippet = TRUE]
     ELSE IF chunk.kind = "Informative" THEN it
     ELSE [it EXCEPT !.newText = @ \o chunk.text]

\* A part of the chunks, for which buildItem is called, is about the items from the
\* first on; a type goes to their labels at its end.
Part(first) == [first |-> first, ignore |-> FALSE, type |-> <<>>]

\* Of the items those of a part, as they are after a change of all.
From(part, out, changed) ==
  [i \in 1..Len(out) |-> IF i < part.first THEN out[i] ELSE changed[i]]

Typed(part, out) ==
  LET Arrow(item) == IF item.label = item.filterText THEN <<Space, Colon, Space>>
                     ELSE <<Space, Dash, Greater, Space>>
      WithType(item) == [item EXCEPT !.label = @ \o Arrow(item) \o part.type]
  IN IF part.type = <<>> THEN out ELSE From(part, out, [i \in DOMAIN out |-> WithType(out[i])])

\* buildItem: an optional part, if it is not skipped, goes on with a copy of the last
\* item in a part of its own, what follows is for all of them.
BuildStep(pattern, s, chunk) ==
  LET part == Last(s.parts)
      EndsScope(text) == Len(text) > 1 /\ text[Len(text)] = Colon /\ text[Len(text) - 1] = Colon
      Texted(item) == WithText(item, chunk, pattern, part.ignore)
      Now(c) == Append(Front(s.parts), c)
  IN CASE chunk.kind = "Optional" ->
            IF s.skipped > 0 \/ ~g_config.duplicateOptional
            THEN [s EXCEPT !.skipped = @ + 1]
            ELSE [s EXCEPT !.out = Append(@, Last(@)),
                           !.parts = Append(@, Part(Len(s.out) + 1))]
       [] chunk.kind = "End" ->
            IF s.skipped > 0 THEN [s EXCEPT !.skipped = @ - 1]
            ELSE [s EXCEPT !.out = Typed(part, @), !.parts = Front(@)]
       [] s.skipped > 0 \/ (chunk.kind = "Informative" /\ EndsScope(chunk.text)) -> s
       [] chunk.kind = "ResultType" ->
            [s EXCEPT !.parts = Now([part EXCEPT !.type = chunk.text])]
       [] OTHER ->
            [s EXCEPT !.out = From(part, @, [i \in DOMAIN @ |-> Texted(@[i])]),
                      !.parts = Now([part EXCEPT
                        !.ignore = @ \/ (chunk.kind = "Placeholder" /\ pattern)])]

buildItem(pattern, ccs) ==
  LET Step(s, chunk) == BuildStep(pattern, s, chunk)
      end == FoldLeft(Step, [out |-> <<NewItem>>, parts |-> <<Part(1)>>, skipped |-> 0], ccs)
  IN Typed(end.parts[1], end.out)

\* A client without snippets gets the identifier; without placeholders the
\* fields of a snippet become one.
Inserted(item) ==
  LET s == item.newText
      open == {i \in 1..Len(s) - 1 : s[i] = 36 /\ s[i + 1] = 123}
      close == {i \in 1..Len(s) : s[i] = 125}
      Drop(n) == SubSeq(s, 1, Len(s) - n)
  IN IF ~g_config.snippetSupport
     THEN IF s = <<>> THEN s
          ELSE IF s[Len(s)] \in {ParenOpen, Less} THEN Drop(1)
          ELSE IF Len(s) > 1 /\ s[Len(s)] = ParenClose /\ s[Len(s) - 1] = ParenOpen THEN Drop(2)
          ELSE s
     ELSE IF ~item.snippet THEN s
     ELSE (IF g_config.placeholder THEN s
           ELSE SubSeq(s, 1, Min(open) - 1) \o <<36, 49>> \o SubSeq(s, Max(close) + 1, Len(s)))
          \o <<36, 48>>

\* ProcessCodeCompleteResults: what cannot be named or reached is left out.
ProcessCodeCompleteResults(results) ==
  LET Items(r) ==
        LET built == buildItem(r.kind = "Pattern", r.chunks)
        IN [i \in 1..Len(built) |->
              [built[i] EXCEPT
                 !.newText = Inserted(built[i]),
                 !.priority = r.priority,
                 !.label = IF g_config.detailedLabel THEN @ ELSE built[i].filterText,
                 !.edits = r.fixits]]
      Wanted(r) == r.accessible /\ ~r.ignored
  IN FoldLeft(LAMBDA items, r : IF Wanted(r) THEN items \o Items(r) ELSE items, <<>>, results)

----------------------------------------------------------------------------
(* filterCandidates *)

ByteLess(s, t) ==
  LET h == Head_(s, t) IN IF h = Len(t) THEN FALSE ELSE h = Len(s) \/ s[h + 1] < t[h + 1]

\* What needs a fix comes first.
ItemBeforeMutant(x, y) ==
  IF Len(x.edits) /= Len(y.edits) THEN Len(x.edits) > Len(y.edits)
  ELSE IF x.score /= y.score THEN x.score > y.score
  ELSE IF x.priority /= y.priority THEN x.priority < y.priority
  ELSE IF x.newText /= y.newText THEN ByteLess(x.newText, y.newText)
  ELSE IF x.label /= y.label THEN ByteLess(x.label, y.label)
  ELSE ByteLess(x.filterText, y.filterText)

\* Fewer further edits, the better score, the smaller priority, then the texts.
ItemBefore(x, y) ==
  IF Len(x.edits) /= Len(y.edits) THEN Len(x.edits) < Len(y.edits)
  ELSE IF x.score /= y.score THEN x.score > y.score
  ELSE IF x.priority /= y.priority THEN x.priority < y.priority
  ELSE IF x.newText /= y.newText THEN ByteLess(x.newText, y.newText)
  ELSE IF x.label /= y.label THEN ByteLess(x.label, y.label)
  ELSE ByteLess(x.filterText, y.filterText)

Touches(item, begin) == item.edits /= <<>> /\ item.edits[1].range.end = begin
OnLine(item, begin) == Line(item.edits[1].range.start) = Line(begin)
EditLength(item) == Column(item.edits[1].range.end) - Column(item.edits[1].range.start)

\* The longest fix that ends where the completion begins; -1 if one of those
\* spans lines.
OverwriteLength(items, begin) ==
  LET touching == {i \in 1..Len(items) : Touches(items[i], begin)}
  IN IF \E i \in touching : ~OnLine(items[i], begin) THEN -1
     ELSE Max({EditLength(items[i]) : i \in touching} \cup {0})

MergedMutant(item, over, begin, end, buffer_line, inserted) ==
  IF over <= 0 THEN [item EXCEPT !.newText = inserted, !.range = RangeOf(begin, end)]
  ELSE LET from == Column(begin) - over
           fixed == Touches(item, begin) /\ OnLine(item, begin)
       IN [item EXCEPT
             !.range = RangeOf(<<Line(begin), from>>, end),
             !.newText = (IF fixed THEN item.edits[1].newText ELSE <<>>) \o inserted,
             !.edits = IF fixed THEN Tail(@) ELSE @]

\* A fix next to the completion is merged into it, for all items over the same
\* length, because the client may apply the two in either order.
Merged(item, over, begin, end, buffer_line, inserted) ==
  IF over <= 0 THEN [item EXCEPT !.newText = inserted, !.range = RangeOf(begin, end)]
  ELSE LET from == Column(begin) - over
           orig == SubSeq(buffer_line, from + 1, from + over)
           fixed == Touches(item, begin) /\ OnLine(item, begin)
       IN [item EXCEPT
             !.range = RangeOf(<<Line(begin), from>>, end),
             !.newText = IF fixed
                         THEN SubSeq(buffer_line, from + 1, from + over - EditLength(item))
                                \o item.edits[1].newText \o inserted
                         ELSE orig \o inserted,
             !.edits = IF fixed THEN Tail(@) ELSE @,
             !.filterText = orig \o @]

\* finalize: the list is cut to maxNum, each item gets its range and its rank.
\* Before a parenthesis that is already there only the name is inserted.
finalize(items, begin, end, buffer_line) ==
  LET kept == SubSeq(items, 1, Minimum(Len(items), g_config.maxNum))
      has_open_paren ==
        \E c \in Column(end) + 1..Len(buffer_line) :
          /\ buffer_line[c] \in {ParenOpen, Less}
          /\ \A k \in Column(end) + 1..c - 1 : IsBlank(buffer_line[k])
      over == OverwriteLength(kept, begin)
      Final(item) ==
        LET plain == IF has_open_paren THEN item.filterText ELSE item.newText
            merged == Merged(item, over, begin, end, buffer_line, plain)
        IN [merged EXCEPT !.filterText = IF @ = item.label THEN <<>> ELSE @]
  IN [i \in 1..Len(kept) |-> [Final(kept[i]) EXCEPT !.sortText = i]]

\* What the longest fix replaces is not within the line: substr() throws.
OutOfRange(items, begin, buffer_line) ==
  LET kept == SubSeq(items, 1, Minimum(Len(items), g_config.maxNum))
      over == OverwriteLength(kept, begin)
  IN over > 0 /\ Column(begin) - over > Len(buffer_line)

FilterText(item) == IF item.filterText /= <<>> THEN item.filterText ELSE item.label

\* bool sensitive = caseSensitivity
FilterCase == IF g_config.caseSensitivity = 0 THEN 0 ELSE 1

Scored(item, complete_text) ==
  [item EXCEPT !.score =
     IF reverseSubseqMatch(complete_text, FilterText(item), FilterCase) >= 0
     THEN match(Pattern(complete_text, FilterCase), FilterText(item), TRUE) ELSE kMinScore]

\* The items that are left, in their order.
Candidates(items, complete_text) ==
  LET scored == IF complete_text = <<>> THEN items
                ELSE [i \in 1..Len(items) |-> Scored(items[i], complete_text)]
      left == SelectSeq(scored, LAMBDA item : complete_text = <<>> \/ item.score > kMinScore)
  IN IF g_config.filterAndSort THEN SortSeq(left, ItemBefore) ELSE items

filterCandidates(items, complete_text, begin, end, buffer_line) ==
  finalize(Candidates(items, complete_text), begin, end, buffer_line)

----------------------------------------------------------------------------
(* Signatures *)

\* buildOptional: the label of a signature and the parts of it that are parameters.
buildOptional(sig, chunk) ==
  CASE chunk.kind \in {"Optional", "End", "VerticalSpace"} -> sig
    [] chunk.kind \in {"Placeholder", "CurrentParameter"} ->
         [label |-> sig.label \o chunk.text,
          parameters |-> Append(sig.parameters,
                           <<Len(sig.label), Len(sig.label) + Len(chunk.text)>>)]
    [] OTHER -> [sig EXCEPT !.label = @ \o chunk.text]

SignatureBefore(l, r) ==
  IF Len(l.parameters) /= Len(r.parameters) THEN Len(l.parameters) < Len(r.parameters)
  ELSE IF Len(l.label) /= Len(r.label) THEN Len(l.label) < Len(r.label)
  ELSE ByteLess(l.label, r.label)

\* ProcessOverloadCandidates: the type of the result, outside of what is optional,
\* goes to the end.
ProcessOverloadCandidates(candidates) ==
  LET Nested(ccs, k) ==
        LET Number(kind) == Cardinality({i \in 1..k : ccs[i].kind = kind})
        IN Number("Optional") > Number("End")
      Signature(ccs) ==
        LET types == {k \in 1..Len(ccs) : ccs[k].kind = "ResultType" /\ ~Nested(ccs, k)}
            sig == FoldLeft(buildOptional, [label |-> <<>>, parameters |-> <<>>],
                     [k \in 1..Len(ccs) |-> IF k \in types THEN [kind |-> "Text", text |-> <<>>]
                                            ELSE ccs[k]])
        IN IF types = {} THEN sig
           ELSE [sig EXCEPT !.label = @ \o <<Space, Dash, Greater, Space>> \o ccs[Max(types)].text]
  IN SortSeq([i \in 1..Len(candidates) |-> Signature(candidates[i])], SignatureBefore)

----------------------------------------------------------------------------
(* Formatting *)

replacementsToEditsMutant(code, repls) ==
  LET At(p) == LET newlines == {i \in 1..p : code[i] = Newline}
               IN <<Cardinality(newlines), p - Max(newlines \cup {0})>>
  IN [k \in 1..Len(repls) |->
        [range |-> RangeOf(At(repls[k].offset), At(repls[k].offset + repls[k].length)),
         newText |-> repls[k].text]]

\* replacementsToEdits: an offset becomes a line and a column that counts
\* characters; one walk over the code does for all replacements.
replacementsToEdits(code, repls) ==
  LET move(at, p) ==
        LET Seen == at.i + 1..p
            newlines == {i \in Seen : code[i] = Newline}
            chars == {i \in Seen : /\ code[i] /= Newline
                                   /\ ~IsContinuation(code[i])
                                   /\ \A k \in newlines : k < i}
        IN [i |-> Maximum(at.i, p),
            line |-> at.line + Cardinality(newlines),
            col |-> (IF newlines = {} THEN at.col ELSE 0) + Cardinality(chars)]
      Step(s, r) ==
        LET from == move(s.at, r.offset)
            to == move(from, r.offset + r.length)
        IN [at |-> to,
            edits |-> Append(s.edits, [range |-> RangeOf(<<from.line, from.col>>, <<to.line, to.col>>),
                                       newText |-> r.text])]
  IN FoldLeft(Step, [at |-> [i |-> 0, line |-> 0, col |-> 0], edits |-> <<>>], repls).edits
============================================================================
