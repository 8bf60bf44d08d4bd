----------------------------- MODULE MCEditing -----------------------------
(***************************************************************************)
(* Two small documents, inserts of a capital, an accented letter and a     *)
(* newline, and a clang that offers members with a fix of the dot before   *)
(* them and without.                                                       *)
(***************************************************************************)
EXTENDS Editing

\* a = 97, A = 65, x = 120, _ = 95, . = 46, an accented letter = <<195, 169>>
Char(n) == IF n = 233 THEN <<195, 169>> ELSE <<n>>
Doc(codes) == [k \in 1..Len(codes) |-> Char(codes[k])]

MCDocuments == {Doc(<<120, 46, 97, 10>>), Doc(<<123, 10, 65, 233, 10>>)}
MCInserts == {<<>>, Doc(<<65, 233, 10>>)}

\* After a dot the members come with a fix of the dot or without.
Text(kind, text) == [kind |-> kind, text |-> text]
Result(priority, chunks, fixits) ==
  [kind |-> "Declaration", accessible |-> TRUE, ignored |-> FALSE,
   priority |-> priority, chunks |-> chunks, fixits |-> fixits]

Call ==
  <<Text("ResultType", <<120>>), Text("TypedText", <<97, 95, 65>>), Text("Text", <<40>>),
    Text("Placeholder", <<97>>),
    Text("Optional", <<>>), Text("Placeholder", <<120>>), Text("End", <<>>),
    Text("Text", <<41>>)>>

MCClang(kind, text, pos) ==
  LET before == getOffsetForPosition(pos, text)
      fix == <<[range |-> RangeOf(<<Line(pos), Column(pos) - 1>>, pos), newText |-> <<45, 62>>]>>
      dotted == Column(pos) > 0 /\ before > 0 /\ before <= Len(text) /\ text[before] = 46
  IN IF kind = "signatureHelp" THEN <<Call, <<Text("Text", <<Column(pos)>>)>>>>
     ELSE <<Result(1, <<Text("TypedText", <<97, 65>>)>>, IF dotted THEN fix ELSE <<>>),
            Result(1, <<Text("TypedText", <<65, 97, 65>>)>>, <<>>),
            Result(2, Call, <<>>),
            Result(3, <<Text("TypedText", <<97, 98>>)>>, IF dotted THEN fix ELSE <<>>)>>

\* One space for what is blank at the ends, and something behind the brace.
MCReformatted(code, offset, length) ==
  LET boundaries == {p \in offset..offset + length :
                       p = Len(code) \/ ~IsContinuation(code[p + 1])}
      newlines == {p \in boundaries : p < offset + length /\ code[p + 1] = 10}
      At(p) == [offset |-> p, length |-> IF p \in newlines THEN 1 ELSE 0,
                text |-> IF p \in newlines THEN <<32, 10>> ELSE <<32>>]
      places == SetToSortSeq(newlines \cup {offset + length}, <)
  IN [k \in 1..Len(places) |-> At(places[k])]

MCConfig ==
  [snippetSupport |-> TRUE, duplicateOptional |-> TRUE, placeholder |-> FALSE,
   detailedLabel |-> TRUE, filterAndSort |-> TRUE, caseSensitivity |-> 0, maxNum |-> 4]
============================================================================
