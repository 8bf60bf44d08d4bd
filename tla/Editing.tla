------------------------------ MODULE Editing ------------------------------
(***************************************************************************)
(* A client that edits a file and the handlers that work on its buffer:    *)
(* textDocument_did.cc, textDocument_completion.cc,                        *)
(* textDocument_signatureHelp.cc and textDocument_formatting.cc, with the  *)
(* buffers and line mappings of working_files.cc.                          *)
(*                                                                         *)
(* The client's document is a sequence of characters, each a sequence of   *)
(* bytes; it names places by lines and characters and applies the edits it *)
(* is sent to its document.  The main thread runs one handler at a time;   *)
(* the completion thread may answer between any two of its critical        *)
(* sections.  How tasks of the completion thread are ordered and dropped   *)
(* is in SemaManager, how an index comes to be in IndexPipeline.           *)
(***************************************************************************)
EXTENDS Completion

CONSTANTS
  Paths,
  Documents,            \* what the client may open
  Inserts,              \* what it may type or paste
  Clang(_, _, _),       \* clang's results: kind of request, text, place
  Reformatted(_, _, _), \* clang-format's replacements: text, offset, length
  MaxEvents,            \* bound: events that come from the client
  MaxChanges            \* bound: those of them that change a document

VARIABLES
  doc,       \* of each path, the client's document
  files,     \* WorkingFiles::files
  indexed,   \* of each path, the text its index was made from, or NoFile
  cache,     \* of each kind of request, CompleteConsumerCache
  request,   \* what the main thread is about, between its two locks
  comp_tasks,
  reply,     \* the last answer, with what it answers
  events, changes,
  alive      \* no exception has ended the server

vars == <<doc, files, indexed, cache, request, comp_tasks, reply, events, changes, alive>>

Kinds == {"completion", "signatureHelp"}

\* A character in UTF-8: a byte below 128, or a first byte and continuations.
Characters ==
  {c \in Seq(0..255) :
     /\ c /= <<>> /\ ~IsContinuation(c[1])
     /\ c[1] < 128 => Len(c) = 1
     /\ \A j \in 2..Len(c) : IsContinuation(c[j])}

\* The client's texts are in UTF-8, and NoFile is none of the values it stands in for.
ASSUME TextsAssumption == \A text \in Documents \cup Inserts : text \in Seq(Characters)
ASSUME NoFileAssumption ==
  /\ NoFile \notin [start : Nat \X Int, end : Nat \X Int]
  /\ NoFile \notin [version : Nat, buffer_content : Seq(0..255),
                     buffer_lines : Seq(Seq(0..255)), index_lines : Seq(Seq(0..255))]

Bytes(characters) == FlattenSeq(characters)

----------------------------------------------------------------------------
(* The client *)

PosAt(text, k) ==
  LET newlines == {i \in 1..k : text[i] = <<Newline>>}
  IN <<Cardinality(newlines), k - Max(newlines \cup {0})>>

PlaceOf(text, pos) == CHOOSE k \in 0..Len(text) : PosAt(text, k) = pos

\* Edits do not overlap and are in order; the last is applied first.
ClientApplies(text, edits) ==
  LET One(edit, t) == SubSeq(t, 1, PlaceOf(text, edit.range.start)) \o <<edit.newText>>
                        \o SubSeq(t, PlaceOf(text, edit.range.end) + 1, Len(t))
  IN FoldRight(One, edits, text)

\* The client replaces characters a+1 to b and says so in its own terms.
Replaced(text, a, b, insert) == SubSeq(text, 1, a) \o insert \o SubSeq(text, b + 1, Len(text))
ChangeOf(text, a, b, insert) ==
  [range |-> RangeOf(PosAt(text, a), PosAt(text, b)), text |-> Bytes(insert)]

Counted == /\ alive /\ request = NoFile /\ events < MaxEvents
           /\ events' = events + 1 /\ UNCHANGED alive
Event == Counted /\ UNCHANGED changes
Change == Counted /\ changes < MaxChanges /\ changes' = changes + 1
IsOpen(path) == path \in DOMAIN files

----------------------------------------------------------------------------
(* didOpen, didChange, didClose and the publication of an index *)

Init ==
  /\ doc \in [Paths -> Documents]
  /\ files = [path \in {} |-> NoFile]
  /\ indexed = [path \in Paths |-> NoFile]
  /\ cache = [kind \in Kinds |->
                [path |-> NoFile, line |-> <<>>, position |-> <<0, 0>>, result |-> <<>>, seen |-> <<>>]]
  /\ request = NoFile /\ comp_tasks = <<>> /\ reply = NoFile
  /\ events = 0 /\ changes = 0 /\ alive = TRUE

\* loadIndexedContent: what the index that is stored was made from.
didOpen(path) ==
  /\ alive /\ request = NoFile /\ ~IsOpen(path)
  /\ LET opened == onOpen(files, path, 1, Bytes(doc[path]))
     IN files' = IF indexed[path] = NoFile THEN opened
                 ELSE [opened EXCEPT ![path] = setIndexContent(@, indexed[path])]
  /\ UNCHANGED <<doc, indexed, cache, request, comp_tasks, reply, events, changes, alive>>

didChange(path) ==
  /\ Change /\ IsOpen(path)
  /\ \E a \in 0..Len(doc[path]), insert \in Inserts : \E b \in a..Len(doc[path]) :
       /\ doc' = [doc EXCEPT ![path] = Replaced(@, a, b, insert)]
       /\ files' = onChange(files, path, NoFile, <<ChangeOf(doc[path], a, b, insert)>>)
  /\ UNCHANGED <<indexed, cache, request, comp_tasks, reply>>

\* One notification with two changes: the second is said in terms of what the
\* first left.
didChangeTwice(path) ==
  /\ Change /\ IsOpen(path)
  /\ \E insert, other \in Inserts : \E a \in 0..Len(doc[path]) :
       LET once == Replaced(doc[path], 0, 0, insert)
           twice == Replaced(once, a, Len(once), other)
       IN /\ doc' = [doc EXCEPT ![path] = twice]
          /\ files' = onChange(files, path, events,
                        <<ChangeOf(doc[path], 0, 0, insert), ChangeOf(once, a, Len(once), other)>>)
  /\ UNCHANGED <<indexed, cache, request, comp_tasks, reply>>

didClose(path) ==
  /\ Event /\ IsOpen(path)
  /\ files' = onClose(files, path)
  /\ UNCHANGED <<doc, indexed, cache, request, comp_tasks, reply>>

\* main_OnIndexed, of an index that was made from what the client has saved.
Indexed(path) ==
  /\ Event
  /\ indexed' = [indexed EXCEPT ![path] = Bytes(doc[path])]
  /\ files' = IF IsOpen(path) THEN [files EXCEPT ![path] = setIndexContent(@, Bytes(doc[path]))]
              ELSE files
  /\ UNCHANGED <<doc, cache, request, comp_tasks, reply>>

----------------------------------------------------------------------------
(* Completion and signature help *)

\* A character may have been typed that only sometimes begins a completion.
TriggerFits(line, character, trigger) ==
  LET text == SelectInSeq(line, LAMBDA byte : ~IsBlank(byte))
      Two(byte) == character >= 2 /\ character - 1 <= Len(line) /\ line[character - 1] = byte
  IN CASE trigger \in {Quoted, Slash, Less} -> text /= 0 /\ line[text] = Hash
       [] trigger = Colon -> Two(Colon)
       [] trigger = Greater -> Two(Dash)
       [] OTHER -> TRUE

LineAt(wf, pos) ==
  IF Line(pos) < Len(wf.buffer_lines) THEN wf.buffer_lines[Line(pos) + 1] ELSE <<>>

RequestAt(kind, path, pos) ==
  LET at == getCompletionPosition(files[path].buffer_content, pos)
  IN [kind |-> kind, path |-> path, position |-> pos, begin |-> at.pos, filter |-> at.filter,
      line |-> LineAt(files[path], pos), raced |-> FALSE]

isCacheValid(c, r) ==
  /\ c.position = r.begin /\ c.path = r.path
  /\ SubSeq(c.line, 1, Minimum(Column(r.begin), Len(c.line)))
       = SubSeq(r.line, 1, Minimum(Column(r.begin), Len(r.line)))

\* The place clang is asked about: the begin of the identifier for a
\* completion, the cursor for a signature.
Asked(r) == IF r.kind = "completion" THEN r.begin ELSE r.position

\* |seen| only remembers, for the properties, the line that clang saw.
Reply(r, result, seen, items) == [to |-> r, seen |-> seen, results |-> result, items |-> items]

Answer(r, result, seen) ==
  Reply(r, result, seen,
    IF r.kind = "completion"
    THEN filterCandidates(ProcessCodeCompleteResults(result), r.filter,
                          r.begin, r.position, r.line)
    ELSE ProcessOverloadCandidates(result))

\* What is to be overwritten lies behind the line: substr() throws.
Throws(r, result) ==
  r.kind = "completion" /\
    OutOfRange(Candidates(ProcessCodeCompleteResults(result), r.filter), r.begin, r.line)

\* The handlers up to the first lock of the cache.  The last character of the
\* document before the cursor may be what triggered the request.
Request(kind, path) ==
  /\ Event /\ IsOpen(path)
  /\ \E k \in 0..Len(doc[path]), typed \in BOOLEAN :
       LET pos == PosAt(doc[path], k)
           r == RequestAt(kind, path, pos)
           refused == /\ kind = "completion" /\ typed /\ k > 0
                      /\ ~TriggerFits(r.line, Column(pos), doc[path][k][1])
       IN IF refused
          THEN /\ reply' = Reply(r, <<>>, r.line, <<>>)
               /\ UNCHANGED <<request, comp_tasks>>
          ELSE IF isCacheValid(cache[kind], r)
          THEN request' = r /\ UNCHANGED <<comp_tasks, reply>>
          ELSE comp_tasks' = Append(comp_tasks, r) /\ UNCHANGED <<request, reply>>
  /\ UNCHANGED <<doc, files, indexed, cache>>

\* The second lock.  What the handler throws is answered with an error
\* (message_handler.cc MessageHandler::run): a reply without items.
ReadCache ==
  /\ alive /\ request /= NoFile
  /\ LET c == cache[request.kind]
     IN reply' = IF Throws(request, c.result) THEN Reply(request, c.result, c.seen, <<>>)
                 ELSE Answer(request, c.result, c.seen)
  /\ request' = NoFile
  /\ UNCHANGED <<doc, files, indexed, cache, comp_tasks, events, changes, alive>>

\* The completion thread has the buffer as it is now, the request as it was.  No
\* one catches what is thrown there: the server ends.
CompDone ==
  /\ alive /\ comp_tasks /= <<>>
  /\ LET r == Head(comp_tasks)
         seen == IF IsOpen(r.path) THEN LineAt(files[r.path], r.position) ELSE <<>>
         result == Clang(r.kind, getContent(files, r.path), Asked(r))
     IN IF Throws(r, result)
        THEN alive' = FALSE /\ UNCHANGED <<reply, cache>>
        ELSE /\ reply' = Answer(r, result, seen)
             /\ cache' = [cache EXCEPT ![r.kind] =
                            [path |-> r.path, line |-> r.line, position |-> r.begin,
                             result |-> result, seen |-> seen]]
             /\ UNCHANGED alive
  /\ comp_tasks' = Tail(comp_tasks)
  /\ request' = IF request = NoFile THEN NoFile ELSE [request EXCEPT !.raced = TRUE]
  /\ UNCHANGED <<doc, files, indexed, events, changes>>

\* A newer request is there: the callback has no consumer and does nothing.
CompDrop ==
  /\ alive /\ Len(comp_tasks) > 1
  /\ comp_tasks' = Tail(comp_tasks)
  /\ UNCHANGED <<doc, files, indexed, cache, request, reply, events, changes, alive>>

----------------------------------------------------------------------------
(* Formatting; the file is found only if it has an index *)

format(path, offset, length) ==
  LET code == files[path].buffer_content
      repls == Reformatted(code, offset, length)
  IN reply' = [to |-> [kind |-> "formatting", path |-> path, text |-> doc[path]],
               repls |-> repls, edits |-> replacementsToEdits(code, repls)]

CanFormat(path) == Event /\ IsOpen(path) /\ indexed[path] /= NoFile

textDocument_formatting(path) ==
  /\ CanFormat(path)
  /\ format(path, 0, Len(files[path].buffer_content))
  /\ UNCHANGED <<doc, files, indexed, cache, request, comp_tasks>>

textDocument_rangeFormatting(path) ==
  /\ CanFormat(path)
  /\ \E a \in 0..Len(doc[path]) : \E b \in a..Len(doc[path]) :
       LET code == files[path].buffer_content
           begin == getOffsetForPosition(PosAt(doc[path], a), code)
           end == getOffsetForPosition(PosAt(doc[path], b), code)
       IN format(path, begin, end - begin)
  /\ UNCHANGED <<doc, files, indexed, cache, request, comp_tasks>>

\* From the last brace before the cursor, or nothing.
textDocument_onTypeFormatting(path) ==
  /\ CanFormat(path)
  /\ \E k \in 0..Len(doc[path]) :
       LET code == files[path].buffer_content
           pos == getOffsetForPosition(PosAt(doc[path], k), code)
           braces == {i \in 1..Minimum(pos + 1, Len(code)) : code[i] = BraceOpen}
           lbrace == IF braces = {} THEN pos ELSE Max(braces) - 1
       IN format(path, lbrace, pos - lbrace)
  /\ UNCHANGED <<doc, files, indexed, cache, request, comp_tasks>>

Next ==
  \/ \E path \in Paths :
       \/ didOpen(path) \/ didChange(path) \/ didChangeTwice(path) \/ didClose(path)
       \/ Indexed(path)
       \/ \E kind \in Kinds : Request(kind, path)
       \/ textDocument_formatting(path)
       \/ textDocument_rangeFormatting(path)
       \/ textDocument_onTypeFormatting(path)
  \/ ReadCache \/ CompDone \/ CompDrop

Spec == Init /\ [][Next]_vars

----------------------------------------------------------------------------
(* Properties *)

\* However the client's changes are said, several in one notification and with
\* characters of several bytes among them, the server's buffer is the client's
\* document.
BufferIsDocument ==
  \A path \in DOMAIN files :
    /\ files[path].buffer_content = Bytes(doc[path])
    /\ files[path].buffer_lines = toLines(Bytes(doc[path]))

\* Of index and buffer, the lines that are mapped to each other are equal; what
\* the inverse says the mapping confirms; a text that did not change maps to
\* itself from its first to its last unique line.
MappingSound(wf) ==
  LET mapping == computeLineMapping(wf.index_lines, wf.buffer_lines)
      to == mapping.index_to_buffer
      from == mapping.buffer_to_index
      unique == {i \in DOMAIN to : IsUnique(wf.index_lines, i + 1)}
  IN /\ \A i \in DOMAIN to : to[i] >= 0 =>
          wf.index_lines[i + 1] = wf.buffer_lines[to[i] + 1] /\ from[to[i]] >= i
     /\ \A j \in DOMAIN from : from[j] >= 0 => to[from[j]] = j
     /\ (wf.index_lines = wf.buffer_lines /\ unique /= {}) => \A i \in DOMAIN to : to[i] = i

\* Line i of the index and line j of the buffer are equal, and neither text has
\* another line like them.
OnlyMatch(a, b, i, j) ==
  IsUnique(a, i + 1) /\ {k \in 0..Len(b) - 1 : a[i + 1] = b[k + 1]} = {j}

\* A range of the index, over one line or several, is put into the buffer so that
\* it begins in the buffer and never ends before it begins.  Each of its ends that
\* lies on a line that is still the only one of its kind is where its text is,
\* unless that puts the end before the start: then the range keeps its height, and
\* may reach beyond the buffer, as it may when it ends behind the last line, which
\* is taken to the line of the size of the buffer.
RangeFollows(wf, from, to, range) ==
  LET a == wf.index_lines
      b == wf.buffer_lines
  IN range = NoFile
     \/ /\ Line(range.start) < Len(b)
        /\ AtOrBefore(range.start, range.end)
        /\ \/ Line(range.end) < Len(b)
           \/ Line(range.end) - Line(range.start) = Line(to) - Line(from)
           \/ Line(to) = Len(a) /\ Line(range.end) = Len(wf.buffer_content)
        /\ \A j \in 0..Len(b) - 1 : OnlyMatch(a, b, Line(from), j) => range.start = <<j, Column(from)>>
        /\ \A j \in 0..Len(b) - 1 :
             (/\ Line(to) < Len(a) /\ OnlyMatch(a, b, Line(to), j)
              /\ AtOrBefore(range.start, <<j, Column(to)>>)) =>
                 range.end = <<j, Column(to)>>

\* The places of a text: each column of a line, and the begin of the line behind
\* the last.
Places(lines) ==
  {<<Len(lines), 0>>}
  \cup UNION {{<<line, column>> : column \in 0..Len(lines[line + 1])} : line \in 0..Len(lines) - 1}

\* Whatever was typed since the index was made, its ranges can be shown: the
\* mapping of lines is sound and ranges follow their text.  (A reply changes no
\* file: it is enough to look at the states without one.)
RangesFollowText ==
  reply = NoFile => \A path \in DOMAIN files :
    LET wf == files[path]
    IN wf.index_lines /= <<>> =>
         /\ MappingSound(wf)
         /\ \A from, to \in Places(wf.index_lines) :
              Line(from) < Len(wf.index_lines) /\ AtOrBefore(from, to) =>
                RangeFollows(wf, from, to, getLsRange(wf, RangeOf(from, to)))

\* The columns of a completion count bytes where it begins and characters where
\* it ends, and at the end of a text without a newline it begins one byte early.
OneByteLine(r) == \A k \in 1..Len(r.line) : r.line[k] < 128
BeginsAtIdentifier(r) ==
  Line(r.begin) = Line(r.position) /\ Column(r.position) - Column(r.begin) = Len(r.filter)

\* An item put into the line it was asked for: its edit and its further edits.
Accepted(line, edit, further) ==
  LET One(e, t) == SubSeq(t, 1, Column(e.range.start)) \o e.newText
                     \o SubSeq(t, Column(e.range.end) + 1, Len(t))
  IN FoldRight(One, further \o <<edit>>, line)

\* What an item inserts when its fix and its text have been merged is what clang
\* meant in the line as it was asked for: the fix where it is, the text in place of
\* the identifier; and nothing overlaps, so that the client may apply edits in any
\* order.
EditsFit ==
  (reply /= NoFile /\ reply.to.kind = "completion" /\ OneByteLine(reply.to)
     /\ BeginsAtIdentifier(reply.to) /\ reply.seen = reply.to.line /\ ~reply.to.raced) =>
    LET r == reply.to
        candidates == ProcessCodeCompleteResults(reply.results)
        Meant(c) == {Accepted(r.line, [range |-> RangeOf(r.begin, r.position), newText |-> text], c.edits) :
                       text \in {c.newText, c.filterText}}
    IN \A i \in 1..Len(reply.items) :
         LET item == reply.items[i]
         IN /\ \E c \in Range(candidates) :
                 Accepted(r.line, item, item.edits) \in Meant(c)
            /\ \A k \in 1..Len(item.edits) : AtOrBefore(item.edits[k].range.end, item.range.start)
            /\ item.range = reply.items[1].range

\* The items with fewer further edits come first, among those the ones with the
\* better alignment of what was typed, and the score is that of the best alignment
\* where there is one.  (An item is known by its label.)
RankedByAlignment ==
  (/\ reply /= NoFile /\ reply.to.kind = "completion" /\ reply.to.filter /= <<>>
   /\ g_config.filterAndSort) =>
    LET p == Pattern(reply.to.filter, FilterCase)
        candidates == Range(ProcessCodeCompleteResults(reply.results))
        Fixes(item) == {Len(c.edits) : c \in {d \in candidates : d.label = item.label}}
    IN /\ \A c \in candidates :
            LET text == FilterText(c)
            IN (Alignments(p, text) /= {} /\ Len(text) <= kMaxText) =>
                 match(p, text, FALSE) = BestScore(p, text)
       /\ \A i, j \in 1..Len(reply.items) : i < j =>
            \E m \in Fixes(reply.items[i]), n \in Fixes(reply.items[j]) :
              m < n \/ (m = n /\ reply.items[i].score >= reply.items[j].score)
       /\ Len(reply.items) <= g_config.maxNum

\* A client that applies the edits has what clang-format made of the bytes.
FormatFits ==
  (reply /= NoFile /\ reply.to.kind = "formatting") =>
    LET code == Bytes(reply.to.text)
        One(r, t) == SubSeq(t, 1, r.offset) \o r.text \o SubSeq(t, r.offset + r.length + 1, Len(t))
        Place(pos) == \E k \in 0..Len(reply.to.text) : PosAt(reply.to.text, k) = pos
    IN /\ \A edit \in Range(reply.edits) : Place(edit.range.start) /\ Place(edit.range.end)
       /\ Bytes(ClientApplies(reply.to.text, reply.edits)) = FoldRight(One, reply.repls, code)
=============================================================================
