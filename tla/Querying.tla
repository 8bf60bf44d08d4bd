------------------------------ MODULE Querying ------------------------------
(***************************************************************************)
(* From the text to the answer: files change, an indexer makes index files *)
(* of a translation unit (module Indexer), the main loop merges their      *)
(* deltas into the database one at a time (Database) and answers requests  *)
(* from it (Hierarchy, Navigation, Highlight).  There is one indexer: what *)
(* several of them do to the same file is the matter of IndexPipeline, and *)
(* which requests have to wait that of MainLoop.                           *)
(***************************************************************************)
EXTENDS Highlight

CONSTANTS
  Sources,       \* the main files of translation units
  MaxRev,        \* of each file the bound on its revisions, from 1
  MaxChanges,    \* bound on how often files change
  Events(_, _),  \* what clang reports of a main file, given the files' revisions
  NoLinkage,     \* whether names without linkage are indexed
  Sought,        \* the names that match when symbols are searched
  Queries        \* the names of the requests that are made

ASSUME SourcesAssumption == Sources \subseteq DOMAIN MaxRev

VARIABLES
  revs,        \* of each file the revision on disk, 0 if it was deleted
  changes,     \* how often files have changed
  stamped,     \* VFS: of each file the revision it was last indexed in
  stored,      \* of each file the index file in the cache, or None
  on_indexed,  \* updates for the main loop
  db,          \* the database
  reply        \* what is about to be sent, with the question if it is an answer

vars == <<revs, changes, stamped, stored, on_indexed, db, reply>>

Files == DOMAIN MaxRev
NoReply == [method |-> None]

Init ==
  /\ revs = [p \in Files |-> 1]
  /\ changes = 0
  /\ stamped = [p \in Files |-> 0]
  /\ stored = [p \in Files |-> None]
  /\ on_indexed = <<>>
  /\ db = EmptyDB
  /\ reply = NoReply

Change(p) ==
  /\ reply = NoReply
  /\ revs[p] \in 1..MaxRev[p] - 1 /\ changes < MaxChanges
  /\ revs' = [revs EXCEPT ![p] = @ + 1]
  /\ changes' = changes + 1
  /\ UNCHANGED <<stamped, stored, on_indexed, db, reply>>

Delete(p) ==
  /\ reply = NoReply
  /\ p \in Sources /\ revs[p] /= 0 /\ stamped[p] /= 0 /\ changes < MaxChanges
  /\ revs' = [revs EXCEPT ![p] = 0]
  /\ changes' = changes + 1
  /\ UNCHANGED <<stamped, stored, on_indexed, db, reply>>

\* For each index file, in any order: the delta to the one that was stored before,
\* which it replaces.
Store(indexed) ==
  /\ \E order \in SetToSeqs(DOMAIN indexed) :
       on_indexed' = on_indexed
         \o [i \in 1..Len(order) |-> createDelta(stored[order[i]], indexed[order[i]])]
  /\ stored' = indexed @@ stored

\* A deleted file gets an index file with nothing in it; of one that changed, or
\* that includes one that did, clang is asked again.
Reindex(main) ==
  LET events == Events(main, revs)
      seen == {events[i].file : i \in 1..Len(events)}
      newer == {p \in Files : revs[p] > stamped[p]}
  IN /\ reply = NoReply
     /\ IF revs[main] = 0 THEN stamped[main] /= 0 ELSE seen \cap newer /= {}
     /\ Store(IF revs[main] = 0 THEN main :> NewIndexFile(main, FALSE)
              ELSE index(main, events, newer, NoLinkage))
     /\ stamped' = [p \in Files |-> IF revs[main] = 0
                                    THEN IF p = main THEN 0 ELSE stamped[p]
                                    ELSE IF p \in seen THEN revs[p] ELSE stamped[p]]
     /\ UNCHANGED <<revs, changes, db, reply>>

\* main_OnIndexed: the update is merged, and what is highlighted in its file is
\* published, as if each file were open.
Apply ==
  /\ reply = NoReply
  /\ on_indexed /= <<>>
  /\ db' = applyIndexUpdate(db, Head(on_indexed))
  /\ LET path == Head(on_indexed).files_def_update.path
     IN reply' = [method |-> "publish", path |-> path,
                  skipped |-> emitSkippedRanges(db', path),
                  pieces |-> emitSemanticHighlight(db', path)]
  /\ on_indexed' = Tail(on_indexed)
  /\ UNCHANGED <<revs, changes, stamped, stored>>

----------------------------------------------------------------------------
(* Requests *)

AboutPlaces ==
  {"declaration", "definition", "typeDefinition", "implementation", "references", "rename",
   "documentHighlight", "hover", "call", "inheritance", "member", "vars", "navigate"}
Beyond(extents, pos) == {Down(extents, pos), Left(extents, pos), Right(extents, pos), Up(extents, pos)}

\* What a request is answered with, as the set of places if it is a list of them.
Answered(method, path, pos) ==
  CASE method = "declaration" -> textDocument_declaration(db, path, pos)
    [] method = "definition" -> textDocument_definition(db, path, pos, None)
    [] method = "typeDefinition" -> textDocument_typeDefinition(db, path, pos)
    [] method = "implementation" -> textDocument_implementation(db, path, pos)
    [] method = "references" ->
         textDocument_references(db, path, pos, {}, FALSE, {}, {}, TRUE)
    [] method = "rename" -> textDocument_rename(db, path, pos, Files)
    [] method = "documentHighlight" -> textDocument_documentHighlight(db, path, pos)
    [] method = "hover" -> textDocument_hover(db, path, pos)
    [] method = "call" -> ccls_call(db, None, path, pos, FALSE, {"Base", "Derived"}, 2)
    [] method = "inheritance" -> inheritance(db, None, None, path, pos, FALSE, 2)
    [] method = "member" -> ccls_member(db, None, path, pos, 2, "Var")
    [] method = "vars" -> ccls_vars(db, path, pos, {1, 2, 4})
    [] method = "navigate" -> Beyond(Extents(db, path), pos)

\* The same for requests about a whole file, or about all of them.
AnsweredFor(method, path) ==
  CASE method = "codeLens" ->
         UNION {ToSet(workspace_executeCommand(db, lens)) : lens \in textDocument_codeLens(db, path)}
    [] method = "documentLink" -> textDocument_documentLink(db, path)
    [] method = "documentSymbol" -> DocumentSymbolRanges(db, path, 0, Len(db.files[path].def.includes))
    [] method = "symbolInformation" -> SymbolInformation(db, path)
    [] method = "foldingRange" -> textDocument_foldingRange(db, path)
    [] method = "symbol" -> UNION workspace_symbol(db, Sought, {}, 2)
    [] method = "fileInfo" -> ccls_fileInfo(db, path)
    [] method = "info" -> ccls_info(db)

\* run: the handler of a request about a place in a file that is indexed.  The
\* database is the main thread's, and what others do meanwhile does not change an
\* answer, so it is sent before anything else happens.
Answer(method, path, pos) ==
  /\ reply = NoReply /\ method \in Queries
  /\ findFile(db, path) /= None
  /\ pos \in {r.range.start : r \in Present(db.files[path])}
  /\ reply' = [method |-> method, path |-> path, pos |-> pos,
               result |-> Answered(method, path, pos)]
  /\ UNCHANGED <<revs, changes, stamped, stored, on_indexed, db>>

AnswerFor(method, path) ==
  /\ reply = NoReply /\ method \in Queries
  /\ findFile(db, path) /= None
  /\ reply' = [method |-> method, path |-> path, result |-> AnsweredFor(method, path)]
  /\ UNCHANGED <<revs, changes, stamped, stored, on_indexed, db>>

Send ==
  /\ reply /= NoReply
  /\ reply' = NoReply
  /\ UNCHANGED <<revs, changes, stamped, stored, on_indexed, db>>

Next ==
  \/ \E p \in Files : Change(p)
  \/ \E p \in Sources : Delete(p)
  \/ \E main \in Sources : Reindex(main)
  \/ Apply
  \/ \E method \in Queries \cap AboutPlaces, path \in DOMAIN db.files :
       \E pos \in {r.range.start : r \in DOMAIN db.files[path].symbol2refcnt} :
         Answer(method, path, pos)
  \/ \E method \in Queries \ AboutPlaces, path \in DOMAIN db.files : AnswerFor(method, path)
  \/ Send

Spec == Init /\ [][Next]_vars

----------------------------------------------------------------------------
(* Properties.  Those of the database alone are looked at when no answer is about
   to be sent, as an answer leaves the database alone. *)

\* What the database has of a file: the index file that was stored last or, while
\* updates about the file are pending, what the first of them takes out.
Pending(path) == SelectSeq(on_indexed, LAMBDA u : u.files_def_update.path = path)
Defs(path) ==
  IF Pending(path) /= <<>> THEN Pending(path)[1].removed
  ELSE [s \in {s \in DOMAIN EntsOf(stored[path]) : stored[path].ents[s].def.name /= None} |->
          stored[path].ents[s].def]
EntityIn(path, sym) ==
  IF Pending(path) = <<>> THEN EntityOf(stored[path], sym)
  ELSE IF sym \in DOMAIN Pending(path)[1].first THEN Pending(path)[1].first[sym] ELSE NewEntity
Syms == DOMAIN db.ents

\* The references that index files make: of each file the places, each with how
\* often it is there.
References ==
  FoldSet(LAMBDA ps, refs : refs \o RefsOf(ps[1], ps[2], Defs(ps[1]), EntityIn(ps[1], ps[2])),
          <<>>, Files \X Syms)

\* A symbol is counted at a place as often as index files refer to it there, all
\* of them, whichever file they were made from; a place that none refers to is
\* not kept (the assert of applyIndexUpdate and what it leaves behind).
RefcountsAreReferences ==
  LET refs == References
  IN reply = NoReply =>
     /\ \A p \in DOMAIN db.files : \A r \in DOMAIN db.files[p].symbol2refcnt :
          db.files[p].symbol2refcnt[r] = Cardinality({i \in 1..Len(refs) : refs[i] = <<p, r>>})
     /\ \A i \in 1..Len(refs) : refs[i][2] \in DOMAIN db.files[refs[i][1]].symbol2refcnt

Fields == {"declarations", "derived", "instances", "uses"}
\* The elements of a list: usrs, and of declarations and uses where they are, which
\* is what removeRange compares.
Keys(field, seq) ==
  IF field \in {"derived", "instances"} THEN seq
  ELSE [i \in 1..Len(seq) |-> <<seq[i].range, seq[i].file>>]
Contributed(path, sym, field) ==
  LET e == EntityIn(path, sym)
      placed(u) == IF field = "uses" THEN Widen(sym, assignFileId(path, u)) ELSE assignFileId(path, u)
  IN IF field \in {"derived", "instances"} THEN e[field]
     ELSE Keys(field, [i \in 1..Len(e[field]) |-> placed(e[field][i])])
Times(x, seq) == Cardinality({i \in 1..Len(seq) : seq[i] = x})

\* An entity has one definition for each file that defines it, as that file has
\* it, and lists nothing more often than index files do, however they were
\* merged: nothing stale is left behind by any order of updates.
NothingStale ==
  reply = NoReply => \A sym \in Syms :
    /\ \A p \in Files :
         LET own == SelectSeq(db.ents[sym].def, LAMBDA d : d.file = p)
         IN own = IF sym \in DOMAIN Defs(p)
                  THEN <<[def |-> WithSpell(p, Defs(p)[sym]), file |-> p]>> ELSE <<>>
    /\ \A field \in Fields :
         LET all == FoldSet(LAMBDA p, seq : seq \o Contributed(p, sym, field), <<>>, Files)
             merged == Keys(field, db.ents[sym][field])
         IN \A x \in ToSet(merged) : Times(x, merged) <= Times(x, all)

\* Each usr that a request may follow is known to the database, as getFunc, getType
\* and getVar take one that is not for the first entity of all.  The type of an
\* enumerator is the exception: the indexer does not call toType for it.
UsrsRegistered ==
  LET known(kind, usrs) == \A u \in ToSet(usrs) : <<kind, u>> \in Syms
  IN reply = NoReply => \A sym \in Syms :
       /\ known(sym[1], db.ents[sym].derived) /\ known("Var", db.ents[sym].instances)
       /\ \A i \in 1..Len(db.ents[sym].def) :
            LET def == db.ents[sym].def[i].def
            IN /\ known(sym[1], def.bases)
               /\ known("Func", def.funcs) /\ known("Type", def.types) /\ known("Var", def.vars)
               /\ known("Func", [k \in 1..Len(def.callees) |-> def.callees[k].usr])
               /\ def.alias_of /= None => <<"Type", def.alias_of>> \in Syms
               /\ def.type /= None /\ def.kind /= "EnumMember" => <<"Type", def.type>> \in Syms

\* Each place that is answered is one where the database has a symbol, and for
\* references and renaming the symbol that was asked for: lists of entities and the
\* counts of files tell the same, also of deleted files and halfway through the
\* updates of a translation unit.
PlacesOf(answer) ==
  CASE answer.method = None -> {}
    [] answer.method \in {"declaration", "definition", "typeDefinition", "implementation",
                          "references", "rename", "vars"} -> answer.result
    [] answer.method \in {"call", "inheritance", "member"} ->
         IF answer.result = None THEN {}
         ELSE {n.location : n \in {answer.result} \cup Descendants(answer.result)} \ {None}
    [] answer.method = "codeLens" -> {LocationOf(use) : use \in answer.result}
    [] answer.method \in {"symbol", "symbolInformation"} -> {found.location : found \in answer.result}
    [] OTHER -> {}

PlacesExist ==
  LET asked == {SymOf(r) : r \in ToSet(findSymbolsAtLocation(db.files[reply.path], reply.pos))}
      included(l) == l.range.start = l.range.end
  IN \A l \in PlacesOf(reply) :
       \/ included(l)
       \/ \E r \in Present(db.files[l.path]) :
            /\ r.range = l.range
            /\ reply.method \in {"references", "rename"} => SymOf(r) \in asked

\* Who is called by a function has it among its callers: $ccls/call follows the
\* callees that the indexer listed one way, and extents around uses the other.
CallsAreDual ==
  reply = NoReply => \A sym \in Syms :
    LET def == anyDef(db.ents[sym])
    IN sym[1] = "Func" /\ def /= None =>
         \A i \in 1..Len(def.def.callees) :
           \E n \in ToSet(handle_uses(db, def.def.callees[i].usr, FALSE, "Direct")) : n.usr = sym[2]

\* In the outline of a document each symbol is in the innermost scope that is open
\* where it is.
SymbolsNest ==
  reply = NoReply => \A p \in {p \in DOMAIN db.files : findFile(db, p) /= None} :
    LET res == textDocument_documentSymbol(db, p)
        open(i, j) == /\ AtOrBefore(res[j].range.start, res[i].selectionRange.start)
                      /\ Before(res[i].selectionRange.start, res[j].range.end)
    IN \A i \in 1..Len(res) :
         LET around == {j \in 1..i - 1 : open(i, j)}
         IN res[i].parent = IF around = {} THEN 0 ELSE Max(around)

\* What is highlighted at a place is one symbol: of those there the one that begins
\* last, ends first and is a macro rather than anything else.
HighlightInnermost ==
  reply.method = "publish" =>
    LET grouped == Grouped(db, reply.path)
        pieces == reply.pieces
        covers(g, pos) == AtOrBefore(g.range.start, pos) /\ Before(pos, g.range.end)
        hides(g, f) == \/ Before(f.range.start, g.range.start)
                       \/ /\ f.range.start = g.range.start
                          /\ \/ Before(g.range.end, f.range.end)
                             \/ g.range.end = f.range.end /\ KindNumber[g.kind] > KindNumber[f.kind]
    IN \A pos \in {g.range.start : g \in grouped} \cup {x.range.start : x \in pieces} :
         LET there == {x \in pieces : covers(x, pos)}
             shown == {g \in grouped : covers(g, pos)}
         IN \E g \in shown : /\ there /= {} /\ \A x \in there : x.symbol = g.symbol /\ Cardinality(there) = 1
                             /\ \A f \in shown : ~hides(f, g)
============================================================================
