----------------------------- MODULE Navigation -----------------------------
(***************************************************************************)
(* The requests that answer with places: messages/                         *)
(* textDocument_definition.cc, textDocument_references.cc,                 *)
(* textDocument_rename.cc, textDocument_document.cc,                       *)
(* textDocument_foldingRange.cc, textDocument_code.cc,                     *)
(* textDocument_hover.cc, ccls_navigate.cc, ccls_info.cc and the symbol    *)
(* search of workspace.cc.  A request is answered from one state of the    *)
(* database, in a file that is open and indexed (findOrFail: see module    *)
(* MainLoop); its buffer is taken to be what was indexed, as module        *)
(* WorkingFiles is about the difference.  Replies are sets where the code  *)
(* sorts them or takes them from a hash table.                             *)
(***************************************************************************)
EXTENDS Hierarchy

CONSTANT Reads(_)  \* whether the text at a place is the name of its symbol

\* findOrFail: the file, if it is indexed.
findFile(db, path) ==
  IF path \in DOMAIN db.files /\ db.files[path].def /= None THEN db.files[path] ELSE None

\* getLocationLink: the extent, unless it does not include the range.
getLocationLink(dr) ==
  [path |-> dr.file, range |-> dr.range,
   target |-> IF Includes(dr.extent, dr.range) THEN dr.extent ELSE dr.range]

\* The symbols that are there: refcnt > 0.
Present(file) == {r \in DOMAIN file.symbol2refcnt : file.symbol2refcnt[r] > 0}

OnIt(use, path, pos) == use.file = path /\ ContainsPos(use.range, pos)

----------------------------------------------------------------------------
(* Declarations and definitions *)

textDocument_declaration(db, path, pos) ==
  {getLocationLink(dr) : dr \in
     {dr \in UNION {ToSet(getNonDefDeclarations(db, SymOf(r))) :
                      r \in ToSet(findSymbolsAtLocation(db.files[path], pos))} :
        ~OnIt(dr, path, pos)}}

\* findSymbolsAtLocation, the smallest range only: the symbols of its kind there.
Smallest(syms) ==
  LET differ == {i \in 1..Len(syms) : syms[i].range /= syms[1].range \/ syms[i].kind /= syms[1].kind}
  IN IF differ = {} THEN ToSet(syms) ELSE ToSet(SubSeq(syms, 1, Min(differ) - 1))

\* Of one symbol: its definitions; at a definition the declarations elsewhere, or
\* else the definition itself.
DefinitionsOf(db, sym, path, pos) ==
  LET defs == getEntity(db, sym).def
      spells == SelectSeq([i \in 1..Len(defs) |-> defs[i].def.spell], LAMBDA s : s /= None)
      on_def == SelectSeq(spells, LAMBDA s : OnIt(s, path, pos))
      decls == {dr \in ToSet(getNonDefDeclarations(db, sym)) : ~OnIt(dr, path, pos)}
  IN IF on_def = <<>> /\ spells /= <<>> THEN ToSet(spells)
     ELSE IF decls /= {} THEN decls
     ELSE IF on_def /= <<>> THEN {on_def[1]} ELSE {}

\* The file an #include names, or the symbol of that name whose definition is
\* nearest: in the same file, then by lines.
IncludedAt(file, line) ==
  LET at == SelectSeq(file.def.includes, LAMBDA i : i.line = line)
  IN IF at = <<>> THEN None ELSE at[1].path

Local(db, sym) ==
  LET defs == getEntity(db, sym).def
  IN sym[1] = "Var" /\ (defs = <<>> \/ defs[1].def.parent_kind \in {"Function", "Method", "Constructor"})

NamedLike(db, name, path, pos) ==
  LET candidates == {s \in DOMAIN db.ents : /\ ~Local(db, s) /\ getSymbolName(db, s) = name
                                            /\ getDefinitionSpell(db, s) /= None}
      distance(s) == LET d == Line(getDefinitionSpell(db, s).range.start) - Line(pos)
                     IN IF d < 0 THEN -d ELSE d
      far(s) == IF getDefinitionSpell(db, s).file /= path THEN 65536 ELSE 0
      best == {s \in candidates : \A t \in candidates : far(s) + distance(s) <= far(t) + distance(t)}
  IN IF best = {} THEN {} ELSE {getLocationLink(getDefinitionSpell(db, CHOOSE s \in best : TRUE))}

textDocument_definition(db, path, pos, name) ==
  LET found == UNION {DefinitionsOf(db, SymOf(r), path, pos) :
                        r \in Smallest(findSymbolsAtLocation(db.files[path], pos))}
      included == IncludedAt(db.files[path], Line(pos))
  IN IF found /= {} THEN {getLocationLink(dr) : dr \in found}
     ELSE IF included /= None
     THEN {[path |-> included, range |-> RangeOf(<<0, 0>>, <<0, 0>>), target |-> RangeOf(<<0, 0>>, <<0, 0>>)]}
     ELSE NamedLike(db, name, path, pos)

\* The definitions of a type, and its declarations if nothing was found so far.
TypePlaces(db, found, usr) ==
  LET type == getEntity(db, <<"Type", usr>>)
      spells == {type.def[i].def.spell : i \in 1..Len(type.def)} \ {None}
  IN IF found \cup spells = {} THEN ToSet(type.declarations) ELSE found \cup spells

textDocument_typeDefinition(db, path, pos) ==
  LET type(sym) ==
        LET entity == getEntity(db, sym)
            def == anyDef(entity)
            aliases == SelectSeq(entity.def, LAMBDA d : d.def.alias_of /= None)
        IN CASE sym[1] = "Var" /\ def /= None -> <<def.def.type>>
             [] sym[1] = "Type" /\ aliases /= <<>> -> <<aliases[1].def.alias_of>>
             [] OTHER -> <<>>
      syms == findSymbolsAtLocation(db.files[path], pos)
      types == SelectSeq(FlattenSeq([i \in 1..Len(syms) |-> type(SymOf(syms[i]))]),
                         LAMBDA u : u /= None)
  IN {getLocationLink(dr) : dr \in FoldLeft(LAMBDA found, u : TypePlaces(db, found, u), {}, types)}

----------------------------------------------------------------------------
(* References and renaming *)

\* The functions that a function overrides count as the same symbol, if they are
\* those of a definition.
WithOverridden(db, sym) ==
  LET spelt(u) == SelectSeq(getEntity(db, <<"Func", u>>).def, LAMBDA d : d.def.spell /= None)
      bases == [u \in FuncUsrs(db) \cup {sym[2]} |->
                  IF spelt(u) = <<>> THEN {} ELSE ToSet(spelt(u)[1].def.bases)]
  IN IF sym[1] /= "Func" THEN {sym}
     ELSE {sym} \cup {<<"Func", u>> : u \in Reached(sym[2], bases)}

\* Files that include what is included at the line or, from the first and the last
\* line, the file itself; the last line is taken to be the last with a symbol.
Includers(db, path, line) ==
  LET last == \A r \in Present(db.files[path]) : Line(r.range.start) <= line
      own == IF line = 0 \/ last THEN path ELSE None
      included == IncludedAt(db.files[path], line)
      target == IF included /= None THEN included ELSE own
      At(p) == SelectSeq(db.files[p].def.includes, LAMBDA i : i.path = target)
  IN IF target = None THEN {}
     ELSE {[path |-> p, range |-> RangeOf(<<At(p)[1].line, 0>>, <<At(p)[1].line, 0>>)] :
             p \in {p \in DOMAIN db.files : db.files[p].def /= None /\ At(p) /= <<>>}}

\* With all of the roles and none of the excluded ones, once each place.
textDocument_references(db, path, pos, folders, base, role, excludeRole, includeDeclaration) ==
  LET syms == findSymbolsAtLocation(db.files[path], pos)
      asked == IF base THEN WithOverridden(db, SymOf(syms[1])) ELSE {SymOf(syms[1])}
      uses == UNION {ToSet(Occurrences(db, s, includeDeclaration)) : s \in asked}
      found == IF syms = <<>> THEN {}
               ELSE {LocationOf(u) : u \in {u \in uses : /\ u.file \in getFileSet(db, folders)
                                                         /\ role \subseteq u.role
                                                         /\ u.role \cap excludeRole = {}}}
  IN IF found = {} THEN Includers(db, path, Line(pos)) ELSE found

\* buildWorkspaceEdit: each range once.  In a file that is open only what reads as
\* the old name is changed (Reads); the text of the others is not looked at.
buildWorkspaceEdit(db, sym, opened) ==
  {LocationOf(u) : u \in {u \in ToSet(Occurrences(db, sym, TRUE)) :
                            /\ findFile(db, u.file) /= None
                            /\ u.file \in opened => Reads(u)}}

textDocument_rename(db, path, pos, opened) ==
  LET syms == findSymbolsAtLocation(db.files[path], pos)
  IN IF syms = <<>> THEN {} ELSE buildWorkspaceEdit(db, SymOf(syms[1]), opened)

----------------------------------------------------------------------------
(* What is in a document *)

textDocument_documentHighlight(db, path, pos) ==
  LET syms == {SymOf(r) : r \in Smallest(findSymbolsAtLocation(db.files[path], pos))}
  IN {[range |-> r.range,
       kind |-> IF "Write" \in r.role THEN "Write" ELSE IF "Read" \in r.role THEN "Read" ELSE "Text"] :
        r \in {r \in Present(db.files[path]) : SymOf(r) \in syms}}

textDocument_documentLink(db, path) == ToSet(db.files[path].def.includes)

\* Symbols of definitions, declarations and macros.
Allows(r) == r.role \subseteq {"Definition", "Declaration", "Dynamic"}
Ignored(db, r) ==
  LET def == anyDef(getEntity(db, SymOf(r)))
  IN def = None \/ (r.kind = "Var" /\ Local(db, SymOf(r)))

\* By the start of the range and, if that is the same, the wider extent first.
ByStart(r, s) ==
  \/ Before(r.range.start, s.range.start)
  \/ r.range.start = s.range.start /\ Before(s.extent.end, r.extent.end)

DocumentSymbol(r) ==
  [symbol |-> r, selectionRange |-> r.range,
   range |-> IF Includes(r.extent, r.range) THEN r.extent ELSE r.range]

\* Into the innermost scope that has not ended; scopes are numbered by the place
\* of their symbol in the result, 0 is the top.
PlaceInScopeMutant(acc, ds) ==
  LET parent == IF acc.scopes = <<>> THEN 0 ELSE acc.scopes[Len(acc.scopes)]
  IN [res |-> Append(acc.res, [parent |-> parent] @@ ds),
      scopes |-> Append(acc.scopes, Len(acc.res) + 1)]

PlaceInScope(acc, ds) ==
  LET ended == {i \in 1..Len(acc.scopes) :
                  AtOrBefore(acc.res[acc.scopes[i]].range.end, ds.selectionRange.start)}
      opened == {i \in 1..Len(acc.scopes) : \E j \in i..Len(acc.scopes) : j \notin ended}
      scopes == SubSeq(acc.scopes, 1, Cardinality(opened))
      parent == IF scopes = <<>> THEN 0 ELSE scopes[Len(scopes)]
  IN [res |-> Append(acc.res, [parent |-> parent] @@ ds),
      scopes |-> Append(scopes, Len(acc.res) + 1)]

textDocument_documentSymbol(db, path) ==
  LET syms == Sorted({r \in Present(db.files[path]) : Valid(r.extent)}, ByStart)
      shown == SelectSeq(syms, LAMBDA r : /\ ~Ignored(db, r)
                                          /\ getSymbolKind(db, SymOf(r)) = "Namespace" \/ Allows(r))
  IN FoldLeft(PlaceInScope, [res |-> <<>>, scopes |-> <<>>],
              [i \in 1..Len(shown) |-> DocumentSymbol(shown[i])]).res

\* A client without hierarchicalDocumentSymbolSupport gets a list.
SymbolInformation(db, path) ==
  {[location |-> LocationOf(UseOf(r.range, r.role, path))] @@ getSymbolInfo(db, SymOf(r)) :
     r \in {r \in Present(db.files[path]) :
              Allows(r) /\ ~(r.kind \in {"Type", "Var"} /\ Ignored(db, r))}}

\* With a range of lines, only the ranges.
DocumentSymbolRanges(db, path, startLine, endLine) ==
  {r.range : r \in {r \in Present(db.files[path]) :
                      Allows(r) /\ Line(r.range.start) \in startLine..endLine}}

textDocument_foldingRange(db, path) ==
  {r.extent : r \in {r \in Present(db.files[path]) : Valid(r.extent) /\ r.kind \in {"Func", "Type"}}}

\* The text of the longest definition up to the one in this file.
textDocument_hover(db, path, pos) ==
  LET syms == findSymbolsAtLocation(db.files[path], pos)
      told == SelectSeq(syms, LAMBDA r : getEntity(db, SymOf(r)).def /= <<>>)
  IN IF told = <<>> THEN None
     ELSE [range |-> told[1].range, contents |-> getSymbolName(db, SymOf(told[1]))]

----------------------------------------------------------------------------
(* $ccls/navigate: to the next extent in a direction *)

Extents(db, path) == {r.extent : r \in {r \in Present(db.files[path]) : Valid(r.extent)}}

\* One that none comes before.
Among(extents, Less(_, _)) ==
  IF extents = {} THEN None ELSE CHOOSE e \in extents : \A f \in extents : ~Less(f, e)

\* findParent: the innermost extent around, the widest of those that start there.
findParent(extents, pos) ==
  Among({e \in extents : AtOrBefore(e.start, pos) /\ Before(pos, e.end)},
        LAMBDA e, f : Before(f.start, e.start) \/ (e.start = f.start /\ Before(f.end, e.end)))

Down(extents, pos) ==
  LET parent == findParent(extents, pos)
  IN Among({e \in extents : /\ Before(pos, e.start)
                            /\ parent = None \/ (parent /= None /\ AtOrBefore(e.end, parent.end))},
           LAMBDA e, f : Before(e.start, f.start))

Left(extents, pos) ==
  Among({e \in extents : AtOrBefore(e.end, pos)},
        LAMBDA e, f : Before(f.end, e.end) \/ (e.end = f.end /\ Before(e.start, f.start)))

\* From the end of the parent, if that is on the same line.
Right(extents, pos) ==
  LET parent == findParent(extents, pos)
      skip == parent /= None /\ Line(parent.start) = Line(pos)
      from == IF skip THEN <<Line(parent.end), IF Column(parent.end) = 0 THEN 0 ELSE Column(parent.end) - 1>>
              ELSE pos
  IN Among({e \in extents : Before(from, e.start)},
           LAMBDA e, f : Before(e.start, f.start) \/ (e.start = f.start /\ Before(f.end, e.end)))

Up(extents, pos) ==
  Among({e \in extents : Before(e.start, pos) /\ Before(pos, e.end)},
        LAMBDA e, f : Before(f.start, e.start))

----------------------------------------------------------------------------
(* Code lenses: how many places a command will show. *)

LensIf(cond, kind, usr, field, num) ==
  IF cond THEN {[kind |-> kind, usr |-> usr, field |-> field, num |-> num]} ELSE {}

FuncLens(db, usr) ==
  LET func == getEntity(db, <<"Func", usr>>)
      base_uses == Cardinality(getUsesForAllBases(db, usr))
      derived_uses == Cardinality(getUsesForAllDerived(db, usr))
      bases == Len(anyDef(func).def.bases)
  IN LensIf(func.uses /= <<>> \/ base_uses = 0, "Func", usr, "uses", Len(func.uses))
       \cup LensIf(base_uses > 0, "Func", usr, "bases uses", base_uses)
       \cup LensIf(derived_uses > 0, "Func", usr, "derived uses", derived_uses)
       \cup LensIf(base_uses = 0 /\ bases > 0, "Func", usr, "bases", bases)
       \cup LensIf(func.derived /= <<>>, "Func", usr, "derived", Len(func.derived))

TypeLens(db, usr) ==
  LET type == getEntity(db, <<"Type", usr>>)
  IN LensIf(TRUE, "Type", usr, "uses", Len(type.uses))
       \cup LensIf(type.derived /= <<>>, "Type", usr, "derived", Len(type.derived))
       \cup LensIf(type.instances /= <<>>, "Type", usr, "instances", Len(type.instances))

VarLens(db, usr) ==
  LET var == getEntity(db, <<"Var", usr>>)
  IN LensIf(var.uses /= <<>> \/ anyDef(var).def.kind /= "Macro", "Var", usr, "uses", Len(var.uses))

\* Of the symbols that are declared or defined; of those with the same range the
\* code takes whichever it meets first, here they all stand.
textDocument_codeLens(db, path) ==
  LET extents == {r \in Present(db.files[path]) : Valid(r.extent)}
      lens(r) == CASE r.kind = "Type" -> TypeLens(db, r.usr)
                   [] r.kind = "Func" -> FuncLens(db, r.usr)
                   [] r.kind = "Var" /\ ~Local(db, SymOf(r)) -> VarLens(db, r.usr)
                   [] OTHER -> {}
  IN UNION {lens(r) : r \in {r \in extents : anyDef(getEntity(db, SymOf(r))) /= None}}

\* $ccls/xref
workspace_executeCommand(db, cmd) ==
  LET entity == getEntity(db, <<cmd.kind, cmd.usr>>)
      def == anyDef(entity)
  IN CASE cmd.field = "uses" -> entity.uses
       [] cmd.field = "bases" ->
            IF def = None THEN <<>> ELSE getDeclarations(db, cmd.kind, def.def.bases)
       [] cmd.field = "bases uses" -> Enumerated(getUsesForAllBases(db, cmd.usr))
       [] cmd.field = "derived" -> getDeclarations(db, cmd.kind, entity.derived)
       [] cmd.field = "derived uses" -> Enumerated(getUsesForAllDerived(db, cmd.usr))
       [] cmd.field = "instances" -> getVarDeclarations(db, entity.instances, {1, 2, 4})

----------------------------------------------------------------------------
\* addSymbol: the definition, or else a declaration, in one of the folders.
SymbolPlace(db, sym, folders) ==
  LET entity == getEntity(db, sym)
      spells == SelectSeq([i \in 1..Len(entity.def) |-> entity.def[i].def.spell], LAMBDA s : s /= None)
      drs == IF spells /= <<>> THEN spells ELSE entity.declarations
      inside == SelectSeq(drs, LAMBDA dr : dr.file \in getFileSet(db, folders))
  IN IF inside = <<>> THEN None ELSE LocationOf(inside[1])

\* workspace/symbol: symbols whose names match the query, at most maxNum (see
\* FuzzyMatch for those names).
workspace_symbol(db, matching, folders, maxNum) ==
  LET found == {s \in DOMAIN db.ents : /\ ~Local(db, s) /\ getSymbolName(db, s) \in matching
                                       /\ SymbolPlace(db, s, folders) /= None}
      num == IF Cardinality(found) < maxNum THEN Cardinality(found) ELSE maxNum
  IN {{[location |-> SymbolPlace(db, s, folders)] @@ getSymbolInfo(db, s) : s \in chosen} :
        chosen \in kSubset(num, found)}

\* $ccls/fileInfo: without an answer if the file is not indexed.
ccls_fileInfo(db, path) == IF findFile(db, path) = None THEN None ELSE db.files[path].def

ccls_info(db) ==
  LET OfKind(kind) == Cardinality({s \in DOMAIN db.ents : s[1] = kind})
  IN [files |-> Cardinality(DOMAIN db.files), funcs |-> OfKind("Func"),
      types |-> OfKind("Type"), vars |-> OfKind("Var")]
============================================================================
