------------------------------ MODULE Database ------------------------------
(***************************************************************************)
(* query.cc and query.hh: the database that all index files are merged     *)
(* into, one update at a time, and the functions with which requests read  *)
(* it.  A file is known by its path (name2file_id is the identity) and an  *)
(* entity by its kind and its usr (func_usr, type_usr and var_usr are the  *)
(* domain of ents).                                                        *)
(***************************************************************************)
EXTENDS Indexer

CONSTANT Folders   \* a function from directories to the files in them

\* symbol2refcnt has a count for each symbol at each place: for a declaration
\* with the extent, for a reference without.
ExtentRef(sym, use, extent) ==
  [kind |-> sym[1], usr |-> sym[2], range |-> use.range, role |-> use.role,
   extent |-> extent]
SymOf(ref) == <<ref.kind, ref.usr>>

NewFile == [def |-> None, symbol2refcnt |-> <<>>]
NewQueryEntity ==
  [def |-> <<>>, declarations |-> <<>>, derived |-> <<>>, instances |-> <<>>, uses |-> <<>>]

\* DB::clear
EmptyDB == [files |-> <<>>, ents |-> <<>>]

hasEntity(db, sym) == sym \in DOMAIN db.ents

----------------------------------------------------------------------------
(* Updates *)

\* What an index file says of its own file.
buildFileDefUpdate(indexed) ==
  [path |-> indexed.path, includes |-> indexed.includes,
   skipped_ranges |-> indexed.skipped_ranges, dependencies |-> indexed.dependencies]

EntsOf(file) == IF file = None THEN <<>> ELSE file.ents
EntityOf(file, sym) == IF sym \in DOMAIN EntsOf(file) THEN file.ents[sym] ELSE NewEntity
PathsOf(file) == UNION {{u.file : u \in ToSet(EntityOf(file, s).uses)} : s \in DOMAIN EntsOf(file)}
                   \ {None}

\* IndexUpdate::createDelta: what is taken out and what is put in.  Only what has
\* a name has a definition, but every entity of either file is in the maps of
\* declarations and uses.
createDeltaMutant(previous, current) ==
  LET named(file) == {s \in DOMAIN EntsOf(file) : file.ents[s].def.name /= None}
  IN [files_def_update |-> buildFileDefUpdate(current),
      lid2path |-> PathsOf(current),
      removed |-> [s \in named(previous) |-> previous.ents[s].def],
      def_update |-> [s \in named(current) |-> current.ents[s].def],
      first |-> [s \in DOMAIN current.ents |-> EntityOf(previous, s)],
      second |-> [s \in DOMAIN current.ents |-> EntityOf(current, s)]]

createDelta(previous, current) ==
  LET syms == DOMAIN EntsOf(previous) \cup DOMAIN current.ents
      named(file) == {s \in DOMAIN EntsOf(file) : file.ents[s].def.name /= None}
  IN [files_def_update |-> buildFileDefUpdate(current),
      lid2path |-> PathsOf(current),
      removed |-> [s \in named(previous) |-> previous.ents[s].def],
      def_update |-> [s \in named(current) |-> current.ents[s].def],
      first |-> [s \in syms |-> EntityOf(previous, s)],
      second |-> [s \in syms |-> EntityOf(current, s)]]

\* assignFileId: the file that a local number stands for.
assignFileId(path, use) == IF use.file = None THEN [use EXCEPT !.file = path] ELSE use
Assigned(path, seq) == [i \in 1..Len(seq) |-> assignFileId(path, seq[i])]

\* The range of a call that is not written out is made a column wider.
Widen(sym, use) ==
  IF sym[1] = "Func" /\ "Implicit" \in use.role
  THEN [use EXCEPT !.range =
         RangeOf(<<Line(@.start), IF Column(@.start) > 0 THEN Column(@.start) - 1 ELSE 0>>,
                 <<Line(@.end), Column(@.end) + 1>>)]
  ELSE use

\* ref, refDecl: count a symbol at its place up or down; a count of zero is erased.
ref(files, path, key, delta) ==
  LET counts == files[path].symbol2refcnt
      v == (IF key \in DOMAIN counts THEN counts[key] ELSE 0) + delta
  IN [files EXCEPT ![path].symbol2refcnt =
       IF v = 0 THEN Restrict(counts, DOMAIN counts \ {key}) ELSE (key :> v) @@ counts]

\* removeRange: all elements that equal one of those to remove.
removeRange(from, to_remove) == SelectSeq(from, LAMBDA x : x \notin ToSet(to_remove))
removeUses(from, to_remove) ==
  LET places == ToSet(Places(to_remove))
  IN SelectSeq(from, LAMBDA u : [range |-> u.range, file |-> u.file] \notin places)

\* The references that an entity of an index file makes: declarations, the spell
\* of its definition, and uses.
RefsOf(path, sym, defs, e) ==
  LET decl(dr) == LET d == assignFileId(path, dr) IN <<d.file, ExtentRef(sym, d, d.extent)>>
      use(u) == LET v == Widen(sym, assignFileId(path, u))
                IN <<v.file, ExtentRef(sym, v, NoRange)>>
  IN (IF sym \in DOMAIN defs /\ defs[sym].spell /= None THEN <<decl(defs[sym].spell)>> ELSE <<>>)
       \o [i \in 1..Len(e.declarations) |-> decl(e.declarations[i])]
       \o [i \in 1..Len(e.uses) |-> use(e.uses[i])]

\* removeUsrs: the definition that names the file is erased.
removeUsrsMutant(defs, path) == defs

removeUsrs(defs, path) ==
  LET at == {i \in 1..Len(defs) : defs[i].file = path}
  IN IF at = {} THEN defs ELSE RemoveAt(defs, Min(at))

\* tryReplaceDef: the definition of the same file goes, if there is one.
tryReplaceDef(defs, own) ==
  LET at == {i \in 1..Len(defs) : defs[i].file = own.file}
  IN IF at = {} THEN defs ELSE [defs EXCEPT ![Min(at)] = own]

update(defs, path, def) ==
  LET own == [def |-> def, file |-> path]
      replaced == tryReplaceDef(defs, own)
  IN IF \E i \in DOMAIN defs : defs[i].file = path THEN replaced ELSE Append(defs, own)

WithSpell(path, def) ==
  IF def.spell = None THEN def ELSE [def EXCEPT !.spell = assignFileId(path, @)]

\* The entity after an update: REMOVE_ADD and updateUses.
UpdatedMutant(entity, path, sym, u) ==
  [entity EXCEPT
    !.def = IF sym \in DOMAIN u.def_update
            THEN update(@, path, WithSpell(path, u.def_update[sym])) ELSE @,
    !.declarations = removeUses(@, Assigned(path, u.first[sym].declarations))
                       \o Assigned(path, u.second[sym].declarations),
    !.derived = removeRange(@, u.first[sym].derived) \o u.second[sym].derived,
    !.instances = removeRange(@, u.first[sym].instances) \o u.second[sym].instances,
    !.uses = removeUses(@, Assigned(path, u.first[sym].uses))
               \o Assigned(path, u.second[sym].uses)]

Updated(entity, path, sym, u) ==
  LET wide(seq) == [i \in 1..Len(seq) |-> Widen(sym, assignFileId(path, seq[i]))]
      kept == IF sym \in DOMAIN u.removed THEN removeUsrs(entity.def, path) ELSE entity.def
  IN [entity EXCEPT
       !.def = IF sym \in DOMAIN u.def_update
               THEN update(kept, path, WithSpell(path, u.def_update[sym])) ELSE kept,
       !.declarations = removeUses(@, Assigned(path, u.first[sym].declarations))
                          \o Assigned(path, u.second[sym].declarations),
       !.derived = removeRange(@, u.first[sym].derived) \o u.second[sym].derived,
       !.instances = removeRange(@, u.first[sym].instances) \o u.second[sym].instances,
       !.uses = removeUses(@, wide(u.first[sym].uses)) \o wide(u.second[sym].uses)]

\* The files an update is about: its own, and those it knows by a local number,
\* which get a bare definition if they have none.
Registered(files, u) ==
  LET path == u.files_def_update.path
      named == DOMAIN files \cup {path} \cup u.lid2path
      bare(p) == [path |-> p, includes |-> <<>>, skipped_ranges |-> <<>>, dependencies |-> {}]
  IN [p \in named |->
       LET f == IF p \in DOMAIN files THEN files[p] ELSE NewFile
       IN IF p = path THEN [f EXCEPT !.def = u.files_def_update]
          ELSE IF p \in u.lid2path /\ f.def = None THEN [f EXCEPT !.def = bare(p)] ELSE f]

\* DB::applyIndexUpdate
applyIndexUpdate(db, u) ==
  LET path == u.files_def_update.path
      syms == DOMAIN u.first
      entity(s) == IF s \in DOMAIN db.ents THEN db.ents[s] ELSE NewQueryEntity
  IN [files |-> FoldSet(LAMBDA s, files :
                  FoldLeft(LAMBDA fs, r : ref(fs, r[1], r[2], 1),
                    FoldLeft(LAMBDA fs, r : ref(fs, r[1], r[2], -1), files,
                             RefsOf(path, s, u.removed, u.first[s])),
                    RefsOf(path, s, u.def_update, u.second[s])),
                Registered(db.files, u), syms),
      ents |-> [s \in syms |-> Updated(entity(s), path, s, u)] @@ db.ents]

----------------------------------------------------------------------------
(* Reading *)

\* getFunc, getType and getVar.  Of a usr that is not registered they give the
\* entity that has number 0, whichever that is, for which a new one stands.
getEntity(db, sym) == IF hasEntity(db, sym) THEN db.ents[sym] ELSE NewQueryEntity

\* QueryEntity::anyDef: the first definition with a spell, or the last.
anyDef(entity) ==
  LET spelt == {i \in 1..Len(entity.def) : entity.def[i].def.spell /= None}
  IN IF entity.def = <<>> THEN None
     ELSE entity.def[IF spelt = {} THEN Len(entity.def) ELSE Min(spelt)]

\* getDefinitionSpell
getDefinitionSpell(db, sym) ==
  LET spelt == SelectSeq(getEntity(db, sym).def, LAMBDA d : d.def.spell /= None)
  IN IF spelt = <<>> THEN None ELSE spelt[1].def.spell

\* DB::getSymbolName
getSymbolName(db, sym) ==
  LET def == anyDef(getEntity(db, sym)) IN IF def = None THEN None ELSE def.def.name

\* DB::getFileSet: all files, or those in one of the folders.
getFileSet(db, folders) ==
  {p \in DOMAIN db.files :
     \/ folders = {}
     \/ db.files[p].def /= None /\ \E f \in folders : p \in Folders[f]}

\* eachOccurrence
Occurrences(db, sym, include_decl) ==
  LET entity == getEntity(db, sym)
      spells == SelectSeq(entity.def, LAMBDA d : d.def.spell /= None)
  IN entity.uses
       \o (IF include_decl
           THEN [i \in 1..Len(spells) |-> spells[i].def.spell] \o entity.declarations
           ELSE <<>>)

getNonDefDeclarations(db, sym) == getEntity(db, sym).declarations

\* getDeclarations: of each the definition, or else the first declaration.
getDeclarations(db, kind, usrs) ==
  LET place(usr) == LET entity == getEntity(db, <<kind, usr>>)
                        spell == getDefinitionSpell(db, <<kind, usr>>)
                    IN IF spell /= None THEN <<spell>>
                       ELSE IF entity.declarations /= <<>> THEN <<entity.declarations[1]>>
                       ELSE <<>>
  IN FlattenSeq([i \in 1..Len(usrs) |-> place(usrs[i])])

\* getVarDeclarations: of those the kinds that are asked for.
VarKindBits == [Field |-> 1, Variable |-> 2, Parameter |-> 4]
getVarDeclarations(db, usrs, kinds) ==
  LET def(usr) == SelectSeq(getEntity(db, <<"Var", usr>>).def, LAMBDA d : d.def.spell /= None)
      wanted(usr) == \/ def(usr) = <<>>
                     \/ def(usr)[1].def.kind \notin DOMAIN VarKindBits
                     \/ VarKindBits[def(usr)[1].def.kind] \in kinds
  IN getDeclarations(db, "Var", SelectSeq(usrs, wanted))

\* eachDefinedFunc, along bases or derived, until nothing new is found.
DefinedFuncs(db, usrs) ==
  {u \in ToSet(usrs) : getEntity(db, <<"Func", u>>).def /= <<>>}

Bases(db, usr) ==
  LET def == anyDef(getEntity(db, <<"Func", usr>>))
  IN IF def = None THEN {} ELSE DefinedFuncs(db, def.def.bases)
Derived(db, usr) == DefinedFuncs(db, getEntity(db, <<"Func", usr>>).derived)

Reached(root, next) ==
  LET usrs == DOMAIN next \cup UNION {next[u] : u \in DOMAIN next}
      from[seen \in SUBSET usrs] ==
        LET more == seen \cup UNION {next[u] : u \in seen \cap DOMAIN next}
        IN IF more = seen THEN seen ELSE from[more]
  IN from[{root}] \ {root}

FuncUsrs(db) == {s[2] : s \in {s \in DOMAIN db.ents : s[1] = "Func"}}
AllBases(db, usr) == Reached(usr, [u \in FuncUsrs(db) \cup {usr} |-> Bases(db, u)])
AllDerived(db, usr) == Reached(usr, [u \in FuncUsrs(db) \cup {usr} |-> Derived(db, u)])

UsesOf(db, usrs) == UNION {ToSet(getEntity(db, <<"Func", u>>).uses) : u \in usrs}
getUsesForAllBases(db, usr) == UsesOf(db, AllBases(db, usr))
getUsesForAllDerived(db, usr) == UsesOf(db, AllDerived(db, usr))

\* getSymbolKind, getSymbolInfo: what the first definition says.
getSymbolKind(db, sym) ==
  LET entity == getEntity(db, sym)
  IN IF sym[1] = "File" THEN "File"
     ELSE IF entity.def = <<>> THEN "Unknown" ELSE entity.def[1].def.kind

getSymbolInfo(db, sym) ==
  LET def == getEntity(db, sym).def
  IN [name |-> IF def = <<>> THEN None ELSE def[1].def.name, kind |-> getSymbolKind(db, sym)]

\* computeRangeSize, the size of a range of several lines being the largest.
RangeSize(range) ==
  IF Line(range.start) /= Line(range.end) THEN 32768 * 32768
  ELSE Column(range.end) - Column(range.start)

\* The order of the symbols at a place: the shortest first, macros, definitions,
\* Var before Func before Type.
KindOrder == [Invalid |-> 0, File |-> 1, Type |-> 2, Func |-> 3, Var |-> 4]
Has(r, role) == IF role \in r.role THEN 1 ELSE 0
Precedes(a, b) ==
  LET key(r) == <<-RangeSize(r.range), Has(r, "Dynamic"), Has(r, "Definition"), KindOrder[r.kind]>>
  IN \E i \in 1..4 : key(a)[i] > key(b)[i] /\ \A j \in 1..i - 1 : key(a)[j] = key(b)[j]

\* findSymbolsAtLocation: usrs have no order in the model, so symbols that only
\* differ in theirs come in any order.
findSymbolsAtLocation(file, pos) ==
  Sorted({r \in DOMAIN file.symbol2refcnt :
            file.symbol2refcnt[r] > 0 /\ ContainsPos(r.range, pos)}, Precedes)
============================================================================
