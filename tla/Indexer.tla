------------------------------ MODULE Indexer ------------------------------
(***************************************************************************)
(* indexer.cc: what idx::index makes of a translation unit.  clang is the  *)
(* environment: it reports, in the order of the text, the files it enters, *)
(* what its preprocessor does and each occurrence of a declaration.  The   *)
(* indexer sorts that into one index file for every source file that is    *)
(* newer than the last one that was indexed.                               *)
(*                                                                         *)
(* A declaration is a name, of which the constant Decl tells what clang    *)
(* knows: the usr, the class of its node, its printed name, whether it has *)
(* linkage, the declaration it is a part of, the declarations it refers to *)
(* (bases, overridden methods, the template, the aliased type), the type   *)
(* of its value and its fields.  A file number that is local to an index   *)
(* file (lid) is the path it stands for, None the file itself.  Files for  *)
(* which index.multiVersion is set are not modelled.                       *)
(***************************************************************************)
EXTENDS Ranges, Sequences, FiniteSetsExt, SequencesExt

CONSTANTS
  Decl,   \* the declarations
  None    \* absence: an empty optional, a null pointer, an empty name

getUsr(d) == Decl[d].usr

TypeNodes == {"Namespace", "NamespaceAlias", "Enum", "CXXRecord", "Record", "Typedef",
              "ClassTemplate", "ClassTemplateSpecialization", "Builtin"}
FuncNodes == {"Function", "CXXMethod", "CXXConstructor", "CXXConversion"}
VarNodes == {"Field", "Var", "ParmVar", "EnumConstant", "Binding"}

\* getKind, for the node classes of C++ that differ in what is indexed.
getKind(d) ==
  IF d = None THEN "Invalid"
  ELSE IF Decl[d].node \in TypeNodes THEN "Type"
  ELSE IF Decl[d].node \in FuncNodes THEN "Func"
  ELSE IF Decl[d].node \in VarNodes THEN "Var" ELSE "Invalid"

SymbolKind ==
  [n \in TypeNodes \cup FuncNodes \cup VarNodes |->
     CASE n \in {"Namespace", "NamespaceAlias"} -> "Namespace"
       [] n \in {"CXXRecord", "Record", "ClassTemplate", "ClassTemplateSpecialization"} -> "Class"
       [] n = "Typedef" -> "TypeAlias"
       [] n = "CXXMethod" \/ n = "CXXConversion" -> "Method"
       [] n = "CXXConstructor" -> "Constructor"
       [] n = "EnumConstant" -> "EnumMember"
       [] n = "Binding" \/ n = "Var" -> "Variable"
       [] n = "ParmVar" -> "Parameter"
       [] OTHER -> n]

Symbol(d) == <<getKind(d), getUsr(d)>>

\* The elements of a set, which may be large, in some order or sorted.
Enumerated(S) == FoldSet(LAMBDA x, seq : Append(seq, x), <<>>, S)
Sorted(S, Less(_, _)) == SortSeq(Enumerated(S), Less)

----------------------------------------------------------------------------
(* Index files *)

UseOf(range, role, file) == [range |-> range, role |-> role, file |-> file]
DeclRefOf(use, extent) ==
  [range |-> use.range, role |-> use.role, file |-> use.file, extent |-> extent]

\* What Use::operator== compares: the role is ignored.
Places(uses) == [i \in 1..Len(uses) |-> [range |-> uses[i].range, file |-> uses[i].file]]

NewDef ==
  [name |-> None, spell |-> None, bases |-> <<>>, funcs |-> <<>>, types |-> <<>>,
   vars |-> <<>>, callees |-> <<>>, alias_of |-> None, type |-> None,
   kind |-> "Unknown", parent_kind |-> "Unknown"]

NewEntity ==
  [def |-> NewDef, declarations |-> <<>>, derived |-> <<>>, instances |-> <<>>,
   uses |-> <<>>]

NewIndexFile(path, no_linkage) ==
  [path |-> path, no_linkage |-> no_linkage, import_file |-> None, dependencies |-> {},
   includes |-> <<>>, skipped_ranges |-> <<>>, ents |-> <<>>]

\* toFunc, toType and toVar: the entity, which is made if there is none.
toEntity(db, sym) == IF sym \in DOMAIN db.ents THEN db.ents[sym] ELSE NewEntity
With(db, sym, e) == [db EXCEPT !.ents = (sym :> e) @@ @]

----------------------------------------------------------------------------
(* IndexParam: param.db has the files that were seen, with the index file or,
   if the file is not newer than what was stamped, None. *)

\* seenFile: the first time a file is seen it is stamped; it is indexed if it is
\* among those that are newer than their stamp.
seenFile(param, path) ==
  IF path \in DOMAIN param.db THEN param
  ELSE [param EXCEPT !.db =
         (path :> IF path \in param.newer THEN NewIndexFile(path, param.no_linkage)
                                          ELSE None) @@ @]

----------------------------------------------------------------------------
(* Occurrences of declarations *)

\* A declaration, or the first around it, that is not an anonymous namespace.
Named[d \in DOMAIN Decl \cup {None}] ==
  IF d = None THEN None
  ELSE IF Decl[d].node = "Namespace" /\ Decl[d].name = None THEN Named[Decl[d].parent]
  ELSE d

\* collectRecordMembers: the named fields, with those of unnamed records; nobody
\* looks at their order.
Members[rd \in DOMAIN Decl] ==
  FoldLeft(LAMBDA seq, fd :
             IF Decl[fd].name /= None THEN Append(seq, getUsr(fd))
             ELSE seq \o Members[Decl[fd].type],
           <<>>, Decl[rd].fields)

IsDefinition(o) ==
  \/ "Definition" \in o.roles
  \/ "Declaration" \in o.roles /\ Decl[o.decl].node = "Binding"
IsDeclaration(o) == "Declaration" \in o.roles

\* What refers to a constructor or a conversion is not written out.
RoleOf(o, d) ==
  IF /\ ~IsDefinition(o) /\ ~IsDeclaration(o)
     /\ Decl[d].node \in {"CXXConstructor", "CXXConversion"}
  THEN o.roles \cup {"Implicit"} ELSE o.roles

\* do_def_decl: a definition sets the spell, a declaration and a reference are
\* appended.
do_def_decl(o, d, e) ==
  LET use == UseOf(o.range, RoleOf(o, d), None)
      dc == Named[Decl[o.decl].parent]
  IN IF IsDefinition(o)
     THEN [e EXCEPT !.def.spell = DeclRefOf(use, o.extent),
                    !.def.parent_kind = IF getKind(dc) = "Invalid" THEN "File"
                                        ELSE SymbolKind[Decl[dc].node]]
     ELSE IF IsDeclaration(o)
     THEN [e EXCEPT !.declarations = Append(@, DeclRefOf(use, o.extent))]
     ELSE [e EXCEPT !.uses = Append(@, use)]

\* addMacroUse: what is written in a macro is a use there as well.
addMacroUse(o, e) ==
  IF o.spelling = None THEN e
  ELSE [e EXCEPT !.uses = Append(@, UseOf(o.spelling.range, {"Dynamic"}, o.spelling.file))]

\* setName; a type is renamed when it is defined, and has a name even if it is
\* anonymous.
setName(o, d, e) ==
  LET anon == IF Decl[d].node \in {"CXXRecord", "Record", "Enum"} THEN "anon" ELSE None
  IN IF e.def.name /= None /\ ~(getKind(d) = "Type" /\ IsDefinition(o)) THEN e
     ELSE IF Decl[d].name /= None THEN [e EXCEPT !.def.name = Decl[d].name]
     ELSE IF e.def.name = None THEN [e EXCEPT !.def.name = anon] ELSE e

\* The occurrence as such.
Occurred(o, d, db) ==
  LET sym == Symbol(d)
  IN With(db, sym, setName(o, d, addMacroUse(o, do_def_decl(o, d,
       [toEntity(db, sym) EXCEPT !.def.kind = SymbolKind[Decl[d].node]]))))

\* The declarations of a scope are listed in it, the calls in their caller.
Enclosed(o, d, db) ==
  LET declared == IsDefinition(o) \/ IsDeclaration(o)
      dc == Named[Decl[o.decl].parent]
      lex == Named[o.container]
      usr == getUsr(d)
      scope == toEntity(db, Symbol(dc))
  IN CASE declared /\ getKind(dc) = "Type" /\ getKind(d) = "Func" ->
            With(db, Symbol(dc), [scope EXCEPT !.def.funcs = Append(@, usr)])
       [] declared /\ getKind(dc) = "Type" /\ getKind(d) = "Type" ->
            With(db, Symbol(dc), [scope EXCEPT !.def.types = Append(@, usr)])
       [] declared /\ getKind(dc) = "Func" /\ getKind(d) = "Var" ->
            With(db, Symbol(dc), [scope EXCEPT !.def.vars = Append(@, usr)])
       [] /\ declared /\ getKind(d) = "Var" /\ getKind(dc) = "Type"
          /\ Decl[dc].node \notin {"CXXRecord", "Record", "ClassTemplateSpecialization"} ->
            With(db, Symbol(dc), [scope EXCEPT !.def.vars = Append(@, usr)])
       [] ~declared /\ getKind(d) = "Func" /\ getKind(lex) = "Func" ->
            With(db, Symbol(lex), [toEntity(db, Symbol(lex)) EXCEPT !.def.callees =
              Append(@, [range |-> o.range, usr |-> usr, role |-> RoleOf(o, d)])])
       [] OTHER -> db

\* A variable gets its parent's kind and its type, and is listed among the
\* instances of that; one that is used but was never declared is defined where it
\* is, if that is in this file.
Typed(o, d, db) ==
  LET sym == Symbol(d)
      type == Decl[d].type
      dc == Named[Decl[o.decl].parent]
      placed == With(db, sym, [toEntity(db, sym) EXCEPT
        !.def.parent_kind = IF getKind(dc) = "Invalid" THEN @ ELSE SymbolKind[Decl[dc].node],
        !.def.type = IF type = None THEN @ ELSE getUsr(type)])
      defined == With(db, sym, [toEntity(db, sym) EXCEPT
        !.def.parent_kind = "Method",
        !.def.spell = DeclRefOf(UseOf(Decl[d].place.range, {"Definition"}, None),
                                Decl[d].place.range)])
  IN IF getKind(d) /= "Var" THEN db
     ELSE IF IsDefinition(o) \/ IsDeclaration(o)
     THEN IF type = None \/ Decl[d].node = "EnumConstant" THEN placed
          ELSE With(placed, Symbol(type),
                    [toEntity(placed, Symbol(type)) EXCEPT !.instances = Append(@, getUsr(d))])
     ELSE IF /\ db.ents[sym].def.spell = None /\ db.ents[sym].declarations = <<>>
             /\ Decl[d].place /= None /\ Decl[d].place.file = db.path
     THEN defined ELSE db

\* type->def.bases.push_back(usr1), db->toType(usr1).derived.push_back(usr)
Derive(d, d1, db) ==
  LET below == With(db, Symbol(d),
                    [toEntity(db, Symbol(d)) EXCEPT !.def.bases = Append(@, getUsr(d1))])
  IN With(below, Symbol(d1),
          [toEntity(below, Symbol(d1)) EXCEPT !.derived = Append(@, getUsr(d))])

DeriveAll(d, refs, db) == FoldLeft(LAMBDA b, d1 : Derive(d, d1, b), db, refs)

\* The name of another type or namespace; toType is called even if nothing is
\* added.  A specialization that is aliased is used there.
AliasMutant(o, d, db) ==
  FoldLeft(LAMBDA b, d1 : With(b, Symbol(d),
                               [toEntity(b, Symbol(d)) EXCEPT !.def.alias_of = getUsr(d1)]),
           db, Decl[d].refs)

Alias(o, d, db) ==
  LET AliasOf(b, d1) ==
        LET named == With(b, Symbol(d),
                          [toEntity(b, Symbol(d)) EXCEPT !.def.alias_of = getUsr(d1)])
        IN With(named, Symbol(d1), [toEntity(named, Symbol(d1)) EXCEPT !.uses =
             IF o.specialized = None THEN @
             ELSE Append(@, UseOf(o.specialized, {"Reference"}, None))])
  IN FoldLeft(AliasOf, db, Decl[d].refs)

\* What a declaration refers to.
Related(o, d, db) ==
  LET node == Decl[d].node
      members == With(db, Symbol(d),
                      [toEntity(db, Symbol(d)) EXCEPT !.def.vars = @ \o Members[o.decl]])
  IN CASE node = "Namespace" /\ Decl[d].parent /= None /\ Decl[d].first ->
            Derive(d, Decl[d].parent, db)
       [] node \in {"NamespaceAlias", "Typedef"} -> Alias(o, d, db)
       [] node = "CXXRecord" /\ IsDefinition(o) -> DeriveAll(d, Decl[d].refs, members)
       [] node = "Record" /\ IsDefinition(o) -> members
       [] node = "ClassTemplateSpecialization" /\ IsDefinition(o) ->
            DeriveAll(d, Decl[d].refs, members)
       [] node = "CXXMethod" /\ (IsDefinition(o) \/ IsDeclaration(o)) ->
            DeriveAll(d, Decl[d].refs, db)
       [] OTHER -> db

\* handleDeclOccurrence: unless it is a definition, the declaration is adjusted
\* (an instantiation to its template).
handleDeclOccurrence(o, db) ==
  LET d == IF IsDefinition(o) THEN o.decl ELSE Decl[o.decl].adjusted
  IN IF getKind(d) = "Invalid" THEN db
     ELSE Related(o, d, Typed(o, d, Enclosed(o, d, Occurred(o, d, db))))

----------------------------------------------------------------------------
(* What the preprocessor does.  A macro is a variable. *)

InclusionDirective(o, db) ==
  [db EXCEPT !.includes = Append(@, [line |-> Line(o.range.start), path |-> o.included])]

\* A macro that was defined before is declared there.
MacroDefined(o, db) ==
  LET spell == DeclRefOf(UseOf(o.range, {"Definition"}, None), o.extent)
      e == toEntity(db, <<"Var", o.macro>>)
  IN With(db, <<"Var", o.macro>>,
          [e EXCEPT !.def = [@ EXCEPT !.kind = "Macro", !.parent_kind = "File",
                                      !.name = o.macro, !.spell = spell],
                    !.declarations = IF e.def.spell = None THEN @
                                     ELSE Append(@, e.def.spell)])

\* Also of MacroUndefined.
MacroExpands(o, db) ==
  LET sym == <<"Var", o.macro>>
  IN With(db, sym, [toEntity(db, sym) EXCEPT !.uses = Append(@, UseOf(o.range, {"Dynamic"}, None))])

SourceRangeSkipped(o, db) == [db EXCEPT !.skipped_ranges = Append(@, o.range)]

Callback(o, db) ==
  CASE o.event = "FileChanged" -> db
    [] o.event = "InclusionDirective" -> InclusionDirective(o, db)
    [] o.event = "MacroDefined" -> MacroDefined(o, db)
    [] o.event = "MacroExpands" -> MacroExpands(o, db)
    [] o.event = "SourceRangeSkipped" -> SourceRangeSkipped(o, db)
    [] o.event = "handleDeclOccurrence" -> handleDeclOccurrence(o, db)

\* consumeFile: what a callback is about is seen and, if that is to be indexed,
\* noted in its index file.  What has no linkage is passed over.
consumeFile(param, o) ==
  LET seen == seenFile(param, o.file)
  IN IF /\ o.event = "handleDeclOccurrence"
        /\ ~param.no_linkage /\ ~Decl[o.decl].linkage THEN param
     ELSE IF seen.db[o.file] = None THEN seen
     ELSE [seen EXCEPT !.db[o.file] = Callback(o, @)]

----------------------------------------------------------------------------
\* uniquify: the first of those whose keys are equal is kept.
uniquify(seq, keys) ==
  LET first == SelectSeq([i \in 1..Len(seq) |-> i],
                         LAMBDA i : \A j \in 1..i - 1 : keys[j] /= keys[i])
  IN [i \in 1..Len(first) |-> seq[first[i]]]

Uniquified(sym, e) ==
  IF sym[1] = "Type"
  THEN [e EXCEPT !.derived = uniquify(@, @), !.uses = uniquify(@, Places(@)),
                 !.def.bases = uniquify(@, @), !.def.funcs = uniquify(@, @)]
  ELSE [e EXCEPT !.derived = uniquify(@, @), !.uses = uniquify(@, Places(@))]

\* idx::index: the index files of a translation unit of which clang reports the
\* events, for the files that are newer than what was stamped.
index(main, events, newer, no_linkage) ==
  LET param == FoldLeft(consumeFile, [db |-> <<>>, newer |-> newer, no_linkage |-> no_linkage],
                        events)
  IN [path \in {p \in DOMAIN param.db : param.db[p] /= None} |->
        [param.db[path] EXCEPT !.import_file = main,
           !.dependencies = DOMAIN param.db \ {path, main},
           !.ents = [s \in DOMAIN @ |-> Uniquified(s, @[s])]]]
============================================================================
