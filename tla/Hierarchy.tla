----------------------------- MODULE Hierarchy -----------------------------
(***************************************************************************)
(* The requests that answer with a tree: messages/ccls_call.cc,            *)
(* ccls_inheritance.cc (and textDocument/implementation), ccls_member.cc,  *)
(* with ccls_vars.cc and hierarchy.hh.  A node is None if expand fails;    *)
(* its children are a set, as what is sent is sorted.  Ranges are those of *)
(* the index: module WorkingFiles maps them to buffers.                    *)
(***************************************************************************)
EXTENDS Database

LocationOf(use) == IF use = None THEN None ELSE [path |-> use.file, range |-> use.range]

\* The definition of an entity, or else its first declaration.
PlaceOf(entity) ==
  LET def == anyDef(entity)
  IN IF def /= None /\ def.def.spell /= None THEN LocationOf(def.def.spell)
     ELSE IF entity.declarations /= <<>> THEN LocationOf(entity.declarations[1])
     ELSE None

SpellOf(def) == IF def.def.spell = None THEN None ELSE LocationOf(def.def.spell)

RECURSIVE Descendants(_)
Descendants(node) == node.children \cup UNION {Descendants(c) : c \in node.children}

\* flattenHierarchy: where the nodes below the root are.
flattenHierarchy(root) ==
  IF root = None THEN {} ELSE {n.location : n \in Descendants(root)} \ {None}

\* The first symbol at a place that is of one of the kinds.
SymbolAt(db, path, pos, kinds) ==
  LET syms == SelectSeq(findSymbolsAtLocation(db.files[path], pos), LAMBDA r : r.kind \in kinds)
  IN IF syms = <<>> THEN None ELSE SymOf(syms[1])

----------------------------------------------------------------------------
(* $ccls/call *)

\* Any function whose extent, instead of the innermost.
CallerOfMutant(db, use) ==
  LET refs == db.files[use.file].symbol2refcnt
      around == {r \in DOMAIN refs :
                   /\ refs[r] > 0 /\ r.kind = "Func" /\ Valid(r.extent)
                   /\ AtOrBefore(r.extent.start, use.range.start)
                   /\ AtOrBefore(use.range.end, r.extent.end)}
  IN IF around = {} THEN None
     ELSE CHOOSE r \in around : \A q \in around : ~Before(q.extent.start, r.extent.start)

\* The innermost function whose extent has the use in it.
CallerOf(db, use) ==
  LET refs == db.files[use.file].symbol2refcnt
      around == {r \in DOMAIN refs :
                   /\ refs[r] > 0 /\ r.kind = "Func" /\ Valid(r.extent)
                   /\ AtOrBefore(r.extent.start, use.range.start)
                   /\ AtOrBefore(use.range.end, r.extent.end)}
  IN IF around = {} THEN None
     ELSE CHOOSE r \in around : \A q \in around : ~Before(r.extent.start, q.extent.start)

\* handle_uses: the calls that a function makes, in the file of its definition, or
\* the functions that call it.
handle_uses(db, usr, callee, callType) ==
  LET func == getEntity(db, <<"Func", usr>>)
      def == anyDef(func)
      Node(r, file) == [usr |-> r.usr, location |-> LocationOf(UseOf(r.range, r.role, file)),
                        callType |-> callType]
      called == SelectSeq(func.uses, LAMBDA use : CallerOf(db, use) /= None)
  IN IF ~callee
     THEN [i \in 1..Len(called) |-> Node(CallerOf(db, called[i]), called[i].file)]
     ELSE IF def = None THEN <<>>
     ELSE [i \in 1..Len(def.def.callees) |-> Node(def.def.callees[i], def.file)]

\* Of the function itself, and of those it overrides and that override it.
Handled(db, usr, callee, callType) ==
  LET bases == IF "Base" \in callType THEN AllBases(db, usr) ELSE {}
      derived == IF "Derived" \in callType THEN AllDerived(db, usr) \ bases ELSE {}
      Of(usrs, type) ==
        FoldSet(LAMBDA u, seq : seq \o handle_uses(db, u, callee, type), <<>>, usrs)
  IN handle_uses(db, usr, callee, "Direct") \o Of(bases, "Base") \o Of(derived, "Derived")

\* expand: every call counts, but of the nodes at one place one is kept.
RECURSIVE ExpandCall(_, _, _, _, _)
ExpandCall(db, node, callee, callType, levels) ==
  LET handled == Handled(db, node.usr, callee, callType)
      nodes == {ExpandCall(db, n, callee, callType, levels - 1) : n \in ToSet(handled)} \ {None}
  IN IF anyDef(getEntity(db, <<"Func", node.usr>>)) = None THEN None
     ELSE [usr |-> node.usr, location |-> node.location, callType |-> node.callType,
           numChildren |-> Len(handled),
           children |-> IF levels = 0 THEN {}
                        ELSE {CHOOSE n \in nodes : n.location = l : l \in {n.location : n \in nodes}}]

CallRoot(usr, location) == [usr |-> usr, location |-> location, callType |-> "Direct"]

\* A root that cannot be expanded is answered without children.
OrBare(node, root) == IF node = None THEN root @@ [numChildren |-> 0, children |-> {}] ELSE node

\* By id, or from the first function at a place.
ccls_call(db, id, path, pos, callee, callType, levels) ==
  LET sym == SymbolAt(db, path, pos, {"Func"})
      def == anyDef(getEntity(db, sym))
      root == IF id /= None THEN CallRoot(id, None)
              ELSE IF sym = None \/ def = None THEN None ELSE CallRoot(sym[2], SpellOf(def))
      expanded == IF id /= None /\ ~hasEntity(db, <<"Func", id>>) THEN None
                  ELSE ExpandCall(db, root, callee, callType, levels)
  IN IF root = None THEN None ELSE OrBare(expanded, root)

----------------------------------------------------------------------------
(* $ccls/inheritance, textDocument/implementation *)

Heirs(entity, derived) ==
  IF derived THEN entity.derived
  ELSE IF anyDef(entity) = None THEN <<>> ELSE anyDef(entity).def.bases

\* expand: what is not defined has no bases; what is derived from it is known.
RECURSIVE ExpandInheritance(_, _, _, _)
ExpandInheritance(db, sym, derived, levels) ==
  LET entity == getEntity(db, sym)
      heirs == Heirs(entity, derived)
      children == {ExpandInheritance(db, <<sym[1], u>>, derived, levels - 1) : u \in ToSet(heirs)}
                    \ {None}
  IN IF anyDef(entity) = None /\ ~derived THEN None
     ELSE [usr |-> sym[2], kind |-> sym[1],
           location |-> IF anyDef(entity) = None THEN None ELSE PlaceOf(entity),
           numChildren |-> IF levels = 0 THEN Len(heirs) ELSE Cardinality(children),
           children |-> IF levels = 0 THEN {} ELSE children]

\* At a place the root is answered even if it cannot be expanded.
inheritance(db, id, kind, path, pos, derived, levels) ==
  LET sym == SymbolAt(db, path, pos, {"Func", "Type"})
  IN IF id /= None
     THEN IF kind \in {"Func", "Type"} /\ hasEntity(db, <<kind, id>>)
          THEN ExpandInheritance(db, <<kind, id>>, derived, levels) ELSE None
     ELSE IF sym = None THEN None
     ELSE OrBare(ExpandInheritance(db, sym, derived, levels),
                 [usr |-> sym[2], kind |-> sym[1], location |-> None])

textDocument_implementation(db, path, pos) ==
  flattenHierarchy(inheritance(db, None, None, path, pos, TRUE, 1))

----------------------------------------------------------------------------
(* $ccls/member *)

\* The types whose members are listed: a type, and for each of its bases those of
\* the base, again for each way that leads to it; a cycle would have no end.
RECURSIVE WithBases(_, _)
WithBases(db, usr) ==
  LET def == anyDef(getEntity(db, <<"Type", usr>>))
      bases == IF def.def.kind = "Namespace" THEN <<>>
               ELSE SelectSeq(def.def.bases, LAMBDA b : getEntity(db, <<"Type", b>>).def /= <<>>)
  IN <<usr>> \o FlattenSeq([i \in 1..Len(bases) |-> WithBases(db, bases[i])])

MemberLeaf(usr, location) ==
  [usr |-> usr, location |-> location, numChildren |-> 0, children |-> {}]

\* The functions or types of a type, of all its definitions.
Listed(db, kind, entity) ==
  LET usrs == UNION {ToSet(IF kind = "Func" THEN entity.def[i].def.funcs ELSE entity.def[i].def.types)
                       : i \in 1..Len(entity.def)}
  IN {MemberLeaf(None, PlaceOf(getEntity(db, <<kind, u>>))) :
        u \in {u \in usrs : getEntity(db, <<kind, u>>).def /= <<>>}}

\* expand and doField: an alias is followed, a field expanded to its type.
RECURSIVE ExpandMember(_, _, _, _, _)
ExpandMember(db, usr, location, levels, kind) ==
  LET entity(u) == getEntity(db, <<"Type", u>>)
      def(u) == anyDef(entity(u))
      field(v) ==
        LET var == anyDef(getEntity(db, <<"Var", v>>))
        IN IF var.def.type = None THEN MemberLeaf(None, SpellOf(var))
           ELSE ExpandMember(db, var.def.type, SpellOf(var), levels - 1, "Var")
      alias(u) ==
        LET target == def(def(u).def.alias_of)
        IN ExpandMember(db, def(u).def.alias_of,
             IF target /= None /\ target.def.spell /= None THEN SpellOf(target) ELSE SpellOf(def(u)),
             levels - 1, kind)
      vars(u) == {v \in UNION {ToSet(entity(u).def[i].def.vars) : i \in 1..Len(entity(u).def)} :
                    getEntity(db, <<"Var", v>>).def /= <<>>}
      below(u) == IF def(u).def.alias_of /= None THEN {alias(u)}
                  ELSE IF kind = "Var" THEN {field(v) : v \in vars(u)}
                  ELSE Listed(db, kind, entity(u))
      children == UNION {below(u) : u \in ToSet(WithBases(db, usr))} \ {None}
  IN IF usr \in {getUsr(d) : d \in {d \in DOMAIN Decl : Decl[d].node = "Builtin"}}
     THEN MemberLeaf(usr, location)
     ELSE IF def(usr) = None THEN None
     ELSE [usr |-> usr, location |-> location,
           numChildren |-> IF levels > 0 THEN Cardinality(children)
                           ELSE IF def(usr).def.alias_of /= None THEN 1 ELSE Len(def(usr).def.vars),
           children |-> IF levels > 0 THEN children ELSE {}]

\* buildInitial: the members of a type, the variables of a function.
MemberRoot(db, sym, levels, kind) ==
  LET def == anyDef(getEntity(db, sym))
      field(v) == LET var == anyDef(getEntity(db, <<"Var", v>>))
                  IN IF var.def.type = None THEN MemberLeaf(None, SpellOf(var))
                     ELSE ExpandMember(db, var.def.type, SpellOf(var), levels - 1, "Var")
      vars == {v \in ToSet(def.def.vars) : getEntity(db, <<"Var", v>>).def /= <<>>}
  IN IF def = None THEN None
     ELSE IF sym[1] = "Type" THEN ExpandMember(db, sym[2], SpellOf(def), levels, kind)
     ELSE [MemberLeaf(None, SpellOf(def)) EXCEPT !.children = {field(v) : v \in vars} \ {None}]

\* The type of a variable stands for it.
ccls_member(db, id, path, pos, levels, kind) ==
  LET sym == SymbolAt(db, path, pos, {"Func", "Type", "Var"})
      var == anyDef(getEntity(db, sym))
  IN IF id /= None
     THEN IF hasEntity(db, <<"Type", id>>) THEN ExpandMember(db, id, None, levels, kind) ELSE None
     ELSE IF sym = None THEN None
     ELSE IF sym[1] /= "Var" THEN MemberRoot(db, sym, levels, kind)
     ELSE IF var = None THEN None
     ELSE IF var.def.type = None THEN None
     ELSE MemberRoot(db, <<"Type", var.def.type>>, levels, kind)

----------------------------------------------------------------------------
\* $ccls/vars: the instances of every type at a place, and of the types of the
\* variables there.
ccls_vars(db, path, pos, kinds) ==
  LET types(sym) ==
        LET def == anyDef(getEntity(db, sym))
        IN CASE sym[1] = "Type" -> {sym[2]}
             [] sym[1] = "Var" /\ def /= None -> {def.def.type} \ {None}
             [] OTHER -> {}
      refs == ToSet(findSymbolsAtLocation(db.files[path], pos))
  IN {LocationOf(dr) : dr \in UNION
       {ToSet(getVarDeclarations(db, getEntity(db, <<"Type", t>>).instances, kinds)) :
          t \in UNION {types(SymOf(r)) : r \in refs}}}
============================================================================
