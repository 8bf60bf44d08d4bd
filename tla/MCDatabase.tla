----------------------------- MODULE MCDatabase -----------------------------
(***************************************************************************)
(* A header h and two translation units a and b that include it, with what *)
(* is hard for the database: relations and macro uses that two files       *)
(* share, overriding across files, calls that are not written out, a       *)
(* nested function, a macro over a variable.                               *)
(***************************************************************************)
EXTENDS Querying

Declared(usr, node, parent, type, refs) ==
  [usr |-> usr, node |-> node, name |-> usr, linkage |-> TRUE, parent |-> parent,
   first |-> TRUE, adjusted |-> usr, type |-> type, refs |-> refs, fields |-> <<>>,
   place |-> None]

\* D::f2 is D::f when B::f is not virtual; x and L are local.
MCDecl ==
  [int |-> Declared("int", "Builtin", None, None, <<>>),
   B |-> [Declared("B", "CXXRecord", None, None, <<>>) EXCEPT !.fields = <<"Bv">>],
   Bf |-> Declared("Bf", "CXXMethod", "B", None, <<>>),
   Bv |-> Declared("Bv", "Field", "B", "int", <<>>),
   D |-> Declared("D", "CXXRecord", None, None, <<"B">>),
   DD |-> Declared("DD", "CXXConstructor", "D", None, <<>>),
   Df |-> Declared("Df", "CXXMethod", "D", None, <<"Bf">>),
   Df2 |-> [Declared("Df", "CXXMethod", "D", None, <<>>) EXCEPT !.adjusted = "Df2"],
   A |-> Declared("A", "Typedef", None, None, <<"D">>),
   N |-> Declared("N", "Namespace", None, None, <<>>),
   g |-> Declared("g", "Function", "N", None, <<>>),
   L |-> [Declared("L", "CXXRecord", "g", None, <<>>) EXCEPT !.linkage = FALSE],
   Lm |-> [Declared("Lm", "CXXMethod", "L", None, <<>>) EXCEPT !.linkage = FALSE],
   x |-> [Declared("x", "Var", "g", "D", <<>>) EXCEPT !.linkage = FALSE],
   E |-> Declared("E", "CXXRecord", None, None, <<"B">>),
   Ef |-> Declared("Ef", "CXXMethod", "E", None, <<"Bf">>),
   V |-> Declared("V", "ClassTemplate", None, None, <<>>),
   P |-> Declared("P", "ClassTemplate", None, None, <<>>),
   t |-> Declared("t", "Typedef", "P", None, <<"V">>),
   n |-> Declared("n", "Enum", None, None, <<>>),
   c |-> Declared("c", "EnumConstant", "n", "n", <<>>)]

At(line, column) == RangeOf(<<line, column>>, <<line, column + 1>>)
Lines(line, from, to) == RangeOf(<<line, from>>, <<line, to>>)

Occ(file, decl, roles, range, extent, container) ==
  [event |-> "handleDeclOccurrence", file |-> file, range |-> range, extent |-> extent,
   decl |-> decl, roles |-> roles, container |-> container, spelling |-> None,
   specialized |-> None]
Def(file, decl, range, extent) == Occ(file, decl, {"Definition"}, range, extent, None)
Dec(file, decl, range, extent) == Occ(file, decl, {"Declaration"}, range, extent, None)
Use(file, decl, roles, range, container) == Occ(file, decl, roles, range, NoRange, container)

FileChanged(file) == [event |-> "FileChanged", file |-> file]
Include(file, included) ==
  [event |-> "InclusionDirective", file |-> file, range |-> At(0, 0), included |-> included]
Macro(event, range) ==
  [event |-> event, file |-> "h", range |-> range, extent |-> Lines(Line(range.start), 8, 12), macro |-> "M"]

\* v = M; with the v that M stands for.
Expansion(file, rev, range, container) ==
  <<[Macro("MacroExpands", range) EXCEPT !.file = file],
    [Use(file, "Bv", {"Read"}, range, container) EXCEPT
       !.spelling = [file |-> "h", range |-> At(rev - 1, 10)]]>>

\* #define M v
\* struct B { virtual void f(); int v; };   in its second revision a line further
\* struct D : B { D(); void f(); };         down and not virtual
\* typedef D A;
Header(rev) ==
  <<FileChanged("h"), Macro("MacroDefined", At(rev - 1, 8)),
    Def("h", "B", At(rev, 7), Lines(rev, 0, 38)), Dec("h", "Bf", At(rev, 24), Lines(rev, 11, 27)),
    Def("h", "Bv", At(rev, 33), Lines(rev, 29, 34)),
    Def("h", "D", At(rev + 1, 7), Lines(rev + 1, 0, 30)), Use("h", "B", {"Reference"}, At(rev + 1, 11), "D"),
    Dec("h", "DD", At(rev + 1, 15), Lines(rev + 1, 15, 18)),
    Dec("h", IF rev = 1 THEN "Df" ELSE "Df2", At(rev + 1, 25), Lines(rev + 1, 20, 28)),
    Use("h", "D", {"Reference"}, At(rev + 2, 8), None), Def("h", "A", At(rev + 2, 10), Lines(rev + 2, 0, 11))>>

\* void D::f() { M; B::f(); }                      only in its first revision
\* namespace N { void g() {
\*   struct L { void m() { g(); } }; D x; x.f(); } }
SourceA(rev, header) ==
  LET line == IF rev = 1 THEN 2 ELSE 1
  IN <<FileChanged("a"), Include("a", "h")>> \o Header(header)
       \o (IF rev = 1
           THEN <<Use("a", "D", {"Reference"}, At(1, 5), None),
                  Def("a", IF header = 1 THEN "Df" ELSE "Df2", At(1, 8), Lines(1, 0, 27))>>
                  \o Expansion("a", header, At(1, 14), "Df")
                  \o <<Use("a", "Bf", {"Call"}, At(1, 20), "Df")>>
           ELSE <<>>)
       \o <<Dec("a", "N", At(line, 10), Lines(line, 0, 80)), Def("a", "g", At(line, 19), Lines(line, 14, 78))>>
       \o (IF rev = 1
           THEN <<Def("a", "L", At(line, 33), Lines(line, 26, 56)), Def("a", "Lm", At(line, 42), Lines(line, 37, 54)),
                  Use("a", "g", {"Call"}, At(line, 48), "Lm")>>
           ELSE <<>>)
       \o <<Use("a", "D", {"Reference"}, At(line, 58), "g"), Def("a", "x", At(line, 60), Lines(line, 58, 61)),
            Use("a", "DD", {"Call"}, At(line, 60), "g"), Use("a", "Df", {"Call"}, At(line, 65), "g")>>

\* #if 0 ... #endif
\* struct E : B { void f() { M; } };
\* template<class T> struct P { typedef V<T> t; };  V is of a header that is not indexed
\* enum n { c };                                    only in its second revision
SourceB(rev, header) ==
  <<FileChanged("b"), Include("b", "h")>> \o Header(header)
    \o <<[event |-> "SourceRangeSkipped", file |-> "b", range |-> RangeOf(<<1, 0>>, <<3, 6>>)],
         Def("b", "E", At(4, 7), Lines(4, 0, 34)), Use("b", "B", {"Reference"}, At(4, 11), "E"),
         Def("b", "Ef", At(4, 20), Lines(4, 15, 31))>>
    \o Expansion("b", header, At(4, 26), "Ef")
    \o <<Def("b", "P", At(5, 25), Lines(5, 18, 46)),
         [Def("b", "t", At(5, 42), Lines(5, 29, 43)) EXCEPT !.specialized = At(5, 37)]>>
    \o (IF rev = 1 THEN <<>>
        ELSE <<Def("b", "n", At(6, 5), Lines(6, 0, 13)), Def("b", "c", At(6, 9), Lines(6, 9, 10))>>)

MCEvents(main, at) == IF main = "a" THEN SourceA(at["a"], at["h"]) ELSE SourceB(at["b"], at["h"])

MCMaxRev == [h |-> 2, a |-> 2, b |-> 2]
MCSources == {"a", "b"}

\* A call that is not written out is the only one that has another name's text.
MCReads(place) == Column(place.range.end) - Column(place.range.start) = 1
MCFolders == <<>>
=============================================================================
