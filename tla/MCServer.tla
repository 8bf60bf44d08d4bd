------------------------------ MODULE MCServer ------------------------------
(***************************************************************************)
(* A folder w with a compilation database that its .ccls adds to, a        *)
(* subdirectory with a .ccls of its own, a source with a header of its     *)
(* name, and a folder v with an empty .ccls.  MCLayouts grow: more         *)
(* commands, and a .ccls that says something else.  In MCShrinking the     *)
(* compilation database loses its first file.                              *)
(***************************************************************************)
EXTENDS Server

w == <<"w">>
v == <<"v">>
s == <<"w", "s">>

File(dir, stem, ext) == [dir |-> dir, stem |-> stem, ext |-> ext]
a_c == File(w, "a", "c")
a_h == File(w, "a", "h")
b_c == File(s, "b", "c")
v_c == File(v, "v", "c")

MCTree == <<a_c, a_h, b_c, v_c>>
MCFolders == <<v, w>>
MCInitialFolders == {<<>>, <<w>>}
MCOpened == {a_c, a_h}
MCWritten == {a_c}
MCFailing == {b_c}
MCModes == <<{"server", "standalone"}, {"standalone"}>>
MCExtraArgs == <<Arg(<<"-Wall">>)>>
MCWhitelist == {v_c}
MCBlacklist == {v_c, a_h}
MCIncludeMatch(dir) == TRUE

clang == Arg(<<"clang">>)
Include(dir) == [Arg(<<"-I">> \o dir) EXCEPT !.search = {dir}]
MF == [Arg(<<"-MF">>) EXCEPT !.drop = 2]
MD == [Arg(<<"-MD">>) EXCEPT !.drop = 1]
For(langs, text) == [Arg(text) EXCEPT !.only = langs]

Command(dir, path, args) ==
  [directory |-> dir, filename |-> path, args |-> <<clang>> \o args \o <<FileArg(path)>>]

a_cmd == Command(w, a_c, <<Include(s), MF, Arg(<<"a.d">>)>>)
b_cmd == Command(s, b_c, <<MD>>)
v_cmd == Command(v, v_c, <<>>)

w_ccls == <<AppendLine, For({"c", "cpp"}, <<"-Dc">>), For({"hpp"}, <<"-Dh">>), MD>>
s_ccls == <<clang, For({"h"}, <<"-Dh">>), MF, Arg(<<"b.d">>), Arg(<<"-O">>)>>

MCLayouts ==
  <<[compdb |-> (w :> <<a_cmd>>) @@ (v :> NoCompDB),
     dot_ccls |-> (w :> w_ccls) @@ (s :> s_ccls) @@ (v :> <<>>)],
    [compdb |-> (w :> <<Command(w, a_c, <<MD>>), b_cmd, Command(s, a_c, <<>>)>>) @@ (v :> <<v_cmd>>),
     dot_ccls |-> (w :> w_ccls) @@ (s :> Tail(s_ccls)) @@ (v :> <<>>)]>>

MCShrinking ==
  <<[compdb |-> (w :> <<a_cmd, b_cmd>>) @@ (v :> NoCompDB), dot_ccls |-> <<>>],
    [compdb |-> (w :> <<b_cmd>>) @@ (v :> NoCompDB), dot_ccls |-> <<>>]>>
============================================================================
