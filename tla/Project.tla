------------------------------ MODULE Project ------------------------------
(***************************************************************************)
(* The project (project.cc): what compile_commands.json and the .ccls      *)
(* files of a workspace folder say of the compiler's arguments, how a      *)
(* folder is loaded from them, and how the arguments of a path are found.  *)
(*                                                                         *)
(* A directory is a sequence of names, a path a directory with a stem and  *)
(* an extension, and an argument a record: its text, how many arguments    *)
(* excludesArg takes out where it stands, the %-languages it is written    *)
(* for and the directory it adds to the search path.  Nothing is a         *)
(* symbolic link and clang.pathMappings is empty; the compilation database *)
(* is a file.                                                              *)
(***************************************************************************)
EXTENDS Integers, Sequences, FiniteSets, SequencesExt, FiniteSetsExt, Functions

CONSTANTS
  NoPath,          \* the filename of an empty Entry
  NoCompDB,        \* no compile_commands.json
  Tree,            \* the files below the folders, in the order of a listing: without
                   \* those whose name begins with a dot
  ExtraArgs,       \* clang.extraArgs
  Whitelist, Blacklist  \* the paths that index.whitelist, index.blacklist match

Arg(text) == [text |-> text, drop |-> 0, only |-> {}, search |-> {}]
FileArg(path) == Arg(path.dir \o <<path.stem, path.ext>>)
WorkingDirectory(dir) == Arg(<<"-working-directory">> \o dir)

\* sys::path::stem of an argument.
StemOf(arg) == IF Len(arg.text) < 2 THEN arg.text[1] ELSE arg.text[Len(arg.text) - 1]

lookupExtension(path) ==
  [lang |-> CASE path.ext \in {"c", "h"} -> "c"
              [] path.ext \in {"cc", "hh"} -> "cpp"
              [] OTHER -> "unknown",
   header |-> path.ext \in {"h", "hh"}]

IsSource(path) == lookupExtension(path).lang /= "unknown" /\ ~lookupExtension(path).header
IsHeader(path) == lookupExtension(path).header

\* StringRef::startswith for a directory with its slash.
Under(path, dir) == IsPrefix(dir, path.dir)

\* GroupMatch::matches
matches(path) == path \in Whitelist \/ path \notin Blacklist

\* The members of a sequence that are in a set, in their order.
Kept(seq, members) ==
  FlattenSeq([i \in DOMAIN seq |-> IF seq[i] \in members THEN <<seq[i]>> ELSE <<>>])

\* The files below a folder.
getFilesInFolder(folder) == Kept(Tree, {p \in Range(Tree) : Under(p, folder)})

----------------------------------------------------------------------------
(* Arguments *)

\* A %-argument is for some languages: %h and %hpp for headers.
IsFor(arg, path) ==
  LET k == lookupExtension(path) IN
  \/ k.lang \in arg.only
  \/ k.header /\ (IF k.lang = "c" THEN "h" ELSE "hpp") \in arg.only

\* The arguments from the first one on, without those that excludesArg takes out;
\* of each of the others what it is replaced by.
Selected(args, first, expanded) ==
  LET rest[i \in 1..Len(args) + 2] ==
        IF i > Len(args) THEN <<>>
        ELSE IF args[i].drop > 0 THEN rest[i + args[i].drop]
        ELSE expanded[i] \o rest[i + 1]
  IN rest[first]

\* ProjectProcessor::process: the command of the compilation database is kept, what
\* comes from .ccls is expanded and filtered.
process(args, compdb_size, path) ==
  SubSeq(args, 1, compdb_size) \o
  Selected(args, compdb_size + 1,
           [i \in DOMAIN args |->
              IF args[i].only = {} THEN <<args[i]>>
              ELSE IF IsFor(args[i], path) THEN <<[args[i] EXCEPT !.only = {}]>> ELSE <<>>])

\* getSearchDirs asks clang's driver (LLVM < 8).  Those that findEntry adds to a
\* folder are left out: only the label of an include completion depends on them.
SearchDirs(args) == UNION {args[i].search : i \in DOMAIN args}

\* The first line of a .ccls that adds to compile_commands.json.
AppendLine == Arg(<<"%compile_commands.json">>)
appendToCDB(args) == args /= <<>> /\ args[1] = AppendLine

getFallback(path) ==
  <<Arg(<<"clang">>)>>
    \o (IF path.ext = "h" THEN <<Arg(<<"-xobjective-c++-header">>)>> ELSE <<>>)
    \o <<FileArg(path)>>

\* What a .ccls that stands for itself gives to a path.
DotCclsArgs(args, path) ==
  IF args = <<>> THEN getFallback(path) ELSE Append(args, FileArg(path))

\* What Project::index sends with a request.
RequestArgs(entry) == entry.args \o ExtraArgs \o <<WorkingDirectory(entry.directory)>>

----------------------------------------------------------------------------
(* Loading a folder *)

Entry(root, directory, filename, args, compdb_size) ==
  [root |-> root, directory |-> directory, filename |-> filename, args |-> args,
   compdb_size |-> compdb_size, is_inferred |-> FALSE]

NoEntry == Entry(<<>>, <<>>, NoPath, <<>>, 0)

NewFolder ==
  [entries |-> <<>>, path2entry_index |-> <<>>, dot_ccls |-> <<>>, search |-> {}]

\* One command of compile_commands.json.
OfCommand(root, cmd) ==
  LET args == Selected(cmd.args, 1, [i \in DOMAIN cmd.args |-> <<cmd.args[i]>>])
  IN Entry(root, cmd.directory, cmd.filename, args, Len(args))

\* Of several commands for a file the first counts.
CompDBEntries(root, commands) ==
  LET first == Kept([i \in DOMAIN commands |-> i],
                    {i \in DOMAIN commands :
                       \A j \in 1..i - 1 : commands[j].filename /= commands[i].filename})
  IN [k \in DOMAIN first |-> OfCommand(root, commands[first[k]])]

\* The .ccls of the nearest directory that has one; outside of the root, its own.
getDotCcls(dot_ccls, root, path) ==
  LET above == {dir \in DOMAIN dot_ccls : Under(path, dir)} IN
  IF above = {} THEN dot_ccls[root]
  ELSE dot_ccls[CHOOSE dir \in above : \A d \in above : Len(d) <= Len(dir)]

\* What a compilation database has is appended to, and the sources it has not are
\* listed.
Extended(entry, args) ==
  IF ~appendToCDB(args) THEN entry
  ELSE [entry EXCEPT !.args = process(@ \o Tail(args), entry.compdb_size, entry.filename)]

FromListing(root, path, args) ==
  Entry(root, root, path, process(DotCclsArgs(args, path), 0, path), 0)

Unseen(root, entries, dot_ccls) ==
  Kept(getFilesInFolder(root),
       {p \in Range(Tree) :
          /\ IsSource(p)
          /\ \A i \in DOMAIN entries : entries[i].filename /= p
          /\ ~appendToCDB(getDotCcls(dot_ccls, root, p))})

ListedEntries(root, files, dot_ccls) ==
  [k \in DOMAIN files |->
     FromListing(root, files[k], getDotCcls(dot_ccls, root, files[k]))]

WithDotCcls(root, folder, dot_ccls) ==
  [folder EXCEPT
     !.dot_ccls = dot_ccls,
     !.entries = [i \in DOMAIN @ |->
                    Extended(@[i], getDotCcls(dot_ccls, root, @[i].filename))]
                 \o ListedEntries(root, Unseen(root, @, dot_ccls), dot_ccls)]

\* loadDirectoryListing: the .ccls files below the root join those known.
loadDirectoryListing(root, folder, dot_ccls) ==
  WithDotCcls(root, folder,
    folder.dot_ccls @@ Restrict(dot_ccls, {dir \in DOMAIN dot_ccls : IsPrefix(root, dir)}))

\* Project::loadDirectory: path2entry_index, dot_ccls and the search directories
\* keep what an earlier load put there.
FromCompDB(root, folder, commands) ==
  IF commands = NoCompDB THEN [folder EXCEPT !.entries = <<>>]
  ELSE [folder EXCEPT
          !.entries = CompDBEntries(root, commands),
          !.search = @ \cup UNION {SearchDirs(commands[i].args) : i \in DOMAIN commands}]

loadDirectory(root, folder, layout) ==
  IF root \in DOMAIN layout.dot_ccls
  THEN loadDirectoryListing(root, FromCompDB(root, folder, layout.compdb[root]),
                            layout.dot_ccls)
  ELSE FromCompDB(root, folder, layout.compdb[root])

\* path2entry_index[entries[i].filename] = i.
Reindexed(folder) ==
  [folder EXCEPT
     !.path2entry_index =
       [path \in {folder.entries[i].filename : i \in DOMAIN folder.entries} |->
          CHOOSE i \in DOMAIN folder.entries : folder.entries[i].filename = path] @@ @,
     !.search = @ \cup UNION {SearchDirs(folder.entries[i].args) : i \in DOMAIN folder.entries}]

FolderOf(root, root2folder) ==
  IF root \in DOMAIN root2folder THEN root2folder[root] ELSE NewFolder

\* Project::load: what it makes of the folder.
load(root, root2folder, layout) ==
  Reindexed(loadDirectory(root, FolderOf(root, root2folder), layout))

----------------------------------------------------------------------------
(* Finding the arguments of a path *)

\* How many members two sequences share.
Common(s, t) ==
  LET Count(seq, x) == Cardinality({i \in DOMAIN seq : seq[i] = x})
      Least(x) == IF Count(s, x) <= Count(t, x) THEN Count(s, x) ELSE Count(t, x)
  IN MapThenSumSet(Least, Range(s) \cap Range(t))

\* computeGuessScore: 31 points for a common directory, 9 off for each slash and
\* one point for each common character of the base names (their parts, here).
computeGuessScore(a, b) ==
  31 * Common(a.dir, b.dir) - 9 * (Len(a.dir) + Len(b.dir) + 2)
    + Common(<<a.stem, a.ext>>, <<b.stem, b.ext>>)

\* A .c is not matched against a .hh.
GuessScore(path, other) ==
  LET k == lookupExtension(path)
  IN computeGuessScore(path, other)
       - (IF k.lang /= lookupExtension(other).lang /\ ~(k.lang = "c" /\ k.header)
          THEN 30 ELSE 0)

\* The entry at an index of path2entry_index that a later load has left behind may
\* be no entry any more.
EntryAt(folder, i) == IF i \in DOMAIN folder.entries THEN folder.entries[i] ELSE NoEntry

\* An entry of compile_commands.json is exact, one of the listing is implicit.
IsExact(entry, path) == entry.compdb_size > 0 /\ entry.filename = path

\* The first of those that are at least as good as all.
FirstBest(seq, value) ==
  seq[CHOOSE i \in DOMAIN seq :
        /\ \A j \in DOMAIN seq : value[j] <= value[i]
        /\ \A j \in 1..i - 1 : value[j] < value[i]]

NoDotCcls == [root |-> <<>>, dir |-> <<>>, args |-> <<>>]

\* The .ccls of the longest directory above a path, in the first of the folders, in
\* the order in which root2folder has them.
BestDotCcls(order, root2folder, path) ==
  LET above(root, dot_ccls) ==
        {[root |-> root, dir |-> dir, args |-> dot_ccls[dir]] :
           dir \in {d \in DOMAIN dot_ccls : Under(path, d)}}
      dots == <<NoDotCcls>> \o FlattenSeq([k \in DOMAIN order |->
                SetToSeq(above(order[k], root2folder[order[k]].dot_ccls))])
  IN FirstBest(dots, [i \in DOMAIN dots |-> Len(dots[i].dir)])

\* What path2entry_index of each of the folders has for a path.
Matches(order, root2folder, path, can_redirect) ==
  LET having == SelectSeq(order, LAMBDA root : path \in DOMAIN root2folder[root].path2entry_index)
  IN SelectSeq([k \in DOMAIN having |->
                  EntryAt(root2folder[having[k]],
                          root2folder[having[k]].path2entry_index[path])],
               LAMBDA e : can_redirect \/ IsExact(e, path))

\* The entries of compilation databases of the folders that contain a path.
Candidates(order, root2folder) ==
  FlattenSeq([k \in DOMAIN order |->
    SelectSeq(root2folder[order[k]].entries, LAMBDA e : e.compdb_size > 0)])

\* A .ccls that stands for itself gives the arguments.
ByDotCcls(root, args, path) == Entry(root, root, path, DotCclsArgs(args, path), 0)

\* The arguments of another entry: the path itself is named separately.
ByEntry(best, inferred, path) ==
  [Entry(best.root, best.directory, path, SubSeq(best.args, 1, best.compdb_size), 0)
     EXCEPT !.is_inferred = inferred]

ByFallback(fallbackFolder, path) ==
  [Entry(fallbackFolder, fallbackFolder, path, getFallback(path), 0)
     EXCEPT !.is_inferred = TRUE]

\* The lines of a .ccls that adds to the command, the search directories and
\* processing, and what every command gets.
Completed(entry, appended, processed) ==
  LET args == entry.args \o appended
  IN [entry EXCEPT !.args = (IF processed THEN process(args, 0, entry.filename) ELSE args)
                              \o ExtraArgs \o <<WorkingDirectory(entry.directory)>>]

\* The .ccls overrides also an exact match.
OverridesMutant(dot_args, exact) == ~appendToCDB(dot_args)

\* A .ccls overrides what compile_commands.json says unless it appends or the match
\* is exact.
Overrides(dot_args, exact) == ~appendToCDB(dot_args) /\ ~exact

\* The folder's entry for a path if there is one, or else what the most similar one
\* of a compilation database says, or else the fallback.
FromCommands(match, candidates, fallbackFolder, path, appended, processed) ==
  IF match /= <<>> /\ match[1].compdb_size > 0
  THEN Completed(ByEntry(match[1], FALSE, path), appended, TRUE)
  ELSE IF candidates /= <<>>
  THEN LET score == [i \in DOMAIN candidates |-> GuessScore(path, candidates[i].filename)]
       IN Completed(ByEntry(FirstBest(candidates, score), TRUE, path), appended, TRUE)
  ELSE Completed(ByFallback(fallbackFolder, path), appended, processed)

FoundEntry(dot, match, candidates, fallbackFolder, path, must_exist) ==
  IF dot /= NoDotCcls /\ Overrides(dot.args, match /= <<>> /\ IsExact(match[1], path))
  THEN Completed(ByDotCcls(dot.root, dot.args, path), <<>>, TRUE)
  ELSE IF must_exist /\ match = <<>> /\ (dot = NoDotCcls \/ appendToCDB(dot.args))
  THEN NoEntry
  ELSE FromCommands(match, candidates, fallbackFolder, path,
                    IF appendToCDB(dot.args) THEN Tail(dot.args) ELSE <<>>,
                    dot /= NoDotCcls)

\* Project::findEntry, with the folders above the path in the order in which
\* root2folder, a hash table, has them.
FindIn(order, root2folder, fallbackFolder, path, can_redirect, must_exist) ==
  FoundEntry(BestDotCcls(order, root2folder, path),
             Matches(order, root2folder, path, can_redirect),
             Candidates(order, root2folder), fallbackFolder, path, must_exist)

findEntry(roots, root2folder, fallbackFolder, path, can_redirect, must_exist) ==
  FindIn(SelectSeq(roots, LAMBDA root : Under(path, root)), root2folder,
         fallbackFolder, path, can_redirect, must_exist)

----------------------------------------------------------------------------
(* Requests for many files *)

Request(path, args, mode, must_exist, id) ==
  [path |-> path, args |-> args, mode |-> mode, must_exist |-> must_exist, id |-> id]

\* Project::index: every entry, and the dummy request last.
IndexRequests(roots, root2folder, open, id) ==
  LET all == FlattenSeq([k \in DOMAIN roots |-> root2folder[roots[k]].entries])
      chosen == Kept(all, {e \in Range(all) : matches(e.filename)})
  IN Append([k \in DOMAIN chosen |->
               LET e == chosen[k]
               IN Request(e.filename, RequestArgs(e),
                          IF e.filename \in open THEN "Normal" ELSE "Background",
                          FALSE, id)],
            Request(NoPath, <<>>, "Background", FALSE, 0))

\* Project::indexRelated: the sources with a header's stem, in the first folder
\* that contains it.
RelatedRequests(roots, root2folder, path) ==
  LET order == SelectSeq(roots, LAMBDA root : Under(path, root)) IN
  IF order = <<>> THEN <<>>
  ELSE LET related == SelectSeq(root2folder[order[1]].entries, LAMBDA e :
                        /\ e.filename.stem = path.stem /\ e.filename /= path
                        /\ matches(e.filename))
       IN [k \in DOMAIN related |->
             Request(related[k].filename, RequestArgs(related[k]), "Background", TRUE, 0)]
============================================================================
