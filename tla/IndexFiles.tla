----------------------------- MODULE IndexFiles -----------------------------
(***************************************************************************)
(* The data of the indexing pipeline and the functions on it: index files  *)
(* (indexer.hh IndexFile), the VFS's record of what was indexed            *)
(* (pipeline.hh VFS), deltas between two index files (query.cc             *)
(* IndexUpdate::createDelta) and what they do to the database (query.cc    *)
(* DB::applyIndexUpdate).                                                  *)
(*                                                                         *)
(* Everything an index file contributes to the database (definitions,      *)
(* declarations, uses and reference counts) stands or falls together, so   *)
(* it is abstracted to the pair of the revision of the file it was made    *)
(* from and whether names without linkage were indexed.                    *)
(***************************************************************************)
EXTENDS Integers, Sequences

CONSTANTS
  Paths,    \* the files of the project
  MaxRev,   \* bound on the revisions of a file
  None      \* absence: a null pointer, a missing file, an empty optional

ASSUME RevAssumption == MaxRev \in Nat \ {0}

Revs == 0..MaxRev
Contents == Revs \X BOOLEAN

ASSUME NoneAssumption == None \notin Paths \cup Contents

\* An index file: the write time and the revision of its source, whether names
\* without linkage are in it, and the write times of its dependencies.
IndexOf(mtime, rev, no_linkage, deps) ==
  [mtime |-> mtime, rev |-> rev, no_linkage |-> no_linkage,
   dependencies |-> deps]

Files(D) == [mtime : Nat, rev : Revs \cup {None}, no_linkage : BOOLEAN,
             dependencies : [D -> Nat]]

\* IndexFile(path, "", false), stored for a deleted file.
EmptyIndex == IndexOf(0, None, FALSE, <<>>)

\* What an index file contributes to the database.
ContentOf(file) ==
  IF file = None \/ file.rev = None THEN None ELSE <<file.rev, file.no_linkage>>

----------------------------------------------------------------------------
(* VFS *)
NeverSeen == [timestamp |-> 0, step |-> 0, loaded |-> 0]

\* The comparison in VFS::stamp: a later write time, or the same one at a
\* later step (0, 1: background, 2, 3: with names without linkage).
Newer(st, ts, step) ==
  st.timestamp < ts \/ (st.timestamp = ts /\ st.step < step)

Stamped(st, ts, step) ==
  IF Newer(st, ts, step) THEN [st EXCEPT !.timestamp = ts, !.step = step] ELSE st

----------------------------------------------------------------------------
(* ThreadedQueue, as far as the order of its elements goes: see module      *)
(* ThreadedQueue.                                                           *)
EmptyQueue == [priority_ |-> <<>>, queue_ |-> <<>>]

PushBack(q, e, priority) ==
  IF priority THEN [q EXCEPT !.priority_ = Append(@, e)]
              ELSE [q EXCEPT !.queue_ = Append(@, e)]

InOrder(q) == q.priority_ \o q.queue_

\* The elements of s whose path is in P, in order.
OfPaths(s, P) ==
  LET upTo[n \in 0..Len(s)] ==
        IF n = 0 THEN <<>>
        ELSE IF s[n].path \in P THEN Append(upTo[n - 1], s[n]) ELSE upTo[n - 1]
  IN upTo[Len(s)]

PopFront(q) ==
  IF q.priority_ /= <<>> THEN [q EXCEPT !.priority_ = Tail(@)]
                         ELSE [q EXCEPT !.queue_ = Tail(@)]

----------------------------------------------------------------------------
(* The database's share of one file: reference counts (symbol2refcnt), the  *)
(* entities' lists of uses, and the definitions that name the file.         *)
NotIndexed ==
  [refcnt |-> [c \in Contents |-> 0], uses |-> [c \in Contents |-> 0],
   def |-> None]

createDelta(path, previous, current) ==
  [path |-> path, prev |-> ContentOf(previous), curr |-> ContentOf(current)]

\* The update that only refreshes semantic highlighting.
RefreshUpdate == [path |-> None, prev |-> None, curr |-> None]

Delta(c, content) == IF c = content THEN 1 ELSE 0

applyMutant(d, u) ==
  [refcnt |-> [c \in Contents |-> d.refcnt[c] - Delta(c, u.prev) + Delta(c, u.curr)],
   uses |-> [c \in Contents |-> d.uses[c] + Delta(c, u.curr)],
   def |-> IF u.curr /= None \/ u.prev /= None THEN u.curr ELSE d.def]

\* ref() and refDecl() add and subtract one; removeRange erases every use equal
\* to one of prev's before addRange appends curr's; removeUsrs erases the
\* definition if prev had one, update() replaces or adds it if curr has one.
apply(d, u) ==
  [refcnt |-> [c \in Contents |-> d.refcnt[c] - Delta(c, u.prev) + Delta(c, u.curr)],
   uses |-> [c \in Contents |->
              (IF c = u.prev THEN 0 ELSE d.uses[c]) + Delta(c, u.curr)],
   def |-> IF u.curr /= None \/ u.prev /= None THEN u.curr ELSE d.def]
============================================================================
