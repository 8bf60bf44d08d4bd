----------------------------- MODULE IndexedDB -----------------------------
(***************************************************************************)
(* What the indexing pipeline promises: the index files stored for a file  *)
(* follow one another without a gap, each reaches the database as a step   *)
(* from the one stored before it, and a step taken from that one makes the *)
(* database's share exactly its image.  Steps of urgent requests overtake  *)
(* those of background ones; a step taken before its turn promises nothing *)
(* (see CountsAddUp in module IndexPipeline, which implements this one).   *)
(***************************************************************************)
EXTENDS Sequences

CONSTANTS Paths, Contents, None

VARIABLES
  db,      \* the database's share of each file
  stored,  \* the content of the index file stored last for each file
  pending  \* pending[p]: the steps not yet in the database, of either class

\* The share of a file of which content c, or nothing, is indexed.
Image(c) ==
  LET once == [x \in Contents |-> IF x = c THEN 1 ELSE 0]
  IN [refcnt |-> once, uses |-> once, def |-> c]

Nothing == [urgent |-> <<>>, background |-> <<>>]

Init ==
  /\ db = [p \in Paths |-> Image(None)]
  /\ stored = [p \in Paths |-> None]
  /\ pending = [p \in Paths |-> Nothing]

\* An index file of p is made or found.
Store(p) ==
  LET step == [prev |-> stored[p], curr |-> stored'[p]]
  IN /\ UNCHANGED db
     /\ step.curr \in Contents \cup {None}
     /\ stored' = [stored EXCEPT ![p] = step.curr]
     /\ \E class \in DOMAIN Nothing :
          pending' = [pending EXCEPT ![p][class] = Append(@, step)]

\* The oldest step of p that is not yet in the database is taken, an urgent one
\* first.
Apply(p) ==
  LET class == IF pending[p].urgent /= <<>> THEN "urgent" ELSE "background"
      step == Head(pending[p][class])
  IN
  /\ UNCHANGED stored
  /\ pending[p][class] /= <<>>
  /\ pending' = [pending EXCEPT ![p][class] = Tail(@)]
  /\ DOMAIN db' = Paths
  /\ \A q \in Paths \ {p} : db'[q] = db[q]
  /\ db[p] = Image(step.prev) => db'[p] = Image(step.curr)

\* A reload, which finds nothing pending: the database forgets every file.
Reset ==
  /\ pending = [p \in Paths |-> Nothing]
  /\ db' = [p \in Paths |-> Image(None)]
  /\ stored' = [p \in Paths |-> None]
  /\ UNCHANGED pending

Next ==
  \/ Reset
  \/ \E p \in Paths : Apply(p) \/ Store(p)

Spec == Init /\ [][Next]_<<db, stored, pending>>
============================================================================
