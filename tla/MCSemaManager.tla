--------------------------- MODULE MCSemaManager ---------------------------
(* Instances of SemaManager: a source s, alone or with a header h, which it  *)
(* includes and which has no preamble of its own.                            *)
EXTENDS SemaManager

CONSTANTS s, h

MCIncludes == [p \in Paths |-> IF p = s THEN Paths \ {s} ELSE {}]
MCBounds == [p \in Paths |-> IF p = s THEN {0, 1, 2} ELSE {0}]
MCTwoBounds == [p \in Paths |-> {0, 1}]

\* None, and two of one size.
MCSize(bounds) == IF bounds = 0 THEN 0 ELSE 1
MCNever == -1
============================================================================
