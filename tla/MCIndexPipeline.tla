-------------------------- MODULE MCIndexPipeline --------------------------
(* Instances of IndexPipeline: a translation unit s that includes a header h. *)
EXTENDS IndexPipeline, TLC

CONSTANTS s, h

MCPaths == {s, h}
MCEntries == <<s>>
MCIncludes == [p \in MCPaths |-> IF p = s THEN {h} ELSE {}]

Symmetry == Permutations(Indexers)
============================================================================
