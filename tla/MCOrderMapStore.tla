--------------------------- MODULE MCOrderMapStore ---------------------------
(* OrderMapStore for TLC: labels competing for source ids, and blocks.    *)
EXTENDS OrderMapStore, TLC

Symmetry == Permutations(Label) \cup Permutations(SourceId)
              \cup Permutations(Block)

=============================================================================
