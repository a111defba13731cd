--------------------------- MODULE MCVoxaSession ---------------------------
(* Small instances of VoxaSession for TLC. *)
EXTENDS VoxaSession, TLC

\* The documents and bots, the coroutines and the workers are interchangeable.
Symmetry == Permutations(Requests) \cup Permutations(Workers)
                \cup Permutations(Blueprints) \cup Permutations(Bots)
=============================================================================
