---------------------------- MODULE MCProjectRuns ----------------------------
(* Small instances of ProjectRuns for TLC. *)
EXTENDS ProjectRuns, TLC

\* Coroutines and worker processes are interchangeable.
Symmetry == Permutations(Requests) \cup Permutations(Workers)
=============================================================================
