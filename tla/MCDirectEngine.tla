--------------------------- MODULE MCDirectEngine ---------------------------
(* Small instances of DirectEngine. *)
EXTENDS DirectEngine, TLC

Symmetry == Permutations(Pids)

=============================================================================
