------------------------- MODULE MCPlaywrightEngine -------------------------
(* Small instances of PlaywrightEngine. *)
EXTENDS PlaywrightEngine, TLC

Symmetry == Permutations(Launches)

=============================================================================
