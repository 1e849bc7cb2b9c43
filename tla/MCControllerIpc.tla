--------------------------- MODULE MCControllerIpc ---------------------------
(* Small instances of ControllerIpc. *)
EXTENDS ControllerIpc, TLC

Symmetry == Permutations(Conns)

=============================================================================
