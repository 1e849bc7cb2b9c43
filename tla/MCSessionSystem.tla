-------------------------- MODULE MCSessionSystem --------------------------
(* Small instances of SessionSystem. *)
EXTENDS SessionSystem, TLC

Symmetry == Permutations(Nodes)

AllMixes ==
    {{"tabs", "open_tab", "close_tab"}, {"tabs", "read_page"},
     {"snapshot", "eval"}, {"snapshot", "interact"},
     {"cookies", "capture"}, {"set_cookies", "clear"}, {"set_cookies", "delete_cookies"}}

=============================================================================
