------------------------- MODULE MCDataRootSystem -------------------------
(* Small instances of DataRootSystem. *)
EXTENDS DataRootSystem, TLC

CONSTANTS a, b, i1, i2

Symmetry == Permutations(Ids)

AllArchives == (SUBSET Ids) \ {{}}

OnTheirOwn == {"repair", "move"} \X (Commands \cup {"launch"})

Unmixed == OnTheirOwn \cup {<<"delete", "restore">>}

CanRoot == [p \in Procs |-> IF p = a THEN Commands ELSE {"create", "delete", "repair"}]

CanSweep == [p \in Procs |-> IF p = a THEN {"restore"} ELSE {"repair"}]

=============================================================================
