--------------------------- MODULE MCMetadataStore ---------------------------
(* Small instances of MetadataStore. *)
EXTENDS MetadataStore, TLC

CONSTANTS dual, pwOnly   \* a browser of both engines, one of Playwright only

MCSupports == ({"direct", "playwright"} \X (Browsers \cap {dual}))
                \cup ({"playwright"} \X (Browsers \cap {pwOnly}))

Symmetry == Permutations(Procs)

=============================================================================
