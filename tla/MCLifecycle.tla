---------------------------- MODULE MCLifecycle ----------------------------
(* The small instances of Lifecycle.                                       *)
EXTENDS Lifecycle, TLC

Symmetry ==
    Permutations(Containers) \cup Permutations(Ids)
        \cup Permutations(Workers \ Mcp) \cup Permutations(Mcp)
=============================================================================
