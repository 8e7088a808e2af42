---------------------------- MODULE MC_MenuTree -----------------------------
(* MenuTree on a few rows per level. *)
EXTENDS MenuTree, TLC

\* Bound: once there is a second branch, requests come one at a time.
Explored ==
    \/ \A b \in Branch \ {SeedBranch} : Fresh(b)
    \/ \A q, r \in Req : req[q].pc # "idle" /\ req[r].pc # "idle" => q = r

Symmetry ==
    Permutations(Branch \ {SeedBranch}) \cup Permutations(Category \ {SeedHome})
      \cup Permutations(Subcategory) \cup Permutations(Product) \cup Permutations(Req)
=============================================================================
