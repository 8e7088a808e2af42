-------------------------- MODULE MC_SessionClient --------------------------
(* SessionClient with a few tabs, calls and token pairs. *)
EXTENDS SessionClient, TLC

Symmetry == Permutations(Tab) \cup Permutations(Call) \cup Permutations(Token)
=============================================================================
