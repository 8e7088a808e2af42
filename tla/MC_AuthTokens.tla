--------------------------- MODULE MC_AuthTokens ----------------------------
(* AuthTokens on a few tokens, users and request slots. *)
EXTENDS AuthTokens, TLC

Symmetry == Permutations(Token) \cup Permutations(Req) \cup Permutations(User)
=============================================================================
