------------------------------ MODULE MC_Auth -------------------------------
(* The token sessions on a few tokens, users and request slots, by one      *)
(* request at a time while the clock runs or by two at once while it        *)
(* stands; or the rights of one user (Permissions).                         *)
EXTENDS AuthTokens, Permissions, TLC

VARIABLE part  \* what this behaviour is about

MCInit ==
    /\ part \in {"alone", "together", "rights"}
    /\ Init
    /\ PermissionsInit /\ (part # "rights" => grants = {<<FirstSite, "ADMIN">>})

OneAtATime == \A q, r \in Req : req[q].pc # "idle" /\ req[r].pc # "idle" => q = r

MCNext ==
    /\ UNCHANGED part
    /\ \/ part = "alone" /\ Next /\ OneAtATime' /\ UNCHANGED permissionVars
       \/ part = "together" /\ Next /\ now' = 0 /\ UNCHANGED permissionVars
       \/ part = "rights" /\ PermissionsNext /\ UNCHANGED vars

MCSpec == MCInit /\ [][MCNext]_<<part, vars, permissionVars>>

-----------------------------------------------------------------------------
(* What holds of requests one at a time, and not of two (AuthTokens)        *)

\* Refreshes that never overlap leave one live token in a family.
AloneOneLivePerFamily == part = "alone" => OneLivePerFamily

\* "If reuse of a revoked token is detected, the entire family is revoked"
\* holds of requests that never overlap.
AloneReuseRevokesFamily == part = "alone" => ReuseRevokesFamily

\* A logout that overlaps nothing leaves its user no live token.
AloneLogoutRevokesUser == part = "alone" => LogoutRevokesUser

Symmetry == Permutations(Token) \cup Permutations(Req) \cup Permutations(User)
=============================================================================
