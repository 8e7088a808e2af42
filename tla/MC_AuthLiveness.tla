-------------------------- MODULE MC_AuthLiveness ---------------------------
(* What must happen in the end: the requests of the token sessions          *)
(* (AuthTokens), or the end of a lockout (LoginGuard).                      *)
EXTENDS AuthTokens, LoginGuard

VARIABLE part  \* the component this behaviour is about

MCInit ==
    /\ part \in {"tokens", "guard"}
    /\ Init
    /\ GuardInit

MCNext ==
    /\ UNCHANGED part
    /\ \/ part = "tokens" /\ Next /\ UNCHANGED guardVars
       \/ part = "guard" /\ GuardNext /\ UNCHANGED vars

\* The fairness of each component, which asks nothing of the one at rest.
MCSpec == MCInit /\ [][MCNext]_<<part, vars, guardVars>> /\ Fairness /\ GuardFairness
=============================================================================
