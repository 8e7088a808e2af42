--------------------------- MODULE MC_PublicMenu ----------------------------
(* What the public API serves, two of the services that change it and the   *)
(* dashboard page it is changed from, one of them in each behaviour:        *)
(* PublicCache, BranchPricing, ProductDetails, DashboardList.               *)
EXTENDS PublicCache, BranchPricing, ProductDetails, DashboardList, TLC

CONSTANTS
    p1, b1, b2, bd, bf  \* the products and branches of the constants below

Base   == (p1 :> 1)
Starts == {Null, [avail |-> TRUE, price |-> Null], [avail |-> FALSE, price |-> 2]}

Item(b, avail, price) == [branch |-> b, avail |-> avail, price |-> price]

\* Updates of one branch and of two, in either order, of a deleted branch twice
\* in one body, and of another tenant's.
BulkBodies ==
    {<<Item(b1, FALSE, 2)>>,
     <<Item(b1, TRUE, Null), Item(b2, TRUE, 1)>>,
     <<Item(b2, FALSE, 0), Item(b1, FALSE, 1)>>,
     <<Item(bd, TRUE, 1), Item(bd, FALSE, 0), Item(bf, TRUE, Null)>>}

VARIABLE part  \* the component this behaviour is about

MCInit ==
    /\ part \in {"cache", "pricing", "details", "list"}
    /\ Init
    /\ PricingInit /\ (part # "pricing" => \A x \in Row : bp[x] = Null)
    /\ DetailsInit /\ (part # "details" => resource = "badges")
    /\ ListInit

MCNext ==
    /\ UNCHANGED part
    /\ \/ part = "cache" /\ Next /\ UNCHANGED <<pricingVars, detailsVars, listVars>>
       \/ part = "pricing" /\ PricingNext /\ UNCHANGED <<vars, detailsVars, listVars>>
       \/ part = "details" /\ DetailsNext /\ UNCHANGED <<vars, pricingVars, listVars>>
       \/ part = "list" /\ ListNext /\ UNCHANGED <<vars, pricingVars, detailsVars>>

MCSpec == MCInit /\ [][MCNext]_<<part, vars, pricingVars, detailsVars, listVars>>

Symmetry ==
    Permutations(Req) \cup Permutations(Worker) \cup Permutations(Shop) \cup Permutations(Flight)
=============================================================================
