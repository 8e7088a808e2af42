----------------------------- MODULE MC_Catalog -----------------------------
(* What stands in the catalog of a restaurant and how it gets there, one    *)
(* of MenuTree, MenuView, CatalogItems and Seed in each behaviour.          *)
EXTENDS MenuTree, MenuView, CatalogItems, Seed, TLC

CONSTANTS
    a1, a2, k1  \* two allergens of the same code

Codes == [a \in {a1, a2} |-> k1]

VARIABLE part  \* the component this behaviour is about

MCInit ==
    /\ part \in {"tree", "view", "items", "seed"}
    /\ Init
    /\ ViewInit
    /\ ItemsInit /\ (part # "items" => kind = "badge" /\ reactions = {}
                                       /\ \A i \in Made : items[i].label = CHOOSE l \in Label : TRUE)
    /\ SeedInit

MCNext ==
    /\ UNCHANGED part
    /\ \/ part = "tree" /\ Next /\ UNCHANGED <<viewVars, itemsVars, seedVars>>
       \/ part = "view" /\ ViewNext /\ UNCHANGED <<vars, itemsVars, seedVars>>
       \/ part = "items" /\ ItemsNext /\ UNCHANGED <<vars, viewVars, seedVars>>
       \/ part = "seed" /\ SeedNext /\ UNCHANGED <<vars, viewVars, itemsVars>>

MCSpec == MCInit /\ [][MCNext]_<<part, vars, viewVars, itemsVars, seedVars>>

Symmetry == Permutations(Subcategory) \cup Permutations(Seeder)
=============================================================================
