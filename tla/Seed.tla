-------------------------------- MODULE Seed --------------------------------
(***************************************************************************)
(* The seed data: rest_api/scripts/seed.py, which every start of the API   *)
(* in development runs (rest_api/app/main.py, whose lifespan swallows what *)
(* it raises) and which can be run by hand meanwhile.                      *)
(*                                                                         *)
(* A seeder works through its stages in one transaction: each looks a row  *)
(* up by its natural key and inserts it when there is none.  A stage       *)
(* stands for all the rows it makes, with one row.  What the dashboard     *)
(* does between two starts changes the keys the lookups go by.             *)
(***************************************************************************)
EXTENDS Naturals, FiniteSets

CONSTANTS
    Seeder,    \* processes that may run the seed at the same time
    MaxEdits   \* bound on the dashboard's edits

ASSUME EditsAssumption == MaxEdits \in Nat

-----------------------------------------------------------------------------
(* The stages: the table, the earlier stages whose ids the lookup filters   *)
(* by, and whether a unique constraint protects the key.  A code of a       *)
(* system item is unique with its tenant_id, which is NULL, and NULLs are   *)
(* distinct.                                                                *)

Stage(table, under, unique) == [table |-> table, under |-> under, unique |-> unique]

TenantStage           == Stage("tenant", {}, TRUE)
BranchStage           == Stage("branch", {"tenant"}, TRUE)
SectorStage           == Stage("sector", {"branch"}, TRUE)
TableStage            == Stage("table", {"sector"}, TRUE)
UserStage             == Stage("user", {}, TRUE)
RoleStage             == Stage("role", {"user", "branch"}, TRUE)
AllergenStage         == Stage("allergen", {}, FALSE)
CrossReactionStage    == Stage("cross_reaction", {"allergen"}, TRUE)
DietaryProfileStage   == Stage("dietary_profile", {}, FALSE)
CookingMethodStage    == Stage("cooking_method", {}, FALSE)
FlavorProfileStage    == Stage("flavor_profile", {}, FALSE)
TextureProfileStage   == Stage("texture_profile", {}, FALSE)
CuisineTypeStage      == Stage("cuisine_type", {"tenant"}, TRUE)
BadgeStage            == Stage("badge", {}, FALSE)
SealStage             == Stage("seal", {}, FALSE)
CategoryStage         == Stage("category", {"tenant"}, TRUE)
SubcategoryStage      == Stage("subcategory", {"category"}, TRUE)
ProductStage          == Stage("product", {"tenant"}, TRUE)
BranchProductStage    == Stage("branch_product", {"branch", "product"}, TRUE)
ProductAllergenStage  == Stage("product_allergen", {"product", "allergen"}, TRUE)
ProductCookingStage   == Stage("product_cooking", {"product", "cooking_method"}, TRUE)
ProductDietaryStage   == Stage("product_dietary", {"product", "dietary_profile"}, TRUE)
ProductBadgeStage     == Stage("product_badge", {"product", "badge"}, TRUE)
ProductSealStage      == Stage("product_seal", {"product", "seal"}, TRUE)
ProductIngredientStage == Stage("product_ingredient", {"product"}, TRUE)

\* _seed_categories_and_products, for one category, subcategory and product.
CatalogStages ==
    <<CategoryStage, SubcategoryStage, ProductStage, BranchProductStage, ProductAllergenStage,
      ProductCookingStage, ProductDietaryStage, ProductBadgeStage, ProductSealStage,
      ProductIngredientStage>>

FixedStages ==
    <<TenantStage, BranchStage, SectorStage, TableStage, UserStage, RoleStage, AllergenStage,
      CrossReactionStage, DietaryProfileStage, CookingMethodStage, FlavorProfileStage,
      TextureProfileStage, CuisineTypeStage, BadgeStage, SealStage>>

SystemItemsFirst ==
    <<AllergenStage, TenantStage, BranchStage, SectorStage, TableStage, UserStage, RoleStage,
      CrossReactionStage, DietaryProfileStage, CookingMethodStage, FlavorProfileStage,
      TextureProfileStage, CuisineTypeStage, BadgeStage, SealStage,
      CategoryStage, SubcategoryStage, ProductStage, BranchProductStage, ProductAllergenStage,
      ProductCookingStage, ProductDietaryStage, ProductBadgeStage, ProductSealStage,
      ProductIngredientStage>>

\* run_seed: the order of the stages.
Pipeline ==
    [i \in 1..25 |-> IF i <= 15 THEN FixedStages[i] ELSE CatalogStages[i - 15]]

StageTable  == {Pipeline[i].table : i \in 1..25}
Unique(t)   == \A i \in 1..25 : Pipeline[i].table = t => Pipeline[i].unique
Association == {"product_allergen", "product_cooking", "product_dietary", "product_badge",
                "product_seal", "product_ingredient"}

VARIABLES
    rows,    \* committed rows: [table, copy, under, key, name, deleted]
    seeder,  \* what each seeder is doing
    edits    \* how many edits the dashboard made

seedVars == <<rows, seeder, edits>>

Resting == [at |-> 0, adding |-> FALSE, mine |-> {}, found |-> {}]

Running(s) == seeder[s].at # 0
Now(s)     == Pipeline[seeder[s].at]

SeedInit ==
    /\ rows = {}
    /\ seeder = [s \in Seeder |-> Resting]
    /\ edits = 0

-----------------------------------------------------------------------------
(* The seed *)

\* A start of the API in development, or the script run by hand.
StartSeed(s) ==
    /\ ~Running(s)
    /\ seeder' = [seeder EXCEPT ![s].at = 1]
    /\ UNCHANGED <<rows, edits>>

IdOf(r) == <<r.table, r.copy>>

\* The ids the lookup of s filters by, from the rows of earlier stages.
Filter(s) == {id \in seeder[s].found : id[1] \in Now(s).under}

SameKey(r, t, under) == r.table = t /\ r.under = under /\ r.key = "seeded"

\* _get_or_create selects by the key alone: a row with deleted_at set counts.
Matches(s) ==
    {r \in rows \cup seeder[s].mine : SameKey(r, Now(s).table, Filter(s))}

Advance(s, r) == [seeder[s] EXCEPT !.at = @ + 1, !.adding = FALSE, !.found = @ \cup {IdOf(r)}]

\* _get_or_create: a row that is there is taken, else one is added.
LookUp(s) ==
    /\ seeder[s].at \in 1..25 /\ ~seeder[s].adding
    /\ Cardinality(Matches(s)) <= 1
    /\ IF Matches(s) = {}
       THEN seeder' = [seeder EXCEPT ![s].adding = TRUE]
       ELSE \E r \in Matches(s) : seeder' = [seeder EXCEPT ![s] = Advance(s, r)]
    /\ UNCHANGED <<rows, edits>>

NewRow(s) ==
    LET t    == Now(s).table
        used == {r.copy : r \in {x \in rows \cup UNION {seeder[u].mine : u \in Seeder} : x.table = t}}
    IN [table |-> t, copy |-> CHOOSE n \in 1..(Cardinality(used) + 1) : n \notin used,
        under |-> Filter(s), key |-> "seeded", name |-> "seeded", deleted |-> FALSE]

\* tenants.name is unique as well.
Collides(r, t, under) == SameKey(r, t, under) \/ (t = "tenant" /\ r.table = t /\ r.name = "seeded")

\* The INSERT waits for another transaction that has inserted the same key.
MustWait(s) ==
    Now(s).unique /\ \E u \in Seeder \ {s} : \E r \in seeder[u].mine :
                        Collides(r, Now(s).table, Filter(s))

Taken(s) == Now(s).unique /\ \E r \in rows : Collides(r, Now(s).table, Filter(s))

\* The flush, which follows the add or comes with the next SELECT.
Insert(s) ==
    /\ seeder[s].adding
    /\ ~MustWait(s) /\ ~Taken(s)
    /\ seeder' = [seeder EXCEPT ![s] = [Advance(s, NewRow(s)) EXCEPT !.mine = @ \cup {NewRow(s)}]]
    /\ UNCHANGED <<rows, edits>>

\* session.begin() commits at its end.
CommitSeed(s) ==
    /\ seeder[s].at = 26
    /\ rows' = rows \cup seeder[s].mine
    /\ seeder' = [seeder EXCEPT ![s] = Resting]
    /\ UNCHANGED edits

KeepRows(s) ==
    /\ Running(s)
    /\ rows' = rows \cup seeder[s].mine
    /\ seeder' = [seeder EXCEPT ![s] = Resting]
    /\ UNCHANGED edits

\* The process dies, a key is taken (IntegrityError) or a lookup finds two rows
\* (MultipleResultsFound): the transaction is rolled back, the API starts anyway.
AbortSeed(s) ==
    /\ Running(s)
    /\ seeder' = [seeder EXCEPT ![s] = Resting]
    /\ UNCHANGED <<rows, edits>>

-----------------------------------------------------------------------------
(* The dashboard, between and during the starts *)

Edit(r, changed) ==
    /\ edits < MaxEdits
    /\ edits' = edits + 1
    /\ r \in rows /\ ~r.deleted
    /\ rows' = (rows \ {r}) \cup changed
    /\ UNCHANGED seeder

\* RestaurantService.update: the slug as well as the name may be given.
UpdateRestaurant(r, key, name) ==
    /\ r.table = "tenant"
    /\ Edit(r, {[r EXCEPT !.key = key, !.name = name]})

\* The services make the slug from the name whenever the body has one.  The
\* slugs of the seed are shorter ("empanada-carne"): the same name saved again
\* gives another slug.
SaveName(r, name) ==
    /\ r.table \in {"branch", "category", "subcategory", "product"}
    /\ Edit(r, {[r EXCEPT !.key = "other", !.name = name]})

\* A PUT of a sub-resource that no longer has the row.
RemoveAssociation(r) == r.table \in Association /\ Edit(r, {})

\* ProductService.delete.
DeleteProduct(r) ==
    /\ r.table = "product" /\ ~r.deleted
    /\ rows' = (rows \ {r}) \cup {[r EXCEPT !.deleted = TRUE]}
    /\ UNCHANGED <<seeder, edits>>

SeedNext ==
    \/ \E s \in Seeder :
         \/ StartSeed(s)
         \/ LookUp(s)
         \/ Insert(s)
         \/ CommitSeed(s)
         \/ AbortSeed(s)
    \/ \E r \in rows, name \in {"seeded", "other"} :
         \/ \E key \in {"seeded", "other"} : UpdateRestaurant(r, key, name)
         \/ SaveName(r, name)
    \/ \E r \in rows : RemoveAssociation(r) \/ DeleteProduct(r)

SeedSpec == SeedInit /\ [][SeedNext]_seedVars

-----------------------------------------------------------------------------
(* Properties *)

\* Until a key is edited the seed is there once and whole, or not at all,
\* however often it was started, in parallel, or interrupted; a product deleted
\* in the dashboard does not come back.
OneOfEach ==
    edits = 0 =>
        \/ rows = {}
        \/ \A t \in StageTable : Cardinality({r \in rows : r.table = t}) = 1

\* No constraint keeps the codes of system items apart, and a second row of a
\* code makes every later seed fail at its lookup.  Parallel first starts never
\* get there: the loser waits at the slug of the tenant, which comes first.
SystemCodesUnique ==
    \A x, y \in rows : x.table = y.table /\ ~Unique(x.table) /\ x.under = y.under => x = y

\* seed.py promises "Idempotent — safe to call multiple times": no product is
\* listed twice under one name.
SeedMakesNoDuplicates ==
    \A x, y \in rows :
        x.table = "product" /\ y.table = "product" /\ ~x.deleted /\ ~y.deleted
        /\ x.name = y.name /\ x.under = y.under => x = y
=============================================================================
