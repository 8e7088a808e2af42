----------------------------- MODULE SeedProofs -----------------------------
(***************************************************************************)
(* The seed, for any number of processes that run it at the same time and  *)
(* any number of edits in between.                                         *)
(*                                                                         *)
(* No constraint keeps system items apart; what does is the tenant, whose  *)
(* slug is unique and which every first seed inserts before them: while    *)
(* the tables are empty only one seeder has rows of its own, and once they *)
(* are not, every system item is among them and every lookup finds it.     *)
(***************************************************************************)
EXTENDS Seed, FiniteSetTheorems, TLAPS

\* The tables of the system items.
SystemTable == {"allergen", "dietary_profile", "cooking_method", "flavor_profile",
                "texture_profile", "badge", "seal"}

-----------------------------------------------------------------------------
(* The pipeline *)

LEMMA PipelineFixed ==
    /\ Pipeline[1] = TenantStage /\ Pipeline[2] = BranchStage /\ Pipeline[3] = SectorStage
    /\ Pipeline[4] = TableStage /\ Pipeline[5] = UserStage /\ Pipeline[6] = RoleStage
    /\ Pipeline[7] = AllergenStage /\ Pipeline[8] = CrossReactionStage
    /\ Pipeline[9] = DietaryProfileStage /\ Pipeline[10] = CookingMethodStage
    /\ Pipeline[11] = FlavorProfileStage /\ Pipeline[12] = TextureProfileStage
    /\ Pipeline[13] = CuisineTypeStage /\ Pipeline[14] = BadgeStage /\ Pipeline[15] = SealStage
BY DEF Pipeline, FixedStages

LEMMA PipelineCatalog ==
    /\ Pipeline[16] = CategoryStage /\ Pipeline[17] = SubcategoryStage
    /\ Pipeline[18] = ProductStage /\ Pipeline[19] = BranchProductStage
    /\ Pipeline[20] = ProductAllergenStage /\ Pipeline[21] = ProductCookingStage
    /\ Pipeline[22] = ProductDietaryStage /\ Pipeline[23] = ProductBadgeStage
    /\ Pipeline[24] = ProductSealStage /\ Pipeline[25] = ProductIngredientStage
BY DEF Pipeline, CatalogStages

\* The place of each table in the pipeline.
Place(t) ==
    CASE t = "tenant" -> 1 [] t = "branch" -> 2 [] t = "sector" -> 3
      [] t = "table" -> 4 [] t = "user" -> 5 [] t = "role" -> 6
      [] t = "allergen" -> 7 [] t = "cross_reaction" -> 8 [] t = "dietary_profile" -> 9
      [] t = "cooking_method" -> 10 [] t = "flavor_profile" -> 11 [] t = "texture_profile" -> 12
      [] t = "cuisine_type" -> 13 [] t = "badge" -> 14 [] t = "seal" -> 15
      [] t = "category" -> 16 [] t = "subcategory" -> 17 [] t = "product" -> 18
      [] t = "branch_product" -> 19 [] t = "product_allergen" -> 20 [] t = "product_cooking" -> 21
      [] t = "product_dietary" -> 22 [] t = "product_badge" -> 23 [] t = "product_seal" -> 24
      [] t = "product_ingredient" -> 25

\* Only system items have no unique key, and no edit touches them.
SystemFacts(i) ==
    /\ Pipeline[i].table \in SystemTable => Pipeline[i].under = {} /\ i # 1
    /\ Pipeline[i].table \in SystemTable => Pipeline[i].unique = FALSE
    /\ Pipeline[i].table \notin SystemTable => Pipeline[i].unique = TRUE

\* What the proofs need of a stage: its place in the pipeline, and that its lookup
\* filters by earlier stages.
StageFacts(i) ==
    /\ Place(Pipeline[i].table) = i
    /\ SystemFacts(i)
    /\ \A t \in Pipeline[i].under : \E j \in 1..(i - 1) : Pipeline[j].table = t

LEMMA StagesKnown == \A i \in 1..25 : StageFacts(i)
<1>1. StageFacts(1)
  <2>1. Pipeline[1].table = "tenant" /\ Pipeline[1].under = {} /\ Pipeline[1].unique = TRUE
    BY PipelineFixed DEF Stage, TenantStage
  <2> QED BY <2>1 DEF StageFacts, SystemFacts, Place, SystemTable
<1>2. StageFacts(2)
  <2>1. Pipeline[2].table = "branch"
        /\ Pipeline[2].under = {"tenant"} /\ Pipeline[2].unique = TRUE
    BY PipelineFixed DEF Stage, BranchStage
  <2>2. 1 \in 1..(2 - 1) /\ Pipeline[1].table = "tenant"
    BY PipelineFixed DEF Stage, TenantStage
  <2> QED BY <2>1, <2>2 DEF StageFacts, SystemFacts, Place, SystemTable
<1>3. StageFacts(3)
  <2>1. Pipeline[3].table = "sector"
        /\ Pipeline[3].under = {"branch"} /\ Pipeline[3].unique = TRUE
    BY PipelineFixed DEF Stage, SectorStage
  <2>2. 2 \in 1..(3 - 1) /\ Pipeline[2].table = "branch"
    BY PipelineFixed DEF Stage, BranchStage
  <2> QED BY <2>1, <2>2 DEF StageFacts, SystemFacts, Place, SystemTable
<1>4. StageFacts(4)
  <2>1. Pipeline[4].table = "table"
        /\ Pipeline[4].under = {"sector"} /\ Pipeline[4].unique = TRUE
    BY PipelineFixed DEF Stage, TableStage
  <2>2. 3 \in 1..(4 - 1) /\ Pipeline[3].table = "sector"
    BY PipelineFixed DEF Stage, SectorStage
  <2> QED BY <2>1, <2>2 DEF StageFacts, SystemFacts, Place, SystemTable
<1>5. StageFacts(5)
  <2>1. Pipeline[5].table = "user" /\ Pipeline[5].under = {} /\ Pipeline[5].unique = TRUE
    BY PipelineFixed DEF Stage, UserStage
  <2> QED BY <2>1 DEF StageFacts, SystemFacts, Place, SystemTable
<1>6. StageFacts(6)
  <2>1. Pipeline[6].table = "role"
        /\ Pipeline[6].under = {"user", "branch"} /\ Pipeline[6].unique = TRUE
    BY PipelineFixed DEF Stage, RoleStage
  <2>2. 5 \in 1..(6 - 1) /\ Pipeline[5].table = "user"
    BY PipelineFixed DEF Stage, UserStage
  <2>3. 2 \in 1..(6 - 1) /\ Pipeline[2].table = "branch"
    BY PipelineFixed DEF Stage, BranchStage
  <2> QED BY <2>1, <2>2, <2>3 DEF StageFacts, SystemFacts, Place, SystemTable
<1>7. StageFacts(7)
  <2>1. Pipeline[7].table = "allergen"
        /\ Pipeline[7].under = {} /\ Pipeline[7].unique = FALSE
    BY PipelineFixed DEF Stage, AllergenStage
  <2> QED BY <2>1 DEF StageFacts, SystemFacts, Place, SystemTable
<1>8. StageFacts(8)
  <2>1. Pipeline[8].table = "cross_reaction"
        /\ Pipeline[8].under = {"allergen"} /\ Pipeline[8].unique = TRUE
    BY PipelineFixed DEF Stage, CrossReactionStage
  <2>2. 7 \in 1..(8 - 1) /\ Pipeline[7].table = "allergen"
    BY PipelineFixed DEF Stage, AllergenStage
  <2> QED BY <2>1, <2>2 DEF StageFacts, SystemFacts, Place, SystemTable
<1>9. StageFacts(9)
  <2>1. Pipeline[9].table = "dietary_profile"
        /\ Pipeline[9].under = {} /\ Pipeline[9].unique = FALSE
    BY PipelineFixed DEF Stage, DietaryProfileStage
  <2> QED BY <2>1 DEF StageFacts, SystemFacts, Place, SystemTable
<1>10. StageFacts(10)
  <2>1. Pipeline[10].table = "cooking_method"
        /\ Pipeline[10].under = {} /\ Pipeline[10].unique = FALSE
    BY PipelineFixed DEF Stage, CookingMethodStage
  <2> QED BY <2>1 DEF StageFacts, SystemFacts, Place, SystemTable
<1>11. StageFacts(11)
  <2>1. Pipeline[11].table = "flavor_profile"
        /\ Pipeline[11].under = {} /\ Pipeline[11].unique = FALSE
    BY PipelineFixed DEF Stage, FlavorProfileStage
  <2> QED BY <2>1 DEF StageFacts, SystemFacts, Place, SystemTable
<1>12. StageFacts(12)
  <2>1. Pipeline[12].table = "texture_profile"
        /\ Pipeline[12].under = {} /\ Pipeline[12].unique = FALSE
    BY PipelineFixed DEF Stage, TextureProfileStage
  <2> QED BY <2>1 DEF StageFacts, SystemFacts, Place, SystemTable
<1>13. StageFacts(13)
  <2>1. Pipeline[13].table = "cuisine_type"
        /\ Pipeline[13].under = {"tenant"} /\ Pipeline[13].unique = TRUE
    BY PipelineFixed DEF Stage, CuisineTypeStage
  <2>2. 1 \in 1..(13 - 1) /\ Pipeline[1].table = "tenant"
    BY PipelineFixed DEF Stage, TenantStage
  <2> QED BY <2>1, <2>2 DEF StageFacts, SystemFacts, Place, SystemTable
<1>14. StageFacts(14)
  <2>1. Pipeline[14].table = "badge"
        /\ Pipeline[14].under = {} /\ Pipeline[14].unique = FALSE
    BY PipelineFixed DEF Stage, BadgeStage
  <2> QED BY <2>1 DEF StageFacts, SystemFacts, Place, SystemTable
<1>15. StageFacts(15)
  <2>1. Pipeline[15].table = "seal"
        /\ Pipeline[15].under = {} /\ Pipeline[15].unique = FALSE
    BY PipelineFixed DEF Stage, SealStage
  <2> QED BY <2>1 DEF StageFacts, SystemFacts, Place, SystemTable
<1>16. StageFacts(16)
  <2>1. Pipeline[16].table = "category"
        /\ Pipeline[16].under = {"tenant"} /\ Pipeline[16].unique = TRUE
    BY PipelineCatalog DEF Stage, CategoryStage
  <2>2. 1 \in 1..(16 - 1) /\ Pipeline[1].table = "tenant"
    BY PipelineFixed DEF Stage, TenantStage
  <2> QED BY <2>1, <2>2 DEF StageFacts, SystemFacts, Place, SystemTable
<1>17. StageFacts(17)
  <2>1. Pipeline[17].table = "subcategory"
        /\ Pipeline[17].under = {"category"} /\ Pipeline[17].unique = TRUE
    BY PipelineCatalog DEF Stage, SubcategoryStage
  <2>2. 16 \in 1..(17 - 1) /\ Pipeline[16].table = "category"
    BY PipelineCatalog DEF Stage, CategoryStage
  <2> QED BY <2>1, <2>2 DEF StageFacts, SystemFacts, Place, SystemTable
<1>18. StageFacts(18)
  <2>1. Pipeline[18].table = "product"
        /\ Pipeline[18].under = {"tenant"} /\ Pipeline[18].unique = TRUE
    BY PipelineCatalog DEF Stage, ProductStage
  <2>2. 1 \in 1..(18 - 1) /\ Pipeline[1].table = "tenant"
    BY PipelineFixed DEF Stage, TenantStage
  <2> QED BY <2>1, <2>2 DEF StageFacts, SystemFacts, Place, SystemTable
<1>19. StageFacts(19)
  <2>1. Pipeline[19].table = "branch_product"
        /\ Pipeline[19].under = {"branch", "product"} /\ Pipeline[19].unique = TRUE
    BY PipelineCatalog DEF Stage, BranchProductStage
  <2>2. 2 \in 1..(19 - 1) /\ Pipeline[2].table = "branch"
    BY PipelineFixed DEF Stage, BranchStage
  <2>3. 18 \in 1..(19 - 1) /\ Pipeline[18].table = "product"
    BY PipelineCatalog DEF Stage, ProductStage
  <2> QED BY <2>1, <2>2, <2>3 DEF StageFacts, SystemFacts, Place, SystemTable
<1>20. StageFacts(20)
  <2>1. Pipeline[20].table = "product_allergen"
        /\ Pipeline[20].under = {"product", "allergen"} /\ Pipeline[20].unique = TRUE
    BY PipelineCatalog DEF Stage, ProductAllergenStage
  <2>2. 18 \in 1..(20 - 1) /\ Pipeline[18].table = "product"
    BY PipelineCatalog DEF Stage, ProductStage
  <2>3. 7 \in 1..(20 - 1) /\ Pipeline[7].table = "allergen"
    BY PipelineFixed DEF Stage, AllergenStage
  <2> QED BY <2>1, <2>2, <2>3 DEF StageFacts, SystemFacts, Place, SystemTable
<1>21. StageFacts(21)
  <2>1. Pipeline[21].table = "product_cooking"
        /\ Pipeline[21].under = {"product", "cooking_method"} /\ Pipeline[21].unique = TRUE
    BY PipelineCatalog DEF Stage, ProductCookingStage
  <2>2. 18 \in 1..(21 - 1) /\ Pipeline[18].table = "product"
    BY PipelineCatalog DEF Stage, ProductStage
  <2>3. 10 \in 1..(21 - 1) /\ Pipeline[10].table = "cooking_method"
    BY PipelineFixed DEF Stage, CookingMethodStage
  <2> QED BY <2>1, <2>2, <2>3 DEF StageFacts, SystemFacts, Place, SystemTable
<1>22. StageFacts(22)
  <2>1. Pipeline[22].table = "product_dietary"
        /\ Pipeline[22].under = {"product", "dietary_profile"} /\ Pipeline[22].unique = TRUE
    BY PipelineCatalog DEF Stage, ProductDietaryStage
  <2>2. 18 \in 1..(22 - 1) /\ Pipeline[18].table = "product"
    BY PipelineCatalog DEF Stage, ProductStage
  <2>3. 9 \in 1..(22 - 1) /\ Pipeline[9].table = "dietary_profile"
    BY PipelineFixed DEF Stage, DietaryProfileStage
  <2> QED BY <2>1, <2>2, <2>3 DEF StageFacts, SystemFacts, Place, SystemTable
<1>23. StageFacts(23)
  <2>1. Pipeline[23].table = "product_badge"
        /\ Pipeline[23].under = {"product", "badge"} /\ Pipeline[23].unique = TRUE
    BY PipelineCatalog DEF Stage, ProductBadgeStage
  <2>2. 18 \in 1..(23 - 1) /\ Pipeline[18].table = "product"
    BY PipelineCatalog DEF Stage, ProductStage
  <2>3. 14 \in 1..(23 - 1) /\ Pipeline[14].table = "badge"
    BY PipelineFixed DEF Stage, BadgeStage
  <2> QED BY <2>1, <2>2, <2>3 DEF StageFacts, SystemFacts, Place, SystemTable
<1>24. StageFacts(24)
  <2>1. Pipeline[24].table = "product_seal"
        /\ Pipeline[24].under = {"product", "seal"} /\ Pipeline[24].unique = TRUE
    BY PipelineCatalog DEF Stage, ProductSealStage
  <2>2. 18 \in 1..(24 - 1) /\ Pipeline[18].table = "product"
    BY PipelineCatalog DEF Stage, ProductStage
  <2>3. 15 \in 1..(24 - 1) /\ Pipeline[15].table = "seal"
    BY PipelineFixed DEF Stage, SealStage
  <2> QED BY <2>1, <2>2, <2>3 DEF StageFacts, SystemFacts, Place, SystemTable
<1>25. StageFacts(25)
  <2>1. Pipeline[25].table = "product_ingredient"
        /\ Pipeline[25].under = {"product"} /\ Pipeline[25].unique = TRUE
    BY PipelineCatalog DEF Stage, ProductIngredientStage
  <2>2. 18 \in 1..(25 - 1) /\ Pipeline[18].table = "product"
    BY PipelineCatalog DEF Stage, ProductStage
  <2> QED BY <2>1, <2>2 DEF StageFacts, SystemFacts, Place, SystemTable
<1>26. \A i \in 1..5 : StageFacts(i)
  <2>1. \A i \in 1..5 : i = 1 \/ i = 2 \/ i = 3 \/ i = 4 \/ i = 5
    OBVIOUS
  <2> QED BY <2>1, <1>1, <1>2, <1>3, <1>4, <1>5
<1>27. \A i \in 6..10 : StageFacts(i)
  <2>1. \A i \in 6..10 : i = 6 \/ i = 7 \/ i = 8 \/ i = 9 \/ i = 10
    OBVIOUS
  <2> QED BY <2>1, <1>6, <1>7, <1>8, <1>9, <1>10
<1>28. \A i \in 11..15 : StageFacts(i)
  <2>1. \A i \in 11..15 : i = 11 \/ i = 12 \/ i = 13 \/ i = 14 \/ i = 15
    OBVIOUS
  <2> QED BY <2>1, <1>11, <1>12, <1>13, <1>14, <1>15
<1>29. \A i \in 16..20 : StageFacts(i)
  <2>1. \A i \in 16..20 : i = 16 \/ i = 17 \/ i = 18 \/ i = 19 \/ i = 20
    OBVIOUS
  <2> QED BY <2>1, <1>16, <1>17, <1>18, <1>19, <1>20
<1>30. \A i \in 21..25 : StageFacts(i)
  <2>1. \A i \in 21..25 : i = 21 \/ i = 22 \/ i = 23 \/ i = 24 \/ i = 25
    OBVIOUS
  <2> QED BY <2>1, <1>21, <1>22, <1>23, <1>24, <1>25
<1>31. \A i \in 1..25 : i \in 1..5 \/ i \in 6..10 \/ i \in 11..15 \/ i \in 16..20 \/ i \in 21..25
  OBVIOUS
<1> QED BY <1>26, <1>27, <1>28, <1>29, <1>30, <1>31

LEMMA FirstStage == Pipeline[1].table = "tenant" /\ Pipeline[1].under = {} /\ Pipeline[1].unique
BY PipelineFixed DEF TenantStage, Stage

LEMMA SystemStageExists ==
    ASSUME NEW t \in SystemTable
    PROVE  \E i \in 2..25 : Pipeline[i].table = t
<1>1. /\ Pipeline[7].table = "allergen" /\ Pipeline[9].table = "dietary_profile"
      /\ Pipeline[10].table = "cooking_method" /\ Pipeline[11].table = "flavor_profile"
      /\ Pipeline[12].table = "texture_profile" /\ Pipeline[14].table = "badge"
      /\ Pipeline[15].table = "seal"
  BY PipelineFixed DEF Stage, AllergenStage, DietaryProfileStage, CookingMethodStage,
     FlavorProfileStage, TextureProfileStage, BadgeStage, SealStage
<1> QED BY <1>1 DEF SystemTable

\* The tables without a unique key are those of the system items.
LEMMA NotUnique ==
    ASSUME NEW t, ~Unique(t)
    PROVE  t \in SystemTable
<1>1. PICK i \in 1..25 : Pipeline[i].table = t /\ ~Pipeline[i].unique
  BY DEF Unique
<1>2. SystemFacts(i)
  BY StagesKnown DEF StageFacts
<1> QED BY <1>1, <1>2 DEF SystemFacts

LEMMA SystemStage ==
    ASSUME NEW i \in 1..25, Pipeline[i].table \in SystemTable
    PROVE  Pipeline[i].under = {} /\ i # 1
BY StagesKnown DEF StageFacts, SystemFacts

LEMMA StageOfTable ==
    ASSUME NEW i \in 1..25, NEW j \in 1..25, Pipeline[i].table = Pipeline[j].table
    PROVE  i = j
<1>1. Place(Pipeline[i].table) = i /\ Place(Pipeline[j].table) = j
  BY StagesKnown DEF StageFacts
<1> QED BY <1>1

-----------------------------------------------------------------------------
(* The shape of the state, and what a step is *)

IsRow(r) ==
    r \in [table: StageTable, copy: {r.copy}, under: {r.under}, key: {"seeded", "other"},
           name: {r.name}, deleted: {r.deleted}]

\* A seeder has rows of its own only after its first stage.
IsSeeder(q) ==
    /\ q \in [at: 0..26, adding: BOOLEAN, mine: {q.mine}, found: {q.found}]
    /\ q.adding = TRUE => q.at \in 1..25
    /\ q.at \in {0, 1} => q.mine = {} /\ q.found = {}
    /\ \A r \in q.mine : IsRow(r)

Shape ==
    /\ seeder = [s \in Seeder |-> seeder[s]]
    /\ \A s \in Seeder : IsSeeder(seeder[s])
    /\ \A r \in rows : IsRow(r)

Only(s) == \A u \in Seeder \ {s} : seeder'[u] = seeder[u]

\* The seeder has nothing of its own: it starts, or its transaction is undone.
Emptied(s) ==
    /\ Only(s) /\ rows' = rows /\ edits' = edits
    /\ seeder'[s].at \in {0, 1} /\ seeder'[s].adding = FALSE
    /\ seeder'[s].mine = {} /\ seeder'[s].found = {}

FoundRow(s, r) ==
    /\ Only(s) /\ rows' = rows /\ edits' = edits
    /\ seeder[s].at \in 1..25 /\ seeder[s].adding = FALSE /\ r \in Matches(s)
    /\ seeder'[s].at = seeder[s].at + 1 /\ seeder'[s].adding = FALSE
    /\ seeder'[s].mine = seeder[s].mine /\ seeder'[s].found = seeder[s].found \cup {IdOf(r)}

FoundNone(s) ==
    /\ Only(s) /\ rows' = rows /\ edits' = edits
    /\ seeder[s].at \in 1..25 /\ Matches(s) = {}
    /\ seeder'[s].at = seeder[s].at
    /\ seeder'[s].mine = seeder[s].mine /\ seeder'[s].found = seeder[s].found

Inserted(s) ==
    /\ Only(s) /\ rows' = rows /\ edits' = edits
    /\ seeder[s].at \in 1..25 /\ seeder[s].adding = TRUE /\ ~MustWait(s) /\ ~Taken(s)
    /\ seeder'[s].at = seeder[s].at + 1 /\ seeder'[s].adding = FALSE
    /\ seeder'[s].mine = seeder[s].mine \cup {NewRow(s)}
    /\ seeder'[s].found = seeder[s].found \cup {IdOf(NewRow(s))}

Committed(s) ==
    /\ Only(s) /\ rows' = rows \cup seeder[s].mine /\ edits' = edits
    /\ seeder[s].at = 26 /\ seeder'[s] = Resting

\* An edit leaves the system items alone; the delete of a product, all keys too.
Edited(r) ==
    /\ seeder' = seeder /\ r \in rows /\ r.table \notin SystemTable
    /\ \/ rows' = rows \ {r} /\ edits' = edits + 1
       \/ \E w : /\ rows' = (rows \ {r}) \cup {w} /\ w.table = r.table /\ IsRow(w)
                 /\ \/ edits' = edits + 1
                    \/ edits' = edits /\ w.copy = r.copy /\ w.under = r.under /\ w.key = r.key

Kinds ==
    \/ \E s \in Seeder : \/ Emptied(s) \/ FoundNone(s) \/ Inserted(s) \/ Committed(s)
                         \/ \E r \in Matches(s) : FoundRow(s, r)
    \/ \E r \in rows : Edited(r)

LEMMA SetSeeder ==
    ASSUME Shape, NEW s \in Seeder, NEW q, IsSeeder(q), seeder' = [seeder EXCEPT ![s] = q],
           \A r \in rows' : IsRow(r)
    PROVE  Shape' /\ Only(s) /\ seeder'[s] = q
<1>1. seeder' = [u \in Seeder |-> seeder'[u]] /\ seeder'[s] = q /\ Only(s)
  BY DEF Shape, Only
<1>2. \A u \in Seeder : IsSeeder(seeder'[u])
  BY <1>1 DEF Shape, Only
<1> QED BY <1>1, <1>2 DEF Shape

LEMMA RestingShape == IsSeeder(Resting)
BY DEF Resting, IsSeeder

LEMMA NowTable ==
    ASSUME NEW s \in Seeder, seeder[s].at \in 1..25
    PROVE  Now(s).table \in StageTable
BY DEF Now, StageTable

LEMMA NewRowShape ==
    ASSUME NEW s \in Seeder, seeder[s].at \in 1..25
    PROVE  /\ IsRow(NewRow(s))
           /\ NewRow(s).table = Now(s).table /\ NewRow(s).under = Filter(s)
           /\ NewRow(s).key = "seeded"
BY NowTable DEF NewRow, IsRow

LEMMA StartStep ==
    ASSUME Shape, NEW s \in Seeder, StartSeed(s)
    PROVE  Emptied(s) /\ Shape'
<1> DEFINE q == [seeder[s] EXCEPT !.at = 1]
<1>1. /\ q \in [at: 0..26, adding: BOOLEAN, mine: {seeder[s].mine}, found: {seeder[s].found}]
      /\ q.at = 1 /\ q.adding = FALSE /\ q.mine = {} /\ q.found = {}
  BY DEF Shape, IsSeeder, StartSeed, Running
<1>2. seeder' = [seeder EXCEPT ![s] = q] /\ rows' = rows /\ edits' = edits
  BY DEF StartSeed, Shape
<1> HIDE DEF q
<1>3. IsSeeder(q)
  BY <1>1 DEF IsSeeder
<1>4. Shape' /\ Only(s) /\ seeder'[s] = q
  BY <1>2, <1>3, SetSeeder DEF Shape
<1> QED BY <1>1, <1>2, <1>4 DEF Emptied

LEMMA AbortStep ==
    ASSUME Shape, NEW s \in Seeder, AbortSeed(s)
    PROVE  Emptied(s) /\ Shape'
<1>1. seeder' = [seeder EXCEPT ![s] = Resting] /\ rows' = rows /\ edits' = edits
  BY DEF AbortSeed
<1>2. Shape' /\ Only(s) /\ seeder'[s] = Resting
  BY <1>1, RestingShape, SetSeeder DEF Shape
<1> QED BY <1>1, <1>2 DEF Emptied, Resting

LEMMA CommitStep ==
    ASSUME Shape, NEW s \in Seeder, CommitSeed(s)
    PROVE  Committed(s) /\ Shape'
<1>1. /\ seeder' = [seeder EXCEPT ![s] = Resting] /\ edits' = edits /\ seeder[s].at = 26
      /\ rows' = rows \cup seeder[s].mine
  BY DEF CommitSeed
<1>2. \A r \in rows' : IsRow(r)
  BY <1>1 DEF Shape, IsSeeder
<1>3. Shape' /\ Only(s) /\ seeder'[s] = Resting
  BY <1>1, <1>2, RestingShape, SetSeeder
<1> QED BY <1>1, <1>3 DEF Committed

LEMMA AdvanceShape ==
    ASSUME Shape, NEW s \in Seeder, seeder[s].at \in 1..25, NEW r
    PROVE  /\ Advance(s, r) \in [at: 0..26, adding: BOOLEAN, mine: {seeder[s].mine},
                                 found: {seeder[s].found \cup {IdOf(r)}}]
           /\ Advance(s, r).at = seeder[s].at + 1 /\ Advance(s, r).adding = FALSE
<1> DEFINE p == seeder[s]
           f == p.found \cup {IdOf(r)}
           m == p.mine
<1>1. p \in [at: 0..26, adding: BOOLEAN, mine: {m}, found: {p.found}] /\ p.at + 1 \in 0..26
  BY DEF Shape, IsSeeder
<1>2. Advance(s, r) = [p EXCEPT !.at = p.at + 1, !.adding = FALSE, !.found = f]
  BY DEF Advance
<1> HIDE DEF p, f, m
<1>3. /\ Advance(s, r) \in [at: 0..26, adding: BOOLEAN, mine: {m}, found: {f}]
      /\ Advance(s, r).at = p.at + 1 /\ Advance(s, r).adding = FALSE
  BY <1>1, <1>2
<1> QED BY <1>3 DEF p, f, m

LEMMA LookUpStep ==
    ASSUME Shape, NEW s \in Seeder, LookUp(s)
    PROVE  (FoundNone(s) \/ \E r \in Matches(s) : FoundRow(s, r)) /\ Shape'
<1>1. seeder[s].at \in 1..25 /\ seeder[s].adding = FALSE /\ rows' = rows /\ edits' = edits
  BY DEF LookUp, Shape, IsSeeder
<1>2. CASE Matches(s) = {}
  <2> DEFINE q == [seeder[s] EXCEPT !.adding = TRUE]
  <2>1. /\ q \in [at: 0..26, adding: BOOLEAN, mine: {seeder[s].mine}, found: {seeder[s].found}]
        /\ q.at = seeder[s].at /\ q.adding = TRUE
    BY DEF Shape, IsSeeder
  <2>2. seeder' = [seeder EXCEPT ![s] = q]
    BY <1>2 DEF LookUp, Shape
  <2> HIDE DEF q
  <2>3. q.mine = seeder[s].mine /\ q.found = seeder[s].found
    BY <2>1
  <2>4. IsSeeder(q)
    BY <1>1, <2>1, <2>3 DEF IsSeeder, Shape
  <2>5. Shape' /\ Only(s) /\ seeder'[s] = q
    BY <1>1, <2>2, <2>4, SetSeeder DEF Shape
  <2> QED BY <1>1, <1>2, <2>1, <2>3, <2>5 DEF FoundNone
<1>3. CASE Matches(s) # {}
  <2>1. PICK r \in Matches(s) : seeder' = [seeder EXCEPT ![s] = Advance(s, r)]
    BY <1>3 DEF LookUp
  <2> DEFINE q == Advance(s, r)
  <2>2. /\ q \in [at: 0..26, adding: BOOLEAN, mine: {seeder[s].mine},
                  found: {seeder[s].found \cup {IdOf(r)}}]
        /\ q.at = seeder[s].at + 1 /\ q.adding = FALSE
    BY <1>1, AdvanceShape
  <2>3. seeder' = [seeder EXCEPT ![s] = q]
    BY <2>1
  <2> HIDE DEF q
  <2>4. q.mine = seeder[s].mine /\ q.found = seeder[s].found \cup {IdOf(r)}
    BY <2>2
  <2>5. IsSeeder(q)
    BY <1>1, <2>2, <2>4 DEF IsSeeder, Shape
  <2>6. Shape' /\ Only(s) /\ seeder'[s] = q
    BY <1>1, <2>3, <2>5, SetSeeder DEF Shape
  <2> QED BY <1>1, <2>2, <2>4, <2>6 DEF FoundRow
<1> QED BY <1>2, <1>3

LEMMA InsertStep ==
    ASSUME Shape, NEW s \in Seeder, Insert(s)
    PROVE  Inserted(s) /\ Shape'
<1>1. /\ seeder[s].at \in 1..25 /\ seeder[s].adding = TRUE /\ rows' = rows /\ edits' = edits
      /\ ~MustWait(s) /\ ~Taken(s)
  BY DEF Insert, Shape, IsSeeder
<1> DEFINE a == Advance(s, NewRow(s))
           n == seeder[s].mine \cup {NewRow(s)}
           q == [a EXCEPT !.mine = @ \cup {NewRow(s)}]
<1>2. /\ a \in [at: 0..26, adding: BOOLEAN, mine: {seeder[s].mine},
                found: {seeder[s].found \cup {IdOf(NewRow(s))}}]
      /\ a.at = seeder[s].at + 1 /\ a.adding = FALSE
  BY <1>1, AdvanceShape
<1>3. seeder' = [seeder EXCEPT ![s] = q]
  BY DEF Insert
<1> HIDE DEF a
<1>4. /\ q \in [at: 0..26, adding: BOOLEAN, mine: {n},
               found: {seeder[s].found \cup {IdOf(NewRow(s))}}]
      /\ q.at = seeder[s].at + 1 /\ q.adding = FALSE
  BY <1>2
<1> HIDE DEF q
<1>5. q.mine = n /\ q.found = seeder[s].found \cup {IdOf(NewRow(s))}
  BY <1>4
<1>6. \A r \in n : IsRow(r)
  BY <1>1, NewRowShape DEF Shape, IsSeeder
<1>7. IsSeeder(q)
  BY <1>1, <1>4, <1>5, <1>6 DEF IsSeeder
<1>8. Shape' /\ Only(s) /\ seeder'[s] = q
  BY <1>1, <1>3, <1>7, SetSeeder DEF Shape
<1> QED BY <1>1, <1>4, <1>5, <1>8 DEF Inserted

LEMMA EditedRow ==
    ASSUME NEW r, IsRow(r), NEW key \in {"seeded", "other"}, NEW name
    PROVE  LET w == [r EXCEPT !.key = key, !.name = name]
           IN  IsRow(w) /\ w.table = r.table
<1> DEFINE w == [r EXCEPT !.key = key, !.name = name]
<1>1. w \in [table: StageTable, copy: {r.copy}, under: {r.under}, key: {"seeded", "other"},
             name: {name}, deleted: {r.deleted}]
  BY DEF IsRow
<1>2. w.table = r.table
  BY DEF IsRow
<1> HIDE DEF w
<1>3. IsRow(w)
  BY <1>1 DEF IsRow
<1> QED BY <1>2, <1>3 DEF w

LEMMA DeletedRow ==
    ASSUME NEW r, IsRow(r)
    PROVE  LET w == [r EXCEPT !.deleted = TRUE]
           IN  /\ IsRow(w) /\ w.table = r.table /\ w.copy = r.copy
               /\ w.under = r.under /\ w.key = r.key
<1> DEFINE w == [r EXCEPT !.deleted = TRUE]
<1>1. w \in [table: StageTable, copy: {r.copy}, under: {r.under}, key: {"seeded", "other"},
             name: {r.name}, deleted: {TRUE}]
  BY DEF IsRow
<1>2. w.table = r.table /\ w.copy = r.copy /\ w.under = r.under /\ w.key = r.key
  BY DEF IsRow
<1> HIDE DEF w
<1>3. IsRow(w)
  BY <1>1 DEF IsRow
<1> QED BY <1>2, <1>3 DEF w

LEMMA EditKind ==
    ASSUME Shape, NEW r \in rows, r.table \notin SystemTable, seeder' = seeder, NEW w,
           rows' = (rows \ {r}) \cup {w}, w.table = r.table, IsRow(w),
           \/ edits' = edits + 1
           \/ edits' = edits /\ w.copy = r.copy /\ w.under = r.under /\ w.key = r.key
    PROVE  Edited(r) /\ Shape'
BY DEF Edited, Shape

LEMMA EditStep ==
    ASSUME Shape, NEW r \in rows, NEW name, NEW key \in {"seeded", "other"},
           UpdateRestaurant(r, key, name) \/ SaveName(r, name) \/ RemoveAssociation(r)
           \/ DeleteProduct(r)
    PROVE  Edited(r) /\ Shape'
<1>0. IsRow(r)
  BY DEF Shape
<1>1. r.table \notin SystemTable
  BY DEF UpdateRestaurant, SaveName, RemoveAssociation, DeleteProduct, SystemTable, Association
<1>2. CASE UpdateRestaurant(r, key, name)
  <2> DEFINE w == [r EXCEPT !.key = key, !.name = name]
  <2>1. rows' = (rows \ {r}) \cup {w} /\ seeder' = seeder /\ edits' = edits + 1
    BY <1>2 DEF UpdateRestaurant, Edit
  <2>2. IsRow(w) /\ w.table = r.table
    BY <1>0, EditedRow
  <2> HIDE DEF w
  <2> QED BY <1>1, <2>1, <2>2, EditKind
<1>3. CASE SaveName(r, name)
  <2> DEFINE w == [r EXCEPT !.key = "other", !.name = name]
  <2>1. rows' = (rows \ {r}) \cup {w} /\ seeder' = seeder /\ edits' = edits + 1
    BY <1>3 DEF SaveName, Edit
  <2>2. IsRow(w) /\ w.table = r.table
    BY <1>0, EditedRow
  <2> HIDE DEF w
  <2> QED BY <1>1, <2>1, <2>2, EditKind
<1>4. CASE RemoveAssociation(r)
  BY <1>1, <1>4 DEF RemoveAssociation, Edit, Edited, Shape
<1>5. CASE DeleteProduct(r)
  <2> DEFINE w == [r EXCEPT !.deleted = TRUE]
  <2>1. rows' = (rows \ {r}) \cup {w} /\ seeder' = seeder /\ edits' = edits
    BY <1>5 DEF DeleteProduct
  <2>2. /\ IsRow(w) /\ w.table = r.table /\ w.copy = r.copy /\ w.under = r.under
        /\ w.key = r.key
    BY <1>0, DeletedRow
  <2> HIDE DEF w
  <2> QED BY <1>1, <2>1, <2>2, EditKind
<1> QED BY <1>2, <1>3, <1>4, <1>5

\* Every step of the specification is of one of the kinds.
LEMMA Moves ==
    ASSUME Shape, SeedNext
    PROVE  Kinds /\ Shape'
<1>1. ASSUME NEW s \in Seeder,
             StartSeed(s) \/ LookUp(s) \/ Insert(s) \/ CommitSeed(s) \/ AbortSeed(s)
      PROVE  Kinds /\ Shape'
  BY <1>1, StartStep, LookUpStep, InsertStep, CommitStep, AbortStep DEF Kinds
<1>2. ASSUME NEW r \in rows, NEW name, NEW key \in {"seeded", "other"},
             UpdateRestaurant(r, key, name) \/ SaveName(r, name) \/ RemoveAssociation(r)
             \/ DeleteProduct(r)
      PROVE  Kinds /\ Shape'
  BY <1>2, EditStep DEF Kinds
<1>3. ASSUME NEW r \in rows, RemoveAssociation(r) \/ DeleteProduct(r)
      PROVE  Kinds /\ Shape'
  BY <1>2, <1>3
<1> QED BY <1>1, <1>2, <1>3 DEF SeedNext

LEMMA InitShape == SeedInit => Shape
BY DEF SeedInit, Shape, IsSeeder, Resting

-----------------------------------------------------------------------------
(* System items, whatever is edited *)

SystemRow(r) == r.table \in SystemTable

Own(s) == seeder[s].mine

\* A system item is found by its code alone, and its code is never edited.
PlainRow(r) == SystemRow(r) => r.under = {} /\ r.key = "seeded"

SystemPlain ==
    /\ \A r \in rows : PlainRow(r)
    /\ \A s \in Seeder : \A r \in Own(s) : PlainRow(r)

\* Once anything is committed, every system table has its item.
SystemComplete == rows # {} => \A t \in SystemTable : \E r \in rows : r.table = t

OnceIn(S) == \A x, y \in S : SystemRow(x) /\ x.table = y.table => x = y

SystemOnce == OnceIn(rows) /\ \A s \in Seeder : OnceIn(Own(s))

\* System items are only made, or about to be, by a first seeder, and once each.
SystemFromScratch ==
    \A s \in Seeder :
        /\ (\E r \in Own(s) : SystemRow(r)) => rows = {}
        /\ (seeder[s].adding = TRUE /\ Now(s).table \in SystemTable) =>
              rows = {} /\ \A r \in Own(s) : r.table # Now(s).table

\* Two first seeders never both have rows: the second waits at the tenant.
OneFirstSeeder ==
    rows = {} => \A s, u \in Seeder : s # u => Own(s) = {} \/ Own(u) = {}

\* A first seeder makes every row itself, the tenant with its slug first.
EarlierStagesMine ==
    rows = {} =>
        \A s \in Seeder :
            /\ \A i \in 1..25 : i < seeder[s].at => \E r \in Own(s) : r.table = Pipeline[i].table
            /\ seeder[s].at > 1 => \E r \in Own(s) : SameKey(r, "tenant", {})

SystemInv ==
    /\ SystemPlain /\ SystemComplete /\ SystemOnce /\ SystemFromScratch
    /\ OneFirstSeeder /\ EarlierStagesMine

LEMMA SystemFilter ==
    ASSUME NEW s \in Seeder, seeder[s].at \in 1..25, Now(s).table \in SystemTable
    PROVE  Filter(s) = {}
BY SystemStage DEF Now, Filter

LEMMA FirstFilter ==
    ASSUME NEW s \in Seeder, seeder[s].at = 1
    PROVE  Now(s).table = "tenant" /\ Filter(s) = {} /\ Now(s).unique
BY FirstStage DEF Now, Filter

LEMMA FirstNotSystem ==
    ASSUME NEW s \in Seeder, seeder[s].at \in 1..25, Now(s).table \in SystemTable
    PROVE  seeder[s].at # 1
BY SystemStage DEF Now

\* Who adds the tenant while nothing is committed is alone with it.
LEMMA TenantAlone ==
    ASSUME Shape, SystemInv, rows = {}, NEW s \in Seeder, Inserted(s), NEW u \in Seeder \ {s}
    PROVE  Own(u) = {}
<1>1. CASE seeder[s].at = 1
  <2> SUFFICES ASSUME Own(u) # {}
               PROVE  FALSE
    OBVIOUS
  <2>1. seeder[u].at > 1
    BY DEF Shape, IsSeeder, Own
  <2>2. PICK r \in Own(u) : SameKey(r, "tenant", {})
    BY <2>1 DEF SystemInv, EarlierStagesMine
  <2>3. Collides(r, Now(s).table, Filter(s))
    BY <1>1, <2>2, FirstFilter DEF Collides
  <2> QED BY <1>1, <2>3, FirstFilter DEF Inserted, MustWait, Own
<1>2. CASE seeder[s].at > 1
  <2>1. Own(s) # {}
    BY <1>2 DEF SystemInv, EarlierStagesMine
  <2> QED BY <2>1 DEF SystemInv, OneFirstSeeder
<1> QED BY <1>1, <1>2 DEF Inserted

LEMMA EmptiedKeepsSystem ==
    ASSUME Shape, SystemInv, NEW s \in Seeder, Emptied(s)
    PROVE  SystemInv'
<1>1. /\ rows' = rows /\ Own(s)' = {} /\ seeder'[s].at \in {0, 1} /\ seeder'[s].adding = FALSE
      /\ \A u \in Seeder \ {s} : seeder'[u] = seeder[u] /\ Own(u)' = Own(u) /\ Now(u)' = Now(u)
  BY DEF Emptied, Only, Own, Now
<1>2. SystemPlain'
  BY <1>1 DEF SystemInv, SystemPlain
<1>3. SystemComplete'
  BY <1>1 DEF SystemInv, SystemComplete
<1>4. SystemOnce'
  BY <1>1 DEF SystemInv, SystemOnce, OnceIn
<1>5. SystemFromScratch'
  BY <1>1 DEF SystemInv, SystemFromScratch
<1>6. OneFirstSeeder'
  BY <1>1 DEF SystemInv, OneFirstSeeder
<1>7. EarlierStagesMine'
  BY <1>1 DEF SystemInv, EarlierStagesMine
<1> QED BY <1>2, <1>3, <1>4, <1>5, <1>6, <1>7 DEF SystemInv

LEMMA FoundKeepsSystem ==
    ASSUME Shape, SystemInv, NEW s \in Seeder, NEW r \in Matches(s), FoundRow(s, r)
    PROVE  SystemInv'
<1>1. /\ rows' = rows /\ seeder[s].at \in 1..25
      /\ seeder'[s].at = seeder[s].at + 1 /\ seeder'[s].adding = FALSE
      /\ \A u \in Seeder : Own(u)' = Own(u)
      /\ \A u \in Seeder \ {s} : seeder'[u] = seeder[u] /\ Now(u)' = Now(u)
  BY DEF FoundRow, Only, Own, Now
<1>2. SystemPlain' /\ SystemComplete' /\ SystemOnce' /\ OneFirstSeeder'
  BY <1>1 DEF SystemInv, SystemPlain, SystemComplete, SystemOnce, OnceIn, OneFirstSeeder
<1>3. SystemFromScratch'
  BY <1>1 DEF SystemInv, SystemFromScratch
<1>4. EarlierStagesMine'
  <2> SUFFICES ASSUME rows = {}
               PROVE  /\ \A i \in 1..25 : i < seeder[s].at + 1 =>
                            \E x \in Own(s) : x.table = Pipeline[i].table
                      /\ \E x \in Own(s) : SameKey(x, "tenant", {})
    BY <1>1 DEF SystemInv, EarlierStagesMine
  <2>1. r \in Own(s) /\ r.table = Now(s).table /\ SameKey(r, Now(s).table, Filter(s))
    BY DEF Matches, SameKey, Own
  <2>2. \A i \in 1..25 : i < seeder[s].at + 1 => \E x \in Own(s) : x.table = Pipeline[i].table
    <3> SUFFICES ASSUME NEW i \in 1..25, i < seeder[s].at + 1
                 PROVE  \E x \in Own(s) : x.table = Pipeline[i].table
      OBVIOUS
    <3>1. CASE i < seeder[s].at
      BY <3>1 DEF SystemInv, EarlierStagesMine
    <3>2. CASE i = seeder[s].at
      BY <3>2, <2>1 DEF Now
    <3> QED BY <1>1, <3>1, <3>2
  <2>3. \E x \in Own(s) : SameKey(x, "tenant", {})
    <3>1. CASE seeder[s].at = 1
      BY <3>1, <2>1, FirstFilter
    <3>2. CASE seeder[s].at > 1
      BY <3>2 DEF SystemInv, EarlierStagesMine
    <3> QED BY <1>1, <3>1, <3>2
  <2> QED BY <2>2, <2>3
<1> QED BY <1>2, <1>3, <1>4 DEF SystemInv

\* A lookup that finds no system item is a first seeder's.
LEMMA NoneKeepsSystem ==
    ASSUME Shape, SystemInv, NEW s \in Seeder, FoundNone(s)
    PROVE  SystemInv'
<1>1. /\ rows' = rows /\ seeder[s].at \in 1..25 /\ seeder'[s].at = seeder[s].at
      /\ \A u \in Seeder : Own(u)' = Own(u) /\ Now(u)' = Now(u) /\ seeder'[u].at = seeder[u].at
      /\ \A u \in Seeder \ {s} : seeder'[u] = seeder[u]
  BY DEF FoundNone, Only, Own, Now
<1>2. SystemPlain' /\ SystemComplete' /\ SystemOnce' /\ OneFirstSeeder' /\ EarlierStagesMine'
  BY <1>1 DEF SystemInv, SystemPlain, SystemComplete, SystemOnce, OnceIn, OneFirstSeeder,
              EarlierStagesMine
<1>3. ASSUME Now(s).table \in SystemTable
      PROVE  rows = {} /\ \A r \in Own(s) : r.table # Now(s).table
  <2>1. Filter(s) = {}
    BY <1>1, <1>3, SystemFilter
  <2>2. \A r \in rows \cup Own(s) : r.table # Now(s).table
    BY <1>3, <2>1 DEF SystemInv, SystemPlain, PlainRow, SystemRow, FoundNone, Matches, SameKey, Own
  <2> QED BY <1>3, <2>2 DEF SystemInv, SystemComplete
<1>4. SystemFromScratch'
  BY <1>1, <1>3 DEF SystemInv, SystemFromScratch
<1> QED BY <1>2, <1>4 DEF SystemInv

LEMMA InsertKeepsSystem ==
    ASSUME Shape, SystemInv, NEW s \in Seeder, Inserted(s)
    PROVE  SystemInv'
<1> DEFINE n == NewRow(s)
<1>1. /\ rows' = rows /\ seeder[s].at \in 1..25 /\ seeder[s].adding = TRUE
      /\ seeder'[s].at = seeder[s].at + 1 /\ seeder'[s].adding = FALSE
      /\ Own(s)' = Own(s) \cup {n}
      /\ \A u \in Seeder \ {s} : seeder'[u] = seeder[u] /\ Now(u)' = Now(u) /\ Own(u)' = Own(u)
  BY DEF Inserted, Only, Own, Now
<1>2. n.table = Now(s).table /\ n.under = Filter(s) /\ n.key = "seeded"
  BY <1>1, NewRowShape
<1> HIDE DEF n
<1>3. SystemPlain'
  BY <1>1, <1>2, SystemFilter DEF SystemInv, SystemPlain, PlainRow, SystemRow
<1>4. SystemComplete'
  BY <1>1 DEF SystemInv, SystemComplete
<1>5. SystemRow(n) => rows = {} /\ \A r \in Own(s) : r.table # n.table
  BY <1>1, <1>2 DEF SystemInv, SystemFromScratch, SystemRow
<1>6. SystemOnce'
  <2>1. OnceIn(rows)' /\ \A u \in Seeder \ {s} : OnceIn(Own(u))'
    BY <1>1 DEF SystemInv, SystemOnce, OnceIn
  <2>2. OnceIn(Own(s))'
    BY <1>1, <1>5 DEF SystemInv, SystemOnce, OnceIn, SystemRow
  <2> QED BY <2>1, <2>2 DEF SystemOnce
<1>7. SystemFromScratch'
  BY <1>1, <1>5 DEF SystemInv, SystemFromScratch
<1>8. OneFirstSeeder'
  <2>1. rows = {} => \A u \in Seeder \ {s} : Own(u) = {}
    BY TenantAlone
  <2> QED BY <1>1, <2>1 DEF OneFirstSeeder
<1>9. EarlierStagesMine'
  <2> SUFFICES ASSUME rows = {}
               PROVE  /\ \A i \in 1..25 : i < seeder[s].at + 1 =>
                            \E x \in Own(s)' : x.table = Pipeline[i].table
                      /\ \E x \in Own(s)' : SameKey(x, "tenant", {})
    BY <1>1 DEF SystemInv, EarlierStagesMine
  <2>2. \A i \in 1..25 : i < seeder[s].at + 1 => \E x \in Own(s)' : x.table = Pipeline[i].table
    <3> SUFFICES ASSUME NEW i \in 1..25, i < seeder[s].at + 1
                 PROVE  \E x \in Own(s)' : x.table = Pipeline[i].table
      OBVIOUS
    <3>1. CASE i < seeder[s].at
      BY <3>1, <1>1 DEF SystemInv, EarlierStagesMine
    <3>2. CASE i = seeder[s].at
      BY <3>2, <1>1, <1>2 DEF Now
    <3> QED BY <1>1, <3>1, <3>2
  <2>3. \E x \in Own(s)' : SameKey(x, "tenant", {})
    <3>1. CASE seeder[s].at = 1
      BY <3>1, <1>1, <1>2, FirstFilter DEF SameKey
    <3>2. CASE seeder[s].at > 1
      BY <3>2, <1>1 DEF SystemInv, EarlierStagesMine
    <3> QED BY <1>1, <3>1, <3>2
  <2> QED BY <2>2, <2>3
<1> QED BY <1>3, <1>4, <1>6, <1>7, <1>8, <1>9 DEF SystemInv

\* The first commit brings one of every system item; a later one brings none.
LEMMA CommitKeepsSystem ==
    ASSUME Shape, SystemInv, NEW s \in Seeder, Committed(s)
    PROVE  SystemInv'
<1>1. /\ rows' = rows \cup Own(s) /\ seeder[s].at = 26
      /\ Own(s)' = {} /\ seeder'[s].adding = FALSE /\ seeder'[s].at = 0
      /\ \A u \in Seeder \ {s} : seeder'[u] = seeder[u] /\ Now(u)' = Now(u) /\ Own(u)' = Own(u)
  BY DEF Committed, Only, Own, Now, Resting
<1>2. rows = {} => \A i \in 1..25 : \E r \in Own(s) : r.table = Pipeline[i].table
  BY <1>1 DEF SystemInv, EarlierStagesMine
<1>3. rows = {} => Own(s) # {}
  BY <1>2
<1>4. rows' # {}
  BY <1>1, <1>3
<1>5. SystemPlain'
  BY <1>1 DEF SystemInv, SystemPlain
<1>6. SystemComplete'
  <2> SUFFICES ASSUME NEW t \in SystemTable
               PROVE  \E r \in rows' : r.table = t
    BY DEF SystemComplete
  <2>1. CASE rows = {}
    BY <2>1, <1>1, <1>2, SystemStageExists
  <2>2. CASE rows # {}
    BY <2>2, <1>1 DEF SystemInv, SystemComplete
  <2> QED BY <2>1, <2>2
<1>7. SystemOnce'
  <2>1. OnceIn(rows)'
    <3>1. CASE rows = {}
      BY <3>1, <1>1 DEF SystemInv, SystemOnce, OnceIn
    <3>2. CASE rows # {}
      <4>1. \A r \in Own(s) : ~SystemRow(r)
        BY <3>2 DEF SystemInv, SystemFromScratch
      <4> QED BY <4>1, <1>1 DEF SystemInv, SystemOnce, OnceIn, SystemRow
    <3> QED BY <3>1, <3>2
  <2>2. \A u \in Seeder : OnceIn(Own(u))'
    BY <1>1 DEF SystemInv, SystemOnce, OnceIn
  <2> QED BY <2>1, <2>2 DEF SystemOnce
<1>8. SystemFromScratch'
  <2> SUFFICES ASSUME NEW u \in Seeder \ {s}
               PROVE  /\ ~\E r \in Own(u) : SystemRow(r)
                      /\ ~(seeder[u].adding = TRUE /\ Now(u).table \in SystemTable)
    BY <1>1 DEF SystemFromScratch
  <2>1. CASE rows = {}
    <3>1. Own(u) = {}
      BY <2>1, <1>3 DEF SystemInv, OneFirstSeeder
    <3>2. ~(seeder[u].at > 1)
      BY <2>1, <3>1 DEF SystemInv, EarlierStagesMine
    <3>3. seeder[u].adding = TRUE => seeder[u].at = 1
      BY <3>2 DEF Shape, IsSeeder
    <3> QED BY <3>1, <3>3, FirstNotSystem
  <2>2. CASE rows # {}
    BY <2>2 DEF SystemInv, SystemFromScratch
  <2> QED BY <2>1, <2>2
<1>9. OneFirstSeeder' /\ EarlierStagesMine'
  BY <1>4 DEF OneFirstSeeder, EarlierStagesMine
<1> QED BY <1>5, <1>6, <1>7, <1>8, <1>9 DEF SystemInv

LEMMA EditKeepsSystem ==
    ASSUME Shape, SystemInv, NEW r \in rows, Edited(r)
    PROVE  SystemInv'
<1>1. /\ seeder' = seeder /\ \A s \in Seeder : Own(s)' = Own(s) /\ Now(s)' = Now(s)
      /\ \A x \in rows' : x \in rows \/ x.table = r.table
      /\ \A x \in rows : x \in rows' \/ x = r
      /\ ~SystemRow(r)
  BY DEF Edited, Own, Now, SystemRow
<1>2. \A x \in rows' : SystemRow(x) => x \in rows
  BY <1>1 DEF SystemRow
<1>3. \A t \in SystemTable : \E x \in rows' : x.table = t
  <2> SUFFICES ASSUME NEW t \in SystemTable
               PROVE  \E x \in rows' : x.table = t
    OBVIOUS
  <2>1. PICK x \in rows : x.table = t
    BY DEF SystemInv, SystemComplete
  <2> QED BY <2>1, <1>1 DEF SystemRow
<1>4. rows' # {}
  <2>1. "allergen" \in SystemTable
    BY DEF SystemTable
  <2> QED BY <2>1, <1>3
<1>5. SystemPlain'
  BY <1>1, <1>2 DEF SystemInv, SystemPlain, PlainRow
<1>6. SystemComplete'
  BY <1>3 DEF SystemComplete
<1>7. SystemOnce'
  BY <1>1, <1>2 DEF SystemInv, SystemOnce, OnceIn, SystemRow
<1>8. SystemFromScratch'
  BY <1>1 DEF SystemInv, SystemFromScratch
<1>9. OneFirstSeeder' /\ EarlierStagesMine'
  BY <1>4 DEF OneFirstSeeder, EarlierStagesMine
<1> QED BY <1>5, <1>6, <1>7, <1>8, <1>9 DEF SystemInv

LEMMA KindsKeepSystem ==
    ASSUME Shape, SystemInv, Kinds
    PROVE  SystemInv'
BY EmptiedKeepsSystem, FoundKeepsSystem, NoneKeepsSystem, InsertKeepsSystem, CommitKeepsSystem,
   EditKeepsSystem DEF Kinds

LEMMA InitSystem == SeedInit => SystemInv
BY DEF SeedInit, SystemInv, SystemPlain, SystemComplete, SystemOnce, OnceIn, SystemFromScratch,
       OneFirstSeeder, EarlierStagesMine, Own, Resting

\* What a seeder may rely on of the system items: it sees all that was committed
\* before it, and only the first one writes.
THEOREM SystemInvariant == SeedSpec => [](Shape /\ SystemInv)
<1>1. SeedInit => Shape /\ SystemInv
  BY InitShape, InitSystem
<1>2. Shape /\ SystemInv /\ [SeedNext]_seedVars => (Shape /\ SystemInv)'
  <2> SUFFICES ASSUME Shape, SystemInv, [SeedNext]_seedVars
               PROVE  (Shape /\ SystemInv)'
    OBVIOUS
  <2>1. CASE SeedNext
    BY <2>1, Moves, KindsKeepSystem
  <2>2. CASE UNCHANGED seedVars
    BY <2>2 DEF seedVars, Shape, SystemInv, SystemPlain, SystemComplete, SystemOnce, OnceIn,
                SystemFromScratch, OneFirstSeeder, EarlierStagesMine, Own, Now
  <2> QED BY <2>1, <2>2
<1> QED BY <1>1, <1>2, PTL DEF SeedSpec

\* No two rows of a system item, however many seeders start, in parallel or
\* after one another, whatever dies, and whatever the dashboard edits meanwhile
\* (seed.py, _get_or_create and run_seed).
THEOREM SystemCodesUniqueHolds == SeedSpec => []SystemCodesUnique
<1>1. Shape /\ SystemInv => SystemCodesUnique
  BY NotUnique DEF SystemInv, SystemOnce, OnceIn, SystemRow, SystemCodesUnique
<1> QED BY <1>1, SystemInvariant, PTL

-----------------------------------------------------------------------------
(* Every row, until a key is edited *)

\* The ids the lookup of a table goes by, when each earlier stage has its one row.
Ids(t) == {<<u, 1>> : u \in Pipeline[Place(t)].under}

Canonical(r) == r.copy = 1 /\ r.key = "seeded" /\ r.under = Ids(r.table)

FoundUpTo(n) == {<<Pipeline[i].table, 1>> : i \in 1..(n - 1)}

AllCanonical ==
    /\ \A r \in rows : Canonical(r)
    /\ \A s \in Seeder : \A r \in Own(s) : Canonical(r)

Whole == rows # {} => \A t \in StageTable : \E r \in rows : r.table = t

Single(S) == \A x, y \in S : x.table = y.table => x = y

AllSingle == Single(rows) /\ \A s \in Seeder : Single(Own(s))

\* After the first commit nobody has a row of its own.
FirstSeederOnly == rows # {} => \A s \in Seeder : Own(s) = {}

FoundExact == \A s \in Seeder : seeder[s].found = FoundUpTo(seeder[s].at)

\* Who is about to add a row has none of that table, and only a tenant can have
\* been committed since it looked.
AddingFirst ==
    \A s \in Seeder :
        seeder[s].adding = TRUE =>
            /\ seeder[s].at = 1 \/ rows = {}
            /\ \A r \in Own(s) : r.table # Now(s).table

Untouched == AllCanonical /\ Whole /\ AllSingle /\ FirstSeederOnly /\ FoundExact /\ AddingFirst

EditsCounted == edits \in Nat /\ (edits = 0 => Untouched)

LEMMA NowPlace ==
    ASSUME NEW s \in Seeder, seeder[s].at \in 1..25
    PROVE  Place(Now(s).table) = seeder[s].at /\ Ids(Now(s).table) = {<<u, 1>> : u \in Now(s).under}
<1>1. Place(Now(s).table) = seeder[s].at
  BY StagesKnown DEF StageFacts, Now
<1> QED BY <1>1 DEF Ids, Now

LEMMA ExactFilter ==
    ASSUME FoundExact, NEW s \in Seeder, seeder[s].at \in 1..25
    PROVE  Filter(s) = Ids(Now(s).table)
<1>1. Ids(Now(s).table) = {<<u, 1>> : u \in Now(s).under}
  BY NowPlace
<1>2. seeder[s].found = {<<Pipeline[i].table, 1>> : i \in 1..(seeder[s].at - 1)}
  BY DEF FoundExact, FoundUpTo
<1>3. ASSUME NEW id \in Filter(s)
      PROVE  id \in Ids(Now(s).table)
  <2>1. PICK i \in 1..(seeder[s].at - 1) : id = <<Pipeline[i].table, 1>>
    BY <1>2 DEF Filter
  <2>2. id[1] \in Now(s).under /\ id = <<id[1], 1>>
    BY <2>1 DEF Filter
  <2> QED BY <1>1, <2>2
<1>4. ASSUME NEW u \in Now(s).under
      PROVE  <<u, 1>> \in Filter(s)
  <2>1. \E j \in 1..(seeder[s].at - 1) : Pipeline[j].table = u
    BY StagesKnown DEF StageFacts, Now
  <2>2. <<u, 1>> \in seeder[s].found
    BY <1>2, <2>1
  <2> QED BY <2>2 DEF Filter
<1> QED BY <1>1, <1>3, <1>4

LEMMA FoundOneMore ==
    ASSUME NEW n \in 1..25
    PROVE  FoundUpTo(n + 1) = FoundUpTo(n) \cup {<<Pipeline[n].table, 1>>}
<1>1. 1..((n + 1) - 1) = (1..(n - 1)) \cup {n}
  OBVIOUS
<1> QED BY <1>1 DEF FoundUpTo

LEMMA NothingFound == FoundUpTo(0) = {} /\ FoundUpTo(1) = {}
BY DEF FoundUpTo

LEMMA EmptiedKeepsUntouched ==
    ASSUME Untouched, NEW s \in Seeder, Emptied(s)
    PROVE  Untouched'
<1>1. /\ rows' = rows /\ Own(s)' = {} /\ seeder'[s].found = {} /\ seeder'[s].adding = FALSE
      /\ seeder'[s].at \in {0, 1}
      /\ \A u \in Seeder \ {s} : seeder'[u] = seeder[u] /\ Own(u)' = Own(u) /\ Now(u)' = Now(u)
  BY DEF Emptied, Only, Own, Now
<1>2. AllCanonical' /\ Whole' /\ AllSingle' /\ FirstSeederOnly' /\ AddingFirst'
  BY <1>1 DEF Untouched, AllCanonical, Whole, AllSingle, Single, FirstSeederOnly, AddingFirst
<1>3. FoundExact'
  BY <1>1, NothingFound DEF Untouched, FoundExact
<1> QED BY <1>2, <1>3 DEF Untouched

LEMMA FoundKeepsUntouched ==
    ASSUME Untouched, NEW s \in Seeder, NEW r \in Matches(s), FoundRow(s, r)
    PROVE  Untouched'
<1>1. /\ rows' = rows /\ seeder'[s].adding = FALSE /\ seeder[s].at \in 1..25
      /\ seeder'[s].at = seeder[s].at + 1 /\ seeder'[s].found = seeder[s].found \cup {IdOf(r)}
      /\ \A u \in Seeder : Own(u)' = Own(u)
      /\ \A u \in Seeder \ {s} : seeder'[u] = seeder[u] /\ Now(u)' = Now(u)
  BY DEF FoundRow, Only, Own, Now
<1>2. AllCanonical' /\ Whole' /\ AllSingle' /\ FirstSeederOnly' /\ AddingFirst'
  BY <1>1 DEF Untouched, AllCanonical, Whole, AllSingle, Single, FirstSeederOnly, AddingFirst
<1>3. IdOf(r) = <<Pipeline[seeder[s].at].table, 1>>
  BY DEF Untouched, AllCanonical, Canonical, Matches, SameKey, IdOf, Own, Now
<1>4. FoundExact'
  BY <1>1, <1>3, FoundOneMore DEF Untouched, FoundExact
<1> QED BY <1>2, <1>4 DEF Untouched

LEMMA NoneKeepsUntouched ==
    ASSUME Untouched, NEW s \in Seeder, FoundNone(s)
    PROVE  Untouched'
<1>1. /\ rows' = rows /\ seeder[s].at \in 1..25
      /\ \A u \in Seeder : /\ Own(u)' = Own(u) /\ Now(u)' = Now(u)
                           /\ seeder'[u].at = seeder[u].at /\ seeder'[u].found = seeder[u].found
      /\ \A u \in Seeder \ {s} : seeder'[u] = seeder[u]
  BY DEF FoundNone, Only, Own, Now
<1>2. AllCanonical' /\ Whole' /\ AllSingle' /\ FirstSeederOnly' /\ FoundExact'
  BY <1>1 DEF Untouched, AllCanonical, Whole, AllSingle, Single, FirstSeederOnly, FoundExact
<1>3. Filter(s) = Ids(Now(s).table)
  BY <1>1, ExactFilter DEF Untouched
<1>4. \A r \in rows \cup Own(s) : r.table # Now(s).table
  BY <1>3 DEF Untouched, AllCanonical, Canonical, FoundNone, Matches, SameKey, Own
<1>5. rows = {}
  BY <1>1, <1>4, NowTable DEF Untouched, Whole
<1>6. AddingFirst'
  BY <1>1, <1>4, <1>5 DEF Untouched, AddingFirst
<1> QED BY <1>2, <1>6 DEF Untouched

\* A row is inserted only before anything is committed, and it is the first of its table.
LEMMA FirstOfTable ==
    ASSUME Shape, SystemInv, Untouched, NEW s \in Seeder, Inserted(s)
    PROVE  /\ rows = {} /\ NewRow(s).copy = 1
           /\ \A r \in Own(s) : r.table # Now(s).table
<1>1. seeder[s].at \in 1..25 /\ seeder[s].adding = TRUE /\ ~Taken(s)
  BY DEF Inserted
<1>2. \A r \in Own(s) : r.table # Now(s).table
  BY <1>1 DEF Untouched, AddingFirst
<1>3. rows = {}
  <2> SUFFICES ASSUME rows # {}
               PROVE  FALSE
    OBVIOUS
  <2>1. seeder[s].at = 1
    BY <1>1 DEF Untouched, AddingFirst
  <2>2. PICK r \in rows : r.table = Now(s).table
    BY <1>1, NowTable DEF Untouched, Whole
  <2>3. SameKey(r, Now(s).table, Filter(s))
    BY <1>1, <2>2, ExactFilter DEF Untouched, AllCanonical, Canonical, SameKey
  <2> QED BY <1>1, <2>1, <2>3, FirstFilter DEF Taken, Collides
<1>4. \A u \in Seeder \ {s} : seeder[u].mine = {}
  BY <1>3, TenantAlone DEF Own
<1> DEFINE there == {x \in rows \cup UNION {seeder[u].mine : u \in Seeder} : x.table = Now(s).table}
           used  == {r.copy : r \in there}
<1>5. there = {}
  BY <1>2, <1>3, <1>4 DEF Own
<1>6. used = {}
  BY <1>5
<1>7. NewRow(s).copy = CHOOSE n \in 1..(Cardinality(used) + 1) : n \notin used
  BY DEF NewRow
<1>8. (CHOOSE n \in 1..(0 + 1) : n \notin {}) = 1
  OBVIOUS
<1>9. Cardinality({}) = 0
  BY FS_EmptySet
<1> HIDE DEF used
<1>10. NewRow(s).copy = CHOOSE n \in 1..(0 + 1) : n \notin {}
  BY <1>6, <1>7, <1>9
<1> QED BY <1>2, <1>3, <1>8, <1>10

LEMMA InsertKeepsUntouched ==
    ASSUME Shape, SystemInv, Untouched, NEW s \in Seeder, Inserted(s)
    PROVE  Untouched'
<1> DEFINE n == NewRow(s)
<1>1. /\ rows' = rows /\ seeder[s].at \in 1..25
      /\ seeder'[s].at = seeder[s].at + 1 /\ seeder'[s].adding = FALSE
      /\ seeder'[s].found = seeder[s].found \cup {IdOf(n)}
      /\ Own(s)' = Own(s) \cup {n}
      /\ \A u \in Seeder \ {s} : seeder'[u] = seeder[u] /\ Now(u)' = Now(u) /\ Own(u)' = Own(u)
  BY DEF Inserted, Only, Own, Now
<1>2. n.table = Now(s).table /\ n.under = Filter(s) /\ n.key = "seeded"
  BY <1>1, NewRowShape
<1>3. rows = {} /\ n.copy = 1 /\ \A r \in Own(s) : r.table # n.table
  BY <1>2, FirstOfTable
<1> HIDE DEF n
<1>4. Canonical(n)
  BY <1>1, <1>2, <1>3, ExactFilter DEF Untouched, Canonical
<1>5. AllCanonical'
  BY <1>1, <1>4 DEF Untouched, AllCanonical
<1>6. AllSingle'
  <2>1. Single(rows)' /\ \A u \in Seeder \ {s} : Single(Own(u))'
    BY <1>1 DEF Untouched, AllSingle, Single
  <2>2. Single(Own(s))'
    BY <1>1, <1>3 DEF Untouched, AllSingle, Single
  <2> QED BY <2>1, <2>2 DEF AllSingle
<1>7. Whole' /\ FirstSeederOnly'
  BY <1>1, <1>3 DEF Whole, FirstSeederOnly
<1>8. AddingFirst'
  BY <1>1 DEF Untouched, AddingFirst
<1>9. IdOf(n) = <<Pipeline[seeder[s].at].table, 1>>
  BY <1>2, <1>3 DEF IdOf, Now
<1>10. FoundExact'
  BY <1>1, <1>9, FoundOneMore DEF Untouched, FoundExact
<1> QED BY <1>5, <1>6, <1>7, <1>8, <1>10 DEF Untouched

LEMMA CommitKeepsUntouched ==
    ASSUME Shape, SystemInv, Untouched, NEW s \in Seeder, Committed(s)
    PROVE  Untouched'
<1>1. /\ rows' = rows \cup Own(s) /\ seeder[s].at = 26
      /\ Own(s)' = {} /\ seeder'[s].adding = FALSE /\ seeder'[s].at = 0 /\ seeder'[s].found = {}
      /\ \A u \in Seeder \ {s} : seeder'[u] = seeder[u] /\ Now(u)' = Now(u) /\ Own(u)' = Own(u)
  BY DEF Committed, Only, Own, Now, Resting
<1>2. rows = {} => \A i \in 1..25 : \E r \in Own(s) : r.table = Pipeline[i].table
  BY <1>1 DEF SystemInv, EarlierStagesMine
<1>3. rows # {} => Own(s) = {}
  BY DEF Untouched, FirstSeederOnly
<1>4. AllCanonical'
  BY <1>1 DEF Untouched, AllCanonical
<1>5. Whole'
  <2>1. CASE rows = {}
    BY <2>1, <1>1, <1>2 DEF Whole, StageTable
  <2>2. CASE rows # {}
    BY <2>2, <1>1 DEF Untouched, Whole
  <2> QED BY <2>1, <2>2
<1>6. AllSingle'
  <2>1. rows' = rows \/ rows' = Own(s)
    BY <1>1, <1>3
  <2> QED BY <2>1, <1>1 DEF Untouched, AllSingle, Single
<1>7. \A u \in Seeder \ {s} : Own(u) = {}
  <2>1. Own(s) # {} => rows = {}
    BY <1>3
  <2>2. rows = {} => Own(s) # {}
    BY <1>2
  <2> QED BY <2>1, <2>2 DEF SystemInv, OneFirstSeeder, Untouched, FirstSeederOnly
<1>8. FirstSeederOnly'
  BY <1>1, <1>7 DEF FirstSeederOnly
<1>9. FoundExact'
  BY <1>1, NothingFound DEF Untouched, FoundExact
<1>10. AddingFirst'
  <2> SUFFICES ASSUME NEW u \in Seeder, seeder'[u].adding = TRUE
               PROVE  seeder'[u].at = 1 /\ Own(u)' = {}
    BY DEF AddingFirst
  <2>0. u \in Seeder \ {s} /\ seeder'[u] = seeder[u] /\ Own(u)' = Own(u)
    BY <1>1
  <2>1. rows = {} => ~(seeder[u].at > 1)
    <3>1. Own(u) = {}
      BY <1>7, <2>0
    <3>2. rows = {} /\ seeder[u].at > 1 => \E r \in Own(u) : SameKey(r, "tenant", {})
      BY DEF SystemInv, EarlierStagesMine
    <3> QED BY <3>1, <3>2
  <2>2. seeder[u].at \in 1..25
    BY <2>0 DEF Shape, IsSeeder
  <2>3. rows # {} => seeder[u].at = 1
    BY <2>0 DEF Untouched, AddingFirst
  <2> QED BY <1>7, <2>0, <2>1, <2>2, <2>3
<1> QED BY <1>4, <1>5, <1>6, <1>8, <1>9, <1>10 DEF Untouched

\* The delete of a product keeps its row, and its keys.
LEMMA DeleteKeepsUntouched ==
    ASSUME Untouched, NEW r \in rows, NEW w, seeder' = seeder, rows' = (rows \ {r}) \cup {w},
           w.table = r.table, w.copy = r.copy, w.under = r.under, w.key = r.key
    PROVE  Untouched'
<1>1. /\ rows # {} /\ rows' # {}
      /\ \A s \in Seeder : Own(s)' = Own(s) /\ Now(s)' = Now(s)
  BY DEF Own, Now
<1>2. AllCanonical'
  BY <1>1 DEF Untouched, AllCanonical, Canonical
<1>3. Whole'
  <2> SUFFICES ASSUME NEW t \in StageTable
               PROVE  \E x \in rows' : x.table = t
    BY DEF Whole
  <2>1. PICK x \in rows : x.table = t
    BY <1>1 DEF Untouched, Whole
  <2> QED BY <2>1
<1>4. AllSingle'
  <2>1. Single(rows)
    BY DEF Untouched, AllSingle
  <2>2. ASSUME NEW x \in rows', NEW y \in rows', x.table = y.table
        PROVE  x = y
    <3> DEFINE old(z) == IF z \in rows /\ z # r THEN z ELSE r
    <3>1. old(x) \in rows /\ old(y) \in rows
      OBVIOUS
    <3>2. old(x).table = x.table /\ old(y).table = y.table
      OBVIOUS
    <3>3. old(x) = old(y)
      BY <2>1, <2>2, <3>1, <3>2 DEF Single
    <3> QED BY <3>3
  <2>3. Single(rows)'
    BY <2>2 DEF Single
  <2> QED BY <1>1, <2>3 DEF Untouched, AllSingle, Single
<1>5. FirstSeederOnly' /\ FoundExact'
  BY <1>1 DEF Untouched, FirstSeederOnly, FoundExact
<1>6. AddingFirst'
  BY <1>1 DEF Untouched, AddingFirst
<1> QED BY <1>2, <1>3, <1>4, <1>5, <1>6 DEF Untouched

LEMMA KindsKeepUntouched ==
    ASSUME Shape, SystemInv, EditsCounted, Kinds
    PROVE  EditsCounted'
<1>1. ASSUME NEW s \in Seeder,
             Emptied(s) \/ FoundNone(s) \/ Inserted(s) \/ Committed(s)
             \/ \E r \in Matches(s) : FoundRow(s, r)
      PROVE  EditsCounted'
  <2>1. edits' = edits
    BY <1>1 DEF Emptied, FoundNone, Inserted, Committed, FoundRow
  <2>2. Untouched => Untouched'
    BY <1>1, EmptiedKeepsUntouched, FoundKeepsUntouched, NoneKeepsUntouched,
       InsertKeepsUntouched, CommitKeepsUntouched
  <2> QED BY <2>1, <2>2 DEF EditsCounted
<1>2. ASSUME NEW r \in rows, Edited(r)
      PROVE  EditsCounted'
  <2>1. CASE edits' = edits + 1
    BY <2>1 DEF EditsCounted
  <2>2. CASE edits' # edits + 1
    <3>1. PICK w : /\ rows' = (rows \ {r}) \cup {w} /\ w.table = r.table /\ seeder' = seeder
                   /\ edits' = edits /\ w.copy = r.copy /\ w.under = r.under /\ w.key = r.key
      BY <1>2, <2>2 DEF Edited
    <3>2. Untouched => Untouched'
      BY <3>1, DeleteKeepsUntouched
    <3> QED BY <3>1, <3>2 DEF EditsCounted
  <2> QED BY <2>1, <2>2
<1> QED BY <1>1, <1>2 DEF Kinds

LEMMA InitUntouched == SeedInit => EditsCounted
BY NothingFound
DEF SeedInit, EditsCounted, Untouched, AllCanonical, Whole, AllSingle, Single, FirstSeederOnly,
    FoundExact, AddingFirst, Own, Resting

\* The same of every stage, for as long as the dashboard has edited no key.
THEOREM UntouchedInvariant == SeedSpec => [](Shape /\ SystemInv /\ EditsCounted)
<1>1. SeedInit => EditsCounted
  BY InitUntouched
<1>2. Shape /\ SystemInv /\ EditsCounted /\ [SeedNext]_seedVars => EditsCounted'
  <2> SUFFICES ASSUME Shape, SystemInv, EditsCounted, [SeedNext]_seedVars
               PROVE  EditsCounted'
    OBVIOUS
  <2>1. CASE SeedNext
    BY <2>1, Moves, KindsKeepUntouched
  <2>2. CASE UNCHANGED seedVars
    BY <2>2 DEF seedVars, EditsCounted, Untouched, AllCanonical, Whole, AllSingle, Single,
                FirstSeederOnly, FoundExact, AddingFirst, Own, Now
  <2> QED BY <2>1, <2>2
<1> QED BY <1>1, <1>2, SystemInvariant, PTL DEF SeedSpec

\* Until a key is edited the seed is there once and whole, or not at all, for any
\* number of seeders, starts, deaths and deletes of products (seed.py, run_seed).
THEOREM OneOfEachHolds == SeedSpec => []OneOfEach
<1>1. EditsCounted => OneOfEach
  <2> SUFFICES ASSUME Untouched, rows # {}, NEW t \in StageTable
               PROVE  Cardinality({r \in rows : r.table = t}) = 1
    BY DEF EditsCounted, OneOfEach
  <2>1. PICK x \in rows : x.table = t
    BY DEF Untouched, Whole
  <2>2. {r \in rows : r.table = t} = {x}
    BY <2>1 DEF Untouched, AllSingle, Single
  <2> QED BY <2>2, FS_Singleton
<1> QED BY <1>1, UntouchedInvariant, PTL

=============================================================================
