--------------------------- MODULE ProductDetails ---------------------------
(***************************************************************************)
(* A sub-resource of one product:                                          *)
(* rest_api/app/services/domain/product_extended_service.py behind         *)
(* routers/dashboard/product_extended.py, with the input schemas of        *)
(* schemas/product_extended.py.  The eight sub-resources share no rows, so *)
(* a behaviour is about one of them, chosen at its start.                  *)
(*                                                                         *)
(* Six of them are lists of rows in a table of their own, and a PUT        *)
(* replaces the list: DELETE of every row of the product, INSERT of the    *)
(* new ones, commit.  The DELETE picks its rows from the snapshot of its   *)
(* start and waits for rows another transaction is deleting; rows another  *)
(* transaction inserts in between it does not see.  Two are array columns  *)
(* of the product, written only when they differ from what was read.       *)
(*                                                                         *)
(* A row carries the request that wrote it (by) and the keys that request  *)
(* sent (whole), which the properties need and the code does not have.     *)
(***************************************************************************)
EXTENDS Naturals, Sequences, SequencesExt, FiniteSets

CONSTANTS
    Worker,        \* request slots
    Key,           \* allergens, profiles, methods, badges or seals, by id
    Orden,         \* bound: the orden values of ingredients
    Omitted,       \* a field the body leaves out
    Taste,         \* values of FlavorProfileEnum or TextureProfileEnum
    MaxLength,     \* bound: the length of a list in a body
    MaxRequests    \* bound on the requests begun

ASSUME DetailsAssumption ==
    /\ MaxLength \in Nat /\ MaxRequests \in Nat
    /\ Orden \subseteq Nat /\ 0 \in Orden

List   == {"allergens", "dietary", "cooking", "ingredients", "badges", "seals"}
Column == {"flavor", "texture"}

VARIABLES
    resource,  \* the sub-resource the behaviour is about
    rows,      \* its committed rows, if it is a list
    column,    \* its value, if it is a column
    removed,   \* the product has deleted_at set
    work,      \* what each request slot is doing
    count,     \* how many requests were begun
    met        \* history: pairs of requests that were in flight together

detailsVars == <<resource, rows, column, removed, work, count, met>>

Ready == [step |-> "ready", id |-> 0, keys |-> <<>>, targets |-> {}, values |-> {}, read |-> {}]

Active == {w \in Worker : work[w].step # "ready"}

DetailsInit ==
    /\ resource \in List \cup Column
    /\ rows = {}
    /\ column = {}
    /\ removed = FALSE
    /\ work = [w \in Worker |-> Ready]
    /\ count = 0
    /\ met = {}

\* ProductService.delete.
RemoveProduct ==
    /\ ~removed
    /\ removed' = TRUE
    /\ UNCHANGED <<resource, rows, column, work, count, met>>

\* _get_product: a live product of the tenant, or 404.
Enter(w, step, keys, values) ==
    /\ count < MaxRequests
    /\ work[w].step = "ready"
    /\ ~removed
    /\ count' = count + 1
    /\ met' = met \cup {{work[v].id, count + 1} : v \in Active}
    /\ work' = [work EXCEPT ![w] = [step |-> step, id |-> count + 1, keys |-> keys,
                                    targets |-> {}, values |-> values, read |-> column]]
    /\ UNCHANGED <<resource, rows, column, removed>>

-----------------------------------------------------------------------------
(* The replace-all writes *)

Replace(w, list, keys) == resource = list /\ Enter(w, "delete", keys, {})

\* ProductAllergenInput, set_allergens and the table's CHECK all refuse an
\* allergen the product is free of with a risk above low.
Acceptable(item) == item.presence = "free_of" => item.risk = "low"

SetAllergens(w, items) ==
    /\ \A i \in 1..Len(items) : Acceptable(items[i])
    /\ Replace(w, "allergens", [i \in 1..Len(items) |-> items[i].key])

SetDietaryProfiles(w, ids) == Replace(w, "dietary", ids)

SetCookingMethods(w, ids) == Replace(w, "cooking", ids)

SetBadges(w, ids) == Replace(w, "badges", ids)

SetSeals(w, ids) == Replace(w, "seals", ids)

\* The schema fills an omitted orden with 0, so that the service's fallback to
\* the position in the list never applies.
SortOrder(orden) == IF orden = Omitted THEN 0 ELSE orden

\* The table is unique in (product, sort_order): that is an ingredient's key.
SetIngredients(w, ordenes) ==
    Replace(w, "ingredients", [i \in 1..Len(ordenes) |-> SortOrder(ordenes[i])])

\* The DELETE begins: its snapshot has the committed rows.
StartDelete(w) ==
    /\ work[w].step = "delete"
    /\ work' = [work EXCEPT ![w].step = "deleting", ![w].targets = rows]
    /\ UNCHANGED <<resource, rows, column, removed, count, met>>

\* Rows that the open transaction of another request has deleted.
DeletedByOther(w) ==
    UNION {work[v].targets : v \in {u \in Worker \ {w} : work[u].step = "insert"}}

NoTargets(w) == {}

\* What is left of the snapshot once nobody else holds its rows.
Targets(w) == work[w].targets \cap rows

FinishDelete(w) ==
    /\ work[w].step = "deleting"
    /\ Targets(w) \cap DeletedByOther(w) = {}
    /\ work' = [work EXCEPT ![w].step = "insert", ![w].targets = Targets(w)]
    /\ UNCHANGED <<resource, rows, column, removed, count, met>>

NewRows(w) ==
    LET sent == ToSet(work[w].keys)
    IN {[key |-> k, by |-> work[w].id, whole |-> sent] : k \in sent}

KeepEverything(w) == {x \in rows : x.key \notin ToSet(work[w].keys)}

\* What the commit leaves of the older rows.
Kept(w) == rows \ work[w].targets

\* The unique constraint on the product and the key.
DuplicateKey(w) ==
    \/ ~IsInjective(work[w].keys)
    \/ \E x \in Kept(w) : x.key \in ToSet(work[w].keys)

\* An INSERT of a key whose row another transaction has deleted waits for it.
MayInsert(w) == \A x \in DeletedByOther(w) : x.key \notin ToSet(work[w].keys)

InsertAndCommit(w) ==
    /\ work[w].step = "insert"
    /\ MayInsert(w) /\ ~DuplicateKey(w)
    /\ rows' = Kept(w) \cup NewRows(w)
    /\ work' = [work EXCEPT ![w] = Ready]
    /\ UNCHANGED <<resource, column, removed, count, met>>

\* safe_commit rolls back: a duplicate key, a deadlock or another database error.
Refuse(w) ==
    /\ work[w].step # "ready"
    /\ work' = [work EXCEPT ![w] = Ready]
    /\ UNCHANGED <<resource, rows, column, removed, count, met>>

-----------------------------------------------------------------------------
(* The array columns *)

SetFlavorProfiles(w, values) == resource = "flavor" /\ Enter(w, "update", <<>>, values)

SetTextureProfiles(w, values) == resource = "texture" /\ Enter(w, "update", <<>>, values)

\* The UPDATE, which SQLAlchemy leaves out when the value is the one it read.
UpdateAndCommit(w) ==
    /\ work[w].step = "update"
    /\ column' = IF work[w].values = work[w].read THEN column ELSE work[w].values
    /\ work' = [work EXCEPT ![w] = Ready]
    /\ UNCHANGED <<resource, rows, removed, count, met>>

-----------------------------------------------------------------------------
ListOf(S) == BoundedSeq(S, MaxLength)

AllergenItem == [key : Key, presence : {"contains", "free_of"}, risk : {"low", "high"}]

DetailsNext ==
    \/ RemoveProduct
    \/ \E w \in Worker :
         \/ \E items \in ListOf(AllergenItem) : SetAllergens(w, items)
         \/ \E ids \in ListOf(Key) : \/ SetDietaryProfiles(w, ids)
                                   \/ SetCookingMethods(w, ids)
                                   \/ SetBadges(w, ids)
                                   \/ SetSeals(w, ids)
         \/ \E ordenes \in ListOf(Orden \cup {Omitted}) : SetIngredients(w, ordenes)
         \/ \E values \in SUBSET Taste : SetFlavorProfiles(w, values) \/ SetTextureProfiles(w, values)
         \/ StartDelete(w)
         \/ FinishDelete(w)
         \/ InsertAndCommit(w)
         \/ Refuse(w)
         \/ UpdateAndCommit(w)

DetailsSpec == DetailsInit /\ [][DetailsNext]_detailsVars

-----------------------------------------------------------------------------
(* Properties *)

Request == 1..MaxRequests

DetailsTypeOK ==
    /\ resource \in List \cup Column
    /\ rows \subseteq [key : Key \cup Nat, by : Request, whole : SUBSET (Key \cup Nat)]
    /\ column \subseteq Taste
    /\ removed \in BOOLEAN
    /\ DOMAIN work = Worker
    /\ count \in 0..MaxRequests

\* A list that mixes the rows of two requests, the union of two allergen lists
\* nobody sent, comes only from requests that were in flight together: a PUT
\* that begins after another was answered leaves none of its rows.
UnionOnlyByOverlap ==
    \A x, y \in rows : x.by # y.by => {x.by, y.by} \in met

\* Even then the list has no half of a request: all the rows a request sent are
\* there, or none of them.
WholeLists ==
    \A x \in rows : x.whole = {y.key : y \in {z \in rows : z.by = x.by}}
=============================================================================
