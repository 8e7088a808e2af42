---------------------------- MODULE CatalogItems ----------------------------
(***************************************************************************)
(* The catalogs of allergens, badges, seals, dietary profiles and cooking  *)
(* methods: rest_api/app/services/domain/allergen_service.py,              *)
(* badge_service.py, seal_service.py, dietary_profile_service.py and       *)
(* cooking_method_service.py.  The five services are the same code over    *)
(* tables of their own, so a behaviour is about one of them, chosen at its *)
(* start; only allergens have cross-reactions.                             *)
(*                                                                         *)
(* A system item has no tenant and is listed for all of them.  A request   *)
(* fetches what it works on and commits later, with a session of its own.  *)
(***************************************************************************)
EXTENDS Naturals, FiniteSets

CONSTANTS
    Tenant,
    NoTenant,    \* tenant_id NULL
    Code,
    Label,       \* the names an item may have
    MaxItem,     \* bound: ids are 1..MaxItem, given in the order of creation
    SystemItems, \* bound: how many of them the seed made
    Slot,        \* request slots
    Nothing      \* an idle slot, a field the body leaves out

ASSUME ItemsAssumption ==
    /\ MaxItem \in Nat /\ SystemItems \in 0..MaxItem
    /\ NoTenant \notin Tenant
    /\ Code # {} /\ Label # {}

Kind == {"allergen", "badge", "seal", "dietary_profile", "cooking_method"}
Id   == 1..MaxItem

VARIABLES
    kind,       \* the service the behaviour is about
    items,      \* rows: id -> [code, tenant, label, deleted]
    reactions,  \* allergen_cross_reactions: <<allergen_id, related_allergen_id>>
    slot        \* what each request slot is doing

itemsVars == <<kind, items, reactions, slot>>

Made == DOMAIN items

\* is_system is set by the seed alone, on the rows without a tenant.
System(i) == items[i].tenant = NoTenant

\* _base_query: the tenant's items and the system's, without the deleted ones.
Visible(i, t) == i \in Made /\ items[i].tenant \in {t, NoTenant} /\ ~items[i].deleted

ItemsInit ==
    /\ kind \in Kind
    /\ \E code \in Code, label \in Label :
         items = [i \in 1..SystemItems |->
                    [code |-> code, tenant |-> NoTenant, label |-> label, deleted |-> FALSE]]
    /\ reactions \in {{}, {<<i, i + 1>> : i \in 1..(SystemItems - 1)}}
    /\ slot = [r \in Slot |-> Nothing]

Take(r, request) ==
    /\ slot[r] = Nothing
    /\ slot' = [slot EXCEPT ![r] = request]
    /\ UNCHANGED <<kind, items, reactions>>

Answer(r) == slot' = [slot EXCEPT ![r] = Nothing]

Doing(r, op) == slot[r] # Nothing /\ slot[r].op = op

-----------------------------------------------------------------------------
(* Items *)

\* create: is_system is false and the tenant is the user's.  The unique
\* (code, tenant) counts the rows that are deleted.
CreateItem(r, t, code, label) ==
    /\ slot[r] = Nothing
    /\ Cardinality(Made) < MaxItem
    /\ \A i \in Made : <<items[i].code, items[i].tenant>> # <<code, t>>
    /\ LET new == Cardinality(Made) + 1
       IN items' = [i \in 1..new |->
                      IF i = new THEN [code |-> code, tenant |-> t, label |-> label, deleted |-> FALSE]
                      ELSE items[i]]
    /\ UNCHANGED <<kind, reactions, slot>>

\* update and delete: the fetch, then the refusal of system items.
FetchOwn(r, t, i, op, label) ==
    /\ Visible(i, t) /\ ~System(i)
    /\ Take(r, [op |-> op, item |-> i, read |-> items[i].label, label |-> label])

\* The commit of an update: a value equal to the one read is not written, and
\* the row is written even if it was deleted meanwhile.
UpdateItem(r) ==
    /\ Doing(r, "update")
    /\ LET q == slot[r]
       IN items' = [items EXCEPT ![q.item].label =
                      IF q.label \in {Nothing, q.read} THEN @ ELSE q.label]
    /\ Answer(r)
    /\ UNCHANGED <<kind, reactions>>

\* soft_delete: the reactions of an allergen stay.
DeleteItem(r) ==
    /\ Doing(r, "delete")
    /\ items' = [items EXCEPT ![slot[r].item].deleted = TRUE]
    /\ Answer(r)
    /\ UNCHANGED <<kind, reactions>>

-----------------------------------------------------------------------------
(* Cross-reactions *)

\* add_cross_reaction: the fetch of the first allergen, then of the related one,
\* by two SELECTs.  An allergen does not react with itself.
FetchFirst(r, t, a, b) ==
    /\ Visible(a, t)
    /\ Take(r, [op |-> "related", tenant |-> t, from |-> a, to |-> b])

Unscoped(r) ==
    /\ Doing(r, "related")
    /\ slot[r].to \in Made /\ slot[r].to # slot[r].from
    /\ slot' = [slot EXCEPT ![r].op = "react"]
    /\ UNCHANGED <<kind, items, reactions>>

FetchRelated(r) ==
    /\ Doing(r, "related")
    /\ Visible(slot[r].to, slot[r].tenant) /\ slot[r].to # slot[r].from
    /\ slot' = [slot EXCEPT ![r].op = "react"]
    /\ UNCHANGED <<kind, items, reactions>>

AsAsked(a, b) == <<a, b>>

\* The smaller id comes first.
Canonical(a, b) == IF a < b THEN <<a, b>> ELSE <<b, a>>

Pair(r) == Canonical(slot[r].from, slot[r].to)

\* The CHECK on the order of the ids, and the unique pair.
Refused(r) == Pair(r)[1] >= Pair(r)[2] \/ Pair(r) \in reactions

AddReaction(r) ==
    /\ Doing(r, "react")
    /\ ~Refused(r)
    /\ reactions' = reactions \cup {Pair(r)}
    /\ Answer(r)
    /\ UNCHANGED <<kind, items>>

\* 403, 404, 409 or 422, and database errors: nothing is written.
Reject(r) ==
    /\ slot[r] # Nothing
    /\ Answer(r)
    /\ UNCHANGED <<kind, items, reactions>>

\* remove_cross_reaction goes by the id of the row alone, and deletes it.
RemoveReaction(x) ==
    /\ x \in reactions
    /\ reactions' = reactions \ {x}
    /\ UNCHANGED <<kind, items, slot>>

\* _get_cross_reactions: the pairs with the allergen on either side, whether or
\* not the other one is deleted.
ReactionsOf(a) == {b \in Made : <<a, b>> \in reactions \/ <<b, a>> \in reactions}

-----------------------------------------------------------------------------
ItemService(r, t) ==
    \/ \E code \in Code, label \in Label : CreateItem(r, t, code, label)
    \/ \E i \in Made : \/ \E label \in Label \cup {Nothing} : FetchOwn(r, t, i, "update", label)
                       \/ FetchOwn(r, t, i, "delete", Nothing)
    \/ UpdateItem(r)
    \/ DeleteItem(r)
    \/ Reject(r)

BadgeService(r, t)          == kind = "badge" /\ ItemService(r, t)
SealService(r, t)           == kind = "seal" /\ ItemService(r, t)
DietaryProfileService(r, t) == kind = "dietary_profile" /\ ItemService(r, t)
CookingMethodService(r, t)  == kind = "cooking_method" /\ ItemService(r, t)

AllergenService(r, t) ==
    /\ kind = "allergen"
    /\ \/ ItemService(r, t)
       \/ \E a, b \in Made : FetchFirst(r, t, a, b)
       \/ FetchRelated(r)
       \/ AddReaction(r)
       \/ \E x \in reactions : RemoveReaction(x)

ItemsNext ==
    \E r \in Slot, t \in Tenant :
        \/ AllergenService(r, t)
        \/ BadgeService(r, t)
        \/ SealService(r, t)
        \/ DietaryProfileService(r, t)
        \/ CookingMethodService(r, t)

ItemsSpec == ItemsInit /\ [][ItemsNext]_itemsVars

-----------------------------------------------------------------------------
(* Properties *)

\* The list of an allergen's reactions never names another tenant's allergen,
\* although a reaction has no tenant of its own and any id may be asked for.
ReactionsWithinTenant ==
    \A a \in Made : \A b \in ReactionsOf(a) :
        items[a].tenant # NoTenant => items[b].tenant \in {items[a].tenant, NoTenant}

\* A reaction is refused by the database only when the same two allergens
\* already react, whichever of them it was asked from, now and in parallel.
RefusedOnlyIfThere ==
    \A r \in Slot :
        Doing(r, "react") /\ Refused(r) => slot[r].to \in ReactionsOf(slot[r].from)
=============================================================================
