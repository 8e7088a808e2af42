--------------------------- MODULE CatalogProofs ----------------------------
(***************************************************************************)
(* The catalog: cross-reactions stay within a tenant and are refused only when *)
(* they are there, for any number of tenants, items and requests; and what a *)
(* filtered menu shows, for every set of products, allergens and diets and any *)
(* number of writes.                                                       *)
(***************************************************************************)
EXTENDS CatalogItems, MenuView, FiniteSetTheorems, TLAPS

-----------------------------------------------------------------------------
(* The items                                                               *)
(*                                                                         *)
(* A reaction has no tenant of its own: that a request checked both of its *)
(* allergens has to be remembered from the fetch to the commit, over all that *)
(* others do meanwhile.  It can be, because an item is never removed and never *)
(* changes hands.                                                          *)

Item == [code : Code, tenant : Tenant \cup {NoTenant}, label : Label, deleted : BOOLEAN]

ItemRequest == [op : {"update", "delete"}, item : Id, read : Label, label : Label \cup {Nothing}]

ReactionRequest == [op : {"related", "react"}, tenant : Tenant, from : Id, to : Id]

\* Ids are given in order.
ItemsTypeOK == \E n \in Nat : n <= MaxItem /\ items \in [1..n -> Item]

\* i is a row of tenant t or of the system; it may be deleted by now.
Of(i, t, table) == i \in DOMAIN table /\ table[i].tenant \in {t, NoTenant}

\* The allergens of a reaction are of one tenant, apart from system items.
ReactionsApart ==
    \A x \in reactions : \E i, j \in Made, t \in Tenant \cup {NoTenant} :
        x = <<i, j>> /\ Of(i, t, items) /\ Of(j, t, items)

\* What a request has checked so far.
Checked(q, table) ==
    \/ q \in ItemRequest /\ q.item \in DOMAIN table
    \/ /\ q \in ReactionRequest /\ Of(q.from, q.tenant, table)
       /\ q.op = "react" => Of(q.to, q.tenant, table) /\ q.to # q.from

RequestsChecked ==
    /\ slot = [r \in Slot |-> slot[r]]
    /\ \A r \in Slot : slot[r] # Nothing => Checked(slot[r], items)

ItemsInv == ItemsTypeOK /\ ReactionsApart /\ RequestsChecked

\* No step takes an item away or gives it to another tenant.
ItemsStay == Made \subseteq Made' /\ \A i \in Made : items'[i].tenant = items[i].tenant

-----------------------------------------------------------------------------
LEMMA MadeIsInterval ==
    ASSUME ItemsTypeOK
    PROVE  /\ Cardinality(Made) \in Nat /\ Cardinality(Made) <= MaxItem
           /\ Made = 1..Cardinality(Made)
           /\ items \in [1..Cardinality(Made) -> Item]
<1>1. PICK n \in Nat : n <= MaxItem /\ items \in [1..n -> Item] BY DEF ItemsTypeOK
<1>2. Made = 1..n BY <1>1 DEF Made
<1>3. Cardinality(Made) = n BY <1>2, FS_Interval
<1> QED BY <1>1, <1>2, <1>3

LEMMA InitItems == ItemsInit => ItemsInv
<1> SUFFICES ASSUME ItemsInit PROVE ItemsInv OBVIOUS
<1> USE ItemsAssumption
<1>1. PICK code \in Code, label \in Label :
        items = [i \in 1..SystemItems |->
                   [code |-> code, tenant |-> NoTenant, label |-> label, deleted |-> FALSE]]
  BY DEF ItemsInit
<1>2. ItemsTypeOK
  <2>1. items \in [1..SystemItems -> Item] BY <1>1 DEF Item
  <2>2. SystemItems \in Nat /\ SystemItems <= MaxItem OBVIOUS
  <2> QED BY <2>1, <2>2 DEF ItemsTypeOK
<1>3. Made = 1..SystemItems /\ \A i \in Made : Of(i, NoTenant, items) BY <1>1 DEF Made, Of
<1>4. ReactionsApart
  <2>1. SUFFICES ASSUME NEW x \in reactions
                 PROVE  \E i, j \in Made : x = <<i, j>>
    BY <1>3 DEF ReactionsApart
  <2>2. x \in {<<i, i + 1>> : i \in 1..(SystemItems - 1)} BY DEF ItemsInit
  <2>3. PICK i \in 1..(SystemItems - 1) : x = <<i, i + 1>> BY <2>2
  <2>4. i \in 1..SystemItems /\ i + 1 \in 1..SystemItems OBVIOUS
  <2> QED BY <1>3, <2>3, <2>4
<1>5. RequestsChecked BY DEF ItemsInit, RequestsChecked
<1> QED BY <1>2, <1>4, <1>5 DEF ItemsInv

\* What was of a tenant stays so.
LEMMA OfStays ==
    ASSUME ItemsStay, NEW i, NEW t, Of(i, t, items)
    PROVE  Of(i, t, items')
BY DEF ItemsStay, Of, Made

LEMMA CheckedStays ==
    ASSUME ItemsStay, NEW q, Checked(q, items)
    PROVE  Checked(q, items')
<1>1. DOMAIN items \subseteq DOMAIN items' BY DEF ItemsStay, Made
<1>2. CASE q \in ItemRequest /\ q.item \in DOMAIN items BY <1>1, <1>2 DEF Checked
<1>3. CASE /\ q \in ReactionRequest /\ Of(q.from, q.tenant, items)
           /\ q.op = "react" => Of(q.to, q.tenant, items) /\ q.to # q.from
  BY <1>3, OfStays DEF Checked
<1> QED BY <1>2, <1>3 DEF Checked

LEMMA ApartStays ==
    ASSUME ReactionsApart, ItemsStay, reactions' \subseteq reactions
    PROVE  ReactionsApart'
<1> SUFFICES ASSUME NEW x \in reactions'
             PROVE  \E i, j \in Made', t \in Tenant \cup {NoTenant} :
                      x = <<i, j>> /\ Of(i, t, items') /\ Of(j, t, items')
  BY DEF ReactionsApart
<1>1. PICK i \in Made, j \in Made, t \in Tenant \cup {NoTenant} : x = <<i, j>> /\ Of(i, t, items) /\ Of(j, t, items)
  BY DEF ReactionsApart
<1> QED BY <1>1, OfStays DEF ItemsStay

\* A step of one slot, which ends idle or with a request that is checked.
LEMMA SlotStep ==
    ASSUME RequestsChecked, ItemsStay, NEW r \in Slot, NEW q, q = Nothing \/ Checked(q, items'),
           slot' = [slot EXCEPT ![r] = q]
    PROVE  RequestsChecked'
<1>1. slot' = [x \in Slot |-> slot'[x]] /\ \A x \in Slot : slot'[x] = IF x = r THEN q ELSE slot[x]
  BY DEF RequestsChecked
<1>2. ASSUME NEW x \in Slot, slot'[x] # Nothing PROVE Checked(slot'[x], items')
  <2>1. CASE x = r
    <3>1. slot'[x] = q BY <1>1, <2>1
    <3> QED BY <3>1, <1>2
  <2>2. CASE x # r
    <3>1. slot'[x] = slot[x] BY <1>1, <2>2
    <3>2. Checked(slot[x], items) BY <3>1, <1>2 DEF RequestsChecked
    <3>3. Checked(slot[x], items') BY <3>2, CheckedStays
    <3> QED BY <3>1, <3>3
  <2> QED BY <2>1, <2>2
<1> QED BY <1>1, <1>2 DEF RequestsChecked

LEMMA SameItems == ASSUME UNCHANGED items PROVE ItemsStay
BY DEF ItemsStay, Made

\* The kinds of requests are told apart by what they do.
LEMMA DoingReaction ==
    ASSUME RequestsChecked, NEW r \in Slot, Doing(r, "related") \/ Doing(r, "react")
    PROVE  /\ slot[r] \in ReactionRequest /\ Of(slot[r].from, slot[r].tenant, items)
           /\ Doing(r, "react") => /\ Of(slot[r].to, slot[r].tenant, items)
                                  /\ slot[r].to # slot[r].from
BY DEF RequestsChecked, Checked, Doing, ItemRequest

LEMMA DoingItem ==
    ASSUME RequestsChecked, NEW r \in Slot, Doing(r, "update") \/ Doing(r, "delete")
    PROVE  slot[r] \in ItemRequest /\ slot[r].item \in Made
BY DEF RequestsChecked, Checked, Doing, ReactionRequest, Made

-----------------------------------------------------------------------------
(* The operations *)

LEMMA CreateStep ==
    ASSUME ItemsInv, NEW r \in Slot, NEW t \in Tenant, NEW code \in Code, NEW label \in Label,
           CreateItem(r, t, code, label)
    PROVE  ItemsInv'
<1> DEFINE n == Cardinality(Made)
<1>1. n \in Nat /\ n < MaxItem /\ Made = 1..n /\ items \in [1..n -> Item]
  BY MadeIsInterval DEF ItemsInv, CreateItem
<1>2. items' = [i \in 1..(n + 1) |->
                  IF i = n + 1
                  THEN [code |-> code, tenant |-> t, label |-> label, deleted |-> FALSE]
                  ELSE items[i]]
  BY DEF CreateItem
<1> HIDE DEF n
<1>3. items' \in [1..(n + 1) -> Item] BY <1>1, <1>2 DEF Item
<1>4. n + 1 \in Nat /\ n + 1 <= MaxItem BY <1>1, ItemsAssumption
<1>5. ItemsTypeOK' BY <1>3, <1>4 DEF ItemsTypeOK
<1>6. ItemsStay BY <1>1, <1>2 DEF ItemsStay, Made
<1>7. ReactionsApart' BY <1>6, ApartStays DEF ItemsInv, CreateItem
<1>8. RequestsChecked' BY <1>6, CheckedStays DEF ItemsInv, CreateItem, RequestsChecked
<1> QED BY <1>5, <1>7, <1>8 DEF ItemsInv

\* A request that is taken, goes on or is answered, and writes nothing.
LEMMA ReadingStep ==
    ASSUME ItemsInv, UNCHANGED items, reactions' \subseteq reactions, NEW r \in Slot, NEW q,
           q = Nothing \/ Checked(q, items), slot' = [slot EXCEPT ![r] = q]
    PROVE  ItemsInv'
<1>1. ItemsStay BY SameItems
<1>2. ItemsTypeOK' BY DEF ItemsInv, ItemsTypeOK
<1>3. q = Nothing \/ Checked(q, items') BY <1>1, CheckedStays
<1> QED BY <1>1, <1>2, <1>3, SlotStep, ApartStays DEF ItemsInv

LEMMA FetchStep ==
    ASSUME ItemsInv, NEW r \in Slot, NEW t \in Tenant, NEW i \in Made,
           \/ \E label \in Label \cup {Nothing} : FetchOwn(r, t, i, "update", label)
           \/ FetchOwn(r, t, i, "delete", Nothing)
    PROVE  ItemsInv'
<1>1. PICK op \in {"update", "delete"}, label \in Label \cup {Nothing} : FetchOwn(r, t, i, op, label)
  OBVIOUS
<1> DEFINE q == [op |-> op, item |-> i, read |-> items[i].label, label |-> label]
<1>2. i \in Id /\ items[i] \in Item BY MadeIsInterval, ItemsAssumption DEF ItemsInv, Id
<1>3. Checked(q, items) BY <1>2 DEF Checked, ItemRequest, Item, Made
<1>4. slot' = [slot EXCEPT ![r] = q] /\ UNCHANGED <<items, reactions>>
  BY <1>1 DEF FetchOwn, Take
<1> HIDE DEF q
<1> QED BY <1>3, <1>4, ReadingStep

\* The commit of an update or a delete: one row, and not its tenant.
LEMMA RowStep ==
    ASSUME ItemsInv, NEW r \in Slot, NEW i \in Made, NEW row \in Item,
           row.tenant = items[i].tenant, items' = [items EXCEPT ![i] = row],
           Answer(r), UNCHANGED reactions
    PROVE  ItemsInv'
<1>1. Cardinality(Made) \in Nat /\ Cardinality(Made) <= MaxItem /\ Made = 1..Cardinality(Made)
      /\ items \in [1..Cardinality(Made) -> Item]
  BY MadeIsInterval DEF ItemsInv
<1>2. items' \in [1..Cardinality(Made) -> Item] BY <1>1
<1>3. ItemsTypeOK' BY <1>1, <1>2 DEF ItemsTypeOK
<1>4. Made' = Made BY <1>1, <1>2 DEF Made
<1>5. \A j \in Made : items'[j].tenant = items[j].tenant BY <1>1
<1>6. ItemsStay BY <1>4, <1>5 DEF ItemsStay
<1> QED BY <1>3, <1>6, SlotStep, ApartStays DEF ItemsInv, Answer

LEMMA WriteStep ==
    ASSUME ItemsInv, NEW r \in Slot, UpdateItem(r) \/ DeleteItem(r)
    PROVE  ItemsInv'
<1> DEFINE i == slot[r].item
<1>1. slot[r] \in ItemRequest /\ i \in Made
  BY DoingItem DEF ItemsInv, UpdateItem, DeleteItem
<1>2. items[i] \in Item /\ items \in [Made -> Item] BY <1>1, MadeIsInterval DEF ItemsInv
<1>3. CASE UpdateItem(r)
  <2> DEFINE l == IF slot[r].label \in {Nothing, slot[r].read} THEN items[i].label ELSE slot[r].label
             row == [items[i] EXCEPT !.label = l]
  <2>1. l \in Label BY <1>1, <1>2 DEF ItemRequest, Item
  <2>2. row \in Item /\ row.tenant = items[i].tenant BY <1>2, <2>1 DEF Item
  <2>3. items' = [items EXCEPT ![i] = row] BY <1>2, <1>3 DEF UpdateItem
  <2>4. Answer(r) /\ UNCHANGED reactions BY <1>3 DEF UpdateItem
  <2> HIDE DEF row, i
  <2> QED BY <1>1, <2>2, <2>3, <2>4, RowStep
<1>4. CASE DeleteItem(r)
  <2> DEFINE row == [items[i] EXCEPT !.deleted = TRUE]
  <2>1. row \in Item /\ row.tenant = items[i].tenant BY <1>2 DEF Item
  <2>2. items' = [items EXCEPT ![i] = row] BY <1>2, <1>4 DEF DeleteItem
  <2>3. Answer(r) /\ UNCHANGED reactions BY <1>4 DEF DeleteItem
  <2> HIDE DEF row, i
  <2> QED BY <1>1, <2>1, <2>2, <2>3, RowStep
<1> QED BY <1>3, <1>4

LEMMA ServiceStep ==
    ASSUME ItemsInv, NEW r \in Slot, NEW t \in Tenant, ItemService(r, t)
    PROVE  ItemsInv'
<1>1. CASE Reject(r) BY <1>1, ReadingStep DEF Reject, Answer
<1> QED BY <1>1, CreateStep, FetchStep, WriteStep DEF ItemService

LEMMA FetchReactionStep ==
    ASSUME ItemsInv, NEW r \in Slot, NEW t \in Tenant,
           (\E a, b \in Made : FetchFirst(r, t, a, b)) \/ FetchRelated(r)
    PROVE  ItemsInv'
<1>1. ASSUME NEW a \in Made, NEW b \in Made, FetchFirst(r, t, a, b) PROVE ItemsInv'
  <2> DEFINE q == [op |-> "related", tenant |-> t, from |-> a, to |-> b]
  <2>1. a \in Id /\ b \in Id BY MadeIsInterval, ItemsAssumption DEF ItemsInv, Id
  <2>2. Of(a, t, items) BY <1>1 DEF FetchFirst, Visible, Of, Made
  <2>3. Checked(q, items) BY <2>1, <2>2 DEF Checked, ReactionRequest
  <2>4. slot' = [slot EXCEPT ![r] = q] /\ UNCHANGED <<items, reactions>>
    BY <1>1 DEF FetchFirst, Take
  <2> HIDE DEF q
  <2> QED BY <2>3, <2>4, ReadingStep
<1>2. CASE FetchRelated(r)
  <2> DEFINE q == [slot[r] EXCEPT !.op = "react"]
  <2>1. slot[r] \in ReactionRequest /\ Of(slot[r].from, slot[r].tenant, items)
    BY <1>2, DoingReaction DEF ItemsInv, FetchRelated
  <2>2. Of(slot[r].to, slot[r].tenant, items) /\ slot[r].to # slot[r].from
    BY <1>2 DEF FetchRelated, Visible, Of, Made
  <2>3. q \in ReactionRequest /\ q.from = slot[r].from /\ q.to = slot[r].to
        /\ q.tenant = slot[r].tenant
    BY <2>1 DEF ReactionRequest
  <2>4. slot' = [slot EXCEPT ![r] = q] /\ UNCHANGED <<items, reactions>>
    BY <1>2 DEF FetchRelated
  <2> HIDE DEF q
  <2>5. Checked(q, items) BY <2>1, <2>2, <2>3 DEF Checked
  <2> QED BY <2>4, <2>5, ReadingStep
<1> QED BY <1>1, <1>2

LEMMA AddStep == ASSUME ItemsInv, NEW r \in Slot, AddReaction(r) PROVE ItemsInv'
<1>1. UNCHANGED items /\ reactions' = reactions \cup {Pair(r)} BY DEF AddReaction
<1>2. ItemsTypeOK' /\ ItemsStay BY <1>1, SameItems DEF ItemsInv, ItemsTypeOK
<1>3. slot[r] \in ReactionRequest /\ Of(slot[r].from, slot[r].tenant, items) /\ Of(slot[r].to, slot[r].tenant, items)
  BY DoingReaction DEF ItemsInv, AddReaction
<1>4. PICK i \in Made, j \in Made :
        Pair(r) = <<i, j>> /\ Of(i, slot[r].tenant, items) /\ Of(j, slot[r].tenant, items)
  BY <1>3 DEF Pair, Canonical, Of, Made
<1>5. slot[r].tenant \in Tenant BY <1>3 DEF ReactionRequest
<1>6. \A x \in reactions' : \E a, b \in Made, t \in Tenant \cup {NoTenant} :
        x = <<a, b>> /\ Of(a, t, items) /\ Of(b, t, items)
  BY <1>1, <1>4, <1>5 DEF ItemsInv, ReactionsApart
<1>7. ReactionsApart' BY <1>1, <1>6 DEF ReactionsApart, Of, Made
<1>8. RequestsChecked' BY <1>2, SlotStep DEF ItemsInv, AddReaction, Answer
<1> QED BY <1>2, <1>7, <1>8 DEF ItemsInv

LEMMA RemoveStep == ASSUME ItemsInv, NEW x \in reactions, RemoveReaction(x) PROVE ItemsInv'
<1>1. UNCHANGED <<items, slot>> /\ reactions' \subseteq reactions BY DEF RemoveReaction
<1>2. ItemsStay /\ ItemsTypeOK' BY <1>1, SameItems DEF ItemsInv, ItemsTypeOK
<1>3. RequestsChecked' BY <1>1, <1>2, CheckedStays DEF ItemsInv, RequestsChecked
<1> QED BY <1>1, <1>2, <1>3, ApartStays DEF ItemsInv

LEMMA NextItems == ASSUME ItemsInv, [ItemsNext]_itemsVars PROVE ItemsInv'
<1>1. CASE UNCHANGED itemsVars
  <2>1. ItemsStay /\ ItemsTypeOK' BY <1>1, SameItems DEF itemsVars, ItemsInv, ItemsTypeOK
  <2> QED BY <1>1, <2>1, ApartStays, CheckedStays DEF itemsVars, ItemsInv, RequestsChecked
<1>2. ASSUME NEW r \in Slot, NEW t \in Tenant, AllergenService(r, t) PROVE ItemsInv'
  BY <1>2, ServiceStep, FetchReactionStep, AddStep, RemoveStep DEF AllergenService
<1>3. ASSUME NEW r \in Slot, NEW t \in Tenant,
             \/ BadgeService(r, t) \/ SealService(r, t)
             \/ DietaryProfileService(r, t) \/ CookingMethodService(r, t)
      PROVE  ItemsInv'
  BY <1>3, ServiceStep DEF BadgeService, SealService, DietaryProfileService, CookingMethodService
<1> QED BY <1>1, <1>2, <1>3 DEF ItemsNext

-----------------------------------------------------------------------------
\* The inductive invariant of the catalogs.
THEOREM ItemsInvariant == ItemsSpec => []ItemsInv
BY InitItems, NextItems, PTL DEF ItemsSpec

LEMMA ApartIsWithin == ItemsInv => ReactionsWithinTenant
<1> SUFFICES ASSUME ItemsInv, NEW a \in Made, NEW b \in ReactionsOf(a), items[a].tenant # NoTenant
             PROVE  items[b].tenant \in {items[a].tenant, NoTenant}
  BY DEF ReactionsWithinTenant
<1>1. PICK t \in Tenant \cup {NoTenant} : Of(a, t, items) /\ Of(b, t, items)
  BY DEF ItemsInv, ReactionsApart, ReactionsOf
<1> QED BY <1>1 DEF Of

\* No allergen is ever listed with one of another tenant.
THEOREM ReactionsWithinTenantHolds == ItemsSpec => []ReactionsWithinTenant
BY ApartIsWithin, ItemsInvariant, PTL

\* A request at its commit has fetched two allergens that differ, so the CHECK on
\* their order never fails: the pair put in order is refused only as a duplicate.
LEMMA CheckedPair == ItemsInv => RefusedOnlyIfThere
<1> SUFFICES ASSUME ItemsInv, NEW r \in Slot, Doing(r, "react"), Refused(r)
             PROVE  slot[r].to \in ReactionsOf(slot[r].from)
  BY DEF RefusedOnlyIfThere
<1> DEFINE a == slot[r].from
           b == slot[r].to
<1>1. a \in Made /\ b \in Made /\ a # b BY DoingReaction DEF ItemsInv, Of, Made
<1>2. a \in Nat /\ b \in Nat BY <1>1, MadeIsInterval DEF ItemsInv
<1>3. Pair(r)[1] < Pair(r)[2] /\ Pair(r) \in {<<a, b>>, <<b, a>>}
  BY <1>1, <1>2 DEF Pair, Canonical
<1>4. Pair(r)[1] \in Nat /\ Pair(r)[2] \in Nat BY <1>2, <1>3
<1>5. Pair(r) \in reactions BY <1>3, <1>4 DEF Refused
<1> QED BY <1>1, <1>3, <1>5 DEF ReactionsOf

\* A reaction is refused by the database only when the two already react.
THEOREM RefusedOnlyIfThereHolds == ItemsSpec => []RefusedOnlyIfThere
BY CheckedPair, ItemsInvariant, PTL

-----------------------------------------------------------------------------
(* The filtered menu                                                       *)
(*                                                                         *)
(* A menu is built by three SELECTs.  Between the first and the second a   *)
(* picked product that was not touched is still what the filter chose; after *)
(* the third, an allergen missing from the legend was deleted, and allergens *)
(* do not come back.                                                       *)

ViewTypeOK ==
    /\ dish \in [Dish -> DishRow]
    /\ view = [pc |-> view.pc, free |-> view.free, diets |-> view.diets, picked |-> view.picked,
               shown |-> view.shown, legend |-> view.legend]

\* Before their relations are read.
PickedFits ==
    view.pc = "load" =>
        \A d \in view.picked \ touched :
            /\ \A code \in view.free : ~Marked(dish[d].marks, code, {"contains", "may_contain"})
            /\ view.diets \subseteq dish[d].diets

ShownIsTyped ==
    view.pc \in {"legend", "built"} =>
        \A d \in view.picked : view.shown[d].marks \in Marks

PickedAreDishes == view.pc \in {"load", "legend", "built"} => view.picked \subseteq Dish

ViewInv == ViewTypeOK /\ PickedAreDishes /\ PickedFits /\ ShownIsTyped /\ ShownAsFiltered
             /\ LegendComplete

-----------------------------------------------------------------------------
LEMMA InitView == ViewInit => ViewInv
<1> SUFFICES ASSUME ViewInit PROVE ViewInv OBVIOUS
<1>1. ViewTypeOK BY DEF ViewInit, ViewTypeOK, DishRow, Marks, NoView
<1>2. view.pc = "none" BY DEF ViewInit, NoView
<1> QED BY <1>1, <1>2 DEF ViewInv, PickedAreDishes, PickedFits, ShownIsTyped, ShownAsFiltered,
                          LegendComplete

\* Writes of the dashboard: a product that is written is touched, and no
\* deleted allergen comes back.
LEMMA WriteView ==
    ASSUME ViewInv, ViewTypeOK', UNCHANGED view,
           touched \subseteq touched', noAllergen \subseteq noAllergen',
           \A d \in Dish \ touched' : dish'[d].marks = dish[d].marks /\ dish'[d].diets = dish[d].diets
    PROVE  ViewInv'
<1> USE DEF ViewInv
<1>1. PickedAreDishes' /\ ShownIsTyped' BY DEF PickedAreDishes, ShownIsTyped
<1>2. PickedFits' BY DEF PickedFits, PickedAreDishes, Marked
<1>3. ShownAsFiltered' BY DEF ShownAsFiltered
<1>4. LegendComplete' BY DEF LegendComplete
<1> QED BY <1>1, <1>2, <1>3, <1>4

LEMMA WriteDish ==
    ASSUME ViewInv, NEW d \in Dish, NEW row \in DishRow, Write(d, row)
    PROVE  ViewInv'
<1>1. ViewTypeOK' BY DEF Write, ViewInv, ViewTypeOK
<1>2. \A e \in Dish \ touched' : dish'[e] = dish[e] BY DEF Write, ViewInv, ViewTypeOK
<1>3. UNCHANGED <<view, noAllergen>> /\ touched \subseteq touched' BY DEF Write
<1> QED BY <1>1, <1>2, <1>3, WriteView

LEMMA DashboardView ==
    ASSUME ViewInv, NEW d \in Dish,
           \/ \E marks \in Marks : SetMarks(d, marks)
           \/ \E diets \in SUBSET Diet : SetDiets(d, diets)
           \/ \E stocked \in BOOLEAN : Stock(d, stocked)
           \/ DeleteDish(d)
    PROVE  ViewInv'
<1> USE DEF ViewInv, ViewTypeOK
<1>1. ASSUME NEW marks \in Marks, SetMarks(d, marks) PROVE ViewInv'
  <2>1. [dish[d] EXCEPT !.marks = marks] \in DishRow BY <1>1 DEF DishRow
  <2> QED BY <1>1, <2>1, WriteDish DEF SetMarks
<1>2. ASSUME NEW diets \in SUBSET Diet, SetDiets(d, diets) PROVE ViewInv'
  <2>1. [dish[d] EXCEPT !.diets = diets] \in DishRow BY <1>2 DEF DishRow
  <2> QED BY <1>2, <2>1, WriteDish DEF SetDiets
<1>3. ASSUME NEW stocked \in BOOLEAN, Stock(d, stocked) PROVE ViewInv'
  <2>1. [dish[d] EXCEPT !.stocked = stocked] \in DishRow BY <1>3 DEF DishRow
  <2> QED BY <1>3, <2>1, WriteDish DEF Stock
<1>4. ASSUME DeleteDish(d) PROVE ViewInv'
  <2>1. [dish[d] EXCEPT !.live = FALSE] \in DishRow BY <1>4 DEF DishRow
  <2> QED BY <1>4, <2>1, WriteDish DEF DeleteDish
<1> QED BY <1>1, <1>2, <1>3, <1>4

\* The deletes of an allergen and of the branch.
LEMMA DeleteView ==
    ASSUME ViewInv, (\E a \in Allergen : DeleteAllergen(a)) \/ DeleteBranchRow
    PROVE  ViewInv'
<1> USE DEF ViewInv, ViewTypeOK
<1>1. ASSUME NEW a \in Allergen, DeleteAllergen(a) PROVE ViewInv'
  BY <1>1, WriteView DEF DeleteAllergen
<1>2. ASSUME DeleteBranchRow PROVE ViewInv'
  <2>1. \A d \in Dish : [dish[d] EXCEPT !.live = FALSE] \in DishRow BY DEF DishRow
  <2>2. ViewTypeOK' BY <1>2, <2>1 DEF DeleteBranchRow
  <2>3. UNCHANGED <<view, noAllergen>> /\ Dish \subseteq touched' BY <1>2 DEF DeleteBranchRow
  <2>4. \A d \in Dish :
          dish'[d].marks = dish[d].marks /\ dish'[d].diets = dish[d].diets
    BY <1>2, <2>1 DEF DeleteBranchRow, DishRow
  <2>5. ShownAsFiltered'
    BY <2>3 DEF ShownAsFiltered, PickedAreDishes
  <2>6. PickedAreDishes' /\ ShownIsTyped' /\ LegendComplete' /\ PickedFits'
    BY <2>3 DEF PickedAreDishes, ShownIsTyped, LegendComplete, PickedFits
  <2> QED BY <2>2, <2>5, <2>6
<1> QED BY <1>1, <1>2

-----------------------------------------------------------------------------
(* The build *)

LEMMA StartView ==
    ASSUME ViewInv, NEW diets, NEW free, StartMenu(diets, free) \/ AnswerMenu
    PROVE  ViewInv'
<1>1. CASE StartMenu(diets, free)
  <2>1. view' = [pc |-> "select", free |-> free, diets |-> diets, picked |-> {},
                 shown |-> Absent, legend |-> {}]
    BY <1>1 DEF StartMenu, NoView
  <2> QED BY <1>1, <2>1 DEF ViewInv, ViewTypeOK, StartMenu, PickedAreDishes, PickedFits,
                            ShownIsTyped, ShownAsFiltered, LegendComplete
<1>2. CASE AnswerMenu
  BY <1>2 DEF ViewInv, ViewTypeOK, AnswerMenu, NoView, PickedAreDishes, PickedFits, ShownIsTyped,
              ShownAsFiltered, LegendComplete
<1> QED BY <1>1, <1>2

LEMMA SelectView == ASSUME ViewInv, SelectProducts PROVE ViewInv'
<1> USE DEF ViewInv, SelectProducts
<1>1. ViewTypeOK' BY DEF ViewTypeOK
<1>2. view'.pc = "load" /\ view'.picked = Listed(view.diets, view.free)
      /\ view'.free = view.free /\ view'.diets = view.diets
  BY DEF ViewTypeOK
<1>3. PickedAreDishes' BY <1>2 DEF PickedAreDishes, Listed, Stocked
<1>4. PickedFits' BY <1>2 DEF PickedFits, Listed, HasOrMayHave, Marked
<1> QED BY <1>1, <1>2, <1>3, <1>4 DEF ShownIsTyped, ShownAsFiltered, LegendComplete

LEMMA LoadView == ASSUME ViewInv, LoadRelations PROVE ViewInv'
<1> USE DEF ViewInv, LoadRelations
<1>1. ViewTypeOK' BY DEF ViewTypeOK
<1>2. view'.pc = "legend" /\ view'.picked = view.picked /\ view'.free = view.free
      /\ view'.diets = view.diets /\ UNCHANGED <<dish, touched>>
      /\ view'.shown = [d \in view.picked |-> [marks |-> dish[d].marks, diets |-> dish[d].diets]]
  BY DEF ViewTypeOK
<1>3. PickedAreDishes' BY <1>2 DEF PickedAreDishes
<1>4. \A d \in view'.picked : view'.shown[d].marks = dish[d].marks
                              /\ view'.shown[d].diets = dish[d].diets
  BY <1>2
<1>5. ShownIsTyped' BY <1>2, <1>3, <1>4 DEF ShownIsTyped, PickedAreDishes, ViewTypeOK, DishRow
<1>6. ShownAsFiltered' BY <1>2, <1>4 DEF ShownAsFiltered, PickedFits
<1> QED BY <1>1, <1>2, <1>3, <1>5, <1>6 DEF PickedFits, LegendComplete

LEMMA LegendView == ASSUME ViewInv, SelectLegend PROVE ViewInv'
<1> USE DEF ViewInv, SelectLegend
<1>1. ViewTypeOK' BY DEF ViewTypeOK
<1>2. view'.pc = "built" /\ view'.legend = CodesShown \cap AllergenCatalog
      /\ view'.picked = view.picked /\ view'.shown = view.shown /\ view'.free = view.free
      /\ view'.diets = view.diets /\ UNCHANGED <<touched, noAllergen>>
  BY DEF ViewTypeOK
<1>3. PickedAreDishes' /\ ShownIsTyped' /\ PickedFits' /\ ShownAsFiltered'
  BY <1>2 DEF PickedAreDishes, ShownIsTyped, PickedFits, ShownAsFiltered
<1>4. ASSUME NEW d \in view.picked, NEW a \in Allergen, view.shown[d].marks[a] # Absent,
             CodeOf[a] \notin view'.legend, NEW x \in Allergen, CodeOf[x] = CodeOf[a]
      PROVE  x \in noAllergen
  <2>1. view.shown[d].marks[a] \in Presence BY <1>4 DEF ShownIsTyped, Marks
  <2>2. CodeOf[a] \in CodesShown BY <1>4, <2>1, ViewAssumption DEF CodesShown, Marked
  <2>3. CodeOf[x] \notin AllergenCatalog BY <1>2, <1>4, <2>2
  <2> QED BY <1>4, <2>3 DEF AllergenCatalog
<1>5. LegendComplete' BY <1>2, <1>4 DEF LegendComplete
<1> QED BY <1>1, <1>3, <1>5

LEMMA NextView == ASSUME ViewInv, [ViewNext]_viewVars PROVE ViewInv'
<1>1. CASE UNCHANGED viewVars
  BY <1>1 DEF viewVars, ViewInv, ViewTypeOK, PickedAreDishes, PickedFits, ShownIsTyped,
              ShownAsFiltered, LegendComplete
<1> QED BY <1>1, DashboardView, DeleteView, StartView, SelectView, LoadView, LegendView DEF ViewNext

-----------------------------------------------------------------------------
\* The inductive invariant of the building of a menu.
THEOREM ViewInvariant == ViewSpec => []ViewInv
BY InitView, NextView, PTL DEF ViewSpec

\* A filtered menu shows only products that pass the filter, or that were
\* written while it was being built.
THEOREM ShownAsFilteredHolds == ViewSpec => []ShownAsFiltered
<1>1. ViewInv => ShownAsFiltered BY DEF ViewInv
<1> QED BY <1>1, ViewInvariant, PTL

\* The legend of a menu explains every allergen the menu names and that is not
\* deleted.
THEOREM LegendCompleteHolds == ViewSpec => []LegendComplete
<1>1. ViewInv => LegendComplete BY DEF ViewInv
<1> QED BY <1>1, ViewInvariant, PTL

=============================================================================
