------------------------------ MODULE MenuView ------------------------------
(***************************************************************************)
(* The menu of one branch as the public API builds it: _build_menu of      *)
(* rest_api/app/services/domain/public_menu_service.py (PublicCache has    *)
(* the cache in front of it).                                              *)
(*                                                                         *)
(* A menu is put together from several SELECTs at READ COMMITTED: the      *)
(* first filters the products, later ones read their allergens, their      *)
(* diets and the legend, and the dashboard may write in between.           *)
(* Product.is_available, which the filter looks at too, is never written.  *)
(***************************************************************************)
EXTENDS Naturals, FiniteSets

CONSTANTS
    Dish,      \* products
    Allergen,
    AllergenCode,
    CodeOf,    \* the code of an allergen: a tenant's may be that of a system one
    Diet,      \* dietary profiles, by code
    MaxWritten,\* bound on the writes of the dashboard
    Absent     \* no row

ASSUME ViewAssumption == CodeOf \in [Allergen -> AllergenCode] /\ MaxWritten \in Nat

Presence == {"contains", "may_contain", "free_of"}

VARIABLES
    branchLive,   \* the branch has no deleted_at
    dish,         \* products with their rows of branch_products and product_*
    noAllergen,   \* allergens with deleted_at set
    view,         \* a menu being built
    touched,      \* history: dishes written since the build's first SELECT
    written       \* how many writes the dashboard made

viewVars == <<branchLive, dish, noAllergen, view, touched, written>>

Marks == [Allergen -> Presence \cup {Absent}]

\* live: no deleted_at; stocked: is_available of the branch's row, if there is one.
DishRow == [live : BOOLEAN, stocked : BOOLEAN \cup {Absent}, marks : Marks, diets : SUBSET Diet]

NoView == [pc |-> "none", free |-> {}, diets |-> {}, picked |-> {}, shown |-> Absent,
           legend |-> {}]

ViewInit ==
    /\ branchLive = TRUE
    /\ dish = [d \in Dish |-> [live |-> TRUE, stocked |-> TRUE,
                               marks |-> [a \in Allergen |-> Absent], diets |-> {}]]
    /\ noAllergen = {}
    /\ view = NoView
    /\ touched = {}
    /\ written = 0

-----------------------------------------------------------------------------
(* The dashboard *)

Write(d, row) ==
    /\ written < MaxWritten /\ written' = written + 1
    /\ dish[d].live
    /\ dish' = [dish EXCEPT ![d] = row]
    /\ touched' = touched \cup {d}
    /\ UNCHANGED <<branchLive, noAllergen, view>>

\* set_allergens and set_dietary_profiles (ProductDetails).
SetMarks(d, marks) == Write(d, [dish[d] EXCEPT !.marks = marks])

SetDiets(d, diets) == Write(d, [dish[d] EXCEPT !.diets = diets])

\* toggle_availability and bulk_upsert (BranchPricing).
Stock(d, stocked) == Write(d, [dish[d] EXCEPT !.stocked = stocked])

DeleteDish(d) == Write(d, [dish[d] EXCEPT !.live = FALSE])

\* AllergenService.delete: the marks of the products stay.
DeleteAllergen(a) ==
    /\ written < MaxWritten /\ written' = written + 1
    /\ noAllergen' = noAllergen \cup {a}
    /\ UNCHANGED <<branchLive, dish, view, touched>>

\* BranchService.delete, whose cascade deletes the products of the branch.
DeleteBranchRow ==
    /\ written < MaxWritten /\ written' = written + 1
    /\ branchLive' = FALSE
    /\ dish' = [d \in Dish |-> [dish[d] EXCEPT !.live = FALSE]]
    /\ touched' = Dish
    /\ UNCHANGED <<noAllergen, view>>

-----------------------------------------------------------------------------
(* What one SELECT finds *)

Stocked == {d \in Dish : dish[d].live /\ dish[d].stocked = TRUE}

\* Codes are compared, whatever tenant the allergen is of and deleted or not.
Marked(marks, code, how) == \E a \in Allergen : CodeOf[a] = code /\ marks[a] \in how

HasForSure(d, code) == Marked(dish[d].marks, code, {"contains"})

HasOrMayHave(d, code) == Marked(dish[d].marks, code, {"contains", "may_contain"})

\* The products of a menu: every diet asked for, no allergen to be kept out.
Listed(diets, free) ==
    {d \in Stocked : /\ diets \subseteq dish[d].diets
                     /\ \A code \in free : ~HasOrMayHave(d, code)}

\* The allergens a legend may explain.
AllergenCatalog == {CodeOf[a] : a \in Allergen \ noAllergen}

-----------------------------------------------------------------------------
(* _build_menu *)

\* get_menu with its filters; _get_branch_by_slug finds the branch.
StartMenu(diets, free) ==
    /\ view.pc = "none"
    /\ branchLive
    /\ view' = [NoView EXCEPT !.pc = "select", !.diets = diets, !.free = free]
    /\ touched' = {}
    /\ UNCHANGED <<branchLive, dish, noAllergen, written>>

\* The product query with both filters.
SelectProducts ==
    /\ view.pc = "select"
    /\ view' = [view EXCEPT !.pc = "load", !.picked = Listed(view.diets, view.free)]
    /\ touched' = {}
    /\ UNCHANGED <<branchLive, dish, noAllergen, written>>

\* The relations of the products are read by SELECTs of their own.
LoadRelations ==
    /\ view.pc = "load"
    /\ view' = [view EXCEPT !.pc = "legend",
                            !.shown = [d \in view.picked |-> [marks |-> dish[d].marks,
                                                              diets |-> dish[d].diets]]]
    /\ UNCHANGED <<branchLive, dish, noAllergen, touched, written>>

CodesContained == {code \in AllergenCode :
                     \E d \in view.picked : Marked(view.shown[d].marks, code, {"contains"})}

CodesShown == {code \in AllergenCode :
                 \E d \in view.picked : Marked(view.shown[d].marks, code, Presence)}

SelectLegend ==
    /\ view.pc = "legend"
    /\ view' = [view EXCEPT !.pc = "built", !.legend = CodesShown \cap AllergenCatalog]
    /\ UNCHANGED <<branchLive, dish, noAllergen, touched, written>>

AnswerMenu ==
    /\ view.pc = "built"
    /\ view' = NoView
    /\ UNCHANGED <<branchLive, dish, noAllergen, touched, written>>

ViewNext ==
    \/ \E d \in Dish :
         \/ \E marks \in Marks : SetMarks(d, marks)
         \/ \E diets \in SUBSET Diet : SetDiets(d, diets)
         \/ \E stocked \in BOOLEAN : Stock(d, stocked)
         \/ DeleteDish(d)
    \/ \E a \in Allergen : DeleteAllergen(a)
    \/ DeleteBranchRow
    \/ \E diets \in SUBSET Diet, free \in SUBSET AllergenCode : StartMenu(diets, free)
    \/ SelectProducts
    \/ LoadRelations
    \/ SelectLegend
    \/ AnswerMenu

ViewSpec == ViewInit /\ [][ViewNext]_viewVars

-----------------------------------------------------------------------------
(* Properties *)

\* A menu without an allergen shows no product as containing it or perhaps
\* containing it, and one for a diet shows no product without the diet, except
\* a product that was written while the menu was being built.
ShownAsFiltered ==
    view.pc \in {"legend", "built"} =>
        \A d \in view.picked \ touched :
            /\ \A code \in view.free : ~Marked(view.shown[d].marks, code, {"contains", "may_contain"})
            /\ view.diets \subseteq view.shown[d].diets

\* Every allergen a menu names, as contained, possible or absent, is explained
\* by its legend, unless all the allergens of its code are deleted.
LegendComplete ==
    view.pc = "built" =>
        \A d \in view.picked, a \in Allergen :
            view.shown[d].marks[a] # Absent /\ CodeOf[a] \notin view.legend
              => {x \in Allergen : CodeOf[x] = CodeOf[a]} \subseteq noAllergen
=============================================================================
