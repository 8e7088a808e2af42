--------------------------- MODULE DashboardList ----------------------------
(***************************************************************************)
(* A list page of the dashboard: dashboard/src/hooks/useCrud.ts as the     *)
(* pages use it (dashboard/src/pages/CategoriesPage.tsx), with the         *)
(* confirmation dialog of dashboard/src/stores/ui.store.ts.                *)
(*                                                                         *)
(* The list is fetched again whenever the selected branch or page changes, *)
(* and after each write by the refresh of the render the write was started *)
(* from: for the selection of then.  Nothing orders the answers or drops   *)
(* the late ones.                                                          *)
(***************************************************************************)
EXTENDS Naturals

CONSTANTS
    Shop,       \* branches of the selector
    LastPage,   \* bound on the pages of a list
    Flight,     \* bound: slots for the calls of the page
    Landed,     \* an empty slot, no list, no dialog
    MaxSaves    \* bound on the writes started

Selection == [branch : Shop, page : 1..LastPage]

\* A call for a selection; again: a refresh follows its refresh; state: of the
\* table when the API served it.
CallRecord == [do : {"fetch", "write"}, for : Selection, again : BOOLEAN, state : Nat \cup {Landed}]

ASSUME ListAssumption ==
    /\ LastPage \in Nat \ {0} /\ MaxSaves \in Nat
    /\ Landed \notin Selection \cup CallRecord /\ Landed \notin [of : Selection, state : Nat]
    /\ Landed \notin Nat

VARIABLES
    selected,  \* the branch of the selector, the page of the pagination
    list,      \* items: what they are the list of, and of which state of the table
    isLoading,
    failed,    \* error is not null
    dialog,    \* the selection at the click that opened the confirmation, or Landed
    pending,   \* calls under way
    table,     \* the API's table: how many writes it has had
    saved,     \* the state of the table at the last write this page knows of
    saves,     \* how many writes were started
    muddled    \* history: since the last fetch that was alone when it began, calls
               \* overlapped or a write was for another selection

listVars == <<selected, list, isLoading, failed, dialog, pending, table, saved, saves, muddled>>

Flying == {f \in Flight : pending[f] # Landed}

Fetch(view, again) == [do |-> "fetch", for |-> view, again |-> again, state |-> Landed]

Change(view, again) == [do |-> "write", for |-> view, again |-> again, state |-> Landed]

\* Whether the answers of other calls may come between.
Overlaps == Flying # {}

\* The page is mounted and its effect fetches the first list.
ListInit ==
    /\ \E b \in Shop, f \in Flight :
         /\ selected = [branch |-> b, page |-> 1]
         /\ pending = [g \in Flight |-> IF g = f THEN Fetch(selected, FALSE) ELSE Landed]
    /\ list = Landed
    /\ isLoading = TRUE /\ failed = FALSE
    /\ dialog = Landed
    /\ table = 0 /\ saved = 0 /\ saves = 0
    /\ muddled = FALSE

-----------------------------------------------------------------------------
(* What the user does *)

OnlyPage(old, new) == old.page # new.page

\* The dependencies of the effect: the page, and the branch by way of fetchFn.
Refetches(old, new) == old # new

\* Another page or branch: the effect calls refresh.  The page number is kept
\* when the branch changes.
Select(f, s) ==
    /\ s # selected
    /\ selected' = s
    /\ IF Refetches(selected, s)
       THEN /\ pending[f] = Landed
            /\ pending' = [pending EXCEPT ![f] = Fetch(s, FALSE)]
            /\ isLoading' = TRUE /\ failed' = FALSE
       ELSE UNCHANGED <<pending, isLoading, failed>>
    /\ muddled' = Overlaps
    /\ UNCHANGED <<list, dialog, table, saved, saves>>

\* "Reintentar", next to the error.
Retry(f) ==
    /\ failed
    /\ pending[f] = Landed
    /\ pending' = [pending EXCEPT ![f] = Fetch(selected, FALSE)]
    /\ isLoading' = TRUE /\ failed' = FALSE
    /\ muddled' = Overlaps
    /\ UNCHANGED <<selected, list, dialog, table, saved, saves>>

Send(f, view, again) ==
    /\ pending[f] = Landed
    /\ saves < MaxSaves
    /\ saves' = saves + 1
    /\ pending' = [pending EXCEPT ![f] = Change(view, again)]
    /\ muddled' = (muddled \/ Overlaps \/ view # selected)
    /\ UNCHANGED <<selected, list, isLoading, failed, table, saved>>

\* The form is submitted: create or update, after which handleFormSuccess
\* refreshes the list once more.
Submit(f) == Send(f, selected, TRUE) /\ UNCHANGED dialog

\* handleDelete: a second dialog takes the place of the first.
AskDelete ==
    /\ dialog' = selected
    /\ UNCHANGED <<selected, list, isLoading, failed, pending, table, saved, saves, muddled>>

\* onConfirm: remove is the one of the render of the click.
ConfirmDelete(f) ==
    /\ dialog # Landed
    /\ dialog' = Landed
    /\ Send(f, dialog, FALSE)

CancelDelete ==
    /\ dialog # Landed
    /\ dialog' = Landed
    /\ UNCHANGED <<selected, list, isLoading, failed, pending, table, saved, saves, muddled>>

-----------------------------------------------------------------------------
(* The API and its answers *)

Serve(f) ==
    /\ pending[f] # Landed /\ pending[f].state = Landed
    /\ table' = IF pending[f].do = "write" THEN table + 1 ELSE table
    /\ pending' = [pending EXCEPT ![f].state = table']
    /\ UNCHANGED <<selected, list, isLoading, failed, dialog, saved, saves, muddled>>

\* The end of a refresh: handleFormSuccess may start the next.
Land(f, error) ==
    IF pending[f].again
    THEN /\ pending' = [pending EXCEPT ![f] = Fetch(pending[f].for, FALSE)]
         /\ isLoading' = TRUE /\ failed' = FALSE
    ELSE /\ pending' = [pending EXCEPT ![f] = Landed]
         /\ isLoading' = FALSE /\ failed' = error

Listed(f) ==
    /\ pending[f] # Landed /\ pending[f].do = "fetch" /\ pending[f].state # Landed
    /\ list' = [of |-> pending[f].for, state |-> pending[f].state]
    /\ Land(f, failed)
    /\ UNCHANGED <<selected, dialog, table, saved, saves, muddled>>

ErrorKeepsLoading(f) ==
    /\ pending[f] # Landed /\ pending[f].do = "fetch"
    /\ pending' = [pending EXCEPT ![f] = Landed]
    /\ failed' = TRUE
    /\ UNCHANGED <<selected, list, isLoading, dialog, table, saved, saves, muddled>>

\* The items of before stay, under the error.
FetchFails(f) ==
    /\ pending[f] # Landed /\ pending[f].do = "fetch"
    /\ Land(f, TRUE)
    /\ UNCHANGED <<selected, list, dialog, table, saved, saves, muddled>>

\* create, update or remove goes on to its refresh.
WriteDone(f) ==
    /\ pending[f] # Landed /\ pending[f].do = "write" /\ pending[f].state # Landed
    /\ saved' = pending[f].state
    /\ pending' = [pending EXCEPT ![f] = Fetch(pending[f].for, pending[f].again)]
    /\ isLoading' = TRUE /\ failed' = FALSE
    /\ UNCHANGED <<selected, list, dialog, table, saves, muddled>>

\* The write is refused, or its answer lost; create and update return null
\* instead of throwing, so the form closes and refreshes all the same.
WriteFails(f) ==
    /\ pending[f] # Landed /\ pending[f].do = "write"
    /\ IF pending[f].again
       THEN /\ pending' = [pending EXCEPT ![f] = Fetch(pending[f].for, FALSE)]
            /\ isLoading' = TRUE /\ failed' = FALSE
       ELSE /\ pending' = [pending EXCEPT ![f] = Landed]
            /\ UNCHANGED <<isLoading, failed>>
    /\ UNCHANGED <<selected, list, dialog, table, saved, saves, muddled>>

ListNext ==
    \/ \E f \in Flight :
         \/ \E s \in Selection : Select(f, s)
         \/ Retry(f)
         \/ Submit(f)
         \/ ConfirmDelete(f)
         \/ Serve(f)
         \/ Listed(f)
         \/ FetchFails(f)
         \/ WriteDone(f)
         \/ WriteFails(f)
    \/ AskDelete
    \/ CancelDelete

ListSpec == ListInit /\ [][ListNext]_listVars

-----------------------------------------------------------------------------
(* Properties *)

\* Once everything is answered and no error is shown, the table is the one of
\* the selected branch and page and has what the page saved: only calls that
\* overlapped, or a write begun under another selection, can leave a wrong one.
SettledListIsRight ==
    Flying = {} /\ ~failed /\ ~muddled
        => list # Landed /\ list.of = selected /\ list.state >= saved

\* The skeleton rows are never there for ever: while they are shown a fetch is
\* under way whose end, either way, takes them off.
SkeletonEnds == isLoading => \E f \in Flying : pending[f].do = "fetch"
=============================================================================
