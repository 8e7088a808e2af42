-------------------------- MODULE DashboardProofs ---------------------------
(***************************************************************************)
(* The dashboard: a list page settles right, for any branches, pages and   *)
(* number of calls; and, for every number of tabs, calls and tokens, no    *)
(* call is forgotten in the queue, no tab keeps a token that nothing will  *)
(* renew, the retries of a burst end, and the cookie stops working only    *)
(* for a reason.                                                           *)
(***************************************************************************)
EXTENDS DashboardList, SessionClient, FiniteSetTheorems, TLAPS

-----------------------------------------------------------------------------
(* The list pages                                                          *)
(*                                                                         *)
(* As long as nothing is muddled at most one call is under way, and it is for *)
(* the selection; a fetch that was served has the rows of what the page last *)
(* saved, and while no fetch is under way the list has them or an error says *)
(* so.                                                                     *)

ListTypeOK ==
    /\ selected \in Selection
    /\ list \in {Landed} \cup [of : Selection, state : Nat]
    /\ isLoading \in BOOLEAN /\ failed \in BOOLEAN /\ muddled \in BOOLEAN
    /\ dialog \in Selection \cup {Landed}
    /\ pending \in [Flight -> CallRecord \cup {Landed}]
    /\ table \in Nat /\ saved \in Nat /\ saves \in Nat

\* The page has not been told of a write that was not made.
SavedIsMade ==
    /\ saved <= table
    /\ \A f \in Flying : pending[f].state # Landed => pending[f].state <= table

\* At most one call, and for the selection.
OneAtMost ==
    ~muddled => /\ \A f, g \in Flying : f = g
                /\ \A f \in Flying : pending[f].for = selected

\* What a fetch was served has what was saved.
ServedIsFresh ==
    ~muddled => \A f \in Flying :
                  pending[f].do = "fetch" /\ pending[f].state # Landed => pending[f].state >= saved

\* The list is right while no fetch is under way.
RightBetweenFetches ==
    ~muddled /\ ~failed /\ (\A f \in Flying : pending[f].do = "write")
        => list # Landed /\ list.of = selected /\ list.state >= saved

ListInv == ListTypeOK /\ SavedIsMade /\ OneAtMost /\ ServedIsFresh /\ RightBetweenFetches
             /\ SkeletonEnds

-----------------------------------------------------------------------------
LEMMA CallsAreNotLanded ==
    ASSUME NEW view \in Selection, NEW again \in BOOLEAN
    PROVE  /\ Fetch(view, again) \in CallRecord /\ Change(view, again) \in CallRecord
           /\ Fetch(view, again) # Landed /\ Change(view, again) # Landed
BY ListAssumption DEF Fetch, Change, CallRecord

LEMMA InitList == ListInit => ListInv
<1> SUFFICES ASSUME ListInit PROVE ListInv OBVIOUS
<1>1. PICK b \in Shop, f \in Flight :
        /\ selected = [branch |-> b, page |-> 1]
        /\ pending = [g \in Flight |-> IF g = f THEN Fetch(selected, FALSE) ELSE Landed]
  BY DEF ListInit
<1>2. selected \in Selection BY <1>1, ListAssumption DEF Selection
<1>3. Fetch(selected, FALSE) \in CallRecord /\ Fetch(selected, FALSE) # Landed
  BY <1>2, CallsAreNotLanded
<1>4. ListTypeOK BY <1>1, <1>2, <1>3 DEF ListInit, ListTypeOK
<1>5. Flying = {f} BY <1>1, <1>3 DEF Flying
<1>6. pending[f] = Fetch(selected, FALSE) BY <1>1
<1>7. SavedIsMade /\ OneAtMost /\ ServedIsFresh /\ RightBetweenFetches /\ SkeletonEnds
  BY <1>5, <1>6 DEF ListInit, Fetch, SavedIsMade, OneAtMost, ServedIsFresh, RightBetweenFetches,
                    SkeletonEnds
<1> QED BY <1>4, <1>7 DEF ListInv

\* The calls after the slot of one of them was given to another call.
LEMMA FlyingWith ==
    ASSUME pending \in [Flight -> CallRecord \cup {Landed}], NEW f \in Flight, NEW c \in CallRecord,
           pending' = [pending EXCEPT ![f] = c]
    PROVE  /\ pending' \in [Flight -> CallRecord \cup {Landed}]
           /\ Flying' = Flying \cup {f}
           /\ pending'[f] = c
           /\ \A g \in Flying' \ {f} : g \in Flying /\ pending'[g] = pending[g]
BY ListAssumption DEF Flying

LEMMA FlyingWithout ==
    ASSUME pending \in [Flight -> CallRecord \cup {Landed}], NEW f \in Flight,
           pending' = [pending EXCEPT ![f] = Landed]
    PROVE  /\ pending' \in [Flight -> CallRecord \cup {Landed}]
           /\ Flying' = Flying \ {f}
           /\ \A g \in Flying' : g \in Flying /\ pending'[g] = pending[g]
BY DEF Flying

-----------------------------------------------------------------------------
(* The user *)

\* Another selection, or a retry: a fetch of what is now selected.
LEMMA FetchStep ==
    ASSUME ListInv, NEW f \in Flight, pending[f] = Landed, selected' \in Selection,
           pending' = [pending EXCEPT ![f] = Fetch(selected', FALSE)],
           isLoading' = TRUE, failed' = FALSE, muddled' = Overlaps,
           UNCHANGED <<list, dialog, table, saved, saves>>
    PROVE  ListInv'
<1> USE DEF ListInv
<1>1. Fetch(selected', FALSE) \in CallRecord BY CallsAreNotLanded
<1>2. /\ pending' \in [Flight -> CallRecord \cup {Landed}]
      /\ Flying' = Flying \cup {f}
      /\ pending'[f] = Fetch(selected', FALSE)
      /\ \A g \in Flying' \ {f} : g \in Flying /\ pending'[g] = pending[g]
  BY <1>1, FlyingWith DEF ListTypeOK
<1>3. ListTypeOK' BY <1>2 DEF ListTypeOK, Overlaps
<1>4. pending'[f].do = "fetch" /\ pending'[f].for = selected' /\ pending'[f].state = Landed
  BY <1>2 DEF Fetch
<1>5. ~muddled' => Flying' = {f} BY <1>2 DEF Overlaps
<1>6. SavedIsMade' BY <1>2, <1>4 DEF SavedIsMade
<1>7. OneAtMost' /\ ServedIsFresh' BY <1>4, <1>5 DEF OneAtMost, ServedIsFresh
<1>8. RightBetweenFetches' /\ SkeletonEnds' BY <1>2, <1>4 DEF RightBetweenFetches, SkeletonEnds
<1> QED BY <1>3, <1>6, <1>7, <1>8

LEMMA SelectStep ==
    ASSUME ListInv, NEW f \in Flight,
           (\E s \in Selection : Select(f, s)) \/ Retry(f)
    PROVE  ListInv'
<1>1. CASE Retry(f)
  BY <1>1, FetchStep DEF Retry, ListInv, ListTypeOK
<1>2. ASSUME NEW s \in Selection, Select(f, s) PROVE ListInv'
  BY <1>2, FetchStep DEF Select, Refetches
<1> QED BY <1>1, <1>2

LEMMA SendStep ==
    ASSUME ListInv, NEW f \in Flight, NEW view \in Selection, NEW again \in BOOLEAN,
           Send(f, view, again), dialog' \in Selection \cup {Landed}
    PROVE  ListInv'
<1> USE DEF ListInv
<1>1. Change(view, again) \in CallRecord BY CallsAreNotLanded
<1>2. pending[f] = Landed /\ pending' = [pending EXCEPT ![f] = Change(view, again)]
      /\ muddled' = (muddled \/ Overlaps \/ view # selected)
      /\ UNCHANGED <<selected, list, isLoading, failed, table, saved>> /\ saves' = saves + 1
  BY DEF Send
<1>3. /\ pending' \in [Flight -> CallRecord \cup {Landed}]
      /\ Flying' = Flying \cup {f}
      /\ pending'[f] = Change(view, again)
      /\ \A g \in Flying' \ {f} : g \in Flying /\ pending'[g] = pending[g]
  BY <1>1, <1>2, FlyingWith DEF ListTypeOK
<1>4. ListTypeOK' BY <1>2, <1>3 DEF ListTypeOK, Overlaps
<1>5. pending'[f].do = "write" /\ pending'[f].for = view /\ pending'[f].state = Landed
  BY <1>3 DEF Change
<1>6. ~muddled' => ~muddled /\ Flying' = {f} /\ Flying = {} /\ view = selected
  BY <1>2, <1>3 DEF Overlaps
<1>7. SavedIsMade' BY <1>2, <1>3, <1>5 DEF SavedIsMade
<1>8. OneAtMost' /\ ServedIsFresh' BY <1>2, <1>5, <1>6 DEF OneAtMost, ServedIsFresh
<1>9. RightBetweenFetches' BY <1>2, <1>6 DEF RightBetweenFetches
<1>10. f \notin Flying BY <1>2 DEF Flying
<1>11. SkeletonEnds' BY <1>2, <1>3, <1>10 DEF SkeletonEnds
<1> QED BY <1>4, <1>7, <1>8, <1>9, <1>11

\* The dialog is opened or closed.
LEMMA DialogStep ==
    ASSUME ListInv, dialog' \in Selection \cup {Landed},
           UNCHANGED <<selected, list, isLoading, failed, pending, table, saved, saves, muddled>>
    PROVE  ListInv'
BY DEF ListInv, ListTypeOK, SavedIsMade, OneAtMost, ServedIsFresh, RightBetweenFetches,
       SkeletonEnds, Flying

LEMMA UserStep ==
    ASSUME ListInv, (\E f \in Flight : Submit(f) \/ ConfirmDelete(f)) \/ AskDelete \/ CancelDelete
    PROVE  ListInv'
<1>1. ASSUME NEW f \in Flight, Submit(f) PROVE ListInv'
  BY <1>1, SendStep DEF Submit, ListInv, ListTypeOK
<1>2. ASSUME NEW f \in Flight, ConfirmDelete(f) PROVE ListInv'
  BY <1>2, SendStep DEF ConfirmDelete, ListInv, ListTypeOK
<1>3. CASE AskDelete \/ CancelDelete
  BY <1>3, DialogStep DEF AskDelete, CancelDelete, ListInv, ListTypeOK
<1> QED BY <1>1, <1>2, <1>3

-----------------------------------------------------------------------------
(* The API and its answers *)

LEMMA ServeStep == ASSUME ListInv, NEW f \in Flight, Serve(f) PROVE ListInv'
<1> USE DEF ListInv
<1> DEFINE c == [pending[f] EXCEPT !.state = table']
<1>1. pending[f] \in CallRecord /\ pending[f].state = Landed /\ table' \in Nat /\ table <= table'
      /\ UNCHANGED <<selected, list, isLoading, failed, dialog, saved, saves, muddled>>
  BY DEF Serve, ListTypeOK
<1>2. c \in CallRecord /\ c.do = pending[f].do /\ c.for = pending[f].for /\ c.state = table'
  BY <1>1 DEF CallRecord
<1>3. pending' = [pending EXCEPT ![f] = c] BY DEF Serve
<1> HIDE DEF c
<1>4. /\ pending' \in [Flight -> CallRecord \cup {Landed}]
      /\ Flying' = Flying \cup {f}
      /\ pending'[f] = c
      /\ \A g \in Flying' \ {f} : g \in Flying /\ pending'[g] = pending[g]
  BY <1>2, <1>3, FlyingWith DEF ListTypeOK
<1>5. f \in Flying /\ Flying' = Flying BY <1>1, <1>4, ListAssumption DEF Flying
<1>6. ListTypeOK' BY <1>1, <1>4 DEF ListTypeOK
<1>7. \A g \in Flying : pending'[g].do = pending[g].do /\ pending'[g].for = pending[g].for
  BY <1>2, <1>4, <1>5
<1>8. SavedIsMade'
  <2>1. saved' <= table' BY <1>1 DEF SavedIsMade, ListTypeOK
  <2>2. ASSUME NEW g \in Flying', pending'[g].state # Landed PROVE pending'[g].state <= table'
    <3>1. CASE g = f BY <1>1, <1>2, <1>4, <3>1
    <3>2. CASE g # f
      <4>1. g \in Flying /\ pending'[g] = pending[g] BY <1>4, <3>2
      <4>2. pending[g].state \in Nat BY <4>1, <2>2 DEF Flying, ListTypeOK, CallRecord
      <4> QED BY <1>1, <2>2, <4>1, <4>2 DEF SavedIsMade, ListTypeOK
    <3> QED BY <3>1, <3>2
  <2> QED BY <2>1, <2>2 DEF SavedIsMade
<1>9. OneAtMost' BY <1>1, <1>5, <1>7 DEF OneAtMost
<1>10. ServedIsFresh'
  BY <1>1, <1>2, <1>4, <1>5, <1>8 DEF ServedIsFresh, SavedIsMade
<1>11. RightBetweenFetches' BY <1>1, <1>5, <1>7 DEF RightBetweenFetches
<1>12. SkeletonEnds' BY <1>1, <1>5, <1>7 DEF SkeletonEnds
<1> QED BY <1>6, <1>8, <1>9, <1>10, <1>11, <1>12

\* A call of the same selection follows the one of the slot: a fetch.
LEMMA FollowStep ==
    ASSUME ListInv, NEW f \in Flying, NEW again \in BOOLEAN,
           pending' = [pending EXCEPT ![f] = Fetch(pending[f].for, again)],
           isLoading' = TRUE, failed' = FALSE, UNCHANGED <<selected, dialog, table, saves, muddled>>,
           list' \in {Landed} \cup [of : Selection, state : Nat],
           saved' \in Nat, saved' <= table, saved' = saved \/ \A g \in Flying : muddled \/ g = f
    PROVE  ListInv'
<1> USE DEF ListInv
<1> DEFINE c == Fetch(pending[f].for, again)
<1>1. f \in Flight /\ pending[f] \in CallRecord BY DEF Flying, ListTypeOK
<1>2. c \in CallRecord BY <1>1, CallsAreNotLanded DEF CallRecord
<1>3. c.do = "fetch" /\ c.for = pending[f].for /\ c.state = Landed BY DEF Fetch
<1> HIDE DEF c
<1>4. pending' = [pending EXCEPT ![f] = c] BY DEF c
<1>5. /\ pending' \in [Flight -> CallRecord \cup {Landed}]
      /\ Flying' = Flying \cup {f}
      /\ pending'[f] = c
      /\ \A g \in Flying' \ {f} : g \in Flying /\ pending'[g] = pending[g]
  BY <1>1, <1>2, <1>4, FlyingWith DEF ListTypeOK
<1>6. ListTypeOK' BY <1>5 DEF ListTypeOK
<1>7. SavedIsMade' BY <1>3, <1>5 DEF SavedIsMade
<1>8. OneAtMost' BY <1>3, <1>5 DEF OneAtMost
<1>9. ServedIsFresh' BY <1>3, <1>5 DEF ServedIsFresh, OneAtMost
<1>10. RightBetweenFetches' /\ SkeletonEnds' BY <1>3, <1>5 DEF RightBetweenFetches, SkeletonEnds
<1> QED BY <1>6, <1>7, <1>8, <1>9, <1>10

\* The slot is free again.
LEMMA FreeStep ==
    ASSUME ListInv, NEW f \in Flying, pending' = [pending EXCEPT ![f] = Landed],
           UNCHANGED <<selected, dialog, table, saved, saves, muddled>>,
           list' \in {Landed} \cup [of : Selection, state : Nat],
           isLoading' \in BOOLEAN, failed' \in BOOLEAN,
           isLoading' => isLoading /\ pending[f].do = "write",
           ~muddled /\ ~failed' => list' # Landed /\ list'.of = selected /\ list'.state >= saved
    PROVE  ListInv'
<1> USE DEF ListInv
<1>1. /\ pending' \in [Flight -> CallRecord \cup {Landed}]
      /\ Flying' = Flying \ {f}
      /\ \A g \in Flying' : g \in Flying /\ pending'[g] = pending[g]
  BY FlyingWithout DEF ListTypeOK, Flying
<1>2. ListTypeOK' BY <1>1 DEF ListTypeOK
<1>3. SavedIsMade' /\ OneAtMost' /\ ServedIsFresh'
  BY <1>1 DEF SavedIsMade, OneAtMost, ServedIsFresh
<1>4. RightBetweenFetches' BY DEF RightBetweenFetches
<1>5. SkeletonEnds' BY <1>1 DEF SkeletonEnds
<1> QED BY <1>2, <1>3, <1>4, <1>5

LEMMA ListedStep == ASSUME ListInv, NEW f \in Flight, Listed(f) PROVE ListInv'
<1> USE DEF ListInv
<1>1. f \in Flying /\ pending[f] \in CallRecord /\ pending[f].do = "fetch" /\ pending[f].state # Landed
  BY DEF Listed, Flying, ListTypeOK
<1>2. list' = [of |-> pending[f].for, state |-> pending[f].state]
      /\ UNCHANGED <<selected, dialog, table, saved, saves, muddled>>
  BY DEF Listed
<1>3. list' \in [of : Selection, state : Nat] BY <1>1, <1>2 DEF CallRecord
<1>4. list' # Landed BY <1>3, ListAssumption
<1>5. ~muddled => list'.of = selected /\ list'.state >= saved
  BY <1>1, <1>2 DEF OneAtMost, ServedIsFresh
<1>6. CASE pending[f].again
  <2>1. pending' = [pending EXCEPT ![f] = Fetch(pending[f].for, FALSE)]
        /\ isLoading' = TRUE /\ failed' = FALSE
    BY <1>6 DEF Listed, Land
  <2>2. saved' \in Nat /\ saved' <= table BY <1>2 DEF SavedIsMade, ListTypeOK
  <2> QED BY <1>1, <1>2, <1>3, <2>1, <2>2, FollowStep
<1>7. CASE ~pending[f].again
  <2>1. pending' = [pending EXCEPT ![f] = Landed] /\ isLoading' = FALSE /\ failed' = failed
    BY <1>7 DEF Listed, Land
  <2>2. failed' \in BOOLEAN BY <2>1 DEF ListTypeOK
  <2> QED BY <1>1, <1>2, <1>3, <1>4, <1>5, <2>1, <2>2, FreeStep
<1> QED BY <1>6, <1>7

LEMMA FetchFailsStep == ASSUME ListInv, NEW f \in Flight, FetchFails(f) PROVE ListInv'
<1> USE DEF ListInv
<1>1. f \in Flying /\ UNCHANGED <<selected, list, dialog, table, saved, saves, muddled>>
  BY DEF FetchFails, Flying
<1>2. list' \in {Landed} \cup [of : Selection, state : Nat] /\ saved' \in Nat /\ saved' <= table
  BY <1>1 DEF ListTypeOK, SavedIsMade
<1>3. CASE pending[f].again
  <2>1. pending' = [pending EXCEPT ![f] = Fetch(pending[f].for, FALSE)]
        /\ isLoading' = TRUE /\ failed' = FALSE
    BY <1>3 DEF FetchFails, Land
  <2> QED BY <1>1, <1>2, <2>1, FollowStep
<1>4. CASE ~pending[f].again
  <2>1. pending' = [pending EXCEPT ![f] = Landed] /\ isLoading' = FALSE /\ failed' = TRUE
    BY <1>4 DEF FetchFails, Land
  <2> QED BY <1>1, <1>2, <2>1, FreeStep
<1> QED BY <1>3, <1>4

LEMMA WriteDoneStep == ASSUME ListInv, NEW f \in Flight, WriteDone(f) PROVE ListInv'
<1> USE DEF ListInv
<1>1. f \in Flying /\ pending[f] \in CallRecord /\ pending[f].state # Landed
  BY DEF WriteDone, Flying, ListTypeOK
<1>2. pending' = [pending EXCEPT ![f] = Fetch(pending[f].for, pending[f].again)]
      /\ saved' = pending[f].state /\ isLoading' = TRUE /\ failed' = FALSE
      /\ UNCHANGED <<selected, list, dialog, table, saves, muddled>>
  BY DEF WriteDone
<1>3. pending[f].again \in BOOLEAN /\ saved' \in Nat BY <1>1, <1>2 DEF CallRecord
<1>4. saved' <= table BY <1>1, <1>2 DEF SavedIsMade
<1>5. \A g \in Flying : muddled \/ g = f BY <1>1 DEF OneAtMost
<1>6. list' \in {Landed} \cup [of : Selection, state : Nat] BY <1>2 DEF ListTypeOK
<1> QED BY <1>1, <1>2, <1>3, <1>4, <1>5, <1>6, FollowStep

LEMMA WriteFailsStep == ASSUME ListInv, NEW f \in Flight, WriteFails(f) PROVE ListInv'
<1> USE DEF ListInv
<1>1. f \in Flying /\ pending[f].do = "write"
      /\ UNCHANGED <<selected, list, dialog, table, saved, saves, muddled>>
  BY DEF WriteFails, Flying
<1>2. list' \in {Landed} \cup [of : Selection, state : Nat] /\ saved' \in Nat /\ saved' <= table
  BY <1>1 DEF ListTypeOK, SavedIsMade
<1>3. CASE pending[f].again
  <2>1. pending' = [pending EXCEPT ![f] = Fetch(pending[f].for, FALSE)]
        /\ isLoading' = TRUE /\ failed' = FALSE
    BY <1>3 DEF WriteFails
  <2> QED BY <1>1, <1>2, <2>1, FollowStep
<1>4. CASE ~pending[f].again
  <2>1. pending' = [pending EXCEPT ![f] = Landed] /\ UNCHANGED <<isLoading, failed>>
    BY <1>4 DEF WriteFails
  <2>2. isLoading' \in BOOLEAN /\ failed' \in BOOLEAN BY <2>1 DEF ListTypeOK
  <2>3. ~muddled => \A g \in Flying : pending[g].do = "write" BY <1>1 DEF OneAtMost
  <2>4. ~muddled /\ ~failed' => list' # Landed /\ list'.of = selected /\ list'.state >= saved
    BY <1>1, <2>1, <2>3 DEF RightBetweenFetches
  <2>5. isLoading' => isLoading /\ pending[f].do = "write" BY <1>1, <2>1
  <2> QED BY <1>1, <1>2, <2>1, <2>2, <2>4, <2>5, FreeStep
<1> QED BY <1>3, <1>4

LEMMA NextList == ASSUME ListInv, [ListNext]_listVars PROVE ListInv'
<1>1. CASE UNCHANGED listVars
  <2>1. UNCHANGED <<selected, list, isLoading, failed, pending, table, saved, saves, muddled>>
        /\ UNCHANGED dialog
    BY <1>1 DEF listVars
  <2> QED BY <2>1 DEF ListInv, ListTypeOK, SavedIsMade, OneAtMost, ServedIsFresh,
                      RightBetweenFetches, SkeletonEnds, Flying
<1> QED BY <1>1, SelectStep, UserStep, ServeStep, ListedStep, FetchFailsStep, WriteDoneStep,
           WriteFailsStep
        DEF ListNext

-----------------------------------------------------------------------------
\* The inductive invariant of a list page.
THEOREM ListInvariant == ListSpec => []ListInv
BY InitList, NextList, PTL DEF ListSpec

\* Once its calls are answered the page shows the selected rows with what it
\* saved, unless an error is shown or calls overlapped.
THEOREM SettledListIsRightHolds == ListSpec => []SettledListIsRight
<1>1. ListInv => SettledListIsRight BY DEF ListInv, RightBetweenFetches, SettledListIsRight
<1> QED BY <1>1, ListInvariant, PTL

\* While the skeleton is shown a fetch is under way.
THEOREM SkeletonEndsHolds == ListSpec => []SkeletonEnds
<1>1. ListInv => SkeletonEnds BY DEF ListInv
<1> QED BY <1>1, ListInvariant, PTL

-----------------------------------------------------------------------------
(* The session of the tabs                                                 *)
(*                                                                         *)
(* The queue is drained because everyone in it belongs to a flight that is *)
(* under way and whose tab knows it is refreshing.                         *)

USE DEF MayRefresh, Scheduled, CookieSet

\* A call belongs to a tab from its start to its end.
CallsHaveTabs ==
    \A c \in Call :
      /\ call[c].pc \in {"sent", "queued", "refreshing"} => call[c].tab \in Tab
      /\ call[c].pc \in {"new", "done"} => call[c].tab = None

\* A call has a refresh on its way exactly while it leads one.
LeadersFly ==
    \A c \in Call : call[c].pc = "refreshing" <=> flight[c].pc # "idle"

\* isRefreshing is set exactly while some call of the tab leads a refresh.
FlagMeansLeader ==
    \A t \in Tab : refreshing[t] <=> \E c \in Call : call[c].pc = "refreshing" /\ call[c].tab = t

OneLeaderPerTab ==
    \A c1, c2 \in Call :
      call[c1].pc = "refreshing" /\ call[c2].pc = "refreshing" /\ call[c1].tab = call[c2].tab
        => c1 = c2

QueuedBehindLeader ==
    \A c \in Call : call[c].pc = "queued" => refreshing[call[c].tab]

\* The inductive invariant of the interceptor.
Interceptor ==
    TypeOK /\ CallsHaveTabs /\ LeadersFly /\ FlagMeansLeader /\ OneLeaderPerTab /\ QueuedBehindLeader

-----------------------------------------------------------------------------
LEMMA InitInterceptor == Init => Interceptor
<1> SUFFICES ASSUME Init PROVE Interceptor
  OBVIOUS
<1>1. TypeOK
  <2>1. call \in [Call -> [pc : {"new", "sent", "queued", "refreshing", "done"},
                          tab : Tab \cup {None}, retry : BOOLEAN, sends : Nat]]
    BY DEF Init, NewCall
  <2>2. flight \in [Slot -> [pc : {"idle", "sent", "answered"}, tok : Token \cup {None}]]
    BY DEF Init, NoFlight
  <2> QED BY <2>1, <2>2 DEF Init, TypeOK, Minted
<1>2. \A c \in Call : call[c].pc = "new" /\ call[c].tab = None /\ flight[c].pc = "idle"
  BY DEF Init, NewCall, NoFlight, Slot
<1>3. \A t \in Tab : refreshing[t] = FALSE
  BY DEF Init
<1> QED BY <1>1, <1>2, <1>3 DEF Interceptor, CallsHaveTabs, LeadersFly, FlagMeansLeader,
          OneLeaderPerTab, QueuedBehindLeader

\* The steps that touch no call, no flag and no refresh of a call.
LEMMA StoreStep ==
    ASSUME Interceptor, UNCHANGED <<call, refreshing>>, TypeOK',
           \A c \in Call : flight'[c].pc # "idle" <=> flight[c].pc # "idle"
    PROVE  Interceptor'
BY DEF Interceptor, CallsHaveTabs, LeadersFly, FlagMeansLeader, OneLeaderPerTab, QueuedBehindLeader

\* A refresh that is on its way belongs to a tab.
LEMMA FlightsHaveTabs ==
    ASSUME Interceptor, NEW s \in Slot, flight[s].pc # "idle"
    PROVE  TabOf(s) \in Tab
BY SlotAssumption DEF Interceptor, CallsHaveTabs, LeadersFly, TabOf, Slot

LEMMA TabActions ==
    ASSUME Interceptor, NEW t \in Tab,
           \/ \E n \in Token : Login(t, n)
           \/ ProfileAnswer(t)
           \/ TimerFires(t)
           \/ UserLogsOut(t)
           \/ Told(t)
    PROVE  Interceptor'
<1> USE DEF Interceptor
<1>1. UNCHANGED <<call, refreshing>>
  BY DEF Login, ProfileAnswer, TimerFires, UserLogsOut, Told
<1>2. \A c \in Call : flight'[c] = flight[c]
  BY SlotAssumption DEF Login, ProfileAnswer, TimerFires, UserLogsOut, Told, TypeOK, SendRefresh, Slot
<1>3. TypeOK'
  <2>1. ASSUME NEW n \in Token, Login(t, n) PROVE TypeOK'
    BY <2>1, NoneAssumption DEF TypeOK, Login, Mint, Minted
  <2>2. CASE ProfileAnswer(t) BY <2>2 DEF TypeOK, ProfileAnswer, server, Minted
  <2>3. CASE TimerFires(t) BY <2>3 DEF TypeOK, TimerFires, SendRefresh, server, Minted, Slot
  <2>4. CASE UserLogsOut(t) BY <2>4 DEF TypeOK, UserLogsOut, LogOut, server, Minted
  <2>5. CASE Told(t) BY <2>5 DEF TypeOK, Told, server, Minted
  <2> QED BY <2>1, <2>2, <2>3, <2>4, <2>5
<1> QED BY <1>1, <1>2, <1>3, StoreStep

LEMMA BackendActions ==
    ASSUME Interceptor, NEW s \in Slot, Backend(s)
    PROVE  Interceptor'
<1> USE DEF Interceptor
<1>1. UNCHANGED <<token, timer, profile, refreshing, call, told, stored, cookie, leaving>>
  BY DEF Backend, Rotates, Reuses, Arrives
<1>2. PICK new \in Token \cup {None} :
        /\ flight[s].pc = "sent"
        /\ flight' = [flight EXCEPT ![s] = [pc |-> "answered", tok |-> new]]
  BY DEF Backend, Rotates, Reuses, Arrives
<1>3. \A c \in Call : flight'[c].pc # "idle" <=> flight[c].pc # "idle"
  BY <1>2 DEF TypeOK, Slot
<1>4. TypeOK'
  <2>1. flight' \in [Slot -> [pc : {"idle", "sent", "answered"}, tok : Token \cup {None}]]
    BY <1>2 DEF TypeOK
  <2>2. live' \subseteq Minted' /\ family' \in [Token -> Token \cup {None}] /\ excused' = excused
    <3>1. ASSUME NEW n \in Token, Rotates(s, n)
          PROVE  live' \subseteq Minted' /\ family' \in [Token -> Token \cup {None}]
      <4>1. flight[s].tok \in Token /\ family[flight[s].tok] \in Token
        BY <3>1, NoneAssumption DEF Rotates, TypeOK, Minted
      <4> QED BY <3>1, <4>1, NoneAssumption DEF Rotates, Mint, TypeOK, Minted
    <3>2. CASE Reuses(s) BY <3>2 DEF Reuses, TypeOK, Minted
    <3> QED BY <3>1, <3>2 DEF Backend, Rotates, Reuses
  <2> QED BY <1>1, <2>1, <2>2 DEF TypeOK
<1> QED BY <1>1, <1>3, <1>4, StoreStep

LEMMA LogoutServedAction ==
    ASSUME Interceptor, NEW n \in Token, LogoutServed(n)
    PROVE  Interceptor'
<1>1. TypeOK' BY DEF Interceptor, LogoutServed, client, TypeOK, Minted
<1> QED BY <1>1, StoreStep DEF LogoutServed, client

ClientCall == [pc : {"new", "sent", "queued", "refreshing", "done"},
               tab : Tab \cup {None}, retry : BOOLEAN, sends : Nat]

LEMMA NewClientCall ==
    /\ NewCall \in ClientCall
    /\ Done \in ClientCall /\ Done.pc = "done" /\ Done.tab = None
    /\ \A t \in Tab : LET v == [NewCall EXCEPT !.pc = "sent", !.tab = t, !.sends = 1]
                      IN v \in ClientCall /\ v.pc = "sent" /\ v.tab = t
BY DEF NewCall, Done, ClientCall

\* A call that leads no refresh changes its record and leads none after.
LEMMA CallStep ==
    ASSUME Interceptor, NEW c \in Call, NEW v \in ClientCall,
           call' = [call EXCEPT ![c] = v],
           UNCHANGED <<token, timer, profile, refreshing, flight, told, stored,
                       cookie, leaving, server, excused>>,
           call[c].pc # "refreshing", v.pc # "refreshing",
           v.pc \in {"new", "done"} => v.tab = None,
           v.pc \notin {"new", "done"} => v.tab \in Tab,
           v.pc = "queued" => refreshing[v.tab]
    PROVE  Interceptor'
<1> USE DEF Interceptor
<1>1. TypeOK' BY DEF TypeOK, server, Minted, ClientCall
<1>2. \A x \in Call : call'[x] = IF x = c THEN v ELSE call[x]
  BY DEF TypeOK
<1>3. \A x \in Call : call'[x].pc = "refreshing" <=> call[x].pc = "refreshing"
  BY <1>2
<1>4. \A x \in Call : call[x].pc = "refreshing" => call'[x] = call[x]
  BY <1>2
<1>5. CallsHaveTabs' BY <1>2 DEF CallsHaveTabs, ClientCall
<1>6. LeadersFly' BY <1>3 DEF LeadersFly
<1>7. FlagMeansLeader' BY <1>3, <1>4 DEF FlagMeansLeader
<1>8. OneLeaderPerTab' BY <1>3, <1>4 DEF OneLeaderPerTab
<1>9. QueuedBehindLeader' BY <1>2 DEF QueuedBehindLeader
<1> QED BY <1>1, <1>5, <1>6, <1>7, <1>8, <1>9

\* The four steps of a call that end no refresh.
LEMMA CallActions ==
    ASSUME Interceptor, NEW c \in Call,
           CallAnswered(c) \/ \E t \in Tab : StartCall(t, c)
    PROVE  Interceptor'
<1> USE DEF Interceptor
<1>1. ASSUME NEW t \in Tab, StartCall(t, c) PROVE Interceptor'
  <2> DEFINE v == [NewCall EXCEPT !.pc = "sent", !.tab = t, !.sends = 1]
  <2>1. v \in ClientCall /\ v.pc = "sent" /\ v.tab = t
    BY NewClientCall
  <2>2. call' = [call EXCEPT ![c] = v] /\ call[c].pc = "new"
    BY <1>1 DEF StartCall
  <2> HIDE DEF v
  <2> QED BY <1>1, <2>1, <2>2, CallStep DEF StartCall
<1>2. CASE CallSettles(c)
  BY <1>2, NewClientCall, CallStep DEF CallSettles
<1>3. CASE CallQueues(c)
  <2> DEFINE v == [call[c] EXCEPT !.pc = "queued"]
  <2>1. v \in ClientCall /\ v.pc = "queued" /\ v.tab = call[c].tab /\ v.tab \in Tab
    BY <1>3 DEF CallQueues, TypeOK, ClientCall, CallsHaveTabs
  <2>2. call' = [call EXCEPT ![c] = v]
    BY <1>3 DEF CallQueues
  <2> HIDE DEF v
  <2> QED BY <1>3, <2>1, <2>2, CallStep DEF CallQueues
<1>4. CASE CallRefreshes(c)
  <2>1. TypeOK'
    <3> DEFINE r == call[c]
               v == [r EXCEPT !.pc = "refreshing", !.retry = TRUE]
    <3>1. call' = [call EXCEPT ![c].pc = "refreshing", ![c].retry = TRUE]
      BY <1>4 DEF CallRefreshes
    <3>2. call' = [call EXCEPT ![c] = v] BY <3>1
    <3>3. r \in ClientCall BY DEF TypeOK, ClientCall
    <3> HIDE DEF r
    <3>4. v \in ClientCall BY <3>3 DEF ClientCall
    <3> HIDE DEF v
    <3>5. call' \in [Call -> ClientCall] BY <3>2, <3>4 DEF TypeOK, ClientCall
    <3>6. flight' \in [Slot -> [pc : {"idle", "sent", "answered"}, tok : Token \cup {None}]]
      BY <1>4 DEF CallRefreshes, SendRefresh, TypeOK
    <3>7. refreshing' \in [Tab -> BOOLEAN] /\ excused' \in BOOLEAN
      BY <1>4 DEF CallRefreshes, SendRefresh, TypeOK
    <3> QED BY <1>4, <3>5, <3>6, <3>7 DEF CallRefreshes, TypeOK, ClientCall, server, Minted
  <2>2. \A x \in Call : /\ x # c => call'[x] = call[x] /\ flight'[x] = flight[x]
                        /\ call'[x].tab = call[x].tab
    BY <1>4 DEF CallRefreshes, SendRefresh, TypeOK, Slot
  <2>3. call'[c].pc = "refreshing" /\ flight'[c].pc = "sent" /\ call[c].tab \in Tab
    BY <1>4 DEF CallRefreshes, SendRefresh, TypeOK, Slot, CallsHaveTabs
  <2>4. refreshing' = [refreshing EXCEPT ![call[c].tab] = TRUE] /\ ~refreshing[call[c].tab]
    BY <1>4 DEF CallRefreshes
  <2>5. CallsHaveTabs' /\ LeadersFly' BY <2>2, <2>3 DEF CallsHaveTabs, LeadersFly
  <2>6. FlagMeansLeader'
    <3>1. ASSUME NEW x \in Tab, x # call[c].tab
          PROVE  /\ refreshing'[x] = refreshing[x]
                 /\ \A y \in Call : call[y].tab = x => call'[y] = call[y]
                 /\ \A y \in Call : call'[y].tab = x => call'[y] = call[y]
      BY <2>2, <2>4, <3>1 DEF TypeOK
    <3>2. ASSUME NEW x \in Tab, x # call[c].tab
          PROVE  refreshing'[x] <=> \E y \in Call : call'[y].pc = "refreshing" /\ call'[y].tab = x
      BY <2>2, <3>1, <3>2 DEF FlagMeansLeader
    <3>3. refreshing'[call[c].tab] BY <2>3, <2>4 DEF TypeOK
    <3> QED BY <2>2, <2>3, <3>2, <3>3 DEF FlagMeansLeader
  <2>7. OneLeaderPerTab' BY <2>2, <2>3, <2>4 DEF FlagMeansLeader, OneLeaderPerTab, CallsHaveTabs
  <2>8. QueuedBehindLeader' BY <2>2, <2>3, <2>4 DEF QueuedBehindLeader, TypeOK, CallsHaveTabs
  <2> QED BY <2>1, <2>5, <2>6, <2>7, <2>8
<1> QED BY <1>1, <1>2, <1>3, <1>4 DEF CallAnswered

-----------------------------------------------------------------------------
(* The end of a refresh *)

LEMMA ResendFields ==
    ASSUME TypeOK, NEW t, NEW s, NEW x \in Call
    PROVE  LET new == Resend(t, s)[x]
           IN /\ new \in ClientCall
              /\ new.tab = call[x].tab
              /\ x = s \/ x \in Queued(t) => new.pc = "sent"
              /\ ~(x = s \/ x \in Queued(t)) => new = call[x]
<1> DEFINE sent == [call[x] EXCEPT !.pc = "sent", !.sends = @ + 1]
<1>1. call[x] \in ClientCall BY DEF TypeOK, ClientCall
<1>2. sent \in ClientCall /\ sent.tab = call[x].tab /\ sent.pc = "sent"
  <2> DEFINE r == call[x]
             n == r.sends + 1
  <2>1. r \in ClientCall /\ n \in Nat BY <1>1 DEF ClientCall
  <2>2. sent = [r EXCEPT !.pc = "sent", !.sends = n] OBVIOUS
  <2> HIDE DEF r, n, sent
  <2>3. sent \in ClientCall /\ sent.tab = r.tab /\ sent.pc = "sent" BY <2>1, <2>2 DEF ClientCall
  <2> QED BY <2>3 DEF r
<1>3. Resend(t, s)[x] = IF x = s \/ x \in Queued(t) THEN sent ELSE call[x]
  BY DEF Resend
<1> HIDE DEF sent
<1> QED BY <1>1, <1>2, <1>3

LEMMA ResumeStep ==
    ASSUME Interceptor, NEW s \in Slot, flight[s].pc # "idle",
           flight' = [flight EXCEPT ![s] = NoFlight], Resume(s), TypeOK'
    PROVE  Interceptor'
<1> USE DEF Interceptor
<1>1. CASE s \in Tab
  <2>1. UNCHANGED <<call, refreshing>> BY <1>1, SlotAssumption DEF Resume
  <2>2. \A c \in Call : flight'[c] = flight[c] BY <1>1, SlotAssumption DEF TypeOK, Slot
  <2> QED BY <2>1, <2>2, StoreStep
<1>2. CASE s \in Call
  <2> DEFINE t == call[s].tab
  <2>1. TabOf(s) = t /\ call[s].pc = "refreshing" /\ t \in Tab
    BY <1>2, SlotAssumption DEF TabOf, LeadersFly, CallsHaveTabs
  <2>2. call' = Resend(t, s) /\ refreshing' = [refreshing EXCEPT ![t] = FALSE]
    BY <1>2, <2>1 DEF Resume
  <2>3. \A x \in Call : /\ call'[x].tab = call[x].tab
                        /\ x = s \/ x \in Queued(t) => call'[x].pc = "sent"
                        /\ ~(x = s \/ x \in Queued(t)) => call'[x] = call[x]
    BY <2>2, ResendFields
  <2>4. \A x \in Call : call'[x].pc = "refreshing" <=> call[x].pc = "refreshing" /\ x # s
    BY <2>3 DEF Queued
  <2>5. \A x \in Call : flight'[x].pc # "idle" <=> flight[x].pc # "idle" /\ x # s
    BY <1>2 DEF NoFlight, TypeOK, Slot
  <2>6. CallsHaveTabs'
    BY <2>1, <2>3 DEF CallsHaveTabs, Queued
  <2>7. LeadersFly'
    BY <2>4, <2>5 DEF LeadersFly
  <2>8. FlagMeansLeader'
    <3>1. ASSUME NEW x \in Tab, x # t
          PROVE  refreshing'[x] <=> \E c \in Call : call'[c].pc = "refreshing" /\ call'[c].tab = x
      BY <2>2, <2>3, <2>4, <3>1 DEF FlagMeansLeader, TypeOK
    <3>2. ~refreshing'[t] BY <2>1, <2>2 DEF TypeOK
    <3>3. ASSUME NEW c \in Call, call'[c].pc = "refreshing", call'[c].tab = t PROVE FALSE
      BY <1>2, <2>1, <2>3, <2>4, <3>3 DEF OneLeaderPerTab
    <3> QED BY <3>1, <3>2, <3>3 DEF FlagMeansLeader
  <2>9. OneLeaderPerTab'
    BY <2>3, <2>4 DEF OneLeaderPerTab
  <2>10. QueuedBehindLeader'
    BY <2>1, <2>2, <2>3 DEF QueuedBehindLeader, Queued, TypeOK, CallsHaveTabs
  <2> QED BY <2>6, <2>7, <2>8, <2>9, <2>10
<1> QED BY <1>1, <1>2 DEF Slot

LEMMA ResumeTypes ==
    ASSUME Interceptor, NEW s \in Slot, flight[s].pc # "idle", Resume(s)
    PROVE  call' \in [Call -> ClientCall] /\ refreshing' \in [Tab -> BOOLEAN]
<1> USE DEF Interceptor
<1>1. CASE s \notin Call BY <1>1 DEF Resume, TypeOK, ClientCall
<1>2. CASE s \in Call
  <2>1. call' = Resend(TabOf(s), s) /\ refreshing' = [refreshing EXCEPT ![TabOf(s)] = FALSE]
    BY <1>2 DEF Resume
  <2>2. \A x \in Call : call'[x] \in ClientCall BY <2>1, ResendFields
  <2>3. call' = [x \in Call |-> call'[x]] BY <2>1 DEF Resend
  <2>4. refreshing' \in [Tab -> BOOLEAN] BY <2>1 DEF TypeOK
  <2> QED BY <2>2, <2>3, <2>4
<1> QED BY <1>1, <1>2

LEMMA AnswerActions ==
    ASSUME Interceptor, NEW s \in Slot, Answered(s)
    PROVE  Interceptor'
<1> USE DEF Interceptor
<1>1. /\ flight[s].pc # "idle"
      /\ flight' = [flight EXCEPT ![s] = NoFlight]
      /\ Resume(s)
      /\ UNCHANGED <<profile, live, family>>
  BY DEF Answered, RefreshSucceeds, RefreshFails, server
<1>2. TabOf(s) \in Tab BY <1>1, FlightsHaveTabs
<1>3. call' \in [Call -> ClientCall] /\ refreshing' \in [Tab -> BOOLEAN]
  BY <1>1, ResumeTypes
<1>4. flight' \in [Slot -> [pc : {"idle", "sent", "answered"}, tok : Token \cup {None}]]
  BY <1>1 DEF TypeOK, NoFlight
<1>5. TypeOK'
  <2>1. CASE RefreshSucceeds(s)
    <3>1. flight[s].tok \in Token BY <2>1 DEF RefreshSucceeds, TypeOK
    <3> QED BY <1>1, <1>2, <1>3, <1>4, <2>1, <3>1 DEF RefreshSucceeds, TypeOK, ClientCall, Minted
  <2>2. CASE RefreshFails(s)
    BY <1>1, <1>2, <1>3, <1>4, <2>2 DEF RefreshFails, LogOut, TypeOK, ClientCall, Minted
  <2> QED BY <2>1, <2>2 DEF Answered
<1> QED BY <1>1, <1>5, ResumeStep

-----------------------------------------------------------------------------
LEMMA ReloadAction ==
    ASSUME Interceptor, NEW t \in Tab, Reload(t)
    PROVE  Interceptor'
<1> USE DEF Interceptor
<1>1. \A c \in Call : /\ call[c].tab = t => call'[c] = Done
                      /\ call[c].tab # t => call'[c] = call[c]
  BY DEF Reload, TypeOK
<1>2. refreshing' = [refreshing EXCEPT ![t] = FALSE]
  BY DEF Reload
<1>3. flight' \in [Slot -> [pc : {"idle", "sent", "answered"}, tok : Token \cup {None}]]
  <2> DEFINE Flights == [pc : {"idle", "sent", "answered"}, tok : Token \cup {None}]
             left == [s \in Slot |-> IF TabOf(s) = t THEN NoFlight ELSE flight[s]]
             sent == [pc |-> "sent", tok |-> cookie]
  <2>1. NoFlight \in Flights /\ sent \in Flights BY DEF TypeOK, NoFlight
  <2>2. flight \in [Slot -> Flights] BY DEF TypeOK
  <2>3. flight' = left \/ flight' = [left EXCEPT ![t] = sent] BY DEF Reload
  <2> HIDE DEF Flights, sent
  <2>4. left \in [Slot -> Flights] BY <2>1, <2>2
  <2> HIDE DEF left
  <2>5. flight' \in [Slot -> Flights] BY <2>1, <2>3, <2>4
  <2> QED BY <2>5 DEF Flights
<1>4. \A c \in Call : flight'[c] = IF call[c].tab = t THEN NoFlight ELSE flight[c]
  BY SlotAssumption DEF Reload, TabOf, Slot
<1>5. TypeOK'
  <2>1. call' \in [Call -> ClientCall]
    <3>1. call' = [c \in Call |-> IF call[c].tab = t THEN Done ELSE call[c]] BY DEF Reload
    <3>2. Done \in ClientCall BY NewClientCall
    <3>3. call \in [Call -> ClientCall] BY DEF TypeOK, ClientCall
    <3> QED BY <3>1, <3>2, <3>3
  <2>2. /\ token' \in [Tab -> Token \cup {None}]
        /\ timer' \in [Tab -> BOOLEAN]
        /\ excused' \in BOOLEAN
    BY DEF Reload, TypeOK
  <2> QED BY <1>3, <2>1, <2>2 DEF Reload, TypeOK, ClientCall, server, Minted
<1>6. NoFlight.pc = "idle" BY DEF NoFlight
<1>7. t # None BY NoneAssumption
<1>8. Done.pc = "done" /\ Done.tab = None BY NewClientCall
\* The calls of the tab are done; the others, and their refreshes, are untouched.
<1>9. \A c \in Call : \/ call'[c].pc = "done" /\ call'[c].tab = None /\ flight'[c].pc = "idle"
                      \/ call'[c] = call[c] /\ flight'[c] = flight[c] /\ call[c].tab # t
  BY <1>1, <1>4, <1>6, <1>8
<1>10. \A c \in Call : call[c].tab # t => call'[c] = call[c]
  BY <1>1
<1>11. CallsHaveTabs'
  BY <1>9 DEF CallsHaveTabs
<1>12. LeadersFly' BY <1>9 DEF LeadersFly
<1>13. FlagMeansLeader'
  <2>1. ASSUME NEW x \in Tab, x # t
        PROVE  refreshing'[x] <=> \E c \in Call : call'[c].pc = "refreshing" /\ call'[c].tab = x
    <3>1. refreshing'[x] = refreshing[x] BY <1>2, <2>1 DEF TypeOK
    <3> QED BY <1>9, <1>10, <2>1, <3>1 DEF FlagMeansLeader
  <2>2. ~refreshing'[t] BY <1>2 DEF TypeOK
  <2>3. \A c \in Call : ~(call'[c].pc = "refreshing" /\ call'[c].tab = t) BY <1>9
  <2> QED BY <2>1, <2>2, <2>3 DEF FlagMeansLeader
<1>14. OneLeaderPerTab' BY <1>9 DEF OneLeaderPerTab
<1>15. QueuedBehindLeader'
  <2>1. \A x \in Tab : x # t => refreshing'[x] = refreshing[x] BY <1>2 DEF TypeOK
  <2> QED BY <1>9, <2>1 DEF QueuedBehindLeader, CallsHaveTabs
<1> QED BY <1>5, <1>11, <1>12, <1>13, <1>14, <1>15

-----------------------------------------------------------------------------
LEMMA NextInterceptor == ASSUME Interceptor, [Next]_vars PROVE Interceptor'
<1>1. CASE UNCHANGED vars
  <2>1. TypeOK' BY <1>1 DEF vars, client, server, Interceptor, TypeOK, Minted
  <2> QED BY <1>1, <2>1, StoreStep DEF vars, client
<1>2. CASE Next
  BY <1>2, TabActions, ReloadAction, BackendActions, AnswerActions, CallActions,
     LogoutServedAction DEF Next
<1> QED BY <1>1, <1>2

\* The interceptor's flag, its queue and the refreshes on their way agree.
THEOREM InterceptorInvariant == Spec => []Interceptor
<1>1. Init => Interceptor BY InitInterceptor
<1>2. Interceptor /\ [Next]_vars => Interceptor' BY NextInterceptor
<1> QED BY <1>1, <1>2, PTL DEF Spec

\* Type correctness of the dashboard session.
THEOREM TypeCorrect == Spec => []TypeOK
<1>1. Interceptor => TypeOK BY DEF Interceptor
<1> QED BY <1>1, InterceptorInvariant, PTL

\* No call waits in failedQueue without a refresh whose end resends it.
THEOREM QueueIsDrainedHolds == Spec => []QueueIsDrained
<1>1. Interceptor => QueueIsDrained
  BY DEF Interceptor, QueueIsDrained, QueuedBehindLeader, FlagMeansLeader, LeadersFly, CallsHaveTabs
<1> QED BY <1>1, InterceptorInvariant, PTL

-----------------------------------------------------------------------------
(* No tab keeps a token that nothing will renew *)

Renewed(t) == timer[t] \/ profile[t] \/ \E s \in InFlight : TabOf(s) = t

\* A step that takes nothing of the tab away.
LEMMA StaysRenewed ==
    ASSUME NEW x \in Tab, Renewed(x),
           timer[x] => timer'[x], profile[x] => profile'[x],
           \A s \in Slot : flight[s].pc # "idle" /\ TabOf(s) = x
                             => flight'[s].pc # "idle" /\ TabOf(s)' = x
    PROVE  Renewed(x)'
BY DEF Renewed, InFlight

LEMMA TabActionsKeep ==
    ASSUME Interceptor, SessionIsKept, NEW t \in Tab,
           \/ \E n \in Token : Login(t, n)
           \/ ProfileAnswer(t)
           \/ TimerFires(t)
           \/ UserLogsOut(t)
           \/ Told(t)
    PROVE  SessionIsKept'
<1> SUFFICES ASSUME NEW x \in Tab, token'[x] # None PROVE Renewed(x)'
  BY DEF SessionIsKept, Renewed, InFlight
<1> USE DEF Interceptor
<1>1. UNCHANGED call /\ \A s \in Slot : TabOf(s)' = TabOf(s)
  BY DEF Login, ProfileAnswer, TimerFires, UserLogsOut, Told, TabOf
<1>2. \A s \in Slot : flight[s].pc # "idle" => flight'[s].pc # "idle"
  BY DEF Login, ProfileAnswer, TimerFires, UserLogsOut, Told, TypeOK, SendRefresh
<1>3. CASE x # t
  <2>1. token'[x] = token[x] /\ timer'[x] = timer[x] /\ profile'[x] = profile[x]
    BY <1>3 DEF Login, ProfileAnswer, TimerFires, UserLogsOut, Told, LogOut, TypeOK
  <2>2. Renewed(x) BY <2>1 DEF SessionIsKept, Renewed
  <2> QED BY <1>1, <1>2, <2>1, <2>2, StaysRenewed
<1>4. CASE x = t
  <2>1. CASE \E n \in Token : Login(t, n)
    BY <1>4, <2>1 DEF Login, TypeOK, Renewed
  <2>2. CASE ProfileAnswer(t)
    BY <1>4, <2>2 DEF ProfileAnswer, TypeOK, Renewed
  <2>3. CASE TimerFires(t)
    <3>1. t \in Slot /\ flight'[t].pc # "idle" /\ TabOf(t)' = t
      BY <2>3 DEF TimerFires, SendRefresh, TypeOK, Slot, TabOf
    <3> QED BY <1>4, <3>1 DEF Renewed, InFlight
  <2>4. CASE UserLogsOut(t) \/ Told(t)
    BY <1>4, <2>4 DEF UserLogsOut, Told, LogOut, TypeOK
  <2> QED BY <2>1, <2>2, <2>3, <2>4
<1> QED BY <1>3, <1>4

\* The steps of calls and of the back end leave the store alone.
LEMMA OtherActionsKeep ==
    ASSUME Interceptor, SessionIsKept,
           \/ UNCHANGED vars
           \/ \E c \in Call : CallAnswered(c) \/ \E t \in Tab : StartCall(t, c)
           \/ \E s \in Slot : Backend(s)
           \/ \E n \in Token : LogoutServed(n)
    PROVE  SessionIsKept'
<1> SUFFICES ASSUME NEW x \in Tab, token'[x] # None PROVE Renewed(x)'
  BY DEF SessionIsKept, Renewed, InFlight
<1> USE DEF Interceptor
<1>1. UNCHANGED <<token, timer, profile>>
  BY DEF vars, client, CallAnswered, StartCall, CallSettles, CallQueues, CallRefreshes,
         Backend, Rotates, Reuses, Arrives, LogoutServed
<1>2. ASSUME NEW s \in Slot, flight[s].pc # "idle"
      PROVE  flight'[s].pc # "idle" /\ TabOf(s)' = TabOf(s)
  <2>1. CASE \E c \in Call : CallAnswered(c) \/ \E t \in Tab : StartCall(t, c)
    <3>1. PICK c \in Call : CallAnswered(c) \/ \E t \in Tab : StartCall(t, c) BY <2>1
    <3>2. call[c].pc \in {"new", "sent"}
      BY <3>1 DEF CallAnswered, StartCall, CallSettles, CallQueues, CallRefreshes
    <3>3. s # c BY <1>2, <3>2 DEF LeadersFly
    <3>4. s \in Call => call'[s] = call[s]
      BY <3>1, <3>3 DEF CallAnswered, StartCall, CallSettles, CallQueues, CallRefreshes, TypeOK
    <3>5. flight'[s] = flight[s]
      BY <3>1, <3>3 DEF CallAnswered, StartCall, CallSettles, CallQueues, CallRefreshes, SendRefresh, TypeOK
    <3> QED BY <1>2, <3>4, <3>5 DEF TabOf, Slot
  <2>2. CASE \E b \in Slot : Backend(b)
    BY <1>2, <2>2 DEF Backend, Rotates, Reuses, Arrives, TypeOK, TabOf
  <2>3. CASE UNCHANGED vars \/ \E n \in Token : LogoutServed(n)
    BY <1>2, <2>3 DEF vars, client, LogoutServed, TabOf
  <2> QED BY <2>1, <2>2, <2>3
<1>3. Renewed(x) BY <1>1 DEF SessionIsKept, Renewed
<1> QED BY <1>1, <1>2, <1>3, StaysRenewed

LEMMA AnswerActionsKeep ==
    ASSUME Interceptor, SessionIsKept, NEW s \in Slot, Answered(s)
    PROVE  SessionIsKept'
<1> SUFFICES ASSUME NEW x \in Tab, token'[x] # None PROVE Renewed(x)'
  BY DEF SessionIsKept, Renewed, InFlight
<1> USE DEF Interceptor
<1>1. /\ flight[s].pc # "idle"
      /\ flight' = [flight EXCEPT ![s] = NoFlight]
      /\ Resume(s)
      /\ UNCHANGED profile
  BY DEF Answered, RefreshSucceeds, RefreshFails
<1>2. TabOf(s) \in Tab BY <1>1, FlightsHaveTabs
<1>3. CASE x = TabOf(s)
  <2>1. CASE RefreshSucceeds(s)
    BY <1>2, <1>3, <2>1 DEF RefreshSucceeds, TypeOK, Renewed
  <2>2. CASE RefreshFails(s)
    BY <1>2, <1>3, <2>2 DEF RefreshFails, LogOut, TypeOK
  <2> QED BY <2>1, <2>2 DEF Answered
<1>4. CASE x # TabOf(s)
  <2>1. token'[x] = token[x] /\ timer'[x] = timer[x] /\ profile'[x] = profile[x]
    BY <1>1, <1>4 DEF Answered, RefreshSucceeds, RefreshFails, LogOut, TypeOK
  <2>2. Renewed(x) BY <2>1 DEF SessionIsKept, Renewed
  <2>3. \A c \in Call : call'[c].tab = call[c].tab
    BY <1>1, ResendFields DEF Resume
  <2>4. \A y \in Slot : flight[y].pc # "idle" /\ TabOf(y) = x
                          => flight'[y].pc # "idle" /\ TabOf(y)' = x
    BY <1>1, <1>4, <2>3 DEF TypeOK, TabOf, Slot
  <2> QED BY <2>1, <2>2, <2>4, StaysRenewed
<1> QED BY <1>3, <1>4

LEMMA ReloadKeeps ==
    ASSUME Interceptor, SessionIsKept, NEW t \in Tab, Reload(t)
    PROVE  SessionIsKept'
<1> SUFFICES ASSUME NEW x \in Tab, token'[x] # None PROVE Renewed(x)'
  BY DEF SessionIsKept, Renewed, InFlight
<1> USE DEF Interceptor
<1>1. CASE x = t
  <2>1. token'[t] = stored BY DEF Reload, TypeOK
  <2>2. CASE timer' = [timer EXCEPT ![t] = stored # None]
    BY <1>1, <2>1, <2>2 DEF TypeOK, Renewed
  <2>3. CASE timer' # [timer EXCEPT ![t] = stored # None]
    <3>1. flight'[t].pc = "sent" BY <2>3 DEF Reload, Slot
    <3> QED BY <1>1, <3>1 DEF Renewed, InFlight, TabOf, Slot
  <2> QED BY <2>2, <2>3
<1>2. CASE x # t
  <2>1. token'[x] = token[x] /\ timer'[x] = timer[x] /\ profile'[x] = profile[x]
    BY <1>2 DEF Reload, TypeOK
  <2>2. Renewed(x) BY <2>1 DEF SessionIsKept, Renewed
  <2>3. \A c \in Call : call[c].tab # t => call'[c] = call[c]
    BY DEF Reload
  <2>4. \A s \in Slot : TabOf(s) # t => flight'[s] = flight[s]
    BY DEF Reload, TabOf
  <2>5. \A s \in Slot : TabOf(s) = x => TabOf(s)' = x
    BY <1>2, <2>3 DEF TabOf, Slot
  <2> QED BY <1>2, <2>1, <2>2, <2>4, <2>5, StaysRenewed
<1> QED BY <1>1, <1>2

\* A tab with a token has a timer, a refresh or a profile request under way:
\* no order of timers, calls, logouts and reloads leaves a session unattended.
THEOREM SessionIsKeptHolds == Spec => []SessionIsKept
<1>1. Init => SessionIsKept
  BY DEF Init, SessionIsKept
<1>2. Interceptor /\ SessionIsKept /\ [Next]_vars => SessionIsKept'
  <2> SUFFICES ASSUME Interceptor, SessionIsKept, [Next]_vars PROVE SessionIsKept'
    OBVIOUS
  <2>1. CASE UNCHANGED vars BY <2>1, OtherActionsKeep
  <2>2. CASE Next
    BY <2>2, TabActionsKeep, OtherActionsKeep, AnswerActionsKeep, ReloadKeeps DEF Next
  <2> QED BY <2>1, <2>2
<1> QED BY <1>1, <1>2, InterceptorInvariant, PTL DEF Spec

-----------------------------------------------------------------------------
(* The retries of a burst end *)

\* The calls that will lead no refresh any more.
Ended == {c \in Call : call[c].pc = "done" \/ (call[c].retry /\ call[c].pc # "refreshing")}

RetryFlags ==
    \A c \in Call : /\ call[c].pc = "refreshing" => call[c].retry
                    /\ call[c].pc = "new" => ~call[c].retry

\* Each time a call is sent again, a call has ended its one refresh.
SendsCounted == \A c \in Call : call[c].sends <= 1 + Cardinality(Ended)

LEMMA EndedFinite ==
    /\ IsFiniteSet(Ended) /\ Cardinality(Ended) \in Nat
    /\ Cardinality(Ended) <= Cardinality(Call) /\ Cardinality(Call) \in Nat
BY CallAssumption, FS_Subset, FS_CardinalityType DEF Ended

\* A step that ends more calls, if any, and sends none again.
LEMMA CountStep ==
    ASSUME Interceptor, SendsCounted, Ended \subseteq Ended', IsFiniteSet(Ended'),
           \A c \in Call : call'[c].sends = call[c].sends \/ call'[c].sends \in {0, 1}
    PROVE  SendsCounted'
<1>1. /\ Cardinality(Ended) <= Cardinality(Ended') /\ Cardinality(Ended) \in Nat
      /\ Cardinality(Ended') \in Nat
  BY EndedFinite, FS_Subset, FS_CardinalityType
<1>2. Cardinality(Ended)' = Cardinality(Ended') OBVIOUS
<1>3. \A c \in Call : call[c].sends \in Nat BY DEF Interceptor, TypeOK
<1> QED BY <1>1, <1>2, <1>3 DEF SendsCounted

LEMMA EndedFinitePrime == IsFiniteSet(Ended')
BY CallAssumption, FS_Subset DEF Ended

\* The end of a refresh sends calls again, and ends its leader.
LEMMA ResumeCounts ==
    ASSUME Interceptor, RetryFlags, SendsCounted, NEW s \in Slot, flight[s].pc # "idle", Resume(s)
    PROVE  RetryFlags' /\ SendsCounted'
<1>1. CASE s \notin Call
  <2>1. UNCHANGED call BY <1>1 DEF Resume
  <2> QED BY <2>1, CountStep, EndedFinitePrime DEF RetryFlags, Ended
<1>2. CASE s \in Call
  <2> DEFINE t == TabOf(s)
  <2>1. call' = Resend(t, s) /\ call[s].pc = "refreshing" /\ call[s].retry
    BY <1>2 DEF Resume, Interceptor, LeadersFly, RetryFlags
  <2>2. ASSUME NEW x \in Call
        PROVE  /\ call'[x].retry = call[x].retry
               /\ call'[x].sends <= call[x].sends + 1
               /\ x = s \/ x \in Queued(t) => call'[x].pc = "sent"
               /\ ~(x = s \/ x \in Queued(t)) => call'[x] = call[x]
    <3> DEFINE r == call[x]
               n == r.sends + 1
               sent == [r EXCEPT !.pc = "sent", !.sends = n]
    <3>1. r \in ClientCall BY DEF Interceptor, TypeOK, ClientCall
    <3>2. r.sends \in Nat BY <3>1 DEF ClientCall
    <3> HIDE DEF r, n
    <3>3. sent.pc = "sent" /\ sent.retry = r.retry /\ sent.sends = n BY <3>1 DEF ClientCall
    <3>4. call'[x] = IF x = s \/ x \in Queued(t) THEN sent ELSE r BY <2>1 DEF Resend, r, n
    <3> HIDE DEF sent
    <3> QED BY <3>2, <3>3, <3>4 DEF r, n
  <2>3. RetryFlags' BY <2>2 DEF RetryFlags
  <2>4. s \notin Ended /\ Ended \cup {s} \subseteq Ended'
    BY <1>2, <2>1, <2>2 DEF Ended, Queued
  <2>5. Cardinality(Ended \cup {s}) = Cardinality(Ended) + 1
    BY <2>4, EndedFinite, FS_AddElement
  <2>6. Cardinality(Ended \cup {s}) <= Cardinality(Ended')
    BY <2>4, EndedFinitePrime, FS_Subset
  <2>7. Cardinality(Ended') \in Nat /\ Cardinality(Ended) \in Nat
    BY EndedFinite, EndedFinitePrime, FS_CardinalityType
  <2>8. \A x \in Call : call[x].sends \in Nat /\ call'[x].sends \in Nat
    BY ResumeTypes DEF Interceptor, TypeOK, ClientCall
  <2>9. \A x \in Call : call'[x].sends <= 1 + Cardinality(Ended')
    BY <2>2, <2>5, <2>6, <2>7, <2>8 DEF SendsCounted
  <2> QED BY <2>3, <2>9 DEF SendsCounted
<1> QED BY <1>1, <1>2

\* The record of one call that is not led on.
LEMMA OneCallCounts ==
    ASSUME Interceptor, RetryFlags, SendsCounted, NEW c \in Call, NEW v \in ClientCall,
           call' = [call EXCEPT ![c] = v],
           v.pc = "refreshing" => v.retry,
           v.pc # "new",
           v.sends = call[c].sends \/ v.sends \in {0, 1},
           c \in Ended => v.pc = "done" \/ (v.retry /\ v.pc # "refreshing")
    PROVE  RetryFlags' /\ SendsCounted'
<1>1. \A x \in Call : call'[x] = IF x = c THEN v ELSE call[x]
  BY DEF Interceptor, TypeOK
<1>2. RetryFlags' BY <1>1 DEF RetryFlags
<1>3. Ended \subseteq Ended' BY <1>1 DEF Ended
<1> QED BY <1>1, <1>2, <1>3, CountStep, EndedFinitePrime

LEMMA CallCounts ==
    ASSUME Interceptor, RetryFlags, SendsCounted, NEW c \in Call,
           CallAnswered(c) \/ \E t \in Tab : StartCall(t, c)
    PROVE  RetryFlags' /\ SendsCounted'
<1>0. call[c] \in ClientCall BY DEF Interceptor, TypeOK, ClientCall
<1>1. ASSUME NEW t \in Tab, StartCall(t, c) PROVE RetryFlags' /\ SendsCounted'
  <2> DEFINE v == [NewCall EXCEPT !.pc = "sent", !.tab = t, !.sends = 1]
  <2>1. v \in ClientCall /\ v.pc = "sent" /\ v.sends = 1 BY NewClientCall DEF NewCall
  <2>2. call' = [call EXCEPT ![c] = v] /\ call[c].pc = "new" BY <1>1 DEF StartCall
  <2>3. c \notin Ended BY <2>2 DEF RetryFlags, Ended
  <2> HIDE DEF v
  <2> QED BY <2>1, <2>2, <2>3, OneCallCounts
<1>2. CASE CallSettles(c)
  <2>1. Done.sends = 0 /\ Done \in ClientCall /\ Done.pc = "done"
    BY NewClientCall DEF Done, NewCall
  <2> QED BY <1>2, <2>1, OneCallCounts DEF CallSettles
<1>3. CASE CallQueues(c)
  <2> DEFINE r == call[c]
             v == [r EXCEPT !.pc = "queued"]
  <2>1. call' = [call EXCEPT ![c] = v] /\ ~r.retry /\ r.pc = "sent" BY <1>3 DEF CallQueues
  <2> HIDE DEF r
  <2>2. r \in ClientCall BY <1>0 DEF r
  <2>3. v \in ClientCall /\ v.pc = "queued" /\ v.sends = r.sends BY <2>2 DEF ClientCall
  <2>4. c \notin Ended BY <2>1 DEF Ended, r
  <2> HIDE DEF v
  <2>5. v.sends = call[c].sends BY <2>3 DEF r
  <2> QED BY <2>1, <2>3, <2>4, <2>5, OneCallCounts
<1>4. CASE CallRefreshes(c)
  <2> DEFINE r == call[c]
             v == [r EXCEPT !.pc = "refreshing", !.retry = TRUE]
  <2>1. call' = [call EXCEPT ![c].pc = "refreshing", ![c].retry = TRUE] /\ ~r.retry /\ r.pc = "sent"
    BY <1>4 DEF CallRefreshes
  <2>2. call' = [call EXCEPT ![c] = v] BY <2>1
  <2> HIDE DEF r
  <2>3. r \in ClientCall BY <1>0 DEF r
  <2>4. v \in ClientCall /\ v.pc = "refreshing" /\ v.retry = TRUE /\ v.sends = r.sends
    BY <2>3 DEF ClientCall
  <2>5. c \notin Ended BY <2>1 DEF Ended, r
  <2> HIDE DEF v
  <2>6. v.sends = call[c].sends BY <2>4 DEF r
  <2> QED BY <2>2, <2>4, <2>5, <2>6, OneCallCounts
<1> QED BY <1>1, <1>2, <1>3, <1>4 DEF CallAnswered

LEMMA NextCounts ==
    ASSUME Interceptor, RetryFlags, SendsCounted, [Next]_vars
    PROVE  RetryFlags' /\ SendsCounted'
<1>1. CASE UNCHANGED call
  BY <1>1, CountStep, EndedFinitePrime DEF RetryFlags, Ended
<1>2. ASSUME NEW s \in Slot, Answered(s) PROVE RetryFlags' /\ SendsCounted'
  BY <1>2, ResumeCounts DEF Answered, RefreshSucceeds, RefreshFails
<1>3. ASSUME NEW t \in Tab, Reload(t) PROVE RetryFlags' /\ SendsCounted'
  <2>1. Done.sends = 0 /\ Done.pc = "done" BY DEF Done, NewCall
  <2>2. \A c \in Call : call'[c] = Done \/ call'[c] = call[c] BY <1>3 DEF Reload
  <2>3. RetryFlags' BY <2>1, <2>2 DEF RetryFlags
  <2>4. Ended \subseteq Ended' BY <2>1, <2>2 DEF Ended
  <2> QED BY <2>1, <2>2, <2>3, <2>4, CountStep, EndedFinitePrime
<1>4. CASE UNCHANGED vars BY <1>1, <1>4 DEF vars, client
<1>5. ASSUME NEW t \in Tab,
             \/ \E n \in Token : Login(t, n)
             \/ ProfileAnswer(t) \/ TimerFires(t) \/ UserLogsOut(t) \/ Told(t)
      PROVE  UNCHANGED call
  BY <1>5 DEF Login, ProfileAnswer, TimerFires, UserLogsOut, Told
<1>6. ASSUME (\E s \in Slot : Backend(s)) \/ \E n \in Token : LogoutServed(n)
      PROVE  UNCHANGED call
  BY <1>6 DEF Backend, Rotates, Reuses, Arrives, LogoutServed, client
<1> QED BY <1>1, <1>2, <1>3, <1>4, <1>5, <1>6, CallCounts DEF Next

\* However many refreshes fail and whoever leads them, a call is sent again at
\* most once for each call that leads one: the retries of a burst end.
THEOREM ResendsBoundedHolds == Spec => []ResendsBounded
<1>1. Init => RetryFlags /\ SendsCounted
  <2> SUFFICES ASSUME Init PROVE RetryFlags /\ SendsCounted OBVIOUS
  <2>1. \A c \in Call : call[c].pc = "new" /\ ~call[c].retry /\ call[c].sends = 0
    BY DEF Init, NewCall
  <2> QED BY <2>1, EndedFinite DEF RetryFlags, SendsCounted
<1>2. Interceptor /\ RetryFlags /\ SendsCounted /\ [Next]_vars => (RetryFlags /\ SendsCounted)'
  BY NextCounts
<1>3. Interceptor /\ SendsCounted => ResendsBounded
  BY EndedFinite DEF Interceptor, TypeOK, SendsCounted, ResendsBounded
<1> QED BY <1>1, <1>2, <1>3, InterceptorInvariant, PTL DEF Spec

-----------------------------------------------------------------------------
(* The cookie works *)

\* Since a login, while nothing overlapped or was lost: at most one refresh is
\* on its way, with the cookie's token, which is live until its successor is.
OneRefreshWithCookie ==
    /\ leaving = {}
    /\ \A s, x \in InFlight : s = x
    /\ \A s \in InFlight : IF flight[s].pc = "sent" THEN flight[s].tok = cookie
                           ELSE flight[s].tok \in live
    /\ cookie # None /\ (\A s \in InFlight : flight[s].pc = "sent") => cookie \in live

Unexcused == ~excused => OneRefreshWithCookie

LEMMA UnexcusedStart == Init => Unexcused
BY DEF Init, Unexcused, OneRefreshWithCookie, InFlight, NoFlight

\* Steps that leave the cookie, the requests and the back end alone.
LEMMA UnexcusedStays ==
    ASSUME Unexcused, UNCHANGED <<flight, cookie, leaving, live, excused>>
    PROVE  Unexcused'
BY DEF Unexcused, OneRefreshWithCookie, InFlight

\* A refresh is sent: overlapping another excuses.
LEMMA SendUnexcused ==
    ASSUME Interceptor, Unexcused, NEW s \in Slot, SendRefresh(s),
           UNCHANGED <<cookie, leaving, live>>
    PROVE  Unexcused'
<1> SUFFICES ASSUME ~excused' PROVE OneRefreshWithCookie' BY DEF Unexcused
<1>1. ~excused /\ InFlight = {} BY DEF SendRefresh, Interceptor, TypeOK
<1>2. flight' = [flight EXCEPT ![s] = [pc |-> "sent", tok |-> cookie]] BY DEF SendRefresh
<1>3. InFlight' = {s} /\ flight'[s].pc = "sent" /\ flight'[s].tok = cookie
  BY <1>1, <1>2 DEF InFlight, Interceptor, TypeOK
<1> QED BY <1>1, <1>3 DEF Unexcused, OneRefreshWithCookie

LEMMA BackendUnexcused ==
    ASSUME Interceptor, Unexcused, NEW s \in Slot, Backend(s)
    PROVE  Unexcused'
<1> SUFFICES ASSUME ~excused' PROVE OneRefreshWithCookie' BY DEF Unexcused
<1>1. PICK new \in Token \cup {None} :
        flight[s].pc = "sent" /\ flight' = [flight EXCEPT ![s] = [pc |-> "answered", tok |-> new]]
        /\ UNCHANGED <<cookie, leaving, excused>>
        /\ (Reuses(s) \/ (new \in live' /\ Backend(s)))
  BY DEF Backend, Rotates, Reuses, Arrives
<1>2. OneRefreshWithCookie BY <1>1 DEF Unexcused
<1>3. s \in InFlight /\ InFlight = {s} /\ flight[s].tok = cookie
  BY <1>1, <1>2 DEF InFlight, OneRefreshWithCookie
<1>4. ~Reuses(s)
  BY <1>1, <1>2, <1>3, NoneAssumption DEF Reuses, Minted, OneRefreshWithCookie
<1>5. InFlight' = {s} /\ flight'[s].pc = "answered" /\ flight'[s].tok \in live'
  BY <1>1, <1>3, <1>4 DEF InFlight, Interceptor, TypeOK
<1> QED BY <1>1, <1>2, <1>5 DEF OneRefreshWithCookie

LEMMA AnswerUnexcused ==
    ASSUME Interceptor, Unexcused, NEW s \in Slot, Answered(s)
    PROVE  Unexcused'
<1> SUFFICES ASSUME ~excused' PROVE OneRefreshWithCookie' BY DEF Unexcused
<1>1. RefreshSucceeds(s) BY DEF Answered, RefreshFails
<1>2. ~excused /\ OneRefreshWithCookie /\ s \in InFlight /\ flight[s].pc = "answered"
  BY <1>1 DEF RefreshSucceeds, Unexcused, InFlight
<1>3. flight[s].tok \in live /\ InFlight = {s} BY <1>2 DEF OneRefreshWithCookie
<1>4. InFlight' = {} BY <1>1, <1>3 DEF RefreshSucceeds, InFlight, NoFlight, Interceptor, TypeOK
<1> QED BY <1>1, <1>2, <1>3, <1>4 DEF RefreshSucceeds, OneRefreshWithCookie, server

\* A reload that cuts a refresh off excuses, and so does one that overlaps another.
LEMMA ReloadUnexcused ==
    ASSUME Interceptor, Unexcused, NEW t \in Tab, Reload(t)
    PROVE  Unexcused'
<1> SUFFICES ASSUME ~excused' PROVE OneRefreshWithCookie' BY DEF Unexcused
<1> DEFINE left == [s \in Slot |-> IF TabOf(s) = t THEN NoFlight ELSE flight[s]]
           sent == [pc |-> "sent", tok |-> cookie]
<1>1. ~excused /\ ~\E s \in InFlight : TabOf(s) = t BY DEF Reload, Interceptor, TypeOK
<1>2. OneRefreshWithCookie /\ UNCHANGED <<cookie, leaving, live>>
  BY <1>1 DEF Unexcused, Reload, server
<1>3. \A s \in Slot : (left[s].pc # "idle" <=> s \in InFlight)
                     /\ (s \in InFlight => left[s] = flight[s])
  BY <1>1 DEF InFlight, NoFlight
<1>4. CASE flight' = left
  <2>1. InFlight' = InFlight /\ \A s \in InFlight : flight'[s] = flight[s]
    BY <1>3, <1>4 DEF InFlight
  <2> QED BY <1>2, <2>1 DEF OneRefreshWithCookie
<1>5. CASE flight' # left
  <2>1. flight' = [left EXCEPT ![t] = sent] /\ InFlight = {}
    BY <1>1, <1>5 DEF Reload, Interceptor, TypeOK
  <2>2. t \in Slot BY DEF Slot
  <2>3. flight'[t] = sent /\ \A s \in Slot \ {t} : flight'[s] = left[s]
    BY <2>1, <2>2
  <2>4. InFlight' = {t} /\ flight'[t].pc = "sent" /\ flight'[t].tok = cookie
    BY <1>3, <2>1, <2>2, <2>3 DEF InFlight
  <2> QED BY <1>2, <2>1, <2>4 DEF OneRefreshWithCookie
<1> QED BY <1>4, <1>5

LEMMA NextUnexcused ==
    ASSUME Interceptor, Unexcused, [Next]_vars
    PROVE  Unexcused'
<1>1. ASSUME NEW t \in Tab, NEW n \in Token, Login(t, n) PROVE Unexcused'
  <2> SUFFICES ASSUME ~excused' PROVE OneRefreshWithCookie' BY DEF Unexcused
  <2>1. InFlight' = {} /\ leaving' = {} BY <1>1 DEF Login, InFlight
  <2> QED BY <1>1, <2>1 DEF Login, OneRefreshWithCookie
<1>2. ASSUME NEW t \in Tab, TimerFires(t) PROVE Unexcused'
  BY <1>2, SendUnexcused DEF TimerFires, Slot, server
<1>3. ASSUME NEW t \in Tab, UserLogsOut(t) PROVE Unexcused'
  BY <1>3 DEF UserLogsOut, Unexcused
<1>4. ASSUME NEW c \in Call, CallAnswered(c) PROVE Unexcused'
  <2>1. CASE CallRefreshes(c)
    BY <2>1, SendUnexcused DEF CallRefreshes, Slot, server
  <2> QED BY <1>4, <2>1, UnexcusedStays DEF CallAnswered, CallSettles, CallQueues, server
<1>5. ASSUME NEW t \in Tab, ProfileAnswer(t) \/ Told(t) \/ \E c \in Call : StartCall(t, c)
      PROVE  Unexcused'
  BY <1>5, UnexcusedStays DEF ProfileAnswer, Told, StartCall, server
<1>6. ASSUME NEW n \in Token, LogoutServed(n) PROVE Unexcused'
  BY <1>6 DEF LogoutServed, Unexcused, OneRefreshWithCookie
<1>7. CASE UNCHANGED vars BY <1>7, UnexcusedStays DEF vars, client, server
<1> QED BY <1>1, <1>2, <1>3, <1>4, <1>5, <1>6, <1>7, ReloadUnexcused, BackendUnexcused,
           AnswerUnexcused DEF Next

\* From a login on, and with any number of tabs, calls and refreshes one after
\* the other, the cookie in the browser is live or the answer that replaces it
\* is on the way.
THEOREM CookieWorksHolds == Spec => []CookieWorks
<1>1. Interceptor /\ Unexcused => CookieWorks
  BY DEF Interceptor, TypeOK, Unexcused, OneRefreshWithCookie, CookieWorks, InFlight
<1>2. Interceptor /\ Unexcused /\ [Next]_vars => Unexcused' BY NextUnexcused
<1> QED BY <1>1, <1>2, UnexcusedStart, InterceptorInvariant, PTL DEF Spec

=============================================================================
