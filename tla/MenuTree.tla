------------------------------ MODULE MenuTree ------------------------------
(***************************************************************************)
(* The menu tree of a tenant, branch > category > subcategory > product,   *)
(* as BranchService, CategoryService, SubcategoryService and               *)
(* ProductService of rest_api/app/services/domain write it.                *)
(*                                                                         *)
(* Every request is a database session at READ COMMITTED: each SELECT sees *)
(* what is committed at that moment, the ORM writes only at commit, and a  *)
(* row is updated by its id whatever happened to it since it was read.     *)
(* Rows are never removed: soft_delete sets deleted_at.  Names, prices,    *)
(* flags and order are left out; of the slugs only the generated           *)
(* general-<category id> is kept, because uq_subcategories_category_slug   *)
(* counts deleted rows too.  Any other unique violation is a refused       *)
(* commit.                                                                 *)
(***************************************************************************)
EXTENDS Naturals

CONSTANTS Branch, Category, Subcategory, Product,  \* the ids the tables can hand out
          Req,                                     \* request slots
          None,
          SeedBranch, SeedHome   \* the branch and the Home category seed.py leaves

Node  == Branch \cup Category \cup Subcategory \cup Product
Child == Category \cup Subcategory \cup Product

ASSUME SeedAssumption == SeedBranch \in Branch /\ SeedHome \in Category
ASSUME LevelsAssumption ==
    /\ Branch \cap Child = {}
    /\ Category \cap (Subcategory \cup Product) = {}
    /\ Subcategory \cap Product = {}
    /\ None \notin Node

VARIABLES
    row,      \* each id: not handed out, live, or soft-deleted
    parent,   \* branch_id, category_id or subcategory_id of each minted child
    home,     \* categories with is_home
    general,  \* the category whose generated slug a subcategory carries
    req,      \* what each request slot is doing
    raced     \* history: live children written while a delete was under way

vars == <<row, parent, home, general, req, raced>>

PC == {"idle", "general", "insertSub", "insertProduct", "autoGeneral", "renameSub", "moveSub",
       "moveProduct", "pickProducts", "pickSubs", "pickCats", "commitDelete"}

\* node: the row worked on; to: the parent to be; picked: rows to soft-delete;
\* stale: a delete was committed since a request that writes read the tree.
Idle == [pc |-> "idle", node |-> None, to |-> None, picked |-> {}, stale |-> FALSE]

-----------------------------------------------------------------------------
(* Queries *)

Live(n)  == row[n] = "live"
Fresh(n) == row[n] = "free"

LiveCats(b) == {c \in Category : Live(c) /\ parent[c] = b}
LiveSubs(C) == {s \in Subcategory : Live(s) /\ parent[s] \in C}
LiveProds(S) == {p \in Product : Live(p) /\ parent[p] \in S}

ProductAnyhow(p) == Live(p)

\* _get_subcategory and _get_product: the chain of live parents up to a
\* category of the branch; the branch itself is not looked at.
SubReachable(s) == Live(s) /\ Live(parent[s])
ProductReachable(p) == Live(p) /\ SubReachable(parent[p])

CategoryOfTenant(s, c) == Live(c)

\* SubcategoryService._get_category: a live category of the same branch.
CategoryOfBranch(s, c) == Live(c) /\ parent[c] = parent[parent[s]]

\* A row with slug general-<c> is in category c already, deleted or not.
GeneralTaken(c) ==
    \E s \in Subcategory : ~Fresh(s) /\ parent[s] = c /\ general[s] = c

ItselfOnly(n) == {n}

\* The categories and subcategories a delete of n goes through.
CatsUnder(n) == IF n \in Branch THEN LiveCats(n) ELSE {n}
SubsUnder(n) == IF n \in Subcategory THEN {n} ELSE LiveSubs(CatsUnder(n))

-----------------------------------------------------------------------------
(* Requests *)

Deleting == {"pickProducts", "pickSubs", "pickCats", "commitDelete"}
DeleteUnderWay == \E r \in Req : req[r].pc \in Deleting

Begin(r, pc, node, to) ==
    /\ req[r].pc = "idle"
    /\ req' = [req EXCEPT ![r] = [Idle EXCEPT !.pc = pc, !.node = node, !.to = to]]
    /\ UNCHANGED <<row, parent, home, general, raced>>

Release(r) == req' = [req EXCEPT ![r] = Idle]

\* r writes the children in N: remember those a delete may have missed.
Remember(r, N) ==
    raced' = IF req[r].stale \/ DeleteUnderWay THEN raced \cup N ELSE raced

Refuse(r) ==
    /\ Release(r)
    /\ UNCHANGED <<row, parent, home, general, raced>>

-----------------------------------------------------------------------------
Init ==
    /\ row = [n \in Node |-> IF n \in {SeedBranch, SeedHome} THEN "live" ELSE "free"]
    /\ parent = [n \in Child |-> IF n = SeedHome THEN SeedBranch ELSE None]
    /\ home = {SeedHome}
    /\ general = [s \in Subcategory |-> None]
    /\ req = [r \in Req |-> Idle]
    /\ raced = {}

-----------------------------------------------------------------------------
(* BranchService.create: two commits *)

BranchCreate(r, b) ==
    /\ req[r].pc = "idle"
    /\ Fresh(b)
    /\ row' = [row EXCEPT ![b] = "live"]
    /\ req' = [req EXCEPT ![r] = [Idle EXCEPT !.pc = "general", !.to = b]]
    /\ UNCHANGED <<parent, home, general, raced>>

\* The second commit adds the General category, or fails and leaves the branch.
BranchGeneral(r, c) ==
    /\ req[r].pc = "general"
    /\ Fresh(c)
    /\ row' = [row EXCEPT ![c] = "live"]
    /\ parent' = [parent EXCEPT ![c] = req[r].to]
    /\ Release(r)
    /\ Remember(r, {c})
    /\ UNCHANGED <<home, general>>

BranchGeneralFails(r) == req[r].pc = "general" /\ Refuse(r)

-----------------------------------------------------------------------------
(* CategoryService.create: the branch id comes from the URL and is checked  *)
(* against the token only, so any existing branch row will do.              *)

CategoryCreate(r, c, b) ==
    /\ req[r].pc = "idle"
    /\ Fresh(c)
    /\ ~Fresh(b)
    /\ row' = [row EXCEPT ![c] = "live"]
    /\ parent' = [parent EXCEPT ![c] = b]
    /\ Remember(r, {c})
    /\ UNCHANGED <<home, general, req>>

-----------------------------------------------------------------------------
(* SubcategoryService.create, update *)

SubCreateRead(r, c) == Live(c) /\ Begin(r, "insertSub", None, c)

SubInsert(r, s) ==
    /\ req[r].pc = "insertSub"
    /\ Fresh(s)
    /\ row' = [row EXCEPT ![s] = "live"]
    /\ parent' = [parent EXCEPT ![s] = req[r].to]
    /\ Release(r)
    /\ Remember(r, {s})
    /\ UNCHANGED <<home, general>>

SubRenameRead(r, s) ==
    /\ SubReachable(s)
    /\ general[s] # None
    /\ Begin(r, "renameSub", s, None)

\* A new name gives a new slug, to a row deleted meanwhile too.
SubRename(r) ==
    /\ req[r].pc = "renameSub"
    /\ general' = [general EXCEPT ![req[r].node] = None]
    /\ Release(r)
    /\ UNCHANGED <<row, parent, home, raced>>

SubMoveRead(r, s, c) ==
    /\ SubReachable(s)
    /\ CategoryOfBranch(s, c)
    /\ parent[s] # c
    /\ Begin(r, "moveSub", s, c)

SubMove(r) ==
    /\ req[r].pc = "moveSub"
    /\ LET s == req[r].node
           c == req[r].to
       IN \/ /\ general[s] # c \/ ~GeneralTaken(c)
             /\ parent' = [parent EXCEPT ![s] = c]
             /\ Release(r)
             /\ Remember(r, {s} \cup LiveProds({s}))
             /\ UNCHANGED <<row, home, general>>
          \/ /\ general[s] = c /\ GeneralTaken(c)
             /\ Refuse(r)

-----------------------------------------------------------------------------
(* ProductService.create, update *)

\* subcategoria_id given: it must be live and of the category.
ProductCreateRead(r, c, s) ==
    /\ Live(c)
    /\ Live(s)
    /\ parent[s] = c
    /\ Begin(r, "insertProduct", None, s)

\* No subcategoria_id: the first live subcategory of the category, if any.
ProductCreateDefault(r, c) ==
    /\ Live(c)
    /\ \/ \E s \in LiveSubs({c}) : Begin(r, "insertProduct", None, s)
       \/ LiveSubs({c}) = {} /\ Begin(r, "autoGeneral", None, c)

\* Otherwise a subcategory General is inserted and committed on its own, which
\* the unique slug refuses when there has been one in this category.
AutoGeneral(r, s) ==
    /\ req[r].pc = "autoGeneral"
    /\ Fresh(s)
    /\ ~GeneralTaken(req[r].to)
    /\ row' = [row EXCEPT ![s] = "live"]
    /\ parent' = [parent EXCEPT ![s] = req[r].to]
    /\ general' = [general EXCEPT ![s] = req[r].to]
    /\ req' = [req EXCEPT ![r].pc = "insertProduct", ![r].to = s]
    /\ Remember(r, {s})
    /\ UNCHANGED home

AutoGeneralConflict(r) ==
    req[r].pc = "autoGeneral" /\ GeneralTaken(req[r].to) /\ Refuse(r)

ProductInsert(r, p) ==
    /\ req[r].pc = "insertProduct"
    /\ Fresh(p)
    /\ row' = [row EXCEPT ![p] = "live"]
    /\ parent' = [parent EXCEPT ![p] = req[r].to]
    /\ Release(r)
    /\ Remember(r, {p})
    /\ UNCHANGED <<home, general>>

\* uq_products_tenant_slug refuses the product; a General made for it stays.
ProductInsertFails(r) == req[r].pc = "insertProduct" /\ Refuse(r)

\* The new subcategory must be live; its branch is not compared.
ProductMoveRead(r, p, s) ==
    /\ ProductReachable(p)
    /\ Live(s)
    /\ parent[p] # s
    /\ Begin(r, "moveProduct", p, s)

ProductMove(r) ==
    /\ req[r].pc = "moveProduct"
    /\ parent' = [parent EXCEPT ![req[r].node] = req[r].to]
    /\ Release(r)
    /\ Remember(r, {req[r].node})
    /\ UNCHANGED <<row, home, general>>

-----------------------------------------------------------------------------
(* The four deletes: products, then subcategories, then categories are       *)
(* selected, each by a SELECT of its own, and all are committed at once.     *)

CategoryDeletable(c) == Live(c)

\* CategoryService.delete protects the Home category.
CategoryNotProtected(c) == Live(c) /\ c \notin home

BranchDelete(r, b)   == Live(b) /\ Begin(r, "pickProducts", b, None)
CategoryDelete(r, c) == CategoryNotProtected(c) /\ Begin(r, "pickProducts", c, None)
SubDelete(r, s)      == SubReachable(s) /\ Begin(r, "pickProducts", s, None)
ProductDelete(r, p)  == ProductReachable(p) /\ Begin(r, "commitDelete", p, None)

Pick(r, from, S, to) ==
    /\ req[r].pc = from
    /\ req' = [req EXCEPT ![r].pc = to, ![r].picked = @ \cup S]
    /\ UNCHANGED <<row, parent, home, general, raced>>

PickProducts(r) ==
    Pick(r, "pickProducts", LiveProds(SubsUnder(req[r].node)),
         IF req[r].node \in Subcategory THEN "commitDelete" ELSE "pickSubs")

PickSubs(r) ==
    Pick(r, "pickSubs", SubsUnder(req[r].node),
         IF req[r].node \in Category THEN "commitDelete" ELSE "pickCats")

PickCats(r) == Pick(r, "pickCats", CatsUnder(req[r].node), "commitDelete")

KeepChildren(r) == {req[r].node}

Doomed(r) == req[r].picked \cup {req[r].node}

CommitDelete(r) ==
    /\ req[r].pc = "commitDelete"
    /\ row' = [n \in Node |-> IF n \in Doomed(r) THEN "deleted" ELSE row[n]]
    /\ raced' = raced \ Doomed(r)
    /\ req' = [x \in Req |-> IF x = r THEN Idle
                             ELSE [req[x] EXCEPT !.stale = req[x].pc \notin {"idle"} \cup Deleting]]
    /\ UNCHANGED <<parent, home, general>>

-----------------------------------------------------------------------------
Create(r) ==
    \/ \E b \in Branch : BranchCreate(r, b)
    \/ \E c \in Category : \/ BranchGeneral(r, c)
                           \/ \E b \in Branch : CategoryCreate(r, c, b)
                           \/ SubCreateRead(r, c)
                           \/ ProductCreateDefault(r, c)
                           \/ \E s \in Subcategory : ProductCreateRead(r, c, s)
    \/ \E s \in Subcategory : SubInsert(r, s) \/ AutoGeneral(r, s)
    \/ \E p \in Product : ProductInsert(r, p)
    \/ BranchGeneralFails(r)
    \/ AutoGeneralConflict(r)
    \/ ProductInsertFails(r)

Update(r) ==
    \/ \E s \in Subcategory : \/ SubRenameRead(r, s)
                              \/ \E c \in Category : SubMoveRead(r, s, c)
                              \/ \E p \in Product : ProductMoveRead(r, p, s)
    \/ SubRename(r)
    \/ SubMove(r)
    \/ ProductMove(r)

Delete(r) ==
    \/ \E b \in Branch : BranchDelete(r, b)
    \/ \E c \in Category : CategoryDelete(r, c)
    \/ \E s \in Subcategory : SubDelete(r, s)
    \/ \E p \in Product : ProductDelete(r, p)
    \/ PickProducts(r)
    \/ PickSubs(r)
    \/ PickCats(r)
    \/ CommitDelete(r)

Next == \E r \in Req : Create(r) \/ Update(r) \/ Delete(r)

Spec == Init /\ [][Next]_vars

-----------------------------------------------------------------------------
(* Properties *)

TypeOK ==
    /\ row \in [Node -> {"free", "live", "deleted"}]
    /\ parent \in [Child -> Node \cup {None}]
    /\ home \subseteq Category
    /\ general \in [Subcategory -> Category \cup {None}]
    /\ raced \subseteq Child
    /\ req \in [Req -> [pc : PC, node : Node \cup {None}, to : Node \cup {None},
                        picked : SUBSET Child, stale : BOOLEAN]]

Orphan(n) == n \in Subcategory \cup Product /\ Live(n) /\ row[parent[n]] = "deleted"

\* The cascade leaves no live row under a deleted subcategory or category,
\* except rows another request wrote while a delete was under way.
OrphansOnlyByRace == \A n \in Subcategory \cup Product : Orphan(n) => n \in raced

\* p lies under a deleted row, and no request got hold of p or of the rows up
\* to that one before.
Lost(p) ==
    /\ Live(p)
    /\ \E chain \in {{p, parent[p]}, {p, parent[p], parent[parent[p]]}} :
         /\ \E n \in chain : row[n] = "deleted"
         /\ \A r \in Req : req[r].node \notin chain /\ p \notin req[r].picked

\* A product lost in a race is lost for good: no update, no delete and no
\* cascade reaches it, and no move above it brings it back.
OrphansStayPut == [][\A p \in Product : Lost(p) => Lost(p)']_vars

\* No order of moves takes a subcategory out of the branch it was created in.
SubcategoryKeepsBranch ==
    [][\A s \in Subcategory :
         ~Fresh(s) => parent'[parent'[s]] = parent[parent[s]]]_vars

\* The Home category goes only together with its whole branch.
HomeFallsOnlyWithBranch ==
    [][\A c \in home : Live(c) /\ row'[c] = "deleted" => row'[parent[c]] = "deleted"]_vars

\* A product stays in the branch it was created in.
ProductKeepsBranch ==
    [][\A p \in Product :
         ~Fresh(p) => parent'[parent'[parent'[p]]] = parent[parent[parent[p]]]]_vars

\* A product can be created in any live category without naming a subcategory:
\* there is a live one to take or the slug of a General one is free.
DefaultSubcategoryAvailable ==
    \A c \in Category : Live(c) => LiveSubs({c}) # {} \/ ~GeneralTaken(c)
=============================================================================
