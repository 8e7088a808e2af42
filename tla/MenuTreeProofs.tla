--------------------------- MODULE MenuTreeProofs ---------------------------
(***************************************************************************)
(* Proofs about MenuTree for any number of rows and of requests at a time: *)
(* what the cascade of a delete misses was written meanwhile, such rows    *)
(* are lost for good, and no request breaks the levels of the tree.        *)
(***************************************************************************)
EXTENDS MenuTree, TLAPS

Request == [pc : PC, node : Node \cup {None}, to : Node \cup {None},
            picked : SUBSET Child, stale : BOOLEAN]

\* f is a row of the level above n's.
Above(f, n) ==
    \/ n \in Category /\ f \in Branch
    \/ n \in Subcategory /\ f \in Category
    \/ n \in Product /\ f \in Subcategory

\* A row that was made has a parent on the level above that was made before it.
Parents == \A n \in Child : ~Fresh(n) => Above(parent[n], n) /\ ~Fresh(parent[n])

\* What a request refers to was made, and is on the level its step works on.
Aimed(r) ==
    LET q == req[r]
    IN /\ q.node # None => q.node \in Node /\ ~Fresh(q.node)
       /\ q.to # None => q.to \in Node /\ ~Fresh(q.to)
       /\ \A n \in q.picked : ~Fresh(n)
       /\ q.pc = "general" => q.to \in Branch
       /\ q.pc \in {"insertSub", "autoGeneral"} => q.to \in Category
       /\ q.pc = "insertProduct" => q.to \in Subcategory
       /\ q.pc = "renameSub" => q.node \in Subcategory
       /\ q.pc = "moveSub" => q.node \in Subcategory /\ q.to \in Category
       /\ q.pc = "moveProduct" => q.node \in Product /\ q.to \in Subcategory

\* What a delete has picked is what the SELECTs so far return.
PickedByLevel(r) ==
    LET q == req[r]
    IN /\ q.pc = "pickProducts" => q.node \in Branch \cup Category \cup Subcategory /\ q.picked = {}
       /\ q.pc = "pickSubs" => q.node \in Branch \cup Category /\ q.picked \subseteq Product
       /\ q.pc = "pickCats" => q.node \in Branch /\ q.picked \subseteq Product \cup Subcategory
       /\ q.pc = "commitDelete" => q.node \in Node

\* A move of a subcategory was checked to stay in the branch.
MovesInBranch(r) ==
    req[r].pc = "moveSub" => parent[req[r].to] = parent[parent[req[r].node]]

\* The Home category is picked only together with its branch.
HomeSpared(r) ==
    req[r].pc \in Deleting =>
      /\ req[r].node \notin home
      /\ \A c \in req[r].picked \cap Category : parent[c] = req[r].node

Shape ==
    /\ TypeOK
    /\ Parents
    /\ \A r \in Req : Aimed(r) /\ PickedByLevel(r) /\ MovesInBranch(r) /\ HomeSpared(r)

-----------------------------------------------------------------------------
(* What no step undoes *)

\* Rows are never unmade; a category stays where it was created, and so does
\* a subcategory's branch; nothing makes a Home category.
Keeps ==
    /\ \A n \in Node : ~Fresh(n) => row'[n] # "free"
    /\ \A c \in Category : ~Fresh(c) => parent'[c] = parent[c]
    /\ \A s \in Subcategory : ~Fresh(s) => parent'[parent'[s]] = parent[parent[s]]
    /\ home' = home

\* A request that goes on as before stays well aimed.
LEMMA ShapeOfOthers ==
    ASSUME Shape, Keeps, NEW r \in Req,
           req'[r].pc = req[r].pc, req'[r].node = req[r].node,
           req'[r].to = req[r].to, req'[r].picked = req[r].picked
    PROVE  Aimed(r)' /\ PickedByLevel(r)' /\ MovesInBranch(r)' /\ HomeSpared(r)'
<1> USE DEF Shape, Keeps
<1>1. req[r].picked \subseteq Child BY DEF TypeOK
<1>2. Child \subseteq Node BY DEF Node, Child
<1>3. Aimed(r)' BY <1>1, <1>2 DEF Aimed, Fresh
<1>4. PickedByLevel(r)' BY DEF PickedByLevel
<1>5. MovesInBranch(r)'
  <2> SUFFICES ASSUME req[r].pc = "moveSub"
               PROVE  parent'[req[r].to] = parent'[parent'[req[r].node]]
    BY DEF MovesInBranch
  <2>1. req[r].node \in Subcategory /\ req[r].to \in Category /\ ~Fresh(req[r].node) /\ ~Fresh(req[r].to)
    BY LevelsAssumption DEF Aimed, Node, Child
  <2> QED BY <2>1 DEF MovesInBranch
<1>6. HomeSpared(r)'
  <2>1. \A c \in req[r].picked \cap Category : parent'[c] = parent[c] BY DEF Aimed
  <2> QED BY <2>1 DEF HomeSpared, Deleting
<1> QED BY <1>3, <1>4, <1>5, <1>6

\* A step of r from which the types, the levels and r's own record are known.
LEMMA ShapeStep ==
    ASSUME Shape, Keeps, TypeOK', Parents', NEW r \in Req,
           Aimed(r)', PickedByLevel(r)', MovesInBranch(r)', HomeSpared(r)',
           \A x \in Req \ {r} : req'[x] = req[x]
    PROVE  Shape'
<1>1. ASSUME NEW x \in Req \ {r}
      PROVE  Aimed(x)' /\ PickedByLevel(x)' /\ MovesInBranch(x)' /\ HomeSpared(x)'
  BY <1>1, ShapeOfOthers
<1> QED BY <1>1 DEF Shape

\* An idle request.
LEMMA IdleShape ==
    ASSUME NEW r \in Req, req[r] = Idle
    PROVE  Aimed(r) /\ PickedByLevel(r) /\ MovesInBranch(r) /\ HomeSpared(r)
BY DEF Idle, Aimed, PickedByLevel, MovesInBranch, HomeSpared, Deleting

LEMMA IdleShapePrime ==
    ASSUME NEW r \in Req, req'[r] = Idle
    PROVE  Aimed(r)' /\ PickedByLevel(r)' /\ MovesInBranch(r)' /\ HomeSpared(r)'
BY DEF Idle, Aimed, PickedByLevel, MovesInBranch, HomeSpared, Deleting

LEMMA IdleRequest == Idle \in Request
BY DEF Idle, Request, PC

LEMMA InitShape == Init => Shape
<1> SUFFICES ASSUME Init PROVE Shape OBVIOUS
<1>1. TypeOK
  <2>1. req \in [Req -> Request] BY IdleRequest DEF Init
  <2>2. parent \in [Child -> Node \cup {None}] BY SeedAssumption DEF Init, Node
  <2> QED BY <2>1, <2>2, SeedAssumption DEF Init, TypeOK, Request
<1>2. Parents
  BY SeedAssumption, LevelsAssumption DEF Init, Parents, Fresh, Above, Node, Child
<1> QED BY <1>1, <1>2, IdleShape DEF Shape, Init

-----------------------------------------------------------------------------
(* The steps, by what they do to the tree *)

\* A request begins: the tree stays.
LEMMA BeginShape ==
    ASSUME Shape, NEW r \in Req, NEW pc \in PC, NEW node \in Node \cup {None},
           NEW to \in Node \cup {None}, Begin(r, pc, node, to),
           node # None => ~Fresh(node),
           to # None => ~Fresh(to),
           pc # "general",
           pc \in {"insertSub", "autoGeneral"} => to \in Category,
           pc = "insertProduct" => to \in Subcategory,
           pc = "renameSub" => node \in Subcategory,
           pc = "moveSub" => /\ node \in Subcategory /\ to \in Category
                             /\ parent[to] = parent[parent[node]],
           pc = "moveProduct" => node \in Product /\ to \in Subcategory,
           pc = "pickProducts" => node \in Branch \cup Category \cup Subcategory,
           pc \notin {"pickSubs", "pickCats"},
           pc = "commitDelete" => node \in Node,
           pc \in Deleting => node \notin home
    PROVE  Shape'
<1> DEFINE q == [Idle EXCEPT !.pc = pc, !.node = node, !.to = to]
<1>1. /\ q \in Request /\ q.pc = pc /\ q.node = node /\ q.to = to /\ q.picked = {}
  BY DEF Idle, Request
<1>2. req' = [req EXCEPT ![r] = q] /\ UNCHANGED <<row, parent, home, general, raced>>
  BY DEF Begin
<1> HIDE DEF q
<1>3. req'[r] = q /\ \A x \in Req \ {r} : req'[x] = req[x]
  BY <1>2 DEF Shape, TypeOK
<1>4. TypeOK' BY <1>1, <1>2 DEF Shape, TypeOK, Request
<1>5. Keeps BY <1>2 DEF Keeps, Fresh
<1>6. Parents' BY <1>2 DEF Shape, Parents, Fresh
<1>7. Aimed(r)' /\ PickedByLevel(r)' BY <1>1, <1>2, <1>3 DEF Aimed, PickedByLevel, Fresh
<1>8. MovesInBranch(r)' /\ HomeSpared(r)' BY <1>1, <1>2, <1>3 DEF MovesInBranch, HomeSpared
<1> QED BY <1>3, <1>4, <1>5, <1>6, <1>7, <1>8, ShapeStep

\* A request ends and changes the tree as Keeps allows.
LEMMA EndShape ==
    ASSUME Shape, NEW r \in Req, Release(r), Keeps, Parents',
           row' \in [Node -> {"free", "live", "deleted"}],
           parent' \in [Child -> Node \cup {None}],
           general' \in [Subcategory -> Category \cup {None}],
           raced' \subseteq Child
    PROVE  Shape'
<1>1. req' = [req EXCEPT ![r] = Idle] BY DEF Release
<1>2. req'[r] = Idle /\ \A x \in Req \ {r} : req'[x] = req[x] BY <1>1 DEF Shape, TypeOK
<1>3. TypeOK' BY <1>1, IdleRequest DEF Shape, TypeOK, Keeps, Request
<1> QED BY <1>2, <1>3, IdleShapePrime, ShapeStep

LEMMA RefuseShape ==
    ASSUME Shape, NEW r \in Req, Refuse(r)
    PROVE  Shape'
BY EndShape DEF Refuse, Shape, TypeOK, Keeps, Parents, Fresh

LEMMA RememberType ==
    ASSUME Shape, NEW r \in Req, NEW N \in SUBSET Child, Remember(r, N)
    PROVE  raced' \subseteq Child
BY DEF Shape, TypeOK, Remember

\* A row n is made under f.
LEMMA MintKeeps ==
    ASSUME Shape, NEW n \in Child, NEW f \in Node, Fresh(n), ~Fresh(f), Above(f, n),
           row' = [row EXCEPT ![n] = "live"],
           parent' = [parent EXCEPT ![n] = f],
           home' = home
    PROVE  Keeps /\ Parents' /\ row' \in [Node -> {"free", "live", "deleted"}]
             /\ parent' \in [Child -> Node \cup {None}]
<1>1. n \in Node BY DEF Node, Child
<1>2. /\ row \in [Node -> {"free", "live", "deleted"}]
      /\ parent \in [Child -> Node \cup {None}]
  BY DEF Shape, TypeOK
<1>3. row' \in [Node -> {"free", "live", "deleted"}] /\ parent' \in [Child -> Node \cup {None}]
  BY <1>2
<1>4. \A x \in Node : row'[x] = IF x = n THEN "live" ELSE row[x]
  BY <1>1, <1>2
<1>5. \A x \in Child : parent'[x] = IF x = n THEN f ELSE parent[x]
  BY <1>2
<1>6. Parents'
  <2> SUFFICES ASSUME NEW x \in Child, row'[x] # "free"
               PROVE  Above(parent'[x], x) /\ row'[parent'[x]] # "free"
    BY DEF Parents, Fresh, Above
  <2>1. x \in Node BY DEF Node, Child
  <2>2. CASE x = n BY <2>2, <1>4, <1>5 DEF Fresh
  <2>3. CASE x # n
    <3>1. Above(parent[x], x) /\ ~Fresh(parent[x]) BY <2>1, <2>3, <1>4 DEF Shape, Parents, Fresh
    <3>2. parent[x] \in Node BY <3>1 DEF Above, Node
    <3> QED BY <2>3, <3>1, <3>2, <1>4, <1>5 DEF Fresh
  <2> QED BY <2>2, <2>3
<1>7. Keeps
  <2>1. \A s \in Subcategory : ~Fresh(s) => parent[s] \in Category /\ ~Fresh(parent[s])
    BY LevelsAssumption DEF Shape, Parents, Above, Child
  <2>2. \A s \in Subcategory : ~Fresh(s) => parent'[parent'[s]] = parent[parent[s]]
    BY <2>1, <1>5 DEF Child, Fresh
  <2> QED BY <2>2, <1>4, <1>5 DEF Keeps, Fresh, Child
<1> QED BY <1>3, <1>6, <1>7

\* A row n goes from one parent to another, f.
LEMMA MoveKeeps ==
    ASSUME Shape, NEW n \in Subcategory \cup Product, NEW f \in Node, ~Fresh(n), ~Fresh(f), Above(f, n),
           n \in Subcategory => parent[f] = parent[parent[n]],
           parent' = [parent EXCEPT ![n] = f],
           row' = row, home' = home
    PROVE  Keeps /\ Parents' /\ parent' \in [Child -> Node \cup {None}]
<1>1. n \in Child BY DEF Child
<1>2. parent \in [Child -> Node \cup {None}] BY DEF Shape, TypeOK
<1>3. \A x \in Child : parent'[x] = IF x = n THEN f ELSE parent[x] BY <1>2
<1>4. Parents' BY <1>3 DEF Shape, Parents, Fresh, Above
<1>5. Keeps
  <2>1. \A s \in Subcategory : ~Fresh(s) => parent[s] \in Category /\ ~Fresh(parent[s])
    BY LevelsAssumption DEF Shape, Parents, Above, Child
  <2>2. \A c \in Category : parent'[c] = parent[c] BY <1>3, LevelsAssumption DEF Child
  <2>3. n \in Subcategory => f \in Category BY LevelsAssumption DEF Above
  <2>4. \A s \in Subcategory : ~Fresh(s) => parent'[parent'[s]] = parent[parent[s]]
    BY <2>1, <2>2, <2>3, <1>3 DEF Child
  <2> QED BY <2>2, <2>4 DEF Keeps, Fresh
<1> QED BY <1>2, <1>4, <1>5
-----------------------------------------------------------------------------
(* The actions *)

LEMMA BranchCreateShape ==
    ASSUME Shape, NEW r \in Req, NEW b \in Branch, BranchCreate(r, b)
    PROVE  Shape'
<1> DEFINE q == [Idle EXCEPT !.pc = "general", !.to = b]
<1>1. q \in Request /\ q.pc = "general" /\ q.node = None /\ q.to = b /\ q.picked = {}
  BY DEF Idle, Request, PC, Node
<1>2. req' = [req EXCEPT ![r] = q] /\ row' = [row EXCEPT ![b] = "live"]
        /\ UNCHANGED <<parent, home, general, raced>>
  BY DEF BranchCreate
<1> HIDE DEF q
<1>3. req'[r] = q /\ \A x \in Req \ {r} : req'[x] = req[x] BY <1>2 DEF Shape, TypeOK
<1>4. b \in Node /\ b \notin Child /\ None \notin Node BY LevelsAssumption DEF Node
<1>5. /\ row' \in [Node -> {"free", "live", "deleted"}]
      /\ \A n \in Node : row'[n] = IF n = b THEN "live" ELSE row[n]
  BY <1>2, <1>4 DEF Shape, TypeOK
<1>6. Keeps BY <1>2, <1>5, LevelsAssumption DEF Keeps, Fresh
<1>7. Parents'
  <2>1. \A n \in Child : n \in Node /\ n # b BY <1>4 DEF Node, Child
  <2>2. ASSUME NEW n \in Child, row'[n] # "free"
        PROVE  Above(parent'[n], n) /\ row'[parent'[n]] # "free"
    <3>1. Above(parent[n], n) /\ ~Fresh(parent[n])
      BY <2>1, <2>2, <1>2, <1>5 DEF Shape, Parents, Fresh
    <3>2. parent[n] \in Node BY <3>1 DEF Above, Node
    <3> QED BY <3>1, <3>2, <1>2, <1>5 DEF Fresh
  <2> QED BY <2>2 DEF Parents, Fresh, Above
<1>8. TypeOK' BY <1>1, <1>2, <1>5 DEF Shape, TypeOK, Request
<1>9. Aimed(r)' /\ PickedByLevel(r)' /\ MovesInBranch(r)' /\ HomeSpared(r)'
  BY <1>1, <1>2, <1>3, <1>4, <1>5 DEF Aimed, PickedByLevel, MovesInBranch, HomeSpared, Deleting, Fresh
<1> QED BY <1>3, <1>6, <1>7, <1>8, <1>9, ShapeStep

\* The creates that end a request with a row n under f.
LEMMA MintShape ==
    ASSUME Shape, NEW r \in Req, NEW n \in Child, NEW f \in Node,
           Fresh(n), ~Fresh(f), Above(f, n),
           row' = [row EXCEPT ![n] = "live"],
           parent' = [parent EXCEPT ![n] = f],
           Release(r), Remember(r, {n}),
           UNCHANGED <<home, general>>
    PROVE  Shape'
<1>1. raced' \subseteq Child BY RememberType
<1>2. general' \in [Subcategory -> Category \cup {None}] BY DEF Shape, TypeOK
<1> QED BY <1>1, <1>2, MintKeeps, EndShape

LEMMA CreateShape ==
    ASSUME Shape, NEW r \in Req, Create(r)
    PROVE  Shape'
<1> USE DEF Node, Child
<1>0. Aimed(r) /\ TypeOK /\ \A c \in Category : Above(parent[c], c) <=> parent[c] \in Branch
  BY LevelsAssumption DEF Shape, Above
<1>1. ASSUME NEW b \in Branch, BranchCreate(r, b) PROVE Shape'
  BY <1>1, BranchCreateShape
<1>2. ASSUME NEW c \in Category, BranchGeneral(r, c) PROVE Shape'
  <2>1. req[r].to \in Branch /\ ~Fresh(req[r].to)
    BY <1>0, <1>2, LevelsAssumption DEF BranchGeneral, Aimed
  <2> QED BY <1>2, <2>1, MintShape DEF BranchGeneral, Above
<1>3. ASSUME NEW c \in Category, NEW b \in Branch, CategoryCreate(r, c, b) PROVE Shape'
  <2>1. Keeps /\ Parents' /\ row' \in [Node -> {"free", "live", "deleted"}]
          /\ parent' \in [Child -> Node \cup {None}]
    BY <1>3, MintKeeps DEF CategoryCreate, Above
  <2>2. raced' \subseteq Child BY <1>3, RememberType DEF CategoryCreate
  <2>3. TypeOK' BY <1>0, <1>3, <2>1, <2>2 DEF CategoryCreate, TypeOK
  <2>4. Aimed(r)' /\ PickedByLevel(r)' /\ MovesInBranch(r)' /\ HomeSpared(r)'
    BY <1>3, <2>1, ShapeOfOthers DEF CategoryCreate
  <2> QED BY <1>3, <2>1, <2>3, <2>4, ShapeStep DEF CategoryCreate
<1>4. ASSUME NEW c \in Category, SubCreateRead(r, c) PROVE Shape'
  BY <1>4, BeginShape DEF SubCreateRead, Live, Fresh, PC, Deleting
<1>5. ASSUME NEW c \in Category, ProductCreateDefault(r, c) PROVE Shape'
  <2>1. ASSUME NEW s \in LiveSubs({c}), Begin(r, "insertProduct", None, s) PROVE Shape'
    BY <2>1, BeginShape DEF LiveSubs, Live, Fresh, PC, Deleting
  <2>2. CASE Begin(r, "autoGeneral", None, c)
    BY <1>5, <2>2, BeginShape DEF ProductCreateDefault, Live, Fresh, PC, Deleting
  <2> QED BY <1>5, <2>1, <2>2 DEF ProductCreateDefault
<1>6. ASSUME NEW c \in Category, NEW s \in Subcategory, ProductCreateRead(r, c, s) PROVE Shape'
  BY <1>6, BeginShape DEF ProductCreateRead, Live, Fresh, PC, Deleting
<1>7. ASSUME NEW s \in Subcategory, SubInsert(r, s) PROVE Shape'
  <2>1. req[r].to \in Category /\ ~Fresh(req[r].to)
    BY <1>0, <1>7, LevelsAssumption DEF SubInsert, Aimed
  <2> QED BY <1>7, <2>1, MintShape DEF SubInsert, Above
<1>8. ASSUME NEW s \in Subcategory, AutoGeneral(r, s) PROVE Shape'
  <2> DEFINE c == req[r].to
  <2>1. c \in Category /\ ~Fresh(c)
    BY <1>0, <1>8, LevelsAssumption DEF AutoGeneral, Aimed
  <2>2. Keeps /\ Parents' /\ row' \in [Node -> {"free", "live", "deleted"}]
          /\ parent' \in [Child -> Node \cup {None}]
    BY <1>8, <2>1, MintKeeps DEF AutoGeneral, Above
  <2>3. raced' \subseteq Child BY <1>8, RememberType DEF AutoGeneral
  <2>4. req' = [req EXCEPT ![r].pc = "insertProduct", ![r].to = s] BY <1>8 DEF AutoGeneral
  <2> DEFINE q == [req[r] EXCEPT !.pc = "insertProduct", !.to = s]
  <2>5. /\ q \in Request /\ q.pc = "insertProduct" /\ q.to = s
        /\ q.node = req[r].node /\ q.picked = req[r].picked
    BY <1>0 DEF TypeOK, Request, PC
  <2>10. req' = [req EXCEPT ![r] = q] BY <2>4
  <2> HIDE DEF q
  <2>6. /\ req'[r] = q /\ \A x \in Req \ {r} : req'[x] = req[x]
        /\ req' \in [Req -> Request]
    BY <1>0, <2>5, <2>10 DEF TypeOK, Request
  <2>7. TypeOK' BY <1>0, <1>8, <2>1, <2>2, <2>3, <2>6 DEF AutoGeneral, TypeOK, Request
  <2>8. row'[s] = "live" BY <1>0, <1>8 DEF AutoGeneral, TypeOK
  <2>9. Aimed(r)' /\ PickedByLevel(r)' /\ MovesInBranch(r)' /\ HomeSpared(r)'
    <3>1. /\ req'[r].pc = "insertProduct" /\ req'[r].to = s
          /\ req'[r].node = req[r].node /\ req'[r].picked = req[r].picked
      BY <2>5, <2>6
    <3>2. req[r].picked \subseteq Child BY <1>0 DEF TypeOK
    <3>3. Aimed(r)' BY <1>0, <2>2, <2>8, <3>1, <3>2 DEF Aimed, Keeps, Fresh
    <3> QED BY <3>1, <3>3 DEF PickedByLevel, MovesInBranch, HomeSpared, Deleting
  <2> QED BY <2>2, <2>6, <2>7, <2>9, ShapeStep
<1>9. ASSUME NEW p \in Product, ProductInsert(r, p) PROVE Shape'
  <2>1. req[r].to \in Subcategory /\ ~Fresh(req[r].to)
    BY <1>0, <1>9, LevelsAssumption DEF ProductInsert, Aimed
  <2> QED BY <1>9, <2>1, MintShape DEF ProductInsert, Above
<1>10. ASSUME BranchGeneralFails(r) \/ AutoGeneralConflict(r) \/ ProductInsertFails(r)
       PROVE  Shape'
  BY <1>10, RefuseShape DEF BranchGeneralFails, AutoGeneralConflict, ProductInsertFails
<1> QED BY <1>1, <1>2, <1>3, <1>4, <1>5, <1>6, <1>7, <1>8, <1>9, <1>10 DEF Create

LEMMA UpdateShape ==
    ASSUME Shape, NEW r \in Req, Update(r)
    PROVE  Shape'
<1> USE DEF Node, Child
<1>0. Aimed(r) /\ TypeOK /\ MovesInBranch(r) BY DEF Shape
<1>1. ASSUME NEW s \in Subcategory, SubRenameRead(r, s) PROVE Shape'
  BY <1>1, BeginShape DEF SubRenameRead, SubReachable, Live, Fresh, PC, Deleting
<1>2. ASSUME NEW s \in Subcategory, NEW c \in Category, SubMoveRead(r, s, c) PROVE Shape'
  BY <1>2, BeginShape DEF SubMoveRead, SubReachable, CategoryOfBranch, Live, Fresh, PC, Deleting
<1>3. ASSUME NEW s \in Subcategory, NEW p \in Product, ProductMoveRead(r, p, s) PROVE Shape'
  BY <1>3, BeginShape DEF ProductMoveRead, ProductReachable, Live, Fresh, PC, Deleting
<1>4. CASE SubRename(r)
  <2>1. req[r].node \in Subcategory BY <1>0, <1>4 DEF SubRename, Aimed
  <2>2. Keeps /\ Parents' BY <1>4 DEF SubRename, Keeps, Shape, Parents, Fresh
  <2> QED BY <1>0, <1>4, <2>1, <2>2, EndShape DEF SubRename, TypeOK
<1>5. CASE SubMove(r)
  <2> DEFINE s == req[r].node
             c == req[r].to
  <2>1. /\ s \in Subcategory /\ c \in Category /\ ~Fresh(s) /\ ~Fresh(c)
        /\ parent[c] = parent[parent[s]]
    BY <1>0, <1>5, LevelsAssumption DEF SubMove, Aimed, MovesInBranch
  <2>2. CASE parent' = [parent EXCEPT ![s] = c] /\ Release(r)
               /\ Remember(r, {s} \cup LiveProds({s})) /\ UNCHANGED <<row, home, general>>
    <3>1. Keeps /\ Parents' /\ parent' \in [Child -> Node \cup {None}]
      BY <2>1, <2>2, MoveKeeps DEF Above
    <3>2. raced' \subseteq Child BY <2>1, <2>2, RememberType DEF LiveProds
    <3> QED BY <1>0, <2>2, <3>1, <3>2, EndShape DEF TypeOK
  <2>3. CASE Refuse(r) BY <2>3, RefuseShape
  <2> QED BY <1>5, <2>2, <2>3 DEF SubMove
<1>6. CASE ProductMove(r)
  <2> DEFINE p == req[r].node
             s == req[r].to
  <2>1. p \in Product /\ s \in Subcategory /\ ~Fresh(p) /\ ~Fresh(s)
    BY <1>0, <1>6, LevelsAssumption DEF ProductMove, Aimed
  <2>2. Keeps /\ Parents' /\ parent' \in [Child -> Node \cup {None}]
    BY <1>6, <2>1, MoveKeeps, LevelsAssumption DEF ProductMove, Above
  <2>3. raced' \subseteq Child BY <1>6, <2>1, RememberType DEF ProductMove
  <2> QED BY <1>0, <1>6, <2>2, <2>3, EndShape DEF ProductMove, TypeOK
<1> QED BY <1>1, <1>2, <1>3, <1>4, <1>5, <1>6 DEF Update

-----------------------------------------------------------------------------
(* The deletes *)

\* The SELECTs of the cascade return live rows of one level.
LEMMA SelectsByLevel ==
    ASSUME Shape, NEW n \in Branch \cup Category \cup Subcategory
    PROVE  /\ LiveProds(SubsUnder(n)) \subseteq Product
           /\ n \notin Subcategory => SubsUnder(n) \subseteq {s \in Subcategory : Live(s)}
           /\ n \in Subcategory => SubsUnder(n) = {n}
           /\ n \in Branch => CatsUnder(n) = LiveCats(n)
           /\ n \notin Branch => CatsUnder(n) = {n}
BY DEF LiveProds, SubsUnder, LiveSubs, CatsUnder

\* A SELECT of r adds the rows S, of the level that is due, to what it picked.
LEMMA PickShape ==
    ASSUME Shape, NEW r \in Req, NEW from \in Deleting, NEW S \in SUBSET Child,
           NEW to \in {"pickSubs", "pickCats", "commitDelete"},
           Pick(r, from, S, to),
           \A n \in S : Live(n),
           \A c \in S \cap Category : parent[c] = req[r].node,
           to = "pickSubs" => req[r].node \in Branch \cup Category /\ S \subseteq Product
                                /\ req[r].picked = {},
           to = "pickCats" => req[r].node \in Branch /\ S \subseteq Subcategory
                                /\ req[r].picked \subseteq Product,
           req[r].node \in Node
    PROVE  Shape'
<1> DEFINE q == [req[r] EXCEPT !.pc = to, !.picked = @ \cup S]
<1>1. Aimed(r) /\ HomeSpared(r) /\ req[r] \in Request /\ req \in [Req -> Request]
  BY DEF Shape, TypeOK, Request
<1>2. /\ q \in Request /\ q.pc = to /\ q.picked = req[r].picked \cup S
      /\ q.node = req[r].node /\ q.to = req[r].to
  BY <1>1 DEF Request, PC
<1>3. req' = [req EXCEPT ![r] = q] BY <1>1 DEF Pick
<1>4. req[r].pc \in Deleting /\ UNCHANGED <<row, parent, home, general, raced>> BY DEF Pick
<1> HIDE DEF q
<1>5. /\ req'[r] = q /\ \A x \in Req \ {r} : req'[x] = req[x]
      /\ req' \in [Req -> Request]
  BY <1>1, <1>2, <1>3
<1>6. TypeOK' BY <1>4, <1>5 DEF Shape, TypeOK, Request
<1>7. Keeps /\ Parents' BY <1>4 DEF Keeps, Shape, Parents, Fresh
<1>8. Aimed(r)'
  BY <1>1, <1>2, <1>4, <1>5 DEF Aimed, Live, Fresh
<1>9. PickedByLevel(r)' BY <1>2, <1>5 DEF PickedByLevel
<1>10. MovesInBranch(r)' BY <1>2, <1>5 DEF MovesInBranch
<1>11. HomeSpared(r)' BY <1>1, <1>2, <1>4, <1>5 DEF HomeSpared
<1> QED BY <1>5, <1>6, <1>7, <1>8, <1>9, <1>10, <1>11, ShapeStep

\* The commit changes others' requests in stale alone.
LEMMA CommitFacts ==
    ASSUME Shape, NEW r \in Req, CommitDelete(r)
    PROVE  /\ req[r].node \in Node /\ ~Fresh(req[r].node)
           /\ Doomed(r) \subseteq Node /\ \A n \in Doomed(r) : ~Fresh(n)
           /\ \A n \in Node : row'[n] = IF n \in Doomed(r) THEN "deleted" ELSE row[n]
           /\ req'[r] = Idle
           /\ \A x \in Req \ {r} :
                /\ req'[x].pc = req[x].pc /\ req'[x].node = req[x].node
                /\ req'[x].to = req[x].to /\ req'[x].picked = req[x].picked
                /\ req'[x].stale = (req[x].pc \notin {"idle"} \cup Deleting)
           /\ req' \in [Req -> Request]
<1>1. /\ req \in [Req -> Request]
      /\ req[r].node \in Node /\ ~Fresh(req[r].node)
      /\ \A n \in req[r].picked : ~Fresh(n)
      /\ req[r].picked \subseteq Node
  BY LevelsAssumption DEF Shape, TypeOK, Request, Aimed, PickedByLevel, CommitDelete, Node, Child
<1>2. ASSUME NEW x \in Req \ {r}
      PROVE  /\ req'[x] \in Request
             /\ req'[x].pc = req[x].pc /\ req'[x].node = req[x].node
             /\ req'[x].to = req[x].to /\ req'[x].picked = req[x].picked
             /\ req'[x].stale = (req[x].pc \notin {"idle"} \cup Deleting)
  <2> DEFINE b == req[x].pc \notin {"idle"} \cup Deleting
  <2>1. req'[x] = [req[x] EXCEPT !.stale = b] BY DEF CommitDelete
  <2>2. b \in BOOLEAN /\ req[x] \in Request BY <1>1
  <2> HIDE DEF b
  <2>3. /\ req'[x] \in Request /\ req'[x].stale = b
        /\ req'[x].pc = req[x].pc /\ req'[x].node = req[x].node
        /\ req'[x].to = req[x].to /\ req'[x].picked = req[x].picked
    BY <2>1, <2>2 DEF Request
  <2> QED BY <2>3 DEF b
<1>3. req'[r] = Idle BY DEF CommitDelete
<1>4. req' \in [Req -> Request]
  <2>1. req' = [x \in Req |-> req'[x]] BY DEF CommitDelete
  <2>2. \A x \in Req : req'[x] \in Request BY <1>2, <1>3, IdleRequest
  <2> QED BY <2>1, <2>2
<1>5. Doomed(r) \subseteq Node /\ \A n \in Doomed(r) : ~Fresh(n) BY <1>1 DEF Doomed
<1>6. \A n \in Node : row'[n] = IF n \in Doomed(r) THEN "deleted" ELSE row[n]
  BY DEF CommitDelete
<1> QED BY <1>1, <1>2, <1>3, <1>4, <1>5, <1>6

LEMMA CommitShape ==
    ASSUME Shape, NEW r \in Req, CommitDelete(r)
    PROVE  Shape'
<1>1. UNCHANGED <<parent, home, general>> /\ raced' \subseteq raced
      /\ row' \in [Node -> {"free", "live", "deleted"}]
  BY DEF CommitDelete, Shape, TypeOK
<1>2. Keeps BY <1>1, CommitFacts DEF Keeps, Fresh
<1>3. Parents'
  <2> SUFFICES ASSUME NEW n \in Child, row'[n] # "free"
               PROVE  Above(parent[n], n) /\ row'[parent[n]] # "free"
    BY <1>1 DEF Parents, Fresh, Above
  <2>1. n \in Node BY DEF Node, Child
  <2>2. Above(parent[n], n) /\ ~Fresh(parent[n])
    BY <2>1, CommitFacts DEF Shape, Parents, Fresh
  <2>3. parent[n] \in Node BY <2>2 DEF Above, Node
  <2> QED BY <2>2, <2>3, <1>2 DEF Keeps
<1>4. TypeOK' BY <1>1, CommitFacts DEF Shape, TypeOK, Request
<1>5. ASSUME NEW x \in Req
      PROVE  Aimed(x)' /\ PickedByLevel(x)' /\ MovesInBranch(x)' /\ HomeSpared(x)'
  <2>1. CASE x = r BY <2>1, CommitFacts, IdleShapePrime
  <2>2. CASE x # r BY <2>2, <1>2, CommitFacts, ShapeOfOthers
  <2> QED BY <2>1, <2>2
<1> QED BY <1>3, <1>4, <1>5 DEF Shape

LEMMA DeleteShape ==
    ASSUME Shape, NEW r \in Req, Delete(r)
    PROVE  Shape'
<1> USE DEF Node, Child
<1>0. Aimed(r) /\ PickedByLevel(r) /\ TypeOK BY DEF Shape
<1>1. ASSUME NEW b \in Branch, BranchDelete(r, b) PROVE Shape'
  <2>1. b \notin home BY LevelsAssumption, <1>0 DEF TypeOK
  <2> QED BY <1>1, <2>1, BeginShape DEF BranchDelete, Live, Fresh, PC, Deleting
<1>2. ASSUME NEW c \in Category, CategoryDelete(r, c) PROVE Shape'
  BY <1>2, BeginShape DEF CategoryDelete, CategoryNotProtected, Live, Fresh, PC, Deleting
<1>3. ASSUME NEW s \in Subcategory, SubDelete(r, s) PROVE Shape'
  <2>1. s \notin home BY LevelsAssumption, <1>0 DEF TypeOK
  <2> QED BY <1>3, <2>1, BeginShape DEF SubDelete, SubReachable, Live, Fresh, PC, Deleting
<1>4. ASSUME NEW p \in Product, ProductDelete(r, p) PROVE Shape'
  <2>1. p \notin home BY LevelsAssumption, <1>0 DEF TypeOK
  <2> QED BY <1>4, <2>1, BeginShape DEF ProductDelete, ProductReachable, Live, Fresh, PC, Deleting
<1>5. CASE PickProducts(r)
  <2>1. req[r].node \in Branch \cup Category \cup Subcategory /\ req[r].picked = {}
    BY <1>0, <1>5 DEF PickProducts, Pick, PickedByLevel
  <2>2. /\ LiveProds(SubsUnder(req[r].node)) \subseteq Product
        /\ \A n \in LiveProds(SubsUnder(req[r].node)) : Live(n) /\ n \notin Category
    BY <2>1, LevelsAssumption DEF LiveProds
  <2> QED BY <1>5, <2>1, <2>2, PickShape DEF PickProducts, Deleting
<1>6. CASE PickSubs(r)
  <2>1. req[r].node \in Branch \cup Category /\ req[r].picked \subseteq Product
    BY <1>0, <1>6 DEF PickSubs, Pick, PickedByLevel
  <2>2. /\ SubsUnder(req[r].node) \subseteq Subcategory
        /\ \A n \in SubsUnder(req[r].node) : Live(n) /\ n \notin Category
    BY <2>1, SelectsByLevel, LevelsAssumption
  <2> QED BY <1>6, <2>1, <2>2, PickShape DEF PickSubs, Deleting
<1>7. CASE PickCats(r)
  <2>1. req[r].node \in Branch
    BY <1>0, <1>7 DEF PickCats, Pick, PickedByLevel
  <2>2. /\ CatsUnder(req[r].node) \subseteq Category
        /\ \A n \in CatsUnder(req[r].node) : Live(n) /\ parent[n] = req[r].node
    BY <2>1 DEF CatsUnder, LiveCats
  <2> QED BY <1>7, <2>1, <2>2, PickShape DEF PickCats, Deleting
<1>8. CASE CommitDelete(r) BY <1>8, CommitShape
<1> QED BY <1>1, <1>2, <1>3, <1>4, <1>5, <1>6, <1>7, <1>8 DEF Delete

LEMMA NextShape == Shape /\ [Next]_vars => Shape'
<1> SUFFICES ASSUME Shape, [Next]_vars PROVE Shape' OBVIOUS
<1>1. ASSUME NEW r \in Req, Create(r) \/ Update(r) \/ Delete(r) PROVE Shape'
  BY <1>1, CreateShape, UpdateShape, DeleteShape
<1>2. CASE UNCHANGED vars
  BY <1>2 DEF vars, Shape, TypeOK, Parents, Fresh, Above, Aimed, PickedByLevel, MovesInBranch,
              HomeSpared, Deleting
<1> QED BY <1>1, <1>2 DEF Next

\* The inductive invariant of the menu tree: types, levels, and what the
\* requests under way refer to.
THEOREM ShapeInvariant == Spec => []Shape
<1> QED BY InitShape, NextShape, PTL DEF Spec

\* Type correctness.
THEOREM TypeCorrect == Spec => []TypeOK
<1>1. Shape => TypeOK BY DEF Shape
<1> QED BY <1>1, ShapeInvariant, PTL

-----------------------------------------------------------------------------
(* Every step is of one of nine kinds *)

Writing == {"insertSub", "insertProduct", "autoGeneral", "moveSub", "moveProduct"}

\* Of the children in N, those written while a delete is under way are raced.
Remembers(r, N) ==
    /\ raced \subseteq raced'
    /\ req[r].stale \/ DeleteUnderWay => N \subseteq raced'

OthersStay(r) == \A x \in Req \ {r} : req'[x] = req[x]

Begun(r) ==
    \E pc \in PC \ {"pickSubs", "pickCats"}, node \in Node \cup {None}, to \in Node \cup {None} :
        /\ Begin(r, pc, node, to)
        /\ pc \in Writing => Live(to)
        /\ pc = "commitDelete" => node \in Product
        /\ node \in Product => ProductReachable(node)
        /\ node \in Subcategory => SubReachable(node)
        /\ node \in Category => Live(node)

Ended(r) == Release(r) /\ UNCHANGED <<row, parent, home, raced>>

NewBranch(r) ==
    /\ \E b \in Branch : Fresh(b) /\ row' = [row EXCEPT ![b] = "live"]
    /\ UNCHANGED <<parent, home, raced>>
    /\ OthersStay(r)
    /\ req'[r].pc = "general" /\ req'[r].node = None /\ req'[r].picked = {}

Minted(r, n, f) ==
    /\ Fresh(n) /\ ~Fresh(f) /\ Above(f, n)
    /\ n \in Category \/ (req[r].pc \in Writing /\ f = req[r].to)
    /\ row' = [row EXCEPT ![n] = "live"]
    /\ parent' = [parent EXCEPT ![n] = f]
    /\ home' = home
    /\ Remembers(r, {n})
    /\ OthersStay(r)
    /\ req'[r].pc \notin Deleting
    /\ req'[r].pc \in Writing => req'[r].to = n
    /\ req'[r].node \in {req[r].node, None} /\ req'[r].picked \subseteq req[r].picked

Moved(r, n, f) ==
    /\ ~Fresh(n) /\ ~Fresh(f) /\ Above(f, n)
    /\ n \in Subcategory => parent[f] = parent[parent[n]]
    /\ req[r].pc \in Writing /\ n = req[r].node /\ f = req[r].to
    /\ parent' = [parent EXCEPT ![n] = f]
    /\ UNCHANGED <<row, home>>
    /\ Release(r)
    /\ Remembers(r, {n} \cup LiveProds({n}))

Kinds(r) ==
    \/ Begun(r) \/ Ended(r) \/ NewBranch(r)
    \/ \E n \in Child, f \in Node : Minted(r, n, f)
    \/ \E n \in Subcategory \cup Product, f \in Node : Moved(r, n, f)
    \/ PickProducts(r) \/ PickSubs(r) \/ PickCats(r) \/ CommitDelete(r)

\* What Release leaves.
LEMMA Released ==
    ASSUME Shape, NEW r \in Req, Release(r)
    PROVE  /\ OthersStay(r)
           /\ req'[r] = Idle /\ req'[r].pc = "idle" /\ req'[r].node = None /\ req'[r].picked = {}
BY DEF Shape, TypeOK, Release, OthersStay, Idle

LEMMA RememberRemembers ==
    ASSUME NEW r \in Req, NEW N, Remember(r, N)
    PROVE  Remembers(r, N)
BY DEF Remember, Remembers

\* The creates that end with a row.
LEMMA InsertKind ==
    ASSUME Shape, NEW r \in Req, NEW n \in Child, NEW f \in Node,
           Fresh(n), ~Fresh(f), Above(f, n),
           n \in Category \/ (req[r].pc \in Writing /\ f = req[r].to),
           row' = [row EXCEPT ![n] = "live"],
           parent' = [parent EXCEPT ![n] = f],
           home' = home, Release(r), Remember(r, {n})
    PROVE  Minted(r, n, f)
<1>1. Remembers(r, {n}) BY RememberRemembers
<1> QED BY <1>1, Released DEF Minted, Writing, Deleting

LEMMA CreateKind ==
    ASSUME Shape, NEW r \in Req, Create(r)
    PROVE  Kinds(r)
<1> USE DEF Node, Child
<1>0. Aimed(r) /\ TypeOK BY DEF Shape
<1>1. ASSUME NEW b \in Branch, BranchCreate(r, b) PROVE Kinds(r)
  <2> DEFINE q == [Idle EXCEPT !.pc = "general", !.to = b]
  <2>1. q.pc = "general" /\ q.node = None /\ q.picked = {} BY DEF Idle
  <2>2. req' = [req EXCEPT ![r] = q] BY <1>1 DEF BranchCreate
  <2> HIDE DEF q
  <2>3. req'[r] = q /\ OthersStay(r) BY <1>0, <2>2 DEF TypeOK, OthersStay
  <2>4. NewBranch(r) BY <1>1, <2>1, <2>3 DEF BranchCreate, NewBranch
  <2> QED BY <2>4 DEF Kinds
<1>2. ASSUME NEW c \in Category, BranchGeneral(r, c) PROVE Kinds(r)
  <2>1. req[r].to \in Branch /\ ~Fresh(req[r].to)
    BY <1>0, <1>2, LevelsAssumption DEF BranchGeneral, Aimed
  <2>2. Minted(r, c, req[r].to) BY <1>2, <2>1, InsertKind DEF BranchGeneral, Above
  <2> QED BY <2>1, <2>2 DEF Kinds
<1>3. ASSUME NEW c \in Category, NEW b \in Branch, CategoryCreate(r, c, b) PROVE Kinds(r)
  <2>1. Remembers(r, {c}) BY <1>3, RememberRemembers DEF CategoryCreate
  <2>2. Minted(r, c, b)
    BY <1>3, <2>1 DEF CategoryCreate, Minted, Above, OthersStay, Deleting, Writing
  <2> QED BY <2>2 DEF Kinds
<1>4. ASSUME NEW c \in Category, SubCreateRead(r, c) PROVE Kinds(r)
  <2>1. Begun(r) BY <1>4, LevelsAssumption DEF SubCreateRead, Begun, PC
  <2> QED BY <2>1 DEF Kinds
<1>5. ASSUME NEW c \in Category, ProductCreateDefault(r, c) PROVE Kinds(r)
  <2>1. ASSUME NEW s \in LiveSubs({c}), Begin(r, "insertProduct", None, s) PROVE Begun(r)
    BY <2>1, LevelsAssumption DEF LiveSubs, Begun, PC
  <2>2. CASE Begin(r, "autoGeneral", None, c)
    <3>1. Begun(r) BY <1>5, <2>2, LevelsAssumption DEF ProductCreateDefault, Begun, PC
    <3> QED BY <3>1 DEF Kinds
  <2> QED BY <1>5, <2>1, <2>2 DEF ProductCreateDefault, Kinds
<1>6. ASSUME NEW c \in Category, NEW s \in Subcategory, ProductCreateRead(r, c, s) PROVE Kinds(r)
  <2>1. Begun(r) BY <1>6, LevelsAssumption DEF ProductCreateRead, Begun, PC
  <2> QED BY <2>1 DEF Kinds
<1>7. ASSUME NEW s \in Subcategory, SubInsert(r, s) PROVE Kinds(r)
  <2>1. req[r].to \in Category /\ ~Fresh(req[r].to)
    BY <1>0, <1>7, LevelsAssumption DEF SubInsert, Aimed
  <2>2. Minted(r, s, req[r].to) BY <1>7, <2>1, InsertKind DEF SubInsert, Above, Writing
  <2> QED BY <2>1, <2>2 DEF Kinds
<1>8. ASSUME NEW s \in Subcategory, AutoGeneral(r, s) PROVE Kinds(r)
  <2> DEFINE q == [req[r] EXCEPT !.pc = "insertProduct", !.to = s]
  <2>1. req[r].to \in Category /\ ~Fresh(req[r].to)
    BY <1>0, <1>8, LevelsAssumption DEF AutoGeneral, Aimed
  <2>2. q.pc = "insertProduct" /\ q.to = s /\ q.node = req[r].node /\ q.picked = req[r].picked
    BY <1>0 DEF TypeOK
  <2>3. req' = [req EXCEPT ![r].pc = "insertProduct", ![r].to = s] BY <1>8 DEF AutoGeneral
  <2>4. req' = [req EXCEPT ![r] = q] BY <2>3
  <2> HIDE DEF q
  <2>5. req'[r] = q /\ OthersStay(r) BY <1>0, <2>4 DEF TypeOK, OthersStay
  <2>6. Remembers(r, {s}) BY <1>8, RememberRemembers DEF AutoGeneral
  <2>7. Minted(r, s, req[r].to)
    BY <1>8, <2>1, <2>2, <2>5, <2>6 DEF AutoGeneral, Minted, Above, Writing, Deleting
  <2> QED BY <2>1, <2>7 DEF Kinds
<1>9. ASSUME NEW p \in Product, ProductInsert(r, p) PROVE Kinds(r)
  <2>1. req[r].to \in Subcategory /\ ~Fresh(req[r].to)
    BY <1>0, <1>9, LevelsAssumption DEF ProductInsert, Aimed
  <2>2. Minted(r, p, req[r].to) BY <1>9, <2>1, InsertKind DEF ProductInsert, Above, Writing
  <2> QED BY <2>1, <2>2 DEF Kinds
<1>10. ASSUME BranchGeneralFails(r) \/ AutoGeneralConflict(r) \/ ProductInsertFails(r)
       PROVE  Kinds(r)
  BY <1>10 DEF BranchGeneralFails, AutoGeneralConflict, ProductInsertFails, Refuse, Ended, Kinds
<1> QED BY <1>1, <1>2, <1>3, <1>4, <1>5, <1>6, <1>7, <1>8, <1>9, <1>10 DEF Create

LEMMA UpdateKind ==
    ASSUME Shape, NEW r \in Req, Update(r)
    PROVE  Kinds(r)
<1> USE DEF Node, Child
<1>0. Aimed(r) /\ TypeOK /\ MovesInBranch(r) /\ Parents BY DEF Shape
<1>1. ASSUME NEW s \in Subcategory, SubRenameRead(r, s) PROVE Kinds(r)
  <2>1. Begun(r) BY <1>1, LevelsAssumption DEF SubRenameRead, Begun, PC, Writing
  <2> QED BY <2>1 DEF Kinds
<1>2. ASSUME NEW s \in Subcategory, NEW c \in Category, SubMoveRead(r, s, c) PROVE Kinds(r)
  <2>1. Begun(r) BY <1>2, LevelsAssumption DEF SubMoveRead, CategoryOfBranch, Begun, PC
  <2> QED BY <2>1 DEF Kinds
<1>3. ASSUME NEW s \in Subcategory, NEW p \in Product, ProductMoveRead(r, p, s) PROVE Kinds(r)
  <2>1. Begun(r) BY <1>3, LevelsAssumption DEF ProductMoveRead, Begun, PC
  <2> QED BY <2>1 DEF Kinds
<1>4. CASE SubRename(r) BY <1>4 DEF SubRename, Ended, Kinds
<1>5. CASE SubMove(r)
  <2> DEFINE s == req[r].node
             c == req[r].to
  <2>1. /\ s \in Subcategory /\ c \in Category /\ ~Fresh(s) /\ ~Fresh(c)
        /\ parent[c] = parent[parent[s]]
    BY <1>0, <1>5, LevelsAssumption DEF SubMove, Aimed, MovesInBranch
  <2>2. CASE parent' = [parent EXCEPT ![s] = c] /\ Release(r)
               /\ Remember(r, {s} \cup LiveProds({s})) /\ UNCHANGED <<row, home, general>>
    <3>1. Remembers(r, {s} \cup LiveProds({s})) BY <2>2, RememberRemembers
    <3>2. Moved(r, s, c) BY <1>5, <2>1, <2>2, <3>1 DEF SubMove, Moved, Above, Writing
    <3> QED BY <2>1, <3>2 DEF Kinds
  <2>3. CASE Refuse(r) BY <2>3 DEF Refuse, Ended, Kinds
  <2> QED BY <1>5, <2>2, <2>3 DEF SubMove
<1>6. CASE ProductMove(r)
  <2> DEFINE p == req[r].node
             s == req[r].to
  <2>1. p \in Product /\ s \in Subcategory /\ ~Fresh(p) /\ ~Fresh(s)
    BY <1>0, <1>6, LevelsAssumption DEF ProductMove, Aimed
  <2>2. LiveProds({p}) = {}
    BY <1>0, <2>1, LevelsAssumption DEF LiveProds, Live, Parents, Fresh, Above
  <2>3. Remembers(r, {p} \cup LiveProds({p})) BY <1>6, <2>2, RememberRemembers DEF ProductMove, Remembers
  <2>4. Moved(r, p, s)
    BY <1>6, <2>1, <2>3, LevelsAssumption DEF ProductMove, Moved, Above, Writing
  <2> QED BY <2>1, <2>4 DEF Kinds
<1> QED BY <1>1, <1>2, <1>3, <1>4, <1>5, <1>6 DEF Update

LEMMA DeleteKind ==
    ASSUME Shape, NEW r \in Req, Delete(r)
    PROVE  Kinds(r)
<1> USE DEF Node, Child
<1>1. ASSUME NEW b \in Branch, BranchDelete(r, b) PROVE Begun(r)
  BY <1>1, LevelsAssumption DEF BranchDelete, Begun, PC, Writing
<1>2. ASSUME NEW c \in Category, CategoryDelete(r, c) PROVE Begun(r)
  BY <1>2, LevelsAssumption DEF CategoryDelete, CategoryNotProtected, Begun, PC, Writing
<1>3. ASSUME NEW s \in Subcategory, SubDelete(r, s) PROVE Begun(r)
  BY <1>3, LevelsAssumption DEF SubDelete, Begun, PC, Writing
<1>4. ASSUME NEW p \in Product, ProductDelete(r, p) PROVE Begun(r)
  BY <1>4, LevelsAssumption DEF ProductDelete, Begun, PC, Writing
<1> QED BY <1>1, <1>2, <1>3, <1>4 DEF Delete, Kinds

LEMMA NextKind ==
    ASSUME Shape, Next
    PROVE  \E r \in Req : Kinds(r)
BY CreateKind, UpdateKind, DeleteKind DEF Next

\* No step takes anything back that Keeps names.
LEMMA NextKeeps ==
    ASSUME Shape, Next
    PROVE  Keeps
<1>1. PICK r \in Req : Kinds(r) BY NextKind
<1>2. CASE Begun(r) \/ Ended(r) \/ PickProducts(r) \/ PickSubs(r) \/ PickCats(r)
  BY <1>2 DEF Begun, Begin, Ended, PickProducts, PickSubs, PickCats, Pick, Keeps, Fresh
<1>3. CASE NewBranch(r)
  <2>1. PICK b \in Branch : row' = [row EXCEPT ![b] = "live"] BY <1>3 DEF NewBranch
  <2>2. \A n \in Node : ~Fresh(n) => row'[n] # "free" BY <2>1 DEF Shape, TypeOK, Fresh
  <2> QED BY <1>3, <2>2 DEF NewBranch, Keeps, Fresh
<1>4. ASSUME NEW n \in Child, NEW f \in Node, Minted(r, n, f) PROVE Keeps
  BY <1>4, MintKeeps DEF Minted
<1>5. ASSUME NEW n \in Subcategory \cup Product, NEW f \in Node, Moved(r, n, f) PROVE Keeps
  BY <1>5, MoveKeeps DEF Moved
<1>6. CASE CommitDelete(r)
  BY <1>6, CommitFacts DEF CommitDelete, Keeps, Fresh
<1> QED BY <1>1, <1>2, <1>3, <1>4, <1>5, <1>6 DEF Kinds

\* No order of requests, however many at a time, takes a subcategory out of the
\* branch it was created in: a move was checked against the branch's categories,
\* which never move.
THEOREM SubcategoryKeepsBranchHolds == Spec => SubcategoryKeepsBranch
<1>1. ASSUME Shape, Next
      PROVE  \A s \in Subcategory : ~Fresh(s) => parent'[parent'[s]] = parent[parent[s]]
  BY <1>1, NextKeeps DEF Keeps
<1>2. Shape /\ [Next]_vars =>
        [\A s \in Subcategory : ~Fresh(s) => parent'[parent'[s]] = parent[parent[s]]]_vars
  BY <1>1
<1> QED BY <1>2, ShapeInvariant, PTL DEF Spec, SubcategoryKeepsBranch

\* The Home category falls only with its whole branch.
THEOREM HomeFallsOnlyWithBranchHolds == Spec => HomeFallsOnlyWithBranch
<1>1. ASSUME Shape, Next, NEW c \in home, Live(c), row'[c] = "deleted"
      PROVE  row'[parent[c]] = "deleted"
  <2>1. c \in Category /\ c \in Node /\ c \in Child BY <1>1 DEF Shape, TypeOK, Node, Child
  <2>2. PICK r \in Req : Kinds(r) BY <1>1, NextKind
  <2>3. CommitDelete(r)
    <3>1. ~(UNCHANGED row) BY <1>1 DEF Live
    <3>2. ~NewBranch(r) BY <1>1, <2>1 DEF NewBranch, Live, Shape, TypeOK
    <3>3. \A n \in Child, f \in Node : ~Minted(r, n, f)
      BY <1>1, <2>1 DEF Minted, Live, Shape, TypeOK
    <3> QED BY <2>2, <3>1, <3>2, <3>3
         DEF Kinds, Begun, Begin, Ended, Moved, PickProducts, PickSubs, PickCats, Pick
  <2>4. c \in Doomed(r) BY <1>1, <2>1, <2>3, CommitFacts DEF Live
  <2>5. c \in req[r].picked /\ parent[c] = req[r].node
    BY <1>1, <2>1, <2>3, <2>4 DEF Shape, HomeSpared, Doomed, CommitDelete, Deleting
  <2> QED BY <1>1, <2>3, <2>5, CommitFacts DEF Doomed
<1>2. Shape /\ [Next]_vars =>
        [\A c \in home : Live(c) /\ row'[c] = "deleted" => row'[parent[c]] = "deleted"]_vars
  BY <1>1
<1> QED BY <1>2, ShapeInvariant, PTL DEF Spec, HomeFallsOnlyWithBranch

-----------------------------------------------------------------------------
(* A lost product stays lost *)

\* No request works on a row of the chain, or has picked the product.
Unheld(p, chain) == \A r \in Req : req[r].node \notin chain /\ p \notin req[r].picked

\* Why p is lost: its subcategory s is deleted; or s is live and its category is.
UnderDeletedSub(p) ==
    /\ p \in Product /\ Live(p) /\ row[parent[p]] = "deleted"
    /\ Unheld(p, {p, parent[p]})

UnderDeletedCategory(p) ==
    /\ p \in Product /\ Live(p)
    /\ Live(parent[p]) /\ row[parent[parent[p]]] = "deleted"
    /\ Unheld(p, {p, parent[p], parent[parent[p]]})

\* The levels of the rows above a product.
LEMMA Chain ==
    ASSUME Shape, NEW p \in Product, Live(p)
    PROVE  /\ parent[p] \in Subcategory /\ ~Fresh(parent[p])
           /\ parent[parent[p]] \in Category /\ ~Fresh(parent[parent[p]])
BY LevelsAssumption DEF Shape, Parents, Above, Child, Live, Fresh

LEMMA LostEither ==
    ASSUME Shape, NEW p \in Product
    PROVE  Lost(p) <=> UnderDeletedSub(p) \/ UnderDeletedCategory(p)
<1>1. ASSUME Lost(p) PROVE UnderDeletedSub(p) \/ UnderDeletedCategory(p)
  <2>1. Live(p) /\ row[p] # "deleted" BY <1>1 DEF Lost, Live
  <2>2. PICK chain \in {{p, parent[p]}, {p, parent[p], parent[parent[p]]}} :
          (\E n \in chain : row[n] = "deleted") /\ Unheld(p, chain)
    BY <1>1 DEF Lost, Unheld
  <2>3. parent[p] \in Node BY <2>1, Chain DEF Node
  <2>4. Live(parent[p]) \/ row[parent[p]] = "deleted"
    BY <2>1, <2>3, Chain DEF Live, Fresh, Shape, TypeOK
  <2> QED BY <2>1, <2>2, <2>4 DEF Unheld, UnderDeletedSub, UnderDeletedCategory, Live
<1>2. ASSUME UnderDeletedSub(p) PROVE Lost(p)
  BY <1>2 DEF UnderDeletedSub, Lost, Unheld
<1>3. ASSUME UnderDeletedCategory(p) PROVE Lost(p)
  BY <1>3 DEF UnderDeletedCategory, Lost, Unheld
<1> QED BY <1>1, <1>2, <1>3

\* A step keeps the chain as it is and p out of every request's reach when it
\* spares the rows of the chain and r takes hold of none.
LEMMA StillLost ==
    ASSUME Shape, NEW p \in Product, Lost(p), NEW r \in Req,
           row'[p] = "live",
           row'[parent[p]] = row[parent[p]] \/ row'[parent[p]] = "deleted",
           row[parent[parent[p]]] = "deleted" => row'[parent[parent[p]]] = "deleted",
           parent'[p] = parent[p], parent'[parent[p]] = parent[parent[p]],
           \A x \in Req \ {r} : req'[x].node = req[x].node /\ req'[x].picked = req[x].picked,
           p \notin req'[r].picked,
           req'[r].node \in {req[r].node, None}
             \/ req'[r].node \notin {p, parent[p], parent[parent[p]]}
             \/ (row[parent[p]] = "deleted" /\ req'[r].node = parent[parent[p]])
    PROVE  Lost(p)'
<1>1. Live(p) /\ Live(p)' BY DEF Lost, Live
<1>2. /\ parent[p] \in Subcategory /\ parent[parent[p]] \in Category
      /\ None \notin {p, parent[p], parent[parent[p]]}
      /\ parent[parent[p]] \notin {p, parent[p]}
  BY <1>1, Chain, LevelsAssumption DEF Node, Child
<1>3. CASE UnderDeletedSub(p)
  <2>1. row[parent[p]] = "deleted" /\ Unheld(p, {p, parent[p]}) BY <1>3 DEF UnderDeletedSub
  <2>2. \A x \in Req : req'[x].node \notin {p, parent[p]} /\ p \notin req'[x].picked
    BY <1>2, <2>1 DEF Unheld
  <2> QED BY <1>1, <2>1, <2>2 DEF Lost
<1>4. CASE UnderDeletedCategory(p)
  <2>1. /\ row[parent[p]] = "live" /\ row[parent[parent[p]]] = "deleted"
        /\ Unheld(p, {p, parent[p], parent[parent[p]]})
    BY <1>4 DEF UnderDeletedCategory, Live
  <2>2. \A x \in Req : /\ req'[x].node \notin {p, parent[p], parent[parent[p]]}
                       /\ p \notin req'[x].picked
    BY <1>2, <2>1 DEF Unheld
  <2> QED BY <1>1, <2>1, <2>2 DEF Lost
<1> QED BY <1>3, <1>4, LostEither

\* The SELECTs of a delete do not return a lost product.
LEMMA NotPicked ==
    ASSUME Shape, NEW p \in Product, Lost(p), NEW r \in Req, req[r].node \in Node
    PROVE  p \notin LiveProds(SubsUnder(req[r].node))
<1>1. CASE UnderDeletedSub(p)
  BY <1>1 DEF UnderDeletedSub, Unheld, LiveProds, SubsUnder, LiveSubs, Live
<1>2. CASE UnderDeletedCategory(p)
  BY <1>2 DEF UnderDeletedCategory, Unheld, LiveProds, SubsUnder, LiveSubs, CatsUnder,
              LiveCats, Live
<1> QED BY <1>1, <1>2, LostEither

LEMMA LostStep ==
    ASSUME Shape, Next, NEW p \in Product, Lost(p)
    PROVE  Lost(p)'
<1>1. PICK r \in Req : Kinds(r) BY NextKind
<1>2. Live(p) /\ row[p] = "live" /\ row[p] # "deleted" BY DEF Lost, Live
<1>3. /\ parent[p] \in Subcategory /\ parent[parent[p]] \in Category
      /\ ~Fresh(parent[p]) /\ ~Fresh(parent[parent[p]]) /\ ~Fresh(p)
      /\ p \in Node /\ parent[p] \in Node /\ parent[parent[p]] \in Node
      /\ p \in Child /\ parent[p] \in Child
      /\ None \notin {p, parent[p], parent[parent[p]]}
      /\ parent[parent[p]] \notin {p, parent[p]} /\ p # parent[p]
  BY <1>2, Chain, LevelsAssumption DEF Node, Child, Fresh
<1>4. TypeOK /\ \A x \in Req : p \notin req[x].picked /\ req[x].node \notin {p, parent[p]}
  BY DEF Shape, Lost
<1>5. CASE Begun(r)
  <2>1. PICK pc \in PC \ {"pickSubs", "pickCats"}, node \in Node \cup {None}, to \in Node \cup {None} :
          /\ Begin(r, pc, node, to)
          /\ node \in Product => ProductReachable(node)
          /\ node \in Subcategory => SubReachable(node)
          /\ node \in Category => Live(node)
    BY <1>5 DEF Begun
  <2> DEFINE q == [Idle EXCEPT !.pc = pc, !.node = node, !.to = to]
  <2>2. q.node = node /\ q.picked = {} BY DEF Idle
  <2>3. req' = [req EXCEPT ![r] = q] /\ UNCHANGED <<row, parent>> BY <2>1 DEF Begin
  <2> HIDE DEF q
  <2>4. req'[r] = q /\ \A x \in Req \ {r} : req'[x] = req[x] BY <1>4, <2>3 DEF TypeOK
  <2>5. node \notin {p, parent[p]}
    <3>1. CASE UnderDeletedSub(p)
      BY <2>1, <3>1, <1>3 DEF UnderDeletedSub, ProductReachable, SubReachable, Live
    <3>2. CASE UnderDeletedCategory(p)
      BY <2>1, <3>2, <1>3 DEF UnderDeletedCategory, ProductReachable, SubReachable, Live
    <3> QED BY <3>1, <3>2, LostEither
  <2>6. node = parent[parent[p]] => row[parent[p]] = "deleted"
    <3>1. UnderDeletedCategory(p) => row[parent[parent[p]]] = "deleted"
      BY DEF UnderDeletedCategory
    <3> QED BY <2>1, <3>1, <1>3, LostEither DEF UnderDeletedSub, Live
  <2> QED BY <1>2, <2>2, <2>3, <2>4, <2>5, <2>6, StillLost
<1>6. CASE Ended(r)
  BY <1>2, <1>4, <1>6, Released, StillLost DEF Ended, OthersStay
<1>7. CASE NewBranch(r)
  <2>1. PICK b \in Branch : Fresh(b) /\ row' = [row EXCEPT ![b] = "live"]
    BY <1>7 DEF NewBranch
  <2>2. \A n \in Node : ~Fresh(n) => row'[n] = row[n] BY <1>4, <2>1 DEF TypeOK
  <2> QED BY <1>2, <1>3, <1>7, <2>2, StillLost DEF NewBranch, OthersStay
<1>8. ASSUME NEW n \in Child, NEW f \in Node, Minted(r, n, f) PROVE Lost(p)'
  <2>1. \A m \in Node : ~Fresh(m) => row'[m] = row[m] BY <1>4, <1>8 DEF Minted, TypeOK
  <2>2. \A m \in Child : ~Fresh(m) => parent'[m] = parent[m] BY <1>4, <1>8 DEF Minted, TypeOK
  <2>3. p \notin req'[r].picked BY <1>4, <1>8 DEF Minted
  <2> QED BY <1>2, <1>3, <1>8, <2>1, <2>2, <2>3, StillLost DEF Minted, OthersStay
<1>9. ASSUME NEW n \in Subcategory \cup Product, NEW f \in Node, Moved(r, n, f) PROVE Lost(p)'
  <2>1. n \notin {p, parent[p]} BY <1>4, <1>9 DEF Moved
  <2>2. parent'[p] = parent[p] /\ parent'[parent[p]] = parent[parent[p]]
    BY <1>3, <1>4, <1>9, <2>1 DEF Moved, TypeOK
  <2> QED BY <1>2, <1>9, <2>2, Released, StillLost DEF Moved, OthersStay
<1>10. ASSUME NEW S, p \notin S, NEW from, NEW to, Pick(r, from, S, to) PROVE Lost(p)'
  <2> DEFINE q == [req[r] EXCEPT !.pc = to, !.picked = @ \cup S]
  <2>1. req[r] \in Request BY <1>4 DEF TypeOK, Request
  <2>2. q.node = req[r].node /\ q.picked = req[r].picked \cup S BY <2>1 DEF Request
  <2>3. req' = [req EXCEPT ![r] = q] /\ UNCHANGED <<row, parent>> BY <1>10 DEF Pick
  <2> HIDE DEF q
  <2>4. req'[r] = q /\ \A x \in Req \ {r} : req'[x] = req[x] BY <1>4, <2>3 DEF TypeOK
  <2>5. p \notin req'[r].picked BY <1>4, <1>10, <2>2, <2>4
  <2> QED BY <1>2, <2>2, <2>3, <2>4, <2>5, StillLost
<1>11. CASE PickProducts(r)
  <2>1. req[r].node \in Node
    BY <1>11 DEF PickProducts, Pick, Shape, PickedByLevel, Node
  <2> QED BY <1>10, <1>11, <2>1, NotPicked DEF PickProducts
<1>12. CASE PickSubs(r)
  <2>1. p \notin SubsUnder(req[r].node)
    BY <1>12, LevelsAssumption DEF SubsUnder, LiveSubs, PickSubs, Pick, Shape, PickedByLevel
  <2> QED BY <1>10, <1>12, <2>1 DEF PickSubs
<1>13. CASE PickCats(r)
  <2>1. p \notin CatsUnder(req[r].node)
    BY <1>13, LevelsAssumption DEF CatsUnder, LiveCats, PickCats, Pick, Shape, PickedByLevel
  <2> QED BY <1>10, <1>13, <2>1 DEF PickCats
<1>14. CASE CommitDelete(r)
  <2>1. p \notin Doomed(r) BY <1>3, <1>4 DEF Doomed
  <2>2. UNCHANGED parent BY <1>14 DEF CommitDelete
  <2>3. row'[p] = "live" BY <1>2, <1>3, <1>14, <2>1, CommitFacts
  <2>4. req'[r].node = None /\ req'[r].picked = {} BY <1>14, CommitFacts DEF Idle
  <2> QED BY <1>3, <1>14, <2>2, <2>3, <2>4, CommitFacts, StillLost
<1> QED BY <1>1, <1>5, <1>6, <1>7, <1>8, <1>9, <1>11, <1>12, <1>13, <1>14 DEF Kinds

\* A product lost in a race is lost for good, whatever the tree's size and
\* however many requests go on: the chain of live parents that every read and
\* every cascade follows is broken above it and nothing mends it.
THEOREM OrphansStayPutHolds == Spec => OrphansStayPut
<1>1. Shape /\ [Next]_vars => [\A p \in Product : Lost(p) => Lost(p)']_vars
  BY LostStep
<1> QED BY <1>1, ShapeInvariant, PTL DEF Spec, OrphansStayPut

-----------------------------------------------------------------------------
(* Orphans come from races only *)

\* The rows the commit of r will delete whose children its SELECTs have passed:
\* their live children are picked, or were written since.
Falling(r) ==
    LET q == req[r]
    IN CASE q.pc = "pickSubs" -> SubsUnder(q.node)
         [] q.pc = "pickCats" -> (q.picked \cap Subcategory) \cup LiveCats(q.node)
         [] q.pc = "commitDelete" -> Doomed(r)
         [] OTHER -> {}

ChildrenPicked(r) ==
    \A n \in Subcategory \cup Product :
        Live(n) /\ parent[n] \in Falling(r) => n \in Doomed(r) \cup raced

\* A writer whose parent-to-be was deleted meanwhile is stale.
WriterStale(r) ==
    req[r].pc \in Writing /\ req[r].to \in Node /\ row[req[r].to] = "deleted" => req[r].stale

Swept ==
    /\ Shape
    /\ OrphansOnlyByRace
    /\ \A r \in Req : ChildrenPicked(r) /\ WriterStale(r)

\* Levels: a subcategory's parent is a category, a product's a subcategory.
LEMMA Levels ==
    ASSUME Shape, NEW n \in Subcategory \cup Product, ~Fresh(n)
    PROVE  /\ n \in Subcategory => parent[n] \in Category
           /\ n \in Product => parent[n] \in Subcategory
           /\ parent[n] \in Node /\ ~Fresh(parent[n])
           /\ n \in Child /\ n \in Node
BY LevelsAssumption DEF Shape, Parents, Above, Child, Node

LEMMA InitSwept == Init => Swept
<1> SUFFICES ASSUME Init PROVE Swept OBVIOUS
<1>1. \A n \in Subcategory \cup Product : ~Live(n)
  BY SeedAssumption, LevelsAssumption DEF Init, Live, Node, Child
<1>2. OrphansOnlyByRace BY <1>1 DEF OrphansOnlyByRace, Orphan
<1>3. \A r \in Req : ChildrenPicked(r) BY <1>1 DEF ChildrenPicked
<1>4. \A r \in Req : WriterStale(r) BY DEF Init, Idle, WriterStale, Writing
<1> QED BY <1>2, <1>3, <1>4, InitShape DEF Swept

\* The step adds no live child under a row deleted or falling unless it is
\* remembered: what is left to show of the requests it does not concern.
LEMMA SweptOfOthers ==
    ASSUME Swept, NEW r \in Req,
           req'[r] = req[r],
           raced \subseteq raced',
           \A n \in Subcategory \cup Product :
             Live(n)' /\ parent'[n] \in Falling(r)' =>
               n \in raced' \/ (Live(n) /\ parent[n] \in Falling(r)),
           req[r].to \in Node /\ row'[req[r].to] = "deleted" => row[req[r].to] = "deleted"
    PROVE  ChildrenPicked(r)' /\ WriterStale(r)'
<1>1. Doomed(r)' = Doomed(r) BY DEF Doomed
<1>2. ChildrenPicked(r)' BY <1>1 DEF ChildrenPicked, Swept
<1>3. WriterStale(r)' BY DEF WriterStale, Swept
<1> QED BY <1>2, <1>3

\* A request that is not deleting has nothing to fall.
LEMMA NoFall ==
    ASSUME NEW r \in Req, req[r].pc \notin Deleting \/ req[r].pc = "pickProducts"
    PROVE  Falling(r) = {} /\ ChildrenPicked(r)
BY DEF Falling, ChildrenPicked, Deleting

LEMMA NoFallPrime ==
    ASSUME NEW r \in Req, req'[r].pc \notin Deleting \/ req'[r].pc = "pickProducts"
    PROVE  Falling(r)' = {} /\ ChildrenPicked(r)'
BY DEF Falling, ChildrenPicked, Deleting

-----------------------------------------------------------------------------

\* Steps that leave the tree alone.
LEMMA SweptUnderQuiet ==
    ASSUME Swept, UNCHANGED <<row, parent, raced>>, NEW r \in Req, req'[r] = req[r]
    PROVE  ChildrenPicked(r)' /\ WriterStale(r)'
BY DEF Swept, ChildrenPicked, WriterStale, Falling, Doomed, SubsUnder, CatsUnder, LiveSubs,
       LiveCats, Live

LEMMA QuietSwept ==
    ASSUME Swept, Shape', UNCHANGED <<row, parent, raced>>, NEW r \in Req, OthersStay(r),
           ChildrenPicked(r)', WriterStale(r)'
    PROVE  Swept'
<1>1. OrphansOnlyByRace' BY DEF Swept, OrphansOnlyByRace, Orphan, Live
<1>2. \A x \in Req \ {r} : ChildrenPicked(x)' /\ WriterStale(x)'
  BY SweptUnderQuiet DEF OthersStay
<1> QED BY <1>1, <1>2 DEF Swept

LEMMA BegunSwept ==
    ASSUME Swept, Shape', NEW r \in Req, Begun(r)
    PROVE  Swept'
<1>1. PICK pc \in PC \ {"pickSubs", "pickCats"}, node \in Node \cup {None}, to \in Node \cup {None} :
        /\ Begin(r, pc, node, to)
        /\ pc \in Writing => Live(to)
        /\ pc = "commitDelete" => node \in Product
  BY DEF Begun
<1> DEFINE q == [Idle EXCEPT !.pc = pc, !.node = node, !.to = to]
<1>2. q.pc = pc /\ q.node = node /\ q.to = to /\ q.picked = {} BY DEF Idle
<1>3. req' = [req EXCEPT ![r] = q] /\ UNCHANGED <<row, parent, raced>> BY <1>1 DEF Begin
<1> HIDE DEF q
<1>4. req'[r] = q /\ OthersStay(r) BY <1>3 DEF Swept, Shape, TypeOK, OthersStay
<1>5. ChildrenPicked(r)'
  <2>1. CASE pc = "commitDelete"
    <3>1. Falling(r)' = {node} /\ node \in Product BY <1>1, <1>2, <1>4, <2>1 DEF Falling, Doomed
    <3>2. \A n \in Subcategory \cup Product : Live(n)' => parent'[n] \notin Product
      BY Levels, LevelsAssumption, <1>3 DEF Live, Fresh, Swept
    <3> QED BY <3>1, <3>2 DEF ChildrenPicked
  <2>2. CASE pc # "commitDelete"
    <3>1. req'[r].pc \notin Deleting \/ req'[r].pc = "pickProducts"
      BY <1>1, <1>2, <1>4, <2>2 DEF Deleting
    <3> QED BY <3>1, NoFallPrime
  <2> QED BY <2>1, <2>2
<1>6. WriterStale(r)' BY <1>1, <1>2, <1>3, <1>4 DEF WriterStale, Live
<1> QED BY <1>3, <1>4, <1>5, <1>6, QuietSwept

LEMMA EndedSwept ==
    ASSUME Swept, Shape', NEW r \in Req, Ended(r)
    PROVE  Swept'
<1>1. OthersStay(r) /\ req'[r].pc = "idle" BY Released DEF Ended, Swept
<1>2. ChildrenPicked(r)' BY <1>1, NoFallPrime DEF Deleting
<1>3. WriterStale(r)' BY <1>1 DEF WriterStale, Writing
<1> QED BY <1>1, <1>2, <1>3, QuietSwept DEF Ended

\* A SELECT of the cascade: the rows it returns are children of what falls next.
LEMMA PickSwept ==
    ASSUME Swept, Shape', NEW r \in Req, NEW from \in Deleting, NEW S \in SUBSET Child,
           NEW to \in Deleting \ {"pickProducts"}, Pick(r, from, S, to),
           \A n \in Subcategory \cup Product :
             /\ Live(n)
             /\ \/ to = "pickSubs" /\ parent[n] \in SubsUnder(req[r].node)
                \/ to = "pickCats" /\ parent[n] \in ((req[r].picked \cup S) \cap Subcategory)
                                                      \cup LiveCats(req[r].node)
                \/ to = "commitDelete" /\ parent[n] \in req[r].picked \cup S \cup {req[r].node}
             => n \in S \/ parent[n] \in Falling(r)
    PROVE  Swept'
<1> DEFINE q == [req[r] EXCEPT !.pc = to, !.picked = @ \cup S]
<1>1. req[r] \in Request /\ req \in [Req -> Request] BY DEF Swept, Shape, TypeOK, Request
<1>2. q.pc = to /\ q.node = req[r].node /\ q.picked = req[r].picked \cup S BY <1>1 DEF Request
<1>3. req' = [req EXCEPT ![r] = q] /\ UNCHANGED <<row, parent, raced>> BY DEF Pick
<1> HIDE DEF q
<1>4. req'[r] = q /\ OthersStay(r) BY <1>1, <1>3 DEF OthersStay
<1>5. Falling(r)' = CASE to = "pickSubs" -> SubsUnder(req[r].node)
                      [] to = "pickCats" -> ((req[r].picked \cup S) \cap Subcategory)
                                              \cup LiveCats(req[r].node)
                      [] to = "commitDelete" -> req[r].picked \cup S \cup {req[r].node}
                      [] OTHER -> {}
  <2>1. \A b : LiveCats(b)' = LiveCats(b) BY <1>3 DEF LiveCats, Live
  <2>2. \A b : SubsUnder(b)' = SubsUnder(b)
    BY <1>3, <2>1 DEF SubsUnder, CatsUnder, LiveSubs, Live
  <2> QED BY <1>2, <1>4, <2>1, <2>2 DEF Falling, Doomed
<1>6. Doomed(r)' = Doomed(r) \cup S BY <1>2, <1>4 DEF Doomed
<1>7. ASSUME NEW n \in Subcategory \cup Product, Live(n), parent[n] \in Falling(r)'
      PROVE  n \in Doomed(r)' \cup raced
  <2>1. n \in S \/ parent[n] \in Falling(r) BY <1>5, <1>7 DEF Deleting
  <2> QED BY <1>6, <1>7, <2>1 DEF Swept, ChildrenPicked
<1>8. ChildrenPicked(r)' BY <1>3, <1>7 DEF ChildrenPicked, Live
<1>9. WriterStale(r)' BY <1>2, <1>4 DEF WriterStale, Writing, Deleting
<1> QED BY <1>3, <1>4, <1>8, <1>9, QuietSwept

LEMMA PickProductsSwept ==
    ASSUME Swept, Shape', NEW r \in Req, PickProducts(r)
    PROVE  Swept'
<1> DEFINE node == req[r].node
           S    == LiveProds(SubsUnder(node))
           to   == IF node \in Subcategory THEN "commitDelete" ELSE "pickSubs"
<1>1. Pick(r, "pickProducts", S, to) BY DEF PickProducts
<1>2. node \in Branch \cup Category \cup Subcategory /\ req[r].picked = {} /\ Shape
  BY <1>1 DEF Pick, Swept, Shape, PickedByLevel
<1>3. S \in SUBSET Child /\ to \in Deleting \ {"pickProducts"} BY DEF LiveProds, Child, Deleting
<1>4. ASSUME NEW n \in Subcategory \cup Product, Live(n)
      PROVE  /\ parent[n] \in SubsUnder(node) => n \in S
             /\ to = "commitDelete" /\ parent[n] \in S \cup {node} => n \in S
  <2>1. ~Fresh(n) BY <1>4 DEF Live, Fresh
  <2>2. /\ n \in Subcategory => parent[n] \in Category
        /\ n \in Product => parent[n] \in Subcategory
    BY <1>2, <2>1, Levels
  <2>3. SubsUnder(node) \subseteq Subcategory BY <1>2 DEF SubsUnder, LiveSubs
  <2>4. S \subseteq Product BY DEF LiveProds
  <2>5. parent[n] \in SubsUnder(node) => n \in S
    BY <1>4, <2>2, <2>3, LevelsAssumption DEF LiveProds, Child
  <2>6. ASSUME to = "commitDelete", parent[n] \in S \cup {node} PROVE n \in S
    <3>1. node \in Subcategory /\ SubsUnder(node) = {node} BY <2>6 DEF SubsUnder
    <3>2. parent[n] \notin S BY <2>2, <2>4, LevelsAssumption
    <3> QED BY <2>5, <2>6, <3>1, <3>2
  <2> QED BY <2>5, <2>6
<1>5. to # "pickCats" OBVIOUS
<1> HIDE DEF S, to
<1> QED BY <1>1, <1>2, <1>3, <1>4, <1>5, PickSwept DEF Deleting

LEMMA PickSubsSwept ==
    ASSUME Swept, Shape', NEW r \in Req, PickSubs(r)
    PROVE  Swept'
<1> DEFINE node == req[r].node
           S    == SubsUnder(node)
           to   == IF node \in Category THEN "commitDelete" ELSE "pickCats"
<1>1. Pick(r, "pickSubs", S, to) BY DEF PickSubs
<1>2. node \in Branch \cup Category /\ req[r].picked \subseteq Product /\ Shape
  BY <1>1 DEF Pick, Swept, Shape, PickedByLevel
<1>3. Falling(r) = S /\ to \in Deleting \ {"pickProducts"} /\ to # "pickSubs"
  BY <1>1 DEF Pick, Falling, Deleting
<1>4. S = LiveSubs(CatsUnder(node)) /\ S \subseteq Subcategory /\ S \in SUBSET Child
  BY <1>2, LevelsAssumption DEF SubsUnder, LiveSubs, Child
<1>5. ASSUME NEW n \in Subcategory \cup Product, Live(n)
      PROVE  /\ parent[n] \in ((req[r].picked \cup S) \cap Subcategory) \cup LiveCats(node)
                  /\ to = "pickCats" => n \in S \/ parent[n] \in S
             /\ parent[n] \in req[r].picked \cup S \cup {node}
                  /\ to = "commitDelete" => n \in S \/ parent[n] \in S
  <2>1. ~Fresh(n) BY <1>5 DEF Live, Fresh
  <2>2. /\ n \in Subcategory => parent[n] \in Category
        /\ n \in Product => parent[n] \in Subcategory
    BY <1>2, <2>1, Levels
  <2>3. parent[n] \notin req[r].picked BY <1>2, <2>2, LevelsAssumption
  <2>4. ASSUME to = "pickCats", parent[n] \in LiveCats(node) PROVE n \in S
    <3>1. CatsUnder(node) = LiveCats(node) BY <1>2, <2>4 DEF CatsUnder
    <3>2. n \in Subcategory BY <2>2, <2>4, LevelsAssumption DEF LiveCats
    <3> QED BY <1>4, <1>5, <2>4, <3>1, <3>2 DEF LiveSubs
  <2>5. ASSUME to = "commitDelete", parent[n] = node PROVE n \in S
    <3>1. node \in Category BY <2>5
    <3>2. CatsUnder(node) = {node} BY <3>1, LevelsAssumption DEF CatsUnder, Child
    <3>3. n \in Subcategory BY <2>2, <2>5, <3>1, LevelsAssumption
    <3> QED BY <1>4, <1>5, <2>5, <3>2, <3>3 DEF LiveSubs
  <2> HIDE DEF S, to
  <2> QED BY <2>3, <2>4, <2>5
<1> HIDE DEF S, to
<1> QED BY <1>1, <1>3, <1>4, <1>5, PickSwept DEF Deleting

LEMMA PickCatsSwept ==
    ASSUME Swept, Shape', NEW r \in Req, PickCats(r)
    PROVE  Swept'
<1> DEFINE node == req[r].node
           S    == CatsUnder(node)
<1>1. Pick(r, "pickCats", S, "commitDelete") BY DEF PickCats
<1>2. node \in Branch /\ req[r].picked \subseteq Product \cup Subcategory /\ Shape
  BY <1>1 DEF Pick, Swept, Shape, PickedByLevel
<1>3. /\ S = LiveCats(node) /\ S \in SUBSET Child
      /\ Falling(r) = (req[r].picked \cap Subcategory) \cup S
  BY <1>1, <1>2 DEF Pick, Falling, CatsUnder, LiveCats, Child
<1>4. ASSUME NEW n \in Subcategory \cup Product, Live(n),
             parent[n] \in req[r].picked \cup S \cup {node}
      PROVE  parent[n] \in Falling(r)
  <2>1. ~Fresh(n) BY <1>4 DEF Live, Fresh
  <2>2. parent[n] \in Category \cup Subcategory BY <1>2, <2>1, Levels
  <2> QED BY <1>2, <1>3, <1>4, <2>2, LevelsAssumption DEF Child
<1> HIDE DEF S
<1> QED BY <1>1, <1>3, <1>4, PickSwept DEF Deleting

-----------------------------------------------------------------------------

\* Steps that write the tree, from what becomes of the live children under a
\* deleted row and under a falling one.
LEMMA WriteSwept ==
    ASSUME Swept, Shape', NEW r \in Req, OthersStay(r), raced \subseteq raced',
           req'[r].pc \notin Deleting, WriterStale(r)',
           \A n \in Subcategory \cup Product : Orphan(n)' => n \in raced' \/ Orphan(n),
           \A x \in Req \ {r}, n \in Subcategory \cup Product :
             Live(n)' /\ parent'[n] \in Falling(x)' =>
               n \in raced' \/ (Live(n) /\ parent[n] \in Falling(x)),
           \A n \in Node : row'[n] = "deleted" => row[n] = "deleted"
    PROVE  Swept'
<1>1. OrphansOnlyByRace' BY DEF Swept, OrphansOnlyByRace
<1>2. \A x \in Req \ {r} : ChildrenPicked(x)' /\ WriterStale(x)'
  BY SweptOfOthers DEF OthersStay
<1>3. ChildrenPicked(r)' BY NoFallPrime
<1> QED BY <1>1, <1>2, <1>3 DEF Swept

LEMMA NewBranchSwept ==
    ASSUME Swept, Shape', NEW r \in Req, NewBranch(r)
    PROVE  Swept'
<1>1. PICK b \in Branch : Fresh(b) /\ row' = [row EXCEPT ![b] = "live"] BY DEF NewBranch
<1>2. \A n \in Node : row'[n] = IF n = b THEN "live" ELSE row[n]
  BY <1>1 DEF Swept, Shape, TypeOK
<1>3. \A n \in Child : n \in Node /\ n # b BY LevelsAssumption DEF Node, Child
<1>4. \A n \in Child : Live(n)' <=> Live(n) BY <1>2, <1>3 DEF Live
<1>5. parent' = parent /\ raced' = raced /\ OthersStay(r) /\ req'[r].pc = "general"
  BY DEF NewBranch
<1>6. ASSUME NEW x \in Req \ {r} PROVE Falling(x)' = Falling(x)
  BY <1>4, <1>5 DEF OthersStay, Falling, Doomed, SubsUnder, CatsUnder, LiveSubs, LiveCats, Child
<1>7. ASSUME NEW n \in Subcategory \cup Product, Orphan(n)' PROVE Orphan(n)
  <2>1. Live(n) /\ n \in Child /\ row'[parent[n]] = "deleted" BY <1>4, <1>5, <1>7 DEF Orphan, Child
  <2>2. parent[n] \in Node BY <2>1, Levels DEF Live, Fresh, Swept
  <2> QED BY <1>2, <2>1, <2>2 DEF Orphan
<1>8. WriterStale(r)' BY <1>5 DEF WriterStale, Writing
<1>9. req'[r].pc \notin Deleting BY <1>5 DEF Deleting
<1>10. \A n \in Node : row'[n] = "deleted" => row[n] = "deleted" BY <1>2
<1>11. \A x \in Req \ {r}, n \in Subcategory \cup Product :
         Live(n)' /\ parent'[n] \in Falling(x)' => Live(n) /\ parent[n] \in Falling(x)
  BY <1>4, <1>5, <1>6 DEF Child
<1> QED BY <1>5, <1>7, <1>8, <1>9, <1>10, <1>11, WriteSwept

LEMMA MintedSwept ==
    ASSUME Swept, Shape', NEW r \in Req, NEW n \in Child, NEW f \in Node, Minted(r, n, f)
    PROVE  Swept'
<1>1. Fresh(n) /\ ~Fresh(f) /\ Above(f, n) /\ n \in Node /\ Shape /\ TypeOK
  BY DEF Minted, Swept, Shape, Node, Child
<1>2. \A m \in Node : row'[m] = IF m = n THEN "live" ELSE row[m]
  BY <1>1 DEF Minted, TypeOK
<1>3. \A m \in Child : parent'[m] = IF m = n THEN f ELSE parent[m]
  BY <1>1 DEF Minted, TypeOK
<1>4. \A m \in Child : m \in Node BY DEF Node, Child
<1>5. \A m \in Child \ {n} : /\ Live(m)' <=> Live(m)
                             /\ parent'[m] = parent[m]
  BY <1>2, <1>3, <1>4 DEF Live
\* The new row has no children.
<1>6. \A m \in Subcategory \cup Product : Live(m) => parent[m] # n /\ m # n
  BY <1>1, Levels DEF Live, Fresh
<1>7. raced \subseteq raced' /\ OthersStay(r) BY DEF Minted, Remembers
<1>8. ASSUME NEW x \in Req \ {r}
      PROVE  Falling(x)' \subseteq Falling(x) \cup {n}
  <2>1. req'[x] = req[x] BY <1>7 DEF OthersStay
  <2>2. \A b : LiveCats(b)' \subseteq LiveCats(b) \cup {n}
    BY <1>5 DEF LiveCats, Child
  <2>3. ASSUME NEW m \in Subcategory \ {n}, NEW C, NEW D, C \subseteq D \cup {n}, m \in LiveSubs(C)'
        PROVE  m \in LiveSubs(D)
    BY <1>5, <1>6, <2>3 DEF LiveSubs, Child
  <2>4. \A b : CatsUnder(b)' \subseteq CatsUnder(b) \cup {n} BY <2>2 DEF CatsUnder
  <2>5. \A b : SubsUnder(b)' \subseteq SubsUnder(b) \cup {n}
    <3> SUFFICES ASSUME NEW b, NEW m \in SubsUnder(b)', m # n PROVE m \in SubsUnder(b)
      OBVIOUS
    <3>1. CASE b \in Subcategory BY <3>1 DEF SubsUnder
    <3>2. CASE b \notin Subcategory
      <4>1. m \in LiveSubs(CatsUnder(b))' /\ m \in Subcategory \ {n}
        BY <3>2 DEF SubsUnder, LiveSubs
      <4> QED BY <3>2, <4>1, <2>3, <2>4 DEF SubsUnder
    <3> QED BY <3>1, <3>2
  <2> QED BY <2>1, <2>2, <2>5 DEF Falling, Doomed
<1>9. ASSUME NEW x \in Req \ {r}, NEW m \in Subcategory \cup Product,
             Live(m)', parent'[m] \in Falling(x)'
      PROVE  m \in raced' \/ (Live(m) /\ parent[m] \in Falling(x))
  <2>1. CASE m = n
    <3>1. Falling(x)' # {} BY <1>9
    <3>2. req'[x].pc \in Deleting BY <3>1, NoFallPrime
    <3>3. DeleteUnderWay BY <3>2, <1>7 DEF OthersStay, DeleteUnderWay
    <3> QED BY <2>1, <3>3 DEF Minted, Remembers
  <2>2. CASE m # n
    <3>1. Live(m) /\ parent'[m] = parent[m] BY <2>2, <1>5, <1>9 DEF Child
    <3>2. parent[m] # n BY <3>1, <1>6
    <3> QED BY <3>1, <3>2, <1>8, <1>9
  <2> QED BY <2>1, <2>2
<1>10. ASSUME NEW m \in Subcategory \cup Product, Orphan(m)' PROVE m \in raced' \/ Orphan(m)
  <2>1. CASE m = n
    <3>1. row'[f] = "deleted" BY <1>3, <1>10, <2>1 DEF Orphan
    <3>2. row[f] = "deleted" BY <1>2, <3>1
    <3>3. req[r].pc \in Writing /\ f = req[r].to
      BY <1>10, <2>1, LevelsAssumption DEF Minted
    <3>4. req[r].stale BY <3>2, <3>3 DEF Swept, WriterStale
    <3> QED BY <2>1, <3>4 DEF Minted, Remembers
  <2>2. CASE m # n
    <3>1. Live(m) /\ parent'[m] = parent[m] BY <2>2, <1>5, <1>10 DEF Orphan, Child
    <3>2. parent[m] # n /\ parent[m] \in Node BY <3>1, <1>1, <1>6, Levels DEF Live, Fresh
    <3> QED BY <1>2, <1>10, <3>1, <3>2 DEF Orphan
  <2> QED BY <2>1, <2>2
<1>11. WriterStale(r)' BY <1>1, <1>2 DEF WriterStale, Minted
<1>12. \A m \in Node : row'[m] = "deleted" => row[m] = "deleted" BY <1>2
<1>13. req'[r].pc \notin Deleting BY DEF Minted
<1> QED BY <1>7, <1>9, <1>10, <1>11, <1>12, <1>13, WriteSwept

LEMMA MovedSwept ==
    ASSUME Swept, Shape', NEW r \in Req, NEW n \in Subcategory \cup Product, NEW f \in Node,
           Moved(r, n, f)
    PROVE  Swept'
<1>1. ~Fresh(n) /\ Above(f, n) /\ n \in Child /\ Shape /\ TypeOK /\ row' = row
  BY DEF Moved, Swept, Shape, Child
<1>2. \A m \in Child : parent'[m] = IF m = n THEN f ELSE parent[m]
  BY <1>1 DEF Moved, TypeOK
<1>3. \A m : Live(m)' <=> Live(m) BY <1>1 DEF Live
<1>4. raced \subseteq raced' /\ OthersStay(r) /\ req'[r].pc = "idle"
  BY <1>1, Released DEF Moved, Remembers
<1>5. ASSUME NEW x \in Req \ {r}
      PROVE  Falling(x)' \subseteq Falling(x) \cup {n}
  <2>1. req'[x] = req[x] BY <1>4 DEF OthersStay
  <2>2. \A c \in Category : parent'[c] = parent[c] BY <1>2, LevelsAssumption DEF Child
  <2>3. \A b : LiveCats(b)' = LiveCats(b) BY <1>3, <2>2 DEF LiveCats
  <2>4. \A b : CatsUnder(b)' = CatsUnder(b) BY <2>3 DEF CatsUnder
  <2>5. \A C : LiveSubs(C)' \subseteq LiveSubs(C) \cup {n} BY <1>2, <1>3 DEF LiveSubs, Child
  <2>6. \A b : SubsUnder(b)' \subseteq SubsUnder(b) \cup {n} BY <2>4, <2>5 DEF SubsUnder
  <2> QED BY <2>1, <2>3, <2>6 DEF Falling, Doomed
<1>6. ASSUME NEW x \in Req \ {r}, NEW m \in Subcategory \cup Product,
             Live(m)', parent'[m] \in Falling(x)'
      PROVE  m \in raced' \/ (Live(m) /\ parent[m] \in Falling(x))
  <2>1. Falling(x)' # {} BY <1>6
  <2>2. req'[x].pc \in Deleting BY <2>1, NoFallPrime
  <2>3. DeleteUnderWay BY <2>2, <1>4 DEF OthersStay, DeleteUnderWay
  <2>4. {n} \cup LiveProds({n}) \subseteq raced' BY <2>3 DEF Moved, Remembers
  <2>5. CASE m = n BY <2>4, <2>5
  <2>6. CASE m # n
    <3>1. Live(m) /\ parent'[m] = parent[m] /\ ~Fresh(m)
      BY <1>2, <1>3, <1>6, <2>6 DEF Child, Live, Fresh
    <3>2. CASE parent[m] = n
      <4>1. m \in Product BY <1>1, <3>1, <3>2, Levels, LevelsAssumption
      <4> QED BY <2>4, <3>1, <3>2, <4>1 DEF LiveProds
    <3>3. CASE parent[m] # n BY <1>5, <1>6, <3>1, <3>3
    <3> QED BY <3>2, <3>3
  <2> QED BY <2>5, <2>6
<1>7. ASSUME NEW m \in Subcategory \cup Product, Orphan(m)' PROVE m \in raced' \/ Orphan(m)
  <2>1. CASE m = n
    <3>1. row[f] = "deleted" BY <1>1, <1>2, <1>7, <2>1 DEF Orphan
    <3>2. req[r].stale BY <3>1 DEF Swept, WriterStale, Moved
    <3> QED BY <2>1, <3>2 DEF Moved, Remembers
  <2>2. CASE m # n BY <1>1, <1>2, <1>3, <1>7, <2>2 DEF Orphan, Child
  <2> QED BY <2>1, <2>2
<1>8. WriterStale(r)' BY <1>4 DEF WriterStale, Writing
<1>9. req'[r].pc \notin Deleting BY <1>4 DEF Deleting
<1> QED BY <1>1, <1>4, <1>6, <1>7, <1>8, <1>9, WriteSwept

\* The commit deletes what fell; its live children are picked or raced.
LEMMA CommitSwept ==
    ASSUME Swept, Shape', NEW r \in Req, CommitDelete(r)
    PROVE  Swept'
<1>1. Shape /\ raced' = raced \ Doomed(r) /\ parent' = parent /\ Falling(r) = Doomed(r)
  BY DEF Swept, CommitDelete, Falling
<1>2. \A n \in Node : row'[n] = IF n \in Doomed(r) THEN "deleted" ELSE row[n]
  BY <1>1, CommitFacts
<1>3. \A n \in Child : n \in Node BY DEF Node, Child
<1>4. \A n \in Child : Live(n)' => Live(n) /\ n \notin Doomed(r) BY <1>2, <1>3 DEF Live
<1>5. OrphansOnlyByRace'
  <2> SUFFICES ASSUME NEW n \in Subcategory \cup Product, Orphan(n)' PROVE n \in raced'
    BY DEF OrphansOnlyByRace
  <2>1. Live(n) /\ n \notin Doomed(r) /\ row'[parent[n]] = "deleted"
    BY <1>1, <1>4 DEF Orphan, Child
  <2>2. parent[n] \in Node BY <1>1, <2>1, Levels DEF Live, Fresh
  <2>3. CASE parent[n] \in Doomed(r)
    BY <1>1, <2>1, <2>3 DEF Swept, ChildrenPicked
  <2>4. CASE parent[n] \notin Doomed(r)
    BY <1>1, <1>2, <2>1, <2>2, <2>4 DEF Swept, OrphansOnlyByRace, Orphan
  <2> QED BY <2>3, <2>4
<1>6. ASSUME NEW x \in Req \ {r} PROVE ChildrenPicked(x)' /\ WriterStale(x)'
  <2>1. /\ req'[x].pc = req[x].pc /\ req'[x].node = req[x].node
        /\ req'[x].picked = req[x].picked
        /\ req'[x].stale = (req[x].pc \notin {"idle"} \cup Deleting)
    BY <1>1, CommitFacts
  <2>2. \A b : LiveCats(b)' \subseteq LiveCats(b) BY <1>1, <1>4 DEF LiveCats, Child
  <2>3. \A b : CatsUnder(b)' \subseteq CatsUnder(b) BY <2>2 DEF CatsUnder
  <2>4. \A b : LiveSubs(CatsUnder(b))' \subseteq LiveSubs(CatsUnder(b))
    BY <1>1, <1>4, <2>3 DEF LiveSubs, Child
  <2>5. \A b : SubsUnder(b)' \subseteq SubsUnder(b) BY <2>4 DEF SubsUnder
  <2>6. Doomed(x)' = Doomed(x) BY <2>1 DEF Doomed
  <2>7. Falling(x)' \subseteq Falling(x) BY <2>1, <2>2, <2>5, <2>6 DEF Falling
  <2>8. ChildrenPicked(x)'
    BY <1>1, <1>4, <2>6, <2>7 DEF ChildrenPicked, Child, Swept
  <2>9. WriterStale(x)' BY <2>1 DEF WriterStale, Writing, Deleting
  <2> QED BY <2>8, <2>9
<1>7. ChildrenPicked(r)' /\ WriterStale(r)'
  <2>1. req'[r].pc = "idle" BY <1>1, CommitFacts DEF Idle
  <2> QED BY <2>1, NoFallPrime DEF WriterStale, Writing, Deleting
<1> QED BY <1>5, <1>6, <1>7 DEF Swept

LEMMA NextSwept == Swept /\ [Next]_vars => Swept'
<1> SUFFICES ASSUME Swept, [Next]_vars PROVE Swept' OBVIOUS
<1>1. Shape' BY NextShape DEF Swept
<1>2. CASE Next
  <2>1. PICK r \in Req : Kinds(r) BY <1>2, NextKind DEF Swept
  <2> QED BY <1>1, <2>1, BegunSwept, EndedSwept, NewBranchSwept, MintedSwept, MovedSwept,
             PickProductsSwept, PickSubsSwept, PickCatsSwept, CommitSwept DEF Kinds
<1>3. CASE UNCHANGED vars
  <2>1. OrphansOnlyByRace' BY <1>3 DEF vars, Swept, OrphansOnlyByRace, Orphan, Live
  <2>2. \A r \in Req : ChildrenPicked(r)' /\ WriterStale(r)'
    BY <1>3, SweptUnderQuiet DEF vars
  <2> QED BY <1>1, <2>1, <2>2 DEF Swept
<1> QED BY <1>2, <1>3

\* However many deletes, creates and moves overlap: the cascade leaves a live
\* row under a deleted one only if another request wrote that row, or moved its
\* parent, while a delete was under way or after one it had not seen.
THEOREM OrphansOnlyByRaceHolds == Spec => []OrphansOnlyByRace
<1>1. Init => Swept BY InitSwept
<1>2. Swept => OrphansOnlyByRace BY DEF Swept
<1> QED BY <1>1, <1>2, NextSwept, PTL DEF Spec
=============================================================================
