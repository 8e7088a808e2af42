--------------------------- MODULE ProductsProofs ---------------------------
(***************************************************************************)
(* Products, for any branches, bodies and number of requests at a time: a price *)
(* or availability request that nothing overlapped does what it promises, and *)
(* one that was overlapped leaves the column it is not about as it is; a PUT *)
(* of a product's list never leaves half of a list, and mixes two lists only *)
(* when their requests overlapped.                                         *)
(***************************************************************************)
EXTENDS BranchPricing, ProductDetails, FiniteSetTheorems, SequenceTheorems, TLAPS

-----------------------------------------------------------------------------
(* Prices and availability                                                 *)
(*                                                                         *)
(* What a request writes is what its session holds: the proofs relate the  *)
(* session to the request at every step, and, while it is alone, to the table. *)

\* A row as a session may hold it: the price of an unvalidated body may be -1.
Wide == [avail : BOOLEAN, price : Price \cup {Null, -1}]

TodoItem == [row : Row, avail : BOOLEAN \cup {Unset}, price : Price \cup {Null}]

Op == {"toggle", "price", "bulk", "batch"}

\* What of a session the proofs know besides its relation to the request.
IsSession(q) ==
    /\ q \in [busy : BOOLEAN, ask : {q.ask}, todo : Seq(TodoItem), locked : SUBSET Row,
              alone : BOOLEAN, seen : [Row -> Override \cup {Null, Unset}],
              value : [Row -> Wide \cup {Unset}]]
    /\ q.busy = FALSE => q.locked = {}
    /\ q.busy = TRUE => q.ask.op \in Op

Holds(q, x) == q.value[x] # Unset

\* How a session stands to its request: it has found the rows of a toggle, a price
\* update or a batch, and holds the other column as it found it.
FitsAsk(q) ==
    q.busy = TRUE =>
      /\ q.ask.op \in {"toggle", "price"} => q.todo = <<>>
      /\ q.ask.op = "price" => q.locked = {}
      /\ \A x \in Row : Holds(q, x) =>
           /\ q.seen[x] # Unset
           /\ q.ask.op = "price" \/ q.value[x].price # -1
           /\ q.ask.op # "bulk" => q.seen[x] \in Override
           /\ q.ask.op \in {"price", "batch"} => q.value[x].avail = q.seen[x].avail
           /\ q.ask.op = "toggle" => q.value[x].price = q.seen[x].price
      /\ q.ask.op = "batch" =>
           \A i \in 1..Len(q.todo) : q.todo[i].avail = Unset /\ Holds(q, q.todo[i].row)

\* A row that a session has found is never deleted.
TableOK ==
    /\ base \in [Product -> Price]
    /\ bp \in [Row -> Override \cup {Null}]
    /\ \A d \in Desk, x \in Row : desk[d].seen[x] \in Override => bp[x] \in Override

Sessions ==
    /\ DOMAIN desk = Desk
    /\ \A d \in Desk : IsSession(desk[d]) /\ FitsAsk(desk[d])

Shape == TableOK /\ Sessions

-----------------------------------------------------------------------------
(* Values *)

LEMMA Apart ==
    /\ Null \notin Override /\ Null \notin Wide /\ Unset \notin Override /\ Unset \notin Wide
    /\ Null # Unset /\ Override \subseteq Wide /\ Unset \notin BOOLEAN
    /\ -1 \notin Price \cup {Null}
<1>1. Price \subseteq Int /\ -1 \in Int /\ Null \notin Int /\ Price \cup {Null, -1} \subseteq Int \cup {Null}
  BY PricingAssumption DEF Price
<1>2. Wide \subseteq [avail : BOOLEAN, price : Int \cup {Null}] /\ Override \subseteq Wide
  BY <1>1 DEF Wide, Override
<1>3. Unset \notin Int \cup {Null} \cup BOOLEAN
      /\ {Null, Unset} \cap [avail : BOOLEAN, price : Int \cup {Null}] = {}
  BY PricingAssumption
<1>4. -1 \notin Price
  BY DEF Price
<1> QED BY <1>1, <1>2, <1>3, <1>4

LEMMA WideFields ==
    ASSUME NEW v \in Wide
    PROVE  v = [avail |-> v.avail, price |-> v.price] /\ v.avail \in BOOLEAN
           /\ v.price \in Price \cup {Null, -1}
BY DEF Wide

LEMMA OverrideFields ==
    ASSUME NEW v \in Override
    PROVE  v = [avail |-> v.avail, price |-> v.price] /\ v.avail \in BOOLEAN
           /\ v.price \in Price \cup {Null}
BY DEF Override

\* A flush keeps a column that the session holds as it found it.
LEMMA FlushKeepsColumn ==
    ASSUME NEW found, NEW now, NEW v, found # Null
    PROVE  /\ v.avail = found.avail => Flushed(found, now, v).avail = now.avail
           /\ v.price = found.price => Flushed(found, now, v).price = now.price
BY DEF Flushed

LEMMA FlushTypes ==
    ASSUME NEW found \in Override \cup {Null}, NEW now \in Override \cup {Null}, NEW v \in Override,
           found = Null \/ now \in Override
    PROVE  Flushed(found, now, v) \in Override
BY DEF Flushed, Override

-----------------------------------------------------------------------------
(* The sessions after a step *)

LEMMA FreeSession == IsSession(Free) /\ FitsAsk(Free) /\ Free.busy = FALSE /\ Free.seen = [x \in Row |-> Unset]
<1>1. <<>> \in Seq(TodoItem)
  OBVIOUS
<1>2. /\ Free \in [busy : BOOLEAN, ask : {Null}, todo : Seq(TodoItem), locked : SUBSET Row,
                   alone : BOOLEAN, seen : [Row -> {Unset}], value : [Row -> {Unset}]]
      /\ Free.busy = FALSE /\ Free.locked = {} /\ Free.ask = Null
      /\ Free.seen = [x \in Row |-> Unset]
  BY <1>1 DEF Free
<1> HIDE DEF Free
<1>3. IsSession(Free)
  BY <1>2 DEF IsSession
<1> QED BY <1>2, <1>3 DEF FitsAsk

\* The others after a request has begun or a product was edited.
LEMMA Lower ==
    ASSUME NEW q, IsSession(q)
    PROVE  LET w == [q EXCEPT !.alone = FALSE]
           IN /\ IsSession(w) /\ (FitsAsk(q) => FitsAsk(w)) /\ w.alone = FALSE
              /\ w.busy = q.busy /\ w.ask = q.ask /\ w.locked = q.locked /\ w.seen = q.seen
<1> DEFINE w == [q EXCEPT !.alone = FALSE]
<1>1. /\ w \in [busy : BOOLEAN, ask : {q.ask}, todo : Seq(TodoItem), locked : SUBSET Row,
                alone : BOOLEAN, seen : [Row -> Override \cup {Null, Unset}],
                value : [Row -> Wide \cup {Unset}]]
      /\ w.alone = FALSE /\ w.busy = q.busy /\ w.ask = q.ask /\ w.locked = q.locked
      /\ w.todo = q.todo /\ w.seen = q.seen /\ w.value = q.value
  BY DEF IsSession
<1> HIDE DEF w
<1>2. IsSession(w)
  BY <1>1 DEF IsSession
<1>3. FitsAsk(q) => FitsAsk(w)
  BY <1>1 DEF FitsAsk, Holds
<1> QED BY <1>1, <1>2, <1>3 DEF w

\* The session a request begins with.
Lone == \A f \in Desk : ~desk[f].busy

SeenOf(hits) == [x \in Row |-> IF x \in hits THEN bp[x] ELSE Unset]

ValueOf(hits, assigned) == [x \in Row |-> IF x \in hits THEN assigned[x] ELSE Unset]

Opened(ask, hits, assigned, todo) ==
    [busy |-> TRUE, ask |-> ask, todo |-> todo, locked |-> {}, alone |-> Lone,
     seen |-> SeenOf(hits), value |-> ValueOf(hits, assigned)]

LEMMA OpenedSession ==
    ASSUME Shape, NEW ask, ask.op \in Op, NEW todo \in Seq(TodoItem), NEW hits \in SUBSET Row,
           NEW assigned, \A x \in hits : assigned[x] \in Wide
    PROVE  IsSession(Opened(ask, hits, assigned, todo))
<1> DEFINE q == Opened(ask, hits, assigned, todo)
<1>1. /\ q.busy = TRUE /\ q.ask = ask /\ q.todo = todo /\ q.locked = {}
      /\ q.seen = SeenOf(hits) /\ q.value = ValueOf(hits, assigned)
  BY DEF Opened
<1>2. SeenOf(hits) \in [Row -> Override \cup {Null, Unset}]
  BY DEF Shape, TableOK, SeenOf
<1>3. ValueOf(hits, assigned) \in [Row -> Wide \cup {Unset}]
  BY DEF ValueOf
<1>4. Lone \in BOOLEAN
  BY DEF Lone
<1>5. q \in [busy : BOOLEAN, ask : {ask}, todo : Seq(TodoItem), locked : SUBSET Row,
             alone : BOOLEAN, seen : [Row -> Override \cup {Null, Unset}],
             value : [Row -> Wide \cup {Unset}]]
  BY <1>2, <1>3, <1>4 DEF Opened
<1> HIDE DEF q
<1>6. IsSession(q)
  BY <1>1, <1>5 DEF IsSession
<1> QED BY <1>6 DEF q

\* What a step that begins a request does to the desk.
Opens(d, q) ==
    /\ desk[d].busy = FALSE /\ bp' = bp /\ base' = base
    /\ desk'[d] = q /\ \A e \in Desk \ {d} : desk'[e] = [desk[e] EXCEPT !.alone = FALSE]

LEMMA BeginStep ==
    ASSUME Shape, NEW d \in Desk, NEW ask, ask.op \in Op, NEW todo \in Seq(TodoItem),
           NEW hits \in SUBSET Row, NEW assigned, \A x \in hits : assigned[x] \in Wide,
           FitsAsk(Opened(ask, hits, assigned, todo)), Begin(d, ask, hits, assigned, todo)
    PROVE  Shape' /\ Opens(d, Opened(ask, hits, assigned, todo))
<1> DEFINE q == Opened(ask, hits, assigned, todo)
<1>a. desk[d].busy = FALSE
  BY DEF Begin, Shape, Sessions, IsSession
<1>b. desk' = [e \in Desk |-> IF e # d THEN [desk[e] EXCEPT !.alone = FALSE] ELSE q]
  BY DEF Begin, Opened, SeenOf, ValueOf, Lone
<1>1. /\ desk' = [e \in Desk |-> IF e # d THEN [desk[e] EXCEPT !.alone = FALSE] ELSE q]
      /\ bp' = bp /\ base' = base /\ desk[d].busy = FALSE
  <2>1. bp' = bp /\ base' = base
    BY DEF Begin
  <2> QED BY <1>a, <1>b, <2>1
<1>2. IsSession(q) /\ FitsAsk(q) /\ q.seen = SeenOf(hits)
  <2>1. IsSession(Opened(ask, hits, assigned, todo))
    BY OpenedSession
  <2>2. Opened(ask, hits, assigned, todo).seen = SeenOf(hits)
    BY DEF Opened
  <2> QED BY <2>1, <2>2
<1> HIDE DEF q
<1>3. Opens(d, q)
  <2>1. desk'[d] = q
    BY <1>b
  <2>2. \A e \in Desk \ {d} : desk'[e] = [desk[e] EXCEPT !.alone = FALSE]
    BY <1>b
  <2> QED BY <1>1, <2>1, <2>2 DEF Opens
<1>4. ASSUME NEW e \in Desk
      PROVE  /\ IsSession(desk'[e]) /\ FitsAsk(desk'[e])
             /\ \A x \in Row : desk'[e].seen[x] \in Override => bp[x] \in Override
  <2>1. CASE e = d
    <3>1. desk'[e] = q
      BY <1>b, <2>1
    <3> QED BY <1>2, <3>1, Apart DEF SeenOf
  <2>2. CASE e # d
    BY <1>1, <2>2, Lower DEF Shape, Sessions, TableOK
  <2> QED BY <2>1, <2>2
<1>5. Shape'
  BY <1>1, <1>4 DEF Shape, Sessions, TableOK
<1> QED BY <1>3, <1>5 DEF q

-----------------------------------------------------------------------------
(* The beginnings of the requests *)

BulkAsk(p, items) == [op |-> "bulk", product |-> p, items |-> items]

BulkTodo(p, items) ==
    [i \in 1..Len(items) |-> [row |-> <<p, items[i].branch>>,
                              avail |-> items[i].avail, price |-> items[i].price]]

LEMMA BulkTodoItems ==
    ASSUME NEW p \in Product, NEW items \in Seq(BulkItem)
    PROVE  /\ BulkTodo(p, items) \in Seq(TodoItem) /\ Len(BulkTodo(p, items)) = Len(items)
           /\ \A i \in 1..Len(items) :
                BulkTodo(p, items)[i] = [row |-> <<p, items[i].branch>>,
                                         avail |-> items[i].avail, price |-> items[i].price]
<1>1. ASSUME NEW i \in 1..Len(items)
      PROVE  [row |-> <<p, items[i].branch>>,
              avail |-> items[i].avail, price |-> items[i].price] \in TodoItem
  <2>1. items[i] \in BulkItem
    OBVIOUS
  <2> QED BY <2>1 DEF BulkItem, TodoItem, Row
<1> QED BY <1>1 DEF BulkTodo

LEMMA BulkStep ==
    ASSUME Shape, NEW d \in Desk, NEW p \in Product, NEW items \in Bodies, BulkUpsert(d, p, items)
    PROVE  Shape' /\ Opens(d, Opened(BulkAsk(p, items), {}, <<>>, BulkTodo(p, items)))
<1> DEFINE ask == BulkAsk(p, items)
           todo == BulkTodo(p, items)
           q == Opened(ask, {}, <<>>, todo)
<1>1. todo \in Seq(TodoItem)
  BY BulkTodoItems, PricingAssumption
<1>2. ask.op = "bulk" /\ Begin(d, ask, {}, <<>>, todo)
  BY DEF BulkUpsert, BulkAsk, BulkTodo
<1>3. q.ask = ask /\ q.value = ValueOf({}, <<>>)
  BY DEF Opened
<1>4. FitsAsk(q)
  <2>1. \A x \in Row : ~Holds(q, x)
    BY <1>3 DEF Holds, ValueOf
  <2> HIDE DEF q, ask, todo
  <2> QED BY <1>2, <1>3, <2>1 DEF FitsAsk
<1> HIDE DEF ask, todo
<1>5. ask.op \in Op /\ {} \in SUBSET Row /\ \A x \in {} : <<>>[x] \in Wide
  BY <1>2 DEF Op
<1>6. Shape' /\ Opens(d, Opened(ask, {}, <<>>, todo))
  BY <1>1, <1>2, <1>4, <1>5, BeginStep
<1> QED BY <1>6 DEF ask, todo

ToggleAsk(x) == [op |-> "toggle", row |-> x]

Toggled(x) == [y \in {x} |-> [bp[x] EXCEPT !.avail = ~@]]

LEMMA ToggleStep ==
    ASSUME Shape, NEW d \in Desk, NEW x \in Row, ToggleAvailability(d, x)
    PROVE  /\ Shape' /\ bp[x] \in Override
           /\ Opens(d, Opened(ToggleAsk(x), {x}, Toggled(x), <<>>))
<1> DEFINE ask == ToggleAsk(x)
           q == Opened(ask, {x}, Toggled(x), <<>>)
<1>1. bp[x] \in Override
  BY DEF ToggleAvailability, Fetched, Shape, TableOK
<1>2. ask.op = "toggle" /\ Begin(d, ask, {x}, Toggled(x), <<>>)
  BY DEF ToggleAvailability, ToggleAsk, Toggled
<1>3. /\ Toggled(x)[x] \in Override /\ Toggled(x)[x].price = bp[x].price
      /\ \A y \in {x} : Toggled(x)[y] \in Wide
  <2>1. Toggled(x)[x] = [bp[x] EXCEPT !.avail = ~@]
    BY DEF Toggled
  <2>2. [bp[x] EXCEPT !.avail = ~@] \in Override /\ [bp[x] EXCEPT !.avail = ~@].price = bp[x].price
    BY <1>1 DEF Override
  <2> QED BY <2>1, <2>2, Apart
<1>4. /\ q.ask = ask /\ q.value = ValueOf({x}, Toggled(x)) /\ q.seen = SeenOf({x})
      /\ q.todo = <<>> /\ q.locked = {}
  BY DEF Opened
<1>5. \A y \in Row : Holds(q, y) =>
        /\ q.value[y] = Toggled(x)[x] /\ q.seen[y] = bp[x]
  BY <1>4 DEF Holds, ValueOf, SeenOf
<1>6. FitsAsk(q)
  <2>1. Toggled(x)[x].price # -1
    BY <1>3, Apart, OverrideFields
  <2> HIDE DEF q, ask
  <2> QED BY <1>1, <1>2, <1>3, <1>4, <1>5, <2>1, Apart DEF FitsAsk
<1>7. <<>> \in Seq(TodoItem)
  OBVIOUS
<1> HIDE DEF ask
<1>9. ask.op \in Op /\ {x} \in SUBSET Row
  BY <1>2 DEF Op
<1>8. Shape' /\ Opens(d, Opened(ask, {x}, Toggled(x), <<>>))
  BY <1>2, <1>3, <1>6, <1>7, <1>9, BeginStep
<1> QED BY <1>1, <1>8 DEF ask

PriceAsk(x, n) == [op |-> "price", row |-> x, price |-> n]

Repriced(x, n) == [y \in {x} |-> [bp[x] EXCEPT !.price = n]]

LEMMA PriceStep ==
    ASSUME Shape, NEW d \in Desk, NEW x \in Row, NEW n \in Price \cup {Null, -1},
           UpdatePrice(d, x, n)
    PROVE  /\ Shape' /\ bp[x] \in Override
           /\ Opens(d, Opened(PriceAsk(x, n), {x}, Repriced(x, n), <<>>))
<1> DEFINE ask == PriceAsk(x, n)
           q == Opened(ask, {x}, Repriced(x, n), <<>>)
<1>1. bp[x] \in Override
  BY DEF UpdatePrice, Fetched, Shape, TableOK
<1>2. ask.op = "price" /\ Begin(d, ask, {x}, Repriced(x, n), <<>>)
  BY DEF UpdatePrice, PriceAsk, Repriced
<1>3. /\ Repriced(x, n)[x].avail = bp[x].avail
      /\ \A y \in {x} : Repriced(x, n)[y] \in Wide
  <2>1. Repriced(x, n)[x] = [bp[x] EXCEPT !.price = n]
    BY DEF Repriced
  <2>2. [bp[x] EXCEPT !.price = n] \in Wide /\ [bp[x] EXCEPT !.price = n].avail = bp[x].avail
    BY <1>1 DEF Override, Wide
  <2> QED BY <2>1, <2>2
<1>4. /\ q.ask = ask /\ q.value = ValueOf({x}, Repriced(x, n)) /\ q.seen = SeenOf({x})
      /\ q.todo = <<>> /\ q.locked = {}
  BY DEF Opened
<1>5. \A y \in Row : Holds(q, y) =>
        /\ q.value[y] = Repriced(x, n)[x] /\ q.seen[y] = bp[x]
  BY <1>4 DEF Holds, ValueOf, SeenOf
<1>6. FitsAsk(q)
  <2> HIDE DEF q, ask
  <2> QED BY <1>1, <1>2, <1>3, <1>4, <1>5, Apart DEF FitsAsk
<1>7. <<>> \in Seq(TodoItem)
  OBVIOUS
<1> HIDE DEF ask
<1>9. ask.op \in Op /\ {x} \in SUBSET Row
  BY <1>2 DEF Op
<1>8. Shape' /\ Opens(d, Opened(ask, {x}, Repriced(x, n), <<>>))
  BY <1>2, <1>3, <1>6, <1>7, <1>9, BeginStep
<1> QED BY <1>1, <1>8 DEF ask

BatchAsk(products, branches, op, amount) ==
    [op |-> "batch", products |-> products, branches |-> branches, by |-> op, amount |-> amount]

BatchTodo(order, op, amount) ==
    [i \in 1..Len(order) |->
       [row |-> order[i], avail |-> Unset, price |-> Calculate(Effective(order[i]), op, amount)]]

\* An enumeration of a set of rows is a sequence that leaves none out.
LEMMA Enumeration ==
    ASSUME NEW hits \in SUBSET Row, NEW order \in SetToSeqs(hits)
    PROVE  /\ order \in Seq(hits)
           /\ \A x \in hits : \E i \in 1..Len(order) : order[i] = x
<1> DEFINE n == Cardinality(hits)
<1>1. IsFiniteSet(hits) /\ n \in Nat
  BY PricingAssumption, FS_Subset, FS_CardinalityType
<1>2. order \in [1..n -> hits] /\ \A i, j \in 1..n : i # j => order[i] # order[j]
  BY DEF SetToSeqs
<1> HIDE DEF n
<1>3. order \in Seq(hits) /\ Len(order) = n /\ DOMAIN order = 1..n
  BY <1>1, <1>2, IsASeq
<1>4. Cardinality(1..n) = n
  BY <1>1, FS_Interval
<1>5. order \in Injection(1..n, hits)
  BY <1>2, <1>3 DEF Injection, IsInjective
<1>6. order \in Surjection(1..n, hits)
  BY <1>1, <1>4, <1>5, FS_Injection DEF n
<1> QED BY <1>3, <1>6 DEF Surjection

LEMMA BatchTodoItems ==
    ASSUME NEW hits \in SUBSET Row, NEW order \in Seq(hits), NEW op, NEW amount,
           \A x \in hits : Calculate(Effective(x), op, amount) \in Price
    PROVE  /\ BatchTodo(order, op, amount) \in Seq(TodoItem)
           /\ Len(BatchTodo(order, op, amount)) = Len(order)
           /\ \A i \in 1..Len(order) :
                /\ order[i] \in hits
                /\ BatchTodo(order, op, amount)[i].row = order[i]
                /\ BatchTodo(order, op, amount)[i].avail = Unset
                /\ BatchTodo(order, op, amount)[i].price = Calculate(Effective(order[i]), op, amount)
<1> DEFINE item(i) == [row |-> order[i], avail |-> Unset,
                       price |-> Calculate(Effective(order[i]), op, amount)]
<1>1. ASSUME NEW i \in 1..Len(order)
      PROVE  order[i] \in hits /\ item(i) \in TodoItem
  <2>1. order[i] \in hits
    OBVIOUS
  <2>2. Calculate(Effective(order[i]), op, amount) \in Price
    BY <2>1
  <2> QED BY <2>1, <2>2 DEF TodoItem
<1>2. BatchTodo(order, op, amount) = [i \in 1..Len(order) |-> item(i)]
  BY DEF BatchTodo
<1>3. \A i \in 1..Len(order) :
        /\ item(i).row = order[i] /\ item(i).avail = Unset
        /\ item(i).price = Calculate(Effective(order[i]), op, amount)
  OBVIOUS
<1>4. Len(order) \in Nat
  OBVIOUS
<1> HIDE DEF item
<1> QED BY <1>1, <1>2, <1>3, <1>4, IsASeq

LEMMA ApplyStep ==
    ASSUME Shape, NEW d \in Desk, NEW products \in SUBSET Product, NEW branches, NEW op, NEW amount,
           Apply(d, products, branches, op, amount)
    PROVE  /\ Shape'
           /\ \E order \in Seq(Affected(products, branches)) :
                /\ \A x \in Affected(products, branches) : \E i \in 1..Len(order) : order[i] = x
                /\ \A x \in Affected(products, branches) : Calculate(Effective(x), op, amount) \in Price
                /\ Opens(d, Opened(BatchAsk(products, branches, op, amount),
                                   Affected(products, branches), bp, BatchTodo(order, op, amount)))
<1> DEFINE hits == Affected(products, branches)
           ask == BatchAsk(products, branches, op, amount)
<1>1. /\ hits \in SUBSET Row /\ \A x \in hits : Calculate(Effective(x), op, amount) \in Price
      /\ \E order \in SetToSeqs(hits) : Begin(d, ask, hits, bp, BatchTodo(order, op, amount))
  BY DEF Apply, Affected, BatchAsk, BatchTodo
<1>2. PICK order \in SetToSeqs(hits) : Begin(d, ask, hits, bp, BatchTodo(order, op, amount))
  BY <1>1
<1>3. \A x \in hits : bp[x] \in Override /\ bp[x] \in Wide
  BY Apart DEF Shape, TableOK, Affected
<1>4. ask.op = "batch"
  BY DEF BatchAsk
<1> HIDE DEF hits, ask
<1>5. order \in Seq(hits) /\ \A x \in hits : \E i \in 1..Len(order) : order[i] = x
  BY <1>1, <1>2, Enumeration
<1> DEFINE todo == BatchTodo(order, op, amount)
           q == Opened(ask, hits, bp, todo)
<1>6. /\ todo \in Seq(TodoItem) /\ Len(todo) = Len(order)
      /\ \A i \in 1..Len(todo) : todo[i].avail = Unset /\ todo[i].row \in hits
  BY <1>1, <1>5, BatchTodoItems
<1>7. /\ q.ask = ask /\ q.value = ValueOf(hits, bp) /\ q.seen = SeenOf(hits)
      /\ q.todo = todo /\ q.locked = {}
  BY DEF Opened
<1>8. /\ \A x \in Row : Holds(q, x) => q.value[x] = bp[x] /\ q.seen[x] = bp[x] /\ bp[x] \in Override
      /\ \A x \in hits : Holds(q, x)
  BY <1>1, <1>3, <1>7, Apart DEF Holds, ValueOf, SeenOf
<1>9. FitsAsk(q)
  <2>1. \A x \in Row : bp[x] \in Override => bp[x].price # -1
    BY Apart, OverrideFields
  <2> HIDE DEF q, todo
  <2> QED BY <1>4, <1>6, <1>7, <1>8, <2>1, Apart DEF FitsAsk
<1>10. ask.op \in Op
  BY <1>4 DEF Op
<1>11. Shape' /\ Opens(d, q)
  <2> HIDE DEF todo
  <2>1. Begin(d, ask, hits, bp, todo)
    BY <1>2 DEF todo
  <2> QED BY <1>1, <1>3, <1>6, <1>9, <1>10, <2>1, BeginStep
<1> QED BY <1>1, <1>5, <1>11 DEF hits, ask

-----------------------------------------------------------------------------
(* The other steps *)

\* A step of a session that leaves the others and the table as they are.
Moves(d, q) ==
    /\ bp' = bp /\ base' = base
    /\ desk'[d] = q /\ \A e \in Desk \ {d} : desk'[e] = desk[e]

\* The session of d after it has selected the row of its next item.
Advanced(d) ==
    LET c == Head(desk[d].todo)
    IN [desk[d] EXCEPT !.locked = @ \cup Pending(d),
                       !.seen = [@ EXCEPT ![c.row] = Found(d, c.row)],
                       !.value = [@ EXCEPT ![c.row] = Assign(Object(d, c.row), c)],
                       !.todo = Tail(@)]

LEMMA AdvancedFields ==
    ASSUME NEW d \in Desk, IsSession(desk[d]), desk[d].todo # <<>>
    PROVE  LET c == Head(desk[d].todo)
               q == Advanced(d)
           IN /\ c \in TodoItem
              /\ q.busy = desk[d].busy /\ q.ask = desk[d].ask /\ q.alone = desk[d].alone
              /\ q.todo = Tail(desk[d].todo) /\ q.locked = desk[d].locked \cup Pending(d)
              /\ q.seen = [desk[d].seen EXCEPT ![c.row] = Found(d, c.row)]
              /\ q.value = [desk[d].value EXCEPT ![c.row] = Assign(Object(d, c.row), c)]
<1> DEFINE c == Head(desk[d].todo)
           p == desk[d]
           q == [p EXCEPT !.locked = @ \cup Pending(d),
                          !.seen = [@ EXCEPT ![c.row] = Found(d, c.row)],
                          !.value = [@ EXCEPT ![c.row] = Assign(Object(d, c.row), c)],
                          !.todo = Tail(@)]
<1>1. p.todo \in Seq(TodoItem) /\ p.todo # <<>>
  BY DEF IsSession
<1>2. c \in TodoItem
  BY <1>1
<1>3. DOMAIN p = {"busy", "ask", "todo", "locked", "alone", "seen", "value"}
  <2>1. p \in [busy : BOOLEAN, ask : {p.ask}, todo : Seq(TodoItem), locked : SUBSET Row,
               alone : BOOLEAN, seen : [Row -> Override \cup {Null, Unset}],
               value : [Row -> Wide \cup {Unset}]]
    BY DEF IsSession
  <2> HIDE DEF p
  <2> QED BY <2>1
<1>4. /\ q.busy = p.busy /\ q.ask = p.ask /\ q.alone = p.alone
      /\ q.todo = Tail(p.todo) /\ q.locked = p.locked \cup Pending(d)
      /\ q.seen = [p.seen EXCEPT ![c.row] = Found(d, c.row)]
      /\ q.value = [p.value EXCEPT ![c.row] = Assign(Object(d, c.row), c)]
  <2> HIDE DEF p, c
  <2> QED BY <1>3
<1>5. Advanced(d) = q
  BY DEF Advanced
<1> QED BY <1>2, <1>4, <1>5

\* What the next row of a session becomes.
LEMMA NextValue ==
    ASSUME Shape, NEW d \in Desk, desk[d].todo # <<>>
    PROVE  LET c == Head(desk[d].todo)
               f == Found(d, c.row)
               v == Assign(Object(d, c.row), c)
           IN /\ f \in Override \cup {Null} /\ v \in Wide
              /\ f \in Override => bp[c.row] \in Override
              /\ c.price = v.price
              /\ c.avail # Unset => v.avail = c.avail
              /\ Holds(desk[d], c.row) /\ desk[d].seen[c.row] \in Override /\ c.avail = Unset
                   => f = desk[d].seen[c.row] /\ v.avail = desk[d].value[c.row].avail
<1> DEFINE c == Head(desk[d].todo)
           x == c.row
           p == desk[d]
           o == Object(d, x)
           f == Found(d, x)
           v == Assign(o, c)
<1>1. /\ c.row \in Row /\ c.avail \in BOOLEAN \cup {Unset} /\ c.price \in Price \cup {Null}
  <2>1. p.todo \in Seq(TodoItem) /\ p.todo # <<>>
    BY DEF Shape, Sessions, IsSession
  <2>2. c \in TodoItem
    BY <2>1
  <2> HIDE DEF c
  <2> QED BY <2>2 DEF TodoItem
<1>2. p.seen[x] \in Override \cup {Null, Unset} /\ p.value[x] \in Wide \cup {Unset}
  BY <1>1 DEF Shape, Sessions, IsSession
<1>3. bp[x] \in Override \cup {Null} /\ (p.seen[x] \in Override => bp[x] \in Override)
  BY <1>1 DEF Shape, TableOK
<1>4. f \in Override \cup {Null} /\ (f \in Override => bp[x] \in Override)
  BY <1>2, <1>3, Apart DEF Found
<1>5. o \in Wide
  <2>1. [avail |-> TRUE, price |-> Null] \in Override
    BY DEF Override
  <2> QED BY <1>2, <1>4, <2>1, Apart DEF Object
<1>6. v \in Wide /\ v.price = c.price /\ (c.avail # Unset => v.avail = c.avail)
      /\ (c.avail = Unset => v.avail = o.avail)
  <2>1. o.avail \in BOOLEAN
    BY <1>5, WideFields
  <2>2. c.price # Unset
    BY <1>1, PricingAssumption DEF Price
  <2>3. v = [avail |-> IF c.avail = Unset THEN o.avail ELSE c.avail,
             price |-> IF c.price = Unset THEN o.price ELSE c.price]
    BY DEF Assign
  <2> HIDE DEF o, c, v
  <2> QED BY <1>1, <2>1, <2>2, <2>3 DEF Wide
<1>7. Holds(p, x) /\ p.seen[x] \in Override /\ c.avail = Unset => f = p.seen[x] /\ v.avail = p.value[x].avail
  BY <1>6, Apart DEF Holds, Found, Object
<1> QED BY <1>4, <1>6, <1>7

LEMMA HeadTail ==
    ASSUME NEW S, NEW s \in Seq(S), s # <<>>
    PROVE  /\ Head(s) = s[1] /\ Tail(s) \in Seq(S) /\ Len(Tail(s)) = Len(s) - 1
           /\ 1 \in 1..Len(s)
           /\ \A i \in 1..Len(Tail(s)) : i + 1 \in 1..Len(s) /\ Tail(s)[i] = s[i + 1]
OBVIOUS

LEMMA NextRowStep ==
    ASSUME Shape, NEW d \in Desk, NextRow(d)
    PROVE  Shape' /\ Moves(d, Advanced(d)) /\ desk[d].busy = TRUE /\ desk[d].todo # <<>>
<1> DEFINE p == desk[d]
           c == Head(p.todo)
           q == Advanced(d)
           f == Found(d, c.row)
           v == Assign(Object(d, c.row), c)
<1>1. p.busy = TRUE /\ p.todo # <<>> /\ bp' = bp /\ base' = base
  BY DEF NextRow, Shape, Sessions, IsSession
<1>2. Moves(d, q) /\ DOMAIN desk' = Desk
  <2>1. desk' = [desk EXCEPT ![d].locked = p.locked \cup Pending(d), ![d].seen[c.row] = f,
                             ![d].value[c.row] = v, ![d].todo = Tail(p.todo)]
    BY DEF NextRow
  <2>2. q = [p EXCEPT !.locked = p.locked \cup Pending(d), !.seen = [@ EXCEPT ![c.row] = f],
                      !.value = [@ EXCEPT ![c.row] = v], !.todo = Tail(p.todo)]
    BY DEF Advanced
  <2>3. DOMAIN desk = Desk
    BY DEF Shape, Sessions
  <2> HIDE DEF c, f, v, q
  <2>4. DOMAIN desk' = Desk /\ desk'[d] = q /\ \A e \in Desk \ {d} : desk'[e] = desk[e]
    BY <2>1, <2>2, <2>3
  <2> QED BY <1>1, <2>4 DEF Moves
<1>3. IsSession(p) /\ FitsAsk(p) /\ p.ask.op \in Op
  BY <1>1 DEF Shape, Sessions, IsSession
<1>4. /\ c \in TodoItem /\ q.busy = TRUE /\ q.ask = p.ask /\ q.alone = p.alone
      /\ q.todo = Tail(p.todo) /\ q.locked = p.locked \cup Pending(d)
      /\ q.seen = [p.seen EXCEPT ![c.row] = f] /\ q.value = [p.value EXCEPT ![c.row] = v]
  BY <1>1, <1>3, AdvancedFields
<1>5. /\ f \in Override \cup {Null} /\ v \in Wide /\ c.price = v.price
      /\ f \in Override => bp[c.row] \in Override
      /\ Holds(p, c.row) /\ p.seen[c.row] \in Override /\ c.avail = Unset
           => f = p.seen[c.row] /\ v.avail = p.value[c.row].avail
  BY <1>1, NextValue
<1>6. c.row \in Row /\ c.price \in Price \cup {Null} /\ c.price # -1
  <2> HIDE DEF c
  <2> QED BY <1>4, Apart DEF TodoItem
<1>7. /\ p.todo \in Seq(TodoItem) /\ p.locked \in SUBSET Row /\ p.alone \in BOOLEAN
      /\ p.seen \in [Row -> Override \cup {Null, Unset}] /\ p.value \in [Row -> Wide \cup {Unset}]
  BY <1>3 DEF IsSession
<1>8. p.ask.op \in {"bulk", "batch"}
  BY <1>1, <1>3 DEF FitsAsk, Op
<1>9. Pending(d) \in SUBSET Row
  BY DEF Pending, Dirty
<1>10. q = [busy |-> TRUE, ask |-> p.ask, todo |-> Tail(p.todo), locked |-> p.locked \cup Pending(d),
            alone |-> p.alone, seen |-> [p.seen EXCEPT ![c.row] = f],
            value |-> [p.value EXCEPT ![c.row] = v]]
  <2>1. p \in [busy : BOOLEAN, ask : {p.ask}, todo : Seq(TodoItem), locked : SUBSET Row,
               alone : BOOLEAN, seen : [Row -> Override \cup {Null, Unset}],
               value : [Row -> Wide \cup {Unset}]]
    BY <1>3 DEF IsSession
  <2>2. q = [p EXCEPT !.locked = @ \cup Pending(d), !.seen = [@ EXCEPT ![c.row] = f],
                      !.value = [@ EXCEPT ![c.row] = v], !.todo = Tail(@)]
    BY DEF Advanced
  <2> HIDE DEF p, c, f, v, q
  <2> QED BY <1>1, <2>1, <2>2
<1>11. c = p.todo[1] /\ Tail(p.todo) \in Seq(TodoItem) /\ Len(Tail(p.todo)) = Len(p.todo) - 1
       /\ 1 \in 1..Len(p.todo)
       /\ \A i \in 1..Len(Tail(p.todo)) : i + 1 \in 1..Len(p.todo) /\ Tail(p.todo)[i] = p.todo[i + 1]
  <2>1. p.todo \in Seq(TodoItem) /\ p.todo # <<>>
    BY <1>1, <1>7
  <2> HIDE DEF p
  <2> QED BY <2>1, HeadTail
<1> HIDE DEF p, c, f, v, q
<1>12. IsSession(q)
  <2>1. q.seen \in [Row -> Override \cup {Null, Unset}] /\ q.value \in [Row -> Wide \cup {Unset}]
    BY <1>4, <1>5, <1>6, <1>7
  <2>2. q \in [busy : BOOLEAN, ask : {q.ask}, todo : Seq(TodoItem), locked : SUBSET Row,
               alone : BOOLEAN, seen : [Row -> Override \cup {Null, Unset}],
               value : [Row -> Wide \cup {Unset}]]
    BY <1>4, <1>7, <1>9, <1>10, <1>11, <2>1
  <2> QED BY <1>3, <1>4, <2>2 DEF IsSession
<1>13. FitsAsk(q)
  <2>1. ASSUME NEW x \in Row, Holds(q, x)
        PROVE  /\ q.seen[x] # Unset /\ q.value[x].price # -1
               /\ p.ask.op = "batch" => q.seen[x] \in Override /\ q.value[x].avail = q.seen[x].avail
    <3>1. CASE x # c.row
      <4>1. q.seen[x] = p.seen[x] /\ q.value[x] = p.value[x] /\ Holds(p, x)
        BY <1>4, <1>7, <2>1, <3>1 DEF Holds
      <4> QED BY <1>1, <1>3, <1>8, <4>1 DEF FitsAsk
    <3>2. CASE x = c.row
      <4>1. q.seen[x] = f /\ q.value[x] = v
        BY <1>4, <1>6, <1>7, <3>2
      <4>2. p.ask.op = "batch" =>
              /\ Holds(p, c.row) /\ c.avail = Unset /\ p.seen[c.row] \in Override
              /\ p.value[c.row].avail = p.seen[c.row].avail
        BY <1>1, <1>3, <1>6, <1>11 DEF FitsAsk
      <4> QED BY <1>5, <1>6, <4>1, <4>2, <3>2, Apart
    <3> QED BY <3>1, <3>2
  <2>2. p.ask.op = "batch" =>
          \A i \in 1..Len(q.todo) : q.todo[i].avail = Unset /\ Holds(q, q.todo[i].row)
    <3>1. SUFFICES ASSUME p.ask.op = "batch", NEW i \in 1..Len(q.todo)
                   PROVE  q.todo[i].avail = Unset /\ Holds(q, q.todo[i].row)
      OBVIOUS
    <3>2. q.todo[i] = p.todo[i + 1] /\ i + 1 \in 1..Len(p.todo)
      BY <1>4, <1>11
    <3>3. p.todo[i + 1].avail = Unset /\ Holds(p, p.todo[i + 1].row)
      BY <1>1, <1>3, <3>1, <3>2 DEF FitsAsk
    <3>4. p.todo[i + 1].row \in Row
      <4>1. p.todo[i + 1] \in TodoItem
        BY <1>7, <3>2
      <4> QED BY <4>1 DEF TodoItem
    <3> QED BY <1>4, <1>5, <1>7, <3>2, <3>3, <3>4, Apart DEF Holds
  <2> QED BY <1>4, <1>8, <2>1, <2>2 DEF FitsAsk
<1>14. \A x \in Row : q.seen[x] \in Override => bp[x] \in Override
  <2>1. \A x \in Row : p.seen[x] \in Override => bp[x] \in Override
    BY DEF Shape, TableOK, p
  <2>2. \A x \in Row : q.seen[x] = IF x = c.row THEN f ELSE p.seen[x]
    BY <1>4, <1>7
  <2>3. f \in Override => bp[c.row] \in Override
    BY <1>5
  <2> QED BY <2>1, <2>2, <2>3
<1>15. Shape'
  <2>1. DOMAIN desk' = Desk
    BY <1>2
  <2>2. TableOK'
    BY <1>2, <1>14 DEF Moves, Shape, TableOK
  <2>3. \A e \in Desk : IsSession(desk'[e]) /\ FitsAsk(desk'[e])
    BY <1>2, <1>12, <1>13 DEF Moves, Shape, Sessions
  <2> QED BY <2>1, <2>2, <2>3 DEF Shape, Sessions
<1> QED BY <1>1, <1>2, <1>15 DEF p, q

\* The end of a request: the others stay as they are.
Ends(d) ==
    /\ base' = base /\ desk[d].busy = TRUE
    /\ desk'[d] = Free /\ \A e \in Desk \ {d} : desk'[e] = desk[e]

LEMMA EndStep ==
    ASSUME Shape, NEW d \in Desk, desk[d].busy = TRUE, desk' = [desk EXCEPT ![d] = Free],
           base' = base, bp' \in [Row -> Override \cup {Null}],
           \A x \in Row : bp[x] \in Override => bp'[x] \in Override
    PROVE  Shape' /\ Ends(d)
<1>1. Ends(d)
  BY DEF Ends, Shape, Sessions
<1>2. DOMAIN desk' = Desk
  BY DEF Shape, Sessions
<1>3. \A e \in Desk : IsSession(desk'[e]) /\ FitsAsk(desk'[e])
  BY <1>1, FreeSession DEF Ends, Shape, Sessions
<1>4. ASSUME NEW e \in Desk, NEW x \in Row, desk'[e].seen[x] \in Override
      PROVE  bp'[x] \in Override
  <2>1. CASE e = d
    <3>1. Free.seen[x] = Unset
      BY FreeSession
    <3> QED BY <1>1, <1>4, <2>1, <3>1, Apart DEF Ends
  <2>2. CASE e # d
    BY <1>1, <1>4, <2>2 DEF Ends, Shape, TableOK
  <2> QED BY <2>1, <2>2
<1>5. TableOK'
  BY <1>4 DEF Shape, TableOK
<1> QED BY <1>1, <1>2, <1>3, <1>5 DEF Shape, Sessions

\* What a commit writes into a row is a row again, and leaves no found row out.
LEMMA CommitRow ==
    ASSUME Shape, NEW d \in Desk, Commit(d), NEW x \in Dirty(d)
    PROVE  /\ x \in Row /\ Holds(desk[d], x) /\ desk[d].seen[x] \in Override \cup {Null}
           /\ desk[d].value[x] \in Override
           /\ desk[d].seen[x] = Null \/ bp[x] \in Override
           /\ Flushed(desk[d].seen[x], bp[x], desk[d].value[x]) \in Override
<1> DEFINE p == desk[d]
<1>1. p.busy = TRUE /\ IsSession(p) /\ FitsAsk(p) /\ ~Negative(d)
  BY DEF Commit, Refused, Shape, Sessions, IsSession
<1>2. x \in Row /\ Holds(p, x)
  BY DEF Dirty, Holds
<1>3. p.seen[x] \in Override \cup {Null} /\ p.value[x] \in Wide
  BY <1>1, <1>2 DEF IsSession, FitsAsk, Holds
<1>4. p.value[x].price # -1
  <2>1. CASE p.ask.op = "price"
    <3>1. p.locked = {}
      BY <1>1, <2>1 DEF FitsAsk
    <3>2. x \in Pending(d)
      BY <3>1 DEF Pending
    <3> QED BY <1>1, <3>2 DEF Negative
  <2>2. CASE p.ask.op # "price"
    BY <1>1, <1>2, <2>2 DEF FitsAsk
  <2> QED BY <2>1, <2>2
<1>5. p.value[x] \in Override
  <2> HIDE DEF p
  <2> QED BY <1>3, <1>4 DEF Wide, Override
<1>6. p.seen[x] = Null \/ bp[x] \in Override
  BY <1>2, <1>3 DEF Shape, TableOK
<1>7. bp[x] \in Override \cup {Null}
  BY <1>2 DEF Shape, TableOK
<1>8. Flushed(p.seen[x], bp[x], p.value[x]) \in Override
  BY <1>3, <1>5, <1>6, <1>7, FlushTypes
<1> QED BY <1>2, <1>3, <1>5, <1>6, <1>8

LEMMA CommitStep ==
    ASSUME Shape, NEW d \in Desk, Commit(d)
    PROVE  /\ Shape' /\ Ends(d) /\ desk[d].todo = <<>>
           /\ \A x \in Row :
                bp'[x] = IF x \in Dirty(d) THEN Flushed(desk[d].seen[x], bp[x], desk[d].value[x])
                         ELSE bp[x]
           /\ bp' \in [Row -> Override \cup {Null}]
<1>1. /\ desk[d].busy = TRUE /\ desk[d].todo = <<>> /\ desk' = [desk EXCEPT ![d] = Free]
      /\ base' = base /\ bp' = Committed(d)
  BY DEF Commit, Shape, Sessions, IsSession
<1>2. bp' = [x \in Row |-> IF x \in Dirty(d) THEN Flushed(desk[d].seen[x], bp[x], desk[d].value[x])
                           ELSE bp[x]]
  BY <1>1 DEF Committed
<1>3. \A x \in Row : IF x \in Dirty(d) THEN bp'[x] \in Override ELSE bp'[x] = bp[x]
  BY <1>2, CommitRow
<1>4. bp' \in [Row -> Override \cup {Null}] /\ \A x \in Row : bp[x] \in Override => bp'[x] \in Override
  BY <1>2, <1>3 DEF Shape, TableOK
<1>5. Shape' /\ Ends(d)
  BY <1>1, <1>4, EndStep
<1> QED BY <1>1, <1>2, <1>4, <1>5

LEMMA FailStep ==
    ASSUME Shape, NEW d \in Desk, Fail(d)
    PROVE  Shape' /\ Ends(d) /\ bp' = bp /\ ((CanFlush(d) /\ Refused(d)) \/ Deadlocked(d))
<1>1. /\ desk[d].busy = TRUE /\ desk' = [desk EXCEPT ![d] = Free] /\ base' = base /\ bp' = bp
      /\ (CanFlush(d) /\ Refused(d)) \/ Deadlocked(d)
  BY DEF Fail, Shape, Sessions, IsSession
<1>2. bp' \in [Row -> Override \cup {Null}] /\ \A x \in Row : bp[x] \in Override => bp'[x] \in Override
  BY <1>1 DEF Shape, TableOK
<1> QED BY <1>1, <1>2, EndStep

LEMMA EditStep ==
    ASSUME Shape, NEW p \in Product, EditProduct(p)
    PROVE  /\ Shape' /\ bp' = bp /\ \A e \in Desk : desk'[e] = [desk[e] EXCEPT !.alone = FALSE]
<1>1. /\ desk' = [e \in Desk |-> [desk[e] EXCEPT !.alone = FALSE]] /\ bp' = bp
      /\ base' = base \/ \E n \in Price : base' = [base EXCEPT ![p] = n]
  BY DEF EditProduct
<1>2. base' \in [Product -> Price]
  BY <1>1 DEF Shape, TableOK
<1>3. \A e \in Desk : desk'[e] = [desk[e] EXCEPT !.alone = FALSE]
  BY <1>1
<1>4. ASSUME NEW e \in Desk
      PROVE  IsSession(desk'[e]) /\ FitsAsk(desk'[e]) /\ desk'[e].seen = desk[e].seen
  <2>1. IsSession(desk[e]) /\ FitsAsk(desk[e])
    BY DEF Shape, Sessions
  <2>2. desk'[e] = [desk[e] EXCEPT !.alone = FALSE]
    BY <1>3
  <2> QED BY <2>1, <2>2, Lower
<1>5. DOMAIN desk' = Desk
  BY <1>1
<1>6. TableOK'
  <2>1. \A e \in Desk, x \in Row : desk[e].seen[x] \in Override => bp[x] \in Override
    BY DEF Shape, TableOK
  <2>2. \A e \in Desk, x \in Row : desk'[e].seen[x] \in Override => bp'[x] \in Override
    BY <1>1, <1>4, <2>1
  <2>3. bp' \in [Row -> Override \cup {Null}]
    BY <1>1 DEF Shape, TableOK
  <2> QED BY <1>2, <2>2, <2>3 DEF TableOK
<1> QED BY <1>1, <1>3, <1>4, <1>5, <1>6 DEF Shape, Sessions

-----------------------------------------------------------------------------
(* The sessions fit their requests, and the columns stay apart *)

LEMMA ShapeInit == PricingInit => Shape
<1> SUFFICES ASSUME PricingInit PROVE Shape
  OBVIOUS
<1>1. base \in [Product -> Price]
  BY PricingAssumption DEF PricingInit
<1>2. bp \in [Row -> Override \cup {Null}]
  BY PricingAssumption DEF PricingInit
<1>3. desk = [d \in Desk |-> Free] /\ \A d \in Desk : desk[d] = Free
  BY DEF PricingInit
<1>4. \A d \in Desk, x \in Row : desk[d].seen[x] = Unset
  BY <1>3, FreeSession
<1> QED BY <1>1, <1>2, <1>3, <1>4, FreeSession, Apart DEF Shape, TableOK, Sessions

\* A request that begins.
Beginning(d) ==
    \/ \E p \in Product, items \in Bodies : BulkUpsert(d, p, items)
    \/ \E x \in Row : ToggleAvailability(d, x)
    \/ \E x \in Row, n \in Price \cup {Null, -1} : UpdatePrice(d, x, n)
    \/ \E products \in SUBSET Product : \E branches, op, amount : Apply(d, products, branches, op, amount)

LEMMA Steps ==
    ASSUME PricingNext
    PROVE  \/ \E p \in Product : EditProduct(p)
           \/ \E d \in Desk : Beginning(d) \/ NextRow(d) \/ Commit(d) \/ Fail(d)
<1>1. CASE \E p \in Product : EditProduct(p)
  BY <1>1
<1>2. CASE \E d \in Desk : NextRow(d) \/ Commit(d) \/ Fail(d)
  BY <1>2
<1>3. ASSUME NEW d \in Desk,
             \/ \E p \in Product, items \in Bodies : BulkUpsert(d, p, items)
             \/ \E x \in Row : ToggleAvailability(d, x)
             \/ \E x \in Row, n \in Price \cup {Null, -1} : UpdatePrice(d, x, n)
      PROVE  Beginning(d)
  BY <1>3 DEF Beginning
<1>4. ASSUME NEW d \in Desk, NEW products \in SUBSET Product \ {{}}, NEW branches, NEW op, NEW amount,
             Apply(d, products, branches, op, amount)
      PROVE  Beginning(d)
  BY <1>4 DEF Beginning
<1> QED BY <1>1, <1>2, <1>3, <1>4 DEF PricingNext

LEMMA BeginningStep ==
    ASSUME Shape, NEW d \in Desk, Beginning(d)
    PROVE  Shape' /\ \E q : Opens(d, q) /\ q.busy = TRUE
<1>1. \A ask, hits, assigned, todo : Opened(ask, hits, assigned, todo).busy = TRUE
  BY DEF Opened
<1>2. CASE \E p \in Product, items \in Bodies : BulkUpsert(d, p, items)
  BY <1>1, <1>2, BulkStep
<1>3. CASE \E x \in Row : ToggleAvailability(d, x)
  BY <1>1, <1>3, ToggleStep
<1>4. CASE \E x \in Row, n \in Price \cup {Null, -1} : UpdatePrice(d, x, n)
  BY <1>1, <1>4, PriceStep
<1>5. ASSUME NEW products \in SUBSET Product, NEW branches, NEW op, NEW amount,
             Apply(d, products, branches, op, amount)
      PROVE  Shape' /\ \E q : Opens(d, q) /\ q.busy = TRUE
  <2>1. PICK order \in Seq(Affected(products, branches)) :
          Opens(d, Opened(BatchAsk(products, branches, op, amount),
                          Affected(products, branches), bp, BatchTodo(order, op, amount)))
    BY <1>5, ApplyStep
  <2>2. Shape'
    BY <1>5, ApplyStep
  <2> QED BY <1>1, <2>1, <2>2
<1> QED BY <1>2, <1>3, <1>4, <1>5 DEF Beginning

LEMMA ShapeStep == Shape /\ [PricingNext]_pricingVars => Shape'
<1> SUFFICES ASSUME Shape, [PricingNext]_pricingVars PROVE Shape'
  OBVIOUS
<1>1. CASE UNCHANGED pricingVars
  BY <1>1 DEF pricingVars, Shape, TableOK, Sessions
<1>2. CASE PricingNext
  BY <1>2, Steps, EditStep, BeginningStep, NextRowStep, CommitStep, FailStep
<1> QED BY <1>1, <1>2

\* What the sessions hold fits their requests, and no found row disappears.
THEOREM SessionsFit == PricingSpec => []Shape
BY ShapeInit, ShapeStep, PTL DEF PricingSpec

\* The only steps that end a request are its commit and its failure.
LEMMA EndsOnly ==
    ASSUME Shape, [PricingNext]_pricingVars, NEW d \in Desk, desk[d].busy, ~desk'[d].busy
    PROVE  Commit(d) \/ Fail(d)
<1>0. desk[d].busy = TRUE /\ desk'[d] # desk[d]
  BY DEF Shape, Sessions, IsSession
<1>1. PricingNext
  BY <1>0 DEF pricingVars
<1>2. ASSUME NEW p \in Product, EditProduct(p)
      PROVE  FALSE
  <2>1. desk'[d] = [desk[d] EXCEPT !.alone = FALSE]
    BY <1>2, EditStep
  <2>2. desk'[d].busy = desk[d].busy
    BY <2>1, Lower DEF Shape, Sessions
  <2> QED BY <2>2
<1>3. ASSUME NEW e \in Desk, Beginning(e)
      PROVE  FALSE
  <2>1. PICK q : Opens(e, q) /\ q.busy = TRUE
    BY <1>3, BeginningStep
  <2>2. CASE e = d
    BY <1>0, <2>1, <2>2 DEF Opens
  <2>3. CASE e # d
    <3>1. desk'[d] = [desk[d] EXCEPT !.alone = FALSE]
      BY <2>1, <2>3 DEF Opens
    <3>2. desk'[d].busy = desk[d].busy
      BY <3>1, Lower DEF Shape, Sessions
    <3> QED BY <3>2
  <2> QED BY <2>2, <2>3
<1>4. ASSUME NEW e \in Desk, NextRow(e)
      PROVE  FALSE
  <2>1. Moves(e, Advanced(e)) /\ desk[e].todo # <<>>
    BY <1>4, NextRowStep
  <2>2. Advanced(e).busy = desk[e].busy
    BY <2>1, AdvancedFields DEF Shape, Sessions
  <2> QED BY <1>0, <2>1, <2>2 DEF Moves
<1>5. ASSUME NEW e \in Desk, Commit(e) \/ Fail(e)
      PROVE  e = d
  <2>1. Ends(e)
    BY <1>5, CommitStep, FailStep
  <2> QED BY <1>0, <2>1 DEF Ends
<1> QED BY <1>1, <1>2, <1>3, <1>4, <1>5, Steps

LEMMA ColumnsApartStep ==
    ASSUME Shape, [PricingNext]_pricingVars, NEW d \in Desk, NEW x \in Row,
           desk[d].busy, ~desk'[d].busy, bp[x] # Null
    PROVE  /\ desk[d].ask.op \in {"price", "batch"} => bp'[x].avail = bp[x].avail
           /\ desk[d].ask.op = "toggle" => bp'[x].price = bp[x].price
<1> DEFINE p == desk[d]
<1>1. CASE Fail(d)
  BY <1>1, FailStep
<1>2. CASE Commit(d)
  <2>1. bp'[x] = IF x \in Dirty(d) THEN Flushed(p.seen[x], bp[x], p.value[x]) ELSE bp[x]
    BY <1>2, CommitStep
  <2>2. CASE x \notin Dirty(d)
    BY <2>1, <2>2
  <2>3. CASE x \in Dirty(d) /\ p.ask.op \in {"toggle", "price", "batch"}
    <3>1. Holds(p, x) /\ FitsAsk(p) /\ p.busy = TRUE
      BY <1>2, <2>3, CommitRow DEF Shape, Sessions, IsSession
    <3>2. p.seen[x] # Null
          /\ (p.ask.op \in {"price", "batch"} => p.value[x].avail = p.seen[x].avail)
          /\ (p.ask.op = "toggle" => p.value[x].price = p.seen[x].price)
      BY <2>3, <3>1, Apart DEF FitsAsk
    <3> QED BY <2>1, <2>3, <3>2, FlushKeepsColumn
  <2> QED BY <2>2, <2>3
<1> QED BY <1>1, <1>2, EndsOnly

\* Overlapping requests do not undo each other's columns (ColumnsApart of
\* BranchPricing), however many run at a time.
THEOREM ColumnsApartHolds == PricingSpec => ColumnsApart
<1>1. Shape /\ [PricingNext]_pricingVars
        => [\A d \in Desk, x \in Row :
              desk[d].busy /\ ~desk'[d].busy /\ bp[x] # Null
                => /\ desk[d].ask.op \in {"price", "batch"} => bp'[x].avail = bp[x].avail
                   /\ desk[d].ask.op = "toggle" => bp'[x].price = bp[x].price]_pricingVars
  BY ColumnsApartStep
<1> QED BY <1>1, SessionsFit, PTL DEF PricingSpec, ColumnsApart

-----------------------------------------------------------------------------
(* A request that nothing overlapped *)

EffectiveIn(b, t, x) == IF t[x].price # Null THEN t[x].price ELSE b[x[1]]

AffectedIn(t, products, branches) ==
    {x \in Row : t[x] # Null /\ x[1] \in products /\ x[2] \in branches \cap LiveBranch}

\* The first n items of a bulk update have been applied, the last of a row counting.
Names(p, items, i, x) == <<p, items[i].branch>> = x

LastNaming(p, items, n, i, x) ==
    /\ i \in 1..n /\ Names(p, items, i, x)
    /\ \A j \in 1..n : Names(p, items, j, x) => j <= i

ItemsDone(q, p, items, n) ==
    /\ n \in Nat /\ Len(items) = n + Len(q.todo)
    /\ \A i \in 1..Len(q.todo) : q.todo[i] = BulkTodo(p, items)[n + i]
    /\ \A i \in 1..n, x \in Row : Names(p, items, i, x) => Holds(q, x)
    /\ \A x \in Row : Holds(q, x) =>
         \E i \in 1..n : /\ LastNaming(p, items, n, i, x)
                         /\ q.value[x] = [avail |-> items[i].avail, price |-> items[i].price]

BulkPrepared(q) ==
    /\ q.ask.product \in Product /\ q.ask.items \in Seq(BulkItem)
    /\ \E n \in 0..Len(q.ask.items) : ItemsDone(q, q.ask.product, q.ask.items, n)

\* The new price of an affected row of a batch.
PriceBy(b, t, ask, x) == Calculate(EffectiveIn(b, t, x), ask.by, ask.amount)

AffectedBy(t, ask) == AffectedIn(t, ask.products, ask.branches)

\* A batch holds just the rows it affects: each has its new price or still has an item.
BatchPrepared(q, b, t) ==
    /\ \A x \in Row \ AffectedBy(t, q.ask) : ~Holds(q, x)
    /\ \A x \in AffectedBy(t, q.ask) :
         /\ Holds(q, x) /\ q.value[x].avail = t[x].avail
         /\ q.value[x].price = PriceBy(b, t, q.ask, x) \/ \E i \in 1..Len(q.todo) : q.todo[i].row = x
    /\ \A i \in 1..Len(q.todo) :
         /\ q.todo[i].row \in AffectedBy(t, q.ask) /\ q.todo[i].avail = Unset
         /\ q.todo[i].price = PriceBy(b, t, q.ask, q.todo[i].row)

RowPrepared(q, x, v) ==
    /\ x \in Row /\ v \in Wide
    /\ \A y \in Row : q.value[y] = IF y = x THEN v ELSE Unset

\* How far a session that is alone has come in what it promises to do to table t.
Prepared(q, b, t) ==
    /\ \A x \in Row : q.seen[x] = IF Holds(q, x) THEN t[x] ELSE Unset
    /\ q.ask.op = "toggle" => RowPrepared(q, q.ask.row, [t[q.ask.row] EXCEPT !.avail = ~@])
    /\ q.ask.op = "price" => RowPrepared(q, q.ask.row, [t[q.ask.row] EXCEPT !.price = q.ask.price])
    /\ q.ask.op = "bulk" => BulkPrepared(q)
    /\ q.ask.op = "batch" => BatchPrepared(q, b, t)

AlonePrepared ==
    \A d \in Desk : desk[d].busy = TRUE /\ desk[d].alone = TRUE =>
      /\ \A e \in Desk \ {d} : desk[e].busy = FALSE
      /\ Prepared(desk[d], base, bp)

LEMMA BulkBegun ==
    ASSUME NEW p \in Product, NEW items \in Seq(BulkItem)
    PROVE  Prepared(Opened(BulkAsk(p, items), {}, <<>>, BulkTodo(p, items)), base, bp)
<1> DEFINE q == Opened(BulkAsk(p, items), {}, <<>>, BulkTodo(p, items))
<1>1. /\ q.ask.op = "bulk" /\ q.ask.product = p /\ q.ask.items = items
      /\ q.seen = SeenOf({}) /\ q.value = ValueOf({}, <<>>) /\ q.todo = BulkTodo(p, items)
  BY DEF Opened, BulkAsk
<1>2. \A x \in Row : q.seen[x] = Unset /\ ~Holds(q, x)
  BY <1>1 DEF SeenOf, ValueOf, Holds
<1>3. /\ q.todo \in Seq(TodoItem) /\ Len(q.todo) = Len(items) /\ Len(items) \in Nat
  BY <1>1, BulkTodoItems
<1>4. ItemsDone(q, p, items, 0)
  <2> HIDE DEF q
  <2> QED BY <1>1, <1>2, <1>3 DEF ItemsDone
<1> HIDE DEF q
<1>5. BulkPrepared(q)
  BY <1>1, <1>3, <1>4 DEF BulkPrepared
<1>6. Prepared(q, base, bp)
  BY <1>1, <1>2, <1>5 DEF Prepared
<1> QED BY <1>6 DEF q

LEMMA ToggleBegun ==
    ASSUME NEW x \in Row, bp[x] \in Override
    PROVE  Prepared(Opened(ToggleAsk(x), {x}, Toggled(x), <<>>), base, bp)
<1> DEFINE q == Opened(ToggleAsk(x), {x}, Toggled(x), <<>>)
           v == [bp[x] EXCEPT !.avail = ~@]
<1>1. /\ q.ask.op = "toggle" /\ q.ask.row = x
      /\ q.seen = SeenOf({x}) /\ q.value = ValueOf({x}, Toggled(x))
  BY DEF Opened, ToggleAsk
<1>2. v \in Wide /\ v # Unset
  <2>1. v \in Override
    BY DEF Override
  <2> QED BY <2>1, Apart
<1>3. Toggled(x)[x] = v
  BY DEF Toggled
<1> HIDE DEF v, q
<1>4. \A y \in Row : /\ q.value[y] = IF y = x THEN v ELSE Unset
                     /\ q.seen[y] = IF y = x THEN bp[y] ELSE Unset
  BY <1>1, <1>3 DEF SeenOf, ValueOf
<1>5. \A y \in Row : q.seen[y] = IF Holds(q, y) THEN bp[y] ELSE Unset
  BY <1>2, <1>4 DEF Holds
<1>6. RowPrepared(q, x, v)
  BY <1>2, <1>4 DEF RowPrepared
<1>7. Prepared(q, base, bp)
  BY <1>1, <1>5, <1>6 DEF Prepared, v
<1> QED BY <1>7 DEF q

LEMMA PriceBegun ==
    ASSUME NEW x \in Row, NEW n \in Price \cup {Null, -1}, bp[x] \in Override
    PROVE  Prepared(Opened(PriceAsk(x, n), {x}, Repriced(x, n), <<>>), base, bp)
<1> DEFINE q == Opened(PriceAsk(x, n), {x}, Repriced(x, n), <<>>)
           v == [bp[x] EXCEPT !.price = n]
<1>1. /\ q.ask.op = "price" /\ q.ask.row = x /\ q.ask.price = n
      /\ q.seen = SeenOf({x}) /\ q.value = ValueOf({x}, Repriced(x, n))
  BY DEF Opened, PriceAsk
<1>2. v \in Wide /\ v # Unset
  <2>1. v \in Wide
    BY DEF Override, Wide
  <2> QED BY <2>1, Apart
<1>3. Repriced(x, n)[x] = v
  BY DEF Repriced
<1> HIDE DEF v, q
<1>4. \A y \in Row : /\ q.value[y] = IF y = x THEN v ELSE Unset
                     /\ q.seen[y] = IF y = x THEN bp[y] ELSE Unset
  BY <1>1, <1>3 DEF SeenOf, ValueOf
<1>5. \A y \in Row : q.seen[y] = IF Holds(q, y) THEN bp[y] ELSE Unset
  BY <1>2, <1>4 DEF Holds
<1>6. RowPrepared(q, x, v)
  BY <1>2, <1>4 DEF RowPrepared
<1>7. Prepared(q, base, bp)
  BY <1>1, <1>5, <1>6 DEF Prepared, v
<1> QED BY <1>7 DEF q

LEMMA BatchBegun ==
    ASSUME Shape, NEW products, NEW branches, NEW op, NEW amount,
           NEW order \in Seq(Affected(products, branches)),
           \A x \in Affected(products, branches) : \E i \in 1..Len(order) : order[i] = x,
           \A x \in Affected(products, branches) : Calculate(Effective(x), op, amount) \in Price
    PROVE  Prepared(Opened(BatchAsk(products, branches, op, amount), Affected(products, branches),
                           bp, BatchTodo(order, op, amount)), base, bp)
<1> DEFINE ask == BatchAsk(products, branches, op, amount)
           hits == Affected(products, branches)
           todo == BatchTodo(order, op, amount)
           q == Opened(ask, hits, bp, todo)
<1>1. /\ ask.op = "batch" /\ ask.by = op /\ ask.amount = amount
      /\ ask.products = products /\ ask.branches = branches
  BY DEF BatchAsk
<1>2. AffectedBy(bp, ask) = hits /\ \A x \in Row : PriceBy(base, bp, ask, x) = Calculate(Effective(x), op, amount)
  BY <1>1 DEF AffectedBy, AffectedIn, Affected, PriceBy, EffectiveIn, Effective
<1>3. hits \in SUBSET Row /\ \A x \in hits : bp[x] # Unset
  BY Apart DEF Affected, Shape, TableOK
<1>4. q.ask = ask /\ q.seen = SeenOf(hits) /\ q.value = ValueOf(hits, bp) /\ q.todo = todo
  BY DEF Opened
<1> HIDE DEF ask, hits
<1>5. /\ Len(todo) = Len(order)
      /\ \A i \in 1..Len(order) :
           /\ order[i] \in hits /\ todo[i].row = order[i] /\ todo[i].avail = Unset
           /\ todo[i].price = Calculate(Effective(order[i]), op, amount)
  <2>1. \A x \in hits : Calculate(Effective(x), op, amount) \in Price
    BY DEF hits
  <2>2. order \in Seq(hits)
    BY DEF hits
  <2> HIDE DEF todo
  <2> QED BY <1>3, <2>1, <2>2, BatchTodoItems DEF todo
<1> HIDE DEF todo, q
<1>6. /\ \A y \in hits : Holds(q, y) /\ q.value[y] = bp[y] /\ q.seen[y] = bp[y]
      /\ \A y \in Row \ hits : ~Holds(q, y) /\ q.seen[y] = Unset
  BY <1>3, <1>4 DEF SeenOf, ValueOf, Holds
<1>7. \A x \in hits : \E i \in 1..Len(q.todo) : q.todo[i].row = x
  <2>1. \A x \in hits : \E i \in 1..Len(order) : order[i] = x
    BY DEF hits
  <2> QED BY <1>4, <1>5, <2>1
<1>8. \A i \in 1..Len(q.todo) :
         /\ q.todo[i].row \in hits /\ q.todo[i].avail = Unset
         /\ q.todo[i].price = PriceBy(base, bp, ask, q.todo[i].row)
  BY <1>2, <1>3, <1>4, <1>5
<1>9. BatchPrepared(q, base, bp)
  BY <1>2, <1>4, <1>6, <1>7, <1>8 DEF BatchPrepared
<1>10. Prepared(q, base, bp)
  BY <1>1, <1>4, <1>6, <1>9 DEF Prepared
<1> QED BY <1>10 DEF q, ask, hits, todo

\* The next item of a bulk update that is alone.
LEMMA ItemDone ==
    ASSUME NEW p \in Product, NEW items \in Seq(BulkItem), NEW q, NEW w, NEW n \in Nat, NEW v,
           ItemsDone(q, p, items, n), q.todo \in Seq(TodoItem), q.todo # <<>>,
           w.todo = Tail(q.todo), q.value \in [Row -> Wide \cup {Unset}],
           w.value = [q.value EXCEPT ![Head(q.todo).row] = v],
           v \in Wide, v.price = Head(q.todo).price,
           Head(q.todo).avail # Unset => v.avail = Head(q.todo).avail
    PROVE  ItemsDone(w, p, items, n + 1) /\ n + 1 \in 0..Len(items)
<1> DEFINE c == Head(q.todo)
           m == n + 1
           item == items[m]
<1>1. /\ c = q.todo[1] /\ Len(w.todo) = Len(q.todo) - 1 /\ 1 \in 1..Len(q.todo) /\ Len(q.todo) \in Nat
      /\ \A i \in 1..Len(w.todo) : i + 1 \in 1..Len(q.todo) /\ w.todo[i] = q.todo[i + 1]
  BY HeadTail
<1>2. Len(items) = n + Len(q.todo) /\ \A i \in 1..Len(q.todo) : q.todo[i] = BulkTodo(p, items)[n + i]
  BY DEF ItemsDone
<1>3. m \in 1..Len(items) /\ c = BulkTodo(p, items)[m] /\ m \in 0..Len(items)
  BY <1>1, <1>2
<1>4. c = [row |-> <<p, item.branch>>, avail |-> item.avail, price |-> item.price]
  BY <1>3, BulkTodoItems
<1>5. item \in BulkItem
  BY <1>3
<1>6. /\ c.row = <<p, item.branch>> /\ c.row \in Row
      /\ c.avail = item.avail /\ c.avail # Unset /\ c.price = item.price
  <2> HIDE DEF item, c
  <2> QED BY <1>4, <1>5, Apart DEF BulkItem, Row
<1>7. v = [avail |-> item.avail, price |-> item.price] /\ v # Unset
  BY <1>6, WideFields, Apart
<1>8. \A x \in Row : w.value[x] = IF x = c.row THEN v ELSE q.value[x]
  BY <1>6
<1> HIDE DEF item, c
<1>9. \A i \in 1..Len(w.todo) : w.todo[i] = BulkTodo(p, items)[m + i]
  <2>1. SUFFICES ASSUME NEW i \in 1..Len(w.todo) PROVE w.todo[i] = BulkTodo(p, items)[m + i]
    OBVIOUS
  <2>2. w.todo[i] = q.todo[i + 1] /\ q.todo[i + 1] = BulkTodo(p, items)[n + (i + 1)]
    BY <1>1, <1>2
  <2>3. n + (i + 1) = m + i
    OBVIOUS
  <2> QED BY <2>2, <2>3
<1>10. \A i \in 1..m : i \in 1..n \/ i = m
  OBVIOUS
<1>11. Names(p, items, m, c.row) /\ m \in 1..m /\ \A x \in Row : Names(p, items, m, x) => x = c.row
  BY <1>6 DEF Names, item
<1>12. \A i \in 1..m, x \in Row : Names(p, items, i, x) => Holds(w, x)
  <2>1. \A i \in 1..n, x \in Row : Names(p, items, i, x) => Holds(q, x)
    BY DEF ItemsDone
  <2> QED BY <1>7, <1>8, <1>10, <1>11, <2>1 DEF Holds
<1>13. ASSUME NEW x \in Row, Holds(w, x)
       PROVE  \E i \in 1..m : /\ LastNaming(p, items, m, i, x)
                              /\ w.value[x] = [avail |-> items[i].avail, price |-> items[i].price]
  <2>1. CASE x = c.row
    <3>1. LastNaming(p, items, m, m, x)
      <4>1. \A j \in 1..m : j <= m
        OBVIOUS
      <4> HIDE DEF m
      <4> QED BY <1>11, <2>1, <4>1 DEF LastNaming
    <3>2. w.value[x] = [avail |-> items[m].avail, price |-> items[m].price]
      BY <1>7, <1>8, <2>1 DEF item
    <3> QED BY <1>11, <3>1, <3>2
  <2>2. CASE x # c.row
    <3>1. Holds(q, x) /\ w.value[x] = q.value[x]
      BY <1>8, <1>13, <2>2 DEF Holds
    <3>2. PICK i \in 1..n : /\ LastNaming(p, items, n, i, x)
                            /\ q.value[x] = [avail |-> items[i].avail, price |-> items[i].price]
      BY <3>1 DEF ItemsDone
    <3>3. LastNaming(p, items, m, i, x)
      <4>1. i \in 1..m
        OBVIOUS
      <4> HIDE DEF m
      <4> QED BY <1>10, <1>11, <2>2, <3>2, <4>1 DEF LastNaming
    <3> QED BY <3>1, <3>2, <3>3
  <2> QED BY <2>1, <2>2
<1>14. Len(items) = m + Len(w.todo)
  BY <1>1, <1>2
<1>15. ItemsDone(w, p, items, m)
  <2>1. m \in Nat
    OBVIOUS
  <2> HIDE DEF m
  <2> QED BY <1>9, <1>12, <1>13, <1>14, <2>1 DEF ItemsDone
<1> QED BY <1>3, <1>15

LEMMA BatchItemDone ==
    ASSUME NEW b, NEW t, NEW q, NEW w, NEW v,
           BatchPrepared(q, b, t), q.todo \in Seq(TodoItem), q.todo # <<>>,
           w.ask = q.ask, w.todo = Tail(q.todo), q.value \in [Row -> Wide \cup {Unset}],
           w.value = [q.value EXCEPT ![Head(q.todo).row] = v],
           v \in Wide, v.price = Head(q.todo).price,
           v.avail = t[Head(q.todo).row].avail
    PROVE  BatchPrepared(w, b, t)
<1> DEFINE c == Head(q.todo)
           hit == AffectedBy(t, q.ask)
           New(x) == PriceBy(b, t, q.ask, x)
<1>1. /\ c = q.todo[1] /\ Len(w.todo) = Len(q.todo) - 1 /\ 1 \in 1..Len(q.todo) /\ Len(q.todo) \in Nat
      /\ \A i \in 1..Len(w.todo) : i + 1 \in 1..Len(q.todo) /\ w.todo[i] = q.todo[i + 1]
  BY HeadTail
<1>2. /\ \A x \in Row \ hit : ~Holds(q, x)
      /\ \A x \in hit : /\ Holds(q, x) /\ q.value[x].avail = t[x].avail
                        /\ q.value[x].price = New(x) \/ \E i \in 1..Len(q.todo) : q.todo[i].row = x
      /\ \A i \in 1..Len(q.todo) :
           q.todo[i].row \in hit /\ q.todo[i].avail = Unset /\ q.todo[i].price = New(q.todo[i].row)
  BY DEF BatchPrepared
<1>3. hit \in SUBSET Row
  BY DEF AffectedBy, AffectedIn
<1>4. c.row \in hit /\ c.row \in Row /\ c.price = New(c.row)
  BY <1>1, <1>2, <1>3
<1>5. \A x \in Row : w.value[x] = IF x = c.row THEN v ELSE q.value[x]
  BY <1>4
<1>6. v # Unset
  BY Apart
<1>7. v.price = New(c.row) /\ v.avail = t[c.row].avail
  BY <1>4
<1> HIDE DEF c, hit, New
<1>8. \A x \in Row \ hit : ~Holds(w, x)
  BY <1>2, <1>4, <1>5 DEF Holds
<1>9. ASSUME NEW x \in hit
      PROVE  /\ Holds(w, x) /\ w.value[x].avail = t[x].avail
             /\ w.value[x].price = New(x) \/ \E i \in 1..Len(w.todo) : w.todo[i].row = x
  <2>1. CASE x = c.row
    BY <1>3, <1>5, <1>6, <1>7, <2>1 DEF Holds
  <2>2. CASE x # c.row
    <3>1. w.value[x] = q.value[x] /\ Holds(w, x)
      BY <1>2, <1>3, <1>5, <2>2 DEF Holds
    <3>2. ASSUME NEW i \in 1..Len(q.todo), q.todo[i].row = x
          PROVE  \E j \in 1..Len(w.todo) : w.todo[j].row = x
      <4>1. i # 1
        BY <1>1, <2>2, <3>2
      <4>2. i - 1 \in 1..Len(w.todo) /\ (i - 1) + 1 = i
        BY <1>1, <4>1
      <4>3. w.todo[i - 1] = q.todo[i]
        BY <1>1, <4>2
      <4> QED BY <3>2, <4>2, <4>3
    <3> QED BY <1>2, <3>1, <3>2
  <2> QED BY <2>1, <2>2
<1>10. \A i \in 1..Len(w.todo) :
         w.todo[i].row \in hit /\ w.todo[i].avail = Unset /\ w.todo[i].price = New(w.todo[i].row)
  BY <1>1, <1>2
<1> QED BY <1>8, <1>9, <1>10 DEF BatchPrepared, hit, New

LEMMA AdvancedPrepared ==
    ASSUME Shape, NEW d \in Desk, desk[d].busy = TRUE, desk[d].todo # <<>>,
           Prepared(desk[d], base, bp)
    PROVE  Prepared(Advanced(d), base, bp)
<1> DEFINE p == desk[d]
           c == Head(p.todo)
           q == Advanced(d)
           f == Found(d, c.row)
           v == Assign(Object(d, c.row), c)
<1>1. IsSession(p) /\ FitsAsk(p) /\ p.ask.op \in Op
  BY DEF Shape, Sessions, IsSession
<1>2. /\ c \in TodoItem /\ q.ask = p.ask /\ q.todo = Tail(p.todo)
      /\ q.seen = [p.seen EXCEPT ![c.row] = f] /\ q.value = [p.value EXCEPT ![c.row] = v]
  BY <1>1, AdvancedFields
<1>3. /\ v \in Wide /\ c.price = v.price /\ (c.avail # Unset => v.avail = c.avail)
      /\ Holds(p, c.row) /\ p.seen[c.row] \in Override /\ c.avail = Unset
           => f = p.seen[c.row] /\ v.avail = p.value[c.row].avail
  BY NextValue
<1>4. /\ p.todo \in Seq(TodoItem) /\ p.seen \in [Row -> Override \cup {Null, Unset}]
      /\ p.value \in [Row -> Wide \cup {Unset}]
  BY <1>1 DEF IsSession
<1>5. c.row \in Row
  <2> HIDE DEF c
  <2> QED BY <1>2 DEF TodoItem
<1>6. \A x \in Row : p.seen[x] = IF Holds(p, x) THEN bp[x] ELSE Unset
  BY DEF Prepared
<1>7. f = bp[c.row] /\ bp[c.row] # Unset /\ bp[c.row] \in Override \cup {Null}
  BY <1>5, <1>6, Apart DEF Found, Shape, TableOK
<1>8. p.ask.op \in {"bulk", "batch"}
  BY <1>1 DEF FitsAsk, Op
<1>9. p.ask.op = "bulk" => BulkPrepared(p)
  BY DEF Prepared
<1>10. p.ask.op = "batch" => BatchPrepared(p, base, bp)
  BY DEF Prepared
<1>11. p.todo # <<>> /\ 1 \in 1..Len(p.todo) /\ c = p.todo[1]
  BY <1>4, HeadTail
<1> HIDE DEF p, q, c, f, v
<1>12. \A x \in Row : q.seen[x] = IF Holds(q, x) THEN bp[x] ELSE Unset
  BY <1>2, <1>3, <1>4, <1>5, <1>6, <1>7, Apart DEF Holds
<1>13. ASSUME p.ask.op = "bulk" PROVE Prepared(q, base, bp)
  <2>1. p.ask.product \in Product /\ p.ask.items \in Seq(BulkItem)
    BY <1>9, <1>13 DEF BulkPrepared
  <2>2. PICK n \in 0..Len(p.ask.items) : ItemsDone(p, p.ask.product, p.ask.items, n)
    BY <1>9, <1>13 DEF BulkPrepared
  <2>3. n \in Nat
    BY <2>2 DEF ItemsDone
  <2>4. ItemsDone(q, p.ask.product, p.ask.items, n + 1) /\ n + 1 \in 0..Len(p.ask.items)
    BY <1>2, <1>3, <1>4, <1>11, <2>1, <2>2, <2>3, ItemDone DEF c
  <2>5. BulkPrepared(q)
    BY <1>2, <2>1, <2>4 DEF BulkPrepared
  <2> QED BY <1>2, <1>12, <1>13, <2>5 DEF Prepared
<1>14. ASSUME p.ask.op = "batch" PROVE Prepared(q, base, bp)
  <2>1. BatchPrepared(p, base, bp)
    BY <1>10, <1>14
  <2>2. c.row \in AffectedBy(bp, p.ask) /\ c.avail = Unset
    BY <1>11, <2>1 DEF BatchPrepared
  <2>3. Holds(p, c.row) /\ p.value[c.row].avail = bp[c.row].avail /\ bp[c.row] # Null
    BY <2>1, <2>2 DEF BatchPrepared, AffectedBy, AffectedIn
  <2>4. p.seen[c.row] \in Override
    BY <1>5, <1>6, <1>7, <2>3
  <2>5. v.avail = bp[c.row].avail
    BY <1>3, <2>2, <2>3, <2>4
  <2>6. BatchPrepared(q, base, bp)
    BY <1>2, <1>3, <1>4, <1>11, <2>1, <2>5, BatchItemDone DEF c
  <2> QED BY <1>2, <1>12, <1>14, <2>6 DEF Prepared
<1>15. Prepared(q, base, bp)
  BY <1>8, <1>13, <1>14
<1> QED BY <1>15 DEF q

LEMMA AloneInit == PricingInit => AlonePrepared
<1> SUFFICES ASSUME PricingInit, NEW d \in Desk PROVE desk[d].busy = FALSE
  BY DEF AlonePrepared
<1> QED BY FreeSession DEF PricingInit

LEMMA Lowered ==
    ASSUME Shape, NEW e \in Desk, desk'[e] = [desk[e] EXCEPT !.alone = FALSE]
    PROVE  desk'[e].alone = FALSE /\ desk'[e].busy = desk[e].busy
<1>1. IsSession(desk[e])
  BY DEF Shape, Sessions
<1> QED BY <1>1, Lower

LEMMA AloneOpens ==
    ASSUME Shape, AlonePrepared, NEW d \in Desk, NEW ask, NEW hits, NEW assigned, NEW todo,
           Opens(d, Opened(ask, hits, assigned, todo)),
           Prepared(Opened(ask, hits, assigned, todo), base, bp)
    PROVE  AlonePrepared'
<1> DEFINE q == Opened(ask, hits, assigned, todo)
<1>1. q.alone = TRUE => \A e \in Desk : ~desk[e].busy
  <2>1. q.alone = Lone
    BY DEF Opened
  <2> HIDE DEF q
  <2> QED BY <2>1 DEF Lone
<1>2. /\ bp' = bp /\ base' = base /\ desk'[d] = q /\ Prepared(q, base, bp)
      /\ \A e \in Desk \ {d} : desk'[e] = [desk[e] EXCEPT !.alone = FALSE]
  BY DEF Opens
<1> HIDE DEF q
<1>3. \A e \in Desk \ {d} : desk'[e].alone = FALSE /\ desk'[e].busy = desk[e].busy
  BY <1>2, Lowered
<1>4. \A e \in Desk : desk[e].busy \in BOOLEAN
  BY DEF Shape, Sessions, IsSession
<1>5. ASSUME NEW e \in Desk, desk'[e].busy = TRUE, desk'[e].alone = TRUE
      PROVE  (\A f \in Desk \ {e} : desk'[f].busy = FALSE) /\ Prepared(desk'[e], base', bp')
  <2>1. e = d
    BY <1>3, <1>5
  <2> QED BY <1>1, <1>2, <1>3, <1>4, <1>5, <2>1
<1> QED BY <1>5 DEF AlonePrepared

LEMMA AloneBeginning ==
    ASSUME Shape, AlonePrepared, NEW d \in Desk, Beginning(d)
    PROVE  AlonePrepared'
<1>1. ASSUME NEW p \in Product, NEW items \in Bodies, BulkUpsert(d, p, items) PROVE AlonePrepared'
  <2>1. items \in Seq(BulkItem)
    BY PricingAssumption
  <2> QED BY <1>1, <2>1, BulkStep, BulkBegun, AloneOpens
<1>2. ASSUME NEW x \in Row, ToggleAvailability(d, x) PROVE AlonePrepared'
  BY <1>2, ToggleStep, ToggleBegun, AloneOpens
<1>3. ASSUME NEW x \in Row, NEW n \in Price \cup {Null, -1}, UpdatePrice(d, x, n) PROVE AlonePrepared'
  BY <1>3, PriceStep, PriceBegun, AloneOpens
<1>4. ASSUME NEW products \in SUBSET Product, NEW branches, NEW op, NEW amount,
             Apply(d, products, branches, op, amount)
      PROVE  AlonePrepared'
  <2>1. PICK order \in Seq(Affected(products, branches)) :
                /\ \A x \in Affected(products, branches) : \E i \in 1..Len(order) : order[i] = x
                /\ \A x \in Affected(products, branches) : Calculate(Effective(x), op, amount) \in Price
                /\ Opens(d, Opened(BatchAsk(products, branches, op, amount),
                                   Affected(products, branches), bp, BatchTodo(order, op, amount)))
    BY <1>4, ApplyStep
  <2>2. Prepared(Opened(BatchAsk(products, branches, op, amount), Affected(products, branches),
                        bp, BatchTodo(order, op, amount)), base, bp)
    BY <2>1, BatchBegun
  <2> QED BY <2>1, <2>2, AloneOpens
<1> QED BY <1>1, <1>2, <1>3, <1>4 DEF Beginning

LEMMA AloneStep == Shape /\ AlonePrepared /\ [PricingNext]_pricingVars => AlonePrepared'
<1> SUFFICES ASSUME Shape, AlonePrepared, [PricingNext]_pricingVars PROVE AlonePrepared'
  OBVIOUS
<1>1. CASE UNCHANGED pricingVars
  BY <1>1 DEF pricingVars, AlonePrepared
<1>2. ASSUME NEW p \in Product, EditProduct(p) PROVE AlonePrepared'
  <2>1. \A e \in Desk : desk'[e] = [desk[e] EXCEPT !.alone = FALSE]
    BY <1>2, EditStep
  <2>2. \A e \in Desk : desk'[e].alone = FALSE
    BY <2>1, Lowered
  <2> QED BY <2>2 DEF AlonePrepared
<1>3. ASSUME NEW d \in Desk, NextRow(d) PROVE AlonePrepared'
  <2>1. /\ bp' = bp /\ base' = base /\ desk'[d] = Advanced(d)
        /\ \A e \in Desk \ {d} : desk'[e] = desk[e]
        /\ desk[d].busy = TRUE /\ desk[d].todo # <<>>
    BY <1>3, NextRowStep DEF Moves
  <2>2. Advanced(d).busy = TRUE /\ Advanced(d).alone = desk[d].alone
    BY <2>1, AdvancedFields DEF Shape, Sessions
  <2>3. ASSUME NEW e \in Desk, desk'[e].busy = TRUE, desk'[e].alone = TRUE
        PROVE  (\A f \in Desk \ {e} : desk'[f].busy = FALSE) /\ Prepared(desk'[e], base', bp')
    <3>1. desk[e].busy = TRUE /\ desk[e].alone = TRUE
      BY <2>1, <2>2, <2>3
    <3>2. (\A f \in Desk \ {e} : desk[f].busy = FALSE) /\ Prepared(desk[e], base, bp)
      BY <3>1 DEF AlonePrepared
    <3>3. e = d
      BY <2>1, <3>2
    <3>4. Prepared(Advanced(d), base, bp)
      BY <2>1, <3>2, <3>3, AdvancedPrepared
    <3> QED BY <2>1, <3>2, <3>3, <3>4
  <2> QED BY <2>3 DEF AlonePrepared
<1>4. ASSUME NEW d \in Desk, Commit(d) \/ Fail(d) PROVE AlonePrepared'
  <2>1. Ends(d)
    BY <1>4, CommitStep, FailStep
  <2>2. desk'[d].busy = FALSE
    BY <2>1, FreeSession DEF Ends
  <2>3. ASSUME NEW e \in Desk PROVE ~(desk'[e].busy = TRUE /\ desk'[e].alone = TRUE)
    <3>1. CASE e = d
      BY <2>2, <3>1
    <3>2. CASE e # d
      <4>1. desk'[e] = desk[e] /\ desk[d].busy = TRUE
        BY <2>1, <3>2 DEF Ends
      <4>2. desk[e].busy = TRUE /\ desk[e].alone = TRUE => desk[d].busy = FALSE
        BY <3>2 DEF AlonePrepared
      <4> QED BY <4>1, <4>2
    <3> QED BY <3>1, <3>2
  <2> QED BY <2>3 DEF AlonePrepared
<1> QED BY <1>1, <1>2, <1>3, <1>4, Steps, AloneBeginning

\* A request that is alone has done its part of its promise and no more.
THEOREM AloneIsPrepared == PricingSpec => [](Shape /\ AlonePrepared)
<1>1. PricingInit => Shape /\ AlonePrepared
  BY ShapeInit, AloneInit
<1>2. Shape /\ AlonePrepared /\ [PricingNext]_pricingVars => (Shape /\ AlonePrepared)'
  BY ShapeStep, AloneStep
<1> QED BY <1>1, <1>2, PTL DEF PricingSpec

LEMMA FlushOwn ==
    ASSUME NEW f \in Override \cup {Null}, NEW v \in Override
    PROVE  Flushed(f, f, v) = v
BY DEF Flushed, Override

\* What a request that is alone writes is what its session holds.
LEMMA AloneCommits ==
    ASSUME Shape, NEW d \in Desk, Commit(d), Prepared(desk[d], base, bp)
    PROVE  /\ bp' \in [Row -> Override \cup {Null}]
           /\ \A x \in Row : bp'[x] = IF Holds(desk[d], x) THEN desk[d].value[x] ELSE bp[x]
<1> DEFINE p == desk[d]
<1>1. /\ bp' \in [Row -> Override \cup {Null}]
      /\ \A x \in Row : bp'[x] = IF x \in Dirty(d) THEN Flushed(p.seen[x], bp[x], p.value[x]) ELSE bp[x]
  BY CommitStep
<1>2. \A x \in Row : p.seen[x] = IF Holds(p, x) THEN bp[x] ELSE Unset
  BY DEF Prepared
<1>3. ASSUME NEW x \in Row
      PROVE  bp'[x] = IF Holds(p, x) THEN p.value[x] ELSE bp[x]
  <2>1. CASE x \in Dirty(d)
    <3>1. Holds(p, x) /\ p.seen[x] = bp[x] /\ p.value[x] \in Override
      BY <1>2, <2>1, CommitRow
    <3>2. Flushed(bp[x], bp[x], p.value[x]) = p.value[x]
      BY <3>1, FlushOwn DEF Shape, TableOK
    <3> QED BY <1>1, <2>1, <3>1, <3>2
  <2>2. CASE x \notin Dirty(d)
    <3>1. Holds(p, x) => p.value[x] = bp[x]
      BY <1>2, <2>2 DEF Dirty, Holds
    <3> QED BY <1>1, <2>2, <3>1
  <2> QED BY <2>1, <2>2
<1> QED BY <1>1, <1>3

\* Each kind of request, once nothing is left to be selected.
LEMMA RowPromised ==
    ASSUME Shape, NEW q, q.ask.op \in {"toggle", "price"}, Prepared(q, base, bp),
           bp' \in [Row -> Override \cup {Null}],
           \A x \in Row : bp'[x] = IF Holds(q, x) THEN q.value[x] ELSE bp[x]
    PROVE  bp' = Promised(q.ask)
<1> DEFINE x == q.ask.row
           v == IF q.ask.op = "toggle" THEN [bp[x] EXCEPT !.avail = ~@]
                                       ELSE [bp[x] EXCEPT !.price = q.ask.price]
<1>1. RowPrepared(q, x, v)
  BY DEF Prepared
<1>2. Promised(q.ask) = [bp EXCEPT ![x] = v]
  BY DEF Promised
<1> HIDE DEF x, v
<1>3. /\ x \in Row /\ v # Unset
      /\ \A y \in Row : q.value[y] = IF y = x THEN v ELSE Unset
  BY <1>1, Apart DEF RowPrepared
<1>4. \A y \in Row : bp'[y] = IF y = x THEN v ELSE bp[y]
  BY <1>3 DEF Holds
<1>5. bp \in [Row -> Override \cup {Null}]
  BY DEF Shape, TableOK
<1>6. bp' = [bp EXCEPT ![x] = v]
  BY <1>3, <1>4, <1>5
<1> QED BY <1>2, <1>6

LEMMA LastOf ==
    ASSUME NEW S, NEW i \in S, \A j \in S : j <= i
    PROVE  LET last == CHOOSE k \in S : \A j \in S : j <= k
           IN last \in S /\ \A j \in S : j <= last
OBVIOUS

LEMMA BulkPromised ==
    ASSUME Shape, NEW q, q.ask.op = "bulk", q.todo = <<>>, Prepared(q, base, bp),
           bp' \in [Row -> Override \cup {Null}],
           \A x \in Row : bp'[x] = IF Holds(q, x) THEN q.value[x] ELSE bp[x]
    PROVE  bp' = Promised(q.ask)
<1> DEFINE ask == q.ask
           p == ask.product
           items == ask.items
           mine(x) == {i \in 1..Len(items) : <<p, items[i].branch>> = x}
           last(x) == CHOOSE i \in mine(x) : \A j \in mine(x) : j <= i
           new(x) == IF mine(x) = {} THEN bp[x]
                     ELSE [avail |-> items[last(x)].avail, price |-> items[last(x)].price]
<1>1. Promised(ask) = [x \in Row |-> new(x)]
  BY DEF Promised
<1>2. PICK n \in 0..Len(items) : ItemsDone(q, p, items, n)
  BY DEF Prepared, BulkPrepared
<1>3. n = Len(items)
  BY <1>2 DEF ItemsDone, Prepared, BulkPrepared
<1>4. ASSUME NEW x \in Row
      PROVE  bp'[x] = new(x)
  <2>1. CASE Holds(q, x)
    <3>1. PICK i \in 1..n : /\ LastNaming(p, items, n, i, x)
                            /\ q.value[x] = [avail |-> items[i].avail, price |-> items[i].price]
      BY <1>2, <2>1 DEF ItemsDone
    <3>2. i \in mine(x) /\ \A j \in mine(x) : j <= i
      BY <1>3, <3>1 DEF LastNaming, Names
    <3>3. last(x) \in mine(x) /\ \A j \in mine(x) : j <= last(x)
      <4> HIDE DEF mine
      <4> QED BY <3>2, LastOf
    <3>4. last(x) = i
      <4>1. i \in Int /\ last(x) \in Int
        <5>1. mine(x) \subseteq Int
          OBVIOUS
        <5> HIDE DEF mine, last
        <5> QED BY <3>2, <3>3, <5>1
      <4> HIDE DEF mine, last
      <4> QED BY <3>2, <3>3, <4>1
    <3>5. mine(x) # {}
      BY <3>2
    <3> HIDE DEF mine, last, ask, items, p
    <3> QED BY <2>1, <3>1, <3>4, <3>5
  <2>2. CASE ~Holds(q, x)
    <3>1. \A i \in 1..Len(items) : ~Names(p, items, i, x)
      BY <1>2, <1>3, <2>2 DEF ItemsDone
    <3>2. mine(x) = {}
      BY <3>1 DEF Names
    <3> HIDE DEF mine, last, ask, items, p
    <3> QED BY <2>2, <3>2
  <2> QED BY <2>1, <2>2
<1>5. bp' = [x \in Row |-> bp'[x]]
  OBVIOUS
<1> HIDE DEF new, ask
<1>6. bp' = Promised(ask)
  BY <1>1, <1>4, <1>5
<1> QED BY <1>6 DEF ask

LEMMA BatchPromised ==
    ASSUME Shape, NEW q, q.ask.op = "batch", q.todo = <<>>, Prepared(q, base, bp),
           q.value \in [Row -> Wide \cup {Unset}],
           bp' \in [Row -> Override \cup {Null}],
           \A x \in Row : bp'[x] = IF Holds(q, x) THEN q.value[x] ELSE bp[x]
    PROVE  bp' = Promised(q.ask)
<1> DEFINE ask == q.ask
           out(x) == bp[x] = Null \/ x[1] \notin ask.products \/ x[2] \notin ask.branches \cap LiveBranch
           new(x) == IF out(x) THEN bp[x]
                     ELSE [bp[x] EXCEPT !.price = Calculate(Effective(x), ask.by, ask.amount)]
<1>1. Promised(ask) = [x \in Row |-> new(x)]
  BY DEF Promised
<1>2. BatchPrepared(q, base, bp) /\ Len(q.todo) = 0
  BY DEF Prepared
<1>3. \A x \in Row : x \in AffectedBy(bp, ask) <=> ~out(x)
  BY DEF AffectedBy, AffectedIn
<1>4. \A x \in Row : PriceBy(base, bp, ask, x) = Calculate(Effective(x), ask.by, ask.amount)
  BY DEF PriceBy, EffectiveIn, Effective
<1>5. ASSUME NEW x \in Row
      PROVE  bp'[x] = new(x)
  <2>1. CASE out(x)
    <3>1. ~Holds(q, x)
      BY <1>2, <1>3, <2>1 DEF BatchPrepared
    <3> QED BY <2>1, <3>1
  <2>2. CASE ~out(x)
    <3> DEFINE c == Calculate(Effective(x), ask.by, ask.amount)
    <3>1. /\ Holds(q, x) /\ q.value[x].avail = bp[x].avail
          /\ q.value[x].price = PriceBy(base, bp, ask, x)
      BY <1>2, <1>3, <2>2 DEF BatchPrepared
    <3>2. q.value[x].price = c
      BY <1>4, <3>1
    <3>3. bp[x] \in Override /\ q.value[x] \in Wide
      BY <2>2, <3>1 DEF Shape, TableOK, Holds
    <3> HIDE DEF c
    <3>4. q.value[x] = [bp[x] EXCEPT !.price = c]
      BY <3>1, <3>2, <3>3 DEF Override, Wide
    <3>5. new(x) = [bp[x] EXCEPT !.price = c]
      BY <2>2 DEF c
    <3> HIDE DEF new
    <3> QED BY <3>1, <3>4, <3>5
  <2> QED BY <2>1, <2>2
<1>6. bp' = [x \in Row |-> bp'[x]]
  OBVIOUS
<1> HIDE DEF new, ask
<1>7. bp' = Promised(ask)
  BY <1>1, <1>5, <1>6
<1> QED BY <1>7 DEF ask

\* A request that is alone waits for nobody, finds no row it did not find before,
\* and so is refused for a negative price only.
LEMMA AloneFails ==
    ASSUME Shape, NEW d \in Desk, Fail(d), \A e \in Desk \ {d} : desk[e].busy = FALSE,
           Prepared(desk[d], base, bp)
    PROVE  desk[d].ask.op = "price" /\ desk[d].ask.price = -1
<1> DEFINE p == desk[d]
<1>1. \A e \in Desk \ {d} : desk[e].locked = {}
  BY DEF Shape, Sessions, IsSession
<1>2. ~Deadlocked(d)
  BY <1>1 DEF Deadlocked, WaitsFor
<1>3. \A x \in Row : p.seen[x] = IF Holds(p, x) THEN bp[x] ELSE Unset
  BY DEF Prepared
<1>4. ~Duplicate(d)
  BY <1>3 DEF Duplicate, Pending, Dirty, Holds
<1>5. Negative(d) /\ p.busy = TRUE
  BY <1>2, <1>4, FailStep DEF Refused, Ends
<1>6. PICK x \in Row : Holds(p, x) /\ p.value[x].price = -1
  BY <1>5 DEF Negative, Pending, Dirty, Holds
<1>7. p.ask.op = "price"
  BY <1>5, <1>6 DEF Shape, Sessions, FitsAsk
<1> DEFINE r == p.ask.row
           v == [bp[r] EXCEPT !.price = p.ask.price]
<1>8. r \in Row /\ v \in Wide /\ \A y \in Row : p.value[y] = IF y = r THEN v ELSE Unset
  BY <1>7 DEF Prepared, RowPrepared
<1>9. x = r /\ p.value[r] = v
  BY <1>6, <1>8 DEF Holds
<1>10. bp[r] \in Override
  BY <1>3, <1>6, <1>9, <1>5, <1>7, Apart DEF Shape, Sessions, FitsAsk
<1>11. v.price = p.ask.price
  BY <1>10 DEF Override
<1> QED BY <1>6, <1>7, <1>9, <1>11

LEMMA AloneEnds ==
    ASSUME Shape, AlonePrepared, [PricingNext]_pricingVars, NEW d \in Desk,
           desk[d].busy, desk[d].alone, ~desk'[d].busy
    PROVE  \/ bp' = Promised(desk[d].ask)
           \/ bp' = bp /\ desk[d].ask.op = "price" /\ desk[d].ask.price = -1
<1> DEFINE p == desk[d]
<1>1. p.busy = TRUE /\ p.alone = TRUE /\ IsSession(p)
  BY DEF Shape, Sessions, IsSession
<1>2. (\A e \in Desk \ {d} : desk[e].busy = FALSE) /\ Prepared(p, base, bp)
  BY <1>1 DEF AlonePrepared
<1>3. CASE Fail(d)
  BY <1>2, <1>3, AloneFails, FailStep
<1>4. CASE Commit(d)
  <2>1. /\ bp' \in [Row -> Override \cup {Null}] /\ p.todo = <<>>
        /\ \A x \in Row : bp'[x] = IF Holds(p, x) THEN p.value[x] ELSE bp[x]
    BY <1>2, <1>4, AloneCommits, CommitStep
  <2>2. p.ask.op \in Op /\ p.value \in [Row -> Wide \cup {Unset}]
    BY <1>1 DEF IsSession
  <2> HIDE DEF p
  <2>3. bp' = Promised(p.ask)
    BY <1>2, <2>1, <2>2, RowPromised, BulkPromised, BatchPromised DEF Op
  <2> QED BY <2>3 DEF p
<1> QED BY <1>3, <1>4, EndsOnly

\* A request nothing overlapped does to every row what it promises
\* (AloneAsPromised of BranchPricing), whatever its body and its rows.
THEOREM AloneAsPromisedHolds == PricingSpec => AloneAsPromised
<1>1. Shape /\ AlonePrepared /\ [PricingNext]_pricingVars
        => [\A d \in Desk :
              desk[d].busy /\ desk[d].alone /\ ~desk'[d].busy
                => \/ bp' = Promised(desk[d].ask)
                   \/ bp' = bp /\ desk[d].ask.op = "price" /\ desk[d].ask.price = -1]_pricingVars
  BY AloneEnds
<1> QED BY <1>1, AloneIsPrepared, PTL DEF PricingSpec, AloneAsPromised

-----------------------------------------------------------------------------
(* The lists of a product                                                  *)
(*                                                                         *)
(* The argument goes by the requests that wrote the rows.  The rows of one *)
(* request come and go together: its DELETE takes all or none of another   *)
(* request's rows, and no row of a request that is still in flight is there to *)
(* be taken.                                                               *)

JobSteps == {"ready", "delete", "deleting", "insert", "update"}

Keys == Key \cup Nat

DetailRow == [key : Keys, by : Request, whole : SUBSET Keys]

Job == [step : JobSteps, id : 0..MaxRequests, keys : Seq(Keys), targets : SUBSET DetailRow,
        values : SUBSET Taste, read : SUBSET Taste]

DetailsTypes ==
    /\ resource \in List \cup Column
    /\ rows \subseteq DetailRow
    /\ column \subseteq Taste
    /\ removed \in BOOLEAN
    /\ work \in [Worker -> Job]
    /\ count \in 0..MaxRequests

Both(a, b) == {a, b}

\* The requests in flight have ids of their own, and have met.
Ids ==
    \A w \in Active :
      /\ work[w].id \in 1..count
      /\ \A v \in Active \ {w} : work[v].id # work[w].id /\ Both(work[v].id, work[w].id) \in met

\* The request that wrote row x is over.
Past(x) == x.by \in 1..count /\ \A v \in Active : work[v].id # x.by

RowsPast == \A x \in rows : Past(x)

\* A DELETE has taken all the rows of a request or none.
TargetsGrouped ==
    \A w \in Worker : \A x \in work[w].targets :
      Past(x) /\ \A y \in rows : y.by = x.by => y \in work[w].targets

\* Rows that a DELETE under way does not take were written meanwhile.
LeftWereMet ==
    \A w \in Worker : work[w].step \in {"deleting", "insert"} =>
      \A x \in rows \ work[w].targets : Both(x.by, work[w].id) \in met

DetailsInv ==
    /\ DetailsTypes /\ Ids /\ RowsPast /\ TargetsGrouped /\ LeftWereMet
    /\ WholeLists /\ UnionOnlyByOverlap

-----------------------------------------------------------------------------
LEMMA ReadyJob ==
    /\ Ready \in Job /\ Ready.step = "ready" /\ Ready.targets = {}
<1>1. <<>> \in Seq(Keys) OBVIOUS
<1>2. 0 \in 0..MaxRequests BY DetailsAssumption
<1> QED BY <1>1, <1>2 DEF Ready, Job, JobSteps

LEMMA InitDetails == DetailsInit => DetailsInv
<1> SUFFICES ASSUME DetailsInit PROVE DetailsInv OBVIOUS
<1>1. DetailsTypes
  <2>1. 0 \in 0..MaxRequests BY DetailsAssumption
  <2>2. work \in [Worker -> Job] BY ReadyJob DEF DetailsInit
  <2> QED BY <2>1, <2>2 DEF DetailsInit, DetailsTypes
<1>2. Active = {} BY ReadyJob DEF DetailsInit, Active
<1>3. \A w \in Worker : work[w].targets = {} BY ReadyJob DEF DetailsInit
<1>4. LeftWereMet BY ReadyJob DEF DetailsInit, LeftWereMet
<1>5. rows = {} BY DEF DetailsInit
<1> QED BY <1>1, <1>2, <1>3, <1>4, <1>5
     DEF DetailsInv, Ids, RowsPast, TargetsGrouped, WholeLists, UnionOnlyByOverlap

\* The jobs after a step of w.
LEMMA OneJob ==
    ASSUME DetailsTypes, NEW w \in Worker, NEW q \in Job, work' = [work EXCEPT ![w] = q]
    PROVE  /\ work' \in [Worker -> Job] /\ work'[w] = q
           /\ \A v \in Worker \ {w} : work'[v] = work[v]
BY DEF DetailsTypes

\* The steps that leave the rows alone and let w go on as q.
LEMMA JobStep ==
    ASSUME DetailsInv, NEW w \in Worker, NEW q \in Job, work' = [work EXCEPT ![w] = q],
           q.step # "ready" => work[w].step # "ready" /\ q.id = work[w].id,
           \A x \in q.targets : Past(x) /\ \A y \in rows : y.by = x.by => y \in q.targets,
           q.step \in {"deleting", "insert"} =>
             \A x \in rows \ q.targets : Both(x.by, q.id) \in met,
           UNCHANGED <<resource, rows, removed, count, met>>,
           column' \subseteq Taste
    PROVE  DetailsInv'
<1> USE DEF DetailsInv
<1>1. /\ work' \in [Worker -> Job] /\ work'[w] = q
      /\ \A v \in Worker \ {w} : work'[v] = work[v]
  BY OneJob
<1>2. DetailsTypes' BY <1>1 DEF DetailsTypes
<1>3. \A v \in Active' : v \in Active /\ work'[v].id = work[v].id BY <1>1 DEF Active
<1>4. Ids' BY <1>3 DEF Ids
<1>5. \A x : Past(x) => Past(x)' BY <1>3 DEF Past
<1>6. RowsPast' BY <1>5 DEF RowsPast
<1>7. TargetsGrouped'
  <2> SUFFICES ASSUME NEW v \in Worker, NEW x \in work'[v].targets
               PROVE  Past(x)' /\ \A y \in rows : y.by = x.by => y \in work'[v].targets
    BY DEF TargetsGrouped
  <2>1. CASE v = w BY <1>1, <1>5, <2>1
  <2>2. CASE v # w BY <1>1, <1>5, <2>2 DEF TargetsGrouped
  <2> QED BY <2>1, <2>2
<1>8. LeftWereMet' BY <1>1 DEF LeftWereMet
<1>9. WholeLists' /\ UnionOnlyByOverlap' BY DEF WholeLists, UnionOnlyByOverlap
<1> QED BY <1>2, <1>4, <1>6, <1>7, <1>8, <1>9

-----------------------------------------------------------------------------
(* A request begins *)

LEMMA EnterStep ==
    ASSUME DetailsInv, NEW w \in Worker, NEW step \in {"delete", "update"}, NEW keys \in Seq(Keys),
           NEW values \in SUBSET Taste, Enter(w, step, keys, values)
    PROVE  DetailsInv'
<1> USE DEF DetailsInv
<1> DEFINE q == [step |-> step, id |-> count + 1, keys |-> keys, targets |-> {},
                 values |-> values, read |-> column]
<1>1. /\ count \in Nat /\ count + 1 \in 0..MaxRequests /\ count' = count + 1
      /\ work[w].step = "ready"
      /\ UNCHANGED <<resource, rows, column, removed>>
  BY DetailsAssumption DEF Enter, DetailsTypes
<1>2. q \in Job /\ q.step = step /\ q.id = count + 1 /\ q.targets = {}
  BY <1>1 DEF Job, JobSteps, DetailsTypes
<1>3. work' = [work EXCEPT ![w] = q] /\ met' = met \cup {{work[v].id, count + 1} : v \in Active}
  BY DEF Enter
<1> HIDE DEF q
<1>4. /\ work' \in [Worker -> Job] /\ work'[w] = q
      /\ \A v \in Worker \ {w} : work'[v] = work[v]
  BY <1>2, <1>3, OneJob
<1>5. DetailsTypes' BY <1>1, <1>4 DEF DetailsTypes
<1>6. Active' = Active \cup {w} /\ w \notin Active BY <1>1, <1>2, <1>4 DEF Active
<1>7. \A v \in Active : work'[v] = work[v] /\ work[v].id \in 1..count
  BY <1>4, <1>6 DEF Active, Ids
<1>8. Ids'
  <2> SUFFICES ASSUME NEW v \in Active', NEW u \in Active' \ {v}
               PROVE  /\ work'[v].id \in 1..(count + 1)
                      /\ work'[u].id # work'[v].id /\ Both(work'[u].id, work'[v].id) \in met'
    <3>1. work'[w].id \in 1..(count + 1) BY <1>1, <1>2, <1>4
    <3>2. \A v \in Active' : work'[v].id \in 1..(count + 1) BY <1>1, <1>6, <1>7, <3>1
    <3> QED BY <1>1, <3>2 DEF Ids
  <2>1. CASE v # w /\ u # w
    BY <1>1, <1>3, <1>6, <1>7, <2>1 DEF Ids
  <2>2. CASE v = w
    <3>1. u \in Active /\ work'[u].id = work[u].id /\ work[u].id \in 1..count
      BY <1>6, <1>7, <2>2
    <3>2. Both(work[u].id, count + 1) \in met' BY <1>3, <3>1 DEF Both
    <3> QED BY <1>1, <1>2, <1>4, <2>2, <3>1, <3>2
  <2>3. CASE u = w
    <3>1. v \in Active /\ work'[v].id = work[v].id /\ work[v].id \in 1..count
      BY <1>6, <1>7, <2>3
    <3>2. Both(work[v].id, count + 1) \in met' BY <1>3, <3>1 DEF Both
    <3>3. Both(count + 1, work[v].id) = Both(work[v].id, count + 1) BY DEF Both
    <3> QED BY <1>1, <1>2, <1>4, <2>3, <3>1, <3>2, <3>3
  <2> QED BY <2>1, <2>2, <2>3
<1>9. \A x : Past(x) => Past(x)'
  <2> SUFFICES ASSUME NEW x, Past(x)
               PROVE  x.by \in 1..(count + 1) /\ \A v \in Active' : work'[v].id # x.by
    BY <1>1 DEF Past
  <2>1. x.by \in 1..count /\ \A v \in Active : work[v].id # x.by BY DEF Past
  <2> QED BY <1>1, <1>2, <1>4, <1>6, <1>7, <2>1
<1>10. RowsPast' BY <1>1, <1>9 DEF RowsPast
<1>11. TargetsGrouped'
  <2> SUFFICES ASSUME NEW v \in Worker, NEW x \in work'[v].targets
               PROVE  Past(x)' /\ \A y \in rows : y.by = x.by => y \in work'[v].targets
    BY <1>1 DEF TargetsGrouped
  <2> QED BY <1>2, <1>4, <1>9 DEF TargetsGrouped
<1>12. LeftWereMet' BY <1>1, <1>2, <1>3, <1>4 DEF LeftWereMet
<1>13. WholeLists' /\ UnionOnlyByOverlap' BY <1>1, <1>3 DEF WholeLists, UnionOnlyByOverlap
<1> QED BY <1>5, <1>8, <1>10, <1>11, <1>12, <1>13

\* The keys a body sends.
LEMMA SentKeys ==
    ASSUME NEW S, NEW s \in ListOf(S)
    PROVE  /\ s \in Seq(S) /\ Len(s) \in Nat /\ s \in [1..Len(s) -> S]
<1>1. PICK m \in 0..MaxLength : s \in [1..m -> S] BY DEF ListOf, BoundedSeq, SeqOf
<1>2. m \in Nat BY DetailsAssumption
<1> QED BY <1>1, <1>2

LEMMA PutStep ==
    ASSUME DetailsInv, NEW w \in Worker,
           \/ \E items \in ListOf(AllergenItem) : SetAllergens(w, items)
           \/ \E ids \in ListOf(Key) : \/ SetDietaryProfiles(w, ids) \/ SetCookingMethods(w, ids)
                                       \/ SetBadges(w, ids) \/ SetSeals(w, ids)
           \/ \E ordenes \in ListOf(Orden \cup {Omitted}) : SetIngredients(w, ordenes)
           \/ \E values \in SUBSET Taste : SetFlavorProfiles(w, values) \/ SetTextureProfiles(w, values)
    PROVE  DetailsInv'
<1>1. ASSUME NEW items \in ListOf(AllergenItem), SetAllergens(w, items) PROVE DetailsInv'
  <2> DEFINE keys == [i \in 1..Len(items) |-> items[i].key]
  <2>1. Len(items) \in Nat /\ items \in [1..Len(items) -> AllergenItem] BY SentKeys
  <2>2. \A i \in 1..Len(items) : items[i].key \in Keys BY <2>1 DEF AllergenItem, Keys
  <2>3. keys \in Seq(Keys) BY <2>1, <2>2
  <2>4. Enter(w, "delete", keys, {}) BY <1>1 DEF SetAllergens, Replace
  <2> HIDE DEF keys
  <2> QED BY <2>3, <2>4, EnterStep
<1>2. ASSUME NEW ids \in ListOf(Key), Enter(w, "delete", ids, {}) PROVE DetailsInv'
  <2>1. ids \in Seq(Keys) BY SentKeys DEF Keys
  <2> QED BY <1>2, <2>1, EnterStep
<1>3. ASSUME NEW ordenes \in ListOf(Orden \cup {Omitted}), SetIngredients(w, ordenes)
      PROVE  DetailsInv'
  <2> DEFINE keys == [i \in 1..Len(ordenes) |-> SortOrder(ordenes[i])]
  <2>1. Len(ordenes) \in Nat /\ ordenes \in [1..Len(ordenes) -> Orden \cup {Omitted}] BY SentKeys
  <2>2. \A i \in 1..Len(ordenes) : SortOrder(ordenes[i]) \in Keys
    BY <2>1, DetailsAssumption DEF SortOrder, Keys
  <2>3. keys \in Seq(Keys) BY <2>1, <2>2
  <2>4. Enter(w, "delete", keys, {}) BY <1>3 DEF SetIngredients, Replace
  <2> HIDE DEF keys
  <2> QED BY <2>3, <2>4, EnterStep
<1>4. ASSUME NEW values \in SUBSET Taste,
             SetFlavorProfiles(w, values) \/ SetTextureProfiles(w, values)
      PROVE  DetailsInv'
  <2>1. Enter(w, "update", <<>>, values) BY <1>4 DEF SetFlavorProfiles, SetTextureProfiles
  <2>2. <<>> \in Seq(Keys) OBVIOUS
  <2> QED BY <2>1, <2>2, EnterStep
<1> QED BY <1>1, <1>2, <1>3, <1>4
     DEF SetDietaryProfiles, SetCookingMethods, SetBadges, SetSeals, Replace

-----------------------------------------------------------------------------
(* DELETE, INSERT and the ends *)

LEMMA StartDeleteStep ==
    ASSUME DetailsInv, NEW w \in Worker, StartDelete(w)
    PROVE  DetailsInv'
<1> DEFINE q == [work[w] EXCEPT !.step = "deleting", !.targets = rows]
<1>1. work[w] \in Job /\ rows \in SUBSET DetailRow BY DEF DetailsInv, DetailsTypes
<1>2. q \in Job /\ q.step = "deleting" /\ q.targets = rows /\ q.id = work[w].id
  BY <1>1 DEF Job, JobSteps
<1>3. work' = [work EXCEPT ![w] = q] /\ work[w].step = "delete"
        /\ UNCHANGED <<resource, rows, column, removed, count, met>>
  BY <1>1 DEF StartDelete, DetailsInv, DetailsTypes
<1> HIDE DEF q
<1>4. \A x \in rows : Past(x) BY DEF DetailsInv, RowsPast
<1>5. column' \subseteq Taste BY <1>3 DEF DetailsInv, DetailsTypes
<1> QED BY <1>2, <1>3, <1>4, <1>5, JobStep

LEMMA FinishDeleteStep ==
    ASSUME DetailsInv, NEW w \in Worker, FinishDelete(w)
    PROVE  DetailsInv'
<1> DEFINE T == Targets(w)
           q == [work[w] EXCEPT !.step = "insert", !.targets = T]
<1>1. work[w] \in Job /\ T = work[w].targets \cap rows BY DEF DetailsInv, DetailsTypes, Targets
<1>2. T \in SUBSET DetailRow BY <1>1 DEF Job
<1>3. work' = [work EXCEPT ![w] = q] /\ work[w].step = "deleting"
        /\ UNCHANGED <<resource, rows, column, removed, count, met>>
  BY <1>1 DEF FinishDelete, DetailsInv, DetailsTypes
<1> HIDE DEF T
<1>4. q \in Job /\ q.step = "insert" /\ q.targets = T /\ q.id = work[w].id
  BY <1>1, <1>2 DEF Job, JobSteps
<1> HIDE DEF q
<1>5. \A x \in T : Past(x) /\ \A y \in rows : y.by = x.by => y \in T
  BY <1>1 DEF DetailsInv, TargetsGrouped
<1>6. \A x \in rows \ T : Both(x.by, work[w].id) \in met
  BY <1>1, <1>3 DEF DetailsInv, LeftWereMet
<1>7. column' \subseteq Taste BY <1>3 DEF DetailsInv, DetailsTypes
<1> QED BY <1>3, <1>4, <1>5, <1>6, <1>7, JobStep

LEMMA ReadyStep ==
    ASSUME DetailsInv, NEW w \in Worker, Refuse(w) \/ UpdateAndCommit(w)
    PROVE  DetailsInv'
<1>1. work[w] \in Job BY DEF DetailsInv, DetailsTypes
<1>2. column' \subseteq Taste
  BY <1>1 DEF Refuse, UpdateAndCommit, DetailsInv, DetailsTypes, Job
<1>3. work' = [work EXCEPT ![w] = Ready] /\ UNCHANGED <<resource, rows, removed, count, met>>
  BY DEF Refuse, UpdateAndCommit
<1> QED BY <1>2, <1>3, ReadyJob, JobStep

\* The commit: the rows of w come all at once, and of another request's rows all
\* go or none.
LEMMA WriteStep ==
    ASSUME DetailsInv, NEW w \in Worker, InsertAndCommit(w)
    PROVE  DetailsInv'
<1> USE DEF DetailsInv
<1> DEFINE id   == work[w].id
           sent == ToSet(work[w].keys)
<1>1. /\ work[w] \in Job /\ work[w].step = "insert" /\ w \in Active
      /\ rows' = (rows \ work[w].targets) \cup NewRows(w)
      /\ work' = [work EXCEPT ![w] = Ready]
      /\ UNCHANGED <<resource, column, removed, count, met>>
  BY DEF InsertAndCommit, DetailsTypes, Kept, Active
<1>2. /\ work' \in [Worker -> Job] /\ work'[w] = Ready
      /\ \A v \in Worker \ {w} : work'[v] = work[v]
  BY <1>1, OneJob, ReadyJob
<1>3. Active' = Active \ {w} /\ \A v \in Active' : work'[v] = work[v]
  BY <1>1, <1>2, ReadyJob DEF Active
<1>4. id \in 1..count /\ \A v \in Active' : work'[v].id # id
  BY <1>1, <1>3 DEF Ids
<1>5. id \in Request BY <1>4, DetailsAssumption DEF DetailsTypes, Request
<1>6. sent \subseteq Keys BY <1>1 DEF ToSet, Job
<1>7. \A x \in NewRows(w) : x \in DetailRow /\ x.by = id /\ x.whole = sent /\ x.key \in sent
  BY <1>5, <1>6 DEF NewRows, DetailRow
<1>8. ASSUME NEW k \in sent PROVE \E x \in NewRows(w) : x.key = k
  <2> DEFINE x == [key |-> k, by |-> id, whole |-> sent]
  <2>1. x \in NewRows(w) BY DEF NewRows
  <2>2. x.key = k OBVIOUS
  <2> QED BY <2>1, <2>2
<1>9. \A x \in rows : x.by # id BY <1>1 DEF RowsPast, Past
<1>10. DetailsTypes' BY <1>1, <1>2, <1>7 DEF DetailsTypes
<1>11. Ids' BY <1>1, <1>3 DEF Ids
<1>12. \A x : Past(x) => Past(x)' BY <1>1, <1>3 DEF Past
<1>13. \A x \in NewRows(w) : Past(x)' BY <1>1, <1>4, <1>7 DEF Past
<1>14. RowsPast' BY <1>1, <1>12, <1>13 DEF RowsPast
<1>15. TargetsGrouped'
  <2> SUFFICES ASSUME NEW v \in Worker, NEW x \in work'[v].targets
               PROVE  Past(x)' /\ \A y \in rows' : y.by = x.by => y \in work'[v].targets
    BY DEF TargetsGrouped
  <2>1. v # w /\ x \in work[v].targets /\ work'[v] = work[v] BY <1>2, ReadyJob
  <2>2. Past(x) /\ \A y \in rows : y.by = x.by => y \in work[v].targets
    BY <2>1 DEF TargetsGrouped
  <2>3. x.by # id BY <1>1, <2>2 DEF Past
  <2> QED BY <1>1, <1>7, <1>12, <2>1, <2>2, <2>3
<1>16. LeftWereMet'
  <2> SUFFICES ASSUME NEW v \in Worker, work'[v].step \in {"deleting", "insert"},
                      NEW x \in rows' \ work'[v].targets
               PROVE  Both(x.by, work'[v].id) \in met
    BY <1>1 DEF LeftWereMet
  <2>1. v # w /\ work'[v] = work[v] /\ v \in Active BY <1>2, ReadyJob DEF Active
  <2>2. CASE x \in rows BY <2>1, <2>2 DEF LeftWereMet
  <2>3. CASE x \in NewRows(w)
    <3>1. Both(work[w].id, work[v].id) \in met BY <1>1, <2>1 DEF Ids
    <3> QED BY <1>7, <2>1, <2>3, <3>1
  <2> QED BY <1>1, <2>2, <2>3
<1>17. ASSUME NEW x \in rows \ work[w].targets
       PROVE  {z \in rows' : z.by = x.by} = {z \in rows : z.by = x.by}
  <2>1. \A z \in rows : z.by = x.by => z \notin work[w].targets
    BY <1>17 DEF TargetsGrouped
  <2> QED BY <1>1, <1>7, <1>9, <2>1
<1>18. WholeLists'
  <2> SUFFICES ASSUME NEW x \in rows'
               PROVE  x.whole = {y.key : y \in {z \in rows' : z.by = x.by}}
    BY DEF WholeLists
  <2>1. CASE x \in rows \ work[w].targets BY <1>17, <2>1 DEF WholeLists
  <2>2. CASE x \in NewRows(w)
    <3>1. {z \in rows' : z.by = x.by} = NewRows(w) BY <1>1, <1>7, <1>9, <2>2
    <3>2. {y.key : y \in NewRows(w)} = sent BY <1>7, <1>8
    <3> QED BY <1>7, <2>2, <3>1, <3>2
  <2> QED BY <1>1, <2>1, <2>2
<1>19. UnionOnlyByOverlap'
  <2> SUFFICES ASSUME NEW x \in rows', NEW y \in rows', x.by # y.by
               PROVE  Both(x.by, y.by) \in met
    BY <1>1 DEF UnionOnlyByOverlap, Both
  <2>1. CASE x \in rows /\ y \in rows BY <2>1 DEF UnionOnlyByOverlap, Both
  <2>2. ASSUME NEW z \in rows \ work[w].targets PROVE Both(z.by, id) \in met
    BY <1>1 DEF LeftWereMet
  <2>3. CASE x \in rows \ work[w].targets /\ y \in NewRows(w) BY <1>7, <2>2, <2>3
  <2>4. CASE y \in rows \ work[w].targets /\ x \in NewRows(w)
    <3>1. Both(x.by, y.by) = Both(y.by, id) BY <1>7, <2>4 DEF Both
    <3> QED BY <2>2, <2>4, <3>1
  <2> QED BY <1>1, <1>7, <2>1, <2>3, <2>4
<1> QED BY <1>10, <1>11, <1>14, <1>15, <1>16, <1>18, <1>19

LEMMA StandStill ==
    ASSUME DetailsInv, UNCHANGED <<resource, rows, column, work, count, met>>, removed' \in BOOLEAN
    PROVE  DetailsInv'
BY DEF DetailsInv, DetailsTypes, Ids, RowsPast, Past, TargetsGrouped, LeftWereMet, WholeLists,
       UnionOnlyByOverlap, Active

LEMMA NextDetails == DetailsInv /\ [DetailsNext]_detailsVars => DetailsInv'
<1> SUFFICES ASSUME DetailsInv, [DetailsNext]_detailsVars PROVE DetailsInv' OBVIOUS
<1>1. CASE RemoveProduct BY <1>1, StandStill DEF RemoveProduct
<1>2. CASE UNCHANGED detailsVars
  <2>1. removed' \in BOOLEAN BY <1>2 DEF detailsVars, DetailsInv, DetailsTypes
  <2> QED BY <1>2, <2>1, StandStill DEF detailsVars
<1> QED BY <1>1, <1>2, PutStep, StartDeleteStep, FinishDeleteStep, WriteStep, ReadyStep
     DEF DetailsNext

-----------------------------------------------------------------------------
\* The inductive invariant of the sub-resources.
THEOREM DetailsInvariant == DetailsSpec => []DetailsInv
BY InitDetails, NextDetails, PTL DEF DetailsSpec

\* Type correctness.
THEOREM DetailsTypeCorrect == DetailsSpec => []DetailsTypeOK
<1>1. DetailsInv => DetailsTypeOK
  BY DEF DetailsInv, DetailsTypes, DetailsTypeOK, DetailRow, Keys
<1> QED BY <1>1, DetailsInvariant, PTL

\* However many PUTs overlap, all the rows a request sent are there or none.
THEOREM WholeListsHolds == DetailsSpec => []WholeLists
<1>1. DetailsInv => WholeLists BY DEF DetailsInv
<1> QED BY <1>1, DetailsInvariant, PTL

\* A list mixes the rows of two requests only if they were in flight together.
THEOREM UnionOnlyByOverlapHolds == DetailsSpec => []UnionOnlyByOverlap
<1>1. DetailsInv => UnionOnlyByOverlap BY DEF DetailsInv
<1> QED BY <1>1, DetailsInvariant, PTL

=============================================================================
