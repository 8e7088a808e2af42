--------------------------- MODULE BranchPricing ---------------------------
(***************************************************************************)
(* Price and availability of products per branch:                          *)
(* rest_api/app/services/domain/branch_product_service.py and              *)
(* batch_price_service.py behind routers/dashboard/branch_products.py and  *)
(* batch_price.py, over the branch_products table.                         *)
(*                                                                         *)
(* Every request has a database session of its own.  The session keeps     *)
(* each row as its first SELECT found it (a later SELECT of the same row   *)
(* returns the same object), an UPDATE writes only the columns that were   *)
(* given another value than the one found, and what is pending is flushed  *)
(* before the next SELECT and at the commit.  A flushed row is locked      *)
(* until its transaction ends; PostgreSQL ends a circle of waiting         *)
(* transactions by refusing one of them.                                   *)
(***************************************************************************)
EXTENDS Integers, Sequences, SequencesExt

CONSTANTS
    Product, LiveBranch, DeletedBranch, ForeignBranch,  \* ForeignBranch: another tenant's
    Desk,       \* request slots
    Null,       \* SQL NULL, and no row
    Unset,      \* not in the identity map of a session, not assigned by a request
    MaxPrice,   \* bound: prices are 0..MaxPrice
    MaxWrites,  \* bound on the requests begun
    BasePrice,  \* base_price_cents of the products at the start
    StartRows,  \* bound: the rows of the tenant's branches at the start
    Bodies,     \* bound: the lists of items a bulk update may send
    Amounts     \* bound: the amounts of a batch

Price    == 0..MaxPrice
Branch   == LiveBranch \cup DeletedBranch \cup ForeignBranch
Row      == Product \X Branch
Override == [avail : BOOLEAN, price : Price \cup {Null}]

\* BranchProductBulkItem: both columns always have a value, the price is not negative.
BulkItem == [branch : Branch, avail : BOOLEAN, price : Price \cup {Null}]

\* A table has finitely many rows.
ASSUME PricingAssumption ==
    /\ IsFiniteSet(Row)
    /\ MaxPrice \in Nat /\ MaxWrites \in Nat
    /\ BasePrice \in [Product -> Price]
    /\ StartRows \subseteq Override \cup {Null}
    /\ Bodies \subseteq Seq(BulkItem) /\ Amounts \subseteq Nat
    /\ Null \notin Int /\ Unset \notin Int \cup {Null} \cup BOOLEAN
    /\ {Null, Unset} \cap [avail : BOOLEAN, price : Int \cup {Null}] = {}

VARIABLES
    base,      \* products.base_price_cents
    bp,        \* branch_products: the row of a product and a branch, or Null
    gone,      \* products with deleted_at set
    desk,      \* what each request slot is doing
    begun      \* how many requests were begun

pricingVars == <<base, bp, gone, desk, begun>>

Free == [busy |-> FALSE, ask |-> Null, todo |-> <<>>, locked |-> {}, alone |-> TRUE,
         seen |-> [x \in Row |-> Unset], value |-> [x \in Row |-> Unset]]

-----------------------------------------------------------------------------
(* Prices *)

\* effective_price_cents: the override of the branch, else the base price.
Effective(x) == IF bp[x].price # Null THEN bp[x].price ELSE base[x[1]]

\* Python's round: a half goes to the even neighbour.
RoundHundredths(n) ==
    LET q    == n \div 100
        rest == n % 100
    IN IF rest > 50 \/ (rest = 50 /\ q % 2 = 1) THEN q + 1 ELSE q

\* _calculate before its clamp.
Raw(old, op, amount) ==
    CASE op = "FIXED_ADD"           -> old + amount
      [] op = "FIXED_SUBTRACT"      -> old - amount
      [] op = "PERCENTAGE_INCREASE" -> RoundHundredths(old * (100 + amount))
      [] op = "PERCENTAGE_DECREASE" -> RoundHundredths(old * (100 - amount))

Calculate(old, op, amount) == IF Raw(old, op, amount) < 0 THEN 0 ELSE Raw(old, op, amount)

-----------------------------------------------------------------------------
(* A session: identity map, flush, locks and commit *)

\* The rows the session has something to write in, and those not flushed yet.
Dirty(d)   == {x \in Row : desk[d].value[x] # Unset /\ desk[d].value[x] # desk[d].seen[x]}
Pending(d) == Dirty(d) \ desk[d].locked

\* The next flush of d waits for the transaction of e.
WaitsFor(d, e) == e # d /\ Pending(d) \cap desk[e].locked # {}

CanFlush(d) == \A e \in Desk : ~WaitsFor(d, e)

\* d is one of a circle of sessions that wait for each other.
Deadlocked(d) ==
    \E S \in SUBSET Desk : d \in S /\ \A e \in S : \E f \in S : WaitsFor(e, f)

\* uq_branch_products_branch_product: another session has inserted the row since.
Duplicate(d) == \E x \in Pending(d) : desk[d].seen[x] = Null /\ bp[x] # Null

\* ck_branch_products_price_positive.
Negative(d) == \E x \in Pending(d) : desk[d].value[x].price = -1

\* The flush raises IntegrityError.
Refused(d) == Duplicate(d) \/ Negative(d)

WholeRow(found, now, v) == v

\* The row after the flush of v over the row as it is now: an INSERT when the
\* session had found none, else an UPDATE of the columns that differ from found.
Flushed(found, now, v) ==
    IF found = Null THEN v
    ELSE [avail |-> IF v.avail # found.avail THEN v.avail ELSE now.avail,
          price |-> IF v.price # found.price THEN v.price ELSE now.price]

\* The table once the transaction of d is committed.
Committed(d) ==
    [x \in Row |-> IF x \in Dirty(d) THEN Flushed(desk[d].seen[x], bp[x], desk[d].value[x])
                   ELSE bp[x]]

\* What a SELECT of row x gives the session.
Found(d, x) == IF desk[d].seen[x] = Unset THEN bp[x] ELSE desk[d].seen[x]

\* The object of row x: _get_or_create makes one with the defaults if there is none.
Object(d, x) ==
    CASE desk[d].value[x] # Unset -> desk[d].value[x]
      [] desk[d].value[x] = Unset /\ Found(d, x) # Null -> Found(d, x)
      [] OTHER -> [avail |-> TRUE, price |-> Null]

Assign(o, c) == [avail |-> IF c.avail = Unset THEN o.avail ELSE c.avail,
                 price |-> IF c.price = Unset THEN o.price ELSE c.price]

\* A request begins with what its first SELECT found in rows and with what it
\* assigns at once; todo is what it still has to select and assign.
Begin(d, ask, rows, assigned, todo) ==
    /\ begun < MaxWrites
    /\ ~desk[d].busy
    /\ begun' = begun + 1
    /\ desk' = [e \in Desk |->
                 IF e # d THEN [desk[e] EXCEPT !.alone = FALSE]
                 ELSE [busy |-> TRUE, ask |-> ask, todo |-> todo, locked |-> {},
                       alone |-> \A f \in Desk : ~desk[f].busy,
                       seen |-> [x \in Row |-> IF x \in rows THEN bp[x] ELSE Unset],
                       value |-> [x \in Row |-> IF x \in rows THEN assigned[x] ELSE Unset]]]
    /\ UNCHANGED <<base, bp, gone>>

-----------------------------------------------------------------------------
PricingInit ==
    /\ base = BasePrice
    /\ \E o \in StartRows : bp = [x \in Row |-> IF x[2] \in ForeignBranch THEN Null ELSE o]
    /\ gone = {}
    /\ desk = [d \in Desk |-> Free]
    /\ begun = 0

\* ProductService.update and delete, which leave branch_products alone.
EditProduct(p) ==
    /\ begun < MaxWrites
    /\ begun' = begun + 1
    /\ \/ base' \in {[base EXCEPT ![p] = n] : n \in Price} /\ UNCHANGED gone
       \/ gone' = gone \cup {p} /\ UNCHANGED base
    /\ desk' = [d \in Desk |-> [desk[d] EXCEPT !.alone = FALSE]]
    /\ UNCHANGED bp

\* PUT /products/{id}/branches: bulk_upsert checks the product, but no branch.
BulkUpsert(d, p, items) ==
    /\ p \notin gone
    /\ Begin(d, [op |-> "bulk", product |-> p, items |-> items], {}, <<>>,
             [i \in 1..Len(items) |-> [row |-> <<p, items[i].branch>>,
                                       avail |-> items[i].avail, price |-> items[i].price]])

\* _fetch_bp: a row at a branch of the tenant; the branch may be deleted.
Fetched(x) == bp[x] # Null /\ x[2] \notin ForeignBranch

AlwaysOff(d, x) ==
    /\ Fetched(x)
    /\ Begin(d, [op |-> "toggle", row |-> x], {x}, [y \in {x} |-> [bp[x] EXCEPT !.avail = FALSE]], <<>>)

\* PATCH /products/{id}/branches/{branch_id}/availability.
ToggleAvailability(d, x) ==
    /\ Fetched(x)
    /\ Begin(d, [op |-> "toggle", row |-> x], {x}, [y \in {x} |-> [bp[x] EXCEPT !.avail = ~@]], <<>>)

\* PATCH /products/{id}/branches/{branch_id}/price: the body is not validated.
UpdatePrice(d, x, n) ==
    /\ Fetched(x)
    /\ Begin(d, [op |-> "price", row |-> x, price |-> n], {x}, [y \in {x} |-> [bp[x] EXCEPT !.price = n]], <<>>)

\* _fetch_affected: the rows of the products at live branches, at one of them
\* if the request names a branch.
Affected(products, branches) ==
    {x \in Row : bp[x] # Null /\ x[1] \in products /\ x[2] \in branches \cap LiveBranch}

\* POST /products/batch-price/apply: preview selects the affected rows, in no
\* particular order, and computes every new price.
Apply(d, products, branches, op, amount) ==
    LET rows == Affected(products, branches)
        New(x) == Calculate(Effective(x), op, amount)
    IN /\ \A x \in rows : New(x) \in Price  \* bound
       /\ \E order \in SetToSeqs(rows) :
            Begin(d, [op |-> "batch", products |-> products, branches |-> branches,
                      by |-> op, amount |-> amount],
                  rows, bp,
                  [i \in 1..Len(order) |->
                     [row |-> order[i], avail |-> Unset, price |-> New(order[i])]])

\* The SELECT of the next row, before which the session flushes what is pending.
NextRow(d) ==
    /\ desk[d].busy /\ desk[d].todo # <<>>
    /\ CanFlush(d) /\ ~Refused(d)
    /\ LET c == Head(desk[d].todo)
       IN desk' = [desk EXCEPT ![d].locked = @ \cup Pending(d),
                               ![d].seen[c.row] = Found(d, c.row),
                               ![d].value[c.row] = Assign(Object(d, c.row), c),
                               ![d].todo = Tail(@)]
    /\ UNCHANGED <<base, bp, gone, begun>>

\* safe_commit.
Commit(d) ==
    /\ desk[d].busy /\ desk[d].todo = <<>>
    /\ CanFlush(d) /\ ~Refused(d)
    /\ bp' = Committed(d)
    /\ desk' = [desk EXCEPT ![d] = Free]
    /\ UNCHANGED <<base, gone, begun>>

\* 409 or 500 and a rollback: a constraint is violated, or the session is the
\* victim of a deadlock.
Fail(d) ==
    /\ desk[d].busy
    /\ (CanFlush(d) /\ Refused(d)) \/ Deadlocked(d)
    /\ desk' = [desk EXCEPT ![d] = Free]
    /\ UNCHANGED <<base, bp, gone, begun>>

PricingNext ==
    \/ \E p \in Product : EditProduct(p)
    \/ \E d \in Desk :
         \/ \E p \in Product, items \in Bodies : BulkUpsert(d, p, items)
         \/ \E x \in Row : ToggleAvailability(d, x)
         \/ \E x \in Row, n \in Price \cup {Null, -1} : UpdatePrice(d, x, n)
         \/ \E products \in SUBSET Product \ {{}}, branches \in {Branch} \cup {{b} : b \in Branch},
              op \in {"FIXED_ADD", "FIXED_SUBTRACT", "PERCENTAGE_INCREASE", "PERCENTAGE_DECREASE"},
              amount \in Amounts : Apply(d, products, branches, op, amount)
         \/ NextRow(d)
         \/ Commit(d)
         \/ Fail(d)

PricingSpec == PricingInit /\ [][PricingNext]_pricingVars

-----------------------------------------------------------------------------
(* Properties *)

PricingTypeOK ==
    /\ base \in [Product -> Price]
    /\ bp \in [Row -> Override \cup {Null}]
    /\ gone \subseteq Product
    /\ begun \in 0..MaxWrites

\* What each request promises to do to the table, said without its steps.
Promised(ask) ==
    CASE ask.op = "toggle" -> [bp EXCEPT ![ask.row].avail = ~@]
      [] ask.op = "price"  -> [bp EXCEPT ![ask.row].price = ask.price]
      [] ask.op = "bulk"   ->
           [x \in Row |->
              LET mine == {i \in 1..Len(ask.items) : <<ask.product, ask.items[i].branch>> = x}
                  last == CHOOSE i \in mine : \A j \in mine : j <= i
              IN IF mine = {} THEN bp[x]
                 ELSE [avail |-> ask.items[last].avail, price |-> ask.items[last].price]]
      [] ask.op = "batch"  ->
           [x \in Row |->
              IF bp[x] = Null \/ x[1] \notin ask.products \/ x[2] \notin ask.branches \cap LiveBranch
              THEN bp[x]
              ELSE [bp[x] EXCEPT !.price = Calculate(Effective(x), ask.by, ask.amount)]]

\* A request nothing else overlapped does to every row what it promises, however
\* its SELECTs, flushes and column updates are put together, and is refused only
\* for a negative price.
AloneAsPromised ==
    [][\A d \in Desk :
         desk[d].busy /\ desk[d].alone /\ ~desk'[d].busy
           => \/ bp' = Promised(desk[d].ask)
              \/ bp' = bp /\ desk[d].ask.op = "price" /\ desk[d].ask.price = -1]_pricingVars

\* Overlapping requests do not undo each other's columns: a price update or a
\* batch never writes availability, a toggle never writes a price.
ColumnsApart ==
    [][\A d \in Desk, x \in Row :
         desk[d].busy /\ ~desk'[d].busy /\ bp[x] # Null
           => /\ desk[d].ask.op \in {"price", "batch"} => bp'[x].avail = bp[x].avail
              /\ desk[d].ask.op = "toggle" => bp'[x].price = bp[x].price]_pricingVars
=============================================================================
