---------------------------- MODULE OrderLedger -----------------------------
(***************************************************************************)
(* What the order aggregate and the product ledger promise together        *)
(* (spec.md, sections 2 and 4.1-4.2), with every business operation one    *)
(* atomic step: an order and its items are created, changed and deleted    *)
(* together with the stock they take or give back.  Stock is never         *)
(* negative, a line takes stock only if there is enough of it, and the     *)
(* items of a deleted order are gone (the cascade of section 2).           *)
(***************************************************************************)
EXTENDS Integers, FiniteSets, FiniteSetsExt, Sequences

CONSTANTS Products, Qty, Prices, StockValues, Deltas, MaxLines,
          InitOrders, InitItems   \* the live orders and items there are initially

VARIABLES
    stock,      \* stock[p]
    pdeleted,   \* pdeleted[p]: the product is removed, or not created yet
    created,    \* the products created so far
    order,      \* order[o] \in {"live", "deleted"}
    item        \* item[i]: [order, product, qty, price, live]; live means
                \* it belongs to the order as the order service sees it

vars == <<stock, pdeleted, created, order, item>>

Lines == UNION {[1 .. n -> [product : Products, qty : Qty, price : Prices]] :
                    n \in 1 .. MaxLines}

LiveItems(o) == {i \in DOMAIN item : item[i].live /\ item[i].order = o}

\* What the lines of one order ask of product p.
Asked(ls, p) == MapThenSumSet(LAMBDA j : ls[j].qty,
                              {j \in DOMAIN ls : ls[j].product = p})

\* Stock given back to p when the items S go; a removed product takes none.
Returned(S, p) ==
    IF pdeleted[p] THEN 0
    ELSE MapThenSumSet(LAMBDA i : item[i].qty, {i \in S : item[i].product = p})

Init ==
    /\ stock \in [Products -> Nat]
    /\ created \in SUBSET Products
    /\ pdeleted = [p \in Products |-> p \notin created]
    /\ order = [o \in 1 .. InitOrders |-> "live"]
    /\ item \in [1 .. InitItems -> [order : 1 .. InitOrders, product : created,
                                    qty : Qty, price : Prices, live : {TRUE}]]

CreateOrder(ls) ==
    /\ \A j \in DOMAIN ls : ~pdeleted[ls[j].product]
    /\ \A p \in Products : Asked(ls, p) <= stock[p]
    /\ order' = Append(order, "live")
    /\ item' = item \o [j \in DOMAIN ls |-> [order |-> Len(order) + 1,
                                             product |-> ls[j].product,
                                             qty |-> ls[j].qty,
                                             price |-> ls[j].price,
                                             live |-> TRUE]]
    /\ stock' = [p \in Products |-> stock[p] - Asked(ls, p)]
    /\ UNCHANGED <<pdeleted, created>>

AddItem(o, p, q, pr) ==
    /\ o \in DOMAIN order /\ order[o] = "live"
    /\ ~pdeleted[p] /\ q <= stock[p]
    /\ item' = Append(item, [order |-> o, product |-> p, qty |-> q,
                             price |-> pr, live |-> TRUE])
    /\ stock' = [stock EXCEPT ![p] = @ - q]
    /\ UNCHANGED <<pdeleted, created, order>>

\* A new quantity or price of 0 leaves that field as it is.
UpdateItem(i, q, pr) ==
    LET p == item[i].product
        diff == IF q > 0 THEN q - item[i].qty ELSE 0
    IN /\ i \in DOMAIN item /\ item[i].live
       /\ q > 0 => ~pdeleted[p] /\ diff <= stock[p]
       /\ item' = [item EXCEPT ![i].qty = IF q > 0 THEN q ELSE @,
                               ![i].price = IF pr > 0 THEN pr ELSE @]
       /\ stock' = [stock EXCEPT ![p] = @ - diff]
       /\ UNCHANGED <<pdeleted, created, order>>

DeleteItem(i) ==
    /\ i \in DOMAIN item /\ item[i].live
    /\ item' = [item EXCEPT ![i].live = FALSE]
    /\ stock' = [p \in Products |-> stock[p] + Returned({i}, p)]
    /\ UNCHANGED <<pdeleted, created, order>>

DeleteOrder(o) ==
    /\ o \in DOMAIN order /\ order[o] = "live"
    /\ order' = [order EXCEPT ![o] = "deleted"]
    /\ item' = [i \in DOMAIN item |->
                  IF i \in LiveItems(o) THEN [item[i] EXCEPT !.live = FALSE]
                  ELSE item[i]]
    /\ stock' = [p \in Products |-> stock[p] + Returned(LiveItems(o), p)]
    /\ UNCHANGED <<pdeleted, created>>

SetStock(p, v) ==
    /\ ~pdeleted[p]
    /\ stock' = [stock EXCEPT ![p] = v]
    /\ UNCHANGED <<pdeleted, created, order, item>>

AdjustStock(p, d) ==
    /\ ~pdeleted[p] /\ stock[p] + d >= 0
    /\ stock' = [stock EXCEPT ![p] = @ + d]
    /\ UNCHANGED <<pdeleted, created, order, item>>

DeleteProduct(p) ==
    /\ ~pdeleted[p]
    /\ pdeleted' = [pdeleted EXCEPT ![p] = TRUE]
    /\ UNCHANGED <<stock, created, order, item>>

\* A product is created under a fresh id with the stock it is given.
CreateProduct(p, v) ==
    /\ p \notin created
    /\ created' = created \cup {p}
    /\ pdeleted' = [pdeleted EXCEPT ![p] = FALSE]
    /\ stock' = [stock EXCEPT ![p] = v]
    /\ UNCHANGED <<order, item>>

Next ==
    \/ \E ls \in Lines : CreateOrder(ls)
    \/ \E o \in DOMAIN order, p \in Products, q \in Qty, pr \in Prices :
          AddItem(o, p, q, pr)
    \/ \E i \in DOMAIN item, q \in {0} \cup Qty, pr \in {0} \cup Prices :
          UpdateItem(i, q, pr)
    \/ \E i \in DOMAIN item : DeleteItem(i)
    \/ \E o \in DOMAIN order : DeleteOrder(o)
    \/ \E p \in Products, v \in StockValues : SetStock(p, v)
    \/ \E p \in Products, d \in Deltas : AdjustStock(p, d)
    \/ \E p \in Products : DeleteProduct(p)
    \/ \E p \in Products, v \in StockValues : CreateProduct(p, v)

Spec == Init /\ [][Next]_vars

=============================================================================
