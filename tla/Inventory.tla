------------------------------ MODULE Inventory ------------------------------
(***************************************************************************)
(* The order aggregate (src/internal/modules/orders/service.go) and the    *)
(* product ledger it drives (src/internal/modules/catalog).  Every service *)
(* operation is a sequence of single SQL statements with nothing held      *)
(* between them, and HTTP requests run concurrently, so each client is a   *)
(* process with a program counter pc[c] and the values it has read req[c]; *)
(* each action is one statement (or, for CreateWithItems, one              *)
(* transaction).  Rows are soft-deleted as GORM does for every model with  *)
(* a DeletedAt field: the row stays, marked, and scoped queries skip it.   *)
(* orders.Service.Create never commits (see CreateCommit), so the orders   *)
(* and items are rows the database starts with: InitOrders and InitItems.  *)
(***************************************************************************)
EXTENDS Integers, SequencesExt, FiniteSets, TLC

CONSTANTS
    Products,       \* product ids: the rows of `producto` there can be
    InitProducts,   \* the products that exist initially
    Clients,        \* concurrent HTTP requests in flight
    Qty,            \* quantities a request may carry (binding: min=1)
    Prices,         \* unit prices a request may carry (binding: required
                    \* rejects 0, min=0)
    StockValues,    \* stock values a product Create or Update may carry
    InitStock,      \* stock of every product initially
    MaxLines,       \* most lines in one CreateOrderRequest
    StockCheck,     \* TRUE iff the schema has CHECK (stock >= 0)
    Ops,            \* the service operations the clients call
    InitOrders,     \* compra rows (all live) the database starts with
    InitItems,      \* detalle_compra rows (all live) it starts with
    Deltas          \* quantities a PUT /products/:id/stock request may carry

ASSUME /\ InitProducts \subseteq Products
       /\ Qty \subseteq Nat \ {0} /\ Prices \subseteq Nat \ {0}
       /\ StockValues \subseteq Nat /\ InitStock \in Nat
       /\ MaxLines \in Nat \ {0} /\ StockCheck \in BOOLEAN
       /\ InitOrders \in Nat /\ InitItems \in Nat
       /\ InitItems > 0 => InitOrders > 0
       /\ Deltas \subseteq Int \ {0}
       /\ Ops \subseteq {"Create", "AddItem", "UpdateItem", "DeleteItem",
                         "DeleteOrder", "UpdateOrder", "CreateProduct",
                         "UpdateProduct", "DeleteProduct", "AdjustStock",
                         "Restart"}

VARIABLES
    stock,      \* stock[p]: producto.stock
    pdeleted,   \* pdeleted[p]: producto.deleted_at IS NOT NULL, or no row
                \* p yet (every scoped query skips both alike)
    created,    \* the product ids the sequence has handed out
    order,      \* order[o] \in {"live", "deleted"}: the compra rows, ids 1..n
    item,       \* item[i]: the detalle_compra rows, ids 1..m
    supplied,   \* supplied[p]: stock put into p by Init and UpdateProduct
    pc,         \* pc[c]: where client c is in its service operation
    req,        \* req[c]: client c's request and the rows it has read
    resp,       \* resp[c]: the HTTP status c's last request was answered
                \* with, 0 while it is in flight
    wrote       \* wrote[c]: ghost, c's current or last request changed a row

db == <<stock, pdeleted, created, order, item, supplied>>
rows == <<stock, pdeleted, created, order, item>>
vars == <<stock, pdeleted, created, order, item, supplied, pc, req, resp,
          wrote>>

ItemRow == [order : Nat, product : Products, qty : Nat \ {0}, price : Nat,
            live : BOOLEAN]
Line == [product : Products, qty : Qty, price : Prices]

\* The request-local state of a client; unused fields keep these values.
NoReq == [op |-> "none", lines |-> <<>>, k |-> 0, oid |-> 0, iid |-> 0,
          product |-> CHOOSE p \in Products : TRUE, qty |-> 0, price |-> 0,
          old |-> [order |-> 0, product |-> CHOOSE p \in Products : TRUE,
                   qty |-> 0, price |-> 0, live |-> FALSE],
          snap |-> <<>>]

PCs == {"idle", "c_check", "c_commit", "a_product", "a_insert",
        "a_dec", "u_product", "u_adjust", "u_save", "d_restore", "d_delete",
        "o_restore", "o_delete", "ou_save", "p_save", "s_update"}

\* Auto-increment ids: rows are never physically removed.
NewOrderId == Cardinality(DOMAIN order) + 1
NewItemId == Cardinality(DOMAIN item) + 1

LiveOrder(o) == o \in DOMAIN order /\ order[o] = "live"
LiveItem(i) == i \in DOMAIN item /\ item[i].live

\* Units of p held by the live items of live orders.
Consumed(p) ==
    MapThenSumSet(LAMBDA i : item[i].qty,
                  {i \in DOMAIN item : /\ item[i].live
                                       /\ LiveOrder(item[i].order)
                                       /\ item[i].product = p})


\* CreateOrderRequest.Items (binding: required, min=1).
LineSeqs == UNION {[1 .. n -> Line] : n \in 1 .. MaxLines}

(***************************************************************************)
(* catalog.Repository.UpdateStock: UPDATE producto SET stock = stock + d   *)
(* WHERE id_producto = p AND deleted_at IS NULL.  One atomic statement: it *)
(* is rejected only by the CHECK constraint, and on a soft-deleted product *)
(* it updates no row and reports success.                                  *)
(***************************************************************************)
\* Mutation: a schema without the CHECK constraint.
StockWriteUnchecked(p, d) == FALSE

StockWriteFails(p, d) == ~pdeleted[p] /\ StockCheck /\ stock[p] + d < 0
StockAfter(p, d) == IF pdeleted[p] THEN stock
                    ELSE [stock EXCEPT ![p] = @ + d]

(***************************************************************************)
(* The handlers (orders/handler.go, catalog/handler.go) bind the request,  *)
(* call the service and turn its result into a status: 2xx on success,    *)
(* 404 when the error's text is one the handler compares against, 400 for  *)
(* every other error.  An error is modelled by its text, abbreviated.      *)
(***************************************************************************)
HandlerStatus(ok, notFound, err) ==
    IF err = "ok" THEN ok ELSE IF err \in notFound THEN 404 ELSE 400

CreateOrderStatus(err) == HandlerStatus(201, {}, err)
UpdateOrderStatus(err) == HandlerStatus(200, {"order not found"}, err)
DeleteOrderStatus(err) == HandlerStatus(200, {"order not found"}, err)
AddOrderItemStatus(err) == HandlerStatus(201, {"order not found"}, err)
UpdateOrderItemStatus(err) ==
    HandlerStatus(200, {"order item not found", "el item no pertenece a esta orden"}, err)
DeleteOrderItemStatus(err) ==
    HandlerStatus(200, {"order item not found", "el item no pertenece a esta orden"}, err)
CreateProductStatus(err) == HandlerStatus(201, {}, err)
UpdateProductStatus(err) == HandlerStatus(200, {"product not found"}, err)
DeleteProductStatus(err) == HandlerStatus(200, {"product not found"}, err)
UpdateStockStatus(err) == HandlerStatus(200, {"product not found"}, err)

Statuses == {200, 201, 400, 404}

\* The service returns and the handler answers with status s.
Reply(c, s) == /\ pc' = [pc EXCEPT ![c] = "idle"]
               /\ req' = [req EXCEPT ![c] = NoReq]
               /\ resp' = [resp EXCEPT ![c] = s]

\* The request goes on to statement l; it has no answer yet.
Goto(c, l) == /\ pc' = [pc EXCEPT ![c] = l]
              /\ resp' = [resp EXCEPT ![c] = 0]

TypeOK ==
    /\ stock \in [Products -> Int]
    /\ pdeleted \in [Products -> BOOLEAN]
    /\ created \subseteq Products
    /\ DOMAIN order = 1 .. Cardinality(DOMAIN order)
    /\ \A o \in DOMAIN order : order[o] \in {"live", "deleted"}
    /\ DOMAIN item = 1 .. Cardinality(DOMAIN item)
    /\ \A i \in DOMAIN item : item[i] \in ItemRow
    /\ supplied \in [Products -> Int]
    /\ pc \in [Clients -> PCs]
    /\ \A c \in Clients : req[c].op \in {"none"} \cup Ops
    /\ resp \in [Clients -> {0} \cup Statuses]
    /\ wrote \in [Clients -> BOOLEAN]

Init ==
    /\ stock = [p \in Products |-> IF p \in InitProducts THEN InitStock ELSE 0]
    /\ pdeleted = [p \in Products |-> p \notin InitProducts]
    /\ created = InitProducts
    /\ order = [o \in 1 .. InitOrders |-> "live"]
    /\ item \in [1 .. InitItems -> [order : 1 .. InitOrders,
                                    product : InitProducts, qty : Qty,
                                    price : Prices, live : {TRUE}]]
    /\ supplied = [p \in Products |-> stock[p] + Consumed(p)]
    /\ pc = [c \in Clients |-> "idle"]
    /\ req = [c \in Clients |-> NoReq]
    /\ resp = [c \in Clients |-> 0]
    /\ wrote = [c \in Clients |-> FALSE]

-----------------------------------------------------------------------------
(***************************************************************************)
(* orders.Service.Create                                                   *)
(***************************************************************************)

\* The handler binds a CreateOrderRequest.
CreateOrderRequest(c) ==
    /\ "Create" \in Ops
    /\ pc[c] = "idle"
    /\ \E s \in LineSeqs :
          req' = [req EXCEPT ![c] = [NoReq EXCEPT !.op = "Create",
                                                  !.lines = s, !.k = 1]]
    /\ Goto(c, "c_check")
    /\ UNCHANGED db

\* One iteration of the check loop: FindByID, then Stock < Cantidad.  Each
\* line is checked against the whole stock, not what earlier lines took.
CreateCheckLine(c) ==
    LET r == req[c]
        l == r.lines[r.k]
    IN /\ pc[c] = "c_check"
       /\ \/ /\ pdeleted[l.product] \/ stock[l.product] < l.qty
             /\ Reply(c, CreateOrderStatus(IF pdeleted[l.product]
                                           THEN "producto no encontrado"
                                           ELSE "stock insuficiente"))
          \/ /\ ~pdeleted[l.product] /\ stock[l.product] >= l.qty
             /\ IF r.k = Len(r.lines)
                  THEN /\ Goto(c, "c_commit")
                       /\ req' = [req EXCEPT ![c].k = 1]
                  ELSE /\ UNCHANGED <<pc, resp>>
                       /\ req' = [req EXCEPT ![c].k = r.k + 1]
       /\ UNCHANGED db

(***************************************************************************)
(* CreateWithItems, one transaction that never commits.  Create builds the *)
(* order with Items: orderItems, so tx.Create(order) inserts the items     *)
(* with it (GORM saves has-many associations) and writes their new ids     *)
(* into that slice's elements, which are items[i] of the loop.  The loop's *)
(* tx.Create(&items[i]) then inserts a row whose id_detalle is taken: the  *)
(* primary key rejects it, the callback returns the error and the          *)
(* transaction is rolled back.  The handler answers 400.                   *)
(***************************************************************************)
CreateCommit(c) ==
    /\ pc[c] = "c_commit"
    /\ Reply(c, CreateOrderStatus("error creating order"))
    /\ UNCHANGED db

-----------------------------------------------------------------------------
(***************************************************************************)
(* orders.Service.Update (the seller only)                                 *)
(***************************************************************************)

\* Bind, then repo.FindByID: only a live order is found.
UpdateOrderRequest(c) ==
    /\ "UpdateOrder" \in Ops
    /\ pc[c] = "idle"
    /\ \E o \in 1 .. NewOrderId :
          IF LiveOrder(o)
            THEN /\ req' = [req EXCEPT ![c] = [NoReq EXCEPT
                               !.op = "UpdateOrder", !.oid = o]]
                 /\ Goto(c, "ou_save")
            ELSE Reply(c, UpdateOrderStatus("order not found"))
    /\ UNCHANGED db

\* repo.Update = db.Save(order), the row as read (live): on a row deleted
\* since, nothing or an upsert that brings it back live.
UpdateOrderSave(c) ==
    LET o == req[c].oid IN
    /\ pc[c] = "ou_save"
    /\ \/ order' = [order EXCEPT ![o] = "live"]
       \/ /\ order[o] = "deleted"
          /\ UNCHANGED order
    /\ Reply(c, UpdateOrderStatus("ok"))
    /\ UNCHANGED <<stock, pdeleted, created, item, supplied>>

-----------------------------------------------------------------------------
(***************************************************************************)
(* orders.Service.AddOrderItem                                             *)
(***************************************************************************)

\* Bind the request, then FindByID(orderID): only a live order is found.
AddOrderItemRequest(c) ==
    /\ "AddItem" \in Ops
    /\ pc[c] = "idle"
    /\ \E o \in 1 .. NewOrderId, p \in Products, q \in Qty, pr \in Prices :
          IF LiveOrder(o)
            THEN /\ req' = [req EXCEPT ![c] = [NoReq EXCEPT !.op = "AddItem",
                              !.oid = o, !.product = p, !.qty = q, !.price = pr]]
                 /\ Goto(c, "a_product")
            ELSE Reply(c, AddOrderItemStatus("order not found"))
    /\ UNCHANGED db

\* Mutation: the stock check dropped.
AddOrderItemCheckNoStock(c) ==
    LET r == req[c] IN
    /\ pc[c] = "a_product"
    /\ IF pdeleted[r.product]
         THEN Reply(c, AddOrderItemStatus("producto no encontrado"))
         ELSE /\ Goto(c, "a_insert")
              /\ UNCHANGED req
    /\ UNCHANGED db

\* catalogRepo.FindByID, then Stock < Cantidad.
AddOrderItemCheck(c) ==
    LET r == req[c] IN
    /\ pc[c] = "a_product"
    /\ IF pdeleted[r.product] \/ stock[r.product] < r.qty
         THEN Reply(c, AddOrderItemStatus(IF pdeleted[r.product]
                                          THEN "producto no encontrado"
                                          ELSE "stock insuficiente"))
         ELSE /\ Goto(c, "a_insert")
              /\ UNCHANGED req
    /\ UNCHANGED db

\* CreateOrderItem: an INSERT referencing the order read earlier, whatever
\* has happened to it since (the foreign key holds for a soft-deleted row).
AddOrderItemInsert(c) ==
    LET r == req[c] IN
    /\ pc[c] = "a_insert"
    /\ item' = item @@ (NewItemId :> [order |-> r.oid, product |-> r.product,
                                       qty |-> r.qty, price |-> r.price,
                                       live |-> TRUE])
    /\ Goto(c, "a_dec")
    /\ UNCHANGED <<stock, pdeleted, created, order, supplied, req>>

\* UpdateStock(-Cantidad); on an error the inserted item stays.
AddOrderItemDecrement(c) ==
    LET r == req[c] IN
    /\ pc[c] = "a_dec"
    /\ IF StockWriteFails(r.product, -r.qty)
         THEN /\ UNCHANGED stock
              /\ Reply(c, AddOrderItemStatus("error updating stock"))
         ELSE /\ stock' = StockAfter(r.product, -r.qty)
              /\ Reply(c, AddOrderItemStatus("ok"))
    /\ UNCHANGED <<pdeleted, created, order, item, supplied>>

-----------------------------------------------------------------------------
(***************************************************************************)
(* orders.Service.UpdateOrderItem.  A Cantidad or PrecioUnitario of 0 is   *)
(* the zero value of an omitted JSON field, and means "leave it".          *)
(***************************************************************************)

\* Bind the request, FindOrderItemByID (the item's order is not looked at),
\* then the IDCompra ownership check.
UpdateOrderItemRequest(c) ==
    /\ "UpdateItem" \in Ops
    /\ pc[c] = "idle"
    /\ \E o \in 1 .. NewOrderId, i \in 1 .. NewItemId,
          q \in {0} \cup Qty, pr \in {0} \cup Prices :
          IF LiveItem(i) /\ item[i].order = o
            THEN /\ req' = [req EXCEPT ![c] = [NoReq EXCEPT !.op = "UpdateItem",
                              !.oid = o, !.iid = i, !.qty = q, !.price = pr,
                              !.old = item[i]]]
                 /\ Goto(c, IF q > 0 THEN "u_product" ELSE "u_save")
            ELSE Reply(c, UpdateOrderItemStatus(
                            IF LiveItem(i) THEN "el item no pertenece a esta orden"
                                ELSE "order item not found"))
    /\ UNCHANGED db

\* catalogRepo.FindByID, then the stock check on a positive difference.
UpdateOrderItemCheck(c) ==
    LET r == req[c]
        p == r.old.product
        diff == r.qty - r.old.qty
    IN /\ pc[c] = "u_product"
       /\ IF pdeleted[p] \/ (diff > 0 /\ stock[p] < diff)
            THEN Reply(c, UpdateOrderItemStatus(IF pdeleted[p]
                                                THEN "producto no encontrado"
                                                ELSE "stock insuficiente"))
            ELSE /\ Goto(c, IF diff # 0 THEN "u_adjust" ELSE "u_save")
                 /\ UNCHANGED req
       /\ UNCHANGED db

\* Mutation: stockDifference applied with the wrong sign.
UpdateOrderItemAdjustSwapped(c) ==
    LET r == req[c]
        p == r.old.product
        diff == r.qty - r.old.qty
    IN /\ pc[c] = "u_adjust"
       /\ IF StockWriteFails(p, diff)
            THEN /\ Reply(c, UpdateOrderItemStatus("error updating stock"))
                 /\ UNCHANGED stock
            ELSE /\ stock' = StockAfter(p, diff)
                 /\ Goto(c, "u_save")
                 /\ UNCHANGED req
       /\ UNCHANGED <<pdeleted, created, order, item, supplied>>

\* UpdateStock(-stockDifference), in either direction.
UpdateOrderItemAdjust(c) ==
    LET r == req[c]
        p == r.old.product
        diff == r.qty - r.old.qty
    IN /\ pc[c] = "u_adjust"
       /\ IF StockWriteFails(p, -diff)
            THEN /\ Reply(c, UpdateOrderItemStatus("error updating stock"))
                 /\ UNCHANGED stock
            ELSE /\ stock' = StockAfter(p, -diff)
                 /\ Goto(c, "u_save")
                 /\ UNCHANGED req
       /\ UNCHANGED <<pdeleted, created, order, item, supplied>>

(***************************************************************************)
(* repo.UpdateOrderItem = db.Save(item): writes back every column of the   *)
(* row read at the start, with the new Cantidad/PrecioUnitario.  If the    *)
(* row was soft-deleted since, the scoped UPDATE matches nothing; GORM     *)
(* versions that follow with an upsert put the row back live.  Both are    *)
(* builds of this code, so both outcomes are allowed.                      *)
(***************************************************************************)
\* Mutation: the request's Cantidad copied without the > 0 guard.
SavedItemUnguarded(r) == [r.old EXCEPT !.qty = r.qty,
                              !.price = IF r.price > 0 THEN r.price ELSE @,
                              !.live = TRUE]

SavedItem(r) == [r.old EXCEPT !.qty = IF r.qty > 0 THEN r.qty ELSE @,
                              !.price = IF r.price > 0 THEN r.price ELSE @,
                              !.live = TRUE]

UpdateOrderItemSave(c) ==
    LET r == req[c] IN
    /\ pc[c] = "u_save"
    /\ \/ item' = [item EXCEPT ![r.iid] = SavedItem(r)]
       \/ /\ ~item[r.iid].live
          /\ UNCHANGED item
    /\ Reply(c, UpdateOrderItemStatus("ok"))
    /\ UNCHANGED <<stock, pdeleted, created, order, supplied>>

-----------------------------------------------------------------------------
(***************************************************************************)
(* orders.Service.DeleteOrderItem                                          *)
(***************************************************************************)

\* Bind, FindOrderItemByID (order not looked at), ownership check.
DeleteOrderItemRequest(c) ==
    /\ "DeleteItem" \in Ops
    /\ pc[c] = "idle"
    /\ \E o \in 1 .. NewOrderId, i \in 1 .. NewItemId :
          IF LiveItem(i) /\ item[i].order = o
            THEN /\ req' = [req EXCEPT ![c] = [NoReq EXCEPT !.op = "DeleteItem",
                                 !.oid = o, !.iid = i, !.old = item[i]]]
                 /\ Goto(c, "d_restore")
            ELSE Reply(c, DeleteOrderItemStatus(
                            IF LiveItem(i) THEN "el item no pertenece a esta orden"
                                ELSE "order item not found"))
    /\ UNCHANGED db

\* UpdateStock(+Cantidad read earlier); an error returns before the delete.
DeleteOrderItemRestore(c) ==
    LET r == req[c] IN
    /\ pc[c] = "d_restore"
    /\ IF StockWriteFails(r.old.product, r.old.qty)
         THEN /\ Reply(c, DeleteOrderItemStatus("error restoring stock"))
              /\ UNCHANGED stock
         ELSE /\ stock' = StockAfter(r.old.product, r.old.qty)
              /\ Goto(c, "d_delete")
              /\ UNCHANGED req
    /\ UNCHANGED <<pdeleted, created, order, item, supplied>>

\* repo.DeleteOrderItem: soft delete (a no-op on an already deleted row).
DeleteOrderItemDelete(c) ==
    LET r == req[c] IN
    /\ pc[c] = "d_delete"
    /\ item' = [item EXCEPT ![r.iid].live = FALSE]
    /\ Reply(c, DeleteOrderItemStatus("ok"))
    /\ UNCHANGED <<stock, pdeleted, created, order, supplied>>

-----------------------------------------------------------------------------
(***************************************************************************)
(* orders.Service.Delete                                                   *)
(***************************************************************************)

\* Bind, then repo.FindByID with Preload("Items"): the live order and its
\* live items, in id order.
DeleteOrderRequest(c) ==
    /\ "DeleteOrder" \in Ops
    /\ pc[c] = "idle"
    /\ \E o \in 1 .. NewOrderId :
          IF LiveOrder(o)
            THEN LET ids == SetToSortSeq({i \in DOMAIN item :
                                   item[i].live /\ item[i].order = o}, <)
                 IN /\ req' = [req EXCEPT ![c] = [NoReq EXCEPT !.op = "DeleteOrder",
                                 !.oid = o, !.k = 1,
                                 !.snap = [j \in DOMAIN ids |-> item[ids[j]]]]]
                    /\ Goto(c, IF ids = <<>> THEN "o_delete" ELSE "o_restore")
            ELSE Reply(c, DeleteOrderStatus("order not found"))
    /\ UNCHANGED db

\* One iteration of the restore loop: an UpdateStock error is printed and
\* the loop goes on.
DeleteOrderRestore(c) ==
    LET r == req[c]
        it == r.snap[r.k]
    IN /\ pc[c] = "o_restore"
       /\ IF StockWriteFails(it.product, it.qty)
            THEN UNCHANGED stock
            ELSE stock' = StockAfter(it.product, it.qty)
       /\ IF r.k = Len(r.snap)
            THEN /\ Goto(c, "o_delete")
                 /\ UNCHANGED req
            ELSE /\ req' = [req EXCEPT ![c].k = r.k + 1]
                 /\ UNCHANGED <<pc, resp>>
       /\ UNCHANGED <<pdeleted, created, order, item, supplied>>

\* repo.Delete: soft-deletes the compra row only.  Its detalle_compra rows
\* stay live: ON DELETE CASCADE fires on a DELETE, not on this UPDATE.
DeleteOrderDelete(c) ==
    /\ pc[c] = "o_delete"
    /\ order' = [order EXCEPT ![req[c].oid] = "deleted"]
    /\ Reply(c, DeleteOrderStatus("ok"))
    /\ UNCHANGED <<stock, pdeleted, created, item, supplied>>

-----------------------------------------------------------------------------
(***************************************************************************)
(* catalog.Service.Create, Update and Delete                               *)
(***************************************************************************)

\* Bind (stock: omitempty,min=0, so an omitted stock is 0), reject a past
\* expiry date, then repo.Create: one INSERT under the next id the sequence
\* hands out.  The ids a run has room for are Products.
CreateProduct(c) ==
    /\ "CreateProduct" \in Ops
    /\ pc[c] = "idle"
    /\ \E s \in StockValues, pastDate \in BOOLEAN :
          IF pastDate
            THEN /\ resp' = [resp EXCEPT ![c] =
                               CreateProductStatus("fecha de vencimiento en el pasado")]
                 /\ UNCHANGED db
            ELSE \E p \in Products \ created :
                   /\ created' = created \cup {p}
                   /\ pdeleted' = [pdeleted EXCEPT ![p] = FALSE]
                   /\ stock' = [stock EXCEPT ![p] = s]
                   /\ supplied' = [supplied EXCEPT ![p] = s]
                   /\ resp' = [resp EXCEPT ![c] = CreateProductStatus("ok")]
                   /\ UNCHANGED <<order, item>>
    /\ UNCHANGED <<pc, req>>


\* Bind, FindByID, then the past-expiry-date check.  Of the fields only the
\* stock is modelled: `if req.Stock >= 0` always holds (an omitted stock
\* binds to 0), so every update writes the request's stock.
UpdateProductRequest(c) ==
    /\ "UpdateProduct" \in Ops
    /\ pc[c] = "idle"
    /\ \E p \in Products, s \in StockValues, pastDate \in BOOLEAN :
          IF pdeleted[p] \/ pastDate
            THEN Reply(c, UpdateProductStatus(IF pdeleted[p] THEN "product not found"
                                              ELSE "fecha de vencimiento en el pasado"))
            ELSE /\ req' = [req EXCEPT ![c] = [NoReq EXCEPT
                               !.op = "UpdateProduct", !.product = p, !.qty = s]]
                 /\ Goto(c, "p_save")
    /\ UNCHANGED db

\* repo.Update = db.Save(product): the row read, with stock = req.Stock.  As
\* for items, a row soft-deleted since the read is left alone or upserted.
\* The ghost `supplied` records the stock this puts into the product.
UpdateProductSave(c) ==
    LET r == req[c] IN
    /\ pc[c] = "p_save"
    /\ \/ /\ stock' = [stock EXCEPT ![r.product] = r.qty]
          /\ pdeleted' = [pdeleted EXCEPT ![r.product] = FALSE]
          /\ supplied' = [supplied EXCEPT ![r.product] = r.qty + Consumed(r.product)]
       \/ /\ pdeleted[r.product]
          /\ UNCHANGED <<stock, pdeleted, supplied>>
    /\ Reply(c, UpdateProductStatus("ok"))
    /\ UNCHANGED <<created, order, item>>

\* catalog.Service.UpdateStock (the stock endpoint): bind a non-zero
\* cantidad (binding: required), FindByID, then Stock + quantity < 0 fails.
AdjustStockRequest(c) ==
    /\ "AdjustStock" \in Ops
    /\ pc[c] = "idle"
    /\ \E p \in Products, d \in Deltas :
          IF pdeleted[p] \/ stock[p] + d < 0
            THEN Reply(c, UpdateStockStatus(IF pdeleted[p] THEN "product not found"
                                            ELSE "stock insuficiente"))
            ELSE /\ req' = [req EXCEPT ![c] = [NoReq EXCEPT
                               !.op = "AdjustStock", !.product = p, !.qty = d]]
                 /\ Goto(c, "s_update")
    /\ UNCHANGED db

\* repo.UpdateStock(id, quantity), after the check; the ghost `supplied`
\* records what the adjustment put into (or took out of) a live product.
AdjustStockUpdate(c) ==
    LET r == req[c] IN
    /\ pc[c] = "s_update"
    /\ \/ /\ StockWriteFails(r.product, r.qty)
          /\ UNCHANGED <<stock, supplied>>
          /\ Reply(c, UpdateStockStatus("error updating stock"))
       \/ /\ pdeleted[r.product]
          /\ UNCHANGED <<stock, supplied>>
          /\ Reply(c, UpdateStockStatus("ok"))
       \/ /\ ~pdeleted[r.product] /\ ~StockWriteFails(r.product, r.qty)
          /\ stock' = StockAfter(r.product, r.qty)
          /\ supplied' = [supplied EXCEPT ![r.product] = @ + r.qty]
          /\ Reply(c, UpdateStockStatus("ok"))
    /\ UNCHANGED <<pdeleted, created, order, item>>

\* FindByID then a soft Delete; the delete reads nothing it checked, so the
\* two statements are one step.
DeleteProduct(c) ==
    /\ "DeleteProduct" \in Ops
    /\ pc[c] = "idle"
    /\ \E p \in Products :
          IF pdeleted[p]
            THEN /\ resp' = [resp EXCEPT ![c] = DeleteProductStatus("product not found")]
                 /\ UNCHANGED pdeleted
            ELSE /\ pdeleted' = [pdeleted EXCEPT ![p] = TRUE]
                 /\ resp' = [resp EXCEPT ![c] = DeleteProductStatus("ok")]
    /\ UNCHANGED <<stock, created, order, item, supplied, pc, req>>

(***************************************************************************)
(* A restart of the server process (cmd/api/main.go): every request in     *)
(* flight is abandoned between two of its statements.  The rows persist;   *)
(* nothing at startup looks for half-done operations.                      *)
(***************************************************************************)
Restart ==
    /\ "Restart" \in Ops
    /\ \E c \in Clients : pc[c] # "idle"
    /\ pc' = [c \in Clients |-> "idle"]
    /\ req' = [c \in Clients |-> NoReq]
    /\ UNCHANGED <<db, resp, wrote>>

-----------------------------------------------------------------------------
\* A request arriving: its handler's first statements.
Start(c) ==
    \/ CreateOrderRequest(c) \/ UpdateOrderRequest(c) \/ AddOrderItemRequest(c)
    \/ UpdateOrderItemRequest(c) \/ DeleteOrderItemRequest(c)
    \/ DeleteOrderRequest(c) \/ CreateProduct(c) \/ UpdateProductRequest(c)
    \/ DeleteProduct(c) \/ AdjustStockRequest(c)

\* The later statements of a request in flight (pc[c] # "idle").
InFlight(c) ==
    \/ CreateCheckLine(c) \/ CreateCommit(c)
    \/ UpdateOrderSave(c)
    \/ AddOrderItemCheck(c) \/ AddOrderItemInsert(c) \/ AddOrderItemDecrement(c)
    \/ UpdateOrderItemCheck(c) \/ UpdateOrderItemAdjust(c)
    \/ UpdateOrderItemSave(c)
    \/ DeleteOrderItemRestore(c) \/ DeleteOrderItemDelete(c)
    \/ DeleteOrderRestore(c) \/ DeleteOrderDelete(c)
    \/ UpdateProductSave(c) \/ AdjustStockUpdate(c)

\* The ghost `wrote`: whether c's request has changed a row since it began.
Track(c) == wrote' = [wrote EXCEPT ![c] = (pc[c] # "idle" /\ @) \/ rows' # rows]

Next == (\E c \in Clients : (Start(c) \/ InFlight(c)) /\ Track(c)) \/ Restart

Spec == Init /\ [][Next]_vars

-----------------------------------------------------------------------------
(***************************************************************************)
(* Properties                                                              *)
(***************************************************************************)

Quiescent == \A c \in Clients : pc[c] = "idle"

(***************************************************************************)
(* Conservation: whenever no request is in flight, the stock of every live *)
(* product plus what the live items of live orders hold of it equals what  *)
(* was supplied to it.  It is about the order flows of orders.Service      *)
(* (AddOrderItem, UpdateOrderItem, DeleteOrderItem, Delete), which take    *)
(* and return stock in statements separate from the item writes.           *)
(***************************************************************************)
Conservation ==
    Quiescent =>
        \A p \in Products : ~pdeleted[p] => stock[p] + Consumed(p) = supplied[p]

(***************************************************************************)
(* A request the handler answers with an error (400 or 404) changed no     *)
(* row: a client that is told its request failed may send it again        *)
(* without taking stock or adding an item twice.  It is about the          *)
(* statements orders.Service runs after a write (the decrement of          *)
(* AddOrderItem after its INSERT, the Save after UpdateOrderItem moved     *)
(* stock, the delete after DeleteOrderItem restored it), whose errors the  *)
(* handlers report as 400.                                                 *)
(***************************************************************************)
ErrorLeavesNoTrace == \A c \in Clients : resp[c] \in {400, 404} => ~wrote[c]

(***************************************************************************)
(* An order whose every line passed the product and stock checks is        *)
(* stored: when orders.Service.Create answers after its check loop, one    *)
(* more compra row exists (spec.md 4.2: the order and its items are        *)
(* persisted in one transaction).  resp'[c] # 0 tells the answer from a    *)
(* Restart abandoning the request.                                         *)
(***************************************************************************)
CreatePersistsOrder ==
    [][\A c \in Clients :
         pc[c] = "c_commit" /\ resp'[c] # 0 =>
             Cardinality(DOMAIN order') = Cardinality(DOMAIN order) + 1]_vars

-----------------------------------------------------------------------------
(***************************************************************************)
(* Refinement of OrderLedger.  A request in flight has moved stock ahead   *)
(* of its row writes (DeleteOrderItem, Delete, UpdateOrderItem) or left it *)
(* behind them (AddOrderItem); Pending(c, p) is that amount, and the      *)
(* the ledger sees the stock move at the row write.  The items of a        *)
(* soft-deleted order are gone for the order service (FindByID skips the   *)
(* order), which is what the ledger's cascade says.                        *)
(***************************************************************************)
Pending(c, p) ==
    LET r == req[c]
        \* units of p in positions a..b of the sequence ls of rows or lines
        Part(ls, a, b) == MapThenSumSet(LAMBDA j : ls[j].qty,
                                        {j \in a .. b : ls[j].product = p})
        Of(row) == IF row.product = p THEN row.qty ELSE 0
    IN IF pdeleted[p] THEN 0
       ELSE CASE pc[c] = "a_dec"     -> Of(r)
              [] pc[c] = "u_save" /\ r.qty > 0
                                     -> Of(r.old) - Of([r.old EXCEPT !.qty = r.qty])
              [] pc[c] = "d_delete"  -> Of(r.old)
              [] pc[c] = "o_restore" -> Part(r.snap, 1, r.k - 1)
              [] pc[c] = "o_delete"  -> Part(r.snap, 1, Len(r.snap))
              [] OTHER               -> 0

AbsStock == [p \in Products |-> stock[p] - MapThenSumSet(LAMBDA c : Pending(c, p),
                                                         Clients)]

AbsItem == [i \in DOMAIN item |->
               [item[i] EXCEPT !.live = @ /\ LiveOrder(item[i].order)]]

OL == INSTANCE OrderLedger WITH stock <- AbsStock, item <- AbsItem

(***************************************************************************)
(* The statement-by-statement order service implements the atomic order   *)
(* ledger of the spec: every step is a stutter or one whole ledger         *)
(* operation, with its guard (enough stock, a live order and product) true *)
(* when the rows are written.                                              *)
(***************************************************************************)
OrderLedgerSpec == OL!Spec

=============================================================================
