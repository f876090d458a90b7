# TLA+ models of Expirapp's order, inventory and payment logic

Expirapp (`src/`) is a Go/Gin/GORM backend over PostgreSQL. Every module has
the same three layers: a Gin handler that binds JSON (`binding:` tags do the
validation), a `Service` holding the business rules, and a `Repository` of
GORM calls. Every repository call is one SQL statement (or, for
`orders.Repository.CreateWithItems`, one transaction). Nothing in the services
locks, versions or retries: a service operation is a *sequence* of independent
statements, and HTTP requests run on concurrent goroutines. The models here are
about what that gives: the interleavings of those statement sequences, and the
soft-delete semantics GORM gives every entity that has a `DeletedAt` field.

The main finding (run `inv_create_fails`) is that **no order `Create` ever
succeeds**. `orders.Service.Create` builds the order with
`Items: orderItems` (`service.go:49`), so `tx.Create(order)` in
`CreateWithItems` (`repository.go:24`) already inserts the items, since GORM
saves has-many associations, and writes their new ids into the slice's
elements. The loop then calls `tx.Create(&items[i])` (`repository.go:29`) on
those same elements, with their ids set. The primary key of `detalle_compra`
rejects the insert, the callback returns the error, and PostgreSQL rolls the
transaction back. The handler answers 400. The decrement loop after the
transaction (`service.go:56-60`) is unreachable. The models therefore start
from orders and items that already exist in the database (`InitOrders`,
`InitItems`), and every other order operation is checked on those.

## 1. Inventory

### Components

| Component | Source | State it keeps (DB rows) | Operations that change state |
|---|---|---|---|
| Product ledger (catalog) | `modules/catalog/service.go`, `repository.go`, `domain/product.go` | `producto`: price, expiry date, `stock` (`check:stock >= 0`), soft-delete mark | `Create`, `Update` (read then `Save` of the whole row), `Delete` (soft), `UpdateStock` (service: checked; repository: `stock = stock + ?` in one statement) |
| Order aggregate | `modules/orders/service.go`, `repository.go`, `domain/order.go` | `compra` (soft-deletable), `detalle_compra` items: order, product, `cantidad`, `precio_unitario` (soft-deletable) | `Create`, `Update` (seller only), `Delete`, `AddOrderItem`, `UpdateOrderItem`, `DeleteOrderItem` |
| Payment ledger | `modules/payments/service.go`, `repository.go`, `domain/payment.go` | `pago`: order, method, `monto`; `metodo_pago`: unique name | `Create`, `Update`, `Delete`, `GetPaymentStatusByOrderID` (read), payment-method CRUD |
| Payment gateway | `modules/payments/gateway.go` | none (mock returns canned answers; Stripe/PayPal unimplemented) | none |
| Review ledger | `modules/reviews/service.go`, `repository.go` | `resena`: product, client, rating 1..5 (no unique constraint on the pair) | `Create` (exists-check then insert), `Update`, `Delete`, rating summary (read) |
| Users | `modules/users/service.go`, `repository.go` | `usuario`: `correo` with a unique index, bcrypt hash | `Create` (exists-check then insert), `Update`, `ChangePassword`, `Delete` |
| Reports | `modules/reports/*` | none (raw SQL aggregates) | none |
| HTTP server, handlers, migrations | `server/*`, `*/handler.go`, `platform/database` | none of the core's | none (routing, binding, status codes) |

### How they interact

* `orders.Service` reads products through `catalog.Repository.FindByID` and
  moves stock through `catalog.Repository.UpdateStock` — the *repository*
  method, which has no sufficiency check of its own (the service-level
  `catalog.Service.UpdateStock` that checks is never called by orders). The only
  thing that stops stock from going negative under a race is the database
  `CHECK (stock >= 0)` that `domain.Product` declares; the schema is created by
  SQL migrations that are not in the repository, so whether that constraint is
  present is a parameter of the models (`StockCheck`).
* `payments.Service` reads an order with its items through
  `orders.Repository.FindByID` and computes the order total itself.
* All state is shared through the database; there are no callbacks, queues or
  in-process locks.

### What is hard

* **Check-then-act across statements.** Order `Create` and `AddOrderItem`
  read a product's stock, check it, write the order, then decrement stock in a
  separate statement; `UpdateOrderItem` reads the item, reads the product,
  adjusts stock, then `Save`s the item it read earlier; payment `Create`/`Update`
  sum the payments, compare, then insert; review and user `Create` check
  existence, then insert.
* **Partial failure after a write.** `AddOrderItem` inserts the item, then
  decrements stock in a separate statement, and it returns an error when the
  decrement is rejected. The inserted item stays.
* **An insert of what an association already inserted.** `Create`'s
  transaction inserts each item twice and always rolls back (above).
* **Soft delete.** `Delete` of an order only marks the `compra` row; its
  `detalle_compra` rows stay live (`OnDelete:CASCADE` never fires on an
  `UPDATE`). `UpdateOrderItem` and `DeleteOrderItem` find items by id without
  looking at their order, so they still act on the items of a deleted order.
  `UpdateStock` on a soft-deleted product updates zero rows and reports
  success.
* **Sentinel partial updates.** `catalog.Service.Update` overwrites `stock`
  whenever `req.Stock >= 0`, which is always (an omitted field binds to 0).

### Properties that make each component correct

* Product ledger: stock is never negative; stock is changed only by the amount
  an order flow asked for.
* Order aggregate: *conservation* — when no request is in flight, a product's
  stock plus the quantities of the live items of live orders on it equals the
  stock supplied to it; an order whose lines pass the checks is stored; a
  request that fails leaves no item behind; an item's stock is returned at
  most once.
* Payment ledger: the payments of an order never exceed its total; `pending`
  reported is `max(0, total - paid)`.
* Review ledger: at most one review per (client, product).
* Users: e-mails unique (guaranteed by the unique index whatever the service
  does); a completed password change stays in effect.

## 2. Plan

Modules, in the order they are built (the most important behaviour first);
the status is given in brackets.

1. `Inventory` [built]: the order aggregate and the product ledger together,
   because every order operation is a sequence of statements over both.
   Concurrent requests form the set `Clients`. Each request has a program
   counter and the values it has read. There is one action per database
   statement of each service operation.
2. `Payments` [built]: payment `Create`/`Update`/`Delete`, composed with the
   `Inventory` actions that change an order's total.
3. `Reports` [built]: the pending-payments report, a raw SQL query
   modelled as an operator of the `Payments` state and compared with the
   status endpoint.
4. `Reviews` [built]: the check-then-insert race of duplicate reviews.
5. `Users` [built]: the check-then-insert race on e-mails, which the unique
   index decides, and the lost update of a password.
6. `OrderLedger` [built]: the abstract promise of the order aggregate and
   the product ledger together (spec.md sections 2 and 4.1-4.2). Every
   business operation is one atomic step. `Inventory` is shown to refine it
   by `INSTANCE ... WITH`.
7. Product `Update` [built, in `Inventory`]: the read, then the `Save`
   that writes `req.Stock`, racing order stock adjustments. Its sentinel
   problem is an observation (below): the model cannot tell an omitted stock
   from a 0.
8. Payment methods [built, in `Payments`]: create, rename and delete,
   with the unique index on `nombre` and the `pago` foreign key.
9. Restart [built, in `Inventory`]: the server dies between any two
   statements. The only persisted state is the database, so every
   in-flight request stops where it is.
10. Product `Create` [built, in `Inventory` and `OrderLedger`].

## 3. The modules

### `Inventory` (with `MC_Inventory`)

Models `orders.Service`/`orders.Repository` and the state-changing
operations of `catalog.Service`/`catalog.Repository`.

* State (the rows):
  * `stock[p]` and `pdeleted[p]` per product (`producto`). `Products` are
    the ids there can be and `InitProducts` those that exist at the start;
    `created` is the set of ids handed out so far. An id not yet created has
    `pdeleted[p] = TRUE`: every scoped query skips it exactly as it skips a
    soft-deleted row.
  * `order[o]` in {`"live"`, `"deleted"`} (`compra`, with ids `1..n` from the
    auto-increment).
  * `item[i]` = `[order, product, qty, price, live]` (`detalle_compra`).
  * A ghost `supplied[p]`, which records the stock put into a product (the
    initial stock plus what the initial items hold, what a product `Update`
    writes, and the deltas of `AdjustStock`). It exists so that conservation
    can be stated.
* `Init` is a database that already holds `InitOrders` live orders and
  `InitItems` live items of them, on products that exist, with any
  quantity and price a request could have given. No `Create` can make such
  rows through this code, so they are there at the start.
* Requests: `Clients` are concurrent HTTP requests.
  * `pc[c]` is the statement that client `c` is about to run.
  * `req[c]` holds what it was asked and what it has read so far.
  * Every service operation is one action per database statement, in the
    code's order, with its early returns. For example, `Create` is
    `CreateOrderRequest` (bind and validation), `CreateCheckLine` (one
    `FindByID` and stock check per line) and `CreateCommit` (the
    `CreateWithItems` transaction). `CreateCommit` always rolls back and
    answers 400, leaving every row unchanged.
  * `Ops` selects which operations a run lets clients start.
* Product `Create` (`CreateProduct`) is one step: the past-date rejection
  (a nondeterministic input), or the `INSERT` under a fresh id with the
  bound stock. `omitempty,min=0` makes an omitted stock 0, so 0 is among the
  stock values a run sends.
* The stock endpoint `catalog.Service.AdjustStock` is
  `AdjustStockRequest` (the `FindByID` and its check) followed by
  `AdjustStockUpdate` (the `UpdateStock`). `Deltas` is the set of deltas a
  request may carry. A `.cfg` cannot write negative numbers, so the MC
  modules define `StockDeltas == {-1, 1}`.
* `UpdateStock` is `stock = stock + d` in one statement.
  * When `StockCheck` holds, it is rejected only by the schema's
    `CHECK (stock >= 0)`.
  * On a soft-deleted product it is a no-op that reports success.
* `Restart` (enabled by `"Restart"` in `Ops`) is the process dying and
  `main` starting it again. Every request in flight is abandoned at its
  current `pc`, and the database rows stay as they are.
* `Start(c)` is the disjunction of the first step of every operation, and
  `InFlight(c)` is the disjunction of the later steps.
  `Next == (\E c : (Start(c) \/ InFlight(c)) /\ Track(c)) \/ Restart`.
* Every request ends in `Reply(c, s)`, which returns the client to `"idle"`
  and records the HTTP status `resp[c]` that its handler sends. The status
  is computed from the service's error text, the way the handlers in
  `orders/handler.go` and `catalog/handler.go` compute it. `HandlerStatus(ok,
  notFound, err)` gives `ok` (200 or 201) on success, 404 when the text is
  one the handler compares against (`"order not found"`, `"order item not
  found"`, `"el item no pertenece a esta orden"`, `"product not found"`), and
  400 for any other error. There is one operator per handler, e.g.
  `UpdateOrderItemStatus`. `resp[c]` is 0 while a request is in flight.
* A ghost `wrote[c]` records whether the request in flight (or the one that
  last answered) has changed any row. `Track(c)` maintains it on every step
  of `c`. Together with `resp` it states `ErrorLeavesNoTrace`.
* GORM `Save` of a row read earlier writes the whole stale row. On a row
  soft-deleted since the read, the model lets it do either of two things:
  change nothing, or upsert the row back live. The upsert is GORM v2's
  fallback when the `UPDATE` matches no row. No `go.mod` pins the version,
  so both outcomes are disjuncts.

### `Payments` (checked through `MC_Reports`)

Extends `Inventory` with the `pago` rows `payment[k]` = `[order, method,
amount, live]` (method 0 is `NULL`), the `metodo_pago` rows `method[m]` =
`[name, exists]`, payment requests `PayClients` and payment-method requests
`MethodClients` (both with `ppc` and `preq`).
`PayNext` is either an `Inventory` step (payments unchanged) or a payment
step (the order side unchanged). Payment requests therefore interleave with
order requests.

* `Create` has three steps:
  * request: the order is read, and its total is computed from its live
    items;
  * check: the paid sum and the pending comparison;
  * method lookup (`FindPaymentMethodByID`), only when a method id is given;
  * insert.
* `Update` has up to five steps: request (the payment is read), order read,
  check (these two only when `req.Monto > 0`), method lookup (only when a
  method id is given), and `Save`.
  * `FindByID` preloads the payment's `PaymentMethod`. The request records
    that method (`pm`, 0 when none was found) and its name.
  * GORM's `Save` first saves the belongs-to association: it inserts the
    preloaded method `ON CONFLICT DO NOTHING`, then copies its id back into
    `IDMetodoPago`. So `SavedPayment` keeps the method it read whenever one
    was preloaded, and the new `IDMetodoPago` sticks only for a payment
    that had none. A method deleted since the read is inserted again under
    its id, unless its name is taken by another row. Then the `UPDATE` of
    `pago` runs, and when the foreign key rejects it, the re-insert is
    rolled back too.
* `Delete` is one step.
* A request's method id is 0 or any id up to the next one to be assigned,
  so a lookup can fail. The insert or `Save` is rejected when it names a
  method that does not exist, if the `pago` foreign key to `metodo_pago`
  exists. The `MethodFK` parameter decides that, since the migrations that
  create the schema are not in the repository.
* `CreatePaymentMethod` is the name check (`FindPaymentMethodByName`)
  followed by the insert, which the unique index on `nombre` may reject.
  `UpdatePaymentMethod` is `FindPaymentMethodByID`, then the name check, then
  a `Save`; on a method deleted since, the `Save` changes nothing or
  upserts it back. `DeletePaymentMethod` is a hard delete (`PaymentMethod`
  has no `DeletedAt`), and the foreign key rejects it while a `pago` row
  names the method.
* Amounts are whole units. The code's float64 sums of `numeric(10,2)` are
  not modelled.

### `Reports` (with `MC_Reports`)

Extends `Payments` with no new state. `reports.Repository` issues raw SQL, so
each report is an operator of the current rows, not an action.

* `PendingReport` is `GetPendingPaymentsReport` (its two CTEs and the
  `WHERE`).
* `StatusPending` is `payments.Service.GetPaymentStatusByOrderID`.

Raw queries skip GORM's soft-delete scope. The operators therefore range over
all rows, while the services' `OrderTotal`/`TotalPaid` range over live rows
only. Dates are abstracted: every row lies in the requested period.

### `Reviews` (with `MC_Reviews`)

`review[k]` = `[client, product, rating, live]` (`resena`), with requests
`RClients`.

* `Create` is the `ExistsByClientAndProduct` check followed by the insert.
* `Update` is `FindByID` followed by a `Save` of the stale row, with the
  same deleted-row disjuncts as above.
* `Delete` is a soft delete.
* The comment text is abstracted away.

`src/internal/modules/reviews/service.go` holds the service twice (the file
does not compile). The model follows the first copy, and the two copies
agree on everything modelled.

### `Users` (with `MC_Users`)

`user[u]` = `[email, pw, live]` (`usuario`), with requests `UClients`.

* `EmailInUse` is the service's scoped `ExistsByEmail`.
* `EmailIndexed` is the unique index on `correo`, which covers deleted rows
  too.
* `Create` is the check followed by an insert that the index may reject.
* `Update` is `FindByID`, then the e-mail check, then `Save` of the row as
  read. The code never assigns the new e-mail.
* `ChangePassword` is `FindByID` with password verification, then `Save`
  with the new hash.
* A ghost `lastPw[u]` records the password that the last completed
  `ChangePassword` (or the `Create`) set.
* bcrypt is abstracted: a password is a model value.

### Handler answers in `Payments` and `Reviews`

`Payments` and `Reviews` model their handlers in the same way as
`Inventory`: `PayReply` and `RReply` record `presp` and `rresp`, and the
status operators (`CreatePaymentStatus`, `DeletePaymentMethodStatus`,
`UpdateReviewStatus`, ...) follow `payments/handler.go` and
`reviews/handler.go`. A `Delete` of an id that has no live row answers 404:
the service's `FindByID` returns the not-found error before the `Delete`. `CreateReview` answers
400 for every error.

### `OrderLedger` and the refinement

`OrderLedger` is what spec.md promises of orders and stock, with every
operation one atomic step: `CreateOrder` (every line's product live and
enough stock for all the lines together), `AddItem`, `UpdateItem`,
`DeleteItem`, `DeleteOrder` (the order's items go with it, and their stock
comes back), `CreateProduct` (a fresh id with the stock given), `SetStock`,
`AdjustStock` and `DeleteProduct`. It has the same
variables as `Inventory`, apart from the requests and the ghost.

`Inventory` defines the refinement mapping and checks `OrderLedgerSpec ==
OL!Spec` as a property:

* `AbsStock[p]` is `stock[p]` minus `Pending(c, p)` over all clients.
  `Pending(c, p)` is the stock that request `c` has moved ahead of or behind
  its row writes: for example, the item `AddOrderItem` has inserted but not
  yet charged, or the items a `Delete` has restored but not yet removed.
  The abstract step therefore happens at the row write, and the stock
  statements around it are stuttering steps.
* `AbsItem` marks an item live only if its order is live too.

The mapping holds with one request at a time and no order deletion. With
deleted orders whose items are still live, it fails exactly where
`Conservation` does (see the violation runs). The abstract `CreateOrder` is
never taken: every `Create` of the code is a stuttering step, which the
refinement allows, and `inv_create_fails` checks what spec.md says instead.


| Run | Checks | Result | What it shows |
|---|---|---|---|
| `inv_conservation_seq` | `Conservation`, `OrderLedgerSpec` | pass | One request at a time on one live order with one item, with no order deletion. Product `p2` is created during the run. Every order flow (add/update/delete item, order update, the failing create), product create/update/delete and stock adjustment keeps stock + held quantity = supply, and `Inventory` implements the atomic `OrderLedger`. |
| `inv_concurrent_types` | `TypeOK` | pass | Two concurrent clients, every operation (stock adjustments included) and server restarts between any two statements. Every row and request keeps its shape: in particular `UpdateOrderItem`'s `Save` never writes a quantity of 0. |
| `inv_deleted_order_items` | `Conservation` | violation | Order `Delete` restores stock but leaves the items live. `DeleteOrderItem` or `UpdateOrderItem` then moves their stock again. |
| `inv_create_fails` | `CreatePersistsOrder` | violation | An order `Create` whose line passes the stock check is answered without storing an order: the transaction is rolled back. |
| `inv_add_item_partial` | `ErrorLeavesNoTrace` | violation | Two concurrent `AddOrderItem` requests both pass the stock check and both insert. The `CHECK` constraint rejects the second decrement, and that request is answered 400 while its item stays. |
| `pay_sequential` | `PayTypeOK`, `NoOverpayment` | pass | One payment request at a time (create, update, delete) on a live order, beside an order client that adds items and a method client that creates, renames and deletes methods. Payments never exceed a live order's total, and every row stays well formed (no zero payment). |
| `pay_item_reduction` | `NoOverpayment` | violation | The order is paid in full, then its item's quantity is lowered (or the item deleted). The order is overpaid with no concurrency at all. |
| `rep_deleted_payment` | `PendingReportMatchesStatus` | violation | After a payment is deleted, the pending report still counts it as paid, while the status endpoint does not. |
| `rev_concurrent_types` | `ReviewTypeOK` | pass | Three concurrent review requests of every kind. Every rating stays within the `CHECK`, because `Update` writes a rating only when one is given. |
| `rev_concurrent_create` | `OneReviewPerPair` | violation | Two concurrent creates for one (client, product) both pass the exists-check. Nothing unique stops the second insert. |
| `usr_concurrent_types` | `UserTypeOK` | pass | Two concurrent requests of every kind. Every `usuario` row keeps an e-mail and a password through the whole-row `Save`s. |
| `usr_password_lost_update` | `PasswordChangeSticks` | violation | A profile `Update` that read the row before a `ChangePassword` completed `Save`s the old hash back. |

Every property of a passing run has a mutant in `PROJECT.json`, a plausible
bug in the mapped code that TLC then finds:

* the sign of the item stock adjustment swapped (`Conservation`);
* `AddOrderItem` checking the product but not its stock
  (`OrderLedgerSpec`);
* the `req.Cantidad > 0` guard dropped (`TypeOK`);
* a pending check that ignores the paid sum (`NoOverpayment`);
* the `req.Monto > 0` guard dropped (`PayTypeOK`);
* the `req.Rating > 0` guard dropped (`ReviewTypeOK`);
* `usr.Email = req.Email` assigned without checking that one was given
  (`UserTypeOK`).

### Further observations

TLC confirmed these while the models were built. They are not kept as runs,
because each one is a variant of a configuration above:

* Two concurrent payment creates read the same paid sum and together pay an
  order twice (`NoOverpayment` with two `PayClients`).
* Without the `CHECK` constraint, the two racing `AddOrderItem` requests
  of `inv_add_item_partial` drive stock to -2 instead of being rejected
  (`StockCheck = FALSE`).
* A payment `Update`'s `Save` after a concurrent `Delete` brings the payment
  back, under an upserting `Save`.
* `users.Service.Update` checks a new e-mail but never assigns it, so an
  e-mail change silently does nothing.
* A `Restart` in the middle of an order flow breaks conservation: for
  example, one between `AddOrderItem`'s insert and its decrement leaves an
  item whose stock was never taken (`Conservation` with `"Restart"` in
  `Ops`), the same state `inv_add_item_partial` reaches without a crash.
* A payment `Update` that names a new method keeps the old one whenever the
  payment had a method: `Save` copies the preloaded `PaymentMethod`'s id
  back into `IDMetodoPago` (see `Payments`). The service answers 200 and
  returns the payment with the old method. TLC finds this with one payment
  client and one method client, against an action property that a
  successful update stores the method it names. A method deleted after the read
  (possible only without the foreign key, or after another update moved
  the payment off it) is inserted again by the `Save`.
* The handlers' statuses differ from spec.md's error taxonomy (§6/§7:
  not found → 404, business rule → 400, unexpected → 500). Creating an
  order with a missing product answers 400 (`orders/handler.go` maps every
  `Create` error to 400), and so does a payment for a missing order. An
  item of another order (`"el item no pertenece a esta orden"`) answers 404,
  not 400. Constraint violations, such as the unique method name and the
  method foreign key, answer 400 where the spec has 500. No status is ever
  500. The payment-status endpoint
  (`payments/handler.go:227`) builds the expected not-found text from the
  raw path parameter, so `/orders/007/...` for a missing order 7 answers
  400 instead of 404. `ErrorLeavesNoTrace` does not depend on any of this,
  and the taxonomy is left as an observation.
* `catalog.Service.Update` writes `req.Stock` whenever `req.Stock >= 0`,
  and an omitted stock binds to 0, so renaming a product sets its stock to
  0. spec.md §4.1 says a zero field means "unset". `Conservation` and
  `OrderLedgerSpec` hold all the same (the write is an atomic `SetStock`);
  the spec's rule needs the presence of the field, which the binding erases.
* `GetLowStockProducts` is raw SQL with no `deleted_at` filter, so it lists
  soft-deleted products too, like the other reports.
* `setupRouter` (`server/gin_server.go:105`) registers only `/health` and an
  empty `/api/v1` group, and `main.go` never builds the module handlers:
  as it stands no handler of the models is reachable over HTTP.
  `corsMiddleware` is defined and never used. The models describe the
  handlers as they behave once routed.
* A review `Update` that omits the rating (0) `Save`s the rating it read,
  so it undoes a rating change that another `Update` of the same review
  completed in between; both answer 200. TLC finds this with two `Update`
  requests on one review, against a ghost of the last rating written. It is
  the lost update that `usr_password_lost_update` shows for users.
* `DeletePaymentMethod` is a hard `DELETE`, and the `pago` foreign key
  (when it exists) also covers soft-deleted payments. Once a payment has
  named a method, deleting the payment does not free the method: every
  later `DeletePaymentMethod` answers 400. TLC reaches a live method that only a
  deleted payment names (`MethodReferenced` ranges over every `pago`
  row). spec.md states no rule for deleting a method.
* Two payment clients (racing `Create` and `Update` of one order) break
  `NoOverpayment` at once, as the first observation says, so the passing
  payment run has one payment client.

### Bounds

Ids are unbounded in the specs. The MC modules' `StateBound` constraint stops
exploration at:

* `MaxItems` items, `MaxPayments` payments, `MaxMethods` methods,
  `MaxReviews` reviews and `MaxUsers` users ever created (no order is ever
  created, since `Create` never commits);
* stock `MaxStock`.

These bounds are enough because every check can both pass and fail under
them:

* With `InitStock = 2` and quantities `{1, 2}`, one line can take all the
  stock, and two lines or two clients can together ask for more than there
  is.
* Amounts `{1, 2}` can pay an order exactly, partly or too much.
* Two e-mails and two passwords are enough to collide and to change.

One or two products and one price suffice, because the properties are per
product or per order and no rule compares products or prices. One initial
order with one item (two initial states, one per quantity) is enough for
every item operation to find something to change, for the order to be
deleted with a live item, and for a payment to pay it in full;
`inv_create_fails` starts empty and `inv_add_item_partial` starts with an
empty order, so that the two inserts race on the whole stock.

`inv_conservation_seq` starts with `p1` and lets `p2` be created, with
stock values `{0, 1}`, so that an omitted stock and orders on a product
created during the run both happen. The other runs start with every
product created, and symmetry over products is split into
`InitProducts` and the rest, since an initial product and one not created
yet are not interchangeable.

Symmetry over the request sets, products, customers, items, e-mails and
passwords is sound, because nothing in the code distinguishes one from
another. Two concurrent requests are enough to exhibit each race, since every
race here is between two requests.

`inv_concurrent_types` uses `VIEW NoGhostView`, which drops the ghost
`supplied`; its states then differ only in rows, requests and stock, which
`StateBound` caps. The other views are in the same
spirit. `NoGhostView` also leaves out `wrote` and `resp`. `PayView`
(`MC_Reports`) leaves out the answers and the ghost, and `ReviewView`
(`MC_Reviews`) leaves out `rresp`. Their runs' properties read none of
these, and states that differ only in the last answer behave alike.

### Fairness and liveness

No liveness property is checked, and the specifications carry no fairness.
Every order request runs a fixed sequence of statements with no loop that
waits on anything: the loops run over the request's lines or the items read,
and a rejected statement returns an error rather than blocking. So a request
returning holds by the shape of the code, and a property saying so would
show nothing. `Restart` abandons requests rather than returning them.

### Not modelled

* The payment gateway (a stateless mock that nothing in `src/` calls).
* HTTP routing, binding, id parsing and JSON rendering. Requests enter the
  models as inputs from small sets, and handlers are kept only as the
  status they answer.
* Migrations.
* Password hashing.
* Pagination. `List` computes `offset := (page - 1) * limit` in Go's 64-bit
  `int`, from a `page` that the handler parses with `strconv.Atoi`. A huge page
  wraps to a negative offset, GORM then drops the `OFFSET`, and the first
  page comes back. TLC's integers are 32 bits wide, so this wrap cannot be
  modelled at its width, and `List` only reads.
* The reports other than the pending payments (sales summary, top
  selling, top customers, daily trend, low stock, method summary): they
  read the same unscoped rows over dates, customers and names the models
  abstract away, and no rule of spec.md relates them to a service. Like
  the pending report, `GetSalesSummary` and `GetTopSellingProducts` keep
  counting deleted orders, items and payments.
* The product reads (`GetById`, `GetByName`, the expiry-date queries, `List`)
  and the rating summary of reviews: they change no state.
* The float arithmetic of payment totals. The totals are float64 sums of
  `numeric(10,2)` values, and the comparison with the pending amount can refuse a
  payment of exactly that amount. Representing a float64 needs 53-bit
  mantissas, which TLC's 32-bit integers cannot hold, so the models count
  whole units.
* The HTTP server's start-up, its timeouts and its middleware. No module
  route is registered (see the observations), and a request that is
  answered is what the models' `Reply` steps describe.

Every operation in `src/` that changes a row is an action of a module. What
is left out only reads, or it needs integers wider than TLC's (the 64-bit
offset, the float64 sums).
