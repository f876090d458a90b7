------------------------------ MODULE Payments ------------------------------
(***************************************************************************)
(* The payment ledger (src/internal/modules/payments/service.go) beside    *)
(* the order aggregate of Inventory.  A payment request reads the order    *)
(* with its live items and computes the total itself, reads the sum of the *)
(* order's live payments in another statement, compares, then writes; the  *)
(* order-side clients of Inventory change totals meanwhile.  Payment       *)
(* requests are the processes PayClients, with their own ppc and preq.     *)
(* Amounts are whole units: the float64/numeric(10,2) rounding of the code *)
(* is not modelled.                                                        *)
(***************************************************************************)
EXTENDS Inventory

CONSTANTS
    PayClients,     \* concurrent payment requests
    MethodClients,  \* concurrent payment-method requests
    Amounts,        \* amounts a request may carry (binding: min=0)
    Names,          \* payment-method names a request may carry
    PayOps,         \* the payment operations the payment clients call
    MethodOps,      \* the method operations the method clients call
    MethodFK        \* TRUE iff pago.id_metodo_pago is a foreign key

ASSUME /\ Amounts \subseteq Nat \ {0}
       /\ PayOps \subseteq {"Create", "Update", "Delete"}
       /\ MethodOps \subseteq {"CreateMethod", "UpdateMethod", "DeleteMethod"}
       /\ MethodFK \in BOOLEAN

VARIABLES
    payment,   \* payment[k]: the pago rows [order, method, amount, live]
    method,    \* method[m]: the metodo_pago rows [name, exists], ids 1..n
    ppc,       \* ppc[c]: where payment or method client c is
    preq,      \* preq[c]: its request and what it has read
    presp      \* presp[c]: the status its last request was answered with,
               \* 0 while one is in flight

payVars == <<payment, method, ppc, preq, presp>>
allVars == <<vars, payVars>>

PayActors == PayClients \cup MethodClients

\* Monto: binding "required" rejects 0 on Create, and Update writes it only
\* when req.Monto > 0.  Method 0 is a NULL id_metodo_pago.
PaymentRow == [order : Nat, method : Nat, amount : Nat \ {0}, live : BOOLEAN]

\* metodo_pago has no DeletedAt: a delete removes the row (exists = FALSE),
\* and its id is not given out again.
MethodRow == [name : Names, exists : BOOLEAN]

\* pm, pmname: the method FindByID preloaded into payment.PaymentMethod
\* (pm = 0: none, the id is NULL or names no row).
NoPayReq == [op |-> "none", pid |-> 0, oid |-> 0, amount |-> 0, mid |-> 0,
             name |-> CHOOSE n \in Names : TRUE, total |-> 0, pm |-> 0,
             pmname |-> CHOOSE n \in Names : TRUE,
             old |-> [order |-> 0, method |-> 0, amount |-> 0, live |-> FALSE]]

PayPCs == {"idle", "pc_paid", "pc_method", "pc_insert", "pu_order", "pu_paid",
           "pu_method", "pu_save", "mc_insert", "mu_name", "mu_save"}

NewPaymentId == Cardinality(DOMAIN payment) + 1
NewMethodId == Cardinality(DOMAIN method) + 1

LivePayment(k) == k \in DOMAIN payment /\ payment[k].live

\* FindPaymentMethodByID: the row is there.
MethodExists(m) == m \in DOMAIN method /\ method[m].exists

\* The loop over order.Items (FindByID preloads the live items only).
OrderTotal(o) ==
    MapThenSumSet(LAMBDA i : item[i].qty * item[i].price,
                  {i \in DOMAIN item : item[i].live /\ item[i].order = o})

\* repo.GetTotalPaidByOrderID: COALESCE(SUM(monto), 0) over live rows.
TotalPaid(o) ==
    MapThenSumSet(LAMBDA k : payment[k].amount,
                  {k \in DOMAIN payment : payment[k].live /\ payment[k].order = o})

\* The foreign key: a pago row may name method m only if the row exists.
MethodKey(m) == ~MethodFK \/ m = 0 \/ MethodExists(m)

\* FindPaymentMethodByName(n) finds a row.
NameTaken(n) == \E m \in DOMAIN method : method[m].exists /\ method[m].name = n

\* The unique index: a row other than `self` already has the name.
NameIndexed(n, self) ==
    \E m \in DOMAIN method : m # self /\ method[m].exists /\ method[m].name = n

\* The other side of the foreign key: a pago row, deleted or not, names m.
MethodReferenced(m) == MethodFK /\ \E k \in DOMAIN payment : payment[k].method = m

\* payments/handler.go: the status each handler answers a service result
\* with (HandlerStatus of Inventory).
CreatePaymentStatus(err) == HandlerStatus(201, {}, err)
UpdatePaymentStatus(err) == HandlerStatus(200, {"payment not found"}, err)
DeletePaymentStatus(err) == HandlerStatus(200, {"payment not found"}, err)
CreatePaymentMethodStatus(err) == HandlerStatus(201, {}, err)
UpdatePaymentMethodStatus(err) == HandlerStatus(200, {"payment method not found"}, err)
DeletePaymentMethodStatus(err) == HandlerStatus(200, {"payment method not found"}, err)

PayReply(c, s) == /\ ppc' = [ppc EXCEPT ![c] = "idle"]
                  /\ preq' = [preq EXCEPT ![c] = NoPayReq]
                  /\ presp' = [presp EXCEPT ![c] = s]

PayGoto(c, l) == /\ ppc' = [ppc EXCEPT ![c] = l]
                 /\ presp' = [presp EXCEPT ![c] = 0]

PayTypeOK ==
    /\ TypeOK
    /\ DOMAIN payment = 1 .. Cardinality(DOMAIN payment)
    /\ \A k \in DOMAIN payment : payment[k] \in PaymentRow
    /\ DOMAIN method = 1 .. Cardinality(DOMAIN method)
    /\ \A m \in DOMAIN method : method[m] \in MethodRow
    /\ ppc \in [PayActors -> PayPCs]
    /\ presp \in [PayActors -> {0} \cup Statuses]

PayInit ==
    /\ Init
    /\ payment = <<>>
    /\ method = <<>>
    /\ ppc = [c \in PayActors |-> "idle"]
    /\ preq = [c \in PayActors |-> NoPayReq]
    /\ presp = [c \in PayActors |-> 0]

-----------------------------------------------------------------------------
(***************************************************************************)
(* payments.Service.Create.  mid 0: no IDMetodoPago in the request.        *)
(***************************************************************************)

\* Bind, ordersRepo.FindByID with its items, and the orderTotal loop.
CreatePaymentRequest(c) ==
    /\ "Create" \in PayOps
    /\ ppc[c] = "idle"
    /\ \E o \in 1 .. NewOrderId, a \in Amounts, m \in 0 .. NewMethodId :
          IF LiveOrder(o)
            THEN /\ preq' = [preq EXCEPT ![c] = [NoPayReq EXCEPT
                               !.op = "Create", !.oid = o, !.amount = a,
                               !.mid = m, !.total = OrderTotal(o)]]
                 /\ PayGoto(c, "pc_paid")
            ELSE PayReply(c, CreatePaymentStatus("orden no encontrada"))
    /\ UNCHANGED <<vars, payment, method>>

\* Mutation: the amount compared with the order total, not what is pending.
CreatePaymentCheckNoPaid(c) ==
    LET r == preq[c] IN
    /\ ppc[c] = "pc_paid"
    /\ IF r.amount > r.total
         THEN PayReply(c, CreatePaymentStatus("el monto excede el pendiente"))
         ELSE /\ PayGoto(c, IF r.mid # 0 THEN "pc_method" ELSE "pc_insert")
              /\ UNCHANGED preq
    /\ UNCHANGED <<vars, payment, method>>

\* GetTotalPaidByOrderID, then Monto > pending.
CreatePaymentCheck(c) ==
    LET r == preq[c] IN
    /\ ppc[c] = "pc_paid"
    /\ IF r.amount > r.total - TotalPaid(r.oid)
         THEN PayReply(c, CreatePaymentStatus("el monto excede el pendiente"))
         ELSE /\ PayGoto(c, IF r.mid # 0 THEN "pc_method" ELSE "pc_insert")
              /\ UNCHANGED preq
    /\ UNCHANGED <<vars, payment, method>>

\* FindPaymentMethodByID(*req.IDMetodoPago).
CreatePaymentMethodLookup(c) ==
    /\ ppc[c] = "pc_method"
    /\ IF MethodExists(preq[c].mid)
         THEN /\ PayGoto(c, "pc_insert")
              /\ UNCHANGED preq
         ELSE PayReply(c, CreatePaymentStatus("metodo de pago no encontrado"))
    /\ UNCHANGED <<vars, payment, method>>

\* repo.Create: INSERT INTO pago, checked by the foreign key if there is one.
CreatePaymentInsert(c) ==
    LET r == preq[c] IN
    /\ ppc[c] = "pc_insert"
    /\ IF MethodKey(r.mid)
         THEN /\ payment' = payment @@ (NewPaymentId :> [order |-> r.oid,
                                           method |-> r.mid, amount |-> r.amount,
                                           live |-> TRUE])
              /\ PayReply(c, CreatePaymentStatus("ok"))
         ELSE /\ UNCHANGED payment
              /\ PayReply(c, CreatePaymentStatus("error creating payment"))
    /\ UNCHANGED <<vars, method>>

-----------------------------------------------------------------------------
(***************************************************************************)
(* payments.Service.Update.  A Monto of 0 (omitted) leaves the amount.     *)
(***************************************************************************)

\* Bind, repo.FindByID(payment) with Preload("Order") and
\* Preload("PaymentMethod").
UpdatePaymentRequest(c) ==
    /\ "Update" \in PayOps
    /\ ppc[c] = "idle"
    /\ \E k \in 1 .. NewPaymentId, a \in {0} \cup Amounts,
          m \in 0 .. NewMethodId :
          IF LivePayment(k)
            THEN /\ preq' = [preq EXCEPT ![c] = [NoPayReq EXCEPT
                               !.op = "Update", !.pid = k, !.amount = a,
                               !.mid = m, !.old = payment[k],
                               !.pm = IF MethodExists(payment[k].method)
                                        THEN payment[k].method ELSE 0,
                               !.pmname = IF MethodExists(payment[k].method)
                                            THEN method[payment[k].method].name
                                            ELSE @]]
                 /\ PayGoto(c, CASE a > 0  -> "pu_order"
                                 [] m # 0  -> "pu_method"
                                 [] OTHER  -> "pu_save")
            ELSE PayReply(c, UpdatePaymentStatus("payment not found"))
    /\ UNCHANGED <<vars, payment, method>>

\* ordersRepo.FindByID(payment.IDCompra) and the orderTotal loop.
UpdatePaymentOrder(c) ==
    LET r == preq[c] IN
    /\ ppc[c] = "pu_order"
    /\ IF LiveOrder(r.old.order)
         THEN /\ preq' = [preq EXCEPT ![c].total = OrderTotal(r.old.order)]
              /\ PayGoto(c, "pu_paid")
         ELSE PayReply(c, UpdatePaymentStatus("error obteniendo orden"))
    /\ UNCHANGED <<vars, payment, method>>

\* GetTotalPaidByOrderID; newTotalPaid = totalPaid - payment.Monto (as read
\* at the start) + req.Monto.
UpdatePaymentCheck(c) ==
    LET r == preq[c]
        newTotalPaid == TotalPaid(r.old.order) - r.old.amount + r.amount
    IN /\ ppc[c] = "pu_paid"
       /\ IF newTotalPaid > r.total
            THEN PayReply(c, UpdatePaymentStatus("el nuevo monto excederia el total"))
            ELSE /\ PayGoto(c, IF r.mid # 0 THEN "pu_method" ELSE "pu_save")
                 /\ UNCHANGED preq
       /\ UNCHANGED <<vars, payment, method>>

\* FindPaymentMethodByID(*req.IDMetodoPago).
UpdatePaymentMethodLookup(c) ==
    /\ ppc[c] = "pu_method"
    /\ IF MethodExists(preq[c].mid)
         THEN /\ PayGoto(c, "pu_save")
              /\ UNCHANGED preq
         ELSE PayReply(c, UpdatePaymentStatus("metodo de pago no encontrado"))
    /\ UNCHANGED <<vars, payment, method>>

\* Mutation: payment.Monto = req.Monto without the req.Monto > 0 guard.
SavedPaymentUnguarded(r) ==
    [r.old EXCEPT !.amount = r.amount,
                  !.method = IF r.mid # 0 /\ r.pm = 0 THEN r.mid ELSE @,
                  !.live = TRUE]

\* The row read at the start with the new amount, if given.  The new
\* IDMetodoPago sticks only if no method was preloaded: Save first saves
\* the belongs-to PaymentMethod and copies its id back into IDMetodoPago.
SavedPayment(r) ==
    [r.old EXCEPT !.amount = IF r.amount > 0 THEN r.amount ELSE @,
                  !.method = IF r.mid # 0 /\ r.pm = 0 THEN r.mid ELSE @,
                  !.live = TRUE]

(***************************************************************************)
(* repo.Update = db.Save(payment), in one transaction: INSERT the          *)
(* preloaded metodo_pago row ON CONFLICT DO NOTHING (it comes back if it   *)
(* was deleted since and its name is free), then UPDATE the pago row,      *)
(* checked by the foreign key.  On a pago row soft-deleted since, the      *)
(* UPDATE matches nothing: nothing, or an upsert back to live.  A failed   *)
(* UPDATE rolls the method INSERT back.                                    *)
(***************************************************************************)
UpdatePaymentSave(c) ==
    LET r == preq[c]
        new == SavedPayment(r)
        restored == r.pm # 0 /\ ~method[r.pm].exists /\ ~NameIndexed(r.pmname, r.pm)
        keyOK == MethodKey(new.method) \/ (restored /\ new.method = r.pm)
    IN /\ ppc[c] = "pu_save"
       /\ \/ /\ keyOK
             /\ payment' = [payment EXCEPT ![r.pid] = new]
             /\ PayReply(c, UpdatePaymentStatus("ok"))
          \/ /\ ~keyOK \/ ~payment[r.pid].live
             /\ UNCHANGED payment
             /\ PayReply(c, UpdatePaymentStatus(IF keyOK THEN "ok"
                                                 ELSE "error updating payment"))
       /\ method' = IF keyOK /\ restored
                      THEN [method EXCEPT ![r.pm] = [name |-> r.pmname, exists |-> TRUE]]
                      ELSE method
       /\ UNCHANGED vars

\* payments.Service.Delete: FindByID, then a soft delete that reads nothing
\* it checked, so one step.
DeletePayment(c) ==
    /\ "Delete" \in PayOps
    /\ ppc[c] = "idle"
    /\ \E k \in 1 .. NewPaymentId :
          IF LivePayment(k)
            THEN /\ payment' = [payment EXCEPT ![k].live = FALSE]
                 /\ presp' = [presp EXCEPT ![c] = DeletePaymentStatus("ok")]
            ELSE /\ presp' = [presp EXCEPT ![c] = DeletePaymentStatus("payment not found")]
                 /\ UNCHANGED payment
    /\ UNCHANGED <<vars, method, ppc, preq>>

-----------------------------------------------------------------------------
(***************************************************************************)
(* Payment methods: payments.Service.CreatePaymentMethod,                  *)
(* UpdatePaymentMethod and DeletePaymentMethod.  metodo_pago.nombre has a  *)
(* unique index; the service's FindPaymentMethodByName check is a separate *)
(* statement before the write.                                             *)
(***************************************************************************)

\* Bind (nombre: required, max=50), then FindPaymentMethodByName.
CreateMethodRequest(c) ==
    /\ "CreateMethod" \in MethodOps
    /\ ppc[c] = "idle"
    /\ \E n \in Names :
          IF NameTaken(n)
            THEN PayReply(c, CreatePaymentMethodStatus("ya existe un metodo con ese nombre"))
            ELSE /\ preq' = [preq EXCEPT ![c] = [NoPayReq EXCEPT
                                                   !.op = "CreateMethod", !.name = n]]
                 /\ PayGoto(c, "mc_insert")
    /\ UNCHANGED <<vars, payment, method>>

\* repo.CreatePaymentMethod: the INSERT, rejected by the unique index.
CreateMethodInsert(c) ==
    LET n == preq[c].name IN
    /\ ppc[c] = "mc_insert"
    /\ IF NameIndexed(n, 0)
         THEN /\ UNCHANGED method
              /\ PayReply(c, CreatePaymentMethodStatus("error creating payment method"))
         ELSE /\ method' = method @@ (NewMethodId :> [name |-> n, exists |-> TRUE])
              /\ PayReply(c, CreatePaymentMethodStatus("ok"))
    /\ UNCHANGED <<vars, payment>>

\* Bind, then FindPaymentMethodByID(id).
UpdateMethodRequest(c) ==
    /\ "UpdateMethod" \in MethodOps
    /\ ppc[c] = "idle"
    /\ \E m \in 1 .. NewMethodId, n \in Names :
          IF MethodExists(m)
            THEN /\ preq' = [preq EXCEPT ![c] = [NoPayReq EXCEPT
                               !.op = "UpdateMethod", !.mid = m, !.name = n]]
                 /\ PayGoto(c, "mu_name")
            ELSE PayReply(c, UpdatePaymentMethodStatus("payment method not found"))
    /\ UNCHANGED <<vars, payment, method>>

\* FindPaymentMethodByName(nombre): another row with the name fails it.
UpdateMethodCheck(c) ==
    LET r == preq[c] IN
    /\ ppc[c] = "mu_name"
    /\ IF \E m \in DOMAIN method : /\ m # r.mid /\ method[m].exists
                                   /\ method[m].name = r.name
         THEN PayReply(c, UpdatePaymentMethodStatus("ya existe un metodo con ese nombre"))
         ELSE /\ PayGoto(c, "mu_save")
              /\ UNCHANGED preq
    /\ UNCHANGED <<vars, payment, method>>

\* repo.UpdatePaymentMethod = db.Save(method) with the new nombre, checked by
\* the unique index.  On a row deleted since, the UPDATE matches nothing:
\* nothing, or an upsert that inserts it again under its id.
UpdateMethodSave(c) ==
    LET r == preq[c] IN
    /\ ppc[c] = "mu_save"
    /\ \/ /\ ~NameIndexed(r.name, r.mid)
          /\ method' = [method EXCEPT ![r.mid] = [name |-> r.name, exists |-> TRUE]]
          /\ PayReply(c, UpdatePaymentMethodStatus("ok"))
       \/ /\ ~NameIndexed(r.name, r.mid) /\ ~method[r.mid].exists
          /\ UNCHANGED method
          /\ PayReply(c, UpdatePaymentMethodStatus("ok"))
       \/ /\ NameIndexed(r.name, r.mid)
          /\ UNCHANGED method
          /\ PayReply(c, UpdatePaymentMethodStatus("error updating payment method"))
    /\ UNCHANGED <<vars, payment>>

\* FindPaymentMethodByID, then a hard DELETE, which the foreign key rejects
\* while a pago row names the method; the delete reads nothing the lookup
\* checked, so one step.
DeleteMethod(c) ==
    /\ "DeleteMethod" \in MethodOps
    /\ ppc[c] = "idle"
    /\ \E m \in 1 .. NewMethodId :
          CASE ~MethodExists(m) ->
                 /\ presp' = [presp EXCEPT ![c] = DeletePaymentMethodStatus("payment method not found")]
                 /\ UNCHANGED method
            [] MethodReferenced(m) ->
                 /\ presp' = [presp EXCEPT ![c] = DeletePaymentMethodStatus("violates foreign key")]
                 /\ UNCHANGED method
            [] OTHER ->
                 /\ method' = [method EXCEPT ![m].exists = FALSE]
                 /\ presp' = [presp EXCEPT ![c] = DeletePaymentMethodStatus("ok")]
    /\ UNCHANGED <<vars, payment, ppc, preq>>

-----------------------------------------------------------------------------
PayNext ==
    \/ Next /\ UNCHANGED payVars
    \/ \E c \in PayClients :
          \/ CreatePaymentRequest(c) \/ CreatePaymentCheck(c)
          \/ CreatePaymentMethodLookup(c) \/ CreatePaymentInsert(c)
          \/ UpdatePaymentRequest(c) \/ UpdatePaymentOrder(c)
          \/ UpdatePaymentCheck(c) \/ UpdatePaymentMethodLookup(c)
          \/ UpdatePaymentSave(c) \/ DeletePayment(c)
    \/ \E c \in MethodClients :
          \/ CreateMethodRequest(c) \/ CreateMethodInsert(c)
          \/ UpdateMethodRequest(c) \/ UpdateMethodCheck(c)
          \/ UpdateMethodSave(c) \/ DeleteMethod(c)

PaySpec == PayInit /\ [][PayNext]_allVars

-----------------------------------------------------------------------------
(***************************************************************************)
(* No overpayment: the live payments of a live order never sum to more     *)
(* than its total (spec, section 3).  Create and Update enforce it at      *)
(* write time by reading the total and the paid sum in separate            *)
(* statements; the order-item operations change the total without looking *)
(* at payments.                                                            *)
(***************************************************************************)
NoOverpayment ==
    \A o \in DOMAIN order : LiveOrder(o) => TotalPaid(o) <= OrderTotal(o)

=============================================================================
