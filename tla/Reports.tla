------------------------------ MODULE Reports -------------------------------
(***************************************************************************)
(* The pending-payments report of src/internal/modules/reports/            *)
(* repository.go over the rows of Payments.  It is one raw SQL query, so   *)
(* it is an operator of the state, not an action.  Raw queries get none of *)
(* GORM's soft-delete scoping: unlike the services, it reads deleted       *)
(* compra, detalle_compra and pago rows as well.  Dates are abstracted     *)
(* away: every row lies in the requested period (parseDates only rejects   *)
(* end < start, before any query).  Every order's client row is assumed    *)
(* to exist, so the joins with cliente and usuario drop nothing.           *)
(***************************************************************************)
EXTENDS Payments

ItemsOf(o) == {i \in DOMAIN item : item[i].order = o}
PaymentsOf(o) == {k \in DOMAIN payment : payment[k].order = o}

-----------------------------------------------------------------------------
(***************************************************************************)
(* GetPendingPaymentsReport: per-order totals of all items and of all      *)
(* payments, the orders whose item total exceeds their payment total.      *)
(***************************************************************************)

\* order_totals and payment_totals (the CTEs), joined with COALESCE(.., 0).
ReportOrderTotal(o) ==
    MapThenSumSet(LAMBDA i : item[i].qty * item[i].price, ItemsOf(o))
ReportPaid(o) == MapThenSumSet(LAMBDA k : payment[k].amount, PaymentsOf(o))

\* order_id |-> pending_amount, WHERE ot.total > pt.total.
PendingReport ==
    [o \in {x \in DOMAIN order : ReportOrderTotal(x) > ReportPaid(x)} |->
        ReportOrderTotal(o) - ReportPaid(o)]

-----------------------------------------------------------------------------
(***************************************************************************)
(* payments.Service.GetPaymentStatusByOrderID: a live order (FindByID),    *)
(* the total of its live items, the paid sum of its live payments, and     *)
(* pending clamped at zero.                                                *)
(***************************************************************************)
StatusPending(o) ==
    LET pending == OrderTotal(o) - TotalPaid(o)
    IN IF pending < 0 THEN 0 ELSE pending

-----------------------------------------------------------------------------
(***************************************************************************)
(* The pending-payments report lists exactly the orders the status         *)
(* endpoint reports as not fully paid, with the same pending amount.  The  *)
(* report's SQL and GetPaymentStatusByOrderID compute the same quantity    *)
(* from the same rows in two ways.                                         *)
(***************************************************************************)
PendingReportMatchesStatus ==
    /\ DOMAIN PendingReport =
          {o \in DOMAIN order : LiveOrder(o) /\ StatusPending(o) > 0}
    /\ \A o \in DOMAIN PendingReport : PendingReport[o] = StatusPending(o)

=============================================================================
