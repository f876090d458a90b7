\* One payment client creating, updating and deleting payments of a live
\* order, beside an order client that adds items to it (raising its total)
\* and a method client that creates, renames and deletes payment methods:
\* payments never exceed a live order's total, and every row keeps its type.
CONSTANTS
    Products = {p1}
    InitProducts = {p1}
    Clients = {c1}
    MethodClients = {m1}
    Names = {n1, n2}
    MethodOps = {"CreateMethod", "UpdateMethod", "DeleteMethod"}
    MethodFK = TRUE
    MaxMethods = 2
    PayClients = {q1}
    Qty = {1}
    Prices = {1}
    Amounts = {1, 2}
    PayOps = {"Create", "Update", "Delete"}
    StockValues = {1}
    InitStock = 2
    MaxLines = 1
    StockCheck = TRUE
    Ops = {"Create", "AddItem"}
    InitOrders = 1
    InitItems = 1
    Deltas <- StockDeltas
    MaxItems = 2
    MaxStock = 3
    MaxPayments = 2
SPECIFICATION PaySpec
CONSTRAINT StateBound
SYMMETRY Symmetry
VIEW PayView
INVARIANTS PayTypeOK NoOverpayment
