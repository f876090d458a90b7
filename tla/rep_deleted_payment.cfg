\* A payment deleted through the payment service: the pending report still counts it as paid.
CONSTANTS
    Products = {p1}
    InitProducts = {p1}
    Clients = {c1}
    MethodClients = {}
    Names = {n1}
    MethodOps = {}
    MethodFK = TRUE
    MaxMethods = 1
    PayClients = {q1}
    Qty = {1, 2}
    Prices = {1}
    Amounts = {1, 2}
    PayOps = {"Create", "Delete"}
    StockValues = {1}
    InitStock = 2
    MaxLines = 1
    StockCheck = TRUE
    Ops = {"UpdateItem"}
    InitOrders = 1
    InitItems = 1
    Deltas <- StockDeltas
    MaxItems = 1
    MaxStock = 3
    MaxPayments = 2
SPECIFICATION PaySpec
CONSTRAINT StateBound
SYMMETRY Symmetry
VIEW PayView
INVARIANT PendingReportMatchesStatus
