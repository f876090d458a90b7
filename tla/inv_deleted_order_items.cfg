\* One client, one live order with one item: after the order is deleted its
\* item can still be updated or deleted, and is still counted.
CONSTANTS
    Products = {p1}
    InitProducts = {p1}
    Clients = {c1}
    Qty = {1, 2}
    Prices = {1}
    StockValues = {1}
    InitStock = 2
    MaxLines = 1
    StockCheck = TRUE
    Ops = {"UpdateItem", "DeleteItem", "DeleteOrder"}
    InitOrders = 1
    InitItems = 1
    Deltas <- StockDeltas
    MaxItems = 1
    MaxStock = 3
SPECIFICATION Spec
CONSTRAINT StateBound
SYMMETRY Symmetry
INVARIANT Conservation
