\* Two concurrent clients calling every operation on one live order with
\* one item, and server restarts that abandon requests in flight: every row
\* and every request keeps the shape the code gives it.
CONSTANTS
    Products = {p1}
    InitProducts = {p1}
    Clients = {c1, c2}
    Qty = {1, 2}
    Prices = {1}
    StockValues = {1}
    InitStock = 2
    MaxLines = 1
    StockCheck = TRUE
    Ops = {"Create", "AddItem", "UpdateItem", "DeleteItem", "DeleteOrder", "UpdateOrder", "UpdateProduct", "DeleteProduct", "AdjustStock", "Restart"}
    InitOrders = 1
    InitItems = 1
    Deltas <- StockDeltas
    MaxItems = 2
    MaxStock = 3
SPECIFICATION Spec
CONSTRAINT StateBound
SYMMETRY Symmetry
VIEW NoGhostView
INVARIANT TypeOK
