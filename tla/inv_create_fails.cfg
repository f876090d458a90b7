\* One client sending order Creates whose lines have enough stock: the
\* transaction of CreateWithItems is rolled back and no order is stored.
CONSTANTS
    Products = {p1}
    InitProducts = {p1}
    Clients = {c1}
    Qty = {1}
    Prices = {1}
    StockValues = {1}
    InitStock = 2
    MaxLines = 1
    StockCheck = TRUE
    Ops = {"Create"}
    InitOrders = 0
    InitItems = 0
    Deltas <- StockDeltas
    MaxItems = 1
    MaxStock = 3
SPECIFICATION Spec
CONSTRAINT StateBound
PROPERTY CreatePersistsOrder
