\* One client at a time, one live order with one item to start from, no
\* order deletion: the order flows keep stock conserved and implement the
\* atomic OrderLedger.  No symmetry, as the run checks a temporal property.
CONSTANTS
    Products = {p1, p2}
    InitProducts = {p1}
    Clients = {c1}
    Qty = {1, 2}
    Prices = {1}
    StockValues = {0, 1}
    InitStock = 2
    MaxLines = 2
    StockCheck = TRUE
    Ops = {"CreateProduct", "Create", "AddItem", "UpdateItem", "DeleteItem", "UpdateOrder", "UpdateProduct", "DeleteProduct", "AdjustStock"}
    InitOrders = 1
    InitItems = 1
    Deltas <- StockDeltas
    MaxItems = 2
    MaxStock = 3
SPECIFICATION Spec
CONSTRAINT StateBound
INVARIANTS Conservation
PROPERTIES OrderLedgerSpec
