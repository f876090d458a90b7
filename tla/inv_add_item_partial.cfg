\* Two concurrent AddOrderItem requests on one order, with the schema's
\* CHECK (stock >= 0): both pass the stock check, both insert, and the
\* second decrement is rejected after its item was inserted.
CONSTANTS
    Products = {p1}
    InitProducts = {p1}
    Clients = {c1, c2}
    Qty = {2}
    Prices = {1}
    StockValues = {1}
    InitStock = 2
    MaxLines = 1
    StockCheck = TRUE
    Ops = {"AddItem"}
    InitOrders = 1
    InitItems = 0
    Deltas <- StockDeltas
    MaxItems = 2
    MaxStock = 3
SPECIFICATION Spec
CONSTRAINT StateBound
SYMMETRY Symmetry
INVARIANT ErrorLeavesNoTrace
