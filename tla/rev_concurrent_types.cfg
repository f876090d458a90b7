\* Three concurrent review requests, every operation: every row keeps a rating within the CHECK.
CONSTANTS
    RClients = {r1, r2, r3}
    Customers = {u1, u2}
    Items = {i1}
    Ratings = {1, 2}
    ReviewOps = {"Create", "Update", "Delete"}
    MaxReviews = 3
SPECIFICATION ReviewSpec
CONSTRAINT StateBound
SYMMETRY Symmetry
VIEW ReviewView
INVARIANT ReviewTypeOK
