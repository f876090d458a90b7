\* Two concurrent creates of a review for one (client, product).
CONSTANTS
    RClients = {r1, r2}
    Customers = {u1, u2}
    Items = {i1}
    Ratings = {1, 2}
    ReviewOps = {"Create"}
    MaxReviews = 3
SPECIFICATION ReviewSpec
CONSTRAINT StateBound
SYMMETRY Symmetry
VIEW ReviewView
INVARIANT OneReviewPerPair
