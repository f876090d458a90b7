---------------------------- MODULE MC_Reviews ------------------------------
(***************************************************************************)
(* Instantiates Reviews for TLC: a bound on the resena rows ever inserted. *)
(***************************************************************************)
EXTENDS Reviews

CONSTANT MaxReviews

StateBound == Cardinality(DOMAIN review) <= MaxReviews

\* The state without the answers `rresp`, which no guard reads.
ReviewView == <<review, rpc, rreq>>

Symmetry == Permutations(RClients) \cup Permutations(Customers)
                \cup Permutations(Items)
=============================================================================
