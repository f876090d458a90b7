---------------------------- MODULE MC_Inventory ----------------------------
(***************************************************************************)
(* Instantiates Inventory for TLC.  Ids grow without bound in the spec;    *)
(* StateBound cuts the exploration (items ever added, and stock reachable *)
(* by repeated restores), not the behaviour.  No order is ever added:     *)
(* orders.Service.Create never commits.                                    *)
(***************************************************************************)
EXTENDS Inventory

CONSTANTS MaxItems, MaxStock

StateBound ==
    /\ Cardinality(DOMAIN item) <= MaxItems
    /\ \A p \in Products : stock[p] <= MaxStock

\* A stock adjustment of one unit either way (a .cfg cannot write -1).
StockDeltas == {-1, 1}

\* The state without the ghosts `supplied` and `wrote` and the answers
\* `resp`, which no guard reads: runs that check none of the properties
\* about them need not tell states apart by them.
NoGhostView == <<stock, pdeleted, created, order, item, pc, req>>

\* Products are interchangeable within those that exist initially and
\* within those not created yet.
Symmetry == Permutations(Clients) \cup Permutations(InitProducts)
                \cup Permutations(Products \ InitProducts)
=============================================================================
