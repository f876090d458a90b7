---------------------------- MODULE MC_Reports -----------------------------
(***************************************************************************)
(* Instantiates Reports (and with it Payments and Inventory) for TLC.      *)
(* StateBound cuts the exploration at a number of items, payments and      *)
(* payment methods ever created and a stock ceiling.                       *)
(***************************************************************************)
EXTENDS Reports

CONSTANTS MaxItems, MaxStock, MaxPayments, MaxMethods

StateBound ==
    /\ Cardinality(DOMAIN item) <= MaxItems
    /\ Cardinality(DOMAIN payment) <= MaxPayments
    /\ Cardinality(DOMAIN method) <= MaxMethods
    /\ \A p \in Products : stock[p] <= MaxStock

\* A stock adjustment of one unit either way (a .cfg cannot write -1).
StockDeltas == {-1, 1}

\* The state without the answers `resp` and `presp` and the ghost `wrote`,
\* which no guard reads and no property of these runs mentions.
PayView == <<db, pc, req, payment, method, ppc, preq>>

Symmetry == Permutations(Clients) \cup Permutations(PayClients)
                \cup Permutations(MethodClients) \cup Permutations(Names)
=============================================================================
