----------------------------- MODULE MC_Users -------------------------------
(***************************************************************************)
(* Instantiates Users for TLC: a bound on the usuario rows ever inserted.  *)
(***************************************************************************)
EXTENDS Users

CONSTANT MaxUsers

StateBound == Cardinality(DOMAIN user) <= MaxUsers

Symmetry == Permutations(UClients) \cup Permutations(Emails)
                \cup Permutations(Passwords)
=============================================================================
