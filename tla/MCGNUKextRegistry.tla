-------------------------- MODULE MCGNUKextRegistry --------------------------
(* Bounds for TLC: the root and three entries, two names; the entries other *)
(* than the root are interchangeable.  A behaviour is followed until the    *)
(* client breaks a rule: from then on nothing is claimed of it.             *)
EXTENDS GNUKextRegistry, TLC

Bound == careful
Symmetry == Permutations(Entries \ {Root}) \cup Permutations(Names)
=============================================================================
