---------------------------- MODULE MCCommandBus ----------------------------
(* Small instances of CommandBus.                                             *)
EXTENDS CommandBusRefinement

CONSTANTS k1, k2, k3, t1, t2, t3, t4

Symmetry == Permutations(Callers) \cup Permutations(Tickets)
=============================================================================
