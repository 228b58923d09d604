--------------------------- MODULE MCReconciler ----------------------------
(* The control loop on small clusters; the .cfg files give the constants. *)
EXTENDS Lifecycle, TLC

CONSTANTS n1, n2, n3

Perms2 == Permutations({n1, n2})
Perms3 == Permutations({n1, n2, n3})
=============================================================================
