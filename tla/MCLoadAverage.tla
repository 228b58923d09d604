--------------------------- MODULE MCLoadAverage ---------------------------
(* The load gates on a few nodes; the .cfg files give the constants. *)
EXTENDS LoadAverage

CONSTANTS n1, n2, n3, n4, n5
=============================================================================
