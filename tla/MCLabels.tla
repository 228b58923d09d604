------------------------------ MODULE MCLabels -----------------------------
(* The label rules on a few keys and values. *)
EXTENDS Labels
=============================================================================
