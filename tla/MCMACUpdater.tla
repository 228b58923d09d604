---------------------------- MODULE MCMACUpdater ---------------------------
(* The MAC updater beside the loop, on a few nodes. *)
EXTENDS MACUpdater

CONSTANTS n1, n2, n3
=============================================================================
