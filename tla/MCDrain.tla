------------------------------ MODULE MCDrain ------------------------------
(* The drain of a node with a few pods; the .cfg files give the constants. *)
EXTENDS Drain

CONSTANTS agent, db, web, job

MCKindOf == [x \in Names |->
    CASE x = agent -> "daemon" [] x = job -> "pinned" [] OTHER -> "service"]
=============================================================================
