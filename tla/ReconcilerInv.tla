--------------------------- MODULE ReconcilerInv ---------------------------
(***************************************************************************)
(* Inductive invariants of the control loop: why the properties of         *)
(* Reconciler hold.  MCReconciler checks them, ReconcilerProofs proves     *)
(* them.                                                                   *)
(***************************************************************************)
EXTENDS Reconciler

\* The loop has a node in hand at the steps that are about one.
InHand ==
    /\ HasCandidate => cand \in Nodes
    /\ pc \in PowerOnSteps => caller \in Callers

-----------------------------------------------------------------------------
(* A stopped machine that still looks Ready. *)

StaleReady(n) == Stopped(n) /\ n \in ready

\* Only for so long ...
StaleInTime == \A n \in Nodes : StaleReady(n) => offAge[n] < StopLatency

\* ... and in that time the loop cannot reach a step that acts on it: the
\* process is down, and has not been for longer; or the global cooldown, no
\* older than the shutdown, ends each loop early; or force mode only looks at
\* other nodes.
LoopHeldOff(n) ==
    \/ pc = "down" /\ downAge <= offAge[n]
    \/ /\ lastOpAge <= offAge[n]
       /\ \/ pc = "idle"
          \/ pc \in RecoverSteps \cup {"clearCached"} /\ cooling
          \/ pc = "force" /\ n \notin todo
          \/ /\ pc \in PowerOnSteps
             /\ caller = "force"
             /\ n \notin todo
             /\ n # cand

StaleHeldOff == \A n \in Nodes : StaleReady(n) => LoopHeldOff(n)

\* A stopped node in recovery's list is still within its grace period.
RecoverInTime ==
    pc \in RecoverSteps =>
        \A n \in todo : Stopped(n) => offAge[n] < StopLatency

-----------------------------------------------------------------------------
(* What the loop knows of the node in hand. *)

\* Steps that unmark or uncordon the node, or that lead to its shutdown, are
\* about a running machine.
CandidateRuns ==
    pc \in {"recoverPatch", "patchBooted", "uncordon", "clearAnnotation"}
           \cup RetireSteps
        => ~Stopped(cand)

DrainProgress ==
    /\ pc \in {"evict", "annotate", "shutdown"} => cand \in cordoned
    /\ pc \in {"annotate", "shutdown"} => workload[cand] = "idle"
    /\ pc = "shutdown" => cand \in annotated /\ offAge[cand] < StopLatency

\* Why OffIsRecorded and NoWorkLost are invariants of a sound deployment: this
\* conjunction is inductive.
PowerOffInv ==
    /\ TypeOK
    /\ InHand
    /\ OffIsRecorded
    /\ NoWorkLost
    /\ StaleInTime
    /\ StaleHeldOff
    /\ RecoverInTime
    /\ CandidateRuns
    /\ DrainProgress

-----------------------------------------------------------------------------
(* Boot times and the floor. *)

\* A node that is not marked off, or is about to be unmarked, carries a boot
\* time no older than its last boot.
BootTimeRecorded ==
    \A n \in Nodes :
        \/ n \notin annotated
        \/ /\ n = cand
           /\ pc \in {"shutdown", "undo", "uncordon", "clearAnnotation"}
        => bootedAge[n] <= upAge[n]

BootInv == PowerOffInv /\ BootTimeRecorded /\ FreshBootProtected

\* While a node is being retired, MinNodes others are in service.
FloorInv ==
    pc \in RetireSteps => Cardinality(InService \ {cand}) >= MinNodes
=============================================================================
