----------------------------- MODULE Lifecycle -----------------------------
(***************************************************************************)
(* The control loop keeps the promises of NodeLifecycle: the phase of a    *)
(* node is read off its Node object and its machine.                       *)
(***************************************************************************)
EXTENDS ReconcilerInv

PhaseOf(n) ==
    CASE Stopped(n)                                     -> "off"
      [] ~Stopped(n) /\ n \in annotated /\ n \in cordoned -> "parked"
      [] ~Stopped(n) /\ n \in annotated \ cordoned       -> "returning"
      [] ~Stopped(n) /\ n \in cordoned \ annotated       -> "leaving"
      [] OTHER                                          -> "serving"

Phase == [n \in ManagedNodes |-> PhaseOf(n)]

Busy == {n \in ManagedNodes : workload[n] # "idle"}

Promise == INSTANCE NodeLifecycle
           WITH Fleet <- ManagedNodes, phase <- Phase, busy <- Busy

\* The node that is picked for retirement is not marked until it is drained, so
\* that its cordon takes it out of service and its mark parks it.
RetireeUnmarked ==
    pc \in {"drain", "cordon", "evict", "annotate"} => cand \notin annotated

\* Every behaviour of the control loop, its faults and restarts included, is one
\* of NodeLifecycle: no step of Reconcile, of a recovery, of a power-on or of an
\* aborted drain moves a node between phases in a way that is not listed there,
\* takes it out of service below MinNodes, or parks it with pods on it.
KeepsPromise == Promise!Spec
=============================================================================
