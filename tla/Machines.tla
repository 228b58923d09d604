----------------------------- MODULE Machines ------------------------------
(***************************************************************************)
(* The world around the autoscaler, as the code in src/ drives and         *)
(* observes it: the bare-metal machines, the poweroff daemon and the WOL   *)
(* packet that move them, the Ready condition that the API server shows    *)
(* for each, and the pods the scheduler binds to it.                       *)
(*                                                                         *)
(* The Ready condition lags: a machine that accepted a shutdown is still   *)
(* Ready until its kubelet has been silent for long enough.  The           *)
(* autoscaler only ever sees `ready`, never `power`.                       *)
(***************************************************************************)
EXTENDS Nodeops

CONSTANTS WorkKinds     \* the kinds of pods that get scheduled

ASSUME WorkKindsAssumption == WorkKinds \subseteq {"evictable", "protected"}

VARIABLES
    power,      \* "on", "stopping" (shutdown accepted) or "off"
    ready,      \* nodes whose Ready condition is True
    workload,   \* "idle", or the most protected pod running on the node
    upAge       \* age of the machine's last boot (nobody can read it)

machineVars == <<power, ready, workload, upAge>>

MachinesTypeOK ==
    /\ power \in [Nodes -> {"on", "stopping", "off"}]
    /\ ready \subseteq Nodes
    /\ workload \in [Nodes -> {"idle", "evictable", "protected"}]
    /\ upAge \in [Nodes -> 0 .. BootCooldown]

\* The machine has accepted a shutdown and has not booted since.
Stopped(n) == power[n] # "on"

-----------------------------------------------------------------------------
(* What the autoscaler does to a machine. *)

\* The poweroff daemon answered 200: the host powers off five seconds later.
AcceptShutdown(n) ==
    /\ power[n] # "off"
    /\ power' = [power EXCEPT ![n] = "stopping"]
    /\ UNCHANGED <<ready, workload, upAge>>

\* A machine that is off boots, on a magic packet or by hand.
Boot(n) ==
    /\ power' = [power EXCEPT ![n] = "on"]
    /\ upAge' = [upAge EXCEPT ![n] = 0]
    /\ UNCHANGED <<ready, workload>>

\* A magic packet does nothing to a machine that still runs.
ReceiveMagicPacket(n) == IF power[n] = "off" THEN Boot(n) ELSE UNCHANGED machineVars

\* An eviction the API server grants, and the pod's termination
Evict(n) ==
    /\ workload' = [workload EXCEPT ![n] = "idle"]
    /\ UNCHANGED <<power, ready, upAge>>

-----------------------------------------------------------------------------
(* What machines and cluster do of their own accord. *)

PowerDown(n) ==
    /\ power[n] = "stopping"
    /\ power' = [power EXCEPT ![n] = "off"]
    /\ UNCHANGED <<ready, workload, upAge>>

\* The node controller notices that the kubelet of a stopped machine is silent.
LoseReady(n) ==
    /\ n \in ready
    /\ Stopped(n)
    /\ ready' = ready \ {n}
    /\ UNCHANGED <<power, workload, upAge>>

\* A running kubelet misses its heartbeats.
Flap(n) ==
    /\ n \in ready
    /\ ~Stopped(n)
    /\ ready' = ready \ {n}
    /\ UNCHANGED <<power, workload, upAge>>

BecomeReady(n) ==
    /\ n \notin ready
    /\ power[n] = "on"
    /\ ready' = ready \cup {n}
    /\ UNCHANGED <<power, workload, upAge>>

ManualBoot(n) == power[n] = "off" /\ Boot(n)

\* A pod of kind a is more protected than one of kind b, or than none.
Outranks(a, b) == a # b /\ (b = "idle" \/ a = "protected")

\* The scheduler binds a pod: the node must be Ready and schedulable.
Schedule(n) ==
    /\ n \in ready \ cordoned
    /\ \E kind \in WorkKinds :
         /\ Outranks(kind, workload[n])
         /\ workload' = [workload EXCEPT ![n] = kind]
    /\ UNCHANGED <<power, ready, upAge>>

\* The most protected pods of a running machine end, the others or none stay.
Finish(n) ==
    /\ ~Stopped(n)
    /\ \E left \in WorkKinds \cup {"idle"} :
         /\ Outranks(workload[n], left)
         /\ workload' = [workload EXCEPT ![n] = left]
    /\ UNCHANGED <<power, ready, upAge>>

AgeMachines ==
    /\ upAge' = [n \in Nodes |-> Older(upAge[n], BootCooldown)]
    /\ UNCHANGED <<power, ready, workload>>
=============================================================================
