------------------------------ MODULE Scaling ------------------------------
(***************************************************************************)
(* The control loop with the strategies that decide for it                 *)
(* (src/pkg/strategy): ResourceAwareScaleDown and LoadAverageScaleDown in  *)
(* a chain, MinNodeCountScaleUp or LoadAverageScaleUp, and the load gates  *)
(* of rotation.  Reconciler leaves their verdicts open; here they follow   *)
(* from the demand of the pods, the loads of the nodes and the metrics     *)
(* that arrive.  Demand and loads stay what they are in a behaviour.       *)
(*                                                                         *)
(* A verdict is one step here: LoadAverage has the calls it is made of.    *)
(* Definitions whose names begin with Skip or With are variants with a     *)
(* mistake, as in Nodeops.                                                 *)
(***************************************************************************)
EXTENDS Reconciler, LoadStats

CONSTANTS
    Resources,          \* "cpu" and "mem"
    Capacity,           \* Capacity[n][r]: what node n can allocate
    BufferPerc,         \* resourceBufferCPUPerc and resourceBufferMemoryPerc
    Demands,            \* possible demands of all pods
    LoadProfiles,       \* possible loads of the nodes while they run
    Excluded,           \* nodes that aggregate load leaves out, by their labels
    ClusterEval,        \* loadAverageStrategy.clusterEval
    NodeThreshold,      \* loadAverageStrategy.nodeThreshold
    ScaleDownThreshold, \* loadAverageStrategy.scaleDownThreshold
    ScaleUpThreshold,   \* loadAverageStrategy.scaleUpThreshold
    MetricsFail         \* whether the metrics of a running node may be missing

ASSUME ResourceAssumption ==
    /\ Capacity \in [Nodes -> [Resources -> Nat]]
    /\ BufferPerc \in [Resources -> 0 .. 100]
    /\ Demands \subseteq [requests : [Resources -> Nat], usage : [Resources -> Nat]]

ASSUME LoadAssumption ==
    /\ LoadProfiles \subseteq [Nodes -> Nat]
    /\ Excluded \subseteq Nodes
    /\ {NodeThreshold, ScaleDownThreshold, ScaleUpThreshold} \subseteq Nat
    /\ MetricsFail \in BOOLEAN

VARIABLES
    demand,     \* requests of all pods, and usage of all nodes, per resource
    load,       \* the normalized load of each node while it runs
    hasRetired  \* a node was shut down, and none unmarked since (nobody reads it)

scalingVars == <<vars, demand, load, hasRetired>>

Running == {n \in Nodes : ~Stopped(n)}

-----------------------------------------------------------------------------
(* What the strategies read. *)

\* The metrics API lists running nodes, and for a while one that has stopped.
Metered ==
    IF MetricsFail THEN SUBSET (ready \cup Running) ELSE {Running}

\* The metrics pods that answer with a load
Answering ==
    IF MetricsFail THEN SUBSET {n \in Nodes : power[n] # "off"} ELSE {Running}

TotalCapacity(nodes, r) ==
    SumFunctionOnSet([n \in Nodes |-> Capacity[n][r]], nodes)

Margin(nodes, r) == (TotalCapacity(nodes, r) * BufferPerc[r]) \div 100

\* Requests, and usage of the candidate and of the others, fit on the nodes.
Fits(nodes) ==
    \A r \in Resources :
        /\ demand.requests[r] + Margin(nodes, r) <= TotalCapacity(nodes, r)
        /\ demand.usage[r] + Margin(nodes, r) <= TotalCapacity(nodes, r)

\* A node without metrics, even one that is off, forbids scale-down.
SkipUnmetered(metered) == TRUE
AllMetered(metered) == Nodes \subseteq metered

ResourceAware(n, metered) == AllMetered(metered) /\ Fits(Nodes \ {n})

-----------------------------------------------------------------------------
(* The load gates. *)

WithOffNodes(exclude) == Nodes \ (Excluded \cup {exclude})
WithCandidate(exclude) == Nodes \ (annotated \cup Excluded)
AggregateNodes(exclude) == Nodes \ (annotated \cup Excluded \cup {exclude})

LoadData(nodes, answering) == nodes # {} /\ nodes \subseteq answering

ClusterLoadReaches(nodes, threshold) ==
    LET order == SetToSeq(nodes)
        loads == [i \in DOMAIN order |-> load[order[i]]]
    IN  AtLeast(EvaluateAggregate(loads, ParseClusterEvalMode(ClusterEval)),
                threshold)

\* The gates a candidate for retirement has to pass: its own load ...
NodeGate(n, answering) == n \in answering /\ load[n] < NodeThreshold

\* ... and that of the others
LowLoad(n, answering) ==
    /\ NodeGate(n, answering)
    /\ LoadData(AggregateNodes(n), answering)
    /\ ~ClusterLoadReaches(AggregateNodes(n), ScaleDownThreshold)

HighLoad(answering) ==
    /\ LoadAverage
    /\ LoadData(AggregateNodes(NoNode), answering)
    /\ ClusterLoadReaches(AggregateNodes(NoNode), ScaleUpThreshold)

\* MultiStrategy: all have to agree.
ShouldScaleDown(n, metered, answering) ==
    /\ ResourceAware(n, metered)
    /\ LoadAverage => LowLoad(n, answering)

\* MultiUpStrategy: one is enough.
ShouldScaleUp(answering) == BelowMinNodes \/ HighLoad(answering)

-----------------------------------------------------------------------------
(* The verdicts that a step of the loop may follow. *)

ScaleUpVerdict ==
    pc = "scaleUp" /\ NoFault =>
        /\ pc' = "powerOn" => \E a \in Answering : ShouldScaleUp(a)
        /\ pc' = "scaleDown" =>
              ShutdownNodes = {} \/ \E a \in Answering : ~ShouldScaleUp(a)

ScaleDownVerdict ==
    pc = "scaleDown" /\ NoFault =>
        /\ pc' = "drain" =>
              \E m \in Metered, a \in Answering : ShouldScaleDown(cand', m, a)
        /\ pc' = "rotate" =>
              \/ ScaleDownCandidates = {}
              \/ \E n \in ScaleDownCandidates, m \in Metered, a \in Answering :
                    ~ShouldScaleDown(n, m, a)

\* PickRotationPoweroffCandidate finds a node to retire later, the first in
\* the list that passes the gates ...
GatesOpen(answering) ==
    \E n \in EligibleNodes : LoadAverage => LowLoad(n, answering)

\* ... or none, or gives up at one that passes its own gate while the load of
\* the others is too high.
GatesClosed(answering) ==
    \/ EligibleNodes = {}
    \/ /\ LoadAverage
       /\ \/ \A n \in EligibleNodes : ~LowLoad(n, answering)
          \/ \E n \in EligibleNodes :
                /\ NodeGate(n, answering)
                /\ LoadData(AggregateNodes(n), answering)
                /\ ClusterLoadReaches(AggregateNodes(n), ScaleDownThreshold)

RotationVerdict ==
    pc = "rotate" /\ NoFault =>
        /\ pc' = "powerOn" => \E a \in Answering : GatesOpen(a)
        /\ pc' = "idle" =>
              \/ ~Rotation \/ Overdue = {} \/ ~RotationSafe
              \/ \E a \in Answering : GatesClosed(a)

Verdicts == ScaleUpVerdict /\ ScaleDownVerdict /\ RotationVerdict

-----------------------------------------------------------------------------

ScalingInit ==
    /\ Init
    /\ demand \in Demands
    /\ load \in LoadProfiles
    /\ hasRetired = FALSE

\* A step of the loop or around it, as the strategies allow it
Decided(A) ==
    /\ A
    /\ Verdicts
    /\ hasRetired' = \/ pc = "shutdown" /\ Running' # Running
                     \/ hasRetired /\ annotated \subseteq annotated'
    /\ UNCHANGED <<demand, load>>

ScalingNext == Decided(Next)

ScalingSpec == ScalingInit /\ [][ScalingNext]_scalingVars

\* The fairness of FairSpec
ScalingFairSpec ==
    /\ ScalingSpec
    /\ WF_scalingVars(Decided(Controller))
    /\ SF_scalingVars(Decided(BootTimeout))
    /\ WF_scalingVars(Decided(Tick))
    /\ \A n \in Nodes : WF_scalingVars(Decided(Settle(n)))

-----------------------------------------------------------------------------
(* Properties. *)

\* A machine is stopped only if requests and usage of all pods, with the
\* configured margin, fit on the machines that still run then: the check of
\* ResourceAwareScaleDown, made before the drain on a list of all Node objects,
\* is still true when the shutdown is accepted, and never counts a node that
\* is off.
CapacityKept == [][Running \subseteq Running' \/ Fits(Running')]_scalingVars

\* As long as no load changes and no other node comes back, the retirement of a
\* node for low load is not the reason to wake one for high load, whatever fails
\* or crashes in between: the gate of scale-down, before the drain, has looked at
\* the nodes that the gate of scale-up looks at after it.
NoFlapping ==
    [][pc = "scaleUp" /\ pc' = "powerOn" /\ hasRetired => BelowMinNodes]_scalingVars

\* When the load stays high on all nodes, every managed node is in the end
\* running, unmarked and schedulable, and stays so.
SustainedLoadWakesAll ==
    (\A n \in Nodes : load[n] >= ScaleUpThreshold)
        => <>[](ManagedNodes \subseteq Running \ (annotated \cup cordoned))
=============================================================================
