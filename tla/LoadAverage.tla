---------------------------- MODULE LoadAverage ----------------------------
(***************************************************************************)
(* The load gates, call by call: LoadAverageScaleDown and                  *)
(* LoadAverageScaleUp (src/pkg/strategy) and PickRotationPoweroffCandidate *)
(* (src/pkg/controller/reconciler.go).  Each fetches the load of one node  *)
(* after the other from its metrics pod; loads change and pods fail to     *)
(* answer meanwhile, so that every answer is a free choice.  The options   *)
(* --dry-run-node-load and --dry-run-cluster-load-down/-up put a value in  *)
(* the place of the answers.                                               *)
(***************************************************************************)
EXTENDS LoadStats

CONSTANTS
    Nodes,              \* the Node objects of the cluster
    MayBeOff,           \* nodes that may have the annotation was-powered-off
    MayBeRetired,       \* nodes that are eligible for scale-down while on
    Excluded,           \* nodes that aggregate load leaves out, by their labels
    ClusterEvals,       \* values of loadAverageStrategy.clusterEval
    NodeThreshold,      \* loadAverageStrategy.nodeThreshold
    ScaleDownThreshold, \* loadAverageStrategy.scaleDownThreshold
    ScaleUpThreshold,   \* loadAverageStrategy.scaleUpThreshold
    Loads,              \* the normalized loads a metrics pod reports
    Overrides,          \* values of the dry-run overrides, NoAnswer if not set
    NoAnswer,           \* no pod, no answer, not 200, or no CPUs
    NoNode

ASSUME LoadAssumption ==
    /\ IsFiniteSet(Nodes)
    /\ MayBeOff \subseteq Nodes
    /\ MayBeRetired \subseteq Nodes
    /\ Loads \subseteq Nat
    /\ {NodeThreshold, ScaleDownThreshold, ScaleUpThreshold} \subseteq Nat
    /\ NoAnswer \notin Loads
    /\ Overrides \subseteq Loads \cup {NoAnswer}
    /\ NoNode \notin Nodes

VARIABLES
    clusterEval, \* the configured mode
    override,   \* the overrides: of the candidate's load, of the aggregate
    marked,     \* nodes with the annotation was-powered-off
    caller,     \* "scaleDown", "scaleUp" or "rotate"
    cand,       \* the node that may be retired
    untried,    \* rotation: eligible nodes it has not tried
    nodeLoad,   \* the load of cand
    todo,       \* nodes whose load is still to be fetched
    samples,    \* the loads fetched so far
    step        \* "node", "cluster", "accepted" or "refused"

settings == <<clusterEval, override, marked, caller>>
vars == <<settings, cand, untried, nodeLoad, todo, samples, step>>

Mode == ParseClusterEvalMode(clusterEval)
Eligible == MayBeRetired \ marked
Overridden(what) == override[what] # NoAnswer

TypeOK ==
    /\ clusterEval \in ClusterEvals
    /\ override \in [{"node", "cluster"} -> Overrides]
    /\ marked \subseteq MayBeOff
    /\ caller \in {"scaleDown", "scaleUp", "rotate"}
    /\ cand \in Nodes \cup {NoNode}
    /\ untried \subseteq Eligible
    /\ nodeLoad \in Loads \cup {NoAnswer}
    /\ todo \subseteq Nodes
    /\ samples \in Seq(Loads)
    /\ step \in {"node", "cluster", "accepted", "refused"}

-----------------------------------------------------------------------------

\* GetEligibleClusterLoads: the nodes whose loads make the aggregate.
WithCandidate(exclude) == Nodes \ (marked \cup Excluded)
AggregateNodes(exclude) == Nodes \ (marked \cup Excluded \cup {exclude})

LoadsToFetch(exclude) ==
    IF Overridden("cluster") THEN {} ELSE AggregateNodes(exclude)

Refuse == step' = "refused" /\ UNCHANGED <<cand, untried, nodeLoad, todo, samples>>
Accept == step' = "accepted" /\ UNCHANGED <<cand, untried, nodeLoad, todo, samples>>

\* The candidate fails: rotation tries the next one, if there is one.
NextCandidate ==
    \/ /\ caller # "rotate" \/ untried = {}
       /\ Refuse
    \/ /\ caller = "rotate"
       /\ \E n \in untried : cand' = n /\ untried' = untried \ {n}
       /\ step' = "node"
       /\ nodeLoad' = NoAnswer
       /\ todo' = {}
       /\ samples' = <<>>

\* Without an override, the metrics pod of the node is asked.
FetchNormalizedLoad ==
    IF Overridden("node") THEN {override["node"]} ELSE Loads \cup {NoAnswer}

NodeGate(load) == load # NoAnswer /\ load < NodeThreshold

FetchNodeLoad ==
    /\ step = "node"
    /\ \E load \in FetchNormalizedLoad :
         \/ ~NodeGate(load) /\ NextCandidate
         \/ /\ NodeGate(load)
            /\ nodeLoad' = load
            /\ todo' = LoadsToFetch(cand)
            /\ step' = "cluster"
            /\ UNCHANGED <<cand, untried, samples>>
    /\ UNCHANGED settings

\* FetchClusterLoads: one load that cannot be fetched fails them all.
IncompleteCounted ==
    /\ UNCHANGED <<cand, untried, nodeLoad, step>>
    /\ \E n \in todo : todo' = todo \ {n}
    /\ samples' = Append(samples, NoAnswer)
IncompleteSkipped ==
    /\ UNCHANGED <<cand, untried, nodeLoad, samples, step>>
    /\ \E n \in todo : todo' = todo \ {n}
Incomplete == NextCandidate

FetchClusterLoad ==
    /\ step = "cluster"
    /\ todo # {}
    /\ \/ Incomplete
       \/ /\ \E n \in todo, load \in Loads : /\ todo' = todo \ {n}
                                             /\ samples' = Append(samples, load)
          /\ UNCHANGED <<cand, untried, nodeLoad, step>>
    /\ UNCHANGED settings

EmptyCountsAsIdle == FALSE
NoData == samples = <<>> /\ ~Overridden("cluster")

ClusterAggregateLoad ==
    IF Overridden("cluster") THEN [num |-> override["cluster"], den |-> 1]
    ELSE EvaluateAggregate(samples, Mode)

\* The verdict on the aggregate.  Rotation gives up when it is too high.
Evaluate ==
    /\ step = "cluster"
    /\ todo = {}
    /\ \/ NoData /\ NextCandidate
       \/ /\ ~NoData
          /\ caller # "scaleUp"
          /\ IF AtLeast(ClusterAggregateLoad, ScaleDownThreshold)
             THEN Refuse ELSE Accept
       \/ /\ ~NoData
          /\ caller = "scaleUp"
          /\ IF AtLeast(ClusterAggregateLoad, ScaleUpThreshold)
             THEN Accept ELSE Refuse
    /\ UNCHANGED settings

-----------------------------------------------------------------------------

\* ShouldScaleUp has found a node that is off, by its annotation or in the
\* tracker; ShouldScaleDown and rotation have a candidate.
Init ==
    /\ clusterEval \in ClusterEvals
    /\ override \in [{"node", "cluster"} -> Overrides]
    /\ marked \in SUBSET MayBeOff
    /\ nodeLoad = NoAnswer
    /\ samples = <<>>
    /\ \/ /\ caller \in {"scaleDown", "rotate"}
          /\ cand \in Eligible
          /\ untried = IF caller = "rotate" THEN Eligible \ {cand} ELSE {}
          /\ todo = {}
          /\ step = "node"
       \/ /\ caller = "scaleUp"
          /\ cand = NoNode
          /\ untried = {}
          /\ todo = LoadsToFetch(NoNode)
          /\ step = "cluster"

Next == FetchNodeLoad \/ FetchClusterLoad \/ Evaluate

Spec == Init /\ [][Next]_vars

-----------------------------------------------------------------------------
(* Properties. *)

\* A node is retired, or rotated out, only on complete data: its own load is
\* below the node threshold, and of all other nodes that count, each of which
\* answered, no more reach the scale-down threshold than the percentile leaves
\* above it; never because nobody answered (ShouldScaleDown and
\* PickRotationPoweroffCandidate, without an override of the aggregate).
RetiredOnLowLoad ==
    step = "accepted" /\ caller # "scaleUp" /\ ~Overridden("cluster") =>
        /\ nodeLoad < NodeThreshold
        /\ Len(samples) = Cardinality(Nodes \ (marked \cup Excluded \cup {cand}))
        /\ samples # <<>>
        /\ Reaching(samples, ScaleDownThreshold) <= MayReach(samples, Mode)

\* A node is woken for load only if so many of the nodes that run reach the
\* scale-up threshold as the percentile asks for (ShouldScaleUp).
WokenOnHighLoad ==
    step = "accepted" /\ caller = "scaleUp" /\ ~Overridden("cluster") =>
        /\ Len(samples) = Cardinality(Nodes \ (marked \cup Excluded))
        /\ Reaching(samples, ScaleUpThreshold) >= MustReach(samples, Mode)

\* The order in which the nodes answer makes no difference to the verdict (no two
\* answers, exchanged, change it, so by exchanges no order does), and a node that
\* answers with more load never turns a refusal into a retirement
\* or a wake-up into a refusal (EvaluateAggregate).
AggregateIsMonotone ==
    step \in {"accepted", "refused"} /\ todo = {} =>
        \A i, j \in DOMAIN samples, threshold \in Loads :
            AtLeast(EvaluateAggregate(samples, Mode), threshold) =>
                /\ AtLeast(EvaluateAggregate(Exchanged(samples, i, j), Mode), threshold)
                /\ AtLeast(EvaluateAggregate([samples EXCEPT ![i] = @ + 1], Mode),
                           threshold)
=============================================================================
