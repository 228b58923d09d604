\* Four nodes that count, any three of them off, one that is excluded; all modes.
SPECIFICATION Spec
CONSTANTS
    n1 = n1
    n2 = n2
    n3 = n3
    n4 = n4
    n5 = n5
    Nodes = {n1, n2, n3, n4, n5}
    MayBeRetired = {n1, n2}
    MayBeOff = {n2, n3, n4}
    Excluded = {n5}
    ClusterEvals = {"average", "median", "p75", "p90", "other"}
    NodeThreshold = 3
    ScaleDownThreshold = 2
    ScaleUpThreshold = 3
    Loads = {0, 1, 2, 3, 4}
    NoAnswer = NoAnswer
    Overrides = {NoAnswer, 1, 3}
    NoNode = NoNode
CHECK_DEADLOCK FALSE
INVARIANTS
    TypeOK
    RetiredOnLowLoad
    WokenOnHighLoad
    AggregateIsMonotone
