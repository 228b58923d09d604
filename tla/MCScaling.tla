----------------------------- MODULE MCScaling -----------------------------
(* The loop with its strategies on three nodes. *)
EXTENDS Scaling

CONSTANTS n1, n2, n3

\* Each node has 10 units of each resource; a fifth is kept free.
SameCapacity == [n \in Nodes |-> [r \in Resources |-> 10]]
Buffers == [r \in Resources |-> 20]

\* Demands for one node, for two (by its requests, or by its usage of a single
\* resource), and for three
OneNode == [requests |-> [r \in Resources |-> 8], usage |-> [r \in Resources |-> 3]]
TwoNodes == [requests |-> [r \in Resources |-> 16], usage |-> [r \in Resources |-> 3]]
TwoByUsage == [requests |-> [r \in Resources |-> 3],
               usage |-> [r \in Resources |-> IF r = "mem" THEN 9 ELSE 3]]
ThreeNodes == [requests |-> [r \in Resources |-> 17], usage |-> [r \in Resources |-> 3]]
AllDemands == {OneNode, TwoNodes, TwoByUsage, ThreeNodes}
SmallDemands == {OneNode}

LowLoads == {[n \in Nodes |-> 0]}
LowOrHigh == {[n \in Nodes |-> l] : l \in {0, 9}}

\* Nodes are alike in all else, so that one order of the loads is enough.
AllLoads == {l \in [Nodes -> {0, 5, 9}] : l[n1] <= l[n2] /\ l[n2] <= l[n3]}

\* Ascending, which is defined by counting, sorts.
ASSUME AscendingSorts ==
    \A n \in 0 .. 5 : \A values \in [1 .. n -> 0 .. 3] :
        Ascending(values) = SortSeq(values, <)
=============================================================================
