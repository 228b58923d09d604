----------------------------- MODULE LoadStats -----------------------------
(***************************************************************************)
(* The aggregates over normalized node loads                               *)
(* (src/pkg/strategy/load_average_utils.go).  Loads are integers, in some  *)
(* unit; an aggregate is a fraction, so that nothing is rounded.           *)
(***************************************************************************)
EXTENDS Integers, Sequences, FiniteSets, TLC, SequencesExt

Modes == {"average", "median", "p75", "p90"}

\* The percentile of a mode, in percent
Percent == [mode \in Modes \ {"average"} |->
    CASE mode = "median" -> 50 [] mode = "p75" -> 75 [] mode = "p90" -> 90]

\* The sum of the first i values, for each i
Totals(values) ==
    LET sum[i \in 0 .. Len(values)] ==
            IF i = 0 THEN 0 ELSE sum[i - 1] + values[i]
    IN  sum

Average(values) ==
    IF values = <<>> THEN [num |-> 0, den |-> 1]
    ELSE [num |-> Totals(values)[Len(values)], den |-> Len(values)]

InOrderOfArrival(values) == values

\* Sorted: at each place the value that fewer values are below, and no fewer are
\* at or below, than the place says
AtOrBelow(values, v) == {i \in DOMAIN values : values[i] <= v}
Below(values, v) == {i \in DOMAIN values : values[i] < v}
Ascending(values) ==
    [k \in DOMAIN values |->
        CHOOSE v \in Range(values) : /\ Cardinality(Below(values, v)) < k
                                    /\ k <= Cardinality(AtOrBelow(values, v))]

\* Linear interpolation between the two loads next to position p * (n - 1) of
\* the sorted loads, counted from 0
Percentile(values, p) ==
    LET sorted == Ascending(values)
        pos    == p * (Len(sorted) - 1)
        lower  == pos \div 100
        weight == pos % 100
    IN  IF values = <<>> THEN [num |-> 0, den |-> 1]
        ELSE IF lower + 1 >= Len(sorted)
        THEN [num |-> sorted[lower + 1], den |-> 1]
        ELSE [num |-> sorted[lower + 1] * (100 - weight)
                        + sorted[lower + 2] * weight,
              den |-> 100]

\* An unknown mode means the average.
ParseClusterEvalMode(mode) == IF mode \in Modes THEN mode ELSE "average"

EvaluateAggregate(loads, mode) ==
    IF mode = "average" THEN Average(loads) ELSE Percentile(loads, Percent[mode])

AtLeast(aggregate, threshold) == aggregate.num >= threshold * aggregate.den

-----------------------------------------------------------------------------
(* What the aggregates mean, by counting. *)

\* The loads with two answers exchanged; exchanges lead to any order.
Exchanged(loads, i, j) == [loads EXCEPT ![i] = loads[j], ![j] = loads[i]]

\* How many of the loads reach the threshold
Reaching(loads, threshold) ==
    Cardinality({i \in DOMAIN loads : loads[i] >= threshold})

\* At most this many loads may reach a threshold the aggregate does not reach.
\* The average says nothing about how many.
MayReach(loads, mode) ==
    IF mode = "average" THEN Len(loads) - 1
    ELSE Len(loads) - 1 - (Percent[mode] * (Len(loads) - 1)) \div 100

\* At least this many loads reach a threshold that the aggregate reaches.
MustReach(loads, mode) ==
    IF mode = "average" THEN 1
    ELSE Len(loads) - (Percent[mode] * (Len(loads) - 1) + 99) \div 100
=============================================================================
