------------------------- MODULE LoadAverageProofs -------------------------
(***************************************************************************)
(* The load gates retire a node only on low load and wake one only on high *)
(* load, whatever the number of nodes, the loads, the thresholds and the   *)
(* mode, and however the answers interleave with failures.                 *)
(***************************************************************************)
EXTENDS LoadAverage, LoadStatsProofs

LEMMA ModeType == Mode \in Modes
BY DEF Mode, ParseClusterEvalMode, Modes

LEMMA OverrideType ==
    ASSUME TypeOK
    PROVE  FetchNormalizedLoad \subseteq Loads \cup {NoAnswer}
BY LoadAssumption DEF TypeOK, FetchNormalizedLoad

\* Appending to the samples
LEMMA AppendSample ==
    ASSUME samples \in Seq(Loads), NEW load \in Loads
    PROVE  /\ Append(samples, load) \in Seq(Loads)
           /\ Len(Append(samples, load)) = Len(samples) + 1
OBVIOUS

LEMMA NextCandidateType ==
    ASSUME TypeOK, NextCandidate, UNCHANGED settings
    PROVE  TypeOK'
<1>1. Eligible' = Eligible /\ Eligible \subseteq Nodes
    BY LoadAssumption DEF Eligible, settings
<1>2. CASE Refuse
    BY <1>1, <1>2 DEF TypeOK, Refuse, settings
<1>3. CASE ~Refuse
  <2>1. PICK n \in untried : cand' = n /\ untried' = untried \ {n}
    BY <1>3 DEF NextCandidate
  <2>2. step' = "node" /\ nodeLoad' = NoAnswer /\ todo' = {} /\ samples' = <<>>
    BY <1>3 DEF NextCandidate
  <2>3. samples' \in Seq(Loads)
    BY <2>2
  <2>4. QED
    BY <1>1, <2>1, <2>2, <2>3 DEF TypeOK, settings
<1>4. QED
    BY <1>2, <1>3

\* TypeOK is an invariant of every instance of the gates.
THEOREM GateTypeCorrect == Spec => []TypeOK
<1>1. Init => TypeOK
  <2> SUFFICES ASSUME Init PROVE TypeOK
    OBVIOUS
  <2>1. Eligible \subseteq Nodes /\ LoadsToFetch(NoNode) \subseteq Nodes
    BY LoadAssumption DEF Eligible, LoadsToFetch, AggregateNodes
  <2>2. samples \in Seq(Loads)
    BY DEF Init
  <2>3. QED
    BY <2>1, <2>2 DEF Init, TypeOK
<1>2. TypeOK /\ [Next]_vars => TypeOK'
  <2> SUFFICES ASSUME TypeOK, [Next]_vars PROVE TypeOK'
    OBVIOUS
  <2>1. CASE FetchNodeLoad
    <3>1. PICK load \in FetchNormalizedLoad :
             \/ NextCandidate
             \/ /\ nodeLoad' = load
                /\ todo' = LoadsToFetch(cand)
                /\ step' = "cluster"
                /\ UNCHANGED <<cand, untried, samples>>
      BY <2>1 DEF FetchNodeLoad
    <3>2. UNCHANGED settings /\ Eligible' = Eligible
      BY <2>1 DEF FetchNodeLoad, settings, Eligible
    <3>3. CASE NextCandidate
      BY <3>2, <3>3, NextCandidateType
    <3>4. CASE /\ nodeLoad' = load
               /\ todo' = LoadsToFetch(cand)
               /\ step' = "cluster"
               /\ UNCHANGED <<cand, untried, samples>>
      <4>1. LoadsToFetch(cand) \subseteq Nodes
        BY DEF LoadsToFetch, AggregateNodes
      <4>2. load \in Loads \cup {NoAnswer}
        BY OverrideType
      <4>3. QED
        BY <3>2, <3>4, <4>1, <4>2 DEF TypeOK, settings
    <3>5. QED
      BY <3>1, <3>3, <3>4
  <2>2. CASE FetchClusterLoad
    <3>1. UNCHANGED settings /\ Eligible' = Eligible
      BY <2>2 DEF FetchClusterLoad, settings, Eligible
    <3>2. CASE NextCandidate
      BY <3>1, <3>2, NextCandidateType
    <3>3. CASE ~NextCandidate
      <4>1. PICK n \in todo, load \in Loads : /\ todo' = todo \ {n}
                                              /\ samples' = Append(samples, load)
        BY <2>2, <3>3 DEF FetchClusterLoad, Incomplete
      <4>2. UNCHANGED <<cand, untried, nodeLoad, step>>
        BY <2>2, <3>3 DEF FetchClusterLoad, Incomplete
      <4>3. samples' \in Seq(Loads)
        BY <4>1, AppendSample DEF TypeOK
      <4>4. QED
        BY <3>1, <4>1, <4>2, <4>3 DEF TypeOK, settings
    <3>4. QED
      BY <3>2, <3>3
  <2>3. CASE Evaluate
    <3>1. UNCHANGED settings /\ Eligible' = Eligible
      BY <2>3 DEF Evaluate, settings, Eligible
    <3>2. CASE NextCandidate
      BY <3>1, <3>2, NextCandidateType
    <3>3. CASE Refuse \/ Accept
      BY <3>1, <3>3 DEF TypeOK, Refuse, Accept, settings
    <3>4. QED
      BY <2>3, <3>2, <3>3 DEF Evaluate
  <2>4. CASE UNCHANGED vars
    BY <2>4 DEF TypeOK, vars, settings, Eligible
  <2>5. QED
    BY <2>1, <2>2, <2>3, <2>4 DEF Next
<1>3. QED
    BY <1>1, <1>2, PTL DEF Spec

-----------------------------------------------------------------------------
(* Complete data. *)

\* While the loads of the others are fetched, a node that counts is either still
\* to be asked or has its load among the samples.
NobodyForgotten ==
    step = "cluster" /\ ~Overridden("cluster") =>
        /\ todo \subseteq AggregateNodes(cand)
        /\ Len(samples) + Cardinality(todo) = Cardinality(AggregateNodes(cand))

\* A candidate has passed its own gate before the others are asked, and a scale-up
\* has no candidate.
CandidateChecked ==
    /\ step = "node" => samples = <<>> /\ caller # "scaleUp"
    /\ caller = "scaleUp" => cand = NoNode
    /\ step \in {"cluster", "accepted"} /\ caller # "scaleUp" =>
          nodeLoad < NodeThreshold

\* An accepted verdict follows from all the loads that count.
VerdictSound ==
    step = "accepted" /\ ~Overridden("cluster") =>
        /\ Len(samples) = Cardinality(AggregateNodes(cand))
        /\ samples # <<>>
        /\ AtLeast(EvaluateAggregate(samples, Mode),
                   IF caller = "scaleUp" THEN ScaleUpThreshold ELSE ScaleDownThreshold)
             <=> caller = "scaleUp"

GateInv == NobodyForgotten /\ CandidateChecked /\ VerdictSound

\* NextCandidate starts over or refuses.
LEMMA NextCandidateKeeps ==
    ASSUME TypeOK, GateInv, NextCandidate, UNCHANGED settings
    PROVE  GateInv'
<1>1. CASE Refuse
    BY <1>1 DEF Refuse, settings, GateInv, NobodyForgotten, CandidateChecked,
                VerdictSound
<1>2. CASE ~Refuse
  <2>1. step' = "node" /\ samples' = <<>> /\ caller = "rotate" /\ caller' = caller
    BY <1>2 DEF NextCandidate, settings
  <2>2. QED
    BY <2>1 DEF GateInv, NobodyForgotten, CandidateChecked, VerdictSound
<1>3. QED
    BY <1>1, <1>2

\* Before the first load of the others is there, all of them are to be asked.
LEMMA AllToAsk ==
    ASSUME NEW node, samples = <<>>, ~Overridden("cluster")
    PROVE  /\ LoadsToFetch(node) = AggregateNodes(node)
           /\ Len(samples) + Cardinality(LoadsToFetch(node))
                = Cardinality(AggregateNodes(node))
<1>1. LoadsToFetch(node) = AggregateNodes(node)
    BY DEF LoadsToFetch
<1>2. IsFiniteSet(AggregateNodes(node))
    BY LoadAssumption, FS_Subset DEF AggregateNodes
<1>3. Cardinality(AggregateNodes(node)) \in Nat
    BY <1>2, FS_CardinalityType
<1>4. Len(samples) = 0
    OBVIOUS
<1>5. QED
    BY <1>1, <1>3, <1>4

\* All nodes that count are asked, whoever fails meanwhile, and the verdict is
\* made of all their answers.
THEOREM GatesKeepCount == Spec => []GateInv
<1>1. Init => GateInv
  <2> SUFFICES ASSUME Init PROVE GateInv
    OBVIOUS
  <2>1. samples = <<>> /\ step \in {"node", "cluster"}
    BY DEF Init
  <2>2. NobodyForgotten
    <3> SUFFICES ASSUME step = "cluster", ~Overridden("cluster")
                 PROVE  /\ todo \subseteq AggregateNodes(cand)
                        /\ Len(samples) + Cardinality(todo)
                             = Cardinality(AggregateNodes(cand))
      BY DEF NobodyForgotten
    <3>1. todo = LoadsToFetch(cand)
      BY DEF Init
    <3>2. QED
      BY <2>1, <3>1, AllToAsk
  <2>3. CandidateChecked
    BY DEF Init, CandidateChecked
  <2>4. QED
    BY <2>1, <2>2, <2>3 DEF GateInv, VerdictSound
<1>2. TypeOK /\ GateInv /\ [Next]_vars => GateInv'
  <2> SUFFICES ASSUME TypeOK, GateInv, [Next]_vars PROVE GateInv'
    OBVIOUS
  <2>1. CASE FetchNodeLoad
    <3>1. UNCHANGED settings
      BY <2>1 DEF FetchNodeLoad
    <3>2. CASE NextCandidate
      BY <3>1, <3>2, NextCandidateKeeps
    <3>3. CASE ~NextCandidate
      <4>1. /\ step = "node" /\ step' = "cluster"
            /\ todo' = LoadsToFetch(cand)
            /\ nodeLoad' < NodeThreshold
            /\ cand' = cand /\ samples' = samples
        BY <2>1, <3>3 DEF FetchNodeLoad, NodeGate
      <4>2. samples = <<>> /\ caller # "scaleUp" /\ caller' = caller
        BY <3>1, <4>1 DEF GateInv, CandidateChecked, settings
      <4>3. AggregateNodes(cand)' = AggregateNodes(cand)
            /\ (Overridden("cluster")' <=> Overridden("cluster"))
        BY <3>1, <4>1 DEF AggregateNodes, Overridden, settings
      <4>4. NobodyForgotten'
        BY <4>1, <4>2, <4>3, AllToAsk DEF NobodyForgotten
      <4>5. QED
        BY <4>1, <4>2, <4>4 DEF GateInv, CandidateChecked, VerdictSound
    <3>4. QED
      BY <3>2, <3>3
  <2>2. CASE FetchClusterLoad
    <3>1. UNCHANGED settings
      BY <2>2 DEF FetchClusterLoad
    <3>2. CASE NextCandidate
      BY <3>1, <3>2, NextCandidateKeeps
    <3>3. CASE ~NextCandidate
      <4>1. PICK n \in todo, load \in Loads : /\ todo' = todo \ {n}
                                              /\ samples' = Append(samples, load)
        BY <2>2, <3>3 DEF FetchClusterLoad, Incomplete
      <4>2. step = "cluster" /\ UNCHANGED <<cand, untried, nodeLoad, step>>
        BY <2>2, <3>3 DEF FetchClusterLoad, Incomplete
      <4>3. AggregateNodes(cand)' = AggregateNodes(cand)
            /\ (Overridden("cluster")' <=> Overridden("cluster"))
        BY <3>1, <4>2 DEF AggregateNodes, Overridden, settings
      <4>4. Len(samples') = Len(samples) + 1 /\ Len(samples) \in Nat
        BY <4>1, AppendSample DEF TypeOK
      <4>5. Cardinality(todo') = Cardinality(todo) - 1 /\ Cardinality(todo) \in Nat
        <5>1. IsFiniteSet(todo)
          BY LoadAssumption, FS_Subset DEF TypeOK
        <5>2. QED
          BY <4>1, <5>1, FS_RemoveElement, FS_CardinalityType
      <4>6. NobodyForgotten'
        <5> SUFFICES ASSUME ~Overridden("cluster")
                     PROVE  /\ todo' \subseteq AggregateNodes(cand)
                            /\ Len(samples') + Cardinality(todo')
                                 = Cardinality(AggregateNodes(cand))
          BY <4>3 DEF NobodyForgotten
        <5>1. /\ todo \subseteq AggregateNodes(cand)
              /\ Len(samples) + Cardinality(todo) = Cardinality(AggregateNodes(cand))
          BY <4>2 DEF GateInv, NobodyForgotten
        <5>2. QED
          BY <4>1, <4>4, <4>5, <5>1
      <4>7. QED
        BY <3>1, <4>2, <4>6 DEF GateInv, CandidateChecked, VerdictSound, settings
    <3>4. QED
      BY <3>2, <3>3
  <2>3. CASE Evaluate
    <3>1. UNCHANGED settings /\ step = "cluster" /\ todo = {}
      BY <2>3 DEF Evaluate
    <3>2. CASE NextCandidate
      BY <3>1, <3>2, NextCandidateKeeps
    <3>3. CASE Refuse
      BY <3>1, <3>3 DEF Refuse, settings, GateInv, NobodyForgotten, CandidateChecked,
                        VerdictSound
    <3>4. CASE ~NextCandidate /\ ~Refuse
      <4>1. Accept /\ ~NoData
        BY <2>3, <3>4 DEF Evaluate
      <4>2. AtLeast(ClusterAggregateLoad,
                    IF caller = "scaleUp" THEN ScaleUpThreshold ELSE ScaleDownThreshold)
              <=> caller = "scaleUp"
        BY <2>3, <3>4 DEF Evaluate
      <4>3. /\ step' = "accepted" /\ UNCHANGED <<cand, nodeLoad, samples, caller>>
            /\ AggregateNodes(cand)' = AggregateNodes(cand)
            /\ (Overridden("cluster")' <=> Overridden("cluster"))
            /\ Mode' = Mode
        BY <3>1, <4>1 DEF Accept, settings, AggregateNodes, Overridden, Mode
      <4>4. VerdictSound'
        <5> SUFFICES ASSUME ~Overridden("cluster")
                     PROVE  /\ Len(samples) = Cardinality(AggregateNodes(cand))
                            /\ samples # <<>>
                            /\ AtLeast(EvaluateAggregate(samples, Mode),
                                       IF caller = "scaleUp" THEN ScaleUpThreshold
                                       ELSE ScaleDownThreshold)
                                 <=> caller = "scaleUp"
          BY <4>3 DEF VerdictSound
        <5>1. Len(samples) + Cardinality(todo) = Cardinality(AggregateNodes(cand))
          BY <3>1 DEF GateInv, NobodyForgotten
        <5>2. Cardinality(todo) = 0 /\ Len(samples) \in Nat
          BY <3>1, FS_EmptySet DEF TypeOK
        <5>3. Len(samples) = Cardinality(AggregateNodes(cand))
          BY <5>1, <5>2
        <5>4. ClusterAggregateLoad = EvaluateAggregate(samples, Mode)
          BY DEF ClusterAggregateLoad
        <5>5. QED
          BY <4>1, <4>2, <5>3, <5>4 DEF NoData
      <4>5. QED
        BY <3>1, <4>3, <4>4 DEF GateInv, NobodyForgotten, CandidateChecked
    <3>5. QED
      BY <3>2, <3>3, <3>4
  <2>4. CASE UNCHANGED vars
    BY <2>4 DEF vars, settings, GateInv, NobodyForgotten, CandidateChecked,
                VerdictSound, AggregateNodes, Overridden, Mode
  <2>5. QED
    BY <2>1, <2>2, <2>3, <2>4 DEF Next
<1>3. QED
    BY <1>1, <1>2, GateTypeCorrect, PTL DEF Spec

-----------------------------------------------------------------------------
(* The properties. *)

LEMMA SamplesAreNatural ==
    ASSUME TypeOK
    PROVE  samples \in Seq(Nat)
<1>1. samples \in Seq(Loads) /\ Loads \subseteq Nat
    BY LoadAssumption DEF TypeOK
<1>2. Len(samples) \in Nat /\ samples \in [1 .. Len(samples) -> Loads]
    BY <1>1
<1>3. samples \in [1 .. Len(samples) -> Nat]
    BY <1>1, <1>2
<1>4. QED
    BY <1>2, <1>3

\* A node is retired or rotated out only on complete data that say low load
\* (ShouldScaleDown, PickRotationPoweroffCandidate).
THEOREM RetiresOnLowLoad == Spec => []RetiredOnLowLoad
<1>1. TypeOK /\ GateInv => RetiredOnLowLoad
  <2> SUFFICES ASSUME TypeOK, GateInv, step = "accepted", caller # "scaleUp",
                      ~Overridden("cluster")
               PROVE  /\ nodeLoad < NodeThreshold
                      /\ Len(samples) = Cardinality(AggregateNodes(cand))
                      /\ samples # <<>>
                      /\ Reaching(samples, ScaleDownThreshold) <= MayReach(samples, Mode)
    BY DEF RetiredOnLowLoad, AggregateNodes
  <2>1. /\ nodeLoad < NodeThreshold
        /\ Len(samples) = Cardinality(AggregateNodes(cand))
        /\ samples # <<>>
        /\ ~AtLeast(EvaluateAggregate(samples, Mode), ScaleDownThreshold)
    BY DEF GateInv, CandidateChecked, VerdictSound
  <2>2. samples \in Seq(Nat) /\ Mode \in Modes /\ ScaleDownThreshold \in Nat
    BY SamplesAreNatural, ModeType, LoadAssumption
  <2>3. QED
    BY <2>1, <2>2, LowAggregate
<1>2. QED
    BY <1>1, GateTypeCorrect, GatesKeepCount, PTL

\* A node is woken for load only on complete data that say high load
\* (ShouldScaleUp).
THEOREM WakesOnHighLoad == Spec => []WokenOnHighLoad
<1>1. TypeOK /\ GateInv => WokenOnHighLoad
  <2> SUFFICES ASSUME TypeOK, GateInv, step = "accepted", caller = "scaleUp",
                      ~Overridden("cluster")
               PROVE  /\ Len(samples) = Cardinality(Nodes \ (marked \cup Excluded))
                      /\ Reaching(samples, ScaleUpThreshold) >= MustReach(samples, Mode)
    BY DEF WokenOnHighLoad
  <2>1. /\ Len(samples) = Cardinality(AggregateNodes(NoNode))
        /\ samples # <<>>
        /\ AtLeast(EvaluateAggregate(samples, Mode), ScaleUpThreshold)
    BY DEF GateInv, CandidateChecked, VerdictSound
  <2>2. AggregateNodes(NoNode) = Nodes \ (marked \cup Excluded)
    BY LoadAssumption DEF AggregateNodes
  <2>3. samples \in Seq(Nat) /\ Mode \in Modes /\ ScaleUpThreshold \in Nat
    BY SamplesAreNatural, ModeType, LoadAssumption
  <2>4. QED
    BY <2>1, <2>2, <2>3, HighAggregate
<1>2. QED
    BY <1>1, GateTypeCorrect, GatesKeepCount, PTL

\* The order of the answers makes no difference, and more load never turns a wake
\* into a refusal or a refusal into a retirement (EvaluateAggregate).
THEOREM MonotoneVerdict == Spec => []AggregateIsMonotone
<1>1. TypeOK => AggregateIsMonotone
  <2> SUFFICES ASSUME TypeOK, NEW i \in DOMAIN samples, NEW j \in DOMAIN samples,
                      NEW threshold \in Loads,
                      AtLeast(EvaluateAggregate(samples, Mode), threshold)
               PROVE  /\ AtLeast(EvaluateAggregate(Exchanged(samples, i, j), Mode),
                                 threshold)
                      /\ AtLeast(EvaluateAggregate([samples EXCEPT ![i] = @ + 1], Mode),
                                 threshold)
    BY DEF AggregateIsMonotone
  <2>1. samples \in Seq(Nat) /\ Mode \in Modes /\ threshold \in Nat
    BY SamplesAreNatural, ModeType, LoadAssumption
  <2>2. QED
    BY <2>1, ExchangeReaches, MoreLoadReaches
<1>2. QED
    BY <1>1, GateTypeCorrect, PTL
=============================================================================
