--------------------------- MODULE ScalingProofs ---------------------------
(***************************************************************************)
(* What the strategies guarantee to the loop they decide for: capacity for *)
(* the pods, and no wake-up that undoes a retirement.                      *)
(***************************************************************************)
EXTENDS Scaling, ReconcilerProofs, LoadStatsProofs

\* Steps that follow the verdicts are steps of the loop.
LEMMA DecidedSteps ==
    /\ ScalingInit => Init
    /\ [ScalingNext]_scalingVars => [Next]_vars
    /\ [ScalingNext]_scalingVars => UNCHANGED <<demand, load>>
BY DEF ScalingInit, ScalingNext, Decided, scalingVars, vars

\* So what is proved of the loop holds here, too.
LEMMA ScalingIsLoop == ScalingSpec => Spec
BY DecidedSteps, PTL DEF ScalingSpec, Spec

-----------------------------------------------------------------------------
(* Capacity. *)

\* While a node is drained all nodes run, and the others have room for all pods.
CapacityInv ==
    pc \in DrainSteps => Running = Nodes /\ Fits(Nodes \ {cand})

\* A drain begins, or goes on with the same node.
LEMMA DrainBegins ==
    ASSUME [Next]_vars, pc' \in DrainSteps
    PROVE  \/ pc \in DrainSteps /\ cand' = cand
           \/ /\ pc = "scaleDown" /\ pc' = "drain" /\ NoFault
              /\ UNCHANGED <<annotated, power>>
<1> USE DEF DrainSteps, EndLoop, Goto, LeaveTo, Pick, CallPowerOn, loopVars
<1>1. CASE Restart \/ StartLoop \/ RecoverUncordon \/ RecoverPatch \/ RecoverDone
    BY <1>1 DEF Restart, StartLoop, RecoverUncordon, RecoverPatch, RecoverDone
<1>2. CASE ClearCachedOff \/ ForceNext
    BY <1>2 DEF ClearCachedOff, ForceNext
<1>3. CASE MaybeScaleUp \/ AwaitReady \/ LookAgain \/ BootTimeout
    BY <1>3 DEF MaybeScaleUp, AwaitReady, LookAgain, BootTimeout
<1>4. CASE PowerOn \/ Wake
    BY <1>4 DEF PowerOn, Wake, PowerOnFailed, PowerOnSucceeded
<1>5. CASE PersistBootTime \/ UncordonBooted \/ ClearAndMarkBooted
    BY <1>5 DEF PersistBootTime, UncordonBooted, ClearAndMarkBooted, PowerOnFailed,
                PowerOnSucceeded
<1>6. CASE MaybeScaleDown
    BY <1>6 DEF MaybeScaleDown, objectVars, machineVars
<1>7. CASE DrainPrecheck \/ Cordon \/ DrainRound \/ AnnotatePoweredOffNode
    BY <1>7 DEF DrainPrecheck, AfterPrecheck, Cordon, DrainRound,
                AnnotatePoweredOffNode
<1>8. CASE Shutdown \/ UndoAnnotation \/ RestoreScheduling \/ MaybeRotate
    BY <1>8 DEF Shutdown, UndoAnnotation, RestoreScheduling, MaybeRotate
<1>9. CASE Crash
    BY <1>9 DEF Crash
<1>10. CASE Tick \/ UNCHANGED vars
    BY <1>10 DEF Tick, vars
<1>11. CASE \E n \in Nodes : Environment(n)
    BY <1>11 DEF Environment, Settle, controllerVars
<1>12. QED
    BY <1>1, <1>2, <1>3, <1>4, <1>5, <1>6, <1>7, <1>8, <1>9, <1>10, <1>11
    DEF Next, Controller, LoopHead, ScaleUp, ScaleDown

\* A machine stops only at the end of a drain, and it is the node in hand.
LEMMA OneStops ==
    ASSUME TypeOK, [Next]_vars
    PROVE  \/ Running \subseteq Running'
           \/ pc = "shutdown" /\ Running' = Running \ {cand} /\ pc' \notin DrainSteps
<1> USE DEF Running, Stopped, TypeOK, MachinesTypeOK, machineVars
<1>1. CASE LoopHead
    BY <1>1 DEF LoopHead, Restart, StartLoop, RecoverUncordon, RecoverPatch,
                RecoverDone, ClearCachedOff, ForceNext
<1>2. CASE MaybeScaleUp \/ PowerOn \/ AwaitReady \/ LookAgain \/ BootTimeout
    BY <1>2 DEF MaybeScaleUp, PowerOn, AwaitReady, LookAgain, BootTimeout
<1>3. CASE Wake
    BY <1>3 DEF Wake, SendWOLRequest, ReceiveMagicPacket, Boot
<1>4. CASE PersistBootTime \/ UncordonBooted \/ ClearAndMarkBooted
    BY <1>4 DEF PersistBootTime, UncordonBooted, ClearAndMarkBooted
<1>5. CASE MaybeScaleDown \/ DrainPrecheck \/ Cordon \/ AnnotatePoweredOffNode
           \/ UndoAnnotation \/ RestoreScheduling \/ MaybeRotate
    BY <1>5 DEF MaybeScaleDown, DrainPrecheck, Cordon, AnnotatePoweredOffNode,
                UndoAnnotation, RestoreScheduling, MaybeRotate
<1>6. CASE DrainRound
    BY <1>6 DEF DrainRound, Evict
<1>7. CASE Shutdown
  <2>1. pc = "shutdown" /\ pc' \notin DrainSteps
    BY <1>7 DEF Shutdown, EndLoop, Goto, DrainSteps
  <2>2. UNCHANGED machineVars \/ AcceptShutdown(cand)
    BY <1>7 DEF Shutdown, ShutdownAccepted, ShutdownFailed
  <2>3. CASE UNCHANGED machineVars
    BY <2>3
  <2>4. CASE AcceptShutdown(cand)
    <3>1. power' = [power EXCEPT ![cand] = "stopping"]
      BY <2>4 DEF AcceptShutdown
    <3>2. Running' = Running \ {cand}
      BY <3>1
    <3>3. QED
      BY <2>1, <3>2
  <2>5. QED
    BY <2>2, <2>3, <2>4
<1>8. CASE Crash \/ Tick \/ UNCHANGED vars
    BY <1>8 DEF Crash, Tick, AgeMachines, vars
<1>9. CASE \E n \in Nodes : Environment(n)
    BY <1>9 DEF Environment, Settle, PowerDown, LoseReady, BecomeReady, Schedule,
                Finish, Flap, ManualBoot, Boot
<1>10. QED
    BY <1>1, <1>2, <1>3, <1>4, <1>5, <1>6, <1>7, <1>8, <1>9
    DEF Next, Controller, ScaleUp, ScaleDown

\* When scale-down has metrics of all nodes, all of them run: one that has stopped
\* and is listed all the same, because it still looks Ready, keeps the loop from
\* this step.
LEMMA MeteredRun ==
    ASSUME PowerOffInv, pc = "scaleDown", NEW m \in Metered, AllMetered(m)
    PROVE  Running = Nodes
<1>1. m \subseteq ready \cup Running
    BY DEF Metered
<1>2. ASSUME NEW n \in Nodes, Stopped(n) PROVE FALSE
  <2>1. n \in ready
    BY <1>1, <1>2 DEF AllMetered, Running
  <2>2. LoopHeldOff(n)
    BY <1>2, <2>1 DEF PowerOffInv, StaleHeldOff, StaleReady
  <2>3. QED
    BY <2>2 DEF LoopHeldOff, RecoverSteps, PowerOnSteps
<1>3. QED
    BY <1>2 DEF Running

LEMMA CapacityStep ==
    ASSUME PowerOffInv, CapacityInv, [ScalingNext]_scalingVars
    PROVE  CapacityInv'
<1> SUFFICES ASSUME pc' \in DrainSteps
             PROVE  Running' = Nodes /\ Fits(Nodes \ {cand})'
    BY DEF CapacityInv
<1>1. [Next]_vars /\ demand' = demand
    BY DecidedSteps
<1>2. ASSUME NEW nodes PROVE Fits(nodes)' <=> Fits(nodes)
    BY <1>1 DEF Fits
<1>3. CASE pc \in DrainSteps /\ cand' = cand
  <2>1. Running = Nodes /\ Fits(Nodes \ {cand})
    BY <1>3 DEF CapacityInv
  <2>2. Running \subseteq Running'
    BY <1>1, OneStops DEF PowerOffInv
  <2>3. Running' \subseteq Nodes
    BY DEF Running
  <2>4. Fits(Nodes \ {cand})'
    BY <1>3, <2>1, <1>1 DEF Fits
  <2>5. QED
    BY <2>1, <2>2, <2>3, <2>4
<1>4. CASE ~(pc \in DrainSteps /\ cand' = cand)
  <2>1. /\ pc = "scaleDown" /\ pc' = "drain" /\ NoFault
        /\ UNCHANGED <<annotated, power>>
    BY <1>1, <1>4, DrainBegins
  <2>2. Verdicts
    BY <2>1 DEF ScalingNext, Decided, scalingVars, vars
  <2>3. PICK m \in Metered, a \in Answering : ShouldScaleDown(cand', m, a)
    BY <2>1, <2>2 DEF Verdicts, ScaleDownVerdict
  <2>4. AllMetered(m) /\ Fits(Nodes \ {cand'})
    BY <2>3 DEF ShouldScaleDown, ResourceAware
  <2>5. Running = Nodes
    BY <2>1, <2>4, MeteredRun
  <2>6. Running' = Running
    BY <2>1 DEF Running, Stopped
  <2>7. Fits(Nodes \ {cand})'
    BY <1>1, <2>4 DEF Fits
  <2>8. QED
    BY <2>5, <2>6, <2>7
<1>5. QED
    BY <1>3, <1>4

\* A machine is stopped only if the pods of all nodes fit on those that still run
\* then (ResourceAwareScaleDown, against the calls between its check and the
\* shutdown).
THEOREM CapacityIsKept ==
    ASSUME SoundDeployment
    PROVE  ScalingSpec => CapacityKept
<1>1. ScalingInit => CapacityInv
    BY DEF ScalingInit, Init, CapacityInv, DrainSteps
<1>2. PowerOffInv /\ CapacityInv /\ [ScalingNext]_scalingVars => CapacityInv'
    BY CapacityStep
<1>3. PowerOffInv /\ CapacityInv /\ [ScalingNext]_scalingVars
        => [Running \subseteq Running' \/ Fits(Running')]_scalingVars
  <2> SUFFICES ASSUME PowerOffInv, CapacityInv, [ScalingNext]_scalingVars,
                      ~(Running \subseteq Running')
               PROVE  Fits(Running')
    OBVIOUS
  <2>1. pc = "shutdown" /\ Running' = Running \ {cand}
    BY DecidedSteps, OneStops DEF PowerOffInv
  <2>2. Running = Nodes /\ Fits(Nodes \ {cand})
    BY <2>1 DEF CapacityInv, DrainSteps
  <2>3. QED
    BY <2>1, <2>2
<1>4. QED
    BY <1>1, <1>2, <1>3, ScalingIsLoop, PowerOffInvariant, PTL
    DEF ScalingSpec, CapacityKept

-----------------------------------------------------------------------------
(* No flapping. *)

\* The nodes whose load scale-up looks at
Counted == Nodes \ (annotated \cup Excluded)

\* After a retirement, and during a drain with the node in hand left out, the load
\* of the nodes that count is below the threshold of scale-down.
FlapInv ==
    /\ load \in [Nodes -> Nat]
    /\ pc = "shutdown" => cand \in annotated
    /\ LoadAverage =>
          /\ hasRetired => ~ClusterLoadReaches(Counted, ScaleDownThreshold)
          /\ pc \in DrainSteps =>
                ~ClusterLoadReaches(Counted \ {cand}, ScaleDownThreshold)

\* The loads of a set of nodes, in some order
LEMMA SetLoads ==
    ASSUME load \in [Nodes -> Nat], NEW S \in SUBSET Nodes
    PROVE  [i \in DOMAIN SetToSeq(S) |-> load[SetToSeq(S)[i]]] \in Seq(Nat)
<1> DEFINE order == SetToSeq(S)
<1>1. IsFiniteSet(S)
    BY NodesFinite, FS_Subset
<1>2. Cardinality(S) \in Nat /\ ExistsBijection(1 .. Cardinality(S), S)
    BY <1>1, FS_CardinalityType
<1>3. PICK f \in [1 .. Cardinality(S) -> S] :
          \A i, j \in 1 .. Cardinality(S) : f[i] = f[j] => i = j
  <2>1. PICK f : f \in Bijection(1 .. Cardinality(S), S)
    BY <1>2, Zenon DEF ExistsBijection
  <2>2. f \in Injection(1 .. Cardinality(S), S)
    BY <2>1 DEF Bijection
  <2>3. f \in [1 .. Cardinality(S) -> S] /\ IsInjective(f)
    BY <2>2, Zenon DEF Injection
  <2>4. QED
    BY <2>3 DEF IsInjective
<1>4. IsInjective(f)
    BY <1>3 DEF IsInjective
<1>5. order \in [1 .. Cardinality(S) -> S]
    BY <1>4, Zenon DEF SetToSeq
<1> HIDE DEF order
<1>6. DOMAIN order = 1 .. Cardinality(S) /\ \A i \in DOMAIN order : order[i] \in Nodes
    BY <1>5
<1>7. [i \in DOMAIN order |-> load[order[i]]] \in [1 .. Cardinality(S) -> Nat]
    BY <1>6
<1>8. [i \in DOMAIN order |-> load[order[i]]] \in Seq(Nat)
    BY <1>2, <1>7
<1>9. QED
    BY <1>8 DEF order

\* What reaches a threshold reaches a lower one.
LEMMA ReachesLower ==
    ASSUME load \in [Nodes -> Nat], NEW S \in SUBSET Nodes,
           ScaleDownThreshold <= ScaleUpThreshold,
           ClusterLoadReaches(S, ScaleUpThreshold)
    PROVE  ClusterLoadReaches(S, ScaleDownThreshold)
<1> DEFINE loads == [i \in DOMAIN SetToSeq(S) |-> load[SetToSeq(S)[i]]]
           mode == ParseClusterEvalMode(ClusterEval)
<1>1. loads \in Seq(Nat)
    BY SetLoads
<1>2. mode \in Modes
    BY DEF ParseClusterEvalMode, Modes
<1>3. AtLeast(EvaluateAggregate(loads, mode), ScaleUpThreshold)
    BY DEF ClusterLoadReaches
<1>4. ScaleDownThreshold \in Nat /\ ScaleUpThreshold \in Nat
    BY LoadAssumption
<1>5. AtLeast(EvaluateAggregate(loads, mode), ScaleDownThreshold)
  <2> HIDE DEF loads, mode
  <2> QED
    BY <1>1, <1>2, <1>3, <1>4, AtLeastAntitone
<1>6. QED
    BY <1>5 DEF ClusterLoadReaches

\* A node gets its mark only at the end of a drain, and it is the node in hand.
LEMMA OneIsMarked ==
    ASSUME [Next]_vars, annotated \subseteq annotated'
    PROVE  \/ annotated' = annotated
           \/ pc = "annotate" /\ annotated' = annotated \cup {cand}
<1> USE DEF objectVars
<1>1. CASE LoopHead
    BY <1>1 DEF LoopHead, Restart, StartLoop, RecoverUncordon, RecoverPatch,
                RecoverDone, ClearCachedOff, ForceNext, ClearPoweredOffAnnotation
<1>2. CASE ScaleUp
    BY <1>2 DEF ScaleUp, MaybeScaleUp, PowerOn, Wake, AwaitReady, LookAgain,
                BootTimeout, PersistBootTime, UncordonBooted, ClearAndMarkBooted,
                ClearPoweredOffAnnotation
<1>3. CASE ScaleDown
    BY <1>3 DEF ScaleDown, MaybeScaleDown, DrainPrecheck, Cordon, DrainRound,
                AnnotatePoweredOffNode, AnnotatePoweredOff, Shutdown, UndoAnnotation,
                ClearPoweredOffAnnotation, RestoreScheduling, MaybeRotate
<1>4. CASE Crash \/ Tick \/ UNCHANGED vars
    BY <1>4 DEF Crash, Tick, AgeTimestamps, vars
<1>5. CASE \E n \in Nodes : Environment(n)
    BY <1>5 DEF Environment, Settle, controllerVars
<1>6. QED
    BY <1>1, <1>2, <1>3, <1>4, <1>5 DEF Next, Controller

\* No mark is taken away in a drain.
LEMMA DrainKeepsMarks ==
    ASSUME [Next]_vars, pc \in DrainSteps
    PROVE  /\ annotated \subseteq annotated'
           /\ pc = "shutdown" => annotated' = annotated
           /\ pc' = "shutdown" => cand \in annotated' \/ pc = "shutdown"
<1> USE DEF objectVars, DrainSteps
<1>1. CASE LoopHead
    BY <1>1 DEF LoopHead, Restart, StartLoop, RecoverUncordon, RecoverPatch,
                RecoverDone, ClearCachedOff, ForceNext
<1>2. CASE ScaleUp
    BY <1>2 DEF ScaleUp, MaybeScaleUp, PowerOn, Wake, AwaitReady, LookAgain,
                BootTimeout, PersistBootTime, UncordonBooted, ClearAndMarkBooted
<1>3. CASE MaybeScaleDown \/ DrainPrecheck \/ Cordon \/ DrainRound
    BY <1>3 DEF MaybeScaleDown, DrainPrecheck, AfterPrecheck, Cordon, DrainRound,
                Goto, EndLoop, LeaveTo
<1>4. CASE AnnotatePoweredOffNode \/ Shutdown
    BY <1>4 DEF AnnotatePoweredOffNode, AnnotatePoweredOff, Shutdown, Goto, EndLoop
<1>5. CASE UndoAnnotation \/ RestoreScheduling \/ MaybeRotate
    BY <1>5 DEF UndoAnnotation, RestoreScheduling, MaybeRotate
<1>6. CASE Crash \/ Tick \/ UNCHANGED vars
    BY <1>6 DEF Crash, Tick, AgeTimestamps, vars
<1>7. CASE \E n \in Nodes : Environment(n)
    BY <1>7 DEF Environment, Settle, controllerVars
<1>8. QED
    BY <1>1, <1>2, <1>3, <1>4, <1>5, <1>6, <1>7 DEF Next, Controller, ScaleDown

\* Only MaybeScaleUp leads from scaleUp to powerOn, and no fault does.
LEMMA ScaleUpBegins ==
    ASSUME Next, pc = "scaleUp", pc' = "powerOn"
    PROVE  NoFault
<1>1. CASE LoopHead
    BY <1>1 DEF LoopHead, Restart, StartLoop, RecoverUncordon, RecoverPatch,
                RecoverDone, ClearCachedOff, ForceNext
<1>2. CASE ScaleUp
    BY <1>2 DEF ScaleUp, MaybeScaleUp, Goto, PowerOn, Wake, AwaitReady, LookAgain,
                BootTimeout, PersistBootTime, UncordonBooted, ClearAndMarkBooted
<1>3. CASE ScaleDown
    BY <1>3 DEF ScaleDown, MaybeScaleDown, DrainPrecheck, Cordon, DrainRound,
                AnnotatePoweredOffNode, Shutdown, UndoAnnotation, RestoreScheduling,
                MaybeRotate
<1>4. CASE Crash \/ Tick
    BY <1>4 DEF Crash, Tick
<1>5. CASE \E n \in Nodes : Environment(n)
    BY <1>5 DEF Environment, Settle, controllerVars
<1>6. QED
    BY <1>1, <1>2, <1>3, <1>4, <1>5 DEF Next, Controller

LEMMA FlapStep ==
    ASSUME FlapInv, [ScalingNext]_scalingVars
    PROVE  FlapInv'
<1>1. [Next]_vars /\ load' = load
    BY DecidedSteps
<1>2. load' \in [Nodes -> Nat]
    BY <1>1 DEF FlapInv
<1>3. pc' = "shutdown" => cand' \in annotated'
  <2> SUFFICES ASSUME pc' = "shutdown" PROVE cand' \in annotated'
    OBVIOUS
  <2>1. pc \in DrainSteps /\ cand' = cand
    BY <1>1, DrainBegins DEF DrainSteps
  <2>2. QED
    BY <1>1, <2>1, DrainKeepsMarks DEF FlapInv
<1>4. ASSUME LoadAverage, hasRetired'
      PROVE  ~ClusterLoadReaches(Counted, ScaleDownThreshold)'
  <2>1. CASE hasRetired /\ annotated' = annotated
    BY <1>1, <1>4, <2>1 DEF FlapInv, ClusterLoadReaches, Counted
  <2>2. CASE hasRetired /\ pc = "annotate" /\ annotated' = annotated \cup {cand}
    <3>1. ~ClusterLoadReaches(Counted \ {cand}, ScaleDownThreshold)
      BY <1>4, <2>2 DEF FlapInv, DrainSteps
    <3>2. Counted' = Counted \ {cand}
      BY <2>2 DEF Counted
    <3>3. QED
      BY <1>1, <3>1, <3>2 DEF ClusterLoadReaches
  <2>3. CASE pc = "shutdown" /\ Running' # Running
    <3>1. ~ClusterLoadReaches(Counted \ {cand}, ScaleDownThreshold)
      BY <1>4, <2>3 DEF FlapInv, DrainSteps
    <3>2. annotated' = annotated /\ cand \in annotated
      BY <1>1, <2>3, DrainKeepsMarks DEF FlapInv, DrainSteps
    <3>3. Counted' = Counted \ {cand}
      BY <3>2 DEF Counted
    <3>4. QED
      BY <1>1, <3>1, <3>3 DEF ClusterLoadReaches
  <2>4. \/ pc = "shutdown" /\ Running' # Running
        \/ hasRetired /\ annotated \subseteq annotated'
    BY <1>4 DEF ScalingNext, Decided, scalingVars, vars, objectVars
  <2>5. QED
    BY <1>1, <2>1, <2>2, <2>3, <2>4, OneIsMarked
<1>5. ASSUME LoadAverage, pc' \in DrainSteps
      PROVE  ~ClusterLoadReaches(Counted \ {cand}, ScaleDownThreshold)'
  <2>1. CASE pc \in DrainSteps /\ cand' = cand
    <3>1. ~ClusterLoadReaches(Counted \ {cand}, ScaleDownThreshold)
      BY <1>5, <2>1 DEF FlapInv
    <3>2. annotated' = annotated \/ annotated' = annotated \cup {cand}
      BY <1>1, <2>1, DrainKeepsMarks, OneIsMarked
    <3>3. Counted' \ {cand'} = Counted \ {cand}
      BY <2>1, <3>2 DEF Counted
    <3>4. QED
      BY <1>1, <3>1, <3>3 DEF ClusterLoadReaches
  <2>2. CASE ~(pc \in DrainSteps /\ cand' = cand)
    <3>1. /\ pc = "scaleDown" /\ pc' = "drain" /\ NoFault
          /\ UNCHANGED <<annotated, power>>
      BY <1>1, <1>5, <2>2, DrainBegins
    <3>2. Verdicts
      BY <3>1 DEF ScalingNext, Decided, scalingVars, vars
    <3>3. PICK m \in Metered, a \in Answering : ShouldScaleDown(cand', m, a)
      BY <3>1, <3>2 DEF Verdicts, ScaleDownVerdict
    <3>4. ~ClusterLoadReaches(AggregateNodes(cand'), ScaleDownThreshold)
      BY <1>5, <3>3 DEF ShouldScaleDown, LowLoad
    <3>5. Counted' \ {cand'} = AggregateNodes(cand')
      BY <3>1 DEF Counted, AggregateNodes
    <3>6. QED
      BY <1>1, <3>4, <3>5 DEF ClusterLoadReaches
  <2>3. QED
    BY <2>1, <2>2
<1>6. QED
    BY <1>2, <1>3, <1>4, <1>5 DEF FlapInv

\* A wake-up for high load never undoes a retirement for low load, if scale-up
\* asks for no less load than scale-down forbids (LoadAverageScaleDown and
\* LoadAverageScaleUp over GetEligibleClusterLoads).
THEOREM NeverFlaps ==
    ASSUME ScaleDownThreshold <= ScaleUpThreshold
    PROVE  ScalingSpec => NoFlapping
<1>1. ScalingInit => FlapInv
    BY LoadAssumption DEF ScalingInit, Init, FlapInv, DrainSteps
<1>2. FlapInv /\ [ScalingNext]_scalingVars => FlapInv'
    BY FlapStep
<1>3. FlapInv /\ [ScalingNext]_scalingVars
        => [pc = "scaleUp" /\ pc' = "powerOn" /\ hasRetired => BelowMinNodes]_scalingVars
  <2> SUFFICES ASSUME FlapInv, [ScalingNext]_scalingVars,
                      pc = "scaleUp", pc' = "powerOn", hasRetired
               PROVE  BelowMinNodes
    OBVIOUS
  <2>1. Verdicts /\ Next
    BY DEF ScalingNext, Decided, scalingVars, vars
  <2>2. NoFault
    BY <2>1, ScaleUpBegins
  <2>3. PICK a \in Answering : ShouldScaleUp(a)
    BY <2>1, <2>2 DEF Verdicts, ScaleUpVerdict
  <2>4. CASE HighLoad(a)
    <3>1. AggregateNodes(NoNode) = Counted /\ Counted \in SUBSET Nodes
      BY NoNodeAssumption DEF AggregateNodes, Counted
    <3>2. LoadAverage /\ ClusterLoadReaches(Counted, ScaleUpThreshold)
      BY <2>4, <3>1 DEF HighLoad
    <3>3. ClusterLoadReaches(Counted, ScaleDownThreshold)
      BY <3>1, <3>2, ReachesLower DEF FlapInv
    <3>4. QED
      BY <3>2, <3>3 DEF FlapInv
  <2>5. QED
    BY <2>3, <2>4 DEF ShouldScaleUp
<1>4. QED
    BY <1>1, <1>2, <1>3, PTL DEF ScalingSpec, NoFlapping
=============================================================================
