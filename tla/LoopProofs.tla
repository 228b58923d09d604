----------------------------- MODULE LoopProofs ----------------------------
(***************************************************************************)
(* Proofs about what the control loop does from one step, or one loop, to  *)
(* the next: no node is stranded, operations are spaced, a dry run changes *)
(* nothing, and in a sound deployment the loop implements NodeLifecycle.   *)
(***************************************************************************)
EXTENDS ReconcilerProofs, Lifecycle

-----------------------------------------------------------------------------
(* Stranded nodes. *)

\* A node that is cordoned and not marked is the one in hand, on its way to
\* the mark or back; a node is uncordoned before it is unmarked.
StrandInv ==
    /\ \A n \in cordoned :
         \/ n \in annotated
         \/ n = cand /\ pc \in {"evict", "annotate", "restore"}
    /\ pc \in {"recoverPatch", "clearAnnotation"} => cand \notin cordoned

\* Each step without a failing call keeps it so.
LEMMA StrandStep ==
    ASSUME Faults \cap {"api", "crash"} = {}, StrandInv, [Next]_vars
    PROVE  StrandInv'
<1> USE DEF StrandInv, Fault, EndLoop, Goto, LeaveTo, Pick, CallPowerOn,
        PowerOnFailed, PowerOnSucceeded, loopVars, objectVars
<1>1. CASE Restart \/ StartLoop \/ RecoverDone
    BY <1>1 DEF Restart, StartLoop, RecoverDone
<1>2. CASE RecoverUncordon
    BY <1>2 DEF RecoverUncordon, UncordonNode
<1>3. CASE RecoverPatch
    BY <1>3 DEF RecoverPatch, ClearPoweredOffAnnotation
<1>4. CASE ClearCachedOff \/ ForceNext
    BY <1>4 DEF ClearCachedOff, ForceNext
<1>5. CASE MaybeScaleUp \/ MaybeScaleDown \/ MaybeRotate
    BY <1>5 DEF MaybeScaleUp, MaybeScaleDown, MaybeRotate
<1>6. CASE PowerOn
    BY <1>6 DEF PowerOn
<1>7. CASE Wake \/ AwaitReady \/ LookAgain \/ BootTimeout
    BY <1>7 DEF Wake, AwaitReady, LookAgain, BootTimeout
<1>8. CASE PersistBootTime
    BY <1>8 DEF PersistBootTime
<1>9. CASE UncordonBooted
    BY <1>9 DEF UncordonBooted, UncordonNode
<1>10. CASE ClearAndMarkBooted
    BY <1>10 DEF ClearAndMarkBooted, ClearPoweredOffAnnotation
<1>11. CASE DrainPrecheck
    BY <1>11 DEF DrainPrecheck, AfterPrecheck
<1>12. CASE Cordon
    BY <1>12 DEF Cordon, SetUnschedulable
<1>13. CASE DrainRound
    BY <1>13 DEF DrainRound
<1>14. CASE AnnotatePoweredOffNode
    BY <1>14 DEF AnnotatePoweredOffNode, AnnotatePoweredOff
<1>15. CASE Shutdown
    BY <1>15 DEF Shutdown
<1>16. CASE UndoAnnotation
    BY <1>16 DEF UndoAnnotation, ClearPoweredOffAnnotation
<1>17. CASE RestoreScheduling
    BY <1>17 DEF RestoreScheduling, UncordonNode
<1>18. CASE Crash
    BY <1>18 DEF Crash
<1>19. CASE Tick
    BY <1>19 DEF Tick, AgeTimestamps
<1>20. CASE \E n \in Nodes : Environment(n)
    BY <1>20 DEF Environment, Settle, controllerVars
<1>21. CASE UNCHANGED vars
    BY <1>21 DEF vars
<1>22. QED
    BY <1>1, <1>2, <1>3, <1>4, <1>5, <1>6, <1>7, <1>8, <1>9, <1>10, <1>11, <1>12,
       <1>13, <1>14, <1>15, <1>16, <1>17, <1>18, <1>19, <1>20, <1>21
    DEF Next, Controller, LoopHead, ScaleUp, ScaleDown

\* If no call to the API server fails and the process does not die, a node that
\* is cordoned between two loops is marked as powered off: an aborted drain
\* restores it (restoreScheduling), and so does a failed shutdown.
THEOREM NothingIsStranded ==
    ASSUME Faults \cap {"api", "crash"} = {}
    PROVE  Spec => []NoStrandedCordon
<1>1. Init => StrandInv
    BY DEF Init, StrandInv
<1>2. StrandInv /\ [Next]_vars => StrandInv'
    BY StrandStep
<1>3. StrandInv => NoStrandedCordon
    BY DEF StrandInv, NoStrandedCordon
<1>4. QED
    BY <1>1, <1>2, <1>3, PTL DEF Spec

-----------------------------------------------------------------------------
(* Spacing. *)

\* A machine that was told to stop less than a cooldown ago
JustStopped(n) == Stopped(n) /\ offAge[n] < Cooldown

\* The global cooldown is no older than the last shutdown, so a loop that finds
\* it over, or has got beyond it, has no such machine to mind but the one it
\* stops itself.
PaceInv ==
    /\ \A n \in Nodes : JustStopped(n) => lastOpAge <= offAge[n]
    /\ pc \in RecoverSteps \cup {"clearCached"} =>
         \A n \in Nodes : JustStopped(n) => cooling
    /\ \/ pc \in {"scaleUp", "scaleDown", "rotate"}
       \/ pc \in PowerOnSteps /\ caller # "force"
       => \A n \in Nodes : ~JustStopped(n)
    /\ pc \in RetireSteps => \A n \in Nodes \ {cand} : ~JustStopped(n)

\* What the loop does; a step that changes a mark is about a running machine.
LEMMA PaceController ==
    ASSUME SoundDeployment, Cooldown <= OffCap, PowerOffInv, PaceInv, TypeOK',
           Controller
    PROVE  PaceInv'
<1> USE ManagedAreNodes, Thresholds, LimitsAssumption
    DEF SoundDeployment, PowerOffInv, PaceInv, JustStopped, CandidateRuns, Stopped,
        InHand, HasCandidate, Fault,
        TypeOK, NodeopsTypeOK, MachinesTypeOK, EndLoop, Goto, LeaveTo, Pick,
        CallPowerOn, PowerOnFailed, PowerOnSucceeded,
        objectVars, trackerVars, machineVars, loopVars, processVars,
        RecoverSteps, PowerOnSteps, RetireSteps, DrainSteps, AbortSteps, Callers
<1>1. CASE Restart
    BY <1>1 DEF Restart
<1>2. CASE StartLoop
  <2>1. \A n \in Nodes : JustStopped(n) => IsGlobalCooldownActive
    BY DEF IsGlobalCooldownActive
  <2>2. cooling' = IsGlobalCooldownActive
    BY <1>2, Zenon DEF StartLoop
  <2>3. \A n \in Nodes : JustStopped(n) => cooling'
    BY <2>1, <2>2, Zenon
  <2>4. QED
    BY <1>2, <2>3 DEF StartLoop
<1>3. CASE RecoverUncordon \/ RecoverDone
    BY <1>3 DEF RecoverUncordon, RecoverDone
<1>4. CASE RecoverPatch
    BY <1>4 DEF RecoverPatch, ClearPoweredOffAnnotation
<1>5. CASE ClearCachedOff
    BY <1>5 DEF ClearCachedOff
<1>6. CASE ForceNext
    BY <1>6 DEF ForceNext
<1>7. CASE MaybeScaleUp
    BY <1>7 DEF MaybeScaleUp
<1>8. CASE PowerOn
    BY <1>8 DEF PowerOn
<1>9. CASE Wake
    BY <1>9 DEF Wake, SendWOLRequest, ReceiveMagicPacket, Boot
<1>10. CASE AwaitReady \/ LookAgain \/ BootTimeout
    BY <1>10 DEF AwaitReady, LookAgain, BootTimeout
<1>11. CASE PersistBootTime \/ UncordonBooted
    BY <1>11 DEF PersistBootTime, UncordonBooted
<1>12. CASE ClearAndMarkBooted
    BY <1>12 DEF ClearAndMarkBooted, ClearPoweredOffAnnotation, MarkStarted
<1>13. CASE MaybeScaleDown
    BY <1>13 DEF MaybeScaleDown
<1>14. CASE DrainPrecheck \/ Cordon
    BY <1>14 DEF DrainPrecheck, AfterPrecheck, Cordon
<1>15. CASE DrainRound
    BY <1>15 DEF DrainRound, Evict
<1>16. CASE AnnotatePoweredOffNode
    BY <1>16 DEF AnnotatePoweredOffNode, AnnotatePoweredOff
<1>17. CASE Shutdown
    BY <1>17 DEF Shutdown, ShutdownAccepted, ShutdownFailed, AcceptShutdown,
                 MarkStopped
<1>18. CASE UndoAnnotation
    BY <1>18 DEF UndoAnnotation, ClearPoweredOffAnnotation
<1>19. CASE RestoreScheduling
    BY <1>19 DEF RestoreScheduling
<1>20. CASE MaybeRotate
    BY <1>20 DEF MaybeRotate
<1>21. QED
    BY <1>1, <1>2, <1>3, <1>4, <1>5, <1>6, <1>7, <1>8, <1>9, <1>10, <1>11, <1>12,
       <1>13, <1>14, <1>15, <1>16, <1>17, <1>18, <1>19, <1>20
    DEF Controller, LoopHead, ScaleUp, ScaleDown

\* Both ages grow together, and machines stop only when they are told to.
LEMMA PaceStep ==
    ASSUME SoundDeployment, Cooldown <= OffCap, "crash" \notin Faults,
           PowerOffInv, PaceInv, [Next]_vars
    PROVE  PaceInv'
<1>1. TypeOK'
    BY TypeStep DEF PowerOffInv
<1>2. CASE Controller
    BY <1>1, <1>2, PaceController
<1>3. CASE Crash
    BY <1>3 DEF Crash, Fault
<1>4. CASE Tick
    BY <1>4, Thresholds
    DEF Tick, AgeTimestamps, AgeMachines, Older, PaceInv, JustStopped, Stopped,
        PowerOffInv, TypeOK, NodeopsTypeOK, MachinesTypeOK, loopVars
<1>5. CASE \E n \in Nodes : Environment(n)
    BY <1>5
    DEF Environment, Settle, PowerDown, LoseReady, BecomeReady, Schedule, Finish,
        Flap, ManualBoot, Boot, controllerVars, objectVars, trackerVars, loopVars,
        PaceInv, JustStopped, Stopped, PowerOffInv, TypeOK, NodeopsTypeOK,
        MachinesTypeOK
<1>6. CASE UNCHANGED vars
    BY <1>6
    DEF vars, objectVars, trackerVars, machineVars, loopVars, PaceInv, JustStopped,
        Stopped
<1>7. QED
    BY <1>2, <1>3, <1>4, <1>5, <1>6 DEF Next

\* In a sound deployment whose process does not die, nothing but force mode
\* powers on or retires another node within the global cooldown of a shutdown
\* (MarkGlobalShutdown, IsGlobalCooldownActive).
THEOREM ShutdownsAreSpaced ==
    ASSUME SoundDeployment, Cooldown <= OffCap, "crash" \notin Faults
    PROVE  Spec => []StopsAreSpaced
<1>1. Init => PaceInv
    BY Thresholds
    DEF Init, PaceInv, JustStopped, Stopped, RecoverSteps, PowerOnSteps,
        RetireSteps, DrainSteps, AbortSteps
<1>2. PowerOffInv /\ PaceInv /\ [Next]_vars => PaceInv'
    BY PaceStep
<1>3. PowerOffInv /\ PaceInv => StopsAreSpaced
    BY Thresholds
    DEF PowerOffInv, PaceInv, StopsAreSpaced, JustStopped, TypeOK, NodeopsTypeOK
<1>4. QED
    BY <1>1, <1>2, <1>3, PowerOffInvariant, PTL DEF Spec

-----------------------------------------------------------------------------
(* Dry runs. *)

\* A dry run never gets beyond the calls that read, and no machine is on its
\* way down.
DryInv ==
    /\ pc \in {"down", "idle", "recover", "clearCached", "force", "scaleUp",
               "powerOn", "scaleDown", "drain", "rotate"}
    /\ todo = {} \/ pc # "recover"
    /\ \A n \in Nodes : power[n] # "stopping"

\* From such a state no step writes to a Node object or reaches a machine.
LEMMA DryStep ==
    ASSUME DryRun, "boot" \notin Faults, TypeOK, InHand, DryInv, [Next]_vars
    PROVE  DryInv' /\ UNCHANGED <<cordoned, annotated, power>>
                   /\ \A n \in Nodes : bootedAge'[n] >= bootedAge[n]
<1> USE Thresholds
    DEF DryInv, TypeOK, NodeopsTypeOK, MachinesTypeOK, InHand, HasCandidate,
        EndLoop, Goto, LeaveTo, Pick, CallPowerOn, PowerOnFailed,
        PowerOnSucceeded, objectVars, trackerVars, machineVars, loopVars,
        PowerOnSteps, Callers
<1>1. CASE LoopHead
    BY <1>1
    DEF LoopHead, Restart, StartLoop, RecoverUncordon, RecoverPatch, RecoverDone,
        ClearCachedOff, ForceNext
<1>2. CASE ScaleUp
    BY <1>2
    DEF ScaleUp, MaybeScaleUp, PowerOn, Wake, AwaitReady, LookAgain, BootTimeout,
        PersistBootTime, UncordonBooted, ClearAndMarkBooted
<1>3. CASE ScaleDown
    BY <1>3
    DEF ScaleDown, MaybeScaleDown, DrainPrecheck, AfterPrecheck, Cordon, DrainRound,
        AnnotatePoweredOffNode, Shutdown, UndoAnnotation, RestoreScheduling,
        MaybeRotate
<1>4. CASE Crash
    BY <1>4 DEF Crash
<1>5. CASE Tick
    BY <1>5 DEF Tick, AgeTimestamps, AgeMachines, Older
<1>6. CASE \E n \in Nodes : Environment(n)
    BY <1>6
    DEF Environment, Settle, PowerDown, LoseReady, BecomeReady, Schedule, Finish,
        Flap, Fault, controllerVars
<1>7. CASE UNCHANGED vars
    BY <1>7 DEF vars
<1>8. QED
    BY <1>1, <1>2, <1>3, <1>4, <1>5, <1>6, <1>7 DEF Next, Controller

\* A dry run of a cluster of any size writes to no Node object, and stops and
\* boots no machine, whichever calls fail.
THEOREM DryRunsAreReadOnly ==
    ASSUME DryRun, "boot" \notin Faults
    PROVE  Spec => DryRunIsReadOnly
<1>1. Init => DryInv
    BY DEF Init, DryInv
<1>2. TypeOK /\ InHand /\ DryInv /\ [Next]_vars
        => DryInv' /\ [UNCHANGED <<cordoned, annotated, power>> /\
                      \A n \in Nodes : bootedAge'[n] >= bootedAge[n]]_vars
    BY DryStep
<1>3. QED
    BY <1>1, <1>2, TypeCorrect, PTL DEF Spec, DryRunIsReadOnly

-----------------------------------------------------------------------------
(* The life cycle of a node. *)

\* The phase of a node, spelled out
LEMMA PhaseCases ==
    ASSUME NEW n
    PROVE  /\ PhaseOf(n) = "off" <=> Stopped(n)
           /\ PhaseOf(n) = "serving"
                <=> ~Stopped(n) /\ n \notin annotated /\ n \notin cordoned
           /\ PhaseOf(n) = "leaving"
                <=> ~Stopped(n) /\ n \notin annotated /\ n \in cordoned
           /\ PhaseOf(n) = "parked"
                <=> ~Stopped(n) /\ n \in annotated /\ n \in cordoned
           /\ PhaseOf(n) = "returning"
                <=> ~Stopped(n) /\ n \in annotated /\ n \notin cordoned
BY DEF PhaseOf

\* A step that leaves the marks, the cordons, the power and the work of every
\* node alone is a stutter of the promise.
LEMMA QuietStep ==
    ASSUME cordoned' = cordoned, annotated' = annotated, workload' = workload,
           \A n \in Nodes : Stopped(n)' <=> Stopped(n)
    PROVE  UNCHANGED <<Phase, Busy>>
<1>1. \A n \in ManagedNodes : PhaseOf(n)' = PhaseOf(n)
    BY ManagedAreNodes DEF PhaseOf
<1>2. QED
    BY <1>1 DEF Phase, Busy

\* A step about one node changes at most the phase of that node.
LEMMA MoveStep ==
    ASSUME NEW c \in ManagedNodes,
           workload' = workload,
           \A n \in ManagedNodes \ {c} : PhaseOf(n)' = PhaseOf(n)
    PROVE  Promise!Move(c, PhaseOf(c), PhaseOf(c)')
<1>1. Phase[c] = PhaseOf(c)
    BY DEF Phase
<1>2. Phase' = [Phase EXCEPT ![c] = PhaseOf(c)']
    BY DEF Phase
<1>3. Busy' = Busy
    BY DEF Busy
<1>4. QED
    BY <1>1, <1>2, <1>3 DEF Promise!Move

\* The other nodes keep their phase when only one node's mark, cordon and power
\* change.
LEMMA OthersKeepPhase ==
    ASSUME NEW c,
           \A n \in Nodes \ {c} : /\ n \in cordoned' <=> n \in cordoned
                                  /\ n \in annotated' <=> n \in annotated
                                  /\ Stopped(n)' <=> Stopped(n)
    PROVE  \A n \in ManagedNodes \ {c} : PhaseOf(n)' = PhaseOf(n)
BY ManagedAreNodes DEF PhaseOf

\* A step about a node that is not managed is a stutter, too.
LEMMA OutsideStep ==
    ASSUME NEW c, c \notin ManagedNodes,
           workload' = workload,
           \A n \in ManagedNodes \ {c} : PhaseOf(n)' = PhaseOf(n)
    PROVE  UNCHANGED <<Phase, Busy>>
BY DEF Phase, Busy

\* What a step may do to the node it is about
Legal(c) ==
    \/ PhaseOf(c)' = PhaseOf(c)
    \/ PhaseOf(c) = "leaving" /\ PhaseOf(c)' = "serving"
    \/ PhaseOf(c) = "parked" /\ PhaseOf(c)' \in {"returning", "leaving", "off"}
    \/ PhaseOf(c) = "returning" /\ PhaseOf(c)' = "serving"
    \/ PhaseOf(c) = "off" /\ PhaseOf(c)' = "parked"
    \/ /\ PhaseOf(c) = "leaving" /\ PhaseOf(c)' = "parked"
       /\ workload[c] = "idle"
    \/ /\ PhaseOf(c) = "serving" /\ PhaseOf(c)' = "leaving"
       /\ Cardinality(InService \ {c}) >= MinNodes

\* NodeLifecycle counts as the control loop does.
LEMMA SameCount ==
    ASSUME NEW S
    PROVE  Promise!Cardinality(S) = Cardinality(S)
BY DEF Promise!Cardinality, Cardinality

\* The nodes in service are those that serve, as long as the ones that are off
\* are recorded.
LEMMA ServingIsInService ==
    ASSUME OffIsRecorded
    PROVE  Promise!Serving = InService
<1>1. Promise!Serving = {n \in ManagedNodes : PhaseOf(n) = "serving"}
    BY DEF Promise!Serving, Phase
<1>2. \A n \in ManagedNodes : PhaseOf(n) = "serving" <=> n \in InService
    BY PhaseCases, ManagedAreNodes DEF InService, OffIsRecorded
<1>3. InService \subseteq ManagedNodes
    BY DEF InService
<1>4. QED
    BY <1>1, <1>2, <1>3

\* A step that moves one node legally is a step of the promise.
LEMMA LegalStep ==
    ASSUME OffIsRecorded, NEW c, Legal(c),
           workload' = workload,
           \A n \in ManagedNodes \ {c} : PhaseOf(n)' = PhaseOf(n)
    PROVE  Promise!Next \/ UNCHANGED <<Phase, Busy>>
<1>1. CASE c \notin ManagedNodes
    BY <1>1, OutsideStep
<1>2. CASE c \in ManagedNodes
  <2>1. Promise!Move(c, PhaseOf(c), PhaseOf(c)')
    BY <1>2, MoveStep
  <2>2. CASE PhaseOf(c)' = PhaseOf(c)
    BY <2>2, <1>2 DEF Phase, Busy
  <2>3. CASE /\ PhaseOf(c) = "leaving" /\ PhaseOf(c)' = "parked"
             /\ workload[c] = "idle"
    <3>1. c \notin Busy
      BY <2>3 DEF Busy
    <3>2. Promise!Park(c)
      BY <2>1, <2>3, <3>1 DEF Promise!Park
    <3>3. QED
      BY <1>2, <3>2 DEF Promise!Next
  <2>4. CASE /\ PhaseOf(c) = "serving" /\ PhaseOf(c)' = "leaving"
             /\ Cardinality(InService \ {c}) >= MinNodes
    <3>1. Promise!Serving = InService
      BY ServingIsInService
    <3>2. Promise!Move(c, "serving", "leaving")
      BY <2>1, <2>4
    <3>3. Promise!Leave(c)
      BY <2>4, <3>1, <3>2, SameCount DEF Promise!Leave
    <3>4. QED
      BY <1>2, <3>3 DEF Promise!Next
  <2>5. CASE PhaseOf(c) = "off" /\ PhaseOf(c)' = "parked"
    BY <1>2, <2>1, <2>5 DEF Promise!Next, Promise!Boot
  <2>6. CASE PhaseOf(c) = "parked" /\ PhaseOf(c)' = "off"
    BY <1>2, <2>1, <2>6 DEF Promise!Next, Promise!PowerOff
  <2>7. CASE \/ PhaseOf(c) = "leaving" /\ PhaseOf(c)' = "serving"
             \/ PhaseOf(c) = "parked" /\ PhaseOf(c)' \in {"returning", "leaving"}
             \/ PhaseOf(c) = "returning" /\ PhaseOf(c)' = "serving"
    BY <1>2, <2>1, <2>7 DEF Promise!Next, Promise!Return
  <2>8. QED
    BY <2>2, <2>3, <2>4, <2>5, <2>6, <2>7 DEF Legal
<1>3. QED
    BY <1>1, <1>2

-----------------------------------------------------------------------------
(* The writes to a Node object and to a machine. *)

\* A running node is made schedulable ...
LEMMA UncordonIsLegal ==
    ASSUME NEW c \in Nodes, ~Stopped(c), cordoned' = cordoned \ {c},
           annotated' = annotated, power' = power
    PROVE  Legal(c) /\ \A n \in ManagedNodes \ {c} : PhaseOf(n)' = PhaseOf(n)
<1>1. \A n \in Nodes : Stopped(n)' <=> Stopped(n)
    BY DEF Stopped
<1>2. Legal(c)
    BY <1>1, PhaseCases DEF Legal, PhaseOf
<1>3. QED
    BY <1>1, <1>2, OthersKeepPhase

\* ... or unmarked.
LEMMA UnmarkIsLegal ==
    ASSUME NEW c \in Nodes, ~Stopped(c), cordoned' = cordoned,
           annotated' = annotated \ {c}, power' = power
    PROVE  Legal(c) /\ \A n \in ManagedNodes \ {c} : PhaseOf(n)' = PhaseOf(n)
<1>1. \A n \in Nodes : Stopped(n)' <=> Stopped(n)
    BY DEF Stopped
<1>2. Legal(c)
    BY <1>1, PhaseCases DEF Legal, PhaseOf
<1>3. QED
    BY <1>1, <1>2, OthersKeepPhase

\* A drained node is marked.
LEMMA MarkIsLegal ==
    ASSUME NEW c \in Nodes, ~Stopped(c), c \in cordoned, workload[c] = "idle",
           cordoned' = cordoned, annotated' = annotated \cup {c}, power' = power
    PROVE  Legal(c) /\ \A n \in ManagedNodes \ {c} : PhaseOf(n)' = PhaseOf(n)
<1>1. \A n \in Nodes : Stopped(n)' <=> Stopped(n)
    BY DEF Stopped
<1>2. Legal(c)
    BY <1>1, PhaseCases DEF Legal, PhaseOf
<1>3. QED
    BY <1>1, <1>2, OthersKeepPhase

\* An unmarked node is cordoned, while MinNodes others are in service.
LEMMA CordonIsLegal ==
    ASSUME NEW c \in Nodes, ~Stopped(c), c \notin annotated,
           Cardinality(InService \ {c}) >= MinNodes,
           cordoned' = cordoned \cup {c}, annotated' = annotated, power' = power
    PROVE  Legal(c) /\ \A n \in ManagedNodes \ {c} : PhaseOf(n)' = PhaseOf(n)
<1>1. \A n \in Nodes : Stopped(n)' <=> Stopped(n)
    BY DEF Stopped
<1>2. Legal(c)
    BY <1>1, PhaseCases DEF Legal, PhaseOf
<1>3. QED
    BY <1>1, <1>2, OthersKeepPhase

\* A machine stops or boots while its node is cordoned and marked.
LEMMA PowerIsLegal ==
    ASSUME NEW c \in Nodes, c \in cordoned, c \in annotated,
           cordoned' = cordoned, annotated' = annotated,
           \A n \in Nodes \ {c} : Stopped(n)' <=> Stopped(n)
    PROVE  Legal(c) /\ \A n \in ManagedNodes \ {c} : PhaseOf(n)' = PhaseOf(n)
<1>1. Legal(c)
    BY PhaseCases DEF Legal, PhaseOf
<1>2. QED
    BY <1>1, OthersKeepPhase

\* A node gets its first pod, or loses its last one.
LEMMA WorkStep ==
    ASSUME OffIsRecorded, MachinesTypeOK, NEW c \in Nodes, NEW kind,
           workload' = [workload EXCEPT ![c] = kind],
           \/ kind = "idle" \/ c \notin cordoned
           \/ workload[c] # "idle",
           cordoned' = cordoned, annotated' = annotated, power' = power
    PROVE  Promise!Next \/ UNCHANGED <<Phase, Busy>>
<1>1. \A n \in Nodes : Stopped(n)' <=> Stopped(n)
    BY DEF Stopped
<1>2. Phase' = Phase
  <2>1. \A n \in ManagedNodes : PhaseOf(n)' = PhaseOf(n)
    BY <1>1, ManagedAreNodes DEF PhaseOf
  <2>2. QED
    BY <2>1 DEF Phase
<1>3. CASE c \notin ManagedNodes
    BY <1>2, <1>3, ManagedAreNodes DEF Busy, MachinesTypeOK
<1>4. CASE c \in ManagedNodes /\ kind = "idle"
  <2>1. Busy' = Busy \ {c}
    BY <1>4, ManagedAreNodes DEF Busy, MachinesTypeOK
  <2>2. QED
    BY <1>2, <1>4, <2>1 DEF Promise!Next, Promise!LoseWork
<1>5. CASE c \in ManagedNodes /\ c \notin cordoned /\ kind # "idle"
  <2>1. Busy' = Busy \cup {c}
    BY <1>5, ManagedAreNodes DEF Busy, MachinesTypeOK
  <2>2. PhaseOf(c) \in {"serving", "returning"}
    BY <1>5, PhaseCases DEF OffIsRecorded
  <2>3. Promise!Schedulable(c)
    BY <1>5, <2>2 DEF Promise!Schedulable, Phase
  <2>4. QED
    BY <1>2, <1>5, <2>1, <2>3 DEF Promise!Next, Promise!TakeWork
<1>6. CASE kind # "idle" /\ workload[c] # "idle"
    BY <1>2, <1>6 DEF Busy, MachinesTypeOK
<1>7. QED
    BY <1>3, <1>4, <1>5, <1>6

-----------------------------------------------------------------------------
(* The steps of the control loop. *)

\* The retiree is unmarked until it is drained: EligibleNodes has no marked node.
LEMMA RetireeStep ==
    ASSUME RetireeUnmarked, [Next]_vars
    PROVE  RetireeUnmarked'
<1> USE DEF RetireeUnmarked, objectVars, loopVars, EndLoop, Goto, LeaveTo, Pick,
        CallPowerOn, PowerOnFailed, PowerOnSucceeded
<1>1. CASE LoopHead
    BY <1>1
    DEF LoopHead, Restart, StartLoop, RecoverUncordon, RecoverPatch, RecoverDone,
        ClearCachedOff, ForceNext
<1>2. CASE ScaleUp
    BY <1>2
    DEF ScaleUp, MaybeScaleUp, PowerOn, Wake, AwaitReady, LookAgain, BootTimeout,
        PersistBootTime, UncordonBooted, ClearAndMarkBooted
<1>3. CASE MaybeScaleDown
    BY <1>3, CandidatesAreEligible
    DEF MaybeScaleDown, EligibleNodes, IsMarkedPoweredOff
<1>4. CASE ScaleDown /\ ~MaybeScaleDown
    BY <1>4
    DEF ScaleDown, DrainPrecheck, AfterPrecheck, Cordon, DrainRound,
        AnnotatePoweredOffNode, Shutdown, UndoAnnotation, RestoreScheduling,
        MaybeRotate
<1>5. CASE Crash \/ Tick \/ UNCHANGED vars
    BY <1>5 DEF Crash, Tick, AgeTimestamps, vars
<1>6. CASE \E n \in Nodes : Environment(n)
    BY <1>6 DEF Environment, Settle, controllerVars
<1>7. QED
    BY <1>1, <1>2, <1>3, <1>4, <1>5, <1>6 DEF Next, Controller

\* Calls that only read, and writes that no phase depends on
LEMMA SilentSteps ==
    ASSUME \/ Restart \/ StartLoop \/ RecoverDone \/ ClearCachedOff \/ ForceNext
           \/ MaybeScaleUp \/ PowerOn \/ AwaitReady \/ LookAgain \/ BootTimeout
           \/ PersistBootTime \/ MaybeScaleDown \/ DrainPrecheck \/ MaybeRotate
           \/ Crash \/ Tick \/ UNCHANGED vars
    PROVE  UNCHANGED <<Phase, Busy>>
<1>1. UNCHANGED <<cordoned, annotated, workload, power>>
    BY DEF Restart, StartLoop, RecoverDone, ClearCachedOff, ForceNext,
           MaybeScaleUp, PowerOn, AwaitReady, LookAgain, BootTimeout,
           PersistBootTime, MaybeScaleDown, DrainPrecheck, MaybeRotate, Crash,
           Tick, AgeTimestamps, AgeMachines, vars, objectVars, machineVars
<1>2. \A n \in Nodes : Stopped(n)' <=> Stopped(n)
    BY <1>1 DEF Stopped
<1>3. QED
    BY <1>1, <1>2, QuietStep

\* The calls that make a node schedulable are about running nodes.
LEMMA UncordonSteps ==
    ASSUME SoundDeployment, PowerOffInv,
           RecoverUncordon \/ UncordonBooted \/ RestoreScheduling
    PROVE  Promise!Next \/ UNCHANGED <<Phase, Busy>>
<1> USE DEF PowerOffInv
<1>1. UNCHANGED <<annotated, workload, power>>
    BY DEF RecoverUncordon, UncordonBooted, RestoreScheduling, machineVars
<1>2. CASE cordoned' = cordoned
    BY <1>1, <1>2, QuietStep DEF Stopped
<1>3. CASE cordoned' # cordoned
  <2>1. PICK c \in Nodes : ~Stopped(c) /\ cordoned' = cordoned \ {c}
    <3>1. CASE RecoverUncordon
      BY <3>1, <1>3, Thresholds, LimitsAssumption
      DEF RecoverUncordon, UncordonNode, PastGrace, RecoverInTime, RecoverSteps,
          SoundDeployment, TypeOK, NodeopsTypeOK
    <3>2. CASE UncordonBooted
      BY <3>2, <1>3
      DEF UncordonBooted, UncordonNode, CandidateRuns, InHand, HasCandidate,
          PowerOnSteps
    <3>3. CASE RestoreScheduling
      BY <3>3, <1>3
      DEF RestoreScheduling, UncordonNode, CandidateRuns, InHand, HasCandidate,
          RetireSteps, AbortSteps
    <3>4. QED
      BY <3>1, <3>2, <3>3
  <2>2. QED
    BY <1>1, <2>1, UncordonIsLegal, LegalStep
<1>4. QED
    BY <1>2, <1>3

\* So are the calls that unmark one.
LEMMA UnmarkSteps ==
    ASSUME PowerOffInv, RecoverPatch \/ ClearAndMarkBooted \/ UndoAnnotation
    PROVE  Promise!Next \/ UNCHANGED <<Phase, Busy>>
<1> USE DEF PowerOffInv
<1>1. UNCHANGED <<cordoned, workload, power>>
    BY DEF RecoverPatch, ClearAndMarkBooted, UndoAnnotation, machineVars
<1>2. CASE annotated' = annotated
    BY <1>1, <1>2, QuietStep DEF Stopped
<1>3. CASE annotated' # annotated
  <2>1. cand \in Nodes /\ ~Stopped(cand) /\ annotated' = annotated \ {cand}
    BY <1>3
    DEF RecoverPatch, ClearAndMarkBooted, UndoAnnotation,
        ClearPoweredOffAnnotation, CandidateRuns, InHand, HasCandidate,
        PowerOnSteps, RetireSteps, AbortSteps
  <2>2. QED
    BY <1>1, <2>1, UnmarkIsLegal, LegalStep
<1>4. QED
    BY <1>2, <1>3

\* Cordon, mark and shutdown take the retiree out of service, one by one.
LEMMA RetireMoves ==
    ASSUME PowerOffInv, FloorInv, RetireeUnmarked,
           Cordon \/ AnnotatePoweredOffNode \/ Shutdown
    PROVE  Promise!Next \/ UNCHANGED <<Phase, Busy>>
<1> USE DEF PowerOffInv
<1>1. /\ pc \in {"cordon", "annotate", "shutdown"}
      /\ cand \in Nodes
      /\ ~Stopped(cand)
      /\ Cardinality(InService \ {cand}) >= MinNodes
    BY DEF Cordon, AnnotatePoweredOffNode, Shutdown, CandidateRuns, InHand,
           HasCandidate, FloorInv, RetireSteps, DrainSteps
<1>2. CASE Cordon
  <2>1. /\ UNCHANGED <<annotated, workload, power>>
        /\ cordoned' = cordoned \/ cordoned' = cordoned \cup {cand}
    BY <1>2 DEF Cordon, SetUnschedulable, machineVars
  <2>2. cand \notin annotated
    BY <1>2 DEF Cordon, RetireeUnmarked
  <2>3. QED
    BY <1>1, <2>1, <2>2, CordonIsLegal, LegalStep, QuietStep DEF Stopped
<1>3. CASE AnnotatePoweredOffNode
  <2>1. /\ UNCHANGED <<cordoned, workload, power>>
        /\ annotated' = annotated \/ annotated' = annotated \cup {cand}
    BY <1>3 DEF AnnotatePoweredOffNode, AnnotatePoweredOff, machineVars
  <2>2. cand \in cordoned /\ workload[cand] = "idle"
    BY <1>3 DEF AnnotatePoweredOffNode, DrainProgress
  <2>3. QED
    BY <1>1, <2>1, <2>2, MarkIsLegal, LegalStep, QuietStep DEF Stopped
<1>4. CASE Shutdown
  <2>1. UNCHANGED <<cordoned, annotated, workload>>
    BY <1>4
    DEF Shutdown, ShutdownAccepted, ShutdownFailed, AcceptShutdown, objectVars,
        machineVars
  <2>2. \A n \in Nodes \ {cand} : Stopped(n)' <=> Stopped(n)
    BY <1>4, <1>1
    DEF Shutdown, ShutdownAccepted, ShutdownFailed, AcceptShutdown, machineVars,
        Stopped, TypeOK, MachinesTypeOK
  <2>3. cand \in cordoned /\ cand \in annotated
    BY <1>4 DEF Shutdown, DrainProgress
  <2>4. QED
    BY <1>1, <2>1, <2>2, <2>3, PowerIsLegal, LegalStep
<1>5. QED
    BY <1>2, <1>3, <1>4

\* A machine boots, whoever woke it.
LEMMA BootMoves ==
    ASSUME OffIsRecorded, MachinesTypeOK, NEW c \in Nodes, Boot(c), Stopped(c),
           UNCHANGED objectVars
    PROVE  Promise!Next \/ UNCHANGED <<Phase, Busy>>
<1>1. UNCHANGED <<cordoned, annotated, workload>>
    BY DEF Boot, objectVars
<1>2. \A n \in Nodes \ {c} : Stopped(n)' <=> Stopped(n)
    BY DEF Boot, Stopped, MachinesTypeOK
<1>3. c \in cordoned /\ c \in annotated
    BY DEF OffIsRecorded
<1>4. QED
    BY <1>1, <1>2, <1>3, PowerIsLegal, LegalStep

\* The steps of machines, kubelets and pods
LEMMA EnvironmentMoves ==
    ASSUME OffIsRecorded, MachinesTypeOK, NEW n \in Nodes, Environment(n)
    PROVE  Promise!Next \/ UNCHANGED <<Phase, Busy>>
<1>1. UNCHANGED <<cordoned, annotated>> /\ UNCHANGED objectVars
    BY DEF Environment, Settle, controllerVars, objectVars
<1>2. CASE PowerDown(n) \/ LoseReady(n) \/ BecomeReady(n) \/ Flap(n)
  <2>1. workload' = workload /\ \A m \in Nodes : Stopped(m)' <=> Stopped(m)
    BY <1>2
    DEF PowerDown, LoseReady, BecomeReady, Flap, Stopped, MachinesTypeOK
  <2>2. QED
    BY <1>1, <2>1, QuietStep
<1>3. CASE ManualBoot(n)
    BY <1>1, <1>3, BootMoves DEF ManualBoot, Stopped
<1>4. CASE Schedule(n)
    BY <1>1, <1>4, WorkStep DEF Schedule
<1>5. CASE Finish(n)
  <2>1. PICK left : /\ workload' = [workload EXCEPT ![n] = left]
                    /\ left = "idle" \/ workload[n] # "idle"
    BY <1>5 DEF Finish, Outranks
  <2>2. power' = power
    BY <1>5 DEF Finish
  <2>3. QED
    BY <1>1, <2>1, <2>2, WorkStep
<1>6. QED
    BY <1>2, <1>3, <1>4, <1>5 DEF Environment, Settle

\* Every step of the control loop keeps the promise.
LEMMA PromiseStep ==
    ASSUME SoundDeployment, PowerOffInv, FloorInv, RetireeUnmarked, [Next]_vars
    PROVE  Promise!Next \/ UNCHANGED <<Phase, Busy>>
<1>1. OffIsRecorded /\ MachinesTypeOK
    BY DEF PowerOffInv, TypeOK
<1>2. CASE Wake
  <2>1. CASE UNCHANGED machineVars
    BY <1>2, <2>1, QuietStep DEF Wake, objectVars, machineVars, Stopped
  <2>2. CASE power[cand] = "off" /\ Boot(cand)
    BY <1>1, <1>2, <2>2, BootMoves
    DEF Wake, PowerOffInv, InHand, HasCandidate, PowerOnSteps, Stopped
  <2>3. QED
    BY <1>2, <2>1, <2>2 DEF Wake, SendWOLRequest, ReceiveMagicPacket
<1>3. CASE DrainRound
  <2>1. CASE UNCHANGED machineVars
    BY <1>3, <2>1, QuietStep DEF DrainRound, objectVars, machineVars, Stopped
  <2>2. CASE Evict(cand)
    <3>1. /\ cand \in Nodes
          /\ UNCHANGED <<cordoned, annotated, power>>
          /\ workload' = [workload EXCEPT ![cand] = "idle"]
      BY <1>3, <2>2
      DEF DrainRound, Evict, PowerOffInv, InHand, HasCandidate, RetireSteps,
          DrainSteps, objectVars
    <3>2. QED
      BY <1>1, <3>1, WorkStep
  <2>3. QED
    BY <1>3, <2>1, <2>2 DEF DrainRound
<1>4. CASE \E n \in Nodes : Environment(n)
    BY <1>1, <1>4, EnvironmentMoves
<1>5. QED
    BY <1>2, <1>3, <1>4, SilentSteps, UncordonSteps, UnmarkSteps, RetireMoves
    DEF Next, Controller, LoopHead, ScaleUp, ScaleDown

\* At the start a managed node serves or is off, and runs nothing.
LEMMA PromiseInit == Init => Promise!Init
<1> SUFFICES ASSUME Init PROVE Promise!Init
    OBVIOUS
<1>1. \A n \in ManagedNodes : PhaseOf(n) \in {"serving", "off"}
    BY ManagedAreNodes DEF Init, PhaseOf, Stopped
<1>2. Busy = {}
    BY ManagedAreNodes DEF Init, Busy
<1>3. QED
    BY <1>1, <1>2 DEF Promise!Init, Phase

\* The control loop implements the life cycle: whatever fails and whenever the
\* process restarts, a node is taken out of service only above MinNodes, parked
\* only when it is drained, powered off only from there, and takes work again
\* only when it runs (Reconcile, RecoverUnexpectedlyBootedNodes,
\* PowerOnAndMarkBooted, MaybeScaleDown).
THEOREM LoopKeepsPromise ==
    ASSUME SoundDeployment
    PROVE  Spec => KeepsPromise
<1> DEFINE Inv == PowerOffInv /\ FloorInv /\ RetireeUnmarked
<1>1. Init => Inv
    BY PowerOffInit
    DEF Init, FloorInv, RetireeUnmarked, RetireSteps, DrainSteps, AbortSteps
<1>2. Inv /\ [Next]_vars => Inv'
    BY PowerOffStep, FloorStep, RetireeStep
<1>3. Inv /\ [Next]_vars => [Promise!Next]_(Promise!vars)
    BY PromiseStep DEF Promise!vars
<1>4. QED
    BY <1>1, <1>2, <1>3, PromiseInit, PTL DEF Spec, KeepsPromise, Promise!Spec
=============================================================================
