-------------------------- MODULE ReconcilerProofs -------------------------
(***************************************************************************)
(* Proofs about the states of the control loop, for every cluster,         *)
(* configuration and number of faults: type correctness; that a machine    *)
(* which accepted a shutdown stays recorded as off, and runs no pod, until *)
(* it boots again; that no node is retired which booted too recently or    *)
(* which MinNodes needs.                                                   *)
(***************************************************************************)
EXTENDS ReconcilerInv, FiniteSetTheorems, TLAPS

-----------------------------------------------------------------------------
(* Ages. *)

\* A tick keeps an age within its cap.
LEMMA OlderType ==
    ASSUME NEW cap \in Nat, NEW age \in 0 .. cap
    PROVE  Older(age, cap) \in 0 .. cap
BY DEF Older

\* The filters return nodes of the cluster ...
LEMMA ManagedAreNodes == ManagedNodes \subseteq Nodes
BY LabelSets DEF ManagedNodes

\* ... and the pick is one of the eligible ones.
LEMMA CandidatesAreEligible == ScaleDownCandidates \subseteq EligibleNodes
BY Zenon DEF ScaleDownCandidates

-----------------------------------------------------------------------------
(* Type correctness. *)

\* The initial state is well typed.
LEMMA InitType == Init => TypeOK
<1> SUFFICES ASSUME Init PROVE TypeOK
    OBVIOUS
<1> USE ManagedAreNodes, Thresholds, LimitsAssumption
<1>1. NodeopsTypeOK
    BY DEF Init, NodeopsTypeOK
<1>2. MachinesTypeOK
    BY DEF Init, MachinesTypeOK
<1>3. cooling \in BOOLEAN /\ force \in BOOLEAN
    BY Zenon DEF Init
<1>4. QED
    BY <1>1, <1>2, <1>3 DEF Init, TypeOK

\* What the ends of a handler leave in the variables of the loop
LEMMA EndLoopType ==
    EndLoop => /\ pc' = "idle"
               /\ cand' = NoNode
               /\ todo' \subseteq Nodes
               /\ caller' = "none"
               /\ attempt' = 0
               /\ cooling' \in BOOLEAN
BY Zenon DEF EndLoop

\* Time keeps every age in its range.
LEMMA TickType == TypeOK /\ Tick => TypeOK'
<1> SUFFICES ASSUME TypeOK, Tick PROVE TypeOK'
    OBVIOUS
<1> USE DEF TypeOK, NodeopsTypeOK, MachinesTypeOK
<1>1. NodeopsTypeOK'
    BY OlderType, Thresholds DEF Tick, AgeTimestamps
<1>2. MachinesTypeOK'
    BY OlderType, Thresholds DEF Tick, AgeMachines
<1>3. downAge' \in 0 .. BootstrapCooldown
    BY OlderType, LimitsAssumption DEF Tick
<1>4. QED
    BY <1>1, <1>2, <1>3 DEF Tick, loopVars, NoFault

\* Start, recovery, the tracker's clean-up and force mode.
LEMMA LoopHeadType == TypeOK /\ LoopHead => TypeOK'
<1> SUFFICES ASSUME TypeOK, LoopHead PROVE TypeOK'
    OBVIOUS
<1> USE ManagedAreNodes, EndLoopType, Thresholds, LimitsAssumption,
        SettingsAssumption
    DEF TypeOK, NodeopsTypeOK, MachinesTypeOK, Goto, LeaveTo, NoFault,
        Fault, objectVars, trackerVars, machineVars, loopVars, processVars,
        RecoverSteps, PowerOnSteps, RetireSteps, DrainSteps, AbortSteps, Callers
<1>1. CASE Restart
    BY <1>1 DEF Restart
<1>2. CASE StartLoop
    BY <1>2 DEF StartLoop, RecoverCandidates, IsGlobalCooldownActive
<1>3. CASE RecoverUncordon
    BY <1>3 DEF RecoverUncordon, UncordonNode
<1>4. CASE RecoverPatch
    BY <1>4 DEF RecoverPatch, ClearPoweredOffAnnotation, AnnotateBootedAt
<1>5. CASE RecoverDone
    BY <1>5 DEF RecoverDone
<1>6. CASE ClearCachedOff
  <2>1. cooling' \in BOOLEAN
    BY <1>6, Zenon DEF ClearCachedOff
  <2>2. QED
    BY <1>6, <2>1 DEF ClearCachedOff
<1>7. CASE ForceNext
    BY <1>7 DEF ForceNext
<1>8. QED
    BY <1>1, <1>2, <1>3, <1>4, <1>5, <1>6, <1>7 DEF LoopHead

\* The two ways out of PowerOnAndMarkBooted, for its callers
LEMMA PowerOnEndType ==
    ASSUME TypeOK, PowerOnFailed \/ PowerOnSucceeded
    PROVE  /\ pc' \in {"idle", "scaleDown", "force"}
           /\ cand' = NoNode
           /\ todo' \subseteq Nodes
           /\ caller' = "none"
           /\ attempt' = 0
           /\ cooling' \in BOOLEAN
BY EndLoopType DEF PowerOnFailed, PowerOnSucceeded, LeaveTo, TypeOK

\* MaybeScaleUp and PowerOnAndMarkBooted.
LEMMA ScaleUpType == TypeOK /\ ScaleUp => TypeOK'
<1> SUFFICES ASSUME TypeOK, ScaleUp PROVE TypeOK'
    OBVIOUS
<1> USE ManagedAreNodes, EndLoopType, PowerOnEndType, Thresholds,
        LimitsAssumption, SettingsAssumption
    DEF TypeOK, NodeopsTypeOK, MachinesTypeOK, Goto, Pick, CallPowerOn, NoFault,
        Fault, objectVars, trackerVars, machineVars, loopVars, processVars,
        RecoverSteps, PowerOnSteps, RetireSteps, DrainSteps, AbortSteps, Callers
<1>1. CASE MaybeScaleUp
    BY <1>1 DEF MaybeScaleUp, LongestOff, ShutdownNodes
<1>2. CASE PowerOn
  <2>1. poweredOff' \subseteq Nodes
    BY <1>2 DEF PowerOn, PowerOnSucceeded
  <2>2. QED
    BY <1>2, <2>1 DEF PowerOn
<1>3. CASE Wake
    BY <1>3 DEF Wake, AttemptLeft, SendWOLRequest, ReceiveMagicPacket, Boot
<1>4. CASE AwaitReady
    BY <1>4 DEF AwaitReady
<1>5. CASE LookAgain
    BY <1>5 DEF LookAgain
<1>6. CASE BootTimeout
    BY <1>6 DEF BootTimeout
<1>7. CASE PersistBootTime
    BY <1>7 DEF PersistBootTime, AnnotateBootedAt
<1>8. CASE UncordonBooted
    BY <1>8 DEF UncordonBooted, UncordonNode
<1>9. CASE ClearAndMarkBooted
  <2>1. poweredOff' \subseteq Nodes
    BY <1>9 DEF ClearAndMarkBooted, PowerOnSucceeded
  <2>2. QED
    BY <1>9, <2>1 DEF ClearAndMarkBooted, ClearPoweredOffAnnotation, MarkStarted
<1>10. QED
    BY <1>1, <1>2, <1>3, <1>4, <1>5, <1>6, <1>7, <1>8, <1>9 DEF ScaleUp

\* MaybeScaleDown, CordonAndDrain, their aborts, and MaybeRotate.
LEMMA ScaleDownType == TypeOK /\ InHand /\ ScaleDown => TypeOK'
<1> SUFFICES ASSUME TypeOK, InHand, ScaleDown PROVE TypeOK'
    OBVIOUS
<1> USE ManagedAreNodes, EndLoopType, Thresholds, LimitsAssumption,
        SettingsAssumption
    DEF TypeOK, NodeopsTypeOK, MachinesTypeOK, Goto, LeaveTo, Pick, CallPowerOn,
        NoFault, Fault, objectVars, trackerVars, machineVars, loopVars,
        processVars, RecoverSteps, PowerOnSteps, RetireSteps, DrainSteps,
        AbortSteps, Callers
<1>1. CASE MaybeScaleDown
    BY <1>1, CandidatesAreEligible DEF MaybeScaleDown, EligibleNodes
<1>2. CASE DrainPrecheck
    BY <1>2 DEF DrainPrecheck, AfterPrecheck
<1>3. CASE Cordon
    BY <1>3 DEF Cordon, SetUnschedulable, InHand,
                HasCandidate
<1>4. CASE DrainRound
    BY <1>4 DEF DrainRound, Drained, Evict
<1>5. CASE AnnotatePoweredOffNode
    BY <1>5 DEF AnnotatePoweredOffNode, AnnotatePoweredOff, InHand,
                HasCandidate
<1>6. CASE Shutdown
    BY <1>6 DEF Shutdown, ShutdownAccepted, ShutdownFailed,
                AcceptShutdown, MarkStopped, InHand,
                HasCandidate
<1>7. CASE UndoAnnotation
    BY <1>7 DEF UndoAnnotation, ClearPoweredOffAnnotation
<1>8. CASE RestoreScheduling
    BY <1>8 DEF RestoreScheduling, UncordonNode
<1>9. CASE MaybeRotate
    BY <1>9 DEF MaybeRotate, MostOverdue, Overdue
<1>10. QED
    BY <1>1, <1>2, <1>3, <1>4, <1>5, <1>6, <1>7, <1>8, <1>9 DEF ScaleDown

\* A crash resets what the process held.
LEMMA CrashType == TypeOK /\ Crash => TypeOK'
<1> SUFFICES ASSUME TypeOK, Crash PROVE TypeOK'
    OBVIOUS
<1>1. cooling' \in BOOLEAN /\ force' \in BOOLEAN
    BY Zenon DEF Crash
<1>2. QED
    BY <1>1, Thresholds, LimitsAssumption
    DEF Crash, Fault, NewTracker, objectVars, machineVars, TypeOK,
        NodeopsTypeOK, MachinesTypeOK

\* Machines, kubelets and the scheduler.
LEMMA EnvironmentType ==
    ASSUME TypeOK, NEW n \in Nodes, Environment(n)
    PROVE  TypeOK'
BY WorkKindsAssumption, Thresholds, LimitsAssumption
DEF Environment, Settle, PowerDown, LoseReady, BecomeReady, Schedule, Finish,
    Flap, ManualBoot, Boot, NoFault, Fault, controllerVars, objectVars,
    trackerVars, loopVars, processVars, TypeOK, NodeopsTypeOK, MachinesTypeOK

\* A handler that takes up a node takes one of the cluster.
LEMMA InHandStep == TypeOK /\ InHand /\ [Next]_vars => InHand'
<1> SUFFICES ASSUME TypeOK, InHand, [Next]_vars PROVE InHand'
    OBVIOUS
<1> USE ManagedAreNodes, EndLoopType, PowerOnEndType
    DEF TypeOK, InHand, HasCandidate, Goto, LeaveTo, Pick, CallPowerOn, loopVars,
        RecoverSteps, PowerOnSteps, RetireSteps, DrainSteps, AbortSteps, Callers
<1>1. CASE Restart \/ StartLoop
    BY <1>1 DEF Restart, StartLoop
<1>2. CASE RecoverUncordon
    BY <1>2 DEF RecoverUncordon
<1>3. CASE RecoverPatch \/ RecoverDone \/ ClearCachedOff
    BY <1>3 DEF RecoverPatch, RecoverDone, ClearCachedOff
<1>4. CASE ForceNext
    BY <1>4 DEF ForceNext
<1>5. CASE MaybeScaleUp
    BY <1>5 DEF MaybeScaleUp, LongestOff, ShutdownNodes
<1>6. CASE PowerOn
    BY <1>6 DEF PowerOn
<1>7. CASE Wake
    BY <1>7 DEF Wake
<1>8. CASE AwaitReady \/ LookAgain \/ BootTimeout
    BY <1>8 DEF AwaitReady, LookAgain, BootTimeout
<1>9. CASE PersistBootTime \/ UncordonBooted \/ ClearAndMarkBooted
    BY <1>9 DEF PersistBootTime, UncordonBooted, ClearAndMarkBooted
<1>10. CASE MaybeScaleDown
    BY <1>10, CandidatesAreEligible DEF MaybeScaleDown, EligibleNodes
<1>11. CASE DrainPrecheck \/ Cordon \/ DrainRound \/ AnnotatePoweredOffNode
    BY <1>11
    DEF DrainPrecheck, AfterPrecheck, Cordon, DrainRound, AnnotatePoweredOffNode
<1>12. CASE Shutdown \/ UndoAnnotation \/ RestoreScheduling
    BY <1>12 DEF Shutdown, UndoAnnotation, RestoreScheduling
<1>13. CASE MaybeRotate
    BY <1>13 DEF MaybeRotate, MostOverdue, Overdue
<1>14. CASE Crash
    BY <1>14 DEF Crash
<1>15. CASE Tick
    BY <1>15 DEF Tick
<1>16. CASE \E n \in Nodes : Environment(n)
    BY <1>16 DEF Environment, Settle, controllerVars
<1>17. CASE UNCHANGED vars
    BY <1>17 DEF vars
<1>18. QED
    BY <1>1, <1>2, <1>3, <1>4, <1>5, <1>6, <1>7, <1>8, <1>9, <1>10, <1>11, <1>12,
       <1>13, <1>14, <1>15, <1>16, <1>17
    DEF Next, Controller, LoopHead, ScaleUp, ScaleDown

\* Every step is well typed.
LEMMA TypeStep == TypeOK /\ InHand /\ [Next]_vars => TypeOK'
<1> SUFFICES ASSUME TypeOK, InHand, [Next]_vars PROVE TypeOK'
    OBVIOUS
<1>1. CASE UNCHANGED vars
    BY <1>1
    DEF vars, objectVars, trackerVars, machineVars, loopVars, processVars,
        TypeOK, NodeopsTypeOK, MachinesTypeOK
<1>2. QED
    BY <1>1, LoopHeadType, ScaleUpType, ScaleDownType, CrashType, TickType,
       EnvironmentType DEF Next, Controller

\* Type correctness: every age stays within its bound, every attempt within
\* MaxRetries, and the loop always has a node in hand where it needs one.
THEOREM TypeCorrect == Spec => [](TypeOK /\ InHand)
<1>1. Init => TypeOK /\ InHand
    BY InitType
    DEF Init, InHand, HasCandidate, PowerOnSteps, RetireSteps, DrainSteps,
        AbortSteps
<1>2. TypeOK /\ InHand /\ [Next]_vars => (TypeOK /\ InHand)'
    BY TypeStep, InHandStep
<1>3. QED
    BY <1>1, <1>2, PTL DEF Spec

-----------------------------------------------------------------------------
(* A stopped machine is recorded as off, and empty. *)

\* The nodes that are off at the start are recorded, and none looks Ready.
LEMMA PowerOffInit == Init => PowerOffInv
<1> SUFFICES ASSUME Init PROVE PowerOffInv
    OBVIOUS
<1>1. TypeOK
    BY InitType
<1>2. InHand
    BY DEF Init, InHand, HasCandidate, PowerOnSteps, RetireSteps, DrainSteps,
           AbortSteps
<1>3. OffIsRecorded /\ NoWorkLost /\ StaleInTime /\ StaleHeldOff
    BY DEF Init, OffIsRecorded, NoWorkLost, StaleInTime, StaleHeldOff, Stopped,
           StaleReady
<1>4. RecoverInTime /\ CandidateRuns /\ DrainProgress
    BY DEF Init, RecoverInTime, CandidateRuns, DrainProgress, RecoverSteps,
           RetireSteps, DrainSteps, AbortSteps
<1>5. QED
    BY <1>1, <1>2, <1>3, <1>4 DEF PowerOffInv

\* The head of Reconcile: within its grace period recovery skips a stopped node,
\* and the cooldown ends the loop before a stale Ready condition matters.
LEMMA PowerOffLoopHead ==
    ASSUME SoundDeployment, PowerOffInv, LoopHead, TypeOK'
    PROVE  /\ OffIsRecorded' /\ NoWorkLost' /\ StaleInTime' /\ StaleHeldOff'
           /\ RecoverInTime' /\ CandidateRuns' /\ DrainProgress'
<1> USE ManagedAreNodes, Thresholds, LimitsAssumption
    DEF SoundDeployment, PowerOffInv, OffIsRecorded, NoWorkLost, StaleInTime,
        StaleHeldOff, LoopHeldOff, RecoverInTime, CandidateRuns, DrainProgress,
        StaleReady, Stopped, InHand, HasCandidate,
        TypeOK, NodeopsTypeOK, MachinesTypeOK, EndLoop, Goto, LeaveTo,
        objectVars, trackerVars, machineVars, loopVars, processVars,
        RecoverSteps, PowerOnSteps, RetireSteps, DrainSteps, AbortSteps, Callers
<1>1. CASE Restart
    BY <1>1 DEF Restart
<1>2. CASE StartLoop
  <2>1. \A n \in Nodes : StaleReady(n) => IsGlobalCooldownActive
    BY <1>2 DEF StartLoop, IsGlobalCooldownActive
  <2>2. cooling' = IsGlobalCooldownActive
    BY <1>2, Zenon DEF StartLoop
  <2>3. \A n \in Nodes : StaleReady(n) => cooling'
    BY <2>1, <2>2, Zenon
  <2>4. QED
    BY <1>2, <2>3 DEF StartLoop, RecoverCandidates
<1>3. CASE RecoverUncordon
    BY <1>3 DEF RecoverUncordon, UncordonNode, PastGrace
<1>4. CASE RecoverPatch
    BY <1>4 DEF RecoverPatch, ClearPoweredOffAnnotation, AnnotateBootedAt
<1>5. CASE RecoverDone
    BY <1>5 DEF RecoverDone
<1>6. CASE ClearCachedOff
    BY <1>6 DEF ClearCachedOff
<1>7. CASE ForceNext
    BY <1>7 DEF ForceNext
<1>8. QED
    BY <1>1, <1>2, <1>3, <1>4, <1>5, <1>6, <1>7 DEF LoopHead

\* PowerOnAndMarkBooted unmarks and uncordons a node only once it runs.
LEMMA PowerOffScaleUp ==
    ASSUME SoundDeployment, PowerOffInv, ScaleUp, TypeOK'
    PROVE  /\ OffIsRecorded' /\ NoWorkLost' /\ StaleInTime' /\ StaleHeldOff'
           /\ RecoverInTime' /\ CandidateRuns' /\ DrainProgress'
<1> USE ManagedAreNodes, Thresholds, LimitsAssumption
    DEF SoundDeployment, PowerOffInv, OffIsRecorded, NoWorkLost, StaleInTime,
        StaleHeldOff, LoopHeldOff, RecoverInTime, CandidateRuns, DrainProgress,
        StaleReady, Stopped, InHand, HasCandidate,
        TypeOK, NodeopsTypeOK, MachinesTypeOK, EndLoop, Goto, LeaveTo, Pick,
        CallPowerOn, PowerOnFailed, PowerOnSucceeded,
        objectVars, trackerVars, machineVars, loopVars, processVars,
        RecoverSteps, PowerOnSteps, RetireSteps, DrainSteps, AbortSteps, Callers
<1>1. CASE MaybeScaleUp
    BY <1>1 DEF MaybeScaleUp, LongestOff, ShutdownNodes
<1>2. CASE PowerOn
    BY <1>2 DEF PowerOn
<1>3. CASE Wake
    BY <1>3 DEF Wake, SendWOLRequest, ReceiveMagicPacket, Boot
<1>4. CASE AwaitReady
    BY <1>4 DEF AwaitReady
<1>5. CASE LookAgain
    BY <1>5 DEF LookAgain
<1>6. CASE BootTimeout
    BY <1>6 DEF BootTimeout
<1>7. CASE PersistBootTime
    BY <1>7 DEF PersistBootTime, AnnotateBootedAt
<1>8. CASE UncordonBooted
    BY <1>8 DEF UncordonBooted, UncordonNode
<1>9. CASE ClearAndMarkBooted
    BY <1>9 DEF ClearAndMarkBooted, ClearPoweredOffAnnotation, MarkStarted
<1>10. QED
    BY <1>1, <1>2, <1>3, <1>4, <1>5, <1>6, <1>7, <1>8, <1>9 DEF ScaleUp

\* CordonAndDrain and what follows: a machine is told to stop when it is
\* cordoned, empty and marked, and is left so.
LEMMA PowerOffScaleDown ==
    ASSUME SoundDeployment, PowerOffInv, ScaleDown, TypeOK'
    PROVE  /\ OffIsRecorded' /\ NoWorkLost' /\ StaleInTime' /\ StaleHeldOff'
           /\ RecoverInTime' /\ CandidateRuns' /\ DrainProgress'
<1> USE ManagedAreNodes, Thresholds, LimitsAssumption
    DEF SoundDeployment, PowerOffInv, OffIsRecorded, NoWorkLost, StaleInTime,
        StaleHeldOff, LoopHeldOff, RecoverInTime, CandidateRuns, DrainProgress,
        StaleReady, Stopped, InHand, HasCandidate,
        TypeOK, NodeopsTypeOK, MachinesTypeOK, EndLoop, Goto, LeaveTo, Pick,
        CallPowerOn, Fault,
        objectVars, trackerVars, machineVars, loopVars, processVars,
        RecoverSteps, PowerOnSteps, RetireSteps, DrainSteps, AbortSteps, Callers
<1>1. CASE MaybeScaleDown
    BY <1>1, CandidatesAreEligible
    DEF MaybeScaleDown, EligibleNodes, IsMarkedPoweredOff
<1>2. CASE DrainPrecheck
    BY <1>2 DEF DrainPrecheck, AfterPrecheck
<1>3. CASE Cordon
    BY <1>3 DEF Cordon, SetUnschedulable
<1>4. CASE DrainRound
    BY <1>4 DEF DrainRound, Drained, Evict
<1>5. CASE AnnotatePoweredOffNode
    BY <1>5 DEF AnnotatePoweredOffNode, AnnotatePoweredOff
<1>6. CASE Shutdown
    BY <1>6 DEF Shutdown, ShutdownAccepted, ShutdownFailed,
                AcceptShutdown, MarkStopped
<1>7. CASE UndoAnnotation
    BY <1>7 DEF UndoAnnotation, ClearPoweredOffAnnotation
<1>8. CASE RestoreScheduling
    BY <1>8 DEF RestoreScheduling, UncordonNode
<1>9. CASE MaybeRotate
    BY <1>9 DEF MaybeRotate, MostOverdue, Overdue
<1>10. QED
    BY <1>1, <1>2, <1>3, <1>4, <1>5, <1>6, <1>7, <1>8, <1>9 DEF ScaleDown

\* Machines and the scheduler: a cordoned node gets no pods.
LEMMA PowerOffEnvironment ==
    ASSUME PowerOffInv, NEW n \in Nodes, Environment(n), TypeOK'
    PROVE  /\ OffIsRecorded' /\ NoWorkLost' /\ StaleInTime' /\ StaleHeldOff'
           /\ RecoverInTime' /\ CandidateRuns' /\ DrainProgress'
<1> USE DEF PowerOffInv, OffIsRecorded, NoWorkLost, StaleInTime, StaleHeldOff,
        LoopHeldOff, RecoverInTime, CandidateRuns, DrainProgress, StaleReady,
        Stopped, InHand, HasCandidate, TypeOK, NodeopsTypeOK, MachinesTypeOK,
        controllerVars, objectVars, trackerVars, loopVars, processVars,
        RecoverSteps, PowerOnSteps, RetireSteps, DrainSteps, AbortSteps
<1>1. CASE Settle(n)
    BY <1>1 DEF Settle, PowerDown, LoseReady, BecomeReady
<1>2. CASE (Schedule(n) \/ Finish(n)) /\ UNCHANGED controllerVars
    BY <1>2 DEF Schedule, Finish, Outranks
<1>3. CASE (Flap(n) \/ ManualBoot(n)) /\ UNCHANGED controllerVars
    BY <1>3 DEF Flap, ManualBoot, Boot
<1>4. QED
    BY <1>1, <1>2, <1>3 DEF Environment

\* A tick: the assumptions on how long a stop takes are used here only.
LEMMA PowerOffTick ==
    ASSUME SoundDeployment, PowerOffInv, Tick, TypeOK'
    PROVE  /\ OffIsRecorded' /\ NoWorkLost' /\ StaleInTime' /\ StaleHeldOff'
           /\ RecoverInTime' /\ CandidateRuns' /\ DrainProgress'
<1> USE Thresholds, LimitsAssumption
    DEF SoundDeployment, PowerOffInv, TypeOK, NodeopsTypeOK, Tick, AgeTimestamps,
        AgeMachines, loopVars, Stopped, StaleReady
<1>1. OffIsRecorded' /\ NoWorkLost' /\ CandidateRuns'
    BY DEF OffIsRecorded, NoWorkLost, CandidateRuns
<1>2. ASSUME NEW n \in Nodes, StopInTime(n)
      PROVE  offAge'[n] = offAge[n] + 1 /\ offAge'[n] < StopLatency
    BY <1>2 DEF StopInTime, Older
<1>3. StaleInTime'
    BY <1>2 DEF StaleInTime
<1>4. StaleHeldOff'
  <2>1. /\ downAge' <= downAge + 1
        /\ lastOpAge' <= lastOpAge + 1
    BY DEF Older
  <2>2. QED
    BY <1>2, <2>1 DEF StaleHeldOff, LoopHeldOff
<1>5. RecoverInTime'
    BY <1>2 DEF RecoverInTime
<1>6. DrainProgress'
    BY <1>2 DEF DrainProgress, InHand, HasCandidate, RetireSteps, DrainSteps
<1>7. QED
    BY <1>1, <1>3, <1>4, <1>5, <1>6

\* The process dies: its downtime starts at no more than the age of any stop.
LEMMA PowerOffCrash ==
    ASSUME PowerOffInv, Crash, TypeOK'
    PROVE  /\ OffIsRecorded' /\ NoWorkLost' /\ StaleInTime' /\ StaleHeldOff'
           /\ RecoverInTime' /\ CandidateRuns' /\ DrainProgress'
BY DEF PowerOffInv, OffIsRecorded, NoWorkLost, StaleInTime, StaleHeldOff,
       LoopHeldOff, RecoverInTime, CandidateRuns, DrainProgress, StaleReady,
       Stopped, TypeOK, NodeopsTypeOK, Crash, objectVars, machineVars,
       RecoverSteps, RetireSteps, DrainSteps, AbortSteps

\* Every step preserves the invariant.
LEMMA PowerOffStep ==
    ASSUME SoundDeployment, PowerOffInv, [Next]_vars
    PROVE  PowerOffInv'
<1>1. TypeOK' /\ InHand'
    BY TypeStep, InHandStep DEF PowerOffInv
<1>2. CASE UNCHANGED vars
    BY <1>1, <1>2
    DEF vars, objectVars, trackerVars, machineVars, loopVars, processVars,
        PowerOffInv, OffIsRecorded, NoWorkLost, StaleInTime, StaleHeldOff,
        LoopHeldOff, RecoverInTime, CandidateRuns, DrainProgress, StaleReady,
        Stopped
<1>3. CASE Next
    BY <1>1, <1>3, PowerOffLoopHead, PowerOffScaleUp, PowerOffScaleDown,
       PowerOffCrash, PowerOffTick, PowerOffEnvironment
    DEF Next, Controller, PowerOffInv
<1>4. QED
    BY <1>2, <1>3

\* In a sound deployment the inductive invariant holds throughout: a stopped
\* machine is recorded and empty, and while it still looks Ready the loop
\* (cooldown, grace period, bootstrap cooldown) does not get to act on it.
THEOREM PowerOffInvariant ==
    ASSUME SoundDeployment
    PROVE  Spec => []PowerOffInv
<1>1. PowerOffInv /\ [Next]_vars => PowerOffInv'
    BY PowerOffStep
<1>2. QED
    BY PowerOffInit, <1>1, PTL DEF Spec

\* In a sound deployment a machine that accepted a shutdown stays marked off
\* and unschedulable until it boots again, whatever calls fail and however
\* often the autoscaler is restarted (MaybeScaleDown, PowerOnAndMarkBooted,
\* RecoverUnexpectedlyBootedNodes).
THEOREM OffStaysRecorded ==
    ASSUME SoundDeployment
    PROVE  Spec => []OffIsRecorded
<1>1. PowerOffInv => OffIsRecorded
    BY DEF PowerOffInv
<1>2. QED
    BY <1>1, PowerOffInvariant, PTL

\* ... and no pod runs on it in that time (CordonAndDrain).
THEOREM NoWorkIsLost ==
    ASSUME SoundDeployment
    PROVE  Spec => []NoWorkLost
<1>1. PowerOffInv => NoWorkLost
    BY DEF PowerOffInv
<1>2. QED
    BY <1>1, PowerOffInvariant, PTL

-----------------------------------------------------------------------------
(* Boot times. *)

\* At the start every boot is long past.
LEMMA BootInit == Init => BootTimeRecorded /\ FreshBootProtected
BY Thresholds
DEF Init, BootTimeRecorded, FreshBootProtected, RetireSteps, DrainSteps,
    AbortSteps

\* A node loses its mark only after booted-at is written, so an unmarked node
\* that booted recently is never eligible.
LEMMA BootStep ==
    ASSUME BootInv, [Next]_vars, TypeOK'
    PROVE  BootTimeRecorded' /\ FreshBootProtected'
<1> USE ManagedAreNodes, Thresholds
    DEF BootInv, PowerOffInv, BootTimeRecorded, FreshBootProtected,
        OffIsRecorded, CandidateRuns, Stopped, InHand, HasCandidate, TypeOK,
        NodeopsTypeOK, MachinesTypeOK, EndLoop, Goto, LeaveTo, Pick, CallPowerOn,
        PowerOnFailed, PowerOnSucceeded, objectVars, trackerVars, machineVars,
        loopVars, processVars, PowerOnSteps, RetireSteps, DrainSteps, AbortSteps,
        Callers
<1>1. CASE Restart \/ StartLoop \/ RecoverDone
    BY <1>1 DEF Restart, StartLoop, RecoverDone
<1>2. CASE RecoverUncordon
    BY <1>2 DEF RecoverUncordon
<1>3. CASE RecoverPatch
    BY <1>3 DEF RecoverPatch, ClearPoweredOffAnnotation, AnnotateBootedAt
<1>4. CASE ClearCachedOff \/ ForceNext
    BY <1>4 DEF ClearCachedOff, ForceNext
<1>5. CASE MaybeScaleUp \/ MaybeRotate
    BY <1>5 DEF MaybeScaleUp, MaybeRotate
<1>6. CASE PowerOn
    BY <1>6 DEF PowerOn
<1>7. CASE Wake
    BY <1>7 DEF Wake, SendWOLRequest, ReceiveMagicPacket, Boot
<1>8. CASE AwaitReady \/ LookAgain \/ BootTimeout
    BY <1>8 DEF AwaitReady, LookAgain, BootTimeout
<1>9. CASE PersistBootTime
    BY <1>9 DEF PersistBootTime, AnnotateBootedAt
<1>10. CASE UncordonBooted
    BY <1>10 DEF UncordonBooted
<1>11. CASE ClearAndMarkBooted
    BY <1>11 DEF ClearAndMarkBooted, ClearPoweredOffAnnotation, MarkStarted
<1>12. CASE MaybeScaleDown
    BY <1>12, CandidatesAreEligible
    DEF MaybeScaleDown, EligibleNodes, IsMarkedPoweredOff, IsInBootCooldown
<1>13. CASE DrainPrecheck \/ Cordon \/ RestoreScheduling
    BY <1>13 DEF DrainPrecheck, AfterPrecheck, Cordon, RestoreScheduling
<1>14. CASE DrainRound
    BY <1>14 DEF DrainRound, Evict
<1>15. CASE AnnotatePoweredOffNode
    BY <1>15 DEF AnnotatePoweredOffNode, AnnotatePoweredOff
<1>16. CASE Shutdown
    BY <1>16 DEF Shutdown, ShutdownAccepted, ShutdownFailed, AcceptShutdown
<1>17. CASE UndoAnnotation
    BY <1>17 DEF UndoAnnotation, ClearPoweredOffAnnotation
<1>18. CASE Crash
    BY <1>18 DEF Crash
<1>19. CASE Tick
    BY <1>19 DEF Tick, AgeTimestamps, AgeMachines, Older
<1>20. CASE \E n \in Nodes : Environment(n)
    BY <1>20
    DEF Environment, Settle, controllerVars, PowerDown, LoseReady, BecomeReady,
        Schedule, Finish, Flap, ManualBoot, Boot
<1>21. CASE UNCHANGED vars
    BY <1>21 DEF vars
<1>22. QED
    BY <1>1, <1>2, <1>3, <1>4, <1>5, <1>6, <1>7, <1>8, <1>9, <1>10, <1>11, <1>12,
       <1>13, <1>14, <1>15, <1>16, <1>17, <1>18, <1>19, <1>20, <1>21
    DEF Next, Controller, LoopHead, ScaleUp, ScaleDown

\* In a sound deployment an unmarked node always carries a boot time no older
\* than its last boot, whoever booted it and whatever the tracker has forgotten
\* (cba.dev/booted-at).
THEOREM BootsAreRecorded ==
    ASSUME SoundDeployment
    PROVE  Spec => []BootInv
<1>1. Init => BootInv
    BY PowerOffInit, BootInit DEF BootInv
<1>2. BootInv /\ [Next]_vars => BootInv'
  <2> SUFFICES ASSUME BootInv, [Next]_vars PROVE BootInv'
    OBVIOUS
  <2>1. PowerOffInv'
    BY PowerOffStep DEF BootInv
  <2>2. BootTimeRecorded' /\ FreshBootProtected'
    BY <2>1, BootStep DEF PowerOffInv
  <2>3. QED
    BY <2>1, <2>2 DEF BootInv
<1>3. QED
    BY <1>1, <1>2, PTL DEF Spec

\* Hence no node is retired within the boot cooldown of its last boot
\* (FilterShutdownEligibleNodes).
THEOREM FreshBootsAreProtected ==
    ASSUME SoundDeployment
    PROVE  Spec => []FreshBootProtected
<1>1. BootInv => FreshBootProtected
    BY DEF BootInv
<1>2. QED
    BY <1>1, BootsAreRecorded, PTL

-----------------------------------------------------------------------------
(* The floor. *)

\* Subsets of the nodes are finite and have no more elements than their superset.
LEMMA CountNodes ==
    ASSUME NEW B \in SUBSET Nodes, NEW A \in SUBSET B
    PROVE  /\ Cardinality(A) \in Nat
           /\ Cardinality(B) \in Nat
           /\ Cardinality(A) <= Cardinality(B)
BY NodesFinite, FS_Subset, FS_CardinalityType

\* PickScaleDownCandidate leaves MinNodes nodes in service.
LEMMA PickLeavesFloor ==
    ASSUME NEW n \in ScaleDownCandidates
    PROVE  Cardinality(InService \ {n}) >= MinNodes
<1>1. n \in EligibleNodes /\ ~(Cardinality(EligibleNodes) <= MinNodes)
    BY Zenon DEF ScaleDownCandidates
<1>2. EligibleNodes \subseteq InService /\ InService \subseteq Nodes
    BY ManagedAreNodes DEF EligibleNodes, InService, IsMarkedPoweredOff
<1>3. IsFiniteSet(EligibleNodes)
    BY <1>2, NodesFinite, FS_Subset
<1>4. /\ Cardinality(EligibleNodes) \in Nat
      /\ Cardinality(EligibleNodes \ {n}) = Cardinality(EligibleNodes) - 1
    BY <1>1, <1>3, FS_RemoveElement, FS_CardinalityType
<1>5. Cardinality(EligibleNodes \ {n}) >= MinNodes
    BY <1>1, <1>4, Thresholds
<1>6. /\ Cardinality(EligibleNodes \ {n}) <= Cardinality(InService \ {n})
      /\ Cardinality(InService \ {n}) \in Nat
  <2>1. /\ InService \ {n} \in SUBSET Nodes
        /\ EligibleNodes \ {n} \in SUBSET (InService \ {n})
    BY <1>2
  <2>2. QED
    BY <2>1, CountNodes
<1>7. QED
    BY <1>4, <1>5, <1>6, Thresholds

\* A step takes at most one node out of service: the one being retired.
LEMMA OneLeavesService ==
    ASSUME [Next]_vars
    PROVE  \/ InService \subseteq InService'
           \/ pc \in RetireSteps /\ InService \ {cand} \subseteq InService'
<1> USE DEF InService, objectVars, RetireSteps, DrainSteps
<1>1. CASE LoopHead
    BY <1>1
    DEF LoopHead, Restart, StartLoop, RecoverUncordon, RecoverPatch, RecoverDone,
        ClearCachedOff, ForceNext, UncordonNode, ClearPoweredOffAnnotation
<1>2. CASE ScaleUp
    BY <1>2
    DEF ScaleUp, MaybeScaleUp, PowerOn, Wake, AwaitReady, LookAgain, BootTimeout,
        PersistBootTime, UncordonBooted, ClearAndMarkBooted, UncordonNode,
        ClearPoweredOffAnnotation
<1>3. CASE ScaleDown
    BY <1>3
    DEF ScaleDown, MaybeScaleDown, DrainPrecheck, Cordon, DrainRound,
        AnnotatePoweredOffNode, Shutdown, UndoAnnotation, RestoreScheduling,
        MaybeRotate, SetUnschedulable, UncordonNode, AnnotatePoweredOff,
        ClearPoweredOffAnnotation
<1>4. CASE Crash \/ Tick \/ UNCHANGED vars
    BY <1>4 DEF Crash, Tick, AgeTimestamps, vars
<1>5. CASE \E n \in Nodes : Environment(n)
    BY <1>5 DEF Environment, Settle, controllerVars
<1>6. QED
    BY <1>1, <1>2, <1>3, <1>4, <1>5 DEF Next, Controller

\* The node being retired is the one that was picked.
LEMMA RetiredWasPicked ==
    ASSUME [Next]_vars, pc' \in RetireSteps
    PROVE  \/ pc \in RetireSteps /\ cand' = cand
           \/ cand' \in ScaleDownCandidates /\ InService' = InService
<1> USE DEF EndLoop, Goto, LeaveTo, Pick, CallPowerOn, PowerOnFailed,
        PowerOnSucceeded, loopVars, objectVars, RetireSteps, DrainSteps,
        AbortSteps
<1>1. CASE LoopHead
    BY <1>1
    DEF LoopHead, Restart, StartLoop, RecoverUncordon, RecoverPatch, RecoverDone,
        ClearCachedOff, ForceNext
<1>2. CASE ScaleUp
    BY <1>2
    DEF ScaleUp, MaybeScaleUp, PowerOn, Wake, AwaitReady, LookAgain, BootTimeout,
        PersistBootTime, UncordonBooted, ClearAndMarkBooted
<1>3. CASE MaybeScaleDown
    BY <1>3 DEF MaybeScaleDown, InService
<1>4. CASE ScaleDown /\ ~MaybeScaleDown
    BY <1>4
    DEF ScaleDown, DrainPrecheck, AfterPrecheck, Cordon, DrainRound,
        AnnotatePoweredOffNode, Shutdown, UndoAnnotation, RestoreScheduling,
        MaybeRotate
<1>5. CASE Crash \/ Tick \/ UNCHANGED vars
    BY <1>5 DEF Crash, Tick, vars
<1>6. CASE \E n \in Nodes : Environment(n)
    BY <1>6 DEF Environment, Settle, controllerVars
<1>7. QED
    BY <1>1, <1>2, <1>3, <1>4, <1>5, <1>6 DEF Next, Controller

\* The nodes in service are nodes of the cluster.
LEMMA InServiceAreNodes == InService \subseteq Nodes /\ InService' \subseteq Nodes
BY ManagedAreNodes DEF InService

\* The floor under the node being retired is kept by every step.
LEMMA FloorStep ==
    ASSUME FloorInv, [Next]_vars
    PROVE  FloorInv'
<1> SUFFICES ASSUME pc' \in RetireSteps
             PROVE  Cardinality(InService' \ {cand'}) >= MinNodes
    BY DEF FloorInv, RetireSteps, DrainSteps, AbortSteps
<1>1. CASE cand' \in ScaleDownCandidates /\ InService' = InService
    BY <1>1, PickLeavesFloor
<1>2. CASE pc \in RetireSteps /\ cand' = cand
  <2>1. Cardinality(InService \ {cand}) >= MinNodes
    BY <1>2 DEF FloorInv
  <2>2. /\ InService' \ {cand'} \in SUBSET Nodes
        /\ InService \ {cand} \in SUBSET (InService' \ {cand'})
    BY <1>2, OneLeavesService, InServiceAreNodes
  <2>3. QED
    BY <2>1, <2>2, CountNodes, Thresholds
<1>3. QED
    BY <1>1, <1>2, RetiredWasPicked

\* While a node is being retired, MinNodes others are in service, from the
\* pick to the answer of its poweroff daemon (MaybeScaleDown).  No assumption
\* on the deployment is needed.
THEOREM FloorHolds == Spec => []FloorInv
<1>1. Init => FloorInv
    BY DEF Init, FloorInv, RetireSteps, DrainSteps, AbortSteps
<1>2. FloorInv /\ [Next]_vars => FloorInv'
    BY FloorStep
<1>3. QED
    BY <1>1, <1>2, PTL DEF Spec

\* No step takes a node out of service when that leaves fewer than MinNodes in
\* service.
THEOREM FloorIsKept == Spec => FloorKept
<1>1. FloorInv /\ [Next]_vars
        => [Cardinality(InService') < Cardinality(InService)
              => Cardinality(InService') >= MinNodes]_vars
  <2> SUFFICES ASSUME FloorInv, [Next]_vars,
                      Cardinality(InService') < Cardinality(InService)
               PROVE  Cardinality(InService') >= MinNodes
    OBVIOUS
  <2>1. ~(InService \subseteq InService')
    <3> SUFFICES ASSUME InService \subseteq InService' PROVE FALSE
      OBVIOUS
    <3>1. /\ InService' \in SUBSET Nodes
          /\ InService \in SUBSET InService'
      BY InServiceAreNodes
    <3>2. QED
      BY <3>1, CountNodes
  <2>2. pc \in RetireSteps /\ InService \ {cand} \subseteq InService'
    BY <2>1, OneLeavesService
  <2>3. Cardinality(InService \ {cand}) >= MinNodes
    BY <2>2 DEF FloorInv
  <2>4. /\ InService' \in SUBSET Nodes
        /\ InService \ {cand} \in SUBSET InService'
    BY <2>2, InServiceAreNodes
  <2>5. QED
    BY <2>3, <2>4, CountNodes, Thresholds
<1>2. QED
    BY <1>1, FloorHolds, PTL DEF Spec, FloorKept
=============================================================================
