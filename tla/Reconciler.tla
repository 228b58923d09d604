---------------------------- MODULE Reconciler -----------------------------
(***************************************************************************)
(* The control loop of cluster-bare-autoscaler (src/main.go,               *)
(* src/pkg/controller) over the node store of Nodeops and the machines of  *)
(* Machines.                                                               *)
(*                                                                         *)
(* The loop is one thread.  A step of the model is one call that can fail  *)
(* or take time, with the in-memory work that follows it; between two      *)
(* steps time passes, machines and kubelets change, pods are scheduled,    *)
(* and the process may die.  pc names the call that comes next:            *)
(*                                                                         *)
(*   down, idle                                                            *)
(*   recover, recoverPatch, clearCached         head of Reconcile          *)
(*   force, scaleUp                             who wants a node on        *)
(*   powerOn, wake, await, pause, patchBooted, uncordon, clearAnnotation   *)
(*   scaleDown, drain, cordon, evict, annotate, shutdown, undo, restore    *)
(*   rotate                                                                *)
(*                                                                         *)
(* A call to the API server that fails may or may not have taken effect.   *)
(***************************************************************************)
EXTENDS Machines

CONSTANTS
    NoNode,             \* "no node" in cand
    DryRun,             \* dryRun
    ForceModes,         \* values of forcePowerOnAllNodes, one per start
    LoadAverage,        \* loadAverageStrategy.enabled
    Rotation,           \* rotation.enabled, with a positive duration
    PowerOnMode,        \* "wol" or "disabled"
    ShutdownMode,       \* "http" or "disabled"
    MaxRetries,         \* attempts of WakeOnLanController.PowerOn
    BootstrapCooldown,  \* bootstrapCooldownSeconds
    StopLatency,        \* from was-powered-off to the loss of Ready
    Faults,             \* the kinds of faults that occur
    MaxFaults           \* bound: how many faults occur in a behaviour

ASSUME NoNodeAssumption == NoNode \notin Nodes

ASSUME SettingsAssumption ==
    /\ DryRun \in BOOLEAN
    /\ LoadAverage \in BOOLEAN
    /\ Rotation \in BOOLEAN
    /\ ForceModes \subseteq BOOLEAN
    /\ PowerOnMode \in {"wol", "disabled"}
    /\ ShutdownMode \in {"http", "disabled"}

ASSUME LimitsAssumption ==
    /\ MaxRetries \in Nat
    /\ BootstrapCooldown \in Nat
    /\ StopLatency \in Nat \ {0}
    /\ MaxFaults \in Nat
    /\ Faults \subseteq {"api", "crash", "reply", "flap", "boot", "wol"}

VARIABLES
    pc,         \* the next call of the control loop
    cand,       \* the node it is about
    todo,       \* nodes left in the loop over a list (recover, force)
    caller,     \* who called PowerOnAndMarkBooted
    attempt,    \* its attempt at waking the node
    cooling,    \* global cooldown active, as of the start of this loop
    force,      \* forcePowerOnAllNodes of this process
    downAge,    \* how long the process has been down
    faultsLeft  \* how many faults may still occur

loopVars == <<cand, todo, caller, attempt, cooling>>
processVars == <<force, downAge>>
vars == <<objectVars, trackerVars, machineVars, pc, loopVars, processVars,
          faultsLeft>>

RecoverSteps == {"recover", "recoverPatch"}
PowerOnSteps == {"powerOn", "wake", "await", "pause", "patchBooted",
                 "uncordon", "clearAnnotation"}
DrainSteps == {"drain", "cordon", "evict", "annotate", "shutdown"}
AbortSteps == {"undo", "restore"}
RetireSteps == DrainSteps \cup AbortSteps
Callers == {"scaleUp", "rotate", "force"}

TypeOK ==
    /\ NodeopsTypeOK
    /\ MachinesTypeOK
    /\ pc \in {"down", "idle", "clearCached", "force", "scaleUp", "scaleDown",
               "rotate"} \cup RecoverSteps \cup PowerOnSteps \cup RetireSteps
    /\ cand \in Nodes \cup {NoNode}
    /\ todo \subseteq Nodes
    /\ caller \in Callers \cup {"none"}
    /\ attempt \in 0 .. MaxRetries
    /\ cooling \in BOOLEAN
    /\ force \in BOOLEAN
    /\ downAge \in 0 .. BootstrapCooldown
    /\ faultsLeft \in 0 .. MaxFaults

\* A step has a node in hand exactly when it is about one.
HasCandidate == pc \in {"recoverPatch"} \cup PowerOnSteps \cup RetireSteps

-----------------------------------------------------------------------------

Fault(kind) ==
    /\ kind \in Faults
    /\ faultsLeft > 0
    /\ faultsLeft' = faultsLeft - 1

NoFault == UNCHANGED faultsLeft

\* Return from Reconcile.
EndLoop ==
    /\ pc' = "idle"
    /\ cand' = NoNode
    /\ todo' = {}
    /\ caller' = "none"
    /\ attempt' = 0
    /\ cooling' = FALSE

\* Go on to the next call, about the same node.
Goto(step) == pc' = step /\ UNCHANGED loopVars

\* Go on to a call that is about no node yet.
LeaveTo(step) ==
    /\ pc' = step
    /\ cand' = NoNode
    /\ caller' = "none"
    /\ attempt' = 0
    /\ UNCHANGED <<todo, cooling>>

\* Pick node n and go on.
Pick(n, step) == pc' = step /\ cand' = n /\ UNCHANGED <<todo, attempt, cooling>>

\* Call PowerOnAndMarkBooted for n.
CallPowerOn(n, who) == Pick(n, "powerOn") /\ caller' = who

\* An error from PowerOnAndMarkBooted: MaybeScaleUp returns false, and the
\* same loop goes on to scale down; the two other callers log it.
PowerOnFailed ==
    \/ caller = "scaleUp" /\ LeaveTo("scaleDown")
    \/ caller = "rotate" /\ EndLoop
    \/ caller = "force" /\ LeaveTo("force")

\* Success: the callers other than ForcePowerOnAllNodes clear the tracker.
PowerOnSucceeded ==
    \/ /\ caller # "force"
       /\ poweredOff' = poweredOff \ {cand}
       /\ EndLoop
    \/ /\ caller = "force"
       /\ UNCHANGED poweredOff
       /\ LeaveTo("force")

-----------------------------------------------------------------------------
(* Start of the process, and of a loop. *)

\* main: the bootstrap cooldown has passed.  RestorePoweredOffState marks the
\* managed nodes that a list of all nodes does not show.
Restart ==
    /\ pc = "down"
    /\ downAge >= BootstrapCooldown
    /\ force' \in ForceModes
    /\ poweredOff' = ManagedNodes \ Nodes
    /\ EndLoop
    /\ NoFault
    /\ UNCHANGED <<objectVars, shutdownAge, bootAge, lastOpAge, machineVars,
                   downAge>>

\* Reconcile takes the time, and RecoverUnexpectedlyBootedNodes lists the
\* nodes.  A list that fails ends the loop with nothing changed.
StartLoop ==
    /\ pc = "idle"
    /\ pc' = "recover"
    /\ cooling' = IsGlobalCooldownActive
    /\ todo' = IF DryRun THEN {} ELSE RecoverCandidates(ready)
    /\ NoFault
    /\ UNCHANGED <<objectVars, trackerVars, machineVars, cand, caller, attempt,
                   processVars>>

\* The next node of that list: skipped within the grace period, else
\* uncordoned.  A node that cannot be uncordoned is skipped.
RecoverUncordon ==
    /\ pc = "recover"
    /\ \E n \in todo :
         /\ todo' = todo \ {n}
         /\ \/ /\ ~PastGrace(n)
               /\ NoFault
               /\ UNCHANGED <<cordoned, pc, cand>>
            \/ /\ PastGrace(n)
               /\ UncordonNode(n)
               /\ NoFault
               /\ pc' = "recoverPatch"
               /\ cand' = n
            \/ /\ PastGrace(n)
               /\ Fault("api")
               /\ UncordonNode(n) \/ UNCHANGED cordoned
               /\ UNCHANGED <<pc, cand>>
    /\ UNCHANGED <<annotated, offAge, bootedAge, trackerVars, machineVars,
                   caller, attempt, cooling, processVars>>

\* One patch removes was-powered-off and sets booted-at.
RecoverPatch ==
    /\ pc = "recoverPatch"
    /\ \/ /\ ClearPoweredOffAnnotation(cand)
          /\ AnnotateBootedAt(cand)
          /\ NoFault \/ Fault("api")
       \/ /\ Fault("api")
          /\ UNCHANGED <<annotated, offAge, bootedAge>>
    /\ LeaveTo("recover")
    /\ UNCHANGED <<cordoned, trackerVars, machineVars, processVars>>

RecoverDone ==
    /\ pc = "recover"
    /\ todo = {}
    /\ Goto("clearCached")
    /\ NoFault
    /\ UNCHANGED <<objectVars, trackerVars, machineVars, processVars>>

\* Nodes that are Ready and not annotated are dropped from the tracker; then
\* Reconcile branches on force mode and on the cooldown.
ClearCachedOff ==
    /\ pc = "clearCached"
    /\ \/ /\ poweredOff' = IF DryRun THEN poweredOff
                           ELSE poweredOff \ ((ManagedNodes \cap ready) \ annotated)
          /\ \/ /\ force
                /\ pc' = "force"
                /\ todo' = ManagedNodes \ ready
                /\ cooling' = FALSE
                /\ UNCHANGED <<cand, caller, attempt>>
             \/ ~force /\ cooling /\ EndLoop
             \/ /\ ~force
                /\ ~cooling
                /\ Goto("scaleUp")
          /\ NoFault
       \/ /\ Fault("api")
          /\ UNCHANGED poweredOff
          /\ EndLoop
    /\ UNCHANGED <<objectVars, shutdownAge, bootAge, lastOpAge, machineVars,
                   processVars>>

\* ForcePowerOnAllNodes: the nodes of its list that were not Ready
ForceNext ==
    /\ pc = "force"
    /\ \/ \E n \in todo : /\ todo' = todo \ {n}
                          /\ pc' = "powerOn"
                          /\ cand' = n
                          /\ caller' = "force"
                          /\ UNCHANGED <<attempt, cooling>>
       \/ todo = {} /\ EndLoop
    /\ NoFault
    /\ UNCHANGED <<objectVars, trackerVars, machineVars, processVars>>

-----------------------------------------------------------------------------
(* Scale-up. *)

BelowMinNodes == Cardinality(ActiveNodes(ready)) < MinNodes

\* MaybeScaleUp: MinNodeCount asks for a node when fewer than MinNodes are
\* active; the load-average strategy, if enabled, may ask at any time.
MaybeScaleUp ==
    /\ pc = "scaleUp"
    /\ \/ /\ BelowMinNodes \/ LoadAverage
          /\ \E n \in LongestOff : CallPowerOn(n, "scaleUp")
          /\ NoFault
       \/ /\ ~BelowMinNodes \/ ShutdownNodes = {}
          /\ Goto("scaleDown")
          /\ NoFault
       \/ /\ Fault("api")
          /\ Goto("scaleDown")
    /\ UNCHANGED <<objectVars, trackerVars, machineVars, processVars>>

-----------------------------------------------------------------------------
(* PowerOnAndMarkBooted, with the power-on controller it calls. *)

\* Up to the first magic packet: dry run, MAC address, WOL agent
PowerOn ==
    /\ pc = "powerOn"
    /\ \/ /\ DryRun
          /\ PowerOnSucceeded
          /\ NoFault
       \/ /\ ~DryRun
          /\ UNCHANGED poweredOff
          /\ \/ cand \notin HasMAC /\ PowerOnFailed /\ NoFault
             \/ /\ cand \in HasMAC
                /\ \/ PowerOnMode = "disabled" /\ Goto("patchBooted") /\ NoFault
                   \/ /\ PowerOnMode = "wol"
                      /\ \/ Goto("wake") /\ NoFault
                         \/ PowerOnFailed /\ Fault("api")
    /\ UNCHANGED <<objectVars, shutdownAge, bootAge, lastOpAge, machineVars,
                   processVars>>

\* The loop over the attempts of PowerOn
OneAttemptTooMany == attempt <= MaxRetries
AttemptLeft == attempt < MaxRetries

\* The agent is asked to send a packet, which gets lost or reaches n.
SendWOLRequest(n) ==
    \/ ReceiveMagicPacket(n) /\ NoFault
    \/ UNCHANGED machineVars /\ Fault("wol")

\* An attempt; an error of the agent is ignored.
Wake ==
    /\ pc = "wake"
    /\ \/ /\ AttemptLeft
          /\ SendWOLRequest(cand)
          /\ attempt' = attempt + 1
          /\ pc' = "await"
          /\ UNCHANGED <<cand, todo, caller, cooling>>
       \/ /\ ~AttemptLeft
          /\ PowerOnFailed
          /\ NoFault
          /\ UNCHANGED machineVars
    /\ UNCHANGED <<objectVars, trackerVars, processVars>>

\* checkNodeReady; an error counts as not ready.
AwaitReady ==
    /\ pc = "await"
    /\ \/ cand \in ready /\ Goto("patchBooted") /\ NoFault
       \/ cand \notin ready /\ Goto("pause") /\ NoFault
       \/ Fault("api") /\ Goto("pause")
    /\ UNCHANGED <<objectVars, trackerVars, machineVars, processVars>>

\* Five seconds later: look again ...
LookAgain ==
    /\ pc = "pause"
    /\ Goto("await")
    /\ NoFault
    /\ UNCHANGED <<objectVars, trackerVars, machineVars, processVars>>

\* ... or the boot timeout is over, and the next attempt is due.
BootTimeout ==
    /\ pc = "pause"
    /\ Goto("wake")
    /\ NoFault
    /\ UNCHANGED <<objectVars, trackerVars, machineVars, processVars>>

PersistBootTime ==
    /\ pc = "patchBooted"
    /\ \/ AnnotateBootedAt(cand) /\ Goto("uncordon") /\ NoFault
       \/ /\ Fault("api")
          /\ AnnotateBootedAt(cand) \/ UNCHANGED bootedAge
          /\ PowerOnFailed
    /\ UNCHANGED <<cordoned, annotated, offAge, trackerVars, machineVars,
                   processVars>>

UncordonBooted ==
    /\ pc = "uncordon"
    /\ \/ UncordonNode(cand) /\ Goto("clearAnnotation") /\ NoFault
       \/ /\ Fault("api")
          /\ UncordonNode(cand) \/ UNCHANGED cordoned
          /\ PowerOnFailed
    /\ UNCHANGED <<annotated, offAge, bootedAge, trackerVars, machineVars,
                   processVars>>

\* The cooldowns start only when every step before has succeeded.
ClearAndMarkBooted ==
    /\ pc = "clearAnnotation"
    /\ \/ /\ ClearPoweredOffAnnotation(cand)
          /\ MarkStarted(cand)
          /\ PowerOnSucceeded
          /\ NoFault
       \/ /\ Fault("api")
          /\ ClearPoweredOffAnnotation(cand) \/ UNCHANGED <<annotated, offAge>>
          /\ UNCHANGED trackerVars
          /\ PowerOnFailed
    /\ UNCHANGED <<cordoned, bootedAge, machineVars, processVars>>

-----------------------------------------------------------------------------
(* Scale-down. *)

\* PickScaleDownCandidate takes the last node of a shuffled list.  (The
\* variant is off by one.)
PickDownToMinNodes ==
    IF Cardinality(EligibleNodes) < MinNodes THEN {} ELSE EligibleNodes

ScaleDownCandidates ==
    IF Cardinality(EligibleNodes) <= MinNodes THEN {} ELSE EligibleNodes

\* List, filter, pick, and ask the strategies, which may agree or refuse.
MaybeScaleDown ==
    /\ pc = "scaleDown"
    /\ \/ /\ \E n \in ScaleDownCandidates : Pick(n, "drain")
          /\ UNCHANGED caller
          /\ NoFault
       \/ Goto("rotate") /\ NoFault
       \/ EndLoop /\ Fault("api")
    /\ UNCHANGED <<objectVars, trackerVars, machineVars, processVars>>

DrainInDryRunToo == Goto("cordon")

AfterPrecheck ==
    \/ DryRun /\ EndLoop
    \/ ~DryRun /\ Goto("cordon")

\* CordonAndDrain before the cordon: a dry run ends here, and an error from it
\* restores nothing.
DrainPrecheck ==
    /\ pc = "drain"
    /\ \/ /\ workload[cand] # "protected"
          /\ NoFault
          /\ AfterPrecheck
       \/ /\ \/ workload[cand] = "protected" /\ NoFault
             \/ Fault("api")
          /\ \/ DryRun /\ LeaveTo("rotate")
             \/ ~DryRun /\ Goto("restore")
    /\ UNCHANGED <<objectVars, trackerVars, machineVars, processVars>>

Cordon ==
    /\ pc = "cordon"
    /\ \/ SetUnschedulable(cand) /\ Goto("evict") /\ NoFault
       \/ /\ Fault("api")
          /\ SetUnschedulable(cand) \/ UNCHANGED cordoned
          /\ Goto("restore")
    /\ UNCHANGED <<annotated, offAge, bootedAge, trackerVars, machineVars,
                   processVars>>

DrainedOnceAccepted == workload[cand] # "protected"
Drained == workload[cand] = "idle"

\* A round of the poll loop: pods that can be evicted are, and the drain ends
\* when none is left.  It aborts on a protected pod, on an error, and when the
\* drain timeout is over (evictions denied, volumes attached).
DrainRound ==
    /\ pc = "evict"
    /\ \/ workload[cand] = "evictable" /\ Evict(cand) /\ Goto("evict") /\ NoFault
       \/ Drained /\ UNCHANGED machineVars /\ Goto("annotate") /\ NoFault
       \/ UNCHANGED machineVars /\ Goto("restore") /\ (NoFault \/ Fault("api"))
    /\ UNCHANGED <<objectVars, trackerVars, processVars>>

AnnotatePoweredOffNode ==
    /\ pc = "annotate"
    /\ \/ AnnotatePoweredOff(cand) /\ Goto("shutdown") /\ NoFault
       \/ /\ Fault("api")
          /\ AnnotatePoweredOff(cand) \/ UNCHANGED <<annotated, offAge>>
          /\ Goto("restore")
    /\ UNCHANGED <<cordoned, bootedAge, trackerVars, machineVars, processVars>>

\* ShutdownHTTPController.Shutdown succeeds (the disabled controller always
\* does) ...
ShutdownAccepted(n) ==
    /\ \/ ShutdownMode = "http" /\ AcceptShutdown(n)
       \/ ShutdownMode = "disabled" /\ UNCHANGED machineVars
    /\ NoFault

\* ... or fails: no daemon is found or it refuses, and nothing has happened;
\* or the answer is lost, and the request has its effect all the same.
ShutdownFailed(n) ==
    /\ ShutdownMode = "http"
    /\ \/ UNCHANGED machineVars /\ NoFault
       \/ AcceptShutdown(n) /\ Fault("reply")

\* The request, and what follows its answer
Shutdown ==
    /\ pc = "shutdown"
    /\ \/ /\ ShutdownAccepted(cand)
          /\ MarkStopped(cand)
          /\ EndLoop
       \/ /\ ShutdownFailed(cand)
          /\ Goto("undo")
          /\ UNCHANGED trackerVars
    /\ UNCHANGED <<objectVars, processVars>>

\* A failure to clear the annotation is logged and forgotten.
UndoAnnotation ==
    /\ pc = "undo"
    /\ \/ ClearPoweredOffAnnotation(cand) /\ NoFault
       \/ UNCHANGED <<annotated, offAge>> /\ Fault("api")
    /\ Goto("restore")
    /\ UNCHANGED <<cordoned, bootedAge, trackerVars, machineVars, processVars>>

LeaveCordoned ==
    /\ pc = "restore"
    /\ LeaveTo("rotate")
    /\ NoFault
    /\ UNCHANGED <<objectVars, trackerVars, machineVars, processVars>>

\* restoreScheduling, the same
RestoreScheduling ==
    /\ pc = "restore"
    /\ \/ UncordonNode(cand) /\ NoFault
       \/ UNCHANGED cordoned /\ Fault("api")
    /\ LeaveTo("rotate")
    /\ UNCHANGED <<annotated, offAge, bootedAge, trackerVars, machineVars,
                   processVars>>

-----------------------------------------------------------------------------
(* Rotation. *)

\* Adding one node must put the cluster above MinNodes ...
RotationSafe == Cardinality(EligibleNodes) + 1 > MinNodes

\* ... and PickRotationPoweroffCandidate find a node to retire later.  The load
\* gates, if enabled, may let none through.
RetireeFound == EligibleNodes # {}
NoRetireeFound == EligibleNodes = {} \/ LoadAverage

MaybeRotate ==
    /\ pc = "rotate"
    /\ \/ /\ Rotation
          /\ RotationSafe
          /\ RetireeFound
          /\ \E n \in MostOverdue : CallPowerOn(n, "rotate")
          /\ NoFault
       \/ /\ \/ ~Rotation \/ Overdue = {} \/ ~RotationSafe \/ NoRetireeFound
          /\ EndLoop
          /\ NoFault
       \/ /\ EndLoop
          /\ Fault("api")
    /\ UNCHANGED <<objectVars, trackerVars, machineVars, processVars>>

-----------------------------------------------------------------------------
(* The process dies, and everything it knew is gone. *)

Crash ==
    /\ pc # "down"
    /\ Fault("crash")
    /\ pc' = "down"
    /\ cand' = NoNode
    /\ todo' = {}
    /\ caller' = "none"
    /\ attempt' = 0
    /\ cooling' = FALSE
    /\ force' = FALSE
    /\ downAge' = 0
    /\ NewTracker
    /\ UNCHANGED <<objectVars, machineVars>>

(***************************************************************************)
(* Time.  The shutdown request and the loss of Ready that follows it are   *)
(* over StopLatency ticks after the annotation was written, and so is a    *)
(* recovery pass that listed the node while it was still Ready.            *)
(***************************************************************************)
StopInTime(n) == offAge[n] + 1 < StopLatency

Tick ==
    /\ pc = "shutdown" => StopInTime(cand)
    /\ \A n \in Nodes :
         Stopped(n) /\ (n \in ready \/ (pc \in RecoverSteps /\ n \in todo))
            => StopInTime(n)
    /\ AgeTimestamps
    /\ AgeMachines
    /\ downAge' = Older(downAge, BootstrapCooldown)
    /\ NoFault
    /\ UNCHANGED <<pc, loopVars, force>>

controllerVars == <<objectVars, trackerVars, pc, loopVars, processVars>>

\* What a machine does once it has been told to stop or to boot
Settle(n) ==
    /\ PowerDown(n) \/ LoseReady(n) \/ BecomeReady(n)
    /\ NoFault
    /\ UNCHANGED controllerVars

Environment(n) ==
    \/ Settle(n)
    \/ /\ \/ (Schedule(n) \/ Finish(n)) /\ NoFault
          \/ Flap(n) /\ Fault("flap")
          \/ ManualBoot(n) /\ Fault("boot")
       /\ UNCHANGED controllerVars

-----------------------------------------------------------------------------

\* The nodes an earlier process left off are recorded as such.
Init ==
    \E off \in SUBSET ManagedNodes :
        /\ cordoned = off
        /\ annotated = off
        /\ offAge = [n \in Nodes |-> OffCap]
        /\ bootedAge = [n \in Nodes |-> BootCooldown]
        /\ poweredOff = {}
        /\ shutdownAge = [n \in Nodes |-> Cooldown]
        /\ bootAge = [n \in Nodes |-> BootCooldown]
        /\ lastOpAge = Cooldown
        /\ power = [n \in Nodes |-> IF n \in off THEN "off" ELSE "on"]
        /\ ready = Nodes \ off
        /\ workload = [n \in Nodes |-> "idle"]
        /\ upAge = [n \in Nodes |-> BootCooldown]
        /\ pc = "down"
        /\ cand = NoNode
        /\ todo = {}
        /\ caller = "none"
        /\ attempt = 0
        /\ cooling = FALSE
        /\ force = FALSE
        /\ downAge = BootstrapCooldown
        /\ faultsLeft = MaxFaults

LoopHead == \/ Restart \/ StartLoop \/ RecoverUncordon \/ RecoverPatch
            \/ RecoverDone \/ ClearCachedOff \/ ForceNext

ScaleUp == \/ MaybeScaleUp \/ PowerOn \/ Wake \/ AwaitReady \/ LookAgain
           \/ BootTimeout \/ PersistBootTime \/ UncordonBooted
           \/ ClearAndMarkBooted

ScaleDown == \/ MaybeScaleDown \/ DrainPrecheck \/ Cordon \/ DrainRound
             \/ AnnotatePoweredOffNode \/ Shutdown \/ UndoAnnotation
             \/ RestoreScheduling \/ MaybeRotate

Controller == LoopHead \/ ScaleUp \/ ScaleDown

Next == Controller \/ Crash \/ Tick \/ \E n \in Nodes : Environment(n)

Spec == Init /\ [][Next]_vars

(***************************************************************************)
(* Fairness.  The loop of main runs for ever and each of its calls ends;   *)
(* a boot timeout, tested after every pause, cannot be put off for ever;   *)
(* time passes; a machine completes what it has begun, and the Ready       *)
(* condition follows it.  Nothing is assumed of pods or of faults beyond   *)
(* their being finite in number.                                           *)
(***************************************************************************)
Fairness ==
    /\ WF_vars(Controller)
    /\ SF_vars(BootTimeout)
    /\ WF_vars(Tick)
    /\ \A n \in Nodes : WF_vars(Settle(n))

FairSpec == Spec /\ Fairness

-----------------------------------------------------------------------------
(* Safety. *)

\* The deployment the power-off guarantees are for: nodes are really woken,
\* no answer to an accepted shutdown is lost, and a stopped node stops being
\* Ready before the autoscaler, freshly started or not, acts on it again.
SoundDeployment ==
    /\ PowerOnMode = "wol"
    /\ "reply" \notin Faults
    /\ StopLatency <= RecoverGrace
    /\ StopLatency <= Cooldown
    /\ StopLatency <= BootstrapCooldown

\* A machine that accepted a shutdown (Shutdown in MaybeScaleDown) stays
\* marked as powered off and unschedulable on its Node object until it boots
\* again, whatever fails or crashes: neither recovery nor a scale-up nor a
\* forced power-on takes its stale Ready condition for a boot.
OffIsRecorded ==
    \A n \in Nodes : Stopped(n) => n \in annotated /\ n \in cordoned

\* A machine that accepted a shutdown runs no pod, from before CordonAndDrain
\* let it go until it boots again: none was left on it and none is bound to
\* it while it goes down.
NoWorkLost == \A n \in Nodes : Stopped(n) => workload[n] = "idle"

\* A node is not retired (MaybeScaleDown) within the boot cooldown of its
\* last boot from off, even one nobody ordered, and even if the autoscaler was
\* restarted in between and lost its tracker.
FreshBootProtected == pc \in RetireSteps => upAge[cand] >= BootCooldown

\* Managed nodes that are neither cordoned nor marked powered off
InService == ManagedNodes \ (cordoned \cup annotated)

\* No step takes a node out of service when that leaves fewer than MinNodes
\* in service, across failed calls, aborted drains and restarts
\* (PickScaleDownCandidate and the calls after it).
FloorKept ==
    [][Cardinality(InService') < Cardinality(InService)
         => Cardinality(InService') >= MinNodes]_vars

\* Unless a call to the API server fails or the process dies, a node that is
\* left cordoned between two loops is marked as powered off, so that scale-up,
\* rotation or recovery can bring it back: an aborted drain restores it.
NoStrandedCordon == pc = "idle" => cordoned \subseteq annotated

\* While a shutdown is younger than the cooldown, no other node is retired or
\* powered on, except by force (global cooldown, without a restart).
StopsAreSpaced ==
    pc \in RetireSteps \/ (pc \in PowerOnSteps /\ caller # "force") =>
        \A n \in Nodes \ {cand} : Stopped(n) => offAge[n] >= Cooldown

\* A dry run writes to no Node object, and stops and boots no machine.
DryRunIsReadOnly ==
    [][UNCHANGED <<cordoned, annotated, power>> /\
       \A n \in Nodes : bootedAge'[n] >= bootedAge[n]]_vars

-----------------------------------------------------------------------------
(* Liveness. *)

\* A node that is on but still marked as powered off, because somebody booted
\* it, or because waking it took longer than the autoscaler waited, is
\* eventually schedulable and unmarked, unless it is shut down after all.
BootedNodeRejoins ==
    \A n \in ManagedNodes :
        ~Stopped(n) /\ n \in annotated
            ~> n \notin annotated \cup cordoned \/ Stopped(n)

\* The cluster always gets back to MinNodes active nodes.
MinNodesMaintained == []<>(Cardinality(ActiveNodes(ready)) >= MinNodes)

\* A running node does not keep the mark of a powered-off one (docs/README:
\* "presence means off"; MaybeScaleDown: "Abort without claiming the node is
\* off if any prerequisite fails").
MarkIsCleared ==
    \A n \in ManagedNodes :
        ~Stopped(n) /\ n \in annotated ~> n \notin annotated \/ Stopped(n)
=============================================================================
