------------------------------ MODULE Nodeops ------------------------------
(***************************************************************************)
(* What the autoscaler knows about its nodes, and the filters that read    *)
(* it (src/pkg/nodeops).  Two stores hold that knowledge:                  *)
(*                                                                         *)
(*   - the Node objects of the API server, which survive a restart of the  *)
(*     autoscaler: the unschedulable flag (cordoned), the annotation       *)
(*     cba.dev/was-powered-off with its timestamp (annotated, offAge) and  *)
(*     the annotation cba.dev/booted-at (bootedAge);                       *)
(*   - the NodeStateTracker, which does not (poweredOff, shutdownAge,      *)
(*     bootAge, lastOpAge).                                                *)
(*                                                                         *)
(* A timestamp t is represented by its age, now - t, in ticks.  The code   *)
(* only compares ages with thresholds, so an age is cut off at the largest *)
(* threshold it is compared with, and a timestamp that is missing has that *)
(* largest age: a missing entry and an old one are treated alike.          *)
(*                                                                         *)
(* Here and in Reconciler, a few definitions are preceded by a variant     *)
(* with a plausible mistake (NeverInCooldown, NoGrace, ...).  Nothing uses *)
(* the variants: they are put in the definition's place to see that the    *)
(* properties notice.                                                      *)
(***************************************************************************)
EXTENDS Integers, FiniteSets

CONSTANTS
    Nodes,              \* the Node objects of the cluster
    HasManagedLabel,    \* nodes with nodeLabels.managed = "true"
    HasDisabledLabel,   \* nodes with nodeLabels.disabled = "true"
    HasIgnoreKey,       \* nodes with some key of ignoreLabels
    HasExemptLabel,     \* nodes with a non-empty rotation.exemptLabel
    HasMAC,             \* nodes whose MAC annotation is set
    MinNodes,           \* minNodes
    Cooldown,           \* cooldown
    BootCooldown,       \* bootCooldown
    RecoverGrace,       \* the two minutes of RecoverUnexpectedlyBootedNodes
    MaxOff,             \* rotation.maxPoweredOffDuration
    OffCap              \* bound: ages of was-powered-off are cut off here

ASSUME NodesFinite == IsFiniteSet(Nodes)

ASSUME LabelSets == /\ HasManagedLabel \subseteq Nodes
                    /\ HasDisabledLabel \subseteq Nodes
                    /\ HasIgnoreKey \subseteq Nodes
                    /\ HasExemptLabel \subseteq Nodes
                    /\ HasMAC \subseteq Nodes

ASSUME Thresholds == /\ MinNodes \in Nat
                     /\ Cooldown \in Nat
                     /\ BootCooldown \in Nat
                     /\ RecoverGrace \in Nat
                     /\ MaxOff \in Nat
                     /\ OffCap \in Nat
                     /\ RecoverGrace <= OffCap
                     /\ MaxOff <= OffCap

VARIABLES
    cordoned,       \* nodes with spec.unschedulable
    annotated,      \* nodes with the annotation was-powered-off
    offAge,         \* age of that annotation's timestamp
    bootedAge,      \* age of the timestamp in booted-at
    poweredOff,     \* tracker: the set poweredOff
    shutdownAge,    \* tracker: age of shutdownTimestamps[n]
    bootAge,        \* tracker: age of bootTimestamps[n]
    lastOpAge       \* tracker: age of LastShutdownTime

objectVars == <<cordoned, annotated, offAge, bootedAge>>
trackerVars == <<poweredOff, shutdownAge, bootAge, lastOpAge>>

NodeopsTypeOK ==
    /\ cordoned \subseteq Nodes
    /\ annotated \subseteq Nodes
    /\ offAge \in [Nodes -> 0 .. OffCap]
    /\ bootedAge \in [Nodes -> 0 .. BootCooldown]
    /\ poweredOff \subseteq Nodes
    /\ shutdownAge \in [Nodes -> 0 .. Cooldown]
    /\ bootAge \in [Nodes -> 0 .. BootCooldown]
    /\ lastOpAge \in 0 .. Cooldown

-----------------------------------------------------------------------------
(* The tracker. *)

NewTracker ==
    /\ poweredOff' = {}
    /\ shutdownAge' = [n \in Nodes |-> Cooldown]
    /\ bootAge' = [n \in Nodes |-> BootCooldown]
    /\ lastOpAge' = Cooldown

MarkStoppedLocally(n) ==
    /\ poweredOff' = poweredOff \cup {n}
    /\ shutdownAge' = [shutdownAge EXCEPT ![n] = 0]
    /\ UNCHANGED <<bootAge, lastOpAge>>

\* MarkGlobalShutdown, MarkShutdown and MarkPoweredOff, in one go
MarkStopped(n) ==
    /\ poweredOff' = poweredOff \cup {n}
    /\ shutdownAge' = [shutdownAge EXCEPT ![n] = 0]
    /\ lastOpAge' = 0
    /\ UNCHANGED bootAge

\* MarkGlobalShutdown and MarkBooted
MarkStarted(n) ==
    /\ bootAge' = [bootAge EXCEPT ![n] = 0]
    /\ lastOpAge' = 0
    /\ UNCHANGED shutdownAge

NeverInCooldown == FALSE
IsGlobalCooldownActive == lastOpAge < Cooldown

-----------------------------------------------------------------------------
(* The writes to a Node object. *)

SetUnschedulable(n) == cordoned' = cordoned \cup {n}

UncordonNode(n) == cordoned' = cordoned \ {n}

AnnotatePoweredOff(n) ==
    /\ annotated' = annotated \cup {n}
    /\ offAge' = [offAge EXCEPT ![n] = 0]

ClearNothing(n) == UNCHANGED <<annotated, offAge>>

ClearPoweredOffAnnotation(n) ==
    /\ annotated' = annotated \ {n}
    /\ offAge' = [offAge EXCEPT ![n] = OffCap]

AnnotateBootedAt(n) == bootedAge' = [bootedAge EXCEPT ![n] = 0]

-----------------------------------------------------------------------------
(* The filters over the Node objects and the tracker. *)

\* ListManagedNodes: the presence of an ignore key is enough to exclude.
ManagedNodes == HasManagedLabel \ (HasDisabledLabel \cup HasIgnoreKey)

IsMarkedPoweredOff(n) == n \in annotated \/ n \in poweredOff

IsInShutdownCooldown(n) == shutdownAge[n] < Cooldown

BootCooldownInMemory(n) == bootAge[n] < BootCooldown
IsInBootCooldown(n) == bootedAge[n] < BootCooldown \/ bootAge[n] < BootCooldown

\* ListActiveNodes, of the nodes that report Ready
ActiveNodes(ready) ==
    {n \in ManagedNodes : /\ n \notin cordoned
                          /\ ~IsMarkedPoweredOff(n)
                          /\ n \in ready}

\* FilterShutdownEligibleNodes: readiness is not one of its criteria.
EligibleNodes ==
    {n \in ManagedNodes : /\ ~IsMarkedPoweredOff(n)
                          /\ n \notin cordoned
                          /\ ~IsInShutdownCooldown(n)
                          /\ ~IsInBootCooldown(n)}

\* ListShutdownNodeNames: a node known off only to the tracker sorts first.
ShutdownByThisProcess == ManagedNodes \cap poweredOff
ShutdownNodes == {n \in ManagedNodes : IsMarkedPoweredOff(n)}

PoweredOffAge(n) == IF n \in annotated THEN offAge[n] ELSE OffCap

\* The head of that list.  The sort is not stable: a tie goes either way.
LongestOff ==
    {n \in ShutdownNodes :
        \A m \in ShutdownNodes : PoweredOffAge(m) <= PoweredOffAge(n)}

\* MaybeRotate, phase 1: the overdue node that is off the longest
Overdue == {n \in ManagedNodes \ HasExemptLabel :
                n \in annotated /\ offAge[n] >= MaxOff}

MostOverdue == {n \in Overdue : \A m \in Overdue : offAge[m] <= offAge[n]}

\* What RecoverUnexpectedlyBootedNodes reads off its list of nodes ...
RecoverCandidates(ready) ==
    {n \in ManagedNodes : n \in ready /\ n \in annotated /\ n \in cordoned}

\* ... and the age it checks when the node's turn comes.
NoGrace(n) == TRUE
InsideGrace(n) == offAge[n] < RecoverGrace
PastGrace(n) == offAge[n] >= RecoverGrace

-----------------------------------------------------------------------------
(* One tick on every clock. *)

Older(age, cap) == IF age < cap THEN age + 1 ELSE cap

AgeTimestamps ==
    /\ offAge' = [n \in Nodes |-> Older(offAge[n], OffCap)]
    /\ bootedAge' = [n \in Nodes |-> Older(bootedAge[n], BootCooldown)]
    /\ shutdownAge' = [n \in Nodes |-> Older(shutdownAge[n], Cooldown)]
    /\ bootAge' = [n \in Nodes |-> Older(bootAge[n], BootCooldown)]
    /\ lastOpAge' = Older(lastOpAge, Cooldown)
    /\ UNCHANGED <<cordoned, annotated, poweredOff>>
=============================================================================
