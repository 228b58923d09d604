------------------------------- MODULE Drain -------------------------------
(***************************************************************************)
(* CordonAndDrain (src/pkg/controller/drain.go), pod by pod, beside the    *)
(* controllers that replace pods, the kubelet that terminates them and the *)
(* attach/detach controller.                                               *)
(*                                                                         *)
(* A pod has a name that its owner may use again, as a StatefulSet does, a *)
(* UID that nobody uses again, and one of four kinds:                      *)
(*                                                                         *)
(*   daemon     mirror or DaemonSet pod: skipped                           *)
(*   service    controlled pod that may be evicted                         *)
(*   pinned     unfinished Job, unmanaged pod, extended resources, or      *)
(*              safe-to-evict "false": vetoes the drain                    *)
(*   finished   succeeded or failed: evicted, and waited for               *)
(*                                                                         *)
(* A round of the poll loop lists the pods once and then evicts them one   *)
(* by one: by its turn, a pod may be gone or replaced.                     *)
(***************************************************************************)
EXTENDS Integers, FiniteSets

CONSTANTS
    Node,           \* the node that is drained
    NoNode,
    Names,          \* names of pods
    KindOf,         \* the kind of a new pod of that name
    WithVolume,     \* names whose pods use a persistent volume
    DryRun,         \* dryRun
    MaxUid          \* bound: how often a pod is replaced

ASSUME DrainAssumption ==
    /\ KindOf \in [Names -> {"daemon", "service", "pinned"}]
    /\ WithVolume \subseteq Names
    /\ DryRun \in BOOLEAN
    /\ MaxUid \in Nat \ {0}

VARIABLES
    pod,            \* the pod of each name, or what is left of it
    cordon,         \* the node is unschedulable
    inUse,          \* names whose volume is in the node's VolumesInUse
    attached,       \* names whose volume has a VolumeAttachment on the node
    step,           \* the next call of the drain
    listed,         \* pods of the last list that have not had their turn
    accepted,       \* name and UID of the pods whose eviction was accepted
    remaining,      \* the round has met a pod it has to wait for
    faultsLeft      \* a call before the first round may fail once

clusterVars == <<pod, inUse, attached>>
drainVars == <<cordon, step, listed, accepted, remaining, faultsLeft>>
vars == <<clusterVars, drainVars>>

Exists(x) == pod[x].exists
Here(x) == pod[x].exists /\ pod[x].here

NewPod(x, uid, here) == [uid |-> uid, exists |-> TRUE, here |-> here,
                         dying |-> FALSE, kind |-> KindOf[x]]

\* What is left of a pod is that its UID has been used.
NoPod(x, uid) == [NewPod(x, uid, FALSE) EXCEPT !.exists = FALSE]

Pods == [uid : 0 .. MaxUid, exists : BOOLEAN, here : BOOLEAN, dying : BOOLEAN,
         kind : {"daemon", "service", "pinned", "finished"}]

Rounds == {"list", "evict", "volumes", "attachments"}

TypeOK ==
    /\ pod \in [Names -> Pods]
    /\ cordon \in BOOLEAN
    /\ inUse \subseteq WithVolume
    /\ attached \subseteq WithVolume
    /\ step \in {"drain", "cordon", "annotate", "restore", "rotate", "idle"}
                \cup Rounds
    /\ \A p \in listed : p.name \in Names /\ p.uid \in 1 .. MaxUid
    /\ accepted \subseteq Names \X (1 .. MaxUid)
    /\ remaining \in BOOLEAN
    /\ faultsLeft \in 0 .. 1

-----------------------------------------------------------------------------
(* The drain. *)

SkipDrain(p) == p.kind = "daemon"
DrainBlocker(p) == p.kind = "pinned"

PodsOnNode ==
    {[name |-> x, uid |-> pod[x].uid, kind |-> pod[x].kind, dying |-> pod[x].dying]
        : x \in {y \in Names : Here(y)}}

\* Go on; forget the round.
Leave(to) ==
    /\ step' = to
    /\ listed' = {}
    /\ remaining' = FALSE
    /\ UNCHANGED accepted

Fault == faultsLeft > 0 /\ faultsLeft' = faultsLeft - 1
NoFault == UNCHANGED faultsLeft

\* The list before the cordon.  A dry run goes no further.
Precheck ==
    /\ step = "drain"
    /\ \/ /\ ~\E p \in PodsOnNode : DrainBlocker(p)
          /\ Leave(IF DryRun THEN "idle" ELSE "cordon")
          /\ NoFault
       \/ /\ \E p \in PodsOnNode : DrainBlocker(p)
          /\ Leave(IF DryRun THEN "rotate" ELSE "restore")
          /\ NoFault
       \/ /\ Fault
          /\ Leave(IF DryRun THEN "rotate" ELSE "restore")
    /\ UNCHANGED <<clusterVars, cordon>>

\* An update that fails may have taken effect.
CordonNode ==
    /\ step = "cordon"
    /\ \/ cordon' = TRUE /\ Leave("list") /\ NoFault
       \/ cordon' \in {cordon, TRUE} /\ Leave("restore") /\ Fault
    /\ UNCHANGED clusterVars

ListPods ==
    /\ step = "list"
    /\ step' = "evict"
    /\ listed' = PodsOnNode
    /\ remaining' = FALSE
    /\ UNCHANGED <<clusterVars, cordon, accepted, faultsLeft>>

-----------------------------------------------------------------------------
(* One pod of the list. *)

CountsUnlessAccepted(p) == <<p.name, p.uid>> \notin accepted
Counts(p) == ~SkipDrain(p)

\* Accepted earlier, or terminating already: only waited for
NeedsEviction(p) == <<p.name, p.uid>> \notin accepted /\ ~p.dying

\* The turn of p is over.
Handled(p) ==
    /\ listed' = listed \ {p}
    /\ remaining' = (remaining \/ Counts(p))
    /\ UNCHANGED <<step, cordon, faultsLeft>>

\* A pod that is skipped, or only waited for
PassPod ==
    /\ step = "evict"
    /\ \E p \in listed :
         /\ ~DrainBlocker(p)
         /\ SkipDrain(p) \/ ~NeedsEviction(p)
         /\ Handled(p)
    /\ UNCHANGED <<clusterVars, accepted>>

\* The precondition of the eviction: the name still belongs to the listed pod.
MatchesName(p) == Exists(p.name)
Matches(p) == Exists(p.name) /\ pod[p.name].uid = p.uid

AcceptedByName(p) == accepted' = accepted \cup {p.name}
AcceptedWhenAsked(p) == accepted' = accepted \cup {<<p.name, p.uid>>}

\* Gone (404), replaced (409), or denied by a disruption budget (429): the next
\* round tries again.
AcceptedStays(p) == UNCHANGED accepted

EvictionDenied ==
    /\ step = "evict"
    /\ \E p \in listed :
         /\ ~DrainBlocker(p) /\ ~SkipDrain(p) /\ NeedsEviction(p)
         /\ Handled(p)
         /\ AcceptedStays(p)
    /\ UNCHANGED clusterVars

EvictionAccepted(x) ==
    /\ step = "evict"
    /\ \E p \in listed :
         /\ p.name = x
         /\ ~DrainBlocker(p) /\ ~SkipDrain(p) /\ NeedsEviction(p)
         /\ Matches(p)
         /\ pod' = [pod EXCEPT ![x].dying = TRUE]
         /\ accepted' = accepted \cup {<<x, p.uid>>}
         /\ Handled(p)
    /\ UNCHANGED <<inUse, attached>>

\* A pod that came to the node since the precheck and vetoes the drain
MeetBlocker ==
    /\ step = "evict"
    /\ \E p \in listed : DrainBlocker(p)
    /\ Leave("restore")
    /\ UNCHANGED <<clusterVars, cordon, faultsLeft>>

-----------------------------------------------------------------------------
(* The end of a round. *)

EndOfList ==
    /\ step = "evict"
    /\ listed = {}
    /\ Leave(IF remaining THEN "list" ELSE "volumes")
    /\ UNCHANGED <<clusterVars, cordon, faultsLeft>>

CheckVolumesInUse ==
    /\ step = "volumes"
    /\ Leave(IF inUse # {} THEN "list" ELSE "attachments")
    /\ UNCHANGED <<clusterVars, cordon, faultsLeft>>

AttachmentsIgnored == FALSE
HasAttachments == attached # {}

CheckAttachments ==
    /\ step = "attachments"
    /\ Leave(IF HasAttachments THEN "list" ELSE "annotate")
    /\ UNCHANGED <<clusterVars, cordon, faultsLeft>>

\* An error of any call in a round, or the end of the drain's context
AbortRound ==
    /\ step \in Rounds
    /\ Leave("restore")
    /\ UNCHANGED <<clusterVars, cordon, faultsLeft>>

\* restoreScheduling by MaybeScaleDown; its error is logged and forgotten.
RestoreScheduling ==
    /\ step = "restore"
    /\ \/ cordon' = FALSE /\ NoFault
       \/ UNCHANGED cordon /\ Fault
    /\ Leave("rotate")
    /\ UNCHANGED clusterVars

-----------------------------------------------------------------------------
(* The rest of the cluster. *)

\* The owner of x creates its next pod, and the scheduler binds it: to the node
\* only while that is schedulable, a DaemonSet's to the node in any case.
Create(x) ==
    /\ ~Exists(x)
    /\ pod[x].uid < MaxUid
    /\ \E here \in BOOLEAN :
         /\ KindOf[x] = "daemon" => here
         /\ here => ~cordon \/ KindOf[x] = "daemon"
         /\ pod' = [pod EXCEPT ![x] = NewPod(x, pod[x].uid + 1, here)]
    /\ UNCHANGED <<inUse, attached, drainVars>>

\* Somebody deletes the pod.
Delete(x) ==
    /\ Exists(x) /\ ~pod[x].dying
    /\ pod' = [pod EXCEPT ![x].dying = TRUE]
    /\ UNCHANGED <<inUse, attached, drainVars>>

\* The kubelet has stopped a pod, and its object goes.
Terminate(x) ==
    /\ Exists(x) /\ pod[x].dying
    /\ pod' = [pod EXCEPT ![x] = NoPod(x, pod[x].uid)]
    /\ UNCHANGED <<inUse, attached, drainVars>>

Complete(x) ==
    /\ Exists(x) /\ pod[x].kind = "pinned"
    /\ pod' = [pod EXCEPT ![x].kind = "finished"]
    /\ UNCHANGED <<inUse, attached, drainVars>>

\* A volume is attached, mounted, unmounted and detached.
Attach(x) ==
    /\ x \in WithVolume \ attached
    /\ Here(x)
    /\ attached' = attached \cup {x}
    /\ UNCHANGED <<pod, inUse, drainVars>>

Mount(x) ==
    /\ x \in attached \ inUse
    /\ Here(x)
    /\ inUse' = inUse \cup {x}
    /\ UNCHANGED <<pod, attached, drainVars>>

Unmount(x) ==
    /\ x \in inUse
    /\ ~Here(x)
    /\ inUse' = inUse \ {x}
    /\ UNCHANGED <<pod, attached, drainVars>>

Detach(x) ==
    /\ x \in attached \ inUse
    /\ ~Here(x)
    /\ attached' = attached \ {x}
    /\ UNCHANGED <<pod, inUse, drainVars>>

-----------------------------------------------------------------------------

\* MaybeScaleDown has picked the node; its pods are running.
Init ==
    /\ \E on \in SUBSET Names :
         /\ pod = [x \in Names |->
                     IF x \in on THEN NewPod(x, 1, TRUE) ELSE NoPod(x, 0)]
         /\ inUse = on \cap WithVolume
         /\ attached = on \cap WithVolume
    /\ cordon = FALSE
    /\ step = "drain"
    /\ listed = {}
    /\ accepted = {}
    /\ remaining = FALSE
    /\ faultsLeft = 1

DrainStep ==
    \/ Precheck \/ CordonNode \/ ListPods \/ PassPod \/ EvictionDenied
    \/ (\E x \in Names : EvictionAccepted(x))
    \/ MeetBlocker \/ EndOfList \/ CheckVolumesInUse \/ CheckAttachments
    \/ AbortRound \/ RestoreScheduling

Cluster(x) == \/ Create(x) \/ Delete(x) \/ Terminate(x) \/ Complete(x)
              \/ Attach(x) \/ Mount(x) \/ Unmount(x) \/ Detach(x)

Next == DrainStep \/ \E x \in Names : Cluster(x)

Spec == Init /\ [][Next]_vars

(***************************************************************************)
(* Fairness.  The drain goes on; a budget that denies an eviction allows   *)
(* it in the end; a pod that is to go goes, and so does its volume.        *)
(***************************************************************************)
Fairness ==
    /\ WF_vars(DrainStep)
    /\ \A x \in Names : SF_vars(EvictionAccepted(x)) /\ WF_vars(Terminate(x))
    /\ \A x \in WithVolume : WF_vars(Unmount(x)) /\ WF_vars(Detach(x))

FairSpec == Spec /\ Fairness

-----------------------------------------------------------------------------
(* Properties. *)

\* The drain evicts no pod that runs on another node: one that got the name of
\* a listed pod, and was bound elsewhere, before its turn came (the UID
\* precondition of the eviction).
EvictsOnlyHere ==
    [][\A x \in Names : pod'[x] # pod[x] /\ listed' # listed => pod[x].here]_vars

\* A drain that succeeds leaves no volume mounted or attached, although pods,
\* VolumesInUse and VolumeAttachments are read one after the other.
VolumesDetached == step = "annotate" => inUse = {} /\ attached = {}

\* Denied evictions are retried, accepted ones are waited for: a drain that
\* meets no error, no veto and no timeout succeeds.
DrainCompletes ==
    [](step # "restore") => (step = "cordon" ~> step = "annotate")

-----------------------------------------------------------------------------
(* The control loop's view of the drain. *)

PinnedHere == \E x \in Names : Here(x) /\ pod[x].kind = "pinned"
OthersHere == \E x \in Names : Here(x) /\ pod[x].kind \in {"service", "finished"}

Workload == CASE PinnedHere -> "protected"
              [] ~PinnedHere /\ OthersHere -> "evictable"
              [] OTHER -> "idle"

PC == IF step \in Rounds THEN "evict" ELSE step

Const(v) == [n \in {Node} |-> v]

Loop == INSTANCE Reconciler WITH
    Nodes <- {Node}, HasManagedLabel <- {Node}, HasMAC <- {Node},
    HasDisabledLabel <- {}, HasIgnoreKey <- {}, HasExemptLabel <- {},
    MinNodes <- 0, Cooldown <- 0, BootCooldown <- 0, RecoverGrace <- 0,
    MaxOff <- 0, OffCap <- 0, WorkKinds <- {"evictable", "protected"},
    ForceModes <- {FALSE}, LoadAverage <- FALSE, Rotation <- FALSE,
    PowerOnMode <- "wol", ShutdownMode <- "http", MaxRetries <- 1,
    BootstrapCooldown <- 0, StopLatency <- 1, Faults <- {"api"},
    MaxFaults <- 1,
    cordoned <- IF cordon THEN {Node} ELSE {}, annotated <- {},
    offAge <- Const(0), bootedAge <- Const(0), poweredOff <- {},
    shutdownAge <- Const(0), bootAge <- Const(0), lastOpAge <- 0,
    power <- Const("on"), ready <- {Node}, workload <- Const(Workload),
    upAge <- Const(0), pc <- PC,
    cand <- IF step \in {"rotate", "idle"} THEN NoNode ELSE Node,
    todo <- {}, caller <- "none", attempt <- 0, cooling <- FALSE,
    force <- FALSE, downAge <- 0

\* Pod by pod, the drain does nothing that the control loop's own steps of a
\* drain do not do to the most protected pod of the node: in particular it ends
\* in success only when no pod but those of DaemonSets is left, whatever was
\* replaced or bound to the node while it ran, and a veto always aborts it.
RefinesLoop ==
    [][\/ Loop!DrainPrecheck \/ Loop!Cordon \/ Loop!DrainRound
       \/ Loop!RestoreScheduling \/ Loop!Environment(Node)]_(Loop!vars)
=============================================================================
