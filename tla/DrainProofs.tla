----------------------------- MODULE DrainProofs ---------------------------
(***************************************************************************)
(* What a drain does to the pods and volumes of a node of any size: it     *)
(* evicts only what runs there, it ends in success only when the node is   *)
(* empty and no volume is attached to it, and each of its steps is one the *)
(* control loop has for a drain.                                           *)
(***************************************************************************)
EXTENDS Drain, TLAPS

\* A pod that exists has a UID, and its kind says whether it is a daemon.
PodInv ==
    \A x \in Names :
        Exists(x) => /\ pod[x].uid >= 1
                     /\ pod[x].kind = "daemon" <=> KindOf[x] = "daemon"

\* A listed pod keeps its UID, and the pod with that UID stays where it was.
ListInv ==
    \A p \in listed :
        /\ p.uid <= pod[p.name].uid
        /\ Matches(p) => pod[p.name].here
        /\ p.kind = "daemon" <=> KindOf[p.name] = "daemon"

OnlyDaemonsHere == \A x \in Names : Here(x) => KindOf[x] = "daemon"

\* A pod that is still on the node when a round ends is one the round has met
\* (remaining) or has yet to meet: the cordon keeps out all but daemons.
RoundInv ==
    /\ step \in Rounds \cup {"annotate"} => cordon
    /\ step = "evict" /\ ~remaining =>
         \A x \in Names : Here(x) /\ KindOf[x] # "daemon"
                            => \E p \in listed : p.name = x
    /\ step \in {"volumes", "attachments", "annotate"} => OnlyDaemonsHere

VolumeInv ==
    /\ inUse \subseteq attached
    /\ step = "annotate" => attached = {}

DrainInv == TypeOK /\ PodInv /\ ListInv /\ RoundInv

-----------------------------------------------------------------------------

\* What a pod is at first, and what is left of it
LEMMA PodFields ==
    ASSUME NEW x \in Names, NEW u \in 0 .. MaxUid, NEW h \in BOOLEAN
    PROVE  /\ NewPod(x, u, h) \in Pods
           /\ NewPod(x, u, h).uid = u
           /\ NewPod(x, u, h).here = h
           /\ NewPod(x, u, h).kind = KindOf[x]
           /\ NoPod(x, u) \in Pods
           /\ NoPod(x, u).uid = u
           /\ ~NoPod(x, u).exists
BY DrainAssumption DEF NewPod, NoPod, Pods

\* The pods at the start are new, and none is listed.
LEMMA DrainInit == Init => DrainInv
<1> SUFFICES ASSUME Init PROVE DrainInv
    OBVIOUS
<1>1. cordon \in BOOLEAN /\ remaining \in BOOLEAN
    BY Zenon DEF Init
<1>2. PICK on \in SUBSET Names :
        /\ pod = [x \in Names |->
                     IF x \in on THEN NewPod(x, 1, TRUE) ELSE NoPod(x, 0)]
        /\ inUse = on \cap WithVolume
        /\ attached = on \cap WithVolume
    BY DEF Init
<1>3. ASSUME NEW x \in Names
      PROVE  /\ pod[x] \in Pods
             /\ Exists(x) => pod[x].uid = 1 /\ pod[x].kind = KindOf[x]
  <2>1. 0 \in 0 .. MaxUid /\ 1 \in 0 .. MaxUid
    BY DrainAssumption
  <2>2. QED
    BY <1>2, <2>1, PodFields DEF Exists
<1>4. TypeOK
  <2>1. pod \in [Names -> Pods]
    BY <1>2, <1>3
  <2>2. /\ step = "drain" /\ listed = {} /\ accepted = {} /\ faultsLeft = 1
        /\ inUse \subseteq WithVolume /\ attached \subseteq WithVolume
    BY <1>2, Zenon DEF Init
  <2>3. QED
    BY <1>1, <2>1, <2>2 DEF TypeOK
<1>5. PodInv
    BY <1>3 DEF PodInv
<1>6. ListInv /\ RoundInv
    BY DEF Init, ListInv, RoundInv, Rounds
<1>7. QED
    BY <1>4, <1>5, <1>6 DEF DrainInv

\* Pods begin to terminate, and nothing else about them changes.
OnlyDying ==
    \A x \in Names : /\ pod'[x].uid = pod[x].uid
                      /\ pod'[x].exists = pod[x].exists
                      /\ pod'[x].here = pod[x].here
                      /\ pod'[x].kind = pod[x].kind

\* That is what a deletion or an accepted eviction does.
LEMMA DyingPod ==
    ASSUME TypeOK, NEW x \in Names, pod' = [pod EXCEPT ![x].dying = TRUE]
    PROVE  /\ OnlyDying
           /\ pod' \in [Names -> Pods]
BY DEF TypeOK, OnlyDying, Pods

\* What each step of the cluster does to the pods: a pod comes to a cordoned
\* node only as a daemon, under a UID of its own, and never moves.
LEMMA DrainCluster ==
    ASSUME DrainInv, NEW x \in Names, Cluster(x)
    PROVE  DrainInv'
<1> USE DrainAssumption
    DEF DrainInv, TypeOK, PodInv, ListInv, RoundInv, OnlyDaemonsHere, Matches,
        Exists, Here, Rounds, clusterVars, drainVars
<1>1. CASE Create(x)
  <2>1. PICK here \in BOOLEAN :
          /\ here => ~cordon \/ KindOf[x] = "daemon"
          /\ pod' = [pod EXCEPT ![x] = NewPod(x, pod[x].uid + 1, here)]
    BY <1>1 DEF Create
  <2>2. pod[x].uid + 1 \in 0 .. MaxUid
    BY <1>1 DEF Create, Pods
  <2>3. QED
    BY <1>1, <2>1, <2>2, PodFields DEF Create, Pods
<1>2. CASE Delete(x)
  <2>1. /\ OnlyDying
        /\ pod' \in [Names -> Pods]
        /\ UNCHANGED <<inUse, attached, drainVars>>
    BY <1>2, DyingPod DEF Delete
  <2>2. TypeOK' /\ PodInv'
    BY <2>1 DEF OnlyDying
  <2>3. ListInv'
    BY <2>1 DEF OnlyDying
  <2>4. RoundInv'
    BY <2>1 DEF OnlyDying
  <2>5. QED
    BY <2>2, <2>3, <2>4
<1>3. CASE Terminate(x)
  <2>1. pod[x].uid \in 0 .. MaxUid
    BY DEF Pods
  <2>2. QED
    BY <1>3, <2>1, PodFields DEF Terminate
<1>4. CASE Complete(x)
    BY <1>4 DEF Complete, Pods
<1>5. CASE Attach(x) \/ Mount(x) \/ Unmount(x) \/ Detach(x)
    BY <1>5 DEF Attach, Mount, Unmount, Detach
<1>6. QED
    BY <1>1, <1>2, <1>3, <1>4, <1>5 DEF Cluster

\* The turn of a listed pod is over: it is one that does not count, or the round
\* has to be followed by another.
LEMMA HandledPod ==
    ASSUME DrainInv, step = "evict", NEW p \in listed, Handled(p), OnlyDying,
           pod' \in [Names -> Pods], UNCHANGED <<inUse, attached>>,
           accepted' \in SUBSET (Names \X (1 .. MaxUid))
    PROVE  DrainInv'
<1> USE DEF DrainInv
<1>1. /\ listed' = listed \ {p}
      /\ UNCHANGED <<step, cordon, faultsLeft>>
    BY DEF Handled
<1>2. remaining' \in BOOLEAN /\ (~remaining' => ~remaining /\ ~Counts(p))
    BY Zenon DEF Handled
<1>3. TypeOK'
    BY <1>1, <1>2 DEF TypeOK
<1>4. PodInv'
    BY DEF PodInv, Exists, OnlyDying
<1>5. ListInv'
    BY <1>1 DEF ListInv, Matches, Exists, OnlyDying, TypeOK
<1>6. RoundInv'
  <2>1. ASSUME ~remaining', NEW x \in Names, Here(x)', KindOf[x] # "daemon"
        PROVE  \E q \in listed' : q.name = x
    <3>1. PICK q \in listed : q.name = x
      BY <1>2, <2>1 DEF RoundInv, OnlyDying, Here
    <3>2. KindOf[p.name] = "daemon"
      BY <1>2, <2>1 DEF Counts, SkipDrain, ListInv
    <3>3. q # p
      BY <2>1, <3>1, <3>2
    <3>4. QED
      BY <1>1, <3>1, <3>3
  <2>2. QED
    BY <1>1, <2>1 DEF RoundInv, Rounds
<1>7. QED
    BY <1>3, <1>4, <1>5, <1>6

\* The drain's own steps
LEMMA DrainSteps ==
    ASSUME DrainInv, DrainStep
    PROVE  DrainInv'
<1> USE DrainAssumption
    DEF DrainInv, TypeOK, PodInv, ListInv, RoundInv, OnlyDaemonsHere, Matches,
        Exists, Here, Rounds, Leave, clusterVars
<1>1. CASE Precheck
  <2>1. cordon' \in BOOLEAN /\ remaining' \in BOOLEAN
    BY <1>1, Zenon DEF Precheck
  <2>2. QED
    BY <1>1, <2>1 DEF Precheck, Fault, NoFault
<1>2. CASE CordonNode
  <2>1. cordon' \in BOOLEAN /\ remaining' \in BOOLEAN
    BY <1>2, Zenon DEF CordonNode
  <2>2. step' = "list" => cordon'
    BY <1>2, Zenon DEF CordonNode
  <2>3. listed' = {} /\ step' \in {"list", "restore"}
    BY <1>2 DEF CordonNode
  <2>4. faultsLeft' \in 0 .. 1
    <3>1. faultsLeft' = faultsLeft \/ Fault
      BY <1>2, Zenon DEF CordonNode, NoFault
    <3>2. QED
      BY <3>1 DEF Fault
  <2>5. UNCHANGED <<pod, inUse, attached, accepted>>
    BY <1>2 DEF CordonNode
  <2>6. QED
    BY <2>1, <2>2, <2>3, <2>4, <2>5
<1>3. CASE ListPods
  <2>1. cordon' \in BOOLEAN /\ remaining' \in BOOLEAN
    BY <1>3, Zenon DEF ListPods
  <2>2. \A p \in listed' : /\ Here(p.name)
                           /\ p.name \in Names
                           /\ p.uid = pod[p.name].uid
                           /\ p.kind = pod[p.name].kind
    BY <1>3 DEF ListPods, PodsOnNode
  <2>3. \A x \in Names : Here(x) => \E p \in listed' : p.name = x
    <3> SUFFICES ASSUME NEW x \in Names, Here(x)
                 PROVE  \E p \in listed' : p.name = x
      OBVIOUS
    <3>1. [name |-> x, uid |-> pod[x].uid, kind |-> pod[x].kind,
           dying |-> pod[x].dying] \in listed'
      BY <1>3, Zenon DEF ListPods, PodsOnNode
    <3>2. QED
      BY <3>1
  <2>4. UNCHANGED <<pod, inUse, attached, cordon, accepted, faultsLeft>>
          /\ step = "list" /\ step' = "evict"
    BY <1>3 DEF ListPods
  <2>5. TypeOK' /\ PodInv'
    BY <2>1, <2>2, <2>4 DEF Pods
  <2>6. ListInv'
    BY <2>2, <2>4 DEF Pods
  <2>7. RoundInv'
    BY <2>3, <2>4
  <2>8. QED
    BY <2>5, <2>6, <2>7
<1>4. CASE PassPod
  <2>1. PICK p \in listed : Handled(p)
    BY <1>4 DEF PassPod
  <2>2. OnlyDying
    BY <1>4 DEF PassPod, OnlyDying
  <2>3. QED
    BY <1>4, <2>1, <2>2, HandledPod DEF PassPod
<1>5. CASE EvictionDenied
  <2>1. PICK p \in listed : Handled(p) /\ UNCHANGED accepted
    BY <1>5 DEF EvictionDenied, AcceptedStays
  <2>2. OnlyDying
    BY <1>5 DEF EvictionDenied, OnlyDying
  <2>3. QED
    BY <1>5, <2>1, <2>2, HandledPod DEF EvictionDenied
<1>6. ASSUME NEW x \in Names, EvictionAccepted(x)
      PROVE  DrainInv'
  <2>1. PICK p \in listed : /\ p.name = x
                            /\ pod' = [pod EXCEPT ![x].dying = TRUE]
                            /\ accepted' = accepted \cup {<<x, p.uid>>}
                            /\ Handled(p)
    BY <1>6 DEF EvictionAccepted
  <2>2. <<x, p.uid>> \in Names \X (1 .. MaxUid)
    OBVIOUS
  <2>3. QED
    BY <1>6, <2>1, <2>2, DyingPod, HandledPod DEF EvictionAccepted
<1>7. CASE MeetBlocker
    BY <1>7 DEF MeetBlocker
<1>8. CASE EndOfList
    BY <1>8 DEF EndOfList
<1>9. CASE CheckVolumesInUse \/ CheckAttachments
    BY <1>9 DEF CheckVolumesInUse, CheckAttachments
<1>10. CASE AbortRound
    BY <1>10 DEF AbortRound
<1>11. CASE RestoreScheduling
  <2>1. cordon' \in BOOLEAN /\ remaining' \in BOOLEAN
    BY <1>11, Zenon DEF RestoreScheduling
  <2>2. QED
    BY <1>11, <2>1 DEF RestoreScheduling, Fault, NoFault
<1>12. QED
    BY <1>1, <1>2, <1>3, <1>4, <1>5, <1>6, <1>7, <1>8, <1>9, <1>10, <1>11
    DEF DrainStep

\* The invariant is inductive.
LEMMA DrainInvStep == DrainInv /\ [Next]_vars => DrainInv'
<1> SUFFICES ASSUME DrainInv, [Next]_vars PROVE DrainInv'
    OBVIOUS
<1>1. CASE UNCHANGED vars
    BY <1>1
    DEF vars, clusterVars, drainVars, DrainInv, TypeOK, PodInv, ListInv, RoundInv,
        OnlyDaemonsHere, Matches, Exists, Here
<1>2. QED
    BY <1>1, DrainSteps, DrainCluster DEF Next

-----------------------------------------------------------------------------

\* The records of the drain stay in their types: pods are replaced under UIDs of
\* their own, and what was accepted is remembered by name and UID.
THEOREM DrainTypeCorrect == Spec => []TypeOK
<1>1. DrainInv => TypeOK
    BY DEF DrainInv
<1>2. QED
    BY <1>1, DrainInit, DrainInvStep, PTL DEF Spec

\* Whatever is replaced, moved or deleted while a list is worked off, the UID
\* precondition of the eviction keeps it to the pods of the drained node.
THEOREM EvictionsStayHere == Spec => EvictsOnlyHere
<1>1. ASSUME DrainInv, [Next]_vars, NEW x \in Names,
             pod'[x] # pod[x], listed' # listed
      PROVE  pod[x].here
  <2>1. PICK y \in Names : EvictionAccepted(y)
    BY <1>1
    DEF Next, Cluster, Create, Delete, Terminate, Complete, Attach, Mount, Unmount,
        Detach, DrainStep, Precheck, CordonNode, ListPods, PassPod, EvictionDenied,
        MeetBlocker, EndOfList, CheckVolumesInUse, CheckAttachments, AbortRound,
        RestoreScheduling, vars, clusterVars, drainVars
  <2>2. PICK p \in listed : /\ p.name = y
                            /\ Matches(p)
                            /\ pod' = [pod EXCEPT ![y].dying = TRUE]
    BY <2>1 DEF EvictionAccepted
  <2>3. x = y
    BY <1>1, <2>2 DEF DrainInv, TypeOK
  <2>4. QED
    BY <1>1, <2>2, <2>3 DEF DrainInv, ListInv
<1>2. DrainInv /\ [Next]_vars =>
        [\A x \in Names : pod'[x] # pod[x] /\ listed' # listed => pod[x].here]_vars
    BY <1>1
<1>3. QED
    BY <1>2, DrainInit, DrainInvStep, PTL DEF Spec, EvictsOnlyHere

\* If no daemon uses a persistent volume, a volume that is attached was attached
\* to a pod on the node: none comes once the others are gone.
LEMMA VolumeStep ==
    ASSUME \A x \in WithVolume : KindOf[x] # "daemon",
           DrainInv, VolumeInv, [Next]_vars
    PROVE  VolumeInv'
<1> USE DEF VolumeInv, clusterVars, drainVars
<1>1. CASE \E x \in Names : Create(x) \/ Delete(x) \/ Terminate(x) \/ Complete(x)
    BY <1>1 DEF Create, Delete, Terminate, Complete
<1>2. ASSUME NEW x \in Names, Attach(x)
      PROVE  VolumeInv'
  <2>1. step # "annotate"
    BY <1>2 DEF Attach, DrainInv, RoundInv, OnlyDaemonsHere
  <2>2. QED
    BY <1>2, <2>1 DEF Attach
<1>3. CASE \E x \in Names : Mount(x) \/ Unmount(x) \/ Detach(x)
    BY <1>3 DEF Mount, Unmount, Detach
<1>4. CASE CheckAttachments
    BY <1>4 DEF CheckAttachments, HasAttachments, Leave
<1>5. CASE DrainStep /\ ~CheckAttachments
  <2>1. UNCHANGED <<inUse, attached>>
    BY <1>5
    DEF DrainStep, Precheck, CordonNode, ListPods, PassPod, EvictionDenied,
        EvictionAccepted, MeetBlocker, EndOfList, CheckVolumesInUse, AbortRound,
        RestoreScheduling
  <2>2. step' = step \/ step' # "annotate"
    BY <1>5
    DEF DrainStep, Precheck, CordonNode, ListPods, PassPod, EvictionDenied,
        EvictionAccepted, MeetBlocker, EndOfList, CheckVolumesInUse, AbortRound,
        RestoreScheduling, Leave, Handled
  <2>3. QED
    BY <2>1, <2>2
<1>6. CASE UNCHANGED vars
    BY <1>6 DEF vars
<1>7. QED
    BY <1>1, <1>2, <1>3, <1>4, <1>5, <1>6 DEF Next, Cluster

\* A drain that succeeds leaves no volume mounted or attached, on a node with any
\* number of pods that come and go meanwhile.
THEOREM DrainedIsDetached ==
    ASSUME \A x \in WithVolume : KindOf[x] # "daemon"
    PROVE  Spec => []VolumesDetached
<1>1. Init => VolumeInv
    BY DEF Init, VolumeInv
<1>2. DrainInv /\ VolumeInv /\ [Next]_vars => VolumeInv'
    BY VolumeStep
<1>3. VolumeInv => VolumesDetached
    BY DEF VolumeInv, VolumesDetached
<1>4. QED
    BY <1>1, <1>2, <1>3, DrainInit, DrainInvStep, PTL DEF Spec

-----------------------------------------------------------------------------
(* The control loop's view of the drain. *)

\* Which pods are on the node, and of which kind, is all the loop sees of them.
LEMMA SameWorkload ==
    ASSUME \A x \in Names : (Here(x) <=> Here(x)') /\ pod'[x].kind = pod[x].kind
    PROVE  Workload' = Workload
BY DEF Workload, PinnedHere, OthersHere

LEMMA WorkloadCases ==
    /\ Workload = "protected" <=> PinnedHere
    /\ Workload = "evictable" <=> ~PinnedHere /\ OthersHere
    /\ Workload = "idle" <=> ~PinnedHere /\ ~OthersHere
    /\ Workload' = "protected" <=> PinnedHere'
    /\ Workload' = "evictable" <=> ~PinnedHere' /\ OthersHere'
    /\ Workload' = "idle" <=> ~PinnedHere' /\ ~OthersHere'
BY DEF Workload

\* A step that the loop does not see
LEMMA UnseenStep ==
    ASSUME UNCHANGED <<cordon, faultsLeft>>, PC' = PC, Workload' = Workload
    PROVE  UNCHANGED Loop!vars
<1>1. (step \in {"rotate", "idle"})' = (step \in {"rotate", "idle"})
    BY DEF PC, Rounds
<1>2. QED
    BY <1>1
    DEF Loop!vars, Loop!objectVars, Loop!trackerVars, Loop!machineVars,
        Loop!loopVars, Loop!processVars, Const

\* The pods on the node change as the loop's scheduler or kubelet changes them.
LEMMA SeenByLoop ==
    ASSUME UNCHANGED drainVars, Workload' # Workload,
           cordon => Loop!Outranks(Workload, Workload')
    PROVE  Loop!Environment(Node)
<1>1. UNCHANGED Loop!controllerVars /\ Loop!NoFault
    BY DEF drainVars, Loop!controllerVars, Loop!objectVars, Loop!trackerVars,
           Loop!loopVars, Loop!processVars, Loop!NoFault, PC, Rounds, Const
<1>2. Const(Workload)' = [Const(Workload) EXCEPT ![Node] = Workload']
    BY DEF Const
<1>3. Const(Workload)[Node] = Workload
    BY DEF Const
<1>4. Workload \in {"idle", "evictable", "protected"}
        /\ Workload' \in {"idle", "evictable", "protected"}
    BY Zenon DEF Workload
<1>5. CASE Loop!Outranks(Workload, Workload')
  <2>1. Loop!Finish(Node)
    BY <1>2, <1>3, <1>4, <1>5
    DEF Loop!Finish, Loop!Outranks, Loop!Stopped, Const
  <2>2. QED
    BY <1>1, <2>1 DEF Loop!Environment
<1>6. CASE ~Loop!Outranks(Workload, Workload')
  <2>1. ~cordon /\ Loop!Outranks(Workload', Workload)
    BY <1>4, <1>6 DEF Loop!Outranks
  <2>2. Loop!Schedule(Node)
    BY <1>2, <1>3, <1>4, <2>1
    DEF Loop!Schedule, Loop!Outranks, Const
  <2>3. QED
    BY <1>1, <2>2 DEF Loop!Environment
<1>7. QED
    BY <1>5, <1>6

\* What happens in the cluster is nothing the loop's environment does not do: to
\* a cordoned node come no pods but those of DaemonSets, which it does not see.
LEMMA ClusterRefines ==
    ASSUME DrainInv, NEW x \in Names, Cluster(x)
    PROVE  Loop!Environment(Node) \/ UNCHANGED Loop!vars
<1> USE DEF DrainInv, TypeOK, Here
<1> DEFINE Less == /\ PinnedHere' => PinnedHere
                   /\ OthersHere' => PinnedHere \/ OthersHere
<1>1. UNCHANGED drainVars
    BY DEF Cluster, Create, Delete, Terminate, Complete, Attach, Mount, Unmount,
           Detach
<1>2. ASSUME cordon => Less
      PROVE  Loop!Environment(Node) \/ UNCHANGED Loop!vars
  <2>1. CASE Workload' = Workload
    BY <1>1, <2>1, UnseenStep DEF drainVars, PC
  <2>2. CASE Workload' # Workload
    <3>1. cordon => Loop!Outranks(Workload, Workload')
      BY <1>2, <2>2, WorkloadCases DEF Loop!Outranks
    <3>2. QED
      BY <1>1, <2>2, <3>1, SeenByLoop
  <2>3. QED
    BY <2>1, <2>2
<1> HIDE DEF Less
<1>3. CASE Create(x)
  <2>1. PICK here \in BOOLEAN :
          /\ here => ~cordon \/ KindOf[x] = "daemon"
          /\ pod' = [pod EXCEPT ![x] = NewPod(x, pod[x].uid + 1, here)]
    BY <1>3 DEF Create
  <2>2. cordon => Less
    BY <1>3, <2>1 DEF Less, PinnedHere, OthersHere, NewPod
  <2>3. QED
    BY <1>2, <2>2
<1>4. CASE Delete(x)
  <2>1. OnlyDying
    BY <1>4, DyingPod DEF Delete
  <2>2. Less
    BY <2>1 DEF Less, OnlyDying, PinnedHere, OthersHere
  <2>3. QED
    BY <1>2, <2>2
<1>5. CASE Terminate(x)
  <2>1. Less
    BY <1>5 DEF Terminate, Less, PinnedHere, OthersHere, NoPod, NewPod
  <2>2. QED
    BY <1>2, <2>1
<1>6. CASE Complete(x)
  <2>1. Less
    BY <1>6 DEF Complete, Less, PinnedHere, OthersHere, Exists, Pods
  <2>2. QED
    BY <1>2, <2>1
<1>7. CASE Attach(x) \/ Mount(x) \/ Unmount(x) \/ Detach(x)
  <2>1. pod' = pod
    BY <1>7 DEF Attach, Mount, Unmount, Detach
  <2>2. Less
    BY <2>1 DEF Less, PinnedHere, OthersHere
  <2>3. QED
    BY <1>2, <2>2
<1>8. QED
    BY <1>3, <1>4, <1>5, <1>6, <1>7 DEF Cluster

\* The loop's own steps of a drain
LoopStep == \/ Loop!DrainPrecheck \/ Loop!Cordon \/ Loop!DrainRound
            \/ Loop!RestoreScheduling

\* The drain's own steps: a round is many steps here and none there, until it
\* aborts, or finds only pods of DaemonSets and no volume.
LEMMA DrainRefines ==
    ASSUME DrainInv, DrainStep
    PROVE  LoopStep \/ UNCHANGED Loop!vars
<1>1. ASSUME OnlyDying, UNCHANGED <<cordon, faultsLeft, step>>
      PROVE  UNCHANGED Loop!vars
  <2>1. Workload' = Workload
    BY <1>1, SameWorkload DEF OnlyDying, Here
  <2>2. QED
    BY <1>1, <2>1, UnseenStep DEF PC
<1>2. ASSUME pod' = pod
      PROVE  Workload' = Workload
    BY <1>2, SameWorkload DEF Here
<1>3. CASE Precheck
  <2>1. pod' = pod /\ Workload' = Workload /\ UNCHANGED cordon /\ step = "drain"
    BY <1>2, <1>3 DEF Precheck, clusterVars
  <2>2. (\E p \in PodsOnNode : DrainBlocker(p)) <=> PinnedHere
    <3>1. ASSUME NEW x \in Names, Here(x), pod[x].kind = "pinned"
          PROVE  \E p \in PodsOnNode : DrainBlocker(p)
      <4>1. [name |-> x, uid |-> pod[x].uid, kind |-> pod[x].kind,
             dying |-> pod[x].dying] \in PodsOnNode
        BY <3>1, Zenon DEF PodsOnNode
      <4>2. QED
        BY <3>1, <4>1 DEF DrainBlocker
    <3>2. ASSUME NEW p \in PodsOnNode, DrainBlocker(p)
          PROVE  PinnedHere
      BY <3>2 DEF PodsOnNode, DrainBlocker, PinnedHere
    <3>3. QED
      BY <3>1, <3>2 DEF PinnedHere
  <2>3. (\E p \in PodsOnNode : DrainBlocker(p)) <=> Const(Workload)[Node] = "protected"
    BY <2>2, WorkloadCases DEF Const
  <2>4. QED
    BY <1>3, <2>1, <2>3
    DEF Precheck, Leave, Fault, NoFault, PC, Rounds, Const, LoopStep,
        Loop!DrainPrecheck, Loop!AfterPrecheck, Loop!Fault, Loop!NoFault,
        Loop!EndLoop, Loop!LeaveTo, Loop!Goto, Loop!objectVars, Loop!trackerVars,
        Loop!machineVars, Loop!processVars, Loop!loopVars
<1>4. CASE CordonNode
  <2>1. pod' = pod /\ Workload' = Workload /\ step = "cordon"
    BY <1>2, <1>4 DEF CordonNode, clusterVars
  <2>2. \/ cordon' /\ step' = "list" /\ NoFault
        \/ (cordon' \/ cordon' = cordon) /\ step' = "restore" /\ Fault
    BY <1>4, Zenon DEF CordonNode, Leave
  <2>3. QED
    BY <2>1, <2>2
    DEF Fault, NoFault, PC, Rounds, Const, LoopStep,
        Loop!Cordon, Loop!SetUnschedulable, Loop!Fault, Loop!NoFault, Loop!Goto,
        Loop!trackerVars, Loop!machineVars, Loop!processVars, Loop!loopVars
<1>5. CASE ListPods \/ EndOfList \/ CheckVolumesInUse
  <2>1. pod' = pod /\ UNCHANGED <<cordon, faultsLeft>> /\ PC' = PC
    BY <1>5
    DEF ListPods, EndOfList, CheckVolumesInUse, Leave, PC, Rounds, clusterVars
  <2>2. QED
    BY <1>2, <2>1, UnseenStep
<1>6. CASE PassPod \/ EvictionDenied
  <2>1. OnlyDying /\ UNCHANGED <<cordon, faultsLeft, step>>
    BY <1>6 DEF PassPod, EvictionDenied, Handled, OnlyDying, clusterVars
  <2>2. QED
    BY <1>1, <2>1
<1>7. ASSUME NEW x \in Names, EvictionAccepted(x)
      PROVE  UNCHANGED Loop!vars
  <2>1. OnlyDying /\ UNCHANGED <<cordon, faultsLeft, step>>
    BY <1>7, DyingPod DEF EvictionAccepted, Handled, DrainInv
  <2>2. QED
    BY <1>1, <2>1
<1>8. CASE MeetBlocker \/ AbortRound
  <2>1. /\ pod' = pod /\ Workload' = Workload /\ UNCHANGED <<cordon, faultsLeft>>
        /\ step \in Rounds /\ step' = "restore"
    BY <1>2, <1>8 DEF MeetBlocker, AbortRound, Leave, Rounds, clusterVars
  <2>2. QED
    BY <2>1
    DEF PC, Rounds, Const, LoopStep, Loop!DrainRound, Loop!NoFault, Loop!Goto,
        Loop!objectVars, Loop!trackerVars, Loop!machineVars, Loop!processVars,
        Loop!loopVars
<1>9. CASE CheckAttachments
  <2>1. pod' = pod /\ Workload' = Workload /\ UNCHANGED <<cordon, faultsLeft>>
    BY <1>2, <1>9 DEF CheckAttachments, clusterVars
  <2>2. CASE step' = "list"
    <3>1. PC' = PC
      BY <1>9, <2>2 DEF CheckAttachments, PC, Rounds
    <3>2. QED
      BY <2>1, <3>1, UnseenStep
  <2>3. CASE step' = "annotate"
    <3>1. ~PinnedHere /\ ~OthersHere
      BY <1>9
      DEF CheckAttachments, DrainInv, RoundInv, OnlyDaemonsHere, PodInv, Exists, Here,
          PinnedHere, OthersHere
    <3>2. Workload = "idle"
      BY <3>1, WorkloadCases
    <3>3. QED
      BY <1>9, <2>1, <2>3, <3>2
      DEF CheckAttachments, PC, Rounds, Const, LoopStep, Loop!DrainRound,
          Loop!Drained, Loop!NoFault, Loop!Goto, Loop!objectVars,
          Loop!trackerVars, Loop!machineVars, Loop!processVars, Loop!loopVars
  <2>4. QED
    BY <1>9, <2>2, <2>3 DEF CheckAttachments, Leave
<1>10. CASE RestoreScheduling
  <2>1. pod' = pod /\ Workload' = Workload /\ step = "restore" /\ step' = "rotate"
    BY <1>2, <1>10 DEF RestoreScheduling, Leave, clusterVars
  <2>2. QED
    BY <1>10, <2>1
    DEF RestoreScheduling, Fault, NoFault, PC, Rounds, Const, LoopStep,
        Loop!RestoreScheduling, Loop!UncordonNode, Loop!Fault, Loop!NoFault,
        Loop!LeaveTo, Loop!trackerVars, Loop!machineVars, Loop!processVars
<1>11. QED
    BY <1>3, <1>4, <1>5, <1>6, <1>7, <1>8, <1>9, <1>10 DEF DrainStep

\* Pod by pod, with any number of pods, the drain implements what the control loop
\* knows of a drain.
THEOREM DrainRefinesLoop == Spec => RefinesLoop
<1>1. DrainInv /\ [Next]_vars =>
        [\/ Loop!DrainPrecheck \/ Loop!Cordon \/ Loop!DrainRound
         \/ Loop!RestoreScheduling \/ Loop!Environment(Node)]_(Loop!vars)
  <2> SUFFICES ASSUME DrainInv, [Next]_vars
               PROVE  LoopStep \/ Loop!Environment(Node) \/ UNCHANGED Loop!vars
    BY DEF LoopStep
  <2>1. CASE UNCHANGED vars
    <3>1. Workload' = Workload
      BY <2>1, SameWorkload DEF vars, clusterVars, Here
    <3>2. QED
      BY <2>1, <3>1, UnseenStep DEF vars, drainVars, PC
  <2>2. QED
    BY <2>1, DrainRefines, ClusterRefines DEF Next
<1>2. QED
    BY <1>1, DrainInit, DrainInvStep, PTL DEF Spec, RefinesLoop
=============================================================================
