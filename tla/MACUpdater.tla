----------------------------- MODULE MACUpdater ----------------------------
(***************************************************************************)
(* The MAC addresses of the nodes: the updater that discovers them         *)
(* (src/pkg/nodeops/mac_updater.go), a goroutine of its own, beside the    *)
(* control loop, which reads them to wake a node (PowerOnAndMarkBooted)    *)
(* and rewrites whole Node objects to cordon and uncordon, and beside an   *)
(* operator who annotates nodes by hand.                                   *)
(*                                                                         *)
(* A node's own address is represented by the node.  The API server        *)
(* refuses an update of a Node object that somebody else has written since *)
(* it was read; `fresh` stands for the resource version.                   *)
(*                                                                         *)
(* Definitions that nothing uses are variants with a mistake, as in        *)
(* Nodeops.                                                                *)
(***************************************************************************)
EXTENDS Integers, FiniteSets

CONSTANTS
    Nodes,          \* the managed nodes
    HasDaemon,      \* nodes with a pod of the poweroff daemon
    MACKey,         \* nodeAnnotations.mac: "" or a key
    AutoKey,        \* AnnotationMACAuto
    Typed,          \* an address an operator writes by hand
    Empty,          \* no address
    NoNode,
    RetrySteps,     \* attempts of retry.DefaultBackoff
    MaxEdits,       \* bound: how often the operator changes an annotation
    MaxFaults       \* bound: how many calls fail, and daemons hang

ASSUME MACAssumption ==
    /\ HasDaemon \subseteq Nodes
    /\ {Typed, Empty, NoNode} \cap Nodes = {}
    /\ {MaxEdits, MaxFaults} \subseteq Nat
    /\ RetrySteps \in Nat \ {0}

VARIABLES
    dryRun,         \* dryRun
    auto,           \* annotation cba.dev/mac-address
    manual,         \* annotation cba.dev/mac-address-override
    cordoned,       \* spec.unschedulable
    running,        \* machines that run
    routed,         \* nodes with a default route, over a card with an address
    silent,         \* daemons that take a request and do not answer
    pass,           \* updater: "sleep" (ten seconds), "find", "fetch" or "patch"
    listed,         \* updater: the addresses in the list it works on
    todo,           \* updater: nodes of that list still to be looked at
    node,           \* updater: the node it is at
    mac,            \* updater: the address the daemon told
    step,           \* loop: "idle", "get" or "update" in a write to a node
    target,         \* loop: the node it is about
    goal,           \* loop: the value of spec.unschedulable to write
    copy,           \* loop: the object it has read
    fresh,          \* loop: nobody has written that node since
    tries,          \* loop: attempts left
    editsLeft, faultsLeft

objectVars == <<auto, manual, cordoned>>
machineVars == <<running, routed, silent>>
updaterVars == <<pass, listed, todo, node, mac>>
loopVars == <<step, target, goal, copy, tries>>
vars == <<dryRun, objectVars, machineVars, updaterVars, loopVars, fresh,
          editsLeft, faultsLeft>>

Addresses == Nodes \cup {Typed, Empty}
NoCopy == [auto |-> Empty, manual |-> Empty]

TypeOK ==
    /\ dryRun \in BOOLEAN
    /\ auto \in [Nodes -> Nodes \cup {Empty}]
    /\ manual \in [Nodes -> {Typed, Empty}]
    /\ cordoned \subseteq Nodes
    /\ running \subseteq Nodes
    /\ routed \subseteq Nodes
    /\ silent \subseteq Nodes
    /\ pass \in {"sleep", "find", "fetch", "patch"}
    /\ listed \in [Nodes -> [auto : Addresses, manual : Addresses]]
    /\ todo \subseteq Nodes
    /\ node \in Nodes \cup {NoNode}
    /\ mac \in Nodes \cup {Empty}
    /\ step \in {"idle", "get", "update"}
    /\ target \in Nodes \cup {NoNode}
    /\ goal \in BOOLEAN
    /\ copy \in [auto : Addresses, manual : Addresses]
    /\ fresh \in BOOLEAN
    /\ tries \in 0 .. RetrySteps
    /\ editsLeft \in 0 .. MaxEdits
    /\ faultsLeft \in 0 .. MaxFaults

Fault == faultsLeft > 0 /\ faultsLeft' = faultsLeft - 1
NoFault == UNCHANGED faultsLeft

\* Somebody writes the object of n.
Written(n) == fresh' = (fresh /\ n # target)

-----------------------------------------------------------------------------
(* The updater. *)

\* RunOnce lists the managed nodes; a list that fails ends the pass.
StartPass ==
    /\ pass = "sleep"
    /\ \/ /\ NoFault
          /\ pass' = "find"
          /\ todo' = Nodes
          /\ listed' = [n \in Nodes |-> [auto |-> auto[n], manual |-> manual[n]]]
       \/ /\ Fault
          /\ UNCHANGED <<pass, todo, listed>>
    /\ UNCHANGED <<dryRun, objectVars, machineVars, node, mac, loopVars, fresh,
                   editsLeft>>

HasManualMACOverride(n) == listed[n].manual # Empty
NeverHasMACAddr(n) == FALSE
HasDiscoveredMACAddr(n) == listed[n].auto # Empty

FindPodIPOnNode(n) == n \in HasDaemon

\* What the daemon tells: the address of the card with the default route.  An
\* error is text that the updater cannot decode: no answer.
macHandler(n) == {n} \cap routed

\* The next node of the list; no pod found on it, or an error, skips it.
NextNode ==
    /\ pass = "find"
    /\ \E n \in todo :
         /\ todo' = todo \ {n}
         /\ \/ /\ \/ HasManualMACOverride(n)
                  \/ HasDiscoveredMACAddr(n)
                  \/ ~FindPodIPOnNode(n)
               /\ NoFault
               /\ UNCHANGED <<pass, node>>
            \/ /\ ~HasManualMACOverride(n)
               /\ ~HasDiscoveredMACAddr(n)
               /\ \/ FindPodIPOnNode(n) /\ NoFault /\ pass' = "fetch" /\ node' = n
                  \/ Fault /\ UNCHANGED <<pass, node>>
    /\ UNCHANGED <<dryRun, objectVars, machineVars, listed, mac, loopVars,
                   fresh, editsLeft>>

EndPass ==
    /\ pass = "find"
    /\ todo = {}
    /\ pass' = "sleep"
    /\ listed' = [n \in Nodes |-> NoCopy]
    /\ UNCHANGED <<dryRun, objectVars, machineVars, todo, node, mac, loopVars,
                   fresh, editsLeft, faultsLeft>>

\* A node that fails is skipped.
GiveUpPass ==
    /\ pass' = "sleep"
    /\ todo' = {}
    /\ node' = NoNode
    /\ mac' = Empty
SkipNode ==
    /\ pass' = "find"
    /\ node' = NoNode
    /\ mac' = Empty
    /\ UNCHANGED todo

\* FetchMACFromDaemon.  Whatever can be decoded counts, an answer without an
\* address, too.  A daemon that is silent is waited for: there is no timeout.
FetchMAC ==
    /\ pass = "fetch"
    /\ \/ /\ \/ node \in running \ silent /\ mac' \in macHandler(node) /\ NoFault
             \/ mac' = Empty /\ Fault
          /\ pass' = "patch"
          /\ UNCHANGED <<todo, node>>
       \/ /\ \/ node \notin running /\ NoFault
             \/ node \notin silent /\ macHandler(node) = {} /\ NoFault
             \/ Fault
          /\ SkipNode
    /\ UNCHANGED <<dryRun, objectVars, machineVars, listed, loopVars, fresh,
                   editsLeft>>

\* SetDiscoveredMAC patches one annotation, whatever else has changed.
SetDiscoveredMAC ==
    \/ /\ ~dryRun
       /\ auto' = [auto EXCEPT ![node] = mac]
       /\ Written(node)
    \/ /\ dryRun
       /\ UNCHANGED <<auto, fresh>>

PatchMAC ==
    /\ pass = "patch"
    /\ \/ SetDiscoveredMAC /\ (NoFault \/ Fault)
       \/ UNCHANGED <<auto, fresh>> /\ Fault
    /\ SkipNode
    /\ UNCHANGED <<dryRun, manual, cordoned, machineVars, listed, loopVars,
                   editsLeft>>

Updater == StartPass \/ NextNode \/ EndPass \/ FetchMAC \/ PatchMAC

-----------------------------------------------------------------------------
(* The control loop: a Node object is read, changed and written as a whole. *)

\* The cordon of CordonAndDrain, the uncordon of RecoverUnexpectedlyBooted-
\* Nodes, or UncordonNode
BeginWrite ==
    /\ step = "idle"
    /\ ~dryRun
    /\ step' = "get"
    /\ target' \in Nodes
    /\ goal' \in BOOLEAN
    /\ tries' = RetrySteps
    /\ UNCHANGED <<dryRun, objectVars, machineVars, updaterVars, copy, fresh,
                   editsLeft, faultsLeft>>

EndWrite ==
    /\ step' = "idle"
    /\ target' = NoNode
    /\ goal' = FALSE
    /\ copy' = NoCopy
    /\ tries' = 0
    /\ fresh' = TRUE

\* UncordonNode returns early when there is nothing to do.
GetNode ==
    /\ step = "get"
    /\ \/ /\ step' = "update"
          /\ copy' = [auto |-> auto[target], manual |-> manual[target]]
          /\ fresh' = TRUE
          /\ NoFault
          /\ UNCHANGED <<target, goal, tries>>
       \/ ~goal /\ target \notin cordoned /\ EndWrite /\ NoFault
       \/ EndWrite /\ Fault
    /\ UNCHANGED <<dryRun, objectVars, machineVars, updaterVars, editsLeft>>

WriteCopy ==
    /\ auto' = [auto EXCEPT ![target] = copy.auto]
    /\ manual' = [manual EXCEPT ![target] = copy.manual]
    /\ cordoned' = IF goal THEN cordoned \cup {target} ELSE cordoned \ {target}

\* The update carries the version that was read.
NoVersion == TRUE
SameVersion == fresh

NeverLastTry == tries < 0
LastTry == tries = 1

\* A conflict is tried again, from the read on; any other error is not.
UpdateNode ==
    /\ step = "update"
    /\ \/ SameVersion /\ WriteCopy /\ EndWrite /\ NoFault
       \/ /\ ~SameVersion
          /\ UNCHANGED objectVars
          /\ NoFault
          /\ \/ LastTry /\ EndWrite
             \/ /\ ~LastTry
                /\ step' = "get"
                /\ tries' = tries - 1
                /\ UNCHANGED <<target, goal, copy, fresh>>
       \/ /\ EndWrite
          /\ Fault
          /\ \/ SameVersion /\ WriteCopy
             \/ UNCHANGED objectVars
    /\ UNCHANGED <<dryRun, machineVars, updaterVars, editsLeft>>

\* The address that power-on uses.  Nobody writes a key other than AutoKey.
EffectiveKey == IF MACKey = "" THEN AutoKey ELSE MACKey
GetMACAddressFromNode(n) == IF EffectiveKey = AutoKey THEN auto[n] ELSE Empty

\* PowerOnAndMarkBooted, up to the magic packet, which wakes the machine with
\* that address.  A node without an address is an error.
PowerOn(n) ==
    /\ step = "idle"
    /\ ~dryRun
    /\ n \notin running
    /\ GetMACAddressFromNode(n) # Empty
    /\ running' = running \cup ({GetMACAddressFromNode(n)} \cap Nodes)
    /\ UNCHANGED <<dryRun, objectVars, routed, silent, updaterVars, loopVars,
                   fresh, editsLeft, faultsLeft>>

Loop == BeginWrite \/ GetNode \/ UpdateNode

-----------------------------------------------------------------------------
(* The operator and the machines. *)

Annotate(n) ==
    /\ editsLeft > 0
    /\ editsLeft' = editsLeft - 1
    /\ \/ /\ manual[n] = Empty
          /\ manual' = [manual EXCEPT ![n] = Typed]
          /\ UNCHANGED auto
       \/ /\ manual[n] # Empty
          /\ manual' = [manual EXCEPT ![n] = Empty]
          /\ UNCHANGED auto
       \/ /\ auto[n] # Empty
          /\ auto' = [auto EXCEPT ![n] = Empty]
          /\ UNCHANGED manual
    /\ Written(n)
    /\ UNCHANGED <<dryRun, cordoned, machineVars, updaterVars, loopVars, faultsLeft>>

StartOrStop(n) ==
    /\ running' = IF n \in running THEN running \ {n} ELSE running \cup {n}
    /\ silent' = silent \ {n}
    /\ UNCHANGED <<dryRun, objectVars, routed, updaterVars, loopVars, fresh,
                   editsLeft, faultsLeft>>

\* A daemon hangs, and is repaired.
Hang(n) ==
    /\ n \in HasDaemon \cap running
    /\ \/ n \notin silent /\ Fault /\ silent' = silent \cup {n}
       \/ n \in silent /\ NoFault /\ silent' = silent \ {n}
    /\ UNCHANGED <<dryRun, objectVars, running, routed, updaterVars, loopVars,
                   fresh, editsLeft>>

-----------------------------------------------------------------------------

Init ==
    /\ dryRun \in BOOLEAN
    /\ auto = [n \in Nodes |-> Empty]
    /\ manual = [n \in Nodes |-> Empty]
    /\ cordoned = {}
    /\ running = Nodes
    /\ routed \in SUBSET Nodes
    /\ silent = {}
    /\ pass = "sleep"
    /\ listed = [n \in Nodes |-> NoCopy]
    /\ todo = {}
    /\ node = NoNode
    /\ mac = Empty
    /\ step = "idle"
    /\ target = NoNode
    /\ goal = FALSE
    /\ copy = NoCopy
    /\ fresh = TRUE
    /\ tries = 0
    /\ editsLeft = MaxEdits
    /\ faultsLeft = MaxFaults

Next ==
    \/ Updater \/ Loop
    \/ \E n \in Nodes : PowerOn(n) \/ Annotate(n) \/ StartOrStop(n) \/ Hang(n)

Spec == Init /\ [][Next]_vars

\* The updater's loop never ends, and each of its calls does, but for a request
\* to a daemon that is silent.
FairSpec == Spec /\ WF_vars(Updater)

-----------------------------------------------------------------------------
(* Properties. *)

\* Cordoning and uncordoning a node, which write back all of an object that
\* was read earlier, never undo what the updater or the operator has written
\* meanwhile: a conflict makes them read it again.
LoopKeepsAddresses == [][step' # step => UNCHANGED <<auto, manual>>]_vars

\* Nobody but the operator takes an address away or changes it (RunOnce,
\* UncordonNode, CordonAndDrain): what the updater finds out is never lost to a
\* stale rewrite of the object, nor to a daemon that, asked again, tells none, and
\* an override stays.  An address that is found out is the node's own, although
\* the updater works on a list while others fail, and none is in a dry run.
AddressesSurvive ==
    [][editsLeft' = editsLeft =>
          /\ manual' = manual
          /\ \A n \in Nodes : auto'[n] # auto[n] =>
                auto[n] = Empty /\ auto'[n] = n /\ ~dryRun]_vars

\* A node that runs, that has an address to tell and that nobody annotates by hand
\* gets it under the key that power-on reads, although calls fail and other
\* nodes of the list are off or cannot tell theirs (RunOnce).  In the end no daemon,
\* on whatever node, may be silent: the updater would wait for it for ever.
AddressDiscovered ==
    \A n \in HasDaemon :
        <>[](/\ ~dryRun /\ manual[n] = Empty
             /\ n \in running \cap routed
             /\ silent = {})
            => <>[](GetMACAddressFromNode(n) = n)
=============================================================================
