------------------------------ MODULE MACProofs ----------------------------
(***************************************************************************)
(* Two writers of a Node object: the control loop never undoes what the    *)
(* MAC updater or an operator has written, and the updater gives a node    *)
(* its own address and never takes one away.                               *)
(***************************************************************************)
EXTENDS MACUpdater, TLAPS

\* A loop that writes a node has one in hand, and as many attempts left as it
\* needs; the updater has one, off its list, from the moment it asks for its
\* address, and is then told that node's address or none.
InHand ==
    /\ step # "idle" => target \in Nodes /\ tries > 0
    /\ pass \in {"fetch", "patch"} => node \in Nodes \ todo
    /\ pass = "patch" => mac \in {node, Empty}

\* An object whose version is still the one that was read is what was read.
CopyIsCurrent ==
    step = "update" /\ fresh =>
        copy = [auto |-> auto[target], manual |-> manual[target]]

\* The list grows old, but a node without an address gets one from the updater
\* only: none has it yet that the updater is at, or will still come to.
StillUnknown ==
    /\ \A n \in todo : listed[n].auto = Empty => auto[n] = Empty
    /\ pass \in {"fetch", "patch"} => auto[node] = Empty

MACInv == TypeOK /\ InHand /\ CopyIsCurrent /\ StillUnknown

\* What a step that is not the operator's may do to the addresses.
Survive ==
    editsLeft' = editsLeft =>
        /\ manual' = manual
        /\ \A n \in Nodes : auto'[n] # auto[n] =>
              auto[n] = Empty /\ auto'[n] = n /\ ~dryRun

-----------------------------------------------------------------------------

\* At the start nobody has an address and nobody is at work.
LEMMA MACInit == Init => MACInv
<1> SUFFICES ASSUME Init PROVE MACInv
    OBVIOUS
<1>1. TypeOK
  <2>1. dryRun \in BOOLEAN /\ goal \in BOOLEAN /\ fresh \in BOOLEAN
    BY Zenon DEF Init
  <2>2. QED
    BY <2>1, MACAssumption DEF Init, TypeOK, Addresses, NoCopy
<1>2. InHand /\ CopyIsCurrent /\ StillUnknown
    BY DEF Init, InHand, CopyIsCurrent, StillUnknown
<1>3. QED
    BY <1>1, <1>2 DEF MACInv

\* Each step keeps the types.
LEMMA MACType ==
    ASSUME TypeOK, InHand, CopyIsCurrent, [Next]_vars
    PROVE  TypeOK'
<1> USE MACAssumption
    DEF TypeOK, InHand, Addresses, NoCopy, Fault, NoFault, SkipNode, EndWrite,
        objectVars, machineVars, updaterVars, loopVars
<1>1. CASE Updater
  <2>1. fresh' \in BOOLEAN
    BY <1>1, Zenon
    DEF Updater, StartPass, NextNode, EndPass, FetchMAC, PatchMAC,
        SetDiscoveredMAC, Written
  <2>2. CASE StartPass
    BY <2>1, <2>2 DEF StartPass
  <2>3. CASE NextNode \/ EndPass
    BY <2>1, <2>3 DEF NextNode, FindPodIPOnNode, EndPass
  <2>4. CASE FetchMAC
    BY <2>1, <2>4 DEF FetchMAC, macHandler
  <2>5. CASE PatchMAC
    BY <2>1, <2>5 DEF PatchMAC, SetDiscoveredMAC
  <2>6. QED
    BY <1>1, <2>2, <2>3, <2>4, <2>5 DEF Updater
<1>2. CASE BeginWrite \/ GetNode
  <2>1. goal' \in BOOLEAN /\ fresh' \in BOOLEAN
    BY <1>2, Zenon DEF BeginWrite, GetNode
  <2>2. CASE BeginWrite
    BY <2>1, <2>2 DEF BeginWrite
  <2>3. CASE GetNode
    BY <2>1, <2>3 DEF GetNode
  <2>4. QED
    BY <1>2, <2>2, <2>3
<1>3. CASE UpdateNode
  <2>1. goal' \in BOOLEAN /\ fresh' \in BOOLEAN
    BY <1>3, Zenon DEF UpdateNode
  <2>2. auto' = auto /\ manual' = manual /\ cordoned' \subseteq Nodes
    BY <1>3 DEF UpdateNode, SameVersion, CopyIsCurrent, WriteCopy
  <2>3. QED
    BY <1>3, <2>1, <2>2 DEF UpdateNode, LastTry
<1>4. ASSUME NEW n \in Nodes, PowerOn(n)
      PROVE  TypeOK'
    BY <1>4 DEF PowerOn
<1>5. ASSUME NEW n \in Nodes, Annotate(n)
      PROVE  TypeOK'
  <2>1. fresh' \in BOOLEAN
    BY <1>5, Zenon DEF Annotate, Written
  <2>2. QED
    BY <1>5, <2>1 DEF Annotate
<1>6. ASSUME NEW n \in Nodes, StartOrStop(n) \/ Hang(n)
      PROVE  TypeOK'
    BY <1>6 DEF StartOrStop, Hang
<1>7. CASE UNCHANGED vars
    BY <1>7 DEF vars
<1>8. QED
    BY <1>1, <1>2, <1>3, <1>4, <1>5, <1>6, <1>7 DEF Next, Loop

\* What somebody else writes either leaves the loop's node alone or makes its
\* copy stale.
LEMMA WrittenByOthers ==
    ASSUME NEW n \in Nodes, fresh \in BOOLEAN, Written(n), fresh'
    PROVE  fresh /\ n # target
BY Zenon DEF Written

\* The updater's steps: a list is read whole, a node is taken off it before its
\* address is asked for, and only that node's address is written.
LEMMA UpdaterStep ==
    ASSUME MACInv, Updater
    PROVE  InHand' /\ CopyIsCurrent' /\ StillUnknown' /\ Survive /\ step' = step
<1> USE MACAssumption
    DEF MACInv, TypeOK, InHand, CopyIsCurrent, StillUnknown, Survive, Addresses,
        objectVars, machineVars, loopVars
<1>1. CASE StartPass
    BY <1>1 DEF StartPass
<1>2. CASE NextNode
    BY <1>2 DEF NextNode, HasDiscoveredMACAddr
<1>3. CASE EndPass
    BY <1>3 DEF EndPass
<1>4. CASE FetchMAC
    BY <1>4 DEF FetchMAC, macHandler, SkipNode
<1>5. CASE PatchMAC
  <2>1. CASE UNCHANGED <<auto, fresh>>
    BY <1>5, <2>1 DEF PatchMAC, SkipNode
  <2>2. CASE ~dryRun /\ Written(node) /\ auto' = [auto EXCEPT ![node] = mac]
    <3>1. CopyIsCurrent'
      BY <1>5, <2>2, WrittenByOthers DEF PatchMAC
    <3>2. Survive /\ StillUnknown' /\ InHand' /\ step' = step
      BY <1>5, <2>2 DEF PatchMAC, SkipNode
    <3>3. QED
      BY <3>1, <3>2
  <2>3. QED
    BY <1>5, <2>1, <2>2 DEF PatchMAC, SetDiscoveredMAC
<1>6. QED
    BY <1>1, <1>2, <1>3, <1>4, <1>5 DEF Updater

\* The steps of a power-on, the operator and the machines.
LEMMA OthersStep ==
    ASSUME MACInv, NEW n \in Nodes,
           PowerOn(n) \/ Annotate(n) \/ StartOrStop(n) \/ Hang(n)
    PROVE  InHand' /\ CopyIsCurrent' /\ StillUnknown' /\ Survive /\ step' = step
<1> USE DEF MACInv, TypeOK, InHand, CopyIsCurrent, StillUnknown, Survive,
            objectVars, updaterVars, loopVars
<1>1. CASE PowerOn(n) \/ StartOrStop(n) \/ Hang(n)
    BY <1>1 DEF PowerOn, StartOrStop, Hang
<1>2. CASE Annotate(n)
  <2>1. editsLeft' # editsLeft
    BY <1>2 DEF Annotate
  <2>2. \A m \in Nodes : auto[m] = Empty => auto'[m] = Empty
    BY <1>2 DEF Annotate
  <2>3. QED
    BY <1>2, <2>1, <2>2, WrittenByOthers DEF Annotate
<1>3. QED
    BY <1>1, <1>2

\* The loop's own steps write an address only as they find it.
LEMMA LoopStep ==
    ASSUME MACInv, Loop
    PROVE  InHand' /\ CopyIsCurrent' /\ StillUnknown' /\ Survive
           /\ UNCHANGED <<auto, manual>>
<1> USE DEF MACInv, TypeOK, InHand, CopyIsCurrent, StillUnknown, Survive,
            EndWrite, objectVars, updaterVars
<1>1. CASE BeginWrite
    BY <1>1, MACAssumption DEF BeginWrite
<1>2. CASE GetNode
    BY <1>2 DEF GetNode
<1>3. CASE UpdateNode
  <2>1. UNCHANGED <<auto, manual>>
    BY <1>3 DEF UpdateNode, SameVersion, WriteCopy
  <2>2. QED
    BY <1>3, <2>1 DEF UpdateNode, LastTry
<1>4. QED
    BY <1>1, <1>2, <1>3 DEF Loop

\* Together: the invariant is inductive, only others than the loop change an
\* address, and only the operator takes one away.
LEMMA MACStep ==
    ASSUME MACInv, [Next]_vars
    PROVE  MACInv' /\ Survive /\ (step' # step => UNCHANGED <<auto, manual>>)
<1>1. TypeOK'
    BY MACType DEF MACInv
<1>2. CASE UNCHANGED vars
    BY <1>1, <1>2
    DEF vars, objectVars, updaterVars, loopVars, MACInv, InHand, CopyIsCurrent,
        StillUnknown, Survive
<1>3. CASE Loop
    BY <1>1, <1>3, LoopStep DEF MACInv
<1>4. CASE Updater
    BY <1>1, <1>4, UpdaterStep DEF MACInv
<1>5. ASSUME NEW n \in Nodes,
             PowerOn(n) \/ Annotate(n) \/ StartOrStop(n) \/ Hang(n)
      PROVE  MACInv' /\ Survive /\ (step' # step => UNCHANGED <<auto, manual>>)
    BY <1>1, <1>5, OthersStep DEF MACInv
<1>6. QED
    BY <1>2, <1>3, <1>4, <1>5 DEF Next

\* The updater's and the loop's variables stay in their types, the attempts of
\* retry.OnError included, and neither works on a node it has not got.
THEOREM MACTypeCorrect == Spec => []TypeOK
<1>1. MACInv /\ [Next]_vars => MACInv'
    BY MACStep
<1>2. MACInv => TypeOK
    BY DEF MACInv
<1>3. QED
    BY <1>1, <1>2, MACInit, PTL DEF Spec

\* For any number of nodes, edits, failing calls and hanging daemons, only the
\* operator takes an address away or changes one, and what the updater adds is
\* the node's own address (RunOnce, SetDiscoveredMAC).
THEOREM AddressesAreNotLost == Spec => AddressesSurvive
<1>1. MACInv /\ [Next]_vars => MACInv' /\ [Survive]_vars
    BY MACStep
<1>2. QED
    BY <1>1, MACInit, PTL DEF Spec, AddressesSurvive, Survive

\* ... and cordoning or uncordoning a node (UncordonNode, CordonAndDrain) never
\* undoes a concurrent write to its addresses.
THEOREM AddressesAreKept == Spec => LoopKeepsAddresses
<1>1. MACInv /\ [Next]_vars
        => MACInv' /\ [step' # step => UNCHANGED <<auto, manual>>]_vars
    BY MACStep
<1>2. QED
    BY <1>1, MACInit, PTL DEF Spec, LoopKeepsAddresses
=============================================================================
