# Verification of cluster-bare-autoscaler

cluster-bare-autoscaler is a Kubernetes controller that powers bare-metal nodes
off when they are not needed and wakes them (Wake-on-LAN) when they are. One
thread, `Reconcile`, decides everything; what makes it hard is what goes on
around it. Node objects, machines, kubelets and pods change between its calls;
any call may fail, possibly after it took effect; the process may die between
two calls and forget all it held in memory; and the only thing it sees of a
machine, the Ready condition, lags behind.

This directory holds TLA+ modules for the control loop, its strategies, its drain,
the node store and the MAC updater beside it, the configurations that
check them with TLC, and proofs checked by TLAPS.
`PROJECT.json` maps each definition to the source lines it models. Paths below
are relative to the repository.

## 1. Inventory

| component | state | operations | modelled by |
|---|---|---|---|
| reconcile loop (`pkg/controller/reconciler.go`, `main.go`) | where the loop is, the node in hand | Reconcile, MaybeScaleUp, MaybeScaleDown, MaybeRotate, RestorePoweredOffState | `Reconciler`; what it promises: `NodeLifecycle` |
| drain (`pkg/controller/drain.go`) | evictions accepted so far | CordonAndDrain, restoreScheduling | `Drain`, `Reconciler` |
| node state tracker (`pkg/nodeops/state.go`) | powered-off set, shutdown and boot times, time of the last operation; lost in a restart | Mark..., Clear..., Is...Cooldown | `Nodeops` |
| node filters and annotations (`pkg/nodeops/nodes.go`, `node_wrapper.go`, `annotations.go`) | on the Node objects: unschedulable, `cba.dev/was-powered-off`, `cba.dev/booted-at`; survive a restart | ListManagedNodes, ListActiveNodes, ListShutdownNodeNames, FilterShutdownEligibleNodes, RecoverUnexpectedlyBootedNodes | `Nodeops`, `Reconciler`; label rules: `Labels` |
| power-on (`pkg/nodeops/util.go`, `mac.go`) | none of its own | PowerOnAndMarkBooted, ForcePowerOnAllNodes, UncordonNode, ClearPoweredOffAnnotation | `Reconciler` |
| power controllers (`pkg/power`) | attempt and deadline of a wake-up | Shutdown (HTTP, no-op), PowerOn (WOL, no-op) | `Reconciler`, `Machines` |
| poweroff daemon, WOL agent (`poweroff-daemonset`, `wol-agent`) | none | /shutdown, /mac, /wake | `Machines`, `MACUpdater`: what they do to a machine, and tell |
| strategies (`pkg/strategy`) | none | MinNodeCount, LoadAverage up and down, ResourceAware, the two chains | MinNodeCount: `Reconciler`; load gates: `LoadStats`, `LoadAverage`; all, with the loop: `Scaling` |
| MAC updater (`pkg/nodeops/mac_updater.go`, `podutil.go`) | MAC annotations | RunOnce every ten seconds | `MACUpdater` |
| metrics daemon, configuration, clients, metrics, tracing, health endpoints | none that the loop depends on | | no: I/O and set-up |

How they interact: the loop calls the filters, asks the strategies, and then
runs PowerOnAndMarkBooted (scale-up, rotation, force mode) or cordon, drain,
annotate, shut down (scale-down), one API or HTTP call at a time. Node objects
are shared with the scheduler, with kubelets, with operators and with the MAC
updater, the one other goroutine. The tracker is
a cache of what the loop did itself; the annotations are what a restarted
process goes by.

What is hard, with the properties that answer it (`PROJECT.json` lists each
hazard at its line):

- **A stopped machine that still looks Ready.** For some 40 s after an accepted
  shutdown the node still reports Ready. Recovery would take it for a node that
  somebody booted; WOL would find it "Ready" and declare success.
  (`OffIsRecorded`, `NoWorkLost`)
- **Restarts.** The cooldowns and the powered-off set are gone; annotations must
  carry the safety. (`OffIsRecorded`, `FreshBootProtected`, `MinNodesMaintained`)
- **Calls that fail half-way.** Each handler is a sequence of patches, without
  a transaction. (`FloorKept`, `BootedNodeRejoins`, and the findings)
- **Check and use far apart.** The list of recovery is older than the ages it
  checks; pods arrive between the drain's check and its cordon.
  (`BootInv`, `NoWorkLost`)
- **Counting.** `minNodes` against eligible nodes, with nodes that are cordoned,
  marked, cooling down or not Ready. (`FloorKept`, `FloorInv`)
- **Coming back.** A node that boots late, unordered, or after its packet was
  lost must rejoin. (`BootedNodeRejoins`, `MinNodesMaintained`)
- **Pods that move while they are drained.** A name is used again, an eviction is
  denied, a volume stays attached. (`EvictsOnlyHere`, `VolumesDetached`,
  `DrainCompletes`, `RefinesLoop`)
- **Decisions on partial data.** Metrics are missing, loads arrive one by one,
  and the drain that follows a decision takes minutes. (`RetiredOnLowLoad`,
  `WokenOnHighLoad`, `CapacityKept`, `NoFlapping`, `SustainedLoadWakesAll`)
- **Two writers of one object**: the loop writes back whole objects that it read
  earlier, the updater works on an old list and asks daemons that may fail or
  hang. (`LoopKeepsAddresses`, `AddressesSurvive`, `AddressDiscovered`)
- **Several filters, each with its own rule.** (`FiltersAgree`, `OptOutScope`)

## 2. The modules

```
Nodeops <- Machines <- Reconciler <- ReconcilerInv <- Lifecycle <- MCReconciler (TLC)
                           ^              ^               |
                           |              |               +-- INSTANCE NodeLifecycle
                           |     ReconcilerProofs <- LoopProofs (TLAPS)
             LoadStats <- Scaling <- MCScaling (TLC), ScalingProofs (TLAPS)
             LoadStats <- LoadAverage <- MCLoadAverage (TLC), LoadAverageProofs (TLAPS)
             LoadStats <- LoadStatsProofs (TLAPS)
Drain (INSTANCE Reconciler) <- MCDrain (TLC), DrainProofs (TLAPS)
MACUpdater <- MCMACUpdater (TLC), MACProofs (TLAPS)
Labels <- MCLabels (TLC), LabelsProofs (TLAPS)
```

`X <- Y` reads "Y extends X". Besides, `LoopProofs` extends `Lifecycle`,
`ScalingProofs` extends `ReconcilerProofs` and `LoadStatsProofs`, and
`LoadAverageProofs` extends `LoadStatsProofs`.

**`Nodeops`**: Node objects and tracker, each write to them, and the filters as
sets. A timestamp is its age in ticks, cut off at the largest threshold the code
compares it with: beyond it nothing changes, and a missing timestamp behaves
like a very old one (in ListShutdownNodeNames, and in both cooldown checks).
Labels are constant sets. `LongestOff` and `MostOverdue` are the sets of nodes
that the code's sorts may put first, so a tie is resolved either way.

**`Machines`**: the world outside (external, but for the two daemons): power,
Ready condition, the most protected pod on each node ("protected" is what
drainBlocker refuses, "evictable" what an eviction removes), and `upAge`, the
true time of the last boot, which no code can read.

**`Reconciler`**: the loop. `pc` names the next call that can fail or take time;
an action is that call with the in-memory work up to the next one. A failed API
call may or may not have taken effect, both outcomes are explored where they
differ. The correspondence, in the order of the code:

| code | actions |
|---|---|
| main, RestorePoweredOffState | `Restart`, after the bootstrap cooldown; `Crash` |
| Reconcile, RecoverUnexpectedlyBootedNodes | `StartLoop` (clock and list), `RecoverUncordon`, `RecoverPatch`, `RecoverDone` |
| rest of Reconcile's head | `ClearCachedOff` (with the branches on force mode and cooldown) |
| ForcePowerOnAllNodes | `ForceNext` |
| MaybeScaleUp, MinNodeCount | `MaybeScaleUp` |
| PowerOnAndMarkBooted, WakeOnLanController.PowerOn | `PowerOn`, `Wake`, `AwaitReady`, `LookAgain`, `BootTimeout`, `PersistBootTime`, `UncordonBooted`, `ClearAndMarkBooted` |
| MaybeScaleDown, CordonAndDrain | `MaybeScaleDown`, `DrainPrecheck`, `Cordon`, `DrainRound`, `AnnotatePoweredOffNode`, `Shutdown`, `UndoAnnotation`, `RestoreScheduling` |
| MaybeRotate | `MaybeRotate`, then PowerOnAndMarkBooted |

`RestorePoweredOffState` marks managed nodes that a list of all nodes does not
contain. Both lists come from the same API server and nodes are not deleted in
the model, so the set is empty, which is why a restarted process depends on
the annotations alone.

**`ReconcilerInv`**: the inductive invariants.

**`NodeLifecycle`**: the abstract specification, in one page: a node serves, leaves,
is parked, is off, returns, and moves between these phases only as listed there.
It knows no loop, no tracker and no clock, and stands for no code of its own.
**`Lifecycle`** reads the phase of a node off its Node object and its machine;
`KeepsPromise` says that every behaviour of `Reconciler` is one of `NodeLifecycle`.

**`Drain`**: CordonAndDrain, pod by pod. A pod has a name, which its owner may use
again, and a UID; one round lists the pods and takes them in any order, by which
time they may be gone, replaced or bound to another node. `accepted` is the map of
the same name in the code, keyed by name and UID. An eviction is accepted only if
the UID still matches (the precondition in the request); it may be denied at any
time (429), or find the pod gone (404) or replaced (409). Then come the reads of
VolumesInUse and of the attachments, which change in between. `RefinesLoop` ties
it to the loop: with the pods of the node abstracted to the most protected one,
each step is a step that `Reconciler` has for a drain, or none.

**`LoadStats`**: average and percentile, as exact fractions. The sum is a recursive
function and the sorted loads are given by counting: at each place stands the
value with fewer smaller loads than the place, and enough loads up to it.
`MCScaling` has an assumption, `AscendingSorts`, by which TLC compares this with
the standard sort. **`LoadAverage`**: the
three callers of the load gates (scale-down, scale-up, rotation), one fetch per
step. Every answer is a free choice, so loads that change meanwhile are
included; missing pods, errors and loads without CPUs are `NoAnswer`. The
settings (mode, overrides, which nodes are off) are chosen at the start.

**`Scaling`**: `Reconciler` with the verdicts its strategies really give, from the
demand of pods, the loads, and whichever metrics arrive. It restricts the steps of
the loop and adds none, so every safety property of `Reconciler` holds here. A verdict
is one step here (`LoadAverage` has its parts).

| code | definitions |
|---|---|
| ResourceAwareScaleDown, AnalyzeNodes, SumRequests | `ResourceAware`, `Fits`, `Margin`, `AllMetered` |
| LoadAverageScaleDown, LoadAverageScaleUp | `LowLoad`, `HighLoad` |
| MultiStrategy, MultiUpStrategy | `ShouldScaleDown`, `ShouldScaleUp` |
| PickRotationPoweroffCandidate | `GatesOpen`, `GatesClosed` |

**`MACUpdater`**: the updater's passes (`StartPass`, `NextNode`, `FetchMAC`,
`PatchMAC`), the loop's read-change-write of a Node object (`GetNode`, `UpdateNode`,
with retries on conflict), power-on's choice of the address (`PowerOn`), and an
operator who annotates by hand. The loop is reduced to what touches addresses:
it may cordon, uncordon or wake any node at any time. `fresh` stands for the
resource version. A node's own address is the node. The daemon tells it unless the
node has no default route over a card with an address (`routed`, chosen at the
start; an error text, which cannot be decoded). An answer that can be decoded and
holds no address is stored as it is, and a daemon that hangs (`silent`) holds the
updater up for as long as it does, because the request has no timeout.

**`Labels`**: the filters on labels that `Nodeops` takes as constant sets. A node's
labels and the configured rules are functions from keys to values. Beside being a
check of its own it justifies those sets: a node that ListManagedNodes lets through
is ignored by none of the later filters.

The **`MC...`** modules hold the constants for TLC. Several definitions are
preceded by a variant with a plausible mistake (`NoGrace`, `NeverInCooldown`,
`PickDownToMinNodes`, ...). Nothing uses them: each takes the place of the
definition after it to see that a property of the runs notices, and `PROJECT.json`
lists which.

### Abstractions

- In `Reconciler`, strategies other than MinNodeCount may say yes or no at any time
  (`LoadAverage` says whether the load-average one is on). Every decision the
  real ones take is among these; `Scaling` has the real ones.
- In `Reconciler`, the pods of a node are the kind of the most protected one, and a
  drain round may abort at any time, which stands for denied evictions and
  attached volumes until the drain timeout, and for errors; `Drain` has the pods.
- Conflicts on updates are retried by the code; only `MACUpdater` shows them.
- `HasMAC` is fixed in `Reconciler`; `MACUpdater` has the changes.
- Operators do not cordon nodes; they may boot machines, and edit MAC annotations
  in `MACUpdater`.
- A was-powered-off value that is no timestamp counts as a very old one
  (PoweredOffSince), for which the largest age stands.
- In `Scaling`, demand and loads are constant in a behaviour: its properties are
  about what the loop makes of them. A load is the node's while it runs, wherever
  its pods go.
- Floating-point rounding in averages and percentiles is left out: loads are
  integers in some unit and aggregates are exact.
- A machine told to stop does stop, and does not boot before it is off. Only a
  machine that is off boots unordered: a spontaneous reboot of a serving node, which
  the autoscaler could not see, is left out, and `FreshBootProtected` says nothing of it.
- Reads that follow each other within a handler are one: `MaybeScaleUp` has the
  strategies' lists and the Get of the node in one step, `ClearCachedOff` has
  Reconcile's list and the one of ForcePowerOnAllNodes, and `MACUpdater!PowerOn` reads
  the address when it calls.
- `AwaitReady` looks at the node at least once; with a boot timeout of zero the code
  would not look at all.
- An annotation with an empty value, which the code never writes, is left out of
  `Nodeops`.
- In `Drain`, a DaemonSet's pod that asks not to be evicted is like any other such
  pod ("pinned"), and does not come to a cordoned node; a real one could.

### Bounds

`MaxFaults` bounds the faults in a behaviour, by kind: a failing API call, a
crash, a lost answer to a shutdown ("reply"), a missed heartbeat ("flap"), an
unordered boot ("boot"), a lost magic packet ("wol"). `OffCap` and the thresholds bound the
ages. Everything else in the loop's modules is finite of itself: no behaviour is
cut short, and the loop runs for ever. In `Drain`, `MaxUid` bounds how often a
name is used again: twice is enough for a pod that replaces a listed one; a drain
may still take any number of rounds. In `MACUpdater`, `MaxEdits` bounds the
operator and `MaxFaults` the failing calls, the empty answers and the daemons that
hang (their repair is free). `LoadAverage` asks up to four nodes (so
that every percentile lies between two of them in some case) for five different
loads. `Labels` takes all labels over four keys and
three values, and all rules over three of the keys, the disabled label's among them;
the theorems take rules on any key.

`Tick` makes one assumption about time: from the annotation `was-powered-off`,
the shutdown request, the loss of Ready after it, and a recovery pass that has
listed the node while it was still Ready are over within `StopLatency` ticks.
The last part is not idle. Recovery lists nodes once and checks ages as it goes,
so a list older than the grace period would be believed; TLC found that on
three nodes. The calls in between take seconds, the grace period is two minutes.

## 3. Runs

| run | question | properties |
|---|---|---|
| `cluster` | Three nodes, two failing calls, crashes or unordered boots, force mode switched at any restart: is a stopped machine recorded and empty, a fresh boot safe, and does the loop implement the abstract life cycle while one node stops and another is recovered or woken? | `TypeOK`, `OffIsRecorded`, `NoWorkLost`, `FreshBootProtected`, `BootInv`, `KeepsPromise` |
| `floor` | Three nodes, `minNodes` 2, three faults of any kind, answers get lost, stops outlast all cooldowns: is the floor kept in any deployment? | `FloorInv`, `FloorKept` |
| `dry_run` | Three nodes, any of them off, forced or not: does a dry run touch anything? | `DryRunIsReadOnly` |
| `noop` | Both power controllers disabled, nodes without MAC address, one with the disabled label: does a loop undo what it does not finish, and does a node that was only marked come back? | `NoStrandedCordon`, `BootedNodeRejoins` |
| `liveness` | The loop with its strategies, three nodes, load low or high, an unordered boot, a missed heartbeat or a lost packet: do nodes come back, are all on under a load that stays high, and is there one operation per cooldown? | `StopsAreSpaced`, `BootedNodeRejoins`, `MinNodesMaintained`, `SustainedLoadWakesAll` |
| `scaling` | The loop with its strategies, three nodes, all demands and loads, metrics missing at any time, failing calls, crashes, lost packets, rotation: does the demand still fit when a machine stops, and does a retirement cause a wake-up? | `CapacityKept`, `NoFlapping` |
| `drain` | A service with a volume, a job and a daemon; names used again, denied evictions, failing calls, timeouts: what does a drain evict, what does it leave, does it end? | `TypeOK`, `VolumesDetached`, `EvictsOnlyHere`, `RefinesLoop`, `DrainCompletes` |
| `load` | Five nodes, one excluded, up to three off, all modes, overrides, missing answers: on what data is a node retired or woken? | `TypeOK`, `RetiredOnLowLoad`, `WokenOnHighLoad`, `AggregateIsMonotone` |
| `mac` | Two nodes that go off and on, with or without a route; updater, loop and operator write the same objects, two calls fail, tell no address or hang: is a write ever undone or an address lost, and does a node that stays on get its own? | `TypeOK`, `AddressesSurvive`, `LoopKeepsAddresses`, `AddressDiscovered` |
| `labels` | All labels over four keys, all rules over three: do the filters agree, and what is an opt-out out of? | `FiltersAgree`, `OptOutScope` |
| `stale_mark` | (counterexample) One failing call, no rotation: is a mark removed once its node runs? | `MarkIsCleared` |
| `lost_answer` | (counterexample) The answer to an accepted shutdown is lost. | `NoWorkLost` |

Three nodes are the least at which one node is handled while a second stops and a
third keeps the floor; a fourth would meet each of them only as one of these
three does. Thresholds of 2 ticks tell "just now", "within" and "past" apart.
Two faults are enough for a fault and a failing answer to it, or a restart;
`floor`, the cheapest, has three. In `liveness` and `noop` there are no failing
calls, as `stale_mark` shows what one does, and no crashes, as a restart forgets
the cooldown by design.

`RetiredOnLowLoad` and `WokenOnHighLoad` are stated by counting, not by the
formula of the code: how many loads may, or must, reach a threshold that the
percentile does not, or does, reach. `AggregateIsMonotone` adds that the order of
arrival is irrelevant (stated as exchanges of two answers, which lead to any order) and that more load never makes a retirement likelier.
`scaling` uses equal thresholds for scale-down and scale-up, the closest they can be without
overlapping: the gates look at the same nodes (the candidate is left out before
it is retired, and its annotation leaves it out afterwards), so they cannot both
open under one load. With a scale-up threshold below the scale-down threshold,
which nothing forbids, they do. `NoFlapping` is about a retirement since which no mark was
removed: a node that rotation or recovery brings back counts again, and its load may
be the one that is too high.

### What the repository says and the code does not do

Two runs end in a counterexample; the property of the first is at the end of
`Reconciler`, that of the second is the one that holds, and is proved, when no
answer is lost.

- `stale_mark` (`MarkIsCleared`). `docs/README.md:99`: "presence means “off”";
  `reconciler.go:349`: "Abort without claiming the node is off if any
  prerequisite fails". If the annotating patch fails after it took effect, or
  its removal fails, the abort uncordons the node and leaves the mark. Recovery
  only looks at cordoned nodes, so, with rotation off and no need to scale up, a
  running, schedulable node counts as off for ever. A patch that fails in
  RecoverUnexpectedlyBootedNodes itself, after the uncordon, has the same end.
- `lost_answer` (`NoWorkLost`). `README.md:17`: "Nodes are cordoned and drained
  safely before shutdown". A lost or late answer to an accepted shutdown is
  taken for a refusal; the node is uncordoned and gets pods while it goes down.

Other disagreements, met while modelling. The modules follow the code in each of
them; most can be read off one line, and none has a run of its own.

- `nodes.go:156`, against `config.yaml:13`, "Minimum number of nodes that must
  remain active": scale-down compares `minNodes` with a count that includes
  NotReady nodes.
- `util.go:87`, against `state.go:10-11`, where the global cooldown "Starts when any
  node is shut down (scale-down) or powered on (scale-up)": if a call fails
  after the node has been woken, no cooldown starts and the same loop goes on to
  retire a node.
- `min_node_count.go:50`, against `docs/README.md:21`, "MinNodeCount-based scale-up to
  maintain minimum node count": the node that is off the longest is always the
  one to be woken. If that is impossible (it has no MAC address, say), it is tried
  in every loop and no other node ever is.
- `resource_aware.go:134`, against `reconciler.go:63`, "to ensure pods can fit
  elsewhere": the capacity of cordoned nodes counts, for example that of a node
  which a crash left cordoned. (`CapacityKept` speaks of machines that run.)
- `util.go:61`, against `docs/README.md:98`, "Manually specified MAC (takes
  precedence)", and `node_wrapper_test.go:65-79`: power-on reads the discovered
  address only (`GetMACAddressFromNode`; `GetEffectiveMACAddress`, which does what the
  text says, has no caller outside its test). As the updater skips a node with an
  override (`mac_updater.go:60`), one that is overridden before its address is found
  out has none that power-on reads, and cannot be woken. No property of `MACUpdater`
  speaks of the address by which an overridden node is woken.
- `reconciler.go:645`, against `docs/README.md:82` and the comment in line 639, "union of
  disabled-label and loadAverageStrategy.excludeFromAggregateLabels": an exclusion
  configured on the disabled label with a value other than "true" takes the place of
  the label's own, and nodes that are disabled count as load. `OptOutScope` has the case.
- `mac_updater.go:37`, against `config.yaml:94`, "How often to refresh missing MAC
  address annotations": the interval's ticker is never read; passes are ten
  seconds apart.
- `node_wrapper.go:39`, against `config.yaml:49`, "Annotation to store auto-discovered
  MAC address for WOL": the updater always stores under the default key,
  power-on reads the configured one.
- `nodes.go:61`, against `docs/README.md:83`, "nodes matching these presence/value
  rules": ListManagedNodes looks at the key only.
- `reconciler.go:449`, against `config.yaml:31`, "nodes carrying this key are never
  rotated back": an empty value does not count.

### Fairness

`FairSpec` assumes: `WF(Controller)`, the loop in main runs for ever and each call
has a timeout or an error; `SF(BootTimeout)`, the deadline of a wake-up attempt is
tested after each pause, so pausing for ever is impossible, though each single
pause may lead to another look; `WF(Tick)`, time passes; `WF(Settle(n))`, a
machine that was told to stop or to boot does so and its Ready condition follows.
Nothing is assumed of pods, and faults are only assumed to be finite in number.
The runs with these properties have no pods (`WorkKinds` is empty), as none of the
properties is about them. `ScalingFairSpec` assumes the same of the loop with its
strategies. In `liveness` no metrics are missing: a load that is never complete
wakes nobody, as `WokenOnHighLoad` says.

`Drain!FairSpec`: the poll loop goes on (`WF(DrainStep)`); a disruption budget
that denies an eviction again and again allows it in the end
(`SF(EvictionAccepted)`, an assumption about the cluster, without which only the
drain timeout ends a drain); a pod that is to go goes, and its volume is unmounted
and detached. Nothing is assumed of owners, who may replace pods, elsewhere, at
any time; and `DrainCompletes` says nothing of a drain that is aborted, by its
timeout or a failing call.

`MACUpdater!FairSpec`: the updater's loop never ends and each of its calls does
(`WF(Updater)`), but for a request to a daemon that is silent, in which no step of
the updater is enabled. That request has no timeout, so nothing is assumed about
its end: one daemon that hangs for ever keeps every other node from getting an
address. `AddressDiscovered` therefore asks that from some time on no daemon is
silent, on whatever node; daemons that are gone, refuse or answer with an error may
be so for ever.

## 4. Proofs

For any finite set of nodes (or of pods), any thresholds and any number of faults:

| theorem | statement | assumes |
|---|---|---|
| `ReconcilerProofs!TypeCorrect` | `Spec => [](TypeOK /\ InHand)` | the modules' ASSUMEs |
| `ReconcilerProofs!OffStaysRecorded` | `Spec => []OffIsRecorded` | `SoundDeployment` |
| `ReconcilerProofs!NoWorkIsLost` | `Spec => []NoWorkLost` | `SoundDeployment` |
| `ReconcilerProofs!FreshBootsAreProtected` | `Spec => []FreshBootProtected` | `SoundDeployment` |
| `ReconcilerProofs!BootsAreRecorded` | `Spec => []BootInv` | `SoundDeployment` |
| `ReconcilerProofs!FloorHolds`, `FloorIsKept` | `Spec => []FloorInv`, `Spec => FloorKept` | the modules' ASSUMEs |
| `LoopProofs!LoopKeepsPromise` | `Spec => KeepsPromise` (a refinement) | `SoundDeployment` |
| `LoopProofs!NothingIsStranded` | `Spec => []NoStrandedCordon` | no failing calls, no crashes |
| `LoopProofs!ShutdownsAreSpaced` | `Spec => []StopsAreSpaced` | `SoundDeployment`, no crashes, `Cooldown <= OffCap` |
| `LoopProofs!DryRunsAreReadOnly` | `Spec => DryRunIsReadOnly` | a dry run; nobody else boots machines |
| `DrainProofs!DrainTypeCorrect` | `Spec => []TypeOK` | the module's ASSUME |
| `DrainProofs!EvictionsStayHere` | `Spec => EvictsOnlyHere` | the module's ASSUME |
| `DrainProofs!DrainedIsDetached` | `Spec => []VolumesDetached` | no pod of a DaemonSet uses a persistent volume |
| `DrainProofs!DrainRefinesLoop` | `Spec => RefinesLoop` (a refinement) | the module's ASSUME |
| `LoadAverageProofs!GateTypeCorrect` | `Spec => []TypeOK` | the modules' ASSUMEs |
| `LoadAverageProofs!RetiresOnLowLoad`, `WakesOnHighLoad` | `Spec => []RetiredOnLowLoad`, `Spec => []WokenOnHighLoad` | the modules' ASSUMEs |
| `LoadAverageProofs!MonotoneVerdict` | `Spec => []AggregateIsMonotone` | the modules' ASSUMEs |
| `ScalingProofs!CapacityIsKept` | `ScalingSpec => CapacityKept` | `SoundDeployment` |
| `ScalingProofs!NeverFlaps` | `ScalingSpec => NoFlapping` | `ScaleDownThreshold <= ScaleUpThreshold` |
| `MACProofs!MACTypeCorrect` | `Spec => []TypeOK` | the module's ASSUME |
| `MACProofs!AddressesAreNotLost` | `Spec => AddressesSurvive` | the module's ASSUME |
| `MACProofs!AddressesAreKept` | `Spec => LoopKeepsAddresses` | the module's ASSUME |
| `LabelsProofs!NoFilterDisagrees`, `ScopesAreKept` | `Spec => []FiltersAgree`, `Spec => []OptOutScope` | the module's ASSUME |

`SoundDeployment`: nodes are really woken (with power-on disabled, a scale-up
unmarks a node that is off), no answer to an accepted shutdown is lost (see
`lost_answer`), and a stop is over (`StopLatency`) within the recovery grace
period, the global cooldown and the bootstrap cooldown. The last is a real
condition on operators: `config.yaml` sets 30 s and the chart 10 s for the bootstrap
cooldown, less than the default 40 s after which Kubernetes declares a silent
node NotReady. A restart of the pod takes time too, which counts as downtime in
the model (`downAge`).

The argument for the power-off theorems. `OffIsRecorded` by itself is not
inductive: if a stopped machine still looks Ready, a loop in the right place
would unmark it. So `PowerOffInv` adds that such a state is young
(`StaleInTime`), and that while it lasts the loop is kept away (`StaleHeldOff`): the
process is down, for no longer than the stop is old, so that the bootstrap
cooldown holds; or the tracker's global cooldown, no older than the stop, ends
each loop right after recovery; or force mode, which ignores the cooldown,
works on a list without that node. Recovery itself runs even in the cooldown, so
`RecoverInTime` says that a stopped node in its list is within the grace period.
`CandidateRuns` and `DrainProgress` carry what the loop established about the
node in hand from call to call: that it runs, is cordoned, is empty, is marked.
`NoWorkLost` needs `OffIsRecorded`, as the scheduler avoids cordoned nodes only.

For fresh boots, `BootTimeRecorded`: a node without the mark, or about to lose it,
has a `booted-at` no older than its last boot. It holds because both
PowerOnAndMarkBooted and recovery write `booted-at` before, or with, the removal
of the mark; an aborted scale-down returns a node whose boot time was already
past. For the floor, `FloorInv`: while a node is retired, `MinNodes` others are in
service; nothing else leaves service in that time, the loop being one thread.

The refinement. Each action of the loop is matched with a move of `NodeLifecycle` or
with none (`QuietStep`, `MoveStep`). Most need only what the action itself changes;
four need an invariant. A cordon is `Leave`, which needs `FloorInv` for
`MinNodes`, and the mark is `Park`, which needs the node to be empty (`PowerOffInv`). Both
need `RetireeUnmarked`: the node in hand has no mark before it gets one, or its
cordon would be a step from "returning" to "parked". Uncordoning or unmarking
a node is `Return` only if the machine runs, which is what `PowerOffInv` is about.

Pacing. `StrandInv`: a node that is cordoned and unmarked is the one in hand, on its
way to the mark or back. `PaceInv`: the global cooldown is no older than the last
shutdown, so that a loop which gets beyond the cooldown check has no such machine to
mind but the one it stops itself; a list that is being recovered was made while
the cooldown was active. `DryInv`: a dry run never gets to a call that writes.

The drain. Neither theorem is inductive by itself, since both depend on a list
that may be old. `ListInv`: a listed pod's UID has not been used by a later pod unless
the listed one is gone, and the pod with that UID is still here. `RoundInv`: in a
cordoned node's round that has met no pod to wait for, every pod here that counts is
still listed, so that the end of the list means only DaemonSet pods are left;
they stay the only ones, as nothing else comes to a cordoned node. `VolumeInv`
then gives the theorem, because a volume is not attached again for no pod.

The updater. `MACInv`: the address in hand is that of the node in hand, or none
(`InHand`), and the copy the loop is about to write is, as long as nobody else has
written the object, what the object holds (`CopyIsCurrent`). So a write that the API
server accepts changes nothing but the cordon. `StillUnknown` is what makes
`AddressesSurvive` inductive: the list is old, but a node that had no address in it
and is still to be asked has none now, as nobody but the updater adds one and it has
taken the node in hand off its list. So the patch, even of an empty answer, meets a
node without an address. The label theorems are propositional in the rules; their
invariant (`RulesOK`) is that rules ask for values.

The drain as part of the loop. `RefinesLoop` maps the pods of the node to the most protected
one. What a step can do to it is in a few lemmas: pods that do not change leave
it (`SameWorkload`), it is protected, evictable or none by what is there
(`WorkloadCases`), and a drain step either is one that the loop does not see
(`UnseenStep`) or the loop's own; pods come and go as its scheduler and
kubelets make them (`SeenByLoop`). The one step with a condition is
the end of the drain, which in the loop needs an empty node: that is `RoundInv`.

Load statistics. The facts about sums and order statistics are for
sequences of any length. Each is an induction, by the least number at which it
would fail (`LeastElement`, `UpTo`): a sum lies between length times the least and
length times the greatest member, grows with its members (`TotalsMonotone`), and is the same
when two members are exchanged (`TotalsExchange`). For the sorted loads no induction on the sort is needed: `Places` says
how many members may lie on either side of the k-th, `RankedExists` that there is
one, and a percentile lies between two neighbours (`PercentileValue`). So an aggregate
below a threshold leaves only so many loads above it (`FewReach`), and one at or
above the threshold has so many there (`ManyReach`); these two bounds are what `RetiredOnLowLoad` and
`WokenOnHighLoad` state. More load in any place never lowers an aggregate
(`AggregateMonotone`).

The load gates. `GateInv`: the loads fetched so far and the nodes still to be asked
together number the nodes that count, for the candidate in hand, whose
own load is below the node threshold; and once a verdict is given it was given on all
of them. That is what makes the bounds above statements about nodes.

Scaling. Each step with a verdict is a step of the loop (`ScalingIsLoop`), so all
theorems on `Reconciler` apply. `CapacityInv`: while a node is drained, all nodes run
and the others have room. All nodes run, because the check of requests is made on the metrics of all
Node objects and a node that is off has none; but a machine that is stopping still
looks Ready and may have them. That no drain starts then is `StaleHeldOff` of
`PowerOffInv`, which is why this theorem needs `SoundDeployment`. Only the loop
stops machines, so it is the same nodes that run when the shutdown comes. `FlapInv`:
from the verdict to the shutdown, the load of the nodes that count, without the candidate,
does not reach the threshold of scale-down, and after the shutdown that of all
that count does not, as the mark has taken the candidate out.

Only model-checked:

- liveness, which is beyond the prover: `BootedNodeRejoins`, `MinNodesMaintained`,
  `DrainCompletes`, `SustainedLoadWakesAll`, `AddressDiscovered`;
- that the sorted loads of `LoadStats`, for which all facts above are proved, are
  what the standard sort returns: for up to five loads (`AscendingSorts`).

## 5. Not modelled, and what is left

- The metrics daemon, configuration parsing, the Kubernetes client, metrics,
  tracing, the health endpoints and the Helm chart: I/O and set-up without state that the loop
  depends on.
- Operators who cordon nodes by hand. The code cannot tell their cordons from its
  own; restoreScheduling after an aborted drain may remove one (a hazard without a property).
- Deleted Node objects, and network cards that are replaced.
- With power-on disabled (`noop`), a scale-up unmarks a node that stays off; no
  property speaks of it beyond `BootedNodeRejoins`.
- Worth proving next: that the call-by-call verdicts of `LoadAverage` are those
  that `Scaling` takes in one step.
