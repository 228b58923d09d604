------------------------------- MODULE Labels ------------------------------
(***************************************************************************)
(* The labels that opt a node out.  Several filters read them, each with   *)
(* its own rule: ListManagedNodes, NodeWrapper.IsIgnored and               *)
(* ShouldIgnoreNodeDueToLabels (src/pkg/nodeops), the exemption from       *)
(* rotation and the exclusions from aggregate load                         *)
(* (src/pkg/controller/reconciler.go).  A node's labels are a function     *)
(* from keys to values; a rule, as configured, is one too, in which the    *)
(* value "" stands for any.                                                *)
(***************************************************************************)
EXTENDS FiniteSets

CONSTANTS
    Keys,           \* label keys
    Values,         \* label values, "" among them
    Absent,         \* the value of a label that is not there
    Managed,        \* nodeLabels.managed
    Disabled,       \* nodeLabels.disabled
    ExemptLabel,    \* rotation.exemptLabel
    RuleKeys        \* the keys that ignoreLabels and excludeFromAggregateLabels use

ASSUME LabelAssumption ==
    /\ {Managed, Disabled, ExemptLabel} \subseteq Keys
    /\ RuleKeys \subseteq Keys
    /\ {"", "true"} \subseteq Values
    /\ Absent \notin Values

Rules == UNION {[keys -> Values] : keys \in SUBSET RuleKeys}

VARIABLES
    labels,         \* the labels of a node
    ignoreLabels,   \* ignoreLabels
    excludeLabels   \* loadAverageStrategy.excludeFromAggregateLabels

vars == <<labels, ignoreLabels, excludeLabels>>

Has(key) == labels[key] # Absent

-----------------------------------------------------------------------------
(* The filters. *)

\* Presence of an ignored key is enough to exclude a node.
MatchesIgnoredValue == \E k \in DOMAIN ignoreLabels : labels[k] = ignoreLabels[k]
HasIgnoredKey == \E k \in DOMAIN ignoreLabels : Has(k)

IsManaged ==
    /\ labels[Managed] = "true"
    /\ labels[Disabled] # "true"
    /\ ~HasIgnoredKey

IsIgnored == \E k \in DOMAIN ignoreLabels : labels[k] = ignoreLabels[k]

ShouldIgnoreNodeDueToLabels(rules) ==
    \E k \in DOMAIN rules : Has(k) /\ rules[k] \in {"", labels[k]}

IsExempt == Has(ExemptLabel) /\ labels[ExemptLabel] # ""

\* Nodes that are disabled, and the configured exclusions, which are copied over
\* that (maps.Copy); not the ignored ones
IgnoredExcludedToo ==
    [k \in DOMAIN excludeLabels \cup DOMAIN ignoreLabels \cup {Disabled} |->
        IF k \in DOMAIN excludeLabels THEN excludeLabels[k]
        ELSE IF k = Disabled THEN "true" ELSE ignoreLabels[k]]
BuildAggregateExclusions ==
    [k \in DOMAIN excludeLabels \cup {Disabled} |->
        IF k \in DOMAIN excludeLabels THEN excludeLabels[k] ELSE "true"]

InAggregate == ~ShouldIgnoreNodeDueToLabels(BuildAggregateExclusions)

\* MaybeRotate wakes such a node when it has been off for long enough.
Rotated == IsManaged /\ ~IsExempt /\ ~ShouldIgnoreNodeDueToLabels(ignoreLabels)

-----------------------------------------------------------------------------

Init ==
    /\ labels = [k \in Keys |-> Absent]
    /\ ignoreLabels \in Rules
    /\ excludeLabels \in Rules

\* An operator labels the node, or removes a label.
Relabel ==
    /\ \E k \in Keys, v \in Values \cup {Absent} :
         /\ v # labels[k]
         /\ labels' = [labels EXCEPT ![k] = v]
    /\ UNCHANGED <<ignoreLabels, excludeLabels>>

Spec == Init /\ [][Relabel]_vars

-----------------------------------------------------------------------------
(* Properties. *)

\* What the loop may act upon: ListManagedNodes lets through no node that a
\* later check of the same loop takes for ignored (ListActiveNodes and
\* FilterShutdownEligibleNodes with IsIgnored, RecoverUnexpectedlyBootedNodes
\* and MaybeRotate with ShouldIgnoreNodeDueToLabels).  Otherwise a node could
\* be shut down that recovery or rotation would leave off.
FiltersAgree ==
    IsManaged => /\ ~IsIgnored
                 /\ ~ShouldIgnoreNodeDueToLabels(ignoreLabels)
                 /\ IsExempt \/ Rotated

\* A disabled node is out of operations, whatever the rules, and of load math,
\* unless an exclusion is configured on the disabled label itself and asks for
\* another value: maps.Copy puts it in the place of "true".  Ignoring a node, or
\* any other opt-out, takes it out of operations only: a node that is not disabled
\* and meets no configured exclusion counts (BuildAggregateExclusions).
OptOutScope ==
    /\ labels[Disabled] = "true" =>
         /\ ~IsManaged
         /\ InAggregate => /\ Disabled \in DOMAIN excludeLabels
                           /\ excludeLabels[Disabled] \notin {"", "true"}
    /\ labels[Disabled] # "true" /\ ~ShouldIgnoreNodeDueToLabels(excludeLabels)
         => InAggregate
=============================================================================
