----------------------------- MODULE LabelsProofs --------------------------
(***************************************************************************)
(* The filters agree for every set of keys, values and rules.              *)
(***************************************************************************)
EXTENDS Labels, TLAPS

\* Rules ask for values, and "absent" is none; the configuration stays.
RulesOK ==
    /\ DOMAIN ignoreLabels \subseteq RuleKeys
    /\ \A k \in DOMAIN ignoreLabels : ignoreLabels[k] # Absent
    /\ DOMAIN excludeLabels \subseteq RuleKeys

\* A rule asks for a value that a label can have.
LEMMA RuleValues ==
    ASSUME NEW rule \in Rules
    PROVE  DOMAIN rule \subseteq RuleKeys /\ \A k \in DOMAIN rule : rule[k] # Absent
<1>1. PICK keys \in SUBSET RuleKeys : rule \in [keys -> Values]
    BY DEF Rules
<1>2. QED
    BY <1>1, LabelAssumption

\* Relabelling a node changes no rule.
LEMMA RulesStay == Spec => []RulesOK
<1>1. Init => RulesOK
    BY RuleValues DEF Init, RulesOK
<1>2. RulesOK /\ [Relabel]_vars => RulesOK'
    BY DEF RulesOK, Relabel, vars
<1>3. QED
    BY <1>1, <1>2, PTL DEF Spec

\* Whatever the labels and the rules, a node that ListManagedNodes lets through
\* is ignored neither by IsIgnored nor by ShouldIgnoreNodeDueToLabels.
THEOREM NoFilterDisagrees == Spec => []FiltersAgree
<1>1. RulesOK => FiltersAgree
    BY DEF RulesOK, FiltersAgree, IsManaged, HasIgnoredKey, IsIgnored,
           ShouldIgnoreNodeDueToLabels, Has, Rotated
<1>2. QED
    BY <1>1, RulesStay, PTL

\* Whatever the labels and the rules, on whatever keys: a disabled node is never
\* managed, it is load only if an exclusion configured on the disabled label
\* displaces that label's own (maps.Copy), and a node that is only ignored still
\* is load (BuildAggregateExclusions).
THEOREM ScopesAreKept == Spec => []OptOutScope
<1>1. RulesOK => OptOutScope
    BY LabelAssumption
    DEF RulesOK, OptOutScope, IsManaged, InAggregate, ShouldIgnoreNodeDueToLabels,
        BuildAggregateExclusions, Has
<1>2. QED
    BY <1>1, RulesStay, PTL
=============================================================================
