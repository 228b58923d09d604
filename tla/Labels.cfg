\* All labels of a node over four keys, all rules over three of them, the disabled
\* label among them
SPECIFICATION Spec
CONSTANTS
    Keys = {"managed", "disabled", "exempt", "role"}
    Values = {"", "true", "other"}
    Absent = Absent
    Managed = "managed"
    Disabled = "disabled"
    ExemptLabel = "exempt"
    RuleKeys = {"disabled", "exempt", "role"}
INVARIANTS
    FiltersAgree
    OptOutScope
