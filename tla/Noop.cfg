\* Both power controllers disabled, one node without a MAC address, one with
\* the disabled label.
SPECIFICATION FairSpec
CONSTANTS
    n1 = n1
    n2 = n2
    n3 = n3
    Nodes = {n1, n2, n3}
    HasManagedLabel = {n1, n2, n3}
    HasMAC = {n1}
    HasDisabledLabel = {n3}
    HasIgnoreKey = {}
    HasExemptLabel = {}
    MinNodes = 1
    Cooldown = 2
    BootCooldown = 2
    RecoverGrace = 2
    MaxOff = 3
    OffCap = 3
    WorkKinds = {}
    NoNode = NoNode
    DryRun = FALSE
    ForceModes = {TRUE, FALSE}
    LoadAverage = TRUE
    Rotation = TRUE
    PowerOnMode = "disabled"
    ShutdownMode = "disabled"
    MaxRetries = 1
    BootstrapCooldown = 2
    StopLatency = 2
    Faults = {"flap", "boot"}
    MaxFaults = 1
INVARIANTS
    NoStrandedCordon
PROPERTIES
    BootedNodeRejoins
