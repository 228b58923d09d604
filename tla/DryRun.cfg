\* A dry run over three nodes, of which any may be off at the start.
SPECIFICATION Spec
CONSTANTS
    n1 = n1
    n2 = n2
    n3 = n3
    Nodes = {n1, n2, n3}
    HasManagedLabel = {n1, n2, n3}
    HasMAC = {n1, n2, n3}
    HasDisabledLabel = {}
    HasIgnoreKey = {}
    HasExemptLabel = {}
    MinNodes = 1
    Cooldown = 2
    BootCooldown = 2
    RecoverGrace = 2
    MaxOff = 3
    OffCap = 3
    WorkKinds = {"evictable", "protected"}
    NoNode = NoNode
    DryRun = TRUE
    ForceModes = {TRUE, FALSE}
    LoadAverage = TRUE
    Rotation = TRUE
    PowerOnMode = "wol"
    ShutdownMode = "http"
    MaxRetries = 1
    BootstrapCooldown = 2
    StopLatency = 2
    Faults = {"api", "crash", "flap"}
    MaxFaults = 2
SYMMETRY Perms3
PROPERTIES
    DryRunIsReadOnly
