\* The answer to an accepted shutdown is lost.
SPECIFICATION Spec
CONSTANTS
    n1 = n1
    n2 = n2
    n3 = n3
    Nodes = {n1, n2}
    HasManagedLabel = {n1, n2}
    HasMAC = {n1, n2}
    HasDisabledLabel = {}
    HasIgnoreKey = {}
    HasExemptLabel = {}
    MinNodes = 1
    Cooldown = 2
    BootCooldown = 2
    RecoverGrace = 2
    MaxOff = 3
    OffCap = 3
    WorkKinds = {"evictable", "protected"}
    NoNode = NoNode
    DryRun = FALSE
    ForceModes = {FALSE}
    LoadAverage = TRUE
    Rotation = TRUE
    PowerOnMode = "wol"
    ShutdownMode = "http"
    MaxRetries = 1
    BootstrapCooldown = 2
    StopLatency = 2
    Faults = {"reply"}
    MaxFaults = 1
INVARIANTS
    NoWorkLost
