\* A call to the API server fails once; no rotation.
SPECIFICATION FairSpec
CONSTANTS
    n1 = n1
    n2 = n2
    n3 = n3
    Nodes = {n1, n2}
    HasManagedLabel = {n1, n2}
    HasMAC = {n1, n2}
    HasDisabledLabel = {}
    HasIgnoreKey = {}
    HasExemptLabel = {}
    MinNodes = 1
    Cooldown = 2
    BootCooldown = 2
    RecoverGrace = 2
    MaxOff = 3
    OffCap = 3
    WorkKinds = {}
    NoNode = NoNode
    DryRun = FALSE
    ForceModes = {FALSE}
    LoadAverage = FALSE
    Rotation = FALSE
    PowerOnMode = "wol"
    ShutdownMode = "http"
    MaxRetries = 1
    BootstrapCooldown = 2
    StopLatency = 2
    Faults = {"api"}
    MaxFaults = 1
PROPERTIES
    MarkIsCleared
