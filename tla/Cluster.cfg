\* Three nodes: a node is recovered or woken while another one stops; two faults,
\* and force mode switched at any restart.
SPECIFICATION Spec
CONSTANTS
    n1 = n1
    n2 = n2
    n3 = n3
    Nodes = {n1, n2, n3}
    HasManagedLabel = {n1, n2, n3}
    HasMAC = {n1, n2, n3}
    HasDisabledLabel = {}
    HasIgnoreKey = {}
    HasExemptLabel = {}
    MinNodes = 1
    Cooldown = 2
    BootCooldown = 2
    RecoverGrace = 2
    MaxOff = 2
    OffCap = 2
    WorkKinds = {"evictable"}
    NoNode = NoNode
    DryRun = FALSE
    ForceModes = {TRUE, FALSE}
    LoadAverage = TRUE
    Rotation = TRUE
    PowerOnMode = "wol"
    ShutdownMode = "http"
    MaxRetries = 1
    BootstrapCooldown = 2
    StopLatency = 2
    Faults = {"api", "crash", "boot"}
    MaxFaults = 2
SYMMETRY Perms3
INVARIANTS
    TypeOK
    OffIsRecorded
    NoWorkLost
    FreshBootProtected
    BootInv
PROPERTIES
    KeepsPromise
