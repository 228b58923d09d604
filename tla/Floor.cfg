\* Three nodes in any deployment: answers get lost, stops outlast the cooldowns.
SPECIFICATION Spec
CONSTANTS
    n1 = n1
    n2 = n2
    n3 = n3
    Nodes = {n1, n2, n3}
    HasManagedLabel = {n1, n2, n3}
    HasMAC = {n1, n2, n3}
    HasDisabledLabel = {}
    HasIgnoreKey = {}
    HasExemptLabel = {}
    MinNodes = 2
    Cooldown = 1
    BootCooldown = 1
    RecoverGrace = 1
    MaxOff = 2
    OffCap = 2
    WorkKinds = {"protected"}
    NoNode = NoNode
    DryRun = FALSE
    ForceModes = {FALSE}
    LoadAverage = TRUE
    Rotation = TRUE
    PowerOnMode = "wol"
    ShutdownMode = "http"
    MaxRetries = 1
    BootstrapCooldown = 0
    StopLatency = 2
    Faults = {"api", "crash", "reply", "flap", "boot", "wol"}
    MaxFaults = 3
SYMMETRY Perms3
INVARIANTS
    FloorInv
PROPERTIES
    FloorKept
