\* Three nodes: demand against capacity, and loads that stay, under faults.
SPECIFICATION ScalingSpec
CONSTANTS
    n1 = n1
    n2 = n2
    n3 = n3
    Nodes = {n1, n2, n3}
    HasManagedLabel = {n1, n2, n3}
    HasMAC = {n1, n2, n3}
    HasDisabledLabel = {}
    HasIgnoreKey = {}
    HasExemptLabel = {}
    MinNodes = 1
    Cooldown = 2
    BootCooldown = 1
    RecoverGrace = 2
    MaxOff = 2
    OffCap = 2
    WorkKinds = {}
    NoNode = NoNode
    DryRun = FALSE
    ForceModes = {FALSE}
    LoadAverage = TRUE
    Rotation = TRUE
    PowerOnMode = "wol"
    ShutdownMode = "http"
    MaxRetries = 1
    BootstrapCooldown = 2
    StopLatency = 2
    Faults = {"api", "crash", "wol"}
    MaxFaults = 2
    Resources = {"cpu", "mem"}
    Capacity <- SameCapacity
    BufferPerc <- Buffers
    Demands <- AllDemands
    LoadProfiles <- AllLoads
    Excluded = {}
    ClusterEval = "average"
    NodeThreshold = 9
    ScaleDownThreshold = 5
    ScaleUpThreshold = 5
    MetricsFail = TRUE
PROPERTIES
    CapacityKept
    NoFlapping
