\* Three nodes under loads that stay low or stay high, and fairness.
SPECIFICATION ScalingFairSpec
CONSTANTS
    n1 = n1
    n2 = n2
    n3 = n3
    Nodes = {n1, n2, n3}
    HasManagedLabel = {n1, n2, n3}
    HasMAC = {n1, n2, n3}
    HasDisabledLabel = {}
    HasIgnoreKey = {}
    HasExemptLabel = {}
    MinNodes = 1
    Cooldown = 2
    BootCooldown = 1
    RecoverGrace = 2
    MaxOff = 2
    OffCap = 2
    WorkKinds = {}
    NoNode = NoNode
    DryRun = FALSE
    ForceModes = {FALSE}
    LoadAverage = TRUE
    Rotation = TRUE
    PowerOnMode = "wol"
    ShutdownMode = "http"
    MaxRetries = 1
    BootstrapCooldown = 2
    StopLatency = 2
    Faults = {"flap", "boot", "wol"}
    MaxFaults = 1
    Resources = {"cpu", "mem"}
    Capacity <- SameCapacity
    BufferPerc <- Buffers
    Demands <- SmallDemands
    LoadProfiles <- LowOrHigh
    Excluded = {}
    ClusterEval = "average"
    NodeThreshold = 5
    ScaleDownThreshold = 3
    ScaleUpThreshold = 8
    MetricsFail = FALSE
INVARIANTS
    StopsAreSpaced
PROPERTIES
    BootedNodeRejoins
    MinNodesMaintained
    SustainedLoadWakesAll
