\* Two nodes, of which one may be off for ever: the updater, the loop and an
\* operator write the same objects; two calls fail or daemons hang.
SPECIFICATION FairSpec
CONSTANTS
    n1 = n1
    n2 = n2
    n3 = n3
    Nodes = {n1, n2}
    HasDaemon = {n1, n2}
    MACKey = ""
    AutoKey = "cba.dev/mac-address"
    Typed = Typed
    Empty = Empty
    NoNode = NoNode
    RetrySteps = 2
    MaxEdits = 1
    MaxFaults = 2
INVARIANTS
    TypeOK
PROPERTIES
    AddressesSurvive
    LoopKeepsAddresses
    AddressDiscovered
