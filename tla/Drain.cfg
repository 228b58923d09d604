\* A service that is recreated under its name, a job, a daemon; calls fail.
SPECIFICATION FairSpec
CONSTANTS
    agent = agent
    db = db
    web = web
    job = job
    Node = Node
    NoNode = NoNode
    Names = {agent, db, job}
    KindOf <- MCKindOf
    WithVolume = {db}
    DryRun = FALSE
    MaxUid = 2
CHECK_DEADLOCK FALSE
INVARIANTS
    TypeOK
    VolumesDetached
PROPERTIES
    EvictsOnlyHere
    RefinesLoop
    DrainCompletes
