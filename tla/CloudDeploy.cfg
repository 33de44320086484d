SPECIFICATION Spec
CONSTANTS
    MaxVersion = 3
    Broken = {2}
    MaxRequests = 3
    MaxFaults = 3
INVARIANTS
    TypeOK
    RunsOnItsSchema
    WorkerFollowsHealthyAPI
    BlockedIsIntact
PROPERTIES
    MigrationFindsNoAttempt
    Recovers
