SPECIFICATION Spec
CONSTANTS
    Zone = {z1, z2}
    www = www
    mail = mail
    a1 = a1
    a2 = a2
    Owner <- MCOwner
    Rdata <- MCRdata
    Records <- AllRecords
    Rejected <- BadRecords
    MaxRevision = 2
    LateWrites = FALSE
    MaxFaults = 3
    None = None
SYMMETRY ZoneSymmetry
INVARIANTS
    TypeOK
    JournalCoversKnot
    OneInFlight
    SettledSurvivesKnotRestart
    DeletedZonesLeaveNoKeys
    BackupIsConsistent
    AnswersLast
    Consistent
PROPERTIES
    RevisionFence
    ImplementsRegistry
