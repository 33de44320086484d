SPECIFICATION OperatedSpec
CONSTANTS
    Zone = {z1}
    www = www
    mail = mail
    a1 = a1
    a2 = a2
    Owner <- MCOwner
    Rdata <- MCRdata
    Records <- AllRecords
    Rejected <- BadRecords
    MaxRevision = 2
    LateWrites = FALSE
    MaxFaults = 0
    None = None
PROPERTY Converges
