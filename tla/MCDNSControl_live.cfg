SPECIFICATION OperatedSpec
CONSTANTS
    Zone = {z1}
    www = www
    mail = mail
    a1 = a1
    a2 = a2
    Owner <- MCOwner
    Rdata <- MCRdata
    Records <- GoodRecords
    Rejected <- NoRecords
    MaxRevision = 2
    LateWrites = FALSE
    MaxFaults = 3
    None = None
PROPERTY Converges
