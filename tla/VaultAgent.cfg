SPECIFICATION Spec
CONSTANTS
    TokenTTL = 2
    SinkMax = 4
    SampleMax = 2
    Window = 1
    BarePath = TRUE
    MaxFaults = 3
INVARIANTS
    TypeOK
    OutageIsSeen
    SpentCredentialIsSeen
    HealthyIsOK
    RestartIsNotAnOutage
    DeliveredCredentialIsReadable
PROPERTIES
    DeliveredCredentialWorks
