SPECIFICATION Spec
CONSTANTS
    TokenTTL = 2
    SinkMax = 4
    SampleMax = 1
    Window = 1
    BarePath = FALSE
    MaxFaults = 3
PROPERTIES
    ApplyRestartsOntoCredential
