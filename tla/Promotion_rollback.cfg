SPECIFICATION Spec
CONSTANTS
    App = {"cloud", "proxy"}
    Driver = "proxy"
    Slave = "tunnel"
    MaxCommit = 2
    MaxRequests = 2
    MaxEdits = 1
    MaxFailures = 0
    MaxGone = 0
PROPERTIES
    CarriedPinsArePending
CHECK_DEADLOCK FALSE
