SPECIFICATION LiveSpec
CONSTANTS
    App = {"cloud", "proxy"}
    Driver = "proxy"
    Slave = "tunnel"
    MaxCommit = 2
    MaxRequests = 2
    MaxEdits = 1
    MaxFailures = 1
    MaxGone = 1
INVARIANTS
    TypeOK
    BodyTellsTheMerge
PROPERTIES
    SlaveFollowsDriver
    PromotionNeverRegresses
    Promoted
CHECK_DEADLOCK FALSE
