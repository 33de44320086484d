\* The diagnostic agent with one rebinding name, two literals and a forbidden
\* port; the expiry collector with one failover IP and two unpaid invoices; the
\* BGP agent with the own and one other origin and two changes of the world.
CONSTANTS
    Name = {"name"}
    Address = {"public", "private"}
    Public = {"public"}
    Port = {"443", "445"}
    AllowedPort = {"443"}
    MaxRedirects = 5
    MaxAnswers = 2
    FailoverIPs = 1
    Bills = 2
    Unpaid = 2
    StaleAfter = 4
    ErrorsFor = 2
    Origin = {"own", "other"}
    Own = "own"
    MaxChanges = 2
SPECIFICATION Spec
INVARIANTS
    VettedConnections
    FailuresAreCounted
    TypeOK
    DownFeedIsRetried
    ServedSourcesAreKnown
PROPERTIES
    ProbeEnds
    LapseIsNeverSilent
    HistoryIsKept
    ActiveExportsSettle
    ActiveRpkiSettles
    ActiveReportsSettle
