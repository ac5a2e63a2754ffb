SPECIFICATION FairSpec
CONSTANTS
    MaxFrames = 3
    MaxBatch = 2
    EventLimit = 3
INVARIANTS
    TypeOK
    ViewIsStreamPrefix
    EndsForAReason
    ChildStoppedAtExit
PROPERTIES
    QuitEnds
    RecordsAreShown
    ChildEndsWithDashboard
\* the dashboard exits and its child ends
CHECK_DEADLOCK FALSE
