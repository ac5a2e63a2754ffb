SPECIFICATION Spec
CONSTANTS
    Proc = {p1, p2}
    Key <- Keys
    Val = {TRUE, FALSE}
    Valid <- MCValid
    Scaffold <- MCScaffold
    Edits <- MCEdits
    MaxOutages = 1
    Absent = Absent
    Malformed = Malformed
SYMMETRY Symmetry
INVARIANTS
    TypeOK
    TempOnlyLeftByCrash
    FinishedEditSurvives
PROPERTIES
    RegisterSpec
    InitOverwritesOnlyNewcomers
\* every invocation may have ended
CHECK_DEADLOCK FALSE
