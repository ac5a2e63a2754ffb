SPECIFICATION FairSpec
CONSTANTS
    Proc = {p1, p2}
    code = code
    review = review
    d = d
    e = e
    Task = {code, review}
    Dir = {d, e}
    DirOf <- TwoDirs
    Unsearchable = {e}
    Limits = {0, 1, 2}
    Keep = 1
    Base = 2
    MaxTime = 1
    MaxIdx = 3
    Absent = Absent
    Empty = Empty
    Garbled = Garbled
    None = None
PROPERTIES
    CommandsTerminate
\* every invocation may have ended
CHECK_DEADLOCK FALSE
