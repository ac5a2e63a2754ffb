SPECIFICATION Spec
CONSTANTS
    Proc = {p1, p2}
    code = code
    review = review
    d = d
    e = e
    Task = {code}
    Dir = {d}
    DirOf <- OneDir
    Unsearchable = {}
    Limits = {1}
    Keep = 1
    Base = 2
    MaxTime = 1
    MaxIdx = 3
    Absent = Absent
    Empty = Empty
    Garbled = Garbled
    None = None
SYMMETRY Symmetry
PROPERTIES
    PrunesOldestByTime
CHECK_DEADLOCK FALSE
