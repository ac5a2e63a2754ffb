SPECIFICATION Spec
CONSTANTS
    Proc = {p1, p2, p3}
    code = code
    review = review
    d = d
    e = e
    Task = {code}
    Dir = {d}
    DirOf <- OneDir
    Unsearchable = {}
    Limits = {2}
    Keep = 2
    Base = 2
    MaxTime = 1
    MaxIdx = 2
    Absent = Absent
    Empty = Empty
    Garbled = Garbled
    None = None
SYMMETRY Symmetry
INVARIANTS
    TypeOK
    StoredOrSuperseded
    QuiescentRetention
    BaselineIsNewestFinished
PROPERTIES
    RetentionSpec
    FinishedStoreNotClobbered
\* every invocation may have ended
CHECK_DEADLOCK FALSE
