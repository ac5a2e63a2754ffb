SPECIFICATION Spec
CONSTANTS
    b1 = b1
    b2 = b2
    llama = llama
    qwen = qwen
    code = code
    chat = chat
    unreachable = unreachable
    fallback = fallback
    failed = failed
    SubjectOrder <- Subjects
    Capture <- MCCapture
    CurrentVersion = "0.1"
INVARIANTS
    ChangesExplain
    RanksAreTotal
    HumanShowsAll
\* the command ends
CHECK_DEADLOCK FALSE
