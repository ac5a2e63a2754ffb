SPECIFICATION Spec
CONSTANTS
    b1 = b1
    b2 = b2
    llama = llama
    qwen = qwen
    coder = coder
    chat = chat
    code_ = code_
    write = write
    Backend = {b1, b2}
    Order <- Sorted
    Name = {llama, qwen, coder, chat}
    Capability = {}
    NoBackend = NoBackend
    SubjectOrder <- Subjs
    Task = {code_, write}
    Kinds = {"watch"}
    Configuration <- TwoTasks
    Condition <- FewConditions
    Start <- OneWorld
    MaxDrifts = 0
    MaxFrames = 2
INVARIANT SignalExitsCleanly
\* the command ends, or its last frame is written
CHECK_DEADLOCK FALSE
