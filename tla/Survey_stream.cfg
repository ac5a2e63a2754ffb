SPECIFICATION Spec
CONSTANTS
    b1 = b1
    b2 = b2
    llama = llama
    qwen = qwen
    coder = coder
    chat = chat
    code_ = code_
    write = write
    Backend = {b1, b2}
    Order <- Sorted
    Name = {llama, qwen, coder, chat}
    Capability = {}
    NoBackend = NoBackend
    SubjectOrder <- Subjs
    Task = {code_, write}
    Kinds = {"events"}
    Configuration <- Changing
    Condition <- FewConditions
    Start <- OneWorld
    MaxDrifts = 2
    MaxFrames = 3
INVARIANTS
    EventsTeachFrames
PROPERTY
    FeedSpec
\* the command ends, or its last frame is written
CHECK_DEADLOCK FALSE
