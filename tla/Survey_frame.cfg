SPECIFICATION Spec
CONSTANTS
    b1 = b1
    b2 = b2
    llama = llama
    qwen = qwen
    coder = coder
    chat = chat
    code_ = code_
    write = write
    Backend = {b1, b2}
    Order <- Sorted
    Name = {llama, qwen, coder, chat}
    Capability = {}
    NoBackend = NoBackend
    SubjectOrder <- Subjs
    Task = {code_, write}
    Kinds = {"doctor", "fast", "snapshot", "status", "backends", "listed", "models", "loaded", "model", "triage", "prior"}
    Configuration <- EveryLoad
    Condition <- AllConditions
    Start <- ManyWorlds
    MaxDrifts = 2
    MaxFrames = 1
INVARIANTS
    TypeOK
    FrameWitnessed
    StillFrameCoherent
    NoRouteWitnessed
    DoctorAgreesWithRoutes
\* the command ends
CHECK_DEADLOCK FALSE
