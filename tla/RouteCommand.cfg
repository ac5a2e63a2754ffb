SPECIFICATION Spec
CONSTANTS
    b1 = b1
    b2 = b2
    llama = llama
    qwen = qwen
    coder = coder
    chat = chat
    tools = tools
    Backend = {b1, b2}
    Order <- Sorted
    Name = {llama, qwen, coder, chat}
    Capability = {tools}
    NoBackend = NoBackend
    Config <- MCConfig
    Condition <- MCCondition
    Start <- MCStart
    MaxDrifts = 2
INVARIANTS
    DecisionWitnessed
    RefusalWitnessed
    HandoffIsSelected
    RunnableIsPolicySelection
    StableDecisionIsBest
\* the command ends
CHECK_DEADLOCK FALSE
