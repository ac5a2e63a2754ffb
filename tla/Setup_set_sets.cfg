SPECIFICATION Spec
CONSTANTS
    NoFile = NoFile
    Scripts <- OneSet
    Place = {"local", "home"}
    Environment <- Environments
    HandWritten <- FewTexts
    Start <- Starts
    Argument <- Secrets
    Fragment <- Fragments
    Server <- Answers
    Servers <- Listening
    KindArgument = {"", "ollama", "mlx"}
    URLOf <- UrlOf
    String <- Strings
    Expansion <- Dollar
    URL <- Urls
    Remote = {"http://remote"}
    VariableName = {"TOKEN"}
    Broken = {"two-lines"}
    MaxDrifts = 1
INVARIANT
    SetSets
\* the session is over
CHECK_DEADLOCK FALSE
