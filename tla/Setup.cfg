SPECIFICATION Spec
CONSTANTS
    NoFile = NoFile
    Scripts <- Sessions
    Place = {"local", "home"}
    Environment <- Environments
    HandWritten <- FewTexts
    Start <- Starts
    Argument <- Arguments
    Fragment <- Fragments
    Server <- Answers
    Servers <- Listening
    KindArgument = {"", "ollama", "mlx"}
    URLOf <- UrlOf
    String <- Strings
    Expansion <- Dollar
    URL <- Urls
    Remote = {"http://remote"}
    VariableName = {"TOKEN"}
    Broken = {"two-lines"}
    MaxDrifts = 1
INVARIANTS
    TypeOK
    EditTakesEffect
    AcceptedStaysValid
    ProvenanceTrue
    UsableWhenProvided
PROPERTY
    DiscoveredPatchFits
\* the session is over
CHECK_DEADLOCK FALSE
