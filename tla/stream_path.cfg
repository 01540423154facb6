\* One stream, all bodies, up to three chunks before the final one, two faults.
SPECIFICATION Spec
CONSTANTS
    s1 = s1
    Streams = {s1}
    PromptBodies <- MCPrompts
    TokenCounts = {0, 3}
    NumPredict = 3
    MaxPromptLen = 2
    MAX_WORKERS = 1
    ModelTimeout = 3
    OllamaTimeout = 2
    Addresses = 2
    MaxReads = 2
    MaxFaults = 2
INVARIANTS
    TypeOK
    StreamMetrics
    StreamAnswersHonest
    OvertimeBounded
PROPERTIES
    RefinesContract
    WorkersAlwaysRecovered
