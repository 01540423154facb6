\* One LLM request and one iris request share one worker.
SPECIFICATION Spec
CONSTANTS
    m1 = m1
    i1 = i1
    i2 = i2
    IrisRequests = {i1}
    ModelRequests = {m1}
    IrisBodies <- MCIrisBodies
    PromptBodies <- MCAllPromptBodies
    TokenCounts = {0, 3}
    MaxPromptLen = 2
    MAX_WORKERS = 1
    IrisTimeout = 1
    ModelTimeout = 3
    OllamaTimeout = 2
    Addresses = 2
    MaxReads = 2
    MaxFaults = 1
INVARIANTS
    Status400Honest
    Status200Honest
    TimeoutHonest
PROPERTIES
    EveryRequestAnswered
    WorkersAlwaysRecovered
    RefinesContract
