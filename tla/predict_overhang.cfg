\* Defaults scaled down: the Ollama timeout is below the model timeout.
SPECIFICATION Spec
CONSTANTS
    m1 = m1
    i1 = i1
    i2 = i2
    IrisRequests = {i1}
    ModelRequests = {m1}
    IrisBodies <- MCValidIris
    PromptBodies <- MCValidPrompts
    TokenCounts = {3}
    MaxPromptLen = 2
    MAX_WORKERS = 1
    IrisTimeout = 1
    ModelTimeout = 3
    OllamaTimeout = 2
    Addresses = 2
    MaxReads = 2
    MaxFaults = 0
INVARIANTS
    WorkerReleasedWhenGatewayGivesUp
