\* An LLM request and two iris requests compete for one worker and one waiting slot.
SPECIFICATION Spec
CONSTANTS
    m1 = m1
    i1 = i1
    i2 = i2
    IrisRequests = {i1, i2}
    ModelRequests = {m1}
    IrisBodies <- MCValidIris
    PromptBodies <- MCValidPrompts
    TokenCounts = {3}
    MaxPromptLen = 2
    MAX_WORKERS = 1
    IrisTimeout = 1
    ModelTimeout = 2
    OllamaTimeout = 1
    Addresses = 2
    MaxReads = 2
    MaxFaults = 1
SYMMETRY IrisSymmetry
INVARIANTS
    TypeOK
    PoolBounded
    MetricsAccountForEveryAnswer
    WorkerHeldBounded
