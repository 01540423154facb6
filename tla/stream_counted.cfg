\* One stream, and metrics.go's word on what HTTPRequestsTotal counts.
SPECIFICATION Spec
CONSTANTS
    s1 = s1
    Streams = {s1}
    PromptBodies <- MCPrompts
    TokenCounts = {0, 3}
    NumPredict = 3
    MaxPromptLen = 2
    MAX_WORKERS = 1
    ModelTimeout = 3
    OllamaTimeout = 2
    Addresses = 2
    MaxReads = 2
    MaxFaults = 2
INVARIANT CountedWhenFinished
