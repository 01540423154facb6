\* A slow upload under an otherwise default configuration.
SPECIFICATION Spec
CONSTANTS
    HalfWord = 32
    Headroom = 3
    Defaults <- MCDefaults
    Envs <- MCSlowBodies
INVARIANTS
    TimeoutResponseFlushed
