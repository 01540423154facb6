\* Every environment of interest.
SPECIFICATION Spec
CONSTANTS
    HalfWord = 32
    Headroom = 3
    Defaults <- MCDefaults
    Envs <- MCEnvs
INVARIANTS
    TypeOK
    AnswersFlushed
PROPERTIES
    RequestsEnd
