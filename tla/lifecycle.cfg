\* Two requests; SIGKILL 90s after SIGTERM; a flush of at most 10s.
SPECIFICATION Spec
CONSTANTS
    r1 = r1
    r2 = r2
    Requests = {r1, r2}
    Configs <- MCConfigs
    GracePeriod = 18
    FlushTime = 2
SYMMETRY RequestSymmetry
INVARIANTS
    TypeOK
    InflightRequestsDrain
    AnsweredSpansExported
    EndsBySelf
PROPERTY RefinesGracefulStop
