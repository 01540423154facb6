\* Three calls on two workers; grace 5s, SIGKILL after 30s; in Ollama for up to 20s, 25s or 110s.
SPECIFICATION Spec
CONSTANTS
    c1 = c1
    c2 = c2
    c3 = c3
    Calls = {c1, c2, c3}
    MAX_WORKERS = 2
    Grace = 1
    OllamaTimes = {4, 5, 22}
    KillAfter = 6
SYMMETRY CallSymmetry
INVARIANTS
    TypeOK
    GraceHonoured
    NoCallLost
    OnlyLostSignalsCostWork
PROPERTY RefinesGracefulStop
