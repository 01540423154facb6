\* Periods of 10s: grpc-go connects for at most 20s or, if that is longer, the back-off to come,
\* which is at most 144s; the keepalive notices a loss within 33s. The channel idles after 360s,
\* not 30 minutes.
SPECIFICATION Spec
CONSTANTS
    FailureThreshold = 3
    IdleTimeout = 36
    ConnectTimeout = 15
    DialTime = 1
    MaxBackoff = 15
    DetectTime = 4
    MaxClock = 34
INVARIANTS
    TypeOK
    RecoveryBounded
    StaleReadinessBounded
PROPERTIES
    EventuallyInService
