------------------------------- MODULE ConfigLoad -------------------------------
(***************************************************************************)
(* config.Load: the duration settings of go-gateway, and the guard that    *)
(* keeps the connection's write timeout above the model timeout.  Addresses, *)
(* log level, keepalive and size settings are read the same way and are    *)
(* compared with nothing.                                                  *)
(***************************************************************************)
EXTENDS Integers

CONSTANTS
    HalfWord,   \* a time.Duration is in -HalfWord .. HalfWord-1 (2^63 nanoseconds in Go)
    Defaults,   \* the fallback of each setting
    Headroom    \* writeTimeoutHeadroom

Settings == {"HTTP_READ_TIMEOUT", "HTTP_WRITE_TIMEOUT", "SHUTDOWN_TIMEOUT", "IRIS_TIMEOUT", "MODEL_TIMEOUT"}

Duration == -HalfWord .. HalfWord - 1

ASSUME HalfWordAssumption == HalfWord \in Nat \ {0}
ASSUME DefaultsAssumption == Defaults \in [Settings -> Duration]
ASSUME HeadroomAssumption == Headroom \in Nat \ {0} /\ Headroom \in Duration

\* An environment variable is unset (or empty), holds text that is no duration, or
\* holds one: negative and zero durations parse.
EnvValue == [kind : {"unset", "invalid", "duration"}, value : Duration]

GetEnvDuration(v, fallback) == IF v.kind = "duration" THEN v.value ELSE fallback

\* The sum of two durations, in 64-bit two's complement.
Plus(a, b) ==
    IF a + b >= HalfWord THEN a + b - 2 * HalfWord
    ELSE IF a + b < -HalfWord THEN a + b + 2 * HalfWord
    ELSE a + b

\* Mutant: the timeout is raised to the model timeout, without headroom.
RaisedWithoutHeadroom(write, model) == IF write > 0 /\ write < model THEN model ELSE write

\* A positive write timeout below the model timeout and the headroom is raised.
Raised(write, model) ==
    LET minWrite == Plus(model, Headroom)
    IN  IF write > 0 /\ write < minWrite THEN minWrite ELSE write

Load(env) ==
    LET Read(key) == GetEnvDuration(env[key], Defaults[key])
    IN  [key \in Settings |-> IF key = "HTTP_WRITE_TIMEOUT" THEN Raised(Read(key), Read("MODEL_TIMEOUT"))
                                                            ELSE Read(key)]
=============================================================================
