---------------------------- MODULE RequestDeadlines ----------------------------
(***************************************************************************)
(* One HTTP request and the three clocks that the settings of config.Load  *)
(* start at different moments of it: net/http's read deadline, when the    *)
(* first byte is awaited; its write deadline, when the headers have been   *)
(* read; and the RPC's context deadline, when the handler has read the body. *)
(***************************************************************************)
EXTENDS ConfigLoad

CONSTANT Envs   \* environments the gateway may be started in

ASSUME EnvsAssumption == Envs \subseteq [Settings -> EnvValue]

VARIABLES
    cfg,      \* the loaded configuration
    route,    \* "iris" or "model" (the unary and the streaming endpoint)
    phase,    \* "headers", "body", "calling", "answered", "cut" or "closed"
    rtl,      \* time left until the read deadline
    wtl,      \* time left until the write deadline, 0 once it has passed
    ttl,      \* time left on the RPC context
    status    \* the status the handler answered with

vars == <<cfg, route, phase, rtl, wtl, ttl, status>>

Off == -1   \* a deadline that is not set

Max0(n) == IF n > 0 THEN n ELSE 0

\* net/http takes zero and negative timeouts for none.
ServerDeadline(timeout) == IF timeout > 0 THEN timeout ELSE Off

Init ==
    /\ \E env \in Envs : cfg = Load(env)
    /\ route \in {"iris", "model"}
    /\ phase = "headers"
    /\ rtl = ServerDeadline(cfg["HTTP_READ_TIMEOUT"])
    /\ wtl = Off
    /\ ttl = Off
    /\ status = 0

HeadersRead ==
    /\ phase = "headers"
    /\ phase' = "body"
    /\ wtl' = ServerDeadline(cfg["HTTP_WRITE_TIMEOUT"])
    /\ UNCHANGED <<cfg, route, rtl, ttl, status>>

\* The connection is closed without an answer.
HeadersTimeOut ==
    /\ phase = "headers"
    /\ rtl = 0
    /\ phase' = "closed"
    /\ UNCHANGED <<cfg, route, rtl, wtl, ttl, status>>

\* The handler writes its answer; past the write deadline the connection is reset.
Answer(st) ==
    /\ status' = st
    /\ phase' = IF wtl = 0 THEN "cut" ELSE "answered"
    /\ UNCHANGED <<cfg, route, rtl, wtl, ttl>>

\* The body is malformed or illegal, or has not been read by the read deadline, which
\* ShouldBindJSON reports like a malformed one.
BodyRejected == phase = "body" /\ Answer(400)

RPCTimeout == IF route = "iris" THEN cfg["IRIS_TIMEOUT"] ELSE cfg["MODEL_TIMEOUT"]

\* Mutant: the RPC runs under the request's own context.
BodyReadNoDeadline ==
    /\ phase = "body"
    /\ phase' = "calling"
    /\ ttl' = Off
    /\ UNCHANGED <<cfg, route, rtl, wtl, status>>

\* Mutant: a deadline computed by hand, which does not stop at zero.
BodyReadRaw ==
    /\ phase = "body"
    /\ phase' = "calling"
    /\ ttl' = RPCTimeout
    /\ UNCHANGED <<cfg, route, rtl, wtl, status>>

\* The RPC starts; a context with a timeout of zero or less is over at once.
BodyRead ==
    /\ phase = "body"
    /\ phase' = "calling"
    /\ ttl' = Max0(RPCTimeout)
    /\ UNCHANGED <<cfg, route, rtl, wtl, status>>

RPCReturns == phase = "calling" /\ \E st \in {200, 500, 503} : Answer(st)

DeadlineFires == phase = "calling" /\ ttl = 0 /\ Answer(504)

Less(n) == IF n > 0 THEN n - 1 ELSE n

\* A read or an RPC that has run out of time returns at once; the write deadline
\* passes unnoticed.
Tick ==
    /\ \/ phase \in {"headers", "body"} /\ rtl # 0
       \/ phase = "calling" /\ ttl # 0
    /\ rtl' = IF phase = "calling" THEN rtl ELSE Less(rtl)
    /\ wtl' = Less(wtl)
    /\ ttl' = Less(ttl)
    /\ UNCHANGED <<cfg, route, phase, status>>

Done == phase \in {"answered", "cut", "closed"} /\ UNCHANGED vars

Next == \/ HeadersRead \/ HeadersTimeOut \/ BodyRejected \/ BodyRead
        \/ RPCReturns \/ DeadlineFires \/ Tick \/ Done

\* Time passes and expired deadlines are noticed; nothing is assumed of the client
\* and of the backend.
Fairness ==
    /\ WF_vars(Tick)
    /\ WF_vars(HeadersTimeOut)
    /\ WF_vars(rtl = 0 /\ BodyRejected)
    /\ WF_vars(DeadlineFires)

Spec == Init /\ [][Next]_vars /\ Fairness

-----------------------------------------------------------------------------
(* Properties.                                                             *)

\* The type invariant.
TypeOK ==
    /\ cfg \in [Settings -> Duration]
    /\ route \in {"iris", "model"}
    /\ phase \in {"headers", "body", "calling", "answered", "cut", "closed"}
    /\ rtl \in Nat \cup {Off}
    /\ wtl \in Nat \cup {Off}
    /\ ttl \in Nat \cup {Off}
    /\ status \in {0, 200, 400, 500, 503, 504}

\* The settings under which Load's guard is enough: the body must be read within less
\* than the headroom, the sum must not wrap, and the guard looks at MODEL_TIMEOUT only.
GuardSuffices ==
    /\ cfg["HTTP_READ_TIMEOUT"] \in 1 .. Headroom - 1
    /\ cfg["MODEL_TIMEOUT"] \in 0 .. HalfWord - 1 - Headroom
    /\ route = "iris" => cfg["IRIS_TIMEOUT"] <= cfg["MODEL_TIMEOUT"]

\* Then no answer is ever cut off by the write deadline: whatever the client and the
\* backend do, the answer, the timeout's 504 included, still finds the connection open.
AnswersFlushed == GuardSuffices => phase # "cut"

\* With a read timeout no request stays for ever, whatever the other settings are.
RequestsEnd == cfg["HTTP_READ_TIMEOUT"] > 0 ~> phase \in {"answered", "cut", "closed"}

\* config.go: the headroom lets the handler flush a well-formed timeout response before
\* the connection deadline (for a model timeout that is one and does not wrap).
TimeoutResponseFlushed ==
    route = "model" /\ cfg["MODEL_TIMEOUT"] \in 0 .. HalfWord - 1 - Headroom /\ status = 504 => phase # "cut"

-----------------------------------------------------------------------------
(* What makes AnswersFlushed inductive (RequestDeadlinesProofs).           *)

\* The time since the headers is part of the read timeout until the body is read; from
\* then on the write deadline stays behind the RPC's by what is left of the headroom.
ClockInv ==
    GuardSuffices =>
        LET W == cfg["HTTP_WRITE_TIMEOUT"]
            R == cfg["HTTP_READ_TIMEOUT"]
        IN  /\ W > 0 => W >= cfg["MODEL_TIMEOUT"] + Headroom
            /\ phase \in {"headers", "body"} => rtl \in 0 .. R
            /\ phase = "body" => (IF W > 0 THEN wtl + R >= W + rtl ELSE wtl = Off)
            /\ phase = "calling" => (IF W > 0 THEN ttl >= 0 /\ wtl >= ttl + Headroom - R ELSE wtl = Off)

IInv == TypeOK /\ ClockInv /\ AnswersFlushed
=============================================================================
