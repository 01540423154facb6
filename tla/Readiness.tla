-------------------------------- MODULE Readiness --------------------------------
(***************************************************************************)
(* The readiness of one go-gateway pod: the gRPC channel to python-ai,     *)
(* which leaves IDLE only for Connect or an RPC; the kubelet that asks     *)
(* /readyz; and the Service that sends requests to ready pods only.  One   *)
(* unit of time is one probe period (periodSeconds).                       *)
(***************************************************************************)
EXTENDS Naturals

CONSTANTS
    FailureThreshold,   \* probes that must fail in a row before the pod is unready
    IdleTimeout,        \* the channel goes idle after so long without an RPC
    ConnectTimeout,     \* the longest attempt to connect
    DialTime,           \* the longest attempt that a backend answers
    MaxBackoff,         \* the longest pause after a failed attempt
    DetectTime,         \* GRPC_KEEP_ALIVE_TIME and GRPC_KEEP_ALIVE_TIMEOUT together
    MaxClock            \* bound on the clocks sinceUp and sinceDown

ASSUME ReadinessAssumption ==
    /\ {FailureThreshold, IdleTimeout, ConnectTimeout, DialTime} \subseteq Nat \ {0}
    /\ {MaxBackoff, DetectTime, MaxClock} \subseteq Nat
    /\ DialTime <= ConnectTimeout

\* The kubelet waits for a channel that idled: the probe that wakes it fails, and so does
\* one in each period until the connection is there. A new connection lives to be seen.
ASSUME PatienceAssumption ==
    /\ DialTime + 2 <= FailureThreshold
    /\ DialTime + 2 <= IdleTimeout

VARIABLES
    link,        \* the channel: "idle", "connecting", "ready", "dead" (ready, but the peer
                 \* is gone and nobody has noticed), "backoff" or "redial"
    timer,       \* time since link changed, or what is left of a back-off
    quiet,       \* time since the last RPC or the last exit from idle mode
    probed,      \* the kubelet has probed in this period
    failures,    \* failed probes in a row
    inService,   \* the Service sends requests to this pod
    up,          \* python-ai accepts connections
    sinceUp,     \* how long it has been up and no connection has broken
    sinceDown    \* how long it has been down

channel == <<link, timer, quiet>>
kubelet == <<probed, failures, inService>>
backend == <<up, sinceUp, sinceDown>>
vars == <<channel, kubelet, backend>>

Dialling == link \in {"connecting", "redial"}

\* conn.GetState: after a failed attempt the channel reports TRANSIENT_FAILURE until it is
\* ready again. "NIL" stands for a handler without a channel.
GetState == CASE link = "nil"                   -> "NIL"
              [] link = "idle"                  -> "IDLE"
              [] link = "connecting"            -> "CONNECTING"
              [] link \in {"ready", "dead"}     -> "READY"
              [] link \in {"backoff", "redial"} -> "TRANSIENT_FAILURE"

Goes(l) == link' = l /\ timer' = 0

\* conn.Connect: starts an attempt on an idle channel, and has no effect on another.
Connect ==
    /\ IF link = "idle" THEN Goes("connecting") ELSE UNCHANGED <<link, timer>>
    /\ quiet' = IF quiet = IdleTimeout THEN 0 ELSE quiet

Start(l) ==
    /\ link = l
    /\ timer = 0
    /\ quiet = 0
    /\ probed = FALSE
    /\ failures = 0
    /\ inService = FALSE
    /\ up \in BOOLEAN
    /\ sinceUp = 0
    /\ sinceDown = 0

\* Mutant: the health handler is made before the channel.
InitWithoutChannel == Start("nil")

\* main: Dial and Connect before the listener is started.
Init == Start("connecting")

-----------------------------------------------------------------------------
(* The handler and the kubelet that calls it.                              *)

Answered(ready) ==
    /\ probed' = TRUE
    /\ failures' = IF ready THEN 0 ELSE IF failures < FailureThreshold THEN failures + 1 ELSE failures
    /\ inService' = (ready \/ (inService /\ failures' < FailureThreshold))

\* Mutant: Readyz looks at the channel and leaves it alone.
ReadyzWithoutConnect == Answered(GetState = "READY") /\ UNCHANGED channel

\* Mutant: every state but IDLE is good enough.
ReadyzUnlessIdle ==
    /\ IF GetState = "IDLE" THEN Connect ELSE UNCHANGED channel
    /\ Answered(GetState # "IDLE")

\* Readyz: Connect takes effect later; the answer is about the state before.
Readyz ==
    /\ IF GetState = "IDLE" THEN Connect ELSE UNCHANGED channel
    /\ Answered(GetState = "READY")

Probe == ~probed /\ Readyz /\ UNCHANGED backend

\* A request reaches the pod and calls python-ai.
RPC ==
    /\ inService
    /\ IF link = "idle" THEN Goes("connecting") ELSE UNCHANGED <<link, timer>>
    /\ quiet' = 0
    /\ UNCHANGED <<kubelet, backend>>

-----------------------------------------------------------------------------
(* The channel (grpc-go) and what it is connected to.                      *)

AttemptSucceeds ==
    /\ Dialling
    /\ up
    /\ Goes("ready")
    /\ UNCHANGED <<quiet, kubelet, backend>>

\* Refused, or begun before the backend was there and never answered.
AttemptFails ==
    /\ Dialling
    /\ ~up \/ sinceUp < timer
    /\ link' = "backoff"
    /\ timer' \in 0 .. MaxBackoff
    /\ UNCHANGED <<quiet, kubelet, backend>>

Redial == link = "backoff" /\ timer = 0 /\ Goes("redial") /\ UNCHANGED <<quiet, kubelet, backend>>

\* A lost connection makes the channel idle; it does not dial by itself.
LossNoticed == link = "dead" /\ Goes("idle") /\ UNCHANGED <<quiet, kubelet, backend>>

ChannelIdles ==
    /\ quiet = IdleTimeout
    /\ link # "idle"
    /\ Goes("idle")
    /\ UNCHANGED <<quiet, kubelet, backend>>

\* The loss is noticed at once (a reset), or by the keepalive only.
LosesConnection ==
    IF link = "ready" THEN \E l \in {"idle", "dead"} : Goes(l) ELSE UNCHANGED <<link, timer>>

ConnectionBreaks ==
    /\ up
    /\ LosesConnection
    /\ sinceUp' = 0
    /\ UNCHANGED <<quiet, kubelet, up, sinceDown>>

BackendStops ==
    /\ up
    /\ LosesConnection
    /\ up' = FALSE
    /\ sinceUp' = 0
    /\ sinceDown' = 0
    /\ UNCHANGED <<quiet, kubelet>>

BackendStarts ==
    /\ ~up
    /\ up' = TRUE
    /\ sinceDown' = 0
    /\ UNCHANGED <<channel, kubelet, sinceUp>>

Later(clock) == IF clock < MaxClock THEN clock + 1 ELSE clock

\* An attempt that a reachable backend has seen from its start ends within DialTime.
AttemptOver == Dialling /\ (timer = ConnectTimeout \/ (timer >= DialTime /\ sinceUp >= timer))

Tick ==
    /\ probed
    /\ ~AttemptOver
    /\ ~(link = "backoff" /\ timer = 0)
    /\ ~(link = "dead" /\ timer = DetectTime)
    /\ ~(link # "idle" /\ quiet = IdleTimeout)
    /\ probed' = FALSE
    /\ timer' = CASE link \in {"idle", "ready"} -> 0
                  [] link = "backoff"           -> timer - 1
                  [] OTHER                      -> timer + 1
    /\ quiet' = IF quiet < IdleTimeout THEN quiet + 1 ELSE quiet
    /\ sinceUp' = IF up THEN Later(sinceUp) ELSE 0
    /\ sinceDown' = IF up THEN 0 ELSE Later(sinceDown)
    /\ UNCHANGED <<link, failures, inService, up>>

Next ==
    \/ Probe \/ RPC \/ AttemptSucceeds \/ AttemptFails \/ Redial \/ LossNoticed \/ ChannelIdles
    \/ ConnectionBreaks \/ BackendStops \/ BackendStarts \/ Tick

\* The kubelet probes, and timers expire. Requests, faults and restarts need not come.
Fairness ==
    /\ WF_vars(Tick)
    /\ WF_vars(Probe)
    /\ WF_vars(AttemptOver /\ (AttemptSucceeds \/ AttemptFails))
    /\ WF_vars(Redial)
    /\ WF_vars(link = "dead" /\ timer = DetectTime /\ LossNoticed)
    /\ WF_vars(ChannelIdles)

Spec == Init /\ [][Next]_vars /\ Fairness

-----------------------------------------------------------------------------
(* Properties.                                                             *)

\* The type invariant; the handler always has a channel.
TypeOK ==
    /\ link \in {"idle", "connecting", "ready", "dead", "backoff", "redial"}
    /\ timer \in Nat
    /\ quiet \in 0 .. IdleTimeout
    /\ probed \in BOOLEAN
    /\ failures \in 0 .. FailureThreshold
    /\ inService \in BOOLEAN
    /\ up \in BOOLEAN
    /\ sinceUp \in 0 .. MaxClock
    /\ sinceDown \in 0 .. MaxClock

Longer(a, b) == IF a > b THEN a ELSE b

\* An attempt that began before the backend returned may run its course and be followed
\* by a back-off, or a loss be noticed by the keepalive only and the next probe dial.
FirstReady == Longer(ConnectTimeout - 1 + MaxBackoff, DetectTime + 1) + DialTime

\* If the channel idles just then, a probe has to wake it, and another to find it ready.
RecoveryTime == FirstReady + 1 + DialTime + 1

ASSUME ClockAssumption == RecoveryTime < MaxClock

\* Once the backend has been up for that long the pod is in service and stays: an
\* unready pod gets no RPC, so that only the probes can wake the channel, and a channel
\* that idles is back before the probes it fails add up.
RecoveryBounded == sinceUp > RecoveryTime => inService

\* A pod that cannot reach its backend does not stay in service for longer than the
\* keepalive needs to notice and the kubelet to lose patience.
StaleReadinessBounded == sinceDown > DetectTime + FailureThreshold => ~inService

\* health.go: readiness is eventually consistent across successive kubelet polls.
EventuallyInService == <>[](sinceUp > 0) => <>[]inService

-----------------------------------------------------------------------------
(* What makes the properties inductive (ReadinessProofs).                  *)

\* The kubelet has still to look in this period.
Unprobed == IF probed THEN 0 ELSE 1

\* Every phase of the channel has its longest time; an attempt that the backend has
\* seen from its start ends by DialTime.
PhaseInv ==
    /\ Dialling => timer <= ConnectTimeout /\ (timer <= sinceUp => timer <= DialTime)
    /\ link = "backoff" => timer <= MaxBackoff
    /\ link = "dead" => timer <= DetectTime /\ sinceUp <= timer /\ sinceDown <= timer
    /\ link \in {"idle", "ready"} => timer = 0
    /\ link = "ready" => up
    /\ IF up THEN sinceDown = 0 ELSE sinceUp = 0
    /\ inService => failures < FailureThreshold

\* Each phase of a recovery has begun in time, or the pod is in service and has failed
\* no probe but those of the phases since the channel idled.
RecoveryInv ==
    /\ link = "backoff" => sinceUp + timer <= FirstReady - DialTime
    /\ link = "idle" => \/ sinceUp <= DetectTime + Unprobed
                        \/ quiet = IdleTimeout /\ sinceUp <= FirstReady + Unprobed
                        \/ quiet = IdleTimeout /\ inService /\ failures = 0
    /\ Dialling /\ timer <= sinceUp =>
          \/ sinceUp <= FirstReady - DialTime + timer
          \/ quiet <= timer /\ sinceUp <= FirstReady + 1 + timer
          \/ quiet <= timer /\ inService /\ failures + Unprobed <= timer + 1
    /\ link = "ready" =>
          \/ sinceUp <= FirstReady + Unprobed
          \/ quiet <= DialTime + Unprobed /\ sinceUp <= FirstReady + 1 + DialTime + Unprobed
          \/ quiet <= DialTime + Unprobed /\ inService /\ failures <= DialTime + 1
          \/ inService /\ failures = 0

\* A pod without a connection has failed a probe in every period since its loss was noticed.
StaleInv == ~up /\ link # "dead" /\ inService => sinceDown <= DetectTime + failures + Unprobed

IInv == TypeOK /\ PhaseInv /\ RecoveryInv /\ StaleInv
=============================================================================
