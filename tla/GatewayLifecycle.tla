---------------------------- MODULE GatewayLifecycle ----------------------------
(***************************************************************************)
(* The life of one go-gateway process: main's goroutine from InitTracer to *)
(* its deferred calls, the listener's goroutine, the requests it serves,   *)
(* and the SIGTERM and SIGKILL of the kubelet, which may come at any time. *)
(***************************************************************************)
EXTENDS Integers, FiniteSets

CONSTANTS
    Requests,       \* HTTP requests that a client may send
    Configs,        \* timeouts the gateway may be configured with
    GracePeriod,    \* terminationGracePeriodSeconds
    FlushTime       \* the longest flush of the tracer to a collector that answers

ASSUME RequestsAssumption == IsFiniteSet(Requests)
ASSUME ConfigsAssumption == Configs \subseteq [ReadTimeout : Nat, RPCTimeout : Nat, ShutdownTimeout : Nat]
ASSUME PeriodsAssumption == {GracePeriod, FlushTime} \subseteq Nat

VARIABLES
    cfg,        \* the configuration
    collector,  \* the trace collector answers
    pc,         \* main: "boot", "traced", "dialled", "started", "waiting", "draining",
                \* "closing", "flushing" or "exited"
    exit,       \* how the process ended: "none", "failed", "sigterm", "sigkill" or "clean"
    listener,   \* "none", "open" or "closed"
    conn,       \* the gRPC channel: "none", "open" or "closed"
    stl,        \* time left on shutdownCtx, then on the flush
    term,       \* SIGTERM was sent
    grace,      \* time left until SIGKILL
    req,        \* req[r]: "none", "headers", "body", "calling", "answered", "aborted"
                \* (the channel was closed under its RPC), "dropped" or "cut"
    left,       \* left[r]: time left until the read deadline, if there is one, then on the RPC context
    span        \* span[r]: of its RPC: "none", "open", "queued", "exported" or "lost"

requests == <<req, left, span>>
signals == <<term, grace>>
vars == <<cfg, collector, pc, exit, listener, conn, stl, signals, requests>>

Init ==
    /\ cfg \in Configs
    /\ collector \in BOOLEAN
    /\ pc = "boot"
    /\ exit = "none"
    /\ listener = "none"
    /\ conn = "none"
    /\ stl = 0
    /\ term = FALSE
    /\ grace = GracePeriod
    /\ req = [r \in Requests |-> "none"]
    /\ left = [r \in Requests |-> 0]
    /\ span = [r \in Requests |-> "none"]

\* What the end of the process leaves of the requests, and of spans not yet exported.
CutShort == [r \in Requests |-> CASE req[r] = "headers"            -> "dropped"
                                 [] req[r] \in {"body", "calling"} -> "cut"
                                 [] OTHER                          -> req[r]]
Unexported == [r \in Requests |-> IF span[r] \in {"open", "queued"} THEN "lost" ELSE span[r]]
Exported == [r \in Requests |-> IF span[r] = "queued" /\ collector THEN "exported" ELSE Unexported[r]]

Exit(how, spans) ==
    /\ pc' = "exited"
    /\ exit' = how
    /\ listener' = "closed"
    /\ conn' = "closed"
    /\ req' = CutShort
    /\ span' = spans
    /\ UNCHANGED <<cfg, collector, stl, grace, left>>

-----------------------------------------------------------------------------
(* main.                                                                   *)

Goto(from, to) == pc = from /\ pc' = to

InitTracer == Goto("boot", "traced") /\ UNCHANGED <<cfg, collector, exit, listener, conn, stl, signals, requests>>

Dial ==
    /\ Goto("traced", "dialled")
    /\ conn' = "open"
    /\ UNCHANGED <<cfg, collector, exit, listener, stl, signals, requests>>

\* InitTracer or Dial returns an error: os.Exit(1).
StartupFails == pc \in {"boot", "traced"} /\ Exit("failed", Unexported) /\ UNCHANGED term

StartListener == Goto("dialled", "started") /\ UNCHANGED <<cfg, collector, exit, listener, conn, stl, signals, requests>>

\* From here on SIGTERM and SIGINT are sent to the channel quit.
Notify == Goto("started", "waiting") /\ UNCHANGED <<cfg, collector, exit, listener, conn, stl, signals, requests>>

\* The listener's goroutine. Shutdown may have come first: then it returns ErrServerClosed.
Listening == pc \in {"started", "waiting", "draining", "closing", "flushing"} /\ listener = "none"

Listen ==
    /\ Listening
    /\ listener' = "open"
    /\ UNCHANGED <<cfg, collector, pc, exit, conn, stl, signals, requests>>

ListenFails == Listening /\ Exit("failed", Unexported) /\ UNCHANGED term

Stop(timeout) ==
    /\ term
    /\ Goto("waiting", "draining")
    /\ listener' = "closed"
    /\ stl' = timeout
    /\ UNCHANGED <<cfg, collector, exit, conn, signals, requests>>

\* Mutant: Shutdown is given context.Background().
StopWithoutDeadline == Stop(-1)

\* <-quit; Shutdown closes the listener and begins to wait.
StopListening == Stop(cfg.ShutdownTimeout)

Active == {r \in Requests : req[r] \in {"headers", "body", "calling"}}
Drained == Active = {}

\* Mutant: srv.Close in place of Shutdown, which waits for nobody.
CloseReturns ==
    /\ Goto("draining", "closing")
    /\ UNCHANGED <<cfg, collector, exit, listener, conn, stl, signals, requests>>

\* Mutant: main ends with os.Exit(0), which runs no deferred call.
ShutdownThenOsExit == pc = "draining" /\ (Drained \/ stl = 0) /\ Exit("clean", Unexported) /\ UNCHANGED term

ShutdownReturns ==
    /\ Drained \/ stl = 0
    /\ Goto("draining", "closing")
    /\ UNCHANGED <<cfg, collector, exit, listener, conn, stl, signals, requests>>

\* The deferred calls, last first: conn.Close fails the RPCs under way.
ConnClose ==
    /\ Goto("closing", "flushing")
    /\ conn' = "closed"
    /\ stl' = FlushTime
    /\ UNCHANGED <<cfg, collector, exit, listener, signals, requests>>

\* tp.Shutdown under context.Background() has no deadline of its own: with a collector
\* that does not answer it goes on.
TracerShutdown == pc = "flushing" /\ Exit("clean", Exported) /\ UNCHANGED term

-----------------------------------------------------------------------------
(* The requests.                                                           *)

Running == pc # "exited"

Phase(r, from, to) == Running /\ req[r] = from /\ req' = [req EXCEPT ![r] = to]

\* net/http takes a ReadTimeout of 0 for no deadline.
Timed(r) == req[r] = "calling" \/ cfg.ReadTimeout > 0

Others == <<cfg, collector, pc, exit, listener, conn, stl, signals>>

Accept(r) ==
    /\ listener = "open"
    /\ Phase(r, "none", "headers")
    /\ left' = [left EXCEPT ![r] = cfg.ReadTimeout]
    /\ UNCHANGED <<span, Others>>

\* Not yet, or no longer, active: the read deadline ends it, or Shutdown.
Drop(r) ==
    /\ (Timed(r) /\ left[r] = 0) \/ pc \in {"draining", "closing", "flushing"}
    /\ Phase(r, "headers", "dropped")
    /\ UNCHANGED <<left, span, Others>>

HeadersRead(r) == Phase(r, "headers", "body") /\ UNCHANGED <<left, span, Others>>

\* Answered without an RPC: malformed, illegal or too slow.
Reject(r) == Phase(r, "body", "answered") /\ UNCHANGED <<left, span, Others>>

StartRPC(r) ==
    /\ Phase(r, "body", "calling")
    /\ left' = [left EXCEPT ![r] = cfg.RPCTimeout]
    /\ span' = [span EXCEPT ![r] = "open"]
    /\ UNCHANGED Others

\* A span that ends after tp.Shutdown has begun is not recorded.
EndSpan(r) == span' = [span EXCEPT ![r] = IF pc = "flushing" THEN "lost" ELSE "queued"]

\* The RPC returns with an answer or at its deadline.
RPCEnds(r) == Phase(r, "calling", "answered") /\ EndSpan(r) /\ UNCHANGED <<left, Others>>

RPCAborted(r) ==
    /\ conn = "closed"
    /\ Phase(r, "calling", "aborted")
    /\ EndSpan(r)
    /\ UNCHANGED <<left, Others>>

\* The batch processor exports in the background.
ExportBatch ==
    /\ Running
    /\ \E r \in Requests : span[r] = "queued"
    /\ span' = [r \in Requests |-> IF span[r] = "queued" THEN Exported[r] ELSE span[r]]
    /\ UNCHANGED <<req, left, Others>>

-----------------------------------------------------------------------------
(* The kubelet, and time.                                                  *)

\* Until Notify the default action of SIGTERM ends the process.
SIGTERM ==
    /\ Running
    /\ ~term
    /\ term' = TRUE
    /\ IF pc \in {"boot", "traced", "dialled", "started"}
       THEN Exit("sigterm", Unexported)
       ELSE UNCHANGED <<cfg, collector, pc, exit, listener, conn, stl, grace, requests>>

SIGKILL == Running /\ term /\ grace = 0 /\ Exit("sigkill", Unexported) /\ UNCHANGED term

Tick ==
    /\ Running
    /\ term \/ ~Drained
    /\ ~(pc = "waiting" /\ term) /\ pc # "closing"
    /\ ~(pc = "draining" /\ (Drained \/ stl = 0))
    /\ ~(pc = "flushing" /\ collector /\ stl = 0)
    /\ ~(term /\ grace = 0)
    /\ \A r \in Active : Timed(r) => left[r] > 0
    /\ left' = [r \in Requests |-> IF left[r] > 0 THEN left[r] - 1 ELSE 0]
    /\ stl' = IF pc \in {"draining", "flushing"} /\ stl > 0 THEN stl - 1 ELSE stl
    /\ grace' = IF term THEN grace - 1 ELSE grace
    /\ UNCHANGED <<cfg, collector, pc, exit, listener, conn, term, req, span>>

Terminated == pc = "exited" /\ UNCHANGED vars
Request(r) == Accept(r) \/ Drop(r) \/ HeadersRead(r) \/ Reject(r) \/ StartRPC(r) \/ RPCEnds(r) \/ RPCAborted(r)

Main == InitTracer \/ Dial \/ StartupFails \/ StartListener \/ Notify \/ StopListening \/ ShutdownReturns
        \/ ConnClose \/ TracerShutdown

Next ==
    \/ Main \/ Listen \/ ListenFails \/ ExportBatch
    \/ \E r \in Requests : Request(r)
    \/ SIGTERM \/ SIGKILL \/ Tick \/ Terminated

Spec == Init /\ [][Next]_vars

-----------------------------------------------------------------------------
(* Properties.                                                             *)

\* The type invariant.
TypeOK ==
    /\ cfg \in Configs
    /\ collector \in BOOLEAN
    /\ pc \in {"boot", "traced", "dialled", "started", "waiting", "draining", "closing", "flushing", "exited"}
    /\ exit \in {"none", "failed", "sigterm", "sigkill", "clean"}
    /\ listener \in {"none", "open", "closed"}
    /\ conn \in {"none", "open", "closed"}
    /\ stl \in Nat
    /\ term \in BOOLEAN
    /\ grace \in 0 .. GracePeriod
    /\ req \in [Requests -> {"none", "headers", "body", "calling", "answered", "aborted", "dropped", "cut"}]
    /\ left \in [Requests -> Nat]
    /\ span \in [Requests -> {"none", "open", "queued", "exported", "lost"}]

\* There is a read timeout, the shutdown timeout covers the slowest request, reading it
\* included, and the pod's grace period covers the shutdown timeout.
Covered ==
    /\ cfg.ReadTimeout > 0
    /\ cfg.ReadTimeout + cfg.RPCTimeout < cfg.ShutdownTimeout
    /\ cfg.ShutdownTimeout < GracePeriod

\* Then no request whose headers were read loses its answer to a shutdown, neither to the
\* end of the process nor to conn.Close, whenever SIGTERM and SIGKILL come after Notify.
InflightRequestsDrain ==
    Covered /\ exit \notin {"failed", "sigterm"} => \A r \in Requests : req[r] \notin {"cut", "aborted"}

\* Nor is the span of an answered RPC lost: the tracer is shut down last, and SIGKILL
\* during its flush finds only spans of a collector that does not answer.
AnsweredSpansExported ==
    /\ Covered /\ collector /\ cfg.ShutdownTimeout + FlushTime < GracePeriod
    /\ exit \in {"clean", "sigkill"}
    => \A r \in Requests : span[r] # "lost"

\* The shutdown deadline holds whatever the requests do: with a collector that answers,
\* the process ends by itself before SIGKILL, also when it had to cut requests off.
EndsBySelf ==
    collector /\ cfg.ShutdownTimeout + FlushTime < GracePeriod => exit # "sigkill"

\* What a stop promises the requests, in GracefulStop: a request whose headers were read is
\* accepted, and the allowance is the shutdown timeout.
Stage == CASE pc \in {"draining", "closing", "flushing"} -> "stopping"
           [] pc = "exited" /\ exit = "clean"             -> "gone"
           [] pc = "exited" /\ exit # "clean"             -> "killed"
           [] OTHER                                      -> "up"

FateOf(state) == CASE state = "headers"            -> "connected"
                   [] state \in {"body", "calling"} -> "accepted"
                   [] state = "answered"           -> "finished"
                   [] state = "dropped"            -> "refused"
                   [] state \in {"aborted", "cut"}  -> "lost"
                   [] OTHER                        -> "none"

Fate == [r \in Requests |-> FateOf(req[r])]
TimeAllowed == IF pc = "draining" THEN stl ELSE 0

Graceful == INSTANCE GracefulStop WITH
    Tasks <- Requests, stage <- Stage, allowance <- cfg.ShutdownTimeout, timer <- TimeAllowed, task <- Fate

\* main keeps that promise, whatever the timeouts: srv.Shutdown waits for the requests as long as
\* its context allows, conn.Close and the end of main come after it.
RefinesGracefulStop == Graceful!Spec

-----------------------------------------------------------------------------
(* What makes the properties inductive (GatewayLifecycleProofs).           *)

ProcessInv ==
    /\ exit = "none" <=> Running
    /\ pc \in {"boot", "traced", "dialled", "started"} => ~term
    /\ pc \in {"draining", "closing", "flushing"} => term /\ listener = "closed"
    /\ conn = "closed" => pc \in {"flushing", "exited"}
    /\ ~term => grace = GracePeriod

\* What the grace period has lost, main has spent in Shutdown or in the flush.
ShutdownClock ==
    /\ pc = "waiting" => grace = GracePeriod
    /\ pc = "draining" => grace + cfg.ShutdownTimeout = GracePeriod + stl
    /\ pc = "closing" => grace + cfg.ShutdownTimeout >= GracePeriod
    /\ pc = "flushing" /\ collector => grace + cfg.ShutdownTimeout + FlushTime >= GracePeriod + stl

\* Once the listener is closed nobody who has a deadline has longer than he had then, less the time since.
RequestClock == \A r \in Requests :
    LET Bounded(n) == /\ left[r] <= n
                      /\ pc = "draining" /\ cfg.ReadTimeout > 0 => left[r] + cfg.ShutdownTimeout <= n + stl
    IN  /\ req[r] \in {"headers", "body"} => Bounded(cfg.ReadTimeout)
        /\ req[r] = "calling" => Bounded(cfg.ReadTimeout + cfg.RPCTimeout)

DrainInv == \A r \in Requests :
    /\ Running => req[r] # "cut"
    /\ Covered /\ Running => req[r] # "aborted"
    /\ Covered /\ pc \in {"closing", "flushing"} => req[r] \notin {"headers", "body", "calling"}

SpanInv == Running => \A r \in Requests :
    /\ span[r] = "open" => req[r] = "calling"
    /\ Covered /\ collector => span[r] # "lost"

IInv ==
    /\ TypeOK /\ ProcessInv /\ ShutdownClock /\ RequestClock /\ DrainInv /\ SpanInv
    /\ InflightRequestsDrain /\ AnsweredSpansExported /\ EndsBySelf
=============================================================================
