----------------------------- MODULE BackendShutdown -----------------------------
(***************************************************************************)
(* The end of a python-ai process: the main thread that starts the server, *)
(* waits for its termination and runs the signal handler in between; the   *)
(* gRPC server and its grace period; the worker threads, which the         *)
(* interpreter joins before it exits; the SIGKILL of the kubelet.          *)
(***************************************************************************)
EXTENDS Naturals, FiniteSets

CONSTANTS
    Calls,          \* gRPC calls the gateway may make
    MAX_WORKERS,    \* threads of the ThreadPoolExecutor
    Grace,          \* server.stop(grace=5)
    OllamaTimes,    \* how long a worker may be in Ollama
    KillAfter       \* terminationGracePeriodSeconds

ASSUME CallsAssumption == IsFiniteSet(Calls)
ASSUME TimesAssumption == {MAX_WORKERS, Grace, KillAfter} \cup OllamaTimes \subseteq Nat

VARIABLES
    ollamaTime, \* the longest a worker is in Ollama in this process
    stage,      \* the server: "created", "serving", "grace" or "terminated"
    handled,    \* the handler has called server.stop
    flushed,    \* the handler has called provider.shutdown, and returned
    exit,       \* how the process ended: "none", "clean" or "sigkill"
    stl,        \* time left of the grace period
    sinceTerm,  \* time since SIGTERM was sent, as far as KillAfter
    term,       \* SIGTERM was sent
    client,     \* client[c]: "none", "waiting", "own" (the call's own status), "refused",
                \* "cancelled" (by the server) or "lost"
    worker,     \* worker[c]: "none", "queued", "running" or "done"
    left        \* left[c]: time c's worker may yet be in Ollama

calls == <<client, worker, left>>
main == <<ollamaTime, stage, handled, flushed, exit, stl>>
vars == <<main, sinceTerm, term, calls>>

Init ==
    /\ ollamaTime \in OllamaTimes
    /\ stage = "created"
    /\ handled = FALSE
    /\ flushed = FALSE
    /\ exit = "none"
    /\ stl = 0
    /\ sinceTerm = 0
    /\ term = FALSE
    /\ client = [c \in Calls |-> "none"]
    /\ worker = [c \in Calls |-> "none"]
    /\ left = [c \in Calls |-> 0]

Running == exit = "none"
Pending == {c \in Calls : client[c] = "waiting"}
Busy == {c \in Calls : worker[c] = "running"}

\* Whoever still waits for a status loses the connection.
Exit(how) ==
    /\ Running
    /\ exit' = how
    /\ client' = [c \in Calls |-> IF client[c] = "waiting" THEN "lost" ELSE client[c]]
    /\ UNCHANGED <<ollamaTime, stage, handled, flushed, stl, sinceTerm, term, worker, left>>

-----------------------------------------------------------------------------
(* The main thread.                                                        *)

\* The handler may have run already: stop does nothing to a server that is not started.
\* It runs in this thread, which goes on when the handler has returned.
Start ==
    /\ Running
    /\ stage = "created"
    /\ handled => flushed
    /\ stage' = "serving"
    /\ UNCHANGED <<ollamaTime, handled, flushed, exit, stl, sinceTerm, term, calls>>

Stop(grace) ==
    /\ Running
    /\ term
    /\ ~handled
    /\ handled' = TRUE
    /\ IF stage = "serving" THEN stage' = "grace" /\ stl' = grace ELSE UNCHANGED <<stage, stl>>
    /\ UNCHANGED <<ollamaTime, flushed, exit, sinceTerm, term, calls>>

\* Mutant: server.stop(grace=0).
StopAtOnce == Stop(0)

\* Mutant: the grace period of the pod is passed on.
StopWithPodGrace == Stop(KillAfter)

\* The handler: stop begins the grace period and returns.
HandlerStops == Stop(Grace)

\* The handler goes on: provider.shutdown, of which only the time it takes matters here
\* (spans are not in this module).
ProviderShutdown ==
    /\ Running
    /\ handled
    /\ ~flushed
    /\ flushed' = TRUE
    /\ UNCHANGED <<ollamaTime, stage, handled, exit, stl, sinceTerm, term, calls>>

\* Mutant: the entrypoint does not call wait_for_termination, and ends with os._exit.
ExitsWithoutWaiting == flushed /\ Exit("clean")

\* wait_for_termination returned and the handler is done: the interpreter joins the
\* worker threads, and they look at every call still queued.
Joined == stage = "terminated" /\ flushed /\ \A c \in Calls : worker[c] \notin {"queued", "running"}

InterpreterExits == Joined /\ Exit("clean")

-----------------------------------------------------------------------------
(* The server and its workers.                                             *)

Arrive(c) ==
    /\ Running
    /\ stage \in {"serving", "grace"}
    /\ client[c] = "none"
    /\ IF stage = "serving"
       THEN client' = [client EXCEPT ![c] = "waiting"] /\ worker' = [worker EXCEPT ![c] = "queued"]
       ELSE client' = [client EXCEPT ![c] = "refused"] /\ UNCHANGED worker
    /\ UNCHANGED <<main, sinceTerm, term, left>>

\* A call that was cancelled while it was queued is dropped.
Take(c) ==
    /\ Running
    /\ worker[c] = "queued"
    /\ Cardinality(Busy) < MAX_WORKERS
    /\ IF client[c] = "waiting"
       THEN worker' = [worker EXCEPT ![c] = "running"] /\ left' = [left EXCEPT ![c] = ollamaTime]
       ELSE worker' = [worker EXCEPT ![c] = "done"] /\ UNCHANGED left
    /\ UNCHANGED <<main, sinceTerm, term, client>>

\* Ollama answers, fails, or times out.
WorkerReturns(c) ==
    /\ Running
    /\ worker[c] = "running"
    /\ worker' = [worker EXCEPT ![c] = "done"]
    /\ client' = IF client[c] = "waiting" THEN [client EXCEPT ![c] = "own"] ELSE client
    /\ UNCHANGED <<main, sinceTerm, term, left>>

\* cancel_all_calls: the calls end, their workers do not notice.
GraceOver ==
    /\ Running
    /\ stage = "grace"
    /\ stl = 0
    /\ Pending # {}
    /\ client' = [c \in Calls |-> IF c \in Pending THEN "cancelled" ELSE client[c]]
    /\ UNCHANGED <<main, sinceTerm, term, worker, left>>

\* No call is left.
ServerTerminates ==
    /\ Running
    /\ stage = "grace"
    /\ Pending = {}
    /\ stage' = "terminated"
    /\ UNCHANGED <<ollamaTime, handled, flushed, exit, stl, sinceTerm, term, calls>>

-----------------------------------------------------------------------------
(* The kubelet, and time.                                                  *)

SIGTERM == Running /\ ~term /\ term' = TRUE /\ UNCHANGED <<main, sinceTerm, calls>>

SIGKILL == sinceTerm = KillAfter /\ Exit("sigkill")

Less(n) == IF n > 0 THEN n - 1 ELSE 0

Tick ==
    /\ Running
    /\ term \/ Busy # {}
    /\ term => handled /\ sinceTerm < KillAfter
    /\ ~Joined /\ ~(stage = "created" /\ flushed)
    /\ ~(stage = "grace" /\ (stl = 0 \/ Pending = {}))
    /\ \A c \in Busy : left[c] > 0
    /\ left' = [c \in Calls |-> Less(left[c])]
    /\ stl' = Less(stl)
    /\ sinceTerm' = IF term THEN sinceTerm + 1 ELSE sinceTerm
    /\ UNCHANGED <<ollamaTime, stage, handled, flushed, exit, term, client, worker>>

Ended == ~Running /\ UNCHANGED vars

Next ==
    \/ Start \/ HandlerStops \/ ProviderShutdown \/ InterpreterExits
    \/ \E c \in Calls : Arrive(c) \/ Take(c) \/ WorkerReturns(c)
    \/ GraceOver \/ ServerTerminates
    \/ SIGTERM \/ SIGKILL \/ Tick \/ Ended

Spec == Init /\ [][Next]_vars

-----------------------------------------------------------------------------
(* Properties.                                                             *)

\* The type invariant.
TypeOK ==
    /\ ollamaTime \in OllamaTimes
    /\ stage \in {"created", "serving", "grace", "terminated"}
    /\ {handled, flushed, term} \subseteq BOOLEAN
    /\ exit \in {"none", "clean", "sigkill"}
    /\ stl \in 0 .. Grace
    /\ sinceTerm \in 0 .. KillAfter
    /\ client \in [Calls -> {"none", "waiting", "own", "refused", "cancelled", "lost"}]
    /\ worker \in [Calls -> {"none", "queued", "running", "done"}]
    /\ left \in [Calls -> 0 .. ollamaTime]

\* Calls accepted before SIGTERM keep the grace period, whatever provider.shutdown does
\* meanwhile: the server cancels none before it is over.
GraceHonoured == (\E c \in Calls : client[c] = "cancelled") => sinceTerm >= Grace

\* No call is left without a status when the process ends by itself: exit waits for the
\* server and the workers.
NoCallLost == exit = "clean" => \A c \in Calls : client[c] # "lost"

\* When the grace period and the longest call to Ollama fit into the pod's period, SIGKILL
\* finds a worker at work only in a server that was signalled before it was started (stop has no
\* effect on that one), although a call that was cancelled still holds its worker.
OnlyLostSignalsCostWork ==
    Grace + ollamaTime < KillAfter /\ exit = "sigkill" => stage = "serving" \/ Busy = {}

\* What a stop promises the calls, in GracefulStop: the allowance is the grace period, and the
\* interpreter may exit once the server has terminated.
StopStage == CASE exit = "clean"                                   -> "gone"
               [] exit = "sigkill"                                 -> "killed"
               [] Running /\ stage \in {"grace", "terminated"}      -> "stopping"
               [] Running /\ stage \notin {"grace", "terminated"}   -> "up"

FateOf(status) == CASE status = "waiting"              -> "accepted"
                    [] status = "own"                  -> "finished"
                    [] status \in {"cancelled", "lost"} -> "lost"
                    [] OTHER                           -> status

Fate == [c \in Calls |-> FateOf(client[c])]
TimeAllowed == IF Running /\ stage = "grace" THEN stl ELSE 0

Graceful == INSTANCE GracefulStop WITH
    Tasks <- Calls, stage <- StopStage, allowance <- Grace, timer <- TimeAllowed, task <- Fate

\* server.stop keeps that promise, and the exit of the interpreter does: no call is lost before
\* the grace period is over, and none is taken after SIGTERM's handler ran in a serving server.
RefinesGracefulStop == Graceful!Spec

-----------------------------------------------------------------------------
(* What makes the properties inductive (BackendShutdownProofs).            *)

\* The order of the signal, its handler and the server's stages.
ServerInv ==
    /\ stage \in {"grace", "terminated"} => handled
    /\ handled => term
    /\ ~handled => sinceTerm = 0

\* Whoever waits has a worker to wait for, and the server terminates when nobody waits.
CallInv == \A c \in Calls :
    /\ stage = "created" => client[c] = "none"
    /\ client[c] = "none" => worker[c] = "none"
    /\ stage = "terminated" => client[c] # "waiting"
    /\ Running => /\ client[c] # "lost"
                  /\ client[c] = "waiting" => worker[c] \in {"queued", "running"}

\* What the grace period has lost went by since SIGTERM; no worker starts after it.
ShutdownClock ==
    /\ stage = "grace" => sinceTerm + stl = Grace
    /\ stage \in {"grace", "terminated"} => \A c \in Busy : sinceTerm + left[c] <= Grace + ollamaTime

IInv ==
    /\ TypeOK /\ ServerInv /\ CallInv /\ ShutdownClock
    /\ GraceHonoured /\ NoCallLost /\ OnlyLostSignalsCostWork
=============================================================================
