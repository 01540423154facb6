# A TLA+ model of ai-gateway-monitor

The repository is an AI inference gateway: `go-gateway` (REST, Go) validates
requests and forwards them over gRPC to `python-ai` (Python), which classifies
irises itself and hands prompts to an Ollama server over HTTP. Around the two
services stand Prometheus metrics, Kubernetes probes and autoscaling, and a
deployment script.

Paths below are relative to the repository's root.

## 1. Inventory

| Part | State | Operations | Interacts with | What makes it correct |
|---|---|---|---|---|
| iris handler (`service_go/handlers/iris.go`) | one goroutine per request; a `sync.Pool` of request messages | `Predict` | gRPC channel, metrics | answers every request once; 400 only for illegal bodies; a pooled message is never shared |
| model handler (`handlers/model.go`) | one goroutine per request | `Predict`, `PredictStream` | gRPC channel, metrics | as above; a stream ends in one terminal event |
| error contract (`handlers/api_error.go`) | none | `APIErrorFromGRPC`, `writeGRPCError`, `writeValidationError` | both handlers, `_set_ollama_error` | statuses mean what they say across both services |
| metrics (`metrics/metrics.go`) | counters, histograms | `Inc`, `Add`, `Observe` | handlers | each answer is counted once, where it belongs |
| gRPC channel (`grpcclient/client.go`) | connectivity state, keepalive timers | calls, `Connect` | both services | no call is answered twice; pings do not earn strikes |
| python-ai server (`service_python/server.py`) | executor queue, running calls, count of active RPCs | admit, refuse, run, drop, stop | channel, predictors | bounded pool, exact count, no starvation |
| iris predictor (`models/iris_predictor.py`) | the classifier (constant) | `IrisPredict` | server | its range check agrees with the gateway's |
| ollama predictor (`models/ollama_predictor.py`) | a client with a pool of connections | `ModelPredict`, `ModelPredictStream`, `_set_ollama_error` | server, Ollama | a worker is released in bounded time; failures get the right status |
| configuration (`config/config.go`) | constants after `Load` | `Load` | all | the write-timeout guard holds |
| health (`handlers/health.go`) | none | `Check`, `Readyz` | channel, kubelet | an idle channel is dialled; ready only when connected |
| lifecycle (`main.go`, `server.py`, `k8s/*.yaml`) | process phases | start, SIGTERM, stop | kubelet | in-flight requests are drained in time |
| autoscaling (`k8s/go-gateway-hpa.yaml`) | replicas, windows (Kubernetes' own) | reconcile | metrics | stays within bounds, does not flap |
| telemetry (`telemetry/tracer.go`, `observability.py`) | spans not yet exported | export, `Shutdown` | lifecycle | no span of an answered call is lost |
| GPU exporter (`gpu_exporter.py`) | gauges | poll, scrape | nvidia-smi, Prometheus | fresh values or none |
| deployment (`deploy.sh`) | PID files, child processes, cluster objects | its commands | cluster, docker | repeatable; does not lose its children |
| router, generated code, dashboards, tests, CI | none that matters | | | see section 8 |

The hard behaviours are on the path of a request. It crosses two processes and
a third-party server, and each has a clock of its own: the gateway's context
deadline, the HTTP client's timer in python-ai, and the time a worker thread has
been in use. Python-ai's pool is shared by calls of milliseconds and calls of a
minute. Nobody can interrupt a worker that runs. Replies, deadlines, client
disconnects, broken connections and crashes race one another. A stream adds an order of
its own: a status committed first, chunks, and a verdict behind them. Around the requests stand the
processes' lives: configuration whose durations must fit one another, a channel that only
dials when asked, and shutdowns in which four clocks of three files run. `PROJECT.json`
lists these hazards at their lines, with the property that would catch each.

## 2. Plan

Done:

1. **PredictPath** with **ApiContract** and **PredictContract**: the unary path end to end.
2. **StreamPath** with **StreamContract**: the streaming path end to end.
3. **ConfigLoad** and **RequestDeadlines**: `Load`, and the three clocks it configures.
4. **IrisRequestPool**: the `sync.Pool` of request messages.
5. **Readiness**: `Readyz`, the channel's connectivity, the kubelet.
6. **GatewayLifecycle** and **BackendShutdown**: both processes from start to SIGKILL.
7. **GracefulStop**: what a stop promises to the work in flight; both processes implement it.
8. **Tally**: counting and summing over sets, with which both paths' metrics are stated and proved.

Left, in this order:

* more action properties as theorems (what a step of `Readiness` or of a process may never undo);
* a composition of GatewayLifecycle with BackendShutdown in a rolling restart of both
  deployments (today each meets the other only as an environment that may fail);
* ping strikes (`server.py:29`) and the autoscaler, if they can be
  modelled from this repository and not from gRPC's and Kubernetes' sources.

## 3. Modules

| Module | Role |
|---|---|
| `ApiContract` | bodies, both validations, both error mappings: pure operators |
| `PredictContract` | abstract: what a client of a unary endpoint is promised |
| `PredictPath` | the unary path, its properties and its inductive invariant |
| `StreamContract` | abstract: what a client of the streaming endpoint is promised |
| `StreamPath` | the streaming path |
| `ConfigLoad` | `config.Load` on durations of a fixed width: pure operators |
| `RequestDeadlines` | one request under the read, write and RPC deadlines that `Load` yields |
| `IrisRequestPool` | the goroutines of the iris handler, the pool, the garbage collector |
| `Readiness` | one pod: `Readyz`, the kubelet's probes, the Service, the gRPC channel, the backend |
| `GatewayLifecycle` | go-gateway's process: main, listener, requests, spans, signals |
| `BackendShutdown` | python-ai's process: main thread, signal handler, server, workers, kubelet |
| `GracefulStop` | abstract: what a process that is asked to stop promises the tasks it has accepted |
| `Tally` | how many things have a property, and sums over them: what counters are compared with |
| `MC*` | small constants for TLC (`Readiness` needs none) |
| `PredictPathProofs`, `StreamPathProofs`, `IrisRequestPoolProofs`, `RequestDeadlinesProofs`, `ReadinessProofs`, `GatewayLifecycleProofs`, `BackendShutdownProofs`, `TallyProofs` | theorems and proofs |

`PredictPath` and `StreamPath` use `ApiContract`; each implements its contract.
Both count with `Tally`. `RequestDeadlines` extends `ConfigLoad`. `GatewayLifecycle` and `BackendShutdown` implement
`GracefulStop`. The other modules stand alone: what they share with
the paths (a lost connection, a deadline, a worker in Ollama) appears in them as an event that may happen.

### State of `PredictPath` and where it lives in the code

| Variables | Code |
|---|---|
| `body` | the posted JSON |
| `handler`, `answer` | where the handler goroutine is; the status and `code` it wrote |
| `ttl` | what is left of the `context.WithTimeout` of the RPC |
| `HTTPRequestsTotal` ... `AIGenerationDuration` | the five instruments of `metrics.go` (for histograms, the number of observations) |
| `call`, `reply`, `cancelled` | the gRPC call: sent, queued, running, ended; the status under way to the gateway; whether the server knows of the cancellation |
| `up`, `queue`, `active_rpc_count` | python-ai: the process, the executor's work queue, the count behind `maximum_concurrent_rpcs` |
| `connected` | whether the gateway's channel to it is READY: after a loss it is not, also when python-ai is up again |
| `ollama`, `ops`, `otl`, `held` | phase of the HTTP call, the socket operations of it that are over, the httpx timer of the one under way, and (auxiliary) the time the worker has spent in the call |

### Actions of `PredictPath`

* Handlers: `RejectIris`/`RejectModel` (a 400 without an RPC),
  `ForwardIris`/`ForwardModel`, and the three ways an RPC returns:
  `ReplyArrives`, `DeadlineFires`, `ClientDisconnects`. Each of these is the whole rest of
  the handler: RPC histogram, token metrics, status counter, latency, answer.
* Channel and admission: `Admit`, `Refuse` (RESOURCE_EXHAUSTED), `FailFast`
  (UNAVAILABLE while the channel is not connected, be python-ai down or up), `LoseCall`, `CancelArrives`.
* Workers: `SkipCancelled`, `StartIris`, `IrisFinishes`, `RefusePrompt`, `StartModel`.
* Ollama: `OllamaNextAddress`, `OllamaConnected`, `OllamaSendsPart`, `OllamaAnswers`,
  `OllamaRefuses`, `OllamaFails`, `OllamaTimesOut`.
* Environment: `Tick`, `ConnectionBreaks`, `Crash`, `Restart`, `Reconnect`.

`create_server`'s two limits are `IdleWorker` and the guard of `Admit`.

### Abstractions of `PredictPath`

* Time is discrete. A timer that has run out is urgent: `Tick` waits for it. So a
  deadline can lose against a reply by order of events, never by a whole tick.
* A feature is missing or a whole number of centimetres; a prompt is a length
  in code points and whether anything but white space is in it. JSON that does not
  parse is one flag. Message texts, request ids, token durations and class names are left out.
* The server sends its status and gives up its place in the count in one step
  (in grpc the status may be on the wire a moment earlier, with the call still counted).
* A unary call that runs never looks at its cancellation, as in the code. A queued
  one whose cancellation has arrived is dropped by the worker that takes it.
* httpx applies its timeout to each socket operation: to the connect of each address the host name has
  (`Addresses`; a refused or timed-out one is followed by the next), and to each read of the answer, its head and
  the pieces of its body (`MaxReads` of them at most; their number is limited by the size of an answer of
  512 tokens, which `num_predict` sets, and by nothing else: an Ollama that sends one byte at a time is allowed as many reads). Each starts
  `otl` afresh (`NextOperation`). Writing a request of a few kilobytes and waiting for a pooled connection are not modelled: neither blocks
  with at most MAX_WORKERS callers. A call on a pooled connection starts with `read`.
* An RPC whose client disconnected gets CANCELLED and the handler still writes
  (and counts) its 500, although nobody reads it; the code does the same.
* The HTTP server's deadlines are in `RequestDeadlines`, the pool of request messages in
  `IrisRequestPool`; the maximum message size is left out.
* The gateway itself does not crash: a request does not survive it.

### The contract of the unary path

`PredictContract` has four facts per request: its `stage`, whether it was
`accepted`, whether an inference result was `served`, and the `status` answered.
`RefinesContract` maps `handler`, `call`, `reply` and `answer` to them. It says that a
request is answered at most once and for good, that a 200 needs a completed
inference, that an accepted iris request never becomes a 400, and that every
accepted request is answered in the end.

### The streaming path

`StreamPath` follows one handler per stream through `new`, `opening`, `loop`, `recv` and
`finished`. `StreamOpens` commits and counts the 200 before anything is received, as
`model.go:162` does; `wire` and `trailer` are the chunks and the status behind them, which may be
overtaken by the deadline or by the client's leaving; `LoopTop` is gin's look at the closed
connection before each call of the step function. On the other side `OllamaSendsChunk` and
`OllamaSendsFinalChunk` are the only places where a cancelled worker leaves the loop,
as `is_active()` is asked there only.

* Sending a chunk does not block: gRPC's flow-control window is larger than an answer of 512 tokens.
  A chunk of Ollama takes up to `MaxReads` reads (`OllamaSendsPart` is one that completes no line, the head of the answer
  among them), and each restarts the httpx timer; `NumPredict` bounds the chunks, as `num_predict: 512` does.
* Ollama's answer may come to a regular end at any chunk (`OllamaEnds`). The loop does not look at `chunk.done`, so the status is OK
  and the client gets `event:done`, with or without a final chunk. `ended` (auxiliary) remembers that the end was
  a regular one: a failure, a timeout or a cancellation does not set it.
* As in `PredictPath`, a stream that is created while the channel is not `connected` may fail at once, also when python-ai is up again.
* A worker goes on yielding when its connection is gone. Such a chunk reaches nobody (`Yield`).
* All failures behind the opening are one `event:error`, so their codes are not told apart
  (a refused connection, which in the unary call becomes INTERNAL, reaches the streaming
  loop as `httpx.ConnectError` and becomes UNAVAILABLE).
* The pool is shared with requests that are not in the model: `Refuse` may happen at any time.

`StreamContract` says that a stream delivers a prefix of what was generated, that `done` means all of it and that the generation came to
its regular end, that a client that stays gets exactly one last event, and that every opened stream is closed. It does
not say that `done` follows a final chunk with statistics: the code makes no such promise.

### Configuration and deadlines

`ConfigLoad` takes each duration setting as unset, invalid or a duration, and adds with the
wrap-around of a word of `2 * HalfWord` values. `RequestDeadlines` starts `rtl` with the first byte, `wtl` when the
headers have been read and `ttl` when the body has. Zero and negative values mean
what each package makes of them: no deadline for net/http, an expired one for
`context.WithTimeout`. A body that is not read in time fails in `ShouldBindJSON` and is answered 400.
The chunks of a stream are not in this module: its last event stands for the answer.

### The pool of request messages

One action per step of `IrisHandler.Predict` that touches the message. `Get` or `New` is the pool's
choice; `CollectGarbage` takes pooled messages away at any time; `Encode` is where
the generated client reads the message, and an RPC may fail before it.

### Readiness

One tick is one probe period of `k8s/go-gateway.yaml`. The channel is grpc-go's (v1.78) with one address, as `Dial`
configures it: an attempt fails or succeeds, failures are followed by back-off and another attempt
by itself, a *lost* connection makes the channel idle until somebody asks it to connect, and so do 30 minutes without
an RPC. An attempt may last for grpc-go's minimum of 20 s or, where that is longer, for the back-off to come (at most 144 s). `link = "dead"` is a connection whose peer is gone without a reset: READY until
keepalive notices. A pod that is out of service gets no RPC, so that `Readyz` is the only one who dials.

### The processes' lives

`GatewayLifecycle` has one `pc` for main and a state per request; a request is active once its headers were
read. A read timeout of 0 is none (`Timed`), as `config.go:30` and net/http have it. `Exit` is the end of the process and says what it leaves: requests not answered are `cut`,
spans not exported are `lost`. Main's deferred calls are actions in their order. `collector` says
whether the trace collector answers, as `tp.Shutdown` has no deadline of its own.
Headers that are not fully read when Shutdown begins may be dropped: net/http promises them nothing.

`BackendShutdown` has the server's stages, the handler that runs in the main thread, a state per call as its caller
sees it and one as its worker does: after the grace period the two differ. grpc's Python server is
modelled as its source has it: `stop` on a server that was not started has no effect, the grace period
ends with the cancellation of all calls, and `concurrent.futures` joins its threads when the interpreter exits.
The handler runs in the main thread, so a signal that comes before `server.start` is used up: the server starts afterwards.
`provider.shutdown` may take any time; python-ai's spans are not in the module (see section 8). `ollamaTime` is how long a call to Ollama may take in this process; every
value of `OllamaTimes` is tried.

`GracefulStop` is what both promise. A task connects, is accepted (or refused), and is finished or lost; a stop gives the accepted
ones an allowance of time. A task is lost only when the allowance is spent or the process is killed, nothing is accepted
after the stop began, and what has finished stays finished. For the gateway a task is a request, accepted once its headers are
read, and the allowance is `HTTP_SHUTDOWN_TIMEOUT`; for python-ai it is a call, accepted when the
server has queued it, and the allowance is the grace period. Ends that no stop leads to (a listener that fails, a SIGTERM
before `signal.Notify`, SIGKILL) are `Kill` there.

## 4. Runs

| Run | Instance | Question | Result |
|---|---|---|---|
| `predict_safety` | 1 LLM + 2 iris requests, 1 worker, 1 fault | pool, metrics, held workers under all interleavings | holds (1.4 million states) |
| `predict_answers` | 1 LLM + 1 iris request, bad and good bodies, 1 fault | honest answers (200, 400, 504), liveness, refinement | holds (317 thousand) |
| `predict_overhang` | 1 LLM + 1 iris request, no faults | is a worker released by the time the gateway gives up | violated |
| `predict_refused` | 1 LLM + 1 iris request, no faults | does a refused connection stay clear of INTERNAL | violated |
| `stream_path` | 1 stream, all prompts, 3 chunks, 2 faults | metrics at every moment, honest statuses and events, overtime of a cancelled worker, refinement, liveness | holds (309 thousand) |
| `stream_counted` | the same instance | does the counter of finished requests count finished ones only | violated |
| `deadlines` | 432 environments, both routes | is every answer written in time, does every request end | holds (183 thousand) |
| `deadlines_slow_body` | a read timeout of 20 s, or none | can the timeout's 504 always be flushed | violated |
| `iris_pool` | 3 goroutines, 3 messages | ownership, blankness, no mix-up | holds (809) |
| `readiness` | 1 pod, 34 probe periods of clock | bounded recovery, bounded staleness, liveness | holds (164 thousand) |
| `lifecycle` | 2 requests, 5 configurations | drained requests, exported spans, end before SIGKILL, refinement of `GracefulStop` | holds (352 thousand) |
| `backend_shutdown` | 3 calls, 2 workers, 3 times in Ollama | grace period, no call lost, what SIGKILL may cost, refinement of `GracefulStop` | holds (690 thousand) |

### Bounds

*Unary path.* `MAX_WORKERS = 1` gives one running call and one
that waits, so a third is refused: three requests reach every boundary of the
pool, and one request can be cancelled while another runs and a third is refused.
Timeouts are 1 (iris), 3 (model) and 2 (Ollama), in the order of the defaults 3 s,
60 s and 55 s (1, 2 and 1 in `predict_safety`, to make room for a third request); an iris call can expire while it queues, an LLM call can expire
at Ollama before and after the gateway does, and two Ollama timers in a row
outlast the gateway's deadline. Two addresses and two reads (`Addresses`, `MaxReads`) are the least with which an operation of either
kind is followed by another of its kind; the theorems have any number. `MaxFaults = 1` puts a crash or a broken connection at every
point of a behaviour; a restart follows. `MaxPromptLen = 2` with lengths 0 to 3 covers both
sides of the limit. The iris bodies are a flower at both inclusive bounds and, from it, one with each kind of fault; that the two
validations agree on every combination is the theorem `ValidationsAgree`. Requests do not come back: a client that retries is another request.
Iris requests are interchangeable in `predict_safety`, which checks
invariants only, so symmetry is sound there; the runs with temporal properties use none.

*Streaming path.* One stream: its properties are about one handler, its call and its worker, and whatever other
requests do to it is in the model without them, as `Refuse` (a full pool) at any time and as a call that stays queued.
A model timeout of 3 and an Ollama timeout of 2 let the deadline fall before, between and after chunks. Up to three
chunks, of which the final one has tokens or not, and two faults are enough for a connection to be lost before, between and
behind them, and for a crash to follow a broken connection; Ollama's answer may end regularly at any chunk, the first included.

*Deadlines.* Ticks of 5 s make the headroom 3, the defaults 2, 15, 1 and 12, and a duration 6 bits wide (`HalfWord = 32`).
The settings take values on both sides of every comparison: zero, negative, one, the headroom and one more,
above the default, and both sides of the wrap.

*Pool.* With three messages for three goroutines a message is always free, new or pooled, and a
third goroutine can take what the second has returned while the first still holds its own.

*Readiness.* The periods are those of the deployed system in units of 10 s but for the idle timeout
(36 periods for 180), which only has to outlast a recovery. `ConnectTimeout` is that of the longest attempt, not grpc-go's minimum of 20 s.
`MaxClock = 34` is beyond both bounds that are checked (33 and 7; `ClockAssumption`). `RecoveryTime` is exact: one period less is violated. So is `PatienceAssumption`:
`failureThreshold: 3` is the least that keeps a pod in service while its channel, having idled, dials for one period.

*Lifecycles.* Ticks of 5 s and the real numbers: 10 s, 60 s, 75 s and 90 s; grace 5 s, SIGKILL after 30 s, and up to 20 s, 25 s or
110 s in Ollama. With 20 s grace and Ollama fit into the pod's period with one tick to spare, with 25 s they do not, 110 s is the default. The other configurations break `Covered`: by the read timeout
at the margin or off, by an RPC that outlives the shutdown timeout, and by a shutdown timeout of zero. Three calls on two
workers leave one in the queue. Requests and calls are interchangeable: the invariants and
the refinement mapping treat all alike, and the refinement is a safety property (no fairness), so symmetry is sound.

A behaviour of a path ends when all requests are answered and all calls have ended, that of a process
with its exit; an action that changes nothing stands for that end (`Terminated`, `Done`, `Ended`),
so TLC's deadlock check is on in every run and finds anything else that is stuck.

### What the runs found

* **A worker may outlive the gateway's deadline** although the Ollama timeout is
  below the model timeout as `.env.example` asks. The timeout restarts with each
  socket operation, so that the bound is one timeout for each address tried and each read of the answer, and an Ollama that drips its
  answer is held back by nothing but the answer's size. `WorkerHeldBounded` states that bound, and it holds.
* **Ollama being down is reported as a 500.** The unary call of the pinned `ollama` client raises the
  builtin `ConnectionError`, which `_set_ollama_error` does not list.
* **The headroom of 15 s covers the time it takes to read a body only if `HTTP_READ_TIMEOUT` is below it.** With 20 s, or
  with 0, the handler's 504 meets a connection whose write deadline has passed. `AnswersFlushed` is the guarantee that
  remains; it also needs `IRIS_TIMEOUT <= MODEL_TIMEOUT`, which nothing checks.

* **A stream is counted as a 200 before its first chunk** (`model.go:162`), and so before it is finished and whatever becomes of it, where
  `metrics.go:11` says that the counter counts finished requests. `StreamMetrics` has the count as it is.

Noticed while modelling, and stated by the models without a run of their own:

* A stream whose body Ollama ends in order but early is a success: the loop does not ask for `chunk.done`
  (`ollama_predictor.py:141`). The client gets `event:done`, and no tokens are counted.
* `ModelTimeout + 15s` can wrap, and then the guard does nothing. `GuardSuffices`, the condition of `AnswersFlushed`, excludes it.
* A SIGTERM between `setup_graceful_shutdown` and `server.start` is lost (`main.py:32-34`). `OnlyLostSignalsCostWork` names it.
* python-ai's exit waits for workers in Ollama, by default for longer than the 30 s the kubelet grants. `OnlyLostSignalsCostWork` has
  the condition under which it does not need SIGKILL to get rid of them.
* Covering `MODEL_TIMEOUT` alone, as `config.go:39` asks of `ShutdownTimeout`, is not enough
  for requests to drain, because the body is read under `HTTP_READ_TIMEOUT` first (`Covered` has the sum; the defaults
  satisfy it). With `HTTP_READ_TIMEOUT=0` nothing bounds that reading, and no shutdown timeout is enough.
* A SIGTERM before `signal.Notify` (`main.go:86`) ends the gateway at once, with the requests it has accepted.
* An nvidia-smi that hangs leaves old gauges served (`gpu_exporter.py:34`).

## 5. Fairness

`PredictPath` assumes weak fairness of `Tick`, `DeadlineFires`, `WorkerStart`, `IrisFinishes`
and of what follows an httpx timer that has run out (`OllamaNextAddress` or `OllamaTimesOut`): the runtime's timers run and fire, an idle thread of the executor takes the
next item of its queue, and a classification, a pure computation, ends. Nothing is assumed of clients,
of Ollama, of the network, of the arrival of a cancellation, of a restart or of the channel's reconnection: python-ai may
stay down for ever and every request is still answered. That workers are freed rests on `MaxReads`, the finite
size of an answer.

`StreamPath` assumes the same of timers and workers, and that the goroutine of a stream that has something to
do is scheduled (`LoopTop`). `RequestDeadlines` assumes that time passes and that expired deadlines are
noticed; nothing of the client or the backend. `Readiness` assumes that the kubelet probes, that timers
expire and that an attempt that is over has a result; requests, losses and restarts need not come.
`IrisRequestPool`, `GatewayLifecycle` and `BackendShutdown` check safety only and have no fairness.

## 6. Proofs

`PredictPathProofs` proves, for any finite sets of requests, any pool size, any
timeouts (zero included), any number of addresses and reads and any number of faults:

* `TypeCorrect`, `PoolIsBounded`, `BadRequestsAreHonest`, `TimeoutsAreHonest`,
  `WorkersAreHeldBriefly`, `SuccessesAreHonest`, `MetricsAccount`: the invariants of the runs;
* `AnswersAreFinal`: no step changes an answer that was given;
* `ImplementsContract`: the safety part of the refinement;
* `ValidationsAgree`, `OllamaFailuresMap`: two facts about `ApiContract` alone, that gateway and python-ai accept the same iris
  bodies, and what becomes of each failure of Ollama behind both mappings.

The assumptions are those the modules name: `RequestsAssumption` (finite, disjoint sets of
requests), `BodiesAssumption`, `ParametersAssumption`, `MaxPromptLenAssumption`.

None of the invariants is inductive alone. `IInv` adds:

* `PoolInv`: the work queue lists exactly the queued calls, each once. Without it a worker could take
  a call that is not queued and the count would drift, so `PoolBounded` alone does not survive `TakeWork`.
* `ProtocolInv`: only an accepted body becomes a call, only a call has a reply,
  and INVALID_ARGUMENT replies come from blank prompts. It is what makes a 400 honest.
* `ClockInv`: timer and time held add up to at most one timeout for each socket operation so far (`TimeFor(ops + 1)` while connecting,
  `TimeFor(Addresses + ops + 1)` while reading; `OllamaClock`) and to at least one, and `ttl + held` never exceeds the model timeout while
  the handler waits. So the worker is held for no more than `TimeFor(Addresses + MaxReads)`, and when Ollama times out, the caller
  has waited at least one Ollama timeout.

Two more invariants rest on it. `ResultInv`: a worker runs, and a reply is OK, only for a prompt that python-ai accepts, and a 200
has an OK reply behind it; so a 200 is honest. `MetricsAccount` needs no strengthening of its own, but arithmetic: a counter and the
set it counts change in the same step by one, and token sums by the tokens of the one request that was answered. `TallyProofs` has these facts
(`OneMore`, `TotalOneMore`, and that nothing else changes a count or a sum); its sums are taken over a set of pairs, as
the induction a fold would need is out of the prover's reach.

The proof that a step keeps `IInv` is split by part (`TypePoolStep`, `ProtocolStep`, `ClockStep`,
`TimeoutStep`), each with one step per action; what an action does to the pool is in lemmas about
sets and queues (`HeadOfQueue`, `LeavePool` and others). The refinement uses `IInv` for the facts a mapped step needs:
a worker leaves a call that exists, and a 400 from behind the gateway belongs to a model request.

`IrisRequestPoolProofs` proves all four invariants of `iris_pool` for any number of goroutines and
messages. Their conjunction is inductive with `ContentsInv`: between `Fill` and the return of the RPC the borrowed
message holds its owner's features, and after `Reset` none. `OneOwner` keeps others from writing to it.

`RequestDeadlinesProofs` proves `TypeOK` and `AnswersFlushed` for every set of environments, every defaults and any
word size. `ClockInv` is the argument that the numbers in `Load` are enough: until the body is read, what the write
deadline has lost is part of the read timeout; from then on it stays behind the RPC's by what is left of the
headroom. `RaisedFacts` shows that `Raised` establishes it when the sum does not wrap, and `GuardIsExact` says what the guard
does in every case: a positive write timeout becomes the larger of the two, unless the sum wraps and it stays as it was.

`StreamPathProofs` proves `TypeOK`, `OvertimeBounded`, `StreamMetrics` (`MetricsAgree`), `StreamAnswersHonest` (`StreamsAreHonest`) and the safety part of `RefinesContract`
(`ImplementsStreamContract`) for any number of streams and workers, any timeouts and any number of faults. `IInv` adds:

* `CallInv`: only an opened stream has a call, and it has the 200; Ollama works for running calls only.
* `ChunkInv`: what was delivered and what is on the wire is what was made, unless the status behind
  it is lost; an OK follows the regular end of Ollama's answer. So `done` means that nothing of it is missing.
* `OvertimeInv`: the overtime of a cancelled call and its timer add up to at most one timeout for each socket operation of its connect
  and of the chunk under way. A chunk starts the count of reads afresh, but not for a cancelled call, which leaves the loop there.
* `WireInv`: of what is on the wire only the last chunk of a complete generation carries tokens, so the token counters belong
  to generations received to their end. The step `Yield` keeps it because a chunk sent on a broken connection is not delivered.

`StreamsAreHonest` has two halves: `GatewayHonest` (the handler's own 400 and 504) and `BackendHonest` (Ollama works only for prompts
python-ai accepts, and nothing is on the wire for others).

`ReadinessProofs` proves all three invariants of `readiness` for any probe period, threshold and timers that satisfy the
module's assumptions. `RecoveryInv` follows a recovery backwards: each phase (an attempt, a back-off, an idle channel, a
connection not yet probed) has begun early enough for the rest of it, or the pod is in service and has only
failed the probes since its channel idled. `PhaseInv` bounds each phase; `StaleInv` counts a failed probe per period
once a loss is noticed.

`GatewayLifecycleProofs` proves all four invariants of `lifecycle` for any requests, configurations and grace
period. `ShutdownClock` says that what the grace period has lost main has spent in `Shutdown` or in the flush;
`RequestClock` that once the listener is closed nobody has longer to go than he had then, less the time since (where there is a read
timeout; `Covered` asks for one); `DrainInv` and
`SpanInv` draw the conclusions at each of main's deferred calls.

`BackendShutdownProofs` proves all four invariants of `backend_shutdown` for any calls, workers and times. `CallInv` says that
whoever waits has a place in the queue or a worker; `ShutdownClock` that the time since SIGTERM and what is left
of the grace period add up to it, and that a worker that is still busy started before the signal.

Both processes implement `GracefulStop` (`ImplementsGracefulStop` in each module): every action is mapped to one of the abstract
ones or to a stutter, for any tasks and any timeouts. The inductive invariants supply what the mapped steps need: in the
gateway, that main leaves `Shutdown` with requests in flight only when its timer has run out, and in python-ai, that calls are cancelled
only when the grace period has.

Every safety invariant of a passing run and the safety part of every refinement is stated by a theorem. Only model-checked are
`EveryRequestAnswered`, both `WorkersAlwaysRecovered`, `RequestsEnd`, `EventuallyInService` and the fairness the contracts of both
paths ask for: liveness is out of the prover's reach.

## 7. Mutants

Operators marked `Mutant` are plausible bugs of the definition after them, and `PROJECT.json` names
the property that must catch each. They appear in no specification.

## 8. Not modelled

* The autoscaler (`k8s/go-gateway-hpa.yaml`): parameters of Kubernetes' controller. What they do
  is decided by code that is not here.
* Ping strikes (`server.py:25-32`, `config.go:42-45`): two numbers handed to gRPC on both sides; counting strikes is gRPC's.
* `deploy.sh`: calls of kubectl, helm, kind, docker and uv, whose state is theirs, by a developer's hand. Its own state is two PID files.
* python-ai's spans: `provider.shutdown()` runs while calls still do (`server.py:86`), so that spans which end in the grace period are
  dropped. The docstring says so, and no property of `BackendShutdown` is about spans.
* The GPU exporter: one loop without shared state but the gauges of its client library.
* The settings of `Config` that are strings, integers and booleans; the pprof listener; `Check`; getters, descriptors and
  server stubs of the generated code; the routes without a handler of their own.
* Loading or training the iris classifier; building the exporters of the tracers.
* Dashboards and monitoring configuration, tests and CI: not part of the running system.
