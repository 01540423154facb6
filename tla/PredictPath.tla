------------------------------ MODULE PredictPath ------------------------------
(***************************************************************************)
(* The path of POST /predict/iris and POST /predict/model: the handler     *)
(* goroutine in go-gateway, the gRPC call, python-ai's bounded thread pool *)
(* in front of which calls queue, and the blocking HTTP call to Ollama.    *)
(*                                                                         *)
(* Three clocks run at once: the context deadline of each RPC (ttl), the   *)
(* httpx timer of each socket operation (otl), and the time a worker has   *)
(* been inside an Ollama call (held, an auxiliary variable).  Tick moves   *)
(* all of them; it never moves past a timer that has run out.              *)
(***************************************************************************)
EXTENDS ApiContract, Tally, Sequences

CONSTANTS
    IrisRequests,    \* HTTP requests to /predict/iris
    ModelRequests,   \* HTTP requests to /predict/model
    IrisBodies,      \* bodies an iris request may carry
    PromptBodies,    \* bodies a model request may carry
    TokenCounts,     \* values of eval_count Ollama may report
    MAX_WORKERS,     \* threads in python-ai's ThreadPoolExecutor
    IrisTimeout,     \* cfg.IrisTimeout, in ticks
    ModelTimeout,    \* cfg.ModelTimeout, in ticks
    OllamaTimeout,   \* timeout_sec of the Ollama client, in ticks
    Addresses,       \* addresses Ollama's host name resolves to
    MaxReads,        \* bound on the socket reads one answer of Ollama takes
    MaxFaults        \* bound on the crashes and broken connections of one behaviour

ASSUME RequestsAssumption ==
    /\ IsFiniteSet(IrisRequests)
    /\ IsFiniteSet(ModelRequests)
    /\ IrisRequests \cap ModelRequests = {}
ASSUME BodiesAssumption ==
    /\ IrisBodies \subseteq IrisBody
    /\ PromptBodies \subseteq PromptBody
    /\ TokenCounts \subseteq Nat
\* A zero timeout is legal configuration: the deadline has passed at once.
ASSUME ParametersAssumption ==
    /\ MAX_WORKERS \in Nat \ {0}
    /\ Addresses \in Nat \ {0}
    /\ MaxReads \in Nat \ {0}
    /\ IrisTimeout \in Nat
    /\ ModelTimeout \in Nat
    /\ OllamaTimeout \in Nat
    /\ MaxFaults \in Nat

Requests == IrisRequests \cup ModelRequests

VARIABLES
    \* go-gateway
    body,                  \* body[r]: what the client posted
    handler,               \* handler[r]: "new", "calling" or "answered"
    ttl,                   \* ttl[r]: time left on the RPC context, frozen by the answer
    answer,                \* answer[r]: HTTP status and machine-readable code
    HTTPRequestsTotal,     \* counter by path and status
    HTTPDuration,          \* observations by path
    GRPCRequestDuration,   \* observations by method and ok/error
    AITokensTotal,         \* counter
    AIGenerationDuration,  \* observations
    \* the gRPC call
    call,                  \* call[r]: "none", "sent", "queued", "running" or "ended"
    reply,                 \* reply[r]: the status on its way back to the gateway
    cancelled,             \* cancelled[r]: python-ai knows the gateway gave up on r
    \* python-ai
    up,                    \* the process is running
    connected,             \* the gateway's channel to it is READY
    faults,                \* crashes and broken connections so far
    queue,                 \* the executor's work queue, first in first out
    active_rpc_count,      \* the server's count against maximum_concurrent_rpcs
    ollama,                \* ollama[r]: "idle", "connect" or "read"
    otl,                   \* otl[r]: time left on the httpx timer
    ops,                   \* ops[r]: socket operations of its phase that are over
    held                   \* held[r]: ticks r's worker has spent in the Ollama call

metrics == <<HTTPRequestsTotal, HTTPDuration, GRPCRequestDuration, AITokensTotal, AIGenerationDuration>>
gateway == <<handler, ttl, answer, metrics>>
ollamaCall == <<ollama, otl, ops, held>>
backend == <<up, connected, faults, queue, active_rpc_count, ollamaCall>>
vars == <<body, gateway, call, reply, cancelled, backend>>

Paths == {"/predict/iris", "/predict/model"}
Methods == {"IrisPredict", "ModelPredict"}
Path(r) == IF r \in IrisRequests THEN "/predict/iris" ELSE "/predict/model"
Method(r) == IF r \in IrisRequests THEN "IrisPredict" ELSE "ModelPredict"

WellFormed(b) ==
    /\ \A r \in IrisRequests : b[r] \in IrisBodies
    /\ \A r \in ModelRequests : b[r] \in PromptBodies

Unanswered == [status |-> 0, code |-> "none"]
NoReply == [code |-> "none", tokens |-> 0]
Failure(code) == [code |-> code, tokens |-> 0]

InPool == {r \in Requests : call[r] \in {"queued", "running"}}
Running == {r \in Requests : call[r] = "running"}
InOllama == {r \in ModelRequests : ollama[r] # "idle"}

Init ==
    /\ body \in {b \in [Requests -> IrisBodies \cup PromptBodies] : WellFormed(b)}
    /\ handler = [r \in Requests |-> "new"]
    /\ ttl = [r \in Requests |-> 0]
    /\ answer = [r \in Requests |-> Unanswered]
    /\ HTTPRequestsTotal = [k \in Paths \X HTTPStatuses |-> 0]
    /\ HTTPDuration = [p \in Paths |-> 0]
    /\ GRPCRequestDuration = [k \in Methods \X {"ok", "error"} |-> 0]
    /\ AITokensTotal = 0
    /\ AIGenerationDuration = 0
    /\ call = [r \in Requests |-> "none"]
    /\ reply = [r \in Requests |-> NoReply]
    /\ cancelled = [r \in Requests |-> FALSE]
    /\ up = TRUE
    /\ connected = TRUE
    /\ faults = 0
    /\ queue = <<>>
    /\ active_rpc_count = 0
    /\ ollama = [r \in Requests |-> "idle"]
    /\ otl = [r \in Requests |-> 0]
    /\ ops = [r \in Requests |-> 0]
    /\ held = [r \in Requests |-> 0]

-----------------------------------------------------------------------------
(* go-gateway: one goroutine per request.                                  *)

\* c.JSON, the path's counter and the deferred latency observation.
Respond(r, a) ==
    /\ handler' = [handler EXCEPT ![r] = "answered"]
    /\ answer' = [answer EXCEPT ![r] = a]
    /\ HTTPRequestsTotal' = [HTTPRequestsTotal EXCEPT ![<<Path(r), a.status>>] = @ + 1]
    /\ HTTPDuration' = [HTTPDuration EXCEPT ![Path(r)] = @ + 1]

RejectInvalid(r) ==
    /\ handler[r] = "new"
    /\ Respond(r, ValidationError)
    /\ UNCHANGED <<body, ttl, GRPCRequestDuration, AITokensTotal, AIGenerationDuration,
                   call, reply, cancelled, backend>>

RejectIris(r) == ~IrisGatewayAccepts(body[r]) /\ RejectInvalid(r)

RejectModel(r) == ~ModelGatewayAccepts(body[r]) /\ RejectInvalid(r)

\* The handler blocks in the RPC, under a deadline on the request's context.
StartRPC(r, timeout) ==
    /\ handler[r] = "new"
    /\ handler' = [handler EXCEPT ![r] = "calling"]
    /\ ttl' = [ttl EXCEPT ![r] = timeout]
    /\ call' = [call EXCEPT ![r] = "sent"]
    /\ UNCHANGED <<body, answer, metrics, reply, cancelled, backend>>

ForwardIris(r) == IrisGatewayAccepts(body[r]) /\ StartRPC(r, IrisTimeout)

\* Mutant: context.WithCancel in place of WithTimeout, so that no deadline runs.
ForwardModelWithoutDeadline(r) == ModelGatewayAccepts(body[r]) /\ StartRPC(r, -1)

ForwardModel(r) == ModelGatewayAccepts(body[r]) /\ StartRPC(r, ModelTimeout)

ObserveRPC(r, code) ==
    GRPCRequestDuration' =
        [GRPCRequestDuration EXCEPT ![<<Method(r), IF code = "OK" THEN "ok" ELSE "error">>] = @ + 1]

\* Mutant: the error branch answers without counting the request.
IrisReturnsUncounted(r, rep) ==
    /\ ObserveRPC(r, rep.code)
    /\ IF rep.code = "OK"
       THEN Respond(r, Success)
       ELSE /\ handler' = [handler EXCEPT ![r] = "answered"]
            /\ answer' = [answer EXCEPT ![r] = APIErrorFromGRPC(rep.code)]
            /\ HTTPDuration' = [HTTPDuration EXCEPT ![Path(r)] = @ + 1]
            /\ UNCHANGED HTTPRequestsTotal
    /\ UNCHANGED <<AITokensTotal, AIGenerationDuration>>

IrisReturns(r, rep) ==
    /\ ObserveRPC(r, rep.code)
    /\ Respond(r, IF rep.code = "OK" THEN Success ELSE APIErrorFromGRPC(rep.code))
    /\ UNCHANGED <<AITokensTotal, AIGenerationDuration>>

\* Mutant: the "if err != nil" return is missing.
ModelReturnsIgnoringError(r, rep) ==
    /\ ObserveRPC(r, rep.code)
    /\ Respond(r, Success)
    /\ AITokensTotal' = AITokensTotal + rep.tokens
    /\ AIGenerationDuration' = AIGenerationDuration + (IF rep.tokens > 0 THEN 1 ELSE 0)

\* Failures carry no tokens.
ModelReturns(r, rep) ==
    /\ ObserveRPC(r, rep.code)
    /\ Respond(r, IF rep.code = "OK" THEN Success ELSE APIErrorFromGRPC(rep.code))
    /\ AITokensTotal' = AITokensTotal + rep.tokens
    /\ AIGenerationDuration' = AIGenerationDuration + (IF rep.tokens > 0 THEN 1 ELSE 0)

\* The RPC returns to the handler with the status rep.
Returns(r, rep) ==
    /\ handler[r] = "calling"
    /\ IF r \in IrisRequests THEN IrisReturns(r, rep) ELSE ModelReturns(r, rep)
    /\ UNCHANGED <<body, ttl, call, reply, cancelled, backend>>

ReplyArrives(r) == reply[r] # NoReply /\ Returns(r, reply[r])

\* The context deadline passes before a reply has been read.
DeadlineFires(r) == ttl[r] = 0 /\ Returns(r, Failure("DEADLINE_EXCEEDED"))

\* net/http cancels the request's context when the client's connection closes.
ClientDisconnects(r) == Returns(r, Failure("CANCELLED"))

-----------------------------------------------------------------------------
(* The gRPC channel and python-ai's server.                                *)

\* The server's answer travels back, unless the stream is closed: the handler is
\* done, or the client transport has already ended the call with a status.
Reply(r, rep) ==
    reply' = IF handler[r] = "calling" /\ reply[r] = NoReply THEN [reply EXCEPT ![r] = rep] ELSE reply

EndCall(r) == call' = [call EXCEPT ![r] = "ended"]

\* Mutant: grpc.server() without maximum_concurrent_rpcs.
AdmitUnlimited(r) ==
    /\ connected
    /\ call[r] = "sent"
    /\ call' = [call EXCEPT ![r] = "queued"]
    /\ queue' = Append(queue, r)
    /\ active_rpc_count' = active_rpc_count + 1
    /\ UNCHANGED <<body, gateway, reply, cancelled, up, connected, faults, ollamaCall>>

\* A call below maximum_concurrent_rpcs is submitted to the executor.
Admit(r) ==
    /\ connected
    /\ call[r] = "sent"
    /\ active_rpc_count < 2 * MAX_WORKERS
    /\ call' = [call EXCEPT ![r] = "queued"]
    /\ queue' = Append(queue, r)
    /\ active_rpc_count' = active_rpc_count + 1
    /\ UNCHANGED <<body, gateway, reply, cancelled, up, connected, faults, ollamaCall>>

Refuse(r) ==
    /\ connected
    /\ call[r] = "sent"
    /\ active_rpc_count >= 2 * MAX_WORKERS
    /\ Reply(r, Failure("RESOURCE_EXHAUSTED"))
    /\ EndCall(r)
    /\ UNCHANGED <<body, gateway, cancelled, backend>>

\* A call fails fast while the channel backs off, also when the backend is up again; while
\* it dials the call waits for the connection, up to its deadline.
FailFast(r) ==
    /\ ~connected
    /\ call[r] = "sent"
    /\ Reply(r, Failure("UNAVAILABLE"))
    /\ EndCall(r)
    /\ UNCHANGED <<body, gateway, cancelled, backend>>

\* The gateway gives up before the call has left it.
LoseCall(r) ==
    /\ handler[r] = "answered"
    /\ call[r] = "sent"
    /\ EndCall(r)
    /\ UNCHANGED <<body, gateway, reply, cancelled, backend>>

\* The cancellation (or the loss of the connection) reaches a call that still
\* waits for a thread. A unary call that runs never looks at it.
CancelArrives(r) ==
    /\ handler[r] = "answered" \/ reply[r] # NoReply
    /\ call[r] = "queued"
    /\ ~cancelled[r]
    /\ cancelled' = [cancelled EXCEPT ![r] = TRUE]
    /\ UNCHANGED <<body, gateway, call, reply, backend>>

IdleWorker == Cardinality(Running) < MAX_WORKERS

\* An idle worker takes the head of the work queue.
TakeWork(r) ==
    /\ queue # <<>>
    /\ r = Head(queue)
    /\ IdleWorker
    /\ queue' = Tail(queue)

\* A worker drops a call whose cancellation is known.
SkipCancelled(r) ==
    /\ cancelled[r]
    /\ TakeWork(r)
    /\ EndCall(r)
    /\ active_rpc_count' = active_rpc_count - 1
    /\ UNCHANGED <<body, gateway, reply, cancelled, up, connected, faults, ollamaCall>>

\* The worker leaves the call: its status goes out and it is no longer counted.
LeaveCall(r, rep) ==
    /\ Reply(r, rep)
    /\ EndCall(r)
    /\ active_rpc_count' = active_rpc_count - 1
    /\ ollama' = [ollama EXCEPT ![r] = "idle"]
    /\ otl' = [otl EXCEPT ![r] = 0]
    /\ ops' = [ops EXCEPT ![r] = 0]
    /\ held' = [held EXCEPT ![r] = 0]
    /\ UNCHANGED <<body, gateway, cancelled, up, connected, faults>>

StartIris(r) ==
    /\ r \in IrisRequests
    /\ ~cancelled[r]
    /\ TakeWork(r)
    /\ call' = [call EXCEPT ![r] = "running"]
    /\ UNCHANGED <<body, gateway, reply, cancelled, up, connected, faults, active_rpc_count, ollamaCall>>

\* INTERNAL when predict() or the class-name lookup raises.
IrisOutcomes(b) ==
    IF IrisBackendAccepts(b) THEN {[code |-> "OK", tokens |-> 0], Failure("INTERNAL")}
                             ELSE {Failure("INVALID_ARGUMENT")}

IrisFinishes(r) ==
    /\ r \in IrisRequests
    /\ call[r] = "running"
    /\ \E rep \in IrisOutcomes(body[r]) : LeaveCall(r, rep)
    /\ UNCHANGED queue

RefusePrompt(r) ==
    /\ r \in ModelRequests
    /\ ~cancelled[r]
    /\ TakeWork(r)
    /\ ~ModelBackendAccepts(body[r])
    /\ LeaveCall(r, Failure("INVALID_ARGUMENT"))

\* generate() under the given timer; a pooled connection needs no connect.
Generate(r, timeout) ==
    /\ r \in ModelRequests
    /\ ~cancelled[r]
    /\ TakeWork(r)
    /\ ModelBackendAccepts(body[r])
    /\ call' = [call EXCEPT ![r] = "running"]
    /\ \E phase \in {"connect", "read"} : ollama' = [ollama EXCEPT ![r] = phase]
    /\ otl' = [otl EXCEPT ![r] = timeout]
    /\ UNCHANGED <<body, gateway, reply, cancelled, up, connected, faults, active_rpc_count, ops, held>>

\* Mutant: ollama.Client(host) without a timeout, which is httpx's None.
StartModelWithoutTimeout(r) == Generate(r, -1)

StartModel(r) == Generate(r, OllamaTimeout)

-----------------------------------------------------------------------------
(* Ollama, as httpx and the ollama client show it to ModelPredict.         *)

Waits == <<body, gateway, call, reply, cancelled, up, connected, faults, queue, active_rpc_count, held>>

\* httpx applies a scalar timeout to each socket operation: the timer starts afresh.
NextOperation(r, phase, n) ==
    /\ ollama' = [ollama EXCEPT ![r] = phase]
    /\ ops' = [ops EXCEPT ![r] = n]
    /\ otl' = [otl EXCEPT ![r] = OllamaTimeout]
    /\ UNCHANGED Waits

LastAddress(r) == ops[r] + 1 = Addresses

\* An address refuses or does not answer: the next one is tried.
OllamaNextAddress(r) ==
    /\ ollama[r] = "connect"
    /\ ~LastAddress(r)
    /\ NextOperation(r, "connect", ops[r] + 1)

OllamaConnected(r) == ollama[r] = "connect" /\ NextOperation(r, "read", 0)

\* A part of the answer, its head or a piece of its body.
OllamaSendsPart(r) ==
    /\ ollama[r] = "read"
    /\ ops[r] + 1 < MaxReads
    /\ NextOperation(r, "read", ops[r] + 1)

\* The last of it.
OllamaAnswers(r) ==
    /\ ollama[r] = "read"
    /\ \E n \in TokenCounts : LeaveCall(r, [code |-> "OK", tokens |-> n])
    /\ UNCHANGED queue

\* Mutant: a failed call is tried again.
OllamaRefusesRetried(r) ==
    /\ ollama[r] = "connect"
    /\ LastAddress(r)
    /\ NextOperation(r, "connect", 0)

OllamaRefuses(r) ==
    /\ ollama[r] = "connect"
    /\ LastAddress(r)
    /\ LeaveCall(r, Failure(SetOllamaError("ConnectionError")))
    /\ UNCHANGED queue

\* The connection breaks, Ollama answers with an error, or with nonsense.
OllamaFails(r) ==
    /\ ollama[r] = "read"
    /\ \E e \in {"ReadError", "ResponseError", "ValidationError"} :
          LeaveCall(r, Failure(SetOllamaError(e)))
    /\ UNCHANGED queue

OllamaTimesOut(r) ==
    /\ ollama[r] = "read" \/ (ollama[r] = "connect" /\ LastAddress(r))
    /\ otl[r] = 0
    /\ LeaveCall(r, Failure(SetOllamaError("TimeoutException")))
    /\ UNCHANGED queue

-----------------------------------------------------------------------------
(* The environment: time, and crashes of python-ai.                        *)

Calling == {r \in Requests : handler[r] = "calling"}

\* A timer of -1 (mutants only) is switched off.
CountDown(timer, S) == [r \in Requests |-> IF r \in S /\ timer[r] > 0 THEN timer[r] - 1 ELSE timer[r]]

Tick ==
    /\ Calling \cup InOllama # {}
    /\ \A r \in Calling : ttl[r] # 0
    /\ \A r \in InOllama : otl[r] # 0
    /\ ttl' = CountDown(ttl, Calling)
    /\ otl' = CountDown(otl, InOllama)
    /\ held' = [r \in Requests |-> IF r \in InOllama /\ otl[r] > 0 THEN held[r] + 1 ELSE held[r]]
    /\ UNCHANGED <<body, handler, answer, metrics, call, reply, cancelled, up, connected, faults, queue,
                   active_rpc_count, ollama, ops>>

\* The connection is gone: the gateway sees UNAVAILABLE for the calls in the
\* pool, and for the replies still on the wire that are lost with it.
LoseConnection ==
    /\ up
    /\ faults < MaxFaults
    /\ faults' = faults + 1
    /\ connected' = FALSE
    /\ \E lost \in SUBSET {r \in Calling : reply[r] # NoReply} :
          reply' = [r \in Requests |->
                       IF r \in lost \cup (InPool \cap Calling) THEN Failure("UNAVAILABLE") ELSE reply[r]]

\* python-ai lives on and works for nobody.
ConnectionBreaks ==
    /\ connected
    /\ LoseConnection
    /\ UNCHANGED <<body, gateway, call, cancelled, up, queue, active_rpc_count, ollamaCall>>

\* Every call in the process dies with it.
Crash ==
    /\ LoseConnection
    /\ up' = FALSE
    /\ call' = [r \in Requests |-> IF r \in InPool THEN "ended" ELSE call[r]]
    /\ queue' = <<>>
    /\ active_rpc_count' = 0
    /\ ollama' = [r \in Requests |-> "idle"]
    /\ otl' = [r \in Requests |-> 0]
    /\ ops' = [r \in Requests |-> 0]
    /\ held' = [r \in Requests |-> 0]
    /\ UNCHANGED <<body, gateway, cancelled>>

Restart == ~up /\ up' = TRUE /\ UNCHANGED <<body, gateway, call, reply, cancelled, connected, faults, queue,
                                            active_rpc_count, ollamaCall>>

\* The channel's next attempt succeeds.
Reconnect ==
    /\ up
    /\ ~connected
    /\ connected' = TRUE
    /\ UNCHANGED <<body, gateway, call, reply, cancelled, up, faults, queue, active_rpc_count, ollamaCall>>

Terminated ==
    /\ \A r \in Requests : handler[r] = "answered" /\ call[r] \in {"none", "ended"}
    /\ up
    /\ UNCHANGED vars

IrisStep(r) == RejectIris(r) \/ ForwardIris(r)
ModelStep(r) == RejectModel(r) \/ ForwardModel(r)
HandlerStep(r) == ReplyArrives(r) \/ DeadlineFires(r) \/ ClientDisconnects(r)
ChannelStep(r) == Admit(r) \/ Refuse(r) \/ FailFast(r) \/ LoseCall(r) \/ CancelArrives(r)
WorkerStart(r) == SkipCancelled(r) \/ StartIris(r) \/ RefusePrompt(r) \/ StartModel(r)
OllamaStep(r) == OllamaNextAddress(r) \/ OllamaConnected(r) \/ OllamaSendsPart(r) \/ OllamaAnswers(r)
                 \/ OllamaRefuses(r) \/ OllamaFails(r) \/ OllamaTimesOut(r)

Next ==
    \/ \E r \in IrisRequests : IrisStep(r) \/ IrisFinishes(r)
    \/ \E r \in ModelRequests : ModelStep(r) \/ OllamaStep(r)
    \/ \E r \in Requests : HandlerStep(r) \/ ChannelStep(r) \/ WorkerStart(r)
    \/ Tick
    \/ ConnectionBreaks
    \/ Crash
    \/ Restart
    \/ Reconnect
    \/ Terminated

\* Timers run and expire, an idle worker takes queued work and a classification
\* ends. Nothing is assumed of clients, of Ollama, of the network or of a restart.
Fairness ==
    /\ WF_vars(Tick)
    /\ \A r \in Requests :
          /\ WF_vars(DeadlineFires(r))
          /\ WF_vars(WorkerStart(r))
          /\ WF_vars(IrisFinishes(r))
          /\ WF_vars(otl[r] = 0 /\ (OllamaNextAddress(r) \/ OllamaTimesOut(r)))

Spec == Init /\ [][Next]_vars /\ Fairness

-----------------------------------------------------------------------------
(* Properties.                                                             *)

Replies == {NoReply, [code |-> "OK", tokens |-> 0]}
           \cup {[code |-> "OK", tokens |-> n] : n \in TokenCounts}
           \cup {Failure(c) : c \in GRPCErrors}

\* The type invariant.
TypeOK ==
    /\ body \in [Requests -> IrisBodies \cup PromptBodies] /\ WellFormed(body)
    /\ handler \in [Requests -> {"new", "calling", "answered"}]
    /\ ttl \in [Requests -> Nat]
    /\ answer \in [Requests -> Answers \cup {Unanswered}]
    /\ HTTPRequestsTotal \in [Paths \X HTTPStatuses -> Nat]
    /\ HTTPDuration \in [Paths -> Nat]
    /\ GRPCRequestDuration \in [Methods \X {"ok", "error"} -> Nat]
    /\ AITokensTotal \in Nat
    /\ AIGenerationDuration \in Nat
    /\ call \in [Requests -> {"none", "sent", "queued", "running", "ended"}]
    /\ reply \in [Requests -> Replies]
    /\ cancelled \in [Requests -> BOOLEAN]
    /\ up \in BOOLEAN
    /\ connected \in BOOLEAN
    /\ faults \in 0..MaxFaults
    /\ queue \in Seq(Requests)
    /\ active_rpc_count \in Nat
    /\ ollama \in [Requests -> {"idle", "connect", "read"}]
    /\ otl \in [Requests -> Nat]
    /\ ops \in [Requests -> Nat]
    /\ held \in [Requests -> Nat]

\* server.py's two limits hold, whatever is cancelled, abandoned or crashes: at
\* most MAX_WORKERS calls run, at most 2 * MAX_WORKERS are queued or run, and the
\* count the limit is enforced with never drifts from the calls it stands for.
PoolBounded ==
    /\ Cardinality(Running) <= MAX_WORKERS
    /\ Cardinality(InPool) <= 2 * MAX_WORKERS
    /\ active_rpc_count = Cardinality(InPool)
    /\ Len(queue) = Cardinality(InPool \ Running)

AnsweredWith(p, s) == {r \in Requests : Path(r) = p /\ answer[r].status = s}
Answered(p) == {r \in Requests : Path(r) = p /\ handler[r] = "answered"}
ReturnedOK(m) == {r \in Requests : Method(r) = m /\ answer[r] = Success}
ReturnedError(m) ==
    {r \in Requests : Method(r) = m /\ handler[r] = "answered" /\ call[r] # "none" /\ answer[r] # Success}
Succeeded == {r \in ModelRequests : answer[r] = Success}

\* Each finished request is counted exactly once, under the path and status it was
\* answered with, and timed once; each RPC that returned is observed once, as what it
\* was; every token of a successful reply is counted, and no token of any other.
MetricsAccountForEveryAnswer ==
    /\ \A p \in Paths, s \in HTTPStatuses : HTTPRequestsTotal[<<p, s>>] = Cardinality(AnsweredWith(p, s))
    /\ \A p \in Paths : HTTPDuration[p] = Cardinality(Answered(p))
    /\ \A m \in Methods : /\ GRPCRequestDuration[<<m, "ok">>] = Cardinality(ReturnedOK(m))
                          /\ GRPCRequestDuration[<<m, "error">>] = Cardinality(ReturnedError(m))
    /\ AIGenerationDuration = Cardinality({r \in Succeeded : reply[r].tokens > 0})
    /\ AITokensTotal = Total(Succeeded, [r \in ModelRequests |-> reply[r].tokens])

\* The bodies the API documents as legal.
Legal(r) ==
    IF r \in IrisRequests
    THEN /\ body[r].json
         /\ \A n \in FeatureNames :
               LET f == body[r].features[n] IN f.kind = "num" /\ f.cm \in 0..50
    ELSE body[r].json /\ body[r].runes \in 1..MaxPromptLen /\ ~body[r].blank

\* A 400 always means the client's own body was at fault, whichever side of the
\* gRPC boundary noticed, and iris requests get theirs from the gateway alone:
\* python-ai's repeated range check never contradicts the gateway's.
Status400Honest ==
    \A r \in Requests : answer[r].status = 400 =>
        ~Legal(r) /\ (r \in IrisRequests => call[r] = "none")

\* A 200 is only given for a legal body, and for an inference that python-ai completed:
\* no white-space prompt, no measurement out of range and no failed or lost reply is
\* ever answered as a success, whatever races the reply.
Status200Honest ==
    \A r \in Requests : answer[r].status = 200 => Legal(r) /\ reply[r].code = "OK"

\* A 504 means time really ran out: the request's own deadline passed, or its
\* caller had waited for at least a whole Ollama timeout.
TimeoutHonest ==
    \A r \in Requests : answer[r].status = 504 =>
        \/ ttl[r] = 0
        \/ r \in ModelRequests /\ ModelTimeout - ttl[r] >= OllamaTimeout

\* What n socket operations may take.
TimeFor(n) == n * OllamaTimeout

\* A call holds its worker no longer than one timeout for each address that is tried and
\* for each read its answer takes: no operation is repeated or goes without a timer,
\* however slowly Ollama sends. (The answer's size, which num_predict limits, bounds its reads.)
WorkerHeldBounded == \A r \in InOllama : call[r] = "running" /\ held[r] <= TimeFor(Addresses + MaxReads)

\* Every request the gateway took up is answered: a lost reply, a crashed backend
\* or a hung Ollama never leaves a handler waiting.
EveryRequestAnswered ==
    \A r \in Requests : handler[r] = "calling" ~> handler[r] = "answered"

\* A hung Ollama never pins a worker, nor starves the calls queued behind it.
WorkersAlwaysRecovered == \A r \in Requests : r \in InPool ~> r \notin InPool

\* What the client is promised, in PredictContract.
Contract == INSTANCE PredictContract WITH
    stage <- [r \in Requests |-> IF handler[r] = "calling" THEN "pending" ELSE handler[r]],
    accepted <- [r \in Requests |-> call[r] # "none"],
    served <- [r \in Requests |-> reply[r].code = "OK"],
    status <- [r \in Requests |-> answer[r].status]

\* The path keeps that promise, liveness included.
RefinesContract == Contract!Spec

\* .env.example: with the Ollama timeout below MODEL_TIMEOUT, worker threads are
\* released when the gateway has given up. At the very least that holds of a call
\* a worker took up the moment it was made (held has grown as ttl has shrunk).
WorkerReleasedWhenGatewayGivesUp ==
    OllamaTimeout < ModelTimeout =>
        \A r \in InOllama : answer[r].status = 504 /\ ttl[r] = 0 => held[r] < ModelTimeout

\* ollama_predictor.py: connection errors must not become INTERNAL.
ConnectionErrorIsNotInternal ==
    [][\A r \in ModelRequests : OllamaRefuses(r) => reply'[r].code # "INTERNAL"]_vars

-----------------------------------------------------------------------------
(* What makes the properties inductive (PredictPathProofs).                *)

Queued == {r \in Requests : call[r] = "queued"}

\* The work queue lists the queued calls, each once, and the count is theirs and
\* the running calls'.
PoolInv ==
    /\ \A i \in 1..Len(queue) : call[queue[i]] = "queued"
    /\ \A i, j \in 1..Len(queue) : queue[i] = queue[j] => i = j
    /\ Len(queue) = Cardinality(Queued)
    /\ active_rpc_count = Cardinality(InPool)
    /\ active_rpc_count <= 2 * MAX_WORKERS
    /\ Cardinality(Running) <= MAX_WORKERS

GatewayAccepts(r) ==
    IF r \in IrisRequests THEN IrisGatewayAccepts(body[r]) ELSE ModelGatewayAccepts(body[r])

\* Only an accepted body becomes a call; a reply or an answer needs one.
ProtocolInv ==
    \A r \in Requests :
        /\ call[r] = "none" => handler[r] # "calling" /\ reply[r] = NoReply
        /\ call[r] # "none" => handler[r] # "new" /\ GatewayAccepts(r)
        /\ answer[r] = Unanswered <=> handler[r] # "answered"
        /\ reply[r].code = "INVALID_ARGUMENT" => r \in ModelRequests /\ body[r].blank
        /\ answer[r].status = 400 => \/ call[r] = "none" /\ ~GatewayAccepts(r)
                                     \/ r \in ModelRequests /\ body[r].blank

\* The httpx timer and the time in the call add up to the operations so far; no reply says that Ollama
\* timed out before a whole timeout has been spent of the gateway's deadline.
OllamaClock(r) ==
    /\ ollama[r] # "idle" <=> call[r] = "running"
    /\ ollama[r] = "idle" => held[r] = 0 /\ ops[r] = 0
    /\ ollama[r] # "idle" => otl[r] <= OllamaTimeout /\ OllamaTimeout <= held[r] + otl[r]
    /\ ollama[r] = "connect" => ops[r] < Addresses /\ held[r] + otl[r] <= TimeFor(ops[r] + 1)
    /\ ollama[r] = "read" => ops[r] < MaxReads /\ held[r] + otl[r] <= TimeFor(Addresses + ops[r] + 1)
    /\ handler[r] = "calling" => ttl[r] + held[r] <= ModelTimeout
    /\ reply[r].code = "DEADLINE_EXCEEDED" => ttl[r] + OllamaTimeout <= ModelTimeout

ClockInv ==
    /\ \A r \in IrisRequests : ollama[r] = "idle" /\ reply[r].code # "DEADLINE_EXCEEDED"
    /\ \A r \in ModelRequests : OllamaClock(r)

IInv == TypeOK /\ PoolInv /\ ProtocolInv /\ ClockInv /\ TimeoutHonest

\* A result needs a prompt python-ai accepts, and a 200 the result.
ResultInv ==
    /\ \A r \in ModelRequests :
          call[r] = "running" \/ reply[r].code = "OK" => ModelBackendAccepts(body[r])
    /\ \A r \in Requests : answer[r].status = 200 => reply[r].code = "OK"
=============================================================================
