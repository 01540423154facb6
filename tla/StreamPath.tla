------------------------------- MODULE StreamPath -------------------------------
(***************************************************************************)
(* The path of POST /predict/model/stream: the handler goroutine that      *)
(* creates a gRPC stream, commits a 200 and forwards chunks as SSE events; *)
(* the chunks and the trailing status on the wire; the worker thread of    *)
(* python-ai that consumes Ollama's stream and looks at the cancellation   *)
(* only between chunks.                                                    *)
(***************************************************************************)
EXTENDS ApiContract, Tally, Sequences

CONSTANTS
    Streams,         \* HTTP requests to /predict/model/stream
    PromptBodies,    \* bodies a request may carry
    TokenCounts,     \* values of eval_count in Ollama's final chunk
    NumPredict,      \* options.num_predict, bounds the chunks before the final one
    MAX_WORKERS,     \* threads in python-ai's ThreadPoolExecutor
    ModelTimeout,    \* cfg.ModelTimeout, in ticks
    OllamaTimeout,   \* timeout_sec of the Ollama client, in ticks
    Addresses,       \* addresses Ollama's host name resolves to
    MaxReads,        \* bound on the socket reads one chunk of Ollama takes
    MaxFaults        \* bound on the crashes and broken connections of one behaviour

ASSUME StreamsAssumption == IsFiniteSet(Streams)
ASSUME DataAssumption == PromptBodies \subseteq PromptBody /\ TokenCounts \subseteq Nat
ASSUME ParametersAssumption ==
    /\ {MAX_WORKERS, Addresses, MaxReads} \subseteq Nat \ {0}
    /\ {NumPredict, ModelTimeout, OllamaTimeout, MaxFaults} \subseteq Nat

VARIABLES
    \* go-gateway
    body,                  \* body[s]: what the client posted
    handler,               \* handler[s]: "new", "opening", "loop", "recv" or "finished"
    ttl,                   \* ttl[s]: time left on the RPC context
    gone,                  \* gone[s]: the client has closed its connection
    status,                \* status[s]: the committed HTTP status
    events,                \* events[s]: message events written
    terminal,              \* terminal[s]: the last event, "none", "done" or "error"
    HTTPRequestsTotal,     \* counter by status
    HTTPDuration,          \* observations
    GRPCRequestDuration,   \* observations by ok/error
    AITokensTotal,         \* counter
    AIGenerationDuration,  \* observations
    \* the gRPC stream
    call,                  \* call[s]: "none", "sent", "running" or "ended"
    wire,                  \* wire[s]: eval_counts of the chunks under way to the gateway
    trailer,               \* trailer[s]: the status behind them, "none", "OK" or "failed"
    cancelled,             \* cancelled[s]: python-ai knows that the call is over
    \* python-ai
    up,                    \* the process is running
    connected,             \* the gateway's channel to it is READY
    faults,                \* crashes and broken connections so far
    ollama,                \* ollama[s]: "idle", "connect" or "read"
    otl,                   \* otl[s]: time left on the httpx timer
    ops,                   \* ops[s]: socket operations over, of the connect or of this chunk
    made,                  \* made[s]: chunks sent so far
    final,                 \* final[s]: eval_count of the final chunk sent
    ended,                 \* ended[s]: Ollama's answer has come to its regular end (auxiliary)
    overtime               \* overtime[s]: ticks the worker has spent on a cancelled call

client == <<gone, status, events, terminal>>
metrics == <<HTTPRequestsTotal, HTTPDuration, GRPCRequestDuration, AITokensTotal, AIGenerationDuration>>
gateway == <<handler, ttl, client, metrics>>
rpc == <<call, wire, trailer, cancelled>>
generation == <<made, final, ended>>
backend == <<up, connected, faults, ollama, otl, ops, generation, overtime>>
vars == <<body, gateway, rpc, backend>>

NoFinal == -1
Open == {s \in Streams : handler[s] \in {"loop", "recv"}}
Calling == {s \in Streams : handler[s] = "opening"} \cup Open
InOllama == {s \in Streams : ollama[s] # "idle"}

Init ==
    /\ body \in [Streams -> PromptBodies]
    /\ handler = [s \in Streams |-> "new"]
    /\ ttl = [s \in Streams |-> 0]
    /\ gone = [s \in Streams |-> FALSE]
    /\ status = [s \in Streams |-> 0]
    /\ events = [s \in Streams |-> 0]
    /\ terminal = [s \in Streams |-> "none"]
    /\ HTTPRequestsTotal = [st \in HTTPStatuses |-> 0]
    /\ HTTPDuration = 0
    /\ GRPCRequestDuration = [k \in {"ok", "error"} |-> 0]
    /\ AITokensTotal = 0
    /\ AIGenerationDuration = 0
    /\ call = [s \in Streams |-> "none"]
    /\ wire = [s \in Streams |-> <<>>]
    /\ trailer = [s \in Streams |-> "none"]
    /\ cancelled = [s \in Streams |-> FALSE]
    /\ up = TRUE
    /\ connected = TRUE
    /\ faults = 0
    /\ ollama = [s \in Streams |-> "idle"]
    /\ otl = [s \in Streams |-> 0]
    /\ ops = [s \in Streams |-> 0]
    /\ made = [s \in Streams |-> 0]
    /\ final = [s \in Streams |-> NoFinal]
    /\ ended = [s \in Streams |-> FALSE]
    /\ overtime = [s \in Streams |-> 0]

-----------------------------------------------------------------------------
(* go-gateway: PredictStream.                                              *)

\* The handler returns: cancel() and the latency observation are deferred.
Finish(s) ==
    /\ handler' = [handler EXCEPT ![s] = "finished"]
    /\ HTTPDuration' = HTTPDuration + 1

\* The status goes out with the headers, and is counted.
Commit(s, st) ==
    /\ status' = [status EXCEPT ![s] = st]
    /\ HTTPRequestsTotal' = [HTTPRequestsTotal EXCEPT ![st] = @ + 1]

Reject(s) ==
    /\ handler[s] = "new"
    /\ ~ModelGatewayAccepts(body[s])
    /\ Commit(s, ValidationError.status)
    /\ Finish(s)
    /\ UNCHANGED <<body, ttl, gone, events, terminal, GRPCRequestDuration, AITokensTotal,
                   AIGenerationDuration, rpc, backend>>

CallStream(s, timeout) ==
    /\ handler[s] = "new"
    /\ ModelGatewayAccepts(body[s])
    /\ handler' = [handler EXCEPT ![s] = "opening"]
    /\ ttl' = [ttl EXCEPT ![s] = timeout]
    /\ UNCHANGED <<body, client, metrics, rpc, backend>>

\* Mutant: context.WithCancel in place of WithTimeout.
StartStreamWithoutDeadline(s) == CallStream(s, -1)

StartStream(s) == CallStream(s, ModelTimeout)

\* NewStream, SendMsg and CloseSend succeed on a connected channel, whatever the
\* server will make of the call: the 200 is committed and counted now.
StreamOpens(s) ==
    /\ handler[s] = "opening"
    /\ connected
    /\ handler' = [handler EXCEPT ![s] = "loop"]
    /\ Commit(s, Success.status)
    /\ GRPCRequestDuration' = [GRPCRequestDuration EXCEPT !["ok"] = @ + 1]
    /\ call' = [call EXCEPT ![s] = "sent"]
    /\ UNCHANGED <<body, ttl, gone, events, terminal, HTTPDuration, AITokensTotal,
                   AIGenerationDuration, wire, trailer, cancelled, backend>>

\* UNAVAILABLE while the channel backs off, even when python-ai is up again.
CreationErrors(s) ==
    (IF connected THEN {} ELSE {"UNAVAILABLE"})
    \cup (IF ttl[s] = 0 THEN {"DEADLINE_EXCEEDED"} ELSE {})
    \cup (IF gone[s] THEN {"CANCELLED"} ELSE {})

\* Mutant: writeGRPCError answers without counting.
StreamFailsUncounted(s) ==
    /\ handler[s] = "opening"
    /\ \E code \in CreationErrors(s) : status' = [status EXCEPT ![s] = APIErrorFromGRPC(code).status]
    /\ Finish(s)
    /\ GRPCRequestDuration' = [GRPCRequestDuration EXCEPT !["error"] = @ + 1]
    /\ UNCHANGED <<body, ttl, gone, events, terminal, HTTPRequestsTotal, AITokensTotal,
                   AIGenerationDuration, rpc, backend>>

StreamFails(s) ==
    /\ handler[s] = "opening"
    /\ \E code \in CreationErrors(s) : Commit(s, APIErrorFromGRPC(code).status)
    /\ Finish(s)
    /\ GRPCRequestDuration' = [GRPCRequestDuration EXCEPT !["error"] = @ + 1]
    /\ UNCHANGED <<body, ttl, gone, events, terminal, AITokensTotal, AIGenerationDuration, rpc, backend>>

\* c.Stream looks for a closed client connection before each Recv.
LoopTop(s) ==
    /\ handler[s] = "loop"
    /\ IF gone[s] THEN Finish(s)
                  ELSE handler' = [handler EXCEPT ![s] = "recv"] /\ UNCHANGED HTTPDuration
    /\ UNCHANGED <<body, ttl, client, HTTPRequestsTotal, GRPCRequestDuration, AITokensTotal,
                   AIGenerationDuration, rpc, backend>>

RecvChunk(s) ==
    /\ handler[s] = "recv"
    /\ wire[s] # <<>>
    /\ wire' = [wire EXCEPT ![s] = Tail(@)]
    /\ AITokensTotal' = AITokensTotal + Head(wire[s])
    /\ AIGenerationDuration' = AIGenerationDuration + (IF Head(wire[s]) > 0 THEN 1 ELSE 0)
    /\ events' = [events EXCEPT ![s] = @ + 1]
    /\ handler' = [handler EXCEPT ![s] = "loop"]
    /\ UNCHANGED <<body, ttl, gone, status, terminal, HTTPRequestsTotal, HTTPDuration,
                   GRPCRequestDuration, call, trailer, cancelled, backend>>

LastEvent(s, event) ==
    /\ handler[s] = "recv"
    /\ terminal' = [terminal EXCEPT ![s] = event]
    /\ Finish(s)
    /\ UNCHANGED <<body, ttl, gone, status, events, HTTPRequestsTotal, GRPCRequestDuration,
                   AITokensTotal, AIGenerationDuration, rpc, backend>>

RecvEOF(s) == wire[s] = <<>> /\ trailer[s] = "OK" /\ LastEvent(s, "done")

\* A failed status behind the chunks, or the context is over: it may overtake them.
RecvError(s) ==
    /\ (wire[s] = <<>> /\ trailer[s] = "failed") \/ ttl[s] = 0 \/ gone[s]
    /\ LastEvent(s, "error")

\* net/http closes CloseNotify's channel and cancels the request's context.
ClientLeaves(s) ==
    /\ s \in Calling
    /\ ~gone[s]
    /\ gone' = [gone EXCEPT ![s] = TRUE]
    /\ UNCHANGED <<body, handler, ttl, status, events, terminal, metrics, rpc, backend>>

-----------------------------------------------------------------------------
(* python-ai: ModelPredictStream in a worker thread.                       *)

EndCall(s, t) ==
    /\ call' = [call EXCEPT ![s] = "ended"]
    /\ trailer' = IF cancelled[s] \/ trailer[s] # "none" THEN trailer ELSE [trailer EXCEPT ![s] = t]

\* RESOURCE_EXHAUSTED: the places of the pool are taken by other requests.
Refuse(s) ==
    /\ up
    /\ call[s] = "sent"
    /\ EndCall(s, "failed")
    /\ UNCHANGED <<body, gateway, wire, cancelled, backend>>

\* The end of the call becomes known to the server: its own copy of the deadline,
\* a reset stream, or the end of the connection.
CancelArrives(s) ==
    /\ call[s] \in {"sent", "running"}
    /\ ~cancelled[s]
    /\ handler[s] = "finished" \/ ttl[s] = 0 \/ gone[s] \/ trailer[s] = "failed"
    /\ cancelled' = [cancelled EXCEPT ![s] = TRUE]
    /\ UNCHANGED <<body, gateway, call, wire, trailer, backend>>

DropCancelled(s) ==
    /\ call[s] = "sent"
    /\ cancelled[s]
    /\ EndCall(s, "failed")
    /\ UNCHANGED <<body, gateway, wire, cancelled, backend>>

\* generate(stream=True) only prepares the call: Ollama is contacted when the loop
\* asks for the first chunk, so that every failure of it is raised inside the loop.
Generate(s, timeout, refusal) ==
    /\ up
    /\ call[s] = "sent"
    /\ ~cancelled[s]
    /\ Cardinality({r \in Streams : call[r] = "running"}) < MAX_WORKERS
    /\ IF ModelBackendAccepts(body[s])
       THEN /\ call' = [call EXCEPT ![s] = "running"]
            /\ \E phase \in {"connect", "read"} : ollama' = [ollama EXCEPT ![s] = phase]
            /\ otl' = [otl EXCEPT ![s] = timeout]
            /\ UNCHANGED trailer
       ELSE EndCall(s, refusal) /\ UNCHANGED <<ollama, otl>>
    /\ UNCHANGED <<body, gateway, wire, cancelled, up, connected, faults, ops, generation, overtime>>

\* Mutant: the Ollama client has no timeout.
TakeCallWithoutTimeout(s) == Generate(s, -1, "failed")

\* Mutant: a blank prompt returns from the generator without set_code.
TakeCallRefusingSilently(s) == Generate(s, OllamaTimeout, "OK")

TakeCall(s) == Generate(s, OllamaTimeout, "failed")

\* The generator returns, and with it the worker.
Leave(s, t) ==
    /\ EndCall(s, t)
    /\ ollama' = [ollama EXCEPT ![s] = "idle"]
    /\ otl' = [otl EXCEPT ![s] = 0]
    /\ ops' = [ops EXCEPT ![s] = 0]
    /\ overtime' = [overtime EXCEPT ![s] = 0]
    /\ UNCHANGED <<body, gateway, wire, cancelled, up, connected, faults, made, final>>

Returns(s, t) == Leave(s, t) /\ UNCHANGED ended

-----------------------------------------------------------------------------
(* Ollama, as httpx and the ollama client show it to ModelPredictStream.   *)

\* httpx applies a scalar timeout to each socket operation: the timer starts afresh.
NextOperation(s, phase, n) ==
    /\ ollama' = [ollama EXCEPT ![s] = phase]
    /\ ops' = [ops EXCEPT ![s] = n]
    /\ otl' = [otl EXCEPT ![s] = OllamaTimeout]
    /\ UNCHANGED <<body, gateway, call, trailer, cancelled, up, connected, faults, ended, overtime>>

\* The operation under way is one whose failure is the call's.
Decisive(s) == ollama[s] = "read" \/ (ollama[s] = "connect" /\ ops[s] + 1 = Addresses)

\* An address refuses or does not answer: the next one is tried.
OllamaNextAddress(s) ==
    /\ ollama[s] = "connect"
    /\ ~Decisive(s)
    /\ NextOperation(s, "connect", ops[s] + 1)
    /\ UNCHANGED <<wire, made, final>>

OllamaConnected(s) ==
    /\ ollama[s] = "connect"
    /\ NextOperation(s, "read", 0)
    /\ UNCHANGED <<wire, made, final>>

\* The head of the answer, or less than a whole line of its body.
OllamaSendsPart(s) ==
    /\ ollama[s] = "read"
    /\ ops[s] + 1 < MaxReads
    /\ NextOperation(s, "read", ops[s] + 1)
    /\ UNCHANGED <<wire, made, final>>

\* A chunk is yielded, and the next one is read. What the worker sends after the connection
\* has broken reaches nobody.
Yield(s, tokens) ==
    /\ wire' = IF trailer[s] = "failed" THEN wire ELSE [wire EXCEPT ![s] = Append(@, tokens)]
    /\ made' = [made EXCEPT ![s] = @ + 1]
    /\ NextOperation(s, "read", 0)

OllamaSendsChunk(s) ==
    /\ ollama[s] = "read" /\ final[s] = NoFinal
    /\ made[s] < NumPredict
    /\ IF cancelled[s] THEN Returns(s, "OK") ELSE Yield(s, 0) /\ UNCHANGED final

OllamaSendsFinalChunk(s) ==
    /\ ollama[s] = "read" /\ final[s] = NoFinal
    /\ IF cancelled[s]
       THEN Returns(s, "OK")
       ELSE \E n \in TokenCounts : Yield(s, n) /\ final' = [final EXCEPT ![s] = n]

\* The body ends as it should. Nothing looks at chunk.done: the loop is over, and the status
\* is OK, also when no final chunk has come.
OllamaEnds(s) == ollama[s] = "read" /\ Leave(s, "OK") /\ ended' = [ended EXCEPT ![s] = TRUE]

\* Mutant: the except clause around the loop forgets _set_ollama_error.
OllamaFailsSilently(s) == Decisive(s) /\ Returns(s, "OK")

\* A refused or broken connection, an error status or an error line, invalid JSON.
OllamaFails(s) == Decisive(s) /\ Returns(s, "failed")

\* Mutant: a timeout inside the loop is logged and the read tried again.
OllamaReadRetried(s) ==
    /\ Decisive(s)
    /\ otl[s] = 0
    /\ NextOperation(s, ollama[s], ops[s])
    /\ UNCHANGED <<wire, made, final>>

OllamaTimesOut(s) == Decisive(s) /\ otl[s] = 0 /\ Returns(s, "failed")

-----------------------------------------------------------------------------
(* The environment.                                                        *)

CountDown(timer, S) == [s \in Streams |-> IF s \in S /\ timer[s] > 0 THEN timer[s] - 1 ELSE timer[s]]

Tick ==
    /\ Calling \cup InOllama # {}
    /\ \A s \in Calling : ttl[s] # 0
    /\ \A s \in InOllama : otl[s] # 0
    /\ ttl' = CountDown(ttl, Calling)
    /\ otl' = CountDown(otl, InOllama)
    /\ overtime' = [s \in Streams |->
                       IF s \in InOllama /\ cancelled[s] /\ otl[s] > 0 THEN overtime[s] + 1 ELSE overtime[s]]
    /\ UNCHANGED <<body, handler, client, metrics, rpc, up, connected, faults, ollama, ops, generation>>

\* A stream whose status has not arrived loses it, and some of its last chunks.
LoseConnection ==
    /\ up
    /\ faults < MaxFaults
    /\ faults' = faults + 1
    /\ connected' = FALSE
    /\ \E hit \in {H \in SUBSET Open : \A s \in Open : trailer[s] = "none" => s \in H},
          keep \in [Streams -> 0 .. NumPredict + 1] :
          /\ \A s \in Streams : keep[s] <= Len(wire[s]) /\ (s \notin hit => keep[s] = Len(wire[s]))
          /\ wire' = [s \in Streams |-> SubSeq(wire[s], 1, keep[s])]
          /\ trailer' = [s \in Streams |-> IF s \in hit THEN "failed" ELSE trailer[s]]

ConnectionBreaks ==
    /\ connected
    /\ LoseConnection
    /\ UNCHANGED <<body, gateway, call, cancelled, up, ollama, otl, ops, generation, overtime>>

Crash ==
    /\ LoseConnection
    /\ up' = FALSE
    /\ call' = [s \in Streams |-> IF call[s] = "none" THEN "none" ELSE "ended"]
    /\ ollama' = [s \in Streams |-> "idle"]
    /\ otl' = [s \in Streams |-> 0]
    /\ ops' = [s \in Streams |-> 0]
    /\ overtime' = [s \in Streams |-> 0]
    /\ UNCHANGED <<body, gateway, cancelled, generation>>

Restart == ~up /\ up' = TRUE /\ UNCHANGED <<body, gateway, rpc, connected, faults, ollama, otl, ops,
                                            generation, overtime>>

\* The channel's next attempt succeeds.
Reconnect ==
    /\ up
    /\ ~connected
    /\ connected' = TRUE
    /\ UNCHANGED <<body, gateway, rpc, up, faults, ollama, otl, ops, generation, overtime>>

Terminated ==
    /\ \A s \in Streams : handler[s] = "finished" /\ call[s] \in {"none", "ended"}
    /\ up
    /\ UNCHANGED vars

CreationStep(s) == StreamOpens(s) \/ StreamFails(s)
RecvStep(s) == RecvChunk(s) \/ RecvEOF(s) \/ RecvError(s)
ServerStep(s) == Refuse(s) \/ CancelArrives(s) \/ DropCancelled(s) \/ TakeCall(s)
OllamaStep(s) == OllamaNextAddress(s) \/ OllamaConnected(s) \/ OllamaSendsPart(s) \/ OllamaSendsChunk(s)
                 \/ OllamaSendsFinalChunk(s) \/ OllamaEnds(s) \/ OllamaFails(s) \/ OllamaTimesOut(s)

Next ==
    \/ \E s \in Streams : \/ Reject(s) \/ StartStream(s) \/ CreationStep(s) \/ ClientLeaves(s)
                          \/ LoopTop(s) \/ RecvStep(s) \/ ServerStep(s) \/ OllamaStep(s)
    \/ Tick
    \/ ConnectionBreaks
    \/ Crash
    \/ Restart
    \/ Reconnect
    \/ Terminated

\* The goroutine is scheduled, timers run and expire, an idle worker takes a call.
\* Nothing is assumed of clients, of Ollama, of cancellations, of the channel or of a restart.
Fairness ==
    /\ WF_vars(Tick)
    /\ \A s \in Streams :
          /\ WF_vars(LoopTop(s))
          /\ WF_vars(ttl[s] = 0 /\ (StreamFails(s) \/ RecvError(s)))
          /\ WF_vars(TakeCall(s) \/ DropCancelled(s))
          /\ WF_vars(otl[s] = 0 /\ (OllamaNextAddress(s) \/ OllamaTimesOut(s)))

Spec == Init /\ [][Next]_vars /\ Fairness

-----------------------------------------------------------------------------
(* Properties.                                                             *)

HandlersTyped ==
    /\ body \in [Streams -> PromptBodies]
    /\ handler \in [Streams -> {"new", "opening", "loop", "recv", "finished"}]
    /\ ttl \in [Streams -> Nat]
    /\ gone \in [Streams -> BOOLEAN]
    /\ status \in [Streams -> {0} \cup HTTPStatuses]
    /\ events \in [Streams -> Nat]
    /\ terminal \in [Streams -> {"none", "done", "error"}]

MetricsTyped ==
    /\ HTTPRequestsTotal \in [HTTPStatuses -> Nat]
    /\ HTTPDuration \in Nat
    /\ GRPCRequestDuration \in [{"ok", "error"} -> Nat]
    /\ AITokensTotal \in Nat
    /\ AIGenerationDuration \in Nat

CallsTyped ==
    /\ call \in [Streams -> {"none", "sent", "running", "ended"}]
    /\ wire \in [Streams -> Seq({0} \cup TokenCounts)]
    /\ trailer \in [Streams -> {"none", "OK", "failed"}]
    /\ cancelled \in [Streams -> BOOLEAN]

BackendTyped ==
    /\ up \in BOOLEAN
    /\ connected \in BOOLEAN
    /\ faults \in 0 .. MaxFaults
    /\ ollama \in [Streams -> {"idle", "connect", "read"}]
    /\ otl \in [Streams -> Nat]
    /\ ops \in [Streams -> Nat]
    /\ made \in [Streams -> Nat]
    /\ final \in [Streams -> {NoFinal} \cup TokenCounts]
    /\ ended \in [Streams -> BOOLEAN]
    /\ overtime \in [Streams -> Nat]

\* The type invariant.
TypeOK == HandlersTyped /\ MetricsTyped /\ CallsTyped /\ BackendTyped

\* What the client is promised, in StreamContract.
Contract == INSTANCE StreamContract WITH
    stage <- [s \in Streams |-> CASE handler[s] = "opening"  -> "pending"
                                  [] s \in Open              -> "open"
                                  [] handler[s] = "finished" -> "closed"
                                  [] OTHER                   -> "new"],
    generated <- made,
    complete <- ended,
    delivered <- events

\* The path keeps that promise, whatever races a crash, a deadline, a client that leaves and
\* the trailing status: "done" only after Ollama's answer has come to its regular end and every
\* chunk of it was delivered, so that no failure of Ollama, of the connection or of the deadline
\* passes for an end; a client that stays gets one last event, and every stream ends. ("done"
\* does not say that a final chunk came: the code does not look for one.)
RefinesContract == Contract!Spec

Committed(st) == {s \in Streams : status[s] = st}
Finished == {s \in Streams : handler[s] = "finished"}
Done == {s \in Streams : terminal[s] = "done"}
CreationFailed == {s \in Streams : status[s] \in {500, 503, 504}}

\* The streams of which every chunk was received, the final one among them.
Received == {s \in Streams : final[s] # NoFinal /\ events[s] = made[s]}

\* Metrics and streams agree at every moment: a status is counted when it is committed and a
\* duration when the handler returns, so their difference is the streams in flight; the counted
\* tokens are those of the generations received to their final chunk: none is counted twice, none
\* of a final chunk that was lost with the connection. A stream that ended in "done" has lost no
\* chunk, hence no token that Ollama reported for it is missing from the counter.
StreamMetrics ==
    /\ \A st \in HTTPStatuses : HTTPRequestsTotal[st] = Cardinality(Committed(st))
    /\ HTTPDuration = Cardinality(Finished)
    /\ GRPCRequestDuration["ok"] = HTTPRequestsTotal[200]
    /\ GRPCRequestDuration["error"] = Cardinality(CreationFailed)
    /\ \A s \in Done : events[s] = made[s]
    /\ AITokensTotal = Total(Received, final)
    /\ AIGenerationDuration = Cardinality({s \in Received : final[s] > 0})

\* What a client reads is true of its request. Unlike the unary endpoint's, the stream's 400
\* only ever comes from the gateway; what python-ai alone refuses was answered 200 before, and
\* gets no chunk and no "done". A 504 comes at the deadline, and no prompt the gateway refuses
\* gets anything but a 400.
StreamAnswersHonest == \A s \in Streams :
    /\ status[s] = 400 => ~ModelGatewayAccepts(body[s])
    /\ status[s] \in {200, 500, 503, 504} => ModelGatewayAccepts(body[s])
    /\ status[s] = 504 => ttl[s] = 0
    /\ events[s] > 0 \/ terminal[s] = "done" => ModelBackendAccepts(body[s])

\* metrics.go: HTTPRequestsTotal counts finished HTTP requests.
CountedWhenFinished ==
    \A st \in HTTPStatuses : HTTPRequestsTotal[st] = Cardinality(Committed(st) \cap Finished)

\* What n socket operations may take.
TimeFor(n) == n * OllamaTimeout

\* Once python-ai knows that a call is over, its worker is back within the time to connect and
\* to read one chunk, whatever number of chunks is still to come: one timeout for each address
\* that is tried and for each read.
OvertimeBounded == \A s \in Streams : overtime[s] <= TimeFor(Addresses + MaxReads)

\* A stream never keeps its worker for ever: every read starts the timer afresh, but
\* num_predict bounds the chunks, and a chunk's size its reads.
WorkersAlwaysRecovered == \A s \in Streams : call[s] = "running" ~> call[s] # "running"

-----------------------------------------------------------------------------
(* What makes the properties inductive (StreamPathProofs).                 *)

\* A call is made for an opened stream, and Ollama works for a call that runs.
CallInv == \A s \in Streams :
    /\ handler[s] \in {"new", "opening"} => status[s] = 0 /\ call[s] = "none"
    /\ s \in Open \/ call[s] # "none" => status[s] = 200
    /\ ollama[s] # "idle" <=> call[s] = "running"
    /\ ended[s] => call[s] = "ended"

\* Chunks are lost only with the status behind them, and an OK follows the end of Ollama's answer.
ChunkInv == \A s \in Streams :
    /\ events[s] + Len(wire[s]) <= made[s]
    /\ trailer[s] # "failed" => events[s] + Len(wire[s]) = made[s]
    /\ trailer[s] = "OK" => ended[s]

\* A timer and the overtime beside it add up to the operations so far: a cancelled call is
\* given a fresh timer by the next operation, but never one for another chunk.
OvertimeInv == \A s \in Streams :
    /\ ollama[s] = "idle" \/ ~cancelled[s] => overtime[s] = 0
    /\ ollama[s] = "idle" => ops[s] = 0
    /\ ollama[s] # "idle" => otl[s] <= OllamaTimeout
    /\ ollama[s] = "connect" => ops[s] < Addresses /\ overtime[s] + otl[s] <= TimeFor(ops[s] + 1)
    /\ ollama[s] = "read" => ops[s] < MaxReads /\ overtime[s] + otl[s] <= TimeFor(Addresses + ops[s] + 1)

IInv == TypeOK /\ CallInv /\ ChunkInv /\ OvertimeInv

\* The chunks on the wire follow the ones received; only the last of a complete
\* generation has a token count.
WireInv == \A s \in Streams : \A i \in 1 .. Len(wire[s]) :
    wire[s][i] = IF final[s] # NoFinal /\ events[s] + i = made[s] THEN final[s] ELSE 0
=============================================================================
