--------------------------- MODULE PredictPathProofs ---------------------------
(***************************************************************************)
(* Proofs about PredictPath, for every number of requests, every size of   *)
(* the thread pool and every setting of the three timeouts.                *)
(***************************************************************************)
EXTENDS PredictPath, TallyProofs

USE RequestsAssumption, BodiesAssumption, ParametersAssumption, MaxPromptLenAssumption

-----------------------------------------------------------------------------
(* The error contract, for every body, prompt limit and exception.         *)

\* The two services agree on iris bodies: what parses and passes the gateway's checks passes
\* python-ai's, and the other way round. So python-ai refuses no body it is sent, and the two constants for
\* the upper bound must stay equal (validateIrisFeature, IrisPredict).
THEOREM ValidationsAgree ==
    \A b \in IrisBody : IrisGatewayAccepts(b) <=> b.json /\ IrisBackendAccepts(b)
<1> SUFFICES ASSUME NEW b \in IrisBody PROVE IrisGatewayAccepts(b) <=> b.json /\ IrisBackendAccepts(b)
  OBVIOUS
<1>1. ASSUME NEW n \in FeatureNames
      PROVE  /\ b.features[n].kind \in FeatureKinds
             /\ b.features[n].kind # "absent" /\ ValidateIrisFeature(b.features[n])
                  <=> b.features[n].kind = "num" /\ b.features[n].cm >= 0 /\ b.features[n].cm <= MAX_FEATURE_CM
  <2>1. b.features[n] \in Feature
    BY DEF IrisBody
  <2>2. b.features[n].kind \in FeatureKinds /\ b.features[n].cm \in Int
    BY <2>1 DEF Feature
  <2> QED BY <2>2 DEF FeatureKinds, ValidateIrisFeature, MaxIrisFeatureCm, MAX_FEATURE_CM
<1> QED BY <1>1 DEF IrisGatewayAccepts, IrisBackendAccepts

\* A failure of Ollama is never the client's fault nor a success, and it is a 504 exactly when the
\* client's timer ran out (_set_ollama_error, then apiErrorFromGRPC).
THEOREM OllamaFailuresMap ==
    \A e \in OllamaExceptions :
        /\ APIErrorFromGRPC(SetOllamaError(e)).status \in {500, 503, 504}
        /\ APIErrorFromGRPC(SetOllamaError(e)).status = 504 <=> e = "TimeoutException"
BY DEF OllamaExceptions, SetOllamaError, TransportErrors, APIErrorFromGRPC

-----------------------------------------------------------------------------
(* Typing of the handlers' helpers.                                        *)

\* What APIErrorFromGRPC returns is one of the answers of the error contract.
LEMMA ErrorAnswerType == \A c \in GRPCErrors : APIErrorFromGRPC(c) \in Answers
BY DEF Answers

\* An answer always has one of the five HTTP statuses the handlers use.
LEMMA AnswerStatus ==
    /\ \A a \in Answers : a.status \in HTTPStatuses
    /\ Success \in Answers /\ ValidationError \in Answers
BY DEF Answers, HTTPStatuses, APIErrorFromGRPC, Success, ValidationError, GRPCErrors

\* A reply is a success with a token count, or one of the gRPC errors.
LEMMA ReplyType ==
    ASSUME NEW rep \in Replies, rep # NoReply
    PROVE  /\ rep.code \in GRPCErrors \cup {"OK"}
           /\ rep.tokens \in Nat
BY DEF Replies, NoReply, Failure, GRPCErrors

\* Answering a request keeps the handler's state and the HTTP metrics well typed.
LEMMA RespondType ==
    ASSUME TypeOK, NEW r \in Requests, NEW a \in Answers, Respond(r, a)
    PROVE  /\ handler' \in [Requests -> {"new", "calling", "answered"}]
           /\ answer' \in [Requests -> Answers \cup {Unanswered}]
           /\ HTTPRequestsTotal' \in [Paths \X HTTPStatuses -> Nat]
           /\ HTTPDuration' \in [Paths -> Nat]
<1>1. Path(r) \in Paths /\ a.status \in HTTPStatuses
  BY AnswerStatus DEF Path, Paths
<1>2. /\ handler' \in [Requests -> {"new", "calling", "answered"}]
      /\ answer' \in [Requests -> Answers \cup {Unanswered}]
  BY DEF TypeOK, Respond
<1>3. HTTPRequestsTotal' \in [Paths \X HTTPStatuses -> Nat]
  BY <1>1 DEF TypeOK, Respond
<1>4. HTTPDuration' \in [Paths -> Nat]
  BY <1>1 DEF TypeOK, Respond
<1> QED BY <1>2, <1>3, <1>4

\* The return of an RPC to its handler keeps the gateway's state well typed.
LEMMA ReturnsType ==
    ASSUME TypeOK, NEW r \in Requests, NEW rep \in Replies, rep # NoReply, Returns(r, rep)
    PROVE  TypeOK'
<1>1. rep.code \in GRPCErrors \cup {"OK"} /\ rep.tokens \in Nat
  BY ReplyType
<1> DEFINE a == IF rep.code = "OK" THEN Success ELSE APIErrorFromGRPC(rep.code)
<1>2. a \in Answers
  BY <1>1, ErrorAnswerType, AnswerStatus
<1>3. Respond(r, a)
  BY DEF Returns, IrisReturns, ModelReturns
<1>4. /\ handler' \in [Requests -> {"new", "calling", "answered"}]
      /\ answer' \in [Requests -> Answers \cup {Unanswered}]
      /\ HTTPRequestsTotal' \in [Paths \X HTTPStatuses -> Nat]
      /\ HTTPDuration' \in [Paths -> Nat]
  <2> HIDE DEF a
  <2> QED BY <1>2, <1>3, RespondType
<1>5. GRPCRequestDuration' \in [Methods \X {"ok", "error"} -> Nat]
  <2>1. ObserveRPC(r, rep.code)
    BY DEF Returns, IrisReturns, ModelReturns
  <2>2. <<Method(r), IF rep.code = "OK" THEN "ok" ELSE "error">> \in Methods \X {"ok", "error"}
    BY DEF Method, Methods
  <2> QED BY <2>1, <2>2 DEF ObserveRPC, TypeOK
<1>6. AITokensTotal' \in Nat /\ AIGenerationDuration' \in Nat
  BY <1>1 DEF Returns, IrisReturns, ModelReturns, TypeOK
<1> QED BY <1>4, <1>5, <1>6 DEF TypeOK, Returns, backend, ollamaCall

-----------------------------------------------------------------------------
(* Typing of the backend's helpers.                                        *)

\* The failures the model sends are replies.
LEMMA FailureType == \A c \in GRPCErrors : Failure(c) \in Replies /\ Failure(c) # NoReply
BY DEF Replies, NoReply, Failure, GRPCErrors

\* Whatever generate() raises becomes one of three gRPC errors.
LEMMA SetOllamaErrorType ==
    \A e : SetOllamaError(e) \in {"DEADLINE_EXCEEDED", "UNAVAILABLE", "INTERNAL"}
BY DEF SetOllamaError

\* The server's reply keeps reply[] well typed.
LEMMA ReplyTyped ==
    ASSUME TypeOK, NEW r \in Requests, NEW rep \in Replies, Reply(r, rep)
    PROVE  reply' \in [Requests -> Replies]
BY DEF TypeOK, Reply

\* The time for n socket operations is a number of ticks, and one more adds a whole timeout.
LEMMA TimeForOperations ==
    /\ \A n \in Nat : TimeFor(n) \in Nat /\ TimeFor(n + 1) = TimeFor(n) + OllamaTimeout
    /\ \A m, n \in Nat : m <= n => TimeFor(m) <= TimeFor(n)
<1>1. ASSUME NEW n \in Nat PROVE TimeFor(n) \in Nat /\ TimeFor(n + 1) = TimeFor(n) + OllamaTimeout
  BY DEF TimeFor
<1>2. ASSUME NEW m \in Nat, NEW n \in Nat, m <= n PROVE TimeFor(m) <= TimeFor(n)
  <2>1. n = m + (n - m) /\ n - m \in Nat
    BY <1>2
  <2>2. n * OllamaTimeout = m * OllamaTimeout + (n - m) * OllamaTimeout
    BY <2>1
  <2>3. (n - m) * OllamaTimeout \in Nat /\ m * OllamaTimeout \in Nat
    BY <2>1
  <2> QED BY <2>2, <2>3 DEF TimeFor
<1> QED BY <1>1, <1>2

\* The steps in which the worker goes on to its next socket operation and nothing else happens.
Proceeds(r) == OllamaNextAddress(r) \/ OllamaConnected(r) \/ OllamaSendsPart(r)

LEMMA ProceedEffect ==
    ASSUME TypeOK, NEW r \in ModelRequests, Proceeds(r)
    PROVE  \E phase \in {"connect", "read"}, n \in Nat : NextOperation(r, phase, n)
<1>1. ops[r] + 1 \in Nat
  BY DEF TypeOK, Requests
<1> QED BY <1>1 DEF Proceeds, OllamaNextAddress, OllamaConnected, OllamaSendsPart

\* Running or queued calls are requests, hence finitely many.
LEMMA PoolFinite ==
    /\ IsFiniteSet(Requests)
    /\ \A S \in SUBSET Requests : IsFiniteSet(S) /\ Cardinality(S) \in Nat
<1>1. IsFiniteSet(Requests)
  BY FS_Union DEF Requests
<1> QED BY <1>1, FS_Subset, FS_CardinalityType

\* A worker's leaving a call keeps everything but the queue well typed.
LEMMA LeaveCallType ==
    ASSUME TypeOK, NEW r \in Requests, NEW rep \in Replies, LeaveCall(r, rep),
           active_rpc_count \in Nat \ {0}, queue' \in Seq(Requests)
    PROVE  TypeOK'
<1>1. reply' \in [Requests -> Replies]
  BY ReplyTyped DEF LeaveCall
<1>2. active_rpc_count' \in Nat
  BY DEF LeaveCall
<1> QED BY <1>1, <1>2 DEF LeaveCall, EndCall, TypeOK, gateway, metrics

-----------------------------------------------------------------------------
(* Type correctness and the accounting of the thread pool. The count of    *)
(* active calls stays a natural number only because it is the number of    *)
(* calls in the pool, so the two are proved together.                      *)

\* Initially everything is well typed and the pool is empty.
LEMMA InitTypePool == Init => TypeOK /\ PoolInv
<1> SUFFICES ASSUME Init PROVE TypeOK /\ PoolInv
  OBVIOUS
<1>1. TypeOK
  BY DEF Init, TypeOK, Replies, NoReply
<1>2. InPool = {} /\ Queued = {} /\ Running = {}
  BY DEF Init, InPool, Queued, Running
<1>3. Cardinality({}) = 0
  BY FS_EmptySet
<1> QED BY <1>1, <1>2, <1>3 DEF PoolInv, Init

\* A step that keeps every call and the queue as they are keeps the accounting.
LEMMA PoolUnchanged ==
    ASSUME PoolInv, UNCHANGED <<call, queue, active_rpc_count>>
    PROVE  PoolInv'
BY DEF PoolInv, InPool, Queued, Running

\* So does a step that moves one call between "none", "sent" and "ended".
LEMMA PoolOutside ==
    ASSUME TypeOK, PoolInv, NEW r \in Requests, NEW c \in {"sent", "ended"},
           call[r] \notin {"queued", "running"}, call' = [call EXCEPT ![r] = c],
           UNCHANGED <<queue, active_rpc_count>>
    PROVE  PoolInv'
<1>1. InPool' = InPool /\ Queued' = Queued /\ Running' = Running
  BY DEF TypeOK, InPool, Queued, Running
<1>2. \A i \in 1..Len(queue) : queue[i] \in Requests
  BY DEF TypeOK
<1>3. \A i \in 1..Len(queue) : call'[queue[i]] = "queued"
  BY <1>2 DEF TypeOK, PoolInv
<1> QED BY <1>1, <1>3 DEF PoolInv

\* A call admitted below the limit joins the end of the queue.
LEMMA AdmitPool ==
    ASSUME TypeOK, PoolInv, NEW r \in Requests, Admit(r)
    PROVE  PoolInv'
<1>1. /\ InPool' = InPool \cup {r} /\ r \notin InPool
      /\ Queued' = Queued \cup {r} /\ r \notin Queued
      /\ Running' = Running
  BY DEF Admit, TypeOK, InPool, Queued, Running
<1>2. /\ IsFiniteSet(InPool) /\ IsFiniteSet(Queued)
      /\ Cardinality(InPool) \in Nat /\ Cardinality(Queued) \in Nat
  BY PoolFinite DEF InPool, Queued
<1>3. Cardinality(InPool') = Cardinality(InPool) + 1 /\ Cardinality(Queued') = Cardinality(Queued) + 1
  BY <1>1, <1>2, FS_AddElement
<1>4. /\ queue' = Append(queue, r) /\ Len(queue') = Len(queue) + 1
      /\ \A i \in 1..Len(queue) : queue'[i] = queue[i] /\ queue[i] \in Requests
      /\ queue'[Len(queue) + 1] = r
  BY DEF Admit, TypeOK
<1>5. \A i \in 1..Len(queue) : queue[i] # r /\ call'[queue[i]] = "queued"
  BY <1>4 DEF Admit, PoolInv, TypeOK
<1>6. call'[r] = "queued"
  BY DEF Admit, TypeOK
<1>7. \A i \in 1..Len(queue') : call'[queue'[i]] = "queued"
  <2>1. Len(queue) \in Nat /\ \A i \in 1..Len(queue') : i \in 1..Len(queue) \/ i = Len(queue) + 1
    BY <1>4 DEF TypeOK
  <2> QED BY <1>4, <1>5, <1>6, <2>1
<1>8. \A i, j \in 1..Len(queue') : queue'[i] = queue'[j] => i = j
  <2>1. \A i, j \in 1..Len(queue) : queue[i] = queue[j] => i = j
    BY DEF PoolInv
  <2>2. /\ Len(queue) \in Nat
        /\ \A i \in 1..Len(queue') : i \in 1..Len(queue) \/ i = Len(queue) + 1
    BY <1>4 DEF TypeOK
  <2>3. SUFFICES ASSUME NEW i \in 1..Len(queue'), NEW j \in 1..Len(queue'), queue'[i] = queue'[j]
                 PROVE  i = j
    OBVIOUS
  <2>4. CASE i \in 1..Len(queue) /\ j \in 1..Len(queue)
    BY <1>4, <2>1, <2>3, <2>4
  <2>5. CASE i = Len(queue) + 1 \/ j = Len(queue) + 1
    BY <1>4, <1>5, <2>2, <2>3, <2>5
  <2> QED BY <2>2, <2>4, <2>5
<1>9. active_rpc_count' = active_rpc_count + 1 /\ active_rpc_count < 2 * MAX_WORKERS
  BY DEF Admit
<1>10. Len(queue') = Cardinality(Queued') /\ active_rpc_count' = Cardinality(InPool')
  BY <1>3, <1>4, <1>9 DEF PoolInv
<1>11. active_rpc_count' <= 2 * MAX_WORKERS
  BY <1>9 DEF TypeOK
<1>12. Cardinality(Running') <= MAX_WORKERS
  BY <1>1 DEF PoolInv
<1> QED BY <1>7, <1>8, <1>10, <1>11, <1>12 DEF PoolInv

\* The head of the queue is a queued call, and no other entry is the same call.
LEMMA HeadOfQueue ==
    ASSUME TypeOK, PoolInv, NEW r \in Requests, TakeWork(r)
    PROVE  /\ call[r] = "queued"
           /\ queue' \in Seq(Requests) /\ Len(queue') = Len(queue) - 1 /\ Len(queue) > 0
           /\ \A i \in 1..Len(queue') : queue'[i] = queue[i + 1] /\ queue'[i] \in Requests
           /\ \A i \in 1..Len(queue') : queue'[i] # r /\ call[queue'[i]] = "queued"
           /\ \A i, j \in 1..Len(queue') : queue'[i] = queue'[j] => i = j
<1>1. /\ queue # <<>> /\ queue \in Seq(Requests)
      /\ r = Head(queue) /\ queue' = Tail(queue)
  BY DEF TakeWork, TypeOK
<1>2. /\ queue' \in Seq(Requests) /\ Len(queue') = Len(queue) - 1 /\ Len(queue) > 0
      /\ Len(queue) \in Nat
      /\ r = queue[1]
      /\ \A i \in 1..Len(queue') : queue'[i] = queue[i + 1] /\ queue'[i] \in Requests
  BY <1>1
<1>3. call[r] = "queued"
  BY <1>2 DEF PoolInv
<1>4. \A i \in 1..Len(queue') : i + 1 \in 1..Len(queue) /\ i + 1 # 1
  BY <1>2
<1>5. \A i \in 1..Len(queue') : queue'[i] # r /\ call[queue'[i]] = "queued"
  BY <1>2, <1>4 DEF PoolInv
<1>6. \A i, j \in 1..Len(queue') : queue'[i] = queue'[j] => i = j
  <2> SUFFICES ASSUME NEW i \in 1..Len(queue'), NEW j \in 1..Len(queue'), queue'[i] = queue'[j]
               PROVE  i = j
    OBVIOUS
  <2>1. i + 1 = j + 1
    BY <1>2, <1>4 DEF PoolInv
  <2> QED BY <2>1
<1> QED BY <1>2, <1>3, <1>5, <1>6

\* A worker that takes up a call: it runs now.
LEMMA StartPool ==
    ASSUME TypeOK, PoolInv, NEW r \in Requests, TakeWork(r),
           call' = [call EXCEPT ![r] = "running"], UNCHANGED active_rpc_count
    PROVE  PoolInv'
<1>1. call[r] = "queued"
  BY HeadOfQueue
<1>2. /\ InPool' = InPool
      /\ Queued' = Queued \ {r} /\ r \in Queued
      /\ Running' = Running \cup {r} /\ r \notin Running
  BY <1>1 DEF TypeOK, InPool, Queued, Running
<1>3. /\ IsFiniteSet(Queued) /\ IsFiniteSet(Running)
      /\ Cardinality(Queued) \in Nat /\ Cardinality(Running) \in Nat
  BY PoolFinite DEF Queued, Running
<1>4. Cardinality(Queued') = Cardinality(Queued) - 1 /\ Cardinality(Running') = Cardinality(Running) + 1
  BY <1>2, <1>3, FS_AddElement, FS_RemoveElement
<1>5. Cardinality(Running) < MAX_WORKERS
  BY DEF TakeWork, IdleWorker
<1>6. Cardinality(Running') <= MAX_WORKERS
  BY <1>3, <1>4, <1>5
<1>7. \A i \in 1..Len(queue') : call'[queue'[i]] = "queued"
  BY HeadOfQueue DEF TypeOK
<1>8. Len(queue') = Cardinality(Queued')
  BY <1>4, HeadOfQueue DEF PoolInv
<1>9. active_rpc_count' = Cardinality(InPool') /\ active_rpc_count' <= 2 * MAX_WORKERS
  BY <1>2 DEF PoolInv
<1> QED BY <1>6, <1>7, <1>8, <1>9, HeadOfQueue DEF PoolInv

\* A call that leaves the pool frees one place in the count.
LEMMA LeavePool ==
    ASSUME TypeOK, PoolInv, NEW r \in InPool, call' = [call EXCEPT ![r] = "ended"]
    PROVE  /\ InPool' = InPool \ {r}
           /\ Cardinality(InPool') = active_rpc_count - 1
           /\ active_rpc_count \in Nat \ {0}
           /\ Running' = Running \ {r} /\ Cardinality(Running') <= MAX_WORKERS
<1>1. /\ InPool' = InPool \ {r} /\ Running' = Running \ {r}
  BY DEF TypeOK, InPool, Running
<1>2. IsFiniteSet(InPool) /\ IsFiniteSet(Running) /\ Cardinality(InPool) \in Nat
  BY PoolFinite DEF InPool, Running
<1>3. Cardinality(InPool') = Cardinality(InPool) - 1 /\ Cardinality(InPool') \in Nat
  BY <1>1, <1>2, FS_RemoveElement, FS_CardinalityType
<1>4. /\ Running' \in SUBSET Running
      /\ Cardinality(Running') <= Cardinality(Running)
      /\ Cardinality(Running) \in Nat /\ Cardinality(Running') \in Nat
  BY <1>1, <1>2, FS_Subset, FS_CardinalityType
<1>5. Cardinality(Running') <= MAX_WORKERS
  BY <1>4 DEF PoolInv
<1> QED BY <1>1, <1>2, <1>3, <1>5 DEF PoolInv, TypeOK

\* A worker that drops or refuses the call it has just taken.
LEMMA DropPool ==
    ASSUME TypeOK, PoolInv, NEW r \in Requests, TakeWork(r),
           call' = [call EXCEPT ![r] = "ended"], active_rpc_count' = active_rpc_count - 1
    PROVE  PoolInv' /\ active_rpc_count \in Nat \ {0}
<1>1. call[r] = "queued"
  BY HeadOfQueue
<1>2. r \in InPool /\ r \in Queued /\ Queued' = Queued \ {r}
  BY <1>1 DEF TypeOK, InPool, Queued
<1>3. IsFiniteSet(Queued) /\ Cardinality(Queued) \in Nat
  BY PoolFinite DEF Queued
<1>4. Cardinality(Queued') = Cardinality(Queued) - 1
  BY <1>2, <1>3, FS_RemoveElement
<1>5. \A i \in 1..Len(queue') : call'[queue'[i]] = "queued"
  BY HeadOfQueue DEF TypeOK
<1>6. Len(queue') = Cardinality(Queued')
  BY <1>4, HeadOfQueue DEF PoolInv
<1>7. /\ active_rpc_count' = Cardinality(InPool')
      /\ active_rpc_count \in Nat \ {0}
      /\ Cardinality(Running') <= MAX_WORKERS
  BY <1>2, LeavePool
<1>8. active_rpc_count' <= 2 * MAX_WORKERS
  BY <1>7 DEF PoolInv
<1> QED BY <1>5, <1>6, <1>7, <1>8, HeadOfQueue DEF PoolInv

\* A worker that finishes the call it runs.
LEMMA FinishPool ==
    ASSUME TypeOK, PoolInv, NEW r \in Requests, call[r] = "running",
           call' = [call EXCEPT ![r] = "ended"], active_rpc_count' = active_rpc_count - 1,
           UNCHANGED queue
    PROVE  PoolInv' /\ active_rpc_count \in Nat \ {0}
<1>1. r \in InPool /\ Queued' = Queued
  BY DEF TypeOK, InPool, Queued
<1>2. \A i \in 1..Len(queue) : queue[i] \in Requests /\ queue[i] # r
  BY DEF TypeOK, PoolInv
<1>3. \A i \in 1..Len(queue) : call'[queue[i]] = "queued"
  BY <1>2 DEF TypeOK, PoolInv
<1>4. /\ active_rpc_count' = Cardinality(InPool')
      /\ active_rpc_count \in Nat \ {0}
      /\ Cardinality(Running') <= MAX_WORKERS
  BY <1>1, LeavePool
<1>5. active_rpc_count' <= 2 * MAX_WORKERS
  BY <1>4 DEF PoolInv
<1> QED BY <1>1, <1>3, <1>4, <1>5 DEF PoolInv

\* A worker that ends a running call keeps the types and the pool invariant.
LEMMA FinishStep ==
    ASSUME TypeOK, PoolInv, NEW r \in Requests, NEW rep \in Replies,
           call[r] = "running", LeaveCall(r, rep), UNCHANGED queue
    PROVE  TypeOK' /\ PoolInv'
<1>1. PoolInv' /\ active_rpc_count \in Nat \ {0}
  BY FinishPool DEF LeaveCall, EndCall
<1>2. queue' \in Seq(Requests)
  BY DEF TypeOK
<1> QED BY <1>1, <1>2, LeaveCallType

\* So does one that takes a queued call and ends it at once.
LEMMA DropStep ==
    ASSUME TypeOK, PoolInv, NEW r \in Requests, NEW rep \in Replies,
           TakeWork(r), LeaveCall(r, rep)
    PROVE  TypeOK' /\ PoolInv'
<1>1. PoolInv' /\ active_rpc_count \in Nat \ {0}
  BY DropPool DEF LeaveCall, EndCall
<1> QED BY <1>1, HeadOfQueue, LeaveCallType

\* A timer that counts down stays a natural number.
LEMMA CountDownType ==
    ASSUME NEW timer \in [Requests -> Nat], NEW S
    PROVE  /\ CountDown(timer, S) \in [Requests -> Nat]
           /\ \A r \in Requests : r \in S /\ timer[r] # 0 => CountDown(timer, S)[r] = timer[r] - 1
           /\ \A r \in Requests : r \notin S => CountDown(timer, S)[r] = timer[r]
<1>1. \A r \in Requests :
         CountDown(timer, S)[r] = IF r \in S /\ timer[r] > 0 THEN timer[r] - 1 ELSE timer[r]
  BY DEF CountDown
<1>2. \A r \in Requests : timer[r] \in Nat
  OBVIOUS
<1>3. CountDown(timer, S) \in [Requests -> Nat]
  BY <1>2 DEF CountDown
<1> QED BY <1>1, <1>2, <1>3

\* The lost connection leaves well-typed replies.
LEMMA LoseConnectionType ==
    ASSUME TypeOK, LoseConnection
    PROVE  reply' \in [Requests -> Replies] /\ faults' \in 0..MaxFaults /\ connected' \in BOOLEAN
<1>1. Failure("UNAVAILABLE") \in Replies
  BY FailureType DEF GRPCErrors
<1>2. reply' \in [Requests -> Replies]
  BY <1>1 DEF LoseConnection, TypeOK
<1>3. faults' \in 0..MaxFaults /\ connected' \in BOOLEAN
  <2>1. faults \in 0..MaxFaults
    BY DEF TypeOK
  <2>2. faults < MaxFaults /\ faults' = faults + 1
    BY DEF LoseConnection
  <2>3. faults' \in 0..MaxFaults
    BY <2>1, <2>2
  <2>4. connected' \in BOOLEAN
    BY Zenon DEF LoseConnection
  <2> QED BY <2>3, <2>4
<1> QED BY <1>2, <1>3

\* Every step keeps the types and the accounting of the pool.
LEMMA TypePoolStep ==
    ASSUME TypeOK, PoolInv, ProtocolInv, ClockInv, [Next]_vars
    PROVE  TypeOK' /\ PoolInv'
<1>1. ASSUME NEW r \in Requests, RejectInvalid(r) PROVE TypeOK' /\ PoolInv'
  <2>1. PoolInv'
    BY <1>1, PoolUnchanged DEF RejectInvalid, backend, ollamaCall
  <2>2. /\ handler' \in [Requests -> {"new", "calling", "answered"}]
        /\ answer' \in [Requests -> Answers \cup {Unanswered}]
        /\ HTTPRequestsTotal' \in [Paths \X HTTPStatuses -> Nat]
        /\ HTTPDuration' \in [Paths -> Nat]
    BY <1>1, RespondType, AnswerStatus DEF RejectInvalid
  <2> QED BY <1>1, <2>1, <2>2 DEF RejectInvalid, TypeOK, backend, ollamaCall
<1>2. ASSUME NEW r \in Requests, NEW t \in Nat, StartRPC(r, t), call[r] = "none"
      PROVE  TypeOK' /\ PoolInv'
  <2>1. TypeOK'
    BY <1>2 DEF StartRPC, TypeOK, metrics, backend, ollamaCall
  <2>2. PoolInv'
    BY <1>2, PoolOutside DEF StartRPC, backend, ollamaCall
  <2> QED BY <2>1, <2>2
<1>3. ASSUME NEW r \in Requests, NEW rep \in Replies, rep # NoReply, Returns(r, rep)
      PROVE  TypeOK' /\ PoolInv'
  BY <1>3, ReturnsType, PoolUnchanged DEF Returns, backend, ollamaCall
<1>4. ASSUME NEW r \in Requests, Admit(r) PROVE TypeOK' /\ PoolInv'
  <2>1. queue' \in Seq(Requests)
    BY <1>4 DEF Admit, TypeOK
  <2>2. TypeOK'
    BY <1>4, <2>1 DEF Admit, TypeOK, gateway, metrics, ollamaCall
  <2> QED BY <1>4, <2>2, AdmitPool
<1>5. ASSUME NEW r \in Requests, Refuse(r) \/ FailFast(r) PROVE TypeOK' /\ PoolInv'
  <2>1. reply' \in [Requests -> Replies]
    BY <1>5, ReplyTyped, FailureType DEF Refuse, FailFast, GRPCErrors
  <2>2. TypeOK'
    BY <1>5, <2>1 DEF Refuse, FailFast, EndCall, TypeOK, gateway, metrics, backend, ollamaCall
  <2> QED BY <1>5, <2>2, PoolOutside DEF Refuse, FailFast, EndCall, backend, ollamaCall
<1>6. ASSUME NEW r \in Requests, LoseCall(r) PROVE TypeOK' /\ PoolInv'
  <2>1. TypeOK'
    BY <1>6 DEF LoseCall, EndCall, TypeOK, gateway, metrics, backend, ollamaCall
  <2> QED BY <1>6, <2>1, PoolOutside DEF LoseCall, EndCall, backend, ollamaCall
<1>7. ASSUME NEW r \in Requests, CancelArrives(r) PROVE TypeOK' /\ PoolInv'
  BY <1>7, PoolUnchanged DEF CancelArrives, TypeOK, gateway, metrics, backend, ollamaCall
<1>8. ASSUME NEW r \in Requests, SkipCancelled(r) PROVE TypeOK' /\ PoolInv'
  <2>1. PoolInv' /\ active_rpc_count \in Nat \ {0} /\ queue' \in Seq(Requests)
    BY <1>8, DropPool, HeadOfQueue DEF SkipCancelled, EndCall
  <2> QED BY <1>8, <2>1 DEF SkipCancelled, EndCall, TypeOK, gateway, metrics, ollamaCall
<1>9. ASSUME NEW r \in Requests, StartIris(r) PROVE TypeOK' /\ PoolInv'
  <2>1. PoolInv' /\ queue' \in Seq(Requests)
    BY <1>9, StartPool, HeadOfQueue DEF StartIris
  <2> QED BY <1>9, <2>1 DEF StartIris, TypeOK, gateway, metrics, ollamaCall
<1>10. ASSUME NEW r \in Requests, IrisFinishes(r) PROVE TypeOK' /\ PoolInv'
  <2>1. \A rep \in IrisOutcomes(body[r]) : rep \in Replies
    BY FailureType DEF IrisOutcomes, Replies, GRPCErrors
  <2> QED BY <1>10, <2>1, FinishStep DEF IrisFinishes
<1>11. ASSUME NEW r \in Requests, RefusePrompt(r) PROVE TypeOK' /\ PoolInv'
  BY <1>11, DropStep, FailureType DEF RefusePrompt, GRPCErrors
<1>12. ASSUME NEW r \in Requests, StartModel(r) PROVE TypeOK' /\ PoolInv'
  <2>1. PoolInv' /\ queue' \in Seq(Requests)
    BY <1>12, StartPool, HeadOfQueue DEF StartModel, Generate
  <2> QED BY <1>12, <2>1 DEF StartModel, Generate, TypeOK, gateway, metrics
<1>13. ASSUME NEW r \in ModelRequests, Proceeds(r) PROVE TypeOK' /\ PoolInv'
  <2>1. PICK phase \in {"connect", "read"}, n \in Nat : NextOperation(r, phase, n)
    BY <1>13, ProceedEffect
  <2>2. /\ ollama' \in [Requests -> {"idle", "connect", "read"}]
        /\ otl' \in [Requests -> Nat] /\ ops' \in [Requests -> Nat]
    BY <2>1 DEF NextOperation, TypeOK
  <2> QED BY <2>1, <2>2, PoolUnchanged DEF NextOperation, Waits, TypeOK, gateway, metrics
<1>14. ASSUME NEW r \in ModelRequests,
              OllamaAnswers(r) \/ OllamaRefuses(r) \/ OllamaFails(r) \/ OllamaTimesOut(r)
       PROVE  TypeOK' /\ PoolInv'
  <2>1. call[r] = "running" /\ r \in Requests
    BY <1>14 DEF ClockInv, OllamaClock, OllamaAnswers, OllamaRefuses, OllamaFails, OllamaTimesOut, Requests
  <2>2. \A n \in TokenCounts : [code |-> "OK", tokens |-> n] \in Replies
    BY DEF Replies
  <2>3. \A e : Failure(SetOllamaError(e)) \in Replies
    BY SetOllamaErrorType, FailureType DEF GRPCErrors
  <2>4. \E rep \in Replies : LeaveCall(r, rep)
    BY <1>14, <2>2, <2>3 DEF OllamaAnswers, OllamaRefuses, OllamaFails, OllamaTimesOut
  <2>5. UNCHANGED queue
    BY <1>14 DEF OllamaAnswers, OllamaRefuses, OllamaFails, OllamaTimesOut
  <2> QED BY <2>1, <2>4, <2>5, FinishStep
<1>15. CASE Tick
  <2>1. ttl' \in [Requests -> Nat] /\ otl' \in [Requests -> Nat]
    BY <1>15, CountDownType DEF Tick, TypeOK
  <2>2. held' \in [Requests -> Nat]
    BY <1>15 DEF Tick, TypeOK
  <2> QED BY <1>15, <2>1, <2>2, PoolUnchanged DEF Tick, TypeOK, metrics
<1>16. CASE ConnectionBreaks
  BY <1>16, LoseConnectionType, PoolUnchanged DEF ConnectionBreaks, TypeOK, gateway, metrics, ollamaCall
<1>17. CASE Crash
  <2>0. reply' \in [Requests -> Replies] /\ faults' \in 0..MaxFaults /\ connected' \in BOOLEAN
    BY <1>17, LoseConnectionType DEF Crash
  <2>1. TypeOK'
    <3>1. queue' \in Seq(Requests) /\ active_rpc_count' \in Nat
      BY <1>17 DEF Crash
    <3>4. up' \in BOOLEAN
      BY <1>17 DEF Crash
    <3>2. call' \in [Requests -> {"none", "sent", "queued", "running", "ended"}]
      BY <1>17 DEF Crash, TypeOK
    <3>3. /\ ollama' \in [Requests -> {"idle", "connect", "read"}]
          /\ otl' \in [Requests -> Nat]
          /\ ops' \in [Requests -> Nat]
          /\ held' \in [Requests -> Nat]
      BY <1>17 DEF Crash
    <3> QED BY <1>17, <2>0, <3>1, <3>2, <3>3, <3>4 DEF Crash, TypeOK, gateway, metrics
  <2>2. InPool' = {} /\ Queued' = {} /\ Running' = {}
    BY <1>17 DEF Crash, InPool, Queued, Running
  <2>3. Cardinality({}) = 0 /\ Len(queue') = 0
    BY <1>17, FS_EmptySet DEF Crash
  <2> QED BY <1>17, <2>1, <2>2, <2>3 DEF Crash, PoolInv
<1>18. CASE Restart \/ Reconnect
  BY <1>18, PoolUnchanged DEF Restart, Reconnect, TypeOK, gateway, metrics, ollamaCall
<1>19. CASE UNCHANGED vars
  BY <1>19, PoolUnchanged DEF vars, TypeOK, gateway, metrics, backend, ollamaCall
<1>20. ASSUME NEW r \in Requests, RejectIris(r) \/ RejectModel(r) PROVE TypeOK' /\ PoolInv'
  BY <1>20, <1>1 DEF RejectIris, RejectModel
<1>21. ASSUME NEW r \in Requests, ForwardIris(r) \/ ForwardModel(r) PROVE TypeOK' /\ PoolInv'
  BY <1>21, <1>2 DEF ForwardIris, ForwardModel, StartRPC, ProtocolInv
<1>22. ASSUME NEW r \in Requests, HandlerStep(r) PROVE TypeOK' /\ PoolInv'
  <2>1. reply[r] \in Replies
    BY DEF TypeOK
  <2> QED BY <1>3, <1>22, <2>1, FailureType
          DEF HandlerStep, ReplyArrives, DeadlineFires, ClientDisconnects, GRPCErrors
<1> QED
  BY <1>4, <1>5, <1>6, <1>7, <1>8, <1>9, <1>10, <1>11, <1>12, <1>13, <1>14, <1>15, <1>16, <1>17,
     <1>18, <1>19, <1>20, <1>21, <1>22
  DEF Next, IrisStep, ModelStep, ChannelStep, WorkerStart, OllamaStep, Proceeds, Terminated, Requests

-----------------------------------------------------------------------------
(* The protocol between handler, call and reply.                           *)

\* A reply changes one entry of reply[], and that only while the handler waits.
LEMMA ReplyEffect ==
    ASSUME TypeOK, NEW r \in Requests, NEW rep, Reply(r, rep)
    PROVE  \A q \in Requests : reply'[q] = reply[q] \/ (q = r /\ handler[r] = "calling" /\ reply'[q] = rep)
BY DEF TypeOK, Reply

\* The only gRPC error that becomes a 400 is INVALID_ARGUMENT.
LEMMA Status400 ==
    /\ \A c \in GRPCErrors : APIErrorFromGRPC(c).status = 400 => c = "INVALID_ARGUMENT"
    /\ \A c \in GRPCErrors : APIErrorFromGRPC(c).status = 504 => c = "DEADLINE_EXCEEDED"
    /\ Success.status = 200
    /\ ValidationError.status = 400
    /\ Unanswered.status = 0
BY DEF APIErrorFromGRPC, Success, ValidationError, GRPCErrors, Unanswered

\* No answer is the placeholder of an unanswered request.
LEMMA AnswersAreNot0 == \A a \in Answers : a # Unanswered
BY AnswerStatus DEF HTTPStatuses, Unanswered

\* What an RPC's return does to the handler and its answer.
LEMMA ReturnsEffect ==
    ASSUME TypeOK, NEW r \in Requests, NEW rep \in Replies, rep # NoReply, Returns(r, rep)
    PROVE  /\ handler[r] = "calling" /\ handler' = [handler EXCEPT ![r] = "answered"]
           /\ answer' = [answer EXCEPT ![r] = IF rep.code = "OK" THEN Success ELSE APIErrorFromGRPC(rep.code)]
           /\ answer'[r] \in Answers
           /\ answer'[r].status = 400 => rep.code = "INVALID_ARGUMENT"
           /\ answer'[r].status = 504 => rep.code = "DEADLINE_EXCEEDED"
           /\ UNCHANGED <<body, ttl, call, reply, cancelled, backend>>
<1>1. rep.code \in GRPCErrors \cup {"OK"}
  BY ReplyType
<1>2. /\ handler[r] = "calling" /\ handler' = [handler EXCEPT ![r] = "answered"]
      /\ answer' = [answer EXCEPT ![r] = IF rep.code = "OK" THEN Success ELSE APIErrorFromGRPC(rep.code)]
      /\ UNCHANGED <<body, ttl, call, reply, cancelled, backend>>
  BY DEF Returns, IrisReturns, ModelReturns, Respond
<1>3. answer'[r] = IF rep.code = "OK" THEN Success ELSE APIErrorFromGRPC(rep.code)
  BY <1>2 DEF TypeOK
<1>4. answer'[r] \in Answers
  BY <1>1, <1>3, ErrorAnswerType, AnswerStatus
<1> QED BY <1>1, <1>2, <1>3, <1>4, Status400

\* A body the gateway accepts and python-ai refuses is a prompt of white space:
\* the gateway's range check of iris features is never weaker than python-ai's.
LEMMA GatewayImpliesBackend ==
    ASSUME TypeOK
    PROVE  /\ \A r \in IrisRequests : GatewayAccepts(r) => IrisBackendAccepts(body[r])
           /\ \A r \in ModelRequests : ~ModelBackendAccepts(body[r]) => body[r].blank
<1>1. ASSUME NEW r \in IrisRequests, GatewayAccepts(r) PROVE IrisBackendAccepts(body[r])
  <2>1. body[r] \in IrisBody
    BY DEF TypeOK, WellFormed
  <2>2. \A n \in FeatureNames : body[r].features[n].kind \in FeatureKinds
    BY <2>1 DEF IrisBody, Feature
  <2>3. IrisGatewayAccepts(body[r])
    BY <1>1 DEF GatewayAccepts
  <2> QED BY <2>2, <2>3 DEF IrisGatewayAccepts, IrisBackendAccepts, ValidateIrisFeature,
                            FeatureKinds, MaxIrisFeatureCm, MAX_FEATURE_CM
<1> QED BY <1>1 DEF ModelBackendAccepts

\* What GatewayAccepts says of a body does not change.
LEMMA AcceptsUnchanged ==
    ASSUME UNCHANGED body
    PROVE  \A r \in Requests : GatewayAccepts(r)' <=> GatewayAccepts(r)
BY DEF GatewayAccepts

\* A worker that leaves a call with a status other than INVALID_ARGUMENT, or with
\* that one for a blank prompt, keeps the protocol.
LEMMA LeaveCallProtocol ==
    ASSUME TypeOK, ProtocolInv, NEW r \in Requests, NEW rep \in Replies,
           call[r] # "none", LeaveCall(r, rep),
           rep.code = "INVALID_ARGUMENT" => r \in ModelRequests /\ body[r].blank
    PROVE  ProtocolInv'
<1>1. /\ call' = [call EXCEPT ![r] = "ended"]
      /\ UNCHANGED <<body, handler, answer>>
      /\ \A q \in Requests : reply'[q] = reply[q] \/ (q = r /\ reply'[q] = rep)
  BY ReplyEffect DEF LeaveCall, EndCall, gateway
<1> QED BY <1>1, AcceptsUnchanged DEF ProtocolInv, TypeOK

\* Every step keeps the protocol.
LEMMA ProtocolStep ==
    ASSUME TypeOK, PoolInv, ProtocolInv, ClockInv, [Next]_vars
    PROVE  ProtocolInv'
<1> USE DEF ProtocolInv
<1>1. ASSUME NEW r \in Requests,
             (r \in IrisRequests /\ RejectIris(r)) \/ (r \in ModelRequests /\ RejectModel(r))
      PROVE  ProtocolInv'
  <2>1. /\ handler[r] = "new" /\ handler' = [handler EXCEPT ![r] = "answered"]
        /\ answer' = [answer EXCEPT ![r] = ValidationError]
        /\ UNCHANGED <<body, call, reply>>
    BY <1>1 DEF RejectIris, RejectModel, RejectInvalid, Respond
  <2>2. call[r] = "none" /\ ValidationError # Unanswered
    BY <2>1, AnswersAreNot0, AnswerStatus
  <2>3. ASSUME NEW q \in Requests, q # r
        PROVE  handler'[q] = handler[q] /\ answer'[q] = answer[q]
    BY <2>1, <2>3 DEF TypeOK
  <2>4. handler'[r] = "answered" /\ answer'[r] = ValidationError
    BY <2>1 DEF TypeOK
  <2>5. ~GatewayAccepts(r)
    BY <1>1 DEF RejectIris, RejectModel, GatewayAccepts
  <2> QED BY <2>1, <2>2, <2>3, <2>4, <2>5, AcceptsUnchanged
<1>2. ASSUME NEW r \in Requests,
             (r \in IrisRequests /\ ForwardIris(r)) \/ (r \in ModelRequests /\ ForwardModel(r))
      PROVE  ProtocolInv'
  <2>1. /\ handler[r] = "new" /\ handler' = [handler EXCEPT ![r] = "calling"]
        /\ call' = [call EXCEPT ![r] = "sent"]
        /\ UNCHANGED <<body, answer, reply>>
    BY <1>2 DEF ForwardIris, ForwardModel, StartRPC
  <2>2. GatewayAccepts(r)
    BY <1>2 DEF ForwardIris, ForwardModel, GatewayAccepts
  <2> QED BY <2>1, <2>2, AcceptsUnchanged DEF TypeOK
<1>3. ASSUME NEW r \in Requests, HandlerStep(r) PROVE ProtocolInv'
  <2>1. PICK rep \in Replies :
           /\ rep # NoReply /\ Returns(r, rep)
           /\ rep.code = "INVALID_ARGUMENT" => rep = reply[r]
    <3>1. reply[r] \in Replies
      BY DEF TypeOK
    <3>2. /\ Failure("DEADLINE_EXCEEDED").code # "INVALID_ARGUMENT"
          /\ Failure("CANCELLED").code # "INVALID_ARGUMENT"
      BY DEF Failure
    <3> QED BY <1>3, <3>1, <3>2, FailureType
            DEF HandlerStep, ReplyArrives, DeadlineFires, ClientDisconnects, GRPCErrors
  <2>2. /\ handler[r] = "calling" /\ handler' = [handler EXCEPT ![r] = "answered"]
        /\ answer'[r] \in Answers /\ answer'[r] # Unanswered
        /\ answer'[r].status = 400 => reply[r].code = "INVALID_ARGUMENT"
        /\ UNCHANGED <<body, call, reply>>
    BY <2>1, ReturnsEffect, AnswersAreNot0
  <2>3. \A q \in Requests \ {r} : answer'[q] = answer[q] /\ handler'[q] = handler[q]
    BY <2>1, ReturnsEffect DEF TypeOK
  <2>4. handler'[r] = "answered"
    BY <2>2 DEF TypeOK
  <2> QED BY <2>2, <2>3, <2>4, AcceptsUnchanged
<1>4. ASSUME NEW r \in Requests, Admit(r) PROVE ProtocolInv'
  BY <1>4, AcceptsUnchanged DEF Admit, TypeOK, gateway
<1>5. ASSUME NEW r \in Requests, Refuse(r) \/ FailFast(r) PROVE ProtocolInv'
  <2>1. /\ call[r] = "sent" /\ call' = [call EXCEPT ![r] = "ended"]
        /\ UNCHANGED <<body, handler, answer>>
    BY <1>5 DEF Refuse, FailFast, EndCall, gateway
  <2>2. \A q \in Requests : reply'[q] = reply[q] \/
           (q = r /\ reply'[q].code \in {"RESOURCE_EXHAUSTED", "UNAVAILABLE"})
    BY <1>5, ReplyEffect DEF Refuse, FailFast, Failure
  <2>3. call'[r] = "ended" /\ \A q \in Requests \ {r} : call'[q] = call[q]
    BY <2>1 DEF TypeOK
  <2> QED BY <2>1, <2>2, <2>3, AcceptsUnchanged
<1>6. ASSUME NEW r \in Requests, LoseCall(r) PROVE ProtocolInv'
  BY <1>6, AcceptsUnchanged DEF LoseCall, EndCall, TypeOK, gateway
<1>7. ASSUME NEW r \in Requests, CancelArrives(r) PROVE ProtocolInv'
  BY <1>7, AcceptsUnchanged DEF CancelArrives, gateway
<1>8. ASSUME NEW r \in Requests, SkipCancelled(r) \/ StartIris(r) \/ StartModel(r)
      PROVE  ProtocolInv'
  <2>1. call[r] = "queued"
    BY <1>8, HeadOfQueue DEF SkipCancelled, StartIris, StartModel, Generate
  <2>2. /\ call' = [call EXCEPT ![r] = "ended"] \/ call' = [call EXCEPT ![r] = "running"]
        /\ UNCHANGED <<body, handler, answer, reply>>
    BY <1>8 DEF SkipCancelled, StartIris, StartModel, Generate, EndCall, gateway
  <2> QED BY <2>1, <2>2, AcceptsUnchanged DEF TypeOK
<1>9. ASSUME NEW r \in Requests, IrisFinishes(r) PROVE ProtocolInv'
  <2>1. r \in IrisRequests /\ call[r] = "running"
    BY <1>9 DEF IrisFinishes
  <2>2. IrisBackendAccepts(body[r])
    BY <2>1, GatewayImpliesBackend
  <2>3. PICK rep \in IrisOutcomes(body[r]) : LeaveCall(r, rep)
    BY <1>9 DEF IrisFinishes
  <2>4. rep \in Replies /\ rep.code # "INVALID_ARGUMENT"
    BY <2>2, <2>3, FailureType DEF IrisOutcomes, Replies, GRPCErrors, Failure
  <2> QED BY <2>1, <2>3, <2>4, LeaveCallProtocol
<1>10. ASSUME NEW r \in Requests, RefusePrompt(r) PROVE ProtocolInv'
  <2>1. call[r] = "queued"
    BY <1>10, HeadOfQueue DEF RefusePrompt
  <2>2. r \in ModelRequests /\ body[r].blank
    BY <1>10, GatewayImpliesBackend DEF RefusePrompt
  <2>3. Failure("INVALID_ARGUMENT") \in Replies
    BY FailureType DEF GRPCErrors
  <2> QED BY <1>10, <2>1, <2>2, <2>3, LeaveCallProtocol DEF RefusePrompt
<1>11. ASSUME NEW r \in ModelRequests, Proceeds(r) PROVE ProtocolInv'
  BY <1>11, ProceedEffect, AcceptsUnchanged DEF NextOperation, Waits, gateway
<1>12. ASSUME NEW r \in ModelRequests,
              OllamaAnswers(r) \/ OllamaRefuses(r) \/ OllamaFails(r) \/ OllamaTimesOut(r)
       PROVE  ProtocolInv'
  <2>1. call[r] = "running" /\ r \in Requests
    BY <1>12 DEF ClockInv, OllamaClock, OllamaAnswers, OllamaRefuses, OllamaFails, OllamaTimesOut, Requests
  <2>2. \A n \in TokenCounts :
           [code |-> "OK", tokens |-> n] \in Replies /\ [code |-> "OK", tokens |-> n].code = "OK"
    BY DEF Replies
  <2>3. \A e : /\ Failure(SetOllamaError(e)) \in Replies
               /\ Failure(SetOllamaError(e)).code # "INVALID_ARGUMENT"
    BY SetOllamaErrorType, FailureType DEF GRPCErrors, Failure
  <2>4. \E rep \in Replies : LeaveCall(r, rep) /\ rep.code # "INVALID_ARGUMENT"
    BY <1>12, <2>2, <2>3 DEF OllamaAnswers, OllamaRefuses, OllamaFails, OllamaTimesOut
  <2> QED BY <2>1, <2>4, LeaveCallProtocol
<1>13. CASE Tick
  BY <1>13, AcceptsUnchanged DEF Tick
<1>14. CASE ConnectionBreaks \/ Crash
  <2>1. /\ UNCHANGED <<body, handler, answer>>
        /\ \A q \in Requests : (call'[q] = "none" <=> call[q] = "none")
    <3>1. CASE ConnectionBreaks
      BY <3>1 DEF ConnectionBreaks, gateway
    <3>2. CASE Crash
      BY <3>2 DEF Crash, InPool, gateway
    <3> QED BY <1>14, <3>1, <3>2
  <2>2. \A q \in Requests : \/ reply'[q] = reply[q]
                            \/ handler[q] = "calling" /\ reply'[q].code = "UNAVAILABLE"
    BY <1>14 DEF ConnectionBreaks, Crash, LoseConnection, Calling, Failure
  <2> QED BY <2>1, <2>2, AcceptsUnchanged
<1>15. CASE Restart \/ Reconnect \/ UNCHANGED vars
  BY <1>15, AcceptsUnchanged DEF Restart, Reconnect, vars, gateway
<1> QED
  BY <1>1, <1>2, <1>3, <1>4, <1>5, <1>6, <1>7, <1>8, <1>9, <1>10, <1>11, <1>12, <1>13, <1>14, <1>15
  DEF Next, IrisStep, ModelStep, ChannelStep, WorkerStart, OllamaStep, Proceeds, Terminated, Requests

-----------------------------------------------------------------------------
(* The clocks.                                                             *)

\* A worker that leaves a call stops its clocks; a reply of DEADLINE_EXCEEDED
\* needs a whole Ollama timeout to have gone by.
LEMMA LeaveCallClock ==
    ASSUME TypeOK, ClockInv, NEW r \in Requests, NEW rep, LeaveCall(r, rep),
           rep.code = "DEADLINE_EXCEEDED" /\ handler[r] = "calling" =>
               r \in ModelRequests /\ ttl[r] + OllamaTimeout <= ModelTimeout
    PROVE  ClockInv'
<1>1. /\ UNCHANGED <<handler, ttl>>
      /\ call'[r] = "ended" /\ ollama'[r] = "idle" /\ held'[r] = 0 /\ ops'[r] = 0
      /\ \A q \in Requests \ {r} :
            /\ call'[q] = call[q] /\ ollama'[q] = ollama[q]
            /\ held'[q] = held[q] /\ otl'[q] = otl[q] /\ ops'[q] = ops[q]
  BY DEF LeaveCall, EndCall, TypeOK, gateway
<1>2. \A q \in Requests : reply'[q] = reply[q] \/ (q = r /\ handler[r] = "calling" /\ reply'[q] = rep)
  BY ReplyEffect DEF LeaveCall
<1>3. \A q \in Requests : ttl[q] \in Nat /\ held[q] \in Nat
  BY DEF TypeOK
<1>4. ASSUME NEW q \in IrisRequests PROVE ollama'[q] = "idle" /\ reply'[q].code # "DEADLINE_EXCEEDED"
  BY <1>1, <1>2 DEF ClockInv, Requests
<1>5. ASSUME NEW q \in ModelRequests
      PROVE  OllamaClock(q)'
  <2>1. CASE q = r
    BY <1>1, <1>2, <1>3, <2>1 DEF ClockInv, OllamaClock, Requests
  <2>2. CASE q # r
    BY <1>1, <1>2, <2>2 DEF ClockInv, OllamaClock, Requests
  <2> QED BY <2>1, <2>2
<1> QED BY <1>4, <1>5 DEF ClockInv

\* A step that moves calls and replies, but no clock, keeps ClockInv when no call
\* starts or stops running and no reply of DEADLINE_EXCEEDED appears.
LEMMA ClockStill ==
    ASSUME TypeOK, ClockInv, UNCHANGED <<ttl, ollama, otl, ops, held>>,
           \A q \in Requests : handler'[q] = "calling" => handler[q] = "calling",
           \A q \in ModelRequests : call'[q] = "running" <=> call[q] = "running",
           \A q \in Requests : reply'[q] = reply[q] \/ reply'[q].code # "DEADLINE_EXCEEDED"
    PROVE  ClockInv'
BY DEF ClockInv, OllamaClock, Requests

\* Every step keeps the sums of the clocks.
LEMMA ClockStep ==
    ASSUME TypeOK, PoolInv, ProtocolInv, ClockInv, [Next]_vars
    PROVE  ClockInv'
<1>1. ASSUME NEW r \in Requests, RejectIris(r) \/ RejectModel(r) PROVE ClockInv'
  <2>1. UNCHANGED <<call, reply, ttl, ollama, otl, ops, held>> /\ handler' = [handler EXCEPT ![r] = "answered"]
    BY <1>1 DEF RejectIris, RejectModel, RejectInvalid, Respond, backend, ollamaCall
  <2>2. \A q \in Requests : handler'[q] = "calling" => handler[q] = "calling"
    BY <2>1 DEF TypeOK
  <2> QED BY <2>1, <2>2, ClockStill
<1>2. ASSUME NEW r \in Requests,
             (r \in IrisRequests /\ ForwardIris(r)) \/ (r \in ModelRequests /\ ForwardModel(r))
      PROVE  ClockInv'
  <2>1. /\ handler[r] = "new" /\ UNCHANGED <<reply, ollama, otl, ops, held>>
        /\ call'[r] = "sent"
        /\ \A q \in Requests \ {r} : handler'[q] = handler[q] /\ ttl'[q] = ttl[q] /\ call'[q] = call[q]
    BY <1>2 DEF ForwardIris, ForwardModel, StartRPC, TypeOK, backend, ollamaCall
  <2>2. r \in ModelRequests => ttl'[r] = ModelTimeout
    BY <1>2 DEF ForwardIris, ForwardModel, StartRPC, TypeOK
  <2>3. call[r] = "none" /\ reply[r] = NoReply
    BY <2>1 DEF ProtocolInv
  <2>4. r \in ModelRequests => ollama[r] = "idle" /\ held[r] = 0 /\ ops[r] = 0
    BY <2>3 DEF ClockInv, OllamaClock
  <2>5. ASSUME NEW q \in ModelRequests
        PROVE  OllamaClock(q)'
    <3>1. CASE q = r
      BY <2>1, <2>2, <2>3, <2>4, <3>1 DEF NoReply, OllamaClock
    <3>2. CASE q # r
      BY <2>1, <3>2 DEF ClockInv, OllamaClock, Requests
    <3> QED BY <3>1, <3>2
  <2> QED BY <2>1, <2>5 DEF ClockInv
<1>3. ASSUME NEW r \in Requests, HandlerStep(r) PROVE ClockInv'
  <2>1. UNCHANGED <<call, reply, ttl, ollama, otl, ops, held>> /\ handler' = [handler EXCEPT ![r] = "answered"]
    BY <1>3 DEF HandlerStep, ReplyArrives, DeadlineFires, ClientDisconnects, Returns, IrisReturns,
                ModelReturns, Respond, backend, ollamaCall
  <2>2. \A q \in Requests : handler'[q] = "calling" => handler[q] = "calling"
    BY <2>1 DEF TypeOK
  <2> QED BY <2>1, <2>2, ClockStill
<1>4. ASSUME NEW r \in Requests,
             Admit(r) \/ Refuse(r) \/ FailFast(r) \/ LoseCall(r) \/ CancelArrives(r)
      PROVE  ClockInv'
  <2>1. /\ UNCHANGED <<handler, ttl, ollama, otl, ops, held>>
        /\ \/ call[r] = "sent" /\ call' = [call EXCEPT ![r] = "queued"]
           \/ call[r] = "sent" /\ call' = [call EXCEPT ![r] = "ended"]
           \/ UNCHANGED call
    BY <1>4 DEF Admit, Refuse, FailFast, LoseCall, CancelArrives, EndCall, gateway, backend, ollamaCall
  <2>2. \A q \in Requests : reply'[q] = reply[q] \/ reply'[q].code # "DEADLINE_EXCEEDED"
    BY <1>4, ReplyEffect DEF Admit, Refuse, FailFast, LoseCall, CancelArrives, Failure
  <2>3. \A q \in Requests : call'[q] = "running" <=> call[q] = "running"
    BY <2>1 DEF TypeOK
  <2> QED BY <2>1, <2>2, <2>3, ClockStill DEF Requests
<1>5. ASSUME NEW r \in Requests, SkipCancelled(r) \/ StartIris(r) PROVE ClockInv'
  <2>1. call[r] = "queued"
    BY <1>5, HeadOfQueue DEF SkipCancelled, StartIris
  <2>2. /\ UNCHANGED <<handler, ttl, reply, ollama, otl, ops, held>>
        /\ \/ call' = [call EXCEPT ![r] = "ended"]
           \/ r \in IrisRequests /\ call' = [call EXCEPT ![r] = "running"]
    BY <1>5 DEF SkipCancelled, StartIris, EndCall, gateway, ollamaCall
  <2>3. \A q \in ModelRequests : call'[q] = "running" <=> call[q] = "running"
    BY <2>1, <2>2 DEF TypeOK, Requests
  <2> QED BY <2>2, <2>3, ClockStill
<1>6. ASSUME NEW r \in Requests, IrisFinishes(r) PROVE ClockInv'
  <2>1. \A rep \in IrisOutcomes(body[r]) : rep.code # "DEADLINE_EXCEEDED"
    BY DEF IrisOutcomes, Failure
  <2> QED BY <1>6, <2>1, LeaveCallClock DEF IrisFinishes
<1>7. ASSUME NEW r \in Requests, RefusePrompt(r) PROVE ClockInv'
  <2>1. Failure("INVALID_ARGUMENT").code # "DEADLINE_EXCEEDED"
    BY DEF Failure
  <2> QED BY <1>7, <2>1, LeaveCallClock DEF RefusePrompt
<1>8. ASSUME NEW r \in Requests, StartModel(r) PROVE ClockInv'
  <2>1. r \in ModelRequests
    BY <1>8 DEF StartModel, Generate
  <2>2. call[r] = "queued" /\ ollama[r] = "idle" /\ held[r] = 0 /\ ops[r] = 0
    BY <1>8, <2>1, HeadOfQueue DEF StartModel, Generate, ClockInv, OllamaClock
  <2>3. /\ UNCHANGED <<handler, ttl, reply, ops, held>>
        /\ call'[r] = "running" /\ ollama'[r] \in {"connect", "read"} /\ otl'[r] = OllamaTimeout
        /\ \A q \in Requests \ {r} :
              call'[q] = call[q] /\ ollama'[q] = ollama[q] /\ otl'[q] = otl[q]
    BY <1>8, <2>1 DEF StartModel, Generate, TypeOK, gateway
  <2>4. /\ held'[r] + otl'[r] = OllamaTimeout
        /\ OllamaTimeout <= TimeFor(0 + 1) /\ OllamaTimeout <= TimeFor(Addresses + 0 + 1)
    <3>1. TimeFor(0 + 1) = OllamaTimeout
      BY DEF TimeFor
    <3>2. TimeFor(0 + 1) <= TimeFor(Addresses + 0 + 1)
      BY TimeForOperations
    <3> QED BY <2>2, <2>3, <3>1, <3>2
  <2>5. ASSUME NEW q \in ModelRequests
        PROVE  OllamaClock(q)'
    <3>1. CASE q = r
      BY <2>1, <2>2, <2>3, <2>4, <3>1 DEF ClockInv, OllamaClock
    <3>2. CASE q # r
      BY <2>3, <3>2 DEF ClockInv, OllamaClock, Requests
    <3> QED BY <3>1, <3>2
  <2>6. ASSUME NEW q \in IrisRequests PROVE ollama'[q] = "idle" /\ reply'[q].code # "DEADLINE_EXCEEDED"
    BY <2>1, <2>3 DEF ClockInv, Requests
  <2> QED BY <2>5, <2>6 DEF ClockInv
<1>9. ASSUME NEW r \in ModelRequests, Proceeds(r) PROVE ClockInv'
  <2>1. r \in Requests /\ held[r] \in Nat /\ otl[r] \in Nat /\ ops[r] \in Nat
    BY DEF TypeOK, Requests
  <2>2. ASSUME NEW phase \in {"connect", "read"}, NEW n \in Nat, NextOperation(r, phase, n), ollama[r] # "idle",
               phase = "connect" => n < Addresses /\ held[r] + OllamaTimeout <= TimeFor(n + 1),
               phase = "read" => n < MaxReads /\ held[r] + OllamaTimeout <= TimeFor(Addresses + n + 1)
        PROVE  ClockInv'
    <3>1. /\ UNCHANGED <<handler, ttl, call, reply, held>>
          /\ ollama'[r] = phase /\ otl'[r] = OllamaTimeout /\ ops'[r] = n
          /\ \A q \in Requests \ {r} : ollama'[q] = ollama[q] /\ otl'[q] = otl[q] /\ ops'[q] = ops[q]
      BY <2>1, <2>2 DEF NextOperation, Waits, TypeOK, gateway
    <3>2. OllamaClock(r)'
      BY <2>1, <2>2, <3>1 DEF ClockInv, OllamaClock
    <3>3. \A q \in ModelRequests \ {r} : OllamaClock(q)'
      BY <3>1 DEF ClockInv, OllamaClock, Requests
    <3> QED BY <2>1, <3>1, <3>2, <3>3 DEF ClockInv, Requests
  <2>3. OllamaClock(r)
    BY DEF ClockInv
  <2>4. CASE OllamaNextAddress(r)
    <3>1. ollama[r] = "connect" /\ ops[r] + 1 \in Nat /\ ops[r] + 1 # Addresses
      BY <2>1, <2>4 DEF OllamaNextAddress, LastAddress
    <3>2. ops[r] + 1 < Addresses
      BY <2>1, <2>3, <3>1 DEF OllamaClock
    <3>3. TimeFor((ops[r] + 1) + 1) = TimeFor(ops[r] + 1) + OllamaTimeout /\ TimeFor(ops[r] + 1) \in Nat
      BY <3>1, TimeForOperations
    <3>4. held[r] + OllamaTimeout <= TimeFor((ops[r] + 1) + 1)
      BY <2>1, <2>3, <3>1, <3>3 DEF OllamaClock
    <3> QED BY <2>2, <2>4, <3>1, <3>2, <3>4 DEF OllamaNextAddress
  <2>5. CASE OllamaConnected(r)
    <3>1. ollama[r] = "connect" /\ ops[r] + 1 \in Nat /\ ops[r] + 1 <= Addresses
      BY <2>1, <2>3, <2>5 DEF OllamaClock, OllamaConnected
    <3>2. /\ TimeFor(ops[r] + 1) \in Nat /\ TimeFor(Addresses) \in Nat
          /\ TimeFor(ops[r] + 1) <= TimeFor(Addresses) /\ TimeFor(Addresses + 1) = TimeFor(Addresses) + OllamaTimeout
      BY <3>1, TimeForOperations
    <3>3. Addresses + 0 + 1 = Addresses + 1
      OBVIOUS
    <3>4. held[r] + OllamaTimeout <= TimeFor(Addresses + 0 + 1)
      BY <2>1, <2>3, <3>1, <3>2, <3>3 DEF OllamaClock
    <3> QED BY <2>2, <2>5, <3>1, <3>4 DEF OllamaConnected
  <2>6. CASE OllamaSendsPart(r)
    <3>1. ollama[r] = "read" /\ ops[r] + 1 \in Nat /\ ops[r] + 1 < MaxReads
      BY <2>1, <2>6 DEF OllamaSendsPart
    <3>2. Addresses + ops[r] + 1 \in Nat /\ Addresses + (ops[r] + 1) + 1 = (Addresses + ops[r] + 1) + 1
      BY <2>1
    <3>3. /\ TimeFor(Addresses + ops[r] + 1) \in Nat
          /\ TimeFor(Addresses + (ops[r] + 1) + 1) = TimeFor(Addresses + ops[r] + 1) + OllamaTimeout
      BY <3>2, TimeForOperations
    <3>4. held[r] + OllamaTimeout <= TimeFor(Addresses + (ops[r] + 1) + 1)
      BY <2>1, <2>3, <3>1, <3>3 DEF OllamaClock
    <3> QED BY <2>2, <2>6, <3>1, <3>4 DEF OllamaSendsPart
  <2> QED BY <1>9, <2>4, <2>5, <2>6 DEF Proceeds
<1>10. ASSUME NEW r \in ModelRequests, OllamaAnswers(r) \/ OllamaRefuses(r) \/ OllamaFails(r)
       PROVE  ClockInv'
  <2>1. /\ SetOllamaError("ConnectionError") # "DEADLINE_EXCEEDED"
        /\ \A e \in {"ReadError", "ResponseError", "ValidationError"} : SetOllamaError(e) # "DEADLINE_EXCEEDED"
    BY DEF SetOllamaError, TransportErrors
  <2>2. r \in Requests
    BY DEF Requests
  <2>3. CASE OllamaAnswers(r)
    BY <2>2, <2>3, LeaveCallClock DEF OllamaAnswers
  <2>4. ASSUME NEW e \in OllamaExceptions, LeaveCall(r, Failure(SetOllamaError(e))),
               SetOllamaError(e) # "DEADLINE_EXCEEDED"
        PROVE  ClockInv'
    <3>1. Failure(SetOllamaError(e)).code # "DEADLINE_EXCEEDED"
      BY <2>4 DEF Failure
    <3> QED BY <2>2, <2>4, <3>1, LeaveCallClock
  <2> QED BY <1>10, <2>1, <2>3, <2>4 DEF OllamaRefuses, OllamaFails, OllamaExceptions
<1>11. ASSUME NEW r \in ModelRequests, OllamaTimesOut(r) PROVE ClockInv'
  <2>1. ollama[r] \in {"connect", "read"} /\ otl[r] = 0 /\ held[r] \in Nat /\ ttl[r] \in Nat
    BY <1>11 DEF OllamaTimesOut, TypeOK, Requests
  <2>2. held[r] >= OllamaTimeout
    BY <2>1 DEF ClockInv, OllamaClock
  <2>3. handler[r] = "calling" => ttl[r] + OllamaTimeout <= ModelTimeout
    BY <2>1, <2>2 DEF ClockInv, OllamaClock
  <2> QED BY <1>11, <2>3, LeaveCallClock DEF OllamaTimesOut, Requests
<1>12. CASE Tick
  <2>1. ASSUME NEW q \in ModelRequests
        PROVE  /\ ttl[q] \in Nat /\ otl[q] \in Nat /\ held[q] \in Nat
               /\ handler[q] = "calling" => ttl'[q] = ttl[q] - 1
               /\ handler[q] # "calling" => ttl'[q] = ttl[q]
               /\ ollama[q] # "idle" => otl'[q] = otl[q] - 1 /\ held'[q] = held[q] + 1
               /\ ollama[q] = "idle" => held'[q] = held[q]
    <3>1. q \in Requests /\ (q \in Calling <=> handler[q] = "calling")
      BY DEF Requests, Calling
    <3>2. q \in InOllama <=> ollama[q] # "idle"
      BY DEF InOllama
    <3>3. ttl[q] \in Nat /\ otl[q] \in Nat /\ held[q] \in Nat
      BY <3>1 DEF TypeOK
    <3>4. ttl'[q] = CountDown(ttl, Calling)[q] /\ otl'[q] = CountDown(otl, InOllama)[q]
      BY <1>12 DEF Tick
    <3>5. q \in Calling => ttl[q] # 0
      BY <1>12 DEF Tick
    <3>6. q \in InOllama => otl[q] # 0 /\ held'[q] = held[q] + 1
      <4>1. q \in InOllama => otl[q] # 0 /\ otl[q] > 0
        BY <1>12, <3>3 DEF Tick
      <4> QED BY <1>12, <3>1, <4>1 DEF Tick
    <3>7. q \notin InOllama => held'[q] = held[q]
      BY <1>12, <3>1 DEF Tick
    <3>8. ttl \in [Requests -> Nat] /\ otl \in [Requests -> Nat]
      BY DEF TypeOK
    <3>9. /\ q \in Calling => CountDown(ttl, Calling)[q] = ttl[q] - 1
          /\ q \notin Calling => CountDown(ttl, Calling)[q] = ttl[q]
          /\ q \in InOllama => CountDown(otl, InOllama)[q] = otl[q] - 1
      BY <3>1, <3>5, <3>6, <3>8, CountDownType
    <3> QED BY <3>1, <3>2, <3>3, <3>4, <3>6, <3>7, <3>9
  <2>2. UNCHANGED <<handler, call, reply, ollama, ops>>
    BY <1>12 DEF Tick
  <2>3. ASSUME NEW q \in ModelRequests PROVE OllamaClock(q)'
    <3>1. OllamaClock(q) /\ ops[q] \in Nat
      BY DEF ClockInv, TypeOK, Requests
    <3>2. TimeFor(ops[q] + 1) \in Nat /\ TimeFor(Addresses + ops[q] + 1) \in Nat
      <4>1. ops[q] + 1 \in Nat /\ Addresses + ops[q] + 1 \in Nat
        BY <3>1
      <4> QED BY <4>1, TimeForOperations
    <3> QED BY <2>1, <2>2, <3>1, <3>2 DEF OllamaClock
  <2> QED BY <2>2, <2>3 DEF ClockInv
<1>13. CASE ConnectionBreaks
  <2>1. \A q \in Requests : reply'[q] = reply[q] \/ reply'[q].code # "DEADLINE_EXCEEDED"
    BY <1>13 DEF ConnectionBreaks, LoseConnection, Failure
  <2> QED BY <1>13, <2>1, ClockStill DEF ConnectionBreaks, gateway, ollamaCall
<1>14. CASE Crash
  <2>1. \A q \in Requests : reply'[q] = reply[q] \/ reply'[q].code # "DEADLINE_EXCEEDED"
    BY <1>14 DEF Crash, LoseConnection, Failure
  <2>2. /\ UNCHANGED <<handler, ttl>>
        /\ \A q \in Requests : ollama'[q] = "idle" /\ held'[q] = 0 /\ ops'[q] = 0
        /\ \A q \in Requests : call'[q] # "running" /\ ttl[q] \in Nat /\ held[q] \in Nat
    BY <1>14 DEF Crash, InPool, TypeOK, gateway
  <2> QED BY <2>1, <2>2 DEF ClockInv, OllamaClock, Requests
<1>15. CASE Restart \/ Reconnect \/ UNCHANGED vars
  BY <1>15 DEF Restart, Reconnect, vars, gateway, backend, ollamaCall, ClockInv, OllamaClock
<1>16. ASSUME NEW r \in IrisRequests, IrisStep(r) \/ IrisFinishes(r) PROVE ClockInv'
  BY <1>1, <1>2, <1>6, <1>16 DEF IrisStep, Requests
<1>17. ASSUME NEW r \in ModelRequests, ModelStep(r) \/ OllamaStep(r) PROVE ClockInv'
  BY <1>1, <1>2, <1>9, <1>10, <1>11, <1>17 DEF ModelStep, OllamaStep, Proceeds, Requests
<1>18. ASSUME NEW r \in Requests, HandlerStep(r) \/ ChannelStep(r) \/ WorkerStart(r) PROVE ClockInv'
  BY <1>3, <1>4, <1>5, <1>7, <1>8, <1>18 DEF ChannelStep, WorkerStart
<1> QED BY <1>12, <1>13, <1>14, <1>15, <1>16, <1>17, <1>18 DEF Next, Terminated

\* Every step keeps 504 honest.
LEMMA TimeoutStep ==
    ASSUME TypeOK, ProtocolInv, ClockInv, TimeoutHonest, [Next]_vars
    PROVE  TimeoutHonest'
<1>1. ASSUME UNCHANGED <<answer, ttl>> PROVE TimeoutHonest'
  BY <1>1 DEF TimeoutHonest
<1>2. ASSUME NEW r \in Requests, RejectIris(r) \/ RejectModel(r) PROVE TimeoutHonest'
  <2>1. /\ UNCHANGED ttl /\ answer'[r].status = 400
        /\ \A q \in Requests \ {r} : answer'[q] = answer[q]
    BY <1>2, Status400 DEF RejectIris, RejectModel, RejectInvalid, Respond, TypeOK
  <2> QED BY <2>1 DEF TimeoutHonest
<1>3. ASSUME NEW r \in Requests, ForwardIris(r) \/ ForwardModel(r) PROVE TimeoutHonest'
  <2>1. /\ UNCHANGED answer /\ handler[r] = "new"
        /\ \A q \in Requests \ {r} : ttl'[q] = ttl[q]
    BY <1>3 DEF ForwardIris, ForwardModel, StartRPC, TypeOK
  <2>2. answer[r].status = 0
    BY <2>1, Status400 DEF ProtocolInv
  <2> QED BY <2>1, <2>2 DEF TimeoutHonest
<1>4. ASSUME NEW r \in Requests, HandlerStep(r) PROVE TimeoutHonest'
  <2>1. PICK rep \in Replies :
           /\ rep # NoReply /\ Returns(r, rep)
           /\ rep.code = "DEADLINE_EXCEEDED" => rep = reply[r] \/ ttl[r] = 0
    <3>1. reply[r] \in Replies
      BY DEF TypeOK
    <3>2. Failure("CANCELLED").code # "DEADLINE_EXCEEDED"
      BY DEF Failure
    <3> QED BY <1>4, <3>1, <3>2, FailureType
            DEF HandlerStep, ReplyArrives, DeadlineFires, ClientDisconnects, GRPCErrors
  <2>2. /\ UNCHANGED ttl
        /\ answer'[r].status = 504 => rep.code = "DEADLINE_EXCEEDED"
        /\ \A q \in Requests \ {r} : answer'[q] = answer[q]
    BY <2>1, ReturnsEffect DEF TypeOK
  <2>3. reply[r].code = "DEADLINE_EXCEEDED" => r \in ModelRequests /\ ttl[r] + OllamaTimeout <= ModelTimeout
    BY DEF ClockInv, OllamaClock, Requests
  <2>4. ttl[r] \in Nat
    BY DEF TypeOK
  <2>5. answer'[r].status = 504 =>
           ttl[r] = 0 \/ (r \in ModelRequests /\ ModelTimeout - ttl[r] >= OllamaTimeout)
    BY <2>1, <2>2, <2>3, <2>4
  <2> QED BY <2>2, <2>5 DEF TimeoutHonest
<1>5. CASE Tick
  <2>0. ttl \in [Requests -> Nat]
    BY DEF TypeOK
  <2>1. \A q \in Requests : q \notin Calling => ttl'[q] = ttl[q]
    BY <1>5, <2>0, CountDownType DEF Tick
  <2>2. \A q \in Calling : answer[q].status = 0
    BY Status400 DEF ProtocolInv, Calling
  <2> QED BY <1>5, <2>1, <2>2 DEF Tick, TimeoutHonest
<1>6. ASSUME NEW r \in Requests,
             ChannelStep(r) \/ WorkerStart(r) \/ IrisFinishes(r) \/ OllamaStep(r)
      PROVE  UNCHANGED <<answer, ttl>>
  BY <1>6
  DEF ChannelStep, Admit, Refuse, FailFast, LoseCall, CancelArrives, WorkerStart, SkipCancelled,
      StartIris, RefusePrompt, StartModel, Generate, IrisFinishes, LeaveCall, OllamaStep,
      OllamaNextAddress, OllamaConnected, OllamaSendsPart, NextOperation, Waits, OllamaAnswers, OllamaRefuses,
      OllamaFails, OllamaTimesOut, gateway
<1>7. ASSUME ConnectionBreaks \/ Crash \/ Restart \/ Reconnect \/ UNCHANGED vars PROVE UNCHANGED <<answer, ttl>>
  BY <1>7 DEF ConnectionBreaks, Crash, Restart, Reconnect, vars, gateway
<1>8. ASSUME NEW r \in IrisRequests, IrisStep(r) \/ IrisFinishes(r) PROVE TimeoutHonest'
  BY <1>1, <1>2, <1>3, <1>6, <1>8 DEF IrisStep, Requests
<1>9. ASSUME NEW r \in ModelRequests, ModelStep(r) \/ OllamaStep(r) PROVE TimeoutHonest'
  BY <1>1, <1>2, <1>3, <1>6, <1>9 DEF ModelStep, Requests
<1>10. ASSUME NEW r \in Requests, HandlerStep(r) \/ ChannelStep(r) \/ WorkerStart(r) PROVE TimeoutHonest'
  BY <1>1, <1>4, <1>6, <1>10
<1> QED BY <1>1, <1>5, <1>7, <1>8, <1>9, <1>10 DEF Next, Terminated

-----------------------------------------------------------------------------
(* The inductive invariant, and what follows from it.                      *)

\* The initial states satisfy the inductive invariant.
LEMMA InitIInv == Init => IInv
<1> SUFFICES ASSUME Init PROVE IInv
  OBVIOUS
<1>1. TypeOK /\ PoolInv
  BY InitTypePool
<1>2. \A r \in Requests : answer[r] = Unanswered /\ handler[r] = "new" /\ call[r] = "none" /\ reply[r] = NoReply
  BY DEF Init
<1>3. ProtocolInv
  BY <1>2, Status400 DEF ProtocolInv, NoReply
<1>4. ClockInv
  BY DEF Init, ClockInv, OllamaClock, NoReply, Requests
<1>5. TimeoutHonest
  BY <1>2, Status400 DEF TimeoutHonest
<1> QED BY <1>1, <1>3, <1>4, <1>5 DEF IInv

\* Every step keeps the inductive invariant.
LEMMA NextIInv == IInv /\ [Next]_vars => IInv'
BY TypePoolStep, ProtocolStep, ClockStep, TimeoutStep DEF IInv

\* The inductive invariant holds in every reachable state.
THEOREM InductiveInvariant == Spec => []IInv
BY InitIInv, NextIInv, PTL DEF Spec

\* Type correctness, for every number of requests, workers and faults.
THEOREM TypeCorrect == Spec => []TypeOK
<1>1. IInv => TypeOK
  BY DEF IInv
<1> QED BY <1>1, InductiveInvariant, PTL

\* server.py's limits hold for every pool size: never more than MAX_WORKERS calls
\* run, never more than twice as many are in the pool, and the count that enforces
\* the second limit is exact in every reachable state, after a crash as well.
THEOREM PoolIsBounded == Spec => []PoolBounded
<1>1. IInv => PoolBounded
  <2> SUFFICES ASSUME IInv PROVE PoolBounded
    OBVIOUS
  <2>1. Queued = InPool \ Running
    BY DEF Queued, InPool, Running
  <2> QED BY <2>1 DEF IInv, PoolInv, PoolBounded
<1> QED BY <1>1, InductiveInvariant, PTL

\* No legal body is ever answered with a 400, and an iris request that reached
\* python-ai never is, whatever bodies clients send.
THEOREM BadRequestsAreHonest == Spec => []Status400Honest
<1>1. IInv => Status400Honest
  <2> SUFFICES ASSUME IInv, NEW r \in Requests, answer[r].status = 400
               PROVE  ~Legal(r) /\ (r \in IrisRequests => call[r] = "none")
    BY DEF Status400Honest
  <2>1. (call[r] = "none" /\ ~GatewayAccepts(r)) \/ (r \in ModelRequests /\ body[r].blank)
    BY DEF IInv, ProtocolInv
  <2>2. CASE r \in IrisRequests
    <3>1. call[r] = "none" /\ ~IrisGatewayAccepts(body[r])
      BY <2>1, <2>2 DEF GatewayAccepts
    <3> QED BY <2>2, <3>1 DEF Legal, IrisGatewayAccepts, ValidateIrisFeature, MaxIrisFeatureCm
  <2>3. CASE r \in ModelRequests
    <3>1. body[r] \in PromptBody
      BY <2>3 DEF IInv, TypeOK, WellFormed
    <3>2. body[r].runes \in Nat
      BY <3>1 DEF PromptBody
    <3> QED BY <2>1, <2>3, <3>2 DEF GatewayAccepts, Legal, ModelGatewayAccepts
  <2> QED BY <2>2, <2>3 DEF Requests
<1> QED BY <1>1, InductiveInvariant, PTL

\* A 504 is only given when time ran out, for every setting of the timeouts.
THEOREM TimeoutsAreHonest == Spec => []TimeoutHonest
<1>1. IInv => TimeoutHonest
  BY DEF IInv
<1> QED BY <1>1, InductiveInvariant, PTL

\* No call holds its worker for more than one timeout for each address of Ollama and for
\* each read its answer takes, however many those are.
THEOREM WorkersAreHeldBriefly == Spec => []WorkerHeldBounded
<1>1. IInv => WorkerHeldBounded
  <2> SUFFICES ASSUME IInv, NEW r \in InOllama
               PROVE  call[r] = "running" /\ held[r] <= TimeFor(Addresses + MaxReads)
    BY DEF WorkerHeldBounded
  <2>1. /\ r \in ModelRequests /\ ollama[r] \in {"connect", "read"}
        /\ held[r] \in Nat /\ otl[r] \in Nat /\ ops[r] \in Nat
    BY DEF InOllama, IInv, TypeOK, Requests
  <2>2. OllamaClock(r)
    BY <2>1 DEF IInv, ClockInv
  <2>3. \E n \in Nat : n <= Addresses + MaxReads /\ held[r] <= TimeFor(n)
    <3>1. CASE ollama[r] = "connect"
      <4>1. ops[r] + 1 \in Nat /\ ops[r] + 1 <= Addresses + MaxReads
        BY <2>1, <2>2, <3>1 DEF OllamaClock
      <4>2. TimeFor(ops[r] + 1) \in Nat
        BY <4>1, TimeForOperations
      <4>3. held[r] <= TimeFor(ops[r] + 1)
        BY <2>1, <2>2, <3>1, <4>2 DEF OllamaClock
      <4> QED BY <4>1, <4>3
    <3>2. CASE ollama[r] = "read"
      <4>1. Addresses + ops[r] + 1 \in Nat /\ Addresses + ops[r] + 1 <= Addresses + MaxReads
        BY <2>1, <2>2, <3>2 DEF OllamaClock
      <4>2. TimeFor(Addresses + ops[r] + 1) \in Nat
        BY <4>1, TimeForOperations
      <4>3. held[r] <= TimeFor(Addresses + ops[r] + 1)
        BY <2>1, <2>2, <3>2, <4>2 DEF OllamaClock
      <4> QED BY <4>1, <4>3
    <3> QED BY <2>1, <3>1, <3>2
  <2>4. PICK n \in Nat : n <= Addresses + MaxReads /\ held[r] <= TimeFor(n)
    BY <2>3
  <2>5. TimeFor(n) \in Nat /\ TimeFor(Addresses + MaxReads) \in Nat /\ TimeFor(n) <= TimeFor(Addresses + MaxReads)
    <3>1. Addresses + MaxReads \in Nat
      OBVIOUS
    <3> QED BY <2>4, <3>1, TimeForOperations
  <2> QED BY <2>1, <2>2, <2>4, <2>5 DEF OllamaClock
<1> QED BY <1>1, InductiveInvariant, PTL

-----------------------------------------------------------------------------
(* What a step does to the requests that have their answer, which is all   *)
(* that the metrics and the honesty of a 200 depend on.                    *)

\* An answered request is left alone: its answer, its reply, and whether it called.
AnsweredStay ==
    \A q \in Requests : handler[q] = "answered" =>
        /\ handler'[q] = "answered" /\ answer'[q] = answer[q] /\ reply'[q] = reply[q]
        /\ call'[q] = "none" <=> call[q] = "none"

\* A step in which no handler answers.
NobodyAnswers ==
    /\ UNCHANGED <<answer, metrics>>
    /\ \A q \in Requests : handler'[q] = "answered" <=> handler[q] = "answered"
    /\ AnsweredStay

\* A step in which r's handler answers with the RPC status rep: an OK is the reply.
RPCReturns(r, rep) ==
    /\ rep # NoReply /\ Returns(r, rep)
    /\ rep.code = "OK" => rep = reply[r]

\* Every step is a rejection, the return of an RPC, or leaves every answer alone.
LEMMA StepShape ==
    ASSUME IInv, [Next]_vars
    PROVE  \/ \E r \in Requests : RejectInvalid(r)
           \/ \E r \in Requests, rep \in Replies : RPCReturns(r, rep)
           \/ NobodyAnswers
<1>1. TypeOK /\ PoolInv /\ ProtocolInv /\ ClockInv
  BY DEF IInv
<1>2. ASSUME NEW r \in Requests, HandlerStep(r) PROVE \E rep \in Replies : RPCReturns(r, rep)
  <2>1. reply[r] \in Replies
    BY <1>1 DEF TypeOK
  <2>2. /\ Failure("DEADLINE_EXCEEDED").code # "OK" /\ Failure("CANCELLED").code # "OK"
        /\ Failure("DEADLINE_EXCEEDED") \in Replies /\ Failure("CANCELLED") \in Replies
        /\ Failure("DEADLINE_EXCEEDED") # NoReply /\ Failure("CANCELLED") # NoReply
    BY FailureType DEF Failure, GRPCErrors
  <2> QED BY <1>2, <2>1, <2>2 DEF HandlerStep, ReplyArrives, DeadlineFires, ClientDisconnects, RPCReturns
<1>3. ASSUME UNCHANGED <<handler, answer, metrics>>,
             \A q \in Requests : reply'[q] = reply[q] \/ handler[q] = "calling",
             \A q \in Requests : call'[q] = "none" <=> call[q] = "none"
      PROVE  NobodyAnswers
  BY <1>3 DEF NobodyAnswers, AnsweredStay
<1>4. ASSUME NEW r \in Requests, NEW t, StartRPC(r, t) PROVE NobodyAnswers
  <2>1. /\ handler[r] = "new" /\ handler'[r] = "calling" /\ UNCHANGED <<answer, metrics, reply>>
        /\ \A q \in Requests \ {r} : handler'[q] = handler[q] /\ call'[q] = call[q]
    BY <1>1, <1>4 DEF StartRPC, TypeOK
  <2> QED BY <2>1 DEF NobodyAnswers, AnsweredStay
<1>5. ASSUME NEW r \in Requests, call[r] # "none", UNCHANGED <<handler, answer, metrics>>,
             \/ call' = [call EXCEPT ![r] = "ended"] /\ \E rep : Reply(r, rep)
             \/ UNCHANGED reply /\ \E c \in {"queued", "running", "ended"} : call' = [call EXCEPT ![r] = c]
      PROVE  NobodyAnswers
  <2>1. \A q \in Requests : call'[q] = "none" <=> call[q] = "none"
    BY <1>1, <1>5 DEF TypeOK
  <2>2. \A q \in Requests : reply'[q] = reply[q] \/ handler[q] = "calling"
    BY <1>1, <1>5, ReplyEffect
  <2> QED BY <1>3, <1>5, <2>1, <2>2
<1>6. ASSUME NEW r \in Requests, ChannelStep(r) PROVE NobodyAnswers
  <2>1. UNCHANGED <<handler, answer, metrics>>
    BY <1>6 DEF ChannelStep, Admit, Refuse, FailFast, LoseCall, CancelArrives, gateway
  <2>2. CASE CancelArrives(r)
    BY <1>3, <2>1, <2>2 DEF CancelArrives
  <2>3. CASE ~CancelArrives(r)
    BY <1>5, <1>6, <2>1, <2>3 DEF ChannelStep, Admit, Refuse, FailFast, LoseCall, EndCall
  <2> QED BY <2>2, <2>3
<1>7. ASSUME NEW r \in Requests, WorkerStart(r) PROVE NobodyAnswers
  <2>1. UNCHANGED <<handler, answer, metrics>>
    BY <1>7 DEF WorkerStart, SkipCancelled, StartIris, RefusePrompt, StartModel, Generate, LeaveCall, gateway
  <2>2. call[r] = "queued"
    BY <1>1, <1>7, HeadOfQueue DEF WorkerStart, SkipCancelled, StartIris, RefusePrompt, StartModel, Generate
  <2> QED BY <1>5, <1>7, <2>1, <2>2
          DEF WorkerStart, SkipCancelled, StartIris, RefusePrompt, StartModel, Generate, LeaveCall, EndCall
<1>8. ASSUME NEW r \in Requests, call[r] = "running", NEW rep, LeaveCall(r, rep) PROVE NobodyAnswers
  BY <1>5, <1>8 DEF LeaveCall, EndCall, gateway
<1>9. ASSUME NEW r \in Requests, IrisFinishes(r) PROVE NobodyAnswers
  BY <1>8, <1>9 DEF IrisFinishes
<1>10. ASSUME NEW r \in ModelRequests, OllamaStep(r) PROVE NobodyAnswers
  <2>1. CASE Proceeds(r)
    BY <1>1, <1>3, <2>1, ProceedEffect DEF NextOperation, Waits, gateway
  <2>2. CASE ~Proceeds(r)
    <3>1. call[r] = "running" /\ r \in Requests
      BY <1>1, <1>10, <2>2 DEF ClockInv, OllamaClock, OllamaStep, Proceeds, OllamaAnswers, OllamaRefuses, OllamaFails, OllamaTimesOut, Requests
    <3>2. \E rep : LeaveCall(r, rep)
      BY <1>10, <2>2 DEF OllamaStep, Proceeds, OllamaAnswers, OllamaRefuses, OllamaFails, OllamaTimesOut
    <3> QED BY <1>8, <3>1, <3>2
  <2> QED BY <2>1, <2>2
<1>11. CASE Tick \/ Restart \/ Reconnect \/ UNCHANGED vars
  BY <1>3, <1>11 DEF Tick, Restart, Reconnect, vars, gateway
<1>12. CASE ConnectionBreaks \/ Crash
  <2>1. \A q \in Requests : reply'[q] = reply[q] \/ handler[q] = "calling"
    BY <1>12 DEF ConnectionBreaks, Crash, LoseConnection, Calling
  <2>2. \A q \in Requests : call'[q] = "none" <=> call[q] = "none"
    BY <1>12 DEF ConnectionBreaks, Crash, InPool
  <2> QED BY <1>3, <1>12, <2>1, <2>2 DEF ConnectionBreaks, Crash, gateway
<1>13. ASSUME NEW r \in Requests, RejectIris(r) \/ RejectModel(r) PROVE RejectInvalid(r)
  BY <1>13 DEF RejectIris, RejectModel
<1>14. ASSUME NEW r \in Requests, ForwardIris(r) \/ ForwardModel(r) PROVE NobodyAnswers
  BY <1>4, <1>14 DEF ForwardIris, ForwardModel
<1> QED
  BY <1>2, <1>6, <1>7, <1>9, <1>10, <1>11, <1>12, <1>13, <1>14
  DEF Next, IrisStep, ModelStep, Terminated, Requests

\* The handler that answers is alone in doing so, and everyone else's call stands.
LEMMA OneAnswers ==
    ASSUME IInv, NEW r \in Requests, NEW a \in Answers, handler[r] # "answered", Respond(r, a)
    PROVE  /\ answer[r] = Unanswered /\ answer'[r] = a /\ handler'[r] = "answered"
           /\ \A q \in Requests \ {r} : handler'[q] = handler[q] /\ answer'[q] = answer[q]
BY DEF Respond, IInv, TypeOK, ProtocolInv

\* No error of the gateway is a success.
LEMMA ErrorsAreNotSuccess ==
    /\ \A c \in GRPCErrors : APIErrorFromGRPC(c) # Success /\ APIErrorFromGRPC(c).status # 200
    /\ ValidationError # Success /\ ValidationError.status # 200
    /\ Unanswered # Success
BY DEF APIErrorFromGRPC, Success, ValidationError, Unanswered

\* What an RPC's return makes the handler answer.
LEMMA RPCReturnsEffect ==
    ASSUME IInv, NEW r \in Requests, NEW rep \in Replies, RPCReturns(r, rep)
    PROVE  \E a \in Answers :
              /\ Respond(r, a) /\ handler[r] = "calling" /\ call[r] # "none"
              /\ a = Success <=> rep.code = "OK"
              /\ a.status = 200 <=> rep.code = "OK"
              /\ UNCHANGED <<body, call, reply>>
<1> DEFINE a == IF rep.code = "OK" THEN Success ELSE APIErrorFromGRPC(rep.code)
<1>1. rep.code \in GRPCErrors \cup {"OK"}
  BY ReplyType DEF RPCReturns
<1>2. a \in Answers
  BY <1>1, ErrorAnswerType, AnswerStatus
<1>3. (a = Success <=> rep.code = "OK") /\ (a.status = 200 <=> rep.code = "OK")
  BY <1>1, ErrorsAreNotSuccess, Status400
<1>4. Respond(r, a) /\ handler[r] = "calling" /\ UNCHANGED <<body, call, reply>>
  BY DEF RPCReturns, Returns, IrisReturns, ModelReturns
<1>5. call[r] # "none"
  BY <1>4 DEF IInv, ProtocolInv
<1> HIDE DEF a
<1> QED BY <1>2, <1>3, <1>4, <1>5

\* A request is answered once and for good: no late reply, deadline, crash or
\* cancellation changes what was answered, the reply behind it, or that a call was made.
THEOREM AnswersAreFinal == Spec => [][AnsweredStay]_vars
<1>1. ASSUME IInv, [Next]_vars PROVE AnsweredStay
  <2>1. ASSUME NEW r \in Requests, RejectInvalid(r) PROVE AnsweredStay
    <3>1. /\ handler[r] = "new" /\ Respond(r, ValidationError) /\ UNCHANGED <<call, reply>>
      BY <2>1 DEF RejectInvalid
    <3> QED BY <1>1, <3>1, AnswerStatus, OneAnswers DEF AnsweredStay
  <2>2. ASSUME NEW r \in Requests, NEW rep \in Replies, RPCReturns(r, rep) PROVE AnsweredStay
    <3>1. PICK a \in Answers : Respond(r, a) /\ handler[r] = "calling" /\ UNCHANGED <<call, reply>>
      BY <1>1, <2>2, RPCReturnsEffect
    <3> QED BY <1>1, <3>1, OneAnswers DEF AnsweredStay
  <2> QED BY <1>1, <2>1, <2>2, StepShape DEF NobodyAnswers
<1>2. IInv /\ [Next]_vars => AnsweredStay
  BY <1>1
<1> QED BY <1>2, InductiveInvariant, PTL DEF Spec

-----------------------------------------------------------------------------
(* A 200 means success.                                                    *)

LEMMA InitResult == Init => ResultInv
<1> SUFFICES ASSUME Init PROVE ResultInv
  OBVIOUS
<1>1. \A r \in Requests : call[r] = "none" /\ reply[r].code = "none" /\ answer[r].status = 0
  BY DEF Init, NoReply, Unanswered
<1> QED BY <1>1 DEF ResultInv, Requests

\* A result is made only by a worker that runs the call, and python-ai has looked at
\* the prompt before the worker runs it.
LEMMA ResultMade ==
    ASSUME IInv, [Next]_vars
    PROVE  /\ UNCHANGED body
           /\ \A q \in ModelRequests :
                 /\ call'[q] = "running" => call[q] = "running" \/ ModelBackendAccepts(body[q])
                 /\ reply'[q].code = "OK" => reply[q].code = "OK" \/ call[q] = "running"
<1>1. TypeOK /\ PoolInv /\ ProtocolInv /\ ClockInv
  BY DEF IInv
<1> DEFINE Goal == /\ UNCHANGED body
                   /\ \A q \in ModelRequests :
                         /\ call'[q] = "running" => call[q] = "running" \/ ModelBackendAccepts(body[q])
                         /\ reply'[q].code = "OK" => reply[q].code = "OK" \/ call[q] = "running"
<1>2. ModelRequests \subseteq Requests
  BY DEF Requests
<1>3. ASSUME NEW r \in Requests, NEW c \in {"sent", "queued", "ended"},
             call' = [call EXCEPT ![r] = c], UNCHANGED <<body, reply>>
      PROVE  Goal
  BY <1>1, <1>2, <1>3 DEF TypeOK
<1>4. ASSUME NEW r \in Requests, NEW rep, Reply(r, rep), call' = [call EXCEPT ![r] = "ended"], UNCHANGED body,
             (rep.code = "OK") /\ r \in ModelRequests => call[r] = "running"
      PROVE  Goal
  <2>1. \A q \in Requests : reply'[q] = reply[q] \/ (q = r /\ reply'[q] = rep)
    BY <1>1, <1>4, ReplyEffect
  <2> QED BY <1>1, <1>2, <1>4, <2>1 DEF TypeOK
<1>5. ASSUME NEW r \in Requests, RejectInvalid(r) PROVE Goal
  BY <1>5 DEF RejectInvalid
<1>6. ASSUME NEW r \in Requests, NEW t, StartRPC(r, t) PROVE Goal
  BY <1>3, <1>6 DEF StartRPC
<1>7. ASSUME NEW r \in Requests, HandlerStep(r) PROVE Goal
  BY <1>7 DEF HandlerStep, ReplyArrives, DeadlineFires, ClientDisconnects, Returns
<1>8. ASSUME NEW r \in Requests, ChannelStep(r) PROVE Goal
  <2>1. CASE Admit(r) \/ LoseCall(r)
    BY <1>3, <2>1 DEF Admit, LoseCall, EndCall
  <2>2. CASE Refuse(r) \/ FailFast(r)
    BY <1>4, <2>2 DEF Refuse, FailFast, EndCall, Failure
  <2>3. CASE CancelArrives(r)
    BY <2>3 DEF CancelArrives
  <2> QED BY <1>8, <2>1, <2>2, <2>3 DEF ChannelStep
<1>9. ASSUME NEW r \in Requests, WorkerStart(r) PROVE Goal
  <2>1. CASE SkipCancelled(r)
    BY <1>3, <2>1 DEF SkipCancelled, EndCall
  <2>2. CASE StartIris(r)
    <3>1. r \notin ModelRequests
      BY <2>2 DEF StartIris
    <3> QED BY <1>1, <1>2, <2>2, <3>1 DEF StartIris, TypeOK
  <2>3. CASE RefusePrompt(r)
    BY <1>4, <2>3 DEF RefusePrompt, LeaveCall, EndCall, Failure
  <2>4. CASE StartModel(r)
    BY <1>1, <1>2, <2>4 DEF StartModel, Generate, TypeOK
  <2> QED BY <1>9, <2>1, <2>2, <2>3, <2>4 DEF WorkerStart
<1>10. ASSUME NEW r \in IrisRequests, IrisFinishes(r) PROVE Goal
  <2>1. r \in Requests /\ r \notin ModelRequests
    BY DEF Requests
  <2> QED BY <1>4, <1>10, <2>1 DEF IrisFinishes, LeaveCall, EndCall
<1>11. ASSUME NEW r \in ModelRequests, OllamaStep(r) PROVE Goal
  <2>1. CASE Proceeds(r)
    BY <1>1, <2>1, ProceedEffect DEF NextOperation, Waits
  <2>2. CASE ~Proceeds(r)
    <3>1. call[r] = "running" /\ r \in Requests
      BY <1>1, <1>11, <2>2 DEF ClockInv, OllamaClock, OllamaStep, Proceeds, OllamaAnswers, OllamaRefuses, OllamaFails, OllamaTimesOut, Requests
    <3>2. \E rep : LeaveCall(r, rep)
      BY <1>11, <2>2 DEF OllamaStep, Proceeds, OllamaAnswers, OllamaRefuses, OllamaFails, OllamaTimesOut
    <3> QED BY <1>4, <3>1, <3>2 DEF LeaveCall, EndCall
  <2> QED BY <2>1, <2>2
<1>12. CASE Tick \/ Restart \/ Reconnect \/ UNCHANGED vars
  BY <1>12 DEF Tick, Restart, Reconnect, vars
<1>13. CASE ConnectionBreaks \/ Crash
  <2>1. \A q \in Requests : reply'[q] = reply[q] \/ reply'[q].code = "UNAVAILABLE"
    BY <1>13 DEF ConnectionBreaks, Crash, LoseConnection, Failure
  <2>2. \A q \in Requests : call'[q] = call[q] \/ call'[q] = "ended"
    BY <1>13 DEF ConnectionBreaks, Crash
  <2> QED BY <1>2, <1>13, <2>1, <2>2 DEF ConnectionBreaks, Crash
<1>14. Goal
  BY <1>5, <1>6, <1>7, <1>8, <1>9, <1>10, <1>11, <1>12, <1>13
  DEF Next, IrisStep, RejectIris, ForwardIris, ModelStep, RejectModel, ForwardModel, Terminated, Requests
<1> QED BY <1>14

LEMMA ResultStep == ASSUME IInv, ResultInv, [Next]_vars PROVE ResultInv'
<1>1. ASSUME NEW q \in ModelRequests
      PROVE  call'[q] = "running" \/ reply'[q].code = "OK" => ModelBackendAccepts(body[q])'
  <2>1. ModelBackendAccepts(body[q])' <=> ModelBackendAccepts(body[q])
    BY ResultMade DEF ModelBackendAccepts
  <2> QED BY <2>1, ResultMade DEF ResultInv
<1>2. \A q \in Requests : answer[q].status = 200 => handler[q] = "answered"
  BY Status400 DEF IInv, ProtocolInv
<1> DEFINE Honest == \A q \in Requests : answer'[q].status = 200 => reply'[q].code = "OK"
<1>3. Honest
  <2>1. ASSUME NEW r \in Requests, RejectInvalid(r) PROVE Honest
    <3>1. handler[r] = "new" /\ Respond(r, ValidationError) /\ UNCHANGED reply
      BY <2>1 DEF RejectInvalid
    <3>2. /\ answer'[r] = ValidationError
          /\ \A q \in Requests \ {r} : answer'[q] = answer[q]
      BY <3>1, AnswerStatus, OneAnswers
    <3> QED BY <3>1, <3>2, ErrorsAreNotSuccess DEF ResultInv
  <2>2. ASSUME NEW r \in Requests, NEW rep \in Replies, RPCReturns(r, rep) PROVE Honest
    <3>1. PICK a \in Answers : /\ Respond(r, a) /\ handler[r] = "calling"
                               /\ a.status = 200 <=> rep.code = "OK"
                               /\ UNCHANGED reply
      BY <2>2, RPCReturnsEffect
    <3>2. answer'[r] = a /\ \A q \in Requests \ {r} : answer'[q] = answer[q]
      BY <3>1, OneAnswers
    <3>3. a.status = 200 => reply'[r].code = "OK"
      BY <2>2, <3>1 DEF RPCReturns
    <3> QED BY <3>1, <3>2, <3>3 DEF ResultInv
  <2>3. NobodyAnswers => Honest
    BY <1>2 DEF NobodyAnswers, AnsweredStay, ResultInv
  <2> QED BY <2>1, <2>2, <2>3, StepShape
<1> QED BY <1>1, <1>3 DEF ResultInv

\* A body that the gateway takes is within the documented bounds, but for a prompt of
\* white space.
LEMMA AcceptedIsLegal ==
    ASSUME TypeOK, NEW r \in Requests, GatewayAccepts(r), r \in ModelRequests => ~body[r].blank
    PROVE  Legal(r)
<1>1. CASE r \in IrisRequests
  <2>1. body[r] \in IrisBody
    BY <1>1 DEF TypeOK, WellFormed
  <2>2. \A n \in FeatureNames : body[r].features[n].kind \in FeatureKinds /\ body[r].features[n].cm \in Int
    BY <2>1 DEF IrisBody, Feature
  <2> QED BY <1>1, <2>2 DEF GatewayAccepts, IrisGatewayAccepts, ValidateIrisFeature, FeatureKinds, MaxIrisFeatureCm, Legal
<1>2. CASE r \notin IrisRequests
  <2>1. r \in ModelRequests /\ body[r] \in PromptBody
    BY <1>2 DEF TypeOK, WellFormed, Requests
  <2>2. body[r].runes \in Nat
    BY <2>1 DEF PromptBody
  <2> QED BY <1>2, <2>1, <2>2 DEF GatewayAccepts, ModelGatewayAccepts, Legal
<1> QED BY <1>1, <1>2

\* A 200 is only given for a legal body, and for an inference that python-ai completed,
\* for any number of requests, workers and faults.
THEOREM SuccessesAreHonest == Spec => []Status200Honest
<1>1. IInv /\ ResultInv /\ [Next]_vars => ResultInv'
  BY ResultStep
<1>2. IInv /\ ResultInv => Status200Honest
  <2> SUFFICES ASSUME IInv, ResultInv, NEW r \in Requests, answer[r].status = 200
               PROVE  Legal(r) /\ reply[r].code = "OK"
    BY DEF Status200Honest
  <2>1. reply[r].code = "OK"
    BY DEF ResultInv
  <2>2. GatewayAccepts(r)
    BY <2>1 DEF IInv, ProtocolInv, NoReply
  <2>3. r \in ModelRequests => ~body[r].blank
    BY <2>1 DEF ResultInv, ModelBackendAccepts
  <2> QED BY <2>1, <2>2, <2>3, AcceptedIsLegal DEF IInv
<1> QED BY <1>1, <1>2, InitResult, InductiveInvariant, PTL DEF Spec

-----------------------------------------------------------------------------
(* Metrics: three parts, each about one stage of an answer.                *)

HTTPCounts ==
    /\ \A p \in Paths, s \in HTTPStatuses : HTTPRequestsTotal[<<p, s>>] = Cardinality(AnsweredWith(p, s))
    /\ \A p \in Paths : HTTPDuration[p] = Cardinality(Answered(p))

RPCCounts ==
    \A m \in Methods : /\ GRPCRequestDuration[<<m, "ok">>] = Cardinality(ReturnedOK(m))
                       /\ GRPCRequestDuration[<<m, "error">>] = Cardinality(ReturnedError(m))

TokenCounters ==
    /\ AIGenerationDuration = Cardinality({r \in Succeeded : reply[r].tokens > 0})
    /\ AITokensTotal = Total(Succeeded, [r \in ModelRequests |-> reply[r].tokens])

LEMMA InitCounts == Init => HTTPCounts /\ RPCCounts /\ TokenCounters
<1> SUFFICES ASSUME Init PROVE HTTPCounts /\ RPCCounts /\ TokenCounters
  OBVIOUS
<1>1. \A r \in Requests : handler[r] = "new" /\ answer[r] = Unanswered /\ answer[r].status = 0
  BY DEF Init, Unanswered
<1>2. \A p \in Paths : Answered(p) = {} /\ \A s \in HTTPStatuses : AnsweredWith(p, s) = {}
  BY <1>1 DEF Answered, AnsweredWith, HTTPStatuses
<1>3. \A m \in Methods : ReturnedOK(m) = {} /\ ReturnedError(m) = {}
  BY <1>1, ErrorsAreNotSuccess DEF ReturnedOK, ReturnedError
<1>4. Succeeded = {}
  BY <1>1, ErrorsAreNotSuccess DEF Succeeded, Requests
<1>5. Cardinality({}) = 0
  BY FS_EmptySet
<1>6. HTTPCounts
  BY <1>2, <1>5 DEF Init, HTTPCounts
<1>7. RPCCounts
  <2>1. \A m \in Methods, k \in {"ok", "error"} : GRPCRequestDuration[<<m, k>>] = 0
    BY DEF Init
  <2> QED BY <1>3, <1>5, <2>1 DEF RPCCounts
<1>8. TokenCounters
  <2>1. {r \in Succeeded : reply[r].tokens > 0} = {}
    BY <1>4
  <2> QED BY <1>4, <1>5, <2>1, NoTotal DEF Init, TokenCounters
<1> QED BY <1>6, <1>7, <1>8

\* A response is counted under its path and status, and timed under its path.
LEMMA RespondCounts ==
    ASSUME IInv, HTTPCounts, NEW r \in Requests, NEW a \in Answers, handler[r] # "answered", Respond(r, a)
    PROVE  HTTPCounts'
<1>1. /\ answer[r] = Unanswered /\ answer'[r] = a /\ handler'[r] = "answered"
      /\ \A q \in Requests \ {r} : handler'[q] = handler[q] /\ answer'[q] = answer[q]
  BY OneAnswers
<1>2. a.status \in HTTPStatuses /\ Path(r) \in Paths /\ Unanswered.status \notin HTTPStatuses
  BY AnswerStatus, Status400 DEF HTTPStatuses, Path, Paths
<1>3. ASSUME NEW p \in Paths, NEW s \in HTTPStatuses
      PROVE  HTTPRequestsTotal'[<<p, s>>] = Cardinality(AnsweredWith(p, s)')
  <2>1. HTTPRequestsTotal[<<p, s>>] = Cardinality(AnsweredWith(p, s))
    BY DEF HTTPCounts
  <2>2. HTTPRequestsTotal'[<<p, s>>] = IF Path(r) = p /\ a.status = s THEN HTTPRequestsTotal[<<p, s>>] + 1
                                                                     ELSE HTTPRequestsTotal[<<p, s>>]
    BY <1>2 DEF Respond, IInv, TypeOK
  <2>3. r \notin AnsweredWith(p, s) /\ IsFiniteSet(AnsweredWith(p, s))
    BY <1>1, <1>2, PoolFinite DEF AnsweredWith
  <2>4. AnsweredWith(p, s)' = IF Path(r) = p /\ a.status = s THEN AnsweredWith(p, s) \cup {r} ELSE AnsweredWith(p, s)
    BY <1>1, <1>2 DEF AnsweredWith, Path
  <2> QED BY <2>1, <2>2, <2>3, <2>4, OneMore
<1>4. ASSUME NEW p \in Paths PROVE HTTPDuration'[p] = Cardinality(Answered(p)')
  <2>1. HTTPDuration[p] = Cardinality(Answered(p))
    BY DEF HTTPCounts
  <2>2. HTTPDuration'[p] = IF Path(r) = p THEN HTTPDuration[p] + 1 ELSE HTTPDuration[p]
    BY <1>2 DEF Respond, IInv, TypeOK
  <2>3. r \notin Answered(p) /\ IsFiniteSet(Answered(p))
    BY PoolFinite DEF Answered
  <2>4. Answered(p)' = IF Path(r) = p THEN Answered(p) \cup {r} ELSE Answered(p)
    BY <1>1 DEF Answered, Path
  <2> QED BY <2>1, <2>2, <2>3, <2>4, OneMore
<1> QED BY <1>3, <1>4 DEF HTTPCounts

\* A rejected body is no RPC, and brings no tokens.
LEMMA RejectCounts ==
    ASSUME IInv, RPCCounts, TokenCounters, NEW r \in Requests, RejectInvalid(r)
    PROVE  RPCCounts' /\ TokenCounters'
<1>1. /\ handler[r] = "new" /\ Respond(r, ValidationError)
      /\ UNCHANGED <<GRPCRequestDuration, AITokensTotal, AIGenerationDuration, call, reply>>
  BY DEF RejectInvalid
<1>2. /\ answer[r] = Unanswered /\ answer'[r] = ValidationError
      /\ \A q \in Requests \ {r} : handler'[q] = handler[q] /\ answer'[q] = answer[q]
  BY <1>1, AnswerStatus, OneAnswers
<1>3. call[r] = "none"
  BY <1>1 DEF IInv, ProtocolInv
<1>4. \A m \in Methods : ReturnedOK(m)' = ReturnedOK(m) /\ ReturnedError(m)' = ReturnedError(m)
  BY <1>1, <1>2, <1>3, ErrorsAreNotSuccess DEF ReturnedOK, ReturnedError, Method
<1>5. Succeeded' = Succeeded
  BY <1>2, ErrorsAreNotSuccess DEF Succeeded, Requests
<1> QED BY <1>1, <1>4, <1>5 DEF RPCCounts, TokenCounters

\* An RPC that returns is observed once, as what it was.
LEMMA ReturnCounts ==
    ASSUME IInv, RPCCounts, NEW r \in Requests, NEW rep \in Replies, RPCReturns(r, rep)
    PROVE  RPCCounts'
<1>1. PICK a \in Answers : /\ Respond(r, a) /\ handler[r] = "calling" /\ call[r] # "none"
                           /\ a = Success <=> rep.code = "OK"
                           /\ UNCHANGED call
  BY RPCReturnsEffect
<1>2. /\ answer[r] = Unanswered /\ answer'[r] = a /\ handler'[r] = "answered"
      /\ \A q \in Requests \ {r} : handler'[q] = handler[q] /\ answer'[q] = answer[q]
  BY <1>1, OneAnswers
<1> DEFINE outcome == IF rep.code = "OK" THEN "ok" ELSE "error"
<1>3. GRPCRequestDuration' = [GRPCRequestDuration EXCEPT ![<<Method(r), outcome>>] = @ + 1]
  BY DEF RPCReturns, Returns, IrisReturns, ModelReturns, ObserveRPC
<1>4. (outcome = "ok" /\ rep.code = "OK") \/ (outcome = "error" /\ rep.code # "OK")
  OBVIOUS
<1> HIDE DEF outcome
<1>5. Method(r) \in Methods /\ Method(r)' = Method(r)
  BY DEF Method, Methods
<1>6. ASSUME NEW m \in Methods
      PROVE  /\ GRPCRequestDuration'[<<m, "ok">>] = Cardinality(ReturnedOK(m)')
             /\ GRPCRequestDuration'[<<m, "error">>] = Cardinality(ReturnedError(m)')
  <2>1. /\ GRPCRequestDuration[<<m, "ok">>] = Cardinality(ReturnedOK(m))
        /\ GRPCRequestDuration[<<m, "error">>] = Cardinality(ReturnedError(m))
    BY DEF RPCCounts
  <2>2. \A k \in {"ok", "error"} :
           GRPCRequestDuration'[<<m, k>>] = IF Method(r) = m /\ outcome = k THEN GRPCRequestDuration[<<m, k>>] + 1
                                                                           ELSE GRPCRequestDuration[<<m, k>>]
    BY <1>3, <1>4, <1>5 DEF IInv, TypeOK
  <2>3. /\ r \notin ReturnedOK(m) /\ IsFiniteSet(ReturnedOK(m))
        /\ r \notin ReturnedError(m) /\ IsFiniteSet(ReturnedError(m))
    BY <1>1, <1>2, PoolFinite, ErrorsAreNotSuccess DEF ReturnedOK, ReturnedError
  <2>4. /\ ReturnedOK(m)' = IF Method(r) = m /\ a = Success THEN ReturnedOK(m) \cup {r} ELSE ReturnedOK(m)
        /\ ReturnedError(m)' = IF Method(r) = m /\ a # Success THEN ReturnedError(m) \cup {r} ELSE ReturnedError(m)
    BY <1>1, <1>2, ErrorsAreNotSuccess DEF ReturnedOK, ReturnedError, Method
  <2>5. GRPCRequestDuration'[<<m, "ok">>] = Cardinality(ReturnedOK(m)')
    BY <1>1, <1>4, <2>1, <2>2, <2>3, <2>4, OneMore
  <2>6. GRPCRequestDuration'[<<m, "error">>] = Cardinality(ReturnedError(m)')
    BY <1>1, <1>4, <2>1, <2>2, <2>3, <2>4, OneMore
  <2> QED BY <2>5, <2>6
<1> QED BY <1>6 DEF RPCCounts

\* The tokens of a successful reply are counted with its answer; a failure has none.
LEMMA ReturnTokens ==
    ASSUME IInv, TokenCounters, NEW r \in Requests, NEW rep \in Replies, RPCReturns(r, rep)
    PROVE  TokenCounters'
<1>1. PICK a \in Answers : /\ Respond(r, a) /\ handler[r] = "calling"
                           /\ a = Success <=> rep.code = "OK"
                           /\ UNCHANGED reply
  BY RPCReturnsEffect
<1>2. /\ answer[r] = Unanswered /\ answer'[r] = a
      /\ \A q \in Requests \ {r} : answer'[q] = answer[q]
  BY <1>1, OneAnswers
<1>3. rep.tokens \in Nat /\ (rep.code # "OK" => rep.tokens = 0)
  BY ReplyType DEF RPCReturns, Replies, Failure, NoReply
<1> DEFINE tokens == [q \in ModelRequests |-> reply[q].tokens]
           Some == {q \in Succeeded : reply[q].tokens > 0}
<1>4. AITokensTotal = Total(Succeeded, tokens) /\ AIGenerationDuration = Cardinality(Some)
  BY DEF TokenCounters
<1>5. UNCHANGED tokens
  BY <1>1
<1>6. AITokensTotal \in Nat /\ AIGenerationDuration \in Nat
  BY DEF IInv, TypeOK
<1>7. CASE r \in ModelRequests /\ rep.code = "OK"
  <2>1. Succeeded' = Succeeded \cup {r} /\ r \notin Succeeded
    BY <1>1, <1>2, <1>7, ErrorsAreNotSuccess DEF Succeeded, Requests
  <2>2. reply[r] = rep /\ tokens[r] = rep.tokens
    BY <1>7 DEF RPCReturns
  <2>3. \A q \in Succeeded : tokens[q] \in Nat
    <3>1. \A rp \in Replies : rp.tokens \in Nat
      BY DEF Replies, NoReply, Failure
    <3> QED BY <3>1 DEF Succeeded, IInv, TypeOK, Requests
  <2>4. IsFiniteSet(Succeeded)
    BY PoolFinite DEF Succeeded, Requests
  <2>5. Total(Succeeded', tokens) = Total(Succeeded, tokens) + rep.tokens
    <3>1. tokens[r] \in Nat
      BY <1>3, <2>2
    <3> HIDE DEF tokens
    <3>2. Total(Succeeded \cup {r}, tokens) = Total(Succeeded, tokens) + tokens[r]
      BY <2>1, <2>3, <2>4, <3>1, TotalOneMore
    <3> QED BY <2>1, <2>2, <3>2
  <2>6. /\ AITokensTotal' = AITokensTotal + rep.tokens
        /\ AIGenerationDuration' = AIGenerationDuration + (IF rep.tokens > 0 THEN 1 ELSE 0)
    BY <1>7 DEF RPCReturns, Returns, ModelReturns
  <2>7. AITokensTotal' = Total(Succeeded', tokens')
    BY <1>4, <1>5, <2>5, <2>6
  <2>8. AIGenerationDuration' = Cardinality(Some')
    <3>1. Some' = IF rep.tokens > 0 THEN Some \cup {r} ELSE Some
      BY <1>1, <2>1, <2>2
    <3>2. r \notin Some /\ IsFiniteSet(Some)
      BY <2>1, PoolFinite DEF Succeeded, Requests
    <3> HIDE DEF Some
    <3> QED BY <1>4, <1>6, <2>6, <3>1, <3>2, OneMore
  <2> QED BY <2>7, <2>8 DEF TokenCounters
<1>8. CASE ~(r \in ModelRequests /\ rep.code = "OK")
  <2>1. Succeeded' = Succeeded
    BY <1>1, <1>2, <1>8, ErrorsAreNotSuccess DEF Succeeded, Requests
  <2>2. UNCHANGED <<AITokensTotal, AIGenerationDuration>>
    BY <1>3, <1>6, <1>8 DEF RPCReturns, Returns, IrisReturns, ModelReturns, Requests
  <2> QED BY <1>1, <2>1, <2>2 DEF TokenCounters
<1> QED BY <1>7, <1>8

\* Between answers no metric moves, and no answered request does.
LEMMA CountsStand ==
    ASSUME IInv, HTTPCounts, RPCCounts, TokenCounters, NobodyAnswers
    PROVE  HTTPCounts' /\ RPCCounts' /\ TokenCounters'
<1>1. /\ UNCHANGED <<answer, HTTPRequestsTotal, HTTPDuration, GRPCRequestDuration, AITokensTotal, AIGenerationDuration>>
      /\ \A q \in Requests : handler'[q] = "answered" <=> handler[q] = "answered"
      /\ \A q \in Requests : handler[q] = "answered" =>
            reply'[q] = reply[q] /\ (call'[q] = "none" <=> call[q] = "none")
  BY DEF NobodyAnswers, AnsweredStay, metrics
<1>2. HTTPCounts'
  BY <1>1 DEF HTTPCounts, AnsweredWith, Answered, Path
<1>3. RPCCounts'
  <2>1. \A m \in Methods : ReturnedOK(m)' = ReturnedOK(m) /\ ReturnedError(m)' = ReturnedError(m)
    BY <1>1 DEF ReturnedOK, ReturnedError, Method
  <2> QED BY <1>1, <2>1 DEF RPCCounts
<1>4. TokenCounters'
  <2>1. Succeeded' = Succeeded
    BY <1>1 DEF Succeeded
  <2>2. \A q \in Succeeded : q \in ModelRequests /\ reply'[q] = reply[q]
    BY <1>1, ErrorsAreNotSuccess DEF Succeeded, IInv, ProtocolInv, Requests
  <2>3. {q \in Succeeded' : reply'[q].tokens > 0} = {q \in Succeeded : reply[q].tokens > 0}
    BY <2>1, <2>2
  <2> DEFINE tokens == [q \in ModelRequests |-> reply[q].tokens]
  <2>4. \A q \in Succeeded : tokens'[q] = tokens[q]
    BY <2>2
  <2>5. Total(Succeeded, tokens') = Total(Succeeded, tokens)
    <3> HIDE DEF tokens
    <3> QED BY <2>4, ItemsSame DEF Total
  <2> QED BY <1>1, <2>1, <2>3, <2>5 DEF TokenCounters
<1> QED BY <1>2, <1>3, <1>4

\* Each answer is counted once under its path and status and timed once, each RPC that
\* returned is observed once as what it was, and every token of a successful reply is
\* counted and none of any other, for any number of requests, workers and faults.
THEOREM MetricsAccount == Spec => []MetricsAccountForEveryAnswer
<1> DEFINE Counts == HTTPCounts /\ RPCCounts /\ TokenCounters
<1>1. ASSUME IInv, Counts, [Next]_vars PROVE Counts'
  <2>1. ASSUME NEW r \in Requests, RejectInvalid(r) PROVE Counts'
    <3>1. handler[r] # "answered" /\ Respond(r, ValidationError) /\ ValidationError \in Answers
      BY <2>1, AnswerStatus DEF RejectInvalid
    <3> QED BY <1>1, <2>1, <3>1, RespondCounts, RejectCounts
  <2>2. ASSUME NEW r \in Requests, NEW rep \in Replies, RPCReturns(r, rep) PROVE Counts'
    <3>1. PICK a \in Answers : Respond(r, a) /\ handler[r] = "calling"
      BY <1>1, <2>2, RPCReturnsEffect
    <3> QED BY <1>1, <2>2, <3>1, RespondCounts, ReturnCounts, ReturnTokens
  <2> QED BY <1>1, <2>1, <2>2, StepShape, CountsStand
<1>2. IInv /\ Counts /\ [Next]_vars => Counts'
  BY <1>1
<1>3. Counts => MetricsAccountForEveryAnswer
  BY DEF HTTPCounts, RPCCounts, TokenCounters, MetricsAccountForEveryAnswer
<1>4. Init => Counts
  BY InitCounts
<1> QED BY <1>2, <1>3, <1>4, InductiveInvariant, PTL DEF Spec

-----------------------------------------------------------------------------
(* The path implements PredictContract: every step maps to a step of the   *)
(* contract or changes nothing of it. (Its liveness is left to TLC.)       *)

\* A step that leaves the handlers' part of the state alone, and neither makes
\* nor destroys a result, is a stutter of the contract.
LEMMA ContractStutter ==
    ASSUME UNCHANGED <<handler, answer>>,
           \A q \in Requests : call'[q] = "none" <=> call[q] = "none",
           \A q \in Requests : reply'[q].code = "OK" <=> reply[q].code = "OK"
    PROVE  UNCHANGED Contract!vars
BY DEF Contract!vars

\* The end of a call at the backend is Serve, if it left a result that a handler
\* still waits for, and otherwise a stutter.
LEMMA ContractReply ==
    ASSUME IInv, NEW r \in Requests, NEW rep, Reply(r, rep), EndCall(r), call[r] # "none",
           UNCHANGED <<handler, answer>>
    PROVE  [Contract!Next]_(Contract!vars)
<1>1. \A q \in Requests : call'[q] = "none" <=> call[q] = "none"
  BY DEF EndCall, IInv, TypeOK
<1>2. CASE handler[r] = "calling" /\ reply[r] = NoReply /\ rep.code = "OK"
  <2>1. reply' = [reply EXCEPT ![r] = rep]
    BY <1>2 DEF Reply
  <2>2. /\ reply[r].code # "OK" /\ reply'[r].code = "OK"
        /\ \A q \in Requests \ {r} : reply'[q] = reply[q]
    BY <1>2, <2>1 DEF IInv, TypeOK, NoReply
  <2>3. Contract!Serve(r)
    BY <1>1, <1>2, <2>2 DEF Contract!Serve, Contract!Requests, Requests
  <2> QED BY <2>3 DEF Contract!Next, Contract!Requests, Requests
<1>3. CASE ~(handler[r] = "calling" /\ reply[r] = NoReply /\ rep.code = "OK")
  <2>1. \A q \in Requests : reply'[q].code = "OK" <=> reply[q].code = "OK"
    BY <1>3 DEF Reply, IInv, TypeOK, NoReply
  <2> QED BY <1>1, <2>1, ContractStutter
<1> QED BY <1>2, <1>3

\* Replies lost with the connection are lost results.
LEMMA ContractLose ==
    ASSUME IInv, LoseConnection, UNCHANGED <<handler, answer>>,
           \A q \in Requests : call'[q] = "none" <=> call[q] = "none"
    PROVE  Contract!Next
<1> DEFINE lost == {q \in Calling : reply[q].code = "OK" /\ reply'[q].code # "OK"}
<1>1. \A q \in Requests : \/ reply'[q] = reply[q]
                          \/ q \in Calling /\ reply'[q].code = "UNAVAILABLE"
  BY DEF LoseConnection, Failure
<1>2. \A q \in Requests : reply'[q].code = "OK" <=> reply[q].code = "OK" /\ q \notin lost
  BY <1>1
<1>3. lost \subseteq {q \in Requests : handler[q] = "calling" /\ reply[q].code = "OK"}
  BY DEF Calling
<1>4. Contract!Lose
  <2> DEFINE served == [q \in Requests |-> reply[q].code = "OK"]
             stage == [q \in Requests |-> IF handler[q] = "calling" THEN "pending" ELSE handler[q]]
  <2>1. lost \in SUBSET {q \in Requests : stage[q] = "pending" /\ served[q]}
    BY <1>3
  <2>2. served' = [q \in Requests |-> served[q] /\ q \notin lost]
    <3> HIDE DEF lost
    <3> QED BY <1>2, Zenon
  <2>3. UNCHANGED stage
    OBVIOUS
  <2> HIDE DEF lost
  <2> QED BY <2>1, <2>2, <2>3 DEF Contract!Lose, Contract!Requests, Requests
<1> QED BY <1>4 DEF Contract!Next

\* What a handler's answer does to the contract's stage and status.
LEMMA ContractAnswered ==
    ASSUME NEW r \in Requests, handler'[r] = "answered",
           \A q \in Requests \ {r} : handler'[q] = handler[q] /\ answer'[q] = answer[q]
    PROVE  LET stage == [q \in Requests |-> IF handler[q] = "calling" THEN "pending" ELSE handler[q]]
               status == [q \in Requests |-> answer[q].status]
           IN  /\ stage' = [stage EXCEPT ![r] = "answered"]
               /\ status' = [status EXCEPT ![r] = answer'[r].status]
               /\ stage[r] = IF handler[r] = "calling" THEN "pending" ELSE handler[r]
<1> DEFINE stage == [q \in Requests |-> IF handler[q] = "calling" THEN "pending" ELSE handler[q]]
           status == [q \in Requests |-> answer[q].status]
<1>1. \A q \in Requests : (IF handler'[q] = "calling" THEN "pending" ELSE handler'[q])
                            = (IF q = r THEN "answered" ELSE stage[q])
  OBVIOUS
<1>2. stage' = [stage EXCEPT ![r] = "answered"]
  BY <1>1, Zenon
<1>3. \A q \in Requests : answer'[q].status = (IF q = r THEN answer'[r].status ELSE status[q])
  OBVIOUS
<1>4. status' = [status EXCEPT ![r] = answer'[r].status]
  BY <1>3, Zenon
<1> QED BY <1>2, <1>4

\* An RPC's return is an answer of the contract: 200 only for a result that is
\* there, 400 only to a model request.
LEMMA ContractAnswer ==
    ASSUME IInv, NEW r \in Requests, HandlerStep(r)
    PROVE  Contract!Next
<1>1. PICK rep \in Replies :
         /\ rep # NoReply /\ Returns(r, rep)
         /\ rep.code \in {"INVALID_ARGUMENT", "OK"} => rep = reply[r]
  <2>1. reply[r] \in Replies
    BY DEF IInv, TypeOK
  <2>2. /\ Failure("DEADLINE_EXCEEDED").code \notin {"INVALID_ARGUMENT", "OK"}
        /\ Failure("CANCELLED").code \notin {"INVALID_ARGUMENT", "OK"}
    BY DEF Failure
  <2> QED BY <2>1, <2>2, FailureType
          DEF HandlerStep, ReplyArrives, DeadlineFires, ClientDisconnects, GRPCErrors
<1>2. /\ handler[r] = "calling" /\ handler' = [handler EXCEPT ![r] = "answered"]
      /\ answer' = [answer EXCEPT ![r] = IF rep.code = "OK" THEN Success ELSE APIErrorFromGRPC(rep.code)]
      /\ answer'[r] \in Answers
      /\ answer'[r].status = 400 => rep.code = "INVALID_ARGUMENT"
      /\ UNCHANGED <<call, reply>>
  BY <1>1, ReturnsEffect DEF IInv
<1>3. /\ \A q \in Requests \ {r} : handler'[q] = handler[q] /\ answer'[q] = answer[q]
      /\ handler'[r] = "answered"
      /\ answer'[r] = IF rep.code = "OK" THEN Success ELSE APIErrorFromGRPC(rep.code)
  BY <1>2 DEF IInv, TypeOK
<1>4. CASE rep.code = "OK"
  <2>1. reply[r].code = "OK" /\ answer'[r].status = 200
    BY <1>1, <1>3, <1>4, Status400
  <2> DEFINE stage == [q \in Requests |-> IF handler[q] = "calling" THEN "pending" ELSE handler[q]]
             accepted == [q \in Requests |-> call[q] # "none"]
             served == [q \in Requests |-> reply[q].code = "OK"]
             status == [q \in Requests |-> answer[q].status]
  <2>2. served[r] /\ UNCHANGED <<accepted, served>>
    <3>1. served[r]
      BY <2>1
    <3>2. UNCHANGED call /\ UNCHANGED reply
      BY <1>2
    <3> QED BY <3>1, <3>2
  <2>3. /\ stage[r] = "pending" /\ stage' = [stage EXCEPT ![r] = "answered"]
        /\ status' = [status EXCEPT ![r] = 200]
    <3>1. /\ stage' = [stage EXCEPT ![r] = "answered"]
          /\ status' = [status EXCEPT ![r] = answer'[r].status]
          /\ stage[r] = IF handler[r] = "calling" THEN "pending" ELSE handler[r]
      BY <1>2, <1>3, ContractAnswered
    <3> QED BY <3>1, <1>2, <1>3, <2>1
  <2>4. Contract!AnswerOK(r)
    BY <2>2, <2>3, Zenon DEF Contract!AnswerOK
  <2> QED BY <2>4 DEF Contract!Next, Contract!Answer, Contract!Requests, Requests
<1>5. CASE rep.code # "OK"
  <2>1. answer'[r].status \in {400, 500, 503, 504}
    BY <1>3, <1>5 DEF APIErrorFromGRPC
  <2>2. answer'[r].status = 400 => r \in ModelRequests
    BY <1>1, <1>2 DEF IInv, ProtocolInv
  <2>3. answer'[r].status \in Contract!ErrorStatuses(r)
    BY <2>1, <2>2 DEF Contract!ErrorStatuses
  <2>4. Contract!AnswerError(r)
    BY <1>2, <1>3, <2>3, ContractAnswered DEF Contract!AnswerError, Contract!Requests, Requests
  <2> QED BY <2>4 DEF Contract!Next, Contract!Answer, Contract!Requests, Requests
<1> QED BY <1>4, <1>5

\* Every step of the path is a step of the contract or a stutter.
LEMMA ContractStep ==
    ASSUME IInv, [Next]_vars
    PROVE  [Contract!Next]_(Contract!vars)
<1>1. ASSUME NEW r \in Requests, RejectInvalid(r) PROVE [Contract!Next]_(Contract!vars)
  <2>1. /\ handler[r] = "new" /\ handler'[r] = "answered" /\ answer'[r].status = 400
        /\ \A q \in Requests \ {r} : handler'[q] = handler[q] /\ answer'[q] = answer[q]
        /\ UNCHANGED <<call, reply>>
    BY <1>1, Status400 DEF RejectInvalid, Respond, IInv, TypeOK
  <2> DEFINE stage == [q \in Requests |-> IF handler[q] = "calling" THEN "pending" ELSE handler[q]]
             accepted == [q \in Requests |-> call[q] # "none"]
             served == [q \in Requests |-> reply[q].code = "OK"]
             status == [q \in Requests |-> answer[q].status]
  <2>2. UNCHANGED <<accepted, served>>
    BY <2>1
  <2>3. /\ stage[r] = "new" /\ stage' = [stage EXCEPT ![r] = "answered"]
        /\ status' = [status EXCEPT ![r] = 400]
    <3>1. /\ stage' = [stage EXCEPT ![r] = "answered"]
          /\ status' = [status EXCEPT ![r] = answer'[r].status]
          /\ stage[r] = IF handler[r] = "calling" THEN "pending" ELSE handler[r]
      BY <2>1, ContractAnswered
    <3> QED BY <3>1, <2>1
  <2>4. Contract!Reject(r)
    BY <2>2, <2>3, Zenon DEF Contract!Reject
  <2> QED BY <2>4 DEF Contract!Next, Contract!Requests, Requests
<1>2. ASSUME NEW r \in Requests, NEW t, StartRPC(r, t) PROVE [Contract!Next]_(Contract!vars)
  <2>1. /\ handler[r] = "new" /\ handler'[r] = "calling" /\ call'[r] = "sent"
        /\ \A q \in Requests \ {r} : handler'[q] = handler[q] /\ call'[q] = call[q]
        /\ UNCHANGED <<answer, reply>>
    BY <1>2 DEF StartRPC, IInv, TypeOK
  <2> DEFINE stage == [q \in Requests |-> IF handler[q] = "calling" THEN "pending" ELSE handler[q]]
             accepted == [q \in Requests |-> call[q] # "none"]
  <2>2. stage' = [stage EXCEPT ![r] = "pending"]
    BY <2>1
  <2>3. accepted' = [accepted EXCEPT ![r] = TRUE]
    <3>1. \A q \in Requests : call'[q] # "none" <=> (q = r \/ call[q] # "none")
      BY <2>1
    <3> QED BY <3>1, Zenon
  <2>4. stage[r] = "new"
    BY <2>1
  <2>5. Contract!Accept(r)
    BY <2>1, <2>2, <2>3, <2>4 DEF Contract!Accept, Contract!Requests, Requests
  <2> QED BY <2>5 DEF Contract!Next, Contract!Requests, Requests
<1>3. ASSUME NEW r \in Requests, HandlerStep(r) PROVE [Contract!Next]_(Contract!vars)
  BY <1>3, ContractAnswer
<1>4. ASSUME NEW r \in Requests, Admit(r) \/ LoseCall(r) \/ CancelArrives(r) \/ SkipCancelled(r) \/ StartIris(r)
      PROVE  [Contract!Next]_(Contract!vars)
  <2>1. UNCHANGED <<handler, answer, reply>>
    BY <1>4 DEF Admit, LoseCall, CancelArrives, SkipCancelled, StartIris, gateway
  <2>2. call[r] \in {"sent", "queued"}
    BY <1>4, HeadOfQueue DEF Admit, LoseCall, CancelArrives, SkipCancelled, StartIris, IInv
  <2>3. \A q \in Requests : call'[q] = "none" <=> call[q] = "none"
    BY <1>4, <2>2 DEF Admit, LoseCall, CancelArrives, SkipCancelled, StartIris, EndCall, IInv, TypeOK
  <2> QED BY <2>1, <2>3, ContractStutter
<1>5. ASSUME NEW r \in ModelRequests, StartModel(r) \/ Proceeds(r)
      PROVE  [Contract!Next]_(Contract!vars)
  <2>1. CASE StartModel(r)
    <3>1. /\ UNCHANGED <<handler, answer, reply>> /\ r \in Requests
          /\ call[r] = "queued" /\ call' = [call EXCEPT ![r] = "running"]
      BY <2>1, HeadOfQueue DEF StartModel, Generate, IInv, gateway, Requests
    <3>2. \A q \in Requests : call'[q] = "none" <=> call[q] = "none"
      BY <3>1 DEF IInv, TypeOK
    <3> QED BY <3>1, <3>2, ContractStutter
  <2>2. CASE Proceeds(r)
    <3>1. UNCHANGED <<handler, answer, call, reply>>
      BY <2>2, ProceedEffect DEF NextOperation, Waits, gateway, IInv
    <3> QED BY <3>1, ContractStutter
  <2> QED BY <1>5, <2>1, <2>2
<1>6. ASSUME NEW r \in Requests, Refuse(r) \/ FailFast(r) \/ RefusePrompt(r) \/ IrisFinishes(r)
      PROVE  [Contract!Next]_(Contract!vars)
  <2>1. call[r] # "none"
    <3>1. CASE RefusePrompt(r)
      BY <3>1, HeadOfQueue DEF RefusePrompt, IInv
    <3> QED BY <1>6, <3>1 DEF Refuse, FailFast, IrisFinishes
  <2>2. UNCHANGED <<handler, answer>>
    BY <1>6 DEF Refuse, FailFast, RefusePrompt, IrisFinishes, LeaveCall, gateway
  <2>3. \E rep : Reply(r, rep) /\ EndCall(r)
    BY <1>6 DEF Refuse, FailFast, RefusePrompt, IrisFinishes, LeaveCall
  <2> QED BY <2>1, <2>2, <2>3, ContractReply
<1>7. ASSUME NEW r \in ModelRequests,
             OllamaAnswers(r) \/ OllamaRefuses(r) \/ OllamaFails(r) \/ OllamaTimesOut(r)
      PROVE  [Contract!Next]_(Contract!vars)
  <2>1. call[r] = "running" /\ r \in Requests
    BY <1>7 DEF IInv, ClockInv, OllamaClock, OllamaAnswers, OllamaRefuses, OllamaFails, OllamaTimesOut, Requests
  <2>2. \E rep : LeaveCall(r, rep)
    BY <1>7 DEF OllamaAnswers, OllamaRefuses, OllamaFails, OllamaTimesOut
  <2> QED BY <2>1, <2>2, ContractReply DEF LeaveCall, gateway
<1>8. CASE Tick \/ Restart \/ Reconnect \/ UNCHANGED vars
  BY <1>8, ContractStutter DEF Tick, Restart, Reconnect, vars, gateway
<1>9. CASE ConnectionBreaks
  BY <1>9, ContractLose DEF ConnectionBreaks, gateway
<1>10. CASE Crash
  <2>1. \A q \in Requests : call'[q] = "none" <=> call[q] = "none"
    BY <1>10 DEF Crash, InPool
  <2> QED BY <1>10, <2>1, ContractLose DEF Crash, gateway
<1>11. ASSUME NEW r \in IrisRequests, IrisStep(r) \/ IrisFinishes(r) PROVE [Contract!Next]_(Contract!vars)
  BY <1>1, <1>2, <1>6, <1>11 DEF IrisStep, RejectIris, ForwardIris, Requests
<1>12. ASSUME NEW r \in ModelRequests, ModelStep(r) \/ OllamaStep(r) PROVE [Contract!Next]_(Contract!vars)
  BY <1>1, <1>2, <1>5, <1>7, <1>12 DEF ModelStep, RejectModel, ForwardModel, OllamaStep, Proceeds, Requests
<1>13. ASSUME NEW r \in Requests, HandlerStep(r) \/ ChannelStep(r) \/ WorkerStart(r)
       PROVE  [Contract!Next]_(Contract!vars)
  BY <1>3, <1>4, <1>5, <1>6, <1>13 DEF ChannelStep, WorkerStart, StartModel, Generate
<1> QED BY <1>8, <1>9, <1>10, <1>11, <1>12, <1>13 DEF Next, Terminated

\* The initial states are the contract's.
LEMMA ContractInit == Init => Contract!Init
<1> SUFFICES ASSUME Init PROVE Contract!Init
  OBVIOUS
<1>1. \A r \in Requests :
         handler[r] = "new" /\ answer[r].status = 0 /\ call[r] = "none" /\ reply[r].code # "OK"
  BY DEF Init, NoReply, Unanswered
<1>2. [r \in Requests |-> IF handler[r] = "calling" THEN "pending" ELSE handler[r]] = [r \in Requests |-> "new"]
  BY <1>1
<1>3. [r \in Requests |-> call[r] # "none"] = [r \in Requests |-> FALSE]
  BY <1>1, Zenon
<1>4. [r \in Requests |-> reply[r].code = "OK"] = [r \in Requests |-> FALSE]
  BY <1>1, Zenon
<1>5. [r \in Requests |-> answer[r].status] = [r \in Requests |-> 0]
  BY <1>1
<1> QED BY <1>2, <1>3, <1>4, <1>5 DEF Contract!Init, Contract!Requests, Requests

\* The safety part of the refinement: the path answers every request at most once
\* and for good, with a 200 only when the backend completed the inference, for any
\* number of requests and workers, any timeouts and any number of faults.
THEOREM ImplementsContract == Spec => Contract!Init /\ [][Contract!Next]_(Contract!vars)
BY ContractInit, ContractStep, InductiveInvariant, PTL DEF Spec
=============================================================================
