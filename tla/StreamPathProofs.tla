--------------------------- MODULE StreamPathProofs ---------------------------
(* The streaming path for any number of streams and workers, any timeouts and  *)
(* any number of faults: types, overtime, and the promise to the client.       *)
EXTENDS StreamPath, TallyProofs, SequenceTheorems

EvalCounts == {0} \cup TokenCounts

LEMMA ParametersAreNat ==
    /\ Addresses \in Nat \ {0} /\ MaxReads \in Nat \ {0}
    /\ NumPredict \in Nat /\ ModelTimeout \in Nat /\ OllamaTimeout \in Nat /\ MaxFaults \in Nat
    /\ \A n \in EvalCounts : n \in Nat
  BY ParametersAssumption, DataAssumption DEF EvalCounts

\* The time for n socket operations is a number of ticks, and one more adds a whole timeout.
LEMMA TimeForOperations ==
    /\ \A n \in Nat : TimeFor(n) \in Nat /\ TimeFor(n + 1) = TimeFor(n) + OllamaTimeout
    /\ \A m, n \in Nat : m <= n => TimeFor(m) <= TimeFor(n)
  <1>1. OllamaTimeout \in Nat BY ParametersAreNat
  <1>2. ASSUME NEW n \in Nat PROVE TimeFor(n) \in Nat /\ TimeFor(n + 1) = TimeFor(n) + OllamaTimeout
    BY <1>1 DEF TimeFor
  <1>3. ASSUME NEW m \in Nat, NEW n \in Nat, m <= n PROVE TimeFor(m) <= TimeFor(n)
    <2>1. n = m + (n - m) /\ n - m \in Nat BY <1>3
    <2>2. n * OllamaTimeout = m * OllamaTimeout + (n - m) * OllamaTimeout BY <1>1, <2>1
    <2>3. (n - m) * OllamaTimeout \in Nat /\ m * OllamaTimeout \in Nat BY <1>1, <2>1
    <2> QED BY <2>2, <2>3 DEF TimeFor
  <1> QED BY <1>2, <1>3

\* The steps in which the worker goes on to its next socket operation and nothing else happens.
Proceeds(s) == OllamaNextAddress(s) \/ OllamaConnected(s) \/ OllamaSendsPart(s)

LEMMA ProceedEffect ==
    ASSUME TypeOK, NEW s \in Streams, Proceeds(s)
    PROVE  /\ ollama[s] # "idle" /\ UNCHANGED <<wire, made, final>>
           /\ \E phase \in {"connect", "read"}, n \in Nat : NextOperation(s, phase, n)
  <1>1. ops[s] + 1 \in Nat BY DEF TypeOK, BackendTyped
  <1> QED BY <1>1 DEF Proceeds, OllamaNextAddress, OllamaConnected, OllamaSendsPart

\* What APIErrorFromGRPC makes of the errors a stream's creation can return.
LEMMA CreationStatuses ==
    ASSUME NEW s \in Streams, NEW code \in CreationErrors(s)
    PROVE  APIErrorFromGRPC(code).status \in {500, 503, 504}
  <1>1. code \in {"UNAVAILABLE", "DEADLINE_EXCEEDED", "CANCELLED"} BY DEF CreationErrors
  <1> QED BY <1>1 DEF APIErrorFromGRPC

\* A connection is lost with the statuses that were still to come; without a loss the
\* chunks of a stream stay.
LEMMA ConnectionLoss ==
    ASSUME TypeOK, LoseConnection
    PROVE  /\ wire' \in [Streams -> Seq(EvalCounts)]
           /\ trailer' \in [Streams -> {"none", "OK", "failed"}]
           /\ faults' \in 0 .. MaxFaults
           /\ \A s \in Streams :
                 /\ Len(wire'[s]) <= Len(wire[s])
                 /\ trailer'[s] # "failed" => trailer'[s] = trailer[s] /\ Len(wire'[s]) = Len(wire[s])
  <1>1. PICK hit \in SUBSET Open, keep \in [Streams -> 0 .. NumPredict + 1] :
          /\ \A s \in Streams : keep[s] <= Len(wire[s]) /\ (s \notin hit => keep[s] = Len(wire[s]))
          /\ wire' = [s \in Streams |-> SubSeq(wire[s], 1, keep[s])]
          /\ trailer' = [s \in Streams |-> IF s \in hit THEN "failed" ELSE trailer[s]]
    BY DEF LoseConnection
  <1>2. faults' \in 0 .. MaxFaults BY ParametersAreNat DEF LoseConnection, TypeOK, BackendTyped
  <1>3. ASSUME NEW s \in Streams
        PROVE  SubSeq(wire[s], 1, keep[s]) \in Seq(EvalCounts) /\ Len(SubSeq(wire[s], 1, keep[s])) = keep[s]
    <2>1. wire[s] \in Seq(EvalCounts) BY DEF TypeOK, CallsTyped, EvalCounts
    <2>2. keep[s] \in Nat /\ keep[s] <= Len(wire[s]) BY <1>1, ParametersAreNat
    <2>3. \A i \in 1 .. keep[s] : wire[s][i] \in EvalCounts BY <2>1, <2>2
    <2> QED BY <2>2, <2>3, SubSeqProperties
  <1>4. trailer' \in [Streams -> {"none", "OK", "failed"}] BY <1>1 DEF TypeOK, CallsTyped
  <1>5. wire' \in [Streams -> Seq(EvalCounts)] BY <1>1, <1>3
  <1>6. ASSUME NEW s \in Streams
        PROVE  /\ Len(wire'[s]) <= Len(wire[s])
               /\ trailer'[s] # "failed" => trailer'[s] = trailer[s] /\ Len(wire'[s]) = Len(wire[s])
    <2>1. Len(wire'[s]) = keep[s] BY <1>1, <1>3
    <2>2. trailer'[s] = IF s \in hit THEN "failed" ELSE trailer[s] BY <1>1
    <2> QED BY <1>1, <2>1, <2>2
  <1> QED BY <1>2, <1>4, <1>5, <1>6

LEMMA InitIInv == Init => IInv
  <1> SUFFICES ASSUME Init PROVE IInv OBVIOUS
  <1>1. TypeOK
    BY ParametersAreNat
    DEF Init, TypeOK, HandlersTyped, MetricsTyped, CallsTyped, BackendTyped, NoFinal
  <1>2. CallInv BY DEF Init, CallInv, Open
  <1>3. ChunkInv BY DEF Init, ChunkInv
  <1>4. OvertimeInv BY DEF Init, OvertimeInv
  <1> QED BY <1>1, <1>2, <1>3, <1>4 DEF IInv

-----------------------------------------------------------------------------
(* Types.                                                                  *)

LEMMA GatewayTypes ==
    ASSUME TypeOK, NEW s \in Streams,
           \/ Reject(s) \/ StartStream(s) \/ CreationStep(s) \/ ClientLeaves(s) \/ LoopTop(s) \/ RecvStep(s)
    PROVE  TypeOK'
  <1>1. ASSUME NEW st \in HTTPStatuses, Commit(s, st)
        PROVE  /\ status' \in [Streams -> {0} \cup HTTPStatuses]
               /\ HTTPRequestsTotal' \in [HTTPStatuses -> Nat]
    BY <1>1 DEF Commit, TypeOK, HandlersTyped, MetricsTyped
  <1>2. Finish(s) => /\ handler' \in [Streams -> {"new", "opening", "loop", "recv", "finished"}]
                     /\ HTTPDuration' \in Nat
    BY DEF Finish, TypeOK, HandlersTyped, MetricsTyped
  <1>3. CASE Reject(s)
    <2>1. ValidationError.status \in HTTPStatuses BY DEF ValidationError, HTTPStatuses
    <2>2. HandlersTyped' /\ MetricsTyped'
      BY <1>1, <1>2, <1>3, <2>1 DEF Reject, TypeOK, HandlersTyped, MetricsTyped
    <2> QED BY <1>3, <2>2 DEF Reject, TypeOK, CallsTyped, BackendTyped, rpc, backend, generation
  <1>4. CASE StartStream(s)
    <2>1. HandlersTyped'
      BY <1>4, ParametersAreNat DEF StartStream, CallStream, client, TypeOK, HandlersTyped
    <2> QED BY <1>4, <2>1
        DEF StartStream, CallStream, metrics, rpc, backend, generation, TypeOK, MetricsTyped, CallsTyped, BackendTyped
  <1>5. CASE StreamOpens(s)
    <2>1. Success.status \in HTTPStatuses BY DEF Success, HTTPStatuses
    <2>2. HandlersTyped' /\ MetricsTyped'
      BY <1>1, <1>5, <2>1 DEF StreamOpens, TypeOK, HandlersTyped, MetricsTyped
    <2>3. CallsTyped' BY <1>5 DEF StreamOpens, TypeOK, CallsTyped
    <2> QED BY <1>5, <2>2, <2>3 DEF StreamOpens, TypeOK, BackendTyped, backend, generation
  <1>6. CASE StreamFails(s)
    <2>1. PICK code \in CreationErrors(s) : Commit(s, APIErrorFromGRPC(code).status)
      BY <1>6 DEF StreamFails
    <2>2. APIErrorFromGRPC(code).status \in HTTPStatuses
      BY CreationStatuses DEF HTTPStatuses
    <2>3. HandlersTyped' /\ MetricsTyped'
      <3> HIDE DEF APIErrorFromGRPC
      <3> QED BY <1>1, <1>2, <1>6, <2>1, <2>2 DEF StreamFails, TypeOK, HandlersTyped, MetricsTyped
    <2> QED BY <1>6, <2>3 DEF StreamFails, TypeOK, CallsTyped, BackendTyped, rpc, backend, generation
  <1>7. CASE ClientLeaves(s)
    BY <1>7 DEF ClientLeaves, metrics, rpc, backend, generation, TypeOK, HandlersTyped, MetricsTyped, CallsTyped, BackendTyped
  <1>8. CASE LoopTop(s)
    <2>1. HandlersTyped' /\ MetricsTyped'
      BY <1>2, <1>8 DEF LoopTop, client, TypeOK, HandlersTyped, MetricsTyped
    <2> QED BY <1>8, <2>1 DEF LoopTop, TypeOK, CallsTyped, BackendTyped, rpc, backend, generation
  <1>9. CASE RecvChunk(s)
    <2>1. wire[s] \in Seq(EvalCounts) /\ wire[s] # <<>>
      BY <1>9 DEF RecvChunk, EvalCounts, TypeOK, CallsTyped
    <2>2. Head(wire[s]) \in EvalCounts /\ Tail(wire[s]) \in Seq(EvalCounts)
      BY <2>1, HeadTailProperties
    <2>3. Head(wire[s]) \in Nat BY <2>2, ParametersAreNat
    <2>4. wire' \in [Streams -> Seq(EvalCounts)]
      BY <1>9, <2>2 DEF RecvChunk, EvalCounts, TypeOK, CallsTyped
    <2>5. MetricsTyped' BY <1>9, <2>3 DEF RecvChunk, TypeOK, MetricsTyped
    <2>6. HandlersTyped' BY <1>9 DEF RecvChunk, TypeOK, HandlersTyped
    <2> QED BY <1>9, <2>4, <2>5, <2>6 DEF RecvChunk, TypeOK, CallsTyped, BackendTyped, backend, generation, EvalCounts
  <1>10. CASE RecvEOF(s) \/ RecvError(s)
    <2>1. PICK event \in {"done", "error"} : LastEvent(s, event)
      BY <1>10 DEF RecvEOF, RecvError
    <2>2. HandlersTyped' /\ MetricsTyped'
      BY <1>2, <2>1 DEF LastEvent, TypeOK, HandlersTyped, MetricsTyped
    <2> QED BY <2>1, <2>2 DEF LastEvent, TypeOK, CallsTyped, BackendTyped, rpc, backend, generation
  <1> QED BY <1>3, <1>4, <1>5, <1>6, <1>7, <1>8, <1>9, <1>10 DEF CreationStep, RecvStep

\* python-ai and the wire never touch the handler.
LEMMA GatewayStill ==
    ASSUME TypeOK, UNCHANGED <<body, gateway>>
    PROVE  HandlersTyped' /\ MetricsTyped'
  BY DEF gateway, client, metrics, TypeOK, HandlersTyped, MetricsTyped

LEMMA EndCallTypes ==
    ASSUME TypeOK, NEW s \in Streams, NEW t \in {"OK", "failed"}, EndCall(s, t), UNCHANGED <<wire, cancelled>>
    PROVE  CallsTyped'
  BY DEF EndCall, TypeOK, CallsTyped

LEMMA ServerTypes == ASSUME TypeOK, NEW s \in Streams, ServerStep(s) PROVE TypeOK'
  <1>1. CASE Refuse(s) \/ DropCancelled(s)
    BY <1>1, GatewayStill, EndCallTypes DEF Refuse, DropCancelled, TypeOK, BackendTyped, backend, generation
  <1>2. CASE CancelArrives(s)
    <2>1. CallsTyped' BY <1>2 DEF CancelArrives, TypeOK, CallsTyped
    <2> QED BY <1>2, <2>1, GatewayStill DEF CancelArrives, TypeOK, BackendTyped, backend, generation
  <1>3. CASE TakeCall(s)
    <2>1. CallsTyped'
      <3>1. CASE ModelBackendAccepts(body[s])
        BY <1>3, <3>1 DEF TakeCall, Generate, TypeOK, CallsTyped
      <3>2. CASE ~ModelBackendAccepts(body[s])
        BY <1>3, <3>2, EndCallTypes DEF TakeCall, Generate
      <3> QED BY <3>1, <3>2
    <2>2. BackendTyped'
      BY <1>3, ParametersAreNat DEF TakeCall, Generate, generation, TypeOK, BackendTyped
    <2> QED BY <1>3, <2>1, <2>2, GatewayStill DEF TakeCall, Generate, TypeOK
  <1> QED BY <1>1, <1>2, <1>3 DEF ServerStep

LEMMA OllamaTypes == ASSUME TypeOK, NEW s \in Streams, OllamaStep(s) PROVE TypeOK'
  <1>1. ASSUME NEW t \in {"OK", "failed"}, Leave(s, t), ended' \in [Streams -> BOOLEAN] PROVE TypeOK'
    <2>1. BackendTyped' BY <1>1 DEF Leave, TypeOK, BackendTyped
    <2> QED BY <1>1, <2>1, GatewayStill, EndCallTypes DEF Leave, TypeOK
  <1>2. ASSUME NEW n \in EvalCounts, Yield(s, n), final' \in [Streams -> {NoFinal} \cup TokenCounts]
        PROVE  TypeOK'
    <2>1. wire[s] \in Seq(EvalCounts) BY DEF EvalCounts, TypeOK, CallsTyped
    <2>2. Append(wire[s], n) \in Seq(EvalCounts) BY <2>1
    <2>3. wire' \in [Streams -> Seq(EvalCounts)]
      BY <1>2, <2>2 DEF Yield, EvalCounts, TypeOK, CallsTyped
    <2>4. CallsTyped' BY <1>2, <2>3 DEF Yield, NextOperation, EvalCounts, TypeOK, CallsTyped
    <2>5. BackendTyped' BY <1>2, ParametersAreNat DEF Yield, NextOperation, TypeOK, BackendTyped
    <2> QED BY <1>2, <2>4, <2>5, GatewayStill DEF Yield, NextOperation, TypeOK
  <1>3. CASE Proceeds(s)
    <2>1. PICK phase \in {"connect", "read"}, n \in Nat :
            NextOperation(s, phase, n) /\ UNCHANGED <<wire, made, final>>
      BY <1>3, ProceedEffect
    <2>2. BackendTyped' BY <2>1, ParametersAreNat DEF NextOperation, TypeOK, BackendTyped
    <2> QED BY <2>1, <2>2, GatewayStill DEF NextOperation, TypeOK, CallsTyped
  <1>4. CASE OllamaSendsChunk(s)
    BY <1>1, <1>2, <1>4 DEF OllamaSendsChunk, Returns, EvalCounts, TypeOK, BackendTyped
  <1>5. CASE OllamaSendsFinalChunk(s)
    <2>1. CASE cancelled[s] BY <1>1, <1>5, <2>1 DEF OllamaSendsFinalChunk, Returns, TypeOK, BackendTyped
    <2>2. CASE ~cancelled[s]
      <3>1. PICK n \in TokenCounts : Yield(s, n) /\ final' = [final EXCEPT ![s] = n]
        BY <1>5, <2>2 DEF OllamaSendsFinalChunk
      <3>2. final' \in [Streams -> {NoFinal} \cup TokenCounts] BY <3>1 DEF TypeOK, BackendTyped
      <3> QED BY <1>2, <3>1, <3>2 DEF EvalCounts
    <2> QED BY <2>1, <2>2
  <1>6. CASE OllamaEnds(s)
    <2>1. ended' \in [Streams -> BOOLEAN] BY <1>6 DEF OllamaEnds, TypeOK, BackendTyped
    <2> QED BY <1>1, <1>6, <2>1 DEF OllamaEnds
  <1>7. CASE OllamaFails(s) \/ OllamaTimesOut(s)
    BY <1>1, <1>7 DEF OllamaFails, OllamaTimesOut, Returns, TypeOK, BackendTyped
  <1> QED BY <1>3, <1>4, <1>5, <1>6, <1>7 DEF OllamaStep, Proceeds

LEMMA CountDownType ==
    ASSUME NEW timer \in [Streams -> Nat], NEW S
    PROVE  CountDown(timer, S) \in [Streams -> Nat]
  BY DEF CountDown

LEMMA EnvironmentTypes ==
    ASSUME TypeOK, Tick \/ ConnectionBreaks \/ Crash \/ Restart \/ Reconnect
    PROVE  TypeOK'
  <1>1. CASE Tick
    <2>1. ttl' \in [Streams -> Nat] /\ otl' \in [Streams -> Nat]
      BY <1>1, CountDownType DEF Tick, TypeOK, HandlersTyped, BackendTyped
    <2>2. overtime' \in [Streams -> Nat] BY <1>1 DEF Tick, TypeOK, BackendTyped
    <2>3. HandlersTyped' /\ BackendTyped'
      BY <1>1, <2>1, <2>2 DEF Tick, client, generation, TypeOK, HandlersTyped, BackendTyped
    <2> QED BY <1>1, <2>3 DEF Tick, metrics, rpc, TypeOK, MetricsTyped, CallsTyped
  <1>2. CASE ConnectionBreaks
    <2>1. CallsTyped' /\ BackendTyped'
      BY <1>2, ConnectionLoss
      DEF ConnectionBreaks, LoseConnection, generation, TypeOK, CallsTyped, BackendTyped, EvalCounts
    <2> QED BY <1>2, <2>1, GatewayStill DEF ConnectionBreaks, TypeOK
  <1>3. CASE Crash
    <2>1. CallsTyped' BY <1>3, ConnectionLoss DEF Crash, TypeOK, CallsTyped, EvalCounts
    <2>2. BackendTyped' BY <1>3, ConnectionLoss DEF Crash, LoseConnection, generation, TypeOK, BackendTyped
    <2> QED BY <1>3, <2>1, <2>2, GatewayStill DEF Crash, TypeOK
  <1>4. CASE Restart \/ Reconnect
    BY <1>4, GatewayStill DEF Restart, Reconnect, rpc, generation, TypeOK, CallsTyped, BackendTyped
  <1> QED BY <1>1, <1>2, <1>3, <1>4

-----------------------------------------------------------------------------
(* Calls and their chunks.                                                 *)

\* The end of a call: its status counts only if none is there and the call goes on.
LEMMA EndCallEffect ==
    ASSUME TypeOK, NEW s \in Streams, NEW t \in {"OK", "failed"}, EndCall(s, t)
    PROVE  /\ call' = [call EXCEPT ![s] = "ended"]
           /\ \A r \in Streams : trailer'[r] = trailer[r] \/ (r = s /\ trailer'[r] = t /\ trailer[r] = "none")
  BY DEF EndCall, TypeOK, CallsTyped

LEMMA CallStep == ASSUME IInv, [Next]_vars PROVE CallInv'
  <1> USE DEF CallInv, Open
  <1>1. TypeOK /\ CallInv BY DEF IInv
  <1>2. ASSUME UNCHANGED <<handler, status, call, ollama, ended>> PROVE CallInv'
    BY <1>1, <1>2
  <1>3. ASSUME NEW s \in Streams,
               Reject(s) \/ StartStream(s) \/ CreationStep(s) \/ ClientLeaves(s) \/ LoopTop(s) \/ RecvStep(s)
        PROVE  CallInv'
    <2>1. CASE Reject(s)
      <3>1. handler' = [handler EXCEPT ![s] = "finished"] /\ UNCHANGED <<call, ollama, ended>> /\ handler[s] = "new"
        BY <2>1 DEF Reject, Finish, rpc, backend, generation
      <3>2. PICK st : status' = [status EXCEPT ![s] = st] BY <2>1 DEF Reject, Commit
      <3> QED BY <1>1, <3>1, <3>2 DEF TypeOK, HandlersTyped
    <2>2. CASE StartStream(s)
      BY <1>1, <2>2 DEF StartStream, CallStream, client, rpc, backend, generation, TypeOK, HandlersTyped
    <2>3. CASE StreamOpens(s)
      <3>1. status' = [status EXCEPT ![s] = 200] BY <2>3 DEF StreamOpens, Commit, Success
      <3>2. /\ handler' = [handler EXCEPT ![s] = "loop"] /\ call' = [call EXCEPT ![s] = "sent"]
            /\ handler[s] = "opening" /\ UNCHANGED <<ollama, ended>>
        BY <2>3 DEF StreamOpens, backend, generation
      <3> QED BY <1>1, <3>1, <3>2 DEF TypeOK, HandlersTyped, CallsTyped
    <2>4. CASE StreamFails(s)
      <3>1. handler' = [handler EXCEPT ![s] = "finished"] /\ UNCHANGED <<call, ollama, ended>> /\ handler[s] = "opening"
        BY <2>4 DEF StreamFails, Finish, rpc, backend, generation
      <3>2. PICK st : status' = [status EXCEPT ![s] = st] BY <2>4 DEF StreamFails, Commit
      <3> QED BY <1>1, <3>1, <3>2 DEF TypeOK, HandlersTyped
    <2>5. CASE ClientLeaves(s) BY <1>2, <2>5 DEF ClientLeaves, rpc, backend, generation
    <2>6. CASE LoopTop(s) \/ RecvStep(s)
      <3>1. /\ UNCHANGED <<status, call, ollama, ended>> /\ s \in Open
            /\ \E h \in {"loop", "recv", "finished"} : handler' = [handler EXCEPT ![s] = h]
        BY <2>6 DEF LoopTop, RecvStep, RecvChunk, RecvEOF, RecvError, LastEvent, Finish, client, rpc, backend, generation
      <3> QED BY <1>1, <3>1 DEF TypeOK, HandlersTyped
    <2> QED BY <1>3, <2>1, <2>2, <2>3, <2>4, <2>5, <2>6 DEF CreationStep
  <1>4. ASSUME NEW s \in Streams, ServerStep(s) PROVE CallInv'
    <2>1. CASE Refuse(s) \/ DropCancelled(s)
      <3>1. /\ call' = [call EXCEPT ![s] = "ended"] /\ call[s] = "sent" /\ UNCHANGED <<handler, status, ollama, ended>>
        BY <2>1 DEF Refuse, DropCancelled, EndCall, gateway, client, backend, generation
      <3> QED BY <1>1, <3>1 DEF TypeOK, CallsTyped
    <2>2. CASE CancelArrives(s) BY <1>2, <2>2 DEF CancelArrives, gateway, client, backend, generation
    <2>3. CASE TakeCall(s)
      <3>1. UNCHANGED <<handler, status, ended>> /\ call[s] = "sent"
        BY <2>3 DEF TakeCall, Generate, gateway, client, generation
      <3>2. \/ \E phase \in {"connect", "read"} :
                  call' = [call EXCEPT ![s] = "running"] /\ ollama' = [ollama EXCEPT ![s] = phase]
            \/ call' = [call EXCEPT ![s] = "ended"] /\ UNCHANGED ollama
        BY <2>3 DEF TakeCall, Generate, EndCall
      <3> QED BY <1>1, <3>1, <3>2 DEF TypeOK, CallsTyped, BackendTyped
    <2> QED BY <1>4, <2>1, <2>2, <2>3 DEF ServerStep
  <1>5. ASSUME NEW s \in Streams, OllamaStep(s) PROVE CallInv'
    <2>1. UNCHANGED <<handler, status>> /\ ollama[s] # "idle"
      <3>1. CASE Proceeds(s) BY <1>1, <3>1, ProceedEffect DEF NextOperation, gateway, client
      <3> QED
        BY <1>5, <3>1 DEF OllamaStep, Proceeds, OllamaSendsChunk, OllamaSendsFinalChunk, OllamaEnds, OllamaFails,
           OllamaTimesOut, Decisive, Returns, Leave, Yield, NextOperation, gateway, client
    <2>2. \/ /\ call' = [call EXCEPT ![s] = "ended"] /\ ollama' = [ollama EXCEPT ![s] = "idle"]
             /\ UNCHANGED ended \/ ended' = [ended EXCEPT ![s] = TRUE]
          \/ /\ UNCHANGED <<call, ended>>
             /\ \E phase \in {"connect", "read"} : ollama' = [ollama EXCEPT ![s] = phase]
      <3>1. CASE Proceeds(s) BY <1>1, <3>1, ProceedEffect DEF NextOperation
      <3> QED
        BY <1>5, <3>1 DEF OllamaStep, Proceeds, OllamaSendsChunk, OllamaSendsFinalChunk, OllamaEnds, OllamaFails,
           OllamaTimesOut, Returns, Leave, Yield, NextOperation, EndCall
    <2> QED BY <1>1, <2>1, <2>2 DEF TypeOK, CallsTyped, BackendTyped
  <1>6. CASE Tick \/ ConnectionBreaks \/ Restart \/ Reconnect \/ UNCHANGED vars
    BY <1>2, <1>6 DEF Tick, ConnectionBreaks, Restart, Reconnect, vars, gateway, client, rpc, backend, generation
  <1>7. CASE Crash
    BY <1>1, <1>7 DEF Crash, gateway, client, generation
  <1> QED BY <1>3, <1>4, <1>5, <1>6, <1>7 DEF Next, Terminated

LEMMA ChunkStep == ASSUME IInv, [Next]_vars PROVE ChunkInv'
  <1> USE DEF ChunkInv
  <1>1. TypeOK /\ ChunkInv BY DEF IInv
  <1>2. \A s \in Streams : /\ events[s] \in Nat /\ made[s] \in Nat /\ wire[s] \in Seq(EvalCounts)
                           /\ Len(wire[s]) \in Nat
    BY <1>1 DEF TypeOK, HandlersTyped, CallsTyped, BackendTyped, EvalCounts
  <1>3. ASSUME UNCHANGED <<events, wire, made, trailer, ended>> PROVE ChunkInv'
    BY <1>1, <1>3
  <1>4. ASSUME NEW s \in Streams,
               Reject(s) \/ StartStream(s) \/ CreationStep(s) \/ ClientLeaves(s) \/ LoopTop(s) \/ RecvStep(s)
        PROVE  ChunkInv'
    <2>1. CASE RecvChunk(s)
      <3>1. wire[s] # <<>> /\ events' = [events EXCEPT ![s] = @ + 1] /\ wire' = [wire EXCEPT ![s] = Tail(@)]
            /\ UNCHANGED <<made, trailer, ended>>
        BY <2>1 DEF RecvChunk, backend, generation
      <3>2. Len(Tail(wire[s])) = Len(wire[s]) - 1 BY <1>2, <3>1, HeadTailProperties
      <3>3. \A r \in Streams : events'[r] + Len(wire'[r]) = events[r] + Len(wire[r])
        BY <1>1, <1>2, <3>1, <3>2 DEF TypeOK, HandlersTyped, CallsTyped
      <3> QED BY <1>1, <3>1, <3>3
    <2>2. CASE ~RecvChunk(s)
      BY <1>3, <1>4, <2>2 DEF Reject, StartStream, CallStream, CreationStep, StreamOpens, StreamFails, ClientLeaves,
         LoopTop, RecvStep, RecvEOF, RecvError, LastEvent, client, rpc, backend, generation
    <2> QED BY <2>1, <2>2
  <1>5. ASSUME NEW s \in Streams, NEW t \in {"OK", "failed"}, EndCall(s, t), UNCHANGED <<events, wire, made>>,
               UNCHANGED ended \/ ended' = [ended EXCEPT ![s] = TRUE], t = "OK" => ended'[s] \/ cancelled[s]
        PROVE  ChunkInv'
    <2>1. \A r \in Streams : \/ trailer'[r] = trailer[r]
                             \/ r = s /\ trailer'[r] = t /\ trailer[r] = "none" /\ ~cancelled[s]
      BY <1>1, <1>5 DEF EndCall, TypeOK, CallsTyped
    <2>2. \A r \in Streams : ended[r] => ended'[r] BY <1>1, <1>5 DEF TypeOK, BackendTyped
    <2> QED BY <1>1, <1>5, <2>1, <2>2
  <1>6. ASSUME NEW s \in Streams, ServerStep(s) PROVE ChunkInv'
    <2>1. CASE Refuse(s) \/ DropCancelled(s)
      BY <1>5, <2>1 DEF Refuse, DropCancelled, gateway, client, backend, generation
    <2>2. CASE CancelArrives(s) BY <1>3, <2>2 DEF CancelArrives, gateway, client, backend, generation
    <2>3. CASE TakeCall(s) BY <1>3, <1>5, <2>3 DEF TakeCall, Generate, gateway, client, generation
    <2> QED BY <1>6, <2>1, <2>2, <2>3 DEF ServerStep
  <1>7. ASSUME NEW s \in Streams, OllamaStep(s) PROVE ChunkInv'
    <2>1. ASSUME NEW t \in {"OK", "failed"}, Leave(s, t),
                 UNCHANGED ended \/ ended' = [ended EXCEPT ![s] = TRUE], t = "OK" => ended'[s] \/ cancelled[s]
          PROVE  ChunkInv'
      BY <1>5, <2>1 DEF Leave, gateway, client
    <2>2. ASSUME NEW n \in EvalCounts, Yield(s, n)
          PROVE  ChunkInv'
      <3>1. /\ wire' = IF trailer[s] = "failed" THEN wire ELSE [wire EXCEPT ![s] = Append(@, n)]
            /\ made' = [made EXCEPT ![s] = @ + 1] /\ UNCHANGED <<events, trailer, ended>>
        BY <2>2 DEF Yield, NextOperation, gateway, client
      <3>2. Len(Append(wire[s], n)) = Len(wire[s]) + 1 BY <1>2
      <3>3. /\ Len(wire'[s]) = IF trailer[s] = "failed" THEN Len(wire[s]) ELSE Len(wire[s]) + 1
            /\ made'[s] = made[s] + 1
            /\ \A r \in Streams \ {s} : wire'[r] = wire[r] /\ made'[r] = made[r]
        BY <1>1, <3>1, <3>2 DEF TypeOK, CallsTyped, BackendTyped
      <3>5. ASSUME NEW r \in Streams
            PROVE  /\ events[r] + Len(wire'[r]) <= made'[r]
                   /\ trailer[r] # "failed" => events[r] + Len(wire'[r]) = made'[r]
        <4>1. events[r] \in Nat /\ made[r] \in Nat /\ Len(wire[r]) \in Nat BY <1>2
        <4>2. CASE r = s
          <5>1. events[r] + Len(wire[r]) <= made[r] /\ (trailer[r] # "failed" => events[r] + Len(wire[r]) = made[r])
            BY <1>1
          <5>2. made'[r] = made[r] + 1 /\ Len(wire'[r]) = IF trailer[r] = "failed" THEN Len(wire[r]) ELSE Len(wire[r]) + 1
            BY <3>3, <4>2
          <5> QED BY <4>1, <5>1, <5>2
        <4>3. CASE r # s BY <1>1, <3>3, <4>1, <4>3
        <4> QED BY <4>2, <4>3
      <3> QED BY <1>1, <3>1, <3>5
    <2>3. CASE Proceeds(s) BY <1>1, <1>3, <2>3, ProceedEffect DEF NextOperation, gateway, client
    <2>4. CASE OllamaSendsChunk(s)
      <3>1. 0 \in EvalCounts BY DEF EvalCounts
      <3>2. CASE cancelled[s] BY <2>1, <2>4, <3>2 DEF OllamaSendsChunk, Returns
      <3>3. CASE ~cancelled[s] BY <2>2, <2>4, <3>1, <3>3 DEF OllamaSendsChunk
      <3> QED BY <3>2, <3>3
    <2>5. CASE OllamaSendsFinalChunk(s)
      <3>1. CASE cancelled[s] BY <2>1, <2>5, <3>1 DEF OllamaSendsFinalChunk, Returns
      <3>2. CASE ~cancelled[s] BY <2>2, <2>5, <3>2 DEF OllamaSendsFinalChunk, EvalCounts
      <3> QED BY <3>1, <3>2
    <2>6. CASE OllamaEnds(s)
      <3>1. ended'[s] BY <1>1, <2>6 DEF OllamaEnds, TypeOK, BackendTyped
      <3> QED BY <2>1, <2>6, <3>1 DEF OllamaEnds
    <2>7. CASE OllamaFails(s) \/ OllamaTimesOut(s)
      BY <2>1, <2>7 DEF OllamaFails, OllamaTimesOut, Returns
    <2> QED BY <1>7, <2>3, <2>4, <2>5, <2>6, <2>7 DEF OllamaStep, Proceeds
  <1>8. CASE Tick \/ Restart \/ Reconnect \/ UNCHANGED vars
    BY <1>3, <1>8 DEF Tick, Restart, Reconnect, vars, gateway, client, rpc, backend, generation
  <1>9. CASE ConnectionBreaks \/ Crash
    <2>1. LoseConnection /\ UNCHANGED <<events, made, ended>>
      BY <1>9 DEF ConnectionBreaks, Crash, gateway, client, generation
    <2>2. \A s \in Streams : /\ Len(wire'[s]) \in Nat /\ Len(wire'[s]) <= Len(wire[s])
                             /\ trailer'[s] # "failed" => trailer'[s] = trailer[s] /\ Len(wire'[s]) = Len(wire[s])
      BY <1>1, <2>1, ConnectionLoss
    <2> QED BY <1>1, <1>2, <2>1, <2>2
  <1> QED BY <1>4, <1>6, <1>7, <1>8, <1>9 DEF Next, Terminated

-----------------------------------------------------------------------------
(* The overtime of a worker.                                               *)

LEMMA OvertimeStep == ASSUME IInv, [Next]_vars PROVE OvertimeInv'
  <1> USE DEF OvertimeInv
  <1>1. TypeOK /\ CallInv /\ OvertimeInv BY DEF IInv
  <1>2. OllamaTimeout \in Nat /\ Addresses \in Nat \ {0} /\ MaxReads \in Nat \ {0} BY ParametersAreNat
  <1>3. \A s \in Streams : otl[s] \in Nat /\ overtime[s] \in Nat /\ ops[s] \in Nat
    BY <1>1 DEF TypeOK, BackendTyped
  <1>4. ASSUME UNCHANGED <<ollama, overtime, cancelled, otl, ops>> PROVE OvertimeInv'
    BY <1>1, <1>4
  \* A worker that is idle, or works for a call that goes on, under a fresh timer.
  <1>5. ASSUME NEW s \in Streams, ~cancelled[s], overtime[s] = 0, NEW phase \in {"connect", "read"},
               ollama' = [ollama EXCEPT ![s] = phase], otl' = [otl EXCEPT ![s] = OllamaTimeout],
               ops' = [ops EXCEPT ![s] = 0], UNCHANGED <<overtime, cancelled>>
        PROVE  OvertimeInv'
    <2>1. OllamaTimeout <= TimeFor(0 + 1) /\ OllamaTimeout <= TimeFor(Addresses + 0 + 1)
      <3>1. TimeFor(0 + 1) = OllamaTimeout BY <1>2 DEF TimeFor
      <3>2. TimeFor(0 + 1) <= TimeFor(Addresses + 0 + 1) BY <1>2, TimeForOperations
      <3> QED BY <1>2, <3>1, <3>2
    <2>2. /\ ollama'[s] = phase /\ otl'[s] = OllamaTimeout /\ ops'[s] = 0 /\ overtime'[s] = 0
          /\ \A r \in Streams \ {s} : ollama'[r] = ollama[r] /\ otl'[r] = otl[r] /\ ops'[r] = ops[r]
      BY <1>1, <1>5 DEF TypeOK, BackendTyped
    <2> QED BY <1>1, <1>2, <1>5, <2>1, <2>2
  <1>6. ASSUME NEW s \in Streams,
               Reject(s) \/ StartStream(s) \/ CreationStep(s) \/ ClientLeaves(s) \/ LoopTop(s) \/ RecvStep(s)
        PROVE  OvertimeInv'
    BY <1>4, <1>6 DEF Reject, StartStream, CallStream, CreationStep, StreamOpens, StreamFails, ClientLeaves,
       LoopTop, RecvStep, RecvChunk, RecvEOF, RecvError, LastEvent, client, rpc, backend, generation
  <1>7. ASSUME NEW s \in Streams, ServerStep(s) PROVE OvertimeInv'
    <2>1. CASE Refuse(s) \/ DropCancelled(s) BY <1>4, <2>1 DEF Refuse, DropCancelled, backend, generation
    <2>2. CASE CancelArrives(s)
      <3>1. UNCHANGED <<ollama, overtime, otl, ops>> /\ cancelled' = [cancelled EXCEPT ![s] = TRUE]
        BY <2>2 DEF CancelArrives, backend, generation
      <3>2. \A r \in Streams : ~cancelled'[r] => ~cancelled[r] BY <1>1, <3>1 DEF TypeOK, CallsTyped
      <3> QED BY <1>1, <3>1, <3>2
    <2>3. CASE TakeCall(s)
      <3>1. UNCHANGED <<overtime, cancelled, ops>> /\ call[s] = "sent" /\ ~cancelled[s]
        BY <2>3 DEF TakeCall, Generate
      <3>2. \/ UNCHANGED <<ollama, otl>>
            \/ \E phase \in {"connect", "read"} :
                  ollama' = [ollama EXCEPT ![s] = phase] /\ otl' = [otl EXCEPT ![s] = OllamaTimeout]
        BY <2>3 DEF TakeCall, Generate
      <3>3. ollama[s] = "idle" /\ overtime[s] = 0 /\ ops[s] = 0
        BY <1>1, <3>1 DEF CallInv, TypeOK, BackendTyped
      <3>4. ops' = [ops EXCEPT ![s] = 0] BY <1>1, <3>1, <3>3 DEF TypeOK, BackendTyped
      <3> QED BY <1>4, <1>5, <3>1, <3>2, <3>3, <3>4
    <2> QED BY <1>7, <2>1, <2>2, <2>3 DEF ServerStep
  <1>8. ASSUME NEW s \in Streams, OllamaStep(s) PROVE OvertimeInv'
    <2>1. ASSUME NEW t, Leave(s, t) PROVE OvertimeInv'
      BY <1>1, <2>1 DEF Leave, TypeOK, BackendTyped
    <2>2. ASSUME NEW n, Yield(s, n), ~cancelled[s] PROVE OvertimeInv'
      <3>1. /\ ollama' = [ollama EXCEPT ![s] = "read"] /\ otl' = [otl EXCEPT ![s] = OllamaTimeout]
            /\ ops' = [ops EXCEPT ![s] = 0] /\ UNCHANGED <<overtime, cancelled>>
        BY <2>2 DEF Yield, NextOperation
      <3>2. overtime[s] = 0 BY <1>1, <2>2
      <3> QED BY <1>5, <2>2, <3>1, <3>2
    \* The next operation starts when the timer of the last has used up what it had.
    <2>3. ASSUME NEW phase \in {"connect", "read"}, NEW n \in Nat, NextOperation(s, phase, n),
                 IF phase = "connect" THEN n < Addresses ELSE n < MaxReads,
                 overtime[s] <= IF phase = "connect" THEN TimeFor(n) ELSE TimeFor(Addresses + n),
                 ollama[s] # "idle"
          PROVE  OvertimeInv'
      <3>1. /\ ollama'[s] = phase /\ otl'[s] = OllamaTimeout /\ ops'[s] = n
            /\ \A r \in Streams \ {s} : ollama'[r] = ollama[r] /\ otl'[r] = otl[r] /\ ops'[r] = ops[r]
            /\ UNCHANGED <<overtime, cancelled>>
        BY <1>1, <2>3 DEF NextOperation, TypeOK, BackendTyped
      <3>2. /\ TimeFor(n) \in Nat /\ TimeFor(n + 1) = TimeFor(n) + OllamaTimeout
            /\ TimeFor(Addresses + n) \in Nat /\ TimeFor(Addresses + n + 1) = TimeFor(Addresses + n) + OllamaTimeout
        <4>1. n \in Nat /\ Addresses + n \in Nat BY <1>2
        <4> QED BY <4>1, TimeForOperations
      <3> QED BY <1>1, <1>2, <1>3, <2>3, <3>1, <3>2
    <2>4. CASE OllamaNextAddress(s)
      <3>1. ollama[s] = "connect" /\ NextOperation(s, "connect", ops[s] + 1) /\ ops[s] + 1 # Addresses
        BY <2>4 DEF OllamaNextAddress, Decisive
      <3>2. ops[s] < Addresses /\ overtime[s] + otl[s] <= TimeFor(ops[s] + 1) /\ TimeFor(ops[s] + 1) \in Nat
        <4>1. ops[s] + 1 \in Nat BY <1>3
        <4> QED BY <1>1, <3>1, <4>1, TimeForOperations
      <3>3. ops[s] + 1 \in Nat /\ ops[s] + 1 < Addresses /\ overtime[s] <= TimeFor(ops[s] + 1)
        BY <1>2, <1>3, <3>1, <3>2
      <3> QED BY <2>3, <3>1, <3>3
    <2>5. CASE OllamaConnected(s)
      <3>1. ollama[s] = "connect" /\ NextOperation(s, "read", 0) BY <2>5 DEF OllamaConnected
      <3>2. /\ ops[s] < Addresses /\ overtime[s] + otl[s] <= TimeFor(ops[s] + 1) /\ ops[s] + 1 \in Nat
            /\ ops[s] + 1 <= Addresses
        BY <1>1, <1>2, <1>3, <3>1
      <3>3. TimeFor(ops[s] + 1) <= TimeFor(Addresses) /\ TimeFor(ops[s] + 1) \in Nat /\ TimeFor(Addresses) \in Nat
        BY <1>2, <3>2, TimeForOperations
      <3>4. overtime[s] <= TimeFor(Addresses + 0) /\ 0 < MaxReads BY <1>2, <1>3, <3>2, <3>3
      <3> QED BY <2>3, <3>1, <3>4
    <2>6. CASE OllamaSendsPart(s)
      <3>1. ollama[s] = "read" /\ NextOperation(s, "read", ops[s] + 1) /\ ops[s] + 1 < MaxReads
        BY <2>6 DEF OllamaSendsPart
      <3>2. /\ overtime[s] + otl[s] <= TimeFor(Addresses + ops[s] + 1)
            /\ TimeFor(Addresses + (ops[s] + 1)) \in Nat /\ Addresses + (ops[s] + 1) = Addresses + ops[s] + 1
        <4>1. Addresses + (ops[s] + 1) \in Nat /\ Addresses + (ops[s] + 1) = Addresses + ops[s] + 1
          BY <1>2, <1>3
        <4> QED BY <1>1, <3>1, <4>1, TimeForOperations
      <3>3. ops[s] + 1 \in Nat /\ overtime[s] <= TimeFor(Addresses + (ops[s] + 1))
        BY <1>3, <3>2
      <3> QED BY <2>3, <3>1, <3>3
    <2>7. CASE OllamaSendsChunk(s) BY <2>1, <2>2, <2>7, Zenon DEF OllamaSendsChunk, Returns
    <2>8. CASE OllamaSendsFinalChunk(s) BY <2>1, <2>2, <2>8, Zenon DEF OllamaSendsFinalChunk, Returns
    <2>9. CASE OllamaEnds(s) \/ OllamaFails(s) \/ OllamaTimesOut(s)
      BY <2>1, <2>9, Zenon DEF OllamaEnds, OllamaFails, OllamaTimesOut, Returns
    <2> QED BY <1>8, <2>4, <2>5, <2>6, <2>7, <2>8, <2>9 DEF OllamaStep
  <1>9. CASE ConnectionBreaks \/ Restart \/ Reconnect \/ UNCHANGED vars
    BY <1>4, <1>9 DEF ConnectionBreaks, Restart, Reconnect, vars, rpc, backend, generation
  <1>10. CASE Crash BY <1>10 DEF Crash
  <1>11. CASE Tick
    <2>1. UNCHANGED <<ollama, cancelled, ops>> BY <1>11 DEF Tick, rpc
    <2>2. ASSUME NEW s \in Streams
          PROVE  /\ s \in InOllama => otl[s] # 0 /\ otl'[s] = otl[s] - 1
                 /\ overtime'[s] = IF s \in InOllama /\ cancelled[s] THEN overtime[s] + 1 ELSE overtime[s]
      BY <1>3, <1>11 DEF Tick, CountDown
    <2>3. ASSUME NEW s \in Streams
          PROVE  s \in InOllama => overtime'[s] + otl'[s] <= overtime[s] + otl[s] /\ otl'[s] <= otl[s]
      BY <1>3, <2>2
    <2>4. ASSUME NEW s \in Streams PROVE otl'[s] \in Nat /\ overtime'[s] \in Nat
      BY <1>3, <1>11 DEF Tick, CountDown
    <2>5. ASSUME NEW s \in Streams
          PROVE  /\ TimeFor(ops[s] + 1) \in Nat /\ TimeFor(Addresses + ops[s] + 1) \in Nat
                 /\ TimeFor(ops'[s] + 1) = TimeFor(ops[s] + 1)
                 /\ TimeFor(Addresses + ops'[s] + 1) = TimeFor(Addresses + ops[s] + 1)
      <3>1. ops[s] + 1 \in Nat /\ Addresses + ops[s] + 1 \in Nat /\ ops'[s] = ops[s] BY <1>2, <1>3, <2>1
      <3> QED BY <3>1, TimeForOperations
    <2>6. ASSUME NEW s \in Streams
          PROVE  /\ ollama'[s] = "idle" \/ ~cancelled'[s] => overtime'[s] = 0
                 /\ ollama'[s] = "idle" => ops'[s] = 0
                 /\ ollama'[s] # "idle" => otl'[s] <= OllamaTimeout
                 /\ ollama'[s] = "connect" => ops'[s] < Addresses /\ overtime'[s] + otl'[s] <= TimeFor(ops'[s] + 1)
                 /\ ollama'[s] = "read" =>
                       ops'[s] < MaxReads /\ overtime'[s] + otl'[s] <= TimeFor(Addresses + ops'[s] + 1)
      <3>1. /\ ollama[s] = "idle" \/ ~cancelled[s] => overtime[s] = 0
            /\ ollama[s] = "idle" => ops[s] = 0
            /\ ollama[s] # "idle" => otl[s] <= OllamaTimeout
            /\ ollama[s] = "connect" => ops[s] < Addresses /\ overtime[s] + otl[s] <= TimeFor(ops[s] + 1)
            /\ ollama[s] = "read" => ops[s] < MaxReads /\ overtime[s] + otl[s] <= TimeFor(Addresses + ops[s] + 1)
        BY <1>1
      <3>2. s \in InOllama <=> ollama[s] # "idle" BY DEF InOllama
      <3> QED BY <1>2, <1>3, <2>1, <2>2, <2>3, <2>4, <2>5, <3>1, <3>2
    <2> QED BY <2>6
  <1> QED BY <1>6, <1>7, <1>8, <1>9, <1>10, <1>11 DEF Next, Terminated

-----------------------------------------------------------------------------
(* The theorems about the path's state.                                    *)

LEMMA StutterTypes == ASSUME TypeOK, UNCHANGED vars PROVE TypeOK'
  BY GatewayStill DEF vars, rpc, backend, generation, TypeOK, CallsTyped, BackendTyped

LEMMA StepIInv == IInv /\ [Next]_vars => IInv'
  <1> SUFFICES ASSUME IInv, [Next]_vars PROVE IInv' OBVIOUS
  <1>1. TypeOK BY DEF IInv
  <1>2. TypeOK'
    BY <1>1, GatewayTypes, ServerTypes, OllamaTypes, EnvironmentTypes, StutterTypes DEF Next, Terminated
  <1> QED BY <1>2, CallStep, ChunkStep, OvertimeStep DEF IInv

\* The inductive invariant: a call belongs to an opened stream, chunks are lost only with the
\* status behind them, an OK follows the regular end of Ollama's answer, and the overtime of a
\* worker is what its timers have lost.
THEOREM StreamInvariant == Spec => []IInv
  BY InitIInv, StepIInv, PTL DEF Spec

\* The state of every stream, metric and timer keeps its type.
THEOREM StreamTypes == Spec => []TypeOK
  <1>1. IInv => TypeOK BY DEF IInv
  <1> QED BY <1>1, StreamInvariant, PTL

\* A worker whose call is over is back within one timeout for each address of Ollama it tries and
\* for each read the next chunk takes, however many chunks are to come.
THEOREM OvertimeIsBounded == Spec => []OvertimeBounded
  <1>1. ASSUME IInv, NEW s \in Streams PROVE overtime[s] <= TimeFor(Addresses + MaxReads)
    <2>1. /\ otl[s] \in Nat /\ overtime[s] \in Nat /\ ops[s] \in Nat
          /\ ollama[s] \in {"idle", "connect", "read"}
          /\ Addresses \in Nat \ {0} /\ MaxReads \in Nat \ {0}
      BY <1>1, ParametersAreNat DEF IInv, TypeOK, BackendTyped
    <2>2. TimeFor(Addresses + MaxReads) \in Nat BY <2>1, TimeForOperations
    <2>3. ASSUME NEW n \in Nat, n <= Addresses + MaxReads, overtime[s] + otl[s] <= TimeFor(n)
          PROVE  overtime[s] <= TimeFor(Addresses + MaxReads)
      <3>1. TimeFor(n) \in Nat /\ TimeFor(n) <= TimeFor(Addresses + MaxReads)
        BY <2>1, <2>3, TimeForOperations
      <3> QED BY <2>1, <2>2, <2>3, <3>1
    <2>4. CASE ollama[s] = "idle" BY <1>1, <2>2, <2>4 DEF IInv, OvertimeInv
    <2>5. CASE ollama[s] = "connect"
      <3>1. ops[s] < Addresses /\ overtime[s] + otl[s] <= TimeFor(ops[s] + 1)
        BY <1>1, <2>5 DEF IInv, OvertimeInv
      <3>2. ops[s] + 1 \in Nat /\ ops[s] + 1 <= Addresses + MaxReads BY <2>1, <3>1
      <3> QED BY <2>3, <3>1, <3>2
    <2>6. CASE ollama[s] = "read"
      <3>1. ops[s] < MaxReads /\ overtime[s] + otl[s] <= TimeFor(Addresses + ops[s] + 1)
        BY <1>1, <2>6 DEF IInv, OvertimeInv
      <3>2. Addresses + ops[s] + 1 \in Nat /\ Addresses + ops[s] + 1 <= Addresses + MaxReads BY <2>1, <3>1
      <3> QED BY <2>3, <3>1, <3>2
    <2> QED BY <2>1, <2>4, <2>5, <2>6
  <1>2. IInv => OvertimeBounded BY <1>1 DEF OvertimeBounded
  <1> QED BY <1>2, StreamInvariant, PTL

-----------------------------------------------------------------------------
(* Metrics: counters and streams agree at every moment.                    *)

LEMMA StreamsFinite == ASSUME NEW S \in SUBSET Streams PROVE IsFiniteSet(S) /\ Cardinality(S) \in Nat
  BY StreamsAssumption, FS_Subset, FS_CardinalityType

\* The two halves of StreamMetrics, which no step disturbs together.
AnswerCounts ==
    /\ \A st \in HTTPStatuses : HTTPRequestsTotal[st] = Cardinality(Committed(st))
    /\ HTTPDuration = Cardinality(Finished)
    /\ GRPCRequestDuration["ok"] = HTTPRequestsTotal[200]
    /\ GRPCRequestDuration["error"] = Cardinality(CreationFailed)

TokenTotals ==
    /\ \A s \in Done : ended[s] /\ events[s] = made[s]
    /\ AITokensTotal = Total(Received, final)
    /\ AIGenerationDuration = Cardinality({s \in Received : final[s] > 0})

LEMMA InitMetrics == Init => AnswerCounts /\ TokenTotals /\ WireInv
  <1> SUFFICES ASSUME Init PROVE AnswerCounts /\ TokenTotals /\ WireInv OBVIOUS
  <1>1. \A st \in HTTPStatuses : Committed(st) = {} BY DEF Init, Committed, HTTPStatuses
  <1>2. Finished = {} /\ CreationFailed = {} BY DEF Init, Finished, CreationFailed
  <1>3. Done = {} /\ Received = {} /\ {s \in Received : final[s] > 0} = {} BY DEF Init, Done, Received
  <1>4. Cardinality({}) = 0 BY FS_EmptySet
  <1>5. AnswerCounts
    <2>1. \A st \in HTTPStatuses : HTTPRequestsTotal[st] = 0 BY DEF Init
    <2>2. GRPCRequestDuration["ok"] = 0 /\ GRPCRequestDuration["error"] = 0 BY DEF Init
    <2>3. 200 \in HTTPStatuses /\ HTTPDuration = 0 BY DEF Init, HTTPStatuses
    <2> QED BY <1>1, <1>2, <1>4, <2>1, <2>2, <2>3 DEF AnswerCounts
  <1>6. Total(Received, final) = 0 BY <1>3, NoTotal
  <1>7. TokenTotals BY <1>3, <1>4, <1>6 DEF Init, TokenTotals
  <1>8. WireInv BY DEF Init, WireInv
  <1> QED BY <1>5, <1>7, <1>8

\* A status is committed once, and counted with it.
LEMMA CommitCounts ==
    ASSUME TypeOK, AnswerCounts, NEW s \in Streams, NEW st \in HTTPStatuses, status[s] = 0, Commit(s, st)
    PROVE  /\ \A t \in HTTPStatuses : HTTPRequestsTotal'[t] = Cardinality(Committed(t)')
           /\ HTTPRequestsTotal'[200] = IF st = 200 THEN HTTPRequestsTotal[200] + 1 ELSE HTTPRequestsTotal[200]
           /\ Cardinality(CreationFailed') = IF st \in {500, 503, 504} THEN Cardinality(CreationFailed) + 1
                                                                       ELSE Cardinality(CreationFailed)
  <1>1. /\ \A r \in Streams : status'[r] = IF r = s THEN st ELSE status[r]
        /\ \A t \in HTTPStatuses : HTTPRequestsTotal'[t] = IF t = st THEN HTTPRequestsTotal[t] + 1
                                                                     ELSE HTTPRequestsTotal[t]
    BY DEF Commit, TypeOK, HandlersTyped, MetricsTyped
  <1>2. ASSUME NEW t \in HTTPStatuses PROVE HTTPRequestsTotal'[t] = Cardinality(Committed(t)')
    <2>1. HTTPRequestsTotal[t] = Cardinality(Committed(t)) BY DEF AnswerCounts
    <2>2. CASE t = st
      <3>1. Committed(t)' = Committed(t) \cup {s} BY <1>1, <2>2 DEF Committed
      <3>2. s \notin Committed(t) BY DEF Committed, HTTPStatuses
      <3>3. IsFiniteSet(Committed(t)) BY StreamsFinite DEF Committed
      <3> QED BY <1>1, <2>1, <2>2, <3>1, <3>2, <3>3, OneMore
    <2>3. CASE t # st
      <3>1. Committed(t)' = Committed(t) BY <1>1, <2>3 DEF Committed, HTTPStatuses
      <3> QED BY <1>1, <2>1, <2>3, <3>1
    <2> QED BY <2>2, <2>3
  <1>3. HTTPRequestsTotal'[200] = IF st = 200 THEN HTTPRequestsTotal[200] + 1 ELSE HTTPRequestsTotal[200]
    BY <1>1 DEF HTTPStatuses
  <1>4. CASE st \in {500, 503, 504}
    <2>1. CreationFailed' = CreationFailed \cup {s} BY <1>1, <1>4 DEF CreationFailed
    <2>2. s \notin CreationFailed /\ IsFiniteSet(CreationFailed) BY StreamsFinite DEF CreationFailed
    <2> QED BY <1>2, <1>3, <1>4, <2>1, <2>2, OneMore
  <1>5. CASE st \notin {500, 503, 504}
    <2>1. CreationFailed' = CreationFailed BY <1>1, <1>5 DEF CreationFailed
    <2> QED BY <1>2, <1>3, <1>5, <2>1
  <1> QED BY <1>4, <1>5

\* The handler's deferred observation: every handler that returns makes one.
LEMMA FinishCounts ==
    ASSUME TypeOK, AnswerCounts, NEW s \in Streams, handler[s] # "finished", Finish(s)
    PROVE  HTTPDuration' = Cardinality(Finished')
  <1>1. Finished' = Finished \cup {s} BY DEF Finish, Finished, TypeOK, HandlersTyped
  <1>2. s \notin Finished /\ IsFiniteSet(Finished) BY StreamsFinite DEF Finished
  <1> QED BY <1>1, <1>2, OneMore DEF Finish, AnswerCounts

LEMMA AnswerCountsStep == ASSUME IInv, AnswerCounts, [Next]_vars PROVE AnswerCounts'
  <1>1. TypeOK /\ CallInv BY DEF IInv
  <1>2. HTTPDuration = Cardinality(Finished) BY DEF AnswerCounts
  <1> DEFINE Durations == HTTPDuration = Cardinality(Finished)
             Statuses == /\ \A st \in HTTPStatuses : HTTPRequestsTotal[st] = Cardinality(Committed(st))
                         /\ GRPCRequestDuration["ok"] = HTTPRequestsTotal[200]
                         /\ GRPCRequestDuration["error"] = Cardinality(CreationFailed)
  <1>3. ASSUME UNCHANGED <<status, HTTPRequestsTotal, GRPCRequestDuration>> PROVE Statuses'
    BY <1>3 DEF AnswerCounts, Committed, CreationFailed
  <1>4. ASSUME NEW s \in Streams, NEW h \in {"opening", "loop", "recv"}, handler[s] # "finished",
               handler' = [handler EXCEPT ![s] = h], UNCHANGED HTTPDuration
        PROVE  Durations'
    <2>1. Finished' = Finished BY <1>1, <1>4 DEF Finished, TypeOK, HandlersTyped
    <2> QED BY <1>2, <1>4, <2>1
  <1>5. ASSUME UNCHANGED <<handler, HTTPDuration>> PROVE Durations' BY <1>2, <1>5 DEF Finished
  <1>6. \A s \in Streams : handler[s] \in {"new", "opening"} => status[s] = 0 BY <1>1 DEF CallInv
  <1>7. ASSUME NEW s \in Streams,
               Reject(s) \/ StartStream(s) \/ CreationStep(s) \/ ClientLeaves(s) \/ LoopTop(s) \/ RecvStep(s)
        PROVE  Statuses' /\ Durations'
    <2>1. CASE Reject(s)
      <3>1. Commit(s, 400) /\ Finish(s) /\ handler[s] = "new" /\ UNCHANGED GRPCRequestDuration
        BY <2>1 DEF Reject, ValidationError
      <3>2. Durations' BY <1>1, <3>1, FinishCounts
      <3>3. 400 \in HTTPStatuses BY DEF HTTPStatuses
      <3>4. Statuses' BY <1>1, <1>6, <3>1, <3>3, CommitCounts DEF AnswerCounts
      <3> QED BY <3>2, <3>4
    <2>2. CASE StartStream(s)
      <3>1. /\ handler[s] = "new" /\ handler' = [handler EXCEPT ![s] = "opening"]
            /\ UNCHANGED <<status, HTTPRequestsTotal, GRPCRequestDuration, HTTPDuration>>
        BY <2>2 DEF StartStream, CallStream, client, metrics
      <3> QED BY <1>3, <1>4, <3>1
    <2>3. CASE StreamOpens(s)
      <3>1. /\ Commit(s, 200) /\ handler[s] = "opening" /\ handler' = [handler EXCEPT ![s] = "loop"]
            /\ GRPCRequestDuration' = [GRPCRequestDuration EXCEPT !["ok"] = @ + 1] /\ UNCHANGED HTTPDuration
        BY <2>3 DEF StreamOpens, Success
      <3>2. Durations' BY <1>4, <3>1
      <3>3. /\ GRPCRequestDuration'["ok"] = GRPCRequestDuration["ok"] + 1
            /\ GRPCRequestDuration'["error"] = GRPCRequestDuration["error"]
        BY <1>1, <3>1 DEF TypeOK, MetricsTyped
      <3>4. 200 \in HTTPStatuses BY DEF HTTPStatuses
      <3>5. Statuses' BY <1>1, <1>6, <3>1, <3>3, <3>4, CommitCounts DEF AnswerCounts
      <3> QED BY <3>2, <3>5
    <2>4. CASE StreamFails(s)
      <3>1. PICK code \in CreationErrors(s) : Commit(s, APIErrorFromGRPC(code).status)
        BY <2>4 DEF StreamFails
      <3> DEFINE written == APIErrorFromGRPC(code).status
      <3>2. written \in {500, 503, 504} BY CreationStatuses
      <3>3. Commit(s, written) BY <3>1
      <3> HIDE DEF written
      <3>4. /\ Finish(s) /\ handler[s] = "opening"
            /\ GRPCRequestDuration' = [GRPCRequestDuration EXCEPT !["error"] = @ + 1]
        BY <2>4 DEF StreamFails
      <3>5. Durations' BY <1>1, <3>4, FinishCounts
      <3>6. /\ GRPCRequestDuration'["ok"] = GRPCRequestDuration["ok"]
            /\ GRPCRequestDuration'["error"] = GRPCRequestDuration["error"] + 1
        BY <1>1, <3>4 DEF TypeOK, MetricsTyped
      <3>7. written \in HTTPStatuses /\ written # 200 BY <3>2 DEF HTTPStatuses
      <3>8. Statuses' BY <1>1, <1>6, <3>2, <3>3, <3>4, <3>6, <3>7, CommitCounts DEF AnswerCounts
      <3> QED BY <3>5, <3>8
    <2>5. CASE ClientLeaves(s) BY <1>3, <1>5, <2>5 DEF ClientLeaves, metrics
    <2>6. CASE LoopTop(s) \/ RecvStep(s)
      <3>1. UNCHANGED <<status, HTTPRequestsTotal, GRPCRequestDuration>> /\ handler[s] \in {"loop", "recv"}
        BY <2>6 DEF LoopTop, RecvStep, RecvChunk, RecvEOF, RecvError, LastEvent, client
      <3>2. \/ Finish(s)
            \/ UNCHANGED HTTPDuration /\ \E h \in {"loop", "recv"} : handler' = [handler EXCEPT ![s] = h]
        BY <2>6 DEF LoopTop, RecvStep, RecvChunk, RecvEOF, RecvError, LastEvent
      <3>3. Durations' BY <1>1, <1>4, <3>1, <3>2, FinishCounts
      <3> QED BY <1>3, <3>1, <3>3
    <2> QED BY <1>7, <2>1, <2>2, <2>3, <2>4, <2>5, <2>6 DEF CreationStep
  <1>8. ASSUME NEW s \in Streams, ServerStep(s) \/ OllamaStep(s)
        PROVE  UNCHANGED <<handler, status, HTTPRequestsTotal, HTTPDuration, GRPCRequestDuration>>
    BY <1>8 DEF ServerStep, Refuse, CancelArrives, DropCancelled, TakeCall, Generate, OllamaStep, OllamaNextAddress,
       OllamaConnected, OllamaSendsPart, OllamaSendsChunk, OllamaSendsFinalChunk, OllamaEnds, OllamaFails,
       OllamaTimesOut, Returns, Leave, Yield, NextOperation, gateway, client, metrics
  <1>9. CASE Tick \/ ConnectionBreaks \/ Crash \/ Restart \/ Reconnect \/ UNCHANGED vars
    BY <1>3, <1>5, <1>9 DEF Tick, ConnectionBreaks, Crash, Restart, Reconnect, vars, gateway, client, metrics, AnswerCounts
  <1> QED BY <1>3, <1>5, <1>7, <1>8, <1>9 DEF Next, Terminated, AnswerCounts

LEMMA WireStep == ASSUME IInv, WireInv, [Next]_vars PROVE WireInv'
  <1>1. TypeOK /\ ChunkInv BY DEF IInv
  <1>2. \A s \in Streams : /\ events[s] \in Nat /\ made[s] \in Nat /\ wire[s] \in Seq(EvalCounts)
                           /\ Len(wire[s]) \in Nat
    BY <1>1 DEF TypeOK, HandlersTyped, CallsTyped, BackendTyped, EvalCounts
  <1>3. ASSUME UNCHANGED <<events, wire, made, final>> PROVE WireInv'
    BY <1>3 DEF WireInv
  <1>4. ASSUME NEW s \in Streams, RecvChunk(s) PROVE WireInv'
    <2>1. wire[s] # <<>> /\ events' = [events EXCEPT ![s] = @ + 1] /\ wire' = [wire EXCEPT ![s] = Tail(@)]
          /\ UNCHANGED <<made, final>>
      BY <1>4 DEF RecvChunk, backend, generation
    <2>2. /\ Len(Tail(wire[s])) = Len(wire[s]) - 1
          /\ \A i \in 1 .. Len(Tail(wire[s])) : Tail(wire[s])[i] = wire[s][i + 1]
      BY <1>2, <2>1, HeadTailProperties
    <2>3. ASSUME NEW r \in Streams, NEW i \in 1 .. Len(wire'[r])
          PROVE  wire'[r][i] = IF final'[r] # NoFinal /\ events'[r] + i = made'[r] THEN final'[r] ELSE 0
      <3>1. CASE r = s
        <4>1. wire'[r] = Tail(wire[r]) /\ events'[r] = events[r] + 1
          BY <1>1, <2>1, <3>1 DEF TypeOK, HandlersTyped, CallsTyped
        <4>2. i + 1 \in 1 .. Len(wire[r]) /\ wire'[r][i] = wire[r][i + 1] BY <1>2, <2>2, <3>1, <4>1
        <4>3. wire[r][i + 1] = IF final[r] # NoFinal /\ events[r] + (i + 1) = made[r] THEN final[r] ELSE 0
          BY <4>2 DEF WireInv
        <4>4. events'[r] + i = events[r] + (i + 1) BY <1>2, <4>1
        <4> QED BY <2>1, <4>2, <4>3, <4>4
      <3>2. CASE r # s
        <4>1. wire'[r] = wire[r] /\ events'[r] = events[r]
          BY <1>1, <2>1, <3>2 DEF TypeOK, HandlersTyped, CallsTyped
        <4> QED BY <2>1, <4>1 DEF WireInv
      <3> QED BY <3>1, <3>2
    <2> QED BY <2>3 DEF WireInv
  <1>5. ASSUME NEW s \in Streams, NEW n \in EvalCounts, Yield(s, n), final[s] = NoFinal,
               \/ n = 0 /\ UNCHANGED final
               \/ (n # NoFinal) /\ final' = [final EXCEPT ![s] = n]
        PROVE  WireInv'
    <2>1. /\ wire' = IF trailer[s] = "failed" THEN wire ELSE [wire EXCEPT ![s] = Append(@, n)]
          /\ made' = [made EXCEPT ![s] = @ + 1] /\ UNCHANGED events
      BY <1>5 DEF Yield, NextOperation, gateway, client
    <2>2. \A r \in Streams \ {s} : wire'[r] = wire[r] /\ made'[r] = made[r] /\ final'[r] = final[r]
      BY <1>1, <1>5, <2>1 DEF TypeOK, CallsTyped, BackendTyped
    <2>3. /\ wire'[s] = IF trailer[s] = "failed" THEN wire[s] ELSE Append(wire[s], n)
          /\ made'[s] = made[s] + 1
          /\ (final'[s] = NoFinal /\ n = 0) \/ (final'[s] = n /\ n # NoFinal)
      BY <1>1, <1>5, <2>1 DEF TypeOK, CallsTyped, BackendTyped
    <2>4. \A i \in 1 .. Len(wire[s]) : wire[s][i] = 0 BY <1>5 DEF WireInv
    <2>5. /\ events[s] + Len(wire[s]) <= made[s]
          /\ trailer[s] # "failed" => events[s] + Len(wire[s]) = made[s]
      BY <1>1 DEF ChunkInv
    <2>6. ASSUME NEW i \in 1 .. Len(wire'[s])
          PROVE  wire'[s][i] = IF final'[s] # NoFinal /\ events'[s] + i = made'[s] THEN final'[s] ELSE 0
      <3>1. events[s] \in Nat /\ made[s] \in Nat /\ Len(wire[s]) \in Nat /\ wire[s] \in Seq(EvalCounts)
        BY <1>2
      <3>2. CASE i \in 1 .. Len(wire[s])
        <4>1. wire'[s][i] = 0 BY <2>3, <2>4, <3>1, <3>2
        <4>2. events'[s] + i # made'[s] BY <2>1, <2>3, <2>5, <3>1, <3>2
        <4> QED BY <4>1, <4>2
      <3>3. CASE i \notin 1 .. Len(wire[s])
        <4>1. trailer[s] # "failed" BY <2>3, <3>3
        <4>2. i = Len(wire[s]) + 1 /\ wire'[s][i] = n BY <2>3, <3>1, <3>3, <4>1
        <4>3. events'[s] + i = made'[s] BY <2>1, <2>3, <2>5, <3>1, <4>1, <4>2
        <4> QED BY <2>3, <4>2, <4>3
      <3> QED BY <3>2, <3>3
    <2> QED BY <2>1, <2>2, <2>6 DEF WireInv
  <1>6. ASSUME LoseConnection, UNCHANGED <<events, made, final>> PROVE WireInv'
    <2>1. PICK keep \in [Streams -> 0 .. NumPredict + 1] :
            /\ \A s \in Streams : keep[s] <= Len(wire[s])
            /\ wire' = [s \in Streams |-> SubSeq(wire[s], 1, keep[s])]
      BY <1>6 DEF LoseConnection
    <2>2. ASSUME NEW s \in Streams, NEW i \in 1 .. Len(wire'[s])
          PROVE  wire'[s][i] = IF final'[s] # NoFinal /\ events'[s] + i = made'[s] THEN final'[s] ELSE 0
      <3>1. keep[s] \in Nat /\ keep[s] <= Len(wire[s]) /\ Len(wire[s]) \in Nat /\ wire[s] \in Seq(EvalCounts)
        BY <1>2, <2>1, ParametersAreNat
      <3>2. wire'[s] = SubSeq(wire[s], 1, keep[s]) BY <2>1
      <3>3. i \in 1 .. Len(wire[s]) /\ wire'[s][i] = wire[s][i] BY <3>1, <3>2
      <3> QED BY <1>6, <3>3 DEF WireInv
    <2> QED BY <2>2 DEF WireInv
  <1>7. ASSUME NEW s \in Streams,
               \/ Reject(s) \/ StartStream(s) \/ CreationStep(s) \/ ClientLeaves(s) \/ LoopTop(s)
               \/ RecvEOF(s) \/ RecvError(s) \/ ServerStep(s)
        PROVE  WireInv'
    <2>1. UNCHANGED <<events, wire, made, final>>
      BY <1>7 DEF Reject, StartStream, CallStream, CreationStep, StreamOpens, StreamFails, ClientLeaves, LoopTop,
         RecvEOF, RecvError, LastEvent, ServerStep, Refuse, CancelArrives, DropCancelled, TakeCall, Generate,
         gateway, client, rpc, backend, generation
    <2> QED BY <1>3, <2>1
  <1>8. ASSUME NEW s \in Streams, OllamaStep(s) PROVE WireInv'
    <2>1. ASSUME NEW t, Leave(s, t) PROVE WireInv' BY <1>3, <2>1 DEF Leave, gateway, client
    <2>2. CASE Proceeds(s) BY <1>1, <1>3, <2>2, ProceedEffect DEF NextOperation, gateway, client
    <2>3. CASE OllamaSendsChunk(s)
      <3>1. 0 \in EvalCounts BY DEF EvalCounts
      <3> QED BY <1>5, <2>1, <2>3, <3>1 DEF OllamaSendsChunk, Returns
    <2>4. CASE OllamaSendsFinalChunk(s)
      <3>1. \A n \in TokenCounts : n \in EvalCounts /\ n # NoFinal BY DataAssumption DEF NoFinal, EvalCounts
      <3> QED BY <1>5, <2>1, <2>4, <3>1 DEF OllamaSendsFinalChunk, Returns
    <2>5. CASE OllamaEnds(s) \/ OllamaFails(s) \/ OllamaTimesOut(s)
      BY <2>1, <2>5 DEF OllamaEnds, OllamaFails, OllamaTimesOut, Returns
    <2> QED BY <1>8, <2>2, <2>3, <2>4, <2>5 DEF OllamaStep, Proceeds
  <1>9. CASE Tick \/ ConnectionBreaks \/ Crash \/ Restart \/ Reconnect \/ UNCHANGED vars
    BY <1>3, <1>6, <1>9 DEF Tick, ConnectionBreaks, Crash, Restart, Reconnect, vars, gateway, client, rpc, backend, generation
  <1> QED BY <1>4, <1>7, <1>8, <1>9 DEF Next, Terminated, RecvStep

\* A chunk completes its stream's generation or carries no tokens.
LEMMA ChunkTokens ==
    ASSUME IInv, WireInv, TokenTotals, NEW s \in Streams, RecvChunk(s)
    PROVE  TokenTotals'
  <1>1. TypeOK /\ ChunkInv BY DEF IInv
  <1>2. /\ events[s] \in Nat /\ made[s] \in Nat /\ wire[s] \in Seq(EvalCounts) /\ Len(wire[s]) \in Nat
        /\ final[s] \in {NoFinal} \cup TokenCounts
    BY <1>1 DEF TypeOK, HandlersTyped, CallsTyped, BackendTyped, EvalCounts
  <1>3. /\ wire[s] # <<>> /\ events' = [events EXCEPT ![s] = @ + 1] /\ UNCHANGED <<made, final, ended, terminal>>
        /\ AITokensTotal' = AITokensTotal + Head(wire[s])
        /\ AIGenerationDuration' = AIGenerationDuration + (IF Head(wire[s]) > 0 THEN 1 ELSE 0)
    BY DEF RecvChunk, backend, generation
  <1>4. Len(wire[s]) >= 1 /\ Head(wire[s]) = wire[s][1] BY <1>2, <1>3
  <1>5. Head(wire[s]) = IF final[s] # NoFinal /\ events[s] + 1 = made[s] THEN final[s] ELSE 0
    BY <1>2, <1>4 DEF WireInv
  <1>6. \A r \in Streams : events'[r] = IF r = s THEN events[r] + 1 ELSE events[r]
    BY <1>1, <1>3 DEF TypeOK, HandlersTyped
  <1>7. s \notin Received
    <2>1. events[s] + Len(wire[s]) <= made[s] BY <1>1 DEF ChunkInv
    <2> QED BY <1>2, <1>4, <2>1 DEF Received
  <1>8. \A r \in Done' : ended'[r] /\ events'[r] = made'[r]
    <2>1. events[s] # made[s]
      <3>1. events[s] + Len(wire[s]) <= made[s] BY <1>1 DEF ChunkInv
      <3> QED BY <1>2, <1>4, <3>1
    <2>2. s \notin Done /\ Done' = Done /\ \A r \in Done : ended[r] /\ events[r] = made[r]
      BY <1>3, <2>1 DEF TokenTotals, Done
    <2> QED BY <1>3, <1>6, <2>2 DEF Done
  <1>9. CASE final[s] # NoFinal /\ events[s] + 1 = made[s]
    <2>1. Received' = Received \cup {s} BY <1>3, <1>6, <1>9 DEF Received
    <2>2. final[s] \in Nat /\ \A r \in Received : final[r] \in Nat
      BY <1>1, <1>2, <1>9, DataAssumption DEF Received, TypeOK, BackendTyped
    <2>3. IsFiniteSet(Received) BY StreamsFinite DEF Received
    <2>4. Total(Received', final) = Total(Received, final) + final[s]
      BY <1>7, <2>1, <2>2, <2>3, TotalOneMore
    <2> DEFINE Some == {r \in Received : final[r] > 0}
    <2>5. s \notin Some /\ IsFiniteSet(Some) /\ AIGenerationDuration = Cardinality(Some)
      BY <1>7, StreamsFinite DEF Received, TokenTotals
    <2>6. Some' = IF final[s] > 0 THEN Some \cup {s} ELSE Some BY <1>3, <2>1
    <2>7. AIGenerationDuration' = AIGenerationDuration + (IF final[s] > 0 THEN 1 ELSE 0) BY <1>3, <1>5, <1>9
    <2>8. AIGenerationDuration' = Cardinality(Some')
      <3> HIDE DEF Some
      <3>1. CASE final[s] > 0 BY <2>5, <2>6, <2>7, <3>1, OneMore
      <3>2. CASE ~(final[s] > 0)
        <4>1. Cardinality(Some) \in Nat BY <2>5, FS_CardinalityType
        <4> QED BY <2>5, <2>6, <2>7, <3>2, <4>1
      <3> QED BY <3>1, <3>2
    <2>9. AITokensTotal' = Total(Received', final') BY <1>3, <1>5, <1>9, <2>4 DEF TokenTotals
    <2> QED BY <1>8, <2>8, <2>9 DEF TokenTotals
  <1>10. CASE ~(final[s] # NoFinal /\ events[s] + 1 = made[s])
    <2>1. Received' = Received BY <1>3, <1>6, <1>7, <1>10 DEF Received
    <2>2. AITokensTotal' = AITokensTotal /\ AIGenerationDuration' = AIGenerationDuration
      BY <1>1, <1>3, <1>5, <1>10 DEF TypeOK, MetricsTyped
    <2> QED BY <1>3, <1>8, <2>1, <2>2 DEF TokenTotals
  <1> QED BY <1>9, <1>10

LEMMA TokenTotalsStep == ASSUME IInv, WireInv, TokenTotals, [Next]_vars PROVE TokenTotals'
  <1>1. TypeOK /\ CallInv /\ ChunkInv BY DEF IInv
  <1>2. ASSUME UNCHANGED <<events, made, final, AITokensTotal, AIGenerationDuration>>,
               \A s \in Done' : ended'[s] /\ events[s] = made[s]
        PROVE  TokenTotals'
    BY <1>2 DEF TokenTotals, Received
  <1>3. ASSUME UNCHANGED <<client, AITokensTotal, AIGenerationDuration, made, final>>,
               \A s \in Streams : ended[s] => ended'[s]
        PROVE  TokenTotals'
    BY <1>2, <1>3 DEF client, Done, TokenTotals
  <1>4. ASSUME NEW s \in Streams,
               Reject(s) \/ StartStream(s) \/ CreationStep(s) \/ ClientLeaves(s) \/ LoopTop(s) \/ ServerStep(s)
        PROVE  TokenTotals'
    <2>1. /\ UNCHANGED <<events, terminal, made, final, ended, AITokensTotal, AIGenerationDuration>>
      BY <1>4 DEF Reject, StartStream, CallStream, CreationStep, StreamOpens, StreamFails, ClientLeaves, LoopTop,
         ServerStep, Refuse, CancelArrives, DropCancelled, TakeCall, Generate, gateway, client, metrics, backend, generation
    <2> QED BY <1>2, <2>1 DEF Done, TokenTotals
  <1>5. ASSUME NEW s \in Streams, RecvEOF(s) PROVE TokenTotals'
    <2>1. /\ wire[s] = <<>> /\ trailer[s] = "OK" /\ terminal' = [terminal EXCEPT ![s] = "done"]
          /\ UNCHANGED <<events, made, final, ended, AITokensTotal, AIGenerationDuration>>
      BY <1>5 DEF RecvEOF, LastEvent, backend, generation
    <2>2. ended[s] /\ events[s] = made[s]
      <3>1. Len(wire[s]) = 0 /\ events[s] \in Nat BY <1>1, <2>1 DEF TypeOK, HandlersTyped
      <3> QED BY <1>1, <2>1, <3>1 DEF ChunkInv
    <2>3. Done' \subseteq Done \cup {s} BY <1>1, <2>1 DEF Done, TypeOK, HandlersTyped
    <2> QED BY <1>2, <2>1, <2>2, <2>3 DEF TokenTotals
  <1>6. ASSUME NEW s \in Streams, RecvError(s) PROVE TokenTotals'
    <2>1. /\ terminal' = [terminal EXCEPT ![s] = "error"]
          /\ UNCHANGED <<events, made, final, ended, AITokensTotal, AIGenerationDuration>>
      BY <1>6 DEF RecvError, LastEvent, backend, generation
    <2>2. Done' \subseteq Done BY <1>1, <2>1 DEF Done, TypeOK, HandlersTyped
    <2> QED BY <1>2, <2>1, <2>2 DEF TokenTotals
  <1>7. ASSUME NEW s \in Streams, NEW n, Yield(s, n), ollama[s] = "read", final[s] = NoFinal,
               \/ UNCHANGED final
               \/ final' = [final EXCEPT ![s] = n]
        PROVE  TokenTotals'
    <2>1. /\ made' = [made EXCEPT ![s] = @ + 1]
          /\ UNCHANGED <<events, terminal, ended, AITokensTotal, AIGenerationDuration>>
      BY <1>7 DEF Yield, NextOperation, gateway, client, metrics
    <2>2. \A r \in Streams \ {s} : made'[r] = made[r] /\ final'[r] = final[r]
      BY <1>1, <1>7, <2>1 DEF TypeOK, BackendTyped
    <2>3. made'[s] # events[s]
      <3>1. /\ made[s] \in Nat /\ events[s] \in Nat /\ Len(wire[s]) \in Nat
            /\ made'[s] = made[s] + 1
        BY <1>1, <2>1 DEF TypeOK, HandlersTyped, BackendTyped, CallsTyped
      <3>2. events[s] + Len(wire[s]) <= made[s] BY <1>1 DEF ChunkInv
      <3> QED BY <3>1, <3>2
    <2>4. s \notin Received /\ s \notin Received' BY <1>7, <2>1, <2>3 DEF Received
    <2>5. Received' = Received BY <2>1, <2>2, <2>4 DEF Received
    <2>6. \A r \in Received : final'[r] = final[r] BY <2>2, <2>4 DEF Received
    <2>7. Total(Received, final') = Total(Received, final) BY <2>6, ItemsSame DEF Total
    <2>8. {r \in Received' : final'[r] > 0} = {r \in Received : final[r] > 0} BY <2>5, <2>6
    <2>9. ~ended[s] BY <1>1, <1>7 DEF CallInv
    <2>10. \A r \in Done' : ended'[r] /\ events'[r] = made'[r]
      BY <2>1, <2>2, <2>9 DEF TokenTotals, Done
    <2> QED BY <2>1, <2>5, <2>7, <2>8, <2>10 DEF TokenTotals
  <1>8. ASSUME NEW s \in Streams, OllamaStep(s) PROVE TokenTotals'
    <2>1. ASSUME NEW t, Leave(s, t), UNCHANGED ended \/ ended' = [ended EXCEPT ![s] = TRUE] PROVE TokenTotals'
      <3>1. \A r \in Streams : ended[r] => ended'[r] BY <1>1, <2>1 DEF TypeOK, BackendTyped
      <3> QED BY <1>3, <2>1, <3>1 DEF Leave, gateway, metrics
    <2>2. CASE Proceeds(s) BY <1>1, <1>3, <2>2, ProceedEffect DEF NextOperation, gateway, metrics
    <2>3. CASE OllamaSendsChunk(s) BY <1>7, <2>1, <2>3 DEF OllamaSendsChunk, Returns
    <2>4. CASE OllamaSendsFinalChunk(s) BY <1>7, <2>1, <2>4 DEF OllamaSendsFinalChunk, Returns
    <2>5. CASE OllamaEnds(s) \/ OllamaFails(s) \/ OllamaTimesOut(s)
      BY <2>1, <2>5 DEF OllamaEnds, OllamaFails, OllamaTimesOut, Returns
    <2> QED BY <1>8, <2>2, <2>3, <2>4, <2>5 DEF OllamaStep, Proceeds
  <1>9. CASE Tick \/ ConnectionBreaks \/ Crash \/ Restart \/ Reconnect \/ UNCHANGED vars
    BY <1>3, <1>9 DEF Tick, ConnectionBreaks, Crash, Restart, Reconnect, vars, gateway, metrics, backend, generation
  <1> QED BY <1>4, <1>5, <1>6, <1>8, <1>9, ChunkTokens DEF Next, Terminated, RecvStep

\* Metrics and streams agree at every moment, for any number of streams: a status is counted when
\* it is committed, a duration when the handler returns, and the tokens are those of the generations
\* received to their final chunk; a stream that ended in "done" has received every chunk. The chunks
\* on the wire carry the invariant: only the last one of a generation with a final chunk has tokens.
THEOREM MetricsAgree == Spec => []StreamMetrics
  <1> DEFINE Inv == AnswerCounts /\ TokenTotals /\ WireInv
  <1>1. Inv /\ IInv /\ [Next]_vars => Inv' BY AnswerCountsStep, TokenTotalsStep, WireStep
  <1>2. Inv => StreamMetrics BY DEF AnswerCounts, TokenTotals, StreamMetrics
  <1>3. Init => Inv BY InitMetrics
  <1> QED BY <1>1, <1>2, <1>3, StreamInvariant, PTL DEF Spec

-----------------------------------------------------------------------------
(* What a client reads is true of its request.                                 *)

\* What the gateway knows of a request, and what python-ai does.
GatewayHonest == \A s \in Streams :
    /\ status[s] = 400 => ~ModelGatewayAccepts(body[s])
    /\ handler[s] = "opening" \/ status[s] \in {200, 500, 503, 504} => ModelGatewayAccepts(body[s])
    /\ status[s] = 504 => ttl[s] = 0

BackendHonest == \A s \in Streams :
    /\ call[s] = "running" \/ made[s] > 0 \/ ended[s] => ModelBackendAccepts(body[s])
    /\ events[s] > 0 \/ terminal[s] = "done" => ModelBackendAccepts(body[s])

LEMMA InitHonest == Init => GatewayHonest /\ BackendHonest
  BY DEF Init, GatewayHonest, BackendHonest

LEMMA GatewayHonestStep == ASSUME IInv, GatewayHonest, [Next]_vars PROVE GatewayHonest'
  <1>1. TypeOK /\ CallInv BY DEF IInv
  <1>2. body' = body
    BY DEF Next, vars, Reject, StartStream, CallStream, CreationStep, StreamOpens, StreamFails, ClientLeaves, LoopTop,
       RecvStep, RecvChunk, RecvEOF, RecvError, LastEvent, ServerStep, Refuse, CancelArrives, DropCancelled, TakeCall,
       Generate, OllamaStep, OllamaNextAddress, OllamaConnected, OllamaSendsPart, OllamaSendsChunk,
       OllamaSendsFinalChunk, OllamaEnds, OllamaFails, OllamaTimesOut, Returns, Leave, Yield, NextOperation, Tick,
       ConnectionBreaks, Crash, Restart, Reconnect, Terminated
  <1>3. ASSUME UNCHANGED <<handler, status, ttl>> PROVE GatewayHonest'
    BY <1>2, <1>3 DEF GatewayHonest
  <1>4. ASSUME NEW s \in Streams, ttl' = ttl, handler'[s] # "opening",
               \A q \in Streams \ {s} : status'[q] = status[q] /\ handler'[q] = handler[q],
               status'[s] = 400 => ~ModelGatewayAccepts(body[s]),
               status'[s] \in {200, 500, 503, 504} => ModelGatewayAccepts(body[s]),
               status'[s] = 504 => ttl[s] = 0
        PROVE  GatewayHonest'
    BY <1>2, <1>4 DEF GatewayHonest
  <1>5. ASSUME NEW s \in Streams, Reject(s) PROVE GatewayHonest'
    <2>1. /\ status' = [status EXCEPT ![s] = 400] /\ handler' = [handler EXCEPT ![s] = "finished"]
          /\ UNCHANGED ttl /\ ~ModelGatewayAccepts(body[s])
      BY <1>5 DEF Reject, Commit, Finish, ValidationError
    <2>2. /\ status'[s] = 400 /\ handler'[s] # "opening"
          /\ \A q \in Streams \ {s} : status'[q] = status[q] /\ handler'[q] = handler[q]
      BY <1>1, <2>1 DEF TypeOK, HandlersTyped
    <2> QED BY <1>4, <2>1, <2>2
  <1>6. ASSUME NEW s \in Streams, StartStream(s) PROVE GatewayHonest'
    <2>1. /\ handler[s] = "new" /\ ModelGatewayAccepts(body[s]) /\ UNCHANGED status
          /\ handler' = [handler EXCEPT ![s] = "opening"] /\ ttl' = [ttl EXCEPT ![s] = ModelTimeout]
      BY <1>6 DEF StartStream, CallStream, client
    <2>2. status[s] = 0 BY <1>1, <2>1 DEF CallInv
    <2>3. \A q \in Streams : /\ handler'[q] = IF q = s THEN "opening" ELSE handler[q]
                             /\ q # s => ttl'[q] = ttl[q]
      BY <1>1, <2>1 DEF TypeOK, HandlersTyped
    <2> QED BY <1>2, <2>1, <2>2, <2>3 DEF GatewayHonest
  <1>7. ASSUME NEW s \in Streams, StreamOpens(s) PROVE GatewayHonest'
    <2>1. /\ status' = [status EXCEPT ![s] = 200] /\ handler' = [handler EXCEPT ![s] = "loop"]
          /\ UNCHANGED ttl /\ handler[s] = "opening"
      BY <1>7 DEF StreamOpens, Commit, Success
    <2>2. ModelGatewayAccepts(body[s]) BY <2>1 DEF GatewayHonest
    <2>3. /\ status'[s] = 200 /\ handler'[s] # "opening"
          /\ \A q \in Streams \ {s} : status'[q] = status[q] /\ handler'[q] = handler[q]
      BY <1>1, <2>1 DEF TypeOK, HandlersTyped
    <2> QED BY <1>4, <2>1, <2>2, <2>3
  <1>8. ASSUME NEW s \in Streams, StreamFails(s) PROVE GatewayHonest'
    <2>1. PICK code \in CreationErrors(s) : Commit(s, APIErrorFromGRPC(code).status)
      BY <1>8 DEF StreamFails
    <2> DEFINE st == APIErrorFromGRPC(code).status
    <2>2. st \in {500, 503, 504} /\ (st = 504 => ttl[s] = 0)
      <3>1. /\ code \in {"UNAVAILABLE", "DEADLINE_EXCEEDED", "CANCELLED"}
            /\ code = "DEADLINE_EXCEEDED" => ttl[s] = 0
        BY DEF CreationErrors
      <3> QED BY <3>1 DEF APIErrorFromGRPC
    <2>3. status' = [status EXCEPT ![s] = st] BY <2>1 DEF Commit
    <2> HIDE DEF st
    <2>4. handler[s] = "opening" /\ handler' = [handler EXCEPT ![s] = "finished"] /\ UNCHANGED ttl
      BY <1>8 DEF StreamFails, Finish
    <2>5. ModelGatewayAccepts(body[s]) BY <2>4 DEF GatewayHonest
    <2>6. /\ status'[s] = st /\ handler'[s] # "opening"
          /\ \A q \in Streams \ {s} : status'[q] = status[q] /\ handler'[q] = handler[q]
      BY <1>1, <2>3, <2>4 DEF TypeOK, HandlersTyped
    <2> QED BY <1>4, <2>2, <2>4, <2>5, <2>6
  <1>9. ASSUME NEW s \in Streams, LoopTop(s) \/ RecvStep(s) PROVE GatewayHonest'
    <2>1. PICK h \in {"loop", "recv", "finished"} :
            handler' = [handler EXCEPT ![s] = h] /\ UNCHANGED <<status, ttl>>
      BY <1>9 DEF LoopTop, RecvStep, RecvChunk, RecvEOF, RecvError, LastEvent, Finish, client
    <2>2. \A q \in Streams : handler'[q] = "opening" => handler[q] = "opening"
      BY <1>1, <2>1 DEF TypeOK, HandlersTyped
    <2> QED BY <1>2, <2>1, <2>2 DEF GatewayHonest
  <1>10. CASE Tick
    <2>1. UNCHANGED <<handler, status>> /\ ttl' = CountDown(ttl, Calling) BY <1>10 DEF Tick, client
    <2>2. \A q \in Streams : ttl[q] = 0 => ttl'[q] = 0 BY <2>1 DEF CountDown
    <2> QED BY <1>2, <2>1, <2>2 DEF GatewayHonest
  <1>11. ASSUME NEW s \in Streams, ClientLeaves(s) \/ ServerStep(s) \/ OllamaStep(s) PROVE GatewayHonest'
    <2>1. UNCHANGED <<handler, status, ttl>>
      BY <1>11 DEF ClientLeaves, ServerStep, Refuse, CancelArrives, DropCancelled, TakeCall, Generate, OllamaStep,
         OllamaNextAddress, OllamaConnected, OllamaSendsPart, OllamaSendsChunk, OllamaSendsFinalChunk, OllamaEnds,
         OllamaFails, OllamaTimesOut, Returns, Leave, Yield, NextOperation, gateway, client
    <2> QED BY <1>3, <2>1
  <1>12. CASE ConnectionBreaks \/ Crash \/ Restart \/ Reconnect \/ UNCHANGED vars
    BY <1>3, <1>12 DEF ConnectionBreaks, Crash, Restart, Reconnect, vars, gateway, client
  <1> QED BY <1>5, <1>6, <1>7, <1>8, <1>9, <1>10, <1>11, <1>12 DEF Next, CreationStep, Terminated

LEMMA BackendHonestStep == ASSUME IInv, BackendHonest, [Next]_vars PROVE BackendHonest'
  <1>1. TypeOK /\ CallInv /\ ChunkInv BY DEF IInv
  <1>2. body' = body
    BY DEF Next, vars, Reject, StartStream, CallStream, CreationStep, StreamOpens, StreamFails, ClientLeaves, LoopTop,
       RecvStep, RecvChunk, RecvEOF, RecvError, LastEvent, ServerStep, Refuse, CancelArrives, DropCancelled, TakeCall,
       Generate, OllamaStep, OllamaNextAddress, OllamaConnected, OllamaSendsPart, OllamaSendsChunk,
       OllamaSendsFinalChunk, OllamaEnds, OllamaFails, OllamaTimesOut, Returns, Leave, Yield, NextOperation, Tick,
       ConnectionBreaks, Crash, Restart, Reconnect, Terminated
  \* No call starts to run, nothing is generated or received.
  <1>3. ASSUME UNCHANGED <<made, ended, events>>,
               \A q \in Streams : /\ call'[q] = "running" => call[q] = "running"
                                  /\ terminal'[q] = "done" => terminal[q] = "done"
        PROVE  BackendHonest'
    BY <1>2, <1>3 DEF BackendHonest
  \* Whatever changes, it changes for a stream whose prompt python-ai accepts.
  <1>4. ASSUME NEW s \in Streams, ModelBackendAccepts(body[s]),
               \A q \in Streams \ {s} : /\ made'[q] = made[q] /\ ended'[q] = ended[q] /\ events'[q] = events[q]
                                        /\ call'[q] = call[q] /\ terminal'[q] = terminal[q]
        PROVE  BackendHonest'
    BY <1>2, <1>4 DEF BackendHonest
  <1>5. ASSUME NEW s \in Streams, RecvChunk(s) PROVE BackendHonest'
    <2>1. wire[s] # <<>> /\ events' = [events EXCEPT ![s] = @ + 1] /\ UNCHANGED <<made, ended, call, terminal>>
      BY <1>5 DEF RecvChunk, backend, generation
    <2>2. made[s] > 0
      <3>1. wire[s] \in Seq(EvalCounts) /\ events[s] \in Nat /\ made[s] \in Nat
        BY <1>1 DEF TypeOK, HandlersTyped, CallsTyped, BackendTyped, EvalCounts
      <3>2. Len(wire[s]) \in Nat /\ Len(wire[s]) # 0 BY <2>1, <3>1
      <3>3. events[s] + Len(wire[s]) <= made[s] BY <1>1 DEF ChunkInv
      <3> QED BY <3>1, <3>2, <3>3
    <2>3. ModelBackendAccepts(body[s]) BY <2>2 DEF BackendHonest
    <2>4. \A q \in Streams \ {s} : events'[q] = events[q] BY <1>1, <2>1 DEF TypeOK, HandlersTyped
    <2> QED BY <1>4, <2>1, <2>3, <2>4
  <1>6. ASSUME NEW s \in Streams, RecvEOF(s) PROVE BackendHonest'
    <2>1. /\ trailer[s] = "OK" /\ terminal' = [terminal EXCEPT ![s] = "done"]
          /\ UNCHANGED <<made, ended, call, events>>
      BY <1>6 DEF RecvEOF, LastEvent, rpc, backend, generation
    <2>2. ended[s] BY <1>1, <2>1 DEF ChunkInv
    <2>3. ModelBackendAccepts(body[s]) BY <2>2 DEF BackendHonest
    <2>4. \A q \in Streams \ {s} : terminal'[q] = terminal[q] BY <1>1, <2>1 DEF TypeOK, HandlersTyped
    <2> QED BY <1>4, <2>1, <2>3, <2>4
  <1>7. ASSUME NEW s \in Streams, RecvError(s) PROVE BackendHonest'
    <2>1. terminal' = [terminal EXCEPT ![s] = "error"] /\ UNCHANGED <<made, ended, call, events>>
      BY <1>7 DEF RecvError, LastEvent, rpc, backend, generation
    <2>2. \A q \in Streams : terminal'[q] = "done" => terminal[q] = "done"
      BY <1>1, <2>1 DEF TypeOK, HandlersTyped
    <2> QED BY <1>3, <2>1, <2>2
  <1>8. ASSUME NEW s \in Streams,
               Reject(s) \/ StartStream(s) \/ StreamFails(s) \/ ClientLeaves(s) \/ LoopTop(s) \/ CancelArrives(s)
        PROVE  BackendHonest'
    <2>1. UNCHANGED <<made, ended, call, events, terminal>>
      BY <1>8 DEF Reject, StartStream, CallStream, StreamFails, ClientLeaves, LoopTop, CancelArrives, gateway, client,
         rpc, backend, generation
    <2> QED BY <1>3, <2>1
  <1>9. ASSUME NEW s \in Streams, NEW c \in {"sent", "ended"}, call' = [call EXCEPT ![s] = c],
               UNCHANGED <<made, ended, events, terminal>>
        PROVE  BackendHonest'
    <2>1. \A q \in Streams : call'[q] = "running" => call[q] = "running"
      BY <1>1, <1>9 DEF TypeOK, CallsTyped
    <2> QED BY <1>3, <1>9, <2>1
  <1>10. ASSUME NEW s \in Streams, StreamOpens(s) \/ Refuse(s) \/ DropCancelled(s) PROVE BackendHonest'
    <2>1. PICK c \in {"sent", "ended"} :
            call' = [call EXCEPT ![s] = c] /\ UNCHANGED <<made, ended, events, terminal>>
      BY <1>10 DEF StreamOpens, Refuse, DropCancelled, EndCall, gateway, client, backend, generation
    <2> QED BY <1>9, <2>1
  <1>11. ASSUME NEW s \in Streams, TakeCall(s) PROVE BackendHonest'
    <2>1. UNCHANGED <<made, ended, events, terminal>> BY <1>11 DEF TakeCall, Generate, gateway, client, generation
    <2>2. CASE ModelBackendAccepts(body[s])
      <3>1. PICK c : call' = [call EXCEPT ![s] = c] BY <1>11, <2>2 DEF TakeCall, Generate
      <3>2. \A q \in Streams \ {s} : call'[q] = call[q] BY <1>1, <3>1 DEF TypeOK, CallsTyped
      <3> QED BY <1>4, <2>1, <2>2, <3>2
    <2>3. CASE ~ModelBackendAccepts(body[s])
      <3>1. call' = [call EXCEPT ![s] = "ended"] BY <1>11, <2>3 DEF TakeCall, Generate, EndCall
      <3> QED BY <1>9, <2>1, <3>1
    <2> QED BY <2>2, <2>3
  <1>12. ASSUME NEW s \in Streams, OllamaStep(s) PROVE BackendHonest'
    <2>1. call[s] = "running" /\ ModelBackendAccepts(body[s])
      <3>1. ollama[s] # "idle"
        <4>1. CASE Proceeds(s) BY <1>1, <4>1, ProceedEffect
        <4> QED BY <1>12, <4>1 DEF OllamaStep, Proceeds, OllamaSendsChunk, OllamaSendsFinalChunk, OllamaEnds,
                   OllamaFails, OllamaTimesOut, Decisive
      <3> QED BY <1>1, <3>1 DEF CallInv, BackendHonest
    <2>2. ASSUME NEW t, Leave(s, t), UNCHANGED ended \/ ended' = [ended EXCEPT ![s] = TRUE] PROVE BackendHonest'
      <3>1. call' = [call EXCEPT ![s] = "ended"] /\ UNCHANGED <<made, events, terminal>>
        BY <2>2 DEF Leave, EndCall, gateway, client
      <3>2. \A q \in Streams \ {s} : call'[q] = call[q] /\ ended'[q] = ended[q]
        BY <1>1, <2>2, <3>1 DEF TypeOK, CallsTyped, BackendTyped
      <3> QED BY <1>4, <2>1, <3>1, <3>2
    <2>3. ASSUME NEW n, Yield(s, n) PROVE BackendHonest'
      <3>1. made' = [made EXCEPT ![s] = @ + 1] /\ UNCHANGED <<ended, events, terminal, call>>
        BY <2>3 DEF Yield, NextOperation, gateway, client
      <3>2. \A q \in Streams \ {s} : made'[q] = made[q] BY <1>1, <3>1 DEF TypeOK, BackendTyped
      <3> QED BY <1>4, <2>1, <3>1, <3>2
    <2>4. CASE Proceeds(s)
      <3>1. UNCHANGED <<made, ended, events, terminal, call>>
        BY <1>1, <2>4, ProceedEffect DEF NextOperation, gateway, client
      <3> QED BY <1>3, <3>1
    <2>5. CASE OllamaSendsChunk(s) BY <2>2, <2>3, <2>5 DEF OllamaSendsChunk, Returns
    <2>6. CASE OllamaSendsFinalChunk(s) BY <2>2, <2>3, <2>6 DEF OllamaSendsFinalChunk, Returns
    <2>7. CASE OllamaEnds(s) \/ OllamaFails(s) \/ OllamaTimesOut(s)
      BY <2>2, <2>7 DEF OllamaEnds, OllamaFails, OllamaTimesOut, Returns
    <2> QED BY <1>12, <2>4, <2>5, <2>6, <2>7 DEF OllamaStep, Proceeds
  <1>13. CASE Crash
    <2>1. UNCHANGED <<made, ended, events, terminal>> /\ \A q \in Streams : call'[q] # "running"
      BY <1>13 DEF Crash, gateway, client, generation
    <2> QED BY <1>3, <2>1
  <1>14. CASE Tick \/ ConnectionBreaks \/ Restart \/ Reconnect \/ UNCHANGED vars
    <2>1. UNCHANGED <<made, ended, events, terminal, call>>
      BY <1>14 DEF Tick, ConnectionBreaks, Restart, Reconnect, vars, gateway, client, rpc, backend, generation
    <2> QED BY <1>3, <2>1
  <1> QED
    BY <1>5, <1>6, <1>7, <1>8, <1>10, <1>11, <1>12, <1>13, <1>14
    DEF Next, CreationStep, RecvStep, ServerStep, Terminated

\* A stream's 400 means that the gateway refuses the prompt and its 504 that the deadline is over; a
\* chunk or "done" is only given for a prompt both services accept (PredictStream and
\* ModelPredictStream). Its inductive form adds that Ollama works only for such a prompt.
THEOREM StreamsAreHonest == Spec => []StreamAnswersHonest
  <1> DEFINE Inv == GatewayHonest /\ BackendHonest
  <1>1. Inv /\ IInv /\ [Next]_vars => Inv' BY GatewayHonestStep, BackendHonestStep
  <1>2. Inv => StreamAnswersHonest BY DEF GatewayHonest, BackendHonest, StreamAnswersHonest
  <1>3. Init => Inv BY InitHonest
  <1> QED BY <1>1, <1>2, <1>3, StreamInvariant, PTL DEF Spec

-----------------------------------------------------------------------------
(* The path implements StreamContract: every step maps to a step of the        *)
(* contract or changes nothing of it. (Its liveness is left to TLC.)           *)

Stage == [s \in Streams |-> CASE handler[s] = "opening"  -> "pending"
                              [] s \in Open              -> "open"
                              [] handler[s] = "finished" -> "closed"
                              [] OTHER                   -> "new"]

\* What a step of a handler does to the contract's stage.
LEMMA StageMoves ==
    ASSUME TypeOK, NEW s \in Streams, NEW h, handler' = [handler EXCEPT ![s] = h]
    PROVE  /\ handler[s] = "new" => Stage[s] = "new"
           /\ handler[s] = "opening" => Stage[s] = "pending"
           /\ s \in Open => Stage[s] = "open"
           /\ h = "opening" => Stage' = [Stage EXCEPT ![s] = "pending"]
           /\ h \in {"loop", "recv"} => Stage' = [Stage EXCEPT ![s] = "open"]
           /\ h = "finished" => Stage' = [Stage EXCEPT ![s] = "closed"]
  <1>1. \A r \in Streams : handler'[r] = IF r = s THEN h ELSE handler[r] BY DEF TypeOK, HandlersTyped
  <1>2. \A r \in Streams : Stage[r] = CASE handler[r] = "opening"          -> "pending"
                                        [] handler[r] \in {"loop", "recv"} -> "open"
                                        [] handler[r] = "finished"         -> "closed"
                                        [] OTHER                           -> "new"
    BY DEF Stage, Open
  <1>3. \A r \in Streams : Stage'[r] = CASE handler'[r] = "opening"          -> "pending"
                                         [] handler'[r] \in {"loop", "recv"} -> "open"
                                         [] handler'[r] = "finished"         -> "closed"
                                         [] OTHER                            -> "new"
    BY DEF Stage, Open
  <1>4. Stage = [r \in Streams |-> Stage[r]] /\ Stage' = [r \in Streams |-> Stage'[r]] BY DEF Stage
  <1>5. /\ handler[s] = "new" => Stage[s] = "new"
        /\ handler[s] = "opening" => Stage[s] = "pending"
        /\ s \in Open => Stage[s] = "open"
    BY <1>2 DEF Open
  <1>6. \A r \in Streams \ {s} : Stage'[r] = Stage[r] BY <1>1, <1>2, <1>3
  <1>7. /\ h = "opening" => Stage'[s] = "pending"
        /\ h \in {"loop", "recv"} => Stage'[s] = "open"
        /\ h = "finished" => Stage'[s] = "closed"
    BY <1>1, <1>3
  <1>8. ASSUME NEW v, Stage'[s] = v PROVE Stage' = [Stage EXCEPT ![s] = v]
    BY <1>4, <1>6, <1>8
  <1> QED BY <1>5, <1>7, <1>8

LEMMA StreamContractStutter ==
    ASSUME UNCHANGED <<handler, client, made, ended>>
    PROVE  UNCHANGED Contract!vars
  <1>1. UNCHANGED <<gone, status, events, terminal>> BY DEF client
  <1> QED BY <1>1 DEF Contract!vars, Open

LEMMA StreamContractHandler ==
    ASSUME IInv, NEW s \in Streams,
           \/ Reject(s) \/ StartStream(s) \/ CreationStep(s) \/ ClientLeaves(s) \/ LoopTop(s) \/ RecvStep(s)
    PROVE  [Contract!Next]_(Contract!vars)
  <1>1. TypeOK /\ CallInv /\ ChunkInv BY DEF IInv
  <1>2. CASE Reject(s)
    <2>1. /\ handler[s] = "new" /\ handler' = [handler EXCEPT ![s] = "finished"]
          /\ status' = [status EXCEPT ![s] = 400] /\ UNCHANGED <<gone, events, terminal, made, ended>>
      BY <1>2 DEF Reject, Finish, Commit, ValidationError, backend, generation
    <2>2. Stage[s] = "new" /\ Stage' = [Stage EXCEPT ![s] = "closed"] BY <1>1, <2>1, StageMoves
    <2>3. Contract!Reject(s)
      BY <2>1, <2>2 DEF Contract!Reject, Contract!Move, Stage
    <2> QED BY <2>3 DEF Contract!Next
  <1>3. CASE StartStream(s)
    <2>1. /\ handler[s] = "new" /\ handler' = [handler EXCEPT ![s] = "opening"] /\ status[s] = 0
          /\ UNCHANGED <<gone, status, events, terminal, made, ended>>
      BY <1>1, <1>3 DEF StartStream, CallStream, client, backend, generation, CallInv
    <2>2. Stage[s] = "new" /\ Stage' = [Stage EXCEPT ![s] = "pending"] BY <1>1, <2>1, StageMoves
    <2>3. status' = [status EXCEPT ![s] = 0] BY <1>1, <2>1 DEF TypeOK, HandlersTyped
    <2>4. Contract!Accept(s)
      BY <2>1, <2>2, <2>3 DEF Contract!Accept, Contract!Move, Stage
    <2> QED BY <2>4 DEF Contract!Next
  <1>4. CASE StreamOpens(s)
    <2>1. /\ handler[s] = "opening" /\ handler' = [handler EXCEPT ![s] = "loop"]
          /\ status' = [status EXCEPT ![s] = 200] /\ UNCHANGED <<gone, events, terminal, made, ended>>
      BY <1>4 DEF StreamOpens, Commit, Success, backend, generation
    <2>2. Stage[s] = "pending" /\ Stage' = [Stage EXCEPT ![s] = "open"] BY <1>1, <2>1, StageMoves
    <2>3. Contract!Open(s)
      BY <2>1, <2>2 DEF Contract!Open, Contract!Move, Stage
    <2> QED BY <2>3 DEF Contract!Next
  <1>5. CASE StreamFails(s)
    <2>1. PICK code \in CreationErrors(s) : Commit(s, APIErrorFromGRPC(code).status)
      BY <1>5 DEF StreamFails
    <2> DEFINE written == APIErrorFromGRPC(code).status
    <2>2. written \in {500, 503, 504} /\ status' = [status EXCEPT ![s] = written]
      BY <2>1, CreationStatuses DEF Commit
    <2> HIDE DEF written
    <2>3. /\ handler[s] = "opening" /\ handler' = [handler EXCEPT ![s] = "finished"]
          /\ UNCHANGED <<gone, events, terminal, made, ended>>
      BY <1>5 DEF StreamFails, Finish, backend, generation
    <2>4. Stage[s] = "pending" /\ Stage' = [Stage EXCEPT ![s] = "closed"] BY <1>1, <2>3, StageMoves
    <2>5. Contract!Move(s, "pending", "closed", written) BY <2>2, <2>4 DEF Contract!Move, Stage
    <2>6. UNCHANGED <<gone, made, ended, events, terminal>> BY <2>3
    <2>7. Contract!Fail(s) BY <2>2, <2>5, <2>6, Zenon DEF Contract!Fail
    <2> QED BY <2>7, Zenon DEF Contract!Next
  <1>6. CASE ClientLeaves(s)
    <2>1. /\ handler[s] \in {"opening", "loop", "recv"} /\ gone' = [gone EXCEPT ![s] = TRUE]
          /\ UNCHANGED <<handler, status, events, terminal, made, ended>>
      BY <1>6 DEF ClientLeaves, Calling, Open, backend, generation
    <2>2. Stage[s] \in {"pending", "open"} /\ Stage' = Stage BY <2>1 DEF Stage, Open
    <2>3. Contract!Disconnect(s)
      BY <2>1, <2>2 DEF Contract!Disconnect, Stage
    <2> QED BY <2>3 DEF Contract!Next
  <1>7. CASE RecvChunk(s)
    <2>1. /\ s \in Open /\ handler' = [handler EXCEPT ![s] = "loop"] /\ wire[s] # <<>>
          /\ events' = [events EXCEPT ![s] = @ + 1] /\ UNCHANGED <<gone, status, terminal, made, ended>>
      BY <1>7 DEF RecvChunk, Open, backend, generation
    <2>2. Stage[s] = "open" /\ Stage' = [Stage EXCEPT ![s] = "open"] BY <1>1, <2>1, StageMoves
    <2>3. Stage' = Stage BY <2>2 DEF Stage
    <2>4. events[s] < made[s]
      <3>1. wire[s] \in Seq(EvalCounts) /\ events[s] \in Nat /\ made[s] \in Nat
        BY <1>1 DEF TypeOK, HandlersTyped, CallsTyped, BackendTyped, EvalCounts
      <3>2. Len(wire[s]) \in Nat /\ Len(wire[s]) # 0 BY <2>1, <3>1
      <3>3. events[s] + Len(wire[s]) <= made[s] BY <1>1 DEF ChunkInv
      <3> QED BY <3>1, <3>2, <3>3
    <2>5. Contract!Deliver(s)
      BY <2>1, <2>2, <2>3, <2>4 DEF Contract!Deliver, Stage
    <2> QED BY <2>5 DEF Contract!Next
  <1>8. ASSUME s \in Open, handler' = [handler EXCEPT ![s] = "finished"],
               UNCHANGED <<gone, status, events, made, ended>>,
               \/ ended[s] /\ events[s] = made[s] /\ terminal' = [terminal EXCEPT ![s] = "done"]
               \/ terminal' = [terminal EXCEPT ![s] = "error"]
               \/ gone[s] /\ UNCHANGED terminal
        PROVE  [Contract!Next]_(Contract!vars)
    <2>1. Stage[s] = "open" /\ Stage' = [Stage EXCEPT ![s] = "closed"] BY <1>1, <1>8, StageMoves
    <2>2. status' = [status EXCEPT ![s] = 200] BY <1>1, <1>8 DEF CallInv, TypeOK, HandlersTyped
    <2>3. Contract!Move(s, "open", "closed", 200) BY <2>1, <2>2 DEF Contract!Move, Stage
    <2>4. Contract!Close(s) BY <1>8, <2>3 DEF Contract!Close
    <2> QED BY <2>4 DEF Contract!Next
  <1>9. CASE LoopTop(s)
    <2>1. s \in Open /\ UNCHANGED <<gone, status, events, terminal, made, ended>>
      BY <1>9 DEF LoopTop, Open, client, backend, generation
    <2>2. CASE gone[s] BY <1>8, <1>9, <2>1, <2>2 DEF LoopTop, Finish
    <2>3. CASE ~gone[s]
      <3>1. handler' = [handler EXCEPT ![s] = "recv"] BY <1>9, <2>3 DEF LoopTop
      <3>2. Stage[s] = "open" /\ Stage' = [Stage EXCEPT ![s] = "open"] BY <1>1, <2>1, <3>1, StageMoves
      <3>3. Stage' = Stage BY <3>2 DEF Stage
      <3> QED BY <2>1, <3>3 DEF Stage, Contract!vars
    <2> QED BY <2>2, <2>3
  <1>10. CASE RecvEOF(s)
    <2>1. /\ s \in Open /\ handler' = [handler EXCEPT ![s] = "finished"] /\ wire[s] = <<>> /\ trailer[s] = "OK"
          /\ terminal' = [terminal EXCEPT ![s] = "done"] /\ UNCHANGED <<gone, status, events, made, ended>>
      BY <1>10 DEF RecvEOF, LastEvent, Finish, Open, backend, generation
    <2>2. ended[s] /\ events[s] = made[s]
      BY <1>1, <2>1 DEF ChunkInv, TypeOK, HandlersTyped
    <2> QED BY <1>8, <2>1, <2>2
  <1>11. CASE RecvError(s)
    <2>1. /\ s \in Open /\ handler' = [handler EXCEPT ![s] = "finished"]
          /\ terminal' = [terminal EXCEPT ![s] = "error"] /\ UNCHANGED <<gone, status, events, made, ended>>
      BY <1>11 DEF RecvError, LastEvent, Finish, Open, backend, generation
    <2> QED BY <1>8, <2>1
  <1> QED BY <1>2, <1>3, <1>4, <1>5, <1>6, <1>7, <1>9, <1>10, <1>11 DEF CreationStep, RecvStep

\* A chunk is a step of the generation: the call it belongs to was opened with a 200.
LEMMA StreamContractYield ==
    ASSUME IInv, NEW s \in Streams, NEW n, Yield(s, n), ollama[s] = "read"
    PROVE  [Contract!Next]_(Contract!vars)
  <1>1. TypeOK /\ CallInv BY DEF IInv
  <1>2. /\ made' = [made EXCEPT ![s] = @ + 1]
        /\ UNCHANGED <<handler, gone, status, events, terminal, ended>>
    BY DEF Yield, NextOperation, gateway, client
  <1>3. status[s] = 200 /\ ~ended[s] BY <1>1 DEF CallInv
  <1>4. Stage' = Stage BY <1>2 DEF Stage, Open
  <1>5. Contract!Generate(s)
    BY <1>2, <1>3, <1>4, Zenon DEF Contract!Generate, Stage
  <1> QED BY <1>5 DEF Contract!Next

\* The end of Ollama's answer completes the generation.
LEMMA StreamContractEnd ==
    ASSUME IInv, NEW s \in Streams, OllamaEnds(s)
    PROVE  [Contract!Next]_(Contract!vars)
  <1>1. TypeOK /\ CallInv BY DEF IInv
  <1>2. /\ ended' = [ended EXCEPT ![s] = TRUE] /\ ollama[s] = "read"
        /\ UNCHANGED <<handler, gone, status, events, terminal, made>>
    BY DEF OllamaEnds, Leave, gateway, client
  <1>3. status[s] = 200 /\ ~ended[s] BY <1>1, <1>2 DEF CallInv
  <1>4. Stage' = Stage BY <1>2 DEF Stage, Open
  <1>5. Contract!Complete(s)
    BY <1>2, <1>3, <1>4, Zenon DEF Contract!Complete, Stage
  <1> QED BY <1>5 DEF Contract!Next

LEMMA StreamContractStep ==
    ASSUME IInv, [Next]_vars
    PROVE  [Contract!Next]_(Contract!vars)
  <1>1. ASSUME NEW s \in Streams,
               Reject(s) \/ StartStream(s) \/ CreationStep(s) \/ ClientLeaves(s) \/ LoopTop(s) \/ RecvStep(s)
        PROVE  [Contract!Next]_(Contract!vars)
    BY <1>1, StreamContractHandler
  <1>2. ASSUME NEW s \in Streams, ServerStep(s) PROVE UNCHANGED Contract!vars
    BY <1>2, StreamContractStutter
       DEF ServerStep, Refuse, CancelArrives, DropCancelled, TakeCall, Generate, gateway, backend, generation
  <1>3. ASSUME NEW s \in Streams, OllamaStep(s) PROVE [Contract!Next]_(Contract!vars)
    <2>1. ASSUME NEW t, Returns(s, t) PROVE UNCHANGED Contract!vars
      BY <2>1, StreamContractStutter DEF Returns, Leave, gateway
    <2>2. CASE Proceeds(s)
      <3>1. TypeOK BY DEF IInv
      <3> QED BY <2>2, <3>1, ProceedEffect, StreamContractStutter DEF NextOperation, gateway
    <2>3. CASE OllamaSendsChunk(s)
      BY <2>1, <2>3, StreamContractYield, Zenon DEF OllamaSendsChunk
    <2>4. CASE OllamaSendsFinalChunk(s)
      BY <2>1, <2>4, StreamContractYield, Zenon DEF OllamaSendsFinalChunk
    <2>5. CASE OllamaEnds(s) BY <2>5, StreamContractEnd
    <2>6. CASE OllamaFails(s) \/ OllamaTimesOut(s) BY <2>1, <2>6, Zenon DEF OllamaFails, OllamaTimesOut
    <2> QED BY <1>3, <2>2, <2>3, <2>4, <2>5, <2>6 DEF OllamaStep, Proceeds
  <1>4. CASE Tick \/ ConnectionBreaks \/ Crash \/ Restart \/ Reconnect \/ UNCHANGED vars
    BY <1>4, StreamContractStutter DEF Tick, ConnectionBreaks, Crash, Restart, Reconnect, vars, gateway, backend, generation
  <1> QED BY <1>1, <1>2, <1>3, <1>4 DEF Next, Terminated

LEMMA StreamContractInit == Init => Contract!Init
  <1> SUFFICES ASSUME Init PROVE Contract!Init OBVIOUS
  <1>1. Stage = [s \in Streams |-> "new"] BY DEF Init, Stage, Open
  <1> QED BY <1>1 DEF Init, Contract!Init, Stage

\* The safety part of the refinement: a stream ends in "done" only if Ollama's answer came to its
\* regular end and all of it was delivered, so that no failure of Ollama, of the connection or of a
\* deadline passes for an end; a client that stays is told once how it ended, for any number of
\* streams and workers, any timeouts and any number of faults.
THEOREM ImplementsStreamContract == Spec => Contract!Init /\ [][Contract!Next]_(Contract!vars)
  BY StreamContractInit, StreamContractStep, StreamInvariant, PTL DEF Spec
===============================================================================
