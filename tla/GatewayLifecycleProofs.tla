------------------------ MODULE GatewayLifecycleProofs ------------------------
(* What survives the shutdown of a go-gateway process, for any number of       *)
(* requests, any configuration and any grace period.                           *)
EXTENDS GatewayLifecycle, TLAPS

\* The timeouts are natural numbers.
LEMMA TimesAreNat ==
    ASSUME IInv
    PROVE  /\ {cfg.ReadTimeout, cfg.RPCTimeout, cfg.ShutdownTimeout} \subseteq Nat
           /\ {GracePeriod, FlushTime, stl, grace} \subseteq Nat
  BY ConfigsAssumption, PeriodsAssumption DEF IInv, TypeOK

LEMMA InitIInv == Init => IInv
  <1> SUFFICES ASSUME Init PROVE IInv OBVIOUS
  <1>1. TypeOK
    <2>1. GracePeriod \in Nat BY PeriodsAssumption
    <2>2. grace \in 0 .. GracePeriod BY <2>1 DEF Init
    <2> QED BY <2>2 DEF Init, TypeOK
  <1>2. ProcessInv /\ ShutdownClock BY DEF Init, ProcessInv, ShutdownClock, Running
  <1>3. RequestClock /\ DrainInv BY DEF Init, RequestClock, DrainInv
  <1>4. SpanInv BY DEF Init, SpanInv
  <1>5. InflightRequestsDrain /\ AnsweredSpansExported /\ EndsBySelf
    BY DEF Init, InflightRequestsDrain, AnsweredSpansExported, EndsBySelf
  <1> QED BY <1>1, <1>2, <1>3, <1>4, <1>5 DEF IInv

\* main up to signal.Notify, and the listener: nothing is shut down yet.
LEMMA StartStep ==
    ASSUME IInv, InitTracer \/ Dial \/ StartListener \/ Notify \/ Listen
    PROVE  IInv'
  <1>1. /\ UNCHANGED <<cfg, collector, exit, stl, term, grace, req, left, span>>
        /\ \/ pc \in {"boot", "traced", "dialled", "started"} /\ pc' \in {"traced", "dialled", "started", "waiting"}
           \/ pc' = pc /\ pc \in {"started", "waiting", "draining", "closing", "flushing"} /\ listener = "none"
        /\ conn' = "closed" => conn = "closed"
        /\ listener' \in {"none", "open", "closed"} /\ conn' \in {"none", "open", "closed"}
    BY DEF IInv, TypeOK, InitTracer, Dial, StartListener, Notify, Listen, Listening, Goto, signals, requests
  <1>2. TypeOK' BY <1>1 DEF IInv, TypeOK
  <1>3. ProcessInv' BY <1>1 DEF IInv, TypeOK, ProcessInv, Running
  <1>4. ShutdownClock' BY <1>1 DEF IInv, TypeOK, ShutdownClock, ProcessInv
  <1>5. RequestClock' BY <1>1 DEF IInv, TypeOK, RequestClock, ProcessInv
  <1>6. DrainInv' BY <1>1 DEF IInv, TypeOK, DrainInv, Running, Covered, ProcessInv
  <1>7. SpanInv' BY <1>1 DEF IInv, TypeOK, SpanInv, Running, Covered, ProcessInv
  <1>8. (InflightRequestsDrain /\ AnsweredSpansExported /\ EndsBySelf)'
    BY <1>1 DEF IInv, InflightRequestsDrain, AnsweredSpansExported, EndsBySelf, Covered
  <1> QED BY <1>2, <1>3, <1>4, <1>5, <1>6, <1>7, <1>8 DEF IInv

\* The process ends with no request in flight and no span to lose where that is promised.
LEMMA ExitStep ==
    ASSUME IInv, Running,
           NEW how \in {"failed", "sigterm", "sigkill", "clean"},
           NEW spans \in [Requests -> {"none", "open", "queued", "exported", "lost"}],
           Exit(how, spans), term' \in BOOLEAN, term => term',
           Covered /\ how \in {"sigkill", "clean"} => \A r \in Requests : req[r] \notin {"body", "calling"},
           Covered /\ collector /\ cfg.ShutdownTimeout + FlushTime < GracePeriod /\ how \in {"sigkill", "clean"}
               => \A r \in Requests : spans[r] # "lost",
           collector /\ cfg.ShutdownTimeout + FlushTime < GracePeriod => how # "sigkill"
    PROVE  IInv'
  <1>1. /\ pc' = "exited" /\ exit' = how /\ listener' = "closed" /\ conn' = "closed"
        /\ span' = spans
        /\ UNCHANGED <<cfg, collector, stl, grace, left>>
    BY DEF Exit
  <1>2. /\ req' \in [Requests -> {"none", "headers", "body", "calling", "answered", "aborted", "dropped", "cut"}]
        /\ \A r \in Requests : /\ req'[r] \notin {"headers", "body", "calling"}
                               /\ req[r] \notin {"body", "calling", "cut"} => req'[r] # "cut"
                               /\ req[r] # "aborted" => req'[r] # "aborted"
    BY DEF Exit, CutShort, IInv, TypeOK
  <1>3. TypeOK' BY <1>1, <1>2 DEF IInv, TypeOK
  <1>4. ProcessInv' BY <1>1 DEF IInv, ProcessInv, Running
  <1>5. ShutdownClock' /\ SpanInv' BY <1>1 DEF ShutdownClock, SpanInv, Running
  <1>6. RequestClock' /\ DrainInv' BY <1>1, <1>2 DEF RequestClock, DrainInv, Running
  <1>7. InflightRequestsDrain'
    <2> SUFFICES ASSUME Covered, how \in {"sigkill", "clean"}, NEW r \in Requests
                 PROVE  req'[r] \notin {"cut", "aborted"}
      BY <1>1 DEF InflightRequestsDrain, Covered
    <2>1. req[r] \notin {"body", "calling", "cut", "aborted"} BY DEF IInv, DrainInv
    <2> QED BY <2>1, <1>2
  <1>8. AnsweredSpansExported' /\ EndsBySelf'
    BY <1>1 DEF AnsweredSpansExported, EndsBySelf, Covered
  <1> QED BY <1>3, <1>4, <1>5, <1>6, <1>7, <1>8 DEF IInv

\* SIGKILL comes too late to find a process that keeps its own deadlines.
LEMMA SIGKILLTooLate ==
    ASSUME IInv, Running, term, grace = 0
    PROVE  /\ Covered => pc = "flushing"
           /\ ~(collector /\ cfg.ShutdownTimeout + FlushTime < GracePeriod)
  <1> USE TimesAreNat DEF IInv
  <1>1. pc \in {"waiting", "draining", "closing", "flushing"} BY DEF TypeOK, ProcessInv, Running
  <1>2. CASE pc = "waiting" BY <1>2 DEF ShutdownClock, Covered
  <1>3. CASE pc = "draining" BY <1>3 DEF ShutdownClock, Covered
  <1>4. CASE pc = "closing" BY <1>4 DEF ShutdownClock, Covered
  <1>5. CASE pc = "flushing" BY <1>5 DEF ShutdownClock, Covered
  <1> QED BY <1>1, <1>2, <1>3, <1>4, <1>5

LEMMA SpansLeft ==
    ASSUME IInv
    PROVE  /\ Unexported \in [Requests -> {"none", "open", "queued", "exported", "lost"}]
           /\ Exported \in [Requests -> {"none", "open", "queued", "exported", "lost"}]
  BY DEF IInv, TypeOK, Unexported, Exported

\* Every end of the process.
LEMMA EndStep ==
    ASSUME IInv, StartupFails \/ ListenFails \/ TracerShutdown \/ SIGKILL
    PROVE  IInv'
  <1>1. CASE StartupFails
    <2>1. Running /\ Exit("failed", Unexported) /\ term' = term
      BY <1>1 DEF StartupFails, Running
    <2> QED BY <2>1, ExitStep, SpansLeft DEF IInv, TypeOK
  <1>2. CASE ListenFails
    <2>1. Running /\ Exit("failed", Unexported) /\ term' = term
      BY <1>2 DEF ListenFails, Listening, Running
    <2> QED BY <2>1, ExitStep, SpansLeft DEF IInv, TypeOK
  <1>3. CASE TracerShutdown
    <2>1. Running /\ pc = "flushing" /\ Exit("clean", Exported) /\ term' = term
      BY <1>3 DEF TracerShutdown, Running
    <2>2. Covered => \A r \in Requests : req[r] \notin {"body", "calling"}
      BY <2>1 DEF IInv, DrainInv
    <2>3. Covered /\ collector => \A r \in Requests : Exported[r] # "lost"
      BY <2>1, <2>2 DEF IInv, SpanInv, Exported, Unexported
    <2> QED BY <2>1, <2>2, <2>3, ExitStep, SpansLeft DEF IInv, TypeOK
  <1>4. CASE SIGKILL
    <2>1. Running /\ term /\ grace = 0 /\ Exit("sigkill", Unexported) /\ term' = term
      BY <1>4 DEF SIGKILL
    <2>2. Covered => \A r \in Requests : req[r] \notin {"body", "calling"}
      BY <2>1, SIGKILLTooLate DEF IInv, DrainInv
    <2> QED BY <2>1, <2>2, SIGKILLTooLate, ExitStep, SpansLeft DEF IInv, TypeOK
  <1> QED BY <1>1, <1>2, <1>3, <1>4

LEMMA SIGTERMStep == ASSUME IInv, SIGTERM PROVE IInv'
  <1>1. Running /\ term' = TRUE BY DEF SIGTERM
  <1>2. CASE pc \in {"boot", "traced", "dialled", "started"}
    BY <1>1, <1>2, ExitStep, SpansLeft DEF SIGTERM
  <1>3. CASE pc \notin {"boot", "traced", "dialled", "started"}
    <2>1. UNCHANGED <<cfg, collector, pc, exit, listener, conn, stl, grace, req, left, span>>
      BY <1>3 DEF SIGTERM, requests
    <2>2. TypeOK' BY <2>1, <1>1 DEF IInv, TypeOK
    <2>3. ProcessInv' /\ ShutdownClock' /\ RequestClock'
      BY <2>1, <1>1, <1>3 DEF IInv, ProcessInv, ShutdownClock, RequestClock, Running
    <2>4. DrainInv' /\ SpanInv' BY <2>1 DEF IInv, DrainInv, SpanInv, Running, Covered
    <2>5. (InflightRequestsDrain /\ AnsweredSpansExported /\ EndsBySelf)'
      BY <2>1 DEF IInv, InflightRequestsDrain, AnsweredSpansExported, EndsBySelf, Covered
    <2> QED BY <2>2, <2>3, <2>4, <2>5 DEF IInv
  <1> QED BY <1>2, <1>3

-----------------------------------------------------------------------------
(* The process goes on: the three properties speak of its end.             *)

LEMMA AliveIsSafe ==
    ASSUME IInv, Running, exit' = exit, UNCHANGED <<cfg, collector>>, DrainInv', Running'
    PROVE  (InflightRequestsDrain /\ AnsweredSpansExported /\ EndsBySelf)'
  <1>1. exit' = "none" BY DEF IInv, ProcessInv
  <1> QED BY <1>1 DEF DrainInv, InflightRequestsDrain, AnsweredSpansExported, EndsBySelf, Covered

LEMMA StopStep == ASSUME IInv, StopListening PROVE IInv'
  <1> USE TimesAreNat
  <1>1. /\ term /\ pc = "waiting" /\ pc' = "draining" /\ listener' = "closed" /\ stl' = cfg.ShutdownTimeout
        /\ UNCHANGED <<cfg, collector, exit, conn, term, grace, req, left, span>>
    BY DEF StopListening, Stop, Goto, signals, requests
  <1>2. TypeOK' BY <1>1 DEF IInv, TypeOK
  <1>3. ProcessInv' /\ ShutdownClock' BY <1>1 DEF IInv, ProcessInv, ShutdownClock, Running
  <1>4. RequestClock'
    <2> SUFFICES ASSUME NEW r \in Requests
                 PROVE  LET Bounded(n) == left[r] <= n /\ left[r] + cfg.ShutdownTimeout <= n + cfg.ShutdownTimeout
                        IN  /\ req[r] \in {"headers", "body"} => Bounded(cfg.ReadTimeout)
                            /\ req[r] = "calling" => Bounded(cfg.ReadTimeout + cfg.RPCTimeout)
      BY <1>1 DEF RequestClock
    <2>1. left[r] \in Nat BY DEF IInv, TypeOK
    <2> QED BY <2>1 DEF IInv, RequestClock
  <1>5. DrainInv' BY <1>1 DEF IInv, DrainInv, Running, Covered
  <1>6. SpanInv' BY <1>1 DEF IInv, SpanInv, Running, Covered
  <1> QED BY <1>1, <1>2, <1>3, <1>4, <1>5, <1>6, AliveIsSafe DEF IInv, Running

LEMMA ReturnStep == ASSUME IInv, ShutdownReturns PROVE IInv'
  <1> USE TimesAreNat
  <1>1. /\ Drained \/ stl = 0
        /\ pc = "draining" /\ pc' = "closing"
        /\ UNCHANGED <<cfg, collector, exit, listener, conn, stl, term, grace, req, left, span>>
    BY DEF ShutdownReturns, Goto, signals, requests
  <1>2. TypeOK' BY <1>1 DEF IInv, TypeOK
  <1>3. ProcessInv' /\ ShutdownClock' BY <1>1 DEF IInv, ProcessInv, ShutdownClock, Running
  <1>4. RequestClock' BY <1>1 DEF IInv, RequestClock
  <1>5. ASSUME Covered, NEW r \in Requests PROVE req[r] \notin {"headers", "body", "calling"}
    <2>1. CASE Drained BY <2>1 DEF Drained, Active
    <2>2. CASE stl = 0
      <3>1. left[r] \in Nat BY DEF IInv, TypeOK
      <3>2. cfg.ReadTimeout > 0 /\ cfg.ReadTimeout + cfg.RPCTimeout < cfg.ShutdownTimeout BY <1>5 DEF Covered
      <3>3. req[r] \notin {"headers", "body"} BY <3>1, <3>2, <2>2, <1>1 DEF IInv, RequestClock
      <3>4. req[r] # "calling" BY <3>1, <3>2, <2>2, <1>1 DEF IInv, RequestClock
      <3> QED BY <3>3, <3>4
    <2> QED BY <2>1, <2>2, <1>1
  <1>6. DrainInv' BY <1>1, <1>5 DEF IInv, DrainInv, Running, Covered
  <1>7. SpanInv' BY <1>1 DEF IInv, SpanInv, Running, Covered
  <1> QED BY <1>1, <1>2, <1>3, <1>4, <1>6, <1>7, AliveIsSafe DEF IInv, Running

LEMMA CloseStep == ASSUME IInv, ConnClose PROVE IInv'
  <1> USE TimesAreNat
  <1>1. /\ pc = "closing" /\ pc' = "flushing" /\ conn' = "closed" /\ stl' = FlushTime
        /\ UNCHANGED <<cfg, collector, exit, listener, term, grace, req, left, span>>
    BY DEF ConnClose, Goto, signals, requests
  <1>2. TypeOK' BY <1>1 DEF IInv, TypeOK
  <1>3. ProcessInv' /\ ShutdownClock' BY <1>1 DEF IInv, ProcessInv, ShutdownClock, Running
  <1>4. RequestClock' BY <1>1 DEF IInv, RequestClock
  <1>5. DrainInv' BY <1>1 DEF IInv, DrainInv, Running, Covered
  <1>6. SpanInv' BY <1>1 DEF IInv, SpanInv, Running, Covered
  <1> QED BY <1>1, <1>2, <1>3, <1>4, <1>5, <1>6, AliveIsSafe DEF IInv, Running

-----------------------------------------------------------------------------
(* Requests and spans.                                                     *)

\* A request step keeps the invariant when it keeps what it says of this request.
LEMMA RequestStep ==
    ASSUME IInv, NEW r \in Requests, Running,
           UNCHANGED <<cfg, collector, pc, exit, listener, conn, stl, term, grace>>,
           NEW to \in {"headers", "body", "calling", "answered", "aborted", "dropped"},
           NEW time \in Nat,
           NEW recorded \in {"none", "open", "queued", "exported", "lost"},
           req' = [req EXCEPT ![r] = to],
           left' = [left EXCEPT ![r] = time],
           span' = [span EXCEPT ![r] = recorded],
           to \in {"headers", "body"} => /\ time <= cfg.ReadTimeout
                                         /\ pc = "draining" /\ cfg.ReadTimeout > 0 => time + cfg.ShutdownTimeout <= cfg.ReadTimeout + stl,
           to = "calling" => /\ time <= cfg.ReadTimeout + cfg.RPCTimeout
                             /\ pc = "draining" /\ cfg.ReadTimeout > 0 => time + cfg.ShutdownTimeout <= cfg.ReadTimeout + cfg.RPCTimeout + stl,
           Covered => to # "aborted",
           Covered /\ pc \in {"closing", "flushing"} => to \notin {"headers", "body", "calling"},
           recorded = "open" => to = "calling",
           Covered /\ collector => recorded # "lost"
    PROVE  IInv'
  <1>1. TypeOK' BY DEF IInv, TypeOK
  <1>2. ProcessInv' /\ ShutdownClock' BY DEF IInv, ProcessInv, ShutdownClock, Running
  <1>3. \A q \in Requests : /\ req'[q] = IF q = r THEN to ELSE req[q]
                            /\ left'[q] = IF q = r THEN time ELSE left[q]
                            /\ span'[q] = IF q = r THEN recorded ELSE span[q]
    BY DEF IInv, TypeOK
  <1>4. RequestClock'
    <2> SUFFICES ASSUME NEW q \in Requests
                 PROVE  LET Bounded(n) == left'[q] <= n /\ (pc = "draining" /\ cfg.ReadTimeout > 0 => left'[q] + cfg.ShutdownTimeout <= n + stl)
                        IN  /\ req'[q] \in {"headers", "body"} => Bounded(cfg.ReadTimeout)
                            /\ req'[q] = "calling" => Bounded(cfg.ReadTimeout + cfg.RPCTimeout)
      BY DEF RequestClock
    <2>1. CASE q = r BY <2>1, <1>3
    <2>2. CASE q # r BY <2>2, <1>3 DEF IInv, RequestClock
    <2> QED BY <2>1, <2>2
  <1>5. DrainInv' BY <1>3 DEF IInv, DrainInv, Running, Covered
  <1>6. SpanInv' BY <1>3 DEF IInv, SpanInv, Running, Covered
  <1> QED BY <1>1, <1>2, <1>4, <1>5, <1>6, AliveIsSafe DEF IInv, Running

LEMMA AcceptStep == ASSUME IInv, NEW r \in Requests, Accept(r) PROVE IInv'
  <1> USE TimesAreNat
  <1>1. /\ Running
        /\ req' = [req EXCEPT ![r] = "headers"]
        /\ UNCHANGED <<cfg, collector, pc, exit, listener, conn, stl, term, grace>>
    BY DEF Accept, Phase, Others, signals
  <1>2. pc \notin {"draining", "closing", "flushing"} BY DEF Accept, IInv, ProcessInv
  <1>3. PICK time \in Nat : left' = [left EXCEPT ![r] = time] /\ time <= cfg.ReadTimeout
    <2>1. cfg.ReadTimeout \in Nat /\ cfg.ReadTimeout <= cfg.ReadTimeout OBVIOUS
    <2>2. left' = [left EXCEPT ![r] = cfg.ReadTimeout] BY DEF Accept
    <2> QED BY <2>1, <2>2
  <1>4. PICK recorded \in {"none", "queued", "exported", "lost"} :
          /\ span' = [span EXCEPT ![r] = recorded]
          /\ Covered /\ collector => recorded # "lost"
    BY <1>1 DEF Accept, Phase, IInv, TypeOK, SpanInv
  <1> QED BY <1>1, <1>2, <1>3, <1>4, RequestStep

\* The steps that give a request no more time and no span.
LEMMA QuietStep ==
    ASSUME IInv, NEW r \in Requests, Drop(r) \/ HeadersRead(r) \/ Reject(r)
    PROVE  IInv'
  <1> USE TimesAreNat
  <1>1. PICK to \in {"body", "answered", "dropped"} :
          /\ Running /\ req[r] \in {"headers", "body"}
          /\ req' = [req EXCEPT ![r] = to]
          /\ UNCHANGED <<cfg, collector, pc, exit, listener, conn, stl, term, grace>>
    BY DEF Drop, HeadersRead, Reject, Phase, Others, signals
  <1>2. /\ left' = [left EXCEPT ![r] = left[r]]
        /\ left[r] \in Nat
    BY DEF Drop, HeadersRead, Reject, IInv, TypeOK
  <1>3. PICK recorded \in {"none", "queued", "exported", "lost"} :
          /\ span' = [span EXCEPT ![r] = recorded]
          /\ Covered /\ collector => recorded # "lost"
    BY <1>1 DEF Drop, HeadersRead, Reject, IInv, TypeOK, SpanInv
  <1>4. /\ left[r] <= cfg.ReadTimeout
        /\ pc = "draining" /\ cfg.ReadTimeout > 0 => left[r] + cfg.ShutdownTimeout <= cfg.ReadTimeout + stl
    BY <1>1 DEF IInv, RequestClock
  <1>5. Covered => pc \notin {"closing", "flushing"} BY <1>1 DEF IInv, DrainInv
  <1> QED BY <1>1, <1>2, <1>3, <1>4, <1>5, RequestStep

LEMMA StartRPCStep == ASSUME IInv, NEW r \in Requests, StartRPC(r) PROVE IInv'
  <1> USE TimesAreNat
  <1>1. /\ Running /\ req[r] = "body"
        /\ req' = [req EXCEPT ![r] = "calling"]
        /\ left' = [left EXCEPT ![r] = cfg.RPCTimeout]
        /\ span' = [span EXCEPT ![r] = "open"]
        /\ UNCHANGED <<cfg, collector, pc, exit, listener, conn, stl, term, grace>>
    BY DEF StartRPC, Phase, Others, signals
  <1>2. left[r] \in Nat BY DEF IInv, TypeOK
  <1>3. pc = "draining" /\ cfg.ReadTimeout > 0 => cfg.ShutdownTimeout <= cfg.ReadTimeout + stl
    BY <1>1, <1>2 DEF IInv, RequestClock
  <1>4. Covered => pc \notin {"closing", "flushing"} BY <1>1 DEF IInv, DrainInv
  <1>5. /\ cfg.RPCTimeout <= cfg.ReadTimeout + cfg.RPCTimeout
        /\ pc = "draining" /\ cfg.ReadTimeout > 0 => cfg.RPCTimeout + cfg.ShutdownTimeout <= cfg.ReadTimeout + cfg.RPCTimeout + stl
    BY <1>3
  <1> QED BY <1>1, <1>4, <1>5, RequestStep

\* While requests are in flight the channel is open and the tracer at work, if the timeouts fit.
LEMMA RPCEndStep ==
    ASSUME IInv, NEW r \in Requests, RPCEnds(r) \/ RPCAborted(r)
    PROVE  IInv'
  <1> USE TimesAreNat
  <1>1. PICK to \in {"answered", "aborted"} :
          /\ Running /\ req[r] = "calling"
          /\ req' = [req EXCEPT ![r] = to]
          /\ to = "aborted" => conn = "closed"
          /\ UNCHANGED <<cfg, collector, pc, exit, listener, conn, stl, term, grace, left>>
    BY DEF RPCEnds, RPCAborted, Phase, Others, signals
  <1>2. PICK recorded \in {"queued", "lost"} :
          /\ span' = [span EXCEPT ![r] = recorded]
          /\ recorded = "lost" => pc = "flushing"
    BY DEF RPCEnds, RPCAborted, EndSpan
  <1>3. left' = [left EXCEPT ![r] = left[r]] /\ left[r] \in Nat
    BY <1>1 DEF IInv, TypeOK
  <1>4. Covered => pc # "flushing" BY <1>1 DEF IInv, DrainInv
  <1>5. Covered => conn # "closed" BY <1>1, <1>4 DEF IInv, ProcessInv, Running
  <1> QED BY <1>1, <1>2, <1>3, <1>4, <1>5, RequestStep

LEMMA ExportStep == ASSUME IInv, ExportBatch PROVE IInv'
  <1>1. /\ Running
        /\ span' = [r \in Requests |-> IF span[r] = "queued" THEN Exported[r] ELSE span[r]]
        /\ UNCHANGED <<cfg, collector, pc, exit, listener, conn, stl, term, grace, req, left>>
    BY DEF ExportBatch, Others, signals
  <1>2. \A r \in Requests : span'[r] = IF span[r] # "queued" THEN span[r]
                                       ELSE IF collector THEN "exported" ELSE "lost"
    BY <1>1 DEF Exported, Unexported
  <1>3. TypeOK' BY <1>1, SpansLeft DEF IInv, TypeOK
  <1>4. ProcessInv' /\ ShutdownClock' /\ RequestClock'
    BY <1>1 DEF IInv, ProcessInv, ShutdownClock, RequestClock, Running
  <1>5. DrainInv' BY <1>1 DEF IInv, DrainInv, Running, Covered
  <1>6. SpanInv' BY <1>1, <1>2 DEF IInv, SpanInv, Running, Covered
  <1> QED BY <1>1, <1>3, <1>4, <1>5, <1>6, AliveIsSafe DEF IInv, Running

-----------------------------------------------------------------------------
(* Time.                                                                   *)

LEMMA TickStep == ASSUME IInv, Tick PROVE IInv'
  <1> USE TimesAreNat
  <1>1. /\ Running
        /\ ~(pc = "waiting" /\ term) /\ pc # "closing"
        /\ pc = "draining" => stl # 0
        /\ pc = "flushing" /\ collector => stl # 0
        /\ term => grace # 0
        /\ \A r \in Active : Timed(r) => left[r] > 0
        /\ left' = [r \in Requests |-> IF left[r] > 0 THEN left[r] - 1 ELSE 0]
        /\ stl' = IF pc \in {"draining", "flushing"} /\ stl > 0 THEN stl - 1 ELSE stl
        /\ grace' = IF term THEN grace - 1 ELSE grace
        /\ UNCHANGED <<cfg, collector, pc, exit, listener, conn, term, req, span>>
    BY DEF Tick
  <1>2. TypeOK' BY <1>1 DEF IInv, TypeOK
  <1>3. ProcessInv' BY <1>1 DEF IInv, ProcessInv, Running
  <1>4. ShutdownClock' BY <1>1 DEF IInv, ShutdownClock, ProcessInv, TypeOK
  <1>5. RequestClock'
    <2> SUFFICES ASSUME NEW r \in Requests, req[r] \in {"headers", "body", "calling"}
                 PROVE  LET Bounded(n) == left'[r] <= n /\ (pc = "draining" /\ cfg.ReadTimeout > 0 => left'[r] + cfg.ShutdownTimeout <= n + stl')
                        IN  /\ req[r] \in {"headers", "body"} => Bounded(cfg.ReadTimeout)
                            /\ req[r] = "calling" => Bounded(cfg.ReadTimeout + cfg.RPCTimeout)
      BY <1>1 DEF RequestClock
    <2>1. /\ left[r] \in Nat /\ left'[r] \in Nat /\ left'[r] <= left[r]
          /\ cfg.ReadTimeout > 0 => left'[r] = left[r] - 1
      BY <1>1 DEF IInv, TypeOK, Active, Timed
    <2>2. pc = "draining" => stl' = stl - 1 BY <1>1
    <2> QED BY <2>1, <2>2 DEF IInv, RequestClock
  <1>6. DrainInv' BY <1>1 DEF IInv, DrainInv, Running, Covered
  <1>7. SpanInv' BY <1>1 DEF IInv, SpanInv, Running, Covered
  <1> QED BY <1>1, <1>2, <1>3, <1>4, <1>5, <1>6, <1>7, AliveIsSafe DEF IInv, Running

-----------------------------------------------------------------------------
(* The theorems.                                                           *)

LEMMA StutterStep == ASSUME IInv, UNCHANGED vars PROVE IInv'
  <1>1. UNCHANGED <<cfg, collector, pc, exit, listener, conn, stl, term, grace, req, left, span>>
    BY DEF vars, signals, requests
  <1>2. TypeOK' BY <1>1 DEF IInv, TypeOK
  <1>3. ProcessInv' /\ ShutdownClock' /\ RequestClock'
    BY <1>1 DEF IInv, ProcessInv, ShutdownClock, RequestClock, Running
  <1>4. DrainInv' /\ SpanInv' BY <1>1 DEF IInv, DrainInv, SpanInv, Running, Covered
  <1>5. (InflightRequestsDrain /\ AnsweredSpansExported /\ EndsBySelf)'
    BY <1>1 DEF IInv, InflightRequestsDrain, AnsweredSpansExported, EndsBySelf, Covered
  <1> QED BY <1>2, <1>3, <1>4, <1>5 DEF IInv

LEMMA StepIInv == IInv /\ [Next]_vars => IInv'
  <1> SUFFICES ASSUME IInv, [Next]_vars PROVE IInv' OBVIOUS
  <1>1. CASE InitTracer \/ Dial \/ StartListener \/ Notify \/ Listen BY <1>1, StartStep
  <1>2. CASE StartupFails \/ ListenFails \/ TracerShutdown \/ SIGKILL BY <1>2, EndStep
  <1>3. CASE SIGTERM BY <1>3, SIGTERMStep
  <1>4. CASE StopListening BY <1>4, StopStep
  <1>5. CASE ShutdownReturns BY <1>5, ReturnStep
  <1>6. CASE ConnClose BY <1>6, CloseStep
  <1>7. ASSUME NEW r \in Requests, Request(r) PROVE IInv'
    BY <1>7, AcceptStep, QuietStep, StartRPCStep, RPCEndStep DEF Request
  <1>8. CASE ExportBatch BY <1>8, ExportStep
  <1>9. CASE Tick BY <1>9, TickStep
  <1>10. CASE Terminated \/ UNCHANGED vars BY <1>10, StutterStep DEF Terminated
  <1> QED
    BY <1>1, <1>2, <1>3, <1>4, <1>5, <1>6, <1>7, <1>8, <1>9, <1>10 DEF Next, Main

\* The strengthening holds in every reachable state, for any requests, any configurations
\* and any grace period (main.go from InitTracer to the end of its deferred calls).
THEOREM LifecycleInvariant == Spec => []IInv
  BY InitIInv, StepIInv, PTL DEF Spec

\* Type correctness of GatewayLifecycle for every value of the constants.
THEOREM LifecycleTypes == Spec => []TypeOK
  <1>1. IInv => TypeOK BY DEF IInv
  <1> QED BY <1>1, LifecycleInvariant, PTL

\* Where there is a read timeout, the shutdown timeout covers it and the RPC, and the grace period
\* covers the shutdown timeout, no request in flight loses its answer to srv.Shutdown, conn.Close or SIGKILL.
THEOREM RequestsDrain == Spec => []InflightRequestsDrain
  <1>1. IInv => InflightRequestsDrain BY DEF IInv
  <1> QED BY <1>1, LifecycleInvariant, PTL

\* No span of an answered RPC is lost to the order of main's deferred calls.
THEOREM SpansExported == Spec => []AnsweredSpansExported
  <1>1. IInv => AnsweredSpansExported BY DEF IInv
  <1> QED BY <1>1, LifecycleInvariant, PTL

\* The process ends before SIGKILL whatever its requests do, if the collector answers and
\* the shutdown timeout and the flush fit into the grace period.
THEOREM GatewayEndsBySelf == Spec => []EndsBySelf
  <1>1. IInv => EndsBySelf BY DEF IInv
  <1> QED BY <1>1, LifecycleInvariant, PTL

-----------------------------------------------------------------------------
(* The process keeps the promise of GracefulStop.                          *)

GStep == [Graceful!Next]_(Graceful!vars)

LEMMA GracefulInit == Init => Graceful!Init
  <1> SUFFICES ASSUME Init PROVE Graceful!Init OBVIOUS
  <1>1. Stage = "up" /\ TimeAllowed = 0 BY DEF Init, Stage, TimeAllowed
  <1>2. cfg.ShutdownTimeout \in Nat BY ConfigsAssumption DEF Init
  <1>3. Fate = [r \in Requests |-> "none"] BY DEF Init, Fate, FateOf
  <1> QED BY <1>1, <1>2, <1>3 DEF Graceful!Init

\* A step that changes nothing the promise speaks of.
LEMMA Stutters ==
    ASSUME Stage' = Stage, cfg' = cfg, TimeAllowed' = TimeAllowed, Fate' = Fate
    PROVE  GStep
  BY DEF GStep, Graceful!vars

\* A step of one request is the step of one task.
LEMMA RequestMoves ==
    ASSUME IInv, NEW r \in Requests, Running, NEW to, req' = [req EXCEPT ![r] = to],
           UNCHANGED <<cfg, pc, exit, stl>>
    PROVE  /\ Graceful!Alive
           /\ Fate[r] = FateOf(req[r]) /\ Fate' = [Fate EXCEPT ![r] = FateOf(to)]
           /\ UNCHANGED <<Stage, cfg.ShutdownTimeout, TimeAllowed>>
           /\ Stage \in {"up", "stopping"}
  <1>1. Stage' = Stage /\ TimeAllowed' = TimeAllowed /\ cfg' = cfg BY DEF Stage, TimeAllowed
  <1>2. Stage \in {"up", "stopping"} BY DEF Stage, Running
  <1>3. \A q \in Requests : req'[q] = IF q = r THEN to ELSE req[q] BY DEF IInv, TypeOK
  <1>4. Fate' = [Fate EXCEPT ![r] = FateOf(to)]
    <2>1. Fate' = [q \in Requests |-> FateOf(req'[q])] BY DEF Fate
    <2>2. \A q \in Requests : FateOf(req'[q]) = IF q = r THEN FateOf(to) ELSE FateOf(req[q])
      <3>1. ASSUME NEW q \in Requests, q = r PROVE FateOf(req'[q]) = FateOf(to) BY <1>3, <3>1
      <3>2. ASSUME NEW q \in Requests, q # r PROVE FateOf(req'[q]) = FateOf(req[q]) BY <1>3, <3>2
      <3> QED BY <3>1, <3>2
    <2> QED BY <2>1, <2>2 DEF Fate
  <1> QED BY <1>1, <1>2, <1>4 DEF Fate, Graceful!Alive

LEMMA RequestFits == ASSUME IInv, NEW r \in Requests, Request(r) PROVE GStep
  <1> USE DEF Phase, Others, signals
  <1>1. CASE Accept(r)
    <2>1. req[r] = "none" /\ req' = [req EXCEPT ![r] = "headers"] /\ Running /\ UNCHANGED <<cfg, pc, exit, stl>>
      BY <1>1 DEF Accept
    <2>2. Stage = "up" BY <1>1 DEF Accept, IInv, ProcessInv, Stage, Running
    <2>3. FateOf("none") = "none" /\ FateOf("headers") = "connected" BY DEF FateOf
    <2>4. /\ Graceful!Alive /\ Fate[r] = "none" /\ Fate' = [Fate EXCEPT ![r] = "connected"]
          /\ UNCHANGED <<Stage, cfg.ShutdownTimeout, TimeAllowed>>
      <3>1. /\ Graceful!Alive /\ Fate[r] = FateOf(req[r]) /\ Fate' = [Fate EXCEPT ![r] = FateOf("headers")]
            /\ UNCHANGED <<Stage, cfg.ShutdownTimeout, TimeAllowed>>
        BY <2>1, RequestMoves, Zenon
      <3> QED BY <2>1, <2>3, <3>1
    <2>5. Graceful!Move(r, {"none"}, "connected") BY <2>4 DEF Graceful!Move
    <2>6. Graceful!Connect(r) BY <2>2, <2>5 DEF Graceful!Connect
    <2> QED BY <2>6 DEF GStep, Graceful!Next
  <1>2. CASE Drop(r)
    <2>1. req[r] = "headers" /\ req' = [req EXCEPT ![r] = "dropped"] /\ Running /\ UNCHANGED <<cfg, pc, exit, stl>>
      BY <1>2 DEF Drop
    <2>2. FateOf("headers") = "connected" /\ FateOf("dropped") = "refused" BY DEF FateOf
    <2>3. Graceful!Refuse(r) BY <2>1, <2>2, RequestMoves DEF Graceful!Refuse, Graceful!Move
    <2> QED BY <2>3 DEF GStep, Graceful!Next
  <1>3. CASE HeadersRead(r)
    <2>1. req[r] = "headers" /\ req' = [req EXCEPT ![r] = "body"] /\ Running /\ UNCHANGED <<cfg, pc, exit, stl>>
      BY <1>3 DEF HeadersRead
    <2>2. FateOf("headers") = "connected" /\ FateOf("body") = "accepted" BY DEF FateOf
    <2>3. Graceful!Accept(r) BY <2>1, <2>2, RequestMoves DEF Graceful!Accept, Graceful!Move
    <2> QED BY <2>3 DEF GStep, Graceful!Next
  <1>4. CASE StartRPC(r)
    <2>1. req[r] = "body" /\ req' = [req EXCEPT ![r] = "calling"] /\ Running /\ UNCHANGED <<cfg, pc, exit, stl>>
      BY <1>4 DEF StartRPC
    <2>2. FateOf("body") = "accepted" /\ FateOf("calling") = "accepted" BY DEF FateOf
    <2>3. Fate[r] = "accepted" /\ Fate' = [Fate EXCEPT ![r] = "accepted"] BY <2>1, <2>2, RequestMoves
    <2>4. Fate' = Fate BY <2>3 DEF Fate
    <2>5. Stage' = Stage /\ TimeAllowed' = TimeAllowed BY <2>1, RequestMoves
    <2> QED BY <2>1, <2>4, <2>5, Stutters
  <1>5. CASE Reject(r) \/ RPCEnds(r)
    <2>1. /\ req[r] \in {"body", "calling"} /\ req' = [req EXCEPT ![r] = "answered"]
          /\ Running /\ UNCHANGED <<cfg, pc, exit, stl>>
      BY <1>5 DEF Reject, RPCEnds
    <2>2. FateOf(req[r]) = "accepted" /\ FateOf("answered") = "finished" BY <2>1 DEF FateOf
    <2>3. Graceful!Finish(r) BY <2>1, <2>2, RequestMoves DEF Graceful!Finish, Graceful!Move
    <2> QED BY <2>3 DEF GStep, Graceful!Next
  <1>6. CASE RPCAborted(r)
    <2>1. /\ req[r] = "calling" /\ req' = [req EXCEPT ![r] = "aborted"] /\ conn = "closed"
          /\ Running /\ UNCHANGED <<cfg, pc, exit, stl>>
      BY <1>6 DEF RPCAborted
    <2>2. FateOf("calling") = "accepted" /\ FateOf("aborted") = "lost" BY DEF FateOf
    <2>3. Fate[r] = "accepted" /\ Fate' = [Fate EXCEPT ![r] = "lost"] BY <2>1, <2>2, RequestMoves
    <2>4. pc = "flushing" BY <2>1 DEF IInv, ProcessInv, Running
    <2>5. Stage = "stopping" /\ TimeAllowed = 0 BY <2>4 DEF Stage, TimeAllowed
    <2>6. Fate' = Graceful!Lost({r}) BY <2>3 DEF Graceful!Lost, Fate
    <2>7. {r} \in SUBSET Requests OBVIOUS
    <2>8. Graceful!Lose BY <2>1, <2>5, <2>6, <2>7, RequestMoves DEF Graceful!Lose
    <2> QED BY <2>8 DEF GStep, Graceful!Next
  <1> QED BY <1>1, <1>2, <1>3, <1>4, <1>5, <1>6 DEF Request

\* Every end of the process loses the accepted requests; the clean one comes after Shutdown.
LEMMA ExitFits ==
    ASSUME IInv, Running, NEW how \in {"failed", "sigterm", "sigkill", "clean"}, NEW spans, Exit(how, spans),
           how = "clean" => pc = "flushing"
    PROVE  GStep
  <1>1. /\ pc' = "exited" /\ exit' = how /\ cfg' = cfg /\ req' = CutShort
    BY DEF Exit
  <1>2. Fate' = [r \in Requests |-> IF Fate[r] = "connected" THEN "refused" ELSE Graceful!Lost(Requests)[r]]
    <2>1. ASSUME NEW r \in Requests
          PROVE  FateOf(req'[r]) = IF Fate[r] = "connected" THEN "refused" ELSE Graceful!Lost(Requests)[r]
      <3>1. Graceful!Lost(Requests)[r] = IF Fate[r] = "accepted" THEN "lost" ELSE Fate[r]
        BY DEF Graceful!Lost
      <3>2. Fate[r] = FateOf(req[r]) BY DEF Fate
      <3>3. CASE req[r] = "headers" BY <1>1, <3>1, <3>2, <3>3 DEF CutShort, FateOf
      <3>4. CASE req[r] \in {"body", "calling"} BY <1>1, <3>1, <3>2, <3>4 DEF CutShort, FateOf
      <3>5. CASE req[r] \notin {"headers", "body", "calling"}
        <4>1. req'[r] = req[r] BY <1>1, <3>5 DEF CutShort
        <4>2. FateOf(req[r]) \notin {"connected", "accepted"} BY <3>5 DEF FateOf
        <4> QED BY <3>1, <3>2, <4>1, <4>2
      <3> QED BY <3>3, <3>4, <3>5
    <2> QED BY <2>1 DEF Fate
  <1>3. TimeAllowed' = 0 BY <1>1 DEF TimeAllowed
  <1>4. CASE how = "clean"
    <2>1. Stage = "stopping" /\ TimeAllowed = 0 /\ Stage' = "gone" BY <1>1, <1>4 DEF Stage, TimeAllowed
    <2>2. Graceful!Exit BY <1>1, <1>2, <1>3, <2>1 DEF Graceful!Exit, Graceful!End
    <2> QED BY <2>2 DEF GStep, Graceful!Next
  <1>5. CASE how # "clean"
    <2>1. Stage \in {"up", "stopping"} /\ Stage' = "killed" BY <1>1, <1>5 DEF Stage, Running
    <2>2. Graceful!Kill BY <1>1, <1>2, <1>3, <2>1 DEF Graceful!Kill, Graceful!Alive, Graceful!End
    <2> QED BY <2>2 DEF GStep, Graceful!Next
  <1> QED BY <1>4, <1>5

\* main, from the signal to the end of its deferred calls.
LEMMA ShutdownFits == ASSUME IInv, StopListening \/ ShutdownReturns \/ ConnClose PROVE GStep
  <1> USE TimesAreNat DEF Goto, signals, requests
  <1>1. cfg' = cfg /\ Fate' = Fate BY DEF StopListening, Stop, ShutdownReturns, ConnClose, Fate
  <1>2. CASE StopListening
    <2>1. pc = "waiting" /\ pc' = "draining" /\ stl' = cfg.ShutdownTimeout BY <1>2 DEF StopListening, Stop
    <2>2. Stage = "up" /\ Stage' = "stopping" /\ TimeAllowed' = cfg.ShutdownTimeout BY <2>1 DEF Stage, TimeAllowed
    <2>3. Graceful!Stop BY <1>1, <2>2 DEF Graceful!Stop
    <2> QED BY <2>3 DEF GStep, Graceful!Next
  <1>3. CASE ShutdownReturns
    <2>1. pc = "draining" /\ pc' = "closing" /\ (Drained \/ stl = 0) BY <1>3 DEF ShutdownReturns
    <2>2. Stage = "stopping" /\ Stage' = "stopping" /\ TimeAllowed = stl /\ TimeAllowed' = 0
      BY <2>1 DEF Stage, TimeAllowed
    <2>3. CASE stl = 0 BY <1>1, <2>2, <2>3, Stutters
    <2>4. CASE stl # 0
      <3>1. stl > 0 BY <2>4
      <3>2. \A r \in Requests : Fate[r] \notin {"connected", "accepted"}
        BY <2>1, <2>4 DEF Drained, Active, Fate, FateOf
      <3>3. Graceful!Pass(0) BY <1>1, <2>2, <3>1 DEF Graceful!Pass
      <3>4. Graceful!GiveUpRest BY <3>2, <3>3 DEF Graceful!GiveUpRest
      <3> QED BY <3>4 DEF GStep, Graceful!Next
    <2> QED BY <2>3, <2>4
  <1>4. CASE ConnClose
    <2>1. pc = "closing" /\ pc' = "flushing" BY <1>4 DEF ConnClose
    <2>2. Stage' = Stage /\ TimeAllowed' = TimeAllowed BY <2>1 DEF Stage, TimeAllowed
    <2> QED BY <1>1, <2>2, Stutters
  <1> QED BY <1>2, <1>3, <1>4

\* Time passes for the promise only while Shutdown waits.
LEMMA TickFits == ASSUME IInv, Tick PROVE GStep
  <1> USE TimesAreNat
  <1>1. UNCHANGED <<cfg, pc, exit, req>> /\ Stage' = Stage /\ Fate' = Fate BY DEF Tick, Stage, Fate
  <1>2. CASE pc = "draining"
    <2>1. stl > 0 /\ stl' = stl - 1 BY <1>2 DEF Tick
    <2>2. Stage = "stopping" /\ TimeAllowed = stl /\ TimeAllowed' = stl - 1
      BY <1>1, <1>2, <2>1 DEF Stage, TimeAllowed
    <2>3. Graceful!Pass(TimeAllowed - 1) BY <1>1, <2>1, <2>2 DEF Graceful!Pass
    <2>4. Graceful!Tick BY <2>3 DEF Graceful!Tick
    <2> QED BY <2>4 DEF GStep, Graceful!Next
  <1>3. CASE pc # "draining"
    <2>1. TimeAllowed' = TimeAllowed BY <1>1, <1>3 DEF TimeAllowed
    <2> QED BY <1>1, <2>1, Stutters
  <1> QED BY <1>2, <1>3

\* Before the signal, and in the background.
LEMMA OtherFits ==
    ASSUME IInv, InitTracer \/ Dial \/ StartListener \/ Notify \/ Listen \/ ExportBatch \/ Terminated \/ UNCHANGED vars
    PROVE  GStep
  <1> USE DEF Goto, signals, requests, Others
  <1>1. UNCHANGED <<cfg, exit, stl, req>>
    BY DEF InitTracer, Dial, StartListener, Notify, Listen, ExportBatch, Terminated, vars
  <1>2. \/ pc' = pc
        \/ {pc, pc'} \subseteq {"boot", "traced", "dialled", "started", "waiting"}
    BY DEF InitTracer, Dial, StartListener, Notify, Listen, ExportBatch, Terminated, vars
  <1>3. Stage' = Stage /\ TimeAllowed' = TimeAllowed BY <1>1, <1>2 DEF Stage, TimeAllowed
  <1>4. Fate' = Fate BY <1>1 DEF Fate
  <1> QED BY <1>1, <1>3, <1>4, Stutters

LEMMA SIGTERMFits == ASSUME IInv, SIGTERM PROVE GStep
  <1>1. CASE pc \in {"boot", "traced", "dialled", "started"} BY <1>1, ExitFits DEF SIGTERM
  <1>2. CASE pc \notin {"boot", "traced", "dialled", "started"}
    <2>1. UNCHANGED <<cfg, pc, exit, stl, req>> BY <1>2 DEF SIGTERM, requests
    <2> QED BY <2>1, Stutters DEF Stage, TimeAllowed, Fate
  <1> QED BY <1>1, <1>2

\* A go-gateway process implements GracefulStop for any requests and timeouts: what it has accepted it
\* loses only when the shutdown timeout is over or when it is killed, and after the signal it
\* accepts nobody but who was connected (srv.Shutdown, conn.Close and the end of main).
THEOREM ImplementsGracefulStop == Spec => RefinesGracefulStop
  <1>1. ASSUME IInv, [Next]_vars PROVE [Graceful!Next]_(Graceful!vars)
    <2>1. CASE InitTracer \/ Dial \/ StartListener \/ Notify \/ Listen \/ ExportBatch \/ Terminated \/ UNCHANGED vars
      BY <1>1, <2>1, OtherFits DEF GStep
    <2>2. CASE StartupFails
      BY <1>1, <2>2, ExitFits DEF GStep, StartupFails, Running
    <2>3. CASE ListenFails
      BY <1>1, <2>3, ExitFits DEF GStep, ListenFails, Listening, Running
    <2>4. CASE TracerShutdown
      BY <1>1, <2>4, ExitFits DEF GStep, TracerShutdown, Running
    <2>5. CASE SIGKILL BY <1>1, <2>5, ExitFits DEF GStep, SIGKILL
    <2>6. CASE SIGTERM BY <1>1, <2>6, SIGTERMFits DEF GStep
    <2>7. CASE StopListening \/ ShutdownReturns \/ ConnClose BY <1>1, <2>7, ShutdownFits DEF GStep
    <2>8. ASSUME NEW r \in Requests, Request(r) PROVE [Graceful!Next]_(Graceful!vars)
      BY <1>1, <2>8, RequestFits DEF GStep
    <2>9. CASE Tick BY <1>1, <2>9, TickFits DEF GStep
    <2> QED
      BY <1>1, <2>1, <2>2, <2>3, <2>4, <2>5, <2>6, <2>7, <2>8, <2>9 DEF Next, Main
  <1>2. IInv /\ [Next]_vars => [Graceful!Next]_(Graceful!vars) BY <1>1
  <1>3. Spec => Graceful!Init /\ [][Graceful!Next]_(Graceful!vars)
    BY <1>2, GracefulInit, LifecycleInvariant, PTL DEF Spec
  <1> QED BY <1>3 DEF RefinesGracefulStop, Graceful!Spec
===============================================================================
