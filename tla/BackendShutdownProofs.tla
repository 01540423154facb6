------------------------ MODULE BackendShutdownProofs ------------------------
(* What a shutdown of python-ai grants its calls, for any number of calls and *)
(* workers and any times.                                                     *)
EXTENDS BackendShutdown, TLAPS

\* The times are natural numbers.
LEMMA TimesAreNat ==
    ASSUME IInv
    PROVE  /\ {Grace, KillAfter, ollamaTime} \subseteq Nat
           /\ {stl, sinceTerm} \subseteq Nat
           /\ \A c \in Calls : left[c] \in Nat /\ left[c] <= ollamaTime
  BY TimesAssumption DEF IInv, TypeOK

LEMMA InitIInv == Init => IInv
  <1> SUFFICES ASSUME Init PROVE IInv OBVIOUS
  <1>1. {Grace, KillAfter, ollamaTime} \subseteq Nat BY TimesAssumption DEF Init
  <1>2. TypeOK
    <2>1. ollamaTime \in OllamaTimes /\ {handled, flushed, term} \subseteq BOOLEAN BY DEF Init
    <2>2. stl \in 0 .. Grace /\ sinceTerm \in 0 .. KillAfter BY <1>1 DEF Init
    <2>3. left \in [Calls -> 0 .. ollamaTime] BY <1>1 DEF Init
    <2> QED BY <2>1, <2>2, <2>3 DEF Init, TypeOK
  <1>3. ServerInv /\ CallInv /\ ShutdownClock BY DEF Init, ServerInv, CallInv, ShutdownClock
  <1>4. GraceHonoured /\ NoCallLost /\ OnlyLostSignalsCostWork
    BY DEF Init, GraceHonoured, NoCallLost, OnlyLostSignalsCostWork
  <1> QED BY <1>2, <1>3, <1>4 DEF IInv

-----------------------------------------------------------------------------
(* The end of the process.                                                 *)

LEMMA ExitStep ==
    ASSUME IInv, NEW how \in {"clean", "sigkill"}, Exit(how),
           how = "clean" => \A c \in Calls : client[c] # "waiting",
           how = "sigkill" => (Grace + ollamaTime < KillAfter => stage = "serving" \/ Busy = {})
    PROVE  IInv'
  <1>1. /\ Running /\ exit' = how
        /\ UNCHANGED <<ollamaTime, stage, handled, flushed, stl, sinceTerm, term, worker, left>>
    BY DEF Exit
  <1>2. /\ client' \in [Calls -> {"none", "waiting", "own", "refused", "cancelled", "lost"}]
        /\ \A c \in Calls : client'[c] = IF client[c] = "waiting" THEN "lost" ELSE client[c]
    BY DEF Exit, IInv, TypeOK
  <1>3. TypeOK' BY <1>1, <1>2 DEF IInv, TypeOK
  <1>4. ServerInv' /\ ShutdownClock' BY <1>1 DEF IInv, ServerInv, ShutdownClock, Busy
  <1>5. CallInv' BY <1>1, <1>2 DEF IInv, CallInv, Running
  <1>6. GraceHonoured' BY <1>1, <1>2 DEF IInv, GraceHonoured
  <1>7. NoCallLost' BY <1>1, <1>2 DEF IInv, NoCallLost, CallInv
  <1>8. OnlyLostSignalsCostWork' BY <1>1 DEF OnlyLostSignalsCostWork, Busy
  <1> QED BY <1>3, <1>4, <1>5, <1>6, <1>7, <1>8 DEF IInv

\* The interpreter joins the workers, and whoever waits has one.
LEMMA CleanStep == ASSUME IInv, InterpreterExits PROVE IInv'
  <1>1. \A c \in Calls : client[c] # "waiting"
    BY DEF InterpreterExits, Joined, IInv, CallInv
  <1> QED BY <1>1, ExitStep DEF InterpreterExits

LEMMA SIGKILLStep == ASSUME IInv, SIGKILL PROVE IInv'
  <1> USE TimesAreNat
  <1>1. sinceTerm = KillAfter /\ Exit("sigkill") BY DEF SIGKILL
  <1>2. ASSUME Grace + ollamaTime < KillAfter, stage # "serving", NEW c \in Busy PROVE FALSE
    <2>1. c \in Calls /\ worker[c] = "running" BY DEF Busy
    <2>2. stage \in {"grace", "terminated"} BY <1>2, <2>1 DEF IInv, TypeOK, CallInv
    <2> QED BY <1>1, <1>2, <2>1, <2>2 DEF IInv, ShutdownClock
  <1> QED BY <1>1, <1>2, ExitStep

\* While the process runs, NoCallLost and OnlyLostSignalsCostWork promise nothing.
LEMMA RunningIsSafe ==
    ASSUME Running, exit' = exit
    PROVE  (NoCallLost /\ OnlyLostSignalsCostWork)'
  BY DEF Running, NoCallLost, OnlyLostSignalsCostWork

-----------------------------------------------------------------------------
(* The main thread.                                                        *)

LEMMA MainStep == ASSUME IInv, Start \/ HandlerStops \/ ProviderShutdown PROVE IInv'
  <1> USE TimesAreNat
  <1>1. Running /\ exit' = exit /\ UNCHANGED <<ollamaTime, sinceTerm, term, client, worker, left>>
    BY DEF Start, HandlerStops, Stop, ProviderShutdown, calls
  <1>2. \/ stage = "created" /\ stage' = "serving" /\ UNCHANGED <<handled, flushed, stl>>
        \/ stage = "serving" /\ stage' = "grace" /\ stl' = Grace /\ term /\ ~handled /\ handled' = TRUE /\ flushed' = flushed
        \/ UNCHANGED <<stage, stl>> /\ flushed' \in BOOLEAN /\ handled' \in BOOLEAN /\ (handled' => term) /\ (handled => handled')
    BY DEF Start, HandlerStops, Stop, ProviderShutdown, IInv, TypeOK, ServerInv
  <1>3. TypeOK'
    <2>1. stl' \in 0 .. Grace BY <1>2 DEF IInv, TypeOK
    <2>2. {handled', flushed', term'} \subseteq BOOLEAN BY <1>1, <1>2 DEF IInv, TypeOK
    <2> QED BY <1>1, <1>2, <2>1, <2>2 DEF IInv, TypeOK
  <1>4. ServerInv' BY <1>1, <1>2 DEF IInv, ServerInv
  <1>5. CallInv' BY <1>1, <1>2 DEF IInv, CallInv, Running
  <1>6. ShutdownClock'
    <2>1. CASE stage' = stage /\ stl' = stl BY <1>1, <2>1 DEF IInv, ShutdownClock, Busy
    <2>2. CASE stage' = "serving" BY <2>2 DEF ShutdownClock
    <2>3. CASE stage' = "grace" /\ stl' = Grace /\ ~handled
      <3>1. sinceTerm = 0 BY <2>3 DEF IInv, ServerInv
      <3>2. \A c \in Calls : sinceTerm + left[c] <= Grace + ollamaTime BY <3>1
      <3> QED BY <1>1, <2>3, <3>1, <3>2 DEF ShutdownClock, Busy
    <2> QED BY <1>2, <2>1, <2>2, <2>3
  <1>7. GraceHonoured' BY <1>1 DEF IInv, GraceHonoured
  <1> QED BY <1>1, <1>3, <1>4, <1>5, <1>6, <1>7, RunningIsSafe DEF IInv

LEMMA TerminateStep == ASSUME IInv, ServerTerminates PROVE IInv'
  <1>1. /\ Running /\ stage = "grace" /\ Pending = {} /\ stage' = "terminated"
        /\ UNCHANGED <<ollamaTime, handled, flushed, exit, stl, sinceTerm, term, client, worker, left>>
    BY DEF ServerTerminates, calls
  <1>2. TypeOK' /\ ServerInv' BY <1>1 DEF IInv, TypeOK, ServerInv
  <1>3. CallInv' BY <1>1 DEF IInv, CallInv, Running, Pending
  <1>4. ShutdownClock' /\ GraceHonoured' BY <1>1 DEF IInv, ShutdownClock, GraceHonoured, Busy
  <1> QED BY <1>1, <1>2, <1>3, <1>4, RunningIsSafe DEF IInv

-----------------------------------------------------------------------------
(* Calls and workers.                                                      *)

\* A step of one call keeps the invariant when it keeps what it says of this call.
LEMMA CallStep ==
    ASSUME IInv, Running, NEW c \in Calls,
           UNCHANGED <<ollamaTime, stage, handled, flushed, exit, stl, sinceTerm, term>>,
           NEW status \in {"none", "waiting", "own", "refused", "cancelled"},
           NEW work \in {"none", "queued", "running", "done"},
           status = "none" => work = "none",
           NEW time \in 0 .. ollamaTime,
           client' = [client EXCEPT ![c] = status],
           worker' = [worker EXCEPT ![c] = work],
           left' = [left EXCEPT ![c] = time],
           stage \in {"serving", "grace", "terminated"},
           status = "cancelled" => client[c] = "cancelled",
           status = "waiting" => stage # "terminated" /\ work \in {"queued", "running"},
           work = "running" /\ stage \in {"grace", "terminated"} => sinceTerm + time <= Grace + ollamaTime
    PROVE  IInv'
  <1>1. TypeOK' BY DEF IInv, TypeOK
  <1>2. \A d \in Calls : /\ client'[d] = IF d = c THEN status ELSE client[d]
                         /\ worker'[d] = IF d = c THEN work ELSE worker[d]
                         /\ left'[d] = IF d = c THEN time ELSE left[d]
    BY DEF IInv, TypeOK
  <1>3. ServerInv' BY DEF IInv, ServerInv
  <1>4. CallInv' BY <1>2 DEF IInv, CallInv, Running
  <1>5. ShutdownClock' BY <1>2 DEF IInv, ShutdownClock, Busy
  <1>6. GraceHonoured' BY <1>2 DEF IInv, GraceHonoured
  <1> QED BY <1>1, <1>3, <1>4, <1>5, <1>6, RunningIsSafe DEF IInv


LEMMA ArriveStep == ASSUME IInv, NEW c \in Calls, Arrive(c) PROVE IInv'
  <1> USE TimesAreNat
  <1>1. /\ Running /\ stage \in {"serving", "grace"}
        /\ UNCHANGED <<ollamaTime, stage, handled, flushed, exit, stl, sinceTerm, term>>
    BY DEF Arrive, main
  <1>2. worker[c] = "none" BY DEF Arrive, IInv, CallInv
  <1>3. PICK status \in {"waiting", "refused"}, work \in {"none", "queued"} :
          /\ client' = [client EXCEPT ![c] = status]
          /\ worker' = [worker EXCEPT ![c] = work]
          /\ status = "waiting" => work = "queued"
    BY <1>2 DEF Arrive, IInv, TypeOK
  <1>4. PICK time \in 0 .. ollamaTime : left' = [left EXCEPT ![c] = time]
    <2>1. left' = [left EXCEPT ![c] = left[c]] /\ left[c] \in 0 .. ollamaTime
      BY DEF Arrive, IInv, TypeOK
    <2> QED BY <2>1
  <1> QED BY <1>1, <1>3, <1>4, CallStep

\* Nobody waits when the server has terminated, so a worker starts with the grace period at hand.
LEMMA TakeStep == ASSUME IInv, NEW c \in Calls, Take(c) PROVE IInv'
  <1> USE TimesAreNat
  <1>1. /\ Running
        /\ UNCHANGED <<ollamaTime, stage, handled, flushed, exit, stl, sinceTerm, term>>
    BY DEF Take, main
  <1>2. stage \in {"serving", "grace", "terminated"} /\ client[c] \notin {"none", "lost"}
    BY <1>1 DEF Take, IInv, TypeOK, CallInv
  <1>3. PICK status \in {"waiting", "own", "refused", "cancelled"} :
          client[c] = status /\ client' = [client EXCEPT ![c] = status]
    BY <1>2 DEF Take, IInv, TypeOK
  <1>4. CASE client[c] = "waiting"
    <2>1. worker' = [worker EXCEPT ![c] = "running"] /\ left' = [left EXCEPT ![c] = ollamaTime]
      BY <1>4 DEF Take
    <2>2. stage # "terminated" /\ (stage = "grace" => sinceTerm <= Grace)
      BY <1>4 DEF IInv, CallInv, ShutdownClock
    <2>3. ollamaTime \in 0 .. ollamaTime /\ (stage = "grace" => sinceTerm + ollamaTime <= Grace + ollamaTime)
      BY <2>2
    <2> QED BY <1>1, <1>2, <1>3, <2>1, <2>2, <2>3, CallStep
  <1>5. CASE client[c] # "waiting"
    <2>1. PICK time \in 0 .. ollamaTime : left' = [left EXCEPT ![c] = time]
      <3>1. left' = [left EXCEPT ![c] = left[c]] /\ left[c] \in 0 .. ollamaTime
        BY <1>5 DEF Take, IInv, TypeOK
      <3> QED BY <3>1
    <2>2. worker' = [worker EXCEPT ![c] = "done"] BY <1>5 DEF Take
    <2> QED BY <1>1, <1>2, <1>3, <1>5, <2>1, <2>2, CallStep
  <1> QED BY <1>4, <1>5

LEMMA ReturnStep == ASSUME IInv, NEW c \in Calls, WorkerReturns(c) PROVE IInv'
  <1> USE TimesAreNat
  <1>1. /\ Running /\ worker' = [worker EXCEPT ![c] = "done"]
        /\ UNCHANGED <<ollamaTime, stage, handled, flushed, exit, stl, sinceTerm, term>>
    BY DEF WorkerReturns, main
  <1>2. stage \in {"serving", "grace", "terminated"} /\ client[c] \notin {"none", "lost"}
    BY <1>1 DEF WorkerReturns, IInv, TypeOK, CallInv
  <1>3. PICK status \in {"own", "refused", "cancelled"} :
          /\ client' = [client EXCEPT ![c] = status]
          /\ status = "cancelled" => client[c] = "cancelled"
    BY <1>2 DEF WorkerReturns, IInv, TypeOK
  <1>4. PICK time \in 0 .. ollamaTime : left' = [left EXCEPT ![c] = time]
    <2>1. left' = [left EXCEPT ![c] = left[c]] /\ left[c] \in 0 .. ollamaTime
      BY DEF WorkerReturns, IInv, TypeOK
    <2> QED BY <2>1
  <1> QED BY <1>1, <1>2, <1>3, <1>4, CallStep

\* cancel_all_calls comes when the whole grace period has gone by.
LEMMA CancelStep == ASSUME IInv, GraceOver PROVE IInv'
  <1> USE TimesAreNat
  <1>1. /\ Running /\ stage = "grace" /\ stl = 0
        /\ UNCHANGED <<ollamaTime, stage, handled, flushed, exit, stl, sinceTerm, term, worker, left>>
    BY DEF GraceOver, main
  <1>2. /\ client' \in [Calls -> {"none", "waiting", "own", "refused", "cancelled", "lost"}]
        /\ \A c \in Calls : client'[c] = IF client[c] = "waiting" THEN "cancelled" ELSE client[c]
    BY DEF GraceOver, Pending, IInv, TypeOK
  <1>3. TypeOK' /\ ServerInv' /\ ShutdownClock'
    BY <1>1, <1>2 DEF IInv, TypeOK, ServerInv, ShutdownClock, Busy
  <1>4. CallInv' BY <1>1, <1>2 DEF IInv, CallInv, Running
  <1>5. GraceHonoured'
    <2>1. sinceTerm = Grace BY <1>1 DEF IInv, ShutdownClock
    <2> QED BY <1>1, <2>1 DEF GraceHonoured
  <1> QED BY <1>1, <1>3, <1>4, <1>5, RunningIsSafe DEF IInv

-----------------------------------------------------------------------------
(* Time.                                                                   *)

LEMMA TickStep == ASSUME IInv, Tick PROVE IInv'
  <1> USE TimesAreNat
  <1>1. /\ Running
        /\ term => handled /\ sinceTerm < KillAfter
        /\ stage = "grace" => stl # 0
        /\ \A c \in Busy : left[c] > 0
        /\ stl' = IF stl > 0 THEN stl - 1 ELSE 0
        /\ sinceTerm' = IF term THEN sinceTerm + 1 ELSE sinceTerm
        /\ UNCHANGED <<ollamaTime, stage, handled, flushed, exit, term, client, worker>>
    BY DEF Tick, Less
  <1>2. \A c \in Calls : left'[c] = IF left[c] > 0 THEN left[c] - 1 ELSE 0
    BY DEF Tick, Less
  <1>3. TypeOK'
    <2>1. stl' \in 0 .. Grace /\ sinceTerm' \in 0 .. KillAfter BY <1>1 DEF IInv, TypeOK
    <2>2. left' \in [Calls -> 0 .. ollamaTime]
      <3>1. left' = [c \in Calls |-> IF left[c] > 0 THEN left[c] - 1 ELSE 0] BY DEF Tick, Less
      <3> QED BY <3>1
    <2> QED BY <1>1, <2>1, <2>2 DEF IInv, TypeOK
  <1>4. ServerInv' /\ CallInv' BY <1>1 DEF IInv, ServerInv, CallInv, Running
  <1>5. ShutdownClock'
    <2>1. stage \in {"grace", "terminated"} => sinceTerm' = sinceTerm + 1
      BY <1>1 DEF IInv, ServerInv
    <2>2. stage = "grace" => sinceTerm' + stl' = Grace
      BY <1>1, <2>1 DEF IInv, ShutdownClock
    <2>3. ASSUME stage \in {"grace", "terminated"}, NEW c \in Busy
          PROVE  sinceTerm' + left'[c] <= Grace + ollamaTime
      <3>1. c \in Calls /\ left[c] > 0 /\ sinceTerm + left[c] <= Grace + ollamaTime
        BY <1>1, <2>3 DEF Busy, IInv, ShutdownClock
      <3>2. left'[c] = left[c] - 1 BY <1>2, <3>1
      <3> QED BY <2>1, <2>3, <3>1, <3>2
    <2> QED BY <1>1, <2>2, <2>3 DEF ShutdownClock, Busy
  <1>6. GraceHonoured' BY <1>1 DEF IInv, GraceHonoured
  <1> QED BY <1>1, <1>3, <1>4, <1>5, <1>6, RunningIsSafe DEF IInv

\* Steps that change no more than term.
LEMMA QuietStep == ASSUME IInv, SIGTERM \/ Ended \/ UNCHANGED vars PROVE IInv'
  <1>1. /\ UNCHANGED <<ollamaTime, stage, handled, flushed, exit, stl, sinceTerm, client, worker, left>>
        /\ term' \in {term, TRUE}
    BY DEF SIGTERM, Ended, vars, main, calls
  <1>2. TypeOK' BY <1>1 DEF IInv, TypeOK
  <1>3. ServerInv' /\ CallInv' /\ ShutdownClock'
    BY <1>1 DEF IInv, ServerInv, CallInv, ShutdownClock, Running, Busy
  <1>4. (GraceHonoured /\ NoCallLost /\ OnlyLostSignalsCostWork)'
    BY <1>1 DEF IInv, GraceHonoured, NoCallLost, OnlyLostSignalsCostWork, Busy
  <1> QED BY <1>2, <1>3, <1>4 DEF IInv

-----------------------------------------------------------------------------
(* The theorems.                                                           *)

LEMMA StepIInv == IInv /\ [Next]_vars => IInv'
  <1> SUFFICES ASSUME IInv, [Next]_vars PROVE IInv' OBVIOUS
  <1>1. CASE Start \/ HandlerStops \/ ProviderShutdown BY <1>1, MainStep
  <1>2. CASE InterpreterExits BY <1>2, CleanStep
  <1>3. ASSUME NEW c \in Calls, Arrive(c) \/ Take(c) \/ WorkerReturns(c) PROVE IInv'
    BY <1>3, ArriveStep, TakeStep, ReturnStep
  <1>4. CASE GraceOver BY <1>4, CancelStep
  <1>5. CASE ServerTerminates BY <1>5, TerminateStep
  <1>6. CASE SIGKILL BY <1>6, SIGKILLStep
  <1>7. CASE Tick BY <1>7, TickStep
  <1>8. CASE SIGTERM \/ Ended \/ UNCHANGED vars BY <1>8, QuietStep
  <1> QED BY <1>1, <1>2, <1>3, <1>4, <1>5, <1>6, <1>7, <1>8 DEF Next

\* The strengthening holds in every reachable state, for any calls, workers and times
\* (main.py, and the signal handler of server.py).
THEOREM ShutdownInvariant == Spec => []IInv
  BY InitIInv, StepIInv, PTL DEF Spec

\* Type correctness of BackendShutdown for every value of the constants.
THEOREM ShutdownTypes == Spec => []TypeOK
  <1>1. IInv => TypeOK BY DEF IInv
  <1> QED BY <1>1, ShutdownInvariant, PTL

\* No call is cancelled before the grace period of server.stop is over.
THEOREM CallsKeepGrace == Spec => []GraceHonoured
  <1>1. IInv => GraceHonoured BY DEF IInv
  <1> QED BY <1>1, ShutdownInvariant, PTL

\* A process that ends by itself leaves no call without a status.
THEOREM NoCallIsLost == Spec => []NoCallLost
  <1>1. IInv => NoCallLost BY DEF IInv
  <1> QED BY <1>1, ShutdownInvariant, PTL

\* Where grace and the longest call to Ollama fit into the pod's period, SIGKILL ends no
\* worker's call, but for a server that was signalled before it was started.
THEOREM OnlyLostSignalsCost == Spec => []OnlyLostSignalsCostWork
  <1>1. IInv => OnlyLostSignalsCostWork BY DEF IInv
  <1> QED BY <1>1, ShutdownInvariant, PTL

-----------------------------------------------------------------------------
(* The process keeps the promise of GracefulStop.                          *)

GStep == [Graceful!Next]_(Graceful!vars)

LEMMA GracefulInit == Init => Graceful!Init
  <1> SUFFICES ASSUME Init PROVE Graceful!Init OBVIOUS
  <1>1. StopStage = "up" /\ TimeAllowed = 0 BY DEF Init, StopStage, TimeAllowed, Running
  <1>2. Grace \in Nat BY TimesAssumption
  <1>3. Fate = [c \in Calls |-> "none"] BY DEF Init, Fate, FateOf
  <1> QED BY <1>1, <1>2, <1>3 DEF Graceful!Init

\* A step that changes nothing the promise speaks of.
LEMMA Stutters ==
    ASSUME StopStage' = StopStage, TimeAllowed' = TimeAllowed, Fate' = Fate
    PROVE  GStep
  BY DEF GStep, Graceful!vars

\* The end of the process by how.
LEMMA ExitFits ==
    ASSUME IInv, NEW how \in {"clean", "sigkill"}, Exit(how), how = "clean" => stage = "terminated"
    PROVE  GStep
  <1>1. Running /\ exit' = how /\ stage' = stage BY DEF Exit
  <1>2. \A c \in Calls : client'[c] = IF client[c] = "waiting" THEN "lost" ELSE client[c]
    BY DEF Exit
  <1>3. Fate' = [c \in Calls |-> IF Fate[c] = "connected" THEN "refused" ELSE Graceful!Lost(Calls)[c]]
    <2>1. ASSUME NEW c \in Calls
          PROVE  FateOf(client'[c]) = IF Fate[c] = "connected" THEN "refused" ELSE Graceful!Lost(Calls)[c]
      <3>1. Graceful!Lost(Calls)[c] = IF Fate[c] = "accepted" THEN "lost" ELSE Fate[c]
        BY DEF Graceful!Lost
      <3>2. Fate[c] = FateOf(client[c]) BY DEF Fate
      <3>3. client[c] \in {"none", "waiting", "own", "refused", "cancelled", "lost"} BY DEF IInv, TypeOK
      <3>4. CASE client[c] = "waiting" BY <1>2, <3>1, <3>2, <3>4 DEF FateOf
      <3>5. CASE client[c] # "waiting"
        <4>1. client'[c] = client[c] BY <1>2, <3>5
        <4>2. FateOf(client[c]) \notin {"connected", "accepted"} BY <3>3, <3>5 DEF FateOf
        <4> QED BY <3>1, <3>2, <4>1, <4>2
      <3> QED BY <3>4, <3>5
    <2> QED BY <2>1 DEF Fate
  <1>4. TimeAllowed' = 0 BY <1>1 DEF TimeAllowed, Running
  <1>5. CASE how = "clean"
    <2>1. StopStage = "stopping" /\ TimeAllowed = 0 /\ StopStage' = "gone"
      BY <1>1, <1>5 DEF StopStage, TimeAllowed, Running
    <2>2. Graceful!Exit BY <1>3, <1>4, <2>1 DEF Graceful!Exit, Graceful!End
    <2> QED BY <2>2 DEF GStep, Graceful!Next
  <1>6. CASE how = "sigkill"
    <2>1. StopStage \in {"up", "stopping"} /\ StopStage' = "killed" BY <1>1, <1>6 DEF StopStage, Running
    <2>2. Graceful!Kill BY <1>3, <1>4, <2>1 DEF Graceful!Kill, Graceful!Alive, Graceful!End
    <2> QED BY <2>2 DEF GStep, Graceful!Next
  <1> QED BY <1>5, <1>6

\* A step of one call is the step of one task.
LEMMA CallMoves ==
    ASSUME IInv, NEW c \in Calls, Running, NEW to, client' = [client EXCEPT ![c] = to],
           UNCHANGED <<stage, exit, stl>>
    PROVE  /\ Graceful!Alive
           /\ Fate[c] = FateOf(client[c]) /\ Fate' = [Fate EXCEPT ![c] = FateOf(to)]
           /\ UNCHANGED <<StopStage, Grace, TimeAllowed>>
  <1>1. StopStage' = StopStage /\ TimeAllowed' = TimeAllowed BY DEF StopStage, TimeAllowed, Running
  <1>2. Graceful!Alive BY DEF Graceful!Alive, StopStage, Running
  <1>3. \A d \in Calls : client'[d] = IF d = c THEN to ELSE client[d] BY DEF IInv, TypeOK
  <1>4. Fate' = [Fate EXCEPT ![c] = FateOf(to)]
    <2>1. Fate' = [d \in Calls |-> FateOf(client'[d])] BY DEF Fate
    <2>2. \A d \in Calls : FateOf(client'[d]) = IF d = c THEN FateOf(to) ELSE FateOf(client[d])
      <3>1. ASSUME NEW d \in Calls, d = c PROVE FateOf(client'[d]) = FateOf(to) BY <1>3, <3>1
      <3>2. ASSUME NEW d \in Calls, d # c PROVE FateOf(client'[d]) = FateOf(client[d]) BY <1>3, <3>2
      <3> QED BY <3>1, <3>2
    <2> QED BY <2>1, <2>2 DEF Fate
  <1> QED BY <1>1, <1>2, <1>4 DEF Fate

LEMMA CallFits == ASSUME IInv, NEW c \in Calls, Arrive(c) \/ Take(c) \/ WorkerReturns(c) PROVE GStep
  <1> USE DEF main
  <1>1. Running /\ UNCHANGED <<stage, exit, stl>> BY DEF Arrive, Take, WorkerReturns
  <1>2. CASE Arrive(c)
    <2>1. client[c] = "none" BY <1>2 DEF Arrive
    <2>2. FateOf("none") = "none" /\ FateOf("waiting") = "accepted" /\ FateOf("refused") = "refused"
      BY DEF FateOf
    <2>3. CASE stage = "serving"
      <3>1. client' = [client EXCEPT ![c] = "waiting"] BY <1>2, <2>3 DEF Arrive
      <3>2. /\ Graceful!Alive /\ Fate[c] = FateOf(client[c]) /\ Fate' = [Fate EXCEPT ![c] = FateOf("waiting")]
            /\ UNCHANGED <<StopStage, Grace, TimeAllowed>>
        BY <1>1, <3>1, CallMoves, Zenon
      <3>3. StopStage = "up" BY <1>1, <2>3 DEF StopStage, Running
      <3>4. Graceful!Move(c, {"none", "connected"}, "accepted")
        BY <2>1, <2>2, <3>2 DEF Graceful!Move
      <3>5. Graceful!Accept(c) BY <3>3, <3>4 DEF Graceful!Accept
      <3> QED BY <3>5 DEF GStep, Graceful!Next
    <2>4. CASE stage # "serving"
      <3>1. client' = [client EXCEPT ![c] = "refused"] BY <1>2, <2>4 DEF Arrive
      <3>2. /\ Graceful!Alive /\ Fate[c] = FateOf(client[c]) /\ Fate' = [Fate EXCEPT ![c] = FateOf("refused")]
            /\ UNCHANGED <<StopStage, Grace, TimeAllowed>>
        BY <1>1, <3>1, CallMoves, Zenon
      <3>3. Graceful!Refuse(c) BY <2>1, <2>2, <3>2 DEF Graceful!Refuse, Graceful!Move
      <3> QED BY <3>3 DEF GStep, Graceful!Next
    <2> QED BY <2>3, <2>4
  <1>3. CASE client' = client
    BY <1>1, <1>3, Stutters DEF StopStage, TimeAllowed, Fate, Running
  <1>4. CASE WorkerReturns(c) /\ client' # client
    <2>1. client[c] = "waiting" /\ client' = [client EXCEPT ![c] = "own"] BY <1>4 DEF WorkerReturns
    <2>2. FateOf("waiting") = "accepted" /\ FateOf("own") = "finished" BY DEF FateOf
    <2>3. /\ Graceful!Alive /\ Fate[c] = FateOf(client[c]) /\ Fate' = [Fate EXCEPT ![c] = FateOf("own")]
          /\ UNCHANGED <<StopStage, Grace, TimeAllowed>>
      BY <1>1, <2>1, CallMoves, Zenon
    <2>4. Graceful!Finish(c) BY <2>1, <2>2, <2>3 DEF Graceful!Finish, Graceful!Move
    <2> QED BY <2>4 DEF GStep, Graceful!Next
  <1> QED BY <1>2, <1>3, <1>4 DEF Take

\* The server: the stop begins, it cancels whom it has waited for, it terminates.
LEMMA ServerFits == ASSUME IInv, HandlerStops \/ GraceOver \/ ServerTerminates PROVE GStep
  <1> USE TimesAreNat DEF main, calls
  <1>1. Running /\ exit' = exit BY DEF HandlerStops, Stop, GraceOver, ServerTerminates
  <1>2. CASE HandlerStops /\ stage # "serving"
    BY <1>1, <1>2, Stutters DEF HandlerStops, Stop, StopStage, TimeAllowed, Fate, Running
  <1>3. CASE HandlerStops /\ stage = "serving"
    <2>1. stage = "serving" /\ stage' = "grace" /\ stl' = Grace /\ client' = client
      BY <1>3 DEF HandlerStops, Stop
    <2>2. StopStage = "up" /\ StopStage' = "stopping" /\ TimeAllowed' = Grace /\ Fate' = Fate
      BY <1>1, <2>1 DEF StopStage, TimeAllowed, Fate, Running
    <2>3. Graceful!Stop BY <2>2 DEF Graceful!Stop
    <2> QED BY <2>3 DEF GStep, Graceful!Next
  <1>4. CASE GraceOver
    <2>1. /\ stage = "grace" /\ stage' = stage /\ stl = 0 /\ stl' = stl
          /\ \A c \in Calls : client'[c] = IF client[c] = "waiting" THEN "cancelled" ELSE client[c]
      BY <1>4 DEF GraceOver, Pending
    <2>2. StopStage = "stopping" /\ StopStage' = StopStage /\ TimeAllowed = 0 /\ TimeAllowed' = TimeAllowed
      BY <1>1, <2>1 DEF StopStage, TimeAllowed, Running
    <2>3. Fate' = Graceful!Lost(Calls)
      <3>1. ASSUME NEW c \in Calls PROVE FateOf(client'[c]) = IF Fate[c] = "accepted" THEN "lost" ELSE Fate[c]
        <4>1. Fate[c] = FateOf(client[c]) BY DEF Fate
        <4>2. client[c] \in {"none", "waiting", "own", "refused", "cancelled", "lost"} BY DEF IInv, TypeOK
        <4>3. CASE client[c] = "waiting" BY <2>1, <4>1, <4>3 DEF FateOf
        <4>4. CASE client[c] # "waiting"
          <5>1. client'[c] = client[c] BY <2>1, <4>4
          <5>2. FateOf(client[c]) # "accepted" BY <4>2, <4>4 DEF FateOf
          <5> QED BY <4>1, <5>1, <5>2
        <4> QED BY <4>3, <4>4
      <3> QED BY <3>1 DEF Graceful!Lost, Fate
    <2>4. Calls \in SUBSET Calls OBVIOUS
    <2>5. Graceful!Lose BY <2>2, <2>3, <2>4 DEF Graceful!Lose
    <2> QED BY <2>5 DEF GStep, Graceful!Next
  <1>5. CASE ServerTerminates
    <2>1. stage = "grace" /\ Pending = {} /\ stage' = "terminated" /\ client' = client
      BY <1>5 DEF ServerTerminates
    <2>2. /\ StopStage = "stopping" /\ StopStage' = StopStage
          /\ TimeAllowed = stl /\ TimeAllowed' = 0 /\ Fate' = Fate
      BY <1>1, <2>1 DEF StopStage, TimeAllowed, Fate, Running
    <2>3. CASE stl = 0 BY <2>2, <2>3, Stutters
    <2>4. CASE stl # 0
      <3>1. stl > 0 BY <2>4
      <3>2. ASSUME NEW c \in Calls PROVE Fate[c] \notin {"connected", "accepted"}
        <4>1. client[c] \in {"none", "own", "refused", "cancelled", "lost"} BY <2>1 DEF Pending, IInv, TypeOK
        <4> QED BY <4>1 DEF Fate, FateOf
      <3>3. Graceful!Pass(0) BY <2>2, <3>1 DEF Graceful!Pass
      <3>4. Graceful!GiveUpRest BY <3>2, <3>3 DEF Graceful!GiveUpRest
      <3> QED BY <3>4 DEF GStep, Graceful!Next
    <2> QED BY <2>3, <2>4
  <1> QED BY <1>2, <1>3, <1>4, <1>5

LEMMA TickFits == ASSUME IInv, Tick PROVE GStep
  <1> USE TimesAreNat
  <1>1. /\ Running /\ stl' = IF stl > 0 THEN stl - 1 ELSE 0
        /\ UNCHANGED <<stage, exit, client>>
        /\ stage = "grace" => stl # 0
    BY DEF Tick, Less
  <1>2. StopStage' = StopStage /\ Fate' = Fate BY <1>1 DEF StopStage, Fate, Running
  <1>3. CASE stage = "grace"
    <2>1. stl > 0 /\ stl' = stl - 1 BY <1>1, <1>3
    <2>2. StopStage = "stopping" /\ TimeAllowed = stl /\ TimeAllowed' = stl - 1
      BY <1>1, <1>3, <2>1 DEF StopStage, TimeAllowed, Running
    <2>3. Graceful!Pass(TimeAllowed - 1) BY <1>2, <2>1, <2>2 DEF Graceful!Pass
    <2>4. Graceful!Tick BY <2>3 DEF Graceful!Tick
    <2> QED BY <2>4 DEF GStep, Graceful!Next
  <1>4. CASE stage # "grace"
    <2>1. TimeAllowed' = TimeAllowed BY <1>1, <1>4 DEF TimeAllowed
    <2> QED BY <1>2, <2>1, Stutters
  <1> QED BY <1>3, <1>4

LEMMA OtherFits ==
    ASSUME IInv, Start \/ ProviderShutdown \/ SIGTERM \/ Ended \/ UNCHANGED vars
    PROVE  GStep
  <1> USE DEF main, calls
  <1>1. UNCHANGED <<exit, stl, client>> BY DEF Start, ProviderShutdown, SIGTERM, Ended, vars
  <1>2. stage' = stage \/ (stage = "created" /\ stage' = "serving")
    BY DEF Start, ProviderShutdown, SIGTERM, Ended, vars
  <1>3. StopStage' = StopStage /\ TimeAllowed' = TimeAllowed
    BY <1>1, <1>2 DEF StopStage, TimeAllowed, Running
  <1>4. Fate' = Fate BY <1>1 DEF Fate
  <1> QED BY <1>3, <1>4, Stutters

\* A python-ai process implements GracefulStop for any calls, workers and times: no call that was taken
\* is lost before the grace period of server.stop is over, unless SIGKILL comes, and none is
\* taken after it began (the signal handler of server.py, wait_for_termination, the exit).
THEOREM ImplementsGracefulStop == Spec => RefinesGracefulStop
  <1>1. ASSUME IInv, [Next]_vars PROVE [Graceful!Next]_(Graceful!vars)
    <2>1. CASE Start \/ ProviderShutdown \/ SIGTERM \/ Ended \/ UNCHANGED vars
      BY <1>1, <2>1, OtherFits DEF GStep
    <2>2. CASE HandlerStops \/ GraceOver \/ ServerTerminates BY <1>1, <2>2, ServerFits DEF GStep
    <2>3. CASE InterpreterExits BY <1>1, <2>3, ExitFits DEF GStep, InterpreterExits, Joined
    <2>4. CASE SIGKILL BY <1>1, <2>4, ExitFits DEF GStep, SIGKILL
    <2>5. ASSUME NEW c \in Calls, Arrive(c) \/ Take(c) \/ WorkerReturns(c)
          PROVE  [Graceful!Next]_(Graceful!vars)
      BY <1>1, <2>5, CallFits DEF GStep
    <2>6. CASE Tick BY <1>1, <2>6, TickFits DEF GStep
    <2> QED BY <1>1, <2>1, <2>2, <2>3, <2>4, <2>5, <2>6 DEF Next
  <1>2. IInv /\ [Next]_vars => [Graceful!Next]_(Graceful!vars) BY <1>1
  <1>3. Spec => Graceful!Init /\ [][Graceful!Next]_(Graceful!vars)
    BY <1>2, GracefulInit, ShutdownInvariant, PTL DEF Spec
  <1> QED BY <1>3 DEF RefinesGracefulStop, Graceful!Spec
==============================================================================
