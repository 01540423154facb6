------------------------- MODULE RequestDeadlinesProofs -------------------------
(***************************************************************************)
(* For every environment, width of a duration and headroom: a request's    *)
(* clocks keep their types, and where GuardSuffices no answer is cut off.   *)
(***************************************************************************)
EXTENDS RequestDeadlines, TLAPS

-----------------------------------------------------------------------------
(* config.Load.                                                            *)

\* The sum of two durations is a duration, and exact when it does not wrap.
LEMMA PlusFacts ==
  ASSUME NEW a \in Duration, NEW b \in Duration
  PROVE  /\ Plus(a, b) \in Duration
         /\ a + b \in Duration => Plus(a, b) = a + b
  BY HalfWordAssumption DEF Plus, Duration

\* Whatever a variable holds, a setting is a duration.
LEMMA SettingType ==
  ASSUME NEW env \in [Settings -> EnvValue], NEW key \in Settings
  PROVE  GetEnvDuration(env[key], Defaults[key]) \in Duration
<1>1. env[key] \in EnvValue /\ Defaults[key] \in Duration
  BY DefaultsAssumption
<1>. QED BY <1>1 DEF GetEnvDuration, EnvValue

\* The guard on HTTP_WRITE_TIMEOUT: zero stays, and any other sum covers the model timeout.
LEMMA RaisedFacts ==
  ASSUME NEW write \in Duration, NEW model \in Duration
  PROVE  /\ Raised(write, model) \in Duration
         /\ model \in 0 .. HalfWord - 1 - Headroom /\ Raised(write, model) > 0
              => Raised(write, model) >= model + Headroom
<1>1. Plus(model, Headroom) \in Duration
  BY PlusFacts, HeadroomAssumption
<1>2. model \in 0 .. HalfWord - 1 - Headroom => Plus(model, Headroom) = model + Headroom
  BY PlusFacts, HeadroomAssumption, HalfWordAssumption DEF Duration
<1>. QED BY <1>1, <1>2, HeadroomAssumption, HalfWordAssumption DEF Raised, Duration

\* The guard is exact: a positive write timeout becomes the larger of itself and the model timeout
\* with its headroom when their sum is a duration, and is left as it is when the sum wraps;
\* zero and negative ones, which switch the deadline off, always stay (the last lines of Load).
THEOREM GuardIsExact ==
  ASSUME NEW write \in Duration, NEW model \in Duration
  PROVE  /\ write <= 0 => Raised(write, model) = write
         /\ model + Headroom >= HalfWord => Raised(write, model) = write
         /\ model + Headroom < HalfWord /\ write > 0
              => /\ Raised(write, model) \in {write, model + Headroom}
                 /\ Raised(write, model) >= write /\ Raised(write, model) >= model + Headroom
<1>1. HalfWord \in Nat /\ Headroom \in Nat /\ Headroom < HalfWord /\ {write, model} \subseteq Int
  BY HeadroomAssumption, HalfWordAssumption DEF Duration
<1>2. write <= 0 => Raised(write, model) = write
  BY <1>1 DEF Raised
<1>3. ASSUME model + Headroom >= HalfWord PROVE Raised(write, model) = write
  <2>1. Plus(model, Headroom) = model + Headroom - 2 * HalfWord
    BY <1>3 DEF Plus
  <2>2. Plus(model, Headroom) < 0 /\ Plus(model, Headroom) \in Int
    BY <1>1, <2>1 DEF Duration
  <2>. QED BY <1>1, <2>2 DEF Raised
<1>4. ASSUME model + Headroom < HalfWord, write > 0
      PROVE  /\ Raised(write, model) \in {write, model + Headroom}
             /\ Raised(write, model) >= write /\ Raised(write, model) >= model + Headroom
  <2>1. Plus(model, Headroom) = model + Headroom
    BY <1>1, <1>4 DEF Plus, Duration
  <2>. QED BY <1>1, <1>4, <2>1 DEF Raised
<1>. QED BY <1>2, <1>3, <1>4

\* What Load returns: durations, whatever the environment holds.
LEMMA LoadFacts ==
  ASSUME NEW env \in [Settings -> EnvValue]
  PROVE  /\ Load(env) \in [Settings -> Duration]
         /\ Load(env)["MODEL_TIMEOUT"] \in 0 .. HalfWord - 1 - Headroom /\ Load(env)["HTTP_WRITE_TIMEOUT"] > 0
              => Load(env)["HTTP_WRITE_TIMEOUT"] >= Load(env)["MODEL_TIMEOUT"] + Headroom
<1>. DEFINE Read(key) == GetEnvDuration(env[key], Defaults[key])
<1>1. \A key \in Settings : Read(key) \in Duration
  BY SettingType
<1>2. /\ "HTTP_WRITE_TIMEOUT" \in Settings /\ "MODEL_TIMEOUT" \in Settings
  BY DEF Settings
<1>3. Raised(Read("HTTP_WRITE_TIMEOUT"), Read("MODEL_TIMEOUT")) \in Duration
  BY <1>1, <1>2, RaisedFacts
<1>4. /\ Load(env)["MODEL_TIMEOUT"] = Read("MODEL_TIMEOUT")
      /\ Load(env)["HTTP_WRITE_TIMEOUT"] = Raised(Read("HTTP_WRITE_TIMEOUT"), Read("MODEL_TIMEOUT"))
  BY <1>2 DEF Load
<1>5. Load(env) \in [Settings -> Duration]
  BY <1>1, <1>2, <1>3 DEF Load
<1>. HIDE DEF Read
<1>. QED BY <1>1, <1>2, <1>4, <1>5, RaisedFacts

-----------------------------------------------------------------------------
(* The invariant.                                                          *)

\* The settings are integers that the steps of a request do not change.
LEMMA SettingsAreIntegers ==
  ASSUME cfg \in [Settings -> Duration]
  PROVE  /\ cfg["HTTP_READ_TIMEOUT"] \in Int
         /\ cfg["HTTP_WRITE_TIMEOUT"] \in Int
         /\ cfg["IRIS_TIMEOUT"] \in Int
         /\ cfg["MODEL_TIMEOUT"] \in Int
         /\ RPCTimeout \in Int
  BY HalfWordAssumption DEF Settings, Duration, RPCTimeout

\* It holds when a connection is accepted.
LEMMA InitIInv == Init => IInv
<1>. SUFFICES ASSUME Init PROVE IInv
  OBVIOUS
<1>1. PICK env \in Envs : cfg = Load(env)
  BY DEF Init
<1>2. env \in [Settings -> EnvValue]
  BY EnvsAssumption
<1>3. cfg \in [Settings -> Duration]
  BY <1>1, <1>2, LoadFacts
<1>4. cfg["MODEL_TIMEOUT"] \in 0 .. HalfWord - 1 - Headroom /\ cfg["HTTP_WRITE_TIMEOUT"] > 0
        => cfg["HTTP_WRITE_TIMEOUT"] >= cfg["MODEL_TIMEOUT"] + Headroom
  BY <1>1, <1>2, LoadFacts
<1>5. TypeOK
  BY <1>3, SettingsAreIntegers DEF Init, TypeOK, ServerDeadline, Off
<1>6. ClockInv /\ AnswersFlushed
  BY <1>3, <1>4, SettingsAreIntegers, HeadroomAssumption
     DEF Init, ClockInv, AnswersFlushed, GuardSuffices, ServerDeadline, Off
<1>. QED BY <1>5, <1>6 DEF IInv

\* An answer finds the write deadline ahead of it.
LEMMA AnswerStep ==
  ASSUME IInv, NEW st \in {200, 400, 500, 503, 504}, phase \in {"body", "calling"}, Answer(st)
  PROVE  IInv'
<1>1. TypeOK'
  BY DEF Answer, IInv, TypeOK
<1>2. GuardSuffices => wtl # 0
  BY SettingsAreIntegers, HeadroomAssumption, HalfWordAssumption
     DEF IInv, TypeOK, ClockInv, GuardSuffices, Off
<1>3. GuardSuffices' <=> GuardSuffices
  BY DEF Answer, GuardSuffices
<1>4. ClockInv'
  BY <1>3 DEF Answer, IInv, ClockInv
<1>5. AnswersFlushed'
  BY <1>2, <1>3 DEF Answer, AnswersFlushed
<1>. QED BY <1>1, <1>4, <1>5 DEF IInv

\* The clocks start where the invariant needs them.
LEMMA StartStep ==
  ASSUME IInv, HeadersRead \/ HeadersTimeOut \/ BodyRead
  PROVE  IInv'
<1>0. GuardSuffices' <=> GuardSuffices
  BY DEF HeadersRead, HeadersTimeOut, BodyRead, GuardSuffices
<1>1. CASE HeadersRead
  <2>1. TypeOK'
    BY <1>1, SettingsAreIntegers DEF HeadersRead, IInv, TypeOK, ServerDeadline, Off
  <2>2. ClockInv' /\ AnswersFlushed'
    BY <1>0, <1>1, SettingsAreIntegers
       DEF HeadersRead, IInv, TypeOK, ClockInv, AnswersFlushed, ServerDeadline, Off
  <2>. QED BY <2>1, <2>2 DEF IInv
<1>2. CASE HeadersTimeOut
  BY <1>0, <1>2 DEF HeadersTimeOut, IInv, TypeOK, ClockInv, AnswersFlushed
<1>3. CASE BodyRead
  <2>1. TypeOK'
    BY <1>3, SettingsAreIntegers DEF BodyRead, IInv, TypeOK, Max0
  <2>2. GuardSuffices => Max0(RPCTimeout) <= cfg["MODEL_TIMEOUT"] /\ Max0(RPCTimeout) >= 0
    BY SettingsAreIntegers DEF IInv, TypeOK, GuardSuffices, Max0, RPCTimeout
  <2>3. Max0(RPCTimeout) \in Int
    BY SettingsAreIntegers DEF IInv, TypeOK, Max0
  <2>4. ClockInv' /\ AnswersFlushed'
    BY <1>0, <1>3, <2>2, <2>3, SettingsAreIntegers, HeadroomAssumption
       DEF BodyRead, IInv, TypeOK, ClockInv, AnswersFlushed, Off
  <2>. QED BY <2>1, <2>4 DEF IInv
<1>. QED BY <1>1, <1>2, <1>3

\* Time runs on all clocks alike.
LEMMA TickStep ==
  ASSUME IInv, Tick
  PROVE  IInv'
<1>0. GuardSuffices' <=> GuardSuffices
  BY DEF Tick, GuardSuffices
<1>1. TypeOK'
  BY DEF Tick, IInv, TypeOK, Less, Off
<1>2. AnswersFlushed'
  BY <1>0 DEF Tick, IInv, AnswersFlushed
<1>3. ClockInv'
  BY <1>0, SettingsAreIntegers, HeadroomAssumption, HalfWordAssumption
     DEF Tick, IInv, TypeOK, ClockInv, GuardSuffices, Less, Off
<1>. QED BY <1>1, <1>2, <1>3 DEF IInv

\* Every step keeps the invariant.
LEMMA StepIInv == IInv /\ [Next]_vars => IInv'
<1>. SUFFICES ASSUME IInv, [Next]_vars PROVE IInv'
  OBVIOUS
<1>1. CASE HeadersRead \/ HeadersTimeOut \/ BodyRead
  BY <1>1, StartStep
<1>2. CASE BodyRejected \/ RPCReturns \/ DeadlineFires
  BY <1>2, AnswerStep DEF BodyRejected, RPCReturns, DeadlineFires
<1>3. CASE Tick
  BY <1>3, TickStep
<1>4. CASE UNCHANGED vars
  BY <1>4 DEF vars, IInv, TypeOK, ClockInv, AnswersFlushed, GuardSuffices
<1>. QED BY <1>1, <1>2, <1>3, <1>4 DEF Next, Done

\* The inductive invariant holds always.
THEOREM DeadlinesInvariant == Spec => []IInv
  BY InitIInv, StepIInv, PTL DEF Spec

\* The variables keep their types, whatever the environment holds.
THEOREM DeadlinesTypes == Spec => []TypeOK
<1>1. IInv => TypeOK
  BY DEF IInv
<1>. QED BY <1>1, DeadlinesInvariant, PTL

\* Where Load's guard is enough, no answer meets a write deadline that has passed.
THEOREM DeadlinesAnswersFlushed == Spec => []AnswersFlushed
<1>1. IInv => AnswersFlushed
  BY DEF IInv
<1>. QED BY <1>1, DeadlinesInvariant, PTL
=============================================================================
