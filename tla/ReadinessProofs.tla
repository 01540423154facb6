---------------------------- MODULE ReadinessProofs ----------------------------
(* One pod's readiness for every setting of the probes, the channel and its    *)
(* timers that the assumptions of Readiness allow.                             *)
EXTENDS Readiness, TLAPS

LEMMA Parameters ==
    /\ FailureThreshold \in Nat /\ IdleTimeout \in Nat /\ ConnectTimeout \in Nat /\ DialTime \in Nat
    /\ MaxBackoff \in Nat /\ DetectTime \in Nat /\ MaxClock \in Nat /\ FirstReady \in Nat
    /\ 1 <= DialTime /\ DialTime <= ConnectTimeout
    /\ DialTime + 2 <= FailureThreshold /\ DialTime + 2 <= IdleTimeout
    /\ ConnectTimeout + MaxBackoff + DialTime <= FirstReady + 1
    /\ DetectTime + 1 + DialTime <= FirstReady
    /\ FirstReady + DialTime + 2 < MaxClock
  BY ReadinessAssumption, PatienceAssumption, ClockAssumption DEF FirstReady, RecoveryTime, Longer

\* After an attempt that began too early, the back-off ends in time.
LEMMA BackoffInTime ==
    ASSUME NEW u \in Nat, NEW b \in Nat, u + 1 <= ConnectTimeout, b <= MaxBackoff
    PROVE  u + b <= FirstReady - DialTime
  BY Parameters

LEMMA InitIInv == Init => IInv
  <1> SUFFICES ASSUME Init PROVE IInv OBVIOUS
  <1> USE Parameters DEF Init, Start, Dialling
  <1>1. TypeOK
    <2>1. probed \in BOOLEAN /\ inService \in BOOLEAN /\ up \in BOOLEAN BY Zenon
    <2> QED BY <2>1 DEF TypeOK
  <1>2. PhaseInv BY DEF PhaseInv
  <1>3. RecoveryInv BY DEF RecoveryInv
  <1>4. StaleInv BY DEF StaleInv
  <1> QED BY <1>1, <1>2, <1>3, <1>4 DEF IInv

-----------------------------------------------------------------------------
(* One lemma per actor: the kubelet and the requests, the channel, the backend,*)
(* time.                                                                       *)

LEMMA ProbeStep == IInv /\ Probe => IInv'
  <1> SUFFICES ASSUME IInv, Probe PROVE IInv' OBVIOUS
  <1> USE Parameters DEF IInv, TypeOK, PhaseInv, Dialling, Unprobed, Probe, Readyz, Connect, Goes,
                         Answered, GetState, channel, backend
  <1>1. TypeOK' /\ PhaseInv' OBVIOUS
  <1>2. RecoveryInv' BY DEF RecoveryInv
  <1>3. StaleInv' BY DEF StaleInv
  <1> QED BY <1>1, <1>2, <1>3

LEMMA RPCStep == IInv /\ RPC => IInv'
  <1> SUFFICES ASSUME IInv, RPC PROVE IInv' OBVIOUS
  <1> USE Parameters DEF IInv, TypeOK, PhaseInv, Dialling, Unprobed, RPC, Goes, kubelet, backend
  <1>1. TypeOK' /\ PhaseInv' OBVIOUS
  <1>2. RecoveryInv' BY DEF RecoveryInv
  <1>3. StaleInv' BY DEF StaleInv
  <1> QED BY <1>1, <1>2, <1>3

LEMMA ChannelStep ==
    IInv /\ (AttemptSucceeds \/ AttemptFails \/ Redial \/ LossNoticed \/ ChannelIdles) => IInv'
  <1> SUFFICES ASSUME IInv, AttemptSucceeds \/ AttemptFails \/ Redial \/ LossNoticed \/ ChannelIdles
               PROVE  IInv'
    OBVIOUS
  <1> USE Parameters DEF IInv, TypeOK, PhaseInv, Dialling, Unprobed, Goes, kubelet, backend
  <1>1. CASE AttemptSucceeds BY <1>1 DEF AttemptSucceeds, RecoveryInv, StaleInv
  <1>2. CASE AttemptFails
    <2>1. TypeOK' /\ PhaseInv' BY <1>2 DEF AttemptFails
    <2>2. /\ link' = "backoff" /\ sinceUp' = sinceUp
          /\ timer' \in Nat /\ timer' <= MaxBackoff
          /\ sinceUp \in Nat /\ sinceUp + 1 <= ConnectTimeout
      BY <1>2 DEF AttemptFails
    <2>3. sinceUp + timer' <= FirstReady - DialTime BY <2>2, BackoffInTime
    <2>4. RecoveryInv' BY <2>2, <2>3 DEF RecoveryInv
    <2>5. StaleInv' BY <1>2 DEF AttemptFails, StaleInv
    <2> QED BY <2>1, <2>4, <2>5
  <1>3. CASE Redial BY <1>3 DEF Redial, RecoveryInv, StaleInv
  <1>4. CASE LossNoticed BY <1>4 DEF LossNoticed, RecoveryInv, StaleInv
  <1>5. CASE ChannelIdles BY <1>5 DEF ChannelIdles, RecoveryInv, StaleInv
  <1> QED BY <1>1, <1>2, <1>3, <1>4, <1>5

LEMMA BackendStep == IInv /\ (ConnectionBreaks \/ BackendStops \/ BackendStarts) => IInv'
  <1> SUFFICES ASSUME IInv, ConnectionBreaks \/ BackendStops \/ BackendStarts PROVE IInv' OBVIOUS
  <1> USE Parameters DEF IInv, TypeOK, PhaseInv, Dialling, Unprobed, Goes, LosesConnection, kubelet, channel
  <1>1. CASE ConnectionBreaks BY <1>1 DEF ConnectionBreaks, RecoveryInv, StaleInv
  <1>2. CASE BackendStops
    <2>1. TypeOK' BY <1>2 DEF BackendStops
    <2>2. PhaseInv' BY <1>2 DEF BackendStops
    <2>3. RecoveryInv' BY <1>2 DEF BackendStops, RecoveryInv
    <2>4. StaleInv' BY <1>2 DEF BackendStops, StaleInv
    <2> QED BY <2>1, <2>2, <2>3, <2>4
  <1>3. CASE BackendStarts BY <1>3 DEF BackendStarts, RecoveryInv, StaleInv
  <1> QED BY <1>1, <1>2, <1>3

LEMMA TickStep == IInv /\ Tick => IInv'
  <1> SUFFICES ASSUME IInv, Tick PROVE IInv' OBVIOUS
  <1> USE Parameters DEF IInv, TypeOK, Dialling, Unprobed, Tick, AttemptOver, Later
  <1>1. TypeOK'
    <2>1. probed' \in BOOLEAN /\ inService' \in BOOLEAN /\ up' \in BOOLEAN BY Zenon
    <2>2. timer' \in Nat BY DEF PhaseInv
    <2> QED BY <2>1, <2>2
  <1>2. PhaseInv' BY DEF PhaseInv
  <1>3. RecoveryInv' BY DEF PhaseInv, RecoveryInv
  <1>4. StaleInv' BY DEF PhaseInv, StaleInv
  <1> QED BY <1>1, <1>2, <1>3, <1>4

LEMMA StepIInv == IInv /\ [Next]_vars => IInv'
  <1>1. IInv /\ UNCHANGED vars => IInv'
    BY DEF vars, channel, kubelet, backend, IInv, TypeOK, PhaseInv, RecoveryInv, StaleInv, Dialling, Unprobed
  <1> QED BY <1>1, ProbeStep, RPCStep, ChannelStep, BackendStep, TickStep DEF Next

-----------------------------------------------------------------------------
(* The theorems.                                                           *)

\* The inductive invariant: every phase of a recovery begins in time, and a pod without
\* a connection fails a probe in every period.
THEOREM ReadinessInvariant == Spec => []IInv
  BY InitIInv, StepIInv, PTL DEF Spec

\* The channel, the kubelet and the clocks keep their types; Readyz always has a channel.
THEOREM ReadinessTypes == Spec => []TypeOK
  <1>1. IInv => TypeOK BY DEF IInv
  <1> QED BY <1>1, ReadinessInvariant, PTL

\* A pod is in service within RecoveryTime of the backend's return, and stays.
THEOREM RecoveryIsBounded == Spec => []RecoveryBounded
  <1>1. IInv => RecoveryBounded
    BY Parameters
    DEF IInv, TypeOK, PhaseInv, RecoveryInv, RecoveryBounded, RecoveryTime, Dialling, Unprobed
  <1> QED BY <1>1, ReadinessInvariant, PTL

\* A pod that has lost its backend leaves the service after DetectTime and
\* FailureThreshold probes.
THEOREM StaleReadinessIsBounded == Spec => []StaleReadinessBounded
  <1>1. IInv => StaleReadinessBounded
    BY Parameters DEF IInv, TypeOK, PhaseInv, StaleInv, StaleReadinessBounded, Unprobed
  <1> QED BY <1>1, ReadinessInvariant, PTL
===============================================================================
