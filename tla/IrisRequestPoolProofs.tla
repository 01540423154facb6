-------------------------- MODULE IrisRequestPoolProofs --------------------------
(***************************************************************************)
(* IrisRequestPool keeps its properties for any number of goroutines and   *)
(* messages.                                                               *)
(***************************************************************************)
EXTENDS IrisRequestPool, TLAPS

\* A fresh pool is empty and nobody holds a message.
LEMMA InitIInv == Init => IInv
  BY BlankAssumption DEF Init, IInv, TypeOK, OneOwner, PooledBlank, WireCarriesOwnFeatures, ContentsInv, Holds

\* Taking a message out of the pool, or making one, gives it one owner.
LEMMA BorrowStep ==
  ASSUME NEW h \in Handlers, IInv, Get(h) \/ New(h)
  PROVE  IInv'
<1>1. CASE Get(h)
  BY <1>1 DEF Get, Step, IInv, TypeOK, OneOwner, PooledBlank, WireCarriesOwnFeatures, ContentsInv, Holds
<1>2. CASE New(h)
  BY <1>2 DEF New, Step, IInv, TypeOK, OneOwner, PooledBlank, WireCarriesOwnFeatures, ContentsInv, Holds
<1>. QED BY <1>1, <1>2

\* The owner fills, encodes and resets its message; nobody else looks at it.
LEMMA UseStep ==
  ASSUME NEW h \in Handlers, IInv, Fill(h) \/ Encode(h) \/ ReturnsUnsent(h) \/ ReturnsSent(h) \/ Reset(h)
  PROVE  IInv'
<1>1. CASE Fill(h)
  BY <1>1 DEF Fill, Step, IInv, TypeOK, OneOwner, PooledBlank, WireCarriesOwnFeatures, ContentsInv, Holds
<1>2. CASE Encode(h)
  BY <1>2 DEF Encode, Step, IInv, TypeOK, OneOwner, PooledBlank, WireCarriesOwnFeatures, ContentsInv, Holds
<1>3. CASE ReturnsUnsent(h)
  BY <1>3 DEF ReturnsUnsent, Step, IInv, TypeOK, OneOwner, PooledBlank, WireCarriesOwnFeatures, ContentsInv, Holds
<1>4. CASE ReturnsSent(h)
  BY <1>4 DEF ReturnsSent, Step, IInv, TypeOK, OneOwner, PooledBlank, WireCarriesOwnFeatures, ContentsInv, Holds
<1>5. CASE Reset(h)
  BY <1>5 DEF Reset, Step, IInv, TypeOK, OneOwner, PooledBlank, WireCarriesOwnFeatures, ContentsInv, Holds
<1>. QED BY <1>1, <1>2, <1>3, <1>4, <1>5

\* The owner gives a blank message back, once.
LEMMA PutStep ==
  ASSUME NEW h \in Handlers, IInv, Put(h)
  PROVE  IInv'
  BY DEF Put, Step, IInv, TypeOK, OneOwner, PooledBlank, WireCarriesOwnFeatures, ContentsInv, Holds

\* The garbage collector only takes messages that the pool owns.
LEMMA CollectStep ==
  ASSUME NEW m \in Messages, IInv, CollectGarbage(m)
  PROVE  IInv'
  BY DEF CollectGarbage, IInv, TypeOK, OneOwner, PooledBlank, WireCarriesOwnFeatures, ContentsInv, Holds

\* Every step keeps the invariant.
LEMMA StepIInv == IInv /\ [Next]_vars => IInv'
<1>. SUFFICES ASSUME IInv, [Next]_vars PROVE IInv'
  OBVIOUS
<1>1. CASE \E h \in Handlers : Handler(h)
  BY <1>1, BorrowStep, UseStep, PutStep DEF Handler
<1>2. CASE \E m \in Messages : CollectGarbage(m)
  BY <1>2, CollectStep
<1>3. CASE UNCHANGED vars
  BY <1>3 DEF vars, IInv, TypeOK, OneOwner, PooledBlank, WireCarriesOwnFeatures, ContentsInv, Holds
<1>. QED BY <1>1, <1>2, <1>3 DEF Next, Terminated

\* The inductive invariant holds always.
THEOREM PoolInvariant == Spec => []IInv
  BY InitIInv, StepIInv, PTL DEF Spec

\* The variables keep their types.
THEOREM PoolTypes == Spec => []TypeOK
<1>1. IInv => TypeOK
  BY DEF IInv
<1>. QED BY <1>1, PoolInvariant, PTL

\* No message is ever in the pool and borrowed, or borrowed twice.
THEOREM PoolOneOwner == Spec => []OneOwner
<1>1. IInv => OneOwner
  BY DEF IInv
<1>. QED BY <1>1, PoolInvariant, PTL

\* No pooled message carries the features of an earlier request.
THEOREM PoolBlank == Spec => []PooledBlank
<1>1. IInv => PooledBlank
  BY DEF IInv
<1>. QED BY <1>1, PoolInvariant, PTL

\* No RPC is sent with the features of another request.
THEOREM PoolNoMixUp == Spec => []WireCarriesOwnFeatures
<1>1. IInv => WireCarriesOwnFeatures
  BY DEF IInv
<1>. QED BY <1>1, PoolInvariant, PTL
=============================================================================
