----------------------------- MODULE IrisRequestPool -----------------------------
(***************************************************************************)
(* The sync.Pool of request messages that the goroutines of                *)
(* POST /predict/iris share: Get (or New), fill, encode, Reset, Put.  The  *)
(* garbage collector may take any message out of the pool at any time.     *)
(***************************************************************************)
EXTENDS Naturals

CONSTANTS
    Handlers,   \* goroutines of IrisHandler.Predict, named after the features they were sent
    Messages,   \* the IrisPredictRequest objects memory has room for
    Blank       \* contents of a message after Reset

ASSUME BlankAssumption == Blank \notin Handlers

VARIABLES
    pc,        \* pc[h]: where the goroutine is
    req,       \* req[h]: the message it has borrowed
    contents,  \* contents[m]: whose features m holds
    pooled,    \* pooled[m]: how often m is in the pool
    wire       \* wire[h]: the features that h's RPC was encoded with

vars == <<pc, req, contents, pooled, wire>>

\* Between Get and Put; the deferred function runs also when the handler panics.
Holds(h) == pc[h] \in {"borrowed", "filled", "encoded", "returned", "reset"}

Init ==
    /\ pc = [h \in Handlers |-> "start"]
    /\ req \in [Handlers -> Messages]     \* no message yet: any value, as it is never read
    /\ contents = [m \in Messages |-> Blank]
    /\ pooled = [m \in Messages |-> 0]
    /\ wire = [h \in Handlers |-> Blank]

Step(h, from, to) == pc[h] = from /\ pc' = [pc EXCEPT ![h] = to]

Get(h) ==
    /\ Step(h, "start", "borrowed")
    /\ \E m \in Messages :
          /\ pooled[m] > 0
          /\ pooled' = [pooled EXCEPT ![m] = @ - 1]
          /\ req' = [req EXCEPT ![h] = m]
    /\ UNCHANGED <<contents, wire>>

\* Mutant: the pool has no New function, and Get returns nil (no message).
NewReturnsNil(h) ==
    /\ Step(h, "start", "borrowed")
    /\ req' = [req EXCEPT ![h] = Blank]
    /\ UNCHANGED <<contents, pooled, wire>>

\* The pool has nothing for this processor: memory that nobody refers to is zeroed.
New(h) ==
    /\ Step(h, "start", "borrowed")
    /\ \E m \in Messages :
          /\ pooled[m] = 0
          /\ \A g \in Handlers : Holds(g) => req[g] # m
          /\ req' = [req EXCEPT ![h] = m]
          /\ contents' = [contents EXCEPT ![m] = Blank]
    /\ UNCHANGED <<pooled, wire>>

\* Mutant: the message is given back as soon as it is filled.
FillAndPut(h) ==
    /\ Step(h, "borrowed", "filled")
    /\ contents' = [contents EXCEPT ![req[h]] = h]
    /\ pooled' = [pooled EXCEPT ![req[h]] = @ + 1]
    /\ UNCHANGED <<req, wire>>

Fill(h) ==
    /\ Step(h, "borrowed", "filled")
    /\ contents' = [contents EXCEPT ![req[h]] = h]
    /\ UNCHANGED <<req, pooled, wire>>

\* Invoke encodes the message before it returns, once it has a stream to send it on.
Encode(h) ==
    /\ Step(h, "filled", "encoded")
    /\ wire' = [wire EXCEPT ![h] = contents[req[h]]]
    /\ UNCHANGED <<req, contents, pooled>>

\* Mutant: the error path gives the message back, and so does the deferred function.
ReturnsAndPuts(h) ==
    /\ Step(h, "filled", "returned")
    /\ pooled' = [pooled EXCEPT ![req[h]] = @ + 1]
    /\ UNCHANGED <<req, contents, wire>>

\* The RPC ends without a stream: deadline, cancellation, backend unavailable.
ReturnsUnsent(h) == Step(h, "filled", "returned") /\ UNCHANGED <<req, contents, pooled, wire>>

ReturnsSent(h) == Step(h, "encoded", "returned") /\ UNCHANGED <<req, contents, pooled, wire>>

\* Mutant: the message is put back as it is.
ResetSkipped(h) == Step(h, "returned", "reset") /\ UNCHANGED <<req, contents, pooled, wire>>

Reset(h) ==
    /\ Step(h, "returned", "reset")
    /\ contents' = [contents EXCEPT ![req[h]] = Blank]
    /\ UNCHANGED <<req, pooled, wire>>

Put(h) ==
    /\ Step(h, "reset", "done")
    /\ pooled' = [pooled EXCEPT ![req[h]] = @ + 1]
    /\ UNCHANGED <<req, contents, wire>>

CollectGarbage(m) ==
    /\ pooled[m] > 0
    /\ pooled' = [pooled EXCEPT ![m] = @ - 1]
    /\ UNCHANGED <<pc, req, contents, wire>>

Terminated == (\A h \in Handlers : pc[h] = "done") /\ UNCHANGED vars

Handler(h) == Get(h) \/ New(h) \/ Fill(h) \/ Encode(h) \/ ReturnsUnsent(h) \/ ReturnsSent(h) \/ Reset(h) \/ Put(h)

Next == (\E h \in Handlers : Handler(h)) \/ (\E m \in Messages : CollectGarbage(m)) \/ Terminated

Spec == Init /\ [][Next]_vars

-----------------------------------------------------------------------------
(* Properties.                                                             *)

\* The type invariant.
TypeOK ==
    /\ pc \in [Handlers -> {"start", "borrowed", "filled", "encoded", "returned", "reset", "done"}]
    /\ req \in [Handlers -> Messages]
    /\ contents \in [Messages -> Handlers \cup {Blank}]
    /\ pooled \in [Messages -> Nat]
    /\ wire \in [Handlers -> Handlers \cup {Blank}]

\* A message is in the pool once, or borrowed by one goroutine, never both.
OneOwner ==
    /\ \A m \in Messages : pooled[m] <= 1
    /\ \A h \in Handlers : Holds(h) => pooled[req[h]] = 0
    /\ \A g, h \in Handlers : g # h /\ Holds(g) /\ Holds(h) => req[g] # req[h]

\* iris.go: pooled objects never leak previous feature values across requests.
PooledBlank == \A m \in Messages : pooled[m] > 0 => contents[m] = Blank

\* What a goroutine sends are its own client's features, however the pool is shared,
\* emptied or refilled while it waits for the channel.
WireCarriesOwnFeatures == \A h \in Handlers : wire[h] \in {Blank, h}

-----------------------------------------------------------------------------
(* What makes the properties inductive (IrisRequestPoolProofs).            *)

ContentsInv == \A h \in Handlers :
    /\ pc[h] \in {"filled", "encoded"} => contents[req[h]] = h
    /\ pc[h] = "reset" => contents[req[h]] = Blank

IInv == TypeOK /\ OneOwner /\ PooledBlank /\ WireCarriesOwnFeatures /\ ContentsInv
=============================================================================
