----------------------------- MODULE StreamContract -----------------------------
(***************************************************************************)
(* What POST /predict/model/stream promises a client.  A request is either *)
(* refused with an error status or opened with a 200.  An open stream      *)
(* delivers a prefix of what the backend generates, and a client that      *)
(* stays is told, by exactly one last event, how it ended: "done" only if  *)
(* the generation has come to its regular end and every chunk of it was    *)
(* delivered ("done" promises no final chunk with statistics), "error"     *)
(* otherwise.  Every accepted request is answered, every stream closed.    *)
(***************************************************************************)
EXTENDS Naturals

CONSTANT Streams   \* requests to /predict/model/stream

VARIABLES stage,      \* stage[s]: "new", "pending", "open" or "closed"
          gone,       \* gone[s]: the client has closed its connection
          status,     \* status[s]: the committed HTTP status, 0 before it
          generated,  \* generated[s]: chunks the backend has generated
          complete,   \* complete[s]: the generation has come to its regular end
          delivered,  \* delivered[s]: chunks written to the client
          terminal    \* terminal[s]: the last event, "none", "done" or "error"

vars == <<stage, gone, status, generated, complete, delivered, terminal>>

Init ==
    /\ stage = [s \in Streams |-> "new"]
    /\ gone = [s \in Streams |-> FALSE]
    /\ status = [s \in Streams |-> 0]
    /\ generated = [s \in Streams |-> 0]
    /\ complete = [s \in Streams |-> FALSE]
    /\ delivered = [s \in Streams |-> 0]
    /\ terminal = [s \in Streams |-> "none"]

Move(s, from, to, st) ==
    /\ stage[s] = from
    /\ stage' = [stage EXCEPT ![s] = to]
    /\ status' = [status EXCEPT ![s] = st]

Reject(s) == Move(s, "new", "closed", 400) /\ UNCHANGED <<gone, generated, complete, delivered, terminal>>

Accept(s) == Move(s, "new", "pending", 0) /\ UNCHANGED <<gone, generated, complete, delivered, terminal>>

Open(s) == Move(s, "pending", "open", 200) /\ UNCHANGED <<gone, generated, complete, delivered, terminal>>

Fail(s) ==
    /\ \E st \in {500, 503, 504} : Move(s, "pending", "closed", st)
    /\ UNCHANGED <<gone, generated, complete, delivered, terminal>>

Generate(s) ==
    /\ status[s] = 200
    /\ ~complete[s]
    /\ generated' = [generated EXCEPT ![s] = @ + 1]
    /\ UNCHANGED <<stage, gone, status, complete, delivered, terminal>>

Complete(s) ==
    /\ status[s] = 200
    /\ ~complete[s]
    /\ complete' = [complete EXCEPT ![s] = TRUE]
    /\ UNCHANGED <<stage, gone, status, generated, delivered, terminal>>

Deliver(s) ==
    /\ stage[s] = "open"
    /\ delivered[s] < generated[s]
    /\ delivered' = [delivered EXCEPT ![s] = @ + 1]
    /\ UNCHANGED <<stage, gone, status, generated, complete, terminal>>

Disconnect(s) ==
    /\ stage[s] \in {"pending", "open"}
    /\ gone' = [gone EXCEPT ![s] = TRUE]
    /\ UNCHANGED <<stage, status, generated, complete, delivered, terminal>>

Close(s) ==
    /\ Move(s, "open", "closed", 200)
    /\ \/ /\ complete[s] /\ delivered[s] = generated[s]
          /\ terminal' = [terminal EXCEPT ![s] = "done"]
       \/ terminal' = [terminal EXCEPT ![s] = "error"]
       \/ gone[s] /\ UNCHANGED terminal
    /\ UNCHANGED <<gone, generated, complete, delivered>>

Next == \E s \in Streams :
    \/ Reject(s) \/ Accept(s) \/ Open(s) \/ Fail(s)
    \/ Generate(s) \/ Complete(s) \/ Deliver(s) \/ Disconnect(s) \/ Close(s)

Spec == Init /\ [][Next]_vars /\ \A s \in Streams : WF_vars(Open(s) \/ Fail(s)) /\ WF_vars(Close(s))
=============================================================================
