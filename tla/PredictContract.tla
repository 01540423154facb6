---------------------------- MODULE PredictContract ----------------------------
(***************************************************************************)
(* What POST /predict/iris and POST /predict/model promise a client, with  *)
(* no queue, worker, timer or connection in sight.  A request is answered  *)
(* exactly once and the answer never changes.  A 200 is only ever given    *)
(* for an inference the backend really completed.  An accepted iris        *)
(* request never comes back as a 400.  Every request the gateway accepted  *)
(* is answered in the end.                                                 *)
(***************************************************************************)
CONSTANTS IrisRequests,    \* requests to /predict/iris
          ModelRequests    \* requests to /predict/model

Requests == IrisRequests \cup ModelRequests

VARIABLES stage,     \* stage[r]: "new", "pending" at the backend, or "answered"
          accepted,  \* accepted[r]: the gateway's validation let r through
          served,    \* served[r]: an inference result for r exists
          status     \* status[r]: the HTTP status of the answer, 0 before it

vars == <<stage, accepted, served, status>>

ErrorStatuses(r) == {500, 503, 504} \cup (IF r \in ModelRequests THEN {400} ELSE {})

Init ==
    /\ stage = [r \in Requests |-> "new"]
    /\ accepted = [r \in Requests |-> FALSE]
    /\ served = [r \in Requests |-> FALSE]
    /\ status = [r \in Requests |-> 0]

Reject(r) ==
    /\ stage[r] = "new"
    /\ stage' = [stage EXCEPT ![r] = "answered"]
    /\ status' = [status EXCEPT ![r] = 400]
    /\ UNCHANGED <<accepted, served>>

Accept(r) ==
    /\ stage[r] = "new"
    /\ stage' = [stage EXCEPT ![r] = "pending"]
    /\ accepted' = [accepted EXCEPT ![r] = TRUE]
    /\ UNCHANGED <<served, status>>

Serve(r) ==
    /\ stage[r] = "pending"
    /\ ~served[r]
    /\ served' = [served EXCEPT ![r] = TRUE]
    /\ UNCHANGED <<stage, accepted, status>>

\* Results on their way back to the gateway are lost with the connection.
Lose ==
    /\ \E lost \in SUBSET {r \in Requests : stage[r] = "pending" /\ served[r]} :
          served' = [r \in Requests |-> served[r] /\ r \notin lost]
    /\ UNCHANGED <<stage, accepted, status>>

AnswerOK(r) ==
    /\ stage[r] = "pending"
    /\ served[r]
    /\ stage' = [stage EXCEPT ![r] = "answered"]
    /\ status' = [status EXCEPT ![r] = 200]
    /\ UNCHANGED <<accepted, served>>

\* A result may exist and still come too late.
AnswerError(r) ==
    /\ stage[r] = "pending"
    /\ stage' = [stage EXCEPT ![r] = "answered"]
    /\ \E s \in ErrorStatuses(r) : status' = [status EXCEPT ![r] = s]
    /\ UNCHANGED <<accepted, served>>

Answer(r) == AnswerOK(r) \/ AnswerError(r)

Next ==
    \/ \E r \in Requests : Reject(r) \/ Accept(r) \/ Serve(r) \/ Answer(r)
    \/ Lose

Spec == Init /\ [][Next]_vars /\ \A r \in Requests : WF_vars(Answer(r))
=============================================================================
