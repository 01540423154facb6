------------------------------ MODULE GracefulStop ------------------------------
(***************************************************************************)
(* What a graceful stop promises the tasks of a server, in both services:  *)
(* from the moment it stops, no new task is taken, and each accepted task  *)
(* has the whole allowance to finish; a task is lost only when that time   *)
(* is over, unless the process is killed.                                  *)
(***************************************************************************)
EXTENDS Naturals

CONSTANT Tasks   \* requests or calls

VARIABLES stage,     \* the server: "up", "stopping", "gone" or "killed"
          allowance, \* the time a stop allows
          timer,     \* what is left of it
          task       \* task[t]: "none", "connected" (not yet a task), "accepted",
                     \* "finished", "refused" or "lost"

vars == <<stage, allowance, timer, task>>

Init ==
    /\ stage = "up"
    /\ allowance \in Nat
    /\ timer = 0
    /\ task = [t \in Tasks |-> "none"]

Alive == stage \in {"up", "stopping"}

Move(t, from, to) ==
    /\ Alive
    /\ task[t] \in from
    /\ task' = [task EXCEPT ![t] = to]
    /\ UNCHANGED <<stage, allowance, timer>>

Connect(t) == stage = "up" /\ Move(t, {"none"}, "connected")

\* Who is connected when the stop begins may yet be accepted, nobody else.
Accept(t) == Move(t, IF stage = "up" THEN {"none", "connected"} ELSE {"connected"}, "accepted")

Refuse(t) == Move(t, {"none", "connected"}, "refused")

Finish(t) == Move(t, {"accepted"}, "finished")

Stop ==
    /\ stage = "up"
    /\ stage' = "stopping"
    /\ timer' = allowance
    /\ UNCHANGED <<allowance, task>>

Pass(time) ==
    /\ stage = "stopping"
    /\ timer > 0
    /\ timer' = time
    /\ UNCHANGED <<stage, allowance, task>>

Tick == Pass(timer - 1)

\* Nobody needs the rest.
GiveUpRest == Pass(0) /\ \A t \in Tasks : task[t] \notin {"connected", "accepted"}

Lost(tasks) == [t \in Tasks |-> IF t \in tasks /\ task[t] = "accepted" THEN "lost" ELSE task[t]]

\* The time is over.
Lose ==
    /\ stage = "stopping"
    /\ timer = 0
    /\ \E tasks \in SUBSET Tasks : task' = Lost(tasks)
    /\ UNCHANGED <<stage, allowance, timer>>

\* The process ends, and what it has not finished with it.
End(how) ==
    /\ stage' = how
    /\ task' = [t \in Tasks |-> IF task[t] = "connected" THEN "refused" ELSE Lost(Tasks)[t]]
    /\ UNCHANGED allowance
    /\ timer' = 0

Exit == stage = "stopping" /\ timer = 0 /\ End("gone")

Kill == Alive /\ End("killed")

Next ==
    \/ \E t \in Tasks : Connect(t) \/ Accept(t) \/ Refuse(t) \/ Finish(t)
    \/ Stop \/ Tick \/ GiveUpRest \/ Lose \/ Exit \/ Kill

Spec == Init /\ [][Next]_vars
=============================================================================
