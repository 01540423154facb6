-------------------------- MODULE MCRequestDeadlines --------------------------
(* Ticks of five seconds: the headroom of 15s is 3, the defaults are 10s, 75s,  *)
(* 75s, 3s (rounded up) and 60s, and a duration has six bits.                  *)
EXTENDS RequestDeadlines

MCDefaults == [HTTP_READ_TIMEOUT |-> 2, HTTP_WRITE_TIMEOUT |-> 15, SHUTDOWN_TIMEOUT |-> 15,
               IRIS_TIMEOUT |-> 1, MODEL_TIMEOUT |-> 12]

Unset == [kind |-> "unset", value |-> 0]
Invalid == [kind |-> "invalid", value |-> 0]
Ticks(S) == {[kind |-> "duration", value |-> n] : n \in S}

\* Values around every comparison the settings enter, and around the wrap.
MCEnvs ==
    {e \in [Settings -> {Unset, Invalid} \cup Ticks({-2, -1, 0, 1, 2, 3, 4, 20, HalfWord - 4, HalfWord - 1})] :
        /\ e["HTTP_READ_TIMEOUT"] \in {Unset, Invalid} \cup Ticks({-1, 0, 3, 4})
        /\ e["HTTP_WRITE_TIMEOUT"] \in {Unset} \cup Ticks({-1, 1, 20})
        /\ e["SHUTDOWN_TIMEOUT"] = Unset
        /\ e["IRIS_TIMEOUT"] \in {Unset} \cup Ticks({0, 20})
        /\ e["MODEL_TIMEOUT"] \in {Unset} \cup Ticks({-2, 0, 2, HalfWord - 4, HalfWord - 1})}

\* Everything at its default but the read timeout, which is 20s or off.
MCSlowBodies ==
    {[[k \in Settings |-> Unset] EXCEPT !["HTTP_READ_TIMEOUT"] = v] : v \in Ticks({0, 4})}
=============================================================================
