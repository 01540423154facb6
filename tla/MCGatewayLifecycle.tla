-------------------------- MODULE MCGatewayLifecycle --------------------------
(* Small instances of GatewayLifecycle, in ticks of five seconds.              *)
EXTENDS GatewayLifecycle, TLC

CONSTANTS r1, r2   \* model values

RequestSymmetry == Permutations(Requests)

Timeouts(read, rpc, shutdown) == [ReadTimeout |-> read, RPCTimeout |-> rpc, ShutdownTimeout |-> shutdown]

\* The defaults, a read timeout that uses up the margin, none at all, an RPC that outlives
\* the shutdown timeout, and a shutdown timeout that is over at once.
MCConfigs == {Timeouts(2, 12, 15), Timeouts(3, 12, 15), Timeouts(0, 12, 15), Timeouts(2, 17, 15), Timeouts(2, 1, 0)}
=============================================================================
