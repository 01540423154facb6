-------------------------- MODULE MCBackendShutdown --------------------------
(* Small instances of BackendShutdown, in ticks of five seconds.             *)
EXTENDS BackendShutdown, TLC

CONSTANTS c1, c2, c3   \* model values

CallSymmetry == Permutations(Calls)
=============================================================================
