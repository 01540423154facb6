-------------------------- MODULE MCIrisRequestPool --------------------------
(* Small instances of IrisRequestPool.                                       *)
EXTENDS IrisRequestPool, TLC

CONSTANTS h1, h2, h3, o1, o2, o3   \* model values

\* Goroutines and objects are interchangeable.
PoolSymmetry == Permutations(Handlers) \cup Permutations(Messages)
=============================================================================
