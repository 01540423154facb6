--------------------------------- MODULE Tally ---------------------------------
(***************************************************************************)
(* Totals over a set, without recursion: the sum of n[x] over the x in S   *)
(* is the number of items when every x has n[x] of them.                   *)
(***************************************************************************)
EXTENDS Integers, FiniteSets

Items(S, n) == UNION {{x} \X (1 .. n[x]) : x \in S}

Total(S, n) == Cardinality(Items(S, n))
=============================================================================
