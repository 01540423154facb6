------------------------------ MODULE TallyProofs ------------------------------
(* What the counters' proofs need to know about counting: how a cardinality    *)
(* and a total change when one element joins the set.                          *)
EXTENDS Tally, FiniteSetTheorems, TLAPS

\* A counter over a set goes up by one when the set gets one more element.
LEMMA OneMore ==
    ASSUME NEW S, IsFiniteSet(S), NEW x, x \notin S
    PROVE  /\ IsFiniteSet(S \cup {x}) /\ Cardinality(S) \in Nat
           /\ Cardinality(S \cup {x}) = Cardinality(S) + 1
  BY FS_AddElement, FS_CardinalityType

\* Only the values at the members of the set count.
LEMMA ItemsSame ==
    ASSUME NEW S, NEW n, NEW m, \A x \in S : m[x] = n[x]
    PROVE  Items(S, m) = Items(S, n)
  BY DEF Items

LEMMA ItemsFinite ==
    ASSUME NEW S, IsFiniteSet(S), NEW n, \A x \in S : n[x] \in Nat
    PROVE  IsFiniteSet(Items(S, n)) /\ Total(S, n) \in Nat
  <1> DEFINE own == [x \in S |-> {x} \X (1 .. n[x])]
             Owned == {{x} \X (1 .. n[x]) : x \in S}
  <1>1. own \in Surjection(S, Owned) BY DEF Surjection
  <1>2. IsFiniteSet(Owned)
    <2> HIDE DEF own, Owned
    <2> QED BY <1>1, FS_Surjection
  <1>3. ASSUME NEW x \in S PROVE IsFiniteSet({x} \X (1 .. n[x]))
    <2>1. IsFiniteSet({x}) BY FS_Singleton
    <2>2. IsFiniteSet(1 .. n[x])
      <3>1. 1 \in Int /\ n[x] \in Int OBVIOUS
      <3> QED BY <3>1, FS_Interval
    <2> QED BY <2>1, <2>2, FS_Product
  <1>4. \A T \in Owned : IsFiniteSet(T) BY <1>3
  <1>5. IsFiniteSet(UNION Owned)
    <2> HIDE DEF Owned
    <2> QED BY <1>2, <1>4, FS_UNION
  <1> QED BY <1>5, FS_CardinalityType DEF Items, Total

\* The total of the empty set.
LEMMA NoTotal == ASSUME NEW n PROVE Total({}, n) = 0
  <1>1. Items({}, n) = {} BY DEF Items
  <1> QED BY <1>1, FS_EmptySet DEF Total

\* One more member brings its own items and nobody else's.
LEMMA TotalOneMore ==
    ASSUME NEW S, IsFiniteSet(S), NEW n, NEW x, x \notin S, n[x] \in Nat, \A y \in S : n[y] \in Nat
    PROVE  Total(S \cup {x}, n) = Total(S, n) + n[x] /\ Total(S, n) \in Nat
  <1> DEFINE I == Items(S, n)
             J == {x} \X (1 .. n[x])
  <1>1. Items(S \cup {x}, n) = I \cup J BY DEF Items
  <1>2. I \cap J = {} BY DEF Items
  <1>3. IsFiniteSet(I) /\ Cardinality(I) \in Nat BY ItemsFinite DEF Total
  <1>4. IsFiniteSet(J) /\ Cardinality(J) = n[x]
    <2>1. IsFiniteSet({x}) /\ Cardinality({x}) = 1 BY FS_Singleton
    <2>2. IsFiniteSet(1 .. n[x]) /\ Cardinality(1 .. n[x]) = n[x] BY FS_Interval
    <2>3. IsFiniteSet(J) /\ Cardinality(J) = 1 * n[x] BY <2>1, <2>2, FS_Product
    <2> QED BY <2>3
  <1>5. Cardinality(I \cup J) = Cardinality(I) + n[x]
    <2>1. Cardinality(I \cap J) = 0
      <3> HIDE DEF I, J
      <3> QED BY <1>2, FS_EmptySet
    <2> HIDE DEF I, J
    <2>2. Cardinality(I \cup J) = Cardinality(I) + Cardinality(J) - Cardinality(I \cap J)
      BY <1>3, <1>4, FS_Union
    <2> QED BY <1>3, <1>4, <2>1, <2>2
  <1> QED BY <1>1, <1>3, <1>5 DEF Total
===============================================================================
