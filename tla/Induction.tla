------------------------------ MODULE Induction ------------------------------
(***************************************************************************)
(* Induction and recursion over the natural numbers, as facts about sets   *)
(* and functions.  The statements of the library's NaturalsInduction take  *)
(* the predicate as an operator; here it is the set of the numbers it      *)
(* holds of, and the step of a recursion is a function.  All of it comes   *)
(* from counting: no injection maps a finite set into less of itself.      *)
(***************************************************************************)
EXTENDS Integers, FiniteSetTheorems, TLAPS

\* A set with 0 that is closed under successor has every natural number.
LEMMA Induct ==
  ASSUME NEW S, 0 \in S, \A n \in Nat : n \in S => n + 1 \in S
  PROVE  \A n \in Nat : n \in S
  <1> SUFFICES ASSUME NEW n \in Nat, n \notin S PROVE FALSE
    OBVIOUS
  <1> DEFINE B == {k \in 0..n : k \notin S}
             f == [k \in B |-> k - 1]
  <1>1. IsFiniteSet(B) /\ n \in B
    <2>1. IsFiniteSet(0..n) /\ B \subseteq 0..n
      BY FS_Interval
    <2> QED
      BY <2>1, FS_Subset
  <1>2. IsFiniteSet(B \ {n}) /\ Cardinality(B \ {n}) = Cardinality(B) - 1
    BY <1>1, FS_RemoveElement
  <1>3. \A k \in B : k - 1 \in B \ {n}
    OBVIOUS
  <1>4. f \in Injection(B, B \ {n})
    <2>1. f \in [B -> B \ {n}]
      BY <1>3
    <2>2. \A j, k \in B : f[j] = f[k] => j = k
      OBVIOUS
    <2> QED
      BY <2>1, <2>2 DEF Injection, IsInjective
  <1>5. Cardinality(B) <= Cardinality(B \ {n})
    <2> HIDE DEF B, f
    <2> QED
      BY <1>2, <1>4, FS_Injection
  <1>6. Cardinality(B) \in Nat
    BY <1>1, FS_CardinalityType
  <1> HIDE DEF B
  <1> QED
    BY <1>2, <1>5, <1>6

\* A set of natural numbers that is not empty has a least one.
LEMMA Least ==
  ASSUME NEW S \in SUBSET Nat, S # {}
  PROVE  \E n \in S : \A m \in S : n <= m
  <1> SUFFICES ASSUME \A n \in S : \E m \in S : m < n PROVE FALSE
    OBVIOUS
  <1> DEFINE Below == {n \in Nat : \A m \in S : n <= m}
  <1>1. 0 \in Below
    OBVIOUS
  <1>2. \A n \in Nat : n \in Below => n + 1 \in Below
    OBVIOUS
  <1>3. \A n \in Nat : n \in Below
    <2> HIDE DEF Below
    <2> QED
      BY <1>1, <1>2, Induct
  <1>4. PICK n \in S : TRUE
    OBVIOUS
  <1>5. n + 1 \in Below
    BY <1>3, <1>4
  <1> QED
    BY <1>4, <1>5

\* And a greatest one, if they are bounded.
LEMMA Greatest ==
  ASSUME NEW N \in Nat, NEW S \in SUBSET (0..N), S # {}
  PROVE  \E n \in S : \A m \in S : m <= n
  <1> DEFINE T == {k \in 0..N : N - k \in S}
  <1>1. T \in SUBSET Nat
    OBVIOUS
  <1>2. \A m \in S : N - m \in T
    OBVIOUS
  <1>3. PICK k \in T : \A l \in T : k <= l
    <2>1. T # {}
      BY <1>2
    <2> HIDE DEF T
    <2> QED
      BY <1>1, <2>1, Least
  <1>4. N - k \in S /\ k \in 0..N
    BY <1>3
  <1>5. ASSUME NEW m \in S PROVE m <= N - k
    <2>1. N - m \in T
      BY <1>2
    <2> HIDE DEF T
    <2>2. k <= N - m
      BY <1>3, <2>1
    <2>3. m \in 0..N
      OBVIOUS
    <2> QED
      BY <1>4, <2>2, <2>3
  <1> QED
    BY <1>4, <1>5

\* f begins with base and goes on, up to n, by step.
Recurs(f, base, step, n) ==
  /\ f[0] = base
  /\ \A k \in 1..n : f[k] = step[<<k, f[k - 1]>>]

\* A recursion over 0..N whose values stay in a set has a solution.
LEMMA Recurse ==
  ASSUME NEW D, NEW base \in D, NEW step \in [Nat \X D -> D], NEW N \in Nat
  PROVE  \E f \in [0..N -> D] : Recurs(f, base, step, N)
  <1> USE DEF Recurs
  <1> DEFINE Solves(f, n) == Recurs(f, base, step, n)
             S == {n \in Nat : \E f \in [0..n -> D] : Solves(f, n)}
  <1>1. 0 \in S
    <2>1. [k \in 0..0 |-> base] \in [0..0 -> D] /\ Solves([k \in 0..0 |-> base], 0)
      OBVIOUS
    <2> QED
      BY <2>1
  <1>2. ASSUME NEW n \in Nat, n \in S PROVE n + 1 \in S
    <2>1. PICK f \in [0..n -> D] : Solves(f, n)
      BY <1>2
    <2> DEFINE g == [k \in 0..n + 1 |-> IF k <= n THEN f[k] ELSE step[<<n + 1, f[n]>>]]
    <2>2. f[n] \in D /\ step[<<n + 1, f[n]>>] \in D
      BY <2>1
    <2>3. g \in [0..n + 1 -> D]
      BY <2>1, <2>2
    <2>4. \A k \in 0..n : g[k] = f[k]
      OBVIOUS
    <2>5. g[n + 1] = step[<<n + 1, f[n]>>]
      OBVIOUS
    <2>6. Solves(g, n + 1)
      <3>1. ASSUME NEW k \in 1..n + 1 PROVE g[k] = step[<<k, g[k - 1]>>]
        <4> HIDE DEF g
        <4>1. CASE k \in 1..n
          <5>1. k \in 0..n /\ k - 1 \in 0..n
            BY <4>1
          <5> QED
            BY <2>1, <2>4, <4>1, <5>1
        <4>2. CASE k = n + 1
          <5>1. g[k - 1] = f[n]
            BY <2>4, <4>2
          <5> QED
            BY <2>5, <4>2, <5>1
        <4> QED
          BY <4>1, <4>2
      <3>2. g[0] = base
        BY <2>1, <2>4
      <3> HIDE DEF g
      <3> QED
        BY <3>1, <3>2
    <2> HIDE DEF g
    <2> QED
      BY <2>3, <2>6
  <1>3. \A n \in Nat : n \in S
    <2> HIDE DEF S
    <2> QED
      BY <1>1, <1>2, Induct
  <1> QED
    BY <1>3

=============================================================================
