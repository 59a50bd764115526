------------------------------ MODULE Recursion ------------------------------
(***************************************************************************)
(* Induction and recursion along the natural numbers, over sets instead of *)
(* predicates: what a reduce over lines and a concatenation of the parts   *)
(* of a value are reasoned about with.                                     *)
(***************************************************************************)
EXTENDS Integers, WellFoundedInduction, TLAPS

\* A set with 0 and with the successor of each of its numbers has them all.
LEMMA SetInduction ==
  ASSUME NEW S, 0 \in S, \A n \in Nat : n \in S => n + 1 \in S
  PROVE  Nat \subseteq S
<1> DEFINE Others == Nat \ S
           Below == OpToRel(<, Nat)
<1> SUFFICES ASSUME Others # {} PROVE FALSE
  OBVIOUS
<1>1. IsWellFoundedOn(Below, Nat) BY NatLessThanWellFounded
<1>2. \A m, n \in Nat : m < n => <<m, n>> \in Below BY DEF OpToRel
<1>3. Others \subseteq Nat OBVIOUS
<1> HIDE DEF Below
<1>4. PICK n \in Others : \A m \in Others : <<m, n>> \notin Below
  BY <1>1, <1>3, WFMin
<1>5. n \in Nat /\ n \notin S /\ n # 0 OBVIOUS
<1>6. n - 1 \in Nat /\ n - 1 < n BY <1>5
<1>7. n - 1 \in S BY <1>2, <1>4, <1>5, <1>6
<1>8. (n - 1) + 1 \in S BY <1>6, <1>7
<1>9. QED BY <1>5, <1>8

\* The same up to a bound.
LEMMA BoundedInduction ==
  ASSUME NEW N \in Nat, NEW S, 0 \in S,
         \A n \in 0 .. N - 1 : n \in S => n + 1 \in S
  PROVE  \A n \in 0 .. N : n \in S
<1> DEFINE T == {n \in Nat : n <= N => n \in S}
<1>1. 0 \in T OBVIOUS
<1>2. \A n \in Nat : n \in T => n + 1 \in T
  <2> SUFFICES ASSUME NEW n \in Nat, n \in T, n + 1 <= N
               PROVE  n + 1 \in S
    OBVIOUS
  <2>1. n \in 0 .. N - 1 /\ n \in S OBVIOUS
  <2>2. QED BY <2>1
<1> HIDE DEF T
<1>3. Nat \subseteq T BY <1>1, <1>2, SetInduction
<1>4. QED BY <1>3 DEF T

\* A set of natural numbers has a least one.
LEMMA LeastExists ==
  ASSUME NEW S, S \subseteq Nat, S # {}
  PROVE  \E m \in S : \A n \in S : m <= n
<1> DEFINE Below == OpToRel(<, Nat)
<1>1. IsWellFoundedOn(Below, Nat) BY NatLessThanWellFounded
<1>2. \A m, n \in Nat : m < n => <<m, n>> \in Below BY DEF OpToRel
<1> HIDE DEF Below
<1>3. PICK m \in S : \A n \in S : <<n, m>> \notin Below BY <1>1, WFMin
<1>4. ASSUME NEW n \in S PROVE m <= n
  <2>1. m \in Nat /\ n \in Nat OBVIOUS
  <2>2. ~(n < m) BY <1>2, <1>3, <2>1
  <2>3. QED BY <2>1, <2>2
<1>5. QED BY <1>4

\* g iterates the step function N times, from start.
Iterates(g, S, start, N, step) ==
  /\ g \in [0 .. N -> S]
  /\ g[0] = start
  /\ \A n \in 1 .. N : g[n] = step[<<g[n - 1], n>>]

\* A step function can be iterated.
LEMMA Iteration ==
  ASSUME NEW S, NEW start \in S, NEW N \in Nat,
         NEW step \in [S \X (1 .. N) -> S]
  PROVE  \E g : Iterates(g, S, start, N, step)
<1> DEFINE Upto(k) == {g \in [0 .. k -> S] :
                         /\ g[0] = start
                         /\ \A n \in 1 .. k : g[n] = step[<<g[n - 1], n>>]}
           T == {k \in Nat : Upto(k) # {}}
<1>1. 0 \in T
  <2>1. [n \in 0 .. 0 |-> start] \in Upto(0) OBVIOUS
  <2>2. QED BY <2>1
<1>2. \A k \in 0 .. N - 1 : k \in T => k + 1 \in T
  <2> SUFFICES ASSUME NEW k \in 0 .. N - 1, NEW g \in Upto(k)
               PROVE  Upto(k + 1) # {}
    OBVIOUS
  <2> DEFINE h == [n \in 0 .. k + 1 |->
                     IF n <= k THEN g[n] ELSE step[<<g[k], k + 1>>]]
  <2>1. /\ g \in [0 .. k -> S] /\ g[0] = start /\ g[k] \in S
        /\ \A n \in 1 .. k : g[n] = step[<<g[n - 1], n>>]
    OBVIOUS
  <2>2. step[<<g[k], k + 1>>] \in S
    <3>1. <<g[k], k + 1>> \in S \X (1 .. N) BY <2>1
    <3>2. QED BY <3>1
  <2>3. h \in [0 .. k + 1 -> S] BY <2>1, <2>2
  <2>4. ASSUME NEW n \in 1 .. k + 1
        PROVE  h[n] = step[<<h[n - 1], n>>]
    <3>1. n - 1 \in 0 .. k /\ n - 1 <= k OBVIOUS
    <3>2. h[n - 1] = g[n - 1] BY <3>1
    <3>3. CASE n <= k BY <2>1, <3>2, <3>3
    <3>4. CASE n = k + 1
      <4>1. h[n] = step[<<g[k], k + 1>>] /\ n - 1 = k BY <3>4
      <4>2. QED BY <3>2, <3>4, <4>1
    <3>5. QED BY <3>3, <3>4
  <2>5. h[0] = start BY <2>1
  <2>6. h \in Upto(k + 1) BY <2>3, <2>4, <2>5
  <2>7. QED BY <2>6
<1> HIDE DEF T
<1>3. \A k \in 0 .. N : k \in T BY <1>1, <1>2, BoundedInduction
<1>4. N \in T BY <1>3
<1>5. QED BY <1>4 DEF T, Iterates
=============================================================================
