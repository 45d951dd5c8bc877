---------------------------- MODULE NatInduction ----------------------------
(***************************************************************************)
(* Induction over the natural numbers, stated for sets.  The induction     *)
(* theorems of the library take an operator as a parameter; these lemmas   *)
(* take a set instead, and rest on the pigeonhole principle.               *)
(***************************************************************************)
EXTENDS Integers, FiniteSets, FiniteSetTheorems, TLAPS

(***************************************************************************)
(* A set of naturals that holds 0, and with each number the next one,      *)
(* holds all of them.  If k were missing, moving each number of 0 .. k     *)
(* that is in the set up by one would fit k + 1 numbers into 1 .. k.       *)
(***************************************************************************)
LEMMA SetInduction ==
  ASSUME NEW A \in SUBSET Nat, 0 \in A, \A n \in A : n + 1 \in A
  PROVE  A = Nat
<1>1. SUFFICES ASSUME NEW k \in Nat, k \notin A PROVE FALSE
  OBVIOUS
<1> DEFINE up == [ n \in 0 .. k |-> IF n \in A THEN n + 1 ELSE n ]
<1>2. up \in [ 0 .. k -> 1 .. k ]
  <2>1. SUFFICES ASSUME NEW n \in 0 .. k
                 PROVE  (IF n \in A THEN n + 1 ELSE n) \in 1 .. k
    OBVIOUS
  <2>2. CASE n \in A
    <3>1. n # k
      BY <2>2, <1>1
    <3> QED
      BY <2>2, <3>1
  <2>3. CASE n \notin A
    <3>1. n # 0
      BY <2>3
    <3> QED
      BY <2>3, <3>1
  <2> QED
    BY <2>2, <2>3
<1>3. \A m, n \in 0 .. k : up[m] = up[n] => m = n
  <2>1. SUFFICES ASSUME NEW m \in 0 .. k, NEW n \in 0 .. k, up[m] = up[n], m # n
                 PROVE  FALSE
    OBVIOUS
  <2>2. /\ (m \in A /\ n \notin A) \/ (m \notin A /\ n \in A)
    BY <2>1
  <2> QED
    BY <2>1, <2>2
<1>4. IsFiniteSet(0 .. k) /\ IsFiniteSet(1 .. k)
  BY FS_Interval
<1>5. Cardinality(1 .. k) < Cardinality(0 .. k)
  <2>1. Cardinality(0 .. k) = k + 1
    BY FS_Interval
  <2>2. Cardinality(1 .. k) = k
    BY FS_Interval
  <2> QED
    BY <2>1, <2>2
<1>6. \E m, n \in 0 .. k : m # n /\ up[m] = up[n]
  <2> HIDE DEF up
  <2> QED
    BY <1>2, <1>4, <1>5, FS_PigeonHole, Zenon
<1> QED
  BY <1>3, <1>6

\* A set of naturals that is not empty has a least element.
LEMMA LeastElement ==
  ASSUME NEW S \in SUBSET Nat, S # {}
  PROVE  \E m \in S : \A n \in S : m <= n
<1> SUFFICES ASSUME \A m \in S : \E n \in S : ~(m <= n)
             PROVE  FALSE
  OBVIOUS
<1> DEFINE A == { n \in Nat : \A s \in S : n < s }
<1>1. 0 \in A
  OBVIOUS
<1>2. ASSUME NEW n \in A PROVE n + 1 \in A
  OBVIOUS
<1>3. A = Nat
  <2>1. A \in SUBSET Nat
    OBVIOUS
  <2> HIDE DEF A
  <2> QED
    BY <1>1, <1>2, <2>1, SetInduction
<1>4. PICK s \in S : s \in A
  BY <1>3
<1> QED
  BY <1>4
=============================================================================
