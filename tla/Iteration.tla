------------------------------ MODULE Iteration ------------------------------
(* Induction over the natural numbers, and functions defined by recursion  *)
(* over 0..N.  The theorems of NaturalsInduction take an operator as       *)
(* parameter; here a set or a function stands for it.                      *)
EXTENDS Integers, WellFoundedInduction, TLAPS

(* A set that holds 0 and with every number the next one holds them all.   *)
LEMMA NatSetInduction ==
  ASSUME NEW S, 0 \in S, \A n \in Nat : n \in S => n + 1 \in S
  PROVE  Nat \subseteq S
<1>. DEFINE T == Nat \ S
            R == {p \in Nat \X Nat : p[1] < p[2]}
<1>1. IsWellFoundedOn(OpToRel(<, Nat), Nat)
  BY NatLessThanWellFounded
<1>2. OpToRel(<, Nat) = R
  BY DEF OpToRel
<1>3. IsWellFoundedOn(R, Nat)
  BY <1>1, <1>2
<1>. SUFFICES ASSUME T # {} PROVE FALSE
  OBVIOUS
<1>4. PICK m \in T : \A y \in T : ~ (<<y, m>> \in R)
  <2>. HIDE DEF R
  <2>. QED
    BY <1>3, WFMin
<1>5. m \in Nat /\ m # 0 /\ m - 1 \in Nat
  OBVIOUS
<1>6. m - 1 \in T /\ <<m - 1, m>> \in R
  BY <1>5
<1>. QED
  BY <1>4, <1>6

(* The same for the numbers up to N.                                       *)
LEMMA UpToInduction ==
  ASSUME NEW N \in Nat, NEW S, 0 \in S, \A n \in 0 .. N - 1 : n \in S => n + 1 \in S
  PROVE  0 .. N \subseteq S
<1>. DEFINE T == {n \in Nat : n <= N => n \in S}
<1>1. 0 \in T /\ \A n \in Nat : n \in T => n + 1 \in T
  OBVIOUS
<1>2. Nat \subseteq T
  <2>. HIDE DEF T
  <2>. QED
    BY <1>1, NatSetInduction
<1>. QED
  BY <1>2

(* A set of integers that is bounded below has a least element.            *)
LEMMA LeastElement ==
  ASSUME NEW S, S # {}, NEW a \in Int, \A x \in S : x \in Int /\ a <= x
  PROVE  \E m \in S : \A x \in S : m <= x
<1>. SUFFICES ASSUME \A m \in S : \E x \in S : ~ (m <= x)
              PROVE  FALSE
  OBVIOUS
<1>. DEFINE U == {n \in Nat : \A x \in S : a + n <= x}
<1>1. 0 \in U
  OBVIOUS
<1>2. ASSUME NEW n \in Nat, n \in U PROVE n + 1 \in U
  <2>. SUFFICES ASSUME NEW x \in S PROVE a + (n + 1) <= x
    OBVIOUS
  <2>1. x \in Int /\ a + n <= x
    BY <1>2
  <2>2. x # a + n
    BY <1>2
  <2>. QED
    BY <2>1, <2>2
<1>3. Nat \subseteq U
  <2>. HIDE DEF U
  <2>. QED
    BY <1>1, <1>2, NatSetInduction
<1>4. PICK x \in S : TRUE
  OBVIOUS
<1>5. x - a + 1 \in Nat /\ x \in Int
  OBVIOUS
<1>6. x - a + 1 \in U
  BY <1>3, <1>5
<1>7. a + (x - a + 1) <= x
  BY <1>6
<1>. QED
  BY <1>5, <1>7

(* f runs through the orbit of x under F, up to the Nth step.              *)
IsOrbit(f, F, x, N) == f[0] = x /\ \A i \in 0 .. N : i # 0 => f[i] = F[f[i - 1]]

(* Such a function exists.                                                 *)
LEMMA Orbit ==
  ASSUME NEW S, NEW F \in [S -> S], NEW x \in S, NEW N \in Nat
  PROVE  \E f \in [0 .. N -> S] : IsOrbit(f, F, x, N)
<1>. DEFINE Def(f, i) == IF i = 0 THEN x ELSE F[f[i - 1]]
            T == {m \in Nat : \E f \in [0 .. m -> S] : f = [i \in 0 .. m |-> Def(f, i)]}
<1>1. 0 \in T
  <2>. DEFINE f == [i \in 0 .. 0 |-> x]
  <2>1. f = [i \in 0 .. 0 |-> Def(f, i)] /\ f \in [0 .. 0 -> S]
    OBVIOUS
  <2>. QED
    BY <2>1
<1>2. \A m \in Nat : m \in T => m + 1 \in T
  <2>. SUFFICES ASSUME NEW m \in Nat, m \in T PROVE m + 1 \in T
    OBVIOUS
  <2>1. PICK f \in [0 .. m -> S] : f = [i \in 0 .. m |-> Def(f, i)]
    OBVIOUS
  <2>. DEFINE g == [i \in 0 .. m + 1 |-> IF i <= m THEN f[i] ELSE F[f[m]]]
  <2>2. g \in [0 .. m + 1 -> S]
    OBVIOUS
  <2>3. ASSUME NEW i \in 0 .. m + 1 PROVE g[i] = Def(g, i)
    <3>1. CASE i = 0
      BY <2>1, <3>1
    <3>2. CASE i # 0
      <4>1. i - 1 \in 0 .. m /\ g[i - 1] = f[i - 1]
        BY <3>2
      <4>2. CASE i <= m
        <5>1. i \in 0 .. m /\ g[i] = f[i]
          BY <4>2
        <5>2. f[i] = F[f[i - 1]]
          BY <2>1, <3>2, <5>1
        <5>. QED
          BY <3>2, <4>1, <5>1, <5>2
      <4>3. CASE i = m + 1
        BY <3>2, <4>1, <4>3
      <4>. QED
        BY <4>2, <4>3
    <3>. QED
      BY <3>1, <3>2
  <2>4. g = [i \in 0 .. m + 1 |-> Def(g, i)]
    BY <2>3
  <2>. HIDE DEF g
  <2>5. \E q \in [0 .. m + 1 -> S] : q = [i \in 0 .. m + 1 |-> Def(q, i)]
    BY <2>2, <2>4
  <2>. QED
    BY <2>5
<1>3. N \in T
  <2>. HIDE DEF T
  <2>. QED
    BY <1>1, <1>2, NatSetInduction
<1>4. PICK f \in [0 .. N -> S] : f = [i \in 0 .. N |-> Def(f, i)]
  BY <1>3
<1>5. \A i \in 0 .. N : f[i] = Def(f, i)
  BY <1>4
<1>6. IsOrbit(f, F, x, N)
  BY <1>5 DEF IsOrbit
<1>. QED
  BY <1>6
=============================================================================
