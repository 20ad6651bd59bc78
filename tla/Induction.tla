----------------------------- MODULE Induction -----------------------------
(***************************************************************************)
(* Induction over the naturals and recursion on 0..n, for sets and for     *)
(* functions: the operators of the models that fold over a sequence or     *)
(* simulate a chain are recursive functions, and these are the facts that  *)
(* say what such a function computes.                                      *)
(***************************************************************************)
EXTENDS Integers, WellFoundedInduction, TLAPS

LessThan == OpToRel(<, Nat)

\* The order, as a set of pairs.
LEMMA LessThanPairs == LessThan = {ss \in Nat \X Nat : ss[1] < ss[2]}
  BY DEF LessThan, OpToRel

\* A set of naturals has a least member.
LEMMA LeastMember ==
  ASSUME NEW T, T \subseteq Nat, T # {}
  PROVE  \E n \in T : \A m \in T : n <= m
  <1>1. IsWellFoundedOn(LessThan, Nat)
    BY NatLessThanWellFounded, Zenon DEF LessThan
  <1>2. PICK n \in T : \A m \in T : ~ <<m, n>> \in LessThan
    BY <1>1, WFMin
  <1>3. \A m \in T : n <= m
    <2>1. \A m \in T : ~ (m < n)
      BY <1>2, LessThanPairs
    <2> QED
      BY <2>1
  <1> QED
    BY <1>3

\* A set that holds 0 and the successor of each of its members holds every natural.
LEMMA SetInduction ==
  ASSUME NEW S, 0 \in S, \A n \in Nat : n \in S => n + 1 \in S
  PROVE  Nat \subseteq S
  <1> SUFFICES ASSUME Nat \ S # {} PROVE FALSE
    OBVIOUS
  <1>1. PICK n \in Nat \ S : \A m \in Nat \ S : n <= m
    BY LeastMember
  <1>2. n # 0 /\ n - 1 \in Nat
    BY <1>1
  <1>3. n - 1 \in S
    BY <1>1, <1>2
  <1> QED
    BY <1>1, <1>2, <1>3

\* step[n] maps the value before n to the value at n.
Steps(N, V, step) == \A n \in 1..N : \A v \in V : step[n][v] \in V

Recursive(N, base, step, f) ==
    f[0] = base /\ \A n \in 1..N : f[n] = step[n][f[n - 1]]

\* A function on 0..N can be defined by its first value and a step from each to the next.
LEMMA FiniteRecursion ==
  ASSUME NEW N \in Nat, NEW V, NEW base \in V, NEW step, Steps(N, V, step)
  PROVE  \E f \in [0..N -> V] : Recursive(N, base, step, f)
  <1> USE DEF Recursive, Steps
  <1> DEFINE Upto(n, f) == Recursive(n, base, step, f)
             S == {n \in Nat : n <= N => \E f \in [0..n -> V] : Upto(n, f)}
  <1>1. 0 \in S
    <2>1. [i \in 0..0 |-> base] \in [0..0 -> V] /\ Upto(0, [i \in 0..0 |-> base])
      OBVIOUS
    <2> QED
      BY <2>1
  <1>2. ASSUME NEW n \in Nat, n \in S PROVE n + 1 \in S
    <2> SUFFICES ASSUME n + 1 <= N PROVE \E g \in [0..(n + 1) -> V] : Upto(n + 1, g)
      OBVIOUS
    <2>1. PICK f \in [0..n -> V] : Upto(n, f)
      BY <1>2
    <2> DEFINE g == [i \in 0..(n + 1) |-> IF i <= n THEN f[i] ELSE step[n + 1][f[n]]]
    <2>2. \A i \in 0..(n + 1) : g[i] \in V
      BY <2>1
    <2>3. ASSUME NEW i \in 1..(n + 1) PROVE g[i] = step[i][g[i - 1]]
      <3>1. CASE i <= n
        <4>1. i \in 1..n /\ i - 1 \in 0..n
          BY <3>1
        <4> QED
          BY <4>1, <2>1
      <3>2. CASE i = n + 1
        BY <3>2
      <3> QED
        BY <3>1, <3>2
    <2>4. g \in [0..(n + 1) -> V] /\ g[0] = base
      BY <2>1, <2>2
    <2> HIDE DEF g
    <2>5. Upto(n + 1, g)
      BY <2>3, <2>4
    <2> QED
      BY <2>4, <2>5
  <1> HIDE DEF S
  <1>3. N \in S
    BY <1>1, <1>2, SetInduction
  <1> QED
    BY <1>3 DEF S
=============================================================================
