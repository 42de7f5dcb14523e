------------------------------ MODULE Induction ------------------------------
(***************************************************************************)
(* Induction over the natural numbers for sets of numbers, where the       *)
(* theorems of the library take an operator, and the functions that are    *)
(* defined step by step on an initial part of them.                        *)
(***************************************************************************)
EXTENDS Integers, WellFoundedInduction, TLAPS

LEMMA NatLeast ==
    ASSUME NEW S, S \subseteq Nat, S # {}
    PROVE  \E x \in S : \A y \in S : x <= y
  <1>1. IsWellFoundedOn(OpToRel(<, Nat), Nat)
    BY NatLessThanWellFounded
  <1>2. PICK x \in S : \A y \in S : ~ (<<y, x>> \in OpToRel(<, Nat))
    BY <1>1, WFMin
  <1>3. \A y \in S : ~(<<y, x>> \in {p \in Nat \X Nat : p[1] < p[2]})
    BY <1>2 DEF OpToRel
  <1>4. ASSUME NEW y \in S PROVE x <= y
    <2>1. x \in Nat /\ y \in Nat
      OBVIOUS
    <2>2. ~(y < x)
      <3> SUFFICES ASSUME y < x PROVE FALSE
        OBVIOUS
      <3>1. <<y, x>> \in {p \in Nat \X Nat : p[1] < p[2]}
        BY <2>1
      <3> QED
        BY <3>1, <1>3
    <2> QED
      BY <2>1, <2>2
  <1> QED
    BY <1>4

LEMMA NatBySteps ==
    ASSUME NEW S, 0 \in S, \A n \in Nat : n \in S => n + 1 \in S
    PROVE  Nat \subseteq S
  <1> SUFFICES ASSUME Nat \ S # {} PROVE FALSE
    OBVIOUS
  <1> DEFINE T == Nat \ S
  <1>1. PICK x \in T : \A y \in T : x <= y
    <2>1. T \subseteq Nat /\ T # {}
      OBVIOUS
    <2> HIDE DEF T
    <2> QED
      BY <2>1, NatLeast
  <1>2. x # 0 /\ x - 1 \in Nat /\ x - 1 \in S
    BY <1>1
  <1> QED
    BY <1>1, <1>2


(* There is a function that is defined by its first value and a step.      *)
Stepwise(f, n, c, step) ==
    f = [k \in 0 .. n |-> IF k = 0 THEN c ELSE step[<<k, f[k - 1]>>]]

LEMMA StepsDefine ==
    ASSUME NEW n \in Nat, NEW V, NEW c \in V, NEW step \in [(1 .. n) \X V -> V]
    PROVE  \E f \in [0 .. n -> V] : Stepwise(f, n, c, step)
  <1> DEFINE Good(m, f) == /\ f \in [0 .. m -> V] /\ f[0] = c
                           /\ \A k \in 1 .. m : f[k] = step[<<k, f[k - 1]>>]
             S == {m \in Nat : m <= n => \E f : Good(m, f)}
  <1>1. 0 \in S
    <2> DEFINE f == [k \in 0 .. 0 |-> c]
    <2>1. Good(0, f)
      OBVIOUS
    <2> HIDE DEF Good, f
    <2> QED
      BY <2>1
  <1>2. ASSUME NEW m \in Nat, m \in S PROVE m + 1 \in S
    <2> SUFFICES ASSUME m + 1 <= n PROVE \E f : Good(m + 1, f)
      OBVIOUS
    <2>1. PICK f : Good(m, f)
      <3> HIDE DEF Good
      <3> QED
        BY <1>2
    <2> DEFINE v == step[<<m + 1, f[m]>>]
               g == [k \in 0 .. m + 1 |-> IF k = m + 1 THEN v ELSE f[k]]
    <2>2. f[m] \in V /\ m + 1 \in 1 .. n
      BY <2>1
    <2>3. v \in V
      BY <2>2
    <2> HIDE DEF v
    <2>4. g \in [0 .. m + 1 -> V]
      BY <2>1, <2>3
    <2>5. g[0] = c
      BY <2>1
    <2>6. ASSUME NEW k \in 1 .. m + 1 PROVE g[k] = step[<<k, g[k - 1]>>]
      <3>1. k - 1 \in 0 .. m /\ g[k - 1] = f[k - 1]
        OBVIOUS
      <3>2. CASE k = m + 1
        <4>1. k - 1 = m
          BY <3>2
        <4>2. g[k] = v
          BY <3>2
        <4>3. v = step[<<k, f[k - 1]>>]
          BY <3>2, <4>1 DEF v
        <4> HIDE DEF g, v
        <4> QED
          BY <3>1, <4>2, <4>3
      <3>3. CASE k # m + 1
        <4>1. k \in 1 .. m
          BY <3>3
        <4> QED
          BY <2>1, <3>1, <3>3, <4>1
      <3> QED
        BY <3>2, <3>3
    <2> HIDE DEF g
    <2> QED
      BY <2>4, <2>5, <2>6
  <1>3. Nat \subseteq S
    <2> HIDE DEF S
    <2> QED
      BY <1>1, <1>2, NatBySteps
  <1>4. PICK f : Good(n, f)
    <2> HIDE DEF Good
    <2> QED
      BY <1>3
  <1>5. \A k \in 0 .. n : f[k] = IF k = 0 THEN c ELSE step[<<k, f[k - 1]>>]
    BY <1>4
  <1>6. f = [k \in 0 .. n |-> f[k]]
    BY <1>4
  <1>7. Stepwise(f, n, c, step)
    BY <1>5, <1>6 DEF Stepwise
  <1> QED
    BY <1>4, <1>7
=============================================================================
