--------------------------- MODULE InductionFacts ---------------------------
(* Induction on the natural numbers without an operator as a parameter, for the
   walks over a sequence that are written as recursive functions: a set that
   holds 0 and every successor is all of Nat, a walk exists, and two walks with
   the same steps agree. *)
EXTENDS Integers, TLAPS, WellFoundedInduction

\* A set of natural numbers has a least member.
LEMMA LeastNatural ==
  ASSUME NEW T \in SUBSET Nat, T # {}
  PROVE  \E x \in T : \A y \in T : x <= y
<1> DEFINE R == OpToRel(<, Nat)
<1>1. IsWellFoundedOn(R, Nat)
  BY NatLessThanWellFounded
<1>2. \A x, y \in Nat : <<y, x>> \in R <=> y < x
  BY DEF OpToRel
<1> HIDE DEF R
<1>3. PICK x \in T : \A y \in T : ~(<<y, x>> \in R)
  BY <1>1, WFMin
<1>4. \A y \in T : x \in Nat /\ y \in Nat /\ ~(y < x)
  BY <1>2, <1>3
<1>5. \A y \in T : x <= y
  BY <1>4
<1> QED  BY <1>3, <1>5

\* Induction.
LEMMA Induct ==
  ASSUME NEW S, 0 \in S, \A n \in Nat : n \in S => n + 1 \in S
  PROVE  Nat \subseteq S
<1> DEFINE T == Nat \ S
<1> SUFFICES ASSUME T # {} PROVE FALSE
  OBVIOUS
<1>1. PICK x \in T : \A y \in T : x <= y
  BY LeastNatural
<1>2. x # 0 /\ x - 1 \in Nat
  BY <1>1
<1>3. x - 1 \in S
  BY <1>1, <1>2
<1> QED  BY <1>1, <1>2, <1>3

\* Two walks that start alike and, from alike, step alike.
StepAlike(n, g, h) ==
  /\ g[0] = h[0]
  /\ \A k \in 1..n : g[k - 1] = h[k - 1] => g[k] = h[k]

\* Walks of the same steps agree.
LEMMA WalksAgree ==
  ASSUME NEW n \in Nat, NEW g, NEW h, StepAlike(n, g, h)
  PROVE  \A k \in 0..n : g[k] = h[k]
<1> DEFINE S == {k \in Nat : k <= n => g[k] = h[k]}
<1>1. 0 \in S
  BY DEF StepAlike
<1>2. ASSUME NEW k \in Nat, k \in S  PROVE k + 1 \in S
  <2>1. CASE k + 1 <= n
    <3>1. k + 1 \in 1..n /\ (k + 1) - 1 = k
      BY <2>1
    <3>2. g[k] = h[k]
      BY <1>2, <2>1
    <3> QED  BY <3>1, <3>2 DEF StepAlike
  <2>2. CASE ~(k + 1 <= n)
    BY <2>2
  <2> QED  BY <2>1, <2>2
<1> HIDE DEF S
<1>3. Nat \subseteq S
  BY <1>1, <1>2, Induct
<1> QED  BY <1>3 DEF S

\* Steps within a set, from one of its members, and a walk that takes them.
Walkable(n, A, c, step) == c \in A /\ step \in [1..n -> [A -> A]]
Walks(n, A, c, step, g) ==
  /\ g \in [0..n -> A] /\ g[0] = c
  /\ \A k \in 1..n : g[k] = step[k][g[k - 1]]

\* There is one.
LEMMA WalkExists ==
  ASSUME NEW n \in Nat, NEW A, NEW c, NEW step, Walkable(n, A, c, step)
  PROVE  \E g : Walks(n, A, c, step, g)
<1> DEFINE S == {m \in Nat : m <= n => \E g : Walks(m, A, c, step, g)}
<1> USE DEF Walkable, Walks
<1>1. 0 \in S
  <2> DEFINE g == [k \in 0..0 |-> c]
  <2>1. Walks(0, A, c, step, g)
    OBVIOUS
  <2> QED  BY <2>1
<1>2. ASSUME NEW m \in Nat, m \in S  PROVE m + 1 \in S
  <2>1. CASE m + 1 <= n
    <3>1. PICK g : Walks(m, A, c, step, g)
      BY <1>2, <2>1
    <3>2. g[m] \in A /\ m + 1 \in 1..n
      BY <2>1, <3>1
    <3> DEFINE h == [k \in 0..(m + 1) |-> IF k <= m THEN g[k] ELSE step[m + 1][g[m]]]
    <3>3. h \in [0..(m + 1) -> A]
      BY <3>1, <3>2
    <3>4. h[0] = c
      BY <3>1
    <3>5. ASSUME NEW k \in 1..(m + 1)  PROVE h[k] = step[k][h[k - 1]]
      <4>1. CASE k <= m
        BY <3>1, <4>1
      <4>2. CASE k = m + 1
        BY <3>1, <4>2
      <4> QED  BY <4>1, <4>2
    <3>6. Walks(m + 1, A, c, step, h)
      BY <3>3, <3>4, <3>5
    <3> HIDE DEF h
    <3> QED  BY <3>6
  <2>2. CASE ~(m + 1 <= n)
    BY <2>2
  <2> QED  BY <2>1, <2>2
<1>3. n \in S
  <2> HIDE DEF S
  <2> QED  BY <1>1, <1>2, Induct
<1> HIDE DEF Walks
<1> QED  BY <1>3
=============================================================================
