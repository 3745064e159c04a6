---------------------------- MODULE FoldInduction ----------------------------
(***************************************************************************)
(* Induction over the natural numbers, and what the left folds of the      *)
(* community modules are: the last of a run of values, each made from the  *)
(* one before it and the next element of the sequence.                     *)
(*                                                                         *)
(* The library's induction theorems have an operator as a parameter, which *)
(* the provers here cannot instantiate; so induction is stated over sets,  *)
(* and what a fold does with its elements is a function, step.  A module   *)
(* that proves something of a fold defines its step and cites FoldExists   *)
(* and FoldIsRun for it; for a recursive function over the indices of a    *)
(* sequence, RunExists and RunsAgree.                                      *)
(***************************************************************************)
EXTENDS Integers, Sequences, FiniteSets, SequencesExt, WellFoundedInduction, TLAPS

\* A set of naturals that is not empty has a least element.
LEMMA LeastNat ==
  ASSUME NEW T, T \subseteq Nat, T # {}
  PROVE  \E x \in T : \A y \in T : x <= y
<1>1. PICK x \in T : \A y \in T : <<y, x>> \notin OpToRel(<, Nat)
  BY WFMin, NatLessThanWellFounded
<1>2. ASSUME NEW y \in T PROVE x <= y
  <2>1. x \in Nat /\ y \in Nat
    OBVIOUS
  <2>2. ~(y < x)
    BY <1>1, <2>1 DEF OpToRel
  <2> QED
    BY <2>1, <2>2
<1> QED
  BY <1>2

\* Induction: a set that holds 0, and with each number the next, holds them all.
LEMMA NatSetInduction ==
  ASSUME NEW S, 0 \in S, \A n \in Nat : n \in S => n + 1 \in S
  PROVE  Nat \subseteq S
<1>1. SUFFICES ASSUME Nat \ S # {} PROVE FALSE
  OBVIOUS
<1>2. PICK x \in Nat \ S : \A y \in Nat \ S : x <= y
  BY <1>1, LeastNat
<1>3. x # 0 /\ x - 1 \in Nat
  BY <1>2
<1>4. x - 1 \in S
  BY <1>2, <1>3
<1> QED
  BY <1>2, <1>3, <1>4

\* Induction up to a bound.
LEMMA UpToInduction ==
  ASSUME NEW n \in Nat, NEW S, 0 \in S, \A i \in 0..n - 1 : i \in S => i + 1 \in S
  PROVE  0..n \subseteq S
<1> DEFINE R == {i \in Nat : i <= n => i \in S}
<1>1. 0 \in R
  OBVIOUS
<1>2. ASSUME NEW i \in Nat, i \in R PROVE i + 1 \in R
  BY <1>2
<1>3. Nat \subseteq R
  <2> HIDE DEF R
  <2> QED
    BY <1>1, <1>2, NatSetInduction
<1> QED
  BY <1>3

\* A set of naturals up to n that is not empty has a greatest element.
LEMMA GreatestUpTo ==
  ASSUME NEW n \in Nat, NEW t \in SUBSET (0..n), t # {}
  PROVE  \E x \in t : \A y \in t : y <= x
<1> DEFINE T == {k \in Nat : n - k \in t}
<1>1. T \subseteq Nat /\ T # {}
  <2>1. PICK x \in t : TRUE
    OBVIOUS
  <2>2. x \in 0..n
    OBVIOUS
  <2>3. n - x \in Nat /\ n - (n - x) = x
    BY <2>2
  <2>4. n - x \in T
    BY <2>1, <2>3
  <2> QED
    BY <2>4
<1>2. PICK k \in T : \A j \in T : k <= j
  <2> HIDE DEF T
  <2> QED
    BY <1>1, LeastNat
<1>3. ASSUME NEW x \in t PROVE x <= n - k
  <2>1. x \in 0..n
    OBVIOUS
  <2>2. n - x \in Nat /\ n - (n - x) = x
    BY <2>1
  <2>3. n - x \in T
    BY <2>2
  <2> QED
    BY <1>2, <2>1, <2>3
<1> QED
  BY <1>2, <1>3

LEMMA MaxUpTo ==
  ASSUME NEW n \in Nat, NEW t \in SUBSET (1..n), t # {}
  PROVE  Max(t) \in t /\ \A x \in t : x <= Max(t)
<1>1. t \in SUBSET (0..n)
  OBVIOUS
<1>2. PICK m \in t : \A x \in t : x <= m
  BY <1>1, GreatestUpTo
<1>3. \E y \in t : \A x \in t : y >= x
  BY <1>2
<1>4. Max(t) \in t /\ \A x \in t : Max(t) >= x
  BY <1>3 DEF Max
<1> QED
  BY <1>4

LEMMA MaxOfInitial ==
  ASSUME NEW n \in Nat, NEW i \in 1..n
  PROVE  Max(1..i) = i /\ (1..i) \ {i} = 1..i - 1
<1>1. 1..i \in SUBSET (1..n) /\ i \in 1..i
  OBVIOUS
<1>2. Max(1..i) \in 1..i /\ \A x \in 1..i : x <= Max(1..i)
  BY <1>1, MaxUpTo
<1> QED
  BY <1>1, <1>2

-----------------------------------------------------------------------------
(* Folds *)

\* A fold of n elements s[i] of T from b, each of whose steps stays in S.
IsStep(n, S, T, b, step, s) ==
  /\ n \in Nat /\ b \in S
  /\ step \in [S \X T -> S]
  /\ s \in [1..n -> T]

\* The recursive function of the fold, which is applied to 1..n; the second
\* form speaks only of the sets on which it is known to be in S.
IsFold(h, n, b, step, s) ==
  \A t \in SUBSET (1..n) :
    h[t] = IF t = {} THEN b ELSE step[<<h[t \ {Max(t)}], s[Max(t)]>>]
IsFoldOn(h, S, n, b, step, s) ==
  /\ h[{}] = b
  /\ \A t \in SUBSET (1..n) :
       t # {} /\ h[t \ {Max(t)}] \in S => h[t] = step[<<h[t \ {Max(t)}], s[Max(t)]>>]

\* f[i] is the fold of the first i elements.
IsRun(f, n, b, step, s) ==
  /\ f[0] = b
  /\ \A i \in 1..n : f[i] = step[<<f[i - 1], s[i]>>]

\* f and g start with the same value and make the same steps.
SameSteps(f, g, n) ==
  /\ n \in Nat
  /\ f[0] = g[0]
  /\ \A i \in 1..n : f[i - 1] = g[i - 1] => f[i] = g[i]

\* The recursive function behind a fold of n elements exists.
LEMMA FoldExists ==
  ASSUME NEW n, NEW S, NEW T, NEW b, NEW step, NEW s, IsStep(n, S, T, b, step, s)
  PROVE  \E it \in [SUBSET (1..n) -> S] : IsFold(it, n, b, step, s)
<1> USE DEF IsStep
<1> DEFINE Eq(it, m) ==
             /\ it \in [SUBSET (1..m) -> S]
             /\ \A t \in SUBSET (1..m) :
                  it[t] = IF t = {} THEN b ELSE step[<<it[t \ {Max(t)}], s[Max(t)]>>]
           R == {m \in 0..n : \E it : Eq(it, m)}
<1>1. 0 \in R
  <2> DEFINE it == [t \in SUBSET (1..0) |-> b]
  <2>1. Eq(it, 0)
    OBVIOUS
  <2> HIDE DEF Eq, it
  <2>2. 0 \in 0..n
    OBVIOUS
  <2> QED
    BY <2>1, <2>2
<1>2. ASSUME NEW m \in 0..n - 1, m \in R PROVE m + 1 \in R
  <2>0. m \in Nat /\ m + 1 \in Nat /\ m + 1 \in 0..n
    OBVIOUS
  <2>1. PICK it : Eq(it, m)
    BY <1>2
  <2> DEFINE old(t) == t \ {m + 1}
             new == [t \in SUBSET (1..m + 1) |->
                       IF m + 1 \in t THEN step[<<it[old(t)], s[m + 1]>>] ELSE it[t]]
  <2>2. ASSUME NEW t \in SUBSET (1..m + 1) PROVE old(t) \in SUBSET (1..m) /\ it[old(t)] \in S
    BY <2>1, <2>2
  <2>3. ASSUME NEW t \in SUBSET (1..m + 1), m + 1 \notin t PROVE t \in SUBSET (1..m)
    BY <2>3
  <2>4. new \in [SUBSET (1..m + 1) -> S]
    <3>1. s[m + 1] \in T
      OBVIOUS
    <3> QED
      BY <2>1, <2>2, <2>3, <3>1
  <2>5. ASSUME NEW t \in SUBSET (1..m + 1)
        PROVE  new[t] = IF t = {} THEN b ELSE step[<<new[t \ {Max(t)}], s[Max(t)]>>]
    <3>1. CASE m + 1 \in t
      <4>1. Max(t) \in t /\ m + 1 <= Max(t)
        BY <2>0, <3>1, MaxUpTo
      <4>2. Max(t) = m + 1
        <5>1. Max(t) \in 1..m + 1
          BY <4>1
        <5> QED
          BY <2>0, <4>1, <5>1
      <4>3. new[old(t)] = it[old(t)]
        BY <2>2
      <4> QED
        BY <3>1, <4>2, <4>3
    <3>2. CASE m + 1 \notin t /\ t # {}
      <4>1. t \in SUBSET (1..m)
        BY <3>2, <2>3
      <4>2. Max(t) \in t
        BY <2>0, <3>2, <4>1, MaxUpTo
      <4>3. t \ {Max(t)} \in SUBSET (1..m) /\ m + 1 \notin t \ {Max(t)}
            /\ t \ {Max(t)} \in SUBSET (1..m + 1)
        BY <2>0, <3>2, <4>1
      <4>4. new[t \ {Max(t)}] = it[t \ {Max(t)}] /\ new[t] = it[t]
        BY <3>2, <4>3
      <4> QED
        BY <2>1, <3>2, <4>1, <4>4
    <3>3. CASE t = {}
      BY <2>1, <3>3
    <3> QED
      BY <3>1, <3>2, <3>3
  <2>6. Eq(new, m + 1)
    <3> HIDE DEF new
    <3> QED
      BY <2>4, <2>5
  <2> HIDE DEF Eq, new
  <2> QED
    BY <2>0, <2>6
<1>3. n \in R
  <2>1. 0..n \subseteq R
    <3> HIDE DEF R
    <3> QED
      BY <1>1, <1>2, UpToInduction
  <2> HIDE DEF Eq
  <2> QED
    BY <2>1
<1>4. PICK it : Eq(it, n)
  BY <1>3
<1> QED
  BY <1>4 DEF IsFold

\* Such a function on the first i elements is a run: one step for each element.
LEMMA FoldIsRun ==
  ASSUME NEW n, NEW S, NEW T, NEW b, NEW step, NEW s, IsStep(n, S, T, b, step, s),
         NEW h, IsFoldOn(h, S, n, b, step, s)
  PROVE  \E f \in [0..n -> S] : IsRun(f, n, b, step, s) /\ f[n] = h[1..n]
<1> USE DEF IsStep, IsFoldOn
<1> DEFINE f == [i \in 0..n |-> h[1..i]]
           R == {i \in 0..n : f[i] \in S}
<1>1. f[0] = b
  <2>1. 1..0 = {}
    OBVIOUS
  <2> QED
    BY <2>1
<1>2. ASSUME NEW i \in 1..n, f[i - 1] \in S
      PROVE  f[i] = step[<<f[i - 1], s[i]>>]
  <2>1. Max(1..i) = i /\ (1..i) \ {i} = 1..i - 1
    BY MaxOfInitial
  <2>2. i \in 1..i /\ 1..i \subseteq 1..n /\ i \in 0..n /\ i - 1 \in 0..n
    OBVIOUS
  <2>3. f[i] = h[1..i] /\ f[i - 1] = h[1..i - 1]
    BY <2>2
  <2> HIDE DEF f
  <2> QED
    BY <1>2, <2>1, <2>2, <2>3
<1>3. 0 \in R
  BY <1>1
<1>4. ASSUME NEW i \in 0..n - 1, i \in R PROVE i + 1 \in R
  <2>1. i + 1 \in 1..n /\ f[i + 1 - 1] \in S /\ s[i + 1] \in T
    BY <1>4
  <2> HIDE DEF f
  <2>2. f[i + 1] = step[<<f[i + 1 - 1], s[i + 1]>>]
    BY <1>2, <2>1
  <2>3. f[i + 1] \in S
    BY <2>1, <2>2
  <2> QED
    BY <2>1, <2>3
<1>5. 0..n \subseteq R
  <2> HIDE DEF R
  <2> QED
    BY <1>3, <1>4, UpToInduction
<1>6. \A i \in 0..n : f[i] \in S
  BY <1>5
<1>7. f \in [0..n -> S] /\ f[n] = h[1..n]
  BY <1>6
<1> HIDE DEF f
<1>8. ASSUME NEW i \in 1..n PROVE f[i] = step[<<f[i - 1], s[i]>>]
  <2>1. i - 1 \in 0..n
    OBVIOUS
  <2> QED
    BY <1>2, <1>6, <2>1
<1> QED
  BY <1>1, <1>7, <1>8 DEF IsRun

\* A run of any step exists.
LEMMA RunExists ==
  ASSUME NEW n, NEW S, NEW T, NEW b, NEW step, NEW s, IsStep(n, S, T, b, step, s)
  PROVE  \E f \in [0..n -> S] : IsRun(f, n, b, step, s)
<1>1. PICK it \in [SUBSET (1..n) -> S] : IsFold(it, n, b, step, s)
  BY FoldExists
<1>2. IsFoldOn(it, S, n, b, step, s)
  BY <1>1 DEF IsFold, IsFoldOn
<1> QED
  BY <1>2, FoldIsRun

\* There is one such run only.
LEMMA RunsAgree ==
  ASSUME NEW n, NEW f, NEW g, SameSteps(f, g, n)
  PROVE  \A i \in 0..n : f[i] = g[i]
<1> USE DEF SameSteps
<1> DEFINE R == {i \in 0..n : f[i] = g[i]}
<1>1. 0 \in R
  OBVIOUS
<1>2. ASSUME NEW i \in 0..n - 1, i \in R PROVE i + 1 \in R
  <2>1. i + 1 \in 1..n /\ i + 1 - 1 = i
    OBVIOUS
  <2> QED
    BY <1>2, <2>1
<1>3. 0..n \subseteq R
  <2> HIDE DEF R
  <2> QED
    BY <1>1, <1>2, UpToInduction
<1> QED
  BY <1>3
=============================================================================
