------------------------------ MODULE StepLemmas ------------------------------
(***************************************************************************)
(* Facts about sequences of any length that the proofs of several parts    *)
(* rest on: a set of numbers that holds 0 and with a number the next holds *)
(* all (Induction), a function that is made step by step from the value    *)
(* before exists (StepByStep), and joined sequences are one after another  *)
(* (FlattenSteps).                                                         *)
(***************************************************************************)
EXTENDS Integers, SequencesExt, WellFoundedInduction, TLAPS

\* A set of numbers has a least one.
LEMMA MinIn ==
    ASSUME NEW S \in SUBSET Nat, S # {} PROVE Min(S) \in S /\ \A y \in S : Min(S) =< y
<1> DEFINE less == OpToRel(<, Nat)
<1>1. PICK x \in S : \A y \in S : <<y, x>> \notin less
  BY NatLessThanWellFounded, WFMin
<1>2. \A y \in Nat : y < x => <<y, x>> \in less
  BY DEF OpToRel
<1> HIDE DEF less
<1>3. ASSUME NEW y \in S PROVE x =< y
  <2>1. ~(y < x)
    BY <1>1, <1>2
  <2> QED BY <2>1
<1> QED BY <1>3 DEF Min

\* Sets of numbers that hold 0, and with a number the next one.
LEMMA Induction ==
    ASSUME NEW S, 0 \in S, \A n \in Nat : n \in S => n + 1 \in S
    PROVE  Nat \subseteq S
<1> SUFFICES ASSUME Nat \ S # {} PROVE FALSE
  OBVIOUS
<1> DEFINE m == Min(Nat \ S)
<1>1. m \in Nat \ S
  BY MinIn
<1>2. \A y \in Nat \ S : m =< y
  BY MinIn
<1> HIDE DEF m
<1>3. m # 0 /\ m - 1 \in Nat
  BY <1>1
<1>4. m - 1 \in S
  BY <1>1, <1>2, <1>3
<1>5. (m - 1) + 1 = m
  BY <1>1
<1> QED BY <1>1, <1>3, <1>4, <1>5

\* The steps next on T lead somewhere, one after another from base.
Lead(T, base, n, next) ==
    \E g \in [0 .. n -> T] : g[0] = base /\ \A k \in 1 .. n : g[k] = next[k][g[k - 1]]

LEMMA StepByStep ==
    ASSUME NEW T, NEW base \in T, NEW n \in Nat, NEW next \in [1 .. n -> [T -> T]]
    PROVE  Lead(T, base, n, next)
<1> DEFINE Made(m, g) == g[0] = base /\ \A k \in 1 .. m : g[k] = next[k][g[k - 1]]
           S == {m \in Nat : m <= n => \E g \in [0 .. m -> T] : Made(m, g)}
<1>1. 0 \in S
  <2>1. [k \in 0 .. 0 |-> base] \in [0 .. 0 -> T] /\ Made(0, [k \in 0 .. 0 |-> base])
    OBVIOUS
  <2> QED BY <2>1
<1>2. ASSUME NEW m \in Nat, m \in S PROVE m + 1 \in S
  <2> SUFFICES ASSUME m + 1 <= n PROVE \E g \in [0 .. m + 1 -> T] : Made(m + 1, g)
    OBVIOUS
  <2>1. PICK g \in [0 .. m -> T] : Made(m, g)
    BY <1>2
  <2> DEFINE h == [k \in 0 .. m + 1 |-> IF k = m + 1 THEN next[m + 1][g[m]] ELSE g[k]]
  <2>2. next[m + 1] \in [T -> T] /\ g[m] \in T
    OBVIOUS
  <2>3. h \in [0 .. m + 1 -> T]
    BY <2>2
  <2>4. h[0] = base
    BY <2>1
  <2>5. ASSUME NEW k \in 1 .. m + 1 PROVE h[k] = next[k][h[k - 1]]
    <3>1. CASE k = m + 1
      BY <3>1
    <3>2. CASE k # m + 1
      <4>1. k \in 1 .. m /\ k - 1 \in 0 .. m /\ k - 1 # m + 1
        BY <3>2
      <4> QED BY <2>1, <4>1
    <3> QED BY <3>1, <3>2
  <2> HIDE DEF h
  <2> QED BY <2>3, <2>4, <2>5
<1> HIDE DEF S
<1>3. n \in S
  BY <1>1, <1>2, Induction
<1> QED BY <1>3 DEF S, Lead

\* Joined sequences, one after another.
Joined(X, n, seqs) ==
    \E f \in [1 .. n -> Seq(X)] :
        /\ f[1] = seqs[1]
        /\ \A i \in 2 .. n : f[i] = f[i - 1] \o seqs[i]
        /\ FlattenSeq(seqs) = f[n]

LEMMA FlattenSteps ==
    ASSUME NEW X, NEW n \in Nat \ {0}, NEW seqs, Len(seqs) = n, \A i \in 1 .. n : seqs[i] \in Seq(X)
    PROVE  Joined(X, n, seqs)
<1> DEFINE T == Seq(X)
           next == [k \in 1 .. n - 1 |-> [u \in T |-> u \o seqs[k + 1]]]
           Made(f) == f = [i \in 1 .. n |-> IF i = 1 THEN seqs[i] ELSE f[i - 1] \o seqs[i]]
<1>0. /\ \A i \in 1 .. n : seqs[i] \in T
      /\ \A u \in T, v \in T : u \o v \in T
  OBVIOUS
<1> HIDE DEF T
<1>1. next \in [1 .. n - 1 -> [T -> T]]
  <2>1. ASSUME NEW k \in 1 .. n - 1, NEW u \in T PROVE u \o seqs[k + 1] \in T
    BY <1>0
  <2> QED BY <2>1
<1>2. PICK g \in [0 .. n - 1 -> T] :
         g[0] = seqs[1] /\ \A k \in 1 .. n - 1 : g[k] = next[k][g[k - 1]]
  <2> HIDE DEF next
  <2>1. seqs[1] \in T /\ n - 1 \in Nat
    BY <1>0
  <2>2. Lead(T, seqs[1], n - 1, next)
    BY <1>1, <2>1, StepByStep
  <2> QED BY <2>2 DEF Lead
<1>3. Made([i \in 1 .. n |-> g[i - 1]])
  <2> DEFINE f == [i \in 1 .. n |-> g[i - 1]]
  <2>1. ASSUME NEW i \in 1 .. n PROVE f[i] = IF i = 1 THEN seqs[i] ELSE f[i - 1] \o seqs[i]
    <3>1. CASE i = 1
      BY <1>2, <3>1
    <3>2. CASE i # 1
      <4>1. i - 1 \in 1 .. n - 1 /\ i - 1 \in 1 .. n /\ (i - 1) - 1 \in 0 .. n - 1 /\ (i - 1) + 1 = i
        BY <3>2
      <4>2. g[i - 1] = next[i - 1][g[(i - 1) - 1]]
        BY <1>2, <4>1
      <4>3. g[i - 1] = g[(i - 1) - 1] \o seqs[i]
        BY <4>1, <4>2
      <4>4. f[i] = g[i - 1] /\ f[i - 1] = g[(i - 1) - 1]
        BY <4>1
      <4> QED BY <3>2, <4>3, <4>4
    <3> QED BY <3>1, <3>2
  <2> QED BY <2>1
<1> DEFINE f == CHOOSE f : Made(f)
<1>4. Made(f)
  BY <1>3
<1>5. FlattenSeq(seqs) = f[n]
  BY DEF FlattenSeq
<1> HIDE DEF f
<1>6. f[1] = seqs[1] /\ \A i \in 2 .. n : f[i] = f[i - 1] \o seqs[i]
  <2>1. 1 \in 1 .. n /\ \A i \in 2 .. n : i \in 1 .. n /\ i # 1
    OBVIOUS
  <2> QED BY <1>4, <2>1
<1>7. DOMAIN f = 1 .. n /\ f = [i \in 1 .. n |-> f[i]]
  BY <1>4
<1> DEFINE S == {k \in Nat : k + 1 <= n => f[k + 1] \in T}
<1>8. 0 \in S
  BY <1>0, <1>6
<1>9. ASSUME NEW k \in Nat, k \in S PROVE k + 1 \in S
  <2> SUFFICES ASSUME (k + 1) + 1 <= n PROVE f[(k + 1) + 1] \in T
    OBVIOUS
  <2>1. f[k + 1] \in T
    BY <1>9
  <2>2. (k + 1) + 1 \in 2 .. n /\ (k + 1) + 1 - 1 = k + 1 /\ seqs[(k + 1) + 1] \in T
    BY <1>0
  <2>3. f[(k + 1) + 1] = f[k + 1] \o seqs[(k + 1) + 1]
    <3> DEFINE i == (k + 1) + 1
    <3>1. i \in 2 .. n /\ i - 1 = k + 1
      BY <2>2
    <3> HIDE DEF i
    <3>2. f[i] = f[k + 1] \o seqs[i]
      BY <1>6, <3>1
    <3> QED BY <3>2 DEF i
  <2> QED BY <1>0, <2>1, <2>2, <2>3
<1>10. Nat \subseteq S
  <2> HIDE DEF S
  <2> QED BY <1>8, <1>9, Induction
<1>11. ASSUME NEW i \in 1 .. n PROVE f[i] \in T
  <2>1. i - 1 \in Nat /\ (i - 1) + 1 = i
    OBVIOUS
  <2>2. i - 1 \in S
    BY <1>10, <2>1
  <2> QED BY <2>1, <2>2
<1>12. f \in [1 .. n -> Seq(X)]
  BY <1>7, <1>11 DEF T
<1> QED BY <1>5, <1>6, <1>12 DEF Joined
===============================================================================
