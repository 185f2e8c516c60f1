---------------------------- MODULE NumberProofs ----------------------------
(***************************************************************************)
(* Induction up to a number, and the recursive functions over 0..n that     *)
(* rest on it: what is computed in n stages exists.                         *)
(***************************************************************************)
EXTENDS Naturals, NaturalsInduction, WellFoundedInduction, TLAPS

LEMMA LeastNumber ==
    ASSUME NEW T \in SUBSET Nat, T # {}
    PROVE  \E x \in T : \A y \in T : x <= y
<1>1. PICK x \in T : \A y \in T : ~ (<<y, x>> \in OpToRel(<, Nat))
    BY NatLessThanWellFounded, WFMin, Zenon
<1>2. OpToRel(<, Nat) = {ss \in Nat \X Nat : ss[1] < ss[2]}
    BY Zenon DEF OpToRel
<1>3. \A y \in T : ~ (<<y, x>> \in {ss \in Nat \X Nat : ss[1] < ss[2]})
    BY <1>1, <1>2, Zenon
<1>4. \A y \in T : ~ (y < x)
    BY <1>3
<1> QED
    BY <1>4

\* Induction up to n, of a set.
LEMMA UpTo ==
    ASSUME NEW n \in Nat, NEW T, 0 \in T, \A k \in 1..n : k - 1 \in T => k \in T
    PROVE  0..n \subseteq T
<1> SUFFICES ASSUME 0..n \ T # {} PROVE FALSE
    OBVIOUS
<1>1. PICK x \in 0..n \ T : \A y \in 0..n \ T : x <= y
  <2>1. PICK U : U = 0..n \ T
    OBVIOUS
  <2>2. U \in SUBSET Nat /\ U # {}
    BY <2>1
  <2> QED
    BY <2>1, <2>2, LeastNumber
<1>2. x # 0 /\ x \in 1..n /\ x - 1 \in 0..n
    BY <1>1
<1>3. x - 1 \in T
    BY <1>1, <1>2
<1> QED
    BY <1>1, <1>2, <1>3

\* The first m stages of a computation.
Stages(f, m, S, b, F) ==
    f \in [0..m -> S] /\ f[0] = b /\ \A k \in 1..m : f[k] = F[k][f[k - 1]]

\* What is computed in n stages exists.
LEMMA StagesExist ==
    ASSUME NEW n \in Nat, NEW S, NEW b \in S, NEW F \in [1..n -> [S -> S]]
    PROVE  \E f : Stages(f, n, S, b, F)
<1> DEFINE T == {m \in 0..n : \E f : Stages(f, m, S, b, F)}
<1>1. 0 \in T
  <2>1. Stages([i \in 0..0 |-> b], 0, S, b, F)
    BY DEF Stages
  <2>2. \E f : Stages(f, 0, S, b, F)
    BY <2>1
  <2> QED
    BY <2>2
<1>2. ASSUME NEW k \in 1..n, k - 1 \in T PROVE k \in T
  <2>1. PICK f : Stages(f, k - 1, S, b, F)
    BY <1>2
  <2> DEFINE g == [i \in 0..k |-> IF i = k THEN F[k][f[k - 1]] ELSE f[i]]
  <2>2. /\ k - 1 \in 0..(k - 1) /\ f \in [0..(k - 1) -> S] /\ f[0] = b
        /\ \A i \in 1..(k - 1) : f[i] = F[i][f[i - 1]]
    BY <2>1 DEF Stages
  <2>3. F[k][f[k - 1]] \in S
    BY <2>2
  <2>4. g \in [0..k -> S]
    BY <2>2, <2>3
  <2>5. g[0] = b
    BY <2>2
  <2>6. ASSUME NEW i \in 1..k PROVE g[i] = F[i][g[i - 1]]
    <3>1. i \in 0..k /\ i - 1 \in 0..k /\ i - 1 # k
      OBVIOUS
    <3>2. g[i - 1] = f[i - 1]
      BY <3>1
    <3>3. CASE i = k
      BY <3>1, <3>2, <3>3
    <3>4. CASE i # k
      <4>1. i \in 1..(k - 1)
        BY <3>4
      <4>2. g[i] = f[i]
        BY <3>1, <3>4
      <4> QED
        BY <2>2, <3>2, <4>1, <4>2
    <3> QED
      BY <3>3, <3>4
  <2>7. Stages(g, k, S, b, F)
    <3> HIDE DEF g
    <3> QED
      BY <2>4, <2>5, <2>6 DEF Stages
  <2>8. \E h : Stages(h, k, S, b, F)
    <3> HIDE DEF g
    <3> QED
      BY <2>7
  <2> QED
    BY <2>8
<1>3. 0..n \subseteq T
  <2> HIDE DEF T
  <2> QED
    BY <1>1, <1>2, UpTo
<1>4. n \in T
    BY <1>3
<1> QED
    BY <1>4
=============================================================================
