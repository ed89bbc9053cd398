------------------------------- MODULE Recursion -------------------------------
(***************************************************************************)
(* Induction over an interval, for recursive functions f[k \in 0..N] whose   *)
(* value at k depends on k and on the value at k - 1: totals over numbered   *)
(* nodes, rounds of a schedule, the replay of a journal.                     *)
(***************************************************************************)
EXTENDS Integers, WellFoundedInduction, TLAPS

(* What holds at 0 and passes from k - 1 to k holds up to N.                 *)
LEMMA IntervalInduction ==
  ASSUME NEW N \in Nat, NEW S, 0 \in S, \A k \in 1..N : k - 1 \in S => k \in S
  PROVE  0..N \subseteq S
<1> SUFFICES ASSUME (0..N) \ S # {} PROVE FALSE
  OBVIOUS
<1>1. (0..N) \ S \subseteq Nat
  OBVIOUS
<1>2. PICK x \in (0..N) \ S : \A y \in (0..N) \ S : ~(<<y, x>> \in OpToRel(<, Nat))
  BY <1>1, NatLessThanWellFounded, WFMin
<1>3. x \in 1..N
  OBVIOUS
<1>4. x - 1 \in 0..N /\ x - 1 \in Nat /\ x - 1 < x
  BY <1>3
<1>5. <<x - 1, x>> \in OpToRel(<, Nat)
  BY <1>1, <1>4 DEF OpToRel
<1>6. x - 1 \in S
  BY <1>2, <1>4, <1>5
<1> QED
  BY <1>3, <1>6

(* f starts at base and goes on by steps.                                    *)
Recurs(f, N, base, step) == f[0] = base /\ \A k \in 1..N : f[k] = step[k][f[k - 1]]
(* Such a function exists, so that the recursive definition describes it.    *)
LEMMA IntervalRecursion ==
  ASSUME NEW N \in Nat, NEW S, NEW base \in S, NEW step \in [1..N -> [S -> S]]
  PROVE  \E f \in [0..N -> S] : Recurs(f, N, base, step)
<1> DEFINE Upto(f, m) == \A k \in 0..m : f[k] = IF k = 0 THEN base ELSE step[k][f[k - 1]]
           Built == {m \in 0..N : \E f \in [0..m -> S] : Upto(f, m)}
<1>1. 0 \in Built
  <2>1. [k \in 0..0 |-> base] \in [0..0 -> S] /\ Upto([k \in 0..0 |-> base], 0)
    OBVIOUS
  <2>2. \E f \in [0..0 -> S] : Upto(f, 0)
    BY <2>1
  <2> QED
    BY <2>2
<1>2. ASSUME NEW m \in 1..N, m - 1 \in Built
      PROVE  m \in Built
  <2>1. PICK f \in [0..m - 1 -> S] : Upto(f, m - 1)
    BY <1>2
  <2> DEFINE g == [k \in 0..m |-> IF k = m THEN step[m][f[m - 1]] ELSE f[k]]
  <2>2. f[m - 1] \in S /\ step[m] \in [S -> S] /\ step[m][f[m - 1]] \in S
    OBVIOUS
  <2>3. \A k \in 0..m : k # m => k \in 0..m - 1
    OBVIOUS
  <2>4. g \in [0..m -> S]
    BY <2>2, <2>3
  <2>5. \A k \in 0..m : k # 0 => k - 1 \in 0..m - 1 /\ g[k - 1] = f[k - 1]
    OBVIOUS
  <2>6. Upto(g, m)
    BY <2>1, <2>3, <2>5
  <2> HIDE DEF g
  <2> QED
    BY <2>4, <2>6
<1> HIDE DEF Built
<1>3. \A k \in 1..N : k - 1 \in Built => k \in Built
  BY <1>2
<1>4. 0..N \subseteq Built
  BY <1>1, <1>3, IntervalInduction, Zenon
<1>5. N \in Built
  BY <1>4
<1>6. PICK f \in [0..N -> S] : Upto(f, N)
  BY <1>5 DEF Built
<1>7. Recurs(f, N, base, step)
  BY <1>6 DEF Recurs
<1> QED
  BY <1>7

(* A set of bounded numbers that is not empty has a largest one.             *)
LEMMA IntervalMaximum ==
  ASSUME NEW N \in Nat, NEW S \in SUBSET (0..N), S # {}
  PROVE  \E x \in S : \A y \in S : y <= x
<1> DEFINE Below(k) == {x \in S : x <= k}
           Maximum(T) == \E x \in T : \A y \in T : y <= x
           Settled == {k \in 0..N : Below(k) = {} \/ Maximum(Below(k))}
<1>1. \A x \in S : x \in Nat /\ x <= N
  OBVIOUS
<1>2. 0 \in Settled
  <2>1. \A x \in Below(0) : x = 0
    BY <1>1
  <2>2. Below(0) = {} \/ Maximum(Below(0))
    <3>1. \A x, y \in Below(0) : y <= x
      BY <2>1
    <3> QED
      BY <3>1
  <2> QED
    BY <2>2
<1>3. ASSUME NEW k \in 1..N, k - 1 \in Settled
      PROVE  k \in Settled
  <2>1. CASE k \in S
    <3>1. k \in Below(k) /\ \A y \in Below(k) : y <= k
      BY <2>1
    <3>2. Maximum(Below(k))
      BY <3>1
    <3> QED
      BY <3>2
  <2>2. CASE k \notin S
    <3>1. \A x \in S : x <= k <=> x <= k - 1
      BY <1>1, <2>2
    <3>2. Below(k) = Below(k - 1)
      BY <3>1
    <3>3. Below(k - 1) = {} \/ Maximum(Below(k - 1))
      BY <1>3
    <3> HIDE DEF Below, Maximum
    <3>4. Below(k) = {} \/ Maximum(Below(k))
      BY <3>2, <3>3
    <3> QED
      BY <3>4
  <2> QED
    BY <2>1, <2>2
<1> HIDE DEF Settled
<1>4. \A k \in 1..N : k - 1 \in Settled => k \in Settled
  BY <1>3
<1>5. 0..N \subseteq Settled
  BY <1>2, <1>4, IntervalInduction, Zenon
<1>6. N \in Settled
  BY <1>5
<1>7. Below(N) = S
  BY <1>1
<1> QED
  BY <1>6, <1>7 DEF Settled
================================================================================
