---------------------------- MODULE StepwiseRecursion ----------------------------
(* What the proofs need of definitions by recursion on the numbers up to a *)
(* bound: that they define something, and that what each step keeps is     *)
(* kept.  No induction theorem is needed for it: were it otherwise, there  *)
(* would be a least number at which it fails.                              *)
EXTENDS Naturals, WellFoundedInduction, TLAPS

(* A set of numbers has a least one.                                       *)
LEMMA LeastNumber ==
  ASSUME NEW S \in SUBSET Nat, S # {}
  PROVE  \E m \in S : \A n \in S : m <= n
<1>1. PICK m \in S : \A n \in S : <<n, m>> \notin OpToRel(<, Nat)
  BY NatLessThanWellFounded, WFMin, Zenon
<1>2. \A n \in S : m <= n
  <2> TAKE n \in S
  <2>1. m \in Nat /\ n \in Nat /\ ~(n < m)
    BY <1>1 DEF OpToRel
  <2>2. QED
    BY <2>1
<1>3. QED
  BY <1>2

(* What holds at 0 and of the next number holds up to N.                   *)
LEMMA CountUp ==
  ASSUME NEW N \in Nat, NEW S, 0 \in S, \A k \in 1..N : k - 1 \in S => k \in S
  PROVE  \A k \in 0..N : k \in S
<1> DEFINE missing == {k \in 0..N : k \notin S}
<1> SUFFICES ASSUME missing # {} PROVE FALSE
  OBVIOUS
<1>1. missing \subseteq Nat
  OBVIOUS
<1>2. PICK m \in missing : \A j \in missing : m <= j
  <2> HIDE DEF missing
  <2>1. QED
    BY <1>1, LeastNumber
<1>3. \A j \in missing : ~(j < m)
  <2>1. \A j \in missing : j \in Nat /\ m \in Nat /\ m <= j
    BY <1>1, <1>2
  <2>2. QED
    BY <2>1
<1>4. m \in 1..N /\ m \notin S
  <2>1. m \in 0..N /\ m \notin S
    BY <1>2
  <2>2. m # 0
    BY <2>1
  <2>3. QED
    BY <2>1, <2>2
<1>5. m - 1 \in S
  BY <1>3, <1>4
<1>6. QED
  BY <1>4, <1>5

(* A function on 0..N may be defined by what it is at 0 and by what it is   *)
(* at k, given what it is at k - 1.                                        *)
Counted(N, T, a, step) == {g \in [0..N -> T] : g[0] = a /\ \A k \in 1..N : g[k] = step[k][g[k - 1]]}
LEMMA CountUpDefines ==
  ASSUME NEW N \in Nat, NEW T, NEW a \in T, NEW step \in [1..N -> [T -> T]]
  PROVE  Counted(N, T, a, step) # {}
<1> DEFINE Good(n, g) == g[0] = a /\ \A k \in 1..n : g[k] = step[k][g[k - 1]]
           S == {n \in 0..N : \E g \in [0..n -> T] : Good(n, g)}
<1>1. 0 \in S
  <2>1. \E g \in [0..0 -> T] : Good(0, g)
    <3>1. [n \in 0..0 |-> a] \in [0..0 -> T] /\ Good(0, [n \in 0..0 |-> a])
      OBVIOUS
    <3> HIDE DEF Good
    <3>2. QED
      BY <3>1
  <2> HIDE DEF Good
  <2>2. QED
    BY <2>1
<1>2. ASSUME NEW k \in 1..N, k - 1 \in S PROVE k \in S
  <2>1. PICK g \in [0..(k - 1) -> T] : Good(k - 1, g)
    BY <1>2
  <2> DEFINE h == [n \in 0..k |-> IF n = k THEN step[k][g[k - 1]] ELSE g[n]]
  <2>2. step[k][g[k - 1]] \in T
    BY <2>1
  <2>3. h \in [0..k -> T]
    BY <2>1, <2>2
  <2>4. /\ h[k] = step[k][g[k - 1]]
        /\ \A i \in 0..(k - 1) : h[i] = g[i]
    OBVIOUS
  <2> HIDE DEF h
  <2>5. h[0] = a
    BY <2>1, <2>4
  <2>6. \A i \in 1..k : h[i] = step[i][h[i - 1]]
    <3> SUFFICES ASSUME NEW i \in 1..k PROVE h[i] = step[i][h[i - 1]]
      OBVIOUS
    <3>1. i - 1 \in 0..(k - 1) /\ h[i - 1] = g[i - 1]
      BY <2>4
    <3>2. CASE i = k
      BY <2>4, <3>1, <3>2
    <3>3. CASE i # k
      <4>1. i \in 1..(k - 1) /\ i \in 0..(k - 1)
        BY <3>3
      <4>2. g[i] = step[i][g[i - 1]] /\ h[i] = g[i]
        BY <2>1, <2>4, <4>1
      <4>3. QED
        BY <3>1, <4>2
    <3>4. QED
      BY <3>2, <3>3
  <2>7. Good(k, h)
    BY <2>5, <2>6
  <2> HIDE DEF Good
  <2>8. k \in 0..N /\ \E f \in [0..k -> T] : Good(k, f)
    BY <2>3, <2>7
  <2>9. QED
    BY <2>8
<1> HIDE DEF S
<1>3. \A k \in 1..N : k - 1 \in S => k \in S
  BY <1>2
<1>4. N \in S
  <2>1. \A k \in 0..N : k \in S
    BY <1>1, <1>3, CountUp
  <2>2. QED
    BY <2>1
<1>5. QED
  BY <1>4 DEF S, Counted
===============================================================================
