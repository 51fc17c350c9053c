---------------------------- MODULE InductionLemmas ----------------------------
(*****************************************************************************)
(* Induction and recursion over the natural numbers in forms whose           *)
(* parameters are sets and functions.                                        *)
(*****************************************************************************)
EXTENDS Integers, WellFoundedInduction, TLAPS

\* The natural numbers are well-ordered.
LEMMA Smallest ==
    ASSUME NEW T, T \subseteq Nat, T # {}
    PROVE  \E x \in T : \A y \in T : x <= y
  <1> DEFINE R == OpToRel(<, Nat)
  <1>1. \A x, y \in Nat : <<x, y>> \in R <=> x < y
    BY DEF OpToRel
  <1>2. IsWellFoundedOn(R, Nat)
    BY NatLessThanWellFounded
  <1> HIDE DEF R
  <1>3. PICK x \in T : \A y \in T : ~(<<y, x>> \in R)
    BY <1>2, WFMin
  <1>4. \A y \in T : y \in Nat /\ x <= y
    <2> TAKE y \in T
    <2>1. x \in Nat /\ y \in Nat
      OBVIOUS
    <2>2. ~(y < x)
      BY <1>1, <1>3, <2>1
    <2>3. QED
      BY <2>1, <2>2
  <1>5. QED
    BY <1>4

\* A set of indices has a last one.
LEMMA Largest ==
    ASSUME NEW m \in Nat, NEW I, I \subseteq 1..m, I # {}
    PROVE  \E x \in I : \A y \in I : x >= y
  <1> DEFINE T == { n \in Nat : m - n \in I }
  <1>1. PICK i \in I : TRUE
    OBVIOUS
  <1>2. m - i \in T /\ T \subseteq Nat
    BY <1>1
  <1>3. PICK n \in T : \A k \in T : n <= k
    BY <1>2, Smallest
  <1>4. m - n \in I /\ n \in Nat
    BY <1>3
  <1>5. \A k \in I : m - n >= k
    <2> TAKE k \in I
    <2>1. k \in Nat /\ m - k \in T
      OBVIOUS
    <2>2. n <= m - k
      BY <1>3, <2>1
    <2>3. QED
      BY <1>4, <2>1, <2>2
  <1>6. QED
    BY <1>4, <1>5

\* Induction over the natural numbers, with a set for the predicate.
LEMMA Induction ==
    ASSUME NEW T, 0 \in T, \A n \in Nat : n \in T => n + 1 \in T
    PROVE  \A n \in Nat : n \in T
  <1> DEFINE Out == { n \in Nat : n \notin T }
  <1> SUFFICES ASSUME Out # {} PROVE FALSE
    OBVIOUS
  <1>1. PICK n \in Out : \A m \in Out : n <= m
    BY Smallest
  <1>2. n \in Nat /\ n \notin T /\ n # 0 /\ n - 1 \in Nat
    OBVIOUS
  <1>3. n - 1 \in T
    <2>1. n - 1 \notin Out
      BY <1>1, <1>2
    <2>2. QED
      BY <1>2, <2>1
  <1>4. n - 1 + 1 \in T
    BY <1>2, <1>3
  <1>5. QED
    BY <1>2, <1>4

\* g is defined by recursion over the natural numbers.
Recursive(g, X, base, step) ==
    /\ g \in [Nat -> X] /\ g[0] = base
    /\ \A n \in Nat : g[n + 1] = step[<<n, g[n]>>]

\* A function can be defined by recursion over the natural numbers.
LEMMA Recursion ==
    ASSUME NEW X, NEW base \in X, NEW step, \A n \in Nat, x \in X : step[<<n, x>>] \in X
    PROVE  \E g : Recursive(g, X, base, step)
  <1> DEFINE Good(h, n) == /\ h \in [0..n -> X] /\ h[0] = base
                           /\ \A i \in Nat : i + 1 <= n => h[i + 1] = step[<<i, h[i]>>]
             Some == { n \in Nat : \E h : Good(h, n) }
  <1>1. \A n \in Nat : n \in Some
    <2>1. 0 \in Some
      <3>1. Good([i \in 0..0 |-> base], 0)
        OBVIOUS
      <3>2. QED
        BY <3>1
    <2>2. ASSUME NEW n \in Nat, n \in Some PROVE n + 1 \in Some
      <3>1. PICK h : Good(h, n)
        BY <2>2
      <3> DEFINE k == [i \in 0..n + 1 |-> IF i = n + 1 THEN step[<<n, h[n]>>] ELSE h[i]]
      <3>2. h[n] \in X /\ step[<<n, h[n]>>] \in X
        BY <3>1
      <3>3. k \in [0..n + 1 -> X] /\ k[0] = base /\ k[n + 1] = step[<<n, h[n]>>]
            /\ \A i \in 0..n : k[i] = h[i]
        BY <3>1, <3>2
      <3> HIDE DEF k
      <3>4. ASSUME NEW i \in Nat, i + 1 <= n + 1 PROVE k[i + 1] = step[<<i, k[i]>>]
        <4>1. CASE i = n
          BY <3>3, <4>1
        <4>2. CASE i # n
          <5>1. i \in 0..n /\ i + 1 \in 0..n /\ i + 1 <= n
            BY <3>4, <4>2
          <5>2. QED
            BY <3>1, <3>3, <5>1
        <4>3. QED
          BY <4>1, <4>2
      <3>5. Good(k, n + 1)
        BY <3>3, <3>4
      <3>6. QED
        BY <3>5
    <2> HIDE DEF Some
    <2>3. QED
      BY <2>1, <2>2, Induction
  <1>2. ASSUME NEW h, NEW k, NEW n \in Nat, NEW m \in Nat, Good(h, n), Good(k, m)
        PROVE  \A i \in Nat : i <= n /\ i <= m => h[i] = k[i]
    <2> DEFINE T == { i \in Nat : i <= n /\ i <= m => h[i] = k[i] }
    <2>1. 0 \in T
      BY <1>2
    <2>2. ASSUME NEW i \in Nat, i \in T PROVE i + 1 \in T
      <3>1. CASE i + 1 <= n /\ i + 1 <= m
        <4>1. h[i] = k[i]
          BY <2>2, <3>1
        <4>2. h[i + 1] = step[<<i, h[i]>>] /\ k[i + 1] = step[<<i, k[i]>>]
          BY <1>2, <3>1
        <4>3. QED
          BY <4>1, <4>2
      <3>2. QED
        BY <3>1
    <2> HIDE DEF T
    <2>3. \A i \in Nat : i \in T
      BY <2>1, <2>2, Induction
    <2>4. QED
      BY <2>3 DEF T
  <1> DEFINE H(n) == CHOOSE h : Good(h, n)
             g == [n \in Nat |-> H(n)[n]]
  <1>3. ASSUME NEW n \in Nat PROVE Good(H(n), n)
    <2>1. \E h : Good(h, n)
      BY <1>1
    <2> HIDE DEF Good
    <2>2. QED
      BY <2>1
  <1>4. g \in [Nat -> X] /\ g[0] = base
    <2> HIDE DEF H
    <2>1. \A n \in Nat : H(n)[n] \in X
      BY <1>3
    <2>2. H(0)[0] = base
      BY <1>3
    <2>3. QED
      BY <2>1, <2>2
  <1>5. ASSUME NEW n \in Nat PROVE g[n + 1] = step[<<n, g[n]>>]
    <2> HIDE DEF H
    <2>1. Good(H(n), n) /\ Good(H(n + 1), n + 1)
      <3> HIDE DEF Good
      <3>1. n + 1 \in Nat
        OBVIOUS
      <3>2. QED
        BY <1>3, <3>1
    <2>2. H(n + 1)[n + 1] = step[<<n, H(n + 1)[n]>>]
      BY <2>1
    <2>3. H(n + 1)[n] = H(n)[n]
      <3>1. n + 1 \in Nat /\ n <= n /\ n <= n + 1
        OBVIOUS
      <3> HIDE DEF Good
      <3>2. QED
        BY <1>2, <2>1, <3>1
    <2>4. QED
      BY <2>2, <2>3
  <1> HIDE DEF g
  <1>6. Recursive(g, X, base, step)
    BY <1>4, <1>5 DEF Recursive
  <1>7. QED
    BY <1>6

\* f is defined by recursion up to n.
RecursiveTo(n, f, X, base, step) ==
    /\ f \in [0..n -> X] /\ f[0] = base
    /\ \A i \in 1..n : f[i] = step[<<i, f[i - 1]>>]

\* A function can be defined by recursion up to a number.
LEMMA BoundedRecursion ==
    ASSUME NEW X, NEW base \in X, NEW n \in Nat, NEW step,
           \A i \in 1..n : \A x \in X : step[<<i, x>>] \in X
    PROVE  \E f : RecursiveTo(n, f, X, base, step)
  <1> DEFINE next == [y \in Nat \X X |-> IF y[1] + 1 <= n THEN step[<<y[1] + 1, y[2]>>] ELSE y[2]]
  <1>1. ASSUME NEW i \in Nat, NEW x \in X
        PROVE  next[<<i, x>>] = IF i + 1 <= n THEN step[<<i + 1, x>>] ELSE x
    OBVIOUS
  <1>2. ASSUME NEW i \in Nat, NEW x \in X PROVE next[<<i, x>>] \in X
    <2>1. i + 1 <= n => i + 1 \in 1..n
      OBVIOUS
    <2> HIDE DEF next
    <2>2. QED
      BY <1>1, <2>1
  <1> HIDE DEF next
  <1>3. PICK g : Recursive(g, X, base, next)
    BY <1>2, Recursion
  <1> DEFINE f == [i \in 0..n |-> g[i]]
  <1>4. g \in [Nat -> X] /\ g[0] = base /\ \A i \in Nat : g[i + 1] = next[<<i, g[i]>>]
    BY <1>3 DEF Recursive
  <1>5. f \in [0..n -> X] /\ f[0] = base /\ \A i \in 0..n : f[i] = g[i]
    BY <1>4
  <1>6. ASSUME NEW i \in 1..n PROVE f[i] = step[<<i, f[i - 1]>>]
    <2>1. i - 1 \in Nat /\ i - 1 + 1 = i /\ i <= n /\ i \in 0..n /\ i - 1 \in 0..n
      OBVIOUS
    <2>2. g[i - 1] \in X /\ g[i - 1 + 1] = next[<<i - 1, g[i - 1]>>]
      BY <1>4, <2>1
    <2>3. next[<<i - 1, g[i - 1]>>] = step[<<i - 1 + 1, g[i - 1]>>]
      BY <1>1, <2>1, <2>2
    <2> HIDE DEF f
    <2>4. QED
      BY <1>5, <2>1, <2>2, <2>3
  <1> HIDE DEF f
  <1>7. RecursiveTo(n, f, X, base, step)
    BY <1>5, <1>6 DEF RecursiveTo
  <1>8. QED
    BY <1>7
===============================================================================
