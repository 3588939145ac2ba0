----------------------- MODULE LatencyHistogramProofs -----------------------
(***************************************************************************)
(* The histograms of module LatencyHistogram for every set of latencies,   *)
(* list of boundaries, and number of slots and of operations: the slot is  *)
(* the binary logarithm, and what the exported count, buckets and sum say  *)
(* of the operations that were measured.                                   *)
(*                                                                         *)
(* The loops are recursive functions.  That they satisfy their equations,  *)
(* and what they compute, is proved by induction from the least element    *)
(* of a set of numbers.                                                    *)
(***************************************************************************)
EXTENDS LatencyHistogram, TLAPS, WellFoundedInduction, FiniteSetTheorems

(* A step that names no prover is tried with SMT, then with Zenon. *)
USE SMTT(10), ZenonT(20)

(* A set of numbers has a least one. *)
LEMMA LeastNumber ==
  ASSUME NEW T, T \subseteq Nat, T # {}
  PROVE  \E x \in T : \A y \in T : x <= y
  <1> DEFINE R == OpToRel(<, Nat)
  <1>1. IsWellFoundedOn(R, Nat) BY NatLessThanWellFounded, Zenon
  <1>2. \A a, b \in Nat : a < b => <<a, b>> \in R BY DEF OpToRel
  <1> HIDE DEF R
  <1>3. PICK x \in T : \A y \in T : ~ (<<y, x>> \in R) BY <1>1, WFMin, Zenon
  <1>4. ASSUME NEW y \in T PROVE x <= y
    <2>1. x \in Nat /\ y \in Nat OBVIOUS
    <2>2. ~ (y < x) BY <1>2, <1>3, <2>1, Zenon
    <2> QED BY <2>1, <2>2
  <1> QED BY <1>4

(* A set with 0 and the successor of each number in it has every number. *)
LEMMA Induction ==
  ASSUME NEW S, 0 \in S, \A n \in Nat : n \in S => n + 1 \in S
  PROVE  Nat \subseteq S
  <1> SUFFICES ASSUME Nat \ S # {} PROVE FALSE OBVIOUS
  <1>1. PICK x \in Nat \ S : \A y \in Nat \ S : x <= y BY LeastNumber, Zenon
  <1>2. x # 0 OBVIOUS
  <1>3. x - 1 \in Nat BY <1>2
  <1>4. x - 1 \in S BY <1>1, <1>3
  <1>5. (x - 1) + 1 = x OBVIOUS
  <1> QED BY <1>3, <1>4, <1>5

(* f is v0 at 0 and goes from n to n + 1, up to m, as step says. *)
Follows(f, v0, step, m) == f[0] = v0 /\ \A n \in 0..(m - 1) : f[n + 1] = step[<<n, f[n]>>]

(* There is such a function. *)
LEMMA FollowsExists ==
  ASSUME NEW V, NEW v0 \in V, NEW step \in [Nat \X V -> V], NEW m \in Nat
  PROVE  \E f \in [0..m -> V] : Follows(f, v0, step, m)
  <1> DEFINE S == {k \in Nat : \E f \in [0..k -> V] : Follows(f, v0, step, k)}
  <1>1. 0 \in S
    <2> DEFINE f == [i \in 0..0 |-> v0]
    <2>1. f \in [0..0 -> V] OBVIOUS
    <2>2. Follows(f, v0, step, 0) BY DEF Follows
    <2> QED BY <2>1, <2>2
  <1>2. ASSUME NEW k \in Nat, k \in S PROVE k + 1 \in S
    <2>1. PICK f \in [0..k -> V] : Follows(f, v0, step, k) BY <1>2
    <2> DEFINE x == step[<<k, f[k]>>]
               g == [i \in 0..(k + 1) |-> IF i = k + 1 THEN x ELSE f[i]]
    <2>2. f[k] \in V /\ <<k, f[k]>> \in Nat \X V OBVIOUS
    <2>3. x \in V BY <2>2
    <2> HIDE DEF x
    <2>4. g \in [0..(k + 1) -> V] BY <2>3
    <2>5. g[0] = v0 BY <2>1 DEF Follows
    <2>6. ASSUME NEW n \in 0..k PROVE g[n + 1] = step[<<n, g[n]>>]
      <3>1. CASE n = k
        <4>1. g[k + 1] = x /\ g[k] = f[k] OBVIOUS
        <4> QED BY <4>1, <3>1, Zenon DEF x
      <3>2. CASE n # k
        <4>1. n \in 0..(k - 1) /\ n + 1 \in 0..k BY <3>2
        <4>2. g[n + 1] = f[n + 1] /\ g[n] = f[n] BY <4>1
        <4> QED BY <4>1, <4>2, <2>1 DEF Follows
      <3> QED BY <3>1, <3>2
    <2> HIDE DEF g
    <2>7. Follows(g, v0, step, k + 1)
      <3>1. (k + 1) - 1 = k OBVIOUS
      <3> QED BY <2>5, <2>6, <3>1 DEF Follows
    <2>8. k + 1 \in Nat OBVIOUS
    <2> QED BY <2>4, <2>7, <2>8
  <1> HIDE DEF S
  <1>3. Nat \subseteq S BY <1>1, <1>2, Induction
  <1> QED BY <1>3 DEF S

(* And one only. *)
LEMMA FollowsUnique ==
  ASSUME NEW v0, NEW step, NEW f, NEW g, NEW m \in Nat, NEW k \in Nat, m <= k,
         Follows(f, v0, step, m), Follows(g, v0, step, k)
  PROVE  f[m] = g[m]
  <1> DEFINE S == {i \in Nat : i <= m => f[i] = g[i]}
  <1>1. 0 \in S BY DEF Follows
  <1>2. ASSUME NEW i \in Nat, i \in S PROVE i + 1 \in S
    <2> SUFFICES ASSUME i + 1 <= m PROVE f[i + 1] = g[i + 1] OBVIOUS
    <2>1. f[i] = g[i] BY <1>2
    <2>2. i \in 0..(m - 1) /\ i \in 0..(k - 1) OBVIOUS
    <2> QED BY <2>1, <2>2, Zenon DEF Follows
  <1> HIDE DEF S
  <1>3. Nat \subseteq S BY <1>1, <1>2, Induction
  <1> QED BY <1>3 DEF S

(* So a function on all numbers can be defined by its steps. *)
LEMMA RecursiveFunction ==
  ASSUME NEW V, NEW v0 \in V, NEW step \in [Nat \X V -> V]
  PROVE  \E f \in [Nat -> V] : \A m \in Nat : Follows(f, v0, step, m)
  <1> DEFINE h(m) == CHOOSE g \in [0..m -> V] : Follows(g, v0, step, m)
             f == [m \in Nat |-> h(m)[m]]
  <1>1. ASSUME NEW m \in Nat PROVE h(m) \in [0..m -> V] /\ Follows(h(m), v0, step, m)
    <2>1. \E g \in [0..m -> V] : Follows(g, v0, step, m) BY FollowsExists
    <2> QED BY <2>1, Zenon
  <1> HIDE DEF h
  <1>2. f \in [Nat -> V]
    <2> SUFFICES ASSUME NEW m \in Nat PROVE h(m)[m] \in V OBVIOUS
    <2>1. m \in 0..m OBVIOUS
    <2> QED BY <2>1, <1>1
  <1>3. f[0] = v0 BY <1>1 DEF Follows
  <1>4. ASSUME NEW n \in Nat PROVE f[n + 1] = step[<<n, f[n]>>]
    <2>1. n + 1 \in Nat /\ n \in 0..((n + 1) - 1) /\ n <= n + 1 /\ n \in 0..n OBVIOUS
    <2>2. Follows(h(n + 1), v0, step, n + 1) /\ Follows(h(n), v0, step, n) BY <1>1, <2>1
    <2>3. h(n + 1)[n + 1] = step[<<n, h(n + 1)[n]>>] BY <2>1, <2>2 DEF Follows
    <2>4. ASSUME NEW a, NEW b, NEW k \in Nat, n <= k, Follows(a, v0, step, n), Follows(b, v0, step, k)
          PROVE  a[n] = b[n]
      BY <2>4, FollowsUnique
    <2>5. h(n)[n] = h(n + 1)[n] BY <2>1, <2>2, <2>4
    <2> QED BY <2>1, <2>3, <2>5
  <1> HIDE DEF f
  <1>5. ASSUME NEW m \in Nat PROVE Follows(f, v0, step, m) BY <1>3, <1>4 DEF Follows
  <1> QED BY <1>2, <1>5
-----------------------------------------------------------------------------
(* The powers of two. *)
LEMMA Pow2Facts ==
  /\ Pow2 \in [Nat -> Nat]
  /\ Pow2[0] = 1
  /\ \A n \in Nat : Pow2[n + 1] = 2 * Pow2[n]
  <1> DEFINE step == [p \in Nat \X Nat |-> 2 * p[2]]
  <1>1. step \in [Nat \X Nat -> Nat] OBVIOUS
  <1>2. 1 \in Nat OBVIOUS
  <1>3. \A n, v \in Nat : step[<<n, v>>] = 2 * v OBVIOUS
  <1> HIDE DEF step
  <1>4. PICK f \in [Nat -> Nat] : \A m \in Nat : Follows(f, 1, step, m)
    BY <1>1, <1>2, RecursiveFunction, Zenon
  <1>5. f[0] = 1 /\ \A n \in Nat : f[n + 1] = 2 * f[n]
    <2>1. f[0] = 1 BY <1>4 DEF Follows
    <2>2. ASSUME NEW n \in Nat PROVE f[n + 1] = 2 * f[n]
      <3>1. n + 1 \in Nat /\ n \in 0..((n + 1) - 1) OBVIOUS
      <3>2. Follows(f, 1, step, n + 1) BY <3>1, <1>4
      <3> QED BY <3>1, <3>2, <1>3, Zenon DEF Follows
    <2> QED BY <2>1, <2>2
  <1>6. f = [n \in Nat |-> IF n = 0 THEN 1 ELSE 2 * f[n - 1]]
    <2>1. ASSUME NEW n \in Nat PROVE f[n] = IF n = 0 THEN 1 ELSE 2 * f[n - 1]
      <3>1. CASE n = 0 BY <3>1, <1>5
      <3>2. CASE n # 0
        <4>1. n - 1 \in Nat /\ (n - 1) + 1 = n BY <3>2
        <4>2. f[(n - 1) + 1] = 2 * f[n - 1] BY <4>1, <1>5
        <4> QED BY <4>1, <4>2, <3>2
      <3> QED BY <3>1, <3>2
    <2> QED BY <2>1
  <1>7. Pow2 = [n \in Nat |-> IF n = 0 THEN 1 ELSE 2 * Pow2[n - 1]] BY <1>6, Zenon DEF Pow2
  <1>8. ASSUME NEW g, g = [n \in Nat |-> IF n = 0 THEN 1 ELSE 2 * g[n - 1]]
        PROVE  g \in [Nat -> Nat] /\ g[0] = 1 /\ \A n \in Nat : g[n + 1] = 2 * g[n]
    <2>1. g[0] = 1 BY <1>8
    <2>2. ASSUME NEW n \in Nat PROVE g[n + 1] = 2 * g[n]
      <3>1. n + 1 \in Nat /\ n + 1 # 0 /\ (n + 1) - 1 = n OBVIOUS
      <3>2. g[n + 1] = 2 * g[(n + 1) - 1] BY <1>8, <3>1
      <3> QED BY <3>1, <3>2
    <2> DEFINE S == {n \in Nat : g[n] \in Nat}
    <2>3. 0 \in S BY <2>1
    <2>4. \A n \in Nat : n \in S => n + 1 \in S BY <2>2
    <2> HIDE DEF S
    <2>5. Nat \subseteq S BY <2>3, <2>4, Induction
    <2>6. \A n \in Nat : g[n] \in Nat BY <2>5 DEF S
    <2>7. g = [n \in Nat |-> g[n]] BY <1>8
    <2>8. g \in [Nat -> Nat] BY <2>6, <2>7
    <2> QED BY <2>1, <2>2, <2>8
  <1> QED BY <1>7, <1>8, Zenon
-----------------------------------------------------------------------------
(* What RunningTotal stands for: total is f[0] at 0 and grows by f[i]. *)
Totals(total, f) == total = [i \in DOMAIN f |-> IF i = 0 THEN f[0] ELSE total[i - 1] + f[i]]

(* The running totals are what the loop computes, one slot at a time. *)
LEMMA TotalFacts ==
  ASSUME NEW n \in Nat, NEW f \in [0..n -> Nat]
  PROVE  /\ RunningTotal(f) \in [0..n -> Nat]
         /\ RunningTotal(f)[0] = f[0]
         /\ \A i \in 1..n : RunningTotal(f)[i] = RunningTotal(f)[i - 1] + f[i]
  <1> DEFINE step == [p \in Nat \X Nat |-> IF p[1] + 1 <= n THEN p[2] + f[p[1] + 1] ELSE 0]
  <1>1. step \in [Nat \X Nat -> Nat]
    <2>1. ASSUME NEW p \in Nat \X Nat PROVE (IF p[1] + 1 <= n THEN p[2] + f[p[1] + 1] ELSE 0) \in Nat
      <3>1. p[1] \in Nat /\ p[2] \in Nat OBVIOUS
      <3>2. p[1] + 1 <= n => p[1] + 1 \in 0..n BY <3>1
      <3> QED BY <3>1, <3>2
    <2> QED BY <2>1
  <1>2. f[0] \in Nat OBVIOUS
  <1>3. ASSUME NEW a \in Nat, NEW b \in Nat, a + 1 <= n PROVE step[<<a, b>>] = b + f[a + 1]
    <2>1. <<a, b>> \in Nat \X Nat /\ <<a, b>>[1] = a /\ <<a, b>>[2] = b OBVIOUS
    <2> QED BY <1>3, <2>1
  <1> HIDE DEF step
  <1>4. PICK g \in [0..n -> Nat] : Follows(g, f[0], step, n) BY <1>1, <1>2, FollowsExists, Zenon
  <1>5. Totals(g, f)
    <2>1. ASSUME NEW i \in 0..n PROVE g[i] = IF i = 0 THEN f[0] ELSE g[i - 1] + f[i]
      <3>1. CASE i = 0 BY <3>1, <1>4 DEF Follows
      <3>2. CASE i # 0
        <4>1. i - 1 \in 0..(n - 1) /\ i - 1 \in 0..n /\ i - 1 \in Nat /\ (i - 1) + 1 = i /\ (i - 1) + 1 <= n BY <3>2
        <4>2. g[(i - 1) + 1] = step[<<i - 1, g[i - 1]>>] BY <4>1, <1>4 DEF Follows
        <4>3. g[i - 1] \in Nat BY <4>1
        <4>4. step[<<i - 1, g[i - 1]>>] = g[i - 1] + f[(i - 1) + 1] BY <4>1, <4>3, <1>3
        <4> QED BY <4>1, <4>2, <4>4, <3>2
      <3> QED BY <3>1, <3>2
    <2>2. g = [i \in 0..n |-> g[i]] /\ DOMAIN f = 0..n OBVIOUS
    <2> QED BY <2>1, <2>2 DEF Totals
  <1>6. RunningTotal(f) = CHOOSE t : Totals(t, f) BY DEF RunningTotal, Totals
  <1>7. Totals(RunningTotal(f), f) BY <1>5, <1>6
  <1> DEFINE t == RunningTotal(f)
  <1>8. t = [i \in 0..n |-> IF i = 0 THEN f[0] ELSE t[i - 1] + f[i]] BY <1>7 DEF Totals
  <1> HIDE DEF t
  <1> DEFINE at(i) == IF i = 0 THEN f[0] ELSE t[i - 1] + f[i]
  <1>9. \A i \in 0..n : t[i] = at(i)
    <2>1. t = [i \in 0..n |-> at(i)] BY <1>8
    <2> HIDE DEF at
    <2> QED BY <2>1
  <1>10. t[0] = f[0] BY <1>9
  <1>11. ASSUME NEW i \in 1..n PROVE t[i] = t[i - 1] + f[i]
    <2>1. i \in 0..n /\ i # 0 OBVIOUS
    <2> QED BY <1>9, <2>1
  <1> DEFINE S == {i \in Nat : i <= n => t[i] \in Nat}
  <1>12. 0 \in S BY <1>10, <1>2
  <1>13. ASSUME NEW i \in Nat, i \in S PROVE i + 1 \in S
    <2> SUFFICES ASSUME i + 1 <= n PROVE t[i + 1] \in Nat OBVIOUS
    <2>1. i + 1 \in 1..n /\ i + 1 \in 0..n /\ (i + 1) - 1 = i /\ i <= n OBVIOUS
    <2>2. t[i] \in Nat /\ f[i + 1] \in Nat BY <2>1, <1>13
    <2>3. t[i + 1] = t[i] + f[i + 1] BY <2>1, <1>11
    <2>4. \A x, y \in Nat : x + y \in Nat OBVIOUS
    <2> QED BY <2>2, <2>3, <2>4, Zenon
  <1> HIDE DEF S
  <1>14. Nat \subseteq S BY <1>12, <1>13, Induction, Zenon
  <1>15. \A i \in 0..n : t[i] \in Nat BY <1>14 DEF S
  <1>16. t \in [0..n -> Nat]
    <2>1. t = [i \in 0..n |-> t[i]] BY <1>8
    <2> QED BY <2>1, <1>15
  <1> QED BY <1>10, <1>11, <1>16 DEF t

(* Where every operation of D is counted under one of 0..n, the running    *)
(* total is the number of those counted so far.                            *)
CountsOf(D, c, n) == [i \in 0..n |-> Cardinality({d \in D : c[d] = i})]

Within(D, c, i) == {d \in D : c[d] <= i}

LEMMA TotalCounts ==
  ASSUME NEW n \in Nat, NEW D, IsFiniteSet(D), NEW c \in [D -> 0..n], NEW i \in 0..n
  PROVE  RunningTotal(CountsOf(D, c, n))[i] = Cardinality(Within(D, c, i))
  <1> DEFINE at(j) == {d \in D : c[d] = j}
             upto(j) == {d \in D : c[d] <= j}
             f == CountsOf(D, c, n)
             t == RunningTotal(f)
  <1>1. \A j : at(j) \subseteq D /\ upto(j) \subseteq D OBVIOUS
  <1>2. \A j : IsFiniteSet(at(j)) /\ IsFiniteSet(upto(j)) BY <1>1, FS_Subset
  <1>3. \A j : Cardinality(at(j)) \in Nat BY <1>2, FS_CardinalityType, Zenon
  <1>4. f \in [0..n -> Nat] /\ \A j \in 0..n : f[j] = Cardinality(at(j)) BY <1>3 DEF CountsOf
  <1> HIDE DEF f
  <1>5. t[0] = f[0] /\ \A j \in 1..n : t[j] = t[j - 1] + f[j] BY <1>4, TotalFacts
  <1>6. at(0) = upto(0) OBVIOUS
  <1>7. ASSUME NEW j \in Nat, j + 1 <= n
        PROVE  Cardinality(upto(j + 1)) = Cardinality(upto(j)) + Cardinality(at(j + 1))
    <2>1. upto(j + 1) = upto(j) \cup at(j + 1) OBVIOUS
    <2>2. upto(j) \cap at(j + 1) = {} OBVIOUS
    <2> HIDE DEF upto, at
    <2>3. Cardinality(upto(j) \cup at(j + 1)) = Cardinality(upto(j)) + Cardinality(at(j + 1)) - Cardinality({})
      BY <1>2, <2>2, FS_Union
    <2>4. Cardinality({}) = 0 BY FS_EmptySet
    <2>5. Cardinality(upto(j)) \in Nat /\ Cardinality(at(j + 1)) \in Nat BY <1>2, FS_CardinalityType
    <2>6. \A a, b \in Nat : a + b - 0 = a + b OBVIOUS
    <2> QED BY <2>1, <2>3, <2>4, <2>5, <2>6, Zenon
  <1> HIDE DEF upto, at, t
  <1> DEFINE S == {j \in Nat : j <= n => t[j] = Cardinality(upto(j))}
  <1>8. 0 \in S BY <1>4, <1>5, <1>6
  <1>9. ASSUME NEW j \in Nat, j \in S PROVE j + 1 \in S
    <2> SUFFICES ASSUME j + 1 <= n PROVE t[j + 1] = Cardinality(upto(j + 1)) OBVIOUS
    <2>1. j + 1 \in 1..n /\ j + 1 \in 0..n /\ (j + 1) - 1 = j /\ j <= n OBVIOUS
    <2>2. t[j + 1] = t[j] + f[j + 1] BY <2>1, <1>5
    <2>3. t[j] = Cardinality(upto(j)) BY <2>1, <1>9
    <2>4. f[j + 1] = Cardinality(at(j + 1)) BY <2>1, <1>4
    <2> QED BY <2>2, <2>3, <2>4, <1>7
  <1> HIDE DEF S
  <1>10. Nat \subseteq S BY <1>8, <1>9, Induction
  <1>11. i \in Nat /\ i <= n OBVIOUS
  <1>12. t[i] = Cardinality(upto(i)) BY <1>10, <1>11 DEF S
  <1> QED BY <1>12 DEF t, f, upto, Within

(* Adding x to one entry adds x to the total. *)
LEMMA TotalBump ==
  ASSUME NEW n \in Nat, NEW f \in [0..n -> Nat], NEW k \in 0..n, NEW x \in Nat
  PROVE  RunningTotal([f EXCEPT ![k] = @ + x])[n] = RunningTotal(f)[n] + x
  <1> DEFINE g == [f EXCEPT ![k] = @ + x]
             t == RunningTotal(f)
             u == RunningTotal(g)
  <1>1. g \in [0..n -> Nat] /\ g[k] = f[k] + x /\ \A i \in 0..n : i # k => g[i] = f[i] OBVIOUS
  <1>2. t \in [0..n -> Nat] /\ t[0] = f[0] /\ \A i \in 1..n : t[i] = t[i - 1] + f[i] BY TotalFacts
  <1> HIDE DEF g
  <1>3. u \in [0..n -> Nat] /\ u[0] = g[0] /\ \A i \in 1..n : u[i] = u[i - 1] + g[i] BY <1>1, TotalFacts, Zenon
  <1> HIDE DEF t, u
  <1> DEFINE S == {i \in Nat : i <= n => u[i] = t[i] + IF k <= i THEN x ELSE 0}
  <1>4. 0 \in S
    <2>1. 0 \in 0..n /\ f[0] \in Nat /\ f[k] \in Nat OBVIOUS
    <2>2. CASE k = 0 BY <2>1, <2>2, <1>1, <1>2, <1>3
    <2>3. CASE k # 0
      <3>1. ~ (k <= 0) BY <2>3
      <3>2. g[0] = f[0] BY <2>1, <2>3, <1>1
      <3> QED BY <3>1, <3>2, <2>1, <1>2, <1>3
    <2> QED BY <2>2, <2>3
  <1>5. ASSUME NEW i \in Nat, i \in S PROVE i + 1 \in S
    <2> SUFFICES ASSUME i + 1 <= n PROVE u[i + 1] = t[i + 1] + IF k <= i + 1 THEN x ELSE 0 OBVIOUS
    <2>1. i + 1 \in 1..n /\ i + 1 \in 0..n /\ (i + 1) - 1 = i /\ i <= n /\ i \in 0..n OBVIOUS
    <2>2. u[i + 1] = u[i] + g[i + 1] BY <2>1, <1>3
    <2>3. t[i + 1] = t[i] + f[i + 1] BY <2>1, <1>2
    <2>4. u[i] = t[i] + IF k <= i THEN x ELSE 0 BY <2>1, <1>5
    <2>5. t[i] \in Nat /\ f[i + 1] \in Nat BY <2>1, <1>2
    <2>6. CASE k = i + 1
      <3>1. ~ (k <= i) /\ k <= i + 1 BY <2>6
      <3>2. g[i + 1] = f[i + 1] + x BY <2>6, <1>1
      <3> QED BY <3>1, <3>2, <2>2, <2>3, <2>4, <2>5
    <2>7. CASE k # i + 1
      <3>1. k <= i <=> k <= i + 1 BY <2>7
      <3>2. g[i + 1] = f[i + 1] BY <2>1, <2>7, <1>1
      <3> QED BY <3>1, <3>2, <2>2, <2>3, <2>4, <2>5
    <2> QED BY <2>6, <2>7
  <1> HIDE DEF S
  <1>6. Nat \subseteq S BY <1>4, <1>5, Induction, Zenon
  <1>7. u[n] = t[n] + IF k <= n THEN x ELSE 0 BY <1>6 DEF S
  <1>8. u[n] = t[n] + x BY <1>7
  <1> QED BY <1>8 DEF u, t, g

(* One more entry adds its value to the total. *)
LEMMA TotalExtends ==
  ASSUME NEW n \in Nat, NEW f \in [0..n -> Nat], NEW g \in [0..(n + 1) -> Nat],
         \A i \in 0..n : g[i] = f[i]
  PROVE  RunningTotal(g)[n + 1] = RunningTotal(f)[n] + g[n + 1]
  <1> DEFINE t == RunningTotal(f)
             u == RunningTotal(g)
  <1>1. t \in [0..n -> Nat] /\ t[0] = f[0] /\ \A i \in 1..n : t[i] = t[i - 1] + f[i] BY TotalFacts
  <1>2. n + 1 \in Nat OBVIOUS
  <1>3. u[0] = g[0] /\ \A i \in 1..(n + 1) : u[i] = u[i - 1] + g[i] BY <1>2, TotalFacts
  <1> HIDE DEF t, u
  <1> DEFINE S == {i \in Nat : i <= n => u[i] = t[i]}
  <1>4. 0 \in S
    <2>1. 0 \in 0..n OBVIOUS
    <2> QED BY <2>1, <1>1, <1>3
  <1>5. ASSUME NEW i \in Nat, i \in S PROVE i + 1 \in S
    <2> SUFFICES ASSUME i + 1 <= n PROVE u[i + 1] = t[i + 1] OBVIOUS
    <2>1. i + 1 \in 1..n /\ i + 1 \in 1..(n + 1) /\ i + 1 \in 0..n /\ (i + 1) - 1 = i /\ i <= n OBVIOUS
    <2>2. u[i + 1] = u[i] + g[i + 1] BY <2>1, <1>3
    <2>3. t[i + 1] = t[i] + f[i + 1] BY <2>1, <1>1
    <2>4. u[i] = t[i] BY <2>1, <1>5
    <2> QED BY <2>1, <2>2, <2>3, <2>4
  <1> HIDE DEF S
  <1>6. Nat \subseteq S BY <1>4, <1>5, Induction, Zenon
  <1>7. u[n] = t[n] BY <1>6 DEF S
  <1>8. n + 1 \in 1..(n + 1) /\ (n + 1) - 1 = n OBVIOUS
  <1>9. u[n + 1] = t[n] + g[n + 1] BY <1>3, <1>7, <1>8
  <1> QED BY <1>9 DEF u, t
-----------------------------------------------------------------------------
(* Pow2 is positive and grows, and turns sums into products. *)
LEMMA Pow2Positive == \A n \in Nat : Pow2[n] \in Nat /\ Pow2[n] >= 1
  <1> DEFINE S == {n \in Nat : Pow2[n] \in Nat /\ Pow2[n] >= 1}
  <1>1. 0 \in S BY Pow2Facts
  <1>2. ASSUME NEW n \in Nat, n \in S PROVE n + 1 \in S
    <2>1. Pow2[n + 1] = 2 * Pow2[n] /\ Pow2[n] \in Nat /\ Pow2[n] >= 1 /\ n + 1 \in Nat BY <1>2, Pow2Facts
    <2> QED BY <2>1
  <1> HIDE DEF S
  <1>3. Nat \subseteq S BY <1>1, <1>2, Induction
  <1> QED BY <1>3 DEF S

LEMMA Pow2Grows ==
  ASSUME NEW m \in Nat, NEW n \in Nat, m <= n
  PROVE  Pow2[m] <= Pow2[n]
  <1> DEFINE S == {k \in Nat : Pow2[m] <= Pow2[m + k]}
  <1>1. 0 \in S BY Pow2Positive
  <1>2. ASSUME NEW k \in Nat, k \in S PROVE k + 1 \in S
    <2>1. m + k \in Nat /\ m + (k + 1) = (m + k) + 1 OBVIOUS
    <2>2. Pow2[(m + k) + 1] = 2 * Pow2[m + k] /\ Pow2[m + k] \in Nat /\ Pow2[m] \in Nat BY <2>1, Pow2Facts, Pow2Positive
    <2>3. Pow2[m] <= Pow2[m + k] BY <1>2
    <2> QED BY <2>1, <2>2, <2>3
  <1> HIDE DEF S
  <1>3. Nat \subseteq S BY <1>1, <1>2, Induction
  <1>4. n - m \in Nat /\ m + (n - m) = n OBVIOUS
  <1>5. Pow2[m] <= Pow2[m + (n - m)] BY <1>3, <1>4 DEF S
  <1> QED BY <1>4, <1>5

LEMMA Pow2Sum ==
  ASSUME NEW m \in Nat, NEW n \in Nat
  PROVE  Pow2[m + n] = Pow2[m] * Pow2[n]
  <1> DEFINE S == {k \in Nat : Pow2[m + k] = Pow2[m] * Pow2[k]}
  <1>1. 0 \in S
    <2>1. Pow2[0] = 1 /\ Pow2[m] \in Nat /\ m + 0 = m BY Pow2Facts, Pow2Positive
    <2> QED BY <2>1
  <1>2. ASSUME NEW k \in Nat, k \in S PROVE k + 1 \in S
    <2>1. m + k \in Nat /\ m + (k + 1) = (m + k) + 1 OBVIOUS
    <2>2. Pow2[(m + k) + 1] = 2 * Pow2[m + k] /\ Pow2[k + 1] = 2 * Pow2[k] BY <2>1, Pow2Facts
    <2>3. Pow2[m] \in Nat /\ Pow2[k] \in Nat BY Pow2Positive
    <2>4. Pow2[m + k] = Pow2[m] * Pow2[k] BY <1>2
    <2>5. \A a, b \in Nat : 2 * (a * b) = a * (2 * b) OBVIOUS
    <2>6. 2 * (Pow2[m] * Pow2[k]) = Pow2[m] * (2 * Pow2[k]) BY <2>3, <2>5
    <2>7. Pow2[m + (k + 1)] = Pow2[m] * Pow2[k + 1] BY <2>1, <2>2, <2>4, <2>6, Zenon
    <2> QED BY <2>7
  <1> HIDE DEF S
  <1>3. Nat \subseteq S BY <1>1, <1>2, Induction
  <1> QED BY <1>3 DEF S

LEMMA Pow2Values == Pow2[0] = 1 /\ Pow2[1] = 2 /\ Pow2[2] = 4 /\ Pow2[4] = 16 /\ Pow2[8] = 256 /\ Pow2[16] = 65536
  <1>1. Pow2[0] = 1 BY Pow2Facts
  <1>2. Pow2[0 + 1] = 2 * Pow2[0] BY Pow2Facts
  <1>3. Pow2[1] = 2 BY <1>1, <1>2
  <1>4. Pow2[1 + 1] = Pow2[1] * Pow2[1] BY Pow2Sum
  <1>5. Pow2[2] = 4 BY <1>3, <1>4
  <1>6. Pow2[2 + 2] = Pow2[2] * Pow2[2] BY Pow2Sum
  <1>7. Pow2[4] = 16 BY <1>5, <1>6
  <1>8. Pow2[4 + 4] = Pow2[4] * Pow2[4] BY Pow2Sum
  <1>9. Pow2[8] = 256 BY <1>7, <1>8
  <1>10. Pow2[8 + 8] = Pow2[8] * Pow2[8] BY Pow2Sum
  <1>11. Pow2[16] = 65536 BY <1>9, <1>10
  <1> QED BY <1>1, <1>3, <1>5, <1>7, <1>9, <1>11

(* A shift to the right. *)
LEMMA Shift ==
  ASSUME NEW v \in Nat, NEW b \in Nat, b >= 1
  PROVE  /\ v \div b \in Nat
         /\ b * (v \div b) <= v
         /\ v < b * ((v \div b) + 1)
  OBVIOUS

LEMMA TimesGrows ==
  ASSUME NEW p \in Nat, NEW a \in Nat, NEW b \in Nat, a <= b
  PROVE  p * a <= p * b
  OBVIOUS

(* One test of log2: v has at most twice the bits of the test's mask, is   *)
(* shifted by s, and w has at most its bits.                               *)
LEMMA SearchStep ==
  ASSUME NEW v \in Nat, v >= 1, NEW k \in Nat, Pow2[k] >= 2, v \div Pow2[k] < Pow2[k],
         NEW s, s = IF v > Pow2[k] - 1 THEN k ELSE 0
  PROVE  /\ s \in Nat
         /\ v \div Pow2[s] \in Nat /\ v \div Pow2[s] >= 1 /\ v \div Pow2[s] < Pow2[k]
         /\ Pow2[s] * (v \div Pow2[s]) <= v
         /\ v < Pow2[s] * ((v \div Pow2[s]) + 1)
  <1> DEFINE b == Pow2[k]
             w == v \div b
  <1>1. b \in Nat /\ b >= 2 /\ w < b /\ b >= 1 BY Pow2Positive
  <1>2. CASE v > b - 1
    <2>1. s = k BY <1>2
    <2>2. w \in Nat /\ b * w <= v /\ v < b * (w + 1) BY <1>1, Shift
    <2> HIDE DEF w, b
    <2>3. w >= 1
      <3> SUFFICES ASSUME w = 0 PROVE FALSE BY <2>2
      <3>1. b * (w + 1) = b BY <1>1
      <3> QED BY <3>1, <2>2, <1>2, <1>1
    <2> QED BY <2>1, <2>2, <2>3, <1>1 DEF w, b
  <1>3. CASE ~(v > b - 1)
    <2>1. s = 0 /\ Pow2[0] = 1 BY <1>3, Pow2Facts
    <2>2. v \div 1 = v /\ 1 * v <= v /\ v < 1 * (v + 1) OBVIOUS
    <2>3. v < b BY <1>3, <1>1
    <2> QED BY <2>1, <2>2, <2>3
  <1> QED BY <1>2, <1>3

(* Two shifts in a row. *)
LEMMA ShiftTwice ==
  ASSUME NEW v \in Nat, NEW w \in Nat, NEW x \in Nat, NEW s \in Nat, NEW r \in Nat,
         Pow2[s] * w <= v, v < Pow2[s] * (w + 1), Pow2[r] * x <= w, w < Pow2[r] * (x + 1)
  PROVE  Pow2[s + r] * x <= v /\ v < Pow2[s + r] * (x + 1)
  <1> DEFINE p == Pow2[s]
             q == Pow2[r]
  <1>1. p \in Nat /\ q \in Nat BY Pow2Positive
  <1>2. Pow2[s + r] = p * q BY Pow2Sum
  <1> HIDE DEF p, q
  <1>3. \A a, b, c \in Nat : (a * b) * c = a * (b * c) OBVIOUS
  <1>4. q * x \in Nat /\ q * (x + 1) \in Nat /\ w + 1 \in Nat /\ x + 1 \in Nat BY <1>1
  <1>5. p * (q * x) <= p * w BY <1>1, <1>4, TimesGrows DEF q
  <1>6. w + 1 <= q * (x + 1) BY <1>4 DEF q
  <1>7. p * (w + 1) <= p * (q * (x + 1)) BY <1>1, <1>4, <1>6, TimesGrows
  <1>8. (p * q) * x = p * (q * x) /\ (p * q) * (x + 1) = p * (q * (x + 1)) BY <1>1, <1>3, <1>4
  <1>9. p * (q * x) \in Nat /\ p * w \in Nat /\ p * (w + 1) \in Nat /\ p * (q * (x + 1)) \in Nat BY <1>1, <1>4
  <1>10. p * w <= v /\ v < p * (w + 1) BY DEF p
  <1>11. p * (q * x) <= v /\ v < p * (q * (x + 1)) BY <1>5, <1>7, <1>9, <1>10
  <1> QED BY <1>2, <1>8, <1>11, Zenon

(* log2 finds the highest bit of every 32-bit word. *)
LEMMA LogarithmRight ==
  ASSUME NEW v \in Word32, v >= 1
  PROVE  log2(v) \in Nat /\ Pow2[log2(v)] <= v /\ v < Pow2[log2(v) + 1]
  <1> DEFINE s4 == IF v > 65535 THEN 16 ELSE 0
             v4 == v \div Pow2[s4]
             s3 == IF v4 > 255 THEN 8 ELSE 0
             v3 == v4 \div Pow2[s3]
             s2 == IF v3 > 15 THEN 4 ELSE 0
             v2 == v3 \div Pow2[s2]
             s1 == IF v2 > 3 THEN 2 ELSE 0
             v1 == v2 \div Pow2[s1]
             r  == v1 \div 2
  <1>1. log2(v) = s4 + s3 + s2 + s1 + r BY DEF log2
  <1>2. /\ s4 \in Nat /\ v4 \in Nat /\ v4 >= 1 /\ v4 < 65536
        /\ Pow2[s4] * v4 <= v /\ v < Pow2[s4] * (v4 + 1)
    <2>1. v \in Nat /\ 16 \in Nat /\ Pow2[16] = 65536 /\ v \div Pow2[16] < Pow2[16] /\ Pow2[16] >= 2
      BY Pow2Values DEF Word32
    <2>2. s4 = IF v > Pow2[16] - 1 THEN 16 ELSE 0 BY <2>1
    <2> HIDE DEF s4
    <2>3. PICK k \in Nat : k = 16 OBVIOUS
    <2>4. v \in Nat /\ Pow2[k] >= 2 /\ v \div Pow2[k] < Pow2[k] /\ s4 = IF v > Pow2[k] - 1 THEN k ELSE 0 BY <2>1, <2>2, <2>3
    <2>5. /\ s4 \in Nat /\ v4 \in Nat /\ v4 >= 1 /\ v4 < Pow2[k]
          /\ Pow2[s4] * v4 <= v /\ v < Pow2[s4] * (v4 + 1)
      BY <2>4, SearchStep
    <2> QED BY <2>1, <2>3, <2>5
  <1> HIDE DEF s4, v4
  <1>3. /\ s3 \in Nat /\ v3 \in Nat /\ v3 >= 1 /\ v3 < 256
        /\ Pow2[s3] * v3 <= v4 /\ v4 < Pow2[s3] * (v3 + 1)
    <2>1. 8 \in Nat /\ Pow2[8] = 256 /\ v4 \div Pow2[8] < Pow2[8] /\ Pow2[8] >= 2 BY Pow2Values, <1>2
    <2>2. s3 = IF v4 > Pow2[8] - 1 THEN 8 ELSE 0 BY <2>1
    <2> HIDE DEF s3
    <2>3. PICK k \in Nat : k = 8 OBVIOUS
    <2>4. v4 \in Nat /\ Pow2[k] >= 2 /\ v4 \div Pow2[k] < Pow2[k] /\ s3 = IF v4 > Pow2[k] - 1 THEN k ELSE 0 BY <1>2, <2>1, <2>2, <2>3
    <2>5. /\ s3 \in Nat /\ v3 \in Nat /\ v3 >= 1 /\ v3 < Pow2[k]
          /\ Pow2[s3] * v3 <= v4 /\ v4 < Pow2[s3] * (v3 + 1)
      BY <1>2, <2>4, SearchStep
    <2> QED BY <2>1, <2>3, <2>5
  <1> HIDE DEF s3, v3
  <1>4. /\ s2 \in Nat /\ v2 \in Nat /\ v2 >= 1 /\ v2 < 16
        /\ Pow2[s2] * v2 <= v3 /\ v3 < Pow2[s2] * (v2 + 1)
    <2>1. 4 \in Nat /\ Pow2[4] = 16 /\ v3 \div Pow2[4] < Pow2[4] /\ Pow2[4] >= 2 BY Pow2Values, <1>3
    <2>2. s2 = IF v3 > Pow2[4] - 1 THEN 4 ELSE 0 BY <2>1
    <2> HIDE DEF s2
    <2>3. PICK k \in Nat : k = 4 OBVIOUS
    <2>4. v3 \in Nat /\ Pow2[k] >= 2 /\ v3 \div Pow2[k] < Pow2[k] /\ s2 = IF v3 > Pow2[k] - 1 THEN k ELSE 0 BY <1>3, <2>1, <2>2, <2>3
    <2>5. /\ s2 \in Nat /\ v2 \in Nat /\ v2 >= 1 /\ v2 < Pow2[k]
          /\ Pow2[s2] * v2 <= v3 /\ v3 < Pow2[s2] * (v2 + 1)
      BY <1>3, <2>4, SearchStep
    <2> QED BY <2>1, <2>3, <2>5
  <1> HIDE DEF s2, v2
  <1>5. /\ s1 \in Nat /\ v1 \in Nat /\ v1 >= 1 /\ v1 < 4
        /\ Pow2[s1] * v1 <= v2 /\ v2 < Pow2[s1] * (v1 + 1)
    <2>1. 2 \in Nat /\ Pow2[2] = 4 /\ v2 \div Pow2[2] < Pow2[2] /\ Pow2[2] >= 2 BY Pow2Values, <1>4
    <2>2. s1 = IF v2 > Pow2[2] - 1 THEN 2 ELSE 0 BY <2>1
    <2> HIDE DEF s1
    <2>3. PICK k \in Nat : k = 2 OBVIOUS
    <2>4. v2 \in Nat /\ Pow2[k] >= 2 /\ v2 \div Pow2[k] < Pow2[k] /\ s1 = IF v2 > Pow2[k] - 1 THEN k ELSE 0 BY <1>4, <2>1, <2>2, <2>3
    <2>5. /\ s1 \in Nat /\ v1 \in Nat /\ v1 >= 1 /\ v1 < Pow2[k]
          /\ Pow2[s1] * v1 <= v2 /\ v2 < Pow2[s1] * (v1 + 1)
      BY <1>4, <2>4, SearchStep
    <2> QED BY <2>1, <2>3, <2>5
  <1> HIDE DEF s1, v1
  <1>6. r \in Nat /\ Pow2[r] * 1 <= v1 /\ v1 < Pow2[r] * (1 + 1)
    <2>1. v1 = 1 \/ v1 = 2 \/ v1 = 3 BY <1>5
    <2>2. CASE v1 = 1
      <3>1. r = 0 BY <2>2
      <3> QED BY <3>1, <2>2, Pow2Values
    <2>3. CASE v1 = 2
      <3>1. r = 1 BY <2>3
      <3> QED BY <3>1, <2>3, Pow2Values
    <2>4. CASE v1 = 3
      <3>1. r = 1 BY <2>4
      <3> QED BY <3>1, <2>4, Pow2Values
    <2> QED BY <2>1, <2>2, <2>3, <2>4
  <1> HIDE DEF r
  <1>7. v \in Nat BY DEF Word32
  <1> DEFINE a == s4 + s3
             b == a + s2
             c == b + s1
             n == c + r
  <1>8. Pow2[a] * v3 <= v /\ v < Pow2[a] * (v3 + 1) /\ a \in Nat
    <2>1. a \in Nat BY <1>2, <1>3
    <2>2. s4 \in Nat /\ v4 \in Nat /\ Pow2[s4] * v4 <= v /\ v < Pow2[s4] * (v4 + 1) BY <1>2
    <2>3. Pow2[a] * v3 <= v /\ v < Pow2[a] * (v3 + 1) BY <2>2, <1>3, <1>7, ShiftTwice, Zenon
    <2> QED BY <2>1, <2>3
  <1> HIDE DEF a
  <1>9. Pow2[b] * v2 <= v /\ v < Pow2[b] * (v2 + 1) /\ b \in Nat
    <2>1. b \in Nat BY <1>4, <1>8
    <2>2. Pow2[b] * v2 <= v /\ v < Pow2[b] * (v2 + 1) BY <1>3, <1>4, <1>7, <1>8, ShiftTwice, Zenon
    <2> QED BY <2>1, <2>2
  <1> HIDE DEF b
  <1>10. Pow2[c] * v1 <= v /\ v < Pow2[c] * (v1 + 1) /\ c \in Nat
    <2>1. c \in Nat BY <1>5, <1>9
    <2>2. Pow2[c] * v1 <= v /\ v < Pow2[c] * (v1 + 1) BY <1>4, <1>5, <1>7, <1>9, ShiftTwice, Zenon
    <2> QED BY <2>1, <2>2
  <1> HIDE DEF c
  <1>11. Pow2[n] * 1 <= v /\ v < Pow2[n] * (1 + 1) /\ n \in Nat
    <2>1. n \in Nat BY <1>6, <1>10
    <2>2. PICK u \in Nat : u = 1 OBVIOUS
    <2>3. Pow2[r] * u <= v1 /\ v1 < Pow2[r] * (u + 1) BY <1>6, <2>2, Zenon
    <2>4. Pow2[n] * u <= v /\ v < Pow2[n] * (u + 1) BY <1>5, <1>6, <1>7, <1>10, <2>3, ShiftTwice, Zenon
    <2> QED BY <2>1, <2>2, <2>4, Zenon
  <1> HIDE DEF n
  <1>12. Pow2[n + 1] = 2 * Pow2[n] /\ Pow2[n] \in Nat BY <1>11, Pow2Facts, Pow2Positive
  <1>13. Pow2[n] <= v /\ v < Pow2[n + 1] BY <1>11, <1>12, <1>7
  <1> QED BY <1>1, <1>11, <1>13 DEF n, c, b, a

(* The slot of a latency: below the cap it is the logarithm, and only the  *)
(* last slot takes longer ones.                                            *)
Micros(l) == IF l.lo = 0 THEN 1 ELSE l.lo

LEMMA SlotFacts ==
  ASSUME NEW l \in Latency
  PROVE  /\ SlotOf(l) \in Slots
         /\ l.hi > 0 => SlotOf(l) = MaxSlots - 1
         /\ Micros(l) >= Pow2[MaxSlots] => SlotOf(l) = MaxSlots - 1
         /\ l.hi = 0 => Pow2[SlotOf(l)] <= Micros(l)
         /\ l.hi = 0 /\ (SlotOf(l) < MaxSlots - 1 \/ Micros(l) < Pow2[MaxSlots]) => Micros(l) < Pow2[SlotOf(l) + 1]
  <1>1. /\ l.hi \in Word32 /\ l.lo \in Word32 /\ l.hi \in Nat /\ l.lo \in Nat
        /\ MaxSlots \in Nat /\ MaxSlots >= 1 /\ MaxSlots <= 32
    BY HistogramAssumption DEF Latency, Word32
  <1>2. CASE l.hi # 0
    <2> DEFINE slot == log2(l.hi) + 32
    <2>1. log2(l.hi) \in Nat BY <1>1, <1>2, LogarithmRight
    <2>2. SlotOf(l) = IF slot >= MaxSlots THEN MaxSlots - 1 ELSE slot BY <1>2 DEF SlotOf, log2l
    <2>3. SlotOf(l) = MaxSlots - 1 BY <2>1, <2>2, <1>1
    <2> QED BY <2>3, <1>1, <1>2 DEF Slots
  <1>3. CASE l.hi = 0
    <2> DEFINE us == Micros(l)
               slot == log2(us)
    <2>1. us \in Word32 /\ us \in Nat /\ us >= 1
      <3>1. 1 \in Word32 BY DEF Word32
      <3> QED BY <3>1, <1>1 DEF Micros
    <2>2. slot \in Nat /\ Pow2[slot] <= us /\ us < Pow2[slot + 1] BY <2>1, LogarithmRight
    <2>3. SlotOf(l) = IF slot >= MaxSlots THEN MaxSlots - 1 ELSE slot BY <1>3 DEF SlotOf, log2l, Micros
    <2> HIDE DEF slot, us
    <2>4. CASE slot >= MaxSlots
      <3>1. SlotOf(l) = MaxSlots - 1 BY <2>3, <2>4
      <3>2. MaxSlots - 1 \in Nat /\ (MaxSlots - 1) + 1 = MaxSlots /\ MaxSlots - 1 <= slot BY <1>1, <2>2, <2>4
      <3>3. Pow2[MaxSlots - 1] <= Pow2[slot] /\ Pow2[MaxSlots] <= Pow2[slot] BY <3>2, <1>1, <2>2, <2>4, Pow2Grows
      <3>4. Pow2[MaxSlots - 1] \in Nat /\ Pow2[slot] \in Nat /\ Pow2[MaxSlots] \in Nat BY <3>2, <1>1, <2>2, Pow2Positive
      <3>5. Pow2[MaxSlots - 1] <= us /\ ~(us < Pow2[MaxSlots]) BY <3>3, <3>4, <2>1, <2>2
      <3> QED BY <3>1, <3>2, <3>5, <1>1, <1>3 DEF Slots, us
    <2>5. CASE ~(slot >= MaxSlots)
      <3>1. SlotOf(l) = slot BY <2>3, <2>5
      <3>2. slot + 1 \in Nat /\ slot + 1 <= MaxSlots BY <1>1, <2>2, <2>5
      <3>3. Pow2[slot + 1] <= Pow2[MaxSlots] BY <3>2, <1>1, Pow2Grows
      <3>4. Pow2[slot + 1] \in Nat /\ Pow2[MaxSlots] \in Nat BY <3>2, <1>1, Pow2Positive
      <3>5. ~(us >= Pow2[MaxSlots]) BY <3>3, <3>4, <2>1, <2>2
      <3>6. slot \in Slots BY <2>2, <3>2, <1>1 DEF Slots
      <3> QED BY <3>1, <3>5, <3>6, <2>2, <1>3 DEF us
    <2> QED BY <2>4, <2>5
  <1> QED BY <1>2, <1>3
-----------------------------------------------------------------------------
(* A slot holds just the operations whose latency falls in it. *)
InSlot(i) == {k \in DOMAIN seen : SlotOf(seen[k]) = i}

Counted ==
    /\ seen \in Seq(Latencies)
    /\ slots = [i \in Slots |-> Cardinality(InSlot(i))]

LEMMA SeenFacts ==
  ASSUME seen \in Seq(Latencies)
  PROVE  /\ Len(seen) \in Nat /\ DOMAIN seen = 1..Len(seen) /\ IsFiniteSet(DOMAIN seen)
         /\ \A k \in DOMAIN seen : seen[k] \in Latency
  <1>1. Len(seen) \in Nat /\ DOMAIN seen = 1..Len(seen) OBVIOUS
  <1>2. IsFiniteSet(1..Len(seen)) BY <1>1, FS_Interval
  <1>3. ASSUME NEW k \in DOMAIN seen PROVE seen[k] \in Latency
    <2>1. seen[k] \in Latencies OBVIOUS
    <2> QED BY <2>1, HistogramAssumption
  <1> QED BY <1>1, <1>2, <1>3

LEMMA SlotsFacts == MaxSlots \in Nat /\ MaxSlots >= 1 /\ MaxSlots - 1 \in Nat /\ Slots = 0..(MaxSlots - 1)
  BY HistogramAssumption DEF Slots

LEMMA CountedInit == Init => Counted
  <1> SUFFICES ASSUME Init PROVE Counted OBVIOUS
  <1>1. seen = <<>> /\ seen \in Seq(Latencies) /\ DOMAIN seen = {} BY DEF Init
  <1>2. \A i : InSlot(i) = {} BY <1>1 DEF InSlot
  <1>3. \A i \in Slots : Cardinality(InSlot(i)) = 0 BY <1>2, FS_EmptySet
  <1> QED BY <1>1, <1>3 DEF Init, Counted

(* The operation l that a step measures, if it measures one. *)
LEMMA RecordFacts ==
  ASSUME Counted, NEW l \in Latencies, Record(l)
  PROVE  /\ l \in Latency /\ SlotOf(l) \in Slots
         /\ seen' \in Seq(Latencies) /\ Len(seen') = Len(seen) + 1
         /\ DOMAIN seen' = 1..(Len(seen) + 1)
         /\ seen'[Len(seen) + 1] = l
         /\ \A k \in DOMAIN seen : seen'[k] = seen[k]
         /\ slots' = [slots EXCEPT ![SlotOf(l)] = @ + 1]
  <1>1. seen \in Seq(Latencies) /\ seen' = Append(seen, l) BY DEF Counted, Record
  <1>2. l \in Latency BY HistogramAssumption
  <1>3. SlotOf(l) \in Slots BY <1>2, SlotFacts
  <1> QED BY <1>1, <1>2, <1>3 DEF Record

LEMMA CountedStep ==
  ASSUME Counted, [Next]_vars
  PROVE  Counted'
  <1>1. CASE UNCHANGED vars BY <1>1 DEF vars, Counted, InSlot
  <1>2. ASSUME NEW l \in Latencies, Record(l) PROVE Counted'
    <2> DEFINE n == Len(seen) + 1
               s == SlotOf(l)
    <2>1. /\ s \in Slots /\ seen' \in Seq(Latencies) /\ DOMAIN seen' = 1..n /\ seen'[n] = l
          /\ \A k \in DOMAIN seen : seen'[k] = seen[k]
          /\ slots' = [slots EXCEPT ![s] = @ + 1]
      BY <1>2, RecordFacts
    <2>2. /\ Len(seen) \in Nat /\ DOMAIN seen = 1..Len(seen) /\ IsFiniteSet(DOMAIN seen)
          /\ slots = [i \in Slots |-> Cardinality(InSlot(i))]
      BY SeenFacts DEF Counted
    <2>3. DOMAIN seen' = DOMAIN seen \cup {n} /\ n \notin DOMAIN seen BY <2>1, <2>2
    <2>4. ASSUME NEW i \in Slots
          PROVE  slots'[i] = Cardinality(InSlot(i)')
      <3>1. InSlot(i) \subseteq DOMAIN seen BY DEF InSlot
      <3>2. IsFiniteSet(InSlot(i)) BY <2>2, <3>1, FS_Subset
      <3>3. CASE i = s
        <4>1. InSlot(i)' = InSlot(i) \cup {n}
          <5> HIDE DEF n
          <5> QED BY <3>3, <2>1, <2>3 DEF InSlot
        <4>2. n \notin InSlot(i) BY <3>1, <2>3
        <4> HIDE DEF n
        <4>3. Cardinality(InSlot(i) \cup {n}) = Cardinality(InSlot(i)) + 1 BY <3>2, <4>2, FS_AddElement, Zenon
        <4>4. slots'[i] = slots[i] + 1 BY <2>1, <2>2, <3>3
        <4>5. slots[i] = Cardinality(InSlot(i)) BY <2>2
        <4> QED BY <4>1, <4>3, <4>4, <4>5
      <3>4. CASE i # s
        <4>1. InSlot(i)' = InSlot(i)
          <5> HIDE DEF n
          <5> QED BY <3>4, <2>1, <2>3, Zenon DEF InSlot
        <4>2. slots'[i] = slots[i] BY <2>1, <2>2, <3>4
        <4>3. slots[i] = Cardinality(InSlot(i)) BY <2>2
        <4> QED BY <4>1, <4>2, <4>3
      <3> QED BY <3>3, <3>4
    <2>5. slots' = [i \in Slots |-> slots'[i]] BY <2>1, <2>2
    <2> QED BY <2>1, <2>4, <2>5 DEF Counted
  <1> QED BY <1>1, <1>2 DEF Next

(* The count of the exported histogram, and of a bucket that ends with     *)
(* slot i, in terms of the operations.                                     *)
UpToSlot(i) == {k \in DOMAIN seen : SlotOf(seen[k]) <= i}

LEMMA TotalOfSlots ==
  ASSUME Counted, NEW i \in Slots
  PROVE  RunningTotal(slots)[i] = Cardinality(UpToSlot(i)) /\ UpToSlot(i) \subseteq DOMAIN seen
  <1> DEFINE D == DOMAIN seen
             c == [k \in D |-> SlotOf(seen[k])]
             n == MaxSlots - 1
  <1>1. n \in Nat /\ Slots = 0..n BY SlotsFacts
  <1>2. IsFiniteSet(D) /\ c \in [D -> Slots] BY SeenFacts, SlotFacts DEF Counted
  <1>3. slots = CountsOf(D, c, n)
    <2>1. \A j : InSlot(j) = {d \in D : c[d] = j} BY DEF InSlot
    <2> QED BY <1>1, <2>1 DEF Counted, CountsOf
  <1>4. UpToSlot(i) = Within(D, c, i) BY DEF UpToSlot, Within
  <1> HIDE DEF D, c, n
  <1>5. RunningTotal(CountsOf(D, c, n))[i] = Cardinality(Within(D, c, i)) BY <1>1, <1>2, TotalCounts, Zenon
  <1> QED BY <1>3, <1>4, <1>5 DEF UpToSlot

(* The bucket of a boundary is the number of operations up to the last     *)
(* slot whose ceiling is not above it.                                     *)
LEMMA BucketFacts ==
  ASSUME Counted, NEW b \in Nat, b >= 1
  PROVE  \E m \in Slots : /\ HistBucket(slots, b) = Cardinality(UpToSlot(m))
                          /\ Pow2[m] <= b
                          /\ \A i \in Slots : Pow2[i] <= b => i <= m
  <1> DEFINE below == {i \in Slots : slotCeiling(i) <= b}
             n == MaxSlots - 1
             T == {n - i : i \in below}
  <1>1. n \in Nat /\ Slots = 0..n BY SlotsFacts
  <1>2. 0 \in below
    <2>1. 0 \in Slots BY <1>1
    <2>2. Pow2[0] = 1 BY Pow2Facts
    <2> QED BY <2>1, <2>2 DEF slotCeiling
  <1>3. T \subseteq Nat
    <2> SUFFICES ASSUME NEW i \in below PROVE n - i \in Nat OBVIOUS
    <2>1. i \in 0..n BY <1>1
    <2> QED BY <1>1, <2>1
  <1>4. T # {} BY <1>2
  <1>5. PICK x \in T : \A y \in T : x <= y BY <1>3, <1>4, LeastNumber, Zenon
  <1>6. PICK m \in below : x = n - m BY <1>5
  <1>7. ASSUME NEW i \in below PROVE m >= i
    <2>1. n - i \in T OBVIOUS
    <2>2. n - m <= n - i BY <1>5, <1>6, <2>1
    <2>3. i \in 0..n /\ m \in 0..n BY <1>1
    <2> HIDE DEF T, below
    <2> QED BY <2>2, <2>3, <1>1
  <1>8. Max(below) \in below /\ \A y \in below : Max(below) >= y
    <2> HIDE DEF below
    <2> QED BY <1>6, <1>7 DEF Max
  <1> DEFINE top == Max(below)
  <1>9. HistBucket(slots, b) = RunningTotal(slots)[top] BY <1>2 DEF HistBucket
  <1>10. top \in Slots /\ Pow2[top] <= b BY <1>8 DEF slotCeiling
  <1>11. ASSUME NEW i \in Slots, Pow2[i] <= b PROVE i <= top
    <2>1. i \in below BY <1>11 DEF slotCeiling
    <2>2. top >= i BY <1>8, <2>1
    <2>3. i \in Nat /\ top \in Nat BY <1>1, <1>10
    <2> HIDE DEF top
    <2> QED BY <2>2, <2>3
  <1> HIDE DEF top
  <1>12. HistBucket(slots, b) = Cardinality(UpToSlot(top)) BY <1>9, <1>10, TotalOfSlots
  <1> QED BY <1>10, <1>11, <1>12

(* Sets of measured operations are finite, and a larger one has more. *)
LEMMA CountsGrow ==
  ASSUME Counted, NEW T, T \subseteq DOMAIN seen, NEW S, S \subseteq T
  PROVE  IsFiniteSet(S) /\ Cardinality(S) \in Nat /\ Cardinality(T) \in Nat /\ Cardinality(S) <= Cardinality(T)
  <1>1. IsFiniteSet(DOMAIN seen) BY SeenFacts DEF Counted
  <1>2. IsFiniteSet(T) BY <1>1, FS_Subset
  <1>3. IsFiniteSet(S) /\ Cardinality(S) <= Cardinality(T) BY <1>2, FS_Subset
  <1> QED BY <1>2, <1>3, FS_CardinalityType

(* An operation within the boundary is in one of the bucket's slots. *)
LEMMA AtMostInBucket ==
  ASSUME Counted, NEW b \in Nat, b >= 1
  PROVE  Cardinality(AtMost(b)) <= HistBucket(slots, b) /\ Cardinality(LessThan(b)) <= HistBucket(slots, b)
  <1>1. PICK m \in Slots : /\ HistBucket(slots, b) = Cardinality(UpToSlot(m))
                           /\ \A i \in Slots : Pow2[i] <= b => i <= m
    BY BucketFacts
  <1>2. UpToSlot(m) \subseteq DOMAIN seen BY DEF UpToSlot
  <1>3. AtMost(b) \subseteq UpToSlot(m)
    <2> SUFFICES ASSUME NEW k \in AtMost(b) PROVE k \in UpToSlot(m) OBVIOUS
    <2>1. k \in DOMAIN seen BY DEF AtMost, LessThan, Exactly
    <2> DEFINE l == seen[k]
    <2>2. l \in Latency BY <2>1, SeenFacts DEF Counted
    <2>3. l.hi = 0 /\ (l.lo < b \/ l.lo = b) BY DEF AtMost, LessThan, Exactly, Below
    <2> HIDE DEF l
    <2>4. l.lo \in Nat BY <2>2 DEF Latency, Word32
    <2>5. Micros(l) \in Nat /\ Micros(l) <= b BY <2>3, <2>4 DEF Micros
    <2>6. SlotOf(l) \in Slots /\ Pow2[SlotOf(l)] <= Micros(l) BY <2>2, <2>3, SlotFacts
    <2>7. Pow2[SlotOf(l)] \in Nat BY <2>6, SlotsFacts, Pow2Positive
    <2>8. Pow2[SlotOf(l)] <= b BY <2>5, <2>6, <2>7
    <2>9. SlotOf(l) <= m BY <1>1, <2>6, <2>8
    <2> QED BY <2>1, <2>9 DEF UpToSlot, l
  <1>4. LessThan(b) \subseteq UpToSlot(m) BY <1>3 DEF AtMost
  <1>5. Cardinality(AtMost(b)) <= Cardinality(UpToSlot(m)) BY <1>2, <1>3, CountsGrow
  <1>6. Cardinality(LessThan(b)) <= Cardinality(UpToSlot(m)) BY <1>2, <1>4, CountsGrow
  <1> QED BY <1>1, <1>5, <1>6

(* And below the last slot one of the bucket's slots holds nothing as long *)
(* as twice the boundary.                                                  *)
LEMMA BucketInTwice ==
  ASSUME Counted, NEW b \in Nat, b >= 1, b < slotCeiling(MaxSlots - 1)
  PROVE  HistBucket(slots, b) <= Cardinality(LessThan(2 * b))
  <1>1. PICK m \in Slots : HistBucket(slots, b) = Cardinality(UpToSlot(m)) /\ Pow2[m] <= b BY BucketFacts
  <1>2. m \in Nat /\ m <= MaxSlots - 1 /\ MaxSlots - 1 \in Nat BY SlotsFacts
  <1>3. Pow2[m] \in Nat /\ Pow2[MaxSlots - 1] \in Nat BY <1>2, Pow2Positive
  <1>4. m < MaxSlots - 1
    <2>1. b < Pow2[MaxSlots - 1] BY DEF slotCeiling
    <2>2. m # MaxSlots - 1 BY <2>1, <1>1, <1>3
    <2> QED BY <1>2, <2>2
  <1>5. UpToSlot(m) \subseteq LessThan(2 * b)
    <2> SUFFICES ASSUME NEW k \in UpToSlot(m) PROVE k \in LessThan(2 * b) OBVIOUS
    <2> DEFINE l == seen[k]
               i == SlotOf(l)
    <2>1. k \in DOMAIN seen /\ i <= m BY DEF UpToSlot
    <2>2. l \in Latency BY <2>1, SeenFacts DEF Counted
    <2> HIDE DEF l
    <2>3. l.lo \in Nat /\ l.hi \in Nat BY <2>2 DEF Latency, Word32
    <2>4. i \in Slots BY <2>2, SlotFacts
    <2>5. i \in Nat BY <2>4, SlotsFacts
    <2>6. i < MaxSlots - 1 BY <2>1, <2>5, <1>2, <1>4
    <2>7. ~(l.hi > 0) BY <2>2, <2>6, <2>5, <1>2, SlotFacts
    <2>8. l.hi = 0 BY <2>3, <2>7
    <2>9. Micros(l) < Pow2[i + 1] BY <2>2, <2>6, <2>8, SlotFacts
    <2> HIDE DEF i
    <2>10. Pow2[i + 1] = 2 * Pow2[i] /\ Pow2[i] \in Nat /\ Pow2[i] <= Pow2[m]
      BY <2>1, <2>5, <1>2, Pow2Facts, Pow2Positive, Pow2Grows, Zenon
    <2>11. l.lo <= Micros(l) /\ Micros(l) \in Nat BY <2>3 DEF Micros
    <2>12. l.lo < 2 * b BY <2>3, <2>9, <2>10, <2>11, <1>1, <1>3
    <2> QED BY <2>1, <2>8, <2>12 DEF LessThan, Below, l
  <1>6. LessThan(2 * b) \subseteq DOMAIN seen BY DEF LessThan
  <1>7. Cardinality(UpToSlot(m)) <= Cardinality(LessThan(2 * b)) BY <1>5, <1>6, CountsGrow
  <1> QED BY <1>1, <1>7

(* What holds of every state that counts right holds of every state: the   *)
(* slots of a histogram always count the operations measured.              *)
THEOREM SlotsCount == Spec => []Counted
  <1>1. Init => Counted BY CountedInit
  <1>2. Counted /\ [Next]_vars => Counted' BY CountedStep
  <1> QED BY <1>1, <1>2, PTL DEF Spec

(* BucketsWithinTwofold, for every list of boundaries: the bucket of       *)
(* SlotsToConstHistogram misses no operation within its boundary, and      *)
(* below the last slot counts none of twice the boundary or more.          *)
THEOREM TwofoldBuckets == Spec => []BucketsWithinTwofold
  <1>1. ASSUME Counted PROVE BucketsWithinTwofold
    <2> SUFFICES ASSUME NEW i \in 1..Len(Boundaries), Boundaries[i] > 0
                 PROVE  /\ HistBucket(slots, Boundaries[i]) >= Cardinality(AtMost(Boundaries[i]))
                        /\ Boundaries[i] < slotCeiling(MaxSlots - 1) =>
                             HistBucket(slots, Boundaries[i]) <= Cardinality(LessThan(2 * Boundaries[i]))
      BY DEF BucketsWithinTwofold
    <2> DEFINE b == Boundaries[i]
    <2>1. b \in Nat /\ b >= 1
      <3>1. Boundaries[i] \in Nat BY HistogramAssumption
      <3> QED BY <3>1
    <2> HIDE DEF b
    <2>2. Cardinality(AtMost(b)) <= HistBucket(slots, b) BY <1>1, <2>1, AtMostInBucket
    <2>3. b < slotCeiling(MaxSlots - 1) => HistBucket(slots, b) <= Cardinality(LessThan(2 * b)) BY <1>1, <2>1, BucketInTwice
    <2>4. HistBucket(slots, b) \in Nat /\ Cardinality(AtMost(b)) \in Nat
      <3>1. PICK m \in Slots : HistBucket(slots, b) = Cardinality(UpToSlot(m)) BY <1>1, <2>1, BucketFacts
      <3>2. UpToSlot(m) \subseteq DOMAIN seen /\ AtMost(b) \subseteq DOMAIN seen BY DEF UpToSlot, AtMost, LessThan, Exactly
      <3> QED BY <1>1, <3>1, <3>2, CountsGrow
    <2>5. HistBucket(slots, b) >= Cardinality(AtMost(b)) BY <2>2, <2>4
    <2> QED BY <2>3, <2>5 DEF b
  <1>2. Counted => BucketsWithinTwofold BY <1>1
  <1> QED BY <1>2, SlotsCount, PTL

(* SlotIsLogarithm, for every latency of 64 bits: the eBPF programs count  *)
(* an operation in the slot of its binary logarithm or, from the cap on,   *)
(* in the last one.                                                        *)
THEOREM LogarithmicSlots == Spec => []SlotIsLogarithm
  <1>1. ASSUME Counted PROVE SlotIsLogarithm
    <2> SUFFICES ASSUME NEW k \in DOMAIN seen
                 PROVE  IF seen[k].hi > 0 \/ Micros(seen[k]) >= Pow2[MaxSlots]
                        THEN SlotOf(seen[k]) = MaxSlots - 1
                        ELSE Pow2[SlotOf(seen[k])] <= Micros(seen[k]) /\ Micros(seen[k]) < Pow2[SlotOf(seen[k]) + 1]
      BY DEF SlotIsLogarithm, Micros
    <2> DEFINE l == seen[k]
    <2>1. l \in Latency BY <1>1, SeenFacts DEF Counted
    <2> HIDE DEF l
    <2>2. l.hi \in Nat /\ l.lo \in Nat BY <2>1 DEF Latency, Word32
    <2>3. CASE l.hi > 0 \/ Micros(l) >= Pow2[MaxSlots] BY <2>1, <2>3, SlotFacts DEF l
    <2>4. CASE ~(l.hi > 0) /\ ~(Micros(l) >= Pow2[MaxSlots])
      <3>1. l.hi = 0 BY <2>2, <2>4
      <3>2. Micros(l) \in Nat BY <2>2 DEF Micros
      <3>3. Pow2[MaxSlots] \in Nat BY SlotsFacts, Pow2Positive
      <3>4. Micros(l) < Pow2[MaxSlots] BY <2>4, <3>2, <3>3
      <3> QED BY <2>1, <2>4, <3>1, <3>4, SlotFacts DEF l
    <2> QED BY <2>3, <2>4 DEF l
  <1>2. Counted => SlotIsLogarithm BY <1>1
  <1> QED BY <1>2, SlotsCount, PTL
-----------------------------------------------------------------------------
(* Boundaries that QEMU took are in order. *)
LEMMA AcceptedOrder ==
  ASSUME Accepted, NEW i \in 1..Len(Boundaries), NEW j \in 1..Len(Boundaries), i <= j
  PROVE  /\ Boundaries[i] \in Nat /\ Boundaries[j] \in Nat /\ Boundaries[i] >= 1
         /\ Boundaries[i] <= Boundaries[j]
  <1> DEFINE n == Len(Boundaries)
             S == {k \in Nat : i + k <= n => Boundaries[i] <= Boundaries[i + k]}
  <1>1. n \in Nat /\ \A k \in 1..n : Boundaries[k] \in Nat BY HistogramAssumption
  <1>2. \A k \in 1..n : Boundaries[k] > IF k = 1 THEN 0 ELSE Boundaries[k - 1] BY DEF Accepted
  <1> HIDE DEF n
  <1>3. \A k \in 1..n : Boundaries[k] >= 1
    <2> SUFFICES ASSUME NEW k \in 1..n PROVE Boundaries[k] >= 1 OBVIOUS
    <2>1. CASE k = 1 BY <2>1, <1>1, <1>2
    <2>2. CASE k # 1
      <3>1. k - 1 \in 1..n BY <2>2, <1>1
      <3>2. Boundaries[k] > Boundaries[k - 1] /\ Boundaries[k - 1] \in Nat /\ Boundaries[k] \in Nat BY <2>2, <3>1, <1>1, <1>2
      <3> QED BY <3>2
    <2> QED BY <2>1, <2>2
  <1>4. i \in 1..n /\ j \in 1..n BY DEF n
  <1>5. 0 \in S BY <1>1, <1>4
  <1>6. ASSUME NEW k \in Nat, k \in S PROVE k + 1 \in S
    <2> SUFFICES ASSUME i + (k + 1) <= n PROVE Boundaries[i] <= Boundaries[i + (k + 1)] OBVIOUS
    <2> DEFINE m == i + (k + 1)
    <2>1. m \in 1..n /\ m # 1 /\ m - 1 = i + k /\ m - 1 \in 1..n /\ i + k <= n BY <1>1, <1>4
    <2>2. Boundaries[i] <= Boundaries[i + k] BY <1>6, <2>1
    <2> HIDE DEF m
    <2>3. Boundaries[m] > Boundaries[m - 1] BY <2>1, <1>2
    <2>4. Boundaries[m] \in Nat /\ Boundaries[m - 1] \in Nat /\ Boundaries[i] \in Nat BY <2>1, <1>1, <1>4
    <2>5. Boundaries[i] <= Boundaries[m] BY <2>1, <2>2, <2>3, <2>4
    <2> QED BY <2>5 DEF m
  <1> HIDE DEF S
  <1>7. Nat \subseteq S BY <1>5, <1>6, Induction
  <1>8. j - i \in Nat /\ i + (j - i) = j /\ j <= n BY <1>4
  <1>9. Boundaries[i] <= Boundaries[i + (j - i)] BY <1>7, <1>8 DEF S
  <1> QED BY <1>1, <1>3, <1>4, <1>8, <1>9

(* QEMU counts every latency in a bin, and in a bin up to that of boundary *)
(* j just the latencies below it.                                          *)
LEMMA BinFacts ==
  ASSUME Accepted, NEW l \in Latency
  PROVE  \E i \in 0..Len(Boundaries) :
             /\ \A j \in 0..Len(Boundaries) : InBin(l, j) <=> j = i
             /\ \A j \in 1..Len(Boundaries) : Below(l, Boundaries[j]) <=> i <= j - 1
  <1> DEFINE n == Len(Boundaries)
             T == {i \in 0..n : i = n \/ Below(l, Boundaries[i + 1])}
  <1>1. n \in Nat BY HistogramAssumption
  <1>2. T \subseteq Nat /\ n \in T BY <1>1
  <1>3. PICK i \in T : \A y \in T : i <= y
    <2> HIDE DEF T
    <2>1. T # {} BY <1>2
    <2> QED BY <1>2, <2>1, LeastNumber, Zenon
  <1>4. i \in 0..n /\ (i = n \/ Below(l, Boundaries[i + 1])) OBVIOUS
  <1>5. ASSUME NEW y \in 0..n, y = n \/ Below(l, Boundaries[y + 1]) PROVE i <= y BY <1>3, <1>5
  <1>6. l.lo \in Nat BY DEF Latency, Word32
  <1> HIDE DEF T
  <1>7. ASSUME NEW j \in 1..n PROVE Below(l, Boundaries[j]) <=> i <= j - 1
    <2>1. j - 1 \in 0..n /\ (j - 1) + 1 = j BY <1>1
    <2>2. ASSUME Below(l, Boundaries[j]) PROVE i <= j - 1 BY <2>1, <2>2, <1>5
    <2>3. ASSUME i <= j - 1 PROVE Below(l, Boundaries[j])
      <3>1. i # n /\ i + 1 \in 1..n /\ i + 1 <= j BY <2>3, <1>1, <1>4
      <3>2. Boundaries[i + 1] \in Nat /\ Boundaries[j] \in Nat /\ Boundaries[i + 1] <= Boundaries[j] BY <3>1, AcceptedOrder
      <3>3. l.hi = 0 /\ l.lo < Boundaries[i + 1] BY <1>4, <3>1 DEF Below
      <3> QED BY <3>2, <3>3, <1>6 DEF Below
    <2> QED BY <2>2, <2>3
  <1>8. ASSUME NEW j \in 0..n PROVE InBin(l, j) <=> j = i
    <2>1. ASSUME j = i PROVE InBin(l, j)
      <3>1. CASE i = 0 BY <2>1, <3>1, <1>4 DEF InBin
      <3>2. CASE i # 0
        <4>1. i \in 1..n /\ ~(i <= i - 1) BY <3>2, <1>1, <1>4
        <4>2. ~Below(l, Boundaries[i]) BY <4>1, <1>7
        <4> QED BY <2>1, <4>2, <1>4 DEF InBin
      <3> QED BY <3>1, <3>2
    <2>2. ASSUME InBin(l, j) PROVE j = i
      <3>1. j = 0 \/ ~Below(l, Boundaries[j]) BY <2>2 DEF InBin
      <3>2. j = n \/ Below(l, Boundaries[j + 1]) BY <2>2 DEF InBin
      <3>3. i <= j BY <3>2, <1>5
      <3>4. j <= i
        <4>1. CASE j = 0 BY <4>1, <1>4
        <4>2. CASE j # 0
          <5>1. j \in 1..n BY <4>2, <1>1
          <5>2. ~(i <= j - 1) BY <5>1, <4>2, <3>1, <1>7
          <5> QED BY <5>1, <5>2, <1>4
        <4> QED BY <4>1, <4>2
      <3> QED BY <3>3, <3>4, <1>4
    <2> QED BY <2>1, <2>2
  <1> QED BY <1>4, <1>7, <1>8

(* So the running total of the bins counts the operations below a          *)
(* boundary, and in the end all of them.                                   *)
LEMMA TotalOfBins ==
  ASSUME Counted, Accepted
  PROVE  /\ RunningTotal(Bins(seen))[Len(Boundaries)] = Cardinality(DOMAIN seen)
         /\ \A j \in 1..Len(Boundaries) : RunningTotal(Bins(seen))[j - 1] = Cardinality(LessThan(Boundaries[j]))
  <1> DEFINE n == Len(Boundaries)
             D == DOMAIN seen
             bin(k) == CHOOSE i \in 0..n : /\ \A j \in 0..n : InBin(seen[k], j) <=> j = i
                                           /\ \A j \in 1..n : Below(seen[k], Boundaries[j]) <=> i <= j - 1
             c == [k \in D |-> bin(k)]
             total == RunningTotal(Bins(seen))
  <1>1. n \in Nat BY HistogramAssumption
  <1>2. ASSUME NEW k \in D
        PROVE  /\ bin(k) \in 0..n
               /\ \A j \in 0..n : InBin(seen[k], j) <=> j = bin(k)
               /\ \A j \in 1..n : Below(seen[k], Boundaries[j]) <=> bin(k) <= j - 1
    <2>1. seen[k] \in Latency BY SeenFacts DEF Counted
    <2>2. \E i \in 0..n : /\ \A j \in 0..n : InBin(seen[k], j) <=> j = i
                          /\ \A j \in 1..n : Below(seen[k], Boundaries[j]) <=> i <= j - 1
      BY <2>1, BinFacts
    <2> QED BY <2>2
  <1> HIDE DEF bin
  <1>3. c \in [D -> 0..n] BY <1>2
  <1>4. IsFiniteSet(D) BY SeenFacts DEF Counted
  <1>5. Bins(seen) = CountsOf(D, c, n)
    <2>1. ASSUME NEW i \in 0..n PROVE {k \in D : InBin(seen[k], i)} = {d \in D : c[d] = i} BY <1>2
    <2> QED BY <2>1, Zenon DEF Bins, CountsOf
  <1> DEFINE upto(i) == {d \in D : c[d] <= i}
  <1>6. ASSUME NEW i \in 0..n PROVE total[i] = Cardinality(upto(i))
    <2> HIDE DEF c, D, n
    <2>1. RunningTotal(CountsOf(D, c, n))[i] = Cardinality(Within(D, c, i)) BY <1>1, <1>3, <1>4, TotalCounts, Zenon
    <2> QED BY <1>5, <2>1 DEF Within
  <1>7. upto(n) = D
    <2> HIDE DEF c, D, n
    <2>1. \A d \in D : c[d] <= n BY <1>1, <1>3
    <2> QED BY <2>1
  <1>8. ASSUME NEW j \in 1..n PROVE j - 1 \in 0..n /\ upto(j - 1) = LessThan(Boundaries[j])
    <2>1. j - 1 \in 0..n BY <1>1
    <2>2. \A d \in D : c[d] <= j - 1 <=> Below(seen[d], Boundaries[j]) BY <1>2
    <2> QED BY <2>1, <2>2 DEF LessThan
  <1>9. n \in 0..n BY <1>1
  <1> HIDE DEF upto, total, n
  <1> QED BY <1>6, <1>7, <1>8, <1>9 DEF total, n

(* Every operation is in some slot. *)
LEMMA CountIsAll ==
  ASSUME Counted
  PROVE  HistCount(slots) = Cardinality(DOMAIN seen)
  <1>1. MaxSlots - 1 \in Slots /\ \A i \in Slots : i <= MaxSlots - 1 BY SlotsFacts
  <1>2. \A k \in DOMAIN seen : SlotOf(seen[k]) \in Slots BY SeenFacts, SlotFacts DEF Counted
  <1>3. UpToSlot(MaxSlots - 1) = DOMAIN seen BY <1>1, <1>2 DEF UpToSlot
  <1> QED BY <1>1, <1>3, TotalOfSlots DEF HistCount

(* QMPBuckets, for every list of boundaries QEMU takes: a bucket of        *)
(* ConvertBuckets lacks just the operations as long as its boundary, and   *)
(* the histograms QEMU and the eBPF programs keep of the same operations   *)
(* have one count, and no bucket of the former is above that of the latter. *)
THEOREM QMPBucketsRight == Spec => []QMPBuckets
  <1>1. ASSUME Counted, Accepted, NEW i \in 1..Len(Boundaries)
        PROVE  LET b == Boundaries[i]
               IN  /\ RunningTotal(Bins(seen))[i - 1] = Cardinality(AtMost(b)) - Cardinality(Exactly(b))
                   /\ RunningTotal(Bins(seen))[i - 1] <= HistBucket(slots, b)
    <2> DEFINE b == Boundaries[i]
    <2>1. b \in Nat /\ b >= 1 BY <1>1, AcceptedOrder
    <2>2. RunningTotal(Bins(seen))[i - 1] = Cardinality(LessThan(b)) BY <1>1, TotalOfBins
    <2> HIDE DEF b
    <2>3. LessThan(b) \cap Exactly(b) = {}
      <3>1. ASSUME NEW k \in LessThan(b), k \in Exactly(b) PROVE FALSE
        <4>1. seen[k].lo < b /\ seen[k].lo = b BY <3>1 DEF LessThan, Exactly, Below
        <4> QED BY <4>1, <2>1
      <3> QED BY <3>1
    <2>4. LessThan(b) \subseteq DOMAIN seen /\ Exactly(b) \subseteq DOMAIN seen BY DEF LessThan, Exactly
    <2>5. /\ IsFiniteSet(LessThan(b)) /\ IsFiniteSet(Exactly(b))
          /\ Cardinality(LessThan(b)) \in Nat /\ Cardinality(Exactly(b)) \in Nat
      BY <1>1, <2>4, CountsGrow
    <2>6. Cardinality(AtMost(b)) = Cardinality(LessThan(b)) + Cardinality(Exactly(b)) - Cardinality({})
      BY <2>3, <2>5, FS_Union DEF AtMost
    <2>7. Cardinality({}) = 0 BY FS_EmptySet
    <2>9. Cardinality(LessThan(b)) = Cardinality(AtMost(b)) - Cardinality(Exactly(b)) BY <2>5, <2>6, <2>7
    <2>10. Cardinality(LessThan(b)) <= HistBucket(slots, b) BY <1>1, <2>1, AtMostInBucket
    <2> QED BY <2>2, <2>9, <2>10 DEF b
  <1>2. ASSUME Counted, Accepted PROVE RunningTotal(Bins(seen))[Len(Boundaries)] = HistCount(slots)
    BY <1>2, TotalOfBins, CountIsAll
  <1>3. Counted => QMPBuckets BY <1>1, <1>2, SMTT(20) DEF QMPBuckets, ConvertBuckets
  <1> QED BY <1>3, SlotsCount, PTL
-----------------------------------------------------------------------------
(* What the slots add to the sum, and the whole microseconds of the        *)
(* operations, entry by entry.                                             *)
SlotShare == [i \in Slots |-> slots[i] * MidpointTenths(i)]
Elapsed == [k \in 0..Len(seen) |-> IF k = 0 THEN 0 ELSE seen[k].lo]
Took == RunningTotal(Elapsed)[Len(seen)]

(* Every operation so far was of a microsecond or more and below the cap. *)
InRange == \A k \in 1..Len(seen) : seen[k].hi = 0 /\ seen[k].lo >= 1 /\ seen[k].lo < Pow2[MaxSlots]

SumBounds == HistSumTenths(slots) <= 10 * Took /\ 10 * (Took + Len(seen)) <= 4 * HistSumTenths(slots)

LEMMA SumIsBounds == SumWithinFourfold <=> (InRange => SumBounds)
  BY DEF SumWithinFourfold, InRange, SumBounds, Took, Elapsed

LEMMA MidpointType == \A i \in Slots : MidpointTenths(i) \in Nat
  <1> SUFFICES ASSUME NEW i \in Slots PROVE MidpointTenths(i) \in Nat OBVIOUS
  <1>1. i \in Nat BY SlotsFacts
  <1>2. CASE i = 0 BY <1>2 DEF MidpointTenths
  <1>3. CASE i # 0
    <2>1. i - 1 \in Nat BY <1>1, <1>3
    <2>2. Pow2[i - 1] \in Nat BY <2>1, Pow2Positive
    <2> QED BY <1>3, <2>2 DEF MidpointTenths
  <1> QED BY <1>2, <1>3

LEMMA CountedTypes ==
  ASSUME Counted
  PROVE  /\ slots \in [Slots -> Nat] /\ SlotShare \in [Slots -> Nat]
         /\ Elapsed \in [0..Len(seen) -> Nat]
         /\ HistSumTenths(slots) \in Nat /\ Took \in Nat /\ Len(seen) \in Nat
  <1>1. ASSUME NEW i \in Slots PROVE Cardinality(InSlot(i)) \in Nat
    <2>1. InSlot(i) \subseteq DOMAIN seen BY DEF InSlot
    <2> QED BY <2>1, CountsGrow
  <1>2. slots \in [Slots -> Nat] BY <1>1 DEF Counted
  <1>3. \A x, y \in Nat : x * y \in Nat OBVIOUS
  <1>4. \A i \in Slots : slots[i] \in Nat BY <1>2
  <1>5. \A i \in Slots : slots[i] * MidpointTenths(i) \in Nat BY <1>3, <1>4, MidpointType
  <1>6. SlotShare \in [Slots -> Nat] BY <1>5 DEF SlotShare
  <1>7. Len(seen) \in Nat /\ DOMAIN seen = 1..Len(seen)
    <2>1. seen \in Seq(Latencies) BY Zenon DEF Counted
    <2> QED BY <2>1, SeenFacts, Zenon
  <1>8. ASSUME NEW k \in 0..Len(seen), k # 0 PROVE seen[k].lo \in Nat
    <2>1. k \in DOMAIN seen BY <1>7, <1>8
    <2>2. seen[k] \in Latency BY <2>1, SeenFacts DEF Counted
    <2> QED BY <2>2 DEF Latency, Word32
  <1>9. Elapsed \in [0..Len(seen) -> Nat] BY <1>8 DEF Elapsed
  <1>10. Took \in Nat
    <2> DEFINE n == Len(seen)
    <2>1. n \in 0..n /\ n \in Nat BY <1>7
    <2> HIDE DEF n
    <2>2. Elapsed \in [0..n -> Nat] BY <1>9 DEF n
    <2>3. RunningTotal(Elapsed) \in [0..n -> Nat] BY <2>1, <2>2, TotalFacts
    <2>4. RunningTotal(Elapsed)[n] \in Nat BY <2>1, <2>3
    <2> QED BY <2>4 DEF Took, n
  <1>11. HistSumTenths(slots) \in Nat
    <2> DEFINE m == MaxSlots - 1
    <2>1. m \in Nat /\ m \in 0..m /\ Slots = 0..m BY SlotsFacts
    <2> HIDE DEF m
    <2>2. SlotShare \in [0..m -> Nat] BY <1>6, <2>1
    <2>3. RunningTotal(SlotShare) \in [0..m -> Nat] BY <2>1, <2>2, TotalFacts
    <2>4. RunningTotal(SlotShare)[m] \in Nat BY <2>1, <2>3
    <2> QED BY <2>4 DEF HistSumTenths, SlotShare, m
  <1> QED BY <1>2, <1>6, <1>7, <1>9, <1>10, <1>11

(* An operation adds the midpoint of its slot to the sum, and what it took *)
(* to the time taken.                                                      *)
LEMMA SumGrows ==
  ASSUME Counted, NEW l \in Latencies, Record(l)
  PROVE  /\ HistSumTenths(slots)' = HistSumTenths(slots) + MidpointTenths(SlotOf(l))
         /\ Took' = Took + l.lo
         /\ Len(seen)' = Len(seen) + 1
  <1> DEFINE s == SlotOf(l)
             m == MaxSlots - 1
             x == MidpointTenths(s)
             n == Len(seen)
  <1>1. /\ s \in Slots /\ l \in Latency /\ Len(seen') = n + 1 /\ DOMAIN seen' = 1..(n + 1)
        /\ seen'[n + 1] = l /\ \A k \in DOMAIN seen : seen'[k] = seen[k]
        /\ slots' = [slots EXCEPT ![s] = @ + 1]
    BY RecordFacts
  <1>2. m \in Nat /\ Slots = 0..m BY SlotsFacts
  <1>3. /\ slots \in [Slots -> Nat] /\ SlotShare \in [Slots -> Nat]
        /\ Elapsed \in [0..n -> Nat] /\ n \in Nat
    BY CountedTypes
  <1>4. SlotShare' = [SlotShare EXCEPT ![s] = @ + x]
    <2>1. \A a, b \in Nat : (a + 1) * b = a * b + b OBVIOUS
    <2>2. x \in Nat /\ slots[s] \in Nat BY <1>1, <1>3, MidpointType
    <2>3. (slots[s] + 1) * x = slots[s] * x + x BY <2>1, <2>2
    <2>4. ASSUME NEW i \in Slots
          PROVE  slots'[i] * MidpointTenths(i) = IF i = s THEN SlotShare[i] + x ELSE SlotShare[i]
      <3>1. CASE i = s
        <4>1. slots'[i] = slots[s] + 1 BY <3>1, <1>1, <1>3
        <4>2. SlotShare[i] = slots[s] * x BY <3>1 DEF SlotShare
        <4>3. MidpointTenths(i) = x BY <3>1
        <4> HIDE DEF x, s
        <4>4. slots'[i] * MidpointTenths(i) = slots[s] * x + x BY <4>1, <4>3, <2>3, Zenon
        <4> QED BY <3>1, <4>2, <4>4, Zenon
      <3>2. CASE i # s
        <4>1. slots'[i] = slots[i] BY <3>2, <1>1, <1>3
        <4>2. SlotShare[i] = slots[i] * MidpointTenths(i) BY DEF SlotShare
        <4> HIDE DEF x, s
        <4> QED BY <3>2, <4>1, <4>2, Zenon
      <3> QED BY <3>1, <3>2
    <2>5. SlotShare' = [i \in Slots |-> slots'[i] * MidpointTenths(i)] BY DEF SlotShare
    <2> HIDE DEF x, s
    <2> QED BY <2>4, <2>5, <1>1, <1>3, Zenon
  <1>5. HistSumTenths(slots)' = HistSumTenths(slots) + x
    <2>1. HistSumTenths(slots) = RunningTotal(SlotShare)[m] BY DEF HistSumTenths, SlotShare
    <2>2. HistSumTenths(slots)' = RunningTotal(SlotShare')[m] BY DEF HistSumTenths, SlotShare
    <2>3. x \in Nat /\ s \in 0..m /\ SlotShare \in [0..m -> Nat] BY <1>1, <1>2, <1>3, MidpointType
    <2> HIDE DEF m, x, s
    <2>4. RunningTotal([SlotShare EXCEPT ![s] = @ + x])[m] = RunningTotal(SlotShare)[m] + x BY <1>2, <2>3, TotalBump, ZenonT(30)
    <2> QED BY <2>1, <2>2, <2>4, <1>4
  <1>6. Took' = Took + l.lo
    <2>1. l.lo \in Nat BY <1>1 DEF Latency, Word32
    <2>2. Elapsed' = [k \in 0..(n + 1) |-> IF k = 0 THEN 0 ELSE seen'[k].lo] BY <1>1 DEF Elapsed
    <2>3. DOMAIN seen = 1..n BY SeenFacts DEF Counted
    <2> HIDE DEF n
    <2>4. ASSUME NEW k \in 0..n PROVE Elapsed'[k] = Elapsed[k]
      <3>1. k \in 0..(n + 1) BY <1>3
      <3>2. CASE k = 0 BY <3>1, <3>2, <2>2 DEF Elapsed, n
      <3>3. CASE k # 0
        <4>1. k \in DOMAIN seen BY <3>3, <2>3, <1>3
        <4>2. seen'[k] = seen[k] BY <4>1, <1>1
        <4> QED BY <3>1, <3>3, <4>2, <2>2 DEF Elapsed, n
      <3> QED BY <3>2, <3>3
    <2>5. Elapsed'[n + 1] = l.lo
      <3>1. n + 1 \in 0..(n + 1) /\ n + 1 # 0 BY <1>3
      <3> QED BY <3>1, <2>2, <1>1
    <2>6. Elapsed' \in [0..(n + 1) -> Nat]
      <3>1. ASSUME NEW k \in 0..(n + 1) PROVE Elapsed'[k] \in Nat
        <4>1. CASE k = n + 1 BY <4>1, <2>1, <2>5
        <4>2. CASE k # n + 1
          <5>1. k \in 0..n BY <4>2, <1>3
          <5> QED BY <5>1, <2>4, <1>3
        <4> QED BY <4>1, <4>2
      <3>2. Elapsed' = [k \in 0..(n + 1) |-> Elapsed'[k]] BY <2>2
      <3> QED BY <3>1, <3>2
    <2>7. RunningTotal(Elapsed')[n + 1] = RunningTotal(Elapsed)[n] + Elapsed'[n + 1]
      BY <1>3, <2>4, <2>6, TotalExtends, Zenon
    <2>8. Took = RunningTotal(Elapsed)[n] /\ Took' = RunningTotal(Elapsed')[n + 1] BY <1>1 DEF Took, n
    <2> QED BY <2>5, <2>7, <2>8
  <1> QED BY <1>1, <1>5, <1>6

(* A midpoint is not above what an operation of its slot took, and not     *)
(* below a quarter of it.                                                  *)
LEMMA MidpointBounds ==
  ASSUME NEW l \in Latency, l.hi = 0, l.lo >= 1, l.lo < Pow2[MaxSlots]
  PROVE  /\ MidpointTenths(SlotOf(l)) <= 10 * l.lo
         /\ 10 * (l.lo + 1) <= 4 * MidpointTenths(SlotOf(l))
  <1> DEFINE i == SlotOf(l)
  <1>1. l.lo \in Nat /\ Micros(l) = l.lo BY DEF Latency, Word32, Micros
  <1>2. i \in Slots /\ Pow2[i] <= l.lo /\ l.lo < Pow2[i + 1] BY <1>1, SlotFacts
  <1> HIDE DEF i
  <1>3. i \in Nat BY <1>2, SlotsFacts
  <1>4. CASE i = 0
    <2>1. l.lo < Pow2[0 + 1] /\ Pow2[0 + 1] = 2 BY <1>2, <1>4, Pow2Values
    <2>2. l.lo = 1 BY <2>1, <1>1
    <2>3. MidpointTenths(i) = 5 BY <1>4 DEF MidpointTenths
    <2> QED BY <2>2, <2>3 DEF i
  <1>5. CASE i # 0
    <2> DEFINE p == Pow2[i - 1]
    <2>1. i - 1 \in Nat /\ (i - 1) + 1 = i BY <1>3, <1>5
    <2>2. p \in Nat BY <2>1, Pow2Positive
    <2>3. Pow2[(i - 1) + 1] = 2 * p BY <2>1, Pow2Facts
    <2>4. Pow2[i] = 2 * p BY <2>1, <2>3
    <2>5. Pow2[i + 1] = 2 * Pow2[i] BY <1>3, Pow2Facts
    <2>6. MidpointTenths(i) = p * 14 BY <1>5 DEF MidpointTenths
    <2> HIDE DEF p
    <2>7. 2 * p <= l.lo /\ l.lo < 4 * p BY <1>2, <2>2, <2>4, <2>5
    <2>8. p * 14 <= 10 * l.lo /\ 10 * (l.lo + 1) <= 4 * (p * 14) BY <1>1, <2>2, <2>7
    <2> QED BY <2>6, <2>8 DEF i
  <1> QED BY <1>4, <1>5

LEMMA SumInit == Init => SumWithinFourfold
  <1> SUFFICES ASSUME Init PROVE SumBounds BY SumIsBounds
  <1> DEFINE m == MaxSlots - 1
             t == RunningTotal(SlotShare)
  <1>1. Counted BY CountedInit
  <1>2. m \in Nat /\ Slots = 0..m /\ m \in 0..m BY SlotsFacts
  <1>3. \A x \in Nat : 0 * x = 0 OBVIOUS
  <1>4. ASSUME NEW i \in Slots PROVE SlotShare[i] = 0 BY <1>3, MidpointType DEF Init, SlotShare
  <1>5. SlotShare \in [0..m -> Nat] BY <1>1, <1>2, CountedTypes
  <1> HIDE DEF m
  <1>6. t[0] = SlotShare[0] /\ \A i \in 1..m : t[i] = t[i - 1] + SlotShare[i] BY <1>2, <1>5, TotalFacts
  <1> HIDE DEF t
  <1> DEFINE S == {i \in Nat : i <= m => t[i] = 0}
  <1>7. 0 \in S BY <1>2, <1>4, <1>6
  <1>8. ASSUME NEW i \in Nat, i \in S PROVE i + 1 \in S
    <2> SUFFICES ASSUME i + 1 <= m PROVE t[i + 1] = 0 OBVIOUS
    <2>1. i + 1 \in 1..m /\ i + 1 \in 0..m /\ (i + 1) - 1 = i /\ i <= m BY <1>2
    <2>2. t[i] = 0 BY <1>8, <2>1
    <2>3. t[i + 1] = t[i] + SlotShare[i + 1] BY <2>1, <1>6
    <2>4. SlotShare[i + 1] = 0 BY <2>1, <1>2, <1>4
    <2> QED BY <2>2, <2>3, <2>4
  <1> HIDE DEF S
  <1>9. Nat \subseteq S BY <1>7, <1>8, Induction
  <1>10. t[m] = 0 BY <1>2, <1>9 DEF S
  <1>11. HistSumTenths(slots) = 0 BY <1>10 DEF HistSumTenths, SlotShare, t, m
  <1>12. Len(seen) = 0 BY DEF Init
  <1>13. Took = 0
    <2>1. Elapsed \in [0..0 -> Nat] /\ Elapsed[0] = 0 BY <1>1, <1>12, CountedTypes DEF Elapsed
    <2>2. RunningTotal(Elapsed)[0] = Elapsed[0] BY <2>1, TotalFacts, Zenon
    <2> QED BY <2>1, <2>2, <1>12 DEF Took
  <1> QED BY <1>11, <1>12, <1>13 DEF SumBounds

LEMMA SumStep ==
  ASSUME Counted, SumWithinFourfold, [Next]_vars
  PROVE  SumWithinFourfold'
  <1>1. CASE UNCHANGED vars
    <2>1. seen' = seen /\ slots' = slots BY <1>1 DEF vars
    <2> QED BY <2>1 DEF SumWithinFourfold, HistSumTenths
  <1>2. ASSUME NEW l \in Latencies, Record(l) PROVE SumWithinFourfold'
    <2> SUFFICES ASSUME InRange' PROVE SumBounds'
      <3>1. (SumWithinFourfold <=> (InRange => SumBounds))' BY SumIsBounds, PTL
      <3> QED BY <3>1
    <2> DEFINE n == Len(seen)
    <2>1. /\ l \in Latency /\ Len(seen') = n + 1 /\ seen'[n + 1] = l
          /\ \A k \in DOMAIN seen : seen'[k] = seen[k]
      BY <1>2, RecordFacts
    <2>2. n \in Nat /\ DOMAIN seen = 1..n BY SeenFacts, Zenon DEF Counted
    <2>3. \A k \in 1..(n + 1) : seen'[k].hi = 0 /\ seen'[k].lo >= 1 /\ seen'[k].lo < Pow2[MaxSlots]
      BY <2>1 DEF InRange
    <2> HIDE DEF n
    <2>4. n + 1 \in 1..(n + 1) /\ 1..n \subseteq 1..(n + 1) BY <2>2
    <2>5. l.hi = 0 /\ l.lo >= 1 /\ l.lo < Pow2[MaxSlots] BY <2>1, <2>3, <2>4
    <2>6. InRange
      <3>1. ASSUME NEW k \in 1..n PROVE seen[k].hi = 0 /\ seen[k].lo >= 1 /\ seen[k].lo < Pow2[MaxSlots]
        <4>1. k \in 1..(n + 1) /\ seen'[k] = seen[k] BY <2>1, <2>2, <2>4
        <4> QED BY <4>1, <2>3
      <3> QED BY <3>1 DEF InRange, n
    <2>7. SumBounds BY <2>6, SumIsBounds
    <2> DEFINE x == MidpointTenths(SlotOf(l))
               sum == HistSumTenths(slots)
    <2>8. sum' = sum + x /\ Took' = Took + l.lo /\ Len(seen)' = n + 1 BY <1>2, SumGrows DEF n
    <2>9. x <= 10 * l.lo /\ 10 * (l.lo + 1) <= 4 * x BY <2>1, <2>5, MidpointBounds, Zenon
    <2>10. sum \in Nat /\ Took \in Nat /\ l.lo \in Nat /\ x \in Nat
      <3>1. SlotOf(l) \in Slots BY <2>1, SlotFacts, Zenon
      <3>2. l.lo \in Nat BY <2>1 DEF Latency, Word32
      <3> QED BY <3>1, <3>2, CountedTypes, MidpointType, Zenon
    <2>11. sum <= 10 * Took /\ 10 * (Took + n) <= 4 * sum BY <2>7 DEF SumBounds, n
    <2> HIDE DEF x, sum
    <2>12. \A a, b, c, d, e \in Nat :
              a <= 10 * b /\ 10 * (b + e) <= 4 * a /\ c <= 10 * d /\ 10 * (d + 1) <= 4 * c =>
                a + c <= 10 * (b + d) /\ 10 * ((b + d) + (e + 1)) <= 4 * (a + c)
      OBVIOUS
    <2>13. sum + x <= 10 * (Took + l.lo) /\ 10 * ((Took + l.lo) + (n + 1)) <= 4 * (sum + x)
      BY <2>2, <2>9, <2>10, <2>11, <2>12, Zenon
    <2>14. sum' <= 10 * Took' /\ 10 * (Took' + Len(seen)') <= 4 * sum' BY <2>8, <2>13, Zenon
    <2> QED BY <2>14 DEF SumBounds, sum
  <1> QED BY <1>1, <1>2 DEF Next

(* SumWithinFourfold, for every latency below the cap: the sum             *)
(* SlotsToConstHistogram exports, made of the midpoints of the slots, is   *)
(* at most what the operations took and at least a quarter of it.          *)
THEOREM FourfoldSum == Spec => []SumWithinFourfold
  <1>1. Init => SumWithinFourfold BY SumInit
  <1>2. Counted /\ SumWithinFourfold /\ [Next]_vars => SumWithinFourfold' BY SumStep
  <1> QED BY <1>1, <1>2, SlotsCount, PTL DEF Spec
-----------------------------------------------------------------------------
(* What Prometheus takes a histogram for, of the exported one: a bucket    *)
(* includes those of smaller boundaries and the count includes them all,   *)
(* and none of them, nor the sum, ever goes down.                          *)
CumulativeBuckets ==
    \A i, j \in 1..Len(Boundaries) :
        LET b == Boundaries[i]
            c == Boundaries[j]
        IN  /\ b <= c => HistBucket(slots, b) <= HistBucket(slots, c)
            /\ HistBucket(slots, b) <= HistCount(slots)

Grows ==
    /\ HistCount(slots) <= HistCount(slots)'
    /\ HistSumTenths(slots) <= HistSumTenths(slots)'
    /\ \A i \in 1..Len(Boundaries) : HistBucket(slots, Boundaries[i]) <= HistBucket(slots, Boundaries[i])'

(* The last slot of the bucket of b. *)
Top(m, b) == Pow2[m] <= b /\ \A i \in Slots : Pow2[i] <= b => i <= m

(* What a bucket counts, also that of the boundary 0, which no slot is in. *)
BucketCounts ==
    \A b \in Nat : IF b = 0 THEN HistBucket(slots, b) = 0
                   ELSE \E m \in Slots : Top(m, b) /\ HistBucket(slots, b) = Cardinality(UpToSlot(m))

LEMMA BucketTop == Counted => BucketCounts
  <1> SUFFICES ASSUME Counted, NEW b \in Nat
               PROVE  IF b = 0 THEN HistBucket(slots, b) = 0
                      ELSE \E m \in Slots : Top(m, b) /\ HistBucket(slots, b) = Cardinality(UpToSlot(m))
    BY DEF BucketCounts
  <1>1. CASE b = 0
    <2>1. ASSUME NEW i \in Slots PROVE ~(slotCeiling(i) <= b)
      <3>1. i \in Nat BY SlotsFacts
      <3>2. Pow2[i] \in Nat /\ Pow2[i] >= 1 BY <3>1, Pow2Positive
      <3> QED BY <1>1, <3>2 DEF slotCeiling
    <2>2. {i \in Slots : slotCeiling(i) <= b} = {} BY <2>1
    <2>3. HistBucket(slots, b) = 0 BY <2>2 DEF HistBucket
    <2> QED BY <1>1, <2>3
  <1>2. CASE b # 0
    <2>1. b >= 1 BY <1>2
    <2>2. PICK m \in Slots : /\ HistBucket(slots, b) = Cardinality(UpToSlot(m))
                             /\ Pow2[m] <= b
                             /\ \A i \in Slots : Pow2[i] <= b => i <= m
      BY <2>1, BucketFacts
    <2> QED BY <1>2, <2>2 DEF Top
  <1> QED BY <1>1, <1>2

LEMMA BoundaryType == \A i \in 1..Len(Boundaries) : Boundaries[i] \in Nat
  BY HistogramAssumption

(* The exported buckets are cumulative: SlotsToConstHistogram gives each   *)
(* the running total at its last slot, and the count is the last total.    *)
THEOREM Cumulative == Spec => []CumulativeBuckets
  <1>1. ASSUME Counted, NEW b \in Nat
        PROVE  /\ HistBucket(slots, b) \in Nat /\ HistCount(slots) \in Nat
               /\ HistBucket(slots, b) <= HistCount(slots)
    <2>1. HistCount(slots) = Cardinality(DOMAIN seen) BY <1>1, CountIsAll
    <2>2. HistCount(slots) \in Nat BY <1>1, <2>1, CountsGrow
    <2>3. CASE b = 0
      <3>1. HistBucket(slots, b) = 0 BY <1>1, <2>3, BucketTop DEF BucketCounts
      <3> QED BY <3>1, <2>2
    <2>4. CASE b # 0
      <3>1. PICK m \in Slots : HistBucket(slots, b) = Cardinality(UpToSlot(m)) BY <1>1, <2>4, BucketTop DEF BucketCounts
      <3>2. UpToSlot(m) \subseteq DOMAIN seen BY DEF UpToSlot
      <3> QED BY <1>1, <2>1, <3>1, <3>2, CountsGrow
    <2> QED BY <2>3, <2>4
  <1>2. ASSUME Counted, NEW b \in Nat, NEW c \in Nat, b <= c
        PROVE  HistBucket(slots, b) <= HistBucket(slots, c)
    <2>1. CASE b = 0
      <3>1. HistBucket(slots, b) = 0 BY <1>2, <2>1, BucketTop DEF BucketCounts
      <3>2. HistBucket(slots, c) \in Nat BY <1>1, <1>2
      <3> QED BY <3>1, <3>2
    <2>2. CASE b # 0
      <3>1. c # 0 BY <1>2, <2>2
      <3>2. PICK m \in Slots : Top(m, b) /\ HistBucket(slots, b) = Cardinality(UpToSlot(m)) BY <1>2, <2>2, BucketTop DEF BucketCounts
      <3>3. PICK n \in Slots : Top(n, c) /\ HistBucket(slots, c) = Cardinality(UpToSlot(n)) BY <1>2, <3>1, BucketTop DEF BucketCounts
      <3>4. m \in Nat /\ n \in Nat BY SlotsFacts
      <3>5. Pow2[m] \in Nat /\ Pow2[m] <= b BY <3>2, <3>4, Pow2Positive DEF Top
      <3>6. Pow2[m] <= c BY <3>5, <1>2
      <3>7. m <= n BY <3>3, <3>6 DEF Top
      <3>8. \A k \in DOMAIN seen : SlotOf(seen[k]) \in Nat
        <4>1. \A k \in DOMAIN seen : SlotOf(seen[k]) \in Slots BY <1>2, SeenFacts, SlotFacts DEF Counted
        <4> QED BY <4>1, SlotsFacts
      <3>9. UpToSlot(m) \subseteq UpToSlot(n) /\ UpToSlot(n) \subseteq DOMAIN seen BY <3>4, <3>7, <3>8 DEF UpToSlot
      <3> QED BY <1>2, <3>2, <3>3, <3>9, CountsGrow
    <2> QED BY <2>1, <2>2
  <1>3. Counted => CumulativeBuckets BY <1>1, <1>2, BoundaryType, Zenon DEF CumulativeBuckets
  <1> QED BY <1>3, SlotsCount, PTL

(* An operation more leaves the earlier ones in their slots. *)
LEMMA BucketKeeps ==
  ASSUME Counted, Counted', NEW l \in Latencies, Record(l)
  PROVE  /\ HistCount(slots) <= HistCount(slots)'
         /\ \A b \in Nat : HistBucket(slots, b) <= HistBucket(slots, b)'
  <1>1. DOMAIN seen \subseteq DOMAIN seen' /\ \A k \in DOMAIN seen : seen'[k] = seen[k]
    <2>1. DOMAIN seen' = 1..(Len(seen) + 1) /\ \A k \in DOMAIN seen : seen'[k] = seen[k] BY RecordFacts
    <2>2. Len(seen) \in Nat /\ DOMAIN seen = 1..Len(seen) BY SeenFacts DEF Counted
    <2> QED BY <2>1, <2>2
  <1>2. ASSUME NEW S, NEW T, S \subseteq T, T \subseteq DOMAIN seen'
        PROVE  Cardinality(S) <= Cardinality(T) /\ Cardinality(S) \in Nat /\ Cardinality(T) \in Nat
    <2>1. IsFiniteSet(DOMAIN seen')
      <3>1. (seen \in Seq(Latencies))' BY DEF Counted
      <3>2. Len(seen') \in Nat /\ DOMAIN seen' = 1..Len(seen') BY <3>1
      <3> QED BY <3>2, FS_Interval
    <2>2. IsFiniteSet(T) BY <1>2, <2>1, FS_Subset
    <2>3. IsFiniteSet(S) /\ Cardinality(S) <= Cardinality(T) BY <1>2, <2>2, FS_Subset
    <2> QED BY <2>2, <2>3, FS_CardinalityType
  <1>3. HistCount(slots) <= HistCount(slots)'
    <2>1. (Counted => HistCount(slots) = Cardinality(DOMAIN seen))' BY CountIsAll, PTL
    <2>2. HistCount(slots)' = Cardinality(DOMAIN seen') BY <2>1
    <2>3. HistCount(slots) = Cardinality(DOMAIN seen) BY CountIsAll
    <2> QED BY <2>2, <2>3, <1>1, <1>2
  <1>4. ASSUME NEW c \in Nat PROVE HistBucket(slots, c) <= HistBucket(slots, c)'
    <2>1. IF c = 0 THEN HistBucket(slots, c) = 0
          ELSE \E m \in Slots : Top(m, c) /\ HistBucket(slots, c) = Cardinality(UpToSlot(m))
      BY BucketTop DEF BucketCounts
    <2>2. IF c = 0 THEN HistBucket(slots, c)' = 0
          ELSE \E m \in Slots : Top(m, c) /\ HistBucket(slots, c)' = Cardinality(UpToSlot(m)')
      <3>1. (Counted => BucketCounts)' BY BucketTop, PTL
      <3> QED BY <3>1 DEF BucketCounts, Top
    <2>3. CASE c = 0 BY <2>1, <2>2, <2>3
    <2>4. CASE c # 0
      <3>1. PICK m \in Slots : Top(m, c) /\ HistBucket(slots, c) = Cardinality(UpToSlot(m)) BY <2>1, <2>4
      <3>2. PICK n \in Slots : Top(n, c) /\ HistBucket(slots, c)' = Cardinality(UpToSlot(n)') BY <2>2, <2>4
      <3>3. m \in Nat /\ n \in Nat BY SlotsFacts
      <3>4. m <= n /\ n <= m BY <3>1, <3>2 DEF Top
      <3>5. m = n BY <3>3, <3>4
      <3>6. UpToSlot(m) \subseteq UpToSlot(m)' /\ UpToSlot(m)' \subseteq DOMAIN seen' BY <1>1 DEF UpToSlot
      <3> QED BY <3>1, <3>2, <3>5, <3>6, <1>2
    <2> QED BY <2>3, <2>4
  <1> QED BY <1>3, <1>4

(* What SlotsToConstHistogram exports is a counter, also where it is not   *)
(* exact: between two scrapes of the same slots no bucket, not the count   *)
(* and not the sum of midpoints can fall.                                  *)
THEOREM OnlyGrows == Spec => [][Grows]_vars
  <1>1. ASSUME Counted, Counted', [Next]_vars PROVE [Grows]_vars
    <2>1. CASE UNCHANGED vars BY <2>1
    <2>2. ASSUME NEW l \in Latencies, Record(l) PROVE Grows
      <3>1. HistSumTenths(slots)' = HistSumTenths(slots) + MidpointTenths(SlotOf(l)) BY <1>1, <2>2, SumGrows
      <3>2. HistSumTenths(slots) \in Nat BY <1>1, CountedTypes
      <3>3. MidpointTenths(SlotOf(l)) \in Nat
        <4>1. SlotOf(l) \in Slots BY <1>1, <2>2, RecordFacts
        <4> QED BY <4>1, MidpointType
      <3>4. HistSumTenths(slots) <= HistSumTenths(slots)' BY <3>1, <3>2, <3>3
      <3>5. /\ HistCount(slots) <= HistCount(slots)'
            /\ \A b \in Nat : HistBucket(slots, b) <= HistBucket(slots, b)'
        BY <1>1, <2>2, BucketKeeps
      <3> QED BY <3>4, <3>5, BoundaryType DEF Grows
    <2> QED BY <1>1, <2>1, <2>2 DEF Next
  <1>2. Counted /\ Counted' /\ [Next]_vars => [Grows]_vars BY <1>1
  <1> QED BY <1>2, SlotsCount, PTL DEF Spec
=============================================================================
