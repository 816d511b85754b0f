--------------------------- MODULE IdSumTheorems ---------------------------
(***************************************************************************)
(* What SumTo returns, and how it changes when one entry changes.          *)
(***************************************************************************)
EXTENDS IdSums, TLAPS, WellFoundedInduction

\* A non-empty set of naturals has a least element.
LEMMA NatMinimum ==
  ASSUME NEW T \in SUBSET Nat, T # {}
  PROVE  \E m \in T : \A k \in T : m <= k
<1> DEFINE R == {ss \in Nat \X Nat : ss[1] < ss[2]}
<1>1. IsWellFoundedOn(R, Nat)
  <2>1. OpToRel(<, Nat) = R
    BY DEF OpToRel
  <2> QED BY <2>1, NatLessThanWellFounded
<1>2. \A x, y \in Nat : <<y, x>> \in R <=> y < x
  OBVIOUS
<1> HIDE DEF R
<1>3. PICK x \in T : \A y \in T : ~(<<y, x>> \in R)
  BY <1>1, WFMin
<1>4. ASSUME NEW y \in T PROVE x <= y
  <2>1. x \in Nat /\ y \in Nat
    OBVIOUS
  <2>2. ~(<<y, x>> \in R)
    BY <1>3
  <2>3. ~(y < x)
    BY <2>1, <2>2, <1>2
  <2> QED BY <2>1, <2>3
<1> QED BY <1>4

\* Induction on naturals, for a set instead of a predicate.
LEMMA SetInduction ==
  ASSUME NEW T \in SUBSET Nat, 0 \in T, \A n \in T : n + 1 \in T
  PROVE  T = Nat
<1>1. SUFFICES ASSUME Nat \ T # {} PROVE FALSE
  OBVIOUS
<1>2. PICK m \in Nat \ T : \A k \in Nat \ T : m <= k
  BY NatMinimum, <1>1
<1>3. m # 0 /\ m - 1 \in T
  BY <1>2
<1> QED BY <1>2, <1>3

\* g holds the partial sums of f up to n.
Accumulates(g, f, n) ==
  /\ g \in [0..n -> Int]
  /\ g[0] = 0
  /\ \A i \in 1..n : g[i] = g[i - 1] + f[i]

LEMMA AccumulatorExists ==
  ASSUME NEW n \in Nat, NEW f \in [1..n -> Int]
  PROVE  \E g : Accumulates(g, f, n)
<1> DEFINE T == {k \in Nat : k <= n => \E g : Accumulates(g, f, k)}
<1>1. 0 \in T
  <2>1. Accumulates([i \in 0..0 |-> 0], f, 0)
    BY DEF Accumulates
  <2> QED BY <2>1
<1>2. ASSUME NEW k \in T PROVE k + 1 \in T
  <2>1. SUFFICES ASSUME k + 1 <= n PROVE \E g : Accumulates(g, f, k + 1)
    OBVIOUS
  <2>2. PICK g : Accumulates(g, f, k)
    BY <2>1
  <2> DEFINE h == [i \in 0..(k + 1) |-> IF i = k + 1 THEN g[k] + f[k + 1] ELSE g[i]]
  <2>3. Accumulates(h, f, k + 1)
    BY <2>1, <2>2 DEF Accumulates
  <2> QED BY <2>3
<1>3. T = Nat
  <2> HIDE DEF T
  <2>1. T \in SUBSET Nat
    BY DEF T
  <2> QED BY <1>1, <1>2, <2>1, SetInduction
<1>4. n \in T
  BY <1>3
<1> QED BY <1>4

LEMMA AccumulatorUnique ==
  ASSUME NEW n \in Nat, NEW f \in [1..n -> Int], NEW g, NEW h,
         Accumulates(g, f, n), Accumulates(h, f, n)
  PROVE  g = h
<1> DEFINE T == {k \in Nat : k <= n => g[k] = h[k]}
<1>1. 0 \in T
  BY DEF Accumulates
<1>2. ASSUME NEW k \in T PROVE k + 1 \in T
  BY DEF Accumulates
<1>3. T = Nat
  <2> HIDE DEF T
  <2>1. T \in SUBSET Nat
    BY DEF T
  <2> QED BY <1>1, <1>2, <2>1, SetInduction
<1>4. \A k \in 0..n : g[k] = h[k]
  BY <1>3
<1> QED BY <1>4 DEF Accumulates

LEMMA PartialSumsAccumulate ==
  ASSUME NEW n \in Nat, NEW f \in [1..n -> Int]
  PROVE  Accumulates(PartialSums(f, n), f, n)
<1> DEFINE s == PartialSums(f, n)
<1> DEFINE Step(g) == [i \in 0..n |-> IF i = 0 THEN 0 ELSE g[i - 1] + f[i]]
<1>1. PICK g : Accumulates(g, f, n)
  BY AccumulatorExists
<1>2. g = Step(g)
  BY <1>1 DEF Accumulates
<1>3. s = CHOOSE e : e = Step(e)
  BY DEF PartialSums
<1>4. s = Step(s)
  BY <1>2, <1>3
<1> HIDE DEF s
<1>5. s[0] = 0 /\ \A i \in 1..n : s[i] = s[i - 1] + f[i]
  BY <1>4
<1> DEFINE T == {k \in Nat : k <= n => s[k] \in Int}
<1>6. 0 \in T
  BY <1>5
<1>7. ASSUME NEW k \in T PROVE k + 1 \in T
  BY <1>5
<1>8. T = Nat
  <2> HIDE DEF T
  <2>1. T \in SUBSET Nat
    BY DEF T
  <2> QED BY <1>6, <1>7, <2>1, SetInduction
<1>9. \A k \in 0..n : s[k] \in Int
  BY <1>8
<1>10. s \in [0..n -> Int]
  BY <1>4, <1>9
<1> QED BY <1>5, <1>10 DEF Accumulates, s

-----------------------------------------------------------------------------
\* A sum of integers is an integer.
LEMMA SumType ==
  ASSUME NEW n \in Nat, NEW f \in [1..n -> Int]
  PROVE  SumTo(f, n) \in Int
BY PartialSumsAccumulate DEF Accumulates, SumTo

\* Changing the entry at x changes the sum by as much.
LEMMA SumUpdate ==
  ASSUME NEW n \in Nat, NEW f \in [1..n -> Int], NEW h \in [1..n -> Int],
         NEW x \in 1..n, \A i \in 1..n : i # x => h[i] = f[i]
  PROVE  SumTo(h, n) = SumTo(f, n) + (h[x] - f[x])
<1> DEFINE s == PartialSums(f, n)
<1> DEFINE t == PartialSums(h, n)
<1> DEFINE u == [i \in 0..n |-> IF i < x THEN s[i] ELSE s[i] + (h[x] - f[x])]
<1>1. Accumulates(s, f, n) /\ Accumulates(t, h, n)
  BY PartialSumsAccumulate
<1> HIDE DEF s, t
<1>2. Accumulates(u, h, n)
  <2>0. /\ \A i \in 0..n : s[i] \in Int
        /\ s[0] = 0
        /\ \A i \in 1..n : s[i] = s[i - 1] + f[i]
        /\ f[x] \in Int /\ h[x] \in Int
    BY <1>1 DEF Accumulates
  <2>1. u \in [0..n -> Int] /\ u[0] = 0
    <3>1. h[x] - f[x] \in Int
      BY <2>0
    <3>2. \A i \in 0..n : s[i] + (h[x] - f[x]) \in Int
      BY <2>0, <3>1
    <3>3. \A i \in 0..n : (IF i < x THEN s[i] ELSE s[i] + (h[x] - f[x])) \in Int
      BY <2>0, <3>2
    <3>4. u \in [0..n -> Int]
      BY <3>3
    <3>5. 0 < x /\ 0 \in 0..n
      OBVIOUS
    <3>6. u[0] = 0
      BY <2>0, <3>5
    <3> QED BY <3>4, <3>6
  <2>2. ASSUME NEW i \in 1..n PROVE u[i] = u[i - 1] + h[i]
    <3>0. i \in 0..n /\ i - 1 \in 0..n
      OBVIOUS
    <3>1. /\ i \in Int /\ i - 1 \in 0..n /\ s[i] = s[i - 1] + f[i]
          /\ s[i] \in Int /\ s[i - 1] \in Int /\ f[i] \in Int /\ h[i] \in Int
          /\ f[x] \in Int /\ h[x] \in Int
      BY <2>0, <3>0
    <3>2. CASE i < x
      BY <3>1, <3>2
    <3>3. CASE i = x
      BY <3>1, <3>3
    <3>4. CASE i > x
      BY <3>1, <3>4
    <3> QED BY <3>1, <3>2, <3>3, <3>4
  <2> QED BY <2>1, <2>2 DEF Accumulates
<1>3. t = u
  BY <1>1, <1>2, AccumulatorUnique
<1>4. t[n] = s[n] + (h[x] - f[x])
  BY <1>3
<1> QED BY <1>4 DEF SumTo, s, t

\* Entries that agree have the same sum.
LEMMA SumSame ==
  ASSUME NEW n \in Nat, NEW f \in [1..n -> Int], NEW h \in [1..n -> Int],
         \A i \in 1..n : h[i] = f[i]
  PROVE  SumTo(h, n) = SumTo(f, n)
<1>1. f = h
  OBVIOUS
<1> QED BY <1>1

\* The sum of zeros is zero.
LEMMA SumZero ==
  ASSUME NEW n \in Nat, NEW f \in [1..n -> Int], \A i \in 1..n : f[i] = 0
  PROVE  SumTo(f, n) = 0
<1>1. Accumulates([i \in 0..n |-> 0], f, n)
  BY DEF Accumulates
<1>2. PartialSums(f, n) = [i \in 0..n |-> 0]
  BY <1>1, PartialSumsAccumulate, AccumulatorUnique
<1> QED BY <1>2 DEF SumTo

\* A sum of naturals is at least each of them, and is a natural.
LEMMA SumAtLeast ==
  ASSUME NEW n \in Nat, NEW f \in [1..n -> Nat]
  PROVE  /\ SumTo(f, n) \in Nat
         /\ \A x \in 1..n : SumTo(f, n) >= f[x]
<1> DEFINE s == PartialSums(f, n)
<1> DEFINE T == {k \in Nat : k <= n => /\ s[k] >= 0
                                       /\ \A x \in 1..k : s[k] >= f[x]}
<1>1. Accumulates(s, f, n)
  <2>1. f \in [1..n -> Int]
    OBVIOUS
  <2> QED BY <2>1, PartialSumsAccumulate
<1> HIDE DEF s
<1>2. 0 \in T
  BY <1>1 DEF Accumulates
<1>3. ASSUME NEW k \in T PROVE k + 1 \in T
  <2>1. SUFFICES ASSUME k + 1 <= n
                 PROVE  /\ s[k + 1] >= 0
                        /\ \A x \in 1..(k + 1) : s[k + 1] >= f[x]
    OBVIOUS
  <2>2. /\ s[k + 1] = s[k] + f[k + 1]
        /\ s[k] \in Int /\ f[k + 1] \in Nat
    <3>1. k + 1 \in 1..n /\ (k + 1) - 1 = k /\ k \in 0..n
      BY <2>1
    <3> QED BY <1>1, <3>1 DEF Accumulates
  <2>3. s[k] >= 0 /\ \A x \in 1..k : s[k] >= f[x]
    BY <2>1
  <2>4. ASSUME NEW x \in 1..(k + 1) PROVE s[k + 1] >= f[x]
    <3>1. CASE x = k + 1
      BY <2>2, <2>3, <3>1
    <3>2. CASE x # k + 1
      <4>1. x \in 1..k /\ f[x] \in Nat
        BY <2>1, <3>2
      <4> QED BY <2>2, <2>3, <4>1
    <3> QED BY <3>1, <3>2
  <2> QED BY <2>2, <2>3, <2>4
<1>4. T = Nat
  <2> HIDE DEF T
  <2>1. T \in SUBSET Nat
    BY DEF T
  <2> QED BY <1>2, <1>3, <2>1, SetInduction
<1>5. s[n] \in Int /\ s[n] >= 0 /\ \A x \in 1..n : s[n] >= f[x]
  <2>1. s[n] \in Int
    BY <1>1 DEF Accumulates
  <2>2. n \in T
    BY <1>4
  <2> QED BY <2>1, <2>2
<1> QED BY <1>5 DEF SumTo, s

\* A sum of sums is the sum of the sums.
LEMMA SumAdd ==
  ASSUME NEW n \in Nat, NEW f \in [1..n -> Int], NEW g \in [1..n -> Int],
         NEW h \in [1..n -> Int], \A i \in 1..n : h[i] = f[i] + g[i]
  PROVE  SumTo(h, n) = SumTo(f, n) + SumTo(g, n)
<1> DEFINE s == PartialSums(f, n)
<1> DEFINE t == PartialSums(g, n)
<1> DEFINE u == [i \in 0..n |-> s[i] + t[i]]
<1>1. /\ Accumulates(s, f, n) /\ Accumulates(t, g, n)
      /\ Accumulates(PartialSums(h, n), h, n)
  BY PartialSumsAccumulate
<1> HIDE DEF s, t
<1>2. Accumulates(u, h, n)
  <2>1. /\ \A i \in 0..n : s[i] \in Int /\ t[i] \in Int
        /\ s[0] = 0 /\ t[0] = 0
        /\ \A i \in 1..n : s[i] = s[i - 1] + f[i] /\ t[i] = t[i - 1] + g[i]
    BY <1>1 DEF Accumulates
  <2>2. u \in [0..n -> Int] /\ u[0] = 0
    <3>1. \A i \in 0..n : s[i] + t[i] \in Int
      BY <2>1
    <3>2. 0 \in 0..n
      OBVIOUS
    <3> QED BY <2>1, <3>1, <3>2
  <2>3. ASSUME NEW i \in 1..n PROVE u[i] = u[i - 1] + h[i]
    <3>1. i \in 0..n /\ i - 1 \in 0..n /\ f[i] \in Int /\ g[i] \in Int
      OBVIOUS
    <3>2. u[i] = s[i] + t[i] /\ u[i - 1] = s[i - 1] + t[i - 1]
      BY <3>1
    <3> HIDE DEF u
    <3> QED BY <2>1, <3>1, <3>2
  <2> QED BY <2>2, <2>3 DEF Accumulates
<1>3. PartialSums(h, n) = u
  BY <1>1, <1>2, AccumulatorUnique
<1> QED BY <1>3 DEF SumTo, s, t
=============================================================================
