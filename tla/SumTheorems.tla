----------------------------- MODULE SumTheorems ------------------------------
(***************************************************************************)
(* How a sum changes when an element is added or replaced.                 *)
(***************************************************************************)
EXTENDS Sums, WellFoundedInduction, SequenceTheorems, TLAPS

(* The least element of a set of naturals, which stands in for induction.  *)
LEMMA LeastNat ==
    ASSUME NEW T \in SUBSET Nat, T # {}
    PROVE  \E m \in T : \A k \in T : m <= k
<1>1. PICK x \in T : \A y \in T : <<y, x>> \notin OpToRel(<, Nat)
  BY WFMin, NatLessThanWellFounded
<1>2. \A y \in T : ~(y < x)
  BY <1>1 DEF OpToRel
<1> QED
  BY <1>2

(* What holds of 0 and, with k, of k + 1 up to n holds of all of 0..n.     *)
LEMMA UpTo ==
    ASSUME NEW n \in Nat, NEW T \in SUBSET (0..n), 0 \in T,
           \A k \in 0..n - 1 : k \in T => k + 1 \in T
    PROVE  T = 0..n
<1>1. SUFFICES ASSUME (0..n) \ T # {} PROVE FALSE
  OBVIOUS
<1>2. PICK m \in (0..n) \ T : \A k \in (0..n) \ T : m <= k
  <2>1. (0..n) \ T \in SUBSET Nat
    OBVIOUS
  <2> QED
    BY <1>1, <2>1, LeastNat
<1>3. m # 0 /\ m - 1 \in 0..n - 1
  BY <1>2
<1>4. m - 1 \in T
  BY <1>2, <1>3
<1> QED
  BY <1>2, <1>3, <1>4

(* Applying the functions F[1], F[2], ... one after the other: a function  *)
(* defined by recursion over 0..n has a value at every step.               *)
IteratesOf(F, a, n, S, g) ==
    /\ g \in [0..n -> S] /\ g[0] = a
    /\ \A k \in 1..n : g[k] = F[k][g[k - 1]]

(* Steps F[1], F[2], ... applied one after the other have intermediate results. *)
LEMMA IteratesExist ==
    ASSUME NEW n \in Nat, NEW S, NEW a \in S, NEW F \in [1..n -> [S -> S]]
    PROVE  \E g : IteratesOf(F, a, n, S, g)
<1> DEFINE Is(g, m) == /\ g \in [0..m -> S] /\ g[0] = a
                       /\ \A k \in 1..m : g[k] = F[k][g[k - 1]]
           T == {m \in 0..n : \E g : Is(g, m)}
<1>1. 0 \in T
  <2>1. Is([k \in 0..0 |-> a], 0)
    OBVIOUS
  <2>2. \E g : Is(g, 0)
    BY <2>1
  <2>3. 0 \in 0..n
    OBVIOUS
  <2> QED
    BY <2>2, <2>3
<1>2. ASSUME NEW m \in 0..n - 1, m \in T PROVE m + 1 \in T
  <2>1. PICK g : Is(g, m)
    BY <1>2
  <2>2. PICK h : h = [k \in 0..m + 1 |-> IF k <= m THEN g[k] ELSE F[m + 1][g[m]]]
    OBVIOUS
  <2>3. F[m + 1][g[m]] \in S /\ m + 1 \in 0..n
    <3>1. m + 1 \in 1..n /\ m \in 0..m
      BY <1>2
    <3>2. g[m] \in S /\ F[m + 1] \in [S -> S]
      BY <2>1, <3>1
    <3> QED
      BY <3>1, <3>2
  <2>4. h \in [0..m + 1 -> S] /\ h[0] = a
    BY <1>2, <2>1, <2>2, <2>3
  <2>5. ASSUME NEW k \in 1..m + 1 PROVE h[k] = F[k][h[k - 1]]
    <3>1. CASE k \in 1..m
      <4>1. k - 1 \in 0..m /\ k \in 0..m + 1 /\ k <= m /\ k - 1 <= m /\ k - 1 \in 0..m + 1
        BY <1>2, <3>1
      <4>2. h[k] = g[k] /\ h[k - 1] = g[k - 1]
        BY <2>2, <4>1
      <4> QED
        BY <2>1, <3>1, <4>2
    <3>2. CASE k = m + 1
      <4>1. k \in 0..m + 1 /\ ~(k <= m) /\ k - 1 = m /\ m \in 0..m + 1 /\ m <= m
        BY <1>2, <3>2
      <4> QED
        BY <2>2, <3>2, <4>1
    <3> QED
      BY <1>2, <2>5, <3>1, <3>2
  <2>6. Is(h, m + 1)
    BY <2>4, <2>5
  <2> QED
    BY <2>3, <2>6
<1> HIDE DEF T
<1>3. T = 0..n
  <2>1. T \in SUBSET (0..n)
    BY DEF T
  <2> QED
    BY <1>1, <1>2, <2>1, UpTo
<1> QED
  BY <1>3 DEF T, IteratesOf

(* The recursion defines a function.                                       *)
LEMMA PartialSumsAre ==
    ASSUME NEW f \in Seq(Int)
    PROVE  /\ PartialSums(f) \in [0..Len(f) -> Int]
           /\ PartialSums(f)[0] = 0
           /\ \A k \in 1..Len(f) : PartialSums(f)[k] = PartialSums(f)[k - 1] + f[k]
<1> DEFINE Is(g, n) == /\ g \in [0..n -> Int] /\ g[0] = 0
                       /\ \A k \in 1..n : g[k] = g[k - 1] + f[k]
           T == {n \in 0..Len(f) : \E g : Is(g, n)}
<1>0. Len(f) \in Nat
  OBVIOUS
<1>1. 0 \in T
  <2>1. Is([k \in 0..0 |-> 0], 0)
    OBVIOUS
  <2>2. \E g : Is(g, 0)
    BY <2>1
  <2>3. 0 \in 0..Len(f)
    BY <1>0
  <2> QED
    BY <2>2, <2>3
<1>2. ASSUME NEW n \in 0..Len(f) - 1, n \in T PROVE n + 1 \in T
  <2>1. PICK g : Is(g, n)
    BY <1>2
  <2>2. PICK h : h = [k \in 0..n + 1 |-> IF k <= n THEN g[k] ELSE g[n] + f[n + 1]]
    OBVIOUS
  <2>3. f[n + 1] \in Int /\ n + 1 \in 0..Len(f)
    BY <1>0, <1>2
  <2>4. h \in [0..n + 1 -> Int] /\ h[0] = 0
    BY <1>2, <2>1, <2>2, <2>3
  <2>5. ASSUME NEW k \in 1..n + 1 PROVE h[k] = h[k - 1] + f[k]
    <3>1. CASE k \in 1..n
      <4>1. k - 1 \in 0..n /\ k \in 0..n + 1 /\ k <= n /\ k - 1 <= n /\ k - 1 \in 0..n + 1
        BY <1>2, <3>1
      <4>2. h[k] = g[k] /\ h[k - 1] = g[k - 1]
        BY <2>2, <4>1
      <4> QED
        BY <2>1, <3>1, <4>2
    <3>2. CASE k = n + 1
      BY <1>2, <2>2, <3>2
    <3> QED
      BY <1>2, <2>5, <3>1, <3>2
  <2>6. Is(h, n + 1)
    BY <2>4, <2>5
  <2> QED
    BY <2>3, <2>6
<1> HIDE DEF T
<1>3. T = 0..Len(f)
  <2>1. T \in SUBSET (0..Len(f))
    BY DEF T
  <2> QED
    BY <1>0, <1>1, <1>2, <2>1, UpTo
<1>4. PICK g : Is(g, Len(f))
  BY <1>0, <1>3 DEF T
<1>5. g = [k \in 0..Len(f) |-> IF k = 0 THEN 0 ELSE g[k - 1] + f[k]]
  BY <1>0, <1>4
<1>6. PICK s : s = PartialSums(f)
  OBVIOUS
<1>7. s = [k \in 0..Len(f) |-> IF k = 0 THEN 0 ELSE s[k - 1] + f[k]]
  BY <1>5, <1>6 DEF PartialSums
<1>8. s[0] = 0 /\ \A k \in 1..Len(f) : s[k] = s[k - 1] + f[k]
  BY <1>0, <1>7
<1>9. s \in [0..Len(f) -> Int]
  <2>1. {k \in 0..Len(f) : s[k] \in Int} = 0..Len(f)
    <3> DEFINE U == {k \in 0..Len(f) : s[k] \in Int}
    <3>1. 0 \in U
      BY <1>0, <1>8
    <3>2. ASSUME NEW k \in 0..Len(f) - 1, k \in U PROVE k + 1 \in U
      <4>1. k + 1 \in 1..Len(f) /\ (k + 1) - 1 = k
        BY <1>0, <3>2
      <4>2. s[k + 1] = s[k] + f[k + 1] /\ f[k + 1] \in Int
        BY <1>8, <4>1
      <4> QED
        BY <3>2, <4>1, <4>2
    <3>3. U \in SUBSET (0..Len(f))
      OBVIOUS
    <3> HIDE DEF U
    <3>4. U = 0..Len(f)
      BY <1>0, <3>1, <3>2, <3>3, UpTo
    <3> QED
      BY <3>4 DEF U
  <2> QED
    BY <1>7, <2>1
<1> QED
  BY <1>6, <1>8, <1>9

(* A partial sum and the next element make the next partial sum. *)
LEMMA SumStep ==
    ASSUME NEW f \in Seq(Int), NEW k \in 0..Len(f) - 1
    PROVE  /\ PartialSums(f)[k] \in Int /\ f[k + 1] \in Int
           /\ PartialSums(f)[k + 1] = PartialSums(f)[k] + f[k + 1]
<1>1. PICK n \in Nat : n = Len(f)
  OBVIOUS
<1>2. k + 1 \in 1..n /\ k \in 0..n /\ (k + 1) - 1 = k
  BY <1>1
<1>3. f[k + 1] \in Int
  BY <1>1, <1>2
<1> QED
  BY <1>1, <1>2, <1>3, PartialSumsAre

(* A sum of integers is an integer.                                        *)
LEMMA SumType == ASSUME NEW f \in Seq(Int) PROVE SumOf(f) \in Int
<1>1. Len(f) \in Nat /\ Len(f) \in 0..Len(f)
  OBVIOUS
<1> QED
  BY <1>1, PartialSumsAre DEF SumOf

(* The empty sum.                                                          *)
LEMMA SumOfNone == SumOf(<<>>) = 0
<1>1. <<>> \in Seq(Int) /\ Len(<<>>) = 0
  OBVIOUS
<1> QED
  BY <1>1, PartialSumsAre DEF SumOf

(* Sequences that agree have the same sums.                                *)
LEMMA SameSums ==
    ASSUME NEW f \in Seq(Int), NEW g \in Seq(Int), NEW n \in Nat,
           n <= Len(f), n <= Len(g), \A k \in 1..n : f[k] = g[k]
    PROVE  PartialSums(f)[n] = PartialSums(g)[n]
<1>0. Len(f) \in Nat /\ Len(g) \in Nat
  OBVIOUS
<1> DEFINE T == {k \in 0..n : PartialSums(f)[k] = PartialSums(g)[k]}
<1>1. 0 \in T
  BY <1>0, PartialSumsAre
<1>2. ASSUME NEW k \in 0..n - 1, k \in T PROVE k + 1 \in T
  <2>1. k + 1 \in 1..n /\ k + 1 \in 1..Len(f) /\ k + 1 \in 1..Len(g) /\ (k + 1) - 1 = k
    BY <1>0, <1>2
  <2>2. /\ PartialSums(f)[k + 1] = PartialSums(f)[k] + f[k + 1]
        /\ PartialSums(g)[k + 1] = PartialSums(g)[k] + g[k + 1]
    BY <2>1, PartialSumsAre
  <2> QED
    BY <1>2, <2>1, <2>2
<1>3. T \in SUBSET (0..n)
  OBVIOUS
<1> HIDE DEF T
<1>4. T = 0..n
  BY <1>1, <1>2, <1>3, UpTo
<1>5. n \in T
  BY <1>4
<1> QED
  BY <1>5 DEF T

(* An element at the end.                                                  *)
LEMMA SumOfAppend ==
    ASSUME NEW f \in Seq(Int), NEW d \in Int
    PROVE  SumOf(Append(f, d)) = SumOf(f) + d
<1>0. Append(f, d) \in Seq(Int) /\ Len(f) \in Nat
  OBVIOUS
<1>1. PICK g \in Seq(Int), n \in Nat : g = Append(f, d) /\ n = Len(f)
  BY <1>0
<1>2. /\ Len(g) = n + 1 /\ g[n + 1] = d
      /\ \A k \in 1..n : f[k] = g[k]
  BY <1>1
<1>3. n + 1 \in 1..Len(g) /\ (n + 1) - 1 = n /\ n <= Len(g) /\ n <= Len(f)
  BY <1>1, <1>2
<1>4. PartialSums(g)[n + 1] = PartialSums(g)[n] + d
  BY <1>2, <1>3, PartialSumsAre
<1>5. PartialSums(f)[n] = PartialSums(g)[n]
  BY <1>2, <1>3, SameSums
<1> QED
  BY <1>1, <1>2, <1>4, <1>5 DEF SumOf

(* An element in front.                                                    *)
LEMMA SumOfPrepend ==
    ASSUME NEW f \in Seq(Int), NEW d \in Int
    PROVE  SumOf(<<d>> \o f) = d + SumOf(f)
<1>0. <<d>> \in Seq(Int) /\ Len(<<d>>) = 1 /\ <<d>>[1] = d /\ Len(f) \in Nat
  OBVIOUS
<1>1. PICK g \in Seq(Int), n \in Nat : g = <<d>> \o f /\ n = Len(f)
  <2>1. <<d>> \o f \in Seq(Int)
    BY <1>0, ConcatProperties
  <2> QED
    BY <1>0, <2>1
<1>2. Len(g) = n + 1 /\ g[1] = d /\ \A k \in 1..n : g[k + 1] = f[k]
  <2>2. Len(g) = 1 + n /\ \A k \in 1..1 + n : g[k] = IF k <= 1 THEN <<d>>[k] ELSE f[k - 1]
    BY <1>0, <1>1, ConcatProperties
  <2>3. \A k \in 1..n : k + 1 \in 1..1 + n /\ ~(k + 1 <= 1) /\ (k + 1) - 1 = k
    OBVIOUS
  <2>4. 1 \in 1..1 + n
    OBVIOUS
  <2>5. g[1] = d
    BY <1>0, <2>2, <2>4
  <2>6. ASSUME NEW k \in 1..n PROVE g[k + 1] = f[k]
    <3>1. g[k + 1] = f[(k + 1) - 1] /\ (k + 1) - 1 = k
      BY <2>2, <2>3
    <3> QED
      BY <3>1
  <2>7. Len(g) = n + 1
    BY <2>2
  <2> QED
    BY <2>5, <2>6, <2>7
<1> DEFINE T == {k \in 0..n : PartialSums(g)[k + 1] = d + PartialSums(f)[k]}
<1>3. 0 \in T
  <2>1. 1 \in 1..Len(g) /\ 1 - 1 = 0
    BY <1>2
  <2>2. PartialSums(g)[1] = 0 + d
    BY <1>2, <2>1, PartialSumsAre, SMTT(30)
  <2>3. PartialSums(f)[0] = 0
    BY PartialSumsAre
  <2> QED
    BY <2>2, <2>3
<1>4. ASSUME NEW k \in 0..n - 1, k \in T PROVE k + 1 \in T
  <2>1. k + 1 \in 1..n /\ (k + 1) + 1 \in 1..Len(g) /\ ((k + 1) + 1) - 1 = k + 1 /\ (k + 1) - 1 = k
    BY <1>2, <1>4
  <2>2. /\ PartialSums(g)[(k + 1) + 1] = PartialSums(g)[k + 1] + f[k + 1]
        /\ PartialSums(f)[k + 1] = PartialSums(f)[k] + f[k + 1]
    BY <1>1, <1>2, <2>1, PartialSumsAre
  <2>3. PartialSums(f)[k] \in Int /\ f[k + 1] \in Int
    BY <1>1, <1>4, <2>1, SumStep
  <2> QED
    BY <1>4, <2>1, <2>2, <2>3
<1>5. T \in SUBSET (0..n)
  OBVIOUS
<1> HIDE DEF T
<1>6. T = 0..n
  BY <1>3, <1>4, <1>5, UpTo
<1>7. n \in T
  BY <1>6
<1> QED
  BY <1>1, <1>2, <1>7 DEF T, SumOf

(* Replacing one element changes the sum by the difference.                *)
LEMMA SumOfReplaced ==
    ASSUME NEW f \in Seq(Int), NEW g \in Seq(Int), Len(g) = Len(f),
           NEW i \in 1..Len(f), NEW d \in Int, g[i] = f[i] + d,
           \A k \in 1..Len(f) : k # i => g[k] = f[k]
    PROVE  SumOf(g) = SumOf(f) + d
<1>1. PICK n \in Nat : n = Len(f)
  OBVIOUS
<1> DEFINE T == {k \in 0..n : PartialSums(g)[k] = PartialSums(f)[k] + (IF i <= k THEN d ELSE 0)}
<1>2. 0 \in T
  BY <1>1, PartialSumsAre
<1>3. ASSUME NEW k \in 0..n - 1, k \in T PROVE k + 1 \in T
  <2>1. k + 1 \in 1..n /\ (k + 1) - 1 = k /\ k + 1 \in 0..n
    BY <1>3
  <2>2. /\ PartialSums(g)[k + 1] = PartialSums(g)[k] + g[k + 1]
        /\ PartialSums(f)[k + 1] = PartialSums(f)[k] + f[k + 1]
        /\ PartialSums(f)[k] \in Int /\ f[k + 1] \in Int
    <3>1. k \in 0..Len(f) - 1 /\ k \in 0..Len(g) - 1
      BY <1>1, <1>3
    <3>2. PartialSums(g)[k + 1] = PartialSums(g)[k] + g[k + 1]
      BY <3>1, SumStep
    <3>3. /\ PartialSums(f)[k + 1] = PartialSums(f)[k] + f[k + 1]
          /\ PartialSums(f)[k] \in Int /\ f[k + 1] \in Int
      BY <3>1, SumStep
    <3> QED
      BY <3>2, <3>3
  <2>4. CASE k + 1 = i
    <3>1. ~(i <= k) /\ i <= k + 1
      BY <1>1, <1>3, <2>4
    <3>2. PartialSums(g)[k] = PartialSums(f)[k]
      BY <1>3, <2>2, <3>1
    <3>3. g[k + 1] = f[k + 1] + d
      BY <2>4
    <3>4. PartialSums(g)[k + 1] = PartialSums(f)[k + 1] + d
      BY <2>2, <3>2, <3>3
    <3> QED
      BY <2>1, <3>1, <3>4
  <2>5. CASE k + 1 # i
    <3>1. g[k + 1] = f[k + 1]
      BY <1>1, <2>1, <2>5
    <3>2. (i <= k) <=> (i <= k + 1)
      BY <1>1, <1>3, <2>5
    <3> QED
      BY <1>3, <2>1, <2>2, <3>1, <3>2
  <2> QED
    BY <2>4, <2>5
<1>4. T \in SUBSET (0..n)
  OBVIOUS
<1> HIDE DEF T
<1>5. T = 0..n
  BY <1>2, <1>3, <1>4, UpTo
<1>6. n \in T /\ i <= n
  BY <1>1, <1>5
<1> QED
  BY <1>1, <1>6 DEF T, SumOf

(* A sum of zeros.                                                         *)
LEMMA SumOfZeros ==
    ASSUME NEW f \in Seq(Int), \A k \in 1..Len(f) : f[k] = 0
    PROVE  SumOf(f) = 0
<1>1. PICK n \in Nat : n = Len(f)
  OBVIOUS
<1> DEFINE T == {k \in 0..n : PartialSums(f)[k] = 0}
<1>2. 0 \in T
  BY <1>1, PartialSumsAre
<1>3. ASSUME NEW k \in 0..n - 1, k \in T PROVE k + 1 \in T
  <2>1. k + 1 \in 1..n /\ k + 1 \in 0..n /\ k \in 0..Len(f) - 1
    BY <1>1, <1>3
  <2>2. PartialSums(f)[k + 1] = PartialSums(f)[k] + f[k + 1]
    BY <2>1, SumStep
  <2>3. f[k + 1] = 0
    BY <1>1, <2>1
  <2> QED
    BY <1>3, <2>1, <2>2, <2>3
<1>4. T \in SUBSET (0..n)
  OBVIOUS
<1> HIDE DEF T
<1>5. T = 0..n
  BY <1>2, <1>3, <1>4, UpTo
<1>6. n \in T
  BY <1>5
<1> QED
  BY <1>1, <1>6 DEF T, SumOf

(* One element more.                                                       *)
LEMMA SumOfExtended ==
    ASSUME NEW f \in Seq(Int), NEW g \in Seq(Int), Len(g) = Len(f) + 1,
           \A k \in 1..Len(f) : g[k] = f[k]
    PROVE  SumOf(g) = SumOf(f) + g[Len(f) + 1] /\ g[Len(f) + 1] \in Int
<1>1. PICK n \in Nat : n = Len(f)
  OBVIOUS
<1>2. PICK d \in Int : d = g[n + 1]
  <2>1. n + 1 \in 1..Len(g)
    BY <1>1
  <2> QED
    BY <2>1
<1>3. g = Append(f, d)
  <2>1. Append(f, d) \in Seq(Int) /\ Len(Append(f, d)) = n + 1
    BY <1>1
  <2>2. ASSUME NEW k \in 1..n + 1 PROVE g[k] = Append(f, d)[k]
    <3>1. CASE k = n + 1
      BY <1>1, <1>2, <3>1
    <3>2. CASE k # n + 1
      <4>1. k \in 1..n
        BY <2>2, <3>2
      <4> QED
        BY <1>1, <4>1
    <3> QED
      BY <3>1, <3>2
  <2> QED
    BY <1>1, <2>1, <2>2
<1> QED
  BY <1>1, <1>2, <1>3, SumOfAppend

(* A sum of smaller numbers is smaller.                                    *)
LEMMA SumOfAtMost ==
    ASSUME NEW f \in Seq(Int), NEW g \in Seq(Int), Len(g) = Len(f),
           \A k \in 1..Len(f) : f[k] <= g[k]
    PROVE  SumOf(f) <= SumOf(g)
<1>1. PICK n \in Nat : n = Len(f)
  OBVIOUS
<1> DEFINE T == {k \in 0..n : PartialSums(f)[k] <= PartialSums(g)[k]}
<1>2. 0 \in T
  BY <1>1, PartialSumsAre
<1>3. ASSUME NEW k \in 0..n - 1, k \in T PROVE k + 1 \in T
  <2>1. /\ PartialSums(f)[k] \in Int /\ f[k + 1] \in Int
        /\ PartialSums(f)[k + 1] = PartialSums(f)[k] + f[k + 1]
        /\ PartialSums(g)[k] \in Int /\ g[k + 1] \in Int
        /\ PartialSums(g)[k + 1] = PartialSums(g)[k] + g[k + 1]
    BY <1>1, <1>3, SumStep, SMTT(30)
  <2>2. PICK a, b, c, d \in Int :
           a = PartialSums(f)[k] /\ b = f[k + 1] /\ c = PartialSums(g)[k] /\ d = g[k + 1]
    BY <2>1
  <2>3. a <= c /\ b <= d /\ k + 1 \in 0..n
    BY <1>1, <1>3, <2>2
  <2>4. a + b <= c + d
    BY <2>2, <2>3, SMTT(30)
  <2> QED
    BY <2>1, <2>2, <2>3, <2>4
<1> HIDE DEF T
<1>4. T = 0..n
  <2>1. T \in SUBSET (0..n)
    BY DEF T
  <2> QED
    BY <1>2, <1>3, <2>1, UpTo
<1>5. n \in T
  BY <1>4
<1> QED
  BY <1>1, <1>5 DEF T, SumOf

(* A square is not negative.                                               *)
LEMMA SquareType == ASSUME NEW x \in Int PROVE x * x \in Nat
<1>1. CASE x >= 0
  <2>1. PICK n \in Nat : n = x
    BY <1>1
  <2>2. n * n \in Nat
    OBVIOUS
  <2> QED
    BY <2>1, <2>2
<1>2. CASE ~(x >= 0)
  <2>1. PICK n \in Nat : x = -n
    <3>1. -x \in Nat /\ x = -(-x)
      BY <1>2
    <3> QED
      BY <3>1
  <2>2. n * n \in Nat /\ (-n) * (-n) = n * n
    OBVIOUS
  <2> QED
    BY <2>1, <2>2
<1> QED
  BY <1>1, <1>2

(* The squares of the distances from x sum up to the sum of the squares,   *)
(* less 2 x times the sum, and x squared for every element.                *)
LEMMA DistancesFrom ==
    ASSUME NEW f \in Seq(Int), NEW g \in Seq(Int), Len(g) = Len(f),
           \A k \in 1..Len(f) : g[k] = f[k] * f[k], NEW x \in Int
    PROVE  \A k \in 0..Len(f) :
              PartialSums(g)[k] - 2 * (x * PartialSums(f)[k]) + k * (x * x) >= 0
<1>1. PICK n \in Nat : n = Len(f)
  OBVIOUS
<1> DEFINE T == {k \in 0..n :
                    PartialSums(g)[k] - 2 * (x * PartialSums(f)[k]) + k * (x * x) >= 0}
<1>2. 0 \in T
  <2>1. PartialSums(f)[0] = 0 /\ PartialSums(g)[0] = 0
    BY PartialSumsAre
  <2>2. x * 0 = 0 /\ 0 * (x * x) = 0
    OBVIOUS
  <2> QED
    BY <2>1, <2>2
<1>3. ASSUME NEW k \in 0..n - 1, k \in T PROVE k + 1 \in T
  <2>0. k \in 0..Len(f) - 1 /\ k \in 0..Len(g) - 1 /\ k + 1 \in 0..n /\ k + 1 \in 1..Len(f)
    BY <1>1
  <2>1. /\ PartialSums(f)[k] \in Int /\ f[k + 1] \in Int
        /\ PartialSums(f)[k + 1] = PartialSums(f)[k] + f[k + 1]
    BY <2>0, SumStep
  <2>2. /\ PartialSums(g)[k] \in Int /\ g[k + 1] \in Int
        /\ PartialSums(g)[k + 1] = PartialSums(g)[k] + g[k + 1]
    BY <2>0, SumStep
  <2>3. g[k + 1] = f[k + 1] * f[k + 1]
    BY <2>0
  <2>4. PICK a \in Int, b \in Int, d \in Int :
           a = PartialSums(f)[k] /\ b = f[k + 1] /\ d = PartialSums(g)[k]
    BY <2>1, <2>2
  <2>5. PartialSums(f)[k + 1] = a + b /\ PartialSums(g)[k + 1] = d + b * b
    BY <2>1, <2>2, <2>3, <2>4
  <2>6. d - 2 * (x * a) + k * (x * x) >= 0
    BY <1>3, <2>4
  <2>7. (b - x) * (b - x) \in Nat
    BY SquareType
  <2>8. (d + b * b) - 2 * (x * (a + b)) + (k + 1) * (x * x)
          = (d - 2 * (x * a) + k * (x * x)) + (b - x) * (b - x)
    OBVIOUS
  <2>9. PICK u \in Int, v \in Nat :
           u = d - 2 * (x * a) + k * (x * x) /\ v = (b - x) * (b - x)
    BY <2>7
  <2>10. (d + b * b) - 2 * (x * (a + b)) + (k + 1) * (x * x) = u + v /\ u >= 0
    BY <2>6, <2>8, <2>9, Zenon
  <2>11. u + v >= 0
    BY <2>9, <2>10
  <2> QED
    BY <2>0, <2>5, <2>10, <2>11
<1> HIDE DEF T
<1>4. T = 0..n
  <2>1. T \in SUBSET (0..n)
    BY DEF T
  <2> QED
    BY <1>2, <1>3, <2>1, UpTo
<1> QED
  BY <1>1, <1>4 DEF T

(* The square of a sum is at most so many times the sum of the squares.    *)
LEMMA SquareOfSum ==
    ASSUME NEW f \in Seq(Int), NEW g \in Seq(Int), Len(g) = Len(f),
           \A k \in 1..Len(f) : g[k] = f[k] * f[k]
    PROVE  Len(f) * SumOf(g) - SumOf(f) * SumOf(f) >= 0
<1>1. PICK n \in Nat : n = Len(f)
  OBVIOUS
<1> DEFINE T == {k \in 0..n :
                    k * PartialSums(g)[k] - PartialSums(f)[k] * PartialSums(f)[k] >= 0}
<1>2. 0 \in T
  <2>1. PartialSums(f)[0] = 0 /\ PartialSums(g)[0] = 0
    BY PartialSumsAre
  <2> QED
    BY <2>1
<1>3. ASSUME NEW k \in 0..n - 1, k \in T PROVE k + 1 \in T
  <2>0. /\ k \in 0..Len(f) - 1 /\ k \in 0..Len(g) - 1 /\ k + 1 \in 0..n
        /\ k + 1 \in 1..Len(f) /\ k \in 0..Len(f)
    BY <1>1
  <2>1. /\ PartialSums(f)[k] \in Int /\ f[k + 1] \in Int
        /\ PartialSums(f)[k + 1] = PartialSums(f)[k] + f[k + 1]
    BY <2>0, SumStep
  <2>2. /\ PartialSums(g)[k] \in Int /\ g[k + 1] \in Int
        /\ PartialSums(g)[k + 1] = PartialSums(g)[k] + g[k + 1]
    BY <2>0, SumStep
  <2>3. g[k + 1] = f[k + 1] * f[k + 1]
    BY <2>0
  <2>4. PICK a \in Int, b \in Int, d \in Int :
           a = PartialSums(f)[k] /\ b = f[k + 1] /\ d = PartialSums(g)[k]
    BY <2>1, <2>2
  <2>5. PartialSums(f)[k + 1] = a + b /\ PartialSums(g)[k + 1] = d + b * b
    BY <2>1, <2>2, <2>3, <2>4
  <2>6. k * d - a * a >= 0
    BY <1>3, <2>4
  <2>7. d - 2 * (b * a) + k * (b * b) >= 0
    <3>1. \A i \in 0..Len(f) :
             PartialSums(g)[i] - 2 * (b * PartialSums(f)[i]) + i * (b * b) >= 0
      BY DistancesFrom
    <3> QED
      BY <2>0, <2>4, <3>1
  <2>8. (k + 1) * (d + b * b) - (a + b) * (a + b)
          = (k * d - a * a) + (d - 2 * (b * a) + k * (b * b))
    OBVIOUS
  <2>9. PICK u \in Int, v \in Int :
           u = k * d - a * a /\ v = d - 2 * (b * a) + k * (b * b)
    OBVIOUS
  <2>10. /\ (k + 1) * (d + b * b) - (a + b) * (a + b) = u + v
         /\ u >= 0 /\ v >= 0
    BY <2>6, <2>7, <2>8, <2>9, Zenon
  <2>11. u + v >= 0
    BY <2>10
  <2> QED
    BY <2>0, <2>5, <2>10, <2>11
<1> HIDE DEF T
<1>4. T = 0..n
  <2>1. T \in SUBSET (0..n)
    BY DEF T
  <2> QED
    BY <1>2, <1>3, <2>1, UpTo
<1>5. n \in T
  BY <1>4
<1> QED
  BY <1>1, <1>5 DEF T, SumOf

(* Every element multiplied by c.                                          *)
LEMMA SumOfScaled ==
    ASSUME NEW f \in Seq(Int), NEW g \in Seq(Int), Len(g) = Len(f), NEW c \in Int,
           \A k \in 1..Len(f) : g[k] = c * f[k]
    PROVE  SumOf(g) = c * SumOf(f)
<1>1. PICK n \in Nat : n = Len(f)
  OBVIOUS
<1> DEFINE T == {k \in 0..n : PartialSums(g)[k] = c * PartialSums(f)[k]}
<1>2. 0 \in T
  <2>1. PartialSums(f)[0] = 0 /\ PartialSums(g)[0] = 0
    BY PartialSumsAre
  <2> QED
    BY <2>1
<1>3. ASSUME NEW k \in 0..n - 1, k \in T PROVE k + 1 \in T
  <2>0. k \in 0..Len(f) - 1 /\ k \in 0..Len(g) - 1 /\ k + 1 \in 0..n /\ k + 1 \in 1..Len(f)
    BY <1>1
  <2>1. /\ PartialSums(f)[k] \in Int /\ f[k + 1] \in Int
        /\ PartialSums(f)[k + 1] = PartialSums(f)[k] + f[k + 1]
    BY <2>0, SumStep
  <2>2. PartialSums(g)[k + 1] = PartialSums(g)[k] + g[k + 1]
    BY <2>0, SumStep
  <2>3. g[k + 1] = c * f[k + 1]
    BY <2>0
  <2>4. PICK a \in Int, b \in Int : a = PartialSums(f)[k] /\ b = f[k + 1]
    BY <2>1
  <2>5. c * (a + b) = c * a + c * b
    OBVIOUS
  <2> QED
    BY <1>3, <2>0, <2>1, <2>2, <2>3, <2>4, <2>5
<1> HIDE DEF T
<1>4. T = 0..n
  <2>1. T \in SUBSET (0..n)
    BY DEF T
  <2> QED
    BY <1>2, <1>3, <2>1, UpTo
<1>5. n \in T
  BY <1>4
<1> QED
  BY <1>1, <1>5 DEF T, SumOf

(* The sequence g holds the squares of f.                                  *)
AreSquares(f, g) == Len(g) = Len(f) /\ \A k \in 1..Len(f) : g[k] = f[k] * f[k]

(* The i-th element of f raised by e gives y, and z are its squares.       *)
Raised(f, g, i, e, y, z) ==
    /\ y \in Seq(Int) /\ z \in Seq(Int) /\ AreSquares(y, z) /\ Len(y) = Len(f)
    /\ SumOf(y) = SumOf(f) + e
    /\ SumOf(z) = SumOf(g) + (2 * (e * f[i]) + e * e)
    /\ \A k \in 1..Len(f) : k # i => y[k] = f[k]

(* Raising one element of a sequence changes its sum and the sum of its squares so. *)
LEMMA OneRaised ==
    ASSUME NEW f \in Seq(Int), NEW g \in Seq(Int), AreSquares(f, g),
           NEW i \in 1..Len(f), NEW e \in Int
    PROVE  \E y, z : Raised(f, g, i, e, y, z)
<1>1. PICK n \in Nat : n = Len(f)
  OBVIOUS
<1>2. PICK y : y = [k \in 1..n |-> IF k = i THEN f[k] + e ELSE f[k]]
  OBVIOUS
<1>3. /\ y \in Seq(Int) /\ Len(y) = Len(f) /\ y[i] = f[i] + e
      /\ \A k \in 1..Len(f) : k # i => y[k] = f[k]
  BY <1>1, <1>2
<1>4. PICK z : z = [k \in 1..n |-> y[k] * y[k]]
  OBVIOUS
<1>5. z \in Seq(Int) /\ Len(z) = Len(g) /\ Len(z) = Len(y) /\ \A k \in 1..Len(y) : z[k] = y[k] * y[k]
  <2>1. \A k \in 1..n : y[k] \in Int
    BY <1>1, <1>3
  <2>2. \A k \in 1..n : y[k] * y[k] \in Int
    BY <2>1
  <2>3. z \in Seq(Int) /\ Len(z) = n /\ \A k \in 1..n : z[k] = y[k] * y[k]
    BY <1>4, <2>2
  <2>4. Len(g) = n /\ Len(y) = n
    BY <1>1, <1>3 DEF AreSquares
  <2> QED
    BY <2>3, <2>4
<1>6. SumOf(y) = SumOf(f) + e
  BY <1>3, SumOfReplaced
<1>7. PICK x \in Int : x = f[i]
  BY <1>1
<1>8. PICK d \in Int : d = 2 * (e * x) + e * e
  OBVIOUS
<1>9. z[i] = g[i] + d
  <2>1. z[i] = (x + e) * (x + e) /\ g[i] = x * x
    BY <1>3, <1>5, <1>7 DEF AreSquares
  <2>2. (x + e) * (x + e) = x * x + (2 * (e * x) + e * e)
    OBVIOUS
  <2> QED
    BY <1>8, <2>1, <2>2
<1>10. \A k \in 1..Len(g) : k # i => z[k] = g[k]
  BY <1>3, <1>5 DEF AreSquares
<1>11. SumOf(z) = SumOf(g) + d
  <2>1. i \in 1..Len(g)
    BY DEF AreSquares
  <2> QED
    BY <1>5, <1>9, <1>10, <2>1, SumOfReplaced
<1>12. Raised(f, g, i, e, y, z)
  BY <1>3, <1>5, <1>6, <1>7, <1>8, <1>11 DEF Raised, AreSquares
<1> QED
  BY <1>12

(* Three elements raised by e, and the square of the sum then.             *)
LEMMA ThreeRaised ==
    ASSUME NEW f \in Seq(Int), NEW g \in Seq(Int), AreSquares(f, g), NEW e \in Int,
           NEW i \in 1..Len(f), NEW j \in 1..Len(f), NEW k \in 1..Len(f),
           i # j, j # k, i # k
    PROVE  Len(f) * (SumOf(g) + (2 * (e * (f[i] + f[j] + f[k])) + 3 * (e * e)))
             - (SumOf(f) + 3 * e) * (SumOf(f) + 3 * e) >= 0
<1>1. PICK y1, z1 : Raised(f, g, i, e, y1, z1)
  BY OneRaised
<1>2. /\ y1 \in Seq(Int) /\ z1 \in Seq(Int) /\ AreSquares(y1, z1)
      /\ Len(y1) = Len(f) /\ y1[j] = f[j] /\ y1[k] = f[k]
  BY <1>1 DEF Raised
<1>3. j \in 1..Len(y1) /\ k \in 1..Len(y1)
  BY <1>2
<1>4. PICK y2, z2 : Raised(y1, z1, j, e, y2, z2)
  BY <1>2, <1>3, OneRaised
<1>5. /\ y2 \in Seq(Int) /\ z2 \in Seq(Int) /\ AreSquares(y2, z2)
      /\ Len(y2) = Len(f) /\ y2[k] = f[k]
  BY <1>2, <1>3, <1>4 DEF Raised
<1>6. k \in 1..Len(y2)
  BY <1>5
<1>7. PICK y, z : Raised(y2, z2, k, e, y, z)
  BY <1>5, <1>6, OneRaised
<1>8. y \in Seq(Int) /\ z \in Seq(Int) /\ AreSquares(y, z) /\ Len(y) = Len(f)
  BY <1>5, <1>7 DEF Raised
<1>9. Len(y) * SumOf(z) - SumOf(y) * SumOf(y) >= 0
  BY <1>8, SquareOfSum DEF AreSquares
<1>10. PICK a \in Int, b \in Int, c \in Int, s \in Int, q \in Int, n \in Nat :
          /\ a = f[i] /\ b = f[j] /\ c = f[k] /\ s = SumOf(f) /\ q = SumOf(g) /\ n = Len(f)
  <2>1. SumOf(f) \in Int /\ SumOf(g) \in Int
    BY SumType
  <2>2. f[i] \in Int /\ f[j] \in Int /\ f[k] \in Int /\ Len(f) \in Nat
    OBVIOUS
  <2> QED
    BY <2>1, <2>2
<1>11. SumOf(y) = s + e + e + e
  BY <1>1, <1>4, <1>7, <1>10 DEF Raised
<1>12. SumOf(z) = ((q + (2 * (e * a) + e * e)) + (2 * (e * b) + e * e)) + (2 * (e * c) + e * e)
  BY <1>1, <1>2, <1>4, <1>5, <1>7, <1>10 DEF Raised
<1>13. /\ s + e + e + e = s + 3 * e
       /\ ((q + (2 * (e * a) + e * e)) + (2 * (e * b) + e * e)) + (2 * (e * c) + e * e)
            = q + (2 * (e * (a + b + c)) + 3 * (e * e))
  OBVIOUS
<1> QED
  BY <1>8, <1>9, <1>10, <1>11, <1>12, <1>13

(* A number of a product is not larger for a smaller factor.               *)
LEMMA TimesMore ==
    ASSUME NEW a \in Int, NEW b \in Int, NEW c \in Nat, a <= b
    PROVE  a * c <= b * c
<1>1. PICK d \in Nat : b = a + d
  <2>1. b - a \in Nat /\ b = a + (b - a)
    OBVIOUS
  <2> QED
    BY <2>1
<1>2. d * c \in Nat /\ b * c = a * c + d * c
  BY <1>1
<1>3. PICK x \in Int, y \in Nat : x = a * c /\ y = d * c
  BY <1>2
<1> QED
  BY <1>2, <1>3

(* Three of n numbers are at most so far from their mean: nine times the   *)
(* square of that distance is at most 3 (n - 3) times n times the variance.*)
LEMMA ThreeFromMean ==
    ASSUME NEW f \in Seq(Int), NEW g \in Seq(Int), AreSquares(f, g),
           NEW i \in 1..Len(f), NEW j \in 1..Len(f), NEW k \in 1..Len(f),
           i # j, j # k, i # k, Len(f) # 3
    PROVE  LET d == Len(f) * (f[i] + f[j] + f[k]) - 3 * SumOf(f)
               v == Len(f) * SumOf(g) - SumOf(f) * SumOf(f)
           IN  d * d <= (3 * (Len(f) - 3)) * v
<1>1. PICK a \in Int, s \in Int, q \in Int, n \in Nat :
         /\ a = f[i] + f[j] + f[k] /\ s = SumOf(f) /\ q = SumOf(g) /\ n = Len(f)
  <2>1. SumOf(f) \in Int /\ SumOf(g) \in Int
    BY SumType
  <2>2. f[i] + f[j] + f[k] \in Int /\ Len(f) \in Nat
    OBVIOUS
  <2> QED
    BY <2>1, <2>2
<1>2. PICK d \in Int, v \in Int : d = n * a - 3 * s /\ v = n * q - s * s
  <2>1. n * a - 3 * s \in Int /\ n * q - s * s \in Int
    OBVIOUS
  <2> QED
    BY <2>1
<1>3. PICK c \in Nat \ {0} : c = 3 * (n - 3)
  <2>1. n >= 3 /\ n # 3
    BY <1>1, SMTT(30)
  <2>2. 3 * (n - 3) \in Nat \ {0}
    BY <2>1
  <2> QED
    BY <2>2
<1>4. PICK y, z : /\ y = [m \in 1..n |-> c * f[m]]
                  /\ z = [m \in 1..n |-> (c * c) * g[m]]
  OBVIOUS
<1>5. /\ y \in Seq(Int) /\ Len(y) = Len(f) /\ \A m \in 1..Len(f) : y[m] = c * f[m]
  BY <1>1, <1>4
<1>6. /\ z \in Seq(Int) /\ Len(z) = Len(g) /\ \A m \in 1..Len(g) : z[m] = (c * c) * g[m]
  <2>1. PICK t \in Int : t = c * c
    OBVIOUS
  <2>2. Len(g) = n /\ \A m \in 1..n : g[m] \in Int
    BY <1>1 DEF AreSquares
  <2>3. \A m \in 1..n : t * g[m] \in Int
    BY <2>1, <2>2
  <2>4. z = [m \in 1..n |-> t * g[m]]
    BY <1>4, <2>1
  <2> QED
    BY <2>1, <2>2, <2>3, <2>4
<1>7. SumOf(y) = c * s
  <2>1. SumOf(y) = c * SumOf(f)
    BY <1>5, SumOfScaled, SMTT(30)
  <2> QED
    BY <1>1, <2>1
<1>8. SumOf(z) = (c * c) * q
  <2>1. PICK t \in Int : t = c * c
    OBVIOUS
  <2>2. Len(z) = Len(g) /\ z \in Seq(Int) /\ \A m \in 1..Len(g) : z[m] = t * g[m]
    BY <1>6, <2>1
  <2>3. SumOf(z) = t * SumOf(g)
    BY <2>2, SumOfScaled
  <2> QED
    BY <1>1, <2>1, <2>3
<1>9. AreSquares(y, z)
  <2>1. ASSUME NEW m \in 1..Len(f) PROVE z[m] = y[m] * y[m]
    <3>1. PICK x \in Int : x = f[m]
      OBVIOUS
    <3>2. g[m] = x * x /\ y[m] = c * x /\ z[m] = (c * c) * (x * x)
      BY <1>5, <1>6, <3>1 DEF AreSquares
    <3>3. (c * c) * (x * x) = (c * x) * (c * x)
      OBVIOUS
    <3> QED
      BY <3>2, <3>3
  <2> QED
    BY <1>5, <1>6, <2>1 DEF AreSquares
<1>10. y[i] + y[j] + y[k] = c * a
  <2>1. PICK x1 \in Int, x2 \in Int, x3 \in Int : x1 = f[i] /\ x2 = f[j] /\ x3 = f[k]
    OBVIOUS
  <2>2. c * x1 + c * x2 + c * x3 = c * (x1 + x2 + x3)
    OBVIOUS
  <2> QED
    BY <1>1, <1>5, <2>1, <2>2
<1>11. PICK e \in Int : e = -d
  OBVIOUS
<1>12. n * ((c * c) * q + (2 * (e * (c * a)) + 3 * (e * e)))
         - (c * s + 3 * e) * (c * s + 3 * e) >= 0
  <2>1. i \in 1..Len(y) /\ j \in 1..Len(y) /\ k \in 1..Len(y) /\ Len(y) = n
    BY <1>1, <1>5
  <2>2. Len(y) * (SumOf(z) + (2 * (e * (y[i] + y[j] + y[k])) + 3 * (e * e)))
          - (SumOf(y) + 3 * e) * (SumOf(y) + 3 * e) >= 0
    BY <1>5, <1>6, <1>9, <2>1, ThreeRaised
  <2> QED
    BY <1>7, <1>8, <1>10, <2>1, <2>2
<1>13. n * ((c * c) * q + (2 * (e * (c * a)) + 3 * (e * e)))
         - (c * s + 3 * e) * (c * s + 3 * e)
         = (c * c) * (n * q - s * s) + (2 * (c * (e * (n * a - 3 * s)))
             + (3 * (n - 3)) * (e * e))
  OBVIOUS
<1>14. (c * c) * v + (2 * (c * (e * d)) + c * (e * e)) >= 0
  BY <1>2, <1>3, <1>12, <1>13
<1>15. (c * c) * v + (2 * (c * (e * d)) + c * (e * e)) = c * (c * v - d * d)
  <2>1. (c * c) * v + (2 * (c * ((-d) * d)) + c * ((-d) * (-d))) = c * (c * v - d * d)
    OBVIOUS
  <2> QED
    BY <1>11, <2>1
<1>16. PICK x \in Int : x = c * v - d * d
  OBVIOUS
<1>17. c * x >= 0
  BY <1>14, <1>15, <1>16
<1>18. x >= 0
  <2> SUFFICES ASSUME ~(x >= 0) PROVE FALSE
    OBVIOUS
  <2>1. x + 1 <= 0
    OBVIOUS
  <2>2. (x + 1) * c <= 0 * c
    BY <2>1, TimesMore
  <2>3. (x + 1) * c = c * x + c /\ 0 * c = 0
    OBVIOUS
  <2>4. PICK u \in Int : u = c * x
    OBVIOUS
  <2> QED
    BY <1>17, <2>2, <2>3, <2>4
<1>19. d * d <= c * v
  <2>1. PICK u \in Int, w \in Int : u = c * v /\ w = d * d
    OBVIOUS
  <2> QED
    BY <1>16, <1>18, <2>1
<1> QED
  BY <1>1, <1>2, <1>3, <1>19
=============================================================================
