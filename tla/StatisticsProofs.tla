-------------------------- MODULE StatisticsProofs --------------------------
(***************************************************************************)
(* Theorems of Statistics, for any queries, zenons, kernels, timestamps    *)
(* and widths of the integers: what a printed average lies between, what   *)
(* the span covers, and how the totals add up.                             *)
(***************************************************************************)
EXTENDS Statistics, WellFoundedInduction, TLAPS
-----------------------------------------------------------------------------
(* Numbers.                                                                *)

\* A set of natural numbers that is not empty has a smallest one.
LEMMA LeastExists ==
  ASSUME NEW S \in SUBSET Nat, S # {}
  PROVE  \E x \in S : \A y \in S : x <= y
<1>1. PICK x \in S : \A y \in S : ~ (<<y, x>> \in OpToRel(<, Nat))
  BY NatLessThanWellFounded, WFMin, S \subseteq Nat
<1>2. \A y \in S : ~ (y < x)
  BY <1>1 DEF OpToRel
<1> QED BY <1>2

\* Induction up to n, on the set of the numbers it has been shown for.
LEMMA UpTo ==
  ASSUME NEW n \in Nat, NEW S, 0 \in S,
         \A k \in 0 .. n - 1 : k \in S => k + 1 \in S
  PROVE  \A k \in 0 .. n : k \in S
<1> SUFFICES ASSUME (0 .. n) \ S # {} PROVE FALSE
  OBVIOUS
<1> DEFINE T == (0 .. n) \ S
<1>1. T \in SUBSET Nat /\ T # {}
  OBVIOUS
<1>2. PICK x \in T : \A y \in T : x <= y
  <2> HIDE DEF T
  <2> QED BY <1>1, LeastExists
<1>3. x # 0 /\ x - 1 \in 0 .. n - 1 /\ x - 1 \in 0 .. n
  BY <1>2
<1>4. x - 1 \notin T
  BY <1>1, <1>2
<1>5. x - 1 + 1 = x
  BY <1>1, <1>2
<1> QED BY <1>2, <1>3, <1>4, <1>5

LEMMA MinOf ==
  ASSUME NEW S \in SUBSET Nat, S # {}
  PROVE  Min(S) \in S /\ \A y \in S : Min(S) <= y
  BY LeastExists DEF Min

LEMMA MaxOf ==
  ASSUME NEW b \in Nat, NEW S \in SUBSET (0 .. b), S # {}
  PROVE  Max(S) \in S /\ \A y \in S : y <= Max(S)
<1> DEFINE T == {n \in 0 .. b : \A y \in S : y <= n}
<1>1. T \in SUBSET Nat /\ b \in T
  OBVIOUS
<1>2. PICK x \in T : \A n \in T : x <= n
  <2> HIDE DEF T
  <2> QED BY <1>1, LeastExists
<1>3. x \in S
  <2> SUFFICES ASSUME x \notin S PROVE FALSE
    OBVIOUS
  <2>1. x \in 0 .. b /\ \A y \in S : y <= x
    BY <1>2
  <2>2. \A y \in S : y \in 0 .. b /\ y <= x - 1
    <3> SUFFICES ASSUME NEW y \in S PROVE y \in 0 .. b /\ y <= x - 1
      OBVIOUS
    <3>1. y \in 0 .. b /\ y # x /\ y <= x
      BY <2>1
    <3> QED BY <2>1, <3>1
  <2>3. x - 1 \in 0 .. b
    <3>1. PICK y \in S : TRUE
      OBVIOUS
    <3> QED BY <2>1, <2>2, <3>1
  <2>4. x - 1 \in T
    BY <2>2, <2>3
  <2> QED BY <1>2, <2>1, <2>4
<1>4. \A y \in S : y <= x
  BY <1>2
<1> QED BY <1>3, <1>4 DEF Max

\* The sum of the first n elements of f, as Total sums.
Sum(f, n) ==
  LET sum[k \in 0 .. n] == IF k = 0 THEN 0 ELSE sum[k - 1] + f[k] IN sum[n]

\* Partial sums exist, and Sum is theirs.
LEMMA Sums ==
  ASSUME NEW n \in Nat, NEW f, \A k \in 1 .. n : f[k] \in Int
  PROVE  \E s \in [0 .. n -> Int] :
           /\ s[0] = 0
           /\ \A k \in 1 .. n : s[k] = s[k - 1] + f[k]
           /\ Sum(f, n) = s[n]
<1> DEFINE step(s, k) == IF k = 0 THEN 0 ELSE s[k - 1] + f[k]
           S == {m \in 0 .. n : \E s \in [0 .. m -> Int] : \A k \in 0 .. m : s[k] = step(s, k)}
           sum == CHOOSE s : s = [k \in 0 .. n |-> step(s, k)]
<1>1. 0 \in S
  <2> DEFINE z == [k \in 0 .. 0 |-> 0]
  <2>1. z \in [0 .. 0 -> Int] /\ \A k \in 0 .. 0 : z[k] = step(z, k)
    OBVIOUS
  <2>2. 0 \in 0 .. n
    OBVIOUS
  <2> HIDE DEF z, step
  <2> QED BY <2>1, <2>2
<1>2. ASSUME NEW m \in 0 .. n - 1, m \in S PROVE m + 1 \in S
  <2>1. PICK s \in [0 .. m -> Int] : \A k \in 0 .. m : s[k] = step(s, k)
    BY <1>2
  <2> DEFINE t == [k \in 0 .. m + 1 |-> IF k = m + 1 THEN s[m] + f[m + 1] ELSE s[k]]
  <2>2. m + 1 \in 1 .. n /\ m + 1 \in 0 .. n /\ m \in 0 .. m
    OBVIOUS
  <2>3. t \in [0 .. m + 1 -> Int]
    BY <2>2
  <2>4. ASSUME NEW k \in 0 .. m + 1 PROVE t[k] = step(t, k)
    <3>1. CASE k = m + 1
      BY <2>2, <3>1
    <3>2. CASE k \in 0 .. m
      <4>1. k # m + 1 /\ (k # 0 => k - 1 \in 0 .. m /\ k - 1 # m + 1 /\ k - 1 \in 0 .. m + 1)
        BY <3>2
      <4> QED BY <2>1, <3>2, <4>1
    <3> QED BY <3>1, <3>2
  <2> HIDE DEF t
  <2> QED BY <2>2, <2>3, <2>4
<1>3. n \in S
  <2> HIDE DEF S
  <2>1. \A k \in 0 .. n : k \in S
    BY <1>1, <1>2, UpTo
  <2> QED BY <2>1
<1>4. PICK s \in [0 .. n -> Int] : \A k \in 0 .. n : s[k] = step(s, k)
  BY <1>3
<1>5. s = [k \in 0 .. n |-> step(s, k)]
  BY <1>4
<1>6. sum = [k \in 0 .. n |-> step(sum, k)]
  <2> HIDE DEF step
  <2> QED BY <1>5
<1>7. Sum(f, n) = sum[n]
  BY DEF Sum
<1> HIDE DEF sum
<1> DEFINE U == {k \in 0 .. n : sum[k] = s[k]}
<1>8. 0 \in U
  BY <1>4, <1>6
<1>9. ASSUME NEW k \in 0 .. n - 1, k \in U PROVE k + 1 \in U
  <2>1. k + 1 \in 0 .. n /\ k + 1 # 0 /\ k + 1 - 1 = k
    OBVIOUS
  <2>2. s[k + 1] = s[k] + f[k + 1]
    BY <1>4, <2>1
  <2>3. sum[k + 1] = step(sum, k + 1)
    <3> HIDE DEF step
    <3> QED BY <1>6, <2>1
  <2>4. sum[k + 1] = sum[k] + f[k + 1]
    BY <2>1, <2>3
  <2> QED BY <1>9, <2>1, <2>2, <2>4
<1>10. n \in U
  <2>1. n \in 0 .. n
    OBVIOUS
  <2> HIDE DEF U
  <2>2. \A k \in 0 .. n : k \in U
    BY <1>8, <1>9, UpTo
  <2> QED BY <2>1, <2>2
<1>11. Sum(f, n) = s[n]
  BY <1>7, <1>10
<1>12. s[0] = 0 /\ \A k \in 1 .. n : s[k] = s[k - 1] + f[k]
  BY <1>4
<1> QED BY <1>11, <1>12

\* What the proofs below use of Sum.
LEMMA SumStep ==
  ASSUME NEW m \in Nat, NEW f, \A k \in 1 .. m : f[k] \in Int
  PROVE  /\ Sum(f, 0) = 0
         /\ \A n \in 0 .. m : Sum(f, n) \in Int
         /\ \A n \in 0 .. m - 1 : Sum(f, n + 1) = Sum(f, n) + f[n + 1]
<1>1. PICK t \in [0 .. m -> Int] :
        /\ t[0] = 0
        /\ \A k \in 1 .. m : t[k] = t[k - 1] + f[k]
        /\ Sum(f, m) = t[m]
  BY Sums
<1>2. ASSUME NEW n \in 0 .. m PROVE Sum(f, n) = t[n]
  <2>1. n \in Nat /\ m >= n /\ \A k \in 1 .. n : f[k] \in Int
    OBVIOUS
  <2>2. PICK s \in [0 .. n -> Int] :
          /\ s[0] = 0
          /\ \A k \in 1 .. n : s[k] = s[k - 1] + f[k]
          /\ Sum(f, n) = s[n]
    BY <2>1, Sums
  <2> DEFINE U == {k \in 0 .. n : s[k] = t[k]}
  <2>3. 0 \in U
    BY <1>1, <2>2
  <2>4. ASSUME NEW k \in 0 .. n - 1, k \in U PROVE k + 1 \in U
    <3>1. k + 1 \in 1 .. n /\ k + 1 \in 1 .. m /\ k + 1 - 1 = k /\ k + 1 \in 0 .. n
      OBVIOUS
    <3>2. s[k + 1] = s[k] + f[k + 1] /\ t[k + 1] = t[k] + f[k + 1]
      BY <1>1, <2>2, <3>1
    <3> QED BY <2>4, <3>1, <3>2
  <2>5. n \in 0 .. n
    OBVIOUS
  <2>6. n \in U
    <3> HIDE DEF U
    <3>1. \A k \in 0 .. n : k \in U
      BY <2>1, <2>3, <2>4, UpTo
    <3> QED BY <2>5, <3>1
  <2> QED BY <2>2, <2>6
<1>3. ASSUME NEW n \in 0 .. m - 1 PROVE Sum(f, n + 1) = Sum(f, n) + f[n + 1]
  <2>1. n + 1 \in 0 .. m /\ n \in 0 .. m /\ n + 1 \in 1 .. m /\ n + 1 - 1 = n
    OBVIOUS
  <2>2. t[n + 1] = t[n] + f[n + 1]
    BY <1>1, <2>1
  <2> QED BY <1>2, <2>1, <2>2
<1>4. 0 \in 0 .. m
  OBVIOUS
<1> QED BY <1>1, <1>2, <1>3, <1>4

LEMMA TotalIsSum == \A f : Total(f) = Sum(f, Timed)
  BY DEF Total, Sum

\* Sums of smaller numbers are smaller.
LEMMA SumMonotone ==
  ASSUME NEW m \in Nat, NEW f, NEW g, \A k \in 1 .. m : f[k] \in Int /\ g[k] \in Int /\ f[k] <= g[k]
  PROVE  Sum(f, m) <= Sum(g, m)
<1> DEFINE U == {n \in 0 .. m : Sum(f, n) <= Sum(g, n)}
<1>1. 0 \in U
  BY SumStep
<1>2. ASSUME NEW n \in 0 .. m - 1, n \in U PROVE n + 1 \in U
  <2>1. n \in 0 .. m /\ n + 1 \in 0 .. m /\ n + 1 \in 1 .. m
    OBVIOUS
  <2>2. /\ Sum(f, n) \in Int /\ Sum(f, n + 1) = Sum(f, n) + f[n + 1]
        /\ Sum(g, n) \in Int /\ Sum(g, n + 1) = Sum(g, n) + g[n + 1]
    BY <2>1, SumStep
  <2>3. f[n + 1] \in Int /\ g[n + 1] \in Int /\ f[n + 1] <= g[n + 1]
    BY <2>1
  <2>4. Sum(f, n) <= Sum(g, n)
    BY <1>2
  <2>5. Sum(f, n + 1) <= Sum(g, n + 1)
    BY <2>2, <2>3, <2>4
  <2> QED BY <2>1, <2>5
<1>3. m \in 0 .. m
  OBVIOUS
<1> HIDE DEF U
<1>4. m \in U
  <2>1. \A k \in 0 .. m : k \in U
    BY <1>1, <1>2, UpTo
  <2> QED BY <1>3, <2>1
<1> QED BY <1>4 DEF U

\* Sums are additive.
LEMMA SumAdds ==
  ASSUME NEW m \in Nat, NEW f, NEW g, NEW h,
         \A k \in 1 .. m : f[k] \in Int /\ g[k] \in Int /\ h[k] = f[k] + g[k]
  PROVE  Sum(h, m) = Sum(f, m) + Sum(g, m)
<1>0. \A k \in 1 .. m : h[k] \in Int
  OBVIOUS
<1> DEFINE U == {n \in 0 .. m : Sum(h, n) = Sum(f, n) + Sum(g, n)}
<1>1. 0 \in U
  BY <1>0, SumStep
<1>2. ASSUME NEW n \in 0 .. m - 1, n \in U PROVE n + 1 \in U
  <2>1. n \in 0 .. m /\ n + 1 \in 0 .. m /\ n + 1 \in 1 .. m
    OBVIOUS
  <2>2. /\ Sum(f, n) \in Int /\ Sum(f, n + 1) = Sum(f, n) + f[n + 1]
        /\ Sum(g, n) \in Int /\ Sum(g, n + 1) = Sum(g, n) + g[n + 1]
        /\ Sum(h, n + 1) = Sum(h, n) + h[n + 1]
    BY <1>0, <2>1, SumStep
  <2>3. Sum(h, n + 1) = Sum(f, n + 1) + Sum(g, n + 1)
    BY <1>2, <2>1, <2>2
  <2> QED BY <2>1, <2>3
<1>3. m \in 0 .. m
  OBVIOUS
<1> HIDE DEF U
<1>4. m \in U
  <2>1. \A k \in 0 .. m : k \in U
    BY <1>1, <1>2, UpTo
  <2> QED BY <1>3, <2>1
<1> QED BY <1>4 DEF U

\* No element is larger than the sum.
LEMMA SumCovers ==
  ASSUME NEW m \in Nat, NEW f, \A k \in 1 .. m : f[k] \in Nat
  PROVE  Sum(f, m) \in Nat /\ \A k \in 1 .. m : f[k] <= Sum(f, m)
<1> DEFINE U == {n \in 0 .. m : Sum(f, n) \in Nat /\ \A k \in 1 .. n : f[k] <= Sum(f, n)}
<1>1. 0 \in U
  BY SumStep
<1>2. ASSUME NEW n \in 0 .. m - 1, n \in U PROVE n + 1 \in U
  <2>1. n \in 0 .. m /\ n + 1 \in 0 .. m /\ n + 1 \in 1 .. m
    OBVIOUS
  <2>2. Sum(f, n) \in Nat /\ Sum(f, n + 1) = Sum(f, n) + f[n + 1] /\ f[n + 1] \in Nat
    BY <1>2, <2>1, SumStep
  <2>3. ASSUME NEW k \in 1 .. n + 1 PROVE f[k] <= Sum(f, n + 1)
    <3>1. CASE k = n + 1
      BY <2>2, <3>1
    <3>2. CASE k \in 1 .. n
      <4>1. f[k] <= Sum(f, n) /\ f[k] \in Nat
        BY <1>2, <2>1, <3>2
      <4> QED BY <2>2, <4>1
    <3> QED BY <3>1, <3>2
  <2> QED BY <2>1, <2>2, <2>3
<1>3. m \in 0 .. m
  OBVIOUS
<1> HIDE DEF U
<1>4. m \in U
  <2>1. \A k \in 0 .. m : k \in U
    BY <1>1, <1>2, UpTo
  <2> QED BY <1>3, <2>1
<1> QED BY <1>4 DEF U

\* What rounding off every element changes of a sum.
LEMMA SumRounds ==
  ASSUME NEW m \in Nat, NEW x, NEW a, NEW c \in Nat \ {0},
         \A k \in 1 .. m : /\ a[k] \in Nat /\ x[k] \in Nat
                           /\ c * a[k] <= x[k] /\ x[k] <= c * a[k] + (c - 1)
  PROVE  /\ Sum(a, m) \in Nat
         /\ c * Sum(a, m) <= Sum(x, m)
         /\ Sum(x, m) <= c * Sum(a, m) + m * (c - 1)
<1> DEFINE U == {n \in 0 .. m : /\ Sum(a, n) \in Nat /\ c * Sum(a, n) <= Sum(x, n)
                           /\ Sum(x, n) <= c * Sum(a, n) + n * (c - 1)}
<1>1. 0 \in U
  <2>1. (\A k \in 1 .. m : a[k] \in Int) /\ (\A k \in 1 .. m : x[k] \in Int)
    OBVIOUS
  <2>2. Sum(a, 0) = 0 /\ Sum(x, 0) = 0
    BY <2>1, SumStep
  <2>3. c * 0 = 0 /\ 0 * (c - 1) = 0 /\ 0 \in 0 .. m
    OBVIOUS
  <2> QED BY <2>2, <2>3
<1>2. ASSUME NEW n \in 0 .. m - 1, n \in U PROVE n + 1 \in U
  <2>1. n \in 0 .. m /\ n + 1 \in 0 .. m /\ n + 1 \in 1 .. m
    OBVIOUS
  <2>2. /\ Sum(a, n) \in Nat /\ Sum(a, n + 1) = Sum(a, n) + a[n + 1]
        /\ Sum(x, n) \in Int /\ Sum(x, n + 1) = Sum(x, n) + x[n + 1]
    BY <1>2, <2>1, SumStep
  <2>3. a[n + 1] \in Nat /\ x[n + 1] \in Nat /\ c * a[n + 1] <= x[n + 1]
          /\ x[n + 1] <= c * a[n + 1] + (c - 1)
    BY <2>1
  <2>4. c * Sum(a, n) <= Sum(x, n) /\ Sum(x, n) <= c * Sum(a, n) + n * (c - 1)
    BY <1>2
  <2>5. /\ c * Sum(a, n + 1) = c * Sum(a, n) + c * a[n + 1]
        /\ (n + 1) * (c - 1) = n * (c - 1) + (c - 1)
        /\ c * Sum(a, n) \in Int /\ c * a[n + 1] \in Int /\ n * (c - 1) \in Int
    BY <2>2, <2>3
  <2>6. /\ Sum(a, n + 1) \in Nat /\ c * Sum(a, n + 1) <= Sum(x, n + 1)
        /\ Sum(x, n + 1) <= c * Sum(a, n + 1) + (n + 1) * (c - 1)
    BY <2>2, <2>3, <2>4, <2>5
  <2> QED BY <2>1, <2>6
<1>3. m \in 0 .. m
  OBVIOUS
<1> HIDE DEF U
<1>4. m \in U
  <2>1. \A k \in 0 .. m : k \in U
    BY <1>1, <1>2, UpTo
  <2> QED BY <1>3, <2>1
<1> QED BY <1>4 DEF U

\* An unsigned number that fits is itself, any other one is brought in range.
LEMMA Unsigned ==
  /\ \A n \in 0 .. LongMax : uint64(n) = n
  /\ \A n \in Int : uint64(n) \in 0 .. LongMax
<1>1. LongMax \in Nat
  BY StatisticsAssumption
<1>2. ASSUME NEW n \in 0 .. LongMax PROVE n % (LongMax + 1) = n
  BY <1>1
<1>3. ASSUME NEW n \in Int PROVE n % (LongMax + 1) \in 0 .. LongMax
  BY <1>1
<1> QED BY <1>2, <1>3 DEF uint64

\* An int keeps what it can hold.
LEMMA Signed ==
  /\ \A n \in 0 .. IntMax : int(n) = n
  /\ \A n \in Int : int(n) \in Int
<1>1. IntMax \in Nat
  BY StatisticsAssumption
<1> DEFINE w == 2 * (IntMax + 1)
<1>2. w \in Int /\ w > 0 /\ \A n \in 0 .. IntMax : n + IntMax + 1 < w
  BY <1>1
<1> HIDE DEF w
<1>3. \A x \in Int : x % w \in Int /\ (0 <= x /\ x < w => x % w = x)
  BY <1>2
<1>4. ASSUME NEW n \in Int
      PROVE  /\ ((n + IntMax + 1) % w) - (IntMax + 1) \in Int
             /\ n \in 0 .. IntMax => ((n + IntMax + 1) % w) - (IntMax + 1) = n
  <2>1. n + IntMax + 1 \in Int /\ (n \in 0 .. IntMax => 0 <= n + IntMax + 1)
    BY <1>1
  <2>2. (n + IntMax + 1) % w \in Int
    BY <1>3, <2>1
  <2>3. n \in 0 .. IntMax => (n + IntMax + 1) % w = n + IntMax + 1
    BY <1>2, <1>3, <2>1
  <2> QED BY <1>1, <2>2, <2>3
<1> QED BY <1>4 DEF int, w
-----------------------------------------------------------------------------
(* The inductive invariant.                                                *)

\* Every query that has run has what its own execution left.
TimesInv ==
  /\ gpu_result = [z \in Zenons |-> gpu_result[z]]
  /\ gpu_results_vec = [q \in Queries |-> gpu_results_vec[q]]
  /\ executed = [q \in Queries |-> executed[q]]
  /\ ran \subseteq Queries
  /\ \A q \in ran : /\ executed[q] \in Executions
                    /\ gpu_results_vec[q] = collected(nothing, executed[q])

\* The sum of a line's first n values.
Upto(r, n) == Sum([k \in 1 .. NumQueries |-> value(r, k - 1)], n)

\* Printing starts when all queries have run; the int of avg_u is exact as long
\* as the sum fits it.
SumInv ==
  /\ row \in Nat /\ 1 <= row /\ row <= GpuTimeRow + 1
  /\ i \in Nat /\ i <= NumQueries
  /\ acc \in Int
  /\ ran # Queries => row = 1 /\ i = 0
  /\ row \in Rows => exact = Upto(row, i) /\ (exact <= IntMax => acc = exact)

\* Each printed line has the extremes and the sum of its values.
PrintedInv ==
  /\ DOMAIN printed = 1 .. row - 1
  /\ printed = [r \in 1 .. row - 1 |-> printed[r]]
  /\ \A r \in 1 .. row - 1 :
       /\ printed[r].min = Min(values(r)) \div unit(r)
       /\ printed[r].max = Max(values(r)) \div unit(r)
       /\ printed[r].exact = Upto(r, NumQueries)
       /\ Fits(r) => printed[r].avg = printed[r].exact \div NumQueries

StatisticsInv == TimesInv /\ SumInv /\ PrintedInv

LEMMA Constants ==
  /\ NumQueries \in Nat /\ NumQueries >= 1 /\ Timed \in Nat /\ Timed >= 1
  /\ Resolution \in Nat /\ IntMax \in Nat /\ LongMax \in Nat /\ LongMax >= IntMax
  /\ Micro \in Nat \ {0} /\ \A r : unit(r) \in Nat \ {0}
  /\ 0 \in Queries
  BY StatisticsAssumption DEF Queries, unit

\* What an execution leaves are unsigned numbers.
LEMMA CollectedTyped ==
  ASSUME NEW e \in Executions, NEW g
  PROVE  LET c == collected(g, e)
         IN  /\ c.kernel_time \in [Kernels -> 0 .. LongMax]
             /\ c.kernel_time = [k \in Kernels |-> kernelDuration(e, k)]
             /\ c.execuction_time = uint64(Total(c.kernel_time))
             /\ c.execuction_time \in 0 .. LongMax
             /\ c.gpu_time \in 0 .. LongMax
             /\ c.kernels_start_time = uint64(e[1].start * Resolution)
             /\ c.kernels_end_time = uint64(e[Timed].start * Resolution)
<1> DEFINE time == [k \in Kernels |-> kernelDuration(e, k)]
<1>1. e \in [Kernels -> [start: Nat, end: Nat]]
  BY StatisticsAssumption
<1>2. ASSUME NEW k \in Kernels PROVE kernelDuration(e, k) \in 0 .. LongMax
  <2>1. e[k].end \in Nat /\ e[k].start \in Nat
    BY <1>1
  <2>2. (e[k].end - e[k].start) * Resolution \in Int
    BY <2>1, Constants
  <2> QED BY <2>2, Unsigned DEF kernelDuration
<1>3. Total(time) \in Int
  <2>1. \A k \in 1 .. Timed : time[k] \in Int
    BY <1>2 DEF Kernels
  <2>2. Timed \in 0 .. Timed
    BY Constants
  <2> HIDE DEF time
  <2> QED BY <2>1, <2>2, SumStep, TotalIsSum, Constants
<1>4. (e[Timed].end - e[1].start) * Resolution \in Int
  <2>1. Timed \in Kernels /\ 1 \in Kernels
    BY Constants DEF Kernels
  <2>2. e[Timed].end \in Nat /\ e[1].start \in Nat
    BY <1>1, <2>1
  <2> QED BY <2>2, Constants
<1>5. uint64(Total(time)) \in 0 .. LongMax /\ uint64((e[Timed].end - e[1].start) * Resolution) \in 0 .. LongMax
  BY <1>3, <1>4, Unsigned
<1>6. time \in [Kernels -> 0 .. LongMax]
  BY <1>2
<1> HIDE DEF time
<1>7. collected(g, e) =
        [kernel_time |-> time,
         execuction_time |-> uint64(Total(time)),
         gpu_time |-> uint64((e[Timed].end - e[1].start) * Resolution),
         kernels_start_time |-> uint64(e[1].start * Resolution),
         kernels_end_time |-> uint64(e[Timed].start * Resolution)]
  BY DEF collected, time
<1> QED BY <1>5, <1>6, <1>7 DEF time

\* So are the values of every line, once all queries have run.
LEMMA ValuesTyped ==
  ASSUME TimesInv, ran = Queries, NEW r \in Rows
  PROVE  /\ \A q \in Queries : value(r, q) \in 0 .. LongMax
         /\ values(r) \in SUBSET (0 .. LongMax) /\ values(r) # {}
         /\ \A k \in 1 .. NumQueries : value(r, k - 1) \in values(r)
<1>1. ASSUME NEW q \in Queries PROVE value(r, q) \in 0 .. LongMax
  <2>1. executed[q] \in Executions /\ gpu_results_vec[q] = collected(nothing, executed[q])
    BY DEF TimesInv
  <2>2. /\ gpu_results_vec[q].kernel_time \in [Kernels -> 0 .. LongMax]
        /\ gpu_results_vec[q].execuction_time \in 0 .. LongMax
        /\ gpu_results_vec[q].gpu_time \in 0 .. LongMax
    BY <2>1, CollectedTyped
  <2>3. \/ r \in KernelRows
        \/ r \notin KernelRows /\ r = ExecutionRow
        \/ r \notin KernelRows /\ r # ExecutionRow /\ r = GpuTimeRow
    BY Constants DEF Rows, KernelRows, Kernels, ExecutionRow, GpuTimeRow
  <2> QED BY <2>2, <2>3 DEF value, KernelRows
<1>2. \A k \in 1 .. NumQueries : k - 1 \in Queries
  BY Constants DEF Queries
<1> QED BY <1>1, <1>2, Constants DEF values

LEMMA ExtremesTyped ==
  ASSUME TimesInv, ran = Queries, NEW r \in Rows
  PROVE  /\ Min(values(r)) \in Nat /\ Max(values(r)) \in Nat
         /\ \A y \in values(r) : Min(values(r)) <= y /\ y <= Max(values(r))
<1>1. values(r) \in SUBSET (0 .. LongMax) /\ values(r) \in SUBSET Nat /\ values(r) # {}
  BY ValuesTyped, Constants
<1>2. Min(values(r)) \in values(r) /\ \A y \in values(r) : Min(values(r)) <= y
  BY <1>1, MinOf
<1>3. Max(values(r)) \in values(r) /\ \A y \in values(r) : y <= Max(values(r))
  BY <1>1, MaxOf, Constants
<1> QED BY <1>1, <1>2, <1>3

\* The sum grows by the value accumulated, and stays 0 before the first.
LEMMA UptoStep ==
  ASSUME TimesInv, ran = Queries, NEW r \in Rows
  PROVE  /\ Upto(r, 0) = 0
         /\ \A n \in 0 .. NumQueries : Upto(r, n) \in Nat
         /\ \A n \in 0 .. NumQueries - 1 : Upto(r, n + 1) = Upto(r, n) + value(r, n)
         /\ \A n \in 0 .. NumQueries :
              n * Min(values(r)) <= Upto(r, n) /\ Upto(r, n) <= n * Max(values(r))
<1> DEFINE f == [k \in 1 .. NumQueries |-> value(r, k - 1)]
           lo == Min(values(r))
           hi == Max(values(r))
<1>1. NumQueries \in Nat
  BY Constants
<1>2. \A k \in 1 .. NumQueries : f[k] \in 0 .. LongMax /\ f[k] \in values(r) /\ f[k] = value(r, k - 1)
  <2>1. \A k \in 1 .. NumQueries : k - 1 \in Queries
    BY Constants DEF Queries
  <2> QED BY <2>1, ValuesTyped
<1>3. \A k \in 1 .. NumQueries : f[k] \in Nat
  BY <1>2, Constants
<1>4. lo \in Nat /\ hi \in Nat /\ \A y \in values(r) : lo <= y /\ y <= hi
  BY ExtremesTyped
<1> HIDE DEF f, lo, hi
<1>5. /\ Sum(f, 0) = 0
      /\ \A n \in 0 .. NumQueries : Sum(f, n) \in Int
      /\ \A n \in 0 .. NumQueries - 1 : Sum(f, n + 1) = Sum(f, n) + f[n + 1]
  BY <1>1, <1>3, SumStep
<1> DEFINE U == {n \in 0 .. NumQueries : Sum(f, n) \in Nat /\ n * lo <= Sum(f, n) /\ Sum(f, n) <= n * hi}
<1>6. 0 \in U
  BY <1>1, <1>4, <1>5
<1>7. ASSUME NEW n \in 0 .. NumQueries - 1, n \in U PROVE n + 1 \in U
  <2>1. n \in Int /\ n + 1 \in 1 .. NumQueries /\ n + 1 \in 0 .. NumQueries
    BY <1>1
  <2>2. f[n + 1] \in Nat /\ lo <= f[n + 1] /\ f[n + 1] <= hi
    BY <1>2, <1>3, <1>4, <2>1
  <2>3. Sum(f, n + 1) = Sum(f, n) + f[n + 1]
    BY <1>5
  <2>4. Sum(f, n) \in Nat /\ n * lo <= Sum(f, n) /\ Sum(f, n) <= n * hi
    BY <1>7
  <2>5. (n + 1) * lo = n * lo + lo /\ (n + 1) * hi = n * hi + hi
    BY <1>4, <2>1
  <2>6. n * lo \in Int /\ n * hi \in Int
    BY <1>4, <2>1
  <2> HIDE DEF U
  <2>7. Sum(f, n + 1) \in Nat /\ (n + 1) * lo <= Sum(f, n + 1) /\ Sum(f, n + 1) <= (n + 1) * hi
    BY <1>4, <2>2, <2>3, <2>4, <2>5, <2>6
  <2> QED BY <2>1, <2>7 DEF U
<1>8. \A n \in 0 .. NumQueries : n \in U
  <2> HIDE DEF U
  <2> QED BY <1>1, <1>6, <1>7, UpTo
<1>9. \A n \in 0 .. NumQueries - 1 : f[n + 1] = value(r, n)
  <2> SUFFICES ASSUME NEW n \in 0 .. NumQueries - 1 PROVE f[n + 1] = value(r, n)
    OBVIOUS
  <2>1. n + 1 \in 1 .. NumQueries /\ n + 1 - 1 = n
    BY <1>1
  <2> QED BY <1>2, <2>1
<1>10. \A n : Upto(r, n) = Sum(f, n)
  BY DEF Upto, f
<1> HIDE DEF U
<1>11. \A n \in 0 .. NumQueries : Sum(f, n) \in Nat /\ n * lo <= Sum(f, n) /\ Sum(f, n) <= n * hi
  BY <1>8 DEF U
<1> QED BY <1>5, <1>9, <1>10, <1>11 DEF lo, hi

\* The average of a sum lies between the bounds of its elements.
LEMMA Averaged ==
  ASSUME NEW n \in Nat \ {0}, NEW x \in Nat, NEW a \in Nat, NEW b \in Nat,
         n * a <= x, x <= n * b
  PROVE  a <= x \div n /\ x \div n <= b
  OBVIOUS
LEMMA MulLe ==
  ASSUME NEW x \in Int, NEW y \in Int, NEW c \in Nat, x <= y
  PROVE  x * c <= y * c
  OBVIOUS

LEMMA Divided ==
  ASSUME NEW x \in Nat, NEW n \in Nat \ {0}
  PROVE  /\ x \div n \in Nat
         /\ n * (x \div n) <= x /\ x <= n * (x \div n) + (n - 1)
  OBVIOUS

\* Cutting the bounds of x to whole units lowers them by less than a unit.
LEMMA Cut ==
  ASSUME NEW x \in Nat, NEW a \in Nat, NEW b \in Nat, NEW u \in Nat \ {0}, a <= x, x <= b
  PROVE  u * (a \div u) <= x /\ x < u * (b \div u + 1)
<1>1. /\ a \div u \in Nat /\ u * (a \div u) <= a
      /\ b \div u \in Nat /\ b <= u * (b \div u) + (u - 1)
  BY Divided
<1> DEFINE c == a \div u
           d == b \div u
<1>2. c \in Nat /\ d \in Nat /\ u * c <= a /\ b <= u * d + (u - 1)
  BY <1>1
<1> HIDE DEF c, d
<1>3. u * (d + 1) = u * d + u /\ u * d \in Int /\ u * c \in Int
  BY <1>2
<1>4. u * c <= x /\ x < u * (d + 1)
  BY <1>2, <1>3
<1> QED BY <1>4 DEF c, d

\* Rounding off once loses less than rounding off m times.
LEMMA Rounded ==
  ASSUME NEW x \in Nat, NEW n \in Nat \ {0}, NEW a \in Nat, NEW m \in Nat, m >= 1,
         n * a <= x, x <= n * a + m * (n - 1)
  PROVE  a <= x \div n /\ x \div n < a + m
<1> DEFINE d == x \div n
<1>1. d \in Nat /\ n * d <= x /\ x <= n * d + (n - 1)
  BY Divided
<1> HIDE DEF d
<1>2. a <= d
  <2> SUFFICES ASSUME d + 1 <= a PROVE FALSE
    BY <1>1
  <2>1. (d + 1) * n <= a * n
    BY <1>1, MulLe
  <2>2. (d + 1) * n = n * d + n /\ a * n = n * a
    BY <1>1
  <2>3. n * d \in Int /\ n * a \in Int
    BY <1>1
  <2> QED BY <1>1, <2>1, <2>2, <2>3
<1>3. d < a + m
  <2> SUFFICES ASSUME a + m <= d PROVE FALSE
    BY <1>1
  <2>1. (a + m) * n <= d * n
    BY <1>1, MulLe
  <2>2. (a + m) * n = n * a + m * (n - 1) + m /\ d * n = n * d
    BY <1>1
  <2>3. n * d \in Int /\ n * a \in Int /\ m * (n - 1) \in Int
    BY <1>1
  <2> QED BY <1>1, <2>1, <2>2, <2>3
<1> QED BY <1>2, <1>3 DEF d
-----------------------------------------------------------------------------
(* The steps.                                                              *)

LEMMA StatisticsInit == Init => StatisticsInv
<1> SUFFICES ASSUME Init PROVE StatisticsInv
  OBVIOUS
<1>1. TimesInv
  BY DEF Init, TimesInv
<1>2. SumInv
  <2>1. row = 1 /\ i = 0 /\ acc = 0 /\ exact = 0 /\ ran # Queries
    BY Constants DEF Init
  <2>2. 1 <= GpuTimeRow + 1 /\ 0 <= NumQueries
    BY Constants DEF GpuTimeRow
  <2>3. Upto(1, 0) = 0
    <3> DEFINE f == [k \in 1 .. NumQueries |-> value(1, k - 1)]
    <3>1. \A k \in 1 .. 0 : f[k] \in Int
      OBVIOUS
    <3> HIDE DEF f
    <3>2. Sum(f, 0) = 0
      BY <3>1, SumStep
    <3> QED BY <3>2 DEF Upto, f
  <2> QED BY <2>1, <2>2, <2>3, Constants DEF SumInv
<1>3. PrintedInv
  <2>1. printed = <<>> /\ row = 1
    BY DEF Init
  <2>2. 1 .. row - 1 = {} /\ <<>> = [r \in {} |-> printed[r]]
    BY <2>1
  <2> QED BY <2>1, <2>2 DEF PrintedInv
<1> QED BY <1>1, <1>2, <1>3 DEF StatisticsInv

LEMMA Appended ==
  ASSUME NEW n \in Nat, NEW s, s = [k \in 1 .. n |-> s[k]], NEW x
  PROVE  Append(s, x) = [k \in 1 .. n + 1 |-> IF k = n + 1 THEN x ELSE s[k]]
<1>1. s \in Seq({s[k] : k \in 1 .. n}) /\ Len(s) = n
  <2>1. s \in [1 .. n -> {s[k] : k \in 1 .. n}]
    OBVIOUS
  <2> QED BY <2>1
<1> QED BY <1>1

\* A sum of no values, whatever they are.
LEMMA UptoNone == \A r : Upto(r, 0) = 0 /\ Upto(r, 0)' = 0
<1> SUFFICES ASSUME NEW r PROVE Upto(r, 0) = 0 /\ Upto(r, 0)' = 0
  OBVIOUS
<1>1. \A f : Sum(f, 0) = 0
  <2> SUFFICES ASSUME NEW f PROVE Sum(f, 0) = 0
    OBVIOUS
  <2>1. \A k \in 1 .. 0 : f[k] \in Int
    OBVIOUS
  <2> QED BY <2>1, SumStep
<1> QED BY <1>1 DEF Upto

LEMMA RunKeeps ==
  ASSUME StatisticsInv,
         NEW q \in Queries, NEW z \in Zenons, NEW e \in Executions, Run(q, z, e)
  PROVE  StatisticsInv'
<1> USE DEF Run
<1>1. ran # Queries /\ row = 1 /\ i = 0
  BY DEF StatisticsInv, SumInv
<1>2. TimesInv'
  <2> USE DEF StatisticsInv, TimesInv
  <2>1. gpu_result' = [w \in Zenons |-> gpu_result'[w]] /\ gpu_result'[z] = collected(nothing, e)
    BY DEF collected
  <2>2. gpu_results_vec' = [p \in Queries |-> gpu_results_vec'[p]]
    OBVIOUS
  <2>3. executed' = [p \in Queries |-> executed'[p]]
    OBVIOUS
  <2>4. ran' \subseteq Queries /\ ran' \subseteq ran \cup {q}
    OBVIOUS
  <2>5. ASSUME NEW p \in ran'
        PROVE  executed'[p] \in Executions /\ gpu_results_vec'[p] = collected(nothing, executed'[p])
    <3>1. CASE p = q
      BY <2>1, <3>1
    <3>2. CASE p # q
      BY <2>4, <3>2
    <3> QED BY <3>1, <3>2
  <2>6. (\A p \in ran : /\ executed[p] \in Executions
                        /\ gpu_results_vec[p] = collected(nothing, executed[p]))'
    BY <2>5
  <2> QED BY <2>1, <2>2, <2>3, <2>4, <2>6
<1>3. SumInv'
  <2>1. exact = 0 /\ (exact <= IntMax => acc = exact)
    <3>1. 1 \in Rows
      BY Constants DEF Rows, GpuTimeRow
    <3> QED BY <1>1, <3>1, UptoNone DEF StatisticsInv, SumInv
  <2>2. Upto(row, i)' = 0
    BY <1>1, UptoNone
  <2> QED BY <1>1, <2>1, <2>2 DEF StatisticsInv, SumInv, Rows, GpuTimeRow
<1>4. PrintedInv'
  BY <1>1 DEF StatisticsInv, PrintedInv
<1> QED BY <1>2, <1>3, <1>4 DEF StatisticsInv

LEMMA AccumulateKeeps ==
  ASSUME StatisticsInv, Accumulate
  PROVE  StatisticsInv'
<1> USE DEF Accumulate
<1>1. TimesInv'
  BY DEF StatisticsInv, TimesInv
<1>2. \A r, q : value(r, q)' = value(r, q)
  BY DEF value
<1>3. \A r, n : Upto(r, n)' = Upto(r, n)
  BY <1>2 DEF Upto
<1>4. \A r : values(r)' = values(r)
  BY <1>2 DEF values
<1>5. PrintedInv'
  BY <1>3, <1>4 DEF StatisticsInv, PrintedInv, Fits
<1>6. SumInv'
  <2>1. i \in 0 .. NumQueries /\ i \in 0 .. NumQueries - 1 /\ i \in Queries /\ i + 1 \in 0 .. NumQueries
    BY Constants DEF StatisticsInv, SumInv, Queries
  <2>2. value(row, i) \in 0 .. LongMax /\ value(row, i) \in Nat
    BY <2>1, ValuesTyped, Constants DEF StatisticsInv
  <2>3. Upto(row, i) \in Nat /\ Upto(row, i + 1) = Upto(row, i) + value(row, i)
    BY <2>1, UptoStep DEF StatisticsInv
  <2>4. exact' = Upto(row, i + 1) /\ exact \in Nat
    BY <2>3 DEF StatisticsInv, SumInv
  <2>5. acc' \in Int
    <3>1. acc + value(row, i) \in Int
      BY <2>2 DEF StatisticsInv, SumInv
    <3>2. uint64(acc + value(row, i)) \in Int
      BY <3>1, Unsigned, Constants
    <3> QED BY <3>2, Signed
  <2>6. ASSUME exact' <= IntMax PROVE acc' = exact'
    <3>1. exact <= IntMax /\ acc = exact
      BY <2>2, <2>4, <2>6, Constants DEF StatisticsInv, SumInv
    <3>2. acc + value(row, i) = exact'
      BY <3>1
    <3>3. exact' \in 0 .. IntMax /\ exact' \in 0 .. LongMax
      BY <2>2, <2>4, <2>6, Constants
    <3> HIDE DEF Accumulate
    <3>4. acc' = int(uint64(acc + value(row, i)))
      BY DEF Accumulate
    <3> QED BY <3>2, <3>3, <3>4, Unsigned, Signed
  <2> QED BY <1>3, <2>1, <2>4, <2>5, <2>6, Constants DEF StatisticsInv, SumInv
<1> QED BY <1>1, <1>5, <1>6 DEF StatisticsInv

LEMMA PrintRowKeeps ==
  ASSUME StatisticsInv, PrintRow
  PROVE  StatisticsInv'
<1> USE DEF PrintRow
<1>1. TimesInv'
  BY DEF StatisticsInv, TimesInv
<1>2. \A r, q : value(r, q)' = value(r, q)
  BY DEF value
<1>3. \A r, n : Upto(r, n)' = Upto(r, n)
  BY <1>2 DEF Upto
<1>4. \A r : values(r)' = values(r)
  BY <1>2 DEF values
<1>5. row \in Nat /\ 1 <= row /\ row <= GpuTimeRow /\ i = NumQueries /\ ran = Queries
  BY Constants DEF StatisticsInv, SumInv, Rows
<1>6. SumInv'
  BY <1>5, UptoNone, Constants DEF StatisticsInv, SumInv, Rows, GpuTimeRow
<1>7. PrintedInv'
  <2>1. printed = [r \in 1 .. row - 1 |-> printed[r]]
    BY DEF StatisticsInv, PrintedInv
  <2>2. printed' = [r \in 1 .. row |-> IF r = row THEN line ELSE printed[r]]
    <3> HIDE DEF PrintRow
    <3>1. row - 1 \in Nat /\ row - 1 + 1 = row
      BY <1>5
    <3>2. printed' = Append(printed, line)
      BY DEF PrintRow
    <3> QED BY <2>1, <3>1, <3>2, Appended
  <2>3. row' - 1 = row
    BY <1>5
  <2>4. ASSUME NEW r \in 1 .. row
        PROVE  /\ printed'[r].min = Min(values(r)) \div unit(r)
               /\ printed'[r].max = Max(values(r)) \div unit(r)
               /\ printed'[r].exact = Upto(r, NumQueries)
               /\ printed'[r].exact <= IntMax => printed'[r].avg = printed'[r].exact \div NumQueries
    <3>1. CASE r = row
      <4>1. printed'[r] = line
        BY <2>2, <3>1
      <4>2. exact = Upto(row, NumQueries) /\ exact \in Nat
        BY <1>5, UptoStep, Constants DEF StatisticsInv, SumInv
      <4>3. exact <= IntMax => uint64(acc) = exact
        BY <4>2, Unsigned, Constants DEF StatisticsInv, SumInv
      <4>4. /\ line.min = Min(values(row)) \div unit(row)
            /\ line.max = Max(values(row)) \div unit(row)
            /\ line.exact = exact /\ line.avg = uint64(acc) \div NumQueries
        BY DEF line
      <4> HIDE DEF PrintRow
      <4> QED BY <3>1, <4>1, <4>2, <4>3, <4>4
    <3>2. CASE r # row
      <4>1. r \in 1 .. row - 1 /\ printed'[r] = printed[r]
        BY <1>5, <2>2, <3>2
      <4> QED BY <4>1 DEF StatisticsInv, PrintedInv, Fits
    <3> QED BY <3>1, <3>2
  <2>5. DOMAIN printed' = 1 .. row' - 1 /\ printed' = [r \in 1 .. row' - 1 |-> printed'[r]]
    BY <2>2, <2>3
  <2> QED BY <1>3, <1>4, <2>3, <2>4, <2>5 DEF PrintedInv, Fits
<1> QED BY <1>1, <1>6, <1>7 DEF StatisticsInv

LEMMA StatisticsNext == StatisticsInv /\ [Next]_vars => StatisticsInv'
<1> SUFFICES ASSUME StatisticsInv, [Next]_vars PROVE StatisticsInv'
  OBVIOUS
<1>1. ASSUME NEW q \in Queries, NEW z \in Zenons, NEW e \in Executions, Run(q, z, e)
      PROVE  StatisticsInv'
  BY <1>1, RunKeeps
<1>2. CASE Accumulate
  BY <1>2, AccumulateKeeps
<1>3. CASE PrintRow
  BY <1>3, PrintRowKeeps
<1>4. CASE UNCHANGED vars
  <2> USE <1>4 DEF vars
  <2>1. \A r, q : value(r, q)' = value(r, q)
    BY DEF value
  <2>2. (\A r, n : Upto(r, n)' = Upto(r, n)) /\ (\A r : values(r)' = values(r))
    BY <2>1 DEF Upto, values
  <2>3. TimesInv' /\ SumInv' /\ PrintedInv'
    BY <2>2 DEF StatisticsInv, TimesInv, SumInv, PrintedInv, Fits
  <2> QED BY <2>3 DEF StatisticsInv
<1> QED BY <1>1, <1>2, <1>3, <1>4 DEF Next, Printed

LEMMA StatisticsCorrect == Spec => []StatisticsInv
  BY StatisticsInit, StatisticsNext, PTL DEF Spec
-----------------------------------------------------------------------------
(* The theorems.                                                           *)

\* A printed average is not below the minimum and less than a unit above the maximum
\* beside it, unless the sum over all queries wraps in the int of avg_u.
THEOREM MeansInRangeHolds == Spec => []MeansInRange
<1>1. StatisticsInv => MeansInRange
  <2> SUFFICES ASSUME StatisticsInv, NEW r \in DOMAIN printed, Fits(r)
               PROVE  /\ unit(r) * printed[r].min <= printed[r].avg
                      /\ printed[r].avg < unit(r) * (printed[r].max + 1)
    BY DEF MeansInRange
  <2>1. r \in 1 .. row - 1 /\ row # 1
    BY DEF StatisticsInv, PrintedInv
  <2>2. r \in Rows /\ ran = Queries
    BY <2>1, Constants DEF StatisticsInv, SumInv, Rows, GpuTimeRow
  <2>3. /\ printed[r].min = Min(values(r)) \div unit(r)
        /\ printed[r].max = Max(values(r)) \div unit(r)
        /\ printed[r].avg = Upto(r, NumQueries) \div NumQueries
    BY <2>1 DEF StatisticsInv, PrintedInv
  <2>4. /\ Upto(r, NumQueries) \in Nat
        /\ NumQueries * Min(values(r)) <= Upto(r, NumQueries)
        /\ Upto(r, NumQueries) <= NumQueries * Max(values(r))
    BY <2>2, UptoStep, Constants DEF StatisticsInv
  <2>5. Min(values(r)) \in Nat /\ Max(values(r)) \in Nat
    BY <2>2, ExtremesTyped DEF StatisticsInv
  <2>6. NumQueries \in Nat \ {0}
    BY Constants
  <2>7. /\ Min(values(r)) <= printed[r].avg /\ printed[r].avg <= Max(values(r))
        /\ printed[r].avg \in Nat
    BY <2>3, <2>4, <2>5, <2>6, Averaged, Divided
  <2>8. PICK u \in Nat \ {0} : u = unit(r)
    BY Constants
  <2> QED BY <2>3, <2>5, <2>7, <2>8, Cut
<1> QED BY <1>1, StatisticsCorrect, PTL

\* What zenon::run collects of kernels that ran in order.
LEMMA OrderedTimes ==
  ASSUME NEW e \in Executions, InOrder(e), ClockFits(e)
  PROVE  LET c == collected(nothing, e)
         IN  /\ c.kernels_start_time = e[1].start * Resolution
             /\ c.kernels_start_time \in 0 .. LongMax
             /\ c.kernels_end_time \in 0 .. LongMax
             /\ c.kernels_start_time <= c.kernels_end_time
             /\ c.execuction_time - c.kernel_time[Timed]
                  <= c.kernels_end_time - c.kernels_start_time
<1> DEFINE b == [k \in Kernels |-> e[k].start * Resolution]
           d == [k \in Kernels |-> e[k].end * Resolution]
           time == [k \in Kernels |-> kernelDuration(e, k)]
<1>1. e \in [Kernels -> [start: Nat, end: Nat]]
  BY StatisticsAssumption
<1>2. ASSUME NEW k \in Kernels
      PROVE  /\ b[k] \in 0 .. LongMax /\ d[k] \in 0 .. LongMax /\ b[k] <= d[k]
             /\ time[k] = d[k] - b[k]
  <2>1. e[k].start \in Nat /\ e[k].end \in Nat /\ e[k].start <= e[k].end
    BY <1>1 DEF InOrder
  <2>2. 0 * Resolution <= e[k].start * Resolution /\ e[k].start * Resolution <= e[k].end * Resolution
    BY <2>1, MulLe, Constants
  <2>3. e[k].end * Resolution <= LongMax
    BY DEF ClockFits
  <2>4. e[k].start * Resolution \in Int /\ e[k].end * Resolution \in Int
    BY <2>1, Constants
  <2>5. (e[k].end - e[k].start) * Resolution = e[k].end * Resolution - e[k].start * Resolution
    BY <2>1, Constants
  <2>6. e[k].end * Resolution - e[k].start * Resolution \in 0 .. LongMax
    BY <2>2, <2>3, <2>4, Constants
  <2>7. kernelDuration(e, k) = e[k].end * Resolution - e[k].start * Resolution
    BY <2>5, <2>6, Unsigned DEF kernelDuration
  <2> QED BY <2>2, <2>3, <2>4, <2>7, Constants
<1>3. ASSUME NEW k \in 2 .. Timed PROVE d[k - 1] <= b[k]
  <2>1. k \in Kernels /\ k - 1 \in Kernels
    BY Constants DEF Kernels
  <2>2. e[k].start \in Nat /\ e[k - 1].end \in Nat /\ e[k - 1].end <= e[k].start
    BY <1>1, <2>1 DEF InOrder
  <2>3. e[k - 1].end * Resolution <= e[k].start * Resolution
    BY <2>2, MulLe, Constants
  <2> QED BY <2>1, <2>3
<1>4. /\ collected(nothing, e).kernel_time = time
      /\ collected(nothing, e).execuction_time = uint64(Total(time))
      /\ collected(nothing, e).kernels_start_time = uint64(b[1])
      /\ collected(nothing, e).kernels_end_time = uint64(b[Timed])
  BY CollectedTyped, Constants DEF Kernels
<1>5. b[1] = e[1].start * Resolution
  BY Constants DEF Kernels
<1> HIDE DEF b, d, time
<1>6. \A k \in 1 .. Timed : time[k] \in Int
  BY <1>2, Constants DEF Kernels
<1> DEFINE U == {n \in 0 .. Timed : n # 0 => 0 <= Sum(time, n) /\ Sum(time, n) <= d[n] - b[1]}
<1>7. \A n \in 0 .. Timed : n \in U
  <2>1. 0 \in U
    BY Constants
  <2>2. ASSUME NEW n \in 0 .. Timed - 1, n \in U PROVE n + 1 \in U
    <3>1. n \in 0 .. Timed /\ n + 1 \in 0 .. Timed /\ n + 1 \in Kernels /\ 1 \in Kernels
      BY Constants DEF Kernels
    <3>2. Sum(time, n) \in Int /\ Sum(time, n + 1) = Sum(time, n) + (d[n + 1] - b[n + 1])
      <4>1. Sum(time, n) \in Int /\ Sum(time, n + 1) = Sum(time, n) + time[n + 1]
        BY <1>6, SumStep, Constants
      <4>2. time[n + 1] = d[n + 1] - b[n + 1]
        BY <1>2, <3>1
      <4> QED BY <4>1, <4>2
    <3>3. d[n + 1] \in Int /\ b[n + 1] \in Int /\ b[n + 1] <= d[n + 1] /\ b[1] \in Int
      BY <1>2, <3>1, Constants
    <3>4. CASE n = 0
      <4>1. Sum(time, n) = 0 /\ n + 1 = 1
        BY <1>6, <3>4, SumStep, Constants
      <4> QED BY <3>1, <3>2, <3>3, <4>1
    <3>5. CASE n # 0
      <4>1. n \in Kernels /\ n + 1 \in 2 .. Timed /\ n + 1 - 1 = n
        BY <3>5, Constants DEF Kernels
      <4>2. d[n] \in Int /\ d[n] <= b[n + 1]
        BY <1>2, <1>3, <4>1, Constants
      <4>3. 0 <= Sum(time, n) /\ Sum(time, n) <= d[n] - b[1]
        BY <2>2, <3>5
      <4> QED BY <3>1, <3>2, <3>3, <4>2, <4>3
    <3> QED BY <3>4, <3>5
  <2> HIDE DEF U
  <2> QED BY <2>1, <2>2, UpTo, Constants
<1>8. 0 <= Sum(time, Timed - 1) /\ Sum(time, Timed - 1) <= b[Timed] - b[1] /\ b[1] <= b[Timed]
  <2>1. 1 \in Kernels /\ Timed \in Kernels /\ b[1] \in Int /\ b[Timed] \in Int
    BY <1>2, Constants DEF Kernels
  <2>2. CASE Timed = 1
    <3>1. Sum(time, 0) = 0
      BY <1>6, SumStep, Constants
    <3> QED BY <2>1, <2>2, <3>1
  <2>3. CASE Timed # 1
    <3>1. Timed - 1 \in 0 .. Timed /\ Timed - 1 # 0 /\ Timed \in 2 .. Timed /\ Timed - 1 \in Kernels
      BY <2>3, Constants DEF Kernels
    <3>2. 0 <= Sum(time, Timed - 1) /\ Sum(time, Timed - 1) <= d[Timed - 1] - b[1]
      BY <1>7, <3>1
    <3>3. d[Timed - 1] \in Int /\ d[Timed - 1] <= b[Timed]
      BY <1>2, <1>3, <3>1, Constants
    <3>4. Sum(time, Timed - 1) \in Int
      BY <1>6, <3>1, SumStep, Constants
    <3> QED BY <2>1, <3>2, <3>3, <3>4
  <2> QED BY <2>2, <2>3
<1>9. /\ Sum(time, Timed) = Sum(time, Timed - 1) + time[Timed]
      /\ Sum(time, Timed) \in 0 .. LongMax
      /\ Sum(time, Timed - 1) \in Int /\ time[Timed] \in Int
  <2>1. Timed - 1 \in 0 .. Timed - 1 /\ Timed - 1 \in 0 .. Timed /\ Timed - 1 + 1 = Timed
          /\ Timed \in 0 .. Timed /\ Timed # 0 /\ Timed \in Kernels /\ 1 \in Kernels
    BY Constants DEF Kernels
  <2>2. Sum(time, Timed) = Sum(time, Timed - 1) + time[Timed]
    BY <1>6, <2>1, SumStep, Constants
  <2>3. 0 <= Sum(time, Timed) /\ Sum(time, Timed) <= d[Timed] - b[1] /\ Sum(time, Timed) \in Int
    BY <1>6, <1>7, <2>1, SumStep, Constants
  <2>4. d[Timed] \in 0 .. LongMax /\ b[1] \in 0 .. LongMax
    BY <1>2, <2>1
  <2> QED BY <1>6, <2>1, <2>2, <2>3, <2>4, SumStep, Constants
<1>10. uint64(Total(time)) = Sum(time, Timed)
  BY <1>9, Unsigned, TotalIsSum
<1>11. /\ uint64(b[1]) = b[1] /\ uint64(b[Timed]) = b[Timed]
       /\ b[1] \in 0 .. LongMax /\ b[Timed] \in 0 .. LongMax
  BY <1>2, Unsigned, Constants DEF Kernels
<1> QED BY <1>4, <1>5, <1>8, <1>9, <1>10, <1>11

\* The printed span covers what a query's kernels ran but for the last of them, what
\* they ran before query 0 began and a fraction of a microsecond, if they ran in
\* order, whatever the other queries' did.
THEOREM SpanCoversHolds == Spec => []SpanCovers
<1>1. StatisticsInv => SpanCovers
  <2> DEFINE begun(p) == executed[p][1].start
             last(p) == gpu_results_vec[p].kernels_end_time
             before_last(p) ==
               gpu_results_vec[p].execuction_time - gpu_results_vec[p].kernel_time[Timed]
  <2> SUFFICES ASSUME StatisticsInv, ran = Queries, begun(0) * Resolution <= kernels_ends,
                      NEW q \in Queries, InOrder(executed[q]), ClockFits(executed[q])
               PROVE  before_last(q) < Micro * (span + 1) + lead(q)
    BY DEF SpanCovers
  <2>1. \A p \in Queries : executed[p] \in Executions /\ gpu_results_vec[p] = collected(nothing, executed[p])
    BY DEF StatisticsInv, TimesInv
  <2>2. ASSUME NEW p \in Queries PROVE begun(p) \in Nat /\ last(p) \in 0 .. LongMax
    <3>1. 1 \in Kernels /\ Timed \in Kernels
      BY Constants DEF Kernels
    <3>2. executed[p] \in Executions /\ gpu_results_vec[p] = collected(nothing, executed[p])
      BY <2>1
    <3>3. executed[p] \in [Kernels -> [start: Nat, end: Nat]]
      BY <3>2, StatisticsAssumption
    <3>4. begun(p) \in Nat /\ executed[p][Timed].start \in Nat
      BY <3>1, <3>3
    <3>5. executed[p][Timed].start * Resolution \in Int
      BY <3>4, Constants
    <3>6. collected(nothing, executed[p]).kernels_end_time
            = uint64(executed[p][Timed].start * Resolution)
      BY <3>2, CollectedTyped
    <3> QED BY <3>2, <3>4, <3>5, <3>6, Unsigned
  <2>3. kernels_ends \in 0 .. LongMax /\ last(q) <= kernels_ends
    <3> DEFINE ends == {last(p) : p \in Queries}
    <3>1. ends \in SUBSET (0 .. LongMax) /\ last(q) \in ends
      BY <2>2
    <3>2. kernels_ends = Max(ends)
      BY DEF kernels_ends
    <3> HIDE DEF ends, last
    <3>3. kernels_ends \in ends /\ last(q) <= kernels_ends
      BY <3>1, <3>2, MaxOf, Constants
    <3> QED BY <3>1, <3>3
  <2> DEFINE from == begun(0) * Resolution
             length == kernels_ends - from
  <2>4. from \in 0 .. LongMax /\ length \in 0 .. LongMax
    <3>1. 0 * Resolution <= begun(0) * Resolution /\ begun(0) * Resolution \in Int
      BY <2>2, MulLe, Constants
    <3> HIDE DEF begun
    <3> QED BY <2>3, <3>1, Constants
  <2>5. span = length \div Micro
    <3>0. executed[0] \in Executions /\ gpu_results_vec[0] = collected(nothing, executed[0])
      BY <2>1, Constants
    <3>2. collected(nothing, executed[0]).kernels_start_time = uint64(executed[0][1].start * Resolution)
      BY <3>0, CollectedTyped
    <3>1. gpu_results_vec[0].kernels_start_time = uint64(from)
      BY <3>0, <3>2
    <3> HIDE DEF from
    <3> QED BY <2>4, <3>1, Unsigned DEF span
  <2>6. length < Micro * (span + 1) /\ Micro * (span + 1) \in Int
    <3> HIDE DEF length
    <3>1. length \in Nat
      BY <2>4, Constants
    <3>2. length \div Micro \in Nat
      BY <3>1, Divided, Constants
    <3> QED BY <2>5, <3>1, <3>2, Cut, Constants
  <2>7. from - begun(q) * Resolution <= lead(q) /\ lead(q) \in Int /\ begun(q) * Resolution \in Int
    <3> HIDE DEF length
    <3>1. begun(0) \in Nat /\ begun(q) \in Nat
      BY <2>2, Constants
    <3>2. lead(q) = IF begun(q) < begun(0) THEN (begun(0) - begun(q)) * Resolution ELSE 0
      BY DEF lead
    <3> HIDE DEF begun
    <3>3. (begun(0) - begun(q)) * Resolution = from - begun(q) * Resolution
      BY <3>1, Constants
    <3>4. /\ from \in Int /\ begun(q) * Resolution \in Int
          /\ (begun(0) - begun(q)) * Resolution \in Int
      BY <3>1, Constants
    <3>5. CASE begun(q) < begun(0)
      BY <3>2, <3>3, <3>4, <3>5
    <3>6. CASE begun(0) <= begun(q)
      <4>1. from <= begun(q) * Resolution
        BY <3>1, <3>6, MulLe, Constants
      <4> HIDE DEF from
      <4> QED BY <3>1, <3>2, <3>4, <3>6, <4>1
    <3> QED BY <3>1, <3>5, <3>6
  <2>8. before_last(q) <= last(q) - begun(q) * Resolution /\ before_last(q) \in Int
    <3>1. /\ gpu_results_vec[q].execuction_time \in 0 .. LongMax
          /\ gpu_results_vec[q].kernel_time \in [Kernels -> 0 .. LongMax]
      BY <2>1, CollectedTyped
    <3>2. before_last(q) \in Int
      BY <3>1, Constants DEF Kernels
    <3> QED BY <2>1, <3>2, OrderedTimes
  <2>9. last(q) \in Int /\ kernels_ends \in Int /\ from \in Int
    BY <2>2, <2>3, <2>4, Constants
  <2>10. length = kernels_ends - from
    OBVIOUS
  <2> HIDE DEF begun, last, before_last, from, length
  <2>11. last(q) <= kernels_ends
    BY <2>3
  <2> QED BY <2>6, <2>7, <2>8, <2>9, <2>10, <2>11
<1> QED BY <1>1, StatisticsCorrect, PTL
-----------------------------------------------------------------------------
(* The lines of the kernels and their total.                               *)

\* No query's kernel times wrapped in their sum.
NoWrap == \A q \in Queries : Total(gpu_results_vec[q].kernel_time) <= LongMax

\* Then a query's total is the sum of its values in the kernels' lines.
LEMMA TotalsOfQuery ==
  ASSUME TimesInv, ran = Queries, NoWrap, NEW q \in Queries
  PROVE  LET time == gpu_results_vec[q].kernel_time
         IN  /\ time \in [Kernels -> Nat]
             /\ \A k \in Kernels : value(k, q) = time[k]
             /\ value(ExecutionRow, q) = Sum(time, Timed)
<1> DEFINE time == gpu_results_vec[q].kernel_time
<1>1. executed[q] \in Executions /\ gpu_results_vec[q] = collected(nothing, executed[q])
  BY DEF TimesInv
<1>2. time \in [Kernels -> 0 .. LongMax] /\ gpu_results_vec[q].execuction_time = uint64(Total(time))
  <2> DEFINE c == collected(nothing, executed[q])
  <2>1. c.kernel_time \in [Kernels -> 0 .. LongMax] /\ c.execuction_time = uint64(Total(c.kernel_time))
    BY <1>1, CollectedTyped
  <2>2. gpu_results_vec[q] = c
    BY <1>1
  <2> HIDE DEF c
  <2> QED BY <2>1, <2>2
<1>3. Total(time) <= LongMax
  BY DEF NoWrap
<1>4. ASSUME NEW k \in Kernels PROVE value(k, q) = time[k]
  <2>1. k \in KernelRows /\ k # ExecutionRow /\ k # GpuTimeRow
    BY Constants DEF ExecutionRow, GpuTimeRow, KernelRows, Kernels
  <2> QED BY <2>1 DEF value
<1>5. value(ExecutionRow, q) = uint64(Total(time))
  <2>1. ExecutionRow \notin KernelRows /\ ExecutionRow # GpuTimeRow
    BY Constants DEF ExecutionRow, GpuTimeRow, KernelRows, Kernels
  <2>2. value(ExecutionRow, q) = gpu_results_vec[q].execuction_time
    BY <2>1 DEF value
  <2> QED BY <1>2, <2>2
<1> HIDE DEF time
<1>6. time \in [Kernels -> Nat] /\ \A k \in 1 .. Timed : time[k] \in Nat
  BY <1>2, Constants DEF Kernels
<1>7. Total(time) \in Nat /\ Total(time) = Sum(time, Timed)
  BY <1>6, SumCovers, TotalIsSum, Constants
<1>8. Total(time) \in 0 .. LongMax
  BY <1>3, <1>7, Constants
<1>9. uint64(Total(time)) = Sum(time, Timed)
  BY <1>7, <1>8, Unsigned
<1> QED BY <1>4, <1>5, <1>6, <1>9 DEF time

\* The sums of the kernels' lines add up to that of the total's.
LEMMA SumsExchange ==
  ASSUME TimesInv, ran = Queries, NoWrap, NEW n \in 0 .. NumQueries
  PROVE  Sum([k \in Kernels |-> Upto(k, n)], Timed) = Upto(ExecutionRow, n)
<1> DEFINE X(j) == [k \in Kernels |-> Upto(k, j)]
           U == {j \in 0 .. NumQueries : Sum(X(j), Timed) = Upto(ExecutionRow, j)}
<1>1. Kernels \subseteq Rows /\ ExecutionRow \in Rows
  BY Constants DEF Kernels, Rows, ExecutionRow, GpuTimeRow
<1>2. ASSUME NEW r \in Rows
      PROVE  /\ Upto(r, 0) = 0
             /\ \A j \in 0 .. NumQueries : Upto(r, j) \in Nat
             /\ \A j \in 0 .. NumQueries - 1 : Upto(r, j + 1) = Upto(r, j) + value(r, j)
  BY UptoStep
<1>3. 0 \in U
  <2>1. \A k \in 1 .. Timed : X(0)[k] = 0
    BY <1>1, <1>2 DEF Kernels
  <2> HIDE DEF X
  <2>2. Sum(X(0), Timed) = Sum(X(0), Timed) + Sum(X(0), Timed)
    BY <2>1, SumAdds, Constants
  <2>3. Sum(X(0), Timed) \in Int
    BY <2>1, SumStep, Constants
  <2>4. Sum(X(0), Timed) = 0
    <3> DEFINE x == Sum(X(0), Timed)
    <3>1. x \in Int /\ x = x + x
      BY <2>2, <2>3
    <3> HIDE DEF x
    <3>2. x = 0
      BY <3>1
    <3> QED BY <3>2 DEF x
  <2> QED BY <1>1, <1>2, <2>4, Constants
<1>4. ASSUME NEW j \in 0 .. NumQueries - 1, j \in U PROVE j + 1 \in U
  <2> DEFINE time == gpu_results_vec[j].kernel_time
  <2>1. j \in Queries /\ j \in 0 .. NumQueries /\ j + 1 \in 0 .. NumQueries
    BY Constants DEF Queries
  <2>2. /\ time \in [Kernels -> Nat]
        /\ \A k \in Kernels : value(k, j) = time[k]
        /\ value(ExecutionRow, j) = Sum(time, Timed)
    BY <2>1, TotalsOfQuery
  <2> HIDE DEF time
  <2>3. \A k \in 1 .. Timed : /\ X(j)[k] \in Int /\ time[k] \in Int
                              /\ X(j + 1)[k] = X(j)[k] + time[k]
    <3> SUFFICES ASSUME NEW k \in 1 .. Timed
                 PROVE  /\ X(j)[k] \in Int /\ time[k] \in Int
                        /\ X(j + 1)[k] = X(j)[k] + time[k]
      OBVIOUS
    <3>1. k \in Kernels /\ k \in Rows
      BY <1>1 DEF Kernels
    <3>2. Upto(k, j) \in Nat /\ Upto(k, j + 1) = Upto(k, j) + value(k, j)
      BY <1>2, <2>1, <3>1
    <3> QED BY <2>2, <3>1, <3>2
  <2>4. Sum(X(j), Timed) = Upto(ExecutionRow, j)
    BY <1>4
  <2>5. Upto(ExecutionRow, j + 1) = Upto(ExecutionRow, j) + value(ExecutionRow, j)
    BY <1>1, <1>2
  <2> HIDE DEF X, U
  <2>6. Sum(X(j + 1), Timed) = Sum(X(j), Timed) + Sum(time, Timed)
    BY <2>3, SumAdds, Constants
  <2>7. Sum(X(j + 1), Timed) = Upto(ExecutionRow, j + 1)
    BY <2>2, <2>4, <2>5, <2>6
  <2> QED BY <2>1, <2>7 DEF U
<1>5. \A j \in 0 .. NumQueries : j \in U
  <2> HIDE DEF U
  <2> QED BY <1>3, <1>4, UpTo, Constants
<1> QED BY <1>5

\* "Total kernels time" agrees with the kernels' own lines: its extremes lie within
\* the sums of theirs but for a fraction of a microsecond, its average is theirs but
\* for what each rounds off.
THEOREM TotalsAddUpHolds == Spec => []TotalsAddUp
<1>1. StatisticsInv => TotalsAddUp
  <2> DEFINE lines(field) == [k \in Kernels |-> printed[k][field]]
             total == printed[ExecutionRow]
  <2> SUFFICES ASSUME StatisticsInv, ExecutionRow \in DOMAIN printed, Fits(ExecutionRow), NoWrap
               PROVE  /\ Total(lines("min")) < Micro * (total.min + 1)
                      /\ Micro * total.max <= Total(lines("max"))
                      /\ Total(lines("avg")) <= total.avg
                      /\ total.avg < Total(lines("avg")) + Timed
    BY DEF TotalsAddUp, NoWrap
  <2>1. TimesInv /\ ran = Queries
    <3>1. row # 1
      BY Constants DEF StatisticsInv, PrintedInv, ExecutionRow
    <3> QED BY <3>1 DEF StatisticsInv, SumInv
  <2>2. ExecutionRow \in 1 .. row - 1 /\ ExecutionRow \in Rows
          /\ Kernels \subseteq 1 .. row - 1 /\ Kernels \subseteq Rows
    <3>1. ExecutionRow \in 1 .. row - 1 /\ row \in Nat
      BY DEF StatisticsInv, PrintedInv, SumInv
    <3> QED BY <3>1, Constants DEF ExecutionRow, Kernels, Rows, GpuTimeRow
  <2>3. ASSUME NEW r \in 1 .. row - 1
        PROVE  /\ printed[r].min = Min(values(r)) \div unit(r)
               /\ printed[r].max = Max(values(r)) \div unit(r)
               /\ printed[r].exact = Upto(r, NumQueries)
               /\ Fits(r) => printed[r].avg = printed[r].exact \div NumQueries
    BY DEF StatisticsInv, PrintedInv
  <2>4. ASSUME NEW r \in Rows
        PROVE  /\ Min(values(r)) \in Nat /\ Max(values(r)) \in Nat
               /\ \A q \in Queries : Min(values(r)) <= value(r, q) /\ value(r, q) <= Max(values(r))
               /\ \E q \in Queries : value(r, q) = Min(values(r))
               /\ \E q \in Queries : value(r, q) = Max(values(r))
    <3>1. values(r) \in SUBSET (0 .. LongMax) /\ values(r) \in SUBSET Nat /\ values(r) # {}
      BY <2>1, ValuesTyped, Constants
    <3>2. Min(values(r)) \in values(r) /\ Max(values(r)) \in values(r)
      BY <3>1, MinOf, MaxOf, Constants
    <3>3. \A q \in Queries : value(r, q) \in values(r)
      BY DEF values
    <3>4. /\ Min(values(r)) \in Nat /\ Max(values(r)) \in Nat
          /\ \A y \in values(r) : Min(values(r)) <= y /\ y <= Max(values(r))
      BY <2>1, ExtremesTyped
    <3>5. /\ \E q \in Queries : value(r, q) = Min(values(r))
          /\ \E q \in Queries : value(r, q) = Max(values(r))
      BY <3>2 DEF values
    <3> QED BY <3>3, <3>4, <3>5
  <2>0. unit(ExecutionRow) = Micro /\ \A k \in Kernels : unit(k) = 1
    BY Constants DEF unit, KernelRows, ExecutionRow, Kernels
  <2>5. Total(lines("min")) < Micro * (total.min + 1)
    <3>1. PICK q \in Queries : value(ExecutionRow, q) = Min(values(ExecutionRow))
      BY <2>2, <2>4
    <3> DEFINE time == gpu_results_vec[q].kernel_time
               f == lines("min")
    <3>2. /\ time \in [Kernels -> Nat]
          /\ \A k \in Kernels : value(k, q) = time[k]
          /\ value(ExecutionRow, q) = Sum(time, Timed)
      BY <2>1, TotalsOfQuery
    <3>3. total.min = Sum(time, Timed) \div Micro /\ Sum(time, Timed) \in Nat
      BY <2>0, <2>2, <2>3, <2>4, <3>1, <3>2
    <3> HIDE DEF time
    <3>4. \A k \in 1 .. Timed : f[k] \in Int /\ time[k] \in Int /\ f[k] <= time[k]
      <4>1. \A k \in Kernels : f[k] = Min(values(k)) \div 1 /\ Min(values(k)) \in Nat
        BY <2>0, <2>2, <2>3, <2>4
      <4>2. \A k \in Kernels : f[k] = Min(values(k))
        BY <4>1
      <4> QED BY <2>2, <2>4, <3>2, <4>2 DEF Kernels
    <3> HIDE DEF f
    <3>5. Sum(f, Timed) <= Sum(time, Timed)
      BY <3>4, SumMonotone, Constants
    <3>6. Sum(f, Timed) \in Int
      BY <3>4, SumStep, Constants
    <3>7. Sum(time, Timed) < Micro * (total.min + 1)
      BY <3>3, Cut, Constants
    <3>8. Micro * (total.min + 1) \in Int
      BY <3>3, Divided, Constants
    <3>9. Sum(f, Timed) < Micro * (total.min + 1)
      BY <3>3, <3>5, <3>6, <3>7, <3>8
    <3> QED BY <3>9, TotalIsSum DEF f
  <2>6. Micro * total.max <= Total(lines("max"))
    <3>1. PICK q \in Queries : value(ExecutionRow, q) = Max(values(ExecutionRow))
      BY <2>2, <2>4
    <3> DEFINE time == gpu_results_vec[q].kernel_time
               f == lines("max")
    <3>2. /\ time \in [Kernels -> Nat]
          /\ \A k \in Kernels : value(k, q) = time[k]
          /\ value(ExecutionRow, q) = Sum(time, Timed)
      BY <2>1, TotalsOfQuery
    <3>3. total.max = Sum(time, Timed) \div Micro /\ Sum(time, Timed) \in Nat
      BY <2>0, <2>2, <2>3, <2>4, <3>1, <3>2
    <3> HIDE DEF time
    <3>4. \A k \in 1 .. Timed : time[k] \in Int /\ f[k] \in Int /\ time[k] <= f[k]
      <4>1. \A k \in Kernels : f[k] = Max(values(k)) \div 1 /\ Max(values(k)) \in Nat
        BY <2>0, <2>2, <2>3, <2>4
      <4>2. \A k \in Kernels : f[k] = Max(values(k))
        BY <4>1
      <4> QED BY <2>2, <2>4, <3>2, <4>2 DEF Kernels
    <3> HIDE DEF f
    <3>5. Sum(time, Timed) <= Sum(f, Timed)
      BY <3>4, SumMonotone, Constants
    <3>6. Sum(f, Timed) \in Int
      BY <3>4, SumStep, Constants
    <3>7. Micro * total.max <= Sum(time, Timed) /\ Micro * total.max \in Int
      <4>1. /\ Sum(time, Timed) \div Micro \in Nat
            /\ Micro * (Sum(time, Timed) \div Micro) <= Sum(time, Timed)
        BY <3>3, Divided, Constants
      <4>2. Micro * (Sum(time, Timed) \div Micro) \in Int
        BY <4>1, Constants
      <4> QED BY <3>3, <4>1, <4>2
    <3>9. Micro * total.max <= Sum(f, Timed)
      BY <3>3, <3>5, <3>6, <3>7
    <3> QED BY <3>9, TotalIsSum DEF f
  <2>7. Total(lines("avg")) <= total.avg /\ total.avg < Total(lines("avg")) + Timed
    <3> DEFINE X == [k \in Kernels |-> Upto(k, NumQueries)]
               A == lines("avg")
               x == Upto(ExecutionRow, NumQueries)
    <3>1. x = Sum(X, Timed)
      <4>1. NumQueries \in 0 .. NumQueries
        BY Constants
      <4> QED BY <2>1, <4>1, SumsExchange
    <3>2. \A k \in 1 .. Timed : X[k] \in Nat
      <4>1. \A k \in Kernels : Upto(k, NumQueries) \in Nat
        BY <2>1, <2>2, UptoStep, Constants
      <4> QED BY <4>1 DEF Kernels
    <3>3. x \in Nat /\ \A k \in 1 .. Timed : X[k] <= x
      <4> HIDE DEF X, x
      <4> QED BY <3>1, <3>2, SumCovers, Constants
    <3>4. x <= IntMax /\ total.avg = x \div NumQueries
      BY <2>2, <2>3 DEF Fits
    <3>5. ASSUME NEW k \in 1 .. Timed
          PROVE  A[k] = X[k] \div NumQueries
      <4>1. k \in Kernels /\ k \in 1 .. row - 1
        BY <2>2 DEF Kernels
      <4>2. X[k] <= IntMax /\ X[k] = printed[k].exact
        <5>1. X[k] = Upto(k, NumQueries) /\ printed[k].exact = Upto(k, NumQueries)
          BY <2>3, <4>1
        <5>2. X[k] \in Nat /\ X[k] <= x /\ x \in Nat /\ x <= IntMax
          BY <3>2, <3>3, <3>4
        <5> HIDE DEF X, x
        <5> QED BY <5>1, <5>2, Constants
      <4>3. Fits(k)
        BY <4>2 DEF Fits
      <4> QED BY <2>3, <4>1, <4>2, <4>3
    <3> HIDE DEF A, X, x
    <3>6. NumQueries \in Nat \ {0}
      BY Constants
    <3>7. \A k \in 1 .. Timed :
            /\ A[k] \in Nat /\ X[k] \in Nat
            /\ NumQueries * A[k] <= X[k] /\ X[k] <= NumQueries * A[k] + (NumQueries - 1)
      BY <3>2, <3>5, <3>6, Divided
    <3>8. /\ Sum(A, Timed) \in Nat
          /\ NumQueries * Sum(A, Timed) <= x
          /\ x <= NumQueries * Sum(A, Timed) + Timed * (NumQueries - 1)
      BY <3>1, <3>6, <3>7, SumRounds, Constants
    <3>9. Sum(A, Timed) <= x \div NumQueries /\ x \div NumQueries < Sum(A, Timed) + Timed
      BY <3>3, <3>6, <3>8, Rounded, Constants
    <3> QED BY <3>4, <3>9, TotalIsSum DEF A
  <2> QED BY <2>5, <2>6, <2>7
<1> QED BY <1>1, StatisticsCorrect, PTL
=============================================================================
