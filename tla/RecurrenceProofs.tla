-------------------------- MODULE RecurrenceProofs --------------------------
(* Recurrence and Ics, proved for any calendar, window, limits, rule and   *)
(* document.                                                               *)
EXTENDS MCRecurrence, FiniteSetTheorems, WellFoundedInduction, TLAPS

----------------------------------------------------------------------------
(* Numbers                                                                 *)

Least(T) == \E m \in T : \A k \in T : m <= k

(* A nonempty set of numbers has a least one.                              *)
LEMMA LeastExists ==
    ASSUME NEW T \in SUBSET Nat, T # {}
    PROVE  Least(T)
  <1> DEFINE R == OpToRel(<, Nat)
  <1>1. IsWellFoundedOn(R, Nat)
    BY NatLessThanWellFounded
  <1>2. \A x, y \in Nat : <<x, y>> \in R <=> x < y
    BY DEF OpToRel
  <1> HIDE DEF R
  <1>3. PICK m \in T : \A y \in T : ~ (<<y, m>> \in R)
    BY <1>1, WFMin
  <1>4. \A y \in T : ~ (y < m)
    BY <1>2, <1>3
  <1> QED
    BY <1>4 DEF Least

----------------------------------------------------------------------------
(* The calendar                                                            *)

LEMMA MonthLength ==
    ASSUME NEW m \in Nat
    PROVE  DaysIn(m) \in 28 .. 31
  <1>1. Lengths \in Seq(28 .. 31) /\ Len(Lengths) \in Nat \ {0}
    BY CalendarAssumption
  <1>2. m % Len(Lengths) \in 0 .. Len(Lengths) - 1
    BY <1>1
  <1>3. (m % Len(Lengths)) + 1 \in 1 .. Len(Lengths)
    BY <1>1, <1>2
  <1> QED
    BY <1>1, <1>3 DEF DaysIn

(* The months are counted as FirstDay says.                                *)
LEMMA FirstDayDef ==
    FirstDay = [m \in Nat |-> IF m = 0 THEN 1 ELSE FirstDay[m - 1] + DaysIn(m - 1)]
  <1> DEFINE Runs(f, m) ==
                f = [n \in 0 .. m |-> IF n = 0 THEN 1 ELSE f[n - 1] + DaysIn(n - 1)]
             Unrun == {m \in Nat : ~ \E f : Runs(f, m)}
             Run(m) == CHOOSE f : Runs(f, m)
             F == [m \in Nat |-> Run(m)[m]]
  <1>1. ASSUME NEW m \in Nat \ {0}, NEW g, Runs(g, m - 1)
        PROVE  Runs([n \in 0 .. m |-> IF n = m THEN g[m - 1] + DaysIn(m - 1) ELSE g[n]], m)
    <2> DEFINE f == [n \in 0 .. m |-> IF n = m THEN g[m - 1] + DaysIn(m - 1) ELSE g[n]]
    <2>1. \A n \in 0 .. m - 1 :
             f[n] = g[n] /\ g[n] = IF n = 0 THEN 1 ELSE g[n - 1] + DaysIn(n - 1)
      BY <1>1
    <2>2. \A n \in 0 .. m : f[n] = IF n = 0 THEN 1 ELSE f[n - 1] + DaysIn(n - 1)
      <3> TAKE n \in 0 .. m
      <3>1. CASE n = m
        <4>1. m - 1 \in 0 .. m - 1 /\ m \in 0 .. m
          OBVIOUS
        <4>2. f[m] = g[m - 1] + DaysIn(m - 1)
          BY <4>1
        <4>3. f[m - 1] = g[m - 1]
          BY <2>1, <4>1
        <4> HIDE DEF f
        <4> QED
          BY <3>1, <4>2, <4>3
      <3>2. CASE n # m
        <4>1. n \in 0 .. m - 1 /\ (n # 0 => n - 1 \in 0 .. m - 1)
          BY <3>2
        <4> QED
          BY <2>1, <4>1
      <3> QED
        BY <3>1, <3>2
    <2>3. f = [n \in 0 .. m |-> f[n]]
      OBVIOUS
    <2> HIDE DEF f
    <2>4. Runs(f, m)
      BY <2>2, <2>3
    <2> QED
      BY <2>4 DEF f
  <1>2. ASSUME Unrun # {}
        PROVE  FALSE
    <2>1. Least(Unrun)
      BY <1>2, LeastExists
    <2>2. PICK m \in Unrun : \A k \in Unrun : m <= k
      BY <2>1 DEF Least
    <2>3. m # 0
      <3>1. Runs([n \in 0 .. 0 |-> 1], 0)
        OBVIOUS
      <3> QED
        BY <2>2, <3>1
    <2>4. m \in Nat \ {0} /\ m - 1 \in Nat /\ m - 1 \notin Unrun
      <3>1. m \in Nat
        OBVIOUS
      <3> HIDE DEF Unrun
      <3> QED
        BY <2>2, <2>3, <3>1
    <2>5. PICK g : Runs(g, m - 1)
      BY <2>4
    <2>6. \E f : Runs(f, m)
      <3> HIDE DEF Runs
      <3> QED
        BY <1>1, <2>4, <2>5
    <2> QED
      BY <2>2, <2>6
  <1>3. ASSUME NEW m \in Nat, NEW f, NEW g, Runs(f, m), Runs(g, m)
        PROVE  f = g
    <2> DEFINE Off == {n \in 0 .. m : f[n] # g[n]}
    <2>1. ASSUME Off # {}
          PROVE  FALSE
      <3>1. Least(Off)
        BY <2>1, LeastExists
      <3>2. PICK n \in Off : \A k \in Off : n <= k
        BY <3>1 DEF Least
      <3>3. CASE n = 0
        BY <1>3, <3>2, <3>3
      <3>4. CASE n # 0
        <4>1. n - 1 \in 0 .. m /\ n - 1 \notin Off
          BY <3>2, <3>4
        <4>2. f[n] = f[n - 1] + DaysIn(n - 1) /\ g[n] = g[n - 1] + DaysIn(n - 1)
          BY <1>3, <3>2, <3>4
        <4> QED
          BY <3>2, <4>1, <4>2
      <3> QED
        BY <3>3, <3>4
    <2>2. \A n \in 0 .. m : f[n] = g[n]
      BY <2>1
    <2>3. f = [n \in 0 .. m |-> f[n]] /\ g = [n \in 0 .. m |-> g[n]]
      BY <1>3
    <2> HIDE DEF Off
    <2> QED
      BY <2>2, <2>3
  <1>4. \A m \in Nat : Runs(Run(m), m)
    <2> HIDE DEF Runs
    <2> QED
      BY <1>2
  <1> HIDE DEF Run
  <1>5. F[0] = 1
    <2>1. Run(0) = [n \in 0 .. 0 |-> IF n = 0 THEN 1 ELSE Run(0)[n - 1] + DaysIn(n - 1)]
      BY <1>4
    <2> QED
      BY <2>1
  <1>6. ASSUME NEW m \in Nat \ {0}
        PROVE  F[m] = F[m - 1] + DaysIn(m - 1)
    <2> DEFINE g == Run(m - 1)
               h == [n \in 0 .. m |-> IF n = m THEN g[m - 1] + DaysIn(m - 1) ELSE g[n]]
    <2>1. m - 1 \in Nat /\ Runs(g, m - 1)
      BY <1>4
    <2>2. Runs(h, m)
      BY <1>1, <2>1
    <2>3. Runs(Run(m), m)
      BY <1>4
    <2>4. h[m] = g[m - 1] + DaysIn(m - 1)
      OBVIOUS
    <2> HIDE DEF Runs, h
    <2>5. h = Run(m)
      BY <1>3, <2>2, <2>3
    <2> QED
      BY <2>1, <2>4, <2>5
  <1>7. F = [m \in Nat |-> IF m = 0 THEN 1 ELSE F[m - 1] + DaysIn(m - 1)]
    <2>1. F = [m \in Nat |-> F[m]]
      OBVIOUS
    <2> HIDE DEF F
    <2> QED
      BY <1>5, <1>6, <2>1
  <1> HIDE DEF F
  <1> QED
    BY <1>7 DEF FirstDay

LEMMA FirstDayNext ==
    /\ FirstDay[0] = 1
    /\ \A m \in Nat : FirstDay[m + 1] = FirstDay[m] + DaysIn(m)
  <1>1. \A m \in Nat : m + 1 \in Nat /\ m + 1 # 0 /\ (m + 1) - 1 = m
    OBVIOUS
  <1> QED
    BY <1>1, FirstDayDef

LEMMA FirstDayGrows ==
    \A m \in Nat : FirstDay[m] \in Nat /\ FirstDay[m] > m
  <1> DEFINE T == {m \in Nat : ~ (FirstDay[m] \in Nat /\ FirstDay[m] > m)}
  <1>1. ASSUME T # {}
        PROVE  FALSE
    <2>0. Least(T)
      BY <1>1, LeastExists
    <2>1. PICK m \in T : \A k \in T : m <= k
      BY <2>0 DEF Least
    <2>2. m # 0
      BY <2>1, FirstDayNext
    <2>3. m - 1 \in Nat /\ m - 1 \notin T
      BY <2>1, <2>2
    <2>4. FirstDay[(m - 1) + 1] = FirstDay[m - 1] + DaysIn(m - 1)
      BY <2>3, FirstDayNext
    <2>5. DaysIn(m - 1) \in 28 .. 31
      BY <2>3, MonthLength
    <2> QED
      BY <2>1, <2>3, <2>4, <2>5
  <1> QED
    BY <1>1

(* Months follow each other.                                               *)
LEMMA MonthsFollow ==
    ASSUME NEW m \in Nat, NEW n \in Nat, m < n
    PROVE  FirstDay[m + 1] <= FirstDay[n]
  <1> DEFINE T == {k \in Nat : m < k /\ ~ (FirstDay[m + 1] <= FirstDay[k])}
  <1>1. ASSUME T # {}
        PROVE  FALSE
    <2>0. Least(T)
      BY <1>1, LeastExists
    <2>1. PICK k \in T : \A j \in T : k <= j
      BY <2>0 DEF Least
    <2>2. k # m + 1
      BY <2>1, FirstDayGrows
    <2>3. k - 1 \in Nat /\ m < k - 1 /\ k - 1 \notin T
      BY <2>1, <2>2
    <2>4. FirstDay[(k - 1) + 1] = FirstDay[k - 1] + DaysIn(k - 1)
      BY <2>3, FirstDayNext
    <2>5. DaysIn(k - 1) \in 28 .. 31
      BY <2>3, MonthLength
    <2>6. FirstDay[m + 1] \in Nat /\ FirstDay[k - 1] \in Nat /\ FirstDay[m + 1] <= FirstDay[k - 1]
      BY <2>3, FirstDayGrows
    <2> QED
      BY <2>1, <2>3, <2>4, <2>5, <2>6
  <1> QED
    BY <1>1

(* Every day lies in one month.                                            *)
LEMMA MonthOfDay ==
    ASSUME NEW d \in Nat \ {0}
    PROVE  /\ MonthOf(d) \in Nat
           /\ FirstDay[MonthOf(d)] <= d /\ d < FirstDay[MonthOf(d) + 1]
           /\ \A m \in Nat : FirstDay[m] <= d /\ d < FirstDay[m + 1] => m = MonthOf(d)
  <1> DEFINE In(m) == FirstDay[m] <= d /\ d < FirstDay[m + 1]
             T == {m \in Nat : d < FirstDay[m + 1]}
  <1>1. T # {}
    <2>1. d \in Nat /\ d + 1 \in Nat
      OBVIOUS
    <2>2. FirstDay[d + 1] \in Nat /\ FirstDay[d + 1] > d + 1
      BY <2>1, FirstDayGrows
    <2>3. d \in T
      BY <2>1, <2>2
    <2> QED
      BY <2>3
  <1>0. Least(T)
    BY <1>1, LeastExists
  <1>2. PICK m \in T : \A k \in T : m <= k
    BY <1>0 DEF Least
  <1>3. FirstDay[m] <= d
    <2>1. CASE m = 0
      BY <2>1, FirstDayNext
    <2>2. CASE m # 0
      <3>1. m - 1 \in Nat /\ m - 1 \notin T /\ (m - 1) + 1 = m
        BY <1>2, <2>2
      <3>2. FirstDay[m] \in Nat
        BY <1>2, FirstDayGrows
      <3> QED
        BY <3>1, <3>2
    <2> QED
      BY <2>1, <2>2
  <1>4. m \in 0 .. d
    <2>1. FirstDay[m] \in Nat /\ m < FirstDay[m]
      BY <1>2, FirstDayGrows
    <2> QED
      BY <1>2, <1>3, <2>1
  <1>5. MonthOf(d) \in 0 .. d /\ In(MonthOf(d))
    BY <1>2, <1>3, <1>4 DEF MonthOf
  <1>6. ASSUME NEW k \in Nat, NEW l \in Nat, In(k), In(l), k < l
        PROVE  FALSE
    <2>1. FirstDay[k + 1] <= FirstDay[l] /\ FirstDay[k + 1] \in Nat /\ FirstDay[l] \in Nat
      BY <1>6, MonthsFollow, FirstDayGrows
    <2> QED
      BY <1>6, <2>1
  <1>7. \A k \in Nat : In(k) => k = MonthOf(d)
    <2> SUFFICES ASSUME NEW k \in Nat, In(k), k # MonthOf(d)
                 PROVE  FALSE
      OBVIOUS
    <2>1. k < MonthOf(d) \/ MonthOf(d) < k
      BY <1>5
    <2> QED
      BY <1>5, <1>6, <2>1
  <1> QED
    BY <1>5, <1>7

----------------------------------------------------------------------------
(* Sets listed in order                                                    *)

(* q lists the days of S in order, each once.                              *)
Rising(q) == \A k, l \in DOMAIN q : k < l => q[k] < q[l]
ListsInOrder(q, S) ==
    /\ q \in Seq(Int)
    /\ Rising(q)
    /\ \A k \in DOMAIN q : q[k] \in S
    /\ \A x \in S : \E k \in DOMAIN q : q[k] = x

UpTo(S, x) == {y \in S : y <= x}

LEMMA UpToGrows ==
    ASSUME NEW S \in SUBSET Int, IsFiniteSet(S), NEW x \in S
    PROVE  /\ Cardinality(UpTo(S, x)) \in 1 .. Cardinality(S)
           /\ \A y \in S : x < y => Cardinality(UpTo(S, x)) < Cardinality(UpTo(S, y))
  <1>1. \A y \in S : /\ IsFiniteSet(UpTo(S, y)) /\ Cardinality(UpTo(S, y)) \in Nat
                     /\ Cardinality(UpTo(S, y)) <= Cardinality(S)
    <2> TAKE y \in S
    <2>1. UpTo(S, y) \in SUBSET S
      BY DEF UpTo
    <2> QED
      BY <2>1, FS_Subset, FS_CardinalityType
  <1>2. Cardinality(UpTo(S, x)) # 0
    <2>1. x \in UpTo(S, x)
      BY DEF UpTo
    <2> QED
      BY <1>1, <2>1, FS_EmptySet
  <1>3. ASSUME NEW y \in S, x < y
        PROVE  Cardinality(UpTo(S, x)) < Cardinality(UpTo(S, y))
    <2>0. x \in Int /\ y \in Int /\ \A z \in S : z \in Int
      OBVIOUS
    <2>1. UpTo(S, x) \in SUBSET UpTo(S, y)
      <3>1. \A z \in S : z <= x => z <= y
        BY <1>3, <2>0
      <3> QED
        BY <3>1 DEF UpTo
    <2>2. y \in UpTo(S, y) /\ y \notin UpTo(S, x)
      BY <1>3, <2>0 DEF UpTo
    <2>3. IsFiniteSet(UpTo(S, y)) /\ Cardinality(UpTo(S, x)) \in Nat /\ Cardinality(UpTo(S, y)) \in Nat
      BY <1>1
    <2> QED
      BY <2>1, <2>2, <2>3, FS_Subset
  <1>4. Cardinality(S) \in Nat
    BY FS_CardinalityType
  <1> QED
    BY <1>1, <1>2, <1>3, <1>4

(* Ascending lists a finite set of days.                                   *)
LEMMA AscendingLists ==
    ASSUME NEW S \in SUBSET Int, IsFiniteSet(S)
    PROVE  ListsInOrder(Ascending(S), S)
  <1> DEFINE n == Cardinality(S)
             rank == [x \in S |-> Cardinality(UpTo(S, x))]
             q == Ascending(S)
  <1>1. n \in Nat
    BY FS_CardinalityType
  <1>2. \A x \in S : /\ rank[x] \in 1 .. n
                     /\ \A y \in S : x < y => rank[x] < rank[y]
    BY UpToGrows
  <1>3. q = [i \in 1 .. n |-> CHOOSE x \in S : Cardinality(UpTo(S, x)) = i]
    BY DEF Ascending, UpTo
  <1>0. \A x \in S : rank[x] = Cardinality(UpTo(S, x))
    OBVIOUS
  <1> HIDE DEF q, n
  <1>4. rank \in Injection(S, 1 .. n)
    <2>1. rank \in [S -> 1 .. n]
      BY <1>2
    <2>2. \A x, y \in S : rank[x] = rank[y] => x = y
      <3> TAKE x, y \in S
      <3>1. x \in Int /\ y \in Int /\ rank[x] \in 1 .. n /\ rank[y] \in 1 .. n
        BY <1>2
      <3>2. x < y => rank[x] < rank[y]
        BY <1>2
      <3>3. y < x => rank[y] < rank[x]
        BY <1>2
      <3> HIDE DEF rank
      <3> QED
        BY <1>1, <3>1, <3>2, <3>3
    <2> QED
      BY <2>1, <2>2 DEF Injection, IsInjective
  <1>5. IsFiniteSet(1 .. n) /\ Cardinality(1 .. n) = n
    BY <1>1, FS_Interval
  <1>6. rank \in Surjection(S, 1 .. n)
    BY <1>4, <1>5, FS_Injection DEF n
  <1> HIDE DEF rank
  <1>7. ASSUME NEW i \in 1 .. n
        PROVE  q[i] \in S /\ rank[q[i]] = i
    <2>1. PICK x \in S : rank[x] = i
      BY <1>6 DEF Surjection
    <2>2. Cardinality(UpTo(S, x)) = i
      BY <2>1, <1>0
    <2>3. q[i] \in S /\ Cardinality(UpTo(S, q[i])) = i
      BY <1>3, <2>2
    <2> QED
      BY <1>0, <2>3
  <1>8. DOMAIN q = 1 .. n
    BY <1>3
  <1>9. q \in Seq(Int)
    <2>1. q = [i \in 1 .. n |-> q[i]]
      BY <1>3
    <2>2. \A i \in 1 .. n : q[i] \in Int
      BY <1>7
    <2> QED
      BY <1>1, <2>1, <2>2
  <1>10. Rising(q)
    <2> SUFFICES ASSUME NEW k \in 1 .. n, NEW l \in 1 .. n, k < l
                 PROVE  q[k] < q[l]
      BY <1>8 DEF Rising
    <2>1. q[k] \in S /\ q[l] \in S /\ rank[q[k]] = k /\ rank[q[l]] = l
      BY <1>7
    <2>2. k \in Int /\ l \in Int
      BY <1>1
    <2>3. q[k] \in Int /\ q[l] \in Int
      BY <2>1
    <2>4. q[l] < q[k] => rank[q[l]] < rank[q[k]]
      BY <1>2, <2>1
    <2>5. q[l] # q[k]
      BY <2>1, <2>2
    <2> QED
      BY <2>1, <2>2, <2>3, <2>4, <2>5
  <1>11. ASSUME NEW x \in S
         PROVE  \E k \in DOMAIN q : q[k] = x
    <2>1. rank[x] \in 1 .. n
      BY <1>2
    <2>2. q[rank[x]] \in S /\ rank[q[rank[x]]] = rank[x]
      BY <1>7, <2>1
    <2>3. q[rank[x]] = x
      BY <1>4, <2>2 DEF Injection, IsInjective
    <2> QED
      BY <1>8, <2>1, <2>3
  <1> QED
    BY <1>7, <1>8, <1>9, <1>10, <1>11 DEF ListsInOrder, q

(* A list of one day.                                                      *)
LEMMA OneDayLists ==
    ASSUME NEW x \in Int
    PROVE  ListsInOrder(<<x>>, {x})
  BY DEF ListsInOrder, Rising

----------------------------------------------------------------------------
(* Multiples of an interval                                                *)

LEMMA MultipleFollows ==
    ASSUME NEW p \in Nat, NEW k \in Nat
    PROVE  p * k \in Nat /\ (p + 1) * k = p * k + k
  OBVIOUS

(* The one multiple of k between two neighbours.                           *)
LEMMA MultipleBetween ==
    ASSUME NEW k \in Nat \ {0}, NEW p \in Nat, NEW n \in Nat, p * k <= n, n < p * k + k
    PROVE  n % k = 0 <=> n = p * k
  <1>1. n = k * (n \div k) + (n % k) /\ n % k \in 0 .. k - 1 /\ n \div k \in Int
    OBVIOUS
  <1>2. ASSUME NEW q \in Int, p * k <= k * q + (n % k), k * q + (n % k) < p * k + k
        PROVE  q = p
    <2>1. n % k \in Int /\ 0 <= n % k /\ n % k < k
      BY <1>1
    <2>2. p * k \in Int /\ q * k \in Int /\ k * q = q * k
      OBVIOUS
    <2>3. ASSUME NEW a \in Int, NEW b \in Int, a < b
          PROVE  a * k + k <= b * k
      <3>1. PICK c \in Nat : b = a + 1 + c
        <4>1. b - a - 1 \in Nat /\ b = a + 1 + (b - a - 1)
          BY <2>3
        <4> QED
          BY <4>1
      <3>2. b * k = a * k + k + c * k /\ c * k \in Nat /\ a * k \in Int
        BY <3>1
      <3> QED
        BY <3>2
    <2>4. ~ (q < p)
      <3> SUFFICES ASSUME q < p PROVE FALSE
        OBVIOUS
      <3>1. q * k + k <= p * k
        BY <2>3
      <3> QED
        BY <1>2, <2>1, <2>2, <3>1
    <2>5. ~ (p < q)
      <3> SUFFICES ASSUME p < q PROVE FALSE
        OBVIOUS
      <3>1. p * k + k <= q * k
        BY <2>3
      <3> QED
        BY <1>2, <2>1, <2>2, <3>1
    <2> QED
      BY <2>4, <2>5
  <1>3. n \div k = p
    BY <1>1, <1>2
  <1>4. k * p = p * k
    OBVIOUS
  <1> QED
    BY <1>1, <1>3, <1>4

----------------------------------------------------------------------------
(* Days of a month                                                         *)

(* d is a day of month m.                                                  *)
InMonth(d, m) == FirstDay[m] <= d /\ d < FirstDay[m + 1]

LEMMA MonthSpan ==
    ASSUME NEW m \in Nat, NEW d \in Int, InMonth(d, m)
    PROVE  /\ d \in Nat \ {0} /\ MonthOf(d) = m
           /\ FirstDay[m] \in Nat \ {0} /\ DaysIn(m) \in 28 .. 31
           /\ FirstDay[m + 1] = FirstDay[m] + DaysIn(m)
           /\ d - FirstDay[m] + 1 \in 1 .. DaysIn(m)
  <1>1. FirstDay[m] \in Nat /\ FirstDay[m] > m
    BY FirstDayGrows
  <1>2. DaysIn(m) \in 28 .. 31 /\ FirstDay[m + 1] = FirstDay[m] + DaysIn(m)
    BY FirstDayNext, MonthLength
  <1>3. d \in Nat \ {0}
    BY <1>1 DEF InMonth
  <1>4. MonthOf(d) = m
    BY <1>3, MonthOfDay DEF InMonth
  <1> QED
    BY <1>1, <1>2, <1>3, <1>4 DEF InMonth

LEMMA OnDateMatches ==
    ASSUME NEW m \in Nat, NEW d \in Int, InMonth(d, m), NEW e \in -31 .. 31
    PROVE  d - FirstDay[m] + 1 \in OnDate(e, DaysIn(m)) <=> DateMatches(e, d)
  <1>1. /\ MonthOf(d) = m /\ FirstDay[m] \in Nat \ {0} /\ DaysIn(m) \in 28 .. 31
        /\ FirstDay[m + 1] = FirstDay[m] + DaysIn(m)
        /\ d - FirstDay[m] + 1 \in 1 .. DaysIn(m)
    BY MonthSpan
  <1> DEFINE f == FirstDay[m]
             n == DaysIn(m)
  <1>2. DateMatches(e, d) <=> (e > 0 /\ d = f + e - 1) \/ (e < 0 /\ d = f + n + e)
    BY <1>1 DEF DateMatches
  <1>3. d - f + 1 \in OnDate(e, n) <=> d - f + 1 = IF e < 0 THEN n + 1 + e ELSE e
    BY <1>1 DEF OnDate
  <1>4. f \in Nat /\ n \in Nat /\ d - f + 1 >= 1
    BY <1>1
  <1> HIDE DEF f, n
  <1>5. (d - f + 1 = IF e < 0 THEN n + 1 + e ELSE e)
           <=> (e > 0 /\ d = f + e - 1) \/ (e < 0 /\ d = f + n + e)
    BY <1>4
  <1> QED
    BY <1>2, <1>3, <1>5 DEF f, n

LEMMA SevensCount ==
    ASSUME NEW a \in Int, NEW j \in Nat
    PROVE  Cardinality({x \in a .. a + 7 * j : (x - a) % 7 = 0}) = j + 1
  <1> DEFINE S == {x \in a .. a + 7 * j : (x - a) % 7 = 0}
             f == [i \in 0 .. j |-> a + 7 * i]
  <1>1. IsFiniteSet(0 .. j) /\ Cardinality(0 .. j) = j + 1
    BY FS_Interval
  <1>2. f \in [0 .. j -> S]
    <2>1. ASSUME NEW i \in 0 .. j
          PROVE  a + 7 * i \in S
      OBVIOUS
    <2> HIDE DEF S
    <2> QED
      BY <2>1
  <1>3. \A i, k \in 0 .. j : f[i] = f[k] => i = k
    OBVIOUS
  <1>4. ASSUME NEW x \in S
        PROVE  \E i \in 0 .. j : f[i] = x
    <2>1. (x - a) \div 7 \in 0 .. j /\ x = a + 7 * ((x - a) \div 7)
      OBVIOUS
    <2> HIDE DEF S
    <2> QED
      BY <2>1
  <1> HIDE DEF S, f
  <1>5. f \in Bijection(0 .. j, S)
    BY <1>2, <1>3, <1>4 DEF Bijection, Injection, Surjection, IsInjective
  <1>6. Cardinality(S) = j + 1
    BY <1>1, <1>5, FS_Bijection DEF ExistsBijection
  <1> QED
    BY <1>6 DEF S

(* Where the weekday w first and last falls in a month.                    *)
FirstOn(m, w) == 1 + ((w - Weekday(FirstDay[m])) % 7)
LastOn(m, w) == DaysIn(m) - ((Weekday(FirstDay[m] + DaysIn(m) - 1) - w) % 7)

LEMMA Sevens ==
    /\ \A x \in Int : x % 7 \in 0 .. 6 /\ \E q \in Int : x = 7 * q + (x % 7)
    /\ \A q \in Int : \A r \in 0 .. 6 : (7 * q + r) % 7 = r
  <1>1. ASSUME NEW x \in Int
        PROVE  x % 7 \in 0 .. 6 /\ \E q \in Int : x = 7 * q + (x % 7)
    <2>1. x % 7 \in 0 .. 6 /\ x \div 7 \in Int /\ x = 7 * (x \div 7) + (x % 7)
      OBVIOUS
    <2> QED
      BY <2>1
  <1>2. ASSUME NEW q \in Int, NEW r \in 0 .. 6
        PROVE  (7 * q + r) % 7 = r
    OBVIOUS
  <1> QED
    BY <1>1, <1>2

(* Counting weekdays on from a day, and back from one.                     *)
LEMMA WeekdayFrom ==
    ASSUME NEW a \in Int, NEW w \in 0 .. 6, NEW k \in Int, k >= 1
    PROVE  (a + k - 1) % 7 = w <=>
              k >= 1 + ((w - (a % 7)) % 7) /\ (k - (1 + ((w - (a % 7)) % 7))) % 7 = 0
  <1>1. PICK qa \in Int, u \in 0 .. 6 : a = 7 * qa + u /\ a % 7 = u
    BY Sevens
  <1>2. PICK qv \in Int, v \in 0 .. 6 : w - u = 7 * qv + v /\ (w - u) % 7 = v
    <2>1. w - u \in Int
      OBVIOUS
    <2> QED
      BY <2>1, Sevens
  <1>3. ASSUME (a + k - 1) % 7 = w
        PROVE  k >= 1 + v /\ (k - (1 + v)) % 7 = 0
    <2>1. PICK q \in Int : a + k - 1 = 7 * q + w
      <3>1. a + k - 1 \in Int
        OBVIOUS
      <3> QED
        BY <1>3, <3>1, Sevens
    <2>2. k - (1 + v) = 7 * (q - qa + qv) + 0 /\ q - qa + qv \in Int
      BY <1>1, <1>2, <2>1
    <2>3. (7 * (q - qa + qv) + 0) % 7 = 0
      BY <2>2, Sevens
    <2> QED
      BY <2>2, <2>3
  <1>4. ASSUME (k - (1 + v)) % 7 = 0
        PROVE  (a + k - 1) % 7 = w
    <2>1. PICK t \in Int : k - (1 + v) = 7 * t + 0
      <3>1. k - (1 + v) \in Int
        OBVIOUS
      <3> QED
        BY <1>4, <3>1, Sevens
    <2>2. a + k - 1 = 7 * (qa + t - qv) + w /\ qa + t - qv \in Int
      BY <1>1, <1>2, <2>1
    <2>3. (7 * (qa + t - qv) + w) % 7 = w
      BY <2>2, Sevens
    <2> QED
      BY <2>2, <2>3
  <1> QED
    BY <1>1, <1>2, <1>3, <1>4

LEMMA WeekdayTo ==
    ASSUME NEW a \in Int, NEW w \in 0 .. 6, NEW k \in Int, NEW n \in Int, k <= n
    PROVE  (a + k - 1) % 7 = w <=>
              /\ k <= n - ((((a + n - 1) % 7) - w) % 7)
              /\ (n - ((((a + n - 1) % 7) - w) % 7) - k) % 7 = 0
  <1>1. PICK qa \in Int, u \in 0 .. 6 : a + n - 1 = 7 * qa + u /\ (a + n - 1) % 7 = u
    <2>1. a + n - 1 \in Int
      OBVIOUS
    <2> QED
      BY <2>1, Sevens
  <1>2. PICK qv \in Int, v \in 0 .. 6 : u - w = 7 * qv + v /\ (u - w) % 7 = v
    <2>1. u - w \in Int
      OBVIOUS
    <2> QED
      BY <2>1, Sevens
  <1>3. ASSUME (a + k - 1) % 7 = w
        PROVE  k <= n - v /\ (n - v - k) % 7 = 0
    <2>1. PICK q \in Int : a + k - 1 = 7 * q + w
      <3>1. a + k - 1 \in Int
        OBVIOUS
      <3> QED
        BY <1>3, <3>1, Sevens
    <2>2. n - v - k = 7 * (qa - q + qv) + 0 /\ qa - q + qv \in Int
      BY <1>1, <1>2, <2>1
    <2>3. (7 * (qa - q + qv) + 0) % 7 = 0
      BY <2>2, Sevens
    <2> QED
      BY <2>2, <2>3
  <1>4. ASSUME (n - v - k) % 7 = 0
        PROVE  (a + k - 1) % 7 = w
    <2>1. PICK t \in Int : n - v - k = 7 * t + 0
      <3>1. n - v - k \in Int
        OBVIOUS
      <3> QED
        BY <1>4, <3>1, Sevens
    <2>2. a + k - 1 = 7 * (qa - t + qv) + w /\ qa - t + qv \in Int
      BY <1>1, <1>2, <2>1
    <2>3. (7 * (qa - t + qv) + w) % 7 = w
      BY <2>2, Sevens
    <2> QED
      BY <2>2, <2>3
  <1> QED
    BY <1>1, <1>2, <1>3, <1>4

LEMMA WeekdayInMonth ==
    ASSUME NEW m \in Nat, NEW d \in Int, InMonth(d, m), NEW w \in 0 .. 6,
           NEW k \in Int, k = d - FirstDay[m] + 1
    PROVE  /\ FirstOn(m, w) \in 1 .. 7 /\ LastOn(m, w) \in Int
           /\ LastOn(m, w) <= DaysIn(m) /\ LastOn(m, w) >= 1
           /\ Weekday(d) = w <=> k >= FirstOn(m, w) /\ (k - FirstOn(m, w)) % 7 = 0
           /\ Weekday(d) = w <=> k <= LastOn(m, w) /\ (LastOn(m, w) - k) % 7 = 0
  <1>1. /\ FirstDay[m] \in Nat \ {0} /\ DaysIn(m) \in 28 .. 31
        /\ k \in 1 .. DaysIn(m)
    BY MonthSpan
  <1> DEFINE f == FirstDay[m]
             n == DaysIn(m)
  <1>2. f \in Nat \ {0} /\ n \in 28 .. 31 /\ k \in 1 .. n /\ d = f + k - 1 /\ FirstWeekday \in 0 .. 6
    BY <1>1, CalendarAssumption
  <1>3. /\ FirstOn(m, w) = 1 + ((w - ((FirstWeekday + f - 1) % 7)) % 7)
        /\ LastOn(m, w) = n - ((((FirstWeekday + (f + n - 1) - 1) % 7) - w) % 7)
        /\ Weekday(d) = (FirstWeekday + d - 1) % 7
    BY DEF FirstOn, LastOn, Weekday
  <1> HIDE DEF f, n
  <1>4. FirstOn(m, w) \in 1 .. 7 /\ LastOn(m, w) \in Int /\ LastOn(m, w) <= n /\ LastOn(m, w) >= 1
    BY <1>2, <1>3
  <1> DEFINE a == FirstWeekday + f - 1
  <1>5. /\ a \in Int /\ FirstOn(m, w) = 1 + ((w - (a % 7)) % 7)
        /\ Weekday(d) = (a + k - 1) % 7
        /\ LastOn(m, w) = n - ((((a + n - 1) % 7) - w) % 7)
    <2>1. /\ FirstWeekday + d - 1 = a + k - 1
          /\ FirstWeekday + (f + n - 1) - 1 = a + n - 1
          /\ a \in Int
      BY <1>2
    <2> QED
      BY <1>3, <2>1
  <1> HIDE DEF a
  <1>6. Weekday(d) = w <=> k >= FirstOn(m, w) /\ (k - FirstOn(m, w)) % 7 = 0
    <2>1. k \in Int /\ k >= 1
      BY <1>2
    <2>2. (a + k - 1) % 7 = w <=>
              k >= 1 + ((w - (a % 7)) % 7) /\ (k - (1 + ((w - (a % 7)) % 7))) % 7 = 0
      BY <1>5, <2>1, WeekdayFrom
    <2> QED
      BY <1>5, <2>2, Zenon
  <1>7. Weekday(d) = w <=> k <= LastOn(m, w) /\ (LastOn(m, w) - k) % 7 = 0
    <2>1. k \in Int /\ n \in Int /\ k <= n
      BY <1>2
    <2>2. (a + k - 1) % 7 = w <=>
              /\ k <= n - ((((a + n - 1) % 7) - w) % 7)
              /\ (n - ((((a + n - 1) % 7) - w) % 7) - k) % 7 = 0
      BY <1>5, <2>1, WeekdayTo
    <2> QED
      BY <1>5, <2>2, Zenon
  <1> QED
    BY <1>4, <1>6, <1>7 DEF n

(* Which such weekday of its month a day is, from the first and from the   *)
(* last.                                                                   *)
LEMMA AlikeCounted ==
    ASSUME NEW m \in Nat, NEW d \in Int, InMonth(d, m), NEW w \in 0 .. 6, Weekday(d) = w,
           NEW k \in Int, k = d - FirstDay[m] + 1
    PROVE  \E i, j \in Nat :
              /\ k = FirstOn(m, w) + 7 * i /\ Cardinality({x \in Alike(d) : x <= d}) = i + 1
              /\ k = LastOn(m, w) - 7 * j /\ Cardinality({x \in Alike(d) : x >= d}) = j + 1
  <1> DEFINE f == FirstDay[m]
             n == DaysIn(m)
             first == FirstOn(m, w)
             last == LastOn(m, w)
  <1>1. /\ f \in Nat \ {0} /\ n \in 28 .. 31 /\ k \in 1 .. n /\ MonthOf(d) = m
        /\ FirstDay[m + 1] = f + n
    BY MonthSpan
  <1>2. /\ first \in 1 .. 7 /\ last \in Int /\ last <= n /\ last >= 1
        /\ k >= first /\ (k - first) % 7 = 0
        /\ k <= last /\ (last - k) % 7 = 0
    BY WeekdayInMonth
  <1>3. \A x \in f .. f + n - 1 :
           /\ Weekday(x) = w <=> x - f + 1 >= first /\ ((x - f + 1) - first) % 7 = 0
           /\ Weekday(x) = w <=> x - f + 1 <= last /\ (last - (x - f + 1)) % 7 = 0
    <2> SUFFICES ASSUME NEW x \in f .. f + n - 1
                 PROVE  /\ Weekday(x) = w <=> x - f + 1 >= first /\ ((x - f + 1) - first) % 7 = 0
                        /\ Weekday(x) = w <=> x - f + 1 <= last /\ (last - (x - f + 1)) % 7 = 0
      OBVIOUS
    <2>1. x \in Int /\ InMonth(x, m) /\ x - f + 1 \in Int
      BY <1>1 DEF InMonth
    <2>2. PICK l \in Int : l = x - FirstDay[m] + 1 /\ l = x - f + 1
      BY <2>1
    <2>3. /\ Weekday(x) = w <=> l >= first /\ (l - first) % 7 = 0
          /\ Weekday(x) = w <=> l <= last /\ (last - l) % 7 = 0
      BY <2>1, <2>2, WeekdayInMonth
    <2> QED
      BY <2>2, <2>3, Zenon
  <1>4. Alike(d) = {x \in f .. f + n - 1 : Weekday(x) = w}
    BY <1>1 DEF Alike
  <1> HIDE DEF f, n, first, last
  <1>5. PICK i \in Int : k - first = 7 * i + 0
    <2>1. k - first \in Int
      BY <1>2
    <2> QED
      BY <1>2, <2>1, Sevens
  <1>6. PICK j \in Int : last - k = 7 * j + 0
    <2>1. last - k \in Int
      BY <1>2
    <2> QED
      BY <1>2, <2>1, Sevens
  <1>7. /\ i \in Nat /\ j \in Nat /\ k = first + 7 * i /\ k = last - 7 * j
        /\ d = f + k - 1
    BY <1>1, <1>2, <1>5, <1>6 DEF f
  <1>8. Cardinality({x \in Alike(d) : x <= d}) = i + 1
    <2> DEFINE a == f + first - 1
    <2>1. a \in Int /\ d = a + 7 * i
      BY <1>1, <1>2, <1>7
    <2>2. ASSUME NEW x
          PROVE  x \in Alike(d) /\ x <= d <=> x \in a .. a + 7 * i /\ (x - a) % 7 = 0
      <3>1. x \in Alike(d) <=> x \in f .. f + n - 1 /\ x - f + 1 >= first /\ ((x - f + 1) - first) % 7 = 0
        BY <1>3, <1>4
      <3>2. x \in Int => (x - f + 1) - first = x - a
        BY <1>1, <1>2
      <3>3. x \in Alike(d) <=> x \in f .. f + n - 1 /\ x - f + 1 >= first /\ (x - a) % 7 = 0
        BY <3>1, <3>2
      <3>4. (x \in f .. f + n - 1 /\ x - f + 1 >= first /\ x <= d) <=> x \in a .. a + 7 * i
        BY <1>1, <1>2, <1>7
      <3> QED
        BY <3>3, <3>4
    <2>3. {x \in Alike(d) : x <= d} = {x \in a .. a + 7 * i : (x - a) % 7 = 0}
      BY <2>2
    <2> QED
      BY <1>7, <2>1, <2>3, SevensCount
  <1>9. Cardinality({x \in Alike(d) : x >= d}) = j + 1
    <2>1. d \in Int /\ d + 7 * j = f + last - 1
      BY <1>1, <1>2, <1>7
    <2>2. ASSUME NEW x
          PROVE  x \in Alike(d) /\ x >= d <=> x \in d .. d + 7 * j /\ (x - d) % 7 = 0
      <3>1. x \in Alike(d) <=> x \in f .. f + n - 1 /\ x - f + 1 >= first /\ ((x - f + 1) - first) % 7 = 0
        BY <1>3, <1>4
      <3>2. x \in Alike(d) <=> x \in f .. f + n - 1 /\ x - f + 1 <= last /\ (last - (x - f + 1)) % 7 = 0
        BY <1>3, <1>4
      <3>3. ASSUME x \in f .. f + n - 1, x >= d
            PROVE  ((x - f + 1) - first) % 7 = 0 <=> (x - d) % 7 = 0
        <4>1. (x - f + 1) - first = (x - d) + 7 * i
          BY <1>1, <1>2, <1>7, <3>3
        <4>2. PICK q \in Int, r \in 0 .. 6 : x - d = 7 * q + r /\ (x - d) % 7 = r
          <5>1. x - d \in Int
            BY <1>1, <3>3
          <5> QED
            BY <5>1, Sevens
        <4>3. (x - d) + 7 * i = 7 * (q + i) + r /\ q + i \in Int
          BY <1>7, <4>2
        <4>4. (7 * (q + i) + r) % 7 = r
          BY <4>3, Sevens
        <4> QED
          BY <4>1, <4>2, <4>3, <4>4
      <3>4. x \in f .. f + n - 1 /\ x >= d => x - f + 1 >= first
        BY <1>1, <1>2, <1>7
      <3>5. x \in f .. f + n - 1 /\ x - f + 1 <= last /\ x >= d <=> x \in d .. d + 7 * j
        BY <1>1, <1>2, <1>7, <2>1
      <3> QED
        BY <3>1, <3>2, <3>3, <3>4, <3>5
    <2>3. {x \in Alike(d) : x >= d} = {x \in d .. d + 7 * j : (x - d) % 7 = 0}
      BY <2>2
    <2> QED
      BY <1>7, <2>1, <2>3, SevensCount
  <1> QED
    BY <1>7, <1>8, <1>9 DEF first, last

LEMMA OnWeekdayMatches ==
    ASSUME NEW m \in Nat, NEW d \in Int, InMonth(d, m), NEW e \in ByDay
    PROVE  d - FirstDay[m] + 1 \in OnWeekday(e, m) <=> DayMatches(e, d)
  <1> DEFINE k == d - FirstDay[m] + 1
             w == e.weekday
             before == Cardinality({x \in Alike(d) : x <= d})
             after == Cardinality({x \in Alike(d) : x >= d})
  <1>1. w \in 0 .. 6 /\ e.ord \in -5 .. 5 /\ w \in Int
    BY DEF ByDay
  <1>2. /\ k \in 1 .. DaysIn(m) /\ k \in Int /\ DaysIn(m) \in Nat
    BY MonthSpan
  <1>3. /\ FirstOn(m, w) \in Int /\ LastOn(m, w) \in Int
        /\ Weekday(d) = w <=> k >= FirstOn(m, w) /\ (k - FirstOn(m, w)) % 7 = 0
        /\ Weekday(d) = w <=> k <= LastOn(m, w) /\ (LastOn(m, w) - k) % 7 = 0
    BY <1>1, <1>2, WeekdayInMonth
  <1>4. k \in OnWeekday(e, m) <=>
           IF e.ord = 0 THEN k >= FirstOn(m, w) /\ (k - FirstOn(m, w)) % 7 = 0
           ELSE IF e.ord > 0 THEN k = FirstOn(m, w) + (e.ord - 1) * 7
           ELSE k = LastOn(m, w) + (e.ord + 1) * 7
    BY <1>2 DEF OnWeekday, FirstOn, LastOn
  <1>5. DayMatches(e, d) <=>
           Weekday(d) = w /\ (e.ord = 0 \/ e.ord = before \/ -e.ord = after)
    BY DEF DayMatches
  <1>6. Weekday(d) = w => \E i, j \in Nat :
              /\ k = FirstOn(m, w) + 7 * i /\ before = i + 1
              /\ k = LastOn(m, w) - 7 * j /\ after = j + 1
    BY <1>1, <1>2, AlikeCounted
  <1> HIDE DEF k, w, before, after
  <1>7. ASSUME NEW i \in Int, i >= 0
        PROVE  /\ k = FirstOn(m, w) + 7 * i => Weekday(d) = w
               /\ k = LastOn(m, w) - 7 * i => Weekday(d) = w
    <2>1. 7 * i + 0 = 7 * i /\ (7 * i + 0) % 7 = 0
      BY Sevens
    <2>2. ASSUME k = FirstOn(m, w) + 7 * i
          PROVE  Weekday(d) = w
      <3>1. k - FirstOn(m, w) = 7 * i /\ k >= FirstOn(m, w)
        BY <1>2, <1>3, <1>7, <2>2
      <3> QED
        BY <1>3, <2>1, <3>1
    <2>3. ASSUME k = LastOn(m, w) - 7 * i
          PROVE  Weekday(d) = w
      <3>1. LastOn(m, w) - k = 7 * i /\ k <= LastOn(m, w)
        BY <1>2, <1>3, <1>7, <2>3
      <3> QED
        BY <1>3, <2>1, <3>1
    <2> QED
      BY <2>2, <2>3
  <1>8. CASE e.ord = 0
    BY <1>3, <1>4, <1>5, <1>8 DEF k
  <1>9. CASE e.ord > 0
    <2>1. k \in OnWeekday(e, m) <=> k = FirstOn(m, w) + 7 * (e.ord - 1)
      BY <1>1, <1>3, <1>4, <1>9
    <2>2. k \in OnWeekday(e, m) => Weekday(d) = w
      <3>1. e.ord - 1 \in Int /\ e.ord - 1 >= 0
        BY <1>1, <1>9
      <3> QED
        BY <1>7, <2>1, <3>1
    <2>3. ASSUME Weekday(d) = w
          PROVE  k \in OnWeekday(e, m) <=> DayMatches(e, d)
      <3>1. PICK i, j \in Nat : /\ k = FirstOn(m, w) + 7 * i /\ before = i + 1
                                /\ after = j + 1
        BY <1>6, <2>3
      <3>2. k = FirstOn(m, w) + 7 * (e.ord - 1) <=> e.ord = before
        BY <1>1, <1>3, <3>1
      <3>3. -e.ord # after
        BY <1>1, <1>9, <3>1
      <3> QED
        BY <1>1, <1>5, <1>9, <2>1, <2>3, <3>2, <3>3
    <2> QED
      BY <1>5, <2>2, <2>3 DEF k
  <1>10. CASE e.ord < 0
    <2>1. k \in OnWeekday(e, m) <=> k = LastOn(m, w) - 7 * (-e.ord - 1)
      BY <1>1, <1>3, <1>4, <1>10
    <2>2. k \in OnWeekday(e, m) => Weekday(d) = w
      <3>1. -e.ord - 1 \in Int /\ -e.ord - 1 >= 0
        BY <1>1, <1>10
      <3> QED
        BY <1>7, <2>1, <3>1
    <2>3. ASSUME Weekday(d) = w
          PROVE  k \in OnWeekday(e, m) <=> DayMatches(e, d)
      <3>1. PICK i, j \in Nat : /\ k = LastOn(m, w) - 7 * j /\ before = i + 1
                                /\ after = j + 1
        BY <1>6, <2>3
      <3>2. k = LastOn(m, w) - 7 * (-e.ord - 1) <=> -e.ord = after
        BY <1>1, <1>3, <3>1
      <3>3. e.ord # before
        BY <1>1, <1>10, <3>1
      <3> QED
        BY <1>1, <1>5, <1>10, <2>1, <2>3, <3>2, <3>3
    <2> QED
      BY <1>5, <2>2, <2>3 DEF k
  <1> QED
    BY <1>1, <1>8, <1>9, <1>10 DEF k

----------------------------------------------------------------------------
(* Periods                                                                 *)

(* The days of a WEEKLY rule, each once, and in the week's order.          *)
EachDayOnce(r) == \A i, j \in DOMAIN r.byDay :
                     i # j => r.byDay[i].weekday # r.byDay[j].weekday
DaysRise(r) == \A i, j \in DOMAIN r.byDay :
                  i < j => r.byDay[i].weekday < r.byDay[j].weekday

(* The day period p begins at; it ends where the next one begins.          *)
PeriodStart(r, s, p) ==
    CASE r.freq = "DAILY" -> s + p * r.interval
      [] r.freq = "WEEKLY" /\ r.byDay = <<>> -> s + p * (7 * r.interval)
      [] r.freq = "WEEKLY" /\ r.byDay # <<>> -> s - Weekday(s) + 7 * p
      [] r.freq = "MONTHLY" -> FirstDay[MonthOf(s) + p * r.interval]

InPeriod(r, s, p, d) == PeriodStart(r, s, p) <= d /\ d < PeriodStart(r, s, p + 1)

(* What the candidates of a period are: the days in it that the rule means.*)
Sound(r, s, p) ==
    /\ PeriodStart(r, s, p) \in Int
    /\ PeriodStart(r, s, p) < PeriodStart(r, s, p + 1)
    /\ Candidates(r, s, p) \in Seq(Int)
    /\ \A k \in DOMAIN Candidates(r, s, p) : InPeriod(r, s, p, Candidates(r, s, p)[k])
    /\ \A d \in Int : d >= s /\ InPeriod(r, s, p, d) =>
          (Matches(r, s, d) <=> \E k \in DOMAIN Candidates(r, s, p) : Candidates(r, s, p)[k] = d)
    /\ (r.freq = "WEEKLY" => DaysRise(r)) => Rising(Candidates(r, s, p))
    /\ (r.freq = "WEEKLY" => EachDayOnce(r)) =>
          \A k, l \in DOMAIN Candidates(r, s, p) :
             Candidates(r, s, p)[k] = Candidates(r, s, p)[l] => k = l

LEMMA RisingOnce ==
    ASSUME NEW q \in Seq(Int), Rising(q)
    PROVE  \A k, l \in DOMAIN q : q[k] = q[l] => k = l
  <1> SUFFICES ASSUME NEW k \in DOMAIN q, NEW l \in DOMAIN q, q[k] = q[l], k # l
               PROVE  FALSE
    OBVIOUS
  <1>1. k \in Int /\ l \in Int /\ q[k] \in Int /\ q[l] \in Int
    OBVIOUS
  <1>2. k < l \/ l < k
    BY <1>1
  <1> QED
    BY <1>1, <1>2 DEF Rising

LEMMA DailySound ==
    ASSUME NEW r \in Rule, r.freq = "DAILY", NEW s \in Nat \ {0}, NEW p \in Nat
    PROVE  Sound(r, s, p)
  <1> DEFINE k == r.interval
             x == s + p * k
  <1>1. k \in Nat \ {0}
    BY DEF Rule
  <1>2. PeriodStart(r, s, p) = x /\ PeriodStart(r, s, p + 1) = s + (p + 1) * k
    BY DEF PeriodStart
  <1>3. Candidates(r, s, p) = <<x>>
    BY DEF Candidates
  <1>4. \A d : Matches(r, s, d) <=> (d - s) % k = 0
    BY DEF Matches
  <1> HIDE DEF k
  <1>5. p * k \in Nat /\ (p + 1) * k = p * k + k
    BY <1>1, MultipleFollows
  <1>6. x \in Int /\ PeriodStart(r, s, p + 1) = x + k
    BY <1>1, <1>2, <1>5
  <1>7. ASSUME NEW d \in Int, x <= d, d < x + k
        PROVE  Matches(r, s, d) <=> d = x
    <2>1. d - s \in Nat /\ p * k <= d - s /\ d - s < p * k + k
      BY <1>1, <1>5, <1>7
    <2>2. (d - s) % k = 0 <=> d - s = p * k
      BY <1>1, <2>1, MultipleBetween
    <2> QED
      BY <1>4, <1>5, <2>2
  <1> HIDE DEF x
  <1>8. ListsInOrder(<<x>>, {x})
    BY <1>6, OneDayLists
  <1>9. \A i \in DOMAIN <<x>> : <<x>>[i] = x
    OBVIOUS
  <1>10. 1 \in DOMAIN <<x>>
    OBVIOUS
  <1>11. <<x>> \in Seq(Int) /\ Rising(<<x>>)
    BY <1>8 DEF ListsInOrder
  <1>12. \A i, j \in DOMAIN <<x>> : <<x>>[i] = <<x>>[j] => i = j
    BY <1>11, RisingOnce
  <1> QED
    BY <1>1, <1>2, <1>3, <1>6, <1>7, <1>9, <1>10, <1>11, <1>12 DEF Sound, InPeriod

LEMMA WeeklySound ==
    ASSUME NEW r \in Rule, r.freq = "WEEKLY", r.byDay = <<>>, NEW s \in Nat \ {0}, NEW p \in Nat
    PROVE  Sound(r, s, p)
  <1> DEFINE k == 7 * r.interval
             x == s + p * k
  <1>1. k \in Nat \ {0}
    BY DEF Rule
  <1>2. PeriodStart(r, s, p) = x /\ PeriodStart(r, s, p + 1) = s + (p + 1) * k
    BY DEF PeriodStart
  <1>3. Candidates(r, s, p) = <<x>>
    <2>1. Candidates(r, s, p) = <<s + 7 * p * r.interval>>
      BY DEF Candidates
    <2>2. r.interval \in Nat
      BY DEF Rule
    <2>3. 7 * p * r.interval = p * (7 * r.interval)
      BY <2>2
    <2> QED
      BY <2>1, <2>3
  <1>4. \A d : Matches(r, s, d) <=> (d - s) % k = 0
    BY DEF Matches
  <1> HIDE DEF k
  <1>5. p * k \in Nat /\ (p + 1) * k = p * k + k
    BY <1>1, MultipleFollows
  <1>6. x \in Int /\ PeriodStart(r, s, p + 1) = x + k
    BY <1>1, <1>2, <1>5
  <1>7. ASSUME NEW d \in Int, x <= d, d < x + k
        PROVE  Matches(r, s, d) <=> d = x
    <2>1. d - s \in Nat /\ p * k <= d - s /\ d - s < p * k + k
      BY <1>1, <1>5, <1>7
    <2>2. (d - s) % k = 0 <=> d - s = p * k
      BY <1>1, <2>1, MultipleBetween
    <2> QED
      BY <1>4, <1>5, <2>2
  <1> HIDE DEF x
  <1>8. ListsInOrder(<<x>>, {x})
    BY <1>6, OneDayLists
  <1>9. \A i \in DOMAIN <<x>> : <<x>>[i] = x
    OBVIOUS
  <1>10. 1 \in DOMAIN <<x>>
    OBVIOUS
  <1>11. <<x>> \in Seq(Int) /\ Rising(<<x>>)
    BY <1>8 DEF ListsInOrder
  <1>12. \A i, j \in DOMAIN <<x>> : <<x>>[i] = <<x>>[j] => i = j
    BY <1>11, RisingOnce
  <1> QED
    BY <1>1, <1>2, <1>3, <1>6, <1>7, <1>9, <1>10, <1>11, <1>12 DEF Sound, InPeriod

(* A week counted from its Sunday.                                         *)
LEMMA WeekFromSunday ==
    ASSUME NEW s \in Int, NEW p \in Int, NEW w \in 0 .. 6
    PROVE  Weekday(s) \in 0 .. 6 /\ Weekday(s - Weekday(s) + 7 * p + w) = w
  <1>1. FirstWeekday \in 0 .. 6
    BY CalendarAssumption
  <1>2. PICK q \in Int, u \in 0 .. 6 :
           FirstWeekday + s - 1 = 7 * q + u /\ (FirstWeekday + s - 1) % 7 = u
    <2>1. FirstWeekday + s - 1 \in Int
      BY <1>1
    <2> QED
      BY <2>1, Sevens
  <1>3. Weekday(s) = u
    BY <1>2 DEF Weekday
  <1>4. FirstWeekday + (s - u + 7 * p + w) - 1 = 7 * (q + p) + w /\ q + p \in Int
    BY <1>1, <1>2
  <1>5. (7 * (q + p) + w) % 7 = w
    BY <1>4, Sevens
  <1> QED
    BY <1>3, <1>4, <1>5 DEF Weekday

LEMMA WeeklyByDaySound ==
    ASSUME NEW r \in Rule, r.freq = "WEEKLY", r.byDay # <<>>, Supported(r),
           NEW s \in Nat \ {0}, NEW p \in Nat
    PROVE  Sound(r, s, p)
  <1> DEFINE x == s - Weekday(s) + 7 * p
             on == [i \in DOMAIN r.byDay |-> r.byDay[i].weekday]
             q == [i \in DOMAIN r.byDay |-> x + r.byDay[i].weekday]
  <1>1. /\ r.byDay \in Seq(ByDay) /\ r.byMonthDay = <<>>
        /\ \A i \in DOMAIN r.byDay : r.byDay[i].ord = 0 /\ on[i] \in 0 .. 6
    <2>1. r.byDay \in Seq(ByDay)
      BY DEF Rule
    <2>2. \A i \in DOMAIN r.byDay : r.byDay[i] \in ByDay
      BY <2>1
    <2>3. \A i \in DOMAIN r.byDay : r.byDay[i].weekday \in 0 .. 6
      BY <2>2 DEF ByDay
    <2>4. r.byMonthDay = <<>> /\ \A i \in DOMAIN r.byDay : r.byDay[i].ord = 0
      BY DEF Supported
    <2> QED
      BY <2>1, <2>3, <2>4
  <1>2. Weekday(s) \in 0 .. 6 /\ \A w \in 0 .. 6 : Weekday(x + w) = w
    BY WeekFromSunday
  <1>3. x \in Int
    BY <1>2
  <1>4. PeriodStart(r, s, p) = x /\ PeriodStart(r, s, p + 1) = x + 7
    BY <1>2 DEF PeriodStart
  <1>5. Candidates(r, s, p) = q
    BY DEF Candidates
  <1>6. \A d : Matches(r, s, d) <=> \E i \in DOMAIN r.byDay : Weekday(d) = on[i]
    BY <1>1 DEF Matches, DayMatches
  <1>7. DOMAIN q = DOMAIN r.byDay /\ \A i \in DOMAIN r.byDay : q[i] = x + on[i]
    OBVIOUS
  <1>8. q \in Seq(Int)
    <2>1. \A i \in DOMAIN r.byDay : x + r.byDay[i].weekday \in Int
      <3> TAKE i \in DOMAIN r.byDay
      <3>1. r.byDay[i].weekday \in 0 .. 6
        BY <1>1
      <3> HIDE DEF x
      <3> QED
        BY <1>3, <3>1
    <2>2. Len(r.byDay) \in Nat /\ DOMAIN r.byDay = 1 .. Len(r.byDay)
      BY <1>1
    <2> HIDE DEF x
    <2> QED
      BY <2>1, <2>2
  <1>9. (\A i, j \in DOMAIN r.byDay : i < j => on[i] < on[j]) <=> DaysRise(r)
    BY DEF DaysRise
  <1>10. (\A i, j \in DOMAIN r.byDay : i # j => on[i] # on[j]) <=> EachDayOnce(r)
    BY DEF EachDayOnce
  <1> HIDE DEF x, on, q
  <1>11. ASSUME NEW d \in Int, x <= d, d < x + 7
         PROVE  Matches(r, s, d) <=> \E i \in DOMAIN q : q[i] = d
    <2>1. d - x \in 0 .. 6 /\ d = x + (d - x)
      BY <1>3, <1>11
    <2>2. Weekday(d) = d - x
      BY <1>2, <2>1
    <2>3. \A i \in DOMAIN r.byDay : Weekday(d) = on[i] <=> q[i] = d
      <3> TAKE i \in DOMAIN r.byDay
      <3>1. on[i] \in 0 .. 6 /\ q[i] = x + on[i]
        BY <1>1, <1>7
      <3> QED
        BY <1>3, <2>2, <3>1
    <2> QED
      BY <1>6, <1>7, <2>3
  <1>12. \A i \in DOMAIN q : x <= q[i] /\ q[i] < x + 7
    <2> TAKE i \in DOMAIN q
    <2>1. on[i] \in 0 .. 6 /\ q[i] = x + on[i]
      BY <1>1, <1>7
    <2> QED
      BY <1>3, <2>1
  <1>13. DaysRise(r) => Rising(q)
    <2> SUFFICES ASSUME DaysRise(r), NEW i \in DOMAIN q, NEW j \in DOMAIN q, i < j
                 PROVE  q[i] < q[j]
      BY DEF Rising
    <2>1. /\ on[i] \in 0 .. 6 /\ q[i] = x + on[i] /\ on[j] \in 0 .. 6 /\ q[j] = x + on[j]
          /\ on[i] < on[j]
      BY <1>1, <1>7, <1>9
    <2> QED
      BY <1>3, <2>1
  <1>14. EachDayOnce(r) => \A i, j \in DOMAIN q : q[i] = q[j] => i = j
    <2> SUFFICES ASSUME EachDayOnce(r), NEW i \in DOMAIN q, NEW j \in DOMAIN q, q[i] = q[j], i # j
                 PROVE  FALSE
      OBVIOUS
    <2>1. /\ on[i] \in 0 .. 6 /\ q[i] = x + on[i] /\ on[j] \in 0 .. 6 /\ q[j] = x + on[j]
          /\ on[i] # on[j]
      BY <1>1, <1>7, <1>10
    <2>2. on[i] \in Int /\ on[j] \in Int
      BY <2>1
    <2> HIDE DEF q
    <2>4. x + on[i] = x + on[j]
      BY <2>1, Zenon
    <2>3. on[i] = on[j]
      BY <1>3, <2>2, <2>4
    <2> QED
      BY <2>1, <2>3
  <1> QED
    BY <1>3, <1>4, <1>5, <1>8, <1>11, <1>12, <1>13, <1>14 DEF Sound, InPeriod

(* The days of month m that a MONTHLY rule means.                          *)
MeansDay(r, s, d) ==
    \/ \E i \in DOMAIN r.byDay : DayMatches(r.byDay[i], d)
    \/ \E i \in DOMAIN r.byMonthDay : DateMatches(r.byMonthDay[i], d)
    \/ r.byDay = <<>> /\ r.byMonthDay = <<>> /\ DateMatches(s - FirstDay[MonthOf(s)] + 1, d)

LEMMA MonthDaysMean ==
    ASSUME NEW r \in Rule, NEW s \in Nat \ {0}, NEW m \in Nat, NEW d \in Int, InMonth(d, m)
    PROVE  d - FirstDay[m] + 1 \in MonthDays(r, m, s - FirstDay[MonthOf(s)] + 1) <=> MeansDay(r, s, d)
  <1> DEFINE x == d - FirstDay[m] + 1
             default == s - FirstDay[MonthOf(s)] + 1
             n == DaysIn(m)
             bare == r.byDay = <<>> /\ r.byMonthDay = <<>>
             dates == IF bare THEN <<default>> ELSE r.byMonthDay
  <1>1. default \in 1 .. 31
    <2>1. MonthOf(s) \in Nat /\ InMonth(s, MonthOf(s))
      BY MonthOfDay DEF InMonth
    <2>2. default \in 1 .. DaysIn(MonthOf(s)) /\ DaysIn(MonthOf(s)) \in 28 .. 31
      BY <2>1, MonthSpan
    <2> QED
      BY <2>2
  <1>2. /\ \A i \in DOMAIN r.byDay : r.byDay[i] \in ByDay
        /\ \A i \in DOMAIN r.byMonthDay : r.byMonthDay[i] \in -31 .. 31
    BY DEF Rule
  <1>3. x \in MonthDays(r, m, default) <=>
           \/ \E i \in DOMAIN dates : x \in OnDate(dates[i], n)
           \/ \E i \in DOMAIN r.byDay : x \in OnWeekday(r.byDay[i], m)
    <2>1. MonthDays(r, m, default) =
             (UNION {OnDate(dates[i], n) : i \in DOMAIN dates})
               \cup (UNION {OnWeekday(r.byDay[i], m) : i \in DOMAIN r.byDay})
      BY DEF MonthDays
    <2> HIDE DEF dates, n, x
    <2>2. x \in UNION {OnDate(dates[i], n) : i \in DOMAIN dates}
             <=> \E i \in DOMAIN dates : x \in OnDate(dates[i], n)
      OBVIOUS
    <2>3. x \in UNION {OnWeekday(r.byDay[i], m) : i \in DOMAIN r.byDay}
             <=> \E i \in DOMAIN r.byDay : x \in OnWeekday(r.byDay[i], m)
      OBVIOUS
    <2> QED
      BY <2>1, <2>2, <2>3, Zenon
  <1>4. \A i \in DOMAIN r.byDay : x \in OnWeekday(r.byDay[i], m) <=> DayMatches(r.byDay[i], d)
    BY <1>2, OnWeekdayMatches
  <1>5. (\E i \in DOMAIN dates : x \in OnDate(dates[i], n)) <=>
           \/ \E i \in DOMAIN r.byMonthDay : DateMatches(r.byMonthDay[i], d)
           \/ bare /\ DateMatches(default, d)
    <2>1. CASE bare
      <3>1. /\ DOMAIN dates = {1} /\ dates[1] = default
            /\ DOMAIN r.byMonthDay = {}
        BY <2>1
      <3>2. x \in OnDate(default, n) <=> DateMatches(default, d)
        <4>1. default \in -31 .. 31
          BY <1>1
        <4> QED
          BY <4>1, OnDateMatches
      <3> HIDE DEF dates, x, default, n
      <3> QED
        BY <2>1, <3>1, <3>2
    <2>2. CASE ~ bare
      <3>1. dates = r.byMonthDay
        BY <2>2
      <3>2. \A i \in DOMAIN r.byMonthDay :
               x \in OnDate(r.byMonthDay[i], n) <=> DateMatches(r.byMonthDay[i], d)
        BY <1>2, OnDateMatches
      <3> HIDE DEF dates, x, n
      <3> QED
        BY <2>2, <3>1, <3>2
    <2> QED
      BY <2>1, <2>2
  <1> HIDE DEF x, n, dates, default, bare
  <1>6. MeansDay(r, s, d) <=>
           \/ \E i \in DOMAIN r.byDay : DayMatches(r.byDay[i], d)
           \/ \E i \in DOMAIN r.byMonthDay : DateMatches(r.byMonthDay[i], d)
           \/ bare /\ DateMatches(default, d)
    BY DEF MeansDay, bare, default
  <1>7. x \in MonthDays(r, m, default) <=> MeansDay(r, s, d)
    BY <1>3, <1>4, <1>5, <1>6
  <1> QED
    BY <1>7 DEF x, default

LEMMA MonthDaysInMonth ==
    ASSUME NEW r, NEW m \in Nat, NEW default
    PROVE  MonthDays(r, m, default) \subseteq 1 .. DaysIn(m)
  <1>1. \A e : OnDate(e, DaysIn(m)) \subseteq 1 .. DaysIn(m)
    BY DEF OnDate
  <1>2. \A e : OnWeekday(e, m) \subseteq 1 .. DaysIn(m)
    BY DEF OnWeekday
  <1> DEFINE bare == r.byDay = <<>> /\ r.byMonthDay = <<>>
             dates == IF bare THEN <<default>> ELSE r.byMonthDay
  <1>3. MonthDays(r, m, default) =
           (UNION {OnDate(dates[i], DaysIn(m)) : i \in DOMAIN dates})
             \cup (UNION {OnWeekday(r.byDay[i], m) : i \in DOMAIN r.byDay})
    BY DEF MonthDays
  <1> HIDE DEF dates
  <1>4. UNION {OnDate(dates[i], DaysIn(m)) : i \in DOMAIN dates} \subseteq 1 .. DaysIn(m)
    BY <1>1
  <1>5. UNION {OnWeekday(r.byDay[i], m) : i \in DOMAIN r.byDay} \subseteq 1 .. DaysIn(m)
    BY <1>2
  <1> QED
    BY <1>3, <1>4, <1>5, Zenon

LEMMA MonthCandidatesList ==
    ASSUME NEW r \in Rule, NEW s \in Nat \ {0}, NEW m \in Nat
    PROVE  \E D \in SUBSET Int :
              /\ ListsInOrder(MonthCandidates(r, s, m), D)
              /\ \A d \in Int : d \in D <=> InMonth(d, m) /\ MeansDay(r, s, d)
  <1> DEFINE f == FirstDay[m]
             n == DaysIn(m)
             M == MonthDays(r, m, s - FirstDay[MonthOf(s)] + 1)
             D == {f + k - 1 : k \in M}
  <1>1. f \in Nat /\ n \in 28 .. 31 /\ FirstDay[m + 1] = f + n
    BY FirstDayGrows, FirstDayNext, MonthLength
  <1>2. M \subseteq 1 .. n
    BY MonthDaysInMonth
  <1>3. \A d \in Int : InMonth(d, m) => (d - f + 1 \in M <=> MeansDay(r, s, d))
    BY MonthDaysMean
  <1>4. \A d : InMonth(d, m) <=> f <= d /\ d < f + n
    BY <1>1 DEF InMonth
  <1>5. MonthCandidates(r, s, m) = Ascending(D)
    BY DEF MonthCandidates
  <1> HIDE DEF f, n, M
  <1>6. D \in SUBSET Int /\ D \subseteq f .. f + n - 1
    <2>1. \A k \in M : k \in 1 .. n
      BY <1>2
    <2>2. \A k \in M : f + k - 1 \in f .. f + n - 1
      BY <1>1, <2>1
    <2> QED
      BY <1>1, <2>2
  <1>7. \A d \in Int : d \in D <=> d - f + 1 \in M
    <2> TAKE d \in Int
    <2>1. d = f + (d - f + 1) - 1
      BY <1>1
    <2>2. \A k \in M : d = f + k - 1 => k = d - f + 1
      BY <1>1, <1>2
    <2> QED
      BY <2>1, <2>2
  <1>8. \A d \in Int : d - f + 1 \in 1 .. n <=> f <= d /\ d < f + n
    BY <1>1
  <1>9. \A d \in Int : d \in D <=> InMonth(d, m) /\ MeansDay(r, s, d)
    <2> HIDE DEF D
    <2> QED
      BY <1>2, <1>3, <1>4, <1>7, <1>8
  <1> HIDE DEF D
  <1>10. IsFiniteSet(D)
    <2>1. f \in Int /\ f + n - 1 \in Int
      BY <1>1
    <2> QED
      BY <1>6, <2>1, FS_Interval, FS_Subset
  <1> QED
    BY <1>5, <1>6, <1>9, <1>10, AscendingLists

LEMMA MonthsRise ==
    ASSUME NEW m \in Nat, NEW n \in Nat, m < n
    PROVE  FirstDay[m] < FirstDay[n] /\ FirstDay[m + 1] <= FirstDay[n]
  <1>1. FirstDay[m + 1] <= FirstDay[n] /\ FirstDay[m + 1] = FirstDay[m] + DaysIn(m)
    BY MonthsFollow, FirstDayNext
  <1>2. DaysIn(m) \in 28 .. 31 /\ FirstDay[m] \in Nat /\ FirstDay[n] \in Nat
    BY MonthLength, FirstDayGrows
  <1> QED
    BY <1>1, <1>2

LEMMA MonthlySound ==
    ASSUME NEW r \in Rule, r.freq = "MONTHLY", NEW s \in Nat \ {0}, NEW p \in Nat
    PROVE  Sound(r, s, p)
  <1> DEFINE k == r.interval
             m0 == MonthOf(s)
             m == m0 + p * k
             q == Candidates(r, s, p)
  <1>1. k \in Nat \ {0}
    BY DEF Rule
  <1>2. m0 \in Nat /\ InMonth(s, m0)
    BY MonthOfDay DEF InMonth
  <1>3. PeriodStart(r, s, p) = FirstDay[m] /\ PeriodStart(r, s, p + 1) = FirstDay[m0 + (p + 1) * k]
    BY DEF PeriodStart
  <1>4. q = MonthCandidates(r, s, m)
    BY DEF Candidates
  <1>5. \A d : Matches(r, s, d) <=> (MonthOf(d) - m0) % k = 0 /\ MeansDay(r, s, d)
    BY DEF Matches, MeansDay
  <1> HIDE DEF k, m0, q
  <1>6. p * k \in Nat /\ (p + 1) * k = p * k + k
    BY <1>1, MultipleFollows
  <1>7. m \in Nat /\ m0 + (p + 1) * k = m + k
    BY <1>1, <1>2, <1>6
  <1>8. m = m0 + p * k
    OBVIOUS
  <1> HIDE DEF m
  <1>9. PICK D \in SUBSET Int :
           /\ ListsInOrder(q, D)
           /\ \A d \in Int : d \in D <=> InMonth(d, m) /\ MeansDay(r, s, d)
    BY <1>4, <1>7, MonthCandidatesList
  <1>10. FirstDay[m] < FirstDay[m + k] /\ FirstDay[m + 1] <= FirstDay[m + k]
    BY <1>1, <1>7, MonthsRise
  <1>11. FirstDay[m] \in Nat /\ FirstDay[m + k] \in Nat /\ FirstDay[m + 1] \in Nat
    BY <1>1, <1>7, FirstDayGrows
  <1>12. \A i \in DOMAIN q : FirstDay[m] <= q[i] /\ q[i] < FirstDay[m + k]
    <2> TAKE i \in DOMAIN q
    <2>1. q[i] \in Int /\ InMonth(q[i], m)
      BY <1>9 DEF ListsInOrder
    <2> QED
      BY <1>10, <1>11, <2>1 DEF InMonth
  <1>13. ASSUME NEW d \in Int, d >= s, FirstDay[m] <= d, d < FirstDay[m + k]
         PROVE  Matches(r, s, d) <=> d \in D
    <2>1. d \in Nat \ {0}
      BY <1>13
    <2>2. /\ MonthOf(d) \in Nat
          /\ FirstDay[MonthOf(d)] <= d /\ d < FirstDay[MonthOf(d) + 1]
      BY <2>1, MonthOfDay
    <2>3. FirstDay[MonthOf(d)] \in Nat /\ FirstDay[MonthOf(d) + 1] \in Nat
      BY <2>2, FirstDayGrows
    <2>4. ~ (MonthOf(d) < m)
      <3> SUFFICES ASSUME MonthOf(d) < m PROVE FALSE
        OBVIOUS
      <3>1. FirstDay[MonthOf(d) + 1] <= FirstDay[m]
        BY <1>7, <2>2, MonthsRise
      <3> QED
        BY <1>11, <1>13, <2>2, <2>3, <3>1
    <2>5. ~ (m + k <= MonthOf(d))
      <3> SUFFICES ASSUME m + k <= MonthOf(d) PROVE FALSE
        OBVIOUS
      <3>1. m + k = MonthOf(d) \/ m + k < MonthOf(d)
        BY <1>1, <1>7, <2>2
      <3>2. FirstDay[m + k] <= FirstDay[MonthOf(d)]
        <4>1. CASE m + k = MonthOf(d)
          BY <1>11, <4>1
        <4>2. CASE m + k < MonthOf(d)
          <5>1. m + k \in Nat
            BY <1>1, <1>7
          <5>2. FirstDay[m + k] < FirstDay[MonthOf(d)]
            BY <2>2, <4>2, <5>1, MonthsRise
          <5> QED
            BY <1>11, <2>3, <5>2
        <4> QED
          BY <3>1, <4>1, <4>2
      <3> QED
        BY <1>11, <1>13, <2>2, <2>3, <3>2
    <2>6. MonthOf(d) - m0 \in Nat /\ p * k <= MonthOf(d) - m0 /\ MonthOf(d) - m0 < p * k + k
      BY <1>1, <1>2, <1>6, <1>7, <1>8, <2>2, <2>4, <2>5
    <2>7. (MonthOf(d) - m0) % k = 0 <=> MonthOf(d) - m0 = p * k
      BY <1>1, <2>6, MultipleBetween
    <2>8. MonthOf(d) - m0 = p * k <=> MonthOf(d) = m
      BY <1>2, <1>6, <1>8, <2>2
    <2>9. MonthOf(d) = m <=> InMonth(d, m)
      BY <1>7, <2>1, MonthOfDay DEF InMonth
    <2> QED
      BY <1>5, <1>9, <2>7, <2>8, <2>9
  <1>14. /\ q \in Seq(Int) /\ Rising(q)
         /\ \A d \in Int : d \in D <=> \E i \in DOMAIN q : q[i] = d
    BY <1>9 DEF ListsInOrder
  <1>15. \A i, j \in DOMAIN q : q[i] = q[j] => i = j
    BY <1>14, RisingOnce
  <1>16. PeriodStart(r, s, p) = FirstDay[m] /\ PeriodStart(r, s, p + 1) = FirstDay[m + k]
    BY <1>3, <1>7, <1>8
  <1>17. FirstDay[m] \in Int
    BY <1>11
  <1>18. \A d \in Int : d >= s /\ FirstDay[m] <= d /\ d < FirstDay[m + k] =>
            (Matches(r, s, d) <=> \E i \in DOMAIN q : q[i] = d)
    BY <1>13, <1>14
  <1> QED
    BY <1>10, <1>12, <1>14, <1>15, <1>16, <1>17, <1>18 DEF Sound, InPeriod, q

LEMMA PeriodsSound ==
    ASSUME NEW r \in Rule, Supported(r), NEW s \in Nat \ {0}, NEW p \in Nat
    PROVE  Sound(r, s, p)
  <1>1. r.freq \in {"DAILY", "WEEKLY", "MONTHLY"}
    BY DEF Rule, Freq
  <1> QED
    BY <1>1, DailySound, WeeklySound, WeeklyByDaySound, MonthlySound

(* The walk starts no later than the event does.                           *)
LEMMA FirstPeriod ==
    ASSUME NEW r \in Rule, NEW s \in Nat \ {0}
    PROVE  PeriodStart(r, s, 0) <= s
  <1>1. r.freq \in {"DAILY", "WEEKLY", "MONTHLY"} /\ r.interval \in Nat
    BY DEF Rule, Freq
  <1>2. 0 * r.interval = 0 /\ 0 * (7 * r.interval) = 0
    BY <1>1
  <1>3. CASE r.freq = "DAILY"
    BY <1>2, <1>3 DEF PeriodStart
  <1>4. CASE r.freq = "WEEKLY" /\ r.byDay = <<>>
    BY <1>2, <1>4 DEF PeriodStart
  <1>5. CASE r.freq = "WEEKLY" /\ r.byDay # <<>>
    <2>1. Weekday(s) \in 0 .. 6
      BY WeekFromSunday
    <2>2. PeriodStart(r, s, 0) = s - Weekday(s) + 7 * 0
      BY <1>5 DEF PeriodStart
    <2> QED
      BY <2>1, <2>2
  <1>6. CASE r.freq = "MONTHLY"
    <2>1. MonthOf(s) \in Nat /\ FirstDay[MonthOf(s)] <= s
      BY MonthOfDay
    <2>2. PeriodStart(r, s, 0) = FirstDay[MonthOf(s) + 0]
      BY <1>2, <1>6 DEF PeriodStart
    <2> QED
      BY <2>1, <2>2
  <1> QED
    BY <1>1, <1>3, <1>4, <1>5, <1>6

----------------------------------------------------------------------------
(* What is left of a walk                                                  *)

(* The loop over the occurrences is well defined, by its least turn that   *)
(* were not.                                                               *)
LEMMA ExpandedDef ==
    ASSUME Len(out) \in Nat
    PROVE  \E f : /\ f = [n \in 0 .. Len(out) |->
                            IF n = 0 THEN <<>>
                            ELSE IF out[n] \in call.exdates THEN f[n - 1]
                            ELSE Append(f[n - 1], out[n])]
                  /\ Expanded = f[Len(out)]
  <1> DEFINE N == Len(out)
             turn(h, n) == IF out[n] \in call.exdates THEN h ELSE Append(h, out[n])
             Runs(f, m) ==
                f = [n \in 0 .. m |-> IF n = 0 THEN <<>> ELSE turn(f[n - 1], n)]
             T == {m \in Nat : m <= N /\ ~ \E f : Runs(f, m)}
  <1>1. ASSUME T # {}
        PROVE  FALSE
    <2>1. Least(T)
      BY <1>1, LeastExists
    <2>2. PICK m \in T : \A k \in T : m <= k
      BY <2>1 DEF Least
    <2>3. m \in Nat /\ m <= N
      OBVIOUS
    <2>4. m # 0
      <3>1. Runs([n \in 0 .. 0 |-> <<>>], 0)
        OBVIOUS
      <3> QED
        BY <2>2, <3>1
    <2>5. m - 1 \in Nat /\ m - 1 <= N /\ m - 1 \notin T
      <3> HIDE DEF T
      <3> QED
        BY <2>2, <2>3, <2>4
    <2>6. PICK g : Runs(g, m - 1)
      BY <2>5
    <2> DEFINE f == [n \in 0 .. m |-> IF n = m THEN turn(g[m - 1], m) ELSE g[n]]
    <2>7. \A n \in 0 .. m - 1 :
             f[n] = g[n] /\ g[n] = IF n = 0 THEN <<>> ELSE turn(g[n - 1], n)
      <3> HIDE DEF turn
      <3>1. \A n \in 0 .. m - 1 : g[n] = IF n = 0 THEN <<>> ELSE turn(g[n - 1], n)
        BY <2>6
      <3>2. \A n \in 0 .. m - 1 : f[n] = g[n]
        BY <2>3
      <3> QED
        BY <3>1, <3>2
    <2>8. m \in 0 .. m /\ m - 1 \in 0 .. m - 1 /\ f[m] = turn(g[m - 1], m)
      BY <2>3, <2>5
    <2>9. f = [n \in 0 .. m |-> f[n]]
      OBVIOUS
    <2> HIDE DEF f
    <2>10. \A n \in 0 .. m : f[n] = IF n = 0 THEN <<>> ELSE turn(f[n - 1], n)
      <3> TAKE n \in 0 .. m
      <3>1. CASE n = m
        <4> HIDE DEF turn
        <4> QED
          BY <2>4, <2>7, <2>8, <3>1
      <3>2. CASE n # m
        <4>1. n \in 0 .. m - 1 /\ (n # 0 => n - 1 \in 0 .. m - 1)
          BY <2>3, <3>2
        <4> HIDE DEF turn
        <4> QED
          BY <2>7, <4>1
      <3> QED
        BY <3>1, <3>2
    <2>11. Runs(f, m)
      BY <2>9, <2>10
    <2> QED
      BY <2>2, <2>11
  <1>2. \E f : Runs(f, N)
    BY <1>1
  <1>3. Expanded = (CHOOSE f : Runs(f, N))[N]
    BY DEF Expanded
  <1>4. Runs(CHOOSE f : Runs(f, N), N)
    <2> HIDE DEF Runs
    <2> QED
      BY <1>2
  <1> QED
    BY <1>3, <1>4

(* A sequence without repetition.                                          *)
Once(q) == \A k, l \in DOMAIN q : q[k] = q[l] => k = l

(* What an EXDATE does not name is kept, in its order.                     *)
LEMMA ExpandedKeeps ==
    ASSUME out \in Seq(Nat)
    PROVE  /\ Expanded \in Seq(Nat)
           /\ ToSet(Expanded) = ToSet(out) \ call.exdates
           /\ Once(out) => Once(Expanded)
  <1> DEFINE N == Len(out)
             Kept(q, n) == /\ q \in Seq(Nat)
                           /\ \A x \in ToSet(q) : x \notin call.exdates /\ \E k \in 1 .. n : out[k] = x
                           /\ \A k \in 1 .. n : out[k] \in call.exdates \/ out[k] \in ToSet(q)
                           /\ Once(out) => Once(q)
  <1>1. N \in Nat /\ \A n \in 1 .. N : out[n] \in Nat /\ DOMAIN out = 1 .. N
    OBVIOUS
  <1>2. PICK f : /\ f = [n \in 0 .. N |->
                            IF n = 0 THEN <<>>
                            ELSE IF out[n] \in call.exdates THEN f[n - 1]
                            ELSE Append(f[n - 1], out[n])]
                 /\ Expanded = f[N]
    BY <1>1, ExpandedDef
  <1>3. /\ f[0] = <<>>
        /\ \A n \in 1 .. N : f[n] = IF out[n] \in call.exdates THEN f[n - 1] ELSE Append(f[n - 1], out[n])
    <2>1. \A n \in 0 .. N : f[n] = IF n = 0 THEN <<>>
                                   ELSE IF out[n] \in call.exdates THEN f[n - 1]
                                   ELSE Append(f[n - 1], out[n])
      BY <1>2
    <2> QED
      BY <1>1, <2>1
  <1>4. Kept(<<>>, 0)
    BY DEF Once, ToSet
  <1>5. ASSUME NEW n \in 1 .. N, NEW q, Kept(q, n - 1)
        PROVE  Kept(IF out[n] \in call.exdates THEN q ELSE Append(q, out[n]), n)
    <2>1. \A k \in 1 .. n : k \in 1 .. n - 1 \/ k = n
      BY <1>1
    <2>2. 1 .. n - 1 \subseteq 1 .. n /\ n \in 1 .. n
      BY <1>1
    <2>3. CASE out[n] \in call.exdates
      <3>1. Kept(q, n)
        BY <1>5, <2>1, <2>2, <2>3
      <3> QED
        BY <2>3, <3>1
    <2>4. CASE out[n] \notin call.exdates
      <3> DEFINE r == Append(q, out[n])
                 L == Len(q)
      <3>1. /\ q \in Seq(Nat) /\ L \in Nat /\ out[n] \in Nat /\ DOMAIN q = 1 .. L
            /\ r \in Seq(Nat) /\ DOMAIN r = 1 .. L + 1
            /\ r[L + 1] = out[n] /\ \A k \in 1 .. L : r[k] = q[k]
        BY <1>1, <1>5
      <3> HIDE DEF r, L
      <3>2. \A k \in 1 .. L + 1 : k \in 1 .. L \/ k = L + 1
        BY <3>1
      <3>3. 1 .. L \subseteq 1 .. L + 1 /\ L + 1 \in 1 .. L + 1 /\ L + 1 \notin 1 .. L
        BY <3>1
      <3>4. \A x : x \in ToSet(r) <=> x \in ToSet(q) \/ x = out[n]
        BY <3>1, <3>2, <3>3 DEF ToSet
      <3>5. Once(out) => Once(r)
        <4> SUFFICES ASSUME Once(out), NEW k \in 1 .. L + 1, NEW l \in 1 .. L + 1, r[k] = r[l], k # l
                     PROVE  FALSE
          BY <3>1 DEF Once
        <4>1. ASSUME NEW j \in 1 .. L
              PROVE  q[j] # out[n]
          <5>1. q[j] \in ToSet(q)
            BY <3>1 DEF ToSet
          <5>2. PICK i \in 1 .. n - 1 : out[i] = q[j]
            BY <1>5, <5>1
          <5>3. i \in 1 .. N /\ i # n
            BY <1>1, <5>2
          <5> QED
            BY <1>1, <5>2, <5>3 DEF Once
        <4>2. \A j \in 1 .. L : r[j] # r[L + 1]
          BY <3>1, <4>1
        <4>3. k \in 1 .. L /\ l \in 1 .. L
          BY <3>2, <4>2
        <4> QED
          BY <1>5, <3>1, <4>3 DEF Once
      <3>6. Kept(r, n)
        BY <1>5, <2>1, <2>2, <2>4, <3>1, <3>4, <3>5
      <3> QED
        BY <2>4, <3>6 DEF r
    <2> QED
      BY <2>3, <2>4
  <1> HIDE DEF Kept
  <1> DEFINE T == {n \in 0 .. N : ~ Kept(f[n], n)}
  <1>6. ASSUME T # {}
        PROVE  FALSE
    <2>1. Least(T)
      <3>1. T \in SUBSET Nat
        BY <1>1
      <3> QED
        BY <1>6, <3>1, LeastExists
    <2>2. PICK n \in T : \A k \in T : n <= k
      BY <2>1 DEF Least
    <2>3. n \in 0 .. N /\ n # 0
      BY <1>3, <1>4, <2>2
    <2>4. n - 1 \in 0 .. N /\ n \in 1 .. N /\ n - 1 \notin T
      BY <1>1, <2>2, <2>3
    <2>5. Kept(f[n - 1], n - 1)
      BY <2>4
    <2>6. Kept(f[n], n)
      BY <1>3, <1>5, <2>4, <2>5
    <2> QED
      BY <2>2, <2>6
  <1>7. Kept(Expanded, N)
    <2>1. N \in 0 .. N /\ N \notin T
      BY <1>1, <1>6
    <2>2. Kept(f[N], N)
      BY <2>1
    <2> QED
      BY <1>2, <2>2
  <1>8. \A x : x \in ToSet(out) <=> \E k \in 1 .. N : out[k] = x
    BY <1>1 DEF ToSet
  <1> QED
    BY <1>7, <1>8 DEF Kept

----------------------------------------------------------------------------
(* Types                                                                   *)

(* What the walk of the current event is asked.                            *)
Asked == [rule |-> cur.rule, start |-> cur.start, window |-> window, exdates |-> cur.exdates]

Numbers ==
    /\ period \in 0 .. MaxPeriods
    /\ queue \in Seq(Int)
    /\ generated \in 0 .. MaxOccurrences + 1
    /\ out \in Seq(Nat)

Typed ==
    /\ doc \in Documents /\ window \in Windows
    /\ pos \in 0 .. Len(doc)
    /\ cur = None \/ cur \in icsEvent
    /\ status \in {"idle", "parsing", "walking", "ended", "refused"}
    /\ status \in {"idle", "parsing"} => period = 0 /\ queue = <<>> /\ generated = 0 /\ out = <<>>
    /\ status # "idle" => cur # None /\ pos < Len(doc) /\ call \in Call /\ call = Asked
    /\ status \in {"walking", "ended"} => Supported(call.rule)
    /\ status = "walking" => generated <= MaxOccurrences
    /\ Numbers

LEMMA LineReadable ==
    ASSUME Typed, pos < Len(doc)
    PROVE  Readable(Line) /\ pos + 1 \in 0 .. Len(doc) /\ pos + 1 \in DOMAIN doc
  <1>1. doc \in Documents /\ pos \in 0 .. Len(doc)
    BY DEF Typed
  <1>2. DOMAIN doc = 1 .. Len(doc) /\ Len(doc) \in Nat
    BY <1>1, DocumentsAssumption
  <1>3. pos + 1 \in DOMAIN doc /\ pos + 1 \in 0 .. Len(doc)
    BY <1>1, <1>2
  <1> QED
    BY <1>1, <1>3, DocumentsAssumption DEF Line

LEMMA BlankEvent == Blank \in icsEvent
  BY DEF icsEvent, Blank

LEMMA SetEvent ==
    ASSUME NEW e \in icsEvent, NEW line, Readable(line)
    PROVE  Set(e, line) \in icsEvent
  <1>1. CASE line.name = "UID"
    BY <1>1 DEF icsEvent, Set, Readable
  <1>2. CASE line.name = "DTSTART"
    BY <1>2 DEF icsEvent, Set, Readable
  <1>3. CASE line.name = "DTEND"
    BY <1>3 DEF icsEvent, Set, Readable
  <1>4. CASE line.name = "STATUS"
    BY <1>4 DEF icsEvent, Set
  <1>5. CASE line.name = "RRULE"
    BY <1>5 DEF icsEvent, Set, Readable
  <1>6. CASE line.name = "EXDATE"
    BY <1>6 DEF icsEvent, Set, Readable
  <1>7. CASE line.name \notin {"UID", "DTSTART", "DTEND", "STATUS", "RRULE", "EXDATE"}
    BY <1>7 DEF Set
  <1> QED
    BY <1>1, <1>2, <1>3, <1>4, <1>5, <1>6, <1>7

LEMMA TypedInit == IcsInit => Typed
  <1> SUFFICES ASSUME IcsInit
               PROVE  Typed
    OBVIOUS
  <1>1. Len(doc) \in Nat
    BY DocumentsAssumption DEF IcsInit
  <1> QED
    BY <1>1, LimitsAssumption DEF IcsInit, Init, Typed, Numbers

LEMMA TypedNext == Typed /\ [IcsNext]_icsVars => Typed'
  <1> SUFFICES ASSUME Typed, [IcsNext]_icsVars
               PROVE  Typed'
    OBVIOUS
  <1> USE LimitsAssumption
  <1>1. CASE UNCHANGED icsVars
    BY <1>1 DEF icsVars, vars, stream, feed, Typed, Numbers, Asked
  <1>2. CASE BeginComponent
    <2>1. pos < Len(doc) /\ status = "idle"
      BY <1>2 DEF BeginComponent, Reading
    <2>2. pos + 1 \in 0 .. Len(doc)
      BY <2>1, LineReadable
    <2>3. cur' = cur \/ cur' = Blank
      BY <1>2 DEF BeginComponent
    <2>4. cur' = None \/ cur' \in icsEvent
      BY <2>3, BlankEvent DEF Typed
    <2> QED
      BY <1>2, <2>1, <2>2, <2>4 DEF BeginComponent, vars, feed, Typed, Numbers
  <1>3. CASE EndComponent
    <2>1. pos < Len(doc) /\ status = "idle"
      BY <1>3 DEF EndComponent, Reading
    <2>2. pos + 1 \in 0 .. Len(doc)
      BY <2>1, LineReadable
    <2> QED
      BY <1>3, <2>1, <2>2 DEF EndComponent, vars, feed, Typed, Numbers
  <1>4. CASE ReadProperty
    <2>1. pos < Len(doc) /\ status = "idle"
      BY <1>4 DEF ReadProperty, Reading
    <2>2. pos + 1 \in 0 .. Len(doc) /\ Readable(Line)
      BY <2>1, LineReadable
    <2>3. cur # None => Set(cur, Line) \in icsEvent
      BY <2>2, SetEvent DEF Typed
    <2>4. cur' = None \/ cur' \in icsEvent
      BY <1>4, <2>3 DEF ReadProperty, Typed
    <2> QED
      BY <1>4, <2>1, <2>2, <2>4 DEF ReadProperty, vars, feed, Typed, Numbers
  <1>5. CASE EndSingle
    <2>1. pos < Len(doc) /\ status = "idle"
      BY <1>5 DEF EndSingle, AtEndOfEvent, Reading
    <2>2. pos + 1 \in 0 .. Len(doc)
      BY <2>1, LineReadable
    <2> QED
      BY <1>5, <2>1, <2>2 DEF EndSingle, vars, Typed, Numbers
  <1>6. CASE EndRecurring
    <2>1. pos < Len(doc) /\ status = "idle" /\ cur # None
      BY <1>6 DEF EndRecurring, AtEndOfEvent, Reading
    <2>2. cur \in icsEvent /\ cur.rule \in Rule /\ cur.start \in Nat \ {0}
      BY <1>6, <2>1 DEF EndRecurring, Unreadable, Bad, Typed, icsEvent, Absent
    <2>3. cur.exdates \in SUBSET Nat /\ window \in Windows
      BY <2>2 DEF icsEvent, Typed
    <2>4. Asked \in Call
      BY <2>2, <2>3 DEF Asked, Call
    <2>5. call' = Asked /\ status' = "parsing" /\ UNCHANGED <<doc, window, pos, inCal, skipDepth, cur>>
      BY <1>6 DEF EndRecurring, Begin, Asked, stream
    <2>6. call' = Asked'
      BY <2>5 DEF Asked
    <2>7. UNCHANGED <<period, queue, generated, out>>
      BY <1>6 DEF EndRecurring, Begin
    <2> QED
      BY <2>1, <2>4, <2>5, <2>6, <2>7 DEF Typed, Numbers
  <1>7. CASE Expand
    <2>1. UNCHANGED <<doc, window, pos, inCal, skipDepth, cur>> /\ Asked' = Asked
      BY <1>7 DEF Expand, stream, Asked
    <2>2. CASE Parse
      BY <2>1, <2>2 DEF Parse, Typed, Numbers
    <2>3. CASE NextPeriod
      <3>1. /\ call \in Call /\ Supported(call.rule) /\ period \in Nat
        BY <2>3 DEF NextPeriod, Typed, Numbers
      <3>2. call.rule \in Rule /\ call.start \in Nat \ {0}
        BY <3>1 DEF Call
      <3>3. Candidates(call.rule, call.start, period) \in Seq(Int)
        BY <3>1, <3>2, PeriodsSound DEF Sound
      <3> QED
        BY <2>1, <2>3, <3>3 DEF NextPeriod, Typed, Numbers
    <2>4. CASE RunOut
      BY <2>1, <2>4 DEF RunOut, Typed, Numbers
    <2>5. CASE BeforeStart
      <3>1. Tail(queue) \in Seq(Int)
        BY <2>5 DEF BeforeStart, Typed, Numbers
      <3> QED
        BY <2>1, <2>5, <3>1 DEF BeforeStart, Typed, Numbers
    <2>6. CASE Emit
      <3>1. /\ status = "walking" /\ queue # <<>> /\ queue \in Seq(Int) /\ out \in Seq(Nat)
            /\ Head(queue) >= call.start /\ call \in Call
            /\ generated \in 0 .. MaxOccurrences
        BY <2>6 DEF Emit, Typed, Numbers
      <3>2. Tail(queue) \in Seq(Int) /\ Head(queue) \in Int
        BY <3>1
      <3>3. Head(queue) \in Nat
        BY <3>1, <3>2 DEF Call
      <3>4. Append(out, Head(queue)) \in Seq(Nat)
        BY <3>1, <3>3
      <3>5. /\ queue' \in Seq(Int) /\ out' \in Seq(Nat)
            /\ status' \in {"walking", "ended", "refused"}
            /\ generated' = generated + 1
            /\ status' = "walking" => ~ (generated + 1 > MaxOccurrences)
            /\ UNCHANGED <<call, period>>
        BY <2>6, <3>1, <3>2, <3>4 DEF Emit
      <3>6. /\ generated' \in 0 .. MaxOccurrences + 1
            /\ status' = "walking" => generated' <= MaxOccurrences
        BY <3>1, <3>5
      <3> QED
        BY <2>1, <3>1, <3>5, <3>6 DEF Typed, Numbers
    <2> QED
      BY <1>7, <2>2, <2>3, <2>4, <2>5, <2>6 DEF Expand, Walk
  <1>8. CASE Collect
    <2>1. /\ status # "idle" /\ pos < Len(doc)
          /\ cur' = None /\ pos' = pos + 1 /\ UNCHANGED <<doc, window>>
          /\ period' = 0 /\ queue' = <<>> /\ generated' = 0 /\ out' = <<>> /\ status' = "idle"
      BY <1>8 DEF Collect, Return, Typed
    <2>2. pos + 1 \in 0 .. Len(doc)
      BY <2>1, LineReadable
    <2> QED
      BY <2>1, <2>2 DEF Typed, Numbers
  <1>9. CASE EndOfStream
    BY <1>9 DEF EndOfStream, vars, stream, Typed, Numbers, Asked
  <1>10. CASE ReadFails
    BY <1>10 DEF ReadFails, vars, stream, Typed, Numbers, Asked
  <1> QED
    BY <1>1, <1>2, <1>3, <1>4, <1>5, <1>6, <1>7, <1>8, <1>9, <1>10 DEF IcsNext

(* The variables of the walk keep their types, whatever a feed sends: the  *)
(* loops over periods and occurrences stay within the limits, and no walk  *)
(* is asked for a rule or a start that was not read.                       *)
THEOREM WalkTypes == IcsSpec => []TypeOK
  <1>1. Typed => TypeOK
    BY DEF Typed, Numbers, TypeOK
  <1> QED
    BY <1>1, TypedInit, TypedNext, PTL DEF IcsSpec

----------------------------------------------------------------------------
(* The walk                                                                *)

(* The days before f that the rule means.                                  *)
Days(c, f) == {d \in c.start .. f - 1 : Matches(c.rule, c.start, d)}

(* How far the walk has come: it stands before its next candidate, or      *)
(* before the next period.                                                 *)
Edge(c, q, p) == IF q = <<>> THEN PeriodStart(c.rule, c.start, p) ELSE Head(q)

(* The candidates left are the days the rule means in what is left of      *)
(* their period.                                                           *)
Ahead(c, q, p) ==
    q # <<>> =>
      /\ p \in Nat \ {0} /\ Rising(q)
      /\ \A k \in DOMAIN q : InPeriod(c.rule, c.start, p - 1, q[k])
      /\ \A d \in Int : d >= c.start /\ Head(q) <= d /\ d < PeriodStart(c.rule, c.start, p) =>
            (Matches(c.rule, c.start, d) <=> \E k \in DOMAIN q : q[k] = d)

(* D are the days passed: n of them, within the rule's limits, and o those *)
(* inside the window.                                                      *)
Counted(c, D, o, n) ==
    /\ n = Cardinality(D)
    /\ \A d \in D : d <= c.window[2] /\ (c.rule.until > 0 => d <= c.rule.until)
    /\ c.rule.count > 0 => n <= c.rule.count
    /\ ToSet(o) = {d \in D : d >= c.window[1]}

Valid(c) == c \in Call /\ Supported(c.rule)
InOrder(c) == c.rule.freq = "WEEKLY" => DaysRise(c.rule)

LEMMA ValidParts ==
    ASSUME NEW c, Valid(c)
    PROVE  /\ c.rule \in Rule /\ Supported(c.rule) /\ c.start \in Nat \ {0}
           /\ c.window[1] \in Nat /\ c.window[2] \in Nat
           /\ c.rule.count \in Nat /\ c.rule.until \in Nat
           /\ c.exdates \in SUBSET Nat
  <1>1. /\ c.rule \in Rule /\ Supported(c.rule) /\ c.start \in Nat \ {0} /\ c.window \in Windows
        /\ c.exdates \in SUBSET Nat
    BY DEF Valid, Call
  <1>2. c.window[1] \in Nat /\ c.window[2] \in Nat
    BY <1>1, WindowsAssumption
  <1>3. c.rule.count \in Nat /\ c.rule.until \in Nat
    BY <1>1 DEF Rule
  <1> QED
    BY <1>1, <1>2, <1>3

LEMMA PeriodKnown ==
    ASSUME NEW c, Valid(c), NEW p \in Nat
    PROVE  /\ Sound(c.rule, c.start, p)
           /\ PeriodStart(c.rule, c.start, p) \in Int
  <1>1. c.rule \in Rule /\ Supported(c.rule) /\ c.start \in Nat \ {0}
    BY ValidParts
  <1>2. Sound(c.rule, c.start, p)
    BY <1>1, PeriodsSound
  <1> QED
    BY <1>2 DEF Sound

LEMMA RisingHead ==
    ASSUME NEW q \in Seq(Int), q # <<>>, Rising(q)
    PROVE  /\ Head(q) = q[1] /\ 1 \in DOMAIN q /\ Head(q) \in Int
           /\ \A k \in DOMAIN q : Head(q) <= q[k]
  <1>1. Head(q) = q[1] /\ 1 \in DOMAIN q /\ Head(q) \in Int
    BY DEF Rising
  <1>2. ASSUME NEW k \in DOMAIN q
        PROVE  Head(q) <= q[k]
    <2>1. q[k] \in Int /\ k \in Nat /\ k >= 1
      OBVIOUS
    <2>2. CASE k = 1
      BY <1>1, <2>1, <2>2
    <2>3. CASE k # 1
      <3>1. 1 < k
        BY <2>1, <2>3
      <3>2. q[1] < q[k]
        BY <1>1, <3>1 DEF Rising
      <3> QED
        BY <1>1, <2>1, <3>2
    <2> QED
      BY <2>2, <2>3
  <1> QED
    BY <1>1, <1>2

(* A new period: nothing the rule means lies before its first candidate.   *)
LEMMA PeriodBegins ==
    ASSUME NEW c, Valid(c), InOrder(c), NEW p \in Nat,
           NEW q, q = Candidates(c.rule, c.start, p)
    PROVE  /\ Ahead(c, q, p + 1)
           /\ Days(c, Edge(c, q, p + 1)) = Days(c, PeriodStart(c.rule, c.start, p))
  <1> DEFINE lo == PeriodStart(c.rule, c.start, p)
             hi == PeriodStart(c.rule, c.start, p + 1)
             Meant(d) == Matches(c.rule, c.start, d)
             f == Edge(c, q, p + 1)
  <1>1. /\ lo \in Int /\ hi \in Int /\ lo < hi /\ c.start \in Int
        /\ q \in Seq(Int) /\ Rising(q)
        /\ \A k \in DOMAIN q : lo <= q[k] /\ q[k] < hi
        /\ \A d \in Int : d >= c.start /\ lo <= d /\ d < hi => (Meant(d) <=> \E k \in DOMAIN q : q[k] = d)
    <2>1. p + 1 \in Nat /\ c.start \in Int
      BY ValidParts
    <2>2. Sound(c.rule, c.start, p) /\ hi \in Int
      BY <2>1, PeriodKnown
    <2> QED
      BY <2>1, <2>2 DEF Sound, InPeriod, InOrder
  <1>2. q # <<>> => /\ Head(q) \in Int /\ lo <= Head(q) /\ Head(q) < hi
                    /\ \A k \in DOMAIN q : Head(q) <= q[k]
    <2> SUFFICES ASSUME q # <<>>
                 PROVE  /\ Head(q) \in Int /\ lo <= Head(q) /\ Head(q) < hi
                        /\ \A k \in DOMAIN q : Head(q) <= q[k]
      OBVIOUS
    <2>1. /\ Head(q) = q[1] /\ 1 \in DOMAIN q /\ Head(q) \in Int
          /\ \A k \in DOMAIN q : Head(q) <= q[k]
      BY <1>1, RisingHead
    <2> QED
      BY <1>1, <2>1
  <1>3. f = IF q = <<>> THEN hi ELSE Head(q)
    BY DEF Edge
  <1>4. f \in Int /\ lo <= f /\ f <= hi
    BY <1>1, <1>2, <1>3
  <1>5. Ahead(c, q, p + 1)
    <2>1. p + 1 \in Nat \ {0} /\ (p + 1) - 1 = p
      OBVIOUS
    <2> SUFFICES ASSUME q # <<>>
                 PROVE  /\ \A k \in DOMAIN q : InPeriod(c.rule, c.start, p, q[k])
                        /\ \A d \in Int : d >= c.start /\ Head(q) <= d /\ d < hi =>
                              (Meant(d) <=> \E k \in DOMAIN q : q[k] = d)
      BY <1>1, <2>1 DEF Ahead
    <2> HIDE DEF Meant
    <2>2. \A d \in Int : Head(q) <= d => lo <= d
      BY <1>1, <1>2
    <2> QED
      BY <1>1, <2>2 DEF InPeriod
  <1>6. Days(c, f) = Days(c, lo)
    <2> HIDE DEF lo, hi, Meant, f
    <2>1. ASSUME NEW d \in Int, c.start <= d, lo <= d, d < f, Meant(d)
          PROVE  FALSE
      <3>1. PICK k \in DOMAIN q : q[k] = d
        BY <1>1, <1>4, <2>1
      <3>2. q # <<>>
        BY <3>1
      <3> QED
        BY <1>1, <1>2, <1>3, <2>1, <3>1, <3>2
    <2>2. \A d \in Int : Meant(d) => (d \in c.start .. f - 1 <=> d \in c.start .. lo - 1)
      BY <1>1, <1>4, <2>1
    <2>3. c.start .. f - 1 \subseteq Int /\ c.start .. lo - 1 \subseteq Int
      BY <1>1, <1>4
    <2> QED
      BY <2>2, <2>3 DEF Days, Meant
  <1> QED
    BY <1>5, <1>6

(* Past a candidate: it is the only day the rule means up to where the     *)
(* walk stands then.                                                       *)
LEMMA CandidatePassed ==
    ASSUME NEW c, Valid(c), NEW p \in Nat, NEW q \in Seq(Int), q # <<>>, Ahead(c, q, p)
    PROVE  /\ Ahead(c, Tail(q), p)
           /\ Head(q) >= c.start => Matches(c.rule, c.start, Head(q))
           /\ Days(c, Edge(c, Tail(q), p)) =
                 IF Head(q) >= c.start THEN Days(c, Head(q)) \cup {Head(q)} ELSE Days(c, Head(q))
  <1> DEFINE hi == PeriodStart(c.rule, c.start, p)
             Meant(d) == Matches(c.rule, c.start, d)
             L == Len(q)
             t == Head(q)
             rest == Tail(q)
             f == Edge(c, rest, p)
  <1>1. /\ L \in Nat \ {0} /\ DOMAIN q = 1 .. L /\ \A k \in 1 .. L : q[k] \in Int
        /\ rest \in Seq(Int) /\ DOMAIN rest = 1 .. L - 1 /\ Len(rest) = L - 1
        /\ \A k \in 1 .. L - 1 : rest[k] = q[k + 1]
        /\ rest # <<>> <=> L > 1
    <2>1. L \in Nat \ {0} /\ DOMAIN q = 1 .. L /\ \A k \in 1 .. L : q[k] \in Int
      OBVIOUS
    <2>2. rest \in Seq(Int) /\ Len(rest) = L - 1 /\ \A k \in 1 .. L - 1 : rest[k] = q[k + 1]
      OBVIOUS
    <2> HIDE DEF L, rest
    <2>3. DOMAIN rest = 1 .. L - 1 /\ (rest = <<>> <=> Len(rest) = 0)
      <3>1. \A r \in Seq(Int) : DOMAIN r = 1 .. Len(r) /\ (r = <<>> <=> Len(r) = 0)
        OBVIOUS
      <3> QED
        BY <2>2, <3>1
    <2> QED
      BY <2>1, <2>2, <2>3
  <1>2. p - 1 \in Nat /\ hi \in Int /\ c.start \in Int /\ (p - 1) + 1 = p
    <2>1. p \in Nat \ {0}
      BY DEF Ahead
    <2> QED
      BY <2>1, ValidParts, PeriodKnown
  <1>3. /\ Rising(q) /\ \A k \in DOMAIN q : q[k] < hi
        /\ \A d \in Int : d >= c.start /\ t <= d /\ d < hi => (Meant(d) <=> \E k \in DOMAIN q : q[k] = d)
        /\ \A k \in DOMAIN q : InPeriod(c.rule, c.start, p - 1, q[k])
    BY <1>2 DEF Ahead, InPeriod
  <1>3a. \A k, l \in 1 .. L : k < l => q[k] < q[l]
    BY <1>1, <1>3 DEF Rising
  <1>4. t = q[1] /\ t \in Int /\ \A k \in DOMAIN q : t <= q[k]
    BY <1>3, RisingHead
  <1>5. t < hi
    BY <1>1, <1>3, <1>4
  <1>6. f = IF rest = <<>> THEN hi ELSE q[2]
    <2>1. rest # <<>> => Head(rest) = rest[1] /\ rest[1] = q[2]
      BY <1>1
    <2> QED
      BY <2>1 DEF Edge
  <1>7. f \in Int /\ t < f /\ f <= hi /\ \A k \in 2 .. L : f <= q[k]
    <2>1. CASE rest = <<>>
      BY <1>1, <1>2, <1>5, <1>6, <2>1
    <2>2. CASE rest # <<>>
      <3>1. 2 \in 1 .. L /\ 1 \in 1 .. L /\ f = q[2]
        BY <1>1, <1>6, <2>2
      <3>2. \A k \in 2 .. L : k \in 1 .. L /\ (k = 2 \/ 2 < k)
        BY <1>1
      <3>3. q[1] < q[2] /\ q[2] < hi /\ q[2] \in Int
        BY <1>1, <1>3, <1>3a, <3>1
      <3>4. \A k \in 2 .. L : q[2] <= q[k]
        <4> TAKE k \in 2 .. L
        <4>1. q[k] \in Int /\ (k = 2 \/ q[2] < q[k])
          BY <1>1, <1>3a, <3>1, <3>2
        <4> QED
          BY <3>3, <4>1
      <3> HIDE DEF f
      <3> QED
        BY <1>2, <1>4, <3>1, <3>3, <3>4
    <2> QED
      BY <2>1, <2>2
  <1> HIDE DEF f, Meant, t, L, rest
  <1>8. t >= c.start => Meant(t)
    <2>1. 1 \in DOMAIN q /\ q[1] = t /\ t <= t
      BY <1>1, <1>4
    <2> QED
      BY <1>3, <1>4, <1>5, <2>1
  <1>9. \A k \in 1 .. L : k = 1 \/ (k \in 2 .. L /\ k - 1 \in 1 .. L - 1 /\ (k - 1) + 1 = k)
    BY <1>1
  <1>10. ASSUME NEW d \in Int, c.start <= d, t < d, d < f
         PROVE  ~ Meant(d)
    <2> SUFFICES ASSUME Meant(d) PROVE FALSE
      OBVIOUS
    <2>1. PICK k \in DOMAIN q : q[k] = d
      BY <1>2, <1>3, <1>4, <1>7, <1>10
    <2>2. k \in 2 .. L
      BY <1>1, <1>4, <1>9, <1>10, <2>1
    <2> QED
      BY <1>7, <1>10, <2>1, <2>2
  <1>11. Ahead(c, rest, p)
    <2> SUFFICES ASSUME rest # <<>>
                 PROVE  /\ Rising(rest)
                        /\ \A k \in DOMAIN rest : InPeriod(c.rule, c.start, p - 1, rest[k])
                        /\ \A d \in Int : d >= c.start /\ Head(rest) <= d /\ d < hi =>
                              (Meant(d) <=> \E k \in DOMAIN rest : rest[k] = d)
      BY <1>2 DEF Ahead, Meant
    <2>1. \A k \in 1 .. L - 1 : k \in Int /\ k + 1 \in 1 .. L /\ k + 1 \in 2 .. L
      BY <1>1
    <2>2. Rising(rest)
      <3> SUFFICES ASSUME NEW k \in 1 .. L - 1, NEW l \in 1 .. L - 1, k < l
                   PROVE  rest[k] < rest[l]
        BY <1>1 DEF Rising
      <3>1. k + 1 < l + 1
        BY <2>1
      <3> QED
        BY <1>1, <1>3, <2>1, <3>1 DEF Rising
    <2>3. \A k \in DOMAIN rest : InPeriod(c.rule, c.start, p - 1, rest[k])
      BY <1>1, <1>3, <2>1
    <2>4. Head(rest) = f
      BY DEF Edge, f
    <2>5. ASSUME NEW d \in Int, d >= c.start, f <= d, d < hi
          PROVE  Meant(d) <=> \E k \in DOMAIN rest : rest[k] = d
      <3>1. t <= d /\ t # d
        BY <1>4, <1>7, <2>5
      <3>2. Meant(d) <=> \E k \in 1 .. L : q[k] = d
        BY <1>1, <1>3, <2>5, <3>1
      <3>3. (\E k \in 1 .. L : q[k] = d) => \E k \in 1 .. L - 1 : rest[k] = d
        <4> SUFFICES ASSUME NEW k \in 1 .. L, q[k] = d
                     PROVE  \E j \in 1 .. L - 1 : rest[j] = d
          OBVIOUS
        <4>1. k # 1
          BY <1>4, <3>1
        <4>2. k - 1 \in 1 .. L - 1 /\ rest[k - 1] = d
          BY <1>1, <1>9, <4>1
        <4> QED
          BY <4>2
      <3>4. (\E k \in 1 .. L - 1 : rest[k] = d) => \E k \in 1 .. L : q[k] = d
        BY <1>1, <2>1
      <3> QED
        BY <1>1, <3>2, <3>3, <3>4
    <2> QED
      BY <2>2, <2>3, <2>4, <2>5
  <1>12. Days(c, f) = IF t >= c.start THEN Days(c, t) \cup {t} ELSE Days(c, t)
    <2>1. \A d : d \in Days(c, f) <=> d \in Int /\ c.start <= d /\ d < f /\ Meant(d)
      BY <1>2, <1>7 DEF Days, Meant
    <2>2. \A d : d \in Days(c, t) <=> d \in Int /\ c.start <= d /\ d < t /\ Meant(d)
      BY <1>2, <1>4 DEF Days, Meant
    <2>3. ASSUME NEW d \in Int, c.start <= d, Meant(d)
          PROVE  d < f <=> d < t \/ d = t
      BY <1>4, <1>7, <1>10, <2>3
    <2>4. t >= c.start => c.start <= t
      BY <1>2, <1>4
    <2>5. ~ (t >= c.start) => \A d \in Int : c.start <= d => d # t
      BY <1>2, <1>4
    <2> QED
      BY <1>4, <1>8, <2>1, <2>2, <2>3, <2>4, <2>5
  <1> QED
    BY <1>8, <1>11, <1>12 DEF f, t, rest, Meant

LEMMA DaysFinite ==
    ASSUME NEW c, Valid(c), NEW f \in Int
    PROVE  /\ IsFiniteSet(Days(c, f)) /\ Cardinality(Days(c, f)) \in Nat
           /\ \A d : d \in Days(c, f) <=>
                 d \in Int /\ c.start <= d /\ d < f /\ Matches(c.rule, c.start, d)
  <1>1. c.start \in Int /\ f - 1 \in Int
    BY ValidParts
  <1>2. Days(c, f) \in SUBSET (c.start .. f - 1)
    BY DEF Days
  <1>3. IsFiniteSet(c.start .. f - 1)
    BY <1>1, FS_Interval
  <1>4. IsFiniteSet(Days(c, f))
    BY <1>2, <1>3, FS_Subset
  <1>5. Cardinality(Days(c, f)) \in Nat
    BY <1>4, FS_CardinalityType
  <1>6. \A d : d \in c.start .. f - 1 <=> d \in Int /\ c.start <= d /\ d < f
    BY <1>1
  <1> QED
    BY <1>4, <1>5, <1>6 DEF Days

(* One day more.                                                           *)
LEMMA DayCounted ==
    ASSUME NEW c, Valid(c), NEW t \in Int, t >= c.start, NEW o \in Seq(Nat), NEW n,
           Counted(c, Days(c, t), o, n),
           t <= c.window[2], c.rule.until > 0 => t <= c.rule.until,
           c.rule.count > 0 => n + 1 <= c.rule.count
    PROVE  Counted(c, Days(c, t) \cup {t}, IF t < c.window[1] THEN o ELSE Append(o, t), n + 1)
  <1> DEFINE D == Days(c, t)
             o2 == IF t < c.window[1] THEN o ELSE Append(o, t)
  <1>1. /\ IsFiniteSet(D) /\ t \notin D /\ n = Cardinality(D) /\ n \in Nat
    BY DaysFinite DEF Counted
  <1>2. n + 1 = Cardinality(D \cup {t})
    BY <1>1, FS_AddElement
  <1>3. /\ \A d \in D : d <= c.window[2] /\ (c.rule.until > 0 => d <= c.rule.until)
        /\ ToSet(o) = {d \in D : d >= c.window[1]}
    BY DEF Counted
  <1>4. c.window[1] \in Nat /\ c.start \in Nat
    BY ValidParts
  <1> HIDE DEF D
  <1>5. ToSet(o2) = {d \in D \cup {t} : d >= c.window[1]}
    <2>1. CASE t < c.window[1]
      <3>1. ~ (t >= c.window[1]) /\ o2 = o
        BY <1>4, <2>1
      <3> QED
        BY <1>3, <3>1
    <2>2. CASE ~ (t < c.window[1])
      <3>1. t >= c.window[1] /\ o2 = Append(o, t) /\ t \in Nat
        BY <1>4, <2>2
      <3> DEFINE L == Len(o)
      <3>2. /\ L \in Nat /\ DOMAIN o = 1 .. L /\ DOMAIN o2 = 1 .. L + 1
            /\ o2[L + 1] = t /\ \A k \in 1 .. L : o2[k] = o[k]
        BY <3>1
      <3> HIDE DEF L, o2
      <3>3. \A k : k \in 1 .. L + 1 <=> k \in 1 .. L \/ k = L + 1
        BY <3>2
      <3>4. \A x : x \in ToSet(o2) <=> x \in ToSet(o) \/ x = t
        BY <3>2, <3>3 DEF ToSet
      <3> QED
        BY <1>3, <3>1, <3>4
    <2> QED
      BY <2>1, <2>2
  <1> HIDE DEF o2
  <1>6. Counted(c, D \cup {t}, o2, n + 1)
    BY <1>2, <1>3, <1>5 DEF Counted
  <1> QED
    BY <1>6 DEF D, o2

(* The walk stopped at t: what it passed is all the rule means.            *)
LEMMA StoppedComplete ==
    ASSUME Valid(call), NEW t \in Int, t >= call.start, Matches(call.rule, call.start, t),
           out \in Seq(Nat), NEW n \in Int,
           Counted(call, Days(call, t), out, n - 1), LastOne(t, n)
    PROVE  Complete
  <1> DEFINE D == Days(call, t)
             S == Series(call)
             UpToDay(d) == {x \in S : x <= d}
             lo == call.window[1]
             hi == call.window[2]
             count == call.rule.count
             until == call.rule.until
  <1>1. /\ call.start \in Nat \ {0} /\ lo \in Nat /\ hi \in Nat /\ count \in Nat /\ until \in Nat
    BY ValidParts
  <1>2. /\ IsFiniteSet(D) /\ Cardinality(D) = n - 1 /\ Cardinality(D) \in Nat
        /\ \A d : d \in D <=> d \in Int /\ call.start <= d /\ d < t /\ Matches(call.rule, call.start, d)
    BY DaysFinite DEF Counted
  <1>3. \A d : d \in S <=> d \in Int /\ call.start <= d /\ d <= hi /\ Matches(call.rule, call.start, d)
    <2>1. \A d : d \in call.start .. hi <=> d \in Int /\ call.start <= d /\ d <= hi
      BY <1>1
    <2> HIDE DEF hi
    <2>2. S = {d \in call.start .. hi : Matches(call.rule, call.start, d)}
      BY DEF Series, hi
    <2> HIDE DEF S
    <2> QED
      BY <2>1, <2>2
  <1>4. /\ \A d \in D : d <= hi /\ (until > 0 => d <= until)
        /\ count > 0 => n - 1 <= count
        /\ ToSet(out) = {d \in D : d >= lo}
    BY DEF Counted
  <1>5. (count > 0 /\ n > count) \/ (until > 0 /\ t > until) \/ t > hi
    BY DEF LastOne
  <1>6. \A d : d \in Occurrences(call) <=>
           /\ d \in S /\ d >= lo /\ d \notin call.exdates
           /\ until > 0 => d <= until
           /\ count > 0 => Cardinality(UpToDay(d)) <= count
    BY DEF Occurrences
  <1>7. \A d : d \in ToSet(Expanded) <=> d \in D /\ d >= lo /\ d \notin call.exdates
    BY <1>4, ExpandedKeeps
  <1> HIDE DEF D, S, lo, hi, count, until
  <1>8. ASSUME NEW d \in D
        PROVE  d \in S /\ (until > 0 => d <= until) /\ (count > 0 => Cardinality(UpToDay(d)) <= count)
    <2>1. d \in S /\ (until > 0 => d <= until)
      BY <1>2, <1>3, <1>4
    <2>2. UpToDay(d) \in SUBSET D
      <3>1. ASSUME NEW x, x \in S, x <= d
            PROVE  x \in D
        BY <1>2, <1>3, <3>1
      <3> QED
        BY <3>1
    <2> HIDE DEF UpToDay
    <2>3. Cardinality(UpToDay(d)) <= Cardinality(D) /\ Cardinality(UpToDay(d)) \in Nat
      BY <1>2, <2>2, FS_Subset, FS_CardinalityType
    <2> QED
      BY <1>1, <1>2, <1>4, <2>1, <2>3
  <1>9. ASSUME NEW d \in S, d \notin D, until > 0 => d <= until,
               count > 0 => Cardinality(UpToDay(d)) <= count
        PROVE  FALSE
    <2>1. d \in Int /\ t <= d /\ d <= hi
      BY <1>2, <1>3, <1>9
    <2>2. ~ (t > hi) /\ ~ (until > 0 /\ t > until)
      BY <1>1, <1>9, <2>1
    <2>3. count > 0 /\ n > count
      BY <1>5, <2>2
    <2>4. t \in S
      BY <1>1, <1>3, <2>1
    <2>5. D \cup {t} \in SUBSET UpToDay(d)
      <3>1. ASSUME NEW x \in D
            PROVE  x \in S /\ x <= d
        BY <1>2, <1>3, <1>4, <2>1
      <3> QED
        BY <2>1, <2>4, <3>1
    <2>6. IsFiniteSet(UpToDay(d))
      <3>1. UpToDay(d) \in SUBSET (call.start .. d)
        <4>1. ASSUME NEW x, x \in S, x <= d
              PROVE  x \in call.start .. d
          BY <1>1, <1>3, <2>1, <4>1
        <4> QED
          BY <4>1
      <3>2. IsFiniteSet(call.start .. d)
        <4>1. call.start \in Int /\ d \in Int
          BY <1>1, <2>1
        <4> QED
          BY <4>1, FS_Interval
      <3> QED
        BY <3>1, <3>2, FS_Subset
    <2> HIDE DEF UpToDay
    <2>7. Cardinality(D \cup {t}) = n
      <3>1. t \notin D
        BY <1>2
      <3>2. Cardinality(D \cup {t}) = Cardinality(D) + 1
        BY <1>2, <3>1, FS_AddElement
      <3> QED
        BY <1>2, <3>2
    <2>8. n <= Cardinality(UpToDay(d)) /\ Cardinality(UpToDay(d)) \in Nat
      BY <2>5, <2>6, <2>7, FS_Subset, FS_CardinalityType
    <2> QED
      BY <1>1, <1>9, <2>3, <2>8
  <1>10. \A d : d \in ToSet(Expanded) <=> d \in Occurrences(call)
    <2> HIDE DEF UpToDay
    <2> QED
      BY <1>6, <1>7, <1>8, <1>9
  <1> QED
    BY <1>10 DEF Complete

(* A walk has counted the days before where it stands, and one that ended  *)
(* stands at the first day too many.                                       *)
WalkCounts ==
    InOrder(call) =>
      /\ status = "walking" =>
           /\ Ahead(call, queue, period)
           /\ Counted(call, Days(call, Edge(call, queue, period)), out, generated)
      /\ status = "ended" /\ ~ Cut =>
           /\ queue # <<>> /\ Head(queue) >= call.start
           /\ Matches(call.rule, call.start, Head(queue))
           /\ Counted(call, Days(call, Head(queue)), out, generated - 1)
           /\ LastOne(Head(queue), generated)

LEMMA WalkParsed ==
    ASSUME Typed, WalkCounts, Parse
    PROVE  WalkCounts'
  <1> SUFFICES ASSUME InOrder(call), Supported(call.rule)
               PROVE  /\ Ahead(call, <<>>, 0)
                      /\ Counted(call, Days(call, Edge(call, <<>>, 0)), <<>>, 0)
    <2>1. /\ queue = <<>> /\ period = 0 /\ out = <<>> /\ generated = 0
          /\ UNCHANGED <<call, queue, period, out, generated>>
          /\ status' = IF Supported(call.rule) THEN "walking" ELSE "refused"
      BY DEF Typed, Parse
    <2> QED
      BY <2>1 DEF WalkCounts
  <1>1. Valid(call)
    BY DEF Valid, Typed, Parse
  <1>2. call.rule \in Rule /\ call.start \in Nat \ {0}
    BY <1>1, ValidParts
  <1> DEFINE f == PeriodStart(call.rule, call.start, 0)
  <1>3. f \in Int /\ f <= call.start
    BY <1>1, <1>2, PeriodKnown, FirstPeriod
  <1> HIDE DEF f
  <1>4. Days(call, f) = {}
    <2>1. \A d : d \in Days(call, f) => d \in Int /\ call.start <= d /\ d < f
      BY <1>1, <1>3, DaysFinite
    <2> QED
      BY <1>2, <1>3, <2>1
  <1>5. Edge(call, <<>>, 0) = f
    BY DEF Edge, f
  <1>6. Counted(call, {}, <<>>, 0)
    <2>1. call.rule.count \in Nat /\ ToSet(<<>>) = {} /\ Cardinality({}) = 0
      BY <1>1, ValidParts, FS_EmptySet DEF ToSet
    <2> QED
      BY <2>1 DEF Counted
  <1> QED
    BY <1>4, <1>5, <1>6 DEF Ahead

LEMMA WalkPeriod ==
    ASSUME Typed, WalkCounts, NextPeriod
    PROVE  WalkCounts'
  <1> SUFFICES ASSUME InOrder(call)
               PROVE  /\ Ahead(call, queue', period + 1)
                      /\ Counted(call, Days(call, Edge(call, queue', period + 1)), out, generated)
    BY DEF WalkCounts, NextPeriod
  <1>1. /\ status = "walking" /\ queue = <<>> /\ period \in Nat /\ Valid(call)
        /\ queue' = Candidates(call.rule, call.start, period)
    BY DEF NextPeriod, Typed, Numbers, Valid
  <1>2. Counted(call, Days(call, PeriodStart(call.rule, call.start, period)), out, generated)
    BY <1>1 DEF WalkCounts, Edge
  <1> QED
    BY <1>1, <1>2, PeriodBegins

LEMMA WalkSkips ==
    ASSUME Typed, WalkCounts, BeforeStart
    PROVE  WalkCounts'
  <1> SUFFICES ASSUME InOrder(call)
               PROVE  /\ Ahead(call, Tail(queue), period)
                      /\ Counted(call, Days(call, Edge(call, Tail(queue), period)), out, generated)
    BY DEF WalkCounts, BeforeStart
  <1>1. /\ status = "walking" /\ queue # <<>> /\ queue \in Seq(Int) /\ period \in Nat /\ Valid(call)
        /\ Head(queue) < call.start
    BY DEF BeforeStart, Typed, Numbers, Valid
  <1>2. /\ Ahead(call, queue, period)
        /\ Counted(call, Days(call, Head(queue)), out, generated)
    BY <1>1 DEF WalkCounts, Edge
  <1>3. ~ (Head(queue) >= call.start)
    <2>1. Head(queue) \in Int /\ call.start \in Nat
      BY <1>1, ValidParts
    <2> QED
      BY <1>1, <2>1
  <1> QED
    BY <1>1, <1>2, <1>3, CandidatePassed

LEMMA WalkEmits ==
    ASSUME Typed, WalkCounts, Emit
    PROVE  WalkCounts'
  <1>1. /\ status = "walking" /\ queue # <<>> /\ queue \in Seq(Int) /\ period \in Nat /\ Valid(call)
        /\ Head(queue) >= call.start /\ generated \in Nat /\ out \in Seq(Nat)
        /\ generated' = generated + 1 /\ UNCHANGED <<call, period>>
    BY DEF Emit, Typed, Numbers, Valid
  <1>2. Head(queue) \in Int
    BY <1>1
  <1> DEFINE t == Head(queue)
  <1> SUFFICES ASSUME InOrder(call)
               PROVE  WalkCounts'
    BY <1>1 DEF WalkCounts
  <1>3. /\ Ahead(call, queue, period)
        /\ Counted(call, Days(call, t), out, generated)
    BY <1>1 DEF WalkCounts, Edge
  <1>4. /\ Ahead(call, Tail(queue), period)
        /\ Matches(call.rule, call.start, t)
        /\ Days(call, Edge(call, Tail(queue), period)) = Days(call, t) \cup {t}
    BY <1>1, <1>3, CandidatePassed
  <1>5. CASE LastOne(t, generated + 1)
    <2>1. status' = "ended" /\ UNCHANGED <<queue, out>>
      BY <1>5 DEF Emit
    <2>2. generated' - 1 = generated
      BY <1>1
    <2>3. call' = call /\ queue' = queue /\ out' = out /\ generated' = generated + 1
      BY <1>1, <2>1
    <2>4. LastOne(Head(queue), generated)'
      BY <1>5, <2>3 DEF LastOne
    <2>5. /\ (queue # <<>>)' /\ (Head(queue) >= call.start)'
          /\ Matches(call.rule, call.start, Head(queue))'
      <3>1. Matches(call.rule, call.start, Head(queue))' = Matches(call'.rule, call'.start, Head(queue'))
        BY DEF Matches, DayMatches, DateMatches, Alike
      <3> QED
        BY <1>1, <1>4, <2>3, <3>1
    <2>6. Counted(call, Days(call, Head(queue)), out, generated - 1)'
      <3>1. Counted(call, Days(call, Head(queue)), out, generated - 1)'
               = Counted(call', Days(call', Head(queue')), out', generated' - 1)
        OBVIOUS
      <3> QED
        BY <1>3, <2>2, <2>3, <3>1
    <2> QED
      BY <2>1, <2>4, <2>5, <2>6 DEF WalkCounts
  <1>6. CASE ~ LastOne(t, generated + 1) /\ generated + 1 > MaxOccurrences
    <2>1. status' = "refused"
      BY <1>6 DEF Emit
    <2> QED
      BY <2>1 DEF WalkCounts
  <1>7. CASE ~ LastOne(t, generated + 1) /\ ~ (generated + 1 > MaxOccurrences)
    <2>1. /\ queue' = Tail(queue) /\ status' = "walking"
          /\ out' = IF t < call.window[1] THEN out ELSE Append(out, t)
      BY <1>1, <1>7 DEF Emit
    <2>2. /\ call.window[2] \in Nat /\ call.rule.until \in Nat /\ call.rule.count \in Nat
      BY <1>1, ValidParts
    <2>3. /\ t <= call.window[2] /\ (call.rule.until > 0 => t <= call.rule.until)
          /\ (call.rule.count > 0 => generated + 1 <= call.rule.count)
      BY <1>1, <1>2, <1>7, <2>2 DEF LastOne
    <2>4. Counted(call, Days(call, t) \cup {t}, out', generated + 1)
      BY <1>1, <1>2, <1>3, <2>1, <2>3, DayCounted
    <2> QED
      BY <1>1, <1>4, <2>1, <2>4 DEF WalkCounts
  <1> QED
    BY <1>5, <1>6, <1>7

LEMMA WalkCountsNext == Typed /\ WalkCounts /\ [IcsNext]_icsVars => WalkCounts'
  <1> SUFFICES ASSUME Typed, WalkCounts, [IcsNext]_icsVars
               PROVE  WalkCounts'
    OBVIOUS
  <1>1. CASE UNCHANGED vars
    BY <1>1 DEF vars, WalkCounts, Cut, LastOne
  <1>2. CASE Expand
    <2>1. CASE RunOut
      BY <2>1 DEF RunOut, WalkCounts, Cut
    <2> QED
      BY <1>2, <2>1, WalkParsed, WalkPeriod, WalkSkips, WalkEmits DEF Expand, Walk
  <1>3. CASE EndRecurring
    BY <1>3 DEF EndRecurring, Begin, WalkCounts
  <1>4. CASE Collect
    BY <1>4 DEF Collect, Return, WalkCounts
  <1> QED
    BY <1>1, <1>2, <1>3, <1>4
       DEF IcsNext, icsVars, BeginComponent, EndComponent, ReadProperty, EndSingle, EndOfStream, ReadFails

(* For any rule, start and window: a walk that ends lists exactly the days *)
(* the rule means, but for a WEEKLY rule whose days are out of order and a *)
(* walk that the bound on periods ends.                                    *)
THEOREM WalkExact == IcsSpec => []Exact
  <1>1. IcsInit => WalkCounts
    BY DEF IcsInit, Init, WalkCounts
  <1>2. Typed /\ WalkCounts => Exact
    <2> SUFFICES ASSUME Typed, WalkCounts, status = "ended", ~ Cut,
                        call.rule.freq = "WEEKLY" => InWeekOrder
                 PROVE  Complete
      BY DEF Exact
    <2>1. InOrder(call)
      BY DEF InOrder, DaysRise, InWeekOrder
    <2>2. /\ queue # <<>> /\ Head(queue) >= call.start
          /\ Matches(call.rule, call.start, Head(queue))
          /\ Counted(call, Days(call, Head(queue)), out, generated - 1)
          /\ LastOne(Head(queue), generated)
      BY <2>1 DEF WalkCounts
    <2>3. /\ Valid(call) /\ Head(queue) \in Int /\ out \in Seq(Nat) /\ generated \in Int
      BY <2>2 DEF Valid, Typed, Numbers
    <2> QED
      BY <2>2, <2>3, StoppedComplete
  <1> QED
    BY <1>1, <1>2, TypedInit, TypedNext, WalkCountsNext, PTL DEF IcsSpec

----------------------------------------------------------------------------
(* Identities                                                              *)

(* Line k begins a component, and nothing ends from there to line i.       *)
Open(d, k, i) == d[k].name = "BEGIN" /\ \A l \in k .. i : d[l].name # "END"

(* Line i is inside a component that is ignored: one that is no event, or  *)
(* an event inside an event.                                               *)
Inner(d, i) ==
    \E k \in 1 .. i - 1 :
       /\ Open(d, k, i - 1)
       /\ \/ d[k].value \notin {"VEVENT", "VCALENDAR"}
          \/ d[k].value = "VEVENT" /\ \E l \in 1 .. k - 1 : Open(d, l, k) /\ d[l].value = "VEVENT"

(* No two events are given one UID.                                        *)
OwnUid(d, i) == d[i].name = "UID" /\ ~ Inner(d, i)
OwnUids(d) == \A i, j \in DOMAIN d :
                 OwnUid(d, i) /\ OwnUid(d, j) /\ d[i].value = d[j].value => i = j

(* No WEEKLY rule lists a day twice.                                       *)
DaysOnce(d) == \A i \in DOMAIN d : d[i].name = "RRULE" /\ d[i].value.freq = "WEEKLY" =>
                  EachDayOnce(d[i].value)

(* What the lines read say of where the reader is.                         *)
Nesting ==
    /\ skipDepth \in Nat
    /\ status # "idle" => doc[pos + 1].name = "END" /\ cur.uid # None
    /\ \A k \in 1 .. pos : Open(doc, k, pos) =>
          /\ doc[k].value \notin {"VEVENT", "VCALENDAR"} => skipDepth > 0
          /\ doc[k].value = "VEVENT" => cur # None \/ skipDepth > 0
          /\ doc[k].value = "VEVENT" /\ (\E l \in 1 .. k - 1 : Open(doc, l, k) /\ doc[l].value = "VEVENT")
                => skipDepth > 0

LEMMA NotInner ==
    ASSUME Typed, Nesting, skipDepth = 0
    PROVE  ~ Inner(doc, pos + 1)
  <1> SUFFICES ASSUME Inner(doc, pos + 1)
               PROVE  FALSE
    OBVIOUS
  <1>1. pos \in Nat /\ (pos + 1) - 1 = pos
    BY DocumentsAssumption DEF Typed
  <1>2. PICK k \in 1 .. pos :
           /\ Open(doc, k, pos)
           /\ \/ doc[k].value \notin {"VEVENT", "VCALENDAR"}
              \/ /\ doc[k].value = "VEVENT"
                 /\ \E l \in 1 .. k - 1 : Open(doc, l, k) /\ doc[l].value = "VEVENT"
    BY <1>1 DEF Inner
  <1>3. skipDepth > 0
    BY <1>2 DEF Nesting
  <1> QED
    BY <1>3

LEMMA NestingNext == Typed /\ Nesting /\ [IcsNext]_icsVars => Nesting'
  <1> SUFFICES ASSUME Typed, Nesting, [IcsNext]_icsVars
               PROVE  Nesting'
    OBVIOUS
  <1>1. pos \in Nat /\ \A k \in 1 .. pos + 1 : k \in 1 .. pos \/ k = pos + 1
    BY DocumentsAssumption DEF Typed
  <1>2. \A k \in 1 .. pos : Open(doc, k, pos + 1) => Open(doc, k, pos) /\ doc[pos + 1].name # "END"
    <2> TAKE k \in 1 .. pos
    <2>1. k .. pos \subseteq k .. pos + 1 /\ pos + 1 \in k .. pos + 1
      BY <1>1
    <2> QED
      BY <2>1 DEF Open
  <1>3. skipDepth \in Nat
    BY DEF Nesting
  (* A line that ends something leaves nothing open.                       *)
  <1>4. ASSUME doc' = doc, pos' = pos + 1, skipDepth' \in Nat, status' = "idle",
               doc[pos + 1].name = "END"
        PROVE  Nesting'
    <2>1. ASSUME NEW k \in 1 .. pos + 1
          PROVE  ~ Open(doc, k, pos + 1)
      <3>1. pos + 1 \in k .. pos + 1
        BY <1>1
      <3> QED
        BY <1>4, <3>1 DEF Open
    <2>2. \A k \in 1 .. pos' : ~ Open(doc, k, pos)'
      BY <1>4, <2>1 DEF Open
    <2> QED
      BY <1>4, <2>2 DEF Nesting
  <1>5. ASSUME doc' = doc, pos' = pos, skipDepth' = skipDepth, cur' = cur,
               status' # "idle" => doc[pos + 1].name = "END" /\ cur.uid # None
        PROVE  Nesting'
    BY <1>5 DEF Nesting
  <1>6. CASE BeginComponent
    <2> DEFINE n == pos + 1
               opens == skipDepth = 0 /\ doc[n].value = "VEVENT" /\ cur = None
               calendar == skipDepth = 0 /\ doc[n].value = "VCALENDAR"
    <2>1. /\ status = "idle" /\ doc[n].name = "BEGIN"
          /\ cur' = IF opens THEN Blank ELSE cur
          /\ skipDepth' = IF opens \/ calendar THEN skipDepth ELSE skipDepth + 1
          /\ pos' = n /\ UNCHANGED <<vars, doc>>
      BY <1>6 DEF BeginComponent, Reading, Line, Deeper
    <2>2. Blank # None
      BY BlankEvent, NoneAssumption
    <2>3. skipDepth' \in Nat /\ (skipDepth > 0 => skipDepth' > 0) /\ (cur # None => cur' # None)
      BY <1>3, <2>1, <2>2
    <2>4. status' = "idle"
      BY <2>1 DEF vars
    <2>5. ~ opens /\ ~ calendar => skipDepth' > 0
      BY <1>3, <2>1
    <2>6. opens => cur' # None
      BY <2>1, <2>2
    <2>7. ASSUME NEW k \in 1 .. pos, Open(doc, k, pos)
          PROVE  /\ doc[k].value \notin {"VEVENT", "VCALENDAR"} => skipDepth' > 0
                 /\ doc[k].value = "VEVENT" => cur' # None \/ skipDepth' > 0
                 /\ doc[k].value = "VEVENT"
                    /\ (\E l \in 1 .. k - 1 : Open(doc, l, k) /\ doc[l].value = "VEVENT") => skipDepth' > 0
      BY <2>3, <2>7 DEF Nesting
    <2>8. /\ doc[n].value \notin {"VEVENT", "VCALENDAR"} => skipDepth' > 0
          /\ doc[n].value = "VEVENT" => cur' # None \/ skipDepth' > 0
      BY <2>5, <2>6
    <2>9. ASSUME doc[n].value = "VEVENT", NEW l \in 1 .. pos, doc[l].value = "VEVENT", Open(doc, l, n)
          PROVE  skipDepth' > 0
      <3>1. Open(doc, l, pos)
        BY <1>2, <2>9
      <3>2. cur # None \/ skipDepth > 0
        BY <2>9, <3>1 DEF Nesting
      <3>3. ~ opens /\ ~ calendar
        BY <1>3, <2>9, <3>2
      <3> QED
        BY <2>5, <3>3
    <2> HIDE DEF opens, calendar
    <2>10. ASSUME NEW k \in 1 .. n, Open(doc, k, n)
           PROVE  /\ doc[k].value \notin {"VEVENT", "VCALENDAR"} => skipDepth' > 0
                  /\ doc[k].value = "VEVENT" => cur' # None \/ skipDepth' > 0
                  /\ doc[k].value = "VEVENT"
                     /\ (\E l \in 1 .. k - 1 : Open(doc, l, k) /\ doc[l].value = "VEVENT") => skipDepth' > 0
      <3>1. CASE k \in 1 .. pos
        BY <1>2, <2>7, <2>10, <3>1
      <3>2. CASE k = n
        <4>1. 1 .. k - 1 = 1 .. pos
          BY <1>1, <3>2
        <4> QED
          BY <2>8, <2>9, <3>2, <4>1
      <3> QED
        BY <1>1, <3>1, <3>2
    <2> HIDE DEF n
    <2> QED
      BY <2>1, <2>3, <2>4, <2>10 DEF Nesting, Open
  <1>7. CASE EndComponent
    <2>1. skipDepth' \in Nat
      BY <1>3, <1>7 DEF EndComponent
    <2>2. doc' = doc /\ pos' = pos + 1 /\ status' = "idle" /\ doc[pos + 1].name = "END"
      BY <1>7 DEF EndComponent, Reading, Line, vars
    <2> QED
      BY <1>4, <2>1, <2>2
  <1>8. CASE ReadProperty
    <2> DEFINE n == pos + 1
    <2>1. /\ status' = "idle" /\ doc[n].name # "BEGIN" /\ pos' = n /\ UNCHANGED <<doc, skipDepth>>
          /\ pos < Len(doc)
          /\ cur' = IF skipDepth = 0 /\ cur # None THEN Set(cur, Line) ELSE cur
      BY <1>8 DEF ReadProperty, Reading, Line, vars
    <2>2. cur # None => cur' # None
      <3>1. cur # None => Set(cur, Line) \in icsEvent
        BY <2>1, LineReadable, SetEvent DEF Typed
      <3> QED
        BY <2>1, <3>1, NoneAssumption
    <2>3. ASSUME NEW k \in 1 .. n, Open(doc, k, n)
          PROVE  /\ doc[k].value \notin {"VEVENT", "VCALENDAR"} => skipDepth > 0
                 /\ doc[k].value = "VEVENT" => cur' # None \/ skipDepth > 0
                 /\ doc[k].value = "VEVENT"
                    /\ (\E l \in 1 .. k - 1 : Open(doc, l, k) /\ doc[l].value = "VEVENT") => skipDepth > 0
      <3>1. k \in 1 .. pos
        BY <1>1, <2>1, <2>3 DEF Open
      <3>2. Open(doc, k, pos)
        BY <1>2, <2>3, <3>1
      <3> QED
        BY <2>2, <3>1, <3>2 DEF Nesting
    <2> HIDE DEF n
    <2> QED
      BY <1>3, <2>1, <2>3 DEF Nesting, Open
  <1>9. CASE EndSingle
    <2>1. doc' = doc /\ pos' = pos + 1 /\ status' = "idle" /\ skipDepth' = skipDepth /\ doc[pos + 1].name = "END"
      BY <1>9 DEF EndSingle, AtEndOfEvent, Reading, Line, vars
    <2> QED
      BY <1>3, <1>4, <2>1
  <1>10. CASE EndRecurring
    <2>1. /\ doc' = doc /\ pos' = pos /\ skipDepth' = skipDepth /\ cur' = cur
          /\ doc[pos + 1].name = "END" /\ cur.uid # None
      BY <1>10 DEF EndRecurring, AtEndOfEvent, Unreadable, Line, stream
    <2> QED
      BY <1>5, <2>1
  <1>11. CASE Expand
    <2>1. /\ doc' = doc /\ pos' = pos /\ skipDepth' = skipDepth /\ cur' = cur
          /\ status # "idle"
      BY <1>11 DEF Expand, stream, Walk, Parse, NextPeriod, RunOut, BeforeStart, Emit
    <2>2. doc[pos + 1].name = "END" /\ cur.uid # None
      BY <2>1 DEF Nesting
    <2> QED
      BY <1>5, <2>1, <2>2
  <1>12. CASE Collect
    <2>1. doc' = doc /\ pos' = pos + 1 /\ status' = "idle" /\ skipDepth' = skipDepth /\ status # "idle"
      BY <1>12 DEF Collect, Return
    <2>2. doc[pos + 1].name = "END"
      BY <2>1 DEF Nesting
    <2> QED
      BY <1>3, <1>4, <2>1, <2>2
  <1>13. ASSUME doc' = doc, pos' = pos, skipDepth' = skipDepth, cur' = cur, status' = status
         PROVE  Nesting'
    BY <1>13 DEF Nesting
  <1>14. CASE EndOfStream
    BY <1>13, <1>14 DEF EndOfStream, vars, stream
  <1>15. CASE ReadFails
    BY <1>13, <1>15 DEF ReadFails, vars, stream
  <1>16. CASE UNCHANGED icsVars
    BY <1>13, <1>16 DEF icsVars, vars, stream
  <1> QED
    BY <1>6, <1>7, <1>8, <1>9, <1>10, <1>11, <1>12, <1>14, <1>15, <1>16 DEF IcsNext

LEMMA TailOf ==
    ASSUME NEW q \in Seq(Int), q # <<>>
    PROVE  /\ Tail(q) \in Seq(Int) /\ 1 \in DOMAIN q /\ Head(q) = q[1]
           /\ \A k \in DOMAIN Tail(q) : k + 1 \in DOMAIN q /\ Tail(q)[k] = q[k + 1] /\ k + 1 # 1
           /\ Once(q) => Once(Tail(q)) /\ \A k \in DOMAIN Tail(q) : Tail(q)[k] # Head(q)
  <1>1. /\ Tail(q) \in Seq(Int) /\ 1 \in DOMAIN q /\ Head(q) = q[1]
        /\ \A k \in DOMAIN Tail(q) : k \in Int /\ k + 1 \in DOMAIN q /\ Tail(q)[k] = q[k + 1] /\ k + 1 # 1
    OBVIOUS
  <1>2. ASSUME Once(q), NEW k \in DOMAIN Tail(q), NEW l \in DOMAIN Tail(q), Tail(q)[k] = Tail(q)[l]
        PROVE  k = l
    <2>1. k \in Int /\ l \in Int /\ k + 1 = l + 1
      BY <1>1, <1>2 DEF Once
    <2> QED
      BY <2>1
  <1>3. ASSUME Once(q), NEW k \in DOMAIN Tail(q)
        PROVE  Tail(q)[k] # Head(q)
    BY <1>1, <1>3 DEF Once
  <1> QED
    BY <1>1, <1>2, <1>3 DEF Once

LEMMA AppendOf ==
    ASSUME NEW T, NEW q \in Seq(T), NEW x \in T
    PROVE  /\ Append(q, x) \in Seq(T)
           /\ \A k \in DOMAIN Append(q, x) :
                 (k \in DOMAIN q /\ Append(q, x)[k] = q[k]) \/ (k = Len(q) + 1 /\ Append(q, x)[k] = x)
           /\ Once(q) /\ (\A k \in DOMAIN q : q[k] # x) => Once(Append(q, x))
  <1>1. /\ Append(q, x) \in Seq(T)
        /\ \A k \in DOMAIN Append(q, x) :
              (k \in DOMAIN q /\ Append(q, x)[k] = q[k]) \/ (k = Len(q) + 1 /\ Append(q, x)[k] = x)
    OBVIOUS
  <1>2. ASSUME Once(q), \A k \in DOMAIN q : q[k] # x,
               NEW k \in DOMAIN Append(q, x), NEW l \in DOMAIN Append(q, x),
               Append(q, x)[k] = Append(q, x)[l]
        PROVE  k = l
    BY <1>1, <1>2 DEF Once
  <1> QED
    BY <1>1, <1>2 DEF Once

OnceEach(r) == r.freq = "WEEKLY" => EachDayOnce(r)

(* The walk of a rule that lists no day twice meets no day twice: what is  *)
(* left of a period lies after everything of the periods before.           *)
WalkOnce ==
    OnceEach(call.rule) =>
      /\ status \in {"walking", "ended"} => Once(out)
      /\ status = "walking" =>
           /\ Once(queue)
           /\ \A k \in DOMAIN queue : \A l \in DOMAIN out : queue[k] # out[l]
           /\ \A k \in DOMAIN queue : queue[k] < PeriodStart(call.rule, call.start, period)
           /\ \A l \in DOMAIN out : out[l] < PeriodStart(call.rule, call.start, period)

LEMMA WalkOnceEmits ==
    ASSUME Typed, WalkOnce, Emit
    PROVE  WalkOnce'
  <1> DEFINE t == Head(queue)
             hi == PeriodStart(call.rule, call.start, period)
  <1>1. /\ status = "walking" /\ queue # <<>> /\ queue \in Seq(Int) /\ out \in Seq(Nat)
        /\ t >= call.start /\ call' = call /\ period' = period /\ Valid(call)
    BY DEF Emit, Typed, Numbers, Valid
  <1>2. t \in Nat
    <2>1. t \in Int /\ call.start \in Nat
      BY <1>1, ValidParts
    <2> QED
      BY <1>1, <2>1
  <1> SUFFICES ASSUME OnceEach(call.rule)
               PROVE  WalkOnce'
    BY <1>1 DEF WalkOnce
  <1>3. /\ Once(out) /\ Once(queue)
        /\ \A k \in DOMAIN queue : \A l \in DOMAIN out : queue[k] # out[l]
        /\ \A k \in DOMAIN queue : queue[k] < hi
        /\ \A l \in DOMAIN out : out[l] < hi
    BY <1>1 DEF WalkOnce
  <1>4. CASE LastOne(t, generated + 1) \/ generated + 1 > MaxOccurrences
    <2>1. status' # "walking" /\ out' = out
      BY <1>4 DEF Emit
    <2> QED
      BY <1>3, <2>1 DEF WalkOnce
  <1>5. CASE ~ LastOne(t, generated + 1) /\ ~ (generated + 1 > MaxOccurrences)
    <2>1. /\ queue' = Tail(queue) /\ status' = "walking"
          /\ out' = out \/ out' = Append(out, t)
      BY <1>1, <1>5 DEF Emit
    <2>2. /\ 1 \in DOMAIN queue /\ t = queue[1]
          /\ \A k \in DOMAIN Tail(queue) : k + 1 \in DOMAIN queue /\ Tail(queue)[k] = queue[k + 1]
          /\ Once(Tail(queue)) /\ \A k \in DOMAIN Tail(queue) : Tail(queue)[k] # t
      BY <1>1, <1>3, TailOf
    <2>3. t < hi /\ \A l \in DOMAIN out : out[l] # t
      BY <1>3, <2>2
    <2>4. /\ \A k \in DOMAIN Append(out, t) :
                (k \in DOMAIN out /\ Append(out, t)[k] = out[k]) \/ Append(out, t)[k] = t
          /\ Once(Append(out, t))
      BY <1>1, <1>2, <1>3, <2>3, AppendOf
    <2> HIDE DEF t, hi
    <2>5. Once(out') /\ \A l \in DOMAIN out' : out'[l] = t \/ \E m \in DOMAIN out : out'[l] = out[m]
      BY <1>3, <2>1, <2>4
    <2>6. \A l \in DOMAIN out' : out'[l] < hi
      BY <1>3, <2>3, <2>5
    <2>7. \A k \in DOMAIN Tail(queue) :
             /\ Tail(queue)[k] < hi /\ Tail(queue)[k] # t
             /\ \A m \in DOMAIN out : Tail(queue)[k] # out[m]
      BY <1>3, <2>2
    <2>8. \A k \in DOMAIN Tail(queue) : \A l \in DOMAIN out' : Tail(queue)[k] # out'[l]
      BY <2>5, <2>7
    <2>9. hi = PeriodStart(call'.rule, call'.start, period')
      BY <1>1 DEF hi
    <2> QED
      BY <2>1, <2>2, <2>5, <2>6, <2>7, <2>8, <2>9 DEF WalkOnce
  <1> QED
    BY <1>4, <1>5

LEMMA WalkOnceNext == Typed /\ WalkOnce /\ [IcsNext]_icsVars => WalkOnce'
  <1> SUFFICES ASSUME Typed, WalkOnce, [IcsNext]_icsVars
               PROVE  WalkOnce'
    OBVIOUS
  <1>1. CASE UNCHANGED vars
    BY <1>1 DEF vars, WalkOnce, OnceEach
  <1>2. CASE Parse
    <2>1. out' = <<>> /\ queue' = <<>>
      BY <1>2 DEF Parse, Typed
    <2> QED
      BY <2>1 DEF WalkOnce, Once
  <1>3. CASE NextPeriod
    <2> DEFINE lo == PeriodStart(call.rule, call.start, period)
               hi == PeriodStart(call.rule, call.start, period + 1)
               q == Candidates(call.rule, call.start, period)
    <2>1. /\ status = "walking" /\ period \in Nat /\ Valid(call) /\ out \in Seq(Nat)
          /\ call' = call /\ period' = period + 1 /\ out' = out /\ queue' = q
      BY <1>3 DEF NextPeriod, Typed, Numbers, Valid
    <2>2. Sound(call.rule, call.start, period) /\ hi \in Int
      <3>1. period + 1 \in Nat
        BY <2>1
      <3> QED
        BY <2>1, <3>1, PeriodKnown
    <2> SUFFICES ASSUME OnceEach(call.rule)
                 PROVE  WalkOnce'
      BY <2>1 DEF WalkOnce
    <2>3. Once(out) /\ \A l \in DOMAIN out : out[l] < lo
      BY <2>1 DEF WalkOnce
    <2>4. /\ lo \in Int /\ lo < hi /\ q \in Seq(Int) /\ Once(q)
          /\ \A k \in DOMAIN q : lo <= q[k] /\ q[k] < hi
      BY <2>2 DEF Sound, InPeriod, OnceEach, Once
    <2>5. hi = PeriodStart(call'.rule, call'.start, period')
      BY <2>1
    <2> HIDE DEF lo, hi, q
    <2>6. \A l \in DOMAIN out : out[l] \in Int /\ out[l] < hi
      BY <2>1, <2>2, <2>3, <2>4
    <2>7. \A k \in DOMAIN q : \A l \in DOMAIN out : q[k] # out[l]
      BY <2>3, <2>4, <2>6
    <2> QED
      BY <2>1, <2>3, <2>4, <2>5, <2>6, <2>7 DEF WalkOnce
  <1>4. CASE RunOut
    BY <1>4 DEF RunOut, WalkOnce, OnceEach
  <1>5. CASE BeforeStart
    <2>1. /\ status = "walking" /\ queue # <<>> /\ queue \in Seq(Int) /\ queue' = Tail(queue)
          /\ call' = call /\ period' = period /\ out' = out
      BY <1>5 DEF BeforeStart, Typed, Numbers
    <2>2. /\ \A k \in DOMAIN Tail(queue) : k + 1 \in DOMAIN queue /\ Tail(queue)[k] = queue[k + 1]
          /\ Once(queue) => Once(Tail(queue))
      BY <2>1, TailOf
    <2> QED
      BY <2>1, <2>2 DEF WalkOnce, OnceEach
  <1>6. CASE EndRecurring
    BY <1>6 DEF EndRecurring, Begin, WalkOnce
  <1>7. CASE Collect
    BY <1>7 DEF Collect, Return, WalkOnce
  <1> QED
    BY <1>1, <1>2, <1>3, <1>4, <1>5, <1>6, <1>7, WalkOnceEmits
       DEF IcsNext, icsVars, Expand, Walk, BeginComponent, EndComponent, ReadProperty, EndSingle,
           EndOfStream, ReadFails

LEMMA NestingInit == IcsInit => Nesting
  <1> SUFFICES ASSUME IcsInit
               PROVE  Nesting
    OBVIOUS
  <1>1. pos = 0 /\ skipDepth = 0 /\ status = "idle" /\ 1 .. 0 = {}
    BY DEF IcsInit, Init
  <1> QED
    BY <1>1 DEF Nesting

(* The event being filled has a rule that lists no day twice.              *)
RuleOnce == cur # None /\ cur.rule # None => OnceEach(cur.rule)

LEMMA RuleOnceNext ==
    ASSUME DaysOnce(doc), Typed, RuleOnce, [IcsNext]_icsVars
    PROVE  RuleOnce'
  <1>1. ASSUME cur' = cur
        PROVE  RuleOnce'
    BY <1>1 DEF RuleOnce, OnceEach
  <1>2. CASE BeginComponent
    <2>1. cur' = cur \/ cur' = Blank
      BY <1>2 DEF BeginComponent
    <2> QED
      BY <1>1, <2>1 DEF RuleOnce, Blank
  <1>3. CASE ReadProperty
    <2>1. pos < Len(doc) /\ (cur' = cur \/ (cur # None /\ cur' = Set(cur, Line)))
      BY <1>3 DEF ReadProperty, Reading
    <2>2. pos + 1 \in DOMAIN doc /\ Line = doc[pos + 1]
      BY <2>1, LineReadable DEF Line
    <2>3. ASSUME cur # None, cur' = Set(cur, Line)
          PROVE  RuleOnce'
      <3>1. cur \in icsEvent
        BY <2>3 DEF Typed
      <3>2. CASE Line.name = "RRULE"
        <4>1. cur'.rule = Line.value
          BY <2>3, <3>1, <3>2 DEF Set, icsEvent
        <4>2. OnceEach(Line.value)
          BY <2>2, <3>2 DEF DaysOnce, OnceEach
        <4> QED
          BY <4>1, <4>2 DEF RuleOnce, OnceEach
      <3>3. CASE Line.name # "RRULE"
        <4>1. cur'.rule = cur.rule
          BY <2>3, <3>1, <3>3 DEF Set, icsEvent
        <4> QED
          BY <2>3, <4>1 DEF RuleOnce, OnceEach
      <3> QED
        BY <3>2, <3>3
    <2> QED
      BY <1>1, <2>1, <2>3
  <1>4. CASE cur' = None
    BY <1>4 DEF RuleOnce
  <1> QED
    BY <1>1, <1>2, <1>3, <1>4
       DEF IcsNext, icsVars, stream, EndComponent, EndSingle, EndRecurring, Expand, Collect,
           EndOfStream, ReadFails

(* One of the first n lines gave an event the UID u.                       *)
Given(d, u, n) == \E i \in DOMAIN d : i <= n /\ OwnUid(d, i) /\ d[i].value = u

Event == [uid : Uids, instance : Nat \cup {Absent}, day : Nat]

(* The events so far are distinct, and the one being filled is none of     *)
(* theirs: every UID was read once.                                        *)
Listed ==
    /\ events \in Seq(Event)
    /\ \A m \in DOMAIN events : Given(doc, events[m].uid, pos)
    /\ cur # None /\ cur.uid # None =>
          Given(doc, cur.uid, pos) /\ \A m \in DOMAIN events : events[m].uid # cur.uid
    /\ DistinctIds

LEMMA GivenLater ==
    ASSUME Typed, NEW u, Given(doc, u, pos), pos' = pos + 1 \/ pos' = pos
    PROVE  Given(doc, u, pos')
  <1>1. pos \in Nat /\ \A i \in DOMAIN doc : i \in Int
    BY DocumentsAssumption DEF Typed
  <1> QED
    BY <1>1 DEF Given

(* Nothing is listed.                                                      *)
LEMMA NothingListed ==
    ASSUME Typed, Listed, doc' = doc, pos' = pos + 1 \/ pos' = pos, events' = events,
           cur' = cur \/ cur' = None \/ cur' = Blank
    PROVE  Listed'
  <1>1. \A m \in DOMAIN events : Given(doc, events[m].uid, pos')
    BY GivenLater DEF Listed
  <1>2. DistinctIds'
    BY DEF Listed, DistinctIds
  <1>3. CASE cur' = cur
    <2>1. cur # None /\ cur.uid # None => Given(doc, cur.uid, pos')
      BY GivenLater DEF Listed
    <2> QED
      BY <1>1, <1>2, <1>3, <2>1 DEF Listed, Given
  <1>4. CASE cur' = None \/ cur' = Blank
    BY <1>1, <1>2, <1>4 DEF Listed, Blank, Given
  <1> QED
    BY <1>3, <1>4

(* What is listed has the UID of the event that ends, and no two of it     *)
(* have one instance.                                                      *)
LEMMA EventListed ==
    ASSUME Typed, Listed, cur # None, cur.uid # None,
           NEW new \in Seq(Event), \A m \in DOMAIN new : new[m].uid = cur.uid,
           \A k, l \in DOMAIN new : new[k].instance = new[l].instance => k = l,
           doc' = doc, pos' = pos + 1, events' = events \o new, cur' = None
    PROVE  Listed'
  <1> DEFINE L == Len(events)
  <1>1. /\ events \in Seq(Event) /\ L \in Nat /\ DOMAIN events = 1 .. L
        /\ Given(doc, cur.uid, pos) /\ \A m \in DOMAIN events : events[m].uid # cur.uid
        /\ \A m \in DOMAIN events : Given(doc, events[m].uid, pos)
    BY DEF Listed
  <1>2. events' \in Seq(Event)
    BY <1>1
  <1>3. \A m \in DOMAIN events' :
           \/ m \in DOMAIN events /\ events'[m] = events[m]
           \/ m \notin DOMAIN events /\ m \in Int /\ m - L \in DOMAIN new /\ events'[m] = new[m - L]
    BY <1>1
  <1> HIDE DEF L
  <1>4. \A m \in DOMAIN events' : Given(doc, events'[m].uid, pos')
    <2> TAKE m \in DOMAIN events'
    <2>1. Given(doc, events'[m].uid, pos)
      BY <1>1, <1>3
    <2>2. events'[m].uid = cur.uid \/ \E l \in DOMAIN events : events'[m].uid = events[l].uid
      BY <1>3
    <2>3. Given(doc, cur.uid, pos')
      BY <1>1, GivenLater
    <2> QED
      BY <1>1, <2>2, <2>3, GivenLater
  <1>5. DistinctIds'
    <2> SUFFICES ASSUME NEW i \in DOMAIN events', NEW j \in DOMAIN events', i # j,
                        events'[i].uid = events'[j].uid, events'[i].instance = events'[j].instance
                 PROVE  FALSE
      BY DEF DistinctIds
    <2>1. CASE i \in DOMAIN events /\ j \in DOMAIN events
      BY <1>3, <2>1 DEF Listed, DistinctIds
    <2>2. CASE i \in DOMAIN events /\ j \notin DOMAIN events
      BY <1>1, <1>3, <2>2
    <2>3. CASE i \notin DOMAIN events /\ j \in DOMAIN events
      BY <1>1, <1>3, <2>3
    <2>4. CASE i \notin DOMAIN events /\ j \notin DOMAIN events
      <3>1. i - L = j - L /\ i \in Int /\ j \in Int
        BY <1>3, <2>4
      <3> QED
        BY <1>1, <3>1 DEF L
    <2> QED
      BY <2>1, <2>2, <2>3, <2>4
  <1> QED
    BY <1>2, <1>4, <1>5 DEF Listed

(* A UID read where an event is open is its own, and no event before has it.*)
LEMMA UidRead ==
    ASSUME OwnUids(doc), Typed, Nesting, Listed, ReadProperty
    PROVE  Listed'
  <1>1. /\ pos < Len(doc) /\ doc' = doc /\ pos' = pos + 1 /\ events' = events
        /\ cur' = IF skipDepth = 0 /\ cur # None THEN Set(cur, Line) ELSE cur
    BY DEF ReadProperty, Reading, feed
  <1>2. CASE ~ (skipDepth = 0 /\ cur # None)
    BY <1>1, <1>2, NothingListed
  <1>3. CASE skipDepth = 0 /\ cur # None
    <2>1. cur \in icsEvent /\ cur' = Set(cur, Line) /\ pos + 1 \in DOMAIN doc /\ Line = doc[pos + 1]
      BY <1>1, <1>3, LineReadable DEF Typed, Line
    <2>2. \A m \in DOMAIN events : Given(doc, events[m].uid, pos')
      BY <1>1, GivenLater DEF Listed
    <2>3. DistinctIds'
      BY <1>1 DEF Listed, DistinctIds
    <2>4. CASE Line.name = "UID"
      <3>1. cur'.uid = Line.value
        BY <2>1, <2>4 DEF Set, icsEvent
      <3>2. OwnUid(doc, pos + 1)
        BY <1>3, <2>1, <2>4, NotInner DEF OwnUid
      <3>3. Given(doc, Line.value, pos')
        <4>1. pos + 1 <= pos'
          BY <1>1, DocumentsAssumption DEF Typed
        <4> QED
          BY <2>1, <3>2, <4>1 DEF Given
      <3>4. ASSUME NEW m \in DOMAIN events, events[m].uid = Line.value
            PROVE  FALSE
        <4>1. PICK i \in DOMAIN doc : i <= pos /\ OwnUid(doc, i) /\ doc[i].value = Line.value
          BY <3>4 DEF Listed, Given
        <4>2. i = pos + 1
          BY <2>1, <3>2, <4>1 DEF OwnUids
        <4>3. pos \in Nat
          BY DocumentsAssumption DEF Typed
        <4> QED
          BY <4>1, <4>2, <4>3
      <3>5. Given(doc, cur'.uid, pos') /\ \A m \in DOMAIN events' : events'[m].uid # cur'.uid
        <4>1. Given(doc, cur'.uid, pos')
          BY <3>1, <3>3
        <4> QED
          BY <1>1, <3>1, <3>4, <4>1
      <3> QED
        BY <1>1, <2>2, <2>3, <3>5 DEF Listed, Given
    <2>5. CASE Line.name # "UID"
      <3>1. cur'.uid = cur.uid
        BY <2>1, <2>5 DEF Set, icsEvent
      <3>2. cur.uid # None => Given(doc, cur.uid, pos') /\ \A m \in DOMAIN events : events[m].uid # cur.uid
        BY <1>1, <1>3, GivenLater DEF Listed
      <3> QED
        BY <1>1, <2>2, <2>3, <3>1, <3>2 DEF Listed, Given
    <2> QED
      BY <2>4, <2>5
  <1> QED
    BY <1>2, <1>3

LEMMA ListedNext ==
    ASSUME OwnUids(doc), Typed, Nesting, RuleOnce, WalkOnce, Listed, [IcsNext]_icsVars
    PROVE  Listed'
  <1>1. CASE BeginComponent
    <2>1. doc' = doc /\ pos' = pos + 1 /\ events' = events /\ (cur' = cur \/ cur' = Blank)
      BY <1>1 DEF BeginComponent, feed
    <2> QED
      BY <2>1, NothingListed
  <1>2. CASE EndComponent
    <2>1. doc' = doc /\ pos' = pos + 1 /\ events' = events /\ cur' = cur
      BY <1>2 DEF EndComponent, feed
    <2> QED
      BY <2>1, NothingListed
  <1>3. CASE EndSingle
    <2>1. /\ doc' = doc /\ pos' = pos + 1 /\ cur' = None /\ cur # None
          /\ events' = events \/ (~ Unreadable(cur) /\ events' = Append(events, Single(cur)))
      BY <1>3 DEF EndSingle, AtEndOfEvent
    <2>2. CASE events' = events
      BY <2>1, <2>2, NothingListed
    <2>3. CASE ~ Unreadable(cur) /\ events' = Append(events, Single(cur))
      <3> DEFINE new == <<Single(cur)>>
      <3>1. cur \in icsEvent /\ cur.uid # None /\ cur.start # Absent
        BY <2>1, <2>3 DEF Typed, Unreadable
      <3>2. Single(cur) \in Event
        BY <3>1 DEF icsEvent, Event, Single
      <3>3. events' = events \o new
        BY <2>3, <3>2 DEF Listed
      <3>4. /\ new \in Seq(Event) /\ \A m \in DOMAIN new : new[m].uid = cur.uid
            /\ \A k, l \in DOMAIN new : new[k].instance = new[l].instance => k = l
        BY <3>2 DEF Single
      <3> HIDE DEF new
      <3> QED
        BY <2>1, <3>1, <3>3, <3>4, EventListed
    <2> QED
      BY <2>1, <2>2, <2>3
  <1>4. CASE EndRecurring
    <2>1. doc' = doc /\ pos' = pos /\ events' = events /\ cur' = cur
      BY <1>4 DEF EndRecurring, stream, feed
    <2> QED
      BY <2>1, NothingListed
  <1>5. CASE Expand
    <2>1. doc' = doc /\ pos' = pos /\ events' = events /\ cur' = cur
      BY <1>5 DEF Expand, stream, feed
    <2> QED
      BY <2>1, NothingListed
  <1>6. CASE Collect
    <2> DEFINE new == [i \in DOMAIN Expanded |-> Instance(cur.uid, Expanded[i])]
    <2>1. /\ doc' = doc /\ pos' = pos + 1 /\ cur' = None /\ status \in {"ended", "refused"}
          /\ events' = IF status = "ended" THEN events \o new ELSE events
      BY <1>6 DEF Collect, Return
    <2>2. CASE status # "ended"
      BY <2>1, <2>2, NothingListed
    <2>3. CASE status = "ended"
      <3>1. /\ cur # None /\ cur \in icsEvent /\ cur.uid # None /\ cur.rule # None
            /\ call.rule = cur.rule /\ out \in Seq(Nat)
        <4>1. cur # None /\ cur \in icsEvent /\ call \in Call /\ call = Asked /\ out \in Seq(Nat)
          BY <2>3 DEF Typed, Numbers
        <4>2. call.rule = cur.rule /\ call.rule \in Rule
          BY <4>1 DEF Asked, Call
        <4> QED
          BY <2>3, <4>1, <4>2, NoneAssumption DEF Nesting
      <3>2. Once(out)
        <4>1. OnceEach(cur.rule)
          BY <3>1 DEF RuleOnce
        <4> QED
          BY <2>3, <3>1, <4>1 DEF WalkOnce
      <3>3. Expanded \in Seq(Nat) /\ Once(Expanded)
        BY <3>1, <3>2, ExpandedKeeps
      <3> DEFINE q == Expanded
      <3>4. q \in Seq(Nat) /\ new = [i \in DOMAIN q |-> Instance(cur.uid, q[i])]
        BY <3>3
      <3>5. \A i \in DOMAIN q : q[i] \in Nat /\ Instance(cur.uid, q[i]) \in Event
        <4> HIDE DEF q
        <4>1. cur.uid \in Uids
          BY <3>1 DEF icsEvent
        <4> QED
          BY <3>4, <4>1 DEF Event, Instance
      <3> HIDE DEF q, new
      <3>6. /\ new \in Seq(Event) /\ DOMAIN new = DOMAIN q
            /\ \A m \in DOMAIN new : new[m] = Instance(cur.uid, q[m])
        BY <3>4, <3>5
      <3>7. /\ \A m \in DOMAIN new : new[m].uid = cur.uid /\ new[m].instance = q[m]
            /\ \A k, l \in DOMAIN q : q[k] = q[l] => k = l
        BY <3>3, <3>6 DEF Instance, Once, q
      <3>8. \A k, l \in DOMAIN new : new[k].instance = new[l].instance => k = l
        BY <3>6, <3>7
      <3> QED
        BY <2>1, <2>3, <3>1, <3>6, <3>7, <3>8, EventListed
    <2> QED
      BY <2>2, <2>3
  <1>7. ASSUME doc' = doc, pos' = pos, cur' = cur, events' = events \/ events' = <<>>
        PROVE  Listed'
    <2>1. CASE events' = events
      BY <1>7, <2>1, NothingListed
    <2>2. CASE events' = <<>>
      BY <1>7, <2>2 DEF Listed, DistinctIds
    <2> QED
      BY <1>7, <2>1, <2>2
  <1>8. CASE EndOfStream
    BY <1>7, <1>8 DEF EndOfStream, stream
  <1>9. CASE ReadFails
    BY <1>7, <1>9 DEF ReadFails, stream
  <1>10. CASE UNCHANGED icsVars
    BY <1>7, <1>10 DEF icsVars, stream, feed
  <1> QED
    BY <1>1, <1>2, <1>3, <1>4, <1>5, <1>6, <1>8, <1>9, <1>10, UidRead DEF IcsNext

(* For any documents in which no two events are given one UID, an event    *)
(* inside an event or an alarm aside, and no WEEKLY rule lists a day twice,*)
(* every event a document yields has an identity of its own, the instances *)
(* of a series too.                                                        *)
THEOREM EventsDistinct ==
    ASSUME \A d \in Documents : OwnUids(d) /\ DaysOnce(d)
    PROVE  IcsSpec => []DistinctIds
  <1> DEFINE Inv == Typed /\ Nesting /\ RuleOnce /\ WalkOnce /\ Listed
  <1>1. IcsInit => Inv
    <2> SUFFICES ASSUME IcsInit
                 PROVE  Inv
      OBVIOUS
    <2>1. RuleOnce /\ WalkOnce /\ Listed
      BY DEF IcsInit, Init, RuleOnce, WalkOnce, Listed, DistinctIds
    <2> QED
      BY <2>1, TypedInit, NestingInit
  <1>2. Inv /\ [IcsNext]_icsVars => Inv'
    <2> SUFFICES ASSUME Inv, [IcsNext]_icsVars
                 PROVE  Inv'
      OBVIOUS
    <2>1. OwnUids(doc) /\ DaysOnce(doc)
      BY DEF Typed
    <2>2. Typed' /\ Nesting' /\ WalkOnce'
      BY TypedNext, NestingNext, WalkOnceNext
    <2>3. RuleOnce' /\ Listed'
      BY <2>1, RuleOnceNext, ListedNext
    <2> QED
      BY <2>2, <2>3
  <1>3. Inv => DistinctIds
    BY DEF Listed
  <1> QED
    BY <1>1, <1>2, <1>3, PTL DEF IcsSpec
=============================================================================
