-------------------------- MODULE NormalizeProofs --------------------------
(* Normalize, proved for a list of any length: the events it makes are the *)
(* meetings the records tell of, each record in exactly one, and fit for   *)
(* SaveEvents.  What the proofs need of the records is that their          *)
(* priorities and upstream ids can be compared (Comparable); that no two   *)
(* have one fingerprint (DistinctFps) is said where it is needed.          *)
EXTENDS Normalize, FiniteSetTheorems, WellFoundedInduction, TLAPS

----------------------------------------------------------------------------
(* Lists in an order                                                       *)

(* below is a total order of the finite set D.                             *)
Orders(below, D) ==
    /\ IsFiniteSet(D)
    /\ DOMAIN below = D
    /\ \A x \in D : below[x] \subseteq D /\ x \notin below[x]
    /\ \A x, y \in D : y \in below[x] => below[y] \subseteq below[x]
    /\ \A x, y \in D : x = y \/ y \in below[x] \/ x \in below[y]

(* s lists D: every member once.                                           *)
Lists(s, D) ==
    /\ Cardinality(D) \in Nat
    /\ s \in [1 .. Cardinality(D) -> D]
    /\ \A k, l \in DOMAIN s : s[k] = s[l] => k = l
    /\ \A x \in D : \E k \in DOMAIN s : s[k] = x

(* Whoever comes before has fewer before it.                               *)
LEMMA BeforeIsFewer ==
    ASSUME NEW below, NEW D, Orders(below, D)
    PROVE  \A x, y \in D : y \in below[x] => Cardinality(below[y]) < Cardinality(below[x])
  <1>1. ASSUME NEW x \in D, NEW y \in D, y \in below[x]
        PROVE  Cardinality(below[y]) < Cardinality(below[x])
    <2>1. below[y] \in SUBSET below[x] /\ below[y] # below[x]
      BY <1>1 DEF Orders
    <2>2. IsFiniteSet(below[x])
      BY FS_Subset DEF Orders
    <2>3. Cardinality(below[x]) \in Nat /\ Cardinality(below[y]) \in Nat
      BY <2>1, <2>2, FS_Subset, FS_CardinalityType
    <2> QED
      BY <2>1, <2>2, <2>3, FS_Subset
  <1> QED
    BY <1>1

(* How many come before tells any two members apart, and is less than how  *)
(* many there are.                                                         *)
LEMMA RanksDiffer ==
    ASSUME NEW below, NEW D, Orders(below, D)
    PROVE  /\ Cardinality(D) \in Nat
           /\ \A x \in D : Cardinality(below[x]) \in 0 .. Cardinality(D) - 1
           /\ \A x, y \in D : Cardinality(below[x]) = Cardinality(below[y]) => x = y
  <1>1. Cardinality(D) \in Nat
    BY FS_CardinalityType DEF Orders
  <1>2. ASSUME NEW x \in D
        PROVE  IsFiniteSet(below[x]) /\ Cardinality(below[x]) \in Nat
    BY FS_Subset, FS_CardinalityType DEF Orders
  <1>3. ASSUME NEW x \in D
        PROVE  Cardinality(below[x]) < Cardinality(D)
    <2>1. below[x] \in SUBSET D /\ below[x] # D /\ IsFiniteSet(D)
      BY DEF Orders
    <2> QED
      BY <1>1, <1>2, <2>1, FS_Subset
  <1>4. \A x, y \in D : y \in below[x] => Cardinality(below[y]) < Cardinality(below[x])
    BY BeforeIsFewer
  <1>5. ASSUME NEW x \in D, NEW y \in D, Cardinality(below[x]) = Cardinality(below[y]), x # y
        PROVE  FALSE
    <2>1. y \in below[x] \/ x \in below[y]
      BY <1>5 DEF Orders
    <2> QED
      BY <1>2, <1>4, <1>5, <2>1
  <1> QED
    BY <1>1, <1>2, <1>3, <1>5

(* The member at place k has k - 1 before it.                              *)
LEMMA RankedAt ==
    ASSUME NEW below, NEW D, Orders(below, D)
    PROVE  /\ DOMAIN Ranked(below) = 1 .. Cardinality(D)
           /\ \A k \in 1 .. Cardinality(D) :
                 Ranked(below)[k] \in D /\ Cardinality(below[Ranked(below)[k]]) = k - 1
  <1> DEFINE n == Cardinality(D)
             rank == [x \in D |-> Cardinality(below[x]) + 1]
             s == Ranked(below)
  <1>1. /\ n \in Nat
        /\ \A x \in D : Cardinality(below[x]) \in 0 .. n - 1
        /\ \A x, y \in D : Cardinality(below[x]) = Cardinality(below[y]) => x = y
    BY RanksDiffer
  <1> HIDE DEF n
  <1>2. rank \in Injection(D, 1 .. n)
    BY <1>1 DEF Injection, IsInjective
  <1>3. IsFiniteSet(1 .. n) /\ Cardinality(1 .. n) = n
    BY <1>1, FS_Interval
  <1>4. rank \in Surjection(D, 1 .. n)
    BY <1>2, <1>3, FS_Injection DEF n
  <1>5. s = [k \in 1 .. n |-> CHOOSE x \in D : Cardinality(below[x]) = k - 1]
    BY DEF Ranked, Orders, n
  <1>6. ASSUME NEW k \in 1 .. n
        PROVE  s[k] \in D /\ Cardinality(below[s[k]]) = k - 1
    <2>1. \E x \in D : rank[x] = k
      BY <1>4 DEF Surjection
    <2>2. \E x \in D : Cardinality(below[x]) = k - 1
      BY <1>1, <2>1
    <2> QED
      BY <1>5, <2>2
  <1>7. DOMAIN s = 1 .. n
    BY <1>5
  <1> HIDE DEF s
  <1> QED
    BY <1>6, <1>7 DEF n, s

(* Ranked lists a totally ordered set.                                     *)
LEMMA RankedLists ==
    ASSUME NEW below, NEW D, Orders(below, D)
    PROVE  Lists(Ranked(below), D)
  <1> DEFINE n == Cardinality(D)
             s == Ranked(below)
  <1>1. /\ n \in Nat
        /\ \A x \in D : Cardinality(below[x]) \in 0 .. n - 1
        /\ \A x, y \in D : Cardinality(below[x]) = Cardinality(below[y]) => x = y
    BY RanksDiffer
  <1>2. DOMAIN s = 1 .. n /\ \A k \in 1 .. n : s[k] \in D /\ Cardinality(below[s[k]]) = k - 1
    BY RankedAt
  <1>3. s = [k \in DOMAIN s |-> s[k]]
    BY DEF Ranked
  <1> HIDE DEF n, s
  <1>4. ASSUME NEW x \in D
        PROVE  \E k \in 1 .. n : s[k] = x
    <2>1. Cardinality(below[x]) + 1 \in 1 .. n
      BY <1>1
    <2>2. Cardinality(below[s[Cardinality(below[x]) + 1]]) = Cardinality(below[x])
      BY <1>1, <1>2, <2>1
    <2> QED
      BY <1>1, <1>2, <2>1, <2>2
  <1>5. s \in [1 .. n -> D]
    BY <1>2, <1>3
  <1>6. ASSUME NEW k \in 1 .. n, NEW l \in 1 .. n, s[k] = s[l]
        PROVE  k = l
    <2>1. k - 1 = Cardinality(below[s[k]]) /\ l - 1 = Cardinality(below[s[k]])
      BY <1>2, <1>6
    <2>2. k \in Int /\ l \in Int /\ k - 1 = l - 1
      BY <2>1
    <2> QED
      BY <2>2
  <1> QED
    BY <1>1, <1>2, <1>4, <1>5, <1>6 DEF Lists, n, s

(* A nonempty set of numbers has a least one, and Min is it.               *)
LEMMA MinIsLeast ==
    ASSUME NEW T \in SUBSET Nat, T # {}
    PROVE  Min(T) \in T /\ \A y \in T : Min(T) <= y
  <1> DEFINE R == OpToRel(<, Nat)
  <1>1. IsWellFoundedOn(R, Nat)
    BY NatLessThanWellFounded
  <1>2. \A x, y \in Nat : <<x, y>> \in R <=> x < y
    BY DEF OpToRel
  <1> HIDE DEF R
  <1>3. PICK m \in T : \A y \in T : ~ (<<y, m>> \in R)
    BY <1>1, WFMin
  <1>4. \A y \in T : ~ (y < m)
    BY <1>2, <1>3
  <1>5. \A y \in T : m <= y
    BY <1>4
  <1> QED
    BY <1>5 DEF Min

----------------------------------------------------------------------------
(* The order within an event                                               *)

(* The records can be compared: ids and priorities are numbers.            *)
Comparable(reg, raw) ==
    \A i \in DOMAIN raw : raw[i].uid \in Int /\ reg.priority[raw[i].feed] \in Int

(* No two records have one fingerprint.                                    *)
DistinctFps(reg, raw) ==
    \A i, j \in DOMAIN raw :
       Fingerprint(reg, raw[i]) = Fingerprint(reg, raw[j]) => i = j

(* A list of records, of any length, as normalize is given it.             *)
Given(reg, raw) ==
    /\ \E n \in Nat : DOMAIN raw = 1 .. n
    /\ Comparable(reg, raw)

LEMMA SomeFinite ==
    ASSUME NEW reg, NEW raw, Given(reg, raw), NEW M \in SUBSET DOMAIN raw
    PROVE  IsFiniteSet(M) /\ M \subseteq Nat
  <1>1. PICK n \in Nat : DOMAIN raw = 1 .. n
    BY DEF Given
  <1>2. IsFiniteSet(DOMAIN raw)
    BY <1>1, FS_Interval
  <1> QED
    BY <1>1, <1>2, FS_Subset

(* By priority, then upstream id, then place: no two records tie.          *)
LEMMA BeatsOrders ==
    ASSUME NEW reg, NEW raw, Given(reg, raw), NEW M \in SUBSET DOMAIN raw
    PROVE  Orders([i \in M |-> {j \in M : Beats(reg, raw, j, i)}], M)
  <1> DEFINE below == [i \in M |-> {j \in M : Beats(reg, raw, j, i)}]
             p(i) == reg.priority[raw[i].feed]
             u(i) == raw[i].uid
  <1>1. IsFiniteSet(M) /\ M \subseteq Nat
    BY SomeFinite
  <1>2. \A i \in M : p(i) \in Int /\ u(i) \in Int
    BY DEF Given, Comparable
  <1>3. \A i, j \in M : Beats(reg, raw, j, i) <=>
          \/ p(j) < p(i)
          \/ p(j) = p(i) /\ u(j) < u(i)
          \/ p(j) = p(i) /\ u(j) = u(i) /\ j < i
    <2> SUFFICES ASSUME NEW i \in M, NEW j \in M
                 PROVE  Beats(reg, raw, j, i) <=>
                          \/ p(j) < p(i)
                          \/ p(j) = p(i) /\ u(j) < u(i)
                          \/ p(j) = p(i) /\ u(j) = u(i) /\ j < i
      OBVIOUS
    <2>1. /\ Wins(reg, raw[j], raw[i]) <=> p(j) < p(i) \/ (p(j) = p(i) /\ u(j) < u(i))
          /\ Wins(reg, raw[i], raw[j]) <=> p(i) < p(j) \/ (p(i) = p(j) /\ u(i) < u(j))
      BY DEF Wins
    <2> HIDE DEF p, u
    <2> QED
      BY <1>1, <1>2, <2>1 DEF Beats
  <1>4. \A i, j \in M : j \in below[i] <=> Beats(reg, raw, j, i)
    OBVIOUS
  <1>5. DOMAIN below = M /\ \A i \in M : below[i] \subseteq M
    OBVIOUS
  <1> HIDE DEF below, p, u
  <1>6. \A i, j \in M : j \in below[i] <=>
          \/ p(j) < p(i)
          \/ p(j) = p(i) /\ u(j) < u(i)
          \/ p(j) = p(i) /\ u(j) = u(i) /\ j < i
    BY <1>3, <1>4
  <1>7. \A i \in M : i \notin below[i]
    BY <1>1, <1>2, <1>6
  <1>8. \A i, j \in M : i = j \/ j \in below[i] \/ i \in below[j]
    BY <1>1, <1>2, <1>6
  <1>9. \A i, j, k \in M : j \in below[i] /\ k \in below[j] => k \in below[i]
    BY <1>1, <1>2, <1>6
  <1>10. \A i, j \in M : j \in below[i] => below[j] \subseteq below[i]
    BY <1>5, <1>9
  <1>11. Orders(below, M)
    BY <1>1, <1>5, <1>7, <1>8, <1>10 DEF Orders
  <1> QED
    BY <1>11 DEF below

(* InOrder lists the records of a set of places, each once, the best first. *)
LEMMA InOrderLists ==
    ASSUME NEW reg, NEW raw, Given(reg, raw), NEW M \in SUBSET DOMAIN raw
    PROVE  \E order : /\ Lists(order, M)
                      /\ InOrder(reg, raw, M) = [k \in DOMAIN order |-> raw[order[k]]]
                      /\ \A k, l \in DOMAIN order :
                            k < l => Beats(reg, raw, order[k], order[l])
  <1> DEFINE below == [i \in M |-> {j \in M : Beats(reg, raw, j, i)}]
             order == Ranked(below)
  <1>1. Orders(below, M)
    BY BeatsOrders
  <1>2. InOrder(reg, raw, M) = [k \in DOMAIN order |-> raw[order[k]]]
    BY DEF InOrder
  <1>3. \A i, j \in M : j \in below[i] <=> Beats(reg, raw, j, i)
    OBVIOUS
  <1> HIDE DEF below
  <1>4. Lists(order, M)
    BY <1>1, RankedLists
  <1>5. /\ DOMAIN order = 1 .. Cardinality(M)
        /\ \A k \in DOMAIN order : order[k] \in M /\ Cardinality(below[order[k]]) = k - 1
    BY <1>1, RankedAt
  <1>6. \A i, j \in M : i \in below[j] => Cardinality(below[i]) < Cardinality(below[j])
    BY <1>1, BeforeIsFewer
  <1>7. ASSUME NEW k \in DOMAIN order, NEW l \in DOMAIN order, k < l
        PROVE  Beats(reg, raw, order[k], order[l])
    <2>1. order[k] \in M /\ order[l] \in M /\ k \in Int /\ l \in Int
          /\ Cardinality(below[order[k]]) = k - 1 /\ Cardinality(below[order[l]]) = l - 1
      BY <1>5
    <2>2. order[k] # order[l] /\ order[l] \notin below[order[k]]
      <3> HIDE DEF order
      <3> QED
        BY <1>6, <1>7, <2>1
    <2>3. order[k] \in below[order[l]]
      <3> HIDE DEF order
      <3> QED
        BY <1>1, <2>1, <2>2 DEF Orders
    <2> QED
      BY <1>3, <2>1, <2>3
  <1> HIDE DEF order
  <1> QED
    BY <1>2, <1>4, <1>7

----------------------------------------------------------------------------
(* One event                                                               *)

FpAt(reg, raw, i) == Fingerprint(reg, raw[i])

(* What e has of the records M it was merged from: its records are theirs, *)
(* each once, it is named by the first, and its group and instant are of   *)
(* one of them.                                                            *)
MadeOf(e, reg, raw, M) ==
    /\ \E order :
          /\ Lists(order, M)
          /\ e.recs = [k \in DOMAIN order |->
                         [fp |-> FpAt(reg, raw, order[k]), feed |-> raw[order[k]].feed]]
    /\ e.fp = e.recs[1].fp
    /\ \E i \in M : e.group = GroupFor(reg, raw[i]) /\ e.start = raw[i].start

LEMMA MergeMakes ==
    ASSUME NEW reg, NEW raw, Given(reg, raw), NEW M \in SUBSET DOMAIN raw, M # {}
    PROVE  MadeOf(Merge(reg, raw, M), reg, raw, M)
  <1> DEFINE won == InOrder(reg, raw, M)
             e == Merge(reg, raw, M)
  <1>1. PICK order : /\ Lists(order, M)
                     /\ won = [k \in DOMAIN order |-> raw[order[k]]]
    BY InOrderLists
  <1>2. PICK at : e = EventAt(at, reg, won, won[1])
    BY DEF Merge, Concluded, Winner
  <1>3. /\ e.fp = Fingerprint(reg, won[1])
        /\ e.group = GroupFor(reg, won[1])
        /\ e.start = won[1].start
        /\ e.recs = [i \in DOMAIN won |-> [fp |-> Fingerprint(reg, won[i]), feed |-> won[i].feed]]
    BY <1>2 DEF EventAt
  <1> HIDE DEF won, e
  <1>4. DOMAIN order = 1 .. Cardinality(M) /\ Cardinality(M) \in Nat
    BY <1>1 DEF Lists
  <1>5. 1 \in DOMAIN order /\ order[1] \in M
    BY <1>1, <1>4 DEF Lists
  <1>6. DOMAIN won = DOMAIN order /\ \A k \in DOMAIN order : won[k] = raw[order[k]]
    BY <1>1
  <1>7. e.recs = [k \in DOMAIN order |->
                    [fp |-> FpAt(reg, raw, order[k]), feed |-> raw[order[k]].feed]]
    BY <1>3, <1>6 DEF FpAt
  <1>8. e.recs[1] = [fp |-> FpAt(reg, raw, order[1]), feed |-> raw[order[1]].feed]
    BY <1>5, <1>7
  <1>9. e.fp = e.recs[1].fp
    BY <1>3, <1>5, <1>6, <1>8 DEF FpAt
  <1>10. e.group = GroupFor(reg, raw[order[1]]) /\ e.start = raw[order[1]].start
    BY <1>3, <1>5, <1>6
  <1>11. MadeOf(e, reg, raw, M)
    BY <1>1, <1>5, <1>7, <1>9, <1>10 DEF MadeOf
  <1> QED
    BY <1>11 DEF e

----------------------------------------------------------------------------
(* Which records are one event                                             *)

(* The clusters c divide the records that can be resolved by their key.    *)
Divides(c, reg, raw) ==
    /\ DOMAIN c = {i \in DOMAIN raw : Resolvable(reg, raw[i])}
    /\ \A i \in DOMAIN c : i \in c[i] /\ c[i] \subseteq DOMAIN c
    /\ \A i, j \in DOMAIN c :
          j \in c[i] <=> ClusterKey(reg, raw[j]) = ClusterKey(reg, raw[i])
    /\ \A i \in DOMAIN c : \A j \in c[i] : c[j] = c[i]

LEMMA ClustersDivide ==
    ASSUME NEW reg, NEW raw
    PROVE  Divides(Clusters(reg, raw), reg, raw)
  <1> DEFINE resolved == {i \in DOMAIN raw : Resolvable(reg, raw[i])}
             key == [i \in resolved |-> ClusterKey(reg, raw[i])]
             c == Clusters(reg, raw)
  <1>1. c = [i \in resolved |-> {j \in resolved : key[j] = key[i]}]
    BY DEF Clusters
  <1>2. DOMAIN c = resolved
    BY <1>1
  <1>3. \A i \in resolved : c[i] = {j \in resolved : ClusterKey(reg, raw[j]) = ClusterKey(reg, raw[i])}
    BY <1>1
  <1> HIDE DEF c
  <1>4. Divides(c, reg, raw)
    BY <1>2, <1>3 DEF Divides
  <1> QED
    BY <1>4 DEF c

(* Each set in Collapsed is the records of one event, and Collapse says    *)
(* which one a record is in.                                               *)
Partition(c, reg, raw) ==
    /\ \A M \in Collapsed(raw, c) : M \in SUBSET DOMAIN raw /\ M # {} /\ M \subseteq DOMAIN c
    /\ \A i \in DOMAIN c : i \in Collapse(raw, c[i], i)
    /\ \A M \in Collapsed(raw, c) : \A i \in M : M = Collapse(raw, c[i], i)
    /\ \A M \in Collapsed(raw, c) : \A i, j \in M :
          ClusterKey(reg, raw[i]) = ClusterKey(reg, raw[j])

LEMMA CollapsedDivide ==
    ASSUME NEW reg, NEW raw
    PROVE  Partition(Clusters(reg, raw), reg, raw)
  <1> DEFINE c == Clusters(reg, raw)
  <1>1. Divides(c, reg, raw)
    BY ClustersDivide
  <1> HIDE DEF c
  <1>2. \A i \in DOMAIN c : i \in Collapse(raw, c[i], i) /\ Collapse(raw, c[i], i) \subseteq c[i]
    BY <1>1 DEF Collapse, Divides
  <1>3. \A i \in DOMAIN c : \A j \in Collapse(raw, c[i], i) :
          Collapse(raw, c[i], i) = Collapse(raw, c[j], j)
    BY <1>1, <1>2 DEF Collapse, Divides
  <1>4. \A M \in Collapsed(raw, c) : \E i \in DOMAIN c : M = Collapse(raw, c[i], i)
    BY DEF Collapsed
  <1>5. \A M \in Collapsed(raw, c) : M \in SUBSET DOMAIN raw /\ M # {} /\ M \subseteq DOMAIN c
    BY <1>1, <1>2, <1>4 DEF Divides
  <1>6. \A M \in Collapsed(raw, c) : \A i \in M : M = Collapse(raw, c[i], i)
    BY <1>3, <1>4
  <1>7. \A M \in Collapsed(raw, c) : \A i, j \in M :
          ClusterKey(reg, raw[i]) = ClusterKey(reg, raw[j])
    <2>1. ASSUME NEW M \in Collapsed(raw, c), NEW i \in M, NEW j \in M
          PROVE  ClusterKey(reg, raw[i]) = ClusterKey(reg, raw[j])
      <3>1. i \in DOMAIN c /\ j \in DOMAIN c /\ j \in c[i]
        BY <1>2, <1>5, <1>6, <2>1
      <3> QED
        BY <1>1, <3>1 DEF Divides
    <2> QED
      BY <2>1
  <1>8. Partition(c, reg, raw)
    BY <1>2, <1>5, <1>6, <1>7 DEF Partition
  <1> QED
    BY <1>8 DEF c

----------------------------------------------------------------------------
(* The list of events                                                      *)

(* The events come out in one order, whatever they are.                    *)
LEMMA PrecedesOrders ==
    ASSUME NEW reg, NEW raw, Given(reg, raw),
           NEW S \in SUBSET Collapsed(raw, Clusters(reg, raw))
    PROVE  Orders([M \in S |->
                     {L \in S : Precedes(raw, Clusters(reg, raw), Min(L), Min(M))}], S)
  <1> DEFINE c == Clusters(reg, raw)
             below == [M \in S |-> {L \in S : Precedes(raw, c, Min(L), Min(M))}]
             i(M) == Min(M)
             f(M) == Min(c[Min(M)])
             u(M) == raw[Min(M)].uid
  <1>1. Divides(c, reg, raw) /\ Partition(c, reg, raw)
    BY ClustersDivide, CollapsedDivide
  <1>2. IsFiniteSet(DOMAIN raw) /\ DOMAIN raw \subseteq Nat
    BY SomeFinite
  <1>3. S \in SUBSET Collapsed(raw, c)
    OBVIOUS
  <1> HIDE DEF c
  <1>4. IsFiniteSet(S)
    <2>1. S \in SUBSET SUBSET DOMAIN raw
      BY <1>1, <1>3 DEF Partition
    <2>2. IsFiniteSet(SUBSET DOMAIN raw)
      BY <1>2, FS_SUBSET
    <2> QED
      BY <2>1, <2>2, FS_Subset
  <1>5. \A M \in S : i(M) \in M /\ i(M) \in DOMAIN c /\ i(M) \in Nat
    <2>1. ASSUME NEW M \in S
          PROVE  i(M) \in M /\ i(M) \in DOMAIN c /\ i(M) \in Nat
      <3>1. M \in SUBSET Nat /\ M # {} /\ M \subseteq DOMAIN c
        BY <1>1, <1>2, <1>3 DEF Partition
      <3> QED
        BY <3>1, MinIsLeast
    <2> QED
      BY <2>1
  <1>6. \A M \in S : f(M) \in Nat
    <2>1. ASSUME NEW M \in S
          PROVE  f(M) \in Nat
      <3>1. i(M) \in DOMAIN c
        BY <1>5
      <3>2. c[i(M)] \in SUBSET Nat /\ c[i(M)] # {}
        BY <1>1, <1>2, <3>1 DEF Divides
      <3> QED
        BY <3>2, MinIsLeast
    <2> QED
      BY <2>1
  <1>7. \A M \in S : u(M) \in Int
    BY <1>1, <1>3, <1>5 DEF Given, Comparable, Partition
  <1>8. \A M, L \in S : i(M) = i(L) => M = L
    <2>1. ASSUME NEW M \in S, NEW L \in S, i(M) = i(L)
          PROVE  M = L
      <3>1. M = Collapse(raw, c[i(M)], i(M)) /\ L = Collapse(raw, c[i(L)], i(L))
        BY <1>1, <1>3, <1>5 DEF Partition
      <3> QED
        BY <2>1, <3>1
    <2> QED
      BY <2>1
  <1>9. DOMAIN below = S /\ \A M \in S : below[M] \subseteq S
    OBVIOUS
  <1>10. \A M, L \in S : L \in below[M] <=>
          \/ f(L) < f(M)
          \/ f(L) = f(M) /\ u(L) < u(M)
          \/ f(L) = f(M) /\ u(L) = u(M) /\ i(L) < i(M)
    BY DEF Precedes
  <1> HIDE DEF below, i, f, u
  <1>11. \A M \in S : M \notin below[M]
    BY <1>5, <1>6, <1>7, <1>10
  <1>12. \A M, L \in S : M = L \/ L \in below[M] \/ M \in below[L]
    BY <1>5, <1>6, <1>7, <1>8, <1>10
  <1>13. \A M, L, K \in S : L \in below[M] /\ K \in below[L] => K \in below[M]
    BY <1>5, <1>6, <1>7, <1>10
  <1>14. \A M, L \in S : L \in below[M] => below[L] \subseteq below[M]
    BY <1>9, <1>13
  <1>15. Orders(below, S)
    BY <1>4, <1>9, <1>11, <1>12, <1>14 DEF Orders
  <1> QED
    BY <1>15 DEF below, c

(* The meetings none of whose records is rejected.                         *)
Unrejected(reg, rejects, raw) ==
    {M \in Collapsed(raw, Clusters(reg, raw)) : \A i \in M : FpAt(reg, raw, i) \notin rejects}

(* The records of an event, one by one.                                    *)
Carries(e, reg, raw, order) ==
    /\ DOMAIN e.recs = DOMAIN order
    /\ \A k \in DOMAIN order :
          e.recs[k].fp = FpAt(reg, raw, order[k]) /\ e.recs[k].feed = raw[order[k]].feed

LEMMA MadeOfCarries ==
    ASSUME NEW e, NEW reg, NEW raw, NEW M, MadeOf(e, reg, raw, M)
    PROVE  \E order : Lists(order, M) /\ Carries(e, reg, raw, order)
  <1>1. PICK order : /\ Lists(order, M)
                     /\ e.recs = [k \in DOMAIN order |->
                           [fp |-> FpAt(reg, raw, order[k]), feed |-> raw[order[k]].feed]]
    BY DEF MadeOf
  <1>2. ASSUME NEW k \in DOMAIN order
        PROVE  e.recs[k].fp = FpAt(reg, raw, order[k]) /\ e.recs[k].feed = raw[order[k]].feed
    <2>1. e.recs[k] = [fp |-> FpAt(reg, raw, order[k]), feed |-> raw[order[k]].feed]
      BY <1>1, <1>2
    <2> QED
      BY <2>1
  <1>3. Carries(e, reg, raw, order)
    BY <1>1, <1>2 DEF Carries
  <1> QED
    BY <1>1, <1>3

(* Rejecting an event is rejecting one of the records it was merged from.  *)
LEMMA RejectedByRecord ==
    ASSUME NEW e, NEW reg, NEW raw, NEW M, NEW rejects, MadeOf(e, reg, raw, M)
    PROVE  RejectedEvent(rejects, e) <=> \E i \in M : FpAt(reg, raw, i) \in rejects
  <1>1. PICK order : Lists(order, M) /\ Carries(e, reg, raw, order)
    BY MadeOfCarries
  <1>2. (\A k \in DOMAIN order : order[k] \in M) /\ (\A i \in M : \E k \in DOMAIN order : order[k] = i)
    BY <1>1 DEF Lists
  <1> QED
    BY <1>1, <1>2 DEF RejectedEvent, Carries

(* Events lists one event for each meeting that is kept.                   *)
LEMMA EventsList ==
    ASSUME NEW reg, NEW rejects, NEW raw, Given(reg, raw)
    PROVE  \E order :
             /\ Lists(order, Unrejected(reg, rejects, raw))
             /\ DOMAIN Events(reg, rejects, raw) = DOMAIN order
             /\ \A k \in DOMAIN order :
                   /\ Events(reg, rejects, raw)[k] = Merge(reg, raw, order[k])
                   /\ MadeOf(Events(reg, rejects, raw)[k], reg, raw, order[k])
  <1> DEFINE c == Clusters(reg, raw)
             merged == [M \in Collapsed(raw, c) |-> Merge(reg, raw, M)]
             kept == {M \in DOMAIN merged : ~RejectedEvent(rejects, merged[M])}
             order == Ranked([M \in kept |-> {L \in kept : Precedes(raw, c, Min(L), Min(M))}])
             K == Unrejected(reg, rejects, raw)
  <1>1. Partition(c, reg, raw)
    BY CollapsedDivide
  <1>2. \A M \in Collapsed(raw, c) : MadeOf(merged[M], reg, raw, M)
    <2>1. ASSUME NEW M \in Collapsed(raw, c)
          PROVE  MadeOf(merged[M], reg, raw, M)
      <3>1. M \in SUBSET DOMAIN raw /\ M # {}
        BY <1>1 DEF Partition
      <3> QED
        BY <3>1, MergeMakes
    <2> QED
      BY <2>1
  <1>3. kept = K
    <2>1. DOMAIN merged = Collapsed(raw, c)
      OBVIOUS
    <2> HIDE DEF merged
    <2>2. \A M \in Collapsed(raw, c) :
            RejectedEvent(rejects, merged[M]) <=> \E i \in M : FpAt(reg, raw, i) \in rejects
      BY <1>2, RejectedByRecord
    <2> QED
      BY <2>1, <2>2 DEF Unrejected
  <1>4. Events(reg, rejects, raw) = [k \in DOMAIN order |-> merged[order[k]]]
    BY DEF Events
  <1>5. Lists(order, kept)
    <2>1. kept \in SUBSET Collapsed(raw, c)
      OBVIOUS
    <2> HIDE DEF kept
    <2>2. Orders([M \in kept |-> {L \in kept : Precedes(raw, c, Min(L), Min(M))}], kept)
      BY <2>1, PrecedesOrders
    <2> QED
      BY <2>2, RankedLists
  <1>6. \A k \in DOMAIN order : order[k] \in Collapsed(raw, c)
    <2>1. \A k \in DOMAIN order : order[k] \in kept
      <3> HIDE DEF kept, order
      <3> QED
        BY <1>5 DEF Lists
    <2> QED
      BY <2>1
  <1>9. \A M \in Collapsed(raw, c) : merged[M] = Merge(reg, raw, M)
    OBVIOUS
  <1> HIDE DEF order, kept, merged, K
  <1>7. Lists(order, K)
    BY <1>3, <1>5
  <1>8. /\ DOMAIN Events(reg, rejects, raw) = DOMAIN order
        /\ \A k \in DOMAIN order :
              /\ Events(reg, rejects, raw)[k] = Merge(reg, raw, order[k])
              /\ MadeOf(Events(reg, rejects, raw)[k], reg, raw, order[k])
    BY <1>2, <1>4, <1>6, <1>9
  <1> QED
    BY <1>7, <1>8 DEF K

----------------------------------------------------------------------------
(* The theorems                                                            *)

(* The records of the event that record i is of.                           *)
MeetingAt(reg, raw, i) == Collapse(raw, Clusters(reg, raw)[i], i)

RecFps(e) == {e.recs[m].fp : m \in DOMAIN e.recs}

(* What the events are to a reader: whose, when, and of which records.     *)
Tales(events) == {<<<<events[k].group, events[k].start>>, RecFps(events[k])>> : k \in DOMAIN events}

LEMMA MadeOfTells ==
    ASSUME NEW e, NEW reg, NEW raw, NEW M, MadeOf(e, reg, raw, M),
           \A i, j \in M : ClusterKey(reg, raw[i]) = ClusterKey(reg, raw[j]), NEW i \in M
    PROVE  /\ <<e.group, e.start>> = ClusterKey(reg, raw[i])
           /\ RecFps(e) = {FpAt(reg, raw, j) : j \in M}
  <1>1. PICK order : Lists(order, M) /\ Carries(e, reg, raw, order)
    BY MadeOfCarries
  <1>2. (\A k \in DOMAIN order : order[k] \in M) /\ (\A j \in M : \E k \in DOMAIN order : order[k] = j)
    BY <1>1 DEF Lists
  <1>3. RecFps(e) = {FpAt(reg, raw, j) : j \in M}
    BY <1>1, <1>2 DEF RecFps, Carries
  <1>4. PICK j \in M : e.group = GroupFor(reg, raw[j]) /\ e.start = raw[j].start
    BY DEF MadeOf
  <1>5. <<e.group, e.start>> = ClusterKey(reg, raw[j])
    BY <1>4 DEF ClusterKey
  <1>6. ClusterKey(reg, raw[j]) = ClusterKey(reg, raw[i])
    BY <1>4
  <1> QED
    BY <1>3, <1>5, <1>6

(* The events are the meetings none of whose records is rejected: for each *)
(* such record the event of its group at its instant, made of exactly the  *)
(* records of its cluster, or of it alone if a feed listed two of those;   *)
(* and no other event (Events, collapse).                                  *)
THEOREM EventsTell ==
    ASSUME NEW reg, NEW rejects, NEW raw, Given(reg, raw)
    PROVE  Tales(Events(reg, rejects, raw)) =
             {<<ClusterKey(reg, raw[i]), {FpAt(reg, raw, j) : j \in MeetingAt(reg, raw, i)}>> :
                i \in {i \in DOMAIN raw :
                         /\ Resolvable(reg, raw[i])
                         /\ \A j \in MeetingAt(reg, raw, i) : FpAt(reg, raw, j) \notin rejects}}
  <1> DEFINE c == Clusters(reg, raw)
             out == Events(reg, rejects, raw)
             K == Unrejected(reg, rejects, raw)
             Tale(i) == <<ClusterKey(reg, raw[i]), {FpAt(reg, raw, j) : j \in MeetingAt(reg, raw, i)}>>
             I == {i \in DOMAIN raw :
                         /\ Resolvable(reg, raw[i])
                         /\ \A j \in MeetingAt(reg, raw, i) : FpAt(reg, raw, j) \notin rejects}
             Said(k) == <<<<out[k].group, out[k].start>>, RecFps(out[k])>>
  <1>1. Divides(c, reg, raw) /\ Partition(c, reg, raw)
    BY ClustersDivide, CollapsedDivide
  <1>2. PICK order :
             /\ Lists(order, K)
             /\ DOMAIN out = DOMAIN order
             /\ \A k \in DOMAIN order : MadeOf(out[k], reg, raw, order[k])
    BY EventsList
  <1>3. \A k \in DOMAIN order : order[k] \in K
    BY <1>2 DEF Lists
  <1>4. \A M \in K : \E k \in DOMAIN order : order[k] = M
    BY <1>2 DEF Lists
  <1>5. K = {M \in Collapsed(raw, c) : \A i \in M : FpAt(reg, raw, i) \notin rejects}
    BY DEF Unrejected
  <1>6. I = {i \in DOMAIN c : MeetingAt(reg, raw, i) \in K}
    <2>1. \A i \in DOMAIN c : MeetingAt(reg, raw, i) \in Collapsed(raw, c)
      BY DEF MeetingAt, Collapsed
    <2> HIDE DEF K, c
    <2> QED
      BY <1>1, <1>5, <2>1 DEF Divides
  <1>7. \A i \in DOMAIN c : MeetingAt(reg, raw, i) = Collapse(raw, c[i], i)
    BY DEF MeetingAt
  <1> HIDE DEF c, K, I, out
  <1>8. ASSUME NEW k \in DOMAIN order, NEW i \in order[k]
        PROVE  Said(k) = Tale(i) /\ i \in I
    <2>1. order[k] \in Collapsed(raw, c) /\ MadeOf(out[k], reg, raw, order[k])
      BY <1>2, <1>3, <1>5, <1>8
    <2>2. i \in DOMAIN c /\ order[k] = MeetingAt(reg, raw, i)
      BY <1>1, <1>7, <1>8, <2>1 DEF Partition
    <2>3. \A m, j \in order[k] : ClusterKey(reg, raw[m]) = ClusterKey(reg, raw[j])
      BY <1>1, <2>1 DEF Partition
    <2>4. /\ <<out[k].group, out[k].start>> = ClusterKey(reg, raw[i])
          /\ RecFps(out[k]) = {FpAt(reg, raw, j) : j \in order[k]}
      BY <1>8, <2>1, <2>3, MadeOfTells
    <2> QED
      BY <1>3, <1>6, <1>8, <2>2, <2>4
  <1>9. \A k \in DOMAIN order : \E i \in I : Said(k) = Tale(i)
    <2>1. ASSUME NEW k \in DOMAIN order
          PROVE  \E i \in order[k] : TRUE
      <3>1. order[k] \in Collapsed(raw, c)
        BY <1>3, <1>5
      <3>2. order[k] # {}
        BY <1>1, <3>1 DEF Partition
      <3> QED
        BY <3>2
    <2> QED
      BY <1>8, <2>1
  <1>10. \A i \in I : \E k \in DOMAIN order : Said(k) = Tale(i)
    <2>1. ASSUME NEW i \in I
          PROVE  \E k \in DOMAIN order : Said(k) = Tale(i)
      <3>1. i \in DOMAIN c /\ MeetingAt(reg, raw, i) \in K
        BY <1>6, <2>1
      <3>2. PICK k \in DOMAIN order : order[k] = MeetingAt(reg, raw, i)
        BY <1>4, <3>1
      <3>3. i \in order[k]
        BY <1>1, <1>7, <3>1, <3>2 DEF Partition
      <3> QED
        BY <1>8, <3>3
    <2> QED
      BY <2>1
  <1> HIDE DEF Said, Tale
  <1>11. {Said(k) : k \in DOMAIN out} = {Tale(i) : i \in I}
    BY <1>2, <1>9, <1>10
  <1> QED
    BY <1>11 DEF Said, Tale, I, out, Tales

(* What SaveEvents relies on: an event is named by the first of its        *)
(* records, each of which it has once and from a feed of its own, and no   *)
(* record is in two events, if the feeds gave no fingerprint twice.        *)
THEOREM EventsFit ==
    ASSUME NEW reg, NEW rejects, NEW raw, Given(reg, raw)
    PROVE  LET out == Events(reg, rejects, raw) IN
           /\ \A k \in DOMAIN out :
                 /\ 1 \in DOMAIN out[k].recs
                 /\ out[k].fp = out[k].recs[1].fp
                 /\ \A m, n \in DOMAIN out[k].recs :
                       out[k].recs[m].feed = out[k].recs[n].feed => m = n
           /\ DistinctFps(reg, raw) =>
                 \A k, l \in DOMAIN out : \A m \in DOMAIN out[k].recs, n \in DOMAIN out[l].recs :
                    out[k].recs[m].fp = out[l].recs[n].fp => k = l /\ m = n
  <1> DEFINE c == Clusters(reg, raw)
             out == Events(reg, rejects, raw)
             K == Unrejected(reg, rejects, raw)
  <1>1. Divides(c, reg, raw) /\ Partition(c, reg, raw)
    BY ClustersDivide, CollapsedDivide
  <1>2. PICK order :
             /\ Lists(order, K)
             /\ DOMAIN out = DOMAIN order
             /\ \A k \in DOMAIN order : MadeOf(out[k], reg, raw, order[k])
    BY EventsList
  <1>3. \A k \in DOMAIN order : order[k] \in Collapsed(raw, c)
    BY <1>2 DEF Lists, Unrejected
  <1>4. \A k, l \in DOMAIN order : order[k] = order[l] => k = l
    BY <1>2 DEF Lists
  <1> HIDE DEF c, K, out
  <1>5. ASSUME NEW k \in DOMAIN order
        PROVE  /\ order[k] # {} /\ order[k] \subseteq DOMAIN raw
               /\ \A i, j \in order[k] : raw[i].feed = raw[j].feed => i = j
    <2>1. order[k] # {} /\ order[k] \subseteq DOMAIN raw /\ order[k] \subseteq DOMAIN c
      BY <1>1, <1>3, <1>5 DEF Partition
    <2>2. PICK i \in DOMAIN c : order[k] = Collapse(raw, c[i], i)
      BY <1>3, <1>5 DEF Collapsed
    <2> QED
      BY <2>1, <2>2 DEF Collapse, DistinctFeeds
  <1>6. ASSUME NEW k \in DOMAIN order, NEW l \in DOMAIN order, DistinctFps(reg, raw),
               NEW i \in order[k], NEW j \in order[l], FpAt(reg, raw, i) = FpAt(reg, raw, j)
        PROVE  k = l /\ i = j
    <2>1. i = j
      BY <1>5, <1>6 DEF DistinctFps, FpAt
    <2>2. order[k] = Collapse(raw, c[i], i) /\ order[l] = Collapse(raw, c[j], j)
      BY <1>1, <1>3, <1>6 DEF Partition
    <2> QED
      BY <1>4, <2>1, <2>2
  <1>7. ASSUME NEW k \in DOMAIN order
        PROVE  \E o : Lists(o, order[k]) /\ Carries(out[k], reg, raw, o)
    BY <1>2, <1>7, MadeOfCarries
  <1>8. ASSUME NEW k \in DOMAIN order
        PROVE  /\ 1 \in DOMAIN out[k].recs
               /\ out[k].fp = out[k].recs[1].fp
               /\ \A m, n \in DOMAIN out[k].recs :
                     out[k].recs[m].feed = out[k].recs[n].feed => m = n
    <2>1. PICK o : Lists(o, order[k]) /\ Carries(out[k], reg, raw, o)
      BY <1>7, <1>8
    <2>2. /\ \A m \in DOMAIN o : o[m] \in order[k]
          /\ \A m, n \in DOMAIN o : o[m] = o[n] => m = n
      BY <2>1 DEF Lists
    <2>3. 1 \in DOMAIN o
      <3>1. DOMAIN o # {} /\ DOMAIN o = 1 .. Cardinality(order[k]) /\ Cardinality(order[k]) \in Nat
        BY <1>5, <1>8, <2>1 DEF Lists
      <3> QED
        BY <3>1
    <2>4. \A m, n \in DOMAIN o : raw[o[m]].feed = raw[o[n]].feed => m = n
      BY <1>5, <1>8, <2>2
    <2>5. out[k].fp = out[k].recs[1].fp
      BY <1>2, <1>8 DEF MadeOf
    <2> QED
      BY <2>1, <2>3, <2>4, <2>5 DEF Carries
  <1>9. ASSUME NEW k \in DOMAIN order, NEW l \in DOMAIN order, DistinctFps(reg, raw),
               NEW m \in DOMAIN out[k].recs, NEW n \in DOMAIN out[l].recs,
               out[k].recs[m].fp = out[l].recs[n].fp
        PROVE  k = l /\ m = n
    <2>1. PICK o : Lists(o, order[k]) /\ Carries(out[k], reg, raw, o)
      BY <1>7, <1>9
    <2>2. PICK q : Lists(q, order[l]) /\ Carries(out[l], reg, raw, q)
      BY <1>7, <1>9
    <2>3. o[m] \in order[k] /\ q[n] \in order[l]
      BY <1>9, <2>1, <2>2 DEF Lists, Carries
    <2>4. FpAt(reg, raw, o[m]) = FpAt(reg, raw, q[n])
      BY <1>9, <2>1, <2>2 DEF Carries
    <2>5. k = l /\ o[m] = q[n]
      BY <1>6, <1>9, <2>3, <2>4
    <2>6. out[k].recs[m].feed = raw[o[m]].feed /\ out[l].recs[n].feed = raw[q[n]].feed
      BY <1>9, <2>1, <2>2 DEF Carries
    <2>7. out[k].recs[m].feed = out[k].recs[n].feed /\ n \in DOMAIN out[k].recs
      BY <1>9, <2>5, <2>6
    <2> QED
      BY <1>8, <1>9, <2>5, <2>7
  <1> QED
    BY <1>2, <1>8, <1>9 DEF out

(* The places of a list of events where a record stands.                   *)
RecordsIn(events) == UNION {{<<k, m>> : m \in DOMAIN events[k].recs} : k \in DOMAIN events}

(* No record is lost and none counted twice, even of two that carry one    *)
(* fingerprint: the events of a list that no reject names have as many     *)
(* records as the list has that can be resolved (collapse).                *)
THEOREM EventsLoseNothing ==
    ASSUME NEW reg, NEW raw, Given(reg, raw)
    PROVE  LET out == Events(reg, {}, raw) IN
           Cardinality(RecordsIn(out))
             = Cardinality({i \in DOMAIN raw : Resolvable(reg, raw[i])})
  <1> DEFINE c == Clusters(reg, raw)
             out == Events(reg, {}, raw)
             P == RecordsIn(out)
             K == Unrejected(reg, {}, raw)
  <1>1. Divides(c, reg, raw) /\ Partition(c, reg, raw)
    BY ClustersDivide, CollapsedDivide
  <1>2. PICK order :
             /\ Lists(order, K)
             /\ DOMAIN out = DOMAIN order
             /\ \A k \in DOMAIN order : MadeOf(out[k], reg, raw, order[k])
    BY EventsList
  <1>3. K = Collapsed(raw, c)
    BY DEF Unrejected
  <1> HIDE DEF c, K, out
  <1> DEFINE ord(k) == CHOOSE o : Lists(o, order[k]) /\ Carries(out[k], reg, raw, o)
             f == [p \in P |-> ord(p[1])[p[2]]]
  <1>4. ASSUME NEW k \in DOMAIN order
        PROVE  Lists(ord(k), order[k]) /\ Carries(out[k], reg, raw, ord(k))
    <2>1. \E o : Lists(o, order[k]) /\ Carries(out[k], reg, raw, o)
      BY <1>2, <1>4, MadeOfCarries
    <2> QED
      BY <2>1
  <1> HIDE DEF ord
  <1>5. ASSUME NEW p \in P
        PROVE  /\ p[1] \in DOMAIN order /\ p[2] \in DOMAIN ord(p[1]) /\ p = <<p[1], p[2]>>
               /\ f[p] = ord(p[1])[p[2]] /\ f[p] \in order[p[1]]
    <2>1. PICK k \in DOMAIN out : \E m \in DOMAIN out[k].recs : p = <<k, m>>
      BY <1>5 DEF RecordsIn
    <2>2. PICK m \in DOMAIN out[k].recs : p = <<k, m>>
      BY <2>1
    <2>3. k \in DOMAIN order /\ Lists(ord(k), order[k]) /\ Carries(out[k], reg, raw, ord(k))
      BY <1>2, <1>4
    <2>4. m \in DOMAIN ord(k) /\ ord(k)[m] \in order[k]
      BY <2>2, <2>3 DEF Carries, Lists
    <2> QED
      BY <1>5, <2>2, <2>3, <2>4
  <1>6. ASSUME NEW k \in DOMAIN order, NEW m \in DOMAIN ord(k)
        PROVE  <<k, m>> \in P
    <2>1. k \in DOMAIN out /\ m \in DOMAIN out[k].recs
      BY <1>2, <1>4, <1>6 DEF Carries
    <2> QED
      BY <2>1 DEF RecordsIn
  <1> HIDE DEF P
  <1>7. DOMAIN f = P
    OBVIOUS
  <1> HIDE DEF f
  <1>8. ASSUME NEW p \in P, NEW q \in P, f[p] = f[q]
        PROVE  p = q
    <2>1. p[1] \in DOMAIN order /\ q[1] \in DOMAIN order /\ f[p] \in order[p[1]] /\ f[p] \in order[q[1]]
      BY <1>5, <1>8
    <2>2. order[p[1]] \in Collapsed(raw, c) /\ order[q[1]] \in Collapsed(raw, c)
      BY <1>2, <1>3, <2>1 DEF Lists
    <2>3. order[p[1]] = order[q[1]]
      BY <1>1, <2>1, <2>2 DEF Partition
    <2>4. p[1] = q[1]
      BY <1>2, <2>1, <2>3 DEF Lists
    <2>5. Lists(ord(p[1]), order[p[1]])
      BY <1>4, <2>1
    <2>6. ord(p[1])[p[2]] = ord(p[1])[q[2]] /\ p[2] \in DOMAIN ord(p[1]) /\ q[2] \in DOMAIN ord(p[1])
      BY <1>5, <1>8, <2>4
    <2>7. p[2] = q[2]
      BY <2>5, <2>6 DEF Lists
    <2> QED
      BY <1>5, <2>4, <2>7
  <1>9. ASSUME NEW p \in P
        PROVE  f[p] \in DOMAIN c
    <2>1. order[p[1]] \in Collapsed(raw, c)
      BY <1>2, <1>3, <1>5, <1>9 DEF Lists
    <2> QED
      BY <1>1, <1>5, <1>9, <2>1 DEF Partition
  <1>10. ASSUME NEW i \in DOMAIN c
         PROVE  \E p \in P : f[p] = i
    <2>1. Collapse(raw, c[i], i) \in K /\ i \in Collapse(raw, c[i], i)
      BY <1>1, <1>3, <1>10 DEF Collapsed, Partition
    <2>2. PICK k \in DOMAIN order : order[k] = Collapse(raw, c[i], i)
      BY <1>2, <2>1 DEF Lists
    <2>3. PICK m \in DOMAIN ord(k) : ord(k)[m] = i
      BY <1>4, <2>1, <2>2 DEF Lists
    <2>4. <<k, m>> \in P
      BY <1>6, <2>2, <2>3
    <2>5. f[<<k, m>>] = i
      BY <1>5, <2>3, <2>4
    <2> QED
      BY <2>4, <2>5
  <1>11. f \in Bijection(P, DOMAIN c)
    <2>1. f \in [P -> DOMAIN c]
      <3>1. f = [p \in P |-> f[p]]
        BY <1>7 DEF f
      <3> QED
        BY <1>9, <3>1
    <2>2. IsInjective(f)
      BY <1>7, <1>8 DEF IsInjective
    <2> QED
      BY <1>10, <2>1, <2>2 DEF Bijection, Injection, Surjection
  <1>12. IsFiniteSet(DOMAIN c)
    <2>1. DOMAIN c \in SUBSET DOMAIN raw
      BY <1>1 DEF Divides
    <2> QED
      BY <2>1, SomeFinite
  <1>13. Cardinality(P) = Cardinality(DOMAIN c)
    <2>1. f \in Injection(P, DOMAIN c) /\ f \in Surjection(P, DOMAIN c)
      BY <1>11 DEF Bijection
    <2> QED
      BY <1>12, <2>1, FS_Injection
  <1>14. DOMAIN c = {i \in DOMAIN raw : Resolvable(reg, raw[i])}
    BY <1>1 DEF Divides
  <1> QED
    BY <1>13, <1>14 DEF P, out

----------------------------------------------------------------------------
(* The order the feeds answered in                                         *)

(* p is a way to order the places D anew, and raw in that order.           *)
Shuffles(p, D) ==
    /\ p \in [D -> D]
    /\ \A i, j \in D : p[i] = p[j] => i = j
    /\ \A i \in D : \E j \in D : p[j] = i

Shuffled(raw, p) == [i \in DOMAIN raw |-> raw[p[i]]]

(* The places in raw of the records at the places M of the other list.     *)
Moved(p, M) == {p[i] : i \in M}

(* No two records of one cluster have the same priority and upstream id.   *)
Untied(reg, raw) ==
    \A i, j \in DOMAIN raw :
       /\ i # j
       /\ Resolvable(reg, raw[i]) /\ Resolvable(reg, raw[j])
       /\ ClusterKey(reg, raw[i]) = ClusterKey(reg, raw[j])
       => raw[i].uid # raw[j].uid \/ reg.priority[raw[i].feed] # reg.priority[raw[j].feed]

LEMMA ShuffledGiven ==
    ASSUME NEW reg, NEW raw, Given(reg, raw), NEW p, Shuffles(p, DOMAIN raw)
    PROVE  /\ Given(reg, Shuffled(raw, p))
           /\ DOMAIN Shuffled(raw, p) = DOMAIN raw
           /\ \A i \in DOMAIN raw : p[i] \in DOMAIN raw /\ Shuffled(raw, p)[i] = raw[p[i]]
  BY DEF Given, Comparable, Shuffles, Shuffled

LEMMA MovedSize ==
    ASSUME NEW p, NEW D, Shuffles(p, D), NEW M \in SUBSET D, IsFiniteSet(M)
    PROVE  Cardinality(Moved(p, M)) = Cardinality(M)
  <1> DEFINE f == [i \in M |-> p[i]]
  <1>1. f \in [M -> Moved(p, M)] /\ \A i, j \in M : f[i] = f[j] => i = j
    BY DEF Shuffles, Moved
  <1>2. \A x \in Moved(p, M) : \E i \in M : f[i] = x
    BY DEF Moved
  <1> HIDE DEF f
  <1>3. f \in Bijection(M, Moved(p, M))
    BY <1>1, <1>2 DEF Bijection, Injection, Surjection, IsInjective
  <1>4. ExistsBijection(M, Moved(p, M))
    BY <1>3 DEF ExistsBijection
  <1> QED
    BY <1>4, FS_Bijection

(* The records of an event come in one order, whatever order they came in. *)
LEMMA InOrderMoved ==
    ASSUME NEW reg, NEW raw, Given(reg, raw), NEW p, Shuffles(p, DOMAIN raw),
           NEW M \in SUBSET DOMAIN raw,
           \A i, j \in Moved(p, M) : i # j =>
              raw[i].uid # raw[j].uid \/ reg.priority[raw[i].feed] # reg.priority[raw[j].feed]
    PROVE  InOrder(reg, Shuffled(raw, p), M) = InOrder(reg, raw, Moved(p, M))
  <1> DEFINE other == Shuffled(raw, p)
             N == Moved(p, M)
             was == [i \in M |-> {j \in M : Beats(reg, other, j, i)}]
             is == [i \in N |-> {j \in N : Beats(reg, raw, j, i)}]
             wo == Ranked(was)
             io == Ranked(is)
             n == Cardinality(M)
  <1>1. /\ Given(reg, other) /\ DOMAIN other = DOMAIN raw
        /\ \A i \in DOMAIN raw : p[i] \in DOMAIN raw /\ other[i] = raw[p[i]]
    BY ShuffledGiven
  <1>2. N \in SUBSET DOMAIN raw /\ \A i \in M : p[i] \in N
    BY <1>1 DEF Moved
  <1>3. Orders(was, M) /\ Orders(is, N)
    <2> HIDE DEF other, N
    <2> QED
      BY <1>1, <1>2, BeatsOrders
  <1>4. Cardinality(N) = n /\ \A S \in SUBSET M : Cardinality(Moved(p, S)) = Cardinality(S)
    <2>1. \A S \in SUBSET M : IsFiniteSet(S)
      BY SomeFinite
    <2> QED
      BY <2>1, MovedSize
  <1>5. \A i, j \in M : Beats(reg, other, j, i) <=> Beats(reg, raw, p[j], p[i])
    <2> SUFFICES ASSUME NEW i \in M, NEW j \in M
                 PROVE  Beats(reg, other, j, i) <=> Beats(reg, raw, p[j], p[i])
      OBVIOUS
    <2>1. other[i] = raw[p[i]] /\ other[j] = raw[p[j]] /\ p[i] \in N /\ p[j] \in N
          /\ p[i] \in DOMAIN raw /\ p[j] \in DOMAIN raw
      BY <1>1, <1>2
    <2>2. i \in Nat /\ j \in Nat /\ p[i] \in Nat /\ p[j] \in Nat /\ (i = j <=> p[i] = p[j])
      BY <2>1, SomeFinite DEF Shuffles
    <2> DEFINE a == raw[p[j]]
               b == raw[p[i]]
    <2>3. /\ a.uid \in Int /\ b.uid \in Int
          /\ reg.priority[a.feed] \in Int /\ reg.priority[b.feed] \in Int
      BY <2>1 DEF Given, Comparable
    <2>4. i # j => a.uid # b.uid \/ reg.priority[a.feed] # reg.priority[b.feed]
      BY <2>1, <2>2
    <2>5. /\ Beats(reg, other, j, i) <=> Wins(reg, a, b) \/ (~Wins(reg, b, a) /\ j < i)
          /\ Beats(reg, raw, p[j], p[i]) <=> Wins(reg, a, b) \/ (~Wins(reg, b, a) /\ p[j] < p[i])
      BY <2>1 DEF Beats
    <2> HIDE DEF a, b, other, N
    <2>6. i # j => Wins(reg, a, b) \/ Wins(reg, b, a)
      BY <2>3, <2>4 DEF Wins
    <2> QED
      BY <2>2, <2>5, <2>6
  <1>6. ASSUME NEW i \in M
        PROVE  is[p[i]] = Moved(p, was[i]) /\ was[i] \in SUBSET M
    BY <1>2, <1>5 DEF Moved
  <1>7. DOMAIN wo = 1 .. n /\ \A k \in 1 .. n : wo[k] \in M /\ Cardinality(was[wo[k]]) = k - 1
    <2> HIDE DEF was
    <2> QED
      BY <1>3, RankedAt
  <1>8. DOMAIN io = 1 .. n /\ \A k \in 1 .. n : io[k] \in N /\ Cardinality(is[io[k]]) = k - 1
    <2> HIDE DEF is, N
    <2> QED
      BY <1>3, <1>4, RankedAt
  <1>9. \A x, y \in N : Cardinality(is[x]) = Cardinality(is[y]) => x = y
    <2> HIDE DEF is, N
    <2> QED
      BY <1>3, RanksDiffer
  <1>10. InOrder(reg, other, M) = [k \in DOMAIN wo |-> other[wo[k]]]
         /\ InOrder(reg, raw, N) = [k \in DOMAIN io |-> raw[io[k]]]
    BY DEF InOrder
  <1> HIDE DEF other, N, was, is, wo, io, n
  <1>11. ASSUME NEW k \in 1 .. n
         PROVE  other[wo[k]] = raw[io[k]]
    <2>1. p[wo[k]] \in N /\ Cardinality(is[p[wo[k]]]) = k - 1
      BY <1>2, <1>4, <1>6, <1>7
    <2>2. p[wo[k]] = io[k]
      BY <1>8, <1>9, <2>1
    <2> QED
      BY <1>1, <1>7, <2>2
  <1> QED
    BY <1>7, <1>8, <1>10, <1>11 DEF other, N

(* The clusters move with their records.                                   *)
ClustersMoved(p, reg, raw) ==
    LET c == Clusters(reg, raw)
        was == Clusters(reg, Shuffled(raw, p))
    IN  /\ DOMAIN was = {i \in DOMAIN raw : p[i] \in DOMAIN c}
        /\ \A i \in DOMAIN was : Moved(p, was[i]) = c[p[i]] /\ was[i] \subseteq DOMAIN raw

LEMMA ClustersMove ==
    ASSUME NEW reg, NEW raw, Given(reg, raw), NEW p, Shuffles(p, DOMAIN raw)
    PROVE  ClustersMoved(p, reg, raw)
  <1> DEFINE other == Shuffled(raw, p)
             c == Clusters(reg, raw)
             was == Clusters(reg, other)
  <1>1. /\ DOMAIN other = DOMAIN raw
        /\ \A i \in DOMAIN raw : p[i] \in DOMAIN raw /\ other[i] = raw[p[i]]
    BY ShuffledGiven
  <1>2. Divides(c, reg, raw) /\ Divides(was, reg, other)
    BY ClustersDivide
  <1> HIDE DEF c, was, other
  <1>3. DOMAIN was = {i \in DOMAIN raw : p[i] \in DOMAIN c}
    BY <1>1, <1>2 DEF Divides
  <1>4. ASSUME NEW i \in DOMAIN was
        PROVE  Moved(p, was[i]) = c[p[i]] /\ was[i] \subseteq DOMAIN raw
    <2>1. was[i] \subseteq DOMAIN was /\ p[i] \in DOMAIN c /\ c[p[i]] \subseteq DOMAIN c
      BY <1>2, <1>3 DEF Divides
    <2>2. \A j \in DOMAIN was : j \in was[i] <=> p[j] \in c[p[i]]
      BY <1>1, <1>2, <1>3, <2>1 DEF Divides
    <2>3. \A k \in c[p[i]] : \E j \in was[i] : p[j] = k
      <3>1. ASSUME NEW k \in c[p[i]]
            PROVE  \E j \in was[i] : p[j] = k
        <4>1. k \in DOMAIN c /\ k \in DOMAIN raw
          BY <1>2, <2>1, <3>1 DEF Divides
        <4>2. PICK j \in DOMAIN raw : p[j] = k
          BY <4>1 DEF Shuffles
        <4>3. j \in DOMAIN was
          BY <1>3, <4>1, <4>2
        <4> QED
          BY <2>2, <3>1, <4>2, <4>3
      <3> QED
        BY <3>1
    <2> QED
      BY <1>3, <2>1, <2>2, <2>3 DEF Moved
  <1> QED
    BY <1>3, <1>4 DEF ClustersMoved, c, was, other

(* And so do the meetings: p takes each to the one with the same records.  *)
LEMMA CollapseMoved ==
    ASSUME NEW reg, NEW raw, Given(reg, raw), NEW p, Shuffles(p, DOMAIN raw),
           NEW i \in DOMAIN raw, NEW C \in SUBSET DOMAIN raw
    PROVE  Moved(p, Collapse(Shuffled(raw, p), C, i)) = Collapse(raw, Moved(p, C), p[i])
  <1>1. \A j \in DOMAIN raw : p[j] \in DOMAIN raw /\ Shuffled(raw, p)[j] = raw[p[j]]
    BY ShuffledGiven
  <1>2. DistinctFeeds(Shuffled(raw, p), C) <=> DistinctFeeds(raw, Moved(p, C))
    <2>1. \A j, k \in C : j = k <=> p[j] = p[k]
      BY DEF Shuffles
    <2>2. (\A j, k \in Moved(p, C) : raw[j].feed = raw[k].feed => j = k)
            <=> \A j, k \in C : raw[p[j]].feed = raw[p[k]].feed => p[j] = p[k]
      BY DEF Moved
    <2> QED
      BY <1>1, <2>1, <2>2 DEF DistinctFeeds
  <1>3. Moved(p, {i}) = {p[i]}
    BY DEF Moved
  <1> QED
    BY <1>2, <1>3 DEF Collapse

UnrejectedMoved(p, reg, rejects, raw) ==
    LET K == Unrejected(reg, rejects, raw)
        L == Unrejected(reg, rejects, Shuffled(raw, p))
    IN  /\ \A M \in L : M \in SUBSET DOMAIN raw /\ Moved(p, M) \in K
        /\ \A N \in K : \E M \in L : Moved(p, M) = N

LEMMA UnrejectedMove ==
    ASSUME NEW reg, NEW rejects, NEW raw, Given(reg, raw), NEW p, Shuffles(p, DOMAIN raw)
    PROVE  UnrejectedMoved(p, reg, rejects, raw)
  <1> DEFINE other == Shuffled(raw, p)
             c == Clusters(reg, raw)
             was == Clusters(reg, other)
             Of(i) == Collapse(raw, c[i], i)
             WasOf(i) == Collapse(other, was[i], i)
  <1>1. /\ DOMAIN other = DOMAIN raw
        /\ \A i \in DOMAIN raw : p[i] \in DOMAIN raw /\ other[i] = raw[p[i]]
    BY ShuffledGiven
  <1>2. /\ DOMAIN was = {i \in DOMAIN raw : p[i] \in DOMAIN c}
        /\ \A i \in DOMAIN was : Moved(p, was[i]) = c[p[i]] /\ was[i] \subseteq DOMAIN raw
    BY ClustersMove DEF ClustersMoved
  <1>3. \A i \in DOMAIN was : Moved(p, WasOf(i)) = Of(p[i])
    <2>1. ASSUME NEW i \in DOMAIN was
          PROVE  Moved(p, WasOf(i)) = Of(p[i])
      <3>1. i \in DOMAIN raw /\ was[i] \in SUBSET DOMAIN raw /\ Moved(p, was[i]) = c[p[i]]
        BY <1>2, <2>1
      <3> HIDE DEF was, c
      <3>2. Moved(p, WasOf(i)) = Collapse(raw, Moved(p, was[i]), p[i])
        BY <3>1, CollapseMoved
      <3> QED
        BY <3>1, <3>2
    <2> QED
      BY <2>1
  <1>4. Collapsed(raw, c) = {Of(i) : i \in DOMAIN c} /\ Collapsed(other, was) = {WasOf(i) : i \in DOMAIN was}
    BY DEF Collapsed
  <1>5. Partition(c, reg, raw) /\ Partition(was, reg, other) /\ DOMAIN c \subseteq DOMAIN raw
    <2> HIDE DEF other
    <2>1. Partition(c, reg, raw) /\ Partition(was, reg, other)
      BY CollapsedDivide
    <2>2. Divides(c, reg, raw)
      BY ClustersDivide
    <2> HIDE DEF c
    <2>3. DOMAIN c \subseteq DOMAIN raw
      BY <2>2 DEF Divides
    <2> QED
      BY <2>1, <2>3
  <1> HIDE DEF c, was, other, Of, WasOf
  <1>6. \A M \in Collapsed(other, was) :
           /\ M \in SUBSET DOMAIN raw /\ Moved(p, M) \in Collapsed(raw, c)
           /\ (\E i \in M : FpAt(reg, other, i) \in rejects)
                <=> \E i \in Moved(p, M) : FpAt(reg, raw, i) \in rejects
    <2>1. ASSUME NEW M \in Collapsed(other, was)
          PROVE  /\ M \in SUBSET DOMAIN raw /\ Moved(p, M) \in Collapsed(raw, c)
                 /\ (\E i \in M : FpAt(reg, other, i) \in rejects)
                      <=> \E i \in Moved(p, M) : FpAt(reg, raw, i) \in rejects
      <3>1. M \in SUBSET DOMAIN raw
        BY <1>1, <1>5 DEF Partition
      <3>2. PICK i \in DOMAIN was : M = WasOf(i)
        BY <1>4
      <3>3. Moved(p, M) = Of(p[i]) /\ p[i] \in DOMAIN c
        BY <1>2, <1>3, <3>2
      <3>4. \A j \in M : FpAt(reg, other, j) = FpAt(reg, raw, p[j])
        BY <1>1, <3>1 DEF FpAt
      <3> QED
        BY <1>4, <3>1, <3>3, <3>4 DEF Moved
    <2> QED
      BY <2>1
  <1>7. \A N \in Collapsed(raw, c) : \E M \in Collapsed(other, was) : Moved(p, M) = N
    <2>1. ASSUME NEW N \in Collapsed(raw, c)
          PROVE  \E M \in Collapsed(other, was) : Moved(p, M) = N
      <3>1. PICK k \in DOMAIN c : N = Of(k)
        BY <1>4
      <3>2. PICK i \in DOMAIN raw : p[i] = k
        BY <1>5 DEF Shuffles
      <3>3. i \in DOMAIN was
        BY <1>2, <3>2
      <3> QED
        BY <1>3, <1>4, <3>1, <3>2, <3>3
    <2> QED
      BY <2>1
  <1>8. /\ Unrejected(reg, rejects, raw)
             = {M \in Collapsed(raw, c) : \A i \in M : FpAt(reg, raw, i) \notin rejects}
        /\ Unrejected(reg, rejects, other)
             = {M \in Collapsed(other, was) : \A i \in M : FpAt(reg, other, i) \notin rejects}
    BY DEF Unrejected, c, was
  <1>9. /\ \A M \in Unrejected(reg, rejects, other) :
              M \in SUBSET DOMAIN raw /\ Moved(p, M) \in Unrejected(reg, rejects, raw)
        /\ \A N \in Unrejected(reg, rejects, raw) :
              \E M \in Unrejected(reg, rejects, other) : Moved(p, M) = N
    BY <1>6, <1>7, <1>8
  <1> QED
    BY <1>9 DEF UnrejectedMoved, other

(* The events of a list.                                                   *)
EventsOf(reg, rejects, raw) == ToSet(Events(reg, rejects, raw))

LEMMA EventsAreMerged ==
    ASSUME NEW reg, NEW rejects, NEW raw, Given(reg, raw)
    PROVE  EventsOf(reg, rejects, raw) = {Merge(reg, raw, M) : M \in Unrejected(reg, rejects, raw)}
  <1> DEFINE out == Events(reg, rejects, raw)
             K == Unrejected(reg, rejects, raw)
  <1>1. PICK order :
             /\ Lists(order, K)
             /\ DOMAIN out = DOMAIN order
             /\ \A k \in DOMAIN order : out[k] = Merge(reg, raw, order[k])
    BY EventsList
  <1>2. EventsOf(reg, rejects, raw) = {out[k] : k \in DOMAIN out}
    BY DEF EventsOf, ToSet
  <1> HIDE DEF out, K
  <1>3. (\A k \in DOMAIN order : order[k] \in K) /\ \A M \in K : \E k \in DOMAIN order : order[k] = M
    BY <1>1 DEF Lists
  <1>4. EventsOf(reg, rejects, raw) = {Merge(reg, raw, M) : M \in K}
    BY <1>1, <1>2, <1>3
  <1> QED
    BY <1>4 DEF K

(* Whatever order the feeds answered in, the events are the same, to their *)
(* last field, unless two records of one cluster tie in priority and       *)
(* upstream id (merge: "a run is reproducible rather than dependent on     *)
(* which goroutine finished first").                                       *)
THEOREM EventsOrderFree ==
    ASSUME NEW reg, NEW rejects, NEW raw, Given(reg, raw), Untied(reg, raw),
           NEW p, Shuffles(p, DOMAIN raw)
    PROVE  EventsOf(reg, rejects, Shuffled(raw, p)) = EventsOf(reg, rejects, raw)
  <1> DEFINE other == Shuffled(raw, p)
             c == Clusters(reg, raw)
             K == Unrejected(reg, rejects, raw)
             L == Unrejected(reg, rejects, other)
  <1>1. Given(reg, other)
    BY ShuffledGiven
  <1>2. /\ \A M \in L : M \in SUBSET DOMAIN raw /\ Moved(p, M) \in K
        /\ \A N \in K : \E M \in L : Moved(p, M) = N
    <2>1. UnrejectedMoved(p, reg, rejects, raw)
      BY UnrejectedMove
    <2> QED
      BY <2>1 DEF UnrejectedMoved
  <1>3. /\ EventsOf(reg, rejects, raw) = {Merge(reg, raw, M) : M \in K}
        /\ EventsOf(reg, rejects, other) = {Merge(reg, other, M) : M \in L}
    <2> HIDE DEF other
    <2> QED
      BY <1>1, EventsAreMerged
  <1>4. \A N \in K : \A i, j \in N :
           i # j => raw[i].uid # raw[j].uid \/ reg.priority[raw[i].feed] # reg.priority[raw[j].feed]
    <2>1. Partition(c, reg, raw) /\ Divides(c, reg, raw) /\ K \subseteq Collapsed(raw, c)
      BY CollapsedDivide, ClustersDivide DEF Unrejected
    <2> HIDE DEF c, K
    <2>2. \A N \in K : \A i, j \in N :
             /\ i \in DOMAIN raw /\ j \in DOMAIN raw
             /\ Resolvable(reg, raw[i]) /\ Resolvable(reg, raw[j])
             /\ ClusterKey(reg, raw[i]) = ClusterKey(reg, raw[j])
      BY <2>1 DEF Partition, Divides
    <2> QED
      BY <2>2 DEF Untied
  <1>5. \A M \in L : Merge(reg, other, M) = Merge(reg, raw, Moved(p, M))
    <2>1. ASSUME NEW M \in L
          PROVE  Merge(reg, other, M) = Merge(reg, raw, Moved(p, M))
      <3>1. M \in SUBSET DOMAIN raw /\ Moved(p, M) \in K
        BY <1>2, <2>1
      <3> HIDE DEF K, L, other
      <3>2. \A i, j \in Moved(p, M) : i # j =>
               raw[i].uid # raw[j].uid \/ reg.priority[raw[i].feed] # reg.priority[raw[j].feed]
        BY <1>4, <3>1
      <3>3. InOrder(reg, other, M) = InOrder(reg, raw, Moved(p, M))
        BY <3>1, <3>2, InOrderMoved DEF other
      <3> QED
        BY <3>3 DEF Merge, Winner
    <2> QED
      BY <2>1
  <1> HIDE DEF K, L, other
  <1>6. EventsOf(reg, rejects, other) = EventsOf(reg, rejects, raw)
    BY <1>2, <1>3, <1>5
  <1> QED
    BY <1>6 DEF other

----------------------------------------------------------------------------
(* The place of an event                                                   *)

(* The place a record tells, if it tells one, and one that is curated.     *)
SaidBy(reg, r) == ResolveVenue(reg.curated, r.venues)
Tells(reg, r) == SaidBy(reg, r).venue # <<>>
TellsCurated(reg, r) == Tells(reg, r) /\ IsCurated(reg.curated, SaidBy(reg, r).venue)

(* The loop over the records is well defined, by its least turn that were  *)
(* not.                                                                    *)
LEMMA TellingsDef ==
    ASSUME NEW reg, NEW won, Len(won) \in Nat
    PROVE  Tellings(reg, won) =
             [n \in 0 .. Len(won) |->
                 IF n = 0 THEN Unplaced
                 ELSE Place(reg, Tellings(reg, won)[n - 1], ResolveVenue(reg.curated, won[n].venues))]
  <1> DEFINE N == Len(won)
             Runs(f, m) ==
                f = [n \in 0 .. m |->
                       IF n = 0 THEN Unplaced
                       ELSE Place(reg, f[n - 1], ResolveVenue(reg.curated, won[n].venues))]
             T == {m \in Nat : m <= N /\ ~ \E f : Runs(f, m)}
  <1>1. T = {}
    <2>1. ASSUME T # {}
          PROVE  FALSE
      <3>1. PICK m \in T : \A k \in T : m <= k
        BY <2>1, MinIsLeast
      <3>2. m # 0
        <4>1. Runs([n \in 0 .. 0 |-> Unplaced], 0)
          OBVIOUS
        <4> QED
          BY <4>1
      <3>3. m - 1 \in Nat /\ m - 1 <= N /\ m - 1 \notin T
        BY <3>1, <3>2
      <3>4. PICK g : Runs(g, m - 1)
        BY <3>3
      <3> DEFINE turn(h, n) == Place(reg, h, ResolveVenue(reg.curated, won[n].venues))
                 f == [n \in 0 .. m |-> IF n = m THEN turn(g[m - 1], m) ELSE g[n]]
      <3>5. \A n \in 0 .. m - 1 :
               f[n] = g[n] /\ g[n] = IF n = 0 THEN Unplaced ELSE turn(g[n - 1], n)
        BY <3>4
      <3>6. \A n \in 0 .. m : f[n] = IF n = 0 THEN Unplaced ELSE turn(f[n - 1], n)
        <4> TAKE n \in 0 .. m
        <4>1. CASE n = m
          BY <3>2, <3>3, <3>5, <4>1
        <4>2. CASE n # m
          <5>1. n \in 0 .. m - 1 /\ (n # 0 => n - 1 \in 0 .. m - 1)
            BY <4>2
          <5> QED
            BY <3>5, <5>1
        <4> QED
          BY <4>1, <4>2
      <3>7. f = [n \in 0 .. m |-> f[n]]
        OBVIOUS
      <3> HIDE DEF f
      <3>8. Runs(f, m)
        BY <3>6, <3>7
      <3> QED
        BY <3>1, <3>8
    <2> QED
      BY <2>1
  <1>2. \E f : Runs(f, N)
    BY <1>1
  <1> QED
    BY <1>2 DEF Tellings

(* at is what the first n records tell: the place of the first that tells  *)
(* a curated one, or else of the first that tells any, or else none.       *)
FirstTold(at, reg, won, n) ==
    \/ \E k \in 1 .. n :
          /\ at = SaidBy(reg, won[k]) /\ TellsCurated(reg, won[k])
          /\ \A l \in 1 .. k - 1 : ~ TellsCurated(reg, won[l])
    \/ /\ \A l \in 1 .. n : ~ TellsCurated(reg, won[l])
       /\ \E k \in 1 .. n :
             /\ at = SaidBy(reg, won[k]) /\ Tells(reg, won[k])
             /\ \A l \in 1 .. k - 1 : ~ Tells(reg, won[l])
    \/ at = Unplaced /\ \A l \in 1 .. n : ~ Tells(reg, won[l])

LEMMA FirstToldStep ==
    ASSUME NEW reg, NEW won, NEW n \in Nat \ {0}, NEW at, FirstTold(at, reg, won, n - 1)
    PROVE  FirstTold(Place(reg, at, SaidBy(reg, won[n])), reg, won, n)
  <1> DEFINE said == SaidBy(reg, won[n])
             then == Place(reg, at, said)
  <1>1. \A l \in 1 .. n : l \in 1 .. n - 1 \/ l = n
    OBVIOUS
  <1>2. n \in 1 .. n /\ 1 .. n - 1 \subseteq 1 .. n
    OBVIOUS
  <1>3. ASSUME NEW k \in 1 .. n - 1, at = SaidBy(reg, won[k]), TellsCurated(reg, won[k]),
               \A l \in 1 .. k - 1 : ~ TellsCurated(reg, won[l])
        PROVE  FirstTold(then, reg, won, n)
    <2>1. then = at
      BY <1>3 DEF Place, TellsCurated, Tells
    <2> QED
      BY <1>2, <1>3, <2>1 DEF FirstTold
  <1>4. ASSUME \A l \in 1 .. n - 1 : ~ TellsCurated(reg, won[l]),
               NEW k \in 1 .. n - 1, at = SaidBy(reg, won[k]), Tells(reg, won[k]),
               \A l \in 1 .. k - 1 : ~ Tells(reg, won[l])
        PROVE  FirstTold(then, reg, won, n)
    <2>1. CASE TellsCurated(reg, won[n])
      <3>1. then = said
        BY <1>4, <2>1 DEF Place, TellsCurated, Tells
      <3> QED
        BY <1>2, <1>4, <2>1, <3>1 DEF FirstTold
    <2>2. CASE ~ TellsCurated(reg, won[n])
      <3>1. then = at
        BY <1>4, <2>2 DEF Place, TellsCurated, Tells
      <3> QED
        BY <1>1, <1>2, <1>4, <2>2, <3>1 DEF FirstTold
    <2> QED
      BY <2>1, <2>2
  <1>5. ASSUME at = Unplaced, \A l \in 1 .. n - 1 : ~ Tells(reg, won[l])
        PROVE  FirstTold(then, reg, won, n)
    <2>1. at.venue = <<>>
      BY <1>5 DEF Unplaced
    <2>2. \A l \in 1 .. n - 1 : ~ TellsCurated(reg, won[l])
      BY <1>5 DEF TellsCurated
    <2>3. CASE Tells(reg, won[n])
      <3>1. then = said
        BY <2>1, <2>3 DEF Place, Tells
      <3> QED
        BY <1>1, <1>2, <1>5, <2>2, <2>3, <3>1 DEF FirstTold
    <2>4. CASE ~ Tells(reg, won[n])
      <3>1. then = at
        BY <2>4 DEF Place, Tells
      <3> QED
        BY <1>1, <1>5, <2>4, <3>1 DEF FirstTold
    <2> QED
      BY <2>3, <2>4
  <1> QED
    BY <1>3, <1>4, <1>5 DEF FirstTold

LEMMA ToldIsFirst ==
    ASSUME NEW reg, NEW won, Len(won) \in Nat
    PROVE  FirstTold(Told(reg, won), reg, won, Len(won))
  <1> DEFINE N == Len(won)
             told == Tellings(reg, won)
             T == {n \in Nat : n <= N /\ ~ FirstTold(told[n], reg, won, n)}
  <1>1. told[0] = Unplaced
        /\ \A n \in 1 .. N : told[n] = Place(reg, told[n - 1], SaidBy(reg, won[n]))
    BY TellingsDef DEF SaidBy
  <1> HIDE DEF told
  <1>2. FirstTold(told[0], reg, won, 0)
    BY <1>1 DEF FirstTold
  <1>3. T = {}
    <2>1. ASSUME T # {}
          PROVE  FALSE
      <3>1. PICK m \in T : \A k \in T : m <= k
        BY <2>1, MinIsLeast
      <3>2. m # 0
        BY <1>2, <3>1
      <3>3. m - 1 \in Nat /\ m - 1 <= N /\ m \in 1 .. N /\ m \in Nat \ {0} /\ m - 1 \notin T
        BY <3>1, <3>2
      <3>4. FirstTold(told[m - 1], reg, won, m - 1)
        BY <3>3
      <3>5. FirstTold(told[m], reg, won, m)
        BY <1>1, <3>3, <3>4, FirstToldStep
      <3> QED
        BY <3>1, <3>5
    <2> QED
      BY <2>1
  <1>4. FirstTold(told[N], reg, won, N)
    BY <1>3
  <1> QED
    BY <1>4 DEF Told, told

(* Of the records at S that of i is the best.                              *)
Best(reg, raw, S, i) == i \in S /\ \A j \in S \ {i} : Beats(reg, raw, i, j)

Where(x) == <<x.venue, x.room, x.address>>

Default(reg, group) == IF group \in DOMAIN reg.home THEN reg.home[group] ELSE <<>>

(* Where an event of the records M is, by the best record that tells.      *)
PlacedBy(e, reg, raw, M) ==
    LET telling == {i \in M : Tells(reg, raw[i])}
        curated == {i \in M : TellsCurated(reg, raw[i])}
    IN  \/ \E i \in M : Best(reg, raw, curated, i) /\ Where(e) = Where(SaidBy(reg, raw[i]))
        \/ /\ curated = {}
           /\ \E i \in M : Best(reg, raw, telling, i) /\ Where(e) = Where(SaidBy(reg, raw[i]))
        \/ /\ telling = {}
           /\ Where(e) = <<Default(reg, e.group), Unplaced.room, Unplaced.address>>

LEMMA MergePlaces ==
    ASSUME NEW reg, NEW raw, Given(reg, raw), NEW M \in SUBSET DOMAIN raw, M # {}
    PROVE  PlacedBy(Merge(reg, raw, M), reg, raw, M)
  <1> DEFINE won == InOrder(reg, raw, M)
             group == GroupFor(reg, won[1])
             told == Told(reg, won)
             at == Housed(reg, group, told)
             e == Merge(reg, raw, M)
             telling == {i \in M : Tells(reg, raw[i])}
             curated == {i \in M : TellsCurated(reg, raw[i])}
             n == Cardinality(M)
  <1>1. PICK order : /\ Lists(order, M)
                     /\ won = [k \in DOMAIN order |-> raw[order[k]]]
                     /\ \A k, l \in DOMAIN order :
                           k < l => Beats(reg, raw, order[k], order[l])
    BY InOrderLists
  <1>2. e = EventAt(at, reg, won, won[1])
    BY DEF Merge, Concluded, Winner
  <1>3. e.venue = at.venue /\ e.room = at.room /\ e.address = at.address /\ e.group = group
    BY <1>2 DEF EventAt
  <1> HIDE DEF won, e
  <1>4. n \in Nat /\ DOMAIN order = 1 .. n /\ \A k \in 1 .. n : order[k] \in M /\ won[k] = raw[order[k]]
    BY <1>1 DEF Lists
  <1>5. Len(won) = n
    BY <1>1, <1>4
  <1>6. \A i \in M : \E k \in 1 .. n : order[k] = i
    BY <1>1, <1>4 DEF Lists
  <1> HIDE DEF n, group
  <1>7. FirstTold(told, reg, won, n)
    BY <1>4, <1>5, ToldIsFirst
  <1> HIDE DEF told
  <1>8. told.venue # <<>> => at = told
    BY DEF Housed
  <1>9. ASSUME NEW k \in 1 .. n, told = SaidBy(reg, won[k]), TellsCurated(reg, won[k]),
               \A l \in 1 .. k - 1 : ~ TellsCurated(reg, won[l])
        PROVE  PlacedBy(e, reg, raw, M)
    <2>1. order[k] \in curated
      BY <1>4, <1>9
    <2>2. \A j \in curated \ {order[k]} : Beats(reg, raw, order[k], j)
      <3>1. ASSUME NEW j \in curated \ {order[k]}
            PROVE  Beats(reg, raw, order[k], j)
        <4>1. PICK l \in 1 .. n : order[l] = j
          BY <1>6, <3>1
        <4>2. TellsCurated(reg, won[l]) /\ l # k
          BY <1>4, <3>1, <4>1
        <4>3. l \notin 1 .. k - 1
          BY <1>9, <4>2
        <4>4. k < l
          BY <1>4, <4>2, <4>3
        <4> QED
          BY <1>1, <1>4, <4>1, <4>4
      <3> QED
        BY <3>1
    <2>3. Best(reg, raw, curated, order[k])
      BY <2>1, <2>2 DEF Best
    <2>4. Where(e) = Where(SaidBy(reg, raw[order[k]]))
      BY <1>3, <1>4, <1>8, <1>9 DEF Where, TellsCurated, Tells
    <2> QED
      BY <1>4, <2>3, <2>4 DEF PlacedBy
  <1>10. ASSUME \A l \in 1 .. n : ~ TellsCurated(reg, won[l]),
                NEW k \in 1 .. n, told = SaidBy(reg, won[k]), Tells(reg, won[k]),
                \A l \in 1 .. k - 1 : ~ Tells(reg, won[l])
         PROVE  PlacedBy(e, reg, raw, M)
    <2>1. order[k] \in telling
      BY <1>4, <1>10
    <2>2. \A j \in telling \ {order[k]} : Beats(reg, raw, order[k], j)
      <3>1. ASSUME NEW j \in telling \ {order[k]}
            PROVE  Beats(reg, raw, order[k], j)
        <4>1. PICK l \in 1 .. n : order[l] = j
          BY <1>6, <3>1
        <4>2. Tells(reg, won[l]) /\ l # k
          BY <1>4, <3>1, <4>1
        <4>3. l \notin 1 .. k - 1
          BY <1>10, <4>2
        <4>4. k < l
          BY <1>4, <4>2, <4>3
        <4> QED
          BY <1>1, <1>4, <4>1, <4>4
      <3> QED
        BY <3>1
    <2>3. Best(reg, raw, telling, order[k])
      BY <2>1, <2>2 DEF Best
    <2>4. Where(e) = Where(SaidBy(reg, raw[order[k]]))
      BY <1>3, <1>4, <1>8, <1>10 DEF Where, Tells
    <2>5. curated = {}
      <3>1. \A i \in M : ~ TellsCurated(reg, raw[i])
        BY <1>4, <1>6, <1>10
      <3> QED
        BY <3>1
    <2> QED
      BY <1>4, <2>3, <2>4, <2>5 DEF PlacedBy
  <1>11. ASSUME told = Unplaced, \A l \in 1 .. n : ~ Tells(reg, won[l])
         PROVE  PlacedBy(e, reg, raw, M)
    <2>1. \A i \in M : ~ Tells(reg, raw[i])
      BY <1>4, <1>6, <1>11
    <2>2. Unplaced.venue = <<>>
      BY DEF Unplaced
    <2>3. at.venue = Default(reg, group) /\ at.room = Unplaced.room /\ at.address = Unplaced.address
      BY <1>11, <2>2 DEF Housed, Default, Unplaced
    <2>4. Where(e) = <<Default(reg, e.group), Unplaced.room, Unplaced.address>>
      BY <1>3, <2>3 DEF Where
    <2> QED
      BY <2>1, <2>4 DEF PlacedBy
  <1>12. PlacedBy(e, reg, raw, M)
    BY <1>7, <1>9, <1>10, <1>11 DEF FirstTold
  <1> QED
    BY <1>12 DEF e

(* Wherever the records of an event disagree, it has the venue, the room   *)
(* and the address of one of them together: of the best that names a       *)
(* curated venue, else of the best that names any; and its group's default *)
(* venue only if none does (merge).                                        *)
THEOREM EventsPlaced ==
    ASSUME NEW reg, NEW rejects, NEW raw, Given(reg, raw),
           NEW e \in EventsOf(reg, rejects, raw)
    PROVE  \E M \in Unrejected(reg, rejects, raw) :
              MadeOf(e, reg, raw, M) /\ PlacedBy(e, reg, raw, M)
  <1>1. PICK M \in Unrejected(reg, rejects, raw) : e = Merge(reg, raw, M)
    BY EventsAreMerged
  <1>2. M \in SUBSET DOMAIN raw /\ M # {}
    <2>1. Partition(Clusters(reg, raw), reg, raw)
      BY CollapsedDivide
    <2> QED
      BY <2>1 DEF Partition, Unrejected
  <1> QED
    BY <1>1, <1>2, MergeMakes, MergePlaces
=============================================================================
