----------------------------- MODULE FetchProofs -----------------------------
(***************************************************************************)
(* Theorems about Fetch: its type, and for any sources, calendars, page    *)
(* size, ceilings and number of edits upstream, that a source reporting    *)
(* success is complete or says it is not, and that a source fails for a    *)
(* reason of its own.                                                      *)
(*                                                                         *)
(* What a goroutine has read is related to what upstream lists now by the  *)
(* place of each event among those shown: an addition only moves events    *)
(* down, so an event above the page to be asked for next was there before, *)
(* and was read, or is new.                                                *)
(***************************************************************************)
EXTENDS Fetch, FiniteSetTheorems, TLAPS

(* The records at some places of a list that a decoder can read and wants. *)
Read(list, at) == {list[i] : i \in Readable(list, at)}

(* Where a goroutine's walk can be, by its stage and its kind.             *)
Shape(s) ==
    /\ stage[s] \in {"queued", "asking", "pausing"} => result[s] = NoResult
    /\ ~Running(s) => walk[s] = Unstarted
    /\ IsFiniteSet(walk[s].events)
    /\ stage[s] = "pausing" => Kind[s] = "bevy" /\ ~Chapter(walk[s])
    /\ Kind[s] = "document" => walk[s] = Unstarted
    /\ Kind[s] = "tribe" => walk[s].next \in Nat \ {0}
    /\ Kind[s] = "bevy" =>
         walk[s] = Unstarted \/ walk[s].next \in 2 .. Len(walk[s].links) + 1

(* Nothing a source listed is gone from upstream, nor what it has found.   *)
Kept(s) ==
    withdrawn[s] = {} =>
        /\ ToSet(before[s]) \subseteq ToSet(calendar[s])
        /\ Brought(walk[s].events) \subseteq Wanted(calendar[s])

(* A tribe walk has what is shown above the page it asks for next.         *)
PagesRead(s) ==
    Kind[s] = "tribe" /\ withdrawn[s] = {} =>
        \A i \in Shown(calendar[s]) :
            /\ calendar[s][i] \in ToSet(before[s]) \ Unreadable
            /\ Rank(calendar[s], i) <= (walk[s].next - 1) * PageSize
            => calendar[s][i] \in Brought(walk[s].events)

(* A Bevy walk without a skip knows every event page there was, and has    *)
(* what is on those before the next.                                       *)
LinksRead(s) ==
    Kind[s] = "bevy" /\ ~Chapter(walk[s]) /\ withdrawn[s] = {} /\ walk[s].skips = 0 =>
        /\ ToSet(before[s]) \subseteq ToSet(walk[s].links)
        /\ Read(walk[s].links, 1 .. walk[s].next - 2) \subseteq Brought(walk[s].events)

(* A second skip of a Bevy walk is a request that failed, or a record that *)
(* cannot be read; the first may be the chapter's events that were cut.    *)
SkipsEarned(s) ==
    Kind[s] = "bevy" /\ walk[s].skips > 1 => s \in hurt \/ Listed(s) \cap Unreadable # {}

(* The two properties of a result, for one source.                         *)
Complete(s) ==
    stage[s] = "answered" /\ ~result[s].err /\ result[s].skips = 0 /\ withdrawn[s] = {} =>
        /\ Wanted(before[s]) \subseteq Brought(result[s].events)
        /\ Brought(result[s].events) \subseteq Wanted(calendar[s])

Excused(s) ==
    result[s].err =>
        \/ s \in hurt
        \/ cancelled /\ Kind[s] = "bevy"
        \/ Listed(s) \cap Unreadable # {}

SourceInv(s) ==
    /\ Shape(s)
    /\ Kept(s)
    /\ PagesRead(s)
    /\ LinksRead(s)
    /\ SkipsEarned(s)
    /\ Complete(s)
    /\ Excused(s)

FetchInv == TypeOK /\ \A s \in Sources : SourceInv(s)

----------------------------------------------------------------------------
(* Lists                                                                   *)

LEMMA Joined ==
    ASSUME NEW a \in Seq(Records), NEW b \in Seq(Records)
    PROVE  /\ a \o b \in Seq(Records) /\ Len(a \o b) = Len(a) + Len(b)
           /\ \A i \in 1 .. Len(a) + Len(b) :
                (a \o b)[i] = IF i <= Len(a) THEN a[i] ELSE b[i - Len(a)]
    OBVIOUS

(* Inserting one element moves those from its place on down by one.        *)
LEMMA Insertion ==
    ASSUME NEW list \in Seq(Records), NEW r \in Records, NEW p \in 1 .. Len(list) + 1
    PROVE  /\ InsertAt(list, p, r) \in Seq(Records)
           /\ Len(InsertAt(list, p, r)) = Len(list) + 1
           /\ \A i \in 1 .. Len(list) + 1 :
                InsertAt(list, p, r)[i] =
                    IF i < p THEN list[i] ELSE IF i = p THEN r ELSE list[i - 1]
<1> DEFINE front == SubSeq(list, 1, p - 1)
           back == SubSeq(list, p, Len(list))
<1>1. /\ front \in Seq(Records) /\ Len(front) = p - 1
      /\ \A i \in 1 .. p - 1 : front[i] = list[i]
    OBVIOUS
<1>2. /\ back \in Seq(Records) /\ Len(back) = Len(list) + 1 - p
      /\ \A i \in 1 .. Len(list) + 1 - p : back[i] = list[p + i - 1]
    OBVIOUS
<1> HIDE DEF front, back
<1>3. /\ front \o <<r>> \in Seq(Records) /\ Len(front \o <<r>>) = p
      /\ \A i \in 1 .. p : (front \o <<r>>)[i] = IF i < p THEN list[i] ELSE r
    BY <1>1
<1> DEFINE head == front \o <<r>>
<1> HIDE DEF head
<1>4. /\ head \o back \in Seq(Records) /\ Len(head \o back) = Len(list) + 1
      /\ \A i \in 1 .. Len(list) + 1 :
           (head \o back)[i] = IF i <= p THEN head[i] ELSE back[i - p]
  <2>1. Len(head) + Len(back) = Len(list) + 1 /\ Len(head) = p /\ head \in Seq(Records)
    <3>1. Len(head) = p /\ head \in Seq(Records)
        BY <1>3 DEF head
    <3>2. Len(back) = Len(list) + 1 - p /\ Len(list) \in Nat /\ p \in Int
        BY <1>2
    <3> QED
        BY <3>1, <3>2
  <2>2. /\ head \o back \in Seq(Records) /\ Len(head \o back) = Len(head) + Len(back)
        /\ \A i \in 1 .. Len(head) + Len(back) :
             (head \o back)[i] = IF i <= Len(head) THEN head[i] ELSE back[i - Len(head)]
    BY <1>2, <2>1, Joined
  <2> QED
    BY <2>1, <2>2
<1>5. \A i \in p + 1 .. Len(list) + 1 : back[i - p] = list[i - 1]
    BY <1>2
<1>6. \A i \in 1 .. Len(list) + 1 :
           (head \o back)[i] = IF i < p THEN list[i] ELSE IF i = p THEN r ELSE list[i - 1]
    BY <1>1, <1>3, <1>4, <1>5 DEF head
<1>7. InsertAt(list, p, r) = head \o back
    BY DEF InsertAt, head, front, back
<1> QED
    BY <1>4, <1>6, <1>7

(* Removing one leaves the others.                                         *)
LEMMA Removal ==
    ASSUME NEW list \in Seq(Records), NEW p \in DOMAIN list
    PROVE  /\ RemoveAt(list, p) \in Seq(Records)
           /\ ToSet(list) \subseteq ToSet(RemoveAt(list, p)) \cup {list[p]}
           /\ ToSet(RemoveAt(list, p)) \subseteq ToSet(list)
<1> DEFINE rest == RemoveAt(list, p)
           front == SubSeq(list, 1, p - 1)
           back == SubSeq(list, p + 1, Len(list))
<1>1. /\ rest \in Seq(Records) /\ Len(rest) = Len(list) - 1
      /\ \A i \in 1 .. Len(list) - 1 : rest[i] = IF i < p THEN list[i] ELSE list[i + 1]
  <2>1. /\ front \in Seq(Records) /\ Len(front) = p - 1
        /\ \A i \in 1 .. p - 1 : front[i] = list[i]
    OBVIOUS
  <2>2. /\ back \in Seq(Records) /\ Len(back) = Len(list) - p
        /\ \A i \in 1 .. Len(list) - p : back[i] = list[p + i]
    OBVIOUS
  <2> HIDE DEF front, back
  <2>3. /\ front \o back \in Seq(Records) /\ Len(front \o back) = Len(list) - 1
        /\ \A i \in 1 .. Len(list) - 1 :
             (front \o back)[i] = IF i <= p - 1 THEN front[i] ELSE back[i - (p - 1)]
    <3>1. Len(front) + Len(back) = Len(list) - 1 /\ Len(list) \in Nat /\ p \in 1 .. Len(list)
        BY <2>1, <2>2
    <3>2. /\ front \o back \in Seq(Records) /\ Len(front \o back) = Len(front) + Len(back)
          /\ \A i \in 1 .. Len(front) + Len(back) :
               (front \o back)[i] = IF i <= Len(front) THEN front[i] ELSE back[i - Len(front)]
        BY <2>1, <2>2, Joined
    <3> QED
        BY <2>1, <3>1, <3>2
  <2>4. \A i \in p .. Len(list) - 1 : back[i - (p - 1)] = list[i + 1]
    BY <2>2
  <2>5. \A i \in 1 .. Len(list) - 1 :
             (front \o back)[i] = IF i < p THEN list[i] ELSE list[i + 1]
    <3> SUFFICES ASSUME NEW i \in 1 .. Len(list) - 1
                 PROVE (front \o back)[i] = IF i < p THEN list[i] ELSE list[i + 1]
        OBVIOUS
    <3>1. CASE i < p
        <4>1. i \in 1 .. p - 1
            BY <3>1
        <4> QED
            BY <2>1, <2>3, <3>1, <4>1
    <3>2. CASE i >= p
        <4>1. i \in p .. Len(list) - 1 /\ ~(i <= p - 1) /\ ~(i < p)
            BY <3>2
        <4>2. (front \o back)[i] = back[i - (p - 1)]
            BY <2>3, <4>1
        <4>3. back[i - (p - 1)] = list[i + 1]
            BY <2>4, <4>1
        <4> QED
            BY <4>1, <4>2, <4>3, Zenon
    <3>3. i < p \/ i >= p
        <4>1. p \in Int /\ i \in Int
            OBVIOUS
        <4> QED
            BY <4>1
    <3> QED
        BY <3>1, <3>2, <3>3, Zenon
  <2>6. rest = front \o back
    BY DEF RemoveAt, front, back
  <2> QED
    BY <2>3, <2>5, <2>6
<1> HIDE DEF rest
<1>2. \A i \in DOMAIN rest : rest[i] \in ToSet(list)
  <2> SUFFICES ASSUME NEW i \in DOMAIN rest PROVE rest[i] \in ToSet(list)
    OBVIOUS
  <2>1. i \in 1 .. Len(list) - 1
    BY <1>1
  <2>2. rest[i] = list[i] \/ rest[i] = list[i + 1]
    BY <1>1, <2>1
  <2>3. {i, i + 1} \subseteq DOMAIN list
    BY <2>1
  <2> QED
    BY <2>2, <2>3 DEF ToSet
<1>3. \A i \in DOMAIN list : i = p \/ list[i] \in ToSet(rest)
  <2> SUFFICES ASSUME NEW i \in DOMAIN list, i # p PROVE list[i] \in ToSet(rest)
    OBVIOUS
  <2>1. i \in 1 .. Len(list) /\ p \in 1 .. Len(list)
    OBVIOUS
  <2>2. CASE i < p
    <3>1. i \in DOMAIN rest /\ rest[i] = list[i]
        BY <1>1, <2>1, <2>2
    <3> QED
        BY <3>1 DEF ToSet
  <2>3. CASE i > p
    <3>1. i - 1 \in DOMAIN rest /\ rest[i - 1] = list[i]
        BY <1>1, <2>1, <2>3
    <3> QED
        BY <3>1 DEF ToSet
  <2> QED
    BY <2>1, <2>2, <2>3
<1> QED
    BY <1>1, <1>2, <1>3 DEF ToSet, rest

(* An insertion keeps what was listed.                                     *)
LEMMA InsertedSet ==
    ASSUME NEW list \in Seq(Records), NEW r \in Records, NEW p \in 1 .. Len(list) + 1
    PROVE  /\ ToSet(list) \subseteq ToSet(InsertAt(list, p, r))
           /\ ToSet(InsertAt(list, p, r)) \subseteq ToSet(list) \cup {r}
<1> DEFINE more == InsertAt(list, p, r)
<1>1. /\ more \in Seq(Records) /\ Len(more) = Len(list) + 1
      /\ \A i \in 1 .. Len(list) + 1 :
           more[i] = IF i < p THEN list[i] ELSE IF i = p THEN r ELSE list[i - 1]
    BY Insertion
<1> HIDE DEF more
<1>2. ASSUME NEW i \in DOMAIN list PROVE list[i] \in ToSet(more)
  <2>1. CASE i < p
    <3>1. i \in DOMAIN more /\ more[i] = list[i]
        BY <1>1, <2>1
    <3> QED
        BY <3>1 DEF ToSet
  <2>2. CASE i >= p
    <3>1. i + 1 \in DOMAIN more /\ more[i + 1] = list[i]
        BY <1>1, <2>2
    <3> QED
        BY <3>1 DEF ToSet
  <2> QED
    BY <2>1, <2>2
<1>3. ASSUME NEW i \in DOMAIN more PROVE more[i] \in ToSet(list) \cup {r}
  <2>1. i \in 1 .. Len(list) + 1
    BY <1>1
  <2>2. i = p \/ (i < p /\ i \in DOMAIN list) \/ (i > p /\ i - 1 \in DOMAIN list)
    BY <2>1
  <2> QED
    BY <1>1, <2>1, <2>2 DEF ToSet
<1>4. QED
    BY <1>2, <1>3 DEF ToSet, more

(* What is shown is finite, and a rank counts some of it.                  *)
LEMMA Ranks ==
    ASSUME NEW list \in Seq(Records), NEW i \in Shown(list)
    PROVE  /\ IsFiniteSet(Shown(list)) /\ Cardinality(Shown(list)) \in Nat
           /\ Rank(list, i) \in 1 .. Cardinality(Shown(list))
<1> DEFINE upTo == {j \in Shown(list) : j <= i}
<1>1. IsFiniteSet(DOMAIN list)
    BY FS_Interval
<1>2. IsFiniteSet(Shown(list))
    BY <1>1, FS_Subset DEF Shown
<1>3. IsFiniteSet(upTo) /\ Cardinality(upTo) <= Cardinality(Shown(list))
    BY <1>2, FS_Subset
<1>4. i \in upTo
    BY DEF Shown
<1>5. Cardinality(upTo) # 0
    BY <1>3, <1>4, FS_EmptySet
<1>6. Cardinality(upTo) \in Nat /\ Cardinality(Shown(list)) \in Nat
    BY <1>2, <1>3, FS_CardinalityType
<1> QED
    BY <1>2, <1>3, <1>5, <1>6 DEF Rank

(* An addition takes nothing shown up the list.                            *)
LEMMA RankGrows ==
    ASSUME NEW list \in Seq(Records), NEW r \in Records, NEW p \in 1 .. Len(list) + 1,
           NEW i \in Shown(list), NEW k \in Shown(InsertAt(list, p, r)),
           k = IF i < p THEN i ELSE i + 1
    PROVE  Rank(list, i) <= Rank(InsertAt(list, p, r), k)
<1> DEFINE more == InsertAt(list, p, r)
           S == {j \in Shown(list) : j <= i}
           T == {j \in Shown(more) : j <= k}
           f == [j \in S |-> IF j < p THEN j ELSE j + 1]
<1>1. /\ more \in Seq(Records) /\ Len(more) = Len(list) + 1
      /\ \A j \in 1 .. Len(list) + 1 :
           more[j] = IF j < p THEN list[j] ELSE IF j = p THEN r ELSE list[j - 1]
    BY Insertion
<1>2. ASSUME NEW j \in S PROVE f[j] \in T
  <2>1. j \in 1 .. Len(list) /\ list[j] \notin Unwanted /\ i \in 1 .. Len(list) /\ j <= i
    BY DEF Shown
  <2>2. f[j] \in 1 .. Len(list) + 1 /\ more[f[j]] = list[j] /\ f[j] <= k
    BY <1>1, <2>1
  <2> QED
    BY <1>1, <2>1, <2>2 DEF Shown
<1>3. f \in Injection(S, T)
  <2>1. f \in [S -> T]
    BY <1>2
  <2>2. ASSUME NEW a \in S, NEW b \in S, f[a] = f[b] PROVE a = b
    BY <2>2 DEF Shown
  <2> QED
    BY <2>1, <2>2 DEF Injection, IsInjective
<1>4. IsFiniteSet(T)
  <2>1. IsFiniteSet(Shown(more))
    BY <1>1, Ranks
  <2> QED
    BY <2>1, FS_Subset
<1>5. Cardinality(S) <= Cardinality(T)
    BY <1>3, <1>4, FS_Injection
<1> QED
    BY <1>5 DEF Rank

----------------------------------------------------------------------------
(* What is read                                                            *)

LEMMA BroughtJoins ==
    ASSUME NEW a, NEW b
    PROVE  Brought(a \cup b) = Brought(a) \cup Brought(b)
    BY DEF Brought

LEMMA BroughtNone == Brought({}) = {}
    BY DEF Brought

(* The decoders return events of the records at these places, and a skip   *)
(* only for one they cannot read.                                          *)
LEMMA Decoding ==
    ASSUME NEW list \in Seq(Records), NEW at \in SUBSET (DOMAIN list), NEW n \in Nat
    PROVE  /\ Decoded(n, list, at) \in SUBSET Event /\ IsFiniteSet(Decoded(n, list, at))
           /\ Brought(Decoded(n, list, at)) = Read(list, at)
           /\ Read(list, at) \subseteq Wanted(list)
           /\ Garbled(list, at) \in Nat
           /\ Garbled(list, at) > 0 => ToSet(list) \cap Unreadable # {}
<1> DEFINE good == Readable(list, at)
           out == Decoded(n, list, at)
<1>1. IsFiniteSet(at)
  <2>1. IsFiniteSet(DOMAIN list)
    BY FS_Interval
  <2> QED
    BY <2>1, FS_Subset
<1>2. good \subseteq at /\ IsFiniteSet(good)
    BY <1>1, FS_Subset DEF Readable
<1>3. out = {<<n, i, list[i]>> : i \in good}
    BY DEF Decoded
<1>4. \A i \in at : i \in Nat /\ list[i] \in Records
    OBVIOUS
<1>5. Read(list, at) \subseteq Wanted(list)
    BY DEF Wanted, Read, Readable
<1> HIDE DEF good, out
<1>6. IsFiniteSet(out)
  <2> DEFINE f == [i \in good |-> <<n, i, list[i]>>]
  <2>1. f \in Surjection(good, out)
    BY <1>3 DEF Surjection
  <2> QED
    BY <1>2, <2>1, FS_Surjection
<1>7. out \in SUBSET Event
  <2>1. \A i \in good : <<n, i, list[i]>> \in Event
    BY <1>2, <1>4 DEF Event
  <2> QED
    BY <1>3, <2>1
<1>8. Brought(out) = Read(list, at)
  <2> DEFINE ev(i) == <<n, i, list[i]>>
  <2>1. \A i : ev(i)[3] = list[i]
    OBVIOUS
  <2>2. out = {ev(i) : i \in good}
    BY <1>3
  <2> HIDE DEF ev
  <2>3. Brought(out) = {list[i] : i \in good}
    BY <2>1, <2>2 DEF Brought
  <2> QED
    BY <2>3 DEF Read, good
<1> DEFINE bad == {i \in at : list[i] \in Unreadable}
<1>9. IsFiniteSet(bad) /\ Cardinality(bad) \in Nat
    BY <1>1, FS_Subset, FS_CardinalityType
<1>10. bad # {} => ToSet(list) \cap Unreadable # {}
    BY DEF ToSet
<1> HIDE DEF bad
<1>11. bad = {} => Cardinality(bad) = 0
    BY FS_EmptySet
<1>12. Garbled(list, at) = Cardinality(bad)
    BY DEF Garbled, bad
<1>13. Garbled(list, at) > 0 => ToSet(list) \cap Unreadable # {}
    BY <1>9, <1>10, <1>11, <1>12
<1> QED
    BY <1>5, <1>6, <1>7, <1>8, <1>9, <1>12, <1>13 DEF out

(* A source fails by its skips only when there are two of them: one is     *)
(* within the tolerance wherever the ratio is looked at.                   *)
LEMMA TwoSkips ==
    ASSUME NEW n \in Nat, NEW k \in Nat, TooManySkips(n, k)
    PROVE  k > 1
<1>1. SkipTolerance \in Nat /\ MinPageForRatio \in Nat /\ SkipTolerance <= MinPageForRatio
    BY FetchAssumption
<1>2. k # 0
    BY <1>1 DEF TooManySkips
<1>3. k # 1
    BY <1>1 DEF TooManySkips
<1> QED
    BY <1>2, <1>3

(* A source of which nothing changes but that the run is cancelled.        *)
LEMMA Untouched ==
    ASSUME NEW t \in Sources, SourceInv(t),
           calendar'[t] = calendar[t], before'[t] = before[t], withdrawn'[t] = withdrawn[t],
           stage'[t] = stage[t], walk'[t] = walk[t], result'[t] = result[t],
           t \in hurt => t \in hurt', cancelled => cancelled'
    PROVE  SourceInv(t)'
<1>1. Shape(t)'
    BY DEF SourceInv, Shape, Running, Chapter
<1>2. Kept(t)'
    BY DEF SourceInv, Kept
<1>3. PagesRead(t)'
    BY DEF SourceInv, PagesRead
<1>4. LinksRead(t)'
    BY DEF SourceInv, LinksRead, Chapter
<1>5. SkipsEarned(t)'
    BY DEF SourceInv, SkipsEarned, Listed
<1>6. Complete(t)'
    BY DEF SourceInv, Complete
<1>7. Excused(t)'
    BY DEF SourceInv, Excused, Listed
<1> QED
    BY <1>1, <1>2, <1>3, <1>4, <1>5, <1>6, <1>7 DEF SourceInv

LEMMA InitInv == Init => FetchInv
<1> SUFFICES ASSUME Init PROVE FetchInv
    OBVIOUS
<1>1. calendar \in [Sources -> Seq(Records)]
    BY FetchAssumption DEF Init
<1>2. Unstarted \in Walk /\ NoResult \in Result
    BY DEF Unstarted, NoResult, Walk, Result
<1>3. TypeOK
  <2>1. Cardinality(holding) <= MaxConcurrent
    BY FS_EmptySet, FetchAssumption DEF Init
  <2>2. \A s \in Sources : walk[s].pages <= MaxPages /\ Len(walk[s].links) <= MaxBevyEvents
    BY FetchAssumption DEF Init, Unstarted
  <2>3. edits \in 0 .. MaxEdits
    BY FetchAssumption DEF Init
  <2>4. /\ {calendar, before} \subseteq [Sources -> Seq(Records)]
        /\ withdrawn \in [Sources -> SUBSET Records]
        /\ {holding, hurt} \subseteq SUBSET Sources
        /\ stage \in [Sources -> Stages]
        /\ walk \in [Sources -> Walk]
        /\ result \in [Sources -> Result]
        /\ {cancelled, returned} \subseteq BOOLEAN
    BY <1>1, <1>2 DEF Init, Stages
  <2> QED
    BY <2>1, <2>2, <2>3, <2>4 DEF TypeOK
<1>4. ASSUME NEW s \in Sources PROVE SourceInv(s)
  <2>1. stage[s] = "queued" /\ walk[s] = Unstarted /\ result[s] = NoResult
    BY DEF Init
  <2>2. Shape(s)
    BY <2>1, FS_EmptySet DEF Shape, Running, Unstarted
  <2>3. Kept(s)
    BY <2>1, BroughtNone DEF Init, Kept, Unstarted
  <2>4. PagesRead(s)
    <3> SUFFICES ASSUME NEW i \in Shown(calendar[s])
                 PROVE  ~(Rank(calendar[s], i) <= (1 - 1) * PageSize)
        BY <2>1 DEF PagesRead, Unstarted
    <3>1. Rank(calendar[s], i) \in Nat \ {0}
        BY <1>1, Ranks
    <3> QED
        BY <3>1, FetchAssumption
  <2>5. LinksRead(s) /\ SkipsEarned(s) /\ Complete(s) /\ Excused(s)
    BY <2>1 DEF LinksRead, SkipsEarned, Complete, Excused, Chapter, Unstarted, NoResult
  <2> QED
    BY <2>2, <2>3, <2>4, <2>5 DEF SourceInv
<1> QED
    BY <1>3, <1>4 DEF FetchInv

----------------------------------------------------------------------------
(* What an answer and a step of a walk have in common                      *)

(* Only one source is concerned by a step.                                 *)
Only(s) ==
    \A t \in Sources \ {s} :
        /\ calendar'[t] = calendar[t] /\ before'[t] = before[t] /\ withdrawn'[t] = withdrawn[t]
        /\ stage'[t] = stage[t] /\ walk'[t] = walk[t] /\ result'[t] = result[t]

LEMMA OneSource ==
    ASSUME FetchInv, NEW s \in Sources, Only(s), hurt \subseteq hurt', cancelled => cancelled',
           TypeOK', SourceInv(s)'
    PROVE  FetchInv'
<1> SUFFICES ASSUME NEW t \in Sources, t # s PROVE SourceInv(t)'
    BY DEF FetchInv
<1> QED
    BY Untouched DEF Only, FetchInv

(* What a result has to say for itself.                                    *)
Honest(s, r) ==
    /\ ~r.err /\ r.skips = 0 /\ withdrawn[s] = {} =>
         /\ Wanted(before[s]) \subseteq Brought(r.events)
         /\ Brought(r.events) \subseteq Wanted(calendar[s])
    /\ r.err =>
         \/ s \in hurt'
         \/ cancelled /\ Kind[s] = "bevy"
         \/ Listed(s) \cap Unreadable # {}

LEMMA AnswerKeeps ==
    ASSUME FetchInv, NEW s \in Sources, NEW r \in Result, Answer(s, r), Honest(s, r),
           UNCHANGED <<upstream, holding, cancelled, returned>>,
           hurt' \in SUBSET Sources, hurt \subseteq hurt'
    PROVE  FetchInv'
<1> USE DEF upstream
<1>1. /\ result'[s] = r /\ walk'[s] = Unstarted /\ stage'[s] = "answered"
      /\ result' \in [Sources -> Result]
      /\ walk' \in [Sources -> Walk]
      /\ stage' \in [Sources -> Stages]
  <2>1. Unstarted \in Walk /\ "answered" \in Stages
    BY DEF Unstarted, Walk, Stages
  <2> QED
    BY <2>1 DEF FetchInv, TypeOK, Answer
<1>2. Only(s)
    BY DEF Only, Answer, FetchInv, TypeOK
<1>3. \A t \in Sources : walk'[t] = walk[t] \/ walk'[t] = Unstarted
    BY <1>1, <1>2 DEF Only
<1>4. \A t \in Sources : walk'[t].pages <= MaxPages /\ Len(walk'[t].links) <= MaxBevyEvents
  <2>1. Unstarted.pages <= MaxPages /\ Len(Unstarted.links) <= MaxBevyEvents
    BY FetchAssumption DEF Unstarted
  <2> QED
    BY <1>3, <2>1 DEF FetchInv, TypeOK
<1>5. TypeOK'
    BY <1>1, <1>4 DEF FetchInv, TypeOK
<1>6. Shape(s)'
    BY <1>1, FS_EmptySet DEF Shape, Running, Unstarted
<1>7. Kept(s)'
    BY <1>1, BroughtNone DEF Kept, Unstarted, FetchInv, SourceInv
<1>8. PagesRead(s)'
  <2> SUFFICES ASSUME NEW i \in Shown(calendar[s])
               PROVE  ~(Rank(calendar[s], i) <= (1 - 1) * PageSize)
    BY <1>1 DEF PagesRead, Unstarted
  <2>1. Rank(calendar[s], i) \in Nat \ {0}
    BY Ranks DEF FetchInv, TypeOK
  <2> QED
    BY <2>1, FetchAssumption
<1>9. LinksRead(s)' /\ SkipsEarned(s)'
    BY <1>1 DEF LinksRead, SkipsEarned, Chapter, Unstarted
<1>10. Complete(s)' /\ Excused(s)'
    BY <1>1 DEF Complete, Excused, Honest, Listed
<1>11. SourceInv(s)'
    BY <1>6, <1>7, <1>8, <1>9, <1>10 DEF SourceInv
<1> QED
    BY <1>2, <1>5, <1>11, OneSource

LEMMA FailedHonest ==
    ASSUME NEW s \in Sources,
           \/ s \in hurt'
           \/ cancelled /\ Kind[s] = "bevy"
           \/ Listed(s) \cap Unreadable # {}
    PROVE  Failed \in Result /\ Honest(s, Failed)
    BY DEF Honest, Failed, Result

(* A walk that goes on.                                                    *)
LEMMA WalkKeeps ==
    ASSUME FetchInv, NEW s \in Sources, NEW w \in Walk, NEW st \in {"asking", "pausing"},
           w.pages <= MaxPages, Len(w.links) <= MaxBevyEvents,
           walk' = [walk EXCEPT ![s] = w], stage' = [stage EXCEPT ![s] = st], Running(s),
           UNCHANGED <<upstream, holding, result, cancelled, returned>>,
           hurt' \in SUBSET Sources, hurt \subseteq hurt',
           Shape(s)', Kept(s)', PagesRead(s)', LinksRead(s)', SkipsEarned(s)'
    PROVE  FetchInv'
<1> USE DEF upstream
<1>1. /\ walk'[s] = w /\ stage'[s] = st
      /\ walk' \in [Sources -> Walk]
      /\ stage' \in [Sources -> Stages]
    BY DEF FetchInv, TypeOK, Stages
<1>2. Only(s)
    BY DEF Only, FetchInv, TypeOK
<1>3. \A t \in Sources : walk'[t] = walk[t] \/ walk'[t] = w
    BY <1>1, <1>2 DEF Only
<1>4. \A t \in Sources : walk'[t].pages <= MaxPages /\ Len(walk'[t].links) <= MaxBevyEvents
    BY <1>3 DEF FetchInv, TypeOK
<1>5. TypeOK'
    BY <1>1, <1>4 DEF FetchInv, TypeOK
<1>6. ~result[s].err
    BY DEF FetchInv, SourceInv, Shape, Running, NoResult
<1>7. Complete(s)' /\ Excused(s)'
    BY <1>1, <1>6 DEF Complete, Excused
<1>8. SourceInv(s)'
    BY <1>7 DEF SourceInv
<1> QED
    BY <1>2, <1>5, <1>8, OneSource

----------------------------------------------------------------------------
(* The world outside                                                       *)

(* An addition leaves what was listed, and nothing shown moves up.         *)
LEMMA AddStep ==
    ASSUME FetchInv, NEW s \in Sources, Add(s)
    PROVE  FetchInv'
<1> USE DEF upstream
<1>1. PICK p \in 1 .. Len(calendar[s]) + 1, r \in Additions \ ToSet(calendar[s]) :
         calendar' = [calendar EXCEPT ![s] = InsertAt(@, p, r)]
    BY DEF Add
<1> DEFINE list == calendar[s]
           more == InsertAt(list, p, r)
<1>2. list \in Seq(Records) /\ r \in Records /\ calendar \in [Sources -> Seq(Records)]
    BY FetchAssumption DEF FetchInv, TypeOK
<1>3. /\ more \in Seq(Records) /\ Len(more) = Len(list) + 1
      /\ \A i \in 1 .. Len(list) + 1 :
           more[i] = IF i < p THEN list[i] ELSE IF i = p THEN r ELSE list[i - 1]
  <2>1. list \in Seq(Records) /\ r \in Records /\ p \in 1 .. Len(list) + 1
    BY <1>2
  <2> HIDE DEF list
  <2> QED
    BY <2>1, Insertion
<1>4. ToSet(list) \subseteq ToSet(more) /\ ToSet(more) \subseteq ToSet(list) \cup {r}
    BY <1>2, InsertedSet
<1>5. calendar' \in [Sources -> Seq(Records)] /\ calendar'[s] = more
    BY <1>1, <1>2, <1>3
<1> HIDE DEF more
<1>6. Running(s) /\ walk'[s] = walk[s] /\ stage'[s] = stage[s] /\ result'[s] = result[s]
    BY DEF Add
<1>7. edits' \in 0 .. MaxEdits
    BY FetchAssumption DEF Add, FetchInv, TypeOK
<1>8. TypeOK'
    BY <1>5, <1>7 DEF Add, FetchInv, TypeOK
<1>9. Only(s)
    BY <1>1 DEF Only, Add, FetchInv, TypeOK
<1>10. Shape(s)'
    BY <1>6 DEF Add, FetchInv, SourceInv, Shape, Running, Chapter
<1>11. Wanted(list) \subseteq Wanted(more)
    BY <1>4 DEF Wanted, Read, Readable, ToSet
<1>12. Kept(s)'
    BY <1>4, <1>5, <1>6, <1>11 DEF Add, FetchInv, SourceInv, Kept
<1>13. PagesRead(s)'
  <2> SUFFICES ASSUME Kind[s] = "tribe", withdrawn[s] = {}, NEW k \in Shown(more),
                      more[k] \in ToSet(before[s]) \ Unreadable,
                      Rank(more, k) <= (walk[s].next - 1) * PageSize
               PROVE  more[k] \in Brought(walk[s].events)
    BY <1>5, <1>6 DEF PagesRead, Add
  <2>1. k \in 1 .. Len(list) + 1 /\ more[k] \notin Unwanted
    BY <1>3 DEF Shown
  <2>2. k # p
    BY <1>3, <2>1 DEF FetchInv, SourceInv, Kept
  <2>3. PICK i \in 1 .. Len(list) : k = (IF i < p THEN i ELSE i + 1) /\ more[k] = list[i]
    <3>1. CASE k < p
        BY <1>3, <2>1, <3>1
    <3>2. CASE k > p
      <4>1. k - 1 \in 1 .. Len(list) /\ ~(k - 1 < p) /\ k = (k - 1) + 1
        BY <2>1, <3>2
      <4>2. more[k] = list[k - 1]
        BY <1>3, <2>1, <3>2
      <4> QED
        BY <4>1, <4>2
    <3> QED
        BY <2>1, <2>2, <3>1, <3>2
  <2>4. i \in Shown(list)
    BY <1>2, <2>1, <2>3 DEF Shown
  <2>5. Rank(list, i) <= Rank(more, k)
    BY <1>2, <2>3, <2>4, RankGrows DEF more
  <2>6. Rank(list, i) \in Int /\ Rank(more, k) \in Int
    <3>1. /\ Rank(list, i) \in 1 .. Cardinality(Shown(list))
          /\ Rank(more, k) \in 1 .. Cardinality(Shown(more))
        BY <1>2, <1>3, <2>4, Ranks, Zenon
    <3> QED
        BY <3>1
  <2>7. (walk[s].next - 1) * PageSize \in Int
    BY FetchAssumption DEF FetchInv, TypeOK, Walk
  <2>8. Rank(list, i) <= (walk[s].next - 1) * PageSize
    BY <2>5, <2>6, <2>7
  <2> QED
    BY <2>3, <2>4, <2>8 DEF FetchInv, SourceInv, PagesRead
<1>14. LinksRead(s)'
    BY <1>6 DEF Add, FetchInv, SourceInv, LinksRead, Chapter
<1>15. Listed(s) \subseteq Listed(s)'
    BY <1>4, <1>5 DEF Add, Listed
<1>16. SkipsEarned(s)'
    BY <1>6, <1>15 DEF Add, FetchInv, SourceInv, SkipsEarned
<1>17. Complete(s)' /\ Excused(s)'
    BY <1>6 DEF FetchInv, SourceInv, Complete, Excused, Shape, Running, NoResult
<1>18. SourceInv(s)'
    BY <1>10, <1>12, <1>13, <1>14, <1>16, <1>17 DEF SourceInv
<1> QED
    BY <1>8, <1>9, <1>18, OneSource DEF Add

(* A withdrawal is remembered, and nothing is claimed of its source then.  *)
LEMMA WithdrawStep ==
    ASSUME FetchInv, NEW s \in Sources, Withdraw(s)
    PROVE  FetchInv'
<1>1. PICK p \in DOMAIN calendar[s] :
         /\ calendar' = [calendar EXCEPT ![s] = RemoveAt(@, p)]
         /\ withdrawn' = [withdrawn EXCEPT ![s] = @ \cup {calendar[s][p]}]
    BY DEF Withdraw
<1> DEFINE list == calendar[s]
           less == RemoveAt(list, p)
<1>2. /\ list \in Seq(Records) /\ calendar \in [Sources -> Seq(Records)]
      /\ withdrawn \in [Sources -> SUBSET Records]
    BY DEF FetchInv, TypeOK
<1>3. /\ less \in Seq(Records)
      /\ ToSet(list) \subseteq ToSet(less) \cup {list[p]} /\ ToSet(less) \subseteq ToSet(list)
    BY <1>2, Removal
<1>4. calendar' \in [Sources -> Seq(Records)] /\ calendar'[s] = less
    BY <1>1, <1>2, <1>3
<1> HIDE DEF less
<1>5. /\ withdrawn' \in [Sources -> SUBSET Records]
      /\ withdrawn'[s] = withdrawn[s] \cup {list[p]}
    BY <1>1, <1>2
<1>6. Running(s) /\ walk'[s] = walk[s] /\ stage'[s] = stage[s] /\ result'[s] = result[s]
    BY DEF Withdraw
<1>7. edits' \in 0 .. MaxEdits
    BY FetchAssumption DEF Withdraw, FetchInv, TypeOK
<1>8. TypeOK'
    BY <1>4, <1>5, <1>7 DEF Withdraw, FetchInv, TypeOK
<1>9. Only(s)
    BY <1>1 DEF Only, Withdraw, FetchInv, TypeOK
<1>10. Shape(s)'
    BY <1>6 DEF Withdraw, FetchInv, SourceInv, Shape, Running, Chapter
<1>11. withdrawn'[s] # {}
    BY <1>5
<1>12. Kept(s)' /\ PagesRead(s)' /\ LinksRead(s)' /\ Complete(s)'
    BY <1>11 DEF Kept, PagesRead, LinksRead, Complete
<1>13. Listed(s) \subseteq Listed(s)'
    BY <1>3, <1>4, <1>5 DEF Withdraw, Listed
<1>14. SkipsEarned(s)'
    BY <1>6, <1>13 DEF Withdraw, FetchInv, SourceInv, SkipsEarned
<1>15. Excused(s)'
    BY <1>6 DEF FetchInv, SourceInv, Excused, Shape, Running, NoResult
<1>16. SourceInv(s)'
    BY <1>10, <1>12, <1>14, <1>15 DEF SourceInv
<1> QED
    BY <1>8, <1>9, <1>16, OneSource DEF Withdraw

LEMMA CancelStep ==
    ASSUME FetchInv, Cancel
    PROVE  FetchInv'
<1>1. TypeOK'
    BY DEF Cancel, FetchInv, TypeOK, upstream
<1>2. ASSUME NEW t \in Sources PROVE SourceInv(t)'
    BY Untouched DEF Cancel, FetchInv, upstream
<1> QED
    BY <1>1, <1>2 DEF FetchInv

----------------------------------------------------------------------------
(* The pool                                                                *)

LEMMA Held ==
    ASSUME TypeOK
    PROVE  IsFiniteSet(holding) /\ Cardinality(holding) \in Nat
    BY FetchAssumption, FS_Subset, FS_CardinalityType DEF TypeOK

LEMMA AcquireStep ==
    ASSUME FetchInv, NEW s \in Sources, Acquire(s)
    PROVE  FetchInv'
<1>1. /\ stage'[s] = "asking" /\ stage' \in [Sources -> Stages]
      /\ before'[s] = calendar[s] /\ before' \in [Sources -> Seq(Records)]
    BY DEF Acquire, FetchInv, TypeOK, Stages
<1>2. walk[s] = Unstarted /\ result[s] = NoResult
    BY DEF Acquire, FetchInv, SourceInv, Shape, Running
<1>3. Cardinality(holding \cup {s}) <= MaxConcurrent
  <2>1. IsFiniteSet(holding) /\ Cardinality(holding) \in Nat
    BY Held DEF FetchInv
  <2>2. Cardinality(holding \cup {s}) =
            IF s \in holding THEN Cardinality(holding) ELSE Cardinality(holding) + 1
    BY <2>1, FS_AddElement
  <2>3. MaxConcurrent \in Nat /\ Cardinality(holding) < MaxConcurrent
    BY FetchAssumption DEF Acquire
  <2> QED
    BY <2>1, <2>2, <2>3
<1>4. TypeOK'
    BY <1>1, <1>3 DEF Acquire, FetchInv, TypeOK
<1>5. Only(s)
    BY DEF Only, Acquire, FetchInv, TypeOK
<1>6. Shape(s)'
    BY <1>1, <1>2, FS_EmptySet DEF Acquire, Shape, Running, Unstarted
<1>7. Kept(s)'
    BY <1>1, <1>2, BroughtNone DEF Acquire, Kept, Unstarted
<1>8. PagesRead(s)'
  <2> SUFFICES ASSUME NEW i \in Shown(calendar[s])
               PROVE  ~(Rank(calendar[s], i) <= (1 - 1) * PageSize)
    BY <1>2 DEF Acquire, PagesRead, Unstarted
  <2>1. Rank(calendar[s], i) \in Nat \ {0}
    BY Ranks DEF FetchInv, TypeOK
  <2> QED
    BY <2>1, FetchAssumption
<1>9. LinksRead(s)' /\ SkipsEarned(s)' /\ Complete(s)' /\ Excused(s)'
    BY <1>1, <1>2
       DEF Acquire, LinksRead, SkipsEarned, Complete, Excused, Chapter, Unstarted, NoResult
<1>10. SourceInv(s)'
    BY <1>6, <1>7, <1>8, <1>9 DEF SourceInv
<1> QED
    BY <1>4, <1>5, <1>10, OneSource DEF Acquire

LEMMA ReleaseStep ==
    ASSUME FetchInv, NEW s \in Sources, Release(s)
    PROVE  FetchInv'
<1>1. stage'[s] = "done" /\ stage' \in [Sources -> Stages]
    BY DEF Release, FetchInv, TypeOK, Stages
<1>2. walk[s] = Unstarted
    BY DEF Release, FetchInv, SourceInv, Shape, Running
<1>3. Cardinality(holding \ {s}) <= MaxConcurrent
  <2>1. IsFiniteSet(holding) /\ Cardinality(holding) \in Nat
    BY Held DEF FetchInv
  <2>2. Cardinality(holding \ {s}) =
            IF s \in holding THEN Cardinality(holding) - 1 ELSE Cardinality(holding)
    BY <2>1, FS_RemoveElement
  <2>3. MaxConcurrent \in Nat /\ Cardinality(holding) <= MaxConcurrent
    BY FetchAssumption DEF FetchInv, TypeOK
  <2> QED
    BY <2>1, <2>2, <2>3
<1>4. TypeOK'
    BY <1>1, <1>3 DEF Release, FetchInv, TypeOK, upstream
<1>5. Only(s)
    BY DEF Only, Release, FetchInv, TypeOK, upstream
<1>6. Shape(s)'
    BY <1>1, <1>2, FS_EmptySet DEF Release, Shape, Running, Unstarted
<1>7. Kept(s)' /\ PagesRead(s)' /\ LinksRead(s)' /\ SkipsEarned(s)' /\ Excused(s)'
    BY DEF Release, FetchInv, SourceInv, Kept, PagesRead, LinksRead, SkipsEarned, Excused,
           Chapter, Listed, upstream
<1>8. Complete(s)'
    BY <1>1 DEF Complete
<1>9. SourceInv(s)'
    BY <1>6, <1>7, <1>8 DEF SourceInv
<1> QED
    BY <1>4, <1>5, <1>9, OneSource DEF Release, upstream

LEMMA ReturnStep ==
    ASSUME FetchInv, Return
    PROVE  FetchInv'
<1>1. TypeOK'
    BY DEF Return, FetchInv, TypeOK, upstream
<1>2. ASSUME NEW t \in Sources PROVE SourceInv(t)'
    BY Untouched DEF Return, FetchInv, upstream
<1> QED
    BY <1>1, <1>2 DEF FetchInv

----------------------------------------------------------------------------
(* ics and html                                                            *)

(* What the ratio lets through is honest, and what it fails had two skips. *)
LEMMA FinishKeeps ==
    ASSUME FetchInv, NEW s \in Sources, NEW w \in Walk, IsFiniteSet(w.events), Finish(s, w),
           UNCHANGED <<upstream, holding, cancelled, returned>>,
           hurt' \in SUBSET Sources, hurt \subseteq hurt',
           w.skips = 0 /\ withdrawn[s] = {} =>
             /\ Wanted(before[s]) \subseteq Brought(w.events)
             /\ Brought(w.events) \subseteq Wanted(calendar[s]),
           w.skips > 1 => s \in hurt' \/ Listed(s) \cap Unreadable # {}
    PROVE  FetchInv'
<1>1. Cardinality(w.events) \in Nat
    BY FS_CardinalityType
<1>2. CASE TooManySkips(Cardinality(w.events), w.skips)
  <2>1. w.skips > 1
    BY <1>1, <1>2, TwoSkips DEF Walk
  <2>2. Failed \in Result /\ Honest(s, Failed)
    BY <2>1, FailedHonest
  <2>3. Answer(s, Failed)
    BY <1>2 DEF Finish
  <2> QED
    BY <2>2, <2>3, AnswerKeeps
<1>3. CASE ~TooManySkips(Cardinality(w.events), w.skips)
  <2>1. Succeeded(w) \in Result /\ Honest(s, Succeeded(w))
    BY DEF Succeeded, Result, Walk, Honest
  <2>2. Answer(s, Succeeded(w))
    BY <1>3 DEF Finish
  <2> QED
    BY <2>1, <2>2, AnswerKeeps
<1> QED
    BY <1>2, <1>3

LEMMA DocumentStep ==
    ASSUME FetchInv, NEW s \in Sources, Document(s)
    PROVE  FetchInv'
<1> DEFINE list == calendar[s]
           found == Decoded(0, list, DOMAIN list)
           w == [walk[s] EXCEPT !.events = found,
                                !.skips = Garbled(list, DOMAIN list)]
<1>1. list \in Seq(Records) /\ walk[s] \in Walk
    BY DEF FetchInv, TypeOK
<1>2. /\ found \in SUBSET Event /\ IsFiniteSet(found)
      /\ Brought(found) = Wanted(list)
      /\ Garbled(list, DOMAIN list) \in Nat
      /\ Garbled(list, DOMAIN list) > 0 => ToSet(list) \cap Unreadable # {}
    BY <1>1, Decoding DEF Wanted, Read
<1>3. /\ w \in Walk /\ w.events = found
      /\ w.skips = Garbled(list, DOMAIN list)
    BY <1>1, <1>2 DEF Walk
<1>4. Finish(s, w)
    BY DEF Document
<1> HIDE DEF w, found
<1>5. withdrawn[s] = {} => Wanted(before[s]) \subseteq Brought(w.events)
    BY <1>2, <1>3 DEF FetchInv, SourceInv, Kept, Wanted, Readable, ToSet
<1>6. w.skips > 1 => Listed(s) \cap Unreadable # {}
    BY <1>2, <1>3 DEF Listed
<1>7. hurt' \in SUBSET Sources /\ hurt \subseteq hurt'
    BY DEF Document, FetchInv, TypeOK
<1>8. UNCHANGED <<upstream, holding, cancelled, returned>>
    BY DEF Document
<1> QED
    BY <1>2, <1>3, <1>4, <1>5, <1>6, <1>7, <1>8, FinishKeeps

----------------------------------------------------------------------------
(* tribe                                                                   *)

(* The events above a page and those on it are the events above the next.  *)
LEMMA PagesAddUp ==
    ASSUME NEW list \in Seq(Records), NEW n \in Nat \ {0}, NEW i \in Shown(list),
           Rank(list, i) <= n * PageSize, list[i] \notin Unreadable
    PROVE  Rank(list, i) <= (n - 1) * PageSize \/ list[i] \in Read(list, Page(list, n))
<1>1. Rank(list, i) \in Int
    BY Ranks
<1>2. (n - 1) * PageSize \in Int
    BY FetchAssumption
<1> SUFFICES ASSUME (n - 1) * PageSize < Rank(list, i)
             PROVE  list[i] \in Read(list, Page(list, n))
    BY <1>1, <1>2
<1>3. i \in Page(list, n)
    BY DEF Page
<1> QED
    BY <1>3 DEF Wanted, Read, Readable, Shown

LEMMA PageWalk ==
    ASSUME NEW v \in Walk, NEW found \in SUBSET Event, NEW garbled \in Nat, NEW link \in Int
    PROVE  /\ AfterPage(v, found, garbled, link) =
                [next |-> IF link = -1 THEN 0 ELSE link, pages |-> v.pages + 1,
                 links |-> v.links, events |-> v.events \cup found,
                 skips |-> v.skips + garbled + (IF link = -1 THEN 1 ELSE 0)]
           /\ AfterPage(v, found, garbled, link) \in Walk
<1> DEFINE w == AfterPage(v, found, garbled, link)
           next == IF link = -1 THEN 0 ELSE link
           skips == v.skips + garbled + (IF link = -1 THEN 1 ELSE 0)
<1>1. /\ v.next \in Int /\ v.pages \in Nat /\ v.links \in Seq(Records)
      /\ v.events \in SUBSET Event /\ v.skips \in Nat
    BY DEF Walk
<1>2. w = [v EXCEPT !.next = next, !.pages = v.pages + 1,
                    !.events = v.events \cup found, !.skips = skips]
    BY Zenon DEF AfterPage
<1>3. next \in Int /\ v.pages + 1 \in Nat /\ v.events \cup found \in SUBSET Event /\ skips \in Nat
    BY <1>1
<1> HIDE DEF next, skips, w
<1>4. w = [next |-> next, pages |-> v.pages + 1, links |-> v.links,
           events |-> v.events \cup found, skips |-> skips]
    BY <1>2 DEF Walk
<1>5. w \in Walk
    BY <1>1, <1>3, <1>4 DEF Walk
<1> QED
    BY <1>4, <1>5, Zenon DEF next, skips, w

LEMMA TribeStep ==
    ASSUME FetchInv, NEW s \in Sources, TribePage(s)
    PROVE  FetchInv'
<1> DEFINE list == calendar[s]
           n == walk[s].next
           page == Page(list, n)
           found == Decoded(walk[s].pages, list, page)
           garbled == Garbled(list, page)
<1>1. PICK link \in Link(s, n) :
         LET w == AfterPage(walk[s], found, garbled, link)
         IN IF TooManySkips(Cardinality(found), garbled)
            THEN Answer(s, Failed)
            ELSE IF w.next # 0 /\ w.pages < MaxPages
            THEN walk' = [walk EXCEPT ![s] = w] /\ UNCHANGED <<stage, result>>
            ELSE Answer(s, Succeeded(CutShort(w)))
    BY DEF TribePage
<1> DEFINE w == AfterPage(walk[s], found, garbled, link)
<1>2. /\ list \in Seq(Records) /\ walk[s] \in Walk /\ SourceInv(s) /\ n \in Nat \ {0}
      /\ Kind[s] = "tribe" /\ stage[s] = "asking"
    BY DEF FetchInv, TypeOK, SourceInv, Shape, TribePage, Asking
<1>3. /\ found \in SUBSET Event /\ IsFiniteSet(found)
      /\ Brought(found) = Read(list, page) /\ Read(list, page) \subseteq Wanted(list)
      /\ garbled \in Nat
      /\ garbled > 0 => ToSet(list) \cap Unreadable # {}
  <2>1. page \in SUBSET (DOMAIN list)
    BY DEF Page, Shown
  <2>2. walk[s].pages \in Nat
    BY <1>2 DEF Walk
  <2> HIDE DEF page
  <2> QED
    BY <1>2, <2>1, <2>2, Decoding
<1>4. /\ UNCHANGED <<upstream, holding, cancelled, returned>>
      /\ hurt' \in SUBSET Sources /\ hurt \subseteq hurt'
    BY DEF TribePage, FetchInv, TypeOK
<1>5. link \in Int /\ (link = -1 \/ link = 0 \/ link = 1 \/ link = n + 1)
    BY <1>1, <1>2 DEF Link
<1>6. link = 0 => ~(n * PageSize < Cardinality(Shown(list)))
    BY <1>1, <1>2 DEF Link
<1> HIDE DEF found, garbled, page
<1>7. /\ w \in Walk /\ w.next = (IF link = -1 THEN 0 ELSE link)
      /\ w.pages = walk[s].pages + 1 /\ w.links = walk[s].links
      /\ w.events = walk[s].events \cup found
      /\ w.skips = walk[s].skips + garbled + (IF link = -1 THEN 1 ELSE 0)
  <2>1. walk[s] \in Walk /\ found \in SUBSET Event /\ garbled \in Nat /\ link \in Int
    BY <1>2, <1>3, <1>5
  <2>2. w = AfterPage(walk[s], found, garbled, link)
    OBVIOUS
  <2> HIDE DEF w
  <2>3. /\ w = [next |-> IF link = -1 THEN 0 ELSE link, pages |-> walk[s].pages + 1,
                 links |-> walk[s].links, events |-> walk[s].events \cup found,
                 skips |-> walk[s].skips + garbled + (IF link = -1 THEN 1 ELSE 0)]
        /\ w \in Walk
    BY <2>1, <2>2, PageWalk, Zenon
  <2> QED
    BY <2>3
<1>8. ASSUME withdrawn[s] = {}
      PROVE  /\ Brought(w.events) \subseteq Wanted(list)
             /\ \A i \in Shown(list) :
                   /\ list[i] \in ToSet(before[s]) \ Unreadable
                   /\ Rank(list, i) <= n * PageSize
                   => list[i] \in Brought(w.events)
  <2>1. Brought(w.events) = Brought(walk[s].events) \cup Read(list, page)
    BY <1>3, <1>7, BroughtJoins
  <2> HIDE DEF w
  <2> QED
    BY <1>2, <1>3, <1>8, <2>1, PagesAddUp DEF SourceInv, Kept, PagesRead, page
<1> HIDE DEF w
<1>9. CASE TooManySkips(Cardinality(found), garbled)
  <2>1. garbled > 1
    BY <1>3, <1>9, FS_CardinalityType, TwoSkips
  <2>2. Failed \in Result /\ Honest(s, Failed)
    BY <1>3, <2>1, FailedHonest DEF Listed
  <2>3. Answer(s, Failed)
    BY <1>1, <1>9 DEF w
  <2> QED
    BY <1>4, <2>2, <2>3, AnswerKeeps
<1>10. CASE /\ ~TooManySkips(Cardinality(found), garbled)
            /\ w.next # 0 /\ w.pages < MaxPages
  <2>1. walk' = [walk EXCEPT ![s] = w] /\ UNCHANGED <<stage, result>>
    BY <1>1, <1>10 DEF w
  <2>2. /\ walk'[s] = w /\ stage' = [stage EXCEPT ![s] = "asking"] /\ stage'[s] = "asking"
        /\ result'[s] = result[s]
    BY <1>2, <2>1 DEF FetchInv, TypeOK
  <2>3. w.next \in Nat \ {0} /\ (w.next = 1 \/ w.next = n + 1)
    BY <1>2, <1>5, <1>7, <1>10
  <2>4. w.pages <= MaxPages /\ Len(w.links) <= MaxBevyEvents
    <3>1. w.pages \in Nat /\ MaxPages \in Nat
        BY <1>7, FetchAssumption DEF Walk
    <3>2. Len(walk[s].links) <= MaxBevyEvents
        BY DEF FetchInv, TypeOK
    <3> QED
        BY <1>7, <1>10, <3>1, <3>2
  <2>5. IsFiniteSet(w.events)
    <3>1. IsFiniteSet(walk[s].events)
        BY <1>2 DEF SourceInv, Shape
    <3>2. IsFiniteSet(walk[s].events \cup found)
        BY <1>3, <3>1, FS_Union
    <3> QED
        BY <1>7, <3>2
  <2>6. Shape(s)'
    BY <1>2, <2>2, <2>3, <2>5 DEF SourceInv, Shape, Running
  <2>7. Kept(s)'
    BY <1>2, <1>4, <1>8, <2>2 DEF SourceInv, Kept, upstream
  <2>8. PagesRead(s)'
    <3> SUFFICES ASSUME withdrawn[s] = {}, NEW i \in Shown(list),
                        list[i] \in ToSet(before[s]) \ Unreadable,
                        Rank(list, i) <= (w.next - 1) * PageSize
                 PROVE  list[i] \in Brought(w.events)
        BY <1>4, <2>2 DEF PagesRead, upstream
    <3>1. Rank(list, i) \in Nat \ {0}
        BY <1>2, Ranks
    <3>2. CASE w.next = 1
        <4>1. (w.next - 1) * PageSize = 0
            BY <3>2, FetchAssumption
        <4> QED
            BY <3>1, <4>1
    <3>3. CASE w.next = n + 1
        <4>1. w.next - 1 = n
            BY <1>2, <3>3
        <4> QED
            BY <1>8, <4>1
    <3> QED
        BY <2>3, <3>2, <3>3
  <2>9. LinksRead(s)' /\ SkipsEarned(s)'
    BY <1>2 DEF LinksRead, SkipsEarned
  <2>10. Running(s) /\ UNCHANGED <<upstream, holding, result, cancelled, returned>>
    BY <1>2, <1>4, <2>1 DEF Running
  <2> QED
    BY <1>4, <1>7, <2>1, <2>2, <2>4, <2>6, <2>7, <2>8, <2>9, <2>10, WalkKeeps
<1>11. CASE /\ ~TooManySkips(Cardinality(found), garbled)
            /\ ~(w.next # 0 /\ w.pages < MaxPages)
  <2> DEFINE r == Succeeded(CutShort(w))
  <2>1. Answer(s, r)
    BY <1>1, <1>11 DEF w
  <2>2. /\ r \in Result /\ ~r.err /\ r.events = w.events
        /\ r.skips = (IF w.next = 0 THEN w.skips ELSE w.skips + 1)
    BY <1>7 DEF Succeeded, CutShort, Result, Walk
  <2>3. ASSUME r.skips = 0, withdrawn[s] = {}
        PROVE  Wanted(before[s]) \subseteq Brought(w.events)
    <3>1. link = 0
        BY <1>2, <1>3, <1>5, <1>7, <2>2, <2>3 DEF Walk
    <3> SUFFICES ASSUME NEW x \in Wanted(before[s]) PROVE x \in Brought(w.events)
        OBVIOUS
    <3>2. x \in ToSet(before[s]) \ Unreadable /\ x \notin Unwanted /\ x \in ToSet(list)
        BY <1>2, <2>3 DEF Wanted, Read, Readable, ToSet, SourceInv, Kept
    <3>3. PICK i \in Shown(list) : x = list[i]
        BY <3>2 DEF Shown, ToSet
    <3>4. /\ Cardinality(Shown(list)) \in Nat
          /\ Rank(list, i) \in 1 .. Cardinality(Shown(list))
        BY <1>2, Ranks
    <3>5. n * PageSize \in Int
        BY <1>2, FetchAssumption
    <3>6. Rank(list, i) <= n * PageSize
        BY <1>6, <3>1, <3>4, <3>5
    <3> QED
        BY <1>8, <2>3, <3>2, <3>3, <3>6
  <2>4. Honest(s, r)
    BY <1>8, <2>2, <2>3 DEF Honest
  <2> QED
    BY <1>4, <2>1, <2>2, <2>4, AnswerKeeps
<1> QED
    BY <1>9, <1>10, <1>11

----------------------------------------------------------------------------
(* bevy                                                                    *)

LEMMA ChapterStep ==
    ASSUME FetchInv, NEW s \in Sources, BevyChapter(s)
    PROVE  FetchInv'
<1> DEFINE list == calendar[s]
           cut == Len(list) > MaxBevyEvents
           links == IF cut THEN SubSeq(list, 1, MaxBevyEvents) ELSE list
           skips == IF cut THEN 1 ELSE 0
           w == [walk[s] EXCEPT !.next = 2, !.links = links, !.skips = skips]
<1>1. /\ list \in Seq(Records) /\ SourceInv(s) /\ stage[s] = "asking" /\ Kind[s] = "bevy"
      /\ walk \in [Sources -> Walk] /\ stage \in [Sources -> Stages] /\ result[s] = NoResult
    BY DEF FetchInv, TypeOK, BevyChapter, Asking, SourceInv, Shape
<1>2. walk[s] = Unstarted
    BY <1>1 DEF SourceInv, Shape, BevyChapter, Chapter
<1>3. links \in Seq(Records) /\ Len(links) <= MaxBevyEvents /\ skips \in Nat
      /\ (list # <<>> => Len(links) >= 1) /\ (list = <<>> => ~cut /\ links = <<>>)
      /\ (skips = 0 => links = list) /\ skips <= 1
  <2>1. MaxBevyEvents \in Nat /\ MaxBevyEvents >= 1
    BY FetchAssumption
  <2>2. CASE cut
    <3>1. Len(list) \in Nat /\ list # <<>>
        BY <1>1, <2>1, <2>2
    <3>2. SubSeq(list, 1, MaxBevyEvents) \in Seq(Records)
          /\ Len(SubSeq(list, 1, MaxBevyEvents)) = MaxBevyEvents
        BY <1>1, <2>1, <2>2, <3>1
    <3> QED
        BY <2>1, <2>2, <3>1, <3>2
  <2>3. CASE ~cut
    BY <1>1, <2>1, <2>3
  <2> QED
    BY <2>2, <2>3
<1> HIDE DEF links, skips
<1>4. w = [next |-> 2, pages |-> 0, links |-> links, events |-> {}, skips |-> skips]
  <2>1. w = [Unstarted EXCEPT !.next = 2, !.links = links, !.skips = skips]
    BY <1>2, Zenon
  <2>2. Unstarted = [next |-> 1, pages |-> 0, links |-> <<>>, events |-> {}, skips |-> 0]
    BY DEF Unstarted
  <2> HIDE DEF w
  <2> QED
    BY <2>1, <2>2
<1>5. w \in Walk /\ w.next = 2 /\ w.pages = 0 /\ w.links = links /\ w.events = {} /\ w.skips = skips
  <2> HIDE DEF w
  <2>1. {} \in SUBSET Event /\ 2 \in Int /\ 0 \in Nat
    OBVIOUS
  <2>2. w \in Walk
    BY <1>3, <1>4, <2>1 DEF Walk
  <2> QED
    BY <1>4, <2>2
<1>6. /\ UNCHANGED <<upstream, holding, cancelled, returned>>
      /\ hurt' \in SUBSET Sources /\ hurt \subseteq hurt'
    BY DEF BevyChapter, FetchInv, TypeOK
<1>7. IF list = <<>> THEN Finish(s, w)
      ELSE /\ walk' = [walk EXCEPT ![s] = w]
           /\ stage' = [stage EXCEPT ![s] = "pausing"]
           /\ UNCHANGED result
    BY DEF BevyChapter, links, skips
<1>8. IsFiniteSet(w.events) /\ Brought(w.events) = {}
    BY <1>5, FS_EmptySet, BroughtNone
<1> HIDE DEF w
<1>9. CASE list = <<>>
  <2>1. withdrawn[s] = {} => Wanted(before[s]) \subseteq Brought(w.events)
    <3>1. ToSet(list) = {}
        BY <1>9 DEF ToSet
    <3>2. withdrawn[s] = {} => ToSet(before[s]) = {}
        BY <1>1, <3>1 DEF SourceInv, Kept
    <3> QED
        BY <3>2 DEF Wanted, Read, Readable, ToSet
  <2>2. Brought(w.events) \subseteq Wanted(calendar[s]) /\ ~(w.skips > 1)
    BY <1>3, <1>5, <1>8
  <2> QED
    BY <1>5, <1>6, <1>7, <1>8, <1>9, <2>1, <2>2, FinishKeeps
<1>10. CASE list # <<>>
  <2>1. /\ walk' = [walk EXCEPT ![s] = w] /\ walk'[s] = w
        /\ stage' = [stage EXCEPT ![s] = "pausing"] /\ stage'[s] = "pausing"
        /\ UNCHANGED result
    BY <1>1, <1>7, <1>10
  <2>2. Shape(s)'
    <3>1. w.next \in 2 .. Len(w.links) + 1
        BY <1>3, <1>5, <1>10
    <3>2. w.next # 1
        BY <1>5
    <3>3. IsFiniteSet(w.events)
        BY <1>8
    <3> QED
        BY <1>1, <2>1, <3>1, <3>2, <3>3 DEF Shape, Running, Chapter
  <2>3. Kept(s)'
    BY <1>1, <1>6, <1>8, <2>1 DEF SourceInv, Kept, upstream
  <2>4. PagesRead(s)'
    BY <1>1 DEF PagesRead
  <2>5. LinksRead(s)'
    <3>1. Read(links, 1 .. 2 - 2) = {}
        BY DEF Wanted, Read, Readable
    <3> QED
        BY <1>1, <1>3, <1>5, <1>6, <2>1, <3>1 DEF SourceInv, Kept, LinksRead, upstream
  <2>6. SkipsEarned(s)'
    BY <1>3, <1>5, <2>1 DEF SkipsEarned
  <2>7. w.pages <= MaxPages /\ Len(w.links) <= MaxBevyEvents /\ Running(s)
    BY <1>1, <1>3, <1>5, FetchAssumption DEF Running
  <2> QED
    BY <1>5, <1>6, <2>1, <2>2, <2>3, <2>4, <2>5, <2>6, <2>7, WalkKeeps
<1> QED
    BY <1>9, <1>10

LEMMA PauseStep ==
    ASSUME FetchInv, NEW s \in Sources, BevyPause(s)
    PROVE  FetchInv'
<1>1. /\ UNCHANGED <<upstream, holding, cancelled, returned>>
      /\ hurt' \in SUBSET Sources /\ hurt \subseteq hurt'
      /\ SourceInv(s) /\ Kind[s] = "bevy" /\ ~Chapter(walk[s])
    BY DEF BevyPause, FetchInv, TypeOK, SourceInv, Shape
<1>2. CASE stage' = [stage EXCEPT ![s] = "asking"] /\ UNCHANGED <<result, walk>>
  <2>1. stage'[s] = "asking" /\ walk[s] \in Walk /\ walk' = [walk EXCEPT ![s] = walk[s]]
        /\ walk[s].pages <= MaxPages /\ Len(walk[s].links) <= MaxBevyEvents /\ Running(s)
    BY <1>2 DEF FetchInv, TypeOK, BevyPause, Running
  <2>2. Shape(s)'
    BY <1>1, <1>2, <2>1 DEF SourceInv, Shape, Running, Chapter
  <2>3. Kept(s)' /\ PagesRead(s)' /\ LinksRead(s)' /\ SkipsEarned(s)'
    BY <1>1, <1>2
       DEF SourceInv, Kept, PagesRead, LinksRead, SkipsEarned, Chapter, Listed, upstream
  <2> QED
    BY <1>1, <1>2, <2>1, <2>2, <2>3, WalkKeeps
<1>3. CASE cancelled /\ Answer(s, Failed)
    BY <1>1, <1>3, FailedHonest, AnswerKeeps
<1> QED
    BY <1>2, <1>3 DEF BevyPause

(* The next event page, or the end of the links.                           *)
LEMMA NextKeeps ==
    ASSUME FetchInv, NEW s \in Sources, NEW w \in Walk, BevyNext(s, w), stage[s] = "asking",
           Kind[s] = "bevy", ~Chapter(walk[s]),
           w.next = walk[s].next + 1, w.pages = walk[s].pages, w.links = walk[s].links,
           IsFiniteSet(w.events),
           UNCHANGED <<upstream, holding, cancelled, returned>>,
           hurt' \in SUBSET Sources, hurt \subseteq hurt',
           withdrawn[s] = {} => Brought(w.events) \subseteq Wanted(calendar[s]),
           w.skips = 0 /\ withdrawn[s] = {} =>
             /\ ToSet(before[s]) \subseteq ToSet(w.links)
             /\ Read(w.links, 1 .. w.next - 2) \subseteq Brought(w.events),
           w.skips > 1 => s \in hurt' \/ Listed(s) \cap Unreadable # {}
    PROVE  FetchInv'
<1>1. /\ SourceInv(s) /\ walk[s].next \in 2 .. Len(w.links) + 1 /\ w.links \in Seq(Records)
      /\ walk \in [Sources -> Walk] /\ stage \in [Sources -> Stages] /\ result[s] = NoResult
    BY DEF FetchInv, TypeOK, SourceInv, Shape, Chapter, Unstarted, Walk
<1>2. CASE w.next - 1 > Len(w.links)
  <2>1. w.next - 2 = Len(w.links) /\ DOMAIN w.links = 1 .. Len(w.links)
    BY <1>1, <1>2
  <2>2. ASSUME w.skips = 0, withdrawn[s] = {}
        PROVE  Wanted(before[s]) \subseteq Brought(w.events)
    <3>1. Wanted(w.links) \subseteq Brought(w.events)
        BY <2>1, <2>2 DEF Wanted, Read
    <3>2. ToSet(before[s]) \subseteq ToSet(w.links)
        BY <2>2
    <3> QED
        BY <3>1, <3>2 DEF Wanted, Read, Readable, ToSet
  <2>3. Finish(s, w)
    BY <1>2 DEF BevyNext
  <2> QED
    BY <2>2, <2>3, FinishKeeps
<1>3. CASE ~(w.next - 1 > Len(w.links))
  <2>1. /\ walk' = [walk EXCEPT ![s] = w] /\ walk'[s] = w
        /\ stage' = [stage EXCEPT ![s] = "pausing"] /\ stage'[s] = "pausing"
        /\ UNCHANGED result
    BY <1>1, <1>3 DEF BevyNext
  <2>2. w.next \in 2 .. Len(w.links) + 1 /\ w.next # 1
    BY <1>1, <1>3
  <2>3. Shape(s)'
    BY <1>1, <2>1, <2>2 DEF Shape, Running, Chapter
  <2>4. Kept(s)'
    BY <1>1, <2>1 DEF SourceInv, Kept, upstream
  <2>5. PagesRead(s)'
    BY DEF PagesRead
  <2>6. LinksRead(s)'
    BY <2>1 DEF LinksRead, upstream
  <2>7. SkipsEarned(s)'
    BY <2>1 DEF SkipsEarned, Listed, upstream
  <2>8. w.pages <= MaxPages /\ Len(w.links) <= MaxBevyEvents /\ Running(s)
    BY DEF FetchInv, TypeOK, Running
  <2> QED
    BY <2>1, <2>3, <2>4, <2>5, <2>6, <2>7, <2>8, WalkKeeps
<1> QED
    BY <1>2, <1>3

LEMMA EventWalk ==
    ASSUME NEW v \in Walk, NEW found \in SUBSET Event, NEW skipped \in Nat
    PROVE  /\ AfterEvent(v, found, skipped) =
                [next |-> v.next + 1, pages |-> v.pages, links |-> v.links,
                 events |-> v.events \cup found, skips |-> v.skips + skipped]
           /\ AfterEvent(v, found, skipped) \in Walk
<1> DEFINE w == AfterEvent(v, found, skipped)
           next == v.next + 1
           skips == v.skips + skipped
<1>1. /\ v.next \in Int /\ v.pages \in Nat /\ v.links \in Seq(Records)
      /\ v.events \in SUBSET Event /\ v.skips \in Nat
    BY DEF Walk
<1>2. w = [v EXCEPT !.next = next, !.events = v.events \cup found, !.skips = skips]
    BY Zenon DEF AfterEvent
<1>3. next \in Int /\ v.events \cup found \in SUBSET Event /\ skips \in Nat
    BY <1>1
<1> HIDE DEF next, skips, w
<1>4. w = [next |-> next, pages |-> v.pages, links |-> v.links,
           events |-> v.events \cup found, skips |-> skips]
    BY <1>2 DEF Walk
<1>5. w \in Walk
    BY <1>1, <1>3, <1>4 DEF Walk
<1> QED
    BY <1>4, <1>5, Zenon DEF next, skips, w

LEMMA EventStep ==
    ASSUME FetchInv, NEW s \in Sources, BevyEvent(s)
    PROVE  FetchInv'
<1> DEFINE links == walk[s].links
           k == walk[s].next - 1
           found == Decoded(k, links, {k})
           garbled == Garbled(links, {k})
           w == AfterEvent(walk[s], found, garbled)
<1>1. /\ SourceInv(s) /\ stage[s] = "asking" /\ Kind[s] = "bevy" /\ ~Chapter(walk[s])
      /\ walk[s] \in Walk /\ links \in Seq(Records) /\ calendar[s] \in Seq(Records)
      /\ links[k] \in ToSet(calendar[s]) /\ BevyNext(s, w)
    BY DEF FetchInv, TypeOK, BevyEvent, Asking, Walk
<1>2. k \in 1 .. Len(links) /\ walk[s].next \in Nat
    BY <1>1 DEF SourceInv, Shape, Chapter, Unstarted
<1>3. /\ found \in SUBSET Event /\ IsFiniteSet(found) /\ garbled \in Nat
      /\ Brought(found) = Read(links, {k})
  <2>1. {k} \in SUBSET (DOMAIN links) /\ k \in Nat
    BY <1>1, <1>2
  <2> HIDE DEF k, links
  <2> QED
    BY <1>1, <2>1, Decoding
<1>4. Read(links, {k}) \subseteq Wanted(calendar[s])
    BY <1>1 DEF Wanted, Read, Readable, ToSet
<1>5. garbled > 0 => ToSet(calendar[s]) \cap Unreadable # {}
  <2> SUFFICES ASSUME links[k] \notin Unreadable PROVE garbled = 0
    BY <1>1, <1>3
  <2>1. {i \in {k} : links[i] \in Unreadable} = {}
    OBVIOUS
  <2> QED
    BY <2>1, FS_EmptySet DEF Garbled
<1>6. \A i \in 1 .. k : i = k \/ i \in 1 .. k - 1
    BY <1>2
<1>7. Read(links, 1 .. k) \subseteq Read(links, 1 .. k - 1) \cup Read(links, {k})
    BY <1>6 DEF Wanted, Read, Readable
<1> HIDE DEF found, garbled
<1>8. /\ w \in Walk /\ w.next = walk[s].next + 1 /\ w.pages = walk[s].pages /\ w.links = links
      /\ w.events = walk[s].events \cup found /\ w.skips = walk[s].skips + garbled
  <2>1. /\ w = [next |-> walk[s].next + 1, pages |-> walk[s].pages, links |-> links,
                events |-> walk[s].events \cup found, skips |-> walk[s].skips + garbled]
        /\ w \in Walk
    BY <1>1, <1>3, EventWalk, Zenon
  <2> QED
    BY <2>1
<1>9. walk[s].skips \in Nat /\ Brought(w.events) = Brought(walk[s].events) \cup Read(links, {k})
  <2>1. walk[s].skips \in Nat
    BY <1>1 DEF Walk
  <2> HIDE DEF w, k, links
  <2> QED
    BY <1>3, <1>8, <2>1, BroughtJoins
<1> HIDE DEF w
<1>10. IsFiniteSet(w.events)
  <2>1. IsFiniteSet(walk[s].events)
    BY <1>1 DEF SourceInv, Shape
  <2>2. IsFiniteSet(walk[s].events \cup found)
    BY <1>3, <2>1, FS_Union
  <2> QED
    BY <1>8, <2>2
<1>11. /\ UNCHANGED <<upstream, holding, cancelled, returned>>
       /\ hurt' \in SUBSET Sources /\ hurt \subseteq hurt'
    BY DEF BevyEvent, FetchInv, TypeOK
<1>12. withdrawn[s] = {} => Brought(w.events) \subseteq Wanted(calendar[s])
    BY <1>1, <1>4, <1>9 DEF SourceInv, Kept
<1>13. ASSUME w.skips = 0, withdrawn[s] = {}
       PROVE  /\ ToSet(before[s]) \subseteq ToSet(w.links)
              /\ Read(w.links, 1 .. w.next - 2) \subseteq Brought(w.events)
  <2>1. walk[s].skips = 0
    BY <1>3, <1>8, <1>9, <1>13
  <2>2. walk[s].next - 2 = k - 1 /\ w.next - 2 = k
    BY <1>2, <1>8
  <2>3. /\ ToSet(before[s]) \subseteq ToSet(links)
        /\ Read(links, 1 .. walk[s].next - 2) \subseteq Brought(walk[s].events)
    BY <1>1, <1>13, <2>1 DEF SourceInv, LinksRead
  <2> HIDE DEF k, links
  <2>4. Read(links, 1 .. k - 1) \subseteq Brought(walk[s].events)
    BY <2>2, <2>3
  <2> QED
    BY <1>7, <1>8, <1>9, <2>2, <2>3, <2>4
<1>14. w.skips > 1 => s \in hurt' \/ Listed(s) \cap Unreadable # {}
  <2>1. CASE garbled > 0
    BY <1>5, <2>1 DEF Listed
  <2>2. CASE garbled = 0
    BY <1>1, <1>8, <1>9, <1>11, <2>2 DEF SourceInv, SkipsEarned
  <2> QED
    BY <1>3, <2>1, <2>2
<1> QED
    BY <1>1, <1>8, <1>10, <1>11, <1>12, <1>13, <1>14, NextKeeps

LEMMA FailsStep ==
    ASSUME FetchInv, NEW s \in Sources, RequestFails(s)
    PROVE  FetchInv'
<1>1. /\ UNCHANGED <<upstream, holding, cancelled, returned>>
      /\ hurt' \in SUBSET Sources /\ hurt \subseteq hurt' /\ s \in hurt'
      /\ SourceInv(s) /\ stage[s] = "asking" /\ walk[s] \in Walk
    BY DEF RequestFails, FetchInv, TypeOK
<1>2. CASE Kind[s] = "bevy" /\ ~Chapter(walk[s])
  <2> DEFINE w == AfterEvent(walk[s], {}, 1)
  <2>1. BevyNext(s, w)
    BY <1>2 DEF RequestFails
  <2>2. /\ w \in Walk /\ w.next = walk[s].next + 1 /\ w.pages = walk[s].pages
        /\ w.links = walk[s].links /\ w.events = walk[s].events
        /\ w.skips = walk[s].skips + 1 /\ walk[s].skips \in Nat
    <3>1. {} \in SUBSET Event /\ 1 \in Nat
        OBVIOUS
    <3>2. /\ w = [next |-> walk[s].next + 1, pages |-> walk[s].pages, links |-> walk[s].links,
                  events |-> walk[s].events \cup {}, skips |-> walk[s].skips + 1]
          /\ w \in Walk
        BY <1>1, <3>1, EventWalk, Zenon
    <3>3. walk[s].events \cup {} = walk[s].events /\ walk[s].skips \in Nat
        BY <1>1 DEF Walk
    <3> QED
        BY <3>2, <3>3
  <2> HIDE DEF w
  <2>3. w.skips # 0
    BY <2>2
  <2>4. IsFiniteSet(w.events)
    BY <1>1, <2>2 DEF SourceInv, Shape
  <2>5. withdrawn[s] = {} => Brought(w.events) \subseteq Wanted(calendar[s])
    BY <1>1, <2>2 DEF SourceInv, Kept
  <2> QED
    BY <1>1, <1>2, <2>1, <2>2, <2>3, <2>4, <2>5, NextKeeps
<1>3. CASE ~(Kind[s] = "bevy" /\ ~Chapter(walk[s]))
  <2>1. Answer(s, Failed)
    BY <1>3 DEF RequestFails
  <2> QED
    BY <1>1, <2>1, FailedHonest, AnswerKeeps
<1> QED
    BY <1>2, <1>3

----------------------------------------------------------------------------
(* The theorems                                                            *)

(* No step of a fetch, of the world outside it, or of its cancellation     *)
(* breaks the invariant.                                                   *)
LEMMA NextInv == FetchInv /\ [Next]_vars => FetchInv'
<1> SUFFICES ASSUME FetchInv, [Next]_vars PROVE FetchInv'
    OBVIOUS
<1>1. CASE UNCHANGED vars
  <2>1. TypeOK'
    BY <1>1 DEF vars, FetchInv, TypeOK
  <2>2. ASSUME NEW t \in Sources PROVE SourceInv(t)'
    BY <1>1, Untouched DEF vars, FetchInv
  <2> QED
    BY <2>1, <2>2 DEF FetchInv
<1>2. ASSUME NEW s \in Sources, Advance(s) PROVE FetchInv'
    BY <1>2, TribeStep, DocumentStep, ChapterStep, PauseStep, EventStep, FailsStep, ReleaseStep
       DEF Advance
<1>3. ASSUME NEW s \in Sources, Add(s) \/ Withdraw(s) \/ Acquire(s) PROVE FetchInv'
    BY <1>3, AddStep, WithdrawStep, AcquireStep
<1> QED
    BY <1>1, <1>2, <1>3, CancelStep, ReturnStep DEF Next

LEMMA InvHolds == Spec => []FetchInv
<1> QED
    BY InitInv, NextInv, PTL DEF Spec

(* Never more requests in flight than MaxConcurrent, nor more pages read   *)
(* or links kept of one source than their ceilings: TypeOK, the semaphore  *)
(* of Fetch and the bounds of the loops of tribeFetcher and bevyFetcher.   *)
THEOREM FetchTypeCorrect == Spec => []TypeOK
<1>1. FetchInv => TypeOK
    BY DEF FetchInv
<1> QED
    BY <1>1, InvHolds, PTL

(* A source that reports success without a skip has every wanted event it  *)
(* listed when its fetch began, whatever was added upstream while its      *)
(* pages, or its event pages, were read.                                   *)
THEOREM CompleteCorrect == Spec => []CompleteOrFlagged
<1>1. FetchInv => CompleteOrFlagged
    BY DEF FetchInv, SourceInv, Complete, CompleteOrFlagged
<1> QED
    BY <1>1, InvHolds, PTL

(* A source fails by a request of its own, by records of its own that      *)
(* cannot be read or, a chapter in its pause, by the cancellation of the   *)
(* run: never because another one failed, and never by a single skip.      *)
THEOREM OneDeadFeedCorrect == Spec => []OneDeadFeed
<1>1. FetchInv => OneDeadFeed
    BY DEF FetchInv, SourceInv, Excused, OneDeadFeed
<1> QED
    BY <1>1, InvHolds, PTL

=============================================================================
