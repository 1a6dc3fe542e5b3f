------------------------------ MODULE ApiProofs -----------------------------
(* Venues, proved for any batches, registries and venues in which a name   *)
(* has one slug (OneSlug; run venue_id shows what happens otherwise); and  *)
(* Api, for any number of clients.                                         *)
EXTENDS Api, StoreProofs

----------------------------------------------------------------------------
(* One slug for each name                                                  *)

AllCurated == UNION {ToSet(CuratedBy[reg]) : reg \in Registries}

Names == DOMAIN SlugOf \cup {v.name : v \in AllCurated}

(* The slug a name has its row under.                                      *)
Home(n) ==
    IF \E v \in AllCurated : v.name = n THEN (CHOOSE v \in AllCurated : v.name = n).slug
    ELSE SlugOf[n]

(* A file that is called otherwise than venueSlug would call its venue     *)
(* (data/venues/801-travis.yaml) must be there from the start: before it   *)
(* the venue would be discovered under the other slug.                     *)
OneSlug ==
    /\ \A v, w \in AllCurated : v.name = w.name => v.slug = w.slug
    /\ \A n, m \in Names : Home(n) = Home(m) => n = m
    /\ \A n \in DOMAIN SlugOf :
          \/ Home(n) = SlugOf[n]
          \/ \A reg \in Registries : \E v \in ToSet(CuratedBy[reg]) : v.name = n

LEMMA CuratedHome ==
    ASSUME OneSlug, NEW v \in AllCurated
    PROVE  v.name \in Names /\ v.slug = Home(v.name)
  <1>1. v.name \in Names
    BY DEF Names
  <1>2. \E w \in AllCurated : w.name = v.name
    OBVIOUS
  <1>3. (CHOOSE w \in AllCurated : w.name = v.name) \in AllCurated
        /\ (CHOOSE w \in AllCurated : w.name = v.name).name = v.name
    BY <1>2
  <1> QED
    BY <1>1, <1>2, <1>3 DEF OneSlug, Home

LEMMA CuratedType ==
    ASSUME NEW reg \in Registries
    PROVE  /\ CuratedBy[reg] \in Seq(Venue)
           /\ ToSet(CuratedBy[reg]) \subseteq AllCurated
           /\ \A i \in DOMAIN CuratedBy[reg] : CuratedBy[reg][i] \in Venue \cap AllCurated
           /\ \A i, j \in DOMAIN CuratedBy[reg] :
                 CuratedBy[reg][i].slug = CuratedBy[reg][j].slug => i = j
  <1>1. CuratedBy[reg] \in Seq(Venue)
    BY VenuesAssumption
  <1>2. ToSet(CuratedBy[reg]) \subseteq AllCurated
    BY DEF AllCurated
  <1>3. \A i \in DOMAIN CuratedBy[reg] :
           CuratedBy[reg][i] \in Venue /\ CuratedBy[reg][i] \in ToSet(CuratedBy[reg])
    BY <1>1 DEF ToSet
  <1> QED
    BY <1>1, <1>2, <1>3, VenuesAssumption

----------------------------------------------------------------------------
(* The table of venues                                                     *)

(* A row per name, under the name's slug.                                  *)
Settled(table) ==
    /\ table \in Seq(Venue)
    /\ \A i \in DOMAIN table : table[i].name \in Names /\ table[i].slug = Home(table[i].name)
    /\ \A i, j \in DOMAIN table : table[i].slug = table[j].slug => i = j

(* No row goes or gets another name.                                       *)
Grows(table, later) ==
    /\ DOMAIN table \subseteq DOMAIN later
    /\ \A i \in DOMAIN table : later[i].name = table[i].name

(* No address that is there changes.                                       *)
KeepsAddresses(table, later) ==
    \A i \in DOMAIN table :
        table[i].address # NoAddress => later[i].address = table[i].address

LEMMA OneRow ==
    ASSUME OneSlug, NEW table, Settled(table), NEW i \in DOMAIN table, NEW j \in DOMAIN table
    PROVE  table[i].name = table[j].name <=> i = j
  BY DEF Settled

LEMMA AppendFits ==
    ASSUME OneSlug, NEW table, Settled(table), NEW v \in Venue, v.name \in Names,
           v.slug = Home(v.name), Slugged(table, v.slug) = {}
    PROVE  /\ Settled(Append(table, v))
           /\ Grows(table, Append(table, v)) /\ KeepsAddresses(table, Append(table, v))
           /\ Len(table) + 1 \in DOMAIN Append(table, v)
           /\ Append(table, v)[Len(table) + 1] = v
  <1> DEFINE U == Append(table, v)
  <1>1. table \in Seq(Venue) /\ Len(table) \in Nat /\ DOMAIN table = 1 .. Len(table)
    BY DEF Settled
  <1>2. /\ U \in Seq(Venue) /\ DOMAIN U = 1 .. Len(table) + 1
        /\ U[Len(table) + 1] = v
        /\ \A i \in DOMAIN table : U[i] = table[i]
    BY <1>1
  <1>3. \A i \in DOMAIN table : table[i].slug # v.slug
    BY DEF Slugged
  <1>4. \A i \in DOMAIN U : i \in DOMAIN table \/ i = Len(table) + 1
    BY <1>1, <1>2
  <1> HIDE DEF U
  <1>5. \A i \in DOMAIN U : U[i].name \in Names /\ U[i].slug = Home(U[i].name)
    BY <1>2, <1>4 DEF Settled
  <1>6. \A i, j \in DOMAIN U : U[i].slug = U[j].slug => i = j
    BY <1>2, <1>3, <1>4 DEF Settled
  <1>7. Settled(U)
    BY <1>2, <1>5, <1>6 DEF Settled
  <1>8. Grows(table, U) /\ KeepsAddresses(table, U) /\ Len(table) + 1 \in DOMAIN U
    BY <1>1, <1>2 DEF Grows, KeepsAddresses
  <1> QED
    BY <1>2, <1>7, <1>8 DEF U

(* A table written row by row, each under its old slug and name.           *)
LEMMA RewriteFits ==
    ASSUME NEW table, Settled(table), NEW later, DOMAIN later = DOMAIN table,
           \A i \in DOMAIN table : /\ later[i] \in Venue
                                   /\ later[i].name = table[i].name
                                   /\ later[i].slug = table[i].slug,
           \E F : later = [i \in DOMAIN table |-> F[i]]
    PROVE  Settled(later) /\ Grows(table, later)
  <1>1. table \in Seq(Venue) /\ Len(table) \in Nat /\ DOMAIN table = 1 .. Len(table)
    BY DEF Settled
  <1>2. later \in [1 .. Len(table) -> Venue]
    BY <1>1
  <1>3. later \in Seq(Venue)
    BY <1>1, <1>2
  <1> QED
    BY <1>3 DEF Settled, Grows

----------------------------------------------------------------------------
(* The registry's venues                                                   *)

LEMMA UpsertFits ==
    ASSUME OneSlug, NEW table, Settled(table), NEW v \in Venue \cap AllCurated
    PROVE  /\ Settled(Upsert(table, v)) /\ Grows(table, Upsert(table, v))
           /\ \E i \in DOMAIN Upsert(table, v) : Upsert(table, v)[i] = v
           /\ \A i \in DOMAIN table : table[i].slug # v.slug => Upsert(table, v)[i] = table[i]
  <1>1. v \in Venue /\ v.name \in Names /\ v.slug = Home(v.name)
    BY CuratedHome
  <1>2. CASE Slugged(table, v.slug) = {}
    <2>1. Upsert(table, v) = Append(table, v)
      BY <1>2 DEF Upsert
    <2>2. table \in Seq(Venue)
      BY DEF Settled
    <2>3. \A i \in DOMAIN table : Append(table, v)[i] = table[i]
      BY <2>2
    <2> QED
      BY <1>1, <1>2, <2>1, <2>3, AppendFits
  <1>3. CASE Slugged(table, v.slug) # {}
    <2> DEFINE later == [i \in DOMAIN table |-> IF table[i].slug = v.slug THEN v ELSE table[i]]
    <2>1. Upsert(table, v) = later
      BY <1>3 DEF Upsert
    <2>2. PICK k \in DOMAIN table : table[k].slug = v.slug
      BY <1>3 DEF Slugged
    <2>3. \A i \in DOMAIN table :
             /\ table[i] \in Venue /\ table[i].name \in Names /\ table[i].slug = Home(table[i].name)
      BY DEF Settled
    <2>4. \A i \in DOMAIN table : table[i].slug = v.slug => table[i].name = v.name
      BY <1>1, <2>3 DEF OneSlug
    <2>5. \A i \in DOMAIN table : /\ later[i] \in Venue
                                  /\ later[i].name = table[i].name
                                  /\ later[i].slug = table[i].slug
      BY <1>1, <2>3, <2>4
    <2>6. /\ DOMAIN later = DOMAIN table /\ later[k] = v
          /\ \A i \in DOMAIN table : table[i].slug # v.slug => later[i] = table[i]
      BY <2>2
    <2>7. \E F : later = [i \in DOMAIN table |-> F[i]]
      <3> WITNESS later
      <3> QED
        OBVIOUS
    <2> HIDE DEF later
    <2>8. Settled(later) /\ Grows(table, later)
      BY <2>5, <2>6, <2>7, RewriteFits
    <2> QED
      BY <2>1, <2>2, <2>6, <2>8
  <1> QED
    BY <1>2, <1>3

(* The loop is well defined, by its least turn that were not.              *)
LEMMA UpsertsDef ==
    ASSUME NEW table, NEW curated, Len(curated) \in Nat
    PROVE  Upserts(table, curated) =
             [n \in 0 .. Len(curated) |->
                 IF n = 0 THEN table ELSE Upsert(Upserts(table, curated)[n - 1], curated[n])]
  <1> DEFINE N == Len(curated)
             Runs(f, m) == f = [n \in 0 .. m |->
                                  IF n = 0 THEN table ELSE Upsert(f[n - 1], curated[n])]
             T == {m \in Nat : m <= N /\ ~ \E f : Runs(f, m)}
  <1>1. T = {}
    <2>1. ASSUME T # {}
          PROVE  FALSE
      <3>1. PICK m \in T : \A k \in T : m <= k
        BY <2>1, LeastExists DEF Least
      <3>2. m # 0
        <4>1. Runs([n \in 0 .. 0 |-> table], 0)
          OBVIOUS
        <4> QED
          BY <4>1
      <3>3. m - 1 \in Nat /\ m - 1 <= N /\ m - 1 \notin T
        BY <3>1, <3>2
      <3>4. PICK g : Runs(g, m - 1)
        BY <3>3
      <3> DEFINE f == [n \in 0 .. m |-> IF n = m THEN Upsert(g[m - 1], curated[m]) ELSE g[n]]
      <3>5. \A n \in 0 .. m - 1 :
               f[n] = g[n] /\ g[n] = IF n = 0 THEN table ELSE Upsert(g[n - 1], curated[n])
        BY <3>4
      <3>6. \A n \in 0 .. m : f[n] = IF n = 0 THEN table ELSE Upsert(f[n - 1], curated[n])
        <4> TAKE n \in 0 .. m
        <4>1. CASE n = m
          BY <3>2, <3>3, <3>5, <4>1
        <4>2. CASE n # m
          <5>1. n \in 0 .. m - 1 /\ (n # 0 => n - 1 \in 0 .. m - 1)
            BY <4>2
          <5> QED
            BY <3>5, <5>1
        <4> QED
          BY <4>1, <4>2
      <3>7. f = [n \in 0 .. m |-> f[n]]
        OBVIOUS
      <3> HIDE DEF f
      <3>8. Runs(f, m)
        BY <3>6, <3>7
      <3> QED
        BY <3>1, <3>8
    <2> QED
      BY <2>1
  <1>2. \E f : Runs(f, N)
    BY <1>1
  <1> QED
    BY <1>2 DEF Upserts

LEMMA UpsertedFits ==
    ASSUME OneSlug, NEW table, Settled(table), NEW reg \in Registries
    PROVE  LET later == Upserted(table, CuratedBy[reg]) IN
           /\ Settled(later) /\ Grows(table, later)
           /\ \A v \in ToSet(CuratedBy[reg]) : \E i \in DOMAIN later : later[i] = v
  <1> DEFINE curated == CuratedBy[reg]
             N == Len(curated)
             after == Upserts(table, curated)
             Has(t, v) == \E i \in DOMAIN t : t[i] = v
             Good(n) == /\ Settled(after[n]) /\ Grows(table, after[n])
                        /\ \A j \in 1 .. n : Has(after[n], curated[j])
             T == {n \in Nat : n <= N /\ ~ Good(n)}
  <1>1. curated \in Seq(Venue) /\ N \in Nat /\ DOMAIN curated = 1 .. N
    BY CuratedType
  <1>2. after[0] = table /\ \A n \in 1 .. N : after[n] = Upsert(after[n - 1], curated[n])
    BY <1>1, UpsertsDef
  <1>3. /\ \A n \in 1 .. N : curated[n] \in Venue \cap AllCurated
        /\ \A m, n \in 1 .. N : curated[m].slug = curated[n].slug => m = n
    BY <1>1, CuratedType
  <1> HIDE DEF after
  <1>4. Good(0)
    BY <1>2 DEF Grows
  <1>5. ASSUME NEW n \in 1 .. N, Good(n - 1)
        PROVE  Good(n)
    <2> DEFINE t == after[n - 1]
               v == curated[n]
    <2>1. Settled(t) /\ Grows(table, t) /\ v \in Venue \cap AllCurated
      BY <1>3, <1>5
    <2>2. after[n] = Upsert(t, v)
      BY <1>2
    <2> HIDE DEF t, v
    <2>3. /\ Settled(after[n]) /\ Grows(t, after[n]) /\ Has(after[n], v)
          /\ \A i \in DOMAIN t : t[i].slug # v.slug => after[n][i] = t[i]
      BY <2>1, <2>2, UpsertFits
    <2>4. Grows(table, after[n])
      BY <2>1, <2>3 DEF Grows
    <2>5. ASSUME NEW j \in 1 .. n
          PROVE  Has(after[n], curated[j])
      <3>1. CASE j = n
        BY <2>3, <3>1 DEF v
      <3>2. CASE j # n
        <4>1. j \in 1 .. n - 1 /\ j \in 1 .. N
          BY <1>1, <3>2
        <4>2. PICK i \in DOMAIN t : t[i] = curated[j]
          BY <1>5, <4>1 DEF t
        <4>3. t[i].slug # v.slug
          BY <1>3, <3>2, <4>1, <4>2 DEF v
        <4>4. i \in DOMAIN after[n] /\ after[n][i] = curated[j]
          BY <2>3, <4>2, <4>3 DEF Grows
        <4> QED
          BY <4>4
      <3> QED
        BY <3>1, <3>2
    <2> QED
      BY <2>3, <2>4, <2>5
  <1> HIDE DEF Good
  <1>6. T = {}
    <2>1. ASSUME T # {}
          PROVE  FALSE
      <3>1. PICK m \in T : \A k \in T : m <= k
        BY <2>1, LeastExists DEF Least
      <3>2. m # 0
        BY <1>4, <3>1
      <3>3. m - 1 \in Nat /\ m - 1 <= N /\ m \in 1 .. N /\ m - 1 \notin T
        BY <1>1, <3>1, <3>2
      <3> QED
        BY <1>5, <3>1, <3>3
    <2> QED
      BY <2>1
  <1>7. Good(N)
    BY <1>1, <1>6
  <1>8. Upserted(table, curated) = after[N]
    BY DEF Upserted, after
  <1>9. \A v \in ToSet(curated) : \E j \in 1 .. N : v = curated[j]
    BY <1>1 DEF ToSet
  <1> HIDE DEF curated, N
  <1>10. Settled(after[N]) /\ Grows(table, after[N]) /\ \A v \in ToSet(curated) : Has(after[N], v)
    BY <1>7, <1>9 DEF Good
  <1> QED
    BY <1>8, <1>10 DEF curated

----------------------------------------------------------------------------
(* The venue of an event                                                   *)

(* A venue whose file is called otherwise has its row.                     *)
Established(table) ==
    \A n \in DOMAIN SlugOf : Home(n) # SlugOf[n] => Named(table, n) # {}

LEMMA EstablishedStays ==
    ASSUME NEW table, NEW later, Established(table), Grows(table, later)
    PROVE  Established(later)
  BY DEF Established, Grows, Named

LEMMA EventVenue ==
    ASSUME NEW f \in Fps
    PROVE  /\ VenueOf[f] \in [name : STRING, address : STRING]
           /\ VenueOf[f].name # NoVenue => VenueOf[f].name \in DOMAIN SlugOf
  BY VenuesAssumption

(* venueRow answers with the row of the venue's name.                      *)
LEMMA WithVenueFits ==
    ASSUME OneSlug, NEW table, Settled(table), Established(table), NEW f \in Fps, NEW lastid
    PROVE  LET v == VenueOf[f]
               later == WithVenue(table, v)
               id == VenueId(table, v, lastid)
           IN  /\ Settled(later) /\ Grows(table, later) /\ KeepsAddresses(table, later)
               /\ v.name # NoVenue => id \in DOMAIN later /\ later[id].name = v.name
  <1> DEFINE v == VenueOf[f]
  <1>1. v \in [name : STRING, address : STRING]
        /\ (v.name # NoVenue => v.name \in DOMAIN SlugOf)
    BY EventVenue
  <1> HIDE DEF v
  <1>2. CASE v.name = NoVenue
    <2>1. WithVenue(table, v) = table
      BY <1>2 DEF WithVenue
    <2> QED
      BY <1>2, <2>1 DEF Grows, KeepsAddresses, v
  <1>3. CASE v.name # NoVenue /\ Named(table, v.name) # {}
    <2>1. PICK k \in DOMAIN table : table[k].name = v.name
      BY <1>3 DEF Named
    <2>2. table \in Seq(Venue) /\ k \in Nat
      BY DEF Settled
    <2>3. Named(table, v.name) = {k}
      BY <2>1, OneRow DEF Named
    <2>4. Min({k}) = k
      BY <2>2 DEF Min
    <2> DEFINE later == [table EXCEPT ![k] = Fill(@, v.address)]
    <2>5. WithVenue(table, v) = later /\ VenueId(table, v, lastid) = k
      BY <1>3, <2>3, <2>4 DEF WithVenue, VenueId
    <2>6. \A i \in DOMAIN table : table[i] \in Venue
      BY <2>2
    <2>7. /\ Fill(table[k], v.address) \in Venue
          /\ Fill(table[k], v.address).name = table[k].name
          /\ Fill(table[k], v.address).slug = table[k].slug
          /\ table[k].address # NoAddress => Fill(table[k], v.address) = table[k]
      BY <1>1, <2>6 DEF Fill, Venue
    <2>8. \A i \in DOMAIN table : later[i] = IF i = k THEN Fill(table[k], v.address) ELSE table[i]
      OBVIOUS
    <2>9. \A i \in DOMAIN table : /\ later[i] \in Venue
                                  /\ later[i].name = table[i].name
                                  /\ later[i].slug = table[i].slug
      BY <2>6, <2>7, <2>8
    <2>10. DOMAIN later = DOMAIN table /\ \E F : later = [i \in DOMAIN table |-> F[i]]
      <3>1. later = [i \in DOMAIN table |-> later[i]]
        OBVIOUS
      <3> QED
        BY <3>1
    <2> HIDE DEF later
    <2>11. Settled(later) /\ Grows(table, later)
      BY <2>9, <2>10, RewriteFits
    <2>12. KeepsAddresses(table, later)
      BY <2>7, <2>8 DEF KeepsAddresses
    <2>13. k \in DOMAIN later /\ later[k].name = v.name
      BY <2>1, <2>9, <2>10
    <2> QED
      BY <2>5, <2>11, <2>12, <2>13 DEF v
  <1>4. CASE v.name # NoVenue /\ Named(table, v.name) = {}
    <2> DEFINE slug == SlugOf[v.name]
               row == [slug |-> slug, name |-> v.name, address |-> v.address]
    <2>1. v.name \in DOMAIN SlugOf /\ slug = Home(v.name) /\ v.name \in Names
      BY <1>1, <1>4 DEF Established, Names
    <2>2. Slugged(table, slug) = {}
      <3>1. \A i \in DOMAIN table : table[i].slug = slug => table[i].name = v.name
        BY <2>1 DEF Settled, OneSlug
      <3> QED
        BY <1>4, <3>1 DEF Slugged, Named
    <2>3. row \in Venue /\ row.slug = slug /\ row.name = v.name
      BY <1>1, <2>1, VenuesAssumption DEF Venue
    <2>4. WithVenue(table, v) = Append(table, row) /\ VenueId(table, v, lastid) = Len(table) + 1
      BY <1>4, <2>2 DEF WithVenue, VenueId
    <2> HIDE DEF row
    <2>5. /\ Settled(Append(table, row))
          /\ Grows(table, Append(table, row)) /\ KeepsAddresses(table, Append(table, row))
          /\ Len(table) + 1 \in DOMAIN Append(table, row)
          /\ Append(table, row)[Len(table) + 1] = row
      BY <2>1, <2>2, <2>3, AppendFits
    <2> QED
      BY <2>3, <2>4, <2>5 DEF v
  <1> QED
    BY <1>2, <1>3, <1>4

----------------------------------------------------------------------------
(* The inductive invariant                                                 *)

(* The rows of events point at the venues they name.                       *)
Pointing(table, at, live) ==
    \A f \in Fps :
        live[f] # None /\ at[f].name # NoVenue =>
            at[f].id \in DOMAIN table /\ table[at[f].id].name = at[f].name

(* The curated venues have their rows, with the addresses the registry     *)
(* gives.                                                                  *)
Honours(table, curated) ==
    \A v \in curated : \E i \in DOMAIN table :
        table[i].name = v.name /\ (v.address # NoAddress => table[i].address = v.address)

VenuesInv ==
    /\ Settled(venues)
    /\ last # None => Established(venues)
    /\ ToSet(mirrored) \subseteq AllCurated
    /\ Honours(venues, ToSet(mirrored))
    /\ Pointing(venues, place, rows)
    /\ txvenues = [table |-> txvenues.table, place |-> txvenues.place]
    /\ tx = None => txvenues = [table |-> venues, place |-> place]
    /\ tx # None => /\ Settled(txvenues.table) /\ Established(txvenues.table)
                    /\ Honours(txvenues.table, ToSet(mirrored))
                    /\ Pointing(txvenues.table, txvenues.place, tx.rows)

LEMMA HonoursStays ==
    ASSUME NEW table, NEW later, NEW curated, Honours(table, curated),
           Grows(table, later), KeepsAddresses(table, later)
    PROVE  Honours(later, curated)
  BY DEF Honours, Grows, KeepsAddresses

LEMMA PointingStays ==
    ASSUME NEW table, NEW later, NEW at, NEW live, Pointing(table, at, live),
           Grows(table, later)
    PROVE  Pointing(later, at, live)
  BY DEF Pointing, Grows

LEMMA VenuesInvInit == Init /\ VenuesInit => VenuesInv
  <1> SUFFICES ASSUME Init, VenuesInit
               PROVE  VenuesInv
    OBVIOUS
  <1>1. venues = <<>> /\ mirrored = <<>> /\ last = None /\ tx = None
    BY DEF Init, VenuesInit
  <1>2. ToSet(mirrored) = {} /\ Settled(venues)
    BY <1>1 DEF ToSet, Settled
  <1>3. Honours(venues, ToSet(mirrored)) /\ Pointing(venues, place, rows)
    BY <1>2 DEF Honours, Pointing, Init
  <1> QED
    BY <1>1, <1>2, <1>3 DEF VenuesInv, VenuesInit

LEMMA MirrorStep ==
    ASSUME OneSlug, VenuesInv, NEW reg \in Registries, MirrorVenues(reg)
    PROVE  VenuesInv'
  <1>1. /\ tx = None /\ tx' = None /\ rows' = rows /\ place' = place
        /\ venues' = Upserted(venues, CuratedBy[reg])
        /\ txvenues' = [table |-> venues', place |-> place]
        /\ mirrored' = CuratedBy[reg]
    BY DEF MirrorVenues, SyncRegistry
  <1>2. /\ Settled(venues') /\ Grows(venues, venues')
        /\ \A v \in ToSet(mirrored') : \E i \in DOMAIN venues' : venues'[i] = v
    BY <1>1, UpsertedFits DEF VenuesInv
  <1>3. ToSet(mirrored') \subseteq AllCurated
    BY <1>1, CuratedType
  <1>4. Honours(venues', ToSet(mirrored'))
    BY <1>2 DEF Honours
  <1>5. Established(venues')
    <2> SUFFICES ASSUME NEW n \in DOMAIN SlugOf, Home(n) # SlugOf[n]
                 PROVE  Named(venues', n) # {}
      BY DEF Established
    <2>1. PICK v \in ToSet(CuratedBy[reg]) : v.name = n
      BY DEF OneSlug
    <2>2. PICK i \in DOMAIN venues' : venues'[i] = v
      BY <1>1, <1>2, <2>1
    <2> QED
      BY <2>1, <2>2 DEF Named
  <1>6. Pointing(venues', place', rows')
    BY <1>1, <1>2, PointingStays DEF VenuesInv
  <1> QED
    BY <1>1, <1>2, <1>3, <1>4, <1>5, <1>6 DEF VenuesInv

(* What a saved event leaves: one row written, of which its fingerprint    *)
(* leads to the row, and no row but that one made.                         *)
LEMMA SavedRow ==
    ASSUME DbInv, Insert \/ Update
    PROVE  /\ tx # None /\ tx' # None
           /\ Current(tx).fp \in Fps
           /\ tx'.owner[Current(tx).fp] \in Fps
           /\ \A f \in Fps : f # tx'.owner[Current(tx).fp] /\ tx'.rows[f] # None
                                => tx.rows[f] # None
  <1> DEFINE e == Current(tx)
  <1>1. tx # None /\ tx' # None
    BY NoTxAssumption, InsertStep, UpdateStep DEF Insert, Update, DbInv
  <1>2. e.fp \in Fps /\ e.fp \in Fingerprints(e)
    <2>1. tx.done < Len(tx.batch)
      BY DEF Insert, Update
    <2>2. e \in Event /\ BatchOK(tx.batch) /\ tx.done + 1 \in DOMAIN tx.batch
          /\ e = tx.batch[tx.done + 1]
      BY <1>1, <2>1, CurrentEvent DEF DbInv
    <2> QED
      BY <2>2 DEF Event, BatchOK, Fingerprints
  <1>3. \A id \in Fps : Reown(tx, e, id)[e.fp] = id
    BY <1>2 DEF Reown
  <1>4. CASE Insert
    <2>1. /\ tx'.rows = [tx.rows EXCEPT ![e.fp] = Fresh(tx, e)] /\ tx \in Tx
          /\ tx'.owner = Reown(tx, e, e.fp)
      BY <1>1, <1>4, InsertStep DEF DbInv, TypeOK
    <2>2. tx.rows \in [Fps -> Row \cup {None}]
      BY <2>1 DEF Tx
    <2> HIDE DEF e
    <2>3. tx'.owner[e.fp] = e.fp
      BY <1>2, <1>3, <2>1
    <2>4. \A f \in Fps : f # e.fp => tx'.rows[f] = tx.rows[f]
      BY <2>1, <2>2
    <2> QED
      BY <1>1, <1>2, <2>3, <2>4 DEF e
  <1>5. CASE Update
    <2>1. PICK id \in Found(tx, e) :
             /\ id \in Fps /\ tx'.rows = MergedRows(tx, e, id) /\ tx'.owner = Reown(tx, e, id)
      BY <1>5, UpdateStep DEF DbInv
    <2> HIDE DEF e
    <2>2. tx'.owner[e.fp] = id
      BY <1>3, <2>1
    <2>3. \A f \in Fps : f # id /\ tx'.rows[f] # None => tx.rows[f] # None
      BY <2>1 DEF MergedRows
    <2> QED
      BY <1>1, <1>2, <2>1, <2>2, <2>3 DEF e
  <1> QED
    BY <1>4, <1>5

LEMMA SaveVenueStep ==
    ASSUME OneSlug, DbInv, VenuesInv, SaveWithVenue
    PROVE  VenuesInv'
  <1> DEFINE e == Current(tx)
             v == VenueOf[e.fp]
             row == tx'.owner[e.fp]
             id == VenueId(txvenues.table, v, LastBefore(tx))
             later == WithVenue(txvenues.table, v)
             at == [f \in Fps |-> IF f = row THEN [id |-> id, name |-> v.name]
                                  ELSE IF tx'.rows[f] = None THEN Nowhere ELSE txvenues.place[f]]
  <1>1. /\ Insert \/ Update
        /\ txvenues' = [table |-> later, place |-> at]
        /\ UNCHANGED <<venues, place, last, mirrored>>
    BY DEF SaveWithVenue
  <1>2. /\ tx # None /\ tx' # None /\ e.fp \in Fps /\ row \in Fps
        /\ \A f \in Fps : f # row /\ tx'.rows[f] # None => tx.rows[f] # None
    BY <1>1, SavedRow
  <1>3. rows' = rows
    BY <1>1 DEF Insert, Update
  <1>4. /\ Settled(txvenues.table) /\ Established(txvenues.table)
        /\ Honours(txvenues.table, ToSet(mirrored))
        /\ Pointing(txvenues.table, txvenues.place, tx.rows)
    BY <1>2 DEF VenuesInv
  <1>5. /\ Settled(later) /\ Grows(txvenues.table, later) /\ KeepsAddresses(txvenues.table, later)
        /\ v.name # NoVenue => id \in DOMAIN later /\ later[id].name = v.name
    BY <1>2, <1>4, WithVenueFits
  <1>6. txvenues'.table = later /\ txvenues'.place = at
    BY <1>1
  <1> HIDE DEF later, id, v, e, row
  <1>7. Honours(later, ToSet(mirrored)) /\ Established(later)
    BY <1>4, <1>5, HonoursStays, EstablishedStays
  <1>8. Pointing(later, at, tx'.rows)
    <2> SUFFICES ASSUME NEW f \in Fps, tx'.rows[f] # None, at[f].name # NoVenue
                 PROVE  at[f].id \in DOMAIN later /\ later[at[f].id].name = at[f].name
      BY DEF Pointing
    <2>1. CASE f = row
      BY <1>5, <2>1
    <2>2. CASE f # row
      <3>1. at[f] = txvenues.place[f] /\ tx.rows[f] # None
        BY <1>2, <2>2
      <3>2. Pointing(later, txvenues.place, tx.rows)
        BY <1>4, <1>5, PointingStays
      <3> QED
        BY <3>1, <3>2 DEF Pointing
    <2> QED
      BY <2>1, <2>2
  <1> HIDE DEF at
  <1> QED
    BY <1>1, <1>2, <1>3, <1>5, <1>6, <1>7, <1>8 DEF VenuesInv

LEMMA VenuesInvStep ==
    OneSlug /\ DbInv /\ VenuesInv /\ [VenuesNext]_<<vars, venueVars>> => VenuesInv'
  <1> SUFFICES ASSUME OneSlug, DbInv, VenuesInv, [VenuesNext]_<<vars, venueVars>>
               PROVE  VenuesInv'
    OBVIOUS
  <1>1. CASE Tick /\ UNCHANGED venueVars
    BY <1>1 DEF Tick, venueVars, VenuesInv
  <1>2. ASSUME NEW reg \in Registries, MirrorVenues(reg)
        PROVE  VenuesInv'
    BY <1>2, MirrorStep
  <1>3. CASE BeginAfterMirror
    <2>1. PICK b \in Batches : SaveBegin(b)
      BY <1>3 DEF BeginAfterMirror
    <2>2. /\ tx = None /\ tx' # None /\ tx'.rows = rows /\ rows' = rows
          /\ last # None /\ UNCHANGED venueVars
      BY <1>3, <2>1, NoTxAssumption, BeginStep DEF BeginAfterMirror, SaveBegin, DbInv
    <2>3. txvenues.table = venues /\ txvenues.place = place
      BY <2>2 DEF VenuesInv
    <2> QED
      BY <2>2, <2>3 DEF VenuesInv, venueVars
  <1>4. CASE SaveWithVenue
    BY <1>4, SaveVenueStep
  <1>5. CASE CommitVenues
    <2>1. /\ tx # None /\ tx' = None /\ rows' = tx.rows /\ last' = None
          /\ venues' = txvenues.table /\ place' = txvenues.place
          /\ UNCHANGED <<txvenues, mirrored>>
      BY <1>5 DEF CommitVenues, Commit
    <2> QED
      BY <2>1 DEF VenuesInv
  <1>6. CASE RollbackVenues
    BY <1>6 DEF RollbackVenues, Rollback, VenuesInv
  <1>7. CASE UNCHANGED <<vars, venueVars>>
    BY <1>7 DEF vars, venueVars, VenuesInv
  <1> QED
    BY <1>1, <1>2, <1>3, <1>4, <1>5, <1>6, <1>7 DEF VenuesNext

----------------------------------------------------------------------------
(* The properties                                                          *)

LEMMA PointsAtName ==
    ASSUME OneSlug, VenuesInv, NEW f \in LiveIn(rows), place[f].name # NoVenue
    PROVE  place[f].id \in DOMAIN venues /\ venues[place[f].id].name = place[f].name
  BY DEF VenuesInv, Pointing, LiveIn

LEMMA ShownAsCurated == OneSlug /\ VenuesInv => CuratedShown /\ VenueIsNamed
  <1> SUFFICES ASSUME OneSlug, VenuesInv
               PROVE  CuratedShown /\ VenueIsNamed
    OBVIOUS
  <1>1. VenueIsNamed
    BY PointsAtName DEF VenueIsNamed
  <1>2. ASSUME NEW f \in LiveIn(rows), NEW v \in ToSet(mirrored), place[f].name = v.name,
               v.address # NoAddress
        PROVE  Shown(f) = v.address
    <2>1. v.name # NoVenue
      <3>1. v \in AllCurated
        BY DEF VenuesInv
      <3>2. PICK reg \in Registries : v \in ToSet(CuratedBy[reg])
        BY <3>1 DEF AllCurated
      <3> QED
        BY <3>2, VenuesAssumption DEF ToSet
    <2>2. place[f].id \in DOMAIN venues /\ venues[place[f].id].name = v.name
      BY <1>2, <2>1, PointsAtName
    <2>3. PICK i \in DOMAIN venues : venues[i].name = v.name /\ venues[i].address = v.address
      BY <1>2 DEF VenuesInv, Honours
    <2>4. i = place[f].id
      BY <2>2, <2>3, OneRow DEF VenuesInv
    <2> QED
      BY <2>2, <2>3, <2>4 DEF Shown
  <1> QED
    BY <1>1, <1>2 DEF CuratedShown

LEMMA VenuesStepIsNext == [VenuesNext]_<<vars, venueVars>> => [Next]_vars
  <1> SUFFICES ASSUME VenuesNext
               PROVE  Next
    BY DEF vars
  <1>1. ASSUME NEW reg \in Registries, MirrorVenues(reg)
        PROVE  Next
    BY <1>1 DEF Next, MirrorVenues
  <1>2. CASE BeginAfterMirror
    BY <1>2 DEF Next, BeginAfterMirror
  <1>3. CASE SaveWithVenue \/ CommitVenues \/ RollbackVenues
    BY <1>3 DEF Next, SaveWithVenue, CommitVenues, RollbackVenues
  <1> QED
    BY <1>1, <1>2, <1>3 DEF VenuesNext, Next

(* Saving with venues is saving: what is proved of Store holds of Venues.  *)
THEOREM VenuesIsStore == VenuesSpec => Spec
  BY VenuesStepIsNext, PTL DEF VenuesSpec, Spec

LEMMA VenuesInvariant ==
    ASSUME OneSlug
    PROVE  VenuesSpec => [](DbInv /\ VenuesInv)
  <1>1. Init /\ VenuesInit => DbInv /\ VenuesInv
    BY DbInvInit, VenuesInvInit
  <1>2. DbInv /\ VenuesInv /\ [VenuesNext]_<<vars, venueVars>> => DbInv' /\ VenuesInv'
    BY VenuesStepIsNext, DbInvStep, VenuesInvStep
  <1> QED
    BY <1>1, <1>2, PTL DEF VenuesSpec

(* Whatever the feeds send, in whatever order a venue is discovered and    *)
(* curated, and however rows merge and are written again, a published      *)
(* event at a curated venue is shown with the registry's address.          *)
THEOREM CuratedCorrect ==
    ASSUME OneSlug
    PROVE  VenuesSpec => []CuratedShown
  <1>1. VenuesInv => CuratedShown
    BY ShownAsCurated
  <1> QED
    BY <1>1, VenuesInvariant, PTL

(* The venue_id of an event is the row of the venue it names: with one     *)
(* slug for each name venueRow never meets the conflict it answers wrong.  *)
THEOREM VenueCorrect ==
    ASSUME OneSlug
    PROVE  VenuesSpec => []VenueIsNamed
  <1>1. VenuesInv => VenueIsNamed
    BY ShownAsCurated
  <1> QED
    BY <1>1, VenuesInvariant, PTL

----------------------------------------------------------------------------
(* The sync beside the server does what Store says, so that what is proved *)
(* of Store holds of what the requests read.                               *)

LEMMA WriteIsVenuesNext == Write => VenuesNext
  BY DEF Write, VenuesNext

LEMMA ApiStepIsVenuesStep == [ApiNext]_allvars => [VenuesNext]_<<vars, venueVars>>
  BY WriteIsVenuesNext DEF ApiNext, allvars, sqlite

LEMMA ApiStepIsNext == [ApiNext]_allvars => [Next]_vars
  BY ApiStepIsVenuesStep, VenuesStepIsNext

(* Whatever is served meanwhile, the database and its venues are written   *)
(* as Store and Venues say.                                                *)
THEOREM ApiIsVenues == ApiSpec => VenuesSpec
  <1>1. ApiInit => Init /\ VenuesInit
    BY DEF ApiInit
  <1> QED
    BY <1>1, ApiStepIsVenuesStep, PTL DEF ApiSpec, VenuesSpec

(* And what is proved of Store holds of it.                                *)
THEOREM ApiIsStore == ApiSpec => Spec
  BY ApiIsVenues, VenuesIsStore, PTL

(* So an event at a curated venue is served with the registry's address.   *)
THEOREM CuratedServed ==
    ASSUME OneSlug
    PROVE  ApiSpec => []CuratedShown /\ []VenueIsNamed
  BY ApiIsVenues, CuratedCorrect, VenueCorrect, PTL

(* No row's group is missing from the groups table, which never loses one. *)
Grouped(table) == \A f \in LiveIn(table) : groups[table[f].group] # "absent"

ForeignKey == Grouped(rows) /\ (tx # None => Grouped(tx.rows))

LEMMA GroupsStay ==
    ASSUME DbInv, [Next]_vars
    PROVE  \A g \in Groups : groups[g] # "absent" => groups'[g] # "absent"
  <1>1. ASSUME NEW reg \in Registries, SyncRegistry(reg)
        PROVE  \A g \in Groups : groups[g] # "absent" => groups'[g] # "absent"
    BY <1>1 DEF SyncRegistry
  <1> QED
    BY <1>1 DEF Next, vars, Tick, SaveBegin, Insert, Update, Commit, Rollback

LEMMA ForeignKeyStep == DbInv /\ ForeignKey /\ [Next]_vars => ForeignKey'
  <1> SUFFICES ASSUME DbInv, ForeignKey, [Next]_vars
               PROVE  ForeignKey'
    OBVIOUS
  <1> USE DEF Grouped, LiveIn
  <1>1. ASSUME NEW b \in Batches, SaveBegin(b)
        PROVE  ForeignKey'
    BY <1>1 DEF SaveBegin, ForeignKey
  <1>2. CASE Insert
    <2> DEFINE e == Current(tx)
    <2>1. /\ tx'.rows = [tx.rows EXCEPT ![e.fp] = Fresh(tx, e)]
          /\ tx.rows \in [Fps -> Row \cup {None}]
      BY <1>2, InsertStep, CurrentEvent DEF Insert, DbInv, Tx
    <2>2. groups[e.group] # "absent" /\ Fresh(tx, e).group = e.group
      BY <1>2 DEF Insert, Refused, Fresh
    <2> HIDE DEF e
    <2> QED
      BY <1>2, <2>1, <2>2 DEF Insert, ForeignKey
  <1>3. CASE Update
    <2> DEFINE e == Current(tx)
    <2>1. PICK id \in Found(tx, e) : tx.rows[id] \in Row /\ tx'.rows = MergedRows(tx, e, id)
      BY <1>3, UpdateStep DEF DbInv
    <2>2. groups[e.group] # "absent" /\ Updated(tx, e, tx.rows[id]).group = e.group
      BY <1>3, <2>1 DEF Update, Refused, Updated, Row
    <2>3. \A f \in Fps : \/ tx'.rows[f] = Updated(tx, e, tx.rows[id])
                         \/ tx'.rows[f] = None
                         \/ tx'.rows[f] = tx.rows[f]
      BY <2>1 DEF MergedRows
    <2> HIDE DEF e
    <2> QED
      BY <1>3, <2>2, <2>3 DEF Update, ForeignKey
  <1>4. ASSUME NEW reg \in Registries, SyncRegistry(reg)
        PROVE  ForeignKey'
    <2>1. \A f \in Fps : rows[f] # None => rows[f].group \in Groups
      BY DEF DbInv, TypeOK, Row
    <2> QED
      BY <1>4, <2>1, GroupsStay DEF SyncRegistry, ForeignKey
  <1>5. CASE Commit
    BY <1>5 DEF Commit, ForeignKey
  <1>6. CASE Rollback
    BY <1>6 DEF Rollback, ForeignKey
  <1>7. CASE Tick \/ UNCHANGED vars
    BY <1>7 DEF Tick, vars, ForeignKey
  <1> QED
    BY <1>1, <1>2, <1>3, <1>4, <1>5, <1>6, <1>7 DEF Next

Database == DbInv /\ TimeInv /\ ForeignKey

LEMMA DatabaseInit == ApiInit => Database
  <1> SUFFICES ASSUME Init
               PROVE  TimeInv /\ ForeignKey
    BY DbInvInit DEF ApiInit, Database
  <1> QED
    BY DEF Init, TimeInv, ForeignKey, Grouped, LiveIn, Dated

LEMMA DatabaseStep == Database /\ [ApiNext]_allvars => Database'
  BY ApiStepIsNext, DbInvStep, TimeInvStep, ForeignKeyStep DEF Database

LEMMA TableSynced ==
    ASSUME NEW table \in [Fps -> Row \cup {None}],
           LiveIn(table) = {} \/ \E t \in Nat : Newest(table, t)
    PROVE  LastSynced(table) \in Nat /\ \A f \in LiveIn(table) : table[f].last <= LastSynced(table)
  <1>1. CASE LiveIn(table) = {}
    BY <1>1, EmptyIsZero
  <1>2. ASSUME NEW t \in Nat, Newest(table, t)
        PROVE  LastSynced(table) \in Nat /\ \A f \in LiveIn(table) : table[f].last <= LastSynced(table)
    <2>1. LastSynced(table) = t
      BY <1>2, NewestIsLast
    <2> QED
      BY <1>2, <2>1 DEF Newest, LiveIn
  <1> QED
    BY <1>1, <1>2

LEMMA LastSyncedType ==
    ASSUME Database
    PROVE  LastSynced(rows) \in Nat /\ \A f \in LiveIn(rows) : rows[f].last <= LastSynced(rows)
  <1>1. rows \in [Fps -> Row \cup {None}] /\ (LiveIn(rows) = {} \/ \E t \in Nat : Newest(rows, t))
    BY DEF Database, DbInv, TypeOK, TimeInv
  <1> QED
    BY <1>1, TableSynced

LEMMA LastSyncedGrows ==
    ASSUME Database, [ApiNext]_allvars
    PROVE  LastSynced(rows') >= LastSynced(rows)
  <1>1. [MovesToStamp]_vars
    BY ApiStepIsNext, SyncedStep DEF Database
  <1> QED
    BY <1>1, LastSyncedType DEF MovesToStamp, vars

----------------------------------------------------------------------------
(* The ids of the rows                                                     *)

(* t numbers the rows of a table, each with a number of its own.  That the *)
(* numbers are bounded is what gives the largest a meaning.                *)
Numbers(table, t) ==
    /\ t \in [Fps -> Nat]
    /\ \A f \in Fps : t[f] # 0 <=> table[f] # None
    /\ \A f, g \in LiveIn(table) : t[f] = t[g] => f = g
    /\ \E bound \in Nat : \A f \in Fps : t[f] <= bound

IdInv ==
    /\ Numbers(rows, ids)
    /\ tx = None => txids = ids
    /\ tx # None => Numbers(tx.rows, txids)

LEMMA BoundedHasMax ==
    ASSUME NEW S \in SUBSET Nat, S # {}, NEW bound \in Nat, \A x \in S : x <= bound
    PROVE  Max(S) \in S /\ \A x \in S : x <= Max(S)
  <1> DEFINE T == {n \in Nat : \A x \in S : x <= n}
  <1>1. T \subseteq Nat /\ T # {}
    OBVIOUS
  <1>2. PICK m \in T : \A y \in T : m <= y
    BY <1>1, LeastExists DEF Least
  <1>5. \A y \in T : ~ (y < m)
    BY <1>2
  <1>6. m \in S
    <2> SUFFICES ASSUME m \notin S
                 PROVE  FALSE
      OBVIOUS
    <2>1. \A x \in S : x <= m /\ x # m /\ x \in Nat
      OBVIOUS
    <2>2. m \in Nat /\ m # 0
      <3>1. PICK x \in S : TRUE
        OBVIOUS
      <3> QED
        BY <2>1, <3>1
    <2>3. m - 1 \in Nat /\ m - 1 < m /\ \A x \in S : x <= m - 1
      BY <2>1, <2>2
    <2> QED
      BY <1>5, <2>3
  <1>7. \A x \in S : m >= x
    OBVIOUS
  <1>8. Max(S) \in S /\ \A y \in S : Max(S) >= y
    BY <1>6, <1>7 DEF Max
  <1> QED
    BY <1>8

LEMMA NextIdIsNew ==
    ASSUME NEW table, NEW t, Numbers(table, t)
    PROVE  /\ NextId(t) \in Nat \ {0}
           /\ \A f \in Fps : t[f] < NextId(t)
  <1> DEFINE S == {0} \cup {t[f] : f \in Fps}
  <1>1. PICK bound \in Nat : \A f \in Fps : t[f] <= bound
    BY DEF Numbers
  <1>2. S \in SUBSET Nat /\ S # {} /\ \A x \in S : x <= bound
    BY <1>1 DEF Numbers
  <1>3. Max(S) \in S /\ \A x \in S : x <= Max(S)
    BY <1>2, BoundedHasMax
  <1>4. NextId(t) = 1 + Max(S)
    BY DEF NextId
  <1>5. \A f \in Fps : t[f] \in S
    OBVIOUS
  <1> HIDE DEF S
  <1>6. Max(S) \in Nat /\ \A f \in Fps : t[f] \in Nat /\ t[f] <= Max(S)
    BY <1>2, <1>3, <1>5
  <1>7. \A f \in Fps : t[f] < 1 + Max(S)
    BY <1>6
  <1> QED
    BY <1>4, <1>6, <1>7

(* One event saved: its row keeps its id or gets the next one, and the     *)
(* rows that are gone give theirs up.                                      *)
LEMMA SaveNumbers ==
    ASSUME NEW table, NEW t, Numbers(table, t), NEW table2, NEW id \in Fps,
           \A f \in Fps \ {id} : table2[f] = None \/ table2[f] = table[f],
           table2[id] # None
    PROVE  Numbers(table2, [f \in Fps |-> IF table2[f] = None THEN 0
                                         ELSE IF table[f] = None THEN NextId(t) ELSE t[f]])
  <1> DEFINE u == [f \in Fps |-> IF table2[f] = None THEN 0
                                 ELSE IF table[f] = None THEN NextId(t) ELSE t[f]]
             n == NextId(t)
  <1>1. n \in Nat \ {0} /\ \A f \in Fps : t[f] < n /\ t[f] \in Nat
    BY NextIdIsNew DEF Numbers
  <1>2. \A f \in Fps : u[f] = IF table2[f] = None THEN 0 ELSE IF table[f] = None THEN n ELSE t[f]
    OBVIOUS
  <1>3. DOMAIN u = Fps /\ u = [f \in Fps |-> u[f]]
    OBVIOUS
  <1> HIDE DEF n, u
  <1>4. u \in [Fps -> Nat] /\ \A f \in Fps : u[f] <= n
    BY <1>1, <1>2, <1>3
  <1>5. \A f \in Fps : u[f] # 0 <=> table2[f] # None
    BY <1>1, <1>2 DEF Numbers
  <1>6. ASSUME NEW f \in LiveIn(table2), NEW g \in LiveIn(table2), u[f] = u[g]
        PROVE  f = g
    <2>1. f \in Fps /\ g \in Fps /\ table2[f] # None /\ table2[g] # None
      BY DEF LiveIn
    <2>2. CASE table[f] = None
      <3>1. f = id /\ u[f] = n
        BY <1>2, <2>1, <2>2
      <3>2. table[g] = None
        BY <1>1, <1>2, <1>6, <2>1, <3>1
      <3> QED
        BY <2>1, <3>1, <3>2
    <2>3. CASE table[f] # None
      <3>1. u[f] = t[f] /\ t[f] # n
        BY <1>1, <1>2, <2>1, <2>3
      <3>2. table[g] # None /\ u[g] = t[g]
        BY <1>2, <1>6, <2>1, <3>1
      <3> QED
        BY <1>6, <2>1, <2>3, <3>1, <3>2 DEF Numbers, LiveIn
    <2> QED
      BY <2>2, <2>3
  <1>7. Numbers(table2, u)
    BY <1>1, <1>4, <1>5, <1>6 DEF Numbers
  <1> QED
    BY <1>7 DEF u, n

LEMMA SaveKeepsIds ==
    ASSUME Database, IdInv, SaveWithVenue,
           txids' = [f \in Fps |-> IF tx'.rows[f] = None THEN 0
                                  ELSE IF tx.rows[f] = None THEN NextId(txids) ELSE txids[f]]
    PROVE  tx # None /\ tx' # None /\ Numbers(tx'.rows, txids')
  <1> DEFINE e == Current(tx)
  <1>1. tx # None /\ Numbers(tx.rows, txids)
    BY DEF SaveWithVenue, Insert, Update, IdInv
  <1>2. \E id \in Fps :
            /\ \A f \in Fps \ {id} : tx'.rows[f] = None \/ tx'.rows[f] = tx.rows[f]
            /\ tx'.rows[id] # None
    <2>1. tx \in Tx /\ e \in Event /\ tx.stamp \in Nat
      BY CurrentEvent DEF SaveWithVenue, Insert, Update, Database, DbInv, Tx
    <2>2. CASE Insert
      <3>1. e.fp \in Fps /\ tx'.rows = [tx.rows EXCEPT ![e.fp] = Fresh(tx, e)]
        BY <2>2, InsertStep DEF Database, DbInv
      <3>2. Fresh(tx, e) # None
        BY <2>1, <3>1, SaveTypes, NoneAssumption
      <3> HIDE DEF e
      <3> QED
        BY <2>1, <3>1, <3>2 DEF Tx
    <2>3. CASE Update
      <3>1. PICK id \in Found(tx, e) :
              id \in Fps /\ tx.rows[id] \in Row /\ tx'.rows = MergedRows(tx, e, id)
        BY <2>3, UpdateStep DEF Database, DbInv
      <3>2. Updated(tx, e, tx.rows[id]) # None
        <4>1. StatusFor(e.group) \in Status /\ e.group \in Groups /\ e.start \in Starts
          BY <2>1 DEF StatusFor, Status, Event
        <4> QED
          BY <2>1, <3>1, <4>1, NoneAssumption DEF Updated, Row
      <3> HIDE DEF e
      <3> QED
        BY <3>1, <3>2 DEF MergedRows
    <2> QED
      BY <2>2, <2>3 DEF SaveWithVenue
  <1>3. tx' # None
    BY InsertStep, UpdateStep, NoTxAssumption DEF SaveWithVenue, Database, DbInv
  <1> QED
    BY <1>1, <1>2, <1>3, SaveNumbers

LEMMA IdInvInit == ApiInit => IdInv
  <1> SUFFICES ASSUME ApiInit
               PROVE  IdInv
    OBVIOUS
  <1>1. \A f \in Fps : ids[f] = 0 /\ rows[f] = None
    BY DEF ApiInit, Init
  <1>2. ids \in [Fps -> Nat] /\ LiveIn(rows) = {}
    BY <1>1 DEF ApiInit, LiveIn
  <1>3. Numbers(rows, ids)
    BY <1>1, <1>2 DEF Numbers
  <1> QED
    BY <1>3 DEF ApiInit, Init, IdInv

LEMMA IdInvStep == Database /\ IdInv /\ [ApiNext]_allvars => IdInv'
  <1> SUFFICES ASSUME Database, IdInv, [ApiNext]_allvars
               PROVE  IdInv'
    OBVIOUS
  <1>1. CASE UNCHANGED <<rows, tx, ids, txids>>
    BY <1>1 DEF IdInv, Numbers, LiveIn
  <1>2. ASSUME BeginAfterMirror, UNCHANGED <<ids, txids>>
        PROVE  IdInv'
    <2>1. PICK b \in Batches : SaveBegin(b)
      BY <1>2 DEF BeginAfterMirror
    <2>2. tx = None /\ rows' = rows /\ tx' \in Tx /\ tx'.rows = rows
      BY <2>1, BeginStep DEF SaveBegin, Database, DbInv
    <2>3. tx' # None
      BY <2>2, NoTxAssumption
    <2> QED
      BY <1>2, <2>2, <2>3 DEF IdInv, Numbers, LiveIn
  <1>3. ASSUME SaveWithVenue, UNCHANGED ids,
               txids' = [f \in Fps |-> IF tx'.rows[f] = None THEN 0
                                      ELSE IF tx.rows[f] = None THEN NextId(txids) ELSE txids[f]]
        PROVE  IdInv'
    <2>1. tx # None /\ tx' # None /\ Numbers(tx'.rows, txids')
      BY <1>3, SaveKeepsIds
    <2>2. UNCHANGED rows
      BY <1>3 DEF SaveWithVenue, Insert, Update
    <2> QED
      BY <1>3, <2>1, <2>2 DEF IdInv, Numbers, LiveIn
  <1>4. ASSUME CommitVenues, ids' = txids, UNCHANGED txids
        PROVE  IdInv'
    <2>1. tx # None /\ rows' = tx.rows /\ tx' = None
      BY <1>4 DEF CommitVenues, Commit
    <2> QED
      BY <1>4, <2>1 DEF IdInv, Numbers, LiveIn
  <1>5. ASSUME RollbackVenues, txids' = ids, UNCHANGED ids
        PROVE  IdInv'
    <2>1. tx' = None /\ UNCHANGED rows
      BY <1>5 DEF RollbackVenues, Rollback
    <2> QED
      BY <1>5, <2>1 DEF IdInv, Numbers, LiveIn
  <1>6. ASSUME NEW reg \in Registries, MirrorVenues(reg)
        PROVE  UNCHANGED <<rows, tx>>
    BY <1>6 DEF MirrorVenues, SyncRegistry
  <1>7. Tick => UNCHANGED <<rows, tx>>
    BY DEF Tick
  <1> QED
    BY <1>1, <1>2, <1>3, <1>4, <1>5, <1>6, <1>7 DEF ApiNext, Write, allvars, sqlite, vars

----------------------------------------------------------------------------
(* The requests                                                            *)

(* What a request has been given stays true of the database: nothing it    *)
(* lists is newer than the last sync or of a group that is not there.      *)
Known(e) == e.last <= LastSynced(rows) /\ groups[e.group] # "absent"

Has(c, s) ==
    /\ req[c].at \in {"asking", "reading", "served"}
    /\ req[c].step > s \/ (req[c].step = s /\ req[c].at # "asking")

HttpTypes ==
    /\ req \in [Clients -> Request]
    /\ conn \in Clients \cup {None}
    /\ server \in {"up", "draining", "closed", "exited"}
    /\ cut \in BOOLEAN

Answering(c) ==
    /\ \A e \in req[c].events : Known(e)
    /\ req[c].at = "idle" => req[c].step = 1
    /\ Served(c) => req[c].step = 4
    /\ Has(c, 3) => \A e \in req[c].events : e.group \in req[c].named
    /\ Has(c, 4) => \A e \in req[c].events : e.last <= req[c].generated

ReqInv == HttpTypes /\ \A c \in Clients : Answering(c)

LEMMA KnownStays ==
    ASSUME Database, [ApiNext]_allvars, NEW e \in Listed, Known(e)
    PROVE  Known(e)'
  <1>1. LastSynced(rows) \in Nat /\ LastSynced(rows') \in Nat
    <2>1. Database'
      BY DatabaseStep
    <2>2. /\ rows' \in [Fps -> Row \cup {None}]
          /\ LiveIn(rows') = {} \/ \E t \in Nat : Newest(rows', t)
      BY <2>1 DEF Database, DbInv, TypeOK, TimeInv
    <2> QED
      BY <2>2, LastSyncedType, TableSynced
  <1>2. e.last \in Nat /\ e.group \in Groups
    BY DEF Listed
  <1>3. groups[e.group] # "absent" => groups'[e.group] # "absent"
    BY <1>2, GroupsStay, ApiStepIsNext DEF Database
  <1> QED
    BY <1>1, <1>2, <1>3, LastSyncedGrows DEF Known

LEMMA ListedType ==
    ASSUME Database, IdInv, NEW from
    PROVE  ListedRows(from) \subseteq Listed /\ \A e \in ListedRows(from) : Known(e)
  <1> SUFFICES ASSUME NEW f \in Upcoming(from)
               PROVE  LET e == [fp |-> f, id |-> ids[f], last |-> rows[f].last,
                                group |-> rows[f].group, carried |-> Carriers(f)]
                      IN  e \in Listed /\ Known(e)
    BY DEF ListedRows
  <1>1. f \in LiveIn(rows) /\ f \in Fps /\ rows[f] # None
    BY DEF Upcoming, LiveIn
  <1>2. rows[f] \in Row
    BY <1>1 DEF Database, DbInv, TypeOK
  <1>3. ids[f] \in Nat \ {0}
    BY <1>1 DEF IdInv, Numbers
  <1>4. Carriers(f) \subseteq Fps
    BY DEF Carriers
  <1>5. rows[f].last <= LastSynced(rows)
    BY <1>1, LastSyncedType
  <1>6. groups[rows[f].group] # "absent"
    BY <1>1 DEF Database, ForeignKey, Grouped
  <1> QED
    BY <1>1, <1>2, <1>3, <1>4, <1>5, <1>6 DEF Listed, Row, Known

LEMMA GeneratedCovers ==
    ASSUME Database, NEW from \in Nat
    PROVE  Generated(from) \in Nat /\ (\A e \in Listed : Known(e) => e.last <= Generated(from))
  <1>1. LastSynced(rows) \in Nat
    BY LastSyncedType
  <1>2. CASE LastSynced(rows) = 0
    BY <1>1, <1>2 DEF Generated, Known, Listed
  <1>3. CASE LastSynced(rows) # 0
    BY <1>1, <1>3 DEF Generated, Known
  <1> QED
    BY <1>2, <1>3

(* What each statement adds to its request.                                *)
LEMMA WithReadStep ==
    ASSUME Database, IdInv, NEW r \in Request
    PROVE  LET q == WithRead(r) IN
           /\ q \in Request /\ q.at = r.at /\ q.step = r.step /\ q.from = r.from
           /\ r.step = 1 => \A e \in q.events : Known(e)
           /\ r.step # 1 => q.events = r.events
           /\ r.step = 3 => q.named = {g \in Groups : groups[g] # "absent"}
           /\ r.step # 3 => q.named = r.named
           /\ r.step = 4 => q.generated = Generated(r.from)
  <1> DEFINE q == WithRead(r)
  <1>1. r.step \in 1 .. 4 /\ r.from \in Nat
    BY DEF Request
  <1>2. CASE r.step = 1
    <2>1. q = [r EXCEPT !.events = ListedRows(r.from)]
      BY <1>2 DEF WithRead, Order
    <2> QED
      BY <1>2, <2>1, ListedType DEF Request
  <1>3. CASE r.step = 2
    <2>1. q = [r EXCEPT !.sources = AttachedSources(r.events)]
      BY <1>3 DEF WithRead, Order
    <2>2. AttachedSources(r.events) \in [Fps -> SUBSET Fps]
      BY DEF AttachedSources, Carriers
    <2> QED
      BY <1>3, <2>1, <2>2 DEF Request
  <1>4. CASE r.step = 3
    <2>1. q = [r EXCEPT !.named = {g \in Groups : groups[g] # "absent"}]
      BY <1>4 DEF WithRead, Order
    <2> QED
      BY <1>4, <2>1 DEF Request
  <1>5. CASE r.step = 4
    <2>1. q = [r EXCEPT !.generated = Generated(r.from)]
      BY <1>5 DEF WithRead, Order
    <2>2. Generated(r.from) \in Nat
      BY <1>1, GeneratedCovers
    <2> QED
      BY <1>5, <2>1, <2>2 DEF Request
  <1> QED
    BY <1>1, <1>2, <1>3, <1>4, <1>5

LEMMA ReqInvInit == ApiInit => ReqInv
  <1> SUFFICES ASSUME ApiInit
               PROVE  ReqInv
    OBVIOUS
  <1>1. Unsent \in Request
    BY DEF Unsent, Request
  <1>2. \A c \in Clients : req[c] = Unsent
    BY DEF ApiInit
  <1>3. HttpTypes
    BY <1>1 DEF ApiInit, HttpTypes
  <1>4. \A c \in Clients : Answering(c)
    BY <1>2 DEF Unsent, Answering, Has, Served
  <1> QED
    BY <1>3, <1>4 DEF ReqInv

(* A request that is left alone keeps what it was promised.                *)
LEMMA LeftAlone ==
    ASSUME Database, ReqInv, [ApiNext]_allvars, NEW c \in Clients, req'[c] = req[c]
    PROVE  Answering(c)'
  <1>1. req[c] \in Request
    BY DEF ReqInv, HttpTypes
  <1>2. req[c].events \subseteq Listed
    BY <1>1 DEF Request
  <1>3. \A e \in req[c].events : Known(e)'
    BY <1>2, KnownStays DEF ReqInv, Answering
  <1> QED
    BY <1>3 DEF ReqInv, Answering, Has, Served

(* One that gives up, is answered, or goes on keeps it too.                *)
LEMMA GoesOn ==
    ASSUME Database, ReqInv, [ApiNext]_allvars, NEW c \in Clients, NEW a, NEW s,
           req'[c] = [req[c] EXCEPT !.at = a, !.step = s],
           \/ a \in {"failed", "dropped"}
           \/ req[c].at = "idle" /\ a = "asking" /\ s = 1
           \/ req[c].at = "reading" /\ a = "served" /\ s = 4 /\ req[c].step = 4
           \/ req[c].at = "reading" /\ a = "asking" /\ s = req[c].step + 1
    PROVE  Answering(c)'
  <1> DEFINE r == req[c]
             q == req'[c]
  <1>1. r \in Request
    BY DEF ReqInv, HttpTypes
  <1>2. /\ q.at = a /\ q.step = s /\ q.events = r.events /\ q.named = r.named
        /\ q.generated = r.generated /\ r.step \in 1 .. 4 /\ r.events \subseteq Listed
    BY <1>1 DEF Request
  <1>3. Answering(c)
    BY DEF ReqInv
  <1>4. \A e \in q.events : Known(e)'
    BY <1>2, <1>3, KnownStays DEF Answering
  <1>5. \A k \in {3, 4} : Has(c, k)' => Has(c, k)
    BY <1>2 DEF Has
  <1>6. (q.at = "idle" => q.step = 1) /\ (q.at = "served" => q.step = 4)
    BY <1>2
  <1> QED
    BY <1>2, <1>3, <1>4, <1>5, <1>6 DEF Answering, Served

LEMMA QueryStep ==
    ASSUME Database, IdInv, ReqInv, NEW c \in Clients, Query(c), UNCHANGED sqlite
    PROVE  req'[c] \in Request /\ req'[c].at = "reading" /\ Answering(c)'
  <1> DEFINE r == req[c]
             q == WithRead(r)
  <1>1. r \in Request /\ r.at = "asking" /\ r.step \in 1 .. 4 /\ r.from \in Nat
    BY DEF ReqInv, HttpTypes, Query, Request
  <1>2. /\ q \in Request /\ q.step = r.step
        /\ r.step = 1 => \A e \in q.events : Known(e)
        /\ r.step # 1 => q.events = r.events
        /\ r.step = 3 => q.named = {g \in Groups : groups[g] # "absent"}
        /\ r.step # 3 => q.named = r.named
        /\ r.step = 4 => q.generated = Generated(r.from)
    BY <1>1, WithReadStep
  <1>3. req'[c] = [q EXCEPT !.at = "reading"]
    BY DEF ReqInv, HttpTypes, Query
  <1> HIDE DEF q
  <1>4. /\ req'[c] \in Request /\ req'[c].at = "reading" /\ req'[c].step = r.step
        /\ req'[c].events = q.events /\ req'[c].named = q.named
        /\ req'[c].generated = q.generated /\ q.events \subseteq Listed
    BY <1>2, <1>3 DEF Request
  <1>5. Answering(c)
    BY DEF ReqInv
  <1>6. \A e \in q.events : Known(e)
    BY <1>2, <1>5 DEF Answering
  <1>7. \A e : Known(e)' <=> Known(e)
    BY DEF Known, sqlite, vars
  <1>8. ASSUME Has(c, 3)'
        PROVE  \A e \in q.events : e.group \in q.named
    <2>1. r.step \in {3, 4}
      BY <1>1, <1>4, <1>8 DEF Has
    <2>2. CASE r.step = 3
      BY <1>2, <1>4, <1>6, <2>2 DEF Known, Listed
    <2>3. CASE r.step = 4
      <3>1. Has(c, 3)
        BY <1>1, <2>3 DEF Has
      <3> QED
        BY <1>2, <1>5, <2>3, <3>1 DEF Answering
    <2> QED
      BY <2>1, <2>2, <2>3
  <1>9. ASSUME Has(c, 4)'
        PROVE  \A e \in q.events : e.last <= q.generated
    <2>1. r.step = 4
      BY <1>1, <1>4, <1>9 DEF Has
    <2> QED
      BY <1>1, <1>2, <1>4, <1>6, <2>1, GeneratedCovers
  <1> QED
    BY <1>4, <1>6, <1>7, <1>8, <1>9 DEF Answering, Served

LEMMA ReqInvStep == Database /\ IdInv /\ ReqInv /\ [ApiNext]_allvars => ReqInv'
  <1> SUFFICES ASSUME Database, IdInv, ReqInv, [ApiNext]_allvars
               PROVE  ReqInv'
    OBVIOUS
  <1>1. CASE UNCHANGED http
    BY <1>1, LeftAlone DEF ReqInv, HttpTypes, http
  <1> SUFFICES ASSUME ServerNext, UNCHANGED sqlite
               PROVE  ReqInv'
    BY <1>1 DEF ApiNext, allvars
  <1> USE DEF HttpTypes
  <1>2. ASSUME NEW c \in Clients, Arrive(c)
        PROVE  ReqInv'
    <2>1. req[c] \in Request /\ req[c].at = "idle" /\ now \in Nat
      BY <1>2 DEF Arrive, ReqInv, Database, DbInv, TypeOK
    <2>2. /\ req' = [req EXCEPT ![c] = [[@ EXCEPT !.at = "asking"] EXCEPT !.from = now]]
          /\ UNCHANGED <<conn, server, cut>>
      BY <1>2 DEF Arrive
    <2>3. HttpTypes'
      BY <2>1, <2>2 DEF ReqInv, Request
    <2>4. Answering(c)'
      <3>1. /\ req'[c].at = "asking" /\ req'[c].step = 1 /\ req'[c].events = req[c].events
            /\ req[c].events \subseteq Listed
        BY <2>1, <2>2 DEF ReqInv, Answering, Request
      <3>2. \A e \in req[c].events : Known(e)'
        BY <3>1, KnownStays DEF ReqInv, Answering
      <3> QED
        BY <3>1, <3>2 DEF Answering, Has, Served
    <2> QED
      BY <2>2, <2>3, <2>4, LeftAlone DEF ReqInv
  <1>3. ASSUME NEW c \in Clients, Query(c)
        PROVE  ReqInv'
    <2>1. req'[c] \in Request /\ Answering(c)'
      BY <1>3, QueryStep
    <2>2. /\ \A d \in Clients \ {c} : req'[d] = req[d]
          /\ req' = [d \in Clients |-> req'[d]]
          /\ conn' = c /\ UNCHANGED <<server, cut>>
      BY <1>3 DEF Query, ReqInv
    <2>3. HttpTypes'
      BY <2>1, <2>2 DEF ReqInv
    <2> QED
      BY <2>1, <2>2, <2>3, LeftAlone DEF ReqInv
  <1>4. ASSUME NEW c \in Clients, Close(c)
        PROVE  ReqInv'
    <2>1. req[c] \in Request /\ req[c].at = "reading" /\ req[c].step \in 1 .. 4
      BY <1>4 DEF Close, ReqInv, Request
    <2>2. Len(Order) = 4
      BY DEF Order
    <2>3. /\ req' = [req EXCEPT ![c] = IF req[c].step = 4 THEN [req[c] EXCEPT !.at = "served"]
                        ELSE [req[c] EXCEPT !.at = "asking", !.step = req[c].step + 1]]
          /\ conn' = None /\ UNCHANGED <<server, cut>>
      BY <1>4, <2>2 DEF Close, After
    <2>4. /\ \A d \in Clients \ {c} : req'[d] = req[d]
          /\ req' = [d \in Clients |-> req'[d]]
          /\ req[c].step = 4 => req'[c] = [req[c] EXCEPT !.at = "served"]
          /\ req[c].step # 4 => req'[c] = [req[c] EXCEPT !.at = "asking", !.step = req[c].step + 1]
      BY <2>3 DEF ReqInv
    <2>5. CASE req[c].step = 4
      <3>1. req'[c] = [req[c] EXCEPT !.at = "served", !.step = req[c].step] /\ req'[c] \in Request
        BY <2>1, <2>4, <2>5 DEF Request
      <3>2. Answering(c)'
        BY <2>1, <2>5, <3>1, GoesOn
      <3> QED
        BY <2>3, <2>4, <3>1, <3>2, LeftAlone DEF ReqInv
    <2>6. CASE req[c].step # 4
      <3>1. req[c].step + 1 \in 1 .. 4
        BY <2>1, <2>6
      <3>2. req'[c] \in Request
        BY <2>1, <2>4, <2>6, <3>1 DEF Request
      <3>3. Answering(c)'
        BY <2>1, <2>4, <2>6, GoesOn
      <3> QED
        BY <2>3, <2>4, <3>2, <3>3, LeftAlone DEF ReqInv
    <2> QED
      BY <2>5, <2>6
  <1>5. ASSUME NEW c \in Clients, ReadFails(c)
        PROVE  ReqInv'
    <2>1. req[c] \in Request
      BY DEF ReqInv
    <2>2. /\ req'[c] = [req[c] EXCEPT !.at = "failed"]
          /\ \A d \in Clients \ {c} : req'[d] = req[d]
          /\ req' = [d \in Clients |-> req'[d]]
          /\ conn' = None /\ UNCHANGED <<server, cut>>
      BY <1>5 DEF ReadFails, ReqInv
    <2>3. req'[c] = [req[c] EXCEPT !.at = "failed", !.step = req[c].step] /\ req'[c] \in Request
      BY <2>1, <2>2 DEF Request
    <2>4. Answering(c)'
      BY <2>3, GoesOn
    <2> QED
      BY <2>2, <2>3, <2>4, LeftAlone DEF ReqInv
  <1>6. CASE Signal \/ Drained \/ GiveUp
    BY <1>6, LeftAlone DEF Signal, Drained, GiveUp, ReqInv
  <1>7. CASE Exit
    <2>1. /\ req' = [d \in Clients |-> IF InFlight(d) THEN [req[d] EXCEPT !.at = "dropped"] ELSE req[d]]
          /\ conn' = None /\ server' = "exited" /\ UNCHANGED cut
      BY <1>7 DEF Exit
    <2>2. ASSUME NEW d \in Clients
          PROVE  req'[d] \in Request /\ Answering(d)'
      <3>1. req[d] \in Request
        BY DEF ReqInv
      <3>2. CASE InFlight(d)
        <4>1. req'[d] = [req[d] EXCEPT !.at = "dropped", !.step = req[d].step] /\ req'[d] \in Request
          BY <2>1, <3>1, <3>2 DEF Request
        <4> QED
          BY <4>1, GoesOn
      <3>3. CASE ~InFlight(d)
        BY <2>1, <3>1, <3>3, LeftAlone
      <3> QED
        BY <3>2, <3>3
    <2> QED
      BY <2>1, <2>2 DEF ReqInv
  <1> QED
    BY <1>2, <1>3, <1>4, <1>5, <1>6, <1>7 DEF ServerNext, Handle

ApiInv == Database /\ IdInv /\ ReqInv

LEMMA ApiInvInvariant == ApiSpec => []ApiInv
  BY DatabaseInit, IdInvInit, ReqInvInit, DatabaseStep, IdInvStep, ReqInvStep, PTL
     DEF ApiSpec, ApiInv

(* Every request has its type and every row an id of its own, also while   *)
(* a sync deletes rows and gives their ids to others.                      *)
THEOREM ApiTypeCorrect == ApiSpec => []ApiTypeOK
  <1>1. ApiInv => ApiTypeOK
    <2> SUFFICES ASSUME ApiInv
                 PROVE  ApiTypeOK
      OBVIOUS
    <2>1. ids \in [Fps -> Nat] /\ txids \in [Fps -> Nat]
      BY DEF ApiInv, IdInv, Numbers
    <2> QED
      BY <2>1 DEF ApiInv, IdInv, Numbers, ReqInv, HttpTypes, ApiTypeOK
  <1> QED
    BY <1>1, ApiInvInvariant, PTL

(* No response is older than its date says, wherever between its reads the *)
(* syncs commit.                                                           *)
THEOREM StampCorrect == ApiSpec => []StampCovers
  <1>1. ApiInv => StampCovers
    BY DEF ApiInv, ReqInv, Answering, Served, Has, StampCovers
  <1> QED
    BY <1>1, ApiInvInvariant, PTL

(* No response has an event whose group it cannot name, because the groups *)
(* are read after the events and never lose one.                           *)
THEOREM NamedCorrect == ApiSpec => []GroupsNamed
  <1>1. ApiInv => GroupsNamed
    BY DEF ApiInv, ReqInv, Answering, Served, Has, GroupsNamed
  <1> QED
    BY <1>1, ApiInvInvariant, PTL

DrainInv ==
    /\ DrainedFirst
    /\ \A c \in Clients : req[c].at = "dropped" => cut

LEMMA DrainInvStep == ApiInv /\ DrainInv /\ [ApiNext]_allvars => DrainInv'
  <1> SUFFICES ASSUME Database, IdInv, ReqInv, DrainInv, [ApiNext]_allvars
               PROVE  DrainInv'
    BY DEF ApiInv
  <1> USE DEF InFlight
  <1>1. req \in [Clients -> Request] /\ req' \in [Clients -> Request]
    BY ReqInvStep DEF ReqInv, HttpTypes
  <1>2. \A c \in Clients : req[c].at = "dropped" => cut
    BY DEF DrainInv
  <1>3. server \in {"closed", "exited"} => \A c \in Clients : InFlight(c) => cut
    BY DEF DrainInv, DrainedFirst
  <1>4. CASE UNCHANGED http
    BY <1>4 DEF DrainInv, DrainedFirst, http
  <1>5. ASSUME NEW c \in Clients, Arrive(c) \/ Handle(c), UNCHANGED sqlite
        PROVE  DrainInv'
    <2>1. /\ UNCHANGED <<server, cut>>
          /\ \A d \in Clients : req'[d] = req[d] \/ d = c
      BY <1>1, <1>5 DEF Arrive, Handle, Query, Close, ReadFails
    <2>2. /\ req'[c].at # "dropped"
          /\ req'[c].at \in {"asking", "reading"} => InFlight(c) \/ server = "up"
      <3>1. req[c] \in Request
        BY <1>1
      <3>2. CASE Arrive(c)
        BY <1>1, <3>1, <3>2 DEF Arrive, Request
      <3>3. CASE Query(c)
        <4>1. req'[c].at = "reading" /\ InFlight(c)
          BY <1>5, <3>3, QueryStep DEF Query
        <4> QED
          BY <4>1
      <3>4. CASE Close(c)
        <4>1. req'[c].at \in {"served", "asking"} /\ InFlight(c)
          BY <1>1, <3>1, <3>4 DEF Close, Request
        <4> QED
          BY <4>1
      <3>5. CASE ReadFails(c)
        <4>1. req'[c].at = "failed"
          BY <1>1, <3>1, <3>5 DEF ReadFails, Request
        <4> QED
          BY <4>1
      <3> QED
        BY <1>5, <3>2, <3>3, <3>4, <3>5 DEF Handle
    <2> QED
      BY <1>1, <1>2, <1>3, <2>1, <2>2 DEF DrainInv, DrainedFirst
  <1>6. CASE Signal \/ Drained \/ GiveUp
    BY <1>1, <1>2, <1>3, <1>6 DEF Signal, Drained, GiveUp, DrainInv, DrainedFirst
  <1>7. CASE Exit
    <2>1. server = "closed" /\ UNCHANGED cut
      BY <1>7 DEF Exit
    <2>2. \A d \in Clients : req'[d] = IF InFlight(d) THEN [req[d] EXCEPT !.at = "dropped"] ELSE req[d]
      BY <1>7 DEF Exit
    <2>3. \A d \in Clients : req'[d].at \in {"asking", "reading", "dropped"} => cut
      BY <1>1, <1>2, <1>3, <2>1, <2>2 DEF Request
    <2> QED
      BY <1>1, <2>1, <2>3 DEF DrainInv, DrainedFirst
  <1> QED
    BY <1>4, <1>5, <1>6, <1>7 DEF ApiNext, ServerNext, allvars, sqlite

(* Requests are cut off only by a server that gave up waiting for them,    *)
(* however many it was answering when it was told to stop.                 *)
THEOREM DrainedCorrect == ApiSpec => []DrainedFirst
  <1>1. ApiInit => DrainInv
    <2> SUFFICES ASSUME ApiInit
                 PROVE  DrainInv
      OBVIOUS
    <2>1. \A c \in Clients : req[c].at = "idle"
      BY DEF ApiInit, Unsent
    <2> QED
      BY <2>1 DEF ApiInit, DrainInv, DrainedFirst
  <1>2. ApiSpec => []DrainInv
    BY <1>1, DrainInvStep, ApiInvInvariant, PTL DEF ApiSpec, ApiInv
  <1>3. DrainInv => DrainedFirst
    BY DEF DrainInv
  <1> QED
    BY <1>2, <1>3, PTL

LEMMA OneReaderStep == ApiInv /\ OneReader /\ [ApiNext]_allvars => OneReader'
  <1> SUFFICES ASSUME Database, IdInv, ReqInv, OneReader, [ApiNext]_allvars
               PROVE  OneReader'
    BY DEF ApiInv
  <1>1. req \in [Clients -> Request] /\ conn \in Clients \cup {None} /\ None \notin Clients
    BY ClientsAssumption DEF ReqInv, HttpTypes
  <1>2. CASE UNCHANGED http
    BY <1>2 DEF OneReader, http
  <1>3. ASSUME NEW c \in Clients, Arrive(c)
        PROVE  OneReader'
    <2>1. req[c].at = "idle" /\ req'[c].at = "asking" /\ conn' = conn
      BY <1>1, <1>3 DEF Arrive, Request
    <2>2. \A d \in Clients \ {c} : req'[d] = req[d]
      BY <1>1, <1>3 DEF Arrive
    <2> QED
      BY <2>1, <2>2 DEF OneReader
  <1>4. ASSUME NEW c \in Clients, Query(c), UNCHANGED sqlite
        PROVE  OneReader'
    <2>1. conn = None /\ conn' = c /\ req'[c].at = "reading"
      BY <1>4, QueryStep DEF Query
    <2>2. \A d \in Clients \ {c} : req'[d] = req[d]
      BY <1>1, <1>4 DEF Query
    <2> QED
      BY <1>1, <2>1, <2>2 DEF OneReader
  <1>5. ASSUME NEW c \in Clients, Close(c) \/ ReadFails(c)
        PROVE  OneReader'
    <2>1. (conn = c \/ conn = None) /\ conn' = None
      BY <1>1, <1>5 DEF Close, ReadFails, After, InFlight, OneReader
    <2>2. req'[c].at # "reading"
      <3>1. req[c] \in Request
        BY <1>1
      <3>2. CASE Close(c)
        <4>1. req'[c].at \in {"served", "asking"}
          BY <1>1, <3>1, <3>2 DEF Close, Request
        <4> QED
          BY <4>1
      <3>3. CASE ReadFails(c)
        <4>1. req'[c].at = "failed"
          BY <1>1, <3>1, <3>3 DEF ReadFails, Request
        <4> QED
          BY <4>1
      <3> QED
        BY <1>5, <3>2, <3>3
    <2>3. \A d \in Clients \ {c} : req'[d] = req[d]
      BY <1>1, <1>5 DEF Close, ReadFails
    <2> QED
      BY <1>1, <2>1, <2>2, <2>3 DEF OneReader
  <1>6. CASE Signal \/ Drained \/ GiveUp
    BY <1>6 DEF Signal, Drained, GiveUp, OneReader
  <1>7. CASE Exit
    <2>1. conn' = None
      BY <1>7 DEF Exit
    <2>2. \A d \in Clients : req'[d] = IF InFlight(d) THEN [req[d] EXCEPT !.at = "dropped"] ELSE req[d]
      BY <1>7 DEF Exit
    <2>3. \A d \in Clients : req'[d].at # "reading"
      BY <1>1, <2>2 DEF InFlight, Request
    <2> QED
      BY <1>1, <2>1, <2>3 DEF OneReader
  <1> QED
    BY <1>2, <1>3, <1>4, <1>5, <1>6, <1>7 DEF ApiNext, ServerNext, Handle, allvars

(* However many requests want the one connection, at most one has it, and  *)
(* that one is reading its rows.                                           *)
THEOREM OneReaderCorrect == ApiSpec => []OneReader
  <1>1. ApiInit => OneReader
    <2> SUFFICES ASSUME ApiInit
                 PROVE  OneReader
      OBVIOUS
    <2>1. conn = None /\ \A c \in Clients : req[c].at = "idle"
      BY DEF ApiInit, Unsent
    <2> QED
      BY <2>1, ClientsAssumption DEF OneReader
  <1> QED
    BY <1>1, OneReaderStep, ApiInvInvariant, PTL DEF ApiSpec, ApiInv
=============================================================================
