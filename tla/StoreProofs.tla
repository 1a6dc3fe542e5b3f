---------------------------- MODULE StoreProofs ----------------------------
(* Store, proved for every set of fingerprints, groups, registries and     *)
(* batches that meets the assumptions of that module; and that it          *)
(* implements Catalogue: the tables, the cascade and the transaction       *)
(* amount to a set of entries and one step per run.                        *)
EXTENDS Store, FiniteSetTheorems, SequenceTheorems, WellFoundedInduction, TLAPS

(* The event SaveEvents is about to write is one of its batch, and an      *)
(* Event.                                                                  *)
LEMMA CurrentEvent ==
    ASSUME TypeOK, tx # None, tx.done < Len(tx.batch)
    PROVE  /\ tx \in Tx
           /\ tx.done + 1 \in DOMAIN tx.batch
           /\ Current(tx) \in Event
           /\ Current(tx) = tx.batch[tx.done + 1]
           /\ BatchOK(tx.batch)
  <1>1. tx \in Tx /\ BatchOK(tx.batch) /\ tx.done \in 0 .. Len(tx.batch)
    BY DEF TypeOK
  <1>2. tx.batch \in Seq(Event)
    BY <1>1 DEF Tx
  <1>3. tx.done + 1 \in DOMAIN tx.batch
    BY <1>1, <1>2
  <1> QED
    BY <1>1, <1>2, <1>3 DEF Current

LEMMA FingerprintsType ==
    ASSUME NEW e \in Event
    PROVE  Fingerprints(e) \subseteq Fps
  <1>1. e.recs \in Seq(Record)
    BY DEF Event
  <1>2. \A i \in DOMAIN e.recs : e.recs[i] \in Record
    BY <1>1
  <1> QED
    BY <1>2 DEF Fingerprints, Record

Least(T) == \E m \in T : \A k \in T : m <= k

(* A nonempty set of numbers has a least one.                              *)
LEMMA LeastExists ==
    ASSUME NEW T \in SUBSET Nat, T # {}
    PROVE  Least(T)
  <1> DEFINE R == OpToRel(<, Nat)
  <1>1. IsWellFoundedOn(R, Nat)
    BY NatLessThanWellFounded
  <1>2. \A x, y \in Nat : <<x, y>> \in R <=> x < y
    BY DEF OpToRel
  <1> HIDE DEF R
  <1>3. PICK m \in T : \A y \in T : ~ (<<y, m>> \in R)
    BY <1>1, WFMin
  <1>4. \A y \in T : ~ (y < m)
    BY <1>2, <1>3
  <1> QED
    BY <1>4 DEF Least

(* The image of a finite set under a function is finite.                   *)
LEMMA ImageFinite ==
    ASSUME NEW S, IsFiniteSet(S), NEW fun, DOMAIN fun = S
    PROVE  IsFiniteSet({fun[x] : x \in S})
  <1> DEFINE T == {fun[x] : x \in S}
             g == [x \in S |-> fun[x]]
  <1>1. g \in Surjection(S, T)
    BY DEF Surjection
  <1> QED
    BY <1>1, FS_Surjection

(* An event has finitely many records, so a merge joins finitely many rows.*)
LEMMA FoundFinite ==
    ASSUME NEW t, NEW e \in Event
    PROVE  IsFiniteSet(Found(t, e))
  <1>1. IsFiniteSet(DOMAIN e.recs)
    <2>1. DOMAIN e.recs = 1 .. Len(e.recs) /\ Len(e.recs) \in Nat
      BY DEF Event
    <2>2. Len(e.recs) \in Int /\ 1 \in Int
      BY <2>1
    <2>3. IsFiniteSet(1 .. Len(e.recs))
      BY <2>2, FS_Interval
    <2> QED
      BY <2>1, <2>3
  <1> DEFINE owners == [i \in DOMAIN e.recs |-> t.owner[e.recs[i].fp]]
  <1>2. IsFiniteSet({owners[i] : i \in DOMAIN e.recs})
    BY <1>1, ImageFinite
  <1>3. Found(t, e) \subseteq {owners[i] : i \in DOMAIN e.recs}
    BY DEF Found, Fingerprints
  <1> QED
    BY <1>2, <1>3, FS_Subset

LEMMA MergedCount ==
    ASSUME NEW t, NEW e \in Event, NEW id \in Found(t, e)
    PROVE  Cardinality(Found(t, e)) - 1 \in Nat
  <1>1. IsFiniteSet(Found(t, e))
    BY FoundFinite
  <1>2. Cardinality(Found(t, e)) \in Nat /\ Cardinality(Found(t, e)) # 0
    BY <1>1, FS_CardinalityType, FS_EmptySet
  <1> QED
    BY <1>2

(* What the operators of a save build keeps the tables' types.             *)
LEMMA SaveTypes ==
    ASSUME NEW t \in Tx, t.stamp \in Nat, NEW e \in Event, NEW id \in Fps
    PROVE  /\ Fresh(t, e) \in Row
           /\ Reown(t, e, id) \in [Fps -> Fps \cup {None}]
           /\ t.rows[id] # None => MergedRows(t, e, id) \in [Fps -> Row \cup {None}]
  <1>1. StatusFor(e.group) \in Status
    BY DEF StatusFor, Status
  <1>2. e.group \in Groups /\ e.start \in Starts
    BY DEF Event
  <1>3. Fresh(t, e) \in Row
    BY <1>1, <1>2 DEF Fresh, Row
  <1>4. Reown(t, e, id) \in [Fps -> Fps \cup {None}]
    BY DEF Reown, Tx
  <1>5. ASSUME t.rows[id] # None
        PROVE  MergedRows(t, e, id) \in [Fps -> Row \cup {None}]
    <2>1. t.rows[id] \in Row
      BY <1>5 DEF Tx
    <2>2. Updated(t, e, t.rows[id]) \in Row
      BY <2>1, <1>1, <1>2 DEF Updated, Row
    <2> QED
      BY <2>2 DEF MergedRows, Tx
  <1> QED
    BY <1>3, <1>4, <1>5

(* The three steps of an open transaction, field by field.                 *)
LEMMA BeginStep ==
    ASSUME TypeOK, NEW b \in Batches, SaveBegin(b)
    PROVE  /\ tx' \in Tx
           /\ tx'.batch = b /\ tx'.done = 0 /\ tx'.stamp = now
           /\ tx'.rows = rows /\ tx'.owner = owner
           /\ b \in Seq(Event)
  <1>1. b \in Seq(Event)
    BY BatchesAssumption
  <1>2. /\ rows \in [Fps -> Row \cup {None}] /\ owner \in [Fps -> Fps \cup {None}]
        /\ now \in Nat
    BY DEF TypeOK
  <1> QED
    BY <1>1, <1>2 DEF SaveBegin, Tx, Result

LEMMA WroteType ==
    ASSUME NEW t \in Tx, NEW table \in [Fps -> Row \cup {None}],
           NEW own \in [Fps -> Fps \cup {None}], NEW res \in Result
    PROVE  Wrote(t, table, own, res) \in Tx
  BY DEF Wrote, Tx

LEMMA InsertStep ==
    ASSUME TypeOK, Insert
    PROVE  LET e == Current(tx) IN
           /\ e.fp \in Fps /\ Found(tx, e) = {} /\ tx.rows[e.fp] = None
           /\ tx' \in Tx
           /\ tx'.batch = tx.batch /\ tx'.done = tx.done + 1 /\ tx'.stamp = tx.stamp
           /\ tx'.rows = [tx.rows EXCEPT ![e.fp] = Fresh(tx, e)]
           /\ tx'.owner = Reown(tx, e, e.fp)
           /\ tx'.res = Inserted(tx)
  <1> DEFINE e == Current(tx)
             table == [tx.rows EXCEPT ![e.fp] = Fresh(tx, e)]
  <1>1. tx # None /\ tx.done < Len(tx.batch) /\ ~Refused(tx, e) /\ Found(tx, e) = {}
    BY DEF Insert
  <1>2. tx \in Tx /\ e \in Event
    BY <1>1, CurrentEvent
  <1>3. e.fp \in Fps /\ tx.stamp \in Nat /\ tx.res \in Result
    BY <1>2 DEF Event, Tx
  <1>4. Fresh(tx, e) \in Row /\ Reown(tx, e, e.fp) \in [Fps -> Fps \cup {None}]
    BY <1>2, <1>3, SaveTypes
  <1>5. table \in [Fps -> Row \cup {None}]
    BY <1>2, <1>4 DEF Tx
  <1>6. Inserted(tx) \in Result
    BY <1>3 DEF Inserted, Result
  <1>7. tx' = Wrote(tx, table, Reown(tx, e, e.fp), Inserted(tx))
    BY DEF Insert
  <1>8. tx.rows[e.fp] = None
    BY <1>1 DEF Refused
  <1>9. tx' \in Tx
    BY <1>2, <1>4, <1>5, <1>6, <1>7, WroteType
  <1> QED
    BY <1>1, <1>3, <1>7, <1>8, <1>9 DEF Wrote

LEMMA UpdateStep ==
    ASSUME TypeOK, ProvenanceLive, Update
    PROVE  LET e == Current(tx) IN
           \E id \in Found(tx, e) :
              /\ id \in Fps /\ tx.rows[id] \in Row /\ Survivor(tx, e, id)
              /\ tx' \in Tx
              /\ tx'.batch = tx.batch /\ tx'.done = tx.done + 1 /\ tx'.stamp = tx.stamp
              /\ tx'.rows = MergedRows(tx, e, id)
              /\ tx'.owner = Reown(tx, e, id)
              /\ tx'.res = Merged(tx, e, id)
  <1> DEFINE e == Current(tx)
  <1>1. tx # None /\ tx.done < Len(tx.batch)
    BY DEF Update
  <1>2. tx \in Tx /\ e \in Event
    BY <1>1, CurrentEvent
  <1>3. PICK id \in Found(tx, e) :
            /\ Survivor(tx, e, id)
            /\ tx' = Wrote(tx, MergedRows(tx, e, id), Reown(tx, e, id), Merged(tx, e, id))
    BY DEF Update
  <1>4. id \in Fps /\ \E f \in Fps : tx.owner[f] = id
    <2>1. Fingerprints(e) \subseteq Fps
      BY <1>2, FingerprintsType
    <2>2. tx.owner \in [Fps -> Fps \cup {None}]
      BY <1>2 DEF Tx
    <2> QED
      BY <2>1, <2>2 DEF Found
  <1>5. tx.rows[id] # None /\ tx.rows[id] \in Row
    BY <1>1, <1>2, <1>4, NoneAssumption DEF ProvenanceLive, Tx
  <1>6. /\ MergedRows(tx, e, id) \in [Fps -> Row \cup {None}]
        /\ Reown(tx, e, id) \in [Fps -> Fps \cup {None}]
    <2>1. tx.stamp \in Nat
      BY <1>2 DEF Tx
    <2> QED
      BY <2>1, <1>2, <1>4, <1>5, SaveTypes
  <1>7. Merged(tx, e, id) \in Result
    <2>1. Cardinality(Found(tx, e)) - 1 \in Nat
      BY <1>2, MergedCount
    <2>2. tx.res \in Result
      BY <1>2 DEF Tx
    <2> QED
      BY <2>1, <2>2 DEF Merged, Result
  <1>8. tx' \in Tx
    BY <1>2, <1>3, <1>6, <1>7, WroteType
  <1> QED
    BY <1>3, <1>4, <1>5, <1>8 DEF Wrote

----------------------------------------------------------------------------
(* Type correctness and live provenance, which need each other: an update  *)
(* is a row only because the fingerprint that led to it points at one.     *)

LiveOwners(table, own) == \A f \in Fps : own[f] # None => table[own[f]] # None

DbInv == TypeOK /\ ProvenanceLive

LEMMA InsertLive ==
    ASSUME TypeOK, ProvenanceLive, Insert
    PROVE  LiveOwners(tx'.rows, tx'.owner)
  <1> DEFINE e == Current(tx)
  <1>1. /\ e.fp \in Fps /\ tx.rows[e.fp] = None
        /\ tx'.rows = [tx.rows EXCEPT ![e.fp] = Fresh(tx, e)]
        /\ tx'.owner = Reown(tx, e, e.fp)
    BY InsertStep
  <1>2. tx # None /\ tx \in Tx /\ e \in Event
    BY CurrentEvent DEF Insert
  <1>3. Fresh(tx, e) # None
    <2>1. tx.stamp \in Nat
      BY <1>2 DEF Tx
    <2> QED
      BY <1>1, <1>2, <2>1, SaveTypes, NoneAssumption
  <1> SUFFICES ASSUME NEW f \in Fps, tx'.owner[f] # None
               PROVE  tx'.rows[tx'.owner[f]] # None
    BY DEF LiveOwners
  <1>4. CASE f \in Fingerprints(e)
    <2>1. tx'.owner[f] = e.fp
      BY <1>1, <1>4 DEF Reown
    <2> QED
      BY <1>1, <1>2, <1>3, <2>1 DEF Tx
  <1>5. CASE f \notin Fingerprints(e)
    <2>1. tx'.owner[f] = tx.owner[f] /\ tx.owner[f] \in Fps
      BY <1>1, <1>2, <1>5 DEF Reown, Tx
    <2>2. tx.rows[tx.owner[f]] # None
      BY <1>2, <2>1, NoneAssumption DEF ProvenanceLive
    <2> QED
      BY <1>1, <1>2, <2>1, <2>2 DEF Tx
  <1> QED
    BY <1>4, <1>5

LEMMA UpdateLive ==
    ASSUME TypeOK, ProvenanceLive, Update
    PROVE  LiveOwners(tx'.rows, tx'.owner)
  <1> DEFINE e == Current(tx)
  <1>1. PICK id \in Found(tx, e) :
            /\ id \in Fps /\ tx.rows[id] \in Row
            /\ tx'.rows = MergedRows(tx, e, id)
            /\ tx'.owner = Reown(tx, e, id)
    BY UpdateStep
  <1>2. tx # None /\ tx \in Tx /\ e \in Event
    BY CurrentEvent DEF Update
  <1>3. Updated(tx, e, tx.rows[id]) # None
    <2>1. StatusFor(e.group) \in Status /\ e.group \in Groups /\ e.start \in Starts
      BY <1>2 DEF StatusFor, Status, Event
    <2>2. tx.stamp \in Nat
      BY <1>2 DEF Tx
    <2> QED
      BY <1>1, <2>1, <2>2, NoneAssumption DEF Updated, Row
  <1> SUFFICES ASSUME NEW f \in Fps, tx'.owner[f] # None
               PROVE  tx'.rows[tx'.owner[f]] # None
    BY DEF LiveOwners
  <1>4. CASE f \in Fingerprints(e)
    <2>1. tx'.owner[f] = id
      BY <1>1, <1>4 DEF Reown
    <2> QED
      BY <1>1, <1>3, <2>1 DEF MergedRows
  <1>5. CASE f \notin Fingerprints(e)
    <2>1. tx'.owner[f] = tx.owner[f] /\ tx.owner[f] \in Fps /\ tx.owner[f] \notin Found(tx, e) \cup {id}
      BY <1>1, <1>2, <1>5 DEF Reown, Tx
    <2>2. tx.rows[tx.owner[f]] # None
      BY <1>2, <2>1, NoneAssumption DEF ProvenanceLive
    <2> QED
      BY <1>1, <2>1, <2>2 DEF MergedRows
  <1> QED
    BY <1>4, <1>5

LEMMA DbInvInit == Init => DbInv
  BY DEF Init, DbInv, TypeOK, ProvenanceLive

LEMMA DbInvStep == DbInv /\ [Next]_vars => DbInv'
  <1> SUFFICES ASSUME TypeOK, ProvenanceLive, [Next]_vars
               PROVE  TypeOK' /\ ProvenanceLive'
    BY DEF DbInv
  <1>1. CASE Tick
    <2>1. now' \in Nat \ {0} /\ 1 .. now \subseteq 1 .. now'
      BY <1>1 DEF Tick, TypeOK
    <2> QED
      BY <1>1, <2>1 DEF Tick, TypeOK, ProvenanceLive
  <1>2. ASSUME NEW reg \in Registries, SyncRegistry(reg)
        PROVE  TypeOK' /\ ProvenanceLive'
    <2>1. reg.feeds \subseteq Feeds
      BY RegistriesAssumption DEF Registry
    <2> QED
      BY <1>2, <2>1 DEF SyncRegistry, TypeOK, ProvenanceLive
  <1>3. ASSUME NEW b \in Batches, SaveBegin(b)
        PROVE  TypeOK' /\ ProvenanceLive'
    <2>1. /\ tx' \in Tx
          /\ tx'.batch = b /\ tx'.done = 0 /\ tx'.stamp = now
          /\ tx'.rows = rows /\ tx'.owner = owner
          /\ b \in Seq(Event)
      BY <1>3, BeginStep
    <2>2. /\ UNCHANGED <<groups, feeds, rows, owner, now>>
      BY <1>3 DEF SaveBegin
    <2>3. now \in 1 .. now /\ 0 \in 0 .. Len(b)
      BY <2>1 DEF TypeOK
    <2>6. BatchOK(tx'.batch)
      BY <2>1, BatchesAssumption
    <2>4. TypeOK'
      BY <2>1, <2>2, <2>3, <2>6 DEF TypeOK
    <2>5. ProvenanceLive'
      BY <2>1, <2>2 DEF ProvenanceLive
    <2> QED
      BY <2>4, <2>5
  <1>4. CASE Insert
    <2>1. /\ tx' \in Tx
          /\ tx'.batch = tx.batch /\ tx'.done = tx.done + 1 /\ tx'.stamp = tx.stamp
      BY <1>4, InsertStep
    <2>2. UNCHANGED <<groups, feeds, rows, owner, now>>
      BY <1>4 DEF Insert
    <2>3. BatchOK(tx.batch) /\ tx.done + 1 \in 0 .. Len(tx.batch) /\ tx.stamp \in 1 .. now
      BY <1>4, CurrentEvent DEF Insert, TypeOK
    <2>4. TypeOK'
      BY <2>1, <2>2, <2>3 DEF TypeOK
    <2>5. ProvenanceLive'
      BY <1>4, <2>2, InsertLive DEF ProvenanceLive, LiveOwners
    <2> QED
      BY <2>4, <2>5
  <1>5. CASE Update
    <2>1. /\ tx' \in Tx
          /\ tx'.batch = tx.batch /\ tx'.done = tx.done + 1 /\ tx'.stamp = tx.stamp
      BY <1>5, UpdateStep
    <2>2. UNCHANGED <<groups, feeds, rows, owner, now>>
      BY <1>5 DEF Update
    <2>3. BatchOK(tx.batch) /\ tx.done + 1 \in 0 .. Len(tx.batch) /\ tx.stamp \in 1 .. now
      BY <1>5, CurrentEvent DEF Update, TypeOK
    <2>4. TypeOK'
      BY <2>1, <2>2, <2>3 DEF TypeOK
    <2>5. ProvenanceLive'
      BY <1>5, <2>2, UpdateLive DEF ProvenanceLive, LiveOwners
    <2> QED
      BY <2>4, <2>5
  <1>6. CASE Commit
    BY <1>6 DEF Commit, TypeOK, ProvenanceLive, Tx
  <1>7. CASE Rollback
    BY <1>7 DEF Rollback, TypeOK, ProvenanceLive
  <1>8. CASE UNCHANGED vars
    BY <1>8 DEF vars, TypeOK, ProvenanceLive
  <1> QED
    BY <1>1, <1>2, <1>3, <1>4, <1>5, <1>6, <1>7, <1>8 DEF Next

(* Every reachable state of the database and of an open transaction has    *)
(* its type, whatever the registry and the batches.                        *)
THEOREM TypeCorrect == Spec => []TypeOK
  BY DbInvInit, DbInvStep, PTL DEF Spec, DbInv

(* No fingerprint ever points at a row a merge has deleted.                *)
THEOREM ProvenanceCorrect == Spec => []ProvenanceLive
  BY DbInvInit, DbInvStep, PTL DEF Spec, DbInv

----------------------------------------------------------------------------
(* Every event of the batch keeps a row of its own until a later one has a *)
(* record of it.  DbInv is what makes this inductive: a row is found only  *)
(* through live owners.                                                    *)

(* An event that stands after the next one is saved stood before, and has  *)
(* no record of it.                                                        *)
LEMMA Stands ==
    ASSUME NEW b, NEW n \in Nat, NEW i \in 1 .. n, ~Overtaken(b, i, n + 1)
    PROVE  ~Overtaken(b, i, n) /\ Fingerprints(b[i]) \cap Fingerprints(b[n + 1]) = {}
  <1>1. n + 1 \in i + 1 .. n + 1 /\ \A k \in i + 1 .. n : k \in i + 1 .. n + 1
    OBVIOUS
  <1> QED
    BY <1>1 DEF Overtaken

LEMMA OwnRowInsert ==
    ASSUME DbInv, OwnRow, Insert
    PROVE  OwnRow'
  <1> DEFINE e == Current(tx)
  <1>1. /\ e.fp \in Fps /\ Found(tx, e) = {} /\ tx.rows[e.fp] = None
        /\ tx'.batch = tx.batch /\ tx'.done = tx.done + 1 /\ tx'.stamp = tx.stamp
        /\ tx'.rows = [tx.rows EXCEPT ![e.fp] = Fresh(tx, e)]
        /\ tx'.owner = Reown(tx, e, e.fp)
    BY InsertStep DEF DbInv
  <1>2. /\ tx # None /\ tx \in Tx /\ e \in Event /\ tx.done \in Nat
        /\ tx.done + 1 \in DOMAIN tx.batch /\ e = tx.batch[tx.done + 1] /\ BatchOK(tx.batch)
    BY CurrentEvent DEF Insert, DbInv, Tx
  <1>3. Fresh(tx, e) # None
    <2>1. tx.stamp \in Nat
      BY <1>2 DEF Tx
    <2> QED
      BY <1>1, <1>2, <2>1, SaveTypes, NoneAssumption
  <1> DEFINE Kept(i, id) ==
        /\ {f \in Fps : tx'.owner[f] = id} = Fingerprints(tx.batch[i])
        /\ tx'.rows[id] # None
        /\ tx'.rows[id].group = tx.batch[i].group
        /\ tx'.rows[id].start = tx.batch[i].start
        /\ tx'.rows[id].last = tx.stamp
  <1>4. Kept(tx.done + 1, e.fp)
    <2>1. \A f \in Fps : tx'.owner[f] = e.fp <=> f \in Fingerprints(e)
      BY <1>1, <1>2, NoneAssumption DEF Reown
    <2>2. Fingerprints(e) \subseteq Fps
      BY <1>2, FingerprintsType
    <2>3. tx'.rows[e.fp] = Fresh(tx, e)
      BY <1>1, <1>2 DEF Tx
    <2> QED
      BY <1>2, <1>3, <2>1, <2>2, <2>3 DEF Fresh
  <1>5. ASSUME NEW i \in 1 .. tx.done, ~Overtaken(tx.batch, i, tx.done + 1)
        PROVE  \E id \in Fps : Kept(i, id)
    <2>7. /\ ~Overtaken(tx.batch, i, tx.done)
          /\ Fingerprints(tx.batch[i]) \cap Fingerprints(tx.batch[tx.done + 1]) = {}
      BY <1>2, <1>5, Stands
    <2>1. PICK id \in Fps :
            /\ {f \in Fps : tx.owner[f] = id} = Fingerprints(tx.batch[i])
            /\ tx.rows[id] # None
            /\ tx.rows[id].group = tx.batch[i].group
            /\ tx.rows[id].start = tx.batch[i].start
            /\ tx.rows[id].last = tx.stamp
      BY <1>2, <2>7 DEF OwnRow
    <2>3. Fingerprints(tx.batch[i]) \cap Fingerprints(e) = {}
      BY <1>2, <2>7
    <2>4. id # e.fp
      BY <1>1, <2>1
    <2>5. \A f \in Fps : tx'.owner[f] = id <=> tx.owner[f] = id
      BY <1>1, <2>1, <2>3, <2>4, NoneAssumption DEF Reown
    <2>6. tx'.rows[id] = tx.rows[id]
      BY <1>1, <1>2, <2>4 DEF Tx
    <2> QED
      BY <2>1, <2>5, <2>6
  <1>6. 1 .. tx'.done = (1 .. tx.done) \cup {tx.done + 1}
    BY <1>1, <1>2
  <1> QED
    BY <1>1, <1>4, <1>5, <1>6 DEF OwnRow

LEMMA OwnRowUpdate ==
    ASSUME DbInv, OwnRow, Update
    PROVE  OwnRow'
  <1> DEFINE e == Current(tx)
  <1>1. PICK id \in Found(tx, e) :
            /\ id \in Fps /\ tx.rows[id] \in Row
            /\ tx'.batch = tx.batch /\ tx'.done = tx.done + 1 /\ tx'.stamp = tx.stamp
            /\ tx'.rows = MergedRows(tx, e, id)
            /\ tx'.owner = Reown(tx, e, id)
    BY UpdateStep DEF DbInv
  <1>2. /\ tx # None /\ tx \in Tx /\ e \in Event /\ tx.done \in Nat
        /\ tx.done + 1 \in DOMAIN tx.batch /\ e = tx.batch[tx.done + 1] /\ BatchOK(tx.batch)
    BY CurrentEvent DEF Update, DbInv, Tx
  <1> DEFINE Kept(i, k) ==
        /\ {f \in Fps : tx'.owner[f] = k} = Fingerprints(tx.batch[i])
        /\ tx'.rows[k] # None
        /\ tx'.rows[k].group = tx.batch[i].group
        /\ tx'.rows[k].start = tx.batch[i].start
        /\ tx'.rows[k].last = tx.stamp
  <1>3. Kept(tx.done + 1, id)
    <2>1. \A f \in Fps : tx'.owner[f] = id <=> f \in Fingerprints(e)
      BY <1>1, <1>2, NoneAssumption DEF Reown
    <2>2. Fingerprints(e) \subseteq Fps
      BY <1>2, FingerprintsType
    <2>3. tx'.rows[id] = Updated(tx, e, tx.rows[id])
      BY <1>1, <1>2 DEF MergedRows
    <2>4. Updated(tx, e, tx.rows[id]) \in Row
      <3>1. StatusFor(e.group) \in Status /\ e.group \in Groups /\ e.start \in Starts
        BY <1>2 DEF StatusFor, Status, Event
      <3>2. tx.stamp \in Nat
        BY <1>2 DEF Tx
      <3> QED
        BY <1>1, <3>1, <3>2 DEF Updated, Row
    <2>5. /\ Updated(tx, e, tx.rows[id]).group = e.group
          /\ Updated(tx, e, tx.rows[id]).start = e.start
          /\ Updated(tx, e, tx.rows[id]).last = tx.stamp
      BY <1>1 DEF Updated, Row
    <2> QED
      BY <1>2, <2>1, <2>2, <2>3, <2>4, <2>5, NoneAssumption
  <1>4. ASSUME NEW i \in 1 .. tx.done, ~Overtaken(tx.batch, i, tx.done + 1)
        PROVE  \E k \in Fps : Kept(i, k)
    <2>7. /\ ~Overtaken(tx.batch, i, tx.done)
          /\ Fingerprints(tx.batch[i]) \cap Fingerprints(tx.batch[tx.done + 1]) = {}
      BY <1>2, <1>4, Stands
    <2>1. PICK k \in Fps :
            /\ {f \in Fps : tx.owner[f] = k} = Fingerprints(tx.batch[i])
            /\ tx.rows[k] # None
            /\ tx.rows[k].group = tx.batch[i].group
            /\ tx.rows[k].start = tx.batch[i].start
            /\ tx.rows[k].last = tx.stamp
      BY <1>2, <2>7 DEF OwnRow
    <2>3. Fingerprints(tx.batch[i]) \cap Fingerprints(e) = {}
      BY <1>2, <2>7
    <2>4. k \notin Found(tx, e)
      <3>1. Fingerprints(e) \subseteq Fps
        BY <1>2, FingerprintsType
      <3> QED
        BY <2>1, <2>3, <3>1 DEF Found
    <2>5. \A f \in Fps : tx'.owner[f] = k <=> tx.owner[f] = k
      BY <1>1, <2>1, <2>3, <2>4, NoneAssumption DEF Reown
    <2>6. tx'.rows[k] = tx.rows[k]
      BY <1>1, <2>4 DEF MergedRows
    <2> QED
      BY <2>1, <2>5, <2>6
  <1>5. 1 .. tx'.done = (1 .. tx.done) \cup {tx.done + 1}
    BY <1>1, <1>2
  <1> QED
    BY <1>1, <1>3, <1>4, <1>5 DEF OwnRow

LEMMA OwnRowStep == DbInv /\ OwnRow /\ [Next]_vars => OwnRow'
  <1> SUFFICES ASSUME DbInv, OwnRow, [Next]_vars
               PROVE  OwnRow'
    OBVIOUS
  <1>1. ASSUME NEW b \in Batches, SaveBegin(b)
        PROVE  OwnRow'
    <2>1. tx'.done = 0
      BY <1>1, BeginStep DEF DbInv
    <2> QED
      BY <2>1 DEF OwnRow
  <1>2. CASE Commit \/ Rollback
    BY <1>2 DEF Commit, Rollback, OwnRow
  <1>3. CASE UNCHANGED tx
    BY <1>3 DEF OwnRow
  <1> QED
    BY <1>1, <1>2, <1>3, OwnRowInsert, OwnRowUpdate DEF Next, vars, Tick, SyncRegistry

(* However a batch regroups records that earlier runs merged or split, no  *)
(* event of it takes the row of another that it shares no record with.     *)
THEOREM OwnRowCorrect == Spec => []OwnRow
  <1>1. Init => OwnRow
    BY DEF Init, OwnRow
  <1> QED
    BY <1>1, OwnRowStep, DbInvInit, DbInvStep, PTL DEF Spec

----------------------------------------------------------------------------
(* Merges keep the oldest first_seen                                       *)

(* A merge never makes an event newer than the oldest row it joins.        *)
THEOREM OldestCorrect == Spec => OldestKept
  <1>1. DbInv /\ [Next]_vars => [MergeKeepsOldest]_vars
    <2> SUFFICES ASSUME DbInv, Next
                 PROVE  MergeKeepsOldest
      OBVIOUS
    <2>1. CASE Update
      <3> DEFINE e == Current(tx)
      <3>1. PICK id \in Found(tx, e) :
              /\ id \in Fps /\ tx.rows[id] \in Row /\ Survivor(tx, e, id)
              /\ tx'.rows = MergedRows(tx, e, id)
              /\ tx'.owner = Reown(tx, e, id)
        BY <2>1, UpdateStep DEF DbInv
      <3>2. tx # None /\ tx \in Tx /\ e \in Event
        BY <2>1, CurrentEvent DEF Update, DbInv
      <3>3. tx'.rows[id].first = tx.rows[id].first
        BY <3>1 DEF MergedRows, Updated, Row
      <3>4. Fingerprints(e) \subseteq Fps
        BY <3>2, FingerprintsType
      <3>5. ASSUME NEW q \in Found(tx, e), NEW f \in Fingerprints(e)
            PROVE  tx'.rows[tx'.owner[f]].first <= tx.rows[q].first
        <4>1. tx'.owner[f] = id
          BY <3>1, <3>4 DEF Reown
        <4>2. q \in Fps /\ tx.rows[q] \in Row
          BY <3>2, <3>4, NoneAssumption DEF Found, Tx, DbInv, ProvenanceLive
        <4>3. tx.rows[id].first \in Nat /\ tx.rows[q].first \in Nat
          BY <3>1, <4>2 DEF Row
        <4> QED
          BY <3>1, <3>3, <4>1, <4>3 DEF Survivor
      <3> QED
        BY <3>5 DEF MergeKeepsOldest
    <2>2. CASE Insert
      BY <2>2 DEF Insert, MergeKeepsOldest
    <2>3. ASSUME tx = None \/ tx' = None \/ tx' = tx
          PROVE  MergeKeepsOldest
      <3>1. tx # None => tx.done \in Int
        BY DEF DbInv, TypeOK, Tx
      <3> QED
        BY <2>3, <3>1 DEF MergeKeepsOldest
    <2> QED
      BY <2>1, <2>2, <2>3 DEF Next, Tick, SyncRegistry, SaveBegin, Commit, Rollback
  <1> QED
    BY <1>1, DbInvInit, DbInvStep, PTL DEF Spec, OldestKept

----------------------------------------------------------------------------
(* The pending gate                                                        *)

(* What a row of a table written this run owes the groups table.           *)
Gated(table) ==
    \A f \in Fps :
      \/ table[f] = rows[f]
      \/ table[f] = None
      \/ table[f].status = "published" <=> groups[table[f].group] = "verified"

(* The registry cannot change while a transaction is open, so what the     *)
(* transaction decided on is still what the gate says when it commits.     *)
TxGated == tx # None => Gated(tx.rows)

LEMMA StatusGate ==
    ASSUME NEW g
    PROVE  StatusFor(g) = "published" <=> groups[g] = "verified"
  BY DEF StatusFor

LEMMA TxGatedStep == DbInv /\ TxGated /\ [Next]_vars => TxGated'
  <1> SUFFICES ASSUME DbInv, TxGated, [Next]_vars
               PROVE  TxGated'
    OBVIOUS
  <1>1. ASSUME NEW b \in Batches, SaveBegin(b)
        PROVE  TxGated'
    <2>1. tx'.rows = rows /\ rows' = rows
      BY <1>1, BeginStep DEF DbInv, SaveBegin
    <2> QED
      BY <2>1 DEF TxGated, Gated
  <1>2. CASE Insert
    <2> DEFINE e == Current(tx)
    <2>1. /\ e.fp \in Fps /\ tx.rows \in [Fps -> Row \cup {None}]
          /\ tx'.rows = [tx.rows EXCEPT ![e.fp] = Fresh(tx, e)]
      BY <1>2, InsertStep, CurrentEvent DEF Insert, DbInv, Tx
    <2>2. tx # None /\ UNCHANGED <<groups, rows>>
      BY <1>2 DEF Insert
    <2>3. Fresh(tx, e).status = "published" <=> groups[Fresh(tx, e).group] = "verified"
      BY StatusGate DEF Fresh
    <2> QED
      BY <2>1, <2>2, <2>3 DEF TxGated, Gated
  <1>3. CASE Update
    <2> DEFINE e == Current(tx)
    <2>1. PICK id \in Found(tx, e) :
            /\ id \in Fps /\ tx.rows[id] \in Row
            /\ tx'.rows = MergedRows(tx, e, id)
      BY <1>3, UpdateStep DEF DbInv
    <2>2. tx # None /\ UNCHANGED <<groups, rows>>
      BY <1>3 DEF Update
    <2> DEFINE new == Updated(tx, e, tx.rows[id])
    <2>3. new.status = StatusFor(e.group) /\ new.group = e.group
      BY <2>1 DEF Updated, Row
    <2>4. new.status = "published" <=> groups[new.group] = "verified"
      BY <2>3, StatusGate
    <2> HIDE DEF e
    <2>5. \A f \in Fps : tx'.rows[f] = new \/ tx'.rows[f] = None \/ tx'.rows[f] = tx.rows[f]
      BY <2>1 DEF MergedRows
    <2> HIDE DEF new
    <2> QED
      BY <2>2, <2>4, <2>5 DEF TxGated, Gated
  <1>4. ASSUME NEW reg \in Registries, SyncRegistry(reg)
        PROVE  TxGated'
    BY <1>4 DEF SyncRegistry, TxGated
  <1>5. CASE Commit \/ Rollback
    BY <1>5 DEF Commit, Rollback, TxGated
  <1>6. CASE Tick \/ UNCHANGED vars
    BY <1>6 DEF Tick, vars, TxGated, Gated
  <1> QED
    BY <1>1, <1>2, <1>3, <1>4, <1>5, <1>6 DEF Next

(* No commit publishes a row for a group that is not signed for.           *)
THEOREM GateCorrect == Spec => GateHolds
  <1>1. Init => TxGated
    BY DEF Init, TxGated
  <1>2. TxGated /\ [Next]_vars => [PublishesSigned]_vars
    <2> SUFFICES ASSUME TxGated, Next
                 PROVE  PublishesSigned
      OBVIOUS
    <2>1. CASE Commit
      BY <2>1 DEF Commit, TxGated, Gated, PublishesSigned
    <2>2. CASE UNCHANGED rows
      BY <2>2 DEF PublishesSigned
    <2> QED
      BY <2>1, <2>2 DEF Next, Tick, SyncRegistry, SaveBegin, Insert, Update, Rollback
  <1> QED
    BY <1>1, <1>2, TxGatedStep, DbInvInit, DbInvStep, PTL DEF Spec, GateHolds

----------------------------------------------------------------------------
(* LastSynced                                                              *)

(* t is the newest last_seen of a table.                                   *)
Newest(table, t) ==
    /\ \E f \in Fps : table[f] # None /\ table[f].last = t
    /\ \A f \in Fps : table[f] # None => table[f].last <= t

Dated(table, t) == \A f \in Fps : table[f] # None => table[f].last <= t

(* Every committed table has a newest row, no older than a row of it and   *)
(* no younger than an open transaction, whose own writes carry its stamp.  *)
TimeInv ==
    /\ Dated(rows, now)
    /\ LiveIn(rows) = {} \/ \E t \in Nat : Newest(rows, t)
    /\ tx # None =>
         /\ Dated(rows, tx.stamp)
         /\ Dated(tx.rows, tx.stamp)
         /\ tx.done = 0 => tx.rows = rows
         /\ tx.done > 0 => Newest(tx.rows, tx.stamp)

LEMMA NewestIsLast ==
    ASSUME NEW table \in [Fps -> Row \cup {None}], NEW t \in Nat, Newest(table, t)
    PROVE  LastSynced(table) = t
  <1> DEFINE L == {table[f].last : f \in LiveIn(table)}
             Top(x) == \A f \in LiveIn(table) : table[f].last <= x
  <1>1. LiveIn(table) # {} /\ t \in L /\ Top(t)
    BY DEF Newest, LiveIn
  <1>2. L \subseteq Nat
    BY NoneAssumption DEF LiveIn, Row
  <1>3. \A x \in L : Top(x) => x = t
    BY <1>1, <1>2 DEF LiveIn
  <1>4. (CHOOSE x \in L : Top(x)) = t
    BY <1>1, <1>3
  <1> QED
    BY <1>1, <1>4 DEF LastSynced

LEMMA EmptyIsZero ==
    ASSUME NEW table, LiveIn(table) = {}
    PROVE  LastSynced(table) = 0
  BY DEF LastSynced

(* Both ways of writing an event leave a row that carries the stamp.       *)
LEMMA WriteNewest ==
    ASSUME DbInv, TimeInv, Insert \/ Update
    PROVE  Newest(tx'.rows, tx.stamp) /\ tx'.stamp = tx.stamp /\ tx'.done > 0
  <1> DEFINE e == Current(tx)
  <1>1. tx # None /\ tx \in Tx /\ e \in Event /\ tx.stamp \in Nat /\ tx.done \in Nat
    BY CurrentEvent DEF Insert, Update, DbInv, Tx
  <1>2. Dated(tx.rows, tx.stamp)
    BY <1>1 DEF TimeInv
  <1>3. CASE Insert
    <2>1. /\ e.fp \in Fps /\ tx'.rows = [tx.rows EXCEPT ![e.fp] = Fresh(tx, e)]
          /\ tx'.stamp = tx.stamp /\ tx'.done = tx.done + 1
      BY <1>3, InsertStep DEF DbInv
    <2>2. Fresh(tx, e).last = tx.stamp /\ Fresh(tx, e) # None
      BY <1>1, <2>1, SaveTypes, NoneAssumption DEF Fresh
    <2>3. tx'.rows[e.fp] = Fresh(tx, e) /\ \A f \in Fps : f # e.fp => tx'.rows[f] = tx.rows[f]
      BY <1>1, <2>1 DEF Tx
    <2>4. Newest(tx'.rows, tx.stamp)
      BY <1>1, <1>2, <2>1, <2>2, <2>3 DEF Newest, Dated
    <2> QED
      BY <1>1, <2>1, <2>4
  <1>4. CASE Update
    <2>1. PICK id \in Found(tx, e) :
            /\ id \in Fps /\ tx.rows[id] \in Row
            /\ tx'.stamp = tx.stamp /\ tx'.done = tx.done + 1
            /\ tx'.rows = MergedRows(tx, e, id)
      BY <1>4, UpdateStep DEF DbInv
    <2> DEFINE new == Updated(tx, e, tx.rows[id])
    <2>2. new.last = tx.stamp /\ new \in Row
      <3>1. StatusFor(e.group) \in Status /\ e.group \in Groups /\ e.start \in Starts
        BY <1>1 DEF StatusFor, Status, Event
      <3> QED
        BY <1>1, <2>1, <3>1 DEF Updated, Row
    <2>3. tx'.rows[id] = new
      BY <2>1 DEF MergedRows
    <2>4. \A f \in Fps : f # id => tx'.rows[f] = None \/ tx'.rows[f] = tx.rows[f]
      BY <2>1 DEF MergedRows
    <2> HIDE DEF new
    <2>5. Newest(tx'.rows, tx.stamp)
      BY <1>1, <1>2, <2>1, <2>2, <2>3, <2>4, NoneAssumption DEF Newest, Dated
    <2> QED
      BY <1>1, <2>1, <2>5
  <1> QED
    BY <1>3, <1>4

LEMMA TimeInvStep == DbInv /\ TimeInv /\ [Next]_vars => TimeInv'
  <1> SUFFICES ASSUME DbInv, TimeInv, [Next]_vars
               PROVE  TimeInv'
    OBVIOUS
  <1> USE DEF Dated
  <1>1. CASE Tick
    <2>1. \A f \in Fps : rows[f] # None => rows[f].last \in Nat
      BY DEF DbInv, TypeOK, Row
    <2>2. now' = now + 1 /\ now \in Nat /\ UNCHANGED <<rows, tx>>
      BY <1>1 DEF Tick, DbInv, TypeOK
    <2> QED
      BY <2>1, <2>2 DEF TimeInv, LiveIn, Newest
  <1>2. ASSUME NEW reg \in Registries, SyncRegistry(reg)
        PROVE  TimeInv'
    BY <1>2 DEF SyncRegistry, TimeInv, LiveIn, Newest
  <1>3. ASSUME NEW b \in Batches, SaveBegin(b)
        PROVE  TimeInv'
    <2>1. tx'.rows = rows /\ tx'.stamp = now /\ tx'.done = 0 /\ UNCHANGED <<rows, now>>
      BY <1>3, BeginStep DEF DbInv, SaveBegin
    <2> QED
      BY <2>1 DEF TimeInv, LiveIn, Newest
  <1>4. CASE Insert \/ Update
    <2>1. Newest(tx'.rows, tx.stamp) /\ tx'.stamp = tx.stamp /\ tx'.done > 0
      BY <1>4, WriteNewest
    <2>2. tx # None /\ UNCHANGED <<rows, now>>
      BY <1>4 DEF Insert, Update
    <2>3. tx'.done \in Nat
      BY <1>4, InsertStep, UpdateStep DEF DbInv, Tx
    <2> QED
      BY <2>1, <2>2, <2>3 DEF TimeInv, LiveIn, Newest
  <1>5. CASE Commit
    <2>1. tx # None /\ rows' = tx.rows /\ tx' = None /\ now' = now
      BY <1>5 DEF Commit
    <2>2. tx.stamp \in Nat /\ tx.stamp <= now /\ tx.done \in Nat /\ now \in Nat
      BY <2>1 DEF DbInv, TypeOK, Tx
    <2>3. \A f \in Fps : tx.rows[f] # None => tx.rows[f].last \in Nat
      BY <2>1 DEF DbInv, TypeOK, Tx, Row
    <2>4. Dated(rows', now')
      BY <2>1, <2>2, <2>3 DEF TimeInv
    <2>5. CASE tx.done = 0
      BY <2>1, <2>4, <2>5 DEF TimeInv, LiveIn
    <2>6. CASE tx.done > 0
      BY <2>1, <2>2, <2>4, <2>6 DEF TimeInv
    <2> QED
      BY <2>2, <2>5, <2>6
  <1>6. CASE Rollback
    BY <1>6 DEF Rollback, TimeInv, LiveIn, Newest
  <1>7. CASE UNCHANGED vars
    BY <1>7 DEF vars, TimeInv, LiveIn, Newest
  <1> QED
    BY <1>1, <1>2, <1>3, <1>4, <1>5, <1>6, <1>7 DEF Next

LEMMA SyncedStep == DbInv /\ TimeInv /\ [Next]_vars => [MovesToStamp]_vars
  <1> SUFFICES ASSUME DbInv, TimeInv, Next
               PROVE  MovesToStamp
    OBVIOUS
  <1>1. rows \in [Fps -> Row \cup {None}]
    BY DEF DbInv, TypeOK
  <1>2. LastSynced(rows) \in Nat
    BY <1>1, NewestIsLast, EmptyIsZero DEF TimeInv
  <1>3. CASE Commit
    <2>1. tx # None /\ rows' = tx.rows /\ tx \in Tx /\ tx.done \in Nat /\ tx.stamp \in Nat
      BY <1>3 DEF Commit, DbInv, TypeOK, Tx
    <2>2. CASE tx.done = 0
      BY <2>1, <2>2, <1>2 DEF TimeInv, MovesToStamp
    <2>3. CASE tx.done > 0
      <3>1. LastSynced(tx.rows) = tx.stamp
        BY <2>1, <2>3, NewestIsLast DEF TimeInv, Tx
      <3>2. LastSynced(rows) <= tx.stamp
        <4>1. CASE LiveIn(rows) = {}
          BY <2>1, <4>1, EmptyIsZero
        <4>2. ASSUME NEW t \in Nat, Newest(rows, t)
              PROVE  LastSynced(rows) <= tx.stamp
          <5>1. LastSynced(rows) = t
            BY <1>1, <4>2, NewestIsLast
          <5>2. t <= tx.stamp
            BY <2>1, <4>2 DEF Newest, TimeInv, Dated
          <5> QED
            BY <5>1, <5>2
        <4> QED
          BY <4>1, <4>2 DEF TimeInv
      <3> QED
        BY <2>1, <3>1, <3>2 DEF MovesToStamp
    <2> QED
      BY <2>1, <2>2, <2>3
  <1>4. CASE UNCHANGED rows
    BY <1>2, <1>4 DEF MovesToStamp
  <1> QED
    BY <1>3, <1>4 DEF Next, Tick, SyncRegistry, SaveBegin, Insert, Update, Rollback

(* LastSynced is the stamp of the last run that saved something: it never  *)
(* moves back, whichever rows a merge deletes.                             *)
THEOREM SyncedCorrect == Spec => SyncedAdvances
  <1>1. Init => TimeInv
    BY DEF Init, TimeInv, LiveIn, Dated
  <1> QED
    BY <1>1, SyncedStep, TimeInvStep, DbInvInit, DbInvStep, PTL DEF Spec, SyncedAdvances

----------------------------------------------------------------------------
(* The counts of a SaveResult                                              *)

(* The sums CountsAddUp states, with what makes Cardinality mean anything: *)
(* a table has finitely many rows, because a run inserts them one by one.  *)
CountInv ==
    /\ IsFiniteSet(LiveIn(rows))
    /\ tx # None => IsFiniteSet(LiveIn(tx.rows))
    /\ CountsAddUp

LEMMA CountInsert ==
    ASSUME DbInv, CountInv, Insert
    PROVE  CountInv'
  <1> DEFINE e == Current(tx)
             Old == LiveIn(tx.rows)
  <1>1. /\ e.fp \in Fps /\ tx.rows[e.fp] = None
        /\ tx'.done = tx.done + 1 /\ tx' \in Tx
        /\ tx'.rows = [tx.rows EXCEPT ![e.fp] = Fresh(tx, e)]
        /\ tx'.res = Inserted(tx)
    BY InsertStep DEF DbInv
  <1>2. /\ tx # None /\ tx \in Tx /\ e \in Event /\ tx.stamp \in Nat /\ tx.done \in Nat
        /\ tx.res \in Result
    BY CurrentEvent DEF Insert, DbInv, Tx
  <1>3. Fresh(tx, e) # None
    BY <1>1, <1>2, SaveTypes, NoneAssumption
  <1>4. LiveIn(tx'.rows) = Old \cup {e.fp} /\ e.fp \notin Old
    BY <1>1, <1>2, <1>3 DEF LiveIn, Tx
  <1>5. IsFiniteSet(Old)
    BY <1>2 DEF CountInv
  <1>6. /\ IsFiniteSet(LiveIn(tx'.rows))
        /\ Cardinality(LiveIn(tx'.rows)) = Cardinality(Old) + 1
        /\ Cardinality(Old) \in Nat
    BY <1>4, <1>5, FS_AddElement, FS_CardinalityType
  <1>7. /\ tx'.res.inserted = tx.res.inserted + 1 /\ tx'.res.updated = tx.res.updated
        /\ tx'.res.promoted = tx.res.promoted /\ tx'.res.merged = tx.res.merged
    BY <1>1, <1>2 DEF Inserted, Result
  <1>8. UNCHANGED rows /\ Cardinality(LiveIn(rows)) \in Nat
    BY FS_CardinalityType DEF Insert, CountInv
  <1>9. CountsAddUp'
    BY <1>1, <1>2, <1>6, <1>7, <1>8 DEF CountInv, CountsAddUp, Result
  <1> QED
    BY <1>6, <1>8, <1>9 DEF CountInv, LiveIn

LEMMA CountUpdate ==
    ASSUME DbInv, CountInv, Update
    PROVE  CountInv'
  <1> DEFINE e == Current(tx)
             Old == LiveIn(tx.rows)
  <1>1. PICK id \in Found(tx, e) :
            /\ id \in Fps /\ tx.rows[id] \in Row
            /\ tx'.done = tx.done + 1 /\ tx' \in Tx
            /\ tx'.rows = MergedRows(tx, e, id)
            /\ tx'.res = Merged(tx, e, id)
    BY UpdateStep DEF DbInv
  <1> DEFINE Lost == Found(tx, e) \ {id}
  <1>2. /\ tx # None /\ tx \in Tx /\ e \in Event /\ tx.stamp \in Nat /\ tx.done \in Nat
        /\ tx.res \in Result
    BY CurrentEvent DEF Update, DbInv, Tx
  <1>3. Found(tx, e) \subseteq Old
    <2>1. Fingerprints(e) \subseteq Fps
      BY <1>2, FingerprintsType
    <2> QED
      BY <1>2, <2>1, NoneAssumption DEF Found, LiveIn, DbInv, ProvenanceLive, Tx
  <1>4. Updated(tx, e, tx.rows[id]) # None
    <2>1. StatusFor(e.group) \in Status /\ e.group \in Groups /\ e.start \in Starts
      BY <1>2 DEF StatusFor, Status, Event
    <2> QED
      BY <1>1, <1>2, <2>1, NoneAssumption DEF Updated, Row
  <1>5. LiveIn(tx'.rows) = Old \ Lost
    BY <1>1, <1>3, <1>4 DEF LiveIn, MergedRows
  <1>6. IsFiniteSet(Old) /\ IsFiniteSet(Found(tx, e)) /\ Lost \subseteq Old
    BY <1>2, <1>3, FoundFinite DEF CountInv
  <1>7. /\ IsFiniteSet(Lost) /\ Cardinality(Lost) = Cardinality(Found(tx, e)) - 1
        /\ Cardinality(Found(tx, e)) \in Nat
    BY <1>6, FS_RemoveElement, FS_CardinalityType
  <1>8. /\ IsFiniteSet(Old \ Lost) /\ Cardinality(Old) \in Nat
        /\ Cardinality(Old \ Lost) = Cardinality(Old) - Cardinality(Lost)
    <2>1. Old \cap Lost = Lost
      BY <1>6
    <2> QED
      BY <1>6, <2>1, FS_Difference, FS_CardinalityType
  <1> HIDE DEF Lost, Old
  <1>9. /\ tx'.res.inserted = tx.res.inserted /\ tx'.res.updated = tx.res.updated + 1
        /\ tx'.res.promoted \in {tx.res.promoted, tx.res.promoted + 1}
        /\ tx'.res.merged = tx.res.merged + (Cardinality(Found(tx, e)) - 1)
    BY <1>1, <1>2 DEF Merged, Result
  <1>10. UNCHANGED rows /\ Cardinality(LiveIn(rows)) \in Nat
    BY FS_CardinalityType DEF Update, CountInv
  <1>11. CountsAddUp'
    <2>1. /\ tx.res.inserted \in Nat /\ tx.res.updated \in Nat
          /\ tx.res.promoted \in Nat /\ tx.res.merged \in Nat
      BY <1>2 DEF Result
    <2>2. Cardinality(LiveIn(tx'.rows)) = Cardinality(Old) - (Cardinality(Found(tx, e)) - 1)
      BY <1>5, <1>7, <1>8
    <2>3. /\ tx.res.inserted + tx.res.updated = tx.done
          /\ Cardinality(Old) + tx.res.merged = Cardinality(LiveIn(rows)) + tx.res.inserted
          /\ tx.res.promoted <= tx.res.updated
      BY <1>2 DEF CountInv, CountsAddUp, Old
    <2> QED
      BY <1>1, <1>2, <1>7, <1>8, <1>9, <1>10, <2>1, <2>2, <2>3 DEF CountsAddUp, LiveIn
  <1> QED
    BY <1>5, <1>8, <1>10, <1>11 DEF CountInv, LiveIn

LEMMA CountInvStep == DbInv /\ CountInv /\ [Next]_vars => CountInv'
  <1> SUFFICES ASSUME DbInv, CountInv, [Next]_vars
               PROVE  CountInv'
    OBVIOUS
  <1>1. ASSUME NEW b \in Batches, SaveBegin(b)
        PROVE  CountInv'
    <2>1. /\ UNCHANGED rows /\ tx'.rows = rows /\ tx'.done = 0
          /\ tx'.res = [inserted |-> 0, updated |-> 0, promoted |-> 0, merged |-> 0]
      BY <1>1 DEF SaveBegin
    <2>2. Cardinality(LiveIn(rows)) \in Nat
      BY FS_CardinalityType DEF CountInv
    <2> QED
      BY <2>1, <2>2 DEF CountInv, CountsAddUp, LiveIn
  <1>2. CASE Commit
    BY <1>2 DEF Commit, CountInv, CountsAddUp, LiveIn
  <1>3. CASE Rollback
    BY <1>3 DEF Rollback, CountInv, CountsAddUp, LiveIn
  <1>4. CASE UNCHANGED <<rows, tx>>
    BY <1>4 DEF CountInv, CountsAddUp, LiveIn
  <1> QED
    BY <1>1, <1>2, <1>3, <1>4, CountInsert, CountUpdate DEF Next, vars, Tick, SyncRegistry

(* What a run reports is what it did to the table, however many rows it    *)
(* merged.                                                                 *)
THEOREM CountsCorrect == Spec => []CountsAddUp
  <1>1. Init => CountInv
    <2> SUFFICES ASSUME Init
                 PROVE  CountInv
      OBVIOUS
    <2>1. LiveIn(rows) = {} /\ tx = None
      BY DEF Init, LiveIn
    <2> QED
      BY <2>1, FS_EmptySet DEF CountInv, CountsAddUp
  <1> QED
    BY <1>1, CountInvStep, DbInvInit, DbInvStep, PTL DEF Spec, CountInv

----------------------------------------------------------------------------
(* Store implements Catalogue                                              *)

Recs(own, id) == {f \in Fps : own[f] = id}

EntryAt(table, own, id) ==
    [recs |-> Recs(own, id), group |-> table[id].group, start |-> table[id].start,
     status |-> table[id].status, first |-> table[id].first, last |-> table[id].last]

EntriesOf(table, own) == {EntryAt(table, own, id) : id \in LiveIn(table)}

(* The event i of b has a record of the committed row q.                   *)
Touches(b, i, q) == Fingerprints(b[i]) \cap Recs(owner, q) # {}

Untouched(q) == \A i \in 1 .. tx.done : ~Touches(tx.batch, i, q)

(* id is the row of the event e.                                           *)
RowOf(e, id) ==
    /\ Recs(tx.owner, id) = Fingerprints(e)
    /\ tx.rows[id].group = e.group
    /\ tx.rows[id].start = e.start
    /\ tx.rows[id].status = StatusFor(e.group)

(* No row without a record, none seen before it was first seen.            *)
Kept(table, own) ==
    \A id \in LiveIn(table) : Recs(own, id) # {} /\ table[id].first <= table[id].last

(* The catalogue's shelves for a batch: the entries after each event of it.*)
Filing == C!Shelves(Tale(tx.batch), tx.stamp)

(* What an open transaction has made of the committed tables: the rows no  *)
(* event has touched are as they were, every other row is that of an event *)
(* that stands, and the entries are those the catalogue has by then.       *)
TxTables ==
    /\ tx.batch \in Batches \ {<<>>}
    /\ Kept(tx.rows, tx.owner)
    /\ \A q \in LiveIn(rows) :
          Untouched(q) => tx.rows[q] = rows[q] /\ Recs(tx.owner, q) = Recs(owner, q)
    /\ \A id \in LiveIn(tx.rows) :
          \/ id \in LiveIn(rows) /\ Untouched(id)
          \/ \E i \in 1 .. tx.done :
                ~Overtaken(tx.batch, i, tx.done) /\ RowOf(tx.batch[i], id)
    /\ EntriesOf(tx.rows, tx.owner) = Filing[tx.done]

ShelfInv == Kept(rows, owner) /\ (tx # None => TxTables)

----------------------------------------------------------------------------
(* The shelves                                                             *)

(* Filing a batch event by event is well defined, by its least event that  *)
(* were not.                                                               *)
LEMMA ShelvesDef ==
    ASSUME NEW content, NEW t, Len(content) \in Nat
    PROVE  C!Shelves(content, t) =
             [k \in 0 .. Len(content) |->
                 IF k = 0 THEN Entries
                 ELSE C!Filed(C!Shelves(content, t)[k - 1], content[k], t)]
  <1> DEFINE N == Len(content)
             turn(h, k) == C!Filed(h, content[k], t)
             Runs(f, m) == f = [k \in 0 .. m |-> IF k = 0 THEN Entries ELSE turn(f[k - 1], k)]
             T == {m \in Nat : m <= N /\ ~ \E f : Runs(f, m)}
  <1> HIDE DEF turn
  <1>1. T = {}
    <2>1. ASSUME T # {}
          PROVE  FALSE
      <3>1. PICK m \in T : \A k \in T : m <= k
        <4>1. T \in SUBSET Nat
          OBVIOUS
        <4> QED
          BY <2>1, <4>1, LeastExists DEF Least
      <3>2. m # 0
        <4>1. Runs([k \in 0 .. 0 |-> Entries], 0)
          OBVIOUS
        <4> QED
          BY <4>1
      <3>3. m - 1 \in Nat /\ m - 1 <= N /\ m - 1 \notin T
        BY <3>1, <3>2
      <3>4. PICK g : Runs(g, m - 1)
        BY <3>3
      <3> DEFINE f == [k \in 0 .. m |-> IF k = m THEN turn(g[m - 1], m) ELSE g[k]]
      <3>5. \A k \in 0 .. m - 1 :
               f[k] = g[k] /\ g[k] = IF k = 0 THEN Entries ELSE turn(g[k - 1], k)
        BY <3>4
      <3>6. \A k \in 0 .. m : f[k] = IF k = 0 THEN Entries ELSE turn(f[k - 1], k)
        <4> TAKE k \in 0 .. m
        <4>1. CASE k = m
          BY <3>2, <3>3, <3>5, <4>1
        <4>2. CASE k # m
          <5>1. k \in 0 .. m - 1 /\ (k # 0 => k - 1 \in 0 .. m - 1)
            BY <4>2
          <5> QED
            BY <3>5, <5>1
        <4> QED
          BY <4>1, <4>2
      <3>7. f = [k \in 0 .. m |-> f[k]]
        OBVIOUS
      <3> HIDE DEF f
      <3>8. Runs(f, m)
        BY <3>6, <3>7
      <3> QED
        BY <3>1, <3>8
    <2> QED
      BY <2>1
  <1>2. \E f : Runs(f, N)
    BY <1>1
  <1> QED
    BY <1>2 DEF C!Shelves, turn

(* What is filed first, and what after the event k.                        *)
LEMMA ShelvesAt ==
    ASSUME NEW b, Len(b) \in Nat, DOMAIN b = 1 .. Len(b), NEW t
    PROVE  /\ Len(Tale(b)) = Len(b)
           /\ C!Shelves(Tale(b), t)[0] = Entries
           /\ \A k \in 1 .. Len(b) :
                 C!Shelves(Tale(b), t)[k] = C!Filed(C!Shelves(Tale(b), t)[k - 1], Tale(b)[k], t)
  <1>1. DOMAIN Tale(b) = 1 .. Len(b)
    BY DEF Tale
  <1>2. Len(Tale(b)) = Len(b)
    BY <1>1
  <1> DEFINE shelf == C!Shelves(Tale(b), t)
             next(h, k) == C!Filed(h, Tale(b)[k], t)
  <1>3. shelf = [k \in 0 .. Len(b) |-> IF k = 0 THEN Entries ELSE next(shelf[k - 1], k)]
    BY <1>2, ShelvesDef
  <1> HIDE DEF shelf, next
  <1>4. shelf[0] = Entries /\ \A k \in 1 .. Len(b) : shelf[k] = next(shelf[k - 1], k)
    BY <1>3
  <1> QED
    BY <1>2, <1>4 DEF shelf, next

(* An age no other of a set is below is the one Oldest picks.              *)
LEMMA OldestIs ==
    ASSUME NEW ages \in SUBSET Nat, NEW a \in ages, \A b \in ages : a <= b
    PROVE  C!Oldest(ages) = a
  <1>1. \A x \in ages : (\A b \in ages : x <= b) => x = a
    OBVIOUS
  <1> QED
    BY <1>1 DEF C!Oldest

(* Entries share no record, so each is of one row.                         *)
LEMMA RecsApart ==
    ASSUME NEW own, NEW p, NEW q, Recs(own, p) \cap Recs(own, q) # {}
    PROVE  p = q
  BY DEF Recs

LEMMA EntriesAre == Entries = EntriesOf(rows, owner)
  BY DEF Entries, EntriesOf, EntryAt, Recs

----------------------------------------------------------------------------
(* What Insert and Update have in common: the current event gets the row   *)
(* id, which its fingerprints lead to or which is free, and every other    *)
(* row they lead to goes.                                                  *)
Ageing(e) == {tx.stamp} \cup {tx.rows[q].first : q \in Found(tx, e)}

Saves(e, id) ==
    /\ id \in Fps
    /\ id \in Found(tx, e) \/ (Found(tx, e) = {} /\ tx.rows[id] = None)
    /\ tx'.batch = tx.batch /\ tx'.done = tx.done + 1 /\ tx'.stamp = tx.stamp
    /\ tx'.owner = Reown(tx, e, id)
    /\ \A f \in Fps \ {id} : tx'.rows[f] = IF f \in Found(tx, e) THEN None ELSE tx.rows[f]
    /\ tx'.rows[id] \in Row
    /\ tx'.rows[id].group = e.group
    /\ tx'.rows[id].start = e.start
    /\ tx'.rows[id].status = StatusFor(e.group)
    /\ tx'.rows[id].last = tx.stamp
    /\ tx'.rows[id].first \in Ageing(e)
    /\ \A age \in Ageing(e) : tx'.rows[id].first <= age

LEMMA InsertSaves ==
    ASSUME DbInv, Insert
    PROVE  Saves(Current(tx), Current(tx).fp)
  <1> DEFINE e == Current(tx)
  <1>1. /\ e.fp \in Fps /\ Found(tx, e) = {} /\ tx.rows[e.fp] = None
        /\ tx'.batch = tx.batch /\ tx'.done = tx.done + 1 /\ tx'.stamp = tx.stamp
        /\ tx'.rows = [tx.rows EXCEPT ![e.fp] = Fresh(tx, e)]
        /\ tx'.owner = Reown(tx, e, e.fp)
    BY InsertStep DEF DbInv
  <1>2. tx \in Tx /\ e \in Event /\ tx.stamp \in Nat
    BY CurrentEvent DEF Insert, DbInv, Tx
  <1>3. Fresh(tx, e) \in Row
    BY <1>1, <1>2, SaveTypes
  <1>4. tx'.rows[e.fp] = Fresh(tx, e) /\ \A f \in Fps \ {e.fp} : tx'.rows[f] = tx.rows[f]
    BY <1>1, <1>2 DEF Tx
  <1>5. /\ Fresh(tx, e).group = e.group /\ Fresh(tx, e).start = e.start
        /\ Fresh(tx, e).status = StatusFor(e.group)
        /\ Fresh(tx, e).last = tx.stamp /\ Fresh(tx, e).first = tx.stamp
    BY DEF Fresh
  <1>6. Ageing(e) = {tx.stamp} /\ tx.stamp <= tx.stamp
    BY <1>1, <1>2 DEF Ageing
  <1> HIDE DEF e
  <1> QED
    BY <1>1, <1>3, <1>4, <1>5, <1>6 DEF Saves, e

LEMMA UpdateSaves ==
    ASSUME DbInv, TimeInv, ShelfInv, Update
    PROVE  \E id \in Found(tx, Current(tx)) : Saves(Current(tx), id)
  <1> DEFINE e == Current(tx)
  <1>1. PICK id \in Found(tx, e) :
            /\ id \in Fps /\ tx.rows[id] \in Row /\ Survivor(tx, e, id)
            /\ tx'.batch = tx.batch /\ tx'.done = tx.done + 1 /\ tx'.stamp = tx.stamp
            /\ tx'.rows = MergedRows(tx, e, id)
            /\ tx'.owner = Reown(tx, e, id)
    BY UpdateStep DEF DbInv
  <1> DEFINE new == Updated(tx, e, tx.rows[id])
  <1>2. tx # None /\ tx \in Tx /\ e \in Event /\ tx.stamp \in Nat
    BY CurrentEvent DEF Update, DbInv, Tx
  <1>3. /\ new \in Row /\ new.group = e.group /\ new.start = e.start
        /\ new.status = StatusFor(e.group) /\ new.last = tx.stamp
        /\ new.first = tx.rows[id].first
    <2>1. StatusFor(e.group) \in Status /\ e.group \in Groups /\ e.start \in Starts
      BY <1>2 DEF StatusFor, Status, Event
    <2> QED
      BY <1>1, <1>2, <2>1 DEF Updated, Row
  <1>4. tx'.rows[id] = new
    BY <1>1 DEF MergedRows
  <1>5. \A f \in Fps \ {id} : tx'.rows[f] = IF f \in Found(tx, e) THEN None ELSE tx.rows[f]
    BY <1>1 DEF MergedRows
  <1>6. \A q \in Found(tx, e) : q \in Fps /\ tx.rows[q] \in Row
    <2>1. Fingerprints(e) \subseteq Fps
      BY <1>2, FingerprintsType
    <2> QED
      BY <1>2, <2>1, NoneAssumption DEF Found, DbInv, ProvenanceLive, Tx
  <1>7. \A q \in Found(tx, e) : new.first <= tx.rows[q].first
    BY <1>1, <1>3, <1>6 DEF Survivor, Row
  <1>8. new.first <= tx.stamp
    <2>1. id \in LiveIn(tx.rows) /\ tx.rows[id].first \in Nat /\ tx.rows[id].last \in Nat
      BY <1>1, NoneAssumption DEF LiveIn, Row
    <2>2. tx.rows[id].first <= tx.rows[id].last /\ tx.rows[id].last <= tx.stamp
      BY <1>2, <2>1 DEF ShelfInv, TxTables, Kept, TimeInv, Dated, LiveIn
    <2> QED
      BY <1>2, <1>3, <2>1, <2>2
  <1>9. new.first \in Ageing(e)
    BY <1>1, <1>3 DEF Ageing
  <1> HIDE DEF e, new
  <1>10. \A age \in Ageing(e) : new.first <= age
    BY <1>7, <1>8 DEF Ageing
  <1>11. Saves(e, id)
    BY <1>1, <1>3, <1>4, <1>5, <1>9, <1>10 DEF Saves
  <1> QED
    BY <1>1, <1>11 DEF e


(* What a save makes of the open transaction's rows: the new row has the   *)
(* event's records, the rows these led to are gone, all else is as it was. *)
LEMMA SavedRows ==
    ASSUME DbInv, tx # None, tx.done < Len(tx.batch), NEW id, Saves(Current(tx), id)
    PROVE  LET e == Current(tx) IN
           /\ Fingerprints(e) \subseteq Fps /\ Fingerprints(e) # {}
           /\ id \in Fps /\ id # None
           /\ Recs(tx'.owner, id) = Fingerprints(e)
           /\ Found(tx, e) \subseteq LiveIn(tx.rows)
           /\ \A q \in LiveIn(tx.rows) :
                 q \in Found(tx, e) <=> Recs(tx.owner, q) \cap Fingerprints(e) # {}
           /\ LiveIn(tx'.rows) = (LiveIn(tx.rows) \ Found(tx, e)) \cup {id}
           /\ \A q \in LiveIn(tx.rows) \ Found(tx, e) :
                 /\ q # id /\ tx'.rows[q] = tx.rows[q]
                 /\ Recs(tx'.owner, q) = Recs(tx.owner, q)
  <1> DEFINE e == Current(tx)
  <1>1. /\ tx \in Tx /\ e \in Event /\ tx.done + 1 \in DOMAIN tx.batch
        /\ e = tx.batch[tx.done + 1] /\ BatchOK(tx.batch)
        /\ tx.rows \in [Fps -> Row \cup {None}] /\ tx.owner \in [Fps -> Fps \cup {None}]
    BY CurrentEvent DEF DbInv, Tx
  <1>2. Fingerprints(e) \subseteq Fps /\ Fingerprints(e) # {}
    BY <1>1, FingerprintsType DEF BatchOK
  <1>3. /\ id \in Fps /\ id # None
        /\ id \in Found(tx, e) \/ (Found(tx, e) = {} /\ tx.rows[id] = None)
        /\ tx'.rows[id] # None
    BY NoneAssumption DEF Saves
  <1>4. /\ \A f \in Fps : tx'.owner[f] = IF f \in Fingerprints(e) THEN id
                                        ELSE IF tx.owner[f] \in Found(tx, e) \cup {id} THEN None
                                        ELSE tx.owner[f]
        /\ \A f \in Fps \ {id} : tx'.rows[f] = IF f \in Found(tx, e) THEN None ELSE tx.rows[f]
    BY DEF Saves, Reown
  <1>5. Found(tx, e) \subseteq LiveIn(tx.rows)
    BY <1>1, <1>2, NoneAssumption DEF Found, LiveIn, DbInv, ProvenanceLive
  <1>6. \A q \in LiveIn(tx.rows) : q \in Fps /\ q # None /\ tx.rows[q] # None
    BY NoneAssumption DEF LiveIn
  <1>7. ASSUME NEW q \in LiveIn(tx.rows)
        PROVE  q \in Found(tx, e) <=> Recs(tx.owner, q) \cap Fingerprints(e) # {}
    BY <1>2, <1>6, <1>7 DEF Found, Recs
  <1> HIDE DEF e
  <1>8. Recs(tx'.owner, id) = Fingerprints(e)
    <2>1. \A f \in Fps : tx'.owner[f] = id <=> f \in Fingerprints(e)
      BY <1>3, <1>4
    <2> QED
      BY <1>2, <2>1 DEF Recs
  <1>9. ASSUME NEW q \in LiveIn(tx.rows) \ Found(tx, e)
        PROVE  /\ q # id /\ tx'.rows[q] = tx.rows[q]
               /\ Recs(tx'.owner, q) = Recs(tx.owner, q)
    <2>1. q \in Fps /\ q # None /\ q # id /\ q \notin Found(tx, e)
      BY <1>3, <1>6, <1>9
    <2>2. \A f \in Fps : tx'.owner[f] = q <=> tx.owner[f] = q
      BY <1>2, <1>4, <2>1 DEF Found
    <2> QED
      BY <1>4, <2>1, <2>2 DEF Recs
  <1>10. LiveIn(tx'.rows) = (LiveIn(tx.rows) \ Found(tx, e)) \cup {id}
    <2>1. \A q \in Fps \ {id} : tx'.rows[q] # None <=> tx.rows[q] # None /\ q \notin Found(tx, e)
      BY <1>4
    <2> QED
      BY <1>3, <2>1 DEF LiveIn
  <1> QED
    BY <1>2, <1>3, <1>5, <1>7, <1>8, <1>9, <1>10 DEF e

(* A save files its event: the rows the records led to are the entries     *)
(* that give way.                                                          *)
LEMMA SaveFiles ==
    ASSUME DbInv, tx # None, tx.done < Len(tx.batch), NEW id, Saves(Current(tx), id)
    PROVE  EntriesOf(tx'.rows, tx'.owner)
             = C!Filed(EntriesOf(tx.rows, tx.owner), Tale(tx.batch)[tx.done + 1], tx.stamp)
  <1> DEFINE e == Current(tx)
             told == Tale(tx.batch)[tx.done + 1]
             shelf == EntriesOf(tx.rows, tx.owner)
             gone == {x \in shelf : x.recs \cap told.recs # {}}
             At(q) == EntryAt(tx.rows, tx.owner, q)
             new == EntryAt(tx'.rows, tx'.owner, id)
             Live == LiveIn(tx.rows)
  <1>1. /\ tx \in Tx /\ e \in Event /\ tx.done + 1 \in DOMAIN tx.batch /\ tx.stamp \in Nat
        /\ e = tx.batch[tx.done + 1] /\ tx.rows \in [Fps -> Row \cup {None}]
    BY CurrentEvent DEF DbInv, Tx
  <1>2. told.recs = Fingerprints(e) /\ told.group = e.group /\ told.start = e.start
    BY <1>1 DEF Tale
  <1>3. /\ Recs(tx'.owner, id) = Fingerprints(e)
        /\ Found(tx, e) \subseteq Live
        /\ \A q \in Live : q \in Found(tx, e) <=> Recs(tx.owner, q) \cap Fingerprints(e) # {}
        /\ LiveIn(tx'.rows) = (Live \ Found(tx, e)) \cup {id}
        /\ \A q \in Live \ Found(tx, e) :
              tx'.rows[q] = tx.rows[q] /\ Recs(tx'.owner, q) = Recs(tx.owner, q)
    BY SavedRows
  <1> HIDE DEF e, told
  <1>4. \A q : At(q).recs = Recs(tx.owner, q) /\ At(q).first = tx.rows[q].first
    BY DEF EntryAt
  <1>5. shelf = {At(q) : q \in Live}
    BY DEF EntriesOf
  <1>6. \A q \in Live : At(q) \in gone <=> q \in Found(tx, e)
    BY <1>2, <1>3, <1>4, <1>5
  <1>7. EntriesOf(tx'.rows, tx'.owner) = {At(q) : q \in Live \ Found(tx, e)} \cup {new}
    <2>1. \A q \in Live \ Found(tx, e) : EntryAt(tx'.rows, tx'.owner, q) = At(q)
      BY <1>3 DEF EntryAt
    <2> QED
      BY <1>3, <2>1 DEF EntriesOf
  <1> HIDE DEF At
  <1>8. shelf \ gone = {At(q) : q \in Live \ Found(tx, e)}
    BY <1>5, <1>6
  <1>9. {tx.stamp} \cup {x.first : x \in gone} = Ageing(e)
    <2>1. \A x \in gone : \E q \in Found(tx, e) : x.first = tx.rows[q].first
      BY <1>4, <1>5, <1>6
    <2>2. \A q \in Found(tx, e) : \E x \in gone : x.first = tx.rows[q].first
      BY <1>3, <1>4, <1>6
    <2> HIDE DEF gone
    <2>3. {x.first : x \in gone} = {tx.rows[q].first : q \in Found(tx, e)}
      BY <2>1, <2>2
    <2> QED
      BY <2>3 DEF Ageing
  <1>10. new = [recs |-> told.recs, group |-> told.group, start |-> told.start,
                status |-> IF told.group \in Signed THEN "published" ELSE "pending",
                first |-> C!Oldest({tx.stamp} \cup {x.first : x \in gone}), last |-> tx.stamp]
    <2>1. /\ tx'.rows[id].group = e.group /\ tx'.rows[id].start = e.start
          /\ tx'.rows[id].status = StatusFor(e.group) /\ tx'.rows[id].last = tx.stamp
          /\ tx'.rows[id].first \in Ageing(e)
          /\ \A age \in Ageing(e) : tx'.rows[id].first <= age
      BY DEF Saves, e
    <2>2. Ageing(e) \in SUBSET Nat
      <3>1. \A q \in Found(tx, e) : tx.rows[q] \in Row
        BY <1>1, <1>3 DEF LiveIn
      <3> QED
        BY <1>1, <3>1 DEF Ageing, Row
    <2>3. C!Oldest(Ageing(e)) = tx'.rows[id].first
      BY <2>1, <2>2, OldestIs
    <2>4. e.group \in Groups
      BY <1>1 DEF Event
    <2>5. StatusFor(e.group) = IF e.group \in Signed THEN "published" ELSE "pending"
      BY <2>4 DEF StatusFor, Signed
    <2> HIDE DEF gone
    <2> QED
      BY <1>2, <1>3, <1>9, <2>1, <2>3, <2>5 DEF EntryAt
  <1> HIDE DEF new, shelf
  <1> QED
    BY <1>7, <1>8, <1>10 DEF C!Filed, shelf, told

(* What the catalogue would make of the batch is settled when it begins.   *)
LEMMA FilingStays ==
    ASSUME UNCHANGED <<groups, rows, owner>>, tx'.batch = tx.batch, tx'.stamp = tx.stamp
    PROVE  Filing' = Filing
  <1>1. Entries' = Entries
    BY DEF Entries, LiveIn
  <1>2. Signed' = Signed
    BY DEF Signed
  <1>3. Tale(tx.batch)' = Tale(tx.batch)
    BY DEF Tale, Fingerprints
  <1> QED
    BY <1>1, <1>2, <1>3 DEF Filing, C!Shelves, C!Filed

LEMMA SavesTables ==
    ASSUME DbInv, ShelfInv, tx # None, tx.done < Len(tx.batch),
           UNCHANGED <<groups, rows, owner>>,
           NEW id, Saves(Current(tx), id)
    PROVE  TxTables'
  <1> DEFINE e == Current(tx)
             n == tx.done + 1
  <1>1. /\ tx \in Tx /\ e = tx.batch[n] /\ tx.done \in Nat /\ n \in DOMAIN tx.batch
        /\ tx.batch \in Seq(Event) /\ TxTables
    BY CurrentEvent DEF DbInv, ShelfInv, Tx
  <1>2. tx'.batch = tx.batch /\ tx'.done = n /\ tx'.stamp = tx.stamp
    BY DEF Saves
  <1>3. 1 .. tx'.done = (1 .. tx.done) \cup {n}
    BY <1>1, <1>2
  <1>4. /\ Fingerprints(e) # {} /\ id \in Fps /\ Recs(tx'.owner, id) = Fingerprints(e)
        /\ \A q \in LiveIn(tx.rows) :
              q \in Found(tx, e) <=> Recs(tx.owner, q) \cap Fingerprints(e) # {}
        /\ LiveIn(tx'.rows) = (LiveIn(tx.rows) \ Found(tx, e)) \cup {id}
        /\ \A q \in LiveIn(tx.rows) \ Found(tx, e) :
              tx'.rows[q] = tx.rows[q] /\ Recs(tx'.owner, q) = Recs(tx.owner, q)
    BY SavedRows
  <1>5. \A q : Untouched(q)' <=> Untouched(q) /\ ~Touches(tx.batch, n, q)
    BY <1>2, <1>3 DEF Untouched, Touches, Recs
  <1>6. (tx.batch \in Batches \ {<<>>})'
    BY <1>1, <1>2 DEF TxTables
  <1>7. Kept(tx.rows, tx.owner)'
    <2>1. tx'.rows[id].first <= tx'.rows[id].last
      BY DEF Saves, Ageing
    <2>2. \A k \in LiveIn(tx'.rows) : Recs(tx'.owner, k) # {} /\ tx'.rows[k].first <= tx'.rows[k].last
      BY <1>1, <1>4, <2>1 DEF TxTables, Kept
    <2> QED
      BY <2>2 DEF Kept
  <1>8. LiveIn(rows)' = LiveIn(rows) /\ \A q : Recs(owner, q)' = Recs(owner, q)
    BY DEF LiveIn, Recs
  <1> HIDE DEF e, n
  <1>9. ASSUME NEW q \in LiveIn(rows), Untouched(q), ~Touches(tx.batch, n, q)
        PROVE  q \in LiveIn(tx.rows) \ Found(tx, e)
    <2>1. tx.rows[q] = rows[q] /\ Recs(tx.owner, q) = Recs(owner, q)
      BY <1>1, <1>9 DEF TxTables
    <2>2. q \in LiveIn(tx.rows)
      BY <2>1 DEF LiveIn
    <2>3. Recs(tx.owner, q) \cap Fingerprints(e) = {}
      BY <1>1, <1>9, <2>1 DEF Touches
    <2> QED
      BY <1>4, <2>2, <2>3
  <1>10. ASSUME NEW q \in LiveIn(rows), Untouched(q)'
         PROVE  tx'.rows[q] = rows[q] /\ Recs(tx'.owner, q) = Recs(owner, q)
    <2>1. Untouched(q) /\ q \in LiveIn(tx.rows) \ Found(tx, e)
      BY <1>5, <1>9, <1>10
    <2> QED
      BY <1>1, <1>4, <2>1 DEF TxTables
  <1>11. ASSUME NEW k \in LiveIn(tx'.rows)
         PROVE  \/ k \in LiveIn(rows) /\ Untouched(k)'
                \/ \E i \in 1 .. tx'.done :
                      ~Overtaken(tx'.batch, i, tx'.done) /\ RowOf(tx.batch[i], k)'
    <2>1. CASE k = id
      <3>1. PICK i : i = n
        OBVIOUS
      <3>2. i \in 1 .. tx'.done /\ i + 1 .. tx'.done = {}
        BY <1>1, <1>2, <1>3, <3>1 DEF n
      <3>3. ~Overtaken(tx'.batch, i, tx'.done)
        BY <3>2 DEF Overtaken
      <3>4. RowOf(tx.batch[i], k)'
        BY <1>1, <1>2, <1>4, <2>1, <3>1 DEF RowOf, Saves, StatusFor, Fingerprints, Recs, e
      <3> QED
        BY <3>2, <3>3, <3>4
    <2>2. CASE k \in LiveIn(tx.rows) \ Found(tx, e) /\ k \in LiveIn(rows) /\ Untouched(k)
      <3>1. ~Touches(tx.batch, n, k)
        BY <1>1, <1>4, <2>2 DEF TxTables, Touches
      <3> QED
        BY <1>5, <2>2, <3>1
    <2>3. ASSUME k \in LiveIn(tx.rows) \ Found(tx, e), NEW i \in 1 .. tx.done,
                 ~Overtaken(tx.batch, i, tx.done), RowOf(tx.batch[i], k)
          PROVE  i \in 1 .. tx'.done /\ ~Overtaken(tx'.batch, i, tx'.done) /\ RowOf(tx.batch[i], k)'
      <3>1. i \in 1 .. tx'.done /\ i + 1 .. tx'.done = (i + 1 .. tx.done) \cup {n}
        BY <1>1, <1>2, <1>3, <2>3 DEF n
      <3>2. Fingerprints(tx.batch[i]) \cap Fingerprints(tx.batch[n]) = {}
        BY <1>1, <1>4, <2>3 DEF RowOf
      <3>3. ~Overtaken(tx'.batch, i, tx'.done)
        BY <1>2, <2>3, <3>1, <3>2 DEF Overtaken
      <3>4. RowOf(tx.batch[i], k)'
        BY <1>2, <1>4, <2>3 DEF RowOf, StatusFor, Fingerprints, Recs
      <3> QED
        BY <3>1, <3>3, <3>4
    <2>4. k \in LiveIn(tx.rows) =>
             \/ k \in LiveIn(rows) /\ Untouched(k)
             \/ \E i \in 1 .. tx.done :
                   ~Overtaken(tx.batch, i, tx.done) /\ RowOf(tx.batch[i], k)
      BY <1>1 DEF TxTables
    <2> QED
      BY <1>4, <2>1, <2>2, <2>3, <2>4
  <1>12. EntriesOf(tx'.rows, tx'.owner) = Filing'[tx'.done]
    <2>1. EntriesOf(tx'.rows, tx'.owner) = C!Filed(Filing[tx.done], Tale(tx.batch)[n], tx.stamp)
      BY <1>1, SaveFiles DEF TxTables, n
    <2>2. n \in 1 .. Len(tx.batch) /\ Len(tx.batch) \in Nat /\ DOMAIN tx.batch = 1 .. Len(tx.batch)
      BY <1>1
    <2>3. Filing[n] = C!Filed(Filing[n - 1], Tale(tx.batch)[n], tx.stamp)
      BY <2>2, ShelvesAt DEF Filing
    <2>4. n - 1 = tx.done
      BY <1>1 DEF n
    <2>5. Filing' = Filing
      BY <1>2, FilingStays
    <2> QED
      BY <1>2, <2>1, <2>3, <2>4, <2>5
  <1>13. EntriesOf(tx.rows, tx.owner)' = EntriesOf(tx'.rows, tx'.owner)
    BY DEF EntriesOf, EntryAt, Recs, LiveIn
  <1> QED
    BY <1>6, <1>7, <1>8, <1>10, <1>11, <1>12, <1>13 DEF TxTables

LEMMA BeginTables ==
    ASSUME DbInv, ShelfInv, NEW b \in Batches, SaveBegin(b)
    PROVE  TxTables'
  <1>1. /\ tx' \in Tx
        /\ tx'.batch = b /\ tx'.done = 0 /\ tx'.stamp = now
        /\ tx'.rows = rows /\ tx'.owner = owner /\ b \in Seq(Event)
    BY BeginStep DEF DbInv
  <1>2. UNCHANGED <<groups, rows, owner, now>> /\ b # <<>> /\ 1 .. tx'.done = {}
    BY <1>1 DEF SaveBegin
  <1>3. Kept(tx.rows, tx.owner)'
    BY <1>1, <1>2 DEF ShelfInv, Kept, LiveIn, Recs
  <1>4. \A q : Untouched(q)'
    BY <1>2 DEF Untouched
  <1>5. EntriesOf(tx.rows, tx.owner)' = Entries
    BY <1>1, <1>2, EntriesAre DEF EntriesOf, EntryAt, Recs, LiveIn
  <1>6. Filing' = C!Shelves(Tale(b), now)
    <2>1. Entries' = Entries
      BY <1>2 DEF Entries, LiveIn
    <2>2. Signed' = Signed
      BY <1>2 DEF Signed
    <2>3. Tale(tx.batch)' = Tale(b)
      BY <1>1 DEF Tale, Fingerprints
    <2> QED
      BY <1>1, <2>1, <2>2, <2>3 DEF Filing, C!Shelves, C!Filed
  <1>7. C!Shelves(Tale(b), now)[0] = Entries
    <2>1. Len(b) \in Nat /\ DOMAIN b = 1 .. Len(b)
      BY <1>1
    <2> QED
      BY <2>1, ShelvesAt
  <1>8. EntriesOf(tx.rows, tx.owner)' = Filing'[tx'.done]
    BY <1>1, <1>5, <1>6, <1>7
  <1>9. /\ LiveIn(tx.rows)' = LiveIn(rows)' /\ tx'.rows = rows'
        /\ \A q : Recs(tx.owner, q)' = Recs(owner, q)'
    BY <1>1, <1>2 DEF LiveIn, Recs
  <1> QED
    BY <1>1, <1>2, <1>3, <1>4, <1>8, <1>9 DEF TxTables

LEMMA TablesStay ==
    ASSUME UNCHANGED <<groups, rows, owner, tx>>, TxTables
    PROVE  TxTables'
  <1>1. Kept(tx.rows, tx.owner)'
    BY DEF TxTables, Kept, LiveIn, Recs
  <1>2. \A q : Untouched(q)' <=> Untouched(q)
    BY DEF Untouched, Touches, Recs
  <1>3. \A q \in LiveIn(rows)' :
           Untouched(q)' => tx'.rows[q] = rows'[q] /\ Recs(tx.owner, q)' = Recs(owner, q)'
    BY <1>2 DEF TxTables, LiveIn, Recs
  <1>4. ASSUME NEW i, NEW id, RowOf(tx.batch[i], id)
        PROVE  RowOf(tx.batch[i], id)'
    BY <1>4 DEF RowOf, Recs, StatusFor, Fingerprints
  <1>5. \A i : Overtaken(tx.batch, i, tx.done)' <=> Overtaken(tx.batch, i, tx.done)
    BY DEF Overtaken, Fingerprints
  <1>6. \A id \in LiveIn(tx.rows)' :
          \/ id \in LiveIn(rows)' /\ Untouched(id)'
          \/ \E i \in 1 .. tx'.done :
                ~Overtaken(tx.batch, i, tx.done)' /\ RowOf(tx.batch[i], id)'
    BY <1>2, <1>4, <1>5 DEF TxTables, LiveIn
  <1>7. EntriesOf(tx.rows, tx.owner)' = Filing'[tx'.done]
    <2>1. EntriesOf(tx.rows, tx.owner)' = EntriesOf(tx.rows, tx.owner)
      BY DEF EntriesOf, EntryAt, Recs, LiveIn
    <2>2. Filing' = Filing
      BY FilingStays
    <2> QED
      BY <2>1, <2>2 DEF TxTables
  <1> QED
    BY <1>1, <1>3, <1>6, <1>7 DEF TxTables

LEMMA ShelfInvStep == DbInv /\ TimeInv /\ ShelfInv /\ [Next]_vars => ShelfInv'
  <1> SUFFICES ASSUME DbInv, TimeInv, ShelfInv, [Next]_vars
               PROVE  ShelfInv'
    OBVIOUS
  <1>1. ASSUME UNCHANGED <<rows, owner>>
        PROVE  Kept(rows, owner)'
    BY <1>1 DEF ShelfInv, Kept, LiveIn, Recs
  <1>2. ASSUME NEW b \in Batches, SaveBegin(b)
        PROVE  ShelfInv'
    BY <1>1, <1>2, BeginTables DEF SaveBegin, ShelfInv
  <1>3. CASE Insert
    BY <1>1, <1>3, InsertSaves, SavesTables DEF Insert, ShelfInv
  <1>4. CASE Update
    <2>1. PICK id \in Found(tx, Current(tx)) : Saves(Current(tx), id)
      BY <1>4, UpdateSaves
    <2> QED
      BY <1>1, <1>4, <2>1, SavesTables DEF Update, ShelfInv
  <1>5. CASE Commit
    BY <1>5 DEF Commit, ShelfInv, TxTables, Kept, LiveIn, Recs
  <1>6. CASE Rollback
    BY <1>1, <1>6 DEF Rollback, ShelfInv
  <1>7. ASSUME NEW reg \in Registries, SyncRegistry(reg)
        PROVE  ShelfInv'
    BY <1>1, <1>7 DEF SyncRegistry, ShelfInv
  <1>8. CASE Tick \/ UNCHANGED vars
    <2>1. UNCHANGED <<groups, rows, owner, tx>>
      BY <1>8 DEF Tick, vars
    <2>2. TxTables => TxTables'
      BY <2>1, TablesStay
    <2> QED
      BY <1>1, <2>1, <2>2 DEF ShelfInv
  <1> QED
    BY <1>2, <1>3, <1>4, <1>5, <1>6, <1>7, <1>8 DEF Next

LEMMA ShelfInvInit == Init => ShelfInv
  BY DEF Init, ShelfInv, Kept, LiveIn

----------------------------------------------------------------------------
(* The step of the catalogue                                               *)

(* A commit makes the entries those the catalogue has after the last event *)
(* of the batch, with the run's instant.                                   *)
LEMMA CommitFiles ==
    ASSUME DbInv, ShelfInv, Commit
    PROVE  C!Save
  <1>1. /\ tx # None /\ tx.done = Len(tx.batch) /\ rows' = tx.rows /\ owner' = tx.owner
        /\ UNCHANGED <<groups, now>>
    BY DEF Commit
  <1>2. TxTables /\ tx.batch \in Batches /\ tx.stamp \in 1 .. now
    BY <1>1 DEF ShelfInv, TxTables, DbInv, TypeOK
  <1>3. Tale(tx.batch) \in Contents
    BY <1>2 DEF Contents
  <1>4. Len(Tale(tx.batch)) = tx.done
    <2>1. Len(tx.batch) \in Nat /\ DOMAIN tx.batch = 1 .. Len(tx.batch)
      BY <1>2, BatchesAssumption
    <2> QED
      BY <1>1, <2>1, ShelvesAt
  <1>5. Entries' = EntriesOf(tx.rows, tx.owner)
    BY <1>1 DEF Entries, EntriesOf, EntryAt, Recs, LiveIn
  <1>6. Entries' = C!Shelves(Tale(tx.batch), tx.stamp)[Len(Tale(tx.batch))]
    BY <1>2, <1>4, <1>5 DEF TxTables, Filing
  <1>7. UNCHANGED <<Signed, now>>
    BY <1>1 DEF Signed
  <1> QED
    BY <1>2, <1>3, <1>6, <1>7 DEF C!Save

LEMMA CatalogueStep ==
    ASSUME DbInv, ShelfInv, [Next]_vars
    PROVE  [C!Next]_(C!catalogue)
  <1>1. CASE Commit
    BY <1>1, CommitFiles DEF C!Next
  <1>2. ASSUME NEW reg \in Registries, SyncRegistry(reg)
        PROVE  C!Next
    <2>1. reg.groups \subseteq Groups
      BY RegistriesAssumption DEF Registry
    <2>2. UNCHANGED <<Entries, now>>
      BY <1>2 DEF SyncRegistry, Entries, LiveIn
    <2>3. Signed' = (Signed \ reg.groups) \cup (reg.verified \cap reg.groups)
      BY <1>2, <2>1 DEF SyncRegistry, Signed
    <2> QED
      BY <2>2, <2>3 DEF C!Next, C!Sign
  <1>3. CASE Tick
    BY <1>3 DEF Tick, C!Next, C!Tick, Entries, Signed, LiveIn
  <1>4. CASE UNCHANGED <<groups, rows, owner, now>>
    BY <1>4 DEF C!catalogue, Entries, Signed, LiveIn
  <1> QED
    BY <1>1, <1>2, <1>3, <1>4 DEF Next, SaveBegin, Insert, Update, Rollback, vars

(* The store implements the catalogue: each step of a run is a step of the *)
(* catalogue or changes nothing in it, so the rows merged, split and taken *)
(* over on the way never show, for any batches and registries.             *)
THEOREM CatalogueCorrect == Spec => Catalogued
  <1>1. Init => C!Init
    BY DEF Init, C!Init, Entries, Signed, LiveIn
  <1>2. Init => TimeInv
    BY DEF Init, TimeInv, LiveIn, Dated
  <1>3. DbInv /\ ShelfInv /\ [Next]_vars => [C!Next]_(C!catalogue)
    BY CatalogueStep
  <1> QED
    BY <1>1, <1>2, <1>3, DbInvInit, DbInvStep, TimeInvStep, ShelfInvInit, ShelfInvStep, PTL
       DEF Spec, Catalogued, C!Spec

=============================================================================
