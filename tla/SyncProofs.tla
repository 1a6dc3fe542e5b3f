----------------------------- MODULE SyncProofs -----------------------------
(* Sync, proved for any feeds, records, files of the maintainers and       *)
(* answers, from what the store is proved to do and what a run relies on   *)
(* normalize for (NormalizedAssumption).                                   *)
EXTENDS Sync, StoreProofs, NormalizeProofs

(* What the stage of a run says of the database.  Until its transaction    *)
(* commits no row has its stamp; from the mirror on, the signatures of its *)
(* groups are those of its files.                                          *)
Unstamped == \A f \in LiveIn(rows) : rows[f].last < now

Signs(fl) == \A g \in fl.groups : groups[g] = "verified" <=> g \in fl.verified

StageInv ==
    run # None =>
      /\ run.stage # "done" => Unstamped
      /\ run.stage # "loaded" => Signs(run.files)
      /\ run.stage = "saving" =>
            tx.stamp = now /\ tx.batch = Normalized(run.files, run.results)

(* Every event of b that has a record of the committed row id has them all *)
(* and no other: the row is only heard of as it was.                       *)
HeardWhole(b, id) ==
    \A i \in DOMAIN b : Touches(b, i, id) => Fingerprints(b[i]) = Recs(owner, id)

(* Such a row is as old as it was, and has its records, throughout.        *)
SameRow ==
    tx # None =>
      \A id \in LiveIn(rows) :
        HeardWhole(tx.batch, id) =>
          /\ Recs(tx.owner, id) = Recs(owner, id)
          /\ tx.rows[id] # None
          /\ tx.rows[id].first = rows[id].first

----------------------------------------------------------------------------
(* The stages, and the store underneath                                    *)

LEMMA PipelineInit == SyncInit => PipelineOK
  BY DEF SyncInit, Init, PipelineOK

LEMMA StartRun ==
    ASSUME PipelineOK, Start
    PROVE  /\ tx = None /\ run' \in Run /\ run' # None /\ run'.stage = "loaded" /\ Tick
  <1>1. PICK answers \in Fetched :
          run' = [files |-> files, results |-> answers, stage |-> "loaded"]
    BY DEF Start
  <1>2. run' \in Run /\ run'.stage = "loaded"
    BY <1>1 DEF PipelineOK, Run, Stages
  <1> QED
    BY <1>2, NoRunAssumption DEF Start, PipelineOK

LEMMA GotoStage ==
    ASSUME PipelineOK, run # None, NEW stage \in Stages, Goto(stage)
    PROVE  /\ run' \in Run /\ run' # None /\ run'.stage = stage
           /\ run'.files = run.files /\ run'.results = run.results
  <1>1. run \in Run
    BY DEF PipelineOK
  <1>2. run' = [run EXCEPT !.stage = stage]
    BY DEF Goto
  <1>3. run' \in Run
    BY <1>1, <1>2 DEF Run
  <1> QED
    BY <1>1, <1>2, <1>3, NoRunAssumption DEF Run

(* Every step of the two commands is one of the store's, or none.          *)
LEMMA SyncStepIsNext == PipelineOK /\ [SyncNext]_allVars => [Next]_vars
  <1> SUFFICES ASSUME PipelineOK, SyncNext
               PROVE  [Next]_vars
    BY DEF allVars, vars
  <1>1. CASE Mirror
    <2>1. Mirrored(run.files) \in Registries
      BY <1>1, MirroredAssumption DEF Mirror, At, PipelineOK, Run
    <2> QED
      BY <1>1, <2>1 DEF Mirror, Next
  <1>2. CASE Save
    <2>1. Normalized(run.files, run.results) \in Batches
      BY <1>2, NormalizedAssumption DEF Save, At, PipelineOK, Run
    <2> QED
      BY <1>2, <2>1 DEF Save, Next
  <1>3. CASE Start \/ SaveEvent \/ Saved \/ Refuse \/ Die
    BY <1>3 DEF Start, SaveEvent, Saved, Refuse, Die, Next
  <1>4. CASE Edit \/ SaveNothing \/ Fail \/ Export
    BY <1>4 DEF Edit, SaveNothing, Fail, Export
  <1> QED
    BY <1>1, <1>2, <1>3, <1>4 DEF SyncNext

StoreInv == DbInv /\ TimeInv /\ ShelfInv /\ OwnRow /\ SameRow

LEMMA StoreInvInit == SyncInit => StoreInv
  <1> SUFFICES ASSUME Init
               PROVE  TimeInv /\ OwnRow /\ SameRow
    BY DbInvInit, ShelfInvInit DEF SyncInit, StoreInv
  <1> QED
    BY DEF Init, TimeInv, LiveIn, Dated, OwnRow, SameRow

LEMMA PipelineStep == DbInv /\ DbInv' /\ TimeInv /\ PipelineOK /\ [SyncNext]_allVars => PipelineOK'
  <1> SUFFICES ASSUME DbInv, DbInv', TimeInv, PipelineOK, [SyncNext]_allVars
               PROVE  PipelineOK'
    OBVIOUS
  <1> USE DEF PipelineOK, Stages
  <1>1. CASE UNCHANGED allVars
    BY <1>1 DEF allVars, vars, pipeline
  <1>2. CASE Edit
    BY <1>2 DEF Edit, vars
  <1>3. CASE Start
    BY <1>3, StartRun DEF Start, Tick
  <1>4. CASE Mirror
    BY <1>4, GotoStage DEF Mirror, At, SyncRegistry
  <1>5. CASE Save
    <2>1. Normalized(run.files, run.results) \in Batches
      BY <1>5, NormalizedAssumption DEF Save, At, Run
    <2>2. tx' # None
      BY <1>5, <2>1, BeginStep, NoTxAssumption DEF Save, DbInv
    <2> QED
      BY <1>5, <2>2, GotoStage DEF Save, At
  <1>6. CASE SaveNothing
    BY <1>6, GotoStage DEF SaveNothing, At, vars
  <1>7. CASE SaveEvent
    <2>1. tx # None /\ tx' # None
      BY <1>7, InsertStep, UpdateStep, NoTxAssumption DEF SaveEvent, Insert, Update, DbInv
    <2> QED
      BY <1>7, <2>1 DEF SaveEvent, pipeline
  <1>8. CASE Saved
    BY <1>8, GotoStage DEF Saved, Commit
  <1>9. CASE Refuse
    BY <1>9 DEF Refuse, Rollback
  <1>10. CASE Die
    BY <1>10 DEF Die, Rollback, vars
  <1>11. CASE Fail
    BY <1>11 DEF Fail, At, vars
  <1>12. CASE Export
    <2>1. LastSynced(rows) \in Nat /\ now \in Nat
      <3>1. rows \in [Fps -> Row \cup {None}] /\ now \in Nat
        BY DEF DbInv, TypeOK
      <3> QED
        BY <3>1, NewestIsLast, EmptyIsZero DEF TimeInv
    <2>2. Upcoming(now) \subseteq Fps
      BY DEF Upcoming, LiveIn
    <2>3. listing' = [at |-> IF LastSynced(rows) = 0 THEN now ELSE LastSynced(rows),
                      events |-> Upcoming(now)]
      BY <1>12 DEF Export
    <2>4. listing' \in [at : Nat, events : SUBSET Fps]
      BY <2>1, <2>2, <2>3
    <2> QED
      BY <1>12, <2>4 DEF Export, At, vars
  <1> QED
    BY <1>1, <1>2, <1>3, <1>4, <1>5, <1>6, <1>7, <1>8, <1>9, <1>10, <1>11, <1>12 DEF SyncNext

----------------------------------------------------------------------------
(* SameRow is invariant                                                    *)

(* A save that leaves such a row alone, or saves its very event.           *)
LEMMA SavesSameRow ==
    ASSUME DbInv, TimeInv, ShelfInv, SameRow, tx # None, tx.done < Len(tx.batch),
           UNCHANGED <<rows, owner>>, NEW k, Saves(Current(tx), k)
    PROVE  SameRow'
  <1> DEFINE e == Current(tx)
             n == tx.done + 1
  <1>1. /\ tx \in Tx /\ e = tx.batch[n] /\ n \in DOMAIN tx.batch /\ tx'.batch = tx.batch
        /\ TxTables /\ tx.rows \in [Fps -> Row \cup {None}] /\ tx.stamp \in Nat
    BY CurrentEvent DEF Saves, DbInv, ShelfInv, Tx
  <1>2. /\ Recs(tx'.owner, k) = Fingerprints(e)
        /\ Found(tx, e) \subseteq LiveIn(tx.rows)
        /\ \A q \in LiveIn(tx.rows) :
              q \in Found(tx, e) <=> Recs(tx.owner, q) \cap Fingerprints(e) # {}
        /\ \A q \in LiveIn(tx.rows) \ Found(tx, e) :
              tx'.rows[q] = tx.rows[q] /\ Recs(tx'.owner, q) = Recs(tx.owner, q)
    BY SavedRows
  <1>3. /\ k \in Found(tx, e) \/ Found(tx, e) = {}
        /\ tx'.rows[k] # None
        /\ tx'.rows[k].first \in Ageing(e)
        /\ \A age \in Ageing(e) : tx'.rows[k].first <= age
    BY NoneAssumption DEF Saves
  <1> HIDE DEF e, n
  <1>4. ASSUME NEW id \in LiveIn(rows), HeardWhole(tx.batch, id)
        PROVE  /\ Recs(tx'.owner, id) = Recs(owner, id)
               /\ tx'.rows[id] # None
               /\ tx'.rows[id].first = rows[id].first
    <2>1. /\ Recs(tx.owner, id) = Recs(owner, id) /\ tx.rows[id].first = rows[id].first
          /\ id \in LiveIn(tx.rows)
      BY <1>4 DEF SameRow, LiveIn
    <2>2. CASE ~Touches(tx.batch, n, id)
      <3>1. id \notin Found(tx, e)
        BY <1>1, <1>2, <2>1, <2>2 DEF Touches
      <3> QED
        BY <1>2, <2>1, <3>1 DEF LiveIn
    <2>3. CASE Touches(tx.batch, n, id)
      <3>1. Fingerprints(e) = Recs(tx.owner, id) /\ Fingerprints(e) # {}
        BY <1>1, <1>4, <2>1, <2>3 DEF HeardWhole, Touches
      <3>2. Found(tx, e) = {id}
        <4>1. id \in Found(tx, e)
          BY <1>2, <2>1, <3>1
        <4>2. \A q \in Found(tx, e) : q = id
          BY <1>2, <3>1, RecsApart
        <4> QED
          BY <4>1, <4>2
      <3>3. k = id
        BY <1>3, <3>2
      <3>4. tx.rows[id].first \in Nat /\ tx.rows[id].first <= tx.stamp
        <4>1. tx.rows[id] \in Row /\ tx.rows[id].first <= tx.rows[id].last
          BY <1>1, <2>1 DEF LiveIn, TxTables, Kept
        <4>2. tx.rows[id].last <= tx.stamp
          BY <2>1 DEF TimeInv, Dated, LiveIn
        <4> QED
          BY <1>1, <4>1, <4>2 DEF Row
      <3>5. Ageing(e) = {tx.stamp, tx.rows[id].first}
        BY <3>2 DEF Ageing
      <3>6. tx'.rows[id].first = tx.rows[id].first
        BY <1>1, <1>3, <3>3, <3>4, <3>5
      <3> QED
        BY <1>2, <1>3, <2>1, <3>1, <3>3, <3>6
    <2> QED
      BY <2>2, <2>3
  <1>5. /\ LiveIn(rows)' = LiveIn(rows) /\ \A id : Recs(owner, id)' = Recs(owner, id)
        /\ \A id : Recs(tx.owner, id)' = Recs(tx'.owner, id)
    BY DEF LiveIn, Recs
  <1>6. \A id : HeardWhole(tx.batch, id)' <=> HeardWhole(tx.batch, id)
    BY <1>1 DEF HeardWhole, Touches, Recs, Fingerprints
  <1> QED
    BY <1>4, <1>5, <1>6 DEF SameRow

LEMMA SameRowStep == DbInv /\ TimeInv /\ ShelfInv /\ SameRow /\ [Next]_vars => SameRow'
  <1> SUFFICES ASSUME DbInv, TimeInv, ShelfInv, SameRow, [Next]_vars
               PROVE  SameRow'
    OBVIOUS
  <1>1. ASSUME NEW b \in Batches, SaveBegin(b)
        PROVE  SameRow'
    <2>1. tx'.rows = rows' /\ tx'.owner = owner'
      BY <1>1, BeginStep DEF DbInv, SaveBegin
    <2>2. \A id \in LiveIn(rows)' : rows'[id] # None
      BY DEF LiveIn
    <2> QED
      BY <2>1, <2>2 DEF SameRow, Recs
  <1>2. CASE Insert
    BY <1>2, InsertSaves, SavesSameRow DEF Insert
  <1>3. CASE Update
    <2>1. PICK id : Saves(Current(tx), id)
      BY <1>3, UpdateSaves
    <2> QED
      BY <1>3, <2>1, SavesSameRow DEF Update
  <1>4. CASE Commit \/ Rollback
    BY <1>4 DEF Commit, Rollback, SameRow
  <1>5. CASE UNCHANGED <<rows, owner, tx>>
    <2>1. \A id : HeardWhole(tx.batch, id)' <=> HeardWhole(tx.batch, id)
      BY <1>5 DEF HeardWhole, Touches, Recs, Fingerprints
    <2> QED
      BY <1>5, <2>1 DEF SameRow, LiveIn, Recs
  <1> QED
    BY <1>1, <1>2, <1>3, <1>4, <1>5 DEF Next, Tick, SyncRegistry, vars

LEMMA StoreInvStep == StoreInv /\ [Next]_vars => StoreInv'
  BY DbInvStep, TimeInvStep, ShelfInvStep, OwnRowStep, SameRowStep DEF StoreInv

----------------------------------------------------------------------------
(* StageInv is invariant                                                   *)

LEMMA StageInvStep == StoreInv /\ PipelineOK /\ StageInv /\ [SyncNext]_allVars => StageInv'
  <1> SUFFICES ASSUME StoreInv, PipelineOK, StageInv, [SyncNext]_allVars
               PROVE  StageInv'
    OBVIOUS
  <1>1. CASE UNCHANGED <<vars, run>>
    BY <1>1 DEF StageInv, Unstamped, LiveIn, Signs, vars
  <1>2. CASE Start
    <2>1. run' # None /\ run'.stage = "loaded" /\ now' = now + 1 /\ rows' = rows
      BY <1>2, StartRun DEF Tick
    <2>2. \A f \in LiveIn(rows) : rows[f].last <= now /\ rows[f].last \in Nat
      BY DEF StoreInv, TimeInv, Dated, DbInv, TypeOK, LiveIn, Row
    <2>3. now \in Nat
      BY DEF StoreInv, DbInv, TypeOK
    <2>4. Unstamped'
      BY <2>1, <2>2, <2>3 DEF Unstamped, LiveIn
    <2> QED
      BY <2>1, <2>4 DEF StageInv
  <1>3. CASE Mirror
    <2> DEFINE fl == run.files
    <2>1. run # None /\ run.stage = "loaded" /\ SyncRegistry(Mirrored(fl)) /\ fl \in Files
      BY <1>3 DEF Mirror, At, PipelineOK, Run
    <2>2. run'.files = fl /\ run'.stage = "mirrored"
      BY <1>3, <2>1, GotoStage DEF Mirror, Stages
    <2>3. Mirrored(fl) \in Registry
      BY <2>1, MirroredAssumption, RegistriesAssumption
    <2> DEFINE reg == Mirrored(fl)
    <2>4. reg.groups = fl.groups /\ reg.verified = fl.verified /\ fl.groups \subseteq Groups
      <3>1. reg.groups = fl.groups /\ reg.verified = fl.verified
        BY DEF Mirrored
      <3> HIDE DEF reg
      <3> QED
        BY <2>3, <3>1 DEF Registry, reg
    <2>5. UNCHANGED <<rows, now>> /\ \A g \in Groups : g \in reg.groups =>
             groups'[g] = IF g \in reg.verified THEN "verified" ELSE "unverified"
      BY <2>1 DEF SyncRegistry
    <2> HIDE DEF reg
    <2>6. \A g \in run'.files.groups : groups'[g] = "verified" <=> g \in run'.files.verified
      BY <2>2, <2>4, <2>5
    <2>7. Unstamped'
      BY <2>1, <2>5 DEF StageInv, Unstamped, LiveIn
    <2> QED
      BY <2>2, <2>6, <2>7 DEF StageInv, Signs
  <1>4. CASE Save
    <2> DEFINE b == Normalized(run.files, run.results)
    <2>1. run # None /\ run.stage = "mirrored" /\ SaveBegin(b) /\ b \in Batches
      BY <1>4, NormalizedAssumption DEF Save, At, PipelineOK, Run
    <2>2. tx'.batch = b /\ tx'.stamp = now
      BY <2>1, BeginStep DEF StoreInv, DbInv
    <2>3. run'.files = run.files /\ run'.results = run.results /\ run'.stage = "saving"
      BY <1>4, <2>1, GotoStage DEF Save, Stages
    <2>4. UNCHANGED <<groups, rows, now>>
      BY <2>1 DEF SaveBegin
    <2> QED
      BY <2>1, <2>2, <2>3, <2>4 DEF StageInv, Unstamped, LiveIn, Signs
  <1>5. CASE SaveEvent
    <2>1. /\ tx'.batch = tx.batch /\ tx'.stamp = tx.stamp /\ UNCHANGED <<groups, rows, now, run>>
      BY <1>5, InsertStep, UpdateStep DEF SaveEvent, Insert, Update, pipeline, StoreInv, DbInv
    <2> QED
      BY <2>1 DEF StageInv, Unstamped, LiveIn, Signs
  <1>6. CASE SaveNothing \/ Saved
    <2>1. run # None /\ run.stage # "loaded" /\ UNCHANGED groups /\ Goto("done")
      BY <1>6 DEF SaveNothing, Saved, Commit, At, vars, PipelineOK
    <2>2. run'.files = run.files /\ run'.stage = "done"
      BY <2>1, GotoStage DEF Stages
    <2> QED
      BY <2>1, <2>2 DEF StageInv, Signs
  <1>7. CASE run' = None
    BY <1>7 DEF StageInv
  <1> QED
    BY <1>1, <1>2, <1>3, <1>4, <1>5, <1>6, <1>7
       DEF SyncNext, Edit, Refuse, Die, Fail, Export, allVars, pipeline

SyncInv == StoreInv /\ PipelineOK /\ StageInv

LEMMA SyncInvInit == SyncInit => SyncInv
  BY StoreInvInit, PipelineInit DEF SyncInit, SyncInv, StageInv

LEMMA SyncInvStep == SyncInv /\ [SyncNext]_allVars => SyncInv'
  <1> SUFFICES ASSUME SyncInv, [SyncNext]_allVars
               PROVE  SyncInv'
    OBVIOUS
  <1>1. StoreInv'
    BY SyncStepIsNext, StoreInvStep DEF SyncInv
  <1>2. PipelineOK'
    BY <1>1, PipelineStep DEF SyncInv, StoreInv
  <1> QED
    BY <1>1, <1>2, StageInvStep DEF SyncInv

LEMMA SyncInvariant == SyncSpec => []SyncInv
  BY SyncInvInit, SyncInvStep, PTL DEF SyncSpec

(* A transaction is open exactly while its run saves, whatever dies, is    *)
(* refused or is edited.                                                   *)
THEOREM PipelineCorrect == SyncSpec => []PipelineOK
  BY SyncInvariant, PTL DEF SyncInv

(* The two commands write the database as Store says, so that everything   *)
(* proved of Store holds of them.                                          *)
THEOREM SyncIsStore == SyncSpec => Spec
  <1>1. SyncInit => Init
    BY DEF SyncInit
  <1> QED
    BY <1>1, SyncStepIsNext, SyncInvariant, PTL DEF SyncSpec, Spec, SyncInv

----------------------------------------------------------------------------
(* What normalize makes of the answers                                     *)

ToldBy(b) == {<<<<b[i].group, b[i].start>>, Fingerprints(b[i])>> : i \in DOMAIN b}

LEMMA MeetingsSame ==
    ASSUME NEW r, NEW q, r.files = q.files, r.results = q.results
    PROVE  Meetings(r) = Meetings(q)
  BY DEF Meetings, HeardBy

(* The records heard                                                       *)

(* There are finitely many places in the answers, each with a record of    *)
(* the feed that gave the answer.                                          *)
LEMMA ListedPlaces ==
    ASSUME NEW fl, NEW results \in Fetched
    PROVE  LET L == Listed(fl, results) IN
           /\ IsFiniteSet(L)
           /\ \A p \in L : /\ p = <<p[1], p[2]>> /\ p[1] \in Feeds /\ p[2] \in Nat
                           /\ results[p[1]][p[2]] \in Upstream
                           /\ results[p[1]][p[2]].feed = p[1]
  <1> DEFINE D == DOMAIN Loaded(fl).owner
             heard == {f \in D : results[f] # None}
             part == [f \in heard |-> {f} \X DOMAIN results[f]]
             parts == {part[f] : f \in heard}
             L == Listed(fl, results)
  <1>1. D \subseteq Feeds
    BY CatalogAssumption DEF Loaded
  <1>2. L = UNION {{f} \X DOMAIN results[f] : f \in heard}
    BY DEF Listed
  <1> HIDE DEF D, L
  <1>3. L = UNION parts
    BY <1>2
  <1>4. \A f \in heard : /\ f \in Feeds
                         /\ results[f] \in Seq(Upstream)
                         /\ \A k \in DOMAIN results[f] : results[f][k].feed = f
    BY <1>1, AnswersAssumption DEF Fetched
  <1>5. IsFiniteSet(heard)
    <2>1. PICK n \in Nat : DOMAIN Sources = 1 .. n
      BY SourcesAssumption
    <2>2. IsFiniteSet(DOMAIN Sources)
      BY <2>1, FS_Interval
    <2>3. IsFiniteSet({Sources[i] : i \in DOMAIN Sources})
      BY <2>2, ImageFinite
    <2>4. heard \subseteq {Sources[i] : i \in DOMAIN Sources}
      BY <1>1, SourcesAssumption
    <2> QED
      BY <2>3, <2>4, FS_Subset
  <1>6. IsFiniteSet(parts)
    <2> HIDE DEF heard
    <2>1. DOMAIN part = heard
      OBVIOUS
    <2> HIDE DEF part
    <2> QED
      BY <1>5, <2>1, ImageFinite
  <1>7. ASSUME NEW f \in heard
        PROVE  IsFiniteSet(part[f])
    <2>1. PICK n \in Nat : DOMAIN results[f] = 1 .. n
      BY <1>4, <1>7
    <2>2. IsFiniteSet(DOMAIN results[f])
      BY <2>1, FS_Interval
    <2>3. IsFiniteSet({f})
      BY FS_Singleton
    <2> QED
      BY <2>2, <2>3, FS_Product
  <1>8. IsFiniteSet(L)
    <2>1. \A S \in parts : IsFiniteSet(S)
      BY <1>7
    <2> HIDE DEF parts
    <2> QED
      BY <1>3, <1>6, <2>1, FS_UNION
  <1>9. ASSUME NEW p \in L
        PROVE  /\ p = <<p[1], p[2]>> /\ p[1] \in Feeds /\ p[2] \in Nat
               /\ results[p[1]][p[2]] \in Upstream
               /\ results[p[1]][p[2]].feed = p[1]
    <2>1. PICK f \in heard : p \in {f} \X DOMAIN results[f]
      BY <1>2, <1>9
    <2>2. p = <<p[1], p[2]>> /\ p[1] = f /\ p[2] \in DOMAIN results[f]
      BY <2>1
    <2>3. p[2] \in Nat /\ results[f][p[2]] \in Upstream /\ results[f][p[2]].feed = f
      BY <1>4, <2>1, <2>2
    <2> QED
      BY <1>4, <2>1, <2>2, <2>3
  <1> QED
    BY <1>8, <1>9 DEF L

(* The records are heard answer by answer, each place once.                *)
LEMMA HeardLists ==
    ASSUME NEW fl, NEW results \in Fetched
    PROVE  \E order :
             /\ Lists(order, Listed(fl, results))
             /\ Heard(fl, results) = [n \in DOMAIN order |-> results[order[n][1]][order[n][2]]]
  <1> DEFINE L == Listed(fl, results)
             below == [p \in L |-> {q \in L : Earlier(q, p)}]
             t(p) == Turn(p[1])
             u(p) == p[2]
  <1>1. /\ IsFiniteSet(L)
        /\ \A p \in L : p = <<p[1], p[2]>> /\ p[1] \in Feeds /\ p[2] \in Nat
    BY ListedPlaces
  <1> HIDE DEF L
  <1>2. \A p \in L : t(p) \in Nat /\ Sources[t(p)] = p[1]
    <2>1. ASSUME NEW f \in Feeds
          PROVE  Turn(f) \in DOMAIN Sources /\ Sources[Turn(f)] = f
      BY SourcesAssumption DEF Turn
    <2> QED
      BY <1>1, <2>1, SourcesAssumption
  <1>3. \A p \in L : u(p) \in Nat
    BY <1>1
  <1>4. \A p, q \in L : t(p) = t(q) <=> p[1] = q[1]
    BY <1>2
  <1>5. \A p, q \in L : p[1] = q[1] /\ u(p) = u(q) => p = q
    BY <1>1
  <1>6. \A p, q \in L : q \in below[p] <=> t(q) < t(p) \/ (q[1] = p[1] /\ u(q) < u(p))
    BY DEF Earlier
  <1>7. DOMAIN below = L /\ \A p \in L : below[p] \subseteq L
    OBVIOUS
  <1>8. Heard(fl, results)
          = [n \in DOMAIN Ranked(below) |-> results[Ranked(below)[n][1]][Ranked(below)[n][2]]]
    BY DEF Heard, L
  <1> HIDE DEF below, t, u
  <1>9. \A p, q \in L : q \in below[p] <=> t(q) < t(p) \/ (t(q) = t(p) /\ u(q) < u(p))
    BY <1>4, <1>6
  <1>10. \A p, q \in L : t(p) = t(q) /\ u(p) = u(q) => p = q
    BY <1>4, <1>5
  <1>11. \A p \in L : p \notin below[p]
    BY <1>2, <1>3, <1>9
  <1>12. \A p, q \in L : p = q \/ q \in below[p] \/ p \in below[q]
    BY <1>2, <1>3, <1>9, <1>10
  <1>13. \A p, q, s \in L : q \in below[p] /\ s \in below[q] => s \in below[p]
    BY <1>2, <1>3, <1>9
  <1>14. Orders(below, L)
    BY <1>1, <1>7, <1>11, <1>12, <1>13 DEF Orders
  <1>15. Lists(Ranked(below), L)
    BY <1>14, RankedLists
  <1> QED
    BY <1>8, <1>15 DEF L

(* A run loads the maintainers' files over a catalogue that keeps its      *)
(* kinds and priorities.                                                   *)
LEMMA LoadedKeeps ==
    ASSUME NEW fl
    PROVE  /\ Loaded(fl).groups = fl.groups
           /\ Loaded(fl).priority = Catalog.priority
           /\ \A r : Fingerprint(Loaded(fl), r) = FpOf(r)
  <1>1. Loaded(fl).groups = fl.groups /\ Loaded(fl).priority = Catalog.priority
          /\ Loaded(fl).kind = Catalog.kind
    BY CatalogAssumption DEF Loaded
  <1> QED
    BY <1>1 DEF FpOf, Fingerprint

(* So what is heard is what normalize is proved to make events of.         *)
LEMMA HeardGiven ==
    ASSUME NEW fl, NEW results \in Fetched
    PROVE  /\ Given(Loaded(fl), Heard(fl, results))
           /\ \A i \in DOMAIN Heard(fl, results) :
                 Heard(fl, results)[i] \in Upstream /\ Heard(fl, results)[i].feed \in Feeds
  <1> DEFINE reg == Loaded(fl)
             raw == Heard(fl, results)
             L == Listed(fl, results)
  <1>1. PICK order :
          Lists(order, L) /\ raw = [n \in DOMAIN order |-> results[order[n][1]][order[n][2]]]
    BY HeardLists
  <1>2. \A p \in L : /\ p[1] \in Feeds
                     /\ results[p[1]][p[2]] \in Upstream
                     /\ results[p[1]][p[2]].feed = p[1]
    BY ListedPlaces
  <1>3. reg.priority = Catalog.priority
    BY LoadedKeeps
  <1> HIDE DEF reg, raw, L
  <1>4. \E n \in Nat : DOMAIN raw = 1 .. n
    BY <1>1 DEF Lists
  <1>5. \A i \in DOMAIN raw : raw[i] \in Upstream /\ raw[i].feed \in Feeds
    BY <1>1, <1>2 DEF Lists
  <1>6. Given(reg, raw)
    BY <1>3, <1>4, <1>5, CatalogAssumption, UpstreamAssumption DEF Given, Comparable
  <1> QED
    BY <1>5, <1>6 DEF reg, raw

(* A meeting told of is what collapse makes one event of.                  *)
LEMMA MeetingAtPlace ==
    ASSUME NEW reg, NEW raw, NEW i \in DOMAIN Clusters(reg, raw)
    PROVE  MeetingOf(reg, raw, i) = MeetingAt(reg, raw, i)
  <1> DEFINE c == Clusters(reg, raw)
             alike == {j \in DOMAIN raw :
                          /\ Resolvable(reg, raw[j])
                          /\ ClusterKey(reg, raw[j]) = ClusterKey(reg, raw[i])}
  <1>1. Divides(c, reg, raw)
    BY ClustersDivide
  <1>2. i \in DOMAIN c /\ MeetingAt(reg, raw, i) = IF DistinctFeeds(raw, c[i]) THEN c[i] ELSE {i}
    BY DEF MeetingAt, Collapse
  <1> HIDE DEF c
  <1>3. alike = c[i]
    BY <1>1, <1>2 DEF Divides
  <1>4. MeetingOf(reg, raw, i)
          = IF \E j, k \in alike : j # k /\ raw[j].feed = raw[k].feed THEN {i} ELSE alike
    BY DEF MeetingOf
  <1> HIDE DEF alike
  <1> QED
    BY <1>2, <1>3, <1>4 DEF DistinctFeeds

LEMMA StoredTells ==
    ASSUME NEW events
    PROVE  ToldBy(Stored(events)) = Tales(events)
  <1>1. \A i \in DOMAIN events :
          /\ Stored(events)[i].group = events[i].group /\ Stored(events)[i].start = events[i].start
          /\ Stored(events)[i].recs = events[i].recs
    BY DEF Stored, Columns
  <1>2. DOMAIN Stored(events) = DOMAIN events
    BY DEF Stored
  <1>3. \A i \in DOMAIN events : Fingerprints(Stored(events)[i]) = RecFps(events[i])
    BY <1>1 DEF Fingerprints, RecFps
  <1> QED
    BY <1>1, <1>2, <1>3 DEF ToldBy, Tales

(* What normalize gives the store is the meetings the answers tell of.     *)
LEMMA ToldIsMeetings ==
    ASSUME NEW r \in Run
    PROVE  ToldBy(Normalized(r.files, r.results)) = Meetings(r)
  <1> DEFINE reg == Loaded(r.files)
             raw == Heard(r.files, r.results)
             rej == r.files.rejects
             c == Clusters(reg, raw)
             Fine(i) == \A j \in MeetingAt(reg, raw, i) : FpAt(reg, raw, j) \notin rej
             I == {i \in DOMAIN raw : Resolvable(reg, raw[i]) /\ Fine(i)}
             Said(i) == <<ClusterKey(reg, raw[i]), {FpAt(reg, raw, j) : j \in MeetingAt(reg, raw, i)}>>
             Of(M) == <<ClusterKey(reg, raw[CHOOSE i \in M : TRUE]), {FpOf(raw[i]) : i \in M}>>
             all == {MeetingOf(reg, raw, i) : i \in {i \in DOMAIN raw : Resolvable(reg, raw[i])}}
             kept == {M \in all : \A i \in M : FpOf(raw[i]) \notin rej}
  <1>1. Given(reg, raw)
    BY HeardGiven DEF Run
  <1>2. Tales(Events(reg, rej, raw)) = {Said(i) : i \in I}
    BY <1>1, EventsTell
  <1>3. ToldBy(Normalized(r.files, r.results)) = Tales(Events(reg, rej, raw))
    BY StoredTells DEF Normalized
  <1>4. Meetings(r) = {Of(M) : M \in kept}
    BY DEF Meetings, HeardBy
  <1>5. \A q : Fingerprint(reg, q) = FpOf(q)
    BY LoadedKeeps
  <1>6. Divides(c, reg, raw) /\ Partition(c, reg, raw)
    BY ClustersDivide, CollapsedDivide
  <1>7. \A i \in DOMAIN c : /\ i \in MeetingAt(reg, raw, i)
                            /\ MeetingAt(reg, raw, i) \in Collapsed(raw, c)
    BY <1>6 DEF MeetingAt, Collapsed, Partition
  <1>8. DOMAIN c = {i \in DOMAIN raw : Resolvable(reg, raw[i])}
    BY <1>6 DEF Divides
  <1> DEFINE meeting(i) == MeetingAt(reg, raw, i)
  <1>9. all = {meeting(i) : i \in DOMAIN c}
    <2>1. \A i \in DOMAIN c : MeetingOf(reg, raw, i) = meeting(i)
      <3> HIDE DEF reg, raw
      <3> QED
        BY MeetingAtPlace
    <2> HIDE DEF reg, raw, c, meeting
    <2> QED
      BY <1>8, <2>1
  <1> HIDE DEF reg, raw, rej, c
  <1>10. ASSUME NEW i \in DOMAIN c
         PROVE  /\ (\A j \in meeting(i) : FpOf(raw[j]) \notin rej) <=> Fine(i)
                /\ Of(meeting(i)) = Said(i)
    <2>1. {FpOf(raw[j]) : j \in meeting(i)} = {FpAt(reg, raw, j) : j \in meeting(i)}
      BY <1>5 DEF FpAt
    <2>2. (\A j \in meeting(i) : FpOf(raw[j]) \notin rej) <=> Fine(i)
      BY <1>5 DEF FpAt
    <2>3. (CHOOSE j \in meeting(i) : TRUE) \in meeting(i)
      BY <1>7
    <2>4. \A j \in meeting(i) : ClusterKey(reg, raw[j]) = ClusterKey(reg, raw[i])
      BY <1>6, <1>7 DEF Partition
    <2> HIDE DEF meeting
    <2>5. ClusterKey(reg, raw[CHOOSE j \in meeting(i) : TRUE]) = ClusterKey(reg, raw[i])
      BY <2>3, <2>4
    <2> QED
      BY <2>1, <2>2, <2>5 DEF meeting
  <1>11. I = {i \in DOMAIN c : Fine(i)}
    BY <1>8
  <1> HIDE DEF Fine, Of, Said, meeting, all, I
  <1>12. kept = {meeting(i) : i \in I}
    BY <1>9, <1>10, <1>11
  <1> HIDE DEF kept
  <1>13. {Of(M) : M \in kept} = {Said(i) : i \in I}
    BY <1>10, <1>11, <1>12
  <1> QED
    BY <1>2, <1>3, <1>4, <1>13

(* Every event is of a group of the files, and made of records heard.      *)
LEMMA EventsHeard ==
    ASSUME NEW r \in Run, NEW i \in DOMAIN Normalized(r.files, r.results)
    PROVE  LET e == Normalized(r.files, r.results)[i] IN
           /\ e.group \in r.files.groups
           /\ \A f \in Fingerprints(e) : \E q \in ToSet(HeardBy(r)) : FpOf(q) = f
  <1> DEFINE e == Normalized(r.files, r.results)[i]
             reg == Loaded(r.files)
             raw == HeardBy(r)
  <1>1. <<<<e.group, e.start>>, Fingerprints(e)>> \in Meetings(r)
    BY ToldIsMeetings DEF ToldBy
  <1>2. PICK k \in {k \in DOMAIN raw : Resolvable(reg, raw[k])} :
          <<<<e.group, e.start>>, Fingerprints(e)>> =
            <<ClusterKey(reg, raw[CHOOSE p \in MeetingOf(reg, raw, k) : TRUE]),
              {FpOf(raw[p]) : p \in MeetingOf(reg, raw, k)}>>
    BY <1>1 DEF Meetings
  <1> DEFINE M == MeetingOf(reg, raw, k)
             p == CHOOSE p \in M : TRUE
  <1>3. M \subseteq {j \in DOMAIN raw : Resolvable(reg, raw[j])} /\ k \in M
    BY DEF MeetingOf
  <1>4. p \in M
    BY <1>3
  <1>5. <<e.group, e.start>> = ClusterKey(reg, raw[p]) /\ Fingerprints(e) = {FpOf(raw[j]) : j \in M}
    BY <1>2
  <1> HIDE DEF e, p, M
  <1>6. e.group = GroupFor(reg, raw[p])
    BY <1>5 DEF ClusterKey
  <1>7. GroupFor(reg, raw[p]) \in reg.groups
    BY <1>3, <1>4 DEF Resolvable
  <1>8. reg.groups = r.files.groups
    BY CatalogAssumption DEF Loaded
  <1>9. \A f \in Fingerprints(e) : \E q \in ToSet(raw) : FpOf(q) = f
    BY <1>3, <1>5 DEF ToSet
  <1> QED
    BY <1>6, <1>7, <1>8, <1>9 DEF e

(* Batches need hold no more than what SaveEvents may be given: whatever   *)
(* the sources answer, normalize hands it events of the store's kind, each *)
(* led by the record that names it, and only a record given twice is in    *)
(* two of them.                                                            *)
THEOREM NormalizedFits ==
    ASSUME NEW fl \in Files, NEW answers \in Fetched
    PROVE  LET b == Normalized(fl, answers) IN
           /\ b \in Seq(Event)
           /\ BatchOK(b)
           /\ DistinctFps(Loaded(fl), Heard(fl, answers)) =>
                 \A i, j \in DOMAIN b : Fingerprints(b[i]) \cap Fingerprints(b[j]) # {} => i = j
  <1> DEFINE reg == Loaded(fl)
             raw == Heard(fl, answers)
             events == Events(reg, fl.rejects, raw)
             b == Normalized(fl, answers)
  <1>1. /\ Given(reg, raw)
        /\ \A i \in DOMAIN raw : raw[i] \in Upstream /\ raw[i].feed \in Feeds
    BY HeardGiven
  <1>2. PICK order :
          /\ Lists(order, Unrejected(reg, fl.rejects, raw))
          /\ DOMAIN events = DOMAIN order
          /\ \A k \in DOMAIN order : MadeOf(events[k], reg, raw, order[k])
    BY <1>1, EventsList
  <1>3. /\ \A k \in DOMAIN events :
              /\ 1 \in DOMAIN events[k].recs
              /\ events[k].fp = events[k].recs[1].fp
        /\ DistinctFps(reg, raw) =>
              \A k, l \in DOMAIN events : \A m \in DOMAIN events[k].recs, n \in DOMAIN events[l].recs :
                 events[k].recs[m].fp = events[l].recs[n].fp => k = l /\ m = n
    BY <1>1, EventsFit
  <1>6. reg.groups = fl.groups /\ \A r : Fingerprint(reg, r) = FpOf(r)
    BY LoadedKeeps
  <1>7. fl.groups \subseteq Groups
    <2> DEFINE m == Mirrored(fl)
    <2>1. m \in Registry /\ m.groups = fl.groups
      BY MirroredAssumption, RegistriesAssumption DEF Mirrored
    <2> HIDE DEF m
    <2> QED
      BY <2>1 DEF Registry
  <1>8. \A k \in DOMAIN order : /\ order[k] \in SUBSET DOMAIN raw
                              /\ \A i \in order[k] : Resolvable(reg, raw[i])
    <2> DEFINE c == Clusters(reg, raw)
    <2>1. Divides(c, reg, raw) /\ Partition(c, reg, raw)
      BY ClustersDivide, CollapsedDivide
    <2>2. \A k \in DOMAIN order : order[k] \in Collapsed(raw, c)
      BY <1>2 DEF Lists, Unrejected
    <2> HIDE DEF c, reg, raw
    <2>3. \A k \in DOMAIN order : order[k] \in SUBSET DOMAIN raw /\ order[k] \subseteq DOMAIN c
      BY <2>1, <2>2 DEF Partition
    <2> QED
      BY <2>1, <2>3 DEF Divides
  <1>9. /\ DOMAIN b = DOMAIN events
        /\ \A k \in DOMAIN events : b[k] = Columns(events[k])
    BY DEF Normalized, Stored
  <1>10. DOMAIN order = 1 .. Cardinality(Unrejected(reg, fl.rejects, raw))
           /\ Cardinality(Unrejected(reg, fl.rejects, raw)) \in Nat
    BY <1>2 DEF Lists
  <1> HIDE DEF reg, raw, events, b
  <1>11. \A i \in DOMAIN raw : raw[i] \in Upstream /\ raw[i].feed \in Feeds
    BY <1>1
  <1>12. \A i \in DOMAIN raw : FpAt(reg, raw, i) \in Fps /\ raw[i].start \in Starts
    BY <1>6, <1>11, UpstreamAssumption DEF FpAt
  <1>13. ASSUME NEW k \in DOMAIN events
         PROVE  b[k] \in Event
    <2> DEFINE e == events[k]
    <2>1. k \in DOMAIN order /\ MadeOf(e, reg, raw, order[k])
      BY <1>2, <1>13
    <2>2. PICK i \in order[k] : e.group = GroupFor(reg, raw[i]) /\ e.start = raw[i].start
      BY <2>1 DEF MadeOf
    <2>3. PICK o : /\ Lists(o, order[k])
                   /\ e.recs = [m \in DOMAIN o |->
                        [fp |-> FpAt(reg, raw, o[m]), feed |-> raw[o[m]].feed]]
      BY <2>1 DEF MadeOf
    <2>4. e.recs \in Seq(Record)
      <3>1. \A m \in DOMAIN o : o[m] \in DOMAIN raw
        BY <1>8, <2>1, <2>3 DEF Lists
      <3>2. \A m \in DOMAIN o : FpAt(reg, raw, o[m]) \in Fps /\ raw[o[m]].feed \in Feeds
        BY <1>11, <1>12, <3>1
      <3>3. \A m \in DOMAIN o : [fp |-> FpAt(reg, raw, o[m]), feed |-> raw[o[m]].feed] \in Record
        BY <3>2 DEF Record
      <3>4. DOMAIN o = 1 .. Cardinality(order[k]) /\ Cardinality(order[k]) \in Nat
        BY <2>3 DEF Lists
      <3> HIDE DEF e
      <3> QED
        BY <2>3, <3>3, <3>4
    <2>5. e.group \in Groups /\ e.start \in Starts
      BY <1>6, <1>7, <1>8, <1>12, <2>1, <2>2 DEF Resolvable
    <2>6. e.fp \in Fps
      <3>1. e.fp = e.recs[1].fp /\ 1 \in DOMAIN e.recs
        BY <1>3, <1>13
      <3> HIDE DEF e
      <3>2. e.recs[1] \in Record
        BY <2>4, <3>1
      <3> QED
        BY <3>1, <3>2 DEF Record
    <2> HIDE DEF e
    <2>7. Columns(e) \in Event
      BY <2>4, <2>5, <2>6 DEF Columns, Event
    <2> QED
      BY <1>9, <2>7 DEF e
  <1>14. b \in Seq(Event)
    <2>1. b = [k \in DOMAIN order |-> b[k]]
      BY <1>2, <1>9 DEF b, Normalized, Stored, events
    <2> QED
      BY <1>2, <1>10, <1>13, <2>1
  <1>15. \A k \in DOMAIN b : b[k].fp = events[k].fp /\ b[k].recs = events[k].recs
    BY <1>9 DEF Columns
  <1>16. BatchOK(b)
    BY <1>3, <1>9, <1>15 DEF BatchOK, Fingerprints
  <1>17. DistinctFps(reg, raw) =>
           \A k, l \in DOMAIN b : Fingerprints(b[k]) \cap Fingerprints(b[l]) # {} => k = l
    BY <1>3, <1>9, <1>15 DEF Fingerprints
  <1> QED
    BY <1>14, <1>16, <1>17 DEF b, reg, raw

----------------------------------------------------------------------------
(* What a run leaves behind                                                *)

(* The rows with the stamp of an open transaction are those of its events. *)
LEMMA StampedAreSaved ==
    ASSUME DbInv, ShelfInv, tx # None, NEW id \in LiveIn(tx.rows), tx.rows[id].last = tx.stamp,
           \A q \in LiveIn(rows) : rows[q].last < tx.stamp
    PROVE  \E i \in 1 .. tx.done : RowOf(tx.batch[i], id)
  <1>1. TxTables /\ tx.stamp \in Nat
    BY DEF ShelfInv, DbInv, TypeOK
  <1>2. CASE id \in LiveIn(rows) /\ Untouched(id)
    <2>1. tx.rows[id] = rows[id] /\ rows[id].last < tx.stamp /\ rows[id].last \in Nat
      BY <1>1, <1>2 DEF TxTables, DbInv, TypeOK, LiveIn, Row
    <2> QED
      BY <1>1, <2>1
  <1> QED
    BY <1>1, <1>2 DEF TxTables

(* What the commit of a run with no earlier row of its stamp leaves: rows  *)
(* of the events it was given, and of all but those that a later event has *)
(* a record of and tells otherwise.                                        *)
LEMMA CommitTells ==
    ASSUME DbInv, ShelfInv, OwnRow, Commit, tx.stamp = now, Unstamped
    PROVE  /\ StoredMeetings' \subseteq ToldBy(tx.batch)
           /\ \A m \in ToldBy(tx.batch) \ StoredMeetings' :
                 \E n \in ToldBy(tx.batch) \ {m} : m[2] \cap n[2] # {}
           /\ \A id \in Written' : \E i \in DOMAIN tx.batch :
                 /\ rows'[id].group = tx.batch[i].group
                 /\ rows'[id].status = StatusFor(tx.batch[i].group)
  <1> DEFINE b == tx.batch
             tale(i) == <<<<b[i].group, b[i].start>>, Fingerprints(b[i])>>
             pair(id) == <<<<rows'[id].group, rows'[id].start>>, {f \in Fps : owner'[f] = id}>>
  <1>1. /\ tx # None /\ rows' = tx.rows /\ owner' = tx.owner /\ now' = now /\ tx.done = Len(b)
        /\ Len(b) \in Nat /\ DOMAIN b = 1 .. Len(b)
    BY DEF Commit, DbInv, TypeOK, Tx
  <1>2. Written' = {id \in LiveIn(tx.rows) : tx.rows[id].last = tx.stamp}
    BY <1>1 DEF Written, LiveIn
  <1>3. StoredMeetings' = {pair(id) : id \in Written'}
    BY DEF StoredMeetings
  <1>4. ToldBy(b) = {tale(i) : i \in DOMAIN b}
    BY DEF ToldBy
  <1>5. \A id \in Written' : \E i \in DOMAIN b : RowOf(b[i], id)
    BY <1>1, <1>2, StampedAreSaved DEF Unstamped
  <1>6. \A i, id : RowOf(b[i], id) =>
           /\ pair(id) = tale(i)
           /\ rows'[id].group = b[i].group
           /\ rows'[id].status = StatusFor(b[i].group)
    BY <1>1 DEF RowOf, Recs
  <1>7. StoredMeetings' \subseteq ToldBy(b)
    <2> HIDE DEF pair, tale, b
    <2> QED
      BY <1>3, <1>4, <1>5, <1>6
  <1>8. ASSUME NEW i \in DOMAIN b, ~Overtaken(b, i, tx.done)
        PROVE  tale(i) \in StoredMeetings'
    <2>1. PICK id \in Fps :
             /\ {f \in Fps : tx.owner[f] = id} = Fingerprints(b[i])
             /\ tx.rows[id] # None
             /\ tx.rows[id].group = b[i].group
             /\ tx.rows[id].start = b[i].start
             /\ tx.rows[id].last = tx.stamp
      BY <1>1, <1>8 DEF OwnRow
    <2>2. id \in Written' /\ pair(id) = tale(i)
      BY <1>1, <1>2, <2>1 DEF LiveIn
    <2> HIDE DEF pair, tale, b
    <2> QED
      BY <1>3, <2>2
  <1> HIDE DEF pair
  <1>9. ASSUME NEW m \in ToldBy(b) \ StoredMeetings'
        PROVE  \E n \in ToldBy(b) \ {m} : m[2] \cap n[2] # {}
    <2> DEFINE T == {d \in Nat : \E i \in DOMAIN b : i = Len(b) - d /\ tale(i) = m}
    <2>1. PICK i0 \in DOMAIN b : tale(i0) = m
      BY <1>4, <1>9
    <2>2. T # {} /\ T \in SUBSET Nat
      <3>1. Len(b) - i0 \in T
        <4>1. Len(b) - i0 \in Nat /\ i0 = Len(b) - (Len(b) - i0)
          BY <1>1
        <4> HIDE DEF tale
        <4> QED
          BY <2>1, <4>1
      <3> QED
        BY <3>1
    <2> HIDE DEF tale
    <2>3. PICK d \in T : \A x \in T : d <= x
      <3> HIDE DEF T
      <3> QED
        BY <2>2, LeastExists DEF Least
    <2>4. PICK i \in DOMAIN b : i = Len(b) - d /\ tale(i) = m
      BY <2>3
    <2>5. Overtaken(b, i, tx.done)
      BY <1>8, <1>9, <2>4
    <2>6. PICK j \in i + 1 .. tx.done : Fingerprints(b[i]) \cap Fingerprints(b[j]) # {}
      BY <2>5 DEF Overtaken
    <2>7. j \in DOMAIN b /\ Len(b) - j \in Nat /\ j = Len(b) - (Len(b) - j) /\ Len(b) - j < d
      BY <1>1, <2>3, <2>4, <2>6
    <2>8. tale(j) # m
      <3>1. Len(b) - j \notin T
        <4> HIDE DEF T
        <4>1. T \subseteq Nat
          BY <2>2
        <4> QED
          BY <2>3, <2>7, <4>1
      <3> QED
        BY <2>7, <3>1
    <2>9. tale(j) \in ToldBy(b) \ {m}
      BY <1>4, <2>7, <2>8
    <2>10. m[2] = Fingerprints(b[i]) /\ tale(j)[2] = Fingerprints(b[j])
      BY <2>4 DEF tale
    <2> QED
      BY <2>6, <2>9, <2>10
  <1>10. \A id \in Written' : \E i \in DOMAIN b :
            rows'[id].group = b[i].group /\ rows'[id].status = StatusFor(b[i].group)
    BY <1>5, <1>6
  <1> QED
    BY <1>7, <1>9, <1>10

(* At the end of a run the rows of its stamp are the meetings it was told  *)
(* of, published as its files say.                                         *)
DoneInv == MeetingsStored /\ GateIsTheFiles

LEMMA SavedDone == SyncInv /\ Saved => DoneInv'
  <1> SUFFICES ASSUME SyncInv, Saved
               PROVE  DoneInv'
    OBVIOUS
  <1>1. /\ tx # None /\ run # None /\ run \in Run /\ run.stage = "saving"
        /\ Commit /\ Goto("done") /\ UNCHANGED groups
    BY DEF Saved, Commit, SyncInv, PipelineOK
  <1>2. /\ tx.stamp = now /\ Unstamped /\ Signs(run.files)
        /\ tx.batch = Normalized(run.files, run.results)
    BY <1>1 DEF SyncInv, StageInv
  <1>3. run'.files = run.files /\ run'.results = run.results /\ run' # None
    BY <1>1, GotoStage DEF SyncInv, Stages
  <1>4. /\ StoredMeetings' \subseteq ToldBy(tx.batch)
        /\ \A m \in ToldBy(tx.batch) \ StoredMeetings' :
              \E n \in ToldBy(tx.batch) \ {m} : m[2] \cap n[2] # {}
        /\ \A id \in Written' : \E i \in DOMAIN tx.batch :
              /\ rows'[id].group = tx.batch[i].group
              /\ rows'[id].status = StatusFor(tx.batch[i].group)
    BY <1>1, <1>2, CommitTells DEF SyncInv, StoreInv
  <1>5. ToldBy(tx.batch) = Meetings(run')
    <2>1. ToldBy(tx.batch) = Meetings(run)
      BY <1>1, <1>2, ToldIsMeetings
    <2> QED
      BY <1>3, <2>1, MeetingsSame
  <1>6. \A i \in DOMAIN tx.batch : tx.batch[i].group \in run.files.groups
    BY <1>1, <1>2, EventsHeard
  <1>7. GateIsTheFiles'
    <2>1. ASSUME NEW id \in Written'
          PROVE  rows'[id].status = "published" <=> rows'[id].group \in run'.files.verified
      <3>1. PICK i \in DOMAIN tx.batch :
              /\ rows'[id].group = tx.batch[i].group
              /\ rows'[id].status = StatusFor(tx.batch[i].group)
        BY <1>4, <2>1
      <3>2. rows'[id].status = "published" <=> groups[tx.batch[i].group] = "verified"
        BY <3>1, StatusGate
      <3> QED
        BY <1>2, <1>3, <1>6, <3>1, <3>2 DEF Signs
    <2> QED
      BY <2>1 DEF GateIsTheFiles
  <1>8. MeetingsStored'
    BY <1>4, <1>5 DEF MeetingsStored
  <1> QED
    BY <1>7, <1>8 DEF DoneInv

LEMMA SaveNothingDone == SyncInv /\ SaveNothing => DoneInv'
  <1> SUFFICES ASSUME SyncInv, SaveNothing
               PROVE  DoneInv'
    OBVIOUS
  <1>1. /\ run # None /\ run \in Run /\ run.stage = "mirrored" /\ Goto("done")
        /\ Normalized(run.files, run.results) = <<>> /\ UNCHANGED <<rows, owner, now>>
    BY DEF SaveNothing, At, SyncInv, PipelineOK, vars
  <1>2. run'.files = run.files /\ run'.results = run.results
    BY <1>1, GotoStage DEF SyncInv, Stages
  <1>3. Unstamped
    BY <1>1 DEF SyncInv, StageInv
  <1>4. Written' = {}
    <2>1. \A f \in LiveIn(rows) : rows[f].last \in Nat /\ now \in Nat
      BY DEF SyncInv, StoreInv, DbInv, TypeOK, LiveIn, Row
    <2>2. LiveIn(rows') = LiveIn(rows)
      BY <1>1
    <2> QED
      BY <1>1, <1>3, <2>1, <2>2 DEF Written, Unstamped
  <1>5. Meetings(run') = {}
    <2>1. ToldBy(<<>>) = {}
      BY DEF ToldBy
    <2> QED
      BY <1>1, <1>2, <2>1, ToldIsMeetings, MeetingsSame
  <1>6. StoredMeetings' = {}
    BY <1>4 DEF StoredMeetings
  <1> QED
    BY <1>4, <1>5, <1>6 DEF DoneInv, MeetingsStored, GateIsTheFiles

LEMMA DoneInvStep == SyncInv /\ DoneInv /\ [SyncNext]_allVars => DoneInv'
  <1> SUFFICES ASSUME SyncInv, DoneInv, [SyncNext]_allVars
               PROVE  DoneInv'
    OBVIOUS
  <1>1. CASE Saved \/ SaveNothing
    BY <1>1, SavedDone, SaveNothingDone
  <1>2. CASE ~At("done")'
    BY <1>2 DEF DoneInv, MeetingsStored, GateIsTheFiles
  <1>3. CASE UNCHANGED <<rows, owner, now, run>>
    <2>1. Written' = Written /\ (At("done")' <=> At("done")) /\ StoredMeetings' = StoredMeetings
      BY <1>3 DEF Written, StoredMeetings, LiveIn, At
    <2> QED
      BY <1>3, <2>1 DEF DoneInv, MeetingsStored, GateIsTheFiles
  <1>4. Start \/ Mirror \/ Save => ~At("done")'
    <2>1. Start => run'.stage = "loaded"
      BY StartRun DEF SyncInv
    <2>2. Mirror => run'.stage = "mirrored"
      BY GotoStage DEF SyncInv, Mirror, At, Stages
    <2>3. Save => run'.stage = "saving"
      BY GotoStage DEF SyncInv, Save, At, Stages
    <2> QED
      BY <2>1, <2>2, <2>3 DEF At
  <1>5. Refuse \/ Die \/ Fail \/ Export => ~At("done")'
    BY DEF Refuse, Die, Fail, Export, At
  <1>6. Edit \/ SaveEvent \/ UNCHANGED allVars => UNCHANGED <<rows, owner, now, run>>
    BY DEF Edit, SaveEvent, Insert, Update, allVars, vars, pipeline
  <1> QED
    BY <1>1, <1>2, <1>3, <1>4, <1>5, <1>6 DEF SyncNext

LEMMA DoneInvariant == SyncSpec => []DoneInv
  <1>1. SyncInit => DoneInv
    BY DEF SyncInit, DoneInv, MeetingsStored, GateIsTheFiles, At
  <1> QED
    BY <1>1, SyncInvariant, DoneInvStep, PTL DEF SyncSpec

(* A run that gets through has written the meetings its feeds told of,     *)
(* each in one row, and no other, whatever earlier runs left in the tables *)
(* and however often a feed gave a record: what may be missing is only a   *)
(* meeting that has a record of another.                                   *)
THEOREM MeetingsCorrect == SyncSpec => []MeetingsStored
  BY DoneInvariant, PTL DEF DoneInv

(* What a run writes is published exactly if its own files sign for the    *)
(* group, whatever signatures earlier runs had mirrored.                   *)
THEOREM GateFilesCorrect == SyncSpec => []GateIsTheFiles
  BY DoneInvariant, PTL DEF DoneInv

----------------------------------------------------------------------------
(* What a run leaves alone                                                 *)

LEMMA OnlyCommitWrites ==
    ASSUME SyncInv, [SyncNext]_allVars, rows' # rows
    PROVE  Saved /\ Commit /\ tx # None /\ run # None /\ run \in Run /\ run.stage = "saving"
  <1>1. Saved
    BY DEF SyncNext, Edit, Start, Tick, Mirror, SyncRegistry, Save, SaveBegin, SaveNothing,
           SaveEvent, Insert, Update, Refuse, Die, Rollback, Fail, Export, allVars, vars
  <1> QED
    BY <1>1 DEF Saved, Commit, SyncInv, PipelineOK

LEMMA SilenceStep == SyncInv /\ [SyncNext]_allVars => [SilenceKeeps]_allVars
  <1> SUFFICES ASSUME SyncInv, [SyncNext]_allVars, NEW id \in LiveIn(rows), rows'[id] # rows[id]
               PROVE  \E r \in ToSet(HeardBy(run)) : owner[FpOf(r)] = id
    BY DEF SilenceKeeps
  <1>1. /\ tx # None /\ run \in Run /\ rows' = tx.rows /\ tx.done = Len(tx.batch) /\ tx \in Tx
        /\ tx.batch = Normalized(run.files, run.results) /\ TxTables
    BY OnlyCommitWrites DEF Commit, SyncInv, StageInv, StoreInv, ShelfInv, DbInv, TypeOK
  <1>2. ~Untouched(id)
    BY <1>1 DEF TxTables
  <1>3. PICK i \in 1 .. tx.done : Touches(tx.batch, i, id)
    BY <1>2 DEF Untouched
  <1>4. PICK f \in Fingerprints(tx.batch[i]) : owner[f] = id
    BY <1>3 DEF Touches, Recs
  <1>5. i \in DOMAIN tx.batch
    BY <1>1, <1>3 DEF Tx
  <1>6. PICK r \in ToSet(HeardBy(run)) : FpOf(r) = f
    BY <1>1, <1>4, <1>5, EventsHeard
  <1> QED
    BY <1>4, <1>6

(* Silence costs an event nothing: a row changes only in a commit of a run *)
(* that heard one of its records.                                          *)
THEOREM UnheardCorrect == SyncSpec => UnheardKept
  BY SyncInvariant, SilenceStep, PTL DEF SyncSpec, UnheardKept

LEMMA FirstSeenStep == SyncInv /\ [SyncNext]_allVars => [SameRecordsKeepRow]_allVars
  <1> SUFFICES ASSUME SyncInv, [SyncNext]_allVars, rows' # rows, NEW id \in LiveIn(rows),
                      \A i \in DOMAIN tx.batch :
                         Touches(tx.batch, i, id) => Fingerprints(tx.batch[i]) = Recs(owner, id)
               PROVE  /\ rows'[id] # None
                      /\ rows'[id].first = rows[id].first
                      /\ Recs(owner, id)' = Recs(owner, id)
    BY DEF SameRecordsKeepRow, Touches, Recs
  <1>1. /\ tx # None /\ rows' = tx.rows /\ owner' = tx.owner
    BY OnlyCommitWrites DEF Commit
  <1>2. HeardWhole(tx.batch, id)
    BY DEF HeardWhole
  <1> QED
    BY <1>1, <1>2 DEF SyncInv, StoreInv, SameRow, Recs

(* An event heard again with the records it had keeps its row and the day  *)
(* it was first seen, whatever the events beside it merge or split.        *)
THEOREM FirstSeenCorrect == SyncSpec => FirstSeenKept
  BY SyncInvariant, FirstSeenStep, PTL DEF SyncSpec, FirstSeenKept

=============================================================================
