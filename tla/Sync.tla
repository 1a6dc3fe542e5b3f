-------------------------------- MODULE Sync --------------------------------
(***************************************************************************)
(* cmd/htxdev: one `htxdev sync` followed by one `htxdev export`, the two  *)
(* steps of .github/workflows/sync.yml, over the store and normalize.      *)
(*                                                                         *)
(* A run works from the copy of data/groups and data/rejects.yaml (files)  *)
(* it loaded when it started, so an edit during a run is one after it.     *)
(* Between its two transactions, and inside the second, the process may    *)
(* die.                                                                    *)
(***************************************************************************)
EXTENDS Store, Normalize

CONSTANTS
    Upstream,  \* every record a feed can ever send, as normalize reads it
    Answers,   \* what each feed can answer: lists of its records, one id perhaps twice
    Sources,   \* the feeds in registry order
    Catalog,   \* what group files say: groups, owner, kind, priority, named, curated, home
    Files      \* what the maintainers' files can say: groups, verified, rejects

ASSUME CatalogAssumption ==
    /\ DOMAIN Catalog = {"groups", "owner", "kind", "priority", "named", "curated", "home"}
    /\ Catalog.priority \in [Feeds -> Int]
ASSUME SourcesAssumption ==
    /\ DOMAIN Sources = 1 .. Len(Sources) /\ Len(Sources) \in Nat
    /\ \A f \in Feeds : \E i \in DOMAIN Sources : Sources[i] = f

FpOf(r) == Fingerprint(Catalog, r)

ASSUME UpstreamAssumption ==
    \A r \in Upstream : r.uid \in Int /\ r.start \in Starts /\ FpOf(r) \in Fps
ASSUME AnswersAssumption ==
    /\ DOMAIN Answers = Feeds
    /\ \A f \in Feeds : \A answer \in Answers[f] :
          answer \in Seq(Upstream) /\ \A k \in DOMAIN answer : answer[k].feed = f

VARIABLES
    files,    \* data/groups and data/rejects.yaml on the main branch
    run,      \* the sync in progress, or None
    listing   \* data/events.json

pipeline == <<files, run, listing>>
allVars == <<vars, pipeline>>

(* What the fetch returns: for each feed an answer, or None for an error.  *)
Fetched ==
    {results \in [Feeds -> {None} \cup UNION {Answers[f] : f \in Feeds}] :
        \A f \in Feeds : results[f] \in {None} \cup Answers[f]}

Stages == {"loaded", "mirrored", "saving", "done"}
Run == [files : Files, results : Fetched, stage : Stages]

ASSUME NoRunAssumption == None \notin Run

PipelineOK ==
    /\ files \in Files
    /\ run # None => run \in Run
    /\ (tx # None) <=> (run # None /\ run.stage = "saving")
    /\ listing \in [at : Nat, events : SUBSET Fps]

----------------------------------------------------------------------------
(* The registry a run loads: a deleted group file takes the group's feeds  *)
(* and names with it.                                                      *)

Loaded(fl) ==
    LET carried == {f \in Feeds : Catalog.owner[f] \in fl.groups}
        known   == {n \in DOMAIN Catalog.named : Catalog.named[n] \in fl.groups}
    IN  [Catalog EXCEPT !.groups = fl.groups,
                        !.owner = [f \in carried |-> @[f]],
                        !.named = [n \in known |-> @[n]]]

Mirrored(fl) ==
    [groups |-> fl.groups, verified |-> fl.verified, feeds |-> DOMAIN Loaded(fl).owner]

Turn(f) == CHOOSE i \in DOMAIN Sources : Sources[i] = f

(* A record of an answer goes by its feed and its place in that answer.    *)
Earlier(p, q) ==
    \/ Turn(p[1]) < Turn(q[1])
    \/ p[1] = q[1] /\ p[2] < q[2]

(* The records of every source that answered.                              *)
Listed(fl, results) ==
    UNION {{f} \X DOMAIN results[f] : f \in {f \in DOMAIN Loaded(fl).owner : results[f] # None}}

(* Answer after answer, in registry order.                                 *)
Heard(fl, results) ==
    LET listed == Listed(fl, results)
        order == Ranked([p \in listed |-> {q \in listed : Earlier(q, p)}])
    IN  [n \in DOMAIN order |-> results[order[n][1]][order[n][2]]]

(* The columns of an event the store decides on.                           *)
Columns(e) == [fp |-> e.fp, group |-> e.group, start |-> e.start, recs |-> e.recs]

Stored(events) == [i \in DOMAIN events |-> Columns(events[i])]

Normalized(fl, results) == Stored(Events(Loaded(fl), fl.rejects, Heard(fl, results)))

(* verdict: a run in which no source answered fails, and nothing follows.  *)
AllFailed(r) == \A f \in DOMAIN Loaded(r.files).owner : r.results[f] = None

----------------------------------------------------------------------------
SyncInit ==
    /\ Init
    /\ files \in Files
    /\ run = None
    /\ listing = [at |-> 0, events |-> {}]

Edit ==
    /\ files' \in Files \ {files}
    /\ run = None
    /\ UNCHANGED <<vars, run, listing>>

(* runSync up to the end of fetch.Fetch: the run's instant is read once.   *)
Start ==
    /\ run = None
    /\ Tick
    /\ \E answers \in Fetched :
          run' = [files |-> files, results |-> answers, stage |-> "loaded"]
    /\ UNCHANGED <<files, listing>>

At(stage) == run # None /\ run.stage = stage
Goto(stage) == run' = [run EXCEPT !.stage = stage]

Mirror ==
    /\ At("loaded")
    /\ SyncRegistry(Mirrored(run.files))
    /\ Goto("mirrored")
    /\ UNCHANGED <<files, listing>>

Save ==
    /\ At("mirrored")
    /\ SaveBegin(Normalized(run.files, run.results))
    /\ Goto("saving")
    /\ UNCHANGED <<files, listing>>

(* SaveEvents returns at once when there is nothing to save.               *)
SaveNothing ==
    /\ At("mirrored")
    /\ Normalized(run.files, run.results) = <<>>
    /\ Goto("done")
    /\ UNCHANGED <<vars, files, listing>>

SaveEvent ==
    /\ Insert \/ Update
    /\ UNCHANGED pipeline

Saved ==
    /\ Commit
    /\ Goto("done")
    /\ UNCHANGED <<files, listing>>

RefuseOpen ==
    /\ tx # None
    /\ tx.done < Len(tx.batch)
    /\ Refused(tx, Current(tx))
    /\ Goto("done")
    /\ UNCHANGED <<vars, files, listing>>

(* The event cannot be saved: SaveEvents rolls back, persist and the       *)
(* process return the error, and the workflow stops.                       *)
Refuse ==
    /\ tx # None
    /\ tx.done < Len(tx.batch)
    /\ Refused(tx, Current(tx))
    /\ Rollback
    /\ run' = None
    /\ UNCHANGED <<files, listing>>

(* The process is interrupted or dies, and SQLite rolls back what is open. *)
Die ==
    /\ run # None
    /\ Rollback \/ (tx = None /\ UNCHANGED vars)
    /\ run' = None
    /\ UNCHANGED <<files, listing>>

Fail ==
    /\ At("done")
    /\ AllFailed(run)
    /\ run' = None
    /\ UNCHANGED <<vars, files, listing>>

(* generated_at is when the data was last current, or now if it never was. *)
Export ==
    /\ At("done")
    /\ ~AllFailed(run)
    /\ listing' = [at |-> IF LastSynced(rows) = 0 THEN now ELSE LastSynced(rows),
                   events |-> Upcoming(now)]
    /\ run' = None
    /\ UNCHANGED <<vars, files>>

SyncNext ==
    \/ Edit
    \/ Start
    \/ Mirror
    \/ Save
    \/ SaveNothing
    \/ SaveEvent
    \/ Saved
    \/ Refuse
    \/ Die
    \/ Fail
    \/ Export

SyncSpec == SyncInit /\ [][SyncNext]_allVars

----------------------------------------------------------------------------
(* Properties                                                              *)

HeardBy(r) == Heard(r.files, r.results)

(* The places in raw of the records that are of one meeting with that at   *)
(* place i: those of its group at its instant, unless one feed lists two   *)
(* of them, if only the same one twice.                                    *)
MeetingOf(reg, raw, i) ==
    LET alike == {j \in DOMAIN raw :
                     /\ Resolvable(reg, raw[j])
                     /\ ClusterKey(reg, raw[j]) = ClusterKey(reg, raw[i])}
    IN  IF \E j, k \in alike : j # k /\ raw[j].feed = raw[k].feed THEN {i} ELSE alike

(* What a run was told of: when and whose each meeting is, and its records.*)
Meetings(r) ==
    LET reg == Loaded(r.files)
        raw == HeardBy(r)
        all == {MeetingOf(reg, raw, i) : i \in {i \in DOMAIN raw : Resolvable(reg, raw[i])}}
        kept == {M \in all : \A i \in M : FpOf(raw[i]) \notin r.files.rejects}
    IN  {<<ClusterKey(reg, raw[CHOOSE i \in M : TRUE]), {FpOf(raw[i]) : i \in M}>> : M \in kept}

ASSUME MirroredAssumption == \A fl \in Files : Mirrored(fl) \in Registries

(* Batches is at least what normalize makes of any answers.                *)
ASSUME NormalizedAssumption ==
    \A fl \in Files, answers \in Fetched : Normalized(fl, answers) \in Batches

(* What this run wrote: no earlier run has its stamp.                      *)
Written == {id \in LiveIn(rows) : rows[id].last = now}

(* The meetings with a row that each of their records leads to, and no     *)
(* other record, of those this run wrote.                                  *)
StoredMeetings ==
    {<<<<rows[id].group, rows[id].start>>, {f \in Fps : owner[f] = id}>> : id \in Written}

(* A run that gets through writes nothing but the meetings its feeds told  *)
(* of and no reject names, and each of them, whatever the table held       *)
(* before; only a meeting that has a record of another may be missing, a   *)
(* record its feed has then given twice (persist).                         *)
MeetingsStored ==
    At("done") =>
      /\ StoredMeetings \subseteq Meetings(run)
      /\ \A m \in Meetings(run) \ StoredMeetings :
            \E n \in Meetings(run) \ {m} : m[2] \cap n[2] # {}

(* What a run writes is published if and only if the group it ends up      *)
(* under is signed for in the files that very run loaded: the mirror has   *)
(* brought every signature, and every withdrawn one, before the events.    *)
GateIsTheFiles ==
    At("done") =>
      \A id \in Written :
         rows[id].status = "published" <=> rows[id].group \in run.files.verified

SilenceKeeps ==
    \A id \in LiveIn(rows) :
      rows'[id] # rows[id] =>
        \E r \in ToSet(HeardBy(run)) : owner[FpOf(r)] = id

(* A row changes only when a record that leads to it was heard: a feed     *)
(* that failed, and a record that has gone from one that answered, cost    *)
(* an event nothing (persist's first guard).                               *)
UnheardKept == [][SilenceKeeps]_allVars

SameRecordsKeepRow ==
    At("saving") /\ tx' = None /\ rows' # rows =>
      \A id \in LiveIn(rows) :
        LET known == {f \in Fps : owner[f] = id}
            saying == {i \in DOMAIN tx.batch : Fingerprints(tx.batch[i]) \cap known # {}}
        IN
        saying # {} /\ (\A i \in saying : Fingerprints(tx.batch[i]) = known) =>
          /\ rows'[id] # None
          /\ rows'[id].first = rows[id].first
          /\ {f \in Fps : owner'[f] = id} = known

(* An event heard again with the records it had keeps its row and its      *)
(* first_seen, whatever group, instant or winner it now has and whatever   *)
(* the rest of the batch does.                                             *)
FirstSeenKept == [][SameRecordsKeepRow]_allVars

(* schema.sql: "An event is found by ANY of its fingerprints"; sync.yml:   *)
(* the run fails "only if every source failed".  So no event of a run      *)
(* whose registry is mirrored is refused.                                  *)
NeverRefused ==
    tx # None /\ tx.done < Len(tx.batch) => ~Refused(tx, Current(tx))

(* rejects.yaml: "A reject applies the moment it is in this file."  So     *)
(* what a run exports contains no event one of whose records that run's    *)
(* files reject.                                                           *)
RejectsApply ==
    [][Export =>
         \A f \in Fps : f \in run.files.rejects => owner[f] \notin listing'.events]_allVars

=============================================================================
