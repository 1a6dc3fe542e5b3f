------------------------------- MODULE Store -------------------------------
(***************************************************************************)
(* internal/store: the SQLite database a sync writes (htxdev.db).          *)
(*                                                                         *)
(* Three tables decide everything: groups (who is verified), events, and   *)
(* event_fingerprints, which says which event a feed record belongs to.    *)
(* A row of events is named here by its fingerprint column: the column is  *)
(* UNIQUE and no UPDATE sets it, so it identifies the row for its whole    *)
(* life.  Columns nothing decides on (title, links, room, categories, the  *)
(* source a fingerprint came from) are left out.                           *)
(*                                                                         *)
(* SaveEvents runs in one transaction, one event at a time; tx is its      *)
(* working copy, which nobody else sees before Commit.  SQLite allows one  *)
(* writer, so no other transaction starts while tx is open.                *)
(***************************************************************************)
EXTENDS Integers, Sequences, FiniteSets

CONSTANTS
    Groups,      \* group slugs
    Feeds,       \* feed URLs, the identity of a source
    Fps,         \* fingerprints of feed records
    Starts,      \* instants events start at
    Registries,  \* what SyncRegistry may be given
    Batches,     \* what SaveEvents may be given
    None,        \* no row, no owner, no transaction
    MaxTime      \* bound on the clock

Status == {"pending", "published"}
Row == [group: Groups, start: Starts, status: Status, first: Nat, last: Nat]
Record == [fp: Fps, feed: Feeds]
Event == [fp: Fps, group: Groups, start: Starts, recs: Seq(Record)]
Registry == [groups: SUBSET Groups, verified: SUBSET Groups, feeds: SUBSET Feeds]

Fingerprints(e) == {e.recs[i].fp : i \in DOMAIN e.recs}

(* What normalize hands to SaveEvents: every event carries the records it  *)
(* was merged from, led by the one that names it.  Two events may carry    *)
(* the same record, which a feed has then given twice.                     *)
BatchOK(b) == \A i \in DOMAIN b : b[i].fp \in Fingerprints(b[i])

(* An event saved after i, among the first n, has a record of it.          *)
Overtaken(b, i, n) ==
    \E j \in i + 1 .. n : Fingerprints(b[i]) \cap Fingerprints(b[j]) # {}

ASSUME RegistriesAssumption == Registries \subseteq Registry
ASSUME BatchesAssumption ==
    \A b \in Batches : b \in Seq(Event) /\ BatchOK(b)
ASSUME NoneAssumption == None \notin Fps /\ None \notin Row
ASSUME TimeAssumption == MaxTime \in Nat

VARIABLES
    groups,  \* groups table: "absent", "unverified" or "verified"
    feeds,   \* sources table
    rows,    \* events table, by fingerprint
    owner,   \* event_fingerprints: the row a fingerprint belongs to
    tx,      \* the open SaveEvents transaction with its SaveResult, or None
    now      \* the clock a run reads once

vars == <<groups, feeds, rows, owner, tx, now>>
db == <<groups, feeds, rows, owner>>

Result == [inserted: Nat, updated: Nat, promoted: Nat, merged: Nat]
Tx == [batch: Seq(Event), done: Nat, stamp: Nat, rows: [Fps -> Row \cup {None}],
       owner: [Fps -> Fps \cup {None}], res: Result]

ASSUME NoTxAssumption == None \notin Tx

TypeOK ==
    /\ groups \in [Groups -> {"absent", "unverified", "verified"}]
    /\ feeds \in SUBSET Feeds
    /\ rows \in [Fps -> Row \cup {None}]
    /\ owner \in [Fps -> Fps \cup {None}]
    /\ now \in Nat \ {0}
    /\ \/ tx = None
       \/ /\ tx \in Tx
          /\ BatchOK(tx.batch)
          /\ tx.done \in 0 .. Len(tx.batch)
          /\ tx.stamp \in 1 .. now

Init ==
    /\ groups = [g \in Groups |-> "absent"]
    /\ feeds = {}
    /\ rows = [f \in Fps |-> None]
    /\ owner = [f \in Fps |-> None]
    /\ tx = None
    /\ now = 1

Tick ==
    /\ now < MaxTime
    /\ now' = now + 1
    /\ UNCHANGED <<groups, feeds, rows, owner, tx>>

----------------------------------------------------------------------------
(* The registry mirror                                                     *)

SignedOnce(reg) ==
    /\ tx = None
    /\ groups' = [g \in Groups |->
                     IF g \notin reg.groups \/ groups[g] # "absent" THEN groups[g]
                     ELSE IF g \in reg.verified THEN "verified" ELSE "unverified"]
    /\ feeds' = feeds \cup reg.feeds
    /\ UNCHANGED <<rows, owner, tx, now>>

SyncRegistry(reg) ==
    /\ tx = None
    /\ groups' = [g \in Groups |->
                     IF g \notin reg.groups THEN groups[g]
                     ELSE IF g \in reg.verified THEN "verified" ELSE "unverified"]
    /\ feeds' = feeds \cup reg.feeds
    /\ UNCHANGED <<rows, owner, tx, now>>

----------------------------------------------------------------------------
(* SaveEvents                                                              *)

LiveIn(table) == {f \in Fps : table[f] # None}

StatusForKept(g) == IF groups[g] = "absent" THEN "pending" ELSE "published"
StatusForOdd(g) == IF groups[g] = "verified" THEN "public" ELSE "pending"

(* The pending gate.                                                       *)
StatusFor(g) == IF groups[g] = "verified" THEN "published" ELSE "pending"

(* The rows the fingerprints of e lead to, and the fingerprints' order.    *)
Found(t, e) == {t.owner[f] : f \in Fingerprints(e)} \ {None}

Position(t, e, id) ==
    CHOOSE i \in DOMAIN e.recs :
        /\ t.owner[e.recs[i].fp] = id
        /\ \A j \in DOMAIN e.recs : t.owner[e.recs[j].fp] = id => i <= j

SurvivorByOrder(t, e, id) ==
    \A q \in Found(t, e) : Position(t, e, id) <= Position(t, e, q)

(* The oldest row survives a merge; a tie goes to the earlier fingerprint. *)
Survivor(t, e, id) ==
    \A q \in Found(t, e) :
        \/ t.rows[id].first < t.rows[q].first
        \/ /\ t.rows[id].first = t.rows[q].first
           /\ Position(t, e, id) <= Position(t, e, q)

Keeps(t, e, id) == [f \in Fps |-> IF f \in Fingerprints(e) THEN id ELSE t.owner[f]]
NoCascade(t, e, id) ==
    [f \in Fps |-> IF f \in Fingerprints(e) THEN id
                   ELSE IF t.owner[f] = id THEN None ELSE t.owner[f]]

(* replaceProvenance, after the cascade from the deleted losers: the row   *)
(* is found by the records of e and by nothing else.                       *)
Reown(t, e, id) ==
    [f \in Fps |-> IF f \in Fingerprints(e) THEN id
                   ELSE IF t.owner[f] \in Found(t, e) \cup {id} THEN None
                   ELSE t.owner[f]]

Fresh(t, e) ==
    [group |-> e.group, start |-> e.start, status |-> StatusFor(e.group),
     first |-> t.stamp, last |-> t.stamp]

ForgetfulRow(t, e, old) == Fresh(t, e)

UnbumpedRow(t, e, old) ==
    [old EXCEPT !.group = e.group, !.start = e.start, !.status = StatusFor(e.group)]

(* The UPDATE: everything but the fingerprint and first_seen.              *)
Updated(t, e, old) ==
    [old EXCEPT !.group = e.group, !.start = e.start,
                !.status = StatusFor(e.group), !.last = t.stamp]

SweptRows(t, e, id) ==
    [f \in Fps |-> IF f = id THEN Updated(t, e, t.rows[f])
                   ELSE IF f \in Found(t, e) THEN None
                   ELSE IF t.rows[f] # None /\ t.rows[f].last < t.stamp
                           /\ t.rows[f].group = e.group THEN None
                   ELSE t.rows[f]]

UnmergedRows(t, e, id) == [t.rows EXCEPT ![id] = Updated(t, e, @)]

(* The survivor is updated and the losers are deleted.                     *)
MergedRows(t, e, id) ==
    [f \in Fps |-> IF f = id THEN Updated(t, e, t.rows[f])
                   ELSE IF f \in Found(t, e) THEN None
                   ELSE t.rows[f]]

(* Every check that fails the call: the explicit ones and the schema's.    *)
Refused(t, e) ==
    \/ e.recs = <<>>
    \/ \E i \in DOMAIN e.recs : e.recs[i].feed \notin feeds
    \/ groups[e.group] = "absent"                         \* foreign key
    \/ Found(t, e) = {} /\ t.rows[e.fp] # None            \* UNIQUE(fingerprint)

Current(t) == t.batch[t.done + 1]

Promotes(t, e, id) ==
    t.rows[id].status = "pending" /\ StatusFor(e.group) = "published"

(* SaveResult after an insert, and after an update of id.                  *)
Inserted(t) == [t.res EXCEPT !.inserted = t.res.inserted + 1]

Merged(t, e, id) ==
    [inserted |-> t.res.inserted,
     updated  |-> t.res.updated + 1,
     promoted |-> t.res.promoted + (IF Promotes(t, e, id) THEN 1 ELSE 0),
     merged   |-> t.res.merged + (Cardinality(Found(t, e)) - 1)]

(* The working copy with its current event written.                        *)
Wrote(t, table, own, res) ==
    [batch |-> t.batch, done |-> t.done + 1, stamp |-> t.stamp,
     rows |-> table, owner |-> own, res |-> res]

SaveBegin(b) ==
    /\ tx = None
    /\ b # <<>>
    /\ tx' = [batch |-> b, done |-> 0, stamp |-> now, rows |-> rows, owner |-> owner,
              res |-> [inserted |-> 0, updated |-> 0, promoted |-> 0, merged |-> 0]]
    /\ UNCHANGED <<groups, feeds, rows, owner, now>>

Insert ==
    /\ tx # None
    /\ tx.done < Len(tx.batch)
    /\ LET e == Current(tx) IN
       /\ ~Refused(tx, e)
       /\ Found(tx, e) = {}
       /\ tx' = Wrote(tx, [tx.rows EXCEPT ![e.fp] = Fresh(tx, e)],
                      Reown(tx, e, e.fp), Inserted(tx))
    /\ UNCHANGED <<groups, feeds, rows, owner, now>>

Update ==
    /\ tx # None
    /\ tx.done < Len(tx.batch)
    /\ LET e == Current(tx) IN
       /\ ~Refused(tx, e)
       /\ \E id \in Found(tx, e) :
          /\ Survivor(tx, e, id)
          /\ tx' = Wrote(tx, MergedRows(tx, e, id), Reown(tx, e, id), Merged(tx, e, id))
    /\ UNCHANGED <<groups, feeds, rows, owner, now>>

Commit ==
    /\ tx # None
    /\ tx.done = Len(tx.batch)
    /\ rows' = tx.rows
    /\ owner' = tx.owner
    /\ tx' = None
    /\ UNCHANGED <<groups, feeds, now>>

(* A refused event, a cancelled context, or the process dying.             *)
Rollback ==
    /\ tx # None
    /\ tx' = None
    /\ UNCHANGED <<groups, feeds, rows, owner, now>>

Next ==
    \/ Tick
    \/ \E reg \in Registries : SyncRegistry(reg)
    \/ \E b \in Batches : SaveBegin(b)
    \/ Insert
    \/ Update
    \/ Commit
    \/ Rollback

Spec == Init /\ [][Next]_vars

----------------------------------------------------------------------------
(* Reads                                                                   *)

(* Upcoming: the published rows, the only ones that leave the database.    *)
Upcoming(from) == {f \in LiveIn(rows) : rows[f].status = "published" /\ rows[f].start >= from}

(* LastSynced: the newest last_seen, 0 for an empty table.                 *)
LastSynced(table) ==
    IF LiveIn(table) = {} THEN 0
    ELSE CHOOSE t \in {table[f].last : f \in LiveIn(table)} :
            \A f \in LiveIn(table) : table[f].last <= t

----------------------------------------------------------------------------
(* Properties                                                              *)

(* A fingerprint never points at a row that is gone: the row a merge       *)
(* deletes takes every fingerprint it had with it, in the open transaction *)
(* as well as in what is committed.                                        *)
ProvenanceLive ==
    /\ \A f \in Fps : owner[f] # None => rows[owner[f]] # None
    /\ tx # None => \A f \in Fps : tx.owner[f] # None => tx.rows[tx.owner[f]] # None

(* Every event of the batch saved so far has a row of its own, found by    *)
(* each of its records and by no other, with this run's stamp: an event    *)
(* saved later in the batch never takes over or deletes an earlier one's   *)
(* row, even when a previous run had merged the two.  Only an event that   *)
(* has one of its very records does.  "By no other" is claim's: a record   *)
(* "that has stopped merging into this event" stops pointing at it.        *)
(* schema.sql says that the table has "Every feed record that has ever     *)
(* merged into an event" and the head of claim that "the losers'           *)
(* fingerprints are repointed at it", which the code does not do.          *)
OwnRow ==
    tx # None =>
      \A i \in 1 .. tx.done :
        \/ Overtaken(tx.batch, i, tx.done)
        \/ \E id \in Fps :
             /\ {f \in Fps : tx.owner[f] = id} = Fingerprints(tx.batch[i])
             /\ tx.rows[id] # None
             /\ tx.rows[id].group = tx.batch[i].group
             /\ tx.rows[id].start = tx.batch[i].start
             /\ tx.rows[id].last = tx.stamp

MergeKeepsOldest ==
    tx # None /\ tx' # None /\ tx.done < tx'.done =>
      LET e == Current(tx) IN
      \A q \in Found(tx, e), f \in Fingerprints(e) :
         tx'.rows[tx'.owner[f]].first <= tx.rows[q].first

(* Merging keeps the oldest first_seen among the rows it joins: no event   *)
(* becomes newer because a second feed started to list it (claim).         *)
OldestKept == [][MergeKeepsOldest]_vars

PublishesSigned ==
    \A f \in Fps :
      rows'[f] # rows[f] /\ rows'[f] # None =>
        (rows'[f].status = "published" <=> groups[rows'[f].group] = "verified")

(* What is committed publishes a row only for a group signed for at that   *)
(* moment, and a row whose group has lost its signature is withdrawn by    *)
(* the first run that sees it again.                                       *)
GateHolds == [][PublishesSigned]_vars

MovesToStamp ==
    /\ LastSynced(rows') >= LastSynced(rows)
    /\ rows' # rows => LastSynced(rows') = tx.stamp

(* A committed run moves LastSynced to the instant it shared, and nothing  *)
(* moves it back, although a merge deletes rows that were seen later than  *)
(* the one that survives.                                                  *)
SyncedAdvances == [][MovesToStamp]_vars

(* The counts SaveEvents returns account for the table: one insert or      *)
(* update per event, and rows come and go only by inserts and merges.      *)
CountsAddUp ==
    tx # None =>
      /\ tx.res.inserted + tx.res.updated = tx.done
      /\ Cardinality(LiveIn(tx.rows)) + tx.res.merged
           = Cardinality(LiveIn(rows)) + tx.res.inserted
      /\ tx.res.promoted <= tx.res.updated

(* The entries of the committed tables: each row with the records that     *)
(* lead to it.                                                             *)
Entries ==
    {[recs |-> {f \in Fps : owner[f] = id}, group |-> rows[id].group,
      start |-> rows[id].start, status |-> rows[id].status,
      first |-> rows[id].first, last |-> rows[id].last] : id \in LiveIn(rows)}

(* What a batch tells of its events.                                       *)
Tale(b) ==
    [i \in DOMAIN b |->
        [recs |-> Fingerprints(b[i]), group |-> b[i].group, start |-> b[i].start]]

Contents == {Tale(b) : b \in Batches}

Signed == {g \in Groups : groups[g] = "verified"}

C == INSTANCE Catalogue WITH entries <- Entries, signed <- Signed

(* The store implements the catalogue: whatever rows merge, split or are   *)
(* taken over on the way, a committed batch replaces just the entries it   *)
(* shares a record with, each event inherits the age of what gives way to  *)
(* it, and a call that fails changes nothing (SaveEvents).                 *)
Catalogued == C!Spec

=============================================================================
