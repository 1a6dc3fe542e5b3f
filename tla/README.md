# htxdev, specified

TLA+ modules, TLC configurations and TLAPS proofs for htxdev, the batch program
that collects Houston tech meetups from a dozen calendars into one SQLite file
and one JSON feed.

## 1. The system

    data/groups, data/rejects.yaml          (people, by pull request)
              |
    fetch ----+--> normalize ----> store (htxdev.db) ----> export --> data/events.json --> site
    (feeds)        (one event         |
                    per meeting)      +--> htxdev serve (HTTP API)

| part | state it keeps | operations | hard because |
|---|---|---|---|
| `internal/registry` | none; loads groups, feeds, venues, rejects | Load, LoadRejects, EnabledSources | a file edited alone can contradict another |
| `internal/fetch` | one Result per source | Fetch (4 at a time), tribe pagination, bevy page walk, getBody with a deadline | goroutines, cancellation, calendars that change while they are paged |
| `internal/source` | the parser's place in a document | ParseICS, ParseTribe, ParseHOSS, bevy; expandRecurrence | nested and cut-off components; recurrence rules: COUNT, UNTIL, BYDAY, DST |
| `internal/normalize` | none | New; Events: resolve (group and venue), cluster, collapse, merge, reject | the result must not depend on the order feeds answered in; a place is written in many ways |
| `internal/store` | groups, sources, venues, events, event_fingerprints | SyncRegistry, SaveEvents (claim, venueRow, replaceProvenance), Upcoming, LastSynced, Groups | one transaction rewrites rows other events of the same batch still need; venues are discovered and curated in any order |
| `cmd/htxdev` sync, export | the run | load, fetch, mirror, save, verdict; export | two transactions, any of which may be the last thing the process does |
| `internal/api`, `cmd/htxdev` serve | in-flight requests | handleEvents, conditional requests, middleware, shutdown | reads that are not one transaction, beside a sync that commits |
| `.github/workflows/sync.yml` | the committed htxdev.db and events.json | trigger, checkout, sync, export, commit, push | jobs queue, race merges to main, and lose their database with the runner |
| `site` | hidden groups in localStorage | build from events.json; filter | stored slugs against a list that changes daily |

What makes them correct, part by part: normalize makes exactly one event per
meeting, loses no record and does not depend on arrival order; the store keeps
one row per event however meetings merge and split from run to run, never makes
an event look newer than it is, and publishes a row only for a group a person has
signed for; a sync that gets through has stored what its feeds said and nothing
else, and one that does not leaves no trace of its events; a feed's silence costs
an event nothing; a source that reports success has all its events or says that
some are missing, and none fails because another did; a rule is expanded to the
days it means or not at all; a calendar is read as the events it holds, each with
an identity of its own, and what it loses is reported; a place is read back as
the one building and room its feed meant, and a curated address survives every
feed; a registry that loads means one thing; a job takes back nothing that is on
main; a response is dated no earlier than what it holds, and a request that was
accepted comes to an end. `PROJECT.json` lists the hazards behind these, each at
its line.

## 2. Modules

**Store** (`internal/store`). `groups`, `feeds`, `rows` and `owner` are the
tables groups, sources, events and event_fingerprints. A row is named by its
`fingerprint` column: the column is UNIQUE and no UPDATE sets it. `tx` is the
working copy of an open SaveEvents with its SaveResult; `SaveBegin`, one `Insert`
or `Update` per event, `Commit` and `Rollback` are its steps, `SyncRegistry` the
other writer. `Found`, `Survivor` and `MergedRows` are `claim`; `Reown` is
`replaceProvenance` with the cascade of the rows `claim` deleted; `Refused` is
every check that makes SaveEvents return an error, the explicit ones and those of
the schema. What normalize must give it is the assumption `BatchesAssumption`.

**Catalogue** is what Store promises, without rows, fingerprint tables or
transactions: entries known by the records they have, and SaveEvents as one
step, `Save`: the events of a batch are filed in its order (`Shelves`), each in
the place of the entries it shares a record with and as old as the oldest of
them (`Filed`). Store implements it (`Catalogued`): a row is an entry with the
records that lead to it, and only `Commit` is a step.

**Venues** (over Store) adds the venues table. `place` is venue_id and
venue_name of each row, `last` SQLite's last_insert_rowid, one value for the
whole connection. `MirrorVenues` is SyncRegistry with its upsert of the curated
venues, `SaveWithVenue` an event's claim with the `venueRow` before it:
`WithVenue` what that does to the table, `VenueId` the id it answers with,
`Upserts` the table after each of a list of upserts.

**Normalize** (`internal/normalize`). Operators only, since the package is
a function of registry, rejects and records. `Clusters` groups the records by
`ClusterKey`, `Collapse` says which of a cluster are one event, `Merge` makes the
event, `RejectedEvent` drops it, and `Events` lists what is left. Both of the
package's sorts are `Ranked`, the members of a finite set by how many come before
each: `Beats` is merge's stable sort of the records, `Precedes` the order of the
events. `Tellings` is merge's loop over the places its records tell, `Told` its
outcome.

**Places** (`normalize/venue.go`). `ResolveVenue` from what a feed says of its
venues: `Nested` for a list, `Flat` for one string, with `FoldName`, the cuts at
dashes and commas, `RoomSegment`, `RoomIn` (stripVenuePrefix) and
`SplitFlatAddress`. A name is a sequence of words, spaces and punctuation.

**Registry** (`internal/registry`, and `normalize.New`). `Accepted` is the list
of problems Load may report, `New` the maps normalize builds from a registry that
loaded: the first file to claim a name has it, the last to list a feed. A place
in a file's list of sources is a pair of numbers (`Claims`), so that two files
that list one feed make two of them.

**Sync** (`cmd/htxdev`, over Store and Normalize). `files` is what the
maintainers' files say, `run` the copy a run loaded with what its feeds answered
and how far it has got, `listing` data/events.json. `Start` is runSync up to the
end of the fetch, `Mirror` and `Save` the two transactions of `persist`,
`SaveEvent`, `Saved` and `Refuse` the inside of the second, `Die` a crash or an
interrupt anywhere, `Fail` the verdict on a run no source answered, `Export` the
step the workflow takes next. Each feed answers with an error or with any of the
lists `Answers` has for it, which covers outages, forgotten, moved, withdrawn and
returning events, and a record given twice: nothing between the fetch and
SaveEvents looks for one. `Meetings` is an independent statement of what a run
was told, `StoredMeetings` the same of what it wrote.

**Fetch** (`internal/fetch`). `holding` is the semaphore, `stage` where each
source's goroutine is, `walk` the locals of its `Get`, `result` the slice Fetch
returns. `Acquire`, `Release` and `Return` are Fetch itself; `TribePage` is one
turn of the tribe loop (`AfterPage` what it appends, `CutShort` the skip after
it), `Document` an iCalendar file or an HTML page, `BevyChapter`, `BevyPause`
and `BevyEvent` the crawl of a chapter, `RequestFails` any request of these that
fails. What a source brings is a set of requests with the record each yielded, so
a record that two pages bring is there twice, as in the code's list (`Brought` is
the records without the repetitions). `Add` and `Withdraw` are the calendar's
owners at work meanwhile (`withdrawn` remembers what a source lost), `Cancel` the
signal. `Sync` takes of all this only what a run can be handed, the repetitions
included.

**Ics** (`internal/source/ics.go`, over Recurrence). ParseICS line by line:
`cur` is the event being filled, `skipDepth` the nesting inside a component that
is ignored. `BeginComponent`, `EndComponent` and `ReadProperty` are the switch
of its loop, `EndSingle`, `EndRecurring`, `Expand` and `Collect` the END:VEVENT
case with toRawEvents, `EndOfStream` what follows the loop, `ReadFails` a body
that breaks off with an error. `Documents` are any sequences of lines a feed may
send, `Readable` what the decoder makes of a line's value.

**Recurrence** (`internal/source/ics_recurrence.go`). One call of
expandRecurrence, from `Begin` to `Return`: `Parse` refuses the combinations parseRRULE refuses,
`NextPeriod` begins a period of the loop with the days it will emit
(`Candidates`, for months `MonthCandidates`), `BeforeStart` and `Emit` are emit,
`RunOut` the loop's own end, `Expanded` the list without its EXDATEs. A rule is
any member of the type `Rule`, a calendar any list of months (`Lengths`) that
repeats itself as the Gregorian one does, with the weekday of its first day.

**Api** (`internal/api` and `serve`, over Store). `req` is each handler's
progress through `Order`, the four statements of handleEvents; `Query` runs one
and takes the store's one connection, `Close` reads its rows to the end and gives
it back, `ReadFails` is the error path. `Write` is the other process: the steps
of Store, with `ids`, the events.id that Store leaves out and SQLite reuses.
`Signal`, `Drained`, `GiveUp` and `Exit` are runServe from the signal to the
process's end.

**Workflow** (`.github/workflows/sync.yml`). `commits` is main, a commit being
the files, the database and the listing; `tree` is a job's working copy and
`base` the commit it was triggered at, which is what actions/checkout takes.
`Trigger` is the concurrency group (a newer job takes the waiting one's place),
`Checkout` to `Push` the steps, `Merge` a pull request, `Die` a lost runner.
What happens inside `htxdev sync` and `export` is Sync.

The theorems are in eight modules: **StoreProofs**, also that Store implements
Catalogue; **ApiProofs** for Venues and Api, over StoreProofs;
**NormalizeProofs**; **RegistryProofs**, over MCNormalize and NormalizeProofs;
**SyncProofs**, over Sync, StoreProofs and NormalizeProofs; **FetchProofs**;
**RecurrenceProofs**, over MCRecurrence; **WorkflowProofs**. The **MC** modules give the constants their values;
MCNormalize and MCRecurrence also hold the reference definitions and the
properties stated with them.

How they compose: Venues extends Store, Api extends Venues, Normalize extends
Places, Sync extends Store and Normalize, Ics extends Recurrence. Store instances
Catalogue for its refinement.

Data the properties do not tell apart is abstracted: titles, links and
categories are left out, times are small numbers, names are compared without
regard to case and quotes, an occurrence is its day, a request is one step. Of
an address street and city are kept. A source's `enabled` flag is left out: a
disabled feed is one that never answers.

## 3. Runs

| run | instance | shows |
|---|---|---|
| `store` | 3 records, 2 groups, batches of at most 2 events of at most 3 records, one of which they may share, 2 runs; symmetric in the records | every way two runs can merge, split and re-home three records, with a rollback anywhere and a signature given or taken in between; and that this implements Catalogue |
| `normalize` | every sequence of at most 3 records of 3 feeds, 2 upstream ids, 2 instants, 3 ways to name a place, 2 reject lists; every way of writing a place, alone; every registry some edits away from 2 venues and 2 groups | resolution, merging, splitting and rejection against `Meeting`, an independent statement of which records are one meeting; places against what was meant; what Load's checks are for |
| `sync` | 2 feeds, 3 records, two of which may come twice, 2 instants, 3 states of the files, 3 runs | the whole pipeline from files and feeds to rows; also that everything normalize can make of its instance meets the store's assumptions (for every instance: `NormalizedFits`) |
| `sync_refused` | as `sync` | **finding**: a run can be refused although its sources answered |
| `sync_rejects` | as `sync` | **finding**: a reject does not withdraw what is already published |
| `fetch` | a tribe, a document and a bevy source, 2 slots, pages of 4, 2 pages, 2 event pages, 1 edit upstream | a source reports all it listed or a skip, and an event twice only for an edit or a loop; failures stay with their source; Fetch returns whatever fails, loops or is cancelled |
| `recurrence` | documents with one rule: 3 frequencies with every combination of 2 intervals, 4 counts, 3 ends, 6 weekday and 4 date lists, 4 first days, 3 windows, 2 EXDATE sets, in 2026-27; calendars with a zone and two events of 12 kinds, cut off after any line, and with the END of an event missing | the walk lists the days a day-by-day reading of the rule gives; a document is read as the tree it is |
| `ics_overrides` | a series with two moved instances | **finding**: both come out with the series' own UID |
| `api` | one request, 2 clock ticks, batches that split, merge and add a group, a venue discovered before it is curated, SIGTERM anywhere | what a response may mix of two syncs; the drain; that a request ends, not waiting for the connection it has; that curated addresses survive the feeds |
| `api_sources` | as `api` | **finding**: an event listed with none or another's sources |
| `venue_id` | two events at one place, spelled in two ways that make one slug | **finding**: an event that points at no venue or at a wrong one |
| `workflow` | 3 jobs, 2 merges to main | main never loses a merge or a sighting, whatever waits, races, fails or dies; every job ends |

Bounds. `MaxTime` bounds the runs (each reads the clock once, `Start` ticks it).
Three records are the least for an ambiguous cluster (two of one feed, one of
another); three runs the least to merge, split and reunite. Two instants suffice
for a meeting to move and to be past. A batch of run `store` says one record
twice only of one group, which leaves out a record whose organizer changed
between two pages. `MaxBatch` 2 lets an event meet the row the
event before it was saved to; the proofs take over where the bounds stop.

In `normalize` the records that are clustered name places in three ways (a
place nobody curates, a room of a curated one, none), which is enough for each
outcome of merge's comparison; the many spellings come one record at a time,
since resolveVenue sees one record. Three groups would add nothing to two: every
problem Load reports is within a file or between two.

In `recurrence` two events follow each other so that anything the first leaves
open would spill into the second. The 12 kinds are one for each error, skip and
silent drop of toRawEvents, and the nestings the decoder has to see through.

In `workflow` three jobs are one at work, one waiting and one that takes its
place; two merges are one before and one during a job.

The limits of Recurrence are scaled down: 8 periods to 20 occurrences where the
code has 2000 to 5000, so that each is reached, by itself, inside a calendar of
18 months. Its first days are the 1st, the 7th, the 31st and a day of the short
month. In Fetch the ratio (4, 3) is the code's and the ceilings are 2, which is
the least with a page between the first and the cut; MaxEdits 1 is one event
added or withdrawn. One source of each kind over two slots makes one wait; the
pool itself does not look at the kinds. An addition between the first page and the
second is what brings an event twice. In Api one request is enough, for the
properties are about what one response holds; requests meet only at the
connection, and that none of any number keeps it from the others is proved
(`OneReaderCorrect`).

Deadlock is not checked: runs, fetches, walks and servers come to an end, and a
bounded clock runs out.

Fairness. Store, Normalize, Sync and Recurrence have only safety properties and
no fairness. Fetch assumes that a goroutine which can run does, that a request is
answered or its deadline passes (getBody sets one on each), and that a free slot
goes to a goroutine that waits: weak fairness of `Acquire` and `Advance` per
source and of `Return`. Weak is enough, since each source takes a slot once.
`Cancel` and the edits have none. Api assumes that a handler's next statement
runs or fails (busy_timeout bounds the wait for the other process), and that a
server told to stop takes its next step; nothing of clients, syncs or failures.
Workflow assumes that GitHub starts a waiting job once the group is free and
runs its steps (weak fairness of each job's `Step`); nothing of merges, triggers
or lost runners. `cancel-in-progress: false` is what makes weak enough: a job
that has begun is never taken back.

The properties, each stated above its definition: in Store `ProvenanceLive`,
`OwnRow`, `CountsAddUp`, `OldestKept`, `GateHolds`, `SyncedAdvances` and the
refinement `Catalogued`; in MCNormalize `EventsAreMeetings`, `NothingLost`,
`OrderFree`, `VenueResolved`, `PlaceRead`, `OneMeaning`; in Sync
`MeetingsStored`, `GateIsTheFiles`, `UnheardKept`, `FirstSeenKept`; in Fetch
`CompleteOrFlagged`, `SeenOnce`, `OneDeadFeed`, `Returns`; in MCRecurrence `Exact`,
`DistinctIds`, `FeedIsMeaning`, `LossFlagged`; in Venues `CuratedShown` and
`VenueIsNamed`; in Api `StampCovers`, `GroupsNamed`, `DrainedFirst`,
`Answered` (and `OneReader`, which no run checks and ApiProofs proves); in
Workflow `Agreeing`, `NothingUndone`, `OnlyGoodRuns`, `Ended`. `VenueIsNamed`
holds in run `api`, where each name has a slug of its own, and fails in
`venue_id`, where two share one.

## 4. Findings

*A run can be refused for good* (`NeverRefused`). A row keeps the fingerprint it
was inserted with, but is found by the records it has now. When a record leaves
its row, because the feed lists a second meeting at that instant and the cluster
is split, it is inserted again under a fingerprint the row still carries;
`UNIQUE(fingerprint)` fails, and with it the transaction and the sync. The next
run meets the same feeds and fails the same way.

*A reject does not withdraw a published event* (`RejectsApply`). Rejected events
never reach the store, so a row that an earlier run published is not touched, and
the export goes on listing it.

*An event can be served with another's sources* (`SourcesOfEvent`). Upcoming
reads events and their provenance in two statements joined by events.id. A sync
that commits in between may delete a listed row and give its id to a new one.

*An event can point at the wrong venue* (`VenueIsNamed`). When a feed's name has
no row but its slug has, venueRow's INSERT becomes an UPDATE, and LastInsertId
answers with the last row the connection inserted into any table. That is
neither an error nor 0, so the id is not read back, and it is stored.

*Overrides of a series share one identity* (`OwnIdentity`). RECURRENCE-ID is not
on the decoder's allowlist: each moved instance of a series is a single event
with the series' UID, and the series goes on listing it at its old time too.

Others have no run. The properties that meet them say so where they leave the
case out.

- A comment and the schema say that provenance only grows: event_fingerprints has
  "Every feed record that has ever merged into an event"
  (`src/internal/store/schema.sql:109`), "the losers' fingerprints are repointed
  at it so nothing loses its provenance" (`src/internal/store/store.go:298`). The
  code deletes them, and the comment inside claim (`store.go:336`) says that it
  means to: what no longer merges "should stop pointing at it". `OwnRow` and
  `Catalogued` are about the code, so about this last sentence.
- `src/internal/core/core.go:167` says that "one feed contributes two records to
  one event, which a venue calendar listing a co-hosted meeting twice really
  does". collapse makes two events of them ("a calendar does not list one event
  twice", `src/internal/normalize/normalize.go:184`), and so do
  `EventsAreMeetings`.
- A record that a feed gives twice at two instants makes two events with one
  fingerprint. The second save takes over the row of the first and drops what
  else had merged into it, so that a record another feed gave once can end up
  with no row, in a run that succeeds. An event added upstream between two pages
  is enough for the first half (`src/internal/fetch/fetch.go:260` appends without
  a look at what is there). `MeetingsStored` says what is left: only a meeting
  that shares a record with another may be missing.
- Reaching maxPeriods ends a walk without the flag that turns the event into a
  skip: a daily rule older than 2000 days disappears (`Cut` in `Exact`), although
  occurrences "returns the instants landing in [from, until], plus whether it gave
  up" (`src/internal/source/ics_recurrence.go:118`).
- A WEEKLY rule's days are emitted in the order BYDAY lists them, and the first
  past COUNT, UNTIL or the window ends the walk, although an earlier day of that
  week is still due (`InWeekOrder` in `Exact`). A day that BYDAY lists twice is
  emitted twice: only the days of a month are deduplicated (`DaysOnce` in
  `EventsDistinct`).
- An ignored component whose END is missing, a VTIMEZONE for one, swallows the
  events after it without a skip: an open `cur` is reported at the end of the
  stream, an open skipDepth is not (`src/internal/source/ics.go:154`).
  `LossFlagged` is about the END of an event.
- A job that waited for another checks out the commit it was triggered at, so
  its push is always rejected once the first has pushed (`Push`).
- A venue discovered under one slug and curated under another keeps winning the
  lookup by name, with its own address; `CuratedShown` needs one slug per name
  (`OneSlug`). `src/data/venues/801-travis.yaml` is such a venue: its slug is
  801-travis, that of its name 801-travis-st. It is safe only as long as it is
  curated before any feed names it.
- stripVenuePrefix has no word boundary ("Ionia Cafe" in "Ion" is a room) and
  counts letters of the folded name in the one as written, so a doubled space
  clips the room's first letter, although "folding only replaces runes one for
  one" (`src/internal/normalize/venue.go:174`); splitOnDash, which "splits at the
  first dash of any width" (`venue.go:191`), looks for every en dash before any
  hyphen: "Ion - Room 29 – 30" splits at the second. `PlaceRead` leaves out names
  that share a beginning, carry a second dash of an earlier kind or a doubled
  space.
- An uncurated flat LOCATION with a room in it files the room as the street.

Three more are about the server. handleEvents reads the date of the feed last, so
a sync that commits before that read dates the older events by the newer run
(`StampCovers` is the half that holds). `src/internal/api/api.go:76` says a panic
is still logged as a request, but logRequests logs after the handler returns and
not in a defer. `src/README.md:75` says an in-flight request is not dropped, which
holds for 10 seconds (`DrainedFirst` with `cut`).

## 5. Proofs

Each theorem holds for all values of the constants that meet the assumptions. An
invariant that is not inductive is proved with what it needs, in conjuncts with
names. TLC finds each of these invariants true on its run's instance (Sync's with
one run fewer, and where one says that a natural number exists, up to a bound).

**Store.** `DbInv` is the types with `ProvenanceLive`: a merge deletes rows, so
that every fingerprint leads to a live row is what makes the survivor's row
exist to be updated. `OwnRow` is inductive on top of it: an event's save touches
only the rows its records lead to, so it meets the row of an earlier event of the
batch only if the two have a record in common, which is `Overtaken`. Of a batch it
takes no more than that each event is named by one of its own records (`BatchOK`).
`TxGated` carries the gate from each write to the commit, and uses that no
registry is mirrored while a transaction is open. `TimeInv` bounds every stamp by
the run's, which makes the newest stamp after a commit the run's own. `CountInv`
adds to `CountsAddUp` that the tables are finite: without that a cardinality says
nothing.

**Store implements Catalogue** (`CatalogueCorrect`). `TxTables`, the main part of
`ShelfInv`, says what an open transaction has made of the committed tables: read
as entries they are what filing the events saved so far, one after the other, has
made of those it began with (`Filing`); rows nothing touched are as they were, and
every other is the row of an event that was saved and not overtaken. At `Commit`
that is Catalogue's `Save`; every other step stutters or is Catalogue's.

**Venues and Api.** `VenuesIsStore`, `ApiIsVenues` and `ApiIsStore` are
refinements by the identity: what is proved of the smaller specification holds of
the larger. `VenuesInv` follows the table through the upserts: one row per name
and slug (`Settled`), every name that is to be found there with its slug
(`Established`), curated addresses kept (`Honours`), each row of events at the
venue it names (`Pointing`). `ApiInv` joins the database's invariants, among them
`ForeignKey`, with `IdInv` (the ids number the rows, although deleted ones are
given out again) and `ReqInv` (what a request was given stays true of the database,
whatever commits meanwhile: nothing it lists is newer than the last sync, or of a
group that is not there). `DrainInv` is for `DrainedFirst`; `OneReader` is
inductive with the types.

**Sync.** `SyncIsStore` says that the two commands write the database as Store
does. `StageInv` ties the stage of a run to the tables: until the second
transaction commits no row has the run's stamp, from the mirror on the
signatures are those of its files, and the open batch is what normalize makes of
the answers. `NormalizedFits`
proves of that batch, whatever the feeds answer and however often they repeat
themselves, what Store assumes of every batch, so the assumption is one only for
other users of Store; that no record is in two events is proved of answers in
which no two records have one fingerprint. `MeetingsStored` holds of both: with
`TxTables` at the commit every row of the run is that of one of its events, and by
`OwnRow` every event has its row unless a later one has a record of it. The same
gives `GateIsTheFiles`. `SameRow`, that an event with exactly a row's records gets
that row, gives `FirstSeenKept`.

**Normalize**, for lists of any length, any registry and any rejects: the
events are the meetings (`EventsTell`), nothing is lost (`EventsLoseNothing`), the
events are what the store is promised (`EventsFit`), any permutation of the
records gives the same events (`EventsOrderFree`), and an event's place is that of
the first of its records with a curated one, else of the first with any, else its
group's default (`EventsPlaced`).

**Registry, and the runs of MCNormalize.** `FilesInAnyOrder` is about any
directory (`Directory`: lists of files with a slug of their own). What Load
refuses is what makes order matter, so in one it accepts the first claim of a
name is the only one (`NamedOnce`), and of a feed too (`ClaimantBack`).
`RegistryMeansOne` is that for the directories of the run. The other theorems are
about runs of any length (`MaxRaw` is any number), from the invariant `Loads`
(`reg` is what `New` makes of `dir`) with `Normalized` (`out` is what `Events`
makes of the records received, each of which is one the feeds send): the
theorems of Normalize, read with whose a record is and where it is according to
the files (`WhoseItIs`, `PlacesTold`).

**Fetch.** `FetchInv` is `TypeOK` and, per source, `SourceInv`: where a walk can
be (`Shape`); as long as nothing is withdrawn, nothing listed is gone (`Kept`),
and a tribe walk has read all that was listed at its start and is shown above its
next page (`PagesRead`, an addition only moves events down); a bevy walk without
a skip knows every event page there was (`LinksRead`), and has a second skip only
for a reason (`SkipsEarned`). The two properties are its last two conjuncts.

**Workflow.** `WInv` says besides the properties that the tree of a job at work
is the commit it was triggered at with what the job adds (`BuiltOnBase`), which
makes a push that is not rejected an extension of main; and that only jobs that
got through are named on main (`OnlyDoneNamed`).

**Recurrence and Ics**, for any documents, any rule, any calendar of months of 28
to 31 days and any limits. `Typed` carries the types through the decoder; a walk
that is refused for its length is the only one past `MaxOccurrences`
(`WalkTypes`). That a walk is exact needs two things. One is arithmetic: the
candidates of period p are the days between its start and that of period p+1
that the rule means (`PeriodsSound`), which for BYDAY and BYMONTHDAY of a month
is that counting weekdays from either end agrees with the reference's count
(`MonthDaysMean`). The other is `WalkCounts`: what is counted and listed is
exactly what the rule means between DTSTART and the next candidate, the queue
being what is left of the period. When the walk stops at a day, COUNT, UNTIL or
the window excludes that day and every later one (`StoppedComplete`).
`WalkExact` follows. `EventsDistinct` is about the decoder: `Nesting` says which
component a line is in, `Listed` that every event listed so far has a UID that was
read from a line of its own event, `WalkOnce` that a walk lists no day twice. Its
hypotheses, which the documents of run `recurrence` meet, are that no two events
share a UID (`OwnUids`; a finding shows what then happens) and that a WEEKLY rule
names a weekday once (`DaysOnce`).

Assumptions, by the module that declares them; TLC evaluates each on a run.

- Store: `RegistriesAssumption` and `BatchesAssumption` give the shapes of its
  input, and that an event is named by one of its records, which `NormalizedFits`
  proves of normalize; two events may have a record in common. `NoneAssumption`
  and `NoTxAssumption` keep the null value apart; `TimeAssumption` bounds the
  clock.
- Venues: `VenuesAssumption` types the names, and a curated venue has one and a
  slug of its own, since it is the name of its file (`decodeDir`) and Load
  reports a missing name.
- Api: `ClientsAssumption`.
- Sync: `CatalogAssumption`, `SourcesAssumption`, `UpstreamAssumption`,
  `AnswersAssumption` and `NoRunAssumption` are shapes: an answer is a list of
  records of its own feed, of which any may be repeated.
  `MirroredAssumption` and `NormalizedAssumption` say that Registries and Batches
  hold at least what the files and normalize produce.
- Fetch: `FetchAssumption` is shapes and `SkipTolerance <= MinPageForRatio`, which
  for the code is 3 <= 4 (`src/internal/fetch/fetch.go:33`): a page that may be
  failed for its skips has more than one.
- Recurrence and Ics: `CalendarAssumption` (months of 28 to 31 days),
  `LimitsAssumption`, `WindowsAssumption`, `DocumentsAssumption` (a document is a
  finite sequence of lines, with values of their kind) and `NoneAssumption`.
- MCNormalize: `BoundsAssumption`, that its bounds are numbers.
- Workflow: `WorkflowAssumption`.

Some theorems have hypotheses. Those of Normalize ask that ids and priorities are
numbers (`Given`), `EventsFit` that no two records share a fingerprint
(`DistinctFps`),
and `EventsOrderFree` that no two records of a cluster have one priority and one
id (`Untied`); with a tie the code's stable sort keeps the order of arrival.
`CuratedCorrect`, `VenueCorrect` and `CuratedServed` ask for `OneSlug`: a name has
one slug and a slug one name, and a name whose file is called otherwise than
venueSlug would call it is curated from the start. The instance of run `api` meets
it; that of `venue_id` does not, and shows what then happens.

Recursive functions (`Upserts`, `Tellings`, `Folded`, `FirstDay`) are shown to be defined, and reasoned
about at every length, by their least counterexample: the library's induction
theorems take an operator, but that a set of numbers has a least member
(`LeastExists`, `MinIsLeast`) does not. For a fold or a SelectSeq of the community
and standard modules that would mean reasoning about the library's own recursive
definition; no theorem here looks into one.

Only model-checked:

- `Returns`, `Answered`, `Ended`: liveness under fairness, with ENABLED. What
  `Answered` needs of more requests than the one of its run, that none keeps the
  connection, is `OneReader` and proved.
- `PlaceRead`: some hundred spellings, one evaluation each, through SelectSeq and
  FoldLeft. What `RunsPlaced` needs of three of them is proved.
- `SeenOnce`: the bound by the number of edits is a count over the requests of a
  walk.
- `FeedIsMeaning` and `LossFlagged`. The first is about documents whose ENDs
  match their BEGINs and whose walks stay within their limits, the second also
  about an event whose END is missing; neither holds of any document, and what would have to be
  proved is that the documents of the run are of that kind.

## 6. Not modelled, and the plan

Left to prove: `FeedIsMeaning` for every document that is well nested; which text
`FirstFilled` picks.

An abstract specification still worth stating: Fetch and Ics as implementations
of what Sync is handed.

Left out, with the reason:

- ParseTribe, ParseHOSS and the bevy parsers: functions of one document without
  state, which decode or skip each record on its own. Fetch has what a page
  yields; the wording of the wire formats is all that would be added.
- In Ics unfolding, parameters, escapes, zones and DTEND: an occurrence is its
  day. Daylight saving therefore cannot be seen in the model.
- event_categories, Counts and the report: nothing decides on them.
- LoadRejects: one file with the checks Load makes of many; which events are
  rejected is in Sync and Normalize. Strict YAML decoding is the flag `decodes`.
- Conditional requests, CORS, request logging and panic recovery: they change a
  response's form and no state. `/healthz` reads nothing.
- Lengths of time: shutdown gives up after 10 s and a handler may take 15 s
  (`GiveUp` may come at any moment), a request of the fetch has its deadline (it
  may fail at any moment).
- The site: static pages, and a filter of hidden groups that one browser keeps
  for itself.
- Excerpts: a function on text.
- `check.yml`, which builds and tests.
