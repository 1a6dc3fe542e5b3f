------------------------------- MODULE Venues -------------------------------
(***************************************************************************)
(* The venues table of internal/store: SyncRegistry's half of it, and      *)
(* venueRow, which gives every saved event a venue_id.                     *)
(*                                                                         *)
(* Venue rows are never deleted, so a row's id is its place in the table.  *)
(* last is SQLite's last_insert_rowid, one value for the whole connection: *)
(* the id of the last row it inserted into any table.  Of an id of another *)
(* table only that is kept (Elsewhere); as a venue_id it names whichever   *)
(* venue has that number, or none.                                         *)
(***************************************************************************)
EXTENDS Store, FiniteSetsExt, SequencesExt

CONSTANTS
    VenueOf,    \* the venue normalize gives an event, by its fingerprint: name, address
    SlugOf,     \* venueSlug, on the names that occur
    CuratedBy   \* registry -> the curated venues it lists: slug, name, address

Elsewhere == -1
NoAddress == ""
NoVenue == ""
Nowhere == [id |-> 0, name |-> NoVenue]

Venue == [slug: STRING, name: STRING, address: STRING]

(* A curated venue has a name, and its slug is the name of its file.       *)
ASSUME VenuesAssumption ==
    /\ VenueOf \in [Fps -> [name : STRING, address : STRING]]
    /\ SlugOf \in [DOMAIN SlugOf -> STRING] /\ DOMAIN SlugOf \subseteq STRING
    /\ \A f \in Fps : VenueOf[f].name # NoVenue => VenueOf[f].name \in DOMAIN SlugOf
    /\ \A reg \in Registries :
          /\ CuratedBy[reg] \in Seq(Venue)
          /\ \A i, j \in DOMAIN CuratedBy[reg] :
                /\ CuratedBy[reg][i].name # NoVenue
                /\ CuratedBy[reg][i].slug = CuratedBy[reg][j].slug => i = j

VARIABLES
    venues,    \* the venues table, in the order of its ids
    place,     \* venue_id (0: unresolved) and venue_name of each row of events
    txvenues,  \* venues and place in the open transaction
    last,      \* last_insert_rowid of a process that has mirrored its registry,
               \* or None: no process is between SyncRegistry and SaveEvents' end
    mirrored   \* the curated venues the last mirrored registry listed

venueVars == <<venues, place, txvenues, last, mirrored>>

VenuesInit ==
    /\ venues = <<>>
    /\ place = [f \in Fps |-> Nowhere]
    /\ txvenues = [table |-> venues, place |-> place]
    /\ last = None
    /\ mirrored = <<>>

Named(table, name) == {i \in DOMAIN table : table[i].name = name}
Slugged(table, slug) == {i \in DOMAIN table : table[i].slug = slug}

----------------------------------------------------------------------------
(* SyncRegistry: the first thing a process writes, on a new connection.    *)

Upsert(table, v) ==
    IF Slugged(table, v.slug) = {} THEN Append(table, v)
    ELSE [i \in DOMAIN table |-> IF table[i].slug = v.slug THEN v ELSE table[i]]

(* The table after each turn of the loop over the curated venues.          *)
Upserts(table, curated) ==
    LET after[n \in 0 .. Len(curated)] ==
            IF n = 0 THEN table ELSE Upsert(after[n - 1], curated[n])
    IN  after

Upserted(table, curated) == Upserts(table, curated)[Len(curated)]

(* The last of its INSERTs that found no row to update: sources come after *)
(* venues, and venues after groups.                                        *)
LastMirrored(reg) ==
    IF ~ reg.feeds \subseteq feeds THEN Elsewhere
    ELSE IF Len(Upserted(venues, CuratedBy[reg])) > Len(venues)
         THEN Len(Upserted(venues, CuratedBy[reg]))
    ELSE IF \E g \in reg.groups : groups[g] = "absent" THEN Elsewhere
    ELSE 0

MirrorVenues(reg) ==
    /\ SyncRegistry(reg)
    /\ venues' = Upserted(venues, CuratedBy[reg])
    /\ txvenues' = [table |-> venues', place |-> place]
    /\ last' = LastMirrored(reg)
    /\ mirrored' = CuratedBy[reg]
    /\ UNCHANGED place

----------------------------------------------------------------------------
(* venueRow                                                                *)

FillAlways(v, address) == [v EXCEPT !.address = address]

(* Fill in blanks only.                                                    *)
Fill(v, address) == IF v.address = NoAddress THEN [v EXCEPT !.address = address] ELSE v

(* The table once v has a row: found by its name and filled in, inserted,  *)
(* or found by its slug under another name and renamed.                    *)
WithVenue(table, v) ==
    IF v.name = NoVenue THEN table
    ELSE IF Named(table, v.name) # {}
         THEN [table EXCEPT ![Min(Named(table, v.name))] = Fill(@, v.address)]
    ELSE IF Slugged(table, SlugOf[v.name]) = {}
         THEN Append(table, [slug |-> SlugOf[v.name], name |-> v.name, address |-> v.address])
    ELSE [i \in DOMAIN table |-> IF table[i].slug = SlugOf[v.name]
                                 THEN [table[i] EXCEPT !.name = v.name] ELSE table[i]]

TrustedId(table, v, lastid) ==
    IF v.name = NoVenue THEN 0
    ELSE IF Slugged(table, SlugOf[v.name]) = {} THEN Len(table) + 1
    ELSE lastid

(* LastInsertId counts only if this statement inserted; an update leaves   *)
(* what an earlier INSERT set, and only 0 makes venueRow read the id back. *)
VenueId(table, v, lastid) ==
    IF v.name = NoVenue THEN 0
    ELSE IF Named(table, v.name) # {} THEN Min(Named(table, v.name))
    ELSE IF Slugged(table, SlugOf[v.name]) = {} THEN Len(table) + 1
    ELSE IF lastid = 0 THEN Min(Slugged(table, SlugOf[v.name]))
    ELSE lastid

(* replaceProvenance inserts at least one row after every event.           *)
LastBefore(t) == IF t.done = 0 THEN last ELSE Elsewhere

(* persist saves once, with what SyncRegistry left behind.                 *)
BeginAfterMirror ==
    /\ last # None
    /\ \E b \in Batches : SaveBegin(b)
    /\ UNCHANGED venueVars

SaveWithVenue ==
    /\ Insert \/ Update
    /\ LET e  == Current(tx)
           v  == VenueOf[e.fp]
           id == tx'.owner[e.fp]
       IN  txvenues' =
             [table |-> WithVenue(txvenues.table, v),
              place |-> [f \in Fps |->
                  IF f = id THEN [id |-> VenueId(txvenues.table, v, LastBefore(tx)), name |-> v.name]
                  ELSE IF tx'.rows[f] = None THEN Nowhere ELSE txvenues.place[f]]]
    /\ UNCHANGED <<venues, place, last, mirrored>>

CommitVenues ==
    /\ Commit
    /\ venues' = txvenues.table
    /\ place' = txvenues.place
    /\ last' = None
    /\ UNCHANGED <<txvenues, mirrored>>

RollbackVenues ==
    /\ Rollback
    /\ txvenues' = [table |-> venues, place |-> place]
    /\ last' = None
    /\ UNCHANGED <<venues, place, mirrored>>

VenuesNext ==
    \/ Tick /\ UNCHANGED venueVars
    \/ \E reg \in Registries : MirrorVenues(reg)
    \/ BeginAfterMirror
    \/ SaveWithVenue
    \/ CommitVenues
    \/ RollbackVenues

VenuesSpec == Init /\ VenuesInit /\ [][VenuesNext]_<<vars, venueVars>>

----------------------------------------------------------------------------
(* Reads                                                                   *)

(* The address the join of Upcoming gives a row.                           *)
Shown(f) ==
    IF place[f].id \in DOMAIN venues THEN venues[place[f].id].address ELSE NoAddress

----------------------------------------------------------------------------
(* Properties                                                              *)

(* An event at a curated venue is shown with the address the registry      *)
(* gives, whatever address its feeds send, in whatever order the venue was *)
(* discovered and curated (venueRow: "must survive contact with the        *)
(* feeds").  It needs each name to have one slug.                          *)
CuratedShown ==
    \A f \in LiveIn(rows), v \in ToSet(mirrored) :
        place[f].name = v.name /\ v.address # NoAddress => Shown(f) = v.address

(* venueRow: the id is read back "rather than trusting" what the insert    *)
(* reports.  So the venue row an event points at is its venue's.           *)
VenueIsNamed ==
    \A f \in LiveIn(rows) :
        place[f].name # NoVenue =>
            /\ place[f].id \in DOMAIN venues
            /\ \/ venues[place[f].id].name = place[f].name
               \/ venues[place[f].id].slug = SlugOf[place[f].name]

=============================================================================
