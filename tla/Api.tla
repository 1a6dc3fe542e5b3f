--------------------------------- MODULE Api ---------------------------------
(***************************************************************************)
(* internal/api and the serve command: GET /api/v1/events.json answered    *)
(* from the database of Store while a sync, another process, writes it,    *)
(* and the shutdown of the server.                                         *)
(*                                                                         *)
(* handleEvents reads with separate statements, each of which sees what is *)
(* committed when it runs, on the store's one connection.  The statements  *)
(* of Upcoming are joined by events.id, which Store leaves out: ids is the *)
(* id of each row (0: no row), given as SQLite gives it to a primary key   *)
(* without AUTOINCREMENT, one more than the largest in use.                *)
(***************************************************************************)
EXTENDS Venues, FiniteSetsExt

CONSTANT Clients    \* each sends one request

ASSUME ClientsAssumption == IsFiniteSet(Clients) /\ None \notin Clients

VARIABLES
    ids,     \* events.id of the committed rows
    txids,   \* the same in the open transaction
    req,     \* the requests
    conn,    \* the request whose rows are open on the one connection, or None
    server,  \* "up", "draining", "closed" (the database) or "exited"
    cut      \* the server stopped without waiting for its requests

http == <<req, conn, server, cut>>
sqlite == <<vars, venueVars, ids, txids>>
allvars == <<sqlite, http>>

Listed == [fp: Fps, id: Nat \ {0}, last: Nat, group: Groups, carried: SUBSET Fps]
Request == [at: {"idle", "asking", "reading", "served", "failed", "dropped"},
            step: 1 .. 4,             \* the statement to run
            from: Nat,                \* the handler's now
            events: SUBSET Listed,    \* what Upcoming's first statement returned
            sources: [Fps -> SUBSET Fps],
            named: SUBSET Groups,
            generated: Nat]

ApiTypeOK ==
    /\ {ids, txids} \subseteq [Fps -> Nat]
    /\ \A f \in Fps : ids[f] # 0 <=> rows[f] # None
    /\ \A f, g \in LiveIn(rows) : ids[f] = ids[g] => f = g
    /\ req \in [Clients -> Request]
    /\ conn \in Clients \cup {None}
    /\ server \in {"up", "draining", "closed", "exited"}
    /\ cut \in BOOLEAN

Unsent == [at |-> "idle", step |-> 1, from |-> 0, events |-> {}, sources |-> [f \in Fps |-> {}],
           named |-> {}, generated |-> 0]

ApiInit ==
    /\ Init
    /\ VenuesInit
    /\ ids = [f \in Fps |-> 0]
    /\ txids = ids
    /\ req = [c \in Clients |-> Unsent]
    /\ conn = None
    /\ server = "up"
    /\ cut = FALSE

----------------------------------------------------------------------------
(* The other process.  SQLite lets it commit when no rows are being read.  *)

NextIdFromZero(t) == Max({0} \cup {t[f] : f \in Fps})

NextId(t) == 1 + Max({0} \cup {t[f] : f \in Fps})

Write ==
    \/ /\ Tick
       /\ UNCHANGED <<venueVars, ids, txids>>
    \/ /\ conn = None
       /\ \E reg \in Registries : MirrorVenues(reg)
       /\ UNCHANGED <<ids, txids>>
    \/ /\ BeginAfterMirror
       /\ UNCHANGED <<ids, txids>>
    \/ /\ SaveWithVenue
       /\ txids' = [f \in Fps |-> IF tx'.rows[f] = None THEN 0
                                 ELSE IF tx.rows[f] = None THEN NextId(txids) ELSE txids[f]]
       /\ UNCHANGED ids
    \/ /\ conn = None
       /\ CommitVenues
       /\ ids' = txids
       /\ UNCHANGED txids
    \/ /\ RollbackVenues
       /\ txids' = ids
       /\ UNCHANGED ids

----------------------------------------------------------------------------
(* A request                                                               *)

OrderNamesFirst == <<"groups", "events", "sources", "synced">>
OrderStampFirst == <<"synced", "events", "sources", "groups">>

(* The statements of handleEvents: the first two are Upcoming's.           *)
Order == <<"events", "sources", "groups", "synced">>

InFlight(c) == req[c].at \in {"asking", "reading"}

Arrive(c) ==
    /\ server = "up"
    /\ req[c].at = "idle"
    /\ req' = [req EXCEPT ![c].at = "asking", ![c].from = now]
    /\ UNCHANGED <<conn, server, cut>>

Carriers(f) == {r \in Fps : owner[r] = f}

ListedRows(from) ==
    {[fp |-> f, id |-> ids[f], last |-> rows[f].last, group |-> rows[f].group,
      carried |-> Carriers(f)] : f \in Upcoming(from)}

(* attachSources: the records of whichever row now has the event's id.     *)
AttachedSources(events) ==
    [f \in Fps |-> UNION {Carriers(g) : g \in
                            {h \in LiveIn(rows) : \E e \in events : e.fp = f /\ e.id = ids[h]}}]

Generated(from) == IF LastSynced(rows) = 0 THEN from ELSE LastSynced(rows)

(* The request with what its statement returned.                           *)
WithRead(r) ==
    CASE Order[r.step] = "events" -> [r EXCEPT !.events = ListedRows(r.from)]
      [] Order[r.step] = "sources" -> [r EXCEPT !.sources = AttachedSources(r.events)]
      [] Order[r.step] = "groups" -> [r EXCEPT !.named = {g \in Groups : groups[g] # "absent"}]
      [] Order[r.step] = "synced" -> [r EXCEPT !.generated = Generated(r.from)]

(* A statement waits for the connection and runs; its rows are of one      *)
(* moment, since a commit waits until they are closed.  attachSources asks *)
(* nothing when nothing is listed, which here is a statement that returns  *)
(* nothing.                                                                *)
Query(c) ==
    /\ req[c].at = "asking"
    /\ conn = None
    /\ server \in {"up", "draining"}
    /\ req' = [req EXCEPT ![c] = [WithRead(@) EXCEPT !.at = "reading"]]
    /\ conn' = c
    /\ UNCHANGED <<server, cut>>

HeldOn(c) == IF req[c].step = 1 THEN c ELSE None

(* Upcoming runs the next statement with the rows of this one not yet      *)
(* closed; they gave the connection back when they were read to the end.   *)
After(c) == None

(* The rows are read to the end; the last statement's answer goes out.     *)
Close(c) ==
    /\ req[c].at = "reading"
    /\ req' = [req EXCEPT ![c] = IF @.step = Len(Order) THEN [@ EXCEPT !.at = "served"]
                                ELSE [@ EXCEPT !.at = "asking", !.step = req[c].step + 1]]
    /\ conn' = After(c)
    /\ UNCHANGED <<server, cut>>

(* A statement fails: the writer's lock outlasts busy_timeout, the disk, or*)
(* the database was closed underneath.                                     *)
ReadFails(c) ==
    /\ req[c].at = "asking" => conn = None
    /\ InFlight(c)
    /\ req' = [req EXCEPT ![c].at = "failed"]
    /\ conn' = None
    /\ UNCHANGED <<server, cut>>

Handle(c) == Query(c) \/ Close(c) \/ ReadFails(c)

----------------------------------------------------------------------------
(* Shutdown                                                                *)

Signal ==
    /\ server = "up"
    /\ server' = "draining"
    /\ UNCHANGED <<req, conn, cut>>

DrainedAtOnce ==
    /\ server = "draining"
    /\ server' = "closed"
    /\ UNCHANGED <<req, conn, cut>>

Drained ==
    /\ server = "draining"
    /\ \A c \in Clients : ~InFlight(c)
    /\ server' = "closed"
    /\ UNCHANGED <<req, conn, cut>>

(* shutdownTimeout passes, or Serve returns on its own: the deferred Close *)
(* runs with handlers still at work.                                       *)
GiveUp ==
    /\ \/ server = "up"
       \/ server = "draining" /\ \E c \in Clients : InFlight(c)
    /\ server' = "closed"
    /\ cut' = TRUE
    /\ UNCHANGED <<req, conn>>

Exit ==
    /\ server = "closed"
    /\ server' = "exited"
    /\ req' = [c \in Clients |-> IF InFlight(c) THEN [req[c] EXCEPT !.at = "dropped"] ELSE req[c]]
    /\ conn' = None
    /\ UNCHANGED cut

ServerNext ==
    \/ \E c \in Clients : Arrive(c) \/ Handle(c)
    \/ Signal
    \/ Drained
    \/ GiveUp
    \/ Exit

ApiNext ==
    \/ Write /\ UNCHANGED http
    \/ ServerNext /\ UNCHANGED sqlite

(* A handler's statements run, and the server that is told to stop stops.  *)
(* Nothing is assumed of the sync, of the clients or of what fails.        *)
ApiSpec ==
    /\ ApiInit
    /\ [][ApiNext]_allvars
    /\ \A c \in Clients : WF_allvars(Handle(c) /\ UNCHANGED sqlite)
    /\ WF_allvars(Drained /\ UNCHANGED sqlite)
    /\ WF_allvars(Exit /\ UNCHANGED sqlite)

----------------------------------------------------------------------------
(* Properties                                                              *)

Served(c) == req[c].at = "served"

(* No response is dated before what it contains, although its events and   *)
(* its date are read apart: a caller never takes fresh data for stale.     *)
StampCovers == \A c \in Clients : Served(c) =>
                 \A e \in req[c].events : e.last <= req[c].generated

(* Every event in a response has its group's name, although a sync may     *)
(* bring a new group and its first events between the two reads.           *)
GroupsNamed == \A c \in Clients : Served(c) =>
                 \A e \in req[c].events : e.group \in req[c].named

(* A request in flight is dropped, or fails on a closed database, only if  *)
(* the server gave up waiting for it.                                      *)
DrainedFirst ==
    server \in {"closed", "exited"} /\ (\E c \in Clients : InFlight(c) \/ req[c].at = "dropped")
      => cut

(* The request that has the connection is the one whose rows are open: a   *)
(* request has given it back when it asks for its next statement (Upcoming *)
(* runs its second before it closes the rows of its first) and when it has *)
(* ended, by its answer or by a failure half way through its rows.  So     *)
(* none waits for a request that waits itself, or is gone.                 *)
OneReader ==
    \A c \in Clients : req[c].at = "reading" <=> conn = c

(* A request that is accepted comes to an end, whatever a sync writes      *)
(* meanwhile: in particular it does not wait for the connection it has.    *)
Answered == \A c \in Clients : InFlight(c) ~> req[c].at \in {"served", "failed", "dropped"}

(* core.go: "Sources holds every feed record that merged into this event". *)
(* So the sources an event is listed with are its own: at least one of its *)
(* records carried it.                                                     *)
SourcesOfEvent == \A c \in Clients : Served(c) =>
                    \A e \in req[c].events : req[c].sources[e.fp] \cap e.carried # {}
=============================================================================
