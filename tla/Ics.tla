-------------------------------- MODULE Ics ---------------------------------
(***************************************************************************)
(* internal/source/ics.go: ParseICS, which reads an iCalendar document     *)
(* line by line and turns each VEVENT into events, over Recurrence, which  *)
(* expands the recurring ones.                                             *)
(*                                                                         *)
(* A line is an unfolded content line: a name with the value the decoder   *)
(* makes of it.  BEGIN and END name a component, times are days (Bad: one  *)
(* parseICSTime cannot read), RRULE is a rule, EXDATE the days of one      *)
(* line.  Properties that only carry text are left out.                    *)
(***************************************************************************)
EXTENDS Recurrence

CONSTANTS
    Documents,    \* what a feed may send: sequences of lines
    Uids          \* what a UID may be

(* What the decoder makes of a line's value, by the line's name.           *)
Readable(line) ==
    /\ line.name \in {"DTSTART", "DTEND"} => line.value \in Nat
    /\ line.name = "RRULE" => line.value \in Rule
    /\ line.name = "EXDATE" => line.value \subseteq Nat
    /\ line.name = "UID" => line.value \in Uids

ASSUME DocumentsAssumption ==
    \A d \in Documents :
        /\ DOMAIN d = 1 .. Len(d) /\ Len(d) \in Nat
        /\ \A i \in DOMAIN d : Readable(d[i])

VARIABLES
    doc, window,  \* the arguments of ParseICS
    pos,          \* lines read
    inCal,        \* a BEGIN:VCALENDAR was seen
    skipDepth,    \* components open inside one that is ignored
    cur,          \* the icsEvent being filled, or None
    events,       \* feed.Events: identity and day
    skipped,      \* len(feed.Skipped)
    result        \* "reading", "parsed" or "fatal"

stream == <<doc, window, pos, inCal, skipDepth, cur>>
feed == <<events, skipped, result>>
icsVars == <<vars, stream, feed>>

Bad == 0          \* a value that is there and cannot be read
Absent == -1

icsEvent == [uid : Uids \cup {None}, start : Nat \cup {Absent}, end : Nat \cup {Absent},
             cancelled : BOOLEAN, rule : Rule \cup {None}, exdates : SUBSET Nat]

ASSUME NoneAssumption == None \notin Uids /\ None \notin Rule /\ None \notin icsEvent

Blank == [uid |-> None, start |-> Absent, end |-> Absent, cancelled |-> FALSE,
          rule |-> None, exdates |-> {}]

IcsInit ==
    /\ Init
    /\ doc \in Documents
    /\ window \in Windows
    /\ pos = 0
    /\ inCal = FALSE
    /\ skipDepth = 0
    /\ cur = None
    /\ events = <<>>
    /\ skipped = 0
    /\ result = "reading"

Reading == result = "reading" /\ status = "idle" /\ pos < Len(doc)
Line == doc[pos + 1]

----------------------------------------------------------------------------
(* Components                                                              *)

OneLevel(d) == 1

(* BEGIN inside an ignored component counts the nesting, so that the END   *)
(* of what is inside it does not look like its own.                        *)
Deeper(d) == d + 1

BeginComponent ==
    /\ Reading
    /\ Line.name = "BEGIN"
    /\ LET opens == skipDepth = 0 /\ Line.value = "VEVENT" /\ cur = None
           calendar == skipDepth = 0 /\ Line.value = "VCALENDAR"
       IN  /\ inCal' = (inCal \/ calendar)
           /\ cur' = IF opens THEN Blank ELSE cur
           /\ skipDepth' = IF opens \/ calendar THEN skipDepth ELSE Deeper(skipDepth)
    /\ pos' = pos + 1
    /\ UNCHANGED <<vars, doc, window, feed>>

EndComponent ==
    /\ Reading
    /\ Line.name = "END"
    /\ skipDepth > 0 \/ Line.value # "VEVENT" \/ cur = None
    /\ skipDepth' = IF skipDepth > 0 THEN skipDepth - 1 ELSE 0
    /\ pos' = pos + 1
    /\ UNCHANGED <<vars, doc, window, inCal, cur, feed>>

----------------------------------------------------------------------------
(* Properties of an event                                                  *)

(* set: the allowlist.  Any other property is dropped, RECURRENCE-ID too.  *)
Set(e, line) ==
    CASE line.name = "UID"     -> [e EXCEPT !.uid = line.value]
      [] line.name = "DTSTART" -> [e EXCEPT !.start = line.value]
      [] line.name = "DTEND"   -> [e EXCEPT !.end = line.value]
      [] line.name = "STATUS"  -> [e EXCEPT !.cancelled = line.value = "CANCELLED"]
      [] line.name = "RRULE"   -> [e EXCEPT !.rule = line.value]
      [] line.name = "EXDATE"  -> [e EXCEPT !.exdates = @ \cup line.value]
      [] OTHER -> e

ReadProperty ==
    /\ Reading
    /\ Line.name \notin {"BEGIN", "END"}
    /\ cur' = IF skipDepth = 0 /\ cur # None THEN Set(cur, Line) ELSE cur
    /\ pos' = pos + 1
    /\ UNCHANGED <<vars, doc, window, inCal, skipDepth, feed>>

----------------------------------------------------------------------------
(* toRawEvents                                                             *)

(* The errors that make a skip of it, a cancelled event's times unread.    *)
Unreadable(e) ==
    \/ e.uid = None
    \/ e.start = Absent
    \/ ~e.cancelled /\ (Bad \in {e.start, e.end} \/ (e.rule # None /\ Bad \in e.exdates))

InWindow(d) == window[1] <= d /\ d <= window[2]

BareInstance(uid, d) == [uid |-> uid, instance |-> Absent, day |-> d]

(* A single event keeps its bare UID; an instance adds its own time.       *)
Single(e) == [uid |-> e.uid, instance |-> Absent, day |-> e.start]
Instance(uid, d) == [uid |-> uid, instance |-> d, day |-> d]

AtEndOfEvent ==
    /\ Reading
    /\ Line.name = "END" /\ Line.value = "VEVENT"
    /\ skipDepth = 0
    /\ cur # None

EndSingle ==
    /\ AtEndOfEvent
    /\ Unreadable(cur) \/ cur.cancelled \/ cur.rule = None
    /\ skipped' = IF Unreadable(cur) THEN skipped + 1 ELSE skipped
    /\ events' = IF ~Unreadable(cur) /\ ~cur.cancelled /\ InWindow(cur.start)
                 THEN Append(events, Single(cur)) ELSE events
    /\ cur' = None
    /\ pos' = pos + 1
    /\ UNCHANGED <<vars, doc, window, inCal, skipDepth, result>>

EndRecurring ==
    /\ AtEndOfEvent
    /\ ~Unreadable(cur) /\ ~cur.cancelled /\ cur.rule # None
    /\ Begin([rule |-> cur.rule, start |-> cur.start, window |-> window, exdates |-> cur.exdates])
    /\ UNCHANGED <<stream, feed>>

Expand == Walk /\ UNCHANGED <<stream, feed>>

(* The occurrences, or one skip: a rule that is refused yields nothing.    *)
Collect ==
    /\ events' = IF status = "ended"
                 THEN events \o [i \in DOMAIN Expanded |-> Instance(cur.uid, Expanded[i])]
                 ELSE events
    /\ skipped' = IF status = "refused" THEN skipped + 1 ELSE skipped
    /\ Return
    /\ cur' = None
    /\ pos' = pos + 1
    /\ UNCHANGED <<doc, window, inCal, skipDepth, result>>

----------------------------------------------------------------------------

DropsSilently == 0

(* An event the document ends inside of is reported, not returned.         *)
CutOff == IF cur # None THEN 1 ELSE 0

EndOfStream ==
    /\ result = "reading"
    /\ pos = Len(doc)
    /\ result' = IF inCal THEN "parsed" ELSE "fatal"
    /\ skipped' = IF inCal THEN skipped + CutOff ELSE 0
    /\ events' = IF inCal THEN events ELSE <<>>
    /\ UNCHANGED <<vars, stream>>

(* The body fails, or a line is longer than the scanner takes: no feed.    *)
ReadFails ==
    /\ result = "reading"
    /\ status = "idle"
    /\ result' = "fatal"
    /\ skipped' = 0
    /\ events' = <<>>
    /\ UNCHANGED <<vars, stream>>

IcsNext ==
    \/ BeginComponent
    \/ EndComponent
    \/ ReadProperty
    \/ EndSingle
    \/ EndRecurring
    \/ Expand
    \/ Collect
    \/ EndOfStream
    \/ ReadFails

IcsSpec == IcsInit /\ [][IcsNext]_icsVars

=============================================================================
