---------------------------- MODULE MCRecurrence ----------------------------
(* Every supported combination of a few values of each part of a rule, on  *)
(* the calendar of 2026 (1 January is a Thursday), with the limits of the  *)
(* walk scaled down in proportion (2000 periods to 5000 occurrences): each *)
(* in a document of its own; and documents with a zone and two events of   *)
(* every kind, cut off anywhere or with the END of the first event missing.*)
EXTENDS Ics

Lengths2026 == <<31, 28, 31, 30, 31, 30, 31, 31, 30, 31, 30, 31>>

Day(n, w) == [ord |-> n, weekday |-> w]

DayLists == {<<>>, <<Day(0, 4)>>, <<Day(0, 1), Day(0, 3), Day(0, 5)>>,
             <<Day(0, 5), Day(0, 1)>>, <<Day(1, 1), Day(5, 5)>>, <<Day(-1, 5), Day(-5, 6)>>}
DateLists == {<<>>, <<31>>, <<31, -1>>, <<15, -30>>}

MCRules == [freq: Freq, interval: {1, 2}, count: {0, 1, 3, 9}, until: {0, 20, 60},
            byDay: DayLists, byMonthDay: DateLists]

MCStarts == {1, 7, 31, 36}
MCWindows == {<<1, 58>>, <<14, 58>>, <<30, 90>>}
MCExDates == {{}, {2, 31, 36}}

----------------------------------------------------------------------------
(* Documents                                                               *)

Prop(name, value) == [name |-> name, value |-> value]
Component(name, lines) == <<Prop("BEGIN", name)>> \o lines \o <<Prop("END", name)>>

Series1(r, s, x) ==
    <<Prop("BEGIN", "VCALENDAR")>> \o
    Component("VEVENT", <<Prop("UID", "a"), Prop("DTSTART", s), Prop("RRULE", r), Prop("EXDATE", x)>>)

Weekly == [freq |-> "WEEKLY", interval |-> 1, count |-> 3, until |-> 0, byDay |-> <<>>, byMonthDay |-> <<>>]
Yearly == [Weekly EXCEPT !.until = 60]    \* COUNT with UNTIL: refused

Zone == Component("VTIMEZONE",
            Component("DAYLIGHT", <<Prop("DTSTART", 1), Prop("RRULE", Weekly)>>)
            \o Component("STANDARD", <<Prop("DTSTART", 1)>>))
Alarm == Component("VALARM", <<Prop("UID", "alarm")>>)

Kinds(uid) == {
    <<Prop("UID", uid), Prop("DTSTART", 31)>> \o Alarm,
    <<Prop("UID", uid)>> \o Component("VEVENT", <<Prop("UID", "inner"), Prop("DTSTART", 31)>>)
        \o <<Prop("DTSTART", 36), Prop("DTEND", 36)>>,
    <<Prop("DTSTART", 31)>>,
    Alarm \o <<Prop("DTSTART", 31)>>,
    <<Prop("UID", uid)>>,
    <<Prop("UID", uid), Prop("DTSTART", Bad)>>,
    <<Prop("UID", uid), Prop("DTSTART", 31), Prop("DTEND", Bad)>>,
    <<Prop("UID", uid), Prop("STATUS", "CANCELLED"), Prop("DTSTART", Bad)>>,
    <<Prop("UID", uid), Prop("STATUS", "CONFIRMED"), Prop("DTSTART", 1)>>,
    <<Prop("UID", uid), Prop("DTSTART", 31), Prop("RRULE", Weekly), Prop("EXDATE", {31, 2}), Prop("EXDATE", {36})>>,
    <<Prop("UID", uid), Prop("DTSTART", 31), Prop("RRULE", Weekly), Prop("EXDATE", {Bad})>>,
    <<Prop("UID", uid), Prop("DTSTART", 31), Prop("RRULE", Yearly)>>}

Calendars ==
    {Component("VCALENDAR", Zone \o Component("VEVENT", k) \o Component("VEVENT", l)) :
        k \in Kinds("a"), l \in Kinds("b")}

Nested == UNION {Prefixes(d) : d \in Calendars}

(* The END of the first event is missing.                                  *)
Torn ==
    {Component("VCALENDAR", <<Prop("BEGIN", "VEVENT")>> \o k \o Component("VEVENT", l)) :
        k \in Kinds("a"), l \in Kinds("b")}

MCUids == {"a", "b", "alarm", "inner"}
MCDocuments ==
    {Series1(r, s, x) : r \in MCRules, s \in MCStarts, x \in MCExDates} \cup Nested \cup Torn

(* A series one of whose instances was moved, as calendars publish it.     *)
Moved(day, to) ==
    Component("VEVENT", <<Prop("UID", "a"), Prop("RECURRENCE-ID", day), Prop("DTSTART", to)>>)
MovedTwice ==
    {Component("VCALENDAR",
        Component("VEVENT", <<Prop("UID", "a"), Prop("DTSTART", 31), Prop("RRULE", Weekly)>>)
        \o Moved(31, 32) \o Moved(38, 40))}

----------------------------------------------------------------------------
(* Reference: RFC 5545's reading of a rule, day by day.                    *)

Alike(d) == {x \in FirstDay[MonthOf(d)] .. FirstDay[MonthOf(d) + 1] - 1 :
               Weekday(x) = Weekday(d)}

DayMatches(e, d) ==
    /\ Weekday(d) = e.weekday
    /\ \/ e.ord = 0
       \/ e.ord = Cardinality({x \in Alike(d) : x <= d})
       \/ -e.ord = Cardinality({x \in Alike(d) : x >= d})

DateMatches(n, d) ==
    \/ n > 0 /\ d = FirstDay[MonthOf(d)] + n - 1
    \/ n < 0 /\ d = FirstDay[MonthOf(d) + 1] + n

Matches(r, s, d) ==
    CASE r.freq = "DAILY" -> (d - s) % r.interval = 0
      [] r.freq = "WEEKLY" ->
           IF r.byDay = <<>> THEN (d - s) % (7 * r.interval) = 0
           ELSE \E i \in DOMAIN r.byDay : DayMatches(r.byDay[i], d)
      [] r.freq = "MONTHLY" ->
           /\ (MonthOf(d) - MonthOf(s)) % r.interval = 0
           /\ \/ \E i \in DOMAIN r.byDay : DayMatches(r.byDay[i], d)
              \/ \E i \in DOMAIN r.byMonthDay : DateMatches(r.byMonthDay[i], d)
              \/ /\ r.byDay = <<>> /\ r.byMonthDay = <<>>
                 /\ DateMatches(s - FirstDay[MonthOf(s)] + 1, d)

Series(c) == {d \in c.start .. c.window[2] : Matches(c.rule, c.start, d)}

Occurrences(c) ==
    {d \in Series(c) :
       /\ d >= c.window[1]
       /\ d \notin c.exdates
       /\ c.rule.until > 0 => d <= c.rule.until
       /\ c.rule.count > 0 => Cardinality({x \in Series(c) : x <= d}) <= c.rule.count}

(* A WEEKLY rule's days are emitted in the order BYDAY lists them, and the *)
(* first one past COUNT, UNTIL or the window ends the walk: out of order,  *)
(* an earlier day of that week is lost with it.                            *)
InWeekOrder == \A i, j \in DOMAIN call.rule.byDay :
                  i < j => call.rule.byDay[i].weekday < call.rule.byDay[j].weekday

Complete == ToSet(Expanded) = Occurrences(call)

----------------------------------------------------------------------------
(* Properties                                                              *)

(* A walk that ends lists exactly the days the rule means: none that COUNT,*)
(* UNTIL, EXDATE or a short month excludes, none lost although the walk    *)
(* starts years before the window, and a runaway is refused instead of     *)
(* listed in part (occurrences, monthDays, expandRecurrence).  Apart from  *)
(* BYDAY out of order and a walk that the bound on periods ends (Cut):     *)
(* the instants these miss are lost, without a skip.                       *)
Exact ==
    status = "ended" /\ ~Cut /\ (call.rule.freq = "WEEKLY" => InWeekOrder) => Complete

(* D7: every event of a document has an identity of its own, the instances *)
(* of a series too: two events with one would be one to the store.  Events *)
(* that share their UID are not among these documents (see OwnIdentity).   *)
DistinctIds ==
    \A i, j \in DOMAIN events :
        i # j => <<events[i].uid, events[i].instance>> # <<events[j].uid, events[j].instance>>

(* What a document means, read as the tree it is and not line by line.     *)

DepthBefore(i) ==
    Cardinality({k \in 1 .. i - 1 : doc[k].name = "BEGIN"})
        - Cardinality({k \in 1 .. i - 1 : doc[k].name = "END"})

(* The top-level events: the places of their first and their last line.    *)
Blocks ==
    {b \in (DOMAIN doc) \X (DOMAIN doc) :
        /\ doc[b[1]] = Prop("BEGIN", "VEVENT") /\ DepthBefore(b[1]) = 1
        /\ b[1] < b[2] /\ DepthBefore(b[2] + 1) = 1
        /\ \A k \in b[1] + 1 .. b[2] : DepthBefore(k) > 1}

Own(b, name) ==
    {doc[k].value : k \in {l \in b[1] + 1 .. b[2] - 1 :
                              DepthBefore(l) = DepthBefore(b[1]) + 1 /\ doc[l].name = name}}

OffAsTold(b) == "CANCELLED" \in Own(b, "STATUS")

Broken(b) ==
    \/ Own(b, "UID") = {} \/ Own(b, "DTSTART") = {}
    \/ /\ ~OffAsTold(b)
       /\ \/ Bad \in Own(b, "DTSTART") \cup Own(b, "DTEND") \cup UNION Own(b, "EXDATE")
          \/ \E r \in Own(b, "RRULE") : r.count > 0 /\ r.until > 0

Said(b) ==
    IF Broken(b) \/ OffAsTold(b) THEN {}
    ELSE IF Own(b, "RRULE") = {}
         THEN {<<u, Absent, d>> : u \in Own(b, "UID"),
                                  d \in Own(b, "DTSTART") \cap window[1] .. window[2]}
    ELSE {<<u, d, d>> : u \in Own(b, "UID"),
            d \in UNION {Occurrences([rule |-> r, start |-> s, window |-> window,
                                      exdates |-> UNION Own(b, "EXDATE")]) :
                            r \in Own(b, "RRULE"), s \in Own(b, "DTSTART")}}

UnfinishedEvent == Cardinality({i \in DOMAIN doc : doc[i] = Prop("BEGIN", "VEVENT") /\ DepthBefore(i) = 1})
                     - Cardinality(Blocks)

(* A document is read as the events it holds: nothing from a zone, an      *)
(* alarm or an event inside an event passes for an event's own, each event *)
(* is listed, skipped or off on purpose, and one that a cut document ends  *)
(* inside of is not half-read but skipped (ParseICS, toRawEvents).         *)
FeedIsMeaning ==
    result = "parsed" /\ doc \in Nested =>
        /\ {<<e.uid, e.instance, e.day>> : e \in ToSet(events)} = UNION {Said(b) : b \in Blocks}
        /\ skipped = Cardinality({b \in Blocks : Broken(b)}) + UnfinishedEvent

(* The events written out in full, from a BEGIN to its own END, wherever   *)
(* they stand but inside another that is.                                  *)
WrittenOut ==
    {b \in (DOMAIN doc) \X (DOMAIN doc) :
        /\ doc[b[1]] = Prop("BEGIN", "VEVENT") /\ doc[b[2]] = Prop("END", "VEVENT")
        /\ b[1] < b[2] /\ DepthBefore(b[2] + 1) = DepthBefore(b[1])
        /\ \A k \in b[1] + 1 .. b[2] : DepthBefore(k) > DepthBefore(b[1])}

Outermost == {b \in WrittenOut : \A c \in WrittenOut : c[1] < b[1] => c[2] < b[1]}

(* An event that is never closed, because the document ends inside it or   *)
(* its END is missing and the next event passes for a part of it, takes no *)
(* event with it in silence: those it costs are listed or there is a skip  *)
(* (ParseICS after its loop: "stream ended inside a VEVENT").  Only an     *)
(* event: a zone whose END is missing swallows those after it, and no skip *)
(* says so.                                                                *)
LossFlagged ==
    result = "parsed" /\ skipped = 0 /\ doc \in Nested \cup Torn =>
        \A b \in Outermost : Said(b) \subseteq {<<e.uid, e.instance, e.day>> : e \in ToSet(events)}

(* ics_recurrence.go: "for a recurrence instance RFC 5545 says that        *)
(* identity is UID plus RECURRENCE-ID, not UID alone".  So the instances   *)
(* of a series that were moved keep identities of their own.               *)
OwnIdentity == DistinctIds
=============================================================================
