----------------------------- MODULE Recurrence -----------------------------
(***************************************************************************)
(* internal/source/ics_recurrence.go: one recurring VEVENT expanded into   *)
(* its occurrences inside a window.                                        *)
(*                                                                         *)
(* The walk keeps the event's clock time and steps its calendar date, so   *)
(* an occurrence is its date: days are numbered from 1, day 1 being the    *)
(* first of month 0.  The calendar is time.Date's, which repeats itself:   *)
(* the days of each month of one round, and the weekday of day 1.  Zones,  *)
(* DTEND and the parsing of text are left out; an UNTIL is the last day it *)
(* admits.                                                                 *)
(***************************************************************************)
EXTENDS Integers, Sequences, SequencesExt, FiniteSets

CONSTANTS
    Windows,         \* <<from, until>>: the window of a fetch
    Lengths,         \* days of month 0, 1, 2, ...; after the last, month 0 again
    FirstWeekday,    \* of day 1; 0 is Sunday
    None,            \* no call, no event
    MaxPeriods,
    MaxOccurrences

Freq == {"DAILY", "WEEKLY", "MONTHLY"}
ByDay == [ord: -5 .. 5, weekday: 0 .. 6]      \* ord 0: every such weekday
Rule == [freq: Freq, interval: Nat \ {0},
         count: Nat,                          \* 0 when absent
         until: Nat,                          \* 0 when absent
         byDay: Seq(ByDay), byMonthDay: Seq(-31 .. 31)]

ASSUME CalendarAssumption ==
    /\ Lengths \in Seq(28 .. 31) /\ Lengths # <<>>
    /\ FirstWeekday \in 0 .. 6
ASSUME LimitsAssumption == MaxPeriods \in Nat /\ MaxOccurrences \in Nat
ASSUME WindowsAssumption == \A w \in Windows : w[1] \in Nat /\ w[2] \in Nat

VARIABLES
    call,       \* the arguments of expandRecurrence
    period,     \* periods begun: the loop counter
    queue,      \* what is left of the current period's candidates
    generated,  \* occurrences counted, wherever they lie
    out,        \* occurrences inside the window
    status      \* "idle", "parsing", "walking", "ended" or "refused"

vars == <<call, period, queue, generated, out, status>>

Call == [rule: Rule, start: Nat \ {0}, window: Windows, exdates: SUBSET Nat]

TypeOK ==
    /\ status # "idle" => call \in Call
    /\ period \in 0 .. MaxPeriods
    /\ queue \in Seq(Int)
    /\ generated \in 0 .. MaxOccurrences + 1
    /\ out \in Seq(Nat)
    /\ status \in {"idle", "parsing", "walking", "ended", "refused"}

----------------------------------------------------------------------------
(* The calendar                                                            *)

DaysIn(m) == Lengths[(m % Len(Lengths)) + 1]
FirstDay[m \in Nat] == IF m = 0 THEN 1 ELSE FirstDay[m - 1] + DaysIn(m - 1)
MonthOf(d) == CHOOSE m \in 0 .. d : FirstDay[m] <= d /\ d < FirstDay[m + 1]
Weekday(d) == (FirstWeekday + d - 1) % 7

----------------------------------------------------------------------------
(* Candidates of a period                                                  *)

(* parseRRULE takes the combinations whose meaning is not in doubt.        *)
Supported(r) ==
    /\ ~(r.count > 0 /\ r.until > 0)
    /\ r.freq = "DAILY" => r.byDay = <<>> /\ r.byMonthDay = <<>>
    /\ r.freq = "WEEKLY" =>
         /\ r.byMonthDay = <<>>
         /\ \A i \in DOMAIN r.byDay : r.byDay[i].ord = 0
         /\ r.byDay # <<>> => r.interval = 1
    /\ r.freq = "MONTHLY" => r.byDay = <<>> \/ r.byMonthDay = <<>>

RolledOver(e, n) == {IF e < 0 THEN n + 1 + e ELSE IF e > n THEN n ELSE e}

(* The days of a month of n days one BYMONTHDAY entry selects.             *)
OnDate(e, n) == {IF e < 0 THEN n + 1 + e ELSE e} \cap 1 .. n

(* The days of month m one BYDAY entry selects: all of them, or the nth    *)
(* counted from the first or from the last such weekday.                   *)
OnWeekday(e, m) ==
    LET n == DaysIn(m)
        first == 1 + ((e.weekday - Weekday(FirstDay[m])) % 7)
        last == n - ((Weekday(FirstDay[m] + n - 1) - e.weekday) % 7)
    IN IF e.ord = 0 THEN {k \in 1 .. n : k >= first /\ (k - first) % 7 = 0}
       ELSE IF e.ord > 0 THEN {first + (e.ord - 1) * 7} \cap 1 .. n
       ELSE {last + (e.ord + 1) * 7} \cap 1 .. n

(* monthDays: a day two entries select is one candidate, and DTSTART's day *)
(* stands in when there are no entries; a month without it has none.       *)
MonthDays(r, m, default) ==
    LET dates == IF r.byDay = <<>> /\ r.byMonthDay = <<>> THEN <<default>> ELSE r.byMonthDay
    IN (UNION {OnDate(dates[i], DaysIn(m)) : i \in DOMAIN dates})
         \cup (UNION {OnWeekday(r.byDay[i], m) : i \in DOMAIN r.byDay})

Ascending(S) ==
    [i \in 1 .. Cardinality(S) |-> CHOOSE x \in S : Cardinality({y \in S : y <= x}) = i]

MonthCandidatesTwice(r, s, m) ==
    LET dates == IF r.byDay = <<>> /\ r.byMonthDay = <<>>
                 THEN <<s - FirstDay[MonthOf(s)] + 1>> ELSE r.byMonthDay
    IN FlattenSeq([i \in DOMAIN dates |->
                     Ascending({FirstDay[m] + k - 1 : k \in OnDate(dates[i], DaysIn(m))})])
         \o Ascending({FirstDay[m] + k - 1 :
                         k \in UNION {OnWeekday(r.byDay[i], m) : i \in DOMAIN r.byDay}})

MonthCandidates(r, s, m) ==
    Ascending({FirstDay[m] + k - 1 : k \in MonthDays(r, m, s - FirstDay[MonthOf(s)] + 1)})

(* What period p yields, in the order the walk meets it.  A WEEKLY rule's  *)
(* days are taken in the order BYDAY lists them.                           *)
Candidates(r, s, p) ==
    CASE r.freq = "DAILY" -> <<s + p * r.interval>>
      [] r.freq = "WEEKLY" /\ r.byDay = <<>> -> <<s + 7 * p * r.interval>>
      [] r.freq = "WEEKLY" /\ r.byDay # <<>> ->
           [i \in DOMAIN r.byDay |-> s - Weekday(s) + 7 * p + r.byDay[i].weekday]
      [] r.freq = "MONTHLY" -> MonthCandidates(r, s, MonthOf(s) + p * r.interval)

----------------------------------------------------------------------------
(* The walk                                                                *)

Init ==
    /\ call = None
    /\ period = 0
    /\ queue = <<>>
    /\ generated = 0
    /\ out = <<>>
    /\ status = "idle"

Begin(c) ==
    /\ status = "idle"
    /\ call' = c
    /\ status' = "parsing"
    /\ UNCHANGED <<period, queue, generated, out>>

Parse ==
    /\ status = "parsing"
    /\ status' = IF Supported(call.rule) THEN "walking" ELSE "refused"
    /\ UNCHANGED <<call, period, queue, generated, out>>

EndlessPeriods ==
    /\ status = "walking"
    /\ queue = <<>>
    /\ queue' = Candidates(call.rule, call.start, period)
    /\ period' = period + 1
    /\ UNCHANGED <<call, generated, out, status>>

NextPeriod ==
    /\ status = "walking"
    /\ queue = <<>>
    /\ period < MaxPeriods
    /\ queue' = Candidates(call.rule, call.start, period)
    /\ period' = period + 1
    /\ UNCHANGED <<call, generated, out, status>>

(* The loop runs out: occurrences returns what it has, not truncated.      *)
RunOut ==
    /\ status = "walking"
    /\ queue = <<>>
    /\ period = MaxPeriods
    /\ status' = "ended"
    /\ UNCHANGED <<call, period, queue, generated, out>>

(* A candidate of DTSTART's own period that lies before it.                *)
BeforeStart ==
    /\ status = "walking"
    /\ queue # <<>>
    /\ Head(queue) < call.start
    /\ queue' = Tail(queue)
    /\ UNCHANGED <<call, period, generated, out, status>>

OneTooMany(t, n) ==
    \/ call.rule.count > 0 /\ n >= call.rule.count
    \/ call.rule.until > 0 /\ t > call.rule.until
    \/ t > call.window[2]

(* emit stops the walk at t, the n-th occurrence.                          *)
LastOne(t, n) ==
    \/ call.rule.count > 0 /\ n > call.rule.count
    \/ call.rule.until > 0 /\ t > call.rule.until
    \/ t > call.window[2]

Emit ==
    /\ status = "walking"
    /\ queue # <<>>
    /\ Head(queue) >= call.start
    /\ generated' = generated + 1
    /\ LET t == Head(queue)
       IN IF LastOne(t, generated + 1) THEN
            status' = "ended" /\ UNCHANGED <<queue, out>>
          ELSE IF generated + 1 > MaxOccurrences THEN
            status' = "refused" /\ UNCHANGED <<queue, out>>
          ELSE
            /\ queue' = Tail(queue)
            /\ out' = IF t < call.window[1] THEN out ELSE Append(out, t)
            /\ UNCHANGED status
    /\ UNCHANGED <<call, period>>

(* The caller takes the result, and the locals are gone.                   *)
Return ==
    /\ status \in {"ended", "refused"}
    /\ call' = None
    /\ period' = 0
    /\ queue' = <<>>
    /\ generated' = 0
    /\ out' = <<>>
    /\ status' = "idle"

Walk == Parse \/ NextPeriod \/ RunOut \/ BeforeStart \/ Emit

(* The events made of a walk that ended: EXDATE takes instants away.       *)
Expanded ==
    LET kept[n \in 0 .. Len(out)] ==
            IF n = 0 THEN <<>>
            ELSE IF out[n] \in call.exdates THEN kept[n - 1]
            ELSE Append(kept[n - 1], out[n])
    IN  kept[Len(out)]

(* The loop bound ended the walk, and nothing says so.                     *)
Cut == status = "ended" /\ period = MaxPeriods /\ queue = <<>>
=============================================================================
