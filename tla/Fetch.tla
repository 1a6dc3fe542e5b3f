-------------------------------- MODULE Fetch --------------------------------
(***************************************************************************)
(* internal/fetch: every source fetched concurrently, MaxConcurrent at a   *)
(* time, each by the strategy of its kind: a tribe calendar page by page   *)
(* along the links the server gives, an iCalendar file or an HTML page as  *)
(* one document, a Bevy chapter by a walk over its event pages.            *)
(*                                                                         *)
(* A request is answered in one step or fails in one step (deadline,       *)
(* status, size, a body no decoder reads).  After the context is cancelled *)
(* every request fails: a reply that beats the cancellation is the same as *)
(* one that came before it.  What upstream lists is a sequence of records, *)
(* which its owners may edit while it is fetched.                          *)
(***************************************************************************)
EXTENDS Integers, Sequences, SequencesExt, FiniteSets

CONSTANTS
    Sources,
    Kind,           \* per source "tribe", "document" or "bevy"
    Records,        \* what calendars list
    Unreadable,     \* the records no decoder can read
    Unwanted,       \* cancelled, or outside the window
    Calendars,      \* per source, what upstream may list to begin with
    Additions,      \* what may be added while they are fetched
    Loops,          \* the tribe servers whose last page may link to the first
    PageSize,       \* of the tribe servers
    MaxConcurrent, MaxPages, MaxBevyEvents, MinPageForRatio, SkipTolerance,
    MaxEdits        \* bound on the edits upstream

ASSUME FetchAssumption ==
    /\ IsFiniteSet(Sources)
    /\ Kind \in [Sources -> {"tribe", "document", "bevy"}]
    /\ UNION {Unreadable, Unwanted, Additions} \subseteq Records
    /\ \A s \in Sources : Calendars[s] \subseteq Seq(Records)
    /\ {PageSize, MaxConcurrent, MaxPages, MaxBevyEvents} \subseteq Nat \ {0}
    /\ {MinPageForRatio, SkipTolerance, MaxEdits} \subseteq Nat
    /\ SkipTolerance <= MinPageForRatio

VARIABLES
    calendar,   \* what upstream lists
    edits,      \* edits so far
    before,     \* what a source listed when its fetch began
    withdrawn,  \* what a source lost while being fetched
    holding,    \* the sources holding a slot of the semaphore
    stage,      \* where the source's goroutine is
    walk,       \* its local state
    result,     \* results[i]
    hurt,       \* the sources that had a request fail
    cancelled,  \* the context
    returned    \* Fetch has returned

vars == <<calendar, edits, before, withdrawn, holding, stage, walk, result, hurt, cancelled, returned>>
upstream == <<calendar, edits, before, withdrawn>>

Stages == {"queued", "asking", "pausing", "answered", "done"}

(* An event goes by the request that brought it, its place there and its   *)
(* record: what two requests bring is kept twice.                          *)
Event == Nat \X Nat \X Records
Walk == [next: Int, pages: Nat, links: Seq(Records), events: SUBSET Event, skips: Nat]
Result == [err: BOOLEAN, events: SUBSET Event, skips: Nat]

TypeOK ==
    /\ {calendar, before} \subseteq [Sources -> Seq(Records)]
    /\ edits \in 0 .. MaxEdits
    /\ withdrawn \in [Sources -> SUBSET Records]
    /\ {holding, hurt} \subseteq SUBSET Sources
    /\ Cardinality(holding) <= MaxConcurrent
    /\ stage \in [Sources -> Stages]
    /\ walk \in [Sources -> Walk]
    /\ result \in [Sources -> Result]
    /\ \A s \in Sources : walk[s].pages <= MaxPages /\ Len(walk[s].links) <= MaxBevyEvents
    /\ {cancelled, returned} \subseteq BOOLEAN

Unstarted == [next |-> 1, pages |-> 0, links |-> <<>>, events |-> {}, skips |-> 0]
NoResult == [err |-> FALSE, events |-> {}, skips |-> 0]
Failed == [err |-> TRUE, events |-> {}, skips |-> 0]

Init ==
    /\ calendar \in {c \in [Sources -> UNION {Calendars[s] : s \in Sources}] :
                       \A s \in Sources : c[s] \in Calendars[s]}
    /\ edits = 0
    /\ before = calendar
    /\ withdrawn = [s \in Sources |-> {}]
    /\ holding = {} /\ hurt = {}
    /\ stage = [s \in Sources |-> "queued"]
    /\ walk = [s \in Sources |-> Unstarted]
    /\ result = [s \in Sources |-> NoResult]
    /\ cancelled = FALSE
    /\ returned = FALSE

----------------------------------------------------------------------------
(* The world outside                                                       *)

Running(s) == stage[s] \in {"asking", "pausing"}

(* An event is added or withdrawn upstream: what follows it moves down or  *)
(* up by one, across the page boundaries too.  After its source has        *)
(* answered it concerns the next run.                                      *)
Add(s) ==
    /\ edits < MaxEdits
    /\ Running(s)
    /\ edits' = edits + 1
    /\ \E i \in 1 .. Len(calendar[s]) + 1, r \in Additions \ ToSet(calendar[s]) :
         calendar' = [calendar EXCEPT ![s] = InsertAt(@, i, r)]
    /\ UNCHANGED <<before, withdrawn, holding, stage, walk, result, hurt, cancelled, returned>>

Withdraw(s) ==
    /\ edits < MaxEdits
    /\ Running(s)
    /\ edits' = edits + 1
    /\ \E i \in DOMAIN calendar[s] :
          /\ calendar' = [calendar EXCEPT ![s] = RemoveAt(@, i)]
          /\ withdrawn' = [withdrawn EXCEPT ![s] = @ \cup {calendar[s][i]}]
    /\ UNCHANGED <<before, holding, stage, walk, result, hurt, cancelled, returned>>

Cancel ==
    /\ ~cancelled /\ ~returned
    /\ cancelled' = TRUE
    /\ UNCHANGED <<upstream, holding, stage, walk, result, hurt, returned>>

----------------------------------------------------------------------------
(* The pool                                                                *)

AcquireUnbounded(s) ==
    /\ stage[s] = "queued"
    /\ holding' = holding \cup {s}
    /\ stage' = [stage EXCEPT ![s] = "asking"]
    /\ before' = [before EXCEPT ![s] = calendar[s]]
    /\ UNCHANGED <<calendar, edits, withdrawn, walk, result, hurt, cancelled, returned>>

(* The slot is waited for without a look at the context.                   *)
Acquire(s) ==
    /\ stage[s] = "queued"
    /\ Cardinality(holding) < MaxConcurrent
    /\ holding' = holding \cup {s}
    /\ stage' = [stage EXCEPT ![s] = "asking"]
    /\ before' = [before EXCEPT ![s] = calendar[s]]
    /\ UNCHANGED <<calendar, edits, withdrawn, walk, result, hurt, cancelled, returned>>

ReleaseIfOk(s) ==
    /\ stage[s] = "answered"
    /\ holding' = IF result[s].err THEN holding ELSE holding \ {s}
    /\ stage' = [stage EXCEPT ![s] = "done"]
    /\ UNCHANGED <<upstream, walk, result, hurt, cancelled, returned>>

Release(s) ==
    /\ stage[s] = "answered"
    /\ holding' = holding \ {s}
    /\ stage' = [stage EXCEPT ![s] = "done"]
    /\ UNCHANGED <<upstream, walk, result, hurt, cancelled, returned>>

Return ==
    /\ ~returned
    /\ \A s \in Sources : stage[s] = "done"
    /\ returned' = TRUE
    /\ UNCHANGED <<upstream, holding, stage, walk, result, hurt, cancelled>>

----------------------------------------------------------------------------
(* What the strategies share                                               *)

TooManySkips(events, skipped) ==
    /\ events + skipped >= MinPageForRatio
    /\ skipped * SkipTolerance > events + skipped

Succeeded(w) == [err |-> FALSE, events |-> w.events, skips |-> w.skips]

Asking(s, kind) == stage[s] = "asking" /\ Kind[s] = kind

(* Get returns, and its locals are gone.                                   *)
Answer(s, r) ==
    /\ result' = [result EXCEPT ![s] = r]
    /\ walk' = [walk EXCEPT ![s] = Unstarted]
    /\ stage' = [stage EXCEPT ![s] = "answered"]

(* finish: the ratio over everything a source of one document yielded.     *)
Finish(s, w) ==
    Answer(s, IF TooManySkips(Cardinality(w.events), w.skips) THEN Failed ELSE Succeeded(w))

(* What the decoders make of the records at some places of a list, in the  *)
(* answer to a source's n-th request.                                      *)
Readable(list, at) == {i \in at : list[i] \notin Unreadable \cup Unwanted}
Decoded(n, list, at) == {<<n, i, list[i]>> : i \in Readable(list, at)}
Garbled(list, at) == Cardinality({i \in at : list[i] \in Unreadable})

Heard == ~cancelled

----------------------------------------------------------------------------
(* tribe                                                                   *)

(* The places of what the server shows, and how many it shows up to i.     *)
Shown(list) == {i \in DOMAIN list : list[i] \notin Unwanted}
Rank(list, i) == Cardinality({j \in Shown(list) : j <= i})

Page(list, n) ==
    {i \in Shown(list) : (n - 1) * PageSize < Rank(list, i) /\ Rank(list, i) <= n * PageSize}

(* The link a page carries: the page after it or one that is declined (-1),*)
(* off the feed's own host or not a URL; after the last page nothing (0),  *)
(* or the first page again from a server that loops.                       *)
Link(s, n) ==
    LET more == n * PageSize < Cardinality(Shown(calendar[s]))
    IN IF more THEN {n + 1, -1} ELSE {0} \cup (IF s \in Loops THEN {1} ELSE {})

(* The walk after a page: what was on it, and a skip for a declined link.  *)
QuietlyDeclined(w, found, garbled, link) ==
    [w EXCEPT !.next = IF link = -1 THEN 0 ELSE link,
              !.pages = w.pages + 1,
              !.events = w.events \cup found,
              !.skips = w.skips + garbled]

PageAgain(w, found, garbled, link) ==
    [w EXCEPT !.next = IF link = -1 THEN w.next ELSE link,
              !.pages = w.pages + 1,
              !.events = w.events \cup found,
              !.skips = w.skips + garbled + (IF link = -1 THEN 1 ELSE 0)]

AfterPage(w, found, garbled, link) ==
    [w EXCEPT !.next = IF link = -1 THEN 0 ELSE link,
              !.pages = w.pages + 1,
              !.events = w.events \cup found,
              !.skips = w.skips + garbled + (IF link = -1 THEN 1 ELSE 0)]

(* Pages left unread are a skip of their own.                              *)
CutShort(w) == IF w.next = 0 THEN w ELSE [w EXCEPT !.skips = w.skips + 1]

TribePage(s) ==
    /\ Asking(s, "tribe") /\ Heard
    /\ \E link \in Link(s, walk[s].next) :
         LET page == Page(calendar[s], walk[s].next)
             found == Decoded(walk[s].pages, calendar[s], page)
             garbled == Garbled(calendar[s], page)
             w == AfterPage(walk[s], found, garbled, link)
         IN IF TooManySkips(Cardinality(found), garbled)
            THEN Answer(s, Failed)
            ELSE IF w.next # 0 /\ w.pages < MaxPages
            THEN walk' = [walk EXCEPT ![s] = w] /\ UNCHANGED <<stage, result>>
            ELSE Answer(s, Succeeded(CutShort(w)))
    /\ UNCHANGED <<upstream, holding, hurt, cancelled, returned>>

----------------------------------------------------------------------------
(* ics and html                                                            *)

Document(s) ==
    /\ Asking(s, "document") /\ Heard
    /\ Finish(s, [walk[s] EXCEPT !.events = Decoded(0, calendar[s], DOMAIN calendar[s]),
                                 !.skips = Garbled(calendar[s], DOMAIN calendar[s])])
    /\ UNCHANGED <<upstream, holding, hurt, cancelled, returned>>

----------------------------------------------------------------------------
(* bevy: next is 1 before the chapter page is read, then the index of the  *)
(* event page to read plus 1.                                              *)

Chapter(w) == w.next = 1

BevyChapter(s) ==
    /\ Asking(s, "bevy") /\ Heard /\ Chapter(walk[s])
    /\ LET list == calendar[s]
           cut == Len(list) > MaxBevyEvents
           w == [walk[s] EXCEPT !.next = 2,
                   !.links = IF cut THEN SubSeq(list, 1, MaxBevyEvents) ELSE list,
                   !.skips = IF cut THEN 1 ELSE 0]
       IN IF list = <<>> THEN Finish(s, w)
          ELSE /\ walk' = [walk EXCEPT ![s] = w]
               /\ stage' = [stage EXCEPT ![s] = "pausing"]
               /\ UNCHANGED result
    /\ UNCHANGED <<upstream, holding, hurt, cancelled, returned>>

(* The pause before each event page; one that is cancelled as its timer    *)
(* fires may go either way.                                                *)
BevyPause(s) ==
    /\ stage[s] = "pausing"
    /\ \/ stage' = [stage EXCEPT ![s] = "asking"] /\ UNCHANGED <<result, walk>>
       \/ cancelled /\ Answer(s, Failed)
    /\ UNCHANGED <<upstream, holding, hurt, cancelled, returned>>

(* The walk after an event page: what was on it, and a skip if there was   *)
(* none to be had.                                                         *)
AfterEvent(w, found, skipped) ==
    [w EXCEPT !.next = w.next + 1,
              !.events = w.events \cup found,
              !.skips = w.skips + skipped]

BevyNext(s, w) ==
    IF w.next - 1 > Len(w.links) THEN Finish(s, w)
    ELSE /\ walk' = [walk EXCEPT ![s] = w]
         /\ stage' = [stage EXCEPT ![s] = "pausing"]
         /\ UNCHANGED result

(* An event page may be gone from the calendar by the time it is read, and *)
(* is then a request that failed.                                          *)
BevyEvent(s) ==
    /\ Asking(s, "bevy") /\ Heard /\ ~Chapter(walk[s])
    /\ LET links == walk[s].links
           k == walk[s].next - 1
       IN /\ links[k] \in ToSet(calendar[s])
          /\ BevyNext(s, AfterEvent(walk[s], Decoded(k, links, {k}), Garbled(links, {k})))
    /\ UNCHANGED <<upstream, holding, hurt, cancelled, returned>>

----------------------------------------------------------------------------

SinksTheRest(s) ==
    /\ stage[s] = "asking"
    /\ hurt' = hurt \cup {s}
    /\ stage' = [t \in Sources |-> IF Running(t) THEN "answered" ELSE stage[t]]
    /\ result' = [t \in Sources |-> IF Running(t) THEN Failed ELSE result[t]]
    /\ UNCHANGED <<upstream, walk, holding, cancelled, returned>>

(* A failed request fails its source, except that of a Bevy event page,    *)
(* which is a skip: the chapter page answered.                             *)
RequestFails(s) ==
    /\ stage[s] = "asking"
    /\ hurt' = hurt \cup {s}
    /\ IF Kind[s] = "bevy" /\ ~Chapter(walk[s])
       THEN BevyNext(s, AfterEvent(walk[s], {}, 1))
       ELSE Answer(s, Failed)
    /\ UNCHANGED <<upstream, holding, cancelled, returned>>

Advance(s) ==
    \/ TribePage(s)
    \/ Document(s)
    \/ BevyChapter(s)
    \/ BevyPause(s)
    \/ BevyEvent(s)
    \/ RequestFails(s)
    \/ Release(s)

Next ==
    \/ \E s \in Sources : Add(s) \/ Withdraw(s)
    \/ Cancel
    \/ \E s \in Sources : Acquire(s)
    \/ \E s \in Sources : Advance(s)
    \/ Return

(* A goroutine that can run runs, a request is answered or its deadline    *)
(* passes, and a free slot goes to a goroutine that waits for it.          *)
Spec ==
    /\ Init
    /\ [][Next]_vars
    /\ \A s \in Sources : WF_vars(Acquire(s)) /\ WF_vars(Advance(s))
    /\ WF_vars(Return)

----------------------------------------------------------------------------
(* Properties                                                              *)

Wanted(list) == {list[i] : i \in Readable(list, DOMAIN list)}

(* The records of events.                                                  *)
Brought(events) == {e[3] : e \in events}

(* A source that reports success without a skip has every wanted event it  *)
(* listed when its fetch began, and nothing it does not list, however many *)
(* pages and requests that took and although events were added upstream in *)
(* between: a missing event is otherwise read as a cancellation (Skipped). *)
(* Not so when one was withdrawn: the next page then starts one too late.  *)
CompleteOrFlagged ==
    \A s \in Sources :
      LET r == result[s]
      IN stage[s] = "answered" /\ ~r.err /\ r.skips = 0 /\ withdrawn[s] = {} =>
           /\ Wanted(before[s]) \subseteq Brought(r.events)
           /\ Brought(r.events) \subseteq Wanted(calendar[s])

(* What a walk hands on twice, normalize takes for two meetings.  So a     *)
(* source brings no more repetitions than there were edits upstream, which *)
(* move an event onto the page that is read next, unless its server has    *)
(* led the walk back from the last page to the first: then it has all that *)
(* was listed when its fetch began and is not withdrawn.                   *)
SeenOnce ==
    \A s \in Sources :
      LET events == result[s].events
      IN stage[s] = "answered" =>
           \/ Cardinality(events) - Cardinality(Brought(events)) <= edits
           \/ s \in Loops /\ Wanted(before[s]) \ withdrawn[s] \subseteq Brought(events)

(* All a source has listed since its fetch began.                          *)
Listed(s) == ToSet(before[s]) \cup ToSet(calendar[s]) \cup withdrawn[s]

(* One dead feed does not blank the site: a source fails by a request of   *)
(* its own, by records of its own that cannot be read, or because the      *)
(* whole run was cancelled, never because another one failed.              *)
OneDeadFeed ==
    \A s \in Sources :
      result[s].err =>
        \/ s \in hurt
        \/ cancelled /\ Kind[s] = "bevy"
        \/ Listed(s) \cap Unreadable # {}

(* Fetch returns, with a result for every source, whatever fails, loops    *)
(* back to its first page, or is cancelled.                                *)
Returns == <>returned
=============================================================================
