---------------------------- MODULE MCNormalize ----------------------------
(* Every run of normalize over at most MaxRaw records of three feeds: a    *)
(* venue's calendar (ion, priority 50), a group's own (hlug, 10) and a     *)
(* second one of that group (meetup, 10); every way a venue can be named,  *)
(* in a run of one record; and every registry a few edits away from theirs.*)
EXTENDS Normalize, Registry

CONSTANTS MaxRaw, MaxUid

ASSUME BoundsAssumption == MaxRaw \in Nat /\ MaxUid \in Nat

VARIABLES
    dir,      \* data/venues and data/groups
    reg,      \* what normalize.New makes of them, if they load
    raw, rejects, out

vars == <<dir, reg, raw, rejects, out>>

----------------------------------------------------------------------------
(* The registry                                                            *)

Slug(s) == <<s>>
HLUG == Slug("hlug")
IonDistrict == Slug("ion")
HoustonLinux == <<"Houston", " ", "Linux">>
Ion == <<"Ion">>
TheIon == <<"The", " ", "Ion">>

Feed(kind, url, n) == [kind |-> kind, url |-> url, priority |-> n]
VenueFile(slug, name, aliases) ==
    [slug |-> slug, decodes |-> TRUE, name |-> name, aliases |-> aliases]
GroupFile(slug, name, aliases, venue, sources) ==
    [slug |-> slug, decodes |-> TRUE, name |-> name, aliases |-> aliases,
     venue |-> venue, signed |-> [by |-> "", at |-> ""], sources |-> sources]

Hlug(venue) == GroupFile(HLUG, HoustonLinux, <<>>, venue,
                  <<Feed("ics", "hlug:feed", 10), Feed("ics", "meetup:feed", 10)>>)
IonFile(aliases, url) == GroupFile(IonDistrict, <<"Ion", " ", "District">>, aliases, Blank,
                  <<Feed("tribe", url, 50)>>)

Standard == [venues |-> <<VenueFile(Slug("ion"), Ion, <<TheIon>>)>>,
             groups |-> <<Hlug(Slug("ion")), IonFile(<<>>, "ion:feed")>>]

(* Two venues and two groups whose files were edited one by one.           *)
Edits ==
    [aliases : {<<>>, <<TheIon>>, <<Slug("cafe")>>}, cafe : {Blank, Ion, <<"Cafe">>},
     readable : BOOLEAN,
     home : {Blank, Slug("ion"), Slug("cafe"), Slug("gone")},
     signed : {[by |-> "", at |-> ""], [by |-> "me", at |-> ""], [by |-> "me", at |-> "today"]},
     others : {<<>>, <<HoustonLinux>>, <<HLUG>>}, url : {"ion:feed", "hlug:feed", "http:feed"}]

Edited(e) ==
    [venues |-> <<VenueFile(Slug("ion"), Ion, e.aliases),
                  [VenueFile(Slug("cafe"), e.cafe, <<>>) EXCEPT !.decodes = e.readable]>>,
     groups |-> <<[Hlug(e.home) EXCEPT !.signed = e.signed], IonFile(e.others, e.url)>>]

Dirs == {Standard} \cup {Edited(e) : e \in Edits}

----------------------------------------------------------------------------
(* The records                                                             *)

(* What each feed can send: only the venue's calendar names organizers.    *)
Says == {<<"ion:feed", <<Ion>>>>, <<"ion:feed", <<<<"Nobody">>, HoustonLinux>>>>,
         <<"hlug:feed", <<>>>>, <<"meetup:feed", <<>>>>}

InCafe == <<<<"Cafe">>>>
InRoom30 == <<<<"Ion", EnDash, "30">>>>

Detail == {[venues |-> <<>>, text |-> "x"], [venues |-> InCafe, text |-> ""],
           [venues |-> InRoom30, text |-> "y"]}

RawEvent == {[feed |-> s[1], organizers |-> s[2], uid |-> u, start |-> t,
              venues |-> d.venues, text |-> d.text, virtual |-> d.venues = InCafe] :
                s \in Says, u \in 1 .. MaxUid, t \in 1 .. 2, d \in Detail}

(* How feeds write down where an event is: [said, venue, room, street].    *)
Meant(said, venue, room, street) ==
    [said |-> said, venue |-> venue, room |-> room, street |-> street]

Buildings == {Ion, <<"Cafe">>, <<"Greentown", " ", "Labs">>}
Rooms == {<<"Lobby">>, <<"Room", " ", "30">>,
          <<"Conference", " ", "Room", " ", "029", " ", EnDash, " ", "030">>}
Streets == {<<"4201", " ", "Main">>, <<"1127", " ", "Eldridge", " ", "Suite", " ", "600">>}
Comma == <<",", " ">>
Town == Comma \o <<"Houston">> \o Comma \o <<"USA">>

Spellings(b) == IF b = Ion THEN {Ion, TheIon} ELSE {b}

Whole == {Meant(<<<<" ">> \o s>>, b, <<>>, <<>>) : s \in Spellings(Ion), b \in {Ion}}
           \cup {Meant(<<b>>, b, <<>>, <<>>) : b \in Buildings}

Undashed == {r \in Rooms : EnDash \notin ToSet(r)}

(* A dash between, and no other dash before it in splitOnDash's order.     *)
Dashed ==
    UNION {{Meant(<<s \o <<" ", EnDash, " ">> \o r>>, b, r, <<>>) : s \in Spellings(b), r \in Rooms}
             \cup {Meant(<<s \o <<" ", d, " ">> \o r>>, b, r, <<>>) :
                     s \in Spellings(b), d \in {EmDash, "-"}, r \in Undashed} : b \in Buildings}

(* [room, building]: the room with or without a dash, or the building      *)
(* again; and [building, the district it is in].                           *)
Listed ==
    {Meant(<<b \o <<" ", EnDash, " ">> \o r, b>>, b, r, <<>>) : b \in Buildings, r \in Rooms}
    \cup {Meant(<<b \o <<" ", "Plaza">>, b>>, b, <<"Plaza">>, <<>>) : b \in Buildings}
    \cup {Meant(<<b, o>>, b, <<>>, <<>>) : b \in Buildings, o \in Buildings}

(* A flat LOCATION: the rooms of a venue nobody curates are not told.      *)
Located ==
    {Meant(<<s \o Comma \o r \o Comma \o t \o Town>>, Ion, r, <<>>) :
        s \in Spellings(Ion), r \in {<<"Room", " ", "30">>}, t \in Streets}
    \cup {Meant(<<s \o Comma \o t \o Town>>, Ion, <<>>, <<>>) : s \in Spellings(Ion), t \in Streets}
    \cup {Meant(<<b \o Comma \o t \o Town>>, b, <<>>, t) : b \in Buildings \ {Ion}, t \in Streets}

AllMeant == Whole \cup Dashed \cup Listed \cup Located

Telling(m) == [feed |-> "ion:feed", organizers |-> <<Ion>>, uid |-> 1, start |-> 1,
               venues |-> m.said, text |-> "", virtual |-> FALSE]

----------------------------------------------------------------------------

Unloaded == <<>>

Init ==
    /\ dir \in Dirs
    /\ reg = IF Accepted(dir) THEN New(dir) ELSE Unloaded
    /\ raw = <<>>
    /\ rejects \in IF dir = Standard
                   THEN {{}, {<<"ics", 1>>, <<"tribe", 2>>}} ELSE {{}}
    /\ out = <<>>

(* The fetch appends one more record, and the whole of it is normalized.   *)
Receive(r) ==
    /\ dir = Standard /\ reg # Unloaded
    /\ raw' = Append(raw, r)
    /\ out' = Events(reg, rejects, raw')
    /\ UNCHANGED <<dir, reg, rejects>>

Next ==
    \/ Len(raw) < MaxRaw /\ ToSet(raw) \subseteq RawEvent /\ \E r \in RawEvent : Receive(r)
    \/ raw = <<>> /\ rejects = {} /\ \E m \in AllMeant : Receive(Telling(m))

Spec == Init /\ [][Next]_vars

----------------------------------------------------------------------------
(* Properties                                                              *)

(* Whose meeting a record is, read off the files: the linux group's if its *)
(* organizer says so or its own feeds carry it, else the venue's.          *)
Whose(r) == IF r.feed # "ion:feed" \/ HoustonLinux \in ToSet(r.organizers)
            THEN HLUG ELSE IonDistrict

SameKey(i, j) == Whose(raw[i]) = Whose(raw[j]) /\ raw[i].start = raw[j].start
Alike(i) == {j \in DOMAIN raw : SameKey(i, j)}
Ambiguous(i) == \E j, k \in Alike(i) : j # k /\ raw[j].feed = raw[k].feed
Rec(i) == [fp |-> Fingerprint(reg, raw[i]), feed |-> raw[i].feed]
Unique == \A i, j \in DOMAIN raw : Rec(i).fp = Rec(j).fp => i = j

(* The meeting a record is of, as collapse has it: records of the same     *)
(* group at the same instant are one meeting, unless one feed lists two of *)
(* them ("a calendar does not list one event twice").  core.go says that   *)
(* "one feed contributes two records to one event, which a venue calendar  *)
(* listing a co-hosted meeting twice really does": collapse makes two.     *)
Meeting(i) == IF Ambiguous(i) THEN {i} ELSE Alike(i)

(* The events are exactly the meetings none of whose records is rejected:  *)
(* no record is lost, none is in two events, two records are merged when   *)
(* and only when no feed contradicts it (collapse, Events).                *)
EventsAreMeetings ==
    Unique =>
      {<<out[k].group, ToSet(out[k].recs)>> : k \in DOMAIN out}
        = {<<Whose(raw[i]), {Rec(j) : j \in Meeting(i)}>> :
             i \in {i \in DOMAIN raw : \A j \in Meeting(i) : Rec(j).fp \notin rejects}}

(* As many records come out as went in and were not rejected, even when    *)
(* two of them carry the same fingerprint.                                 *)
NothingLost ==
    rejects = {} =>
      Cardinality(UNION {{<<k, i>> : i \in DOMAIN out[k].recs} : k \in DOMAIN out})
        = Len(raw)

Tied == \E i, j \in DOMAIN raw : /\ i # j /\ SameKey(i, j) /\ raw[i].uid = raw[j].uid
                               /\ reg.priority[raw[i].feed] = reg.priority[raw[j].feed]

(* The order the feeds answered in does not decide who wins: only records  *)
(* equal in priority and upstream id can change the result (merge).        *)
OrderFree ==
    ~Tied => ToSet(Events(reg, rejects, Reverse(raw))) = ToSet(out)

RecordsOf(e) == {raw[i] : i \in {i \in DOMAIN raw : Rec(i) \in ToSet(e.recs)}}

(* Wherever its records disagree, an event is at the curated venue one of  *)
(* them names, in the room that very record gives, and it has a place if   *)
(* any record or its group does (merge).                                   *)
VenueResolved ==
    Unique /\ ToSet(raw) \subseteq RawEvent =>
      \A k \in DOMAIN out :
        LET e == out[k]
            said == {r.venues : r \in RecordsOf(e)}
        IN  <<e.venue, e.room>> =
              CASE InRoom30 \in said -> <<Ion, <<"30">>>>
                [] InRoom30 \notin said /\ InCafe \in said -> <<<<"Cafe">>, <<>>>>
                [] said = {<<>>} /\ e.group = HLUG -> <<Ion, <<>>>>
                [] said = {<<>>} /\ e.group # HLUG -> <<<<>>, <<>>>>

(* A place is read back from each of the ways feeds write it: one spelling *)
(* per building, the room apart from it, a neighbour in the same district  *)
(* a place of its own, a suite of the street no room (resolveVenue).       *)
PlaceRead ==
    Len(raw) = 1 =>
      \A m \in AllMeant :
        raw[1].venues = m.said /\ raw = <<Telling(m)>> =>
          <<out[1].venue, out[1].room, out[1].address.street>> = <<m.venue, m.room, m.street>>

Backwards(d) == [venues |-> Reverse(d.venues), groups |-> Reverse(d.groups)]

(* A registry that loads means one thing, in whatever order its files are  *)
(* read: no organizer, venue name or feed has two owners, and a group's    *)
(* default venue is the one whose file it names (Load: which group wins a  *)
(* name "is now a validation error instead").                              *)
OneMeaning ==
    raw = <<>> /\ reg # Unloaded =>
      /\ reg = New(Backwards(dir))
      /\ \A g \in ToSet(dir.groups), v \in ToSet(dir.venues) :
            g.venue = v.slug => reg.home[g.slug] = v.name

=============================================================================
