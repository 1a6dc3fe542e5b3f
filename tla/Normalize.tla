----------------------------- MODULE Normalize -----------------------------
(***************************************************************************)
(* internal/normalize: from what the feeds said to the events htxdev       *)
(* concluded.  Every operator is a function of the registry, the reject    *)
(* list and the records, as in the package, which has no clock, no network *)
(* and no database.                                                        *)
(*                                                                         *)
(* A record (core.RawEvent) is [feed, uid, start, organizers, venues, text,*)
(* virtual]; "" is Go's empty string.  uid stands for UpstreamID and is    *)
(* compared with <.  What only travels with the winner (title, links) is   *)
(* left out; text stands for every field the losers fill in when blank.    *)
(*                                                                         *)
(* A registry is [groups: group slugs; owner: feed -> group; kind: feed -> *)
(* kind; priority: feed -> number; named: organizer name -> group; curated:*)
(* venue name, folded -> curated venue; home: group -> its default venue]. *)
(***************************************************************************)
EXTENDS Places

Fingerprint(reg, r) == <<reg.kind[r.feed], r.uid>>

(* The members of a finite set in a total order, where below[x] are those  *)
(* that come before x.                                                     *)
Ranked(below) ==
    [k \in 1 .. Cardinality(DOMAIN below) |->
        CHOOSE x \in DOMAIN below : Cardinality(below[x]) = k - 1]

----------------------------------------------------------------------------
(* Whose event a record is                                                 *)

(* The first organizer the registry knows beats the feed's owner.          *)
GroupFor(reg, r) ==
    LET known == {i \in DOMAIN r.organizers : r.organizers[i] \in DOMAIN reg.named}
    IN  IF known # {} THEN reg.named[r.organizers[Min(known)]] ELSE reg.owner[r.feed]

(* Anything else is a problem that is reported and skipped.                *)
Resolvable(reg, r) == r.feed \in DOMAIN reg.owner /\ GroupFor(reg, r) \in reg.groups

ClusterKey(reg, r) == <<GroupFor(reg, r), r.start>>

(* Records go by their places in raw, the list the fetch returned.  The    *)
(* records that share the key of record i are its cluster.                 *)
Clusters(reg, raw) ==
    LET resolved == {i \in DOMAIN raw : Resolvable(reg, raw[i])}
        key == [i \in resolved |-> ClusterKey(reg, raw[i])]
    IN  [i \in resolved |-> {j \in resolved : key[j] = key[i]}]

----------------------------------------------------------------------------
(* Merging one cluster, or one record of it                                *)

ByPriority(reg, a, b) == reg.priority[a.feed] < reg.priority[b.feed]

Wins(reg, a, b) ==
    \/ reg.priority[a.feed] < reg.priority[b.feed]
    \/ reg.priority[a.feed] = reg.priority[b.feed] /\ a.uid < b.uid

PlaceFirst(reg, at, said) == IF at.venue = <<>> THEN said ELSE at

(* A curated venue beats one that is not, even from a feed that lost.      *)
Place(reg, at, said) ==
    IF /\ said.venue # <<>>
       /\ \/ at.venue = <<>>
          \/ ~IsCurated(reg.curated, at.venue) /\ IsCurated(reg.curated, said.venue)
    THEN said ELSE at

FirstFilled(s) ==
    LET filled == SelectSeq(s, LAMBDA x : x # "") IN IF filled = <<>> THEN "" ELSE filled[1]

(* slices.SortStableFunc: of two records that tie the earlier comes first. *)
Beats(reg, raw, i, j) ==
    \/ Wins(reg, raw[i], raw[j])
    \/ ~Wins(reg, raw[j], raw[i]) /\ i < j

InOrder(reg, raw, M) ==
    LET order == Ranked([i \in M |-> {j \in M : Beats(reg, raw, j, i)}])
    IN  [k \in DOMAIN order |-> raw[order[k]]]

(* The record that supplies identity.                                      *)
Winner(reg, raw, M) == InOrder(reg, raw, M)[1]

(* The place its records tell, the curated one of them if there is any.    *)
Tellings(reg, won) ==
    LET told[n \in 0 .. Len(won)] ==
            IF n = 0 THEN Unplaced
            ELSE Place(reg, told[n - 1], ResolveVenue(reg.curated, won[n].venues))
    IN  told

Told(reg, won) == Tellings(reg, won)[Len(won)]

(* A group's default venue, where no record tells any.                     *)
Housed(reg, group, at) ==
    IF at.venue = <<>> /\ group \in DOMAIN reg.home
    THEN [at EXCEPT !.venue = reg.home[group]] ELSE at

EventAt(at, reg, won, winner) ==
    [fp      |-> Fingerprint(reg, winner),
     group   |-> GroupFor(reg, won[1]),
     start   |-> won[1].start,
     recs    |-> [i \in DOMAIN won |->
                    [fp |-> Fingerprint(reg, won[i]), feed |-> won[i].feed]],
     venue   |-> at.venue,
     room    |-> at.room,
     address |-> at.address,
     text    |-> FirstFilled([i \in DOMAIN won |-> won[i].text]),
     virtual |-> \E i \in DOMAIN won : won[i].virtual]

Concluded(reg, won, winner) ==
    EventAt(Housed(reg, GroupFor(reg, won[1]), Told(reg, won)), reg, won, winner)

Merge(reg, raw, M) == Concluded(reg, InOrder(reg, raw, M), Winner(reg, raw, M))

----------------------------------------------------------------------------
(* Which records are one event                                             *)

DistinctFeeds(raw, M) == \A i, j \in M : raw[i].feed = raw[j].feed => i = j

CollapseAll(raw, C, i) == C

CollapseByUid(raw, C, i) ==
    IF DistinctFeeds(raw, C) THEN C ELSE {Min({j \in C : raw[j].uid = raw[i].uid})}

(* The records of the event that record i is of: its cluster C if no feed  *)
(* listed two of that, else itself.                                        *)
Collapse(raw, C, i) == IF DistinctFeeds(raw, C) THEN C ELSE {i}

Collapsed(raw, clusters) == {Collapse(raw, clusters[i], i) : i \in DOMAIN clusters}

(* Events come in the order the clusters' first records came in, and those *)
(* of one split cluster by upstream id.                                    *)
Precedes(raw, clusters, i, j) ==
    LET first(k) == Min(clusters[k])
    IN  \/ first(i) < first(j)
        \/ first(i) = first(j) /\ raw[i].uid < raw[j].uid
        \/ first(i) = first(j) /\ raw[i].uid = raw[j].uid /\ i < j

----------------------------------------------------------------------------
(* Rejecting any record of an event rejects the event.                     *)
RejectedEvent(rejects, e) == \E i \in DOMAIN e.recs : e.recs[i].fp \in rejects

Events(reg, rejects, raw) ==
    LET clusters == Clusters(reg, raw)
        merged == [M \in Collapsed(raw, clusters) |-> Merge(reg, raw, M)]
        kept == {M \in DOMAIN merged : ~RejectedEvent(rejects, merged[M])}
        order == Ranked([M \in kept |->
                    {L \in kept : Precedes(raw, clusters, Min(L), Min(M))}])
    IN  [k \in DOMAIN order |-> merged[order[k]]]

=============================================================================
