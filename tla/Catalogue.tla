----------------------------- MODULE Catalogue ------------------------------
(***************************************************************************)
(* What internal/store promises, without its rows, fingerprint tables and  *)
(* transactions: a set of entries, each known by the records it has, and   *)
(* SaveEvents as one step.  Store implements it (Store!Catalogued).        *)
(***************************************************************************)
EXTENDS Integers, Sequences

CONSTANTS
    Registries,
    Contents,   \* what a batch can say: records, group and start of each event, in order
    MaxTime

VARIABLES
    entries,  \* records, group, start, status, first and last sighting
    signed,   \* the groups a person has signed for
    now

catalogue == <<entries, signed, now>>

Init ==
    /\ entries = {}
    /\ signed = {}
    /\ now = 1

Tick ==
    /\ now < MaxTime
    /\ now' = now + 1
    /\ UNCHANGED <<entries, signed>>

Sign(reg) ==
    /\ signed' = (signed \ reg.groups) \cup (reg.verified \cap reg.groups)
    /\ UNCHANGED <<entries, now>>

(* The age of an event is that of the oldest entry it takes the place of.  *)
Oldest(ages) == CHOOSE a \in ages : \A b \in ages : a <= b

(* An event said at time t takes the place of the entries it shares a      *)
(* record with; what other records these had is known of nothing any more. *)
Filed(shelf, e, t) ==
    LET gone == {x \in shelf : x.recs \cap e.recs # {}}
    IN  (shelf \ gone) \cup
          {[recs |-> e.recs, group |-> e.group, start |-> e.start,
            status |-> IF e.group \in signed THEN "published" ELSE "pending",
            first |-> Oldest({t} \cup {x.first : x \in gone}), last |-> t]}

(* The entries once the first k events of content are filed.               *)
Shelves(content, t) ==
    LET shelf[k \in 0 .. Len(content)] ==
            IF k = 0 THEN entries ELSE Filed(shelf[k - 1], content[k], t)
    IN  shelf

(* A batch is filed whole, in its order, or not at all.                    *)
Save ==
    /\ \E content \in Contents, t \in 1 .. now :
          entries' = Shelves(content, t)[Len(content)]
    /\ UNCHANGED <<signed, now>>

Next ==
    \/ Tick
    \/ \E reg \in Registries : Sign(reg)
    \/ Save

Spec == Init /\ [][Next]_catalogue

=============================================================================
