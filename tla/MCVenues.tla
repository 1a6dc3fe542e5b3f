------------------------------ MODULE MCVenues ------------------------------
(* Two meetings at one place, which their feeds spell in two ways that     *)
(* make one slug.                                                          *)
EXTENDS Venues

Rec(f) == [fp |-> f, feed |-> "feed"]
Ev(f) == [fp |-> f, group |-> "linux", start |-> 9, recs |-> <<Rec(f)>>]

MCBatches == {<<Ev("a"), Ev("b")>>, <<Ev("b"), Ev("a")>>, <<Ev("b")>>}

MCRegistries == {[groups |-> {"linux"}, verified |-> {"linux"}, feeds |-> {"feed"}]}

MCVenueOf == [a |-> [name |-> "Sesh Coworking", address |-> "2808 Caroline"],
              b |-> [name |-> "SESH coworking", address |-> ""]]
MCSlugOf == [n \in {"Sesh Coworking", "SESH coworking"} |-> "sesh-coworking"]
MCCuratedBy == [reg \in MCRegistries |-> <<>>]
=============================================================================
