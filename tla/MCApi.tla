-------------------------------- MODULE MCApi --------------------------------
(* One request beside up to two syncs.  The batches tell two meetings of   *)
(* one group apart, then merge them and add the first of a new group, so   *)
(* that a row goes and its id comes back.                                  *)
EXTENDS Api

Rec(f) == [fp |-> f, feed |-> "feed"]
Ev(f, g, t, recs) == [fp |-> f, group |-> g, start |-> t, recs |-> recs]

MCBatches == {
    <<Ev("a", "linux", 9, <<Rec("a")>>), Ev("b", "linux", 9, <<Rec("b")>>)>>,
    <<Ev("a", "linux", 9, <<Rec("a"), Rec("b")>>), Ev("c", "rust", 9, <<Rec("c")>>)>>}

MCRegistries == {
    [groups |-> {"linux"}, verified |-> {"linux"}, feeds |-> {"feed"}],
    [groups |-> {"linux", "rust"}, verified |-> {"linux", "rust"}, feeds |-> {"feed"}]}

(* The house is discovered, with the address a feed gives it, by a run     *)
(* whose registry does not curate it yet.                                  *)
MCVenueOf == [a |-> [name |-> "House", address |-> "fed"],
              b |-> [name |-> "", address |-> ""],
              c |-> [name |-> "House", address |-> ""]]

MCSlugOf == [House |-> "house"]

MCCuratedBy ==
    [reg \in MCRegistries |-> IF reg.groups = {"linux"} THEN <<>>
                              ELSE <<[slug |-> "house", name |-> "House", address |-> "curated"]>>]
=============================================================================
