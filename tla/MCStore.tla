------------------------------ MODULE MCStore ------------------------------
(* The instance of Store that TLC checks: three records, two groups and    *)
(* every batch of at most MaxBatch events normalize could make of them.    *)
EXTENDS Store, SequencesExt

CONSTANTS f1, f2, f3, g1, g2, ion, MaxBatch, MaxRecords

MCFps == {f1, f2, f3}
MCGroups == {g1, g2}
MCFeeds == {ion}

Orders == {s \in UNION {[1 .. n -> MCFps] : n \in 1 .. MaxRecords} :
             \A i, j \in DOMAIN s : s[i] = s[j] => i = j}

Meeting(g, s) ==
    [fp |-> s[1], group |-> g, start |-> 1,
     recs |-> [i \in DOMAIN s |-> [fp |-> s[i], feed |-> ion]]]

(* A batch says at most MaxRecords records, and may say one twice, of one  *)
(* group.                                                                  *)
MCBatches ==
    {b \in UNION {[1 .. n -> {Meeting(g, s) : g \in MCGroups, s \in Orders}] : n \in 0 .. MaxBatch} :
        /\ FoldFunction(+, 0, [i \in DOMAIN b |-> Len(b[i].recs)]) <= MaxRecords
        /\ \A i, j \in DOMAIN b :
              Fingerprints(b[i]) \cap Fingerprints(b[j]) # {} => b[i].group = b[j].group}

MCRegistries ==
    {[groups |-> MCGroups, verified |-> {g1}, feeds |-> MCFeeds],
     [groups |-> {g1}, verified |-> {}, feeds |-> {}]}

Symmetry == Permutations(MCFps)

=============================================================================
