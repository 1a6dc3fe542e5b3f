------------------------------- MODULE MCSync -------------------------------
(***************************************************************************)
(* The Ion's calendar lists two meetings of the Houston Linux group, whose *)
(* own calendar lists one of them.  The two records of that meeting move    *)
(* between two instants on their own; the other meeting is at the later.   *)
(***************************************************************************)
EXTENDS Sync, FiniteSetsExt, TLC

CONSTANT Instants

MCGroups == {"hlug", "ion"}
MCFeeds == {"hlug:feed", "ion:feed"}
MCSources == <<"ion:feed", "hlug:feed">>

MCCatalog ==
    [groups   |-> MCGroups,
     owner    |-> ("ion:feed" :> "ion" @@ "hlug:feed" :> "hlug"),
     kind     |-> ("ion:feed" :> "tribe" @@ "hlug:feed" :> "ics"),
     priority |-> ("ion:feed" :> 50 @@ "hlug:feed" :> 10),
     named    |-> ("Houston Linux" :> "hlug"),
     curated  |-> <<>>,
     home     |-> <<>>]

Sends(feed, uid, t) ==
    [feed |-> feed, uid |-> uid, start |-> t, venues |-> <<>>, text |-> "", virtual |-> FALSE,
     organizers |-> IF feed = "ion:feed" THEN <<"Houston Linux">> ELSE <<>>]

MCUpstream ==
    {Sends(s[1], s[2], t) : s \in {<<"ion:feed", 1>>, <<"hlug:feed", 3>>}, t \in Instants}
        \cup {Sends("ion:feed", 2, Max(Instants))}

(* What the Ion lists of its first meeting, then of its second.  Its pages *)
(* may bring a record again, as it was or as it is by then.                *)
Ion(uid, t) == Sends("ion:feed", uid, t)
Hlug(t) == Sends("hlug:feed", 3, t)

MCAnswers ==
    [feed \in MCFeeds |->
        LET t1 == Min(Instants)
            t2 == Max(Instants)
        IN  IF feed = "ion:feed"
            THEN {<<>>, <<Ion(1, t1)>>, <<Ion(1, t2)>>, <<Ion(2, t2)>>,
                  <<Ion(1, t1), Ion(2, t2)>>, <<Ion(1, t2), Ion(2, t2)>>,
                  <<Ion(1, t2), Ion(1, t2)>>, <<Ion(1, t1), Ion(1, t2)>>}
            ELSE {<<>>, <<Hlug(t1)>>, <<Hlug(t2)>>, <<Hlug(t1), Hlug(t2)>>}]

MCFps == {<<"tribe", 1>>, <<"tribe", 2>>, <<"ics", 3>>}

(* As first signed; one group unsigned and a record rejected; that group   *)
(* gone.                                                                   *)
AllSigned == [groups |-> MCGroups, verified |-> MCGroups, rejects |-> {}]
Withheld == [groups |-> MCGroups, verified |-> {"ion"}, rejects |-> {<<"tribe", 1>>}]
Deleted == [groups |-> {"ion"}, verified |-> {"ion"}, rejects |-> {}]

MCFiles == {AllSigned, Withheld, Deleted}

MCRegistries == {Mirrored(fl) : fl \in MCFiles}

(* Everything normalize can hand to the store: BatchesAssumption is what   *)
(* the store needs of it.                                                  *)
MCBatches == {Normalized(fl, answers) : fl \in MCFiles, answers \in Fetched}

=============================================================================
