------------------------------ MODULE Registry ------------------------------
(***************************************************************************)
(* internal/registry: data/venues and data/groups, validated and read in   *)
(* the order of their filenames, and what normalize.New makes of them.     *)
(*                                                                         *)
(* A file is [slug, decodes, name, aliases, ...]; decodes is FALSE of what *)
(* decodeDir leaves out: no .yaml file, no slug, empty, or not strictly    *)
(* readable.  A group's file also has venue (its default one, or blank),   *)
(* signed ([by, at]: "" or a value; Garbled: no date) and sources, a       *)
(* sequence of [kind, url, priority].  Names are as FoldName leaves them;  *)
(* Blank is one that is missing.                                           *)
(***************************************************************************)
EXTENDS Integers, SequencesExt, FiniteSetsExt

CONSTANTS Kinds, HttpsUrls    \* the feed kinds, and the absolute https URLs

Blank == <<>>
Garbled == "garbled"

Decoded(files) == SelectSeq(files, LAMBDA f : f.decodes)

NamesShown(f) == ({f.name} \cup ToSet(f.aliases)) \ {Blank}

(* Every name a file answers to, its slug among them.                      *)
NamesOf(f) == ({f.slug, f.name} \cup ToSet(f.aliases)) \ {Blank}

NamesClaimedTwice(files) ==
    \E i, j \in DOMAIN files : i < j /\ NamesShown(files[i]) \cap NamesShown(files[j]) # {}

(* claimNames: of two files that claim one name the later is a problem.    *)
ClaimedTwice(files) ==
    \E i, j \in DOMAIN files : i < j /\ NamesOf(files[i]) \cap NamesOf(files[j]) # {}

(* The sources that get as far as claiming their URL, each by the place of *)
(* its file and its place in the file.                                     *)
Claims(groups) ==
    UNION {{<<i, k>> : k \in DOMAIN groups[i].sources} : i \in DOMAIN groups}

Claimed(groups, c) == groups[c[1]].sources[c[2]]

Ingestible(source) == source.kind \in Kinds /\ source.url \in HttpsUrls

(* "it would be ingested twice"                                            *)
FedTwice(groups) ==
    \E b, c \in Claims(groups) :
        b # c /\ Claimed(groups, b).url = Claimed(groups, c).url

HalfSigned(g) == g.signed.at = Garbled \/ (g.signed.by # "" /\ g.signed.at = "")

(* Load collects the problems of every file before it refuses the whole.   *)
Accepted(dir) ==
    LET venues == Decoded(dir.venues)
        groups == Decoded(dir.groups)
    IN  /\ venues = dir.venues /\ groups = dir.groups
        /\ groups # <<>>
        /\ \A f \in ToSet(venues) \cup ToSet(groups) : f.name # Blank
        /\ ~ClaimedTwice(venues) /\ ~ClaimedTwice(groups)
        /\ \A g \in ToSet(groups) :
              /\ ~HalfSigned(g)
              /\ g.venue # Blank => \E v \in ToSet(venues) : v.slug = g.venue
              /\ \A s \in ToSet(g.sources) : Ingestible(s)
        /\ ~FedTwice(groups)

----------------------------------------------------------------------------
(* New: a name two entries claim belongs to the first, in file order.      *)

FirstClaim(files) ==
    [n \in UNION {NamesOf(f) : f \in ToSet(files)} |->
        files[Min({i \in DOMAIN files : n \in NamesOf(files[i])})]]

(* The source of a URL is the last one listed: New's map is overwritten.   *)
Claimant(groups, u) ==
    LET claims == {c \in Claims(groups) : Claimed(groups, c).url = u}
    IN  CHOOSE c \in claims :
            \A b \in claims : b[1] < c[1] \/ (b[1] = c[1] /\ b[2] <= c[2])

(* The registry as Normalize reads it.                                     *)
New(dir) ==
    LET groups == dir.groups
        claimed == FirstClaim(groups)
        places == FirstClaim(dir.venues)
        urls == {Claimed(groups, c).url : c \in Claims(groups)}
        homed == {g \in ToSet(groups) : g.venue \in DOMAIN places}
    IN  [groups   |-> {g.slug : g \in ToSet(groups)},
         owner    |-> [u \in urls |-> groups[Claimant(groups, u)[1]].slug],
         kind     |-> [u \in urls |-> Claimed(groups, Claimant(groups, u)).kind],
         priority |-> [u \in urls |-> Claimed(groups, Claimant(groups, u)).priority],
         named    |-> [n \in DOMAIN claimed |-> claimed[n].slug],
         curated  |-> [n \in DOMAIN places |-> places[n].name],
         home     |-> [s \in {g.slug : g \in homed} |->
                         places[(CHOOSE g \in homed : g.slug = s).venue].name]]
=============================================================================
