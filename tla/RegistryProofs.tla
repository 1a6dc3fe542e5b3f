--------------------------- MODULE RegistryProofs ---------------------------
(* Registry, proved for any directory of files: one that loads means the   *)
(* same in whatever order its files are read.  And what the records of     *)
(* MCNormalize come to, proved for runs of any length.                     *)
EXTENDS MCNormalize, NormalizeProofs

----------------------------------------------------------------------------
(* Lists of files                                                          *)

ListOf(s) == s \in Seq(ToSet(s))

(* What decodeDir hands on: files that have a slug.                        *)
Directory(d) ==
    /\ ListOf(d.venues) /\ ListOf(d.groups)
    /\ \A f \in ToSet(d.venues) \cup ToSet(d.groups) : f.slug # Blank
    /\ \A g \in ToSet(d.groups) : DOMAIN g.sources \subseteq Nat

LEMMA ListParts ==
    ASSUME NEW s, ListOf(s)
    PROVE  /\ Len(s) \in Nat /\ DOMAIN s = 1 .. Len(s)
           /\ \A x : x \in ToSet(s) <=> \E i \in DOMAIN s : s[i] = x
  BY DEF ListOf, ToSet

LEMMA ReverseOf ==
    ASSUME NEW s, ListOf(s)
    PROVE  /\ ListOf(Reverse(s)) /\ DOMAIN Reverse(s) = DOMAIN s /\ ToSet(Reverse(s)) = ToSet(s)
           /\ \A i \in DOMAIN s : /\ Len(s) - i + 1 \in DOMAIN s
                                  /\ Reverse(s)[i] = s[Len(s) - i + 1]
                                  /\ Reverse(s)[Len(s) - i + 1] = s[i]
  <1> DEFINE L == Len(s)
             r == Reverse(s)
  <1>1. L \in Nat /\ DOMAIN s = 1 .. L /\ \A x : x \in ToSet(s) <=> \E i \in DOMAIN s : s[i] = x
    BY ListParts
  <1>2. r = [i \in 1 .. L |-> s[L - i + 1]]
    BY DEF Reverse
  <1> HIDE DEF L, r
  <1>3. \A i \in 1 .. L : L - i + 1 \in 1 .. L /\ L - (L - i + 1) + 1 = i
    BY <1>1
  <1>4. DOMAIN r = 1 .. L /\ \A i \in 1 .. L : r[i] = s[L - i + 1] /\ r[L - i + 1] = s[i]
    BY <1>2, <1>3
  <1>5. ToSet(r) = ToSet(s)
    <2>1. \A x : x \in ToSet(r) <=> \E i \in 1 .. L : r[i] = x
      BY <1>4 DEF ToSet
    <2> QED
      BY <1>1, <1>3, <1>4, <2>1
  <1>6. \A i \in 1 .. L : r[i] \in ToSet(r)
    BY <1>4 DEF ToSet
  <1>7. r \in Seq(ToSet(r))
    <2>1. r = [i \in 1 .. L |-> r[i]]
      BY <1>2, <1>4
    <2>2. r \in [1 .. L -> ToSet(r)]
      BY <1>6, <2>1
    <2> QED
      BY <1>1, <2>2
  <1> QED
    BY <1>1, <1>3, <1>4, <1>5, <1>7 DEF ListOf, L, r

----------------------------------------------------------------------------
(* Names                                                                   *)

LEMMA NamedOnce ==
    ASSUME NEW files, ListOf(files), ~ ClaimedTwice(files),
           NEW i \in DOMAIN files, NEW j \in DOMAIN files,
           NEW n, n \in NamesOf(files[i]), n \in NamesOf(files[j])
    PROVE  i = j
  <1>1. i \in Int /\ j \in Int
    BY ListParts
  <1>2. ~ (i < j) /\ ~ (j < i)
    BY DEF ClaimedTwice
  <1> QED
    BY <1>1, <1>2

LEMMA FirstClaimIs ==
    ASSUME NEW files, ListOf(files), ~ ClaimedTwice(files),
           NEW i \in DOMAIN files, NEW n \in NamesOf(files[i])
    PROVE  n \in DOMAIN FirstClaim(files) /\ FirstClaim(files)[n] = files[i]
  <1> DEFINE named == {j \in DOMAIN files : n \in NamesOf(files[j])}
             claims == UNION {NamesOf(f) : f \in ToSet(files)}
  <1>1. n \in claims
    BY ListParts
  <1>2. FirstClaim(files)[n] = files[Min(named)] /\ DOMAIN FirstClaim(files) = claims
    BY <1>1 DEF FirstClaim
  <1>3. named = {i}
    BY NamedOnce
  <1>4. Min(named) = i
    <2>1. named \in SUBSET Nat /\ named # {}
      BY <1>3, ListParts
    <2>2. Min(named) \in named
      BY <2>1, MinIsLeast
    <2> QED
      BY <1>3, <2>2
  <1> QED
    BY <1>1, <1>2, <1>4

LEMMA ClaimedTwiceBack ==
    ASSUME NEW files, ListOf(files), ~ ClaimedTwice(files)
    PROVE  ~ ClaimedTwice(Reverse(files))
  <1> DEFINE r == Reverse(files)
             L == Len(files)
  <1> SUFFICES ASSUME NEW i \in DOMAIN r, NEW j \in DOMAIN r, i < j,
                      NamesOf(r[i]) \cap NamesOf(r[j]) # {}
               PROVE  FALSE
    BY DEF ClaimedTwice
  <1>1. PICK n : n \in NamesOf(r[i]) /\ n \in NamesOf(r[j])
    OBVIOUS
  <1>2. /\ L \in Nat /\ i \in Int /\ j \in Int
        /\ L - i + 1 \in DOMAIN files /\ L - j + 1 \in DOMAIN files
        /\ r[i] = files[L - i + 1] /\ r[j] = files[L - j + 1]
    BY ReverseOf, ListParts
  <1>3. L - i + 1 = L - j + 1
    BY <1>1, <1>2, NamedOnce
  <1> QED
    BY <1>2, <1>3

LEMMA FirstClaimBack ==
    ASSUME NEW files, ListOf(files), ~ ClaimedTwice(files)
    PROVE  FirstClaim(Reverse(files)) = FirstClaim(files)
  <1> DEFINE r == Reverse(files)
             claims == UNION {NamesOf(f) : f \in ToSet(files)}
             F == FirstClaim(files)
             G == FirstClaim(r)
  <1>1. ListOf(r) /\ ~ ClaimedTwice(r) /\ ToSet(r) = ToSet(files)
    BY ReverseOf, ClaimedTwiceBack
  <1>2. F = [n \in claims |-> F[n]] /\ G = [n \in claims |-> G[n]]
    BY <1>1 DEF FirstClaim
  <1>3. ASSUME NEW n \in claims
        PROVE  F[n] = G[n]
    <2>1. PICK f \in ToSet(files) : n \in NamesOf(f)
      OBVIOUS
    <2>2. PICK i \in DOMAIN files : files[i] = f
      BY ListParts
    <2>3. PICK j \in DOMAIN r : r[j] = f
      BY <1>1, ListParts
    <2>4. F[n] = files[i]
      BY <2>1, <2>2, FirstClaimIs
    <2>5. G[n] = r[j]
      BY <1>1, <2>1, <2>3, FirstClaimIs
    <2> QED
      BY <2>2, <2>3, <2>4, <2>5
  <1> HIDE DEF F, G, claims
  <1>4. F = G
    BY <1>2, <1>3
  <1> QED
    BY <1>4 DEF F, G

----------------------------------------------------------------------------
(* Sources                                                                 *)

LEMMA ClaimsAre ==
    ASSUME NEW groups
    PROVE  \A c : c \in Claims(groups) <=>
                     \E i \in DOMAIN groups : \E k \in DOMAIN groups[i].sources : c = <<i, k>>
  BY DEF Claims

LEMMA ClaimantIs ==
    ASSUME NEW groups, ListOf(groups), ~ FedTwice(groups), NEW i \in DOMAIN groups,
           DOMAIN groups[i].sources \subseteq Nat, NEW k \in DOMAIN groups[i].sources
    PROVE  Claimant(groups, groups[i].sources[k].url) = <<i, k>>
  <1> DEFINE u == groups[i].sources[k].url
             c == <<i, k>>
             claims == {b \in Claims(groups) : Claimed(groups, b).url = u}
  <1>1. c \in Claims(groups) /\ Claimed(groups, c) = groups[i].sources[k]
    BY ClaimsAre DEF Claimed
  <1>2. claims = {c}
    BY <1>1 DEF FedTwice
  <1>3. c[1] = i /\ c[2] = k /\ k \in Nat
    OBVIOUS
  <1> HIDE DEF c
  <1>4. \A x : x = (CHOOSE b \in {c} : \A a \in {c} : a[1] < b[1] \/ (a[1] = b[1] /\ a[2] <= b[2])) => x = c
    BY <1>3
  <1>5. Claimant(groups, u) = CHOOSE b \in claims : \A a \in claims : a[1] < b[1] \/ (a[1] = b[1] /\ a[2] <= b[2])
    BY DEF Claimant
  <1> QED
    BY <1>2, <1>4, <1>5 DEF c

(* The claims of the files read backwards are the same ones, elsewhere.    *)
LEMMA ClaimsBack ==
    ASSUME NEW groups, ListOf(groups),
           NEW i \in DOMAIN groups, NEW k \in DOMAIN groups[i].sources
    PROVE  LET j == Len(groups) - i + 1 IN
           /\ <<j, k>> \in Claims(Reverse(groups))
           /\ Claimed(Reverse(groups), <<j, k>>) = Claimed(groups, <<i, k>>)
           /\ Reverse(groups)[j] = groups[i]
  <1> DEFINE j == Len(groups) - i + 1
  <1>1. j \in DOMAIN Reverse(groups) /\ Reverse(groups)[j] = groups[i]
    BY ReverseOf
  <1> HIDE DEF j
  <1>2. <<j, k>> \in Claims(Reverse(groups))
    BY <1>1, ClaimsAre
  <1>3. Claimed(Reverse(groups), <<j, k>>) = Claimed(groups, <<i, k>>)
    BY <1>1 DEF Claimed
  <1> QED
    BY <1>1, <1>2, <1>3 DEF j

LEMMA FedTwiceBack ==
    ASSUME NEW groups, ListOf(groups), ~ FedTwice(groups)
    PROVE  ~ FedTwice(Reverse(groups))
  <1> DEFINE r == Reverse(groups)
             L == Len(groups)
  <1> SUFFICES ASSUME NEW b \in Claims(r), NEW c \in Claims(r), b # c,
                      Claimed(r, b).url = Claimed(r, c).url
               PROVE  FALSE
    BY DEF FedTwice
  <1>a. PICK i \in DOMAIN r : \E k \in DOMAIN r[i].sources : b = <<i, k>>
    BY ClaimsAre
  <1>1. PICK k \in DOMAIN r[i].sources : b = <<i, k>>
    BY <1>a
  <1>b. PICK j \in DOMAIN r : \E l \in DOMAIN r[j].sources : c = <<j, l>>
    BY ClaimsAre
  <1>2. PICK l \in DOMAIN r[j].sources : c = <<j, l>>
    BY <1>b
  <1>3. /\ L \in Nat /\ i \in Int /\ j \in Int
        /\ L - i + 1 \in DOMAIN groups /\ L - j + 1 \in DOMAIN groups
        /\ r[i] = groups[L - i + 1] /\ r[j] = groups[L - j + 1]
    BY ReverseOf, ListParts
  <1> DEFINE m == L - i + 1
             n == L - j + 1
  <1>4. m \in DOMAIN groups /\ n \in DOMAIN groups /\ r[i] = groups[m] /\ r[j] = groups[n]
    BY <1>3
  <1>5. m = n => i = j
    BY <1>3
  <1> HIDE DEF m, n, r
  <1>6. <<m, k>> \in Claims(groups) /\ <<n, l>> \in Claims(groups) /\ <<m, k>> # <<n, l>>
    BY <1>1, <1>2, <1>4, <1>5, ClaimsAre
  <1>7. Claimed(groups, <<m, k>>).url = Claimed(groups, <<n, l>>).url
    BY <1>1, <1>2, <1>4 DEF Claimed
  <1> QED
    BY <1>6, <1>7 DEF FedTwice

Urls(groups) == {Claimed(groups, c).url : c \in Claims(groups)}

LEMMA UrlsBack ==
    ASSUME NEW groups, ListOf(groups)
    PROVE  Urls(Reverse(groups)) = Urls(groups)
  <1>1. ASSUME NEW files, ListOf(files)
        PROVE  \A u : u \in Urls(files) <=>
                         \E g \in ToSet(files) : \E k \in DOMAIN g.sources : u = g.sources[k].url
    <2>1. \A u : u \in Urls(files) <=>
             \E i \in DOMAIN files : \E k \in DOMAIN files[i].sources : u = files[i].sources[k].url
      <3>1. \A i, k : Claimed(files, <<i, k>>).url = files[i].sources[k].url
        BY DEF Claimed
      <3>2. \A c : c \in Claims(files) <=>
               \E i \in DOMAIN files : \E k \in DOMAIN files[i].sources : c = <<i, k>>
        BY ClaimsAre
      <3>3. \A u : u \in Urls(files) <=> \E c \in Claims(files) : u = Claimed(files, c).url
        BY DEF Urls
      <3>4. ASSUME NEW u \in Urls(files)
            PROVE  \E i \in DOMAIN files : \E k \in DOMAIN files[i].sources : u = files[i].sources[k].url
        <4>1. PICK c \in Claims(files) : u = Claimed(files, c).url
          BY <3>3
        <4>2. PICK i \in DOMAIN files : \E k \in DOMAIN files[i].sources : c = <<i, k>>
          BY <3>2
        <4>3. PICK k \in DOMAIN files[i].sources : c = <<i, k>>
          BY <4>2
        <4> QED
          BY <3>1, <4>1, <4>3
      <3>5. ASSUME NEW i \in DOMAIN files, NEW k \in DOMAIN files[i].sources
            PROVE  files[i].sources[k].url \in Urls(files)
        <4>1. <<i, k>> \in Claims(files)
          BY <3>2
        <4> QED
          BY <3>1, <3>3, <4>1
      <3> QED
        BY <3>4, <3>5
    <2> QED
      BY <1>1, <2>1, ListParts
  <1>2. ListOf(Reverse(groups)) /\ ToSet(Reverse(groups)) = ToSet(groups)
    BY ReverseOf
  <1>3. \A u : u \in Urls(Reverse(groups)) <=> u \in Urls(groups)
    BY <1>1, <1>2
  <1> QED
    BY <1>3

(* The group and the source of a URL are the same in either order.         *)
LEMMA ClaimantBack ==
    ASSUME NEW groups, ListOf(groups), ~ FedTwice(groups),
           \A g \in ToSet(groups) : DOMAIN g.sources \subseteq Nat,
           NEW u \in Urls(groups)
    PROVE  LET c == Claimant(groups, u)
               b == Claimant(Reverse(groups), u)
           IN  /\ Reverse(groups)[b[1]] = groups[c[1]]
               /\ Claimed(Reverse(groups), b) = Claimed(groups, c)
  <1>a. PICK i \in DOMAIN groups : \E k \in DOMAIN groups[i].sources : u = groups[i].sources[k].url
    BY ClaimsAre DEF Urls, Claimed
  <1>1. PICK k \in DOMAIN groups[i].sources : u = groups[i].sources[k].url
    BY <1>a
  <1>2. DOMAIN groups[i].sources \subseteq Nat
    BY ListParts
  <1>3. Claimant(groups, u) = <<i, k>>
    BY <1>1, <1>2, ClaimantIs
  <1> DEFINE r == Reverse(groups)
             j == Len(groups) - i + 1
  <1>4. /\ ListOf(r) /\ ~ FedTwice(r) /\ j \in DOMAIN r /\ r[j] = groups[i]
        /\ Claimed(r, <<j, k>>) = Claimed(groups, <<i, k>>)
    BY ReverseOf, FedTwiceBack, ClaimsBack
  <1> HIDE DEF r, j
  <1>5. Claimant(r, r[j].sources[k].url) = <<j, k>>
    BY <1>2, <1>4, ClaimantIs
  <1>6. Claimant(r, u) = <<j, k>>
    BY <1>1, <1>4, <1>5
  <1> QED
    BY <1>3, <1>4, <1>6 DEF r

----------------------------------------------------------------------------
(* The registry                                                            *)

Homed(d) == {g \in ToSet(d.groups) : g.venue \in DOMAIN FirstClaim(d.venues)}
Home(d) == [s \in {g.slug : g \in Homed(d)} |->
              FirstClaim(d.venues)[(CHOOSE g \in Homed(d) : g.slug = s).venue].name]

LEMMA NewIs ==
    ASSUME NEW d
    PROVE  New(d) =
      [groups   |-> {g.slug : g \in ToSet(d.groups)},
       owner    |-> [u \in Urls(d.groups) |-> d.groups[Claimant(d.groups, u)[1]].slug],
       kind     |-> [u \in Urls(d.groups) |-> Claimed(d.groups, Claimant(d.groups, u)).kind],
       priority |-> [u \in Urls(d.groups) |-> Claimed(d.groups, Claimant(d.groups, u)).priority],
       named    |-> [n \in DOMAIN FirstClaim(d.groups) |-> FirstClaim(d.groups)[n].slug],
       curated  |-> [n \in DOMAIN FirstClaim(d.venues) |-> FirstClaim(d.venues)[n].name],
       home     |-> Home(d)]
  BY DEF New, Urls, Homed, Home

(* The parts of the verdict that the reading of a directory rests on.      *)
LEMMA AcceptedParts ==
    ASSUME NEW d, Accepted(d)
    PROVE  /\ ~ ClaimedTwice(d.venues) /\ ~ ClaimedTwice(d.groups) /\ ~ FedTwice(d.groups)
           /\ Decoded(d.venues) = d.venues /\ Decoded(d.groups) = d.groups
  BY DEF Accepted

LEMMA HomeIs ==
    ASSUME NEW d, Directory(d), Accepted(d),
           NEW g \in ToSet(d.groups), NEW v \in ToSet(d.venues), g.venue = v.slug
    PROVE  g.slug \in DOMAIN Home(d) /\ Home(d)[g.slug] = v.name
  <1> DEFINE places == FirstClaim(d.venues)
  <1>1. /\ ListOf(d.venues) /\ ListOf(d.groups) /\ v.slug # Blank /\ g.slug # Blank
        /\ ~ ClaimedTwice(d.venues) /\ ~ ClaimedTwice(d.groups)
    BY AcceptedParts DEF Directory
  <1>2. PICK j \in DOMAIN d.venues : d.venues[j] = v
    BY <1>1, ListParts
  <1>3. v.slug \in NamesOf(v) /\ g.slug \in NamesOf(g)
    BY <1>1 DEF NamesOf
  <1>4. g.venue \in DOMAIN places /\ places[g.venue] = v
    BY <1>1, <1>2, <1>3, FirstClaimIs
  <1>5. g \in Homed(d)
    BY <1>4 DEF Homed
  <1>6. ASSUME NEW h \in Homed(d), h.slug = g.slug
        PROVE  h = g
    <2>1. h \in ToSet(d.groups)
      BY DEF Homed
    <2>2. PICK i \in DOMAIN d.groups : d.groups[i] = g
      BY <1>1, ListParts
    <2>3. PICK k \in DOMAIN d.groups : d.groups[k] = h
      BY <1>1, <2>1, ListParts
    <2>4. h.slug \in NamesOf(h)
      BY <1>1, <1>6 DEF NamesOf
    <2>5. i = k
      BY <1>1, <1>3, <1>6, <2>2, <2>3, <2>4, NamedOnce
    <2> QED
      BY <2>2, <2>3, <2>5
  <1>7. (CHOOSE h \in Homed(d) : h.slug = g.slug) = g
    BY <1>5, <1>6
  <1> QED
    BY <1>4, <1>5, <1>7 DEF Home

(* A directory that loads means the same read backwards, and each group's  *)
(* default venue is the one whose file it names: no name and no feed has   *)
(* two owners for the order to choose from (Load, New).                    *)
THEOREM FilesInAnyOrder ==
    ASSUME NEW d, Directory(d), Accepted(d)
    PROVE  /\ New(Backwards(d)) = New(d)
           /\ \A g \in ToSet(d.groups), v \in ToSet(d.venues) :
                 g.venue = v.slug => New(d).home[g.slug] = v.name
  <1> DEFINE b == Backwards(d)
  <1>1. /\ ListOf(d.venues) /\ ListOf(d.groups)
        /\ ~ ClaimedTwice(d.venues) /\ ~ ClaimedTwice(d.groups) /\ ~ FedTwice(d.groups)
        /\ \A g \in ToSet(d.groups) : DOMAIN g.sources \subseteq Nat
    BY AcceptedParts DEF Directory
  <1>2. b.venues = Reverse(d.venues) /\ b.groups = Reverse(d.groups)
    BY DEF Backwards
  <1>3. ToSet(b.groups) = ToSet(d.groups)
    BY <1>1, <1>2, ReverseOf
  <1>4. FirstClaim(b.venues) = FirstClaim(d.venues) /\ FirstClaim(b.groups) = FirstClaim(d.groups)
    BY <1>1, <1>2, FirstClaimBack
  <1>5. Home(b) = Home(d)
    BY <1>3, <1>4 DEF Home, Homed
  <1>6. Urls(b.groups) = Urls(d.groups)
    BY <1>1, <1>2, UrlsBack
  <1>7. \A u \in Urls(d.groups) :
           /\ b.groups[Claimant(b.groups, u)[1]] = d.groups[Claimant(d.groups, u)[1]]
           /\ Claimed(b.groups, Claimant(b.groups, u)) = Claimed(d.groups, Claimant(d.groups, u))
    BY <1>1, <1>2, ClaimantBack
  <1> HIDE DEF b
  <1>8. New(b) = New(d)
    BY <1>3, <1>4, <1>5, <1>6, <1>7, NewIs
  <1>9. New(d).home = Home(d)
    BY NewIs
  <1> QED
    BY <1>8, <1>9, HomeIs DEF b

----------------------------------------------------------------------------
(* The directories of MCNormalize                                          *)

LEMMA ShortLists ==
    ASSUME NEW x, NEW y
    PROVE  /\ ListOf(<<>>) /\ ListOf(<<x>>) /\ ListOf(<<x, y>>)
           /\ ToSet(<<>>) = {} /\ ToSet(<<x>>) = {x} /\ ToSet(<<x, y>>) = {x, y}
  <1>1. ToSet(<<>>) = {}
    BY DEF ToSet
  <1>2. ToSet(<<x>>) = {x}
    BY DEF ToSet
  <1>3. ToSet(<<x, y>>) = {x, y}
    BY DEF ToSet
  <1> QED
    BY <1>1, <1>2, <1>3 DEF ListOf

LEMMA DirsRead ==
    ASSUME NEW d \in Dirs
    PROVE  Directory(d)
  <1>1. ASSUME NEW v, NEW w, NEW g, NEW h,
               d.venues = <<v>> \/ d.venues = <<v, w>>, d.groups = <<g, h>>,
               v.slug # Blank, w.slug # Blank, g.slug # Blank, h.slug # Blank,
               DOMAIN g.sources \subseteq Nat, DOMAIN h.sources \subseteq Nat
        PROVE  Directory(d)
    <2>a. ListOf(<<v>>) /\ ListOf(<<v, w>>) /\ ToSet(<<v>>) = {v} /\ ToSet(<<v, w>>) = {v, w}
      BY ShortLists
    <2>b. ListOf(<<g, h>>) /\ ToSet(<<g, h>>) = {g, h}
      BY ShortLists
    <2>1. ListOf(d.venues) /\ ToSet(d.venues) \subseteq {v, w}
      <3>1. CASE d.venues = <<v>>
        BY <2>a, <3>1
      <3>2. CASE d.venues = <<v, w>>
        BY <2>a, <3>2
      <3> QED
        BY <1>1, <3>1, <3>2
    <2>2. ListOf(d.groups) /\ ToSet(d.groups) = {g, h}
      BY <1>1, <2>b
    <2>3. \A f \in ToSet(d.venues) \cup ToSet(d.groups) : f = v \/ f = w \/ f = g \/ f = h
      BY <2>1, <2>2
    <2>4. \A f \in ToSet(d.venues) \cup ToSet(d.groups) : f.slug # Blank
      BY <1>1, <2>3
    <2>5. \A f \in ToSet(d.groups) : DOMAIN f.sources \subseteq Nat
      BY <1>1, <2>2
    <2> QED
      BY <2>1, <2>2, <2>4, <2>5 DEF Directory
  <1>2. \A s : Slug(s) # Blank
    BY DEF Slug, Blank
  <1>3. \A venue : /\ Hlug(venue).slug = HLUG
                   /\ DOMAIN Hlug(venue).sources \subseteq Nat
                   /\ \A x : /\ [Hlug(venue) EXCEPT !.signed = x].slug = HLUG
                             /\ DOMAIN [Hlug(venue) EXCEPT !.signed = x].sources \subseteq Nat
    BY DEF Hlug, GroupFile
  <1>4. \A a, u : IonFile(a, u).slug = IonDistrict /\ DOMAIN IonFile(a, u).sources \subseteq Nat
    BY DEF IonFile, GroupFile
  <1>5. \A s, n, a, x : /\ VenueFile(s, n, a).slug = s
                        /\ [VenueFile(s, n, a) EXCEPT !.decodes = x].slug = s
    BY DEF VenueFile
  <1>6. CASE d = Standard
    <2>1. d.venues = <<VenueFile(Slug("ion"), Ion, <<TheIon>>)>>
      BY <1>6 DEF Standard
    <2>2. d.groups = <<Hlug(Slug("ion")), IonFile(<<>>, "ion:feed")>>
      BY <1>6 DEF Standard
    <2> QED
      BY <1>1, <1>2, <1>3, <1>4, <1>5, <2>1, <2>2 DEF HLUG, IonDistrict
  <1>7. CASE d # Standard
    <2>1. PICK e \in Edits : d = Edited(e)
      BY <1>7 DEF Dirs
    <2> DEFINE v == VenueFile(Slug("ion"), Ion, e.aliases)
               w == [VenueFile(Slug("cafe"), e.cafe, <<>>) EXCEPT !.decodes = e.readable]
               g == [Hlug(e.home) EXCEPT !.signed = e.signed]
               k == IonFile(e.others, e.url)
    <2>2. /\ v.slug # Blank /\ w.slug # Blank /\ g.slug # Blank /\ k.slug # Blank
          /\ DOMAIN g.sources \subseteq Nat /\ DOMAIN k.sources \subseteq Nat
      BY <1>2, <1>3, <1>4, <1>5 DEF HLUG, IonDistrict
    <2>3. d.venues = <<v, w>> /\ d.groups = <<g, k>>
      BY <2>1 DEF Edited
    <2> HIDE DEF v, w, g, k
    <2> QED
      BY <1>1, <2>2, <2>3
  <1> QED
    BY <1>6, <1>7

(* The registry is what the files make of it, and only one that loads is   *)
(* ever used.                                                              *)
Loads ==
    /\ dir \in Dirs
    /\ reg = IF Accepted(dir) THEN New(dir) ELSE Unloaded

LEMMA LoadsNext == Loads /\ [Next]_vars => Loads'
  BY DEF Loads, Next, Receive, vars

(* Whatever the feeds sent: the registry of a directory that loads is the  *)
(* same read backwards, with each group at home where its file says.       *)
THEOREM RegistryMeansOne == Spec => []OneMeaning
  <1>1. Init => Loads
    BY DEF Init, Loads
  <1>2. Loads => OneMeaning
    <2> SUFFICES ASSUME Loads, reg # Unloaded
                 PROVE  /\ reg = New(Backwards(dir))
                        /\ \A g \in ToSet(dir.groups), v \in ToSet(dir.venues) :
                              g.venue = v.slug => reg.home[g.slug] = v.name
      BY DEF OneMeaning
    <2>1. Accepted(dir) /\ reg = New(dir) /\ Directory(dir)
      BY DirsRead DEF Loads
    <2> QED
      BY <2>1, FilesInAnyOrder
  <1> QED
    BY <1>1, <1>2, LoadsNext, PTL DEF Spec

----------------------------------------------------------------------------
(* Its records and their registry                                          *)

LinuxFile == Hlug(Slug("ion"))
DistrictFile == IonFile(<<>>, "ion:feed")
Known == New(Standard)

LEMMA StandardFiles ==
    /\ Standard.groups = <<LinuxFile, DistrictFile>>
    /\ Standard.groups[1] = LinuxFile /\ Standard.groups[2] = DistrictFile
    /\ DOMAIN Standard.groups = 1 .. 2
    /\ LinuxFile.slug = HLUG /\ DistrictFile.slug = IonDistrict
    /\ LinuxFile.sources = <<Feed("ics", "hlug:feed", 10), Feed("ics", "meetup:feed", 10)>>
    /\ DistrictFile.sources = <<Feed("tribe", "ion:feed", 50)>>
    /\ NamesOf(LinuxFile) = {HLUG, HoustonLinux}
    /\ NamesOf(DistrictFile) = {IonDistrict, <<"Ion", " ", "District">>}
  <1>1. Standard.groups = <<LinuxFile, DistrictFile>>
    BY DEF Standard, LinuxFile, DistrictFile
  <1>2. /\ LinuxFile.slug = HLUG /\ DistrictFile.slug = IonDistrict
        /\ LinuxFile.sources = <<Feed("ics", "hlug:feed", 10), Feed("ics", "meetup:feed", 10)>>
        /\ DistrictFile.sources = <<Feed("tribe", "ion:feed", 50)>>
        /\ LinuxFile.name = HoustonLinux /\ DistrictFile.name = <<"Ion", " ", "District">>
        /\ LinuxFile.aliases = <<>> /\ DistrictFile.aliases = <<>>
    BY DEF LinuxFile, DistrictFile, Hlug, IonFile, GroupFile
  <1>3. ToSet(<<>>) = {}
    BY ShortLists
  <1>4. HLUG # Blank /\ HoustonLinux # Blank /\ IonDistrict # Blank /\ <<"Ion", " ", "District">> # Blank
    BY DEF HLUG, HoustonLinux, IonDistrict, Slug, Blank
  <1>5. /\ NamesOf(LinuxFile) = {HLUG, HoustonLinux}
        /\ NamesOf(DistrictFile) = {IonDistrict, <<"Ion", " ", "District">>}
    <2> HIDE DEF LinuxFile, DistrictFile
    <2>1. /\ NamesOf(LinuxFile) = ({HLUG, HoustonLinux} \cup {}) \ {Blank}
          /\ NamesOf(DistrictFile) = ({IonDistrict, <<"Ion", " ", "District">>} \cup {}) \ {Blank}
      BY <1>2, <1>3 DEF NamesOf
    <2> QED
      BY <1>4, <2>1
  <1> HIDE DEF LinuxFile, DistrictFile
  <1>6. /\ Standard.groups[1] = LinuxFile /\ Standard.groups[2] = DistrictFile
        /\ DOMAIN Standard.groups = 1 .. 2
    BY <1>1
  <1> QED
    BY <1>1, <1>2, <1>5, <1>6

Carried == {"ion:feed", "hlug:feed", "meetup:feed"}

LEMMA FeedKnown ==
    ASSUME Accepted(Standard),
           NEW i \in DOMAIN Standard.groups, NEW k \in DOMAIN Standard.groups[i].sources
    PROVE  LET u == Standard.groups[i].sources[k].url IN
           /\ u \in DOMAIN Known.owner
           /\ Known.owner[u] = Standard.groups[i].slug
           /\ Known.kind[u] = Standard.groups[i].sources[k].kind
           /\ Known.priority[u] = Standard.groups[i].sources[k].priority
  <1> DEFINE g == Standard.groups
             u == g[i].sources[k].url
  <1>1. Directory(Standard) /\ ~ FedTwice(g)
    BY DirsRead, AcceptedParts DEF Dirs
  <1>2. ListOf(g) /\ DOMAIN g[i].sources \subseteq Nat
    <2>1. ListOf(g)
      BY <1>1 DEF Directory
    <2> QED
      BY <1>1, <2>1, ListParts DEF Directory
  <1>3. Claimant(g, u) = <<i, k>>
    BY <1>1, <1>2, ClaimantIs
  <1>4. Claimed(g, <<i, k>>) = g[i].sources[k] /\ <<i, k>> \in Claims(g)
    BY ClaimsAre DEF Claimed
  <1>5. u \in Urls(g)
    BY <1>4 DEF Urls
  <1>6. /\ Known.owner = [x \in Urls(g) |-> g[Claimant(g, x)[1]].slug]
        /\ Known.kind = [x \in Urls(g) |-> Claimed(g, Claimant(g, x)).kind]
        /\ Known.priority = [x \in Urls(g) |-> Claimed(g, Claimant(g, x)).priority]
    BY NewIs DEF Known
  <1> HIDE DEF g, u
  <1>7. /\ u \in DOMAIN Known.owner
        /\ Known.owner[u] = g[Claimant(g, u)[1]].slug
        /\ Known.kind[u] = Claimed(g, Claimant(g, u)).kind
        /\ Known.priority[u] = Claimed(g, Claimant(g, u)).priority
    BY <1>5, <1>6
  <1> QED
    BY <1>3, <1>4, <1>7 DEF g, u

(* A file's place in the directory, and a feed's in the file.              *)
LEMMA FeedAt ==
    ASSUME Accepted(Standard), NEW f, NEW i, i \in DOMAIN Standard.groups, Standard.groups[i] = f,
           NEW k, k \in DOMAIN f.sources, NEW s, f.sources[k] = s
    PROVE  /\ s.url \in DOMAIN Known.owner /\ Known.owner[s.url] = f.slug
           /\ Known.kind[s.url] = s.kind /\ Known.priority[s.url] = s.priority
  BY FeedKnown

LEMMA FeedsKnown ==
    ASSUME Accepted(Standard)
    PROVE  /\ Carried \subseteq DOMAIN Known.owner
           /\ Known.owner["ion:feed"] = IonDistrict
           /\ Known.owner["hlug:feed"] = HLUG /\ Known.owner["meetup:feed"] = HLUG
           /\ \A u \in Carried : Known.priority[u] \in Int
  <1> DEFINE hlug == Feed("ics", "hlug:feed", 10)
             meetup == Feed("ics", "meetup:feed", 10)
             ion == Feed("tribe", "ion:feed", 50)
  <1>1. LinuxFile.sources = <<hlug, meetup>> /\ DistrictFile.sources = <<ion>>
    BY StandardFiles
  <1>2. /\ hlug.url = "hlug:feed" /\ hlug.priority = 10
        /\ meetup.url = "meetup:feed" /\ meetup.priority = 10
        /\ ion.url = "ion:feed" /\ ion.priority = 50
    BY DEF Feed
  <1>3. /\ 1 \in DOMAIN Standard.groups /\ 2 \in DOMAIN Standard.groups
        /\ Standard.groups[1] = LinuxFile /\ Standard.groups[2] = DistrictFile
        /\ LinuxFile.slug = HLUG /\ DistrictFile.slug = IonDistrict
    <2>1. DOMAIN Standard.groups = 1 .. 2
      BY StandardFiles
    <2>2. 1 \in DOMAIN Standard.groups /\ 2 \in DOMAIN Standard.groups
      BY <2>1
    <2> QED
      BY <2>2, StandardFiles
  <1> HIDE DEF hlug, meetup, ion
  <1>4. /\ 1 \in DOMAIN <<hlug, meetup>> /\ 2 \in DOMAIN <<hlug, meetup>>
        /\ <<hlug, meetup>>[1] = hlug /\ <<hlug, meetup>>[2] = meetup
    OBVIOUS
  <1>5. 1 \in DOMAIN <<ion>> /\ <<ion>>[1] = ion
    OBVIOUS
  <1>6. /\ 1 \in DOMAIN LinuxFile.sources /\ 2 \in DOMAIN LinuxFile.sources
        /\ LinuxFile.sources[1] = hlug /\ LinuxFile.sources[2] = meetup
    BY <1>1, <1>4
  <1>7. 1 \in DOMAIN DistrictFile.sources /\ DistrictFile.sources[1] = ion
    BY <1>1, <1>5
  <1>8. /\ hlug.url \in DOMAIN Known.owner /\ Known.owner[hlug.url] = LinuxFile.slug
        /\ Known.priority[hlug.url] = hlug.priority
    BY <1>3, <1>6, FeedAt
  <1>9. /\ meetup.url \in DOMAIN Known.owner /\ Known.owner[meetup.url] = LinuxFile.slug
        /\ Known.priority[meetup.url] = meetup.priority
    BY <1>3, <1>6, FeedAt
  <1>10. /\ ion.url \in DOMAIN Known.owner /\ Known.owner[ion.url] = DistrictFile.slug
         /\ Known.priority[ion.url] = ion.priority
    BY <1>3, <1>7, FeedAt
  <1> QED
    BY <1>2, <1>3, <1>8, <1>9, <1>10 DEF Carried

LEMMA NamesKnown ==
    ASSUME Accepted(Standard)
    PROVE  /\ Known.groups = {HLUG, IonDistrict}
           /\ HoustonLinux \in DOMAIN Known.named /\ Known.named[HoustonLinux] = HLUG
           /\ Ion \notin DOMAIN Known.named /\ <<"Nobody">> \notin DOMAIN Known.named
  <1> DEFINE g == Standard.groups
             F == FirstClaim(g)
  <1>1. ListOf(g) /\ ~ ClaimedTwice(g) /\ ToSet(g) = {LinuxFile, DistrictFile}
    <2>1. Directory(Standard) /\ ~ ClaimedTwice(g)
      BY DirsRead, AcceptedParts DEF Dirs
    <2>2. g = <<LinuxFile, DistrictFile>>
      BY StandardFiles
    <2>3. ToSet(<<LinuxFile, DistrictFile>>) = {LinuxFile, DistrictFile}
      BY ShortLists
    <2> QED
      BY <2>1, <2>2, <2>3 DEF Directory
  <1>2. Known.named = [n \in DOMAIN F |-> F[n].slug] /\ Known.groups = {f.slug : f \in ToSet(g)}
    BY NewIs DEF Known
  <1>3. DOMAIN F = NamesOf(LinuxFile) \cup NamesOf(DistrictFile)
    <2>1. DOMAIN F = UNION {NamesOf(f) : f \in ToSet(g)}
      BY DEF FirstClaim
    <2> QED
      BY <1>1, <2>1
  <1>4. HoustonLinux \in DOMAIN F /\ F[HoustonLinux] = LinuxFile
    <2>1. 1 \in DOMAIN g /\ g[1] = LinuxFile /\ HoustonLinux \in NamesOf(g[1])
      <3>1. g[1] = LinuxFile /\ DOMAIN g = 1 .. 2 /\ NamesOf(LinuxFile) = {HLUG, HoustonLinux}
        BY StandardFiles
      <3> HIDE DEF g
      <3>2. 1 \in DOMAIN g
        BY <3>1
      <3> QED
        BY <3>1, <3>2
    <2> QED
      BY <1>1, <2>1, FirstClaimIs
  <1> HIDE DEF g, F
  <1>5. DOMAIN F = {HLUG, HoustonLinux, IonDistrict, <<"Ion", " ", "District">>}
    BY <1>3, StandardFiles
  <1>6. /\ Ion \notin {HLUG, HoustonLinux, IonDistrict, <<"Ion", " ", "District">>}
        /\ <<"Nobody">> \notin {HLUG, HoustonLinux, IonDistrict, <<"Ion", " ", "District">>}
    BY DEF Ion, HLUG, HoustonLinux, IonDistrict, Slug
  <1>7. DOMAIN Known.named = DOMAIN F /\ Known.named[HoustonLinux] = HLUG
    BY <1>2, <1>4, StandardFiles
  <1>8. Known.groups = {HLUG, IonDistrict}
    <2>1. LinuxFile.slug = HLUG /\ DistrictFile.slug = IonDistrict
      BY StandardFiles
    <2>2. Known.groups = {f.slug : f \in {LinuxFile, DistrictFile}}
      BY <1>1, <1>2
    <2> HIDE DEF LinuxFile, DistrictFile, Known
    <2> QED
      BY <2>1, <2>2
  <1> QED
    BY <1>4, <1>5, <1>6, <1>7, <1>8

Record == RawEvent \cup {Telling(m) : m \in AllMeant}

(* What a feed sent: a number for an id, organizers from the venue's       *)
(* calendar alone.                                                         *)
Sent(r) ==
    /\ r.uid \in Int /\ r.feed \in Carried
    /\ \/ r.feed = "ion:feed" /\ r.organizers = <<Ion>>
       \/ r.feed = "ion:feed" /\ r.organizers = <<<<"Nobody">>, HoustonLinux>>
       \/ r.feed # "ion:feed" /\ r.organizers = <<>>

LEMMA RecordsSent ==
    ASSUME NEW r \in Record
    PROVE  Sent(r)
  <1>1. CASE r \in RawEvent
    <2>1. PICK s \in Says, u \in 1 .. MaxUid, t \in 1 .. 2, d \in Detail :
             r = [feed |-> s[1], organizers |-> s[2], uid |-> u, start |-> t,
                  venues |-> d.venues, text |-> d.text, virtual |-> d.venues = InCafe]
      BY <1>1 DEF RawEvent
    <2>2. r.feed = s[1] /\ r.organizers = s[2] /\ r.uid = u /\ u \in Int
      BY <2>1, BoundsAssumption
    <2>3. \/ s[1] = "ion:feed" /\ s[2] = <<Ion>>
          \/ s[1] = "ion:feed" /\ s[2] = <<<<"Nobody">>, HoustonLinux>>
          \/ s[1] = "hlug:feed" /\ s[2] = <<>>
          \/ s[1] = "meetup:feed" /\ s[2] = <<>>
      BY <2>1 DEF Says
    <2> QED
      BY <2>2, <2>3 DEF Sent, Carried
  <1>2. CASE r \notin RawEvent
    <2>1. PICK m \in AllMeant : r = Telling(m)
      BY <1>2 DEF Record
    <2>2. r.feed = "ion:feed" /\ r.organizers = <<Ion>> /\ r.uid = 1
      BY <2>1 DEF Telling
    <2> QED
      BY <2>2 DEF Sent, Carried
  <1> QED
    BY <1>1, <1>2

(* The first organizer that is known, else the feed's owner, is whom the   *)
(* files make it out to be.                                                *)
LEMMA WhoseItIs ==
    ASSUME Accepted(Standard), NEW r, Sent(r)
    PROVE  /\ GroupFor(Known, r) = Whose(r) /\ Resolvable(Known, r)
           /\ Known.priority[r.feed] \in Int
  <1> DEFINE known == {i \in DOMAIN r.organizers : r.organizers[i] \in DOMAIN Known.named}
  <1>1. GroupFor(Known, r) = IF known # {} THEN Known.named[r.organizers[Min(known)]]
                             ELSE Known.owner[r.feed]
    BY DEF GroupFor
  <1>2. Ion # HoustonLinux /\ <<"Nobody">> # HoustonLinux
    BY DEF Ion, HoustonLinux
  <1>3. r.feed \in DOMAIN Known.owner /\ r.feed \in Carried
    BY FeedsKnown DEF Sent
  <1>4. Whose(r) = IF r.feed # "ion:feed" \/ HoustonLinux \in ToSet(r.organizers)
                   THEN HLUG ELSE IonDistrict
    BY DEF Whose
  <1>5. CASE r.feed = "ion:feed" /\ r.organizers = <<Ion>>
    <2>1. known = {}
      BY <1>5, NamesKnown
    <2>2. HoustonLinux \notin ToSet(<<Ion>>)
      <3>1. ToSet(<<Ion>>) = {Ion}
        BY ShortLists
      <3> QED
        BY <1>2, <3>1
    <2> HIDE DEF known
    <2>3. GroupFor(Known, r) = Whose(r)
      BY <1>1, <1>4, <1>5, <2>1, <2>2, FeedsKnown
    <2> QED
      BY <1>3, <1>4, <2>3, NamesKnown, FeedsKnown DEF Resolvable
  <1>6. CASE r.feed = "ion:feed" /\ r.organizers = <<<<"Nobody">>, HoustonLinux>>
    <2>1. /\ DOMAIN <<<<"Nobody">>, HoustonLinux>> = {1, 2}
          /\ <<<<"Nobody">>, HoustonLinux>>[1] = <<"Nobody">>
          /\ <<<<"Nobody">>, HoustonLinux>>[2] = HoustonLinux
      <3> HIDE DEF HoustonLinux
      <3> QED
        OBVIOUS
    <2>2. known = {2}
      <3> HIDE DEF HoustonLinux, Known
      <3>1. \A i : i \in known <=> i = 2
        BY <1>6, <2>1, NamesKnown
      <3> QED
        BY <3>1
    <2>3. Min({2}) = 2
      BY MinIsLeast
    <2>4. HoustonLinux \in ToSet(<<<<"Nobody">>, HoustonLinux>>)
      <3>1. ToSet(<<<<"Nobody">>, HoustonLinux>>) = {<<"Nobody">>, HoustonLinux}
        BY ShortLists
      <3> QED
        BY <3>1
    <2> HIDE DEF known
    <2>5. GroupFor(Known, r) = HLUG
      BY <1>1, <1>6, <2>1, <2>2, <2>3, NamesKnown
    <2> QED
      BY <1>3, <1>4, <1>6, <2>4, <2>5, NamesKnown, FeedsKnown DEF Resolvable
  <1>7. CASE r.feed # "ion:feed" /\ r.organizers = <<>>
    <2>1. known = {}
      BY <1>7
    <2>2. r.feed = "hlug:feed" \/ r.feed = "meetup:feed"
      BY <1>3, <1>7 DEF Carried
    <2> HIDE DEF known
    <2>3. GroupFor(Known, r) = HLUG
      BY <1>1, <2>1, <2>2, FeedsKnown
    <2> QED
      BY <1>3, <1>4, <1>7, <2>3, NamesKnown, FeedsKnown DEF Resolvable
  <1> QED
    BY <1>5, <1>6, <1>7 DEF Sent

(* The inductive invariant: what has come out is what Normalize makes, by  *)
(* the registry of the files, of the records that were sent.               *)
Normalized ==
    /\ raw \in Seq(Record)
    /\ raw # <<>> => Accepted(Standard) /\ reg = Known /\ out = Events(reg, rejects, raw)
    /\ raw = <<>> => out = <<>>

LEMMA NormalizedInit == Init => Normalized
  BY DEF Init, Normalized

LEMMA NormalizedNext == Loads /\ Normalized /\ [Next]_vars => Normalized'
  <1> SUFFICES ASSUME Loads, Normalized, [Next]_vars
               PROVE  Normalized'
    OBVIOUS
  <1>1. ASSUME NEW r \in Record, Receive(r)
        PROVE  Normalized'
    <2>1. Accepted(Standard) /\ reg = New(Standard)
      BY <1>1 DEF Loads, Receive
    <2>2. raw' \in Seq(Record) /\ raw' # <<>> /\ reg' = reg /\ rejects' = rejects
      BY <1>1 DEF Receive, Normalized
    <2>3. out' = Events(reg, rejects, raw')
      BY <1>1 DEF Receive
    <2> QED
      BY <2>1, <2>2, <2>3 DEF Normalized, Known
  <1>2. CASE UNCHANGED vars
    BY <1>2 DEF Normalized, vars
  <1>3. CASE Next
    <2>1. PICK r \in Record : Receive(r)
      BY <1>3 DEF Next, Record
    <2> QED
      BY <1>1, <2>1
  <1> QED
    BY <1>2, <1>3

THEOREM RunsNormalized == Spec => [](Loads /\ Normalized)
  <1>1. Init => Loads
    BY DEF Init, Loads
  <1> QED
    BY <1>1, NormalizedInit, NormalizedNext, LoadsNext, PTL DEF Spec

(* What the properties say of a run, in Normalize's terms.                 *)
Recorded ==
    /\ Given(reg, raw)
    /\ out = Events(reg, rejects, raw)
    /\ \A i \in DOMAIN raw : GroupFor(reg, raw[i]) = Whose(raw[i]) /\ Resolvable(reg, raw[i])

LEMMA RunsRecorded == Normalized /\ raw # <<>> => Recorded
  <1> SUFFICES ASSUME Normalized, raw # <<>>
               PROVE  Recorded
    OBVIOUS
  <1>1. Accepted(Standard) /\ reg = Known /\ out = Events(reg, rejects, raw) /\ raw \in Seq(Record)
    BY DEF Normalized
  <1>2. Len(raw) \in Nat /\ DOMAIN raw = 1 .. Len(raw) /\ \A i \in DOMAIN raw : raw[i] \in Record
    BY <1>1
  <1>3. \A i \in DOMAIN raw : Sent(raw[i])
    BY <1>2, RecordsSent
  <1>4. \A i \in DOMAIN raw :
           /\ GroupFor(reg, raw[i]) = Whose(raw[i]) /\ Resolvable(reg, raw[i])
           /\ reg.priority[raw[i].feed] \in Int /\ raw[i].uid \in Int
    BY <1>1, <1>3, WhoseItIs DEF Sent
  <1>5. Given(reg, raw)
    BY <1>2, <1>4 DEF Given, Comparable
  <1> QED
    BY <1>1, <1>4, <1>5 DEF Recorded

----------------------------------------------------------------------------
(* The properties of a run                                                 *)

RecAt(r, s, i) == [fp |-> FpAt(r, s, i), feed |-> s[i].feed]

(* The records of a list that are made along another.                      *)
LEMMA MadeAlong ==
    ASSUME NEW recs, NEW order, NEW M, NEW r, NEW s, Lists(order, M),
           recs = [k \in DOMAIN order |-> RecAt(r, s, order[k])]
    PROVE  ToSet(recs) = {RecAt(r, s, j) : j \in M}
  <1>1. (\A k \in DOMAIN order : order[k] \in M) /\ \A j \in M : \E k \in DOMAIN order : order[k] = j
    BY DEF Lists
  <1>2. DOMAIN recs = DOMAIN order /\ \A k \in DOMAIN order : recs[k] = RecAt(r, s, order[k])
    OBVIOUS
  <1>3. ToSet(recs) = {recs[k] : k \in DOMAIN recs}
    BY DEF ToSet
  <1>4. \A x \in ToSet(recs) : \E j \in M : x = RecAt(r, s, j)
    BY <1>1, <1>2, <1>3
  <1>5. \A j \in M : RecAt(r, s, j) \in ToSet(recs)
    BY <1>1, <1>2, <1>3
  <1> QED
    BY <1>4, <1>5

(* Meeting, read off the files, is the collapsed cluster of Normalize.     *)
LEMMA MeetingsAgree ==
    ASSUME Recorded, NEW i \in DOMAIN raw
    PROVE  Meeting(i) = MeetingAt(reg, raw, i)
  <1> DEFINE c == Clusters(reg, raw)
  <1>1. Divides(c, reg, raw)
    BY ClustersDivide
  <1>2. \A j \in DOMAIN raw : Resolvable(reg, raw[j]) /\ GroupFor(reg, raw[j]) = Whose(raw[j])
    BY DEF Recorded
  <1>3. DOMAIN c = DOMAIN raw
    BY <1>1, <1>2 DEF Divides
  <1>4. \A j \in DOMAIN raw : j \in c[i] <=> SameKey(i, j)
    <2>1. \A j \in DOMAIN raw :
             ClusterKey(reg, raw[j]) = ClusterKey(reg, raw[i]) <=> SameKey(i, j)
      BY <1>2 DEF ClusterKey, SameKey
    <2> QED
      BY <1>1, <1>3, <2>1 DEF Divides
  <1>5. c[i] = Alike(i)
    BY <1>1, <1>3, <1>4 DEF Divides, Alike
  <1>6. DistinctFeeds(raw, c[i]) <=> ~ Ambiguous(i)
    BY <1>5 DEF DistinctFeeds, Ambiguous
  <1> QED
    BY <1>5, <1>6 DEF Meeting, MeetingAt, Collapse

(* For runs of any length: each event is one meeting, whole, and each      *)
(* meeting with no rejected record is an event.                            *)
THEOREM RunsAreMeetings == Spec => []EventsAreMeetings
  <1>1. Recorded => EventsAreMeetings
    <2> SUFFICES ASSUME Recorded
                 PROVE  {<<out[k].group, ToSet(out[k].recs)>> : k \in DOMAIN out}
                          = {<<Whose(raw[i]), {Rec(j) : j \in Meeting(i)}>> :
                              i \in {i \in DOMAIN raw : \A j \in Meeting(i) : Rec(j).fp \notin rejects}}
      BY DEF EventsAreMeetings
    <2> DEFINE c == Clusters(reg, raw)
               K == Unrejected(reg, rejects, raw)
               I == {i \in DOMAIN raw : \A j \in Meeting(i) : Rec(j).fp \notin rejects}
               Said(k) == <<out[k].group, ToSet(out[k].recs)>>
               Tale(i) == <<Whose(raw[i]), {Rec(j) : j \in Meeting(i)}>>
    <2>1. Divides(c, reg, raw) /\ Partition(c, reg, raw) /\ Given(reg, raw)
      BY ClustersDivide, CollapsedDivide DEF Recorded
    <2>2. PICK order :
             /\ Lists(order, K)
             /\ DOMAIN out = DOMAIN order
             /\ \A k \in DOMAIN order : MadeOf(out[k], reg, raw, order[k])
      BY EventsList DEF Recorded
    <2>3. (\A k \in DOMAIN order : order[k] \in K) /\ \A M \in K : \E k \in DOMAIN order : order[k] = M
      BY <2>2 DEF Lists
    <2>4. K = {M \in Collapsed(raw, c) : \A i \in M : FpAt(reg, raw, i) \notin rejects}
      BY DEF Unrejected
    <2>5. DOMAIN c = DOMAIN raw /\ \A i \in DOMAIN raw : GroupFor(reg, raw[i]) = Whose(raw[i])
      BY <2>1 DEF Recorded, Divides
    <2>6. \A i \in DOMAIN raw : Meeting(i) = Collapse(raw, c[i], i)
      BY MeetingsAgree DEF MeetingAt
    <2>7. \A j : Rec(j) = RecAt(reg, raw, j) /\ Rec(j).fp = FpAt(reg, raw, j)
      BY DEF Rec, RecAt, FpAt
    <2>8. I = {i \in DOMAIN raw : Meeting(i) \in K}
      <3>1. \A i \in DOMAIN raw : Meeting(i) \in Collapsed(raw, c)
        BY <2>5, <2>6 DEF Collapsed
      <3> HIDE DEF c, K
      <3> QED
        BY <2>4, <2>7, <3>1
    <2> HIDE DEF c, K, I
    <2>9. ASSUME NEW k \in DOMAIN order, NEW i \in order[k]
          PROVE  Said(k) = Tale(i) /\ i \in I
      <3>1. order[k] \in Collapsed(raw, c) /\ MadeOf(out[k], reg, raw, order[k])
        BY <2>2, <2>3, <2>4, <2>9
      <3>2. i \in DOMAIN raw /\ order[k] = Meeting(i)
        BY <2>1, <2>5, <2>6, <2>9, <3>1 DEF Partition
      <3>3. \A m, j \in order[k] : ClusterKey(reg, raw[m]) = ClusterKey(reg, raw[j])
        BY <2>1, <3>1 DEF Partition
      <3>4. <<out[k].group, out[k].start>> = ClusterKey(reg, raw[i])
        BY <2>9, <3>1, <3>3, MadeOfTells
      <3>5. out[k].group = Whose(raw[i])
        BY <2>5, <3>2, <3>4 DEF ClusterKey
      <3>6. PICK o : /\ Lists(o, order[k])
                     /\ out[k].recs = [m \in DOMAIN o |->
                          [fp |-> FpAt(reg, raw, o[m]), feed |-> raw[o[m]].feed]]
        BY <3>1 DEF MadeOf
      <3>7. ToSet(out[k].recs) = {RecAt(reg, raw, j) : j \in order[k]}
        <4>1. out[k].recs = [m \in DOMAIN o |-> RecAt(reg, raw, o[m])]
          BY <3>6 DEF RecAt
        <4> QED
          BY <3>6, <4>1, MadeAlong
      <3>8. {RecAt(reg, raw, j) : j \in order[k]} = {Rec(j) : j \in Meeting(i)}
        BY <2>7, <3>2
      <3> QED
        BY <2>3, <2>8, <2>9, <3>2, <3>5, <3>7, <3>8
    <2>10. \A k \in DOMAIN order : \E i \in I : Said(k) = Tale(i)
      <3>1. ASSUME NEW k \in DOMAIN order
            PROVE  \E i \in order[k] : TRUE
        <4>1. order[k] \in Collapsed(raw, c)
          BY <2>3, <2>4
        <4> QED
          BY <2>1, <4>1 DEF Partition
      <3> HIDE DEF Said, Tale
      <3> QED
        BY <2>9, <3>1
    <2>11. \A i \in I : \E k \in DOMAIN order : Said(k) = Tale(i)
      <3>1. ASSUME NEW i \in I
            PROVE  \E k \in DOMAIN order : Said(k) = Tale(i)
        <4>1. i \in DOMAIN raw /\ Meeting(i) \in K
          BY <2>8, <3>1
        <4>2. PICK k \in DOMAIN order : order[k] = Meeting(i)
          BY <2>3, <4>1
        <4>3. i \in order[k]
          BY <2>1, <2>5, <2>6, <4>1, <4>2 DEF Partition
        <4> HIDE DEF Said, Tale
        <4> QED
          BY <2>9, <4>3
      <3> QED
        BY <3>1
    <2> HIDE DEF Said, Tale
    <2>12. {Said(k) : k \in DOMAIN out} = {Tale(i) : i \in I}
      BY <2>2, <2>10, <2>11
    <2> QED
      BY <2>12 DEF Said, Tale, I
  <1>2. raw = <<>> /\ out = <<>> => EventsAreMeetings
    <2> SUFFICES ASSUME raw = <<>>, out = <<>>
                 PROVE  EventsAreMeetings
      OBVIOUS
    <2>1. {<<out[k].group, ToSet(out[k].recs)>> : k \in DOMAIN out} = {}
      OBVIOUS
    <2>2. {i \in DOMAIN raw : \A j \in Meeting(i) : Rec(j).fp \notin rejects} = {}
      OBVIOUS
    <2> QED
      BY <2>1, <2>2 DEF EventsAreMeetings
  <1>3. Normalized => EventsAreMeetings
    BY <1>1, <1>2, RunsRecorded DEF Normalized
  <1> QED
    BY <1>3, RunsNormalized, PTL

LEMMA CountTo ==
    ASSUME NEW n \in Nat
    PROVE  Cardinality(1 .. n) = n
  <1>1. Cardinality(1 .. n) = n - 1 + 1
    BY FS_Interval
  <1> QED
    BY <1>1

(* For runs of any length: what goes in comes out, once.                   *)
THEOREM RunsLoseNothing == Spec => []NothingLost
  <1>1. Recorded /\ raw \in Seq(Record) => NothingLost
    <2> SUFFICES ASSUME Recorded, raw \in Seq(Record), rejects = {}
                 PROVE  Cardinality(RecordsIn(out)) = Len(raw)
      BY DEF NothingLost, RecordsIn
    <2>1. Cardinality(RecordsIn(out)) = Cardinality({i \in DOMAIN raw : Resolvable(reg, raw[i])})
      BY EventsLoseNothing DEF Recorded
    <2>2. {i \in DOMAIN raw : Resolvable(reg, raw[i])} = 1 .. Len(raw)
      BY DEF Recorded
    <2>3. Cardinality(1 .. Len(raw)) = Len(raw)
      <3>1. Len(raw) \in Nat
        OBVIOUS
      <3> QED
        BY <3>1, CountTo
    <2> QED
      BY <2>1, <2>2, <2>3
  <1>2. raw = <<>> /\ out = <<>> => NothingLost
    <2>1. Cardinality({}) = 0
      BY FS_EmptySet
    <2> SUFFICES ASSUME raw = <<>>, out = <<>>
                 PROVE  Cardinality(UNION {{<<k, i>> : i \in DOMAIN out[k].recs} : k \in DOMAIN out})
                          = Len(raw)
      BY DEF NothingLost
    <2>2. UNION {{<<k, i>> : i \in DOMAIN out[k].recs} : k \in DOMAIN out} = {}
      OBVIOUS
    <2> QED
      BY <2>1, <2>2
  <1>3. Normalized => NothingLost
    BY <1>1, <1>2, RunsRecorded DEF Normalized
  <1> QED
    BY <1>3, RunsNormalized, PTL

(* For runs of any length: the same events from the answers in the         *)
(* opposite order.                                                         *)
THEOREM RunsOrderFree == Spec => []OrderFree
  <1>1. Recorded /\ raw \in Seq(Record) => OrderFree
    <2> SUFFICES ASSUME Recorded, raw \in Seq(Record), ~ Tied
                 PROVE  ToSet(Events(reg, rejects, Reverse(raw))) = ToSet(out)
      BY DEF OrderFree
    <2> DEFINE L == Len(raw)
               p == [i \in 1 .. L |-> L - i + 1]
    <2>1. L \in Nat /\ DOMAIN raw = 1 .. L
      OBVIOUS
    <2> HIDE DEF L
    <2>2. Shuffles(p, DOMAIN raw)
      <3>1. p \in [1 .. L -> 1 .. L]
        BY <2>1
      <3>2. \A i, j \in 1 .. L : p[i] = p[j] => i = j
        BY <2>1
      <3>3. \A i \in 1 .. L : L - i + 1 \in 1 .. L /\ p[L - i + 1] = i
        BY <2>1
      <3> QED
        BY <2>1, <3>1, <3>2, <3>3 DEF Shuffles
    <2>3. Reverse(raw) = Shuffled(raw, p)
      <3>1. Reverse(raw) = [i \in 1 .. L |-> raw[L - i + 1]]
        BY DEF Reverse, L
      <3> QED
        BY <2>1, <3>1 DEF Shuffled
    <2>4. Untied(reg, raw)
      <3> SUFFICES ASSUME NEW i \in DOMAIN raw, NEW j \in DOMAIN raw, i # j,
                          ClusterKey(reg, raw[i]) = ClusterKey(reg, raw[j])
                   PROVE  \/ raw[i].uid # raw[j].uid
                          \/ reg.priority[raw[i].feed] # reg.priority[raw[j].feed]
        BY DEF Untied
      <3>1. SameKey(i, j)
        BY DEF Recorded, ClusterKey, SameKey
      <3> QED
        BY <3>1 DEF Tied
    <2> HIDE DEF p
    <2>5. EventsOf(reg, rejects, Shuffled(raw, p)) = EventsOf(reg, rejects, raw)
      BY <2>2, <2>4, EventsOrderFree DEF Recorded
    <2> QED
      BY <2>3, <2>5 DEF EventsOf, Recorded
  <1>2. raw = <<>> /\ out = <<>> => OrderFree
    <2> SUFFICES ASSUME raw = <<>>, out = <<>>
                 PROVE  ToSet(Events(reg, rejects, Reverse(raw))) = ToSet(out)
      BY DEF OrderFree
    <2>1. Reverse(raw) = <<>>
      BY DEF Reverse
    <2>0. DOMAIN <<>> = {} /\ DOMAIN <<>> = 1 .. 0
      OBVIOUS
    <2>2. Given(reg, <<>>)
      BY <2>0 DEF Given, Comparable
    <2>3. Unrejected(reg, rejects, <<>>) = {}
      <3>1. DOMAIN Clusters(reg, <<>>) = {}
        <4>1. DOMAIN Clusters(reg, <<>>) = {i \in DOMAIN <<>> : Resolvable(reg, <<>>[i])}
          BY ClustersDivide DEF Divides
        <4> QED
          BY <2>0, <4>1
      <3> QED
        BY <3>1 DEF Unrejected, Collapsed
    <2>4. EventsOf(reg, rejects, <<>>) = {}
      BY <2>2, <2>3, EventsAreMerged
    <2>5. ToSet(<<>>) = {}
      BY ShortLists
    <2> QED
      BY <2>1, <2>4, <2>5 DEF EventsOf
  <1>3. Normalized => OrderFree
    BY <1>1, <1>2, RunsRecorded DEF Normalized
  <1> QED
    BY <1>3, RunsNormalized, PTL

----------------------------------------------------------------------------
(* Where the events of a run are                                           *)

LEMMA FoldedDef ==
    ASSUME NEW s, Len(s) \in Nat
    PROVE  Folded(s) =
             [n \in 0 .. Len(s) |-> IF n = 0 THEN <<>> ELSE Spaced(Folded(s)[n - 1], s[n])]
  <1> DEFINE N == Len(s)
             Runs(f, m) == f = [n \in 0 .. m |-> IF n = 0 THEN <<>> ELSE Spaced(f[n - 1], s[n])]
             T == {m \in Nat : m <= N /\ ~ \E f : Runs(f, m)}
  <1>1. T = {}
    <2>1. ASSUME T # {}
          PROVE  FALSE
      <3>1. PICK m \in T : \A k \in T : m <= k
        BY <2>1, MinIsLeast
      <3>2. m # 0
        <4>1. Runs([n \in 0 .. 0 |-> <<>>], 0)
          OBVIOUS
        <4> QED
          BY <4>1
      <3>3. m - 1 \in Nat /\ m - 1 <= N /\ m - 1 \notin T
        BY <3>1, <3>2
      <3>4. PICK g : Runs(g, m - 1)
        BY <3>3
      <3> DEFINE f == [n \in 0 .. m |-> IF n = m THEN Spaced(g[m - 1], s[m]) ELSE g[n]]
      <3>5. \A n \in 0 .. m - 1 :
               f[n] = g[n] /\ g[n] = IF n = 0 THEN <<>> ELSE Spaced(g[n - 1], s[n])
        BY <3>4
      <3>6. \A n \in 0 .. m : f[n] = IF n = 0 THEN <<>> ELSE Spaced(f[n - 1], s[n])
        <4> TAKE n \in 0 .. m
        <4>1. CASE n = m
          BY <3>2, <3>3, <3>5, <4>1
        <4>2. CASE n # m
          <5>1. n \in 0 .. m - 1 /\ (n # 0 => n - 1 \in 0 .. m - 1)
            BY <4>2
          <5> QED
            BY <3>5, <5>1
        <4> QED
          BY <4>1, <4>2
      <3>7. f = [n \in 0 .. m |-> f[n]]
        OBVIOUS
      <3> HIDE DEF f
      <3>8. Runs(f, m)
        BY <3>6, <3>7
      <3> QED
        BY <3>1, <3>8
    <2> QED
      BY <2>1
  <1>2. \E f : Runs(f, N)
    BY <1>1
  <1> QED
    BY <1>2 DEF Folded

LEMMA MinMaxOne ==
    /\ \A n \in Nat : Min({n}) = n /\ Max({n}) = n
    /\ Min({1, 2, 3}) = 1 /\ Max({1, 2, 3}) = 3
  <1>1. \A n \in Nat : Min({n}) = n
    BY MinIsLeast
  <1>2. \A n \in Nat : Max({n}) = n
    BY DEF Max
  <1>3. Min({1, 2, 3}) = 1
    <2>1. Min({1, 2, 3}) \in {1, 2, 3} /\ \A y \in {1, 2, 3} : Min({1, 2, 3}) <= y
      BY MinIsLeast
    <2> QED
      BY <2>1
  <1>4. Max({1, 2, 3}) = 3
    BY DEF Max
  <1> QED
    BY <1>1, <1>2, <1>3, <1>4

LEMMA OneAndThree ==
    ASSUME NEW a, NEW b, NEW c
    PROVE  /\ Len(<<a>>) = 1 /\ DOMAIN <<a>> = {1} /\ <<a>>[1] = a
           /\ Len(<<a, b, c>>) = 3 /\ DOMAIN <<a, b, c>> = {1, 2, 3}
           /\ <<a, b, c>>[1] = a /\ <<a, b, c>>[2] = b /\ <<a, b, c>>[3] = c
           /\ SubSeq(<<a>>, 1, 1) = <<a>> /\ SubSeq(<<a, b, c>>, 1, 3) = <<a, b, c>>
  <1>1. /\ Len(<<a>>) = 1 /\ DOMAIN <<a>> = 1 .. 1 /\ <<a>>[1] = a
        /\ Len(<<a, b, c>>) = 3 /\ DOMAIN <<a, b, c>> = 1 .. 3
        /\ <<a, b, c>>[1] = a /\ <<a, b, c>>[2] = b /\ <<a, b, c>>[3] = c
    OBVIOUS
  <1>2. 1 .. 1 = {1} /\ 1 .. 3 = {1, 2, 3}
    OBVIOUS
  <1>3. SubSeq(<<a>>, 1, 1) = <<a>>
    <2>1. SubSeq(<<a>>, 1, 1) = [i \in 1 .. (1 + 1 - 1) |-> <<a>>[i + 1 - 1]]
      OBVIOUS
    <2>2. [i \in 1 .. (1 + 1 - 1) |-> <<a>>[i + 1 - 1]] = <<a>>
      OBVIOUS
    <2> QED
      BY <2>1, <2>2
  <1>4. SubSeq(<<a, b, c>>, 1, 3) = <<a, b, c>>
    <2>1. SubSeq(<<a, b, c>>, 1, 3) = [i \in 1 .. (1 + 3 - 1) |-> <<a, b, c>>[i + 1 - 1]]
      OBVIOUS
    <2>2. [i \in 1 .. (1 + 3 - 1) |-> <<a, b, c>>[i + 1 - 1]] = <<a, b, c>>
      OBVIOUS
    <2> QED
      BY <2>1, <2>2
  <1> QED
    BY <1>1, <1>2, <1>3, <1>4

LEMMA CutThree ==
    ASSUME NEW a, NEW b, NEW c
    PROVE  /\ Len(<<a, b, c>>) = 3 /\ SubSeq(<<a, b, c>>, 1, 1) = <<a>>
           /\ SubSeq(<<a, b, c>>, 2, 2) = <<b>> /\ SubSeq(<<a, b, c>>, 3, 3) = <<c>>
  <1>1. SubSeq(<<a, b, c>>, 1, 1) = <<a>>
    <2>1. SubSeq(<<a, b, c>>, 1, 1) = [i \in 1 .. (1 + 1 - 1) |-> <<a, b, c>>[i + 1 - 1]]
      OBVIOUS
    <2>2. [i \in 1 .. (1 + 1 - 1) |-> <<a, b, c>>[i + 1 - 1]] = <<a>>
      OBVIOUS
    <2> QED
      BY <2>1, <2>2
  <1>2. SubSeq(<<a, b, c>>, 2, 2) = <<b>>
    <2>1. SubSeq(<<a, b, c>>, 2, 2) = [i \in 1 .. (1 + 2 - 2) |-> <<a, b, c>>[i + 2 - 1]]
      OBVIOUS
    <2>2. [i \in 1 .. (1 + 2 - 2) |-> <<a, b, c>>[i + 2 - 1]] = <<b>>
      OBVIOUS
    <2> QED
      BY <2>1, <2>2
  <1>3. SubSeq(<<a, b, c>>, 3, 3) = <<c>>
    <2>1. SubSeq(<<a, b, c>>, 3, 3) = [i \in 1 .. (1 + 3 - 3) |-> <<a, b, c>>[i + 3 - 1]]
      OBVIOUS
    <2>2. [i \in 1 .. (1 + 3 - 3) |-> <<a, b, c>>[i + 3 - 1]] = <<c>>
      OBVIOUS
    <2> QED
      BY <2>1, <2>2
  <1>4. Len(<<a, b, c>>) = 3
    OBVIOUS
  <1> QED
    BY <1>1, <1>2, <1>3, <1>4

(* Names of ink alone, of one piece or three.                              *)
LEMMA TrimmedShort ==
    ASSUME NEW a, NEW b, NEW c, a # Space, b # Space, c # Space
    PROVE  Trimmed(<<a>>) = <<a>> /\ Trimmed(<<a, b, c>>) = <<a, b, c>>
  <1>1. ASSUME NEW s, NEW D, D = DOMAIN s, \A i \in D : s[i] # Space, D # {}
        PROVE  Trimmed(s) = SubSeq(s, Min(D), Max(D))
    <2>1. {i \in DOMAIN s : s[i] # Space} = D
      BY <1>1
    <2> QED
      BY <1>1, <2>1 DEF Trimmed
  <1>2. Trimmed(<<a>>) = SubSeq(<<a>>, Min({1}), Max({1}))
    BY <1>1, OneAndThree
  <1>3. Trimmed(<<a, b, c>>) = SubSeq(<<a, b, c>>, Min({1, 2, 3}), Max({1, 2, 3}))
    <2> DEFINE s == <<a, b, c>>
    <2>1. DOMAIN s = {1, 2, 3} /\ s[1] # Space /\ s[2] # Space /\ s[3] # Space
      BY OneAndThree
    <2> HIDE DEF s
    <2>2. \A i \in {1, 2, 3} : s[i] # Space
      BY <2>1
    <2>3. Trimmed(s) = SubSeq(s, Min({1, 2, 3}), Max({1, 2, 3}))
      BY <1>1, <2>1, <2>2
    <2> QED
      BY <2>3 DEF s
  <1>4. Trimmed(<<a>>) = SubSeq(<<a>>, 1, 1)
    BY <1>2, MinMaxOne
  <1>5. Trimmed(<<a, b, c>>) = SubSeq(<<a, b, c>>, 1, 3)
    BY <1>3, MinMaxOne
  <1>6. SubSeq(<<a>>, 1, 1) = <<a>> /\ SubSeq(<<a, b, c>>, 1, 3) = <<a, b, c>>
    BY OneAndThree
  <1> QED
    BY <1>4, <1>5, <1>6

LEMMA FoldedShort ==
    ASSUME NEW a, NEW b, NEW c, a # Space, b # Space, c # Space,
           Plain(a) # Space, Plain(b) # Space, Plain(c) # Space
    PROVE  /\ FoldName(<<a>>) = <<Plain(a)>>
           /\ FoldName(<<a, b, c>>) = <<Plain(a), Plain(b), Plain(c)>>
  <1>1. \A t, x : x # Space => Spaced(t, x) = Append(t, Plain(x))
    BY DEF Spaced
  <1>2. FoldName(<<a>>) = <<Plain(a)>>
    <2> DEFINE f == Folded(<<a>>)
    <2>1. Len(<<a>>) = 1 /\ <<a>>[1] = a
      OBVIOUS
    <2>2. f = [n \in 0 .. 1 |-> IF n = 0 THEN <<>> ELSE Spaced(f[n - 1], <<a>>[n])]
      BY <2>1, FoldedDef
    <2> HIDE DEF f
    <2>3. f[0] = <<>>
      BY <2>2
    <2>4. f[1] = Spaced(f[0], a)
      <3>1. f[1] = Spaced(f[1 - 1], <<a>>[1])
        BY <2>2
      <3> QED
        BY <2>1, <3>1
    <2>5. f[1] = <<Plain(a)>>
      <3>1. f[1] = Append(<<>>, Plain(a))
        BY <1>1, <2>3, <2>4
      <3>2. Append(<<>>, Plain(a)) = <<Plain(a)>>
        OBVIOUS
      <3> QED
        BY <3>1, <3>2
    <2>6. Trimmed(<<Plain(a)>>) = <<Plain(a)>>
      BY TrimmedShort
    <2> QED
      BY <2>1, <2>5, <2>6 DEF FoldName, f
  <1>3. FoldName(<<a, b, c>>) = <<Plain(a), Plain(b), Plain(c)>>
    <2> DEFINE s == <<a, b, c>>
               f == Folded(s)
    <2>1. Len(s) = 3 /\ s[1] = a /\ s[2] = b /\ s[3] = c
      OBVIOUS
    <2>2. f = [n \in 0 .. 3 |-> IF n = 0 THEN <<>> ELSE Spaced(f[n - 1], s[n])]
      BY <2>1, FoldedDef
    <2> HIDE DEF f, s
    <2>3. f[0] = <<>> /\ f[1] = Spaced(f[0], a) /\ f[2] = Spaced(f[1], b) /\ f[3] = Spaced(f[2], c)
      <3>1. \A n \in 1 .. 3 : f[n] = Spaced(f[n - 1], s[n])
        BY <2>2
      <3>2. f[1] = Spaced(f[1 - 1], s[1]) /\ f[2] = Spaced(f[2 - 1], s[2]) /\ f[3] = Spaced(f[3 - 1], s[3])
        BY <3>1
      <3>3. f[0] = <<>>
        BY <2>2
      <3>4. 1 - 1 = 0 /\ 2 - 1 = 1 /\ 3 - 1 = 2
        OBVIOUS
      <3> QED
        BY <2>1, <3>2, <3>3, <3>4
    <2>a. ASSUME NEW x, NEW y, NEW z
          PROVE  /\ Append(<<>>, x) = <<x>> /\ Append(<<x>>, y) = <<x, y>>
                 /\ Append(<<x, y>>, z) = <<x, y, z>>
      <3>1. Append(<<>>, x) = <<x>>
        OBVIOUS
      <3>2. Append(<<x>>, y) = <<x, y>>
        <4>1. Append(<<x>>, y) = [i \in 1 .. Len(<<x>>) + 1 |-> IF i = Len(<<x>>) + 1 THEN y ELSE <<x>>[i]]
          OBVIOUS
        <4>2. Len(<<x>>) = 1
          OBVIOUS
        <4>3. [i \in 1 .. 1 + 1 |-> IF i = 1 + 1 THEN y ELSE <<x>>[i]] = <<x, y>>
          OBVIOUS
        <4> QED
          BY <4>1, <4>2, <4>3
      <3>3. Append(<<x, y>>, z) = <<x, y, z>>
        <4>1. Append(<<x, y>>, z) = [i \in 1 .. Len(<<x, y>>) + 1 |-> IF i = Len(<<x, y>>) + 1 THEN z ELSE <<x, y>>[i]]
          OBVIOUS
        <4>2. Len(<<x, y>>) = 2
          OBVIOUS
        <4>3. [i \in 1 .. 2 + 1 |-> IF i = 2 + 1 THEN z ELSE <<x, y>>[i]] = <<x, y, z>>
          OBVIOUS
        <4> QED
          BY <4>1, <4>2, <4>3
      <3> QED
        BY <3>1, <3>2, <3>3
    <2>4. f[1] = <<Plain(a)>>
      BY <1>1, <2>3, <2>a
    <2>5. f[2] = <<Plain(a), Plain(b)>>
      BY <1>1, <2>3, <2>4, <2>a
    <2>6. f[3] = <<Plain(a), Plain(b), Plain(c)>>
      <3>1. f[3] = Append(<<Plain(a), Plain(b)>>, Plain(c))
        BY <1>1, <2>3, <2>5
      <3> QED
        BY <2>a, <3>1
    <2>7. Trimmed(<<Plain(a), Plain(b), Plain(c)>>) = <<Plain(a), Plain(b), Plain(c)>>
      BY TrimmedShort
    <2> QED
      BY <2>1, <2>6, <2>7 DEF FoldName, f, s
  <1> QED
    BY <1>2, <1>3

IonVenue == VenueFile(Slug("ion"), Ion, <<TheIon>>)

LEMMA CuratedKnown ==
    ASSUME Accepted(Standard)
    PROVE  /\ DOMAIN Known.curated = {Slug("ion"), Ion, TheIon} /\ Known.curated[Ion] = Ion
           /\ DOMAIN Known.home = {HLUG} /\ Known.home[HLUG] = Ion
  <1> DEFINE v == Standard.venues
             F == FirstClaim(v)
  <1>1. v = <<IonVenue>>
    BY DEF Standard, IonVenue
  <1>2. IonVenue.slug = Slug("ion") /\ IonVenue.name = Ion /\ IonVenue.aliases = <<TheIon>>
    BY DEF IonVenue, VenueFile
  <1>3. ToSet(v) = {IonVenue} /\ ListOf(v) /\ DOMAIN v = {1} /\ v[1] = IonVenue
    <2>1. ToSet(<<IonVenue>>) = {IonVenue} /\ ListOf(<<IonVenue>>)
      BY ShortLists
    <2>2. DOMAIN <<IonVenue>> = {1} /\ <<IonVenue>>[1] = IonVenue
      BY OneAndThree
    <2> QED
      BY <1>1, <2>1, <2>2
  <1>4. NamesOf(IonVenue) = {Slug("ion"), Ion, TheIon}
    <2>1. NamesOf(IonVenue) = ({Slug("ion"), Ion} \cup {TheIon}) \ {Blank}
      <3>1. ToSet(<<TheIon>>) = {TheIon}
        BY ShortLists
      <3> QED
        BY <1>2, <3>1 DEF NamesOf
    <2>2. Slug("ion") # Blank /\ Ion # Blank /\ TheIon # Blank
      BY DEF Slug, Ion, TheIon, Blank
    <2> QED
      BY <2>1, <2>2
  <1>5. DOMAIN F = {Slug("ion"), Ion, TheIon}
    <2>1. DOMAIN F = UNION {NamesOf(f) : f \in ToSet(v)}
      BY DEF FirstClaim
    <2> QED
      BY <1>3, <1>4, <2>1
  <1>6. F[Ion] = IonVenue
    <2>1. ~ ClaimedTwice(v)
      BY AcceptedParts
    <2>2. 1 \in DOMAIN v /\ Ion \in NamesOf(v[1])
      BY <1>3, <1>4
    <2> QED
      BY <1>3, <2>1, <2>2, FirstClaimIs
  <1>7. Known.curated = [n \in DOMAIN F |-> F[n].name] /\ Known.home = Home(Standard)
    BY NewIs DEF Known
  <1> HIDE DEF v, F
  <1>8. DOMAIN Known.curated = {Slug("ion"), Ion, TheIon} /\ Known.curated[Ion] = Ion
    BY <1>2, <1>5, <1>6, <1>7
  <1>9. LinuxFile.venue = Slug("ion") /\ DistrictFile.venue = Blank
    BY DEF LinuxFile, DistrictFile, Hlug, IonFile, GroupFile
  <1>10. ToSet(Standard.groups) = {LinuxFile, DistrictFile}
    <2>1. ToSet(<<LinuxFile, DistrictFile>>) = {LinuxFile, DistrictFile}
      BY ShortLists
    <2>2. Standard.groups = <<LinuxFile, DistrictFile>>
      BY StandardFiles
    <2> QED
      BY <2>1, <2>2
  <1>11. HLUG \in DOMAIN Home(Standard) /\ Home(Standard)[HLUG] = Ion
    <2>1. Directory(Standard)
      BY DirsRead DEF Dirs
    <2>2. LinuxFile \in ToSet(Standard.groups) /\ IonVenue \in ToSet(Standard.venues)
      BY <1>3, <1>10 DEF v
    <2>3. LinuxFile.slug \in DOMAIN Home(Standard) /\ Home(Standard)[LinuxFile.slug] = IonVenue.name
      BY <1>2, <1>9, <2>1, <2>2, HomeIs
    <2> QED
      BY <1>2, <2>3, StandardFiles
  <1>12. DOMAIN Home(Standard) = {HLUG}
    <2>1. DOMAIN Home(Standard) = {g.slug : g \in Homed(Standard)}
      BY DEF Home
    <2>2. Blank \notin DOMAIN F
      BY <1>5 DEF Slug, Ion, TheIon, Blank
    <2>3. \A g \in Homed(Standard) : g \in {LinuxFile, DistrictFile} /\ g.venue \in DOMAIN F
      BY <1>10 DEF Homed, F, v
    <2>4. \A g \in Homed(Standard) : g = LinuxFile
      BY <1>9, <2>2, <2>3
    <2>5. LinuxFile.slug = HLUG
      BY StandardFiles
    <2> HIDE DEF LinuxFile
    <2>6. \A s \in DOMAIN Home(Standard) : s = HLUG
      BY <2>1, <2>4, <2>5
    <2> QED
      BY <1>11, <2>6
  <1> QED
    BY <1>7, <1>8, <1>11, <1>12

(* A name of one piece is cut only at that piece.                          *)
LEMMA OnePiece ==
    ASSUME NEW a, NEW sep, Len(sep) \in {1, 3}, Len(sep) = 1 => sep # <<a>>
    PROVE  Spots(<<a>>, sep) = {}
  <1> DEFINE s == <<a>>
  <1>1. Len(s) = 1 /\ SubSeq(s, 1, 1) = s
    BY OneAndThree
  <1> HIDE DEF s
  <1>2. CASE Len(sep) = 1
    <2>1. Spots(s, sep) = {i \in 1 .. 1 : SubSeq(s, i, i) = sep}
      BY <1>1, <1>2 DEF Spots
    <2>2. SubSeq(s, 1, 1) # sep
      BY <1>1, <1>2 DEF s
    <2> QED
      BY <2>1, <2>2 DEF s
  <1>3. CASE Len(sep) = 3
    BY <1>1, <1>3 DEF Spots, s
  <1> QED
    BY <1>2, <1>3

LEMMA NoDash ==
    ASSUME NEW a, a # EnDash, a # EmDash
    PROVE  Dash(<<a>>) = 0
  <1> DEFINE s == <<a>>
  <1>1. /\ Len(Dashes) = 3 /\ Dashes[1] = <<EnDash>>
        /\ Dashes[2] = <<EmDash>> /\ Dashes[3] = <<Space, "-", Space>>
    BY DEF Dashes
  <1>2. /\ Len(<<EnDash>>) = 1 /\ Len(<<EmDash>>) = 1 /\ Len(<<Space, "-", Space>>) = 3
        /\ <<EnDash>> # s /\ <<EmDash>> # s
    OBVIOUS
  <1> HIDE DEF s
  <1>3. \A i \in 1 .. 3 : Len(Dashes[i]) \in {1, 3} /\ (Len(Dashes[i]) = 1 => Dashes[i] # s)
    <2>1. \A i \in 1 .. 3 : i = 1 \/ i = 2 \/ i = 3
      OBVIOUS
    <2> QED
      BY <1>1, <1>2, <2>1
  <1>4. \A i \in 1 .. 3 : Spots(s, Dashes[i]) = {}
    BY <1>3, OnePiece DEF s
  <1>5. {i \in 1 .. Len(Dashes) : Spots(s, Dashes[i]) # {}} = {}
    BY <1>1, <1>4
  <1>6. Dash(s) = 0
    BY <1>5 DEF Dash, SelectInSeq
  <1> QED
    BY <1>6 DEF s

(* A venue and a room with an en dash between are told apart there.        *)
LEMMA DashedRoom ==
    ASSUME NEW cur, NEW a, NEW b, a # Space, b # Space, EnDash # Space, a # EnDash, b # EnDash,
           FoldName(<<a, EnDash, b>>) \notin DOMAIN cur
    PROVE  Flat(cur, <<a, EnDash, b>>) = Sited(cur, <<a>>, <<b>>)
  <1> DEFINE s == <<a, EnDash, b>>
             sep == <<EnDash>>
  <1>1. /\ Len(s) = 3 /\ SubSeq(s, 1, 1) = <<a>> /\ SubSeq(s, 2, 2) = sep
        /\ SubSeq(s, 3, 3) = <<b>>
    BY ONLY CutThree
  <1>2. Len(sep) = 1 /\ sep # <<a>> /\ sep # <<b>>
    OBVIOUS
  <1>3. Trimmed(<<a>>) = <<a>> /\ Trimmed(<<b>>) = <<b>>
    BY TrimmedShort
  <1> HIDE DEF s, sep
  <1>4. Spots(s, sep) = {2}
    <2>1. Spots(s, sep) = {i \in 1 .. 3 : SubSeq(s, i, i) = sep}
      BY <1>1, <1>2 DEF Spots
    <2>2. \A i \in 1 .. 3 : SubSeq(s, i, i) = sep <=> i = 2
      <3>1. \A i \in 1 .. 3 : i = 1 \/ i = 2 \/ i = 3
        OBVIOUS
      <3> QED
        BY <1>1, <1>2, <3>1
    <2> QED
      BY <2>1, <2>2
  <1>5. Len(Dashes) = 3 /\ Dashes[1] = sep
    BY DEF Dashes, sep
  <1>6. Dash(s) = 1
    <2> DEFINE I == {i \in 1 .. Len(Dashes) : Spots(s, Dashes[i]) # {}}
    <2>1. 1 \in I /\ I \subseteq 1 .. 3
      BY <1>4, <1>5
    <2>2. Dash(s) = Min(I)
      BY <2>1 DEF Dash, SelectInSeq
    <2> HIDE DEF I
    <2>3. I \in SUBSET Nat /\ I # {}
      BY <2>1
    <2>4. Min(I) \in I /\ \A y \in I : Min(I) <= y
      BY <2>3, MinIsLeast
    <2>5. Min(I) \in 1 .. 3 /\ Min(I) <= 1
      BY <2>1, <2>4
    <2>6. Min(I) = 1
      BY <2>5
    <2> QED
      BY <2>2, <2>6
  <1>7. Min(Spots(s, sep)) = 2
    BY <1>4, MinMaxOne
  <1>8. Before(s, sep) = <<a>>
    <2>1. Before(s, sep) = Trimmed(SubSeq(s, 1, 2 - 1))
      BY <1>7, Zenon DEF Before
    <2>2. 2 - 1 = 1
      OBVIOUS
    <2> QED
      BY <1>1, <1>3, <2>1, <2>2, Zenon
  <1>9. After(s, sep) = <<b>>
    <2>1. After(s, sep) = Trimmed(SubSeq(s, 2 + 1, 3))
      BY <1>1, <1>2, <1>7, Zenon DEF After
    <2>2. 2 + 1 = 3
      OBVIOUS
    <2> QED
      BY <1>1, <1>3, <2>1, <2>2, Zenon
  <1>10. ~ IsCurated(cur, s)
    BY DEF IsCurated, s
  <1>11. Flat(cur, s) = Halved(cur, s, Dashes[1])
    <2>1. 1 # 0
      OBVIOUS
    <2> QED
      BY <1>6, <1>10, <2>1, Zenon DEF Flat
  <1>12. Flat(cur, s) = Sited(cur, <<a>>, <<b>>)
    BY <1>5, <1>8, <1>9, <1>11 DEF Halved
  <1> QED
    BY <1>12 DEF s

(* What the three kinds of records tell of their place.                    *)
LEMMA PlacesTold ==
    ASSUME Accepted(Standard)
    PROVE  /\ ResolveVenue(Known.curated, <<>>) = Unplaced
           /\ ResolveVenue(Known.curated, InCafe).venue = <<"Cafe">>
           /\ ResolveVenue(Known.curated, InCafe).room = <<>>
           /\ ResolveVenue(Known.curated, InRoom30).venue = Ion
           /\ ResolveVenue(Known.curated, InRoom30).room = <<"30">>
           /\ ~ IsCurated(Known.curated, <<"Cafe">>) /\ IsCurated(Known.curated, Ion)
  <1> DEFINE cur == Known.curated
             room == <<"Ion", EnDash, "30">>
  <1>1. /\ "Cafe" # Space /\ "Ion" # Space /\ "30" # Space /\ EnDash # Space
        /\ "Ion" # EnDash /\ "Cafe" # EnDash /\ "Cafe" # EmDash /\ "30" # EnDash /\ "-" # Space
    BY DEF Space, EnDash, EmDash
  <1>2. "Cafe" # ","
    OBVIOUS
  <1>3. Plain("Cafe") = "Cafe" /\ Plain("Ion") = "Ion" /\ Plain("30") = "30" /\ Plain(EnDash) = "-"
    BY DEF Plain, EnDash, EmDash
  <1>4. /\ FoldName(<<"Cafe">>) = <<"Cafe">> /\ FoldName(<<"Ion">>) = <<"Ion">>
        /\ FoldName(room) = <<"Ion", "-", "30">>
    <2>1. ASSUME NEW a, a # Space, Plain(a) = a
          PROVE  FoldName(<<a>>) = <<a>>
      <3>1. FoldName(<<a>>) = <<Plain(a)>>
        BY <2>1, FoldedShort
      <3> QED
        BY <2>1, <3>1
    <2>2. ASSUME NEW a, NEW b, NEW c, a # Space, b # Space, c # Space,
                 Plain(a) # Space, Plain(b) # Space, Plain(c) # Space
          PROVE  FoldName(<<a, b, c>>) = <<Plain(a), Plain(b), Plain(c)>>
      BY <2>2, FoldedShort
    <2>3. FoldName(<<"Cafe">>) = <<"Cafe">> /\ FoldName(<<"Ion">>) = <<"Ion">>
      BY <1>1, <1>3, <2>1
    <2>4. FoldName(room) = <<Plain("Ion"), Plain(EnDash), Plain("30")>>
      BY <1>1, <1>3, <2>2
    <2> QED
      BY <1>3, <2>3, <2>4
  <1>5. DOMAIN cur = {<<"ion">>, <<"Ion">>, TheIon} /\ cur[<<"Ion">>] = <<"Ion">>
    BY CuratedKnown DEF Slug, Ion
  <1>6. <<"Cafe">> \notin DOMAIN cur /\ <<"Ion", "-", "30">> \notin DOMAIN cur
    BY <1>5 DEF TheIon
  <1>7. Trimmed(<<"Cafe">>) = <<"Cafe">> /\ Trimmed(room) = room
    <2>1. ASSUME NEW a, NEW b, NEW c, a # Space, b # Space, c # Space
          PROVE  Trimmed(<<a>>) = <<a>> /\ Trimmed(<<a, b, c>>) = <<a, b, c>>
      BY <2>1, TrimmedShort
    <2> QED
      BY <1>1, <2>1
  <1>8. InCafe = <<<<"Cafe">>>> /\ InRoom30 = <<room>>
    BY DEF InCafe, InRoom30
  <1> HIDE DEF cur
  <1>9. Flat(cur, <<"Cafe">>) = Sited(cur, <<"Cafe">>, <<>>)
    <2>1. ~ IsCurated(cur, <<"Cafe">>)
      BY <1>4, <1>6 DEF IsCurated
    <2>2. Dash(<<"Cafe">>) = 0
      BY <1>1, NoDash
    <2>3. Spots(<<"Cafe">>, <<",">>) = {}
      <3>1. \A c : Len(<<c>>) = 1 /\ <<c>>[1] = c
        OBVIOUS
      <3>2. Len(<<",">>) = 1 /\ <<",">> # <<"Cafe">>
        BY <1>2, <3>1, Zenon
      <3>3. \A sep : Len(sep) = 1 /\ sep # <<"Cafe">> => Spots(<<"Cafe">>, sep) = {}
        BY OnePiece
      <3> QED
        BY <3>2, <3>3, Zenon
    <2> QED
      BY <2>1, <2>2, <2>3, Zenon DEF Flat
  <1>10. Flat(cur, room) = Sited(cur, <<"Ion">>, <<"30">>)
    <2>1. FoldName(room) \notin DOMAIN cur
      BY <1>4, <1>6
    <2> QED
      BY <1>1, <2>1, DashedRoom, Zenon
  <1> HIDE DEF room
  <1>11. ~ IsCurated(cur, <<"Cafe">>) /\ IsCurated(cur, <<"Ion">>)
    BY <1>4, <1>5, <1>6 DEF IsCurated
  <1>12. Canonical(cur, <<"Cafe">>) = <<"Cafe">> /\ Canonical(cur, <<"Ion">>) = <<"Ion">>
    BY <1>4, <1>5, <1>11 DEF Canonical
  <1>13. ResolveVenue(cur, <<>>) = Unplaced
    BY DEF ResolveVenue
  <1>14. /\ ResolveVenue(cur, InCafe) = Flat(cur, <<"Cafe">>)
         /\ ResolveVenue(cur, InRoom30) = Flat(cur, room)
    <2>1. ASSUME NEW x, Trimmed(x) = x
          PROVE  ResolveVenue(cur, <<x>>) = Flat(cur, x)
      <3>1. <<x>> # <<>> /\ Len(<<x>>) = 1 /\ <<x>>[1] = x
        OBVIOUS
      <3> QED
        BY <2>1, <3>1 DEF ResolveVenue
    <2> QED
      BY <1>7, <1>8, <2>1
  <1> QED
    BY <1>9, <1>10, <1>11, <1>12, <1>13, <1>14 DEF Sited, Ion, cur

LEMMA PlacesDiffer == InCafe # InRoom30 /\ InCafe # <<>> /\ InRoom30 # <<>>
  <1>1. Len(InCafe) = 1 /\ InCafe[1] = <<"Cafe">>
    BY DEF InCafe
  <1>2. Len(InRoom30) = 1 /\ InRoom30[1] = <<"Ion", EnDash, "30">>
    BY DEF InRoom30
  <1>3. Len(<<"Cafe">>) = 1 /\ Len(<<"Ion", EnDash, "30">>) = 3
    OBVIOUS
  <1> QED
    BY <1>1, <1>2, <1>3

LEMMA RecordsTell ==
    ASSUME Accepted(Standard), NEW r, r.venues \in {<<>>, InCafe, InRoom30}
    PROVE  /\ Tells(Known, r) <=> r.venues # <<>>
           /\ TellsCurated(Known, r) <=> r.venues = InRoom30
           /\ r.venues = InRoom30 =>
                 SaidBy(Known, r).venue = Ion /\ SaidBy(Known, r).room = <<"30">>
           /\ r.venues = InCafe =>
                 SaidBy(Known, r).venue = <<"Cafe">> /\ SaidBy(Known, r).room = <<>>
  <1>1. InCafe # InRoom30 /\ InCafe # <<>> /\ InRoom30 # <<>>
    BY PlacesDiffer
  <1>2. Unplaced.venue = <<>> /\ <<"Cafe">> # <<>> /\ Ion # <<>>
    BY DEF Unplaced, Ion
  <1>3. SaidBy(Known, r) = ResolveVenue(Known.curated, r.venues)
    BY DEF SaidBy
  <1> HIDE DEF Known
  <1>4. CASE r.venues = <<>>
    BY <1>1, <1>2, <1>3, <1>4, PlacesTold DEF Tells, TellsCurated
  <1>5. CASE r.venues = InCafe
    BY <1>1, <1>2, <1>3, <1>5, PlacesTold DEF Tells, TellsCurated
  <1>6. CASE r.venues = InRoom30
    BY <1>1, <1>2, <1>3, <1>6, PlacesTold DEF Tells, TellsCurated
  <1> QED
    BY <1>4, <1>5, <1>6

(* For runs of any length: an event is in the room of the curated venue    *)
(* that one of its records names, else where one names any place, else at  *)
(* its group's.                                                            *)
THEOREM RunsPlaced == Spec => []VenueResolved
  <1> DEFINE Lies(e, said) ==
               <<e.venue, e.room>> = CASE InRoom30 \in said -> <<Ion, <<"30">>>>
                 [] InRoom30 \notin said /\ InCafe \in said -> <<<<"Cafe">>, <<>>>>
                 [] said = {<<>>} /\ e.group = HLUG -> <<Ion, <<>>>>
                 [] said = {<<>>} /\ e.group # HLUG -> <<<<>>, <<>>>>
             Knows == Accepted(Standard) /\ reg = Known /\ Recorded
  <1>1. ASSUME Knows, Unique, ToSet(raw) \subseteq RawEvent, NEW k \in DOMAIN out
        PROVE  Lies(out[k], {r.venues : r \in RecordsOf(out[k])})
    <2> DEFINE e == out[k]
               said == {r.venues : r \in RecordsOf(e)}
    <2>1. Given(reg, raw) /\ e \in EventsOf(reg, rejects, raw)
      BY <1>1 DEF Recorded, EventsOf, ToSet
    <2>2. PICK M \in Unrejected(reg, rejects, raw) :
             MadeOf(e, reg, raw, M) /\ PlacedBy(e, reg, raw, M)
      BY <2>1, EventsPlaced
    <2>3. M \in SUBSET DOMAIN raw /\ M # {}
      <3>1. Partition(Clusters(reg, raw), reg, raw)
        BY CollapsedDivide, <2>1
      <3> QED
        BY <2>2, <3>1 DEF Partition, Unrejected
    <2>4. \A i : Rec(i) = RecAt(reg, raw, i) /\ Rec(i).fp = FpAt(reg, raw, i)
      BY DEF Rec, RecAt, FpAt
    <2>5. ToSet(e.recs) = {Rec(i) : i \in M}
      <3>1. PICK o : /\ Lists(o, M)
                     /\ e.recs = [m \in DOMAIN o |->
                          [fp |-> FpAt(reg, raw, o[m]), feed |-> raw[o[m]].feed]]
        BY <2>2 DEF MadeOf
      <3>2. e.recs = [m \in DOMAIN o |-> RecAt(reg, raw, o[m])]
        BY <3>1 DEF RecAt
      <3>3. ToSet(e.recs) = {RecAt(reg, raw, j) : j \in M}
        BY <3>1, <3>2, MadeAlong
      <3> QED
        BY <2>4, <3>3
    <2>6. RecordsOf(e) = {raw[i] : i \in M}
      <3>1. \A i \in DOMAIN raw : Rec(i) \in ToSet(e.recs) <=> i \in M
        BY <1>1, <2>3, <2>4, <2>5 DEF Unique
      <3> HIDE DEF e
      <3>2. {i \in DOMAIN raw : Rec(i) \in ToSet(e.recs)} = M
        BY <2>3, <3>1
      <3> QED
        BY <3>2 DEF RecordsOf
    <2>7. said = {raw[i].venues : i \in M}
      BY <2>6
    <2> HIDE DEF e, said
    <2>8. \A i \in M : raw[i].venues \in {<<>>, InCafe, InRoom30}
      <3>1. ASSUME NEW r \in RawEvent
            PROVE  r.venues \in {<<>>, InCafe, InRoom30}
        <4>1. \A d \in Detail : d.venues \in {<<>>, InCafe, InRoom30}
          <5>1. \A d \in Detail : \/ d = [venues |-> <<>>, text |-> "x"]
                                 \/ d = [venues |-> InCafe, text |-> ""]
                                 \/ d = [venues |-> InRoom30, text |-> "y"]
            BY Zenon DEF Detail
          <5>2. \A v, t : [venues |-> v, text |-> t].venues = v
            OBVIOUS
          <5> QED
            BY <5>1, <5>2, Zenon
        <4>2. PICK s \in Says, u \in 1 .. MaxUid, t \in 1 .. 2, d \in Detail :
                 r = [feed |-> s[1], organizers |-> s[2], uid |-> u, start |-> t,
                      venues |-> d.venues, text |-> d.text, virtual |-> d.venues = InCafe]
          BY <3>1 DEF RawEvent
        <4> QED
          BY <4>1, <4>2
      <3>2. \A i \in M : raw[i] \in RawEvent
        BY <1>1, <2>3 DEF ToSet
      <3> QED
        BY <3>1, <3>2
    <2>9. \A i \in M :
             /\ Tells(reg, raw[i]) <=> raw[i].venues # <<>>
             /\ TellsCurated(reg, raw[i]) <=> raw[i].venues = InRoom30
             /\ raw[i].venues = InRoom30 =>
                   SaidBy(reg, raw[i]).venue = Ion /\ SaidBy(reg, raw[i]).room = <<"30">>
             /\ raw[i].venues = InCafe =>
                   SaidBy(reg, raw[i]).venue = <<"Cafe">> /\ SaidBy(reg, raw[i]).room = <<>>
      BY <1>1, <2>8, RecordsTell
    <2>10. InCafe # InRoom30 /\ InCafe # <<>> /\ InRoom30 # <<>>
      BY PlacesDiffer
    <2> DEFINE curated == {i \in M : TellsCurated(reg, raw[i])}
               telling == {i \in M : Tells(reg, raw[i])}
    <2>11. ASSUME InRoom30 \in said
          PROVE  Lies(e, said)
      <3>1. curated # {}
        BY <2>7, <2>9, <2>11
      <3>2. telling # {}
        BY <2>7, <2>9, <2>10, <2>11
      <3>3. PICK i \in M : i \in curated /\ Where(e) = Where(SaidBy(reg, raw[i]))
        BY <2>2, <3>1, <3>2 DEF PlacedBy, Best
      <3>4. e.venue = Ion /\ e.room = <<"30">>
        BY <2>9, <3>3 DEF Where
      <3>5. said # {<<>>}
        BY <2>10, <2>11
      <3>6. <<e.venue, e.room>> = <<Ion, <<"30">>>>
        BY <3>4
      <3> QED
        BY <2>11, <3>5, <3>6
    <2>12. ASSUME InRoom30 \notin said /\ InCafe \in said
          PROVE  Lies(e, said)
      <3>1. curated = {}
        BY <2>7, <2>9, <2>12
      <3>2. telling # {}
        BY <2>7, <2>9, <2>10, <2>12
      <3>3. PICK i \in M : i \in telling /\ Where(e) = Where(SaidBy(reg, raw[i]))
        BY <2>2, <3>1, <3>2 DEF PlacedBy, Best
      <3>4. raw[i].venues = InCafe
        BY <2>7, <2>8, <2>9, <2>12, <3>3
      <3>5. e.venue = <<"Cafe">> /\ e.room = <<>>
        BY <2>9, <3>3, <3>4 DEF Where
      <3>6. said # {<<>>}
        BY <2>10, <2>12
      <3>7. <<e.venue, e.room>> = <<<<"Cafe">>, <<>>>>
        BY <3>5
      <3> QED
        BY <2>12, <3>6, <3>7
    <2>13. ASSUME InRoom30 \notin said /\ InCafe \notin said
          PROVE  Lies(e, said)
      <3>1. \A i \in M : raw[i].venues = <<>>
        BY <2>7, <2>8, <2>13
      <3>2. said = {<<>>}
        BY <2>3, <2>7, <3>1
      <3>3. curated = {} /\ telling = {}
        BY <2>9, <2>10, <3>1
      <3>4. Where(e) = <<Default(reg, e.group), Unplaced.room, Unplaced.address>>
        BY <2>2, <3>3 DEF PlacedBy, Best
      <3>5. e.venue = Default(reg, e.group) /\ e.room = <<>>
        BY <3>4 DEF Where, Unplaced
      <3>6. Default(reg, e.group) = IF e.group = HLUG THEN Ion ELSE <<>>
        BY <1>1, CuratedKnown DEF Default
      <3>7. InRoom30 \notin said /\ InCafe \notin said
        BY <2>13
      <3> QED
        BY <3>2, <3>5, <3>6, <3>7
    <2>14. Lies(e, said)
      <3> HIDE DEF Lies
      <3> QED
        BY <2>11, <2>12, <2>13
    <2> QED
      BY <2>14 DEF e, said
  <1>2. Knows => VenueResolved
    BY <1>1 DEF VenueResolved
  <1>3. raw = <<>> /\ out = <<>> => VenueResolved
    BY DEF VenueResolved
  <1>4. Normalized => VenueResolved
    BY <1>2, <1>3, RunsRecorded DEF Normalized
  <1> QED
    BY <1>4, RunsNormalized, PTL
=============================================================================
