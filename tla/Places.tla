------------------------------- MODULE Places -------------------------------
(***************************************************************************)
(* internal/normalize/venue.go: where an event is, from what a feed says   *)
(* of its venues.                                                          *)
(*                                                                         *)
(* A name is a sequence of pieces: a space, a comma, a dash (the hyphen,   *)
(* the en dash, the em dash) or letters.  Letters with no space between    *)
(* them are one word, so a word can begin with another.  A feed lists the  *)
(* names of nested places, the innermost first; curated gives, for a       *)
(* folded name or alias, the curated spelling.  Of the address only what   *)
(* is recovered from a flat LOCATION is kept, and of that street and city. *)
(***************************************************************************)
EXTENDS Integers, SequencesExt, FiniteSetsExt

Space == " "
EnDash == "en"
EmDash == "em"

(* Some of the words a room's name begins with.                            *)
RoomPrefixes == {<<"Room">>, <<"Conference", Space, "Room">>, <<"Suite">>}

Trimmed(s) ==
    LET inked == {i \in DOMAIN s : s[i] # Space}
    IN  IF inked = {} THEN <<>> ELSE SubSeq(s, Min(inked), Max(inked))

(* core.FoldName: one dash, one space at a time.  Case is left out.        *)
Plain(c) == IF c \in {EnDash, EmDash} THEN "-" ELSE c

Spaced(t, c) == IF c = Space /\ t # <<>> /\ Last(t) = Space THEN t ELSE Append(t, Plain(c))

Folded(s) ==
    LET upto[n \in 0 .. Len(s)] == IF n = 0 THEN <<>> ELSE Spaced(upto[n - 1], s[n]) IN upto

FoldName(s) == Trimmed(Folded(s)[Len(s)])

----------------------------------------------------------------------------
(* strings.Cut, both sides trimmed                                         *)

Spots(s, sep) == {i \in 1 .. Len(s) - Len(sep) + 1 : SubSeq(s, i, i + Len(sep) - 1) = sep}

Before(s, sep) == Trimmed(SubSeq(s, 1, Min(Spots(s, sep)) - 1))
After(s, sep) == Trimmed(SubSeq(s, Min(Spots(s, sep)) + Len(sep), Len(s)))

(* strings.Split at the commas, the empty parts left out.                  *)
Parts(s) ==
    LET add(t, c) == IF c = "," THEN Append(t, <<>>)
                     ELSE [t EXCEPT ![Len(t)] = Append(@, c)]
        all == FoldLeft(add, <<<<>>>>, s)
    IN  SelectSeq([k \in DOMAIN all |-> Trimmed(all[k])], LAMBDA p : p # <<>>)

----------------------------------------------------------------------------

(* What a venue nobody has curated keeps of a flat LOCATION.               *)
SplitFlatAddress(rest) ==
    LET parts == SelectSeq(Parts(rest), LAMBDA p : p # <<"USA">>)
    IN  [street |-> IF Len(parts) > 0 THEN parts[1] ELSE <<>>,
         city   |-> IF Len(parts) > 1 THEN parts[2] ELSE <<>>]

NoAddress == [street |-> <<>>, city |-> <<>>]

(* A room only if the segment begins with a room's word: a street address  *)
(* may contain one.                                                        *)
RoomSegment(rest) ==
    LET seg == IF Spots(rest, <<",">>) = {} THEN Trimmed(rest) ELSE Before(rest, <<",">>)
        isRoom == \E p \in RoomPrefixes :
                     FoldName(seg) = p \/ IsPrefix(Append(p, Space), FoldName(seg))
    IN  IF isRoom THEN seg ELSE <<>>

(* stripVenuePrefix: the inner place is named after the outer one.         *)
NamedAfter(inner, outer) == FoldName(outer) # <<>> /\ IsPrefix(FoldName(outer), FoldName(inner))

Beyond(s, t) == SubSeq(s, Len(t) + 1, Len(s))

Ending(s, n) == SubSeq(s, Len(s) - n + 1, Len(s))

PiecesFromInk(tail) ==
    LET inked == {i \in DOMAIN tail : tail[i] \notin {Space, "-"}}
    IN  IF inked = {} THEN 0 ELSE Len(tail) - Min(inked) + 1

(* What is left of its name, in its own spelling: as many pieces from its  *)
(* end as are left of the folded one.                                      *)
RoomIn(inner, outer) ==
    Trimmed(Ending(inner, PiecesFromInk(Beyond(FoldName(inner), FoldName(outer)))))

(* splitOnDash tries the separators in this order.                         *)
Dashes == << <<EnDash>>, <<EmDash>>, <<Space, "-", Space>> >>

Dash(s) == SelectInSeq(Dashes, LAMBDA sep : Spots(s, sep) # {})

IsCurated(curated, name) == FoldName(name) \in DOMAIN curated

(* canonicalVenue, or the name as it came.                                 *)
Canonical(curated, name) ==
    IF IsCurated(curated, name) THEN curated[FoldName(name)] ELSE name

Sited(curated, name, room) ==
    [venue |-> Canonical(curated, name), room |-> room, address |-> NoAddress]

OuterWins(curated, vs) ==
    LET outer == Trimmed(vs[Len(vs)])
        inner == Trimmed(vs[1])
    IN  Sited(curated, outer, IF NamedAfter(inner, outer) THEN RoomIn(inner, outer) ELSE inner)

(* A list of nested places: a room of the outermost if it is named after   *)
(* it, else a place of its own.                                            *)
Nested(curated, vs) ==
    LET outer == Trimmed(vs[Len(vs)])
        inner == Trimmed(vs[1])
    IN  IF NamedAfter(inner, outer) THEN Sited(curated, outer, RoomIn(inner, outer))
        ELSE Sited(curated, inner, <<>>)

Halved(curated, raw, sep) == Sited(curated, Before(raw, sep), After(raw, sep))

Addressed(curated, name, rest) ==
    IF IsCurated(curated, name) THEN Sited(curated, name, RoomSegment(rest))
    ELSE [Sited(curated, name, <<>>) EXCEPT !.address = SplitFlatAddress(rest)]

(* One string: a name, a name and a room with a dash between, or a flat    *)
(* LOCATION that begins with the name.                                     *)
Flat(curated, raw) ==
    IF IsCurated(curated, raw) THEN Sited(curated, raw, <<>>)
    ELSE IF Dash(raw) # 0
         THEN Halved(curated, raw, Dashes[Dash(raw)])
    ELSE IF Spots(raw, <<",">>) # {}
         THEN Addressed(curated, Before(raw, <<",">>), After(raw, <<",">>))
    ELSE Sited(curated, raw, <<>>)

Unplaced == [venue |-> <<>>, room |-> <<>>, address |-> NoAddress]

ResolveVenue(curated, vs) ==
    IF vs = <<>> THEN Unplaced
    ELSE IF Len(vs) > 1 THEN Nested(curated, vs)
    ELSE Flat(curated, Trimmed(vs[1]))

=============================================================================
