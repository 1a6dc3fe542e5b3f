SPECIFICATION Spec
CONSTANTS
    MaxRaw = 3
    MaxUid = 2
    Kinds = {"tribe", "ics", "html", "bevy"}
    HttpsUrls = {"ion:feed", "hlug:feed", "meetup:feed"}
INVARIANTS EventsAreMeetings NothingLost OrderFree VenueResolved PlaceRead OneMeaning
CHECK_DEADLOCK FALSE
