SPECIFICATION VenuesSpec
CONSTANTS
    Groups = {"linux"}
    Feeds = {"feed"}
    Fps = {"a", "b"}
    Starts = {9}
    Registries <- MCRegistries
    Batches <- MCBatches
    VenueOf <- MCVenueOf
    SlugOf <- MCSlugOf
    CuratedBy <- MCCuratedBy
    None = None
    MaxTime = 2
INVARIANT VenueIsNamed
CHECK_DEADLOCK FALSE
