SPECIFICATION ApiSpec
CONSTANTS
    Groups = {"linux", "rust"}
    Feeds = {"feed"}
    Fps = {"a", "b", "c"}
    Starts = {9}
    Registries <- MCRegistries
    Batches <- MCBatches
    None = None
    VenueOf <- MCVenueOf
    SlugOf <- MCSlugOf
    CuratedBy <- MCCuratedBy
    MaxTime = 2
    Clients = {c1}
INVARIANT SourcesOfEvent
CHECK_DEADLOCK FALSE
