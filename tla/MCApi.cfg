SPECIFICATION ApiSpec
CONSTANTS
    Groups = {"linux", "rust"}
    Feeds = {"feed"}
    Fps = {"a", "b", "c"}
    Starts = {9}
    Registries <- MCRegistries
    Batches <- MCBatches
    None = None
    VenueOf <- MCVenueOf
    SlugOf <- MCSlugOf
    CuratedBy <- MCCuratedBy
    MaxTime = 2
    Clients = {c1}
INVARIANTS ApiTypeOK StampCovers GroupsNamed DrainedFirst CuratedShown VenueIsNamed
PROPERTY Answered
CHECK_DEADLOCK FALSE
