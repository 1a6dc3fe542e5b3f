SPECIFICATION SyncSpec
CONSTANTS
    None = None
    Instants = {2, 4}
    Starts = {2, 4}
    MaxTime = 4
    Fps <- MCFps
    Groups <- MCGroups
    Feeds <- MCFeeds
    Sources <- MCSources
    Catalog <- MCCatalog
    Upstream <- MCUpstream
    Answers <- MCAnswers
    Files <- MCFiles
    Registries <- MCRegistries
    Batches <- MCBatches
INVARIANTS PipelineOK MeetingsStored GateIsTheFiles
PROPERTIES UnheardKept FirstSeenKept
CHECK_DEADLOCK FALSE
