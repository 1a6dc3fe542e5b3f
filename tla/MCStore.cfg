SPECIFICATION Spec
CONSTANTS
    f1 = f1
    f2 = f2
    f3 = f3
    g1 = g1
    g2 = g2
    ion = ion
    None = None
    MaxBatch = 2
    MaxRecords = 3
    MaxTime = 2
    Fps <- MCFps
    Groups <- MCGroups
    Feeds <- MCFeeds
    Starts = {1}
    Batches <- MCBatches
    Registries <- MCRegistries
INVARIANTS TypeOK ProvenanceLive OwnRow CountsAddUp
PROPERTIES OldestKept GateHolds SyncedAdvances Catalogued
SYMMETRY Symmetry
CHECK_DEADLOCK FALSE
