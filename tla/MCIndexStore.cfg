SPECIFICATION StoreSpec
CONSTANTS
    Paths <- MCPaths
    Versions = {0, 1, 2}
    Builds <- MCBuilds
    Batches <- MCBatches
    Prebuilt <- MCPrebuilt
    ShardFiles = 1
    Readers = {r1}
    Lost = Lost
    None = None
    MaxGen = 3
    MaxFailures = 1
    MaxEnds = 1
INVARIANTS
    SegmentsOutliveReaders
    NothingLeaks
    OneLiveRecord
PROPERTIES
    PublishesIndex
CHECK_DEADLOCK FALSE
