CONSTANTS
    Depth = {d1, d2}
    EmptyDepth = d1
    QueueCapacity = 3
    SnapshotInterval = 2
    MaxSequence = 8
    MaxPublish = 9
SPECIFICATION FairSpec
INVARIANTS
    TypeOK
    ShowsEngineDepth
    NoGapBeforeUpdate
    NothingRefused
    SnapshotsRegular
    StaleOnlyAfterDrop
PROPERTIES
    EachEventShown
