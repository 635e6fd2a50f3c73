CONSTANTS
    HeaderLen = 2
    Messages <- AllMessages
    PayloadLen <- PayloadLens
    Heartbeats = {"hb"}
    Goodbye = "bye"
    MaxFrame = 2
    BufferSize = 3
    MaxFrames = 2
    Key = 3
    BatchOf <- Batches
    Xs <- AllXs
    Dists <- AllDists
    BadKind = "lost"
SPECIFICATION IngestSpec
PROPERTY PartialReadDropsWorker
\* A connection ends.
CHECK_DEADLOCK FALSE
