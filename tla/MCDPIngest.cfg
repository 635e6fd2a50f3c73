CONSTANTS
    HeaderLen = 2
    Messages <- AllMessages
    PayloadLen <- PayloadLens
    Heartbeats = {"hb"}
    Goodbye = "bye"
    MaxFrame = 2
    BufferSize = 3
    MaxFrames = 2
    Key = 3
    BatchOf <- Batches
    Xs <- AllXs
    Dists <- AllDists
    BadKind = "lost"
SPECIFICATION IngestSpec
INVARIANT PairsAreReported
PROPERTIES ImplementsChannel PairIsNoticed
\* A connection ends.
CHECK_DEADLOCK FALSE
