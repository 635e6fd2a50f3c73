CONSTANTS
    Lo = 10
    Hi = 15
    BlockSize = 2
    LeaseTTL = 2
    Workers = {w1, w2}
    MaxLeases = 4
    Los <- MCLos
    Spans <- MCSpans
    Sizes <- MCSizes
SPECIFICATION RegistrySpec
INVARIANTS Disjoint CoversWhenDone TypeOK TableMatchesBlocks DisjointLeases
PROPERTIES NoResurrection SweptOnlyByHolder ImplementsLedger
SYMMETRY Symmetry
\* The grids on which no method is called stop when they are built.
CHECK_DEADLOCK FALSE
