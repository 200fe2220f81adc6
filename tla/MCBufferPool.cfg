\* Two bins of 2 and 1 chunks, three holders, requests that fit both bins, the
\* larger one only, or none.
SPECIFICATION Spec
CONSTANTS
    h1 = h1
    h2 = h2
    h3 = h3
    NumBins = 2
    ChunkSize <- MCChunkSize
    ChunkCount <- MCChunkCount
    Holders <- MCHolders
    Sizes <- MCSizes
    Steps <- MCSteps
INVARIANTS
    TypeOK
    NoUseAfterFree
    NoDoubleFree
    NothingLost
    LayoutFillsChunk
