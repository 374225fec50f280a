SPECIFICATION Spec
CONSTANTS
    Workers = {w1, w2}
    Clients = {c1}
    Jobs = {j1, j2}
    None = None
    HitsOf <- MCHits
    CorpusKeys = {k1}
    CorpusTexts <- MCTexts
    Bodies = {b1}
    EmbedBatch = 2
    ChunkSize = 3
    Overlap = 1
    MaxChunks = 3
    MaxPackItems = 2
    MaxItemChars = 3
    MaxPackBytes = 5
    RetrievalK = 2
    Overfetch = 1
    MaxCandidates = 2
    Distance <- MCDistance
    MaxIngests = 1
    MaxFaults = 1
SYMMETRY Symmetry
CHECK_DEADLOCK FALSE
INVARIANTS
    EvidenceIsStored
    PackClaimsVerify
    NoWaitCycle
    ReturnedIsEmbedded
    ChunksCover
