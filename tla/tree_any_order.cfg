\* Every order of ingests, merges and trims, stale and conflicting rows included.
SPECIFICATION Spec
CONSTANTS
    a = a
    b = b
    earth = earth
    label = label
    None = None
    Soloc = {a, b}
    Astro = {earth}
    Abstract = {label}
    MaxEpoch = 3
    MaxPushed = 3
    ByteOrder <- MCByteOrder
    Batches <- MCBatches
    PeerLogs <- MCPeerLogs
INVARIANTS LatestIsReplay
PROPERTIES NeverRollsBack CommitIsSequential
CHECK_DEADLOCK FALSE
