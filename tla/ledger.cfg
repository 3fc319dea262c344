\* Rows in any order under changing memory limits, copies and evictions that fail at
\* any point, and topology merged from a peer.
SPECIFICATION Spec
CONSTANTS
    a = a
    b = b
    earth = earth
    mars = mars
    None = None
    Soloc = {a, b}
    Astro = {earth}
    Abstract = {}
    ByteOrder <- MCByteOrder
    SegmentThreshold = 1
    SegmentTargetBytes = 3
    SegmentsPerLimit = 2
    CurrentStateWindow = 1
    MaxEpoch = 3
    Priorities = {0, 1}
    Batches <- LedgerBatches
    PeerLogs <- MCPeerLogs
    Limits = {4}
    Overhead = 1
    CopiesMayFail = TRUE
    Evictable = {0, 1, None}
    MaxAppends = 3
    MaxPushed = 4
INVARIANTS TypeOK StoredOnce CurrentStateSurvivesEviction ResidentIsSum LatestRowsKept TreeReplays FastPathShowsNewest
CHECK_DEADLOCK FALSE
