\* Batches that re-parent in one go: would what is stored load again?
SPECIFICATION RestartSpec
CONSTANTS
    a = a
    b = b
    earth = earth
    mars = mars
    None = None
    Soloc = {a, b}
    Astro = {earth}
    Abstract = {}
    ByteOrder <- MCByteOrder
    SegmentThreshold = 1
    SegmentTargetBytes = 3
    SegmentsPerLimit = 2
    CurrentStateWindow = 1
    OneClock = TRUE
    MaxEpoch = 4
    Priorities = {0}
    Batches <- MCBatches
    PeerLogs = {}
    Limits = {4}
    Overhead = 1
    CopiesMayFail = FALSE
    Evictable = {None}
    MaxAppends = 5
    MaxPushed = 9
INVARIANT StoredDataLoads
CHECK_DEADLOCK FALSE
