\* Two rows of one entity and epoch, in segments of different ages.
SPECIFICATION Spec
CONSTANTS
    a = a
    b = b
    earth = earth
    mars = mars
    None = None
    Soloc = {a, b}
    Astro = {earth}
    Abstract = {}
    ByteOrder <- MCByteOrder
    SegmentThreshold = 1
    SegmentTargetBytes = 3
    SegmentsPerLimit = 2
    CurrentStateWindow = 1
    MaxEpoch = 3
    Priorities = {0, 1}
    Batches <- LedgerBatches
    PeerLogs = {}
    Limits = {None, 4}
    Overhead = 1
    CopiesMayFail = FALSE
    Evictable = {None}
    MaxAppends = 3
    MaxPushed = 4
INVARIANT CacheAgreesWithScan
CHECK_DEADLOCK FALSE
