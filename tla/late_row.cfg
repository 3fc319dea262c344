\* A row that arrives after a younger row which changed no parent.
SPECIFICATION Spec
CONSTANTS
    a = a
    b = b
    earth = earth
    mars = mars
    None = None
    Soloc = {a, b}
    Astro = {earth}
    Abstract = {}
    ByteOrder <- MCByteOrder
    SegmentThreshold = 1
    SegmentTargetBytes = 3
    SegmentsPerLimit = 2
    CurrentStateWindow = 1
    MaxEpoch = 3
    Priorities = {1}
    Batches <- LateBatches
    PeerLogs = {}
    Limits = {4}
    Overhead = 1
    CopiesMayFail = FALSE
    Evictable = {None}
    MaxAppends = 4
    MaxPushed = 9
INVARIANT TreeFollowsPose
CHECK_DEADLOCK FALSE
