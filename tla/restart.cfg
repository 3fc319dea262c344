\* Save and load in between, batches whose rows could be appended one by one.
SPECIFICATION RestartSpec
CONSTANTS
    a = a
    b = b
    earth = earth
    mars = mars
    None = None
    Soloc = {a, b}
    Astro = {earth}
    Abstract = {}
    ByteOrder <- MCByteOrder
    SegmentThreshold = 1
    SegmentTargetBytes = 3
    SegmentsPerLimit = 2
    CurrentStateWindow = 1
    OneClock = TRUE
    MaxEpoch = 4
    Priorities = {0}
    Batches <- StepwiseBatches
    PeerLogs = {}
    Limits = {4}
    Overhead = 1
    CopiesMayFail = FALSE
    Evictable = {None}
    MaxAppends = 5
    MaxPushed = 9
INVARIANTS StoredDataLoads ReloadKeepsPresent NeverCyclicAtAnyEpoch TransformsAreTrue WindowIsFull ResidentIsSum
CHECK_DEADLOCK FALSE
