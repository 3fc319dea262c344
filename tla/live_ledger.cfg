\* Entities that publish in order and re-parent, while a memory limit is set and lifted.
SPECIFICATION LiveSpec
CONSTANTS
    a = a
    b = b
    earth = earth
    mars = mars
    None = None
    Soloc = {a, b}
    Astro = {earth}
    Abstract = {}
    ByteOrder <- MCByteOrder
    SegmentThreshold = 1
    SegmentTargetBytes = 3
    SegmentsPerLimit = 2
    CurrentStateWindow = 1
    OneClock = FALSE
    MaxEpoch = 4
    Priorities = {0}
    Batches <- MCBatches
    PeerLogs = {}
    Limits = {None, 4}
    Overhead = 1
    CopiesMayFail = FALSE
    Evictable = {None}
    MaxAppends = 5
    MaxPushed = 9
INVARIANTS PresentTransformsSurvive StoredRowsAreExplained WithinBudget
CHECK_DEADLOCK FALSE
