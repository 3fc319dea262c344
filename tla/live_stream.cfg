\* In-order streams of two entities, batches of one or two rows, any trims.
SPECIFICATION LiveSpec
CONSTANTS
    a = a
    b = b
    c = c
    earth = earth
    mars = mars
    None = None
    Soloc = {a, b}
    Astro = {earth}
    Abstract = {}
    MaxEpoch = 3
    MaxPushed = 6
    ByteOrder <- MCByteOrder
    Batches <- MCBatches
    PeerLogs = {}
INVARIANTS NeverCyclic RefusesExactlyCycles
PROPERTY IsParentHistory
CHECK_DEADLOCK FALSE
