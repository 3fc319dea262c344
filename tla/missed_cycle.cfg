\* A stale row hides the cycle that its batch closes.
SPECIFICATION Spec
CONSTANTS
    a = a
    b = b
    earth = earth
    None = None
    Soloc = {a, b}
    Astro = {earth}
    MaxEpoch = 3
    ByteOrder <- MCByteOrder
    Batches <- MCBatches
    label = label
    Abstract = {label}
    MaxPushed = 3
    PeerLogs = {}
INVARIANT NoCycleAccepted
CHECK_DEADLOCK FALSE
