\* Trimming a log whose events did not arrive in order.
SPECIFICATION Spec
CONSTANTS
    a = a
    b = b
    earth = earth
    None = None
    Soloc = {a, b}
    Astro = {earth}
    MaxEpoch = 4
    ByteOrder <- MCByteOrder
    Batches <- LateRows
    label = label
    Abstract = {label}
    MaxPushed = 3
    PeerLogs = {}
PROPERTY TrimKeepsAnswers
CHECK_DEADLOCK FALSE
