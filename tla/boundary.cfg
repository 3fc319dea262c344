\* Federation, names, almanac queries, reprojection, intake and startup, one at a time.
SPECIFICATION Spec
CONSTANTS
    a = a
    b = b
    earth = earth
    p = p
    q = q
    reg1 = reg1
    reg2 = reg2
    None = None
    Soloc = {a, b}
    Astro = {earth}
    Abstract = {}
    MaxEpoch = 2
    ByteOrder <- MCByteOrder
    Peer = {p, q}
    Writes <- MCWrites
    MaxLog = 2
    MaxExports = 1
    MaxTrims = 1
    Text <- MCText
    Lower <- MCLower
    Unusable = {""}
    Registrar = {reg1, reg2}
    Forged <- MCForged
    Claims <- MCClaims
    MaxPayloads = 1
    Kernels <- MCKernels
    Instants = {6, 7, 8}
    SnapshotBodies <- MCSnapshotBodies
    OrbitRequests <- MCOrbitRequests
    SampleCounts = {0, 1, 2, 3, 4, 5}
    MaxOrbitSamples = 4
    Period <- MCPeriod
    Unbound <- MCUnbound
    MaxSnapshots = 2
    RowBatches <- MCRowBatches
    Targets = {"ICRF", "Earth", "Sun", "Nowhere"}
    TargetUnits = {1, 0}
    CallKernels <- MCCallKernels
    ResolveToRoot <- MCResolveToRoot
    SchemaFiles <- MCSchemaFiles
    IntakeBatches <- MCIntakeBatches
    Measured <- MCMeasured
    Files <- MCFiles
    IdColumn = "entity_id"
    IdKind <- MCIdKind
    TaiOf <- MCTaiOf
    CenturyLength = 4
    MaxCenturies = 2
    J2000 = 4
    TimeRanges <- MCTimeRanges
    Origins = {{}, {1}}
    Radii <- MCRadii
    MaxIntake = 2
    Environments <- MCEnvironments
    Addresses = {"127.0.0.1:1", "0.0.0.0:50051"}
    Scales <- MCScales
    MaxUsize = 255
INVARIANTS EdgeIsYoungestKnown RedeliveryMovesNoEdge BindingsMint DisplaysAgree
INVARIANTS AlmanacAnswersAreWhole TransformsRowByRow StoredIsWhatWasSent QueriesAreExact
INVARIANTS StartsAsConfigured
PROPERTIES PeersConverge ImportIsAllOrNothing
CHECK_DEADLOCK FALSE
