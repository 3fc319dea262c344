\* Three calls in parallel, up to two starts, a crash or a SIGTERM at any point.
SPECIFICATION Spec
CONSTANTS
    c1 = c1
    c2 = c2
    c3 = c3
    Call = {c1, c2, c3}
    Main = Main
    None = None
    Torn = Torn
    Setups <- MCSetups
    MaxBatches = 2
    MaxStarts = 2
INVARIANTS LimitStaysInForce HoldsWhatItUses
PROPERTIES IsLedgerService SavesAreSound OrderlyRestartKeepsLedger CallsEnd DrainEnds
CHECK_DEADLOCK FALSE
