SPECIFICATION Spec
CONSTANTS
    Files <- MCFiles
    Envs <- MCEnvs
    Upstream <- MCUpstream
    Requests = {r1, r2}
    Second = 2
    DurationSpan = 1073741824
INVARIANTS PeriodsAreMeant AsConfigured OneOwnerPerFamily SignedOrRefused StoreReleased
PROPERTIES SignalEndsProcess
CHECK_DEADLOCK FALSE
