SPECIFICATION Spec
CONSTANTS
    Version = ""
    LoadAvg = 5
    MemInfo <- MCMemInfo
    NetDev <- MCNetDev
    DiskStats <- MCDiskStats
    Hwmon <- MCHwmon
    Psi <- MCPsi
    Powercap <- MCPowercap
    Aer <- MCAer
    Disks <- MCDisks
    Gpus = {"gpu0", "gpu1"}
    mib <- MCMib
    Telemetry <- MCAllTelemetry
    Tiers = {"core", "smart", "gpu"}
    Modes = {"user", "iowait"}
    MaxFaults <- MCFaults
    MaxUpsets <- MCUpsets
INVARIANTS FaultsHideOnlyTheirOwn HealthIsEvidenced SmartSurfacesAgree GpuSurfacesAgree ThrottleActiveIffLimited
PROPERTIES UtilIsOfInterval EccDropsOnlyUnanswered
