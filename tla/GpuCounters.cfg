SPECIFICATION Spec
CONSTANTS
    Version = ""
    LoadAvg = 5
    MemInfo <- MCMemInfo
    NetDev <- MCNetDev
    DiskStats <- MCDiskStats
    Hwmon <- MCHwmon
    Psi <- MCPsi
    Powercap <- MCPowercap
    Aer <- MCAer
    Disks <- MCDisks
    Gpus = {"gpu0", "gpu1"}
    mib <- MCMib
    Telemetry <- MCAllTelemetry
    Tiers = {"gpu"}
    Modes = {"user", "iowait"}
    MaxFaults <- MCFaults
    MaxUpsets <- MCUpsets
PROPERTY EccIsMonotonic
