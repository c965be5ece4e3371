SPECIFICATION ASpec
CONSTANTS
    Tick = tick
    drain = drain
    TickBudget = 1
    DrainBudget = 1
    Procs <- MCProcs
    Events <- MCEvents
    Names <- MCNames
    NameOf <- MCNameOf
    Budget <- MCBudget
    NSinks = 2
    MaxAttempts = 2
    MaxBatch = 2
    Gens = 1
    MaxLost = 0
INVARIANTS ATypeOK NoSilentLoss ExitCutsOnlyDrains
PROPERTIES SignalEndsRun EverySinkIsTried
CHECK_DEADLOCK FALSE
