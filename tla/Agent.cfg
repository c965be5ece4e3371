SPECIFICATION ASpec
CONSTANTS
    Tick = tick
    drain = drain
    TickBudget = 2
    DrainBudget = 1
    Procs <- MCProcs
    Events <- MCEvents
    Names <- MCNames
    NameOf <- MCNameOf
    Budget <- MCBudget
    NSinks = 1
    MaxAttempts = 3
    MaxBatch = 2
    Gens = 3
    MaxLost = 1
INVARIANTS OkMeansReceived ReceiptsBounded FirstReceiptsInOrder ViewsAgree LateWorkBounded
PROPERTIES ImplementsChannel
CHECK_DEADLOCK FALSE
