SPECIFICATION Spec
CONSTANTS
  Closers = {"main", "test"}
  MaxXid = 4
INVARIANTS TypeOK ShutdownIsSafe DeliveredInOrder
PROPERTIES CloseReturns ChainEnds
CHECK_DEADLOCK FALSE
