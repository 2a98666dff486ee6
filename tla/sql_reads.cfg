SPECIFICATION Spec
CONSTANTS
    Requests = {r1, r2}
    Sources <- MCSources
    EngineOf <- MCEvery
    Writable <- MCWritable
    Capacity <- MCCapacity
    Programs <- MCLiteReads
INVARIANTS ReadsChangeNothing
CHECK_DEADLOCK FALSE
