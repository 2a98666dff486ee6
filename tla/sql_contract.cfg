SPECIFICATION Spec
CONSTANTS
    Requests = {r1, r2}
    Sources <- MCSources
    EngineOf <- MCEvery
    Writable <- MCWritable
    Capacity <- MCCapacity
    Programs <- MCKept
INVARIANTS ReadsChangeNothing OkMeansDurable ReportedErrorsAreClean
PROPERTIES ContractSpec
CHECK_DEADLOCK FALSE
