SPECIFICATION FairSpec
CONSTANTS
    Requests = {r1, r2}
    Sources <- MCSources
    EngineOf <- MCEvery
    Writable <- MCWritable
    Capacity <- MCCapacity
    Programs <- MCLite
INVARIANTS TypeOK KillSwitch OnlyTextsLeaveTransactions ConnectionsAccounted CutAnswersAreUnread OnlyWritersChangeData
PROPERTIES EveryCallEnds
CHECK_DEADLOCK FALSE
