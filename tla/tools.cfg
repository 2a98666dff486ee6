SPECIFICATION FairCallSpec
CONSTANTS
    Messages <- MCMessages
    Items <- MCItems
    PartOf <- MCPartOf
    TypeOf <- MCTypeOf
    SampleLimit = 1
    RangeSize = 1
    WriteTimeout = 2
    SqliteTimeout = 1
    DrainTimeout = 1
    MaxChanges <- MCMaxChanges
    Signalled <- MCSignalled
INVARIANTS CallTypeOK LastingDataIsAnswered AnswersWereReal DeadlinesGoUnreported LostAnswersAreExplained
PROPERTIES EveryCallEnds
CHECK_DEADLOCK FALSE
