SPECIFICATION ReadSpec
CONSTANTS
    Resolver = {r1, r2}
    BufferSize = 2
    BatchSize = 2
    MaxEvents = 4
    WriteFaults = TRUE
    IsBlocked <- MCIsBlocked
    QTypeOf <- MCQTypeOf
    Named = {"A", "AAAA"}
    Filter <- MCFilter
    DefaultLimit = 2
    MaxLimit = 2
    Limit = {1, 3}
CHECK_DEADLOCK FALSE
INVARIANTS
    TypeOK
    ExactlyOnceInOrder
    OrderlyExitKeepsAll
    SummaryCoversLog
    PagesMissNothing
PROPERTIES
    KeepsPromise
    Settled
    StopEnds
