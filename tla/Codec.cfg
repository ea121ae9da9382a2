SPECIFICATION FairSpec
CONSTANTS
    Workflows = {w1, w2}
    Numbers <- MCNumbers
    Last4 <- MCLast4
    Data <- MCData
    Key = Key
    Foreign = Foreign
    NoPayload = NoPayload
    MaxFaults = 1
INVARIANTS
    TypeOK
    NothingInTheClear
    HistoriesReadable
    ResultsRight
PROPERTIES
    ImplementsOutcomes
    Completes
CHECK_DEADLOCK FALSE
