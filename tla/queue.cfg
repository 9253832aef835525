SPECIFICATION FairSpec
CONSTANTS
    BatchSize = 2  MaxItems <- TwoAndThree  MaxFaults = 1  Signal = {TERM, INT}  NoOne = NoOne
INVARIANTS TypeOK InOnePlace OneFlushIsEnough CleanStopStoresWaiting
PROPERTY NothingWaitsForever
CHECK_DEADLOCK FALSE
