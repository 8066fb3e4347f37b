SPECIFICATION FairSpec
CONSTANTS
    Readers = {r1, r2}
    MaxLog = 4
    MaxChunk = 2
    MaxFaults = 1
INVARIANT TypeOK
PROPERTIES ImplementsDelivery OutcomeEndsStreams
CHECK_DEADLOCK FALSE
