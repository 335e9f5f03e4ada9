SPECIFICATION Spec
CONSTANTS
    Streams <- AllStreams
    Limits <- SomeLimits
    MaxExecs = 1
CHECK_DEADLOCK FALSE
INVARIANT
    FetchRowsKeepsLimit
