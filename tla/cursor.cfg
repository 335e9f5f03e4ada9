SPECIFICATION Spec
CONSTANTS
    Streams <- AllStreams
    Limits <- SomeLimits
    MaxExecs = 2
CHECK_DEADLOCK FALSE
INVARIANTS
    OwnColumns
    FalseMeansEnd
PROPERTY
    ImplementsCursor
