SPECIFICATION Spec
CONSTANTS
    MaxGroups = 3
    Streams <- Batches
INVARIANTS
    
    FailureReported
