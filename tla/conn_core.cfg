SPECIFICATION FairSpec
CONSTANTS
    Stmts = {s1, s2}
    NoStmt = NoStmt
    MaxDrops = 2
    Debug = FALSE
INVARIANTS
    TypeOK
    RegisteredIffValid
    ValidHandleIsCurrent
    NoPendingAtSend
    LostTransactionIsReported
    AtMostOneSend
PROPERTY
    EveryCallReturns
