SPECIFICATION Spec
CONSTANTS
    Stmts = {s1}
    NoStmt = NoStmt
    MaxDrops = 1
    Debug = FALSE
INVARIANT
    LostTransactionAborts
