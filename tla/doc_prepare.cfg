SPECIFICATION Spec
CONSTANTS
    Stmts = {s1, s2}
    NoStmt = NoStmt
    MaxDrops = 1
    Debug = FALSE
SYMMETRY StmtSymmetry
INVARIANT
    PrepareReplacesActive
