------------------------ MODULE MCSybaseConnection ------------------------
EXTENDS SybaseConnection, TLC

StmtSymmetry == Permutations(Stmts)
=============================================================================
