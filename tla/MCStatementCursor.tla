------------------------ MODULE MCStatementCursor ------------------------
EXTENDS StatementCursor

Row(id, fmt)    == [id |-> id, fmt |-> fmt, ok |-> TRUE]
BadRow(id, fmt) == [id |-> id, fmt |-> fmt, ok |-> FALSE]
Result(type, fmt, rows) == [type |-> type, fmt |-> fmt, rows |-> rows, count |-> -1]
Done(count)     == [type |-> "DONE", fmt |-> "none", rows |-> <<>>, count |-> count]
Plain(type)     == Result(type, "none", <<>>)

\* A select of three rows; two selects of one batch, with another format; an
\* update; a procedure with a select, a status and parameters; a parameter
\* result first; a row that cannot be converted between two that can; a batch
\* that fails, and one that is broken off.
Three   == <<Result("ROW", "a", <<Row(1, "a"), Row(2, "a"), Row(3, "a")>>), Done(3)>>
Batch   == <<Result("ROW", "a", <<Row(4, "a"), Row(5, "a")>>), Done(2), Plain("SUCCEED"),
             Done(1), Result("ROW", "b", <<Row(6, "b")>>), Done(1)>>
Update  == <<Plain("SUCCEED"), Done(2)>>
Proc    == <<Result("ROW", "a", <<Row(7, "a")>>), Done(1),
             Result("STATUS", "s", <<Row(8, "s")>>),
             Result("PARAM", "p", <<Row(9, "p")>>), Done(-1)>>
Params  == <<Plain("SUCCEED"), Result("PARAM", "p", <<Row(10, "p")>>), Done(-1)>>
BadOne  == <<Result("ROW", "a", <<Row(11, "a"), BadRow(12, "a"), Row(13, "a")>>), Done(3)>>
Failing == <<Result("ROW", "a", <<Row(14, "a")>>), Done(1), Plain("SUCCEED"),
             Plain("FAIL"), Result("ROW", "b", <<Row(15, "b")>>), Done(1)>>
Broken  == <<Result("ROW", "a", <<Row(16, "a")>>), Done(1), Plain("BROKEN"),
             Result("ROW", "b", <<Row(17, "b")>>), Done(1)>>

AllStreams == {Three, Batch, Update, Proc, Params, BadOne, Failing, Broken}
SomeLimits == {-1, 0, 1, 2}
=============================================================================
