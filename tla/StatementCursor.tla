-------------------------- MODULE StatementCursor --------------------------
(***************************************************************************)
(* class Statement as a cursor: exec(), next(), fetch_row(), fetch_rows(), *)
(* fetch_columns() and get_output() over the results of one command, with  *)
(* _execRes, the row next() has read ahead.  A call is a sequence of       *)
(* ct-lib calls; the session is up (SybaseConnection has the reconnects).  *)
(***************************************************************************)
EXTENDS CommandResults

CONSTANTS Limits,    \* row counts passed to fetch_rows() and fetch_columns()
          MaxExecs   \* bound on the number of executions

ASSUME CursorAssumption ==
    /\ Limits \subseteq Int
    /\ MaxExecs \in Nat

VARIABLES
    stream,  \* history: the results of the last execution
    ran,     \* history: those of all executions
    execs,   \* number of executions
    c,       \* context, the command of the statement
    held,    \* _execRes: at most one row
    got,     \* history: rows handed out since the last exec()
    op,      \* the running (at "idle": the last) call
    pc,      \* where it is
    limit,   \* the row count passed to it
    n,       \* its countdown of rows
    batch,   \* the list it builds (at "idle": returned)
    ret,     \* what next() returned
    xsink,   \* the call raised an exception
    execed   \* the last exec() succeeded, so Qore accepts the other calls

vars == <<stream, ran, execs, c, held, got, op, pc, limit, n, batch, ret, xsink, execed>>
hist == <<stream, ran, execs>>

-----------------------------------------------------------------------------
Begin(o) ==
    /\ pc = "idle"
    /\ op' = o /\ xsink' = FALSE /\ ret' = FALSE /\ batch' = <<>>

\* exec(): the previous command is canceled and replaced, the first result of
\* the new one is read; _execRes is kept.
Exec(s) ==
    /\ execs < MaxExecs
    /\ Begin("exec")
    /\ c' = NewCommand(s)
    /\ stream' = s /\ ran' = ran \cup {s} /\ execs' = execs + 1 /\ got' = <<>> /\ execed' = FALSE
    /\ pc' = "results"
    /\ UNCHANGED <<held, limit, n>>

Next_ ==
    /\ execed
    /\ Begin("next")
    /\ pc' = "results"
    /\ UNCHANGED <<hist, c, held, got, limit, n, execed>>

\* Mutated form of Released: the row stays in _execRes.
ReleasedStays(row) == row

\* release_res()
Released(row) == <<>>

FetchRow ==
    /\ execed
    /\ Begin("fetch_row")
    /\ got' = got \o held /\ held' = Released(held)
    /\ UNCHANGED <<hist, c, pc, limit, n, execed>>

FetchRows(rows) ==
    /\ execed
    /\ Begin("fetch_rows")
    /\ limit' = rows /\ n' = rows
    /\ pc' = "loop"
    /\ UNCHANGED <<hist, c, held, got, execed>>

\* fetch_columns(rows); get_output() is read_cols() without a limit.
ReadColumns(o, rows) ==
    /\ execed
    /\ Begin(o)
    /\ limit' = rows /\ n' = rows
    /\ pc' = "columns"
    /\ UNCHANGED <<hist, c, held, got, execed>>

-----------------------------------------------------------------------------
(* How a call ends.                                                        *)

Raise ==
    /\ pc' = "idle" /\ xsink' = TRUE /\ batch' = <<>>
    /\ UNCHANGED <<got, ret, execed>>

\* The list is returned.
ReturnList(rows) ==
    /\ pc' = "idle" /\ got' = got \o rows /\ batch' = rows
    /\ UNCHANGED <<ret, xsink, execed>>

\* next() returns to its caller: Qore, or the loop of fetch_rows().
NextReturns(has) ==
    \/ /\ op = "next"
       /\ pc' = "idle" /\ ret' = has
       /\ UNCHANGED <<got, batch, xsink, execed>>
    \/ /\ op = "fetch_rows" /\ has
       /\ pc' = "loop"
       /\ UNCHANGED <<got, batch, ret, xsink, execed>>
    \/ /\ op = "fetch_rows" /\ ~has
       /\ ReturnList(batch)

-----------------------------------------------------------------------------
\* expect_row()
ExpectRow(last) == last \in {"ROW", "PARAM"}

\* What exec() and next() do when read_next_result() has left lastRes.
WithLastRes(last) ==
    \/ /\ op = "exec"
       /\ pc' = "idle" /\ execed' = TRUE /\ UNCHANGED <<got, batch, ret, xsink>>
    \/ /\ op # "exec" /\ ExpectRow(last) /\ held = <<>>
       /\ pc' = "fetch" /\ UNCHANGED <<got, batch, ret, xsink, execed>>
    \/ /\ op # "exec" /\ ~(ExpectRow(last) /\ held = <<>>)
       /\ NextReturns(held # <<>>)

\* read_next_result() in a state that has no next result.
KeepResult ==
    /\ pc = "results" /\ ~Readable(c)
    /\ WithLastRes(c.last)
    /\ UNCHANGED <<hist, c, held, op, limit, n>>

\* One ct_results() of read_next_result(), which loops on RES_RETRY.
ReadResult ==
    /\ pc = "results" /\ Readable(c)
    /\ c' = NextResult(c)
    /\ IF ResultRaises(c) THEN Raise
       ELSE IF c'.last = "RETRY" THEN UNCHANGED <<pc, got, batch, ret, xsink, execed>>
       ELSE WithLastRes(c'.last)
    /\ UNCHANGED <<hist, held, op, limit, n>>

\* command::fetch_row() in next().
FetchAhead ==
    /\ pc = "fetch"
    /\ LET d == WithColumns(c) IN
       \/ /\ ~ColumnsRaise(c) /\ HasRow(d) /\ ~RowRaises(d)
          /\ c' = WithoutRow(d) /\ held' = <<Decoded(d)>>
          /\ NextReturns(TRUE)
       \/ /\ ~ColumnsRaise(c) /\ ~HasRow(d)
          /\ c' = WithoutRows(d) /\ UNCHANGED held
          /\ NextReturns(FALSE)
       \/ /\ ~ColumnsRaise(c) /\ RowRaises(d)
          /\ c' = WithoutRow(d) /\ UNCHANGED held
          /\ Raise
       \/ /\ ColumnsRaise(c) /\ UNCHANGED <<c, held>>
          /\ Raise
    /\ UNCHANGED <<hist, op, limit, n>>

\* One round of the loop of fetch_rows(), up to its call of next().
RowsLoop ==
    /\ pc = "loop"
    /\ \/ /\ limit > 0 /\ n < 0
          /\ ReturnList(batch) /\ UNCHANGED <<held, n>>
       \/ /\ limit <= 0 \/ n >= 0
          /\ n' = IF limit > 0 THEN n - 1 ELSE n
          /\ batch' = batch \o held /\ held' = Released(held)
          /\ pc' = "results"
          /\ UNCHANGED <<got, ret, xsink, execed>>
    /\ UNCHANGED <<hist, c, op, limit>>

\* One round of read_cols().
ColumnsLoop ==
    /\ pc = "columns"
    /\ LET d == WithColumns(c) IN
       \/ /\ ~ColumnsRaise(c) /\ HasRow(d) /\ ~RowRaises(d)
          /\ c' = WithoutRow(d) /\ n' = n - 1
          /\ IF n' = 0 THEN ReturnList(Append(batch, Decoded(d)))
             ELSE /\ batch' = Append(batch, Decoded(d))
                  /\ UNCHANGED <<pc, got, ret, xsink, execed>>
       \/ /\ ~ColumnsRaise(c) /\ ~HasRow(d)
          /\ c' = WithoutRows(d) /\ UNCHANGED n
          /\ ReturnList(batch)
       \/ /\ ~ColumnsRaise(c) /\ RowRaises(d)
          /\ c' = WithoutRow(d) /\ UNCHANGED n
          /\ Raise
       \/ /\ ColumnsRaise(c) \/ c.open = "none"
          /\ UNCHANGED <<c, n>>
          /\ Raise
    /\ UNCHANGED <<hist, held, op, limit>>

-----------------------------------------------------------------------------
Init ==
    /\ stream = <<>> /\ ran = {stream} /\ execs = 0 /\ c = NewCommand(<<>>)
    /\ held = <<>> /\ got = <<>> /\ op = "exec" /\ pc = "idle"
    /\ limit = 0 /\ n = 0 /\ batch = <<>>
    /\ ret = FALSE /\ xsink = FALSE /\ execed = FALSE

Client ==
    \/ \E s \in Streams : Exec(s)
    \/ Next_ \/ FetchRow
    \/ \E rows \in Limits : FetchRows(rows) \/ ReadColumns("fetch_columns", rows)
    \/ ReadColumns("get_output", -1)

Driver == KeepResult \/ ReadResult \/ FetchAhead \/ RowsLoop \/ ColumnsLoop

Next == Client \/ Driver

Spec == Init /\ [][Next]_vars

-----------------------------------------------------------------------------
(* Properties.                                                             *)

\* The rows read ahead, with those fetch_rows() has in its list, and the rows
\* behind them, with those fetch_columns() or get_output() has in its list.
Listed(calls) == IF pc # "idle" /\ op \in calls THEN batch ELSE <<>>
Ahead  == Ids(Listed({"fetch_rows"}) \o held)
Behind == Ids(Listed({"fetch_columns", "get_output"}) \o c.left \o RowsOf(c.todo))

Cursor == INSTANCE RowCursor
    WITH ahead <- Ahead, rest <- Behind, out <- Ids(got), err <- xsink,
         RowSeqs <- {Ids(RowsOf(s)) : s \in Streams}

\* The statement implements the cursor, whatever the mix of exec(), next(),
\* fetch_row(), fetch_rows(), fetch_columns() and get_output(), across several
\* results and after failed calls: no row is repeated or skipped, and those
\* handed out in one way come in the server's order.  What the cursor allows,
\* as the code does, is a row read ahead that is passed over by fetch_columns()
\* and get_output(), or handed out after the next exec().
ImplementsCursor == Cursor!CursorSpec

\* Rows are decoded with the columns of their own result: colinfo is marked
\* dirty often enough, whichever execution they are of.  One exception: a
\* parameter is decoded with the columns of the status before it when the
\* client has read that status itself, with fetch_columns() or get_output(),
\* since only readOutput() describes anew.
OwnColumns ==
    \A rows \in {got, held, batch} : \A i \in DOMAIN rows :
        \E s \in ran : SameCommand(s, rows[i].as, rows[i].fmt)

\* When next() returns False without an exception, no row of the result it
\* looked at is left, and the statement is at its end or the next call asks for
\* another result (lastRes was put back), unless it stopped at a status result.
FalseMeansEnd ==
    pc = "idle" /\ op = "next" /\ ~ret /\ ~xsink /\ c.last # "STATUS" =>
        /\ c.left = <<>>
        /\ Readable(c) \/ c.last \in {"END", "ERROR"}

-----------------------------------------------------------------------------
(* What the tests say and the code does not do.                            *)

\* sybase-statement.qtest: fetchRows(2) returns 2 rows.  (With a limit it
\* never returns more rows than that.)
FetchRowsKeepsLimit ==
    pc = "idle" /\ op = "fetch_rows" /\ limit > 0 => Len(batch) <= limit

\* sybase-statement.qtest: after exec() the rows are those of that execution,
\* also when fetchRows(2) has left some of the one before.  As an invariant of
\* cursor.cfg it fails: exec() keeps _execRes.
RowsOfThisExecution == ToSet(Ids(got)) \subseteq ToSet(Ids(RowsOf(stream)))
=============================================================================
