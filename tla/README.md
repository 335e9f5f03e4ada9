# A TLA+ model of the Qore sybase/freetds driver

`module-sybase` connects the Qore language to Sybase and MS SQL Server through
ct-lib. This directory holds TLA+ modules of the driver's core, the TLC runs
that check them, and proofs about them that TLAPS checks. Paths below are
relative to `src/`.

## The system

| Component | State | Operations | Talks to |
|---|---|---|---|
| DBI callbacks, `sybase.cpp` | the `connection*` in the Datasource | open, close, select, selectRow(s), exec, execRaw, commit, rollback | Qore above, `connection` below; `BEGIN_/END_CALLBACK` turn `ss::Error` into a Qore exception |
| `connection` | `m_connection`, `connected`, `stmt` (the registered statement), `enc`, options | `setupCommand`, `execReadOutput`, `closeAndReconnect`, `readNextResult`, `init`, `commit`, `rollback`, `invalidateStatement`, `registerStatement` | ct-lib, Datasource (`connectionAborted()`, `activeTransaction()`), itself: `init()` runs queries through `execReadOutput()` |
| `DBModuleWrap`, `ModuleWrap` | per SQLStatement: `Statement`, query, parameters, `raw` | prepare, bind, exec, next, fetch*, close | `Statement`, `connection::registerStatement()` |
| `Statement` | `context` (a command), `_execRes` (a row read ahead), `valid` | exec, next, fetch_row(s), fetch_columns, get_output, affected_rows, invalidate | `connection`, `command` |
| `command` | `m_cmd`, `lastRes`, `rowcount`, `colinfo` with its dirty flag, output buffers | send, cancel, cancelDisconnect, clear, read_next_result, fetch_row, read_rows, read_cols, readOutput, set_params | ct-lib |
| `ResultFactory`, `RefHolderVector` | values so far, `last` | add, add_params, done, res | `readOutput` |
| `sybase_query` | text, parameter list, placeholders | init | `setupCommand`, which makes one per try; `command::set_params` |
| `row_output_buffers`, `Columns` | what a result's columns are bound to; their descriptions | insert, reset | `command`, ct-lib, which writes into the buffers |
| `Conversions`, `get_value` | the options of numbers and dates | dates, numbers, strings, both ways | `command` |
| diagnostics | the inline messages ct-lib keeps for the connection | purge_messages, do_check_exception, discard_messages | every call, ct-lib |
| options, encodings | a few fields; a table | set/get; lookup | - |

What makes it hard:

- **A session can be lost between any two ct-lib calls**, and then one call
  closes the connection, opens another and sends its SQL again, while
  statements of the old session are still held by the program. The code that
  does so is entered from sending and from reading, runs queries of its own, and
  reports failure sometimes by a return code, sometimes by an exception.
- **One active query per connection**: several SQLStatement objects share the
  connection; only the registered one is valid, and it must be canceled before
  anything else is sent.
- **Results arrive as a stream**: rows, row counts, status, parameters, of several
  logical commands. `lastRes`, the dirty flag of `colinfo`, the row read ahead
  and `ResultFactory::last` each summarise a part of what has been read.
- **Messages of the server stay** in the connection until some call reads them, which
  need not be the call they came in with.
- **Values change their form** between Qore, TDS and two client libraries that pad,
  terminate and round differently, in integers of 32 and 64 bits.
- **Errors** come as exceptions in the sink, as C++ exceptions and as return codes,
  and some pass through destructors.

Nothing is persisted and Qore serialises the calls on one Datasource, so there is
no crash recovery and no multithreading inside a connection to model. What
interleaves with the driver is the network and the server. `PROJECT.json` lists
the hazards line by line, with the property that covers each or the reason
why none does.

## Modules

| Module | Models | Checked by |
|---|---|---|
| `SybaseConnection` | one Datasource: connection, statements, reconnection | `conn_core`, `doc_prepare`, `doc_abort`, `doc_pending` |
| `SybaseConnectionProofs` | theorems about it | TLAPS |
| `SequenceLemmas` | lemmas: induction on intervals, `FlattenSeq`, cut and joined sequences | TLAPS |
| `CommandResults` | operators: reading the results of one command | through `StatementCursor`, `OutputReader` |
| `RowCursor` | abstract: what a statement promises for its rows | as a property of `cursor` |
| `StatementCursor` | `Statement` over the results of its command | `cursor`, `doc_fetchrows` |
| `StatementCursorProofs` | lemmas about commands; theorems about it, the refinement among them | TLAPS |
| `OutputReader` | `readOutput()` and `ResultFactory` | `output` |
| `OutputReaderProofs` | theorems about it | TLAPS |
| `QueryParameters` | from the SQL text and its arguments to `ct_send()` | `query` |
| `QueryParametersProofs` | theorems about it | TLAPS |
| `ResultColumns` | from `ct_describe()` to the rows and columns of a result | `columns` |
| `ResultColumnsProofs` | theorems about it | TLAPS |
| `ValueConversions` | numbers, strings and dates, both ways | `values`, `doc_numbers` |
| `ValueConversionsProofs` | theorems about it | TLAPS |
| `Diagnostics` | the queue of messages and its readers | `diag` |
| `DiagnosticsProofs` | theorems about it | TLAPS |
| `MC*` | constants for TLC | |

`QueryParameters`, `ResultColumns`, `ValueConversions` and `Diagnostics` open up what the
others abstract. `SybaseConnection` takes whether
a query is accepted, sent or fails as outcomes; `QueryParameters` is `setupCommand()`
with the text and the arguments in it. `CommandResults` takes a row as fetched and
converted or not, with a format that stands for its columns; `ResultColumns` has
the columns, and `ValueConversions` what `get_value()` makes of one of them. In
both, a call that raises an exception does so by `do_exception()`, whose messages
are in `Diagnostics`.

### SybaseConnection

`pc` is the one thread of control. `Open`, `CloseDatasource`, `Prepare`,
`CloseStatement`, `Select`, `Exec`, `Next_` and `EndTransaction` start the calls
Qore can make; each ct-lib call in them that can fail is a step (`Send`,
`ReadFails`, `CancelAfterFail`, `Connect`, ...), so that `SessionLost` and
`ServerBack` fall between any two. Outcomes depend on the session: sending on a
dead session may or may not be noticed, a cancel can fail only when the session
is not alive, `ping()` answers truthfully on a live one.

`stack` holds the activations of `init()`: the queries it makes run through the
same `Select`-like steps (`setup`, `send`, `read`) and may reconnect again.
An `ss::Error` in flight is `pc = "throw"`; `Unwind` takes it through the
handlers on the way. Four values of `pc` end the process or leave what the
language defines: `escaped` (an exception leaves a callback without a handler),
`terminated` (one leaves a noexcept destructor), `assert`, `dangling` (a
CS_COMMAND of a dropped connection is used). A statement's `ctx.h` tells
whether its CS_COMMAND belongs to the present connection, to a dropped one, or is
gone.

What is abstracted: whether `sybase_query::init()` and `bind_query()` accept the
text is a choice; the results of a local command are read in one step, with the
outcomes an error, a failed cancel or success (`OutputReader` has the steps);
messages of low severity, allocation failures of `ct_cmd_alloc()` and the
options are left out. A call on a null CS_CONNECTION or CS_COMMAND in a release
build fails and does nothing. A transaction begins with any successful select or
exec, or does not; commit, rollback and close end it. After
`connectionAborted()` Qore only closes statements and the Datasource, and it
calls `next()` only after an `exec()` that succeeded; the same SQLStatement may
be executed again, which `Statement::exec()` provides for.

Properties: `RegisteredIffValid` and `ValidHandleIsCurrent` (a statement that
could be used after a reconnection never holds a command of the old one; the
release build deregisters without comparing), `NoPendingAtSend` (one active query),
`LostTransactionIsReported`, `AtMostOneSend` (no SQL is executed twice by
a retry), `EveryCallReturns` (liveness).

`NoPendingAtSend` looks at every statement, valid or not, and has one exception, a statement
that is `orphan`: a reconnection inside its own `exec()` has invalidated it
(`connection.cpp:185`), its SQL is sent again all the same, and its results are pending on the new
connection. The next command is then sent over them, since `invalidateStatement()` knows of no
statement to cancel. The documentation promises otherwise: `OneActiveQuery` is the property
without the exception, and the run `doc_pending` shows that it fails.

### CommandResults, StatementCursor, RowCursor

A command's results are a sequence of records; `CommandResults` has what one
`ct_results()`, one `ct_fetch()` and one `retr_colinfo()` do to `lastRes`, the row
count and the columns. Every row carries the columns it was sent with, so
decoding it with others shows. Failures are items of the stream, so that they
come at any place: `FAIL` makes the call throw, `BROKEN` is `CS_FAIL` with a
cancel that succeeds (the session is up here; the other case is in
`SybaseConnection`). `StreamsAssumption` says what a stream is: results of the types
`read_next_result1()` knows, of which only the fetchable ones have rows, each row in
the format of its result.

`StatementCursor` runs each call as the ct-lib calls it makes: `exec()` and
`next()` ask for results until one is not `CS_CMD_SUCCEED`, `next()` reads one row
ahead into `held` (`_execRes`), `fetch_rows()` alternates `fetch_row()` and
`next()`, `fetch_columns()` and `get_output()` are `read_cols()`.

`RowCursor` is what a caller may expect. There are two ways to the rows: those read ahead
(`ahead`) are handed out by `fetchRow()` and `fetchRows()`, and those behind them (`rest`) by
`fetchColumns()` and `getOutput()`. A row is handed out at most once, those of a kind in the order of the
server, and rows are lost only by a call that raises an exception. `ImplementsCursor` shows the
refinement for every mix of calls: `ahead` is the list `fetch_rows()` is building and the held row, `rest`
the list `read_cols()` is building, the rest of the result and the results to come; the rows handed out are
a history variable.

The cursor allows two things a caller would not expect, because the code does them: a row read ahead is
passed over by `fetchColumns()` and `getOutput()`, and it outlives the next `exec()`, which replaces the command
and keeps `_execRes`, and is then handed out before the rows of the new execution (one row at most: `Execute`
has that as its guard). `RowsOfThisExecution` denies the second; as an invariant of `cursor.cfg` it
fails. `test/sybase-statement.qtest:136-149` executes again after `fetchRows(2)` and counts the rows, so it
expects the row to be gone; whether Qore closes the statement before it executes it again is not in this
repository, so this is a hazard, not a finding.

`OwnColumns` says that rows are decoded with the columns of their own result, of whichever execution
(`ran`). It admits one case, found by TLC: a parameter row read by `next()` after the client itself has read
the status result before it is decoded with the status columns. `FalseMeansEnd`:
`next()` returns False only when the result it looked at is used up (or is a status), and `lastRes` is then
such that the next call goes on with the next result, or the statement is at its end.

### OutputReader

The loop of `readOutput()`: one `ct_results()` per step, one step to read the rows
of a result, `ResultFactory` in `params`, `reslist` and `last`, for the four ways
the entry points call it. The value returned is compared with one defined on the
stream as a whole (`ResultSets`, `OutputParams`), which knows nothing of `last`
or `lastRes`: `OutputComplete`. `FailureReported`: the call raises an exception
exactly when a result or row of the stream is faulty, or `selectRow()` gets a
second row. `OneFormatAssumption` is about the server: row results of one logical
command are all in one format, unless a status comes between them. The driver relies
on it, for `read_cols()` and `read_rows()` do not describe a result anew while
`colinfo` is not dirty; without it a row would be decoded with the columns of another.

### QueryParameters

The scanner of `sybase_query::init()` takes a character or a marker per step. The text is
reduced to the characters it tells apart; what is put in for `%d` and `%s` is one
item, as it is not scanned (so the arithmetic of the offsets in the buffer is not in the model). `set_params()` binds one argument per step, by the
kinds of argument it treats differently. `Send` goes back to `SetupCommand` when
the session was replaced, as `setupCommand()` does.

`TextRewritten` compares what is sent with a definition on the whole text
(`Rewritten`, by `Open`, `Outside` and `Number`), which has no scan position and no list of
parameters. `NamesBoundOnce` relates the names in the text to the `ct_param()`
calls. Both name what the code leaves out: behind an explicit date
(`command.cpp:304`) nothing is bound, and without a list of arguments nothing at all
(`command.cpp:961`). `OverrunOnlyUnbalanced`: the scan leaves the buffer
(`pc = "overrun"`) only when the text ends inside a string. `WrongNeverSent`,
`SentAgainUnchanged`: a command is sent with all its parameters, and again with the
same ones. That a backslash escapes inside strings, and that a comment is not told
from text, is as in the code; it differs from T-SQL, and the reference has the code's view.

### ResultColumns

One result is read by calls as rows or as columns, with and without a limit. A call
finds the columns known or describes and binds them, one column per step, and may
fail at each (`Raise`); the next call goes on with what it left
(`FetchesIntoAllColumns`). A name is a word and the numbers appended to it, so
that a column called `a_1` collides with the second `a`. `EveryColumnReturned` compares
each hash with the rows of the server: `append_buffers_to_list()` relies on the order of the
hash, and the test for a free name on the value under it, which for a NULL
must not look like none. `KeysAreStandard` is the documented naming (`a`, `a_1`, `a_2`), the
same for rows and columns.

### ValueConversions

One column with a value in it, the options, and the driver that is built (FreeTDS or
Sybase). Programs read it, bind a date, or write back the date they have
read (`Rebind`). Seconds, days, ticks and the limits of the integers are parameters, so
that TLC checks them to a scale with every boundary in reach; arithmetic of 32
bits is `Unsigned` and `Signed`. `UnitsAssumption` is what the code relies on: the ticks of a day
are less than half of the 32 bits (86400 * 300 are), a millisecond is a whole number of microseconds,
and a tick is longer than a millisecond. `ValuesAssumption` says what numbers, texts and dates are. Numbers are compared as digits, as in the code.
Dates are in one zone, UTC.

`NumbersExact`, `TextsRead` and `ServerDatesRead` say that a value read is the one the
server has: a string exactly, but for the blanks at its end in the types whose blanks the code trims, a date exactly,
but for ticks of 1/300 s, which come to the nearest millisecond; `DatesRoundTrip` bounds what a date loses on the way there and back by half a
tick and half a millisecond, and `WrittenBackUnchanged` says that a second round loses
nothing more. `RefusedDates` lists the dates that cannot be bound, among them those before 1970
with a time of day. Three cases are left out by name, because the code does
not do so: negative numbers of 19 digits below the smallest integer
(`OptimalNumbers`, run `doc_numbers`), DATEs before 1970 and from 2106-02-07 on
(`DatesDirect` states it without the exception: as an invariant of `values.cfg` it fails), and the FLOAT of
usertype 26 of FreeTDS, which comes back with its terminator. In two more the code does what it does by
design and the documentation says something else; the module states both sides. `need_trim()`
(`command.cpp:756`) trims TEXT with Sybase, and `docs/mainpage.dox.tmpl:220` lists TEXT as a direct conversion for both
drivers: `TextDirect`. `DATETIME_to_DateTime()` and `TIME_to_DateTime()` (`conversions.cpp:58`, `:67`) round ticks to milliseconds, and lines 211 and
214 of the same table say microseconds: `TicksToMicrosecond`. Each fails as an invariant of `values.cfg`. That a
CS_DATETIME with a negative time is refused, and one with a text of microseconds in a DATETIME
column too, is the server's part and assumed.

### Diagnostics

Messages arrive at any step of a call, or of the login after a lost link. A direct
call (`select()`, `exec()`, ...) purges them when `execReadOutput()` returns, with an exception raised or without.
An exception that is thrown without a look at the queue takes it past that purge (`ThrowPast`): `set_params()` over an
encoding or a date (`command.cpp:170`, `:215`), and `invalidateStatement()` over a registered statement
that has no command (`utils.h:61`). `past` remembers those calls. `get_server_version()` (kind `version`) never purges; `do_exception()` reads and
clears them whenever something fails; a call of a statement that succeeds, or fails with
`CS_FAIL`, reads none. `commit()` and `rollback()` read them in
`do_check_exception(check = true)`, where a 3902 or 3903 is forgiven if it is the only
message of the server. Each message is told from the others by an id; `heard`,
`forgiven` and `cut` are its fates.

`SevereHeard`: after a direct call no severe message is unread, unless the call is in `past`. `HeardOnce`: none is told twice.
`OthersWereLeft`: a call fails with messages of another one only if that was a call
of a statement, a version query, or in `past`. This weakness is real: a message such a call leaves makes a later
commit fail that the server has carried out. `EndHonest` and `NoTransactionForgiven` say when
a commit may return without an exception and when it must. That the cancel of a command, while an
exception destroys it, leaves no message of its own is assumed. That ct-lib accepts
`ct_diag()` on the connection is assumed; after a failed reconnection (`phase = "dead"`) the
code asks it for a connection that is gone.

## Runs

Passing runs:

| Run | Question | Bounds |
|---|---|---|
| `conn_core` | are registration, handles, pending results, transactions and retries right, and does every call return? | 2 statements (no symmetry, for the liveness), 2 lost sessions, release build; 1.2 million states |
| `cursor` | is a statement a cursor? | every mix of calls, 2 executions, 8 streams, limits -1, 0, 1, 2; 325 thousand states |
| `output` | is the output of a direct execution complete? | batches of up to 3 of 11 kinds of command, 4 modes |
| `query` | is the command sent the one that was written, with its arguments? | texts and argument lists of `MCQueryParameters`, 2 sends |
| `columns` | has every column its key and its values? | 8 lists of names, 0 to 2 rows with NULLs, 2 lists of placeholders, 1 failure |
| `values` | do values survive both ways? | days of 6 s, 3 ticks and 100 microseconds a second, 32 bits scaled to 58, integers to 511; every type of column, both drivers |
| `diag` | is each message told once, by its own call? | 3 calls, 3 messages; 8.6 million states |

The scale of `values` keeps the relations that matter: a tick is no whole number of
milliseconds, 32 bits end within the range of DATE and within a day, half of them hold the
ticks of a day, and both epochs and the limits of DATETIME are inside the dates
tried. Three calls let one leave messages, one fail over them and one come
after. Two sends show what is left over from the first.

Two statements are enough for one to be registered while another is orphaned or
still has a command; two lost sessions let a reconnection itself be interrupted,
which is what nests `init()`. Two executions let state survive from one to the
other, and the streams cover every result type, two results with different
columns, the status and parameters of a procedure, and failures at the start, in
the middle and in a row. Three commands in a batch put every kind between two
others. `conn_core` has deadlock checking on: a call never gets stuck. `cursor`
and its violation run have it off because the bound on executions leaves
the client without a call when its last `exec()` failed.

Fairness: `conn_core` assumes weak fairness of `Driver`, the steps of a call that
has begun. The code justifies it: it runs on one thread, and the login
timeout (`connection.cpp:447`) and TCP make ct-lib calls return. Nothing
is assumed of the server, the network or the client. That `setupCommand()` does not
send for ever rests on the bound of lost sessions: with a session that dies
at every send the loop has no limit of its own.

Violation runs: each shows that the code does not do what a document, comment,
assertion or test of the repository says. The quotes are in `PROJECT.json`.

| Run | What TLC shows |
|---|---|
| `doc_prepare` | preparing a second statement before the first is executed throws out of the callback |
| `doc_abort` | a reconnection that fails in `ct_connect()` does not mark the Datasource as aborted |
| `doc_pending` | after a reconnection inside a second `exec()`, `select()` sends while the results of the statement are pending |
| `doc_fetchrows` | after `next()`, `fetchRows(n)` returns n + 1 rows |
| `doc_numbers` | optimal-numbers returns integers as numbers, and numbers as other integers, if they are negative with 19 digits |

Every property of a passing run has a mutated definition in its module (named
`...Kept`, `...Late`, `...Only...` and so on, commented "Mutated form of") that
breaks it: a plausible slip in that piece of code.

## Proofs

The theorems hold for every value of the constants that the named assumptions allow, so
for sets of statements, streams, texts, rows and bounds of any size. TLC evaluates the
assumptions in the runs.

**The connection** (`SybaseConnectionProofs`, from `ConstantsAssumption`: `NoStmt` is not a
statement, the bound is a natural number, `Debug` a Boolean): every invariant of `conn_core`.

`TypeOK`, `RegisteredIffValid` and `ValidHandleIsCurrent` are not inductive alone.
`closeAndReconnect()` drops the connection with `stmt` cleared, and `init()` then creates
new commands: validity of handles needs that no statement is registered while
`init()` runs (`NoStmtInInit`), which needs that control is inside `init()` only with an
activation on the stack (`StackMatchesPc`), that `sybase_open()` runs on a closed
Datasource (`OpenOnClosed`), that the command moved into a statement by `exec()` is on
the present connection (`SendsCurrent`) and that `exec` and `next` have a statement
(`CallHasStatement`). `IInv` is their conjunction; one lemma per action shows that it is
kept (lemmas about types and about `InvalidatedIn` and `Detached` come first,
`Untouched` handles the steps that leave handles alone), and `Invariance` is
`Spec => []IInv`. What a call promises its caller has three more invariants, each relative to `IInv`:

- `OnceInv` for `AtMostOneSend`: while a call is about to send, nothing of it has been
  accepted, and of nested reconnections the outermost tells whether the call's own send was
  refused (`Bottom(stack).by = "send"`).
- `LostInv` for `LostTransactionIsReported`: the exception of a lost transaction is in the
  sink until the call returns. `init()` clears the sink after one of its queries; that this
  never clears *that* exception holds because with it pending no activation on the stack gets
  past its first query (`NothingClearsIt`).
- `QuietInv` for `NoPendingAtSend`: from the moment a call decides to send, no
  valid statement on the present connection has results pending (`Quiet`); `OrphanInv` adds that a
  statement with a command there is valid or `orphan` (`ValidOrOrphan`), so that of the invalid
  ones only those orphaned in their own `exec()` can be in the way. A statement that
  has been read to its end has none (`NothingAfterEnd`), which is what the cancel relies on
  when it is left out.

**The statement** (`StatementCursorProofs`, from `StreamsAssumption`). Lemmas on a command come first: what
`ct_results()`, `ct_fetch()` and `retr_colinfo()` leave pending, in what order, and which
results of the stream `colinfo` can describe (`At`). `FalseMeansTheEnd`, `StatementImplementsCursor` (`Spec => ImplementsCursor`) and `ColumnsAreOwn`
(`Spec => []OwnColumns`) are proved of every client, whatever the mix of calls. `CursorInv` has the control part: a
row is fetched ahead only when none is held.
The refinement shows each step to be one of `RowCursor` or a stutter: `View` writes the rows
ahead and behind with the list, the held row and what is pending, a lemma for each kind of step of the cursor (`ReadsAhead`, `Delivers`, `DeliversBehind`, `Loses`) says what it does to them,
and the steps of the statement are shown to be of these kinds. `ColumnsInv` follows the position in the stream beside the command.

**Direct execution** (`OutputReaderProofs`, with `OneFormatAssumption`): `FailureReported` and
`OutputComplete`. `OutputInv` says that after `k` results without a fault `reslist` and
`params` are the values of the first `k` (`SetsOf`, `ParamsOf`), that `last` is set exactly
when the present logical command has one among them, and that `colinfo` is dirty or describes
the rows to come (`ColumnsOf`).

**Text and parameters** (`QueryParametersProofs`, from `InputsAssumption` and
`MaxSendsAssumption`): all six properties of `query`, for texts of any length. `QueryInv` says in
its `ScanInv` that what has been read is rewritten as the definition on the whole text has
it (`Pieces`), that the scanner's quote and escape are those of `Open`, and that the parameter
list holds the parameters among them, in `BindInv` that the first `i` parameters are bound
(`BoundUpTo`) and none of them stopped the loop, and in `SentInv` that all this was so for what was sent.

**Columns** (`ResultColumnsProofs`, from `ResultsAssumption`: the words of names, the values, and
that a result with rows has a column): all four properties of `columns`. `DescribedInv` says that
what is described is a prefix of the columns, and all of them, each with a buffer, unless the flag is dirty:
it survives `Raise` because describing marks it dirty first. `HashInv` says for each point of
the loops which rows are under the keys: `call.cnt - cnt` are complete, and the first `i`
columns have one more. `Standard` is the documented naming of a hash that is not complete yet; that
a free number is found among `Len(h) + 1` is the pigeonhole principle (`FreeNumber`), and that the least one
is taken makes the keys those of the document, and different from each other (`KeysDiffer`).

**Values** (`ValueConversionsProofs`, from `UnitsAssumption` and `ValuesAssumption`): all seven properties of
`values`, so for 86400 seconds, 300 ticks and 2^32 as for the scale of the run. `ConversionInv` says that what is in
the column is of its type (a time is less than a day), that after a bind it is what `ToDatetime` made of the date, and
that a value read is the one of the column. The rest is arithmetic with symbolic units. The provers do not multiply two
variables, so products and quotients are `Times`, `Div` and `Mod`, of which they see only the lemmas at the head of the module:
sums, order, and that there is one quotient with a rest below the divisor (`DivisionIs`). `RoundedToIs` bounds
what `round()` is off by; `ToDatetimeIs` is `DateTime_to_DATETIME()` with the two wraps to 32 bits cancelled out
(`Signed` shifts by a multiple of the word, times `Ticks` is one again, and the result has a place in the word), and
`MillisecondsIs` that a tick and its milliseconds determine each other, which `Ticks < Millis` is for. `DatesComeBack` adds the two
roundings up; `WritingBackChangesNothing` follows because a negative time of day is refused, so that
the days of a date that is accepted are those it was read from; and `RefusesOnlyThese` because the ticks
of a time of day come to a day only from its last second.

**Diagnostics.** `DiagnosticsProofs` proves every property of `Diagnostics` for any number of calls
and of messages, from `BoundsAssumption` alone. What the properties say of a call
that is over follows from where its messages can be while it runs: a message waits
in the queue, was caught by `setupCommand()`, or was told of, forgiven or cut (`Apart`,
`Accounted`); what waits came in during this call or in one that leaves messages (`LeftBy`)
(`Waiting`), since no other returns without clearing the queue (`WaitingIdle`);
and a commit or rollback raises nothing before it ends (`EndFresh`), so that a 3902 that is
forgiven cannot be told of by the purge behind it. Every step of a call but `Arrive` is a
`Reads(S)`: it tells of some messages that wait and puts others aside, and one lemma
(`ReadsKeepData`) shows what all of them keep. `Arrive` adds a message with a new id,
which needs that ids stay below the number of messages (`Arrivals`).

Several of these compare a loop with a definition that is recursive over a sequence
(`FlattenSeq`, `Open`). What such a definition computes is proved in `SequenceLemmas` and
at the head of the proof modules without an induction theorem: a set of natural numbers has a least element
(`LeastElement`, from the well-foundedness the library proves), so that a set that holds 0 and with each
number the next holds an interval (`IntervalInduction`).

Model-checked only: liveness (`EveryCallReturns`: fairness is beyond this prover). Every invariant and action property
of the passing runs is a theorem.

## Known deviations without a run

Found while modelling, in the models as the code has them, and listed under the hazards:
a reconnection inside a statement's second `exec()` leaves the statement invalid
although `exec()` succeeds (its pending results are the run `doc_pending`); a row read ahead outlives the next
`exec()`; TEXT is trimmed with Sybase, and ticks are rounded to milliseconds, both against the table of the documentation; a link that dies while a statement reads drops its command twice
(an assertion of debug builds, `Debug = TRUE`); `affectedRows()` after a loop over `next()` is
-1, as `CS_CMD_DONE` has not been read; output parameters beside result sets are nested under
a key `params`, not beside `query` as the documentation has it; DATEs outside of 1970 to 2106
are read as others; `optimized-date-binds` cannot be switched off again, whatever its
argument (`connection.cpp:876`).

## The plan, and what is not modelled

Every property of a passing run is proved but for liveness. What is left is the composition: `SybaseConnection`
reads the results of a local command in one step with the outcomes an error, a failed cancel or success. An
abstract specification with these three outcomes, which `OutputReader` is shown to implement, would tie the two
together as `RowCursor` does for the statement.

Left out for good: the time zone option and `getOption()` (plain assignments), the
version of the client library (no query), arguments and columns whose bytes are copied (integers,
floats, binaries), sizes of buffers, encoding names (a constant table), module glue,
build files and tests.
