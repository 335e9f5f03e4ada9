---------------------------- MODULE OutputReader ----------------------------
(***************************************************************************)
(* command::readOutput(): every result of a command is read and ordered by *)
(* a ResultFactory into the value select(), selectRows(), selectRow(),     *)
(* exec() or execRaw() returns.  The session is up: SybaseConnection has   *)
(* the calls during which it is lost.                                      *)
(***************************************************************************)
EXTENDS CommandResults, FiniteSets

\* The entry points, by the arguments they pass on: select(), exec() and
\* execRaw(), exec_rows(), exec_row().
Modes == {[list |-> FALSE, single |-> FALSE, cols |-> TRUE],
          [list |-> FALSE, single |-> FALSE, cols |-> FALSE],
          [list |-> TRUE,  single |-> FALSE, cols |-> FALSE],
          [list |-> TRUE,  single |-> TRUE,  cols |-> FALSE]}

\* The rows of one logical command are all in one format, unless a status comes
\* between them: read_cols() and read_rows() do not describe them anew.
ASSUME OneFormatAssumption ==
    \A s \in Streams : \A i, j \in DOMAIN s :
        /\ i < j /\ s[i].type \in {"ROW", "PARAM"} /\ s[j].type = "ROW"
        /\ \A k \in i..j : s[k].type \notin {"DONE", "STATUS"}
        => s[i].fmt = s[j].fmt

VARIABLES
    stream,    \* history: the results of the command
    mode,      \* how it was called
    c,         \* the command
    params,    \* the ResultFactory: values of parameter results,
    reslist,   \* values of row results and row counts,
    last,      \* and the value added since the last CS_CMD_DONE
    out,       \* the value returned
    xsink,     \* an exception was raised
    pc         \* "results", "read" or "returned"

vars == <<stream, mode, c, params, reslist, last, out, xsink, pc>>

-----------------------------------------------------------------------------
(* Values.  The kind tells a hash of one row, a list of such hashes, a hash *)
(* of columns, a count and a hash of other values apart.                   *)

Nothing == [kind |-> "nothing"]
Count(k) == [kind |-> "count", count |-> k]
RowHash(row)  == [kind |-> "row", rows |-> <<row>>]
RowList(rows) == [kind |-> "list", rows |-> rows]

\* read_rows() of one result: one row is not wrapped in a list.
ListValue(rows) ==
    CASE rows = <<>>    -> Nothing
      [] Len(rows) = 1  -> RowHash(rows[1])
      [] Len(rows) > 1  -> RowList(rows)

\* read_cols() of one result: without rows the hash has columns only if the
\* caller asks for them.
ColumnsValue(rows, named) ==
    [kind |-> "columns", rows |-> rows, named |-> named \/ rows # <<>>]

KeyGen(i) == <<"query", i>>

\* RefHolderVector::release_smart(): one value as it is, more in a hash.
ReleaseSmart(values) ==
    CASE values = <<>>   -> Nothing
      [] Len(values) = 1 -> values[1]
      [] Len(values) > 1 -> [kind |-> "hash", keys |->
             [k \in {KeyGen(i) : i \in 0..Len(values) - 1} |-> values[k[2] + 1]]]

\* ResultFactory::res()
Res ==
    CASE params = <<>>  -> ReleaseSmart(reslist)
      [] params # <<>> /\ reslist = <<>> -> ReleaseSmart(params)
      [] params # <<>> /\ reslist # <<>> ->
             [kind |-> "hash", keys |-> [k \in {<<"query">>, <<"params">>} |->
                 IF k = <<"query">> THEN ReleaseSmart(reslist) ELSE ReleaseSmart(params)]]

-----------------------------------------------------------------------------
Init ==
    /\ stream \in Streams /\ mode \in Modes
    /\ c = NewCommand(stream)
    /\ params = <<>> /\ reslist = <<>> /\ last = Nothing
    /\ out = Nothing /\ xsink = FALSE /\ pc = "results"

Return(value) == pc' = "returned" /\ out' = value /\ UNCHANGED xsink
Raise         == pc' = "returned" /\ out' = Nothing /\ xsink' = TRUE

\* Mutated form of DoneLast: the value is remembered across CS_CMD_DONE.
DoneLastKept == last

\* ResultFactory::done(): a count of affected rows is a value of its own when
\* no other value came before it; last is cleared.
DoneLast == Nothing
DoneValues(count) ==
    IF count > 0 /\ last = Nothing THEN <<Count(count)>> ELSE <<>>

\* One ct_results() of readNextResult(), and the case of the result that needs
\* no row: RES_RETRY, RES_DONE, RES_END, an exception.
ReadResult ==
    /\ pc = "results"
    /\ c' = NextResult(c)
    /\ \/ ResultRaises(c) /\ Raise /\ UNCHANGED <<reslist, last>>
       \/ /\ ~ResultRaises(c) /\ c'.last = "RETRY"
          /\ UNCHANGED <<pc, reslist, last, out, xsink>>
       \/ /\ ~ResultRaises(c) /\ c'.last = "DONE"
          /\ reslist' = reslist \o DoneValues(c'.count)
          /\ last' = DoneLast
          /\ UNCHANGED <<pc, out, xsink>>
       \/ /\ ~ResultRaises(c) /\ c'.last = "END"
          /\ Return(Res) /\ UNCHANGED <<reslist, last>>
       \/ /\ ~ResultRaises(c) /\ c'.last \in {"ROW", "PARAM", "STATUS"}
          /\ pc' = "read" /\ UNCHANGED <<reslist, last, out, xsink>>
    /\ UNCHANGED <<stream, mode, params>>

\* The columns are described anew before parameters and status results are
\* read, and before rows only when colinfo is dirty.
Prepared == IF c.last = "ROW" THEN WithColumns(c) ELSE Described(c)

\* The rows of the result, all decoded with the same columns.
AllRows(d) == [i \in DOMAIN d.left |-> DecodedAs(d.left[i], d.cols)]

\* Mutated form of ReadRaises: one row too many goes unnoticed.
ReadRaisesLate(d) ==
    \/ \E i \in DOMAIN d.left : ~d.left[i].ok
    \/ c.last = "ROW" /\ mode.single /\ Len(d.left) > 2

\* read_rows() and read_cols() raise an exception for a row that cannot be
\* fetched or converted; selectRow() raises one for a second row.
ReadRaises(d) ==
    \/ \E i \in DOMAIN d.left : ~d.left[i].ok
    \/ c.last = "ROW" /\ mode.single /\ Len(d.left) > 1

\* The rows of a status result are dropped, its columns are not used again.
StatusRead(d) == [d EXCEPT !.cols = "dirty"]

\* The rows of the result are read to the end.
ReadRows ==
    /\ pc = "read"
    /\ LET d     == Prepared
           rest  == [WithoutRows(d) EXCEPT !.left = <<>>]
           value == IF c.last = "ROW" /\ ~mode.list
                    THEN ColumnsValue(AllRows(d), mode.cols)
                    ELSE ListValue(AllRows(d))
       IN \/ /\ ReadRaises(d)
             /\ Raise /\ UNCHANGED <<c, params, reslist, last>>
          \/ /\ ~ReadRaises(d) /\ c.last = "ROW"
             /\ c' = rest
             /\ reslist' = Append(reslist, value) /\ last' = value
             /\ pc' = "results" /\ UNCHANGED <<params, out, xsink>>
          \/ /\ ~ReadRaises(d) /\ c.last = "PARAM"
             /\ c' = rest
             /\ params' = Append(params, value) /\ last' = value
             /\ pc' = "results" /\ UNCHANGED <<reslist, out, xsink>>
          \/ /\ ~ReadRaises(d) /\ c.last = "STATUS"
             /\ c' = StatusRead(rest)
             /\ pc' = "results" /\ UNCHANGED <<params, reslist, last, out, xsink>>
    /\ UNCHANGED <<stream, mode>>

Finished == pc = "returned" /\ UNCHANGED vars

Next == ReadResult \/ ReadRows \/ Finished

Spec == Init /\ [][Next]_vars

-----------------------------------------------------------------------------
(* What is to be returned, said of the stream as a whole.                  *)

\* s: the stream; m: the mode.
ResultValue(m, r) ==
    LET rows == [i \in DOMAIN r.rows |-> DecodedAs(r.rows[i], r.fmt)] IN
    IF r.type = "ROW" /\ ~m.list THEN ColumnsValue(rows, m.cols) ELSE ListValue(rows)

\* The result read last before the CS_CMD_DONE at position i, of those of the
\* same logical command that are put out, has a value.
HasValueBefore(s, m, i) ==
    \E j \in 1..i - 1 :
        /\ s[j].type \in {"ROW", "PARAM"} /\ ResultValue(m, s[j]) # Nothing
        /\ \A k \in j + 1..i - 1 : s[k].type \notin {"ROW", "PARAM", "DONE"}

\* The values the result at position i adds to the sets of results.
ValuesAt(s, m, i) ==
    CASE s[i].type = "ROW" -> <<ResultValue(m, s[i])>>
      [] s[i].type = "DONE" /\ s[i].count > 0 /\ ~HasValueBefore(s, m, i) -> <<Count(s[i].count)>>
      [] OTHER -> <<>>

\* The values of the first k results, and of all of them.
SetsOf(s, m, k)   == FlattenSeq([i \in 1..k |-> ValuesAt(s, m, i)])
ParamsOf(s, m, k) == FlattenSeq([i \in 1..k |-> IF s[i].type = "PARAM"
                                                THEN <<ResultValue(m, s[i])>> ELSE <<>>])
ResultSets   == SetsOf(stream, mode, Len(stream))
OutputParams == ParamsOf(stream, mode, Len(stream))

FaultAt(s, m, i) ==
    \/ s[i].type \in {"FAIL", "BROKEN"}
    \/ \E j \in DOMAIN s[i].rows : ~s[i].rows[j].ok
    \/ m.single /\ s[i].type = "ROW" /\ Len(s[i].rows) > 1
Faulty == \E i \in DOMAIN stream : FaultAt(stream, mode, i)

\* The values under <<"query", 0>>, <<"query", 1>>, ... are the given ones, in order.
Holds(value, values) ==
    CASE Len(values) = 0 -> value = Nothing
      [] Len(values) = 1 -> value = values[1]
      [] Len(values) > 1 -> /\ value.kind = "hash"
                            /\ Cardinality(DOMAIN value.keys) = Len(values)
                            /\ \A i \in 1..Len(values) :
                                   value.keys[<<"query", i - 1>>] = values[i]

-----------------------------------------------------------------------------
(* Properties.                                                             *)

\* Whatever is returned has each row of each result set and each parameter
\* once, in the order of the server, decoded with the columns of its own
\* result, and the row count of just those commands that returned no rows; the
\* keys are those of the table in docs/mainpage.dox.tmpl for several selects.
OutputComplete ==
    pc = "returned" /\ ~xsink =>
        IF OutputParams # <<>> /\ ResultSets # <<>>
        THEN /\ DOMAIN out.keys = {<<"query">>, <<"params">>}
             /\ Holds(out.keys[<<"query">>], ResultSets)
             /\ Holds(out.keys[<<"params">>], OutputParams)
        ELSE Holds(out, ResultSets \o OutputParams)

\* A result that fails anywhere in the stream, or a row in any result, is
\* reported, and nothing else is: neither lost among the results that succeed,
\* before it or after it, nor made up.
FailureReported == pc = "returned" => (xsink <=> Faulty)
=============================================================================
