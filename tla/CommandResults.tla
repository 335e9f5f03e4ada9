--------------------------- MODULE CommandResults ---------------------------
(***************************************************************************)
(* The reading half of class command: the results the server has for one   *)
(* command, fetched one by one through ct_results() and ct_fetch().        *)
(*                                                                         *)
(* A result is a record of its type, the format (columns) of its rows, the *)
(* rows, and the row count a CS_CMD_DONE carries.  Two types stand for     *)
(* failures: "FAIL" makes the call throw (CS_CMD_FAIL, a return code that  *)
(* is not CS_SUCCEED), "BROKEN" is CS_FAIL with a cancel that succeeds; a  *)
(* cancel that fails is in SybaseConnection.  A row is a record of its     *)
(* identity, its format and whether it can be fetched and converted.       *)
(***************************************************************************)
EXTENDS Integers, Sequences, SequencesExt

CONSTANT Streams   \* the results a command can have

\* Mutated forms of WithResult and WithoutRows, below: CS_CMD_DONE leaves the
\* columns of the last result in place; lastRes is not put back at the end of
\* the rows.
WithResultKeepsColumns(c, r) ==
    LET d == [c EXCEPT !.todo = Tail(@)] IN
    CASE r.type \in {"ROW", "PARAM", "STATUS"} ->
             [d EXCEPT !.last = r.type, !.open = r.fmt, !.left = r.rows]
      [] r.type = "DONE"    -> [d EXCEPT !.last = "DONE", !.count = r.count]
      [] r.type = "SUCCEED" -> [d EXCEPT !.last = "RETRY"]
      [] r.type = "BROKEN"  -> [d EXCEPT !.last = "ERROR", !.todo = <<>>]
      [] r.type = "FAIL"    -> d
WithoutRowsKeepsResult(c) == [c EXCEPT !.open = "none"]

-----------------------------------------------------------------------------
\* The results and the rows that occur in the streams.
Results == UNION {{s[i] : i \in DOMAIN s} : s \in Streams}
Rows    == UNION {{r.rows[i] : i \in DOMAIN r.rows} : r \in Results}

\* The results that ct_fetch() has something to fetch from.
Fetchable == {"ROW", "PARAM", "STATUS"}

\* What read_next_result1() can get: every result is of a type it knows, only
\* the fetchable ones have rows, and these are in the format of the result.
ASSUME StreamsAssumption ==
    /\ Streams \subseteq Seq(Results)
    /\ \A r \in Results :
         /\ r.type \in Fetchable \cup {"DONE", "SUCCEED", "FAIL", "BROKEN"}
         /\ r.rows \in Seq(Rows)
         /\ r.type \notin Fetchable => r.rows = <<>>
         /\ \A i \in DOMAIN r.rows : r.rows[i].fmt = r.fmt

-----------------------------------------------------------------------------
\* todo: results ct_results() has not delivered; open, left: format and
\* unfetched rows of the result that can be fetched; last, count: lastRes and
\* rowcount; cols: the format colinfo describes, "dirty" when it must be read
\* again.
NewCommand(stream) ==
    [todo |-> stream, open |-> "none", left |-> <<>>, last |-> "NONE",
     count |-> -1, cols |-> "dirty"]

\* read_next_result1() asks for a result only in these states.
Readable(c) == c.last \in {"NONE", "DONE", "RETRY"}

\* read_next_result1() on the result r: where it throws, lastRes stays.
WithResult(c, r) ==
    LET d == [c EXCEPT !.todo = Tail(@)] IN
    CASE r.type \in Fetchable ->
             [d EXCEPT !.last = r.type, !.open = r.fmt, !.left = r.rows]
      [] r.type = "DONE"    -> [d EXCEPT !.last = "DONE", !.count = r.count,
                                         !.cols = "dirty"]
      [] r.type = "SUCCEED" -> [d EXCEPT !.last = "RETRY"]
      [] r.type = "BROKEN"  -> [d EXCEPT !.last = "ERROR", !.todo = <<>>]
      [] r.type = "FAIL"    -> d

NextResult(c) ==
    IF c.todo = <<>> THEN [c EXCEPT !.last = "END"] ELSE WithResult(c, Head(c.todo))

ResultRaises(c) == c.todo # <<>> /\ Head(c.todo).type \in {"FAIL", "BROKEN"}

\* retr_colinfo() raises an exception when no result can be fetched.
Described(c) == [c EXCEPT !.cols = c.open]

\* ensure_colinfo(): colinfo is read again only when it is dirty.
NeedsColumns(c)   == c.cols = "dirty"
ColumnsRaise(c)   == NeedsColumns(c) /\ c.open = "none"
WithColumns(c)    == IF NeedsColumns(c) THEN Described(c) ELSE c

\* fetch_row_into_buffers(): a row, CS_END_DATA, or an exception.  What
\* ct_fetch() answers when there is nothing to fetch is the library's choice.
HasRow(c)         == c.left # <<>>
RowRaises(c)      == HasRow(c) /\ ~Head(c.left).ok
WithoutRow(c)     == [c EXCEPT !.left = Tail(@)]
WithoutRows(c)    == [c EXCEPT !.open = "none", !.last = "NONE"]

\* The row in the output buffers, decoded with the columns of colinfo.
DecodedAs(row, cols) == [id |-> row.id, fmt |-> row.fmt, as |-> cols]
Decoded(c)           == DecodedAs(Head(c.left), c.cols)

-----------------------------------------------------------------------------
\* The rows of a sequence of results, in the order the server sends them.
RowsOf(results) == FlattenSeq([i \in DOMAIN results |-> results[i].rows])

Ids(rows) == [i \in DOMAIN rows |-> rows[i].id]

\* The columns of f are those of g, or of an earlier result of one logical
\* command with it: no CS_CMD_DONE lies between them in the stream s.
SameCommand(s, f, g) ==
    f = g \/ \E i, j \in DOMAIN s :
                 /\ i < j /\ s[i].fmt = f /\ s[j].fmt = g
                 /\ \A k \in i..j : s[k].type # "DONE"
=============================================================================
