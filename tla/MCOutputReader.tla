--------------------------- MODULE MCOutputReader ---------------------------
EXTENDS OutputReader

CONSTANT MaxGroups   \* logical commands in one stream

SomeRows(i, k, fmt, bad) ==
    [j \in 1..k |-> [id |-> 10 * i + j, fmt |-> fmt, ok |-> j # bad]]
Result(type, fmt, rows) == [type |-> type, fmt |-> fmt, rows |-> rows, count |-> -1]
Plain(type) == Result(type, "none", <<>>)
Done(k)     == [Plain("DONE") EXCEPT !.count = k]
Fmt(i)      == <<"fmt1", "fmt2", "fmt3">>[i]

\* What the server sends for the i-th logical command of a batch: a select of
\* k rows, an update, one without a count, a procedure with its status and
\* parameters, with parameters only, a command that fails, one broken off.
Select(i, k, bad) == <<Result("ROW", Fmt(i), SomeRows(i, k, Fmt(i), bad)), Done(k)>>
Status(i)         == Result("STATUS", "status", SomeRows(i + 5, 1, "status", 0))
Param(i)          == Result("PARAM", "param", SomeRows(i + 7, 1, "param", 0))
Group(kind, i) ==
    CASE kind = "empty"   -> Select(i, 0, 0)
      [] kind = "one"     -> Select(i, 1, 0)
      [] kind = "two"     -> Select(i, 2, 0)
      [] kind = "badRow"  -> Select(i, 2, 2)
      [] kind = "update"  -> <<Plain("SUCCEED"), Done(4)>>
      [] kind = "silent"  -> <<Plain("SUCCEED"), Done(-1)>>
      [] kind = "proc"    -> <<Status(i), Param(i), Done(-1)>>
      [] kind = "select+" -> Select(i, 1, 0) \o <<Status(i), Done(-1)>>
      [] kind = "params"  -> <<Plain("SUCCEED"), Param(i), Done(2)>>
      [] kind = "fail"    -> <<Plain("FAIL"), Done(-1)>>
      [] kind = "broken"  -> <<Plain("BROKEN")>>
Kinds == {"empty", "one", "two", "badRow", "update", "silent", "proc",
          "select+", "params", "fail", "broken"}

Batches ==
    UNION {{FlattenSeq([i \in 1..m |-> Group(f[i], i)]) : f \in [1..m -> Kinds]} :
           m \in 0..MaxGroups}
=============================================================================
