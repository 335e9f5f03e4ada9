--------------------------- MODULE ResultColumns ---------------------------
(***************************************************************************)
(* How the rows of one result become Qore values: retr_colinfo() describes *)
(* the columns and binds a buffer to each, ct_fetch() fills the buffers,   *)
(* and each row is made into a hash (output_buffers_to_hash()) or added to *)
(* the lists of a hash (setupColumns(), append_buffers_to_list()).  Loops  *)
(* over columns are taken one column per step.  Which results there are    *)
(* and which calls read them is in CommandResults and its users.           *)
(***************************************************************************)
EXTENDS Integers, Sequences, FiniteSetsExt

CONSTANTS ColumnLists,       \* names of the columns, as the server gives them
          Values,            \* values of a column, NULL among them
          RowLists,          \* rows of a result: sequences of values
          PlaceholderLists,  \* placeholder names of the query
          Words,             \* what names are made of
          LowerOf,           \* tolower() of a word
          IndexOf,           \* the number of a column as a word
          MaxFailures        \* bound on the calls that fail

ASSUME MaxFailuresAssumption == MaxFailures \in Nat

\* A name is a word and the numbers appended to it: a_1 is [word |-> "a",
\* n |-> <<1>>].  An unnamed column has a word of its own.
Name(w) == [word |-> w, n |-> <<>>]
NoName  == Name("unnamed")
Null    == "NULL"    \* of SQL, and the value of Qore

AllNames == [word : Words, n : Seq(Nat)]

\* A result that has rows has a column.
ASSUME ResultsAssumption ==
    /\ ColumnLists \subseteq Seq(AllNames) \ {<<>>}
    /\ Null \in Values /\ RowLists \subseteq Seq(Seq(Values))
    /\ PlaceholderLists \subseteq Seq(AllNames)
    /\ LowerOf \in [Words -> Words]
    /\ \A l \in ColumnLists : \A k \in DOMAIN l : IndexOf[k - 1] \in Words

\* What stands under a key: a value, a list or NOTHING.
Nothing  == [kind |-> "nothing", items |-> <<>>]
Value(v) == [kind |-> "value", items |-> <<v>>]
NewList  == [kind |-> "list", items |-> <<>>]

VARIABLES
    names, rows,  \* the result
    call,         \* how it is read now
    pc,
    datafmt,      \* colinfo.datafmt: the columns described so far
    dirty,        \* colinfo.dirty
    bufs,         \* out_buffers: what is bound to each column
    r,            \* rows fetched
    cnt,          \* rows that may still be read, if not negative
    i,            \* columns done in a loop
    hash,         \* the hash being filled, in the order of its keys
    out,          \* history: the hashes handed out
    failures

result  == <<names, rows>>
columns == <<datafmt, dirty>>
vars    == <<result, call, pc, columns, bufs, r, cnt, i, hash, out, failures>>

\* A call reads up to cnt rows (-1: all) as rows or as columns, which may be
\* wanted for a result without rows too; ph are the names of placeholders.
Calls ==
    [shape : {"rows"}, asked : {FALSE}, cnt : {1, -1}, ph : PlaceholderLists]
    \cup [shape : {"columns"}, asked : {FALSE}, cnt : {1, 2, -1}, ph : PlaceholderLists]
    \cup [shape : {"columns"}, asked : {TRUE}, cnt : {-1}, ph : {<<>>}]

NoCall == [shape |-> "none", asked |-> FALSE, cnt |-> 0, ph |-> <<>>]

-----------------------------------------------------------------------------
(* Names.                                                                  *)

Lower(name) == [name EXCEPT !.word = LowerOf[@]]

\* ss::string_cast(): columns are counted from 0.
IndexName(k) == Name(IndexOf[k - 1])

PlaceholderAt(k) ==
    IF k \in DOMAIN call.ph /\ call.ph[k] # NoName THEN call.ph[k] ELSE IndexName(k)

BaseName(k) == IF datafmt[k] # NoName THEN Lower(datafmt[k]) ELSE PlaceholderAt(k)

\* HashAssignmentHelper: a key counts as taken when its value is not NOTHING.
Taken(h, name) == \E k \in DOMAIN h : h[k].key = name /\ h[k].value # Nothing

Numbered(name, num) == [name EXCEPT !.n = Append(@, num)]

\* Mutated form of UniqueName: numbered by position, without a second look.
UniqueNameByPosition(h, name) ==
    IF ~Taken(h, name) THEN name ELSE Numbered(name, Len(h))

UniqueName(h, name) ==
    IF ~Taken(h, name) THEN name
    ELSE Numbered(name, Min({num \in 1..Len(h) + 1 : ~Taken(h, Numbered(name, num))}))

\* Assignment under a key: a key that is there keeps its place.
Assigned(h, name, value) ==
    IF \E k \in DOMAIN h : h[k].key = name
    THEN [k \in DOMAIN h |-> IF h[k].key = name THEN [h[k] EXCEPT !.value = value] ELSE h[k]]
    ELSE Append(h, [key |-> name, value |-> value])

\* The next column of the hash being filled.
WithColumn(value) == Assigned(hash, UniqueName(hash, BaseName(i + 1)), value)

-----------------------------------------------------------------------------
Init ==
    /\ names \in ColumnLists
    /\ rows \in {s \in RowLists : \A k \in DOMAIN s : Len(s[k]) = Len(names)}
    /\ call = NoCall /\ pc = "ready"
    /\ datafmt = <<>> /\ dirty = TRUE /\ bufs = <<>>
    /\ r = 0 /\ cnt = 0 /\ i = 0 /\ hash = <<>> /\ out = <<>> /\ failures = 0

\* do_exception() throws: the call ends, and what it has built is released.
Raise ==
    /\ failures < MaxFailures
    /\ failures' = failures + 1
    /\ pc' = "ready" /\ call' = NoCall /\ hash' = <<>> /\ i' = 0
    /\ UNCHANGED <<result, columns, bufs, r, cnt, out>>

\* Where reading goes on once the columns are known.
AfterColumns(c) == IF c.asked THEN "setup" ELSE "fetch"

\* Mutated form of Undescribed: the flag is cleared when describing begins.
UndescribedClean == datafmt' = <<>> /\ dirty' = FALSE

\* Columns::reset()
Undescribed == datafmt' = <<>> /\ dirty' = TRUE

\* read_cols(), read_rows() and fetch_row() begin with ensure_colinfo().
Ask(c) ==
    /\ pc = "ready" /\ call' = c /\ cnt' = c.cnt /\ i' = 0
    /\ \/ /\ dirty \/ datafmt = <<>>
          /\ Undescribed /\ pc' = "describe"
       \/ /\ ~dirty /\ datafmt # <<>>
          /\ pc' = AfterColumns(c) /\ UNCHANGED columns
    /\ UNCHANGED <<result, bufs, r, hash, out, failures>>

\* One ct_describe() of get_row_description().
DescribeColumn ==
    /\ pc = "describe" /\ Len(datafmt) < Len(names)
    /\ \/ /\ datafmt' = Append(datafmt, names[Len(datafmt) + 1])
          /\ UNCHANGED <<result, call, pc, dirty, bufs, r, cnt, i, hash, out, failures>>
       \/ Raise

\* setup_output_buffers(): row_output_buffers::reset(), then a buffer for each
\* column and ct_bind().
ResetBuffers ==
    /\ pc = "describe" /\ Len(datafmt) = Len(names)
    /\ bufs' = <<>> /\ pc' = "bind"
    /\ UNCHANGED <<result, call, columns, r, cnt, i, hash, out, failures>>

BindBuffer ==
    /\ pc = "bind" /\ Len(bufs) < Len(datafmt)
    /\ \/ /\ bufs' = Append(bufs, [value |-> Null, indicator |-> 0])
          /\ UNCHANGED <<result, call, pc, columns, r, cnt, i, hash, out, failures>>
       \/ Raise

ColumnsKnown ==
    /\ pc = "bind" /\ Len(bufs) = Len(datafmt)
    /\ dirty' = FALSE /\ pc' = AfterColumns(call)
    /\ UNCHANGED <<result, call, datafmt, bufs, r, cnt, i, hash, out, failures>>

\* One column of setupColumns(): a new list under a name of its own.
SetupColumn ==
    /\ pc = "setup" /\ i < Len(datafmt)
    /\ hash' = WithColumn(NewList) /\ i' = i + 1
    /\ UNCHANGED <<result, call, pc, columns, bufs, r, cnt, out, failures>>

\* setupColumns() is called before the first row or, unless columns are asked
\* for anyway, after it.
SetupDone ==
    /\ pc = "setup" /\ i = Len(datafmt)
    /\ i' = 0 /\ pc' = IF call.asked THEN "fetch" ELSE "row"
    /\ UNCHANGED <<result, call, columns, bufs, r, cnt, hash, out, failures>>

\* ct_fetch() fills the buffers; for a NULL it sets the indicator and leaves the
\* value.
Filled(b, v) == IF v = Null THEN [b EXCEPT !.indicator = -1]
                ELSE [value |-> v, indicator |-> 0]

FetchRow ==
    /\ pc = "fetch" /\ r < Len(rows)
    /\ \/ /\ bufs' = [k \in DOMAIN bufs |-> Filled(bufs[k], rows[r + 1][k])]
          /\ r' = r + 1 /\ i' = 0
          /\ pc' = IF call.shape = "columns" /\ hash = <<>> THEN "setup" ELSE "row"
          /\ UNCHANGED <<result, call, columns, cnt, hash, out, failures>>
       \/ Raise

\* Mutated form of GetValue: NULL is returned as no value.
GetValueNothing(b) == IF b.indicator = -1 THEN Nothing ELSE Value(b.value)

\* get_value(): NULL is a value of Qore.
GetValue(b) == IF b.indicator = -1 THEN Value(Null) ELSE Value(b.value)

\* One column of output_buffers_to_hash(), or of append_buffers_to_list(), which
\* walks through the hash beside the columns; the conversion may fail.
RowColumn ==
    /\ pc = "row" /\ i < Len(datafmt)
    /\ \/ /\ hash' = IF call.shape = "rows" THEN WithColumn(GetValue(bufs[i + 1]))
                     ELSE [hash EXCEPT ![i + 1].value.items =
                              @ \o GetValue(bufs[i + 1]).items]
          /\ i' = i + 1
          /\ UNCHANGED <<result, call, pc, columns, bufs, r, cnt, out, failures>>
       \/ Raise

HandOut(first) ==
    out' = Append(out, [call |-> call, hash |-> hash, first |-> first, last |-> r])

\* A row is complete: the limit is counted down, and read_cols() and read_rows()
\* fetch on unless it is used up.
RowDone ==
    /\ pc = "row" /\ i = Len(datafmt)
    /\ cnt' = cnt - 1
    /\ pc' = IF cnt - 1 = 0 THEN "ready" ELSE "fetch"
    /\ \/ /\ call.shape = "rows"
          /\ HandOut(r) /\ hash' = <<>>
       \/ /\ call.shape = "columns" /\ cnt - 1 = 0
          /\ HandOut(r - call.cnt + 1) /\ hash' = <<>>
       \/ /\ call.shape = "columns" /\ cnt - 1 # 0
          /\ UNCHANGED <<hash, out>>
    /\ UNCHANGED <<result, call, columns, bufs, r, i, failures>>

\* CS_END_DATA.  The lists hold the rows read by this call.
EndOfData ==
    /\ pc = "fetch" /\ r = Len(rows)
    /\ pc' = "end" /\ hash' = <<>>
    /\ \/ call.shape = "columns" /\ HandOut(r - (call.cnt - cnt) + 1)
       \/ call.shape = "rows" /\ UNCHANGED out
    /\ UNCHANGED <<result, call, columns, bufs, r, cnt, i, failures>>

Next == \/ \E c \in Calls : Ask(c)
        \/ DescribeColumn \/ ResetBuffers \/ BindBuffer \/ ColumnsKnown
        \/ SetupColumn \/ SetupDone \/ FetchRow \/ RowColumn \/ RowDone \/ EndOfData

Spec == Init /\ [][Next]_vars

-----------------------------------------------------------------------------
(* Properties.                                                             *)

TypeOK ==
    /\ result \in ColumnLists \X RowLists /\ call \in Calls \cup {NoCall}
    /\ pc \in {"ready", "describe", "bind", "setup", "fetch", "row", "end"}
    /\ datafmt \in Seq({names[k] : k \in DOMAIN names}) /\ dirty \in BOOLEAN
    /\ \A k \in DOMAIN bufs : bufs[k].indicator \in {-1, 0}
    /\ r \in 0..Len(rows) /\ cnt \in Int /\ i \in 0..Len(names)
    /\ \A k \in DOMAIN hash : hash[k].value.kind \in {"value", "list"}
    /\ failures \in 0..MaxFailures

\* The columns of a result are all described and bound before a row of it is
\* fetched or named, also when an earlier call failed half-way through
\* retr_colinfo() (command.cpp:470-481).
FetchesIntoAllColumns ==
    pc \in {"setup", "fetch", "row"} => /\ datafmt = names
                                        /\ Len(bufs) = Len(names)

\* The values of column k in the rows a hash was made of.
ColumnOf(o, k) == [m \in 1..o.last - o.first + 1 |-> rows[o.first + m - 1][k]]

\* Each column has a key of its own, in the order of the columns, under which
\* are its values and no others, NULL ones included: command.cpp:694 counts on
\* the order of the hash and command.cpp:727 on the values in it.
EveryColumnReturned ==
    \A n \in DOMAIN out :
        LET o == out[n]  h == out[n].hash IN
        \/ /\ Len(h) = Len(names)
           /\ \A j, k \in DOMAIN h : h[j].key = h[k].key => j = k
           /\ \A k \in DOMAIN h : h[k].value.items = ColumnOf(o, k)
        \/ /\ h = <<>> /\ o.call.shape = "columns" /\ ~o.call.asked
           /\ o.first > o.last

\* The name of a column before another one can be in its way.
OwnName(k, p) ==
    IF names[k] # NoName THEN [word |-> LowerOf[names[k].word], n |-> names[k].n]
    ELSE IF k \in DOMAIN p /\ p[k] # NoName THEN p[k]
    ELSE IndexName(k)

\* The keys follow the standard xxx_n format for duplicate columns
\* (docs/mainpage.dox.tmpl:312): the first column of a name has it as it is, and
\* each further one the smallest number that is free.  So they are the same for
\* rows and for columns, and whatever the values are.
KeysAreStandard ==
    \A o \in {out[n] : n \in DOMAIN out} : \A k \in DOMAIN o.hash :
        LET before == {o.hash[m].key : m \in 1..k - 1}
            own    == OwnName(k, o.call.ph)
        IN  \/ own \notin before /\ o.hash[k].key = own
            \/ /\ own \in before
               /\ \E num \in 1..k :
                    /\ o.hash[k].key = [own EXCEPT !.n = Append(@, num)]
                    /\ o.hash[k].key \notin before
                    /\ \A m \in 1..num - 1 : [own EXCEPT !.n = Append(@, m)] \in before
=============================================================================
