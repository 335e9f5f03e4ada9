------------------------ MODULE StatementCursorProofs ------------------------
(***************************************************************************)
(* For every set of result streams, any limits and any number of           *)
(* executions, and whatever the mix of calls: a statement implements       *)
(* RowCursor, next() returns False only when nothing is left of a result,  *)
(* and rows are decoded with the columns of their own result.              *)
(***************************************************************************)
EXTENDS StatementCursor, SequenceLemmas

-----------------------------------------------------------------------------
(* The types of a command.                                                 *)

\* Formats colinfo and the fetchable result can have.
Cols == {"dirty", "none"} \cup {r.fmt : r \in Results}

LastRes  == {"NONE", "RETRY", "DONE", "END", "ERROR"} \cup Fetchable
Counts   == {-1} \cup {r.count : r \in Results}
Commands == [todo : Seq(Results), open : Cols, left : Seq(Rows), last : LastRes,
             count : Counts, cols : Cols]

\* Rows in the output buffers, and rows anywhere.
Buffered == {DecodedAs(row, cols) : row \in Rows, cols \in Cols}
Items    == Rows \cup Buffered

\* The rows a command still has for its reader.
Pending(cmd) == cmd.left \o RowsOf(cmd.todo)

\* What AreStreams says of one result.
LEMMA ResultFacts ==
    ASSUME NEW r \in Results
    PROVE  /\ r.type \in Fetchable \cup {"DONE", "SUCCEED", "FAIL", "BROKEN"}
           /\ r.rows \in Seq(Rows)
           /\ r.type \notin Fetchable => r.rows = <<>>
           /\ r.fmt \in Cols /\ r.count \in Counts
BY StreamsAssumption DEF Cols, Counts

\* The rows of each result of a stream.
RowLists(t) == [i \in DOMAIN t |-> t[i].rows]

\* They are sequences of rows.
LEMMA RowListsType ==
    ASSUME NEW t \in Seq(Results)
    PROVE  /\ RowLists(t) \in Seq(Seq(Rows)) /\ Len(RowLists(t)) = Len(t)
           /\ \A i \in 1..Len(t) : RowLists(t)[i] = t[i].rows
<1>1. Len(t) \in Nat /\ DOMAIN t = 1..Len(t) /\ \A i \in 1..Len(t) : t[i] \in Results
  BY LenProperties, ElementOfSeq
<1>2. \A i \in 1..Len(t) : t[i].rows \in Seq(Rows)
  BY <1>1, ResultFacts
<1>3. RowLists(t) = [i \in 1..Len(t) |-> t[i].rows]
  BY <1>1 DEF RowLists
<1> QED BY <1>1, <1>2, <1>3, IsASeq

\* The rows of a stream of results are a sequence of rows; those of the first
\* result come first.
LEMMA RowsOfStream ==
    ASSUME NEW t \in Seq(Results)
    PROVE  /\ RowsOf(t) \in Seq(Rows)
           /\ RowsOf(<<>>) = <<>>
           /\ t # <<>> => RowsOf(t) = Head(t).rows \o RowsOf(Tail(t))
<1>1. \A u \in Seq(Results) : RowsOf(u) = FlattenSeq(RowLists(u))
  BY DEF RowsOf, RowLists
<1>2. RowsOf(t) \in Seq(Rows)
  BY <1>1, RowListsType, FlattenType
<1>3. RowsOf(<<>>) = <<>>
  <2>1. <<>> \in Seq(Results) /\ RowLists(<<>>) = <<>>
    <3>1. RowLists(<<>>) \in Seq(Seq(Rows)) /\ Len(RowLists(<<>>)) = 0
      BY RowListsType, EmptySeq
    <3> QED BY <3>1, EmptySeq
  <2> QED BY <1>1, <2>1, FlattenEmpty
<1>4. ASSUME t # <<>>
      PROVE  RowsOf(t) = Head(t).rows \o RowsOf(Tail(t))
  <2>1. /\ Tail(t) \in Seq(Results) /\ Head(t) \in Results /\ Head(t) = t[1]
        /\ Len(t) \in Nat /\ Len(t) >= 1 /\ Len(Tail(t)) = Len(t) - 1
        /\ \A i \in 1..Len(t) - 1 : Tail(t)[i] = t[i + 1]
    BY <1>4, HeadTailProperties, LenProperties, EmptySeq
  <2>2. Head(t).rows \in Seq(Rows)
    BY <2>1, ResultFacts
  <2>3. /\ RowLists(t) \in Seq(Seq(Rows)) /\ RowLists(Tail(t)) \in Seq(Seq(Rows))
        /\ Len(RowLists(t)) = Len(t) /\ Len(RowLists(Tail(t))) = Len(t) - 1
        /\ \A i \in 1..Len(t) : RowLists(t)[i] = t[i].rows
        /\ \A i \in 1..Len(Tail(t)) : RowLists(Tail(t))[i] = Tail(t)[i].rows
    BY <2>1, RowListsType
  <2>4. /\ Len(RowLists(t)) = Len(RowLists(Tail(t))) + 1
        /\ RowLists(t)[1] = Head(t).rows
        /\ \A i \in 1..Len(RowLists(Tail(t))) : RowLists(t)[i + 1] = RowLists(Tail(t))[i]
    <3>1. Len(RowLists(t)) = Len(RowLists(Tail(t))) + 1
      <4>1. /\ Len(t) \in Nat /\ Len(RowLists(t)) = Len(t)
            /\ Len(RowLists(Tail(t))) = Len(t) - 1
        BY <2>1, <2>3, Zenon
      <4> QED BY <4>1
    <3>2. RowLists(t)[1] = Head(t).rows
      BY <2>1, <2>3
    <3>3. ASSUME NEW i \in 1..Len(RowLists(Tail(t)))
          PROVE  RowLists(t)[i + 1] = RowLists(Tail(t))[i]
      <4>1. i \in 1..Len(t) - 1 /\ i \in 1..Len(Tail(t)) /\ i + 1 \in 1..Len(t)
        BY <2>1, <2>3
      <4>2. Tail(t)[i].rows = t[i + 1].rows
        BY <2>1, <4>1
      <4> QED BY <2>3, <4>1, <4>2
    <3> QED BY <3>1, <3>2, <3>3
  <2>5. RowLists(t) = <<Head(t).rows>> \o RowLists(Tail(t))
    BY <2>2, <2>3, <2>4, ConsIs
  <2>6. FlattenSeq(<<Head(t).rows>> \o RowLists(Tail(t)))
          = Head(t).rows \o FlattenSeq(RowLists(Tail(t)))
    BY <2>2, <2>3, FlattenCons
  <2> QED BY <1>1, <2>1, <2>5, <2>6
<1> QED BY <1>2, <1>3, <1>4

\* What is pending is a sequence of rows.
LEMMA PendingType ==
    ASSUME NEW cmd \in Commands
    PROVE  Pending(cmd) \in Seq(Rows)
<1>1. cmd.left \in Seq(Rows) /\ RowsOf(cmd.todo) \in Seq(Rows)
  BY RowsOfStream DEF Commands
<1> QED BY <1>1, ConcatProperties DEF Pending

-----------------------------------------------------------------------------
(* The identities of rows.                                                 *)

\* Identities, of rows anywhere.
Names == {row.id : row \in Rows}

\* The identities of a sequence of rows, part by part; a row that has been
\* decoded keeps its own.
LEMMA IdsOf ==
    /\ \A s \in Seq(Items) :
         /\ Ids(s) \in Seq(Names) /\ Len(Ids(s)) = Len(s)
         /\ \A i \in 1..Len(s) : Ids(s)[i] = s[i].id
    /\ \A s, t \in Seq(Items) : Ids(s \o t) = Ids(s) \o Ids(t)
<1>1. ASSUME NEW item \in Items
      PROVE  item.id \in Names
  BY DEF Items, Names, Buffered, DecodedAs
<1>2. ASSUME NEW s \in Seq(Items)
      PROVE  /\ Ids(s) \in Seq(Names) /\ Len(Ids(s)) = Len(s)
             /\ \A i \in 1..Len(s) : Ids(s)[i] = s[i].id
  <2>1. Len(s) \in Nat /\ DOMAIN s = 1..Len(s) /\ \A i \in 1..Len(s) : s[i] \in Items
    BY LenProperties, ElementOfSeq
  <2>2. Ids(s) = [i \in 1..Len(s) |-> s[i].id]
    BY <2>1 DEF Ids
  <2>3. \A i \in 1..Len(s) : s[i].id \in Names
    BY <1>1, <2>1
  <2> QED BY <2>1, <2>2, <2>3, IsASeq
<1>3. ASSUME NEW s \in Seq(Items), NEW t \in Seq(Items)
      PROVE  Ids(s \o t) = Ids(s) \o Ids(t)
  <2>1. /\ s \o t \in Seq(Items) /\ Len(s \o t) = Len(s) + Len(t)
        /\ Len(s) \in Nat /\ Len(t) \in Nat
        /\ \A i \in 1..Len(s) : (s \o t)[i] = s[i]
        /\ \A i \in 1..Len(t) : (s \o t)[Len(s) + i] = t[i]
    BY ConcatProperties, LenProperties
  <2>2. \A i \in 1..Len(s) + Len(t) : (s \o t)[i].id =
          IF i <= Len(s) THEN Ids(s)[i] ELSE Ids(t)[i - Len(s)]
    <3> TAKE i \in 1..Len(s) + Len(t)
    <3>1. CASE i <= Len(s)
      BY <1>2, <2>1, <3>1
    <3>2. CASE i > Len(s)
      <4>1. i - Len(s) \in 1..Len(t) /\ Len(s) + (i - Len(s)) = i
        BY <2>1, <3>2
      <4> QED BY <1>2, <2>1, <3>2, <4>1
    <3> QED BY <2>1, <3>1, <3>2
  <2>3. ASSUME NEW u \in Seq(Names), NEW v \in Seq(Names), NEW w \in Seq(Names),
               Len(w) = Len(u) + Len(v),
               \A i \in 1..Len(u) + Len(v) :
                  w[i] = IF i <= Len(u) THEN u[i] ELSE v[i - Len(u)]
        PROVE  w = u \o v
    <3>1. PICK x : x = u \o v
      OBVIOUS
    <3>2. /\ x \in Seq(Names) /\ Len(x) = Len(u) + Len(v)
          /\ Len(u) \in Nat /\ Len(v) \in Nat
      BY <3>1, LenProperties, ConcatProperties
    <3>3. ASSUME NEW i \in 1..Len(u) + Len(v)
          PROVE  x[i] = IF i <= Len(u) THEN u[i] ELSE v[i - Len(u)]
      BY <3>1, <3>2, ConcatProperties
    <3>4. Len(w) = Len(x) /\ \A i \in 1..Len(w) : w[i] = x[i]
      BY <2>3, <3>2, <3>3
    <3>5. w = x
      BY <3>2, <3>4, SeqEqual
    <3> QED BY <3>1, <3>5
  <2>4. \A i \in 1..Len(s) + Len(t) :
          Ids(s \o t)[i] = IF i <= Len(s) THEN Ids(s)[i] ELSE Ids(t)[i - Len(s)]
    BY <1>2, <2>1, <2>2
  <2>5. /\ Ids(s) \in Seq(Names) /\ Ids(t) \in Seq(Names) /\ Ids(s \o t) \in Seq(Names)
        /\ Len(Ids(s)) = Len(s) /\ Len(Ids(t)) = Len(t)
        /\ Len(Ids(s \o t)) = Len(s) + Len(t)
    BY <1>2, <2>1
  <2> QED BY <2>3, <2>4, <2>5
<1> QED BY <1>2, <1>3

-----------------------------------------------------------------------------
(* The steps of a command.                                                 *)

\* Rows are left only of a result that has been announced.
RowsAreAnnounced(cmd) == cmd.last \notin Fetchable => cmd.left = <<>> /\ cmd.open = "none"

\* A command whose results are those of a stream.
LEMMA NewCommandIs ==
    ASSUME NEW s \in Seq(Results)
    PROVE  /\ NewCommand(s) \in Commands /\ RowsAreAnnounced(NewCommand(s))
           /\ Pending(NewCommand(s)) = RowsOf(s)
<1>1. <<>> \in Seq(Rows) /\ RowsOf(s) \in Seq(Rows)
  BY EmptySeq, RowsOfStream
<1>2. <<>> \o RowsOf(s) = RowsOf(s)
  BY <1>1, ConcatEmptySeq
<1> QED BY <1>1, <1>2
     DEF NewCommand, Commands, Cols, LastRes, Counts, RowsAreAnnounced, Pending, Fetchable

\* ct_results() changes the type, the rows and the columns of the result that
\* can be fetched, by the next result of the stream.
LEMMA NextResultIs ==
    ASSUME NEW cmd \in Commands, cmd.todo # <<>>,
           NEW r, r = Head(cmd.todo), NEW d, d = NextResult(cmd)
    PROVE  /\ r \in Results /\ d \in Commands
           /\ r.type \in Fetchable \cup {"DONE", "SUCCEED", "FAIL", "BROKEN"}
           /\ r.type # "DONE" => d.cols = cmd.cols
           /\ r.type \in Fetchable =>
                /\ d.todo = Tail(cmd.todo) /\ d.last = r.type
                /\ d.open = r.fmt /\ d.left = r.rows
           /\ r.type \notin Fetchable =>
                /\ d.open = cmd.open /\ d.left = cmd.left
                /\ d.todo = IF r.type = "BROKEN" THEN <<>> ELSE Tail(cmd.todo)
                /\ r.type = "DONE" => d.cols = "dirty"
                /\ r.type = "FAIL" => d.last = cmd.last
                /\ r.type # "FAIL" => d.last \in {"DONE", "RETRY", "ERROR"}
<1>1. cmd.todo \in Seq(Results) /\ cmd = [todo |-> cmd.todo, open |-> cmd.open,
        left |-> cmd.left, last |-> cmd.last, count |-> cmd.count, cols |-> cmd.cols]
  BY DEF Commands
<1>2. r \in Results /\ Tail(cmd.todo) \in Seq(Results)
  BY <1>1, HeadTailProperties
<1>0. d = WithResult(cmd, r)
  BY DEF NextResult
<1>3. /\ r.type \in Fetchable \cup {"DONE", "SUCCEED", "FAIL", "BROKEN"}
      /\ r.rows \in Seq(Rows) /\ r.fmt \in Cols /\ r.count \in Counts
  BY <1>2, ResultFacts
<1>4. CASE r.type \in Fetchable
  BY <1>0, <1>1, <1>2, <1>3, <1>4 DEF WithResult, Commands, LastRes, Fetchable
<1>5. CASE r.type = "DONE"
  BY <1>0, <1>1, <1>2, <1>3, <1>5 DEF WithResult, Commands, LastRes, Fetchable, Cols
<1>6. CASE r.type = "SUCCEED"
  BY <1>0, <1>1, <1>2, <1>3, <1>6 DEF WithResult, Commands, LastRes, Fetchable
<1>7. CASE r.type = "BROKEN"
  BY <1>0, <1>1, <1>2, <1>3, <1>7, EmptySeq DEF WithResult, Commands, LastRes, Fetchable
<1>8. CASE r.type = "FAIL"
  BY <1>0, <1>1, <1>2, <1>3, <1>8 DEF WithResult, Commands, LastRes, Fetchable
<1> QED BY <1>3, <1>4, <1>5, <1>6, <1>7, <1>8

\* read_next_result1() keeps what is pending, or it raises an exception; then
\* what is pending is kept or gone.
LEMMA NextResultKeeps ==
    ASSUME NEW cmd \in Commands, Readable(cmd), RowsAreAnnounced(cmd),
           NEW d, d = NextResult(cmd)
    PROVE  /\ d \in Commands /\ RowsAreAnnounced(d)
           /\ ~ResultRaises(cmd) => Pending(d) = Pending(cmd)
           /\ Pending(d) \in {Pending(cmd), <<>>}
<1>1. /\ cmd.left = <<>> /\ cmd.open = "none" /\ cmd.last \notin Fetchable
      /\ cmd.todo \in Seq(Results)
  BY DEF Readable, RowsAreAnnounced, Fetchable, Commands
<1>2. RowsOf(cmd.todo) \in Seq(Rows) /\ Pending(cmd) = RowsOf(cmd.todo)
  BY <1>1, RowsOfStream, ConcatEmptySeq DEF Pending
<1>3. CASE cmd.todo = <<>>
  <2>1. d = [cmd EXCEPT !.last = "END"]
    BY <1>3 DEF NextResult
  <2>2. d \in Commands /\ d.left = <<>> /\ d.open = "none" /\ d.todo = cmd.todo
    BY <1>1, <2>1 DEF Commands, LastRes
  <2>3. Pending(d) = Pending(cmd)
    BY <1>1, <2>2 DEF Pending
  <2> QED BY <2>2, <2>3 DEF RowsAreAnnounced
<1>4. CASE cmd.todo # <<>>
  <2>1. PICK r : r = Head(cmd.todo)
    OBVIOUS
  <2>2. /\ Tail(cmd.todo) \in Seq(Results) /\ RowsOf(Tail(cmd.todo)) \in Seq(Rows)
        /\ RowsOf(cmd.todo) = r.rows \o RowsOf(Tail(cmd.todo))
        /\ RowsOf(<<>>) = <<>>
    BY <1>1, <1>4, <2>1, HeadTailProperties, RowsOfStream
  <2>3. /\ r \in Results /\ d \in Commands
        /\ r.type \in Fetchable \cup {"DONE", "SUCCEED", "FAIL", "BROKEN"}
        /\ r.type \notin Fetchable => r.rows = <<>>
    BY <1>4, <2>1, NextResultIs, ResultFacts
  <2>4. ResultRaises(cmd) <=> r.type \in {"FAIL", "BROKEN"}
    BY <1>4, <2>1 DEF ResultRaises
  <2>5. CASE r.type \in Fetchable
    <3>1. d.left = r.rows /\ d.todo = Tail(cmd.todo) /\ d.last \in Fetchable
      BY <1>4, <2>1, <2>5, NextResultIs
    <3> QED BY <1>2, <2>2, <2>3, <3>1 DEF Pending, RowsAreAnnounced
  <2>6. CASE r.type \in {"DONE", "SUCCEED", "FAIL"}
    <3>1. d.left = <<>> /\ d.open = "none" /\ d.todo = Tail(cmd.todo)
      BY <1>1, <1>4, <2>1, <2>6, NextResultIs DEF Fetchable
    <3>2. r.rows = <<>>
      BY <2>3, <2>6 DEF Fetchable
    <3> QED BY <1>2, <2>2, <2>3, <3>1, <3>2 DEF Pending, RowsAreAnnounced
  <2>7. CASE r.type = "BROKEN"
    <3>1. d.left = <<>> /\ d.open = "none" /\ d.todo = <<>>
      BY <1>1, <1>4, <2>1, <2>7, NextResultIs DEF Fetchable
    <3>2. Pending(d) = <<>>
      BY <2>2, <3>1, EmptySeq, ConcatEmptySeq DEF Pending
    <3> QED BY <2>3, <2>4, <2>7, <3>1, <3>2 DEF RowsAreAnnounced
  <2>8. r.type \in Fetchable \/ r.type \in {"DONE", "SUCCEED", "FAIL"} \/ r.type = "BROKEN"
    BY <2>3
  <2> QED BY <2>5, <2>6, <2>7, <2>8
<1> QED BY <1>3, <1>4

\* ensure_colinfo() changes no more than the columns.
LEMMA WithColumnsIs ==
    ASSUME NEW cmd \in Commands, NEW d, d = WithColumns(cmd)
    PROVE  /\ d \in Commands
           /\ d.todo = cmd.todo /\ d.open = cmd.open /\ d.left = cmd.left /\ d.last = cmd.last
           /\ d.cols = IF cmd.cols = "dirty" THEN cmd.open ELSE cmd.cols
           /\ Pending(d) = Pending(cmd)
BY DEF WithColumns, NeedsColumns, Described, Commands, Pending

\* The row that is fetched was the first of those pending.
LEMMA WithoutRowIs ==
    ASSUME NEW cmd \in Commands, RowsAreAnnounced(cmd), HasRow(cmd),
           NEW d, d = WithoutRow(cmd)
    PROVE  /\ d \in Commands /\ RowsAreAnnounced(d)
           /\ d.todo = cmd.todo /\ d.open = cmd.open /\ d.last = cmd.last
           /\ d.cols = cmd.cols /\ d.left = Tail(cmd.left)
           /\ Head(cmd.left) \in Rows /\ Decoded(cmd) \in Buffered
           /\ <<Decoded(cmd)>> \in Seq(Buffered)
           /\ Ids(Pending(cmd)) = Ids(<<Decoded(cmd)>>) \o Ids(Pending(d))
           /\ Ids(Pending(cmd)) = <<Decoded(cmd).id>> \o Ids(Pending(d))
<1>1. /\ cmd.left \in Seq(Rows) /\ cmd.left # <<>> /\ cmd.cols \in Cols
      /\ cmd.todo \in Seq(Results)
  BY DEF HasRow, Commands
<1>2. /\ Head(cmd.left) \in Rows /\ Tail(cmd.left) \in Seq(Rows)
      /\ cmd.left = <<Head(cmd.left)>> \o Tail(cmd.left)
  <2>1. /\ Head(cmd.left) \in Rows /\ Tail(cmd.left) \in Seq(Rows)
        /\ Len(cmd.left) = Len(Tail(cmd.left)) + 1 /\ Head(cmd.left) = cmd.left[1]
        /\ \A i \in 1..Len(Tail(cmd.left)) : cmd.left[i + 1] = Tail(cmd.left)[i]
    BY <1>1, HeadTailProperties, LenProperties
  <2> QED BY <1>1, <2>1, ConsIs
<1>3. cmd.last \in Fetchable
  BY <1>1 DEF RowsAreAnnounced
<1>4. /\ d = [cmd EXCEPT !.left = Tail(cmd.left)]
      /\ d \in Commands /\ d.todo = cmd.todo /\ d.open = cmd.open /\ d.last = cmd.last
      /\ d.cols = cmd.cols /\ d.left = Tail(cmd.left)
  BY <1>2 DEF WithoutRow, Commands
<1>5. Decoded(cmd) \in Buffered /\ Decoded(cmd).id = Head(cmd.left).id
  BY <1>1, <1>2 DEF Decoded, Buffered, DecodedAs
<1> DEFINE one == <<Head(cmd.left)>>
          two == <<Decoded(cmd)>>
<1>6. /\ one \in Seq(Items) /\ two \in Seq(Items) /\ two \in Seq(Buffered) /\ one \in Seq(Rows)
      /\ Ids(one) = <<Decoded(cmd).id>> /\ Ids(two) = <<Decoded(cmd).id>>
  <2>1. Head(cmd.left) \in Items /\ Decoded(cmd) \in Items
    BY <1>2, <1>5 DEF Items
  <2>2. one \in Seq(Items) /\ two \in Seq(Items) /\ two \in Seq(Buffered) /\ one \in Seq(Rows)
    BY <1>2, <1>5, <2>1
  <2>3. ASSUME NEW x \in Items
        PROVE  Ids(<<x>>) = <<x.id>>
    <3>1. <<x>> \in Seq(Items) /\ Len(<<x>>) = 1 /\ <<x>>[1] = x
      OBVIOUS
    <3>2. Ids(<<x>>) \in Seq(Names) /\ Len(Ids(<<x>>)) = 1 /\ Ids(<<x>>)[1] = x.id
      <4>1. 1 \in 1..1
        OBVIOUS
      <4> QED BY <3>1, <4>1, IdsOf
    <3>3. <<x.id>> \in Seq(Names) /\ Len(<<x.id>>) = 1 /\ <<x.id>>[1] = x.id
      BY DEF Items, Names, Buffered, DecodedAs
    <3>4. ASSUME NEW u \in Seq(Names), NEW v \in Seq(Names),
                 Len(u) = 1, Len(v) = 1, u[1] = v[1]
          PROVE  u = v
      BY <3>4, SeqEqual
    <3> QED BY <3>2, <3>3, <3>4
  <2> QED BY <1>5, <2>1, <2>2, <2>3
<1> HIDE DEF one
<1>7. Pending(cmd) = one \o Pending(d)
  <2>1. RowsOf(cmd.todo) \in Seq(Rows)
    BY <1>1, RowsOfStream
  <2>2. \A a, b, e \in Seq(Rows) : (a \o b) \o e = a \o (b \o e)
    OBVIOUS
  <2>3. cmd.left = one \o Tail(cmd.left)
    BY <1>2 DEF one
  <2>4. (one \o Tail(cmd.left)) \o RowsOf(cmd.todo) = one \o (Tail(cmd.left) \o RowsOf(cmd.todo))
    BY <1>2, <1>6, <2>1, <2>2
  <2>5. Pending(cmd) = (one \o Tail(cmd.left)) \o RowsOf(cmd.todo)
    BY <2>3 DEF Pending
  <2>6. Pending(d) = Tail(cmd.left) \o RowsOf(cmd.todo)
    BY <1>4 DEF Pending
  <2> QED BY <2>4, <2>5, <2>6
<1>8. Pending(d) \in Seq(Items)
  <2>1. Pending(d) \in Seq(Rows) /\ Rows \subseteq Items
    BY <1>4, PendingType DEF Items
  <2> QED BY <2>1
<1>9. Ids(Pending(cmd)) = Ids(one) \o Ids(Pending(d))
  BY <1>6, <1>7, <1>8, IdsOf
<1> QED BY <1>2, <1>3, <1>4, <1>5, <1>6, <1>9 DEF RowsAreAnnounced

\* At the end of the rows of a result what is pending are those of the next.
LEMMA WithoutRowsIs ==
    ASSUME NEW cmd \in Commands, ~HasRow(cmd), NEW d, d = WithoutRows(cmd)
    PROVE  /\ d \in Commands /\ RowsAreAnnounced(d) /\ d.last = "NONE"
           /\ d.todo = cmd.todo /\ d.left = <<>> /\ d.cols = cmd.cols
           /\ Pending(d) = Pending(cmd)
BY DEF WithoutRows, HasRow, Commands, RowsAreAnnounced, Pending, Cols, LastRes

-----------------------------------------------------------------------------
(* Where a command is in its stream.                                       *)

\* The format f is that of one of the first k results, in the logical command
\* that the k-th of them is part of.
Describes(s, f, k) ==
    \E i \in 1..k : s[i].fmt = f /\ \A m \in i..k : s[m].type # "DONE"

\* The command has had the first k results of the stream s: what is to come are
\* the others, unless it was broken off; what can be fetched is of the k-th,
\* and colinfo describes one of its logical command.
At(s, cmd, k) ==
    /\ k \in 0..Len(s)
    /\ cmd.todo \in {SubSeq(s, k + 1, Len(s)), <<>>}
    /\ cmd.last \in Fetchable =>
         /\ k >= 1 /\ s[k].type # "DONE" /\ cmd.open = s[k].fmt
         /\ \A i \in 1..Len(cmd.left) : cmd.left[i].fmt = s[k].fmt
    /\ cmd.cols # "dirty" => Describes(s, cmd.cols, k)

\* A new command has had none.
LEMMA NewCommandAt ==
    ASSUME NEW s \in Seq(Results)
    PROVE  At(s, NewCommand(s), 0)
<1>1. Len(s) \in Nat /\ SubSeq(s, 1, Len(s)) = s
  <2>1. <<>> \in Seq(Results)
    BY EmptySeq
  <2>2. SubSeq(s \o <<>>, 1, Len(s)) = s /\ s \o <<>> = s
    BY <2>1, Cuts, ConcatEmptySeq
  <2> QED BY <2>2, LenProperties
<1> QED BY <1>1 DEF NewCommand, At, Fetchable

\* ct_results() goes to the next one, or stays at the end.
LEMMA NextResultAt ==
    ASSUME NEW s \in Seq(Results), NEW cmd \in Commands, NEW k, At(s, cmd, k),
           Readable(cmd), RowsAreAnnounced(cmd), NEW d, d = NextResult(cmd)
    PROVE  \E m \in {k, k + 1} : At(s, d, m)
<1>1. k \in Nat /\ Len(s) \in Nat /\ cmd.last \notin Fetchable /\ k \in 0..Len(s)
  BY LenProperties DEF Readable, Fetchable, At
<1>2. CASE cmd.todo = <<>>
  <2>1. /\ d.last = "END" /\ d.todo = cmd.todo /\ d.cols = cmd.cols
    BY <1>2 DEF NextResult, Commands
  <2>2. At(s, d, k)
    BY <2>1 DEF At, Fetchable
  <2> QED BY <2>2
<1>3. CASE cmd.todo # <<>>
  <2>1. PICK r : r = Head(cmd.todo)
    OBVIOUS
  <2>2. cmd.todo = SubSeq(s, k + 1, Len(s))
    BY <1>3 DEF At
  <2>3. k + 1 <= Len(s) /\ r = s[k + 1] /\ Tail(cmd.todo) = SubSeq(s, (k + 1) + 1, Len(s))
    BY <1>1, <1>3, <2>1, <2>2, BackOf
  <2>4. /\ r.type \in Fetchable \cup {"DONE", "SUCCEED", "FAIL", "BROKEN"}
        /\ r \in Results
        /\ r.type # "DONE" => d.cols = cmd.cols
        /\ r.type = "DONE" => d.cols = "dirty"
        /\ d.todo \in {Tail(cmd.todo), <<>>}
        /\ r.type \in Fetchable => d.open = r.fmt /\ d.left = r.rows
        /\ d.last \in Fetchable => r.type \in Fetchable
    <3>1. "DONE" \notin Fetchable /\ {"DONE", "RETRY", "ERROR"} \cap Fetchable = {}
      BY DEF Fetchable
    <3>2. /\ r \in Results
          /\ r.type \in Fetchable \cup {"DONE", "SUCCEED", "FAIL", "BROKEN"}
          /\ r.type # "DONE" => d.cols = cmd.cols
          /\ r.type \in Fetchable =>
               d.todo = Tail(cmd.todo) /\ d.open = r.fmt /\ d.left = r.rows
          /\ r.type \notin Fetchable =>
               /\ d.todo = IF r.type = "BROKEN" THEN <<>> ELSE Tail(cmd.todo)
               /\ r.type = "DONE" => d.cols = "dirty"
               /\ r.type = "FAIL" => d.last = cmd.last
               /\ r.type # "FAIL" => d.last \in {"DONE", "RETRY", "ERROR"}
      BY <1>3, <2>1, NextResultIs
    <3>3. d.todo \in {Tail(cmd.todo), <<>>}
      BY <3>2
    <3>4. d.last \in Fetchable => r.type \in Fetchable
      BY <1>1, <3>1, <3>2
    <3> QED BY <3>1, <3>2, <3>3, <3>4
  <2>5. r.type # "DONE" /\ cmd.cols # "dirty" => Describes(s, cmd.cols, k + 1)
    <3> SUFFICES ASSUME r.type # "DONE", cmd.cols # "dirty"
                 PROVE  Describes(s, cmd.cols, k + 1)
      OBVIOUS
    <3>1. PICK i \in 1..k : s[i].fmt = cmd.cols /\ \A m \in i..k : s[m].type # "DONE"
      BY DEF At, Describes
    <3>2. i \in 1..k + 1 /\ \A m \in i..k + 1 : m = k + 1 \/ m \in i..k
      BY <1>1
    <3>3. \A m \in i..k + 1 : s[m].type # "DONE"
      BY <2>3, <3>1, <3>2
    <3> QED BY <3>1, <3>2, <3>3 DEF Describes
  <2>6. r.type \in Fetchable => \A i \in 1..Len(r.rows) : r.rows[i].fmt = r.fmt
    <3>1. r.rows \in Seq(Rows) /\ DOMAIN r.rows = 1..Len(r.rows)
      BY <2>4, ResultFacts, LenProperties
    <3> QED BY <2>4, <3>1, StreamsAssumption
  <2>7. k + 1 \in 0..Len(s) /\ k + 1 >= 1
    BY <1>1, <2>3
  <2>8. At(s, d, k + 1)
    <3>1. d.todo \in {SubSeq(s, (k + 1) + 1, Len(s)), <<>>}
      BY <2>3, <2>4
    <3>2. d.last \in Fetchable =>
            /\ s[k + 1].type # "DONE" /\ d.open = s[k + 1].fmt
            /\ \A i \in 1..Len(d.left) : d.left[i].fmt = s[k + 1].fmt
      BY <2>3, <2>4, <2>6 DEF Fetchable
    <3>3. d.cols # "dirty" => Describes(s, d.cols, k + 1)
      BY <2>4, <2>5
    <3> QED BY <2>7, <3>1, <3>2, <3>3 DEF At
  <2> QED BY <2>8
<1> QED BY <1>2, <1>3

\* Describing the columns of a result describes that result.
LEMMA ColumnsAt ==
    ASSUME NEW s, Len(s) \in Nat, NEW cmd \in Commands, NEW k, At(s, cmd, k), RowsAreAnnounced(cmd),
           ~ColumnsRaise(cmd), NEW d, d = WithColumns(cmd)
    PROVE  /\ At(s, d, k)
           /\ d.cols = d.open \/ d.cols # "dirty"
<1>1. /\ d.todo = cmd.todo /\ d.open = cmd.open /\ d.left = cmd.left /\ d.last = cmd.last
      /\ d.cols = IF cmd.cols = "dirty" THEN cmd.open ELSE cmd.cols
  BY WithColumnsIs
<1>2. CASE cmd.cols # "dirty"
  BY <1>1, <1>2 DEF At
<1>3. CASE cmd.cols = "dirty"
  <2>1. cmd.open # "none"
    BY <1>3 DEF ColumnsRaise, NeedsColumns
  <2>2. cmd.last \in Fetchable
    BY <2>1 DEF RowsAreAnnounced
  <2>3. /\ k \in 0..Len(s) /\ k >= 1 /\ s[k].type # "DONE" /\ cmd.open = s[k].fmt
        /\ k \in 1..k /\ \A m \in k..k : m = k
    BY <2>2 DEF At
  <2>4. Describes(s, cmd.open, k)
    BY <2>3 DEF Describes
  <2> QED BY <1>1, <1>3, <2>4 DEF At
<1> QED BY <1>2, <1>3

\* Fetching stays at the result.
LEMMA FetchAt ==
    ASSUME NEW s, NEW cmd \in Commands, NEW k, At(s, cmd, k), RowsAreAnnounced(cmd)
    PROVE  /\ HasRow(cmd) => At(s, WithoutRow(cmd), k)
           /\ ~HasRow(cmd) => At(s, WithoutRows(cmd), k)
<1>1. ASSUME HasRow(cmd)
      PROVE  At(s, WithoutRow(cmd), k)
  <2>1. PICK d : d = WithoutRow(cmd)
    OBVIOUS
  <2>2. /\ d.todo = cmd.todo /\ d.open = cmd.open /\ d.last = cmd.last
        /\ d.cols = cmd.cols /\ d.left = Tail(cmd.left)
    BY <1>1, <2>1, WithoutRowIs
  <2>3. ASSUME \A i \in 1..Len(cmd.left) : cmd.left[i].fmt = s[k].fmt
        PROVE  \A i \in 1..Len(Tail(cmd.left)) : Tail(cmd.left)[i].fmt = s[k].fmt
    <3>1. /\ Len(cmd.left) \in Nat /\ Len(Tail(cmd.left)) = Len(cmd.left) - 1
          /\ \A i \in 1..Len(Tail(cmd.left)) : Tail(cmd.left)[i] = cmd.left[i + 1]
      BY <1>1, HeadTailProperties, LenProperties DEF Commands, HasRow
    <3>2. \A i \in 1..Len(Tail(cmd.left)) : i + 1 \in 1..Len(cmd.left)
      BY <3>1
    <3> QED BY <2>3, <3>1, <3>2
  <2>4. At(s, d, k)
    BY <2>2, <2>3 DEF At
  <2> QED BY <2>1, <2>4
<1>2. ASSUME ~HasRow(cmd)
      PROVE  At(s, WithoutRows(cmd), k)
  <2>1. PICK d : d = WithoutRows(cmd)
    OBVIOUS
  <2>2. d.todo = cmd.todo /\ d.last = "NONE" /\ d.cols = cmd.cols
    BY <1>2, <2>1, WithoutRowsIs
  <2>3. At(s, d, k)
    BY <2>2 DEF At, Fetchable
  <2> QED BY <2>1, <2>3
<1> QED BY <1>1, <1>2

\* A row is decoded with columns of its logical command.
LEMMA DecodedAt ==
    ASSUME NEW s \in Seq(Results), NEW cmd \in Commands, NEW k, At(s, cmd, k),
           RowsAreAnnounced(cmd), HasRow(cmd), cmd.cols = cmd.open \/ cmd.cols # "dirty"
    PROVE  SameCommand(s, Decoded(cmd).as, Decoded(cmd).fmt)
<1>1. cmd.last \in Fetchable
  BY DEF RowsAreAnnounced, HasRow
<1>2. /\ k \in 0..Len(s) /\ k >= 1 /\ s[k].type # "DONE" /\ cmd.open = s[k].fmt
      /\ \A i \in 1..Len(cmd.left) : cmd.left[i].fmt = s[k].fmt
      /\ Len(s) \in Nat /\ DOMAIN s = 1..Len(s)
  BY <1>1, LenProperties DEF At
<1>3. Head(cmd.left).fmt = s[k].fmt
  <2>1. Head(cmd.left) = cmd.left[1] /\ 1 \in 1..Len(cmd.left)
    BY HeadTailProperties, LenProperties, EmptySeq DEF Commands, HasRow
  <2> QED BY <1>2, <2>1
<1>4. Decoded(cmd).as = cmd.cols /\ Decoded(cmd).fmt = s[k].fmt
  BY <1>3 DEF Decoded, DecodedAs
<1>5. CASE cmd.cols = cmd.open
  BY <1>2, <1>4, <1>5 DEF SameCommand
<1>6. CASE cmd.cols # "dirty"
  <2>1. PICK i \in 1..k : s[i].fmt = cmd.cols /\ \A m \in i..k : s[m].type # "DONE"
    BY <1>6 DEF At, Describes
  <2>2. CASE i = k
    BY <1>4, <2>1, <2>2 DEF SameCommand
  <2>3. CASE i # k
    <3>1. i \in DOMAIN s /\ k \in DOMAIN s /\ i < k
      BY <1>2, <2>3
    <3> QED BY <1>4, <2>1, <3>1 DEF SameCommand
  <2> QED BY <2>2, <2>3
<1> QED BY <1>5, <1>6

-----------------------------------------------------------------------------
(* The inductive invariant.                                                *)

\* The calls that take rows from behind those read ahead.
Columns == {"fetch_columns", "get_output"}

\* Where a call is: no exception has been raised before it ends, only the
\* calls that return a list have one, and a row is fetched ahead only when none
\* is held; fetch_rows() has moved the held one to its list.
Flow ==
    /\ pc # "idle" => xsink = FALSE
    /\ pc # "idle" /\ op \in {"exec", "next"} => batch = <<>>
    /\ pc = "loop" => op = "fetch_rows"
    /\ pc \in {"results", "fetch"} => op \in {"exec", "next", "fetch_rows"}
    /\ pc = "fetch" => held = <<>>
    /\ pc = "results" /\ op = "fetch_rows" => held = <<>>
    /\ pc = "columns" => op \in Columns
    /\ Len(held) <= 1

CursorInv ==
    /\ stream \in Seq(Results)
    /\ c \in Commands /\ RowsAreAnnounced(c)
    /\ held \in Seq(Buffered) /\ batch \in Seq(Buffered) /\ got \in Seq(Buffered)
    /\ Flow
    /\ FalseMeansEnd

\* It holds initially.
LEMMA CursorInvInit == Init => CursorInv
<1> SUFFICES ASSUME Init PROVE CursorInv
  OBVIOUS
<1>1. <<>> \in Seq(Results) /\ <<>> \in Seq(Buffered) /\ Len(<<>>) = 0
  BY EmptySeq
<1>2. c \in Commands /\ RowsAreAnnounced(c)
  BY <1>1, NewCommandIs DEF Init
<1> QED BY <1>1, <1>2 DEF Init, CursorInv, Flow, FalseMeansEnd

\* The client's calls keep it.
LEMMA CursorInvClient == CursorInv /\ Client => CursorInv'
<1> SUFFICES ASSUME CursorInv, Client PROVE CursorInv'
  OBVIOUS
<1>1. <<>> \in Seq(Buffered) /\ Len(<<>>) = 0 /\ got \o held \in Seq(Buffered)
  BY EmptySeq, ConcatProperties DEF CursorInv
<1>2. CASE \E s \in Streams : Exec(s)
  <2>1. PICK s \in Streams : Exec(s)
    BY <1>2
  <2>2. s \in Seq(Results)
    BY StreamsAssumption
  <2>3. c' \in Commands /\ RowsAreAnnounced(c')
    BY <2>1, <2>2, NewCommandIs DEF Exec
  <2> QED BY <1>1, <2>1, <2>2, <2>3 DEF Exec, Begin, CursorInv, Flow, FalseMeansEnd, RowsAreAnnounced
<1>3. CASE Next_
  BY <1>1, <1>3 DEF Next_, Begin, hist, CursorInv, Flow, FalseMeansEnd, RowsAreAnnounced
<1>4. CASE FetchRow
  BY <1>1, <1>4 DEF FetchRow, Begin, Released, hist, CursorInv, Flow, FalseMeansEnd, RowsAreAnnounced
<1>5. CASE \E rows \in Limits : FetchRows(rows)
  BY <1>1, <1>5 DEF FetchRows, Begin, hist, CursorInv, Flow, FalseMeansEnd, RowsAreAnnounced
<1>6. ASSUME NEW o \in {"fetch_columns", "get_output"}, NEW rows, ReadColumns(o, rows)
      PROVE  CursorInv'
  BY <1>1, <1>6 DEF ReadColumns, Begin, Columns, hist, CursorInv, Flow, FalseMeansEnd, RowsAreAnnounced
<1> QED BY <1>2, <1>3, <1>4, <1>5, <1>6 DEF Client

\* Behind the result, next() asks for another one, or the statement is at its end.
GoesOn(d) == Readable(d) \/ d.last \in {"END", "ERROR"}

\* next() keeps it when it returns,
LEMMA CursorInvReturn ==
    ASSUME CursorInv, pc \in {"results", "fetch"}, NEW has, NextReturns(has),
           c' \in Commands, RowsAreAnnounced(c'), held' \in Seq(Buffered), Len(held') <= 1,
           has \/ c'.last = "STATUS" \/ (c'.left = <<>> /\ GoesOn(c')),
           stream' = stream, op' = op
    PROVE  CursorInv'
<1>1. /\ <<>> \in Seq(Buffered) /\ got \o batch \in Seq(Buffered)
      /\ pc # "idle" /\ xsink = FALSE
  BY EmptySeq, ConcatProperties DEF CursorInv, Flow
<1>2. CASE op = "next" /\ pc' = "idle" /\ ret' = has /\ UNCHANGED <<got, batch, xsink>>
  <2>1. FalseMeansEnd'
    BY <1>2 DEF FalseMeansEnd, GoesOn, Readable
  <2> QED BY <1>1, <1>2, <2>1 DEF CursorInv, Flow, RowsAreAnnounced
<1>3. CASE op = "fetch_rows" /\ pc' = "loop" /\ UNCHANGED <<got, batch, xsink>>
  BY <1>1, <1>3 DEF CursorInv, Flow, RowsAreAnnounced, FalseMeansEnd
<1>4. CASE op = "fetch_rows" /\ ReturnList(batch)
  BY <1>1, <1>4 DEF ReturnList, CursorInv, Flow, RowsAreAnnounced, FalseMeansEnd
<1> QED BY <1>2, <1>3, <1>4 DEF NextReturns

\* what exec() and next() do with a result keeps it,
LEMMA CursorInvResult ==
    ASSUME CursorInv, pc = "results", NEW d \in Commands, c' = d, RowsAreAnnounced(d),
           WithLastRes(d.last), stream' = stream, op' = op, held' = held
    PROVE  CursorInv'
<1>1. RowsAreAnnounced(c') /\ c' \in Commands
  OBVIOUS
<1>2. CASE op = "exec" /\ pc' = "idle" /\ UNCHANGED <<got, batch, ret, xsink>>
  BY <1>1, <1>2 DEF CursorInv, Flow, RowsAreAnnounced, FalseMeansEnd
<1>3. CASE op # "exec" /\ held = <<>> /\ pc' = "fetch" /\ UNCHANGED <<got, batch, ret, xsink>>
  BY <1>1, <1>3 DEF CursorInv, Flow, RowsAreAnnounced, FalseMeansEnd
<1>4. CASE ~(ExpectRow(d.last) /\ held = <<>>) /\ NextReturns(held # <<>>)
  <2>1. held # <<>> \/ d.last = "STATUS" \/ (d.left = <<>> /\ GoesOn(d))
    BY <1>4 DEF ExpectRow, RowsAreAnnounced, Fetchable, GoesOn, Readable, Commands, LastRes
  <2>2. held' \in Seq(Buffered) /\ Len(held') <= 1
    BY DEF CursorInv, Flow
  <2> QED BY <1>1, <1>4, <2>1, <2>2, CursorInvReturn
<1> QED BY <1>2, <1>3, <1>4 DEF WithLastRes

\* and so does an exception.
LEMMA CursorInvRaise ==
    ASSUME CursorInv, Raise, c' \in Commands, RowsAreAnnounced(c'),
           held' = held, stream' = stream, op' = op
    PROVE  CursorInv'
BY EmptySeq DEF Raise, CursorInv, Flow, FalseMeansEnd, RowsAreAnnounced

\* The rounds of the driver keep it.
LEMMA CursorInvDriver == CursorInv /\ Driver => CursorInv'
<1> SUFFICES ASSUME CursorInv, Driver PROVE CursorInv'
  OBVIOUS
<1>1. /\ c \in Commands /\ RowsAreAnnounced(c) /\ held \in Seq(Buffered)
      /\ batch \in Seq(Buffered) /\ got \in Seq(Buffered) /\ <<>> \in Seq(Buffered)
      /\ Len(<<>>) = 0
  BY EmptySeq DEF CursorInv
<1>2. CASE KeepResult
  BY <1>1, <1>2, CursorInvResult DEF KeepResult, hist
<1>3. CASE ReadResult
  <2>1. c' \in Commands /\ RowsAreAnnounced(c')
    BY <1>1, <1>3, NextResultKeeps DEF ReadResult
  <2>2. CASE ResultRaises(c)
    BY <1>3, <2>1, <2>2, CursorInvRaise DEF ReadResult, hist
  <2>3. CASE UNCHANGED <<pc, got, batch, ret, xsink, execed>>
    BY <1>3, <2>1, <2>3 DEF ReadResult, hist, CursorInv, Flow, FalseMeansEnd, RowsAreAnnounced
  <2>4. CASE WithLastRes(c'.last)
    BY <1>3, <2>1, <2>4, CursorInvResult DEF ReadResult, hist
  <2> QED BY <1>3, <2>2, <2>3, <2>4 DEF ReadResult
<1>4. CASE FetchAhead
  <2>1. PICK d : d = WithColumns(c)
    OBVIOUS
  <2>2. d \in Commands /\ RowsAreAnnounced(d)
    BY <1>1, <2>1, WithColumnsIs DEF RowsAreAnnounced
  <2>3. pc = "fetch" /\ stream' = stream /\ op' = op
    BY <1>4 DEF FetchAhead, hist
  <2>4. CASE HasRow(d) /\ c' = WithoutRow(d) /\ held' = <<Decoded(d)>> /\ NextReturns(TRUE)
    <3>1. c' \in Commands /\ RowsAreAnnounced(c') /\ held' \in Seq(Buffered)
      BY <2>2, <2>4, WithoutRowIs
    <3>2. Len(held') <= 1
      BY <2>4
    <3> QED BY <2>3, <2>4, <3>1, <3>2, CursorInvReturn
  <2>5. CASE ~HasRow(d) /\ c' = WithoutRows(d) /\ UNCHANGED held /\ NextReturns(FALSE)
    <3>1. c' \in Commands /\ RowsAreAnnounced(c') /\ held' \in Seq(Buffered) /\ c'.left = <<>>
          /\ GoesOn(c') /\ Len(held') <= 1
      BY <1>1, <2>2, <2>5, WithoutRowsIs DEF CursorInv, Flow, WithoutRows, GoesOn, Readable
    <3> QED BY <2>3, <2>5, <3>1, CursorInvReturn
  <2>6. CASE RowRaises(d) /\ c' = WithoutRow(d) /\ UNCHANGED held /\ Raise
    <3>1. c' \in Commands /\ RowsAreAnnounced(c')
      BY <2>2, <2>6, WithoutRowIs DEF RowRaises
    <3> QED BY <2>3, <2>6, <3>1, CursorInvRaise
  <2>7. CASE UNCHANGED <<c, held>> /\ Raise
    BY <1>1, <2>3, <2>7, CursorInvRaise
  <2> QED BY <1>4, <2>1, <2>4, <2>5, <2>6, <2>7 DEF FetchAhead
<1>5. CASE RowsLoop
  <2>1. batch \o held \in Seq(Buffered) /\ got \o batch \in Seq(Buffered)
    BY <1>1, ConcatProperties
  <2>2. pc = "loop" /\ op = "fetch_rows" /\ xsink = FALSE
    BY <1>5 DEF RowsLoop, CursorInv, Flow
  <2>3. CASE ReturnList(batch) /\ UNCHANGED <<stream, c, held, op>>
    BY <1>1, <2>1, <2>2, <2>3 DEF ReturnList, CursorInv, Flow, FalseMeansEnd, RowsAreAnnounced
  <2>4. CASE /\ pc' = "results" /\ batch' = batch \o held /\ held' = <<>>
             /\ UNCHANGED <<stream, c, op, got, xsink>>
    BY <1>1, <2>1, <2>2, <2>4 DEF CursorInv, Flow, FalseMeansEnd, RowsAreAnnounced
  <2> QED BY <1>5, <2>3, <2>4 DEF RowsLoop, Released, hist
<1>6. CASE ColumnsLoop
  <2>1. PICK d : d = WithColumns(c)
    OBVIOUS
  <2>2. d \in Commands /\ RowsAreAnnounced(d)
    BY <1>1, <2>1, WithColumnsIs DEF RowsAreAnnounced
  <2>3. /\ pc = "columns" /\ stream' = stream /\ op' = op /\ held' = held
        /\ op \notin {"exec", "next"} /\ xsink = FALSE
    BY <1>6 DEF ColumnsLoop, hist, CursorInv, Flow, Columns
  <2>4. CASE HasRow(d) /\ c' = WithoutRow(d)
             /\ \/ ReturnList(Append(batch, Decoded(d)))
                \/ batch' = Append(batch, Decoded(d)) /\ UNCHANGED <<pc, got, ret, xsink, execed>>
    <3>1. c' \in Commands /\ RowsAreAnnounced(c') /\ Decoded(d) \in Buffered
      BY <2>2, <2>4, WithoutRowIs
    <3>2. Append(batch, Decoded(d)) \in Seq(Buffered)
      BY <1>1, <3>1, AppendProperties
    <3>3. got \o Append(batch, Decoded(d)) \in Seq(Buffered)
      BY <1>1, <3>2, ConcatProperties
    <3> QED BY <1>1, <2>3, <2>4, <3>1, <3>2, <3>3
         DEF ReturnList, CursorInv, Flow, FalseMeansEnd, RowsAreAnnounced
  <2>5. CASE ~HasRow(d) /\ c' = WithoutRows(d) /\ ReturnList(batch)
    <3>1. c' \in Commands /\ RowsAreAnnounced(c')
      BY <2>2, <2>5, WithoutRowsIs
    <3>2. got \o batch \in Seq(Buffered)
      BY <1>1, ConcatProperties
    <3> QED BY <1>1, <2>3, <2>5, <3>1, <3>2
         DEF ReturnList, CursorInv, Flow, FalseMeansEnd, RowsAreAnnounced
  <2>6. CASE RowRaises(d) /\ c' = WithoutRow(d) /\ Raise
    <3>1. c' \in Commands /\ RowsAreAnnounced(c')
      BY <2>2, <2>6, WithoutRowIs DEF RowRaises
    <3> QED BY <2>3, <2>6, <3>1, CursorInvRaise
  <2>7. CASE c' = c /\ Raise
    BY <1>1, <2>3, <2>7, CursorInvRaise
  <2> QED BY <1>6, <2>1, <2>4, <2>5, <2>6, <2>7 DEF ColumnsLoop
<1> QED BY <1>2, <1>3, <1>4, <1>5, <1>6 DEF Driver

\* It holds always.
LEMMA CursorInvAlways == Spec => []CursorInv
<1>1. CursorInv /\ [Next]_vars => CursorInv'
  <2> SUFFICES ASSUME CursorInv, [Next]_vars PROVE CursorInv'
    OBVIOUS
  <2>1. CASE UNCHANGED vars
    BY <2>1 DEF vars, CursorInv, Flow, FalseMeansEnd, Readable, RowsAreAnnounced
  <2> QED BY <2>1, CursorInvClient, CursorInvDriver DEF Next
<1> QED BY <1>1, CursorInvInit, PTL DEF Spec

\* For every set of streams, and although the client mixes the ways of
\* reading: next() returns False only at the end of a result, and then goes on
\* with the next one.
THEOREM FalseMeansTheEnd == Spec => []FalseMeansEnd
<1>1. CursorInv => FalseMeansEnd
  BY DEF CursorInv
<1> QED BY <1>1, CursorInvAlways, PTL

-----------------------------------------------------------------------------
(* The refinement of RowCursor.                                            *)

\* The identities of sequences of decoded rows, and of these before what is
\* pending.
LEMMA IdsOfBuffers ==
    ASSUME NEW b \in Seq(Buffered), NEW h \in Seq(Buffered), NEW cmd \in Commands
    PROVE  /\ Ids(b) \in Seq(Names) /\ Ids(h) \in Seq(Names) /\ Ids(Pending(cmd)) \in Seq(Names)
           /\ Ids(b \o h) = Ids(b) \o Ids(h)
           /\ Ids(b \o cmd.left \o RowsOf(cmd.todo)) = Ids(b) \o Ids(Pending(cmd))
<1>1. /\ b \in Seq(Items) /\ h \in Seq(Items)
      /\ cmd.left \in Seq(Items) /\ RowsOf(cmd.todo) \in Seq(Items)
  <2>1. Rows \subseteq Items /\ Buffered \subseteq Items
    BY DEF Items
  <2>2. cmd.left \in Seq(Rows) /\ RowsOf(cmd.todo) \in Seq(Rows)
    BY RowsOfStream DEF Commands
  <2> QED BY <2>1, <2>2, SeqMonotonic
<1>2. Pending(cmd) \in Seq(Items)
  BY <1>1, ConcatProperties DEF Pending
<1>3. b \o cmd.left \o RowsOf(cmd.todo) = b \o Pending(cmd)
  <2>1. \A u, v, w \in Seq(Items) : (u \o v) \o w = u \o (v \o w)
    OBVIOUS
  <2> QED BY <1>1, <2>1 DEF Pending
<1> QED BY <1>1, <1>2, <1>3, IdsOf

\* Nothing has no identities.
LEMMA NoIds == Ids(<<>>) = <<>> /\ <<>> \in Seq(Names) /\ <<>> \in Seq(Buffered)
<1>1. <<>> \in Seq(Items) /\ <<>> \in Seq(Names) /\ <<>> \in Seq(Buffered)
  BY EmptySeq
<1>2. Ids(<<>>) \in Seq(Names) /\ Len(Ids(<<>>)) = 0
  BY <1>1, IdsOf, EmptySeq
<1> QED BY <1>1, <1>2, EmptySeq

\* Concatenation of identities.
LEMMA NamesConcat ==
    /\ \A u, v \in Seq(Names) : u \o v \in Seq(Names) /\ <<>> \o u = u /\ u \o <<>> = u
    /\ \A u, v, w \in Seq(Names) : (u \o v) \o w = u \o (v \o w)
<1>1. \A u, v \in Seq(Names) : u \o v \in Seq(Names) /\ <<>> \o u = u /\ u \o <<>> = u
  BY ConcatProperties, ConcatEmptySeq
<1>2. \A u, v, w \in Seq(Names) : (u \o v) \o w = u \o (v \o w)
  OBVIOUS
<1> QED BY <1>1, <1>2

\* A call that builds a list from the rows read ahead, or from those behind.
ListsAhead  == pc # "idle" /\ op = "fetch_rows"
ListsBehind == pc # "idle" /\ op \in Columns

\* What the cursor sees of a state.
View ==
    /\ Ids(held) \in Seq(Names) /\ Ids(Pending(c)) \in Seq(Names)
    /\ Ids(batch) \in Seq(Names) /\ Ids(got) \in Seq(Names)
    /\ ListsAhead => Ahead = Ids(batch) \o Ids(held)
    /\ ~ListsAhead => Ahead = Ids(held)
    /\ ListsBehind => Behind = Ids(batch) \o Ids(Pending(c))
    /\ ~ListsBehind => Behind = Ids(Pending(c))

\* A state of the invariant is seen so.
LEMMA ViewHolds ==
    /\ CursorInv => View
    /\ CursorInv' => View'
<1>1. ASSUME NEW b \in Seq(Buffered), NEW h \in Seq(Buffered), NEW cmd \in Commands
      PROVE  /\ Ids(h) \in Seq(Names) /\ Ids(Pending(cmd)) \in Seq(Names) /\ Ids(b) \in Seq(Names)
             /\ Ids(b \o h) = Ids(b) \o Ids(h) /\ Ids(<<>> \o h) = Ids(h)
             /\ Ids(b \o cmd.left \o RowsOf(cmd.todo)) = Ids(b) \o Ids(Pending(cmd))
             /\ Ids(<<>> \o cmd.left \o RowsOf(cmd.todo)) = Ids(Pending(cmd))
  <2>1. <<>> \o h = h
    BY ConcatEmptySeq
  <2>2. Ids(<<>> \o cmd.left \o RowsOf(cmd.todo)) = Ids(<<>>) \o Ids(Pending(cmd))
    BY NoIds, IdsOfBuffers
  <2>3. Ids(<<>> \o cmd.left \o RowsOf(cmd.todo)) = Ids(Pending(cmd))
    BY <2>2, NoIds, NamesConcat, IdsOfBuffers
  <2> QED BY <2>1, <2>3, IdsOfBuffers
<1>2. ASSUME CursorInv PROVE View
  <2>1. /\ c \in Commands /\ held \in Seq(Buffered)
        /\ batch \in Seq(Buffered) /\ got \in Seq(Buffered)
    BY <1>2 DEF CursorInv
  <2>2. ListsAhead => Ahead = Ids(batch \o held)
    BY DEF Ahead, Listed, ListsAhead
  <2>3. ~ListsAhead => Ahead = Ids(<<>> \o held)
    BY DEF Ahead, Listed, ListsAhead
  <2>4. ListsBehind => Behind = Ids(batch \o c.left \o RowsOf(c.todo))
    BY DEF Behind, Listed, ListsBehind, Columns
  <2>5. ~ListsBehind => Behind = Ids(<<>> \o c.left \o RowsOf(c.todo))
    BY DEF Behind, Listed, ListsBehind, Columns
  <2> QED BY <1>1, <2>1, <2>2, <2>3, <2>4, <2>5 DEF View
<1>3. ASSUME CursorInv' PROVE View'
  <2>1. /\ c' \in Commands /\ held' \in Seq(Buffered)
        /\ batch' \in Seq(Buffered) /\ got' \in Seq(Buffered)
    BY <1>3 DEF CursorInv
  <2>2. ListsAhead' => Ahead' = Ids(batch' \o held')
    BY DEF Ahead, Listed, ListsAhead
  <2>3. ~ListsAhead' => Ahead' = Ids(<<>> \o held')
    BY DEF Ahead, Listed, ListsAhead
  <2>4. ListsBehind' => Behind' = Ids(batch' \o c'.left \o RowsOf(c'.todo))
    BY DEF Behind, Listed, ListsBehind, Columns
  <2>5. ~ListsBehind' => Behind' = Ids(<<>> \o c'.left \o RowsOf(c'.todo))
    BY DEF Behind, Listed, ListsBehind, Columns
  <2> QED BY <1>1, <2>1, <2>2, <2>3, <2>4, <2>5 DEF View
<1> QED BY <1>2, <1>3

\* What a step may do.
Refines == Cursor!CursorNext \/ UNCHANGED <<Ahead, Behind, Ids(got), xsink>>

\* The first rows of a sequence.
LEMMA FirstRows ==
    ASSUME NEW x \in Seq(Names), NEW y \in Seq(Names), x # <<>>
    PROVE  /\ Len(x) \in 1..Len(x \o y)
           /\ SubSeq(x \o y, 1, Len(x)) = x
           /\ SubSeq(x \o y, Len(x) + 1, Len(x \o y)) = y
<1>1. Len(x) \in Nat /\ Len(y) \in Nat /\ Len(x \o y) = Len(x) + Len(y) /\ Len(x) # 0
  BY LenProperties, ConcatProperties, EmptySeq
<1> QED BY <1>1, Cuts

\* Rows at the front of those ahead that are handed out are delivered,
LEMMA Delivers ==
    ASSUME NEW x \in Seq(Names), NEW y \in Seq(Names), Ahead = x \o y, Ahead' = y,
           Behind' = Behind, Ids(got) \in Seq(Names), Ids(got)' = Ids(got) \o x, xsink' = FALSE
    PROVE  Refines
<1>1. CASE x = <<>>
  <2>1. x \o y = y /\ Ids(got) \o x = Ids(got)
    BY <1>1, ConcatEmptySeq
  <2> QED BY <2>1 DEF Refines, Cursor!CursorNext, Cursor!Start
<1>2. CASE x # <<>>
  <2>1. Len(x) \in 1..Len(Ahead) /\ Cursor!Deliver(Len(x))
    BY <1>2, FirstRows DEF Cursor!Deliver
  <2> QED BY <2>1 DEF Refines, Cursor!CursorNext
<1> QED BY <1>1, <1>2

\* and so are those at the front of the others.
LEMMA DeliversBehind ==
    ASSUME NEW x \in Seq(Names), NEW y \in Seq(Names), Behind = x \o y, Behind' = y,
           Ahead' = Ahead, Ids(got) \in Seq(Names), Ids(got)' = Ids(got) \o x, xsink' = FALSE
    PROVE  Refines
<1>1. CASE x = <<>>
  <2>1. x \o y = y /\ Ids(got) \o x = Ids(got)
    BY <1>1, ConcatEmptySeq
  <2> QED BY <2>1 DEF Refines, Cursor!CursorNext, Cursor!Start
<1>2. CASE x # <<>>
  <2>1. Len(x) \in 1..Len(Behind) /\ Cursor!DeliverBehind(Len(x))
    BY <1>2, FirstRows DEF Cursor!DeliverBehind
  <2> QED BY <2>1 DEF Refines, Cursor!CursorNext
<1> QED BY <1>1, <1>2

\* Rows ahead, and at both ends of the others, are lost when the call raises
\* an exception.
LEMMA Loses ==
    ASSUME NEW x \in Seq(Names), NEW y \in Seq(Names), NEW z \in Seq(Names),
           Behind = x \o (y \o z), Behind' = y, Ahead' \in {Ahead, <<>>},
           Ids(got)' = Ids(got), xsink' = TRUE
    PROVE  Refines
<1>1. SubSeq(Behind, Len(x) + 1, Len(x) + Len(y)) = y
  BY Cuts
<1>2. Len(x) + 1 \in 1..Len(Behind) + 1 /\ Len(x) + Len(y) \in 0..Len(Behind)
  <2>1. /\ Len(x) \in Nat /\ Len(y) \in Nat /\ Len(z) \in Nat
        /\ y \o z \in Seq(Names) /\ Len(y \o z) = Len(y) + Len(z)
    BY LenProperties, ConcatProperties
  <2>2. Len(x \o (y \o z)) = Len(x) + Len(y \o z)
    BY <2>1, ConcatProperties
  <2> QED BY <2>1, <2>2
<1>3. Cursor!Lose
  BY <1>1, <1>2 DEF Cursor!Lose
<1> QED BY <1>3 DEF Refines, Cursor!CursorNext

\* A row that is fetched ahead comes behind those ahead.
LEMMA ReadsAhead ==
    ASSUME NEW x \in Seq(Names), NEW y \in Seq(Names), NEW id \in Names,
           Ahead = x, Ahead' = x \o <<id>>, Behind = <<id>> \o y, Behind' = y,
           Ids(got)' = Ids(got), xsink' = xsink
    PROVE  Refines
<1>1. <<id>> \o y # <<>> /\ Head(<<id>> \o y) = id /\ Tail(<<id>> \o y) = y
  <2>1. <<id>> \in Seq(Names) /\ Len(<<id>>) = 1 /\ <<id>>[1] = id /\ Len(y) \in Nat
    BY LenProperties
  <2>2. /\ <<id>> \o y \in Seq(Names) /\ Len(<<id>> \o y) = 1 + Len(y)
        /\ (<<id>> \o y)[1] = id /\ \A i \in 1..Len(y) : (<<id>> \o y)[1 + i] = y[i]
    BY <2>1, ConcatProperties
  <2> HIDE <2>1
  <2>3. PICK w \in Seq(Names) : w = <<id>> \o y
    BY <2>2
  <2>4. /\ Len(w) = 1 + Len(y) /\ w[1] = id /\ \A i \in 1..Len(y) : w[1 + i] = y[i]
        /\ Len(y) \in Nat /\ w # <<>>
    BY <2>2, <2>3, LenProperties, EmptySeq
  <2>5. /\ Head(w) = w[1] /\ Tail(w) \in Seq(Names) /\ Len(Tail(w)) = Len(w) - 1
        /\ \A i \in 1..Len(w) - 1 : Tail(w)[i] = w[i + 1]
    BY <2>4, HeadTailProperties
  <2>6. Tail(w) = y
    <3>1. Len(Tail(w)) = Len(y) /\ \A i \in 1..Len(y) : Tail(w)[i] = y[i]
      BY <2>4, <2>5
    <3> QED BY <2>5, <3>1, SeqEqual
  <2> QED BY <2>3, <2>4, <2>5, <2>6
<1>2. Append(x, id) = x \o <<id>>
  OBVIOUS
<1>3. Cursor!ReadAhead
  BY <1>1, <1>2 DEF Cursor!ReadAhead
<1> QED BY <1>3 DEF Refines, Cursor!CursorNext

\* A step that moves and hands out nothing is none of the cursor's, or the
\* beginning of a call.
LEMMA Stutters ==
    ASSUME Ahead' = Ahead, Behind' = Behind, got' = got, xsink' = xsink \/ xsink' = FALSE
    PROVE  Refines
BY DEF Refines, Cursor!CursorNext, Cursor!Start

\* The client's calls refine the cursor's.
LEMMA ClientRefines ==
    ASSUME CursorInv, CursorInv', Client
    PROVE  Refines
<1>1. /\ View /\ View' /\ pc = "idle"
      /\ Ahead = Ids(held) /\ Behind = Ids(Pending(c))
  <2>1. View /\ View'
    BY ViewHolds
  <2>2. pc = "idle"
    BY DEF Client, Exec, Next_, FetchRow, FetchRows, ReadColumns, Begin
  <2> QED BY <2>1, <2>2 DEF View, ListsAhead, ListsBehind
<1>2. CASE \E s \in Streams : Exec(s)
  <2>1. PICK s \in Streams : Exec(s)
    BY <1>2
  <2>2. /\ pc' = "results" /\ op' = "exec" /\ held' = held /\ c' = NewCommand(s)
        /\ got' = <<>> /\ xsink' = FALSE
    BY <2>1 DEF Exec, Begin
  <2>3. s \in Seq(Results)
    BY StreamsAssumption
  <2>4. Pending(c') = RowsOf(s)
    BY <2>2, <2>3, NewCommandIs
  <2>5. Ahead' = Ahead /\ Behind' = Ids(RowsOf(s)) /\ Ids(got)' = <<>>
    BY <1>1, <2>2, <2>4, NoIds DEF View, ListsAhead, ListsBehind, Columns
  <2>6. Len(Ahead) <= 1
    <3>1. held \in Seq(Items) /\ Len(held) <= 1
      BY SeqMonotonic DEF CursorInv, Flow, Items
    <3>2. Len(Ids(held)) = Len(held)
      BY <3>1, IdsOf
    <3> QED BY <1>1, <3>1, <3>2
  <2> QED BY <2>2, <2>5, <2>6 DEF Refines, Cursor!CursorNext, Cursor!Execute
<1>3. CASE FetchRow
  <2>1. /\ pc' = "idle" /\ got' = got \o held /\ held' = <<>> /\ c' = c /\ xsink' = FALSE
    BY <1>1, <1>3 DEF FetchRow, Begin, Released, hist
  <2>2. Ahead' = <<>> /\ Behind' = Behind
    BY <1>1, <2>1, NoIds DEF View, ListsAhead, ListsBehind
  <2>3. Ids(got \o held) = Ids(got) \o Ids(held)
    BY IdsOfBuffers DEF CursorInv
  <2>4. Ahead = Ids(held) \o <<>> /\ Ids(held) \in Seq(Names) /\ Ids(got) \in Seq(Names)
    BY <1>1, NamesConcat DEF View
  <2> QED BY <2>1, <2>2, <2>3, <2>4, NoIds, Delivers
<1>4. CASE Next_ \/ (\E rows \in Limits : FetchRows(rows))
           \/ (\E o \in Columns, rows \in Limits \cup {-1} : ReadColumns(o, rows))
  <2>1. /\ batch' = <<>> /\ held' = held /\ c' = c /\ got' = got /\ xsink' = FALSE
    BY <1>4 DEF Next_, FetchRows, ReadColumns, Begin, hist
  <2>2. /\ <<>> \o Ids(held) = Ids(held) /\ <<>> \o Ids(Pending(c)) = Ids(Pending(c))
        /\ Ids(batch)' = <<>>
    BY <1>1, <2>1, NoIds, NamesConcat DEF View
  <2>3. Ahead' = Ahead /\ Behind' = Behind
    BY <1>1, <2>1, <2>2 DEF View
  <2> QED BY <2>1, <2>3, Stutters
<1> QED BY <1>2, <1>3, <1>4 DEF Client, Columns

\* A list of rows ahead is handed out.
LEMMA ListRefines ==
    ASSUME CursorInv, CursorInv', ListsAhead, ReturnList(batch), held' = held,
           Ids(Pending(c))' = Ids(Pending(c)), op' = op
    PROVE  Refines
<1>1. View /\ View' /\ xsink = FALSE /\ ~ListsBehind
  BY ViewHolds DEF CursorInv, Flow, ListsAhead, ListsBehind, Columns
<1>2. pc' = "idle" /\ got' = got \o batch /\ xsink' = FALSE
  BY <1>1 DEF ReturnList
<1>3. Ahead = Ids(batch) \o Ids(held) /\ Ahead' = Ids(held) /\ Behind' = Behind
  BY <1>1, <1>2 DEF View, ListsAhead, ListsBehind
<1>4. Ids(got \o batch) = Ids(got) \o Ids(batch)
  BY IdsOfBuffers DEF CursorInv
<1> QED BY <1>1, <1>2, <1>3, <1>4, Delivers DEF View

\* next() refines the cursor when it returns and nothing has moved,
LEMMA ReturnRefines ==
    ASSUME CursorInv, CursorInv', pc \in {"results", "fetch"}, NEW has, NextReturns(has),
           held' = held, Ids(Pending(c))' = Ids(Pending(c)), op' = op
    PROVE  Refines
<1>1. /\ View /\ View' /\ pc # "idle" /\ xsink = FALSE /\ ~ListsBehind
  BY ViewHolds DEF CursorInv, Flow, ListsBehind, Columns
<1>2. CASE op = "next" /\ pc' = "idle" /\ UNCHANGED <<got, xsink>>
  <2>1. Ahead' = Ahead /\ Behind' = Behind
    BY <1>1, <1>2 DEF View, ListsAhead, ListsBehind
  <2> QED BY <1>2, <2>1, Stutters
<1>3. CASE op = "fetch_rows" /\ pc' = "loop" /\ UNCHANGED <<got, batch, xsink>>
  <2>1. Ahead' = Ahead /\ Behind' = Behind
    BY <1>1, <1>3 DEF View, ListsAhead, ListsBehind, Columns
  <2> QED BY <1>3, <2>1, Stutters
<1>4. CASE op = "fetch_rows" /\ ReturnList(batch)
  BY <1>1, <1>4, ListRefines DEF ListsAhead
<1> QED BY <1>2, <1>3, <1>4 DEF NextReturns

\* and so does what exec() and next() do with a result.
LEMMA ResultRefines ==
    ASSUME CursorInv, CursorInv', pc = "results", NEW last, WithLastRes(last),
           held' = held, Ids(Pending(c))' = Ids(Pending(c)), op' = op
    PROVE  Refines
<1>1. View /\ View' /\ ~ListsBehind
  BY ViewHolds DEF CursorInv, Flow, ListsBehind, Columns
<1>2. CASE op = "exec" /\ pc' = "idle" /\ UNCHANGED <<got, batch, ret, xsink>>
  <2>1. Ahead' = Ahead /\ Behind' = Behind
    BY <1>1, <1>2 DEF View, ListsAhead, ListsBehind
  <2> QED BY <1>2, <2>1, Stutters
<1>3. CASE pc' = "fetch" /\ UNCHANGED <<got, batch, ret, xsink>>
  <2>1. Ahead' = Ahead /\ Behind' = Behind
    BY <1>1, <1>3 DEF View, ListsAhead, ListsBehind
  <2> QED BY <1>3, <2>1, Stutters
<1>4. CASE NextReturns(held # <<>>)
  BY <1>4, ReturnRefines
<1> QED BY <1>2, <1>3, <1>4 DEF WithLastRes

\* A call that fails loses what it had in its list, and what was pending is
\* kept, or lost, or has lost its first row.
LEMMA RaiseRefines ==
    ASSUME CursorInv, CursorInv', pc \in {"results", "fetch", "columns"}, Raise,
           held' = held, op' = op,
           \/ Ids(Pending(c))' \in {Ids(Pending(c)), <<>>}
           \/ \E one \in Seq(Names) : Ids(Pending(c)) = one \o Ids(Pending(c))'
    PROVE  Refines
<1> DEFINE B == Ids(batch)
           P == Ids(Pending(c))
           Q == Ids(Pending(c))'
<1>1. /\ View /\ View' /\ pc' = "idle" /\ xsink' = TRUE /\ Ids(got)' = Ids(got)
      /\ ListsAhead => held = <<>>
  BY ViewHolds DEF Raise, CursorInv, Flow, ListsAhead, Columns
<1>2. /\ B \in Seq(Names) /\ P \in Seq(Names) /\ Q \in Seq(Names) /\ <<>> \in Seq(Names)
      /\ Behind' = Q /\ Ahead' \in {Ahead, <<>>}
      /\ Behind \in {P, B \o P}
  <2>1. Ahead' = Ids(held) /\ Behind' = Q
    BY <1>1 DEF View, ListsAhead, ListsBehind
  <2>2. Ahead' \in {Ahead, <<>>}
    BY <1>1, <2>1, NoIds DEF View
  <2> QED BY <1>1, <2>1, <2>2, NoIds DEF View
<1>3. PICK x \in Seq(Names) : Behind = x \o P
  <2>1. Behind = <<>> \o P \/ Behind = B \o P
    BY <1>2, NamesConcat
  <2> QED BY <1>2, <2>1
<1>7. Q \in {P, <<>>} \/ \E one \in Seq(Names) : P = one \o Q
  OBVIOUS
<1> HIDE DEF B, P, Q
<1>4. PICK y \in Seq(Names), z \in Seq(Names) : P = y \o (Q \o z)
  <2>0. \A u \in Seq(Names) : u \o <<>> = u /\ <<>> \o u = u
    BY NamesConcat
  <2>1. CASE Q = P
    <3>1. P = <<>> \o (Q \o <<>>)
      BY <1>2, <2>0, <2>1
    <3> QED BY <1>2, <3>1
  <2>2. CASE Q = <<>>
    <3>1. P = P \o (Q \o <<>>)
      BY <1>2, <2>0, <2>2
    <3> QED BY <1>2, <3>1
  <2>3. CASE \E one \in Seq(Names) : P = one \o Q
    <3>1. PICK one \in Seq(Names) : P = one \o Q
      BY <2>3
    <3>2. P = one \o (Q \o <<>>)
      BY <1>2, <2>0, <3>1
    <3> QED BY <1>2, <3>2
  <2> QED BY <1>7, <2>1, <2>2, <2>3
<1>5. Behind = (x \o y) \o (Q \o z) /\ x \o y \in Seq(Names)
  <2>1. Q \o z \in Seq(Names) /\ x \o y \in Seq(Names)
    BY <1>2, ConcatProperties
  <2>2. \A u, v, w \in Seq(Names) : (u \o v) \o w = u \o (v \o w)
    BY NamesConcat
  <2>3. (x \o y) \o (Q \o z) = x \o (y \o (Q \o z))
    BY <2>1, <2>2
  <2> QED BY <1>3, <1>4, <2>1, <2>3
<1> QED BY <1>1, <1>2, <1>5, Loses

\* The rounds of the driver refine the cursor, or do nothing that it sees.
LEMMA DriverRefines ==
    ASSUME CursorInv, CursorInv', Driver
    PROVE  Refines
<1> DEFINE B == Ids(batch)
           P == Ids(Pending(c))
           Q == Ids(Pending(c))'
<1>1. /\ c \in Commands /\ RowsAreAnnounced(c) /\ View /\ View'
      /\ B \in Seq(Names) /\ P \in Seq(Names) /\ Q \in Seq(Names) /\ Ids(got) \in Seq(Names)
      /\ Ids(held) \in Seq(Names)
      /\ got \in Seq(Buffered) /\ batch \in Seq(Buffered) /\ held \in Seq(Buffered)
  <2>1. View /\ View'
    BY ViewHolds
  <2> QED BY <2>1 DEF CursorInv, View
<1>2. pc # "idle" /\ xsink = FALSE /\ op' = op
  <2>1. pc # "idle" /\ op' = op
    BY DEF Driver, KeepResult, ReadResult, FetchAhead, RowsLoop, ColumnsLoop
  <2> QED BY <2>1 DEF CursorInv, Flow
<1>3. CASE KeepResult
  BY <1>3, ResultRefines DEF KeepResult
<1>4. CASE ReadResult
  <2>1. /\ pc = "results" /\ held' = held
        /\ ~ResultRaises(c) => Pending(c') = Pending(c)
        /\ Pending(c') \in {Pending(c), <<>>}
    BY <1>1, <1>4, NextResultKeeps DEF ReadResult
  <2>2. CASE ResultRaises(c)
    <3>1. Raise /\ Q \in {P, <<>>}
      BY <1>4, <2>1, <2>2, NoIds DEF ReadResult
    <3> QED BY <1>2, <2>1, <3>1, RaiseRefines
  <2>3. CASE ~ResultRaises(c) /\ UNCHANGED <<pc, got, batch, ret, xsink, execed>>
    <3>1. Ahead' = Ahead /\ Behind' = Behind
      BY <1>1, <1>2, <2>1, <2>3 DEF View, ListsAhead, ListsBehind
    <3> QED BY <2>3, <3>1, Stutters
  <2>4. CASE ~ResultRaises(c) /\ WithLastRes(c'.last)
    <3>1. Ids(Pending(c))' = Ids(Pending(c))
      BY <2>1, <2>4
    <3> QED BY <1>2, <2>1, <2>4, <3>1, ResultRefines
  <2> QED BY <1>4, <2>2, <2>3, <2>4 DEF ReadResult
<1>5. CASE FetchAhead
  <2>1. PICK d : d = WithColumns(c)
    OBVIOUS
  <2>2. d \in Commands /\ RowsAreAnnounced(d) /\ Pending(d) = Pending(c)
    BY <1>1, <2>1, WithColumnsIs DEF RowsAreAnnounced
  <2>3. /\ pc = "fetch" /\ held = <<>> /\ Ids(held) = <<>>
        /\ op \in {"next", "fetch_rows", "exec"} /\ ~ListsBehind /\ Behind = P
    <3>1. pc = "fetch" /\ held = <<>> /\ op \in {"next", "fetch_rows", "exec"}
      BY <1>5 DEF FetchAhead, CursorInv, Flow
    <3> QED BY <1>1, <3>1, NoIds DEF ListsBehind, Columns, View
  <2>4. CASE HasRow(d) /\ c' = WithoutRow(d) /\ held' = <<Decoded(d)>> /\ NextReturns(TRUE)
    <3> DEFINE id == Decoded(d).id
    <3>1. /\ P = <<id>> \o Q /\ Ids(held)' = <<id>> /\ id \in Names
      <4>1. /\ P = <<id>> \o Q /\ Decoded(d) \in Buffered
        BY <2>2, <2>4, WithoutRowIs
      <4>2. id \in Names
        BY <4>1 DEF Names, Buffered, DecodedAs
      <4>3. Ids(held)' = <<id>>
        BY <2>4 DEF Ids
      <4> QED BY <4>1, <4>2, <4>3
    <3> HIDE DEF id
    <3>2. CASE op = "next" /\ pc' = "idle" /\ UNCHANGED <<got, batch, xsink>>
      <4>1. Ahead = <<>> /\ Ahead' = <<id>> /\ Behind' = Q
        BY <1>1, <1>2, <2>3, <3>1, <3>2 DEF View, ListsAhead, ListsBehind
      <4>2. <<id>> = <<>> \o <<id>> /\ <<>> \in Seq(Names)
        BY <3>1, NoIds
      <4> QED BY <1>1, <2>3, <3>1, <3>2, <4>1, <4>2, ReadsAhead
    <3>3. CASE op = "fetch_rows" /\ pc' = "loop" /\ UNCHANGED <<got, batch, xsink>>
      <4>1. Ahead = B /\ Ahead' = B \o <<id>> /\ Behind' = Q
        BY <1>1, <1>2, <2>3, <3>1, <3>3, NamesConcat DEF View, ListsAhead, ListsBehind, Columns
      <4> QED BY <1>1, <2>3, <3>1, <3>3, <4>1, ReadsAhead
    <3> QED BY <2>4, <3>2, <3>3 DEF NextReturns
  <2>5. CASE ~HasRow(d) /\ c' = WithoutRows(d) /\ UNCHANGED held /\ NextReturns(FALSE)
    <3>1. Q = P
      BY <2>2, <2>5, WithoutRowsIs
    <3> QED BY <1>2, <2>3, <2>5, <3>1, ReturnRefines
  <2>6. CASE RowRaises(d) /\ c' = WithoutRow(d) /\ UNCHANGED held /\ Raise
    <3>1. \E one \in Seq(Names) : P = one \o Q
      <4>1. <<Decoded(d)>> \in Seq(Buffered) /\ P = Ids(<<Decoded(d)>>) \o Q
        BY <2>2, <2>6, WithoutRowIs DEF RowRaises
      <4> QED BY <1>1, <4>1, IdsOfBuffers
    <3> QED BY <1>2, <2>3, <2>6, <3>1, RaiseRefines
  <2>7. CASE UNCHANGED <<c, held>> /\ Raise
    BY <1>2, <2>3, <2>7, RaiseRefines
  <2> QED BY <1>5, <2>1, <2>4, <2>5, <2>6, <2>7 DEF FetchAhead
<1>6. CASE RowsLoop
  <2>1. ListsAhead /\ ~ListsBehind
    BY <1>6 DEF RowsLoop, CursorInv, Flow, ListsAhead, ListsBehind, Columns
  <2>2. CASE ReturnList(batch) /\ held' = held /\ c' = c
    BY <1>2, <2>1, <2>2, ListRefines
  <2>3. CASE batch' = batch \o held /\ held' = <<>> /\ c' = c /\ pc' = "results"
             /\ UNCHANGED <<got, xsink>>
    <3>1. Ids(batch)' = B \o Ids(held) /\ Ids(held)' = <<>>
      BY <1>1, <2>3, IdsOfBuffers, NoIds
    <3>2. B \o Ids(held) \in Seq(Names) /\ (B \o Ids(held)) \o <<>> = B \o Ids(held)
      BY <1>1, NamesConcat
    <3>3. Ahead = B \o Ids(held) /\ Ahead' = B \o Ids(held) /\ Behind' = Behind
      BY <1>1, <1>2, <2>1, <2>3, <3>1, <3>2 DEF View, ListsAhead, ListsBehind
    <3> QED BY <2>3, <3>3, Stutters
  <2> QED BY <1>6, <2>2, <2>3 DEF RowsLoop, hist, Released
<1>7. CASE ColumnsLoop
  <2>1. PICK d : d = WithColumns(c)
    OBVIOUS
  <2>2. d \in Commands /\ RowsAreAnnounced(d) /\ Pending(d) = Pending(c)
    BY <1>1, <2>1, WithColumnsIs DEF RowsAreAnnounced
  <2>3. /\ held' = held /\ pc = "columns" /\ ListsBehind /\ ~ListsAhead /\ ~ListsAhead'
        /\ Ahead = Ids(held) /\ Ahead' = Ahead /\ Behind = B \o P
    <3>1. held' = held /\ pc = "columns" /\ op \in Columns
      BY <1>7 DEF ColumnsLoop, CursorInv, Flow
    <3>2. ListsBehind /\ ~ListsAhead /\ ~ListsAhead'
      BY <1>2, <3>1 DEF ListsBehind, ListsAhead, Columns
    <3> QED BY <1>1, <3>1, <3>2 DEF View
  <2>4. CASE HasRow(d) /\ c' = WithoutRow(d)
             /\ \/ ReturnList(Append(batch, Decoded(d)))
                \/ batch' = Append(batch, Decoded(d)) /\ UNCHANGED <<pc, got, ret, xsink, execed>>
    <3> DEFINE X == Ids(Append(batch, Decoded(d)))
               I == Ids(<<Decoded(d)>>)
    <3>1. P = I \o Q /\ Decoded(d) \in Buffered /\ <<Decoded(d)>> \in Seq(Buffered)
      BY <2>2, <2>4, WithoutRowIs
    <3>2. /\ Append(batch, Decoded(d)) \in Seq(Buffered)
          /\ Append(batch, Decoded(d)) = batch \o <<Decoded(d)>>
      BY <1>1, <3>1
    <3>3. X = B \o I /\ X \in Seq(Names) /\ I \in Seq(Names)
      BY <1>1, <3>1, <3>2, IdsOfBuffers
    <3>4. Behind = X \o Q
      <4>1. Behind = B \o (I \o Q)
        BY <2>3, <3>1
      <4> HIDE DEF B, I, Q
      <4>2. (B \o I) \o Q = B \o (I \o Q)
        <5>1. \A u, v, w \in Seq(Names) : (u \o v) \o w = u \o (v \o w)
          BY NamesConcat
        <5>2. B \in Seq(Names) /\ I \in Seq(Names) /\ Q \in Seq(Names)
          BY <1>1, <3>3
        <5> QED BY <5>1, <5>2
      <4> QED BY <3>3, <4>1, <4>2
    <3>5. CASE ReturnList(Append(batch, Decoded(d)))
      <4>1. pc' = "idle" /\ got' = got \o Append(batch, Decoded(d)) /\ xsink' = FALSE
        BY <1>2, <3>5 DEF ReturnList
      <4>2. Behind' = Q
        BY <1>1, <4>1 DEF View, ListsBehind
      <4>3. Ids(got)' = Ids(got) \o X
        BY <1>1, <3>2, <4>1, IdsOfBuffers
      <4> HIDE DEF X, Q
      <4> QED BY <1>1, <2>3, <3>3, <3>4, <4>1, <4>2, <4>3, DeliversBehind
    <3>6. CASE batch' = Append(batch, Decoded(d)) /\ UNCHANGED <<pc, got, ret, xsink, execed>>
      <4>1. Behind' = X \o Q
        BY <1>1, <1>2, <2>3, <3>6 DEF View, ListsBehind
      <4> QED BY <2>3, <3>4, <3>6, <4>1, Stutters
    <3> QED BY <2>4, <3>5, <3>6
  <2>5. CASE ~HasRow(d) /\ c' = WithoutRows(d) /\ ReturnList(batch)
    <3>1. pc' = "idle" /\ got' = got \o batch /\ xsink' = FALSE /\ Q = P
      BY <1>2, <2>2, <2>5, WithoutRowsIs DEF ReturnList
    <3>2. Behind' = P /\ Ids(got)' = Ids(got) \o B
      BY <1>1, <3>1, IdsOfBuffers DEF View, ListsBehind
    <3> QED BY <1>1, <2>3, <3>1, <3>2, DeliversBehind
  <2>6. CASE RowRaises(d) /\ c' = WithoutRow(d) /\ Raise
    <3>1. \E one \in Seq(Names) : P = one \o Q
      <4>1. <<Decoded(d)>> \in Seq(Buffered) /\ P = Ids(<<Decoded(d)>>) \o Q
        BY <2>2, <2>6, WithoutRowIs DEF RowRaises
      <4> QED BY <1>1, <4>1, IdsOfBuffers
    <3> QED BY <1>2, <2>3, <2>6, <3>1, RaiseRefines
  <2>7. CASE c' = c /\ Raise
    BY <1>2, <2>3, <2>7, RaiseRefines
  <2> QED BY <1>7, <2>1, <2>4, <2>5, <2>6, <2>7 DEF ColumnsLoop
<1> QED BY <1>3, <1>4, <1>5, <1>6, <1>7 DEF Driver

\* For every set of streams, limits and number of executions: a statement
\* implements the cursor, whatever the mix of its calls.  A row is repeated or
\* skipped by none of them; one read ahead can survive exec(), and is passed
\* over by fetch_columns() and get_output().
THEOREM StatementImplementsCursor == Spec => ImplementsCursor
<1>1. Init => Cursor!CursorInit
  <2> SUFFICES ASSUME Init PROVE Cursor!CursorInit
    OBVIOUS
  <2>1. View
    BY CursorInvInit, ViewHolds
  <2>2. c = NewCommand(<<>>) /\ held = <<>> /\ got = <<>> /\ xsink = FALSE /\ pc = "idle"
    BY DEF Init
  <2>3. Pending(c) = <<>>
    <3>1. <<>> \in Seq(Results)
      BY EmptySeq
    <3> QED BY <2>2, <3>1, NewCommandIs, RowsOfStream
  <2>4. Ahead = <<>> /\ Behind = <<>>
    BY <2>1, <2>2, <2>3, NoIds DEF View, ListsAhead, ListsBehind
  <2> QED BY <2>2, <2>4, NoIds DEF Cursor!CursorInit
<1>2. CursorInv /\ CursorInv' /\ [Next]_vars => [Cursor!CursorNext]_(Cursor!cursorVars)
  <2> SUFFICES ASSUME CursorInv, CursorInv', [Next]_vars
               PROVE  Refines
    BY DEF Refines, Cursor!cursorVars
  <2>1. CASE UNCHANGED vars
    <3>1. Ahead' = Ahead /\ Behind' = Behind
      BY <2>1 DEF vars, Ahead, Behind, Listed
    <3> QED BY <2>1, <3>1, Stutters DEF vars
  <2> QED BY <2>1, ClientRefines, DriverRefines DEF Next
<1> QED BY <1>1, <1>2, CursorInvAlways, PTL DEF Spec, ImplementsCursor, Cursor!CursorSpec

-----------------------------------------------------------------------------
(* The columns rows are decoded with.                                      *)

\* Each row is decoded with columns of its own logical command in one of the
\* streams ss.
Own(ss, rows) ==
    \A i \in DOMAIN rows : \E s \in ss : SameCommand(s, rows[i].as, rows[i].fmt)

\* Colinfo describes a result of the logical command that is read.
ColumnsInv ==
    /\ stream \in ran
    /\ \E k \in 0..Len(stream) : At(stream, c, k)
    /\ Own(ran, got) /\ Own(ran, held) /\ Own(ran, batch)

\* Rows put together are decoded so when they were.
LEMMA OwnConcat ==
    ASSUME NEW ss, NEW x \in Seq(Buffered), NEW y \in Seq(Buffered), Own(ss, x), Own(ss, y)
    PROVE  Own(ss, x \o y)
<1>1. /\ x \o y \in Seq(Buffered) /\ Len(x \o y) = Len(x) + Len(y)
      /\ Len(x) \in Nat /\ Len(y) \in Nat
      /\ DOMAIN (x \o y) = 1..Len(x \o y) /\ DOMAIN x = 1..Len(x) /\ DOMAIN y = 1..Len(y)
      /\ \A i \in 1..Len(x) : (x \o y)[i] = x[i]
      /\ \A i \in 1..Len(y) : (x \o y)[Len(x) + i] = y[i]
  BY ConcatProperties, LenProperties
<1>2. ASSUME NEW i \in 1..Len(x) + Len(y)
      PROVE  \E s \in ss : SameCommand(s, (x \o y)[i].as, (x \o y)[i].fmt)
  <2>1. CASE i <= Len(x)
    BY <1>1, <2>1 DEF Own
  <2>2. CASE i > Len(x)
    <3>1. i - Len(x) \in 1..Len(y) /\ Len(x) + (i - Len(x)) = i
      BY <1>1, <2>2
    <3>2. (x \o y)[i] = y[i - Len(x)]
      BY <1>1, <3>1
    <3> QED BY <1>1, <3>1, <3>2 DEF Own
  <2> QED BY <1>1, <2>1, <2>2
<1> QED BY <1>1, <1>2 DEF Own

\* None are, one is when it is, and those that are stay so with more streams.
LEMMA OwnFew ==
    ASSUME NEW ss
    PROVE  /\ Own(ss, <<>>)
           /\ \A s \in ss, row \in Buffered :
                SameCommand(s, row.as, row.fmt) => Own(ss, <<row>>)
           /\ \A s, rows : Own(ss, rows) => Own(ss \cup {s}, rows)
<1>1. Own(ss, <<>>)
  <2>1. DOMAIN <<>> = {}
    OBVIOUS
  <2> QED BY <2>1 DEF Own
<1>2. ASSUME NEW s \in ss, NEW row \in Buffered, SameCommand(s, row.as, row.fmt)
      PROVE  Own(ss, <<row>>)
  <2>1. DOMAIN <<row>> = {1} /\ <<row>>[1] = row
    OBVIOUS
  <2> QED BY <1>2, <2>1 DEF Own
<1>3. ASSUME NEW s, NEW rows, Own(ss, rows)
      PROVE  Own(ss \cup {s}, rows)
  BY <1>3 DEF Own
<1> QED BY <1>1, <1>2, <1>3

\* The invariant holds initially.
LEMMA ColumnsInit == Init => ColumnsInv
<1> SUFFICES ASSUME Init PROVE ColumnsInv
  OBVIOUS
<1>1. At(<<>>, NewCommand(<<>>), 0) /\ Len(<<>>) = 0
  BY NewCommandAt, EmptySeq
<1>2. 0 \in 0..Len(<<>>)
  BY <1>1
<1> QED BY <1>1, <1>2, OwnFew DEF Init, ColumnsInv

\* The client's calls keep it,
LEMMA ColumnsClient ==
    ASSUME CursorInv, ColumnsInv, Client
    PROVE  ColumnsInv'
<1>1. Own(ran, <<>>) /\ Own(ran', <<>>)
  BY OwnFew
<1>2. CASE \E s \in Streams : Exec(s)
  <2>1. PICK s \in Streams : Exec(s)
    BY <1>2
  <2>2. /\ stream' = s /\ ran' = ran \cup {s} /\ c' = NewCommand(s)
        /\ got' = <<>> /\ held' = held /\ batch' = <<>>
        /\ s \in Seq(Results)
    BY <2>1, StreamsAssumption DEF Exec, Begin
  <2>4. Own(ran', held') /\ s \in ran'
    BY <2>2, OwnFew DEF ColumnsInv
  <2>3. At(s, NewCommand(s), 0) /\ 0 \in 0..Len(s)
    BY <2>2, NewCommandAt, LenProperties
  <2> QED BY <1>1, <2>2, <2>3, <2>4 DEF ColumnsInv
<1>3. CASE FetchRow
  <2>1. Own(ran, got \o held)
    BY OwnConcat DEF ColumnsInv, CursorInv
  <2> QED BY <1>1, <1>3, <2>1 DEF FetchRow, Begin, Released, hist, ColumnsInv
<1>4. CASE Next_ \/ (\E rows \in Limits : FetchRows(rows))
           \/ (\E o \in {"fetch_columns", "get_output"}, rows \in Limits \cup {-1} : ReadColumns(o, rows))
  BY <1>1, <1>4 DEF Next_, FetchRows, ReadColumns, Begin, hist, ColumnsInv
<1> QED BY <1>2, <1>3, <1>4 DEF Client

\* what next() returns keeps it,
LEMMA ColumnsReturn ==
    ASSUME CursorInv, ColumnsInv, NEW has, NextReturns(has)
    PROVE  Own(ran, got') /\ Own(ran, batch')
<1>1. Own(ran, got \o batch)
  BY OwnConcat DEF ColumnsInv, CursorInv
<1> QED BY <1>1 DEF NextReturns, ReturnList, ColumnsInv

\* and so do the rounds of the driver.
LEMMA ColumnsDriver ==
    ASSUME CursorInv, ColumnsInv, Driver
    PROVE  ColumnsInv'
<1>1. /\ c \in Commands /\ RowsAreAnnounced(c) /\ stream \in Seq(Results) /\ Len(stream) \in Nat
      /\ Own(ran, <<>>) /\ Own(ran, got) /\ Own(ran, held) /\ Own(ran, batch)
      /\ batch \in Seq(Buffered) /\ got \in Seq(Buffered) /\ held \in Seq(Buffered)
      /\ stream' = stream /\ ran' = ran /\ stream \in ran
  <2>1. stream' = stream /\ ran' = ran
    BY DEF Driver, KeepResult, ReadResult, FetchAhead, RowsLoop, ColumnsLoop, hist
  <2> QED BY <2>1, OwnFew, LenProperties DEF CursorInv, ColumnsInv
<1>2. PICK k \in 0..Len(stream) : At(stream, c, k)
  BY DEF ColumnsInv
<1>3. ASSUME NEW m, At(stream, c', m), Own(ran, got'), Own(ran, held'), Own(ran, batch')
      PROVE  ColumnsInv'
  BY <1>1, <1>3 DEF ColumnsInv, At
<1>4. ASSUME Raise
      PROVE  Own(ran, got') /\ Own(ran, batch')
  BY <1>1, <1>4 DEF Raise
<1>5. ASSUME NEW last, WithLastRes(last)
      PROVE  Own(ran, got') /\ Own(ran, batch')
  BY <1>1, <1>5, ColumnsReturn DEF WithLastRes
<1>6. CASE KeepResult
  BY <1>1, <1>2, <1>3, <1>5, <1>6 DEF KeepResult
<1>7. CASE ReadResult
  <2>1. \E m \in {k, k + 1} : At(stream, c', m)
    BY <1>1, <1>2, <1>7, NextResultAt DEF ReadResult
  <2>2. Own(ran, got') /\ Own(ran, batch') /\ held' = held
    <3>1. held' = held /\ (Raise \/ UNCHANGED <<got, batch>> \/ WithLastRes(c'.last))
      BY <1>7 DEF ReadResult
    <3> QED BY <1>1, <1>4, <1>5, <3>1
  <2> QED BY <1>1, <1>3, <2>1, <2>2
<1>8. CASE FetchAhead
  <2>1. PICK d : d = WithColumns(c)
    OBVIOUS
  <2>2. CASE ColumnsRaise(c)
    BY <1>1, <1>2, <1>3, <1>4, <1>8, <2>2 DEF FetchAhead
  <2>3. CASE ~ColumnsRaise(c)
    <3>1. /\ d \in Commands /\ RowsAreAnnounced(d) /\ At(stream, d, k)
          /\ d.cols = d.open \/ d.cols # "dirty"
      BY <1>1, <1>2, <2>1, <2>3, ColumnsAt, WithColumnsIs DEF RowsAreAnnounced
    <3>2. CASE HasRow(d) /\ c' = WithoutRow(d) /\ held' = <<Decoded(d)>> /\ NextReturns(TRUE)
      <4>1. At(stream, c', k) /\ Decoded(d) \in Buffered
        BY <3>1, <3>2, FetchAt, WithoutRowIs
      <4>2. Own(ran, held')
        BY <1>1, <3>1, <3>2, <4>1, DecodedAt, OwnFew
      <4> QED BY <1>1, <1>3, <3>2, <4>1, <4>2, ColumnsReturn
    <3>3. CASE ~HasRow(d) /\ c' = WithoutRows(d) /\ UNCHANGED held /\ NextReturns(FALSE)
      <4>1. At(stream, c', k)
        BY <3>1, <3>3, FetchAt
      <4> QED BY <1>1, <1>3, <3>3, <4>1, ColumnsReturn
    <3>4. CASE RowRaises(d) /\ c' = WithoutRow(d) /\ UNCHANGED held /\ Raise
      <4>1. At(stream, c', k)
        BY <3>1, <3>4, FetchAt DEF RowRaises
      <4> QED BY <1>1, <1>3, <1>4, <3>4, <4>1
    <3> QED BY <1>8, <2>1, <2>3, <3>2, <3>3, <3>4 DEF FetchAhead
  <2> QED BY <2>2, <2>3
<1>9. CASE RowsLoop
  <2>1. Own(ran, got \o batch) /\ Own(ran, batch \o held)
    BY <1>1, OwnConcat
  <2> QED BY <1>1, <1>2, <1>3, <1>9, <2>1 DEF RowsLoop, ReturnList, Released, hist
<1>10. CASE ColumnsLoop
  <2>1. PICK d : d = WithColumns(c)
    OBVIOUS
  <2>2. held' = held
    BY <1>10 DEF ColumnsLoop
  <2>3. CASE c' = c /\ Raise
    BY <1>1, <1>2, <1>3, <1>4, <2>2, <2>3
  <2>4. CASE ~ColumnsRaise(c)
    <3>1. /\ d \in Commands /\ RowsAreAnnounced(d) /\ At(stream, d, k)
          /\ d.cols = d.open \/ d.cols # "dirty"
      BY <1>1, <1>2, <2>1, <2>4, ColumnsAt, WithColumnsIs DEF RowsAreAnnounced
    <3>2. CASE HasRow(d) /\ c' = WithoutRow(d)
               /\ \/ ReturnList(Append(batch, Decoded(d)))
                  \/ batch' = Append(batch, Decoded(d)) /\ UNCHANGED <<pc, got, ret, xsink, execed>>
      <4>1. At(stream, c', k) /\ Decoded(d) \in Buffered /\ <<Decoded(d)>> \in Seq(Buffered)
        BY <3>1, <3>2, FetchAt, WithoutRowIs
      <4>2. Own(ran, <<Decoded(d)>>)
        BY <1>1, <3>1, <3>2, <4>1, DecodedAt, OwnFew
      <4>3. /\ Append(batch, Decoded(d)) = batch \o <<Decoded(d)>>
            /\ Append(batch, Decoded(d)) \in Seq(Buffered)
        BY <1>1, <4>1
      <4>4. Own(ran, Append(batch, Decoded(d)))
        BY <1>1, <4>1, <4>2, <4>3, OwnConcat
      <4>5. Own(ran, got \o Append(batch, Decoded(d)))
        BY <1>1, <4>3, <4>4, OwnConcat
      <4> QED BY <1>1, <1>3, <2>2, <3>2, <4>1, <4>4, <4>5 DEF ReturnList
    <3>3. CASE ~HasRow(d) /\ c' = WithoutRows(d) /\ ReturnList(batch)
      <4>1. At(stream, c', k) /\ Own(ran, got \o batch)
        BY <1>1, <3>1, <3>3, FetchAt, OwnConcat
      <4> QED BY <1>1, <1>3, <2>2, <3>3, <4>1 DEF ReturnList
    <3>4. CASE RowRaises(d) /\ c' = WithoutRow(d) /\ Raise
      <4>1. At(stream, c', k)
        BY <3>1, <3>4, FetchAt DEF RowRaises
      <4> QED BY <1>1, <1>3, <1>4, <2>2, <3>4, <4>1
    <3> QED BY <1>10, <2>1, <2>3, <2>4, <3>2, <3>3, <3>4 DEF ColumnsLoop
  <2> QED BY <1>10, <2>3, <2>4 DEF ColumnsLoop
<1> QED BY <1>6, <1>7, <1>8, <1>9, <1>10 DEF Driver

\* For every set of streams: colinfo is marked dirty often enough.  The rows a
\* statement hands out, holds (from whichever execution) or has in its list are
\* decoded with the columns of their own result, or of an earlier one of the
\* same logical command.
THEOREM ColumnsAreOwn == Spec => []OwnColumns
<1>1. CursorInv /\ ColumnsInv /\ [Next]_vars => ColumnsInv'
  <2> SUFFICES ASSUME CursorInv, ColumnsInv, [Next]_vars PROVE ColumnsInv'
    OBVIOUS
  <2>1. CASE UNCHANGED vars
    BY <2>1 DEF vars, ColumnsInv
  <2> QED BY <2>1, ColumnsClient, ColumnsDriver DEF Next
<1>2. ColumnsInv => OwnColumns
  BY DEF ColumnsInv, OwnColumns, Own
<1> QED BY <1>1, <1>2, ColumnsInit, CursorInvAlways, PTL DEF Spec
=============================================================================
