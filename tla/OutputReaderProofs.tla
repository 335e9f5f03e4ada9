------------------------- MODULE OutputReaderProofs -------------------------
(***************************************************************************)
(* For every set of streams: readOutput() reports a result or a row that   *)
(* fails, and returns every row, parameter and row count in its place      *)
(* otherwise.                                                              *)
(***************************************************************************)
EXTENDS OutputReader, SequenceLemmas, FiniteSetTheorems

-----------------------------------------------------------------------------
(* The types and the steps of a command.                                   *)

\* Formats colinfo and the fetchable result can have.
Cols == {"dirty", "none"} \cup {r.fmt : r \in Results}

LastRes  == {"NONE", "RETRY", "DONE", "END", "ERROR"} \cup Fetchable
Counts   == {-1} \cup {r.count : r \in Results}
Commands == [todo : Seq(Results), open : Cols, left : Seq(Rows), last : LastRes,
             count : Counts, cols : Cols]

\* What AreStreams says of one result.
LEMMA ResultFacts ==
    ASSUME NEW r \in Results
    PROVE  /\ r.type \in Fetchable \cup {"DONE", "SUCCEED", "FAIL", "BROKEN"}
           /\ r.rows \in Seq(Rows)
           /\ r.type \notin Fetchable => r.rows = <<>>
           /\ r.fmt \in Cols /\ r.count \in Counts
BY StreamsAssumption DEF Cols, Counts

\* A command whose results are those of a stream.
LEMMA NewCommandIs ==
    ASSUME NEW s \in Seq(Results)
    PROVE  NewCommand(s) \in Commands
<1>1. <<>> \in Seq(Rows)
  BY EmptySeq
<1> QED BY <1>1 DEF NewCommand, Commands, Cols, LastRes, Counts, Fetchable

\* ct_results() changes the type, the rows and the columns of the result that
\* can be fetched, by the next result of the stream.
LEMMA NextResultIs ==
    ASSUME NEW cmd \in Commands, cmd.todo # <<>>,
           NEW r, r = Head(cmd.todo), NEW d, d = NextResult(cmd)
    PROVE  /\ r \in Results /\ d \in Commands
           /\ r.type \in Fetchable \cup {"DONE", "SUCCEED", "FAIL", "BROKEN"}
           /\ r.type # "DONE" => d.cols = cmd.cols
           /\ r.type \in Fetchable =>
                /\ d.todo = Tail(cmd.todo) /\ d.last = r.type
                /\ d.open = r.fmt /\ d.left = r.rows
           /\ r.type \notin Fetchable =>
                /\ d.open = cmd.open /\ d.left = cmd.left
                /\ d.todo = IF r.type = "BROKEN" THEN <<>> ELSE Tail(cmd.todo)
                /\ r.type = "DONE" => d.cols = "dirty"
                /\ r.type = "FAIL" => d.last = cmd.last
                /\ r.type # "FAIL" => d.last \in {"DONE", "RETRY", "ERROR"}
<1>1. cmd.todo \in Seq(Results) /\ cmd = [todo |-> cmd.todo, open |-> cmd.open,
        left |-> cmd.left, last |-> cmd.last, count |-> cmd.count, cols |-> cmd.cols]
  BY DEF Commands
<1>2. r \in Results /\ Tail(cmd.todo) \in Seq(Results)
  BY <1>1, HeadTailProperties
<1>0. d = WithResult(cmd, r)
  BY DEF NextResult
<1>3. /\ r.type \in Fetchable \cup {"DONE", "SUCCEED", "FAIL", "BROKEN"}
      /\ r.rows \in Seq(Rows) /\ r.fmt \in Cols /\ r.count \in Counts
  BY <1>2, ResultFacts
<1>4. CASE r.type \in Fetchable
  BY <1>0, <1>1, <1>2, <1>3, <1>4 DEF WithResult, Commands, LastRes, Fetchable
<1>5. CASE r.type = "DONE"
  BY <1>0, <1>1, <1>2, <1>3, <1>5 DEF WithResult, Commands, LastRes, Fetchable, Cols
<1>6. CASE r.type = "SUCCEED"
  BY <1>0, <1>1, <1>2, <1>3, <1>6 DEF WithResult, Commands, LastRes, Fetchable
<1>7. CASE r.type = "BROKEN"
  BY <1>0, <1>1, <1>2, <1>3, <1>7, EmptySeq DEF WithResult, Commands, LastRes, Fetchable
<1>8. CASE r.type = "FAIL"
  BY <1>0, <1>1, <1>2, <1>3, <1>8 DEF WithResult, Commands, LastRes, Fetchable
<1> QED BY <1>3, <1>4, <1>5, <1>6, <1>7, <1>8

\* ensure_colinfo() changes no more than the columns.
LEMMA WithColumnsIs ==
    ASSUME NEW cmd \in Commands, NEW d, d = WithColumns(cmd)
    PROVE  /\ d \in Commands
           /\ d.todo = cmd.todo /\ d.open = cmd.open /\ d.left = cmd.left /\ d.last = cmd.last
           /\ d.cols = IF cmd.cols = "dirty" THEN cmd.open ELSE cmd.cols
BY DEF WithColumns, NeedsColumns, Described, Commands

-----------------------------------------------------------------------------
(* The values of a stream, result by result.                               *)

\* Values a result adds.
Values == {ResultValue(m, r) : m \in Modes, r \in Results}
            \cup {Count(r.count) : r \in Results}

\* The value of a parameter result.
ParamAt(s, m, i) == IF s[i].type = "PARAM" THEN <<ResultValue(m, s[i])>> ELSE <<>>

\* The values at a position are sequences of values.
LEMMA ValuesAtType ==
    ASSUME NEW s \in Seq(Results), NEW m \in Modes, NEW i \in 1..Len(s)
    PROVE  /\ ValuesAt(s, m, i) \in Seq(Values)
           /\ ParamAt(s, m, i) \in Seq(Values)
<1>1. s[i] \in Results
  BY ElementOfSeq
<1>2. ResultValue(m, s[i]) \in Values /\ Count(s[i].count) \in Values
  BY <1>1 DEF Values
<1>3. \A v \in Values : <<v>> \in Seq(Values)
  OBVIOUS
<1>4. <<>> \in Seq(Values)
  BY EmptySeq
<1> QED BY <1>2, <1>3, <1>4 DEF ValuesAt, ParamAt

\* One more result adds its values behind the others.
LEMMA SetsOfNext ==
    ASSUME NEW s \in Seq(Results), NEW m \in Modes, NEW k \in Nat, k < Len(s)
    PROVE  /\ SetsOf(s, m, k + 1) = SetsOf(s, m, k) \o ValuesAt(s, m, k + 1)
           /\ ParamsOf(s, m, k + 1) = ParamsOf(s, m, k) \o ParamAt(s, m, k + 1)
<1>1. Len(s) \in Nat
  BY LenProperties
<1>2. ASSUME NEW n \in Nat, n <= Len(s)
      PROVE  /\ [i \in 1..n |-> ValuesAt(s, m, i)] \in Seq(Seq(Values))
             /\ Len([i \in 1..n |-> ValuesAt(s, m, i)]) = n
             /\ [i \in 1..n |-> ParamAt(s, m, i)] \in Seq(Seq(Values))
             /\ Len([i \in 1..n |-> ParamAt(s, m, i)]) = n
  <2>1. \A i \in 1..n : ValuesAt(s, m, i) \in Seq(Values) /\ ParamAt(s, m, i) \in Seq(Values)
    BY <1>1, <1>2, ValuesAtType
  <2> QED BY <2>1, IsASeq
<1>3. k + 1 <= Len(s) /\ k + 1 \in Nat /\ k <= Len(s) /\ k + 1 \in 1..k + 1
      /\ \A i \in 1..k : i \in 1..k + 1
  BY <1>1
<1>4. SetsOf(s, m, k + 1) = SetsOf(s, m, k) \o ValuesAt(s, m, k + 1)
  <2> DEFINE t == [i \in 1..k |-> ValuesAt(s, m, i)]
             u == [i \in 1..k + 1 |-> ValuesAt(s, m, i)]
  <2>1. /\ t \in Seq(Seq(Values)) /\ Len(t) = k
        /\ u \in Seq(Seq(Values)) /\ Len(u) = k + 1
        /\ \A i \in 1..k : u[i] = t[i]
        /\ u[k + 1] = ValuesAt(s, m, k + 1)
    BY <1>2, <1>3
  <2> HIDE DEF t, u
  <2>2. FlattenSeq(u) = FlattenSeq(t) \o u[k + 1]
    BY <2>1, FlattenLast
  <2> QED BY <2>1, <2>2 DEF SetsOf, t, u
<1>5. ParamsOf(s, m, k + 1) = ParamsOf(s, m, k) \o ParamAt(s, m, k + 1)
  <2> DEFINE t == [i \in 1..k |-> ParamAt(s, m, i)]
             u == [i \in 1..k + 1 |-> ParamAt(s, m, i)]
  <2>1. /\ t \in Seq(Seq(Values)) /\ Len(t) = k
        /\ u \in Seq(Seq(Values)) /\ Len(u) = k + 1
        /\ \A i \in 1..k : u[i] = t[i]
        /\ u[k + 1] = ParamAt(s, m, k + 1)
    BY <1>2, <1>3
  <2>2. /\ ParamsOf(s, m, k) = FlattenSeq(t)
        /\ ParamsOf(s, m, k + 1) = FlattenSeq(u)
    BY DEF ParamsOf, ParamAt
  <2> HIDE DEF t, u
  <2>3. FlattenSeq(u) = FlattenSeq(t) \o u[k + 1]
    BY <2>1, FlattenLast
  <2> QED BY <2>1, <2>2, <2>3
<1> QED BY <1>4, <1>5

\* They are sequences of values.
LEMMA SetsOfType ==
    ASSUME NEW s \in Seq(Results), NEW m \in Modes, NEW k \in Nat, k <= Len(s)
    PROVE  /\ SetsOf(s, m, k) \in Seq(Values) /\ SetsOf(s, m, 0) = <<>>
           /\ ParamsOf(s, m, k) \in Seq(Values) /\ ParamsOf(s, m, 0) = <<>>
<1>1. Len(s) \in Nat
  BY LenProperties
<1>2. \A i \in 1..k : ValuesAt(s, m, i) \in Seq(Values) /\ ParamAt(s, m, i) \in Seq(Values)
  BY <1>1, ValuesAtType
<1>3. /\ [i \in 1..k |-> ValuesAt(s, m, i)] \in Seq(Seq(Values))
      /\ [i \in 1..k |-> ParamAt(s, m, i)] \in Seq(Seq(Values))
  BY <1>2, IsASeq
<1>4. SetsOf(s, m, k) \in Seq(Values)
  BY <1>3, FlattenType DEF SetsOf
<1>5. ParamsOf(s, m, k) \in Seq(Values)
  <2>1. ParamsOf(s, m, k) = FlattenSeq([i \in 1..k |-> ParamAt(s, m, i)])
    BY DEF ParamsOf, ParamAt
  <2> QED BY <1>3, <2>1, FlattenType
<1>6. SetsOf(s, m, 0) = <<>> /\ ParamsOf(s, m, 0) = <<>>
  <2>1. [i \in 1..0 |-> ValuesAt(s, m, i)] = <<>> /\ [i \in 1..0 |-> ParamAt(s, m, i)] = <<>>
    OBVIOUS
  <2>2. ParamsOf(s, m, 0) = FlattenSeq([i \in 1..0 |-> ParamAt(s, m, i)])
    BY DEF ParamsOf, ParamAt
  <2> QED BY <2>1, <2>2, FlattenEmpty DEF SetsOf
<1> QED BY <1>4, <1>5, <1>6

-----------------------------------------------------------------------------
(* The invariant.                                                          *)

\* The columns cmd would decode a row with are dirty, or those of an earlier
\* row or parameter result of the logical command, no status lying between.
ColumnsOf(s, cmd, k) ==
    cmd.cols # "dirty" =>
        \E i \in 1..k : /\ s[i].type \in {"ROW", "PARAM"} /\ s[i].fmt = cmd.cols
                        /\ \A j \in i..k : s[j].type \notin {"DONE", "STATUS"}

\* The first k results have been read without a fault.
ReadUpTo(k) ==
    /\ k \in 0..Len(stream)
    /\ \A i \in 1..k : ~FaultAt(stream, mode, i)
    /\ reslist = SetsOf(stream, mode, k)
    /\ params = ParamsOf(stream, mode, k)
    /\ last = Nothing <=> ~HasValueBefore(stream, mode, k + 1)
    /\ ColumnsOf(stream, c, k)

\* The next result is open for reading.
Opened(k) ==
    /\ k + 1 <= Len(stream)
    /\ stream[k + 1].type \in Fetchable /\ c.last = stream[k + 1].type
    /\ c.open = stream[k + 1].fmt /\ c.left = stream[k + 1].rows
    /\ c.todo = SubSeq(stream, (k + 1) + 1, Len(stream))

OutputInv ==
    /\ stream \in Streams /\ mode \in Modes /\ c \in Commands
    /\ pc \in {"results", "read", "returned"}
    /\ pc # "returned" => xsink = FALSE
    /\ pc = "results" => \E k \in Nat : ReadUpTo(k) /\ c.todo = SubSeq(stream, k + 1, Len(stream))
    /\ pc = "read"    => \E k \in Nat : ReadUpTo(k) /\ Opened(k)
    /\ FailureReported
    /\ OutputComplete

-----------------------------------------------------------------------------
(* The value that is returned.                                             *)

\* As many keys as values.
LEMMA KeysCount ==
    ASSUME NEW n \in Nat
    PROVE  Cardinality({KeyGen(i) : i \in 0..n - 1}) = n
<1> DEFINE K == {KeyGen(i) : i \in 0..n - 1}
           f == [i \in 1..n |-> KeyGen(i - 1)]
<1>1. \A i \in 1..n : i - 1 \in 0..n - 1
  OBVIOUS
<1>2. f \in [1..n -> K]
  BY <1>1
<1>3. \A i, j \in 1..n : f[i] = f[j] => i = j
  <2>1. ASSUME NEW i \in 1..n, NEW j \in 1..n, f[i] = f[j]
        PROVE  i = j
    <3>1. <<"query", i - 1>> = <<"query", j - 1>>
      BY <2>1 DEF KeyGen
    <3>2. i - 1 = j - 1
      BY <3>1
    <3> QED BY <3>2
  <2> QED BY <2>1
<1>4. \A e \in K : \E i \in 1..n : f[i] = e
  <2>1. ASSUME NEW e \in K
        PROVE  \E i \in 1..n : f[i] = e
    <3>1. PICK j \in 0..n - 1 : e = KeyGen(j)
      OBVIOUS
    <3>2. j + 1 \in 1..n /\ (j + 1) - 1 = j
      OBVIOUS
    <3>3. f[j + 1] = KeyGen((j + 1) - 1)
      BY <3>2
    <3> QED BY <3>1, <3>2, <3>3
  <2> QED BY <2>1
<1> HIDE DEF f, K
<1>5. f \in Bijection(1..n, K)
  BY <1>2, <1>3, <1>4 DEF Bijection, Injection, Surjection, IsInjective
<1>6. ExistsBijection(1..n, K)
  BY <1>5 DEF ExistsBijection
<1> QED BY <1>6, FS_CountingElements DEF K

\* release_smart() loses no value, and keeps their order.
LEMMA ReleaseHolds ==
    ASSUME NEW V, NEW values \in Seq(V)
    PROVE  Holds(ReleaseSmart(values), values)
<1>1. Len(values) \in Nat /\ (values = <<>> <=> Len(values) = 0)
  BY LenProperties, EmptySeq
<1>2. CASE Len(values) = 0
  BY <1>1, <1>2 DEF Holds, ReleaseSmart
<1>3. CASE Len(values) = 1
  BY <1>1, <1>3 DEF Holds, ReleaseSmart
<1>4. CASE Len(values) > 1
  <2> DEFINE K == {KeyGen(i) : i \in 0..Len(values) - 1}
             keys == [k \in K |-> values[k[2] + 1]]
  <2>1. ReleaseSmart(values) = [kind |-> "hash", keys |-> keys]
    BY <1>1, <1>4 DEF ReleaseSmart
  <2>2. DOMAIN keys = K /\ Cardinality(K) = Len(values)
    BY <1>1, KeysCount
  <2>3. ASSUME NEW i \in 1..Len(values)
        PROVE  keys[<<"query", i - 1>>] = values[i]
    <3>1. i - 1 \in 0..Len(values) - 1 /\ (i - 1) + 1 = i
      BY <1>1
    <3>2. <<"query", i - 1>> \in K
      BY <3>1 DEF KeyGen
    <3>3. <<"query", i - 1>>[2] = i - 1
      OBVIOUS
    <3> QED BY <3>1, <3>2, <3>3
  <2> HIDE DEF keys, K
  <2>4. ReleaseSmart(values).kind = "hash" /\ ReleaseSmart(values).keys = keys
    BY <2>1
  <2> QED BY <1>1, <1>4, <2>2, <2>3, <2>4 DEF Holds
<1>5. Len(values) = 0 \/ Len(values) = 1 \/ Len(values) > 1
  BY <1>1
<1> QED BY <1>2, <1>3, <1>4, <1>5

\* The initial states satisfy the invariant.
LEMMA OutputInit == Init => OutputInv
<1> SUFFICES ASSUME Init PROVE OutputInv
  OBVIOUS
<1>1. /\ stream \in Streams /\ mode \in Modes /\ c = NewCommand(stream)
      /\ params = <<>> /\ reslist = <<>> /\ last = Nothing
      /\ out = Nothing /\ xsink = FALSE /\ pc = "results"
  BY DEF Init
<1>2. stream \in Seq(Results) /\ Len(stream) \in Nat
  BY <1>1, StreamsAssumption, LenProperties
<1>3. c \in Commands
  BY <1>1, <1>2, NewCommandIs
<1>4. ReadUpTo(0)
  <2>1. reslist = SetsOf(stream, mode, 0) /\ params = ParamsOf(stream, mode, 0)
    <3>1. 0 \in Nat /\ 0 <= Len(stream)
      BY <1>2
    <3> QED BY <1>1, <1>2, <3>1, SetsOfType
  <2>2. ~HasValueBefore(stream, mode, 0 + 1)
    BY DEF HasValueBefore
  <2>3. ColumnsOf(stream, c, 0)
    BY <1>1 DEF ColumnsOf, NewCommand
  <2> QED BY <1>1, <1>2, <2>1, <2>2, <2>3 DEF ReadUpTo
<1>5. c.todo = SubSeq(stream, 0 + 1, Len(stream))
  <2>1. SubSeq(stream, 1, Len(stream)) = stream
    BY <1>2
  <2> QED BY <1>1, <2>1 DEF NewCommand
<1>6. FailureReported /\ OutputComplete
  BY <1>1 DEF FailureReported, OutputComplete
<1> QED BY <1>1, <1>3, <1>4, <1>5, <1>6 DEF OutputInv

-----------------------------------------------------------------------------
(* ReadResult.                                                             *)

\* Whether there is a value before the next result but one.
LEMMA ValueBeforeNext ==
    ASSUME NEW s, NEW m, NEW k \in Nat
    PROVE  /\ s[k + 1].type = "DONE" => ~HasValueBefore(s, m, (k + 1) + 1)
           /\ s[k + 1].type \in {"ROW", "PARAM"} =>
                (HasValueBefore(s, m, (k + 1) + 1) <=> ResultValue(m, s[k + 1]) # Nothing)
           /\ s[k + 1].type \notin {"DONE", "ROW", "PARAM"} =>
                (HasValueBefore(s, m, (k + 1) + 1) <=> HasValueBefore(s, m, k + 1))
<1> DEFINE Puts(i) == s[i].type \in {"ROW", "PARAM"} /\ ResultValue(m, s[i]) # Nothing
           Ends(i) == s[i].type \in {"ROW", "PARAM", "DONE"}
<1>1. HasValueBefore(s, m, k + 1) <=> \E j \in 1..k : Puts(j) /\ \A i \in j + 1..k : ~Ends(i)
  <2>1. (k + 1) - 1 = k
    OBVIOUS
  <2> QED BY <2>1 DEF HasValueBefore
<1>2. HasValueBefore(s, m, (k + 1) + 1)
        <=> \E j \in 1..k + 1 : Puts(j) /\ \A i \in j + 1..k + 1 : ~Ends(i)
  <2>1. ((k + 1) + 1) - 1 = k + 1
    OBVIOUS
  <2> QED BY <2>1 DEF HasValueBefore
<1>3. s[k + 1].type = "DONE" => Ends(k + 1) /\ ~Puts(k + 1)
  OBVIOUS
<1>4. s[k + 1].type \in {"ROW", "PARAM"} =>
        Ends(k + 1) /\ (Puts(k + 1) <=> ResultValue(m, s[k + 1]) # Nothing)
  OBVIOUS
<1>5. s[k + 1].type \notin {"DONE", "ROW", "PARAM"} => ~Ends(k + 1) /\ ~Puts(k + 1)
  OBVIOUS
<1> HIDE DEF Puts, Ends
<1>6. /\ \A j \in 1..k + 1 : j \in 1..k \/ j = k + 1
      /\ \A j \in 1..k : j \in 1..k + 1 /\ k + 1 \in j + 1..k + 1
      /\ \A j \in 1..k : \A i \in j + 1..k + 1 : i \in j + 1..k \/ i = k + 1
      /\ \A j \in 1..k : \A i \in j + 1..k : i \in j + 1..k + 1
      /\ k + 1 \in 1..k + 1 /\ (k + 1) + 1..k + 1 = {}
  OBVIOUS
<1>7. ASSUME Ends(k + 1)
      PROVE  HasValueBefore(s, m, (k + 1) + 1) <=> Puts(k + 1)
  BY <1>2, <1>6, <1>7
<1>8. ASSUME ~Ends(k + 1), ~Puts(k + 1)
      PROVE  HasValueBefore(s, m, (k + 1) + 1) <=> HasValueBefore(s, m, k + 1)
  BY <1>1, <1>2, <1>6, <1>8
<1> QED BY <1>3, <1>4, <1>5, <1>7, <1>8

\* The columns stay those of the logical command as long as no status result
\* and no CS_CMD_DONE is read.
LEMMA ColumnsNext ==
    ASSUME NEW s, NEW cmd, NEW d, NEW k \in Nat, ColumnsOf(s, cmd, k),
           \/ d.cols = "dirty"
           \/ d.cols = cmd.cols /\ s[k + 1].type \notin {"DONE", "STATUS"}
           \/ d.cols = s[k + 1].fmt /\ s[k + 1].type \in {"ROW", "PARAM"}
    PROVE  ColumnsOf(s, d, k + 1)
<1>1. CASE d.cols = "dirty"
  BY <1>1 DEF ColumnsOf
<1>2. CASE cmd.cols # "dirty" /\ d.cols = cmd.cols /\ s[k + 1].type \notin {"DONE", "STATUS"}
  <2>1. PICK i \in 1..k : /\ s[i].type \in {"ROW", "PARAM"} /\ s[i].fmt = cmd.cols
                          /\ \A j \in i..k : s[j].type \notin {"DONE", "STATUS"}
    BY <1>2 DEF ColumnsOf
  <2>2. i \in 1..k + 1 /\ \A j \in i..k + 1 : j \in i..k \/ j = k + 1
    OBVIOUS
  <2> QED BY <1>2, <2>1, <2>2 DEF ColumnsOf
<1>3. CASE d.cols = s[k + 1].fmt /\ s[k + 1].type \in {"ROW", "PARAM"}
  <2>1. k + 1 \in 1..k + 1 /\ \A j \in k + 1..k + 1 : j = k + 1
    OBVIOUS
  <2> QED BY <1>3, <2>1 DEF ColumnsOf
<1> QED BY <1>1, <1>2, <1>3

\* A result that is not fetchable and does not fail is no fault.
LEMMA PlainIsNoFault ==
    ASSUME NEW s \in Seq(Results), NEW m, NEW i \in 1..Len(s), s[i].type \in {"DONE", "SUCCEED"}
    PROVE  ~FaultAt(s, m, i)
<1>1. s[i] \in Results
  BY ElementOfSeq
<1>2. s[i].rows = <<>>
  BY <1>1, ResultFacts DEF Fetchable
<1> QED BY <1>2 DEF FaultAt

\* A result of ct_results() is reported, ends the reading with everything that
\* was read, is opened, or adds its row count.
LEMMA ReadResultKeeps == OutputInv /\ ReadResult => OutputInv'
<1> SUFFICES ASSUME OutputInv, ReadResult PROVE OutputInv'
  OBVIOUS
<1>1. /\ pc = "results" /\ xsink = FALSE /\ c' = NextResult(c)
      /\ stream' = stream /\ mode' = mode /\ params' = params
      /\ stream \in Streams /\ mode \in Modes /\ c \in Commands
      /\ stream \in Seq(Results) /\ Len(stream) \in Nat
  BY StreamsAssumption, LenProperties DEF OutputInv, ReadResult
<1>2. PICK k \in Nat : ReadUpTo(k) /\ c.todo = SubSeq(stream, k + 1, Len(stream))
  BY <1>1 DEF OutputInv
<1>3. /\ k \in 0..Len(stream) /\ \A i \in 1..k : ~FaultAt(stream, mode, i)
      /\ reslist = SetsOf(stream, mode, k) /\ params = ParamsOf(stream, mode, k)
      /\ last = Nothing <=> ~HasValueBefore(stream, mode, k + 1)
      /\ ColumnsOf(stream, c, k)
  BY <1>2 DEF ReadUpTo
<1>4. CASE c.todo = <<>>
  <2>1. k = Len(stream)
    BY <1>1, <1>2, <1>3, <1>4
  <2>2. c'.last = "END" /\ ~ResultRaises(c) /\ c' \in Commands
    BY <1>1, <1>4 DEF NextResult, ResultRaises, Commands, LastRes
  <2>3. pc' = "returned" /\ out' = Res /\ xsink' = xsink
    BY <2>2 DEF ReadResult, Return
  <2>4. reslist = ResultSets' /\ params = OutputParams'
    BY <1>1, <1>3, <2>1 DEF ResultSets, OutputParams
  <2>5. reslist \in Seq(Values) /\ params \in Seq(Values)
    BY <1>1, <1>3, SetsOfType
  <2>6. FailureReported'
    <3>1. DOMAIN stream = 1..k
      BY <1>1, <2>1
    <3> QED BY <1>1, <1>3, <2>3, <3>1 DEF FailureReported, Faulty
  <2>7. OutputComplete'
    <3>1. Holds(ReleaseSmart(reslist), reslist) /\ Holds(ReleaseSmart(params), params)
      BY <2>5, ReleaseHolds
    <3>2. reslist \o <<>> = reslist /\ <<>> \o params = params
      BY <2>5, ConcatEmptySeq
    <3>3. CASE params = <<>>
      BY <2>3, <2>4, <3>1, <3>2, <3>3 DEF OutputComplete, Res
    <3>4. CASE params # <<>> /\ reslist = <<>>
      BY <2>3, <2>4, <3>1, <3>2, <3>4 DEF OutputComplete, Res
    <3>5. CASE params # <<>> /\ reslist # <<>>
      <4> DEFINE K == {<<"query">>, <<"params">>}
                 f == [key \in K |-> IF key = <<"query">> THEN ReleaseSmart(reslist)
                                                          ELSE ReleaseSmart(params)]
      <4>1. Res.keys = f
        BY <3>5 DEF Res
      <4>2. /\ DOMAIN f = K /\ f[<<"query">>] = ReleaseSmart(reslist)
            /\ f[<<"params">>] = ReleaseSmart(params)
        OBVIOUS
      <4> HIDE DEF f
      <4>3. out'.keys = f
        BY <2>3, <4>1
      <4> QED BY <2>4, <3>1, <3>5, <4>2, <4>3 DEF OutputComplete
    <3> QED BY <3>3, <3>4, <3>5
  <2> QED BY <1>1, <2>2, <2>3, <2>6, <2>7 DEF OutputInv
<1>5. CASE c.todo # <<>>
  <2>1. PICK r, d : r = Head(c.todo) /\ d = c'
    OBVIOUS
  <2>2. /\ r \in Results /\ d \in Commands
        /\ r.type \in Fetchable \cup {"DONE", "SUCCEED", "FAIL", "BROKEN"}
        /\ r.type # "DONE" => d.cols = c.cols
        /\ r.type \in Fetchable =>
             d.todo = Tail(c.todo) /\ d.last = r.type /\ d.open = r.fmt /\ d.left = r.rows
        /\ r.type \in {"DONE", "SUCCEED"} => d.todo = Tail(c.todo)
        /\ r.type = "DONE" => d.cols = "dirty"
    BY <1>1, <1>5, <2>1, NextResultIs DEF Fetchable
  <2>3. k + 1 <= Len(stream) /\ k < Len(stream) /\ k + 1 \in 1..Len(stream)
    BY <1>1, <1>2, <1>5, BackOf
  <2>4. r = stream[k + 1] /\ Tail(c.todo) = SubSeq(stream, (k + 1) + 1, Len(stream))
    BY <1>1, <1>2, <1>5, <2>1, BackOf
  <2>5. ResultRaises(c) <=> r.type \in {"FAIL", "BROKEN"}
    BY <1>5, <2>1 DEF ResultRaises
  <2>6. CASE r.type \in {"FAIL", "BROKEN"}
    <3>1. pc' = "returned" /\ xsink' = TRUE
      <4>1. \/ Raise
            \/ ~ResultRaises(c)
        BY DEF ReadResult
      <4> QED BY <2>5, <2>6, <4>1 DEF Raise
    <3>2. Faulty'
      BY <1>1, <2>3, <2>4, <2>6 DEF Faulty, FaultAt
    <3> QED BY <1>1, <2>1, <2>2, <3>1, <3>2 DEF OutputInv, FailureReported, OutputComplete
  <2>7. CASE r.type \in {"DONE", "SUCCEED"}
    <3>1. ~ResultRaises(c) /\ k + 1 \in Nat
      BY <2>5, <2>7
    <3>2. c = [todo |-> c.todo, open |-> c.open, left |-> c.left, last |-> c.last,
               count |-> c.count, cols |-> c.cols]
      BY <1>1 DEF Commands
    <3>3. d.last = (IF r.type = "DONE" THEN "DONE" ELSE "RETRY")
          /\ (r.type = "DONE" => d.count = r.count)
      <4>1. d = WithResult(c, r)
        BY <1>1, <1>5, <2>1 DEF NextResult
      <4> QED BY <2>7, <3>2, <4>1 DEF WithResult, Fetchable
    <3>4. /\ pc' = "results" /\ xsink' = xsink
          /\ reslist' = reslist \o ValuesAt(stream, mode, k + 1)
          /\ last' = Nothing <=> ~HasValueBefore(stream, mode, (k + 1) + 1)
      <4>1. CASE r.type = "DONE"
        <5>1. /\ reslist' = reslist \o DoneValues(r.count) /\ last' = DoneLast
              /\ pc' = "results" /\ xsink' = xsink
          <6>1. d.last = "DONE" /\ d.count = r.count
            BY <3>3, <4>1
          <6> QED BY <1>1, <2>1, <3>1, <6>1 DEF ReadResult
        <5>2. DoneValues(r.count) = ValuesAt(stream, mode, k + 1)
          BY <1>3, <2>4, <4>1 DEF DoneValues, ValuesAt
        <5>3. ~HasValueBefore(stream, mode, (k + 1) + 1)
          BY <2>4, <4>1, ValueBeforeNext
        <5> QED BY <5>1, <5>2, <5>3 DEF DoneLast
      <4>2. CASE r.type = "SUCCEED"
        <5>1. reslist' = reslist /\ last' = last /\ pc' = "results" /\ xsink' = xsink
          <6>1. d.last = "RETRY"
            BY <3>3, <4>2
          <6> QED BY <1>1, <2>1, <3>1, <6>1 DEF ReadResult
        <5>2. ValuesAt(stream, mode, k + 1) = <<>>
          BY <2>4, <4>2 DEF ValuesAt
        <5>3. reslist \o <<>> = reslist
          BY <1>1, <1>3, SetsOfType, ConcatEmptySeq
        <5>4. HasValueBefore(stream, mode, (k + 1) + 1) <=> HasValueBefore(stream, mode, k + 1)
          BY <2>4, <4>2, ValueBeforeNext
        <5> QED BY <1>3, <5>1, <5>2, <5>3, <5>4
      <4> QED BY <2>7, <4>1, <4>2
    <3>5. reslist' = SetsOf(stream, mode, k + 1) /\ params' = ParamsOf(stream, mode, k + 1)
      <4>1. SetsOf(stream, mode, k + 1) = SetsOf(stream, mode, k) \o ValuesAt(stream, mode, k + 1)
        BY <1>1, <2>3, SetsOfNext
      <4>2. ParamsOf(stream, mode, k + 1)
              = ParamsOf(stream, mode, k) \o ParamAt(stream, mode, k + 1)
        BY <1>1, <2>3, SetsOfNext
      <4>3. ParamAt(stream, mode, k + 1) = <<>>
        BY <2>4, <2>7 DEF ParamAt
      <4>4. params \o <<>> = params
        BY <1>1, <1>3, SetsOfType, ConcatEmptySeq
      <4> QED BY <1>1, <1>3, <3>4, <4>1, <4>2, <4>3, <4>4
    <3>6. \A i \in 1..k + 1 : ~FaultAt(stream, mode, i)
      <4>1. ~FaultAt(stream, mode, k + 1)
        BY <1>1, <2>3, <2>4, <2>7, PlainIsNoFault
      <4>2. \A i \in 1..k + 1 : i \in 1..k \/ i = k + 1
        OBVIOUS
      <4> QED BY <1>3, <4>1, <4>2
    <3>7. ColumnsOf(stream, d, k + 1)
      <4>1. \/ d.cols = "dirty"
            \/ d.cols = c.cols /\ stream[k + 1].type \notin {"DONE", "STATUS"}
            \/ d.cols = stream[k + 1].fmt /\ stream[k + 1].type \in {"ROW", "PARAM"}
        BY <2>2, <2>4, <2>7
      <4>2. ColumnsOf(stream, c, k)
        BY <1>3
      <4> QED BY <4>1, <4>2, ColumnsNext
    <3>8. ReadUpTo(k + 1)'
      BY <1>1, <2>1, <2>3, <3>1, <3>4, <3>5, <3>6, <3>7 DEF ReadUpTo
    <3>9. c'.todo = SubSeq(stream, (k + 1) + 1, Len(stream))
      BY <2>1, <2>2, <2>4, <2>7
    <3> QED BY <1>1, <2>1, <2>2, <3>1, <3>4, <3>8, <3>9
            DEF OutputInv, FailureReported, OutputComplete
  <2>8. CASE r.type \in Fetchable
    <3>1. /\ ~ResultRaises(c) /\ d.last \in {"ROW", "PARAM", "STATUS"}
          /\ d.todo = Tail(c.todo) /\ d.last = r.type /\ d.open = r.fmt /\ d.left = r.rows
          /\ d.cols = c.cols
      BY <2>2, <2>5, <2>8 DEF Fetchable
    <3>2. /\ pc' = "read" /\ reslist' = reslist /\ last' = last /\ xsink' = xsink
      BY <1>1, <2>1, <3>1 DEF ReadResult
    <3>3. ColumnsOf(stream, d, k)
      BY <1>3, <3>1 DEF ColumnsOf
    <3>4. ReadUpTo(k)'
      BY <1>1, <1>3, <2>1, <3>2, <3>3 DEF ReadUpTo
    <3>5. Opened(k)'
      BY <1>1, <2>1, <2>3, <2>4, <2>8, <3>1 DEF Opened
    <3> QED BY <1>1, <2>1, <2>2, <3>2, <3>4, <3>5 DEF OutputInv, FailureReported, OutputComplete
  <2> QED BY <2>2, <2>6, <2>7, <2>8
<1> QED BY <1>4, <1>5

-----------------------------------------------------------------------------
(* ReadRows.                                                               *)

\* Within a logical command the rows have the columns colinfo describes, those
\* of their own result.
LEMMA RowsHaveTheColumns ==
    ASSUME NEW s \in Streams, NEW cmd, NEW k \in Nat, k + 1 <= Len(s), ColumnsOf(s, cmd, k),
           s[k + 1].type = "ROW", cmd.cols # "dirty"
    PROVE  cmd.cols = s[k + 1].fmt
<1>1. PICK i \in 1..k : /\ s[i].type \in {"ROW", "PARAM"} /\ s[i].fmt = cmd.cols
                        /\ \A j \in i..k : s[j].type \notin {"DONE", "STATUS"}
  BY DEF ColumnsOf
<1>2. Len(s) \in Nat /\ DOMAIN s = 1..Len(s)
  BY StreamsAssumption, LenProperties
<1>3. i \in DOMAIN s /\ k + 1 \in DOMAIN s /\ i < k + 1
  BY <1>2
<1>4. \A j \in i..k + 1 : s[j].type \notin {"DONE", "STATUS"}
  <2>1. \A j \in i..k + 1 : j \in i..k \/ j = k + 1
    OBVIOUS
  <2> QED BY <1>1, <2>1
<1>5. \A a, b \in DOMAIN s :
        a < b /\ s[a].type \in {"ROW", "PARAM"} /\ s[b].type = "ROW"
          /\ (\A j \in a..b : s[j].type \notin {"DONE", "STATUS"}) => s[a].fmt = s[b].fmt
  BY OneFormatAssumption
<1>6. s[i].fmt = s[k + 1].fmt
  BY <1>1, <1>3, <1>4, <1>5
<1> QED BY <1>1, <1>6

\* The rows of the result that is open are decoded with its own columns.
LEMMA PreparedIs ==
    ASSUME OutputInv, NEW k \in Nat, ReadUpTo(k), Opened(k), NEW d, d = Prepared
    PROVE  /\ d \in Commands
           /\ d.todo = c.todo /\ d.left = stream[k + 1].rows
           /\ d.cols # "dirty" => d.cols = stream[k + 1].fmt \/ stream[k + 1].type = "STATUS"
           /\ AllRows(d) = [i \in DOMAIN stream[k + 1].rows |->
                                DecodedAs(stream[k + 1].rows[i], stream[k + 1].fmt)]
<1>1. /\ stream \in Streams /\ c \in Commands /\ k + 1 <= Len(stream)
      /\ c.last = stream[k + 1].type /\ c.open = stream[k + 1].fmt
      /\ c.left = stream[k + 1].rows /\ ColumnsOf(stream, c, k)
  BY DEF OutputInv, Opened, ReadUpTo
<1>2. CASE c.last = "ROW"
  <2>1. d = WithColumns(c)
    BY <1>2 DEF Prepared
  <2>2. /\ d \in Commands /\ d.todo = c.todo /\ d.left = c.left
        /\ d.cols = IF c.cols = "dirty" THEN c.open ELSE c.cols
    BY <1>1, <2>1, WithColumnsIs
  <2>3. d.cols = stream[k + 1].fmt
    BY <1>1, <1>2, <2>2, RowsHaveTheColumns
  <2> QED BY <1>1, <2>2, <2>3 DEF AllRows
<1>3. CASE c.last # "ROW"
  <2>1. d = [c EXCEPT !.cols = c.open]
    BY <1>3 DEF Prepared, Described
  <2>2. /\ d \in Commands /\ d.todo = c.todo /\ d.left = c.left /\ d.cols = c.open
    BY <1>1, <2>1 DEF Commands
  <2> QED BY <1>1, <2>2 DEF AllRows
<1> QED BY <1>2, <1>3

\* The rows of a result are reported, or read as the value of their result.
LEMMA ReadRowsKeeps == OutputInv /\ ReadRows => OutputInv'
<1> SUFFICES ASSUME OutputInv, ReadRows PROVE OutputInv'
  OBVIOUS
<1>1. /\ pc = "read" /\ xsink = FALSE /\ stream' = stream /\ mode' = mode
      /\ stream \in Streams /\ mode \in Modes /\ c \in Commands
      /\ stream \in Seq(Results) /\ Len(stream) \in Nat
  BY StreamsAssumption, LenProperties DEF OutputInv, ReadRows
<1>2. PICK k \in Nat : ReadUpTo(k) /\ Opened(k)
  BY <1>1 DEF OutputInv
<1>3. PICK r, d, n : r = stream[k + 1] /\ d = Prepared /\ n = k + 1
  OBVIOUS
<1>4. /\ k \in 0..Len(stream) /\ \A i \in 1..k : ~FaultAt(stream, mode, i)
      /\ reslist = SetsOf(stream, mode, k) /\ params = ParamsOf(stream, mode, k)
      /\ ColumnsOf(stream, c, k)
  BY <1>2 DEF ReadUpTo
<1>5. /\ n <= Len(stream) /\ k < Len(stream) /\ n \in 1..Len(stream) /\ n \in Nat
      /\ r.type \in Fetchable /\ c.last = r.type
      /\ c.todo = SubSeq(stream, n + 1, Len(stream))
  BY <1>1, <1>2, <1>3 DEF Opened
<1>6. /\ d \in Commands /\ d.todo = c.todo /\ d.left = r.rows
      /\ AllRows(d) = [i \in DOMAIN r.rows |-> DecodedAs(r.rows[i], r.fmt)]
      /\ d.cols # "dirty" => d.cols = r.fmt \/ r.type = "STATUS"
  BY <1>2, <1>3, PreparedIs
<1>7. ReadRaises(d) <=> FaultAt(stream, mode, n)
  <2>1. r.type \notin {"FAIL", "BROKEN"}
    BY <1>5 DEF Fetchable
  <2> QED BY <1>3, <1>5, <1>6, <2>1 DEF ReadRaises, FaultAt
<1>8. PICK rest : rest = [WithoutRows(d) EXCEPT !.left = <<>>]
  OBVIOUS
<1>9. /\ rest \in Commands /\ rest.todo = c.todo /\ rest.cols = d.cols
      /\ StatusRead(rest) \in Commands /\ StatusRead(rest).todo = c.todo
      /\ StatusRead(rest).cols = "dirty"
  BY <1>6, <1>8, EmptySeq DEF WithoutRows, StatusRead, Commands, Cols, LastRes
<1>10. PICK value : value = IF c.last = "ROW" /\ ~mode.list
                            THEN ColumnsValue(AllRows(d), mode.cols)
                            ELSE ListValue(AllRows(d))
  OBVIOUS
<1>11. value = ResultValue(mode, r)
  BY <1>5, <1>6, <1>10 DEF ResultValue
<1>12. CASE ReadRaises(d)
  <2>1. pc' = "returned" /\ xsink' = TRUE /\ c' = c
    BY <1>3, <1>12 DEF ReadRows, Raise
  <2>2. Faulty'
    BY <1>1, <1>5, <1>7, <1>12 DEF Faulty
  <2> QED BY <1>1, <2>1, <2>2 DEF OutputInv, FailureReported, OutputComplete
<1>13. CASE ~ReadRaises(d)
  <2>1. \/ /\ r.type = "ROW" /\ c' = rest
           /\ reslist' = Append(reslist, value) /\ last' = value
           /\ UNCHANGED params
        \/ /\ r.type = "PARAM" /\ c' = rest
           /\ params' = Append(params, value) /\ last' = value
           /\ UNCHANGED reslist
        \/ /\ r.type = "STATUS" /\ c' = StatusRead(rest)
           /\ UNCHANGED <<params, reslist, last>>
    BY <1>3, <1>5, <1>8, <1>10, <1>13 DEF ReadRows
  <2>2. pc' = "results" /\ xsink' = xsink
    BY <1>3, <1>13 DEF ReadRows
  <2>3. \A i \in 1..n : ~FaultAt(stream, mode, i)
    <3>1. \A i \in 1..n : i \in 1..k \/ i = n
      BY <1>3
    <3> QED BY <1>4, <1>7, <1>13, <3>1
  <2>4. /\ SetsOf(stream, mode, n) = reslist \o ValuesAt(stream, mode, n)
        /\ ParamsOf(stream, mode, n) = params \o ParamAt(stream, mode, n)
    BY <1>1, <1>3, <1>4, <1>5, SetsOfNext
  <2>5. reslist \in Seq(Values) /\ params \in Seq(Values)
    BY <1>1, <1>4, <1>5, SetsOfType
  <2>6. /\ value \in Values
        /\ Append(reslist, value) = reslist \o <<value>>
        /\ Append(params, value) = params \o <<value>>
        /\ reslist \o <<>> = reslist /\ params \o <<>> = params
    <3>1. r \in Results
      BY <1>1, <1>3, <1>5, ElementOfSeq
    <3>2. value \in Values
      BY <1>1, <1>11, <3>1 DEF Values
    <3> QED BY <2>5, <3>2, AppendIsConcat, ConcatEmptySeq
  <2>7. /\ r.type \in {"ROW", "PARAM"} =>
             (HasValueBefore(stream, mode, n + 1) <=> value # Nothing)
        /\ r.type = "STATUS" =>
             (HasValueBefore(stream, mode, n + 1) <=> HasValueBefore(stream, mode, n))
    BY <1>3, <1>11, ValueBeforeNext
  <2>8. last = Nothing <=> ~HasValueBefore(stream, mode, n)
    BY <1>2, <1>3 DEF ReadUpTo
  <2>9. /\ reslist' = SetsOf(stream, mode, n) /\ params' = ParamsOf(stream, mode, n)
        /\ last' = Nothing <=> ~HasValueBefore(stream, mode, n + 1)
        /\ c' \in Commands /\ c'.todo = c.todo /\ ColumnsOf(stream, c', n)
    <3>1. CASE r.type = "ROW"
      <4>1. ValuesAt(stream, mode, n) = <<value>> /\ ParamAt(stream, mode, n) = <<>>
        BY <1>3, <1>11, <3>1 DEF ValuesAt, ParamAt
      <4>2. /\ c' = rest /\ reslist' = Append(reslist, value) /\ last' = value
            /\ params' = params
        BY <2>1, <3>1
      <4>3. ColumnsOf(stream, rest, n)
        <5>1. \/ rest.cols = "dirty"
              \/ rest.cols = c.cols /\ stream[k + 1].type \notin {"DONE", "STATUS"}
              \/ rest.cols = stream[k + 1].fmt /\ stream[k + 1].type \in {"ROW", "PARAM"}
          BY <1>3, <1>6, <1>9, <3>1
        <5> QED BY <1>3, <1>4, <5>1, ColumnsNext
      <4> QED BY <1>9, <2>4, <2>6, <2>7, <3>1, <4>1, <4>2, <4>3
    <3>2. CASE r.type = "PARAM"
      <4>1. ValuesAt(stream, mode, n) = <<>> /\ ParamAt(stream, mode, n) = <<value>>
        BY <1>3, <1>11, <3>2 DEF ValuesAt, ParamAt
      <4>2. /\ c' = rest /\ params' = Append(params, value) /\ last' = value
            /\ reslist' = reslist
        BY <2>1, <3>2
      <4>3. ColumnsOf(stream, rest, n)
        <5>1. \/ rest.cols = "dirty"
              \/ rest.cols = c.cols /\ stream[k + 1].type \notin {"DONE", "STATUS"}
              \/ rest.cols = stream[k + 1].fmt /\ stream[k + 1].type \in {"ROW", "PARAM"}
          BY <1>3, <1>6, <1>9, <3>2
        <5> QED BY <1>3, <1>4, <5>1, ColumnsNext
      <4> QED BY <1>9, <2>4, <2>6, <2>7, <3>2, <4>1, <4>2, <4>3
    <3>3. CASE r.type = "STATUS"
      <4>1. ValuesAt(stream, mode, n) = <<>> /\ ParamAt(stream, mode, n) = <<>>
        BY <1>3, <3>3 DEF ValuesAt, ParamAt
      <4>2. /\ c' = StatusRead(rest) /\ params' = params /\ last' = last
            /\ reslist' = reslist
        BY <2>1, <3>3
      <4>3. ColumnsOf(stream, StatusRead(rest), n)
        BY <1>9 DEF ColumnsOf
      <4> QED BY <1>9, <2>4, <2>6, <2>7, <2>8, <3>3, <4>1, <4>2, <4>3
    <3> QED BY <1>5, <3>1, <3>2, <3>3 DEF Fetchable
  <2>10. ReadUpTo(n)'
    BY <1>1, <1>5, <2>3, <2>9 DEF ReadUpTo
  <2> QED BY <1>1, <1>5, <2>2, <2>9, <2>10 DEF OutputInv, FailureReported, OutputComplete
<1> QED BY <1>12, <1>13

-----------------------------------------------------------------------------
(* The theorems.                                                           *)

\* The invariant holds in every reachable state.
THEOREM OutputInvariant == Spec => []OutputInv
<1>1. OutputInv /\ [Next]_vars => OutputInv'
  <2>1. ASSUME OutputInv, UNCHANGED vars
        PROVE  OutputInv'
    BY <2>1 DEF vars, OutputInv, ReadUpTo, Opened, FailureReported, OutputComplete,
                Faulty, ResultSets, OutputParams
  <2> QED BY <2>1, ReadResultKeeps, ReadRowsKeeps DEF Next, Finished
<1> QED BY OutputInit, <1>1, PTL DEF Spec

\* readOutput() raises an exception exactly when a result or a row fails: no
\* failure is lost among the results before and after it, and none is made up.
THEOREM FailuresReported == Spec => []FailureReported
<1>1. OutputInv => FailureReported
  BY DEF OutputInv
<1> QED BY OutputInvariant, <1>1, PTL

\* Every row and parameter is returned once, in its place, decoded with its
\* own columns, and every row count of a command without rows.
THEOREM OutputIsComplete == Spec => []OutputComplete
<1>1. OutputInv => OutputComplete
  BY DEF OutputInv
<1> QED BY OutputInvariant, <1>1, PTL
=============================================================================
