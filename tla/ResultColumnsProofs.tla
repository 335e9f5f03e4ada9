------------------------ MODULE ResultColumnsProofs ------------------------
(***************************************************************************)
(* For every list of columns, rows and placeholders, and any number of     *)
(* failures: the columns are bound before a row is fetched, each of them   *)
(* has a key of its own by the documented format, and the values under it. *)
(***************************************************************************)
EXTENDS ResultColumns, SequenceLemmas, FiniteSetTheorems

-----------------------------------------------------------------------------
(* The invariant.                                                          *)

Buffers == [value : Values, indicator : {-1, 0}]
Held    == [kind : {"value", "list"}, items : Seq(Values)]
Entries == [key : AllNames, value : Held]
Outs    == [call : Calls, hash : Seq(Entries), first : Int, last : Int]

Reading == pc \in {"describe", "bind", "setup", "fetch", "row"}

TypeInv ==
    /\ TypeOK
    /\ names \in ColumnLists /\ rows \in RowLists
    /\ \A k \in 1..Len(rows) : Len(rows[k]) = Len(names)
    /\ bufs \in Seq(Buffers) /\ hash \in Seq(Entries) /\ out \in Seq(Outs)
    /\ Reading => call \in Calls /\ cnt <= call.cnt

\* What is described is the beginning of the columns; unless the flag says
\* otherwise it is all of them, and all are bound.
DescribedInv ==
    /\ Len(datafmt) <= Len(names) /\ \A k \in 1..Len(datafmt) : datafmt[k] = names[k]
    /\ ~dirty => datafmt = names /\ Len(bufs) = Len(names)
    /\ pc \in {"describe", "bind"} => dirty
    /\ pc = "bind" => datafmt = names /\ Len(bufs) <= Len(names)
    /\ pc \in {"setup", "fetch", "row"} => ~dirty

\* The key of column k is the one it should have beside the ones before it.
Standard(h, ph) ==
    \A k \in 1..Len(h) :
        LET before == {h[m].key : m \in 1..k - 1}
            own    == OwnName(k, ph)
        IN  \/ own \notin before /\ h[k].key = own
            \/ /\ own \in before
               /\ \E num \in 1..k :
                    /\ h[k].key = [own EXCEPT !.n = Append(@, num)]
                    /\ h[k].key \notin before
                    /\ \A m \in 1..num - 1 : [own EXCEPT !.n = Append(@, m)] \in before

\* The values of a column in the rows from first to last.
Cells(k, first, last) == [m \in 1..last - first + 1 |-> rows[first + m - 1][k]]

\* The row that was fetched last is in the buffers.
RowInBuffers ==
    /\ r \in 1..Len(rows)
    /\ \A k \in 1..Len(names) : GetValue(bufs[k]) = Value(rows[r][k])

\* call.cnt - cnt rows are complete; the first i columns have another one.
HashInv ==
    /\ Standard(hash, call.ph)
    /\ pc \in {"ready", "describe", "bind", "end"} => hash = <<>>
    /\ pc \in {"describe", "bind"} => cnt = call.cnt /\ i = 0
    /\ pc = "setup" =>
         /\ call.shape = "columns" /\ cnt = call.cnt /\ Len(hash) = i
         /\ \A k \in 1..Len(hash) : hash[k].value.items = <<>>
         /\ ~call.asked => RowInBuffers
    /\ pc = "fetch" =>
         \/ hash = <<>> /\ (call.shape = "columns" => ~call.asked /\ cnt = call.cnt)
         \/ /\ call.shape = "columns" /\ Len(hash) = Len(names)
            /\ \A k \in 1..Len(hash) :
                  hash[k].value.items = Cells(k, r - (call.cnt - cnt) + 1, r)
    /\ pc = "row" =>
         /\ RowInBuffers
         /\ call.shape = "rows" =>
              /\ Len(hash) = i
              /\ \A k \in 1..Len(hash) : hash[k].value.items = Cells(k, r, r)
         /\ call.shape = "columns" =>
              /\ Len(hash) = Len(names)
              /\ \A k \in 1..Len(hash) :
                   hash[k].value.items =
                       Cells(k, r - (call.cnt - cnt), IF k <= i THEN r ELSE r - 1)

\* What is handed out is complete.
Whole(o) ==
    \/ /\ Len(o.hash) = Len(names)
       /\ \A k \in 1..Len(o.hash) : o.hash[k].value.items = Cells(k, o.first, o.last)
    \/ o.hash = <<>> /\ o.call.shape = "columns" /\ ~o.call.asked /\ o.first > o.last

OutInv == \A n \in 1..Len(out) : Standard(out[n].hash, out[n].call.ph) /\ Whole(out[n])

ColumnsInv == TypeInv /\ DescribedInv /\ HashInv /\ OutInv

-----------------------------------------------------------------------------
(* Names.                                                                  *)

\* A number put behind a name makes another one.
LEMMA NumberedIs ==
    ASSUME NEW own \in AllNames, NEW num \in Nat
    PROVE  /\ Numbered(own, num) \in AllNames
           /\ Numbered(own, num) = [own EXCEPT !.n = Append(@, num)]
           /\ \A m \in Nat : Numbered(own, num) = Numbered(own, m) => num = m
<1>1. own.n \in Seq(Nat) /\ own.word \in Words
  BY DEF AllNames
<1>2. \A m \in Nat : Numbered(own, m) = [word |-> own.word, n |-> Append(own.n, m)]
  <2>1. PICK w, s : own = [word |-> w, n |-> s]
    BY DEF AllNames
  <2> QED BY <2>1 DEF Numbered
<1>3. \A m \in Nat : Append(own.n, m) \in Seq(Nat)
                     /\ Append(own.n, m)[Len(own.n) + 1] = m
  BY <1>1, AppendProperties
<1>4. Numbered(own, num) \in AllNames
  <2>1. PICK s \in Seq(Nat) : s = Append(own.n, num)
    BY <1>3
  <2>2. Numbered(own, num) = [word |-> own.word, n |-> s]
    BY <1>2, <2>1
  <2> QED BY <1>1, <2>1, <2>2 DEF AllNames
<1>5. ASSUME NEW m \in Nat, Numbered(own, num) = Numbered(own, m)
      PROVE  num = m
  <2>1. Append(own.n, num) = Append(own.n, m)
    BY <1>2, <1>5
  <2> QED BY <1>3, <2>1
<1>6. Numbered(own, num) = [own EXCEPT !.n = Append(@, num)]
  BY DEF Numbered
<1> QED BY <1>4, <1>5, <1>6

\* The keys of a hash.
Keys(h) == {h[k].key : k \in 1..Len(h)}

\* What is under a key is not NOTHING.
LEMMA TakenIs ==
    ASSUME NEW h \in Seq(Entries), NEW name
    PROVE  Taken(h, name) <=> name \in Keys(h)
<1>1. DOMAIN h = 1..Len(h) /\ \A k \in 1..Len(h) : h[k] \in Entries
  BY LenProperties, ElementOfSeq
<1>2. \A k \in 1..Len(h) : h[k].value # Nothing
  <2>1. \A k \in 1..Len(h) : h[k].value.kind \in {"value", "list"}
    BY <1>1 DEF Entries, Held
  <2> QED BY <2>1 DEF Nothing
<1> QED BY <1>1, <1>2 DEF Taken, Keys

\* Of Len(h) + 1 numbers one is free.
LEMMA FreeNumber ==
    ASSUME NEW h \in Seq(Entries), NEW own \in AllNames
    PROVE  \E num \in 1..Len(h) + 1 : ~Taken(h, Numbered(own, num))
<1>1. Len(h) \in Nat
  BY LenProperties
<1>2. SUFFICES ASSUME \A num \in 1..Len(h) + 1 : Taken(h, Numbered(own, num)) PROVE FALSE
  OBVIOUS
<1>3. \A num \in 1..Len(h) + 1 : \E k \in 1..Len(h) : h[k].key = Numbered(own, num)
  BY <1>2, TakenIs DEF Keys
<1>4. PICK f : f = [num \in 1..Len(h) + 1 |->
                       CHOOSE k \in 1..Len(h) : h[k].key = Numbered(own, num)]
  OBVIOUS
<1>5. \A num \in 1..Len(h) + 1 : f[num] \in 1..Len(h) /\ h[f[num]].key = Numbered(own, num)
  BY <1>3, <1>4
<1>6. f \in [1..Len(h) + 1 -> 1..Len(h)]
  BY <1>4, <1>5
<1>7. /\ IsFiniteSet(1..Len(h)) /\ Cardinality(1..Len(h)) = Len(h)
      /\ IsFiniteSet(1..Len(h) + 1) /\ Cardinality(1..Len(h) + 1) = Len(h) + 1
  <2>1. \A n \in Nat : IsFiniteSet(1..n) /\ Cardinality(1..n) = n
    <3>1. TAKE n \in Nat
    <3>2. IsFiniteSet(1..n) /\ Cardinality(1..n) = IF 1 > n THEN 0 ELSE n - 1 + 1
      BY FS_Interval
    <3> QED BY <3>2
  <2> QED BY <1>1, <2>1
<1>8. PICK x, y \in 1..Len(h) + 1 : x # y /\ f[x] = f[y]
  <2>1. Cardinality(1..Len(h)) < Cardinality(1..Len(h) + 1)
    BY <1>1, <1>7
  <2> QED BY <1>6, <1>7, <2>1, FS_PigeonHole
<1>9. Numbered(own, x) = Numbered(own, y) /\ x \in Nat /\ y \in Nat
  BY <1>1, <1>5, <1>8
<1> QED BY <1>8, <1>9, NumberedIs

\* The name that is looked for is the first free one.
LEMMA UniqueNameIs ==
    ASSUME NEW h \in Seq(Entries), NEW own \in AllNames,
           NEW u, u = UniqueName(h, own)
    PROVE  /\ u \in AllNames /\ u \notin Keys(h)
           /\ own \notin Keys(h) => u = own
           /\ own \in Keys(h) =>
                \E num \in 1..Len(h) + 1 :
                   /\ u = Numbered(own, num)
                   /\ \A m \in 1..num - 1 : Numbered(own, m) \in Keys(h)
<1>1. \A name : Taken(h, name) <=> name \in Keys(h)
  BY TakenIs
<1>2. CASE own \notin Keys(h)
  BY <1>1, <1>2 DEF UniqueName
<1>3. CASE own \in Keys(h)
  <2>1. PICK S : S = {num \in 1..Len(h) + 1 : ~Taken(h, Numbered(own, num))}
    OBVIOUS
  <2>2. S # {} /\ S \subseteq Nat /\ Len(h) \in Nat
    <3>1. Len(h) \in Nat
      BY LenProperties
    <3> QED BY <2>1, <3>1, FreeNumber
  <2>3. \E num \in S : \A m \in S : num <= m
    BY <2>2, LeastElement
  <2>4. PICK num : num = Min(S)
    OBVIOUS
  <2>5. num \in S /\ \A m \in S : num <= m
    BY <2>3, <2>4 DEF Min
  <2>6. u = Numbered(own, num)
    BY <1>1, <1>3, <2>1, <2>4 DEF UniqueName
  <2>7. num \in 1..Len(h) + 1 /\ num \in Nat /\ u \notin Keys(h)
    BY <1>1, <2>1, <2>2, <2>5, <2>6
  <2>8. ASSUME NEW m \in 1..num - 1
        PROVE  Numbered(own, m) \in Keys(h)
    <3>1. m \in 1..Len(h) + 1 /\ m \in Nat /\ m < num
      BY <2>2, <2>7
    <3>2. m \notin S
      <4>1. \A x \in S : num <= x
        BY <2>5
      <4> QED BY <2>7, <3>1, <4>1
    <3> QED BY <1>1, <2>1, <3>1, <3>2
  <2>9. u \in AllNames
    BY <2>6, <2>7, NumberedIs
  <2> QED BY <1>3, <2>6, <2>7, <2>8, <2>9
<1> QED BY <1>2, <1>3

\* What the names of a call are.
LEMMA OwnNameIs ==
    ASSUME TypeInv, NEW c \in Calls, NEW k \in 1..Len(names)
    PROVE  /\ OwnName(k, c.ph) \in AllNames
           /\ call = c /\ datafmt = names => BaseName(k) = OwnName(k, c.ph)
<1>1. names \in Seq(AllNames) /\ names[k] \in AllNames /\ IndexOf[k - 1] \in Words
  <2>1. names \in ColumnLists /\ names \in Seq(AllNames)
    BY ResultsAssumption DEF TypeInv
  <2>2. DOMAIN names = 1..Len(names)
    BY <2>1, LenProperties
  <2> QED BY <2>1, <2>2, ResultsAssumption, ElementOfSeq
<1>2. c.ph \in Seq(AllNames)
  <2>1. <<>> \in Seq(AllNames)
    BY EmptySeq
  <2>2. c.ph \in PlaceholderLists \cup {<<>>}
    BY DEF Calls
  <2> QED BY <2>1, <2>2, ResultsAssumption
<1>3. k \in DOMAIN c.ph => c.ph[k] \in AllNames
  BY <1>2, LenProperties, ElementOfSeq
<1>4. <<>> \in Seq(Nat)
  BY EmptySeq
<1>5. IndexName(k) \in AllNames
  BY <1>1, <1>4 DEF IndexName, Name, AllNames
<1>6. /\ Lower(names[k]) = [word |-> LowerOf[names[k].word], n |-> names[k].n]
      /\ Lower(names[k]) \in AllNames
  BY <1>1, ResultsAssumption DEF Lower, AllNames
<1>7. OwnName(k, c.ph) \in AllNames
  BY <1>3, <1>5, <1>6 DEF OwnName
<1>8. call = c /\ datafmt = names => BaseName(k) = OwnName(k, c.ph)
  BY <1>6 DEF BaseName, PlaceholderAt, OwnName
<1> QED BY <1>7, <1>8

\* A key by the standard behind standard keys.
LEMMA StandardMore ==
    ASSUME NEW h \in Seq(Entries), NEW ph, NEW k, k = Len(h) + 1, Standard(h, ph),
           OwnName(k, ph) \in AllNames, NEW v \in Held,
           NEW g, g = Assigned(h, UniqueName(h, OwnName(k, ph)), v)
    PROVE  /\ Standard(g, ph) /\ g \in Seq(Entries) /\ Len(g) = Len(h) + 1
           /\ \A j \in 1..Len(h) : g[j] = h[j]
           /\ g[Len(h) + 1].value = v
<1>1. PICK own, u : own = OwnName(k, ph) /\ u = UniqueName(h, own)
  OBVIOUS
<1>2. PICK before : before = Keys(h)
  OBVIOUS
<1>3. Len(h) \in Nat /\ DOMAIN h = 1..Len(h) /\ k \in Nat
  BY LenProperties
<1>4. /\ u \in AllNames /\ u \notin before
      /\ own \notin before => u = own
      /\ own \in before =>
           \E num \in 1..k :
              /\ u = Numbered(own, num)
              /\ \A m \in 1..num - 1 : Numbered(own, m) \in before
  <2>1. own \in AllNames
    BY <1>1
  <2>2. /\ u \in AllNames /\ u \notin before
        /\ own \notin before => u = own
        /\ own \in before =>
             \E num \in 1..Len(h) + 1 :
                /\ u = Numbered(own, num)
                /\ \A m \in 1..num - 1 : Numbered(own, m) \in before
    BY <1>1, <1>2, <2>1, UniqueNameIs
  <2> QED BY <2>2
<1>5. PICK e : e = [key |-> u, value |-> v]
  OBVIOUS
<1>6. e \in Entries /\ g = Append(h, e)
  BY <1>1, <1>2, <1>3, <1>4, <1>5 DEF Assigned, Entries, Keys
<1>7. /\ g \in Seq(Entries) /\ Len(g) = Len(h) + 1
      /\ \A j \in 1..Len(h) : g[j] = h[j]
      /\ g[Len(h) + 1] = e
  BY <1>6, AppendProperties
<1>8. Standard(g, ph)
  <2>1. ASSUME NEW j \in 1..Len(g)
        PROVE  LET b == {g[m].key : m \in 1..j - 1}
                   o == OwnName(j, ph)
               IN  \/ o \notin b /\ g[j].key = o
                   \/ /\ o \in b
                      /\ \E num \in 1..j :
                           /\ g[j].key = [o EXCEPT !.n = Append(@, num)]
                           /\ g[j].key \notin b
                           /\ \A m \in 1..num - 1 : [o EXCEPT !.n = Append(@, m)] \in b
    <3>1. j \in 1..Len(h) \/ j = k
      BY <1>3, <1>7
    <3>2. \A m \in 1..j - 1 : g[m] = h[m]
      <4>1. \A m \in 1..j - 1 : m \in 1..Len(h)
        BY <1>3, <1>7
      <4> QED BY <1>7, <4>1
    <3>3. {g[m].key : m \in 1..j - 1} = {h[m].key : m \in 1..j - 1}
      BY <3>2
    <3>4. CASE j \in 1..Len(h)
      <4>1. g[j] = h[j]
        BY <1>7, <3>4
      <4> QED BY <3>3, <3>4, <4>1 DEF Standard
    <3>5. CASE j = k
      <4>1. 1..j - 1 = 1..Len(h)
        BY <1>3, <3>5
      <4>2. /\ {g[m].key : m \in 1..j - 1} = before /\ OwnName(j, ph) = own
            /\ g[j].key = u
        BY <1>1, <1>2, <1>3, <1>5, <1>7, <3>3, <3>5, <4>1 DEF Keys
      <4> QED BY <1>4, <3>5, <4>2 DEF Numbered
    <3> QED BY <3>1, <3>4, <3>5
  <2> QED BY <2>1 DEF Standard
<1> QED BY <1>5, <1>7, <1>8

\* The standard is about the keys only.
LEMMA StandardKeys ==
    ASSUME NEW h, NEW g, NEW ph, Standard(h, ph), Len(g) = Len(h), Len(h) \in Nat,
           \A k \in 1..Len(h) : g[k].key = h[k].key
    PROVE  Standard(g, ph)
<1>1. ASSUME NEW k \in 1..Len(g)
      PROVE  g[k].key = h[k].key /\ {g[m].key : m \in 1..k - 1} = {h[m].key : m \in 1..k - 1}
  <2>1. \A m \in 1..k - 1 : m \in 1..Len(h)
    OBVIOUS
  <2> QED BY <2>1
<1> QED BY <1>1 DEF Standard

-----------------------------------------------------------------------------
(* The steps.                                                              *)

\* How many rows a call may read.
LEMMA CallsCount == \A c \in Calls : c.cnt \in Int
<1>1. TAKE c \in Calls
<1>2. c.cnt \in {1, -1} \/ c.cnt \in {1, 2, -1} \/ c.cnt \in {-1}
  BY Zenon DEF Calls
<1> QED BY <1>2

\* What the invariant says of the types.
LEMMA Facts ==
    ASSUME ColumnsInv
    PROVE  /\ names \in Seq(AllNames) /\ Len(names) \in Nat /\ Len(names) # 0
           /\ rows \in Seq(Seq(Values)) /\ Len(rows) \in Nat
           /\ \A k \in 1..Len(rows) : rows[k] \in Seq(Values) /\ Len(rows[k]) = Len(names)
           /\ call \in Calls \cup {NoCall} /\ datafmt \in Seq(AllNames) /\ Len(datafmt) \in Nat
           /\ bufs \in Seq(Buffers) /\ Len(bufs) \in Nat /\ DOMAIN bufs = 1..Len(bufs)
           /\ r \in 0..Len(rows) /\ cnt \in Int /\ i \in 0..Len(names) /\ i \in Nat
           /\ hash \in Seq(Entries) /\ Len(hash) \in Nat /\ DOMAIN hash = 1..Len(hash)
           /\ out \in Seq(Outs) /\ Len(out) \in Nat /\ failures \in 0..MaxFailures
           /\ Reading => call \in Calls /\ cnt <= call.cnt /\ call.cnt \in Int
<1>1. names \in Seq(AllNames) /\ names # <<>> /\ rows \in Seq(Seq(Values))
  BY ResultsAssumption DEF ColumnsInv, TypeInv
<1>2. Len(names) \in Nat /\ Len(names) # 0 /\ Len(rows) \in Nat
  BY <1>1, EmptySeq, LenProperties
<1>3. \A k \in 1..Len(rows) : rows[k] \in Seq(Values) /\ Len(rows[k]) = Len(names)
  BY <1>1, ElementOfSeq DEF ColumnsInv, TypeInv
<1>4. datafmt \in Seq(AllNames)
  <2>1. DOMAIN names = 1..Len(names)
    BY <1>1, LenProperties
  <2>2. {names[k] : k \in DOMAIN names} \subseteq AllNames
    BY <1>1, <2>1, ElementOfSeq
  <2> QED BY <2>2 DEF ColumnsInv, TypeInv, TypeOK
<1>5. bufs \in Seq(Buffers) /\ hash \in Seq(Entries) /\ out \in Seq(Outs)
  BY DEF ColumnsInv, TypeInv
<1>6. /\ Len(datafmt) \in Nat /\ Len(bufs) \in Nat /\ Len(hash) \in Nat /\ Len(out) \in Nat
      /\ DOMAIN bufs = 1..Len(bufs) /\ DOMAIN hash = 1..Len(hash)
  BY <1>4, <1>5, LenProperties
<1>7. /\ call \in Calls \cup {NoCall} /\ r \in 0..Len(rows) /\ cnt \in Int
      /\ i \in 0..Len(names) /\ failures \in 0..MaxFailures
  BY DEF ColumnsInv, TypeInv, TypeOK
<1>8. Reading => call \in Calls /\ cnt <= call.cnt
  BY DEF ColumnsInv, TypeInv
<1>9. \A c \in Calls : c.cnt \in Int
  BY CallsCount
<1>10. i \in Nat
  BY <1>2, <1>7
<1> QED BY <1>1, <1>2, <1>3, <1>4, <1>5, <1>6, <1>7, <1>8, <1>9, <1>10

\* A sequence is one of what its elements are.
LEMMA ElementsOf ==
    ASSUME NEW S, NEW T, NEW s \in Seq(T), \A k \in 1..Len(s) : s[k] \in S
    PROVE  s \in Seq(S)
<1>1. Len(s) \in Nat /\ s \in [1..Len(s) -> T] /\ DOMAIN s = 1..Len(s)
  BY LenProperties
<1>2. s \in [1..Len(s) -> S]
  BY <1>1
<1> QED BY <1>1, <1>2

\* What a step has to do to keep the types.
LEMMA TypeKept ==
    ASSUME ColumnsInv, result' = result, call' \in Calls \cup {NoCall},
           pc' \in {"ready", "describe", "bind", "setup", "fetch", "row", "end"},
           datafmt' \in Seq(AllNames), Len(datafmt') <= Len(names),
           \A k \in 1..Len(datafmt') : datafmt'[k] = names[k],
           dirty' \in BOOLEAN, bufs' \in Seq(Buffers), r' \in 0..Len(rows), cnt' \in Int,
           i' \in 0..Len(names), hash' \in Seq(Entries), out' \in Seq(Outs),
           failures' \in 0..MaxFailures,
           pc' \in {"describe", "bind", "setup", "fetch", "row"} =>
              call' \in Calls /\ cnt' <= call'.cnt
    PROVE  TypeInv'
<1>1. names' = names /\ rows' = rows
  BY DEF result
<1>2. datafmt' \in Seq({names[k] : k \in DOMAIN names})
  <2>1. PICK d : d = datafmt'
    OBVIOUS
  <2>2. PICK S : S = {names[k] : k \in DOMAIN names}
    OBVIOUS
  <2>3. Len(d) \in Nat /\ Len(names) \in Nat /\ DOMAIN names = 1..Len(names)
    BY <2>1, Facts, LenProperties
  <2>4. \A k \in 1..Len(d) : k \in DOMAIN names /\ d[k] = names[k]
    BY <2>1, <2>3
  <2>5. \A k \in 1..Len(d) : d[k] \in S
    BY <2>2, <2>4
  <2>6. d \in Seq(S)
    BY <2>1, <2>5, ElementsOf
  <2> QED BY <1>1, <2>1, <2>2, <2>6
<1>3. \A k \in DOMAIN bufs' : bufs'[k].indicator \in {-1, 0}
  <2>1. DOMAIN bufs' = 1..Len(bufs') /\ \A k \in 1..Len(bufs') : bufs'[k] \in Buffers
    BY LenProperties, ElementOfSeq
  <2> QED BY <2>1 DEF Buffers
<1>4. \A k \in DOMAIN hash' : hash'[k].value.kind \in {"value", "list"}
  <2>1. DOMAIN hash' = 1..Len(hash') /\ \A k \in 1..Len(hash') : hash'[k] \in Entries
    BY LenProperties, ElementOfSeq
  <2> QED BY <2>1 DEF Entries, Held
<1>5. result' \in ColumnLists \X RowLists
  BY DEF ColumnsInv, TypeInv, TypeOK
<1>6. TypeOK'
  BY <1>1, <1>2, <1>3, <1>4, <1>5 DEF TypeOK
<1> QED BY <1>1, <1>6 DEF ColumnsInv, TypeInv, Reading

\* What is defined on the result stays the same.
LEMMA ResultKept ==
    ASSUME result' = result
    PROVE  /\ names' = names /\ rows' = rows
           /\ \A h, ph : Standard(h, ph)' <=> Standard(h, ph)
           /\ \A k, first, last : Cells(k, first, last)' = Cells(k, first, last)
           /\ \A o : Whole(o)' <=> Whole(o)
<1>1. names' = names /\ rows' = rows
  BY DEF result
<1>2. \A h, ph : Standard(h, ph)' <=> Standard(h, ph)
  BY <1>1 DEF Standard, OwnName
<1>3. \A k, first, last : Cells(k, first, last)' = Cells(k, first, last)
  BY <1>1 DEF Cells
<1>4. \A o : Whole(o)' <=> Whole(o)
  BY <1>1, <1>3 DEF Whole
<1> QED BY <1>1, <1>2, <1>3, <1>4

\* Nothing more is handed out.
LEMMA OutKept == ColumnsInv /\ result' = result /\ out' = out => OutInv'
BY ResultKept DEF ColumnsInv, OutInv

\* A hash without columns is by the standard.
LEMMA StandardEmpty == \A ph : Standard(<<>>, ph)
BY EmptySeq DEF Standard

\* A call that fails leaves the columns as far as they are known.
LEMMA RaiseKeeps ==
    ASSUME ColumnsInv, Raise
    PROVE  ColumnsInv'
<1>1. /\ result' = result /\ datafmt' = datafmt /\ dirty' = dirty /\ bufs' = bufs /\ r' = r
      /\ cnt' = cnt /\ out' = out /\ failures < MaxFailures /\ failures' = failures + 1
      /\ pc' = "ready" /\ call' = NoCall /\ hash' = <<>> /\ i' = 0
  BY DEF Raise, columns
<1>2. dirty' \in BOOLEAN
  BY <1>1, Zenon DEF ColumnsInv, TypeInv, TypeOK
<1>3. hash' \in Seq(Entries) /\ failures' \in 0..MaxFailures /\ i' \in 0..Len(names)
  BY <1>1, Facts, EmptySeq, MaxFailuresAssumption
<1>4. Len(datafmt') <= Len(names) /\ \A k \in 1..Len(datafmt') : datafmt'[k] = names[k]
  BY <1>1 DEF ColumnsInv, DescribedInv
<1>5. TypeInv'
  BY <1>1, <1>2, <1>3, <1>4, Facts, TypeKept
<1>6. DescribedInv'
  BY <1>1, ResultKept DEF ColumnsInv, DescribedInv
<1>7. HashInv'
  BY <1>1, StandardEmpty, ResultKept DEF HashInv
<1> QED BY <1>1, <1>5, <1>6, <1>7, OutKept DEF ColumnsInv

\* A call begins with the columns known, or describes them anew.
LEMMA AskKeeps ==
    ASSUME ColumnsInv, NEW c \in Calls, Ask(c)
    PROVE  ColumnsInv'
<1>1. /\ pc = "ready" /\ call' = c /\ cnt' = c.cnt /\ i' = 0
      /\ \/ datafmt' = <<>> /\ dirty' = TRUE /\ pc' = "describe"
         \/ /\ ~dirty /\ datafmt # <<>> /\ datafmt' = datafmt /\ dirty' = dirty
            /\ pc' = IF c.asked THEN "setup" ELSE "fetch"
      /\ result' = result /\ UNCHANGED <<bufs, r, hash, out, failures>>
  BY DEF Ask, Undescribed, AfterColumns, columns
<1>2. dirty' \in BOOLEAN
  <2>1. dirty \in BOOLEAN
    BY DEF ColumnsInv, TypeInv, TypeOK
  <2> QED BY <1>1, <2>1
<1>3. c.cnt \in Int /\ hash = <<>> /\ Len(<<>>) = 0 /\ <<>> \in Seq(AllNames)
  <2>1. hash = <<>>
    BY <1>1 DEF ColumnsInv, HashInv
  <2>2. c.cnt \in Int
    BY CallsCount
  <2> QED BY <2>1, <2>2, EmptySeq
<1>4. /\ datafmt' \in Seq(AllNames) /\ Len(datafmt') <= Len(names)
      /\ \A k \in 1..Len(datafmt') : datafmt'[k] = names[k]
  <2>1. /\ datafmt \in Seq(AllNames) /\ Len(datafmt) <= Len(names) /\ Len(names) \in Nat
        /\ \A k \in 1..Len(datafmt) : datafmt[k] = names[k]
    BY Facts DEF ColumnsInv, DescribedInv
  <2>2. CASE datafmt' = <<>>
    <3>1. Len(datafmt') = 0 /\ datafmt' \in Seq(AllNames)
      BY <1>3, <2>2
    <3> QED BY <2>1, <3>1
  <2>3. CASE datafmt' = datafmt
    BY <2>1, <2>3
  <2> QED BY <1>1, <2>2, <2>3
<1>5. TypeInv'
  <2>1. i' \in 0..Len(names) /\ cnt' \in Int /\ cnt' <= call'.cnt
    BY <1>1, <1>3, Facts
  <2>2. pc' \in {"ready", "describe", "bind", "setup", "fetch", "row", "end"}
    BY <1>1
  <2>3. call' \in Calls /\ UNCHANGED <<bufs, r, hash, out, failures>> /\ result' = result
    BY <1>1
  <2> QED BY <1>2, <1>4, <2>1, <2>2, <2>3, Facts, TypeKept
<1>6. DescribedInv'
  <2>1. names' = names
    BY <1>1, ResultKept
  <2>2. ~dirty => datafmt = names /\ Len(bufs) = Len(names)
    BY DEF ColumnsInv, DescribedInv
  <2> QED BY <1>1, <1>4, <2>1, <2>2 DEF DescribedInv
<1>7. HashInv'
  <2>1. /\ Standard(hash, call.ph)' /\ hash' = <<>> /\ Len(hash') = 0
    BY <1>1, <1>3, StandardEmpty, ResultKept
  <2>2. c.asked => c.shape = "columns"
    BY DEF Calls
  <2> QED BY <1>1, <2>1, <2>2 DEF HashInv
<1> QED BY <1>1, <1>5, <1>6, <1>7, OutKept DEF ColumnsInv

\* The next column is described.
LEMMA DescribeColumnKeeps ==
    ASSUME ColumnsInv, DescribeColumn
    PROVE  ColumnsInv'
<1>1. CASE Raise
  BY <1>1, RaiseKeeps
<1>2. CASE /\ pc = "describe" /\ Len(datafmt) < Len(names)
           /\ datafmt' = Append(datafmt, names[Len(datafmt) + 1])
           /\ UNCHANGED <<result, call, pc, dirty, bufs, r, cnt, i, hash, out, failures>>
  <2>1. PICK d, n : d = datafmt' /\ n = names[Len(datafmt) + 1]
    OBVIOUS
  <2>2. Len(datafmt) \in Nat /\ Len(names) \in Nat /\ Len(datafmt) + 1 \in 1..Len(names)
    BY <1>2, Facts
  <2>3. n \in AllNames
    BY <2>1, <2>2, Facts, ElementOfSeq
  <2>4. /\ d \in Seq(AllNames) /\ Len(d) = Len(datafmt) + 1
        /\ \A k \in 1..Len(datafmt) : d[k] = datafmt[k]
        /\ d[Len(datafmt) + 1] = n
    BY <1>2, <2>1, <2>3, Facts, AppendProperties
  <2>5. \A k \in 1..Len(d) : d[k] = names[k]
    <3>1. \A k \in 1..Len(datafmt) : datafmt[k] = names[k]
      BY DEF ColumnsInv, DescribedInv
    <3>2. \A k \in 1..Len(d) : k \in 1..Len(datafmt) \/ k = Len(datafmt) + 1
      BY <2>2, <2>4
    <3> QED BY <2>1, <2>4, <3>1, <3>2
  <2>6. dirty = TRUE /\ dirty' = TRUE /\ result' = result
    BY <1>2, Zenon DEF ColumnsInv, DescribedInv, TypeInv, TypeOK
  <2>7. TypeInv'
    <3>1. /\ call' = call /\ call \in Calls /\ pc' = "describe" /\ bufs' = bufs /\ r' = r
          /\ cnt' = cnt /\ i' = i /\ hash' = hash /\ out' = out /\ failures' = failures
          /\ cnt <= call.cnt
      BY <1>2 DEF ColumnsInv, TypeInv, Reading
    <3>2. datafmt' \in Seq(AllNames) /\ Len(datafmt') <= Len(names)
          /\ \A k \in 1..Len(datafmt') : datafmt'[k] = names[k]
      BY <2>1, <2>2, <2>4, <2>5
    <3>3. dirty' \in BOOLEAN
      BY <2>6
    <3> QED BY <2>6, <3>1, <3>2, <3>3, Facts, TypeKept
  <2>8. DescribedInv'
    <3>1. Len(datafmt') <= Len(names) /\ \A k \in 1..Len(datafmt') : datafmt'[k] = names[k]
      BY <2>1, <2>2, <2>4, <2>5
    <3> QED BY <1>2, <2>6, <3>1, ResultKept DEF DescribedInv
  <2>9. HashInv'
    BY <1>2, ResultKept DEF ColumnsInv, HashInv
  <2> QED BY <1>2, <2>7, <2>8, <2>9, OutKept DEF ColumnsInv
<1> QED BY <1>1, <1>2 DEF DescribeColumn

\* All the columns are described; they are bound one after the other.
LEMMA BindingKeeps ==
    ASSUME ColumnsInv, ResetBuffers \/ BindBuffer \/ ColumnsKnown
    PROVE  ColumnsInv'
<1>1. CASE Raise
  BY <1>1, RaiseKeeps
<1>2. CASE /\ pc \in {"describe", "bind"} /\ datafmt = names /\ Len(datafmt) = Len(names)
           /\ bufs' \in Seq(Buffers) /\ Len(bufs') <= Len(names)
           /\ \/ pc' = "bind" /\ dirty' = dirty
              \/ pc' = AfterColumns(call) /\ dirty' = FALSE /\ Len(bufs') = Len(names)
           /\ UNCHANGED <<result, call, datafmt, r, cnt, i, hash, out, failures>>
  <2>1. /\ dirty = TRUE /\ result' = result /\ names' = names /\ dirty' \in BOOLEAN
    <3>1. dirty = TRUE
      BY <1>2, Zenon DEF ColumnsInv, DescribedInv, TypeInv, TypeOK
    <3> QED BY <1>2, <3>1, ResultKept
  <2>2. /\ call \in Calls /\ cnt = call.cnt /\ i = 0 /\ hash = <<>> /\ Len(hash) = 0
        /\ pc' = "bind" \/ pc' = IF call.asked THEN "setup" ELSE "fetch"
    BY <1>2, EmptySeq DEF ColumnsInv, TypeInv, Reading, HashInv, AfterColumns
  <2>3. call.asked => call.shape = "columns"
    BY <2>2 DEF Calls
  <2>4. TypeInv'
    <3>1. pc' \in {"ready", "describe", "bind", "setup", "fetch", "row", "end"}
      BY <2>2
    <3>2. Len(datafmt') <= Len(names) /\ \A k \in 1..Len(datafmt') : datafmt'[k] = names[k]
      BY <1>2, Facts
    <3>3. /\ call' = call /\ datafmt' = datafmt /\ r' = r /\ cnt' = cnt /\ i' = i
          /\ hash' = hash /\ out' = out /\ failures' = failures /\ cnt <= call.cnt
      BY <1>2, <2>2, Facts
    <3> QED BY <1>2, <2>1, <2>2, <3>1, <3>2, <3>3, Facts, TypeKept
  <2>5. DescribedInv'
    <3>1. Len(names) \in Nat
      BY Facts
    <3>2. \/ pc' = "bind" /\ dirty' = TRUE
          \/ pc' \in {"setup", "fetch"} /\ dirty' = FALSE /\ Len(bufs') = Len(names)
      BY <1>2, <2>1 DEF AfterColumns
    <3>3. /\ datafmt' = names' /\ Len(datafmt') = Len(names') /\ Len(bufs') <= Len(names')
          /\ \A k \in 1..Len(datafmt') : datafmt'[k] = names'[k]
      BY <1>2, <2>1
    <3> QED BY <2>1, <3>1, <3>2, <3>3 DEF DescribedInv
  <2>6. HashInv'
    <3>1. /\ call' = call /\ cnt' = cnt /\ i' = i /\ hash' = hash
          /\ Standard(hash, call.ph)' /\ Len(hash') = 0
      BY <1>2, <2>2, StandardEmpty, ResultKept
    <3> QED BY <2>2, <2>3, <3>1 DEF HashInv
  <2> QED BY <1>2, <2>1, <2>4, <2>5, <2>6, OutKept DEF ColumnsInv
<1>3. CASE ResetBuffers
  <2>1. datafmt = names
    BY <1>3, Facts, SeqEqual DEF ResetBuffers, ColumnsInv, DescribedInv
  <2>2. bufs' \in Seq(Buffers) /\ Len(bufs') = 0 /\ Len(names) \in Nat
    BY <1>3, Facts, EmptySeq DEF ResetBuffers
  <2>3. /\ pc = "describe" /\ Len(datafmt) = Len(names) /\ pc' = "bind" /\ dirty' = dirty
        /\ UNCHANGED <<result, call, datafmt, r, cnt, i, hash, out, failures>>
    BY <1>3 DEF ResetBuffers, columns
  <2> QED BY <1>2, <2>1, <2>2, <2>3
<1>4. CASE /\ pc = "bind" /\ Len(bufs) < Len(datafmt)
           /\ bufs' = Append(bufs, [value |-> Null, indicator |-> 0])
           /\ UNCHANGED <<result, call, pc, columns, r, cnt, i, hash, out, failures>>
  <2>1. datafmt = names
    BY <1>4 DEF ColumnsInv, DescribedInv
  <2>2. PICK b : b = [value |-> Null, indicator |-> 0]
    OBVIOUS
  <2>3. b \in Buffers
    BY <2>2, ResultsAssumption DEF Buffers
  <2>4. bufs' \in Seq(Buffers) /\ Len(bufs') = Len(bufs) + 1
    BY <1>4, <2>2, <2>3, Facts, AppendProperties
  <2>5. Len(bufs') <= Len(names) /\ Len(datafmt) = Len(names)
    BY <1>4, <2>1, <2>4, Facts
  <2>6. /\ pc' = "bind" /\ dirty' = dirty
        /\ UNCHANGED <<result, call, datafmt, r, cnt, i, hash, out, failures>>
    BY <1>4 DEF columns
  <2> QED BY <1>2, <1>4, <2>1, <2>4, <2>5, <2>6
<1>5. CASE ColumnsKnown
  <2>1. datafmt = names
    BY <1>5 DEF ColumnsKnown, ColumnsInv, DescribedInv
  <2>2. /\ pc = "bind" /\ Len(bufs) = Len(names) /\ Len(datafmt) = Len(names)
        /\ dirty' = FALSE /\ pc' = AfterColumns(call) /\ bufs' = bufs
        /\ UNCHANGED <<result, call, datafmt, r, cnt, i, hash, out, failures>>
    BY <1>5, <2>1 DEF ColumnsKnown
  <2>3. Len(bufs') <= Len(names)
    BY <2>2, Facts
  <2> QED BY <1>2, <2>1, <2>2, <2>3, Facts
<1> QED BY <1>1, <1>3, <1>4, <1>5 DEF BindBuffer

\* A row, of which there is one more.
LEMMA CellsMore ==
    ASSUME NEW k, NEW first \in Int, NEW last \in Int, first <= last,
           NEW s \in Seq(Values), s = Cells(k, first, last - 1),
           NEW v \in Values, v = rows[last][k]
    PROVE  Append(s, v) = Cells(k, first, last)
<1>1. PICK n \in Nat : n = last - first
  OBVIOUS
<1>2. (last - 1) - first + 1 = n /\ last - first + 1 = n + 1 /\ first + (n + 1) - 1 = last
  BY <1>1
<1>3. /\ s = [m \in 1..n |-> rows[first + m - 1][k]]
      /\ Cells(k, first, last) = [m \in 1..n + 1 |-> rows[first + m - 1][k]]
  BY <1>2 DEF Cells
<1>4. Len(s) = n
  <2>1. DOMAIN s = 1..Len(s) /\ DOMAIN s = 1..n /\ Len(s) \in Nat
    BY <1>3, LenProperties
  <2> QED BY <2>1
<1>5. PICK t : t = Append(s, v)
  OBVIOUS
<1>6. /\ t \in Seq(Values) /\ Len(t) = n + 1 /\ t[n + 1] = v
      /\ \A m \in 1..n : t[m] = s[m]
  BY <1>4, <1>5, AppendProperties
<1>7. \A m \in 1..n + 1 : t[m] = rows[first + m - 1][k]
  <2>1. TAKE m \in 1..n + 1
  <2>2. m \in 1..n \/ m = n + 1
    OBVIOUS
  <2>3. CASE m \in 1..n
    BY <1>3, <1>6, <2>3
  <2>4. CASE m = n + 1
    BY <1>2, <1>6, <2>4
  <2> QED BY <2>2, <2>3, <2>4
<1>8. t \in [1..n + 1 -> Values]
  BY <1>6, LenProperties
<1>9. t = [m \in 1..n + 1 |-> rows[first + m - 1][k]]
  BY <1>7, <1>8
<1> QED BY <1>3, <1>5, <1>9

\* No row.
LEMMA CellsNone ==
    ASSUME NEW k, NEW first \in Int
    PROVE  Cells(k, first, first - 1) = <<>>
<1>1. 1..(first - 1) - first + 1 = {}
  OBVIOUS
<1>2. \A f : DOMAIN f = {} /\ f = [m \in {} |-> f[m]] => f = <<>>
  OBVIOUS
<1> QED BY <1>1, <1>2 DEF Cells

\* A column is put behind the ones before it.
LEMMA WithColumnIs ==
    ASSUME ColumnsInv, pc \in {"setup", "row"}, i < Len(datafmt), Len(hash) = i,
           NEW v \in Held, NEW g, g = WithColumn(v)
    PROVE  /\ Standard(g, call.ph) /\ g \in Seq(Entries) /\ Len(g) = i + 1
           /\ \A k \in 1..i : g[k] = hash[k]
           /\ g[i + 1].value = v
<1>1. datafmt = names /\ call \in Calls
  BY Facts, Zenon DEF ColumnsInv, DescribedInv, Reading
<1>2. i + 1 \in 1..Len(names)
  BY <1>1, Facts
<1>3. OwnName(i + 1, call.ph) \in AllNames /\ BaseName(i + 1) = OwnName(i + 1, call.ph)
  BY <1>1, <1>2, OwnNameIs DEF ColumnsInv
<1>4. g = Assigned(hash, UniqueName(hash, OwnName(i + 1, call.ph)), v)
  BY <1>3 DEF WithColumn
<1>5. Standard(hash, call.ph)
  BY DEF ColumnsInv, HashInv
<1>6. hash \in Seq(Entries) /\ i + 1 = Len(hash) + 1
  BY Facts
<1>7. PICK ph, k : ph = call.ph /\ k = i + 1
  OBVIOUS
<1>8. /\ Standard(g, ph) /\ g \in Seq(Entries) /\ Len(g) = Len(hash) + 1
      /\ \A j \in 1..Len(hash) : g[j] = hash[j]
      /\ g[Len(hash) + 1].value = v
  BY <1>3, <1>4, <1>5, <1>6, <1>7, StandardMore
<1> QED BY <1>7, <1>8

\* The lists of the columns are set up.
LEMMA SetupColumnKeeps ==
    ASSUME ColumnsInv, SetupColumn
    PROVE  ColumnsInv'
<1>1. /\ pc = "setup" /\ pc' = "setup" /\ i < Len(datafmt) /\ hash' = WithColumn(NewList)
      /\ i' = i + 1 /\ result' = result
      /\ UNCHANGED <<call, datafmt, dirty, bufs, r, cnt, out, failures>>
  BY DEF SetupColumn, columns
<1>2. /\ call.shape = "columns" /\ cnt = call.cnt /\ Len(hash) = i
      /\ \A k \in 1..Len(hash) : hash[k].value.items = <<>>
      /\ ~call.asked => RowInBuffers
  BY <1>1 DEF ColumnsInv, HashInv
<1>3. NewList \in Held
  BY EmptySeq DEF NewList, Held
<1>4. PICK g : g = hash'
  OBVIOUS
<1>5. /\ Standard(g, call.ph) /\ g \in Seq(Entries) /\ Len(g) = i + 1
      /\ \A k \in 1..i : g[k] = hash[k]
      /\ g[i + 1].value = NewList
  BY <1>1, <1>2, <1>3, <1>4, WithColumnIs
<1>6. datafmt = names /\ dirty' = dirty
  BY <1>1, Zenon DEF ColumnsInv, DescribedInv
<1>7. TypeInv'
  <2>1. i' \in 0..Len(names) /\ call \in Calls /\ cnt <= call.cnt
    BY <1>1, <1>6, Facts DEF Reading
  <2>2. dirty' \in BOOLEAN
    BY <1>6, Zenon DEF ColumnsInv, TypeInv, TypeOK
  <2>3. Len(datafmt') <= Len(names) /\ \A k \in 1..Len(datafmt') : datafmt'[k] = names[k]
    BY <1>1, <1>6, Facts
  <2>4. /\ call' = call /\ datafmt' = datafmt /\ bufs' = bufs /\ r' = r /\ cnt' = cnt
        /\ out' = out /\ failures' = failures /\ hash' \in Seq(Entries)
        /\ pc' \in {"ready", "describe", "bind", "setup", "fetch", "row", "end"}
    BY <1>1, <1>4, <1>5
  <2> QED BY <1>1, <2>1, <2>2, <2>3, <2>4, Facts, TypeKept
<1>8. DescribedInv'
  BY <1>1, ResultKept DEF ColumnsInv, DescribedInv
<1>9. HashInv'
  <2>1. Standard(hash, call.ph)'
    BY <1>1, <1>4, <1>5, ResultKept
  <2>2. \A k \in 1..Len(hash') : hash'[k].value.items = <<>>
    <3>1. i \in Nat
      BY Facts
    <3>2. \A k \in 1..i + 1 : k \in 1..i \/ k = i + 1
      BY <3>1
    <3> QED BY <1>2, <1>4, <1>5, <3>2 DEF NewList
  <2>3. ~call'.asked => RowInBuffers'
    BY <1>1, <1>2, ResultKept DEF RowInBuffers
  <2>4. call'.shape = "columns" /\ cnt' = call'.cnt /\ Len(hash') = i' /\ pc' = "setup"
    BY <1>1, <1>2, <1>4, <1>5
  <2> QED BY <2>1, <2>2, <2>3, <2>4 DEF HashInv
<1> QED BY <1>1, <1>7, <1>8, <1>9, OutKept DEF ColumnsInv

\* Then the first row is waited for, or it is in the buffers already.
LEMMA SetupDoneKeeps ==
    ASSUME ColumnsInv, SetupDone
    PROVE  ColumnsInv'
<1>1. /\ pc = "setup" /\ i = Len(datafmt) /\ i' = 0
      /\ pc' = IF call.asked THEN "fetch" ELSE "row"
      /\ result' = result
      /\ UNCHANGED <<call, datafmt, dirty, bufs, r, cnt, hash, out, failures>>
  BY DEF SetupDone, columns
<1>2. /\ call.shape = "columns" /\ cnt = call.cnt /\ Len(hash) = i
      /\ \A k \in 1..Len(hash) : hash[k].value.items = <<>>
      /\ ~call.asked => RowInBuffers
  BY <1>1 DEF ColumnsInv, HashInv
<1>3. datafmt = names /\ dirty' = dirty /\ Len(hash) = Len(names)
  BY <1>1, <1>2, Zenon DEF ColumnsInv, DescribedInv
<1>4. TypeInv'
  <2>1. i' \in 0..Len(names) /\ call \in Calls /\ cnt <= call.cnt
    BY <1>1, Facts DEF Reading
  <2>2. dirty' \in BOOLEAN
    BY <1>3, Zenon DEF ColumnsInv, TypeInv, TypeOK
  <2>3. Len(datafmt') <= Len(names) /\ \A k \in 1..Len(datafmt') : datafmt'[k] = names[k]
    BY <1>1, <1>3, Facts
  <2>4. /\ call' = call /\ datafmt' = datafmt /\ bufs' = bufs /\ r' = r /\ cnt' = cnt
        /\ out' = out /\ failures' = failures /\ hash' = hash
        /\ pc' \in {"ready", "describe", "bind", "setup", "fetch", "row", "end"}
    BY <1>1
  <2> QED BY <1>1, <2>1, <2>2, <2>3, <2>4, Facts, TypeKept
<1>5. DescribedInv'
  <2>1. pc' \in {"fetch", "row"} /\ pc \in {"setup", "fetch", "row"}
    BY <1>1
  <2>2. ~dirty
    BY <2>1 DEF ColumnsInv, DescribedInv
  <2> QED BY <1>1, <2>1, <2>2, ResultKept DEF ColumnsInv, DescribedInv
<1>6. HashInv'
  <2>1. Standard(hash, call.ph)'
    BY <1>1, ResultKept DEF ColumnsInv, HashInv
  <2>2. r \in Int /\ r' = r /\ cnt \in Int /\ cnt' = cnt /\ call'.cnt = cnt /\ names' = names
    BY <1>1, <1>2, Facts, ResultKept
  <2>3. \A k : Cells(k, r + 1, r) = <<>> /\ Cells(k, r, r - 1) = <<>>
    <3>1. r + 1 \in Int /\ (r + 1) - 1 = r
      BY <2>2
    <3> QED BY <2>2, <3>1, CellsNone
  <2>4. CASE call.asked
    <3>1. pc' = "fetch" /\ call'.shape = "columns" /\ Len(hash') = Len(names')
      BY <1>1, <1>2, <1>3, <2>2, <2>4
    <3>2. r' - (call'.cnt - cnt') + 1 = r + 1
      BY <2>2
    <3>3. \A k \in 1..Len(hash') :
             hash'[k].value.items = Cells(k, r - (call.cnt - cnt) + 1, r)'
      BY <1>1, <1>2, <2>2, <2>3, <3>2, ResultKept
    <3> QED BY <2>1, <3>1, <3>3 DEF HashInv
  <2>5. CASE ~call.asked
    <3>1. pc' = "row" /\ call'.shape = "columns" /\ Len(hash') = Len(names')
      BY <1>1, <1>2, <1>3, <2>2, <2>5
    <3>2. r' - (call'.cnt - cnt') = r
      BY <2>2
    <3>3. \A k \in 1..Len(hash') :
             hash'[k].value.items =
                 Cells(k, r - (call.cnt - cnt), IF k <= i THEN r ELSE r - 1)'
      <4>1. \A k \in 1..Len(hash') : ~(k <= i')
        BY <1>1
      <4> QED BY <1>1, <1>2, <2>2, <2>3, <3>2, <4>1, ResultKept
    <3>4. RowInBuffers'
      BY <1>1, <1>2, <2>5, ResultKept DEF RowInBuffers
    <3> QED BY <2>1, <3>1, <3>3, <3>4 DEF HashInv
  <2> QED BY <2>4, <2>5
<1> QED BY <1>1, <1>4, <1>5, <1>6, OutKept DEF ColumnsInv

\* What a buffer holds is the value it was filled with.
LEMMA FilledIs ==
    ASSUME NEW b \in Buffers, NEW v \in Values
    PROVE  Filled(b, v) \in Buffers /\ GetValue(Filled(b, v)) = Value(v)
<1>1. PICK w \in Values, n \in {-1, 0} : b = [value |-> w, indicator |-> n]
  BY DEF Buffers
<1>2. CASE v = Null
  <2>1. Filled(b, v) = [value |-> w, indicator |-> -1]
    BY <1>1, <1>2 DEF Filled
  <2> QED BY <1>2, <2>1 DEF Buffers, GetValue
<1>3. CASE v # Null
  <2>1. Filled(b, v) = [value |-> v, indicator |-> 0]
    BY <1>3 DEF Filled
  <2> QED BY <2>1 DEF Buffers, GetValue
<1> QED BY <1>2, <1>3

\* The next row is in the buffers.
LEMMA FetchRowKeeps ==
    ASSUME ColumnsInv, FetchRow
    PROVE  ColumnsInv'
<1>1. CASE Raise
  BY <1>1, RaiseKeeps
<1>2. CASE /\ pc = "fetch" /\ r < Len(rows)
           /\ bufs' = [k \in DOMAIN bufs |-> Filled(bufs[k], rows[r + 1][k])]
           /\ r' = r + 1 /\ i' = 0
           /\ pc' = IF call.shape = "columns" /\ hash = <<>> THEN "setup" ELSE "row"
           /\ UNCHANGED <<result, call, columns, cnt, hash, out, failures>>
  <2>1. /\ result' = result /\ names' = names /\ rows' = rows
        /\ UNCHANGED <<call, datafmt, dirty, cnt, hash, out, failures>>
    BY <1>2, ResultKept DEF columns
  <2>2. datafmt = names /\ Len(bufs) = Len(names) /\ ~dirty
    BY <1>2, Zenon DEF ColumnsInv, DescribedInv
  <2>3. r' \in 1..Len(rows) /\ r + 1 \in 1..Len(rows)
    BY <1>2, Facts
  <2>4. \A k \in 1..Len(names) : bufs[k] \in Buffers /\ rows[r + 1][k] \in Values
    <3>1. rows[r + 1] \in Seq(Values) /\ Len(rows[r + 1]) = Len(names)
      BY <2>3, Facts
    <3> QED BY <2>2, <3>1, Facts, ElementOfSeq
  <2>5. PICK b : b = bufs'
    OBVIOUS
  <2>6. /\ b \in Seq(Buffers) /\ Len(b) = Len(names)
        /\ \A k \in 1..Len(names) : GetValue(b[k]) = Value(rows[r + 1][k])
    <3>1. PICK n \in Nat : n = Len(names)
      BY Facts
    <3>2. DOMAIN bufs = 1..n
      BY <2>2, <3>1, Facts
    <3>3. \A k \in 1..n : /\ Filled(bufs[k], rows[r + 1][k]) \in Buffers
                          /\ GetValue(Filled(bufs[k], rows[r + 1][k])) = Value(rows[r + 1][k])
      BY <2>4, <3>1, FilledIs
    <3>4. b = [k \in 1..n |-> Filled(bufs[k], rows[r + 1][k])]
      BY <1>2, <2>5, <3>2
    <3>5. b \in [1..n -> Buffers] /\ \A k \in 1..n : b[k] = Filled(bufs[k], rows[r + 1][k])
      BY <3>3, <3>4
    <3>6. b \in Seq(Buffers) /\ Len(b) = n
      BY <3>5
    <3> QED BY <3>1, <3>3, <3>5, <3>6
  <2>7. RowInBuffers'
    BY <1>2, <2>1, <2>3, <2>5, <2>6 DEF RowInBuffers, GetValue, Value
  <2>8. TypeInv'
    <3>1. /\ i' \in 0..Len(names) /\ call \in Calls /\ cnt <= call.cnt /\ r' \in 0..Len(rows)
          /\ pc' \in {"ready", "describe", "bind", "setup", "fetch", "row", "end"}
      BY <1>2, <2>3, Facts DEF Reading
    <3>2. dirty' \in BOOLEAN
      BY <2>1, Zenon DEF ColumnsInv, TypeInv, TypeOK
    <3>3. Len(datafmt') <= Len(names) /\ \A k \in 1..Len(datafmt') : datafmt'[k] = names[k]
      BY <2>1, <2>2, Facts
    <3>4. /\ call' = call /\ datafmt' = datafmt /\ bufs' \in Seq(Buffers) /\ cnt' = cnt
          /\ out' = out /\ failures' = failures /\ hash' = hash
      BY <2>1, <2>5, <2>6
    <3> QED BY <2>1, <3>1, <3>2, <3>3, <3>4, Facts, TypeKept
  <2>9. DescribedInv'
    <3>1. pc' \in {"setup", "row"}
      BY <1>2
    <3>2. /\ datafmt' = names' /\ Len(datafmt') <= Len(names') /\ Len(bufs') = Len(names')
          /\ ~dirty' /\ \A k \in 1..Len(datafmt') : datafmt'[k] = names'[k]
      BY <2>1, <2>2, <2>5, <2>6, Facts
    <3> QED BY <3>1, <3>2 DEF DescribedInv
  <2>10. HashInv'
    <3>1. Standard(hash, call.ph)'
      BY <2>1, ResultKept DEF ColumnsInv, HashInv
    <3>2. \/ hash = <<>> /\ (call.shape = "columns" => ~call.asked /\ cnt = call.cnt)
          \/ /\ call.shape = "columns" /\ Len(hash) = Len(names)
             /\ \A k \in 1..Len(hash) :
                   hash[k].value.items = Cells(k, r - (call.cnt - cnt) + 1, r)
      BY <1>2 DEF ColumnsInv, HashInv
    <3>3. /\ call.shape \in {"rows", "columns"} /\ Len(<<>>) = 0 /\ Len(names) # 0
          /\ r \in Int /\ cnt \in Int /\ call.cnt \in Int
      <4>1. call \in Calls /\ call.cnt \in Int
        BY <1>2, Facts DEF Reading
      <4>2. call.shape \in {"rows", "columns"}
        BY <4>1 DEF Calls
      <4> QED BY <4>1, <4>2, Facts, EmptySeq
    <3>4. CASE call.shape = "columns" /\ hash = <<>>
      <4>1. pc' = "setup" /\ call'.shape = "columns" /\ cnt' = call'.cnt /\ Len(hash') = i'
        BY <1>2, <2>1, <3>2, <3>3, <3>4
      <4>2. Len(hash') = 0
        BY <2>1, <3>3, <3>4
      <4> QED BY <2>7, <3>1, <4>1, <4>2 DEF HashInv
    <3>5. CASE call.shape = "rows"
      <4>1. pc' = "row" /\ call'.shape = "rows" /\ Len(hash') = i' /\ Len(hash') = 0
        BY <1>2, <2>1, <3>2, <3>3, <3>5
      <4> QED BY <2>7, <3>1, <4>1 DEF HashInv
    <3>6. CASE call.shape = "columns" /\ hash # <<>>
      <4>1. pc' = "row" /\ call'.shape = "columns" /\ Len(hash') = Len(names')
        BY <1>2, <2>1, <3>2, <3>6
      <4>2. r' - (call'.cnt - cnt') = r - (call.cnt - cnt) + 1 /\ r' - 1 = r
        BY <1>2, <2>1, <3>3
      <4>3. \A k \in 1..Len(hash') :
               hash'[k].value.items =
                   Cells(k, r - (call.cnt - cnt), IF k <= i THEN r ELSE r - 1)'
        <5>1. \A k \in 1..Len(hash') : ~(k <= i')
          BY <1>2
        <5> QED BY <2>1, <3>2, <3>6, <4>2, <5>1, ResultKept
      <4> QED BY <2>7, <3>1, <4>1, <4>3 DEF HashInv
    <3> QED BY <3>3, <3>4, <3>5, <3>6
  <2> QED BY <2>1, <2>8, <2>9, <2>10, OutKept DEF ColumnsInv
<1> QED BY <1>1, <1>2 DEF FetchRow

\* An element of a sequence is replaced.
LEMMA ElementReplaced ==
    ASSUME NEW S, NEW h \in Seq(S), NEW n \in 1..Len(h), NEW e \in S,
           NEW g, g = [h EXCEPT ![n] = e]
    PROVE  /\ g \in Seq(S) /\ Len(g) = Len(h)
           /\ \A k \in 1..Len(h) : g[k] = IF k = n THEN e ELSE h[k]
BY ExceptSeq

\* A value is added to one list of the hash.
Longer(h, n, v) == [h EXCEPT ![n].value.items = @ \o <<v>>]

\* The keys and the other lists are what they were.
LEMMA ListLonger ==
    ASSUME NEW h \in Seq(Entries), NEW n \in 1..Len(h), NEW v \in Values,
           NEW g, g = Longer(h, n, v)
    PROVE  /\ g \in Seq(Entries) /\ Len(g) = Len(h)
           /\ \A k \in 1..Len(h) : g[k].key = h[k].key
           /\ \A k \in 1..Len(h) :
                 g[k].value.items = IF k = n THEN Append(h[k].value.items, v)
                                    ELSE h[k].value.items
<1>1. h[n] \in Entries
  BY ElementOfSeq
<1>2. PICK key \in AllNames, held \in Held : h[n] = [key |-> key, value |-> held]
  BY <1>1 DEF Entries
<1>3. PICK kind \in {"value", "list"}, items \in Seq(Values) :
           held = [kind |-> kind, items |-> items]
  BY DEF Held
<1>4. PICK x : x = h[n]
  OBVIOUS
<1>5. x = [key |-> key, value |-> held] /\ x.value = held /\ held.items = items
  BY <1>2, <1>3, <1>4
<1>6. PICK longer \in Seq(Values) : longer = Append(items, v) /\ items \o <<v>> = longer
  BY AppendProperties, AppendIsConcat
<1>7. PICK new : new = [held EXCEPT !.items = longer]
  OBVIOUS
<1>8. new = [kind |-> kind, items |-> longer] /\ new \in Held /\ new.items = longer
  BY <1>3, <1>7 DEF Held
<1>9. PICK e : e = [key |-> key, value |-> new]
  OBVIOUS
<1>10. e \in Entries /\ e.key = key /\ e.value.items = longer
  BY <1>8, <1>9 DEF Entries
<1>11. g = [h EXCEPT ![n] = e]
  <2>1. [x EXCEPT !.value = new] = e
    BY <1>5, <1>9
  <2>2. [x.value EXCEPT !.items = x.value.items \o <<v>>] = new
    BY <1>5, <1>6, <1>7
  <2>3. g = [h EXCEPT ![n] = [x EXCEPT !.value =
                                 [x.value EXCEPT !.items = x.value.items \o <<v>>]]]
    BY <1>4 DEF Longer
  <2> QED BY <2>1, <2>2, <2>3
<1>12. /\ g \in Seq(Entries) /\ Len(g) = Len(h)
       /\ \A k \in 1..Len(h) : g[k] = IF k = n THEN e ELSE h[k]
  BY <1>10, <1>11, ElementReplaced
<1>13. ASSUME NEW k \in 1..Len(h)
       PROVE  /\ g[k].key = h[k].key
              /\ g[k].value.items = IF k = n THEN Append(h[k].value.items, v)
                                    ELSE h[k].value.items
  <2>1. CASE k = n
    <3>1. g[k] = e /\ h[k] = x
      BY <1>4, <1>12, <2>1
    <3>2. h[k].key = key /\ h[k].value.items = items
      BY <1>5, <3>1
    <3> QED BY <1>6, <1>10, <2>1, <3>1, <3>2
  <2>2. CASE k # n
    BY <1>12, <2>2
  <2> QED BY <2>1, <2>2
<1> QED BY <1>12, <1>13

\* The next value of the row goes under the key of its column.
LEMMA RowColumnKeeps ==
    ASSUME ColumnsInv, RowColumn
    PROVE  ColumnsInv'
<1>1. CASE Raise
  BY <1>1, RaiseKeeps
<1>2. CASE /\ pc = "row" /\ i < Len(datafmt)
           /\ hash' = IF call.shape = "rows" THEN WithColumn(GetValue(bufs[i + 1]))
                      ELSE [hash EXCEPT ![i + 1].value.items =
                               @ \o GetValue(bufs[i + 1]).items]
           /\ i' = i + 1
           /\ UNCHANGED <<result, call, pc, columns, bufs, r, cnt, out, failures>>
  <2>1. /\ result' = result /\ names' = names /\ rows' = rows /\ pc' = "row"
        /\ UNCHANGED <<call, datafmt, dirty, bufs, r, cnt, out, failures>>
    BY <1>2, ResultKept DEF columns
  <2>2. datafmt = names /\ ~dirty
    BY <1>2, Zenon DEF ColumnsInv, DescribedInv
  <2>3. i + 1 \in 1..Len(names) /\ i \in Nat /\ call \in Calls /\ cnt <= call.cnt
    BY <1>2, <2>2, Facts DEF Reading
  <2>4. call.shape \in {"rows", "columns"}
    BY <2>3 DEF Calls
  <2>5. RowInBuffers /\ Standard(hash, call.ph)
    BY <1>2 DEF ColumnsInv, HashInv
  <2>6. PICK v : v = rows[r][i + 1]
    OBVIOUS
  <2>7. v \in Values /\ GetValue(bufs[i + 1]) = [kind |-> "value", items |-> <<v>>]
    <3>1. r \in 1..Len(rows)
      BY <2>5 DEF RowInBuffers
    <3>2. rows[r] \in Seq(Values) /\ Len(rows[r]) = Len(names)
      BY <3>1, Facts
    <3>3. v \in Values
      BY <2>3, <2>6, <3>2, ElementOfSeq
    <3>4. GetValue(bufs[i + 1]) = Value(v)
      BY <2>3, <2>5, <2>6 DEF RowInBuffers
    <3> QED BY <3>3, <3>4 DEF Value
  <2>8. r \in Int /\ cnt \in Int /\ call.cnt \in Int
    BY <2>3, Facts, CallsCount
  <2>9. PICK g : g = hash'
    OBVIOUS
  <2>10. hash' \in Seq(Entries) => TypeInv' /\ DescribedInv'
    <3>1. SUFFICES ASSUME hash' \in Seq(Entries)
                   PROVE  TypeInv' /\ DescribedInv'
      OBVIOUS
    <3>2. /\ i' \in 0..Len(names)
          /\ pc' \in {"ready", "describe", "bind", "setup", "fetch", "row", "end"}
      BY <1>2, <2>1, <2>3
    <3>3. dirty' \in BOOLEAN
      BY <2>1, Zenon DEF ColumnsInv, TypeInv, TypeOK
    <3>4. Len(datafmt') <= Len(names) /\ \A k \in 1..Len(datafmt') : datafmt'[k] = names[k]
      BY <2>1, <2>2, Facts
    <3>5. TypeInv'
      BY <2>1, <2>3, <3>1, <3>2, <3>3, <3>4, Facts, TypeKept
    <3>6. DescribedInv'
      BY <1>2, <2>1 DEF ColumnsInv, DescribedInv
    <3> QED BY <3>5, <3>6
  <2>11. RowInBuffers'
    BY <2>1, <2>5 DEF RowInBuffers
  <2>12. CASE call.shape = "rows"
    <3>1. /\ Len(hash) = i
          /\ \A k \in 1..Len(hash) : hash[k].value.items = Cells(k, r, r)
      BY <1>2, <2>12 DEF ColumnsInv, HashInv
    <3>2. PICK held : held = GetValue(bufs[i + 1])
      OBVIOUS
    <3>3. held \in Held /\ held.items = <<v>>
      BY <2>7, <3>2 DEF Held
    <3>4. /\ Standard(g, call.ph) /\ g \in Seq(Entries) /\ Len(g) = i + 1
          /\ \A k \in 1..i : g[k] = hash[k]
          /\ g[i + 1].value = held
      BY <1>2, <2>9, <2>12, <3>1, <3>2, <3>3, WithColumnIs
    <3>5. <<v>> = Cells(i + 1, r, r)
      <4>1. PICK e \in Seq(Values) : e = <<>>
        BY EmptySeq
      <4>2. e = Cells(i + 1, r, r - 1)
        BY <2>8, <4>1, CellsNone
      <4>3. Append(e, v) = Cells(i + 1, r, r)
        BY <2>6, <2>7, <2>8, <4>2, CellsMore
      <4>4. Append(e, v) = <<v>>
        BY <4>1
      <4> QED BY <4>3, <4>4
    <3>6. \A k \in 1..Len(g) : g[k].value.items = Cells(k, r, r)
      <4>1. \A k \in 1..i + 1 : k \in 1..i \/ k = i + 1
        BY <2>3
      <4> QED BY <3>1, <3>3, <3>4, <3>5, <4>1
    <3>7. Standard(hash, call.ph)'
      BY <2>1, <2>9, <3>4, ResultKept
    <3>8. \A k \in 1..Len(hash') : hash'[k].value.items = Cells(k, r, r)'
      BY <2>1, <2>9, <3>6, ResultKept
    <3>9. pc' = "row" /\ call'.shape = "rows" /\ Len(hash') = i'
      BY <1>2, <2>1, <2>9, <2>12, <3>4
    <3>10. HashInv'
      BY <2>11, <3>7, <3>8, <3>9 DEF HashInv
    <3> QED BY <2>1, <2>9, <2>10, <3>4, <3>10, OutKept DEF ColumnsInv
  <2>13. CASE call.shape = "columns"
    <3>1. PICK first : first = r - (call.cnt - cnt)
      OBVIOUS
    <3>2. /\ Len(hash) = Len(names)
          /\ \A k \in 1..Len(hash) :
               hash[k].value.items = Cells(k, first, IF k <= i THEN r ELSE r - 1)
      BY <1>2, <2>13, <3>1 DEF ColumnsInv, HashInv
    <3>3. first \in Int /\ first <= r
      BY <2>3, <2>8, <3>1
    <3>4. i + 1 \in 1..Len(hash) /\ hash \in Seq(Entries)
      BY <2>3, <3>2, Facts
    <3>5. g = Longer(hash, i + 1, v)
      <4>1. PICK one : one = <<v>>
        OBVIOUS
      <4>2. GetValue(bufs[i + 1]).items = one
        BY <2>7, <4>1
      <4>3. g = [hash EXCEPT ![i + 1].value.items = @ \o GetValue(bufs[i + 1]).items]
        BY <1>2, <2>9, <2>13
      <4> QED BY <4>1, <4>2, <4>3 DEF Longer
    <3>6. /\ g \in Seq(Entries) /\ Len(g) = Len(hash)
          /\ \A k \in 1..Len(hash) : g[k].key = hash[k].key
          /\ \A k \in 1..Len(hash) :
                g[k].value.items = IF k = i + 1 THEN Append(hash[k].value.items, v)
                                   ELSE hash[k].value.items
      <4>1. PICK h, n : h = hash /\ n = i + 1
        OBVIOUS
      <4>2. h \in Seq(Entries) /\ n \in 1..Len(h) /\ v \in Values
        BY <2>7, <3>4, <4>1
      <4>3. g = Longer(h, n, v)
        BY <3>5, <4>1
      <4>4. /\ g \in Seq(Entries) /\ Len(g) = Len(h)
            /\ \A k \in 1..Len(h) : g[k].key = h[k].key
            /\ \A k \in 1..Len(h) :
                  g[k].value.items = IF k = n THEN Append(h[k].value.items, v)
                                     ELSE h[k].value.items
        BY <4>2, <4>3, ListLonger
      <4> QED BY <4>1, <4>4
    <3>7. Standard(g, call.ph)
      BY <2>5, <3>6, Facts, StandardKeys
    <3>8. \A k \in 1..Len(g) :
             g[k].value.items = Cells(k, first, IF k <= i + 1 THEN r ELSE r - 1)
      <4>1. TAKE k \in 1..Len(g)
      <4>2. k \in 1..Len(hash) /\ k \in Int
        BY <3>6
      <4>3. CASE k = i + 1
        <5>1. PICK s : s = hash[k].value.items
          OBVIOUS
        <5>2. s \in Seq(Values)
          <6>1. hash[k] \in Entries
            BY <3>4, <4>2, ElementOfSeq
          <6> QED BY <5>1, <6>1 DEF Entries, Held
        <5>3. s = Cells(k, first, r - 1)
          <6>1. ~(k <= i)
            BY <2>3, <4>3
          <6> QED BY <3>2, <4>2, <5>1, <6>1
        <5>4. Append(s, v) = Cells(k, first, r)
          BY <2>6, <2>7, <2>8, <3>3, <4>3, <5>2, <5>3, CellsMore
        <5>5. g[k].value.items = Append(s, v)
          BY <3>6, <4>2, <4>3, <5>1
        <5>6. k <= i + 1
          BY <2>3, <4>3
        <5> QED BY <5>4, <5>5, <5>6
      <4>4. CASE k # i + 1
        <5>1. k <= i <=> k <= i + 1
          BY <2>3, <4>2, <4>4
        <5> QED BY <3>2, <3>6, <4>2, <4>4, <5>1
      <4> QED BY <4>3, <4>4
    <3>9. Standard(hash, call.ph)'
      BY <2>1, <2>9, <3>7, ResultKept
    <3>10. \A k \in 1..Len(hash') :
              hash'[k].value.items =
                  Cells(k, r - (call.cnt - cnt), IF k <= i THEN r ELSE r - 1)'
      BY <1>2, <2>1, <2>9, <3>1, <3>8, ResultKept
    <3>11. pc' = "row" /\ call'.shape = "columns" /\ Len(hash') = Len(names')
      BY <2>1, <2>9, <2>13, <3>2, <3>6
    <3>12. HashInv'
      BY <2>11, <3>9, <3>10, <3>11 DEF HashInv
    <3> QED BY <2>1, <2>9, <2>10, <3>6, <3>12, OutKept DEF ColumnsInv
  <2> QED BY <2>4, <2>12, <2>13
<1> QED BY <1>1, <1>2 DEF RowColumn

\* What is handed out is by the standard, and whole.
LEMMA HandOutKeeps ==
    ASSUME ColumnsInv, result' = result, call \in Calls, Standard(hash, call.ph),
           NEW first \in Int, HandOut(first),
           \/ /\ Len(hash) = Len(names)
              /\ \A k \in 1..Len(hash) : hash[k].value.items = Cells(k, first, r)
           \/ hash = <<>> /\ call.shape = "columns" /\ ~call.asked /\ first > r
    PROVE  out' \in Seq(Outs) /\ OutInv'
<1>1. PICK o : o = [call |-> call, hash |-> hash, first |-> first, last |-> r]
  OBVIOUS
<1>2. o.call = call /\ o.hash = hash /\ o.first = first /\ o.last = r
  BY <1>1
<1>3. o \in Outs
  <2>1. r \in Int
    BY Facts
  <2> QED BY <1>1, <2>1, Facts DEF Outs
<1>4. Whole(o) /\ Standard(o.hash, o.call.ph)
  BY <1>2 DEF Whole
<1>5. PICK u : u = out'
  OBVIOUS
<1>6. u = Append(out, o)
  BY <1>1, <1>5 DEF HandOut
<1>7. /\ u \in Seq(Outs) /\ Len(u) = Len(out) + 1 /\ u[Len(out) + 1] = o
      /\ \A n \in 1..Len(out) : u[n] = out[n]
  BY <1>3, <1>6, Facts, AppendProperties
<1>8. \A n \in 1..Len(u) : Standard(u[n].hash, u[n].call.ph) /\ Whole(u[n])
  <2>1. \A n \in 1..Len(out) : Standard(out[n].hash, out[n].call.ph) /\ Whole(out[n])
    BY DEF ColumnsInv, OutInv
  <2>2. Len(out) \in Nat
    BY Facts
  <2>3. \A n \in 1..Len(u) : n \in 1..Len(out) \/ n = Len(out) + 1
    BY <1>7, <2>2
  <2>4. TAKE n \in 1..Len(u)
  <2>5. CASE n \in 1..Len(out)
    BY <1>7, <2>1, <2>5
  <2>6. CASE n = Len(out) + 1
    BY <1>4, <1>7, <2>6
  <2> QED BY <2>3, <2>5, <2>6
<1>9. OutInv'
  BY <1>5, <1>8, ResultKept DEF OutInv
<1> QED BY <1>5, <1>7, <1>9

\* A row is complete.
LEMMA RowDoneKeeps ==
    ASSUME ColumnsInv, RowDone
    PROVE  ColumnsInv'
<1>1. /\ pc = "row" /\ i = Len(datafmt) /\ cnt' = cnt - 1
      /\ pc' = IF cnt - 1 = 0 THEN "ready" ELSE "fetch"
      /\ \/ call.shape = "rows" /\ HandOut(r) /\ hash' = <<>>
         \/ /\ call.shape = "columns" /\ cnt - 1 = 0
            /\ HandOut(r - call.cnt + 1) /\ hash' = <<>>
         \/ call.shape = "columns" /\ cnt - 1 # 0 /\ hash' = hash /\ out' = out
      /\ result' = result /\ UNCHANGED <<call, datafmt, dirty, bufs, r, i, failures>>
  BY DEF RowDone, columns
<1>2. names' = names
  BY <1>1, ResultKept
<1>3. datafmt = names /\ ~dirty /\ i = Len(names)
  BY <1>1, Zenon DEF ColumnsInv, DescribedInv
<1>4. /\ call \in Calls /\ cnt <= call.cnt /\ r \in Int /\ cnt \in Int /\ call.cnt \in Int
      /\ i \in Int
  BY <1>1, Facts DEF Reading
<1>5. /\ Standard(hash, call.ph) /\ RowInBuffers
      /\ call.shape = "rows" =>
           /\ Len(hash) = i
           /\ \A k \in 1..Len(hash) : hash[k].value.items = Cells(k, r, r)
      /\ call.shape = "columns" =>
           /\ Len(hash) = Len(names)
           /\ \A k \in 1..Len(hash) :
                hash[k].value.items =
                    Cells(k, r - (call.cnt - cnt), IF k <= i THEN r ELSE r - 1)
  BY <1>1 DEF ColumnsInv, HashInv
<1>6. call.shape = "columns" =>
         \A k \in 1..Len(hash) : hash[k].value.items = Cells(k, r - (call.cnt - cnt), r)
  <2>1. \A k \in 1..Len(names) : k <= i
    BY <1>3, <1>4
  <2> QED BY <1>5, <2>1
<1>7. out' \in Seq(Outs) /\ OutInv'
  <2>1. CASE call.shape = "rows" /\ HandOut(r)
    BY <1>1, <1>3, <1>4, <1>5, <2>1, HandOutKeeps
  <2>2. CASE call.shape = "columns" /\ cnt - 1 = 0 /\ HandOut(r - call.cnt + 1)
    <3>1. r - call.cnt + 1 = r - (call.cnt - cnt) /\ r - call.cnt + 1 \in Int
      BY <1>4, <2>2
    <3>2. PICK first \in Int : first = r - call.cnt + 1
      BY <3>1
    <3>3. HandOut(first) /\ Len(hash) = Len(names)
          /\ \A k \in 1..Len(hash) : hash[k].value.items = Cells(k, first, r)
      BY <1>5, <1>6, <2>2, <3>1, <3>2
    <3> QED BY <1>1, <1>4, <1>5, <3>3, HandOutKeeps
  <2>3. CASE out' = out
    BY <1>1, <2>3, Facts, OutKept
  <2> QED BY <1>1, <2>1, <2>2, <2>3
<1>8. TypeInv'
  <2>1. hash' \in Seq(Entries)
    BY <1>1, Facts, EmptySeq
  <2>2. cnt' \in Int /\ cnt' <= call.cnt /\ i \in 0..Len(names)
    BY <1>1, <1>4, Facts
  <2>3. dirty' \in BOOLEAN
    <3>1. dirty' = dirty
      BY <1>1
    <3> QED BY <3>1, Zenon DEF ColumnsInv, TypeInv, TypeOK
  <2>4. Len(datafmt') <= Len(names) /\ \A k \in 1..Len(datafmt') : datafmt'[k] = names[k]
    BY <1>1, <1>3, Facts
  <2>5. /\ call' = call /\ datafmt' = datafmt /\ bufs' = bufs /\ r' = r /\ i' = i
        /\ failures' = failures
        /\ pc' \in {"ready", "describe", "bind", "setup", "fetch", "row", "end"}
    BY <1>1
  <2> QED BY <1>1, <1>4, <1>7, <2>1, <2>2, <2>3, <2>4, <2>5, Facts, TypeKept
<1>9. DescribedInv'
  <2>1. pc' \in {"ready", "fetch"}
    BY <1>1
  <2> QED BY <1>1, <1>2, <1>3, <2>1 DEF ColumnsInv, DescribedInv
<1>10. HashInv'
  <2>1. CASE hash' = <<>> /\ pc' = "ready"
    <3>1. Standard(hash, call.ph)'
      BY <1>1, <2>1, StandardEmpty, ResultKept
    <3> QED BY <2>1, <3>1 DEF HashInv
  <2>2. CASE hash' = <<>> /\ pc' = "fetch" /\ call.shape = "rows"
    <3>1. Standard(hash, call.ph)'
      BY <1>1, <2>2, StandardEmpty, ResultKept
    <3> QED BY <1>1, <2>2, <3>1 DEF HashInv
  <2>3. CASE call.shape = "columns" /\ cnt - 1 # 0 /\ hash' = hash
    <3>1. Standard(hash, call.ph)'
      BY <1>1, <1>5, <2>3, ResultKept
    <3>2. r' - (call'.cnt - cnt') + 1 = r - (call.cnt - cnt) /\ r' = r
      BY <1>1, <1>4
    <3>3. \A k \in 1..Len(hash') :
             hash'[k].value.items = Cells(k, r - (call.cnt - cnt) + 1, r)'
      BY <1>1, <1>6, <2>3, <3>2, ResultKept
    <3>4. pc' = "fetch" /\ call'.shape = "columns" /\ Len(hash') = Len(names')
      BY <1>1, <1>2, <1>5, <2>3
    <3> QED BY <3>1, <3>3, <3>4 DEF HashInv
  <2>4. \/ hash' = <<>> /\ pc' = "ready"
        \/ hash' = <<>> /\ pc' = "fetch" /\ call.shape = "rows"
        \/ call.shape = "columns" /\ cnt - 1 # 0 /\ hash' = hash
    BY <1>1
  <2> QED BY <2>1, <2>2, <2>3, <2>4
<1> QED BY <1>7, <1>8, <1>9, <1>10 DEF ColumnsInv

\* There are no more rows.
LEMMA EndOfDataKeeps ==
    ASSUME ColumnsInv, EndOfData
    PROVE  ColumnsInv'
<1>1. /\ pc = "fetch" /\ r = Len(rows) /\ pc' = "end" /\ hash' = <<>>
      /\ \/ call.shape = "columns" /\ HandOut(r - (call.cnt - cnt) + 1)
         \/ call.shape = "rows" /\ out' = out
      /\ result' = result /\ UNCHANGED <<call, datafmt, dirty, bufs, r, cnt, i, failures>>
  BY DEF EndOfData, columns
<1>2. call \in Calls /\ r \in Int /\ cnt \in Int /\ call.cnt \in Int /\ cnt <= call.cnt
  BY <1>1, Facts DEF Reading
<1>3. /\ Standard(hash, call.ph)
      /\ \/ hash = <<>> /\ (call.shape = "columns" => ~call.asked /\ cnt = call.cnt)
         \/ /\ call.shape = "columns" /\ Len(hash) = Len(names)
            /\ \A k \in 1..Len(hash) :
                  hash[k].value.items = Cells(k, r - (call.cnt - cnt) + 1, r)
  BY <1>1 DEF ColumnsInv, HashInv
<1>4. out' \in Seq(Outs) /\ OutInv'
  <2>1. CASE out' = out
    BY <1>1, <2>1, Facts, OutKept
  <2>2. CASE call.shape = "columns" /\ HandOut(r - (call.cnt - cnt) + 1)
    <3>1. PICK first \in Int : first = r - (call.cnt - cnt) + 1
      BY <1>2
    <3>2. \/ /\ Len(hash) = Len(names)
             /\ \A k \in 1..Len(hash) : hash[k].value.items = Cells(k, first, r)
          \/ hash = <<>> /\ call.shape = "columns" /\ ~call.asked /\ first > r
      <4>1. cnt = call.cnt => first > r
        BY <1>2, <3>1
      <4> QED BY <1>3, <2>2, <3>1, <4>1
    <3> QED BY <1>1, <1>2, <1>3, <2>2, <3>1, <3>2, HandOutKeeps
  <2> QED BY <1>1, <2>1, <2>2
<1>5. TypeInv'
  <2>1. hash' \in Seq(Entries)
    BY <1>1, EmptySeq
  <2>2. dirty' \in BOOLEAN
    <3>1. dirty' = dirty
      BY <1>1
    <3> QED BY <3>1, Zenon DEF ColumnsInv, TypeInv, TypeOK
  <2>3. /\ call' = call /\ datafmt' = datafmt /\ bufs' = bufs /\ r' = r /\ i' = i
        /\ failures' = failures /\ cnt' = cnt
        /\ pc' \in {"ready", "describe", "bind", "setup", "fetch", "row", "end"}
    BY <1>1
  <2>4. Len(datafmt') <= Len(names) /\ \A k \in 1..Len(datafmt') : datafmt'[k] = names[k]
    BY <2>3 DEF ColumnsInv, DescribedInv
  <2> QED BY <1>1, <1>2, <1>4, <2>1, <2>2, <2>3, <2>4, Facts, TypeKept
<1>6. DescribedInv'
  BY <1>1, ResultKept DEF ColumnsInv, DescribedInv
<1>7. HashInv'
  <2>1. Standard(hash, call.ph)'
    BY <1>1, StandardEmpty, ResultKept
  <2> QED BY <1>1, <2>1 DEF HashInv
<1> QED BY <1>4, <1>5, <1>6, <1>7 DEF ColumnsInv

-----------------------------------------------------------------------------
(* The theorems.                                                           *)

\* The invariant holds at the start.
LEMMA ColumnsInit == Init => ColumnsInv
<1> SUFFICES ASSUME Init
             PROVE  ColumnsInv
  OBVIOUS
<1>1. /\ names \in ColumnLists /\ rows \in RowLists
      /\ \A k \in DOMAIN rows : Len(rows[k]) = Len(names)
      /\ call = NoCall /\ pc = "ready" /\ datafmt = <<>> /\ dirty = TRUE /\ bufs = <<>>
      /\ r = 0 /\ cnt = 0 /\ i = 0 /\ hash = <<>> /\ out = <<>> /\ failures = 0
  BY DEF Init
<1>2. names \in Seq(AllNames) /\ rows \in Seq(Seq(Values))
  BY <1>1, ResultsAssumption
<1>3. Len(names) \in Nat /\ Len(rows) \in Nat /\ DOMAIN rows = 1..Len(rows)
  BY <1>2, LenProperties
<1>4. \A S : <<>> \in Seq(S)
  BY EmptySeq
<1>5. Len(<<>>) = 0 /\ DOMAIN <<>> = {}
  OBVIOUS
<1>6. TypeOK
  <2>1. datafmt \in Seq({names[k] : k \in DOMAIN names})
    <3>1. PICK S : S = {names[k] : k \in DOMAIN names}
      OBVIOUS
    <3>2. datafmt \in Seq(S)
      BY <1>1, <1>4
    <3> QED BY <3>1, <3>2
  <2>2. result \in ColumnLists \X RowLists
    BY <1>1 DEF result
  <2>3. /\ \A k \in DOMAIN bufs : bufs[k].indicator \in {-1, 0}
        /\ \A k \in DOMAIN hash : hash[k].value.kind \in {"value", "list"}
    BY <1>1, <1>5
  <2>4. dirty \in BOOLEAN
    BY <1>1
  <2>5. r \in 0..Len(rows) /\ cnt \in Int /\ i \in 0..Len(names) /\ failures \in 0..MaxFailures
    BY <1>1, <1>3, MaxFailuresAssumption
  <2> QED BY <1>1, <2>1, <2>2, <2>3, <2>4, <2>5 DEF TypeOK
<1>7. TypeInv
  <2>1. bufs \in Seq(Buffers) /\ hash \in Seq(Entries) /\ out \in Seq(Outs) /\ ~Reading
    BY <1>1, <1>4 DEF Reading
  <2>2. \A k \in 1..Len(rows) : Len(rows[k]) = Len(names)
    BY <1>1, <1>3
  <2> QED BY <1>1, <1>6, <2>1, <2>2 DEF TypeInv
<1>8. DescribedInv
  BY <1>1, <1>3, <1>5 DEF DescribedInv
<1>9. HashInv
  BY <1>1, StandardEmpty DEF HashInv
<1>10. OutInv
  BY <1>1, <1>5 DEF OutInv
<1> QED BY <1>7, <1>8, <1>9, <1>10 DEF ColumnsInv

\* It holds in every state: reading a result keeps it, whatever the columns,
\* the rows and the failures are.
THEOREM ColumnsInvariant == Spec => []ColumnsInv
<1>1. ColumnsInv /\ [Next]_vars => ColumnsInv'
  <2> SUFFICES ASSUME ColumnsInv, [Next]_vars
               PROVE  ColumnsInv'
    OBVIOUS
  <2>1. CASE \E c \in Calls : Ask(c)
    BY <2>1, AskKeeps
  <2>2. CASE DescribeColumn
    BY <2>2, DescribeColumnKeeps
  <2>3. CASE ResetBuffers \/ BindBuffer \/ ColumnsKnown
    BY <2>3, BindingKeeps
  <2>4. CASE SetupColumn
    BY <2>4, SetupColumnKeeps
  <2>5. CASE SetupDone
    BY <2>5, SetupDoneKeeps
  <2>6. CASE FetchRow
    BY <2>6, FetchRowKeeps
  <2>7. CASE RowColumn
    BY <2>7, RowColumnKeeps
  <2>8. CASE RowDone
    BY <2>8, RowDoneKeeps
  <2>9. CASE EndOfData
    BY <2>9, EndOfDataKeeps
  <2>10. CASE UNCHANGED vars
    <3>1. /\ result' = result /\ out' = out
          /\ UNCHANGED <<names, rows, call, pc, datafmt, dirty, bufs, r, cnt, i, hash, failures>>
      BY <2>10 DEF vars, result, columns
    <3>2. TypeInv'
      BY <3>1 DEF ColumnsInv, TypeInv, TypeOK, Reading
    <3>3. DescribedInv'
      BY <3>1 DEF ColumnsInv, DescribedInv
    <3>4. RowInBuffers' <=> RowInBuffers
      BY <3>1 DEF RowInBuffers
    <3>5. Standard(hash, call.ph)' <=> Standard(hash, call.ph)
      BY <3>1, ResultKept
    <3>6. HashInv'
      BY <3>1, <3>4, <3>5, ResultKept DEF ColumnsInv, HashInv
    <3> QED BY <3>1, <3>2, <3>3, <3>6, OutKept DEF ColumnsInv
  <2> QED BY <2>1, <2>2, <2>3, <2>4, <2>5, <2>6, <2>7, <2>8, <2>9, <2>10 DEF Next
<1> QED BY <1>1, ColumnsInit, PTL DEF Spec

\* Columns, buffers, hashes and counters are what they should be.
THEOREM ColumnsTypeOK == Spec => []TypeOK
<1>1. ColumnsInv => TypeOK
  BY DEF ColumnsInv, TypeInv
<1> QED BY <1>1, ColumnsInvariant, PTL

\* No row is fetched, named or copied before ct_describe() and ct_bind() have
\* been done for every column of the result, also in a call that comes after
\* one that failed between them.
THEOREM ColumnsAreBound == Spec => []FetchesIntoAllColumns
<1>1. ColumnsInv => FetchesIntoAllColumns
  BY Zenon DEF ColumnsInv, DescribedInv, FetchesIntoAllColumns
<1> QED BY <1>1, ColumnsInvariant, PTL

\* Keys by the standard differ from each other.
LEMMA KeysDiffer ==
    ASSUME NEW h, NEW ph, Standard(h, ph), Len(h) \in Nat,
           NEW j \in 1..Len(h), NEW k \in 1..Len(h), j # k
    PROVE  h[j].key # h[k].key
<1>1. \A n \in 1..Len(h) : h[n].key \notin {h[m].key : m \in 1..n - 1}
  BY DEF Standard
<1>2. \A m, n \in 1..Len(h) : m < n => h[m].key # h[n].key
  <2>1. TAKE m, n \in 1..Len(h)
  <2>2. m < n => m \in 1..n - 1
    OBVIOUS
  <2> QED BY <1>1, <2>2
<1>3. j < k \/ k < j
  OBVIOUS
<1> QED BY <1>2, <1>3

\* In every hash that is handed out each column of the result is under a key of
\* its own, in the order of the columns, with the values of the rows that were
\* read for it, and no other.
THEOREM ColumnsAreReturned == Spec => []EveryColumnReturned
<1>1. ColumnsInv => EveryColumnReturned
  <2> SUFFICES ASSUME ColumnsInv, NEW n \in DOMAIN out
               PROVE  LET o == out[n]  h == out[n].hash IN
                      \/ /\ Len(h) = Len(names)
                         /\ \A j, k \in DOMAIN h : h[j].key = h[k].key => j = k
                         /\ \A k \in DOMAIN h : h[k].value.items = ColumnOf(o, k)
                      \/ /\ h = <<>> /\ o.call.shape = "columns" /\ ~o.call.asked
                         /\ o.first > o.last
    BY DEF EveryColumnReturned
  <2>1. n \in 1..Len(out) /\ out[n] \in Outs
    <3>1. out \in Seq(Outs) /\ n \in 1..Len(out)
      BY Facts, LenProperties
    <3> QED BY <3>1, ElementOfSeq
  <2>2. PICK o : o = out[n]
    OBVIOUS
  <2>3. Standard(o.hash, o.call.ph) /\ Whole(o)
    BY <2>1, <2>2 DEF ColumnsInv, OutInv
  <2>4. o.hash \in Seq(Entries)
    BY <2>1, <2>2 DEF Outs
  <2>5. Len(o.hash) \in Nat /\ DOMAIN o.hash = 1..Len(o.hash)
    BY <2>4, LenProperties
  <2>6. \A j, k \in DOMAIN o.hash : o.hash[j].key = o.hash[k].key => j = k
    BY <2>3, <2>5, KeysDiffer
  <2>7. \A k : ColumnOf(o, k) = Cells(k, o.first, o.last)
    BY DEF ColumnOf, Cells
  <2> QED BY <2>2, <2>3, <2>5, <2>6, <2>7 DEF Whole
<1> QED BY <1>1, ColumnsInvariant, PTL

\* The keys follow the documented format: they depend on the names of the
\* columns and placeholders alone, so they are the same for rows and columns
\* and whatever the values are.
THEOREM KeysByStandard == Spec => []KeysAreStandard
<1>1. ColumnsInv => KeysAreStandard
  <2> SUFFICES ASSUME ColumnsInv, NEW o \in {out[n] : n \in DOMAIN out}
               PROVE  \A k \in DOMAIN o.hash :
                         LET before == {o.hash[m].key : m \in 1..k - 1}
                             own    == OwnName(k, o.call.ph)
                         IN  \/ own \notin before /\ o.hash[k].key = own
                             \/ /\ own \in before
                                /\ \E num \in 1..k :
                                     /\ o.hash[k].key = [own EXCEPT !.n = Append(@, num)]
                                     /\ o.hash[k].key \notin before
                                     /\ \A m \in 1..num - 1 :
                                           [own EXCEPT !.n = Append(@, m)] \in before
    BY Zenon DEF KeysAreStandard
  <2>1. PICK n \in DOMAIN out : o = out[n]
    OBVIOUS
  <2>2. n \in 1..Len(out) /\ out[n] \in Outs
    <3>1. out \in Seq(Outs) /\ n \in 1..Len(out)
      BY Facts, LenProperties
    <3> QED BY <3>1, ElementOfSeq
  <2>3. Standard(o.hash, o.call.ph) /\ o.hash \in Seq(Entries)
    BY <2>1, <2>2 DEF ColumnsInv, OutInv, Outs
  <2>4. DOMAIN o.hash = 1..Len(o.hash)
    BY <2>3, LenProperties
  <2> QED BY <2>3, <2>4, Zenon DEF Standard
<1> QED BY <1>1, ColumnsInvariant, PTL
=============================================================================
