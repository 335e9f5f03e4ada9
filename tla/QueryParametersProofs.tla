----------------------- MODULE QueryParametersProofs -----------------------
(***************************************************************************)
(* For every set of texts and argument lists: the scanner rewrites the     *)
(* text as it is defined on the whole of it, set_params() binds each name  *)
(* in it once, and a command that is sent again is the same.               *)
(***************************************************************************)
EXTENDS QueryParameters, SequenceLemmas, FiniteSetTheorems

-----------------------------------------------------------------------------
(* The invariant.                                                          *)

\* What the first p characters of the text become.
Pieces(p) == FlattenSeq([q \in 1..p |-> Piece(q)])

\* The n-th parameter is put in by its name, to be bound.
Marked(n) == ParName(n) \in ToSet(Rewritten)

\* param_list says of each parameter in what is read of the text whether it is
\* to be bound.
Lists(list, read) ==
    \A n \in Nat : ParName(n) \in ToSet(read) <=> n \in 1..Len(list) /\ list[n] = "v"

\* What set_params() binds of the first k parameters when none of them stops it.
BoundAt(n) == IF Marked(n) THEN <<[name |-> n, value |-> ArgAt(n)]>> ELSE <<>>
BoundUpTo(k) == FlattenSeq([n \in 1..k |-> BoundAt(n)])

\* None of the first k parameters stops it.
Passes(k) == \A n \in 1..k : Marked(n) => ArgAt(n).kind \in {"null", "value"}

\* What is bound when the command is sent: nothing without a list, everything
\* up to an explicit date, whose own bind may have failed, or everything.
WellBound(b) ==
    \/ ~given /\ b = <<>>
    \/ given /\ Passes(Number(Len(text))) /\ b = BoundUpTo(Number(Len(text)))
    \/ given /\ \E k \in 0..Len(text) :
           /\ Passes(k) /\ Marked(k + 1) /\ ArgAt(k + 1).kind = "date"
           /\ b \in {BoundUpTo(k), BoundUpTo(k + 1)}

Items    == [is : Chars \cup {"@", "@par", "text"}, n : Nat]
Bindings == [name : Nat, value : [kind : Kinds, id : Nat]]

\* As long as the call goes on another command may be sent.
TypeInv ==
    /\ TypeOK
    /\ sent \in Seq([cmd : Seq(Items), bound : Seq(Bindings)])
    /\ pc \notin Halted => Len(sent) < MaxSends

\* The scanner has taken the first pos characters.
ScanInv ==
    pc = "scan" =>
        /\ ~raw /\ i = 0 /\ bound = <<>>
        /\ Open[pos] = [quote |-> quote, escaped |-> FALSE] /\ ~Marker(pos)
        /\ cmd = Pieces(pos) /\ Len(paramList) = Number(pos)
        /\ Lists(paramList, cmd)

\* The text is rewritten as a whole, and its parameters are listed.
ReadInv ==
    pc \in {"params", "bind", "send"} =>
        /\ cmd = Rewritten
        /\ given => Len(paramList) = Number(Len(text)) /\ Lists(paramList, Rewritten)

BindInv ==
    /\ pc = "params" => i = 0 /\ bound = <<>>
    /\ pc = "bind" => given /\ Passes(i) /\ bound = BoundUpTo(i)
    /\ pc = "send" => WellBound(bound)

SentInv == \A k \in DOMAIN sent : sent[k].cmd = Rewritten /\ WellBound(sent[k].bound)

\* given is FALSE whenever the text is raw.
CallInv == raw => ~given

QueryInv == TypeInv /\ CallInv /\ ScanInv /\ ReadInv /\ BindInv /\ SentInv
                /\ OverrunOnlyUnbalanced

-----------------------------------------------------------------------------
(* Quotes: the recursive function Open.                                    *)

\* The string open after one more character.
OpenStep(o, c) ==
    [quote   |-> CASE o.quote = "none" /\ c \in {"dquote", "'"} -> c
                   [] o.quote = c /\ ~o.escaped -> "none"
                   [] OTHER -> o.quote,
     escaped |-> o.quote # "none" /\ c = "\\" /\ ~o.escaped]

\* The equation the function is chosen by.
Opens(f, t, n) ==
    f = [p \in 0..n |-> IF p = 0 THEN [quote |-> "none", escaped |-> FALSE]
                                 ELSE OpenStep(f[p - 1], t[p])]

\* It has a solution for every text.
LEMMA OpensExists ==
    ASSUME NEW t, NEW n \in Nat
    PROVE  \E f : Opens(f, t, n)
<1> DEFINE T == {m \in 0..n : \E f : Opens(f, t, m)}
<1>1. 0 \in T
  <2>1. Opens([p \in 0..0 |-> [quote |-> "none", escaped |-> FALSE]], t, 0)
    BY DEF Opens
  <2>2. \E f : Opens(f, t, 0)
    BY <2>1, Zenon
  <2> QED BY <2>2
<1>2. ASSUME NEW m \in 0..n, m \in T, m + 1 <= n
      PROVE  m + 1 \in T
  <2>1. PICK g : Opens(g, t, m)
    BY <1>2
  <2> DEFINE h == [p \in 0..m + 1 |-> IF p = m + 1 THEN OpenStep(g[m], t[m + 1]) ELSE g[p]]
  <2>2. ASSUME NEW p \in 0..m + 1
        PROVE  h[p] = IF p = 0 THEN [quote |-> "none", escaped |-> FALSE]
                               ELSE OpenStep(h[p - 1], t[p])
    <3>1. p # 0 => p - 1 \in 0..m /\ h[p - 1] = g[p - 1]
      BY <1>2
    <3>2. CASE p = m + 1
      <4>1. p # 0 /\ p - 1 = m /\ t[p] = t[m + 1]
        BY <1>2, <3>2
      <4>2. h[p] = OpenStep(g[m], t[m + 1]) /\ h[p - 1] = g[m]
        BY <3>1, <3>2, <4>1
      <4> HIDE DEF h
      <4> QED BY <4>1, <4>2
    <3>3. CASE p # m + 1
      <4>1. p \in 0..m
        BY <1>2, <3>3
      <4>2. g[p] = IF p = 0 THEN [quote |-> "none", escaped |-> FALSE]
                            ELSE OpenStep(g[p - 1], t[p])
        BY <2>1, <4>1 DEF Opens
      <4> QED BY <3>1, <3>3, <4>2
    <3> QED BY <3>2, <3>3
  <2>3. h = [p \in 0..m + 1 |-> h[p]]
    OBVIOUS
  <2> HIDE DEF h
  <2>4. Opens(h, t, m + 1)
    BY <2>2, <2>3 DEF Opens
  <2> QED BY <1>2, <2>4
<1> HIDE DEF T
<1>3. 0..n \subseteq T
  BY <1>1, <1>2, IntervalInduction
<1>4. n \in T
  BY <1>3
<1> QED BY <1>4 DEF T

\* The string open after p characters, from the one before.
LEMMA OpenIs ==
    ASSUME text \in Seq(Chars)
    PROVE  /\ Open[0] = [quote |-> "none", escaped |-> FALSE]
           /\ \A p \in 0..Len(text) : p + 1 <= Len(text) =>
                  Open[p + 1] = OpenStep(Open[p], text[p + 1])
<1> DEFINE g == CHOOSE f : Opens(f, text, Len(text))
<1>1. Len(text) \in Nat
  BY LenProperties
<1>2. Opens(g, text, Len(text))
  BY <1>1, OpensExists
<1>3. g = Open
  BY DEF Open, Opens, OpenStep
<1>4. \A p \in 0..Len(text) : Open[p] = IF p = 0 THEN [quote |-> "none", escaped |-> FALSE]
                                                 ELSE OpenStep(Open[p - 1], text[p])
  BY <1>2, <1>3 DEF Opens
<1>5. ASSUME NEW p \in 0..Len(text), p + 1 <= Len(text)
      PROVE  Open[p + 1] = OpenStep(Open[p], text[p + 1])
  <2>1. p + 1 \in 0..Len(text) /\ p + 1 # 0 /\ (p + 1) - 1 = p
    BY <1>1, <1>5
  <2> QED BY <1>4, <2>1
<1>6. 0 \in 0..Len(text)
  BY <1>1
<1> QED BY <1>4, <1>5, <1>6

-----------------------------------------------------------------------------
(* What the text is rewritten to, character by character.                  *)

\* What the call is made with.
CallTyped == text \in Seq(Chars) /\ args \in Seq([kind : Kinds, id : Nat])

\* The argument of a parameter.
LEMMA ArgAtType ==
    ASSUME CallTyped, NEW n \in Nat
    PROVE  ArgAt(n) \in [kind : Kinds, id : Nat]
<1>1. Null \in [kind : Kinds, id : Nat]
  BY DEF Null, Kinds
<1>2. n \in DOMAIN args => args[n] \in [kind : Kinds, id : Nat]
  BY LenProperties, ElementOfSeq DEF CallTyped
<1> QED BY <1>1, <1>2 DEF ArgAt

\* Parameters are numbered in the order of the text.
LEMMA NumberIs ==
    /\ Number(0) = 0
    /\ \A p \in Nat : /\ Number(p) \in Nat /\ Number(p) <= p
                      /\ Number(p + 1) = IF Marker(p + 1) THEN Number(p) + 1 ELSE Number(p)
<1> DEFINE M(p) == {q \in 1..p : Marker(q)}
<1>1. \A p \in Nat : Number(p) = Cardinality(M(p))
  BY DEF Number
<1>2. M(0) = {}
  OBVIOUS
<1>3. ASSUME NEW p \in Nat
      PROVE  /\ M(p) \subseteq 1..p /\ p + 1 \notin M(p)
             /\ M(p + 1) = IF Marker(p + 1) THEN M(p) \cup {p + 1} ELSE M(p)
  <2>1. \A q : q \in 1..p + 1 <=> q \in 1..p \/ q = p + 1
    OBVIOUS
  <2>2. p + 1 \notin 1..p
    OBVIOUS
  <2> QED BY <2>1, <2>2
<1> HIDE DEF M
<1>4. ASSUME NEW p \in Nat
      PROVE  IsFiniteSet(M(p)) /\ Cardinality(M(p)) \in Nat /\ Cardinality(M(p)) <= p
  <2>1. IsFiniteSet(1..p) /\ Cardinality(1..p) = p
    <3>1. IsFiniteSet(1..p) /\ Cardinality(1..p) = IF 1 > p THEN 0 ELSE p - 1 + 1
      BY FS_Interval
    <3> QED BY <3>1
  <2>2. IsFiniteSet(M(p)) /\ Cardinality(M(p)) <= Cardinality(1..p)
    BY <1>3, <2>1, FS_Subset
  <2> QED BY <2>1, <2>2, FS_CardinalityType
<1>5. ASSUME NEW p \in Nat
      PROVE  Number(p + 1) = IF Marker(p + 1) THEN Number(p) + 1 ELSE Number(p)
  <2>1. Cardinality(M(p) \cup {p + 1}) = Cardinality(M(p)) + 1
    BY <1>3, <1>4, FS_AddElement
  <2> QED BY <1>1, <1>3, <2>1
<1>6. Number(0) = 0
  BY <1>1, <1>2, FS_EmptySet
<1> QED BY <1>1, <1>4, <1>5, <1>6

\* What one character becomes.
LEMMA PieceType ==
    ASSUME CallTyped, NEW p \in 1..Len(text)
    PROVE  Piece(p) \in Seq(Items)
<1>1. Len(text) \in Nat /\ p \in Nat /\ text[p] \in Chars
  BY LenProperties, ElementOfSeq DEF CallTyped
<1>2. Number(p) \in Nat
  BY <1>1, NumberIs
<1>3. ArgAt(Number(p)).id \in Nat
  BY <1>2, ArgAtType
<1>4. \A e \in Items : <<e>> \in Seq(Items)
  OBVIOUS
<1>5. /\ ParName(Number(p)) \in Items /\ Inserted(ArgAt(Number(p)).id) \in Items
      /\ Char("@") \in Items /\ Char(text[p]) \in Items
  BY <1>1, <1>2, <1>3 DEF ParName, Inserted, Char, Items
<1>6. <<>> \in Seq(Items)
  BY EmptySeq
<1>7. Piece(p) \in {<<ParName(Number(p))>>, <<Inserted(ArgAt(Number(p)).id)>>, <<>>,
                    <<Char("@")>>, <<Char(text[p])>>}
  BY DEF Piece
<1> QED BY <1>4, <1>5, <1>6, <1>7

\* One more character adds what it becomes.
LEMMA PiecesIs ==
    ASSUME CallTyped
    PROVE  /\ Pieces(0) = <<>>
           /\ \A p \in 0..Len(text) :
                /\ Pieces(p) \in Seq(Items)
                /\ p + 1 <= Len(text) => Pieces(p + 1) = Pieces(p) \o Piece(p + 1)
<1>1. Len(text) \in Nat
  BY LenProperties DEF CallTyped
<1>2. Pieces(0) = <<>>
  <2>1. [q \in 1..0 |-> Piece(q)] = <<>>
    OBVIOUS
  <2> QED BY <2>1, FlattenEmpty DEF Pieces
<1>3. ASSUME NEW p \in 0..Len(text)
      PROVE  [q \in 1..p |-> Piece(q)] \in Seq(Seq(Items)) /\ Len([q \in 1..p |-> Piece(q)]) = p
  <2>1. \A q \in 1..p : Piece(q) \in Seq(Items)
    BY <1>1, PieceType
  <2> QED BY <2>1, IsASeq
<1>4. ASSUME NEW p \in 0..Len(text)
      PROVE  Pieces(p) \in Seq(Items)
  BY <1>3, FlattenType DEF Pieces
<1>5. ASSUME NEW p \in 0..Len(text), p + 1 <= Len(text)
      PROVE  Pieces(p + 1) = Pieces(p) \o Piece(p + 1)
  <2> DEFINE s == [q \in 1..p |-> Piece(q)]
             u == [q \in 1..p + 1 |-> Piece(q)]
  <2>1. p \in Nat /\ p + 1 \in 0..Len(text) /\ p + 1 \in 1..p + 1
        /\ \A q \in 1..p : q \in 1..p + 1
    BY <1>1, <1>5
  <2>2. /\ s \in Seq(Seq(Items)) /\ Len(s) = p
        /\ u \in Seq(Seq(Items)) /\ Len(u) = p + 1
        /\ \A q \in 1..p : u[q] = s[q]
        /\ u[p + 1] = Piece(p + 1)
    BY <1>3, <2>1
  <2> HIDE DEF s, u
  <2>3. FlattenSeq(u) = FlattenSeq(s) \o u[p + 1]
    BY <2>1, <2>2, FlattenLast
  <2> QED BY <2>2, <2>3 DEF Pieces, s, u
<1> QED BY <1>2, <1>4, <1>5

\* A character in a string.
LEMMA InsideIs ==
    ASSUME CallTyped, NEW p \in 0..Len(text), p + 1 <= Len(text), ~Marker(p),
           NEW q, q # "none", NEW e \in BOOLEAN, Open[p] = [quote |-> q, escaped |-> e]
    PROVE  /\ ~Marker(p + 1) /\ Piece(p + 1) = <<Char(text[p + 1])>>
           /\ text[p + 1] \in Chars
           /\ Open[p + 1] = [quote   |-> IF text[p + 1] = q /\ ~e THEN "none" ELSE q,
                             escaped |-> text[p + 1] = "\\" /\ ~e]
<1>1. /\ Len(text) \in Nat /\ p + 1 \in 1..Len(text) /\ (p + 1) - 1 = p
      /\ text[p + 1] \in Chars
  BY LenProperties, ElementOfSeq DEF CallTyped
<1>2. Open[p + 1] = OpenStep(Open[p], text[p + 1])
  BY <1>1, OpenIs DEF CallTyped
<1>3. Open[p].quote = q /\ Open[p].escaped = e
  OBVIOUS
<1>4. OpenStep(Open[p], text[p + 1]) = [quote   |-> IF text[p + 1] = q /\ ~e THEN "none" ELSE q,
                                        escaped |-> text[p + 1] = "\\" /\ ~e]
  BY <1>3 DEF OpenStep
<1>5. ~Outside(p + 1)
  BY <1>1, <1>3 DEF Outside
<1>6. ~Marker(p + 1)
  BY <1>5 DEF Marker
<1>7. Piece(p + 1) = <<Char(text[p + 1])>>
  BY <1>1, <1>5, <1>6 DEF Piece
<1> QED BY <1>1, <1>2, <1>4, <1>6, <1>7

\* A character outside of strings.
LEMMA OutsideIs ==
    ASSUME CallTyped, NEW p \in 0..Len(text), p + 1 <= Len(text),
           Open[p] = [quote |-> "none", escaped |-> FALSE], NEW c, c = text[p + 1]
    PROVE  /\ Marker(p + 1) <=> c = "%"
           /\ Open[p + 1] = [quote |-> IF c \in {"dquote", "'"} THEN c ELSE "none", escaped |-> FALSE]
           /\ c \in Chars
           /\ c \notin {"%", ":"} => Piece(p + 1) = IF Marker(p) THEN <<>> ELSE <<Char(c)>>
           /\ c = ":" /\ ~Marker(p) => Piece(p + 1) = <<Char("@")>>
           /\ c = "%" /\ ~Marker(p) =>
                Piece(p + 1) = IF text[p + 2] = "v" THEN <<ParName(Number(p + 1))>>
                               ELSE <<Inserted(ArgAt(Number(p + 1)).id)>>
<1>1. /\ Len(text) \in Nat /\ p + 1 \in 1..Len(text) /\ (p + 1) - 1 = p /\ c \in Chars
      /\ (p + 1) + 1 = p + 2 /\ DOMAIN text = 1..Len(text)
  BY LenProperties, ElementOfSeq DEF CallTyped
<1>2. Open[p + 1] = OpenStep(Open[p], c)
  BY <1>1, OpenIs DEF CallTyped
<1>3. Open[p].quote = "none" /\ Open[p].escaped = FALSE
  OBVIOUS
<1>4. OpenStep(Open[p], c) = [quote |-> IF c \in {"dquote", "'"} THEN c ELSE "none", escaped |-> FALSE]
  <2>1. c # "none"
    BY <1>1 DEF Chars, Letters
  <2> QED BY <1>3, <2>1 DEF OpenStep
<1>5. Outside(p + 1)
  BY <1>1, <1>3 DEF Outside
<1>6. Marker(p + 1) <=> c = "%"
  BY <1>1, <1>5 DEF Marker
<1>7. c \notin {"%", ":"} => Piece(p + 1) = IF Marker(p) THEN <<>> ELSE <<Char(c)>>
  BY <1>1, <1>6 DEF Piece
<1>8. c = ":" /\ ~Marker(p) => Piece(p + 1) = <<Char("@")>>
  BY <1>1, <1>5, <1>6 DEF Piece
<1>9. c = "%" /\ ~Marker(p) =>
        Piece(p + 1) = IF text[p + 2] = "v" THEN <<ParName(Number(p + 1))>>
                       ELSE <<Inserted(ArgAt(Number(p + 1)).id)>>
  BY <1>1, <1>6 DEF Piece
<1> QED BY <1>1, <1>2, <1>4, <1>6, <1>7, <1>8, <1>9

\* The name of a placeholder is taken as it is.
LEMMA NameIs ==
    ASSUME CallTyped, NEW p \in 0..Len(text), NEW n \in Nat, p + n <= Len(text), ~Marker(p),
           Open[p] = [quote |-> "none", escaped |-> FALSE],
           \A k \in 1..n : text[p + k] \in Letters
    PROVE  /\ ~Marker(p + n) /\ Open[p + n] = [quote |-> "none", escaped |-> FALSE]
           /\ Number(p + n) = Number(p)
           /\ Pieces(p + n) = Pieces(p) \o [k \in 1..n |-> Char(text[p + k])]
<1> DEFINE T == {m \in 0..n : /\ ~Marker(p + m)
                              /\ Open[p + m] = [quote |-> "none", escaped |-> FALSE]
                              /\ Number(p + m) = Number(p)
                              /\ Pieces(p + m) = Pieces(p) \o [k \in 1..m |-> Char(text[p + k])]}
<1>1. Len(text) \in Nat /\ p \in Nat
  BY LenProperties DEF CallTyped
<1>2. 0 \in T
  <2>1. [k \in 1..0 |-> Char(text[p + k])] = <<>> /\ p + 0 = p
    BY <1>1
  <2>2. Pieces(p) \o <<>> = Pieces(p)
    BY PiecesIs, ConcatEmptySeq
  <2>3. /\ ~Marker(p + 0) /\ Open[p + 0] = [quote |-> "none", escaped |-> FALSE]
        /\ Number(p + 0) = Number(p) /\ Pieces(p + 0) = Pieces(p)
    BY <2>1
  <2>4. Pieces(p + 0) = Pieces(p) \o [k \in 1..0 |-> Char(text[p + k])]
    BY <2>1, <2>2, <2>3
  <2>5. 0 \in 0..n
    OBVIOUS
  <2> QED BY <2>3, <2>4, <2>5
<1>3. ASSUME NEW m \in 0..n, m \in T, m + 1 <= n
      PROVE  m + 1 \in T
  <2>1. PICK r, c : r = p + m /\ c = text[r + 1]
    OBVIOUS
  <2>2. /\ r \in 0..Len(text) /\ r + 1 <= Len(text) /\ p + (m + 1) = r + 1
        /\ m + 1 \in 1..n /\ r \in Nat
    BY <1>1, <1>3, <2>1
  <2>3. /\ ~Marker(r) /\ Open[r] = [quote |-> "none", escaped |-> FALSE]
        /\ Number(r) = Number(p)
        /\ Pieces(r) = Pieces(p) \o [k \in 1..m |-> Char(text[p + k])]
    BY <1>3, <2>1
  <2>4. c \in Letters /\ c \notin {"%", ":", "dquote", "'"}
    BY <2>1, <2>2 DEF Letters
  <2>5. /\ ~Marker(r + 1) /\ Open[r + 1] = [quote |-> "none", escaped |-> FALSE]
        /\ Piece(r + 1) = <<Char(c)>> /\ c \in Chars
    BY <2>1, <2>2, <2>3, <2>4, OutsideIs
  <2>6. Number(r + 1) = Number(p)
    BY <2>2, <2>3, <2>5, NumberIs
  <2>7. Pieces(r + 1) = Pieces(p) \o [k \in 1..m + 1 |-> Char(text[p + k])]
    <3>1. \A k \in 1..m + 1 : Char(text[p + k]) \in Items
      <4>1. \A k \in 1..m + 1 : p + k \in 1..Len(text)
        BY <1>1, <2>2, <1>3
      <4>2. \A k \in 1..m + 1 : text[p + k] \in Chars
        BY <4>1, ElementOfSeq DEF CallTyped
      <4> QED BY <4>2 DEF Char, Items
    <3>2. PICK x, y : /\ x = [k \in 1..m |-> Char(text[p + k])]
                      /\ y = [k \in 1..m + 1 |-> Char(text[p + k])]
      OBVIOUS
    <3>3. x \in Seq(Items) /\ y \in Seq(Items) /\ Len(x) = m /\ Len(y) = m + 1
      <4>1. m \in Nat /\ m + 1 \in Nat /\ \A k \in 1..m : k \in 1..m + 1
        OBVIOUS
      <4>4. \A k \in 1..m : Char(text[p + k]) \in Items
        BY <3>1, <4>1
      <4>2. x \in Seq(Items) /\ Len(x) = m
        BY <3>2, <4>4, <4>1, IsASeq
      <4>3. y \in Seq(Items) /\ Len(y) = m + 1
        BY <3>1, <3>2, <4>1, IsASeq
      <4> QED BY <4>2, <4>3
    <3>4. PICK one : one = <<Char(c)>>
      OBVIOUS
    <3>5. one \in Seq(Items) /\ y = x \o one
      <4>1. Char(c) \in Items /\ c = text[p + (m + 1)]
        BY <2>1, <2>2, <3>1
      <4>2. /\ \A k \in 1..m : y[k] = x[k]
            /\ y[m + 1] = Char(c)
        BY <3>2, <4>1
      <4> QED BY <3>3, <3>4, <4>1, <4>2
    <3>6. Pieces(p) \in Seq(Items) /\ Pieces(r + 1) = Pieces(r) \o one
      <4>1. Piece(r + 1) = one
        BY <2>5, <3>4
      <4>2. Pieces(r + 1) = Pieces(r) \o Piece(r + 1) /\ Pieces(p) \in Seq(Items)
        BY <2>2, PiecesIs
      <4> QED BY <4>1, <4>2
    <3>7. (Pieces(p) \o x) \o one = Pieces(p) \o (x \o one)
      <4>1. x \in Seq(Items) /\ one \in Seq(Items) /\ Pieces(p) \in Seq(Items)
        BY <3>3, <3>5, <3>6
      <4>2. PICK u, v, w \in Seq(Items) : u = Pieces(p) /\ v = x /\ w = one
        BY <4>1
      <4>3. (u \o v) \o w = u \o (v \o w)
        BY ConcatAssociative
      <4> QED BY <4>2, <4>3
    <3>8. Pieces(r) = Pieces(p) \o x
      BY <2>3, <3>2
    <3>9. Pieces(r + 1) = Pieces(p) \o y
      BY <3>5, <3>6, <3>7, <3>8
    <3> QED BY <3>2, <3>9
  <2>8. p + (m + 1) = r + 1 /\ m + 1 \in 0..n
    BY <2>2
  <2>9. /\ ~Marker(p + (m + 1)) /\ Open[p + (m + 1)] = [quote |-> "none", escaped |-> FALSE]
        /\ Number(p + (m + 1)) = Number(p)
    BY <2>5, <2>6, <2>8
  <2>10. Pieces(p + (m + 1)) = Pieces(p) \o [k \in 1..m + 1 |-> Char(text[p + k])]
    BY <2>7, <2>8
  <2> QED BY <2>8, <2>9, <2>10
<1> HIDE DEF T
<1>4. 0..n \subseteq T
  BY <1>2, <1>3, IntervalInduction
<1>5. n \in T
  BY <1>4
<1> QED BY <1>5 DEF T

\* What is defined on the call stays the same in it.
LEMMA CallKept ==
    ASSUME call' = call
    PROVE  /\ text' = text /\ args' = args /\ given' = given /\ raw' = raw
           /\ Open' = Open /\ \A p : Marker(p)' = Marker(p) /\ Number(p)' = Number(p)
           /\ \A p : Pieces(p)' = Pieces(p) /\ Rewritten' = Rewritten
           /\ \A n : ArgAt(n)' = ArgAt(n)
           /\ \A b : WellBound(b)' <=> WellBound(b)
           /\ \A k : BoundUpTo(k)' = BoundUpTo(k) /\ (Passes(k)' <=> Passes(k))
<1>1. text' = text /\ args' = args /\ given' = given /\ raw' = raw
  BY DEF call
<1>2. Open' = Open
  BY <1>1 DEF Open
<1>3. \A p : Outside(p)' = Outside(p)
  BY <1>2 DEF Outside
<1>4. \A p : Marker(p)' = Marker(p)
  BY <1>1, <1>3 DEF Marker
<1>5. \A p : Number(p)' = Number(p)
  BY <1>4 DEF Number
<1>6. \A n : ArgAt(n)' = ArgAt(n)
  BY <1>1 DEF ArgAt
<1>7. \A p : Piece(p)' = Piece(p)
  BY <1>1, <1>3, <1>4, <1>5, <1>6 DEF Piece
<1>8. \A p : Pieces(p)' = Pieces(p)
  BY <1>7 DEF Pieces
<1>9. Rewritten' = Rewritten
  BY <1>1, <1>7 DEF Rewritten
<1>10. \A n : (Marked(n)' <=> Marked(n)) /\ BoundAt(n)' = BoundAt(n)
  BY <1>6, <1>9 DEF Marked, BoundAt
<1>11. \A k : BoundUpTo(k)' = BoundUpTo(k) /\ (Passes(k)' <=> Passes(k))
  BY <1>6, <1>10 DEF BoundUpTo, Passes
<1>12. \A b : WellBound(b)' <=> WellBound(b)
  BY <1>1, <1>5, <1>6, <1>10, <1>11 DEF WellBound
<1> QED BY <1>1, <1>2, <1>4, <1>5, <1>6, <1>8, <1>9, <1>11, <1>12

-----------------------------------------------------------------------------
(* The names in a text.                                                    *)

\* What is in a sequence and in two put together.
LEMMA ToSetIs ==
    /\ ToSet(<<>>) = {}
    /\ \A e : ToSet(<<e>>) = {e}
    /\ \A s, t \in Seq(Items) : ToSet(s \o t) = ToSet(s) \cup ToSet(t)
<1>1. ToSet(<<>>) = {}
  BY DEF ToSet
<1>2. \A e : ToSet(<<e>>) = {e}
  BY DEF ToSet
<1>3. ASSUME NEW s \in Seq(Items), NEW t \in Seq(Items)
      PROVE  ToSet(s \o t) = ToSet(s) \cup ToSet(t)
  <2>1. Len(s) \in Nat /\ Len(t) \in Nat /\ s \o t \in Seq(Items) /\ Len(s \o t) = Len(s) + Len(t)
    BY LenProperties, ConcatProperties
  <2>2. \A u \in Seq(Items) : ToSet(u) = {u[k] : k \in 1..Len(u)}
    BY DEF ToSet
  <2>3. \A k \in 1..Len(s) : (s \o t)[k] = s[k] /\ k \in 1..Len(s) + Len(t)
    BY <2>1
  <2>4. \A k \in 1..Len(t) : (s \o t)[Len(s) + k] = t[k] /\ Len(s) + k \in 1..Len(s) + Len(t)
    BY <2>1
  <2>5. \A k \in 1..Len(s) + Len(t) : k \in 1..Len(s) \/ (k - Len(s) \in 1..Len(t)
                                                          /\ Len(s) + (k - Len(s)) = k)
    BY <2>1
  <2>6. PICK u : u = s \o t
    OBVIOUS
  <2>7. ToSet(u) \subseteq ToSet(s) \cup ToSet(t)
    <3>1. ASSUME NEW e \in ToSet(u)
          PROVE  e \in ToSet(s) \cup ToSet(t)
      <4>4. u \in Seq(Items) /\ Len(u) = Len(s) + Len(t)
        BY <2>1, <2>6
      <4>5. ToSet(u) = {u[k] : k \in 1..Len(u)}
        BY <2>2, <4>4
      <4>1. PICK k \in 1..Len(s) + Len(t) : e = u[k]
        BY <4>4, <4>5
      <4>2. CASE k \in 1..Len(s)
        BY <2>2, <2>3, <2>6, <4>1, <4>2
      <4>3. CASE k \notin 1..Len(s)
        BY <2>2, <2>4, <2>5, <2>6, <4>1, <4>3
      <4> QED BY <4>2, <4>3
    <3> QED BY <3>1
  <2>8. ToSet(s) \cup ToSet(t) \subseteq ToSet(u)
    <3>1. ASSUME NEW e \in ToSet(s)
          PROVE  e \in ToSet(u)
      <4>1. PICK k \in 1..Len(s) : e = s[k]
        BY <2>2
      <4>2. k \in 1..Len(u) /\ e = u[k]
        BY <2>1, <2>3, <2>6, <4>1
      <4> QED BY <2>1, <2>2, <2>6, <4>2
    <3>2. ASSUME NEW e \in ToSet(t)
          PROVE  e \in ToSet(u)
      <4>1. PICK k \in 1..Len(t) : e = t[k]
        BY <2>2
      <4>2. Len(s) + k \in 1..Len(u) /\ e = u[Len(s) + k]
        BY <2>1, <2>4, <2>6, <4>1
      <4> QED BY <2>1, <2>2, <2>6, <4>2
    <3> QED BY <3>1, <3>2
  <2> QED BY <2>6, <2>7, <2>8
<1> QED BY <1>1, <1>2, <1>3

\* The list goes on naming what is read.
LEMMA ListsMore ==
    ASSUME NEW list \in Seq({"v", "d"}), NEW read \in Seq(Items), NEW x \in Seq(Items),
           Lists(list, read)
    PROVE  /\ (\A n \in Nat : ParName(n) \notin ToSet(x)) =>
                Lists(list, read \o x) /\ Lists(Append(list, "d"), read \o x)
           /\ ToSet(x) = {ParName(Len(list) + 1)} => Lists(Append(list, "v"), read \o x)
<1>1. Len(list) \in Nat
  BY LenProperties
<1>2. ToSet(read \o x) = ToSet(read) \cup ToSet(x)
  BY ToSetIs
<1>3. ASSUME NEW mark \in {"v", "d"}
      PROVE  /\ Len(Append(list, mark)) = Len(list) + 1
             /\ Append(list, mark)[Len(list) + 1] = mark
             /\ \A n \in 1..Len(list) : Append(list, mark)[n] = list[n]
  BY <1>1
<1>4. \A n \in Nat : n \in 1..Len(list) + 1 <=> n \in 1..Len(list) \/ n = Len(list) + 1
  BY <1>1
<1>5. ASSUME \A n \in Nat : ParName(n) \notin ToSet(x)
      PROVE  Lists(list, read \o x) /\ Lists(Append(list, "d"), read \o x)
  <2>1. \A n \in Nat : ParName(n) \in ToSet(read \o x) <=> ParName(n) \in ToSet(read)
    BY <1>2, <1>5
  <2> QED BY <1>1, <1>3, <1>4, <2>1 DEF Lists
<1>6. ASSUME ToSet(x) = {ParName(Len(list) + 1)}
      PROVE  Lists(Append(list, "v"), read \o x)
  <2>1. \A n \in Nat : ParName(n) = ParName(Len(list) + 1) <=> n = Len(list) + 1
    BY <1>1 DEF ParName
  <2>2. \A n \in Nat : ParName(n) \in ToSet(read \o x)
                         <=> ParName(n) \in ToSet(read) \/ n = Len(list) + 1
    BY <1>2, <1>6, <2>1
  <2>3. Len(list) + 1 \notin 1..Len(list)
    BY <1>1
  <2> QED BY <1>1, <1>3, <1>4, <2>2, <2>3 DEF Lists
<1> QED BY <1>5, <1>6

-----------------------------------------------------------------------------
(* The steps of the scan.                                                  *)

\* The call is one of the inputs.
LEMMA CallIsTyped == TypeOK => CallTyped
BY InputsAssumption DEF TypeOK, CallTyped

\* What a step that goes on with the scan has to do.
LEMMA ScanStep ==
    ASSUME QueryInv, pc = "scan", pc' = "scan", call' = call, UNCHANGED <<i, bound, sent>>,
           placeholders' \in Seq(Seq(Letters)), paramList' \in Seq({"v", "d"}),
           pos' \in 0..Len(text), quote' \in {"none", "dquote", "'"}, cmd' = Pieces(pos'),
           Open[pos'] = [quote |-> quote', escaped |-> FALSE], ~Marker(pos'),
           Len(paramList') = Number(pos'), Lists(paramList', cmd')
    PROVE  QueryInv'
<1>1. CallTyped /\ TypeOK /\ Len(sent) < MaxSends /\ ~raw /\ i = 0 /\ bound = <<>>
  BY CallIsTyped DEF QueryInv, TypeInv, ScanInv, Halted
<1>2. cmd' \in Seq(Items)
  BY <1>1, PiecesIs
<1>3. /\ text' = text /\ args' = args /\ given' = given /\ raw' = raw
      /\ Open' = Open /\ \A p : Marker(p)' = Marker(p) /\ Number(p)' = Number(p)
      /\ \A p : Pieces(p)' = Pieces(p) /\ Rewritten' = Rewritten
      /\ \A b : WellBound(b)' <=> WellBound(b)
  BY CallKept
<1>4. TypeOK'
  <2>1. Len(paramList') \in Nat
    BY LenProperties
  <2>2. i' = 0 /\ bound' = bound /\ sent' = sent
    BY <1>1
  <2>3. i' \in 0..Len(paramList')
    BY <2>1, <2>2
  <2> QED BY <1>1, <1>2, <1>3, <2>2, <2>3 DEF TypeOK, Items
<1>5. TypeInv' /\ CallInv'
  BY <1>1, <1>3, <1>4 DEF QueryInv, TypeInv, CallInv
<1>6. ScanInv'
  <2>1. Open'[pos'] = Open[pos'] /\ Marker(pos)' = Marker(pos')
        /\ Pieces(pos)' = Pieces(pos') /\ Number(pos)' = Number(pos')
    BY <1>3
  <2> QED BY <1>1, <1>3, <2>1 DEF ScanInv
<1>7. ReadInv' /\ BindInv' /\ OverrunOnlyUnbalanced'
  BY DEF ReadInv, BindInv, OverrunOnlyUnbalanced
<1>8. SentInv'
  BY <1>3 DEF QueryInv, SentInv
<1> QED BY <1>5, <1>6, <1>7, <1>8 DEF QueryInv

\* A step that only changes where control is, and that ends the scan.
LEMMA StopStep ==
    ASSUME QueryInv, NEW where \in Halted, pc \notin Halted, Stop(where),
           where = "overrun" => Open[Len(text)].quote # "none"
    PROVE  QueryInv'
<1>1. /\ call' = call /\ pc' = where
      /\ UNCHANGED <<pos, quote, cmd, paramList, placeholders, i, bound, sent>>
  BY DEF Stop, query
<1>2. /\ text' = text /\ args' = args /\ given' = given /\ raw' = raw
      /\ Open' = Open /\ Rewritten' = Rewritten /\ \A b : WellBound(b)' <=> WellBound(b)
  BY <1>1, CallKept
<1>3. TypeInv' /\ CallInv'
  <2>1. TypeOK'
    BY <1>1, <1>2 DEF QueryInv, TypeInv, TypeOK
  <2> QED BY <1>1, <1>2, <2>1 DEF QueryInv, TypeInv, CallInv
<1>4. ScanInv' /\ ReadInv' /\ BindInv'
  BY <1>1 DEF Halted, ScanInv, ReadInv, BindInv
<1>5. SentInv' /\ OverrunOnlyUnbalanced'
  BY <1>1, <1>2 DEF QueryInv, SentInv, OverrunOnlyUnbalanced
<1> QED BY <1>3, <1>4, <1>5 DEF QueryInv

\* What is known in the scan.
LEMMA ScanFacts ==
    ASSUME QueryInv, pc = "scan"
    PROVE  /\ CallTyped /\ TypeOK /\ Len(text) \in Nat /\ DOMAIN text = 1..Len(text)
           /\ pos \in 0..Len(text) /\ paramList \in Seq({"v", "d"})
           /\ placeholders \in Seq(Seq(Letters)) /\ quote \in {"none", "dquote", "'"}
           /\ Open[pos] = [quote |-> quote, escaped |-> FALSE] /\ ~Marker(pos)
           /\ cmd = Pieces(pos) /\ cmd \in Seq(Items)
           /\ Len(paramList) = Number(pos) /\ Lists(paramList, cmd)
<1>1. TypeOK /\ CallTyped
  BY CallIsTyped DEF QueryInv, TypeInv
<1>2. Len(text) \in Nat /\ DOMAIN text = 1..Len(text)
  BY <1>1, LenProperties DEF CallTyped
<1> QED BY <1>1, <1>2, PiecesIs DEF QueryInv, ScanInv, TypeOK

\* A character outside of strings that is neither "%" nor ":" is taken as it is.
LEMMA PlainKeeps ==
    ASSUME QueryInv, Scanning, Read(1) \notin {"%", ":", "NUL"}, call' = call,
           UNCHANGED <<pc, paramList, placeholders, i, bound, sent>>,
           pos' = pos + 1, cmd' = cmd \o <<Char(Read(1))>>,
           quote' = IF Read(1) \in {"dquote", "'"} THEN Read(1) ELSE "none"
    PROVE  QueryInv'
<1>1. pc = "scan" /\ quote = "none"
  BY DEF Scanning
<1>2. PICK c : c = Read(1)
  OBVIOUS
<1>3. /\ CallTyped /\ TypeOK /\ Len(text) \in Nat /\ DOMAIN text = 1..Len(text)
      /\ pos \in 0..Len(text) /\ paramList \in Seq({"v", "d"})
      /\ placeholders \in Seq(Seq(Letters))
      /\ Open[pos] = [quote |-> "none", escaped |-> FALSE] /\ ~Marker(pos)
      /\ cmd = Pieces(pos) /\ cmd \in Seq(Items)
      /\ Len(paramList) = Number(pos) /\ Lists(paramList, cmd)
  BY <1>1, ScanFacts
<1>4. pos + 1 <= Len(text) /\ c = text[pos + 1] /\ pos \in Nat /\ pos + 1 \in 0..Len(text)
  BY <1>2, <1>3 DEF Read
<1>5. /\ ~Marker(pos + 1) /\ c \in Chars
      /\ Open[pos + 1] = [quote |-> quote', escaped |-> FALSE]
      /\ Piece(pos + 1) = <<Char(c)>>
  BY <1>2, <1>3, <1>4, OutsideIs
<1>6. Number(pos + 1) = Number(pos)
  BY <1>4, <1>5, NumberIs
<1>7. cmd' = Pieces(pos')
  BY <1>2, <1>3, <1>4, <1>5, PiecesIs
<1>8. Lists(paramList', cmd')
  <2>1. PICK x : x = <<Char(c)>>
    OBVIOUS
  <2>2. x \in Seq(Items)
    BY <1>5, <2>1 DEF Char, Items
  <2>3. \A n \in Nat : ParName(n) \notin ToSet(x)
    BY <1>5, <2>1, ToSetIs DEF Char, ParName, Chars, Letters
  <2>4. Lists(paramList, cmd \o x)
    BY <1>3, <2>2, <2>3, ListsMore
  <2> QED BY <1>2, <2>1, <2>4
<1>9. quote' \in {"none", "dquote", "'"}
  OBVIOUS
<1>10. pc' = "scan" /\ paramList' = paramList /\ placeholders' = placeholders
       /\ pos' \in 0..Len(text) /\ ~Marker(pos') /\ Len(paramList') = Number(pos')
       /\ Open[pos'] = [quote |-> quote', escaped |-> FALSE]
  BY <1>1, <1>3, <1>4, <1>5, <1>6
<1> QED BY <1>1, <1>3, <1>7, <1>8, <1>9, <1>10, ScanStep

\* A quote opens a string.
LEMMA OpenQuoteKeeps == QueryInv /\ OpenQuote => QueryInv'
<1> SUFFICES ASSUME QueryInv, OpenQuote PROVE QueryInv'
  OBVIOUS
<1>1. /\ Scanning /\ Read(1) \notin {"%", ":", "NUL"} /\ call' = call
      /\ UNCHANGED <<pc, paramList, placeholders, i, bound, sent>>
      /\ pos' = pos + 1
      /\ quote' = IF Read(1) \in {"dquote", "'"} THEN Read(1) ELSE "none"
  BY DEF OpenQuote
<1>2. cmd' = cmd \o <<Char(Read(1))>>
  <2>1. cmd \in Seq(Items)
    BY <1>1, ScanFacts DEF Scanning
  <2>2. cmd' = Append(cmd, Char(Read(1)))
    BY DEF OpenQuote
  <2> QED BY <2>1, <2>2
<1> QED BY <1>1, <1>2, PlainKeeps

\* Any other character is copied.
LEMMA PlainCharKeeps == QueryInv /\ PlainChar => QueryInv'
<1> SUFFICES ASSUME QueryInv, PlainChar PROVE QueryInv'
  OBVIOUS
<1>1. /\ Scanning /\ Read(1) \notin {"%", ":", "NUL"} /\ Read(1) \notin {"dquote", "'"}
      /\ call' = call /\ UNCHANGED <<pc, paramList, placeholders, i, bound, sent>>
      /\ pos' = pos + 1 /\ cmd' = cmd \o <<Char(Read(1))>> /\ quote' = quote
  BY DEF PlainChar, Letters, Scan
<1>2. quote' = IF Read(1) \in {"dquote", "'"} THEN Read(1) ELSE "none"
  BY <1>1 DEF Scanning
<1> QED BY <1>1, <1>2, PlainKeeps

\* Characters that are copied name no parameter.
LEMMA ListsChars ==
    ASSUME NEW list \in Seq({"v", "d"}), NEW read \in Seq(Items), NEW x \in Seq(Items),
           Lists(list, read), \A k \in 1..Len(x) : x[k].is # "@par"
    PROVE  Lists(list, read \o x) /\ Lists(Append(list, "d"), read \o x)
<1>1. \A n \in Nat : ParName(n) \notin ToSet(x)
  BY DEF ToSet, ParName
<1> QED BY <1>1, ListsMore

\* In a string up to two characters are taken; at the end of the text the
\* string is still open.
LEMMA InStringKeeps == QueryInv /\ InString => QueryInv'
<1> SUFFICES ASSUME QueryInv, InString PROVE QueryInv'
  OBVIOUS
<1>1. pc = "scan" /\ quote # "none"
  BY DEF InString
<1>2. /\ CallTyped /\ TypeOK /\ Len(text) \in Nat /\ DOMAIN text = 1..Len(text)
      /\ pos \in 0..Len(text) /\ paramList \in Seq({"v", "d"})
      /\ placeholders \in Seq(Seq(Letters)) /\ quote \in {"dquote", "'"}
      /\ Open[pos] = [quote |-> quote, escaped |-> FALSE] /\ ~Marker(pos)
      /\ cmd = Pieces(pos) /\ cmd \in Seq(Items)
      /\ Len(paramList) = Number(pos) /\ Lists(paramList, cmd)
  BY <1>1, ScanFacts
<1>3. PICK c : c = Read(1)
  OBVIOUS
<1>4. PICK taken : taken = IF c = "\\" THEN 2 ELSE 1
  OBVIOUS
<1>5. \/ pos + taken > Len(text) /\ Stop("overrun")
      \/ /\ pos + taken <= Len(text)
         /\ pos' = pos + taken
         /\ cmd' = cmd \o [k \in 1..taken |-> Char(Read(k))]
         /\ quote' = IF c = quote THEN "none" ELSE quote
         /\ UNCHANGED <<call, pc, paramList, placeholders, i, bound, sent>>
  BY <1>3, <1>4 DEF InString, Escapes, Stop
<1>6. ASSUME pos + 1 <= Len(text)
      PROVE  /\ c = text[pos + 1] /\ c \in Chars
             /\ ~Marker(pos + 1) /\ Piece(pos + 1) = <<Char(c)>>
             /\ Open[pos + 1] = [quote   |-> IF c = quote THEN "none" ELSE quote,
                                 escaped |-> c = "\\"]
             /\ Number(pos + 1) = Number(pos) /\ pos \in Nat
  <2>1. pos \in Nat /\ pos + 1 \in 1..Len(text)
    BY <1>2, <1>6
  <2>2. c = text[pos + 1]
    BY <1>2, <1>3, <2>1 DEF Read
  <2>3. PICK e \in BOOLEAN : e = FALSE
    OBVIOUS
  <2>4. /\ ~Marker(pos + 1) /\ Piece(pos + 1) = <<Char(text[pos + 1])>>
        /\ text[pos + 1] \in Chars
        /\ Open[pos + 1] = [quote   |-> IF text[pos + 1] = quote /\ ~e THEN "none" ELSE quote,
                            escaped |-> text[pos + 1] = "\\" /\ ~e]
    <3>1. Open[pos] = [quote |-> quote, escaped |-> e]
      BY <1>2, <2>3
    <3> QED BY <1>1, <1>2, <1>6, <3>1, InsideIs
  <2>5. Number(pos + 1) = Number(pos)
    BY <2>1, <2>4, NumberIs
  <2> QED BY <2>1, <2>2, <2>3, <2>4, <2>5
<1>7. CASE pos + taken > Len(text) /\ Stop("overrun")
  <2>1. taken \in {1, 2} /\ (taken = 2 => c = "\\")
    BY <1>4
  <2>2. pos \in Nat /\ Len(text) \in Nat /\ pos <= Len(text) /\ pos + taken > Len(text)
    BY <1>2, <1>7
  <2>3. pos = Len(text) \/ (pos + 1 = Len(text) /\ taken = 2)
    BY <2>1, <2>2
  <2>4. pos = Len(text) => Open[Len(text)].quote # "none"
    BY <1>1, <1>2
  <2>5. pos + 1 = Len(text) /\ taken = 2 => Open[Len(text)].quote # "none"
    <3>1. SUFFICES ASSUME pos + 1 = Len(text), taken = 2
                   PROVE  Open[Len(text)].quote # "none"
      OBVIOUS
    <3>2. pos + 1 <= Len(text) /\ c = "\\" /\ c # quote
      BY <1>2, <2>1, <3>1
    <3>3. Open[pos + 1].quote = quote
      BY <1>6, <3>2
    <3> QED BY <1>1, <3>1, <3>3
  <2> QED BY <1>1, <1>7, <2>3, <2>4, <2>5, StopStep DEF Halted
<1>8. CASE /\ pos + taken <= Len(text)
           /\ pos' = pos + taken
           /\ cmd' = cmd \o [k \in 1..taken |-> Char(Read(k))]
           /\ quote' = IF c = quote THEN "none" ELSE quote
           /\ UNCHANGED <<call, pc, paramList, placeholders, i, bound, sent>>
  <2>1. pos + 1 <= Len(text) /\ pos \in Nat /\ pos' \in 0..Len(text)
    BY <1>2, <1>4, <1>8
  <2>2. Char(c) \in Items /\ Char(c).is # "@par"
    BY <1>6, <2>1 DEF Char, Items, Chars, Letters
  <2>3. CASE c # "\\"
    <3>1. taken = 1 /\ pos' = pos + 1
      BY <1>4, <1>8, <2>3
    <3>2. PICK x : x = <<Char(c)>>
      OBVIOUS
    <3>3. x \in Seq(Items) /\ Len(x) = 1 /\ x[1] = Char(c) /\ \A k \in 1..Len(x) : x[k].is # "@par"
      BY <2>2, <3>2
    <3>4. [k \in 1..1 |-> Char(Read(k))] = x
      BY <1>3, <3>2
    <3>5. cmd' = cmd \o x
      BY <1>8, <3>1, <3>4
    <3>6. cmd' = Pieces(pos')
      BY <1>2, <1>6, <2>1, <3>1, <3>2, <3>5, PiecesIs
    <3>7. Lists(paramList', cmd')
      BY <1>2, <1>8, <3>3, <3>5, ListsChars
    <3>8. /\ ~Marker(pos') /\ Open[pos'] = [quote |-> quote', escaped |-> FALSE]
          /\ Number(pos') = Len(paramList') /\ quote' \in {"none", "dquote", "'"}
      BY <1>2, <1>6, <1>8, <2>1, <2>3, <3>1
    <3>9. pc' = "scan" /\ placeholders' \in Seq(Seq(Letters)) /\ paramList' \in Seq({"v", "d"})
      BY <1>1, <1>2, <1>8
    <3> QED BY <1>1, <1>8, <2>1, <3>6, <3>7, <3>8, <3>9, ScanStep
  <2>4. CASE c = "\\"
    <3>1. taken = 2 /\ pos' = pos + 2 /\ (pos + 1) + 1 = pos + 2 /\ c # quote
          /\ pos + 1 \in 0..Len(text) /\ (pos + 1) + 1 <= Len(text) /\ pos + 2 \in 1..Len(text)
      BY <1>2, <1>4, <1>8, <2>1, <2>4
    <3>2. PICK d : d = Read(2)
      OBVIOUS
    <3>3. d = text[pos + 2]
      BY <1>2, <3>1, <3>2 DEF Read
    <3>4. Open[pos + 1] = [quote |-> quote, escaped |-> TRUE]
      BY <1>6, <2>1, <2>4, <3>1
    <3>5. PICK e \in BOOLEAN : e = TRUE
      OBVIOUS
    <3>6. /\ ~Marker((pos + 1) + 1) /\ Piece((pos + 1) + 1) = <<Char(text[(pos + 1) + 1])>>
          /\ text[(pos + 1) + 1] \in Chars
          /\ Open[(pos + 1) + 1] =
               [quote   |-> IF text[(pos + 1) + 1] = quote /\ ~e THEN "none" ELSE quote,
                escaped |-> text[(pos + 1) + 1] = "\\" /\ ~e]
      <4>1. Open[pos + 1] = [quote |-> quote, escaped |-> e] /\ ~Marker(pos + 1)
        BY <1>6, <2>1, <3>4, <3>5
      <4> QED BY <1>1, <1>2, <3>1, <4>1, InsideIs
    <3>7. /\ ~Marker(pos + 2) /\ Piece(pos + 2) = <<Char(d)>> /\ d \in Chars
          /\ Open[pos + 2] = [quote |-> quote, escaped |-> FALSE]
      BY <3>1, <3>3, <3>5, <3>6
    <3>8. Number(pos + 2) = Number(pos)
      <4>1. Number((pos + 1) + 1) = Number(pos + 1)
        BY <2>1, <3>1, <3>7, NumberIs
      <4> QED BY <1>6, <2>1, <3>1, <4>1
    <3>9. Char(d) \in Items /\ Char(d).is # "@par"
      BY <3>7 DEF Char, Items, Chars, Letters
    <3>10. PICK one, two, x : one = <<Char(c)>> /\ two = <<Char(d)>> /\ x = <<Char(c), Char(d)>>
      OBVIOUS
    <3>11. /\ one \in Seq(Items) /\ two \in Seq(Items) /\ x \in Seq(Items) /\ x = one \o two
           /\ \A k \in 1..Len(x) : x[k].is # "@par"
      BY <2>2, <3>9, <3>10
    <3>12. [k \in 1..2 |-> Char(Read(k))] = x
      BY <1>3, <3>2, <3>10
    <3>13. cmd' = cmd \o x
      BY <1>8, <3>1, <3>12
    <3>14. cmd' = Pieces(pos')
      <4>1. Pieces(pos + 1) = cmd \o one
        BY <1>2, <1>6, <2>1, <3>10, PiecesIs
      <4>2. Pieces(pos + 2) = Pieces(pos + 1) \o two
        BY <1>2, <3>1, <3>7, <3>10, PiecesIs
      <4>3. (cmd \o one) \o two = cmd \o (one \o two)
        <5>1. PICK u, v, w \in Seq(Items) : u = cmd /\ v = one /\ w = two
          BY <1>2, <3>11
        <5>2. (u \o v) \o w = u \o (v \o w)
          BY ConcatAssociative
        <5> QED BY <5>1, <5>2
      <4> QED BY <3>1, <3>11, <3>13, <4>1, <4>2, <4>3
    <3>15. Lists(paramList', cmd')
      BY <1>2, <1>8, <3>11, <3>13, ListsChars
    <3>16. /\ ~Marker(pos') /\ Open[pos'] = [quote |-> quote', escaped |-> FALSE]
           /\ Number(pos') = Len(paramList') /\ quote' \in {"none", "dquote", "'"}
      BY <1>2, <1>8, <3>1, <3>7, <3>8
    <3>17. pc' = "scan" /\ placeholders' \in Seq(Seq(Letters)) /\ paramList' \in Seq({"v", "d"})
      BY <1>1, <1>2, <1>8
    <3> QED BY <1>1, <1>8, <2>1, <3>14, <3>15, <3>16, <3>17, ScanStep
  <2> QED BY <2>3, <2>4
<1> QED BY <1>5, <1>7, <1>8

\* A parameter of either kind takes two characters.
LEMMA MarkerFacts ==
    ASSUME QueryInv, Scanning, Read(1) = "%", Read(2) \in {"v", "d", "s"}
    PROVE  /\ pos + 2 \in 0..Len(text) /\ ~Marker(pos + 2)
           /\ Open[pos + 2] = [quote |-> "none", escaped |-> FALSE]
           /\ Number(pos + 2) = Number(pos) + 1
           /\ Pieces(pos + 2) =
                cmd \o IF Read(2) = "v" THEN <<ParName(Len(paramList) + 1)>>
                       ELSE <<Inserted(ArgAt(Len(paramList) + 1).id)>>
           /\ ParName(Len(paramList) + 1) \in Items
           /\ Inserted(ArgAt(Len(paramList) + 1).id) \in Items
<1>1. pc = "scan" /\ quote = "none"
  BY DEF Scanning
<1>2. /\ CallTyped /\ Len(text) \in Nat /\ DOMAIN text = 1..Len(text)
      /\ pos \in 0..Len(text)
      /\ Open[pos] = [quote |-> "none", escaped |-> FALSE] /\ ~Marker(pos)
      /\ cmd = Pieces(pos) /\ cmd \in Seq(Items) /\ Len(paramList) = Number(pos)
  BY <1>1, ScanFacts
<1>3. /\ pos + 1 \in 1..Len(text) /\ text[pos + 1] = "%"
      /\ pos + 2 \in 1..Len(text) /\ text[pos + 2] = Read(2)
  BY <1>2 DEF Read
<1>4. /\ pos \in Nat /\ pos + 1 \in 0..Len(text) /\ pos + 1 <= Len(text)
      /\ (pos + 1) + 1 = pos + 2 /\ (pos + 1) + 1 <= Len(text) /\ pos + 2 \in 0..Len(text)
      /\ pos + 1 \in Nat
  BY <1>2, <1>3
<1>5. PICK m, c : m = text[pos + 1] /\ c = text[(pos + 1) + 1]
  OBVIOUS
<1>6. m = "%" /\ c = Read(2) /\ c \notin {"%", ":", "dquote", "'"}
  BY <1>3, <1>4, <1>5
<1>7. /\ Marker(pos + 1) /\ Open[pos + 1] = [quote |-> "none", escaped |-> FALSE]
      /\ Piece(pos + 1) = IF text[pos + 2] = "v" THEN <<ParName(Number(pos + 1))>>
                          ELSE <<Inserted(ArgAt(Number(pos + 1)).id)>>
  BY <1>2, <1>4, <1>5, <1>6, OutsideIs
<1>8. /\ ~Marker((pos + 1) + 1) /\ Piece((pos + 1) + 1) = <<>>
      /\ Open[(pos + 1) + 1] = [quote |-> "none", escaped |-> FALSE]
  BY <1>2, <1>4, <1>5, <1>6, <1>7, OutsideIs
<1>9. Number(pos + 1) = Number(pos) + 1 /\ Number((pos + 1) + 1) = Number(pos + 1)
      /\ Number(pos) \in Nat
  BY <1>4, <1>7, <1>8, NumberIs
<1>10. PICK piece : piece = IF Read(2) = "v" THEN <<ParName(Len(paramList) + 1)>>
                            ELSE <<Inserted(ArgAt(Len(paramList) + 1).id)>>
  OBVIOUS
<1>11. Piece(pos + 1) = piece
  BY <1>2, <1>3, <1>7, <1>9, <1>10
<1>12. Pieces(pos + 2) = cmd \o piece
  <2>1. Pieces(pos + 1) = cmd \o piece /\ Pieces(pos + 1) \in Seq(Items)
    BY <1>2, <1>4, <1>11, PiecesIs
  <2>2. Pieces((pos + 1) + 1) = Pieces(pos + 1) \o <<>>
    BY <1>2, <1>4, <1>8, PiecesIs
  <2>3. Pieces(pos + 1) \o <<>> = Pieces(pos + 1)
    BY <2>1, ConcatEmptySeq
  <2> QED BY <1>4, <2>1, <2>2, <2>3
<1>13. Len(paramList) + 1 \in Nat /\ ArgAt(Len(paramList) + 1).id \in Nat
  <2>1. Len(paramList) + 1 \in Nat
    BY <1>2, <1>9
  <2> QED BY <1>2, <2>1, ArgAtType
<1>14. /\ ParName(Len(paramList) + 1) \in Items
       /\ Inserted(ArgAt(Len(paramList) + 1).id) \in Items
  BY <1>13 DEF ParName, Inserted, Items
<1> QED BY <1>4, <1>8, <1>9, <1>10, <1>12, <1>14

\* A %v is named by its place in the list.
LEMMA ValueParameterKeeps == QueryInv /\ ValueParameter => QueryInv'
<1> SUFFICES ASSUME QueryInv, ValueParameter PROVE QueryInv'
  OBVIOUS
<1>1. /\ Scanning /\ Read(1) = "%" /\ Read(2) = "v" /\ pc = "scan" /\ quote = "none"
      /\ pos' = pos + 2 /\ cmd' = cmd \o <<ParName(Len(paramList) + 1)>>
      /\ paramList' = Append(paramList, "v") /\ UNCHANGED <<pc, placeholders>>
      /\ call' = call /\ UNCHANGED <<quote, i, bound, sent>>
  BY DEF ValueParameter, Scanning, Scan, ParNumber
<1>2. /\ paramList \in Seq({"v", "d"}) /\ placeholders \in Seq(Seq(Letters))
      /\ cmd \in Seq(Items) /\ Len(paramList) = Number(pos) /\ Lists(paramList, cmd)
  BY <1>1, ScanFacts
<1>3. /\ pos + 2 \in 0..Len(text) /\ ~Marker(pos + 2)
      /\ Open[pos + 2] = [quote |-> "none", escaped |-> FALSE]
      /\ Number(pos + 2) = Number(pos) + 1
      /\ Pieces(pos + 2) = cmd \o <<ParName(Len(paramList) + 1)>>
      /\ ParName(Len(paramList) + 1) \in Items
  BY <1>1, MarkerFacts
<1>4. PICK x : x = <<ParName(Len(paramList) + 1)>>
  OBVIOUS
<1>5. x \in Seq(Items) /\ ToSet(x) = {ParName(Len(paramList) + 1)}
  BY <1>3, <1>4, ToSetIs
<1>6. Lists(Append(paramList, "v"), cmd \o x)
  BY <1>2, <1>5, ListsMore
<1>7. paramList' \in Seq({"v", "d"}) /\ Len(paramList') = Len(paramList) + 1
  BY <1>1, <1>2
<1>8. Lists(paramList', cmd') /\ cmd' = Pieces(pos')
  BY <1>1, <1>3, <1>4, <1>6
<1>9. /\ pc' = "scan" /\ placeholders' \in Seq(Seq(Letters)) /\ pos' \in 0..Len(text)
      /\ quote' \in {"none", "dquote", "'"} /\ ~Marker(pos') /\ Len(paramList') = Number(pos')
      /\ Open[pos'] = [quote |-> quote', escaped |-> FALSE]
  BY <1>1, <1>2, <1>3, <1>7
<1> QED BY <1>1, <1>7, <1>8, <1>9, ScanStep

\* A %d or %s names nothing.
LEMMA TextParameterKeeps == QueryInv /\ TextParameter => QueryInv'
<1> SUFFICES ASSUME QueryInv, TextParameter PROVE QueryInv'
  OBVIOUS
<1>1. /\ Scanning /\ Read(1) = "%" /\ Read(2) \in {"d", "s"} /\ pc = "scan" /\ quote = "none"
      /\ pos' = pos + 2 /\ cmd' = cmd \o <<Inserted(ArgAt(Len(paramList) + 1).id)>>
      /\ paramList' = Append(paramList, "d") /\ UNCHANGED <<pc, placeholders>>
      /\ call' = call /\ UNCHANGED <<quote, i, bound, sent>>
  BY DEF TextParameter, Scanning, Scan, AfterInsertion
<1>2. /\ paramList \in Seq({"v", "d"}) /\ placeholders \in Seq(Seq(Letters))
      /\ cmd \in Seq(Items) /\ Len(paramList) = Number(pos) /\ Lists(paramList, cmd)
  BY <1>1, ScanFacts
<1>3. /\ pos + 2 \in 0..Len(text) /\ ~Marker(pos + 2)
      /\ Open[pos + 2] = [quote |-> "none", escaped |-> FALSE]
      /\ Number(pos + 2) = Number(pos) + 1
      /\ Pieces(pos + 2) = cmd \o <<Inserted(ArgAt(Len(paramList) + 1).id)>>
      /\ Inserted(ArgAt(Len(paramList) + 1).id) \in Items
  BY <1>1, MarkerFacts
<1>4. PICK x : x = <<Inserted(ArgAt(Len(paramList) + 1).id)>>
  OBVIOUS
<1>5. x \in Seq(Items) /\ \A k \in 1..Len(x) : x[k].is # "@par"
  BY <1>3, <1>4 DEF Inserted
<1>6. Lists(Append(paramList, "d"), cmd \o x)
  BY <1>2, <1>5, ListsChars
<1>7. paramList' \in Seq({"v", "d"}) /\ Len(paramList') = Len(paramList) + 1
  BY <1>1, <1>2
<1>8. Lists(paramList', cmd') /\ cmd' = Pieces(pos')
  BY <1>1, <1>3, <1>4, <1>6
<1>9. /\ pc' = "scan" /\ placeholders' \in Seq(Seq(Letters)) /\ pos' \in 0..Len(text)
      /\ quote' \in {"none", "dquote", "'"} /\ ~Marker(pos') /\ Len(paramList') = Number(pos')
      /\ Open[pos'] = [quote |-> quote', escaped |-> FALSE]
  BY <1>1, <1>2, <1>3, <1>7
<1> QED BY <1>1, <1>7, <1>8, <1>9, ScanStep

\* A refused text ends the call.
LEMMA RefuseKeeps == QueryInv /\ Refuse => QueryInv'
<1> SUFFICES ASSUME QueryInv, Refuse PROVE QueryInv'
  OBVIOUS
<1>1. pc \notin Halted /\ Stop("refused")
  BY DEF Refuse, Scanning, Stop, Halted
<1> QED BY <1>1, StopStep DEF Halted

\* A finite set of numbers has a largest one.
LEMMA MaxIs ==
    ASSUME NEW n \in Nat, NEW S, S \subseteq 0..n, S # {}
    PROVE  Max(S) \in S
<1> DEFINE T == {n - m : m \in S}
<1>1. T \subseteq Nat /\ T # {}
  OBVIOUS
<1>2. PICK t \in T : \A u \in T : t <= u
  BY <1>1, LeastElement
<1>3. PICK m \in S : t = n - m
  BY <1>2
<1>4. \A k \in S : n - k \in T
  OBVIOUS
<1>5. \A k \in S : m >= k
  <2>1. TAKE k \in S
  <2>2. n - m <= n - k /\ k \in 0..n /\ m \in 0..n
    BY <1>2, <1>3, <1>4
  <2> QED BY <2>2
<1>6. \E x \in S : \A y \in S : x >= y
  BY <1>5
<1> QED BY <1>6 DEF Max

\* A placeholder gets a mark, and its name is copied.
LEMMA PlaceholderKeeps == QueryInv /\ Placeholder => QueryInv'
<1> SUFFICES ASSUME QueryInv, Placeholder PROVE QueryInv'
  OBVIOUS
<1>1. Scanning /\ Read(1) = ":" /\ NameLength > 0 /\ pc = "scan" /\ quote = "none"
  BY DEF Placeholder, Scanning
<1>2. /\ CallTyped /\ Len(text) \in Nat /\ DOMAIN text = 1..Len(text)
      /\ pos \in 0..Len(text) /\ paramList \in Seq({"v", "d"})
      /\ placeholders \in Seq(Seq(Letters))
      /\ Open[pos] = [quote |-> "none", escaped |-> FALSE] /\ ~Marker(pos)
      /\ cmd = Pieces(pos) /\ cmd \in Seq(Items)
      /\ Len(paramList) = Number(pos) /\ Lists(paramList, cmd)
  BY <1>1, ScanFacts
<1>3. PICK n, p : n = NameLength /\ p = pos + 1
  OBVIOUS
<1>4. pos + 1 \in 1..Len(text) /\ text[pos + 1] = ":" /\ pos \in Nat /\ Len(text) \in Nat
  BY <1>1, <1>2 DEF Read
<1>5. n \in 0..Len(text) - pos - 1 /\ \A k \in 2..n + 1 : Read(k) \in Letters
  <2>1. PICK left \in Nat : left = Len(text) - pos - 1
    <3>1. Len(text) - pos - 1 \in Nat
      BY <1>4
    <3> QED BY <3>1
  <2>2. PICK S : S = {m \in 0..left : \A k \in 2..m + 1 : Read(k) \in Letters}
    OBVIOUS
  <2>3. 0 \in S
    BY <2>1, <2>2
  <2>4. Max(S) \in S
    BY <2>1, <2>2, <2>3, MaxIs
  <2>5. n = Max(S)
    BY <1>3, <2>1, <2>2 DEF NameLength
  <2> QED BY <2>1, <2>2, <2>4, <2>5
<1>6. /\ n \in Nat /\ p \in 0..Len(text) /\ p + n \in 0..Len(text) /\ p + n <= Len(text)
      /\ p = pos + 1 /\ pos + (1 + n) = p + n
  BY <1>2, <1>3, <1>4, <1>5
<1>7. \A k \in 1..n : /\ Read(k + 1) = text[p + k] /\ text[p + k] \in Letters
                      /\ text[p + k] \in Chars
  <2>1. TAKE k \in 1..n
  <2>2. k + 1 \in 2..n + 1 /\ pos + (k + 1) \in 1..Len(text) /\ pos + (k + 1) = p + k
    BY <1>4, <1>6
  <2>3. Read(k + 1) = text[p + k]
    BY <1>2, <2>2 DEF Read
  <2> QED BY <1>5, <2>2, <2>3 DEF Chars
<1>8. PICK name, chars, at : /\ name = [k \in 1..n |-> Read(k + 1)]
                             /\ chars = [k \in 1..n |-> Char(text[p + k])]
                             /\ at = <<Char("@")>>
  OBVIOUS
<1>9. /\ pos' = p + n /\ cmd' = cmd \o (at \o chars)
      /\ placeholders' = Append(placeholders, name)
      /\ call' = call /\ UNCHANGED <<pc, paramList, quote, i, bound, sent>>
  <2>1. /\ pos' = pos + (1 + n)
        /\ cmd' = cmd \o (at \o [k \in 1..n |-> Char(name[k])])
        /\ placeholders' = Append(placeholders, name)
        /\ call' = call /\ UNCHANGED <<pc, paramList, quote, i, bound, sent>>
    BY <1>3, <1>8 DEF Placeholder, Scan
  <2>2. [k \in 1..n |-> Char(name[k])] = chars
    BY <1>7, <1>8
  <2> QED BY <1>6, <2>1, <2>2
<1>10. /\ name \in Seq(Letters) /\ chars \in Seq(Items) /\ Len(chars) = n /\ at \in Seq(Items)
  <2>1. \A k \in 1..n : Read(k + 1) \in Letters
    BY <1>7
  <2>2. name \in Seq(Letters)
    BY <1>6, <1>8, <2>1, IsASeq
  <2>3. \A k \in 1..n : Char(text[p + k]) \in Items
    BY <1>7 DEF Char, Items
  <2>4. chars \in Seq(Items) /\ Len(chars) = n
    BY <1>6, <1>8, <2>3, IsASeq
  <2>5. PICK e : e = Char("@")
    OBVIOUS
  <2>6. e \in Items /\ at = <<e>>
    BY <1>8, <2>5 DEF Char, Items
  <2>7. at \in Seq(Items)
    BY <2>6
  <2> QED BY <2>2, <2>4, <2>7
<1>11. /\ ~Marker(p) /\ Open[p] = [quote |-> "none", escaped |-> FALSE]
       /\ Number(p) = Number(pos) /\ Pieces(p) = cmd \o at
  <2>1. PICK c : c = text[pos + 1]
    OBVIOUS
  <2>2. c = ":" /\ c \notin {"dquote", "'", "%"} /\ pos + 1 <= Len(text)
    BY <1>2, <1>4, <2>1
  <2>3. /\ ~Marker(pos + 1) /\ Open[pos + 1] = [quote |-> "none", escaped |-> FALSE]
        /\ Piece(pos + 1) = at
    BY <1>2, <1>8, <2>1, <2>2, OutsideIs
  <2>4. Number(pos + 1) = Number(pos)
    BY <1>4, <2>3, NumberIs
  <2>5. Pieces(pos + 1) = cmd \o at
    BY <1>2, <2>2, <2>3, PiecesIs
  <2> QED BY <1>3, <2>3, <2>4, <2>5
<1>12. /\ ~Marker(p + n) /\ Open[p + n] = [quote |-> "none", escaped |-> FALSE]
       /\ Number(p + n) = Number(p)
       /\ Pieces(p + n) = Pieces(p) \o chars
  <2>1. \A k \in 1..n : text[p + k] \in Letters
    BY <1>7
  <2> QED BY <1>2, <1>6, <1>8, <1>11, <2>1, NameIs
<1>13. cmd' = Pieces(pos')
  <2>1. (cmd \o at) \o chars = cmd \o (at \o chars)
    <3>1. PICK u, v, w \in Seq(Items) : u = cmd /\ v = at /\ w = chars
      BY <1>2, <1>10
    <3>2. (u \o v) \o w = u \o (v \o w)
      BY ConcatAssociative
    <3> QED BY <3>1, <3>2
  <2> QED BY <1>9, <1>11, <1>12, <2>1
<1>14. Lists(paramList', cmd')
  <2>1. PICK x : x = at \o chars
    OBVIOUS
  <2>2. /\ x \in Seq(Items) /\ Len(x) = n + 1
        /\ \A k \in 1..n + 1 : x[k] = IF k = 1 THEN Char("@") ELSE chars[k - 1]
    <3>1. PICK e : e = Char("@")
      OBVIOUS
    <3>2. e \in Items
      BY <3>1 DEF Char, Items
    <3>3. /\ <<e>> \o chars \in Seq(Items)
          /\ Len(<<e>> \o chars) = Len(chars) + 1
          /\ \A k \in 1..Len(chars) + 1 :
                (<<e>> \o chars)[k] = IF k = 1 THEN e ELSE chars[k - 1]
      BY <1>10, <3>2, ConsProperties
    <3>4. x = <<e>> \o chars
      BY <1>8, <2>1, <3>1
    <3> QED BY <1>10, <3>1, <3>3, <3>4
  <2>3. \A k \in 1..Len(x) : x[k].is # "@par"
    <3>1. TAKE k \in 1..Len(x)
    <3>2. CASE k = 1
      BY <1>6, <2>2, <3>2 DEF Char
    <3>3. CASE k # 1
      <4>1. k - 1 \in 1..n
        BY <1>6, <2>2, <3>3
      <4>2. x[k] = Char(text[p + (k - 1)]) /\ text[p + (k - 1)] \in Letters
        BY <1>7, <1>8, <2>2, <3>3, <4>1
      <4> QED BY <4>2 DEF Char, Letters
    <3> QED BY <3>2, <3>3
  <2>4. Lists(paramList, cmd \o x)
    BY <1>2, <2>2, <2>3, ListsChars
  <2> QED BY <1>9, <2>1, <2>4
<1>15. /\ pc' = "scan" /\ paramList' \in Seq({"v", "d"}) /\ pos' \in 0..Len(text)
       /\ quote' \in {"none", "dquote", "'"} /\ ~Marker(pos') /\ Len(paramList') = Number(pos')
       /\ Open[pos'] = [quote |-> quote', escaped |-> FALSE]
  BY <1>1, <1>2, <1>6, <1>9, <1>11, <1>12
<1>16. placeholders' \in Seq(Seq(Letters))
  BY <1>2, <1>9, <1>10, AppendProperties
<1>17. UNCHANGED <<i, bound, sent>> /\ call' = call
  BY <1>9
<1> QED BY <1>1, <1>13, <1>14, <1>15, <1>16, <1>17, ScanStep

-----------------------------------------------------------------------------
(* The steps after the scan.                                               *)

\* What is bound, parameter by parameter.
LEMMA BoundUpToIs ==
    ASSUME CallTyped
    PROVE  /\ BoundUpTo(0) = <<>>
           /\ \A k \in Nat : /\ BoundAt(k) \in Seq(Bindings)
                             /\ BoundUpTo(k) \in Seq(Bindings)
                             /\ BoundUpTo(k + 1) = BoundUpTo(k) \o BoundAt(k + 1)
<1>1. BoundUpTo(0) = <<>>
  <2>1. [n \in 1..0 |-> BoundAt(n)] = <<>>
    OBVIOUS
  <2> QED BY <2>1, FlattenEmpty DEF BoundUpTo
<1>2. ASSUME NEW n \in Nat
      PROVE  BoundAt(n) \in Seq(Bindings)
  <2>1. [name |-> n, value |-> ArgAt(n)] \in Bindings
    BY ArgAtType DEF Bindings
  <2>2. <<>> \in Seq(Bindings) /\ <<[name |-> n, value |-> ArgAt(n)]>> \in Seq(Bindings)
    BY <2>1, EmptySeq
  <2> QED BY <2>2 DEF BoundAt
<1>3. ASSUME NEW k \in Nat
      PROVE  /\ [n \in 1..k |-> BoundAt(n)] \in Seq(Seq(Bindings))
             /\ Len([n \in 1..k |-> BoundAt(n)]) = k
  <2>1. \A n \in 1..k : BoundAt(n) \in Seq(Bindings)
    BY <1>2
  <2> QED BY <2>1, IsASeq
<1>4. ASSUME NEW k \in Nat
      PROVE  BoundUpTo(k) \in Seq(Bindings)
  BY <1>3, FlattenType DEF BoundUpTo
<1>5. ASSUME NEW k \in Nat
      PROVE  BoundUpTo(k + 1) = BoundUpTo(k) \o BoundAt(k + 1)
  <2> DEFINE s == [n \in 1..k |-> BoundAt(n)]
             u == [n \in 1..k + 1 |-> BoundAt(n)]
  <2>1. k + 1 \in Nat /\ k + 1 \in 1..k + 1 /\ \A q \in 1..k : q \in 1..k + 1
    OBVIOUS
  <2>2. /\ s \in Seq(Seq(Bindings)) /\ Len(s) = k
        /\ u \in Seq(Seq(Bindings)) /\ Len(u) = k + 1
        /\ \A n \in 1..k : u[n] = s[n]
        /\ u[k + 1] = BoundAt(k + 1)
    BY <1>3, <2>1
  <2> HIDE DEF s, u
  <2>3. FlattenSeq(u) = FlattenSeq(s) \o u[k + 1]
    BY <2>2, FlattenLast
  <2> QED BY <2>2, <2>3 DEF BoundUpTo, s, u
<1> QED BY <1>1, <1>2, <1>4, <1>5

\* What a step after the scan has to do.
LEMMA LaterStep ==
    ASSUME QueryInv, pc \notin Halted, pc' \in {"params", "bind", "send"}, call' = call,
           UNCHANGED <<pos, quote, query, sent>>,
           i' \in 0..Len(paramList), bound' \in Seq(Bindings), cmd = Rewritten,
           given => Len(paramList) = Number(Len(text)) /\ Lists(paramList, Rewritten),
           pc' = "params" => i' = 0 /\ bound' = <<>>,
           pc' = "bind" => given /\ Passes(i') /\ bound' = BoundUpTo(i'),
           pc' = "send" => WellBound(bound')
    PROVE  QueryInv'
<1>1. UNCHANGED <<pos, quote, cmd, paramList, placeholders, sent>>
  BY DEF query
<1>2. /\ text' = text /\ args' = args /\ given' = given /\ raw' = raw
      /\ Rewritten' = Rewritten /\ \A p : Number(p)' = Number(p)
      /\ \A b : WellBound(b)' <=> WellBound(b)
      /\ \A k : BoundUpTo(k)' = BoundUpTo(k) /\ (Passes(k)' <=> Passes(k))
  BY CallKept
<1>3. TypeInv' /\ CallInv'
  <2>1. TypeOK'
    BY <1>1, <1>2 DEF QueryInv, TypeInv, TypeOK, Bindings
  <2> QED BY <1>1, <1>2, <2>1 DEF QueryInv, TypeInv, CallInv
<1>4. ScanInv' /\ OverrunOnlyUnbalanced'
  BY DEF ScanInv, OverrunOnlyUnbalanced
<1>5. ReadInv'
  BY <1>1, <1>2 DEF ReadInv, Lists
<1>6. BindInv'
  BY <1>2 DEF BindInv
<1>7. SentInv'
  BY <1>1, <1>2 DEF QueryInv, SentInv
<1> QED BY <1>3, <1>4, <1>5, <1>6, <1>7 DEF QueryInv

\* The end of the text: what is read of it is all of it.
LEMMA EndOfTextKeeps == QueryInv /\ EndOfText => QueryInv'
<1> SUFFICES ASSUME QueryInv, EndOfText PROVE QueryInv'
  OBVIOUS
<1>1. /\ pc = "scan" /\ quote = "none" /\ Read(1) = "NUL" /\ pc' = "params"
      /\ call' = call /\ UNCHANGED <<pos, quote, query, sent, i, bound>>
  BY DEF EndOfText, Scanning
<1>2. /\ CallTyped /\ TypeOK /\ Len(text) \in Nat /\ DOMAIN text = 1..Len(text)
      /\ pos \in 0..Len(text) /\ cmd = Pieces(pos)
      /\ Len(paramList) = Number(pos) /\ Lists(paramList, cmd)
  BY <1>1, ScanFacts
<1>3. ~raw /\ i = 0 /\ bound = <<>>
  BY <1>1 DEF QueryInv, ScanInv
<1>4. pos = Len(text)
  <2>1. SUFFICES ASSUME pos # Len(text) PROVE FALSE
    OBVIOUS
  <2>2. pos + 1 \in 1..Len(text)
    <3>1. pos \in Nat /\ Len(text) \in Nat /\ pos <= Len(text)
      BY <1>2
    <3> QED BY <2>1, <3>1
  <2>3. text[pos + 1] \in Chars
    BY <1>2, <2>2, ElementOfSeq DEF CallTyped
  <2> QED BY <1>1, <1>2, <2>2, <2>3 DEF Read, Chars, Letters
<1>5. Rewritten = Pieces(Len(text))
  BY <1>2, <1>3 DEF Rewritten, Pieces
<1>6. cmd = Rewritten /\ Len(paramList) = Number(Len(text)) /\ Lists(paramList, Rewritten)
  BY <1>2, <1>4, <1>5
<1>7. i' = 0 /\ i' \in 0..Len(paramList) /\ bound' = <<>> /\ bound' \in Seq(Bindings)
  BY <1>1, <1>2, <1>3 DEF TypeOK, Bindings
<1>8. pc \notin Halted /\ pc' \in {"params", "bind", "send"}
  BY <1>1 DEF Halted
<1> QED BY <1>1, <1>6, <1>7, <1>8, LaterStep

\* What is known after the scan.
LEMMA LaterFacts ==
    ASSUME QueryInv, pc \in {"params", "bind", "send"}
    PROVE  /\ CallTyped /\ TypeOK /\ i \in Nat /\ i \in 0..Len(paramList)
           /\ paramList \in Seq({"v", "d"}) /\ Len(paramList) \in Nat
           /\ bound \in Seq(Bindings) /\ cmd = Rewritten
           /\ given => Len(paramList) = Number(Len(text)) /\ Lists(paramList, Rewritten)
           /\ Len(text) \in Nat /\ Number(Len(text)) <= Len(text) /\ pc \notin Halted
<1>1. TypeOK /\ CallTyped
  BY CallIsTyped DEF QueryInv, TypeInv
<1>2. Len(text) \in Nat /\ Number(Len(text)) <= Len(text)
  BY <1>1, LenProperties, NumberIs DEF CallTyped
<1>3. paramList \in Seq({"v", "d"}) /\ Len(paramList) \in Nat
  BY <1>1, LenProperties DEF TypeOK
<1>4. i \in 0..Len(paramList) /\ bound \in Seq(Bindings)
  BY <1>1 DEF TypeOK, Bindings
<1>5. /\ cmd = Rewritten
      /\ given => Len(paramList) = Number(Len(text)) /\ Lists(paramList, Rewritten)
  BY DEF QueryInv, ReadInv
<1>6. pc \notin Halted
  BY DEF Halted
<1> QED BY <1>1, <1>2, <1>3, <1>4, <1>5, <1>6

\* set_params() begins with nothing bound; without a list it is not called.
LEMMA InitiateCommandKeeps == QueryInv /\ InitiateCommand => QueryInv'
<1> SUFFICES ASSUME QueryInv, InitiateCommand PROVE QueryInv'
  OBVIOUS
<1>1. pc = "params" /\ (Stop("raised") \/ Stop(IF given THEN "bind" ELSE "send"))
  BY DEF InitiateCommand
<1>2. /\ CallTyped /\ TypeOK /\ i \in 0..Len(paramList)
      /\ bound \in Seq(Bindings) /\ cmd = Rewritten /\ pc \notin Halted
      /\ given => Len(paramList) = Number(Len(text)) /\ Lists(paramList, Rewritten)
  BY <1>1, LaterFacts
<1>3. i = 0 /\ bound = <<>>
  BY <1>1 DEF QueryInv, BindInv
<1>4. CASE Stop("raised")
  BY <1>2, <1>4, StopStep DEF Halted
<1>5. CASE Stop(IF given THEN "bind" ELSE "send")
  <2>1. /\ pc' = IF given THEN "bind" ELSE "send"
        /\ call' = call /\ UNCHANGED <<pos, quote, query, sent, i, bound>>
    BY <1>5 DEF Stop
  <2>2. i' = 0 /\ bound' = <<>> /\ i' \in 0..Len(paramList) /\ bound' \in Seq(Bindings)
    BY <1>2, <1>3, <2>1
  <2>3. Passes(0) /\ BoundUpTo(0) = <<>>
    BY <1>2, BoundUpToIs DEF Passes
  <2>4. pc' = "bind" => given /\ Passes(i') /\ bound' = BoundUpTo(i')
    BY <2>1, <2>2, <2>3
  <2>5. pc' = "send" => WellBound(bound')
    BY <2>1, <2>2 DEF WellBound
  <2>6. pc' \in {"params", "bind", "send"} /\ pc' # "params"
    BY <2>1
  <2> QED BY <1>2, <2>1, <2>2, <2>4, <2>5, <2>6, LaterStep
<1> QED BY <1>1, <1>4, <1>5

\* What is known in the loop of set_params().
LEMMA BindFacts ==
    ASSUME QueryInv, Binding
    PROVE  /\ given /\ Passes(i) /\ bound = BoundUpTo(i)
           /\ i + 1 \in 0..Len(paramList) /\ i + 1 \in 1..Len(paramList)
           /\ i \in 0..Len(text)
           /\ Marked(i + 1) <=> paramList[i + 1] = "v"
           /\ BoundUpTo(i + 1) = IF paramList[i + 1] = "v"
                                 THEN Append(bound, [name |-> i + 1, value |-> ArgAt(i + 1)])
                                 ELSE bound
           /\ BoundUpTo(i + 1) \in Seq(Bindings)
           /\ ~Marked(i + 1) \/ ArgAt(i + 1).kind \in {"null", "value"} => Passes(i + 1)
<1>1. pc = "bind" /\ i < Len(paramList)
  BY DEF Binding
<1>2. /\ CallTyped /\ i \in Nat /\ i \in 0..Len(paramList)
      /\ Len(paramList) \in Nat /\ bound \in Seq(Bindings)
      /\ given => Len(paramList) = Number(Len(text)) /\ Lists(paramList, Rewritten)
      /\ Len(text) \in Nat /\ Number(Len(text)) <= Len(text)
  BY <1>1, LaterFacts
<1>3. given /\ Passes(i) /\ bound = BoundUpTo(i)
  BY <1>1 DEF QueryInv, BindInv
<1>4. i + 1 \in 0..Len(paramList) /\ i + 1 \in 1..Len(paramList) /\ i + 1 \in Nat
  BY <1>1, <1>2
<1>5. i \in 0..Len(text)
  BY <1>1, <1>2, <1>3
<1>6. Marked(i + 1) <=> paramList[i + 1] = "v"
  BY <1>2, <1>3, <1>4 DEF Marked, Lists
<1>7. /\ BoundUpTo(i + 1) = bound \o BoundAt(i + 1) /\ BoundUpTo(i + 1) \in Seq(Bindings)
      /\ BoundAt(i + 1) \in Seq(Bindings)
  BY <1>2, <1>3, <1>4, BoundUpToIs
<1>8. BoundUpTo(i + 1) = IF paramList[i + 1] = "v"
                         THEN Append(bound, [name |-> i + 1, value |-> ArgAt(i + 1)])
                         ELSE bound
  <2>1. CASE paramList[i + 1] = "v"
    <3>1. PICK e : e = [name |-> i + 1, value |-> ArgAt(i + 1)]
      OBVIOUS
    <3>2. BoundAt(i + 1) = <<e>>
      BY <1>6, <2>1, <3>1 DEF BoundAt
    <3>3. bound \o <<e>> = Append(bound, e)
      BY <1>2
    <3> QED BY <1>7, <2>1, <3>1, <3>2, <3>3
  <2>2. CASE paramList[i + 1] # "v"
    <3>1. BoundAt(i + 1) = <<>>
      BY <1>6, <2>2 DEF BoundAt
    <3>2. bound \o <<>> = bound
      BY <1>2, ConcatEmptySeq
    <3> QED BY <1>7, <2>2, <3>1, <3>2
  <2> QED BY <2>1, <2>2
<1>9. ~Marked(i + 1) \/ ArgAt(i + 1).kind \in {"null", "value"} => Passes(i + 1)
  <2>1. \A n \in 1..i + 1 : n \in 1..i \/ n = i + 1
    BY <1>2
  <2> QED BY <1>3, <2>1 DEF Passes
<1> QED BY <1>3, <1>4, <1>5, <1>6, <1>7, <1>8, <1>9

\* A step to the next parameter.
LEMMA ContinueStep ==
    ASSUME QueryInv, Binding, Continue, bound' = BoundUpTo(i + 1), Passes(i + 1)
    PROVE  QueryInv'
<1>1. /\ pc = "bind" /\ pc' = "bind" /\ i' = i + 1 /\ call' = call
      /\ UNCHANGED <<pos, quote, query, sent>>
  BY DEF Binding, Continue
<1>2. /\ pc \notin Halted /\ cmd = Rewritten
      /\ given => Len(paramList) = Number(Len(text)) /\ Lists(paramList, Rewritten)
  BY <1>1, LaterFacts
<1>3. given /\ i + 1 \in 0..Len(paramList) /\ BoundUpTo(i + 1) \in Seq(Bindings)
  BY BindFacts
<1>4. /\ i' \in 0..Len(paramList) /\ bound' \in Seq(Bindings)
      /\ given /\ Passes(i') /\ bound' = BoundUpTo(i')
  BY <1>1, <1>3
<1>5. pc' \in {"params", "bind", "send"} /\ pc' # "params" /\ pc' # "send"
  BY <1>1
<1> QED BY <1>1, <1>2, <1>4, <1>5, LaterStep

\* A parameter that was put in as text is not bound.
LEMMA SkipInsertedKeeps == QueryInv /\ SkipInserted => QueryInv'
<1> SUFFICES ASSUME QueryInv, SkipInserted PROVE QueryInv'
  OBVIOUS
<1>1. Binding /\ paramList[i + 1] = "d" /\ Continue /\ bound' = bound
  BY DEF SkipInserted
<1>2. BoundUpTo(i + 1) = bound /\ Passes(i + 1)
  BY <1>1, BindFacts
<1> QED BY <1>1, <1>2, ContinueStep

\* One that is bound is so under its number.
LEMMA BindValueKeeps == QueryInv /\ BindValue => QueryInv'
<1> SUFFICES ASSUME QueryInv, BindValue PROVE QueryInv'
  OBVIOUS
<1>1. /\ Binding /\ paramList[i + 1] = "v" /\ ArgAt(i + 1).kind \in {"null", "value"}
      /\ \/ bound' = Append(bound, [name |-> i + 1, value |-> ArgAt(i + 1)]) /\ Continue
         \/ Stop("raised")
  BY DEF BindValue, Param
<1>2. /\ BoundUpTo(i + 1) = Append(bound, [name |-> i + 1, value |-> ArgAt(i + 1)])
      /\ Passes(i + 1)
  BY <1>1, BindFacts
<1>3. pc \notin Halted
  BY <1>1 DEF Binding, Halted
<1> QED BY <1>1, <1>2, <1>3, ContinueStep, StopStep DEF Halted

\* An explicit date is the last one, and may not have been bound itself.
LEMMA BindDateKeeps == QueryInv /\ BindDate => QueryInv'
<1> SUFFICES ASSUME QueryInv, BindDate PROVE QueryInv'
  OBVIOUS
<1>1. /\ Binding /\ pc = "bind" /\ pc' = "send" /\ paramList[i + 1] = "v"
      /\ ArgAt(i + 1).kind = "date"
      /\ \/ bound' = Append(bound, [name |-> i + 1, value |-> ArgAt(i + 1)])
         \/ bound' = bound
      /\ call' = call /\ UNCHANGED <<pos, quote, query, sent, i>>
  BY DEF BindDate, Binding, AfterDate, Param
<1>2. /\ pc \notin Halted /\ cmd = Rewritten /\ i \in 0..Len(paramList)
      /\ given => Len(paramList) = Number(Len(text)) /\ Lists(paramList, Rewritten)
      /\ bound \in Seq(Bindings)
  BY <1>1, LaterFacts
<1>3. /\ given /\ Passes(i) /\ bound = BoundUpTo(i) /\ i \in 0..Len(text) /\ Marked(i + 1)
      /\ BoundUpTo(i + 1) = Append(bound, [name |-> i + 1, value |-> ArgAt(i + 1)])
      /\ BoundUpTo(i + 1) \in Seq(Bindings)
  BY <1>1, BindFacts
<1>4. bound' \in {BoundUpTo(i), BoundUpTo(i + 1)} /\ bound' \in Seq(Bindings)
  BY <1>1, <1>2, <1>3
<1>5. WellBound(bound')
  BY <1>1, <1>3, <1>4 DEF WellBound
<1>6. pc' \in {"params", "bind", "send"} /\ pc' # "params" /\ pc' # "bind"
      /\ i' \in 0..Len(paramList)
  BY <1>1, <1>2
<1> QED BY <1>1, <1>2, <1>4, <1>5, <1>6, LaterStep

\* One that cannot be bound ends the call.
LEMMA BindWrongKeeps == QueryInv /\ BindWrong => QueryInv'
<1> SUFFICES ASSUME QueryInv, BindWrong PROVE QueryInv'
  OBVIOUS
<1>1. pc \notin Halted /\ Stop("raised")
  BY DEF BindWrong, Binding, GiveUp, Halted
<1> QED BY <1>1, StopStep DEF Halted

\* After the last one everything is bound.
LEMMA ParamsDoneKeeps == QueryInv /\ ParamsDone => QueryInv'
<1> SUFFICES ASSUME QueryInv, ParamsDone PROVE QueryInv'
  OBVIOUS
<1>1. /\ pc = "bind" /\ pc' = "send" /\ i = Len(paramList) /\ bound' = bound /\ i' = i
      /\ call' = call /\ UNCHANGED <<pos, quote, query, sent>>
  BY DEF ParamsDone, Stop
<1>2. /\ pc \notin Halted /\ cmd = Rewritten /\ i \in 0..Len(paramList)
      /\ given => Len(paramList) = Number(Len(text)) /\ Lists(paramList, Rewritten)
      /\ bound \in Seq(Bindings)
  BY <1>1, LaterFacts
<1>3. given /\ Passes(i) /\ bound = BoundUpTo(i)
  BY <1>1 DEF QueryInv, BindInv
<1>4. WellBound(bound')
  BY <1>1, <1>2, <1>3 DEF WellBound
<1>5. pc' \in {"params", "bind", "send"} /\ pc' # "params" /\ pc' # "bind"
      /\ i' \in 0..Len(paramList) /\ bound' \in Seq(Bindings)
  BY <1>1, <1>2
<1> QED BY <1>1, <1>2, <1>4, <1>5, LaterStep

\* What is sent is the text rewritten, with what is bound.
LEMMA SendKeeps == QueryInv /\ Send => QueryInv'
<1> SUFFICES ASSUME QueryInv, Send PROVE QueryInv'
  OBVIOUS
<1>1. PICK command : command = [cmd |-> cmd, bound |-> bound]
  OBVIOUS
<1>2. /\ pc = "send" /\ sent' = Append(sent, command) /\ call' = call
      /\ pc' \in {"sent", "raised"} \/ (Len(sent) + 1 < MaxSends /\ pc' = "start")
      /\ UNCHANGED <<pos, quote, cmd, paramList, placeholders, i, bound>>
  BY <1>1 DEF Send, query
<1>3. /\ text' = text /\ args' = args /\ given' = given /\ raw' = raw
      /\ Rewritten' = Rewritten /\ \A b : WellBound(b)' <=> WellBound(b)
  BY <1>2, CallKept
<1>4. PICK Commands : Commands = [cmd : Seq(Items), bound : Seq(Bindings)]
  OBVIOUS
<1>5. sent \in Seq(Commands) /\ Len(sent) \in Nat /\ Len(sent) < MaxSends
  BY <1>2, <1>4, LenProperties DEF QueryInv, TypeInv, Halted
<1>6. command \in Commands /\ command.cmd = Rewritten /\ WellBound(command.bound)
  <2>1. cmd \in Seq(Items)
    BY DEF QueryInv, TypeInv, TypeOK, Items
  <2>2. bound \in Seq(Bindings) /\ cmd = Rewritten
    BY <1>2, LaterFacts
  <2>3. WellBound(bound)
    BY <1>2 DEF QueryInv, BindInv
  <2> QED BY <1>1, <1>4, <2>1, <2>2, <2>3
<1>7. /\ sent' \in Seq(Commands) /\ Len(sent') = Len(sent) + 1
      /\ sent'[Len(sent) + 1] = command /\ \A k \in 1..Len(sent) : sent'[k] = sent[k]
  BY <1>2, <1>5, <1>6, AppendProperties
<1>8. TypeInv' /\ CallInv'
  <2>1. Len(sent') <= MaxSends /\ (pc' \notin Halted => Len(sent') < MaxSends)
    BY <1>2, <1>5, <1>7, MaxSendsAssumption DEF Halted
  <2>2. pc' \in {"start", "scan", "params", "bind", "send"} \cup Halted
    BY <1>2 DEF Halted
  <2>3. TypeOK'
    BY <1>2, <1>3, <2>1, <2>2 DEF QueryInv, TypeInv, TypeOK
  <2> QED BY <1>2, <1>3, <1>4, <1>7, <2>1, <2>3 DEF QueryInv, TypeInv, CallInv
<1>9. ScanInv' /\ ReadInv' /\ BindInv' /\ OverrunOnlyUnbalanced'
  BY <1>2 DEF ScanInv, ReadInv, BindInv, OverrunOnlyUnbalanced
<1>10. SentInv'
  <2>1. DOMAIN sent = 1..Len(sent) /\ DOMAIN sent' = 1..Len(sent')
    BY <1>5, <1>7, LenProperties
  <2>2. ASSUME NEW k \in 1..Len(sent')
        PROVE  sent'[k].cmd = Rewritten /\ WellBound(sent'[k].bound)
    <3>1. k \in 1..Len(sent) \/ k = Len(sent) + 1
      BY <1>5, <1>7
    <3>2. CASE k \in 1..Len(sent)
      BY <1>7, <2>1, <3>2 DEF QueryInv, SentInv
    <3>3. CASE k = Len(sent) + 1
      BY <1>6, <1>7, <3>3
    <3> QED BY <3>1, <3>2, <3>3
  <2> QED BY <1>3, <2>1, <2>2 DEF SentInv
<1> QED BY <1>8, <1>9, <1>10 DEF QueryInv

\* Each round begins with nothing read; raw text is taken as it is.
LEMMA SetupCommandKeeps == QueryInv /\ SetupCommand => QueryInv'
<1> SUFFICES ASSUME QueryInv, SetupCommand PROVE QueryInv'
  OBVIOUS
<1>1. /\ pc = "start" /\ paramList' = <<>> /\ placeholders' = <<>>
      /\ cmd' = IF raw THEN [p \in DOMAIN text |-> Char(text[p])] ELSE <<>>
      /\ pc' = IF raw THEN "params" ELSE "scan"
      /\ pos' = 0 /\ quote' = "none" /\ bound' = <<>> /\ i' = 0
      /\ call' = call /\ sent' = sent
  BY DEF SetupCommand, NewQuery
<1>2. /\ text' = text /\ args' = args /\ given' = given /\ raw' = raw
      /\ Open' = Open /\ \A p : Marker(p)' = Marker(p) /\ Number(p)' = Number(p)
      /\ \A p : Pieces(p)' = Pieces(p) /\ Rewritten' = Rewritten
      /\ \A b : WellBound(b)' <=> WellBound(b)
  BY <1>1, CallKept
<1>3. TypeOK /\ CallTyped /\ Len(text) \in Nat /\ DOMAIN text = 1..Len(text)
  BY CallIsTyped, LenProperties DEF QueryInv, TypeInv, CallTyped
<1>4. cmd' \in Seq(Items)
  <2>1. \A p \in 1..Len(text) : Char(text[p]) \in Items
    BY <1>3, ElementOfSeq DEF CallTyped, Char, Items
  <2>2. [p \in 1..Len(text) |-> Char(text[p])] \in Seq(Items)
    BY <1>3, <2>1, IsASeq
  <2>3. <<>> \in Seq(Items)
    BY EmptySeq
  <2> QED BY <1>1, <1>3, <2>2, <2>3
<1>5. TypeInv' /\ CallInv'
  <2>1. pc' \in {"start", "scan", "params", "bind", "send"} \cup Halted
    BY <1>1
  <2>2. paramList' \in Seq({"v", "d"}) /\ placeholders' \in Seq(Seq(Letters)) /\ Len(paramList') = 0
        /\ bound' \in Seq(Bindings)
    BY <1>1, EmptySeq
  <2>3. i' \in 0..Len(paramList') /\ pos' \in 0..Len(text')
    BY <1>1, <1>2, <1>3, <2>2
  <2>4. quote' \in {"none", "dquote", "'"} /\ Len(sent') <= MaxSends
    BY <1>1 DEF QueryInv, TypeInv, TypeOK
  <2>5. text' \in Texts /\ args' \in ArgLists
    BY <1>2, <1>3 DEF TypeOK
  <2>6. given' \in BOOLEAN /\ raw' \in BOOLEAN
    BY <1>2, <1>3, Zenon DEF TypeOK
  <2>7. TypeOK'
    BY <1>4, <2>1, <2>2, <2>3, <2>4, <2>5, <2>6 DEF TypeOK, Items, Bindings
  <2>8. pc \notin Halted
    BY <1>1 DEF Halted
  <2> QED BY <1>1, <1>2, <2>7, <2>8 DEF QueryInv, TypeInv, CallInv
<1>6. ScanInv'
  <2>1. /\ Open[0] = [quote |-> "none", escaped |-> FALSE] /\ Pieces(0) = <<>>
        /\ Number(0) = 0
    BY <1>3, OpenIs, PiecesIs, NumberIs DEF CallTyped
  <2>2. ~Marker(0)
    BY <1>3 DEF Marker
  <2>3. Lists(<<>>, <<>>)
    BY ToSetIs DEF Lists
  <2>4. CASE raw
    BY <1>1, <2>4 DEF ScanInv
  <2>5. CASE ~raw
    <3>1. cmd' = <<>> /\ Len(paramList') = 0
      BY <1>1, <2>5
    <3>2. Open'[pos'] = Open[0] /\ Marker(pos)' = Marker(0)
          /\ Pieces(pos)' = Pieces(0) /\ Number(pos)' = Number(0)
      BY <1>1, <1>2
    <3>3. Lists(paramList, cmd)'
      BY <1>1, <2>3, <3>1 DEF Lists
    <3> QED BY <1>1, <1>2, <2>1, <2>2, <2>5, <3>1, <3>2, <3>3 DEF ScanInv
  <2> QED BY <2>4, <2>5
<1>7. ReadInv'
  BY <1>1, <1>2 DEF QueryInv, CallInv, ReadInv, Rewritten
<1>8. BindInv' /\ OverrunOnlyUnbalanced'
  BY <1>1 DEF BindInv, OverrunOnlyUnbalanced
<1>9. SentInv'
  BY <1>1, <1>2 DEF QueryInv, SentInv
<1> QED BY <1>5, <1>6, <1>7, <1>8, <1>9 DEF QueryInv

-----------------------------------------------------------------------------
(* The theorems.                                                           *)

\* Nothing is read before the first round.
LEMMA InitQuery == Init => QueryInv
<1> SUFFICES ASSUME Init PROVE QueryInv
  OBVIOUS
<1>1. pc = "start" /\ pc \notin Halted /\ sent = <<>> /\ Len(sent) = 0
  BY DEF Init, Halted
<1>2. text \in Seq(Chars) /\ Len(text) \in Nat
  BY InputsAssumption, LenProperties DEF Init
<1>3. TypeOK
  <2>1. given \in BOOLEAN /\ raw \in BOOLEAN
    BY Zenon DEF Init
  <2>2. cmd \in Seq(Items) /\ paramList \in Seq({"v", "d"}) /\ placeholders \in Seq(Seq(Letters))
        /\ bound \in Seq(Bindings) /\ Len(paramList) = 0
    BY EmptySeq DEF Init
  <2>3. pos \in 0..Len(text) /\ i \in 0..Len(paramList) /\ Len(sent) <= MaxSends
    BY <1>1, <1>2, <2>2, MaxSendsAssumption DEF Init
  <2> QED BY <1>1, <2>1, <2>2, <2>3 DEF Init, TypeOK, Items, Bindings
<1>4. TypeInv /\ CallInv
  <2>1. sent \in Seq([cmd : Seq(Items), bound : Seq(Bindings)])
    BY <1>1, EmptySeq
  <2>2. raw => ~given
    BY DEF Init
  <2> QED BY <1>1, <1>3, <2>1, <2>2, MaxSendsAssumption DEF TypeInv, CallInv
<1>5. ScanInv /\ ReadInv /\ BindInv /\ OverrunOnlyUnbalanced
  BY <1>1 DEF ScanInv, ReadInv, BindInv, OverrunOnlyUnbalanced
<1>6. SentInv
  BY <1>1 DEF SentInv
<1> QED BY <1>4, <1>5, <1>6 DEF QueryInv

\* QueryInv is kept by every step.
LEMMA NextQuery == QueryInv /\ [Next]_vars => QueryInv'
<1> SUFFICES ASSUME QueryInv, [Next]_vars PROVE QueryInv'
  OBVIOUS
<1>1. CASE UNCHANGED vars
  <2>1. /\ call' = call
        /\ UNCHANGED <<pc, pos, quote, cmd, paramList, placeholders, i, bound, sent>>
    BY <1>1 DEF vars, query
  <2>2. /\ text' = text /\ args' = args /\ given' = given /\ raw' = raw
        /\ Open' = Open /\ \A p : Marker(p)' = Marker(p) /\ Number(p)' = Number(p)
        /\ \A p : Pieces(p)' = Pieces(p) /\ Rewritten' = Rewritten
        /\ \A b : WellBound(b)' <=> WellBound(b)
        /\ \A k : BoundUpTo(k)' = BoundUpTo(k) /\ (Passes(k)' <=> Passes(k))
    BY <2>1, CallKept
  <2>3. TypeInv' /\ CallInv'
    <3>1. TypeOK'
      BY <2>1, <2>2 DEF QueryInv, TypeInv, TypeOK
    <3> QED BY <2>1, <2>2, <3>1 DEF QueryInv, TypeInv, CallInv
  <2>4. ScanInv' /\ ReadInv'
    BY <2>1, <2>2 DEF QueryInv, ScanInv, ReadInv, Lists
  <2>5. BindInv' /\ SentInv' /\ OverrunOnlyUnbalanced'
    BY <2>1, <2>2 DEF QueryInv, BindInv, SentInv, OverrunOnlyUnbalanced
  <2> QED BY <2>3, <2>4, <2>5 DEF QueryInv
<1>2. CASE Next
  BY <1>2, SetupCommandKeeps, InStringKeeps, OpenQuoteKeeps, PlainCharKeeps,
     ValueParameterKeeps, TextParameterKeeps, RefuseKeeps, PlaceholderKeeps, EndOfTextKeeps,
     InitiateCommandKeeps, SkipInsertedKeeps, BindValueKeeps, BindDateKeeps, BindWrongKeeps,
     ParamsDoneKeeps, SendKeeps DEF Next
<1> QED BY <1>1, <1>2

\* The invariant the properties follow from.
THEOREM QueryInvariant == Spec => []QueryInv
BY InitQuery, NextQuery, PTL DEF Spec

-----------------------------------------------------------------------------
(* What follows from it.                                                   *)

\* A name in the text is the number of one of its parameters.
LEMMA NamesAreNumbers ==
    ASSUME CallTyped, NEW n \in Nat, Marked(n)
    PROVE  n \in 1..Number(Len(text))
<1> DEFINE T == {p \in 0..Len(text) : ParName(n) \in ToSet(Pieces(p)) => n \in 1..Number(p)}
<1>1. Len(text) \in Nat /\ DOMAIN text = 1..Len(text)
  BY LenProperties DEF CallTyped
<1>2. 0 \in T
  BY <1>1, PiecesIs, ToSetIs
<1>3. ASSUME NEW p \in 0..Len(text), p \in T, p + 1 <= Len(text)
      PROVE  p + 1 \in T
  <2>1. p \in Nat /\ p + 1 \in 1..Len(text) /\ p + 1 \in 0..Len(text)
    BY <1>1, <1>3
  <2>2. Pieces(p + 1) = Pieces(p) \o Piece(p + 1) /\ Pieces(p) \in Seq(Items)
    BY <1>3, PiecesIs
  <2>3. Piece(p + 1) \in Seq(Items)
    BY <2>1, PieceType
  <2>4. ToSet(Pieces(p + 1)) = ToSet(Pieces(p)) \cup ToSet(Piece(p + 1))
    BY <2>2, <2>3, ToSetIs
  <2>5. /\ Number(p) \in Nat /\ Number(p + 1) \in Nat
        /\ Number(p + 1) = IF Marker(p + 1) THEN Number(p) + 1 ELSE Number(p)
    BY <2>1, NumberIs
  <2>6. ParName(n) \in ToSet(Pieces(p)) => n \in 1..Number(p + 1)
    BY <1>3, <2>5
  <2>7. ParName(n) \in ToSet(Piece(p + 1)) => Marker(p + 1) /\ n = Number(p + 1)
    <3>1. text[p + 1] \in Chars
      BY <2>1, ElementOfSeq DEF CallTyped
    <3>2. \/ Marker(p + 1) /\ Piece(p + 1) = <<ParName(Number(p + 1))>>
          \/ \E m : Piece(p + 1) = <<Inserted(m)>>
          \/ Piece(p + 1) = <<>>
          \/ \E c \in Chars \cup {"@"} : Piece(p + 1) = <<Char(c)>>
      BY <3>1 DEF Piece
    <3>3. \A m : ParName(n) # Inserted(m)
      BY DEF ParName, Inserted
    <3>4. \A c \in Chars \cup {"@"} : ParName(n) # Char(c)
      BY DEF ParName, Char, Chars, Letters
    <3>5. \A m : ParName(n) = ParName(m) => n = m
      BY DEF ParName
    <3>6. SUFFICES ASSUME ParName(n) \in ToSet(Piece(p + 1))
                   PROVE  Marker(p + 1) /\ n = Number(p + 1)
      OBVIOUS
    <3>7. \A e : Piece(p + 1) = <<e>> => ParName(n) = e
      <4>1. TAKE e
      <4>2. ToSet(<<e>>) = {e}
        BY ToSetIs
      <4> QED BY <3>6, <4>2
    <3>8. Piece(p + 1) # <<>>
      BY <3>6, ToSetIs
    <3> QED BY <3>2, <3>3, <3>4, <3>5, <3>7, <3>8, Zenon
  <2>8. ParName(n) \in ToSet(Pieces(p + 1)) => n \in 1..Number(p + 1)
    <3>1. Marker(p + 1) => Number(p + 1) \in 1..Number(p + 1)
      BY <2>5
    <3> QED BY <2>4, <2>6, <2>7, <3>1
  <2> QED BY <2>1, <2>8
<1> HIDE DEF T
<1>4. 0..Len(text) \subseteq T
  BY <1>1, <1>2, <1>3, IntervalInduction
<1>5. Len(text) \in T
  BY <1>1, <1>4
<1>6. CASE raw
  <2>1. \A c \in Chars : ParName(n) # Char(c)
    BY DEF ParName, Char, Chars, Letters
  <2>2. \A p \in 1..Len(text) : text[p] \in Chars
    BY ElementOfSeq DEF CallTyped
  <2>3. ToSet(Rewritten) = {Char(text[p]) : p \in 1..Len(text)}
    BY <1>1, <1>6 DEF Rewritten, ToSet
  <2> QED BY <2>1, <2>2, <2>3 DEF Marked
<1>7. CASE ~raw
  <2>1. Rewritten = Pieces(Len(text))
    BY <1>1, <1>7 DEF Rewritten, Pieces
  <2> QED BY <1>5, <2>1 DEF Marked, T
<1> QED BY <1>6, <1>7

\* The first k parameters are bound in the order of their numbers, each once.
LEMMA BoundUpToHas ==
    ASSUME CallTyped, NEW k \in Nat
    PROVE  /\ \A m \in DOMAIN BoundUpTo(k) :
                 /\ BoundUpTo(k)[m].name \in 1..k /\ Marked(BoundUpTo(k)[m].name)
                 /\ BoundUpTo(k)[m].value = ArgAt(BoundUpTo(k)[m].name)
           /\ \A m, n \in DOMAIN BoundUpTo(k) :
                 BoundUpTo(k)[m].name = BoundUpTo(k)[n].name => m = n
           /\ \A n \in 1..k : Marked(n) => \E m \in DOMAIN BoundUpTo(k) : BoundUpTo(k)[m].name = n
<1> DEFINE Has(b, j) ==
             /\ \A m \in 1..Len(b) : /\ b[m].name \in 1..j /\ Marked(b[m].name)
                                     /\ b[m].value = ArgAt(b[m].name)
             /\ \A m, n \in 1..Len(b) : b[m].name = b[n].name => m = n
             /\ \A n \in 1..j : Marked(n) => \E m \in 1..Len(b) : b[m].name = n
           T == {j \in 0..k : Has(BoundUpTo(j), j)}
<1>1. 0 \in T
  <2>1. BoundUpTo(0) = <<>> /\ Len(<<>>) = 0
    BY BoundUpToIs, EmptySeq
  <2> QED BY <2>1
<1>2. ASSUME NEW j \in 0..k, j \in T, j + 1 <= k
      PROVE  j + 1 \in T
  <2>1. j \in Nat /\ j + 1 \in 0..k /\ j + 1 \in 1..j + 1
        /\ \A n \in 1..j + 1 : n \in 1..j \/ n = j + 1
    <3>1. j \in Nat /\ j + 1 \in 0..k
      BY <1>2
    <3> QED BY <3>1
  <2>2. PICK b, c : b = BoundUpTo(j) /\ c = BoundUpTo(j + 1)
    OBVIOUS
  <2>3. b \in Seq(Bindings) /\ Len(b) \in Nat /\ c = b \o BoundAt(j + 1) /\ Has(b, j)
    BY <1>2, <2>1, <2>2, BoundUpToIs, LenProperties
  <2>4. Has(c, j + 1)
    <3>1. CASE Marked(j + 1)
      <4>1. PICK e : e = [name |-> j + 1, value |-> ArgAt(j + 1)]
        OBVIOUS
      <4>2. e \in Bindings /\ e.name = j + 1 /\ e.value = ArgAt(j + 1)
        BY <2>1, <4>1, ArgAtType DEF Bindings
      <4>3. BoundAt(j + 1) = <<e>>
        BY <3>1, <4>1 DEF BoundAt
      <4>4. /\ Len(c) = Len(b) + 1 /\ c[Len(b) + 1] = e
            /\ \A m \in 1..Len(b) : c[m] = b[m]
        <5>1. b \o <<e>> = Append(b, e)
          BY <2>3, <4>2
        <5>2. c = Append(b, e)
          BY <2>3, <4>3, <5>1
        <5> QED BY <2>3, <4>2, <5>2, AppendProperties
      <4>5. \A m \in 1..Len(c) : m \in 1..Len(b) \/ m = Len(b) + 1
        BY <2>3, <4>4
      <4>6. Len(b) + 1 \in 1..Len(c) /\ \A m \in 1..Len(b) : m \in 1..Len(c)
        BY <2>3, <4>4
      <4>7. \A m \in 1..Len(b) : b[m].name # j + 1 /\ b[m].name \in 1..j + 1
        BY <2>1, <2>3
      <4>8. \A m \in 1..Len(c) : /\ c[m].name \in 1..j + 1 /\ Marked(c[m].name)
                                 /\ c[m].value = ArgAt(c[m].name)
        BY <2>1, <2>3, <3>1, <4>2, <4>4, <4>5, <4>7
      <4>9. \A m, n \in 1..Len(c) : c[m].name = c[n].name => m = n
        BY <2>3, <4>2, <4>4, <4>5, <4>7
      <4>10. \A n \in 1..j + 1 : Marked(n) => \E m \in 1..Len(c) : c[m].name = n
        <5>1. TAKE n \in 1..j + 1
        <5>2. CASE n = j + 1
          BY <4>2, <4>4, <4>6, <5>2
        <5>3. CASE n \in 1..j
          <6>1. Marked(n) => \E m \in 1..Len(b) : b[m].name = n
            BY <2>3, <5>3
          <6> QED BY <4>4, <4>6, <6>1
        <5> QED BY <2>1, <5>2, <5>3
      <4> QED BY <4>8, <4>9, <4>10
    <3>2. CASE ~Marked(j + 1)
      <4>1. c = b
        <5>1. BoundAt(j + 1) = <<>>
          BY <3>2 DEF BoundAt
        <5>2. b \o <<>> = b
          BY <2>3, ConcatEmptySeq
        <5> QED BY <2>3, <5>1, <5>2
      <4>2. \A m \in 1..Len(b) : b[m].name \in 1..j + 1
        BY <2>1, <2>3
      <4>3. \A n \in 1..j + 1 : Marked(n) => n \in 1..j
        BY <2>1, <3>2
      <4> QED BY <2>3, <4>1, <4>2, <4>3
    <3> QED BY <3>1, <3>2
  <2> HIDE DEF Has
  <2> QED BY <2>1, <2>2, <2>4
<1> HIDE DEF T
<1>3. 0..k \subseteq T
  BY <1>1, <1>2, IntervalInduction
<1>4. k \in T
  BY <1>3
<1>5. Has(BoundUpTo(k), k)
  BY <1>4 DEF T
<1>6. DOMAIN BoundUpTo(k) = 1..Len(BoundUpTo(k))
  BY BoundUpToIs, LenProperties
<1> QED BY <1>5, <1>6

\* The names set_params() gets to, from what it has bound.
LEMMA ReachedIs ==
    ASSUME CallTyped, NEW b, WellBound(b)
    PROVE  \/ ~given /\ Reached = {} /\ b = <<>>
           \/ \E k \in Nat : /\ b = BoundUpTo(k) /\ Passes(k)
                             /\ b = BoundUpTo(Number(Len(text)))
                             /\ Reached = {n \in 1..k : Marked(n)}
           \/ \E k \in Nat : /\ b \in {BoundUpTo(k), BoundUpTo(k + 1)} /\ Passes(k)
                             /\ Marked(k + 1) /\ ArgAt(k + 1).kind = "date"
                             /\ Reached = {n \in 1..k + 1 : Marked(n)}
<1>1. Len(text) \in Nat /\ Number(Len(text)) \in Nat /\ Number(Len(text)) <= Len(text)
  <2>1. Len(text) \in Nat
    BY LenProperties DEF CallTyped
  <2> QED BY <2>1, NumberIs
<1>2. Names = {n \in 1..Len(text) : Marked(n)}
  BY DEF Names, Marked
<1>3. \A n \in Nat : Marked(n) => n \in 1..Number(Len(text))
  BY NamesAreNumbers
<1>4. \A n \in Nat : n \in Names <=> Marked(n)
  <2>1. \A n \in 1..Number(Len(text)) : n \in 1..Len(text)
    BY <1>1
  <2>2. \A n \in Names : Marked(n)
    BY <1>2
  <2> QED BY <1>2, <1>3, <2>1, <2>2
<1>5. Names \subseteq Nat
  BY <1>1, <1>2
<1>6. CASE ~given /\ b = <<>>
  BY <1>6 DEF Reached
<1>7. CASE given /\ Passes(Number(Len(text))) /\ b = BoundUpTo(Number(Len(text)))
  <2>1. PICK k \in Nat : k = Number(Len(text))
    BY <1>1
  <2>2. \A n \in Names : n \in 1..k /\ ArgAt(n).kind # "date"
    BY <1>3, <1>4, <1>5, <1>7, <2>1 DEF Passes
  <2>3. \A n \in Names : ~DateBefore(n)
    BY <2>2 DEF DateBefore
  <2>4. Reached = Names
    BY <1>7, <2>3 DEF Reached
  <2>5. Names = {n \in 1..k : Marked(n)}
    <3>1. \A n \in 1..k : n \in Nat
      BY <2>1
    <3> QED BY <1>4, <1>5, <2>2, <3>1
  <2> QED BY <1>7, <2>1, <2>4, <2>5
<1>8. CASE given /\ \E k \in 0..Len(text) :
               /\ Passes(k) /\ Marked(k + 1) /\ ArgAt(k + 1).kind = "date"
               /\ b \in {BoundUpTo(k), BoundUpTo(k + 1)}
  <2>1. PICK k \in 0..Len(text) : /\ Passes(k) /\ Marked(k + 1) /\ ArgAt(k + 1).kind = "date"
                                  /\ b \in {BoundUpTo(k), BoundUpTo(k + 1)}
    BY <1>8
  <2>2. k \in Nat /\ k + 1 \in Nat
    BY <1>1
  <2>3. k + 1 \in Names
    BY <1>4, <2>1, <2>2
  <2>4. \A n \in Names : n \in 1..k + 1 => ~DateBefore(n)
    <3>1. TAKE n \in Names
    <3>2. SUFFICES ASSUME n \in 1..k + 1, NEW j \in Names, j < n, ArgAt(j).kind = "date"
                   PROVE  FALSE
      BY DEF DateBefore
    <3>3. j \in 1..k
      BY <1>1, <1>2, <2>2, <3>2
    <3>4. Marked(j)
      BY <1>2
    <3> QED BY <2>1, <3>2, <3>3, <3>4 DEF Passes
  <2>5. \A n \in Names : n \notin 1..k + 1 => DateBefore(n)
    <3>1. TAKE n \in Names
    <3>2. n \notin 1..k + 1 => k + 1 < n
      BY <1>1, <1>2, <2>2
    <3> QED BY <2>1, <2>3, <3>2 DEF DateBefore
  <2>6. Reached = {n \in Names : n \in 1..k + 1}
    BY <1>8, <2>4, <2>5 DEF Reached
  <2>7. Reached = {n \in 1..k + 1 : Marked(n)}
    <3>1. \A n \in 1..k + 1 : n \in Nat
      BY <2>2
    <3> QED BY <1>4, <1>5, <2>6, <3>1
  <2> QED BY <2>1, <2>2, <2>7
<1> QED BY <1>6, <1>7, <1>8 DEF WellBound

\* The state is of its type.
THEOREM QueryTypeOK == Spec => []TypeOK
<1>1. QueryInv => TypeOK
  BY DEF QueryInv, TypeInv
<1> QED BY <1>1, QueryInvariant, PTL

\* What is sent is the text as it is rewritten on the whole of it, for every
\* text and list of arguments (sybase_query::init()).
THEOREM Rewrites == Spec => []TextRewritten
<1>1. QueryInv => TextRewritten
  BY DEF QueryInv, SentInv, TextRewritten
<1> QED BY <1>1, QueryInvariant, PTL

\* The scan leaves the buffer only for a text that ends in a string.
THEOREM Overruns == Spec => []OverrunOnlyUnbalanced
<1>1. QueryInv => OverrunOnlyUnbalanced
  BY DEF QueryInv
<1> QED BY <1>1, QueryInvariant, PTL

\* set_params() binds each name that it gets to, once, to its argument.
THEOREM BindsNames == Spec => []NamesBoundOnce
<1>1. ASSUME QueryInv, NEW k \in DOMAIN sent, NEW b, b = sent[k].bound
      PROVE  /\ \A m \in DOMAIN b : b[m].name \in Reached /\ b[m].value = ArgAt(b[m].name)
             /\ \A m, n \in DOMAIN b : b[m].name = b[n].name => m = n
             /\ \A n \in Reached : ArgAt(n).kind # "date" => \E m \in DOMAIN b : b[m].name = n
  <2>1. CallTyped /\ WellBound(b)
    BY <1>1, CallIsTyped DEF QueryInv, TypeInv, SentInv
  <2>2. CASE Reached = {} /\ b = <<>>
    <3>1. DOMAIN b = {}
      BY <2>2
    <3> QED BY <2>2, <3>1
  <2>3. ASSUME NEW j \in Nat, b = BoundUpTo(j), Reached = {n \in 1..j : Marked(n)}
        PROVE  /\ \A m \in DOMAIN b : b[m].name \in Reached /\ b[m].value = ArgAt(b[m].name)
               /\ \A m, n \in DOMAIN b : b[m].name = b[n].name => m = n
               /\ \A n \in Reached : \E m \in DOMAIN b : b[m].name = n
    BY <2>1, <2>3, BoundUpToHas
  <2>4. ASSUME NEW j \in Nat, b = BoundUpTo(j), Reached = {n \in 1..j + 1 : Marked(n)},
               ArgAt(j + 1).kind = "date"
        PROVE  /\ \A m \in DOMAIN b : b[m].name \in Reached /\ b[m].value = ArgAt(b[m].name)
               /\ \A m, n \in DOMAIN b : b[m].name = b[n].name => m = n
               /\ \A n \in Reached : ArgAt(n).kind # "date" => \E m \in DOMAIN b : b[m].name = n
    <3>1. /\ \A m \in DOMAIN b : /\ b[m].name \in 1..j /\ Marked(b[m].name)
                                 /\ b[m].value = ArgAt(b[m].name)
          /\ \A m, n \in DOMAIN b : b[m].name = b[n].name => m = n
          /\ \A n \in 1..j : Marked(n) => \E m \in DOMAIN b : b[m].name = n
      BY <2>1, <2>4, BoundUpToHas
    <3>2. /\ \A n \in 1..j : n \in 1..j + 1
          /\ \A n \in 1..j + 1 : n \in 1..j \/ n = j + 1
      OBVIOUS
    <3> QED BY <2>4, <3>1, <3>2
  <2>5. \A j \in Nat : j + 1 \in Nat
    OBVIOUS
  <2> QED BY <2>1, <2>2, <2>3, <2>4, <2>5, ReachedIs
<1>2. QueryInv => NamesBoundOnce
  BY <1>1 DEF NamesBoundOnce
<1> QED BY <1>2, QueryInvariant, PTL

\* An argument that cannot be bound is not passed over.
THEOREM WrongIsRefused == Spec => []WrongNeverSent
<1>1. ASSUME QueryInv, sent # <<>>, NEW n \in Reached
      PROVE  ArgAt(n).kind # "wrong"
  <2>1. 1 \in DOMAIN sent
    <3>1. sent \in Seq([cmd : Seq(Items), bound : Seq(Bindings)])
      BY <1>1 DEF QueryInv, TypeInv
    <3>2. Len(sent) \in Nat \ {0} /\ DOMAIN sent = 1..Len(sent)
      BY <1>1, <3>1, EmptySeq, LenProperties
    <3> QED BY <3>2
  <2>2. CallTyped /\ WellBound(sent[1].bound)
    BY <1>1, <2>1, CallIsTyped DEF QueryInv, TypeInv, SentInv
  <2>3. PICK j \in Nat : /\ Passes(j)
                         /\ \/ Reached = {m \in 1..j : Marked(m)}
                            \/ /\ Reached = {m \in 1..j + 1 : Marked(m)}
                               /\ ArgAt(j + 1).kind = "date"
    BY <1>1, <2>2, ReachedIs
  <2>4. \A m \in 1..j : Marked(m) => ArgAt(m).kind \in {"null", "value"}
    BY <2>3 DEF Passes
  <2>5. \A m \in 1..j + 1 : m \in 1..j \/ m = j + 1
    OBVIOUS
  <2> QED BY <2>3, <2>4, <2>5
<1>2. QueryInv => WrongNeverSent
  BY <1>1 DEF WrongNeverSent
<1> QED BY <1>2, QueryInvariant, PTL

\* What is sent again is what was sent, unless the bind of an explicit date
\* worked in one round only.
THEOREM SendsTheSame == Spec => []SentAgainUnchanged
<1>1. ASSUME QueryInv, NEW k \in DOMAIN sent
      PROVE  /\ sent[k].cmd = sent[1].cmd
             /\ (\A n \in Reached : ArgAt(n).kind # "date") => sent[k].bound = sent[1].bound
  <2>1. 1 \in DOMAIN sent
    <3>1. DOMAIN sent = 1..Len(sent) /\ Len(sent) \in Nat
      BY <1>1, LenProperties DEF QueryInv, TypeInv
    <3> QED BY <3>1
  <2>2. /\ CallTyped /\ WellBound(sent[k].bound) /\ WellBound(sent[1].bound)
        /\ sent[k].cmd = Rewritten /\ sent[1].cmd = Rewritten
    BY <1>1, <2>1, CallIsTyped DEF QueryInv, TypeInv, SentInv
  <2>3. ASSUME \A n \in Reached : ArgAt(n).kind # "date", NEW b, WellBound(b)
        PROVE  b = IF given THEN BoundUpTo(Number(Len(text))) ELSE <<>>
    <3>1. ASSUME NEW j \in Nat, Marked(j + 1), ArgAt(j + 1).kind = "date",
                 Reached = {n \in 1..j + 1 : Marked(n)}
          PROVE  FALSE
      <4>1. j + 1 \in 1..j + 1
        OBVIOUS
      <4>2. j + 1 \in Reached
        BY <3>1, <4>1
      <4> QED BY <2>3, <3>1, <4>2
    <3>2. CASE ~given /\ b = <<>>
      BY <3>2
    <3>3. CASE given /\ b = BoundUpTo(Number(Len(text)))
      BY <3>3
    <3>4. CASE given /\ \E j \in 0..Len(text) :
                   /\ Passes(j) /\ Marked(j + 1) /\ ArgAt(j + 1).kind = "date"
                   /\ b \in {BoundUpTo(j), BoundUpTo(j + 1)}
      BY <2>2, <2>3, <3>1, <3>4, ReachedIs
    <3> QED BY <2>3, <3>2, <3>3, <3>4 DEF WellBound
  <2> QED BY <2>2, <2>3
<1>2. QueryInv => SentAgainUnchanged
  BY <1>1 DEF SentAgainUnchanged
<1> QED BY <1>2, QueryInvariant, PTL
=============================================================================
