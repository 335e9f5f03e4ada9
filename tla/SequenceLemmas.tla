--------------------------- MODULE SequenceLemmas ---------------------------
(***************************************************************************)
(* What FlattenSeq computes, for the modules that say with it what a whole *)
(* stream of results or a whole text amounts to.  It is defined by         *)
(* recursion over the positions of a sequence; what holds at all of them   *)
(* is proved by looking at the first one at which it would not.            *)
(***************************************************************************)
EXTENDS Integers, Sequences, SequencesExt, SequenceTheorems, WellFoundedInduction, TLAPS

-----------------------------------------------------------------------------
(* Induction, as a statement about sets.                                   *)

\* A set of natural numbers that is not empty has a least element.
LEMMA LeastElement ==
    ASSUME NEW T, T \subseteq Nat, T # {}
    PROVE  \E n \in T : \A m \in T : n <= m
<1>1. PICK n \in T : \A m \in T : ~ (<<m, n>> \in OpToRel(<, Nat))
  BY NatLessThanWellFounded, WFMin
<1>2. \A m \in T : ~ (m < n)
  BY <1>1, Zenon DEF OpToRel
<1> QED BY <1>2

\* A set that holds the first number of an interval, and with each number of
\* it the next one, holds the interval.
LEMMA IntervalInduction ==
    ASSUME NEW k \in Nat, NEW n \in Nat, NEW T,
           k <= n => k \in T,
           \A i \in k..n : i \in T /\ i + 1 <= n => i + 1 \in T
    PROVE  k..n \subseteq T
<1> DEFINE Missing == (k..n) \ T
<1> SUFFICES ASSUME Missing # {} PROVE FALSE
  OBVIOUS
<1>1. PICK i \in Missing : \A j \in Missing : i <= j
  <2>1. Missing \subseteq Nat
    OBVIOUS
  <2> QED BY <2>1, LeastElement
<1>2. i # k /\ i - 1 \in k..n /\ i - 1 \notin Missing
  BY <1>1
<1> QED BY <1>1, <1>2

-----------------------------------------------------------------------------
(* Sequences put together and cut.                                         *)

\* An element in front of a sequence.
LEMMA ConsProperties ==
    ASSUME NEW S, NEW e \in S, NEW s \in Seq(S)
    PROVE  /\ <<e>> \o s \in Seq(S)
           /\ Len(<<e>> \o s) = Len(s) + 1
           /\ \A i \in 1..Len(s) + 1 : (<<e>> \o s)[i] = IF i = 1 THEN e ELSE s[i - 1]
<1>1. ASSUME NEW one \in Seq(S), Len(one) = 1, one[1] = e
      PROVE  /\ one \o s \in Seq(S)
             /\ Len(one \o s) = Len(s) + 1
             /\ \A i \in 1..Len(s) + 1 : (one \o s)[i] = IF i = 1 THEN e ELSE s[i - 1]
  BY <1>1, ConcatProperties, LenProperties
<1>2. <<e>> \in Seq(S) /\ Len(<<e>>) = 1 /\ <<e>>[1] = e
  OBVIOUS
<1> QED BY <1>1, <1>2

\* A sequence is its first element in front of the others.
LEMMA ConsIs ==
    ASSUME NEW S, NEW e \in S, NEW s \in Seq(S), NEW t \in Seq(S),
           Len(t) = Len(s) + 1, t[1] = e, \A i \in 1..Len(s) : t[i + 1] = s[i]
    PROVE  t = <<e>> \o s
<1>1. Len(s) \in Nat
  BY LenProperties
<1>2. /\ <<e>> \o s \in Seq(S) /\ Len(<<e>> \o s) = Len(t)
      /\ \A i \in 1..Len(t) : (<<e>> \o s)[i] = IF i = 1 THEN e ELSE s[i - 1]
  BY ConsProperties
<1>3. ASSUME NEW i \in 1..Len(t)
      PROVE  t[i] = IF i = 1 THEN e ELSE s[i - 1]
  <2>1. i # 1 => i - 1 \in 1..Len(s) /\ (i - 1) + 1 = i
    BY <1>1
  <2> QED BY <2>1
<1>4. \A i \in 1..Len(t) : t[i] = (<<e>> \o s)[i]
  BY <1>2, <1>3
<1> QED BY <1>2, <1>4, SeqEqual

\* The front, the back and the middle of a concatenation.
LEMMA Cuts ==
    ASSUME NEW S, NEW x \in Seq(S), NEW y \in Seq(S), NEW z \in Seq(S)
    PROVE  /\ SubSeq(x \o y, 1, Len(x)) = x
           /\ SubSeq(x \o y, Len(x) + 1, Len(x \o y)) = y
           /\ SubSeq(x \o (y \o z), Len(x) + 1, Len(x) + Len(y)) = y
<1>1. Len(x) \in Nat /\ Len(y) \in Nat /\ Len(z) \in Nat
  BY LenProperties
<1>2. ASSUME NEW u \in Seq(S), NEW v \in Seq(S), NEW k \in Nat, Len(u) >= k + Len(v),
             \A i \in 1..Len(v) : u[k + i] = v[i]
      PROVE  SubSeq(u, k + 1, k + Len(v)) = v
  <2> DEFINE w == SubSeq(u, k + 1, k + Len(v))
  <2>1. Len(u) \in Nat /\ Len(v) \in Nat
    BY LenProperties
  <2>2. \A i \in k + 1..k + Len(v) : u[i] \in S
    BY <1>2, <2>1, ElementOfSeq
  <2>3. /\ w \in Seq(S)
        /\ Len(w) = IF k + 1 <= k + Len(v) THEN (k + Len(v)) - (k + 1) + 1 ELSE 0
        /\ \A i \in 1..(k + Len(v)) - (k + 1) + 1 : w[i] = u[(k + 1) + i - 1]
    BY <2>1, <2>2, SubSeqProperties
  <2> HIDE DEF w
  <2>4. Len(w) = Len(v) /\ \A i \in 1..Len(v) : w[i] = v[i]
    BY <1>2, <2>1, <2>3
  <2>5. w = v
    BY <2>3, <2>4, SeqEqual
  <2> QED BY <2>5 DEF w
<1>3. SubSeq(x \o y, 1, Len(x)) = x
  <2> DEFINE u == x \o y
  <2>1. u \in Seq(S) /\ Len(u) >= 0 + Len(x) /\ \A i \in 1..Len(x) : u[0 + i] = x[i]
    BY <1>1, ConcatProperties
  <2> HIDE DEF u
  <2>2. SubSeq(u, 0 + 1, 0 + Len(x)) = x
    BY <1>2, <2>1
  <2> QED BY <1>1, <2>2 DEF u
<1>4. SubSeq(x \o y, Len(x) + 1, Len(x \o y)) = y
  <2> DEFINE u == x \o y
  <2>1. /\ u \in Seq(S) /\ Len(u) = Len(x) + Len(y)
        /\ \A i \in 1..Len(y) : u[Len(x) + i] = y[i]
    BY <1>1, ConcatProperties
  <2> HIDE DEF u
  <2>2. SubSeq(u, Len(x) + 1, Len(x) + Len(y)) = y
    BY <1>1, <1>2, <2>1
  <2> QED BY <2>1, <2>2 DEF u
<1>5. ASSUME NEW v \in Seq(S), Len(v) >= Len(y), \A i \in 1..Len(y) : v[i] = y[i]
      PROVE  SubSeq(x \o v, Len(x) + 1, Len(x) + Len(y)) = y
  <2>1. Len(v) \in Nat
    BY LenProperties
  <2>2. /\ x \o v \in Seq(S) /\ Len(x \o v) = Len(x) + Len(v)
        /\ \A i \in 1..Len(v) : (x \o v)[Len(x) + i] = v[i]
    BY <1>1, <2>1, ConcatProperties
  <2>3. /\ Len(x \o v) >= Len(x) + Len(y)
        /\ \A i \in 1..Len(y) : (x \o v)[Len(x) + i] = y[i]
    BY <1>1, <1>5, <2>1, <2>2
  <2> QED BY <1>1, <1>2, <2>2, <2>3
<1>6. /\ y \o z \in Seq(S) /\ Len(y \o z) >= Len(y)
      /\ \A i \in 1..Len(y) : (y \o z)[i] = y[i]
  BY <1>1, ConcatProperties
<1>7. SubSeq(x \o (y \o z), Len(x) + 1, Len(x) + Len(y)) = y
  BY <1>5, <1>6
<1> QED BY <1>3, <1>4, <1>7

\* The back of a sequence that is not empty begins with the element after the
\* cut.
LEMMA BackOf ==
    ASSUME NEW S, NEW s \in Seq(S), NEW k \in Nat, SubSeq(s, k + 1, Len(s)) # <<>>
    PROVE  /\ k + 1 <= Len(s)
           /\ Head(SubSeq(s, k + 1, Len(s))) = s[k + 1]
           /\ Tail(SubSeq(s, k + 1, Len(s))) = SubSeq(s, (k + 1) + 1, Len(s))
<1> DEFINE t == SubSeq(s, k + 1, Len(s))
           u == SubSeq(s, (k + 1) + 1, Len(s))
<1>1. Len(s) \in Nat /\ \A i \in 1..Len(s) : s[i] \in S
  BY LenProperties, ElementOfSeq
<1>2. ASSUME NEW m \in Nat
      PROVE  /\ SubSeq(s, m + 1, Len(s)) \in Seq(S)
             /\ Len(SubSeq(s, m + 1, Len(s))) = IF m + 1 <= Len(s) THEN Len(s) - (m + 1) + 1 ELSE 0
             /\ \A i \in 1..Len(s) - (m + 1) + 1 : SubSeq(s, m + 1, Len(s))[i] = s[(m + 1) + i - 1]
  <2>1. m + 1 \in Int /\ Len(s) \in Int /\ \A i \in m + 1..Len(s) : s[i] \in S
    BY <1>1
  <2> QED BY <2>1, SubSeqProperties
<1>3. /\ t \in Seq(S) /\ t # <<>>
      /\ Len(t) = IF k + 1 <= Len(s) THEN Len(s) - (k + 1) + 1 ELSE 0
      /\ \A i \in 1..Len(s) - (k + 1) + 1 : t[i] = s[(k + 1) + i - 1]
  BY <1>2
<1>4. /\ u \in Seq(S)
      /\ Len(u) = IF (k + 1) + 1 <= Len(s) THEN Len(s) - ((k + 1) + 1) + 1 ELSE 0
      /\ \A i \in 1..Len(s) - ((k + 1) + 1) + 1 : u[i] = s[((k + 1) + 1) + i - 1]
  <2>1. k + 1 \in Nat
    OBVIOUS
  <2> QED BY <1>2, <2>1
<1> HIDE DEF t, u
<1>5. /\ Head(t) = t[1] /\ Tail(t) \in Seq(S) /\ Len(Tail(t)) = Len(t) - 1
      /\ \A i \in 1..Len(Tail(t)) : Tail(t)[i] = t[i + 1]
      /\ Len(t) # 0
  BY <1>3, HeadTailProperties, EmptySeq
<1>6. k + 1 <= Len(s) /\ Len(t) = Len(s) - k /\ Len(u) = Len(s) - (k + 1)
  BY <1>1, <1>3, <1>4, <1>5
<1>7. Head(t) = s[k + 1]
  <2>1. t[1] = s[(k + 1) + 1 - 1]
    BY <1>1, <1>3, <1>6
  <2> QED BY <1>5, <2>1
<1>8. ASSUME NEW i \in 1..Len(u)
      PROVE  Tail(t)[i] = u[i]
  <2>1. /\ i \in 1..Len(Tail(t)) /\ i + 1 \in 1..Len(s) - (k + 1) + 1
        /\ i \in 1..Len(s) - ((k + 1) + 1) + 1
        /\ (k + 1) + (i + 1) - 1 = ((k + 1) + 1) + i - 1
    BY <1>1, <1>5, <1>6
  <2>2. Tail(t)[i] = t[i + 1] /\ t[i + 1] = s[(k + 1) + (i + 1) - 1]
    BY <1>3, <1>5, <2>1
  <2>3. u[i] = s[((k + 1) + 1) + i - 1]
    BY <1>4, <2>1
  <2> QED BY <2>1, <2>2, <2>3
<1>9. Tail(t) = u
  <2>1. Len(Tail(t)) = Len(u)
    BY <1>1, <1>5, <1>6
  <2> QED BY <1>4, <1>5, <1>8, <2>1, SeqEqual
<1> QED BY <1>6, <1>7, <1>9 DEF t, u

-----------------------------------------------------------------------------
(* FlattenSeq.                                                             *)

\* The equation the recursive function of FlattenSeq is chosen by.
Flattens(f, seqs, n) ==
    f = [i \in 1..n |-> IF i = 1 THEN seqs[i] ELSE f[i - 1] \o seqs[i]]

\* It has a solution for every prefix: that of a longer one extends that of a
\* shorter one.
LEMMA FlattenExists ==
    ASSUME NEW seqs, NEW n \in Nat \ {0}
    PROVE  \E f : Flattens(f, seqs, n)
<1> DEFINE T == {m \in 1..n : \E f : Flattens(f, seqs, m)}
<1>1. 1 \in T
  <2>1. Flattens([i \in 1..1 |-> seqs[1]], seqs, 1)
    BY DEF Flattens
  <2> QED BY <2>1
<1>2. ASSUME NEW m \in 1..n, m \in T, m + 1 <= n
      PROVE  m + 1 \in T
  <2>1. PICK g : Flattens(g, seqs, m)
    BY <1>2
  <2> DEFINE h == [i \in 1..(m + 1) |-> IF i = m + 1 THEN g[m] \o seqs[m + 1] ELSE g[i]]
  <2>2. ASSUME NEW i \in 1..(m + 1)
        PROVE  h[i] = IF i = 1 THEN seqs[i] ELSE h[i - 1] \o seqs[i]
    <3>1. i # 1 => i - 1 \in 1..m /\ h[i - 1] = g[i - 1]
      BY <1>2
    <3>2. CASE i = m + 1
      <4>1. i # 1 /\ i - 1 = m /\ seqs[i] = seqs[m + 1]
        BY <1>2, <3>2
      <4>2. h[i] = g[m] \o seqs[m + 1] /\ h[i - 1] = g[m]
        BY <3>1, <3>2, <4>1
      <4> HIDE DEF h
      <4> QED BY <4>1, <4>2
    <3>3. CASE i # m + 1
      <4>1. i \in 1..m
        BY <1>2, <3>3
      <4>2. g[i] = IF i = 1 THEN seqs[i] ELSE g[i - 1] \o seqs[i]
        BY <2>1, <4>1 DEF Flattens
      <4> QED BY <3>1, <3>3, <4>2
    <3> QED BY <3>2, <3>3
  <2>3. h = [i \in 1..(m + 1) |-> h[i]]
    OBVIOUS
  <2> HIDE DEF h
  <2>4. Flattens(h, seqs, m + 1)
    BY <2>2, <2>3 DEF Flattens
  <2> QED BY <1>2, <2>4
<1> HIDE DEF T
<1>3. 1..n \subseteq T
  BY <1>1, <1>2, IntervalInduction
<1>4. n \in T
  BY <1>3
<1> QED BY <1>4 DEF T

\* FlattenSeq of a sequence that is not empty is the last value of a solution.
LEMMA FlattenUnfold ==
    ASSUME NEW seqs, Len(seqs) \in Nat \ {0}
    PROVE  \E f : Flattens(f, seqs, Len(seqs)) /\ FlattenSeq(seqs) = f[Len(seqs)]
<1> DEFINE g == CHOOSE f : Flattens(f, seqs, Len(seqs))
<1>1. Flattens(g, seqs, Len(seqs))
  BY FlattenExists
<1>2. g = CHOOSE f : f = [i \in 1..Len(seqs) |->
                            IF i = 1 THEN seqs[i] ELSE f[i - 1] \o seqs[i]]
  BY DEF Flattens
<1>3. FlattenSeq(seqs) = g[Len(seqs)]
  BY <1>2 DEF FlattenSeq
<1> QED BY <1>1, <1>3

\* Every value of a solution is a sequence of the elements of the parts.
LEMMA FlattensType ==
    ASSUME NEW S, NEW seqs \in Seq(Seq(S)), NEW f, Flattens(f, seqs, Len(seqs))
    PROVE  \A i \in 1..Len(seqs) : f[i] \in Seq(S)
<1> DEFINE T == {i \in 1..Len(seqs) : f[i] \in Seq(S)}
<1>1. /\ Len(seqs) \in Nat
      /\ \A i \in 1..Len(seqs) : seqs[i] \in Seq(S)
  BY LenProperties, ElementOfSeq
<1>2. \A i \in 1..Len(seqs) : f[i] = IF i = 1 THEN seqs[i] ELSE f[i - 1] \o seqs[i]
  BY DEF Flattens
<1>3. 1 <= Len(seqs) => 1 \in T
  BY <1>1, <1>2
<1>4. ASSUME NEW i \in 1..Len(seqs), i \in T, i + 1 <= Len(seqs)
      PROVE  i + 1 \in T
  <2>1. i + 1 \in 1..Len(seqs) /\ i + 1 # 1 /\ (i + 1) - 1 = i
    BY <1>1, <1>4
  <2>2. f[i + 1] = f[i] \o seqs[i + 1]
    BY <1>2, <2>1
  <2>3. f[i + 1] \in Seq(S)
    BY <1>1, <1>4, <2>1, <2>2, ConcatProperties
  <2> QED BY <2>1, <2>3
<1> HIDE DEF T
<1>5. 1..Len(seqs) \subseteq T
  BY <1>1, <1>3, <1>4, IntervalInduction
<1> QED BY <1>5 DEF T

\* FlattenSeq of sequences over S is a sequence over S.
LEMMA FlattenType ==
    ASSUME NEW S, NEW seqs \in Seq(Seq(S))
    PROVE  FlattenSeq(seqs) \in Seq(S)
<1>1. CASE Len(seqs) = 0
  BY <1>1, EmptySeq DEF FlattenSeq
<1>2. CASE Len(seqs) # 0
  <2>1. Len(seqs) \in Nat \ {0}
    BY <1>2, LenProperties
  <2>2. PICK f : Flattens(f, seqs, Len(seqs)) /\ FlattenSeq(seqs) = f[Len(seqs)]
    BY <2>1, FlattenUnfold
  <2>3. Len(seqs) \in 1..Len(seqs)
    BY <2>1
  <2> QED BY <2>2, <2>3, FlattensType
<1> QED BY <1>1, <1>2

\* Of nothing it is nothing, and of one sequence it is that sequence.
LEMMA FlattenEmpty == FlattenSeq(<<>>) = <<>>
BY EmptySeq DEF FlattenSeq

\* A part in front comes first.
LEMMA FlattenCons ==
    ASSUME NEW S, NEW s \in Seq(S), NEW seqs \in Seq(Seq(S))
    PROVE  FlattenSeq(<<s>> \o seqs) = s \o FlattenSeq(seqs)
<1> DEFINE all == <<s>> \o seqs
           n   == Len(seqs)
<1>1. /\ all \in Seq(Seq(S)) /\ n \in Nat /\ Len(all) = n + 1
      /\ \A i \in 1..n + 1 : all[i] = IF i = 1 THEN s ELSE seqs[i - 1]
  BY ConsProperties, LenProperties
<1> HIDE DEF all
<1>2. PICK h : Flattens(h, all, Len(all)) /\ FlattenSeq(all) = h[Len(all)]
  <2>1. Len(all) \in Nat \ {0}
    BY <1>1
  <2> QED BY <2>1, FlattenUnfold
<1>3. \A i \in 1..n + 1 : h[i] = IF i = 1 THEN all[i] ELSE h[i - 1] \o all[i]
  BY <1>1, <1>2 DEF Flattens
<1>4. h[1] = s
  BY <1>1, <1>3
<1>5. CASE n = 0
  <2>1. FlattenSeq(all) = s
    BY <1>1, <1>2, <1>4, <1>5
  <2>2. FlattenSeq(seqs) = <<>>
    BY <1>5, EmptySeq, FlattenEmpty
  <2>3. s = s \o FlattenSeq(seqs)
    BY <2>2, ConcatEmptySeq
  <2> QED BY <2>1, <2>3 DEF all
<1>6. CASE n # 0
  <2>1. PICK f : Flattens(f, seqs, n) /\ FlattenSeq(seqs) = f[n]
    BY <1>1, <1>6, FlattenUnfold
  <2>2. \A i \in 1..n : f[i] = IF i = 1 THEN seqs[i] ELSE f[i - 1] \o seqs[i]
    BY <2>1 DEF Flattens
  <2>3. \A i \in 1..n : f[i] \in Seq(S) /\ seqs[i] \in Seq(S)
    BY <2>1, FlattensType, ElementOfSeq
  <2> DEFINE T == {i \in 1..n : h[i + 1] = s \o f[i]}
  <2>4. 1 \in T
    <3>1. h[1 + 1] = h[1] \o all[1 + 1] /\ all[1 + 1] = seqs[1] /\ f[1] = seqs[1]
      <4>1. 2 \in 1..n + 1 /\ 1 \in 1..n /\ 2 # 1 /\ 2 - 1 = 1 /\ 1 + 1 = 2
        BY <1>1, <1>6
      <4> QED BY <1>1, <1>3, <2>2, <4>1
    <3>2. h[1 + 1] = s \o f[1]
      BY <1>4, <3>1
    <3>3. 1 \in 1..n
      BY <1>1, <1>6
    <3> QED BY <3>2, <3>3
  <2>5. ASSUME NEW i \in 1..n, i \in T, i + 1 <= n
        PROVE  i + 1 \in T
    <3>1. /\ i + 1 \in 1..n /\ i + 1 # 1 /\ (i + 1) - 1 = i
          /\ i + 2 \in 1..n + 1 /\ i + 2 # 1 /\ (i + 2) - 1 = i + 1 /\ (i + 1) + 1 = i + 2
      BY <1>1, <2>5
    <3>2. h[i + 2] = h[i + 1] \o all[i + 2] /\ all[i + 2] = seqs[i + 1]
      BY <1>1, <1>3, <3>1
    <3>3. f[i + 1] = f[i] \o seqs[i + 1]
      BY <2>2, <3>1
    <3>4. h[i + 1] = s \o f[i]
      BY <2>5
    <3>5. (s \o f[i]) \o seqs[i + 1] = s \o (f[i] \o seqs[i + 1])
      <4>1. f[i] \in Seq(S) /\ seqs[i + 1] \in Seq(S)
        BY <2>3, <3>1
      <4>2. \A a, b \in Seq(S) : (s \o a) \o b = s \o (a \o b)
        OBVIOUS
      <4> QED BY <4>1, <4>2
    <3>6. h[(i + 1) + 1] = s \o f[i + 1]
      BY <3>1, <3>2, <3>3, <3>4, <3>5
    <3> QED BY <3>1, <3>6
  <2> HIDE DEF T
  <2>6. 1..n \subseteq T
    BY <1>1, <2>4, <2>5, IntervalInduction
  <2>7. n \in 1..n
    BY <1>1, <1>6
  <2>8. h[n + 1] = s \o f[n]
    BY <2>6, <2>7 DEF T
  <2> QED BY <1>1, <1>2, <2>1, <2>8 DEF all
<1> QED BY <1>5, <1>6

\* FlattenSeq of n + 1 sequences is that of the first n, and the last.
LEMMA FlattenLast ==
    ASSUME NEW S, NEW n \in Nat, NEW s \in Seq(Seq(S)), NEW t \in Seq(Seq(S)),
           Len(t) = n, Len(s) = n + 1, \A i \in 1..n : s[i] = t[i]
    PROVE  FlattenSeq(s) = FlattenSeq(t) \o s[n + 1]
<1>1. PICK f : Flattens(f, s, n + 1) /\ FlattenSeq(s) = f[n + 1]
  <2>1. Len(s) \in Nat \ {0}
    OBVIOUS
  <2> QED BY <2>1, FlattenUnfold
<1>2. f[n + 1] = IF n + 1 = 1 THEN s[n + 1] ELSE f[n] \o s[n + 1]
  <2>1. n + 1 \in 1..n + 1 /\ (n + 1) - 1 = n
    OBVIOUS
  <2>2. \A i \in 1..n + 1 : f[i] = IF i = 1 THEN s[i] ELSE f[i - 1] \o s[i]
    BY <1>1 DEF Flattens
  <2> QED BY <2>1, <2>2
<1>3. s[n + 1] \in Seq(S)
  <2>1. n + 1 \in 1..Len(s)
    OBVIOUS
  <2> QED BY <2>1, ElementOfSeq
<1>4. CASE n = 0
  <2>1. t = <<>> /\ FlattenSeq(t) = <<>>
    BY <1>4, EmptySeq, FlattenEmpty
  <2>2. <<>> \o s[n + 1] = s[n + 1]
    BY <1>3, ConcatEmptySeq
  <2> QED BY <1>1, <1>2, <1>4, <2>1, <2>2
<1>5. CASE n # 0
  <2>1. PICK g : Flattens(g, t, n) /\ FlattenSeq(t) = g[n]
    <3>1. Len(t) \in Nat \ {0}
      BY <1>5
    <3> QED BY <3>1, FlattenUnfold
  <2> DEFINE T == {i \in 1..n : f[i] = g[i]}
  <2>2. 1 \in T
    <3>1. 1 \in 1..n /\ 1 \in 1..n + 1
      BY <1>5
    <3>2. f[1] = s[1] /\ g[1] = t[1] /\ s[1] = t[1]
      BY <1>1, <2>1, <3>1 DEF Flattens
    <3> QED BY <3>1, <3>2
  <2>3. ASSUME NEW i \in 1..n, i \in T, i + 1 <= n
        PROVE  i + 1 \in T
    <3>1. /\ i + 1 \in 1..n /\ i + 1 \in 1..n + 1 /\ i + 1 # 1 /\ (i + 1) - 1 = i
          /\ f[i] = g[i]
      BY <2>3
    <3>2. f[i + 1] = f[i] \o s[i + 1]
      BY <1>1, <3>1 DEF Flattens
    <3>3. g[i + 1] = g[i] \o t[i + 1]
      BY <2>1, <3>1 DEF Flattens
    <3>4. s[i + 1] = t[i + 1]
      BY <3>1
    <3> QED BY <3>1, <3>2, <3>3, <3>4
  <2> HIDE DEF T
  <2>4. f[n] = g[n]
    <3>1. 1..n \subseteq T
      BY <2>2, <2>3, IntervalInduction
    <3>2. n \in 1..n
      BY <1>5
    <3> QED BY <3>1, <3>2 DEF T
  <2>5. n + 1 # 1
    BY <1>5
  <2> QED BY <1>1, <1>2, <2>1, <2>4, <2>5
<1> QED BY <1>4, <1>5
=============================================================================
