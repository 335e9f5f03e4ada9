--------------------------- MODULE MCResultColumns ---------------------------
(***************************************************************************)
(* TLC instance of ResultColumns: two or three columns with equal names,   *)
(* names that differ in case, no name, and names that look like a number   *)
(* that may be appended or an index.                                       *)
(***************************************************************************)
EXTENDS ResultColumns

MCWords == {"a", "A", "b", "0", "1", "2", "unnamed"}
MCLower == [w \in MCWords |-> IF w = "A" THEN "a" ELSE w]
MCIndex == [k \in 0..2 |-> <<"0", "1", "2">>[k + 1]]

A == Name("a")
A1 == Numbered(A, 1)

MCColumnLists == {<<A, Name("b")>>, <<A, Name("A")>>, <<NoName, Name("0")>>,
                  <<A, A, A>>, <<A, A1, A>>, <<A1, Name("A"), A>>,
                  <<A, NoName, A>>, <<Name("1"), NoName, NoName>>}

MCPlaceholderLists == {<<>>, <<NoName, A>>}

MCValues == {"p", "q", "s", "t", "u", "w", Null}
Row(v, nulls, n) == [k \in 1..n |-> IF k \in nulls THEN Null ELSE v[k]]
One == <<"p", "q", "s">>
Two == <<"t", "u", "w">>

MCRowLists == {<<>>}
    \cup {<<Row(One, x, n)>> : x \in {{}, {1}}, n \in {2, 3}}
    \cup {<<Row(One, {}, n), Row(Two, x, n)>> : x \in {{1}, {2, 3}}, n \in {2, 3}}
=============================================================================
