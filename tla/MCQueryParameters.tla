-------------------------- MODULE MCQueryParameters --------------------------
(***************************************************************************)
(* TLC instance of QueryParameters: every text of up to three characters,  *)
(* and longer ones in which parameters, quotes and escapes meet.           *)
(***************************************************************************)
EXTENDS QueryParameters

Val(k, n) == [kind |-> k, id |-> n]

MCArgLists == {<<>>,
               <<Val("value", 1), Val("value", 2), Val("value", 3)>>,
               <<Val("value", 1)>>,
               <<Val("date", 1), Val("value", 2), Val("wrong", 3)>>,
               <<Val("value", 1), Val("date", 2), Val("null", 0)>>,
               <<Val("null", 0), Val("wrong", 2), Val("value", 3)>>}

Short == UNION {[1..n -> Chars] : n \in 1..3}

P(c) == <<"%", c>>
Q(s) == <<"'">> \o s \o <<"'">>
D(s) == <<"dquote">> \o s \o <<"dquote">>

Long == {P(a) \o P(b) \o P(c) : a, b, c \in {"v", "d", "s"}}
        \cup {P("v") \o Q(P("v")) \o P("v"),
              Q(<<"'">>) \o P("v"),
              Q(<<"\\", "'">>) \o P("v"),
              D(<<"\\", "\\">>) \o P("v"),
              D(<<"'">> \o P("v")) \o P("s"),
              Q(<<"dquote">>) \o <<":", "x", "v">> \o P("d"),
              <<":", "v", "%", "v", ":", "x">>,
              P("s") \o <<".", "\\">> \o P("v") \o <<"'">>,
              P("v") \o P("%") \o P("v")}

MCTexts == Short \cup Long
=============================================================================
