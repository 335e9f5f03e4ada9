-------------------------- MODULE QueryParameters --------------------------
(***************************************************************************)
(* From the SQL text of a call to what ct-lib gets: sybase_query::init()   *)
(* scans the text for quoted strings, parameters and placeholders,         *)
(* command::set_params() hands the arguments to ct_param(), and            *)
(* connection::setupCommand() does both again when the send fails on a     *)
(* session that can be replaced.                                           *)
(*                                                                         *)
(* The text is a sequence of characters reduced to those the scanner tells *)
(* apart; "x" is any other letter, digit or underscore, "." any other      *)
(* character, and "dquote" the double quote.  The code replaces in place:  *)
(* cmd is the part of m_cmd that has been scanned, and the rest of text    *)
(* still follows it.                                                       *)
(***************************************************************************)
EXTENDS Integers, Sequences, SequencesExt

CONSTANTS Texts,      \* SQL texts
          ArgLists,   \* lists of arguments
          MaxSends    \* bound: how often one call sends

ASSUME MaxSendsAssumption == MaxSends \in Nat \ {0}

Letters == {"v", "d", "s", "x"}          \* isalnum() or '_'
Chars   == Letters \cup {"dquote", "'", "\\", "%", ":", "."}

\* Arguments by what set_params() does with them; id tells them apart.
\* "null": NULL and NOTHING; "value": a type it binds; "date": an explicit
\* bind {type: "date"} of a date; "wrong": an explicit bind of another type or
\* value, or a type it cannot bind.
Null == [kind |-> "null", id |-> 0]
Kinds == {"null", "value", "date", "wrong"}

ASSUME InputsAssumption ==
    Texts \subseteq Seq(Chars) /\ ArgLists \subseteq Seq([kind : Kinds, id : Nat])

VARIABLES
    text, args, given,  \* the call: given is FALSE for a null argument list
    raw,                \* execRaw() and prepareRaw(): no scan
    pc,
    pos,                \* characters read (s)
    quote,              \* the quote whose end is looked for, or "none"
    cmd,                \* m_cmd up to s
    paramList,          \* param_list
    placeholders,
    i,                  \* the loop of set_params()
    bound,              \* ct_param() calls that succeeded
    sent                \* history: the commands given to ct_send()

query == <<cmd, paramList, placeholders>>
call  == <<text, args, given, raw>>
vars  == <<call, pc, pos, quote, query, i, bound, sent>>

Halted == {"sent", "refused", "raised", "overrun"}

-----------------------------------------------------------------------------
(* What cmd is made of: a character, the name of a parameter, or the text  *)
(* of an argument, which is put in as it is and not scanned.               *)

Char(c)     == [is |-> c, n |-> 0]
ParName(n)  == [is |-> "@par", n |-> n]
Inserted(n) == [is |-> "text", n |-> n]

\* QoreListNode::retrieveEntry(): NOTHING behind the end.
ArgAt(n) == IF given /\ n \in DOMAIN args THEN args[n] ELSE Null

Read(k) == IF pos + k \in DOMAIN text THEN text[pos + k] ELSE "NUL"

Scan(k, c) == /\ pos' = pos + k /\ cmd' = cmd \o c
              /\ UNCHANGED <<call, quote, i, bound, sent>>

Init ==
    /\ text \in Texts /\ args \in ArgLists
    /\ given \in BOOLEAN /\ raw \in BOOLEAN
    /\ (~given => args = <<>>) /\ (raw => ~given)
    /\ pc = "start" /\ pos = 0 /\ quote = "none" /\ i = 0
    /\ cmd = <<>> /\ paramList = <<>> /\ placeholders = <<>>
    /\ bound = <<>> /\ sent = <<>>

\* Mutated form of NewQuery: the parameters of the last try are kept.
NewQueryKeepsList == UNCHANGED <<paramList, placeholders>>

\* Each round of setupCommand() begins with a new sybase_query; raw text is
\* taken as it is.
NewQuery == paramList' = <<>> /\ placeholders' = <<>>

SetupCommand ==
    /\ pc = "start"
    /\ NewQuery
    /\ cmd' = IF raw THEN [p \in DOMAIN text |-> Char(text[p])] ELSE <<>>
    /\ pc' = IF raw THEN "params" ELSE "scan"
    /\ pos' = 0 /\ quote' = "none" /\ bound' = <<>> /\ i' = 0
    /\ UNCHANGED <<call, sent>>

-----------------------------------------------------------------------------
(* sybase_query::init()                                                    *)

\* Mutated form of Escapes: a backslash is a character like any other.
EscapesNothing(c) == FALSE
Escapes(c) == c = "\\"

\* Inside a quoted string nothing but its quote and a backslash matters.  There
\* is no test for the end of the text: the loop runs off the buffer.
InString ==
    /\ pc = "scan" /\ quote # "none"
    /\ LET taken == IF Escapes(Read(1)) THEN 2 ELSE 1 IN
       \/ /\ pos + taken > Len(text)
          /\ pc' = "overrun"
          /\ UNCHANGED <<call, pos, quote, query, i, bound, sent>>
       \/ /\ pos + taken <= Len(text)
          /\ pos' = pos + taken
          /\ cmd' = cmd \o [k \in 1..taken |-> Char(Read(k))]
          /\ quote' = IF Read(1) = quote THEN "none" ELSE quote
          /\ UNCHANGED <<call, pc, paramList, placeholders, i, bound, sent>>

Scanning == pc = "scan" /\ quote = "none"

OpenQuote ==
    /\ Scanning /\ Read(1) \in {"dquote", "'"}
    /\ quote' = Read(1) /\ pos' = pos + 1 /\ cmd' = Append(cmd, Char(Read(1)))
    /\ UNCHANGED <<call, pc, paramList, placeholders, i, bound, sent>>

PlainChar ==
    /\ Scanning /\ Read(1) \in Letters \cup {"\\", "."}
    /\ Scan(1, <<Char(Read(1))>>)
    /\ UNCHANGED <<pc, paramList, placeholders>>

\* Mutated form of ParNumber: only the parameters that are bound are counted.
ParNumberOfBound == Len(SelectSeq(paramList, LAMBDA p : p = "v")) + 1

\* A parameter is named by its place among all %v, %d and %s.
ParNumber == Len(paramList) + 1

ValueParameter ==
    /\ Scanning /\ Read(1) = "%" /\ Read(2) = "v"
    /\ Scan(2, <<ParName(ParNumber)>>)
    /\ paramList' = Append(paramList, "v")
    /\ UNCHANGED <<pc, placeholders>>

\* Mutated form of AfterInsertion: %s keeps a mark of its own.
AfterInsertionMarks == Append(paramList, Read(2))

\* %d and %s: both are marked 'd', to be skipped by set_params().
AfterInsertion == Append(paramList, "d")

TextParameter ==
    /\ Scanning /\ Read(1) = "%" /\ Read(2) \in {"d", "s"}
    /\ Scan(2, <<Inserted(ArgAt(Len(paramList) + 1).id)>>)
    /\ paramList' = AfterInsertion
    /\ UNCHANGED <<pc, placeholders>>

\* init() returns -1: a bad conversion, DBI_concat_string() raised, or a ':'
\* without a name.
Refuse ==
    /\ Scanning
    /\ \/ Read(1) = "%" /\ Read(2) \notin {"v", "d"}
       \/ Read(1) = ":" /\ Read(2) \notin Letters
    /\ (Read(1) = "%" /\ Read(2) = "s") => ArgAt(Len(paramList) + 1).kind # "null"
    /\ pc' = "refused"
    /\ UNCHANGED <<call, pos, quote, query, i, bound, sent>>

NameLength ==
    Max({n \in 0..Len(text) - pos - 1 : \A k \in 2..n + 1 : Read(k) \in Letters})

Placeholder ==
    /\ Scanning /\ Read(1) = ":" /\ NameLength > 0
    /\ LET name == [k \in 1..NameLength |-> Read(k + 1)] IN
       /\ Scan(1 + NameLength, <<Char("@")>> \o [k \in 1..NameLength |-> Char(name[k])])
       /\ placeholders' = Append(placeholders, name)
    /\ UNCHANGED <<pc, paramList>>

EndOfText ==
    /\ Scanning /\ Read(1) = "NUL"
    /\ pc' = "params"
    /\ UNCHANGED <<call, pos, quote, query, i, bound, sent>>

-----------------------------------------------------------------------------
(* command::bind_query() and set_params()                                  *)

Binding == pc = "bind" /\ i < Len(paramList)
Stop(where) == pc' = where /\ UNCHANGED <<call, pos, quote, query, i, bound, sent>>

\* ct_command() takes the text or fails; set_params() is called only with a list
\* of arguments.
InitiateCommand ==
    /\ pc = "params"
    /\ Stop("raised") \/ Stop(IF given THEN "bind" ELSE "send")

\* Mutated form of Param: parameters are named by the number of those bound.
ParamCounted(value) ==
    bound' = Append(bound, [name |-> Len(bound) + 1, value |-> value])

\* One successful ct_param().
Param(value) == bound' = Append(bound, [name |-> i + 1, value |-> value])

Continue == i' = i + 1 /\ UNCHANGED <<call, pc, pos, quote, query, sent>>

SkipInserted ==
    /\ Binding /\ paramList[i + 1] = "d"
    /\ Continue /\ UNCHANGED bound

\* NULL or a value of a type that can be bound; the conversion or ct_param()
\* may fail.
BindValue ==
    /\ Binding /\ paramList[i + 1] = "v"
    /\ ArgAt(i + 1).kind \in {"null", "value"}
    /\ \/ Param(ArgAt(i + 1)) /\ Continue
       \/ Stop("raised")

\* What ct_param() returned for an explicit date is not looked at.
AfterDate == Param(ArgAt(i + 1)) \/ UNCHANGED bound

\* An explicit date ends set_params(): the rest of param_list is not bound.
BindDate ==
    /\ Binding /\ paramList[i + 1] = "v" /\ ArgAt(i + 1).kind = "date"
    /\ AfterDate
    /\ pc' = "send"
    /\ UNCHANGED <<call, pos, quote, query, i, sent>>

\* Mutated form of GiveUp: the exception is raised, and the loop goes on.
GiveUpLater == Continue /\ UNCHANGED bound

\* do_exception() throws.
GiveUp == Stop("raised")

BindWrong ==
    /\ Binding /\ paramList[i + 1] = "v" /\ ArgAt(i + 1).kind = "wrong"
    /\ GiveUp

ParamsDone ==
    /\ pc = "bind" /\ i = Len(paramList)
    /\ Stop("send")

\* ct_send() works, fails for good, or fails on a session that is replaced.
Send ==
    /\ pc = "send"
    /\ sent' = Append(sent, [cmd |-> cmd, bound |-> bound])
    /\ \/ pc' \in {"sent", "raised"}
       \/ Len(sent) + 1 < MaxSends /\ pc' = "start"
    /\ UNCHANGED <<call, pos, quote, query, i, bound>>

Next == \/ SetupCommand
        \/ InString \/ OpenQuote \/ PlainChar \/ ValueParameter \/ TextParameter
        \/ Refuse \/ Placeholder \/ EndOfText
        \/ InitiateCommand \/ SkipInserted \/ BindValue \/ BindDate \/ BindWrong
        \/ ParamsDone \/ Send

Spec == Init /\ [][Next]_vars

-----------------------------------------------------------------------------
(* The same defined on the text as a whole.                                *)

\* The quoted string open after p characters, with the escape pending.
Open[p \in 0..Len(text)] ==
    IF p = 0 THEN [quote |-> "none", escaped |-> FALSE]
    ELSE LET o == Open[p - 1]  c == text[p] IN
         [quote   |-> CASE o.quote = "none" /\ c \in {"dquote", "'"} -> c
                        [] o.quote = c /\ ~o.escaped -> "none"
                        [] OTHER -> o.quote,
          escaped |-> o.quote # "none" /\ c = "\\" /\ ~o.escaped]

Outside(p) == Open[p - 1].quote = "none"
Marker(p)  == p \in DOMAIN text /\ Outside(p) /\ text[p] = "%"
Number(p)  == Cardinality({q \in 1..p : Marker(q)})

Piece(p) == CASE Marker(p) /\ text[p + 1] = "v" -> <<ParName(Number(p))>>
              [] Marker(p) /\ text[p + 1] # "v" -> <<Inserted(ArgAt(Number(p)).id)>>
              [] Marker(p - 1)                  -> <<>>
              [] Outside(p) /\ text[p] = ":"    -> <<Char("@")>>
              [] OTHER                          -> <<Char(text[p])>>

Rewritten == IF raw THEN [p \in DOMAIN text |-> Char(text[p])]
             ELSE FlattenSeq([p \in DOMAIN text |-> Piece(p)])

\* The %v parameters of the text that set_params() gets to: an explicit date
\* is the last one it binds.
Names == {n \in 1..Len(text) : ParName(n) \in ToSet(Rewritten)}
DateBefore(n) == \E k \in Names : k < n /\ ArgAt(k).kind = "date"
Reached == {n \in Names : given /\ ~DateBefore(n)}

-----------------------------------------------------------------------------
(* Properties                                                              *)

TypeOK ==
    /\ text \in Texts /\ args \in ArgLists /\ given \in BOOLEAN /\ raw \in BOOLEAN
    /\ pc \in {"start", "scan", "params", "bind", "send"} \cup Halted
    /\ pos \in 0..Len(text) /\ quote \in {"none", "dquote", "'"}
    /\ cmd \in Seq([is : Chars \cup {"@", "@par", "text"}, n : Nat])
    /\ paramList \in Seq({"v", "d"}) /\ placeholders \in Seq(Seq(Letters))
    /\ i \in 0..Len(paramList)
    /\ bound \in Seq([name : Nat, value : [kind : Kinds, id : Nat]])
    /\ Len(sent) <= MaxSends

\* What is sent is the text with each %v, %d, %s and ':' that is outside of
\* quoted strings replaced, numbered by its place among the parameters, and
\* nothing else touched: neither inside strings, nor in a text put in for %s
\* (sybase_query::init(), sybase_query.cpp:35-141).
TextRewritten == \A k \in DOMAIN sent : sent[k].cmd = Rewritten

\* The scan runs off the buffer (sybase_query.cpp:49, 62) only for a text
\* that ends inside a string.
OverrunOnlyUnbalanced == pc = "overrun" => Open[Len(text)].quote # "none"

\* Each name in the text that is sent is bound, once, to the argument in its
\* place, and no other name is.  Left out are the cases for which the code does
\* not do so: names behind an explicit date are not bound at all
\* (command.cpp:304), the bind of the date itself may have failed, and without
\* a list of arguments set_params() is not called (command.cpp:961).
NamesBoundOnce ==
    \A k \in DOMAIN sent :
        LET b == sent[k].bound IN
        /\ \A m \in DOMAIN b : b[m].name \in Reached /\ b[m].value = ArgAt(b[m].name)
        /\ \A m, n \in DOMAIN b : b[m].name = b[n].name => m = n
        /\ \A n \in Reached : ArgAt(n).kind # "date" => \E m \in DOMAIN b : b[m].name = n

\* No argument that cannot be bound is sent without, unless it is behind an
\* explicit date: set_params() raises before ct_send() (command.cpp:306-316).
WrongNeverSent == sent # <<>> => \A n \in Reached : ArgAt(n).kind # "wrong"

\* A command sent again after the session was replaced (connection.cpp:146) is
\* the one that failed.
SentAgainUnchanged ==
    \A k \in DOMAIN sent :
        /\ sent[k].cmd = sent[1].cmd
        /\ (\A n \in Reached : ArgAt(n).kind # "date") => sent[k].bound = sent[1].bound
=============================================================================
