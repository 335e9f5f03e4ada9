---------------------------- MODULE Diagnostics ----------------------------
(***************************************************************************)
(* The messages of the client library and of the server.  CT-Lib keeps     *)
(* them in a queue of the connection (ct_diag(CS_INIT), inline handling);  *)
(* the calls of the driver read it at their end, or when something fails,  *)
(* or not at all: the calls of a statement leave what came in to whoever   *)
(* reads next.  The state is the queue, the call that runs and, as a       *)
(* history, which exception told of which message.                         *)
(***************************************************************************)
EXTENDS Naturals, Sequences, FiniteSets

CONSTANTS MaxCalls,      \* bound: calls of a program
          MaxMessages    \* bound: messages in all

ASSUME BoundsAssumption == MaxCalls \in Nat /\ MaxMessages \in Nat

VARIABLES
    calls,      \* the calls so far, the last one may still run
    phase,      \* idle, running, purge, login, or dead
    queue,      \* the messages CT-Lib keeps
    arrived,    \* history: the messages that came in so far
    heard,      \* history: messages told of by an exception, and by which call
    caught,     \* messages in an exception that setupCommand() has caught
    forgiven,   \* history: messages cleared because of a 3902 or 3903
    cut,        \* history: messages discarded with a link, by the next login, or
                \* with an exception that another one replaced
    past,       \* history: calls left by an exception past all reading of messages
    answer,     \* history: what the server said to a commit or rollback
    raised      \* whether the call raises an exception

vars == <<calls, phase, queue, arrived, heard, caught, forgiven, cut, past, answer, raised>>

\* select(), exec() and the like; get_server_version(); a call of a statement;
\* commit() or rollback().
CallKinds == {"direct", "version", "statement", "end"}

\* The calls that end without a look at the messages.
Leaving == {"version", "statement"}

\* Messages of the client library and of the server, with a severity above 10
\* or not; NoTransaction is the server's 3902 or 3903.
MessageKinds == {"client", "clientInfo", "server", "serverInfo", "noTransaction"}
Messages == [id : Nat, call : Nat, kind : MessageKinds]

n    == Len(calls)
Kind == calls[n]

IsServer(m) == m.kind \in {"server", "serverInfo", "noTransaction"}

\* Mutated form of Severe: the messages of the client library are not looked at.
SevereOfServer(q) == {m \in q : m.kind \in {"server", "noTransaction"}}

\* The messages an exception is made of.
Severe(q) == {m \in q : m.kind \in {"client", "server", "noTransaction"}}

\* Call k may have left messages behind.
LeftBy(k) == calls[k] \in Leaving \/ k \in past

Tell(messages) == heard' = heard \cup [message : messages, by : {n}]

-----------------------------------------------------------------------------
(* The three readers of the queue.                                         *)

\* Mutated form of PurgeMessages: it returns before CS_CLEAR with nothing to tell.
PurgeMessagesKeep ==
    /\ Tell(Severe(queue))
    /\ raised' = (raised \/ Severe(queue) # {})
    /\ queue' = IF Severe(queue) = {} THEN queue ELSE {}

\* connection::purge_messages()
PurgeMessages ==
    /\ Tell(Severe(queue))
    /\ raised' = (raised \/ Severe(queue) # {})
    /\ queue' = {}

\* Mutated form of DoException: it throws before CS_CLEAR.
DoExceptionKeep == Tell(Severe(queue)) /\ raised' = TRUE /\ UNCHANGED queue

\* connection::do_exception(), which always throws
DoException == Tell(Severe(queue)) /\ raised' = TRUE /\ queue' = {}

\* Mutated form of Forgivable: a 3902 among others will do.
ForgivableAmongOthers(q) == \E m \in q : m.kind = "noTransaction"

\* fnd_ignore && num == 1: num counts the messages of the server.
Forgivable(q) == \E m \in q : /\ m.kind = "noTransaction"
                              /\ {k \in q : IsServer(k)} = {m}

-----------------------------------------------------------------------------
Init ==
    /\ calls = <<>> /\ phase = "idle"
    /\ queue = {} /\ arrived = {}
    /\ heard = {} /\ caught = {} /\ forgiven = {} /\ cut = {} /\ past = {}
    /\ answer = "none" /\ raised = FALSE

Call(kind) ==
    /\ phase = "idle" /\ n < MaxCalls
    /\ calls' = Append(calls, kind)
    /\ phase' = "running" /\ raised' = FALSE /\ answer' = "none" /\ caught' = {}
    /\ UNCHANGED <<queue, arrived, heard, forgiven, cut, past>>

\* A call of CT-Lib leaves a message, also one of those that read the rest of the
\* results of a commit or rollback before its messages are purged.  Only a commit or rollback is told that
\* there is no transaction, and a new connection is told nothing of one.
Arrive(kind) ==
    /\ phase \in {"running", "login"} \/ (phase = "purge" /\ Kind = "end")
    /\ Cardinality(arrived) < MaxMessages
    /\ kind = "noTransaction" => Kind = "end" /\ answer = "none"
    /\ LET m == [id |-> Cardinality(arrived), call |-> n, kind |-> kind] IN
       arrived' = arrived \cup {m} /\ queue' = queue \cup {m}
    /\ UNCHANGED <<calls, phase, heard, caught, forgiven, cut, past, answer, raised>>

\* Mutated form of AfterReading: direct calls return at once, like the others.
AfterReadingOnly(kind) == "idle"

\* select() and the others purge the messages when execReadOutput() returns, with
\* an exception raised or without; get_server_version() and a statement return.
AfterReading(kind) == IF kind \in Leaving THEN "idle" ELSE "purge"

\* Everything is read, or the row that was asked for.
ReadToEnd ==
    /\ phase = "running" /\ Kind # "end"
    /\ phase' = AfterReading(Kind)
    /\ UNCHANGED <<calls, queue, arrived, heard, caught, forgiven, cut, past, answer, raised>>

\* An exception that is raised, not thrown, without a look at the messages:
\* ct_results() gives CS_FAIL and the command can be cancelled, the text of a query
\* is refused, or selectRow() finds a second row.
RaiseUnread ==
    /\ phase = "running" /\ Kind # "end"
    /\ raised' = TRUE /\ phase' = AfterReading(Kind)
    /\ UNCHANGED <<calls, queue, arrived, heard, caught, forgiven, cut, past, answer>>

\* The call is left past purge_messages(): set_params() throws over an encoding or a
\* date, invalidateStatement() over a statement that has no command, or the text of
\* the query cannot be converted.  What waits stays, with what this call has added.
ThrowPast ==
    /\ phase = "running" /\ Kind # "end"
    /\ raised' = TRUE /\ phase' = "idle" /\ past' = past \cup {n}
    /\ UNCHANGED <<calls, queue, arrived, heard, caught, forgiven, cut, answer>>

\* A call of CT-Lib fails, or the server's answer is CS_CMD_FAIL.
CallFails ==
    /\ phase = "running" /\ DoException
    /\ phase' = "idle"
    /\ UNCHANGED <<calls, arrived, caught, forgiven, cut, past, answer>>

\* direct_execute() behind the first ct_results(): CS_CMD_SUCCEED.
EndSucceeds ==
    /\ phase = "running" /\ Kind = "end"
    /\ \A m \in queue : m.call = n => m.kind # "noTransaction"
    /\ answer' = "done" /\ phase' = "purge"
    /\ UNCHANGED <<calls, queue, arrived, heard, caught, forgiven, cut, past, raised>>

\* Any other result goes to do_check_exception(check = true); when that returns,
\* the results are read to their end.
EndRefused ==
    /\ phase = "running" /\ Kind = "end"
    /\ \E m \in queue : m.call = n /\ m.kind \in {"server", "noTransaction"}
    /\ answer' = "refused"
    /\ \/ /\ Forgivable(queue)
          /\ forgiven' = forgiven \cup queue /\ queue' = {}
          /\ phase' = "purge" /\ UNCHANGED <<heard, raised>>
       \/ /\ ~Forgivable(queue) /\ DoException
          /\ phase' = "idle" /\ UNCHANGED forgiven
    /\ UNCHANGED <<calls, arrived, caught, cut, past>>

Purge ==
    /\ phase = "purge" /\ PurgeMessages
    /\ phase' = "idle"
    /\ UNCHANGED <<calls, arrived, caught, forgiven, cut, past, answer>>

-----------------------------------------------------------------------------
(* closeAndReconnect(): the messages of the old link are discarded.        *)

\* ct_results() gives CS_FAIL and the command cannot be cancelled.
LinkLost ==
    /\ phase = "running" /\ Kind # "end"
    /\ cut' = cut \cup queue /\ queue' = {}
    /\ raised' = TRUE /\ phase' = "login"
    /\ UNCHANGED <<calls, arrived, heard, caught, forgiven, past, answer>>

\* ct_send() fails and the link is down: the exception with the messages is kept,
\* and one is raised if there was a transaction.
SendFails ==
    /\ phase = "running" /\ Kind # "end"
    /\ caught' = Severe(queue)
    /\ cut' = cut \cup queue /\ queue' = {}
    /\ raised' \in BOOLEAN /\ phase' = "login"
    /\ UNCHANGED <<calls, arrived, heard, forgiven, past, answer>>

\* Mutated form of LoginEnds: what was caught is kept when the command is sent again.
LoginEndsKeeps ==
    /\ phase = "login"
    /\ Tell(Severe(queue) \cup (IF raised \/ Severe(queue) # {} THEN caught ELSE {}))
    /\ raised' = (raised \/ Severe(queue) # {})
    /\ queue' = {}
    /\ phase' = IF raised' THEN "dead" ELSE "running"
    /\ UNCHANGED <<calls, arrived, caught, forgiven, cut, past, answer>>

\* As SendFails, in the first exec() of a statement: it is registered and has no
\* command, so invalidateStatement() throws in the handler, before the connection is
\* closed, and the exception with the messages is gone.
ReconnectThrows ==
    /\ phase = "running" /\ Kind = "statement"
    /\ cut' = cut \cup queue /\ queue' = {}
    /\ raised' = TRUE /\ phase' = "idle"
    /\ UNCHANGED <<calls, arrived, heard, caught, forgiven, past, answer>>

\* init() ends with purge_messages().  With an exception, its own or an earlier
\* one, the Datasource is closed, and setupCommand() throws what it has caught;
\* without one it sends the command again.
LoginEnds ==
    /\ phase = "login"
    /\ Tell(Severe(queue) \cup (IF raised \/ Severe(queue) # {} THEN caught ELSE {}))
    /\ raised' = (raised \/ Severe(queue) # {})
    /\ queue' = {}
    /\ phase' = IF raised' THEN "dead" ELSE "running"
    /\ caught' = {}
    /\ UNCHANGED <<calls, arrived, forgiven, cut, past, answer>>

\* The query of the code page may fail: its messages are told to no one.
LoginQueryIgnored ==
    /\ phase = "login" /\ ~raised
    /\ cut' = cut \cup queue /\ queue' = {}
    /\ UNCHANGED <<calls, phase, arrived, heard, caught, forgiven, past, answer, raised>>

\* init() throws, in place of what was caught, or returns with an exception, and
\* what was caught is thrown beside it.
LoginFails ==
    /\ phase = "login"
    /\ \/ DoException
       \/ Tell(caught) /\ raised' = TRUE /\ UNCHANGED queue
    /\ phase' = "dead" /\ caught' = {}
    /\ UNCHANGED <<calls, arrived, forgiven, cut, past, answer>>

-----------------------------------------------------------------------------
Next == \/ \E kind \in CallKinds : Call(kind)
        \/ \E kind \in MessageKinds : Arrive(kind)
        \/ ReadToEnd \/ RaiseUnread \/ ThrowPast \/ CallFails
        \/ EndSucceeds \/ EndRefused \/ Purge
        \/ LinkLost \/ SendFails \/ ReconnectThrows \/ LoginEnds
        \/ LoginQueryIgnored \/ LoginFails

Spec == Init /\ [][Next]_vars

-----------------------------------------------------------------------------
(* The properties.                                                         *)

TypeOK ==
    /\ calls \in Seq(CallKinds) /\ n <= MaxCalls
    /\ phase \in {"idle", "running", "purge", "login", "dead"}
    /\ (phase # "idle" => n > 0)
    /\ arrived \subseteq Messages /\ Cardinality(arrived) <= MaxMessages
    /\ {queue, caught, forgiven, cut} \subseteq SUBSET arrived
    /\ caught # {} => phase = "login"
    /\ heard \subseteq [message : arrived, by : 1..n]
    /\ past \subseteq 1..n
    /\ answer \in {"none", "done", "refused"} /\ raised \in BOOLEAN

Told == {h.message : h \in heard}
Returned(kinds) == phase = "idle" /\ n > 0 /\ Kind \in kinds

\* When a direct call, a commit or a rollback is over, every severe message that
\* came in until then, in this call or an earlier one, is in some exception, went
\* with a link that was lost or with the login after it, or was cleared beside a
\* 3902: none is left unread, unless the call was left by one of the exceptions of
\* ThrowPast, which nothing in select() and the others catches before the purge.
SevereHeard ==
    Returned({"direct", "end"}) /\ n \notin past =>
        {m \in arrived : m.kind \in {"client", "server"}} \subseteq Told \cup forgiven \cup cut

\* No message is told of by two calls, and none that was told of is still kept:
\* whatever reads the messages clears them, also when it throws.
HeardOnce ==
    /\ \A g, h \in heard : g.message = h.message => g.by = h.by
    /\ queue \cap Told = {}

\* A call fails with the messages of another one only if that is a call of a
\* statement, a query of the server's version, or a direct call left by one of the
\* exceptions of ThrowPast: however else a direct call, a commit or a rollback ends,
\* nothing of it is carried over.
OthersWereLeft ==
    \A h \in heard : h.by # h.message.call => LeftBy(h.message.call)

\* A commit or rollback that raises nothing was carried out, or there was no
\* transaction and the server had nothing else to say; an error of the server
\* is never forgiven along with the 3902.
EndHonest ==
    /\ Returned({"end"}) /\ ~raised =>
          answer = "done" \/ (answer = "refused" /\ \E m \in forgiven : m.call = n)
    /\ \A m \in forgiven : IsServer(m) => m.kind = "noTransaction"

\* The reverse: a commit or rollback without a transaction, with a 3902 and no
\* other message, raises nothing, however many direct calls came before and
\* whatever they were told: only what an earlier call left behind can be in the way.
NoTransactionForgiven ==
    (/\ Returned({"end"}) /\ answer = "refused"
     /\ \A k \in 1..n : ~LeftBy(k)
     /\ {m.kind : m \in {x \in arrived : x.call = n}} = {"noTransaction"}
     /\ Cardinality({x \in arrived : x.call = n}) = 1) => ~raised
=============================================================================
