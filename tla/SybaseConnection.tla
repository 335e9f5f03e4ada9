-------------------------- MODULE SybaseConnection --------------------------
(***************************************************************************)
(* One Datasource of the driver: its connection object, the prepared       *)
(* statements (ModuleWrap + Statement + command) of the SQLStatement       *)
(* objects that use it, and the automatic reconnection that runs inside a  *)
(* call when the server session is found dead.                             *)
(*                                                                         *)
(* Qore serialises the calls on a Datasource, so there is one thread of    *)
(* control, pc; what interleaves with it is the network and the server     *)
(* (SessionLost, ServerBack), between any two ct-lib calls.  Every ct-lib  *)
(* call that can fail is a step of its own and its outcome is chosen from  *)
(* the outcomes possible in the state of the session.                      *)
(***************************************************************************)
EXTENDS Naturals, Sequences

CONSTANTS Stmts,     \* the SQLStatement objects
          NoStmt,    \* the null pointer in connection::stmt
          MaxDrops,  \* bound on the number of times the session is lost
          Debug      \* TRUE when assert() is compiled in (--enable-debug)

ASSUME ConstantsAssumption ==
    /\ NoStmt \notin Stmts
    /\ MaxDrops \in Nat
    /\ Debug \in BOOLEAN

VARIABLES
    net,     \* a new session can be opened with the server
    drops,   \* number of SessionLost steps so far
    conn,    \* m_connection and connected, and what became of the session
    stmt,    \* connection::stmt, the registered statement
    wrap,    \* private data of each SQLStatement: its ModuleWrap and Statement
    cmd,     \* the command held by a unique_ptr of the running call
    stack,   \* the activations of connection::init(), innermost first
    ds,      \* what the Datasource knows: open, in transaction, aborted
    xsink,   \* an exception is pending in the ExceptionSink of the call
    pc,      \* where the call is
    op, who, \* the running (at "idle": the last) call and its statement
    rv,      \* how the last call ended
    sent,    \* history: commands of the running call the library accepted
    txLost   \* history: the running call found a transaction lost

vars == <<net, drops, conn, stmt, wrap, cmd, stack, ds, xsink, pc, op, who,
          rv, sent, txLost>>
env  == <<net, drops>>
call == <<op, who, rv, sent, txLost>>

-----------------------------------------------------------------------------
(* Data.                                                                   *)

\* "null": m_connection == 0; "closed": allocated, connected == false;
\* "alive", "dead": connected == true, as the server session is.
ConnStates == {"null", "closed", "alive", "dead"}

\* A command object.  h is its CS_COMMAND: "cur" on the present m_connection,
\* "old" on one that ct_con_drop() has released, "null" when m_cmd == 0, and
\* "none" when there is no command object.  pend: the server still has
\* results of this command to send.  RES_RETRY, which a throw in the loop of
\* read_next_result() leaves behind, is read and canceled like RES_NONE and
\* counts as "NONE".
ResTypes == {"NONE", "ROW", "DONE", "END", "ERROR", "CANCELED"}
Commands == [h : {"none", "null", "cur", "old"}, last : ResTypes, pend : BOOLEAN]
NoCmd    == [h |-> "none", last |-> "NONE", pend |-> FALSE]

\* Mutated form of NewCmd: the constructor leaves lastRes uninitialised.
NewCmdUninitialised == [h |-> "cur", last |-> "RETRY", pend |-> FALSE]

\* The constructor of class command.
NewCmd == [h |-> "cur", last |-> "NONE", pend |-> FALSE]

\* exists: the SQLStatement has private data; valid, ctx: Statement::valid and
\* ::context; execed: Qore only calls next() after a successful exec();
\* orphan: history, a reconnection inside its own exec() has invalidated it.
Wraps   == [exists : BOOLEAN, valid : BOOLEAN, ctx : Commands, execed : BOOLEAN,
            orphan : BOOLEAN]
NoWrap  == [exists |-> FALSE, valid |-> FALSE, ctx |-> NoCmd, execed |-> FALSE,
            orphan |-> FALSE]
NewWrap == [exists |-> TRUE, valid |-> TRUE, ctx |-> NoCmd, execed |-> FALSE,
            orphan |-> FALSE]

\* An activation of init(): who called it, and which of its queries runs.
Frames == [by : {"open", "send", "read"},
           q : {"none", "version", "collation", "codepage", "caught"}]

Closed == [open |-> FALSE, inTx |-> FALSE, aborted |-> FALSE]

Halted == {"escaped", "terminated", "assert", "dangling"}
PCs == {"idle", "setup", "send", "caught", "read", "canceling", "fetch",
        "direct", "lost_send", "lost_read", "connect", "options", "initret",
        "throw", "leave"} \cup Halted

Ops == {"open", "close", "prepare", "finish", "select", "exec", "next",
        "commit", "rollback"}

-----------------------------------------------------------------------------
(* What ct-lib may answer, given the state of the session.                 *)

SendOutcomes    == IF conn \in {"alive", "dead"} THEN BOOLEAN ELSE {FALSE}
CancelOutcomes  == IF conn = "alive" THEN {TRUE} ELSE BOOLEAN
PingOutcomes    == CASE conn = "alive" -> {TRUE}
                     [] conn = "dead"  -> BOOLEAN
                     [] OTHER          -> {FALSE}

-----------------------------------------------------------------------------
(* Statements and their commands.                                          *)

\* The command readNextResult() works on: the statement's context in exec()
\* and next(), the local one in execReadOutput().
UsesContext == stack = <<>> /\ op \in {"exec", "next"}
Active == IF UsesContext THEN wrap[who].ctx ELSE cmd
SetActive(c) ==
    IF UsesContext
    THEN wrap' = [wrap EXCEPT ![who].ctx = c] /\ UNCHANGED cmd
    ELSE cmd' = c /\ UNCHANGED wrap

\* command::cancelDisconnect(), once its assertion has passed.
Dropped(c) == [c EXCEPT !.h = "null", !.pend = FALSE]

\* Mutated form of Canceled: the flag is set and ct_cancel() forgotten.
CanceledFlagOnly(c) == IF c.last = "END" THEN c ELSE [c EXCEPT !.last = "CANCELED"]

\* command::cancel()
Canceled(c) ==
    IF c.last = "END" THEN c ELSE [c EXCEPT !.last = "CANCELED", !.pend = FALSE]

\* Mutated forms of InvalidatedIn: valid is not cleared; nothing is done.
InvalidatedKeepsFlag(w) ==
    [s \in Stmts |-> IF s = stmt THEN [w[s] EXCEPT !.ctx = Dropped(@)] ELSE w[s]]
InvalidatedNothing(w) == w

\* Statement::invalidate() on the registered statement: it throws when the
\* statement has no command, it trips the assertion of cancelDisconnect()
\* when the command has no CS_COMMAND, and otherwise gives InvalidatedIn(w).
ThrowsIn(w)  == stmt # NoStmt /\ w[stmt].ctx.h = "none"
AssertsIn(w) == stmt # NoStmt /\ w[stmt].ctx.h = "null"
InOwnExec == pc # "idle" /\ op = "exec"
InvalidatedIn(w) ==
    [s \in Stmts |-> IF s = stmt
                     THEN [w[s] EXCEPT !.valid = FALSE, !.ctx = Dropped(@),
                                       !.orphan = InOwnExec]
                     ELSE w[s]]

\* ct_con_drop(): the commands of the connection go with it.
Detached(w) ==
    [s \in Stmts |-> IF w[s].ctx.h = "cur" THEN [w[s] EXCEPT !.ctx.h = "old"]
                     ELSE w[s]]

\* command::clear() cancels a command that is neither finished nor canceled.
NeedsCancel(c) ==
    c.h = "cur" /\ c.last \notin {"END", "CANCELED"} /\ ~ds.aborted

-----------------------------------------------------------------------------
(* The environment: the network and the server.                            *)

SessionLost ==
    /\ drops < MaxDrops /\ pc \notin Halted
    /\ conn = "alive" \/ net
    /\ conn' = IF conn = "alive" THEN "dead" ELSE conn
    /\ net' \in BOOLEAN
    /\ drops' = drops + 1
    /\ UNCHANGED <<stmt, wrap, cmd, stack, ds, xsink, pc, call>>

ServerBack ==
    /\ ~net /\ pc \notin Halted
    /\ net' = TRUE
    /\ UNCHANGED <<drops, conn, stmt, wrap, cmd, stack, ds, xsink, pc, call>>

-----------------------------------------------------------------------------
(* The calls Qore makes: each starts one and leaves the rest to the steps  *)
(* below.                                                                  *)

Begin(o, s) ==
    /\ pc = "idle"
    /\ op' = o /\ who' = s /\ rv' = "none"
    /\ xsink' = FALSE /\ sent' = 0 /\ txLost' = FALSE

\* After connectionAborted() Qore only closes statements and the Datasource.
InService == ds.open /\ ~ds.aborted

\* sybase_open(): a new connection object, then init().
Open ==
    /\ ~ds.open
    /\ Begin("open", NoStmt)
    /\ stack' = <<[by |-> "open", q |-> "none"]>>
    /\ pc' = "connect"
    /\ UNCHANGED <<env, conn, stmt, wrap, cmd, ds>>

\* sybase_close(): ~connection() is noexcept, so an exception of
\* invalidateStatement() ends the process, whatever sybase_close() catches.
CloseDatasource ==
    /\ ds.open
    /\ Begin("close", NoStmt)
    /\ IF ThrowsIn(wrap)
       THEN pc' = "terminated" /\ UNCHANGED <<conn, stmt, wrap, ds>>
       ELSE /\ wrap' = Detached(InvalidatedIn(wrap))
            /\ stmt' = NoStmt /\ conn' = "null" /\ ds' = Closed
            /\ UNCHANGED pc
    /\ UNCHANGED <<env, cmd, stack>>

\* prepare(), prepare_raw() and bind() of a new SQLStatement: module_wrap()
\* sets the private data, then registerStatement() invalidates the statement
\* registered before.  Nothing catches what that throws.
Prepare(s) ==
    /\ InService /\ ~wrap[s].exists
    /\ Begin("prepare", s)
    /\ IF ThrowsIn(wrap)
       THEN /\ wrap' = [wrap EXCEPT ![s] = NewWrap]
            /\ pc' = "escaped" /\ UNCHANGED stmt
       ELSE /\ wrap' = [InvalidatedIn(wrap) EXCEPT ![s] = NewWrap]
            /\ stmt' = s /\ UNCHANGED pc
    /\ UNCHANGED <<env, conn, cmd, stack, ds>>

\* close() of an SQLStatement: a valid one is deregistered, whichever
\* statement is registered (only a debug build compares them); deleting the
\* command may cancel it, and a failure of that throws out of ~command().
CloseStatement(s) ==
    /\ wrap[s].exists
    /\ Begin("finish", s)
    /\ \/ /\ wrap[s].ctx.h # "old"
          /\ NeedsCancel(wrap[s].ctx) => TRUE \in CancelOutcomes
          /\ wrap' = [wrap EXCEPT ![s] = NoWrap]
          /\ stmt' = IF wrap[s].valid THEN NoStmt ELSE stmt
          /\ pc' = IF Debug /\ wrap[s].valid /\ stmt # s THEN "assert" ELSE pc
       \/ /\ NeedsCancel(wrap[s].ctx) /\ FALSE \in CancelOutcomes
          /\ pc' = "terminated" /\ UNCHANGED <<stmt, wrap>>
       \/ /\ wrap[s].ctx.h = "old"
          /\ pc' = "dangling" /\ UNCHANGED <<stmt, wrap>>
    /\ UNCHANGED <<env, conn, cmd, stack, ds>>

\* select(), exec(), execRaw(), exec_rows(), exec_row(): execReadOutput()
\* invalidates the registered statement before anything else.
Select ==
    /\ InService
    /\ Begin("select", NoStmt)
    /\ IF ThrowsIn(wrap)
       THEN pc' = "throw" /\ UNCHANGED <<stmt, wrap>>
       ELSE /\ wrap' = InvalidatedIn(wrap) /\ stmt' = NoStmt
            /\ pc' = "setup"
    /\ UNCHANGED <<env, conn, cmd, stack, ds>>

\* Statement::exec(): checkValid(), cancel the previous command, set up.
Exec(s) ==
    /\ InService /\ wrap[s].exists
    /\ pc = "idle"
    /\ op' = "exec" /\ who' = s /\ rv' = "none" /\ sent' = 0 /\ txLost' = FALSE
    /\ xsink' = ~wrap[s].valid
    /\ IF wrap[s].valid
       THEN /\ wrap' = [wrap EXCEPT ![s].ctx = IF @.h = "none" THEN @
                                               ELSE Canceled(@),
                                    ![s].execed = FALSE]
            /\ pc' = "setup"
       ELSE pc' = "leave" /\ UNCHANGED wrap
    /\ UNCHANGED <<env, conn, stmt, cmd, stack, ds>>

\* Statement::next(): checkValid(), then readNextResult() on the context.
Next_(s) ==
    /\ InService /\ wrap[s].execed
    /\ pc = "idle"
    /\ op' = "next" /\ who' = s /\ rv' = "none" /\ sent' = 0 /\ txLost' = FALSE
    /\ xsink' = ~wrap[s].valid
    /\ pc' = IF wrap[s].valid THEN "read" ELSE "leave"
    /\ UNCHANGED <<env, conn, stmt, wrap, cmd, stack, ds>>

\* commit(), rollback(): ct_cancel() of everything pending on the connection,
\* its result ignored, then direct_execute().
EndTransaction(o) ==
    /\ InService
    /\ Begin(o, NoStmt)
    /\ wrap' = [s \in Stmts |-> IF wrap[s].ctx.h = "cur" /\ TRUE \in CancelOutcomes
                                THEN [wrap[s] EXCEPT !.ctx.pend = FALSE]
                                ELSE wrap[s]]
    /\ pc' = "direct"
    /\ UNCHANGED <<env, conn, stmt, cmd, stack, ds>>

-----------------------------------------------------------------------------
(* setupCommand(): build a command and send it, reconnecting as needed.    *)

\* sybase_query::init() refuses the text, command::bind_query() throws, or
\* the command is ready to send.  In exec() a null command is stored.
SetupCommand ==
    /\ pc = "setup"
    /\ \/ /\ stack = <<>>
          /\ xsink' = TRUE /\ pc' = "leave"
          /\ wrap' = IF op = "exec" THEN [wrap EXCEPT ![who].ctx = NoCmd] ELSE wrap
          /\ cmd' = NoCmd
       \/ /\ cmd' = NewCmd
          /\ pc' \in {"send", "throw"}
          /\ UNCHANGED <<xsink, wrap>>
    /\ UNCHANGED <<env, conn, stmt, stack, ds, call>>

\* command::send().  Once sent, exec() moves the command into the statement's
\* context, which destroys the previous one: finished, canceled or dropped.
Send ==
    /\ pc = "send"
    /\ \E ok \in SendOutcomes :
         IF ok
         THEN /\ pc' = "read"
              /\ sent' = IF stack = <<>> THEN sent + 1 ELSE sent
              /\ LET c == [cmd EXCEPT !.pend = TRUE] IN
                 IF stack = <<>> /\ op = "exec"
                 THEN wrap' = [wrap EXCEPT ![who].ctx = c] /\ cmd' = NoCmd
                 ELSE cmd' = c /\ UNCHANGED wrap
         ELSE pc' = "caught" /\ UNCHANGED <<wrap, cmd, sent>>
    /\ UNCHANGED <<env, conn, stmt, stack, ds, xsink, op, who, rv, txLost>>

\* The handler in setupCommand(): rethrow when ping() says the link is up.
SendFailed ==
    /\ pc = "caught"
    /\ \E up \in PingOutcomes : pc' = IF up THEN "throw" ELSE "lost_send"
    /\ UNCHANGED <<env, conn, stmt, wrap, cmd, stack, ds, xsink, call>>

-----------------------------------------------------------------------------
(* readNextResult() and what consumes it.                                  *)

\* What read_next_result() can return to a statement: it loops on RES_RETRY.
ResultTypes == {"ROW", "DONE", "END"}

\* ct_results() delivers a result.  readOutput() consumes every result, so a
\* local command is seen again at its end; purge_messages() or a second row
\* in exec_row() may still raise an exception.
ReadResult ==
    /\ pc = "read" /\ ~xsink /\ Active.last \in {"NONE", "DONE"}
    /\ IF UsesContext
       THEN /\ \E r \in ResultTypes :
                 /\ SetActive([Active EXCEPT !.last = r, !.pend = r # "END"])
                 /\ pc' = IF op = "next" /\ r = "ROW" THEN "fetch" ELSE "leave"
            /\ UNCHANGED xsink
       ELSE /\ SetActive([Active EXCEPT !.last = "END", !.pend = FALSE])
            /\ pc' = "leave"
            /\ xsink' \in BOOLEAN
    /\ UNCHANGED <<env, conn, stmt, stack, ds, call>>

\* ct_results() returns CS_FAIL, or another code, or CS_CMD_FAIL; for a local
\* command this includes a ct_fetch() or ct_res_info() that fails.
ReadFails ==
    /\ pc = "read" /\ ~xsink /\ Active.last \in {"NONE", "DONE"}
    /\ \E last \in {Active.last, "NONE"} : SetActive([Active EXCEPT !.last = last])
    /\ pc' \in {"canceling", "throw"}
    /\ UNCHANGED <<env, conn, stmt, stack, ds, xsink, call>>

\* No ct_results() at all: an exception is pending, or lastRes is kept.
ReadSkipped ==
    /\ pc = "read"
    /\ xsink \/ Active.last \notin {"NONE", "DONE"}
    /\ pc' = IF ~xsink /\ op = "next" /\ Active.last = "ROW" THEN "fetch" ELSE "leave"
    /\ UNCHANGED <<env, conn, stmt, wrap, cmd, stack, ds, xsink, call>>

\* CS_FAIL: cancelIntern(); when that fails the connection must be closed.
CancelAfterFail ==
    /\ pc = "canceling"
    /\ xsink' = TRUE
    /\ \E ok \in CancelOutcomes :
         /\ SetActive([Active EXCEPT !.last = "ERROR", !.pend = @ /\ ~ok])
         /\ pc' = IF ok THEN "leave" ELSE "lost_read"
    /\ UNCHANGED <<env, conn, stmt, stack, ds, call>>

\* command::fetch_row() in next(): a row, CS_END_DATA, or an exception.
Fetch ==
    /\ pc = "fetch"
    /\ \/ pc' = "leave" /\ UNCHANGED wrap
       \/ pc' = "leave" /\ wrap' = [wrap EXCEPT ![who].ctx.last = "NONE"]
       \/ pc' = "throw" /\ UNCHANGED wrap
    /\ UNCHANGED <<env, conn, stmt, cmd, stack, ds, xsink, call>>

\* direct_execute(): any failure throws; its command is dropped on the way.
DirectExecute ==
    /\ pc = "direct"
    /\ \/ conn \in {"alive", "dead"} /\ pc' = "leave" /\ sent' = sent + 1
       \/ pc' = "throw" /\ UNCHANGED sent
    /\ UNCHANGED <<env, conn, stmt, wrap, cmd, stack, ds, xsink, op, who, rv, txLost>>

-----------------------------------------------------------------------------
(* closeAndReconnect() and init().                                         *)

\* The exception closeAndReconnect() raises for a transaction that is lost.
WithTransactionError(raised) == raised \/ ds.inTx

\* closeAndReconnect() up to its call of init(): drop the command, invalidate
\* the registered statement, close and release the connection.
CloseForReconnect(by) ==
    /\ pc = IF by = "send" THEN "lost_send" ELSE "lost_read"
    /\ LET inContext == UsesContext /\ by = "read"
           w == IF inContext THEN [wrap EXCEPT ![who].ctx = Dropped(@)] ELSE wrap
       IN
       /\ cmd' = IF inContext THEN cmd ELSE Dropped(cmd)
       /\ \/ /\ ThrowsIn(w)
             /\ wrap' = w /\ pc' = "throw"
             /\ UNCHANGED <<conn, stmt, stack, xsink, txLost>>
          \/ /\ AssertsIn(w) /\ Debug
             /\ wrap' = w /\ pc' = "assert"
             /\ UNCHANGED <<conn, stmt, stack, xsink, txLost>>
          \/ /\ ~ThrowsIn(w) /\ ~(AssertsIn(w) /\ Debug)
             /\ wrap' = Detached(InvalidatedIn(w))
             /\ stmt' = NoStmt /\ conn' = "null"
             /\ xsink' = WithTransactionError(xsink)
             /\ txLost' = (txLost \/ ds.inTx)
             /\ stack' = <<[by |-> by, q |-> "none"]>> \o stack
             /\ pc' = "connect"
    /\ UNCHANGED <<env, ds, op, who, rv, sent>>

\* init() up to ct_connect(): an allocation or a property that fails returns
\* -1 with an exception; ct_connect() that fails throws.
Connect ==
    /\ pc = "connect"
    /\ \/ /\ conn' \in {"null", "closed"} /\ xsink' = TRUE /\ pc' = "initret"
       \/ /\ conn' = "closed" /\ pc' = "throw" /\ UNCHANGED xsink
       \/ /\ net
          /\ conn' = "alive" /\ pc' = "options" /\ UNCHANGED xsink
    /\ UNCHANGED <<env, stmt, wrap, cmd, stack, ds, call>>

\* The purge_messages() at the end of init() may raise an exception.
PurgeInInit(raised) == xsink' \in {raised, TRUE}

\* ct_options() and friends: a failure throws.  A library that converts
\* character sets itself makes the queries below unnecessary.
Options ==
    /\ pc = "options"
    /\ \/ pc' = "throw" /\ UNCHANGED <<stack, xsink>>
       \/ pc' = "initret" /\ PurgeInInit(xsink) /\ UNCHANGED stack
       \/ pc' = "setup" /\ UNCHANGED xsink
          /\ stack' = [stack EXCEPT ![1].q = "version"]
    /\ UNCHANGED <<env, conn, stmt, wrap, cmd, ds, call>>

\* A query of init() is over.  The collation is asked for when the server is
\* not Sybase, its code page when the collation is not UTF-8; whatever goes
\* wrong with the code page is forgotten.
NextQuery(q) == IF q = "version" THEN {"collation"}
                ELSE IF q = "collation" THEN {"codepage"} ELSE {}

\* Mutated form of ErrorStays: the errors of every query are cleared.
ErrorStaysNever(q) == FALSE

\* Only the code page query has its exceptions cleared.
ErrorStays(q) == q # "codepage"

QueryDone ==
    /\ pc = "leave" /\ cmd = NoCmd /\ stack # <<>>
    /\ LET q == stack[1].q IN
       \/ /\ pc' = "initret" /\ PurgeInInit(xsink /\ ErrorStays(q))
          /\ UNCHANGED stack
       \/ /\ pc' = "setup" /\ ~xsink
          /\ \E next \in NextQuery(q) : stack' = [stack EXCEPT ![1].q = next]
          /\ UNCHANGED xsink
    /\ UNCHANGED <<env, conn, stmt, wrap, cmd, ds, call>>

\* Mutated forms of Resume: a failed read is tried again; a failed send is
\* tried again whatever closeAndReconnect() returned.
ResumeRetriesReads(f, failed) ==
    IF f.by = "send" THEN (IF failed \/ ds.inTx THEN "throw" ELSE "setup")
    ELSE IF f.by = "read" THEN "setup" ELSE "leave"
ResumeIgnoresFailure(f, failed) == IF f.by = "send" THEN "setup" ELSE "leave"

\* Where the caller of init() goes on: sybase_open() returns; after a failed
\* send setupCommand() tries again when closeAndReconnect() returned 0 and
\* rethrows otherwise; after a failed read the reader gets RES_ERROR.
Resume(f, failed) ==
    IF f.by = "send" THEN (IF failed \/ ds.inTx THEN "throw" ELSE "setup")
    ELSE "leave"

\* init() returns; closeAndReconnect() reports a failure to the Datasource.
InitReturn ==
    /\ pc = "initret"
    /\ stack' = Tail(stack)
    /\ pc' = Resume(stack[1], xsink)
    /\ ds' = [ds EXCEPT !.aborted = @ \/ (stack[1].by # "open" /\ xsink)]
    /\ UNCHANGED <<env, conn, stmt, wrap, cmd, xsink, call>>

-----------------------------------------------------------------------------
(* The end of a call.                                                      *)

\* ~command() of the local command, on return and while unwinding: when the
\* cancel fails it throws, out of a noexcept destructor.
DestroyCommand ==
    /\ pc \in {"throw", "leave"} /\ cmd # NoCmd
    /\ \/ /\ NeedsCancel(cmd) => TRUE \in CancelOutcomes
          /\ cmd' = NoCmd /\ UNCHANGED pc
       \/ /\ NeedsCancel(cmd) /\ FALSE \in CancelOutcomes
          /\ pc' = "terminated" /\ UNCHANGED cmd
    /\ UNCHANGED <<env, conn, stmt, wrap, stack, ds, xsink, call>>

\* An ss::Error in flight leaves one activation of init() after another, is
\* ignored where the code page is read, and else becomes an exception in the
\* handler of the DBI callback.
Unwind ==
    /\ pc = "throw" /\ cmd = NoCmd
    /\ \/ /\ stack = <<>>
          /\ xsink' = TRUE /\ pc' = "leave" /\ UNCHANGED stack
       \/ /\ stack # <<>> /\ stack[1].q = "codepage"
          /\ stack' = [stack EXCEPT ![1].q = "caught"]
          /\ pc' = "leave" /\ UNCHANGED xsink
       \/ /\ stack # <<>> /\ stack[1].q # "codepage"
          /\ stack' = Tail(stack) /\ UNCHANGED <<pc, xsink>>
    /\ UNCHANGED <<env, conn, stmt, wrap, cmd, ds, call>>

\* The callback returns.  sybase_open() deletes a connection that failed;
\* Qore notes a transaction begun, or ended whatever the outcome.
Return ==
    /\ pc = "leave" /\ cmd = NoCmd /\ stack = <<>>
    /\ pc' = "idle"
    /\ rv' = IF xsink THEN "err" ELSE "ok"
    /\ conn' = IF op = "open" /\ xsink THEN "null" ELSE conn
    /\ wrap' = IF op = "exec" /\ ~xsink THEN [wrap EXCEPT ![who].execed = TRUE] ELSE wrap
    /\ \E begun \in BOOLEAN :
         ds' = CASE op = "open" -> [Closed EXCEPT !.open = ~xsink]
                 [] op \in {"select", "exec"} ->
                        [ds EXCEPT !.inTx = @ \/ (begun /\ ~xsink)]
                 [] op \in {"commit", "rollback"} -> [ds EXCEPT !.inTx = FALSE]
                 [] OTHER -> ds
    /\ UNCHANGED <<env, stmt, cmd, stack, xsink, op, who, sent, txLost>>

\* The process has ended.
Stopped == pc \in Halted /\ UNCHANGED vars

-----------------------------------------------------------------------------
Init ==
    /\ net \in BOOLEAN /\ drops = 0 /\ conn = "null"
    /\ stmt = NoStmt /\ wrap = [s \in Stmts |-> NoWrap]
    /\ cmd = NoCmd /\ stack = <<>> /\ ds = Closed
    /\ xsink = FALSE /\ pc = "idle" /\ op = "close" /\ who = NoStmt
    /\ rv = "none" /\ sent = 0 /\ txLost = FALSE

Client ==
    \/ Open \/ CloseDatasource \/ Select
    \/ \E o \in {"commit", "rollback"} : EndTransaction(o)
    \/ \E s \in Stmts : Prepare(s) \/ CloseStatement(s) \/ Exec(s) \/ Next_(s)

Driver ==
    \/ SetupCommand \/ Send \/ SendFailed
    \/ ReadResult \/ ReadFails \/ ReadSkipped \/ CancelAfterFail \/ Fetch
    \/ DirectExecute
    \/ \E by \in {"send", "read"} : CloseForReconnect(by)
    \/ Connect \/ Options \/ QueryDone \/ InitReturn
    \/ DestroyCommand \/ Unwind \/ Return

Next == SessionLost \/ ServerBack \/ Client \/ Driver \/ Stopped

Spec == Init /\ [][Next]_vars

\* A call that has started runs on: ct-lib calls return, nobody kills the
\* process.  Nothing is assumed of the server or of the client.
FairSpec == Spec /\ WF_vars(Driver)

-----------------------------------------------------------------------------
(* Properties.                                                             *)

\* Every variable has its type: lastRes of every command, for one, always
\* holds a value that some step of the driver has put there.
TypeOK ==
    /\ net \in BOOLEAN /\ drops \in 0..MaxDrops /\ conn \in ConnStates
    /\ stmt \in Stmts \cup {NoStmt}
    /\ wrap \in [Stmts -> Wraps]
    /\ cmd \in Commands
    /\ stack \in Seq(Frames)
    /\ ds \in [open : BOOLEAN, inTx : BOOLEAN, aborted : BOOLEAN]
    /\ xsink \in BOOLEAN /\ pc \in PCs /\ op \in Ops
    /\ who \in Stmts \cup {NoStmt}
    /\ rv \in {"none", "ok", "err"} /\ sent \in Nat /\ txLost \in BOOLEAN

\* A statement is valid exactly while it is the registered one.  close()
\* relies on it: it clears connection::stmt for any valid statement, and a
\* release build does not compare the two.
RegisteredIffValid ==
    pc \notin Halted => \A s \in Stmts : wrap[s].valid <=> s = stmt

\* A valid statement never holds a command of a connection that has been
\* released, nor one whose CS_COMMAND is gone: closeAndReconnect() and
\* ~connection() reach every valid statement before ct_con_drop().
ValidHandleIsCurrent ==
    pc \notin Halted =>
        \A s \in Stmts : wrap[s].valid =>
            /\ wrap[s].ctx.h \in {"none", "cur"}
            /\ wrap[s].ctx.h = "cur" => conn # "null"

\* TDS allows one active query: when the driver is about to send a command on
\* a live session, no statement, valid or not, has results pending there.  The
\* one exception is a statement that a reconnection inside its own exec() has
\* invalidated: the command is sent again and its results are pending on the
\* new session, but nothing cancels an invalid statement (OneActiveQuery).
NoPendingAtSend ==
    pc \in {"send", "direct"} /\ conn = "alive" =>
        \A s \in Stmts : wrap[s].ctx.h = "cur" /\ wrap[s].ctx.pend => wrap[s].orphan

\* A call that replaced the session while a transaction was open fails: the
\* work of the transaction is gone and the caller is told.
LostTransactionIsReported == pc = "idle" /\ txLost => rv # "ok"

\* Reconnecting resends a command only if the library refused it before, so
\* no SQL text is executed twice by one call.
AtMostOneSend == sent <= 1

\* Every call returns to Qore (or the process ends), although setupCommand()
\* loops and init() reconnects recursively.
EveryCallReturns == pc # "idle" ~> pc \in {"idle"} \cup Halted

-----------------------------------------------------------------------------
(* The inductive invariant behind TypeOK, RegisteredIffValid and           *)
(* ValidHandleIsCurrent.                                                   *)

\* init() runs inside a call; between calls no activation of it is left.
StackMatchesPc ==
    /\ pc \in {"connect", "options", "initret"} => stack # <<>>
    /\ pc = "idle" => stack = <<>>

\* sybase_open() runs on a closed Datasource, and is inside init() until it
\* returns.
OpenOnClosed == op = "open" /\ pc \notin {"idle"} \cup Halted => ~ds.open

\* No statement is registered on a closed Datasource, nor while init() runs:
\* sybase_open() starts with none, closeAndReconnect() has invalidated it.
NoStmtInInit ==
    pc \notin Halted /\ (~ds.open \/ stack # <<>>) => stmt = NoStmt

\* The command that is about to be sent has a CS_COMMAND on m_connection.
SendsCurrent == pc = "send" => cmd.h = "cur"

\* exec() and next() are calls on a statement.
CallHasStatement == op \in {"exec", "next"} => who \in Stmts

IInv ==
    /\ TypeOK
    /\ CallHasStatement
    /\ RegisteredIffValid
    /\ ValidHandleIsCurrent
    /\ StackMatchesPc
    /\ OpenOnClosed
    /\ NoStmtInInit
    /\ SendsCurrent

-----------------------------------------------------------------------------
(* What the documentation says and the code does not do.                   *)

\* docs: a statement that is prepared while another one is active cancels
\* that one.  (No exception leaves a DBI callback.)
PrepareReplacesActive == pc # "escaped"

\* docs: TDS "only supports a single active query", and an active statement is
\* canceled before another command or statement is executed.
OneActiveQuery ==
    pc \in {"send", "direct"} /\ conn = "alive" =>
        \A s \in Stmts : ~(wrap[s].ctx.h = "cur" /\ wrap[s].ctx.pend)

\* connection.cpp: "make sure and mark Datasource as closed" when the session
\* could not be replaced.  (A call that lost a transaction leaves the
\* Datasource aborted, so that the next call does not go on with it.)
LostTransactionAborts == pc = "idle" /\ txLost => ds.aborted
=============================================================================
