----------------------- MODULE SybaseConnectionProofs -----------------------
(***************************************************************************)
(* Type correctness of SybaseConnection, the two facts the handling of the *)
(* registered statement rests on, and what a call promises its caller, for *)
(* any set of statements, any number of lost sessions and both kinds of    *)
(* build.  IInv is inductive.                                              *)
(***************************************************************************)
EXTENDS SybaseConnection, SequenceTheorems, TLAPS

-----------------------------------------------------------------------------
(* Types of what the actions build.                                        *)

\* A command keeps its type through the operations of class command.
LEMMA CommandTypes ==
    ASSUME NEW c \in Commands
    PROVE  /\ Dropped(c) \in Commands
           /\ Canceled(c) \in Commands
           /\ [c EXCEPT !.pend = TRUE] \in Commands
           /\ NoCmd \in Commands /\ NewCmd \in Commands
BY DEF Commands, ResTypes, Dropped, Canceled, NoCmd, NewCmd

\* Replacing the context of a statement keeps the type of wrap.
LEMMA ContextType ==
    ASSUME NEW w \in [Stmts -> Wraps], NEW s, NEW c \in Commands
    PROVE  [w EXCEPT ![s].ctx = c] \in [Stmts -> Wraps]
BY DEF Wraps

\* So does noting the end of the rows, or a successful exec(), which leave
\* valid and the CS_COMMAND alone.
LEMMA MarkedType ==
    ASSUME NEW w \in [Stmts -> Wraps], NEW s, NEW v,
           \/ v = w
           \/ v = [w EXCEPT ![s].ctx.last = "NONE"]
           \/ v = [w EXCEPT ![s].execed = TRUE]
    PROVE  /\ v \in [Stmts -> Wraps]
           /\ \A t \in Stmts : /\ v[t].valid = w[t].valid /\ v[t].ctx.h = w[t].ctx.h
                               /\ v[t].orphan = w[t].orphan
<1>1. ASSUME NEW x \in Wraps
      PROVE  /\ [x EXCEPT !.ctx.last = "NONE"] \in Wraps
             /\ [x EXCEPT !.execed = TRUE] \in Wraps
  <2>1. [x.ctx EXCEPT !.last = "NONE"] \in Commands
    BY DEF Wraps, Commands, ResTypes
  <2>2. [x EXCEPT !.ctx = [x.ctx EXCEPT !.last = "NONE"]] \in Wraps
    BY <2>1 DEF Wraps
  <2>3. [x EXCEPT !.execed = TRUE] \in Wraps
    BY DEF Wraps
  <2> QED BY <2>2, <2>3
<1>2. v \in [Stmts -> Wraps]
  <2>1. CASE v = [w EXCEPT ![s].ctx.last = "NONE"]
    <3>1. v = [t \in Stmts |-> IF t = s THEN [w[t] EXCEPT !.ctx.last = "NONE"] ELSE w[t]]
      BY <2>1
    <3> QED BY <1>1, <3>1
  <2>2. CASE v = [w EXCEPT ![s].execed = TRUE]
    <3>1. v = [t \in Stmts |-> IF t = s THEN [w[t] EXCEPT !.execed = TRUE] ELSE w[t]]
      BY <2>2
    <3> QED BY <1>1, <3>1
  <2> QED BY <2>1, <2>2
<1>3. \A t \in Stmts : /\ v[t].valid = w[t].valid /\ v[t].ctx.h = w[t].ctx.h
                       /\ v[t].orphan = w[t].orphan
  BY DEF Wraps, Commands
<1> QED BY <1>2, <1>3

\* So do Statement::invalidate() and ct_con_drop().
LEMMA InvalidatedType ==
    ASSUME NEW w \in [Stmts -> Wraps]
    PROVE  InvalidatedIn(w) \in [Stmts -> Wraps]
<1>1. SUFFICES ASSUME NEW s \in Stmts
               PROVE  (IF s = stmt
                       THEN [w[s] EXCEPT !.valid = FALSE, !.ctx = Dropped(@),
                                         !.orphan = InOwnExec]
                       ELSE w[s]) \in Wraps
  BY DEF InvalidatedIn
<1>2. w[s] \in Wraps /\ w[s].ctx \in Commands
  BY DEF Wraps
<1>3. Dropped(w[s].ctx) \in Commands
  BY <1>2, CommandTypes
<1>4. InOwnExec \in BOOLEAN
  BY DEF InOwnExec
<1> QED BY <1>2, <1>3, <1>4 DEF Wraps

\* ct_con_drop() leaves the types of the statements and Statement::valid alone.
LEMMA DetachedType ==
    ASSUME NEW w \in [Stmts -> Wraps]
    PROVE  Detached(w) \in [Stmts -> Wraps]
BY DEF Detached, Wraps, Commands

\* What module_wrap() creates and close() leaves behind has the right type.
LEMMA NewWrapType == NewWrap \in Wraps /\ NoWrap \in Wraps
BY CommandTypes DEF NewWrap, NoWrap, Wraps, Commands, NoCmd, ResTypes

\* The stack of init() activations stays a sequence of frames.
LEMMA StackTypes ==
    ASSUME NEW st \in Seq(Frames)
    PROVE  /\ \A f \in Frames : <<f>> \o st \in Seq(Frames) /\ <<f>> \o st # <<>>
           /\ st # <<>> => Tail(st) \in Seq(Frames) /\ st[1] \in Frames
           /\ \A x \in {"none", "version", "collation", "codepage", "caught"} :
                st # <<>> => /\ [st EXCEPT ![1].q = x] \in Seq(Frames)
                             /\ [st EXCEPT ![1].q = x] # <<>>
<1>1. \A f \in Frames : <<f>> \o st \in Seq(Frames) /\ <<f>> \o st # <<>>
  BY ConcatProperties
<1>2. st # <<>> => Tail(st) \in Seq(Frames) /\ st[1] \in Frames
  BY HeadTailProperties, ElementOfSeq, EmptySeq, LenProperties
<1>3. ASSUME NEW x \in {"none", "version", "collation", "codepage", "caught"},
             st # <<>>
      PROVE  /\ [st EXCEPT ![1].q = x] \in Seq(Frames)
             /\ [st EXCEPT ![1].q = x] # <<>>
  <2>1. Len(st) >= 1 /\ st[1] \in Frames /\ Len(st) \in Nat
    BY <1>2, <1>3, EmptySeq, LenProperties
  <2>2. [st[1] EXCEPT !.q = x] \in Frames
    BY <2>1 DEF Frames
  <2>3. [st EXCEPT ![1].q = x] = [st EXCEPT ![1] = [st[1] EXCEPT !.q = x]]
    OBVIOUS
  <2> QED BY <2>1, <2>2, <2>3, ExceptSeq, EmptySeq
<1> QED BY <1>1, <1>2, <1>3

-----------------------------------------------------------------------------
(* The initial states.                                                     *)

\* Nothing exists at the start.
LEMMA InitIInv == Init => IInv
<1> SUFFICES ASSUME Init PROVE IInv
  OBVIOUS
<1>1. TypeOK
  <2>1. wrap \in [Stmts -> Wraps]
    BY NewWrapType DEF Init
  <2>2. cmd \in Commands
    BY DEF Init, NoCmd, Commands, ResTypes
  <2>3. stack \in Seq(Frames)
    BY EmptySeq DEF Init
  <2>4. ds \in [open : BOOLEAN, inTx : BOOLEAN, aborted : BOOLEAN]
    BY DEF Init, Closed
  <2>5. drops \in 0..MaxDrops
    BY ConstantsAssumption DEF Init
  <2>6. /\ net \in BOOLEAN /\ conn \in ConnStates
        /\ stmt \in Stmts \cup {NoStmt} /\ who \in Stmts \cup {NoStmt}
        /\ xsink \in BOOLEAN /\ pc \in PCs /\ op \in Ops
        /\ rv \in {"none", "ok", "err"} /\ sent \in Nat /\ txLost \in BOOLEAN
    BY DEF Init, ConnStates, PCs, Ops
  <2> QED BY <2>1, <2>2, <2>3, <2>4, <2>5, <2>6 DEF TypeOK
<1>2. \A s \in Stmts : ~wrap[s].valid /\ s # stmt
  BY ConstantsAssumption DEF Init, NoWrap
<1> QED BY <1>1, <1>2
    DEF Init, IInv, RegisteredIffValid, ValidHandleIsCurrent, StackMatchesPc,
        CallHasStatement, OpenOnClosed, NoStmtInInit, SendsCurrent, Halted

-----------------------------------------------------------------------------
(* Steps that leave the registration and the connection alone only have to *)
(* respect the last four parts of IInv.                                    *)

\* A step that leaves the statements and the connection alone keeps the
\* conjuncts about them.
LEMMA Untouched ==
    ASSUME IInv, TypeOK',
           \A s \in Stmts :
             /\ wrap'[s].valid = wrap[s].valid
             /\ \/ wrap'[s].ctx.h = wrap[s].ctx.h
                \/ wrap'[s].ctx.h = "none"
                \/ wrap'[s].ctx.h = "cur" /\ conn # "null",
           stmt' = stmt, conn' = conn, ds'.open = ds.open,
           pc \notin Halted,
           CallHasStatement', StackMatchesPc', OpenOnClosed', SendsCurrent',
           stack' # <<>> => stack # <<>>
    PROVE  IInv'
<1>1. RegisteredIffValid'
  BY DEF IInv, RegisteredIffValid
<1>2. ValidHandleIsCurrent'
  BY DEF IInv, ValidHandleIsCurrent
<1>3. NoStmtInInit'
  BY DEF IInv, NoStmtInInit
<1> QED BY <1>1, <1>2, <1>3 DEF IInv

\* Of a process that has ended only the types matter.
LEMMA Ended ==
    ASSUME TypeOK', CallHasStatement', pc' \in Halted
    PROVE  IInv'
BY DEF IInv, Halted, RegisteredIffValid, ValidHandleIsCurrent, StackMatchesPc,
       OpenOnClosed, NoStmtInInit, SendsCurrent

\* When exactly the registered statement is valid, invalidating it leaves no
\* valid statement.
LEMMA NoneValid ==
    ASSUME NEW w \in [Stmts -> Wraps],
           \A s \in Stmts : w[s].valid <=> s = stmt
    PROVE  \A s \in Stmts : /\ ~InvalidatedIn(w)[s].valid
                            /\ ~Detached(InvalidatedIn(w))[s].valid
<1>1. TAKE s \in Stmts
<1>2. w[s] \in Wraps
  OBVIOUS
<1>3. ~InvalidatedIn(w)[s].valid
  BY <1>2 DEF InvalidatedIn, Wraps
<1>4. InvalidatedIn(w)[s] \in Wraps
  BY InvalidatedType
<1>5. ~Detached(InvalidatedIn(w))[s].valid
  BY <1>3, <1>4 DEF Detached, Wraps
<1> QED BY <1>3, <1>5

-----------------------------------------------------------------------------
(* The environment.                                                        *)

\* The network changes nothing the driver knows.
LEMMA EnvironmentStep ==
    ASSUME IInv, SessionLost \/ ServerBack
    PROVE  IInv'
<1>1. TypeOK'
  <2>1. CASE SessionLost
    BY <2>1, ConstantsAssumption DEF SessionLost, IInv, TypeOK, ConnStates, call
  <2>2. CASE ServerBack
    BY <2>2 DEF ServerBack, IInv, TypeOK, call
  <2> QED BY <2>1, <2>2
<1>2. conn # "null" => conn' # "null"
  BY DEF SessionLost, ServerBack
<1>3. /\ UNCHANGED <<stmt, wrap, cmd, stack, ds, xsink, pc, op, who>>
  BY DEF SessionLost, ServerBack, call
<1> QED BY <1>1, <1>2, <1>3
    DEF IInv, RegisteredIffValid, ValidHandleIsCurrent, StackMatchesPc,
        CallHasStatement, OpenOnClosed, NoStmtInInit, SendsCurrent

-----------------------------------------------------------------------------
(* The calls Qore makes.  All of them start at "idle", where no activation *)
(* of init() is left.                                                      *)

\* sybase_open() keeps the invariant: it runs on a closed Datasource.
LEMMA OpenStep == ASSUME IInv, Open PROVE IInv'
<1>1. TypeOK'
  <2>1. stack' \in Seq(Frames) /\ stack' # <<>>
    BY ConcatProperties DEF Open, Frames
  <2> QED BY <2>1 DEF Open, Begin, IInv, TypeOK, PCs, Ops, env
<1>2. stmt' = NoStmt /\ wrap' = wrap /\ conn' = conn /\ ~ds'.open
  BY DEF Open, Begin, IInv, NoStmtInInit, Halted
<1>3. pc = "idle" /\ pc' = "connect" /\ stack' # <<>> /\ stmt' = stmt /\ op' = "open"
  BY <1>2 DEF Open, Begin, IInv, NoStmtInInit, Halted
<1> QED BY <1>1, <1>2, <1>3
    DEF IInv, RegisteredIffValid, ValidHandleIsCurrent, StackMatchesPc,
        CallHasStatement, OpenOnClosed, NoStmtInInit, SendsCurrent, Halted

\* ~connection() keeps it: the registered statement is invalidated first.
LEMMA CloseDatasourceStep == ASSUME IInv, CloseDatasource PROVE IInv'
<1>1. TypeOK'
  <2>1. wrap' \in [Stmts -> Wraps]
    BY InvalidatedType, DetachedType DEF CloseDatasource, IInv, TypeOK
  <2>2. ds' \in [open : BOOLEAN, inTx : BOOLEAN, aborted : BOOLEAN]
    <3>1. ds' = ds \/ ds' = Closed
      BY DEF CloseDatasource
    <3>2. Closed \in [open : BOOLEAN, inTx : BOOLEAN, aborted : BOOLEAN]
      BY DEF Closed
    <3> QED BY <3>1, <3>2 DEF IInv, TypeOK
  <2> QED BY <2>1, <2>2
      DEF CloseDatasource, Begin, IInv, TypeOK, PCs, Ops, Halted, ConnStates, env
<1>2. pc = "idle" /\ stack' = <<>>
  BY DEF CloseDatasource, Begin, IInv, StackMatchesPc
<1>3. CASE ThrowsIn(wrap)
  BY <1>1, <1>3, Ended DEF CloseDatasource, Begin, Halted, CallHasStatement
<1>4. CASE ~ThrowsIn(wrap)
  <2>1. /\ wrap' = Detached(InvalidatedIn(wrap)) /\ stmt' = NoStmt
        /\ pc' = "idle" /\ ds' = Closed /\ op' = "close"
    BY <1>2, <1>4 DEF CloseDatasource, Begin
  <2>2. \A s \in Stmts : ~wrap'[s].valid /\ s # stmt'
    BY <1>2, <2>1, NoneValid, ConstantsAssumption
       DEF IInv, TypeOK, RegisteredIffValid, Halted
  <2> QED BY <1>1, <1>2, <2>1, <2>2
      DEF IInv, RegisteredIffValid, ValidHandleIsCurrent, StackMatchesPc,
          CallHasStatement, OpenOnClosed, NoStmtInInit, SendsCurrent, Halted
<1> QED BY <1>3, <1>4

\* Preparing a statement keeps it: the one registered before is invalidated.
LEMMA PrepareStep == ASSUME IInv, NEW s \in Stmts, Prepare(s) PROVE IInv'
<1>1. TypeOK'
  <2>1. wrap' \in [Stmts -> Wraps] /\ stmt' \in Stmts \cup {NoStmt}
    BY InvalidatedType, NewWrapType DEF Prepare, IInv, TypeOK
  <2> QED BY <2>1 DEF Prepare, Begin, IInv, TypeOK, PCs, Ops, Halted, env
<1>2. pc = "idle" /\ stack' = <<>> /\ ds' = ds /\ ds.open
  BY DEF Prepare, Begin, InService, IInv, StackMatchesPc
<1>3. CASE ThrowsIn(wrap)
  BY <1>1, <1>3, Ended DEF Prepare, Begin, Halted, CallHasStatement
<1>4. CASE ~ThrowsIn(wrap)
  <2>1. /\ wrap' = [InvalidatedIn(wrap) EXCEPT ![s] = NewWrap]
        /\ stmt' = s /\ pc' = "idle" /\ op' = "prepare"
    BY <1>2, <1>4 DEF Prepare, Begin
  <2>2. \A t \in Stmts : ~InvalidatedIn(wrap)[t].valid
    BY <1>2, NoneValid DEF IInv, TypeOK, RegisteredIffValid, Halted
  <2>3. InvalidatedIn(wrap) \in [Stmts -> Wraps]
    BY InvalidatedType DEF IInv, TypeOK
  <2>4. /\ wrap'[s].valid /\ wrap'[s].ctx.h = "none"
        /\ \A t \in Stmts \ {s} : ~wrap'[t].valid
    BY <2>1, <2>2, <2>3 DEF NewWrap, NoCmd
  <2> QED BY <1>1, <1>2, <2>1, <2>4
      DEF IInv, RegisteredIffValid, ValidHandleIsCurrent, StackMatchesPc,
          CallHasStatement, OpenOnClosed, NoStmtInInit, SendsCurrent, Halted
<1> QED BY <1>3, <1>4

\* A valid statement is the registered one, so that close() clears the right
\* registration.
LEMMA CloseStatementStep ==
    ASSUME IInv, NEW s \in Stmts, CloseStatement(s) PROVE IInv'
<1>1. pc = "idle" /\ stack' = <<>> /\ ds' = ds /\ conn' = conn /\ op' = "finish"
  BY DEF CloseStatement, Begin, IInv, StackMatchesPc
<1>2. TypeOK'
  <2>1. wrap' \in [Stmts -> Wraps] /\ stmt' \in Stmts \cup {NoStmt}
    BY NewWrapType DEF CloseStatement, IInv, TypeOK
  <2>2. pc' \in PCs
    BY DEF CloseStatement, Begin, PCs, Halted
  <2> QED BY <2>1, <2>2 DEF CloseStatement, Begin, IInv, TypeOK, Ops, env
<1>3. CASE pc' \in Halted
  BY <1>1, <1>2, <1>3, Ended DEF CallHasStatement
<1>4. CASE pc' \notin Halted
  <2>1. /\ pc' = "idle" /\ wrap' = [wrap EXCEPT ![s] = NoWrap]
        /\ stmt' = IF wrap[s].valid THEN NoStmt ELSE stmt
    BY <1>1, <1>4 DEF CloseStatement, Halted
  <2>2. \A t \in Stmts : /\ wrap[t].valid <=> t = stmt
                        /\ t # NoStmt
    BY <1>1, ConstantsAssumption DEF IInv, RegisteredIffValid, Halted
  <2>3. /\ ~wrap'[s].valid
        /\ \A t \in Stmts \ {s} : wrap'[t] = wrap[t]
    BY <2>1 DEF NoWrap, IInv, TypeOK
  <2>4. RegisteredIffValid'
    BY <2>1, <2>2, <2>3 DEF RegisteredIffValid
  <2>5. ValidHandleIsCurrent'
    BY <1>1, <2>3 DEF IInv, ValidHandleIsCurrent, Halted
  <2>6. NoStmtInInit'
    BY <1>1, <2>1 DEF IInv, NoStmtInInit, Halted
  <2> QED BY <1>1, <1>2, <2>1, <2>4, <2>5, <2>6
      DEF IInv, CallHasStatement, StackMatchesPc, OpenOnClosed, SendsCurrent, Halted
<1> QED BY <1>3, <1>4

\* The start of select() and exec() keeps it.
LEMMA SelectStep == ASSUME IInv, Select PROVE IInv'
<1>1. pc = "idle" /\ stack' = <<>> /\ ds' = ds /\ ds.open /\ conn' = conn
  BY DEF Select, Begin, InService, IInv, StackMatchesPc
<1>2. TypeOK'
  <2>1. wrap' \in [Stmts -> Wraps] /\ stmt' \in Stmts \cup {NoStmt}
    BY InvalidatedType DEF Select, IInv, TypeOK
  <2> QED BY <2>1 DEF Select, Begin, IInv, TypeOK, PCs, Ops, env
<1>3. CASE ThrowsIn(wrap)
  <2>1. wrap' = wrap /\ stmt' = stmt /\ pc' = "throw" /\ op' = "select"
    BY <1>3 DEF Select, Begin
  <2> QED BY <1>1, <1>2, <2>1, Untouched
      DEF CallHasStatement, StackMatchesPc, OpenOnClosed, SendsCurrent, Halted
<1>4. CASE ~ThrowsIn(wrap)
  <2>1. /\ wrap' = InvalidatedIn(wrap) /\ stmt' = NoStmt
        /\ pc' = "setup" /\ op' = "select"
    BY <1>4 DEF Select, Begin
  <2>2. \A s \in Stmts : ~wrap'[s].valid /\ s # stmt'
    BY <1>1, <2>1, NoneValid, ConstantsAssumption
       DEF IInv, TypeOK, RegisteredIffValid, Halted
  <2> QED BY <1>1, <1>2, <2>1, <2>2
      DEF IInv, RegisteredIffValid, ValidHandleIsCurrent, StackMatchesPc,
          CallHasStatement, OpenOnClosed, NoStmtInInit, SendsCurrent, Halted
<1> QED BY <1>3, <1>4

\* Statement::exec() keeps it: only the context of the caller changes.
LEMMA ExecStep == ASSUME IInv, NEW s \in Stmts, Exec(s) PROVE IInv'
<1>1. /\ pc = "idle" /\ pc' \in {"setup", "leave"} /\ op' = "exec" /\ who' = s
      /\ stack' = stack /\ stack = <<>> /\ ds' = ds /\ conn' = conn /\ stmt' = stmt
  BY DEF Exec, IInv, StackMatchesPc
<1>2. wrap \in [Stmts -> Wraps] /\ wrap[s].ctx \in Commands
  BY DEF IInv, TypeOK, Wraps
<1>3. /\ wrap' \in [Stmts -> Wraps]
      /\ \A t \in Stmts : wrap'[t].valid = wrap[t].valid
                          /\ wrap'[t].ctx.h = wrap[t].ctx.h
  <2>1. CASE wrap[s].valid
    <3> DEFINE c == IF wrap[s].ctx.h = "none" THEN wrap[s].ctx
                    ELSE Canceled(wrap[s].ctx)
               x == [wrap[s] EXCEPT !.ctx = c, !.execed = FALSE]
    <3>1. c \in Commands /\ c.h = wrap[s].ctx.h
      BY <1>2, CommandTypes DEF Canceled, Commands
    <3>2. x \in Wraps /\ x.valid = wrap[s].valid /\ x.ctx = c
      BY <1>2, <3>1 DEF Wraps
    <3>3. wrap' = [wrap EXCEPT ![s] = x]
      BY <1>2, <2>1 DEF Exec
    <3> HIDE DEF c, x
    <3> QED BY <1>2, <3>1, <3>2, <3>3
  <2>2. CASE ~wrap[s].valid
    BY <1>2, <2>2 DEF Exec
  <2> QED BY <2>1, <2>2
<1>4. TypeOK'
  <2>1. xsink' \in BOOLEAN
    BY DEF Exec
  <2> QED BY <1>1, <1>3, <2>1 DEF Exec, IInv, TypeOK, PCs, Ops, env
<1> QED BY <1>1, <1>3, <1>4, Untouched
    DEF CallHasStatement, StackMatchesPc, OpenOnClosed, SendsCurrent, Halted

\* Statement::next() keeps it.
LEMMA NextStep == ASSUME IInv, NEW s \in Stmts, Next_(s) PROVE IInv'
<1>1. /\ pc = "idle" /\ pc' \in {"read", "leave"} /\ op' = "next" /\ who' = s /\ wrap' = wrap
      /\ stack' = stack /\ stack = <<>> /\ ds' = ds /\ conn' = conn /\ stmt' = stmt
  BY DEF Next_, IInv, StackMatchesPc
<1>2. TypeOK'
  BY <1>1 DEF Next_, IInv, TypeOK, PCs, Ops, env
<1> QED BY <1>1, <1>2, Untouched
    DEF CallHasStatement, StackMatchesPc, OpenOnClosed, SendsCurrent, Halted

\* commit() and rollback() keep it: they cancel, and change no handle.
LEMMA EndTransactionStep ==
    ASSUME IInv, NEW o \in {"commit", "rollback"}, EndTransaction(o) PROVE IInv'
<1>1. /\ pc = "idle" /\ pc' = "direct" /\ op' = o /\ stack' = stack /\ stack = <<>>
      /\ ds' = ds /\ conn' = conn /\ stmt' = stmt
  BY DEF EndTransaction, Begin, IInv, StackMatchesPc
<1>2. /\ wrap' \in [Stmts -> Wraps]
      /\ \A t \in Stmts : wrap'[t].valid = wrap[t].valid
                          /\ wrap'[t].ctx.h = wrap[t].ctx.h
  BY DEF EndTransaction, IInv, TypeOK, Wraps, Commands
<1>3. TypeOK'
  BY <1>1, <1>2 DEF EndTransaction, Begin, IInv, TypeOK, PCs, Ops, env
<1> QED BY <1>1, <1>2, <1>3, Untouched
    DEF CallHasStatement, StackMatchesPc, OpenOnClosed, SendsCurrent, Halted

-----------------------------------------------------------------------------
(* setupCommand().                                                         *)

\* setupCommand() keeps it: a new command is on the present connection.
LEMMA SetupCommandStep == ASSUME IInv, SetupCommand PROVE IInv'
<1>1. /\ pc = "setup" /\ pc' \in {"leave", "send", "throw"}
      /\ cmd' \in {NoCmd, NewCmd} /\ (pc' = "send" => cmd' = NewCmd)
      /\ stack' = stack /\ ds' = ds /\ conn' = conn /\ stmt' = stmt /\ op' = op /\ who' = who
  BY DEF SetupCommand, call
<1>2. NoCmd \in Commands /\ NewCmd \in Commands /\ NoCmd.h = "none" /\ NewCmd.h = "cur"
  BY DEF Commands, NoCmd, NewCmd, ResTypes
<1>3. /\ wrap' \in [Stmts -> Wraps]
      /\ \A t \in Stmts : /\ wrap'[t].valid = wrap[t].valid
                          /\ wrap'[t].ctx.h \in {"none", wrap[t].ctx.h}
  <2>1. wrap' = wrap \/ wrap' = [wrap EXCEPT ![who].ctx = NoCmd]
    BY DEF SetupCommand
  <2> QED BY <1>2, <2>1 DEF IInv, TypeOK, Wraps
<1>4. TypeOK'
  BY <1>1, <1>2, <1>3 DEF SetupCommand, IInv, TypeOK, PCs, env, call
<1> QED BY <1>1, <1>2, <1>3, <1>4, Untouched
    DEF IInv, CallHasStatement, StackMatchesPc, OpenOnClosed, SendsCurrent, Halted

\* exec() takes over a command that is on the present connection.
LEMMA SendStep == ASSUME IInv, Send PROVE IInv'
<1>1. /\ pc = "send" /\ pc' \in {"read", "caught"}
      /\ stack' = stack /\ ds' = ds /\ conn' = conn /\ stmt' = stmt /\ op' = op /\ who' = who
  BY DEF Send
<1>2. PICK ok \in SendOutcomes :
        IF ok
        THEN /\ pc' = "read"
             /\ sent' = IF stack = <<>> THEN sent + 1 ELSE sent
             /\ LET c == [cmd EXCEPT !.pend = TRUE] IN
                IF stack = <<>> /\ op = "exec"
                THEN wrap' = [wrap EXCEPT ![who].ctx = c] /\ cmd' = NoCmd
                ELSE cmd' = c /\ UNCHANGED wrap
        ELSE pc' = "caught" /\ UNCHANGED <<wrap, cmd, sent>>
  BY DEF Send
<1> DEFINE c == [cmd EXCEPT !.pend = TRUE]
<1>3. c \in Commands /\ c.h = "cur" /\ NoCmd \in Commands
  BY <1>1, CommandTypes DEF IInv, TypeOK, SendsCurrent, Commands
<1>4. ok => conn # "null"
  BY DEF SendOutcomes
<1>5. /\ cmd' \in Commands /\ sent' \in Nat
      /\ wrap' \in [Stmts -> Wraps]
      /\ \A t \in Stmts : /\ wrap'[t].valid = wrap[t].valid
                          /\ \/ wrap'[t].ctx.h = wrap[t].ctx.h
                             \/ wrap'[t].ctx.h = "cur" /\ conn # "null"
  <2>1. CASE ok /\ stack = <<>> /\ op = "exec"
    <3>1. wrap' = [wrap EXCEPT ![who].ctx = c] /\ cmd' = NoCmd /\ sent' = sent + 1
      BY <1>2, <2>1
    <3>2. wrap \in [Stmts -> Wraps] /\ sent \in Nat /\ conn # "null"
      BY <1>4, <2>1 DEF IInv, TypeOK
    <3> HIDE DEF c
    <3>3. ASSUME NEW t \in Stmts
          PROVE  /\ wrap'[t] \in Wraps /\ wrap'[t].valid = wrap[t].valid
                 /\ wrap'[t].ctx.h \in {"cur", wrap[t].ctx.h}
      <4>1. CASE t = who
        BY <1>3, <3>1, <3>2, <4>1 DEF Wraps
      <4>2. CASE t # who
        BY <3>1, <3>2, <4>2
      <4> QED BY <4>1, <4>2
    <3>4. wrap' \in [Stmts -> Wraps]
      BY <3>1, <3>2, <3>3
    <3> QED BY <1>3, <3>1, <3>2, <3>3, <3>4
  <2>2. CASE ~(ok /\ stack = <<>> /\ op = "exec")
    <3>1. wrap' = wrap /\ (cmd' = c \/ cmd' = cmd) /\ (sent' = sent + 1 \/ sent' = sent)
      BY <1>2, <2>2
    <3> HIDE DEF c
    <3> QED BY <1>3, <3>1 DEF IInv, TypeOK
  <2> QED BY <2>1, <2>2
<1>6. TypeOK'
  BY <1>1, <1>5 DEF Send, IInv, TypeOK, PCs, env
<1> QED BY <1>1, <1>5, <1>6, Untouched
    DEF IInv, CallHasStatement, StackMatchesPc, OpenOnClosed, SendsCurrent, Halted

\* The ping after a failed send keeps it.
LEMMA SendFailedStep == ASSUME IInv, SendFailed PROVE IInv'
<1>1. /\ pc = "caught" /\ pc' \in {"throw", "lost_send"}
      /\ UNCHANGED <<env, conn, stmt, wrap, cmd, stack, ds, xsink, call>>
  BY DEF SendFailed
<1>2. TypeOK'
  BY <1>1 DEF IInv, TypeOK, PCs, env, call
<1> QED BY <1>1, <1>2, Untouched
    DEF IInv, CallHasStatement, StackMatchesPc, OpenOnClosed, SendsCurrent, Halted, call

-----------------------------------------------------------------------------
(* Reading results.                                                        *)

\* The command that is read is the context of a statement or the local one;
\* writing it back changes nothing else.
LEMMA SetActiveType ==
    ASSUME IInv, NEW c \in Commands, c.h = Active.h, SetActive(c)
    PROVE  /\ cmd' \in Commands /\ wrap' \in [Stmts -> Wraps]
           /\ \A t \in Stmts : /\ wrap'[t].valid = wrap[t].valid
                               /\ wrap'[t].ctx.h = wrap[t].ctx.h
<1>1. CASE UsesContext
  <2>1. wrap' = [wrap EXCEPT ![who].ctx = c] /\ cmd' = cmd /\ c.h = wrap[who].ctx.h
    BY <1>1 DEF SetActive, Active
  <2> QED BY <2>1 DEF IInv, TypeOK, Wraps
<1>2. CASE ~UsesContext
  BY <1>2 DEF SetActive, IInv, TypeOK
<1> QED BY <1>1, <1>2

\* The command readNextResult() works on is a command.
LEMMA ActiveType == IInv => Active \in Commands
BY DEF IInv, CallHasStatement, TypeOK, UsesContext, Active, Wraps

\* A result that is delivered, a read that fails and the cancel after CS_FAIL
\* write lastRes, never the handle.
LEMMA ReadSets ==
    ASSUME IInv, ReadResult \/ ReadFails \/ CancelAfterFail
    PROVE  \E c \in Commands : c.h = Active.h /\ SetActive(c)
<1>1. Active \in Commands
  BY ActiveType
<1>2. CASE ReadResult
  <2>1. \A r \in ResultTypes, b \in BOOLEAN :
          /\ [Active EXCEPT !.last = r, !.pend = b] \in Commands
          /\ [Active EXCEPT !.last = r, !.pend = b].h = Active.h
    BY <1>1 DEF Commands, ResTypes, ResultTypes
  <2>2. CASE UsesContext
    <3>1. PICK r \in ResultTypes :
            SetActive([Active EXCEPT !.last = r, !.pend = r # "END"])
      BY <1>2, <2>2 DEF ReadResult
    <3> DEFINE b == r # "END"
    <3>2. b \in BOOLEAN /\ SetActive([Active EXCEPT !.last = r, !.pend = b])
      BY <3>1
    <3> HIDE DEF b
    <3> QED BY <2>1, <3>2
  <2>3. CASE ~UsesContext
    <3>1. SetActive([Active EXCEPT !.last = "END", !.pend = FALSE])
      BY <1>2, <2>3 DEF ReadResult
    <3>2. "END" \in ResultTypes /\ FALSE \in BOOLEAN
      BY DEF ResultTypes
    <3> QED BY <2>1, <3>1, <3>2
  <2> QED BY <2>2, <2>3
<1>3. CASE ReadFails
  <2>1. PICK last \in {Active.last, "NONE"} : SetActive([Active EXCEPT !.last = last])
    BY <1>3 DEF ReadFails
  <2> QED BY <1>1, <2>1 DEF Commands, ResTypes
<1>4. CASE CancelAfterFail
  <2>1. PICK ok \in CancelOutcomes :
          SetActive([Active EXCEPT !.last = "ERROR", !.pend = @ /\ ~ok])
    BY <1>4 DEF CancelAfterFail
  <2>2. (Active.pend /\ ~ok) \in BOOLEAN
    OBVIOUS
  <2>3. /\ [Active EXCEPT !.last = "ERROR", !.pend = @ /\ ~ok] \in Commands
        /\ [Active EXCEPT !.last = "ERROR", !.pend = @ /\ ~ok].h = Active.h
    BY <1>1, <2>2 DEF Commands, ResTypes
  <2> QED BY <2>1, <2>3
<1> QED BY <1>2, <1>3, <1>4

\* Reading keeps the invariant.
LEMMA ReadStep ==
    ASSUME IInv, ReadResult \/ ReadFails \/ CancelAfterFail
    PROVE  IInv'
<1>1. /\ pc \in {"read", "canceling"}
      /\ pc' \in {"fetch", "leave", "canceling", "throw", "lost_read"}
      /\ xsink' \in BOOLEAN
      /\ UNCHANGED <<env, conn, stmt, stack, ds, call>>
  BY DEF ReadResult, ReadFails, CancelAfterFail, IInv, TypeOK
<1>2. /\ cmd' \in Commands /\ wrap' \in [Stmts -> Wraps]
      /\ \A t \in Stmts : /\ wrap'[t].valid = wrap[t].valid
                          /\ wrap'[t].ctx.h = wrap[t].ctx.h
  <2>1. PICK c \in Commands : c.h = Active.h /\ SetActive(c)
    BY ReadSets
  <2> QED BY <2>1, SetActiveType
<1>3. TypeOK'
  BY <1>1, <1>2 DEF IInv, TypeOK, PCs, env, call
<1> QED BY <1>1, <1>2, <1>3, Untouched
    DEF IInv, CallHasStatement, StackMatchesPc, OpenOnClosed, SendsCurrent, Halted, call

\* The other steps of a call that is reading change no command, except that
\* Fetch notes the end of the rows.
LEMMA ReadingStep ==
    ASSUME IInv, ReadSkipped \/ Fetch \/ DirectExecute
    PROVE  IInv'
<1>1. /\ pc \in {"read", "fetch", "direct"}
      /\ pc' \in {"throw", "fetch", "leave"}
      /\ sent' \in {sent, sent + 1}
      /\ UNCHANGED <<env, conn, stmt, cmd, stack, ds, xsink, op, who, rv, txLost>>
  BY DEF ReadSkipped, Fetch, DirectExecute, call
<1>2. /\ wrap' \in [Stmts -> Wraps]
      /\ \A t \in Stmts : /\ wrap'[t].valid = wrap[t].valid
                          /\ wrap'[t].ctx.h = wrap[t].ctx.h
  <2>1. wrap' = wrap \/ wrap' = [wrap EXCEPT ![who].ctx.last = "NONE"]
    BY DEF ReadSkipped, Fetch, DirectExecute
  <2> QED BY <2>1, MarkedType DEF IInv, TypeOK
<1>3. TypeOK'
  BY <1>1, <1>2 DEF IInv, TypeOK, PCs, env
<1> QED BY <1>1, <1>2, <1>3, Untouched
    DEF IInv, CallHasStatement, StackMatchesPc, OpenOnClosed, SendsCurrent, Halted

-----------------------------------------------------------------------------
(* closeAndReconnect() and init().                                         *)

\* ct_options() and the decision to run queries keep the invariant.
LEMMA OptionsStep == ASSUME IInv, Options PROVE IInv'
<1>1. /\ pc = "options" /\ pc' \in {"throw", "initret", "setup"} /\ stack # <<>>
      /\ UNCHANGED <<env, conn, stmt, wrap, cmd, ds, call>>
  BY DEF Options, IInv, StackMatchesPc
<1>2. stack' \in Seq(Frames) /\ stack' # <<>>
  BY <1>1, StackTypes DEF Options, IInv, TypeOK
<1>3. xsink' \in BOOLEAN
  BY DEF Options, PurgeInInit, IInv, TypeOK
<1>4. TypeOK'
  BY <1>1, <1>2, <1>3 DEF IInv, TypeOK, PCs, env, call
<1> QED BY <1>1, <1>2, <1>4, Untouched
    DEF IInv, CallHasStatement, StackMatchesPc, OpenOnClosed, SendsCurrent, Halted, call

\* The end of a query of init() keeps it.
LEMMA QueryDoneStep == ASSUME IInv, QueryDone PROVE IInv'
<1>1. /\ pc = "leave" /\ pc' \in {"initret", "setup"} /\ stack # <<>>
      /\ UNCHANGED <<env, conn, stmt, wrap, cmd, ds, call>>
  BY DEF QueryDone
<1>2. stack' \in Seq(Frames) /\ stack' # <<>>
  <2>1. stack' = stack \/ \E next \in {"collation", "codepage"} :
                             stack' = [stack EXCEPT ![1].q = next]
    BY DEF QueryDone, NextQuery
  <2> QED BY <1>1, <2>1, StackTypes DEF IInv, TypeOK
<1>3. xsink' \in BOOLEAN
  BY DEF QueryDone, PurgeInInit, ErrorStays, IInv, TypeOK
<1>4. TypeOK'
  BY <1>1, <1>2, <1>3 DEF IInv, TypeOK, PCs, env, call
<1> QED BY <1>1, <1>2, <1>4, Untouched
    DEF IInv, CallHasStatement, StackMatchesPc, OpenOnClosed, SendsCurrent, Halted, call

\* init() returns to a caller that finds no registered statement.
LEMMA InitReturnStep == ASSUME IInv, InitReturn PROVE IInv'
<1>1. /\ pc = "initret" /\ pc' \in {"throw", "setup", "leave"} /\ stack # <<>>
      /\ UNCHANGED <<env, conn, stmt, wrap, cmd, xsink, call>>
  BY DEF InitReturn, Resume, IInv, StackMatchesPc
<1>2. stack' \in Seq(Frames)
  BY <1>1, StackTypes DEF InitReturn, IInv, TypeOK
<1>3. /\ ds' \in [open : BOOLEAN, inTx : BOOLEAN, aborted : BOOLEAN]
      /\ ds'.open = ds.open
  BY DEF InitReturn, IInv, TypeOK
<1>4. TypeOK'
  BY <1>1, <1>2, <1>3 DEF IInv, TypeOK, PCs, env, call
<1> QED BY <1>1, <1>3, <1>4, Untouched
    DEF IInv, CallHasStatement, StackMatchesPc, OpenOnClosed, SendsCurrent, Halted, call

\* While init() runs no statement is registered, so the connection may come
\* and go.
LEMMA ConnectStep == ASSUME IInv, Connect PROVE IInv'
<1>1. /\ pc = "connect" /\ pc' \in {"throw", "initret", "options"} /\ stack # <<>>
      /\ conn' \in ConnStates /\ xsink' \in BOOLEAN
      /\ UNCHANGED <<env, stmt, wrap, cmd, stack, ds, call>>
  BY DEF Connect, ConnStates, IInv, TypeOK, StackMatchesPc
<1>2. TypeOK'
  BY <1>1 DEF IInv, TypeOK, PCs, env, call
<1>3. \A s \in Stmts : ~wrap[s].valid
  BY <1>1, ConstantsAssumption DEF IInv, NoStmtInInit, RegisteredIffValid, Halted
<1> QED BY <1>1, <1>2, <1>3
    DEF IInv, RegisteredIffValid, ValidHandleIsCurrent, StackMatchesPc,
        CallHasStatement, OpenOnClosed, NoStmtInInit, SendsCurrent, Halted, call

\* invalidateStatement() comes before ct_con_drop(), so no valid statement
\* keeps a command of the released connection; and when it throws, the
\* statement whose command was just dropped is not the registered one.
LEMMA CloseForReconnectStep ==
    ASSUME IInv, NEW by \in {"send", "read"}, CloseForReconnect(by)
    PROVE  IInv'
<1> DEFINE inContext == UsesContext /\ by = "read"
           w == IF inContext THEN [wrap EXCEPT ![who].ctx = Dropped(@)] ELSE wrap
<1>1. /\ pc \in {"lost_send", "lost_read"}
      /\ UNCHANGED <<env, ds, op, who, rv, sent>>
  BY DEF CloseForReconnect
<1>2. /\ inContext => who \in Stmts /\ wrap[who].ctx \in Commands
      /\ wrap \in [Stmts -> Wraps] /\ cmd \in Commands
  BY DEF UsesContext, IInv, CallHasStatement, TypeOK, Wraps
<1>3. /\ w \in [Stmts -> Wraps]
      /\ \A t \in Stmts : /\ w[t].valid = wrap[t].valid
                          /\ \/ w[t].ctx.h = wrap[t].ctx.h
                             \/ w[t].ctx.h = "null" /\ inContext /\ t = who
  <2>1. CASE inContext
    <3>1. Dropped(wrap[who].ctx) \in Commands /\ Dropped(wrap[who].ctx).h = "null"
      BY <1>2, <2>1, CommandTypes DEF Dropped, Commands
    <3>2. w = [wrap EXCEPT ![who].ctx = Dropped(wrap[who].ctx)]
      BY <2>1
    <3> HIDE DEF w
    <3> QED BY <1>2, <2>1, <3>1, <3>2 DEF Wraps
  <2>2. CASE ~inContext
    BY <1>2, <2>2
  <2> QED BY <2>1, <2>2
<1>4. cmd' \in Commands
  BY <1>2, CommandTypes DEF CloseForReconnect
<1>5. \A s \in Stmts : /\ wrap[s].valid <=> s = stmt
                      /\ s # NoStmt
  BY <1>1, ConstantsAssumption DEF IInv, RegisteredIffValid, Halted
<1>6. ASSUME ThrowsIn(w), wrap' = w, pc' = "throw",
             UNCHANGED <<conn, stmt, stack, xsink, txLost>>
      PROVE  IInv'
  <2>1. TypeOK'
    BY <1>1, <1>3, <1>4, <1>6 DEF IInv, TypeOK, PCs, env
  <2>2. RegisteredIffValid'
    BY <1>3, <1>5, <1>6 DEF RegisteredIffValid
  <2>3. ASSUME NEW s \in Stmts, w[s].valid
        PROVE  w[s].ctx.h = wrap[s].ctx.h
    <3>1. s = stmt /\ w[s].ctx.h = "none"
      BY <1>3, <1>5, <1>6, <2>3 DEF ThrowsIn
    <3> QED BY <1>3, <3>1
  <2>4. ValidHandleIsCurrent'
    BY <1>1, <1>3, <1>6, <2>3 DEF IInv, ValidHandleIsCurrent, Halted
  <2> QED BY <1>1, <1>6, <2>1, <2>2, <2>4
      DEF IInv, CallHasStatement, StackMatchesPc, OpenOnClosed, NoStmtInInit,
          SendsCurrent, Halted
<1>7. ASSUME wrap' = w, pc' = "assert", UNCHANGED <<conn, stmt, stack, xsink, txLost>>
      PROVE  IInv'
  <2>1. TypeOK'
    BY <1>1, <1>3, <1>4, <1>7 DEF IInv, TypeOK, PCs, Halted, env
  <2> QED BY <1>1, <1>7, <2>1, Ended DEF Halted, IInv, CallHasStatement
<1>8. ASSUME wrap' = Detached(InvalidatedIn(w)), stmt' = NoStmt, conn' = "null",
             xsink' = WithTransactionError(xsink), txLost' = (txLost \/ ds.inTx),
             stack' = <<[by |-> by, q |-> "none"]>> \o stack, pc' = "connect"
      PROVE  IInv'
  <2>1. wrap' \in [Stmts -> Wraps]
    BY <1>3, <1>8, InvalidatedType, DetachedType
  <2>2. stack' \in Seq(Frames) /\ stack' # <<>>
    <3>1. [by |-> by, q |-> "none"] \in Frames
      BY DEF Frames
    <3> QED BY <1>8, <3>1, StackTypes DEF IInv, TypeOK
  <2>3. xsink' \in BOOLEAN /\ txLost' \in BOOLEAN
    BY <1>8 DEF WithTransactionError, IInv, TypeOK
  <2>4. TypeOK'
    BY <1>1, <1>4, <1>8, <2>1, <2>2, <2>3 DEF IInv, TypeOK, PCs, ConnStates, env
  <2>5. \A s \in Stmts : ~wrap'[s].valid /\ s # stmt'
    BY <1>3, <1>5, <1>8, NoneValid
  <2> QED BY <1>1, <1>8, <2>2, <2>4, <2>5
      DEF IInv, CallHasStatement, RegisteredIffValid, ValidHandleIsCurrent,
          StackMatchesPc, OpenOnClosed, NoStmtInInit, SendsCurrent, Halted
<1>9. \/ /\ ThrowsIn(w) /\ wrap' = w /\ pc' = "throw"
         /\ UNCHANGED <<conn, stmt, stack, xsink, txLost>>
      \/ /\ wrap' = w /\ pc' = "assert" /\ UNCHANGED <<conn, stmt, stack, xsink, txLost>>
      \/ /\ wrap' = Detached(InvalidatedIn(w)) /\ stmt' = NoStmt /\ conn' = "null"
         /\ xsink' = WithTransactionError(xsink) /\ txLost' = (txLost \/ ds.inTx)
         /\ stack' = <<[by |-> by, q |-> "none"]>> \o stack /\ pc' = "connect"
  BY DEF CloseForReconnect
<1> QED BY <1>6, <1>7, <1>8, <1>9

-----------------------------------------------------------------------------
(* The end of a call.                                                      *)

\* ~command() of the local command keeps it: no statement holds it.
LEMMA DestroyCommandStep == ASSUME IInv, DestroyCommand PROVE IInv'
<1>1. /\ pc \in {"throw", "leave"} /\ pc' \in {pc, "terminated"}
      /\ cmd' \in {cmd, NoCmd}
      /\ UNCHANGED <<env, conn, stmt, wrap, stack, ds, xsink, call>>
  BY DEF DestroyCommand
<1>2. TypeOK'
  <2>1. NoCmd \in Commands
    BY DEF NoCmd, Commands, ResTypes
  <2> QED BY <1>1, <2>1 DEF IInv, TypeOK, PCs, Halted, env, call
<1> QED BY <1>1, <1>2, Untouched
    DEF IInv, CallHasStatement, StackMatchesPc, OpenOnClosed, SendsCurrent, Halted, call

\* An exception that leaves init() keeps it.
LEMMA UnwindStep == ASSUME IInv, Unwind PROVE IInv'
<1>1. /\ pc = "throw" /\ pc' \in {"throw", "leave"} /\ xsink' \in BOOLEAN
      /\ UNCHANGED <<env, conn, stmt, wrap, cmd, ds, call>>
  BY DEF Unwind, IInv, TypeOK
<1>2. stack' \in Seq(Frames) /\ (stack' # <<>> => stack # <<>>)
  <2>1. \/ stack' = stack
        \/ stack # <<>> /\ stack' = Tail(stack)
        \/ stack # <<>> /\ stack' = [stack EXCEPT ![1].q = "caught"]
    BY DEF Unwind
  <2> QED BY <2>1, StackTypes DEF IInv, TypeOK
<1>3. TypeOK'
  BY <1>1, <1>2 DEF IInv, TypeOK, PCs, env, call
<1> QED BY <1>1, <1>2, <1>3, Untouched
    DEF IInv, CallHasStatement, StackMatchesPc, OpenOnClosed, SendsCurrent, Halted, call

\* sybase_open() is the only call that returns with the Datasource changed
\* from closed to open, or with the connection deleted; no statement is
\* registered then.
LEMMA ReturnStep == ASSUME IInv, Return PROVE IInv'
<1>1. /\ pc = "leave" /\ pc' = "idle" /\ stack = <<>>
      /\ conn' = IF op = "open" /\ xsink THEN "null" ELSE conn
      /\ UNCHANGED <<env, stmt, cmd, stack, xsink, op, who, sent, txLost>>
  BY DEF Return
<1>2. /\ wrap' \in [Stmts -> Wraps]
      /\ \A t \in Stmts : /\ wrap'[t].valid = wrap[t].valid
                          /\ wrap'[t].ctx.h = wrap[t].ctx.h
  <2>1. wrap' = wrap \/ wrap' = [wrap EXCEPT ![who].execed = TRUE]
    BY DEF Return
  <2> QED BY <2>1, MarkedType DEF IInv, TypeOK
<1>3. /\ ds' \in [open : BOOLEAN, inTx : BOOLEAN, aborted : BOOLEAN]
      /\ op # "open" => ds'.open = ds.open
  <2>1. PICK begun \in BOOLEAN :
         ds' = CASE op = "open" -> [Closed EXCEPT !.open = ~xsink]
                 [] op \in {"select", "exec"} ->
                        [ds EXCEPT !.inTx = @ \/ (begun /\ ~xsink)]
                 [] op \in {"commit", "rollback"} -> [ds EXCEPT !.inTx = FALSE]
                 [] OTHER -> ds
    BY DEF Return
  <2>2. CASE op = "open"
    <3>1. ds' = [Closed EXCEPT !.open = ~xsink] /\ (~xsink) \in BOOLEAN
      BY <2>1, <2>2
    <3> QED BY <2>2, <3>1 DEF Closed
  <2>3. CASE op \in {"select", "exec"}
    <3>1. ds' = [ds EXCEPT !.inTx = @ \/ (begun /\ ~xsink)]
      BY <2>1, <2>3
    <3>2. (ds.inTx \/ (begun /\ ~xsink)) \in BOOLEAN
      BY DEF IInv, TypeOK
    <3> QED BY <3>1, <3>2 DEF IInv, TypeOK
  <2>4. CASE op \in {"commit", "rollback"}
    BY <2>1, <2>4 DEF IInv, TypeOK
  <2>5. CASE op \notin {"open", "select", "exec", "commit", "rollback"}
    <3>1. ds' = ds
      BY <2>1, <2>5
    <3> QED BY <3>1 DEF IInv, TypeOK
  <2> QED BY <2>2, <2>3, <2>4, <2>5
<1>4. TypeOK'
  <2>1. rv' \in {"none", "ok", "err"} /\ conn' \in ConnStates
    BY <1>1 DEF Return, ConnStates, IInv, TypeOK
  <2> QED BY <1>1, <1>2, <1>3, <2>1 DEF IInv, TypeOK, PCs, env
<1>5. CASE op # "open"
  BY <1>1, <1>2, <1>3, <1>4, <1>5, Untouched
     DEF IInv, CallHasStatement, StackMatchesPc, OpenOnClosed, SendsCurrent, Halted
<1>6. CASE op = "open"
  <2>1. stmt = NoStmt
    BY <1>1, <1>6 DEF IInv, OpenOnClosed, NoStmtInInit, Halted
  <2>2. \A s \in Stmts : ~wrap'[s].valid /\ s # stmt'
    BY <1>1, <1>2, <2>1, ConstantsAssumption DEF IInv, RegisteredIffValid, Halted
  <2> QED BY <1>1, <1>4, <1>6, <2>1, <2>2
      DEF IInv, CallHasStatement, RegisteredIffValid, ValidHandleIsCurrent,
          StackMatchesPc, OpenOnClosed, NoStmtInInit, SendsCurrent, Halted
<1> QED BY <1>5, <1>6

-----------------------------------------------------------------------------
(* The invariant and the properties that follow from it.                   *)

\* A stuttering step keeps it.
LEMMA StutterStep == ASSUME IInv, UNCHANGED vars PROVE IInv'
BY DEF vars, IInv, TypeOK, CallHasStatement, RegisteredIffValid,
       ValidHandleIsCurrent, StackMatchesPc, OpenOnClosed, NoStmtInInit, SendsCurrent

\* Every call Qore can make keeps it.
LEMMA ClientStep == ASSUME IInv, Client PROVE IInv'
BY OpenStep, CloseDatasourceStep, SelectStep, EndTransactionStep, PrepareStep,
   CloseStatementStep, ExecStep, NextStep DEF Client

\* Every step of the driver keeps it.
LEMMA DriverStep == ASSUME IInv, Driver PROVE IInv'
BY SetupCommandStep, SendStep, SendFailedStep, ReadStep, ReadingStep,
   CloseForReconnectStep, ConnectStep, OptionsStep, QueryDoneStep, InitReturnStep,
   DestroyCommandStep, UnwindStep, ReturnStep
   DEF Driver

\* IInv is preserved by every step.
LEMMA IInvInductive == IInv /\ [Next]_vars => IInv'
<1> SUFFICES ASSUME IInv, [Next]_vars PROVE IInv'
  OBVIOUS
<1>1. CASE SessionLost \/ ServerBack
  BY <1>1, EnvironmentStep
<1>2. CASE Client
  BY <1>2, ClientStep
<1>3. CASE Driver
  BY <1>3, DriverStep
<1>4. CASE Stopped \/ UNCHANGED vars
  BY <1>4, StutterStep DEF Stopped
<1> QED BY <1>1, <1>2, <1>3, <1>4 DEF Next

\* The inductive invariant holds in every reachable state of the driver.
THEOREM Invariance == Spec => []IInv
BY InitIInv, IInvInductive, PTL DEF Spec

\* Every variable keeps its type, through every call and every reconnection.
THEOREM TypeCorrect == Spec => []TypeOK
<1>1. IInv => TypeOK
  BY DEF IInv
<1> QED BY <1>1, Invariance, PTL

\* Statement::valid and connection::stmt agree at every step of every call,
\* through all reconnections: a statement is valid exactly while it is the
\* registered one.
THEOREM RegistrationCorrect == Spec => []RegisteredIffValid
<1>1. IInv => RegisteredIffValid
  BY DEF IInv
<1> QED BY <1>1, Invariance, PTL

\* A valid statement never holds a command of a released connection, whatever
\* the number of statements and of sessions lost.
THEOREM HandlesCurrent == Spec => []ValidHandleIsCurrent
<1>1. IInv => ValidHandleIsCurrent
  BY DEF IInv
<1> QED BY <1>1, Invariance, PTL

-----------------------------------------------------------------------------
(* What a call promises its caller: it sends the text at most once, it     *)
(* sends nothing over pending results, and it does not report success when *)
(* it has lost a transaction.  Each of the three has an inductive          *)
(* invariant of its own, relative to IInv.                                 *)

\* The activation of init() that was started first: the call itself began it.
Bottom(st) == st[Len(st)]

\* Nothing has been accepted by the library while the call is about to send,
\* or reconnects because its own send was refused.
FirstSend ==
    /\ pc = "direct" => sent = 0 /\ stack = <<>>
    /\ pc \in {"setup", "send", "caught", "lost_send"} /\ stack = <<>> => sent = 0
    /\ stack # <<>> /\ Bottom(stack).by = "send" => sent = 0

OnceInv == AtMostOneSend /\ FirstSend

\* A call of the client is under way.
Running == pc \notin {"idle"} \cup Halted

\* Only an open Datasource has a transaction; every call but sybase_open()
\* runs on an open one.
TransactionIsOpen ==
    /\ ds.inTx => ds.open
    /\ Running /\ op # "open" => ds.open

\* The exception a lost transaction raised stays until the call has returned.
LossIsPending ==
    /\ Running /\ txLost => xsink
    /\ pc = "idle" /\ txLost => rv = "err"

\* It is raised before init() runs, and with it pending no init() on the stack
\* gets as far as the query whose exceptions are cleared.
NothingClearsIt ==
    /\ Running /\ ds.inTx /\ stack # <<>> => txLost
    /\ Running /\ txLost =>
          \A i \in 1..Len(stack) : stack[i].q \in {"none", "version"}

LostInv == TransactionIsOpen /\ LossIsPending /\ NothingClearsIt

\* Of a statement that has been read to its end nothing is pending.
NothingAfterEnd(w) ==
    \A s \in Stmts : w[s].ctx.last = "END" => ~w[s].ctx.pend

\* No valid statement has results pending on the present connection.
Quiet(w) ==
    \A s \in Stmts : w[s].valid /\ w[s].ctx.h = "cur" => ~w[s].ctx.pend

\* The connection is quiet from the moment a call decides to send something,
\* and what it sends is a command nothing has been read from.
QuietInv ==
    /\ NothingAfterEnd(wrap)
    /\ pc = "send" => cmd.last = "NONE"
    /\ pc \in {"setup", "send", "direct"} => Quiet(wrap)

\* Statement w is valid, or a reconnection in its own exec() invalidated it.
ValidOrOrphan(w) == w.valid \/ w.orphan

\* The call is in exec() of a statement that was valid when it started.
Executing ==
    /\ op = "exec" /\ pc \notin {"idle"} \cup Halted
    /\ pc = "leave" => stack # <<>>

\* Only such statements have a command on the present connection: any other
\* invalid one has lost its command, and cannot be executed again.
OrphanInv ==
    /\ \A s \in Stmts : wrap[s].ctx.h = "cur" => ValidOrOrphan(wrap[s])
    /\ Executing => ValidOrOrphan(wrap[who])

-----------------------------------------------------------------------------
(* The stack of init() activations.                                        *)

\* Pushing, popping and changing the query of the innermost activation leave
\* the first one alone, while there is one.
LEMMA BottomFrame ==
    ASSUME NEW st \in Seq(Frames)
    PROVE  /\ \A f \in Frames :
                Bottom(<<f>> \o st) = IF st = <<>> THEN f ELSE Bottom(st)
           /\ st # <<>> => /\ Tail(st) = <<>> => Bottom(st) = st[1]
                           /\ Tail(st) # <<>> => Bottom(Tail(st)) = Bottom(st)
           /\ \A x : st # <<>> => /\ [st EXCEPT ![1].q = x] # <<>>
                                  /\ Bottom([st EXCEPT ![1].q = x]).by = Bottom(st).by
<1>1. ASSUME NEW f \in Frames
      PROVE  Bottom(<<f>> \o st) = IF st = <<>> THEN f ELSE Bottom(st)
  <2>1. /\ Len(<<f>> \o st) = 1 + Len(st) /\ Len(st) \in Nat
        /\ \A i \in 1..Len(<<f>> \o st) :
             (<<f>> \o st)[i] = IF i = 1 THEN f ELSE st[i - 1]
    BY ConcatProperties, LenProperties
  <2>2. st = <<>> <=> Len(st) = 0
    BY EmptySeq, LenProperties
  <2> QED BY <2>1, <2>2 DEF Bottom
<1>2. ASSUME st # <<>>
      PROVE  /\ Len(st) \in Nat /\ Len(st) >= 1
             /\ Tail(st) = <<>> => Bottom(st) = st[1]
             /\ Tail(st) # <<>> => Bottom(Tail(st)) = Bottom(st)
  <2>1. /\ Tail(st) \in Seq(Frames) /\ Len(Tail(st)) = Len(st) - 1
        /\ \A i \in 1..Len(Tail(st)) : Tail(st)[i] = st[i + 1]
    BY <1>2, HeadTailProperties
  <2>2. Len(st) \in Nat /\ Len(st) >= 1
    BY <1>2, EmptySeq, LenProperties
  <2>3. Tail(st) = <<>> <=> Len(Tail(st)) = 0
    BY <2>1, EmptySeq, LenProperties
  <2> QED BY <2>1, <2>2, <2>3 DEF Bottom
<1>3. ASSUME NEW x, st # <<>>
      PROVE  /\ [st EXCEPT ![1].q = x] # <<>>
             /\ Bottom([st EXCEPT ![1].q = x]).by = Bottom(st).by
  <2>1. Len(st) \in Nat /\ Len(st) >= 1 /\ DOMAIN st = 1..Len(st)
    BY <1>2, <1>3, LenProperties
  <2>2. /\ DOMAIN [st EXCEPT ![1].q = x] = 1..Len(st)
        /\ Len([st EXCEPT ![1].q = x]) = Len(st)
    BY <2>1
  <2>3. [st EXCEPT ![1].q = x][Len(st)].by = st[Len(st)].by
    <3>1. st[Len(st)] \in Frames
      BY <2>1, ElementOfSeq
    <3> QED BY <2>1, <3>1 DEF Frames
  <2> QED BY <2>1, <2>2, <2>3 DEF Bottom
<1> QED BY <1>1, <1>2, <1>3

-----------------------------------------------------------------------------
(* A call sends its text at most once.                                     *)

\* A call that starts has sent nothing.
LEMMA OnceAtStart == ASSUME IInv, Client PROVE OnceInv'
<1>1. sent' = 0 /\ (pc' = "direct" => stack' = <<>>)
  BY DEF Client, Open, CloseDatasource, Select, EndTransaction, Prepare, CloseStatement,
         Exec, Next_, Begin, IInv, StackMatchesPc, Halted
<1> QED BY <1>1 DEF OnceInv, AtMostOneSend, FirstSend

\* Steps that do not send, and leave the stack of init() alone: none of them
\* goes back to where a call sends.
LEMMA OnceKept ==
    ASSUME OnceInv, sent' = sent, stack' = stack,
           \/ pc' \notin {"direct", "setup", "send", "caught", "lost_send"}
           \/ pc' = pc
           \/ pc' # "direct" /\ pc \in {"setup", "send", "caught"}
    PROVE  OnceInv'
BY DEF OnceInv, AtMostOneSend, FirstSend

\* The two steps that send do it as the first of the call.
LEMMA OnceSend == ASSUME IInv, OnceInv, Send \/ DirectExecute PROVE OnceInv'
<1>1. CASE DirectExecute
  <2>1. /\ pc = "direct" /\ pc' \in {"leave", "throw"} /\ sent' \in {sent, sent + 1}
        /\ stack' = stack
    BY <1>1 DEF DirectExecute
  <2> QED BY <2>1 DEF OnceInv, AtMostOneSend, FirstSend
<1>2. CASE Send
  <2>1. /\ pc = "send" /\ pc' \in {"read", "caught"} /\ stack' = stack
        /\ \/ sent' = sent
           \/ stack = <<>> /\ sent' = sent + 1 /\ pc' = "read"
    BY <1>2 DEF Send
  <2> QED BY <2>1 DEF OnceInv, AtMostOneSend, FirstSend
<1> QED BY <1>1, <1>2

\* A reconnection that a refused send starts begins a stack for a call that
\* has sent nothing.
LEMMA OnceReconnect ==
    ASSUME IInv, OnceInv, NEW by \in {"send", "read"}, CloseForReconnect(by)
    PROVE  OnceInv'
<1> DEFINE f == [by |-> by, q |-> "none"]
<1>1. /\ pc = IF by = "send" THEN "lost_send" ELSE "lost_read"
      /\ pc' \in {"throw", "assert", "connect"} /\ sent' = sent
      /\ stack' = stack \/ stack' = <<f>> \o stack
  BY DEF CloseForReconnect
<1>2. CASE stack' = stack
  BY <1>1, <1>2, OnceKept
<1>3. CASE stack' = <<f>> \o stack
  <2>1. f \in Frames /\ f.by = by /\ stack \in Seq(Frames)
    BY DEF Frames, IInv, TypeOK
  <2>2. Bottom(stack') = IF stack = <<>> THEN f ELSE Bottom(stack)
    BY <1>3, <2>1, BottomFrame
  <2> HIDE DEF f
  <2> QED BY <1>1, <2>1, <2>2 DEF OnceInv, AtMostOneSend, FirstSend
<1> QED BY <1>1, <1>2, <1>3

\* When the reconnection is over, setupCommand() sends again only for a
\* caller whose send was refused.
LEMMA OnceResume == ASSUME IInv, OnceInv, InitReturn PROVE OnceInv'
<1>1. /\ pc' \in {"throw", "setup", "leave"} /\ stack # <<>> /\ stack' = Tail(stack)
      /\ pc' = "setup" => stack[1].by = "send"
      /\ sent' = sent /\ stack \in Seq(Frames)
  BY DEF InitReturn, Resume, call, IInv, TypeOK, StackMatchesPc
<1>2. /\ stack' = <<>> => Bottom(stack) = stack[1]
      /\ stack' # <<>> => Bottom(stack') = Bottom(stack)
  BY <1>1, BottomFrame
<1> QED BY <1>1, <1>2 DEF OnceInv, AtMostOneSend, FirstSend

\* The queries of init() and an exception that leaves it change only the
\* innermost activation.
LEMMA OnceInInit ==
    ASSUME IInv, OnceInv, Options \/ QueryDone \/ Unwind
    PROVE  OnceInv'
<1>1. /\ pc' \in {"throw", "initret", "leave", "setup"} /\ sent' = sent
      /\ stack \in Seq(Frames)
      /\ \/ stack' = stack /\ (pc' = "setup" => stack # <<>>)
         \/ stack # <<>> /\ stack' = Tail(stack) /\ pc' = "throw"
         \/ \E x : stack # <<>> /\ stack' = [stack EXCEPT ![1].q = x]
  BY DEF Options, QueryDone, Unwind, call, IInv, TypeOK, StackMatchesPc
<1>2. CASE stack' = stack
  BY <1>1, <1>2 DEF OnceInv, AtMostOneSend, FirstSend
<1>3. CASE stack # <<>> /\ stack' = Tail(stack) /\ pc' = "throw"
  <2>1. stack' # <<>> => Bottom(stack') = Bottom(stack)
    BY <1>1, <1>3, BottomFrame
  <2> QED BY <1>1, <1>3, <2>1 DEF OnceInv, AtMostOneSend, FirstSend
<1>4. ASSUME NEW x, stack # <<>>, stack' = [stack EXCEPT ![1].q = x]
      PROVE  OnceInv'
  <2>1. stack' # <<>> /\ Bottom(stack').by = Bottom(stack).by
    BY <1>1, <1>4, BottomFrame
  <2> QED BY <1>1, <1>4, <2>1 DEF OnceInv, AtMostOneSend, FirstSend
<1> QED BY <1>1, <1>2, <1>3, <1>4

\* Every step keeps the invariant.
LEMMA OnceInductive == IInv /\ OnceInv /\ [Next]_vars => OnceInv'
<1> SUFFICES ASSUME IInv, OnceInv, [Next]_vars PROVE OnceInv'
  OBVIOUS
<1>1. CASE SessionLost \/ ServerBack \/ Stopped \/ UNCHANGED vars
  <2>1. UNCHANGED <<sent, stack, pc>>
    BY <1>1 DEF SessionLost, ServerBack, Stopped, vars, call
  <2> QED BY <2>1, OnceKept
<1>2. CASE Client
  BY <1>2, OnceAtStart
<1>3. CASE SetupCommand \/ SendFailed \/ ReadResult \/ ReadFails \/ ReadSkipped
           \/ CancelAfterFail \/ Fetch \/ Connect \/ DestroyCommand \/ Return
  <2>1. sent' = sent /\ stack' = stack
    BY <1>3 DEF SetupCommand, SendFailed, ReadResult, ReadFails, ReadSkipped,
                CancelAfterFail, Fetch, Connect, DestroyCommand, Return, call
  <2>2. \/ pc' \notin {"direct", "setup", "send", "caught", "lost_send"}
        \/ pc' = pc
        \/ pc' # "direct" /\ pc \in {"setup", "send", "caught"}
    BY <1>3 DEF SetupCommand, SendFailed, ReadResult, ReadFails, ReadSkipped,
                CancelAfterFail, Fetch, Connect, DestroyCommand, Return
  <2> QED BY <2>1, <2>2, OnceKept
<1>4. CASE Send \/ DirectExecute
  BY <1>4, OnceSend
<1>5. CASE \E by \in {"send", "read"} : CloseForReconnect(by)
  BY <1>5, OnceReconnect
<1>6. CASE InitReturn \/ Options \/ QueryDone \/ Unwind
  BY <1>6, OnceResume, OnceInInit
<1> QED BY <1>1, <1>2, <1>3, <1>4, <1>5, <1>6 DEF Next, Driver

\* Whatever fails and however often the driver reconnects, recursively or
\* not, one call of the client sends its text to the server at most once.
THEOREM SentOnce == Spec => []AtMostOneSend
<1>1. Init => OnceInv
  BY DEF Init, OnceInv, AtMostOneSend, FirstSend
<1>2. OnceInv => AtMostOneSend
  BY DEF OnceInv
<1> QED BY <1>1, <1>2, Invariance, OnceInductive, PTL DEF Spec

-----------------------------------------------------------------------------
(* A lost transaction is reported.                                         *)

\* Where init() is in its queries, after a push, a pop or a query that starts.
LEMMA QueriesOnStack ==
    ASSUME NEW st \in Seq(Frames), NEW Q,
           \A i \in 1..Len(st) : st[i].q \in Q
    PROVE  /\ \A f \in Frames : f.q \in Q =>
                \A i \in 1..Len(<<f>> \o st) : (<<f>> \o st)[i].q \in Q
           /\ st # <<>> => \A i \in 1..Len(Tail(st)) : Tail(st)[i].q \in Q
           /\ \A x \in Q : \A i \in 1..Len([st EXCEPT ![1].q = x]) :
                [st EXCEPT ![1].q = x][i].q \in Q
<1>0. Len(st) \in Nat /\ DOMAIN st = 1..Len(st)
  BY LenProperties
<1>1. ASSUME NEW f \in Frames, f.q \in Q
      PROVE  \A i \in 1..Len(<<f>> \o st) : (<<f>> \o st)[i].q \in Q
  <2>1. /\ Len(<<f>> \o st) = 1 + Len(st)
        /\ \A i \in 1..Len(<<f>> \o st) :
             (<<f>> \o st)[i] = IF i = 1 THEN f ELSE st[i - 1]
    BY <1>0, ConcatProperties
  <2> QED BY <1>0, <1>1, <2>1
<1>2. ASSUME st # <<>>
      PROVE  \A i \in 1..Len(Tail(st)) : Tail(st)[i].q \in Q
  <2>1. /\ Len(Tail(st)) = Len(st) - 1
        /\ \A i \in 1..Len(Tail(st)) : Tail(st)[i] = st[i + 1]
    BY <1>2, HeadTailProperties
  <2> QED BY <1>0, <2>1
<1>3. ASSUME NEW x \in Q
      PROVE  \A i \in 1..Len([st EXCEPT ![1].q = x]) : [st EXCEPT ![1].q = x][i].q \in Q
  <2>1. DOMAIN [st EXCEPT ![1].q = x] = 1..Len(st)
    BY <1>0
  <2>2. Len([st EXCEPT ![1].q = x]) = Len(st)
    BY <1>0, <2>1
  <2>3. \A i \in 1..Len(st) : st[i] \in Frames
    BY <1>0, ElementOfSeq
  <2> QED BY <1>0, <2>1, <2>2, <2>3 DEF Frames
<1> QED BY <1>1, <1>2, <1>3

\* A call starts with no loss, on an open Datasource unless it is sybase_open().
LEMMA LostAtStart == ASSUME IInv, LostInv, Client PROVE LostInv'
<1>1. /\ txLost' = FALSE /\ pc = "idle" /\ stack = <<>>
      /\ ds' = ds \/ ds' = Closed
  BY DEF Client, Open, CloseDatasource, Select, EndTransaction, Prepare, CloseStatement,
         Exec, Next_, Begin, IInv, StackMatchesPc, Halted
<1>2. \/ op' = "open" /\ ~ds.open /\ ds' = ds
      \/ pc' \in {"idle"} \cup Halted /\ stack' = stack
      \/ ds.open /\ ds' = ds /\ stack' = stack
  BY <1>1 DEF Client, Open, CloseDatasource, Select, EndTransaction, Prepare,
         CloseStatement, Exec, Next_, Begin, InService, Halted
<1>3. ~Closed.inTx
  BY DEF Closed
<1> QED BY <1>1, <1>2, <1>3
    DEF LostInv, TransactionIsOpen, LossIsPending, NothingClearsIt, Running

\* Steps inside a call that keep a pending exception and do not touch the
\* Datasource or the stack.
LEMMA LossKept ==
    ASSUME LostInv, Running, pc' # "idle",
           UNCHANGED <<stack, ds, op, txLost>>, xsink => xsink'
    PROVE  LostInv'
BY DEF LostInv, TransactionIsOpen, LossIsPending, NothingClearsIt, Running

\* closeAndReconnect() raises the exception itself, before it calls init().
LEMMA LostReconnect ==
    ASSUME IInv, LostInv, NEW by \in {"send", "read"}, CloseForReconnect(by)
    PROVE  LostInv'
<1> DEFINE f == [by |-> by, q |-> "none"]
<1>1. /\ Running /\ pc' \in {"throw", "assert", "connect"} /\ UNCHANGED <<ds, op>>
      /\ \/ UNCHANGED <<stack, xsink, txLost>>
         \/ /\ xsink' = WithTransactionError(xsink) /\ txLost' = (txLost \/ ds.inTx)
            /\ stack' = <<f>> \o stack
  BY DEF CloseForReconnect, Running, Halted
<1>2. CASE UNCHANGED <<stack, xsink, txLost>>
  BY <1>1, <1>2, LossKept
<1>3. CASE /\ xsink' = WithTransactionError(xsink) /\ txLost' = (txLost \/ ds.inTx)
           /\ stack' = <<f>> \o stack
  <2>1. f \in Frames /\ f.q \in {"none", "version"} /\ stack \in Seq(Frames)
    BY DEF Frames, IInv, TypeOK
  <2>2. ASSUME txLost'
        PROVE  \A i \in 1..Len(stack') : stack'[i].q \in {"none", "version"}
    <3>1. \A i \in 1..Len(stack) : stack[i].q \in {"none", "version"}
      <4>1. CASE stack = <<>>
        BY <4>1
      <4>2. CASE stack # <<>>
        BY <1>1, <1>3, <2>2, <4>2 DEF LostInv, NothingClearsIt
      <4> QED BY <4>1, <4>2
    <3> HIDE DEF f
    <3> QED BY <1>3, <2>1, <3>1, QueriesOnStack
  <2> QED BY <1>1, <1>3, <2>2
      DEF LostInv, TransactionIsOpen, LossIsPending, NothingClearsIt, Running,
          WithTransactionError
<1> QED BY <1>1, <1>2, <1>3

\* init() goes from query to query only while no exception is pending, so a
\* pending loss is neither cleared with the errors of the code page query nor
\* caught with them.
LEMMA LostInInit ==
    ASSUME IInv, LostInv, Options \/ QueryDone \/ Unwind
    PROVE  LostInv'
<1>1. /\ Running /\ pc' \in {"throw", "initret", "leave", "setup"}
      /\ UNCHANGED <<ds, op, txLost>> /\ stack \in Seq(Frames)
  BY DEF Options, QueryDone, Unwind, call, IInv, TypeOK, Running, Halted
<1>2. CASE ~txLost
  <2>1. stack' # <<>> => stack # <<>>
    BY EmptySeq DEF Options, QueryDone, Unwind, IInv, StackMatchesPc
  <2> QED BY <1>1, <1>2, <2>1
      DEF LostInv, TransactionIsOpen, LossIsPending, NothingClearsIt, Running
<1>3. CASE txLost
  <2>1. xsink /\ \A i \in 1..Len(stack) : stack[i].q \in {"none", "version"}
    BY <1>1, <1>3 DEF LostInv, LossIsPending, NothingClearsIt
  <2>2. stack # <<>> => stack[1].q # "codepage"
    <3>1. stack # <<>> => Len(stack) \in Nat /\ Len(stack) >= 1
      BY <1>1, EmptySeq, LenProperties
    <3> QED BY <2>1, <3>1
  <2>3. /\ xsink'
        /\ \/ stack' = stack
           \/ stack # <<>> /\ stack' = Tail(stack)
           \/ stack' = [stack EXCEPT ![1].q = "version"]
    BY <2>1, <2>2 DEF Options, QueryDone, Unwind, ErrorStays, PurgeInInit
  <2>4. \A i \in 1..Len(stack') : stack'[i].q \in {"none", "version"}
    <3>1. "version" \in {"none", "version"}
      OBVIOUS
    <3> DEFINE Q == {"none", "version"}
    <3>2. "version" \in Q /\ \A i \in 1..Len(stack) : stack[i].q \in Q
      BY <2>1
    <3> HIDE DEF Q
    <3>3. \A i \in 1..Len(stack') : stack'[i].q \in Q
      BY <1>1, <2>3, <3>2, QueriesOnStack
    <3> QED BY <3>3 DEF Q
  <2> QED BY <1>1, <1>3, <2>3, <2>4
      DEF LostInv, TransactionIsOpen, LossIsPending, NothingClearsIt, Running
<1> QED BY <1>2, <1>3

\* The return of init() forgets one activation and no exception.
LEMMA LostResume == ASSUME IInv, LostInv, InitReturn PROVE LostInv'
<1>1. /\ Running /\ pc' \in {"throw", "setup", "leave"} /\ UNCHANGED <<op, xsink, txLost>>
      /\ ds'.open = ds.open /\ ds'.inTx = ds.inTx
      /\ stack # <<>> /\ stack' = Tail(stack) /\ stack \in Seq(Frames)
  BY DEF InitReturn, Resume, call, Running, Halted, IInv, TypeOK, StackMatchesPc
<1>2. (\A i \in 1..Len(stack) : stack[i].q \in {"none", "version"}) =>
        \A i \in 1..Len(stack') : stack'[i].q \in {"none", "version"}
  BY <1>1, QueriesOnStack
<1> QED BY <1>1, <1>2
    DEF LostInv, TransactionIsOpen, LossIsPending, NothingClearsIt, Running

\* The callback returns with the pending exception; only an open Datasource
\* enters a transaction.
LEMMA LostReturn == ASSUME IInv, LostInv, Return PROVE LostInv'
<1>1. /\ Running /\ pc' = "idle" /\ stack' = <<>>
      /\ rv' = (IF xsink THEN "err" ELSE "ok")
      /\ UNCHANGED <<op, xsink, txLost>>
  BY DEF Return, Running, Halted
<1>2. ds'.inTx => ds'.open
  <2>1. PICK begun \in BOOLEAN :
         ds' = CASE op = "open" -> [Closed EXCEPT !.open = ~xsink]
                 [] op \in {"select", "exec"} ->
                        [ds EXCEPT !.inTx = @ \/ (begun /\ ~xsink)]
                 [] op \in {"commit", "rollback"} -> [ds EXCEPT !.inTx = FALSE]
                 [] OTHER -> ds
    BY DEF Return
  <2>2. CASE op = "open"
    BY <2>1, <2>2 DEF Closed
  <2>3. CASE op # "open"
    <3>1. ds.open
      BY <1>1, <2>3 DEF LostInv, TransactionIsOpen
    <3>2. ds'.open = ds.open
      BY <2>1, <2>3 DEF IInv, TypeOK
    <3> QED BY <3>1, <3>2
  <2> QED BY <2>2, <2>3
<1> QED BY <1>1, <1>2
    DEF LostInv, TransactionIsOpen, LossIsPending, NothingClearsIt, Running

\* Every step keeps the invariant.
LEMMA LostInductive == IInv /\ LostInv /\ [Next]_vars => LostInv'
<1> SUFFICES ASSUME IInv, LostInv, [Next]_vars PROVE LostInv'
  OBVIOUS
<1>1. CASE SessionLost \/ ServerBack \/ Stopped \/ UNCHANGED vars
  <2>1. UNCHANGED <<stack, ds, op, txLost, xsink, pc, rv>>
    BY <1>1 DEF SessionLost, ServerBack, Stopped, vars, call
  <2> QED BY <2>1
      DEF LostInv, TransactionIsOpen, LossIsPending, NothingClearsIt, Running
<1>2. CASE Client
  BY <1>2, LostAtStart
<1>3. CASE SetupCommand \/ Send \/ SendFailed \/ ReadResult \/ ReadFails \/ ReadSkipped
           \/ CancelAfterFail \/ Fetch \/ DirectExecute \/ Connect \/ DestroyCommand
  <2>1. UNCHANGED <<stack, ds, op, txLost>>
    BY <1>3 DEF SetupCommand, Send, SendFailed, ReadResult, ReadFails, ReadSkipped,
                CancelAfterFail, Fetch, DirectExecute, Connect, DestroyCommand, call
  <2>2. Running /\ pc' # "idle"
    BY <1>3 DEF SetupCommand, Send, SendFailed, ReadResult, ReadFails, ReadSkipped,
                CancelAfterFail, Fetch, DirectExecute, Connect, DestroyCommand,
                Running, Halted
  <2>3. xsink' = xsink \/ xsink' = TRUE \/ ~xsink
    BY <1>3 DEF SetupCommand, Send, SendFailed, ReadResult, ReadFails, ReadSkipped,
                CancelAfterFail, Fetch, DirectExecute, Connect, DestroyCommand
  <2> QED BY <2>1, <2>2, <2>3, LossKept
<1>4. CASE \E by \in {"send", "read"} : CloseForReconnect(by)
  BY <1>4, LostReconnect
<1>5. CASE InitReturn \/ Options \/ QueryDone \/ Unwind
  BY <1>5, LostResume, LostInInit
<1>6. CASE Return
  BY <1>6, LostReturn
<1> QED BY <1>1, <1>2, <1>3, <1>4, <1>5, <1>6 DEF Next, Driver

\* A call that replaced the session during a transaction never reports
\* success, however deep the reconnections nested and whatever came after.
THEOREM LossReported == Spec => []LostTransactionIsReported
<1>1. Init => LostInv
  BY DEF Init, Closed, LostInv, TransactionIsOpen, LossIsPending, NothingClearsIt, Running
<1>2. LostInv => LostTransactionIsReported
  BY DEF LostInv, LossIsPending, LostTransactionIsReported
<1> QED BY <1>1, <1>2, Invariance, LostInductive, PTL DEF Spec

-----------------------------------------------------------------------------
(* Nothing is sent over pending results.                                   *)

\* What dropping and canceling do to a command that ends with nothing pending.
LEMMA CommandEnds ==
    ASSUME NEW c \in Commands, c.last = "END" => ~c.pend
    PROVE  /\ ~Dropped(c).pend
           /\ ~Canceled(c).pend
BY DEF Commands, Dropped, Canceled

\* Replacing the context of one statement.
LEMMA ContextEnds ==
    ASSUME NEW w \in [Stmts -> Wraps], NothingAfterEnd(w), NEW s,
           NEW c \in Commands, c.last = "END" => ~c.pend
    PROVE  NothingAfterEnd([w EXCEPT ![s].ctx = c])
<1> SUFFICES ASSUME NEW t \in Stmts
             PROVE  LET d == [w EXCEPT ![s].ctx = c][t].ctx IN d.last = "END" => ~d.pend
  BY DEF NothingAfterEnd
<1>1. CASE t = s
  BY <1>1 DEF Wraps
<1>2. CASE t # s
  BY <1>2 DEF NothingAfterEnd
<1> QED BY <1>1, <1>2

\* Statement::invalidate() leaves nothing pending, ct_con_drop() changes only
\* the handles.
LEMMA InvalidatedEnds ==
    ASSUME NEW w \in [Stmts -> Wraps], NothingAfterEnd(w)
    PROVE  /\ NothingAfterEnd(InvalidatedIn(w))
           /\ NothingAfterEnd(Detached(InvalidatedIn(w)))
<1> DEFINE v == InvalidatedIn(w)
<1>1. v \in [Stmts -> Wraps]
  BY InvalidatedType
<1>2. NothingAfterEnd(v)
  <2> SUFFICES ASSUME NEW s \in Stmts PROVE v[s].ctx.last = "END" => ~v[s].ctx.pend
    BY DEF NothingAfterEnd
  <2>1. w[s] \in Wraps /\ w[s].ctx \in Commands /\ (w[s].ctx.last = "END" => ~w[s].ctx.pend)
    BY DEF NothingAfterEnd, Wraps
  <2>2. ~Dropped(w[s].ctx).pend
    BY <2>1, CommandEnds
  <2>3. v[s].ctx = w[s].ctx \/ v[s].ctx = Dropped(w[s].ctx)
    BY <2>1 DEF InvalidatedIn, Wraps
  <2> QED BY <2>1, <2>2, <2>3
<1> HIDE DEF v
<1>3. NothingAfterEnd(Detached(v))
  <2> SUFFICES ASSUME NEW s \in Stmts
               PROVE  Detached(v)[s].ctx.last = "END" => ~Detached(v)[s].ctx.pend
    BY DEF NothingAfterEnd
  <2>1. v[s] \in Wraps /\ (v[s].ctx.last = "END" => ~v[s].ctx.pend)
    BY <1>1, <1>2 DEF NothingAfterEnd
  <2> QED BY <2>1 DEF Detached, Wraps, Commands
<1> QED BY <1>2, <1>3 DEF v

\* A step that goes elsewhere than to where commands are sent.
LEMMA QuietElsewhere ==
    ASSUME NothingAfterEnd(wrap'), pc' \notin {"setup", "send", "direct"}
    PROVE  QuietInv'
BY DEF QuietInv

\* Steps that leave the statements alone.
LEMMA QuietUntouched ==
    ASSUME QuietInv, wrap' = wrap,
           \/ pc' \notin {"setup", "send", "direct"}
           \/ pc' = pc /\ cmd' = cmd
    PROVE  QuietInv'
BY DEF QuietInv

\* A call starts on a quiet connection: select() invalidates the registered
\* statement, which is the only valid one, exec() cancels its own command,
\* commit() and rollback() cancel everything on the connection.
LEMMA QuietAtStart == ASSUME IInv, QuietInv, Client PROVE QuietInv'
<1>0. /\ wrap \in [Stmts -> Wraps] /\ NothingAfterEnd(wrap)
      /\ \A s \in Stmts : wrap[s].ctx \in Commands
      /\ NothingAfterEnd(InvalidatedIn(wrap))
      /\ NothingAfterEnd(Detached(InvalidatedIn(wrap)))
  BY InvalidatedEnds DEF IInv, TypeOK, QuietInv, Wraps
<1>1. CASE Open \/ \E s \in Stmts : Next_(s)
  BY <1>1, QuietUntouched DEF Open, Next_
<1>2. CASE CloseDatasource
  <2>1. /\ wrap' = wrap \/ wrap' = Detached(InvalidatedIn(wrap))
        /\ pc' \in {"idle", "terminated"}
    BY <1>2 DEF CloseDatasource, Begin
  <2> QED BY <1>0, <2>1, QuietElsewhere
<1>3. ASSUME NEW s \in Stmts, Prepare(s) \/ CloseStatement(s)
      PROVE  QuietInv'
  <2>1. /\ pc' \in {"idle", "assert", "terminated", "dangling", "escaped"}
        /\ \/ wrap' = wrap
           \/ \E v \in {wrap, InvalidatedIn(wrap)}, x \in {NewWrap, NoWrap} :
                wrap' = [v EXCEPT ![s] = x]
    BY <1>3 DEF Prepare, CloseStatement, Begin
  <2>2. ASSUME NEW v \in [Stmts -> Wraps], NothingAfterEnd(v), NEW x \in {NewWrap, NoWrap}
        PROVE  NothingAfterEnd([v EXCEPT ![s] = x])
    BY <2>2 DEF NothingAfterEnd, NewWrap, NoWrap, NoCmd
  <2>3. InvalidatedIn(wrap) \in [Stmts -> Wraps]
    BY <1>0, InvalidatedType
  <2> QED BY <1>0, <2>1, <2>2, <2>3, QuietElsewhere
<1>4. CASE Select
  <2>1. CASE ThrowsIn(wrap)
    BY <1>0, <1>4, <2>1, QuietElsewhere DEF Select
  <2>2. CASE ~ThrowsIn(wrap)
    <3>1. wrap' = InvalidatedIn(wrap) /\ pc' = "setup" /\ pc = "idle"
      BY <1>4, <2>2 DEF Select, Begin
    <3>2. Quiet(InvalidatedIn(wrap))
      BY <1>0, <3>1, NoneValid DEF Quiet, IInv, RegisteredIffValid, Halted
    <3> QED BY <1>0, <3>1, <3>2 DEF QuietInv
  <2> QED BY <2>1, <2>2
<1>5. ASSUME NEW s \in Stmts, Exec(s)
      PROVE  QuietInv'
  <2>1. CASE ~wrap[s].valid
    BY <1>0, <1>5, <2>1, QuietElsewhere DEF Exec
  <2>2. CASE wrap[s].valid
    <3> DEFINE c == IF wrap[s].ctx.h = "none" THEN wrap[s].ctx ELSE Canceled(wrap[s].ctx)
    <3>1. /\ wrap' = [wrap EXCEPT ![s].ctx = c, ![s].execed = FALSE]
          /\ pc' = "setup" /\ pc = "idle"
      BY <1>5, <2>2 DEF Exec
    <3>2. c \in Commands /\ (c.h = "none" \/ ~c.pend) /\ (c.last = "END" => ~c.pend)
      <4>1. wrap[s].ctx.last = "END" => ~wrap[s].ctx.pend
        BY <1>0 DEF NothingAfterEnd
      <4> QED BY <1>0, <4>1, CommandTypes, CommandEnds
    <3> HIDE DEF c
    <3>3. \A t \in Stmts \ {s} : ~wrap[t].valid
      BY <2>2, <3>1 DEF IInv, RegisteredIffValid, Halted
    <3>4. /\ wrap'[s].ctx = c
          /\ \A t \in Stmts \ {s} : wrap'[t] = wrap[t]
      BY <1>0, <3>1, <3>2 DEF Wraps
    <3>5. NothingAfterEnd(wrap')
      BY <1>0, <3>2, <3>4 DEF NothingAfterEnd
    <3>6. Quiet(wrap')
      BY <3>2, <3>3, <3>4 DEF Quiet
    <3> QED BY <3>1, <3>5, <3>6 DEF QuietInv
  <2> QED BY <2>1, <2>2
<1>6. ASSUME NEW o \in {"commit", "rollback"}, EndTransaction(o)
      PROVE  QuietInv'
  <2>1. TRUE \in CancelOutcomes
    BY DEF CancelOutcomes
  <2>2. /\ pc' = "direct"
        /\ wrap' = [s \in Stmts |-> IF wrap[s].ctx.h = "cur"
                                    THEN [wrap[s] EXCEPT !.ctx.pend = FALSE]
                                    ELSE wrap[s]]
    BY <1>6, <2>1 DEF EndTransaction
  <2>3. \A s \in Stmts : /\ wrap'[s].ctx.pend = FALSE \/ wrap'[s] = wrap[s]
                         /\ wrap[s].ctx.h = "cur" => ~wrap'[s].ctx.pend
                         /\ wrap'[s].ctx.h = wrap[s].ctx.h
    BY <1>0, <2>2 DEF Wraps, Commands
  <2>4. NothingAfterEnd(wrap') /\ Quiet(wrap')
    BY <1>0, <2>3 DEF NothingAfterEnd, Quiet
  <2> QED BY <2>2, <2>4 DEF QuietInv
<1> QED BY <1>1, <1>2, <1>3, <1>4, <1>5, <1>6 DEF Client

\* Inside init() no statement is valid, so the connection is quiet for its
\* queries and for the send that is tried again.
LEMMA QuietInInit ==
    ASSUME IInv, QuietInv, Options \/ QueryDone \/ InitReturn
    PROVE  QuietInv'
<1>1. /\ wrap' = wrap /\ pc' \in {"throw", "initret", "leave", "setup"}
      /\ stack # <<>> /\ pc \notin Halted
  BY DEF Options, QueryDone, InitReturn, Resume, IInv, StackMatchesPc, Halted
<1>2. Quiet(wrap)
  BY <1>1, ConstantsAssumption DEF Quiet, IInv, NoStmtInInit, RegisteredIffValid
<1> QED BY <1>1, <1>2 DEF QuietInv

\* exec() stores the command it has sent in its statement: a command from
\* which nothing has been read.
LEMMA QuietSend == ASSUME IInv, QuietInv, SetupCommand \/ Send PROVE QuietInv'
<1>1. CASE SetupCommand
  <2>1. NothingAfterEnd(wrap) /\ wrap \in [Stmts -> Wraps]
    BY DEF QuietInv, IInv, TypeOK
  <2>2. CASE pc' = "leave"
    <3>1. NoCmd \in Commands /\ (NoCmd.last = "END" => ~NoCmd.pend)
      BY DEF NoCmd, Commands, ResTypes
    <3>2. wrap' = wrap \/ wrap' = [wrap EXCEPT ![who].ctx = NoCmd]
      BY <1>1 DEF SetupCommand
    <3>3. NothingAfterEnd(wrap')
      BY <2>1, <3>1, <3>2, ContextEnds
    <3> QED BY <2>2, <3>3, QuietElsewhere
  <2>3. CASE pc' # "leave"
    <3>1. /\ pc = "setup" /\ wrap' = wrap /\ cmd' = NewCmd /\ pc' \in {"send", "throw"}
      BY <1>1, <2>3 DEF SetupCommand
    <3> QED BY <3>1 DEF QuietInv, NewCmd
  <2> QED BY <2>2, <2>3
<1>2. CASE Send
  <2> DEFINE c == [cmd EXCEPT !.pend = TRUE]
  <2>1. c \in Commands /\ c.last = "NONE"
    BY <1>2, CommandTypes DEF Send, QuietInv, IInv, TypeOK, Commands
  <2>2. /\ pc' \in {"read", "caught"}
        /\ wrap' = wrap \/ wrap' = [wrap EXCEPT ![who].ctx = c]
    BY <1>2 DEF Send
  <2> HIDE DEF c
  <2>3. NothingAfterEnd(wrap')
    BY <2>1, <2>2, ContextEnds DEF QuietInv, IInv, TypeOK
  <2> QED BY <2>2, <2>3, QuietElsewhere
<1> QED BY <1>1, <1>2

\* What is read from a command, and a cancel that failed, may leave results
\* pending, but then lastRes does not say RES_END.
LEMMA QuietRead ==
    ASSUME IInv, QuietInv, ReadResult \/ ReadFails \/ CancelAfterFail
    PROVE  QuietInv'
<1>1. Active \in Commands /\ wrap \in [Stmts -> Wraps] /\ NothingAfterEnd(wrap)
  BY ActiveType DEF QuietInv, IInv, TypeOK
<1>2. pc' \in {"leave", "fetch", "canceling", "throw", "lost_read"}
  BY DEF ReadResult, ReadFails, CancelAfterFail
<1>3. \E c \in Commands : (c.last = "END" => ~c.pend) /\ SetActive(c)
  <2>1. CASE ReadResult
    <3>1. \E r \in ResultTypes \cup {"END"} :
            SetActive([Active EXCEPT !.last = r, !.pend = r # "END"])
      <4>1. CASE UsesContext
        BY <2>1, <4>1 DEF ReadResult
      <4>2. CASE ~UsesContext
        <5>1. SetActive([Active EXCEPT !.last = "END", !.pend = FALSE])
          BY <2>1, <4>2 DEF ReadResult
        <5>2. FALSE = ("END" # "END")
          OBVIOUS
        <5> QED BY <5>1, <5>2
      <4> QED BY <4>1, <4>2
    <3>2. PICK r \in ResultTypes \cup {"END"} :
            SetActive([Active EXCEPT !.last = r, !.pend = r # "END"])
      BY <3>1
    <3> DEFINE b == r # "END"
    <3>3. b \in BOOLEAN
      OBVIOUS
    <3>4. SetActive([Active EXCEPT !.last = r, !.pend = b]) /\ (r = "END" => ~b)
      BY <3>2
    <3> HIDE DEF b
    <3>5. /\ [Active EXCEPT !.last = r, !.pend = b] \in Commands
          /\ [Active EXCEPT !.last = r, !.pend = b].last = r
          /\ [Active EXCEPT !.last = r, !.pend = b].pend = b
      BY <1>1, <3>3 DEF Commands, ResTypes, ResultTypes
    <3> QED BY <3>4, <3>5
  <2>2. CASE ReadFails
    <3>1. PICK last \in {Active.last, "NONE"} : SetActive([Active EXCEPT !.last = last])
      BY <2>2 DEF ReadFails
    <3>2. Active.last \in {"NONE", "DONE"}
      BY <2>2 DEF ReadFails
    <3> QED BY <1>1, <3>1, <3>2 DEF Commands, ResTypes
  <2>3. CASE CancelAfterFail
    <3>1. PICK ok \in CancelOutcomes :
            SetActive([Active EXCEPT !.last = "ERROR", !.pend = @ /\ ~ok])
      BY <2>3 DEF CancelAfterFail
    <3> DEFINE b == Active.pend /\ ~ok
    <3>2. b \in BOOLEAN
      OBVIOUS
    <3>3. SetActive([Active EXCEPT !.last = "ERROR", !.pend = b])
      BY <3>1
    <3> HIDE DEF b
    <3> QED BY <1>1, <3>2, <3>3 DEF Commands, ResTypes
  <2> QED BY <2>1, <2>2, <2>3
<1>4. NothingAfterEnd(wrap')
  <2>1. PICK c \in Commands : (c.last = "END" => ~c.pend) /\ SetActive(c)
    BY <1>3
  <2>2. wrap' = wrap \/ wrap' = [wrap EXCEPT ![who].ctx = c]
    BY <2>1 DEF SetActive
  <2> QED BY <1>1, <2>1, <2>2, ContextEnds
<1> QED BY <1>2, <1>4, QuietElsewhere

\* Dropping a command and invalidating a statement leave nothing pending.
LEMMA QuietReconnect ==
    ASSUME IInv, QuietInv, NEW by \in {"send", "read"}, CloseForReconnect(by)
    PROVE  QuietInv'
<1> DEFINE inContext == UsesContext /\ by = "read"
           w == IF inContext THEN [wrap EXCEPT ![who].ctx = Dropped(@)] ELSE wrap
<1>1. /\ pc' \in {"throw", "assert", "connect"}
      /\ wrap' = w \/ wrap' = Detached(InvalidatedIn(w))
  BY DEF CloseForReconnect
<1>2. wrap \in [Stmts -> Wraps] /\ NothingAfterEnd(wrap)
  BY DEF QuietInv, IInv, TypeOK
<1>3. w \in [Stmts -> Wraps] /\ NothingAfterEnd(w)
  <2>1. CASE inContext
    <3>1. who \in Stmts /\ wrap[who].ctx \in Commands
      BY <1>2, <2>1 DEF UsesContext, IInv, CallHasStatement, Wraps
    <3> DEFINE c == Dropped(wrap[who].ctx)
    <3>2. c \in Commands /\ ~c.pend
      BY <3>1, CommandTypes DEF Dropped, Commands
    <3>3. w = [wrap EXCEPT ![who].ctx = c]
      BY <2>1
    <3> HIDE DEF c, w
    <3>4. w \in [Stmts -> Wraps]
      BY <1>2, <3>2, <3>3, ContextType
    <3>5. NothingAfterEnd(w)
      BY <1>2, <3>2, <3>3, ContextEnds
    <3> QED BY <3>4, <3>5
  <2>2. CASE ~inContext
    BY <1>2, <2>2
  <2> QED BY <2>1, <2>2
<1>4. NothingAfterEnd(Detached(InvalidatedIn(w)))
  BY <1>3, InvalidatedEnds
<1> QED BY <1>1, <1>3, <1>4, QuietElsewhere

\* The end of the rows, and the return of exec(), leave nothing pending that
\* was not.
LEMMA QuietMarked == ASSUME IInv, QuietInv, Fetch \/ Return PROVE QuietInv'
<1>1. wrap \in [Stmts -> Wraps] /\ NothingAfterEnd(wrap)
  BY DEF QuietInv, IInv, TypeOK
<1>2. pc' \in {"leave", "throw", "idle"}
  BY DEF Fetch, Return
<1>3. \/ wrap' = wrap
      \/ wrap' = [wrap EXCEPT ![who].ctx.last = "NONE"]
      \/ wrap' = [wrap EXCEPT ![who].execed = TRUE]
  BY DEF Fetch, Return
<1>4. NothingAfterEnd(wrap')
  <2>1. CASE wrap' = [wrap EXCEPT ![who].ctx.last = "NONE"]
    BY <1>1, <2>1 DEF NothingAfterEnd, Wraps, Commands
  <2>2. CASE wrap' = [wrap EXCEPT ![who].execed = TRUE]
    BY <1>1, <2>2 DEF NothingAfterEnd, Wraps
  <2> QED BY <1>1, <1>3, <2>1, <2>2
<1> QED BY <1>2, <1>4, QuietElsewhere

\* Every step keeps the invariant.
LEMMA QuietInductive == IInv /\ QuietInv /\ [Next]_vars => QuietInv'
<1> SUFFICES ASSUME IInv, QuietInv, [Next]_vars PROVE QuietInv'
  OBVIOUS
<1>1. CASE SessionLost \/ ServerBack \/ Stopped \/ UNCHANGED vars
  <2>1. UNCHANGED <<wrap, cmd, pc>>
    BY <1>1 DEF SessionLost, ServerBack, Stopped, vars
  <2> QED BY <2>1, QuietUntouched
<1>2. CASE Client
  BY <1>2, QuietAtStart
<1>3. CASE SendFailed \/ ReadSkipped \/ DirectExecute \/ Connect \/ DestroyCommand \/ Unwind
  <2>1. wrap' = wrap /\ pc' \notin {"setup", "send", "direct"}
    BY <1>3 DEF SendFailed, ReadSkipped, DirectExecute, Connect, DestroyCommand, Unwind
  <2> QED BY <2>1, QuietUntouched
<1>4. CASE SetupCommand \/ Send
  BY <1>4, QuietSend
<1>5. CASE ReadResult \/ ReadFails \/ CancelAfterFail
  BY <1>5, QuietRead
<1>6. CASE \E by \in {"send", "read"} : CloseForReconnect(by)
  BY <1>6, QuietReconnect
<1>7. CASE Options \/ QueryDone \/ InitReturn
  BY <1>7, QuietInInit
<1>8. CASE Fetch \/ Return
  BY <1>8, QuietMarked
<1> QED BY <1>1, <1>2, <1>3, <1>4, <1>5, <1>6, <1>7, <1>8 DEF Next, Driver

-----------------------------------------------------------------------------
(* Which statements can have a command on the present connection.          *)

\* Steps inside a call that give no invalid statement a command.
LEMMA OrphansKept ==
    ASSUME IInv, OrphanInv, UNCHANGED <<op, who>>, Executing' => Executing,
           \A s \in Stmts : /\ ValidOrOrphan(wrap[s]) => ValidOrOrphan(wrap'[s])
                            /\ wrap'[s].ctx.h = "cur" => \/ wrap[s].ctx.h = "cur"
                                                         \/ ValidOrOrphan(wrap'[s])
    PROVE  OrphanInv'
<1>1. Executing => who \in Stmts
  BY DEF IInv, CallHasStatement, Executing
<1> QED BY <1>1 DEF OrphanInv

\* Invalidating the registered statement takes its command away.
LEMMA InvalidatedHolds ==
    ASSUME NEW w \in [Stmts -> Wraps], NEW s \in Stmts
    PROVE  /\ Detached(InvalidatedIn(w))[s].ctx.h # "cur"
           /\ InvalidatedIn(w)[s].ctx.h = "cur" => InvalidatedIn(w)[s] = w[s] /\ s # stmt
           /\ ValidOrOrphan(w[s]) /\ (s = stmt => InOwnExec)
                => ValidOrOrphan(Detached(InvalidatedIn(w))[s])
<1>1. w[s] \in Wraps /\ w[s].ctx \in Commands /\ Dropped(w[s].ctx).h = "null"
  BY DEF Wraps, Commands, Dropped
<1>2. InvalidatedIn(w)[s] = IF s = stmt
                            THEN [w[s] EXCEPT !.valid = FALSE, !.ctx = Dropped(@),
                                              !.orphan = InOwnExec]
                            ELSE w[s]
  BY DEF InvalidatedIn
<1> DEFINE v == InvalidatedIn(w)[s]
<1>3. v \in Wraps /\ (v.ctx.h = "cur" => v = w[s] /\ s # stmt)
  <2>1. v \in Wraps
    BY InvalidatedType
  <2> QED BY <1>1, <1>2, <2>1 DEF Wraps
<1>4. ValidOrOrphan(w[s]) /\ (s = stmt => InOwnExec) => ValidOrOrphan(v)
  <2>1. CASE s = stmt
    <3>1. v.orphan = InOwnExec
      BY <1>1, <1>2, <2>1 DEF Wraps
    <3> QED BY <2>1, <3>1, Zenon DEF ValidOrOrphan
  <2>2. CASE s # stmt
    BY <1>2, <2>2
  <2> QED BY <2>1, <2>2
<1>5. Detached(InvalidatedIn(w))[s] = IF v.ctx.h = "cur" THEN [v EXCEPT !.ctx.h = "old"] ELSE v
  BY DEF Detached
<1> HIDE DEF v
<1>6. /\ Detached(InvalidatedIn(w))[s].ctx.h # "cur"
      /\ Detached(InvalidatedIn(w))[s].valid = v.valid
      /\ Detached(InvalidatedIn(w))[s].orphan = v.orphan
  BY <1>3, <1>5 DEF Wraps, Commands
<1> QED BY <1>3, <1>4, <1>6 DEF v, ValidOrOrphan

\* A call that starts: exec() goes on only with a valid statement.
LEMMA OrphansAtStart == ASSUME IInv, OrphanInv, Client PROVE OrphanInv'
<1>0. wrap \in [Stmts -> Wraps] /\ \A s \in Stmts : wrap[s] \in Wraps
  BY DEF IInv, TypeOK
<1>1. ASSUME NEW s \in Stmts, Exec(s)
      PROVE  OrphanInv'
  <2>1. CASE ~wrap[s].valid
    <3>1. wrap' = wrap /\ pc' = "leave" /\ stack' = <<>>
      BY <1>1, <2>1 DEF Exec, IInv, StackMatchesPc
    <3> QED BY <3>1 DEF OrphanInv, Executing
  <2>2. CASE wrap[s].valid
    <3> DEFINE c == IF wrap[s].ctx.h = "none" THEN wrap[s].ctx ELSE Canceled(wrap[s].ctx)
    <3>1. /\ wrap' = [wrap EXCEPT ![s].ctx = c, ![s].execed = FALSE]
          /\ who' = s
      BY <1>1, <2>2 DEF Exec
    <3>2. c \in Commands
      BY <1>0, CommandTypes DEF Wraps
    <3> HIDE DEF c
    <3>3. wrap'[s].valid /\ \A t \in Stmts \ {s} : wrap'[t] = wrap[t]
      BY <1>0, <2>2, <3>1, <3>2 DEF Wraps
    <3> QED BY <3>1, <3>3 DEF OrphanInv, ValidOrOrphan
  <2> QED BY <2>1, <2>2
<1>2. ASSUME ~(\E s \in Stmts : Exec(s))
      PROVE  OrphanInv'
  <2>1. op' # "exec"
    BY <1>2 DEF Client, Open, CloseDatasource, Select, EndTransaction, Prepare,
                CloseStatement, Next_, Begin
  <2>2. ASSUME NEW t \in Stmts, wrap'[t].ctx.h = "cur"
        PROVE  ValidOrOrphan(wrap'[t])
    <3>1. CASE wrap'[t] = wrap[t]
      BY <2>2, <3>1 DEF OrphanInv
    <3>2. CASE wrap'[t] \in {NewWrap, NoWrap, Detached(InvalidatedIn(wrap))[t]}
      BY <1>0, <2>2, <3>2, InvalidatedHolds DEF NewWrap, NoWrap, NoCmd
    <3>3. CASE wrap'[t] = InvalidatedIn(wrap)[t]
      BY <1>0, <2>2, <3>3, InvalidatedHolds DEF OrphanInv
    <3>4. CASE wrap'[t] = [wrap[t] EXCEPT !.ctx.pend = FALSE]
      <4>1. wrap'[t].ctx.h = wrap[t].ctx.h /\ wrap'[t].valid = wrap[t].valid
            /\ wrap'[t].orphan = wrap[t].orphan
        BY <1>0, <3>4 DEF Wraps, Commands
      <4> QED BY <2>2, <4>1 DEF OrphanInv, ValidOrOrphan
    <3>5. \/ wrap'[t] \in {wrap[t], NewWrap, NoWrap, Detached(InvalidatedIn(wrap))[t]}
          \/ wrap'[t] = InvalidatedIn(wrap)[t]
          \/ wrap'[t] = [wrap[t] EXCEPT !.ctx.pend = FALSE]
      <4>1. CASE Open \/ CloseDatasource \/ Select \/ \E s \in Stmts : Next_(s)
        BY <4>1 DEF Open, CloseDatasource, Select, Next_
      <4>2. CASE \E o \in {"commit", "rollback"} : EndTransaction(o)
        BY <4>2 DEF EndTransaction
      <4>3. ASSUME NEW s \in Stmts, Prepare(s) \/ CloseStatement(s)
            PROVE  wrap'[t] \in {wrap[t], NewWrap, NoWrap, InvalidatedIn(wrap)[t]}
        <5>1. \/ wrap' = wrap
              \/ wrap' = [wrap EXCEPT ![s] = NewWrap]
              \/ wrap' = [wrap EXCEPT ![s] = NoWrap]
              \/ wrap' = [InvalidatedIn(wrap) EXCEPT ![s] = NewWrap]
          BY <4>3 DEF Prepare, CloseStatement
        <5>2. InvalidatedIn(wrap) \in [Stmts -> Wraps]
          BY <1>0, InvalidatedType
        <5> QED BY <1>0, <5>1, <5>2
      <4> QED BY <1>2, <4>1, <4>2, <4>3 DEF Client
    <3> QED BY <3>1, <3>2, <3>3, <3>4, <3>5
  <2> QED BY <2>1, <2>2 DEF OrphanInv, Executing
<1> QED BY <1>1, <1>2

\* closeAndReconnect() in exec() marks the statement it invalidates.
LEMMA OrphansReconnect ==
    ASSUME IInv, OrphanInv, NEW by \in {"send", "read"}, CloseForReconnect(by)
    PROVE  OrphanInv'
<1> DEFINE inContext == UsesContext /\ by = "read"
           w == IF inContext THEN [wrap EXCEPT ![who].ctx = Dropped(@)] ELSE wrap
<1>1. /\ UNCHANGED <<op, who>> /\ pc \in {"lost_send", "lost_read"}
      /\ wrap' = w \/ wrap' = Detached(InvalidatedIn(w))
  BY DEF CloseForReconnect
<1>2. /\ w \in [Stmts -> Wraps]
      /\ \A t \in Stmts : /\ w[t].ctx.h = "cur" => w[t] = wrap[t]
                          /\ w[t].valid = wrap[t].valid /\ w[t].orphan = wrap[t].orphan
  <2>1. wrap \in [Stmts -> Wraps]
    BY DEF IInv, TypeOK
  <2>2. CASE inContext
    <3>1. who \in Stmts /\ wrap[who].ctx \in Commands
      BY <2>1, <2>2 DEF UsesContext, IInv, CallHasStatement, Wraps
    <3>2. Dropped(wrap[who].ctx) \in Commands /\ Dropped(wrap[who].ctx).h = "null"
      BY <3>1, CommandTypes DEF Dropped, Commands
    <3>3. w = [wrap EXCEPT ![who].ctx = Dropped(wrap[who].ctx)]
      BY <2>2
    <3> HIDE DEF w
    <3> QED BY <2>1, <3>2, <3>3 DEF Wraps
  <2>3. CASE ~inContext
    BY <2>1, <2>3
  <2> QED BY <2>2, <2>3
<1> HIDE DEF w
<1>3. \A t \in Stmts : w[t].ctx.h = "cur" => ValidOrOrphan(w[t])
  BY <1>2 DEF OrphanInv
<1>4. Executing => who \in Stmts /\ ValidOrOrphan(w[who]) /\ InOwnExec
  BY <1>1, <1>2 DEF OrphanInv, ValidOrOrphan, Executing, InOwnExec, IInv, CallHasStatement
<1>5. Executing' => Executing
  BY <1>1 DEF Executing, Halted
<1>6. CASE wrap' = w
  BY <1>1, <1>3, <1>4, <1>5, <1>6 DEF OrphanInv
<1>7. CASE wrap' = Detached(InvalidatedIn(w))
  BY <1>1, <1>2, <1>4, <1>5, <1>7, InvalidatedHolds DEF OrphanInv
<1> QED BY <1>1, <1>6, <1>7

\* exec() stores the command it has sent in its own statement.
LEMMA OrphansSend == ASSUME IInv, OrphanInv, SetupCommand \/ Send PROVE OrphanInv'
<1>1. /\ wrap \in [Stmts -> Wraps] /\ UNCHANGED <<op, who, stack>>
      /\ pc \in {"setup", "send"} /\ (pc' = "leave" => stack = <<>> \/ wrap' = wrap)
      /\ cmd \in Commands
  BY DEF SetupCommand, Send, IInv, TypeOK, call
<1>2. \/ wrap' = wrap
      \/ \E c \in Commands : /\ wrap' = [wrap EXCEPT ![who].ctx = c]
                             /\ Executing \/ c.h # "cur"
  <2>1. CASE SetupCommand
    <3>1. NoCmd \in Commands /\ NoCmd.h # "cur"
      BY DEF NoCmd, Commands, ResTypes
    <3> QED BY <2>1, <3>1 DEF SetupCommand
  <2>2. CASE Send
    <3> DEFINE c == [cmd EXCEPT !.pend = TRUE]
    <3>1. c \in Commands
      BY <1>1, CommandTypes
    <3>2. wrap' = wrap \/ (wrap' = [wrap EXCEPT ![who].ctx = c] /\ op = "exec")
      BY <2>2 DEF Send
    <3>3. op = "exec" => Executing
      BY <1>1, <2>2 DEF Executing, Send, Halted
    <3> QED BY <3>1, <3>2, <3>3
  <2> QED BY <2>1, <2>2
<1>3. Executing' => Executing
  BY <1>1 DEF Executing, Halted
<1>4. CASE wrap' = wrap
  BY <1>1, <1>3, <1>4, OrphansKept
<1>5. ASSUME NEW c \in Commands, wrap' = [wrap EXCEPT ![who].ctx = c],
             Executing \/ c.h # "cur"
      PROVE  OrphanInv'
  <2>1. \A t \in Stmts : /\ wrap'[t].valid = wrap[t].valid
                         /\ wrap'[t].orphan = wrap[t].orphan
                         /\ t = who => wrap'[t].ctx = c
                         /\ t # who => wrap'[t] = wrap[t]
    BY <1>1, <1>5 DEF Wraps
  <2> QED BY <1>1, <1>3, <1>5, <2>1, OrphansKept DEF OrphanInv, ValidOrOrphan
<1> QED BY <1>2, <1>4, <1>5

\* Reading, and the end of a call, give no statement a command.
LEMMA OrphansRead ==
    ASSUME IInv, OrphanInv,
           ReadResult \/ ReadFails \/ CancelAfterFail \/ Fetch \/ Return
    PROVE  OrphanInv'
<1>1. /\ wrap \in [Stmts -> Wraps] /\ UNCHANGED <<op, who, stack>>
      /\ Executing' => Executing
  BY DEF ReadResult, ReadFails, CancelAfterFail, Fetch, Return, call, Executing, Halted,
         IInv, TypeOK
<1>2. \A t \in Stmts : /\ wrap'[t].valid = wrap[t].valid
                       /\ wrap'[t].orphan = wrap[t].orphan
                       /\ wrap'[t].ctx.h = wrap[t].ctx.h
  <2>1. CASE ReadResult \/ ReadFails \/ CancelAfterFail
    <3>1. PICK c \in Commands : c.h = Active.h /\ SetActive(c)
      BY <2>1, ReadSets
    <3>2. wrap' = wrap \/ (wrap' = [wrap EXCEPT ![who].ctx = c] /\ c.h = wrap[who].ctx.h)
      BY <3>1 DEF SetActive, Active
    <3> QED BY <1>1, <3>2 DEF Wraps
  <2>2. CASE Fetch \/ Return
    <3>1. \/ wrap' = wrap
          \/ wrap' = [wrap EXCEPT ![who].ctx.last = "NONE"]
          \/ wrap' = [wrap EXCEPT ![who].execed = TRUE]
      BY <2>2 DEF Fetch, Return
    <3> QED BY <1>1, <3>1, MarkedType
  <2> QED BY <2>1, <2>2
<1> QED BY <1>1, <1>2, OrphansKept DEF ValidOrOrphan

\* Every step keeps it.
LEMMA OrphansInductive == IInv /\ OrphanInv /\ [Next]_vars => OrphanInv'
<1> SUFFICES ASSUME IInv, OrphanInv, [Next]_vars PROVE OrphanInv'
  OBVIOUS
<1>1. CASE SessionLost \/ ServerBack \/ Stopped \/ UNCHANGED vars
  <2>1. UNCHANGED <<wrap, op, who, pc, stack>>
    BY <1>1 DEF SessionLost, ServerBack, Stopped, vars, call
  <2> QED BY <2>1 DEF OrphanInv, Executing
<1>2. CASE Client
  BY <1>2, OrphansAtStart
<1>3. CASE \/ SendFailed \/ ReadSkipped \/ DirectExecute \/ Connect \/ Options
           \/ QueryDone \/ InitReturn \/ DestroyCommand \/ Unwind
  <2>1. UNCHANGED <<wrap, op, who>> /\ (Executing' => Executing)
    <3>1. UNCHANGED <<wrap, op, who>>
      BY <1>3 DEF SendFailed, ReadSkipped, DirectExecute, Connect, Options, QueryDone,
                  InitReturn, DestroyCommand, Unwind, call
    <3>2. pc \notin {"idle"} \cup Halted
      BY <1>3 DEF SendFailed, ReadSkipped, DirectExecute, Connect, Options, QueryDone,
                  InitReturn, DestroyCommand, Unwind, Halted
    <3>3. pc = "leave" /\ stack = <<>> => pc' \in {"leave", "terminated"} /\ stack' = <<>>
      BY <1>3 DEF SendFailed, ReadSkipped, DirectExecute, Connect, Options, QueryDone,
                  InitReturn, DestroyCommand, Unwind
    <3> QED BY <3>1, <3>2, <3>3 DEF Executing, Halted
  <2> QED BY <2>1, OrphansKept
<1>4. CASE SetupCommand \/ Send
  BY <1>4, OrphansSend
<1>5. CASE ReadResult \/ ReadFails \/ CancelAfterFail \/ Fetch \/ Return
  BY <1>5, OrphansRead
<1>6. CASE \E by \in {"send", "read"} : CloseForReconnect(by)
  BY <1>6, OrphansReconnect
<1> QED BY <1>1, <1>2, <1>3, <1>4, <1>5, <1>6 DEF Next, Driver

\* When a command is about to be sent on a live session, the only statement that
\* can have results pending there is one whose own exec() has reconnected.
THEOREM NothingPending == Spec => []NoPendingAtSend
<1>1. Init => QuietInv /\ OrphanInv
  BY DEF Init, QuietInv, OrphanInv, Executing, NothingAfterEnd, NoWrap, NoCmd
<1>2. QuietInv /\ OrphanInv => NoPendingAtSend
  BY DEF QuietInv, OrphanInv, ValidOrOrphan, Quiet, NoPendingAtSend
<1> QED BY <1>1, <1>2, Invariance, QuietInductive, OrphansInductive, PTL DEF Spec
=============================================================================
