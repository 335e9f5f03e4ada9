----------------------------- MODULE RowCursor -----------------------------
(***************************************************************************)
(* What a prepared statement keeps to for its rows: each row is handed out *)
(* at most once, those of a kind in the order of the server, and a row is  *)
(* lost only by a call that raises an exception.                           *)
(*                                                                         *)
(* There are two ways to the rows.  Those read ahead are handed out by     *)
(* fetch_row() and fetch_rows(); fetch_columns() and get_output() take the *)
(* rows behind them.  A row read ahead stays when the statement is         *)
(* executed again: it is then handed out with the rows of the new          *)
(* execution, before them.                                                 *)
(***************************************************************************)
EXTENDS Naturals, Sequences

CONSTANT RowSeqs   \* the row sequences an execution can have

VARIABLES
    ahead,  \* rows read ahead
    rest,   \* rows behind them
    out,    \* rows handed out since the last exec()
    err     \* the last call raised an exception

cursorVars == <<ahead, rest, out, err>>

CursorInit == ahead = <<>> /\ rest = <<>> /\ out = <<>> /\ err = FALSE

\* Between two calls at most one row is ahead: no more than one survives.
Execute ==
    /\ Len(ahead) <= 1
    /\ rest' \in RowSeqs
    /\ out' = <<>> /\ err' = FALSE
    /\ UNCHANGED ahead

\* A call begins: the exception of the one before is forgotten.
Start == err' = FALSE /\ UNCHANGED <<ahead, rest, out>>

ReadAhead ==
    /\ rest # <<>>
    /\ ahead' = Append(ahead, Head(rest)) /\ rest' = Tail(rest)
    /\ UNCHANGED <<out, err>>

\* The first k rows of those ahead are handed out,
Deliver(k) ==
    /\ out' = out \o SubSeq(ahead, 1, k)
    /\ ahead' = SubSeq(ahead, k + 1, Len(ahead))
    /\ err' = FALSE
    /\ UNCHANGED rest

\* or of those behind them.
DeliverBehind(k) ==
    /\ out' = out \o SubSeq(rest, 1, k)
    /\ rest' = SubSeq(rest, k + 1, Len(rest))
    /\ err' = FALSE
    /\ UNCHANGED ahead

\* A call fails: the rows ahead may be gone with it, and rows at either end of
\* those behind them.
Lose ==
    /\ ahead' \in {ahead, <<>>}
    /\ \E i \in 1..Len(rest) + 1, j \in 0..Len(rest) : rest' = SubSeq(rest, i, j)
    /\ err' = TRUE
    /\ UNCHANGED out

CursorNext ==
    \/ Execute \/ Start \/ ReadAhead \/ Lose
    \/ \E k \in 1..Len(ahead) : Deliver(k)
    \/ \E k \in 1..Len(rest) : DeliverBehind(k)

CursorSpec == CursorInit /\ [][CursorNext]_cursorVars
=============================================================================
