-------------------------- MODULE DiagnosticsProofs --------------------------
(***************************************************************************)
(* Theorems about the messages, for any number of calls and of messages.   *)
(* IInv is inductive; it splits the messages that came in by what became   *)
(* of them, and says which calls those that wait can come from.            *)
(***************************************************************************)
EXTENDS Diagnostics, FiniteSetTheorems, TLAPS

-----------------------------------------------------------------------------
(* The inductive invariant.                                                *)

\* Control: a call runs unless the driver is idle, and what setupCommand() has
\* caught is there only during a login.
Control ==
    /\ calls \in Seq(CallKinds) /\ n <= MaxCalls
    /\ phase \in {"idle", "running", "purge", "login", "dead"}
    /\ (phase # "idle" => n > 0)
    /\ (caught # {} => phase = "login")
    /\ past \subseteq 1..n
    /\ answer \in {"none", "done", "refused"} /\ raised \in BOOLEAN

\* The id of a message is the number of those before it.
Arrivals ==
    /\ IsFiniteSet(arrived) /\ Cardinality(arrived) <= MaxMessages
    /\ arrived \subseteq Messages
    /\ \A m \in arrived : m.id < Cardinality(arrived) /\ m.call \in 1..n

Sorted == queue \subseteq arrived /\ caught \subseteq arrived
          /\ forgiven \subseteq arrived /\ cut \subseteq arrived

\* A message waits, is caught, or was told of: one of these.
Apart ==
    /\ heard \subseteq [message : arrived, by : 1..n]
    /\ \A h \in heard : h.message \notin queue /\ h.message \notin caught
    /\ \A g, h \in heard : g.message = h.message => g.by = h.by
    /\ queue \cap caught = {} /\ queue \cap forgiven = {}

\* What waits came in during this call, or was left behind.
Waiting ==
    \A m \in queue \cup caught : m.call = n \/ LeftBy(m.call)

WaitingIdle ==
    phase = "idle" /\ n > 0 =>
        /\ \A m \in queue : LeftBy(m.call)
        /\ ~LeftBy(n) => queue = {}

Accounted ==
    {m \in arrived : m.kind \in {"client", "server"}} \subseteq Told \cup forgiven \cup cut \cup queue

\* A commit or rollback that has not raised anything.
Ended ==
    /\ phase \in {"purge", "idle"} /\ n > 0 /\ Kind = "end" /\ ~raised =>
          answer = "done" \/ (answer = "refused" /\ \E m \in forgiven : m.call = n)
    /\ \A m \in forgiven : IsServer(m) => m.kind = "noTransaction"

\* A commit or rollback raises nothing before it ends, and is answered once.
EndFresh ==
    phase # "idle" /\ n > 0 /\ Kind = "end" =>
        /\ phase \in {"running", "purge"} /\ ~raised
        /\ phase = "running" => answer = "none"

Data == Sorted /\ Apart /\ Waiting /\ OthersWereLeft
IInv == /\ Control /\ Arrivals /\ Data
        /\ WaitingIdle /\ Accounted /\ Ended /\ EndFresh /\ NoTransactionForgiven

-----------------------------------------------------------------------------
(* What telling of messages does.                                          *)

\* After an exception with the messages S they, too, have been told of.
LEMMA TellTold ==
    ASSUME NEW S, Tell(S), n \in Nat
    PROVE  Told' = Told \cup S
<1>1. ASSUME NEW m \in S PROVE m \in Told'
  <2>1. [message |-> m, by |-> n] \in heard'
    BY DEF Tell
  <2> QED BY <2>1 DEF Told
<1>2. ASSUME NEW h \in [message : S, by : {n}] PROVE h.message \in S
  OBVIOUS
<1> QED BY <1>1, <1>2 DEF Tell, Told

\* A step that tells of the messages S, which wait, and leaves others waiting or
\* puts them aside.  Every step of a call but Arrive is one, for some S.
Reads(S) ==
    /\ n > 0 /\ UNCHANGED <<calls, arrived>> /\ Tell(S) /\ past \subseteq past'
    /\ S \subseteq queue \cup caught /\ S \cap (queue' \cup caught') = {}
    /\ queue' \subseteq queue /\ caught' \subseteq queue \cup caught
    /\ queue' \cap caught' = {} /\ queue' \cap forgiven' = {}
    /\ forgiven \subseteq forgiven' /\ forgiven' \subseteq forgiven \cup queue
    /\ cut \subseteq cut' /\ cut' \subseteq cut \cup queue
    /\ Severe(queue) \subseteq queue' \cup S \cup forgiven' \cup cut'

\* No message is told of twice by that, and none is lost.
LEMMA ReadsKeepData ==
    ASSUME IInv, NEW S, Reads(S)
    PROVE  Data' /\ Arrivals' /\ Accounted'
<1> USE DEF Reads
<1>0. n \in Nat /\ n' = n
  BY DEF IInv, Control, n
<1>1. Sorted'
  BY DEF IInv, Data, Sorted
<1>2. ASSUME NEW h \in heard' PROVE h \in heard \/ (h.message \in S /\ h.by = n)
  BY DEF Tell
<1>3. Apart'
  <2>1. heard' \subseteq [message : arrived, by : 1..n]
    <3>1. S \subseteq arrived
      BY DEF IInv, Data, Sorted
    <3>2. [message : S, by : {n}] \subseteq [message : arrived, by : 1..n]
      BY <1>0, <3>1
    <3> QED BY <3>2 DEF Tell, IInv, Data, Apart
  <2>2. \A h \in heard' : h.message \notin queue' /\ h.message \notin caught'
    BY <1>2 DEF IInv, Data, Apart
  <2>3. \A g, h \in heard' : g.message = h.message => g.by = h.by
    BY <1>2 DEF IInv, Data, Apart
  <2> QED BY <1>0, <2>1, <2>2, <2>3 DEF Apart
<1>4. Waiting'
  BY <1>0 DEF IInv, Data, Waiting, LeftBy
<1>5. OthersWereLeft'
  BY <1>0, <1>2 DEF IInv, Data, Waiting, OthersWereLeft, LeftBy
<1>6. Arrivals'
  BY <1>0 DEF IInv, Arrivals
<1>7. Accounted'
  BY <1>0, TellTold DEF IInv, Accounted, Severe
<1> QED BY <1>1, <1>3, <1>4, <1>5, <1>6, <1>7 DEF Data

\* A step that tells of nothing.
LEMMA TellNothing ==
    ASSUME UNCHANGED heard
    PROVE  Tell({})
BY DEF Tell

-----------------------------------------------------------------------------
(* The steps.                                                              *)

LEMMA InitIInv == ASSUME Init PROVE IInv
<1>1. calls = <<>> /\ n = 0 /\ calls \in Seq(CallKinds)
  BY DEF Init, n
<1>2. IsFiniteSet({}) /\ Cardinality({}) = 0
  BY FS_EmptySet
<1>3. Control
  <2>1. n <= MaxCalls
    BY <1>1, BoundsAssumption
  <2>2. raised \in BOOLEAN
    BY Zenon DEF Init
  <2> QED BY <1>1, <2>1, <2>2 DEF Init, Control
<1>4. Arrivals
  BY <1>1, <1>2, BoundsAssumption DEF Init, Arrivals
<1>5. Data
  BY DEF Init, Data, Sorted, Apart, Waiting, OthersWereLeft
<1>6. WaitingIdle /\ Accounted /\ Ended /\ EndFresh /\ NoTransactionForgiven
  BY <1>1 DEF Init, WaitingIdle, Accounted, Told, Ended, EndFresh,
              NoTransactionForgiven, Returned
<1> QED BY <1>3, <1>4, <1>5, <1>6 DEF IInv

\* A new call finds only messages waiting that were left behind.
LEMMA CallKeeps ==
    ASSUME IInv, NEW kind \in CallKinds, Call(kind)
    PROVE  IInv'
<1>1. /\ n \in Nat /\ n' = n + 1 /\ calls' \in Seq(CallKinds) /\ calls'[n + 1] = kind
      /\ \A k \in 1..n : calls'[k] = calls[k]
      /\ past \subseteq 1..n /\ past' = past
  BY DEF IInv, Control, Call, n
<1>1a. \A k \in 1..n : LeftBy(k)' <=> LeftBy(k)
  BY <1>1 DEF LeftBy
<1>2. Control'
  <2>1. n' <= MaxCalls
    BY <1>1, BoundsAssumption DEF Call
  <2>2. raised' \in BOOLEAN
    BY Zenon DEF Call
  <2>3. n' > 0 /\ caught' = {} /\ phase' = "running" /\ answer' = "none"
    BY <1>1 DEF Call
  <2> QED BY <1>1, <2>1, <2>2, <2>3 DEF Control
<1>3. Arrivals'
  BY <1>1 DEF IInv, Arrivals, Call
<1>4. Sorted'
  BY DEF IInv, Data, Sorted, Call
<1>5. Apart'
  <2>1. [message : arrived, by : 1..n] \subseteq [message : arrived, by : 1..n+1]
    BY <1>1
  <2> QED BY <1>1, <2>1 DEF IInv, Data, Apart, Call
<1>6. Waiting'
  <2>1. \A m \in queue : m.call \in 1..n /\ LeftBy(m.call)
    BY <1>1 DEF IInv, Data, Sorted, Arrivals, WaitingIdle, Call
  <2> QED BY <1>1, <1>1a, <2>1 DEF Waiting, Call
<1>7. OthersWereLeft'
  <2>1. \A h \in heard : h.message.call \in 1..n
    BY <1>1 DEF IInv, Data, Apart, Arrivals
  <2> QED BY <1>1, <1>1a, <2>1 DEF IInv, Data, OthersWereLeft, Call
<1>8. WaitingIdle' /\ Accounted' /\ EndFresh' /\ NoTransactionForgiven'
  BY DEF IInv, WaitingIdle, Accounted, Told, EndFresh, NoTransactionForgiven, Returned, Call
<1>9. Ended'
  BY DEF IInv, Ended, Call
<1> QED BY <1>2, <1>3, <1>4, <1>5, <1>6, <1>7, <1>8, <1>9 DEF IInv, Data

\* A message that comes in is none of those there are.
LEMMA ArriveKeeps ==
    ASSUME IInv, NEW kind \in MessageKinds, Arrive(kind)
    PROVE  IInv'
<1> DEFINE c == Cardinality(arrived)
           m == [id |-> c, call |-> n, kind |-> kind]
<1>1. /\ n \in Nat /\ n > 0 /\ UNCHANGED <<calls, n, phase, heard, caught, forgiven, cut, past, answer, raised>>
      /\ phase # "idle" /\ arrived' = arrived \cup {m} /\ queue' = queue \cup {m}
      /\ c < MaxMessages
  BY DEF IInv, Control, Arrive, n
<1>2. c \in Nat /\ m \notin arrived
  BY FS_CardinalityType DEF IInv, Arrivals
<1>3. IsFiniteSet(arrived') /\ Cardinality(arrived') = c + 1
  BY <1>1, <1>2, FS_AddElement DEF IInv, Arrivals
<1> HIDE DEF m
<1>4. m.id = c /\ m.call = n /\ m.kind = kind /\ m \in Messages
  BY <1>1, <1>2 DEF m, Messages
<1>5. Control'
  BY <1>1 DEF IInv, Control
<1>6. Arrivals'
  <2>1. c + 1 <= MaxMessages
    BY <1>1, <1>2, BoundsAssumption
  <2>2. \A k \in arrived' : k.id < c + 1 /\ k.call \in 1..n
    <3>1. SUFFICES ASSUME NEW k \in arrived, k \in Messages
                   PROVE  k.id < c + 1 /\ k.call \in 1..n
      BY <1>1, <1>2, <1>4 DEF IInv, Arrivals
    <3> QED BY <1>2, <3>1 DEF IInv, Arrivals, Messages
  <2> QED BY <1>1, <1>3, <1>4, <2>1, <2>2 DEF IInv, Arrivals
<1>7. Sorted'
  BY <1>1 DEF IInv, Data, Sorted
<1>8. Apart'
  <2>1. [message : arrived, by : 1..n] \subseteq [message : arrived', by : 1..n]
    BY <1>1
  <2>2. \A h \in heard : h.message # m
    BY <1>2 DEF IInv, Data, Apart
  <2>3. m \notin caught /\ m \notin forgiven
    BY <1>2 DEF IInv, Data, Sorted
  <2> QED BY <1>1, <2>1, <2>2, <2>3 DEF IInv, Data, Apart
<1>9. Waiting'
  BY <1>1, <1>4 DEF IInv, Data, Waiting, LeftBy
<1>10. OthersWereLeft'
  BY <1>1 DEF IInv, Data, OthersWereLeft, LeftBy
<1>11. Accounted'
  BY <1>1 DEF IInv, Accounted, Told
<1>12. WaitingIdle' /\ Ended' /\ EndFresh' /\ NoTransactionForgiven'
  BY <1>1 DEF IInv, WaitingIdle, Ended, EndFresh, NoTransactionForgiven, Returned, Kind
<1> QED BY <1>5, <1>6, <1>7, <1>8, <1>9, <1>10, <1>11, <1>12 DEF IInv, Data

\* ReadToEnd, RaiseUnread and ThrowPast leave the queue alone; the call returns only
\* if it may leave messages behind.
LEMMA UnreadKeeps ==
    ASSUME IInv, ReadToEnd \/ RaiseUnread \/ ThrowPast
    PROVE  IInv'
<1>1. /\ phase = "running" /\ Kind # "end" /\ phase' \in {"idle", "purge"}
      /\ phase' = "idle" => LeftBy(n)'
      /\ past \subseteq past' /\ past' \subseteq 1..n
      /\ UNCHANGED <<calls, queue, arrived, heard, caught, forgiven, cut, answer>>
      /\ n \in Nat /\ n > 0 /\ caught = {} /\ n' = n /\ Kind' = Kind
  <2>1. /\ phase = "running" /\ Kind # "end"
        /\ UNCHANGED <<calls, queue, arrived, heard, caught, forgiven, cut, answer>>
    BY DEF ReadToEnd, RaiseUnread, ThrowPast
  <2>2. n \in Nat /\ n > 0 /\ caught = {} /\ n' = n /\ Kind' = Kind
    BY <2>1 DEF IInv, Control, n, Kind
  <2>3. CASE phase' = AfterReading(Kind) /\ past' = past
    BY <2>1, <2>2, <2>3 DEF AfterReading, LeftBy, Kind, IInv, Control
  <2>4. CASE phase' = "idle" /\ past' = past \cup {n}
    BY <2>1, <2>2, <2>4 DEF LeftBy, IInv, Control
  <2> QED BY <2>1, <2>2, <2>3, <2>4 DEF ReadToEnd, RaiseUnread, ThrowPast
<1>2. raised' \in BOOLEAN
  <2>1. raised \in BOOLEAN
    BY DEF IInv, Control
  <2>2. raised' = raised \/ raised' = TRUE
    BY DEF ReadToEnd, RaiseUnread, ThrowPast
  <2> QED BY <2>1, <2>2, Zenon
<1>3. Reads({})
  BY <1>1, TellNothing DEF Reads, IInv, Data, Apart, Severe
<1>4. Control'
  BY <1>1, <1>2 DEF IInv, Control
<1>5. WaitingIdle'
  BY <1>1 DEF IInv, Data, Waiting, WaitingIdle, LeftBy
<1>6. Ended' /\ EndFresh' /\ NoTransactionForgiven'
  BY <1>1 DEF IInv, Ended, EndFresh, NoTransactionForgiven, Returned
<1> QED BY <1>3, <1>4, <1>5, <1>6, ReadsKeepData DEF IInv

\* do_exception() leaves nothing in the queue.
LEMMA CallFailsKeeps ==
    ASSUME IInv, CallFails
    PROVE  IInv'
<1>1. /\ phase = "running" /\ phase' = "idle" /\ queue' = {}
      /\ Tell(Severe(queue)) /\ caught = {} /\ n > 0 /\ n' = n /\ Kind' = Kind
      /\ UNCHANGED <<calls, arrived, caught, forgiven, cut, past, answer>>
  BY DEF IInv, Control, CallFails, DoException, n, Kind
<1>2. raised' /\ raised' \in BOOLEAN
  BY Zenon DEF CallFails, DoException
<1>3. Reads(Severe(queue))
  BY <1>1 DEF Reads, Severe
<1>4. Control'
  BY <1>1, <1>2 DEF IInv, Control
<1>5. WaitingIdle'
  BY <1>1 DEF WaitingIdle
<1>6. Ended' /\ EndFresh'
  BY <1>1, <1>2 DEF IInv, Ended, EndFresh
<1>7. NoTransactionForgiven'
  BY <1>1 DEF IInv, EndFresh, NoTransactionForgiven, Returned
<1> QED BY <1>3, <1>4, <1>5, <1>6, <1>7, ReadsKeepData DEF IInv

LEMMA EndSucceedsKeeps ==
    ASSUME IInv, EndSucceeds
    PROVE  IInv'
<1>1. /\ phase = "running" /\ Kind = "end" /\ phase' = "purge" /\ answer' = "done"
      /\ caught = {} /\ n > 0 /\ n' = n /\ Kind' = Kind
      /\ UNCHANGED <<calls, queue, arrived, heard, caught, forgiven, cut, past, raised>>
  BY DEF IInv, Control, EndSucceeds, n, Kind
<1>2. Reads({})
  BY <1>1, TellNothing DEF Reads, IInv, Data, Apart, Severe
<1>3. Control'
  BY <1>1 DEF IInv, Control
<1>4. WaitingIdle' /\ Ended' /\ EndFresh' /\ NoTransactionForgiven'
  BY <1>1 DEF IInv, WaitingIdle, Ended, EndFresh, NoTransactionForgiven, Returned
<1> QED BY <1>2, <1>3, <1>4, ReadsKeepData DEF IInv

\* With nothing left behind before, what waits came in during this call: a 3902 that is
\* its only message is forgiven.
LEMMA EndRefusedKeeps ==
    ASSUME IInv, EndRefused
    PROVE  IInv'
<1>1. /\ phase = "running" /\ Kind = "end" /\ answer' = "refused" /\ queue' = {}
      /\ caught = {} /\ n \in Nat /\ n > 0 /\ n' = n /\ Kind' = Kind
      /\ UNCHANGED <<calls, arrived, caught, cut, past>>
  BY DEF IInv, Control, EndRefused, DoException, n, Kind
<1>2. CASE /\ Forgivable(queue) /\ forgiven' = forgiven \cup queue
           /\ phase' = "purge" /\ UNCHANGED <<heard, raised>>
  <2>1. Reads({})
    BY <1>1, <1>2, TellNothing DEF Reads, IInv, Data, Apart, Severe
  <2>2. Control'
    BY <1>1, <1>2 DEF IInv, Control
  <2>3. WaitingIdle' /\ EndFresh' /\ NoTransactionForgiven'
    BY <1>1, <1>2 DEF IInv, WaitingIdle, EndFresh, NoTransactionForgiven, Returned
  <2>4. Ended'
    <3>1. PICK m \in queue : m.kind = "noTransaction" /\ {k \in queue : IsServer(k)} = {m}
      BY <1>2 DEF Forgivable
    <3>2. PICK k \in queue : k.call = n /\ k.kind \in {"server", "noTransaction"}
      BY DEF EndRefused
    <3>3. k = m /\ \A x \in queue : IsServer(x) => x.kind = "noTransaction"
      BY <3>1, <3>2 DEF IsServer
    <3> QED BY <1>1, <1>2, <3>2, <3>3 DEF IInv, Ended
  <2> QED BY <2>1, <2>2, <2>3, <2>4, ReadsKeepData DEF IInv
<1>3. CASE /\ ~Forgivable(queue) /\ DoException
           /\ phase' = "idle" /\ UNCHANGED forgiven
  <2>1. raised' /\ raised' \in BOOLEAN
    BY <1>3, Zenon DEF DoException
  <2>2. Reads(Severe(queue))
    BY <1>1, <1>3 DEF Reads, Severe, DoException
  <2>3. Control'
    BY <1>1, <1>3, <2>1 DEF IInv, Control
  <2>4. WaitingIdle' /\ EndFresh'
    BY <1>1, <1>3 DEF WaitingIdle, EndFresh
  <2>5. Ended'
    BY <1>3, <2>1 DEF IInv, Ended
  <2>6. NoTransactionForgiven'
    <3> DEFINE Mine == {x \in arrived : x.call = n}
    <3>1. SUFFICES ASSUME \A k \in 1..n : ~LeftBy(k),
                          {m.kind : m \in Mine} = {"noTransaction"},
                          Cardinality(Mine) = 1
                   PROVE  FALSE
      BY <1>1 DEF NoTransactionForgiven, LeftBy
    <3>2. PICK m : Mine = {m}
      BY <3>1, FS_Singleton, FS_Subset DEF IInv, Arrivals
    <3>3. queue \subseteq Mine
      BY <1>1, <3>1 DEF IInv, Data, Sorted, Waiting, Arrivals
    <3>4. m \in queue /\ m.kind = "noTransaction" /\ queue = {m}
      BY <3>1, <3>2, <3>3 DEF EndRefused
    <3>5. {k \in queue : IsServer(k)} = {m}
      BY <3>4 DEF IsServer
    <3> QED BY <1>3, <3>4, <3>5 DEF Forgivable
  <2> QED BY <2>2, <2>3, <2>4, <2>5, <2>6, ReadsKeepData DEF IInv
<1> QED BY <1>2, <1>3 DEF EndRefused

\* What was forgiven is not in the queue any more when the messages are purged.
LEMMA PurgeKeeps ==
    ASSUME IInv, Purge
    PROVE  IInv'
<1>1. /\ phase = "purge" /\ phase' = "idle" /\ queue' = {} /\ Tell(Severe(queue))
      /\ caught = {} /\ n \in Nat /\ n > 0 /\ n' = n /\ Kind' = Kind
      /\ UNCHANGED <<calls, arrived, caught, forgiven, cut, past, answer>>
  BY DEF IInv, Control, Purge, PurgeMessages, n, Kind
<1>2. raised' = (raised \/ Severe(queue) # {})
  BY Zenon DEF Purge, PurgeMessages
<1>3. raised' \in BOOLEAN
  BY <1>2, Zenon
<1>4. Reads(Severe(queue))
  BY <1>1 DEF Reads, Severe
<1>5. Control'
  BY <1>1, <1>3 DEF IInv, Control
<1>6. WaitingIdle' /\ EndFresh'
  BY <1>1 DEF WaitingIdle, EndFresh
<1>7. Ended'
  <2>1. ~raised' => ~raised
    BY <1>2, Zenon
  <2> QED BY <1>1, <2>1 DEF IInv, Ended
<1>8. NoTransactionForgiven'
  <2> DEFINE Mine == {x \in arrived : x.call = n}
  <2>1. SUFFICES ASSUME Kind = "end", answer = "refused",
                        \A k \in 1..n : ~LeftBy(k),
                        Cardinality(Mine) = 1
                 PROVE  ~raised'
    BY <1>1 DEF NoTransactionForgiven, Returned, LeftBy
  <2>2. PICK m : Mine = {m}
    BY <2>1, FS_Singleton, FS_Subset DEF IInv, Arrivals
  <2>3. queue \subseteq Mine
    BY <1>1, <2>1 DEF IInv, Data, Sorted, Waiting, Arrivals
  <2>4. ~raised
    BY <1>1, <2>1 DEF IInv, EndFresh
  <2>5. m \in forgiven
    BY <1>1, <2>1, <2>2, <2>4 DEF IInv, Ended, Data, Sorted
  <2>6. Severe(queue) = {}
    BY <2>2, <2>3, <2>5 DEF IInv, Data, Apart, Severe
  <2> QED BY <1>2, <2>4, <2>6, Zenon
<1> QED BY <1>4, <1>5, <1>6, <1>7, <1>8, ReadsKeepData DEF IInv

\* A link is only replaced in a call that is no commit or rollback; its messages
\* are discarded or caught.
LEMMA LinkKeeps ==
    ASSUME IInv, LinkLost \/ SendFails
    PROVE  IInv'
<1>1. /\ phase = "running" /\ Kind # "end" /\ phase' = "login" /\ queue' = {}
      /\ cut' = cut \cup queue /\ caught' \subseteq queue
      /\ caught = {} /\ n > 0 /\ n' = n /\ Kind' = Kind
      /\ UNCHANGED <<calls, arrived, heard, forgiven, past, answer>>
  BY DEF IInv, Control, LinkLost, SendFails, Severe, n, Kind
<1>2. raised' \in BOOLEAN
  BY Zenon DEF LinkLost, SendFails
<1>3. Reads({})
  BY <1>1, TellNothing DEF Reads, Severe
<1>4. Control'
  BY <1>1, <1>2 DEF IInv, Control
<1>5. WaitingIdle' /\ Ended' /\ EndFresh' /\ NoTransactionForgiven'
  BY <1>1 DEF IInv, WaitingIdle, Ended, EndFresh, NoTransactionForgiven, Returned
<1> QED BY <1>3, <1>4, <1>5, ReadsKeepData DEF IInv

\* What was caught is told of with the messages of the login, or forgotten when
\* the command is sent again.
LEMMA LoginKeeps ==
    ASSUME IInv, LoginEnds \/ LoginQueryIgnored \/ LoginFails
    PROVE  IInv'
<1>1. /\ phase = "login" /\ phase' \in {"login", "running", "dead"} /\ Kind # "end"
      /\ caught' \subseteq caught /\ (caught' # {} => phase' = "login")
      /\ n > 0 /\ n' = n /\ Kind' = Kind
      /\ UNCHANGED <<calls, arrived, forgiven, past, answer>>
  BY DEF IInv, Control, EndFresh, LoginEnds, LoginQueryIgnored, LoginFails, n, Kind
<1>2. raised' \in BOOLEAN
  <2>1. CASE LoginEnds
    <3>1. raised' = (raised \/ Severe(queue) # {})
      BY <2>1, Zenon DEF LoginEnds
    <3> QED BY <3>1, Zenon
  <2>2. CASE LoginQueryIgnored
    BY <2>2 DEF LoginQueryIgnored, IInv, Control
  <2>3. CASE LoginFails
    BY <2>3, Zenon DEF LoginFails, DoException
  <2> QED BY <2>1, <2>2, <2>3
<1>3. PICK S : Reads(S)
  <2>1. CASE LoginEnds
    <3> DEFINE S == Severe(queue) \cup (IF raised \/ Severe(queue) # {} THEN caught ELSE {})
    <3>1. Reads(S)
      BY <1>1, <2>1 DEF LoginEnds, Reads, Severe
    <3> QED BY <3>1
  <2>2. CASE LoginQueryIgnored
    <3>1. Reads({})
      BY <1>1, <2>2, TellNothing DEF LoginQueryIgnored, Reads, Severe
    <3> QED BY <3>1
  <2>3. CASE LoginFails /\ DoException
    <3>1. Reads(Severe(queue))
      BY <1>1, <2>3 DEF LoginFails, DoException, Reads, Severe
    <3> QED BY <3>1
  <2>4. CASE LoginFails /\ ~DoException
    <3>1. Reads(caught)
      BY <1>1, <2>4 DEF LoginFails, Reads, Severe, IInv, Data, Apart
    <3> QED BY <3>1
  <2> QED BY <2>1, <2>2, <2>3, <2>4
<1>4. Control'
  BY <1>1, <1>2 DEF IInv, Control
<1>5. WaitingIdle' /\ Ended' /\ EndFresh' /\ NoTransactionForgiven'
  BY <1>1 DEF IInv, WaitingIdle, Ended, EndFresh, NoTransactionForgiven, Returned
<1> QED BY <1>3, <1>4, <1>5, ReadsKeepData DEF IInv

\* When the handler of a failed send throws, the messages are discarded.
LEMMA ReconnectThrowsKeeps ==
    ASSUME IInv, ReconnectThrows
    PROVE  IInv'
<1>1. /\ phase = "running" /\ Kind = "statement" /\ phase' = "idle" /\ queue' = {}
      /\ cut' = cut \cup queue
      /\ caught = {} /\ n > 0 /\ n' = n /\ Kind' = Kind
      /\ UNCHANGED <<calls, arrived, heard, caught, forgiven, past, answer>>
  BY DEF IInv, Control, ReconnectThrows, n, Kind
<1>2. raised' \in BOOLEAN
  BY Zenon DEF ReconnectThrows
<1>3. Reads({})
  BY <1>1, TellNothing DEF Reads, Severe
<1>4. Control'
  BY <1>1, <1>2 DEF IInv, Control
<1>5. WaitingIdle' /\ Ended' /\ EndFresh' /\ NoTransactionForgiven'
  BY <1>1 DEF IInv, WaitingIdle, Ended, EndFresh, NoTransactionForgiven, Returned
<1> QED BY <1>3, <1>4, <1>5, ReadsKeepData DEF IInv

LEMMA StepKeeps == ASSUME IInv, [Next]_vars PROVE IInv'
<1>1. CASE UNCHANGED vars
  BY <1>1 DEF vars, IInv, Control, Arrivals, Data, Sorted, Apart, Waiting,
              OthersWereLeft, WaitingIdle, Accounted, Told, Ended, EndFresh,
              NoTransactionForgiven, Returned, LeftBy, Kind, n
<1>2. CASE Next
  BY <1>2, CallKeeps, ArriveKeeps, UnreadKeeps, CallFailsKeeps, EndSucceedsKeeps,
     EndRefusedKeeps, PurgeKeeps, LinkKeeps, ReconnectThrowsKeeps, LoginKeeps DEF Next
<1> QED BY <1>1, <1>2

-----------------------------------------------------------------------------
(* The theorems.                                                           *)

\* In every reachable state each message that came in waits, is caught, or is
\* accounted for, whatever the calls and however many: the rest follows from it.
THEOREM Invariance == Spec => []IInv
<1>1. Init => IInv
  BY InitIInv
<1>2. IInv /\ [Next]_vars => IInv'
  BY StepKeeps
<1> QED BY <1>1, <1>2, PTL DEF Spec

\* Every variable keeps its type: only messages that came in are kept, caught,
\* forgiven or discarded, and what was caught is there only during a login.
THEOREM TypeCorrect == Spec => []TypeOK
<1>1. IInv => TypeOK
  BY DEF IInv, Control, Arrivals, Data, Sorted, Apart, TypeOK
<1> QED BY <1>1, Invariance, PTL

\* After a direct call, a commit or a rollback no severe message is left unread,
\* unless an exception of ThrowPast ended the call.
THEOREM NothingUnread == Spec => []SevereHeard
<1>1. IInv => SevereHeard
  BY DEF IInv, WaitingIdle, Accounted, SevereHeard, Returned, LeftBy, Leaving, Kind
<1> QED BY <1>1, Invariance, PTL

\* No message is told of by two calls: what reads the queue clears it.
THEOREM ToldOnce == Spec => []HeardOnce
<1>1. IInv => HeardOnce
  BY DEF IInv, Data, Apart, HeardOnce, Told
<1> QED BY <1>1, Invariance, PTL

\* A call fails with the messages of another only if that is a call of a statement, a
\* query of the version, or a direct call that an exception of ThrowPast ended.
THEOREM OthersMessagesWereLeft == Spec => []OthersWereLeft
<1>1. IInv => OthersWereLeft
  BY DEF IInv, Data
<1> QED BY <1>1, Invariance, PTL

\* A commit or rollback that raises nothing was carried out, or there was no
\* transaction and the server had nothing else to say.
THEOREM EndsHonestly == Spec => []EndHonest
<1>1. IInv => EndHonest
  BY DEF IInv, Ended, EndHonest, Returned
<1> QED BY <1>1, Invariance, PTL

\* With nothing left behind before it, a commit or rollback that gets a 3902 and nothing
\* else raises nothing.
THEOREM ForgivesNoTransaction == Spec => []NoTransactionForgiven
<1>1. IInv => NoTransactionForgiven
  BY DEF IInv
<1> QED BY <1>1, Invariance, PTL

=============================================================================
