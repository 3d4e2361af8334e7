------------------------ MODULE CommandDispatch_proofs ------------------------
(***************************************************************************)
(* Theorems about CommandDispatch, for every choice of its constants.      *)
(***************************************************************************)
EXTENDS CommandDispatch, TLAPS

USE DEF storeVars, callVars, hubVars, wireVars, agentVars, otherVars

-----------------------------------------------------------------------------
(***************************************************************************)
(* Type correctness.  Register adds the owner of the session to the        *)
(* devices, so the type of "devices" needs that owner to be known.         *)
(***************************************************************************)

OwnerKnown == \A s \in Sessions : serve[s] # "free" => owner[s] \in Devices

Typed == TypeOK /\ OwnerKnown

RowType == [Commands -> [status : Statuses, answered : BOOLEAN]]

LEMMA TypedInit == Init => Typed
  BY ConstantsOK
     DEF Init, Typed, TypeOK, OwnerKnown, NoRow, NoDelete, Statuses, Parts

\* The two ways to change the table keep its type.
LEMMA WithStatusType ==
    ASSUME row \in RowType, NEW C, NEW st \in Statuses
    PROVE  WithStatus(C, st) \in RowType
  BY DEF WithStatus, RowType

LEMMA WithAnswerType ==
    ASSUME row \in RowType, NEW d, NEW c \in Commands
    PROVE  WithAnswer(d, c) \in RowType
  BY DEF WithAnswer, RowType, Statuses

LEMMA AppendType ==
    ASSUME NEW f \in [Sessions -> Seq(Commands)], NEW s, NEW c \in Commands
    PROVE  [f EXCEPT ![s] = Append(@, c)] \in [Sessions -> Seq(Commands)]
  <1>1. CASE s \in Sessions
    BY <1>1
  <1>2. CASE s \notin Sessions
    BY <1>2
  <1> QED
    BY <1>1, <1>2

LEMMA DropType ==
    ASSUME NEW f \in [Sessions -> Seq(Commands)], NEW s
    PROVE  [f EXCEPT ![s] = <<>>] \in [Sessions -> Seq(Commands)]
  <1>1. <<>> \in Seq(Commands)
    OBVIOUS
  <1> QED
    BY <1>1

LEMMA TypeDispatcher ==
    ASSUME TypeOK, NEW c \in Commands, Dispatcher(c)
    PROVE  TypeOK'
  <1>0. row \in RowType
    BY DEF TypeOK, RowType
  <1>s. WithStatus({c}, "sent") \in RowType
    BY <1>0, WithStatusType DEF Statuses
  <1>f. WithStatus({c}, "failed") \in RowType
    BY <1>0, WithStatusType DEF Statuses
  <1>1. CASE Create(c)
    BY <1>1 DEF TypeOK, Create, Statuses
  <1>2. CASE Lookup(c)
    BY <1>2, ConstantsOK DEF TypeOK, Lookup
  <1>3. CASE WriteOk(c)
    <2>1. down' \in [Sessions -> Seq(Commands)]
      BY <1>3, AppendType DEF TypeOK, WriteOk
    <2> QED
      BY <1>3, <2>1 DEF TypeOK, WriteOk
  <1>4. CASE WriteError(c)
    BY <1>4 DEF TypeOK, WriteError, RemoveDevice
  <1>5. CASE MarkSent(c)
    BY <1>5, <1>s DEF TypeOK, MarkSent, RowType
  <1>6. CASE MarkSentFails(c)
    BY <1>6 DEF TypeOK, MarkSentFails
  <1>7. CASE ReportOffline(c)
    BY <1>7, <1>f DEF TypeOK, ReportOffline, Persist, RowType
  <1>8. CASE PollDone(c)
    BY <1>8 DEF TypeOK, PollDone, Terminal
  <1>9. CASE PollExpired(c)
    BY <1>9 DEF TypeOK, PollExpired
  <1>10. CASE ReportTimeout(c)
    BY <1>10, <1>f DEF TypeOK, ReportTimeout, Persist, RowType
  <1> QED
    BY <1>1, <1>2, <1>3, <1>4, <1>5, <1>6, <1>7, <1>8, <1>9, <1>10
       DEF Dispatcher

LEMMA TypeSession ==
    ASSUME Typed, NEW s \in Sessions, Session(s)
    PROVE  TypeOK'
  <1> USE DEF Typed
  <1>1. CASE Register(s)
    BY <1>1 DEF TypeOK, OwnerKnown, Register
  <1>2. CASE Refuse(s)
    <2>1. devices' \subseteq Devices
      BY <1>2 DEF TypeOK, OwnerKnown, Refuse
    <2>2. up' \in [Sessions -> Seq(Commands)]
      BY <1>2, DropType DEF TypeOK, Refuse
    <2> QED
      BY <1>2, <2>1, <2>2 DEF TypeOK, Refuse
  <1>3. CASE AddDevice(s)
    BY <1>3 DEF TypeOK, AddDevice
  <1>4. CASE ReadResult(s)
    BY <1>4 DEF TypeOK, ReadResult
  <1>5. CASE StoreResult(s)
    <2>1. row' \in RowType
      BY <1>5, WithAnswerType DEF TypeOK, StoreResult, Persist, RowType
    <2> QED
      BY <1>5, <2>1 DEF TypeOK, StoreResult, RowType
  <1>6. CASE ReadError(s)
    BY <1>6 DEF TypeOK, ReadError
  <1>7. CASE EndServe(s)
    <2>1. up' \in [Sessions -> Seq(Commands)]
      BY <1>7, DropType DEF TypeOK, EndServe
    <2> QED
      BY <1>7, <2>1 DEF TypeOK, EndServe, RemoveDevice
  <1>8. CASE PingFails(s)
    BY <1>8 DEF TypeOK, PingFails
  <1>9. CASE CutWire(s)
    BY <1>9 DEF TypeOK, CutWire
  <1> QED
    BY <1>1, <1>2, <1>3, <1>4, <1>5, <1>6, <1>7, <1>8, <1>9 DEF Session

LEMMA TypeAgent ==
    ASSUME TypeOK, NEW d \in Devices, Agent(d)
    PROVE  TypeOK'
  <1>1. ASSUME NEW s \in Sessions, Dial(d, s) PROVE TypeOK'
    BY <1>1 DEF TypeOK, Dial, Parts
  <1>2. CASE ReadCommand(d)
    BY <1>2 DEF TypeOK, ReadCommand
  <1>3. CASE Execute(d)
    BY <1>3 DEF TypeOK, Execute
  <1>4. CASE SendResult(d)
    <2>1. exec[d] \in Commands
      BY <1>4 DEF TypeOK, SendResult
    <2>2. up' \in [Sessions -> Seq(Commands)]
      BY <1>4, <2>1, AppendType DEF TypeOK, SendResult
    <2> QED
      BY <1>4, <2>2 DEF TypeOK, SendResult
  <1>5. CASE Leave(d)
    <2>1. down' \in [Sessions -> Seq(Commands)]
      BY <1>5, DropType DEF TypeOK, Leave
    <2> QED
      BY <1>5, <2>1 DEF TypeOK, Leave
  <1>6. CASE Hangup(d) \/ Restart(d)
    BY <1>5, <1>6 DEF Hangup, Restart
  <1> QED
    BY <1>1, <1>2, <1>3, <1>4, <1>6 DEF Agent

LEMMA TypeRest ==
    ASSUME TypeOK,
           \/ \E d \in Devices : DisconnectDevice(d) \/ DeleteRow(d)
           \/ \E E \in SUBSET Commands : Expire(E)
           \/ Crash
           \/ UNCHANGED vars
    PROVE  TypeOK'
  <1>1. ASSUME NEW d \in Devices, DisconnectDevice(d) PROVE TypeOK'
    <2>1. CASE FindSession(d)
      <3>1. hub[d] \in Sessions \cup {None}
        BY DEF TypeOK
      <3> QED
        BY <2>1, <3>1 DEF TypeOK, FindSession
    <2>2. CASE TakeOut(d)
      <3>1. hub' \in [Devices -> Sessions \cup {None}]
        BY <2>2 DEF TypeOK, TakeOut, RemoveDevice
      <3>2. \A e \in Devices :
               del'[e] = IF e = d THEN [del[d] EXCEPT !.at = "takenOut"] ELSE del[e]
        BY <2>2 DEF TypeOK, TakeOut
      <3>3. del' \in [Devices ->
                         [at : {"idle", "found", "takenOut", "disconnected"},
                          session : Sessions \cup {None}]]
        BY <2>2, <3>2 DEF TypeOK, TakeOut
      <3> QED
        BY <2>2, <3>1, <3>3 DEF TypeOK, TakeOut
    <2>3. CASE CloseTakenOut(d)
      BY <2>3 DEF TypeOK, CloseTakenOut
    <2> QED
      BY <1>1, <2>1, <2>2, <2>3 DEF DisconnectDevice
  <1>2. ASSUME NEW d \in Devices, DeleteRow(d) PROVE TypeOK'
    BY <1>2 DEF TypeOK, DeleteRow, NoRow, NoDelete, Statuses
  <1>3. ASSUME NEW E \in SUBSET Commands, Expire(E) PROVE TypeOK'
    <2>1. row' \in RowType
      BY <1>3, WithStatusType DEF TypeOK, Expire, RowType, Statuses
    <2> QED
      BY <1>3, <2>1 DEF TypeOK, Expire, RowType
  <1>4. CASE Crash
    <2>1. crashes' \in 0 .. MaxCrashes
      BY <1>4, ConstantsOK DEF TypeOK, Crash
    <2>2. up' \in [Sessions -> Seq(Commands)]
      BY <1>4 DEF Crash
    <2> QED
      BY <1>4, <2>1, <2>2 DEF TypeOK, Crash, NoDelete
  <1>5. CASE UNCHANGED vars
    BY <1>5 DEF TypeOK, vars
  <1> QED
    BY <1>1, <1>2, <1>3, <1>4, <1>5

\* Only Dial gives a session an owner, and no session becomes free again.
LEMMA OwnerStep ==
    ASSUME Typed, [Next]_vars
    PROVE  OwnerKnown'
  <1> USE DEF Typed, TypeOK, OwnerKnown
  <1>1. ASSUME NEW d \in Devices, NEW s \in Sessions, Dial(d, s)
        PROVE  OwnerKnown'
    BY <1>1 DEF Dial
  <1>2. ASSUME NEW s \in Sessions, Session(s) PROVE OwnerKnown'
    BY <1>2 DEF Session, Register, Refuse, AddDevice, ReadResult, StoreResult,
                ReadError, EndServe, PingFails, CutWire
  <1>3. CASE Crash
    BY <1>3 DEF Crash
  <1>4. ASSUME UNCHANGED <<owner, serve>> PROVE OwnerKnown'
    BY <1>4
  <1>5. ASSUME NEW c \in Commands, Dispatcher(c) PROVE UNCHANGED <<owner, serve>>
    BY <1>5 DEF Dispatcher, Create, Lookup, WriteOk, WriteError, MarkSent,
                MarkSentFails, ReportOffline, PollDone, PollExpired,
                ReportTimeout
  <1>6. ASSUME NEW d \in Devices,
               \/ ReadCommand(d) \/ Execute(d) \/ SendResult(d)
               \/ Hangup(d) \/ Restart(d) \/ DisconnectDevice(d) \/ DeleteRow(d)
        PROVE  UNCHANGED <<owner, serve>>
    BY <1>6 DEF ReadCommand, Execute, SendResult, Hangup, Restart, Leave,
                DisconnectDevice, FindSession, TakeOut, CloseTakenOut, DeleteRow
  <1>7. ASSUME NEW E \in SUBSET Commands, Expire(E)
        PROVE  UNCHANGED <<owner, serve>>
    BY <1>7 DEF Expire
  <1>8. CASE UNCHANGED vars
    BY <1>4, <1>8 DEF vars
  <1> QED
    BY <1>1, <1>2, <1>3, <1>4, <1>5, <1>6, <1>7, <1>8 DEF Next, Agent

LEMMA TypedStep ==
    ASSUME Typed, [Next]_vars
    PROVE  Typed'
  <1>1. TypeOK'
    BY TypeDispatcher, TypeSession, TypeAgent, TypeRest DEF Typed, Next
  <1> QED
    BY <1>1, OwnerStep DEF Typed

LEMMA TypedAlways == Spec => []Typed
  BY TypedInit, TypedStep, PTL DEF Spec

\* Every variable always has its type, whatever requests, sessions, agents,
\* failed writes and crashes follow one another: in particular the hub maps a
\* device only to a session, and the queues hold commands only.
THEOREM TypeCorrect == Spec => []TypeOK
  <1>1. Typed => TypeOK
    BY DEF Typed
  <1> QED
    BY <1>1, TypedAlways, PTL
-----------------------------------------------------------------------------
(***************************************************************************)
(* The hub's map.  The two invariants need each other: a session that is   *)
(* in the map is served, so a fresh one (Dial) is not; a served session is *)
(* in the map, so the one that AddDevice closes is the only one of its     *)
(* device, except for one that a DELETE has taken out and not closed yet.  *)
(***************************************************************************)
HubInv == HubEntryIsServed /\ ServedSessionIsInHub

LEMMA HubFrame ==
    ASSUME HubInv, UNCHANGED <<hubVars, del>>
    PROVE  HubInv'
  BY DEF HubInv, HubEntryIsServed, ServedSessionIsInHub, BeingDisconnected

\* Losing parts of a connection, the map and the goroutines unchanged.
LEMMA HubFewerParts ==
    ASSUME HubInv, UNCHANGED <<hub, owner, serve, del>>,
           \A s \in Sessions : alive'[s] \subseteq alive[s]
    PROVE  HubInv'
  BY DEF HubInv, HubEntryIsServed, ServedSessionIsInHub, BeingDisconnected

LEMMA HubDispatcher ==
    ASSUME Typed, HubInv, NEW c \in Commands, Dispatcher(c)
    PROVE  HubInv'
  <1>1. CASE WriteError(c)
    BY <1>1 DEF Typed, TypeOK, OwnerKnown, HubInv, HubEntryIsServed,
                ServedSessionIsInHub, BeingDisconnected, WriteError,
                RemoveDevice, otherVars
  <1>2. CASE ~WriteError(c)
    <2>1. UNCHANGED <<hubVars, del>>
      BY <1>2 DEF otherVars, Dispatcher, Create, Lookup, WriteOk, MarkSent, MarkSentFails,
                  ReportOffline, PollDone, PollExpired, ReportTimeout
    <2> QED
      BY <2>1, HubFrame
  <1> QED
    BY <1>1, <1>2

LEMMA HubSession ==
    ASSUME Typed, HubInv, NEW s \in Sessions, Session(s)
    PROVE  HubInv'
  <1> USE DEF Typed, TypeOK, OwnerKnown, otherVars, BeingDisconnected
  <1>1. CASE Register(s)
    BY <1>1 DEF HubInv, HubEntryIsServed, ServedSessionIsInHub, Register
  <1>2. CASE Refuse(s)
    BY <1>2 DEF HubInv, HubEntryIsServed, ServedSessionIsInHub, Refuse, ServerEnd
  <1>3. CASE AddDevice(s)
    <2>1. HubEntryIsServed'
      BY <1>3 DEF HubInv, HubEntryIsServed, AddDevice
    <2>2. ServedSessionIsInHub'
      BY <1>3 DEF HubInv, ServedSessionIsInHub, AddDevice, ServerEnd
    <2> QED
      BY <2>1, <2>2 DEF HubInv
  <1>4. CASE ReadResult(s) \/ StoreResult(s)
    BY <1>4, HubFrame DEF ReadResult, StoreResult
  <1>5. CASE ReadError(s)
    BY <1>5 DEF HubInv, HubEntryIsServed, ServedSessionIsInHub, ReadError
  <1>6. CASE EndServe(s)
    <2>1. owner[s] \in Devices
      BY <1>6 DEF EndServe
    <2>2. hub' = [hub EXCEPT ![owner[s]] = IF @ = s THEN None ELSE @]
      BY <1>6 DEF EndServe, RemoveDevice
    <2>3. HubEntryIsServed'
      <3> SUFFICES ASSUME NEW d \in Devices, hub'[d] # None
                   PROVE  owner'[hub'[d]] = d /\ serve'[hub'[d]] \in {"serving", "closing"}
        BY DEF HubEntryIsServed
      <3>1. hub'[d] = hub[d] /\ hub[d] # s
        BY <2>1, <2>2 DEF HubInv, HubEntryIsServed
      <3> QED
        BY <1>6, <3>1 DEF HubInv, HubEntryIsServed, EndServe
    <2>4. ServedSessionIsInHub'
      BY <1>6, <2>2 DEF HubInv, ServedSessionIsInHub, EndServe
    <2> QED
      BY <2>3, <2>4 DEF HubInv
  <1>7. CASE PingFails(s)
    BY <1>7, HubFewerParts DEF PingFails
  <1>8. CASE CutWire(s)
    BY <1>8, HubFewerParts DEF CutWire
  <1> QED
    BY <1>1, <1>2, <1>3, <1>4, <1>5, <1>6, <1>7, <1>8 DEF Session

LEMMA HubAgent ==
    ASSUME Typed, HubInv, NEW d \in Devices, Agent(d)
    PROVE  HubInv'
  <1> USE DEF Typed, TypeOK, otherVars, BeingDisconnected
  <1>1. ASSUME NEW s \in Sessions, Dial(d, s) PROVE HubInv'
    BY <1>1 DEF HubInv, HubEntryIsServed, ServedSessionIsInHub, Dial
  <1>2. CASE ReadCommand(d) \/ Execute(d) \/ SendResult(d)
    BY <1>2, HubFrame DEF ReadCommand, Execute, SendResult
  <1>3. CASE Hangup(d) \/ Restart(d)
    <2>1. Leave(d)
      BY <1>3 DEF Hangup, Restart
    <2>2. \A s \in Sessions : alive'[s] \subseteq alive[s]
      BY <2>1 DEF Leave
    <2> QED
      BY <2>1, <2>2, HubFewerParts DEF Leave
  <1> QED
    BY <1>1, <1>2, <1>3 DEF Agent

LEMMA HubStep ==
    ASSUME Typed, HubInv, [Next]_vars
    PROVE  HubInv'
  <1> USE DEF Typed, TypeOK, otherVars
  <1>1. ASSUME NEW d \in Devices, FindSession(d) PROVE HubInv'
    BY <1>1 DEF HubInv, HubEntryIsServed, ServedSessionIsInHub, BeingDisconnected,
                FindSession
  <1>2. ASSUME NEW d \in Devices, DeleteRow(d) PROVE HubInv'
    BY <1>2 DEF HubInv, HubEntryIsServed, ServedSessionIsInHub, BeingDisconnected,
                DeleteRow, NoDelete
  <1>6. ASSUME NEW d \in Devices, TakeOut(d) PROVE HubInv'
    <2> DEFINE t == del[d].session
    <2>1. del'[d] = [at |-> "takenOut", session |-> t]
      BY <1>6 DEF TakeOut
    <2>2. \A e \in Devices : e # d => del'[e] = del[e]
      BY <1>6 DEF TakeOut
    <2>3. \A s \in Sessions :
             BeingDisconnected(s) \/ s = t => BeingDisconnected(s)'
      BY <1>6, <2>1, <2>2 DEF BeingDisconnected, TakeOut
    <2>4. \A e \in Devices : hub'[e] = hub[e] \/ (hub[e] = t /\ hub'[e] = None)
      BY <1>6 DEF TakeOut, RemoveDevice
    <2>5. UNCHANGED <<owner, serve, alive>>
      BY <1>6 DEF TakeOut
    <2>6. HubEntryIsServed'
      BY <2>4, <2>5 DEF HubInv, HubEntryIsServed
    <2>7. ServedSessionIsInHub'
      <3> SUFFICES ASSUME NEW s \in Sessions, serve[s] = "serving",
                          {"server", "writer"} \subseteq alive[s],
                          ~ BeingDisconnected(s)'
                   PROVE  hub'[owner[s]] = s
        BY <2>5 DEF ServedSessionIsInHub
      <3>1. hub[owner[s]] = s /\ s # t
        BY <2>3 DEF HubInv, ServedSessionIsInHub
      <3>2. owner[s] \in Devices
        BY <3>1 DEF OwnerKnown
      <3> QED
        BY <2>4, <3>1, <3>2
    <2> QED
      BY <2>6, <2>7 DEF HubInv
  <1>7. ASSUME NEW d \in Devices, CloseTakenOut(d) PROVE HubInv'
    <2>1. HubEntryIsServed'
      BY <1>7 DEF HubInv, HubEntryIsServed, CloseTakenOut
    <2>2. ASSUME NEW s \in Sessions, s # del[d].session
          PROVE  alive'[s] = alive[s] /\ (BeingDisconnected(s) => BeingDisconnected(s)')
      BY <1>7, <2>2 DEF CloseTakenOut, BeingDisconnected
    <2>3. ASSUME NEW s \in Sessions, s = del[d].session
          PROVE  "server" \notin alive'[s]
      BY <1>7, <2>3 DEF CloseTakenOut, ServerEnd
    <2>4. ServedSessionIsInHub'
      BY <1>7, <2>2, <2>3 DEF HubInv, ServedSessionIsInHub, CloseTakenOut
    <2> QED
      BY <2>1, <2>4 DEF HubInv
  <1>3. ASSUME NEW E \in SUBSET Commands, Expire(E) PROVE HubInv'
    BY <1>3, HubFrame DEF Expire
  <1>4. CASE Crash
    BY <1>4 DEF HubInv, HubEntryIsServed, ServedSessionIsInHub, Crash
  <1>5. CASE UNCHANGED vars
    BY <1>5, HubFrame DEF vars
  <1> QED
    BY <1>1, <1>2, <1>3, <1>4, <1>5, <1>6, <1>7, HubDispatcher, HubSession,
       HubAgent DEF Next, DisconnectDevice

LEMMA HubAlways == Spec => []HubInv
  <1>1. Init => HubInv
    BY DEF Init, HubInv, HubEntryIsServed, ServedSessionIsInHub
  <1> QED
    BY <1>1, HubStep, TypedAlways, PTL DEF Spec

\* No entry of Hub.deviceWS outlives the goroutine that serves it, through
\* replacement, failed writes, deletion of the device and crashes.
THEOREM HubEntriesServed == Spec => []HubEntryIsServed
  <1>1. HubInv => HubEntryIsServed
    BY DEF HubInv
  <1> QED
    BY <1>1, HubAlways, PTL

\* An open session that is served for a device is the one DispatchCommand finds,
\* or one that a DELETE is just closing: what ends an older session never
\* unregisters a newer one, wherever in DisconnectDevice the newer one arrives.
THEOREM ServedSessionsReachable == Spec => []ServedSessionIsInHub
  <1>1. HubInv => ServedSessionIsInHub
    BY DEF HubInv
  <1> QED
    BY <1>1, HubAlways, PTL
-----------------------------------------------------------------------------
(***************************************************************************)
(* Answers.  What is on its way to the table was produced by an execution. *)
(***************************************************************************)
ResultsWereRun ==
    /\ \A s \in Sessions : \A i \in 1 .. Len(up[s]) : runs[up[s][i]] > 0
    /\ \A s \in Sessions : hand[s] # None => runs[hand[s]] > 0
    /\ \A d \in Devices : exec[d] # None => runs[exec[d]] > 0

AnswerInv == AnswerOnlyIfRun /\ ResultsWereRun

LEMMA ResultsFrame ==
    ASSUME ResultsWereRun, UNCHANGED <<up, hand, exec, runs>>
    PROVE  ResultsWereRun'
  BY DEF ResultsWereRun

LEMMA AnswerFrame ==
    ASSUME AnswerOnlyIfRun, UNCHANGED <<row, runs>>
    PROVE  AnswerOnlyIfRun'
  BY DEF AnswerOnlyIfRun

\* A dispatcher or the janitor never makes a row 'completed'.
LEMMA AnswerKept ==
    ASSUME Typed, AnswerOnlyIfRun, UNCHANGED runs, NEW C, NEW st \in {"sent", "failed"},
           row' = WithStatus(C, st) \/ UNCHANGED row
    PROVE  AnswerOnlyIfRun'
  <1>1. ASSUME NEW c \in Commands
        PROVE  /\ row'[c].answered = row[c].answered
               /\ row'[c].status = "completed" => row[c].status = "completed"
    <2>1. row[c] \in [status : Statuses, answered : BOOLEAN]
      BY DEF Typed, TypeOK
    <2>2. CASE row' = WithStatus(C, st)
      <3>1. \/ row'[c] = row[c]
            \/ row'[c] = [row[c] EXCEPT !.status = st]
        BY <2>2 DEF WithStatus
      <3> QED
        BY <2>1, <3>1
    <2> QED
      BY <2>2
  <1> QED
    BY <1>1 DEF AnswerOnlyIfRun

LEMMA AnswerDispatcher ==
    ASSUME Typed, AnswerInv, NEW c \in Commands, Dispatcher(c)
    PROVE  AnswerInv'
  <1>1. UNCHANGED <<up, hand, exec, runs>>
    BY DEF Dispatcher, Create, Lookup, WriteOk, WriteError, MarkSent,
           MarkSentFails, ReportOffline, PollDone, PollExpired, ReportTimeout
  <1>r. ResultsWereRun'
    BY <1>1, ResultsFrame DEF AnswerInv
  <1> SUFFICES AnswerOnlyIfRun'
    BY <1>r DEF AnswerInv
  <1>2. CASE Create(c)
    <2>1. row' = [row EXCEPT ![c] = [status |-> "queued", answered |-> FALSE]]
      BY <1>2 DEF Create
    <2> QED
      BY <1>1, <2>1 DEF Typed, TypeOK, AnswerInv, AnswerOnlyIfRun
  <1>3. CASE MarkSent(c)
    <2>1. row' = WithStatus({c}, "sent")
      BY <1>3 DEF MarkSent
    <2> QED
      BY <1>1, <2>1, AnswerKept DEF AnswerInv
  <1>4. CASE ReportOffline(c) \/ ReportTimeout(c)
    <2>1. row' = WithStatus({c}, "failed") \/ UNCHANGED row
      BY <1>4 DEF ReportOffline, ReportTimeout, Persist
    <2> QED
      BY <1>1, <2>1, AnswerKept DEF AnswerInv
  <1>5. CASE ~(Create(c) \/ MarkSent(c) \/ ReportOffline(c) \/ ReportTimeout(c))
    <2>1. UNCHANGED row
      BY <1>5 DEF Dispatcher, Lookup, WriteOk, WriteError, MarkSentFails,
                  PollDone, PollExpired
    <2> QED
      BY <1>1, <2>1, AnswerFrame DEF AnswerInv
  <1> QED
    BY <1>2, <1>3, <1>4, <1>5

LEMMA AnswerSession ==
    ASSUME Typed, AnswerInv, NEW s \in Sessions, Session(s)
    PROVE  AnswerInv'
  <1> USE DEF Typed, TypeOK
  <1>1. UNCHANGED <<exec, runs>>
    BY DEF Session, Register, Refuse, AddDevice, ReadResult, StoreResult,
           ReadError, EndServe, PingFails, CutWire
  <1>2. CASE StoreResult(s)
    <2>1. AnswerOnlyIfRun'
      <3>1. hand[s] \in Commands /\ runs[hand[s]] > 0
        BY <1>2 DEF AnswerInv, ResultsWereRun, StoreResult
      <3>2. \/ UNCHANGED row
            \/ row' = [row EXCEPT ![hand[s]] =
                          [status |-> "completed", answered |-> TRUE]]
        BY <1>2 DEF StoreResult, Persist, WithAnswer
      <3>3. ASSUME NEW c \in Commands, row'[c] # row[c]
            PROVE  runs[c] > 0 /\ row'[c].answered
        BY <3>1, <3>2, <3>3
      <3>4. UNCHANGED runs
        BY <1>1
      <3> QED
        BY <3>3, <3>4 DEF AnswerInv, AnswerOnlyIfRun
    <2>2. ResultsWereRun'
      BY <1>2 DEF AnswerInv, ResultsWereRun, StoreResult
    <2> QED
      BY <2>1, <2>2 DEF AnswerInv
  <1>3. CASE ReadResult(s)
    <2>1. up[s] \in Seq(Commands) /\ up[s] # <<>>
      BY <1>3 DEF ReadResult
    <2>2. up'[s] = Tail(up[s]) /\ hand'[s] = up[s][1]
      BY <1>3, <2>1 DEF ReadResult
    <2>3. \A i \in 1 .. Len(up'[s]) : runs[up'[s][i]] > 0
      BY <2>1, <2>2 DEF AnswerInv, ResultsWereRun
    <2>4. runs[hand'[s]] > 0
      BY <2>1, <2>2 DEF AnswerInv, ResultsWereRun
    <2>5. ResultsWereRun'
      BY <1>3, <2>3, <2>4 DEF AnswerInv, ResultsWereRun, ReadResult
    <2> QED
      BY <1>3, <2>5, AnswerFrame DEF AnswerInv, ReadResult
  <1>4. CASE Refuse(s) \/ EndServe(s)
    <2>1. up' = [up EXCEPT ![s] = <<>>] /\ UNCHANGED <<row, hand>>
      BY <1>4 DEF Refuse, EndServe
    <2>2. ResultsWereRun'
      BY <1>1, <2>1 DEF AnswerInv, ResultsWereRun
    <2> QED
      BY <1>1, <2>1, <2>2, AnswerFrame DEF AnswerInv
  <1>5. CASE \/ Register(s) \/ AddDevice(s) \/ ReadError(s)
             \/ PingFails(s) \/ CutWire(s)
    <2>1. UNCHANGED <<row, up, hand, exec, runs>>
      BY <1>5 DEF Register, AddDevice, ReadError, PingFails, CutWire
    <2> QED
      BY <2>1, AnswerFrame, ResultsFrame DEF AnswerInv
  <1> QED
    BY <1>2, <1>3, <1>4, <1>5 DEF Session

LEMMA AnswerAgent ==
    ASSUME Typed, AnswerInv, NEW d \in Devices, Agent(d)
    PROVE  AnswerInv'
  <1> USE DEF Typed, TypeOK
  <1>1. CASE \E s \in Sessions : Dial(d, s)
    BY <1>1, AnswerFrame, ResultsFrame DEF AnswerInv, Dial
  <1>2. CASE ReadCommand(d)
    BY <1>2, AnswerFrame, ResultsFrame DEF AnswerInv, ReadCommand
  <1>3. CASE Execute(d)
    <2>1. \A c \in Commands : runs'[c] >= runs[c]
      BY <1>3 DEF Execute
    <2>2. AnswerOnlyIfRun'
      BY <1>3, <2>1 DEF AnswerInv, AnswerOnlyIfRun, Execute
    <2>3. \A e \in Devices : exec'[e] # None => runs'[exec'[e]] > 0
      BY <1>3, <2>1 DEF AnswerInv, ResultsWereRun, Execute
    <2>4. ResultsWereRun'
      BY <1>3, <2>1, <2>3 DEF AnswerInv, ResultsWereRun, Execute
    <2> QED
      BY <2>2, <2>4 DEF AnswerInv
  <1>4. CASE SendResult(d)
    <2>1. exec[d] \in Commands /\ runs[exec[d]] > 0
      BY <1>4 DEF AnswerInv, ResultsWereRun, SendResult
    <2>2. \A s \in Sessions : \A i \in 1 .. Len(up'[s]) : runs[up'[s][i]] > 0
      BY <1>4, <2>1 DEF AnswerInv, ResultsWereRun, SendResult
    <2>3. ResultsWereRun'
      BY <1>4, <2>2 DEF AnswerInv, ResultsWereRun, SendResult
    <2> QED
      BY <1>4, <2>3, AnswerFrame DEF AnswerInv, SendResult
  <1>5. CASE Hangup(d) \/ Restart(d)
    <2>1. Leave(d)
      BY <1>5 DEF Hangup, Restart
    <2>2. ResultsWereRun'
      BY <2>1 DEF AnswerInv, ResultsWereRun, Leave
    <2> QED
      BY <2>1, <2>2, AnswerFrame DEF AnswerInv, Leave
  <1> QED
    BY <1>1, <1>2, <1>3, <1>4, <1>5 DEF Agent

LEMMA AnswerStep ==
    ASSUME Typed, AnswerInv, [Next]_vars
    PROVE  AnswerInv'
  <1>1. ASSUME NEW d \in Devices, DisconnectDevice(d) PROVE AnswerInv'
    BY <1>1, AnswerFrame, ResultsFrame
       DEF AnswerInv, DisconnectDevice, FindSession, TakeOut, CloseTakenOut
  <1>2. ASSUME NEW d \in Devices, DeleteRow(d) PROVE AnswerInv'
    <2>1. AnswerOnlyIfRun'
      BY <1>2 DEF Typed, TypeOK, AnswerInv, AnswerOnlyIfRun, DeleteRow, NoRow
    <2> QED
      BY <1>2, <2>1, ResultsFrame DEF AnswerInv, DeleteRow
  <1>3. ASSUME NEW E \in SUBSET Commands, Expire(E) PROVE AnswerInv'
    BY <1>3, AnswerKept, ResultsFrame DEF AnswerInv, Expire
  <1>4. CASE Crash
    <2>1. ResultsWereRun'
      BY <1>4 DEF AnswerInv, ResultsWereRun, Crash
    <2> QED
      BY <1>4, <2>1, AnswerFrame DEF AnswerInv, Crash
  <1>5. CASE UNCHANGED vars
    BY <1>5, AnswerFrame, ResultsFrame DEF AnswerInv, vars
  <1> QED
    BY <1>1, <1>2, <1>3, <1>4, <1>5, AnswerDispatcher, AnswerSession,
       AnswerAgent DEF Next

LEMMA AnswerAlways == Spec => []AnswerInv
  <1>1. Init => AnswerInv
    BY DEF Init, AnswerInv, AnswerOnlyIfRun, ResultsWereRun, NoRow
  <1> QED
    BY <1>1, AnswerStep, TypedAlways, PTL DEF Spec

\* No row claims an exit code, or the status 'completed', for a command that
\* was not executed, failing database writes and crashes included.
THEOREM AnswersAreReal == Spec => []AnswerOnlyIfRun
  <1>1. AnswerInv => AnswerOnlyIfRun
    BY DEF AnswerInv
  <1> QED
    BY <1>1, AnswerAlways, PTL
-----------------------------------------------------------------------------
(***************************************************************************)
(* At most once.  A command that was not written yet is nowhere; one that  *)
(* was is in at most one place, and there only before it is executed.      *)
(***************************************************************************)
NotSent(c) ==
    \/ pc[c] \in {"idle", "created", "picked"}
    \/ ~DBFaults /\ (pc[c] = "undelivered" \/ outcome[c] = "offline")

OutcomeLast == \A c \in Commands : outcome[c] # "none" => pc[c] = "returned"

UnsentNotRun == \A c \in Commands : NotSent(c) => runs[c] = 0

UnreadNotRun ==
    \A s \in Sessions : \A i \in 1 .. Len(down[s]) :
        runs[down[s][i]] = 0 /\ ~NotSent(down[s][i])

HeldNotRun ==
    \A d \in Devices : held[d] # None => runs[held[d]] = 0 /\ ~NotSent(held[d])

UnreadOnce ==
    \A s, t \in Sessions : \A i \in 1 .. Len(down[s]), j \in 1 .. Len(down[t]) :
        down[s][i] = down[t][j] => s = t /\ i = j

HeldOnce == \A d, e \in Devices : held[d] = held[e] /\ held[d] # None => d = e

HeldNotUnread ==
    \A d \in Devices, s \in Sessions : \A i \in 1 .. Len(down[s]) :
        held[d] # down[s][i]

OnePlace == UnreadOnce /\ HeldOnce /\ HeldNotUnread

TransitInv ==
    /\ AtMostOnce
    /\ OutcomeLast
    /\ UnsentNotRun
    /\ UnreadNotRun
    /\ HeldNotRun
    /\ OnePlace

\* A step that moves no command keeps the invariant, if it makes none unsent.
LEMMA TransitFrame ==
    ASSUME Typed, TransitInv, UNCHANGED <<down, held, runs>>, OutcomeLast',
           \A c \in Commands : NotSent(c)' => NotSent(c)
    PROVE  TransitInv'
  <1>1. AtMostOnce' /\ OnePlace'
    BY DEF TransitInv, AtMostOnce, OnePlace, UnreadOnce, HeldOnce, HeldNotUnread
  <1>2. UnsentNotRun'
    BY DEF TransitInv, UnsentNotRun
  <1>3. UnreadNotRun'
    <2>1. \A s \in Sessions : \A i \in 1 .. Len(down[s]) : down[s][i] \in Commands
      BY DEF Typed, TypeOK
    <2> QED
      BY <2>1 DEF TransitInv, UnreadNotRun
  <1>4. HeldNotRun'
    BY DEF Typed, TypeOK, TransitInv, HeldNotRun
  <1> QED
    BY <1>1, <1>2, <1>3, <1>4 DEF TransitInv

LEMMA TransitWrite ==
    ASSUME Typed, TransitInv, NEW c \in Commands, WriteOk(c)
    PROVE  TransitInv'
  <1>1. NotSent(c) /\ pc[c] = "picked" /\ outcome[c] = "none"
    BY DEF WriteOk, NotSent, TransitInv, OutcomeLast
  <1>2. /\ \A s \in Sessions : \A i \in 1 .. Len(down[s]) :
               down[s][i] \in Commands /\ down[s][i] # c
        /\ \A d \in Devices : held[d] # c
        /\ runs[c] = 0
    <2>1. \A s \in Sessions : \A i \in 1 .. Len(down[s]) : down[s][i] \in Commands
      BY DEF Typed, TypeOK
    <2>2. \A s \in Sessions : \A i \in 1 .. Len(down[s]) : down[s][i] # c
      BY <1>1 DEF TransitInv, UnreadNotRun
    <2>3. \A d \in Devices : held[d] # c
      BY <1>1, ConstantsOK DEF TransitInv, HeldNotRun
    <2>4. runs[c] = 0
      BY <1>1 DEF TransitInv, UnsentNotRun
    <2> QED
      BY <2>1, <2>2, <2>3, <2>4
  <1>3. /\ pc' = [pc EXCEPT ![c] = "written"]
        /\ UNCHANGED <<outcome, held, runs>>
    BY DEF WriteOk
  <1>4. /\ ~NotSent(c)'
        /\ \A b \in Commands : b # c => (NotSent(b)' <=> NotSent(b))
    BY <1>1, <1>3 DEF Typed, TypeOK, NotSent
  <1>5. OutcomeLast'
    BY <1>1, <1>3 DEF Typed, TypeOK, TransitInv, OutcomeLast
  <1>6. CASE UNCHANGED down
    BY <1>3, <1>4, <1>5, <1>6, TransitFrame
  <1>7. CASE /\ picked[c] \in Sessions
             /\ down' = [down EXCEPT ![picked[c]] = Append(@, c)]
    <2> DEFINE p == picked[c]
    <2>1. down[p] \in Seq(Commands)
      BY <1>7 DEF Typed, TypeOK
    <2>2. /\ Len(down'[p]) = Len(down[p]) + 1
          /\ down'[p][Len(down[p]) + 1] = c
          /\ \A i \in 1 .. Len(down[p]) : down'[p][i] = down[p][i]
          /\ \A s \in Sessions \ {p} : down'[s] = down[s]
      BY <1>7, <2>1 DEF Typed, TypeOK
    <2>3. \A s \in Sessions : \A i \in 1 .. Len(down'[s]) :
             \/ s = p /\ i = Len(down[p]) + 1 /\ down'[s][i] = c
             \/ i \in 1 .. Len(down[s]) /\ down'[s][i] = down[s][i]
      BY <1>7, <2>1, <2>2
    <2> HIDE DEF p
    <2>4. UnreadOnce'
      BY <1>2, <2>3, SMTT(30) DEF TransitInv, OnePlace, UnreadOnce
    <2>5. HeldNotUnread' /\ HeldOnce'
      BY <1>2, <1>3, <2>3 DEF TransitInv, OnePlace, HeldNotUnread, HeldOnce
    <2>6. UnreadNotRun'
      BY <1>2, <1>3, <1>4, <2>3 DEF TransitInv, UnreadNotRun
    <2>7. HeldNotRun' /\ UnsentNotRun' /\ AtMostOnce'
      BY <1>2, <1>3, <1>4
         DEF Typed, TypeOK, TransitInv, HeldNotRun, UnsentNotRun, AtMostOnce
    <2> QED
      BY <1>5, <2>4, <2>5, <2>6, <2>7 DEF TransitInv, OnePlace
  <1>8. CASE picked[c] \notin Sessions /\ ~UNCHANGED down
    <2>1. down' = [down EXCEPT ![picked[c]] = Append(@, c)]
      BY <1>8 DEF WriteOk
    <2> QED
      BY <1>8, <2>1 DEF Typed, TypeOK
  <1> QED
    BY <1>6, <1>7, <1>8 DEF WriteOk

LEMMA TransitDispatcher ==
    ASSUME Typed, TransitInv, NEW c \in Commands, Dispatcher(c)
    PROVE  TransitInv'
  <1>1. CASE WriteOk(c)
    BY <1>1, TransitWrite
  <1>2. CASE ~WriteOk(c)
    <2>1. UNCHANGED <<down, held, runs>>
      BY <1>2 DEF Dispatcher, Create, Lookup, WriteError, MarkSent,
                  MarkSentFails, ReportOffline, PollDone, PollExpired,
                  ReportTimeout
    <2>2. \A b \in Commands \ {c} : pc'[b] = pc[b] /\ outcome'[b] = outcome[b]
      <3>1. \E v : pc' = [pc EXCEPT ![c] = v]
        BY <1>2 DEF Dispatcher, Create, Lookup, WriteError, MarkSent,
                    MarkSentFails, ReportOffline, PollDone, PollExpired,
                    ReportTimeout
      <3>2. UNCHANGED outcome \/ \E v : outcome' = [outcome EXCEPT ![c] = v]
        BY <1>2 DEF Dispatcher, Create, Lookup, WriteError, MarkSent,
                    MarkSentFails, ReportOffline, PollDone, PollExpired,
                    ReportTimeout
      <3> QED
        BY <3>1, <3>2 DEF Typed, TypeOK
    <2>3. /\ outcome'[c] # "none" => pc'[c] = "returned"
          /\ NotSent(c)' => NotSent(c)
      <3> USE DEF Typed, TypeOK, NotSent
      <3>1. CASE \/ Create(c) \/ Lookup(c) \/ WriteError(c) \/ MarkSentFails(c)
                 \/ PollExpired(c)
        <4>1. pc[c] # "returned" /\ UNCHANGED outcome
          BY <3>1 DEF Create, Lookup, WriteError, MarkSentFails, PollExpired
        <4>2. outcome[c] = "none" /\ outcome'[c] = "none"
          BY <4>1 DEF TransitInv, OutcomeLast
        <4>3. NotSent(c)' => NotSent(c)
          BY <3>1, <4>2
             DEF Create, Lookup, WriteError, MarkSentFails, PollExpired
        <4> QED
          BY <4>2, <4>3
      <3>2. CASE MarkSent(c)
        <4>1. outcome[c] = "none"
          BY <3>2 DEF TransitInv, OutcomeLast, MarkSent
        <4> QED
          BY <3>2, <4>1 DEF MarkSent
      <3>3. CASE ReportOffline(c)
        BY <3>3 DEF ReportOffline
      <3>4. CASE PollDone(c)
        BY <3>4 DEF PollDone, Terminal
      <3>5. CASE ReportTimeout(c)
        BY <3>5 DEF ReportTimeout
      <3> QED
        BY <1>2, <3>1, <3>2, <3>3, <3>4, <3>5 DEF Dispatcher
    <2>4. OutcomeLast' /\ \A b \in Commands : NotSent(b)' => NotSent(b)
      BY <2>2, <2>3 DEF TransitInv, OutcomeLast, NotSent
    <2> QED
      BY <2>1, <2>4, TransitFrame
  <1> QED
    BY <1>1, <1>2

LEMMA TransitAgent ==
    ASSUME Typed, TransitInv, NEW d \in Devices, Agent(d)
    PROVE  TransitInv'
  <1> USE DEF Typed, TypeOK
  <1>1. UNCHANGED <<pc, outcome>>
    BY DEF Agent, Dial, ReadCommand, Execute, SendResult, Hangup, Restart, Leave
  <1>2. OutcomeLast' /\ \A c \in Commands : NotSent(c)' <=> NotSent(c)
    BY <1>1 DEF TransitInv, OutcomeLast, NotSent
  <1>3. CASE (\E s \in Sessions : Dial(d, s)) \/ SendResult(d)
    <2>1. UNCHANGED <<down, held, runs>>
      BY <1>3 DEF Dial, SendResult
    <2> QED
      BY <1>2, <2>1, TransitFrame
  <1>4. CASE ReadCommand(d)
    <2> DEFINE s == cli[d]
    <2>1. /\ s \in Sessions
          /\ down[s] \in Seq(Commands) /\ down[s] # <<>>
          /\ held[d] = None
          /\ held' = [held EXCEPT ![d] = down[s][1]]
          /\ down' = [down EXCEPT ![s] = Tail(@)]
          /\ UNCHANGED runs
      BY <1>4 DEF ReadCommand
    <2>2. \A t \in Sessions : \A i \in 1 .. Len(down'[t]) :
             \/ t # s /\ i \in 1 .. Len(down[t]) /\ down'[t][i] = down[t][i]
             \/ t = s /\ i + 1 \in 1 .. Len(down[s]) /\ down'[t][i] = down[s][i + 1]
      BY <2>1
    <2>3. 1 \in 1 .. Len(down[s]) /\ held'[d] = down[s][1] /\ down[s][1] \in Commands
      BY <2>1
    <2>4. \A e \in Devices \ {d} : held'[e] = held[e]
      BY <2>1
    <2> HIDE DEF s
    <2>5. \A t \in Sessions : \A i \in 1 .. Len(down'[t]) :
             \E k \in 1 .. Len(down[t]) :
                 /\ down'[t][i] = down[t][k]
                 /\ t = s => k = i + 1
                 /\ t # s => k = i
      BY <2>1, <2>2
    <2>6. UnreadOnce'
      BY <2>1, <2>2, SMTT(30) DEF TransitInv, OnePlace, UnreadOnce
    <2>7. HeldNotUnread'
      <3>1. \A t \in Sessions : \A i \in 1 .. Len(down'[t]) : held'[d] # down'[t][i]
        BY <2>1, <2>2, <2>3 DEF TransitInv, OnePlace, UnreadOnce
      <3>2. ASSUME NEW e \in Devices \ {d}, NEW t \in Sessions,
                   NEW i \in 1 .. Len(down'[t])
            PROVE  held'[e] # down'[t][i]
        <4>1. PICK k \in 1 .. Len(down[t]) : down'[t][i] = down[t][k]
          BY <2>5
        <4>2. held[e] # down[t][k]
          BY DEF TransitInv, OnePlace, HeldNotUnread
        <4> QED
          BY <2>4, <4>1, <4>2
      <3> QED
        BY <3>1, <3>2 DEF HeldNotUnread
    <2>8. HeldOnce'
      BY <2>1, <2>3, <2>4 DEF TransitInv, OnePlace, HeldOnce, HeldNotUnread
    <2>9. UnreadNotRun'
      BY <1>2, <2>1, <2>5 DEF TransitInv, UnreadNotRun
    <2>10. HeldNotRun'
      BY <1>2, <2>1, <2>3, <2>4 DEF TransitInv, HeldNotRun, UnreadNotRun
    <2>11. UnsentNotRun' /\ AtMostOnce'
      BY <1>2, <2>1 DEF TransitInv, UnsentNotRun, AtMostOnce
    <2> QED
      BY <1>2, <2>6, <2>7, <2>8, <2>9, <2>10, <2>11 DEF TransitInv, OnePlace
  <1>5. CASE Execute(d)
    <2> DEFINE c == held[d]
    <2>1. /\ c \in Commands /\ runs[c] = 0 /\ ~NotSent(c)
          /\ held' = [held EXCEPT ![d] = None]
          /\ runs' = [runs EXCEPT ![c] = 1]
          /\ UNCHANGED down
      <3>1. c \in Commands
        BY <1>5 DEF Execute
      <3>2. runs[c] = 0 /\ ~NotSent(c)
        BY <1>5 DEF Execute, TransitInv, HeldNotRun
      <3>3. runs' = [runs EXCEPT ![c] = runs[c] + 1]
        BY <1>5 DEF Execute
      <3> QED
        BY <1>5, <3>1, <3>2, <3>3 DEF Execute
    <2>2. \A e \in Devices : e # d => held[e] # c
      BY <2>1, ConstantsOK DEF TransitInv, OnePlace, HeldOnce
    <2>3. \A s \in Sessions : \A i \in 1 .. Len(down[s]) :
             down[s][i] \in Commands /\ down[s][i] # c
      <3>1. \A s \in Sessions : \A i \in 1 .. Len(down[s]) : down[s][i] \in Commands
        OBVIOUS
      <3> QED
        BY <3>1 DEF TransitInv, OnePlace, HeldNotUnread
    <2>4. \A e \in Devices : held'[e] # None => e # d /\ held'[e] = held[e]
      BY <2>1
    <2> HIDE DEF c
    <2>5. UnreadOnce'
      BY <2>1 DEF TransitInv, OnePlace, UnreadOnce
    <2>6. HeldNotUnread' /\ HeldOnce'
      <3>1. \A s \in Sessions : \A i \in 1 .. Len(down[s]) : None # down[s][i]
        BY <2>3, ConstantsOK
      <3> QED
        BY <2>1, <2>4, <3>1 DEF TransitInv, OnePlace, HeldNotUnread, HeldOnce
    <2>7. UnreadNotRun'
      BY <1>2, <2>1, <2>3 DEF TransitInv, UnreadNotRun
    <2>8. HeldNotRun'
      BY <1>2, <2>1, <2>2, <2>4 DEF TransitInv, HeldNotRun
    <2>9. UnsentNotRun' /\ AtMostOnce'
      BY <1>2, <2>1 DEF TransitInv, UnsentNotRun, AtMostOnce
    <2> QED
      BY <1>2, <2>5, <2>6, <2>7, <2>8, <2>9 DEF TransitInv, OnePlace
  <1>6. CASE Hangup(d) \/ Restart(d)
    <2>1. Leave(d)
      BY <1>6 DEF Hangup, Restart
    <2>2. /\ \A s \in Sessions : down'[s] = down[s] \/ down'[s] = <<>>
          /\ \A e \in Devices : held'[e] = held[e] \/ held'[e] = None
          /\ UNCHANGED runs
      BY <2>1 DEF Leave
    <2>3. \A s \in Sessions : \A i \in 1 .. Len(down'[s]) :
             /\ i \in 1 .. Len(down[s])
             /\ down'[s][i] = down[s][i]
             /\ down[s][i] \in Commands
      BY <2>2
    <2>4. OnePlace'
      BY <2>2, <2>3, ConstantsOK
         DEF TransitInv, OnePlace, UnreadOnce, HeldOnce, HeldNotUnread
    <2>5. UnreadNotRun' /\ HeldNotRun'
      <3> HIDE DEF Typed, TypeOK
      <3>1. UnreadNotRun /\ HeldNotRun
        BY DEF TransitInv
      <3>2. UnreadNotRun'
        <4> SUFFICES ASSUME NEW s \in Sessions, NEW i \in 1 .. Len(down'[s])
                     PROVE  (runs[down[s][i]] = 0 /\ ~NotSent(down[s][i]))'
          BY DEF UnreadNotRun
        <4>1. i \in 1 .. Len(down[s]) /\ down'[s][i] = down[s][i]
          BY <2>3
        <4>2. runs[down[s][i]] = 0 /\ ~NotSent(down[s][i])
          BY <3>1, <4>1 DEF UnreadNotRun
        <4> QED
          BY <1>1, <2>2, <4>1, <4>2 DEF NotSent
      <3>3. HeldNotRun'
        BY <1>1, <2>2, <3>1 DEF HeldNotRun, NotSent
      <3> QED
        BY <3>2, <3>3
    <2>6. UnsentNotRun' /\ AtMostOnce'
      BY <1>2, <2>2 DEF TransitInv, UnsentNotRun, AtMostOnce
    <2> QED
      BY <1>2, <2>4, <2>5, <2>6 DEF TransitInv
  <1> QED
    BY <1>3, <1>4, <1>5, <1>6 DEF Agent

LEMMA TransitStep ==
    ASSUME Typed, TransitInv, [Next]_vars
    PROVE  TransitInv'
  <1>1. CASE \/ \E s \in Sessions : Session(s)
             \/ \E d \in Devices : DisconnectDevice(d) \/ DeleteRow(d)
             \/ \E E \in SUBSET Commands : Expire(E)
             \/ UNCHANGED vars
    <2>1. UNCHANGED <<down, held, runs, pc, outcome>>
      BY <1>1 DEF Session, Register, Refuse, AddDevice, ReadResult, StoreResult,
                  ReadError, EndServe, PingFails, CutWire,
                  DisconnectDevice, FindSession, TakeOut, CloseTakenOut,
                  DeleteRow, Expire, vars
    <2>2. OutcomeLast' /\ \A c \in Commands : NotSent(c)' => NotSent(c)
      BY <2>1 DEF TransitInv, OutcomeLast, NotSent
    <2> QED
      BY <2>1, <2>2, TransitFrame
  <1>2. CASE Crash
    <2>1. UNCHANGED <<down, held, runs, outcome>>
      BY <1>2 DEF Crash
    <2>2. \A c \in Commands :
             \/ pc'[c] = pc[c]
             \/ pc'[c] = "crashed" /\ pc[c] # "returned"
      BY <1>2 DEF Crash
    <2>3. OutcomeLast' /\ \A c \in Commands : NotSent(c)' => NotSent(c)
      BY <2>1, <2>2 DEF TransitInv, OutcomeLast, NotSent
    <2> QED
      BY <2>1, <2>3, TransitFrame
  <1> QED
    BY <1>1, <1>2, TransitDispatcher, TransitAgent DEF Next

LEMMA TransitAlways == Spec => []TransitInv
  <1>1. Init => TransitInv
    BY DEF Init, TransitInv, AtMostOnce, OutcomeLast, UnsentNotRun, UnreadNotRun,
           HeldNotRun, OnePlace, UnreadOnce, HeldOnce, HeldNotUnread
  <1> QED
    BY <1>1, TransitStep, TypedAlways, PTL DEF Spec

\* No command is executed twice, however often agents and the server restart,
\* sessions are replaced and writes fail.
THEOREM ExecutedAtMostOnce == Spec => []AtMostOnce
  <1>1. TransitInv => AtMostOnce
    BY DEF TransitInv
  <1> QED
    BY <1>1, TransitAlways, PTL
-----------------------------------------------------------------------------
(***************************************************************************)
(* The device a command goes to.  A session belongs to the device that     *)
(* dialled it for good, so whatever has found its way to a session (a      *)
(* lookup in the hub, a frame written, an agent's connection) is right to  *)
(* the end, however stale it is when it is used.  The disjunct "free" says *)
(* that nothing refers to a session before it is dialled.                  *)
(***************************************************************************)
BelongsTo(s, d) == serve[s] # "free" /\ owner[s] = d

PickedRight ==
    \A c \in Commands : picked[c] # None => BelongsTo(picked[c], Target[c])

UnreadRight ==
    \A s \in Sessions : \A i \in 1 .. Len(down[s]) :
        BelongsTo(s, Target[down[s][i]])

DialledByOwner == \A d \in Devices : cli[d] # None => BelongsTo(cli[d], d)

RouteInv == PickedRight /\ UnreadRight /\ DialledByOwner /\ RightDevice

\* What a session belongs to it keeps.
LEMMA OwnerStays ==
    ASSUME Typed, [Next]_vars, NEW s \in Sessions, NEW d \in Devices,
           BelongsTo(s, d)
    PROVE  serve'[s] # "free" /\ owner'[s] = d
  <1> USE DEF Typed, TypeOK, BelongsTo
  <1>1. ASSUME NEW c \in Commands, Dispatcher(c) PROVE BelongsTo(s, d)'
    BY <1>1 DEF Dispatcher, Create, Lookup, WriteOk, WriteError, MarkSent,
                MarkSentFails, ReportOffline, PollDone, PollExpired,
                ReportTimeout
  <1>2. ASSUME NEW t \in Sessions, Session(t) PROVE BelongsTo(s, d)'
    BY <1>2 DEF Session, Register, Refuse, AddDevice, ReadResult, StoreResult,
                ReadError, EndServe, PingFails, CutWire
  <1>3. ASSUME NEW e \in Devices, NEW t \in Sessions, Dial(e, t)
        PROVE  BelongsTo(s, d)'
    BY <1>3 DEF Dial
  <1>4. ASSUME NEW e \in Devices,
               \/ ReadCommand(e) \/ Execute(e) \/ SendResult(e)
               \/ Hangup(e) \/ Restart(e) \/ DisconnectDevice(e) \/ DeleteRow(e)
        PROVE  BelongsTo(s, d)'
    BY <1>4 DEF ReadCommand, Execute, SendResult, Hangup, Restart, Leave,
                DisconnectDevice, FindSession, TakeOut, CloseTakenOut, DeleteRow
  <1>5. ASSUME NEW E \in SUBSET Commands, Expire(E) PROVE BelongsTo(s, d)'
    BY <1>5 DEF Expire
  <1>6. CASE Crash
    BY <1>6 DEF Crash
  <1>7. CASE UNCHANGED vars
    BY <1>7 DEF vars
  <1> QED
    BY <1>1, <1>2, <1>3, <1>4, <1>5, <1>6, <1>7 DEF Next, Agent

\* A step that refers to no session or command it did not refer to before.
LEMMA RouteFrame ==
    ASSUME Typed, RouteInv, [Next]_vars,
           \A c \in Commands : picked'[c] \in {picked[c], None},
           \A s \in Sessions : down'[s] \in {down[s], <<>>},
           \A d \in Devices : /\ cli'[d] \in {cli[d], None}
                              /\ held'[d] \in {held[d], None}
                              /\ exec'[d] \in {exec[d], held[d], None}
    PROVE  RouteInv'
  <1>1. PickedRight'
    <2> SUFFICES ASSUME NEW c \in Commands, picked'[c] # None
                 PROVE  /\ serve'[picked[c]] # "free"
                        /\ owner'[picked[c]] = Target[c]
      BY DEF PickedRight, BelongsTo
    <2>1. picked[c] \in Sessions /\ Target[c] \in Devices /\ picked[c] # None
      BY ConstantsOK DEF Typed, TypeOK
    <2> QED
      BY <2>1, OwnerStays DEF RouteInv, PickedRight
  <1>2. UnreadRight'
    <2> SUFFICES ASSUME NEW s \in Sessions, NEW i \in 1 .. Len(down'[s])
                 PROVE  /\ serve'[s] # "free"
                        /\ owner'[s] = Target[down'[s][i]]
      BY DEF UnreadRight, BelongsTo
    <2>1. down[s] \in Seq(Commands)
      BY DEF Typed, TypeOK
    <2>2. i \in 1 .. Len(down[s]) /\ down'[s][i] = down[s][i]
      BY <2>1
    <2>3. Target[down[s][i]] \in Devices
      BY <2>1, <2>2, ConstantsOK
    <2>4. BelongsTo(s, Target[down[s][i]])
      BY <2>2 DEF RouteInv, UnreadRight
    <2> QED
      BY <2>2, <2>3, <2>4, OwnerStays
  <1>3. DialledByOwner'
    <2> SUFFICES ASSUME NEW d \in Devices, cli'[d] # None
                 PROVE  serve'[cli[d]] # "free" /\ owner'[cli[d]] = d
      BY DEF DialledByOwner, BelongsTo
    <2>1. cli[d] \in Sessions /\ cli[d] # None
      BY DEF Typed, TypeOK
    <2> QED
      BY <2>1, OwnerStays DEF RouteInv, DialledByOwner
  <1>4. RightDevice'
    BY DEF RouteInv, RightDevice
  <1> QED
    BY <1>1, <1>2, <1>3, <1>4 DEF RouteInv

\* DispatchCommand takes from the hub a session of the command's device.
LEMMA RouteLookup ==
    ASSUME Typed, HubInv, RouteInv, NEW c \in Commands, Lookup(c)
    PROVE  RouteInv'
  <1>1. /\ picked' = [picked EXCEPT ![c] = hub[Target[c]]]
        /\ UNCHANGED <<owner, serve, down, cli, held, exec>>
    BY DEF Lookup
  <1>2. PickedRight'
    <2>1. hub[Target[c]] # None => BelongsTo(hub[Target[c]], Target[c])
      BY ConstantsOK DEF HubInv, HubEntryIsServed, BelongsTo
    <2> QED
      BY <1>1, <2>1 DEF Typed, TypeOK, RouteInv, PickedRight, BelongsTo
  <1>3. UnreadRight' /\ DialledByOwner' /\ RightDevice'
    BY <1>1 DEF RouteInv, UnreadRight, DialledByOwner, RightDevice, BelongsTo
  <1> QED
    BY <1>2, <1>3 DEF RouteInv

\* A frame is written on the session the command was looked up for.
LEMMA RouteWrite ==
    ASSUME Typed, RouteInv, NEW c \in Commands, WriteOk(c)
    PROVE  RouteInv'
  <1> DEFINE p == picked[c]
  <1>1. /\ picked' = [picked EXCEPT ![c] = None]
        /\ down' = down \/ down' = [down EXCEPT ![p] = Append(@, c)]
        /\ UNCHANGED <<owner, serve, cli, held, exec>>
    BY DEF WriteOk
  <1>2. PickedRight' /\ DialledByOwner' /\ RightDevice'
    BY <1>1 DEF Typed, TypeOK, RouteInv, PickedRight, DialledByOwner,
                RightDevice, BelongsTo
  <1>3. CASE p \in Sessions
    <2>1. BelongsTo(p, Target[c])
      BY <1>3, ConstantsOK DEF RouteInv, PickedRight
    <2>2. \A s \in Sessions : \A i \in 1 .. Len(down'[s]) :
             \/ i \in 1 .. Len(down[s]) /\ down'[s][i] = down[s][i]
             \/ s = p /\ down'[s][i] = c
      <3>1. down[p] \in Seq(Commands)
        BY <1>3 DEF Typed, TypeOK
      <3>2. Append(down[p], c) \in Seq(Commands)
        BY <3>1
      <3>3. \A i \in 1 .. Len(Append(down[p], c)) :
               \/ i \in 1 .. Len(down[p]) /\ Append(down[p], c)[i] = down[p][i]
               \/ Append(down[p], c)[i] = c
        BY <3>1
      <3> HIDE DEF p
      <3> QED
        BY <1>1, <3>3 DEF Typed, TypeOK
    <2> HIDE DEF p
    <2> QED
      BY <1>1, <1>2, <2>1, <2>2 DEF RouteInv, UnreadRight, BelongsTo
  <1>4. CASE p \notin Sessions
    <2>1. UNCHANGED down
      BY <1>1, <1>4 DEF Typed, TypeOK
    <2> QED
      BY <1>1, <1>2, <2>1 DEF RouteInv, UnreadRight, BelongsTo
  <1> QED
    BY <1>3, <1>4

\* The agent dials a session nothing refers to yet, and it reads its commands
\* from the session it dialled.
LEMMA RouteAgent ==
    ASSUME Typed, RouteInv, NEW d \in Devices,
           (\E s \in Sessions : Dial(d, s)) \/ ReadCommand(d)
    PROVE  RouteInv'
  <1> USE DEF Typed, TypeOK
  <1>1. ASSUME NEW s \in Sessions, Dial(d, s) PROVE RouteInv'
    <2>1. /\ serve[s] = "free"
          /\ serve' = [serve EXCEPT ![s] = "dialled"]
          /\ owner' = [owner EXCEPT ![s] = d]
          /\ cli' = [cli EXCEPT ![d] = s]
          /\ UNCHANGED <<picked, down, held, exec>>
      BY <1>1 DEF Dial
    <2>2. PickedRight'
      BY <2>1 DEF RouteInv, PickedRight, BelongsTo
    <2>3. UnreadRight'
      BY <2>1 DEF RouteInv, UnreadRight, BelongsTo
    <2>4. DialledByOwner'
      BY <2>1 DEF RouteInv, DialledByOwner, BelongsTo
    <2> QED
      BY <2>1, <2>2, <2>3, <2>4 DEF RouteInv, RightDevice
  <1>2. CASE ReadCommand(d)
    <2> DEFINE s == cli[d]
    <2>1. /\ s \in Sessions
          /\ down[s] \in Seq(Commands) /\ down[s] # <<>>
          /\ held' = [held EXCEPT ![d] = down[s][1]]
          /\ down' = [down EXCEPT ![s] = Tail(@)]
          /\ UNCHANGED <<owner, serve, picked, cli, exec>>
      BY <1>2 DEF ReadCommand
    <2>2. \A t \in Sessions : \A i \in 1 .. Len(down'[t]) :
             \E k \in 1 .. Len(down[t]) : down'[t][i] = down[t][k]
      <3>1. \A i \in 1 .. Len(Tail(down[s])) :
               i + 1 \in 1 .. Len(down[s]) /\ Tail(down[s])[i] = down[s][i + 1]
        BY <2>1
      <3> QED
        BY <2>1, <3>1
    <2>3. Target[down[s][1]] = d
      <3>1. 1 \in 1 .. Len(down[s])
        BY <2>1
      <3>2. s # None
        BY <2>1, ConstantsOK
      <3> QED
        BY <2>1, <3>1, <3>2 DEF RouteInv, UnreadRight, DialledByOwner, BelongsTo
    <2> HIDE DEF s
    <2>4. PickedRight' /\ DialledByOwner'
      BY <2>1 DEF RouteInv, PickedRight, DialledByOwner, BelongsTo
    <2>5. UnreadRight'
      <3> SUFFICES ASSUME NEW t \in Sessions, NEW i \in 1 .. Len(down'[t])
                   PROVE  /\ serve[t] # "free"
                          /\ owner[t] = Target[down'[t][i]]
        BY <2>1 DEF UnreadRight, BelongsTo
      <3>1. PICK k \in 1 .. Len(down[t]) : down'[t][i] = down[t][k]
        BY <2>2
      <3> QED
        BY <3>1 DEF RouteInv, UnreadRight, BelongsTo
    <2>6. RightDevice'
      BY <2>1, <2>3 DEF RouteInv, RightDevice
    <2> QED
      BY <2>4, <2>5, <2>6 DEF RouteInv
  <1> QED
    BY <1>1, <1>2

LEMMA RouteStep ==
    ASSUME Typed, HubInv, RouteInv, [Next]_vars
    PROVE  RouteInv'
  <1> DEFINE Keeps ==
        /\ \A c \in Commands : picked'[c] \in {picked[c], None}
        /\ \A s \in Sessions : down'[s] \in {down[s], <<>>}
        /\ \A d \in Devices : /\ cli'[d] \in {cli[d], None}
                              /\ held'[d] \in {held[d], None}
                              /\ exec'[d] \in {exec[d], held[d], None}
  <1>1. ASSUME NEW c \in Commands, Dispatcher(c), ~Lookup(c), ~WriteOk(c)
        PROVE  Keeps
    BY <1>1 DEF Typed, TypeOK, Dispatcher, Create, WriteError, MarkSent,
                MarkSentFails, ReportOffline, PollDone, PollExpired,
                ReportTimeout
  <1>2. ASSUME NEW s \in Sessions, Session(s) PROVE Keeps
    BY <1>2 DEF Session, Register, Refuse, AddDevice, ReadResult, StoreResult,
                ReadError, EndServe, PingFails, CutWire
  <1>3. ASSUME NEW d \in Devices, Execute(d) \/ SendResult(d) PROVE Keeps
    BY <1>3 DEF Typed, TypeOK, Execute, SendResult
  <1>4. ASSUME NEW d \in Devices, Hangup(d) \/ Restart(d) PROVE Keeps
    BY <1>4 DEF Typed, TypeOK, Hangup, Restart, Leave
  <1>5. ASSUME NEW d \in Devices, DisconnectDevice(d) \/ DeleteRow(d) PROVE Keeps
    BY <1>5 DEF DisconnectDevice, FindSession, TakeOut, CloseTakenOut, DeleteRow
  <1>6. ASSUME NEW E \in SUBSET Commands, Expire(E) PROVE Keeps
    BY <1>6 DEF Expire
  <1>7. CASE Crash
    <2>1. Keeps
      BY <1>7 DEF Crash
    <2> QED
      BY <2>1, RouteFrame
  <1>8. CASE UNCHANGED vars
    <2>1. Keeps
      BY <1>8 DEF vars
    <2> QED
      BY <2>1, RouteFrame
  <1>9. Keeps => RouteInv'
    BY RouteFrame
  <1> HIDE DEF Keeps
  <1> QED
    BY <1>1, <1>2, <1>3, <1>4, <1>5, <1>6, <1>7, <1>8, <1>9, RouteLookup,
       RouteWrite, RouteAgent DEF Next, Agent

LEMMA RouteAlways == Spec => []RouteInv
  <1>1. Init => RouteInv
    BY DEF Init, RouteInv, PickedRight, UnreadRight, DialledByOwner, RightDevice
  <1> QED
    BY <1>1, RouteStep, TypedAlways, HubAlways, PTL DEF Spec

\* A device never holds a command meant for another one, whichever session the
\* dispatcher looked up and however stale it was when the frame was written.
THEOREM CommandsReachTheirDevice == Spec => []RightDevice
  <1>1. RouteInv => RightDevice
    BY DEF RouteInv
  <1> QED
    BY <1>1, RouteAlways, PTL
-----------------------------------------------------------------------------
(***************************************************************************)
(* The status of a row, and where its dispatcher stands.                   *)
(***************************************************************************)
RowInvOf(c) ==
    /\ pc[c] = "idle" => row[c].status = "none"
    /\ pc[c] \in {"created", "picked"} => row[c].status \in {"queued", "none"}
    /\ pc[c] \in {"written", "undelivered"} =>
           row[c].status \in {"queued", "completed", "none"}
    /\ outcome[c] = "completed" => row[c].status \in {"completed", "none"}
    /\ outcome[c] = "offline" /\ ~DBFaults => row[c].status \in {"failed", "none"}

RowInv == \A c \in Commands : RowInvOf(c)

\* A step of one dispatcher leaves the others, their rows and verdicts alone.
LEMMA DispatcherLocal ==
    ASSUME Typed, NEW c \in Commands, Dispatcher(c), NEW b \in Commands, b # c
    PROVE  row'[b] = row[b] /\ pc'[b] = pc[b] /\ outcome'[b] = outcome[b]
  <1>1. \E v : pc' = [pc EXCEPT ![c] = v]
    BY DEF Dispatcher, Create, Lookup, WriteOk, WriteError, MarkSent,
           MarkSentFails, ReportOffline, PollDone, PollExpired, ReportTimeout
  <1>2. UNCHANGED outcome \/ \E v : outcome' = [outcome EXCEPT ![c] = v]
    BY DEF Dispatcher, Create, Lookup, WriteOk, WriteError, MarkSent,
           MarkSentFails, ReportOffline, PollDone, PollExpired, ReportTimeout
  <1>3. \/ UNCHANGED row
        \/ \E v : row' = [row EXCEPT ![c] = v]
        \/ \E st : row' = WithStatus({c}, st)
    BY DEF Dispatcher, Create, Lookup, WriteOk, WriteError, MarkSent,
           MarkSentFails, ReportOffline, PollDone, PollExpired, ReportTimeout,
           Persist
  <1>4. row'[b] = row[b]
    BY <1>3 DEF Typed, TypeOK, WithStatus
  <1> QED
    BY <1>1, <1>2, <1>4 DEF Typed, TypeOK

LEMMA WithStatusOf ==
    ASSUME Typed, NEW C, NEW st \in Statuses, NEW c \in Commands
    PROVE  WithStatus(C, st)[c].status =
               IF c \in C /\ row[c].status # "none" THEN st ELSE row[c].status
  <1>1. row[c] \in [status : Statuses, answered : BOOLEAN]
    BY DEF Typed, TypeOK
  <1>2. WithStatus(C, st)[c] =
            IF c \in C /\ row[c].status # "none"
            THEN [row[c] EXCEPT !.status = st] ELSE row[c]
    BY DEF WithStatus
  <1> QED
    BY <1>1, <1>2

LEMMA RowDispatcher ==
    ASSUME Typed, TransitInv, RowInv, NEW c \in Commands, Dispatcher(c)
    PROVE  RowInv'
  <1>1. \A b \in Commands \ {c} : RowInvOf(b)'
    BY DispatcherLocal DEF RowInv, RowInvOf
  <1> SUFFICES RowInvOf(c)'
    BY <1>1 DEF RowInv
  <1>2. RowInvOf(c)
    BY DEF RowInv
  <1> USE DEF Typed, TypeOK
  <1>o. pc[c] # "returned" => outcome[c] = "none"
    BY DEF TransitInv, OutcomeLast
  <1>f. WithStatus({c}, "failed")[c].status \in {"failed", "none"}
    BY WithStatusOf DEF Statuses
  <1>3. CASE Create(c)
    BY <1>2, <1>3, <1>o DEF RowInvOf, Create
  <1>4. CASE Lookup(c) \/ WriteOk(c) \/ WriteError(c) \/ MarkSentFails(c)
    BY <1>2, <1>4, <1>o DEF RowInvOf, Lookup, WriteOk, WriteError, MarkSentFails
  <1>5. CASE MarkSent(c)
    <2>1. /\ pc'[c] \in {"waiting", "returned"}
          /\ outcome'[c] \in {"none", "accepted"}
      BY <1>5, <1>o DEF MarkSent
    <2> QED
      BY <2>1 DEF RowInvOf
  <1>6. CASE ReportOffline(c)
    <2>1. pc'[c] = "returned" /\ outcome'[c] = "offline"
      BY <1>6 DEF ReportOffline
    <2>2. ~DBFaults => row' = WithStatus({c}, "failed")
      BY <1>6 DEF ReportOffline, Persist
    <2> QED
      BY <1>f, <2>1, <2>2 DEF RowInvOf
  <1>7. CASE PollDone(c)
    BY <1>2, <1>7 DEF RowInvOf, PollDone, Terminal
  <1>8. CASE PollExpired(c)
    BY <1>2, <1>8, <1>o DEF RowInvOf, PollExpired
  <1>9. CASE ReportTimeout(c)
    BY <1>9 DEF RowInvOf, ReportTimeout
  <1> QED
    BY <1>3, <1>4, <1>5, <1>6, <1>7, <1>8, <1>9 DEF Dispatcher

\* An answer can only be stored for a command that was sent.
LEMMA AnswerStored ==
    ASSUME Typed, AnswerInv, NEW s \in Sessions, StoreResult(s)
    PROVE  /\ hand[s] \in Commands /\ runs[hand[s]] > 0
           /\ \A c \in Commands :
                 \/ row'[c] = row[c]
                 \/ /\ c = hand[s] /\ row[c].status # "none"
                    /\ row'[c] = [status |-> "completed", answered |-> TRUE]
  <1>1. hand[s] \in Commands /\ runs[hand[s]] > 0
    BY DEF StoreResult, Typed, TypeOK, AnswerInv, ResultsWereRun
  <1>2. \/ UNCHANGED row
        \/ /\ row[hand[s]].status # "none"
           /\ row' = [row EXCEPT ![hand[s]] =
                         [status |-> "completed", answered |-> TRUE]]
    BY DEF StoreResult, Persist, WithAnswer
  <1> QED
    BY <1>1, <1>2 DEF Typed, TypeOK

LEMMA RowStep ==
    ASSUME Typed, AnswerInv, TransitInv, RowInv, [Next]_vars
    PROVE  RowInv'
  <1> USE DEF Typed, TypeOK
  <1>1. ASSUME NEW s \in Sessions, StoreResult(s) PROVE RowInv'
    <2> SUFFICES ASSUME NEW c \in Commands PROVE RowInvOf(c)'
      BY DEF RowInv
    <2>1. UNCHANGED <<pc, outcome>>
      BY <1>1 DEF StoreResult
    <2>2. RowInvOf(c)
      BY DEF RowInv
    <2>3. CASE row'[c] = row[c]
      BY <2>1, <2>2, <2>3 DEF RowInvOf
    <2>4. CASE row'[c] # row[c]
      <3>1. /\ runs[c] > 0 /\ row[c].status # "none"
            /\ row'[c].status = "completed"
        BY <1>1, <2>4, AnswerStored
      <3>2. ~NotSent(c)
        BY <3>1 DEF TransitInv, UnsentNotRun
      <3> QED
        BY <2>1, <2>2, <3>1, <3>2 DEF RowInvOf, NotSent
    <2> QED
      BY <2>3, <2>4
  <1>2. ASSUME UNCHANGED <<row, pc, outcome>> PROVE RowInv'
    BY <1>2 DEF RowInv, RowInvOf
  <1>3. ASSUME NEW s \in Sessions, Session(s), ~StoreResult(s) PROVE RowInv'
    <2>1. UNCHANGED <<row, pc, outcome>>
      BY <1>3 DEF Session, Register, Refuse, AddDevice, ReadResult, ReadError,
                  EndServe, PingFails, CutWire
    <2> QED
      BY <1>2, <2>1
  <1>4. ASSUME NEW d \in Devices, Agent(d) \/ DisconnectDevice(d) PROVE RowInv'
    <2>1. UNCHANGED <<row, pc, outcome>>
      BY <1>4 DEF Agent, Dial, ReadCommand, Execute, SendResult, Hangup,
                  Restart, Leave,
                  DisconnectDevice, FindSession, TakeOut, CloseTakenOut
    <2> QED
      BY <1>2, <2>1
  <1>5. ASSUME NEW d \in Devices, DeleteRow(d) PROVE RowInv'
    <2>1. \A c \in Commands : row'[c] = row[c] \/ row'[c].status = "none"
      BY <1>5 DEF DeleteRow, NoRow
    <2> QED
      BY <1>5, <2>1 DEF RowInv, RowInvOf, DeleteRow
  <1>6. ASSUME NEW E \in SUBSET Commands, Expire(E) PROVE RowInv'
    <2>1. \A c \in Commands :
             \/ row'[c].status = row[c].status
             \/ row[c].status = "sent" /\ row'[c].status = "failed"
      BY <1>6, WithStatusOf DEF Expire, Statuses
    <2> QED
      BY <1>6, <2>1 DEF RowInv, RowInvOf, Expire
  <1>7. CASE Crash
    <2>1. \A c \in Commands : pc'[c] = pc[c] \/ pc'[c] = "crashed"
      BY <1>7 DEF Crash
    <2> QED
      BY <1>7, <2>1 DEF RowInv, RowInvOf, Crash
  <1>8. CASE UNCHANGED vars
    BY <1>2, <1>8 DEF vars
  <1> QED
    BY <1>1, <1>3, <1>4, <1>5, <1>6, <1>7, <1>8, RowDispatcher DEF Next

DispatchInv == Typed /\ AnswerInv /\ TransitInv /\ RowInv

LEMMA DispatchAlways == Spec => []DispatchInv
  <1>1. Init => RowInv
    <2> SUFFICES ASSUME Init, NEW c \in Commands PROVE RowInvOf(c)
      BY DEF RowInv
    <2>1. pc[c] = "idle" /\ outcome[c] = "none" /\ row[c].status = "none"
      BY DEF Init, NoRow
    <2> QED
      BY <2>1 DEF RowInvOf
  <1>2. Spec => []RowInv
    BY <1>1, RowStep, TypedAlways, AnswerAlways, TransitAlways, PTL DEF Spec
  <1> QED
    BY <1>2, TypedAlways, AnswerAlways, TransitAlways, PTL DEF DispatchInv

\* A polling loop that reported 'completed' reported what stays in the table.
THEOREM CompletedVerdictsStand == Spec => []VerdictCompletedStands
  <1>1. DispatchInv => VerdictCompletedStands
    BY DEF DispatchInv, RowInv, RowInvOf, VerdictCompletedStands
  <1> QED
    BY <1>1, DispatchAlways, PTL

\* While no database write fails, 'device offline' is the truth and stays so:
\* the command is never executed and its row stays 'failed'.
THEOREM OfflineIsFinal ==
    ASSUME ~DBFaults
    PROVE  Spec => []OfflineMeansNeverRun
  <1>1. DispatchInv => OfflineMeansNeverRun
    <2> SUFFICES ASSUME DispatchInv, NEW c \in Commands, outcome[c] = "offline"
                 PROVE  runs[c] = 0 /\ row[c].status \in {"failed", "none"}
      BY DEF OfflineMeansNeverRun
    <2>1. NotSent(c)
      BY DEF NotSent
    <2>2. runs[c] = 0
      BY <2>1 DEF DispatchInv, TransitInv, UnsentNotRun
    <2>3. row[c].status \in {"failed", "none"}
      BY DEF DispatchInv, RowInv, RowInvOf
    <2> QED
      BY <2>2, <2>3
  <1> QED
    BY <1>1, DispatchAlways, PTL
-----------------------------------------------------------------------------
(***************************************************************************)
(* What a step can do to the status of a row.                              *)
(***************************************************************************)
StatusStep(c) ==
    \/ row'[c].status \in {row[c].status, "none"}
    \/ pc[c] = "idle" /\ row'[c].status = "queued"
    \/ /\ pc[c] = "written" /\ row[c].status \in {"queued", "completed"}
       /\ row'[c].status = "sent"
    \/ pc[c] \in {"undelivered", "expired"} /\ row'[c].status = "failed"
    \/ row[c].status = "sent" /\ row'[c].status = "failed"
    \/ runs[c] > 0 /\ row'[c].status = "completed"

LEMMA StatusSteps ==
    ASSUME DispatchInv, [Next]_vars, NEW c \in Commands
    PROVE  StatusStep(c)
  <1> USE DEF DispatchInv, StatusStep
  <1>1. ASSUME UNCHANGED row PROVE StatusStep(c)
    BY <1>1
  <1>2. ASSUME NEW b \in Commands, Dispatcher(b), b # c PROVE StatusStep(c)
    BY <1>2, DispatcherLocal
  <1>3. CASE Dispatcher(c)
    <2>t. row[c] \in [status : Statuses, answered : BOOLEAN]
      BY DEF Typed, TypeOK
    <2>1. CASE Create(c)
      BY <2>1 DEF Create, Typed, TypeOK
    <2>2. CASE MarkSent(c)
      <3>1. row'[c].status = IF row[c].status # "none" THEN "sent" ELSE row[c].status
        BY <2>2, WithStatusOf DEF MarkSent, Statuses
      <3>2. pc[c] = "written" /\ row[c].status \in {"queued", "completed", "none"}
        BY <2>2 DEF MarkSent, RowInv, RowInvOf
      <3> QED
        BY <3>1, <3>2
    <2>3. CASE ReportOffline(c) \/ ReportTimeout(c)
      <3>1. pc[c] \in {"undelivered", "expired"}
        BY <2>3 DEF ReportOffline, ReportTimeout
      <3>2. row' = WithStatus({c}, "failed") \/ UNCHANGED row
        BY <2>3 DEF ReportOffline, ReportTimeout, Persist
      <3>3. row'[c].status \in {"failed", row[c].status}
        BY <3>2, WithStatusOf DEF Statuses
      <3> QED
        BY <3>1, <3>3
    <2>4. CASE ~(Create(c) \/ MarkSent(c) \/ ReportOffline(c) \/ ReportTimeout(c))
      <3>1. UNCHANGED row
        BY <1>3, <2>4 DEF Dispatcher, Lookup, WriteOk, WriteError,
                          MarkSentFails, PollDone, PollExpired
      <3> QED
        BY <1>1, <3>1
    <2> QED
      BY <2>1, <2>2, <2>3, <2>4
  <1>4. ASSUME NEW s \in Sessions, Session(s) PROVE StatusStep(c)
    <2>1. CASE StoreResult(s)
      BY <2>1, AnswerStored
    <2>2. CASE ~StoreResult(s)
      <3>1. UNCHANGED row
        BY <1>4, <2>2 DEF Session, Register, Refuse, AddDevice, ReadResult,
                          ReadError, EndServe, PingFails, CutWire
      <3> QED
        BY <1>1, <3>1
    <2> QED
      BY <2>1, <2>2
  <1>5. ASSUME NEW d \in Devices, Agent(d) \/ DisconnectDevice(d) \/ Crash
        PROVE  StatusStep(c)
    <2>1. UNCHANGED row
      BY <1>5 DEF Agent, Dial, ReadCommand, Execute, SendResult, Hangup,
                  Restart, Leave,
                  DisconnectDevice, FindSession, TakeOut, CloseTakenOut, Crash
    <2> QED
      BY <1>1, <2>1
  <1>6. ASSUME NEW d \in Devices, DeleteRow(d) PROVE StatusStep(c)
    BY <1>6 DEF DeleteRow, NoRow
  <1>7. ASSUME NEW E \in SUBSET Commands, Expire(E) PROVE StatusStep(c)
    BY <1>7, WithStatusOf DEF Expire, Statuses
  <1>8. CASE Crash \/ UNCHANGED vars
    BY <1>1, <1>8 DEF Crash, vars
  <1> QED
    BY <1>2, <1>3, <1>4, <1>5, <1>6, <1>7, <1>8 DEF Next

\* Once its dispatcher is done, the answer of a device is never taken back.
THEOREM SettledAnswersStay == Spec => SettledAnswerIsFinal
  <1>1. ASSUME DispatchInv, [Next]_vars
        PROVE  \A c \in Commands :
                  Settled(c) /\ row[c].status = "completed"
                      => row'[c].status \in {"completed", "none"}
    BY <1>1, StatusSteps DEF StatusStep, Settled
  <1> QED
    BY <1>1, DispatchAlways, PTL DEF Spec, SettledAnswerIsFinal

\* A command that failed is never sent again; only the device's own answer
\* brings it back.
THEOREM FailuresReviveByAnswer == Spec => OnlyAnAnswerRevives
  <1>1. ASSUME DispatchInv, [Next]_vars
        PROVE  \A c \in Commands :
                  row[c].status = "failed" /\ row'[c].status # "failed"
                      => \/ row'[c].status = "none"
                         \/ row'[c].status = "completed" /\ runs[c] > 0
    <2> SUFFICES ASSUME NEW c \in Commands, row[c].status = "failed"
                 PROVE  \/ row'[c].status \in {"failed", "none"}
                        \/ row'[c].status = "completed" /\ runs[c] > 0
      OBVIOUS
    <2>1. pc[c] # "idle"
      BY <1>1 DEF DispatchInv, RowInv, RowInvOf
    <2> QED
      BY <1>1, <2>1, StatusSteps DEF StatusStep
  <1> QED
    BY <1>1, DispatchAlways, PTL DEF Spec, OnlyAnAnswerRevives
-----------------------------------------------------------------------------
(***************************************************************************)
(* Answers on their way.  A result moves from the executor to the wire and *)
(* from there to the server's goroutine, and is nowhere else meanwhile:    *)
(* what is about to be executed has never been executed before.            *)
(***************************************************************************)
ArrivalInv ==
    /\ AnswersArriveOnce
    /\ \A s \in Sessions : \A n \in 0 .. Len(up[s]) :
          Answer(s, n) # None => serve[s] # "free"
    /\ \A d \in Devices : exec[d] # None => ~row[exec[d]].answered

LEMMA AnswerTyped ==
    ASSUME Typed, NEW s \in Sessions, NEW n \in 0 .. Len(up[s]), Answer(s, n) # None
    PROVE  Answer(s, n) \in Commands /\ Target[Answer(s, n)] \in Devices
  <1>1. hand[s] \in Commands \cup {None} /\ up[s] \in Seq(Commands) /\ n \in Nat
    BY DEF Typed, TypeOK
  <1>2. Answer(s, n) \in Commands
    BY <1>1 DEF Answer
  <1> QED
    BY <1>2, ConstantsOK

\* A step after which every answer is one of those before, all of a session moved
\* on by the same number of places, and none of them is stored.
LEMMA ArrivalKept ==
    ASSUME Typed, ArrivalInv, [Next]_vars,
           NEW e \in [Sessions -> Nat],
           \A s \in Sessions : \A n \in 0 .. Len(up'[s]) :
              Answer(s, n)' # None =>
                 /\ n + e[s] \in 0 .. Len(up[s])
                 /\ Answer(s, n)' = Answer(s, n + e[s])
                 /\ ~row'[Answer(s, n)'].answered,
           \A d \in Devices : /\ exec'[d] \in {exec[d], None}
                              /\ exec'[d] # None => ~row'[exec'[d]].answered
    PROVE  ArrivalInv'
  <1>1. ASSUME NEW s \in Sessions, NEW n \in 0 .. Len(up'[s]), Answer(s, n)' # None
        PROVE  /\ serve'[s] # "free"
               /\ Target[Answer(s, n)'] = owner'[s]
               /\ ~row'[Answer(s, n)'].answered
               /\ \A d \in Devices : exec'[d] # Answer(s, n)'
               /\ \A t \in Sessions : \A m \in 0 .. Len(up'[t]) :
                     Answer(t, m)' = Answer(s, n)' => t = s /\ m = n
    <2> DEFINE a == Answer(s, n)'
               k == n + e[s]
    <2>1. k \in 0 .. Len(up[s]) /\ a = Answer(s, k) /\ ~row'[a].answered
      BY <1>1
    <2>2. /\ Target[a] \in Devices
          /\ serve[s] # "free" /\ owner[s] = Target[a]
      BY <1>1, <2>1, AnswerTyped DEF ArrivalInv, AnswersArriveOnce
    <2>3. serve'[s] # "free" /\ owner'[s] = Target[a]
      BY <2>2, OwnerStays DEF BelongsTo
    <2>4. \A d \in Devices : exec'[d] # a
      BY <1>1, <2>1 DEF ArrivalInv, AnswersArriveOnce
    <2>5. ASSUME NEW t \in Sessions, NEW m \in 0 .. Len(up'[t]), Answer(t, m)' = a
          PROVE  t = s /\ m = n
      <3>1. m + e[t] \in 0 .. Len(up[t]) /\ Answer(t, m + e[t]) = Answer(s, k)
        BY <1>1, <2>1, <2>5
      <3>2. t = s /\ m + e[t] = k
        BY <1>1, <2>1, <3>1 DEF ArrivalInv, AnswersArriveOnce
      <3>3. e[s] \in Nat /\ m \in Nat /\ n \in Nat
        OBVIOUS
      <3> QED
        BY <3>2, <3>3
    <2> QED
      BY <2>1, <2>3, <2>4, <2>5
  <1> QED
    BY <1>1 DEF ArrivalInv, AnswersArriveOnce

\* Only StoreResult sets exit_code.
LEMMA NothingStored ==
    ASSUME Typed, NEW c \in Commands,
           \/ UNCHANGED row
           \/ \E C, st : row' = WithStatus(C, st)
           \/ \E d : row' = [x \in Commands |-> IF Target[x] = d THEN NoRow ELSE row[x]]
           \/ \E x : row' = [row EXCEPT ![x] = [status |-> "queued", answered |-> FALSE]]
    PROVE  row'[c].answered => row[c].answered
  <1>1. row \in [Commands -> [status : Statuses, answered : BOOLEAN]]
    BY DEF Typed, TypeOK
  <1>2. CASE UNCHANGED row
    BY <1>2
  <1>3. ASSUME NEW C, NEW st, row' = WithStatus(C, st)
        PROVE  row'[c].answered = row[c].answered
    <2>1. row'[c] = row[c] \/ row'[c] = [row[c] EXCEPT !.status = st]
      BY <1>3 DEF WithStatus
    <2> QED
      BY <1>1, <2>1
  <1>4. ASSUME NEW d, row' = [x \in Commands |-> IF Target[x] = d THEN NoRow ELSE row[x]]
        PROVE  row'[c].answered => row[c].answered
    BY <1>4 DEF NoRow
  <1>5. ASSUME NEW x, row' = [row EXCEPT ![x] = [status |-> "queued", answered |-> FALSE]]
        PROVE  row'[c].answered => row[c].answered
    BY <1>1, <1>5
  <1> QED
    BY <1>2, <1>3, <1>4, <1>5

\* A step that neither moves nor stores an answer; some may be lost.
LEMMA ArrivalFrame ==
    ASSUME Typed, ArrivalInv, [Next]_vars,
           \A s \in Sessions : /\ up'[s] \in {up[s], <<>>}
                               /\ hand'[s] \in {hand[s], None},
           \A d \in Devices : exec'[d] \in {exec[d], None},
           \A c \in Commands : row'[c].answered => row[c].answered
    PROVE  ArrivalInv'
  <1> DEFINE e == [s \in Sessions |-> 0]
  <1>1. ASSUME NEW s \in Sessions, NEW n \in 0 .. Len(up'[s]), Answer(s, n)' # None
        PROVE  /\ n + e[s] \in 0 .. Len(up[s])
               /\ Answer(s, n)' = Answer(s, n + e[s])
               /\ ~row'[Answer(s, n)'].answered
    <2>1. up[s] \in Seq(Commands)
      BY DEF Typed, TypeOK
    <2>2. n \in 0 .. Len(up[s]) /\ n + e[s] = n
      BY <2>1
    <2>3. Answer(s, n)' = Answer(s, n)
      <3>1. CASE n = 0
        BY <1>1, <3>1 DEF Answer
      <3>2. CASE n # 0
        <4>1. up'[s] = up[s]
          BY <2>1, <3>2
        <4> QED
          BY <3>2, <4>1 DEF Answer
      <3> QED
        BY <3>1, <3>2
    <2>4. Answer(s, n) \in Commands /\ ~row[Answer(s, n)].answered
      BY <1>1, <2>2, <2>3, AnswerTyped DEF ArrivalInv, AnswersArriveOnce
    <2> QED
      BY <2>2, <2>3, <2>4
  <1>2. ASSUME NEW d \in Devices, exec'[d] # None
        PROVE  ~row'[exec'[d]].answered
    <2>1. exec'[d] = exec[d] /\ exec[d] \in Commands
      BY <1>2 DEF Typed, TypeOK
    <2> QED
      BY <1>2, <2>1 DEF ArrivalInv
  <1>3. e \in [Sessions -> Nat]
    OBVIOUS
  <1> HIDE DEF e
  <1> QED
    BY <1>1, <1>2, <1>3, ArrivalKept

\* The read loop takes the next result: all of them move on by one place.
LEMMA ArrivalRead ==
    ASSUME Typed, ArrivalInv, [Next]_vars, NEW s \in Sessions, ReadResult(s)
    PROVE  ArrivalInv'
  <1> DEFINE e == [t \in Sessions |-> IF t = s THEN 1 ELSE 0]
  <1>1. /\ hand[s] = None /\ hand' = [hand EXCEPT ![s] = Head(up[s])]
        /\ up[s] # <<>> /\ up' = [up EXCEPT ![s] = Tail(@)]
        /\ row' = row /\ exec' = exec
    BY DEF ReadResult, storeVars, agentVars
  <1>2. \A t \in Sessions : up[t] \in Seq(Commands)
    BY DEF Typed, TypeOK
  <1>3. /\ hand'[s] = up[s][1] /\ up'[s] = Tail(up[s])
        /\ \A t \in Sessions \ {s} : hand'[t] = hand[t] /\ up'[t] = up[t]
    BY <1>1, <1>2 DEF Typed, TypeOK
  <1>4. /\ Len(up[s]) \in Nat /\ Len(up[s]) > 0 /\ Len(up'[s]) = Len(up[s]) - 1
        /\ \A n \in 1 .. Len(up'[s]) : up'[s][n] = up[s][n + 1]
    <2>1. up[s] \in Seq(Commands) /\ up[s] # <<>> /\ up'[s] = Tail(up[s])
      BY <1>1, <1>2, <1>3
    <2>2. ASSUME NEW q \in Seq(Commands), q # <<>>
          PROVE  /\ Len(q) \in Nat /\ Len(q) > 0 /\ Len(Tail(q)) = Len(q) - 1
                 /\ \A n \in 1 .. Len(Tail(q)) : Tail(q)[n] = q[n + 1]
      BY <2>2
    <2> QED
      BY <2>1, <2>2
  <1>5. ASSUME NEW t \in Sessions, NEW n \in 0 .. Len(up'[t]), Answer(t, n)' # None
        PROVE  /\ n + e[t] \in 0 .. Len(up[t])
               /\ Answer(t, n)' = Answer(t, n + e[t])
    <2>1. CASE t = s
      <3>1. e[t] = 1 /\ n + 1 \in 0 .. Len(up[t]) /\ n + 1 # 0
        BY <1>4, <2>1
      <3>2. CASE n = 0
        BY <1>3, <2>1, <3>1, <3>2 DEF Answer
      <3>3. CASE n # 0
        <4>1. n \in 1 .. Len(up'[s])
          BY <2>1, <1>4, <3>3
        <4>2. up'[t][n] = up[t][n + 1]
          BY <1>4, <2>1, <4>1
        <4> QED
          BY <3>1, <3>3, <4>2 DEF Answer
      <3> QED
        BY <3>2, <3>3
    <2>2. CASE t # s
      <3>1. e[t] = 0 /\ up'[t] = up[t] /\ hand'[t] = hand[t]
        BY <1>3, <2>2
      <3> QED
        BY <3>1 DEF Answer
    <2> QED
      BY <2>1, <2>2
  <1>6. e \in [Sessions -> Nat]
    OBVIOUS
  <1> HIDE DEF e
  <1>7. ASSUME NEW t \in Sessions, NEW n \in 0 .. Len(up'[t]), Answer(t, n)' # None
        PROVE  ~row'[Answer(t, n)'].answered
    BY <1>1, <1>5, <1>7 DEF ArrivalInv, AnswersArriveOnce
  <1>8. \A d \in Devices : exec'[d] # None => ~row'[exec'[d]].answered
    BY <1>1 DEF ArrivalInv
  <1> QED
    BY <1>1, <1>5, <1>6, <1>7, <1>8, ArrivalKept

\* The result is stored: no other copy of it was under way.
LEMMA ArrivalStore ==
    ASSUME Typed, AnswerInv, ArrivalInv, [Next]_vars, NEW s \in Sessions, StoreResult(s)
    PROVE  ArrivalInv'
  <1> DEFINE e == [t \in Sessions |-> 0]
  <1>1. /\ hand[s] # None /\ hand' = [hand EXCEPT ![s] = None]
        /\ up' = up /\ exec' = exec
    BY DEF StoreResult, agentVars
  <1>2. \A c \in Commands : c # hand[s] => row'[c] = row[c]
    BY AnswerStored
  <1>3. Answer(s, 0) = hand[s] /\ 0 \in 0 .. Len(up[s])
    BY DEF Answer, Typed, TypeOK
  <1>4. hand'[s] = None /\ \A t \in Sessions \ {s} : hand'[t] = hand[t]
    BY <1>1 DEF Typed, TypeOK
  <1>5. ASSUME NEW t \in Sessions, NEW n \in 0 .. Len(up'[t]), Answer(t, n)' # None
        PROVE  /\ n + e[t] \in 0 .. Len(up[t])
               /\ Answer(t, n)' = Answer(t, n + e[t])
               /\ ~row'[Answer(t, n)'].answered
    <2>1. n \in 0 .. Len(up[t]) /\ n + e[t] = n
      BY <1>1
    <2>2. t # s \/ n # 0
      BY <1>4, <1>5 DEF Answer
    <2>3. Answer(t, n)' = Answer(t, n)
      BY <1>1, <1>4, <2>2 DEF Answer
    <2>4. Answer(t, n) # hand[s]
      BY <1>1, <1>3, <2>1, <2>2 DEF ArrivalInv, AnswersArriveOnce
    <2>5. Answer(t, n) \in Commands /\ ~row[Answer(t, n)].answered
      BY <1>5, <2>1, <2>3, AnswerTyped DEF ArrivalInv, AnswersArriveOnce
    <2> QED
      BY <1>2, <2>1, <2>3, <2>4, <2>5
  <1>6. ASSUME NEW d \in Devices, exec'[d] # None
        PROVE  ~row'[exec'[d]].answered
    <2>1. exec[d] \in Commands /\ ~row[exec[d]].answered /\ exec'[d] = exec[d]
      BY <1>1, <1>6 DEF Typed, TypeOK, ArrivalInv
    <2>2. exec[d] # hand[s]
      BY <1>1, <1>3 DEF ArrivalInv, AnswersArriveOnce
    <2> QED
      BY <1>2, <2>1, <2>2
  <1>7. e \in [Sessions -> Nat]
    OBVIOUS
  <1> HIDE DEF e
  <1> QED
    BY <1>1, <1>5, <1>6, <1>7, ArrivalKept

\* What is executed has not been executed before: no answer to it is under way.
LEMMA ArrivalExecute ==
    ASSUME Typed, AnswerInv, TransitInv, ArrivalInv, NEW d \in Devices, Execute(d)
    PROVE  ArrivalInv'
  <1> DEFINE c == held[d]
  <1>1. /\ c # None /\ c \in Commands /\ runs[c] = 0
        /\ exec' = [exec EXCEPT ![d] = c]
        /\ UNCHANGED <<up, hand, row, owner, serve>>
    BY DEF Execute, Typed, TypeOK, TransitInv, HeldNotRun
  <1>2. ~row[c].answered
    BY <1>1 DEF AnswerInv, AnswerOnlyIfRun
  <1>3. exec'[d] = c /\ \A x \in Devices \ {d} : exec'[x] = exec[x]
    BY <1>1 DEF Typed, TypeOK
  <1>4. ASSUME NEW s \in Sessions, NEW n \in 0 .. Len(up[s]), Answer(s, n) # None
        PROVE  Answer(s, n) # c
    <2>1. up[s] \in Seq(Commands) /\ (n = 0 \/ n \in 1 .. Len(up[s]))
      BY DEF Typed, TypeOK
    <2>2. runs[Answer(s, n)] > 0
      BY <1>4, <2>1 DEF Answer, AnswerInv, ResultsWereRun
    <2> QED
      BY <1>1, <2>2
  <1>5. \A s \in Sessions : \A n : Answer(s, n)' = Answer(s, n)
    BY <1>1 DEF Answer
  <1> HIDE DEF c
  <1>6. AnswersArriveOnce'
    BY <1>1, <1>3, <1>4, <1>5 DEF ArrivalInv, AnswersArriveOnce
  <1> QED
    BY <1>1, <1>2, <1>3, <1>5, <1>6 DEF ArrivalInv

\* The result goes to the end of the line, and from the executor.
LEMMA ArrivalSend ==
    ASSUME Typed, RouteInv, ArrivalInv, NEW d \in Devices, SendResult(d)
    PROVE  ArrivalInv'
  <1> DEFINE c == exec[d]
             p == cli[d]
  <1>1. /\ c # None /\ c \in Commands /\ exec' = [exec EXCEPT ![d] = None]
        /\ up' = up \/ up' = [up EXCEPT ![p] = Append(@, c)]
        /\ UNCHANGED <<hand, row, owner, serve>>
    BY DEF SendResult, Typed, TypeOK, storeVars, hubVars
  <1>2. exec'[d] = None /\ \A x \in Devices \ {d} : exec'[x] = exec[x]
    BY <1>1 DEF Typed, TypeOK
  <1>3. Target[c] = d /\ ~row[c].answered
    BY <1>1 DEF RouteInv, RightDevice, ArrivalInv
  <1>4. \A x \in Devices : exec'[x] # c
    BY <1>1, <1>2, <1>3 DEF RouteInv, RightDevice
  <1>5. \A s \in Sessions : \A n \in 0 .. Len(up[s]) : Answer(s, n) # c
    BY <1>1 DEF ArrivalInv, AnswersArriveOnce
  <1>6. \A s \in Sessions : up[s] \in Seq(Commands)
    BY DEF Typed, TypeOK
  <1>7. \A x \in Devices : exec'[x] # None => ~row'[exec'[x]].answered
    BY <1>1, <1>2 DEF ArrivalInv
  <1>8. CASE up' = up \/ p \notin Sessions
    <2>1. up' = up
      BY <1>1, <1>8 DEF Typed, TypeOK
    <2>2. \A s \in Sessions : \A n : Answer(s, n)' = Answer(s, n)
      BY <1>1, <2>1 DEF Answer
    <2>3. \A x \in Devices : exec'[x] \in {exec[x], None}
      BY <1>2
    <2> HIDE DEF c, p
    <2>4. AnswersArriveOnce'
      BY <1>1, <2>1, <2>2, <2>3 DEF ArrivalInv, AnswersArriveOnce
    <2> QED
      BY <1>1, <1>7, <2>1, <2>2, <2>4 DEF ArrivalInv
  <1>9. CASE up' = [up EXCEPT ![p] = Append(@, c)] /\ p \in Sessions
    <2>1. serve[p] # "free" /\ owner[p] = d
      BY <1>9, ConstantsOK DEF RouteInv, DialledByOwner, BelongsTo
    <2> DEFINE z == Len(up[p]) + 1
    <2> HIDE DEF c, p
    <2>2. /\ up'[p] = Append(up[p], c) /\ \A t \in Sessions \ {p} : up'[t] = up[t]
          /\ up[p] \in Seq(Commands)
      BY <1>6, <1>9 DEF Typed, TypeOK
    <2>3. /\ z \in Nat \ {0} /\ Len(up'[p]) = z
          /\ \A n \in 1 .. Len(up[p]) : up'[p][n] = up[p][n]
          /\ up'[p][z] = c
      BY <1>1, <2>2
    <2>4. ASSUME NEW s \in Sessions, NEW n \in 0 .. Len(up'[s])
          PROVE  \/ n \in 0 .. Len(up[s]) /\ Answer(s, n)' = Answer(s, n)
                 \/ s = p /\ n = z /\ Answer(s, n)' = c
      <3>1. CASE s = p
        BY <1>1, <2>2, <2>3, <3>1 DEF Answer
      <3>2. CASE s # p
        BY <1>1, <2>2, <3>2 DEF Answer
      <3> QED
        BY <3>1, <3>2
    <2> HIDE DEF z
    <2>5. ASSUME NEW s \in Sessions, NEW n \in 0 .. Len(up'[s]), Answer(s, n)' # None
          PROVE  /\ serve[s] # "free"
                 /\ Target[Answer(s, n)'] = owner[s]
                 /\ ~row[Answer(s, n)'].answered
                 /\ \A x \in Devices : exec'[x] # Answer(s, n)'
                 /\ \A t \in Sessions : \A m \in 0 .. Len(up'[t]) :
                       Answer(t, m)' = Answer(s, n)' => t = s /\ m = n
      <3>1. CASE s = p /\ n = z /\ Answer(s, n)' = c
        BY <1>3, <1>4, <1>5, <2>1, <2>4, <3>1
      <3>2. CASE n \in 0 .. Len(up[s]) /\ Answer(s, n)' = Answer(s, n)
        <4>1. Answer(s, n) # None /\ Answer(s, n) # c
          BY <1>5, <2>5, <3>2
        <4>2. \A t \in Sessions : \A m \in 0 .. Len(up'[t]) :
                 Answer(t, m)' = Answer(s, n)' => t = s /\ m = n
          BY <2>4, <3>2, <4>1 DEF ArrivalInv, AnswersArriveOnce
        <4>3. \A x \in Devices : exec'[x] # Answer(s, n)'
          BY <1>2, <3>2, <4>1 DEF ArrivalInv, AnswersArriveOnce
        <4> QED
          BY <3>2, <4>1, <4>2, <4>3 DEF ArrivalInv, AnswersArriveOnce
      <3> QED
        BY <2>4, <3>1, <3>2
    <2>6. AnswersArriveOnce'
      BY <1>1, <2>5 DEF AnswersArriveOnce
    <2> QED
      BY <1>1, <1>7, <2>5, <2>6 DEF ArrivalInv
  <1> QED
    BY <1>1, <1>8, <1>9

LEMMA ArrivalStep ==
    ASSUME Typed, AnswerInv, TransitInv, RouteInv, ArrivalInv, [Next]_vars
    PROVE  ArrivalInv'
  <1> DEFINE Same ==
        /\ \A s \in Sessions : /\ up'[s] \in {up[s], <<>>}
                               /\ hand'[s] \in {hand[s], None}
        /\ \A d \in Devices : exec'[d] \in {exec[d], None}
             Quiet == \A c \in Commands : row'[c].answered => row[c].answered
  <1>1. ASSUME NEW c \in Commands, Dispatcher(c) PROVE Same /\ Quiet
    <2>1. Same
      BY <1>1 DEF Dispatcher, Create, Lookup, WriteOk, WriteError, MarkSent,
                  MarkSentFails, ReportOffline, PollDone, PollExpired, ReportTimeout,
                  wireVars, agentVars
    <2>2. \/ UNCHANGED row
          \/ \E C, st : row' = WithStatus(C, st)
          \/ \E x : row' = [row EXCEPT ![x] = [status |-> "queued", answered |-> FALSE]]
      BY <1>1 DEF Dispatcher, Create, Lookup, WriteOk, WriteError, MarkSent,
                  MarkSentFails, ReportOffline, PollDone, PollExpired, ReportTimeout,
                  Persist, storeVars
    <2> QED
      BY <2>1, <2>2, NothingStored
  <1>2. ASSUME NEW s \in Sessions,
               \/ Register(s) \/ Refuse(s) \/ AddDevice(s) \/ ReadError(s)
               \/ EndServe(s) \/ PingFails(s) \/ CutWire(s)
        PROVE  Same /\ Quiet
    <2>1. Same
      BY <1>2 DEF Register, Refuse, AddDevice, ReadError, EndServe, PingFails, CutWire,
                  Typed, TypeOK, wireVars, agentVars
    <2>2. UNCHANGED row
      BY <1>2 DEF Register, Refuse, AddDevice, ReadError, EndServe, PingFails, CutWire,
                  storeVars
    <2> QED
      BY <2>1, <2>2
  <1>3. ASSUME NEW d \in Devices,
               \/ \E s \in Sessions : Dial(d, s)
               \/ ReadCommand(d) \/ Hangup(d) \/ Restart(d)
        PROVE  Same /\ Quiet
    BY <1>3 DEF Dial, ReadCommand, Hangup, Restart, Leave, Typed, TypeOK, storeVars,
                wireVars
  <1>4. ASSUME NEW d \in Devices, DisconnectDevice(d) \/ DeleteRow(d)
        PROVE  Same /\ Quiet
    <2>1. Same
      BY <1>4 DEF DisconnectDevice, FindSession, TakeOut, CloseTakenOut, DeleteRow,
                  wireVars, agentVars
    <2>2. \/ UNCHANGED row
          \/ row' = [x \in Commands |-> IF Target[x] = d THEN NoRow ELSE row[x]]
      BY <1>4 DEF DisconnectDevice, FindSession, TakeOut, CloseTakenOut, DeleteRow,
                  storeVars
    <2> QED
      BY <2>1, <2>2, NothingStored
  <1>5. ASSUME NEW E \in SUBSET Commands, Expire(E) PROVE Same /\ Quiet
    BY <1>5, NothingStored DEF Expire, wireVars, agentVars
  <1>6. ASSUME Crash PROVE Same /\ Quiet
    BY <1>6 DEF Crash, agentVars, storeVars
  <1>7. ASSUME UNCHANGED vars PROVE Same /\ Quiet
    BY <1>7 DEF vars, wireVars, agentVars, storeVars
  <1>8. Same /\ Quiet => ArrivalInv'
    BY ArrivalFrame
  <1> HIDE DEF Same, Quiet
  <1> QED
    BY <1>1, <1>2, <1>3, <1>4, <1>5, <1>6, <1>7, <1>8, ArrivalRead, ArrivalStore,
       ArrivalExecute, ArrivalSend DEF Next, Session, Agent

\* However often devices reconnect and sessions are replaced, a device's result is
\* read from a session of its own, and no second copy follows one that was stored.
THEOREM AnswersComeOnce == Spec => []AnswersArriveOnce
  <1>1. Init => ArrivalInv
    <2> SUFFICES ASSUME Init PROVE ArrivalInv
      OBVIOUS
    <2>1. \A s \in Sessions : up[s] = <<>> /\ hand[s] = None
      BY DEF Init
    <2>2. \A s \in Sessions : \A n \in 0 .. Len(up[s]) : Answer(s, n) = None
      BY <2>1 DEF Answer
    <2>3. \A d \in Devices : exec[d] = None
      BY DEF Init
    <2> QED
      BY <2>2, <2>3 DEF ArrivalInv, AnswersArriveOnce
  <1>2. ArrivalInv => AnswersArriveOnce
    BY DEF ArrivalInv
  <1> QED
    BY <1>1, <1>2, ArrivalStep, TypedAlways, AnswerAlways, TransitAlways, RouteAlways,
       PTL DEF Spec
=============================================================================
