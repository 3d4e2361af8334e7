---------------------- MODULE CommandDispatch_refinement ----------------------
(***************************************************************************)
(* CommandDispatch implements CommandRecord, for every choice of the       *)
(* constants and also when UPDATEs fail.                                   *)
(***************************************************************************)
EXTENDS CommandDispatch_proofs

USE DEF storeVars, callVars, hubVars, wireVars, agentVars, otherVars

Executed == {c \in Commands : runs[c] > 0}

Done == {c \in Commands : Settled(c)}

-----------------------------------------------------------------------------
(***************************************************************************)
(* The refinement mapping, one command at a time.                          *)
(***************************************************************************)
LEMMA RecordStatusType ==
    ASSUME Typed, NEW c \in Commands
    PROVE  /\ row[c].status # "none" => RecordStatus[c] = row[c].status
           /\ row[c].status = "none" =>
                  RecordStatus[c] = IF pc[c] = "idle" THEN "absent" ELSE "deleted"
           /\ row[c].status \in Statuses
  BY DEF RecordStatus, Typed, TypeOK

\* A step that changes nothing but perhaps the set of settled commands.
LEMMA OnlySettles ==
    ASSUME NEW C \in SUBSET Commands,
           UNCHANGED <<row, runs>>,
           \A c \in Commands : pc'[c] = "idle" <=> pc[c] = "idle",
           \A c \in Commands : Settled(c)' <=> Settled(c) \/ c \in C
    PROVE  Promised!RecordNext
  <1>1. UNCHANGED RecordStatus
    BY DEF RecordStatus
  <1>2. UNCHANGED Executed
    BY DEF Executed
  <1>3. Done' = Done \cup C
    BY DEF Done
  <1>4. Promised!Settle(C)
    BY <1>1, <1>2, <1>3 DEF Promised!Settle, Executed, Done
  <1> QED
    BY <1>4 DEF Promised!RecordNext

LEMMA Stutters ==
    ASSUME UNCHANGED <<row, pc, runs>>
    PROVE  Promised!RecordNext
  BY OnlySettles, {} \in SUBSET Commands DEF Settled

\* A step that changes the row of command c, as its dispatcher goes on.
LEMMA OneRecord ==
    ASSUME Typed, Typed', NEW c \in Commands,
           \A b \in Commands \ {c} : row'[b] = row[b] /\ pc'[b] = pc[b],
           pc'[c] # "idle", row'[c].status # "none",
           UNCHANGED runs, ~Settled(c)
    PROVE  /\ RecordStatus' = [RecordStatus EXCEPT ![c] = row'[c].status]
           /\ UNCHANGED Executed
           /\ Done' = IF Settled(c)' THEN Done \cup {c} ELSE Done
  <1>1. ASSUME NEW b \in Commands
        PROVE  RecordStatus'[b] = IF b = c THEN row'[c].status ELSE RecordStatus[b]
    BY <1>1 DEF RecordStatus
  <1>2. RecordStatus' = [RecordStatus EXCEPT ![c] = row'[c].status]
    BY <1>1 DEF RecordStatus
  <1>3. \A b \in Commands \ {c} : Settled(b)' <=> Settled(b)
    BY DEF Settled
  <1>4. Done' = IF Settled(c)' THEN Done \cup {c} ELSE Done
    BY <1>3 DEF Done
  <1>5. UNCHANGED Executed
    BY DEF Executed
  <1> QED
    BY <1>2, <1>4, <1>5
-----------------------------------------------------------------------------
(***************************************************************************)
(* Every step maps to a step of CommandRecord.                             *)
(***************************************************************************)
LEMMA MapDispatcher ==
    ASSUME DispatchInv, Typed', NEW c \in Commands, Dispatcher(c)
    PROVE  Promised!RecordNext
  <1> USE DEF DispatchInv
  <1>0. /\ \A b \in Commands \ {c} : row'[b] = row[b] /\ pc'[b] = pc[b]
        /\ UNCHANGED runs
    <2>1. UNCHANGED runs
      BY DEF Dispatcher, Create, Lookup, WriteOk, WriteError, MarkSent,
             MarkSentFails, ReportOffline, PollDone, PollExpired, ReportTimeout
    <2> QED
      BY <2>1, DispatcherLocal
  <1>i. pc'[c] # "idle"
    BY DEF Dispatcher, Create, Lookup, WriteOk, WriteError, MarkSent,
           MarkSentFails, ReportOffline, PollDone, PollExpired, ReportTimeout,
           Typed, TypeOK
  <1>r. RowInvOf(c)
    BY DEF RowInv
  <1>1. CASE Create(c)
    <2>1. /\ pc[c] = "idle" /\ pc'[c] = "created"
          /\ row'[c].status = "queued" /\ row[c].status = "none"
      BY <1>1, <1>r DEF Create, RowInvOf, Typed, TypeOK
    <2>2. /\ RecordStatus' = [RecordStatus EXCEPT ![c] = "queued"]
          /\ UNCHANGED <<Executed, Done>>
      BY <1>0, <2>1, OneRecord DEF Settled
    <2>3. RecordStatus[c] = "absent"
      BY <2>1, RecordStatusType
    <2>4. Promised!Record(c)
      BY <2>2, <2>3 DEF Promised!Record, Executed, Done
    <2> QED
      BY <2>4 DEF Promised!RecordNext
  <1>n. ASSUME ~Create(c), UNCHANGED row PROVE Promised!RecordNext
    <2>1. pc[c] # "idle" /\ ~Settled(c)
      BY <1>n DEF Dispatcher, Lookup, WriteOk, WriteError, MarkSent, Settled,
                  MarkSentFails, ReportOffline, PollDone, PollExpired, ReportTimeout
    <2>2. \A b \in Commands : pc'[b] = "idle" <=> pc[b] = "idle"
      BY <1>0, <1>i, <2>1
    <2>3. \A b \in Commands :
             Settled(b)' <=> Settled(b) \/ b \in {x \in {c} : Settled(x)'}
      BY <1>0, <2>1 DEF Settled
    <2> QED
      BY <1>n, <1>0, <2>2, <2>3, OnlySettles,
         {x \in {c} : Settled(x)'} \in SUBSET Commands
  <1>s. ASSUME NEW st \in {"sent", "failed"}, ~Create(c), ~Settled(c),
               row' = WithStatus({c}, st), row[c].status # "none"
        PROVE  /\ RecordStatus' = [RecordStatus EXCEPT ![c] = st]
               /\ UNCHANGED Executed
               /\ Done' \in {Done, Done \cup {c}}
    <2>1. row'[c].status = st
      BY <1>s, WithStatusOf DEF Statuses
    <2> QED
      BY <1>0, <1>i, <1>s, <2>1, OneRecord
  <1>g. ASSUME NEW st \in Statuses, row' = WithStatus({c}, st), row[c].status = "none"
        PROVE  UNCHANGED row
    BY <1>g DEF WithStatus, Typed, TypeOK
  <1>2. CASE MarkSent(c)
    <2>1. ~Create(c) /\ ~Settled(c) /\ row' = WithStatus({c}, "sent")
      BY <1>2 DEF MarkSent, Create, Settled
    <2>2. CASE row[c].status = "none"
      BY <1>n, <1>g, <2>1, <2>2 DEF Statuses
    <2>3. CASE row[c].status # "none"
      <3>1. RecordStatus[c] \in {"queued", "completed"}
        BY <1>2, <1>r, <2>3, RecordStatusType DEF RowInvOf, MarkSent
      <3>2. Promised!Sent(c)
        BY <1>s, <2>1, <2>3, <3>1
           DEF Promised!Sent, Promised!MaySettle, Executed, Done
      <3> QED
        BY <3>2 DEF Promised!RecordNext
    <2> QED
      BY <2>2, <2>3
  <1>3. CASE ReportOffline(c) \/ ReportTimeout(c)
    <2>1. /\ ~Create(c) /\ ~Settled(c)
          /\ row' = WithStatus({c}, "failed") \/ UNCHANGED row
      BY <1>3 DEF ReportOffline, ReportTimeout, Create, Settled, Persist
    <2>2. CASE row[c].status = "none" \/ UNCHANGED row
      BY <1>n, <1>g, <2>1, <2>2 DEF Statuses
    <2>3. CASE row[c].status # "none" /\ row' = WithStatus({c}, "failed")
      <3>1. Promised!Exists(c)
        BY <2>3, RecordStatusType DEF Promised!Exists, Statuses
      <3>2. Promised!GiveUp(c)
        BY <1>s, <2>1, <2>3, <3>1
           DEF Promised!GiveUp, Promised!MaySettle, Executed, Done
      <3> QED
        BY <3>2 DEF Promised!RecordNext
    <2> QED
      BY <2>1, <2>2, <2>3
  <1>4. CASE ~(Create(c) \/ MarkSent(c) \/ ReportOffline(c) \/ ReportTimeout(c))
    <2>1. UNCHANGED row
      BY <1>4 DEF Dispatcher, Lookup, WriteOk, WriteError, MarkSentFails,
                  PollDone, PollExpired
    <2> QED
      BY <1>4, <1>n, <2>1
  <1> QED
    BY <1>1, <1>2, <1>3, <1>4

LEMMA MapStoreResult ==
    ASSUME DispatchInv, Typed', NEW s \in Sessions, StoreResult(s)
    PROVE  Promised!RecordNext
  <1> USE DEF DispatchInv
  <1>1. UNCHANGED <<pc, runs>>
    BY DEF StoreResult
  <1>2. CASE UNCHANGED row
    BY <1>1, <1>2, Stutters
  <1>3. CASE ~UNCHANGED row
    <2> DEFINE c == hand[s]
    <2>1. c \in Commands /\ runs[c] > 0
      BY AnswerStored
    <2>2. \A b \in Commands : b # c => row'[b] = row[b]
      BY AnswerStored
    <2>3. row[c].status # "none" /\ row'[c].status = "completed"
      <3>1. row'[c] # row[c]
        BY <1>3, <2>2 DEF Typed, TypeOK
      <3> QED
        BY <2>1, <3>1, AnswerStored
    <2> HIDE DEF c
    <2>4. RecordStatus' = [RecordStatus EXCEPT ![c] = "completed"]
      BY <1>1, <2>1, <2>2, <2>3 DEF RecordStatus
    <2>5. UNCHANGED <<Executed, Done>> /\ c \in Executed
      BY <1>1, <2>1 DEF Executed, Done, Settled
    <2>6. Promised!Exists(c)
      BY <2>1, <2>3, RecordStatusType DEF Promised!Exists, Statuses
    <2>7. Promised!Answer(c)
      BY <2>4, <2>5, <2>6 DEF Promised!Answer, Executed, Done
    <2> QED
      BY <2>1, <2>7 DEF Promised!RecordNext
  <1> QED
    BY <1>2, <1>3

LEMMA MapExecute ==
    ASSUME DispatchInv, NEW d \in Devices, Execute(d)
    PROVE  Promised!RecordNext
  <1> USE DEF DispatchInv
  <1>1. PICK c \in Commands : c = held[d]
    BY DEF Execute, Typed, TypeOK
  <1>2. runs' = [runs EXCEPT ![c] = runs[c] + 1] /\ UNCHANGED <<row, pc>>
    BY <1>1 DEF Execute
  <1>3. pc[c] # "idle"
    BY <1>1 DEF Execute, TransitInv, HeldNotRun, NotSent
  <1>4. RecordStatus[c] # "absent"
    BY <1>3, RecordStatusType DEF Statuses
  <1>5. Executed' = Executed \cup {c}
    BY <1>2 DEF Executed, Typed, TypeOK
  <1>6. UNCHANGED <<RecordStatus, Done>>
    BY <1>2 DEF RecordStatus, Done, Settled
  <1>7. Promised!Run(c)
    BY <1>4, <1>5, <1>6 DEF Promised!Run, Executed, Done
  <1> QED
    BY <1>7 DEF Promised!RecordNext

LEMMA MapExpire ==
    ASSUME DispatchInv, NEW E \in SUBSET Commands, Expire(E)
    PROVE  Promised!RecordNext
  <1> USE DEF DispatchInv
  <1>1. UNCHANGED <<pc, runs>> /\ row' = WithStatus(E, "failed")
    BY DEF Expire
  <1>2. \A c \in E : row[c].status = "sent"
    BY DEF Expire
  <1>3. \A c \in E : RecordStatus[c] = "sent"
    BY <1>2, RecordStatusType
  <1>4. \A c \in Commands : row'[c].status = IF c \in E THEN "failed" ELSE row[c].status
    BY <1>1, <1>2, WithStatusOf DEF Statuses
  <1>5. RecordStatus' = [c \in Commands |-> IF c \in E THEN "failed" ELSE RecordStatus[c]]
    BY <1>1, <1>4 DEF RecordStatus
  <1>6. UNCHANGED <<Executed, Done>>
    BY <1>1 DEF Executed, Done, Settled
  <1>7. Promised!TimeOut(E)
    BY <1>3, <1>5, <1>6 DEF Promised!TimeOut, Executed, Done
  <1> QED
    BY <1>7 DEF Promised!RecordNext

LEMMA MapDeleteRow ==
    ASSUME DispatchInv, NEW d \in Devices, DeleteRow(d)
    PROVE  Promised!RecordNext
  <1> USE DEF DispatchInv
  <1> DEFINE C == {c \in Commands : Target[c] = d}
  <1>1. /\ UNCHANGED <<pc, runs>>
        /\ row' = [c \in Commands |-> IF c \in C THEN NoRow ELSE row[c]]
    BY DEF DeleteRow
  <1> HIDE DEF C
  <1>2. ASSUME NEW c \in Commands
        PROVE  RecordStatus'[c] =
                   IF c \in C /\ Promised!Exists(c) THEN "deleted" ELSE RecordStatus[c]
    <2>1. Promised!Exists(c) <=> row[c].status # "none"
      BY RecordStatusType DEF Promised!Exists, Statuses
    <2>2. pc[c] = "idle" => row[c].status = "none"
      BY DEF RowInv, RowInvOf
    <2>3. RecordStatus'[c] = IF row'[c].status # "none" THEN row'[c].status
                             ELSE IF pc[c] = "idle" THEN "absent" ELSE "deleted"
      BY <1>1 DEF RecordStatus
    <2>4. row'[c].status = IF c \in C THEN "none" ELSE row[c].status
      BY <1>1 DEF NoRow
    <2> QED
      BY <2>1, <2>2, <2>3, <2>4, RecordStatusType
  <1>3. RecordStatus' = [c \in Commands |->
            IF c \in C /\ Promised!Exists(c) THEN "deleted" ELSE RecordStatus[c]]
    BY <1>2 DEF RecordStatus
  <1>4. UNCHANGED <<Executed, Done>>
    BY <1>1 DEF Executed, Done, Settled
  <1>5. Promised!Delete(C)
    BY <1>3, <1>4 DEF Promised!Delete, Executed, Done
  <1>6. C \in SUBSET Commands
    BY DEF C
  <1> QED
    BY <1>5, <1>6 DEF Promised!RecordNext

LEMMA MapStep ==
    ASSUME DispatchInv, Typed', [Next]_vars
    PROVE  [Promised!RecordNext]_Promised!recordVars
  <1> SUFFICES Promised!RecordNext
    OBVIOUS
  <1>1. ASSUME NEW s \in Sessions, Session(s), ~StoreResult(s)
        PROVE  UNCHANGED <<row, pc, runs>>
    BY <1>1 DEF Session, Register, Refuse, AddDevice, ReadResult, ReadError,
                EndServe, PingFails, CutWire
  <1>2. ASSUME NEW d \in Devices, Agent(d) \/ DisconnectDevice(d), ~Execute(d)
        PROVE  UNCHANGED <<row, pc, runs>>
    BY <1>2 DEF Agent, Dial, ReadCommand, SendResult, Hangup, Restart, Leave,
                DisconnectDevice, FindSession, TakeOut, CloseTakenOut
  <1>3. CASE Crash
    <2>1. \A c \in Commands :
             pc'[c] = IF pc[c] \in {"idle", "returned"} THEN pc[c] ELSE "crashed"
      BY <1>3 DEF Crash
    <2>2. UNCHANGED <<row, runs>>
      BY <1>3 DEF Crash
    <2>3. \A c \in Commands :
             Settled(c)' <=> Settled(c) \/ c \in {b \in Commands : Settled(b)'}
      BY <2>1 DEF Settled
    <2> QED
      BY <2>1, <2>2, <2>3, OnlySettles,
         {b \in Commands : Settled(b)'} \in SUBSET Commands
  <1>4. CASE UNCHANGED vars
    BY <1>4, Stutters DEF vars
  <1> QED
    BY <1>1, <1>2, <1>3, <1>4, Stutters, MapDispatcher, MapStoreResult,
       MapExecute, MapExpire, MapDeleteRow DEF Next

\* CommandStore, hub, janitor, dispatchers and agents together keep the promise
\* of CommandRecord: a record says 'completed' only of an executed command, and
\* once its dispatcher is done an answer stands.
THEOREM RecordPromiseKept == Spec => KeepsPromise
  <1>1. Init => Promised!RecordInit
    <2> SUFFICES ASSUME Init PROVE Promised!RecordInit
      OBVIOUS
    <2>1. RecordStatus = [c \in Commands |-> "absent"]
      BY DEF Init, RecordStatus, NoRow
    <2>2. {c \in Commands : runs[c] > 0} = {} /\ {c \in Commands : Settled(c)} = {}
      BY DEF Init, Settled
    <2> QED
      BY <2>1, <2>2 DEF Promised!RecordInit
  <1>2. DispatchInv => Typed
    BY DEF DispatchInv
  <1> QED
    BY <1>1, <1>2, MapStep, DispatchAlways, PTL
       DEF Spec, KeepsPromise, Promised!RecordSpec
=============================================================================
