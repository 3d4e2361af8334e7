--------------------------- MODULE CommandDispatch ---------------------------
(***************************************************************************)
(* The life of a command between the HTTP server and a device.             *)
(*                                                                         *)
(* Four kinds of thread interleave here:                                   *)
(*   - one dispatcher per command: the goroutine of handleExec, or of      *)
(*     dispatchAndWaitCommand, which also polls for the answer;            *)
(*   - one serveDevice goroutine per device connection (a "session");      *)
(*   - the janitor of the hub, and the DELETE /devices handler;            *)
(*   - the agent on the device: the reader goroutine of runOnce, which     *)
(*     holds at most one command, and its main loop, which runs one.       *)
(* They share the commands and devices tables and the map Hub.deviceWS.    *)
(*                                                                         *)
(* Abstractions.  A command is its identifier; an SQL statement is one     *)
(* step.  Time is not counted: a deadline may expire in any state in which *)
(* its timer runs.  Registration tokens are left to a module of their own: *)
(* here a registration may be refused at any time.                         *)
(***************************************************************************)
EXTENDS Naturals, Sequences

CONSTANTS
    Commands,    \* one identifier per call of CommandStore.Create
    Devices,     \* device identifiers
    Sessions,    \* device connections; each is used once (bounds reconnects)
    Target,      \* Target[c]: the device command c is meant for
    Waited,      \* the commands sent by dispatchAndWaitCommand, not handleExec
    DBFaults,    \* TRUE: an UPDATE of the commands table may fail
    MaxCrashes,  \* how often the server process may crash and restart
    None

ASSUME ConstantsOK ==
    /\ Target \in [Commands -> Devices]
    /\ Waited \subseteq Commands
    /\ DBFaults \in BOOLEAN
    /\ MaxCrashes \in Nat
    /\ None \notin Commands \cup Devices \cup Sessions

VARIABLES
    devices,   \* rows of the devices table
    row,       \* row[c]: status of the command's row, "none" if there is none,
               \* and whether exit_code is set
    pc,        \* pc[c]: where the dispatcher of c stands
    picked,    \* picked[c]: the session DispatchCommand got from the hub and
               \* has not written to yet
    outcome,   \* outcome[c]: what the dispatcher told its caller
    hub,       \* Hub.deviceWS: the registered session of a device, or None
    owner,     \* owner[s]: the device that opened session s
    serve,     \* serve[s]: where the serveDevice goroutine of s stands
    alive,     \* alive[s]: which parts of the connection still work
    down,      \* down[s]: commands on their way to the device
    up,        \* up[s]: results on their way to the server
    hand,      \* hand[s]: the result serveDevice has read and not yet stored
    cli,       \* cli[d]: the connection runOnce of the agent on d has open
    held,      \* held[d]: the command its reader offers on cmdCh
    exec,      \* exec[d]: the command Executor.Execute is running
    runs,      \* runs[c]: how often c was executed (history)
    del,       \* del[d]: where a DELETE /devices/d handler stands, and the
               \* session DisconnectDevice got from the hub
    crashes    \* how often the server crashed

storeVars  == <<devices, row>>
callVars   == <<pc, picked, outcome>>
hubVars    == <<hub, owner, serve, alive>>
wireVars   == <<down, up, hand>>
agentVars  == <<cli, held, exec, runs>>
otherVars  == <<del, crashes>>
vars == <<storeVars, callVars, hubVars, wireVars, agentVars, otherVars>>

Parts == {"server", "client", "wire", "writer"}

\* What conn.Close takes away, on the server and on the agent.
ServerEnd == {"server", "writer", "wire"}
ClientEnd == {"client", "wire"}

NoRow == [status |-> "none", answered |-> FALSE]
NoDelete == [at |-> "idle", session |-> None]
-----------------------------------------------------------------------------
Init ==
    /\ devices = {}
    /\ row = [c \in Commands |-> NoRow]
    /\ pc = [c \in Commands |-> "idle"]
    /\ picked = [c \in Commands |-> None]
    /\ outcome = [c \in Commands |-> "none"]
    /\ hub = [d \in Devices |-> None]
    /\ owner = [s \in Sessions |-> None]
    /\ serve = [s \in Sessions |-> "free"]
    /\ alive = [s \in Sessions |-> {}]
    /\ down = [s \in Sessions |-> <<>>]
    /\ up = [s \in Sessions |-> <<>>]
    /\ hand = [s \in Sessions |-> None]
    /\ cli = [d \in Devices |-> None]
    /\ held = [d \in Devices |-> None]
    /\ exec = [d \in Devices |-> None]
    /\ runs = [c \in Commands |-> 0]
    /\ del = [d \in Devices |-> NoDelete]
    /\ crashes = 0

(***************************************************************************)
(* The connection and the hub's map.                                       *)
(***************************************************************************)
Intact(s) == alive[s] = Parts

\* Data written on s reaches the other end.
Carries(s) == {"server", "client", "wire"} \subseteq alive[s]

\* The agent that owns s is executing while its reader waits to hand over the
\* next command: it reads no frames, so it answers no pings.
Stalled(s) ==
    \E d \in Devices : cli[d] = s /\ exec[d] # None /\ held[d] # None

\* Mutant of RemoveDevice: serveDevice forgets its deferred call.
RemoveNothing(s) == hub' = hub

\* Mutant of RemoveDevice: it does not compare the session with the entry.
RemoveWhoever(s) == hub' = [hub EXCEPT ![owner[s]] = None]

\* Hub.removeDevice: only the session itself may clear its entry.
RemoveDevice(s) ==
    hub' = [hub EXCEPT ![owner[s]] = IF @ = s THEN None ELSE @]

(***************************************************************************)
(* The commands table.  An UPDATE that fails leaves the table as it was.   *)
(***************************************************************************)
Persist(newRow) ==
    \/ row' = newRow
    \/ DBFaults /\ row' = row

\* Mutant of WithStatus: an INSERT OR REPLACE in place of the UPDATE.
UpsertStatus(C, st) ==
    [c \in Commands |->
        IF c \in C THEN [row[c] EXCEPT !.status = st] ELSE row[c]]

WithStatus(C, st) ==
    [c \in Commands |->
        IF c \in C /\ row[c].status # "none"
        THEN [row[c] EXCEPT !.status = st]
        ELSE row[c]]

\* Mutant of WithAnswer: the UPDATE forgets the command's id.
AnswerOfDevice(d, c) ==
    [x \in Commands |->
        IF Target[x] = d /\ row[x].status # "none"
        THEN [status |-> "completed", answered |-> TRUE]
        ELSE row[x]]

\* Mutant of WithAnswer: the status is spelled as docs/test-cases.md has it.
AnswerAsSuccess(d, c) ==
    IF Target[c] = d /\ row[c].status # "none"
    THEN [row EXCEPT ![c] = [status |-> "success", answered |-> TRUE]]
    ELSE row

\* CommandStore.Complete: by id and device_id, whatever the status is.
WithAnswer(d, c) ==
    IF Target[c] = d /\ row[c].status # "none"
    THEN [row EXCEPT ![c] = [status |-> "completed", answered |-> TRUE]]
    ELSE row

Terminal(c) == row[c].status \in {"completed", "failed"}
-----------------------------------------------------------------------------
(***************************************************************************)
(* Mutants of actions below: plausible bugs, which the properties find.    *)
(***************************************************************************)

\* ReadError without the read deadline: only a closed connection is noticed.
ReadErrorIfClosed(s) ==
    /\ serve[s] = "serving"
    /\ hand[s] = None
    /\ "server" \notin alive[s]
    /\ serve' = [serve EXCEPT ![s] = "closing"]
    /\ UNCHANGED <<storeVars, callVars, hub, owner, alive, wireVars, agentVars,
                   otherVars>>

\* Lookup returns some registered session.
LookupAny(c) ==
    /\ pc[c] = "created"
    /\ \E d \in Devices :
           /\ picked' = [picked EXCEPT ![c] = hub[d]]
           /\ pc' = [pc EXCEPT ![c] =
                        IF hub[d] = None THEN "undelivered" ELSE "picked"]
    /\ UNCHANGED <<storeVars, outcome, hubVars, wireVars, agentVars, otherVars>>

\* PollDone takes a missing row for one that has no answer yet.
PollDoneIfFound(c) ==
    /\ pc[c] = "waiting"
    /\ Terminal(c)
    /\ pc' = [pc EXCEPT ![c] = "returned"]
    /\ outcome' = [outcome EXCEPT ![c] = row[c].status]
    /\ UNCHANGED <<storeVars, picked, hubVars, wireVars, agentVars, otherVars>>

\* PollExpired sends the command again instead of giving up.
PollExpiredRetries(c) ==
    /\ pc[c] = "waiting"
    /\ ~Terminal(c) /\ row[c].status # "none"
    /\ pc' = [pc EXCEPT ![c] = "created"]
    /\ UNCHANGED <<storeVars, picked, outcome, hubVars, wireVars, agentVars,
                   otherVars>>

\* ReportTimeout tells the caller that the device is offline.
ReportTimeoutAsOffline(c) ==
    /\ pc[c] = "expired"
    /\ Persist(WithStatus({c}, "failed"))
    /\ pc' = [pc EXCEPT ![c] = "returned"]
    /\ outcome' = [outcome EXCEPT ![c] = "offline"]
    /\ UNCHANGED <<devices, picked, hubVars, wireVars, agentVars, otherVars>>

\* SendResult keeps the result, and sends it again.
SendResultAgain(d) ==
    LET s == cli[d] IN
    /\ exec[d] # None
    /\ up' = IF Carries(s) THEN [up EXCEPT ![s] = Append(@, exec[d])] ELSE up
    /\ UNCHANGED <<storeVars, callVars, hubVars, down, hand, agentVars, otherVars>>

\* Expire goes by the age of a command only ...
ExpireAny(E) ==
    /\ E # {}
    /\ row' = WithStatus(E, "failed")
    /\ UNCHANGED <<devices, callVars, hubVars, wireVars, agentVars, otherVars>>

\* ... or looks for commands that have not been sent.
ExpireQueued(E) ==
    /\ E # {}
    /\ \A c \in E : row[c].status = "queued"
    /\ row' = WithStatus(E, "failed")
    /\ UNCHANGED <<devices, callVars, hubVars, wireVars, agentVars, otherVars>>
-----------------------------------------------------------------------------
(***************************************************************************)
(* serveDevice: one goroutine per session.                                 *)
(***************************************************************************)

\* runOnce dials and sends its register message without waiting for the ack.
Dial(d, s) ==
    /\ cli[d] = None
    /\ serve[s] = "free"
    /\ cli' = [cli EXCEPT ![d] = s]
    /\ owner' = [owner EXCEPT ![s] = d]
    /\ serve' = [serve EXCEPT ![s] = "dialled"]
    /\ alive' = [alive EXCEPT ![s] = Parts]
    /\ UNCHANGED <<storeVars, callVars, hub, wireVars, held, exec, runs,
                   otherVars>>

\* registerDeviceMetadata accepts the registration: the device row exists.
Register(s) ==
    /\ serve[s] = "dialled"
    /\ devices' = devices \cup {owner[s]}
    /\ serve' = [serve EXCEPT ![s] = "upserted"]
    /\ UNCHANGED <<row, callVars, hub, owner, alive, wireVars, agentVars,
                   otherVars>>

\* No register message arrives, or the registration is refused, possibly after
\* the row was written (BindDevice failed).  The connection is closed.
Refuse(s) ==
    /\ serve[s] = "dialled"
    /\ devices' \in {devices, devices \cup {owner[s]}}
    /\ serve' = [serve EXCEPT ![s] = "ended"]
    /\ alive' = [alive EXCEPT ![s] = @ \ ServerEnd]
    /\ up' = [up EXCEPT ![s] = <<>>]
    /\ UNCHANGED <<row, callVars, hub, owner, down, hand, agentVars, otherVars>>

\* addDevice: a session the device had before is closed and replaced.
AddDevice(s) ==
    /\ serve[s] = "upserted"
    /\ hub' = [hub EXCEPT ![owner[s]] = s]
    /\ alive' = LET old == hub[owner[s]]
                IN [t \in Sessions |->
                       IF t = old /\ old # s THEN alive[t] \ ServerEnd
                                             ELSE alive[t]]
    /\ serve' = [serve EXCEPT ![s] = "serving"]
    /\ UNCHANGED <<storeVars, callVars, owner, wireVars, agentVars, otherVars>>

\* The read loop gets a result message ...
ReadResult(s) ==
    /\ serve[s] = "serving"
    /\ hand[s] = None
    /\ "server" \in alive[s]
    /\ up[s] # <<>>
    /\ hand' = [hand EXCEPT ![s] = Head(up[s])]
    /\ up' = [up EXCEPT ![s] = Tail(@)]
    /\ UNCHANGED <<storeVars, callVars, hubVars, down, agentVars, otherVars>>

\* ... and handleDeviceMessage stores it.
StoreResult(s) ==
    /\ serve[s] = "serving"
    /\ hand[s] # None
    /\ Persist(WithAnswer(owner[s], hand[s]))
    /\ hand' = [hand EXCEPT ![s] = None]
    /\ UNCHANGED <<devices, callVars, hubVars, down, up, agentVars, otherVars>>

\* ReadMessage fails: the connection is broken or closed, or the 70 s read
\* deadline passed because the agent answers no pings.
ReadError(s) ==
    /\ serve[s] = "serving"
    /\ hand[s] = None
    /\ ~Carries(s) \/ Stalled(s)
    /\ serve' = [serve EXCEPT ![s] = "closing"]
    /\ UNCHANGED <<storeVars, callVars, hub, owner, alive, wireVars, agentVars,
                   otherVars>>

\* The deferred calls of serveDevice: removeDevice, then conn.Close.
EndServe(s) ==
    /\ serve[s] = "closing"
    /\ RemoveDevice(s)
    /\ serve' = [serve EXCEPT ![s] = "ended"]
    /\ alive' = [alive EXCEPT ![s] = @ \ ServerEnd]
    /\ up' = [up EXCEPT ![s] = <<>>]
    /\ UNCHANGED <<storeVars, callVars, owner, down, hand, agentVars, otherVars>>

\* startPingLoop: a failed ping closes the connection.
PingFails(s) ==
    /\ serve[s] = "serving"
    /\ "server" \in alive[s]
    /\ ~Intact(s)
    /\ alive' = [alive EXCEPT ![s] = @ \ ServerEnd]
    /\ UNCHANGED <<storeVars, callVars, hub, owner, serve, wireVars, agentVars,
                   otherVars>>

\* The network between the two ends goes away.
CutWire(s) ==
    /\ Carries(s)
    /\ alive' = [alive EXCEPT ![s] = @ \ {"wire"}]
    /\ UNCHANGED <<storeVars, callVars, hub, owner, serve, wireVars, agentVars,
                   otherVars>>
-----------------------------------------------------------------------------
(***************************************************************************)
(* The dispatcher of a command: handleExec, or dispatchAndWaitCommand with *)
(* its polling loop; both call Hub.DispatchCommand.                        *)
(***************************************************************************)

\* CommandStore.Create.  The foreign key wants the device's row; without it
\* the caller is refused and nothing happens.
Create(c) ==
    /\ pc[c] = "idle"
    /\ Target[c] \in devices
    /\ row' = [row EXCEPT ![c] = [status |-> "queued", answered |-> FALSE]]
    /\ pc' = [pc EXCEPT ![c] = "created"]
    /\ UNCHANGED <<devices, picked, outcome, hubVars, wireVars, agentVars,
                   otherVars>>

\* getDevice: the session is used after the hub's lock is released.
Lookup(c) ==
    /\ pc[c] = "created"
    /\ picked' = [picked EXCEPT ![c] = hub[Target[c]]]
    /\ pc' = [pc EXCEPT ![c] =
                 IF hub[Target[c]] = None THEN "undelivered" ELSE "picked"]
    /\ UNCHANGED <<storeVars, outcome, hubVars, wireVars, agentVars, otherVars>>

\* writeJSON succeeds.  On a connection whose other end is gone it may do so
\* all the same, and the command is lost.
WriteOk(c) ==
    LET s == picked[c] IN
    /\ pc[c] = "picked"
    /\ {"server", "writer"} \subseteq alive[s]
    /\ down' = IF Carries(s) THEN [down EXCEPT ![s] = Append(@, c)] ELSE down
    /\ pc' = [pc EXCEPT ![c] = "written"]
    /\ picked' = [picked EXCEPT ![c] = None]
    /\ UNCHANGED <<storeVars, outcome, hubVars, up, hand, agentVars,
                   otherVars>>

\* writeJSON fails: the session leaves the hub, but is not closed here.  A
\* stalled agent lets the connection's buffers fill up.
WriteError(c) ==
    LET s == picked[c] IN
    /\ pc[c] = "picked"
    /\ ~Intact(s) \/ Stalled(s)
    /\ RemoveDevice(s)
    /\ alive' = [alive EXCEPT ![s] = @ \ {"writer"}]
    /\ pc' = [pc EXCEPT ![c] = "undelivered"]
    /\ picked' = [picked EXCEPT ![c] = None]
    /\ UNCHANGED <<storeVars, outcome, owner, serve, wireVars, agentVars,
                   otherVars>>

\* MarkSent, after the write and whatever the status has become since.
MarkSent(c) ==
    /\ pc[c] = "written"
    /\ row' = WithStatus({c}, "sent")
    /\ IF c \in Waited
       THEN /\ pc' = [pc EXCEPT ![c] = "waiting"]
            /\ UNCHANGED outcome
       ELSE /\ pc' = [pc EXCEPT ![c] = "returned"]
            /\ outcome' = [outcome EXCEPT ![c] = "accepted"]
    /\ UNCHANGED <<devices, picked, hubVars, wireVars, agentVars, otherVars>>

\* MarkSent fails: DispatchCommand returns an error for a command it sent.
MarkSentFails(c) ==
    /\ DBFaults
    /\ pc[c] = "written"
    /\ pc' = [pc EXCEPT ![c] = "undelivered"]
    /\ UNCHANGED <<storeVars, picked, outcome, hubVars, wireVars, agentVars,
                   otherVars>>

\* DispatchCommand returned an error: MarkFailed (its own error is dropped),
\* and the caller is told that the device is offline.
ReportOffline(c) ==
    /\ pc[c] = "undelivered"
    /\ Persist(WithStatus({c}, "failed"))
    /\ pc' = [pc EXCEPT ![c] = "returned"]
    /\ outcome' = [outcome EXCEPT ![c] = "offline"]
    /\ UNCHANGED <<devices, picked, hubVars, wireVars, agentVars, otherVars>>

\* The polling loop sees a terminal status, or no row any more.
PollDone(c) ==
    /\ pc[c] = "waiting"
    /\ Terminal(c) \/ row[c].status = "none"
    /\ pc' = [pc EXCEPT ![c] = "returned"]
    /\ outcome' = [outcome EXCEPT ![c] =
                      IF Terminal(c) THEN row[c].status ELSE "gone"]
    /\ UNCHANGED <<storeVars, picked, hubVars, wireVars, agentVars, otherVars>>

\* It sees a status that is not terminal, and its deadline has passed ...
PollExpired(c) ==
    /\ pc[c] = "waiting"
    /\ ~Terminal(c) /\ row[c].status # "none"
    /\ pc' = [pc EXCEPT ![c] = "expired"]
    /\ UNCHANGED <<storeVars, picked, outcome, hubVars, wireVars, agentVars,
                   otherVars>>

\* ... so it marks the command as failed, whatever the status has become.
ReportTimeout(c) ==
    /\ pc[c] = "expired"
    /\ Persist(WithStatus({c}, "failed"))
    /\ pc' = [pc EXCEPT ![c] = "returned"]
    /\ outcome' = [outcome EXCEPT ![c] = "timeout"]
    /\ UNCHANGED <<devices, picked, hubVars, wireVars, agentVars, otherVars>>

\* FailExpiredSent: one statement fails the sent commands E whose time is up.
Expire(E) ==
    /\ E # {}
    /\ \A c \in E : row[c].status = "sent"
    /\ row' = WithStatus(E, "failed")
    /\ UNCHANGED <<devices, callVars, hubVars, wireVars, agentVars, otherVars>>
-----------------------------------------------------------------------------
(***************************************************************************)
(* DELETE /devices/d: DisconnectDevice, in three steps, each of which lets *)
(* go of the hub's lock; then the row is deleted, and with it (ON DELETE   *)
(* CASCADE) its commands.  Another connection of the device may register   *)
(* between any two of them.                                                *)
(***************************************************************************)
\* The row is there; getDevice.  An offline device has nothing to disconnect.
FindSession(d) ==
    /\ del[d].at = "idle"
    /\ d \in devices
    /\ del' = [del EXCEPT ![d] =
                  [at |-> IF hub[d] = None THEN "disconnected" ELSE "found",
                   session |-> hub[d]]]
    /\ UNCHANGED <<storeVars, callVars, hubVars, wireVars, agentVars, crashes>>

\* removeDevice: the session is open still, and its goroutine reads on ...
TakeOut(d) ==
    /\ del[d].at = "found"
    /\ RemoveDevice(del[d].session)
    /\ del' = [del EXCEPT ![d].at = "takenOut"]
    /\ UNCHANGED <<storeVars, callVars, owner, serve, alive, wireVars,
                   agentVars, crashes>>

\* ... until conn.Close.
CloseTakenOut(d) ==
    /\ del[d].at = "takenOut"
    /\ alive' = [alive EXCEPT ![del[d].session] = @ \ ServerEnd]
    /\ del' = [del EXCEPT ![d] = [at |-> "disconnected", session |-> None]]
    /\ UNCHANGED <<storeVars, callVars, hub, owner, serve, wireVars, agentVars,
                   crashes>>

DisconnectDevice(d) == FindSession(d) \/ TakeOut(d) \/ CloseTakenOut(d)

DeleteRow(d) ==
    /\ del[d].at = "disconnected"
    /\ del' = [del EXCEPT ![d] = NoDelete]
    /\ devices' = devices \ {d}
    /\ row' = [c \in Commands |-> IF Target[c] = d THEN NoRow ELSE row[c]]
    /\ UNCHANGED <<callVars, hubVars, wireVars, agentVars, crashes>>

\* The server process dies and is started again: the tables stay, everything
\* in memory is lost.
Crash ==
    /\ crashes < MaxCrashes
    /\ crashes' = crashes + 1
    /\ pc' = [c \in Commands |->
                 IF pc[c] \in {"idle", "returned"} THEN pc[c] ELSE "crashed"]
    /\ hub' = [d \in Devices |-> None]
    /\ serve' = [s \in Sessions |->
                    IF serve[s] = "free" THEN "free" ELSE "ended"]
    /\ alive' = [s \in Sessions |-> alive[s] \ ServerEnd]
    /\ up' = [s \in Sessions |-> <<>>]
    /\ hand' = [s \in Sessions |-> None]
    /\ picked' = [c \in Commands |-> None]
    /\ del' = [d \in Devices |-> NoDelete]
    /\ UNCHANGED <<storeVars, outcome, owner, down, agentVars>>
-----------------------------------------------------------------------------
(***************************************************************************)
(* The agent on device d: Connection.runOnce.                              *)
(***************************************************************************)

\* The reader goroutine takes the next command off the connection.  It cannot
\* read on before the main loop has taken that command from cmdCh.
ReadCommand(d) ==
    LET s == cli[d] IN
    /\ s # None
    /\ held[d] = None
    /\ down[s] # <<>>
    /\ held' = [held EXCEPT ![d] = Head(down[s])]
    /\ down' = [down EXCEPT ![s] = Tail(@)]
    /\ UNCHANGED <<storeVars, callVars, hubVars, up, hand, cli, exec, runs,
                   otherVars>>

\* The main loop takes it and executes it.
Execute(d) ==
    /\ exec[d] = None
    /\ held[d] # None
    /\ exec' = [exec EXCEPT ![d] = held[d]]
    /\ held' = [held EXCEPT ![d] = None]
    /\ runs' = [runs EXCEPT ![held[d]] = @ + 1]
    /\ UNCHANGED <<storeVars, callVars, hubVars, wireVars, cli, otherVars>>

\* The result is sent once, on the connection the command came by; if the
\* other end is gone it is lost.
SendResult(d) ==
    LET s == cli[d] IN
    /\ exec[d] # None
    /\ exec' = [exec EXCEPT ![d] = None]
    /\ up' = IF Carries(s) THEN [up EXCEPT ![s] = Append(@, exec[d])] ELSE up
    /\ UNCHANGED <<storeVars, callVars, hubVars, down, hand, cli, held, runs,
                   otherVars>>

\* runOnce returns: the connection is closed, and the command its reader may
\* hold, the one being executed and the commands not yet read are dropped.
Leave(d) ==
    /\ cli' = [cli EXCEPT ![d] = None]
    /\ held' = [held EXCEPT ![d] = None]
    /\ exec' = [exec EXCEPT ![d] = None]
    /\ alive' = [alive EXCEPT ![cli[d]] = @ \ ClientEnd]
    /\ down' = [down EXCEPT ![cli[d]] = <<>>]
    /\ UNCHANGED <<storeVars, callVars, hub, owner, serve, up, hand, runs,
                   otherVars>>

\* A read, a heartbeat or the sending of a result fails.  (An agent that is
\* executing sends its result first: SendResult, then this.)
Hangup(d) ==
    /\ cli[d] # None
    /\ exec[d] = None
    /\ ~Carries(cli[d])
    /\ Leave(d)

\* The agent process dies or is stopped, and with it the command it runs.
Restart(d) ==
    /\ cli[d] # None
    /\ Leave(d)
-----------------------------------------------------------------------------
Dispatcher(c) ==
    \/ Create(c) \/ Lookup(c) \/ WriteOk(c) \/ WriteError(c)
    \/ MarkSent(c) \/ MarkSentFails(c) \/ ReportOffline(c)
    \/ PollDone(c) \/ PollExpired(c) \/ ReportTimeout(c)

Session(s) ==
    \/ Register(s) \/ Refuse(s) \/ AddDevice(s) \/ ReadResult(s)
    \/ StoreResult(s) \/ ReadError(s) \/ EndServe(s) \/ PingFails(s)
    \/ CutWire(s)

Agent(d) ==
    \/ \E s \in Sessions : Dial(d, s)
    \/ ReadCommand(d) \/ Execute(d) \/ SendResult(d)
    \/ Hangup(d) \/ Restart(d)

Next ==
    \/ \E c \in Commands : Dispatcher(c)
    \/ \E s \in Sessions : Session(s)
    \/ \E d \in Devices : Agent(d) \/ DisconnectDevice(d) \/ DeleteRow(d)
    \/ \E E \in SUBSET Commands : Expire(E)
    \/ Crash

Spec == Init /\ [][Next]_vars
-----------------------------------------------------------------------------
(***************************************************************************)
(* Fairness.  Server goroutines that can run do run; the write deadline,   *)
(* the read deadline with its pings and the polling deadline end every     *)
(* wait; the janitor's ticker ends only with the process.  Nothing is      *)
(* assumed of agents, of the network (Register: before it no read deadline *)
(* is set) or of the operator (Create).                                    *)
(***************************************************************************)
DispatcherRuns(c) ==
    \/ Lookup(c) \/ WriteOk(c) \/ WriteError(c)
    \/ MarkSent(c) \/ MarkSentFails(c) \/ ReportOffline(c)
    \/ PollDone(c) \/ PollExpired(c) \/ ReportTimeout(c)

SessionRuns(s) ==
    \/ AddDevice(s) \/ StoreResult(s) \/ ReadError(s) \/ EndServe(s)

JanitorSweeps(c) == \E E \in SUBSET Commands : c \in E /\ Expire(E)

Fairness ==
    /\ \A c \in Commands : WF_vars(DispatcherRuns(c)) /\ WF_vars(JanitorSweeps(c))
    /\ \A s \in Sessions : WF_vars(SessionRuns(s))

FairSpec == Spec /\ Fairness
-----------------------------------------------------------------------------
Statuses == {"none", "queued", "sent", "completed", "failed"}

\* The dispatcher of c has finished, or died with the server.
Settled(c) == pc[c] \in {"returned", "crashed"}

\* Type invariant: every variable of the hub, the stores and the agents holds
\* a value its Go counterpart can hold.
TypeOK ==
    /\ devices \subseteq Devices
    /\ row \in [Commands -> [status : Statuses, answered : BOOLEAN]]
    /\ pc \in [Commands ->
                  {"idle", "created", "picked", "written", "undelivered",
                   "waiting", "expired", "returned", "crashed"}]
    /\ picked \in [Commands -> Sessions \cup {None}]
    /\ outcome \in [Commands ->
                       {"none", "accepted", "offline", "timeout", "gone",
                        "completed", "failed"}]
    /\ hub \in [Devices -> Sessions \cup {None}]
    /\ owner \in [Sessions -> Devices \cup {None}]
    /\ serve \in [Sessions ->
                     {"free", "dialled", "upserted", "serving", "closing",
                      "ended"}]
    /\ alive \in [Sessions -> SUBSET Parts]
    /\ down \in [Sessions -> Seq(Commands)]
    /\ up \in [Sessions -> Seq(Commands)]
    /\ hand \in [Sessions -> Commands \cup {None}]
    /\ cli \in [Devices -> Sessions \cup {None}]
    /\ held \in [Devices -> Commands \cup {None}]
    /\ exec \in [Devices -> Commands \cup {None}]
    /\ runs \in [Commands -> Nat]
    /\ del \in [Devices ->
                   [at : {"idle", "found", "takenOut", "disconnected"},
                    session : Sessions \cup {None}]]
    /\ crashes \in 0 .. MaxCrashes

(***************************************************************************)
(* The hub's map.                                                          *)
(***************************************************************************)

\* A session in deviceWS is one its own serveDevice is still looking after, on
\* behalf of the device it is registered for: no entry outlives its goroutine.
HubEntryIsServed ==
    \A d \in Devices : hub[d] # None =>
        /\ owner[hub[d]] = d
        /\ serve[hub[d]] \in {"serving", "closing"}

\* A DELETE handler has taken s out of the hub and is about to close it.
BeingDisconnected(s) ==
    \E d \in Devices : del[d] = [at |-> "takenOut", session |-> s]

\* A session the server reads from, and has neither closed nor found dead on
\* writing, is the one commands are sent to, or the one that a DELETE of its
\* device is about to close: the end of an older session of the same device
\* never unregisters it, and no device keeps two.
ServedSessionIsInHub ==
    \A s \in Sessions :
        serve[s] = "serving" /\ {"server", "writer"} \subseteq alive[s]
            => hub[owner[s]] = s \/ BeingDisconnected(s)

(***************************************************************************)
(* Commands and the device that executes them.                             *)
(***************************************************************************)

\* However often devices reconnect and dispatchers fail, a command is executed
\* at most once.
AtMostOnce == \A c \in Commands : runs[c] <= 1

\* A device only ever holds commands that are meant for it, across reconnects,
\* replaced sessions and lookups made before them.
RightDevice ==
    \A d \in Devices : \A c \in {held[d], exec[d]} \ {None} : Target[c] = d

\* exit_code and the status 'completed' stand only in rows of commands the
\* device has executed.
AnswerOnlyIfRun ==
    \A c \in Commands :
        /\ row[c].answered => runs[c] > 0
        /\ row[c].status = "completed" => row[c].answered

\* The results on their way to the server over s: the one that serveDevice has
\* in hand, then those it has not read.
Answer(s, n) == IF n = 0 THEN hand[s] ELSE up[s][n]

\* A result reaches the server over a session of the command's own device, for
\* Complete would ignore it on another one; and at most once: while it is under
\* way there is no second copy of it, its command is not being executed and the
\* row has no answer yet, over reconnects and deletions of the device.
AnswersArriveOnce ==
    \A s \in Sessions : \A n \in 0 .. Len(up[s]) : Answer(s, n) # None =>
        /\ Target[Answer(s, n)] = owner[s]
        /\ ~row[Answer(s, n)].answered
        /\ \A d \in Devices : exec[d] # Answer(s, n)
        /\ \A t \in Sessions : \A m \in 0 .. Len(up[t]) :
              Answer(t, m) = Answer(s, n) => t = s /\ m = n

\* A caller told that the device is offline is told so for good: the command
\* never runs, and its row says 'failed' (or went with the device).
OfflineMeansNeverRun ==
    \A c \in Commands : outcome[c] = "offline" =>
        runs[c] = 0 /\ row[c].status \in {"failed", "none"}

\* The polling loop's verdict 'completed' agrees with the row, then and later:
\* neither the janitor nor any late write takes the answer back.
VerdictCompletedStands ==
    \A c \in Commands : outcome[c] = "completed" =>
        row[c].status \in {"completed", "none"}

(***************************************************************************)
(* What no step may do to a command's row.                                 *)
(***************************************************************************)

\* Once the dispatcher of a command is done (or dead), an answer that is stored
\* as 'completed' stays until the device is deleted.
SettledAnswerIsFinal ==
    [][\A c \in Commands :
          Settled(c) /\ row[c].status = "completed"
              => row'[c].status \in {"completed", "none"}]_vars

\* A failed command comes back to life in one way only, by the answer of the
\* device itself; it is never sent again.
OnlyAnAnswerRevives ==
    [][\A c \in Commands :
          row[c].status = "failed" /\ row'[c].status # "failed"
              => \/ row'[c].status = "none"
                 \/ row'[c].status = "completed" /\ runs[c] > 0]_vars

\* docs/test-cases.md calls the state after an answer terminal, its output
\* stored: the answer would stay.  MarkSent may come after it.
AnswerIsFinal ==
    [][\A c \in Commands :
          row[c].status = "completed" => row'[c].status \in {"completed", "none"}]_vars

(***************************************************************************)
(* Liveness.                                                               *)
(***************************************************************************)

\* A command does not stay 'sent' forever: the janitor sees to it.
SentIsResolved ==
    \A c \in Commands : row[c].status = "sent" ~> row[c].status # "sent"

\* Every caller gets its reply, whatever the device and the network do.
CallerReturns ==
    \A c \in Commands : pc[c] = "created" ~> Settled(c)

\* A device whose connection is broken leaves the hub.
DeadSessionIsDropped ==
    \A s \in Sessions :
        serve[s] = "serving" /\ ~Carries(s) ~> serve[s] = "ended"
-----------------------------------------------------------------------------
(***************************************************************************)
(* Refinement.  A row that is not there has not been created yet, or has   *)
(* been deleted.                                                           *)
(***************************************************************************)
RecordStatus ==
    [c \in Commands |->
        IF row[c].status # "none" THEN row[c].status
        ELSE IF pc[c] = "idle" THEN "absent" ELSE "deleted"]

Promised == INSTANCE CommandRecord
    WITH status  <- RecordStatus,
         ran     <- {c \in Commands : runs[c] > 0},
         settled <- {c \in Commands : Settled(c)}

\* The commands table, the hub, the janitor and the agents together keep the
\* promise of CommandRecord.
KeepsPromise == Promised!RecordSpec
=============================================================================
