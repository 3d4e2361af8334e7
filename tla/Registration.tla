----------------------------- MODULE Registration -----------------------------
(***************************************************************************)
(* How a device gets its row and its owner.                                *)
(*                                                                         *)
(* A device opens a connection, and serveDevice registers it: a join token *)
(* is consumed (or the shared device token accepted), the row is written,  *)
(* the device is bound to the user the token was issued for, and only then *)
(* does the session join the hub.  These are separate steps.               *)
(* Administrators issue and delete tokens, bind, unbind and delete in      *)
(* between, each in several statements, too.                               *)
(*                                                                         *)
(* Abstractions.  A statement (or a transaction: there is one connection   *)
(* to the database) is one step.  A user is an account that exists or not; *)
(* roles are in AdminRoles.  A row of devices or device_status is its key. *)
(* A device has one connection here; CommandDispatch gives it several.     *)
(***************************************************************************)
CONSTANTS
    Users,     \* account identifiers
    Devices,   \* device identifiers
    Tokens,    \* join tokens (bounds how many are ever issued)
    Requests,  \* administrators' requests being served at the same time
    None

ASSUME NoneIsNew == None \notin Users \cup Devices \cup Tokens

VARIABLES
    users,     \* rows of users
    devices,   \* rows of devices
    reported,  \* rows of device_status
    bound,     \* rows of user_devices
    token,     \* token[t]: a row of join_tokens
    reg,       \* reg[d]: the connection of d, as serveDevice sees it; and
               \* whether somebody has taken its binding away since it was
               \* registered (history)
    req        \* req[q]: what request q is about and where its handler stands

tables == <<users, devices, reported, bound>>
vars   == <<tables, token, reg, req>>

NoToken == [state |-> "unissued", user |-> None, by |-> None]
NoReg   == [at |-> "idle", cred |-> None, user |-> None, revoked |-> FALSE]
NoReq   == [op |-> "none", user |-> None, object |-> None, at |-> "idle"]

\* States of a registration that was let in and not refused since.
Admitted == {"accepted", "upserted", "userFound", "deviceFound",
             "registered", "online", "closing"}

\* registerDeviceMetadata has returned, and the session is not closed.
Registered(d) == reg[d].at \in {"registered", "online"}
-----------------------------------------------------------------------------
Init ==
    /\ users = Users
    /\ devices = {} /\ reported = {} /\ bound = {}
    /\ token = [t \in Tokens |-> NoToken]
    /\ reg = [d \in Devices |-> NoReg]
    /\ req = [q \in Requests |-> NoReq]

(***************************************************************************)
(* user_devices: both columns are foreign keys, the pair is the primary    *)
(* key.                                                                    *)
(***************************************************************************)
BindAllowed(u, d) == u \in users /\ d \in devices

\* The bindings B go; whoever is registered by one of them is marked.
Withdraw(B) ==
    /\ bound' = bound \ B
    /\ reg' = [d \in Devices |->
                  IF Registered(d) /\ <<reg[d].user, d>> \in B
                  THEN [reg[d] EXCEPT !.revoked = TRUE] ELSE reg[d]]

\* DeleteUser, with ON DELETE CASCADE.  Tokens issued for the user stay.
DeleteUserRow(u) ==
    /\ u \in users
    /\ users' = users \ {u}
    /\ Withdraw({b \in bound : b[1] = u})
    /\ UNCHANGED <<devices, reported, token, req>>

Unbind(u, d) ==
    /\ <<u, d>> \in bound
    /\ Withdraw({<<u, d>>})
    /\ UNCHANGED <<users, devices, reported, token, req>>
-----------------------------------------------------------------------------
(***************************************************************************)
(* registerDeviceMetadata                                                  *)
(***************************************************************************)
Move(d, at) == reg' = [reg EXCEPT ![d].at = at]

\* The shared device token: no user comes with it.
DeviceToken(d) ==
    /\ reg[d].at = "idle"
    /\ reg' = [reg EXCEPT ![d] =
                  [NoReg EXCEPT !.at = "accepted"]]
    /\ UNCHANGED <<tables, token, req>>

\* Mutant of Consume: a used token is as good as a fresh one.
ConsumeAgain(d, t) ==
    /\ reg[d].at = "idle"
    /\ token[t].state \in {"fresh", "used"}
    /\ token' = [token EXCEPT ![t] =
                    [state |-> "used", user |-> @.user, by |-> d]]
    /\ reg' = [reg EXCEPT ![d] =
                  [NoReg EXCEPT !.at = "accepted", !.cred = t,
                                !.user = token[t].user]]
    /\ UNCHANGED <<tables, req>>

\* ValidateAndConsume, in one transaction.
Consume(d, t) ==
    /\ reg[d].at = "idle"
    /\ token[t].state = "fresh"
    /\ token' = [token EXCEPT ![t] =
                    [state |-> "used", user |-> @.user, by |-> d]]
    /\ reg' = [reg EXCEPT ![d] =
                  [NoReg EXCEPT !.at = "accepted", !.cred = t,
                                !.user = token[t].user]]
    /\ UNCHANGED <<tables, req>>

\* ErrNotFound, ErrJoinTokenUsed or ErrJoinTokenExpired, whoever asks.
RefuseToken(d, t) ==
    /\ reg[d].at = "idle"
    /\ token[t].state # "fresh"
    /\ reg' = [reg EXCEPT ![d] =
                  [NoReg EXCEPT !.at = "refused", !.cred = t]]
    /\ UNCHANGED <<tables, token, req>>

\* UpsertDevice; without a user that is all.
Upsert(d) ==
    /\ reg[d].at = "accepted"
    /\ devices' = devices \cup {d}
    /\ Move(d, IF reg[d].user = None THEN "registered" ELSE "upserted")
    /\ UNCHANGED <<users, reported, bound, token, req>>

\* BindDevice: GetUserByID, ...
RegFindUser(d) ==
    /\ reg[d].at = "upserted"
    /\ Move(d, IF reg[d].user \in users THEN "userFound" ELSE "refused")
    /\ UNCHANGED <<tables, token, req>>

\* ... SELECT id FROM devices, ...
RegFindDevice(d) ==
    /\ reg[d].at = "userFound"
    /\ Move(d, IF d \in devices THEN "deviceFound" ELSE "refused")
    /\ UNCHANGED <<tables, token, req>>

\* Mutant of RegBind: every error of BindDevice is passed over, not only
\* ErrConflict.
RegBindOrNot(d) ==
    /\ reg[d].at = "deviceFound"
    /\ bound' = IF BindAllowed(reg[d].user, d)
                THEN bound \cup {<<reg[d].user, d>>} ELSE bound
    /\ Move(d, "registered")
    /\ UNCHANGED <<users, devices, reported, token, req>>

\* Mutant of RegBind: no foreign keys (PRAGMA foreign_keys is off).
RegBindUnchecked(d) ==
    /\ reg[d].at = "deviceFound"
    /\ bound' = bound \cup {<<reg[d].user, d>>}
    /\ Move(d, "registered")
    /\ UNCHANGED <<users, devices, reported, token, req>>

\* ... INSERT INTO user_devices.  ErrConflict is no error here; a violated
\* foreign key is.
RegBind(d) ==
    LET ok == BindAllowed(reg[d].user, d) IN
    /\ reg[d].at = "deviceFound"
    /\ bound' = IF ok THEN bound \cup {<<reg[d].user, d>>} ELSE bound
    /\ Move(d, IF ok THEN "registered" ELSE "refused")
    /\ UNCHANGED <<users, devices, reported, token, req>>

\* Back in serveDevice: addDevice, without another look at the tables.
AddDevice(d) ==
    /\ reg[d].at = "registered"
    /\ Move(d, "online")
    /\ UNCHANGED <<tables, token, req>>

\* A statement fails, the device hangs up or the server crashes.
Drop(d) ==
    /\ reg[d].at # "idle"
    /\ reg' = [reg EXCEPT ![d] = NoReg]
    /\ UNCHANGED <<tables, token, req>>

\* UpdateHeartbeat of an online device, or of one that is being closed while
\* its last message is in hand: device_status refers to devices, so without a
\* row there the transaction is rolled back.
Heartbeat(d) ==
    /\ reg[d].at \in {"online", "closing"}
    /\ reported' = IF d \in devices THEN reported \cup {d} ELSE reported
    /\ UNCHANGED <<users, devices, bound, token, reg, req>>
-----------------------------------------------------------------------------
(***************************************************************************)
(* Administrators' requests.                                               *)
(***************************************************************************)
Begin(q, op, u, x) ==
    /\ req[q].at = "idle"
    /\ req' = [req EXCEPT ![q] =
                  [op |-> op, user |-> u, object |-> x, at |-> "begun"]]
    /\ UNCHANGED <<tables, token, reg>>

Advance(q, at) == req' = [req EXCEPT ![q].at = at]
Finish(q)      == req' = [req EXCEPT ![q] = NoReq]

\* handleBindUserDevice and, if the token is for a user, handleCreateJoinToken.
ReqFindUser(q) ==
    /\ req[q].at = "begun" /\ req[q].op \in {"bind", "issue"}
    /\ IF req[q].user \in users \cup {None} THEN Advance(q, "userFound")
                                            ELSE Finish(q)
    /\ UNCHANGED <<tables, token, reg>>

ReqFindDevice(q) ==
    /\ req[q].op = "bind" /\ req[q].at = "userFound"
    /\ IF req[q].object \in devices THEN Advance(q, "deviceFound") ELSE Finish(q)
    /\ UNCHANGED <<tables, token, reg>>

ReqBind(q) ==
    LET u == req[q].user  d == req[q].object IN
    /\ req[q].at = "deviceFound"
    /\ bound' = IF BindAllowed(u, d) THEN bound \cup {<<u, d>>} ELSE bound
    /\ Finish(q)
    /\ UNCHANGED <<users, devices, reported, token, reg>>

\* CreateToken under a new identifier; user_id is no foreign key.
Issue(q) ==
    /\ req[q].op = "issue" /\ req[q].at = "userFound"
    /\ token[req[q].object] = NoToken
    /\ token' = [token EXCEPT ![req[q].object] =
                    [state |-> "fresh", user |-> req[q].user, by |-> None]]
    /\ Finish(q)
    /\ UNCHANGED <<tables, reg>>

Expire(t) ==
    /\ token[t].state = "fresh"
    /\ token' = [token EXCEPT ![t].state = "expired"]
    /\ UNCHANGED <<tables, reg, req>>

DeleteToken(t) ==
    /\ token[t].state \notin {"unissued", "deleted"}
    /\ token' = [token EXCEPT ![t] = [NoToken EXCEPT !.state = "deleted"]]
    /\ UNCHANGED <<tables, reg, req>>

\* handleDeleteDevice: GetDevice, ...
ReqFindDoomed(q) ==
    /\ req[q].op = "delete" /\ req[q].at = "begun"
    /\ IF req[q].object \in devices THEN Advance(q, "doomed") ELSE Finish(q)
    /\ UNCHANGED <<tables, token, reg>>

\* ... DisconnectDevice closes a session that is in the hub, ...
Disconnect(q) ==
    LET d == req[q].object IN
    /\ req[q].at = "doomed"
    /\ IF reg[d].at = "online" THEN Move(d, "closing") ELSE UNCHANGED reg
    /\ Advance(q, "closed")
    /\ UNCHANGED <<tables, token>>

\* ... and the row is deleted, with ON DELETE CASCADE.  The device may have
\* come back meanwhile, or be on its way into the hub.
DeleteDeviceRow(q) ==
    LET d == req[q].object IN
    /\ req[q].at = "closed"
    /\ devices' = devices \ {d}
    /\ reported' = reported \ {d}
    /\ Withdraw({b \in bound : b[2] = d})
    /\ Finish(q)
    /\ UNCHANGED <<users, token>>

\* A statement fails or the server crashes.
Fail(q) ==
    /\ req[q].at # "idle"
    /\ Finish(q)
    /\ UNCHANGED <<tables, token, reg>>
-----------------------------------------------------------------------------
Register(d) ==
    \/ DeviceToken(d)
    \/ \E t \in Tokens : Consume(d, t) \/ RefuseToken(d, t)
    \/ Upsert(d) \/ RegFindUser(d) \/ RegFindDevice(d) \/ RegBind(d)
    \/ AddDevice(d) \/ Drop(d) \/ Heartbeat(d)

Serve(q) ==
    \/ \E u \in Users, d \in Devices : Begin(q, "bind", u, d)
    \/ \E u \in Users \cup {None}, t \in Tokens : Begin(q, "issue", u, t)
    \/ \E d \in Devices : Begin(q, "delete", None, d)
    \/ ReqFindUser(q) \/ ReqFindDevice(q) \/ ReqBind(q) \/ Issue(q)
    \/ ReqFindDoomed(q) \/ Disconnect(q) \/ DeleteDeviceRow(q) \/ Fail(q)

Next ==
    \/ \E d \in Devices : Register(d)
    \/ \E q \in Requests : Serve(q)
    \/ \E t \in Tokens : Expire(t) \/ DeleteToken(t)
    \/ \E u \in Users : DeleteUserRow(u) \/ \E d \in Devices : Unbind(u, d)

Spec == Init /\ [][Next]_vars
-----------------------------------------------------------------------------
\* Type invariant: the tables, the tokens' rows and the handlers' local state.
TypeOK ==
    /\ users \subseteq Users
    /\ devices \subseteq Devices
    /\ reported \subseteq Devices
    /\ bound \subseteq Users \X Devices
    /\ token \in [Tokens ->
          [state : {"unissued", "fresh", "expired", "used", "deleted"},
           user : Users \cup {None}, by : Devices \cup {None}]]
    /\ reg \in [Devices ->
          [at : Admitted \cup {"idle", "refused"},
           cred : Tokens \cup {None}, user : Users \cup {None},
           revoked : BOOLEAN]]
    /\ req \in [Requests ->
          [op : {"none", "bind", "issue", "delete"},
           user : Users \cup {None},
           object : Devices \cup Tokens \cup {None},
           at : {"idle", "begun", "userFound", "deviceFound", "doomed",
                 "closed"}]]

\* However registrations, bindings, heartbeats and deletions interleave, no row
\* is left that refers to a user or a device that is gone.
NoDanglingRows ==
    /\ bound \subseteq users \X devices
    /\ reported \subseteq devices

\* A join token is for one device ("a one-time onboarding token"): whoever is
\* being registered or online by it is the device its row names.
OneDevicePerToken ==
    \A d \in Devices : \A t \in Tokens :
        reg[d].at \in Admitted /\ reg[d].cred = t
            => \/ token[t].state = "used" /\ token[t].by = d
               \/ token[t].state = "deleted"

\* A device that was registered by the token of a user, and comes online or is
\* online by it, is bound to that user, though the user or the device may have
\* been deleted between any two statements of the registration; unless somebody
\* has unbound it, or deleted the user or the device, since it was registered:
\* addDevice and what follows do not look again.
OnlineMeansBound ==
    \A d \in Devices :
        Registered(d) /\ reg[d].user # None
            => <<reg[d].user, d>> \in bound \/ reg[d].revoked

\* The unit the install script writes starts the agent with its join token
\* again and again; docs/test-cases.md has it reconnect and register without
\* manual intervention: a device that is known and bound is not refused.
ReconnectIsAccepted ==
    [][\A d \in Devices :
          reg[d].at = "idle" /\ reg'[d].at = "refused"
              => LET t == token[reg'[d].cred] IN
                 ~ (t.by = d /\ <<t.user, d>> \in bound)]_vars
=============================================================================
