-------------------------- MODULE Registration_proofs --------------------------
(***************************************************************************)
(* Proofs about Registration, for any number of users, devices, tokens and *)
(* requests.                                                               *)
(*                                                                         *)
(* NoDanglingRows and OneDevicePerToken are inductive together with the    *)
(* type invariant: rows are inserted under foreign keys and deleted with a *)
(* cascade, and a token that lets somebody in was fresh, so that nobody    *)
(* is in by it yet.                                                        *)
(***************************************************************************)
EXTENDS Registration, TLAPS

RegInv == TypeOK /\ NoDanglingRows /\ OneDevicePerToken

RegType == [at : Admitted \cup {"idle", "refused"},
            cred : Tokens \cup {None}, user : Users \cup {None},
            revoked : BOOLEAN]

ReqType == [op : {"none", "bind", "issue", "delete"},
            user : Users \cup {None},
            object : Devices \cup Tokens \cup {None},
            at : {"idle", "begun", "userFound", "deviceFound", "doomed",
                  "closed"}]

(* Taking bindings away marks registrations, and changes nothing else of them. *)
LEMMA WithdrawMarks ==
    ASSUME TypeOK, NEW B, Withdraw(B)
    PROVE  /\ reg' \in [Devices -> RegType]
           /\ bound' \subseteq bound
           /\ \A d \in Devices :
                 /\ reg'[d].at = reg[d].at /\ reg'[d].cred = reg[d].cred
                 /\ reg'[d].user = reg[d].user
                 /\ \/ reg'[d].revoked
                    \/ /\ reg'[d].revoked = reg[d].revoked
                       /\ Registered(d) => <<reg[d].user, d>> \notin B
<1> USE DEF RegType
<1>1. reg \in [Devices -> RegType]
    BY DEF TypeOK
<1>2. \A d \in Devices : reg'[d] = IF Registered(d) /\ <<reg[d].user, d>> \in B
                                   THEN [reg[d] EXCEPT !.revoked = TRUE] ELSE reg[d]
    BY DEF Withdraw
<1>3. \A d \in Devices : reg'[d] \in RegType
    BY <1>1, <1>2
<1>4. reg' \in [Devices -> RegType]
    BY <1>3 DEF Withdraw
<1>5. \A d \in Devices :
         /\ reg'[d].at = reg[d].at /\ reg'[d].cred = reg[d].cred
         /\ reg'[d].user = reg[d].user
         /\ \/ reg'[d].revoked
            \/ /\ reg'[d].revoked = reg[d].revoked
               /\ Registered(d) => <<reg[d].user, d>> \notin B
    BY <1>1, <1>2
<1> QED
    BY <1>4, <1>5 DEF Withdraw
-----------------------------------------------------------------------------
LEMMA InitReg == Init => RegInv
BY DEF Init, RegInv, TypeOK, NoDanglingRows, OneDevicePerToken, NoToken, NoReg,
       NoReq, Admitted

(* A registration is nobody else's business. *)
LEMMA OthersUntouched ==
    ASSUME TypeOK, NEW d \in Devices, NEW e \in Devices, Register(e), e # d
    PROVE  reg'[d] = reg[d]
<1>1. ASSUME NEW r, reg' = [reg EXCEPT ![e] = r] PROVE reg'[d] = reg[d]
    BY <1>1 DEF TypeOK
<1>2. ASSUME NEW at, Move(e, at) PROVE reg'[d] = reg[d]
    BY <1>2 DEF Move, TypeOK
<1>3. CASE DeviceToken(e)
    BY <1>1, <1>3 DEF DeviceToken
<1>4. ASSUME NEW t \in Tokens, Consume(e, t) \/ RefuseToken(e, t)
      PROVE  reg'[d] = reg[d]
    BY <1>1, <1>4 DEF Consume, RefuseToken
<1>5. CASE Upsert(e) \/ RegFindUser(e) \/ RegFindDevice(e) \/ RegBind(e)
    BY <1>2, <1>5 DEF Upsert, RegFindUser, RegFindDevice, RegBind
<1>6. CASE Drop(e) \/ Heartbeat(e)
    BY <1>1, <1>6 DEF Drop, Heartbeat
<1>7. CASE AddDevice(e)
    BY <1>2, <1>7 DEF AddDevice
<1> QED
    BY <1>3, <1>4, <1>5, <1>6, <1>7 DEF Register

(* A step of one registration. *)
LEMMA RegisterKeeps ==
    ASSUME RegInv, NEW d \in Devices, Register(d)
    PROVE  RegInv'
<1> USE DEF RegInv, NoReg
<1>1. CASE DeviceToken(d)
    <2>1. TypeOK'
        BY <1>1 DEF DeviceToken, TypeOK, tables, Admitted
    <2>2. /\ reg'[d].cred = None
          /\ \A e \in Devices : e # d => reg'[e] = reg[e]
        BY <1>1 DEF DeviceToken, TypeOK
    <2>3. OneDevicePerToken'
        BY <1>1, <2>2, NoneIsNew DEF DeviceToken, OneDevicePerToken
    <2> QED
        BY <1>1, <2>1, <2>3 DEF DeviceToken, NoDanglingRows, tables
<1>2. ASSUME NEW t \in Tokens, Consume(d, t) PROVE RegInv'
    <2>1. TypeOK'
        <3>1. token[t].user \in Users \cup {None}
            BY DEF TypeOK
        <3> QED
            BY <1>2, <3>1 DEF Consume, TypeOK, tables, Admitted
    <2>2. \A e \in Devices : ~ (reg[e].at \in Admitted /\ reg[e].cred = t)
        BY <1>2 DEF Consume, OneDevicePerToken
    <2>3. /\ token'[t].state = "used" /\ token'[t].by = d
          /\ \A s \in Tokens : s # t => token'[s] = token[s]
          /\ reg'[d].cred = t
          /\ \A e \in Devices : e # d => reg'[e] = reg[e]
        BY <1>2 DEF Consume, TypeOK
    <2>4. OneDevicePerToken'
        BY <2>2, <2>3 DEF OneDevicePerToken
    <2> QED
        BY <1>2, <2>1, <2>4 DEF Consume, NoDanglingRows, tables
<1>3. ASSUME NEW t \in Tokens, RefuseToken(d, t) PROVE RegInv'
    <2>1. TypeOK'
        BY <1>3 DEF RefuseToken, TypeOK, tables
    <2>2. OneDevicePerToken'
        BY <1>3 DEF RefuseToken, TypeOK, OneDevicePerToken, Admitted
    <2> QED
        BY <1>3, <2>1, <2>2 DEF RefuseToken, NoDanglingRows, tables
<1>4. ASSUME NEW at \in Admitted \cup {"refused"}, Move(d, at),
             reg[d].at \in Admitted, UNCHANGED token
      PROVE  OneDevicePerToken'
    <2>1. /\ reg'[d].cred = reg[d].cred
          /\ \A e \in Devices : e # d => reg'[e] = reg[e]
        BY <1>4 DEF Move, TypeOK
    <2> QED
        BY <1>4, <2>1 DEF OneDevicePerToken
<1>5. CASE Upsert(d)
    <2>1. TypeOK'
        BY <1>5 DEF Upsert, Move, TypeOK, Admitted
    <2>2. OneDevicePerToken'
        BY <1>4, <1>5 DEF Upsert, Admitted
    <2> QED
        BY <1>5, <2>1, <2>2 DEF Upsert, NoDanglingRows
<1>6. CASE RegFindUser(d)
    <2>1. TypeOK'
        BY <1>6 DEF RegFindUser, Move, TypeOK, tables, Admitted
    <2>2. OneDevicePerToken'
        BY <1>4, <1>6 DEF RegFindUser, Admitted
    <2> QED
        BY <1>6, <2>1, <2>2 DEF RegFindUser, NoDanglingRows, tables
<1>7. CASE RegFindDevice(d)
    <2>1. TypeOK'
        BY <1>7 DEF RegFindDevice, Move, TypeOK, tables, Admitted
    <2>2. OneDevicePerToken'
        BY <1>4, <1>7 DEF RegFindDevice, Admitted
    <2> QED
        BY <1>7, <2>1, <2>2 DEF RegFindDevice, NoDanglingRows, tables
<1>8. CASE RegBind(d)
    <2>1. NoDanglingRows'
        BY <1>8 DEF RegBind, BindAllowed, NoDanglingRows
    <2>2. TypeOK'
        BY <1>8, <2>1 DEF RegBind, Move, TypeOK, NoDanglingRows, Admitted
    <2>3. OneDevicePerToken'
        BY <1>4, <1>8 DEF RegBind, Admitted
    <2> QED
        BY <2>1, <2>2, <2>3
<1>9. CASE Drop(d)
    <2>1. TypeOK'
        BY <1>9 DEF Drop, NoReg, TypeOK, tables
    <2>2. OneDevicePerToken'
        BY <1>9 DEF Drop, NoReg, TypeOK, OneDevicePerToken, Admitted
    <2> QED
        BY <1>9, <2>1, <2>2 DEF Drop, NoDanglingRows, tables
<1>10. CASE Heartbeat(d)
    BY <1>10 DEF Heartbeat, TypeOK, NoDanglingRows, OneDevicePerToken
<1>11. CASE AddDevice(d)
    <2>1. TypeOK'
        BY <1>11 DEF AddDevice, Move, TypeOK, tables, Admitted
    <2>2. OneDevicePerToken'
        BY <1>4, <1>11 DEF AddDevice, Admitted
    <2> QED
        BY <1>11, <2>1, <2>2 DEF AddDevice, NoDanglingRows, tables
<1> QED
    BY <1>1, <1>2, <1>3, <1>5, <1>6, <1>7, <1>8, <1>9, <1>10, <1>11 DEF Register

(* A handler moves on, or is done. *)
LEMMA HandlerMoves ==
    ASSUME TypeOK, NEW q \in Requests,
           Finish(q) \/ \E at \in {"userFound", "deviceFound", "doomed", "closed"} :
                            Advance(q, at)
    PROVE  req' \in [Requests -> ReqType]
<1>1. req \in [Requests -> ReqType]
    BY DEF TypeOK, ReqType
<1>2. CASE Finish(q)
    <2>1. NoReq \in ReqType
        BY DEF NoReq, ReqType
    <2> QED
        BY <1>1, <1>2, <2>1 DEF Finish
<1>3. ASSUME NEW at \in {"userFound", "deviceFound", "doomed", "closed"},
             Advance(q, at)
      PROVE  req' \in [Requests -> ReqType]
    <2>1. [req[q] EXCEPT !.at = at] \in ReqType
        <3>1. req[q] \in ReqType
            BY <1>1
        <3> QED
            BY <3>1 DEF ReqType
    <2>2. req' = [req EXCEPT ![q] = [req[q] EXCEPT !.at = at]]
        BY <1>3, Zenon DEF Advance
    <2> QED
        BY <1>1, <2>1, <2>2
<1> QED
    BY <1>2, <1>3

(* A step of one request. *)
LEMMA ServeKeeps ==
    ASSUME RegInv, NEW q \in Requests, Serve(q)
    PROVE  RegInv'
<1> USE DEF RegInv
<1>1. ASSUME req' \in [Requests -> ReqType], UNCHANGED <<tables, token, reg>>
      PROVE  RegInv'
    BY <1>1 DEF ReqType, tables, TypeOK, NoDanglingRows, OneDevicePerToken
<1>2. ASSUME NEW u \in Users \cup {None},
             NEW x \in Devices \cup Tokens,
             NEW op \in {"bind", "issue", "delete"}, Begin(q, op, u, x)
      PROVE  RegInv'
    <2>1. [op |-> op, user |-> u, object |-> x, at |-> "begun"] \in ReqType
        BY DEF ReqType
    <2>2. req' = [req EXCEPT ![q] = [op |-> op, user |-> u, object |-> x,
                                     at |-> "begun"]]
        BY <1>2 DEF Begin
    <2>3. UNCHANGED <<tables, token, reg>>
        BY <1>2 DEF Begin
    <2>4. req' \in [Requests -> ReqType]
        BY <2>1, <2>2 DEF TypeOK, ReqType
    <2> HIDE DEF RegInv
    <2> QED
        BY <1>1, <2>3, <2>4
<1>3. CASE ReqFindUser(q) \/ ReqFindDevice(q) \/ ReqFindDoomed(q) \/ Fail(q)
    <2>1. /\ Finish(q) \/ \E at \in {"userFound", "deviceFound", "doomed", "closed"} :
                              Advance(q, at)
          /\ UNCHANGED <<tables, token, reg>>
        BY <1>3 DEF ReqFindUser, ReqFindDevice, ReqFindDoomed, Fail
    <2>2. req' \in [Requests -> ReqType]
        BY <2>1, HandlerMoves
    <2> HIDE DEF RegInv
    <2> QED
        BY <1>1, <2>1, <2>2
<1>5. CASE ReqBind(q)
    <2>1. NoDanglingRows'
        BY <1>5 DEF ReqBind, BindAllowed, NoDanglingRows
    <2>2. req' \in [Requests -> ReqType]
        BY <1>5, HandlerMoves DEF ReqBind
    <2>3. TypeOK'
        BY <1>5, <2>1, <2>2 DEF ReqBind, ReqType, TypeOK, NoDanglingRows
    <2> QED
        BY <1>5, <2>1, <2>3 DEF ReqBind, OneDevicePerToken
<1>6. CASE Issue(q)
    <2> DEFINE t == req[q].object
    <2>1. TypeOK'
        <3>1. req' \in [Requests -> ReqType]
            BY <1>6, HandlerMoves DEF Issue
        <3>2. req[q].user \in Users \cup {None}
            BY DEF TypeOK
        <3> QED
            BY <1>6, <3>1, <3>2 DEF Issue, ReqType, TypeOK, tables
    <2>2. \A s \in Tokens : s # t => token'[s] = token[s]
        BY <1>6 DEF Issue, TypeOK
    <2>3. \A d \in Devices :
              t \in Tokens => ~ (reg[d].at \in Admitted /\ reg[d].cred = t)
        BY <1>6 DEF Issue, NoToken, OneDevicePerToken
    <2>4. OneDevicePerToken'
        BY <1>6, <2>2, <2>3 DEF Issue, OneDevicePerToken
    <2> QED
        BY <1>6, <2>1, <2>4 DEF Issue, NoDanglingRows, tables
<1>7. CASE Disconnect(q)
    <2>1. \A d \in Devices :
              /\ \/ reg'[d].at = reg[d].at
                 \/ reg[d].at = "online" /\ reg'[d].at = "closing"
              /\ reg'[d].cred = reg[d].cred
        <3>1. CASE UNCHANGED reg
            BY <3>1
        <3>2. ASSUME NEW e, reg[e].at = "online",
                     reg' = [reg EXCEPT ![e].at = "closing"]
              PROVE  \A d \in Devices :
                         /\ \/ reg'[d].at = reg[d].at
                            \/ reg[d].at = "online" /\ reg'[d].at = "closing"
                         /\ reg'[d].cred = reg[d].cred
            BY <3>2 DEF TypeOK
        <3> QED
            BY <1>7, <3>1, <3>2 DEF Disconnect, Move
    <2>2. OneDevicePerToken'
        BY <1>7, <2>1 DEF Disconnect, OneDevicePerToken, Admitted
    <2>3. reg' \in [Devices -> RegType]
        <3>1. reg \in [Devices -> RegType]
            BY DEF TypeOK, RegType
        <3>2. CASE UNCHANGED reg
            BY <3>1, <3>2
        <3>3. ASSUME NEW d, reg' = [reg EXCEPT ![d].at = "closing"]
              PROVE  reg' \in [Devices -> RegType]
            BY <3>1, <3>3 DEF RegType, Admitted
        <3> QED
            BY <1>7, <3>2, <3>3 DEF Disconnect, Move
    <2>4. req' \in [Requests -> ReqType]
        BY <1>7, HandlerMoves DEF Disconnect
    <2>5. UNCHANGED <<tables, token>>
        BY <1>7 DEF Disconnect
    <2>6. TypeOK'
        BY <2>3, <2>4, <2>5 DEF TypeOK, tables, RegType, ReqType
    <2> QED
        BY <2>2, <2>5, <2>6 DEF NoDanglingRows, tables
<1>8. CASE DeleteDeviceRow(q)
    <2> DEFINE B == {b \in bound : b[2] = req[q].object}
    <2>1. Withdraw(B) /\ bound' = bound \ B
        BY <1>8 DEF DeleteDeviceRow, Withdraw
    <2>2. NoDanglingRows'
        BY <1>8, <2>1 DEF DeleteDeviceRow, NoDanglingRows
    <2> HIDE DEF B
    <2>3. req' \in [Requests -> ReqType]
        BY <1>8, HandlerMoves DEF DeleteDeviceRow
    <2>4. /\ reg' \in [Devices -> RegType] /\ bound' \subseteq bound
          /\ \A d \in Devices : reg'[d].at = reg[d].at /\ reg'[d].cred = reg[d].cred
        BY <2>1, WithdrawMarks
    <2>5. TypeOK'
        BY <1>8, <2>3, <2>4 DEF DeleteDeviceRow, TypeOK, RegType, ReqType
    <2>6. OneDevicePerToken'
        BY <1>8, <2>4 DEF DeleteDeviceRow, OneDevicePerToken
    <2> QED
        BY <2>2, <2>5, <2>6
<1> QED
    BY <1>2, <1>3, <1>5, <1>6, <1>7, <1>8 DEF Serve

LEMMA StepReg == RegInv /\ [Next]_vars => RegInv'
<1> SUFFICES ASSUME RegInv, [Next]_vars PROVE RegInv'
    OBVIOUS
<1> USE DEF RegInv
<1>1. ASSUME NEW t \in Tokens, Expire(t) PROVE RegInv'
    <2>1. TypeOK'
        <3>1. token' \in [Tokens ->
                  [state : {"unissued", "fresh", "expired", "used", "deleted"},
                   user : Users \cup {None}, by : Devices \cup {None}]]
            <4>1. token[t].user \in Users \cup {None} /\ token[t].by \in Devices \cup {None}
                BY DEF TypeOK
            <4>2. token' = [token EXCEPT ![t] = [token[t] EXCEPT !.state = "expired"]]
                BY <1>1, Zenon DEF Expire
            <4>3. [token[t] EXCEPT !.state = "expired"] \in
                      [state : {"unissued", "fresh", "expired", "used", "deleted"},
                       user : Users \cup {None}, by : Devices \cup {None}]
                BY <4>1 DEF TypeOK
            <4> QED
                BY <4>2, <4>3 DEF TypeOK
        <3> QED
            BY <1>1, <3>1 DEF Expire, TypeOK, tables
    <2>2. \A d \in Devices : ~ (reg[d].at \in Admitted /\ reg[d].cred = t)
        BY <1>1 DEF Expire, OneDevicePerToken
    <2>3. \A s \in Tokens : s # t => token'[s] = token[s]
        BY <1>1 DEF Expire, TypeOK
    <2>4. OneDevicePerToken'
        BY <1>1, <2>2, <2>3 DEF Expire, OneDevicePerToken
    <2> QED
        BY <1>1, <2>1, <2>4 DEF Expire, NoDanglingRows, tables
<1>2. ASSUME NEW t \in Tokens, DeleteToken(t) PROVE RegInv'
    <2>1. TypeOK'
        BY <1>2 DEF DeleteToken, NoToken, TypeOK, tables
    <2>2. /\ token'[t].state = "deleted"
          /\ \A s \in Tokens : s # t => token'[s] = token[s]
        BY <1>2 DEF DeleteToken, NoToken, TypeOK
    <2>3. OneDevicePerToken'
        BY <1>2, <2>2 DEF DeleteToken, OneDevicePerToken
    <2> QED
        BY <1>2, <2>1, <2>3 DEF DeleteToken, NoDanglingRows, tables
<1>3. ASSUME NEW B, Withdraw(B), users' \subseteq users, NoDanglingRows',
             UNCHANGED <<devices, reported, token, req>>
      PROVE  RegInv'
    <2>1. /\ reg' \in [Devices -> RegType] /\ bound' \subseteq bound
          /\ \A d \in Devices : reg'[d].at = reg[d].at /\ reg'[d].cred = reg[d].cred
        BY <1>3, WithdrawMarks
    <2> QED
        BY <1>3, <2>1 DEF TypeOK, RegType, OneDevicePerToken
<1>4. ASSUME NEW u \in Users, DeleteUserRow(u) PROVE RegInv'
    <2>1. NoDanglingRows'
        BY <1>4 DEF DeleteUserRow, Withdraw, NoDanglingRows
    <2> QED
        BY <1>3, <1>4, <2>1 DEF DeleteUserRow
<1>5. ASSUME NEW u \in Users, NEW d \in Devices, Unbind(u, d) PROVE RegInv'
    <2>1. NoDanglingRows'
        BY <1>5 DEF Unbind, Withdraw, NoDanglingRows
    <2> QED
        BY <1>3, <1>5, <2>1 DEF Unbind
<1>6. CASE UNCHANGED vars
    BY <1>6 DEF vars, tables, TypeOK, NoDanglingRows, OneDevicePerToken
<1> QED
    BY <1>1, <1>2, <1>4, <1>5, <1>6, RegisterKeeps, ServeKeeps DEF Next

\* The strengthening is an invariant, for any number of devices and requests.
THEOREM RegistrationInvariant == Spec => []RegInv
BY InitReg, StepReg, PTL DEF Spec
-----------------------------------------------------------------------------
(* Type correctness, for any number of devices, users, tokens and requests.  *)
THEOREM RegistrationTypeCorrect == Spec => []TypeOK
<1>1. RegInv => TypeOK
    BY DEF RegInv
<1> QED
    BY <1>1, RegistrationInvariant, PTL

(* No binding and no status row outlives the user or the device it is about. *)
THEOREM RowsHaveOwners == Spec => []NoDanglingRows
<1>1. RegInv => NoDanglingRows
    BY DEF RegInv
<1> QED
    BY <1>1, RegistrationInvariant, PTL

(* A join token admits the one device its row names. *)
THEOREM TokensAdmitOneDevice == Spec => []OneDevicePerToken
<1>1. RegInv => OneDevicePerToken
    BY DEF RegInv
<1> QED
    BY <1>1, RegistrationInvariant, PTL

(* Who is registered by a user's token has been bound in the very statement *)
(* that registered him, or has a token without a user; and whatever takes a *)
(* binding away marks whoever is registered by it, in or out of the hub.    *)
LEMMA BoundStep == TypeOK /\ OnlineMeansBound /\ [Next]_vars => OnlineMeansBound'
<1> SUFFICES ASSUME TypeOK, OnlineMeansBound, [Next]_vars PROVE OnlineMeansBound'
    OBVIOUS
<1>1. ASSUME UNCHANGED reg, bound \subseteq bound' PROVE OnlineMeansBound'
    BY <1>1 DEF OnlineMeansBound, Registered
<1>2. ASSUME NEW B, Withdraw(B) PROVE OnlineMeansBound'
    <2>1. bound' = bound \ B
        BY <1>2 DEF Withdraw
    <2>2. \A d \in Devices :
             /\ Registered(d)' => Registered(d)
             /\ reg'[d].user = reg[d].user
             /\ \/ reg'[d].revoked
                \/ /\ reg'[d].revoked = reg[d].revoked
                   /\ Registered(d) => <<reg[d].user, d>> \notin B
        BY <1>2, WithdrawMarks DEF Registered
    <2> QED
        BY <2>1, <2>2 DEF OnlineMeansBound
<1>3. ASSUME NEW d \in Devices, bound \subseteq bound',
             \A e \in Devices : e # d => reg'[e] = reg[e],
             Registered(d)' /\ reg'[d].user # None
                 => \/ <<reg'[d].user, d>> \in bound'
                    \/ Registered(d) /\ reg'[d].user = reg[d].user
                                     /\ reg'[d].revoked = reg[d].revoked
      PROVE  OnlineMeansBound'
    BY <1>3 DEF OnlineMeansBound, Registered
<1>4. ASSUME NEW d \in Devices, Register(d) PROVE OnlineMeansBound'
    <2>1. \A e \in Devices : e # d => reg'[e] = reg[e]
        BY <1>4, OthersUntouched
    <2>2. CASE RegBind(d)
        <3>1. bound \subseteq bound'
            BY <2>2 DEF RegBind
        <3>2. Registered(d)' => <<reg'[d].user, d>> \in bound'
            BY <2>2 DEF RegBind, Move, TypeOK, Registered
        <3> QED
            BY <1>3, <2>1, <3>1, <3>2
    <2>3. CASE Upsert(d)
        <3>1. Registered(d)' => reg'[d].user = None
            BY <2>3 DEF Upsert, Move, TypeOK, Registered
        <3> QED
            BY <1>3, <2>1, <2>3, <3>1 DEF Upsert
    <2>4. CASE AddDevice(d)
        <3>1. Registered(d) /\ reg'[d].user = reg[d].user /\ reg'[d].revoked = reg[d].revoked
            BY <2>4 DEF AddDevice, Move, TypeOK, Registered
        <3> QED
            BY <1>3, <2>1, <2>4, <3>1 DEF AddDevice, tables
    <2>5. ASSUME NEW r, r.at \notin {"registered", "online"},
                 reg' = [reg EXCEPT ![d] = r], UNCHANGED tables
          PROVE  OnlineMeansBound'
        <3>1. ~ Registered(d)'
            BY <2>5 DEF Registered, TypeOK
        <3> QED
            BY <1>3, <2>1, <2>5, <3>1 DEF tables
    <2>6. CASE DeviceToken(d) \/ Drop(d)
        BY <2>5, <2>6 DEF DeviceToken, Drop, NoReg
    <2>7. ASSUME NEW t \in Tokens, Consume(d, t) \/ RefuseToken(d, t)
          PROVE  OnlineMeansBound'
        BY <2>5, <2>7 DEF Consume, RefuseToken, NoReg
    <2>8. CASE RegFindUser(d) \/ RegFindDevice(d)
        <3>1. ~ Registered(d)' /\ UNCHANGED bound
            BY <2>8 DEF RegFindUser, RegFindDevice, Move, TypeOK, Registered, tables
        <3> QED
            BY <1>3, <2>1, <3>1
    <2>9. CASE Heartbeat(d)
        BY <1>1, <2>9 DEF Heartbeat
    <2> QED
        BY <1>4, <2>2, <2>3, <2>4, <2>6, <2>7, <2>8, <2>9 DEF Register
<1>5. ASSUME NEW q \in Requests, Serve(q) PROVE OnlineMeansBound'
    <2>1. CASE Disconnect(q)
        <3>1. \A d \in Devices :
                 Registered(d)' => Registered(d) /\ reg'[d] = reg[d]
            BY <2>1 DEF Disconnect, Move, TypeOK, Registered
        <3> QED
            BY <2>1, <3>1 DEF Disconnect, OnlineMeansBound, tables
    <2>2. CASE DeleteDeviceRow(q)
        BY <1>2, <2>2 DEF DeleteDeviceRow
    <2>3. CASE ReqBind(q)
        <3>1. UNCHANGED reg /\ bound \subseteq bound'
            BY <2>3 DEF ReqBind
        <3> QED
            BY <1>1, <3>1
    <2>4. CASE UNCHANGED <<tables, reg>>
        BY <1>1, <2>4 DEF tables
    <2> QED
        BY <1>5, <2>1, <2>2, <2>3, <2>4
        DEF Serve, Begin, ReqFindUser, ReqFindDevice, ReqFindDoomed, Issue, Fail
<1>6. CASE UNCHANGED <<tables, reg>>
    BY <1>1, <1>6 DEF tables
<1>7. ASSUME NEW u \in Users,
             DeleteUserRow(u) \/ \E d \in Devices : Unbind(u, d)
      PROVE  OnlineMeansBound'
    BY <1>2, <1>7 DEF DeleteUserRow, Unbind
<1> QED
    BY <1>4, <1>5, <1>6, <1>7 DEF Next, Expire, DeleteToken, vars

(* A device that is online by the token of a user is bound to that user, or *)
(* has been deprived of its binding since it was registered.                *)
THEOREM OnlineDevicesBound == Spec => []OnlineMeansBound
<1>1. Init => OnlineMeansBound
    BY DEF Init, NoReg, OnlineMeansBound, Registered
<1> QED
    BY <1>1, BoundStep, RegistrationTypeCorrect, PTL DEF Spec
=============================================================================
