------------------------------ MODULE AdminRoles ------------------------------
(***************************************************************************)
(* Accounts and their roles under concurrent administrators.               *)
(*                                                                         *)
(* Every request of an administrator is served by a goroutine of its own,  *)
(* which reads the users table two or three times before it writes to it:  *)
(* AuthMiddleware and AdminOnly, GetUserByID, CountAdmins, and at last one *)
(* UPDATE, DELETE or INSERT.  The database serialises the statements, not  *)
(* the handlers.                                                           *)
(*                                                                         *)
(* Abstractions.  An account is its identifier, which is drawn at random   *)
(* and never used again; names, passwords and the requests that only read  *)
(* are left out.  A name that is already taken is one way to fail.         *)
(***************************************************************************)
CONSTANTS
    Users,      \* account identifiers (bounds the accounts ever created)
    Requests,   \* requests being served at the same time
    None

VARIABLES
    role,       \* role[u]: users.role, "unborn" before the row is inserted
                \* and "gone" after it was deleted
    req,        \* req[q]: what request q is about and where its handler stands
    overlapped  \* two removals of an administrator were under way at the same
                \* time (history)

vars == <<role, req, overlapped>>

\* Requests that may take an administrator away.
Removals == {"demote", "delete"}

Ops == Removals \cup {"promote", "create user", "create admin"}

Present == {u \in Users : role[u] \in {"admin", "user"}}
Admins  == {u \in Users : role[u] = "admin"}

\* CountAdmins() > 1.
SeveralAdmins == \E a, b \in Admins : a # b

Idle == [op |-> "none", user |-> None, at |-> "idle"]

Removing(q) == req[q].at # "idle" /\ req[q].op \in Removals
-----------------------------------------------------------------------------
\* EnsureDefaultAdmin has just filled an empty database.
Init ==
    /\ \E u \in Users :
           role = [x \in Users |-> IF x = u THEN "admin" ELSE "unborn"]
    /\ req = [q \in Requests |-> Idle]
    /\ overlapped = FALSE

\* AuthMiddleware and AdminOnly let the actor in.  Nobody deletes himself.
Begin(q, op, actor, u) ==
    /\ req[q].at = "idle"
    /\ role[actor] = "admin"
    /\ op = "delete" => u # actor
    /\ req' = [req EXCEPT ![q] =
                  [op |-> op, user |-> u,
                   at |-> IF op \in {"create user", "create admin"}
                          THEN "ready" ELSE "begun"]]
    /\ overlapped' = (\/ overlapped
                      \/ op \in Removals /\ \E p \in Requests : Removing(p))
    /\ UNCHANGED role

\* GetUserByID: there is no such account, ...
NotFound(q) ==
    /\ req[q].at = "begun"
    /\ req[q].user \notin Present
    /\ req' = [req EXCEPT ![q] = Idle]
    /\ UNCHANGED <<role, overlapped>>

\* ... or there is, and the administrators are counted next if the account is
\* one of them and would no longer be.
Load(q) ==
    /\ req[q].at = "begun"
    /\ req[q].user \in Present
    /\ req' = [req EXCEPT ![q].at =
                  IF req[q].op \in Removals /\ req[q].user \in Admins
                  THEN "admin" ELSE "ready"]
    /\ UNCHANGED <<role, overlapped>>

\* Mutant of Count: the last administrator may go.
CountAtLeastOne(q) ==
    /\ req[q].at = "admin"
    /\ req' = [req EXCEPT ![q] =
                  IF Admins # {} THEN [@ EXCEPT !.at = "ready"] ELSE Idle]
    /\ UNCHANGED <<role, overlapped>>

\* CountAdmins: the last administrator stays.
Count(q) ==
    /\ req[q].at = "admin"
    /\ req' = [req EXCEPT ![q] =
                  IF SeveralAdmins THEN [@ EXCEPT !.at = "ready"] ELSE Idle]
    /\ UNCHANGED <<role, overlapped>>

\* Mutant of RoleAfter: a role is set with INSERT OR REPLACE.
RoleUpserted(op, old) ==
    CASE op \in {"create user", "demote"}   -> "user"
      [] op \in {"create admin", "promote"} -> "admin"
      [] op = "delete"  /\ old \in {"admin", "user"} -> "gone"
      [] OTHER -> old

\* What the statement makes of the row; an UPDATE or DELETE by id does nothing
\* where there is none any more (ErrNotFound).
RoleAfter(op, old) ==
    CASE op = "create user"  /\ old = "unborn" -> "user"
      [] op = "create admin" /\ old = "unborn" -> "admin"
      [] op = "demote"  /\ old \in {"admin", "user"} -> "user"
      [] op = "promote" /\ old \in {"admin", "user"} -> "admin"
      [] op = "delete"  /\ old \in {"admin", "user"} -> "gone"
      [] OTHER -> old

\* CreateUser, UpdateUser or DeleteUser, and the reply.
Write(q) ==
    /\ req[q].at = "ready"
    /\ role' = [role EXCEPT ![req[q].user] = RoleAfter(req[q].op, @)]
    /\ req' = [req EXCEPT ![q] = Idle]
    /\ UNCHANGED overlapped

\* A statement fails, or the name of a new account is taken: no change.
Fail(q) ==
    /\ req[q].at # "idle"
    /\ req' = [req EXCEPT ![q] = Idle]
    /\ UNCHANGED <<role, overlapped>>

\* The server is started again: EnsureDefaultAdmin only looks for accounts, not
\* for administrators.
Restart ==
    /\ \/ Present # {} /\ UNCHANGED role
       \/ /\ Present = {}
          /\ \E u \in Users :
                 role[u] = "unborn" /\ role' = [role EXCEPT ![u] = "admin"]
    /\ req' = [q \in Requests |-> Idle]
    /\ UNCHANGED overlapped

Serve(q) ==
    \/ \E op \in Ops, actor, u \in Users : Begin(q, op, actor, u)
    \/ NotFound(q) \/ Load(q) \/ Count(q) \/ Write(q) \/ Fail(q)

Next == Restart \/ \E q \in Requests : Serve(q)

Spec == Init /\ [][Next]_vars
-----------------------------------------------------------------------------
Roles == {"unborn", "admin", "user", "gone"}

\* Type invariant: a request that is not idle is about an account, and only a
\* removal ever gets to counting.
TypeOK ==
    /\ role \in [Users -> Roles]
    /\ \A q \in Requests :
           \/ req[q] = Idle
           \/ /\ req[q] \in [op : Ops, user : Users,
                             at : {"begun", "admin", "ready"}]
              /\ req[q].at = "admin" => req[q].op \in Removals
    /\ req = [q \in Requests |-> req[q]]
    /\ overlapped \in BOOLEAN

\* handleUpdateUser and handleDeleteUser refuse to take the last administrator
\* away ("cannot demote the last admin", "cannot delete the last admin"): one
\* remains at all times.
AdminRemains == Admins # {}

\* What their check does give: as long as no two removals are served at the
\* same time an administrator remains, whatever else (promotions, new accounts,
\* failures, restarts) comes in between the check and the write.
AdminLostOnlyByOverlap == overlapped \/ AdminRemains

\* A deleted account stays deleted: no handler that loaded it before brings it
\* back by the role it writes.
DeletedStaysDeleted ==
    [][\A u \in Users : role[u] = "gone" => role'[u] = "gone"]_vars
=============================================================================
