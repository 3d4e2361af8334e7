--------------------------- MODULE AdminRoles_proofs ---------------------------
(***************************************************************************)
(* Proofs about AdminRoles, for any number of accounts and of requests.    *)
(*                                                                         *)
(* AdminLostOnlyByOverlap is not inductive: a removal whose check is done  *)
(* takes its administrator away without a further look.  While removals do *)
(* not overlap, ReadyLeavesOne says, there is another administrator by     *)
(* then: at the count there were two, or the account was none when it was  *)
(* loaded (it may have been promoted since).  It takes LoneRemoval, that   *)
(* one removal is under way at most, to carry this to the write.           *)
(***************************************************************************)
EXTENDS AdminRoles, TLAPS

LoneRemoval ==
    \A p, q \in Requests : Removing(p) /\ Removing(q) => p = q

ReadyLeavesOne ==
    \A q \in Requests :
        Removing(q) /\ req[q].at = "ready"
            => \E a \in Admins : a # req[q].user

\* The inductive invariant.
RolesInv ==
    /\ TypeOK
    /\ ~overlapped => AdminRemains /\ LoneRemoval /\ ReadyLeavesOne
-----------------------------------------------------------------------------
(* What a statement may make of a role. *)
LEMMA RoleAfterFacts ==
    ASSUME NEW op \in Ops, NEW old \in Roles
    PROVE  /\ RoleAfter(op, old) \in Roles
           /\ op \notin Removals /\ old = "admin" => RoleAfter(op, old) = "admin"
           /\ old = "gone" => RoleAfter(op, old) = "gone"
BY DEF RoleAfter, Ops, Removals, Roles

LEMMA InitRoles == Init => RolesInv
<1> SUFFICES ASSUME Init PROVE RolesInv
    OBVIOUS
<1>1. TypeOK
    BY DEF Init, TypeOK, Roles
<1>2. AdminRemains
    BY DEF Init, AdminRemains, Admins
<1>3. \A q \in Requests : ~Removing(q)
    BY DEF Init, Idle, Removing
<1> QED
    BY <1>1, <1>2, <1>3 DEF RolesInv, LoneRemoval, ReadyLeavesOne

(* A request that starts, goes on or ends leaves the other ones alone. *)
LEMMA TypeStep ==
    ASSUME TypeOK, [Next]_vars
    PROVE  TypeOK'
<1> USE DEF TypeOK, Roles
<1>1. CASE Restart
    BY <1>1 DEF Restart, Idle
<1>2. CASE UNCHANGED vars
    BY <1>2 DEF vars
<1>3. ASSUME NEW q \in Requests, Serve(q) PROVE TypeOK'
    <2>1. ASSUME NEW op \in Ops, NEW actor \in Users, NEW u \in Users,
                 Begin(q, op, actor, u)
          PROVE  TypeOK'
        BY <2>1 DEF Begin, Idle
    <2>2. CASE NotFound(q)
        BY <2>2 DEF NotFound, Idle
    <2>3. CASE Load(q)
        BY <2>3 DEF Load, Idle
    <2>4. CASE Count(q)
        BY <2>4 DEF Count, Idle
    <2>5. CASE Write(q)
        <3>1. req[q] # Idle
            BY <2>5 DEF Write, Idle
        <3>2. /\ req[q].op \in Ops
              /\ req[q].user \in Users
              /\ role[req[q].user] \in Roles
            BY <3>1
        <3>3. RoleAfter(req[q].op, role[req[q].user]) \in Roles
            BY <3>2, RoleAfterFacts
        <3>4. role' \in [Users -> Roles]
            BY <2>5, <3>2, <3>3 DEF Write
        <3> QED
            BY <2>5, <3>4 DEF Write, Idle
    <2>6. CASE Fail(q)
        BY <2>6 DEF Fail, Idle
    <2> QED
        BY <1>3, <2>1, <2>2, <2>3, <2>4, <2>5, <2>6 DEF Serve
<1> QED
    BY <1>1, <1>2, <1>3 DEF Next

(* The other part of the invariant, request by request. *)
LEMMA ServeKeepsRoles ==
    ASSUME RolesInv, NEW q \in Requests, Serve(q), ~overlapped'
    PROVE  (AdminRemains /\ LoneRemoval /\ ReadyLeavesOne)'
<1>o. ~overlapped
    <2>1. ASSUME NEW op \in Ops, NEW actor \in Users, NEW u \in Users,
                 Begin(q, op, actor, u)
          PROVE  ~overlapped
        BY <2>1 DEF Begin
    <2>2. CASE NotFound(q) \/ Load(q) \/ Count(q) \/ Write(q) \/ Fail(q)
        BY <2>2 DEF NotFound, Load, Count, Write, Fail
    <2> QED
        BY <2>1, <2>2 DEF Serve
<1>0. TypeOK /\ ~overlapped /\ AdminRemains /\ LoneRemoval /\ ReadyLeavesOne
    BY <1>o DEF RolesInv
<1> USE DEF Removing
<1>1. ASSUME NEW op \in Ops, NEW actor \in Users, NEW u \in Users,
             Begin(q, op, actor, u)
      PROVE  (AdminRemains /\ LoneRemoval /\ ReadyLeavesOne)'
    <2>1. AdminRemains'
        BY <1>0, <1>1 DEF Begin, AdminRemains, Admins
    <2>2. req' = [req EXCEPT ![q] = req'[q]]
        BY <1>0, <1>1 DEF Begin, TypeOK
    <2>3. op \in Removals => \A p \in Requests : ~Removing(p)
        BY <1>1 DEF Begin
    <2>4. /\ req'[q].op = op
          /\ op \in Removals => req'[q].at = "begun"
        BY <1>0, <1>1 DEF Begin, TypeOK, Removals
    <2>5. LoneRemoval'
        BY <1>0, <2>2, <2>3, <2>4 DEF LoneRemoval, TypeOK
    <2>6. ReadyLeavesOne'
        <3>1. \A p \in Requests : p # q => req'[p] = req[p]
            BY <1>0, <2>2 DEF TypeOK
        <3>2. ~ (Removing(q)' /\ req'[q].at = "ready")
            BY <2>4
        <3>3. UNCHANGED role
            BY <1>1 DEF Begin
        <3> QED
            BY <1>0, <3>1, <3>2, <3>3 DEF ReadyLeavesOne, Admins
    <2> QED
        BY <2>1, <2>5, <2>6
<1>2. ASSUME req' = [req EXCEPT ![q] = Idle], UNCHANGED role
      PROVE  (AdminRemains /\ LoneRemoval /\ ReadyLeavesOne)'
    <2>1. \A p \in Requests : p # q => req'[p] = req[p]
        BY <1>0, <1>2 DEF TypeOK
    <2>2. req'[q].at = "idle"
        BY <1>0, <1>2 DEF TypeOK, Idle
    <2> QED
        BY <1>0, <1>2, <2>1, <2>2
        DEF AdminRemains, LoneRemoval, ReadyLeavesOne, Admins
<1>3. ASSUME NEW next \in {"admin", "ready"},
             req' = [req EXCEPT ![q].at = next], UNCHANGED role,
             req[q].at # "idle",
             Removing(q) /\ next = "ready" => \E a \in Admins : a # req[q].user
      PROVE  (AdminRemains /\ LoneRemoval /\ ReadyLeavesOne)'
    <2>1. \A p \in Requests : p # q => req'[p] = req[p]
        BY <1>0, <1>3 DEF TypeOK
    <2>2. req[q] \in [op : Ops, user : Users, at : {"begun", "admin", "ready"}]
        BY <1>0, <1>3 DEF TypeOK, Idle
    <2>3. /\ req'[q].op = req[q].op
          /\ req'[q].user = req[q].user
          /\ req'[q].at = next
        BY <1>0, <1>3, <2>2 DEF TypeOK
    <2>4. \A p \in Requests : Removing(p)' <=> Removing(p)
        BY <1>3, <2>1, <2>3
    <2>5. LoneRemoval'
        BY <1>0, <2>4 DEF LoneRemoval
    <2>6. ReadyLeavesOne'
        BY <1>0, <1>3, <2>1, <2>3 DEF ReadyLeavesOne, Admins
    <2> QED
        BY <1>0, <1>3, <2>5, <2>6 DEF AdminRemains, Admins
<1>4. CASE NotFound(q)
    BY <1>2, <1>4 DEF NotFound
<1>5. CASE Load(q)
    <2> DEFINE next == IF req[q].op \in Removals /\ req[q].user \in Admins
                       THEN "admin" ELSE "ready"
    <2>1. req[q].op \in Removals /\ next = "ready"
              => \E a \in Admins : a # req[q].user
        BY <1>0 DEF AdminRemains
    <2>2. next \in {"admin", "ready"}
        OBVIOUS
    <2>3. /\ req' = [req EXCEPT ![q].at = next]
          /\ UNCHANGED role
          /\ req[q].at # "idle"
        BY <1>5 DEF Load
    <2> HIDE DEF next
    <2> QED
        BY <1>3, <2>1, <2>2, <2>3
<1>6. CASE Count(q)
    <2>1. CASE SeveralAdmins
        <3>1. req' = [req EXCEPT ![q].at = "ready"]
            BY <1>0, <1>6, <2>1 DEF Count, TypeOK
        <3>2. \E a \in Admins : a # req[q].user
            BY <2>1 DEF SeveralAdmins
        <3> QED
            BY <1>3, <1>6, <3>1, <3>2 DEF Count
    <2>2. CASE ~SeveralAdmins
        BY <1>2, <1>6, <2>2 DEF Count
    <2> QED
        BY <2>1, <2>2
<1>7. CASE Write(q)
    <2> DEFINE u == req[q].user
    <2>1. req[q] \in [op : Ops, user : Users, at : {"begun", "admin", "ready"}]
        BY <1>0, <1>7 DEF TypeOK, Write, Idle
    <2>2. /\ \A x \in Users : x # u => role'[x] = role[x]
          /\ role'[u] = RoleAfter(req[q].op, role[u])
          /\ \A p \in Requests : p # q => req'[p] = req[p]
          /\ req'[q].at = "idle"
        BY <1>0, <1>7, <2>1 DEF TypeOK, Write, Idle
    <2>3. LoneRemoval'
        BY <1>0, <2>2 DEF LoneRemoval
    <2>4. CASE Removing(q)
        <3>1. PICK a \in Admins : a # u
            BY <1>0, <1>7, <2>4 DEF ReadyLeavesOne, Write
        <3>2. a \in Admins'
            BY <2>2, <3>1 DEF Admins
        <3>3. \A p \in Requests : ~Removing(p)'
            BY <1>0, <2>2, <2>4 DEF LoneRemoval
        <3> QED
            BY <2>3, <3>2, <3>3 DEF AdminRemains, ReadyLeavesOne
    <2>5. CASE ~Removing(q)
        <3>1. req[q].op \notin Removals
            BY <1>7, <2>5 DEF Write
        <3>2. Admins \subseteq Admins'
            BY <1>0, <2>1, <2>2, <3>1, RoleAfterFacts DEF Admins, TypeOK
        <3> QED
            BY <1>0, <2>2, <2>3, <3>2 DEF AdminRemains, ReadyLeavesOne
    <2> QED
        BY <2>4, <2>5
<1>8. CASE Fail(q)
    BY <1>2, <1>8 DEF Fail
<1> QED
    BY <1>1, <1>4, <1>5, <1>6, <1>7, <1>8 DEF Serve

LEMMA StepRoles == RolesInv /\ [Next]_vars => RolesInv'
<1> SUFFICES ASSUME RolesInv, [Next]_vars PROVE RolesInv'
    OBVIOUS
<1>1. TypeOK'
    BY TypeStep DEF RolesInv
<1>2. ASSUME ~overlapped'
      PROVE  (AdminRemains /\ LoneRemoval /\ ReadyLeavesOne)'
    <2>1. CASE Restart
        <3>1. \A q \in Requests : ~Removing(q)'
            BY <2>1 DEF Restart, Removing, Idle
        <3>2. AdminRemains'
            BY <1>2, <2>1
            DEF Restart, RolesInv, TypeOK, AdminRemains, Admins
        <3> QED
            BY <3>1, <3>2 DEF LoneRemoval, ReadyLeavesOne
    <2>2. CASE UNCHANGED vars
        BY <1>2, <2>2
        DEF vars, RolesInv, AdminRemains, LoneRemoval, ReadyLeavesOne, Admins,
            Removing
    <2> QED
        BY <1>2, <2>1, <2>2, ServeKeepsRoles DEF Next
<1> QED
    BY <1>1, <1>2 DEF RolesInv

(* The invariant holds in every state. *)
THEOREM RolesInvariant == Spec => []RolesInv
BY InitRoles, StepRoles, PTL DEF Spec
-----------------------------------------------------------------------------
(* Type correctness, for any number of accounts and requests. *)
THEOREM RolesTypeCorrect == Spec => []TypeOK
<1>1. RolesInv => TypeOK
    BY DEF RolesInv
<1> QED
    BY <1>1, RolesInvariant, PTL

(* The checks of handleUpdateUser and handleDeleteUser are enough as long as  *)
(* no two removals overlap: an administrator remains.                         *)
THEOREM LastAdminSafeWithoutOverlap == Spec => []AdminLostOnlyByOverlap
<1>1. RolesInv => AdminLostOnlyByOverlap
    BY DEF RolesInv, AdminLostOnlyByOverlap
<1> QED
    BY <1>1, RolesInvariant, PTL

(* No handler, however old its copy of an account is, revives a deleted one.  *)
THEOREM DeletedAccountsStayDeleted == Spec => DeletedStaysDeleted
<1>1. TypeOK /\ [Next]_vars
          => [\A u \in Users : role[u] = "gone" => role'[u] = "gone"]_vars
    <2> SUFFICES ASSUME TypeOK, Next, NEW u \in Users, role[u] = "gone"
                 PROVE  role'[u] = "gone"
        BY DEF vars
    <2>1. CASE Restart
        BY <2>1 DEF Restart, TypeOK
    <2>2. ASSUME NEW q \in Requests, Serve(q) PROVE role'[u] = "gone"
        <3>1. CASE Write(q)
            <4>1. req[q].op \in Ops /\ req[q].user \in Users
                BY <3>1 DEF TypeOK, Write, Idle
            <4> QED
                BY <3>1, <4>1, RoleAfterFacts DEF Write, TypeOK, Roles
        <3>2. CASE UNCHANGED role
            BY <3>2
        <3> QED
            BY <2>2, <3>1, <3>2
            DEF Serve, Begin, NotFound, Load, Count, Fail
    <2> QED
        BY <2>1, <2>2 DEF Next
<1> QED
    BY <1>1, RolesTypeCorrect, PTL DEF Spec, DeletedStaysDeleted
=============================================================================
