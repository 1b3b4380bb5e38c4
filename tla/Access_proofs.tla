--------------------------- MODULE Access_proofs ---------------------------
(***************************************************************************)
(* Who may do what, for any number of accounts and of requests in flight,  *)
(* who gets through the door, for any clients and budgets, and what holds  *)
(* of an account's password, second factor and sessions.                   *)
(***************************************************************************)
EXTENDS Access, Gate, SignIn, FiniteSetTheorems, WellFoundedInduction, NaturalsInduction, TLAPS

-----------------------------------------------------------------------------
(* Roles and teams.                                                        *)

Role == [name : CustomNames \cup DOMAIN DefaultRoles, permissions : (SUBSET AllPermissions) \ {{}}]
AccountRow == [state : {"unborn", "there", "gone"}, role : RoleIds, mustChange : BOOLEAN]

\* Nobody is their own manager.
NobodysOwn == \A a \in Accounts : a \notin managedBy[a]

\* What a request was admitted for, and what it has found out when it comes to its second
\* statement: a shipped role is only asked for as it is, or not to be deleted, an account is
\* written back as one that was there, and nobody is made their own manager.
JobRight(j) ==
  /\ j \in [op : {j.op}, by : {j.by}, stage : {j.stage}, on : {j.on}, to : {j.to}, rights : {j.rights}, row : {j.row}]
  /\ j.by \in Accounts /\ j.stage \in {"admitted", "read"} /\ j.op # "none"
  /\ j.op = "createRole" => j.to \in CustomNames
  /\ j.op = "updateRole" =>
       /\ j.on \in RoleIds /\ j.to \in CustomNames \cup {"manager"}
       /\ j.stage = "read" => /\ validateRole(j.rights)
                              /\ j.on \in DOMAIN DefaultRoles => j.to = j.on /\ j.rights = DefaultRoles[j.on]
  /\ j.op = "deleteRole" => j.on \in RoleIds /\ (j.stage = "read" => j.on \notin DOMAIN DefaultRoles)
  /\ j.op \in {"createUser", "deleteUser", "assignRole", "setManagers"} => j.on \in Accounts
  /\ j.op = "assignRole" /\ j.stage = "read" => j.row \in AccountRow /\ j.row.state = "there"
  /\ j.op = "setManagers" => j.to \in SUBSET Accounts /\ (j.stage = "read" => j.on \notin j.to)
  /\ j.op = "switch" => j.on \in BOOLEAN
JobsInv ==
  /\ jobs = [r \in Requests |-> jobs[r]]
  /\ \A r \in Requests : jobs[r] = NoJob \/ JobRight(jobs[r])

RowsTyped ==
  /\ roles \in [RoleIds -> Role \cup {NotThere}] /\ accounts \in [Accounts -> AccountRow]
  /\ managedBy \in [Accounts -> SUBSET Accounts] /\ managersOn \in BOOLEAN
AccessInv ==
  RowsTyped /\ asked \in 0..MaxRequests /\ ShippedRolesStand /\ There(System) /\ NobodysOwn /\ JobsInv

LEMMA ShippedNames ==
  /\ DOMAIN DefaultRoles = {"admin", "user", "useradmin", "manager"}
  /\ \A id \in DOMAIN DefaultRoles : DefaultRoles[id] \in (SUBSET AllPermissions) \ {{}}
  /\ DOMAIN DefaultRoles \subseteq RoleIds /\ CustomRole \in RoleIds
<1>1. DOMAIN DefaultRoles = {"admin", "user", "useradmin", "manager"}
  BY DEF DefaultRoles
<1>2. DefaultRoles["admin"] \in (SUBSET AllPermissions) \ {{}} /\ DefaultRoles["user"] \in (SUBSET AllPermissions) \ {{}}
      /\ DefaultRoles["useradmin"] \in (SUBSET AllPermissions) \ {{}}
      /\ DefaultRoles["manager"] \in (SUBSET AllPermissions) \ {{}}
  BY DEF DefaultRoles, AllPermissions, UserAdminPermissions, ManagerPermissions, UserPermissions,
         SystemAdminPermissions, TeamPermissions
<1> QED
  BY <1>1, <1>2 DEF RoleIds

\* A row of a role is not what stands for none.
LEMMA RoleIsThere == \A role \in Role : role # NotThere
BY AccessAssumption DEF Role

LEMMA NoJobIsNone == NoJob.op = "none"
BY DEF NoJob

LEMMA AccessInitInv == AccessInit => AccessInv
<1> SUFFICES ASSUME AccessInit PROVE AccessInv
  OBVIOUS
<1>1. PICK custom \in {NotThere} \union [name : CustomNames, permissions : CustomRights \ {{}}] :
        roles = [id \in RoleIds |-> IF id = CustomRole THEN custom
                                    ELSE [name |-> id, permissions |-> DefaultRoles[id]]]
  BY DEF AccessInit
<1>2. \A id \in DOMAIN DefaultRoles : roles[id] = [name |-> id, permissions |-> DefaultRoles[id]]
  BY <1>1, ShippedNames, AccessAssumption
<1>3. roles[CustomRole] = custom /\ (custom = NotThere \/ custom \in Role)
  <2>1. custom # NotThere => custom \in Role
    BY AccessAssumption DEF Role
  <2> QED
    BY <1>1, <2>1, ShippedNames
<1>4. \A id \in RoleIds : id \in DOMAIN DefaultRoles \/ id = CustomRole
  BY DEF RoleIds
<1>5. roles \in [RoleIds -> Role \cup {NotThere}]
  <2>1. ASSUME NEW id \in DOMAIN DefaultRoles PROVE roles[id] \in Role
    BY <1>2, ShippedNames DEF Role
  <2> QED
    BY <1>1, <1>3, <1>4, <2>1
<1>6. ShippedRolesStand
  <2>1. ASSUME NEW id \in DOMAIN DefaultRoles PROVE Named(id) = {id} /\ roles[id].permissions = DefaultRoles[id]
    <3>1. roles[id] \in Role /\ roles[id].name = id /\ roles[id].permissions = DefaultRoles[id]
      BY <1>2, ShippedNames DEF Role
    <3>2. custom # NotThere => custom.name # id
      BY AccessAssumption
    <3>3. ASSUME NEW x \in DOMAIN DefaultRoles PROVE roles[x].name = x
      <4>1. roles[x] = [name |-> x, permissions |-> DefaultRoles[x]]
        BY <1>2
      <4> QED
        BY <4>1
    <3> QED
      BY <1>3, <1>4, <3>1, <3>2, <3>3, RoleIsThere, ShippedNames DEF Named
  <2> QED
    BY <2>1 DEF ShippedRolesStand
<1>7. accounts \in [Accounts -> AccountRow] /\ There(System)
  <2>1. PICK first \in SUBSET (Accounts \ {System}) :
          accounts = [a \in Accounts |-> [state |-> IF a \in first \union {System} THEN "there" ELSE "unborn",
                                      role |-> IF a = System THEN "admin" ELSE "manager", mustChange |-> FALSE]]
    BY DEF AccessInit
  <2>2. "admin" \in RoleIds /\ "manager" \in RoleIds
    BY ShippedNames
  <2> QED
    BY <2>1, <2>2, AccessAssumption DEF AccountRow, There
<1>8. managedBy \in [Accounts -> SUBSET Accounts] /\ managersOn \in BOOLEAN /\ NobodysOwn /\ asked \in 0..MaxRequests
  BY AccessAssumption DEF AccessInit, NobodysOwn
<1>9. JobsInv
  BY DEF AccessInit, JobsInv
<1> QED
  BY <1>5, <1>6, <1>7, <1>8, <1>9 DEF AccessInv, RowsTyped

-----------------------------------------------------------------------------
(* What becomes of a request.                                              *)

\* One request comes to something else that is right, the others stay.
LEMMA JobStep ==
  ASSUME JobsInv, NEW r \in Requests, NEW j, JobRight(j) \/ j = NoJob, jobs' = [jobs EXCEPT ![r] = j]
  PROVE  JobsInv'
<1>1. jobs' = [x \in Requests |-> IF x = r THEN j ELSE jobs[x]]
  BY DEF JobsInv
<1>2. \A x \in Requests : jobs'[x] = NoJob \/ JobRight(jobs'[x])
  BY <1>1 DEF JobsInv
<1>3. jobs' = [x \in Requests |-> jobs'[x]]
  BY <1>1
<1> QED
  BY <1>2, <1>3 DEF JobsInv

LEMMA FinishStep == ASSUME JobsInv, NEW r \in Requests, Finish(r) PROVE JobsInv'
BY JobStep DEF Finish

\* The second statement of a request is still to come.
LEMMA SecondStep ==
  ASSUME JobsInv, NEW r \in Requests, jobs[r].op \notin {"none", "assignRole"},
         jobs' = [jobs EXCEPT ![r].stage = "read"],
         jobs[r].op = "updateRole" =>
           /\ validateRole(jobs[r].rights)
           /\ jobs[r].on \in DOMAIN DefaultRoles =>
                jobs[r].to = jobs[r].on /\ jobs[r].rights = DefaultRoles[jobs[r].on],
         jobs[r].op = "deleteRole" => jobs[r].on \notin DOMAIN DefaultRoles,
         jobs[r].op = "setManagers" => jobs[r].on \notin jobs[r].to
  PROVE  JobsInv'
<1>1. JobRight(jobs[r])
  BY NoJobIsNone DEF JobsInv
<1> DEFINE j == [jobs[r] EXCEPT !.stage = "read"]
<1>2. /\ j \in [op : {j.op}, by : {j.by}, stage : {j.stage}, on : {j.on}, to : {j.to}, rights : {j.rights},
                row : {j.row}]
      /\ j.op = jobs[r].op /\ j.by = jobs[r].by /\ j.stage = "read" /\ j.on = jobs[r].on /\ j.to = jobs[r].to
      /\ j.rights = jobs[r].rights
  BY <1>1 DEF JobRight
<1>3. jobs' = [jobs EXCEPT ![r] = j]
  BY <1>1 DEF JobsInv
<1> HIDE DEF j
<1>4. JobRight(j)
  BY <1>1, <1>2 DEF JobRight
<1> QED
  BY <1>3, <1>4, JobStep

-----------------------------------------------------------------------------
(* The steps of a request.                                                 *)

LEMMA AdmitStep ==
  ASSUME AccessInv, NEW r \in Requests, NEW op, NEW by \in Accounts, NEW on, NEW to, NEW rights,
         Admit(r, op, by, on, to, rights),
         op \in {"createRole", "updateRole", "deleteRole", "createUser", "assignRole", "deleteUser", "setManagers",
                 "switch", "book", "read", "workingTimes"},
         op = "createRole" => to \in CustomNames,
         op = "updateRole" => on \in RoleIds /\ to \in CustomNames \cup {"manager"},
         op = "deleteRole" => on \in RoleIds,
         op \in {"createUser", "deleteUser", "assignRole", "setManagers"} => on \in Accounts,
         op = "setManagers" => to \in SUBSET Accounts,
         op = "switch" => on \in BOOLEAN
  PROVE  AccessInv'
<1> DEFINE j == [op |-> op, by |-> by, stage |-> "admitted", on |-> on, to |-> to, rights |-> rights, row |-> NotThere]
<1>1. JobRight(j)
  BY DEF JobRight
<1>2. jobs' = [jobs EXCEPT ![r] = j] /\ asked < MaxRequests /\ asked' = asked + 1
      /\ UNCHANGED <<roles, accounts, managedBy, managersOn>>
  BY DEF Admit
<1> HIDE DEF j
<1>3. JobsInv'
  BY <1>1, <1>2, JobStep DEF AccessInv
<1>4. asked' \in 0..MaxRequests
  BY <1>2, AccessAssumption DEF AccessInv
<1> QED
  BY <1>2, <1>3, <1>4 DEF AccessInv, RowsTyped, ShippedRolesStand, Named, There, NobodysOwn

LEMMA AdmittedInv ==
  ASSUME AccessInv, NEW r \in Requests, Admitted(r)
  PROVE  AccessInv'
<1>1. PICK by \in Accounts :
        \/ \E x \in Admissible(by) : Admit(r, x[1], by, x[2], x[3], x[4])
        \/ /\ Require(by, "users:write")
           /\ \E on \in Accounts, to \in SUBSET Accounts : Admit(r, "setManagers", by, on, to, {})
        \/ RequireInstallationAdmin(by) /\ \E on \in BOOLEAN : Admit(r, "switch", by, on, {}, {})
        \/ \E on \in Accounts :
             \/ permittedPrincipal(by) /\ requireOwner(by, on) /\ Admit(r, "book", by, on, {}, {})
             \/ permittedPrincipal(by) /\ scopeUserID(by, on) /\ Admit(r, "read", by, on, {}, {})
             \/ RequireSelf(by, on, "settings:write:own") /\ Admit(r, "workingTimes", by, on, {}, {})
  BY DEF Admitted
<1>2. ASSUME NEW x \in Admissible(by), Admit(r, x[1], by, x[2], x[3], x[4]) PROVE AccessInv'
  <2>1. \/ x \in {"createRole"} \X {CustomRole} \X CustomNames \X CustomRights
        \/ x \in {"updateRole"} \X RoleIds \X (CustomNames \union {"manager"}) \X CustomRights
        \/ x \in {"deleteRole"} \X RoleIds \X {"user"} \X {{}}
        \/ x \in {"createUser"} \X Accounts \X {"user", "manager"} \X {{}}
        \/ x \in {"assignRole"} \X Accounts \X (DOMAIN DefaultRoles \union CustomNames) \X {{}}
        \/ x \in {"deleteUser"} \X (Accounts \ {by}) \X {"user"} \X {{}}
    BY DEF Admissible
  <2>2. \/ x[1] = "createRole" /\ x[3] \in CustomNames
        \/ x[1] = "updateRole" /\ x[2] \in RoleIds /\ x[3] \in CustomNames \union {"manager"}
        \/ x[1] = "deleteRole" /\ x[2] \in RoleIds
        \/ x[1] \in {"createUser", "assignRole", "deleteUser"} /\ x[2] \in Accounts
    BY <2>1
  <2> QED
    BY <1>2, <2>2, AdmitStep
<1>3. ASSUME NEW on \in Accounts, NEW to \in SUBSET Accounts, Admit(r, "setManagers", by, on, to, {}) PROVE AccessInv'
  BY <1>3, AdmitStep
<1>4. ASSUME NEW on \in BOOLEAN, Admit(r, "switch", by, on, {}, {}) PROVE AccessInv'
  BY <1>4, AdmitStep
<1>5. ASSUME NEW on \in Accounts, NEW op \in {"book", "read", "workingTimes"}, Admit(r, op, by, on, {}, {})
      PROVE AccessInv'
  BY <1>5, AdmitStep
<1> QED
  BY <1>1, <1>2, <1>3, <1>4, <1>5

\* A role is stored that takes no shipped one's name, and over a shipped one only itself.
LEMMA RoleStored ==
  ASSUME AccessInv, NEW id \in RoleIds, NEW role \in Role, Named(role.name) \subseteq {id},
         id \in DOMAIN DefaultRoles => role.name = id /\ role.permissions = DefaultRoles[id],
         roles' = [roles EXCEPT ![id] = role],
         UNCHANGED <<accounts, managedBy, managersOn>>
  PROVE  ShippedRolesStand' /\ RowsTyped'
<1>1. \A x \in RoleIds : roles'[x] = IF x = id THEN role ELSE roles[x]
  BY DEF AccessInv, RowsTyped
<1>2. RowsTyped'
  BY DEF AccessInv, RowsTyped
<1>3. ASSUME NEW x \in DOMAIN DefaultRoles
      PROVE  (\A y \in RoleIds : (roles'[y] # NotThere /\ roles'[y].name = x) <=> y = x)
             /\ roles'[x].permissions = DefaultRoles[x]
  <2>1. Named(x) = {x} /\ roles[x].permissions = DefaultRoles[x] /\ x \in RoleIds
    BY ShippedNames DEF AccessInv, ShippedRolesStand
  <2>2. \A y \in RoleIds : (roles[y] # NotThere /\ roles[y].name = x) <=> y = x
    BY <2>1 DEF Named
  <2>3. role # NotThere
    BY RoleIsThere
  <2>4. role.name = x => id = x
    BY <2>1
  <2> QED
    BY <1>1, <2>1, <2>2, <2>3, <2>4
<1>4. ShippedRolesStand'
  <2>1. ASSUME NEW x \in DOMAIN DefaultRoles PROVE Named(x)' = {x} /\ roles'[x].permissions = DefaultRoles[x]
    BY <1>3, ShippedNames DEF Named
  <2> QED
    BY <2>1 DEF ShippedRolesStand
<1> QED
  BY <1>2, <1>4

\* What a request needs to be right when it leaves the rows of accounts alone.
LEMMA RolesStep ==
  ASSUME AccessInv, RowsTyped', ShippedRolesStand', JobsInv', UNCHANGED <<accounts, managedBy, asked>>
  PROVE  AccessInv'
BY DEF AccessInv, There, NobodysOwn

LEMMA CreateRoleInv ==
  ASSUME AccessInv, NEW r \in Requests, CreateRole(r)
  PROVE  AccessInv'
<1>1. JobsInv' /\ UNCHANGED <<accounts, managedBy, managersOn, asked>>
  BY FinishStep DEF CreateRole, AccessInv
<1>2. CASE roles' = roles
  BY <1>1, <1>2, RolesStep DEF AccessInv, RowsTyped, ShippedRolesStand, Named
<1>3. CASE roles' # roles
  <2> DEFINE role == [name |-> jobs[r].to, permissions |-> jobs[r].rights]
  <2>1. roles' = [roles EXCEPT ![CustomRole] = role] /\ validateRole(jobs[r].rights) /\ Named(jobs[r].to) = {}
    BY <1>3 DEF CreateRole
  <2>2. jobs[r].to \in CustomNames
    BY NoJobIsNone DEF CreateRole, Is, AccessInv, JobsInv, JobRight
  <2>3. role \in Role /\ role.name = jobs[r].to
    BY <2>1, <2>2 DEF Role, validateRole
  <2> HIDE DEF role
  <2>4. RowsTyped' /\ ShippedRolesStand'
    BY <1>1, <2>1, <2>3, RoleStored, ShippedNames, AccessAssumption
  <2> QED
    BY <1>1, <2>4, RolesStep
<1> QED
  BY <1>2, <1>3

LEMMA ReadForUpdateInv ==
  ASSUME AccessInv, NEW r \in Requests, ReadForUpdate(r)
  PROVE  AccessInv'
<1>1. UNCHANGED <<roles, accounts, managedBy, managersOn, asked>> /\ jobs[r].op = "updateRole"
  BY DEF ReadForUpdate, Is
<1>2. JobsInv'
  <2>1. CASE Finish(r)
    BY <2>1, FinishStep DEF AccessInv
  <2>2. CASE ~Finish(r)
    <3> DEFINE role == roles[jobs[r].on]
    <3>1. /\ jobs' = [jobs EXCEPT ![r].stage = "read"]
          /\ Changeable(role, jobs[r].to, jobs[r].rights) /\ validateRole(jobs[r].rights)
      BY <2>2 DEF ReadForUpdate
    <3>2. ASSUME jobs[r].on \in DOMAIN DefaultRoles
          PROVE  jobs[r].to = jobs[r].on /\ jobs[r].rights = DefaultRoles[jobs[r].on]
      <4>1. jobs[r].on \in Named(jobs[r].on) /\ role.permissions = DefaultRoles[jobs[r].on]
        BY <3>2 DEF AccessInv, ShippedRolesStand
      <4>2. role.name = jobs[r].on
        BY <4>1 DEF Named
      <4> QED
        BY <3>1, <3>2, <4>1, <4>2 DEF Changeable, IsDefault
    <3> QED
      BY <1>1, <3>1, <3>2, SecondStep DEF AccessInv
  <2> QED
    BY <2>1, <2>2
<1> QED
  BY <1>1, <1>2, RolesStep DEF AccessInv, RowsTyped, ShippedRolesStand, Named

LEMMA UpdateRoleInv ==
  ASSUME AccessInv, NEW r \in Requests, UpdateRole(r)
  PROVE  AccessInv'
<1>1. JobsInv' /\ UNCHANGED <<accounts, managedBy, managersOn, asked>>
  BY FinishStep DEF UpdateRole, AccessInv
<1>2. CASE roles' = roles
  BY <1>1, <1>2, RolesStep DEF AccessInv, RowsTyped, ShippedRolesStand, Named
<1>3. CASE roles' # roles
  <2> DEFINE role == [name |-> jobs[r].to, permissions |-> jobs[r].rights]
  <2>1. roles' = [roles EXCEPT ![jobs[r].on] = role] /\ Named(jobs[r].to) \subseteq {jobs[r].on}
    BY <1>3 DEF UpdateRole
  <2>2. /\ jobs[r].on \in RoleIds /\ jobs[r].to \in CustomNames \cup {"manager"} /\ validateRole(jobs[r].rights)
        /\ jobs[r].on \in DOMAIN DefaultRoles => jobs[r].to = jobs[r].on /\ jobs[r].rights = DefaultRoles[jobs[r].on]
    BY NoJobIsNone DEF UpdateRole, Is, AccessInv, JobsInv, JobRight
  <2>3. role \in Role /\ role.name = jobs[r].to /\ role.permissions = jobs[r].rights
    BY <2>2, ShippedNames DEF Role, validateRole
  <2> HIDE DEF role
  <2>4. RowsTyped' /\ ShippedRolesStand'
    BY <1>1, <2>1, <2>2, <2>3, RoleStored
  <2> QED
    BY <1>1, <2>4, RolesStep
<1> QED
  BY <1>2, <1>3

LEMMA CountBeforeDeleteInv ==
  ASSUME AccessInv, NEW r \in Requests, CountBeforeDelete(r)
  PROVE  AccessInv'
<1>1. UNCHANGED <<roles, accounts, managedBy, managersOn, asked>> /\ jobs[r].op = "deleteRole"
  BY DEF CountBeforeDelete, Is
<1>2. JobsInv'
  <2>1. CASE Finish(r)
    BY <2>1, FinishStep DEF AccessInv
  <2>2. CASE ~Finish(r)
    <3>1. jobs' = [jobs EXCEPT ![r].stage = "read"] /\ ~IsDefault(roles[jobs[r].on])
      BY <2>2 DEF CountBeforeDelete, Deletable
    <3>2. jobs[r].on \in DOMAIN DefaultRoles => jobs[r].on \in Named(jobs[r].on)
      BY DEF AccessInv, ShippedRolesStand
    <3>3. jobs[r].on \notin DOMAIN DefaultRoles
      BY <3>1, <3>2 DEF Named, IsDefault
    <3> QED
      BY <1>1, <3>1, <3>3, SecondStep DEF AccessInv
  <2> QED
    BY <2>1, <2>2
<1> QED
  BY <1>1, <1>2, RolesStep DEF AccessInv, RowsTyped, ShippedRolesStand, Named

LEMMA DeleteRoleInv ==
  ASSUME AccessInv, NEW r \in Requests, DeleteRole(r)
  PROVE  AccessInv'
<1>1. JobsInv' /\ UNCHANGED <<accounts, managedBy, managersOn, asked>>
  BY FinishStep DEF DeleteRole, AccessInv
<1>2. jobs[r].on \in RoleIds /\ jobs[r].on \notin DOMAIN DefaultRoles
  BY NoJobIsNone DEF DeleteRole, Is, AccessInv, JobsInv, JobRight
<1>3. roles' = [roles EXCEPT ![jobs[r].on] = NotThere]
  BY DEF DeleteRole
<1>4. RowsTyped'
  BY <1>1, <1>2, <1>3 DEF AccessInv, RowsTyped
<1>5. \A x \in RoleIds : roles'[x] = IF x = jobs[r].on THEN NotThere ELSE roles[x]
  BY <1>3 DEF AccessInv, RowsTyped
<1>6. ASSUME NEW x \in DOMAIN DefaultRoles PROVE Named(x)' = {x} /\ roles'[x].permissions = DefaultRoles[x]
  <2>1. Named(x) = {x} /\ roles[x].permissions = DefaultRoles[x] /\ x \in RoleIds /\ x # jobs[r].on
    BY <1>2, ShippedNames DEF AccessInv, ShippedRolesStand
  <2> QED
    BY <1>5, <2>1 DEF Named
<1>7. ShippedRolesStand'
  BY <1>6 DEF ShippedRolesStand
<1> QED
  BY <1>1, <1>4, <1>7, RolesStep

\* What a request needs to be right when it leaves the rows of roles alone.
LEMMA AccountsStep ==
  ASSUME AccessInv, accounts' \in [Accounts -> AccountRow], managedBy' \in [Accounts -> SUBSET Accounts],
         There(System)', NobodysOwn', JobsInv', UNCHANGED <<roles, managersOn, asked>>
  PROVE  AccessInv'
BY DEF AccessInv, RowsTyped, ShippedRolesStand, Named

LEMMA CreateUserInv ==
  ASSUME AccessInv, NEW r \in Requests, CreateUser(r)
  PROVE  AccessInv'
<1>1. JobsInv' /\ UNCHANGED <<roles, managedBy, managersOn, asked>>
  BY FinishStep DEF CreateUser, AccessInv
<1>2. jobs[r].on \in Accounts
  BY NoJobIsNone DEF CreateUser, Is, AccessInv, JobsInv, JobRight
<1>3. PICK mustChange \in BOOLEAN, role \in Named(jobs[r].to) :
       accounts' = IF accounts[jobs[r].on].state = "unborn"
                   THEN [accounts EXCEPT ![jobs[r].on] = [state |-> "there", role |-> role, mustChange |-> mustChange]]
                   ELSE accounts
  BY DEF CreateUser
<1>4. [state |-> "there", role |-> role, mustChange |-> mustChange] \in AccountRow
  BY DEF Named, AccountRow
<1>5. accounts' \in [Accounts -> AccountRow]
  BY <1>3, <1>4 DEF AccessInv, RowsTyped
<1>6. There(System)'
  BY <1>2, <1>3, AccessAssumption DEF AccessInv, RowsTyped, There
<1> QED
  BY <1>1, <1>5, <1>6, AccountsStep DEF AccessInv, RowsTyped, NobodysOwn

LEMMA ReadForAssignInv ==
  ASSUME AccessInv, NEW r \in Requests, ReadForAssign(r)
  PROVE  AccessInv'
<1>1. UNCHANGED <<roles, accounts, managedBy, managersOn, asked>> /\ jobs[r].op = "assignRole"
  BY DEF ReadForAssign, Is
<1>2. JobRight(jobs[r])
  BY <1>1, NoJobIsNone DEF AccessInv, JobsInv
<1>3. JobsInv'
  <2>1. CASE Finish(r)
    BY <2>1, FinishStep DEF AccessInv
  <2>2. CASE ~Finish(r)
    <3> DEFINE role == CHOOSE x \in Named(jobs[r].to) : TRUE
    <3> DEFINE row == [accounts[jobs[r].on] EXCEPT !.role = role]
    <3> DEFINE j == [jobs[r] EXCEPT !.stage = "read", !.row = row]
    <3>1. There(jobs[r].on) /\ Named(jobs[r].to) # {} /\ jobs' = [jobs EXCEPT ![r] = j]
      BY <2>2 DEF ReadForAssign, AccessInv, JobsInv
    <3>2. role \in RoleIds
      BY <3>1 DEF Named
    <3>3. row \in AccountRow /\ row.state = "there"
      <4>1. accounts[jobs[r].on] \in AccountRow /\ accounts[jobs[r].on].state = "there"
        BY <1>1, <1>2, <3>1 DEF AccessInv, RowsTyped, JobRight, There
      <4> HIDE DEF role
      <4> QED
        BY <3>2, <4>1 DEF AccountRow
    <3> HIDE DEF row
    <3>4. /\ j \in [op : {j.op}, by : {j.by}, stage : {j.stage}, on : {j.on}, to : {j.to}, rights : {j.rights},
                    row : {j.row}]
          /\ j.op = jobs[r].op /\ j.by = jobs[r].by /\ j.stage = "read" /\ j.on = jobs[r].on /\ j.to = jobs[r].to
          /\ j.rights = jobs[r].rights /\ j.row = row
      <4>1. jobs[r] \in [op : {jobs[r].op}, by : {jobs[r].by}, stage : {jobs[r].stage}, on : {jobs[r].on},
                         to : {jobs[r].to}, rights : {jobs[r].rights}, row : {jobs[r].row}]
        BY <1>2 DEF JobRight
      <4> QED
        BY <4>1
    <3> HIDE DEF j
    <3>5. JobRight(j)
      BY <1>1, <1>2, <3>3, <3>4 DEF JobRight
    <3> QED
      BY <3>1, <3>5, JobStep DEF AccessInv
  <2> QED
    BY <2>1, <2>2
<1> QED
  BY <1>1, <1>3, RolesStep DEF AccessInv, RowsTyped, ShippedRolesStand, Named

LEMMA AssignRoleInv ==
  ASSUME AccessInv, NEW r \in Requests, AssignRole(r)
  PROVE  AccessInv'
<1>1. JobsInv' /\ UNCHANGED <<roles, managedBy, managersOn, asked>>
  BY FinishStep DEF AssignRole, AccessInv
<1>2. jobs[r].on \in Accounts /\ jobs[r].row \in AccountRow /\ jobs[r].row.state = "there"
  BY NoJobIsNone DEF AssignRole, Is, AccessInv, JobsInv, JobRight
<1>3. accounts' = IF There(jobs[r].on) THEN [accounts EXCEPT ![jobs[r].on] = jobs[r].row] ELSE accounts
  BY DEF AssignRole
<1>4. accounts' \in [Accounts -> AccountRow]
  BY <1>2, <1>3 DEF AccessInv, RowsTyped
<1>5. There(System)'
  BY <1>2, <1>3, AccessAssumption DEF AccessInv, RowsTyped, There
<1> QED
  BY <1>1, <1>4, <1>5, AccountsStep DEF AccessInv, RowsTyped, NobodysOwn

LEMMA DeleteUserInv ==
  ASSUME AccessInv, NEW r \in Requests, DeleteUser(r)
  PROVE  AccessInv'
<1>1. JobsInv' /\ UNCHANGED <<roles, managersOn, asked>>
  BY FinishStep DEF DeleteUser, AccessInv
<1>2. CASE UNCHANGED <<accounts, managedBy>>
  BY <1>1, <1>2, AccountsStep DEF AccessInv, RowsTyped, There, NobodysOwn
<1>3. CASE ~UNCHANGED <<accounts, managedBy>>
  <2>1. /\ accounts' = [accounts EXCEPT ![jobs[r].on].state = "gone"] /\ jobs[r].on # System
        /\ managedBy' = [a \in Accounts |-> IF a = jobs[r].on THEN {} ELSE managedBy[a] \ {jobs[r].on}]
    BY <1>3 DEF DeleteUser
  <2>2. accounts' \in [Accounts -> AccountRow]
    BY <2>1 DEF AccessInv, RowsTyped, AccountRow
  <2>3. There(System)'
    BY <2>1, AccessAssumption DEF AccessInv, RowsTyped, There
  <2>4. managedBy' \in [Accounts -> SUBSET Accounts] /\ NobodysOwn'
    BY <2>1 DEF AccessInv, RowsTyped, NobodysOwn
  <2> QED
    BY <1>1, <2>2, <2>3, <2>4, AccountsStep
<1> QED
  BY <1>2, <1>3

LEMMA CheckManagersInv ==
  ASSUME AccessInv, NEW r \in Requests, CheckManagers(r)
  PROVE  AccessInv'
<1>1. UNCHANGED <<roles, accounts, managedBy, managersOn, asked>> /\ jobs[r].op = "setManagers"
  BY DEF CheckManagers, Is
<1>2. JobsInv'
  <2>1. CASE Finish(r)
    BY <2>1, FinishStep DEF AccessInv
  <2>2. CASE ~Finish(r)
    <3>1. jobs' = [jobs EXCEPT ![r].stage = "read"] /\ jobs[r].on \notin jobs[r].to
      BY <2>2 DEF CheckManagers, MayManage
    <3> QED
      BY <1>1, <3>1, SecondStep DEF AccessInv
  <2> QED
    BY <2>1, <2>2
<1> QED
  BY <1>1, <1>2, RolesStep DEF AccessInv, RowsTyped, ShippedRolesStand, Named

LEMMA SetManagersInv ==
  ASSUME AccessInv, NEW r \in Requests, SetManagers(r)
  PROVE  AccessInv'
<1>1. JobsInv' /\ UNCHANGED <<roles, accounts, managersOn, asked>>
  BY FinishStep DEF SetManagers, AccessInv
<1>2. jobs[r].on \in Accounts /\ jobs[r].to \in SUBSET Accounts /\ jobs[r].on \notin jobs[r].to
  BY NoJobIsNone DEF SetManagers, Is, AccessInv, JobsInv, JobRight
<1>3. managedBy' = [managedBy EXCEPT ![jobs[r].on] = jobs[r].to]
  BY DEF SetManagers
<1>4. managedBy' \in [Accounts -> SUBSET Accounts] /\ NobodysOwn'
  BY <1>2, <1>3 DEF AccessInv, RowsTyped, NobodysOwn
<1> QED
  BY <1>1, <1>4, AccountsStep DEF AccessInv, RowsTyped, There

\* The switch, what changes nothing here, and a password that is chosen.
LEMMA OthersInv ==
  ASSUME AccessInv, (\E r \in Requests : SetEnabled(r) \/ Serve(r)) \/ (\E a \in Accounts : ChangePassword(a))
  PROVE  AccessInv'
<1>1. ASSUME NEW r \in Requests, SetEnabled(r) PROVE AccessInv'
  <2>1. JobsInv' /\ UNCHANGED <<roles, accounts, managedBy, asked>>
    BY <1>1, FinishStep DEF SetEnabled, AccessInv
  <2>2. managersOn' \in BOOLEAN
    BY <1>1, NoJobIsNone DEF SetEnabled, Is, AccessInv, JobsInv, JobRight
  <2> QED
    BY <2>1, <2>2, RolesStep DEF AccessInv, RowsTyped, ShippedRolesStand, Named
<1>2. ASSUME NEW r \in Requests, Serve(r) PROVE AccessInv'
  <2>1. JobsInv' /\ UNCHANGED <<roles, accounts, managedBy, managersOn, asked>>
    BY <1>2, FinishStep DEF Serve, AccessInv
  <2> QED
    BY <2>1, RolesStep DEF AccessInv, RowsTyped, ShippedRolesStand, Named
<1>3. ASSUME NEW a \in Accounts, ChangePassword(a) PROVE AccessInv'
  <2>1. accounts' = [accounts EXCEPT ![a].mustChange = FALSE] /\ UNCHANGED <<roles, managedBy, managersOn, asked, jobs>>
    BY <1>3 DEF ChangePassword
  <2>2. accounts' \in [Accounts -> AccountRow] /\ There(System)'
    <3>1. accounts \in [Accounts -> AccountRow] /\ accounts[System].state = "there"
      BY DEF AccessInv, RowsTyped, There
    <3>2. accounts[a] \in AccountRow
      BY <3>1
    <3>3. [accounts[a] EXCEPT !.mustChange = FALSE] \in AccountRow
          /\ [accounts[a] EXCEPT !.mustChange = FALSE].state = accounts[a].state
      BY <3>2 DEF AccountRow
    <3>4. accounts' = [accounts EXCEPT ![a] = [accounts[a] EXCEPT !.mustChange = FALSE]]
      BY <2>1, <3>1
    <3> QED
      BY <3>1, <3>3, <3>4, AccessAssumption DEF There
  <2>3. JobsInv'
    BY <2>1 DEF AccessInv, JobsInv
  <2> QED
    BY <2>1, <2>2, <2>3, AccountsStep DEF AccessInv, RowsTyped, NobodysOwn
<1> QED
  BY <1>1, <1>2, <1>3

LEMMA AccessInvariant == AccessSpec => []AccessInv
<1>1. AccessInv /\ [AccessNext]_accessVars => AccessInv'
  <2> SUFFICES ASSUME AccessInv, [AccessNext]_accessVars PROVE AccessInv'
    OBVIOUS
  <2>1. CASE UNCHANGED accessVars
    BY <2>1 DEF accessVars, AccessInv, RowsTyped, ShippedRolesStand, Named, There, NobodysOwn, JobsInv
  <2> QED
    BY <2>1, AdmittedInv, CreateRoleInv, ReadForUpdateInv, UpdateRoleInv, CountBeforeDeleteInv, DeleteRoleInv,
       CreateUserInv, ReadForAssignInv, AssignRoleInv, DeleteUserInv, CheckManagersInv, SetManagersInv, OthersInv
       DEF AccessNext, AccessStep
<1> QED
  BY <1>1, AccessInitInv, PTL DEF AccessSpec

-----------------------------------------------------------------------------
(* Requests that do not overlap.                                           *)

RoleThere(id) == roles[id] # NotThere

\* Until two requests overlap there is one at most, and what it has found out still holds
\* when it acts on it: the role it deletes has no account, the one it assigns is there.
EveryoneHasARole == \A a \in Accounts : There(a) => RoleThere(accounts[a].role)
OneAtATime ==
  /\ EveryoneHasARole
  /\ \A r, x \in Requests : jobs[r] # NoJob /\ jobs[x] # NoJob => r = x
  /\ \A r \in Requests :
       /\ jobs[r].op = "deleteRole" /\ jobs[r].stage = "read" =>
            \A a \in Accounts : There(a) => accounts[a].role # jobs[r].on
       /\ jobs[r].op = "assignRole" /\ jobs[r].stage = "read" => RoleThere(jobs[r].row.role)
AloneInv == overlapped \/ OneAtATime

\* The one request ends: none is left.
LEMMA LastEnds ==
  ASSUME AccessInv, OneAtATime, NEW r \in Requests, jobs[r].op # "none", Finish(r),
         EveryoneHasARole'
  PROVE  OneAtATime'
<1>1. jobs[r] # NoJob
  BY NoJobIsNone
<1>2. \A x \in Requests : jobs'[x] = NoJob
  BY <1>1 DEF Finish, AccessInv, JobsInv, OneAtATime
<1>3. \A x \in Requests : jobs'[x].op = "none"
  BY <1>2, NoJobIsNone
<1>4. \A x \in Requests : jobs'[x].op \notin {"deleteRole", "assignRole"}
  BY <1>3
<1> QED
  BY <1>2, <1>4 DEF OneAtATime, EveryoneHasARole

\* The one request goes on to its second statement, the rows stay.
LEMMA GoesOn ==
  ASSUME AccessInv, OneAtATime, NEW r \in Requests, jobs[r].op # "none", NEW j, jobs' = [jobs EXCEPT ![r] = j],
         UNCHANGED <<roles, accounts>>,
         j.op = "deleteRole" => \A a \in Accounts : There(a) => accounts[a].role # j.on,
         j.op = "assignRole" => RoleThere(j.row.role)
  PROVE  OneAtATime'
<1>1. jobs[r] # NoJob
  BY NoJobIsNone
<1>2. \A x \in Requests : x # r => jobs'[x] = jobs[x] /\ jobs[x] = NoJob
  BY <1>1 DEF AccessInv, JobsInv, OneAtATime
<1>3. \A x \in Requests : x # r => jobs'[x].op \notin {"deleteRole", "assignRole"}
  BY <1>2, NoJobIsNone
<1>4. jobs'[r] = j
  BY DEF AccessInv, JobsInv
<1>5. EveryoneHasARole'
  BY DEF OneAtATime, There, RoleThere, EveryoneHasARole
<1>6. \A x, y \in Requests : jobs'[x] # NoJob /\ jobs'[y] # NoJob => x = y
  BY <1>2
<1>7. ASSUME NEW x \in Requests
      PROVE  /\ jobs'[x].op = "deleteRole" => \A a \in Accounts : (There(a) => accounts[a].role # jobs[x].on)'
             /\ jobs'[x].op = "assignRole" => RoleThere(jobs[x].row.role)'
  BY <1>3, <1>4 DEF There, RoleThere
<1> QED
  BY <1>5, <1>6, <1>7 DEF OneAtATime, EveryoneHasARole

LEMMA NobodyHasIt ==
  ASSUME NEW id, CountUsers(id) = 0
  PROVE  \A a \in Accounts : There(a) => accounts[a].role # id
<1> DEFINE holders == {a \in Accounts : There(a) /\ accounts[a].role = id}
<1>1. IsFiniteSet(holders)
  BY AccessAssumption, FS_Subset
<1>2. holders = {}
  BY <1>1, FS_EmptySet DEF CountUsers
<1> QED
  BY <1>2

LEMMA AloneStep ==
  ASSUME AccessInv, AccessInv', AloneInv, NEW r \in Requests, AccessStep(r)
  PROVE  AloneInv'
<1>0. CASE Admitted(r)
  <2>1. PICK op, by, on, to, rights : Admit(r, op, by, on, to, rights)
    BY <1>0 DEF Admitted
  <2> DEFINE j == [op |-> op, by |-> by, stage |-> "admitted", on |-> on, to |-> to, rights |-> rights, row |-> NotThere]
  <2> SUFFICES ASSUME ~overlapped' PROVE OneAtATime'
    BY DEF AloneInv
  <2>2. ~overlapped /\ \A x \in Requests : jobs[x] = NoJob
    BY <2>1 DEF Admit
  <2>3. jobs' = [jobs EXCEPT ![r] = j] /\ UNCHANGED <<roles, accounts>>
    BY <2>1 DEF Admit
  <2>4. j.stage = "admitted"
    OBVIOUS
  <2> HIDE DEF j
  <2>5. \A x \in Requests : jobs'[x] = IF x = r THEN j ELSE NoJob
    BY <2>2, <2>3 DEF AccessInv, JobsInv
  <2>6. \A x \in Requests : jobs'[x].op = "none" \/ jobs'[x].stage = "admitted"
    BY <2>4, <2>5, NoJobIsNone
  <2>7. \A x, y \in Requests : jobs'[x] # NoJob /\ jobs'[y] # NoJob => x = y
    BY <2>5
  <2>8. EveryoneHasARole'
    BY <2>2, <2>3 DEF AloneInv, OneAtATime, There, RoleThere, EveryoneHasARole
  <2> QED
    BY <2>6, <2>7, <2>8 DEF OneAtATime, EveryoneHasARole
<1> SUFFICES ASSUME ~Admitted(r), OneAtATime, ~overlapped PROVE OneAtATime'
  <2>1. CASE ~Admitted(r)
    <3>1. overlapped' = overlapped
      BY <2>1 DEF AccessStep, CreateRole, ReadForUpdate, UpdateRole, CountBeforeDelete, DeleteRole, CreateUser,
         ReadForAssign, AssignRole, DeleteUser, CheckManagers, SetManagers, SetEnabled, Serve
    <3> QED
      BY <2>1, <3>1 DEF AloneInv
  <2> QED
    BY <1>0, <2>1
<1>1. RowsTyped /\ RowsTyped' /\ \A a \in Accounts : accounts[a] \in AccountRow /\ accounts[a].role \in RoleIds
  BY DEF AccessInv, RowsTyped, AccountRow
<1>2. \A a \in Accounts : There(a) => RoleThere(accounts[a].role)
  BY DEF OneAtATime, EveryoneHasARole
<1>3. CASE CreateRole(r) \/ UpdateRole(r)
  <2>1. jobs[r].op # "none" /\ Finish(r) /\ accounts' = accounts
    BY <1>3 DEF CreateRole, UpdateRole, Is
  <2>2. PICK id, role : (roles' = [roles EXCEPT ![id] = role] /\ role = [name |-> jobs[r].to, permissions |-> jobs[r].rights])
                          \/ roles' = roles
    BY <1>3 DEF CreateRole, UpdateRole
  <2>3. \A x \in RoleIds : RoleThere(x) => RoleThere(x)'
    <3>1. CASE roles' = roles
      BY <3>1 DEF RoleThere
    <3>2. CASE roles' # roles
      <4>1. roles' = [roles EXCEPT ![id] = role]
        BY <2>2, <3>2
      <4>2. id \in RoleIds
        BY <1>1, <3>2, <4>1 DEF RowsTyped
      <4>3. role \in Role \cup {NotThere} /\ roles'[id] = role
        BY <1>1, <4>1, <4>2 DEF RowsTyped
      <4>4. role # NotThere
        <5>1. /\ jobs[r].op = "createRole" => jobs[r].to \in CustomNames
              /\ jobs[r].op = "updateRole" => jobs[r].to \in CustomNames \cup {"manager"}
              /\ jobs[r].op = "updateRole" /\ jobs[r].stage = "read" => validateRole(jobs[r].rights)
          BY NoJobIsNone DEF AccessInv, JobsInv, JobRight
        <5>2. jobs[r].to \in CustomNames \cup DOMAIN DefaultRoles /\ validateRole(jobs[r].rights)
          BY <1>3, <3>2, <5>1, ShippedNames DEF CreateRole, UpdateRole, Is
        <5>3. role \in Role
          BY <2>2, <3>2, <5>2 DEF Role, validateRole
        <5> QED
          BY <5>3, RoleIsThere
      <4> QED
        BY <1>1, <4>1, <4>2, <4>3, <4>4 DEF RowsTyped, RoleThere
    <3> QED
      BY <3>1, <3>2
  <2>4. EveryoneHasARole'
    BY <1>1, <1>2, <2>1, <2>3 DEF There, EveryoneHasARole
  <2> QED
    BY <2>1, <2>4, LastEnds
<1>4. CASE DeleteRole(r)
  <2>1. jobs[r].op # "none" /\ Finish(r) /\ accounts' = accounts /\ roles' = [roles EXCEPT ![jobs[r].on] = NotThere]
    BY <1>4 DEF DeleteRole, Is
  <2>2. \A a \in Accounts : There(a) => accounts[a].role # jobs[r].on
    BY <1>4 DEF DeleteRole, Is, OneAtATime
  <2>3. EveryoneHasARole'
    BY <1>1, <1>2, <2>1, <2>2 DEF There, RoleThere, EveryoneHasARole, RowsTyped
  <2> QED
    BY <2>1, <2>3, LastEnds
<1>5. CASE CreateUser(r)
  <2>1. jobs[r].op # "none" /\ Finish(r) /\ roles' = roles
    BY <1>5 DEF CreateUser, Is
  <2>2. EveryoneHasARole'
    <3>1. PICK mustChange \in BOOLEAN, role \in Named(jobs[r].to) :
           accounts' = IF accounts[jobs[r].on].state = "unborn"
                       THEN [accounts EXCEPT ![jobs[r].on] = [state |-> "there", role |-> role, mustChange |-> mustChange]]
                       ELSE accounts
      BY <1>5 DEF CreateUser
    <3>2. roles[role] # NotThere
      BY DEF Named
    <3>3. \A a \in Accounts : accounts'[a] = accounts[a] \/ accounts'[a].role = role
      BY <1>1, <3>1 DEF RowsTyped
    <3> QED
      BY <1>2, <2>1, <3>2, <3>3 DEF There, RoleThere, EveryoneHasARole
  <2> QED
    BY <2>1, <2>2, LastEnds
<1>6. CASE AssignRole(r)
  <2>1. jobs[r].op # "none" /\ Finish(r) /\ roles' = roles
    BY <1>6 DEF AssignRole, Is
  <2>2. RoleThere(jobs[r].row.role)
    BY <1>6 DEF AssignRole, Is, OneAtATime
  <2>3. \A a \in Accounts : accounts'[a] = accounts[a] \/ accounts'[a] = jobs[r].row
    BY <1>1, <1>6 DEF AssignRole, RowsTyped
  <2>4. EveryoneHasARole'
    BY <1>2, <2>1, <2>2, <2>3 DEF There, RoleThere, EveryoneHasARole
  <2> QED
    BY <2>1, <2>4, LastEnds
<1>7. CASE DeleteUser(r)
  <2>1. jobs[r].op # "none" /\ Finish(r) /\ roles' = roles
    BY <1>7 DEF DeleteUser, Is
  <2>2. \A a \in Accounts : There(a)' => There(a) /\ accounts'[a].role = accounts[a].role
    <3>1. accounts' = accounts \/ accounts' = [accounts EXCEPT ![jobs[r].on] = [accounts[jobs[r].on] EXCEPT !.state = "gone"]]
      BY <1>1, <1>7 DEF DeleteUser, RowsTyped
    <3>2. \A row \in AccountRow : [row EXCEPT !.state = "gone"].state = "gone"
      BY DEF AccountRow
    <3> QED
      BY <1>1, <3>1, <3>2 DEF There, RowsTyped
  <2>3. EveryoneHasARole'
    BY <1>2, <2>1, <2>2 DEF RoleThere, EveryoneHasARole
  <2> QED
    BY <2>1, <2>3, LastEnds
<1>8. CASE SetManagers(r) \/ SetEnabled(r) \/ Serve(r)
  <2>1. jobs[r].op # "none" /\ Finish(r) /\ UNCHANGED <<roles, accounts>>
    BY <1>8 DEF SetManagers, SetEnabled, Serve, Is
  <2> QED
    BY <1>2, <2>1, LastEnds DEF There, RoleThere, EveryoneHasARole
<1>9. CASE ReadForUpdate(r) \/ CountBeforeDelete(r) \/ ReadForAssign(r) \/ CheckManagers(r)
  <2>1. jobs[r].op # "none" /\ UNCHANGED <<roles, accounts>>
    BY <1>9 DEF ReadForUpdate, CountBeforeDelete, ReadForAssign, CheckManagers, Is
  <2>2. CASE Finish(r)
    BY <1>2, <2>1, <2>2, LastEnds DEF There, RoleThere, EveryoneHasARole
  <2>3. CASE ~Finish(r)
    <3>0. JobRight(jobs[r]) /\ jobs = [x \in Requests |-> jobs[x]]
      BY <2>1, NoJobIsNone DEF AccessInv, JobsInv
    <3>1. CASE ReadForUpdate(r) \/ CheckManagers(r)
      <4> DEFINE j == [jobs[r] EXCEPT !.stage = "read"]
      <4>1. jobs' = [jobs EXCEPT ![r] = j] /\ jobs[r].op \in {"updateRole", "setManagers"}
        BY <2>3, <3>0, <3>1 DEF ReadForUpdate, CheckManagers, Is
      <4>2. j.op = jobs[r].op
        BY <3>0 DEF JobRight
      <4> HIDE DEF j
      <4>3. j.op # "deleteRole" /\ j.op # "assignRole"
        BY <4>1, <4>2
      <4> QED
        BY <2>1, <4>1, <4>3, GoesOn
    <3>2. CASE CountBeforeDelete(r)
      <4> DEFINE j == [jobs[r] EXCEPT !.stage = "read"]
      <4>1. jobs' = [jobs EXCEPT ![r] = j] /\ jobs[r].op = "deleteRole" /\ CountUsers(jobs[r].on) = 0
        BY <2>3, <3>0, <3>2 DEF CountBeforeDelete, Is
      <4>2. j.op = jobs[r].op /\ j.on = jobs[r].on
        BY <3>0 DEF JobRight
      <4> HIDE DEF j
      <4>3. j.op # "assignRole" /\ \A a \in Accounts : There(a) => accounts[a].role # j.on
        BY <4>1, <4>2, NobodyHasIt
      <4> QED
        BY <2>1, <4>1, <4>3, GoesOn
    <3>3. CASE ReadForAssign(r)
      <4> DEFINE role == CHOOSE x \in Named(jobs[r].to) : TRUE
      <4> DEFINE row == [accounts[jobs[r].on] EXCEPT !.role = role]
      <4> DEFINE j == [jobs[r] EXCEPT !.stage = "read", !.row = row]
      <4>1. jobs' = [jobs EXCEPT ![r] = j] /\ jobs[r].op = "assignRole" /\ Named(jobs[r].to) # {}
        BY <2>3, <3>0, <3>3 DEF ReadForAssign, Is
      <4>2. role \in Named(jobs[r].to)
        BY <4>1
      <4>3. roles[role] # NotThere
        BY <4>2 DEF Named
      <4> HIDE DEF role
      <4>4. accounts[jobs[r].on] \in AccountRow
        BY <1>1, <3>0, <4>1 DEF JobRight
      <4>5. row.role = role
        BY <4>4 DEF AccountRow
      <4> HIDE DEF row
      <4>6. j.op = jobs[r].op /\ j.row = row
        BY <3>0 DEF JobRight
      <4> HIDE DEF j
      <4>7. j.op # "deleteRole" /\ RoleThere(j.row.role)
        BY <4>1, <4>3, <4>5, <4>6 DEF RoleThere
      <4> QED
        BY <2>1, <4>1, <4>7, GoesOn
    <3> QED
      BY <1>9, <3>1, <3>2, <3>3
  <2> QED
    BY <2>2, <2>3
<1> QED
  BY <1>3, <1>4, <1>5, <1>6, <1>7, <1>8, <1>9 DEF AccessStep

LEMMA AloneInvariant == AccessSpec => []AloneInv
<1>1. AccessInit => AloneInv
  <2> SUFFICES ASSUME AccessInit PROVE OneAtATime
    BY DEF AloneInv
  <2>1. \A r \in Requests : jobs[r] = NoJob /\ jobs[r].op = "none"
    BY NoJobIsNone DEF AccessInit
  <2>2. \A r \in Requests : jobs[r].op \notin {"deleteRole", "assignRole"}
    BY <2>1
  <2>3. \A a \in Accounts : accounts[a].role \in {"admin", "manager"}
    BY DEF AccessInit
  <2>4. \A id \in DOMAIN DefaultRoles : RoleThere(id)
    BY AccessInitInv DEF AccessInv, ShippedRolesStand, Named, RoleThere
  <2> QED
    BY <2>1, <2>2, <2>3, <2>4, ShippedNames DEF OneAtATime, EveryoneHasARole
<1>2. AccessInv /\ AccessInv' /\ AloneInv /\ [AccessNext]_accessVars => AloneInv'
  <2> SUFFICES ASSUME AccessInv, AccessInv', AloneInv, [AccessNext]_accessVars PROVE AloneInv'
    OBVIOUS
  <2>1. CASE UNCHANGED accessVars
    BY <2>1 DEF accessVars, AloneInv, OneAtATime, There, RoleThere, EveryoneHasARole
  <2>2. ASSUME NEW a \in Accounts, ChangePassword(a) PROVE AloneInv'
    <3>1. accounts' = [accounts EXCEPT ![a] = [accounts[a] EXCEPT !.mustChange = FALSE]]
          /\ UNCHANGED <<roles, jobs, overlapped>>
      BY <2>2 DEF ChangePassword, AccessInv, RowsTyped
    <3>2. \A row \in AccountRow : [row EXCEPT !.mustChange = FALSE].state = row.state
                                  /\ [row EXCEPT !.mustChange = FALSE].role = row.role
      BY DEF AccountRow
    <3>3. \A x \in Accounts : accounts'[x].state = accounts[x].state /\ accounts'[x].role = accounts[x].role
      BY <3>1, <3>2 DEF AccessInv, RowsTyped
    <3> QED
      BY <3>1, <3>3 DEF AloneInv, OneAtATime, There, RoleThere, EveryoneHasARole
  <2> QED
    BY <2>1, <2>2, AloneStep DEF AccessNext
<1> QED
  BY <1>1, <1>2, AccessInvariant, PTL DEF AccessSpec

-----------------------------------------------------------------------------
(* The results.                                                            *)

\* The rows of roles, accounts and assignments, and the requests, keep their types.
LEMMA AccessTyped == AccessInv => AccessTypeOK
<1> SUFFICES ASSUME AccessInv PROVE AccessTypeOK
  OBVIOUS
<1>1. \A r \in Requests : jobs[r] # NoJob => jobs[r].by \in Accounts /\ jobs[r].stage \in {"admitted", "read"}
  BY DEF AccessInv, JobsInv, JobRight
<1>2. roles \in [RoleIds -> [name : CustomNames \union DOMAIN DefaultRoles,
                             permissions : (SUBSET AllPermissions) \ {{}}] \union {NotThere}]
      /\ accounts \in [Accounts -> [state : {"unborn", "there", "gone"}, role : RoleIds, mustChange : BOOLEAN]]
  BY DEF AccessInv, RowsTyped, Role, AccountRow
<1> QED
  BY <1>1, <1>2 DEF AccessInv, RowsTyped, AccessTypeOK

\* The lists a manager's and a managed account's screens are built from are of one mind with
\* the check that is made when somebody acts for another.
LEMMA ListsAndChecksAgree == AccessInv => ListsAgree
<1> SUFFICES ASSUME AccessInv, NEW m \in Accounts, There(m), NEW a \in Accounts, There(a),
                    NEW right \in TeamPermissions
             PROVE  /\ (<<a, right>> \in Team(m)) <=> Reaches(m, a, right)
                    /\ (<<m, right>> \in ManagersOf(a)) <=> Reaches(m, a, right)
  BY DEF ListsAgree
<1>1. a \in MembersOf(m) <=> m \in managedBy[a]
  BY DEF MembersOf
<1>2. m \in managedBy[a] => m # a
  BY DEF AccessInv, NobodysOwn
<1>3. right \in rightsOf(m) <=> Can(m, right)
  BY DEF rightsOf, teamRightsIn, Can
<1>4. Reaches(m, a, right) <=> managersOn /\ m \in managedBy[a] /\ right \in rightsOf(m)
  BY <1>1, <1>2, <1>3 DEF Reaches
<1>5. <<a, right>> \in Team(m) <=> managersOn /\ m \in managedBy[a] /\ right \in rightsOf(m)
  BY <1>1 DEF Team
<1>6. <<m, right>> \in ManagersOf(a) <=> managersOn /\ m \in managedBy[a] /\ right \in rightsOf(m)
  BY DEF ManagersOf
<1> QED
  BY <1>4, <1>5, <1>6

\* Whatever overlaps, the shipped roles stand as they were shipped, the administrator keeps
\* a way in, and lists and checks are of one mind; until two requests overlap, nobody's role
\* is gone.
THEOREM RolesKeepStanding == AccessSpec => []RolesStand
<1>1. AccessInv => AccessTypeOK /\ ShippedRolesStand /\ SystemStays /\ ListsAgree
  BY AccessTyped, ListsAndChecksAgree DEF AccessInv, SystemStays, RequireInstallationAdmin
<1>2. AloneInv => RolesInUse
  BY DEF AloneInv, OneAtATime, EveryoneHasARole, RoleThere, RolesInUse
<1>3. AccessInv /\ AloneInv => RolesStand
  BY <1>1, <1>2 DEF RolesStand
<1> QED
  BY <1>3, AccessInvariant, AloneInvariant, PTL

\* Whoever is admitted holds, at that moment, the right the request needs, by a role that is
\* there; for another's account, as a manager assigned to it, with the switch on.
THEOREM AdmissionsAreByRight == AccessSpec => AdmittedByRight
<1>1. ASSUME AccessInv, [AccessNext]_accessVars, NEW r \in Requests, jobs[r] = NoJob, jobs'[r] # NoJob
      PROVE  LET by == jobs'[r].by IN
             /\ There(by)
             /\ jobs'[r].op # "switch" => ~accounts[by].mustChange /\ roles[accounts[by].role] # NotThere
             /\ jobs'[r].op \in {"book", "read", "workingTimes"} /\ jobs'[r].on # by =>
                  /\ managersOn /\ by \in managedBy[jobs'[r].on]
                  /\ (IF jobs'[r].op = "book" THEN "timesheets:write:team" ELSE "timesheets:read:team")
                       \in roles[accounts[by].role].permissions
  <2>1. jobs = [x \in Requests |-> jobs[x]] /\ jobs[r].op = "none"
    BY <1>1, NoJobIsNone DEF AccessInv, JobsInv
  <2>2. jobs' # jobs /\ \E x \in Requests : AccessStep(x)
    BY <1>1 DEF AccessNext, accessVars, ChangePassword
  <2>3. PICK x \in Requests : AccessStep(x)
    BY <2>2
  <2>4. \A y \in Requests : y # x => jobs'[y] = jobs[y]
    BY <2>1, <2>3
       DEF AccessStep, Admitted, Admit, Finish, CreateRole, ReadForUpdate, UpdateRole, CountBeforeDelete,
       DeleteRole, CreateUser, ReadForAssign, AssignRole, DeleteUser, CheckManagers, SetManagers, SetEnabled, Serve
  <2>5. x = r
    BY <1>1, <2>4
  <2>6. Admitted(r)
    BY <2>1, <2>3, <2>5 DEF AccessStep, Is, CreateRole, ReadForUpdate, UpdateRole, CountBeforeDelete,
       DeleteRole, CreateUser, ReadForAssign, AssignRole, DeleteUser, CheckManagers, SetManagers, SetEnabled, Serve
  <2>7. PICK by \in Accounts :
        \/ \E y \in Admissible(by) : Admit(r, y[1], by, y[2], y[3], y[4])
        \/ /\ Require(by, "users:write")
           /\ \E on \in Accounts, to \in SUBSET Accounts : Admit(r, "setManagers", by, on, to, {})
        \/ RequireInstallationAdmin(by) /\ \E on \in BOOLEAN : Admit(r, "switch", by, on, {}, {})
        \/ \E on \in Accounts :
             \/ permittedPrincipal(by) /\ requireOwner(by, on) /\ Admit(r, "book", by, on, {}, {})
             \/ permittedPrincipal(by) /\ scopeUserID(by, on) /\ Admit(r, "read", by, on, {}, {})
             \/ RequireSelf(by, on, "settings:write:own") /\ Admit(r, "workingTimes", by, on, {}, {})
    BY <2>6 DEF Admitted
  <2>8. ASSUME NEW op, NEW on, NEW to, NEW rights, Admit(r, op, by, on, to, rights)
        PROVE  jobs'[r].op = op /\ jobs'[r].by = by /\ jobs'[r].on = on
    BY <2>1, <2>8 DEF Admit
  <2>9. \A permission : Can(by, permission) =>
          roles[accounts[by].role] # NotThere /\ permission \in roles[accounts[by].role].permissions
    BY DEF Can, principalFor
  <2>10. CASE \E y \in Admissible(by) : Admit(r, y[1], by, y[2], y[3], y[4])
    <3>1. PICK y \in Admissible(by) : Admit(r, y[1], by, y[2], y[3], y[4])
      BY <2>10
    <3>2. Require(by, "roles:write") \/ Require(by, "users:write")
      BY <3>1 DEF Admissible
    <3>3. y[1] \in {"createRole", "updateRole", "deleteRole", "createUser", "assignRole", "deleteUser"}
      BY <3>1 DEF Admissible
    <3> QED
      BY <2>8, <2>9, <3>1, <3>2, <3>3 DEF Require, permittedPrincipal, mustChangePassword
  <2>11. CASE Require(by, "users:write") /\ \E on \in Accounts, to \in SUBSET Accounts : Admit(r, "setManagers", by, on, to, {})
    BY <2>8, <2>9, <2>11 DEF Require, permittedPrincipal, mustChangePassword
  <2>12. CASE RequireInstallationAdmin(by) /\ \E on \in BOOLEAN : Admit(r, "switch", by, on, {}, {})
    BY <2>8, <2>12 DEF RequireInstallationAdmin
  <2>13. ASSUME NEW on \in Accounts, permittedPrincipal(by), requireOwner(by, on), Admit(r, "book", by, on, {}, {})
         PROVE  /\ There(by) /\ ~accounts[by].mustChange /\ roles[accounts[by].role] # NotThere
                /\ jobs'[r].op = "book" /\ jobs'[r].by = by /\ jobs'[r].on = on
                /\ on # by => /\ managersOn /\ by \in managedBy[on]
                              /\ "timesheets:write:team" \in roles[accounts[by].role].permissions
    BY <2>8, <2>9, <2>13 DEF requireOwner, Reaches, MembersOf, permittedPrincipal, mustChangePassword
  <2>14. ASSUME NEW on \in Accounts, permittedPrincipal(by), scopeUserID(by, on), Admit(r, "read", by, on, {}, {})
         PROVE  /\ There(by) /\ ~accounts[by].mustChange /\ roles[accounts[by].role] # NotThere
                /\ jobs'[r].op = "read" /\ jobs'[r].by = by /\ jobs'[r].on = on
                /\ on # by => /\ managersOn /\ by \in managedBy[on]
                              /\ "timesheets:read:team" \in roles[accounts[by].role].permissions
    BY <2>8, <2>9, <2>14
       DEF scopeUserID, accountFor, Member, Reaches, MembersOf, permittedPrincipal, mustChangePassword
  <2>15. ASSUME NEW on \in Accounts, RequireSelf(by, on, "settings:write:own"), Admit(r, "workingTimes", by, on, {}, {})
         PROVE  /\ There(by) /\ ~accounts[by].mustChange /\ roles[accounts[by].role] # NotThere
                /\ jobs'[r].op = "workingTimes" /\ jobs'[r].by = by /\ jobs'[r].on = by
    BY <2>8, <2>9, <2>15 DEF RequireSelf, permittedPrincipal, mustChangePassword
  <2> QED
    BY <2>7, <2>10, <2>11, <2>12, <2>13, <2>14, <2>15
<1>2. AccessInv /\ [AccessNext]_accessVars =>
        [\A r \in Requests : jobs[r] = NoJob /\ jobs'[r] # NoJob =>
           LET by == jobs'[r].by IN
           /\ There(by)
           /\ jobs'[r].op # "switch" => ~accounts[by].mustChange /\ roles[accounts[by].role] # NotThere
           /\ jobs'[r].op \in {"book", "read", "workingTimes"} /\ jobs'[r].on # by =>
                /\ managersOn /\ by \in managedBy[jobs'[r].on]
                /\ (IF jobs'[r].op = "book" THEN "timesheets:write:team" ELSE "timesheets:read:team")
                     \in roles[accounts[by].role].permissions]_accessVars
  BY <1>1
<1> QED
  BY <1>2, AccessInvariant, PTL DEF AccessSpec, AdmittedByRight

-----------------------------------------------------------------------------
(* The door.                                                               *)

\* A set of numbers has a least one.
LEMMA Least == ASSUME NEW T \in SUBSET Nat, T # {} PROVE \E x \in T : \A y \in T : x <= y
<1> DEFINE Before == OpToRel(<, Nat)
<1>1. IsWellFoundedOn(Before, Nat)
  BY NatLessThanWellFounded, Zenon
<1>2. \A y, x \in Nat : y < x => <<y, x>> \in Before
  BY DEF OpToRel
<1> HIDE DEF Before
<1>3. PICK x \in T : \A y \in T : ~ (<<y, x>> \in Before)
  BY <1>1, WFMin
<1>4. ASSUME NEW y \in T PROVE x <= y
  <2>1. x \in Nat /\ y \in Nat /\ ~(<<y, x>> \in Before)
    BY <1>3
  <2>2. ~(y < x)
    BY <1>2, <2>1
  <2> QED
    BY <2>1, <2>2
<1> QED
  BY <1>4

\* What is chosen by the least number of something is there.
LEMMA LeastBy ==
  ASSUME NEW S, S # {}, NEW f, \A x \in S : f[x] \in Nat
  PROVE  \E x \in S : \A y \in S : f[x] <= f[y]
<1> DEFINE numbers == {f[x] : x \in S}
<1>1. numbers \in SUBSET Nat /\ numbers # {}
  OBVIOUS
<1>2. PICK n \in numbers : \A m \in numbers : n <= m
  <2> HIDE DEF numbers
  <2> QED
    BY <1>1, Least
<1> QED
  BY <1>2

\* The requests of one client that were let through, the ones of them since a moment, and
\* the ones between two.
Of(k) == {q \in passed : q.client = k}
Since(k, t) == {q \in Of(k) : q.at >= t}
Between(k, t, u) == {q \in Of(k) : q.at >= t /\ q.at < u}
Tries(p) == {q \in passed : q.client = p.client /\ q.at >= p.at /\ q.at <= p.at + Shortest.window}
Try == [client : Clients, at : Nat, n : Nat]
Bucket == [count : Nat, reset : Nat]

\* The requests a client's bucket stands for: it was opened with the first of them, at o,
\* and is over after r, all of the client's requests came before that, and of the ones
\* before it few enough are within a window of it. A bucket that was collected is over.
Window(k, b, o, r) ==
  /\ o + Shortest.window <= r /\ r <= o + Longest.window
  /\ \E q \in Of(k) : q.at = o
  /\ \A q \in Of(k) : q.at <= r
  /\ Cardinality(Since(k, o)) <= Largest.limit
  /\ \A p \in Of(k) : p.at < o /\ p.at + Shortest.window >= o => Cardinality(Between(k, p.at, o)) <= Largest.limit - 1
  /\ IF b.count = 0 THEN r < moment ELSE b.reset = r /\ b.count = Cardinality(Since(k, o))
Held(k, b) == (Of(k) = {} /\ b.count = 0) \/ \E o, r \in Nat : Window(k, b, o, r)

GateTyped ==
  /\ moment \in Nat /\ sent \in Nat /\ lastGC \in Nat /\ budgetSaved \in Budgets
  /\ hits \in [Clients \cup {Proxy} -> Bucket]
  /\ passed \subseteq Try /\ IsFiniteSet(passed)
  /\ \A q \in passed : q.at <= moment /\ q.n < sent
DoorInv == GateTyped /\ (\A k \in Clients : Held(k, hits[k])) /\ DoorIsFair

\* The largest and the shortest of the budgets are what they are called.
LEMMA BudgetsBounded ==
  /\ Largest \in {Fallback} \cup Budgets /\ \A c \in {Fallback} \cup Budgets : c.limit <= Largest.limit
  /\ Longest \in {Fallback} \cup Budgets /\ \A c \in {Fallback} \cup Budgets : c.window <= Longest.window
  /\ Shortest \in {Fallback} \cup {d \in Budgets : d.limit > 0 /\ d.window > 0}
  /\ \A c \in {Fallback} \cup {d \in Budgets : d.limit > 0 /\ d.window > 0} : Shortest.window <= c.window
<1> DEFINE all == {Fallback} \cup Budgets
           good == {Fallback} \cup {d \in Budgets : d.limit > 0 /\ d.window > 0}
<1>1. good \subseteq [limit : Nat, window : Nat]
  BY GateAssumption
<1>2. \E b \in all : \A c \in all : c.limit <= b.limit
  BY GateAssumption
<1>3. \E b \in all : \A c \in all : c.window <= b.window
  BY GateAssumption
<1>4. \E b \in good : \A c \in good : b.window <= c.window
  <2> DEFINE f == [b \in good |-> b.window]
  <2>1. \A b \in good : f[b] \in Nat
    BY <1>1
  <2>2. PICK b \in good : \A c \in good : f[b] <= f[c]
    <3> HIDE DEF f, good
    <3>1. good # {}
      BY DEF good
    <3> QED
      BY <2>1, <3>1, LeastBy
  <2>3. \A c \in good : b.window <= c.window
    BY <2>2
  <2> QED
    BY <2>3
<1>5. Largest \in all /\ \A c \in all : c.limit <= Largest.limit
  BY <1>2 DEF Largest
<1>6. Longest \in all /\ \A c \in all : c.window <= Longest.window
  BY <1>3 DEF Longest
<1>7. Shortest \in good /\ \A c \in good : Shortest.window <= c.window
  BY <1>4 DEF Shortest
<1> QED
  BY <1>5, <1>6, <1>7
LEMMA BudgetInForce ==
  ASSUME budgetSaved \in Budgets
  PROVE  /\ budget.limit \in Nat \ {0} /\ budget.window \in Nat \ {0}
         /\ budget.limit <= Largest.limit /\ Shortest.window <= budget.window /\ budget.window <= Longest.window
         /\ Largest.limit \in Nat \ {0} /\ Shortest.window \in Nat \ {0} /\ Longest.window \in Nat \ {0}
<1>1. Fallback.limit \in Nat \ {0} /\ Fallback.window \in Nat \ {0} /\ budgetSaved.limit \in Int /\ budgetSaved.window \in Int
  BY GateAssumption
<1>2. Largest.limit \in Int /\ Longest.window \in Int /\ Shortest.window \in Int
  BY BudgetsBounded, GateAssumption
<1>3. Fallback.limit <= Largest.limit /\ Fallback.window <= Longest.window
  BY BudgetsBounded
<1>4. Shortest.window > 0
  BY BudgetsBounded, <1>1
<1>5. CASE budgetSaved.limit <= 0 \/ budgetSaved.window <= 0
  BY <1>1, <1>2, <1>3, <1>4, <1>5, BudgetsBounded DEF budget
<1>6. CASE budgetSaved.limit > 0 /\ budgetSaved.window > 0
  <2>1. budget = budgetSaved
    BY <1>1, <1>6 DEF budget
  <2>2. budgetSaved.limit <= Largest.limit /\ budgetSaved.window <= Longest.window
    BY BudgetsBounded
  <2>3. Shortest.window <= budgetSaved.window
    BY BudgetsBounded, <1>6
  <2> QED
    BY <1>1, <1>2, <1>3, <1>4, <1>6, <2>1, <2>2, <2>3
<1> QED
  BY <1>1, <1>5, <1>6

\* What a client is counted by is its address, and nobody is counted as the proxy.
LEMMA KeyIsTheClient == \A r \in Traffic : clientKey(r.way) = client(r.way) /\ client(r.way) \in Clients
<1>1. (CHOOSE c \in Clients : TRUE) \in Clients
  BY GateAssumption
<1>2. Direct \in Ways
  <2>1. PICK c \in Clients : c = CHOOSE d \in Clients : TRUE
    BY <1>1
  <2>2. Direct = [remote |-> c, hops |-> <<>>]
    BY <2>1 DEF Direct
  <2> QED
    BY <2>2 DEF Ways
<1>3. \A r \in Traffic : r.way \in Ways
  BY <1>2 DEF Traffic
<1>4. ASSUME NEW way \in Ways PROVE clientKey(way) = client(way) /\ client(way) \in Clients
  <2>1. CASE way \in {[remote |-> Proxy, hops |-> <<d, c>>] : c \in Clients, d \in Clients}
    <3>1. PICK c \in Clients, d \in Clients : way = [remote |-> Proxy, hops |-> <<d, c>>]
      BY <2>1
    <3>2. way.remote = Proxy /\ way.hops = <<d, c>> /\ way.hops # <<>> /\ way.hops[Len(way.hops)] = c /\ way.hops[2] = c
      BY <3>1
    <3> QED
      BY <3>2 DEF clientKey, client, believesForwarded
  <2>2. CASE way.remote \in Clients
    BY <2>2, GateAssumption DEF clientKey, client, believesForwarded
  <2> QED
    BY <2>1, <2>2 DEF Ways
<1> QED
  BY <1>3, <1>4

\* Sets of requests that were let through are finite.
LEMMA TriesAreFinite ==
  ASSUME IsFiniteSet(passed), NEW S \in SUBSET passed
  PROVE  IsFiniteSet(S) /\ Cardinality(S) \in Nat /\ \A T \in SUBSET S : Cardinality(T) \in Nat /\ Cardinality(T) <= Cardinality(S)
<1>1. IsFiniteSet(S)
  BY FS_Subset
<1>2. ASSUME NEW T \in SUBSET S PROVE IsFiniteSet(T) /\ Cardinality(T) <= Cardinality(S)
  BY <1>1, FS_Subset
<1> QED
  BY <1>1, <1>2, FS_CardinalityType

\* Looking through the buckets leaves each with what it stands for.
LEMMA CollectedHold ==
  ASSUME GateTyped, NEW k \in Clients, Held(k, hits[k])
  PROVE  collect[k] \in Bucket /\ Held(k, collect[k])
<1>1. hits[k] \in Bucket
  BY DEF GateTyped
<1>2. NoBucket \in Bucket /\ NoBucket.count = 0
  BY DEF NoBucket, Bucket
<1>3. CASE collect[k] = hits[k]
  BY <1>1, <1>3
<1>4. CASE collect[k] = NoBucket /\ moment > hits[k].reset
  <2>1. CASE Of(k) = {}
    BY <1>2, <1>4, <2>1 DEF Held
  <2>2. ASSUME NEW o \in Nat, NEW r \in Nat, Window(k, hits[k], o, r) PROVE Window(k, NoBucket, o, r)
    <3>1. r < moment
      BY <1>4, <2>2, <1>1 DEF Window, GateTyped, Bucket
    <3> QED
      BY <1>2, <2>2, <3>1 DEF Window
  <2> QED
    BY <1>2, <1>4, <2>1, <2>2 DEF Held
<1> QED
  BY <1>3, <1>4 DEF collect, GateTyped

\* Another request is let through and counted.
LEMMA Counted ==
  ASSUME GateTyped, NEW k \in Clients, NEW b \in Bucket, Held(k, b), ~exhausted(b), TriesBounded,
         passed' = passed \cup {[client |-> k, at |-> moment, n |-> sent]}, moment' = moment,
         NEW after, after = IF opens(b) THEN [count |-> 1, reset |-> moment + budget.window] ELSE [b EXCEPT !.count = @ + 1]
  PROVE  Held(k, after)' /\ TriesBounded'
<1> DEFINE L == Largest.limit
           W == Shortest.window
<1>1. PICK e : e.client = k /\ e.at = moment /\ e \notin passed /\ passed' = passed \cup {e}
  <2> DEFINE e == [client |-> k, at |-> moment, n |-> sent]
  <2>1. e.client = k /\ e.at = moment /\ e.n = sent
    OBVIOUS
  <2>2. e \notin passed
    BY <2>1 DEF GateTyped, Try
  <2> QED
    BY <2>1, <2>2
<1>2. Of(k)' = Of(k) \cup {e} /\ Of(k) \subseteq passed /\ e \notin Of(k)
  BY <1>1 DEF Of
<1>3. L \in Nat \ {0} /\ W \in Nat \ {0} /\ Longest.window \in Nat /\ budget.limit \in Nat /\ budget.limit <= L
      /\ budget.window \in Nat /\ W <= budget.window /\ budget.window <= Longest.window
  BY BudgetInForce DEF GateTyped
<1>4. moment \in Nat /\ (\A q \in passed : q.at \in Nat /\ q.at <= moment)
  BY DEF GateTyped, Try
<1>5. IsFiniteSet(passed) /\ (\A S \in SUBSET passed : IsFiniteSet(S) /\ Cardinality(S) \in Nat)
  BY TriesAreFinite DEF GateTyped
<1>6. Largest' = Largest /\ Shortest' = Shortest /\ Longest' = Longest
  BY DEF Largest, Shortest, Longest
<1>7. ASSUME NEW p \in passed, p \notin Of(k) \/ p.at + W < moment
      PROVE  Cardinality(Tries(p)') <= 2 * L - 1
  <2>1. e \notin Tries(p)'
    <3>1. CASE p \notin Of(k)
      BY <3>1, <1>1 DEF Tries, Of
    <3>2. CASE p.at + W < moment
      BY <3>2, <1>1, <1>3, <1>4, <1>6 DEF Tries
    <3> QED
      BY <1>7, <3>1, <3>2
  <2>2. Tries(p)' = Tries(p)
    BY <2>1, <1>1, <1>6 DEF Tries
  <2> QED
    BY <2>2, <1>7 DEF TriesBounded, Tries
<1>8. SUFFICES Held(k, after)' /\ \A p \in Of(k)' : p = e \/ p.at + W >= moment => Cardinality(Tries(p)') <= 2 * L - 1
  <2>1. ASSUME NEW p \in passed', \A q \in Of(k)' : q = e \/ q.at + W >= moment => Cardinality(Tries(q)') <= 2 * L - 1
        PROVE  Cardinality(Tries(p)') <= 2 * L - 1
    <3>1. CASE p \in Of(k)' /\ (p = e \/ p.at + W >= moment)
      BY <2>1, <3>1
    <3>2. CASE p \notin Of(k)' \/ (p # e /\ ~(p.at + W >= moment))
      <4>1. p \in passed /\ (p \notin Of(k) \/ p.at + W < moment)
        BY <1>1, <1>2, <1>3, <1>4, <3>2
      <4> QED
        BY <4>1, <1>7
    <3> QED
      BY <3>1, <3>2
  <2> QED
    BY <2>1, <1>6 DEF TriesBounded, Tries
<1>9. CASE opens(b)
  <2>0. PICK begun \in Nat, end \in Nat : begun = moment /\ end = moment + budget.window
    BY <1>3, <1>4
  <2>1. after = [count |-> 1, reset |-> moment + budget.window] /\ after.count = 1 /\ after.reset = moment + budget.window
    BY <1>9
  <2>2. ASSUME NEW q \in Of(k) PROVE q.at < moment
    <3>1. PICK o \in Nat, r \in Nat : Window(k, b, o, r)
      BY <2>2 DEF Held
    <3>2. q.at <= r /\ q.at \in Nat
      BY <3>1, <1>2, <1>4 DEF Window
    <3>3. r < moment
      BY <1>9, <3>1 DEF Window, opens
    <3> QED
      BY <3>2, <3>3, <1>4
  <2>3. ASSUME NEW p \in Of(k), p.at + W >= moment PROVE Cardinality(Since(k, p.at)) <= L - 1
    <3>1. PICK o \in Nat, r \in Nat : Window(k, b, o, r)
      BY <2>3 DEF Held
    <3>2. r < moment /\ o + W <= r
      BY <1>9, <3>1 DEF Window, opens
    <3>3. PICK q \in Of(k) : q.at = o
      BY <3>1 DEF Window
    <3>4. o < p.at /\ p.at \in Nat
      BY <3>2, <2>3, <1>2, <1>3, <1>4
    <3>5. Since(k, p.at) \subseteq Since(k, o) \ {q} /\ q \in Since(k, o)
      BY <3>3, <3>4, <1>2, <1>4 DEF Since
    <3>6. IsFiniteSet(Since(k, o)) /\ Cardinality(Since(k, o)) \in Nat /\ Cardinality(Since(k, o)) <= L
      BY <1>2, <1>5, <3>1 DEF Since, Window
    <3>7. IsFiniteSet(Since(k, o) \ {q}) /\ Cardinality(Since(k, o) \ {q}) = Cardinality(Since(k, o)) - 1
      BY <3>5, <3>6, FS_RemoveElement
    <3>8. Cardinality(Since(k, p.at)) <= Cardinality(Since(k, o) \ {q})
      BY <3>5, <3>7, FS_Subset
    <3>9. Cardinality(Since(k, p.at)) \in Nat
      BY <1>2, <1>5 DEF Since
    <3> QED
      BY <3>6, <3>7, <3>8, <3>9, <1>3
  <2>4. Since(k, begun)' = {e} /\ Cardinality({e}) = 1
    <3>1. \A q \in Of(k)' : q.at >= begun <=> q = e
      BY <2>0, <2>2, <1>1, <1>2, <1>4
    <3>2. Since(k, begun)' = {e}
      BY <3>1, <1>2 DEF Since
    <3> QED
      BY <3>2, FS_Singleton
  <2>5. ASSUME NEW p \in Of(k) PROVE Between(k, p.at, begun)' = Since(k, p.at)
    BY <2>0, <2>2, <1>1, <1>2, <1>4 DEF Since, Between
  <2>6. Window(k, after, begun, end)'
    <3>1. \A q \in Of(k)' : q.at <= end
      BY <2>0, <1>1, <1>2, <1>3, <1>4
    <3>2. \A p \in Of(k)' : p.at < begun /\ p.at + W >= begun => Cardinality(Between(k, p.at, begun)') <= L - 1
      BY <2>0, <2>3, <2>5, <1>1, <1>2, <1>4
    <3>3. \E q \in Of(k)' : q.at = begun
      BY <2>0, <1>1, <1>2
    <3>4. Cardinality(Since(k, begun)') <= L /\ after.count = Cardinality(Since(k, begun)')
      BY <2>1, <2>4, <1>3
    <3>5. begun + W <= end /\ end <= begun + Longest.window /\ after.count = 1 /\ after.reset = end
      BY <2>0, <2>1, <1>3, <1>4
    <3> QED
      BY <3>1, <3>2, <3>3, <3>4, <3>5, <1>6 DEF Window
  <2>7. Held(k, after)'
    BY <2>6 DEF Held
  <2>8. ASSUME NEW p \in Of(k)', p = e \/ p.at + W >= moment PROVE Cardinality(Tries(p)') <= 2 * L - 1
    <3>1. CASE p = e
      <4>1. Tries(p)' = {e}
        BY <2>2, <3>1, <1>1, <1>2, <1>3, <1>4, <1>6 DEF Tries, Of
      <4> QED
        BY <4>1, <2>4, <1>3
    <3>2. CASE p # e
      <4>1. p \in Of(k) /\ p.client = k /\ p.at + W >= moment
        BY <2>8, <3>2, <1>2 DEF Of
      <4>2. Tries(p)' \subseteq Since(k, p.at) \cup {e}
        BY <4>1, <1>1 DEF Tries, Since, Of
      <4>3. IsFiniteSet(Since(k, p.at)) /\ Cardinality(Since(k, p.at)) \in Nat /\ Cardinality(Since(k, p.at)) <= L - 1
        BY <4>1, <2>3, <1>2, <1>5 DEF Since
      <4>4. IsFiniteSet(Since(k, p.at) \cup {e}) /\ Cardinality(Since(k, p.at) \cup {e}) <= L
        <5>1. e \notin Since(k, p.at)
          BY <1>1, <1>2 DEF Since
        <5>2. Cardinality(Since(k, p.at) \cup {e}) = Cardinality(Since(k, p.at)) + 1
          BY <4>3, <5>1, FS_AddElement
        <5> QED
          BY <4>3, <5>2, <1>3, FS_AddElement
      <4>5. Cardinality(Tries(p)') <= Cardinality(Since(k, p.at) \cup {e}) /\ Cardinality(Tries(p)') \in Nat
             /\ Cardinality(Since(k, p.at) \cup {e}) \in Nat
        BY <4>2, <4>4, FS_Subset, FS_CardinalityType
      <4> QED
        BY <4>4, <4>5, <1>3
    <3> QED
      BY <3>1, <3>2
  <2> QED
    BY <2>7, <2>8
<1>10. CASE ~opens(b)
  <2>1. b.count \in Nat /\ b.count # 0 /\ moment <= b.reset /\ b.count < budget.limit
    BY <1>10, <1>3, <1>4 DEF opens, exhausted, Bucket
  <2>2. after = [b EXCEPT !.count = @ + 1] /\ after.count = b.count + 1 /\ after.reset = b.reset
    BY <1>10 DEF Bucket
  <2>3. PICK o \in Nat, r \in Nat : Window(k, b, o, r)
    BY <2>1 DEF Held
  <2>4. b.reset = r /\ b.count = Cardinality(Since(k, o))
    BY <2>1, <2>3 DEF Window
  <2>5. o <= moment
    BY <2>3, <1>2, <1>4 DEF Window
  <2>6. Since(k, o)' = Since(k, o) \cup {e} /\ e \notin Since(k, o)
    BY <2>5, <1>1, <1>2, <1>4 DEF Since
  <2>7. IsFiniteSet(Since(k, o)') /\ Cardinality(Since(k, o)') = b.count + 1 /\ b.count + 1 <= L
    <3>1. IsFiniteSet(Since(k, o))
      BY <1>2, <1>5 DEF Since
    <3> QED
      BY <3>1, <2>1, <2>4, <2>6, <1>3, FS_AddElement
  <2>8. ASSUME NEW t \in Nat PROVE Between(k, t, o)' = Between(k, t, o)
    BY <2>5, <1>1, <1>2, <1>4 DEF Between
  <2>9. Window(k, after, o, r)'
    <3>1. \A q \in Of(k)' : q.at <= r
      BY <2>1, <2>3, <2>4, <1>1, <1>2 DEF Window
    <3>2. ASSUME NEW p \in Of(k)', p.at < o, p.at + W >= o PROVE Cardinality(Between(k, p.at, o)') <= L - 1
      <4>1. p \in Of(k) /\ p.at \in Nat
        BY <3>2, <2>5, <1>1, <1>2, <1>4
      <4> QED
        BY <4>1, <3>2, <2>3, <2>8 DEF Window
    <3>3. \E q \in Of(k)' : q.at = o
      BY <2>3, <1>2 DEF Window
    <3>4. o + W <= r /\ r <= o + Longest.window
      BY <2>3 DEF Window
    <3> QED
      BY <2>1, <2>2, <2>4, <2>7, <3>1, <3>2, <3>3, <3>4, <1>6 DEF Window
  <2>10. Held(k, after)'
    BY <2>9 DEF Held
  <2>11. ASSUME NEW p \in Of(k)', p = e \/ p.at + W >= moment PROVE Cardinality(Tries(p)') <= 2 * L - 1
    <3>1. p.client = k /\ p.at \in Nat
      BY <1>1, <1>2, <1>4 DEF Of
    <3>2. Cardinality(Since(k, o)') \in Nat /\ Cardinality(Since(k, o)') <= L
      BY <2>1, <2>7
    <3>3. CASE p.at >= o
      <4>1. Tries(p)' \subseteq Since(k, o)'
        BY <3>1, <3>3, <1>1, <1>2, <1>4 DEF Tries, Since, Of
      <4>2. Cardinality(Tries(p)') <= Cardinality(Since(k, o)') /\ Cardinality(Tries(p)') \in Nat
        BY <4>1, <2>7, FS_Subset, FS_CardinalityType
      <4> QED
        BY <4>2, <3>2, <1>3
    <3>4. CASE p.at < o
      <4>1. p \in Of(k) /\ p.at + W >= o
        BY <2>11, <3>1, <3>4, <2>5, <1>1, <1>2, <1>3, <1>4
      <4>2. Cardinality(Between(k, p.at, o)) <= L - 1
        BY <4>1, <3>4, <2>3 DEF Window
      <4>3. IsFiniteSet(Between(k, p.at, o)) /\ Cardinality(Between(k, p.at, o)) \in Nat
        BY <1>2, <1>5 DEF Between
      <4>4. Tries(p)' \subseteq Between(k, p.at, o) \cup Since(k, o)'
        <5>1. ASSUME NEW q \in Tries(p)' PROVE q \in Between(k, p.at, o) \cup Since(k, o)'
          <6>1. q \in Of(k)' /\ q.at \in Nat /\ q.at >= p.at
            BY <3>1, <5>1, <1>1, <1>4 DEF Tries, Of
          <6>2. CASE q.at >= o
            BY <6>1, <6>2 DEF Since
          <6>3. CASE q.at < o
            BY <6>1, <6>3, <2>5, <1>1, <1>2, <1>4 DEF Between
          <6> QED
            BY <6>1, <6>2, <6>3
        <5> QED
          BY <5>1
      <4>5. /\ IsFiniteSet(Between(k, p.at, o) \cup Since(k, o)')
            /\ Cardinality(Between(k, p.at, o) \cup Since(k, o)') <= Cardinality(Between(k, p.at, o)) + Cardinality(Since(k, o)')
        <5>1. Cardinality(Between(k, p.at, o) \cap Since(k, o)') \in Nat
          <6>1. IsFiniteSet(Between(k, p.at, o) \cap Since(k, o)')
            BY <4>3, FS_Subset
          <6> QED
            BY <6>1, FS_CardinalityType
        <5> QED
          BY <4>3, <2>7, <3>2, <5>1, FS_Union
      <4>6. Cardinality(Tries(p)') <= Cardinality(Between(k, p.at, o) \cup Since(k, o)')
            /\ Cardinality(Tries(p)') \in Nat /\ Cardinality(Between(k, p.at, o) \cup Since(k, o)') \in Nat
        BY <4>4, <4>5, FS_Subset, FS_CardinalityType
      <4> QED
        BY <4>2, <4>3, <4>5, <4>6, <3>2, <1>3
    <3> QED
      BY <3>1, <3>3, <3>4
  <2> QED
    BY <2>10, <2>11
<1> QED
  BY <1>9, <1>10

\* Whoever was let through by a bucket that is empty was let through a window's worth.
LEMMA TurnedAway ==
  ASSUME GateTyped, NEW k \in Clients, NEW b \in Bucket, Held(k, b), exhausted(b)
  PROVE  Cardinality({q \in passed : q.client = k /\ moment - q.at <= Longest.window}) >= budget.limit
<1> DEFINE late == {q \in passed : q.client = k /\ moment - q.at <= Longest.window}
<1>1. b.count \in Nat /\ b.count # 0 /\ b.reset \in Nat /\ ~(moment > b.reset) /\ b.count >= budget.limit
  BY DEF exhausted, opens, Bucket
<1>2. moment \in Nat /\ Longest.window \in Nat /\ budget.limit \in Nat /\ \A q \in passed : q.at \in Nat
  BY BudgetInForce DEF GateTyped, Try
<1>3. PICK o \in Nat, r \in Nat : Window(k, b, o, r)
  BY <1>1 DEF Held
<1>4. b.reset = r /\ b.count = Cardinality(Since(k, o)) /\ r <= o + Longest.window
  BY <1>1, <1>3 DEF Window
<1>5. Since(k, o) \subseteq late
  BY <1>1, <1>2, <1>4 DEF Since, Of
<1>6. IsFiniteSet(late) /\ Cardinality(late) \in Nat
  BY FS_Subset, FS_CardinalityType DEF GateTyped
<1>7. Cardinality(Since(k, o)) <= Cardinality(late)
  BY <1>5, <1>6, FS_Subset
<1> QED
  BY <1>1, <1>2, <1>4, <1>6, <1>7

LEMMA DoorInit == RequestsInit => DoorInv
<1> SUFFICES ASSUME RequestsInit PROVE DoorInv
  OBVIOUS
<1>1. GateTyped
  <2>1. NoBucket \in Bucket
    BY DEF NoBucket, Bucket
  <2> QED
    BY <2>1, FS_EmptySet DEF RequestsInit, GateTyped
<1>2. \A k \in Clients : Held(k, hits[k])
  BY DEF RequestsInit, Held, Of, NoBucket
<1>3. DoorIsFair
  BY DEF RequestsInit, DoorIsFair, TriesBounded, NobodyElsesFault, OnlyOurPages
<1> QED
  BY <1>1, <1>2, <1>3 DEF DoorInv

\* Whatever lets nobody through keeps what the buckets stand for.
LEMMA HeldOn ==
  ASSUME moment \in Nat, moment' \in Nat, moment <= moment', passed' = passed, NEW k, NEW b, Held(k, b)
  PROVE  Held(k, b)'
<1>1. Of(k)' = Of(k) /\ Largest' = Largest /\ Longest' = Longest /\ Shortest' = Shortest
  BY DEF Of, Largest, Longest, Shortest
<1>2. \A o \in Nat : Since(k, o)' = Since(k, o)
  BY <1>1 DEF Since
<1>3. \A o, t \in Nat : Between(k, t, o)' = Between(k, t, o)
  BY <1>1 DEF Between
<1> QED
  BY <1>1, <1>2, <1>3 DEF Held, Window, Between, Since

\* A request of one client takes nothing from another's.
LEMMA HeldBesides ==
  ASSUME moment \in Nat, moment' = moment, NEW k, NEW c, c # k, NEW n, NEW b, Held(c, b),
         passed' = passed \cup {[client |-> k, at |-> moment, n |-> n]}
  PROVE  Held(c, b)'
<1>1. Of(c)' = Of(c) /\ Largest' = Largest /\ Longest' = Longest /\ Shortest' = Shortest
  BY DEF Of, Largest, Longest, Shortest
<1>2. \A o \in Nat : Since(c, o)' = Since(c, o)
  BY <1>1 DEF Since
<1> QED
  BY <1>1, <1>2 DEF Held, Window, Between, Since

LEMMA SaveOrPassRight ==
  ASSUME DoorInv, (\E b \in Budgets : SaveBudget(b)) \/ Pass \/ UNCHANGED gateKeptVars
  PROVE  DoorInv'
<1>1. moment \in Nat /\ moment' \in Nat /\ moment <= moment' /\ passed' = passed /\ hits' = hits /\ verdict' = verdict
      /\ sent' = sent /\ lastGC' = lastGC /\ budgetSaved' \in Budgets
  BY DEF DoorInv, GateTyped, SaveBudget, Pass, gateKeptVars
<1>2. GateTyped'
  BY <1>1 DEF DoorInv, GateTyped, Try
<1>3. \A k \in Clients : Held(k, hits[k])'
  <2>1. ASSUME NEW k \in Clients PROVE Held(k, hits[k])'
    <3>1. PICK b : b = hits[k] /\ Held(k, b)
      BY DEF DoorInv
    <3> QED
      BY <1>1, <3>1, HeldOn
  <2> QED
    BY <2>1
<1>4. DoorIsFair'
  BY <1>1 DEF DoorInv, DoorIsFair, TriesBounded, NobodyElsesFault, OnlyOurPages, Shortest, Largest, Longest
<1> QED
  BY <1>2, <1>3, <1>4 DEF DoorInv

\* Only a page of this installation that holds its cookie passes the cross-site check.
LEMMA OwnPagesOnly ==
  ASSUME NEW kind, NEW way, NEW sender, Outcome(kind, way, sender) \in {"served", "rejected"}, csrfApplies(kind)
  PROVE  Outcome(kind, way, sender) = "served" <=> sender = "page" /\ jar # 0
BY DEF Outcome, checkCSRF, sameOrigin, presented, expected, issuedCSRFToken

LEMMA SendRight ==
  ASSUME DoorInv, NEW r \in Traffic, Send(r.kind, r.way, r.sender)
  PROVE  DoorInv'
<1> DEFINE k == client(r.way)
           outcome == Outcome(r.kind, r.way, r.sender)
<1>1. clientKey(r.way) = k /\ k \in Clients
  BY KeyIsTheClient
<1>2. GateTyped /\ moment' = moment /\ budgetSaved' = budgetSaved /\ sent' = sent + 1 /\ sent \in Nat /\ moment \in Nat
  BY DEF Send, DoorInv, GateTyped
<1>3. /\ verdict' = [client |-> k, sender |-> r.sender, checked |-> csrfApplies(r.kind), held |-> jar,
                     outcome |-> outcome, limit |-> budget.limit, at |-> moment]
      /\ IF tooLarge(r.kind) \/ ~guards(r.kind) THEN UNCHANGED <<hits, lastGC>> ELSE allow(clientKey(r.way))
      /\ passed' = IF guards(r.kind) /\ outcome \notin {"tooLarge", "tooMany"}
                   THEN passed \cup {[client |-> k, at |-> moment, n |-> sent]} ELSE passed
  BY DEF Send
<1>4. OnlyOurPages'
  BY <1>3, OwnPagesOnly DEF OnlyOurPages
<1>5. \A c \in Clients : collect[c] \in Bucket /\ Held(c, collect[c])
  BY CollectedHold DEF DoorInv
<1>6. collect \in [Clients \cup {Proxy} -> Bucket]
  BY DEF DoorInv, GateTyped, collect, NoBucket, Bucket
<1>7. Largest' = Largest /\ Shortest' = Shortest /\ Longest' = Longest
  BY DEF Largest, Shortest, Longest
<1>8. CASE tooLarge(r.kind) \/ ~guards(r.kind)
  <2>1. passed' = passed /\ hits' = hits /\ lastGC' = lastGC /\ outcome # "tooMany"
    BY <1>3, <1>8 DEF Outcome
  <2>2. \A c \in Clients : Held(c, hits[c])'
    <3>1. ASSUME NEW c \in Clients PROVE Held(c, hits[c])'
      <4>1. PICK b : b = hits[c] /\ Held(c, b)
        BY DEF DoorInv
      <4> QED
        BY <1>2, <2>1, <4>1, HeldOn
    <3> QED
      BY <3>1
  <2>3. GateTyped'
    BY <1>2, <2>1 DEF GateTyped, Try
  <2>4. TriesBounded'
    BY <1>7, <2>1 DEF DoorInv, DoorIsFair, TriesBounded
  <2>5. NobodyElsesFault'
    BY <1>3, <2>1 DEF NobodyElsesFault
  <2> QED
    BY <1>4, <2>2, <2>3, <2>4, <2>5 DEF DoorInv, DoorIsFair
<1>9. CASE ~tooLarge(r.kind) /\ guards(r.kind) /\ exhausted(collect[k])
  <2>1. outcome = "tooMany" /\ passed' = passed
    BY <1>1, <1>3, <1>9 DEF Outcome
  <2>2. hits' = collect /\ lastGC' \in Nat
    <3>1. hits' = [collect EXCEPT ![k] = collect[k]]
      BY <1>1, <1>3, <1>9 DEF allow, exhausted
    <3> QED
      BY <1>1, <1>2, <1>3, <1>6, <1>9, <3>1 DEF allow, GateTyped
  <2>3. \A c \in Clients : Held(c, hits[c])'
    <3>1. ASSUME NEW c \in Clients PROVE Held(c, hits[c])'
      <4>1. PICK b : b = collect[c] /\ Held(c, b)
        BY <1>5
      <4> QED
        BY <1>2, <2>1, <2>2, <4>1, HeldOn
    <3> QED
      BY <3>1
  <2>4. GateTyped'
    BY <1>2, <1>6, <2>1, <2>2 DEF GateTyped, Try
  <2>5. TriesBounded'
    BY <1>7, <2>1 DEF DoorInv, DoorIsFair, TriesBounded
  <2>6. NobodyElsesFault'
    <3>1. PICK b \in Bucket : b = collect[k] /\ Held(k, b) /\ exhausted(b)
      BY <1>1, <1>5, <1>9
    <3>2. Cardinality({q \in passed : q.client = k /\ moment - q.at <= Longest.window}) >= budget.limit
      BY <1>1, <1>2, <3>1, TurnedAway
    <3>3. verdict'.client = k /\ verdict'.at = moment /\ verdict'.limit = budget.limit
      BY <1>3
    <3> QED
      BY <1>7, <2>1, <3>2, <3>3 DEF NobodyElsesFault
  <2> QED
    BY <1>4, <2>3, <2>4, <2>5, <2>6 DEF DoorInv, DoorIsFair
<1>10. CASE ~tooLarge(r.kind) /\ guards(r.kind) /\ ~exhausted(collect[k])
  <2>1. outcome \notin {"tooLarge", "tooMany"}
    BY <1>1, <1>10 DEF Outcome
  <2>2. passed' = passed \cup {[client |-> k, at |-> moment, n |-> sent]}
    BY <1>3, <1>10, <2>1
  <2>3. PICK b \in Bucket : b = collect[k] /\ Held(k, b) /\ ~exhausted(b)
    BY <1>1, <1>5, <1>10
  <2>4. PICK after : after = IF opens(b) THEN [count |-> 1, reset |-> moment + budget.window] ELSE [b EXCEPT !.count = @ + 1]
    OBVIOUS
  <2>5. hits' = [collect EXCEPT ![k] = after] /\ lastGC' \in Nat
    BY <1>1, <1>2, <1>3, <1>10, <2>3, <2>4 DEF allow, GateTyped
  <2>6. Held(k, after)' /\ TriesBounded'
    BY <1>1, <1>2, <2>2, <2>3, <2>4, Counted DEF DoorInv, DoorIsFair
  <2>7. ASSUME NEW c \in Clients PROVE Held(c, hits[c])'
    <3>1. CASE c = k
      BY <1>1, <1>6, <2>5, <2>6, <3>1
    <3>2. CASE c # k
      BY <1>1, <1>2, <1>5, <1>6, <2>2, <2>5, <3>2, HeldBesides
    <3> QED
      BY <3>1, <3>2
  <2>8. after \in Bucket
    BY <1>2, <2>4, BudgetInForce DEF GateTyped, Bucket
  <2>9. GateTyped'
    <3>1. hits' \in [Clients \cup {Proxy} -> Bucket]
      BY <1>6, <2>5, <2>8
    <3>2. IsFiniteSet(passed') /\ passed' \subseteq Try
      <4>1. IsFiniteSet(passed) /\ passed \subseteq Try /\ [client |-> k, at |-> moment, n |-> sent] \in Try
        BY <1>1, <1>2 DEF GateTyped, Try
      <4> HIDE DEF k
      <4> QED
        BY <2>2, <4>1, FS_AddElement
    <3>3. \A q \in passed' : q.at <= moment' /\ q.n < sent'
      BY <1>2, <2>2 DEF GateTyped, Try
    <3> QED
      BY <1>2, <2>5, <3>1, <3>2, <3>3 DEF GateTyped
  <2>10. NobodyElsesFault'
    BY <1>3, <2>1 DEF NobodyElsesFault
  <2> QED
    BY <1>4, <2>6, <2>7, <2>9, <2>10 DEF DoorInv, DoorIsFair
<1> QED
  BY <1>1, <1>8, <1>9, <1>10

\* Whoever tries too often is held back and nobody else, and only this installation's pages
\* may act, whatever clients claim about themselves and whatever budgets are saved
\* (RateLimiter, CSRF).
THEOREM DoorStaysFair == RequestsSpec => []DoorIsFair
<1>1. DoorInv /\ [RequestsNext]_gateKeptVars => DoorInv'
  BY SaveOrPassRight, SendRight DEF RequestsNext
<1>2. DoorInv => DoorIsFair
  BY DEF DoorInv
<1> QED
  BY DoorInit, <1>1, <1>2, PTL DEF RequestsSpec

-----------------------------------------------------------------------------
(* Signing in: an account's password, second factor and sessions.          *)

\* A code of this secret is among the accepted ones.
ProvenBy(secret, acc) == \E code \in acc : code.secret = secret

\* What a request has read by the time it uses it, the codes in acc accepted.
ReadBy(q, acc) ==
  /\ q.stage # "idle" => q.row \in Row
  /\ q.stage = "spend" => q.op \in {"login", "confirm", "disable"}
  /\ q.stage = "spend" /\ q.op = "confirm" => q.row.secret # NoSecret
  /\ q.stage = "spend" /\ q.op = "disable" => q.row.enabled
  /\ q.stage = "recheck" => q.token \in Tokens
  /\ q.row # None /\ q.row.enabled => ProvenBy(q.row.secret, acc)
  /\ q.stage = "set" /\ q.op = "confirm" => ProvenBy(q.row.secret, acc)

\* A row that is written back brings the second factor it was read with, so that
\* what the requests hold has to be proven too.
Inv ==
  /\ TypeOK
  /\ FactorProven
  /\ \A r \in Reqs : ReadBy(reqs[r], accepted)

USE DEF Await, Answer, MoveOn, Reads, At, Fresh

LEMMA IdleRequest == Idle \in Request /\ \A acc : ReadBy(Idle, acc)
  BY DEF Idle, Request, OpNames, Stages, ReadBy

LEMMA NotRows == Gone \notin Row /\ None \notin Row /\ None \notin Session
  BY ConstantsAssumption DEF Row, Session, Hashes, Secrets, NoSecret

\* A code that was accepted stays accepted.
LEMMA StaysProven ==
  ASSUME NEW acc, NEW more, acc \subseteq more, NEW q, ReadBy(q, acc)
  PROVE  ReadBy(q, more)
  BY DEF ReadBy, ProvenBy

\* One request's new record is enough for all of them.
LEMMA RequestMoves ==
  ASSUME Inv, NEW r \in Reqs, NEW q \in Request, Await(r, q),
         accepted \subseteq accepted', ReadBy(q, accepted')
  PROVE  /\ reqs' \in [Reqs -> Request]
         /\ \A x \in Reqs : ReadBy(reqs'[x], accepted')
<1>1. reqs \in [Reqs -> Request]
  BY DEF Inv, TypeOK
<1>2. ASSUME NEW x \in Reqs PROVE ReadBy(reqs'[x], accepted')
  <2>1. CASE x = r
    BY <1>1, <2>1
  <2>2. CASE x # r
    <3>1. reqs'[x] = reqs[x] /\ ReadBy(reqs[x], accepted)
      BY <1>1, <2>2 DEF Inv
    <3> QED
      BY <3>1, StaysProven
  <2> QED
    BY <2>1, <2>2
<1> QED
  BY <1>1, <1>2

LEMMA InitInv ==
  ASSUME Init
  PROVE  Inv
<1>1. \A r \in Reqs : ReadBy(reqs[r], accepted)
  BY IdleRequest DEF Init
<1>0. 1 \in Hashes /\ 1 \in Secrets /\ hashes = 1 /\ secrets = 1
  BY ConstantsAssumption DEF Hashes, Secrets, Init
<1>2. account \in Row /\ hashes \in Hashes /\ secrets \in Secrets
  <2>1. PICK s \in Secrets \cup {NoSecret}, b \in BOOLEAN :
          account = [hash |-> 1, secret |-> s, enabled |-> b]
    BY <1>0 DEF Init, NoSecret
  <2> QED
    BY <1>0, <2>1 DEF Row
<1>3. spent \in 0 .. LastStep + 1 /\ accepted \subseteq Codes
  BY ConstantsAssumption DEF Init, Codes, Secrets
<1>4. TypeOK
  BY <1>2, <1>3, IdleRequest, ConstantsAssumption DEF Init, TypeOK
<1>5. FactorProven
  <2>1. CASE ~account.enabled
    BY <2>1 DEF FactorProven
  <2>2. CASE account.enabled
    <3>1. account.secret = 1 /\ accepted = {[secret |-> 1, step |-> FirstStep - 1]}
      BY <2>2 DEF Init
    <3> QED
      BY <3>1 DEF FactorProven, Proven
  <2> QED
    BY <2>1, <2>2
<1> QED
  BY <1>1, <1>4, <1>5 DEF Inv

\* What the account may become for the second factor in force to stay proven.
LEMMA AccountMoves ==
  ASSUME Inv, NEW r \in Reqs, NEW q \in Request, Await(r, q),
         accepted \subseteq accepted', ReadBy(q, accepted'),
         account' \in Row \cup {Gone},
         account' \in Row /\ account'.enabled => ProvenBy(account'.secret, accepted'),
         hashes' \in Hashes, secrets' \in Secrets,
         sessions' \in [Tokens -> Session \cup {None}],
         opened' \subseteq Tokens, spent' \in 0 .. LastStep + 1,
         accepted' \subseteq Codes, counted' \subseteq accepted',
         replayed' \subseteq accepted', now' = now
  PROVE  Inv'
<1>1. /\ reqs' \in [Reqs -> Request]
      /\ \A x \in Reqs : ReadBy(reqs'[x], accepted')
  BY RequestMoves
<1>2. TypeOK'
  BY <1>1 DEF TypeOK, Inv
<1>3. FactorProven'
  BY DEF FactorProven, Proven, ProvenBy
<1> QED
  BY <1>1, <1>2, <1>3 DEF Inv

\* Nothing but the request moves.
LEMMA OnlyTheRequest ==
  ASSUME Inv, NEW r \in Reqs, NEW q \in Request, Await(r, q), ReadBy(q, accepted),
         UNCHANGED <<account, hashes, secrets, sessions, opened, spent, accepted, counted, replayed, now>>
  PROVE  Inv'
<1>1. account' \in Row /\ account'.enabled => ProvenBy(account'.secret, accepted')
  BY NotRows DEF Inv, FactorProven, Proven, ProvenBy
<1>2. TypeOK
  BY DEF Inv
<1> QED
  BY <1>1, <1>2, AccountMoves DEF TypeOK

\* A request that is answered leaves nothing behind.
LEMMA Answered ==
  ASSUME Inv, NEW r \in Reqs, Answer(r),
         UNCHANGED <<account, hashes, secrets, sessions, opened, spent, accepted, counted, replayed, now>>
  PROVE  Inv'
  BY IdleRequest, OnlyTheRequest

\* A request that reads the row.
LEMMA ReadsRow ==
  ASSUME Inv, NEW r \in Reqs, account # Gone,
         NEW op \in OpNames, NEW stage \in {"spend", "write", "enrol"},
         NEW t \in Tokens \cup {None}, Reads(r, op, stage, t),
         stage = "spend" => op \in {"login", "confirm", "disable"},
         op = "confirm" => account.secret # NoSecret,
         op = "disable" => account.enabled,
         UNCHANGED <<account, hashes, secrets, sessions, opened, spent, accepted, counted, replayed, now>>
  PROVE  Inv'
<1> DEFINE q == [op |-> op, stage |-> stage, row |-> account, token |-> t]
<1>1. account \in Row /\ account # None
  BY NotRows DEF Inv, TypeOK
<1>2. q \in Request
  BY <1>1 DEF Request, Stages
<1>3. ReadBy(q, accepted)
  BY <1>1 DEF ReadBy, Inv, FactorProven, Proven, ProvenBy
<1>4. Await(r, q)
  OBVIOUS
<1> QED
  BY <1>2, <1>3, <1>4, OnlyTheRequest

\* The record of a request that has come to another stage.
LEMMA MovesOn ==
  ASSUME Inv, NEW r \in Reqs, NEW stage \in Stages \ {"idle", "spend", "recheck"},
         reqs[r].stage # "idle", stage = "set" => reqs[r].op # "confirm"
  PROVE  /\ [reqs[r] EXCEPT !.stage = stage] \in Request
         /\ ReadBy([reqs[r] EXCEPT !.stage = stage], accepted)
         /\ MoveOn(r, stage) => Await(r, [reqs[r] EXCEPT !.stage = stage])
<1>1. reqs \in [Reqs -> Request] /\ reqs[r] \in Request /\ ReadBy(reqs[r], accepted)
  BY DEF Inv, TypeOK
<1>2. [reqs[r] EXCEPT !.stage = stage] \in Request
  BY <1>1 DEF Request
<1>3. ReadBy([reqs[r] EXCEPT !.stage = stage], accepted)
  BY <1>1 DEF ReadBy, Request
<1> QED
  BY <1>1, <1>2, <1>3

\* Every step of a request keeps the invariant.
LEMMA StepInv ==
  ASSUME Inv, NEW r \in Reqs, Step(r)
  PROVE  Inv'
<1> USE DEF OpNames, Stages
<1>0. /\ TypeOK /\ reqs[r] \in Request /\ ReadBy(reqs[r], accepted)
      /\ account \in Row /\ account.enabled => ProvenBy(account.secret, accepted)
  BY NotRows DEF Inv, TypeOK, FactorProven, Proven, ProvenBy
<1>1. CASE ResolveUser(r)
  BY <1>1, ReadsRow DEF ResolveUser
<1>2. CASE PassFactor(r)
  BY <1>2, MovesOn, OnlyTheRequest DEF PassFactor
<1>3. CASE SpendTOTP(r)
  <2>1. PICK step \in 0 .. LastStep + 1 :
          LET code == [secret |-> reqs[r].row.secret, step |-> step]
          IN  /\ spent' = step
              /\ replayed' = replayed \cup ({code} \cap counted)
              /\ counted' = counted \cup {code}
              /\ accepted' = accepted \cup {code}
    BY <1>3 DEF SpendTOTP
  <2> DEFINE code == [secret |-> reqs[r].row.secret, step |-> step]
             stage == IF reqs[r].op = "login" THEN "open" ELSE "set"
             q == [reqs[r] EXCEPT !.stage = stage]
  <2>2. reqs[r].stage = "spend" /\ (reqs[r].op = "login" => reqs[r].row.enabled)
    BY <1>3 DEF SpendTOTP
  <2>3. reqs[r].row \in Row /\ reqs[r].row.secret \in Secrets
    <3>1. reqs[r].row \in Row /\ reqs[r].row # None
      BY <1>0, <2>2, NotRows DEF ReadBy
    <3>2. CASE reqs[r].row.enabled
      BY <1>0, <3>1, <3>2 DEF ReadBy, ProvenBy, TypeOK, Codes
    <3>3. CASE reqs[r].op = "confirm"
      BY <1>0, <2>2, <3>1, <3>3 DEF ReadBy, Row
    <3> QED
      BY <1>0, <2>2, <3>1, <3>2, <3>3 DEF ReadBy
  <2>4. code \in Codes
    BY <2>1, <2>3 DEF Codes
  <2>5. /\ accepted' \subseteq Codes /\ accepted \subseteq accepted'
        /\ counted' \subseteq accepted' /\ replayed' \subseteq accepted'
    BY <1>0, <2>1, <2>4 DEF TypeOK
  <2>6. q \in Request /\ Await(r, q)
    BY <1>0, <1>3 DEF SpendTOTP, Request, TypeOK
  <2>7. ReadBy(q, accepted')
    <3>0. code \in accepted' /\ code.secret = reqs[r].row.secret
      BY <2>1
    <3>1. ProvenBy(reqs[r].row.secret, accepted')
      BY <3>0 DEF ProvenBy
    <3>2. q.row = reqs[r].row /\ q.stage \in {"open", "set"}
      BY <1>0 DEF Request
    <3> HIDE DEF q
    <3> QED
      BY <2>3, <3>1, <3>2 DEF ReadBy
  <2>8. account' \in Row /\ account'.enabled => ProvenBy(account'.secret, accepted')
    BY <1>0, <1>3, <2>5 DEF SpendTOTP, ProvenBy
  <2> HIDE DEF q, code, stage
  <2> QED
    BY <1>0, <1>3, <2>1, <2>5, <2>6, <2>7, <2>8, AccountMoves DEF SpendTOTP, TypeOK
<1>4. CASE RefuseCode(r)
  BY <1>4, Answered DEF RefuseCode
<1>5. CASE OpenSession(r)
  <2>1. PICK t \in Tokens \ opened :
          /\ opened' = opened \cup {t}
          /\ sessions' = [sessions EXCEPT ![t] = [under |-> reqs[r].row.hash, handed |-> FALSE]]
          /\ Await(r, [reqs[r] EXCEPT !.stage = "recheck", !.token = t])
    BY <1>5 DEF OpenSession
  <2> DEFINE q == [reqs[r] EXCEPT !.stage = "recheck", !.token = t]
  <2>2. reqs[r].stage = "open" /\ reqs[r].row \in Row
    BY <1>0, <1>5 DEF OpenSession, ReadBy
  <2>3. q \in Request
    BY <1>0, <2>1 DEF Request
  <2>4. q.row = reqs[r].row /\ q.stage = "recheck" /\ q.token = t
    BY <1>0 DEF Request
  <2>5. sessions' \in [Tokens -> Session \cup {None}] /\ opened' \subseteq Tokens
    BY <1>0, <2>1, <2>2 DEF TypeOK, Session, Row
  <2>6. Await(r, q)
    BY <2>1
  <2> HIDE DEF q
  <2>7. ReadBy(q, accepted)
    BY <1>0, <2>2, <2>4 DEF ReadBy
  <2> QED
    BY <1>0, <1>5, <2>3, <2>5, <2>6, <2>7, AccountMoves DEF OpenSession, TypeOK
<1>6. CASE Recheck(r)
  <2>1. sessions' \in [Tokens -> Session \cup {None}]
    BY <1>0, <1>6, NotRows DEF Recheck, TypeOK, Session
  <2> QED
    BY <1>0, <1>6, <2>1, IdleRequest, AccountMoves DEF Recheck, TypeOK
<1>7. CASE ReadForChange(r)
  BY <1>7, ReadsRow DEF ReadForChange, Handed
<1>8. CASE ReadForWrite(r)
  BY <1>8, ReadsRow DEF ReadForWrite
<1>9. CASE WritePassword(r)
  <2>1. reqs[r].row \in Row /\ reqs[r].stage # "idle" /\ reqs[r].row # None
    BY <1>0, <1>9, NotRows DEF WritePassword, ReadBy
  <2>2. hashes' \in Hashes /\ hashes' = hashes + 1
    BY <1>0, <1>9, ConstantsAssumption DEF WritePassword, TypeOK, Hashes
  <2>3. account' = [reqs[r].row EXCEPT !.hash = hashes']
    BY <1>9, <2>2 DEF WritePassword
  <2>4. account' \in Row /\ account'.enabled = reqs[r].row.enabled
        /\ account'.secret = reqs[r].row.secret
    BY <2>1, <2>2, <2>3 DEF Row
  <2>5. account'.enabled => ProvenBy(account'.secret, accepted)
    BY <1>0, <2>1, <2>4 DEF ReadBy
  <2>6. sessions' \in [Tokens -> Session \cup {None}]
    BY <1>0, <1>9, <2>2 DEF WritePassword, TypeOK, Session
  <2>7. /\ [reqs[r] EXCEPT !.stage = "end"] \in Request
        /\ ReadBy([reqs[r] EXCEPT !.stage = "end"], accepted)
        /\ Await(r, [reqs[r] EXCEPT !.stage = "end"])
    BY <1>9, <2>1, MovesOn DEF WritePassword
  <2> QED
    BY <1>0, <1>9, <2>2, <2>4, <2>5, <2>6, <2>7, AccountMoves DEF WritePassword, TypeOK
<1>10. CASE EndSessions(r)
  <2>1. sessions' \in [Tokens -> Session \cup {None}]
    BY <1>0, <1>10 DEF EndSessions, TypeOK
  <2> QED
    BY <1>0, <1>10, <2>1, IdleRequest, AccountMoves DEF EndSessions, TypeOK
<1>11. CASE WriteEdit(r)
  <2>1. account' \in Row /\ account' = reqs[r].row /\ account' # None
    BY <1>0, <1>11, NotRows DEF WriteEdit, ReadBy
  <2>2. account'.enabled => ProvenBy(account'.secret, accepted)
    BY <1>0, <2>1 DEF ReadBy
  <2> QED
    BY <1>0, <1>11, <2>1, <2>2, IdleRequest, AccountMoves DEF WriteEdit, TypeOK
<1>12. CASE WriteNothing(r)
  BY <1>12, Answered DEF WriteNothing
<1>13. CASE ReadForEnrolment(r)
  BY <1>13, ReadsRow DEF ReadForEnrolment
<1>14. CASE EnrolSecret(r)
  <2>1. secrets' \in Secrets /\ secrets' = secrets + 1
    BY <1>0, <1>14, ConstantsAssumption DEF EnrolSecret, TypeOK, Secrets
  <2>2. account' \in Row \cup {Gone} /\ (account' \in Row => ~account'.enabled)
    BY <1>0, <1>14, <2>1, NotRows DEF EnrolSecret, SetTOTP, TypeOK, Row
  <2>3. /\ [reqs[r] EXCEPT !.stage = "forget"] \in Request
        /\ ReadBy([reqs[r] EXCEPT !.stage = "forget"], accepted)
        /\ Await(r, [reqs[r] EXCEPT !.stage = "forget"])
    BY <1>14, MovesOn DEF EnrolSecret
  <2> QED
    BY <1>0, <1>14, <2>1, <2>2, <2>3, AccountMoves DEF EnrolSecret, TypeOK
<1>15. CASE ForgetSpent(r)
  <2>1. 0 \in 0 .. LastStep + 1
    BY ConstantsAssumption
  <2> QED
    BY <1>0, <1>15, <2>1, IdleRequest, AccountMoves DEF ForgetSpent, TypeOK
<1>16. CASE ReadForFactor(r)
  BY <1>16, ReadsRow DEF ReadForFactor
<1>17. CASE ActivateTOTP(r)
  <2>1. reqs[r].row \in Row /\ ProvenBy(reqs[r].row.secret, accepted)
    BY <1>0, <1>17 DEF ActivateTOTP, ReadBy
  <2>2. account' \in Row \cup {Gone}
        /\ (account' \in Row => account'.secret = reqs[r].row.secret)
    BY <1>0, <1>17, <2>1, NotRows DEF ActivateTOTP, SetTOTP, TypeOK, Row
  <2> QED
    BY <1>0, <1>17, <2>1, <2>2, IdleRequest, AccountMoves DEF ActivateTOTP, TypeOK
<1>18. CASE ClearTOTP(r)
  <2>1. account' \in Row \cup {Gone} /\ (account' \in Row => ~account'.enabled)
    BY <1>0, <1>18, NotRows DEF ClearTOTP, SetTOTP, TypeOK, Row
  <2> QED
    BY <1>0, <1>18, <2>1, IdleRequest, AccountMoves DEF ClearTOTP, TypeOK
<1>19. CASE Fail(r)
  BY <1>19, Answered DEF Fail
<1> QED
  BY <1>1, <1>2, <1>3, <1>4, <1>5, <1>6, <1>7, <1>8, <1>9, <1>10, <1>11, <1>12, <1>13,
     <1>14, <1>15, <1>16, <1>17, <1>18, <1>19 DEF Step

\* The steps nobody's request takes.
LEMMA OtherInv ==
  ASSUME Inv, (\E t \in Tokens : Logout(t)) \/ PurgeUser \/ Restart \/ NextStep \/ UNCHANGED vars
  PROVE  Inv'
<1>0. TypeOK
  BY DEF Inv
<1>1. ASSUME NEW t \in Tokens, Logout(t) PROVE Inv'
  BY <1>0, <1>1 DEF Logout, Inv, TypeOK, FactorProven, Proven
<1>2. CASE PurgeUser
  BY <1>0, <1>2 DEF PurgeUser, Inv, TypeOK, FactorProven
<1>3. CASE Restart
  <2>1. 0 \in 0 .. LastStep + 1
    BY ConstantsAssumption
  <2> QED
    BY <1>0, <1>3, <2>1, IdleRequest DEF Restart, Inv, TypeOK, FactorProven, Proven
<1>4. CASE NextStep
  <2>1. now' \in FirstStep .. LastStep
    BY <1>0, <1>4, ConstantsAssumption DEF NextStep, TypeOK
  <2> QED
    BY <1>0, <1>4, <2>1 DEF NextStep, Inv, TypeOK, FactorProven, Proven
<1>5. CASE UNCHANGED vars
  BY <1>0, <1>5 DEF vars, Inv, TypeOK, FactorProven, Proven
<1> QED
  BY <1>1, <1>2, <1>3, <1>4, <1>5

LEMMA InvInvariant == Spec => []Inv
<1>1. Inv /\ [Next]_vars => Inv'
  BY StepInv, OtherInv DEF Next
<1> QED
  BY <1>1, InitInv, PTL DEF Spec

\* The second factor in force is one a code was accepted from, whatever the
\* enrolments, the edits of the account and the password changes that are in
\* flight at the same time write back, and whatever fails half way.
THEOREM FactorsProven == Spec => []FactorProven
<1>1. Inv => FactorProven
  BY DEF Inv
<1> QED
  BY <1>1, InvInvariant, PTL

-----------------------------------------------------------------------------
(* Codes.                                                                  *)

\* What a count has let through is of steps it has reached.
CountedSteps == \A code \in counted : code.step <= spent

OnceInv == TypeOK /\ CountedSteps /\ CodeSpentOnce

LEMMA StepOnce ==
  ASSUME OnceInv, TypeOK', Next
  PROVE  OnceInv'
<1>0. /\ spent \in Int /\ spent' \in Int
      /\ \A code \in counted : code.step \in Int /\ code.step <= spent
      /\ replayed = {}
  BY DEF OnceInv, TypeOK, Codes, CountedSteps, CodeSpentOnce
<1>1. ASSUME NEW r \in Reqs, SpendTOTP(r) PROVE CountedSteps' /\ CodeSpentOnce'
  <2>1. PICK step \in 0 .. LastStep + 1 :
          LET code == [secret |-> reqs[r].row.secret, step |-> step]
          IN  /\ NotSpent(step)
              /\ spent' = step
              /\ replayed' = replayed \cup ({code} \cap counted)
              /\ counted' = counted \cup {code}
    BY <1>1 DEF SpendTOTP
  <2> DEFINE code == [secret |-> reqs[r].row.secret, step |-> step]
  <2>2. code.step = step /\ spent < step /\ step \in Int
    BY <1>0, <2>1 DEF NotSpent
  <2>3. spent' = step /\ replayed' = {code} \cap counted /\ counted' = counted \cup {code}
    BY <1>0, <2>1
  <2> HIDE DEF code
  <2>4. code \notin counted
    BY <1>0, <2>2
  <2>5. \A c \in counted : c.step <= step
    BY <1>0, <2>2
  <2> QED
    BY <2>2, <2>3, <2>4, <2>5 DEF CountedSteps, CodeSpentOnce
<1>2. CASE counted' = {} /\ UNCHANGED replayed
  BY <1>2 DEF OnceInv, CountedSteps, CodeSpentOnce
<1>3. CASE UNCHANGED <<spent, counted, replayed>>
  BY <1>3 DEF OnceInv, CountedSteps, CodeSpentOnce
<1>4. ASSUME NEW r \in Reqs, Step(r)
      PROVE  \/ SpendTOTP(r)
             \/ counted' = {} /\ UNCHANGED replayed
             \/ UNCHANGED <<spent, counted, replayed>>
  BY <1>4 DEF Step, ResolveUser, PassFactor, RefuseCode, OpenSession, Recheck, ReadForChange,
     ReadForWrite, WritePassword, EndSessions, WriteEdit, WriteNothing, ReadForEnrolment,
     EnrolSecret, ForgetSpent, ReadForFactor, ActivateTOTP, ClearTOTP, Fail
<1>5. CASE (\E t \in Tokens : Logout(t)) \/ PurgeUser \/ Restart \/ NextStep
  BY <1>2, <1>3, <1>5 DEF Logout, PurgeUser, Restart, NextStep, OnceInv
<1> QED
  BY <1>1, <1>2, <1>3, <1>4, <1>5 DEF Next, OnceInv

\* No code is let through twice under one count, whichever of the sign-ins, the
\* confirmations and the removals bring it, with whichever secret they read before.
THEOREM CodesAreSpent == Spec => []CodeSpentOnce
<1>1. Init => OnceInv
  <2> SUFFICES ASSUME Init PROVE OnceInv
    OBVIOUS
  <2>1. TypeOK
    BY InitInv DEF Inv
  <2>2. \A code \in accepted : code.step = spent
    BY DEF Init
  <2>3. \A code \in counted : code.step <= spent
    BY <2>1, <2>2 DEF Init, TypeOK
  <2> QED
    BY <2>1, <2>3 DEF Init, OnceInv, CountedSteps, CodeSpentOnce
<1>2. OnceInv /\ TypeOK' /\ [Next]_vars => OnceInv'
  <2>1. CASE UNCHANGED vars
    BY <2>1 DEF vars, OnceInv, CountedSteps, CodeSpentOnce
  <2> QED
    BY <2>1, StepOnce
<1>3. Inv => TypeOK
  BY DEF Inv
<1>4. OnceInv => CodeSpentOnce
  BY DEF OnceInv
<1> QED
  BY <1>1, <1>2, <1>3, <1>4, InvInvariant, PTL DEF Spec

-----------------------------------------------------------------------------
(* Sessions and passwords, where nobody edits the account at the same time *)
(* and nothing fails half way.                                             *)

\* Whose session a token is: one that is still being opened is under the password
\* its sign-in read, nobody was handed it, and no other request holds it.
TokensApart ==
  /\ \A t \in Tokens : sessions[t] # None => t \in opened
  /\ \A r \in Reqs : reqs[r].token \in opened \cup {None}
  /\ \A r, x \in Reqs : r # x /\ reqs[r].stage = "recheck" => reqs[x].token # reqs[r].token
  /\ \A r \in Reqs : LET t == reqs[r].token IN
       reqs[r].stage = "recheck" /\ sessions[t] # None =>
         ~sessions[t].handed /\ sessions[t].under = reqs[r].row.hash

StaleInv ==
  /\ Inv
  /\ TokensApart
  /\ NoStaleSession
  /\ account # Gone => account.hash <= hashes
  /\ \A r \in Reqs : reqs[r].op # "edit"

\* Sessions that only go, under a password that stays, while the request that
\* moves is not one that is about to end any.
LEMMA SessionsGo ==
  ASSUME StaleInv, NEW r \in Reqs, NEW q, Await(r, q), reqs[r].stage # "end",
         account # Gone => account' # Gone /\ account'.hash = account.hash,
         \A t \in Tokens : \/ sessions'[t] \in {sessions[t], None}
                          \/ ~sessions'[t].handed
  PROVE  NoStaleSession'
<1>1. reqs \in [Reqs -> Request]
  BY DEF StaleInv, Inv, TypeOK
<1>2. \A t : Ending(t) \subseteq Ending(t)'
  BY <1>1 DEF Ending
<1> QED
  BY <1>2 DEF StaleInv, NoStaleSession, Handed

\* A request that keeps or gives up its token, and does nothing to the sessions
\* under the tokens of others but end them.
LEMMA TokensGo ==
  ASSUME StaleInv, NEW r \in Reqs, NEW q, Await(r, q), opened' = opened,
         q.token \in {reqs[r].token, None}, q.stage # "recheck",
         \A t \in Tokens : /\ t # reqs[r].token => sessions'[t] \in {sessions[t], None}
                           /\ sessions[t] = None => sessions'[t] = None
  PROVE  TokensApart'
<1>1. reqs \in [Reqs -> Request] /\ TokensApart
      /\ \A x \in Reqs : reqs[x].stage = "recheck" => reqs[x].token \in Tokens
  BY DEF StaleInv, Inv, TypeOK, ReadBy
<1>2. \A x \in Reqs : /\ x # r => reqs'[x] = reqs[x]
                      /\ x = r => reqs'[x] = q
  BY <1>1
<1>3. None \notin Tokens
  BY ConstantsAssumption
<1>4. ASSUME NEW t \in Tokens, sessions'[t] # None PROVE t \in opened'
  <2>1. sessions[t] # None
    BY <1>4
  <2>2. t \in opened
    BY <1>1, <2>1 DEF TokensApart
  <2> QED
    BY <2>2
<1>5. \A x \in Reqs : reqs'[x].token \in opened' \cup {None}
  BY <1>1, <1>2 DEF TokensApart
<1>6. ASSUME NEW x \in Reqs, reqs'[x].stage = "recheck"
      PROVE  x # r /\ reqs'[x] = reqs[x] /\ reqs[x].token # reqs[r].token
             /\ sessions'[reqs[x].token] \in {sessions[reqs[x].token], None}
  <2>0. x # r
    BY <1>2, <1>6
  <2>1. x # r /\ reqs'[x] = reqs[x] /\ reqs[x].stage = "recheck"
    BY <1>2, <1>6, <2>0
  <2>2. reqs[r].token # reqs[x].token /\ reqs[x].token \in Tokens
    BY <1>1, <2>1 DEF TokensApart
  <2> QED
    BY <2>1, <2>2
<1>7. ASSUME NEW x \in Reqs, NEW y \in Reqs, x # y, reqs'[x].stage = "recheck"
      PROVE  reqs'[y].token # reqs'[x].token
  BY <1>1, <1>2, <1>3, <1>6, <1>7 DEF TokensApart
<1>8. ASSUME NEW x \in Reqs, reqs'[x].stage = "recheck", sessions'[reqs'[x].token] # None
      PROVE  /\ ~sessions'[reqs'[x].token].handed
             /\ sessions'[reqs'[x].token].under = reqs'[x].row.hash
  BY <1>1, <1>6, <1>8 DEF TokensApart
<1> QED
  BY <1>4, <1>5, <1>7, <1>8 DEF TokensApart

\* A step that moves one request and neither opens a session nor touches the
\* password.
LEMMA QuietStep ==
  ASSUME StaleInv, Inv', NEW r \in Reqs, NEW q, Await(r, q), reqs[r].stage # "end",
         q.token \in {reqs[r].token, None}, q.stage # "recheck", q.op # "edit",
         account = Gone => account' = Gone,
         account # Gone => account' # Gone /\ account'.hash = account.hash,
         UNCHANGED <<hashes, sessions, opened>>
  PROVE  StaleInv'
<1>1. TokensApart'
  BY TokensGo DEF Inv, TypeOK
<1>2. NoStaleSession'
  BY SessionsGo
<1>3. \A x \in Reqs : reqs'[x].op # "edit"
  BY DEF StaleInv, Inv, TypeOK
<1>4. account' # Gone => account'.hash <= hashes'
  BY DEF StaleInv
<1> QED
  BY <1>1, <1>2, <1>3, <1>4 DEF StaleInv

LEMMA StaleStep ==
  ASSUME StaleInv, Inv', NEW r \in Reqs, Step(r), "edit" \notin Ops, ~MayFail
  PROVE  StaleInv'
<1> USE DEF OpNames, Stages
<1>0. /\ TypeOK /\ reqs \in [Reqs -> Request] /\ reqs[r] \in Request
      /\ reqs[r].op # "edit" /\ ReadBy(reqs[r], accepted)
      /\ sessions \in [Tokens -> Session \cup {None}]
      /\ None \notin Tokens
  BY ConstantsAssumption DEF StaleInv, Inv, TypeOK
<1>1. Idle.token = None /\ Idle.stage = "idle" /\ Idle.op = "none"
  BY DEF Idle
<1>2. ASSUME NEW op \in OpNames \ {"edit"}, NEW stage \in {"spend", "write", "enrol"},
             Fresh(r, op), Reads(r, op, stage, None),
             UNCHANGED <<account, hashes, sessions, opened>>
      PROVE  StaleInv'
  <2>1. reqs[r].stage # "end"
    BY <1>1, <1>2
  <2> DEFINE q == [op |-> op, stage |-> stage, row |-> account, token |-> None]
  <2>2. q.token = None /\ q.stage = stage /\ q.op = op /\ Await(r, q)
    BY <1>2
  <2> HIDE DEF q
  <2> QED
    BY <1>2, <2>1, <2>2, QuietStep
<1>3. ASSUME NEW stage \in Stages \ {"recheck"}, MoveOn(r, stage), reqs[r].stage # "end",
             account = Gone => account' = Gone,
             account # Gone => account' # Gone /\ account'.hash = account.hash,
             UNCHANGED <<hashes, sessions, opened>>
      PROVE  StaleInv'
  <2> DEFINE q == [reqs[r] EXCEPT !.stage = stage]
  <2>1. q.token = reqs[r].token /\ q.stage = stage /\ q.op = reqs[r].op /\ Await(r, q)
    BY <1>0, <1>3 DEF Request
  <2> HIDE DEF q
  <2> QED
    BY <1>0, <1>3, <2>1, QuietStep
<1>4. ASSUME Answer(r), reqs[r].stage # "end",
             account = Gone => account' = Gone,
             account # Gone => account' # Gone /\ account'.hash = account.hash,
             UNCHANGED <<hashes, sessions, opened>>
      PROVE  StaleInv'
  BY <1>1, <1>4, QuietStep
<1>5. ASSUME NEW secret \in Secrets \cup {NoSecret}, NEW enabled \in BOOLEAN,
             SetTOTP(secret, enabled)
      PROVE  /\ account = Gone => account' = Gone
             /\ account # Gone => account' # Gone /\ account'.hash = account.hash
  <2>1. CASE account = Gone
    BY <1>5, <2>1 DEF SetTOTP
  <2>2. CASE account # Gone
    <3>1. account \in Row /\ account' = [account EXCEPT !.secret = secret, !.enabled = enabled]
      BY <1>0, <1>5, <2>2 DEF SetTOTP, TypeOK
    <3>2. account' \in Row /\ account'.hash = account.hash
      BY <3>1 DEF Row
    <3> QED
      BY <2>2, <3>2, NotRows
  <2> QED
    BY <2>1, <2>2
<1>6. CASE ResolveUser(r)
  BY <1>2, <1>6 DEF ResolveUser
<1>7. CASE PassFactor(r)
  BY <1>3, <1>7 DEF PassFactor
<1>8. CASE SpendTOTP(r)
  <2>1. PICK stage \in {"open", "set"} : MoveOn(r, stage)
    BY <1>8 DEF SpendTOTP
  <2> QED
    BY <1>3, <1>8, <2>1 DEF SpendTOTP
<1>9. CASE RefuseCode(r)
  BY <1>4, <1>9 DEF RefuseCode
<1>10. CASE OpenSession(r)
  <2>1. PICK t \in Tokens \ opened :
          /\ opened' = opened \cup {t}
          /\ sessions' = [sessions EXCEPT ![t] = [under |-> reqs[r].row.hash, handed |-> FALSE]]
          /\ Await(r, [reqs[r] EXCEPT !.stage = "recheck", !.token = t])
    BY <1>10 DEF OpenSession
  <2> DEFINE q == [reqs[r] EXCEPT !.stage = "recheck", !.token = t]
  <2>2. q.token = t /\ q.stage = "recheck" /\ q.op = reqs[r].op /\ q.row = reqs[r].row /\ Await(r, q)
    BY <1>0, <2>1 DEF Request
  <2> HIDE DEF q
  <2>3. \A x \in Reqs : /\ x # r => reqs'[x] = reqs[x]
                        /\ x = r => reqs'[x] = q
    BY <1>0, <2>2
  <2>4. NoStaleSession'
    <3>1. \A u \in Tokens : sessions'[u] \in {sessions[u], None} \/ ~sessions'[u].handed
      BY <1>0, <2>1
    <3> QED
      BY <1>10, <2>2, <3>1, SessionsGo DEF OpenSession
  <2>5. TokensApart'
    <3>1. \A x \in Reqs : reqs[x].token # t
      BY <2>1, <1>0 DEF StaleInv, TokensApart
    <3>2. \A u \in Tokens : /\ u # t => sessions'[u] = sessions[u]
                            /\ u = t => sessions'[u] = [under |-> reqs[r].row.hash, handed |-> FALSE]
      BY <1>0, <2>1
    <3>3. \A x \in Reqs : reqs[x].stage = "recheck" => reqs[x].token \in Tokens
      BY DEF StaleInv, Inv, ReadBy
    <3> QED
      BY <2>1, <2>2, <2>3, <3>1, <3>2, <3>3 DEF StaleInv, TokensApart
  <2> QED
    BY <1>0, <1>10, <2>2, <2>3, <2>4, <2>5 DEF StaleInv, OpenSession
<1>11. CASE Recheck(r)
  <2> DEFINE t == reqs[r].token
  <2>1. t \in Tokens /\ reqs[r].stage = "recheck"
    BY <1>0, <1>11 DEF Recheck, ReadBy
  <2>2. \A x \in Reqs : /\ x # r => reqs'[x] = reqs[x]
                        /\ x = r => reqs'[x] = Idle
    BY <1>0, <1>11 DEF Recheck
  <2>3. \A u \in Tokens : /\ u # t => sessions'[u] = sessions[u]
                          /\ u = t => sessions'[u] =
                               IF StillProved(r) /\ sessions[t] # None
                               THEN [sessions[t] EXCEPT !.handed = TRUE] ELSE None
    BY <1>0, <1>11 DEF Recheck
  <2>4. NoStaleSession'
    <3>1. \A u : Ending(u) \subseteq Ending(u)'
      BY <2>1, <2>2 DEF Ending
    <3>2. CASE StillProved(r) /\ sessions[t] # None
      <4>1. sessions'[t].under = reqs[r].row.hash
        BY <1>0, <2>1, <2>3, <3>2 DEF StaleInv, TokensApart, Session
      <4>2. account' # Gone /\ sessions'[t].under = account'.hash
        BY <1>11, <3>2, <4>1 DEF Recheck, StillProved
      <4> QED
        BY <1>11, <2>3, <3>1, <4>2 DEF NoStaleSession, Handed, StaleInv, Recheck
    <3>3. CASE ~(StillProved(r) /\ sessions[t] # None)
      BY <1>11, <2>3, <3>1, <3>3 DEF NoStaleSession, Handed, StaleInv, Recheck
    <3> QED
      BY <3>2, <3>3
  <2>5. TokensApart'
    BY <1>1, <1>11, <2>3, TokensGo DEF Recheck
  <2> QED
    BY <1>0, <1>1, <1>11, <2>2, <2>4, <2>5 DEF StaleInv, Recheck
<1>12. CASE ReadForChange(r)
  <2>1. PICK t \in Handed \cup {None} : Reads(r, "change", "write", t)
    BY <1>12 DEF ReadForChange
  <2> DEFINE q == [op |-> "change", stage |-> "write", row |-> account, token |-> t]
  <2>2. q.op = "change" /\ q.stage = "write" /\ q.token = t /\ Await(r, q)
    BY <2>1
  <2> HIDE DEF q
  <2>3. \A x \in Reqs : /\ x # r => reqs'[x] = reqs[x]
                        /\ x = r => reqs'[x] = q
    BY <1>0, <2>2
  <2>4. reqs[r].stage # "end"
    BY <1>1, <1>12 DEF ReadForChange
  <2>5. NoStaleSession'
    BY <1>12, <2>2, <2>4, SessionsGo DEF ReadForChange
  <2>6. TokensApart'
    <3>1. t # None => t \in Tokens /\ sessions[t] # None /\ sessions[t].handed
      BY DEF Handed
    <3>2. \A x \in Reqs : reqs[x].stage = "recheck" => reqs[x].token \in Tokens /\ reqs[x].token # t
      BY <1>0, <3>1 DEF StaleInv, Inv, ReadBy, TokensApart
    <3>3. TokensApart /\ UNCHANGED <<opened, sessions>>
      BY <1>12 DEF ReadForChange, StaleInv
    <3> QED
      BY <2>2, <2>3, <3>1, <3>2, <3>3 DEF TokensApart
  <2> QED
    BY <1>12, <2>2, <2>3, <2>5, <2>6 DEF ReadForChange, StaleInv
<1>13. CASE ReadForWrite(r)
  BY <1>2, <1>13 DEF ReadForWrite
<1>14. CASE WritePassword(r)
  <2> DEFINE k == reqs[r].token
             q == [reqs[r] EXCEPT !.stage = "end"]
  <2>1. q.op = reqs[r].op /\ q.stage = "end" /\ q.token = k /\ Await(r, q)
    BY <1>0, <1>14 DEF WritePassword, Request
  <2> HIDE DEF q
  <2>2. \A x \in Reqs : /\ x # r => reqs'[x] = reqs[x]
                        /\ x = r => reqs'[x] = q
    BY <1>0, <2>1
  <2>3. \A u \in Tokens : /\ u # k => sessions'[u] = sessions[u]
                          /\ sessions[u] = None => sessions'[u] = None
                          /\ u = k /\ sessions[u] # None =>
                                sessions'[u] = [sessions[u] EXCEPT !.under = hashes + 1]
    BY <1>0, <1>14 DEF WritePassword
  <2>4. account' # Gone /\ account'.hash = hashes + 1 /\ hashes' = hashes + 1 /\ hashes + 1 \in Int
    <3>1. reqs[r].row \in Row
      BY <1>0, <1>14 DEF WritePassword, ReadBy
    <3>2. hashes' = hashes + 1 /\ hashes + 1 \in Int /\ hashes' \in Hashes
      BY <1>0, <1>14 DEF WritePassword, TypeOK, Hashes, Inv
    <3> QED
      BY <1>14, <3>1, <3>2, NotRows DEF WritePassword, Row
  <2>5. NoStaleSession'
    <3>1. ASSUME NEW u \in Tokens, u # k PROVE r \in Ending(u)'
      BY <2>1, <2>2, <3>1 DEF Ending
    <3>2. ASSUME k \in Tokens, sessions[k] # None PROVE sessions'[k].under = account'.hash
      <4> HIDE DEF k
      <4>1. sessions[k] \in Session /\ sessions'[k] = [sessions[k] EXCEPT !.under = hashes + 1]
        BY <1>0, <2>3, <3>2
      <4> QED
        BY <2>4, <4>1 DEF Session
    <3> QED
      BY <2>3, <2>4, <3>1, <3>2 DEF NoStaleSession, Handed
  <2>6. TokensApart'
    BY <1>14, <2>1, <2>3, TokensGo DEF WritePassword
  <2> QED
    BY <1>0, <1>14, <2>1, <2>2, <2>4, <2>5, <2>6 DEF StaleInv
<1>15. CASE EndSessions(r)
  <2>1. \A u \in Tokens : sessions'[u] = IF u = reqs[r].token THEN sessions[u] ELSE None
    BY <1>15 DEF EndSessions
  <2>2. TokensApart'
    BY <1>1, <1>15, <2>1, TokensGo DEF EndSessions, Inv, TypeOK
  <2>3. \A x \in Reqs : /\ x # r => reqs'[x] = reqs[x]
                        /\ x = r => reqs'[x] = Idle
    BY <1>0, <1>15 DEF EndSessions
  <2>4. NoStaleSession'
    <3>1. \A u \in Handed' : u = reqs[r].token /\ u \in Handed /\ sessions'[u] = sessions[u]
      BY <2>1 DEF Handed
    <3>2. \A u \in Handed' : Ending(u) \subseteq Ending(u)'
      BY <2>3, <3>1 DEF Ending
    <3> QED
      BY <1>15, <3>1, <3>2 DEF NoStaleSession, StaleInv, EndSessions
  <2> QED
    BY <1>1, <1>15, <2>2, <2>3, <2>4 DEF StaleInv, EndSessions
<1>16. CASE WriteEdit(r)
  BY <1>0, <1>16 DEF WriteEdit
<1>17. CASE WriteNothing(r)
  BY <1>4, <1>17 DEF WriteNothing
<1>18. CASE ReadForEnrolment(r)
  BY <1>2, <1>18 DEF ReadForEnrolment
<1>19. CASE EnrolSecret(r)
  <2>1. secrets + 1 \in Secrets
    BY <1>0, <1>19, ConstantsAssumption DEF EnrolSecret, TypeOK, Secrets
  <2> QED
    BY <1>3, <1>5, <1>19, <2>1 DEF EnrolSecret
<1>20. CASE ForgetSpent(r)
  BY <1>4, <1>20 DEF ForgetSpent
<1>21. CASE ReadForFactor(r)
  BY <1>2, <1>21 DEF ReadForFactor
<1>22. CASE ActivateTOTP(r)
  <2>1. reqs[r].row.secret \in Secrets \cup {NoSecret}
    BY <1>0, <1>22 DEF ActivateTOTP, ReadBy, Row
  <2> QED
    BY <1>4, <1>5, <1>22, <2>1 DEF ActivateTOTP
<1>23. CASE ClearTOTP(r)
  BY <1>4, <1>5, <1>23 DEF ClearTOTP
<1>24. CASE Fail(r)
  BY <1>24 DEF Fail
<1> QED
  BY <1>6, <1>7, <1>8, <1>9, <1>10, <1>11, <1>12, <1>13, <1>14, <1>15, <1>16, <1>17,
     <1>18, <1>19, <1>20, <1>21, <1>22, <1>23, <1>24 DEF Step

LEMMA StaleInvariant ==
  ASSUME "edit" \notin Ops, ~MayFail
  PROVE  Spec => []StaleInv
<1>1. Init => StaleInv
  <2>1. ASSUME Init PROVE Inv /\ TokensApart /\ NoStaleSession
    BY <2>1, InitInv DEF Init, Idle, TokensApart, NoStaleSession, Handed
  <2>2. ASSUME Init PROVE account.hash <= hashes /\ \A r \in Reqs : reqs[r].op # "edit"
    BY <2>2 DEF Init, Idle
  <2> QED
    BY <2>1, <2>2 DEF StaleInv
<1>2. StaleInv /\ [Next]_vars => StaleInv'
  <2> SUFFICES ASSUME StaleInv, [Next]_vars PROVE StaleInv'
    OBVIOUS
  <2>0. Inv /\ Inv'
    BY StepInv, OtherInv DEF StaleInv, Next
  <2>1. ASSUME NEW r \in Reqs, Step(r) PROVE StaleInv'
    BY <2>0, <2>1, StaleStep
  <2>2. ASSUME NEW t \in Tokens, Logout(t) PROVE StaleInv'
    <3>1. \A u \in Tokens : sessions'[u] \in {sessions[u], None}
      BY <2>0, <2>2 DEF Logout, Inv, TypeOK
    <3>2. NoStaleSession'
      BY <2>2, <3>1 DEF Logout, StaleInv, NoStaleSession, Handed, Ending
    <3>3. \A x \in Reqs : reqs[x].stage = "recheck" => reqs[x].token \in Tokens
      BY DEF StaleInv, Inv, ReadBy
    <3>4. TokensApart'
      BY <2>2, <3>1, <3>3 DEF Logout, StaleInv, TokensApart
    <3> QED
      BY <2>0, <2>2, <3>2, <3>4 DEF Logout, StaleInv
  <2>3. CASE PurgeUser
    <3>1. \A u \in Tokens : sessions'[u] = None
      BY <2>3 DEF PurgeUser
    <3>2. \A x \in Reqs : reqs[x].stage = "recheck" => reqs[x].token \in Tokens
      BY DEF StaleInv, Inv, ReadBy
    <3> QED
      BY <2>0, <2>3, <3>1, <3>2 DEF PurgeUser, StaleInv, TokensApart, NoStaleSession, Handed
  <2>4. CASE Restart
    BY <2>4 DEF Restart
  <2>5. CASE NextStep \/ UNCHANGED vars
    <3>1. UNCHANGED <<account, hashes, sessions, opened, reqs>>
      BY <2>5 DEF NextStep, vars
    <3> QED
      BY <2>0, <3>1 DEF StaleInv, TokensApart, NoStaleSession, Handed, Ending
  <2> QED
    BY <2>1, <2>2, <2>3, <2>4, <2>5 DEF Next
<1> QED
  BY <1>1, <1>2, PTL DEF Spec

\* No session outlives the password it was opened with, however the sign-ins, the
\* password changes, the resets and the deletion of the account interleave: what
\* Login's second look at the account and the ending of the other sessions are for.
THEOREM SessionsFollowPassword ==
  ASSUME "edit" \notin Ops, ~MayFail
  PROVE  Spec => []NoStaleSession
<1>1. StaleInv => NoStaleSession
  BY DEF StaleInv
<1> QED
  BY <1>1, StaleInvariant, PTL

\* A password that was replaced does not come back: of all that writes the row,
\* only the password changes write that column, each a password of its own.
THEOREM PasswordsStay ==
  ASSUME "edit" \notin Ops, ~MayFail
  PROVE  Spec => NoPasswordReturns
<1> DEFINE A == account # Gone /\ account' # Gone => account'.hash >= account.hash
<1>1. StaleInv /\ [Next]_vars => [A]_vars
  <2> SUFFICES ASSUME StaleInv, [Next]_vars, account # Gone, account' # Gone
               PROVE  account'.hash >= account.hash
    OBVIOUS
  <2>1. account \in Row /\ account.hash \in Int /\ hashes \in Int /\ account.hash <= hashes
    BY DEF StaleInv, Inv, TypeOK, Row, Hashes
  <2>2. CASE account' = account
    BY <2>1, <2>2
  <2>3. ASSUME NEW secret, NEW enabled, SetTOTP(secret, enabled)
        PROVE  account'.hash = account.hash
    BY <2>1, <2>3 DEF SetTOTP, Row
  <2>4. ASSUME NEW r \in Reqs, WritePassword(r) PROVE account'.hash >= account.hash
    <3>1. reqs[r].row \in Row
      BY <2>4 DEF WritePassword, StaleInv, Inv, ReadBy
    <3>2. account'.hash = hashes + 1
      BY <2>4, <3>1 DEF WritePassword, Row
    <3> QED
      BY <2>1, <3>2
  <2>5. ASSUME NEW r \in Reqs, WriteEdit(r) PROVE FALSE
    BY <2>5 DEF WriteEdit, StaleInv
  <2>6. ASSUME NEW r \in Reqs, EnrolSecret(r) \/ ActivateTOTP(r) \/ ClearTOTP(r)
        PROVE  account'.hash >= account.hash
    <3>1. account'.hash = account.hash
      BY <2>3, <2>6 DEF EnrolSecret, ActivateTOTP, ClearTOTP
    <3> QED
      BY <2>1, <3>1
  <2>7. ASSUME NEW r \in Reqs, Step(r), account' # account
        PROVE  WritePassword(r) \/ WriteEdit(r) \/ EnrolSecret(r) \/ ActivateTOTP(r) \/ ClearTOTP(r)
    BY <2>7 DEF Step, ResolveUser, PassFactor, SpendTOTP, RefuseCode, OpenSession, Recheck,
         ReadForChange, ReadForWrite, EndSessions, WriteNothing, ReadForEnrolment,
         ForgetSpent, ReadForFactor, Fail
  <2> QED
    BY <2>2, <2>4, <2>5, <2>6, <2>7 DEF Next, Logout, PurgeUser, Restart, NextStep, vars
<1> QED
  BY <1>1, StaleInvariant, PTL DEF Spec, NoPasswordReturns

=============================================================================
