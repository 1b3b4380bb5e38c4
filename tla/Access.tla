------------------------------- MODULE Access -------------------------------
(***************************************************************************)
(* Who may do what: accounts, their roles, the managers assigned to them,  *)
(* and the checks the handlers make (authz.go) before they call a service. *)
(* A request is admitted by reading its caller's account and role, and     *)
(* then reads and writes with separate statements, while other requests    *)
(* do the same.                                                            *)
(***************************************************************************)
EXTENDS Naturals, FiniteSets

CONSTANTS Requests,      \* requests that may be in flight together
          MaxRequests,   \* bound on the requests of a behaviour
          Accounts,      \* the ids of the accounts, System among them
          System,        \* the built-in administrator
          CustomRole,    \* the id of the role an administrator may add
          CustomNames,   \* the names it may be given
          CustomRights,  \* the lists of rights it may be given
          NotThere       \* no such row

VARIABLES roles,        \* role id -> [name, permissions], or NotThere
          accounts,     \* account id -> [state, role, mustChange]; ids are never used twice
          managedBy,    \* account id -> the ids assigned to it as managers
          managersOn,   \* the setting that lets managers reach anybody at all
          asked,        \* requests admitted so far
          jobs,         \* request -> what it was admitted for and what it has read
          overlapped    \* ghost: whether two requests have been in flight together

accessVars == <<roles, accounts, managedBy, managersOn, asked, jobs, overlapped>>

SystemAdminPermissions == {"users:write", "roles:write", "settings:manage"}
UserPermissions == {"timesheets:read:own", "timesheets:write:own", "settings:write:own"}
TeamPermissions == {"timesheets:read:team", "timesheets:write:team"}
UserAdminPermissions == UserPermissions \union SystemAdminPermissions
ManagerPermissions == UserPermissions \union TeamPermissions
AllPermissions == UserAdminPermissions \union TeamPermissions

DefaultRoles == [admin |-> SystemAdminPermissions, user |-> UserPermissions,
                 useradmin |-> UserAdminPermissions, manager |-> ManagerPermissions]
RoleIds == DOMAIN DefaultRoles \union {CustomRole}

ASSUME AccessAssumption ==
  /\ MaxRequests \in Nat /\ System \in Accounts /\ IsFiniteSet(Accounts)
  /\ CustomRole \notin DOMAIN DefaultRoles /\ CustomNames \intersect DOMAIN DefaultRoles = {}
  /\ CustomRights \subseteq SUBSET AllPermissions
  /\ NotThere \notin [name : CustomNames \union DOMAIN DefaultRoles, permissions : SUBSET AllPermissions]

IsDefault(role) == role.name \in DOMAIN DefaultRoles

There(id) == accounts[id].state = "there"
CountUsers(role) == Cardinality({a \in Accounts : There(a) /\ accounts[a].role = role})
Named(name) == {id \in RoleIds : roles[id] # NotThere /\ roles[id].name = name}

(***************************************************************************)
(* The caller, as the session middleware finds it and authz.go judges it.  *)
(***************************************************************************)
principalFor(a) ==
  IF roles[accounts[a].role] = NotThere THEN {} ELSE roles[accounts[a].role].permissions
Can(a, permission) == permission \in principalFor(a)
mustChangePassword(a) == accounts[a].mustChange
\* A slip: a password that has to be changed first holds nobody back.
anyPrincipal(a) == There(a)
permittedPrincipal(a) == There(a) /\ ~mustChangePassword(a)
Require(a, permission) == permittedPrincipal(a) /\ Can(a, permission)
RequireInstallationAdmin(a) == There(a) /\ (a = System \/ Can(a, "settings:manage"))
RequireSelf(a, target, permission) == permittedPrincipal(a) /\ a = target /\ Can(a, permission)

teamRightsIn(permissions) == permissions \intersect TeamPermissions
MembersOf(manager) == {a \in Accounts : manager \in managedBy[a]}

Reaches(caller, a, permission) ==
  /\ caller # a
  /\ permission \in TeamPermissions /\ Can(caller, permission)
  /\ managersOn
  /\ a \in MembersOf(caller)

\* Whose account a request that names one is about, if the caller may name it.
Member(caller, a, permission) == Reaches(caller, a, permission) /\ There(a)
accountFor(caller, a, permission) == a = caller \/ Member(caller, a, permission)
scopeUserID(caller, a) ==
  Can(caller, "timesheets:read:own") /\ accountFor(caller, a, "timesheets:read:team")
requireOwner(caller, owner) ==
  \/ Can(caller, "timesheets:write:own") /\ caller = owner
  \/ Reaches(caller, owner, "timesheets:write:team")

\* The lists the screens are built from, as pairs of an account and a right. An account
\* that is gone is left out (named).
rightsOf(a) == teamRightsIn(principalFor(a))
Team(caller) ==
  IF ~managersOn THEN {} ELSE {a \in MembersOf(caller) : There(a)} \X rightsOf(caller)
ManagersOf(a) ==
  IF ~managersOn THEN {}
  ELSE UNION {{<<m, right>> : right \in rightsOf(m)} : m \in {x \in managedBy[a] : There(x)}}

(***************************************************************************)
(* Requests.                                                               *)
(***************************************************************************)
NoJob == [op |-> "none"]

Admit(r, op, by, on, to, rights) ==
  /\ jobs[r] = NoJob /\ asked < MaxRequests
  /\ asked' = asked + 1
  /\ overlapped' = (overlapped \/ \E other \in Requests : jobs[other] # NoJob)
  /\ jobs' = [jobs EXCEPT ![r] = [op |-> op, by |-> by, stage |-> "admitted", on |-> on, to |-> to, rights |-> rights, row |-> NotThere]]
  /\ UNCHANGED <<roles, accounts, managedBy, managersOn>>
Finish(r) == jobs' = [jobs EXCEPT ![r] = NoJob]
Is(r, op, stage) == jobs[r].op = op /\ jobs[r].stage = stage

\* The rights of a new or changed role: known ones, and at least one (validateRole).
validateRole(rights) == rights # {} /\ rights \subseteq AllPermissions
\* On, to and rights of a request that its handler admits for the caller.
Admissible(by) ==
  (IF Require(by, "roles:write")
   THEN ({"createRole"} \X {CustomRole} \X CustomNames \X CustomRights)
        \union ({"updateRole"} \X RoleIds \X (CustomNames \union {"manager"}) \X CustomRights)
        \union ({"deleteRole"} \X RoleIds \X {"user"} \X {{}})
   ELSE {})
  \union
  (IF Require(by, "users:write")
   THEN ({"createUser"} \X Accounts \X {"user", "manager"} \X {{}})
        \union ({"assignRole"} \X Accounts \X (DOMAIN DefaultRoles \union CustomNames) \X {{}})
        \union ({"deleteUser"} \X (Accounts \ {by}) \X {"user"} \X {{}})
   ELSE {})
Admitted(r) ==
  \E by \in Accounts :
    \/ \E x \in Admissible(by) : Admit(r, x[1], by, x[2], x[3], x[4])
    \/ /\ Require(by, "users:write")
       /\ \E on \in Accounts, to \in SUBSET Accounts : Admit(r, "setManagers", by, on, to, {})
    \/ RequireInstallationAdmin(by) /\ \E on \in BOOLEAN : Admit(r, "switch", by, on, {}, {})
    \/ \E on \in Accounts :
         \/ permittedPrincipal(by) /\ requireOwner(by, on) /\ Admit(r, "book", by, on, {}, {})
         \/ permittedPrincipal(by) /\ scopeUserID(by, on) /\ Admit(r, "read", by, on, {}, {})
         \/ RequireSelf(by, on, "settings:write:own") /\ Admit(r, "workingTimes", by, on, {}, {})

(***************************************************************************)
(* Roles. Save and Update are transactions the UNIQUE name can refuse.     *)
(***************************************************************************)
CreateRole(r) ==
  /\ Is(r, "createRole", "admitted")
  /\ roles' = IF validateRole(jobs[r].rights) /\ Named(jobs[r].to) = {} /\ roles[CustomRole] = NotThere
              THEN [roles EXCEPT ![CustomRole] = [name |-> jobs[r].to, permissions |-> jobs[r].rights]]
              ELSE roles
  /\ Finish(r) /\ UNCHANGED <<accounts, managedBy, managersOn, asked, overlapped>>

\* A slip: only the administrator's role is kept as it was shipped.
ChangeableUnlessSystem(role, name, rights) ==
  role.name = "admin" => name = role.name /\ rights = role.permissions
\* A shipped role keeps its name and its rights; asking for what it already has is let through.
Changeable(role, name, rights) ==
  IsDefault(role) => name = role.name /\ rights = role.permissions
ReadForUpdate(r) ==
  /\ Is(r, "updateRole", "admitted")
  /\ LET role == roles[jobs[r].on]
     IN IF role # NotThere /\ Changeable(role, jobs[r].to, jobs[r].rights) /\ validateRole(jobs[r].rights)
        THEN jobs' = [jobs EXCEPT ![r].stage = "read"]
        ELSE Finish(r)
  /\ UNCHANGED <<roles, accounts, managedBy, managersOn, asked, overlapped>>
UpdateRole(r) ==
  /\ Is(r, "updateRole", "read")
  /\ roles' = IF roles[jobs[r].on] # NotThere /\ Named(jobs[r].to) \subseteq {jobs[r].on}
              THEN [roles EXCEPT ![jobs[r].on] = [name |-> jobs[r].to, permissions |-> jobs[r].rights]]
              ELSE roles
  /\ Finish(r) /\ UNCHANGED <<accounts, managedBy, managersOn, asked, overlapped>>

Deletable(role) == role # NotThere /\ ~IsDefault(role)
CountBeforeDelete(r) ==
  /\ Is(r, "deleteRole", "admitted")
  /\ IF Deletable(roles[jobs[r].on]) /\ CountUsers(jobs[r].on) = 0
     THEN jobs' = [jobs EXCEPT ![r].stage = "read"]
     ELSE Finish(r)
  /\ UNCHANGED <<roles, accounts, managedBy, managersOn, asked, overlapped>>
DeleteRole(r) ==
  /\ Is(r, "deleteRole", "read")
  /\ roles' = [roles EXCEPT ![jobs[r].on] = NotThere]
  /\ Finish(r) /\ UNCHANGED <<accounts, managedBy, managersOn, asked, overlapped>>

(***************************************************************************)
(* Accounts.                                                               *)
(***************************************************************************)
\* Without a password of its own, the account has to choose one first.
CreateUser(r) ==
  /\ Is(r, "createUser", "admitted")
  /\ \E mustChange \in BOOLEAN, role \in Named(jobs[r].to) :
       accounts' = IF accounts[jobs[r].on].state = "unborn"
                   THEN [accounts EXCEPT ![jobs[r].on] = [state |-> "there", role |-> role, mustChange |-> mustChange]]
                   ELSE accounts
  /\ Finish(r) /\ UNCHANGED <<roles, managedBy, managersOn, asked, overlapped>>

\* The built-in administrator must keep a role that can still administer.
AssignableTo(a, role) == a = System => "roles:write" \in roles[role].permissions
ReadForAssign(r) ==
  /\ Is(r, "assignRole", "admitted")
  /\ IF There(jobs[r].on) /\ \E role \in Named(jobs[r].to) : AssignableTo(jobs[r].on, role)
     THEN jobs' = [jobs EXCEPT ![r].stage = "read",
                               ![r].row = [accounts[jobs[r].on] EXCEPT !.role = CHOOSE role \in Named(jobs[r].to) : TRUE]]
     ELSE Finish(r)
  /\ UNCHANGED <<roles, accounts, managedBy, managersOn, asked, overlapped>>
AssignRole(r) ==
  /\ Is(r, "assignRole", "read")
  /\ accounts' = IF There(jobs[r].on) THEN [accounts EXCEPT ![jobs[r].on] = jobs[r].row] ELSE accounts
  /\ Finish(r) /\ UNCHANGED <<roles, managedBy, managersOn, asked, overlapped>>

\* The purge takes both ends of the account's assignments with it.
DeleteUser(r) ==
  /\ Is(r, "deleteUser", "admitted")
  /\ IF There(jobs[r].on) /\ jobs[r].on # System
     THEN /\ accounts' = [accounts EXCEPT ![jobs[r].on].state = "gone"]
          /\ managedBy' = [a \in Accounts |-> IF a = jobs[r].on THEN {} ELSE managedBy[a] \ {jobs[r].on}]
     ELSE UNCHANGED <<accounts, managedBy>>
  /\ Finish(r) /\ UNCHANGED <<roles, managersOn, asked, overlapped>>

ChangePassword(a) ==
  /\ There(a) /\ mustChangePassword(a)
  /\ accounts' = [accounts EXCEPT ![a].mustChange = FALSE]
  /\ UNCHANGED <<roles, managedBy, managersOn, asked, overlapped, jobs>>

(***************************************************************************)
(* Managers.                                                               *)
(***************************************************************************)
MayManage(a, m) == m # a /\ There(m) /\ rightsOf(m) # {}
CheckManagers(r) ==
  /\ Is(r, "setManagers", "admitted")
  /\ IF There(jobs[r].on) /\ \A m \in jobs[r].to : MayManage(jobs[r].on, m)
     THEN jobs' = [jobs EXCEPT ![r].stage = "read"]
     ELSE Finish(r)
  /\ UNCHANGED <<roles, accounts, managedBy, managersOn, asked, overlapped>>
SetManagers(r) ==
  /\ Is(r, "setManagers", "read")
  /\ managedBy' = [managedBy EXCEPT ![jobs[r].on] = jobs[r].to]
  /\ Finish(r) /\ UNCHANGED <<roles, accounts, managersOn, asked, overlapped>>

SetEnabled(r) ==
  /\ Is(r, "switch", "admitted")
  /\ managersOn' = jobs[r].on
  /\ Finish(r) /\ UNCHANGED <<roles, accounts, managedBy, asked, overlapped>>

\* What is booked, read or set for an account changes nothing here; Bookings follows it.
Serve(r) ==
  /\ jobs[r].op \in {"book", "read", "workingTimes"}
  /\ Finish(r) /\ UNCHANGED <<roles, accounts, managedBy, managersOn, asked, overlapped>>

AccessInit ==
  /\ \E custom \in {NotThere} \union [name : CustomNames, permissions : CustomRights \ {{}}] :
       roles = [id \in RoleIds |-> IF id = CustomRole THEN custom
                                   ELSE [name |-> id, permissions |-> DefaultRoles[id]]]
  /\ \E first \in SUBSET (Accounts \ {System}) :
       accounts = [a \in Accounts |-> [state |-> IF a \in first \union {System} THEN "there" ELSE "unborn",
                                      role |-> IF a = System THEN "admin" ELSE "manager", mustChange |-> FALSE]]
  /\ managedBy = [a \in Accounts |-> {}]
  /\ managersOn = TRUE /\ asked = 0 /\ overlapped = FALSE
  /\ jobs = [r \in Requests |-> NoJob]

AccessStep(r) ==
  \/ Admitted(r) \/ CreateRole(r) \/ ReadForUpdate(r) \/ UpdateRole(r) \/ CountBeforeDelete(r) \/ DeleteRole(r)
  \/ CreateUser(r) \/ ReadForAssign(r) \/ AssignRole(r) \/ DeleteUser(r)
  \/ CheckManagers(r) \/ SetManagers(r) \/ SetEnabled(r) \/ Serve(r)
AccessNext == (\E r \in Requests : AccessStep(r)) \/ (\E a \in Accounts : ChangePassword(a))
AccessSpec == AccessInit /\ [][AccessNext]_accessVars

(***************************************************************************)
(* Properties.                                                             *)
(***************************************************************************)
\* Every row and every request keeps its type.
AccessTypeOK ==
  /\ roles \in [RoleIds -> [name : CustomNames \union DOMAIN DefaultRoles, permissions : (SUBSET AllPermissions) \ {{}}] \union {NotThere}]
  /\ accounts \in [Accounts -> [state : {"unborn", "there", "gone"}, role : RoleIds, mustChange : BOOLEAN]]
  /\ managedBy \in [Accounts -> SUBSET Accounts] /\ managersOn \in BOOLEAN /\ asked \in 0..MaxRequests
  /\ \A r \in Requests : jobs[r] # NoJob => jobs[r].by \in Accounts /\ jobs[r].stage \in {"admitted", "read"}

\* The roles the application ships with stand as they were shipped, under their names,
\* whatever overlaps: nothing renames, empties, replaces or deletes one (UpdateRole,
\* DeleteRole, and the UNIQUE name against taking a shipped one's).
ShippedRolesStand ==
  \A id \in DOMAIN DefaultRoles : Named(id) = {id} /\ roles[id].permissions = DefaultRoles[id]

\* The built-in administrator is never deleted, and one way back in is always left: with
\* its role gone or changed it still reaches the installation's settings.
SystemStays == RequireInstallationAdmin(System)

\* What the screens list and what the checks let through are the same: a manager is shown
\* exactly the accounts and rights the checks honour (Team, Reaches), and a managed
\* account is shown exactly the managers who reach it (ManagersOf).
ListsAgree ==
  \A m, a \in {x \in Accounts : There(x)} : \A right \in TeamPermissions :
    /\ (<<a, right>> \in Team(m)) <=> Reaches(m, a, right)
    /\ (<<m, right>> \in ManagersOf(a)) <=> Reaches(m, a, right)

\* As long as requests do not overlap, no account is left with a role that is gone
\* (DeleteRole counts, then deletes, in separate statements).
RolesInUse == overlapped \/ \A a \in Accounts : There(a) => roles[accounts[a].role] # NotThere

\* Roles stay what the checks take them for: the shipped ones as they were shipped, the
\* built-in administrator with a way in, the lists and the checks of one mind about who
\* reaches whom; and, until two requests overlap, no account is left with a role that is
\* gone (UpdateRole, DeleteRole, RequireInstallationAdmin, Team, Reaches).
RolesStand == AccessTypeOK /\ ShippedRolesStand /\ SystemStays /\ ListsAgree /\ RolesInUse

\* A right that was withdrawn is refused from the next request on: what a request is
\* admitted for, its caller's account holds at that moment, by a role that is there, and
\* an account that has to choose a password first is admitted for nothing but the settings.
AdmittedByRight ==
  [][\A r \in Requests : jobs[r] = NoJob /\ jobs'[r] # NoJob =>
       LET by == jobs'[r].by IN
       /\ There(by)
       /\ jobs'[r].op # "switch" =>
            ~accounts[by].mustChange /\ roles[accounts[by].role] # NotThere
       /\ jobs'[r].op \in {"book", "read", "workingTimes"} /\ jobs'[r].on # by =>
            /\ managersOn /\ by \in managedBy[jobs'[r].on]
            /\ (IF jobs'[r].op = "book" THEN "timesheets:write:team" ELSE "timesheets:read:team")
                 \in roles[accounts[by].role].permissions]_accessVars
=============================================================================
