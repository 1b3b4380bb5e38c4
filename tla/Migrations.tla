----------------------------- MODULE Migrations -----------------------------
(***************************************************************************)
(* The schema's migrations, run in order at a start. A migration is a      *)
(* sequence of statements over the schema's objects and over the rows that *)
(* migrations rewrite: roles with their rights, the role of each account,  *)
(* the owner of each project and the entries booked on it. The process can *)
(* stop between any two statements, and an older release was in use at     *)
(* some of the versions on the way.                                        *)
(***************************************************************************)
EXTENDS Naturals, Sequences, FiniteSets, FiniteSetsExt

CONSTANTS
  Dialects,      \* the databases migrated: "sqlite", "postgres", "mysql"
  People,        \* accounts, as the numbers the database gave them
  Booked,        \* entries an older release may have recorded
  Releases,      \* versions at which an older release may have been in use
  OwnNames,      \* what people may call a role of their own
  Numbered,      \* Numbered[name][n]: a shipped name with a number after it
  MaxUses,       \* how often an older release was in use in between
  MaxStops       \* how often the process stops

VARIABLES
  dialect,
  db,            \* what is committed: schema, roles, members, owners, entries
  work,          \* what the open transaction sees
  timed,         \* the projects a running clock names: no migration writes running_timers
  applied,       \* how many migrations are recorded as run
  at,            \* the next statement of the one that runs, 0 when none does
  failed,        \* a statement was refused and the process stopped on it
  used,          \* how often an older release was in use
  stops

migrationVars == <<dialect, db, work, timed, applied, at, failed, used, stops>>

NoOwner == 0
Unset == ""

\* The names the program ships or shipped, those of them a role in the way is numbered
\* after, and the numbers that are tried.
Shipped == {"admin", "user", "user-admin", "manager", "employee", "employee-admin"}
InTheWay == {"user", "user-admin", "manager"}
Numbers == 2 .. 99

\* Accounts have a number from 1 on; a name with a number is nobody else's and none that is
\* shipped; and people did not use up all numbers of a name.
MigrationAssumption ==
  /\ People \subseteq Nat \ {NoOwner}
  /\ MaxUses \in Nat /\ MaxStops \in Nat
  /\ \A x \in InTheWay : \A n \in Numbers :
       /\ Numbered[x][n] \notin Shipped
       /\ \A y \in InTheWay : \A m \in Numbers : Numbered[x][n] = Numbered[y][m] => x = y
  /\ \A x \in InTheWay : \E n \in Numbers : Numbered[x][n] \notin OwnNames \cup {"clerk"}
ASSUME MigrationAssumption

\* What a role may be called, or an account's role before there are any.
Names == Shipped \cup {"clerk", "trainee", Unset} \cup OwnNames
           \cup UNION {{Numbered[x][n] : n \in Numbers} : x \in InTheWay}

\* Rights as the migrations and the shipped roles name them.
Administering == {"users:read", "users:write", "users:delete", "roles:read", "roles:write",
                  "settings:manage"}
Working == {"projects:read", "projects:write", "projects:archive", "projects:delete",
            "timesheets:read:own", "timesheets:write:own", "timesheets:transfer",
            "reports:read:own", "settings:write:own"}
Team == {"timesheets:read:team", "timesheets:write:team", "projects:write:team"}
Retired == {"timesheets:read:all", "timesheets:write:all", "timesheets:approve", "reports:read",
            "projects:write:own", "settings:write:other"}

DefaultRoles ==
  [role \in {"admin", "user", "user-admin", "manager"} |->
    CASE role = "admin" -> Administering
      [] role = "user" -> Working
      [] role = "user-admin" -> Working \cup Administering
      [] role = "manager" -> Working \cup Team]

\* What the first releases seeded, as far as the migrations that rewrite it say.
FirstRoles ==
  [role \in {"admin", "employee", "manager"} |->
    CASE role = "admin" -> (Administering \ {"settings:manage"}) \cup Working \cup Retired
      [] role = "employee" -> {"projects:read", "timesheets:read:own", "timesheets:write:own",
                               "reports:read:own", "settings:write:own", "projects:write:own"}
      [] role = "manager" -> Working \cup {"timesheets:approve", "reports:read"}]

Without(f, x) == [y \in DOMAIN f \ {x} |-> f[y]]
With(f, x, value) == [y \in DOMAIN f \cup {x} |-> IF y = x THEN value ELSE f[y]]

-----------------------------------------------------------------------------
\* The statements migrations are made of.
Make(object, needs) == [op |-> "make", what |-> object, needs |-> needs]
Table(table, refs) == Make(<<table, "">>, {<<r, "">> : r \in refs})
Column(table, column) == Make(<<table, column>>, {<<table, "">>})
Index(table, name) == Make(<<table, name>>, {<<table, "">>})
Drop(object) == [op |-> "drop", what |-> object]
Alter(object) == [op |-> "alter", what |-> object]
Rewrite(how) == [op |-> "rows", how |-> how]
GrantHolding(holds, grants) == [op |-> "grant", holds |-> holds, grants |-> grants]
GrantTo(role, grants) == [op |-> "grantTo", role |-> role, grants |-> grants]
Withdraw(rights) == [op |-> "withdraw", rights |-> rights]
Revoke(role, rights) == [op |-> "revoke", role |-> role, rights |-> rights]

firstRoleThatExists(d, names) ==
  LET there == {i \in DOMAIN names : names[i] \in DOMAIN d.roles}
  IN  IF there = {} THEN Unset ELSE names[Min(there)]

\* The everyday role under its old name or, failing that, its new one.
theOrdinaryRoleName(d) == firstRoleThatExists(d, <<"employee", "user">>)
theCombinedRoleName(d) == firstRoleThatExists(d, <<"employee-admin", "user-admin">>)

seedRole(d, role) == [d EXCEPT !.roles = With(@, role, DefaultRoles[role])]

aFreeRoleName(d, name) ==
  Numbered[name][Min({n \in Numbers : Numbered[name][n] \notin DOMAIN d.roles})]

setRoleName(d, from, to) ==
  IF from \notin DOMAIN d.roles THEN d
  ELSE [d EXCEPT !.roles = With(Without(@, from), to, d.roles[from]),
                 !.members = [a \in DOMAIN @ |-> IF @[a] = from THEN to ELSE @[a]]]

\* A renamed role takes its new name, and one of that name already there is moved aside.
renameRole(d, from, to) ==
  IF from \notin DOMAIN d.roles THEN d
  ELSE IF to \notin DOMAIN d.roles THEN setRoleName(d, from, to)
  ELSE setRoleName(setRoleName(d, to, aFreeRoleName(d, to)), from, to)

pointTheDirectoryAtTheRenamedRole(d) ==
  [d EXCEPT !.directory = CASE @ = "employee" -> "user"
                            [] @ = "employee-admin" -> "user-admin"
                            [] OTHER -> @]

bookersOf(d, project) == {d.entries[e].by : e \in {f \in DOMAIN d.entries : d.entries[f].on = project}}

\* A project's copy for somebody else who booked on it.
copyProjectTo(project, booker) == <<project[1], booker>>

sharedProjectIDs(d) == {p \in DOMAIN d.owners : d.owners[p] = NoOwner}

\* A slip: the copies are made, and the entries stay where they were.
splitProjectOnly(d, project) ==
  LET bookers == bookersOf(d, project)
      first == Min(bookers)
  IN  IF bookers = {} THEN [d EXCEPT !.owners = Without(@, project)]
      ELSE [d EXCEPT !.owners = [p \in DOMAIN @ \cup {copyProjectTo(project, b) : b \in bookers \ {first}} |->
                                  IF p = project THEN first
                                  ELSE IF p \in DOMAIN @ THEN @[p] ELSE p[2]]]

\* A shared project goes to the first who booked on it, everybody else who did gets a copy
\* with their entries, and one nobody booked on is removed.
splitProjectPerBooker(d, project) ==
  LET bookers == bookersOf(d, project)
      first == Min(bookers)
  IN  IF bookers = {} THEN [d EXCEPT !.owners = Without(@, project)]
      ELSE [d EXCEPT
             !.owners = [p \in DOMAIN @ \cup {copyProjectTo(project, b) : b \in bookers \ {first}} |->
                          IF p = project THEN first
                          ELSE IF p \in DOMAIN @ THEN @[p] ELSE p[2]],
             !.entries = [e \in DOMAIN @ |->
                           IF @[e].on = project /\ @[e].by # first
                           THEN [by |-> @[e].by, on |-> copyProjectTo(project, @[e].by)] ELSE @[e]]]

\* The rows a migration rewrites with statements of its own.
Rewritten(d, how) ==
  CASE how = "seedRoles" -> [d EXCEPT !.roles = IF d.first THEN FirstRoles ELSE DefaultRoles]
    [] how = "rolesByName" ->
         [d EXCEPT !.members = [a \in DOMAIN @ |->
            IF @[a] \in DOMAIN d.roles THEN @[a] ELSE IF d.first THEN "employee" ELSE "user"]]
    [] how = "reportsToTheAdministrator" ->
         [d EXCEPT !.roles = [name \in DOMAIN @ |-> IF name = "admin" THEN @[name] ELSE @[name] \ {"reports:read"}]]
    [] how = "moveManagers" ->
         [d EXCEPT !.members = [a \in DOMAIN @ |-> IF @[a] = "manager" THEN theOrdinaryRoleName(d) ELSE @[a]],
                   !.roles = Without(@, "manager")]
    [] how = "grantOrdinary" ->
         IF theOrdinaryRoleName(d) = Unset THEN d
         ELSE [d EXCEPT !.roles[theOrdinaryRoleName(d)] = @ \cup
                {"projects:write", "projects:archive", "projects:delete", "timesheets:transfer"}]
    [] how = "adopt" ->
         LET role == IF theOrdinaryRoleName(d) = Unset THEN "user" ELSE theOrdinaryRoleName(d)
             seeded == IF theOrdinaryRoleName(d) = Unset THEN seedRole(d, "user") ELSE d
         IN  [seeded EXCEPT !.members = [a \in DOMAIN @ |-> IF @[a] = Unset THEN role ELSE @[a]]]
    [] how = "seedCombined" -> IF theCombinedRoleName(d) = Unset THEN seedRole(d, "user-admin") ELSE d
    [] how = "splitProjects" ->
         FoldSet(LAMBDA project, rest : splitProjectPerBooker(rest, project), d, sharedProjectIDs(d))
    [] how = "renameRoles" ->
         pointTheDirectoryAtTheRenamedRole(
           renameRole(renameRole(d, "employee", "user"), "employee-admin", "user-admin"))
    [] how = "shipManager" ->
         IF "manager" \notin DOMAIN d.roles THEN seedRole(d, "manager")
         ELSE IF "timesheets:read:team" \in d.roles["manager"] THEN d
         ELSE seedRole(setRoleName(d, "manager", aFreeRoleName(d, "manager")), "manager")
    [] how = "copyEntries" -> [d EXCEPT !.spare = d.entries]
    [] how = "renameTable" -> [d EXCEPT !.entries = d.spare, !.spare = [e \in {} |-> 0],
                                 !.schema = (@ \ {<<"timesheets_new", "">>}) \cup {<<"timesheets", "">>, <<"timesheets", "status">>}]
    [] OTHER -> d

grantToAllRolesHolding(roles, holds, grants) ==
  [r \in DOMAIN roles |-> IF holds \in roles[r] THEN roles[r] \cup grants ELSE roles[r]]

\* PostgreSQL alone makes a key of the reference a clock's row has to its project, and keeps
\* the project as long as the row is there.
Referenced(project) == dialect = "postgres" /\ project \in timed

\* The projects the split deletes: everybody's, with nothing booked on them.
unclaimed(d) == {p \in sharedProjectIDs(d) : bookersOf(d, p) = {}}

\* Whether the database accepts a statement: nothing is created twice or without what it
\* refers to, nothing is dropped that is not there, and no row is deleted that another is
\* held to refer to.
Accepted(d, s) ==
  CASE s.op = "make" -> s.what \notin d.schema /\ s.needs \subseteq d.schema
    [] s.op \in {"drop", "alter"} -> s.what \in d.schema
    [] s.op = "rows" /\ s.how = "renameRoles" ->
         Cardinality(DOMAIN Rewritten(d, s.how).roles) = Cardinality(DOMAIN d.roles)
    [] s.op = "rows" /\ s.how = "splitProjects" -> \A p \in unclaimed(d) : ~Referenced(p)
    [] OTHER -> TRUE

\* What one statement leaves.
Effect(d, s) ==
  CASE s.op = "make" -> [d EXCEPT !.schema = @ \cup {s.what}]
    [] s.op = "drop" ->
         [d EXCEPT !.schema = {o \in @ : o # s.what /\ ~(s.what[2] = "" /\ o[1] = s.what[1])},
                   !.entries = IF s.what = <<"timesheets", "">> THEN [e \in {} |-> 0] ELSE @]
    [] s.op = "grant" -> [d EXCEPT !.roles = grantToAllRolesHolding(@, s.holds, s.grants)]
    [] s.op = "grantTo" ->
         [d EXCEPT !.roles = [r \in DOMAIN @ |-> IF s.role \in {r, "every"} THEN @[r] \cup s.grants ELSE @[r]]]
    [] s.op = "withdraw" -> [d EXCEPT !.roles = [r \in DOMAIN @ |-> @[r] \ s.rights]]
    [] s.op = "revoke" -> [d EXCEPT !.roles = [r \in DOMAIN @ |-> IF r = s.role THEN @[r] \ s.rights ELSE @[r]]]
    [] s.op = "rows" -> Rewritten(d, s.how)
    [] OTHER -> d

-----------------------------------------------------------------------------
\* The migrations, in the order of their versions.
firstTables == <<Table("users", {}), Column("users", "role"), Table("projects", {}), Table("timesheets", {"users", "projects"}),
                 Column("timesheets", "status")>>
firstIndexes == <<Index("timesheets", "user_date"), Index("timesheets", "project")>>
addRoleBasedAccess ==
  <<Table("roles", {}), Table("role_permissions", {"roles"}), Column("users", "role_id"),
    Column("users", "password_hash"), Column("users", "must_change_password"), Column("users", "is_system"),
    Column("users", "daily_target_hours"), Column("users", "max_daily_hours"),
    Rewrite("seedRoles"), Rewrite("rolesByName"), Drop(<<"users", "role">>)>>
addSessionsAndPreferences ==
  <<Table("sessions", {"users"}), Index("sessions", "user"), Index("sessions", "expiry"),
    Column("users", "totp_secret"), Column("users", "totp_enabled"), Column("users", "language"),
    Column("users", "is_external"), Rewrite("reportsToTheAdministrator")>>
makeProjectOptional ==
  IF dialect # "sqlite" THEN <<Alter(<<"timesheets", "">>)>>
  ELSE <<Table("timesheets_new", {"users", "projects"}), Rewrite("copyEntries"), Drop(<<"timesheets", "">>),
         Rewrite("renameTable"), Index("timesheets", "user_date"), Index("timesheets", "project")>>
createSettings == <<Table("settings", {})>>
addPrivateProjects ==
  <<Column("projects", "owner_id"), Index("projects", "owner"), GrantTo("every", {"projects:write:own"})>>
createAPITokens == <<Table("api_tokens", {"users"}), Index("api_tokens", "user")>>
addExternalIdentity == <<Column("users", "external_id"), Index("users", "external_id_index")>>
addUserTimezone == <<Column("users", "timezone")>>
addUserTourSeen == <<Column("users", "tour_seen")>>
createPasskeys == <<Table("passkeys", {"users"}), Index("passkeys", "user"), Index("passkeys", "credential")>>
createRunningTimers == <<Table("running_timers", {"users", "projects"})>>
separateSystemAdministration ==
  <<Revoke("admin", {"timesheets:read:all", "timesheets:write:all", "timesheets:approve", "reports:read",
                     "timesheets:transfer", "projects:write", "projects:delete", "projects:archive"}),
    GrantTo("manager", {"reports:read", "projects:delete"})>>
retireTheReviewPath ==
  <<Rewrite("moveManagers"), Withdraw({"timesheets:approve"}), Rewrite("grantOrdinary"),
    Drop(<<"timesheets", "status">>)>>
repairAccountsWithoutARole == <<Rewrite("adopt")>>
retireTheSeparateReportRight == <<Withdraw({"reports:read"})>>
handWorkingTimesToTheirOwners == <<Withdraw({"settings:write:other"})>>
giveEveryProjectAnOwner ==
  <<Rewrite("splitProjects"),
    GrantHolding("projects:write:own", {"projects:write", "projects:archive", "projects:delete"}),
    Withdraw({"projects:write:own"})>>
separateAdministeringFromWorking ==
  <<Rewrite("seedCombined"), Revoke("admin", Working \ {"timesheets:transfer"})>>
retireReadingEverybodysTime ==
  <<GrantHolding("timesheets:read:all", {"timesheets:read:own"}), Withdraw({"timesheets:read:all"}),
    GrantHolding("timesheets:write:all", {"timesheets:write:own"}), Withdraw({"timesheets:write:all"})>>
callTheEverydayRoleUser == <<Rewrite("renameRoles")>>
letAdministratorsReachTheSettings == <<GrantHolding("users:write", {"settings:manage"})>>
clearTheAdministratorsWorkingDay == <<Rewrite("administratorsTarget")>>
moveTheAppearanceOntoTheAccount == <<Column("users", "theme")>>
widenTOTPSecret == IF dialect = "sqlite" THEN <<>> ELSE <<Alter(<<"users", "totp_secret">>)>>
rememberWhenASessionWasLastUsed == <<Column("sessions", "last_seen_at"), Rewrite("lastSeen")>>
rememberWhenAnEntryWasBookedAndCorrected == <<Column("timesheets", "created_at"), Column("timesheets", "updated_at")>>
recordWhatEachDirectoryRunChanged == <<Table("directory_runs", {})>>
planTheWorkingWeek == <<Table("work_schedules", {"users"})>>
keepEntryTemplates == <<Table("entry_templates", {"users"})>>
recordAbsences == <<Table("absences", {"users"})>>
letEachPersonKeepTheirStatesHolidays == <<Column("users", "holiday_region")>>
letEachPersonCountEveryWorkingDay == <<Column("users", "every_day_counts_from")>>
keepTheYearlyLeave == <<Table("vacation_entitlements", {"users"})>>
giveProjectsAnHourBudget == <<Column("projects", "budget_hours")>>
keepCalendarFeeds == <<Table("calendar_feeds", {"users"})>>
linkOpenIDIdentities == <<Table("openid_identities", {"users"})>>
recordWorkingTimes == <<Table("work_days", {"users"})>>
keepWhatEntriesSaidBefore == <<Table("timesheet_revisions", {"timesheets", "users"})>>
findAnEntrysHistoryByTheEntry == <<Index("timesheet_revisions", "entry")>>
letABalanceHaveAnUpperBound == <<Column("users", "balance_upper_limit")>>
letABalanceHaveALowerBound == <<Column("users", "balance_lower_limit")>>
letSomebodySkipTheUnbookedDayReminder == <<Column("users", "skip_unbooked_reminder")>>
letSomebodyChooseWhenTheStopwatchIsMentioned == <<Column("users", "timer_alert_hours")>>
keepALogOfAdministration == <<Table("admin_events", {})>>
keepWhomEachManagerLooksAfter == <<Table("managed_accounts", {"users"})>>
rememberWhoBookedAnEntry == <<Column("timesheets", "recorded_by")>>
rememberWhoLastChangedAnEntry == <<Column("timesheets", "updated_by")>>
rememberWhoReplacedAVersion == <<Column("timesheet_revisions", "replaced_by")>>
shipTheManagerRole == <<Rewrite("shipManager")>>
letAProjectBeBillable == <<Column("projects", "billable")>>
giveAProjectAnHourlyRate == <<Column("projects", "hourly_rate")>>
giveAProjectACurrency == <<Column("projects", "currency")>>
placeEveryHolidayStateInGermany == <<Rewrite("holidayStates")>>

All ==
  <<firstTables, firstIndexes, addRoleBasedAccess, addSessionsAndPreferences, makeProjectOptional,
    createSettings, addPrivateProjects, createAPITokens, addExternalIdentity, addUserTimezone,
    addUserTourSeen, createPasskeys, createRunningTimers, separateSystemAdministration,
    retireTheReviewPath, repairAccountsWithoutARole, retireTheSeparateReportRight,
    handWorkingTimesToTheirOwners, giveEveryProjectAnOwner, separateAdministeringFromWorking,
    retireReadingEverybodysTime, callTheEverydayRoleUser, letAdministratorsReachTheSettings,
    clearTheAdministratorsWorkingDay, moveTheAppearanceOntoTheAccount, widenTOTPSecret,
    rememberWhenASessionWasLastUsed, rememberWhenAnEntryWasBookedAndCorrected,
    recordWhatEachDirectoryRunChanged, planTheWorkingWeek, keepEntryTemplates, recordAbsences,
    letEachPersonKeepTheirStatesHolidays, letEachPersonCountEveryWorkingDay, keepTheYearlyLeave,
    giveProjectsAnHourBudget, keepCalendarFeeds, linkOpenIDIdentities, recordWorkingTimes,
    keepWhatEntriesSaidBefore, findAnEntrysHistoryByTheEntry, letABalanceHaveAnUpperBound,
    letABalanceHaveALowerBound, letSomebodySkipTheUnbookedDayReminder,
    letSomebodyChooseWhenTheStopwatchIsMentioned, keepALogOfAdministration,
    keepWhomEachManagerLooksAfter, rememberWhoBookedAnEntry, rememberWhoLastChangedAnEntry,
    rememberWhoReplacedAVersion, shipTheManagerRole, letAProjectBeBillable, giveAProjectAnHourlyRate,
    giveAProjectACurrency, placeEveryHolidayStateInGermany>>
-----------------------------------------------------------------------------
None == [x \in {} |-> 0]
NoProject == <<0, 0>>
Shared == <<1, NoOwner>>          \* a project of everybody's, as older releases kept them

MigrationTypeOK ==
  /\ dialect \in Dialects
  /\ applied \in 0 .. Len(All)
  /\ at \in 0 .. 20
  /\ failed \in BOOLEAN /\ timed \subseteq {Shared}
  /\ used \in 0 .. MaxUses
  /\ stops \in 0 .. MaxStops
  /\ \A d \in {db, work} :
       /\ d.members \in [DOMAIN d.members -> Names] /\ DOMAIN d.members \subseteq People
       /\ DOMAIN d.roles \subseteq Names
       /\ \A name \in DOMAIN d.roles : d.roles[name] \subseteq Administering \cup Working \cup Team \cup Retired
       /\ \A e \in DOMAIN d.entries : e \in Booked /\ d.entries[e].by \in People

\* An empty database; "first" says whose code seeds it, an old release's or today's.
MigrationInit ==
  /\ dialect \in Dialects
  /\ \E first \in BOOLEAN :
       db = [schema |-> {}, roles |-> None, members |-> None, owners |-> None, entries |-> None,
             spare |-> None, directory |-> "employee", first |-> first]
  /\ work = db /\ timed = {}
  /\ applied = 0 /\ at = 0 /\ failed = FALSE /\ used = 0 /\ stops = 0

Running == All[applied + 1]
Definition(s) == s.op \in {"make", "drop", "alter"}

\* The runner opens a transaction for the next migration.
Begin ==
  /\ at = 0 /\ ~failed /\ applied < Len(All)
  /\ at' = 1 /\ work' = db
  /\ UNCHANGED <<dialect, db, timed, applied, failed, used, stops>>

\* One statement. MySQL ends the transaction at the first definition and commits each
\* statement after it; the other two keep all of them in the transaction.
execAll ==
  /\ at > 0 /\ at \in DOMAIN Running
  /\ LET s == Running[at]
     IN  IF Accepted(work, s)
         THEN /\ work' = Effect(work, s)
              /\ db' = IF dialect = "mysql" /\ \E i \in 1 .. at : Definition(Running[i]) THEN work' ELSE db
              /\ at' = at + 1
              /\ UNCHANGED failed
         ELSE /\ failed' = TRUE /\ at' = 0 /\ work' = db /\ UNCHANGED db
  /\ UNCHANGED <<dialect, timed, applied, used, stops>>

\* The migration is recorded as run in the transaction that ran it.
CommitMigration ==
  /\ at > 0 /\ at > Len(Running)
  /\ db' = work /\ applied' = applied + 1 /\ at' = 0
  /\ UNCHANGED <<dialect, work, timed, failed, used, stops>>

\* The process is stopped in the middle: what the transaction held is gone.
StopMigrating ==
  /\ at > 0 /\ stops < MaxStops
  /\ stops' = stops + 1 /\ at' = 0 /\ work' = db
  /\ UNCHANGED <<dialect, db, timed, applied, failed, used>>

\* An older release, whose migrations end here, was in use.
OlderRelease(then, clocks) ==
  /\ at = 0 /\ ~failed /\ db.first /\ applied \in Releases /\ used < MaxUses
  /\ used' = used + 1
  /\ db' = then /\ work' = then /\ timed' = clocks
  /\ UNCHANGED <<dialect, applied, at, failed, stops>>

\* Accounts were created, with the roles there are, or before roles with a word for one.
Hired ==
  \E roles \in [People -> IF applied < 3 THEN {"admin", "employee", "manager", "trainee"} ELSE DOMAIN db.roles] :
    OlderRelease([db EXCEPT !.members = roles], timed)

\* Somebody made a role of their own, as like as not under a name a later release ships.
NamedARole ==
  /\ applied >= 3
  /\ \E name \in OwnNames \ DOMAIN db.roles :
       OlderRelease([db EXCEPT !.roles = With(@, name, {"users:read"})], timed)

\* Somebody gave the everyday role another name: no shipped role but the administrator's is
\* protected from it.
RenamedTheEverydayRole ==
  /\ applied >= 3 /\ "employee" \in DOMAIN db.roles /\ "clerk" \notin DOMAIN db.roles
  /\ OlderRelease(setRoleName(db, "employee", "clerk"), timed)

\* Entries were booked, on a project of everybody's or, once that was possible, on none.
BookedEntries ==
  /\ applied >= 2 /\ applied < 19
  /\ \E by \in [Booked -> People], on \in [Booked -> {Shared} \cup (IF applied < 5 THEN {} ELSE {NoProject})] :
       OlderRelease([db EXCEPT !.entries = [e \in Booked |-> [by |-> by[e], on |-> on[e]]],
                               !.owners = With(@, Shared, NoOwner)], timed)

\* Somebody pressed start on a project of everybody's and has not pressed stop: the clock is
\* a row that names the project, and no entry yet.
KeptAClockRunning ==
  /\ applied >= 13 /\ applied < 19 /\ Shared \in DOMAIN db.owners
  /\ OlderRelease(db, {Shared})

MigrationNext ==
  \/ Begin \/ execAll \/ CommitMigration \/ StopMigrating
  \/ Hired \/ NamedARole \/ RenamedTheEverydayRole \/ BookedEntries \/ KeptAClockRunning

MigrationSpec == MigrationInit /\ [][MigrationNext]_migrationVars

-----------------------------------------------------------------------------
(***************************************************************************)
(* However a database came to today's version - created by this release,   *)
(* or carried up through older ones whose users renamed roles and made     *)
(* their own - the roles the program ships are there, the administrator's  *)
(* and the manager's with exactly the rights they ship with, no retired    *)
(* right is left on any role, and where nobody changed anything on the way *)
(* the roles are the ones a new installation has.                          *)
(***************************************************************************)
EndsShipped ==
  applied = Len(All) =>
    /\ {"admin", "user-admin", "manager"} \subseteq DOMAIN db.roles
    /\ db.roles["admin"] = DefaultRoles["admin"]
    /\ db.roles["manager"] = DefaultRoles["manager"]
    /\ \A name \in DOMAIN db.roles : db.roles[name] \cap Retired = {}
    /\ used = 0 => db.roles = DefaultRoles

(***************************************************************************)
(* No account comes out of the migrations without a role that exists: the  *)
(* manager role was taken away from under its holders, the everyday role   *)
(* was renamed, and roles were moved aside.                                *)
(***************************************************************************)
NobodyWithoutRole ==
  applied = Len(All) => \A a \in DOMAIN db.members : db.members[a] \in DOMAIN db.roles

(***************************************************************************)
(* No booked hour is lost on the way, not even while the table of entries  *)
(* is rebuilt, and when the projects have owners every entry is on a       *)
(* project of the account that booked it, or on none.                      *)
(***************************************************************************)
OwnEntries ==
  /\ at = 0 /\ dialect # "mysql" /\ DOMAIN db.owners # {} => DOMAIN db.entries = Booked
  /\ applied >= 19 => \A e \in DOMAIN db.entries :
       LET entry == db.entries[e]
       IN  entry.on = NoProject \/ (entry.on \in DOMAIN db.owners /\ db.owners[entry.on] = entry.by)

\* A clock runs on a project the split is about to delete, and the database will not have it.
ClockInTheWay == applied = 18 /\ \E p \in unclaimed(db) : Referenced(p)

(***************************************************************************)
(* Stopped at any statement, a start finds a database its migrations can   *)
(* continue from. Two things keep it from going on: MySQL, which ends a    *)
(* transaction at a definition, can be left half-way, and only by a stop;  *)
(* and PostgreSQL refuses to delete a shared project nobody booked on      *)
(* while a clock runs on it (splitProjectPerBooker).                       *)
(***************************************************************************)
NothingFails == failed => (dialect = "mysql" /\ stops > 0) \/ ClockInTheWay

(***************************************************************************)
(* An upgrade, wherever it was stopped and whatever was in use on the way, *)
(* leaves the roles that ship, everybody a role, every booked hour on a    *)
(* project of its own account's, and a database it can continue from but   *)
(* for the two cases NothingFails has.                                     *)
(***************************************************************************)
UpgradeKeepsEverybody ==
  MigrationTypeOK /\ EndsShipped /\ NobodyWithoutRole /\ OwnEntries /\ NothingFails

(***************************************************************************)
(* "A shared project with no bookings at all is deleted." A start that     *)
(* cannot go on leaves none behind (giveEveryProjectAnOwner's comment).    *)
(***************************************************************************)
UnclaimedProjectsGo == failed => unclaimed(db) = {}
=============================================================================
