# A verification of go-time-recording

TLA+ models of go-time-recording: of the server, from its migrations and its first start
to the replacement of its binary, of the requests that overlap in it, and of the terminal
client beside it. TLC checks the models on small instances; the theorems in the
`*_proofs` modules hold for every size and are checked by TLAPS.

The server is a REST application on GoFr. Every request runs in a goroutine of its own.
The services take few locks and open few transactions: a request reads rows, decides, and
writes with a later statement. Most of what follows is about what another request, a
crash, a failed statement or the passing of time may do between two such steps.

## The system

| Part | State it keeps | Operations | What is hard about it |
| --- | --- | --- | --- |
| Time entries (`timesheet_application_service.go`, `domain/service/timesheet_service.go`) | `timesheets`, `timesheet_revisions` | book, correct, transfer, delete, history, reports | limits and ownership are checked on rows read earlier; each correction must keep the version it replaces |
| Projects (`project_application_service.go`) | `projects` | create, update, archive, delete | counted first, deleted later; one owner each |
| Stopwatch (`timer_application_service.go`) | `running_timers`, one row per account | start, stop, switch, adjust, discard | the same clock is worked from the browser, the terminal and the telephone |
| Sign-in (`session_application_service.go`, `auth_application_service.go`) | `sessions`, password and second factor in `users`, spent codes in the process | sign in and out, change and reset password, enrol, confirm, remove the second factor | a sign-in is slow by design; whole-row writes; a code is good once; two deadlines read through a cache |
| Accounts (`user_application_service.go`, `sqldb/purge.go`) | `users` and every table that refers to it | create, edit, working times, delete with everything recorded | one transaction over many tables |
| Settings and limits (`settings_*.go`, `limits_provider.go`) | `settings`, caches, what waits for a restart | change, read, invalidate | a cached value is stale; a setting stored now is used at the next start |
| Roles and teams (`role_…`, `team_application_service.go`, `authz.go`) | `roles`, `managed_accounts` | create, edit, delete, assign, reach | rights that change during a request; the last administrator |
| Keys (`apitoken_…`, `calendar_feed_…`) | `api_tokens`, `calendar_feeds` | issue, replace, revoke, use | the key, its owner and the owner's role are read one after the other |
| OpenID, passkeys, Kerberos | pending ceremonies in the process, links | begin, finish, link, unlink | two requests with anything in between; expiry against a late answer |
| Directory synchronisation (`ldapsync_application_service.go`, `directory_account.go`) | accounts, the record of runs | preview, run by hand and on schedule, sign in | a directory that answers half; deletions that cannot be undone |
| The door (`middleware/security.go`, `csrf.go`) | buckets in the process, a cookie | count, refuse, let through | a window's edge; whose address a request has |
| Week copy and imports (`timesheet_week_copy.go`, `*workbook*`) | the tables they write | plan, apply | what was planned is applied to rows that have changed; a file that fails half way |
| Overtime, vacation, absences, holidays, working days | rows of their own | calculate | the same figure worked out in several places; calendar arithmetic at its edges |
| Log (`logsink`) | two pipes, a ring | write, follow, restore | a reader that is slower than the writer; the last lines of a process |
| Update, restart, maintenance (`selfupdate`, `imageupdate`, `update_handler.go`, `announce`) | files, a lock, a shared directory, announcements, the switch | download, swap, roll back, ask, answer, tell | a crash between any two steps; a second administrator; a page that was away |
| Migrations (`migration.go`) | the schema, roles, project owners | every migration in order | databases without transactional DDL; a start that stops half way; releases in between |
| Start and installer (`cmd/main.go`, `installer.go`, `seal.go`, `storagezone_…`) | the datasource file, the canary of the key, the pinned zone, the first session | start, install, seal, claim | another key or zone at the next start; two browsers at the installer |
| Terminal client (`interface/cli`) | what its screen shows | read, change, tick, a command line | answers in any order; the exit code is all a script sees |
| In-memory persistence, TLS listener, exports, web and mobile front ends | - | - | not modelled, see below |

Components call each other as Go functions and share the database. A stop of the
stopwatch books through `CreateTimesheet`; deleting a project asks both entries and
clocks; deleting an account purges what all of them keep; a directory run and a sign-in
write the same accounts; the update handler speaks to the pages through the hub that
maintenance uses too. Only the image's updater is another process, and it is spoken to
through files.

What makes each part correct is stated by its properties, below.

## The modules

One action is one SQL statement or one transaction, one file operation, one turn of a
lock, or a run of reads that only the next step can use, together with the checks the
code makes on what it returned. A request between two of them is a record: the operation,
the stage it has come to, and what it read, however stale that is by then. A check the
code makes is a conjunct of the action, and a request whose check fails ends. Rows are
reduced to the columns the properties tell apart. Names are the code's where TLA+ allows
it. Libraries, databases, Docker, the directory, the provider and the operating system
are external: they enter as choices over what they may answer.

| Module | What it models | Source |
| --- | --- | --- |
| `Bookings` | entries, versions, projects, clocks as far as they hold on to projects, accounts and limits, under concurrent requests | `timesheet_*`, `project_*`, `timer_repository.go`, `purge.go`, `authz.go` |
| `Stopwatch` | one person's clock under concurrent clients, with the time | `timer_application_service.go`, `timer_model.go` |
| `SignIn` | one account's password, second factor and sessions under concurrent requests | `session_application_service.go`, `auth_application_service.go`, `totp.go` |
| `SessionClock` | a session's expiry and idle deadline, the coarse recording of its last use, the cached timeout | `session.go`, `limits_provider.go`, `settings_operational.go` |
| `Access` | roles, their assignment, managers, and the checks of every route | `authz.go`, `role_*`, `team_application_service.go`, `permission_model.go` |
| `Keys` | API tokens and calendar feeds, issued, revoked and used | `apitoken_*`, `calendar_feed_*` |
| `Gate` | body size, limiter, cross-site check | `security.go`, `csrf.go` |
| `Ceremonies` | OpenID, passkeys, Kerberos, links to accounts | `pending.go`, `openid_*`, `passkey_*`, `kerberos_login.go`, `signin.go` |
| `DirectorySync` | previews and runs, sign-ins of directory accounts, the identifier attribute | `ldapsync_*`, `directory_account.go`, `settings_ldap.go`, `ldap.go` |
| `Migrations` | all migrations, statement by statement, on three dialects | `migration.go` |
| `Startup` | from the datasource to serving: installer, probe, zone, key, sealing, first account and session | `main.go`, `installer.go`, `seal.go`, `sealed.go`, `storagezone_…`, `setup_handler.go` |
| `NextStart` | what a restart will use: telemetry, log level, schedule, connection, and which of them are pending | `telemetry*.go`, `settings_telemetry.go`, `settings_datasource.go`, `restart_*.go` |
| `SelfUpdate` | the replacement of the binary, the clearing up, the rollback | `selfupdate/*.go`, `update_handler.go` |
| `ImageUpdate` | the request to the updater beside the container, and its answer | `imageupdate.go`, `update_handler.go`, `deploy/update/updater.sh` |
| `Notices` | the hub of announcements, event streams, the maintenance switch and its cache | `announce.go`, `event.go`, `maintenance.go`, `settings_maintenance.go` |
| `LogSink`, `LogTail` | pipes, goroutines and ring; and what they promise a reader | `logsink.go`, `parse.go`, `log_handler.go` |
| `Holidays` | the calendar, Easter, the rules of seven countries that between them use every kind of rule | `holiday_*.go` |
| `WorkCalendar` | planned weeks, absences, balances, reminders, vacation years | `overtime_*`, `vacation_*`, `absence_*`, `workschedule_*`, `workweek_model.go` |
| `WorkDays` | when somebody worked, shifts over midnight, the working-time notices | `workday_*` |
| `Workbooks` | the four imports and the copied week | `*_workbook_service.go`, `sheet_*.go`, `timesheet_week_copy.go` |
| `Terminal` | the screen's reads, changes and second hand; the command line | `interface/cli/*.go` |
| `MCBookings`, `MCStopwatch` | one component, with what several of its instances are bound to | |
| `MCPerson` | `SignIn`, as two instances of it, and `MCStopwatch` | |
| `MCInstallation`, `MCEventually`, `MCAccess`, `MCRecords` | several components | |
| `Bookings_proofs`, `Stopwatch_proofs` | theorems and proofs about these two | |
| `Access_proofs` | about `Access`, `Gate` and `SignIn` | |
| `Accounts_proofs` | about `Ceremonies`, `Keys` and `DirectorySync` | |
| `Installation_proofs` | about `NextStart`, `Startup` and `Migrations` | |
| `Running_proofs` | about `LogSink` and `LogTail`, `Notices`, `SessionClock`, `Terminal`, `SelfUpdate` and `ImageUpdate` | |
| `Records_proofs` | about `WorkCalendar` and `WorkDays` | |
| `Workbooks_proofs` | about `Workbooks` | |

An MC module has a variable `part`: a behaviour follows one component, or one instance of
it with its own constants, from its initial state to the end, while the others stand
still. Components put together in that way share no variable, so nothing is lost by
following them one at a time, and each distinct question still has one run.

A property that says several things of one component is a conjunction of named parts
(`RunsKeepTheirWord == WithinWhatWasAgreed /\ RemovalsOnRecord /\ ...`); each part has a
comment of its own where it is defined, and the module's type predicate is the first of
them where there is one. Operators whose comment begins with "A slip" are not used by any
specification: each is a plausible mistake in the operator that follows it, and the
property it is listed with in `PROJECT.json` fails when it takes that operator's place.

### Bookings, Stopwatch, SignIn

In `Bookings` the variables are the tables. Ids are never issued twice (`issued`, the
status "unborn"). `EnforceFK` says whether the database enforces the references the schema
declares: PostgreSQL does, SQLite and MySQL as configured here do not, and the comments in
the source count on both. `Manages` is who may write for whom, which the handlers ask
through `requireOwner` and `requireOwnEntry`. Authentication is on; the mode without it has
no "whose" to speak of. `InTurn` is `Next` for requests that do not overlap.

| Action | Code |
| --- | --- |
| `BookEntry`, `CheckBudget`, `InsertEntry` | `CreateTimesheet`, `checkDailyBudget`, `Save` |
| `Authorise`, `ReadForUpdate`, `CheckTarget`, `CheckBudget`, `ReplaceEntry` | the update handler, `UpdateTimesheet`, the transaction of `TimesheetRepository.Update` |
| `ReadForTransfer`, `CheckTransferTarget`, `ReplaceEntry` | `TransferTimesheetToProject` |
| `ReadForDelete`, `RemoveEntry` | `DeleteTimesheet`, `TimesheetRepository.Delete` |
| `CreateProject`, `ReadProject`, `WriteProject` | `CreateProject`, `UpdateProject`, `ArchiveProject` |
| `ReadForDrop`, `CountEntries`, `CountClocks`, `DropProject` | the four statements of `DeleteProject` |
| `CheckClock`, `StartClock`, `ClearClock` | `requireStartable`, `TimerRepository.Start`, `Clear` |
| `DeleteUser`, `PurgeUser` | `DeleteUser`, the purge transaction |
| `SetLimits` | the administered limit and one's own |

In `Stopwatch`, `clock` is the row of `running_timers`. A clock is given an identity the
table does not hold, so that it can be said what became of it (`booked`, `given`). Time is
in whole seconds, as `readClock` truncates it. Booking is one step here; what it checks is
`Bookings`' business. `Modes` says which behaviours there are, and `mode` which of them this
one is: whether requests may overlap, and whether one may end after any statement.

In `SignIn` a password is the hash on the row; hashes are salted, so each one written is
new and they are numbered in order. `WritePassword` and `WriteEdit` are the same `UPDATE`
of every column and write back whatever was read. `spendTOTP`'s turn of the lock is one
action; `spent` is the map in the process and is lost on `Restart`. A session carries,
beside its row, the password it was opened with (`under`) and whether anybody was handed
its token (`handed`): a session that `Login` opens and removes again is nobody's.

### From one start to the next

`Migrations` holds each migration as a sequence of statements over tables, columns, roles,
accounts, projects and entries. `dialect` decides what a stop leaves: PostgreSQL and SQLite
roll the open migration back, MySQL keeps what ran from the first definition on, and the next
start runs the migration again from its first statement. `OlderRelease` is somebody using the
release that shipped at one of `Releases`; `OwnNames` is what they call roles of their own,
and `Numbered` the names a role in the way is moved aside to. `timed` is the shared projects a
running clock names: no migration reads or writes `running_timers`, so it changes only in the
hands of an older release, and PostgreSQL alone makes a key of the reference (`Referenced`).
There the split of the shared projects cannot delete one nobody booked on while a clock runs on
it; on SQLite and MySQL it can, and leaves the clock on a project that is gone.
`NothingFails` says when a start may be refused a statement: on MySQL after a stop, and with
such a clock on PostgreSQL (`ClockInTheWay`). `Startup` gives each start a key and a zone of
its own; what was sealed, pinned or written stays. `unread` is the credentials whose setting
this start failed to read when it went to seal them: `sealSettingSecret` passes over them, where
a second factor that cannot be read, or anything that cannot be written, ends the start. A
setting that does not parse is passed over in the same way and is not modelled. `NextStart` has four sources of a
setting: the file, the environment, the database and the running process.

In `SelfUpdate` files are named by what they hold (a version, broken or whole), and every
rename, removal and download is a step that a `Crash` may follow. `ImageUpdate` has the
three files of the shared directory as variables, the handler and its watching goroutine on
one side and the shell script on the other; `Faults` says who may stop. `Notices` keeps per
page what it has been sent and has read; a page whose buffer overflows is `overrun` and
connects again. In `LogSink` the two goroutines take a line and store it under the lock as
separate steps, so that the order of numbers and the order of writing differ; `LogTail` has
only how far the process has written, how far somebody has read and what they were told,
and `FollowsTheTail` is the refinement. A line carries the time it was
written at, or, where it has none of its own, the time it was read at (`stamped`).

`SessionClock` is about when, `SignIn` about whether: one row with its expiry and last use,
the setting, the cache with the time it was filled, and requests that take time.

### Who may do what

`Access` admits a request by reading the caller's account and role (`Admit`), serves it with
later statements, and lets roles, assignments, passwords and managers change in between.
`Keys` has the three lookups of a presented key as three steps. `Gate` keeps the buckets of
the limiter by client and window, and tokens of the cross-site cookie by who issued them.
`Ceremonies` keeps the pending store with the time each promise was made; the provider's
and the device's verdict is a choice. `DirectorySync` has the directory as people who are
in or out and hold an address, and the accounts as rows that are external or local; the
lock, the share that may be deleted, the confirmation and the record are the code's.

### Somebody's records

`Holidays` writes days as numbers, so that a weekday is a remainder; Easter is checked
against the lunar tables, which are written down independently of the code's formula.
`WorkCalendar` works every figure out anew, as the code does, by each of its ways.
`WorkDays` joins days that meet at midnight into shifts. `Workbooks` plans a file against
the store and applies it later, entries and weeks in one transaction, sheets row by row;
`Meddle` is anybody else in between. `Terminal` has the reads and changes that are on their
way as slots that answer in any order.

## What the runs check

Six runs hold. All need two or three of everything; the bounds are in the `.cfg` files.
`CHECK_DEADLOCK FALSE` is in every configuration because the system may rest: the pools of
ids, tokens, lines and time are finite, and nobody has to ask for anything once they are
used up.

| Run | Property | What it says |
| --- | --- | --- |
| `bookings` | `TypeOK` | every column and every request in flight holds what it may hold |
| | `OnOwnProject` | no entry, version or clock is ever on somebody else's project, whoever writes for whom meanwhile |
| | `NoOrphans` | no row is left without the rows it refers to: always, where references are enforced; where they are not, while requests do not overlap and nobody writes for somebody else |
| | `HistoryKept` | each correction keeps the version it replaced |
| | `DailyCap` | while requests do not overlap, no step takes a day over the limit in force |
| `person` | `Measured` | what becomes an entry is a span that passed, not too short and not over a day |
| | `OneClientAccounts` | for one client, each clock becomes one entry or is given up |
| | `NoClockComesBack` | a clock that stopped never runs again |
| | `SwitchMeets` | a switch leaves no gap and no overlap |
| | `FactorProven` | a second factor in force was proven with a code of its own |
| | `NoStaleSession`, `NoPasswordReturns` | no handed-out session outlives its password; no replaced password returns |
| | `CodeSpentOnce` | a code is accepted once |
| `installation` | `UpgradeKeepsEverybody` | an upgrade, wherever it was stopped, ends with the shipped roles, everybody with a role, every hour on its owner's project, and is refused a statement in the two named cases only |
| | `StoredMeansTheSame` | connection, secrets and times mean in every later start what they meant when they were entered, and with a key nothing lies in the clear but what could not be read to be sealed |
| | `RestartHoldsNoSurprise`, `StartsAsCold` | what a restart would change is listed as pending, and it comes up as a cold start would |
| | `UpdateLeavesAProgram` | wherever an update stops, a whole program is left and nobody is told to wait |
| | `OwnAnswer` | an image update's notice is taken back on the answer to its own request only |
| | `ScreensAgree` | every page that kept up shows what stands |
| | `WholeAndInOrder`, `FollowsTheTail` | the log's last lines reach the console, pages are in order, and the ring implements `LogTail` |
| | `LastsWhileUsed` | a session in use is not ended as idle, an idle one serves nothing, a changed timeout takes hold |
| `eventually` | `NoticeComesDown` | the notice of a press that found nothing of an earlier request under way comes down, whatever fails and whatever is pressed after it |
| | `GateSettles` | requests are held to the maintenance switch once it rests |
| | `PipesEmpty` | the log's pipes run empty |
| | `SessionEnds` | every session ends |
| | `ScreenCatchesUp` | the terminal's screen shows what the installation holds |
| `access` | `RolesStand` | shipped roles stay as shipped, the built-in administrator keeps a way in, lists and checks agree, no role in use is deleted while requests do not overlap |
| | `AdmittedByRight` | a withdrawn right is refused from the next request on |
| | `KeysAreTrue` | a key is answered for what it is, within the limit, and its use shows |
| | `DoorIsFair` | who tries too often is held back and nobody else; only this installation's pages may act |
| | `EndsWithWhoBegan` | a ceremony ends once, with the one who began it, at an identity of one account |
| | `RunsKeepTheirWord`, `AccountsStayPut` | a directory run deletes what was agreed and records it, and takes nobody's account away |
| `records` | `HolidaysAreKept` | Easter is right in 121 years, and no holiday of fourteen places is lost to a weekend |
| | `DaysAddUp` | every way of working out hours and vacation comes to the same |
| | `NoticesStandBesideTheirDay` | what the working-time act says stands beside the day the shift began |
| | `LeavesWhatItSays` | an import or a copied week leaves what its answer says |
| | `ExitCodeIsTrue` | a command that ends with 0 has done what it says |

Six runs are violated. Each states what a comment or a test says of the code, and the
finding in `PROJECT.json` quotes the line.

| Run | What it shows |
| --- | --- |
| `bookings_daily_cap_race` | two overlapping bookings take a day over its limit |
| `bookings_purge_refused` | an entry that changed owner stops the deletion of its new owner's account on PostgreSQL |
| `stopwatch_double_stop` | two overlapping stops book one clock twice |
| `signin_edit_race` | an edit that overlaps a password change brings the old password back |
| `workbooks_imported_again` | a file of projects with a row that names no start cannot be imported twice |
| `installation_running_clock` | on PostgreSQL a clock on a shared project nobody booked on keeps the program from starting: the migration that removes such projects is refused, at every start |

Disagreements between code and text that no run is about, although the models can show
them: a start with the first key that cannot read a setting goes on, and serves with its
credential in the clear (`seal.go:135`), where "setting the key for the first time encrypts
what is already" stored (`doc/security.md:115`); a press that is refused because an earlier
request, which nobody waits for any more, is being worked on leaves its notice standing
(`update_handler.go:623`), where "either way the restart announcement is taken back on every
screen" (`deploy/OPERATION.md:1181`). And smaller ones: any read that comes
back clears the terminal's `busy` (`screen.go:255`), which its comment keeps for the change
under way (`screen.go:69`); a list of working days that ends in the middle of a shift judges
it by what it has read (`workday_application_service.go:55`); an enrolment that overlaps a
confirmation removes the factor without its code (`session_application_service.go:586`);
two overlapping edits can archive a project that is no longer completed; and the handler's
comment on an import's rows differs from the service's (`workbook_handler.go:138`,
`workbook_application_service.go:355`).

### Where the properties end

What a passing run leaves out is where its property ends. `NoOrphans` does not survive two
requests without enforced references (an entry is booked between `DeleteProject`'s count and
its delete), nor somebody who writes for others: the purge of an entry's new owner takes the
entry and leaves the versions booked for its former one. `DailyCap` does not survive two
bookings of one day. `RolesInUse`, a part of `RolesStand`, is stated until two requests have
overlapped (`overlapped` remembers that they did). `HistoryKept` lets an account's deletion
take the versions that were booked for it, which may be versions of an entry that is
somebody else's by now. `BookedOnce` and `ClockAccountedFor` do not survive a second client.
`CodeSpentOnce` is about the codes the process still counts (`counted`): a restart and an
enrolment that forgets the spent step begin the count anew, as the map in the process does.
`NoStaleSession` needs edits that do not overlap a password change. `TokensBounded` counts
the requests that counted together. `HeldStays` excepts an account without an identifier
whose address changed, a run that overlapped a change of the identifier attribute
(`"stale"`), and an account somebody signed in to between a run's decision and its deletion
(`since`): these are deleted, or can be. `OneAccountEach` excepts somebody whom the
directory gave another address while their own sign-in or a run was under way (`"moved"`).
`NothingFails` has the two exceptions above, and `NothingInTheClear` excepts `unread`: the next
start whose read succeeds seals it. `NoticeComesDown` is about a press that found neither a
request nor an updater at work (`fresh`). One that did may be refused by `Ask` after it has
announced itself, or hear of success from the answer to the
earlier request while its own comes to nothing; either way its notice stands until something
else is announced or the application restarts.
`WholeAndInOrder` excepts a restore whose two seconds were not enough; its order is that of
the lines' times, and a line that brings no time has the one it was read at.
`ExitCodeIsTrue` is about the code alone, not the text.

### Why the bounds are enough to be interesting

Two requests are what every race needs, and two accounts, one of which may manage the other,
are what ownership needs. One entry and two projects let an entry move away and back; the
daily cap has two entries of one or two hours against a limit of two, so that exact fits,
overshoots and the limit "none" all occur. The clock has three time units against spans of
one to two: too short, bookable and too long. The second factor has two secrets and codes on
each side of the present. Migrations run on all three dialects, with a stop between any two
statements and older releases in use at two versions on the way, twice in all, so that a
shared project can have been booked on and left with a clock. Up to three requests for an image are placed
(`MaxRequests`; presses are not counted), so that a press can meet a request that was left
behind by a crash, by a deadline or by both. Three starts with two keys and three zones, two of
which keep the same offsets, let a start be refused and the next succeed. Three versions,
one of them broken, and two presses let a download be refused, swapped and rolled back. The
ring holds two lines and up to four are written, so that slots are overwritten while a
reader is away, and one page is shorter than the ring. The session's lifetime is longer than
its timeouts, one of which is below the smallest the code accepts. The directory has
somebody in it, somebody who left and somebody with a local account; eight beginnings vary
identifier, limit, runs, movements, sign-ins and faults. The identifiers an attribute gives
are numbers of which no two are the same. The limiter has a budget of two, of none and the
fallback, over three windows, and clears its buckets every second window where the code does
so every tenth (`Collects`). The years go from 1990 to 2110, over the century
without a leap day. Somebody's days lie around a turn of the year with a holiday in it.
Symmetry is over ids, tokens and request slots, which no operator tells apart; accounts are
not exchanged, because `Manages` is not symmetric.

### Fairness

Only `eventually` assumes any, and only of what runs by itself; no request has to be made.

* The application's and the updater's loops go on (`awaitTheImage` polls with a ticker up to
  a deadline; `updater.sh` is a loop), and a stopped updater starts again, as its container's
  restart policy says.
* Time passes (`Tick`, `ClockTick`); a request that has begun goes on to its end, because its
  statements have deadlines.
* The log's goroutines read their pipes until they are closed.
* The sweep of sessions runs on a timer, and a save drops the cache before it answers.
* The terminal's second hand ticks, and its calls answer or time out.

Weak fairness is enough everywhere: each of these is enabled until it happens. Nothing is
assumed of people, of the provider or of the directory.

## What is proved

The theorems hold for any sets of accounts, projects, entries, tokens, clients and requests
in flight and for any of the numbers the runs bound, from the assumptions their modules
name: `ConstantsAssumption` (in `Bookings` and `SignIn` each its own), `StopwatchAssumption`,
`AccessAssumption`, `KeysAssumption`, `GateAssumption`, `CeremonyAssumption`,
`SyncAssumption`, `StartAssumption`, `NextNamesAssumption`, `NextBoundsAssumption`,
`UpdateAssumption`, `SinkAssumption`, `NoticesAssumption`, `ClockAssumption`,
`TerminalAssumption`, `CalendarAssumption`, `WorkDaysAssumption`, `WorkbooksAssumption`,
`StoresAssumption` and `MigrationAssumption`. They say what kind of thing a constant is (a
number, a finite set, a name that is nobody's), of the names people gave to roles that a
number is left free after each name a migration moves a role away from, of the directory
that its identifiers are told apart and that accounts begin under the identifiers and
addresses it gave, and of the entries an installation begins with that none of its days is
over the cap. `Text` in `Workbooks` is the texts names, addresses and states are among; the
runs take all strings.

Each property but the actions' own is the last of a chain: an invariant that a step of every
action keeps, its type part first, and the property as a consequence. What is added to the
property, and why it has to be, is listed here.

`Bookings_proofs`

* `TypeCorrect`: `Spec => []TypeOK`. Not inductive by itself: a request's row and ids have
  to be there by the stage that uses them, so `TypeInv` adds that every request in flight
  is well formed for its stage.
* `OwnProjects`: `Spec => []OnOwnProject`. What is checked at one moment must still be true
  when it is written. It is, because a project's owner never changes: `OwnInv` adds that
  ids not yet issued have no owner, and that every request which has passed its check
  (`Pending`) still has an owned target, whatever happened since.
* `References`: with `EnforceFK`, `Spec => []NoOrphans`. Needs no more than the types: each
  write is held to the references by the database.
* `ReferencesInTurn`: `Manages = {} => (InTurnSpec => []NoOrphans)`, whatever the database
  enforces: the counts and reads of a request suffice where nothing comes between. `TurnInv`
  adds to `OwnInv` that what the one request has found out so far still holds when it writes
  (`FoundOut`), and that no entry has changed its owner (`VersionsOfTheOwner`), which is
  where nobody writing for somebody else is needed.
* `HistoryStays`: `Spec => HistoryKept`. `HistoryInv` adds that an entry is there only under
  an id that was handed out, so that a new one never writes over an old one's history.
* `DaysKeepToTheirLimit`: `InTurnSpec => DailyCap`, for requests that do not overlap;
  `bookings_daily_cap_race` is why not for `Spec`. `CapInv` adds that a booking or a
  correction that is about to be written still fits its day, that a transfer carries the
  day and the hours its entry has, and that the ids handed out are finitely many. The sum of
  a day is a fold over a set of entries; `SumExists`, `SumsAgree`, `HoursWith` and
  `HoursOfFewer` say that it is defined for every finite set, depends on nothing but the
  entries' hours nor on their order, and does not grow as entries go.

`Stopwatch_proofs`

* `SpansMeasured`: `Spec => []Measured`, with failures. The invariant adds what each request
  has read (`ReadAt`): a start read earlier is in the past, a span that passed its check
  still does, although another client may have moved the start meanwhile.
* `NoClockReturns`: `Spec => NoClockComesBack`, an action property, from the same invariant:
  only a start brings a clock, and it is a new one.
* `SwitchesMeet`: `Spec => SwitchMeets`, from the same invariant: the start a switch writes
  is the moment it read when it measured.
* `OneClientIsAccountedFor`: `Spec => []OneClientAccounts`. Where requests neither overlap
  nor fail, `AloneInv` adds that the one in flight still holds the clock that runs, that it
  has booked it by the time it clears it, and that no clock is booked twice.

`Access_proofs`

* `RolesKeepStanding`: `AccessSpec => []RolesStand`. `AccessInv` adds that each request in
  flight carries what its operation may have read (`JobsInv`), that no request which has
  passed its checks is about to touch a shipped role or the built-in administrator, and that
  nobody is their own manager. For the roles in use `AloneInv` adds, until two requests have
  overlapped, that what the one request found still holds when it acts on it.
* `AdmissionsAreByRight`: `AccessSpec => AdmittedByRight`, from the same.
* `DoorStaysFair`: `RequestsSpec => []DoorIsFair`. A client may get a window's budget just
  before a window's edge and another just after it, and the budget may be saved anew at any
  time. `DoorInv` adds what each client's bucket stands for (`Window`): it was opened with a
  request of the client's, holds all since, and of those before it no more lie within a
  window's length of it than the budget leaves room for. The requests in any length of time
  are then those of two buckets at most, which are counted with the library's theorems.
* `FactorsProven`: `Spec => []FactorProven`, with edits, failures and restarts. The invariant
  `Inv` adds that every row a request holds is as proven as the account's: a whole-row
  write may bring it back.
* `CodesAreSpent`: `Spec => []CodeSpentOnce`. `CountedSteps` adds that no counted code is of
  a later step than the one remembered as spent, which each later code has to pass.
* `SessionsFollowPassword` and `PasswordsStay`: with no overlapping edits and no failures,
  `Spec => []NoStaleSession` and `Spec => NoPasswordReturns`. The two conditions are needed:
  `signin_edit_race` breaks the first without edits excluded, and a reset that fails after
  its first statement leaves the sessions, as the code itself logs. `StaleInv` adds
  `TokensApart`: a session still being opened is under the password its sign-in read, was
  handed to nobody and is held by no other request - which is what makes `Login`'s second
  look at the account sufficient.

`Accounts_proofs`

* `CeremoniesEndWell`: `CeremonySpec => []EndsWithWhoBegan`. `CeremonyInv` adds that what was
  taken no longer waits (`TakenInv`), that nothing a sweep left was over by then
  (`SweepInv`), and that a request in the middle of a ceremony goes on with the account, the
  provider and the right that it found (`WorkInv`).
* `KeysStayTrue`: `KeysSpec => []KeysAreTrue`. `KeysInv` adds that rows are of keys that were
  made and of their owners (`RowsInv`), that a request that has come to a place has found
  what the places before it ask for (`CallInv`), and that tokens and the requests about to
  write one are together no more than the limit and the requests leave room for (`RoomInv`).
* `AccountsKept`: `SyncSpec => AccountsStayPut`. `RunsRight` has who holds the lock and what
  each run may have decided by where it is; `HeldInv` adds that identifiers are of the
  attribute in use, and that whom a run is about to delete the directory did not list, but
  for the exceptions.
* `RunsAreTrue`: `SyncSpec => []RunsKeepTheirWord`. `RecordInv` counts what was changed as
  what is on record and what runs still under way have deleted and created. `OnceInv` adds,
  until the directory has moved somebody under a request, that what was listed is as the
  directory has it and that no identifier about to be written stands at another account.

`Installation_proofs`

* `NoSurprise`: `NextStartSpec => []RestartHoldsNoSurprise` and `RestartIsCold`:
  `NextStartSpec => StartsAsCold`. `NextInv` adds that nothing is handed on through the
  environment, that tracing which is on has an address and which is stored off has none, and
  that without a datasource file the environment's connection is the one in use.
* `StoredStaysReadable`: `StartSpec => []StoredMeansTheSame`. `ConnectionInv` has what the
  installer handed on and that nobody can save another once the start goes on with it;
  `KeyInv` that each secret is sealed with the key the database was told or not at all, and
  that what a start has gone through is sealed, but for a credential it could not read, and
  never for a second factor; `ZoneInv` that the pinned zone is the one the first times were
  written in.
* `UpgradesKeepEverybody`: `MigrationSpec => []UpgradeKeepsEverybody`, for any accounts,
  entries and names of roles, any number of stops and of uses of older releases, and any set
  of dialects. `MigrationInv` says what holds of the committed database and of what the open
  transaction sees at each statement of each migration; `Since(v, p, i, k)`, that statement
  `k` of migration `i` has run where statement `p` after `v` migrations is next, turns its
  parts on and off. `Facts` has the rows: which roles there are (`RolesThere`), that accounts
  have one of them (`MembersRight`, with the gap between the statement that takes the first
  manager role away and the repair), which rights the administrator has got and lost and
  which are withdrawn from everybody (`RightsStand`), who owns the projects and that the
  entries are in the table or, while SQLite builds it again, in its copy (`EntriesThere`),
  and, where no older release was used, what the two everyday roles have (`AsShipped`).
  `SchemaRight` has the schema by the place of the statement that makes each object
  (`MadeAt`): nothing is there before its statement, and what others hang on (`Lasting`) is
  there from then on. That every one of the migrations' statements is accepted is
  `MigrationsSuit`, statement by statement, but for the one that the rows decide on: the split
  of the shared projects is accepted where no clock is in its way (`LetsGo`), and as it is the
  first statement of its migration (`SplitIsFirst`) it sees what is committed, so that a
  refusal leaves a database which shows why (`ClockInTheWay`). That the rows survive it is `StatementsAre`,
  which finds the ones that touch them, and a lemma for each of those: that roles are renamed
  into free names without two becoming one is `RolesAreRenamed`, that splitting the shared
  project leaves each entry on one of its own account's is `ProjectsHaveOwners`. What MySQL
  has committed of a migration that was stopped still satisfies `Facts` of its beginning
  (`FactsAreKept`), because none of the migrations for which it would not contains a
  definition (`NothingIsDefined`).

`Running_proofs`

* `LogIsFollowed`: `SinkSpec => FollowsTheTail`, the refinement of `LogTail`: the beginning
  maps to its beginning, and each step to one of its steps or to none. `SinkInv` has what
  the ring holds, slot by slot, where a screen's place is, and what a query has copied by the
  time it is answered.
* `LogIsWholeAndInOrder`: `SinkSpec => []WholeAndInOrder`. `OrderInv` adds that a query
  copied lines in the order of their numbers; that the place a line is given by
  counting those before it is taken by exactly one line is shown for every length of page.
* `NoticesReachEveryScreen`: `NoticeSpec => []ScreensAgree`. `NoticeInv` adds that of each
  subject one notice stands at most, and that a page shows, once it has read its queue, what
  stands (`Agrees`).
* `SessionLastsWhileUsed`: `ClockSpec => []LastsWhileUsed`. `ClockInv` has what a request has
  read by where it is (`Underway`), and, where nothing fails, by how much the recorded use
  and the timeout it goes by may be behind (`Recorded`, `Outdated`).
* `ExitCodesAreTrue`: `TerminalSpec => []ExitCodeIsTrue`, with what a command has done by
  where it is (`CommandInv`).
* `ProgramIsLeft`: `UpdateSpec => []UpdateLeavesAProgram`. `LockInv` has who holds the lock,
  `StagedInv` that what was asked for its version stays that until it is in place, and
  `MissingInv` that where nothing is at the program's path, one rename is under way and the
  file it can be made good from is there.
* `AnswerIsItsOwn`: `ImageSpec => []OwnAnswer`. `OneWaits` has that a press or its watcher
  holds the flag; `OwnRequestOnly` that for a press which found nothing under way (`fresh`),
  nothing in the directory or in the updater's hands is of another request than its own.

`Records_proofs`

* `CalendarAlwaysAddsUp`: `CalendarSpec => []AccountsAddUp`, and `DaysAlwaysAddUp`:
  `Spec => []DaysAddUp` of `MCRecords`. The properties are about sums over whatever days are
  picked out of a stretch, so what is needed of the state is its type (`CalendarTyped`), and
  the work is in the sums: a sum over a finite set is that over its parts (`SumOfTwo`), the
  same under other names (`SumRenamed`) and for functions that agree on it (`SumSame`). From
  these come `StretchesAddUp`, `PageAndReport`, `RunningWhole`, `ReminderOwed` and
  `CarriedOver`, one for each way of working something out.
* `NoticesAlwaysStand`: `Spec => []NoticesStandBesideTheirDay`. `WorkTyped` has that what is
  recorded of a day is a stretch within it, longer than its breaks. The shifts of a stretch
  of days are gathered day by day; `ShiftsListed` says of every length of it that they lie
  one after the other, each from the day it began on without a gap to the day it ended on,
  and that each day with a record is in one of them. What is said beside a day is then what
  the act says of the one shift that began on it (`SaidIsNotable`, `NotableIsTheAct`).

`Workbooks_proofs`

* `LeavesWhatItAnswers`: `Spec => []LeavesWhatItSays`. `BooksKept` adds to its parts what an
  upload carries: the plan is the one its rows had when it was asked for; as long as nobody
  else has changed anything, the rows counted as written, written one after the other on what
  there was before, leave what there is (`SheetKept`); and entries that are planned fit into
  their days together with those there are, and are there once the answer says so
  (`RowsKept`). That the copied days are as the ones copied from is worked out of the plan
  (`WeekAsItWas`), by what `Chosen` picks out of two sequences joined. That importing again
  finishes what was stopped has two reasons. Of projects and roles, which the file names once
  each, a row that was written stands: it plans and writes nothing the next time
  (`NamedSoFar`, `StandingWritten`). An account may be named by several rows, and while they
  are gone through again it is for a time what earlier rows made of it; `HalfAgain` says
  what, and that each row is let through again (`TakenAgain`). Of the rows after those, the
  plan is the same as the first time (`SameRest`).

A minimum is found by well-foundedness instead of induction: the library has it that the
numbers are well-founded, so a set of numbers that is not empty has a least one (`Least`),
and a claim about all finite sets is shown from the smallest one it fails for (`Smallest`).
A claim about all sequences is shown from a shortest one it fails for (`ShortestOf`), and one
about the steps of a calculation from the first that fails it. That such a calculation has a
value at all - a function given by what it is for the number before - is shown of any step
that stays within a set (`StepsExist`, `OneStepMore`), and each of `Chosen`, `After`,
`planEntries`, `weekOf` and `planCopy` is one of those.

A `CASE` whose conditions overlap does not say which of them counts: TLC takes the first that
is true, the logic leaves it open. Where the code's `switch` or chain of returns is meant,
the modules say IF and ELSE.

Only model-checked:

* the liveness properties of `eventually`, which are outside what the prover does;
* `HolidaysAreKept`: which days of a year are taken before a holiday is moved is a fold over
  the days of every rule of a country, and whether there is a free weekday left depends on
  the dates themselves.

## What is not modelled, and the plan

Not modelled:

* the in-memory persistence: a double of the SQL repositories for tests;
* the web and mobile front ends: clients of the interface, whose requests are modelled;
* the TLS listener, routing, headers and the texts of errors: wiring and wording;
* exports, reports, the calendar feed's text, mail and branding: they read and format;
* the spreadsheets' encoding, the protocols of LDAP, OpenID, Kerberos and WebAuthn, and
  cryptography: libraries, whose outcomes enter as choices;
* ten of the seventeen countries' holidays, whose rules are of the kinds modelled;
* the mode without authentication.

A transaction is one step; that the databases give the isolation this asks for is assumed.
The components of one MC module are not composed beyond what the table of modules says:
where the code lets one change another's state, the change is an action of the module it
changes (`AssignReadingRole` in `Keys`, the adopting directory in `Ceremonies`, `Meddle` in
`Workbooks`).

What is left to prove: `Holidays`, that is, what the arithmetic of Easter comes to for every
year, and that a holiday which is moved finds a free weekday. The checked years and the
rules of the countries modelled settle both for the dates the program is used at.
