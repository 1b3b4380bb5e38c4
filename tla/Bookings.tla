------------------------------ MODULE Bookings ------------------------------
(***************************************************************************)
(* Time entries, the projects they are booked on, the clocks that run      *)
(* against those projects and the accounts they all belong to, as the      *)
(* requests of a running server change them.                               *)
(*                                                                         *)
(* A request is a sequence of statements with nothing held between them:   *)
(* the services read, decide, and write with a statement (or one           *)
(* transaction) of their own.  One action here is one such statement, or   *)
(* a run of reads whose result only the next statement can use, and the    *)
(* requests in `Reqs' interleave between any two.  What a request read is  *)
(* kept in its record until it is used, however stale it is by then.       *)
(*                                                                         *)
(* An input a request brings with it is chosen where the code first        *)
(* compares it with something read.  A check the code makes is a conjunct  *)
(* of the step; a check that fails, an error of the database, a client     *)
(* that hangs up and a server that stops all end the request without a     *)
(* further statement: Abandon.                                             *)
(*                                                                         *)
(* Authentication is switched on: every request has somebody behind it.    *)
(***************************************************************************)
EXTENDS Integers, FiniteSets, FiniteSetsExt

CONSTANTS
  Users,      \* account ids
  Projects,   \* project ids, never issued twice
  Entries,    \* time entry ids, never issued twice
  Reqs,       \* requests the server works on at the same time
  Days,       \* calendar days
  Hours,      \* durations somebody may book, all within one day
  Limits,     \* daily limits that may be set, 0 for none
  Manages,    \* <<m, u>>: m may write for u, by role, assignment and switch
  Ops,        \* the operations people ask for
  EnforceFK,  \* does the database enforce the schema's references?
  MaxRevisions, \* bound: how many versions of entries are replaced
  None,       \* no project, no entry: SQL's NULL, or a row that is not there
  Off         \* no clock is running

ASSUME ConstantsAssumption ==
  /\ Hours \subseteq Nat \ {0}
  /\ Limits \subseteq Nat
  /\ 0 \in Limits
  /\ Manages \subseteq Users \X Users
  /\ EnforceFK \in BOOLEAN
  /\ MaxRevisions \in Nat
  /\ None \notin Users \cup Projects \cup Entries
  /\ Off \notin Projects \cup {None}
  /\ None \notin [user : Users, project : Projects \cup {None},
                  day : Days, hours : Hours]

VARIABLES
  accounts,   \* the accounts there are
  projects,   \* every project id: its owner and its status
  entries,    \* every entry id: its row, or None
  issued,     \* the entry ids the database has handed out
  revisions,  \* the versions corrections replaced, numbered as they were kept
  lastRevision, \* the number handed out last
  clocks,     \* every account: the project its clock runs on, None for no
              \* project, Off for no clock
  limits,     \* the installation's daily limit and everybody's own
  reqs        \* what every request in flight has read and decided so far

tables == <<accounts, projects, entries, issued, revisions, lastRevision, clocks,
            limits>>

vars == <<accounts, projects, entries, issued, revisions, lastRevision, clocks,
          limits, reqs>>

-----------------------------------------------------------------------------
(* Rows and requests.                                                      *)

Row == [user : Users, project : Projects \cup {None}, day : Days, hours : Hours]

\* The three statuses a stored project has.
Statuses == {"active", "completed", "archived"}

\* "unborn" and "deleted" are the ids no row has yet or any more; a deleted
\* project keeps its last owner here, so that it can still be said whose it was.
ProjectRow == [owner : Users \cup {None},
               status : Statuses \cup {"unborn", "deleted"}]

Live(p) == projects[p].status \in Statuses

OpNames == {"create", "update", "transfer", "delete", "project", "drop",
            "clock", "clear", "remove", "purge", "limits"}

Stages == {"idle", "read", "target", "budget", "entries", "clocks", "write"}

Request == [op : OpNames \cup {"none"}, stage : Stages, who : Users \cup {None},
            entry : Entries \cup {None}, project : Projects \cup {None},
            status : Statuses \cup {None}, row : Row \cup {None}]

Idle == [op |-> "none", stage |-> "idle", who |-> None, entry |-> None,
         project |-> None, status |-> None, row |-> None]

\* A request of operation `op' that has not done anything yet.
Fresh(r, op) == reqs[r] = Idle /\ op \in Ops

\* Request r, of operation `op', has come to `stage'.
At(r, op, stage) == reqs[r].op = op /\ reqs[r].stage = stage

Await(r, q) == reqs' = [reqs EXCEPT ![r] = q]

MoveOn(r, stage) == reqs' = [reqs EXCEPT ![r].stage = stage]

Answer(r) == reqs' = [reqs EXCEPT ![r] = Idle]

Exists(e) == entries[e] # None

-----------------------------------------------------------------------------
(* The checks the services share.                                          *)

\* requireOwner and requireOwnEntry: one's own, or an account one manages.
MayWriteFor(actor, u) == actor = u \/ <<actor, u>> \in Manages

\* Project.VisibleTo: everybody's projects are their own alone.
VisibleTo(p, u) == Live(p) /\ projects[p].owner = u

\* requireUserAndProject: the account is there, and the project, if one is
\* named, is there, theirs and still open.
Bookable(u, p) ==
  u \in accounts /\ (p # None => VisibleTo(p, u) /\ projects[p].status = "active")

\* dailyLimitFor: the stricter of the installation's limit and one's own,
\* where 0 is no limit.
DailyLimit(u) ==
  LET set == {limits.instance, limits.personal[u]} \ {0}
  IN  IF set = {} THEN 0 ELSE Min(set)

\* What `ents' holds of u's hours on day d, leaving the entry `skip' out.
DayTotal(ents, u, d, skip) ==
  MapThenSumSet(LAMBDA e : ents[e].hours,
                {e \in Entries \ {skip} :
                   ents[e] # None /\ ents[e].user = u /\ ents[e].day = d})

\* A slip: the day is compared with the limit before the booking is added.
OverBudgetAlready(row, skip) ==
  LET limit == DailyLimit(row.user)
  IN  limit > 0 /\ DayTotal(entries, row.user, row.day, skip) > limit

\* checkDailyBudget: would the day's total go over the limit?
OverBudget(row, skip) ==
  LET limit == DailyLimit(row.user)
  IN  limit > 0 /\ DayTotal(entries, row.user, row.day, skip) + row.hours > limit

\* A stored entry's references to users and projects, as the database sees them.
RefsHold(row) ==
  EnforceFK => row.user \in accounts /\ (row.project # None => Live(row.project))

\* A slip: an entry given to somebody else, and nothing else about it changed,
\* would correct nothing.
SaysButForTheOwner(a, b) ==
  a.project = b.project /\ a.day = b.day /\ a.hours = b.hours

\* RevisionOf: what entry e says now, kept under the next number.
RevisionOf(e, n) == [id |-> n, entry |-> e, row |-> entries[e]]

\* Timesheet.Says: do two versions of an entry say the same?
Says(a, b) == a = b

-----------------------------------------------------------------------------
(* Booking an entry: POST /timesheets, and the end of a stopwatch.         *)

\* CreateTimesheet up to requireUserAndProject.
BookEntry(r) ==
  /\ Fresh(r, "create")
  /\ \E actor \in accounts, row \in Row :
       /\ MayWriteFor(actor, row.user)
       /\ Bookable(row.user, row.project)
       /\ Await(r, [Idle EXCEPT !.op = "create", !.stage = "budget",
                               !.who = actor, !.row = row])
  /\ UNCHANGED tables

\* checkDailyBudget, for a booking and for a correction.  It reads the
\* account for its limit, so an account that is gone is found out here.
CheckBudget(r) ==
  /\ reqs[r].stage = "budget"
  /\ reqs[r].row.user \in accounts
  /\ ~OverBudget(reqs[r].row, reqs[r].entry)
  /\ MoveOn(r, "write")
  /\ UNCHANGED tables

\* TimesheetRepository.Save.
InsertEntry(r) ==
  /\ At(r, "create", "write")
  /\ RefsHold(reqs[r].row)
  /\ \E e \in Entries \ issued :
       /\ issued' = issued \cup {e}
       /\ entries' = [entries EXCEPT ![e] = reqs[r].row]
  /\ Answer(r)
  /\ UNCHANGED <<accounts, projects, revisions, lastRevision, clocks, limits>>

-----------------------------------------------------------------------------
(* Correcting, transferring and deleting an entry.                         *)

\* What the three handlers begin with: the entry is read to see whose it is.
Authorise(r) ==
  /\ \E op \in {"update", "transfer", "delete"}, actor \in accounts, e \in Entries :
       /\ Fresh(r, op)
       /\ Exists(e)
       /\ MayWriteFor(actor, entries[e].user)
       /\ Await(r, [Idle EXCEPT !.op = op, !.stage = "read",
                               !.who = actor, !.entry = e])
  /\ UNCHANGED tables

\* UpdateTimesheet reads the entry again and lays the correction over it: `row'
\* is what comes out.  Only an entry that moves, to somebody or to a project,
\* has its project checked.
ReadForUpdate(r) ==
  /\ At(r, "update", "read")
  /\ LET e == reqs[r].entry IN
       /\ Exists(e)
       /\ \E row \in Row :
            LET movedOwner == row.user # entries[e].user
                movedProject == row.project # entries[e].project
                moved == movedOwner \/ movedProject
            IN /\ movedOwner => /\ MayWriteFor(reqs[r].who, row.user)
                                /\ row.user \in accounts
               /\ Await(r, [reqs[r] EXCEPT
                    !.stage = IF moved /\ row.project # None THEN "target" ELSE "budget",
                    !.row = row])
  /\ UNCHANGED tables

\* UpdateTimesheet's requireUserAndProject.
CheckTarget(r) ==
  /\ At(r, "update", "target")
  /\ Bookable(reqs[r].row.user, reqs[r].row.project)
  /\ MoveOn(r, "budget")
  /\ UNCHANGED tables

\* TransferTimesheetToProject reads the entry again; the project it is to be
\* on has to be another one.
ReadForTransfer(r) ==
  /\ At(r, "transfer", "read")
  /\ LET e == reqs[r].entry IN
       /\ Exists(e)
       /\ \E p \in Projects \ {entries[e].project} :
            Await(r, [reqs[r] EXCEPT !.stage = "target",
                                     !.row = [entries[e] EXCEPT !.project = p]])
  /\ UNCHANGED tables

\* A slip: the target is checked against whoever moves the entry.
CheckTransferForTheMover(r) ==
  /\ At(r, "transfer", "target")
  /\ VisibleTo(reqs[r].row.project, reqs[r].who)
  /\ projects[reqs[r].row.project].status = "active"
  /\ MoveOn(r, "write")
  /\ UNCHANGED tables

\* ... and the owner's, and open.
CheckTransferTarget(r) ==
  /\ At(r, "transfer", "target")
  /\ VisibleTo(reqs[r].row.project, reqs[r].row.user)
  /\ projects[reqs[r].row.project].status = "active"
  /\ MoveOn(r, "write")
  /\ UNCHANGED tables

\* A slip: the row is kept without looking whether it is still there.
ReplaceEntryBlind(r) ==
  /\ reqs[r].op \in {"update", "transfer"} /\ reqs[r].stage = "write"
  /\ LET e == reqs[r].entry IN
       /\ RefsHold(reqs[r].row)
       /\ lastRevision < MaxRevisions
       /\ lastRevision' = lastRevision + 1
       /\ revisions' = revisions \cup {RevisionOf(e, lastRevision')}
       /\ entries' = [entries EXCEPT ![e] = reqs[r].row]
  /\ Answer(r)
  /\ UNCHANGED <<accounts, projects, issued, clocks, limits>>

\* TimesheetRepository.Update, one transaction: the row as it stands is locked
\* and kept as a revision unless it says the same, and the whole row written.
ReplaceEntry(r) ==
  /\ reqs[r].op \in {"update", "transfer"} /\ reqs[r].stage = "write"
  /\ LET e == reqs[r].entry
         row == reqs[r].row
     IN /\ Exists(e)
        /\ RefsHold(row)
        /\ \/ /\ Says(entries[e], row)
              /\ UNCHANGED <<revisions, lastRevision>>
           \/ /\ ~Says(entries[e], row)
              /\ lastRevision < MaxRevisions
              /\ lastRevision' = lastRevision + 1
              /\ revisions' = revisions \cup {RevisionOf(e, lastRevision')}
        /\ entries' = [entries EXCEPT ![e] = row]
  /\ Answer(r)
  /\ UNCHANGED <<accounts, projects, issued, clocks, limits>>

\* DeleteTimesheet's read.
ReadForDelete(r) ==
  /\ At(r, "delete", "read")
  /\ Exists(reqs[r].entry)
  /\ MoveOn(r, "write")
  /\ UNCHANGED tables

\* TimesheetRepository.Delete: the history, then the entry, in one transaction.
RemoveEntry(r) ==
  /\ At(r, "delete", "write")
  /\ entries' = [entries EXCEPT ![reqs[r].entry] = None]
  /\ revisions' = {v \in revisions : v.entry # reqs[r].entry}
  /\ Answer(r)
  /\ UNCHANGED <<accounts, projects, issued, lastRevision, clocks, limits>>

-----------------------------------------------------------------------------
(* Projects.                                                               *)

\* CreateProject: the caller's own, in any status.
CreateProject(r) ==
  /\ Fresh(r, "project")
  /\ \E actor \in accounts, p \in Projects, s \in Statuses :
       /\ projects[p].status = "unborn"
       /\ projects' = [projects EXCEPT ![p] = [owner |-> actor, status |-> s]]
  /\ UNCHANGED <<accounts, entries, issued, revisions, lastRevision, clocks, limits, reqs>>

\* validateStatusTransition and ArchiveProject: archived only once completed.
\* An update that leaves the status out keeps it.
StatusTransition(from, to) == to = from \/ to # "archived" \/ from = "completed"

\* UpdateProject and ArchiveProject read the project and check whose it is and
\* where it may go.
ReadProject(r) ==
  /\ Fresh(r, "project")
  /\ \E actor \in accounts, p \in Projects, s \in Statuses :
       /\ VisibleTo(p, actor)
       /\ StatusTransition(projects[p].status, s)
       /\ Await(r, [Idle EXCEPT !.op = "project", !.stage = "write", !.who = actor,
                               !.project = p, !.status = s])
  /\ UNCHANGED tables

\* ProjectRepository.Update: the whole row, with the owner that was read, if it
\* is still there.
WriteProject(r) ==
  /\ At(r, "project", "write")
  /\ Live(reqs[r].project)
  /\ projects' = [projects EXCEPT ![reqs[r].project] =
                     [owner |-> reqs[r].who, status |-> reqs[r].status]]
  /\ Answer(r)
  /\ UNCHANGED <<accounts, entries, issued, revisions, lastRevision, clocks, limits>>

\* DeleteProject reads the project,
ReadForDrop(r) ==
  /\ Fresh(r, "drop")
  /\ \E actor \in accounts, p \in Projects :
       /\ VisibleTo(p, actor)
       /\ Await(r, [Idle EXCEPT !.op = "drop", !.stage = "entries", !.who = actor,
                               !.project = p])
  /\ UNCHANGED tables

BookedOn(p) == {e \in Entries : Exists(e) /\ entries[e].project = p}

TimedOn(p) == {u \in Users : clocks[u] = p}

\* ... counts the entries on it,
CountEntries(r) ==
  /\ At(r, "drop", "entries")
  /\ BookedOn(reqs[r].project) = {}
  /\ MoveOn(r, "clocks")
  /\ UNCHANGED tables

\* A slip: the clocks that run against a project are nobody's concern.
CountNoClocks(r) ==
  /\ At(r, "drop", "clocks")
  /\ MoveOn(r, "write")
  /\ UNCHANGED tables

\* ... counts the clocks that run against it,
CountClocks(r) ==
  /\ At(r, "drop", "clocks")
  /\ TimedOn(reqs[r].project) = {}
  /\ MoveOn(r, "write")
  /\ UNCHANGED tables

\* ... and deletes it.
DropProject(r) ==
  /\ At(r, "drop", "write")
  /\ LET p == reqs[r].project IN
       /\ Live(p)
       /\ EnforceFK => BookedOn(p) = {} /\ TimedOn(p) = {}
       /\ projects' = [projects EXCEPT ![p].status = "deleted"]
  /\ Answer(r)
  /\ UNCHANGED <<accounts, entries, issued, revisions, lastRevision, clocks, limits>>

-----------------------------------------------------------------------------
(* Clocks, as far as they hold on to projects.                             *)

\* requireStartable.
CheckClock(r) ==
  /\ Fresh(r, "clock")
  /\ \E actor \in accounts, p \in Projects \cup {None} :
       /\ p # None => Bookable(actor, p)
       /\ Await(r, [Idle EXCEPT !.op = "clock", !.stage = "write", !.who = actor,
                               !.project = p])
  /\ UNCHANGED tables

\* TimerRepository.Start: insert or replace.
StartClock(r) ==
  /\ At(r, "clock", "write")
  /\ EnforceFK => /\ reqs[r].who \in accounts
                  /\ reqs[r].project # None => Live(reqs[r].project)
  /\ clocks' = [clocks EXCEPT ![reqs[r].who] = reqs[r].project]
  /\ Answer(r)
  /\ UNCHANGED <<accounts, projects, entries, issued, revisions, lastRevision, limits>>

\* TimerRepository.Clear, once a clock is booked or thrown away.
ClearClock(r) ==
  /\ Fresh(r, "clear")
  /\ \E actor \in accounts :
       /\ clocks[actor] # Off
       /\ clocks' = [clocks EXCEPT ![actor] = Off]
  /\ UNCHANGED <<accounts, projects, entries, issued, revisions, lastRevision, limits, reqs>>

-----------------------------------------------------------------------------
(* Accounts and limits.                                                    *)

BookedBy(u) == {e \in Entries : Exists(e) /\ entries[e].user = u}

\* DeleteUser reads the account and counts its entries; hours are only deleted
\* with it where the administrator confirmed that ("purge").
DeleteUser(r) ==
  /\ \E op \in {"remove", "purge"}, u \in accounts :
       /\ Fresh(r, op)
       /\ op = "remove" => BookedBy(u) = {}
       /\ Await(r, [Idle EXCEPT !.op = op, !.stage = "write", !.who = u])
  /\ UNCHANGED tables

\* The versions that are left once u's are deleted.
RevisionsWithout(u) == {v \in revisions : v.row.user # u}

OwnedBy(u) == {p \in Projects : VisibleTo(p, u)}

\* Would a database that enforces references let u's rows go, in the order in
\* which PurgeUser deletes them: clock, revisions, entries, projects, account?
PurgeAllowed(u) ==
  /\ \A v \in RevisionsWithout(u) : v.entry \notin BookedBy(u)
  /\ \A p \in OwnedBy(u) : BookedOn(p) \subseteq BookedBy(u) /\ TimedOn(p) \subseteq {u}

\* PurgeUser: one transaction that deletes everything of the account's.
PurgeUser(r) ==
  /\ reqs[r].op \in {"remove", "purge"} /\ reqs[r].stage = "write"
  /\ LET u == reqs[r].who IN
       /\ u \in accounts
       /\ EnforceFK => PurgeAllowed(u)
       /\ clocks' = [clocks EXCEPT ![u] = Off]
       /\ revisions' = RevisionsWithout(u)
       /\ entries' = [e \in Entries |-> IF e \in BookedBy(u) THEN None ELSE entries[e]]
       /\ projects' = [p \in Projects |-> IF p \in OwnedBy(u)
                                         THEN [projects[p] EXCEPT !.status = "deleted"]
                                         ELSE projects[p]]
       /\ accounts' = accounts \ {u}
  /\ Answer(r)
  /\ UNCHANGED <<issued, lastRevision, limits>>

\* The administrator's limit, or somebody's own, is changed.
SetLimits(r) ==
  /\ Fresh(r, "limits")
  /\ \E h \in Limits :
       \/ limits' = [limits EXCEPT !.instance = h]
       \/ \E u \in accounts : limits' = [limits EXCEPT !.personal[u] = h]
  /\ UNCHANGED <<accounts, projects, entries, issued, revisions, lastRevision, clocks, reqs>>

\* The request ends without another statement.
Abandon(r) ==
  /\ reqs[r] # Idle
  /\ Answer(r)
  /\ UNCHANGED tables

-----------------------------------------------------------------------------
Init ==
  /\ accounts = Users
  /\ projects = [p \in Projects |-> [owner |-> None, status |-> "unborn"]]
  /\ entries = [e \in Entries |-> None]
  /\ issued = {}
  /\ revisions = {}
  /\ lastRevision = 0
  /\ clocks = [u \in Users |-> Off]
  /\ limits \in [instance : Limits, personal : {[u \in Users |-> 0]}]
  /\ reqs = [r \in Reqs |-> Idle]

Step(r) ==
  \/ BookEntry(r) \/ CheckBudget(r) \/ InsertEntry(r)
  \/ Authorise(r)
  \/ ReadForUpdate(r) \/ CheckTarget(r)
  \/ ReadForTransfer(r) \/ CheckTransferTarget(r)
  \/ ReplaceEntry(r)
  \/ ReadForDelete(r) \/ RemoveEntry(r)
  \/ CreateProject(r) \/ ReadProject(r) \/ WriteProject(r)
  \/ ReadForDrop(r) \/ CountEntries(r) \/ CountClocks(r) \/ DropProject(r)
  \/ CheckClock(r) \/ StartClock(r) \/ ClearClock(r)
  \/ DeleteUser(r) \/ PurgeUser(r)
  \/ SetLimits(r)
  \/ Abandon(r)

Next == \E r \in Reqs : Step(r)

Spec == Init /\ [][Next]_vars

\* Requests that do not overlap: whoever takes a step is the only one at work.
InTurn == \E r \in Reqs : (\A q \in Reqs \ {r} : reqs[q] = Idle) /\ Step(r)

InTurnSpec == Init /\ [][InTurn]_vars

-----------------------------------------------------------------------------
(* What is claimed.                                                        *)

\* Every variable holds what its column or its request may hold.
TypeOK ==
  /\ accounts \subseteq Users
  /\ projects \in [Projects -> ProjectRow]
  /\ entries \in [Entries -> Row \cup {None}]
  /\ issued \subseteq Entries
  /\ revisions \subseteq [id : 1 .. lastRevision, entry : Entries, row : Row]
  /\ lastRevision \in 0 .. MaxRevisions
  /\ clocks \in [Users -> Projects \cup {None, Off}]
  /\ limits \in [instance : Limits, personal : [Users -> Limits]]
  /\ reqs \in [Reqs -> Request]

\* No project, or one that is, or was until it was deleted, u's own.
Owned(u, p) == p # None => projects[p].owner = u

\* An entry is only ever on a project of its owner's, a version of it that was
\* corrected was too, and a clock only runs on a project of whoever started it:
\* what requireUserAndProject and TransferTimesheetToProject check at one moment
\* stays true whatever others do to the entry, the project and the account.
OnOwnProject ==
  /\ \A e \in Entries : Exists(e) => Owned(entries[e].user, entries[e].project)
  /\ \A v \in revisions : Owned(v.row.user, v.row.project)
  /\ \A u \in Users : clocks[u] # Off => Owned(u, clocks[u])

\* No row refers to one that is not there: no booked hours without their project
\* or account (DeleteProject, PurgeUser), no clock that can never be stopped, and
\* no version of an entry that is gone.
NoOrphans ==
  /\ \A e \in Entries : Exists(e) =>
       entries[e].user \in accounts /\ (entries[e].project # None => Live(entries[e].project))
  /\ \A v \in revisions : Exists(v.entry) /\ v.row.user \in accounts
  /\ \A u \in Users : clocks[u] # Off =>
       u \in accounts /\ (clocks[u] # None => Live(clocks[u]))

\* Every correction keeps the version it replaced, however many requests race to
\* correct the entry, and nothing but the deletion of the entry, or of the account
\* a version was booked for, takes one back.
HistoryKept ==
  [][\A e \in Entries : Exists(e) /\ entries'[e] # None =>
       {v \in revisions' : v.entry = e} =
         {v \in revisions : v.entry = e /\ v.row.user \notin accounts \ accounts'} \cup
           IF entries'[e] = entries[e] THEN {} ELSE {RevisionOf(e, lastRevision')}]_vars

\* maxDailyHours caps what one user may book on a single day: no step takes a
\* day's total up to a figure over the limit in force (checkDailyBudget).  Requests
\* that do not overlap (InTurnSpec) keep to it.
DailyCap ==
  [][\A u \in Users, d \in Days :
       DailyLimit(u) # 0 /\ DayTotal(entries', u, d, None) > DayTotal(entries, u, d, None) =>
         DayTotal(entries', u, d, None) <= DailyLimit(u)]_vars

\* The database never stands in the way of deleting an account: PurgeUser's
\* list takes everything that refers to the rows it deletes.
PurgeAlwaysAllowed == \A u \in accounts : PurgeAllowed(u)

=============================================================================
