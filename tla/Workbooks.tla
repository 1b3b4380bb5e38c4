----------------------------- MODULE Workbooks -----------------------------
(***************************************************************************)
(* Whole files and whole weeks at once. An uploaded workbook is planned    *)
(* first, complete, and written if no row of it is refused: time entries   *)
(* in one transaction, projects, accounts and roles row by row through     *)
(* the services the forms use. A week is copied in one transaction. What   *)
(* else happens in the installation may come between any two steps.        *)
(***************************************************************************)
EXTENDS Integers, FiniteSets, Sequences, SequencesExt

CONSTANTS Files,        \* [kind, rows]: the workbooks that are uploaded
          Copies,       \* [from, to]: the weeks that are copied, by their first days
          Stores,       \* what the installation may hold to begin with
          Cap,          \* the hours a day may have
          CurrentDay,   \* the day a project without a start begins on
          Text,         \* what names, statuses and rights are written as
          ForeignKeys,  \* whether the database refuses a reference to nothing
          MaxUploads,   \* bound: files and copies
          MaxMeddling   \* bound: what happens meanwhile

VARIABLES store,        \* [projects, accounts, roles, entries]
          upload,       \* the file or copy that is being worked on
          uploads,      \* files and copies left
          meddling      \* changes by others left

Project == [there : BOOLEAN, name : Text, owner : Text, status : Text, start : Nat]
Account == [name : Text, external : BOOLEAN, system : BOOLEAN, role : Text]
Role == [system : BOOLEAN, shipped : BOOLEAN, rights : SUBSET Text]
Entry == [user : Text, project : Nat, day : Nat, hours : Nat]
Store(s) ==
  /\ s = [projects |-> s.projects, accounts |-> s.accounts, roles |-> s.roles, entries |-> s.entries]
  /\ s.projects \in Seq(Project) /\ s.entries \in Seq(Entry)
  /\ s.accounts \in [DOMAIN s.accounts -> Account] /\ DOMAIN s.accounts \in SUBSET Text
  /\ s.roles \in [DOMAIN s.roles -> Role] /\ DOMAIN s.roles \in SUBSET Text
RowOf(kind) ==
  CASE kind = "projects" -> [name : Text, status : Text, start : Nat]
    [] kind = "accounts" -> [mail : Text, name : Text, role : Text]
    [] kind = "roles" -> [name : Text, rights : SUBSET Text]
    [] kind = "entries" -> [user : Text, project : Text, day : Nat, hours : Nat]
ASSUME WorkbooksAssumption ==
  /\ {"", "me", "active", "completed"} \subseteq Text
  /\ Cap \in Nat /\ CurrentDay \in Nat \ {0}
  /\ \A s \in Stores : Store(s)
  /\ \A f \in Files : f.kind \in {"projects", "accounts", "roles", "entries"} /\ f.rows \in Seq(RowOf(f.kind))
  /\ \A c \in Copies : c.from \in Nat /\ c.to \in Nat

workbookVars == <<store, upload, uploads, meddling>>

Actor == "me"
Sheets == {"projects", "accounts", "roles"}
NoUpload == [state |-> "idle"]

(***************************************************************************)
(* The sheets of projects, accounts and roles: what a plan makes of a row  *)
(* and what writing it does. A row's empty field is "" or 0.               *)
(***************************************************************************)
VisibleTo(s, person) == {i \in DOMAIN s.projects : s.projects[i].there /\ s.projects[i].owner = person}
SameName(s, row) == {i \in VisibleTo(s, Actor) : s.projects[i].name = row.name}
changesStatus(p) == p.row.status # "" /\ p.row.status # p.status
checkProjectStatus(row) == row.status \in {"", "active", "completed", "archived"}
checkArchiving(p) ==
  p.id # 0 /\ changesStatus(p) /\ p.row.status = "archived" => p.status = "completed"
matchProject(s, row) ==
  LET same == SameName(s, row)
      id == IF same = {} THEN 0 ELSE CHOOSE i \in same : \A j \in same : j <= i
  IN [row |-> row, id |-> id, status |-> IF id = 0 THEN "" ELSE s.projects[id].status]
parseProjectRow(row) == row.name # ""       \* whether the row can be read at all
planProject(s, row) ==
  LET p == matchProject(s, row)
  IN [planned |-> p,
      problem |-> ~parseProjectRow(row) \/ ~checkProjectStatus(row) \/ ~checkArchiving(p)]

parseUserRow(row) == row.mail # ""
planAccount(s, row) ==
  [planned |-> [row |-> row, id |-> row.mail],
   problem |-> \/ ~parseUserRow(row)
               \/ row.mail \notin DOMAIN s.accounts
               \/ row.role # "" /\ row.role \notin DOMAIN s.roles]

parseRoleRow(row) == row.name # ""
planRole(s, row) ==
  LET found == row.name \in DOMAIN s.roles
  IN [planned |-> [row |-> row, id |-> IF found THEN row.name ELSE ""],
      problem |-> \/ ~parseRoleRow(row)
                  \/ found /\ s.roles[row.name].system /\ row.rights # s.roles[row.name].rights
                  \/ ~found /\ row.rights = {}]

\* A write either changes the store or is refused, which leaves it as it is.
Wrote(s) == [ok |-> TRUE, store |-> s]
RefusedWrite(s) == [ok |-> FALSE, store |-> s]

createProject(s, row) ==
  Wrote([s EXCEPT !.projects = Append(@,
    [there |-> TRUE, name |-> row.name, owner |-> Actor,
     status |-> IF row.status = "" THEN "active" ELSE row.status,
     start |-> IF row.start = 0 THEN CurrentDay ELSE row.start])])
updateProject(s, p) ==
  IF \/ p.id \notin VisibleTo(s, Actor)
     \/ changesStatus(p) /\ p.row.status = "archived" /\ s.projects[p.id].status # "completed"
     \/ p.row.start = 0                      \* no day of the calendar
  THEN RefusedWrite(s)
  ELSE Wrote([s EXCEPT !.projects[p.id].start = p.row.start,
                         !.projects[p.id].status = IF changesStatus(p) THEN p.row.status ELSE @])
writeProject(s, p) == IF p.id = 0 THEN createProject(s, p.row) ELSE updateProject(s, p)

UpdateUser(s, p) ==
  LET account == s.accounts[p.id]
      role == IF p.row.role = "" THEN account.role ELSE p.row.role
  IN IF \/ account.external /\ p.row.name \notin {"", account.name}
        \/ role \notin DOMAIN s.roles
        \/ p.row.role # "" /\ account.system /\ "roles:write" \notin s.roles[role].rights
     THEN RefusedWrite(s)
     ELSE Wrote([s EXCEPT !.accounts[p.id].role = role,
                            !.accounts[p.id].name = IF p.row.name = "" THEN @ ELSE p.row.name])

createRole(s, row) ==
  IF row.name \in DOMAIN s.roles \/ row.rights = {} THEN RefusedWrite(s)
  ELSE Wrote([s EXCEPT !.roles = [r \in DOMAIN s.roles \union {row.name} |->
         IF r = row.name THEN [system |-> FALSE, shipped |-> FALSE, rights |-> row.rights] ELSE s.roles[r]]])
updateRole(s, p) ==           \* a row with nothing ticked says nothing about the rights
  IF \/ p.id \notin DOMAIN s.roles
     \/ p.row.rights # {} /\ s.roles[p.id].shipped /\ p.row.rights # s.roles[p.id].rights
  THEN RefusedWrite(s)
  ELSE Wrote([s EXCEPT !.roles[p.id].rights = IF p.row.rights = {} THEN @ ELSE p.row.rights])
writeRole(s, p) == IF p.id = "" THEN createRole(s, p.row) ELSE updateRole(s, p)

(***************************************************************************)
(* Time entries: what a plan of a file and what a copy of a week would     *)
(* write. A row counts against its day with the rows planned before it.    *)
(***************************************************************************)
Hours(entries, user, day) ==
  SumFunction([i \in {j \in DOMAIN entries : entries[j].user = user /\ entries[j].day = day} |-> entries[i].hours])
NotOverfilled(entries) ==
  \A i \in DOMAIN entries : Hours(entries, entries[i].user, entries[i].day) <= Cap
ASSUME StoresAssumption == \A s \in Stores : NotOverfilled(s.entries)
overTheDay(s, rows, user, day, hours) ==
  Hours(s.entries, user, day) + Hours(rows, user, day) + hours > Cap
findProject(s, name) ==       \* the first of that name, whosever it is; 0 for none
  LET named == {i \in DOMAIN s.projects : s.projects[i].there /\ s.projects[i].name = name}
  IN IF named = {} THEN 0 ELSE CHOOSE i \in named : \A j \in named : i <= j
peopleByName(s, name) == IF name = "" THEN Actor ELSE IF name \in DOMAIN s.accounts THEN name ELSE ""
parseRow(row) == row.day # 0                 \* a date that is a date
planRow(s, rows, row) ==
  LET target == peopleByName(s, row.user)
      project == findProject(s, row.project)
  IN [entry |-> [user |-> target, project |-> IF row.project = "" THEN 0 ELSE project,
                 day |-> row.day, hours |-> row.hours],
      problem |-> \/ ~parseRow(row)
                  \/ target # Actor
                  \/ row.project # "" /\ project \notin VisibleTo(s, target)
                  \/ row.project # "" /\ project # 0 /\ s.projects[project].status # "active"
                  \/ row.hours <= 0
                  \/ overTheDay(s, rows, target, row.day, row.hours)]
planEntry(s, plan, row) ==
  LET r == planRow(s, plan.rows, row)
  IN IF r.problem THEN [plan EXCEPT !.rejected = @ + 1] ELSE [plan EXCEPT !.rows = Append(@, r.entry)]
planEntries(s, rows) ==
  LET plan[n \in 0..Len(rows)] ==
        IF n = 0 THEN [rows |-> <<>>, rejected |-> 0] ELSE planEntry(s, plan[n - 1], rows[n])
  IN plan[Len(rows)]

\* The members of a sequence that are among `those', in their order.
Chosen(seq, those) ==
  LET chosen[n \in 0..Len(seq)] ==
        IF n = 0 THEN <<>> ELSE IF seq[n] \in those THEN Append(chosen[n - 1], seq[n]) ELSE chosen[n - 1]
  IN chosen[Len(seq)]
EntriesOn(entries, day) == Chosen(entries, {e \in Range(entries) : e.user = Actor /\ e.day = day})
weekOf(s, monday) ==          \* in the order of the days, then as recorded
  LET days[n \in 0..7] == IF n = 0 THEN <<>> ELSE days[n - 1] \o EntriesOn(s.entries, monday + n - 1)
  IN days[7]
stillOpen(s, project) ==
  project = 0 \/ (project \in VisibleTo(s, Actor) /\ s.projects[project].status = "active")
bookedOn(s, day) == \E i \in DOMAIN s.entries : s.entries[i].user = Actor /\ s.entries[i].day = day
copyEntry(s, plan, entry, days) ==
  LET day == entry.day + days
  IN IF bookedOn(s, day) THEN [plan EXCEPT !.kept = @ \union {day}]
     ELSE IF ~stillOpen(s, entry.project) THEN [plan EXCEPT !.closed = @ + 1]
     ELSE IF overTheDay(s, plan.rows, Actor, day, entry.hours) THEN [plan EXCEPT !.rejected = @ + 1]
     ELSE [plan EXCEPT !.rows = Append(@, [entry EXCEPT !.day = day])]
planCopy(s, from, to) ==
  LET week == weekOf(s, from)
      plan[n \in 0..Len(week)] ==
        IF n = 0 THEN [rows |-> <<>>, rejected |-> 0, kept |-> {}, closed |-> 0]
        ELSE copyEntry(s, plan[n - 1], week[n], to - from)
  IN plan[Len(week)]

(***************************************************************************)
(* A request: planned, then written step by step, then answered.           *)
(***************************************************************************)
Asked(kind, rows, plan) ==
  [state |-> "writing", kind |-> kind, asked |-> rows, plan |-> plan, at |-> 1, written |-> 0,
   said |-> "", alone |-> TRUE, before |-> store]
Answered(said) == [upload EXCEPT !.state = "answered", !.said = said]
AsksNext == upload.state \in {"idle", "answered"} /\ uploads > 0 /\ uploads' = uploads - 1

refuseRejected(plan, rejected) == plan = <<>> \/ rejected > 0

\* A file of projects, accounts or roles. A preview is the plan alone and changes nothing.
ImportSheet(file, plans) ==
  LET rejected == Cardinality({i \in DOMAIN plans : plans[i].problem})
      opened == Asked(file.kind, file.rows, [i \in DOMAIN plans |-> plans[i].planned])
  IN /\ AsksNext
     /\ upload' = IF refuseRejected(file.rows, rejected)
                  THEN [opened EXCEPT !.state = "answered", !.said = "refused"] ELSE opened
     /\ UNCHANGED <<store, meddling>>
ImportProjects(file) == file.kind = "projects" /\
  ImportSheet(file, [i \in DOMAIN file.rows |-> planProject(store, file.rows[i])])
ImportUsers(file) == file.kind = "accounts" /\
  ImportSheet(file, [i \in DOMAIN file.rows |-> planAccount(store, file.rows[i])])
ImportRoles(file) == file.kind = "roles" /\
  ImportSheet(file, [i \in DOMAIN file.rows |-> planRole(store, file.rows[i])])

\* A slip: a row is counted before it is written.
countedFirst(result) ==
  [upload EXCEPT !.written = @ + 1, !.at = @ + 1, !.state = IF result.ok THEN @ ELSE "answered",
                 !.said = IF result.ok THEN @ ELSE "stopped"]
counted(result) ==
  IF result.ok THEN [upload EXCEPT !.written = @ + 1, !.at = @ + 1] ELSE Answered("stopped")
WriteSheetRow(kind, result) ==
  /\ upload.state = "writing" /\ upload.kind = kind /\ upload.at <= Len(upload.plan)
  /\ store' = result.store /\ upload' = counted(result)
  /\ UNCHANGED <<uploads, meddling>>
ApplyProjects == WriteSheetRow("projects", writeProject(store, upload.plan[upload.at]))
ApplyUsers == WriteSheetRow("accounts", UpdateUser(store, upload.plan[upload.at]))
ApplyRoles == WriteSheetRow("roles", writeRole(store, upload.plan[upload.at]))
FinishSheet ==
  /\ upload.state = "writing" /\ upload.kind \in Sheets /\ upload.at > Len(upload.plan)
  /\ upload' = Answered("done")
  /\ UNCHANGED <<store, uploads, meddling>>

\* A file of entries, and a week to copy.
ImportEntries(file) ==
  LET plan == planEntries(store, file.rows)
      opened == Asked("entries", file.rows, plan.rows)
  IN /\ file.kind = "entries" /\ AsksNext
     /\ upload' = IF refuseRejected(file.rows, plan.rejected)
                  THEN [opened EXCEPT !.state = "answered", !.said = "refused"] ELSE opened
     /\ UNCHANGED <<store, meddling>>
CopyWeek(from, to) ==
  LET plan == planCopy(store, from, to)
      opened == Asked("week", <<from, to>>, plan.rows)
  IN /\ AsksNext
     /\ upload' = IF weekOf(store, from) = <<>> \/ plan.rejected > 0
                  THEN [opened EXCEPT !.state = "answered", !.said = "refused"]
                  ELSE IF plan.rows = <<>> THEN [opened EXCEPT !.state = "answered", !.said = "done"] ELSE opened
     /\ UNCHANGED <<store, meddling>>

\* One transaction: the entries are there when it is committed, and none of them before.
Inserted(rows, at) == [store EXCEPT !.entries = IF at = Len(rows) THEN @ \o rows ELSE @]
Refers(row) == row.project # 0
SaveMany ==
  /\ upload.state = "writing" /\ upload.kind \in {"entries", "week"}
  /\ LET row == upload.plan[upload.at]
         refused == ForeignKeys /\ Refers(row) /\ ~store.projects[row.project].there
     IN /\ store' = IF refused THEN store ELSE Inserted(upload.plan, upload.at)
        /\ upload' = IF refused THEN Answered("failed")
                     ELSE IF upload.at = Len(upload.plan) THEN [Answered("done") EXCEPT !.written = upload.at]
                     ELSE [upload EXCEPT !.at = @ + 1]
  /\ UNCHANGED <<uploads, meddling>>

ConnectionLost ==             \* a sheet says where it stopped, a transaction is rolled back
  /\ upload.state = "writing"
  /\ upload' = Answered(IF upload.kind \in Sheets THEN "stopped" ELSE "failed")
  /\ UNCHANGED <<store, uploads, meddling>>

\* What others do meanwhile.
Meddle(s) ==
  /\ meddling > 0 /\ meddling' = meddling - 1
  /\ store' = s
  /\ upload' = IF upload.state = "writing" THEN [upload EXCEPT !.alone = FALSE] ELSE NoUpload
  /\ UNCHANGED uploads
CompleteProject(i) ==
  /\ store.projects[i].there /\ store.projects[i].status = "active"
  /\ Meddle([store EXCEPT !.projects[i].status = "completed"])
Inserting(i) ==               \* a transaction that is open refers to the project
  upload.state = "writing" /\ upload.kind \in {"entries", "week"}
    /\ \E j \in 1..(upload.at - 1) : upload.plan[j].project = i
DeleteProject(i) ==
  /\ store.projects[i].there /\ ~(ForeignKeys /\ Inserting(i))
  /\ \A j \in DOMAIN store.entries : store.entries[j].project # i
  /\ Meddle([store EXCEPT !.projects[i].there = FALSE])
DeleteUnusedRole(r) ==
  /\ ~store.roles[r].shipped /\ \A a \in DOMAIN store.accounts : store.accounts[a].role # r
  /\ Meddle([store EXCEPT !.roles = [x \in DOMAIN store.roles \ {r} |-> store.roles[x]]])

WorkbooksInit == store \in Stores /\ upload = NoUpload /\ uploads = MaxUploads /\ meddling = MaxMeddling
WorkbooksNext ==
  \/ \E file \in Files :
       ImportProjects(file) \/ ImportUsers(file) \/ ImportRoles(file) \/ ImportEntries(file)
  \/ \E copy \in Copies : CopyWeek(copy.from, copy.to)
  \/ ApplyProjects \/ ApplyUsers \/ ApplyRoles \/ FinishSheet
  \/ SaveMany \/ ConnectionLost
  \/ \E i \in DOMAIN store.projects : CompleteProject(i) \/ DeleteProject(i)
  \/ \E r \in DOMAIN store.roles : DeleteUnusedRole(r)
WorkbooksSpec == WorkbooksInit /\ [][WorkbooksNext]_workbookVars

(***************************************************************************)
(* What holds.                                                             *)
(***************************************************************************)
\* However a file splits a day into rows, and whatever a week is copied onto, no day comes
\* to more than its cap by it (planRow, CopyWeek).
NoDayOverfilled == NotOverfilled(store.entries)

\* A file of entries or a copied week is there whole or not at all, whatever is deleted or
\* lost while it is written (SaveMany).
WholeOrNothing ==
  upload.state # "idle" /\ upload.kind \in {"entries", "week"} =>
    store.entries = IF upload.said = "done" THEN upload.before.entries \o upload.plan ELSE upload.before.entries

\* A row of a sheet, planned and written as its kind is.
planSheetRow(s, kind, row) ==
  CASE kind = "projects" -> planProject(s, row)
    [] kind = "accounts" -> planAccount(s, row)
    [] kind = "roles" -> planRole(s, row)
writeSheetRow(s, kind, p) ==
  CASE kind = "projects" -> writeProject(s, p)
    [] kind = "accounts" -> UpdateUser(s, p)
    [] kind = "roles" -> writeRole(s, p)
\* Writing the first n planned rows of a sheet.
writeUnlessRefused(r, kind, p) == IF r.ok THEN writeSheetRow(r.store, kind, p) ELSE r
After(s, kind, plan, n) ==
  LET after[k \in 0..n] == IF k = 0 THEN Wrote(s) ELSE writeUnlessRefused(after[k - 1], kind, plan[k])
  IN after[n]
\* A whole import, without anything in between.
WholeImport(s, kind, rows) ==
  LET plans == [i \in DOMAIN rows |-> planSheetRow(s, kind, rows[i])]
  IN IF \E i \in DOMAIN plans : plans[i].problem THEN RefusedWrite(s)
     ELSE After(s, kind, [i \in DOMAIN plans |-> plans[i].planned], Len(rows))
OfASheet == upload.state = "answered" /\ upload.kind \in Sheets /\ upload.alone /\ upload.said # "refused"

\* The count a stopped import answers with is how far it came: the rows up to it are
\* written and none after it (ApplyProjects, ApplyUsers, ApplyRoles).
StoppedWhereItSays ==
  OfASheet => After(upload.before, upload.kind, upload.plan, upload.written) = Wrote(store)

\* An import that was stopped half way is finished by importing the same file again: that
\* comes to what one undisturbed import comes to, and after a whole one it changes nothing.
\* Of a file that names each thing once and every start (PlanProjects, ApplyUsers).
EachOnce(kind, rows) ==
  \A i, j \in DOMAIN rows : /\ kind \in {"projects", "roles"} /\ i # j => rows[i].name # rows[j].name
                            /\ kind = "projects" => rows[i].start # 0
FinishedByImportingAgain ==
  OfASheet /\ EachOnce(upload.kind, upload.asked) =>
    WholeImport(store, upload.kind, upload.asked) = WholeImport(upload.before, upload.kind, upload.asked)

\* The same of every file of projects. The code does not keep this: a row without a start
\* creates a project and is refused as an edit of it.
ImportedAgainChangesNothing ==
  OfASheet /\ upload.kind = "projects" /\ upload.said = "done" =>
    WholeImport(store, "projects", upload.asked) = Wrote(store)

\* A copied day is the day it was copied from, less what its projects no longer take; a day
\* that had anything is left as it was (CopyWeek).
CopiedDayByDay ==
  upload.state = "answered" /\ upload.kind = "week" /\ upload.said = "done" =>
    LET was == upload.before
        from == upload.asked[1]
        to == upload.asked[2]
        Expected(d) == Chosen(EntriesOn(was.entries, from + d), {e \in Range(was.entries) : stillOpen(was, e.project)})
        Undated(entries) == [i \in DOMAIN entries |-> [entries[i] EXCEPT !.day = 0]]
    IN \A d \in 0..6 :
         Undated(EntriesOn(store.entries, to + d)) =
           Undated(IF EntriesOn(was.entries, to + d) # <<>> THEN EntriesOn(was.entries, to + d) ELSE Expected(d))

\* What an import or a copied week leaves is what its answer says: entries and weeks whole
\* or not at all and within the day's cap, copied days as they were, sheets written as far
\* as the count says and finished by importing the file again.
LeavesWhatItSays ==
  /\ NoDayOverfilled /\ WholeOrNothing /\ CopiedDayByDay
  /\ StoppedWhereItSays /\ FinishedByImportingAgain
=============================================================================
