-------------------------- MODULE Bookings_proofs --------------------------
(***************************************************************************)
(* What Bookings promises for every set of accounts, projects, entries and *)
(* requests, whatever the database enforces.                               *)
(***************************************************************************)
EXTENDS Bookings, FiniteSetTheorems, WellFoundedInduction, NaturalsInduction, TLAPS

\* What a request's record holds at the stages that use it.
WellFormed(q) ==
  /\ q.stage \in {"target", "budget"} => q.row \in Row
  /\ q.stage = "write" /\ q.op \in {"create", "update", "transfer"} => q.row \in Row
  /\ q.op \in {"update", "transfer", "delete"} => q.entry \in Entries
  /\ q.op # "none" => q.who \in Users
  /\ q.op \in {"project", "drop"} => q.project \in Projects
  /\ q.op = "project" => q.status \in Statuses

TypeInv == TypeOK /\ \A r \in Reqs : WellFormed(reqs[r])

LEMMA InitTypeInv ==
  ASSUME Init
  PROVE  TypeInv
<1> USE ConstantsAssumption DEF Init
<1>1. projects \in [Projects -> ProjectRow]
  BY DEF ProjectRow, Statuses
<1>2. /\ accounts \subseteq Users
      /\ entries \in [Entries -> Row \cup {None}]
      /\ issued \subseteq Entries
      /\ revisions \subseteq [id : 1 .. lastRevision, entry : Entries, row : Row]
      /\ lastRevision \in 0 .. MaxRevisions
      /\ clocks \in [Users -> Projects \cup {None, Off}]
  OBVIOUS
<1>3. limits \in [instance : Limits, personal : [Users -> Limits]]
  OBVIOUS
<1>4. Idle \in Request /\ WellFormed(Idle)
  BY DEF Idle, Request, Stages, OpNames, WellFormed
<1> QED
  BY <1>1, <1>2, <1>3, <1>4 DEF TypeInv, TypeOK

\* A request that is given a well formed record leaves all of them well formed.
LEMMA AwaitTyped ==
  ASSUME TypeInv, NEW r \in Reqs, NEW q \in Request, WellFormed(q), Await(r, q)
  PROVE  reqs' \in [Reqs -> Request] /\ \A x \in Reqs : WellFormed(reqs'[x])
BY DEF TypeInv, TypeOK, Await

\* So does one that is answered,
LEMMA AnswerTyped ==
  ASSUME TypeInv, NEW r \in Reqs, Answer(r)
  PROVE  reqs' \in [Reqs -> Request] /\ \A x \in Reqs : WellFormed(reqs'[x])
<1>1. Idle \in Request /\ WellFormed(Idle)
  BY DEF Idle, Request, Stages, OpNames, WellFormed
<1> QED
  BY <1>1 DEF TypeInv, TypeOK, Answer

\* and one that moves on to a stage that its record is ready for.
LEMMA MoveOnTyped ==
  ASSUME TypeInv, NEW r \in Reqs, NEW stage \in Stages,
         stage \in {"target", "budget"} => reqs[r].row \in Row,
         stage = "write" /\ reqs[r].op \in {"create", "update", "transfer"}
           => reqs[r].row \in Row,
         MoveOn(r, stage)
  PROVE  reqs' \in [Reqs -> Request] /\ \A x \in Reqs : WellFormed(reqs'[x])
<1> DEFINE q == [reqs[r] EXCEPT !.stage = stage]
<1>1. reqs[r] \in Request /\ WellFormed(reqs[r])
  BY DEF TypeInv, TypeOK
<1>2. q \in Request
  BY <1>1 DEF Request
<1>3. WellFormed(q)
  BY <1>1 DEF WellFormed, Request
<1>4. Await(r, q)
  BY <1>1 DEF MoveOn, Await
<1> HIDE DEF q
<1> QED
  BY <1>2, <1>3, <1>4, AwaitTyped

\* The tables that hold no request.
TablesTyped ==
  /\ accounts \subseteq Users
  /\ projects \in [Projects -> ProjectRow]
  /\ entries \in [Entries -> Row \cup {None}]
  /\ issued \subseteq Entries
  /\ revisions \subseteq [id : 1 .. lastRevision, entry : Entries, row : Row]
  /\ lastRevision \in 0 .. MaxRevisions
  /\ clocks \in [Users -> Projects \cup {None, Off}]
  /\ limits \in [instance : Limits, personal : [Users -> Limits]]

\* A step that leaves the tables alone leaves them typed.
LEMMA TablesStay ==
  ASSUME TypeInv, UNCHANGED tables
  PROVE  TablesTyped'
BY DEF TypeInv, TypeOK, tables, TablesTyped

\* Every request's step keeps every variable typed.
LEMMA StepTypeInv ==
  ASSUME TypeInv, NEW r \in Reqs, Step(r)
  PROVE  TypeInv'
<1> DEFINE RequestsTyped == reqs' \in [Reqs -> Request] /\ \A x \in Reqs : WellFormed(reqs'[x])
<1>0. SUFFICES TablesTyped' /\ RequestsTyped
  BY DEF TypeInv, TypeOK, TablesTyped
<1> HIDE DEF RequestsTyped
<1>q. /\ reqs[r] \in Request /\ WellFormed(reqs[r])
      /\ TablesTyped
  BY DEF TypeInv, TypeOK, TablesTyped
<1>1. CASE BookEntry(r)
  <2>1. PICK actor \in accounts, row \in Row :
          Await(r, [Idle EXCEPT !.op = "create", !.stage = "budget",
                                !.who = actor, !.row = row])
    BY <1>1 DEF BookEntry
  <2> DEFINE q == [Idle EXCEPT !.op = "create", !.stage = "budget",
                               !.who = actor, !.row = row]
  <2>2. q \in Request /\ WellFormed(q)
    BY <1>q DEF Idle, Request, Stages, OpNames, WellFormed, TablesTyped
  <2> HIDE DEF q
  <2>3. UNCHANGED tables
    BY <1>1 DEF BookEntry
  <2> QED
    BY <2>1, <2>2, <2>3, AwaitTyped, TablesStay DEF q, RequestsTyped
<1>2. CASE CheckBudget(r)
  <2>1. UNCHANGED tables /\ MoveOn(r, "write") /\ reqs[r].stage = "budget"
    BY <1>2 DEF CheckBudget
  <2> QED
    BY <1>q, <2>1, MoveOnTyped, TablesStay DEF WellFormed, Stages, RequestsTyped
<1>3. CASE InsertEntry(r)
  <2>1. reqs[r].row \in Row
    BY <1>q, <1>3 DEF InsertEntry, At, WellFormed
  <2>2. TablesTyped'
    BY <1>q, <1>3, <2>1 DEF InsertEntry, TablesTyped
  <2> QED
    BY <1>3, <2>2, AnswerTyped DEF InsertEntry, RequestsTyped
<1>4. CASE Authorise(r)
  <2>1. PICK op \in {"update", "transfer", "delete"}, actor \in accounts, e \in Entries :
          Await(r, [Idle EXCEPT !.op = op, !.stage = "read", !.who = actor, !.entry = e])
    BY <1>4 DEF Authorise
  <2> DEFINE q == [Idle EXCEPT !.op = op, !.stage = "read", !.who = actor, !.entry = e]
  <2>2. q \in Request /\ WellFormed(q)
    BY <1>q DEF Idle, Request, Stages, OpNames, WellFormed, TablesTyped
  <2> HIDE DEF q
  <2>3. UNCHANGED tables
    BY <1>4 DEF Authorise
  <2> QED
    BY <2>1, <2>2, <2>3, AwaitTyped, TablesStay DEF q, RequestsTyped
<1>5. CASE ReadForUpdate(r)
  <2> DEFINE q(stage, row) == [reqs[r] EXCEPT !.stage = stage, !.row = row]
  <2>1. PICK row \in Row, stage \in {"target", "budget"} : Await(r, q(stage, row))
    BY <1>5 DEF ReadForUpdate
  <2>2. q(stage, row) \in Request /\ WellFormed(q(stage, row))
    BY <1>q DEF Request, Stages, WellFormed
  <2> HIDE DEF q
  <2>3. UNCHANGED tables
    BY <1>5 DEF ReadForUpdate
  <2> QED
    BY <2>1, <2>2, <2>3, AwaitTyped, TablesStay DEF RequestsTyped
<1>6. CASE CheckTarget(r)
  <2>1. UNCHANGED tables /\ MoveOn(r, "budget") /\ reqs[r].stage = "target"
    BY <1>6 DEF CheckTarget, At
  <2> QED
    BY <1>q, <2>1, MoveOnTyped, TablesStay DEF WellFormed, Stages, RequestsTyped
<1>7. CASE ReadForTransfer(r)
  <2> DEFINE row(p) == [entries[reqs[r].entry] EXCEPT !.project = p]
             q(p) == [reqs[r] EXCEPT !.stage = "target", !.row = row(p)]
  <2>1. PICK p \in Projects : Await(r, q(p))
    BY <1>7 DEF ReadForTransfer
  <2>2. row(p) \in Row
    BY <1>q, <1>7 DEF ReadForTransfer, At, Exists, WellFormed, TablesTyped, Row
  <2> HIDE DEF row
  <2>3. q(p) \in Request /\ WellFormed(q(p))
    BY <1>q, <2>2 DEF Request, Stages, WellFormed
  <2> HIDE DEF q
  <2>4. UNCHANGED tables
    BY <1>7 DEF ReadForTransfer
  <2> QED
    BY <2>1, <2>3, <2>4, AwaitTyped, TablesStay DEF RequestsTyped
<1>8. CASE CheckTransferTarget(r)
  <2>1. UNCHANGED tables /\ MoveOn(r, "write") /\ reqs[r].stage = "target"
    BY <1>8 DEF CheckTransferTarget, At
  <2> QED
    BY <1>q, <2>1, MoveOnTyped, TablesStay DEF WellFormed, Stages, RequestsTyped
<1>9. CASE ReplaceEntry(r)
  <2> DEFINE e == reqs[r].entry
  <2>1. reqs[r].row \in Row /\ e \in Entries /\ entries[e] \in Row
    BY <1>q, <1>9 DEF ReplaceEntry, WellFormed, Exists, TablesTyped
  <2>2. /\ lastRevision' \in 0 .. MaxRevisions
        /\ revisions' \subseteq [id : 1 .. lastRevision', entry : Entries, row : Row]
    <3>1. CASE UNCHANGED <<revisions, lastRevision>>
      BY <1>q, <3>1 DEF TablesTyped
    <3>2. CASE /\ lastRevision < MaxRevisions
               /\ lastRevision' = lastRevision + 1
               /\ revisions' = revisions \cup {RevisionOf(e, lastRevision')}
      <4>1. lastRevision' \in 0 .. MaxRevisions /\ lastRevision' \in 1 .. lastRevision'
        BY <1>q, <3>2, ConstantsAssumption DEF TablesTyped
      <4>2. RevisionOf(e, lastRevision') \in [id : 1 .. lastRevision', entry : Entries, row : Row]
        BY <2>1, <4>1 DEF RevisionOf
      <4>3. 1 .. lastRevision \subseteq 1 .. lastRevision'
        BY <1>q, <3>2, ConstantsAssumption DEF TablesTyped
      <4> QED
        BY <1>q, <3>2, <4>1, <4>2, <4>3 DEF TablesTyped
    <3> QED
      BY <1>9, <3>1, <3>2 DEF ReplaceEntry
  <2>3. entries' \in [Entries -> Row \cup {None}]
    BY <1>q, <1>9, <2>1 DEF ReplaceEntry, TablesTyped
  <2>4. TablesTyped'
    BY <1>q, <1>9, <2>2, <2>3 DEF ReplaceEntry, TablesTyped
  <2> QED
    BY <1>9, <2>4, AnswerTyped DEF ReplaceEntry, RequestsTyped
<1>10. CASE ReadForDelete(r)
  <2>1. UNCHANGED tables /\ MoveOn(r, "write") /\ reqs[r].op = "delete"
    BY <1>10 DEF ReadForDelete, At
  <2> QED
    BY <1>q, <2>1, MoveOnTyped, TablesStay DEF WellFormed, Stages, RequestsTyped
<1>11. CASE RemoveEntry(r)
  <2>1. entries' \in [Entries -> Row \cup {None}]
    BY <1>q, <1>11 DEF RemoveEntry, TablesTyped
  <2>2. TablesTyped'
    BY <1>q, <1>11, <2>1 DEF RemoveEntry, TablesTyped
  <2> QED
    BY <1>11, <2>2, AnswerTyped DEF RemoveEntry, RequestsTyped
<1>12. CASE CreateProject(r)
  <2>1. projects' \in [Projects -> ProjectRow]
    BY <1>q, <1>12 DEF CreateProject, TablesTyped, ProjectRow
  <2>2. TablesTyped' /\ reqs' = reqs
    BY <1>q, <1>12, <2>1 DEF CreateProject, TablesTyped
  <2> QED
    BY <2>2 DEF TypeInv, TypeOK, RequestsTyped
<1>13. CASE ReadProject(r)
  <2> DEFINE q(actor, p, s) == [Idle EXCEPT !.op = "project", !.stage = "write",
                                  !.who = actor, !.project = p, !.status = s]
  <2>1. PICK actor \in accounts, p \in Projects, s \in Statuses : Await(r, q(actor, p, s))
    BY <1>13 DEF ReadProject
  <2>a. actor \in Users
    BY <1>q DEF TablesTyped
  <2>b. q(actor, p, s) \in Request
    BY <2>a DEF Idle, Request, Stages, OpNames
  <2>2. q(actor, p, s) \in Request /\ WellFormed(q(actor, p, s))
    BY <2>a, <2>b DEF Idle, WellFormed
  <2> HIDE DEF q
  <2>3. UNCHANGED tables
    BY <1>13 DEF ReadProject
  <2> QED
    BY <2>1, <2>2, <2>3, AwaitTyped, TablesStay DEF RequestsTyped
<1>14. CASE WriteProject(r)
  <2>1. projects' \in [Projects -> ProjectRow]
    BY <1>q, <1>14 DEF WriteProject, At, WellFormed, TablesTyped, ProjectRow
  <2>2. TablesTyped'
    BY <1>q, <1>14, <2>1 DEF WriteProject, TablesTyped
  <2> QED
    BY <1>14, <2>2, AnswerTyped DEF WriteProject, RequestsTyped
<1>15. CASE ReadForDrop(r)
  <2> DEFINE q(actor, p) == [Idle EXCEPT !.op = "drop", !.stage = "entries",
                               !.who = actor, !.project = p]
  <2>1. PICK actor \in accounts, p \in Projects : Await(r, q(actor, p))
    BY <1>15 DEF ReadForDrop
  <2>a. actor \in Users
    BY <1>q DEF TablesTyped
  <2>b. q(actor, p) \in Request
    BY <2>a DEF Idle, Request, Stages, OpNames
  <2>2. q(actor, p) \in Request /\ WellFormed(q(actor, p))
    BY <2>a, <2>b DEF Idle, WellFormed
  <2> HIDE DEF q
  <2>3. UNCHANGED tables
    BY <1>15 DEF ReadForDrop
  <2> QED
    BY <2>1, <2>2, <2>3, AwaitTyped, TablesStay DEF RequestsTyped
<1>16. CASE CountEntries(r)
  <2>1. UNCHANGED tables /\ MoveOn(r, "clocks")
    BY <1>16 DEF CountEntries
  <2> QED
    BY <2>1, MoveOnTyped, TablesStay DEF Stages, RequestsTyped
<1>17. CASE CountClocks(r)
  <2>1. UNCHANGED tables /\ MoveOn(r, "write") /\ reqs[r].op = "drop"
    BY <1>17 DEF CountClocks, At
  <2> QED
    BY <2>1, MoveOnTyped, TablesStay DEF Stages, RequestsTyped
<1>18. CASE DropProject(r)
  <2>1. projects' \in [Projects -> ProjectRow]
    BY <1>q, <1>18 DEF DropProject, At, WellFormed, TablesTyped, ProjectRow
  <2>2. TablesTyped'
    BY <1>q, <1>18, <2>1 DEF DropProject, TablesTyped
  <2> QED
    BY <1>18, <2>2, AnswerTyped DEF DropProject, RequestsTyped
<1>19. CASE CheckClock(r)
  <2> DEFINE q(actor, p) == [Idle EXCEPT !.op = "clock", !.stage = "write",
                               !.who = actor, !.project = p]
  <2>1. PICK actor \in accounts, p \in Projects \cup {None} : Await(r, q(actor, p))
    BY <1>19 DEF CheckClock
  <2>a. actor \in Users
    BY <1>q DEF TablesTyped
  <2>b. q(actor, p) \in Request
    BY <2>a DEF Idle, Request, Stages, OpNames
  <2>2. q(actor, p) \in Request /\ WellFormed(q(actor, p))
    BY <2>a, <2>b DEF Idle, WellFormed
  <2> HIDE DEF q
  <2>3. UNCHANGED tables
    BY <1>19 DEF CheckClock
  <2> QED
    BY <2>1, <2>2, <2>3, AwaitTyped, TablesStay DEF RequestsTyped
<1>20. CASE StartClock(r)
  <2>1. clocks' \in [Users -> Projects \cup {None, Off}]
    BY <1>q, <1>20 DEF StartClock, TablesTyped, Request
  <2>2. TablesTyped'
    BY <1>q, <1>20, <2>1 DEF StartClock, TablesTyped
  <2> QED
    BY <1>20, <2>2, AnswerTyped DEF StartClock, RequestsTyped
<1>21. CASE ClearClock(r)
  <2>1. TablesTyped' /\ reqs' = reqs
    BY <1>q, <1>21 DEF ClearClock, TablesTyped
  <2> QED
    BY <2>1 DEF TypeInv, TypeOK, RequestsTyped
<1>22. CASE DeleteUser(r)
  <2> DEFINE q(op, u) == [Idle EXCEPT !.op = op, !.stage = "write", !.who = u]
  <2>1. PICK op \in {"remove", "purge"}, u \in accounts : Await(r, q(op, u))
    BY <1>22 DEF DeleteUser
  <2>2. q(op, u) \in Request /\ WellFormed(q(op, u))
    BY <1>q DEF Idle, Request, Stages, OpNames, WellFormed, TablesTyped
  <2> HIDE DEF q
  <2>3. UNCHANGED tables
    BY <1>22 DEF DeleteUser
  <2> QED
    BY <2>1, <2>2, <2>3, AwaitTyped, TablesStay DEF RequestsTyped
<1>23. CASE PurgeUser(r)
  <2> DEFINE u == reqs[r].who
  <2>1. clocks' \in [Users -> Projects \cup {None, Off}] /\ accounts' \subseteq Users
    BY <1>q, <1>23 DEF PurgeUser, TablesTyped
  <2>2. revisions' \subseteq revisions
    BY <1>23 DEF PurgeUser, RevisionsWithout
  <2>3. entries' \in [Entries -> Row \cup {None}]
    BY <1>q, <1>23 DEF PurgeUser, TablesTyped
  <2>4. projects' \in [Projects -> ProjectRow]
    BY <1>q, <1>23 DEF PurgeUser, TablesTyped, ProjectRow
  <2>5. TablesTyped'
    BY <1>q, <1>23, <2>1, <2>2, <2>3, <2>4 DEF PurgeUser, TablesTyped
  <2> QED
    BY <1>23, <2>5, AnswerTyped DEF PurgeUser, RequestsTyped
<1>24. CASE SetLimits(r)
  <2>1. limits' \in [instance : Limits, personal : [Users -> Limits]]
    BY <1>q, <1>24 DEF SetLimits, TablesTyped
  <2>2. TablesTyped' /\ reqs' = reqs
    BY <1>q, <1>24, <2>1 DEF SetLimits, TablesTyped
  <2> QED
    BY <2>2 DEF TypeInv, TypeOK, RequestsTyped
<1>25. CASE Abandon(r)
  <2>1. UNCHANGED tables /\ Answer(r)
    BY <1>25 DEF Abandon
  <2> QED
    BY <2>1, AnswerTyped, TablesStay DEF RequestsTyped
<1> QED
  BY <1>1, <1>2, <1>3, <1>4, <1>5, <1>6, <1>7, <1>8, <1>9, <1>10, <1>11, <1>12, <1>13,
     <1>14, <1>15, <1>16, <1>17, <1>18, <1>19, <1>20, <1>21, <1>22, <1>23, <1>24, <1>25
  DEF Step

\* A step that is none of a request's leaves everything as it is.
LEMMA StutterTypeInv ==
  ASSUME TypeInv, UNCHANGED vars
  PROVE  TypeInv'
BY DEF TypeInv, TypeOK, vars

\* Every variable of the server and every record of a request in flight holds
\* what its column or its stage may hold, for any accounts, projects, entries
\* and number of requests.
THEOREM TypeCorrect == Spec => []TypeOK
<1>1. Init => TypeInv
  BY InitTypeInv
<1>2. TypeInv /\ [Next]_vars => TypeInv'
  BY StepTypeInv, StutterTypeInv DEF Next
<1>3. TypeInv => TypeOK
  BY DEF TypeInv
<1> QED
  BY <1>1, <1>2, <1>3, PTL DEF Spec

-----------------------------------------------------------------------------
(* Whose project an entry is on.                                           *)

\* An id no project has had yet has no owner.
UnbornUnowned == \A p \in Projects : projects[p].status = "unborn" => projects[p].owner = None

\* What a request has found out about a project's owner before it writes.
Pending(q) ==
  /\ q.stage = "budget" => Owned(q.row.user, q.row.project)
  /\ q.stage = "write" /\ q.op \in {"create", "update", "transfer"}
       => Owned(q.row.user, q.row.project)
  /\ q.op = "clock" => Owned(q.who, q.project)
  /\ q.op = "project" => projects[q.project].owner = q.who

OwnInv ==
  /\ TypeInv
  /\ UnbornUnowned
  /\ OnOwnProject
  /\ \A r \in Reqs : Pending(reqs[r])

\* The steps that change a table; every other one only reads.
Writes(r) ==
  \/ InsertEntry(r) \/ ReplaceEntry(r) \/ RemoveEntry(r)
  \/ CreateProject(r) \/ WriteProject(r) \/ DropProject(r)
  \/ StartClock(r) \/ ClearClock(r) \/ PurgeUser(r) \/ SetLimits(r)

LEMMA ReadsOrWrites ==
  ASSUME NEW r \in Reqs, Step(r)
  PROVE  UNCHANGED tables \/ Writes(r)
BY DEF Step, Writes, BookEntry, CheckBudget, Authorise, ReadForUpdate, CheckTarget,
   ReadForTransfer, CheckTransferTarget, ReadForDelete, ReadProject, ReadForDrop,
   CountEntries, CountClocks, CheckClock, DeleteUser, Abandon

\* A project that has an owner keeps them: CreateProject takes an id nobody
\* has had, and WriteProject puts back the owner it read.
LEMMA OwnersStay ==
  ASSUME OwnInv, NEW r \in Reqs, Step(r)
  PROVE  /\ UnbornUnowned'
         /\ \A p \in Projects : projects[p].owner # None
              => projects'[p].owner = projects[p].owner
<1>q. /\ reqs[r] \in Request /\ WellFormed(reqs[r]) /\ Pending(reqs[r])
      /\ projects \in [Projects -> ProjectRow] /\ UnbornUnowned
  BY DEF OwnInv, TypeInv, TypeOK
<1>1. CASE CreateProject(r)
  BY <1>q, <1>1, ConstantsAssumption DEF CreateProject, UnbornUnowned, ProjectRow, Statuses
<1>2. CASE WriteProject(r)
  BY <1>q, <1>2 DEF WriteProject, At, WellFormed, Pending, UnbornUnowned, ProjectRow, Statuses
<1>3. CASE DropProject(r)
  BY <1>q, <1>3 DEF DropProject, At, WellFormed, UnbornUnowned, ProjectRow, Statuses
<1>4. CASE PurgeUser(r)
  BY <1>q, <1>4 DEF PurgeUser, UnbornUnowned, ProjectRow, Statuses
<1>5. CASE projects' = projects
  BY <1>q, <1>5 DEF UnbornUnowned
<1> QED
  BY <1>1, <1>2, <1>3, <1>4, <1>5, ReadsOrWrites
  DEF Writes, InsertEntry, ReplaceEntry, RemoveEntry, StartClock, ClearClock,
      SetLimits, tables

\* So what was somebody's own project stays it.
LEMMA OwnedStays ==
  ASSUME OwnInv, NEW r \in Reqs, Step(r), NEW u \in Users, NEW p \in Projects \cup {None},
         Owned(u, p)
  PROVE  Owned(u, p)'
BY OwnersStay, ConstantsAssumption DEF Owned

\* Every row an entry table holds after a step was in it before, or is the one
\* the request was about to write.
LEMMA EntriesOwned ==
  ASSUME OwnInv, NEW r \in Reqs, Step(r), NEW e \in Entries, entries'[e] # None
  PROVE  Owned(entries[e].user, entries[e].project)'
<1>q. /\ reqs[r] \in Request /\ WellFormed(reqs[r]) /\ Pending(reqs[r])
      /\ entries \in [Entries -> Row \cup {None}]
      /\ Exists(e) => Owned(entries[e].user, entries[e].project)
  BY DEF OwnInv, TypeInv, TypeOK, OnOwnProject
<1>1. CASE entries'[e] = entries[e]
  <2>1. /\ entries[e].user \in Users /\ entries[e].project \in Projects \cup {None}
        /\ Owned(entries[e].user, entries[e].project)
    BY <1>q, <1>1 DEF Row, Exists
  <2> QED
    BY <1>1, <2>1, OwnersStay, ConstantsAssumption DEF Owned
<1>2. CASE entries'[e] = reqs[r].row /\ (InsertEntry(r) \/ ReplaceEntry(r))
  <2>1. reqs[r].row \in Row /\ Owned(reqs[r].row.user, reqs[r].row.project)
    BY <1>q, <1>2 DEF InsertEntry, ReplaceEntry, At, WellFormed, Pending
  <2> QED
    BY <1>2, <2>1, OwnersStay, ConstantsAssumption DEF Owned, Row
<1> QED
  BY <1>q, <1>1, <1>2, ReadsOrWrites
  DEF Writes, InsertEntry, ReplaceEntry, RemoveEntry, CreateProject, WriteProject,
      DropProject, StartClock, ClearClock, PurgeUser, SetLimits, tables

\* Every version that is kept was kept before, or is the row it replaces.
LEMMA RevisionsOwned ==
  ASSUME OwnInv, NEW r \in Reqs, Step(r)
  PROVE  (\A w \in revisions : Owned(w.row.user, w.row.project))'
<1>q. /\ reqs[r] \in Request /\ WellFormed(reqs[r])
      /\ entries \in [Entries -> Row \cup {None}]
      /\ revisions \subseteq [id : 1 .. lastRevision, entry : Entries, row : Row]
      /\ \A w \in revisions : Owned(w.row.user, w.row.project)
      /\ \A e \in Entries : Exists(e) => Owned(entries[e].user, entries[e].project)
  BY DEF OwnInv, TypeInv, TypeOK, OnOwnProject
<1>1. SUFFICES ASSUME NEW w \in revisions'
               PROVE  w.row \in Row /\ Owned(w.row.user, w.row.project)
  BY OwnersStay, ConstantsAssumption DEF Owned, Row
<1>2. CASE w \in revisions
  BY <1>q, <1>2
<1>3. CASE ReplaceEntry(r)
  BY <1>q, <1>2, <1>3 DEF ReplaceEntry, WellFormed, Exists, RevisionOf
<1> QED
  BY <1>2, <1>3, ReadsOrWrites
  DEF Writes, InsertEntry, RemoveEntry, CreateProject, WriteProject, DropProject,
      StartClock, ClearClock, PurgeUser, RevisionsWithout, SetLimits, tables

\* Every clock that runs ran before, or is the one that is being started.
LEMMA ClocksOwned ==
  ASSUME OwnInv, NEW r \in Reqs, Step(r), NEW u \in Users, clocks'[u] # Off
  PROVE  Owned(u, clocks[u])'
<1>q. /\ reqs[r] \in Request /\ WellFormed(reqs[r]) /\ Pending(reqs[r])
      /\ clocks \in [Users -> Projects \cup {None, Off}]
      /\ clocks[u] # Off => Owned(u, clocks[u])
  BY DEF OwnInv, TypeInv, TypeOK, OnOwnProject
<1>1. CASE clocks'[u] = clocks[u]
  BY <1>q, <1>1, OwnersStay, ConstantsAssumption DEF Owned
<1>2. CASE StartClock(r) /\ u = reqs[r].who
  <2>1. clocks'[u] = reqs[r].project /\ Owned(u, reqs[r].project)
    BY <1>q, <1>2 DEF StartClock, At, Pending
  <2>2. reqs[r].project \in Projects \cup {None}
    BY <1>q DEF Request
  <2> QED
    BY <2>1, <2>2, OwnersStay, ConstantsAssumption DEF Owned
<1> QED
  BY <1>q, <1>1, <1>2, ReadsOrWrites
  DEF Writes, InsertEntry, ReplaceEntry, RemoveEntry, CreateProject, WriteProject,
      DropProject, StartClock, ClearClock, PurgeUser, SetLimits, tables

\* What one request found out, no other request makes untrue.
LEMMA OthersPending ==
  ASSUME OwnInv, NEW r \in Reqs, Step(r), NEW x \in Reqs, reqs'[x] = reqs[x]
  PROVE  Pending(reqs[x])'
<1>1. reqs[x] \in Request /\ WellFormed(reqs[x]) /\ Pending(reqs[x])
  BY DEF OwnInv, TypeInv, TypeOK
<1>2. \A u \in Users, p \in Projects \cup {None} : Owned(u, p) => Owned(u, p)'
  BY OwnedStays
<1>3. reqs[x].row \in Row => reqs[x].row.user \in Users
                            /\ reqs[x].row.project \in Projects \cup {None}
  BY DEF Row
<1>4. reqs[x].op = "clock" => reqs[x].who \in Users /\ reqs[x].project \in Projects \cup {None}
  BY <1>1 DEF WellFormed, Request
<1>5. reqs[x].op = "project" => projects'[reqs[x].project].owner = reqs[x].who
  BY <1>1, OwnersStay, ConstantsAssumption DEF WellFormed, Pending
<1> QED
  BY <1>1, <1>2, <1>3, <1>4, <1>5 DEF Pending, WellFormed

\* What a request has found out itself when it comes to a new stage.
LEMMA OwnPending ==
  ASSUME OwnInv, NEW r \in Reqs, Step(r)
  PROVE  Pending(reqs[r])'
<1>q. /\ reqs \in [Reqs -> Request] /\ WellFormed(reqs[r]) /\ Pending(reqs[r])
      /\ reqs[r] \in Request
      /\ accounts \subseteq Users
      /\ entries \in [Entries -> Row \cup {None}]
      /\ \A e \in Entries : Exists(e) => Owned(entries[e].user, entries[e].project)
  BY DEF OwnInv, TypeInv, TypeOK, OnOwnProject
<1>1. CASE Answer(r)
  BY <1>q, <1>1 DEF Answer, Idle, Pending
<1>2. CASE BookEntry(r)
  BY <1>q, <1>2 DEF BookEntry, Await, Idle, Pending, Owned, Bookable, VisibleTo, tables
<1>3. CASE CheckBudget(r)
  BY <1>q, <1>3 DEF CheckBudget, MoveOn, Pending, Owned, Request, tables
<1>4. CASE Authorise(r)
  BY <1>q, <1>4 DEF Authorise, Await, Idle, Pending
<1>5. CASE ReadForUpdate(r)
  <2> DEFINE e == reqs[r].entry
  <2>1. /\ At(r, "update", "read") /\ Exists(e) /\ projects' = projects
        /\ reqs[r].op = "update" /\ e \in Entries
    BY <1>q, <1>5 DEF ReadForUpdate, At, WellFormed, tables
  <2> DEFINE moved(row) == row.user # entries[e].user \/ row.project # entries[e].project
             stageFor(row) == IF moved(row) /\ row.project # None THEN "target" ELSE "budget"
  <2>r. PICK row \in Row :
          Await(r, [reqs[r] EXCEPT !.stage = stageFor(row), !.row = row])
    BY <1>5 DEF ReadForUpdate
  <2> DEFINE stage == stageFor(row)
  <2>2. Await(r, [reqs[r] EXCEPT !.stage = stage, !.row = row])
    BY <2>r
  <2>s. stage = "budget" => \/ row.project = None
                            \/ row.user = entries[e].user /\ row.project = entries[e].project
    OBVIOUS
  <2>w. stage # "write"
    OBVIOUS
  <2> HIDE DEF stage, stageFor, moved
  <2>3. stage = "budget" => Owned(row.user, row.project)
    BY <1>q, <2>1, <2>s DEF Owned
  <2>4. reqs'[r] = [reqs[r] EXCEPT !.stage = stage, !.row = row]
    BY <1>q, <2>2 DEF Await
  <2>5. /\ reqs'[r].stage = stage /\ reqs'[r].row = row /\ reqs'[r].op = "update"
    BY <1>q, <2>1, <2>4 DEF Request
  <2> QED
    BY <2>1, <2>3, <2>5, <2>w DEF Pending, Owned
<1>6. CASE CheckTarget(r)
  BY <1>q, <1>6 DEF CheckTarget, At, MoveOn, Pending, Owned, Bookable, VisibleTo, Request, tables
<1>7. CASE ReadForTransfer(r)
  <2>1. reqs[r].op = "transfer" /\ projects' = projects
    BY <1>7 DEF ReadForTransfer, At, tables
  <2>2. reqs'[r].op = "transfer" /\ reqs'[r].stage = "target"
    BY <1>q, <1>7, <2>1 DEF ReadForTransfer, Await, Request
  <2> QED
    BY <2>2 DEF Pending
<1>8. CASE CheckTransferTarget(r)
  BY <1>q, <1>8 DEF CheckTransferTarget, At, MoveOn, Pending, Owned, VisibleTo, Request, tables
<1>9. CASE ReadForDelete(r)
  BY <1>q, <1>9 DEF ReadForDelete, At, MoveOn, Pending, Request
<1>10. CASE ReadProject(r)
  BY <1>q, <1>10 DEF ReadProject, Await, Idle, Pending, VisibleTo, tables
<1>11. CASE ReadForDrop(r)
  BY <1>q, <1>11 DEF ReadForDrop, Await, Idle, Pending
<1>12. CASE CountEntries(r) \/ CountClocks(r)
  BY <1>q, <1>12 DEF CountEntries, CountClocks, At, MoveOn, Pending, Request
<1>13. CASE CheckClock(r)
  BY <1>q, <1>13 DEF CheckClock, Await, Idle, Pending, Owned, Bookable, VisibleTo, tables
<1>14. CASE DeleteUser(r)
  BY <1>q, <1>14 DEF DeleteUser, Await, Idle, Pending
<1>15. CASE reqs' = reqs
  BY <1>15, OthersPending
<1> QED
  BY <1>1, <1>2, <1>3, <1>4, <1>5, <1>6, <1>7, <1>8, <1>9, <1>10, <1>11, <1>12, <1>13,
     <1>14, <1>15
  DEF Step, InsertEntry, ReplaceEntry, RemoveEntry, CreateProject, WriteProject,
      DropProject, StartClock, ClearClock, PurgeUser, SetLimits, Abandon

\* A step changes no request's record but its own.
LEMMA OtherRequestsStay ==
  ASSUME TypeInv, NEW r \in Reqs, Step(r), NEW x \in Reqs, x # r
  PROVE  reqs'[x] = reqs[x]
BY DEF Step, BookEntry, CheckBudget, InsertEntry, Authorise, ReadForUpdate, CheckTarget,
   ReadForTransfer, CheckTransferTarget, ReplaceEntry, ReadForDelete, RemoveEntry,
   CreateProject, ReadProject, WriteProject, ReadForDrop, CountEntries, CountClocks,
   DropProject, CheckClock, StartClock, ClearClock, DeleteUser, PurgeUser, SetLimits,
   Abandon, Await, MoveOn, Answer, TypeInv, TypeOK

LEMMA StepOwnInv ==
  ASSUME OwnInv, NEW r \in Reqs, Step(r)
  PROVE  OwnInv'
<1>1. TypeInv'
  BY StepTypeInv DEF OwnInv
<1>2. UnbornUnowned'
  BY OwnersStay
<1>3. OnOwnProject'
  BY EntriesOwned, RevisionsOwned, ClocksOwned DEF OnOwnProject, Exists
<1>4. ASSUME NEW x \in Reqs PROVE Pending(reqs[x])'
  BY OwnPending, OthersPending, OtherRequestsStay DEF OwnInv
<1> QED
  BY <1>1, <1>2, <1>3, <1>4 DEF OwnInv

\* An entry, a replaced version of one and a running clock are only ever on a
\* project of their owner's: no interleaving of any number of bookings,
\* corrections, moves between accounts, transfers, project updates, deletions
\* and purges puts somebody's hours on somebody else's project.
THEOREM OwnProjects == Spec => []OnOwnProject
<1>1. Init => OwnInv
  <2> SUFFICES ASSUME Init PROVE OwnInv
    OBVIOUS
  <2>1. TypeInv
    BY InitTypeInv
  <2>2. \A r \in Reqs : Pending(reqs[r])
    BY DEF Init, Idle, Pending
  <2> QED
    BY <2>1, <2>2 DEF Init, OwnInv, UnbornUnowned, OnOwnProject, Exists
<1>2. OwnInv /\ [Next]_vars => OwnInv'
  <2> SUFFICES ASSUME OwnInv, [Next]_vars PROVE OwnInv'
    OBVIOUS
  <2>1. CASE Next
    BY <2>1, StepOwnInv DEF Next
  <2>2. CASE UNCHANGED vars
    <3>1. TypeInv'
      BY <2>2, StutterTypeInv DEF OwnInv
    <3>2. UnbornUnowned' /\ OnOwnProject'
      BY <2>2 DEF vars, OwnInv, UnbornUnowned, OnOwnProject, Exists, Owned
    <3>3. \A r \in Reqs : Pending(reqs[r])'
      BY <2>2 DEF vars, OwnInv, Pending, Owned
    <3> QED
      BY <3>1, <3>2, <3>3 DEF OwnInv
  <2> QED
    BY <2>1, <2>2
<1>3. OwnInv => OnOwnProject
  BY DEF OwnInv
<1> QED
  BY <1>1, <1>2, <1>3, PTL DEF Spec

-----------------------------------------------------------------------------
(* References, where the database enforces them.                           *)

LEMMA StepNoOrphans ==
  ASSUME EnforceFK, TypeInv, NoOrphans, NEW r \in Reqs, Step(r)
  PROVE  NoOrphans'
<1>q. /\ reqs[r] \in Request /\ WellFormed(reqs[r])
      /\ entries \in [Entries -> Row \cup {None}]
      /\ projects \in [Projects -> ProjectRow]
      /\ clocks \in [Users -> Projects \cup {None, Off}]
      /\ revisions \subseteq [id : 1 .. lastRevision, entry : Entries, row : Row]
      /\ accounts \subseteq Users
  BY DEF TypeInv, TypeOK
<1>u. CASE UNCHANGED <<accounts, projects, entries, revisions, clocks>>
  BY <1>u DEF NoOrphans, Exists, Live
<1>1. CASE InsertEntry(r)
  <2>1. reqs[r].row \in Row /\ RefsHold(reqs[r].row)
    BY <1>q, <1>1 DEF InsertEntry, At, WellFormed
  <2>2. reqs[r].row # None
    BY <2>1, ConstantsAssumption DEF Row
  <2> QED
    BY <1>q, <1>1, <2>1, <2>2 DEF InsertEntry, NoOrphans, Exists, Live, RefsHold
<1>2. CASE ReplaceEntry(r)
  <2>1. reqs[r].row \in Row /\ RefsHold(reqs[r].row) /\ reqs[r].entry \in Entries
    BY <1>q, <1>2 DEF ReplaceEntry, WellFormed
  <2>2. reqs[r].row # None
    BY <2>1, ConstantsAssumption DEF Row
  <2> QED
    BY <1>q, <1>2, <2>1, <2>2 DEF ReplaceEntry, NoOrphans, Exists, Live, RefsHold, RevisionOf
<1>3. CASE RemoveEntry(r)
  BY <1>q, <1>3 DEF RemoveEntry, At, WellFormed, NoOrphans, Exists, Live
<1>4. CASE CreateProject(r)
  BY <1>q, <1>4 DEF CreateProject, NoOrphans, Exists, Live
<1>5. CASE WriteProject(r)
  BY <1>q, <1>5 DEF WriteProject, At, WellFormed, NoOrphans, Exists, Live
<1>6. CASE DropProject(r)
  BY <1>q, <1>6 DEF DropProject, At, WellFormed, NoOrphans, Exists, Live, BookedOn, TimedOn, Row
<1>7. CASE StartClock(r)
  BY <1>q, <1>7 DEF StartClock, At, WellFormed, NoOrphans, Exists, Live
<1>8. CASE ClearClock(r)
  BY <1>q, <1>8 DEF ClearClock, NoOrphans, Exists, Live
<1>9. CASE PurgeUser(r)
  <2> DEFINE u == reqs[r].who
  <2>1. /\ PurgeAllowed(u) /\ accounts' = accounts \ {u}
        /\ clocks' = [clocks EXCEPT ![u] = Off]
        /\ revisions' = RevisionsWithout(u)
        /\ \A e \in Entries : entries'[e] = IF e \in BookedBy(u) THEN None ELSE entries[e]
        /\ \A p \in Projects : p \notin OwnedBy(u) => projects'[p] = projects[p]
    BY <1>9 DEF PurgeUser
  <2>2. ASSUME NEW e \in Entries, entries'[e] # None
        PROVE  /\ entries[e].user \in accounts'
               /\ entries[e].project # None => Live(entries[e].project)'
               /\ entries'[e] = entries[e]
    <3>1. entries'[e] = entries[e] /\ e \notin BookedBy(u) /\ Exists(e) /\ entries[e] \in Row
      BY <1>q, <2>1, <2>2 DEF Exists
    <3>2. entries[e].user \in accounts /\ entries[e].user # u
      BY <3>1 DEF NoOrphans, BookedBy
    <3>3. entries[e].project # None => /\ entries[e].project \in Projects
                                       /\ entries[e].project \notin OwnedBy(u)
                                       /\ Live(entries[e].project)
      BY <2>1, <3>1 DEF NoOrphans, PurgeAllowed, BookedOn, Row
    <3> QED
      BY <2>1, <3>1, <3>2, <3>3 DEF Live
  <2>3. ASSUME NEW v \in revisions'
        PROVE  Exists(v.entry)' /\ v.row.user \in accounts'
    <3>1. v \in revisions /\ v.row.user # u /\ v.entry \in Entries /\ v.entry \notin BookedBy(u)
      BY <1>q, <2>1, <2>3 DEF RevisionsWithout, PurgeAllowed
    <3> QED
      BY <2>1, <3>1 DEF NoOrphans, Exists
  <2>4. ASSUME NEW x \in Users, clocks'[x] # Off
        PROVE  x \in accounts' /\ (clocks'[x] # None => Live(clocks[x])') /\ clocks'[x] = clocks[x]
    <3>1. x # u /\ clocks'[x] = clocks[x]
      BY <1>q, <2>1, <2>4
    <3>2. x \in accounts /\ (clocks[x] # None => Live(clocks[x]))
      BY <2>4, <3>1 DEF NoOrphans
    <3>3. clocks[x] # None => clocks[x] \in Projects /\ clocks[x] \notin OwnedBy(u)
      BY <1>q, <2>1, <2>4, <3>1 DEF PurgeAllowed, TimedOn
    <3> QED
      BY <2>1, <3>1, <3>2, <3>3 DEF Live
  <2> QED
    BY <2>2, <2>3, <2>4 DEF NoOrphans, Exists, Live
<1> QED
  BY <1>u, <1>1, <1>2, <1>3, <1>4, <1>5, <1>6, <1>7, <1>8, <1>9, ReadsOrWrites
  DEF Writes, SetLimits, tables

\* Where the database enforces the schema's references, no interleaving leaves
\* hours without their project or account, a clock on a project that is gone, or
\* a version of an entry that is: the statement that would is refused, and the
\* checks the services make beforehand are not what it rests on.
THEOREM References == EnforceFK => (Spec => []NoOrphans)
<1> SUFFICES ASSUME EnforceFK PROVE Spec => []NoOrphans
  OBVIOUS
<1> DEFINE Inv == TypeInv /\ NoOrphans
<1>1. Init => Inv
  <2> SUFFICES ASSUME Init PROVE Inv
    OBVIOUS
  <2> QED
    BY InitTypeInv DEF Init, NoOrphans, Exists
<1>2. Inv /\ [Next]_vars => Inv'
  <2> SUFFICES ASSUME Inv, [Next]_vars PROVE Inv'
    OBVIOUS
  <2>1. CASE Next
    BY <2>1, StepTypeInv, StepNoOrphans DEF Next
  <2>2. CASE UNCHANGED vars
    BY <2>2, StutterTypeInv DEF vars, NoOrphans, Exists, Live
  <2> QED
    BY <2>1, <2>2
<1>3. Inv => NoOrphans
  OBVIOUS
<1> HIDE DEF Inv
<1> QED
  BY <1>1, <1>2, <1>3, PTL DEF Spec

-----------------------------------------------------------------------------
(* History.                                                                *)

\* Save takes an id the database has not handed out, so it never writes over an
\* entry that is there.
Issued == \A e \in Entries : Exists(e) => e \in issued

HistoryInv == TypeInv /\ Issued

LEMMA StepIssued ==
  ASSUME HistoryInv, NEW r \in Reqs, Step(r)
  PROVE  Issued'
<1>q. /\ reqs[r] \in Request /\ WellFormed(reqs[r])
      /\ entries \in [Entries -> Row \cup {None}]
      /\ Issued
  BY DEF HistoryInv, TypeInv, TypeOK
<1>1. CASE UNCHANGED <<entries, issued>>
  BY <1>q, <1>1 DEF Issued, Exists
<1>2. CASE InsertEntry(r)
  BY <1>q, <1>2 DEF InsertEntry, Issued, Exists
<1>3. CASE ReplaceEntry(r)
  BY <1>q, <1>3 DEF ReplaceEntry, Issued, Exists
<1>4. CASE RemoveEntry(r)
  BY <1>q, <1>4 DEF RemoveEntry, Issued, Exists
<1>5. CASE PurgeUser(r)
  BY <1>q, <1>5 DEF PurgeUser, BookedBy, Issued, Exists
<1> QED
  BY <1>1, <1>2, <1>3, <1>4, <1>5, ReadsOrWrites
  DEF Writes, CreateProject, WriteProject, DropProject, StartClock, ClearClock,
      SetLimits, tables

\* What HistoryKept says of one entry in one step.
EntryHistoryKept(e) ==
  Exists(e) /\ entries'[e] # None =>
    {v \in revisions' : v.entry = e} =
      {v \in revisions : v.entry = e /\ v.row.user \notin accounts \ accounts'} \cup
        IF entries'[e] = entries[e] THEN {} ELSE {RevisionOf(e, lastRevision')}

LEMMA StepHistoryKept ==
  ASSUME HistoryInv, NEW r \in Reqs, Step(r), NEW e \in Entries
  PROVE  EntryHistoryKept(e)
<1>q. /\ reqs[r] \in Request /\ WellFormed(reqs[r])
      /\ entries \in [Entries -> Row \cup {None}]
      /\ Issued
  BY DEF HistoryInv, TypeInv, TypeOK
<1> SUFFICES ASSUME Exists(e), entries'[e] # None
             PROVE  {v \in revisions' : v.entry = e} =
                      {v \in revisions : v.entry = e /\ v.row.user \notin accounts \ accounts'} \cup
                        IF entries'[e] = entries[e] THEN {} ELSE {RevisionOf(e, lastRevision')}
  BY DEF EntryHistoryKept
<1>1. CASE UNCHANGED <<entries, revisions, accounts>>
  BY <1>1
<1>2. CASE InsertEntry(r)
  <2>1. entries'[e] = entries[e] /\ UNCHANGED <<revisions, accounts>>
    BY <1>q, <1>2 DEF InsertEntry, Issued
  <2> QED
    BY <2>1
<1>3. CASE ReplaceEntry(r)
  <2>1. accounts' = accounts /\ entries' = [entries EXCEPT ![reqs[r].entry] = reqs[r].row]
    BY <1>3 DEF ReplaceEntry
  <2>2. CASE Says(entries[reqs[r].entry], reqs[r].row)
    <3>1. revisions' = revisions /\ entries'[e] = entries[e]
      BY <1>q, <1>3, <2>1, <2>2 DEF ReplaceEntry, Says
    <3> QED
      BY <2>1, <3>1
  <2>3. CASE ~Says(entries[reqs[r].entry], reqs[r].row)
    <3>1. revisions' = revisions \cup {RevisionOf(reqs[r].entry, lastRevision')}
      BY <1>3, <2>3 DEF ReplaceEntry
    <3>2. RevisionOf(reqs[r].entry, lastRevision').entry = reqs[r].entry
      BY DEF RevisionOf
    <3>3. CASE e = reqs[r].entry
      <4>1. entries'[e] # entries[e]
        BY <1>q, <2>1, <2>3, <3>3 DEF Says
      <4> QED
        BY <2>1, <3>1, <3>2, <3>3, <4>1
    <3>4. CASE e # reqs[r].entry
      <4>1. entries'[e] = entries[e]
        BY <1>q, <2>1, <3>4
      <4> QED
        BY <2>1, <3>1, <3>2, <3>4, <4>1
    <3> QED
      BY <3>3, <3>4
  <2> QED
    BY <2>2, <2>3
<1>4. CASE RemoveEntry(r)
  <2>1. e # reqs[r].entry /\ entries'[e] = entries[e] /\ accounts' = accounts
    BY <1>q, <1>4 DEF RemoveEntry
  <2>2. revisions' = {v \in revisions : v.entry # reqs[r].entry}
    BY <1>4 DEF RemoveEntry
  <2> QED
    BY <2>1, <2>2
<1>5. CASE PurgeUser(r)
  <2>1. /\ reqs[r].who \in accounts /\ accounts' = accounts \ {reqs[r].who}
        /\ revisions' = {v \in revisions : v.row.user # reqs[r].who}
        /\ entries'[e] = entries[e]
    BY <1>q, <1>5 DEF PurgeUser, RevisionsWithout
  <2>2. accounts \ accounts' = {reqs[r].who}
    BY <2>1
  <2> QED
    BY <2>1, <2>2
<1> QED
  BY <1>1, <1>2, <1>3, <1>4, <1>5, ReadsOrWrites
  DEF Writes, CreateProject, WriteProject, DropProject, StartClock, ClearClock,
      SetLimits, tables

\* Whoever corrects an entry, and however their steps fall between those of others
\* who correct, move or delete it or purge an account, the version each correction
\* replaced is kept under the entry, and only deleting the entry, or purging the
\* account a version was booked for, takes one away.
THEOREM HistoryStays == Spec => HistoryKept
<1> DEFINE Kept == \A e \in Entries : Exists(e) /\ entries'[e] # None =>
       {v \in revisions' : v.entry = e} =
         {v \in revisions : v.entry = e /\ v.row.user \notin accounts \ accounts'} \cup
           IF entries'[e] = entries[e] THEN {} ELSE {RevisionOf(e, lastRevision')}
<1>1. Init => HistoryInv
  BY InitTypeInv DEF HistoryInv, Issued, Init, Exists
<1>2. HistoryInv /\ [Next]_vars => HistoryInv'
  <2> SUFFICES ASSUME HistoryInv, [Next]_vars PROVE HistoryInv'
    OBVIOUS
  <2>1. CASE Next
    BY <2>1, StepTypeInv, StepIssued DEF Next, HistoryInv
  <2>2. CASE UNCHANGED vars
    BY <2>2, StutterTypeInv DEF vars, HistoryInv, Issued, Exists
  <2> QED
    BY <2>1, <2>2
<1>3. HistoryInv /\ [Next]_vars => [Kept]_vars
  BY StepHistoryKept DEF Next, EntryHistoryKept
<1> HIDE DEF Kept
<1>4. Spec => [][Kept]_vars
  BY <1>1, <1>2, <1>3, PTL DEF Spec
<1> QED
  BY <1>4, PTL DEF HistoryKept, Kept

-----------------------------------------------------------------------------
(* Adding up the hours of a set of entries.                                *)

\* A set of numbers has a least one.
LEMMA Least == ASSUME NEW T \in SUBSET Nat, T # {} PROVE \E x \in T : \A y \in T : x <= y
<1> DEFINE Before == OpToRel(<, Nat)
<1>1. IsWellFoundedOn(Before, Nat)
  BY NatLessThanWellFounded, Zenon
<1>2. \A y, x \in Nat : y < x => <<y, x>> \in Before
  BY DEF OpToRel
<1> HIDE DEF Before
<1>3. PICK x \in T : \A y \in T : ~ (<<y, x>> \in Before)
  BY <1>1, WFMin
<1>4. ASSUME NEW y \in T PROVE x <= y
  <2>1. x \in Nat /\ y \in Nat /\ ~(<<y, x>> \in Before)
    BY <1>3
  <2>2. ~(y < x)
    BY <1>2, <2>1
  <2> QED
    BY <2>1, <2>2
<1> QED
  BY <1>4


\* Among finite sets there is one of whose proper subsets none is among them.
LEMMA Smallest ==
  ASSUME NEW B, B # {}, \A T \in B : IsFiniteSet(T)
  PROVE  \E T \in B : \A U \in SUBSET T : U \in B => U = T
<1> DEFINE Sizes == {Cardinality(T) : T \in B}
<1>1. Sizes \in SUBSET Nat /\ Sizes # {}
  BY FS_CardinalityType
<1>2. PICK n \in Sizes : \A m \in Sizes : n <= m
  BY <1>1, Least
<1>3. PICK T \in B : Cardinality(T) = n
  BY <1>2
<1>4. ASSUME NEW U \in SUBSET T, U \in B PROVE U = T
  <2>1. Cardinality(U) \in Nat /\ Cardinality(T) \in Nat
    BY <1>4, FS_CardinalityType
  <2>2. Cardinality(T) <= Cardinality(U) /\ Cardinality(U) <= Cardinality(T)
    BY <1>2, <1>3, <1>4, FS_Subset
  <2> QED
    BY <1>4, <2>1, <2>2, FS_Subset
<1> QED
  BY <1>4

\* The hours of the entries S as `ents' holds them, and the function in which
\* they are added up, one entry chosen after the other.
HoursOf(ents, S) == MapThenSumSet(LAMBDA e : ents[e].hours, S)

OneOf(S) == CHOOSE x \in S : TRUE

AddsUp(ents, S, it) ==
  it = [s \in SUBSET S |-> IF s = {} THEN 0
                           ELSE ents[OneOf(s)].hours + it[s \ {OneOf(s)}]]

LEMMA HoursAddUp ==
  ASSUME NEW ents, NEW S
  PROVE  HoursOf(ents, S) = (CHOOSE it : AddsUp(ents, S, it))[S]
BY DEF HoursOf, MapThenSumSet, MapThenFoldSet, AddsUp, OneOf

LEMMA OneOfIsIn ==
  ASSUME NEW S, S # {}
  PROVE  OneOf(S) \in S
BY DEF OneOf

\* Two such functions, over different sets and of different tables, agree on
\* the sets both have whose entries are the same in both.
LEMMA SumsAgree ==
  ASSUME NEW ents1, NEW ents2, NEW S1, NEW S2, NEW it1, NEW it2,
         AddsUp(ents1, S1, it1), AddsUp(ents2, S2, it2),
         NEW T \in SUBSET S1, T \in SUBSET S2, IsFiniteSet(T),
         \A e \in T : ents1[e].hours = ents2[e].hours
  PROVE  it1[T] = it2[T]
<1> DEFINE B == {U \in SUBSET T : it1[U] # it2[U]}
<1> SUFFICES ASSUME B # {} PROVE FALSE
  OBVIOUS
<1>1. \A U \in B : IsFiniteSet(U)
  BY FS_Subset
<1>2. PICK U \in B : \A V \in SUBSET U : V \in B => V = U
  <2> HIDE DEF B
  <2> QED
    BY <1>1, Smallest
<1>3. U \in SUBSET S1 /\ U \in SUBSET S2 /\ U \in SUBSET T
  OBVIOUS
<1>4. /\ it1[U] = IF U = {} THEN 0 ELSE ents1[OneOf(U)].hours + it1[U \ {OneOf(U)}]
      /\ it2[U] = IF U = {} THEN 0 ELSE ents2[OneOf(U)].hours + it2[U \ {OneOf(U)}]
  BY <1>3 DEF AddsUp
<1>5. U # {}
  BY <1>4
<1>6. OneOf(U) \in U /\ U \ {OneOf(U)} \in SUBSET U /\ U \ {OneOf(U)} # U
  BY <1>5, OneOfIsIn
<1>7. it1[U \ {OneOf(U)}] = it2[U \ {OneOf(U)}]
  BY <1>2, <1>3, <1>6
<1>8. ents1[OneOf(U)].hours = ents2[OneOf(U)].hours
  BY <1>3, <1>6
<1> QED
  BY <1>4, <1>7, <1>8

\* There is such a function for every finite set of entries.
LEMMA SumExists ==
  ASSUME NEW ents, NEW S, IsFiniteSet(S)
  PROVE  \E it : AddsUp(ents, S, it)
<1> DEFINE B == {U \in SUBSET S : ~ \E it : AddsUp(ents, U, it)}
<1> SUFFICES ASSUME S \in B PROVE FALSE
  OBVIOUS
<1>1. \A U \in B : IsFiniteSet(U)
  BY FS_Subset
<1>2. PICK U \in B : \A V \in SUBSET U : V \in B => V = U
  <2> HIDE DEF B
  <2> QED
    BY <1>1, Smallest
<1>3. \A V \in SUBSET U : V # U => \E it : AddsUp(ents, V, it)
  BY <1>2
<1> DEFINE sum(V) == (CHOOSE it : AddsUp(ents, V, it))[V]
           below(V) == IF V = {} THEN 0 ELSE ents[OneOf(V)].hours + sum(V \ {OneOf(V)})
           it == [V \in SUBSET U |-> IF V = U THEN below(U) ELSE sum(V)]
<1>4. ASSUME NEW V \in SUBSET U
      PROVE  it[V] = IF V = {} THEN 0 ELSE ents[OneOf(V)].hours + it[V \ {OneOf(V)}]
  <2>1. V # {} => OneOf(V) \in V /\ V \ {OneOf(V)} \in SUBSET U /\ V \ {OneOf(V)} # U
    BY OneOfIsIn
  <2>2. V # {} => it[V \ {OneOf(V)}] = sum(V \ {OneOf(V)})
    BY <2>1
  <2>3. CASE V = U
    BY <2>2, <2>3
  <2>4. CASE V # U
    <3> DEFINE f == CHOOSE g : AddsUp(ents, V, g)
    <3>1. it[V] = f[V]
      BY <2>4
    <3>2. AddsUp(ents, V, f)
      BY <1>3, <2>4
    <3>3. f[V] = IF V = {} THEN 0 ELSE ents[OneOf(V)].hours + f[V \ {OneOf(V)}]
      <4> HIDE DEF f
      <4> QED
        BY <3>2 DEF AddsUp
    <3>4. ASSUME V # {} PROVE f[V \ {OneOf(V)}] = sum(V \ {OneOf(V)})
      <4> DEFINE W == V \ {OneOf(V)}
                 g == CHOOSE h : AddsUp(ents, W, h)
      <4>1. W \in SUBSET U /\ W # U /\ W \in SUBSET V /\ W \in SUBSET W
        BY <2>1, <3>4
      <4>2. AddsUp(ents, W, g)
        BY <1>3, <4>1
      <4>3. IsFiniteSet(W)
        BY <1>1, <4>1, FS_Subset
      <4> HIDE DEF f, g, W
      <4>4. f[W] = g[W]
        BY <3>2, <4>1, <4>2, <4>3, SumsAgree
      <4> QED
        BY <4>4 DEF g, W
    <3> HIDE DEF f, it, sum
    <3> QED
      BY <2>2, <3>1, <3>3, <3>4
  <2> QED
    BY <2>3, <2>4
<1>5. AddsUp(ents, U, it)
  <2>1. it = [V \in SUBSET U |-> it[V]]
    OBVIOUS
  <2> HIDE DEF it
  <2> QED
    BY <1>4, <2>1 DEF AddsUp
<1> HIDE DEF it
<1> QED
  BY <1>2, <1>5

\* What MapThenSumSet comes to does not depend on more than the entries' hours,
LEMMA HoursSame ==
  ASSUME NEW ents1, NEW ents2, NEW S, IsFiniteSet(S),
         \A e \in S : ents1[e].hours = ents2[e].hours
  PROVE  HoursOf(ents1, S) = HoursOf(ents2, S)
<1> DEFINE f1 == CHOOSE it : AddsUp(ents1, S, it)
           f2 == CHOOSE it : AddsUp(ents2, S, it)
<1>1. AddsUp(ents1, S, f1) /\ AddsUp(ents2, S, f2)
  BY SumExists
<1>2. HoursOf(ents1, S) = f1[S] /\ HoursOf(ents2, S) = f2[S]
  BY HoursAddUp
<1> HIDE DEF f1, f2
<1>3. S \in SUBSET S
  OBVIOUS
<1> QED
  BY <1>1, <1>2, <1>3, SumsAgree

LEMMA HoursOfNone ==
  ASSUME NEW ents
  PROVE  HoursOf(ents, {}) = 0
<1> DEFINE f == CHOOSE it : AddsUp(ents, {}, it)
<1>1. AddsUp(ents, {}, f)
  BY SumExists, FS_EmptySet
<1>2. HoursOf(ents, {}) = f[{}]
  BY HoursAddUp
<1> HIDE DEF f
<1>3. {} \in SUBSET {}
  OBVIOUS
<1> QED
  BY <1>1, <1>2, <1>3 DEF AddsUp

LEMMA HoursFirst ==
  ASSUME NEW ents, NEW S, IsFiniteSet(S), S # {}
  PROVE  HoursOf(ents, S) = ents[OneOf(S)].hours + HoursOf(ents, S \ {OneOf(S)})
<1> DEFINE W == S \ {OneOf(S)}
           f == CHOOSE it : AddsUp(ents, S, it)
           g == CHOOSE it : AddsUp(ents, W, it)
<1>1. IsFiniteSet(W) /\ W \in SUBSET S /\ W \in SUBSET W /\ S \in SUBSET S
  BY FS_Subset
<1>2. AddsUp(ents, S, f) /\ AddsUp(ents, W, g)
  BY <1>1, SumExists
<1>3. HoursOf(ents, S) = f[S] /\ HoursOf(ents, W) = g[W]
  BY HoursAddUp
<1> HIDE DEF f, g
<1>4. f[S] = ents[OneOf(S)].hours + f[W]
  BY <1>1, <1>2 DEF AddsUp
<1> HIDE DEF W
<1>5. f[W] = g[W]
  BY <1>1, <1>2, SumsAgree
<1> QED
  BY <1>3, <1>4, <1>5 DEF W

\* The entries of S each hold a number of hours.
Booked(ents, S) == \A e \in S : ents[e].hours \in Nat

LEMMA HoursTyped ==
  ASSUME NEW ents, NEW S, IsFiniteSet(S), Booked(ents, S)
  PROVE  HoursOf(ents, S) \in Nat
<1> DEFINE B == {U \in SUBSET S : HoursOf(ents, U) \notin Nat}
<1> SUFFICES ASSUME S \in B PROVE FALSE
  OBVIOUS
<1>1. \A U \in B : IsFiniteSet(U)
  BY FS_Subset
<1>2. PICK U \in B : \A V \in SUBSET U : V \in B => V = U
  <2> HIDE DEF B
  <2> QED
    BY <1>1, Smallest
<1>3. U # {}
  BY HoursOfNone
<1>4. OneOf(U) \in U /\ U \ {OneOf(U)} \in SUBSET U /\ U \ {OneOf(U)} # U
  BY <1>3, OneOfIsIn
<1>5. HoursOf(ents, U \ {OneOf(U)}) \in Nat
  BY <1>2, <1>4
<1>6. HoursOf(ents, U) = ents[OneOf(U)].hours + HoursOf(ents, U \ {OneOf(U)})
  BY <1>1, <1>3, HoursFirst
<1>7. ents[OneOf(U)].hours \in Nat
  BY <1>4 DEF Booked
<1> QED
  BY <1>5, <1>6, <1>7

\* nor on the order in which they are added: any one of them may come first.
LEMMA HoursWith ==
  ASSUME NEW ents, NEW S, IsFiniteSet(S), Booked(ents, S), NEW x \in S
  PROVE  HoursOf(ents, S) = ents[x].hours + HoursOf(ents, S \ {x})
<1> DEFINE Good(U) == \A y \in U : HoursOf(ents, U) = ents[y].hours + HoursOf(ents, U \ {y})
           B == {U \in SUBSET S : ~Good(U)}
<1> SUFFICES ASSUME S \in B PROVE FALSE
  OBVIOUS
<1>1. \A U \in B : IsFiniteSet(U)
  BY FS_Subset
<1>2. PICK U \in B : \A V \in SUBSET U : V \in B => V = U
  <2> HIDE DEF B
  <2> QED
    BY <1>1, Smallest
<1>3. PICK y \in U : HoursOf(ents, U) # ents[y].hours + HoursOf(ents, U \ {y})
  OBVIOUS
<1> DEFINE p == OneOf(U)
<1>4. p \in U /\ HoursOf(ents, U) = ents[p].hours + HoursOf(ents, U \ {p})
  BY <1>1, HoursFirst, OneOfIsIn
<1> HIDE DEF p
<1>5. p # y
  BY <1>3, <1>4
<1>6. HoursOf(ents, U \ {p}) = ents[y].hours + HoursOf(ents, (U \ {p}) \ {y})
  <2>1. U \ {p} \in SUBSET U /\ U \ {p} # U /\ y \in U \ {p}
    BY <1>4, <1>5
  <2> QED
    BY <1>2, <2>1
<1>7. HoursOf(ents, U \ {y}) = ents[p].hours + HoursOf(ents, (U \ {y}) \ {p})
  <2>1. U \ {y} \in SUBSET U /\ U \ {y} # U /\ p \in U \ {y}
    BY <1>4, <1>5
  <2> QED
    BY <1>2, <2>1
<1>8. (U \ {p}) \ {y} = (U \ {y}) \ {p}
  OBVIOUS
<1>9. /\ HoursOf(ents, (U \ {y}) \ {p}) \in Nat
      /\ ents[p].hours \in Nat /\ ents[y].hours \in Nat
  <2>1. (U \ {y}) \ {p} \in SUBSET S /\ p \in S /\ y \in S
    BY <1>4
  <2>2. IsFiniteSet((U \ {y}) \ {p}) /\ Booked(ents, (U \ {y}) \ {p})
    BY <2>1, FS_Subset DEF Booked
  <2> QED
    BY <2>1, <2>2, HoursTyped DEF Booked
<1> HIDE DEF Good, B
<1> QED
  BY <1>3, <1>4, <1>6, <1>7, <1>8, <1>9

\* Fewer entries come to no more hours.
LEMMA HoursOfFewer ==
  ASSUME NEW ents, NEW S, IsFiniteSet(S), Booked(ents, S), NEW T \in SUBSET S
  PROVE  HoursOf(ents, T) <= HoursOf(ents, S)
<1> DEFINE B == {U \in SUBSET S : T \subseteq U /\ ~(HoursOf(ents, T) <= HoursOf(ents, U))}
<1> SUFFICES ASSUME S \in B PROVE FALSE
  OBVIOUS
<1>1. \A U \in SUBSET S : IsFiniteSet(U) /\ Booked(ents, U)
  BY FS_Subset DEF Booked
<1>2. PICK U \in B : \A V \in SUBSET U : V \in B => V = U
  <2>1. B \in SUBSET SUBSET S
    OBVIOUS
  <2> HIDE DEF B
  <2> QED
    BY <1>1, <2>1, Smallest
<1>3. \A V \in SUBSET S : HoursOf(ents, V) \in Nat
  BY <1>1, HoursTyped
<1>4. U # T
  BY <1>3
<1>5. PICK x \in U : x \notin T
  BY <1>4
<1>6. T \subseteq U \ {x} /\ U \ {x} \in SUBSET U /\ U \ {x} # U
  BY <1>5
<1>7. HoursOf(ents, T) <= HoursOf(ents, U \ {x})
  BY <1>2, <1>6
<1>8. HoursOf(ents, U) = ents[x].hours + HoursOf(ents, U \ {x})
  BY <1>1, HoursWith
<1>9. ents[x].hours \in Nat
  BY DEF Booked
<1> QED
  BY <1>2, <1>3, <1>6, <1>7, <1>8, <1>9

-----------------------------------------------------------------------------
(* The daily limit.                                                        *)

\* The entries that `ents' has for u on day d, but for `skip'.
OnDay(ents, u, d, skip) ==
  {e \in Entries \ {skip} : ents[e] # None /\ ents[e].user = u /\ ents[e].day = d}

\* A table of entries, as many as there may be ids handed out.
Table(ents) ==
  /\ ents \in [Entries -> Row \cup {None}]
  /\ IsFiniteSet({e \in Entries : ents[e] # None})

LEMMA DayTotalIsHours ==
  ASSUME NEW ents, NEW u, NEW d, NEW skip
  PROVE  DayTotal(ents, u, d, skip) = HoursOf(ents, OnDay(ents, u, d, skip))
BY DEF DayTotal, HoursOf, OnDay, MapThenSumSet, MapThenFoldSet

LEMMA OnDayBooked ==
  ASSUME NEW ents, Table(ents), NEW u, NEW d, NEW skip
  PROVE  /\ IsFiniteSet(OnDay(ents, u, d, skip))
         /\ Booked(ents, OnDay(ents, u, d, skip))
<1>1. OnDay(ents, u, d, skip) \in SUBSET {e \in Entries : ents[e] # None}
  BY DEF OnDay
<1>2. IsFiniteSet(OnDay(ents, u, d, skip))
  BY <1>1, FS_Subset DEF Table
<1>3. \A e \in OnDay(ents, u, d, skip) : ents[e] \in Row
  BY DEF Table, OnDay
<1>4. \A row \in Row : row.hours \in Nat
  BY ConstantsAssumption DEF Row
<1> QED
  BY <1>2, <1>3, <1>4 DEF Booked

LEMMA DayTotalTyped ==
  ASSUME NEW ents, Table(ents), NEW u, NEW d, NEW skip
  PROVE  DayTotal(ents, u, d, skip) \in Nat
BY DayTotalIsHours, OnDayBooked, HoursTyped

\* An entry counts where it is the account's and the day's, and nowhere else.
LEMMA DayTotalWith ==
  ASSUME NEW ents, Table(ents), NEW u, NEW d, NEW e \in Entries
  PROVE  DayTotal(ents, u, d, None) =
           DayTotal(ents, u, d, e) +
             IF ents[e] # None /\ ents[e].user = u /\ ents[e].day = d THEN ents[e].hours ELSE 0
<1> DEFINE S == OnDay(ents, u, d, None)
<1>0. OnDay(ents, u, d, e) = S \ {e} /\ (e \in S <=> ents[e] # None /\ ents[e].user = u /\ ents[e].day = d)
  BY ConstantsAssumption DEF OnDay
<1>1. /\ DayTotal(ents, u, d, None) = HoursOf(ents, S)
      /\ DayTotal(ents, u, d, e) = HoursOf(ents, S \ {e})
  BY <1>0, DayTotalIsHours
<1>2. IsFiniteSet(S) /\ Booked(ents, S)
  BY OnDayBooked
<1>3. DayTotal(ents, u, d, e) \in Nat
  BY DayTotalTyped
<1> HIDE DEF S
<1>4. CASE e \in S
  <2>1. HoursOf(ents, S) = ents[e].hours + HoursOf(ents, S \ {e})
    BY <1>2, <1>4, HoursWith
  <2>2. ents[e].hours \in Nat
    BY <1>2, <1>4 DEF Booked
  <2> QED
    BY <1>0, <1>1, <1>3, <1>4, <2>1, <2>2
<1>5. CASE e \notin S
  <2>1. S \ {e} = S
    BY <1>5
  <2>2. DayTotal(ents, u, d, None) = DayTotal(ents, u, d, e)
    BY <1>1, <2>1
  <2>3. ~(ents[e] # None /\ ents[e].user = u /\ ents[e].day = d)
    BY <1>0, <1>5
  <2> QED
    BY <1>3, <2>2, <2>3
<1> QED
  BY <1>4, <1>5

\* What is written of one entry changes nothing about the others.
LEMMA DayTotalOthers ==
  ASSUME NEW ents1, NEW ents2, Table(ents1), NEW u, NEW d, NEW e \in Entries,
         \A x \in Entries \ {e} : ents2[x] = ents1[x]
  PROVE  DayTotal(ents2, u, d, e) = DayTotal(ents1, u, d, e)
<1>1. OnDay(ents2, u, d, e) = OnDay(ents1, u, d, e)
  BY DEF OnDay
<1>2. \A x \in OnDay(ents1, u, d, e) : ents2[x].hours = ents1[x].hours
  BY DEF OnDay
<1>3. IsFiniteSet(OnDay(ents1, u, d, e))
  BY OnDayBooked
<1> QED
  BY <1>1, <1>2, <1>3, DayTotalIsHours, HoursSame

\* Entries that are only taken away take no day further.
LEMMA DayTotalOfFewer ==
  ASSUME NEW ents1, NEW ents2, Table(ents1), NEW u, NEW d,
         \A e \in Entries : ents2[e] # None => ents2[e] = ents1[e]
  PROVE  DayTotal(ents2, u, d, None) <= DayTotal(ents1, u, d, None)
<1>1. OnDay(ents2, u, d, None) \in SUBSET OnDay(ents1, u, d, None)
  BY DEF OnDay
<1>2. \A x \in OnDay(ents2, u, d, None) : ents2[x].hours = ents1[x].hours
  BY DEF OnDay
<1>3. IsFiniteSet(OnDay(ents1, u, d, None)) /\ Booked(ents1, OnDay(ents1, u, d, None))
  BY OnDayBooked
<1>4. IsFiniteSet(OnDay(ents2, u, d, None))
  BY <1>1, <1>3, FS_Subset
<1>5. HoursOf(ents2, OnDay(ents2, u, d, None)) = HoursOf(ents1, OnDay(ents2, u, d, None))
  BY <1>2, <1>4, HoursSame
<1>6. HoursOf(ents1, OnDay(ents2, u, d, None)) <= HoursOf(ents1, OnDay(ents1, u, d, None))
  BY <1>1, <1>3, HoursOfFewer
<1> QED
  BY <1>5, <1>6, DayTotalIsHours

LEMMA DailyLimitTyped ==
  ASSUME TypeOK, NEW u \in Users
  PROVE  DailyLimit(u) \in Nat
<1> DEFINE a == limits.instance
           b == limits.personal[u]
           set == {a, b} \ {0}
<1>1. a \in Nat /\ b \in Nat
  BY ConstantsAssumption DEF TypeOK
<1> HIDE DEF a, b
<1>2. ASSUME set # {} PROVE Min(set) \in Nat
  <2>1. \E x \in set : \A y \in set : x <= y
    <3>1. CASE a = 0 \/ b = 0
      BY <1>1, <1>2, <3>1
    <3>2. CASE a # 0 /\ b # 0 /\ a <= b
      BY <1>1, <3>2
    <3>3. CASE a # 0 /\ b # 0 /\ b <= a
      BY <1>1, <3>3
    <3> QED
      BY <1>1, <3>1, <3>2, <3>3
  <2>2. Min(set) \in set
    <3> HIDE DEF set
    <3> QED
      BY <2>1 DEF Min
  <2> QED
    BY <1>1, <2>2
<1>3. DailyLimit(u) = IF set = {} THEN 0 ELSE Min(set)
  BY DEF DailyLimit, a, b
<1> HIDE DEF set
<1> QED
  BY <1>2, <1>3

\* What a request knows of the day by the time it writes: a booking or a correction
\* that it fits, a transfer that the entry is still the one it read.
Weighed(q) ==
  /\ q.op = "create" => q.entry = None
  /\ q.stage = "budget" => q.op \in {"create", "update"}
  /\ q.stage = "write" /\ q.op \in {"create", "update"} => ~OverBudget(q.row, q.entry)
  /\ q.op = "transfer" /\ q.stage \in {"target", "write"} =>
       /\ Exists(q.entry)
       /\ q.row.user = entries[q.entry].user
       /\ q.row.day = entries[q.entry].day
       /\ q.row.hours = entries[q.entry].hours

CapInv ==
  /\ HistoryInv
  /\ IsFiniteSet(issued)
  /\ \A r \in Reqs : Weighed(reqs[r])

LEMMA IdleWeighed == Weighed(Idle)
BY DEF Weighed, Idle

LEMMA EntriesAreATable ==
  ASSUME HistoryInv, IsFiniteSet(issued)
  PROVE  Table(entries)
<1>1. {e \in Entries : entries[e] # None} \in SUBSET issued
  BY DEF HistoryInv, Issued, Exists
<1>2. IsFiniteSet({e \in Entries : entries[e] # None})
  BY <1>1, FS_Subset
<1> QED
  BY <1>2 DEF HistoryInv, TypeInv, TypeOK, Table

\* A booking fits for as long as neither the entries nor the limits change.
LEMMA BudgetStays ==
  ASSUME NEW r \in Reqs, entries' = entries, limits' = limits,
         reqs'[r].row = reqs[r].row, reqs'[r].entry = reqs[r].entry,
         ~OverBudget(reqs[r].row, reqs[r].entry)
  PROVE  ~OverBudget(reqs[r].row, reqs[r].entry)'
<1>1. DailyLimit(reqs[r].row.user)' = DailyLimit(reqs[r].row.user)
  BY DEF DailyLimit
<1>2. DayTotal(entries, reqs[r].row.user, reqs[r].row.day, reqs[r].entry)' =
        DayTotal(entries, reqs[r].row.user, reqs[r].row.day, reqs[r].entry)
  OBVIOUS
<1> QED
  BY <1>1, <1>2 DEF OverBudget

\* The request that takes the step still knows what it has to, in the tables it
\* leaves, as nobody else is at work in them.
LEMMA StepWeighed ==
  ASSUME CapInv, NEW r \in Reqs, Step(r)
  PROVE  Weighed(reqs[r])'
<1>q. /\ reqs[r] \in Request /\ Weighed(reqs[r])
      /\ reqs \in [Reqs -> Request]
      /\ entries \in [Entries -> Row \cup {None}]
      /\ WellFormed(reqs[r])
  BY DEF CapInv, HistoryInv, TypeInv, TypeOK
<1>1. CASE reqs'[r] = Idle
  BY <1>1 DEF Weighed, Idle
<1>2. CASE BookEntry(r)
  <2>1. reqs'[r].op = "create" /\ reqs'[r].stage = "budget" /\ reqs'[r].entry = None
    BY <1>q, <1>2 DEF BookEntry, Await, Idle
  <2> QED
    BY <2>1 DEF Weighed
<1>3. CASE CheckBudget(r)
  <2>1. /\ reqs'[r] = [reqs[r] EXCEPT !.stage = "write"] /\ UNCHANGED tables
        /\ reqs[r].stage = "budget" /\ ~OverBudget(reqs[r].row, reqs[r].entry)
    BY <1>q, <1>3 DEF CheckBudget, MoveOn
  <2>2. /\ reqs'[r].op = reqs[r].op /\ reqs'[r].entry = reqs[r].entry /\ reqs'[r].row = reqs[r].row
        /\ reqs'[r].stage = "write" /\ reqs[r].op \in {"create", "update"}
    BY <1>q, <2>1 DEF Request, Weighed
  <2>3. entries' = entries /\ limits' = limits
    BY <2>1 DEF tables
  <2>4. ~OverBudget(reqs[r].row, reqs[r].entry)'
    BY <2>1, <2>2, <2>3, BudgetStays
  <2> QED
    BY <1>q, <2>2, <2>4 DEF Weighed
<1>4. CASE Authorise(r)
  <2>1. reqs'[r].stage = "read" /\ reqs'[r].op \in {"update", "transfer", "delete"}
    BY <1>q, <1>4 DEF Authorise, Await, Idle
  <2> QED
    BY <2>1 DEF Weighed
<1>5. CASE ReadForUpdate(r)
  <2>1. reqs'[r].stage \in {"target", "budget"} /\ reqs'[r].op = "update"
    BY <1>q, <1>5 DEF ReadForUpdate, At, Await, Request
  <2> QED
    BY <2>1 DEF Weighed
<1>6. CASE CheckTarget(r)
  <2>1. reqs'[r].stage = "budget" /\ reqs'[r].op = "update"
    BY <1>q, <1>6 DEF CheckTarget, At, MoveOn, Request
  <2> QED
    BY <2>1 DEF Weighed
<1>7. CASE ReadForTransfer(r)
  <2>1. /\ entries' = entries /\ reqs[r].op = "transfer"
        /\ entries[reqs[r].entry] # None /\ entries[reqs[r].entry] \in Row
    BY <1>q, <1>7 DEF ReadForTransfer, At, Exists, tables, WellFormed
  <2>2. PICK p \in Projects :
          reqs'[r] = [reqs[r] EXCEPT !.stage = "target",
                                     !.row = [entries[reqs[r].entry] EXCEPT !.project = p]]
    BY <1>q, <1>7 DEF ReadForTransfer, Await
  <2>3. /\ reqs'[r].op = "transfer" /\ reqs'[r].stage = "target" /\ reqs'[r].entry = reqs[r].entry
        /\ reqs'[r].row = [entries[reqs[r].entry] EXCEPT !.project = p]
    BY <1>q, <2>1, <2>2 DEF Request
  <2>4. /\ reqs'[r].row.user = entries[reqs[r].entry].user
        /\ reqs'[r].row.day = entries[reqs[r].entry].day
        /\ reqs'[r].row.hours = entries[reqs[r].entry].hours
    BY <2>1, <2>3 DEF Row
  <2> QED
    BY <2>1, <2>3, <2>4 DEF Weighed, Exists
<1>8. CASE CheckTransferTarget(r)
  <2>1. /\ entries' = entries /\ reqs[r].op = "transfer" /\ reqs[r].stage = "target"
        /\ reqs'[r] = [reqs[r] EXCEPT !.stage = "write"]
    BY <1>q, <1>8 DEF CheckTransferTarget, At, MoveOn, tables
  <2>2. /\ reqs'[r].op = "transfer" /\ reqs'[r].entry = reqs[r].entry /\ reqs'[r].row = reqs[r].row
        /\ reqs'[r].stage = "write"
    BY <1>q, <2>1 DEF Request
  <2> QED
    BY <1>q, <2>1, <2>2 DEF Weighed, Exists
<1>9. CASE ReadForDelete(r)
  <2>1. reqs'[r].op = "delete" /\ reqs'[r].stage = "write"
    BY <1>q, <1>9 DEF ReadForDelete, At, MoveOn, Request
  <2> QED
    BY <2>1 DEF Weighed
<1>10. CASE ReadProject(r) \/ ReadForDrop(r) \/ CheckClock(r) \/ DeleteUser(r)
  <2>1. reqs'[r].op \in {"project", "drop", "clock", "remove", "purge"} /\ reqs'[r].stage # "budget"
    BY <1>q, <1>10 DEF ReadProject, ReadForDrop, CheckClock, DeleteUser, Await, Idle
  <2> QED
    BY <2>1 DEF Weighed
<1>11. CASE CountEntries(r) \/ CountClocks(r)
  <2>1. reqs'[r].op = "drop" /\ reqs'[r].stage # "budget"
    BY <1>q, <1>11 DEF CountEntries, CountClocks, At, MoveOn, Request
  <2> QED
    BY <2>1 DEF Weighed
<1>12. CASE CreateProject(r) \/ ClearClock(r) \/ SetLimits(r)
  BY <1>1, <1>12 DEF CreateProject, ClearClock, SetLimits, Fresh
<1>13. CASE \/ InsertEntry(r) \/ ReplaceEntry(r) \/ RemoveEntry(r) \/ WriteProject(r)
            \/ DropProject(r) \/ StartClock(r) \/ PurgeUser(r) \/ Abandon(r)
  <2>1. Answer(r)
    BY <1>13 DEF InsertEntry, ReplaceEntry, RemoveEntry, WriteProject, DropProject,
                 StartClock, PurgeUser, Abandon
  <2> QED
    BY <1>q, <1>1, <2>1 DEF Answer
<1> QED
  BY <1>2, <1>3, <1>4, <1>5, <1>6, <1>7, <1>8, <1>9, <1>10, <1>11, <1>12, <1>13 DEF Step

LEMMA StepIssuesOne ==
  ASSUME IsFiniteSet(issued), NEW r \in Reqs, Step(r)
  PROVE  IsFiniteSet(issued')
<1>1. CASE InsertEntry(r)
  BY <1>1, FS_AddElement DEF InsertEntry
<1>2. CASE issued' = issued
  BY <1>2
<1> QED
  BY <1>1, <1>2, ReadsOrWrites
  DEF Writes, ReplaceEntry, RemoveEntry, CreateProject, WriteProject, DropProject,
      StartClock, ClearClock, PurgeUser, SetLimits, tables

LEMMA StepCapInv ==
  ASSUME CapInv, InTurn
  PROVE  CapInv'
<1>1. PICK r \in Reqs : (\A q \in Reqs \ {r} : reqs[q] = Idle) /\ Step(r)
  BY DEF InTurn
<1>2. HistoryInv' /\ IsFiniteSet(issued)'
  BY <1>1, StepTypeInv, StepIssued, StepIssuesOne DEF CapInv, HistoryInv
<1>3. Weighed(reqs[r])'
  BY <1>1, StepWeighed
<1>4. ASSUME NEW x \in Reqs, x # r PROVE Weighed(reqs[x])'
  <2>1. reqs'[x] = Idle
    BY <1>1, <1>4, OtherRequestsStay DEF CapInv, HistoryInv
  <2> QED
    BY <2>1 DEF Weighed, Idle
<1> QED
  BY <1>2, <1>3, <1>4 DEF CapInv

\* What DailyCap says of one account and one day in one step.
WithinTheLimit(u, d) ==
  DailyLimit(u) # 0 /\ DayTotal(entries', u, d, None) > DayTotal(entries, u, d, None) =>
    DayTotal(entries', u, d, None) <= DailyLimit(u)

LEMMA StepWithinTheLimit ==
  ASSUME CapInv, CapInv', NEW r \in Reqs, Step(r), NEW u \in Users, NEW d \in Days
  PROVE  WithinTheLimit(u, d)
<1>q. /\ reqs[r] \in Request /\ WellFormed(reqs[r]) /\ Weighed(reqs[r])
      /\ entries \in [Entries -> Row \cup {None}]
      /\ Issued
  BY DEF CapInv, HistoryInv, TypeInv, TypeOK
<1>t. Table(entries) /\ Table(entries')
  <2>1. Table(entries)
    BY EntriesAreATable DEF CapInv
  <2>2. entries' \in [Entries -> Row \cup {None}] /\ Issued' /\ IsFiniteSet(issued')
    BY DEF CapInv, HistoryInv, TypeInv, TypeOK
  <2>3. {e \in Entries : entries'[e] # None} \in SUBSET issued'
    BY <2>2 DEF Issued, Exists
  <2> QED
    BY <2>1, <2>2, <2>3, FS_Subset DEF Table
<1>n. /\ DayTotal(entries, u, d, None) \in Nat /\ DayTotal(entries', u, d, None) \in Nat
      /\ DailyLimit(u) \in Nat
  BY <1>t, DayTotalTyped, DailyLimitTyped DEF CapInv, HistoryInv, TypeInv
<1> DEFINE row == reqs[r].row
<1>w. ASSUME NEW e \in Entries, entries' = [entries EXCEPT ![e] = row], row \in Row
      PROVE  /\ DayTotal(entries', u, d, e) = DayTotal(entries, u, d, e)
             /\ DayTotal(entries', u, d, None) =
                  DayTotal(entries, u, d, e) +
                    IF row.user = u /\ row.day = d THEN row.hours ELSE 0
  <2>1. entries'[e] = row /\ row # None /\ \A x \in Entries \ {e} : entries'[x] = entries[x]
    BY <1>q, <1>w, ConstantsAssumption DEF Row
  <2>2. DayTotal(entries', u, d, e) = DayTotal(entries, u, d, e)
    BY <1>t, <2>1, DayTotalOthers
  <2> QED
    BY <1>t, <2>1, <2>2, DayTotalWith
<1>b. ASSUME NEW e \in Entries \cup {None}, ~OverBudget(row, e), row.user = u, row.day = d,
             DailyLimit(u) # 0
      PROVE  ~(DayTotal(entries, u, d, e) + row.hours > DailyLimit(u))
  BY <1>n, <1>b DEF OverBudget
<1>f. CASE \A e \in Entries : entries'[e] # None => entries'[e] = entries[e]
  <2>1. DayTotal(entries', u, d, None) <= DayTotal(entries, u, d, None)
    BY <1>t, <1>f, DayTotalOfFewer
  <2> QED
    BY <1>n, <2>1 DEF WithinTheLimit
<1>1. CASE InsertEntry(r)
  <2>1. row \in Row /\ reqs[r].entry = None /\ ~OverBudget(row, None)
    BY <1>q, <1>1 DEF InsertEntry, At, WellFormed, Weighed
  <2>2. PICK e \in Entries \ issued : entries' = [entries EXCEPT ![e] = row]
    BY <1>1 DEF InsertEntry
  <2>3. entries[e] = None
    BY <1>q, <2>2 DEF Issued, Exists
  <2>4. DayTotal(entries, u, d, None) = DayTotal(entries, u, d, e)
    BY <1>t, <2>3, DayTotalWith, DayTotalTyped
  <2>5. row.hours \in Nat
    BY <2>1, ConstantsAssumption DEF Row
  <2>a. DayTotal(entries', u, d, None) =
          DayTotal(entries, u, d, None) + IF row.user = u /\ row.day = d THEN row.hours ELSE 0
    BY <1>w, <2>1, <2>2, <2>4
  <2>b. ASSUME row.user = u, row.day = d, DailyLimit(u) # 0
        PROVE  ~(DayTotal(entries, u, d, None) + row.hours > DailyLimit(u))
    BY <1>b, <2>1, <2>b
  <2> HIDE DEF row
  <2>6. CASE row.user = u /\ row.day = d
    BY <1>n, <2>5, <2>6, <2>a, <2>b DEF WithinTheLimit
  <2>7. CASE ~(row.user = u /\ row.day = d)
    BY <1>n, <2>7, <2>a DEF WithinTheLimit
  <2> QED
    BY <2>6, <2>7
<1>2. CASE ReplaceEntry(r)
  <2> DEFINE e == reqs[r].entry
  <2>1. /\ row \in Row /\ e \in Entries /\ Exists(e)
        /\ entries' = [entries EXCEPT ![e] = row]
        /\ reqs[r].op \in {"update", "transfer"} /\ reqs[r].stage = "write"
    BY <1>q, <1>2 DEF ReplaceEntry, WellFormed
  <2>2. row.hours \in Nat /\ entries[e] \in Row /\ entries[e].hours \in Nat
    BY <1>q, <2>1, ConstantsAssumption DEF Row, Exists
  <2>3. DayTotal(entries, u, d, e) \in Nat
    BY <1>t, <2>1, DayTotalTyped
  <2>4. /\ reqs[r].op = "update" => ~OverBudget(row, e)
        /\ reqs[r].op = "transfer" => /\ row.user = entries[e].user /\ row.day = entries[e].day
                                      /\ row.hours = entries[e].hours
    BY <1>q, <2>1 DEF Weighed
  <2>5. DayTotal(entries, u, d, None) =
          DayTotal(entries, u, d, e) +
            IF entries[e].user = u /\ entries[e].day = d THEN entries[e].hours ELSE 0
    BY <1>t, <2>1, DayTotalWith DEF Exists
  <2>6. DayTotal(entries', u, d, None) =
          DayTotal(entries, u, d, e) + IF row.user = u /\ row.day = d THEN row.hours ELSE 0
    BY <1>w, <2>1
  <2>7. ASSUME reqs[r].op = "update", row.user = u, row.day = d, DailyLimit(u) # 0
        PROVE  ~(DayTotal(entries, u, d, e) + row.hours > DailyLimit(u))
    BY <1>b, <2>1, <2>4, <2>7
  <2> HIDE DEF row, e
  <2>8. CASE reqs[r].op = "transfer"
    BY <1>n, <2>4, <2>5, <2>6, <2>8 DEF WithinTheLimit
  <2>9. CASE reqs[r].op = "update" /\ row.user = u /\ row.day = d
    BY <1>n, <2>2, <2>3, <2>6, <2>7, <2>9 DEF WithinTheLimit
  <2>10. CASE ~(row.user = u /\ row.day = d)
    BY <1>n, <2>2, <2>3, <2>5, <2>6, <2>10 DEF WithinTheLimit
  <2> QED
    BY <2>1, <2>8, <2>9, <2>10
<1>3. CASE RemoveEntry(r)
  BY <1>q, <1>f, <1>3 DEF RemoveEntry
<1>4. CASE PurgeUser(r)
  BY <1>q, <1>f, <1>4 DEF PurgeUser
<1>5. CASE entries' = entries
  BY <1>f, <1>5
<1> QED
  BY <1>1, <1>2, <1>3, <1>4, <1>5, ReadsOrWrites
  DEF Writes, CreateProject, WriteProject, DropProject, StartClock, ClearClock,
      SetLimits, tables

\* While requests do not overlap, no booking, correction, transfer, deletion or
\* change of a limit takes anybody's day to a figure over the limit in force, for
\* any accounts, days, durations and limits and any number of entries.
THEOREM DaysKeepToTheirLimit == InTurnSpec => DailyCap
<1> DEFINE Capped == \A u \in Users, d \in Days :
       DailyLimit(u) # 0 /\ DayTotal(entries', u, d, None) > DayTotal(entries, u, d, None) =>
         DayTotal(entries', u, d, None) <= DailyLimit(u)
<1>1. Init => CapInv
  <2> SUFFICES ASSUME Init PROVE CapInv
    OBVIOUS
  <2>1. HistoryInv
    BY InitTypeInv DEF HistoryInv, Issued, Init, Exists
  <2>2. IsFiniteSet(issued)
    BY FS_EmptySet DEF Init
  <2>3. \A r \in Reqs : Weighed(reqs[r])
    BY IdleWeighed DEF Init
  <2> QED
    BY <2>1, <2>2, <2>3 DEF CapInv
<1>2. CapInv /\ [InTurn]_vars => CapInv'
  <2> SUFFICES ASSUME CapInv, [InTurn]_vars PROVE CapInv'
    OBVIOUS
  <2>1. CASE InTurn
    BY <2>1, StepCapInv
  <2>2. CASE UNCHANGED vars
    <3>1. HistoryInv'
      BY <2>2, StutterTypeInv DEF vars, CapInv, HistoryInv, Issued, Exists
    <3>2. ASSUME NEW r \in Reqs PROVE Weighed(reqs[r])'
      <4>1. reqs' = reqs /\ entries' = entries /\ limits' = limits /\ Weighed(reqs[r])
        BY <2>2 DEF vars, CapInv
      <4>2. ~OverBudget(reqs[r].row, reqs[r].entry) => ~OverBudget(reqs[r].row, reqs[r].entry)'
        BY <4>1, BudgetStays
      <4> QED
        BY <4>1, <4>2 DEF Weighed, Exists
    <3> QED
      BY <2>2, <3>1, <3>2 DEF vars, CapInv
  <2> QED
    BY <2>1, <2>2
<1>3. CapInv /\ [InTurn]_vars => [Capped]_vars
  BY <1>2, StepWithinTheLimit DEF InTurn, WithinTheLimit
<1> HIDE DEF Capped
<1>4. InTurnSpec => [][Capped]_vars
  BY <1>1, <1>2, <1>3, PTL DEF InTurnSpec
<1> QED
  BY <1>4, PTL DEF DailyCap, Capped

-----------------------------------------------------------------------------
(* References, where nothing enforces them: requests that do not overlap,  *)
(* and nobody who writes for somebody else.                                *)

ProjectThere(p) == p # None => Live(p)

\* What the one request in flight has found out about the rows it refers to is
\* so when it writes.
FoundOut(q) ==
  /\ q.stage = "budget" => q.op \in {"create", "update"}
  /\ q.op = "create" => q.row.user \in accounts
  /\ q.op \in {"update", "transfer", "delete"} =>
       Exists(q.entry) /\ q.who = entries[q.entry].user
  /\ q.op \in {"update", "transfer"} /\ q.stage # "read" => q.row.user = q.who
  /\ q.op \in {"create", "update", "transfer"} /\ q.stage \in {"budget", "write"} =>
       ProjectThere(q.row.project)
  /\ q.op = "drop" /\ q.stage # "entries" => BookedOn(q.project) = {}
  /\ q.op = "drop" /\ q.stage = "write" => TimedOn(q.project) = {}
  /\ q.op = "clock" => q.who \in accounts /\ ProjectThere(q.project)

\* No entry has changed its owner.
VersionsOfTheOwner == \A v \in revisions : v.row.user = entries[v.entry].user

TurnInv ==
  /\ OwnInv /\ Issued
  /\ NoOrphans
  /\ VersionsOfTheOwner
  /\ \A r \in Reqs : FoundOut(reqs[r])

LEMMA TurnTyped ==
  ASSUME TurnInv
  PROVE  /\ TypeInv /\ OnOwnProject /\ Issued /\ NoOrphans /\ VersionsOfTheOwner
         /\ entries \in [Entries -> Row \cup {None}]
         /\ projects \in [Projects -> ProjectRow]
         /\ clocks \in [Users -> Projects \cup {None, Off}]
         /\ revisions \subseteq [id : 1 .. lastRevision, entry : Entries, row : Row]
         /\ accounts \subseteq Users
         /\ reqs \in [Reqs -> Request]
         /\ \A r \in Reqs : WellFormed(reqs[r]) /\ FoundOut(reqs[r])
BY DEF TurnInv, OwnInv, TypeInv, TypeOK

\* A step that changes no table keeps the rows it was about, and finds out more.
LEMMA ReadsFindOut ==
  ASSUME Manages = {}, TurnInv, NEW r \in Reqs, Step(r), UNCHANGED tables
  PROVE  FoundOut(reqs[r])'
<1>q. /\ entries \in [Entries -> Row \cup {None}] /\ reqs \in [Reqs -> Request]
      /\ reqs[r] \in Request /\ WellFormed(reqs[r]) /\ FoundOut(reqs[r]) /\ NoOrphans
  BY TurnTyped
<1>u. entries' = entries /\ projects' = projects /\ accounts' = accounts /\ clocks' = clocks
  BY DEF tables
<1>m. \A actor, u : MayWriteFor(actor, u) => actor = u
  BY DEF MayWriteFor
<1>0. CASE reqs'[r] = Idle
  BY <1>0 DEF FoundOut, Idle
<1>1. CASE BookEntry(r)
  <2>1. PICK actor \in accounts, row \in Row :
          /\ Bookable(row.user, row.project)
          /\ reqs'[r] = [Idle EXCEPT !.op = "create", !.stage = "budget", !.who = actor, !.row = row]
    BY <1>q, <1>1 DEF BookEntry, Await
  <2>2. reqs'[r].op = "create" /\ reqs'[r].stage = "budget" /\ reqs'[r].row = row
    BY <2>1 DEF Idle
  <2> QED
    BY <1>u, <2>1, <2>2 DEF FoundOut, Bookable, VisibleTo, ProjectThere, Live
<1>2. CASE CheckBudget(r)
  <2>1. reqs[r].stage = "budget" /\ reqs'[r] = [reqs[r] EXCEPT !.stage = "write"]
    BY <1>q, <1>2 DEF CheckBudget, MoveOn
  <2>2. /\ reqs'[r].op = reqs[r].op /\ reqs'[r].entry = reqs[r].entry /\ reqs'[r].row = reqs[r].row
        /\ reqs'[r].who = reqs[r].who /\ reqs'[r].stage = "write"
    BY <1>q, <2>1 DEF Request
  <2>3. reqs[r].op \in {"create", "update"}
    BY <1>q, <2>1 DEF FoundOut
  <2> QED
    BY <1>q, <1>u, <2>1, <2>2, <2>3 DEF FoundOut, ProjectThere, Live, Exists
<1>3. CASE Authorise(r)
  <2>1. PICK op \in {"update", "transfer", "delete"}, actor \in accounts, e \in Entries :
          /\ Exists(e) /\ MayWriteFor(actor, entries[e].user)
          /\ Await(r, [Idle EXCEPT !.op = op, !.stage = "read", !.who = actor, !.entry = e])
    BY <1>3 DEF Authorise
  <2>2. reqs'[r].op = op /\ reqs'[r].stage = "read" /\ reqs'[r].who = actor /\ reqs'[r].entry = e
    BY <1>q, <2>1 DEF Await, Idle
  <2>3. actor = entries[e].user
    BY <1>m, <2>1
  <2> QED
    BY <1>u, <2>1, <2>2, <2>3 DEF FoundOut, Exists
<1>4. CASE ReadForUpdate(r)
  <2> DEFINE e == reqs[r].entry
             stageFor(row) ==
               IF (row.user # entries[e].user \/ row.project # entries[e].project) /\ row.project # None
               THEN "target" ELSE "budget"
  <2>1. PICK row \in Row :
          /\ row.user # entries[e].user => MayWriteFor(reqs[r].who, row.user)
          /\ reqs'[r] = [reqs[r] EXCEPT !.stage = stageFor(row), !.row = row]
    BY <1>q, <1>4 DEF ReadForUpdate, Await
  <2>2. /\ reqs[r].op = "update" /\ Exists(e) /\ e \in Entries /\ reqs[r].who = entries[e].user
    BY <1>q, <1>4 DEF ReadForUpdate, At, WellFormed, FoundOut
  <2>3. row.user = reqs[r].who
    BY <1>m, <2>1, <2>2
  <2>4. stageFor(row) = "budget" => ProjectThere(row.project)
    BY <1>q, <2>2 DEF ProjectThere, NoOrphans
  <2>5. stageFor(row) \in {"target", "budget"}
    OBVIOUS
  <2> DEFINE stage == stageFor(row)
  <2>6. /\ reqs'[r].op = "update" /\ reqs'[r].entry = e /\ reqs'[r].who = reqs[r].who
        /\ reqs'[r].row = row /\ reqs'[r].stage = stage
    BY <1>q, <2>1, <2>2 DEF Request
  <2> HIDE DEF stage, stageFor
  <2>7. stage \in {"target", "budget"} /\ (stage = "budget" => ProjectThere(row.project))
    BY <2>4, <2>5 DEF stage
  <2> QED
    BY <1>u, <2>2, <2>3, <2>6, <2>7 DEF FoundOut, Exists, ProjectThere, Live
<1>5. CASE CheckTarget(r)
  <2>1. /\ reqs[r].op = "update" /\ reqs[r].stage = "target" /\ reqs'[r] = [reqs[r] EXCEPT !.stage = "budget"]
        /\ Bookable(reqs[r].row.user, reqs[r].row.project)
    BY <1>q, <1>5 DEF CheckTarget, At, MoveOn
  <2>2. /\ reqs'[r].op = "update" /\ reqs'[r].entry = reqs[r].entry /\ reqs'[r].row = reqs[r].row
        /\ reqs'[r].who = reqs[r].who /\ reqs'[r].stage = "budget"
    BY <1>q, <2>1 DEF Request
  <2> QED
    BY <1>q, <1>u, <2>1, <2>2 DEF FoundOut, Exists, Bookable, VisibleTo, ProjectThere, Live
<1>6. CASE ReadForTransfer(r)
  <2> DEFINE e == reqs[r].entry
  <2>1. PICK p \in Projects :
          reqs'[r] = [reqs[r] EXCEPT !.stage = "target", !.row = [entries[e] EXCEPT !.project = p]]
    BY <1>q, <1>6 DEF ReadForTransfer, Await
  <2>2. reqs[r].op = "transfer" /\ Exists(e) /\ e \in Entries /\ entries[e] \in Row
    BY <1>q, <1>6 DEF ReadForTransfer, At, WellFormed, Exists
  <2>3. /\ reqs'[r].op = "transfer" /\ reqs'[r].entry = e /\ reqs'[r].who = reqs[r].who
        /\ reqs'[r].row = [entries[e] EXCEPT !.project = p] /\ reqs'[r].stage = "target"
    BY <1>q, <2>1, <2>2 DEF Request
  <2>4. reqs'[r].row.user = entries[e].user
    BY <2>2, <2>3 DEF Row
  <2> QED
    BY <1>q, <1>u, <2>2, <2>3, <2>4 DEF FoundOut, Exists
<1>7. CASE CheckTransferTarget(r)
  <2>1. /\ reqs[r].op = "transfer" /\ reqs[r].stage = "target" /\ reqs'[r] = [reqs[r] EXCEPT !.stage = "write"]
        /\ Live(reqs[r].row.project)
    BY <1>q, <1>7 DEF CheckTransferTarget, At, MoveOn, VisibleTo
  <2>2. /\ reqs'[r].op = "transfer" /\ reqs'[r].entry = reqs[r].entry /\ reqs'[r].row = reqs[r].row
        /\ reqs'[r].who = reqs[r].who /\ reqs'[r].stage = "write"
    BY <1>q, <2>1 DEF Request
  <2> QED
    BY <1>q, <1>u, <2>1, <2>2 DEF FoundOut, Exists, ProjectThere, Live
<1>8. CASE ReadForDelete(r)
  <2>1. reqs[r].op = "delete" /\ reqs'[r] = [reqs[r] EXCEPT !.stage = "write"]
    BY <1>q, <1>8 DEF ReadForDelete, At, MoveOn
  <2>2. /\ reqs'[r].op = "delete" /\ reqs'[r].entry = reqs[r].entry /\ reqs'[r].who = reqs[r].who
        /\ reqs'[r].stage = "write"
    BY <1>q, <2>1 DEF Request
  <2> QED
    BY <1>q, <1>u, <2>1, <2>2 DEF FoundOut, Exists
<1>9. CASE ReadForDrop(r)
  <2>1. reqs'[r].op = "drop" /\ reqs'[r].stage = "entries"
    BY <1>q, <1>9 DEF ReadForDrop, Await, Idle
  <2> QED
    BY <2>1 DEF FoundOut
<1>10. CASE CountEntries(r)
  <2>1. /\ reqs[r].op = "drop" /\ reqs'[r] = [reqs[r] EXCEPT !.stage = "clocks"]
        /\ BookedOn(reqs[r].project) = {}
    BY <1>q, <1>10 DEF CountEntries, At, MoveOn
  <2>2. reqs'[r].op = "drop" /\ reqs'[r].stage = "clocks" /\ reqs'[r].project = reqs[r].project
    BY <1>q, <2>1 DEF Request
  <2> QED
    BY <1>u, <2>1, <2>2 DEF FoundOut, BookedOn, Exists
<1>11. CASE CountClocks(r)
  <2>1. /\ reqs[r].op = "drop" /\ reqs[r].stage = "clocks" /\ reqs'[r] = [reqs[r] EXCEPT !.stage = "write"]
        /\ TimedOn(reqs[r].project) = {}
    BY <1>q, <1>11 DEF CountClocks, At, MoveOn
  <2>2. reqs'[r].op = "drop" /\ reqs'[r].stage = "write" /\ reqs'[r].project = reqs[r].project
    BY <1>q, <2>1 DEF Request
  <2> QED
    BY <1>q, <1>u, <2>1, <2>2 DEF FoundOut, BookedOn, TimedOn, Exists
<1>12. CASE CheckClock(r)
  <2>1. PICK actor \in accounts, p \in Projects \cup {None} :
          /\ p # None => Bookable(actor, p)
          /\ reqs'[r] = [Idle EXCEPT !.op = "clock", !.stage = "write", !.who = actor, !.project = p]
    BY <1>q, <1>12 DEF CheckClock, Await
  <2>2. reqs'[r].op = "clock" /\ reqs'[r].stage = "write" /\ reqs'[r].who = actor /\ reqs'[r].project = p
    BY <2>1 DEF Idle
  <2> QED
    BY <1>u, <2>1, <2>2 DEF FoundOut, Bookable, VisibleTo, ProjectThere, Live
<1>13. CASE ReadProject(r) \/ DeleteUser(r)
  <2>1. reqs'[r].op \in {"project", "remove", "purge"} /\ reqs'[r].stage = "write"
    BY <1>q, <1>13 DEF ReadProject, DeleteUser, Await, Idle
  <2> QED
    BY <2>1 DEF FoundOut
<1>14. CASE CreateProject(r) \/ ClearClock(r) \/ SetLimits(r)
  BY <1>0, <1>14 DEF CreateProject, ClearClock, SetLimits, Fresh
<1>15. CASE \/ InsertEntry(r) \/ ReplaceEntry(r) \/ RemoveEntry(r) \/ WriteProject(r)
            \/ DropProject(r) \/ StartClock(r) \/ PurgeUser(r) \/ Abandon(r)
  <2>1. Answer(r)
    BY <1>15 DEF InsertEntry, ReplaceEntry, RemoveEntry, WriteProject, DropProject,
                 StartClock, PurgeUser, Abandon
  <2> QED
    BY <1>q, <1>0, <2>1 DEF Answer
<1> QED
  BY <1>1, <1>2, <1>3, <1>4, <1>5, <1>6, <1>7, <1>8, <1>9, <1>10, <1>11, <1>12, <1>13,
     <1>14, <1>15 DEF Step

\* A request that writes has ended, or had not begun.
LEMMA WritesEnd ==
  ASSUME TypeInv, NEW r \in Reqs, Writes(r)
  PROVE  reqs'[r] = Idle
BY DEF Writes, InsertEntry, ReplaceEntry, RemoveEntry, CreateProject, WriteProject,
   DropProject, StartClock, ClearClock, PurgeUser, SetLimits, Answer, Fresh, TypeInv, TypeOK

\* What a write leaves refers to what is there.
LEMMA TurnStep ==
  ASSUME TurnInv, NEW r \in Reqs, Writes(r)
  PROVE  NoOrphans' /\ VersionsOfTheOwner'
<1>q. /\ entries \in [Entries -> Row \cup {None}] /\ projects \in [Projects -> ProjectRow]
      /\ clocks \in [Users -> Projects \cup {None, Off}]
      /\ revisions \subseteq [id : 1 .. lastRevision, entry : Entries, row : Row]
      /\ accounts \subseteq Users
      /\ reqs[r] \in Request /\ WellFormed(reqs[r]) /\ FoundOut(reqs[r])
      /\ NoOrphans /\ OnOwnProject /\ VersionsOfTheOwner /\ Issued
  BY TurnTyped
<1> DEFINE row == reqs[r].row
           e == reqs[r].entry
<1>r. row \in Row => row # None
  BY ConstantsAssumption DEF Row
<1>1. CASE InsertEntry(r)
  <2>1. PICK x \in Entries \ issued : entries' = [entries EXCEPT ![x] = row]
    BY <1>1 DEF InsertEntry
  <2>2. /\ row \in Row /\ row.user \in accounts /\ ProjectThere(row.project)
        /\ UNCHANGED <<accounts, projects, revisions, clocks>>
    BY <1>q, <1>1 DEF InsertEntry, At, WellFormed, FoundOut
  <2>3. ~Exists(x)
    BY <1>q, <2>1 DEF Issued
  <2>4. \A v \in revisions : v.entry # x /\ v.entry \in Entries
    BY <1>q, <2>3 DEF NoOrphans
  <2> HIDE DEF row, e
  <2> QED
    BY <1>q, <1>r, <2>1, <2>2, <2>4 DEF NoOrphans, VersionsOfTheOwner, Exists, Live, ProjectThere
<1>2. CASE ReplaceEntry(r)
  <2>1. /\ row \in Row /\ e \in Entries /\ Exists(e) /\ ProjectThere(row.project)
        /\ row.user = entries[e].user
        /\ UNCHANGED <<accounts, projects, clocks>>
        /\ entries' = [entries EXCEPT ![e] = row]
        /\ revisions' = revisions \/ revisions' = revisions \cup {RevisionOf(e, lastRevision')}
    BY <1>q, <1>2 DEF ReplaceEntry, WellFormed, FoundOut
  <2>2. RevisionOf(e, lastRevision').entry = e /\ RevisionOf(e, lastRevision').row = entries[e]
    BY DEF RevisionOf
  <2> HIDE DEF row, e
  <2>3. \A v \in revisions' : /\ v.entry \in Entries /\ Exists(v.entry)
                              /\ v.row.user = entries[v.entry].user
    BY <1>q, <2>1, <2>2 DEF NoOrphans, VersionsOfTheOwner
  <2>4. \A x \in Entries : /\ Exists(x) <=> entries'[x] # None
                           /\ Exists(x) => entries'[x].user = entries[x].user
    BY <1>q, <1>r, <2>1 DEF Exists
  <2>5. entries[e].user \in accounts /\ \A x \in Entries : x # e => entries'[x] = entries[x]
    BY <1>q, <2>1 DEF NoOrphans
  <2>6. \A x \in Entries : Exists(x) => entries[x].user \in accounts
    BY <1>q DEF NoOrphans
  <2>7. VersionsOfTheOwner'
    BY <2>3, <2>4 DEF VersionsOfTheOwner
  <2>8. \A v \in revisions' : entries'[v.entry] # None /\ v.row.user \in accounts
    BY <2>3, <2>4, <2>6
  <2>9. ASSUME NEW x \in Entries, entries'[x] # None
        PROVE  /\ entries'[x].user \in accounts
               /\ entries'[x].project # None => Live(entries'[x].project)
    <3>1. CASE x = e
      BY <1>q, <2>1, <2>5, <3>1 DEF ProjectThere
    <3>2. CASE x # e
      BY <1>q, <2>5, <2>9, <3>2 DEF NoOrphans, Exists
    <3> QED
      BY <3>1, <3>2
  <2> QED
    BY <1>q, <2>1, <2>7, <2>8, <2>9 DEF NoOrphans, Exists, Live
<1>3. CASE RemoveEntry(r)
  BY <1>q, <1>3 DEF RemoveEntry, At, WellFormed, NoOrphans, VersionsOfTheOwner, Exists, Live
<1>4. CASE CreateProject(r)
  BY <1>q, <1>4 DEF CreateProject, NoOrphans, VersionsOfTheOwner, Exists, Live
<1>5. CASE WriteProject(r)
  BY <1>q, <1>5 DEF WriteProject, At, WellFormed, NoOrphans, VersionsOfTheOwner, Exists, Live
<1>6. CASE DropProject(r)
  <2>1. /\ reqs[r].project \in Projects
        /\ BookedOn(reqs[r].project) = {} /\ TimedOn(reqs[r].project) = {}
        /\ projects' = [projects EXCEPT ![reqs[r].project].status = "deleted"]
        /\ UNCHANGED <<accounts, entries, revisions, clocks>>
    BY <1>q, <1>6 DEF DropProject, At, WellFormed, FoundOut
  <2> QED
    BY <1>q, <2>1 DEF NoOrphans, VersionsOfTheOwner, Exists, Live, BookedOn, TimedOn, Row
<1>7. CASE StartClock(r)
  <2>1. /\ reqs[r].who \in accounts /\ ProjectThere(reqs[r].project)
        /\ clocks' = [clocks EXCEPT ![reqs[r].who] = reqs[r].project]
        /\ UNCHANGED <<accounts, projects, entries, revisions>>
    BY <1>q, <1>7 DEF StartClock, At, FoundOut
  <2> QED
    BY <1>q, <2>1 DEF NoOrphans, VersionsOfTheOwner, Exists, Live, ProjectThere
<1>8. CASE ClearClock(r)
  BY <1>q, <1>8 DEF ClearClock, NoOrphans, VersionsOfTheOwner, Exists, Live
<1>9. CASE PurgeUser(r)
  <2> DEFINE u == reqs[r].who
  <2>1. /\ u \in accounts /\ accounts' = accounts \ {u}
        /\ clocks' = [clocks EXCEPT ![u] = Off]
        /\ revisions' = RevisionsWithout(u)
        /\ \A x \in Entries : entries'[x] = IF x \in BookedBy(u) THEN None ELSE entries[x]
        /\ \A p \in Projects : p \notin OwnedBy(u) => projects'[p] = projects[p]
    BY <1>9 DEF PurgeUser
  <2>2. ASSUME NEW x \in Entries, entries'[x] # None
        PROVE  /\ entries'[x] = entries[x] /\ entries[x].user \in accounts'
               /\ entries[x].project # None => Live(entries[x].project)'
    <3>1. entries'[x] = entries[x] /\ x \notin BookedBy(u) /\ Exists(x) /\ entries[x] \in Row
      BY <1>q, <2>1, <2>2 DEF Exists
    <3>2. entries[x].user \in accounts /\ entries[x].user # u
      BY <1>q, <3>1 DEF NoOrphans, BookedBy
    <3>3. entries[x].project # None => /\ entries[x].project \in Projects
                                       /\ entries[x].project \notin OwnedBy(u)
                                       /\ Live(entries[x].project)
      BY <1>q, <3>1, <3>2 DEF NoOrphans, OnOwnProject, Owned, OwnedBy, VisibleTo, Row
    <3> QED
      BY <2>1, <3>1, <3>2, <3>3 DEF Live
  <2>3. ASSUME NEW v \in revisions'
        PROVE  /\ v \in revisions /\ v.entry \in Entries /\ entries'[v.entry] = entries[v.entry]
               /\ Exists(v.entry) /\ v.row.user \in accounts'
    <3>1. v \in revisions /\ v.row.user # u /\ v.entry \in Entries
      BY <1>q, <2>1, <2>3 DEF RevisionsWithout
    <3>2. Exists(v.entry) /\ entries[v.entry].user = v.row.user /\ v.row.user \in accounts
      BY <1>q, <3>1 DEF NoOrphans, VersionsOfTheOwner
    <3> QED
      BY <2>1, <3>1, <3>2 DEF BookedBy
  <2>4. ASSUME NEW x \in Users, clocks'[x] # Off
        PROVE  x \in accounts' /\ (clocks'[x] # None => Live(clocks[x])') /\ clocks'[x] = clocks[x]
    <3>1. x # u /\ clocks'[x] = clocks[x]
      BY <1>q, <2>1, <2>4
    <3>2. x \in accounts /\ (clocks[x] # None => Live(clocks[x]) /\ clocks[x] \in Projects)
      BY <1>q, <2>4, <3>1 DEF NoOrphans
    <3>3. clocks[x] # None => clocks[x] \notin OwnedBy(u)
      BY <1>q, <2>4, <3>1 DEF OnOwnProject, Owned, OwnedBy, VisibleTo
    <3> QED
      BY <2>1, <3>1, <3>2, <3>3 DEF Live
  <2> HIDE DEF u
  <2>5. VersionsOfTheOwner'
    BY <1>q, <2>3 DEF VersionsOfTheOwner
  <2>6. NoOrphans'
    BY <2>2, <2>3, <2>4 DEF NoOrphans, Exists, Live
  <2> QED
    BY <2>5, <2>6
<1>10. CASE SetLimits(r)
  BY <1>q, <1>10 DEF SetLimits, NoOrphans, VersionsOfTheOwner, Exists, Live
<1> QED
  BY <1>1, <1>2, <1>3, <1>4, <1>5, <1>6, <1>7, <1>8, <1>9, <1>10 DEF Writes

LEMMA StepTurnInv ==
  ASSUME Manages = {}, TurnInv, InTurn
  PROVE  TurnInv'
<1>1. PICK r \in Reqs : (\A q \in Reqs \ {r} : reqs[q] = Idle) /\ Step(r)
  BY DEF InTurn
<1>2. OwnInv' /\ Issued'
  BY <1>1, StepOwnInv, StepIssued DEF TurnInv, HistoryInv, OwnInv
<1>3. ASSUME NEW x \in Reqs, x # r PROVE FoundOut(reqs[x])'
  <2>1. reqs'[x] = Idle
    BY <1>1, <1>3, OtherRequestsStay, TurnTyped
  <2> QED
    BY <2>1 DEF FoundOut, Idle
<1>4. CASE UNCHANGED tables
  <2>1. FoundOut(reqs[r])'
    BY <1>1, <1>4, ReadsFindOut
  <2>2. NoOrphans' /\ VersionsOfTheOwner'
    BY <1>4, TurnTyped DEF tables, NoOrphans, VersionsOfTheOwner, Exists, Live
  <2> QED
    BY <1>2, <1>3, <2>1, <2>2 DEF TurnInv
<1>5. CASE Writes(r)
  <2>1. reqs'[r] = Idle
    BY <1>5, WritesEnd, TurnTyped
  <2>2. FoundOut(reqs[r])'
    BY <2>1 DEF FoundOut, Idle
  <2>3. NoOrphans' /\ VersionsOfTheOwner'
    BY <1>5, TurnStep
  <2> QED
    BY <1>2, <1>3, <2>2, <2>3 DEF TurnInv
<1> QED
  BY <1>1, <1>4, <1>5, ReadsOrWrites

\* Where nobody writes for somebody else, the checks of requests that do not overlap
\* are enough: whatever the database enforces, no hours are left without their project
\* or account, no clock on a project that is gone, and no version of an entry that is.
THEOREM ReferencesInTurn == Manages = {} => (InTurnSpec => []NoOrphans)
<1> SUFFICES ASSUME Manages = {} PROVE InTurnSpec => []NoOrphans
  OBVIOUS
<1>1. Init => TurnInv
  <2> SUFFICES ASSUME Init PROVE TurnInv
    OBVIOUS
  <2>1. OwnInv
    <3>1. \A r \in Reqs : Pending(reqs[r])
      BY DEF Init, Idle, Pending
    <3> QED
      BY <3>1, InitTypeInv DEF Init, OwnInv, UnbornUnowned, OnOwnProject, Exists
  <2>2. \A r \in Reqs : FoundOut(reqs[r])
    BY DEF Init, Idle, FoundOut
  <2>3. Issued /\ NoOrphans /\ VersionsOfTheOwner
    BY DEF Init, Issued, NoOrphans, VersionsOfTheOwner, Exists
  <2> QED
    BY <2>1, <2>2, <2>3 DEF TurnInv
<1>2. TurnInv /\ [InTurn]_vars => TurnInv'
  <2> SUFFICES ASSUME TurnInv, [InTurn]_vars PROVE TurnInv'
    OBVIOUS
  <2>1. CASE InTurn
    BY <2>1, StepTurnInv
  <2>2. CASE UNCHANGED vars
    <3>1. OwnInv'
      <4>1. TypeInv'
        BY <2>2, StutterTypeInv, TurnTyped
      <4>2. UnbornUnowned' /\ OnOwnProject'
        BY <2>2 DEF vars, TurnInv, OwnInv, UnbornUnowned, OnOwnProject, Exists, Owned
      <4>3. \A r \in Reqs : Pending(reqs[r])'
        BY <2>2 DEF vars, TurnInv, OwnInv, Pending, Owned
      <4> QED
        BY <4>1, <4>2, <4>3 DEF OwnInv
    <3>2. Issued' /\ NoOrphans' /\ VersionsOfTheOwner'
      BY <2>2, TurnTyped DEF vars, Issued, NoOrphans, VersionsOfTheOwner, Exists, Live
    <3>3. \A r \in Reqs : FoundOut(reqs[r])'
      BY <2>2, TurnTyped DEF vars, FoundOut, ProjectThere, BookedOn, TimedOn, Exists, Live
    <3> QED
      BY <3>1, <3>2, <3>3 DEF TurnInv
  <2> QED
    BY <2>1, <2>2
<1>3. TurnInv => NoOrphans
  BY DEF TurnInv
<1> QED
  BY <1>1, <1>2, <1>3, PTL DEF InTurnSpec

=============================================================================
