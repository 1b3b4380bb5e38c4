--------------------------- MODULE DirectorySync ---------------------------
(***************************************************************************)
(* Accounts that come from a directory. A synchronisation lists the        *)
(* directory, reads the accounts, creates the ones that are missing and    *)
(* purges the ones that have left, one statement at a time; a preview does *)
(* the same and changes nothing. Meanwhile people sign in, the directory   *)
(* changes, and an administrator chooses another identifier attribute.     *)
(***************************************************************************)
EXTENDS Integers, FiniteSets

CONSTANTS Entrants,      \* the people a directory may hold, as numbers
          Addresses,     \* mail addresses, as numbers in their order; 0 is none
          SystemAddress, \* SystemUserEmail
          Rows,          \* account numbers; 1 is the built-in administrator
          Attributes,    \* identifier attributes an administrator may choose; 0 is none
          Identifier,    \* what an entry holds under each attribute
          Runners,       \* what may start a run: the button and the schedule
          Starts         \* what a behaviour starts with: directory, accounts, attribute, the
                         \* deletion limit in percent, and bounds on runs, sign-ins, statements
                         \* that fail and changes to directory and attribute

VARIABLES directory,   \* person -> [in, mail]
          stored,      \* the identifier attribute in the settings
          readBy,      \* the attribute the client of the directory uses
          saving,      \* how far a SaveLDAP is: "no", "forget", "store" or "configure"
          chosen,      \* the attribute it saves
          members,     \* row -> [state, external, admin, id, mail], and its owner (ghost)
          limit,       \* the deletion limit of this installation
          running,     \* the runner that holds the lock, or "nobody"
          runs,        \* runner -> where its run is and what it has read
          shown,       \* what the last preview proposed to delete
          recorded,    \* what directory_runs adds up to
          arrival,     \* the sign-in in flight
          spent,       \* the bounded: runs, movements, sign-ins, faults
          changes,     \* ghost: accounts deleted and created by runs
          excused      \* ghost: what has happened that a property excepts

syncVars == <<directory, stored, readBy, saving, chosen, members, limit, running, runs, shown,
              recorded, arrival, spent, changes, excused>>

stableID(p, attribute) == IF attribute = 0 THEN 0 ELSE Identifier[<<attribute, p>>]
MemberRow == [state : {"none", "there", "gone"}, external : BOOLEAN, admin : BOOLEAN, id : Nat,
              mail : Nat, owner : Nat]

\* No two identifiers are the same, and what a behaviour starts with has the identifiers
\* of its attribute, each at one account.
ASSUME SyncAssumption ==
  /\ Entrants \subseteq Nat /\ Addresses \subseteq Nat /\ Attributes \subseteq Nat
  /\ Identifier \in [(Attributes \ {0}) \X Entrants -> Nat \ {0}]
  /\ \A x, y \in (Attributes \ {0}) \X Entrants : Identifier[x] = Identifier[y] => x = y
  /\ IsFiniteSet(Rows) /\ Rows \subseteq Nat /\ 1 \in Rows
  /\ IsFiniteSet(Runners) /\ "nobody" \notin Runners
  /\ \A s \in Starts :
       /\ s.directory \in [Entrants -> [in : BOOLEAN, mail : Nat]]
       /\ s.accounts \in [Rows -> MemberRow] /\ s.attribute \in Attributes \cup {0} /\ s.limit \in Nat
       /\ s.bounds \in [{"runs", "movements", "signIns", "faults"} -> Nat]
       /\ \A a, b \in Rows :
            LET x == s.accounts[a]
                y == s.accounts[b]
            IN  x.state = "there" /\ x.id # 0 =>
                  /\ x.owner \in Entrants /\ x.id = stableID(x.owner, s.attribute)
                  /\ y.state = "there" /\ x.id = y.id => a = b

Exists(a) == members[a].state = "there"
Used(mail) == \E a \in Rows : Exists(a) /\ members[a].mail = mail
FreeRow ==
  CHOOSE a \in Rows : members[a].state = "none" /\ \A b \in Rows : b < a => members[b].state # "none"
RoomLeft == \E a \in Rows : members[a].state = "none"

NoRun == [at |-> "idle", kind |-> "", agreed |-> {}, listing |-> {}, candidates |-> {}, of |-> 0,
          todo |-> {}, deleted |-> {}, created |-> {}, since |-> {}, answer |-> "", failed |-> FALSE]
NoArrival == [at |-> "idle", who |-> 0, id |-> 0, mail |-> 0, row |-> 0]

Spend(what) == spent[what] > 0 /\ spent' = [spent EXCEPT ![what] = @ - 1]
FaultOr(fails, goesOn) == (Spend("faults") /\ fails) \/ (goesOn /\ UNCHANGED spent)

\* An account is written under an identifier of an attribute other than the one in use, or
\* after the identifiers were forgotten and before the attribute is stored.
Unlike(row) == row.id \notin {0, stableID(row.owner, stored)} \/ (saving = "store" /\ row.id # 0)
Excepting(unlike) == excused' = IF unlike THEN excused \cup {"stale"} ELSE excused

(***************************************************************************)
(* Starting a run. A run that changes anything takes the lock, and is      *)
(* refused when another holds it; a preview does not.                      *)
(***************************************************************************)
DirectoryEnabled == readBy >= 0
KindsOf(r) == IF r = "schedule" THEN {"sync"} ELSE {"preview", "sync", "confirmed"}
TryLock(r, kind) == kind = "preview" \/ running = "nobody"
StartRun(r, kind) ==
  /\ runs[r].at = "idle" /\ kind \in KindsOf(r) /\ DirectoryEnabled
  /\ Spend("runs")
  /\ IF TryLock(r, kind)
     THEN /\ running' = IF kind = "preview" THEN running ELSE r
          /\ runs' = [runs EXCEPT ![r] = [NoRun EXCEPT !.at = "list", !.kind = kind,
                        !.agreed = IF kind = "confirmed" THEN shown ELSE {}]]
     ELSE /\ runs' = [runs EXCEPT ![r] = [NoRun EXCEPT !.answer = "busy"]]
          /\ UNCHANGED running
  /\ UNCHANGED <<directory, stored, readBy, saving, chosen, members, limit, shown, recorded,
                 arrival, changes, excused>>

\* The run returns and lets go of the lock; what it changed is recorded after that.
Ended(r, said) ==
  /\ runs' = [runs EXCEPT ![r].at = "record", ![r].answer = said]
  /\ running' = IF running = r THEN "nobody" ELSE running

listed == {[who |-> p, id |-> stableID(p, readBy), mail |-> directory[p].mail] :
             p \in {q \in Entrants : directory[q].in /\ (directory[q].mail # 0 \/ readBy # 0)}}
ListUsers(r) ==
  /\ runs[r].at = "list"
  /\ FaultOr(Ended(r, "failed"),
             runs' = [runs EXCEPT ![r].at = "read", ![r].listing = listed] /\ UNCHANGED running)
  /\ UNCHANGED <<directory, stored, readBy, saving, chosen, members, limit, shown, recorded,
                 arrival, changes, excused>>

(***************************************************************************)
(* Who has left, and the three reasons to refuse.                          *)
(***************************************************************************)
stillInDirectory(row, listing) ==
  \/ row.id # 0 /\ \E e \in listing : e.id = row.id
  \/ \E e \in listing : e.mail = row.mail /\ (row.id = 0 \/ e.id = 0)
External == {a \in Rows : Exists(a) /\ members[a].external /\ a # 1}
candidates(listing) == {a \in External : ~stillInDirectory(members[a], listing)}
exceedsRatio(gone, of) == limit > 0 /\ of > 0 /\ gone > 0 /\ gone * 100 > limit * of
approve(r, gone) == runs[r].kind = "confirmed" => gone = runs[r].agreed
AnsweredEmpty(listing) == \A e \in listing : e.mail = 0
known(e) == Used(e.mail) \/ (e.id # 0 /\ \E a \in Rows : Exists(a) /\ members[a].id = e.id)
missing(listing) == {e \in listing : e.mail # 0 /\ ~known(e)}

ReadAccounts(r) ==
  LET listing == runs[r].listing
      gone == candidates(listing)
      refused == AnsweredEmpty(listing) \/ exceedsRatio(Cardinality(gone), Cardinality(External))
                   \/ ~approve(r, gone)
  IN /\ runs[r].at = "read"
     /\ FaultOr(Ended(r, "failed") /\ UNCHANGED <<shown, excused>>,
          IF refused THEN Ended(r, "refused") /\ UNCHANGED <<shown, excused>>
          ELSE IF runs[r].kind = "preview" THEN Ended(r, "preview") /\ shown' = gone /\ UNCHANGED excused
          ELSE /\ Excepting(\E e \in listing : e.id # stableID(e.who, stored))
               /\ runs' = [runs EXCEPT ![r].at = "create", ![r].candidates = gone,
                                       ![r].of = Cardinality(External), ![r].todo = missing(listing)]
               /\ UNCHANGED <<running, shown>>)
     /\ UNCHANGED <<directory, stored, readBy, saving, chosen, members, limit, recorded, arrival,
                    changes>>

(***************************************************************************)
(* Creating, one row at a time, then purging in the order of the           *)
(* addresses. A row under an address taken since is refused by the         *)
(* database, and so is a purge of an account that is gone.                 *)
(***************************************************************************)
stoppedPartWay(r, failed) ==
  /\ runs' = [runs EXCEPT ![r].at = "record", ![r].answer = "stopped", ![r].failed = failed]
  /\ running' = IF running = r THEN "nobody" ELSE running
  /\ UNCHANGED <<members, changes>>
Arrived(e) == [state |-> "there", external |-> TRUE, admin |-> FALSE, id |-> e.id, mail |-> e.mail,
               owner |-> e.who]
createMissing(r) ==
  LET e == CHOOSE x \in runs[r].todo : \A y \in runs[r].todo : x.who <= y.who
  IN /\ runs[r].at = "create" /\ runs[r].todo # {}
     /\ FaultOr(stoppedPartWay(r, TRUE) /\ UNCHANGED excused,
          IF Used(e.mail) THEN stoppedPartWay(r, FALSE) /\ excused' = excused \cup {"taken"}
          ELSE /\ RoomLeft
               /\ members' = [members EXCEPT ![FreeRow] = Arrived(e)]
               /\ runs' = [runs EXCEPT ![r].todo = @ \ {e}, ![r].created = @ \cup {FreeRow}]
               /\ changes' = changes + 1
               /\ Excepting(Unlike(Arrived(e)))
               /\ UNCHANGED running)
     /\ UNCHANGED <<directory, stored, readBy, saving, chosen, limit, shown, recorded, arrival>>
PurgeUser(r) ==
  LET left == runs[r].candidates \ runs[r].deleted
      a == CHOOSE x \in left : \A y \in left : members[x].mail <= members[y].mail
  IN /\ runs[r].at = "create" /\ runs[r].todo = {} /\ left # {}
     /\ FaultOr(stoppedPartWay(r, TRUE),
          IF ~Exists(a) THEN stoppedPartWay(r, FALSE)
          ELSE /\ members' = [members EXCEPT ![a].state = "gone"]
               /\ runs' = [runs EXCEPT ![r].deleted = @ \cup {a}]
               /\ changes' = changes + 1
               /\ UNCHANGED running)
     /\ UNCHANGED <<directory, stored, readBy, saving, chosen, limit, shown, recorded, arrival, excused>>
Complete(r) ==
  /\ runs[r].at = "create" /\ runs[r].todo = {} /\ runs[r].candidates \subseteq runs[r].deleted
  /\ Ended(r, "done")
  /\ UNCHANGED <<directory, stored, readBy, saving, chosen, members, limit, shown, recorded, arrival,
                 spent, changes, excused>>

\* Past an error of the run and past a cancelled request; its own failure is reported.
Changed(r) == Cardinality(runs[r].deleted) + Cardinality(runs[r].created)
\* A slip: only a run that came to its end is recorded.
recordOfSuccess(r) ==
  /\ runs[r].at = "record"
  /\ recorded' = recorded + IF runs[r].answer = "done" THEN Changed(r) ELSE 0
  /\ runs' = [runs EXCEPT ![r].at = "idle"]
  /\ UNCHANGED <<directory, stored, readBy, saving, chosen, members, limit, running, shown, arrival,
                 spent, changes, excused>>
record(r) ==
  /\ runs[r].at = "record"
  /\ FaultOr(/\ Changed(r) > 0 /\ runs' = [runs EXCEPT ![r].at = "idle", ![r].answer = "unrecorded"]
             /\ excused' = excused \cup {"unrecorded"} /\ UNCHANGED recorded,
             /\ recorded' = recorded + Changed(r)
             /\ runs' = [runs EXCEPT ![r].at = "idle"] /\ UNCHANGED excused)
  /\ UNCHANGED <<directory, stored, readBy, saving, chosen, members, limit, running, shown, arrival,
                 changes>>

(***************************************************************************)
(* Signing in through the directory: by identifier, then by address; a     *)
(* lookup that failed is not a person nobody knows.                        *)
(***************************************************************************)
SignIn(p) ==
  /\ arrival.at = "idle" /\ Spend("signIns")
  /\ DirectoryEnabled /\ directory[p].in /\ directory[p].mail # 0
  /\ arrival' = [NoArrival EXCEPT !.at = "id", !.who = p, !.id = stableID(p, readBy),
                                  !.mail = directory[p].mail]
  /\ UNCHANGED <<directory, stored, readBy, saving, chosen, members, limit, running, runs, shown,
                 recorded, changes, excused>>
Refuse == arrival' = NoArrival
ByID ==
  /\ arrival.at = "id"
  /\ FaultOr(Refuse,
       IF \E a \in Rows : Exists(a) /\ arrival.id # 0 /\ members[a].id = arrival.id
       THEN \E a \in Rows : /\ Exists(a) /\ members[a].id = arrival.id
                            /\ arrival' = [arrival EXCEPT !.at = "reconcile", !.row = a]
       ELSE arrival' = [arrival EXCEPT !.at = "mail"])
  /\ UNCHANGED <<directory, stored, readBy, saving, chosen, members, limit, running, runs, shown,
                 recorded, changes, excused>>
AnotherEntry(row) == arrival.id # 0 /\ row.id # 0 /\ row.id # arrival.id
ByMail ==
  /\ arrival.at = "mail"
  /\ FaultOr(Refuse,
       IF Used(arrival.mail)
       THEN LET a == CHOOSE b \in Rows : Exists(b) /\ members[b].mail = arrival.mail
            IN IF AnotherEntry(members[a]) THEN Refuse
               ELSE arrival' = [arrival EXCEPT !.at = "reconcile", !.row = a]
       ELSE IF arrival.mail = SystemAddress THEN Refuse
       ELSE arrival' = [arrival EXCEPT !.at = "save"])
  /\ UNCHANGED <<directory, stored, readBy, saving, chosen, members, limit, running, runs, shown,
                 recorded, changes, excused>>

SaveArrival ==
  /\ arrival.at = "save" /\ RoomLeft
  /\ IF Used(arrival.mail) THEN UNCHANGED <<members, excused>>
     ELSE members' = [members EXCEPT ![FreeRow] = Arrived(arrival)] /\ Excepting(Unlike(Arrived(arrival)))
  /\ Refuse
  /\ UNCHANGED <<directory, stored, readBy, saving, chosen, limit, running, runs, shown, recorded,
                 spent, changes>>
refusedAdoption(a) == a = 1 \/ (~members[a].external /\ members[a].admin)
reconcileExternal ==
  LET a == arrival.row
      reconciled == [members[a] EXCEPT !.external = TRUE, !.mail = arrival.mail, !.owner = arrival.who,
                                        !.id = IF arrival.id = 0 THEN @ ELSE arrival.id]
      collides == \E b \in Rows \ {a} : Exists(b) /\ members[b].mail = arrival.mail
  IN /\ arrival.at = "reconcile"
     /\ IF refusedAdoption(a) \/ ~Exists(a) \/ collides THEN UNCHANGED <<members, runs, excused>>
        ELSE /\ members' = [members EXCEPT ![a] = reconciled] /\ Excepting(Unlike(reconciled))
             /\ runs' = [r \in Runners |-> IF runs[r].at = "create" /\ a \in runs[r].candidates
                                            THEN [runs[r] EXCEPT !.since = @ \cup {a}] ELSE runs[r]]
     /\ Refuse
     /\ UNCHANGED <<directory, stored, readBy, saving, chosen, limit, running, shown, recorded,
                    spent, changes>>

(***************************************************************************)
(* The identifier attribute, which is saved in three writes, and the       *)
(* directory itself.                                                       *)
(***************************************************************************)
SaveLDAP(attribute) ==
  /\ saving = "no" /\ attribute # stored /\ Spend("movements")
  /\ saving' = "forget" /\ chosen' = attribute
  /\ UNCHANGED <<directory, stored, readBy, members, limit, running, runs, shown, recorded, arrival,
                 changes, excused>>
\* A slip: the identifiers of the former attribute are kept.
ForgetNothing ==
  /\ saving = "forget"
  /\ saving' = "store"
  /\ UNCHANGED <<directory, stored, readBy, chosen, members, limit, running, runs, shown, recorded,
                 arrival, spent, changes, excused>>
ForgetExternalIDs ==
  /\ saving = "forget"
  /\ saving' = "store"
  /\ members' = [a \in Rows |-> [members[a] EXCEPT !.id = 0]]
  /\ UNCHANGED <<directory, stored, readBy, chosen, limit, running, runs, shown, recorded, arrival,
                 spent, changes, excused>>
StoreLDAP ==
  /\ saving = "store"
  /\ FaultOr(saving' = "no" /\ UNCHANGED stored, saving' = "configure" /\ stored' = chosen)
  /\ UNCHANGED <<directory, readBy, chosen, members, limit, running, runs, shown, recorded, arrival,
                 changes, excused>>
Configure ==
  /\ saving = "configure"
  /\ saving' = "no" /\ readBy' = chosen
  /\ UNCHANGED <<directory, stored, chosen, members, limit, running, runs, shown, recorded, arrival,
                 spent, changes, excused>>

InFlight == arrival.at # "idle" \/ \E r \in Runners : runs[r].at \notin {"idle", "record"}
DirectoryMoves(p) ==          \* somebody leaves, comes back or gets another address
  /\ Spend("movements")
  /\ \/ directory' = [directory EXCEPT ![p].in = ~@]
     \/ \E mail \in Addresses : /\ \A q \in Entrants : directory[q].mail # mail
                               /\ directory' = [directory EXCEPT ![p].mail = mail]
  /\ excused' = excused \cup (IF InFlight THEN {"moved"} ELSE {})
  /\ UNCHANGED <<stored, readBy, saving, chosen, members, limit, running, runs, shown, recorded,
                 arrival, changes>>

SyncInit ==
  /\ \E initial \in Starts :
       /\ directory = initial.directory /\ members = initial.accounts
       /\ stored = initial.attribute /\ readBy = initial.attribute
       /\ limit = initial.limit /\ spent = initial.bounds
  /\ saving = "no" /\ chosen = 0
  /\ running = "nobody" /\ runs = [r \in Runners |-> NoRun] /\ shown = {}
  /\ recorded = 0 /\ changes = 0 /\ excused = {}
  /\ arrival = NoArrival

SyncNext ==
  \/ \E r \in Runners : \/ \E kind \in {"preview", "sync", "confirmed"} : StartRun(r, kind)
                        \/ ListUsers(r) \/ ReadAccounts(r) \/ createMissing(r) \/ PurgeUser(r)
                        \/ Complete(r) \/ record(r)
  \/ \E p \in Entrants : SignIn(p) \/ DirectoryMoves(p)
  \/ ByID \/ ByMail \/ SaveArrival \/ reconcileExternal
  \/ \E attribute \in Attributes : SaveLDAP(attribute)
  \/ ForgetExternalIDs \/ StoreLDAP \/ Configure

SyncSpec == SyncInit /\ [][SyncNext]_syncVars

(***************************************************************************)
(* What holds.                                                             *)
(***************************************************************************)

\* Nobody the directory held when the run listed it loses their account, with these
\* exceptions: an account with no identifier is known by its address alone; identifiers
\* do not compare when the attribute changes between what a sign-in or a run reads of the
\* directory and what it reads or writes of the accounts; and an account that is signed
\* in to between the run's decision and its deletion is deleted all the same
\* (stillInDirectory, SaveLDAP, PurgeUser).
HeldStays ==
  [][\A r \in Runners : \A a \in runs'[r].deleted \ runs[r].deleted :
       \A e \in runs[r].listing :
         e.who = members[a].owner =>
           \/ members[a].id = 0 /\ members[a].mail # e.mail
           \/ a \in runs[r].since
           \/ "stale" \in excused]_syncVars

\* A confirmed run deletes the accounts somebody was shown and no others, and a run that
\* nobody confirmed never more than the share the limit allows (SyncAsConfirmed,
\* exceedsRatio).
WithinWhatWasAgreed ==
  \A r \in Runners :
    /\ runs[r].kind = "confirmed" => runs[r].deleted \subseteq runs[r].agreed
    /\ limit > 0 => Cardinality(runs[r].deleted) * 100 <= limit * runs[r].of

\* What runs have deleted and created is what the record adds up to once none is in
\* flight, however the runs ended, unless the record itself could not be written (record).
RemovalsOnRecord ==
  (\A r \in Runners : runs[r].at = "idle") => recorded = changes \/ "unrecorded" \in excused

\* A run stops part-way because a statement failed or an address was taken in the
\* meantime, never because another run was doing the same work (running).
StopsForAReason ==
  \A r \in Runners : runs[r].answer = "stopped" => runs[r].failed \/ "taken" \in excused

\* Nobody has two accounts under one identifier, unless the directory moved them while a
\* request was in flight (provisionExternal: a failed lookup is not a stranger).
OneAccountEach ==
  \A a, b \in Rows : Exists(a) /\ Exists(b) /\ members[a].id = members[b].id /\ members[a].id # 0
                       => a = b \/ "moved" \in excused

\* A local account that administers the installation is never handed to the directory
\* (reconcileExternal).
AdministratorsStayLocal ==
  [][\A a \in Rows :
       Exists(a) /\ members[a].admin /\ ~members[a].external => ~members'[a].external]_syncVars

\* Neither a run nor a sign-in takes an account away from the one it belongs to.
AccountsStayPut == HeldStays /\ AdministratorsStayLocal

\* A run does what was agreed and what it says: it deletes no more than was confirmed or
\* the limit allows, what it changed is on record, it stops only for a reason, and it
\* gives nobody a second account.
RunsKeepTheirWord ==
  WithinWhatWasAgreed /\ RemovalsOnRecord /\ StopsForAReason /\ OneAccountEach
=============================================================================
