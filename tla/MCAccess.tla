------------------------------ MODULE MCAccess ------------------------------
(***************************************************************************)
(* Who may do what, for TLC: roles and teams, tokens and calendar feeds,   *)
(* the requests at the door, sign-ins through others, and accounts from a  *)
(* directory. They share no variable here, so a behaviour follows one of   *)
(* them while the others stand still. Roles and teams are followed twice:  *)
(* two requests that overlap, and three that do not.                       *)
(***************************************************************************)
EXTENDS Access, Keys, Gate, Ceremonies, DirectorySync

CONSTANT r1

VARIABLE part

\* Somebody with a directory account, one who has left the directory, and one with an
\* account of their own and an address the directory also holds.
Account(s, x, a, i, m, o) == [state |-> s, external |-> x, admin |-> a, id |-> i, mail |-> m, owner |-> o]
Bounded(r, m, s, f) == [runs |-> r, movements |-> m, signIns |-> s, faults |-> f]
Start(i, attribute, percent, mails, bounds) ==
  [directory |-> [p \in {1, 2, 3} |-> [in |-> p # 2, mail |-> IF mails THEN p ELSE 0]],
   accounts  |-> [a \in 1..6 |-> CASE a = 1 -> Account("there", FALSE, TRUE, 0, 4, 0)
                                   [] a = 2 -> Account("there", TRUE, FALSE, stableID(1, i), 1, 1)
                                   [] a = 3 -> Account("there", TRUE, FALSE, stableID(2, i), 2, 2)
                                   [] a = 4 -> Account("there", FALSE, i = 1, 0, 3, 3)
                                   [] OTHER -> Account("none", FALSE, FALSE, 0, 0, 0)],
   attribute |-> attribute, limit |-> percent, bounds |-> bounds]
cIdentifier == [x \in (Attributes \ {0}) \X Entrants |-> 10 * x[1] + x[2]]
cStarts ==
  {Start(0, 1, 50, TRUE, Bounded(2, 1, 1, 0)), Start(1, 1, 0, TRUE, Bounded(2, 1, 1, 0)),
   Start(1, 1, 50, TRUE, Bounded(1, 1, 1, 1)), Start(0, 0, 50, TRUE, Bounded(1, 1, 2, 0)),
   Start(1, 1, 0, FALSE, Bounded(1, 0, 1, 1)), Start(1, 1, 0, TRUE, Bounded(2, 0, 0, 1)),
   Start(1, 1, 0, TRUE, Bounded(0, 2, 2, 0)), Start(0, 1, 0, TRUE, Bounded(1, 1, 1, 0))}

\* Budgets of the sign-in limiter: two attempts a window, and no limit.
cBudgets == {[limit |-> 2, window |-> 1], [limit |-> 0, window |-> 1]}
cFallback == [limit |-> 1, window |-> 1]

\* Either the time passes or the account changes while keys are used; twice, while a
\* ceremony is under way.
KeysReach == \A u \in People : clock + people[u].changes <= 1
CeremoniesReach == hour + moves <= 2

\* The parts that are not followed start in one state.
Init ==
  /\ part \in {"overlapping", "one", "keys", "gate", "ceremonies", "directory"}
  /\ AccessInit /\ KeysInit /\ RequestsInit /\ CeremonyInit /\ SyncInit
  /\ part \notin {"overlapping", "one"} => roles[CustomRole] = NotThere /\ \A a \in Accounts \ {System} : ~There(a)
  /\ part # "keys" => secrets[1].kind = "token"
  /\ part # "gate" => budgetSaved.limit = 0
  /\ part # "ceremonies" => (\A b \in Browsers : seat[b] = "") /\ (\A k \in Credentials : passkeys[k] = "")
  /\ part # "directory" => spent.runs = 0

allVars == <<part, accessVars, keyVars, gateKeptVars, ceremonyVars, syncVars>>

Next ==
  \/ /\ UNCHANGED <<part, keyVars, gateKeptVars, ceremonyVars, syncVars>>
     /\ \/ part = "overlapping" /\ AccessNext /\ asked' <= 2
        \/ part = "one" /\ (AccessStep(r1) \/ \E a \in Accounts : ChangePassword(a))
  \/ part = "keys" /\ KeysNext /\ KeysReach' /\ UNCHANGED <<part, accessVars, gateKeptVars, ceremonyVars, syncVars>>
  \/ part = "gate" /\ RequestsNext /\ UNCHANGED <<part, accessVars, keyVars, ceremonyVars, syncVars>>
  \/ part = "ceremonies" /\ CeremonyNext /\ CeremoniesReach' /\ UNCHANGED <<part, accessVars, keyVars, gateKeptVars, syncVars>>
  \/ part = "directory" /\ SyncNext /\ UNCHANGED <<part, accessVars, keyVars, gateKeptVars, ceremonyVars>>
Spec == Init /\ [][Next]_allVars

=============================================================================
