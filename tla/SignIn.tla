------------------------------- MODULE SignIn -------------------------------
(***************************************************************************)
(* One local account, its password, its second factor and its sessions,    *)
(* while several requests about it are in flight: sign-ins, the owner's    *)
(* password change, an administrator's reset, an administrator's edit of   *)
(* the account, and the owner enrolling, confirming and removing the       *)
(* second factor.                                                          *)
(*                                                                         *)
(* One action is one statement against the database, or one turn of the    *)
(* lock around the codes that were spent, with the checks made on what it  *)
(* read.  A password is the hash it is stored as: every hash is salted, so *)
(* each one written is a new one, and they are numbered in that order.     *)
(***************************************************************************)
EXTENDS Integers, FiniteSets

CONSTANTS
  Tokens,     \* session tokens
  Reqs,       \* requests in flight at the same time
  Ops,        \* the operations they ask for
  MaxHashes,  \* bound: passwords that are ever set
  MaxSecrets, \* bound: second-factor secrets that are ever issued
  FirstStep,  \* the step of the one-time codes the run begins in ...
  LastStep,   \* ... and bound: the last step the time gets to
  MayFail,    \* may a statement fail, or the server be restarted, half way?
  Gone,       \* the account was deleted
  None        \* no token, no session, no row read

ASSUME ConstantsAssumption ==
  /\ MaxHashes \in Nat \ {0} /\ MaxSecrets \in Nat \ {0}
  /\ FirstStep \in Nat \ {0} /\ LastStep \in Nat /\ FirstStep <= LastStep
  /\ MayFail \in BOOLEAN
  /\ None \notin Tokens
  /\ None \notin [under : Int, handed : BOOLEAN]
  /\ {Gone, None} \cap [hash : Int, secret : Int, enabled : BOOLEAN] = {}

VARIABLES
  account,    \* the row of users, or Gone
  hashes,     \* how many passwords were set
  secrets,    \* how many second-factor secrets were issued
  sessions,   \* the row of sessions under each token, or None
  opened,     \* the tokens that were ever issued
  spent,      \* the step of the last code accepted, kept in the process
  accepted,   \* every code that was accepted,
  counted,    \* the ones since the count in spent was last started ...
  replayed,   \* ... and the ones accepted more than once under one count
  now,        \* the step of the one-time codes the time is in
  reqs        \* what every request in flight has read so far

vars == <<account, hashes, secrets, sessions, opened, spent, accepted, counted, replayed, now, reqs>>

\* No second factor is being set up: the column is empty.
NoSecret == 0

Hashes == 1 .. MaxHashes

Secrets == 1 .. MaxSecrets

\* What is told apart of an account.  The flag that asks for a new password, the
\* name, the role, the working times and the preferences go with the row.
Row == [hash : Hashes, secret : Secrets \cup {NoSecret}, enabled : BOOLEAN]

\* A session, the password it was opened with or has since proved, and whether
\* somebody was handed its token.
Session == [under : Hashes, handed : BOOLEAN]

Codes == [secret : Secrets, step : 0 .. LastStep + 1]

OpNames == {"login", "change", "reset", "edit", "begin", "confirm", "disable"}

Stages == {"idle", "spend", "open", "recheck", "write", "end", "enrol", "forget", "set"}

Request == [op : OpNames \cup {"none"}, stage : Stages, row : Row \cup {None},
            token : Tokens \cup {None}]

Idle == [op |-> "none", stage |-> "idle", row |-> None, token |-> None]

Handed == {t \in Tokens : sessions[t] # None /\ sessions[t].handed}

Fresh(r, op) == reqs[r] = Idle /\ op \in Ops /\ account # Gone

At(r, op, stage) == reqs[r].op = op /\ reqs[r].stage = stage

Await(r, q) == reqs' = [reqs EXCEPT ![r] = q]

MoveOn(r, stage) == reqs' = [reqs EXCEPT ![r].stage = stage]

Answer(r) == reqs' = [reqs EXCEPT ![r] = Idle]

Reads(r, op, stage, token) ==
  Await(r, [op |-> op, stage |-> stage, row |-> account, token |-> token])

-----------------------------------------------------------------------------
(* Signing in.                                                             *)

\* resolveUser: the row is read and the password checked against its hash.
ResolveUser(r) ==
  /\ Fresh(r, "login")
  /\ Reads(r, "login", "spend", None)
  /\ UNCHANGED <<account, hashes, secrets, sessions, opened, spent, accepted, counted, replayed, now>>

\* secondFactor, for an account that holds none.
PassFactor(r) ==
  /\ At(r, "login", "spend")
  /\ ~reqs[r].row.enabled
  /\ MoveOn(r, "open")
  /\ UNCHANGED <<account, hashes, secrets, sessions, opened, spent, accepted, counted, replayed, now>>

\* The steps whose code MatchTOTP takes: the one the time is in and the one on
\* either side of it.
MatchTOTP(step) == step - now \in -1 .. 1

\* A slip: a code is good for all of its ninety seconds.
NotSpentBefore(step) == step >= spent

\* What spendTOTP asks of a code under its lock.
NotSpent(step) == step > spent

\* spendTOTP, which a sign-in, the confirming and the removing of the second
\* factor go through, with the secret of the row each of them read.
SpendTOTP(r) ==
  /\ reqs[r].stage = "spend"
  /\ reqs[r].op = "login" => reqs[r].row.enabled
  /\ \E step \in 0 .. LastStep + 1 :
       LET code == [secret |-> reqs[r].row.secret, step |-> step]
       IN  /\ MatchTOTP(step) /\ NotSpent(step)
           /\ spent' = step
           /\ replayed' = replayed \cup ({code} \cap counted)
           /\ counted' = counted \cup {code}
           /\ accepted' = accepted \cup {code}
  /\ MoveOn(r, IF reqs[r].op = "login" THEN "open" ELSE "set")
  /\ UNCHANGED <<account, hashes, secrets, sessions, opened, now>>

\* No code, a wrong one, or one that was used: the request is refused.
RefuseCode(r) ==
  /\ reqs[r].stage = "spend"
  /\ reqs[r].op = "login" => reqs[r].row.enabled
  /\ Answer(r)
  /\ UNCHANGED <<account, hashes, secrets, sessions, opened, spent, accepted, counted, replayed, now>>

\* OpenSession: the session is written.
OpenSession(r) ==
  /\ reqs[r].stage = "open"
  /\ \E t \in Tokens \ opened :
       /\ opened' = opened \cup {t}
       /\ sessions' = [sessions EXCEPT ![t] = [under |-> reqs[r].row.hash, handed |-> FALSE]]
       /\ Await(r, [reqs[r] EXCEPT !.stage = "recheck", !.token = t])
  /\ UNCHANGED <<account, hashes, secrets, spent, accepted, counted, replayed, now>>

\* A slip: the token goes out without the account being asked again.
StillTrue(r) == TRUE

\* What Login asks of the account once the session is written.
StillProved(r) == account # Gone /\ account.hash = reqs[r].row.hash

\* The end of Login: the token goes out, or the session is ended again.
Recheck(r) ==
  LET t == reqs[r].token
  IN  /\ reqs[r].stage = "recheck"
      /\ sessions' = [sessions EXCEPT ![t] =
                        IF StillProved(r) /\ sessions[t] # None
                        THEN [sessions[t] EXCEPT !.handed = TRUE] ELSE None]
      /\ Answer(r)
      /\ UNCHANGED <<account, hashes, secrets, opened, spent, accepted, counted, replayed, now>>

\* A session ends by itself: signed out, expired, or left idle.
Logout(t) ==
  /\ t \in Handed
  /\ sessions' = [sessions EXCEPT ![t] = None]
  /\ UNCHANGED <<account, hashes, secrets, opened, spent, accepted, counted, replayed, now, reqs>>

-----------------------------------------------------------------------------
(* The password and the rest of the row.                                   *)

\* ChangePassword: the owner, from one of the sessions or with a token client,
\* shows the password that is on the row.
ReadForChange(r) ==
  /\ Fresh(r, "change")
  /\ \E t \in Handed \cup {None} : Reads(r, "change", "write", t)
  /\ UNCHANGED <<account, hashes, secrets, sessions, opened, spent, accepted, counted, replayed, now>>

\* SetPassword by an administrator, and UpdateUser or UpdateWorkingTimes.
ReadForWrite(r) ==
  /\ \E op \in {"reset", "edit"} : Fresh(r, op) /\ Reads(r, op, "write", None)
  /\ UNCHANGED <<account, hashes, secrets, sessions, opened, spent, accepted, counted, replayed, now>>

\* UserRepository.Update writes every column, the ones that were only read with
\* them.  The session a password was changed from has proved the new one.
WritePassword(r) ==
  /\ reqs[r].stage = "write" /\ reqs[r].op \in {"change", "reset"}
  /\ account # Gone
  /\ hashes < MaxHashes
  /\ hashes' = hashes + 1
  /\ account' = [reqs[r].row EXCEPT !.hash = hashes + 1]
  /\ sessions' = [t \in Tokens |-> IF t = reqs[r].token /\ sessions[t] # None
                                   THEN [sessions[t] EXCEPT !.under = hashes + 1]
                                   ELSE sessions[t]]
  /\ MoveOn(r, "end")
  /\ UNCHANGED <<secrets, opened, spent, accepted, counted, replayed, now>>

\* LogoutOthers for a change, DeleteForUser for a reset.
EndSessions(r) ==
  /\ reqs[r].stage = "end"
  /\ sessions' = [t \in Tokens |-> IF t = reqs[r].token THEN sessions[t] ELSE None]
  /\ Answer(r)
  /\ UNCHANGED <<account, hashes, secrets, opened, spent, accepted, counted, replayed, now>>

\* The row of an edit goes back as it was read, but for what was edited.
WriteEdit(r) ==
  /\ At(r, "edit", "write")
  /\ account # Gone
  /\ account' = reqs[r].row
  /\ Answer(r)
  /\ UNCHANGED <<hashes, secrets, sessions, opened, spent, accepted, counted, replayed, now>>

\* Update finds no row.
WriteNothing(r) ==
  /\ reqs[r].stage = "write"
  /\ account = Gone
  /\ Answer(r)
  /\ UNCHANGED <<account, hashes, secrets, sessions, opened, spent, accepted, counted, replayed, now>>

\* The account is deleted: the purge takes its sessions in the same transaction.
PurgeUser ==
  /\ "delete" \in Ops
  /\ account # Gone
  /\ account' = Gone
  /\ sessions' = [t \in Tokens |-> None]
  /\ UNCHANGED <<hashes, secrets, opened, spent, accepted, counted, replayed, now, reqs>>

-----------------------------------------------------------------------------
(* The second factor.                                                      *)

\* SetTOTP: the two columns in one statement, which touches nothing where there
\* is no row.
SetTOTP(secret, enabled) ==
  account' = IF account = Gone THEN Gone
             ELSE [account EXCEPT !.secret = secret, !.enabled = enabled]

\* BeginTOTPEnrolment reads the row; one that has a second factor is refused.
ReadForEnrolment(r) ==
  /\ Fresh(r, "begin")
  /\ ~account.enabled
  /\ Reads(r, "begin", "enrol", None)
  /\ UNCHANGED <<account, hashes, secrets, sessions, opened, spent, accepted, counted, replayed, now>>

\* The new secret is stored, pending.
EnrolSecret(r) ==
  /\ At(r, "begin", "enrol")
  /\ secrets < MaxSecrets
  /\ secrets' = secrets + 1
  /\ SetTOTP(secrets + 1, FALSE)
  /\ MoveOn(r, "forget")
  /\ UNCHANGED <<hashes, sessions, opened, spent, accepted, counted, replayed, now>>

\* A new secret starts a new count.
ForgetSpent(r) ==
  /\ At(r, "begin", "forget")
  /\ spent' = 0 /\ counted' = {}
  /\ Answer(r)
  /\ UNCHANGED <<account, hashes, secrets, sessions, opened, accepted, replayed, now>>

\* ConfirmTOTP and DisableTOTP read the row and what it says of the second
\* factor; the code follows (SpendTOTP).
ReadForFactor(r) ==
  /\ \/ Fresh(r, "confirm") /\ account.secret # NoSecret /\ Reads(r, "confirm", "spend", None)
     \/ Fresh(r, "disable") /\ account.enabled /\ Reads(r, "disable", "spend", None)
  /\ UNCHANGED <<account, hashes, secrets, sessions, opened, spent, accepted, counted, replayed, now>>

\* A slip: what is on the row now is switched on.
ActivateWhateverIsThere(r) ==
  /\ At(r, "confirm", "set")
  /\ SetTOTP(IF account = Gone THEN NoSecret ELSE account.secret, TRUE)
  /\ Answer(r)
  /\ UNCHANGED <<hashes, secrets, sessions, opened, spent, accepted, counted, replayed, now>>

\* A slip: the flag goes through the update of the whole row.
ActivateByUpdate(r) ==
  /\ At(r, "confirm", "set")
  /\ account' = IF account = Gone THEN Gone ELSE [reqs[r].row EXCEPT !.enabled = TRUE]
  /\ Answer(r)
  /\ UNCHANGED <<hashes, secrets, sessions, opened, spent, accepted, counted, replayed, now>>

\* ConfirmTOTP: the secret that the code was of, now in force.
ActivateTOTP(r) ==
  /\ At(r, "confirm", "set")
  /\ SetTOTP(reqs[r].row.secret, TRUE)
  /\ Answer(r)
  /\ UNCHANGED <<hashes, secrets, sessions, opened, spent, accepted, counted, replayed, now>>

\* DisableTOTP: off, and the secret gone with it.
ClearTOTP(r) ==
  /\ At(r, "disable", "set")
  /\ SetTOTP(NoSecret, FALSE)
  /\ Answer(r)
  /\ UNCHANGED <<hashes, secrets, sessions, opened, spent, accepted, counted, replayed, now>>

-----------------------------------------------------------------------------
\* One statement of a request fails, and with it the rest of the request.
Fail(r) ==
  /\ MayFail
  /\ reqs[r] # Idle
  /\ Answer(r)
  /\ UNCHANGED <<account, hashes, secrets, sessions, opened, spent, accepted, counted, replayed, now>>

\* The process is restarted: requests are cut off, and the steps that were spent
\* are forgotten.
Restart ==
  /\ MayFail
  /\ spent' = 0 /\ counted' = {}
  /\ reqs' = [r \in Reqs |-> Idle]
  /\ UNCHANGED <<account, hashes, secrets, sessions, opened, accepted, replayed, now>>

\* Thirty seconds pass.
NextStep ==
  /\ now < LastStep
  /\ now' = now + 1
  /\ UNCHANGED <<account, hashes, secrets, sessions, opened, spent, accepted, counted, replayed, reqs>>

-----------------------------------------------------------------------------
\* An account with its first password and no session, which has no second
\* factor, or one set up but not confirmed, or one in force.
Init ==
  /\ hashes = 1 /\ secrets = 1
  /\ \/ account = [hash |-> 1, secret |-> NoSecret, enabled |-> FALSE] /\ spent = 0 /\ accepted = {}
     \/ account = [hash |-> 1, secret |-> 1, enabled |-> FALSE] /\ spent = 0 /\ accepted = {}
     \/ /\ account = [hash |-> 1, secret |-> 1, enabled |-> TRUE]
        /\ spent = FirstStep - 1
        /\ accepted = {[secret |-> 1, step |-> FirstStep - 1]}
  /\ counted = accepted /\ replayed = {}
  /\ sessions = [t \in Tokens |-> None]
  /\ opened = {}
  /\ now = FirstStep
  /\ reqs = [r \in Reqs |-> Idle]

Step(r) ==
  \/ ResolveUser(r) \/ PassFactor(r) \/ SpendTOTP(r) \/ RefuseCode(r)
  \/ OpenSession(r) \/ Recheck(r)
  \/ ReadForChange(r) \/ ReadForWrite(r) \/ WritePassword(r) \/ EndSessions(r)
  \/ WriteEdit(r) \/ WriteNothing(r)
  \/ ReadForEnrolment(r) \/ EnrolSecret(r) \/ ForgetSpent(r)
  \/ ReadForFactor(r) \/ ActivateTOTP(r) \/ ClearTOTP(r)
  \/ Fail(r)

Next ==
  \/ \E r \in Reqs : Step(r)
  \/ \E t \in Tokens : Logout(t)
  \/ PurgeUser \/ Restart \/ NextStep

Spec == Init /\ [][Next]_vars

-----------------------------------------------------------------------------
(* What is claimed.                                                        *)

\* Every variable holds what its column, its map or its request may hold.
TypeOK ==
  /\ account \in Row \cup {Gone}
  /\ hashes \in Hashes
  /\ secrets \in Secrets
  /\ sessions \in [Tokens -> Session \cup {None}]
  /\ opened \subseteq Tokens
  /\ spent \in 0 .. LastStep + 1
  /\ accepted \subseteq Codes
  /\ counted \subseteq accepted /\ replayed \subseteq accepted
  /\ now \in FirstStep .. LastStep
  /\ reqs \in [Reqs -> Request]

\* The requests that are still to end the session under a token.
Ending(t) == {r \in Reqs : reqs[r].stage = "end" /\ reqs[r].token # t}

\* No session outlives the password it was opened with: one whose token somebody
\* was handed is under the password that stands, or a request that replaced it is
\* about to end it (Login's second look at the account, LogoutOthers, reset).
NoStaleSession ==
  \A t \in Handed : \/ account # Gone /\ sessions[t].under = account.hash
                    \/ Ending(t) # {}

\* A password that was replaced does not come back (ChangePassword, SetPassword,
\* and the whole-row Update that both share with the edits of an account).
NoPasswordReturns ==
  [][account # Gone /\ account' # Gone => account'.hash >= account.hash]_vars

\* The second factor in force is one a code was accepted from: only ConfirmTOTP
\* switches it on, after the owner has shown they can produce a code of it.
Proven(secret) == \E code \in accepted : code.secret = secret

FactorProven == account # Gone /\ account.enabled => Proven(account.secret)

\* A code is accepted once and not again for as long as the steps that were spent are
\* remembered, whichever requests bring it and whatever becomes of them (spendTOTP): the
\* count lives in the process, and starts anew with another secret.
CodeSpentOnce == replayed = {}

=============================================================================
