----------------------------- MODULE Ceremonies -----------------------------
(***************************************************************************)
(* Signing in without a password of this installation's: through an OpenID *)
(* provider, with a passkey, or with a Kerberos ticket. The first two are  *)
(* ceremonies of two requests; what the first one promised waits in memory *)
(* until the second takes it, and in between accounts change hands:        *)
(* somebody signs out, another provider is configured, the directory       *)
(* adopts the account.                                                     *)
(***************************************************************************)
EXTENDS Integers, FiniteSets

CONSTANTS Browsers,
          Persons,        \* accounts, BuiltIn among them
          BuiltIn,        \* the built-in administrator
          Subjects,       \* identities at the provider
          Credentials,    \* passkeys on somebody's device
          Issuers,        \* the providers an administrator may configure, "" for none
          MaxRounds,      \* bound on the ceremonies begun
          RoundLife,      \* openIDRoundLifetime, challengeLifetime
          SweepEvery,     \* pendingSweepInterval
          MaxHour,        \* bound on the clock
          MaxMoves        \* bound on what else happens: sign-ins, settings, removals

ASSUME CeremonyAssumption == MaxRounds \in Nat /\ RoundLife \in Nat /\ SweepEvery \in Nat \ {0}

VARIABLES hour,
          issuer,         \* the configured provider
          external,       \* the accounts the directory holds
          waiting,        \* token -> the ceremony in its pendingStore, kind "none" for none
          lastSweep, lastPut,
          begun,          \* ceremonies so far
          seat,           \* browser -> who is signed in there, "" for nobody
          roundCookie,    \* browser -> the token openIDCookie holds, 0 for none
          identities,     \* account -> its row of openid_identities, subject "" for none
          passkeys,       \* credential -> the account it is registered for, "" for none
          maintenance,    \* whether the door is shut to most
          moves,          \* what else has happened so far
          work,           \* browser -> the finishing request it waits for
          taken,          \* ghost: token -> how often its ceremony was finished
          event           \* ghost: what last came of a ceremony

ceremonyVars == <<hour, issuer, external, waiting, lastSweep, lastPut, begun, seat, roundCookie,
                  identities, passkeys, maintenance, moves, work, taken, event>>

Rounds == 1..MaxRounds
NoRound == [kind |-> "none", who |-> "", issuer |-> "", expires |-> 0]
NoWork == [at |-> "none", round |-> NoRound, subject |-> "", who |-> "", barred |-> {}]
NoEvent == [kind |-> "none", who |-> "", barred |-> {}, asker |-> ""]
NoIdentity == [issuer |-> "", subject |-> ""]
Barred == {BuiltIn} \union external
mayGoThroughAProvider(p) == p # BuiltIn /\ p \notin external

(***************************************************************************)
(* What waits between the two requests of a ceremony (pendingStore).       *)
(***************************************************************************)
swept == IF hour - lastSweep < SweepEvery THEN waiting
         ELSE [t \in Rounds |-> IF hour > waiting[t].expires THEN NoRound ELSE waiting[t]]
put(t, round) ==
  /\ waiting' = [swept EXCEPT ![t] = [round EXCEPT !.expires = hour + RoundLife]]
  /\ lastSweep' = IF hour - lastSweep < SweepEvery THEN lastSweep ELSE hour
  /\ lastPut' = hour
found(t, kinds) == waiting[t].kind \in kinds /\ hour <= waiting[t].expires
take(t) == waiting' = [waiting EXCEPT ![t] = NoRound]

Begin(b, round) ==
  /\ begun < MaxRounds /\ work[b] = NoWork
  /\ begun' = begun + 1
  /\ put(begun + 1, round)
  /\ UNCHANGED <<moves, hour, issuer, external, seat, identities, passkeys, maintenance, work, taken, event>>

(***************************************************************************)
(* The OpenID provider. The browser comes back with the token its cookie   *)
(* holds; the provider says who it is, which takes a request of its own.   *)
(***************************************************************************)
BeginSignIn(b) ==
  /\ issuer # ""
  /\ Begin(b, [kind |-> "signIn", who |-> "", issuer |-> issuer, expires |-> 0])
  /\ roundCookie' = [roundCookie EXCEPT ![b] = begun + 1]
BeginLink(b) ==
  /\ seat[b] # "" /\ mayGoThroughAProvider(seat[b]) /\ issuer # ""
  /\ Begin(b, [kind |-> "link", who |-> seat[b], issuer |-> issuer, expires |-> 0])
  /\ roundCookie' = [roundCookie EXCEPT ![b] = begun + 1]

\* A slip: whoever sits there when the answer comes is linked.
NotTheAskersAnyway(b, round) == FALSE
NotTheAskers(b, round) == round.kind = "link" /\ seat[b] # round.who
roundOver(t) == ~found(t, {"signIn", "link"}) \/ issuer = "" \/ waiting[t].issuer # issuer
FinishRound(b, t) ==
  /\ work[b] = NoWork /\ roundCookie[b] = t                  \* sameRound
  /\ roundCookie' = [roundCookie EXCEPT ![b] = 0]
  /\ IF waiting[t].kind \in {"signIn", "link"} THEN take(t) ELSE UNCHANGED waiting
  /\ IF roundOver(t) \/ NotTheAskers(b, waiting[t])
     THEN UNCHANGED <<work, taken>>
     ELSE /\ work' = [work EXCEPT ![b] = [NoWork EXCEPT !.at = "identify", !.round = waiting[t], !.who = seat[b], !.barred = Barred]]
          /\ taken' = [taken EXCEPT ![t] = @ + 1]
  /\ UNCHANGED <<moves, hour, issuer, external, lastSweep, lastPut, begun, seat, identities, passkeys, maintenance, event>>

Same == UNCHANGED <<hour, issuer, external, waiting, lastSweep, lastPut, begun, roundCookie, maintenance, moves, taken>>
Moved == moves < MaxMoves /\ moves' = moves + 1
SameMoved == Moved /\ UNCHANGED <<hour, issuer, external, waiting, lastSweep, lastPut, begun, roundCookie, maintenance, taken>>
Identify(b, s) ==
  /\ work[b].at = "identify"
  /\ work' = [work EXCEPT ![b].at = IF @ = "identify" /\ work[b].round.kind = "link" THEN "check" ELSE "bySubject",
                          ![b].subject = s]
  /\ Same /\ UNCHANGED <<seat, identities, passkeys, event>>
IdentifyFails(b) ==
  /\ work[b].at = "identify"
  /\ work' = [work EXCEPT ![b] = NoWork]
  /\ Same /\ UNCHANGED <<seat, identities, passkeys, event>>

linkedTo(i, s) == {p \in Persons : identities[p] = [issuer |-> i, subject |-> s]}
Linked(b) == linkedTo(work[b].round.issuer, work[b].subject)
BySubject(b) ==
  /\ work[b].at = "bySubject"
  /\ work' = [work EXCEPT ![b] =
       IF \E p \in Linked(b) : mayGoThroughAProvider(p)
       THEN [@ EXCEPT !.at = "open", !.who = CHOOSE p \in Linked(b) : TRUE] ELSE NoWork]
  /\ Same /\ UNCHANGED <<seat, identities, passkeys, event>>
CheckLink(b) ==
  /\ work[b].at = "check"
  /\ work' = [work EXCEPT ![b] =
       IF mayGoThroughAProvider(@.round.who) /\ Linked(b) \subseteq {@.round.who}
       THEN [@ EXCEPT !.at = "link"] ELSE NoWork]
  /\ Same /\ UNCHANGED <<seat, identities, passkeys, event>>
\* The pair is unique: the statement fails, or on MySQL rewrites the other row as it is.
Link(b) ==
  identities' = IF Linked(b) \subseteq {work[b].round.who}
                THEN [identities EXCEPT ![work[b].round.who] = [issuer |-> work[b].round.issuer, subject |-> work[b].subject]]
                ELSE identities
StoreLink(b) ==
  /\ work[b].at = "link"
  /\ Link(b)
  /\ work' = [work EXCEPT ![b] = NoWork]
  /\ event' = [kind |-> "linked", who |-> work[b].round.who, barred |-> work[b].barred, asker |-> work[b].who]
  /\ Same /\ UNCHANGED <<seat, passkeys>>
Unlink(b) ==
  /\ seat[b] # "" /\ identities[seat[b]] # NoIdentity
  /\ identities' = [identities EXCEPT ![seat[b]] = NoIdentity]
  /\ SameMoved /\ UNCHANGED <<seat, passkeys, work, event>>

(***************************************************************************)
(* Passkeys.                                                               *)
(***************************************************************************)
BeginRegistration(b) ==
  /\ seat[b] # "" /\ mayGoThroughAProvider(seat[b])
  /\ Begin(b, [kind |-> "register", who |-> seat[b], issuer |-> "", expires |-> 0])
  /\ UNCHANGED roundCookie
BeginLogin(b) ==
  /\ Begin(b, [kind |-> "login", who |-> "", issuer |-> "", expires |-> 0])
  /\ UNCHANGED roundCookie
FinishRegistration(b, t, k) ==
  /\ work[b] = NoWork /\ seat[b] # "" /\ waiting[t].kind \in {"register", "login"}
  /\ take(t)
  /\ IF found(t, {"register"}) /\ waiting[t].who = seat[b] /\ passkeys[k] = ""
     THEN /\ passkeys' = [passkeys EXCEPT ![k] = seat[b]]
          /\ taken' = [taken EXCEPT ![t] = @ + 1]
          /\ event' = [NoEvent EXCEPT !.kind = "registered", !.who = seat[b], !.asker = waiting[t].who]
     ELSE UNCHANGED <<passkeys, taken, event>>
  /\ UNCHANGED <<moves, hour, issuer, external, lastSweep, lastPut, begun, seat, roundCookie, identities, maintenance, work>>
Accepted(t, k) == found(t, {"login"}) /\ passkeys[k] # "" /\ mayGoThroughAProvider(passkeys[k])
FinishLogin(b, t, k) ==
  /\ work[b] = NoWork /\ waiting[t].kind \in {"login", "register"}
  /\ take(t)
  /\ IF Accepted(t, k)
     THEN /\ work' = [work EXCEPT ![b] = [NoWork EXCEPT !.at = "open", !.who = passkeys[k], !.barred = Barred]]
          /\ taken' = [taken EXCEPT ![t] = @ + 1]
     ELSE UNCHANGED <<work, taken>>
  /\ UNCHANGED <<moves, hour, issuer, external, lastSweep, lastPut, begun, seat, roundCookie, identities, passkeys, maintenance, event>>
DeletePasskey(b, k) ==
  /\ seat[b] # "" /\ passkeys[k] = seat[b]
  /\ passkeys' = [passkeys EXCEPT ![k] = ""]
  /\ SameMoved /\ UNCHANGED <<seat, identities, work, event>>

(***************************************************************************)
(* Completing a sign-in, however it was made, and what goes on meanwhile.  *)
(***************************************************************************)
refusedByMaintenance(p) == maintenance /\ p # BuiltIn
completeSignIn(b) ==
  /\ work[b].at = "open"
  /\ work' = [work EXCEPT ![b] = NoWork]
  /\ IF refusedByMaintenance(work[b].who) THEN UNCHANGED <<seat, event>>
     ELSE /\ seat' = [seat EXCEPT ![b] = work[b].who]
          /\ event' = [NoEvent EXCEPT !.kind = "opened", !.who = work[b].who, !.barred = work[b].barred]
  /\ Same /\ UNCHANGED <<identities, passkeys>>
KerberosLogin(b, p) ==      \* provisionExternal adopts the account; the administrator's never
  /\ Moved
  /\ work[b] = NoWork /\ p # BuiltIn
  /\ external' = external \union {p}
  /\ IF refusedByMaintenance(p) THEN UNCHANGED seat ELSE seat' = [seat EXCEPT ![b] = p]
  /\ UNCHANGED <<hour, issuer, waiting, lastSweep, lastPut, begun, roundCookie, identities, passkeys, maintenance, work, taken, event>>
PasswordLogin(b, p) ==
  /\ work[b] = NoWork /\ seat[b] = "" /\ p \notin external /\ ~refusedByMaintenance(p)
  /\ seat' = [seat EXCEPT ![b] = p]
  /\ SameMoved /\ UNCHANGED <<identities, passkeys, work, event>>
SignOut(b) ==
  /\ work[b] = NoWork /\ seat[b] # ""
  /\ seat' = [seat EXCEPT ![b] = ""]
  /\ SameMoved /\ UNCHANGED <<identities, passkeys, work, event>>
SaveOpenID(i) ==
  /\ Moved
  /\ i # issuer
  /\ issuer' = i
  /\ UNCHANGED <<hour, external, waiting, lastSweep, lastPut, begun, seat, roundCookie, identities, passkeys, maintenance, work, taken, event>>
SetMaintenance ==
  /\ Moved
  /\ maintenance' = ~maintenance
  /\ UNCHANGED <<hour, issuer, external, waiting, lastSweep, lastPut, begun, seat, roundCookie, identities, passkeys, work, taken, event>>
HourPasses ==
  /\ hour < MaxHour
  /\ hour' = hour + 1
  /\ UNCHANGED <<moves, issuer, external, waiting, lastSweep, lastPut, begun, seat, roundCookie, identities, passkeys, maintenance, work, taken, event>>

CeremonyInit ==
  /\ hour = 0 /\ moves = 0 /\ lastSweep = -SweepEvery /\ lastPut = 0 /\ begun = 0 /\ maintenance = FALSE
  /\ issuer \in Issuers \ {""} /\ external = {}
  /\ waiting = [t \in Rounds |-> NoRound] /\ taken = [t \in Rounds |-> 0]
  /\ seat \in [Browsers -> {"", CHOOSE p \in Persons : p # BuiltIn}] /\ roundCookie = [b \in Browsers |-> 0]
  /\ identities = [p \in Persons |-> NoIdentity]
  /\ \E p \in Persons \ {BuiltIn} : passkeys \in [Credentials -> {"", p}]
  /\ work = [b \in Browsers |-> NoWork] /\ event = NoEvent
CeremonyNext ==
  \/ \E b \in Browsers :
       \/ BeginSignIn(b) \/ BeginLink(b) \/ BeginRegistration(b) \/ BeginLogin(b)
       \/ \E t \in Rounds : FinishRound(b, t)
       \/ \E t \in Rounds, k \in Credentials : FinishRegistration(b, t, k) \/ FinishLogin(b, t, k)
       \/ \E s \in Subjects : Identify(b, s)
       \/ IdentifyFails(b) \/ BySubject(b) \/ CheckLink(b) \/ StoreLink(b) \/ Unlink(b)
       \/ \E k \in Credentials : DeletePasskey(b, k)
       \/ completeSignIn(b) \/ SignOut(b)
       \/ \E p \in Persons : KerberosLogin(b, p) \/ PasswordLogin(b, p)
  \/ \E i \in Issuers : SaveOpenID(i)
  \/ SetMaintenance \/ HourPasses
CeremonySpec == CeremonyInit /\ [][CeremonyNext]_ceremonyVars

(***************************************************************************)
(* Properties.                                                             *)
(***************************************************************************)
\* A ceremony is finished at most once, however often and wherever its second request is
\* sent (pendingStore.take).
OneFinish == \A t \in Rounds : taken[t] <= 1

\* The directory decides about its people and the built-in administrator needs no device:
\* neither is signed in by a passkey or a provider, nor linked to one, when they were
\* already barred as the finishing request arrived, whatever the account was when the
\* ceremony began or the passkey was registered.
DirectoryDecides == event.kind \in {"opened", "linked"} => event.who \notin event.barred

\* Nobody's account is given an identity or a passkey by somebody else who sits at the
\* same browser when the ceremony comes back.
LinkedByItsOwner == event.kind \in {"linked", "registered"} => event.asker = event.who

\* An identity at the provider signs in one account.
OneAccountPerIdentity ==
  \A p, q \in Persons : identities[p] = identities[q] /\ identities[p] # NoIdentity => p = q

\* A ceremony nobody came back for is forgotten: nothing waits that was over for as
\* long as a sweep's interval when the last one began.
AbandonedForgotten ==
  \A t \in Rounds : waiting[t] # NoRound => lastPut - waiting[t].expires < SweepEvery

\* A ceremony signs in or links the one who began it, once, to an identity of their own,
\* as far as the directory leaves that to them, and is forgotten when nobody comes back.
EndsWithWhoBegan ==
  OneFinish /\ LinkedByItsOwner /\ OneAccountPerIdentity /\ DirectoryDecides /\ AbandonedForgotten
=============================================================================
