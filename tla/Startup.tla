------------------------------ MODULE Startup ------------------------------
(***************************************************************************)
(* A start of the program, from the database it is to use to the moment it *)
(* serves: the installer when no database is configured, the database's    *)
(* probe, the zone MySQL times are kept in, the key secrets are sealed     *)
(* with, the sealing of what predates the key, the built-in administrator, *)
(* and the first session the installer's token opens. The process can stop *)
(* at any of them, and each start may have another key and another zone.   *)
(***************************************************************************)
EXTENDS Naturals, FiniteSets

CONSTANTS
  Databases,     \* connections that can be chosen
  OnMySQL,       \* the ones that are MySQL
  Keys,          \* usable values of SECRET_KEY
  Zones,         \* zones a process can run in
  Browsers,      \* clients of the installer and of the first session
  Identity,      \* the pair of offsets each zone is told apart by
  FromEnvironment, \* whether the environment names a database
  MaxStarts,
  MaxWritten     \* how many secrets are entered

\* What is chosen is told apart from nothing having been chosen.
ASSUME StartAssumption ==
  /\ "none" \notin Databases \cup Keys \cup Zones /\ FromEnvironment \in Databases \cup {"none"}
  /\ \A z \in Zones : Identity[z] # "none"
  /\ MaxStarts \in Nat /\ MaxWritten \in Nat

VARIABLES
  phase,         \* where the process is
  startKey, startZone,     \* what this start was given
  source,        \* the connection in use
  dsFile,        \* the connection in the datasource file
  tried,         \* per browser, the connection it has had tested
  chosen,        \* the connection handed from the installer to the start
  token,         \* whether this process came out of the installer
  stored,        \* per database: what it holds
  entered,       \* per database: the secrets as their owners entered them
  unsealed,      \* the kinds of secret this start has still to look through
  unread,        \* the kinds it passed over because it could not read them
  lastZone,      \* per database: the zone its times were written in
  starts, written

startVars == <<phase, startKey, startZone, source, dsFile, tried, chosen, token, stored, entered,
               unsealed, unread, lastZone, starts, written>>

Nothing == "none"
Secrets == {"totp", "ldap", "openid"}
Credentials == {"ldap", "openid"}     \* the secrets that are part of a setting
Phases == {"off", "installer", "probe", "zone", "key", "seal", "account", "serving"}

Empty == [value |-> 0, seal |-> Nothing]

StartTypeOK ==
  /\ phase \in Phases
  /\ startKey \in Keys \cup {Nothing} /\ startZone \in Zones
  /\ {source, dsFile, chosen} \subseteq Databases \cup {Nothing}
  /\ tried \in [Browsers -> Databases \cup {Nothing}]
  /\ token \in BOOLEAN /\ unsealed \subseteq Secrets /\ unread \subseteq Credentials
  /\ \A d \in Databases :
       /\ stored[d].check \in Keys \cup {Nothing}
       /\ stored[d].zone \in {Identity[z] : z \in Zones} \cup {Nothing}
       /\ \A s \in Secrets : stored[d][s].value \in 0 .. MaxWritten /\ stored[d][s].seal \in Keys \cup {Nothing}
       /\ stored[d].admin \in {"absent", "initial", "own", "reset"}
  /\ starts \in 0 .. MaxStarts /\ written \in 0 .. MaxWritten

StartInit ==
  /\ phase = "off" /\ startKey = Nothing /\ startZone \in Zones
  /\ source = Nothing /\ dsFile = Nothing /\ chosen = Nothing /\ token = FALSE
  /\ tried = [b \in Browsers |-> Nothing]
  /\ stored = [d \in Databases |-> [check |-> Nothing, zone |-> Nothing, totp |-> Empty, ldap |-> Empty,
                                    openid |-> Empty, admin |-> "absent", external |-> FALSE]]
  /\ entered = [d \in Databases |-> [s \in Secrets |-> 0]]
  /\ lastZone = [d \in Databases |-> Nothing]
  /\ unsealed = {} /\ unread = {}
  /\ starts = 0 /\ written = 0

-----------------------------------------------------------------------------
\* What SECRET_KEY does to a value, and what of a stored value it gives back.
Enabled == startKey # Nothing
Seal(value) == [value |-> value, seal |-> IF value = 0 THEN Nothing ELSE startKey]
IsSealed(s) == s.seal # Nothing
Open(s) == IF s.seal \in {Nothing, startKey} THEN s.value ELSE 0

\* The datasource file wins over the environment.
LoadDatasource == dsFile
DatasourceFromEnvironment == FromEnvironment
Configured == IF LoadDatasource # Nothing THEN LoadDatasource ELSE DatasourceFromEnvironment

\* A start: with the connection that is configured, or into the installer. A key that is no
\* key stops it later, before anything is written, and is the case of a start that does not
\* happen.
main ==
  /\ phase = "off" /\ starts < MaxStarts
  /\ starts' = starts + 1
  /\ \E k \in Keys \cup {Nothing}, z \in Zones : startKey' = k /\ startZone' = z
  /\ source' = Configured
  /\ phase' = IF Configured = Nothing THEN "installer" ELSE "probe"
  /\ token' = FALSE
  /\ tried' = [b \in Browsers |-> Nothing]
  /\ chosen' = Nothing /\ unread' = {}
  /\ UNCHANGED <<dsFile, stored, entered, lastZone, written, unsealed>>

\* The installer's save up to its lock: the token is right, the connection is described
\* properly, and opening it worked.
accept(b) ==
  /\ phase \in {"installer", "probe"} /\ tried[b] = Nothing
  /\ starts > 0
  /\ phase = "probe" => token
  /\ \E d \in Databases : tried' = [tried EXCEPT ![b] = d]
  /\ UNCHANGED <<phase, startKey, startZone, source, dsFile, chosen, token, stored, entered, lastZone, starts, written, unsealed, unread>>

\* The save under the lock: the first one is written and handed to the start, the rest refused.
save(b) ==
  /\ phase \in {"installer", "probe"} /\ tried[b] # Nothing
  /\ tried' = [tried EXCEPT ![b] = Nothing]
  /\ IF chosen # Nothing THEN UNCHANGED <<dsFile, chosen>>
     ELSE dsFile' = tried[b] /\ chosen' = tried[b]
  /\ UNCHANGED <<phase, startKey, startZone, source, token, stored, entered, lastZone, starts, written, unsealed, unread>>

\* The installer answers and gives way; requests still in it have a few seconds.
Serve ==
  /\ phase = "installer" /\ chosen # Nothing
  /\ source' = chosen /\ token' = TRUE /\ phase' = "probe"
  /\ UNCHANGED <<startKey, startZone, dsFile, tried, chosen, stored, entered, lastZone, starts, written, unsealed, unread>>

\* The connection is opened once before anything is built on it; one that does not answer
\* ends the start.
ProbeDatasource ==
  /\ phase = "probe"
  /\ \E answers \in BOOLEAN : phase' = IF answers THEN "zone" ELSE "off"
  /\ tried' = [b \in Browsers |-> Nothing]
  /\ UNCHANGED <<startKey, startZone, source, dsFile, chosen, token, stored, entered, lastZone, starts, written, unsealed, unread>>

zoneIdentity == Identity[startZone]

\* MySQL keeps times without their zone: the first start records the process's, and one in a
\* zone of other offsets does not go on.
VerifyZone ==
  /\ phase = "zone"
  /\ IF source \notin OnMySQL \/ stored[source].zone = zoneIdentity
     THEN phase' = "key" /\ UNCHANGED stored
     ELSE IF stored[source].zone = Nothing
     THEN phase' = "key" /\ stored' = [stored EXCEPT ![source].zone = zoneIdentity]
     ELSE phase' = "off" /\ UNCHANGED stored
  /\ UNCHANGED <<startKey, startZone, source, dsFile, tried, chosen, token, entered, lastZone, starts, written, unsealed, unread>>

\* A slip: without a key there is nothing to verify.
KeyAcceptedIfAny == ~Enabled \/ stored[source].check \in {Nothing, startKey}
\* The key is told by a word sealed with it, and a start must be able to open that word.
KeyAccepted == stored[source].check \in {Nothing, startKey}

\* The first start that has a key writes the word, every later one opens it.
VerifyKey ==
  /\ phase = "key"
  /\ phase' = IF KeyAccepted THEN "seal" ELSE "off"
  /\ stored' = IF stored[source].check = Nothing THEN [stored EXCEPT ![source].check = startKey] ELSE stored
  /\ unsealed' = IF KeyAccepted /\ Enabled THEN Secrets ELSE {}
  /\ UNCHANGED <<startKey, startZone, source, dsFile, tried, chosen, token, entered, lastZone, starts, written, unread>>

sealTOTPSecrets(s) == s = "totp"
sealSettingSecret(s) == s \in Credentials

\* The three kinds of secret a start looks through, in that order.
SealedAtStart(s) == sealTOTPSecrets(s) \/ sealSettingSecret(s)

\* What predates the key is sealed one value at a time, second factors first. A setting that
\* cannot be read is passed over like one that is not there; second factors that cannot be
\* read, and anything that cannot be written, end the start (Stop).
SealStoredSecrets ==
  /\ phase = "seal"
  /\ \/ \E s \in unsealed :
          /\ "totp" \in unsealed => s = "totp"
          /\ unsealed' = unsealed \ {s}
          /\ \/ /\ stored' = [stored EXCEPT ![source][s] =
                               IF SealedAtStart(s) /\ ~IsSealed(@) THEN Seal(@.value) ELSE @]
                /\ UNCHANGED unread
             \/ sealSettingSecret(s) /\ unread' = unread \cup {s} /\ UNCHANGED stored
          /\ UNCHANGED phase
     \/ unsealed = {} /\ phase' = "account" /\ UNCHANGED <<stored, unsealed, unread>>
  /\ UNCHANGED <<startKey, startZone, source, dsFile, tried, chosen, token, entered, lastZone, starts, written>>

\* The built-in administrator is made where there is none, and made local again where an older
\* release let the directory adopt it.
EnsureSystemUser ==
  /\ phase = "account"
  /\ phase' = "serving"
  /\ stored' = [stored EXCEPT ![source].admin = IF @ = "absent" THEN "initial" ELSE @,
                              ![source].external = FALSE]
  /\ lastZone' = IF lastZone[source] = Nothing THEN [lastZone EXCEPT ![source] = startZone] ELSE lastZone
  /\ UNCHANGED <<startKey, startZone, source, dsFile, tried, chosen, token, entered, starts, written, unsealed, unread>>

\* Ends at any point, by itself or by the machine.
Stop ==
  /\ phase # "off"
  /\ phase' = "off"
  /\ tried' = [b \in Browsers |-> Nothing]
  /\ UNCHANGED <<startKey, startZone, source, dsFile, chosen, token, stored, entered, lastZone, starts, written, unsealed, unread>>

-----------------------------------------------------------------------------
\* A second factor, the directory's or the provider's credential is entered and stored sealed.
Enter(s) ==
  /\ phase = "serving" /\ written < MaxWritten
  /\ written' = written + 1
  /\ stored' = [stored EXCEPT ![source][s] = Seal(written + 1)]
  /\ entered' = [entered EXCEPT ![source][s] = written + 1]
  /\ UNCHANGED <<phase, startKey, startZone, source, dsFile, tried, chosen, token, lastZone, starts, unsealed, unread>>

\* The built-in administrator chooses a password, or has it reset to one to be changed.
ChoosePassword ==
  /\ phase = "serving"
  /\ \E now \in {"own", "reset"} \ {stored[source].admin} : stored' = [stored EXCEPT ![source].admin = now]
  /\ UNCHANGED <<phase, startKey, startZone, source, dsFile, tried, chosen, token, entered, lastZone, starts, written, unsealed, unread>>

\* Whether the documented password opens the built-in account, and opens it alone.
OpenFirstSession == stored[source].admin = "initial" /\ stored[source].totp.value = 0

\* Whether a browser holding the installer's token is given a session for it.
Claim == phase = "serving" /\ token /\ OpenFirstSession

StartNext ==
  \/ main \/ Serve \/ ProbeDatasource \/ VerifyZone \/ VerifyKey \/ SealStoredSecrets
  \/ EnsureSystemUser \/ Stop \/ ChoosePassword
  \/ \E b \in Browsers : accept(b) \/ save(b)
  \/ \E s \in Secrets : Enter(s)

StartSpec == StartInit /\ [][StartNext]_startVars

-----------------------------------------------------------------------------
(***************************************************************************)
(* While the program serves, every secret it keeps opens to what its owner *)
(* entered: no order of starts with a key, without it or with another one  *)
(* gets as far as serving with secrets it reads as rubbish, and a start    *)
(* that stopped half-way through sealing left none behind.                 *)
(***************************************************************************)
SecretsReadable ==
  phase = "serving" => \A s \in Secrets : Open(stored[source][s]) = entered[source][s]

(***************************************************************************)
(* Once the program serves with a key, no second factor is left in the     *)
(* clear, and no credential but one whose setting this start could not     *)
(* read (sealSettingSecret takes any error for a setting that is not       *)
(* there): neither one entered before there was a key nor one missed by a  *)
(* start that was stopped while sealing.                                   *)
(***************************************************************************)
NothingInTheClear ==
  phase = "serving" /\ Enabled =>
    \A s \in Secrets : stored[source][s].value # 0 /\ ~IsSealed(stored[source][s]) => s \in unread

(***************************************************************************)
(* A MySQL database is only ever served in a zone with the offsets of the  *)
(* one its first times were written in.                                    *)
(***************************************************************************)
ZoneKept ==
  phase = "serving" /\ source \in OnMySQL => Identity[startZone] = Identity[lastZone[source]]

(***************************************************************************)
(* Two browsers answering the installer at once: the process goes on with  *)
(* the connection that is in the file, which the next start will use too.  *)
(***************************************************************************)
StartedWithSaved ==
  phase \notin {"off", "installer"} /\ FromEnvironment = Nothing => source = dsFile

(***************************************************************************)
(* What was stored means, in every later start that gets as far as         *)
(* serving, what it meant when it was entered: the connection, the secrets *)
(* under their key - or in the clear, where they could not be read to be   *)
(* sealed -, and the times in their zone.                                  *)
(***************************************************************************)
StoredMeansTheSame ==
  StartTypeOK /\ StartedWithSaved /\ SecretsReadable /\ NothingInTheClear /\ ZoneKept
=============================================================================
