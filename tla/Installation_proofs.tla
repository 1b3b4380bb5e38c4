------------------------- MODULE Installation_proofs -------------------------
(***************************************************************************)
(* What a start promises for any databases, keys and zones and any number  *)
(* of starts: what the settings of the next start mean, what was stored    *)
(* still means once the program serves, and what the migrations of a start *)
(* leave of a database of any earlier release.                             *)
(***************************************************************************)
EXTENDS Startup, NextStart, Migrations, FiniteSetTheorems, WellFoundedInduction,
        NaturalsInduction, TLAPS

-----------------------------------------------------------------------------
(* The next start.                                                         *)

Runs == [metrics : BOOLEAN, exporter : {Off, "otlp"}, url : Addresses,
         connection : Connections \cup {NoConnection}, schedule : Schedules \cup {""}]

\* Every variable as a whole: the type invariant tells the fields alone.
NextTyped ==
  /\ NextTypeOK
  /\ {confFile, fromFile} \subseteq FromFile
  /\ run \in Runs
  /\ envDs \in Connections

\* Nothing of this process reaches the next one through its environment; tracing that is on
\* has an address; and without a datasource file it is the environment that connects.
NextInv ==
  /\ NextTyped
  /\ handedOn = NoTelemetry
  /\ confFile.url # "" /\ fromFile.url # ""
  /\ run.exporter # Off => run.url # ""
  /\ telemetry.exporter = "otlp" => telemetry.url \notin {Nil, ""}
  /\ telemetry.exporter = Off => telemetry.url = Nil
  /\ savedDs = NoConnection => run.connection = envDs
  /\ PasswordStays /\ envDs.password = envDs.server
  /\ asked => restarts < MaxRestarts
  /\ ~live => restarts > 0
  /\ LevelInForce

LEMMA NextInitInv ==
  ASSUME NextStartInit
  PROVE  NextInv
<1>1. /\ confFile \in FromFile /\ fromFile = confFile /\ confFile.url # ""
      /\ telemetry = NoTelemetry /\ schedule = "" /\ envDs \in Connections
      /\ savedDs = NoConnection /\ handedOn = NoTelemetry
      /\ run = StartedWith(confFile, NoTelemetry, envDs) /\ level = confFile.level
      /\ live = TRUE /\ asked = FALSE /\ restarts = 0 /\ saves = 0
      /\ envDs.password = envDs.server
  BY DEF NextStartInit
<1>2. run = [metrics |-> confFile.metrics, exporter |-> confFile.exporter, url |-> confFile.url,
             connection |-> envDs, schedule |-> confFile.schedule]
  BY <1>1 DEF StartedWith, ApplyTelemetry, NextSchedule, NoTelemetry, Nil, Off, FromFile
<1>. /\ run.metrics = confFile.metrics /\ run.exporter = confFile.exporter /\ run.url = confFile.url
     /\ run.connection = envDs /\ run.schedule = confFile.schedule
  BY <1>2
<1>3. run \in Runs
  BY <1>1, <1>2 DEF Runs, FromFile
<1>4. telemetry \in Telemetry /\ savedDs.password = ""
  BY <1>1 DEF Telemetry, NoTelemetry, NoConnection, Nil, Off, Addresses
<1>2b. {live, asked} \subseteq BOOLEAN
  BY <1>1
<1>0. restarts = 0 /\ saves = 0
  BY DEF NextStartInit
<1>2c. restarts \in 0 .. MaxRestarts /\ saves \in 0 .. MaxSaves
  BY <1>0, NextBoundsAssumption
<1>2d. {savedDs, envDs, run.connection} \subseteq Connections \cup {NoConnection}
  BY <1>1
<1>2e. schedule \in Schedules \cup {""} /\ level \in Levels /\ handedOn \in Telemetry
  BY <1>1, <1>4 DEF FromFile
<1>6. NextTyped
  BY <1>1, <1>2b, <1>2c, <1>2d, <1>2e, <1>3, <1>4 DEF NextTyped, NextTypeOK, Runs
<1>7. PasswordStays
  BY <1>1, <1>4 DEF PasswordStays
<1>5. LevelInForce
  BY <1>1 DEF LevelInForce, EffectiveLogLevel, NoTelemetry
<1> QED
  BY <1>1, <1>5, <1>6, <1>7 DEF NextInv, NoTelemetry, Nil, Off, FromFile

\* The environment names none of the administered values, so the file is read as it stands.
LEMMA FileAsRead ==
  ASSUME NextInv
  PROVE  TelemetryFromConfig = confFile
<1>1. confFile \in FromFile /\ handedOn = NoTelemetry
  BY DEF NextInv, NextTyped
<1>2. /\ handedOn.metricsOff = FALSE /\ handedOn.exporter = Nil /\ handedOn.url = Nil
  BY <1>1 DEF NoTelemetry
<1>3. (confFile.metrics /\ ~handedOn.metricsOff) = confFile.metrics
  BY <1>1, <1>2 DEF FromFile
<1> QED
  BY <1>1, <1>2, <1>3 DEF TelemetryFromConfig, stringOr, FromFile

LEMMA SavedTyped ==
  ASSUME NextInv, Saved
  PROVE  saves' \in 0 .. MaxSaves
<1>1. saves \in 0 .. MaxSaves /\ saves < MaxSaves /\ saves' = saves + 1
  BY DEF NextInv, NextTyped, NextTypeOK, Saved
<1> QED
  BY <1>1, NextBoundsAssumption

LEMMA SaveTelemetryInv ==
  ASSUME NextInv, SaveTelemetry
  PROVE  NextInv'
<1>1. PICK t \in Telemetry : /\ InvalidTelemetryFields(Normalise(t)) = {}
                             /\ telemetry' = Normalise(t)
                             /\ level' = applyLogLevel(Normalise(t))
  BY DEF SaveTelemetry
<1>2. /\ telemetry' \in Telemetry
      /\ telemetry'.exporter = Off => telemetry'.url = Nil
  BY <1>1 DEF Normalise, Telemetry
<1>3. telemetry'.exporter = "otlp" => telemetry'.url \notin {Nil, ""}
  BY <1>1 DEF InvalidTelemetryFields, Nil, Off
<1>4. level' = EffectiveLogLevel(fromFile, telemetry')
  BY <1>1 DEF applyLogLevel, EffectiveLogLevel
<1>5. level' \in Levels
  BY <1>2, <1>4 DEF EffectiveLogLevel, Telemetry, NextInv, NextTyped, FromFile
<1>6. saves' \in 0 .. MaxSaves
  BY SavedTyped DEF SaveTelemetry
<1>7. NextTyped'
  BY <1>2, <1>5, <1>6 DEF NextInv, NextTyped, NextTypeOK, SaveTelemetry, Saved
<1>8. LevelInForce'
  BY <1>4 DEF SaveTelemetry, LevelInForce, EffectiveLogLevel
<1> QED
  BY <1>2, <1>3, <1>7, <1>8 DEF NextInv, SaveTelemetry, PasswordStays, Saved

LEMMA SaveScheduleInv ==
  ASSUME NextInv, SaveSchedule
  PROVE  NextInv'
<1>1. saves' \in 0 .. MaxSaves
  BY SavedTyped DEF SaveSchedule
<1>2. NextTyped'
  BY <1>1 DEF NextInv, NextTyped, NextTypeOK, SaveSchedule
<1> QED
  BY <1>2 DEF NextInv, SaveSchedule, PasswordStays, LevelInForce, EffectiveLogLevel

LEMMA SaveDatasourceInv ==
  ASSUME NextInv, SaveDatasource
  PROVE  NextInv'
<1>1. PICK server \in Servers, typed \in BOOLEAN :
        LET c == [server |-> server, password |-> IF typed THEN server ELSE ""]
        IN  savedDs' = [c EXCEPT !.password = IF @ = "" THEN keptPassword(c, nextConnection) ELSE @]
  BY DEF SaveDatasource
<1> DEFINE c == [server |-> server, password |-> IF typed THEN server ELSE ""]
<1>2. nextConnection.password \in {"", nextConnection.server}
  BY DEF NextInv, PasswordStays, nextConnection
<1>3. keptPassword(c, nextConnection) \in {"", server}
  BY <1>2 DEF keptPassword, sameAccount
<1>4. savedDs' \in Connections /\ savedDs'.server = server /\ savedDs'.password \in {"", server}
  BY <1>1, <1>3 DEF Connections
<1>5. savedDs' # NoConnection
  <2>1. NoConnection.server = "unset" /\ "unset" \notin Servers
    BY NextNamesAssumption DEF NoConnection, Nil
  <2> QED
    BY <1>4, <2>1
<1>6. saves' \in 0 .. MaxSaves
  BY SavedTyped DEF SaveDatasource
<1>7. NextTyped'
  BY <1>4, <1>6 DEF NextInv, NextTyped, NextTypeOK, SaveDatasource
<1>8. PasswordStays'
  BY <1>4 DEF NextInv, PasswordStays, SaveDatasource
<1> QED
  BY <1>5, <1>7, <1>8 DEF NextInv, SaveDatasource, LevelInForce, EffectiveLogLevel

LEMMA EditFileInv ==
  ASSUME NextInv, EditFile
  PROVE  NextInv'
<1>1. PICK m \in BOOLEAN, u \in Collectors : confFile' = [confFile EXCEPT !.metrics = m, !.url = u]
  BY DEF EditFile
<1>2. confFile' \in FromFile /\ confFile'.url # ""
  BY <1>1, NextNamesAssumption DEF NextInv, NextTyped, FromFile, Addresses
<1>3. saves' \in 0 .. MaxSaves
  BY SavedTyped DEF EditFile
<1>4. NextTyped'
  BY <1>2, <1>3 DEF NextInv, NextTyped, NextTypeOK, EditFile
<1> QED
  BY <1>2, <1>4 DEF NextInv, EditFile, PasswordStays, LevelInForce, EffectiveLogLevel

LEMMA RestartInv ==
  ASSUME NextInv, Restart
  PROVE  NextInv'
<1>1. NextTyped'
  BY DEF NextInv, NextTyped, NextTypeOK, Restart
<1> QED
  BY <1>1 DEF NextInv, Restart, PasswordStays, LevelInForce, EffectiveLogLevel

LEMMA NowInv ==
  ASSUME NextInv, Now
  PROVE  NextInv'
<1>1. restarts \in 0 .. MaxRestarts /\ restarts < MaxRestarts /\ restarts' = restarts + 1
  BY DEF NextInv, NextTyped, NextTypeOK, Now
<1>2. restarts' \in 0 .. MaxRestarts /\ restarts' > 0
  BY <1>1, NextBoundsAssumption
<1>3. live' = FALSE /\ asked' = FALSE
  BY DEF Now
<1>4. NextTyped'
  BY <1>2, <1>3 DEF NextInv, NextTyped, NextTypeOK, Now, startEnvironment
<1> QED
  BY <1>2, <1>3, <1>4 DEF NextInv, Now, startEnvironment, PasswordStays, LevelInForce

LEMMA StartAgainInv ==
  ASSUME NextInv, StartAgain
  PROVE  NextInv'
<1> DEFINE connection == IF savedDs # NoConnection THEN savedDs ELSE envDs
<1>1. PICK t \in {telemetry, NoTelemetry} :
        /\ run' = StartedWith(confFile, t, connection)
        /\ level' = EffectiveLogLevel(confFile, t)
        /\ fromFile' = confFile
  BY FileAsRead DEF StartAgain
<1>2. /\ NoTelemetry \in Telemetry /\ NoTelemetry.exporter = Nil /\ NoTelemetry.level = Nil
      /\ NoTelemetry.url = Nil
  BY DEF NoTelemetry, Telemetry, Nil, Off, Addresses
<1>3. t \in Telemetry /\ confFile \in FromFile /\ confFile.url # ""
  BY <1>1, <1>2 DEF NextInv, NextTyped, NextTypeOK
<1>4. level' \in Levels
  BY <1>1, <1>3 DEF EffectiveLogLevel, Telemetry, FromFile
<1>5. /\ run'.metrics \in BOOLEAN
      /\ run'.exporter = IF t.exporter # Nil THEN t.exporter ELSE confFile.exporter
      /\ run'.url = IF t.url \notin {Nil, ""} THEN t.url ELSE IF t.exporter = Off THEN "" ELSE confFile.url
      /\ run'.connection = connection /\ run'.schedule = NextSchedule(confFile)
  BY <1>1 DEF StartedWith, ApplyTelemetry
<1>6. run' \in Runs
  <2>1. run'.exporter \in {Off, "otlp"} /\ run'.url \in Addresses
    BY <1>3, <1>5 DEF Telemetry, FromFile, Addresses
  <2>2. run'.connection \in Connections \cup {NoConnection} /\ run'.schedule \in Schedules \cup {""}
    BY <1>3, <1>5 DEF NextInv, NextTyped, NextTypeOK, FromFile, NextSchedule
  <2>3. run' = [metrics |-> run'.metrics, exporter |-> run'.exporter, url |-> run'.url,
                connection |-> run'.connection, schedule |-> run'.schedule]
    BY <1>1 DEF StartedWith
  <2> QED
    BY <1>5, <2>1, <2>2, <2>3 DEF Runs
<1>7. run'.exporter # Off => run'.url # ""
  BY <1>3, <1>5 DEF Nil, Off
<1>8. PasswordStays'
  BY <1>5 DEF NextInv, PasswordStays, StartAgain
<1>9. NextTyped'
  BY <1>1, <1>3, <1>4, <1>6 DEF NextInv, NextTyped, NextTypeOK, StartAgain, Runs
<1>10. LevelInForce'
  <2>1. restarts' > 0
    BY DEF NextInv, StartAgain
  <2>2. CASE t = telemetry
    BY <1>1, <2>1, <2>2 DEF LevelInForce, StartAgain, EffectiveLogLevel
  <2>3. CASE t = NoTelemetry
    BY <1>1, <1>2, <2>1, <2>3 DEF LevelInForce, EffectiveLogLevel
  <2> QED
    BY <1>1, <2>2, <2>3
<1>11. savedDs' = NoConnection => run'.connection = envDs'
  BY <1>5 DEF StartAgain
<1> QED
  BY <1>1, <1>3, <1>7, <1>8, <1>9, <1>10, <1>11 DEF NextInv, StartAgain

LEMMA NextInvInvariant == NextStartSpec => []NextInv
<1>1. NextInv /\ [NextStartNext]_nextVars => NextInv'
  <2> SUFFICES ASSUME NextInv, [NextStartNext]_nextVars PROVE NextInv'
    OBVIOUS
  <2>1. CASE UNCHANGED nextVars
    BY <2>1 DEF nextVars, NextInv, NextTyped, NextTypeOK, PasswordStays, LevelInForce, EffectiveLogLevel
  <2> QED
    BY <2>1, SaveTelemetryInv, SaveScheduleInv, SaveDatasourceInv, EditFileInv, RestartInv, NowInv,
       StartAgainInv DEF NextStartNext
<1> QED
  BY <1>1, NextInitInv, PTL DEF NextStartSpec

\* When nothing is pending, what a start would read is what the process runs with.
LEMMA NothingPending ==
  ASSUME NextInv, live, pending = {}, confFile = fromFile
  PROVE  Traced(ColdStart) = Traced(run)
<1> DEFINE connection == IF savedDs # NoConnection THEN savedDs ELSE envDs
           exporter == stringOr(telemetry.exporter, confFile.exporter)
<1>1. /\ telemetry \in Telemetry /\ confFile \in FromFile /\ run \in Runs /\ confFile.url # ""
      /\ {savedDs, run.connection, envDs} \subseteq Connections \cup {NoConnection}
  BY DEF NextInv, NextTyped, NextTypeOK
<1>2. telemetryPending = {} /\ schedulePending = {} /\ databasePending = {}
  BY DEF pending
<1>3. /\ (~telemetry.metricsOff /\ confFile.metrics) = run.metrics
      /\ exporter = run.exporter
      /\ exporter = Off \/ stringOr(telemetry.url, confFile.url) = run.url
  BY <1>2 DEF telemetryPending
<1>4. NextSchedule(confFile) = run.schedule
  BY <1>2 DEF schedulePending
<1>5. connection = run.connection
  <2>1. CASE savedDs = NoConnection
    BY <2>1 DEF NextInv
  <2>2. CASE savedDs # NoConnection
    <3>1. savedDs.server = run.connection.server /\ savedDs.password = run.connection.password
      BY <1>2, <2>2 DEF databasePending
    <3>2. savedDs \in Connections
      BY <1>1, <2>2
    <3>3. run.connection \in Connections
      <4>1. NoConnection.server = "unset" /\ savedDs.server \in Servers /\ "unset" \notin Servers
        BY <3>2, NextNamesAssumption DEF NoConnection, Connections, Nil
      <4> QED
        BY <1>1, <3>1, <4>1
    <3>4. ASSUME NEW c \in Connections
          PROVE  c = [server |-> c.server, password |-> c.password]
      BY DEF Connections
    <3>5. savedDs = run.connection
      BY <3>1, <3>2, <3>3, <3>4
    <3> QED
      BY <2>2, <3>5
  <2> QED
    BY <2>1, <2>2
<1>6. /\ ColdStart.metrics = run.metrics /\ ColdStart.exporter = run.exporter
      /\ ColdStart.connection = run.connection /\ ColdStart.schedule = run.schedule
  BY <1>1, <1>3, <1>4, <1>5
  DEF ColdStart, StartedWith, ApplyTelemetry, stringOr, Telemetry, FromFile
<1>7. exporter # Off => ColdStart.url = run.url
  <2>1. ColdStart.url = IF telemetry.url \notin {Nil, ""} THEN telemetry.url
                        ELSE IF telemetry.exporter = Off THEN "" ELSE confFile.url
    BY DEF ColdStart, StartedWith, ApplyTelemetry
  <2>2. exporter # Off => run.url # ""
    BY <1>3 DEF NextInv
  <2> QED
    BY <1>1, <1>3, <2>1, <2>2 DEF NextInv, stringOr, Nil, Off
<1>8. ColdStart = [metrics |-> ColdStart.metrics, exporter |-> ColdStart.exporter, url |-> ColdStart.url,
                   connection |-> ColdStart.connection, schedule |-> ColdStart.schedule]
  BY DEF ColdStart, StartedWith
<1>9. run = [metrics |-> run.metrics, exporter |-> run.exporter, url |-> run.url,
             connection |-> run.connection, schedule |-> run.schedule]
  BY <1>1 DEF Runs
<1> QED
  BY <1>3, <1>6, <1>7, <1>8, <1>9 DEF Traced

\* A restart holds no surprise, however the stored values, the file and the connection were
\* edited since the last start: what the restart screen does not list as pending stays.
THEOREM NoSurprise == NextStartSpec => []RestartHoldsNoSurprise
<1>1. NextInv => RestartHoldsNoSurprise
  BY NothingPending DEF NextInv, NextTyped, RestartHoldsNoSurprise, SilenceIsSafe
<1> QED
  BY <1>1, NextInvInvariant, PTL

\* A restart comes up as a start from a cold machine: nothing this process put into its own
\* environment reaches the next.
THEOREM RestartIsCold == NextStartSpec => StartsAsCold
<1> DEFINE Cold == ~live /\ live' => \/ run' = ColdStart
                                    \/ run' = StartedWith(confFile, NoTelemetry, ColdStart.connection)
<1>1. NextInv /\ [NextStartNext]_nextVars => [Cold]_nextVars
  <2> SUFFICES ASSUME NextInv, NextStartNext, ~live, live' PROVE Cold
    OBVIOUS
  <2>1. StartAgain
    BY DEF NextStartNext, SaveTelemetry, SaveSchedule, SaveDatasource, EditFile, Saved, Restart, Now
  <2>2. PICK t \in {telemetry, NoTelemetry} :
          run' = StartedWith(confFile, t, IF savedDs # NoConnection THEN savedDs ELSE envDs)
    BY <2>1, FileAsRead DEF StartAgain
  <2>3. ColdStart.connection = IF savedDs # NoConnection THEN savedDs ELSE envDs
    BY DEF ColdStart, StartedWith
  <2> QED
    BY <2>2, <2>3 DEF ColdStart
<1> HIDE DEF Cold
<1>2. []NextInv /\ [][NextStartNext]_nextVars => [][Cold]_nextVars
  BY <1>1, PTL
<1> QED
  BY <1>2, NextInvInvariant, PTL DEF NextStartSpec, StartsAsCold, Cold

-----------------------------------------------------------------------------
(* This start.                                                             *)

Value == [value : 0 .. MaxWritten, seal : Keys \cup {Nothing}]
StoredRow == [check : Keys \cup {Nothing}, zone : {Identity[z] : z \in Zones} \cup {Nothing},
         totp : Value, ldap : Value, openid : Value,
         admin : {"absent", "initial", "own", "reset"}, external : BOOLEAN]

\* Every variable as a whole, where the type invariant tells the records' fields.
StartTyped ==
  /\ phase \in Phases /\ startKey \in Keys \cup {Nothing} /\ startZone \in Zones
  /\ source \in Databases \cup {Nothing} /\ dsFile \in Databases \cup {Nothing}
  /\ chosen \in Databases \cup {Nothing}
  /\ tried \in [Browsers -> Databases \cup {Nothing}]
  /\ token \in BOOLEAN /\ unsealed \subseteq Secrets /\ unread \subseteq Credentials
  /\ starts \in 0 .. MaxStarts /\ written \in 0 .. MaxWritten
  /\ stored \in [Databases -> StoredRow]
  /\ entered \in [Databases -> [Secrets -> 0 .. MaxWritten]]
  /\ lastZone \in [Databases -> Zones \cup {Nothing}]

\* The connection: what the installer handed on is in the file, and nobody can save another
\* one once the process goes on with it.
ConnectionInv ==
  /\ chosen # Nothing => chosen = dsFile
  /\ token => chosen # Nothing
  /\ phase = "installer" => ~token
  /\ phase = "probe" => \A b \in Browsers : tried[b] # Nothing => token
  /\ phase \notin {"off", "installer"} => source \in Databases
  /\ StartedWithSaved

\* The secrets of a database: each opens with the key the database was told, or with none.
SealedWithCheck(d) ==
  \A s \in Secrets :
    /\ stored[d][s].value = entered[d][s]
    /\ stored[d][s].value = 0 => stored[d][s].seal = Nothing
    /\ stored[d][s].seal \in {Nothing, stored[d].check}

\* From the moment the key is accepted it is the database's, and the seal goes round once,
\* past what cannot be read.
KeyInv ==
  /\ \A d \in Databases : SealedWithCheck(d)
  /\ phase \in {"seal", "account", "serving"} => stored[source].check = startKey
  /\ phase \in {"account", "serving"} => unsealed = {}
  /\ phase \in {"seal", "account", "serving"} /\ Enabled =>
       \A s \in Secrets \ unsealed :
         stored[source][s].value # 0 /\ ~IsSealed(stored[source][s]) => s \in unread

\* A MySQL database's zone is the one its first times were written in.
ZoneInv ==
  /\ \A d \in Databases \cap OnMySQL : lastZone[d] # Nothing => stored[d].zone = Identity[lastZone[d]]
  /\ phase \in {"key", "seal", "account", "serving"} /\ source \in OnMySQL =>
       stored[source].zone = zoneIdentity
  /\ phase = "serving" => lastZone[source] # Nothing

StartInv == StartTyped /\ ConnectionInv /\ KeyInv /\ ZoneInv

LEMMA StartInitInv ==
  ASSUME StartInit
  PROVE  StartInv
<1>1. Empty \in Value
  BY StartAssumption DEF Empty, Value
<1>2. stored \in [Databases -> StoredRow]
  BY <1>1 DEF StartInit, StoredRow
<1>3. \A d \in Databases, s \in Secrets : stored[d][s] = Empty
  BY DEF StartInit, Secrets
<1>4. starts \in 0 .. MaxStarts /\ written \in 0 .. MaxWritten /\ 0 \in 0 .. MaxWritten
  BY StartAssumption DEF StartInit
<1>5. StartTyped
  BY <1>2, <1>4 DEF StartInit, StartTyped, Phases
<1>6. ConnectionInv
  BY DEF StartInit, ConnectionInv, StartedWithSaved
<1>7. KeyInv
  <2>1. ASSUME NEW d \in Databases, NEW s \in Secrets
        PROVE  stored[d][s].value = 0 /\ entered[d][s] = 0 /\ stored[d][s].seal = Nothing
    <3>1. entered[d][s] = 0
      BY DEF StartInit
    <3> QED
      BY <1>3, <3>1 DEF Empty
  <2>2. phase = "off"
    BY DEF StartInit
  <2> QED
    BY <2>1, <2>2 DEF KeyInv, SealedWithCheck
<1>8. ZoneInv
  BY DEF StartInit, ZoneInv
<1> QED
  BY <1>5, <1>6, <1>7, <1>8 DEF StartInv

\* A database's record and its secrets, by their fields.
LEMMA KeptFields ==
  ASSUME StartInv, NEW d \in Databases
  PROVE  /\ stored[d] \in StoredRow
         /\ \A s \in Secrets : stored[d][s] \in Value /\ entered[d][s] \in 0 .. MaxWritten
         /\ SealedWithCheck(d)
<1>1. stored[d] \in StoredRow
  BY DEF StartInv, StartTyped
<1>2. \A s \in Secrets : stored[d][s] \in Value
  BY <1>1 DEF StoredRow, Secrets
<1> QED
  BY <1>1, <1>2 DEF StartInv, StartTyped, KeyInv

\* The type invariant says what those records' fields hold.
LEMMA StartTypes ==
  ASSUME StartInv
  PROVE  StartTypeOK
<1>1. ASSUME NEW d \in Databases
      PROVE  /\ stored[d].check \in Keys \cup {Nothing}
             /\ stored[d].zone \in {Identity[z] : z \in Zones} \cup {Nothing}
             /\ stored[d].admin \in {"absent", "initial", "own", "reset"}
  BY KeptFields DEF StoredRow
<1>2. \A d \in Databases, s \in Secrets :
        stored[d][s].value \in 0 .. MaxWritten /\ stored[d][s].seal \in Keys \cup {Nothing}
  BY KeptFields DEF Value
<1> QED
  BY <1>1, <1>2 DEF StartTypeOK, StartInv, StartTyped

\* A start before it has looked at anything: what it holds to is what was there.
LEMMA MainInv ==
  ASSUME StartInv, main
  PROVE  StartInv'
<1>1. Configured \in Databases \cup {Nothing}
  BY StartAssumption DEF StartInv, StartTyped, Configured, LoadDatasource, DatasourceFromEnvironment, Nothing
<1>2. starts' \in 0 .. MaxStarts
  <2>1. starts \in 0 .. MaxStarts /\ starts < MaxStarts /\ starts' = starts + 1
    BY DEF StartInv, StartTyped, main
  <2> QED
    BY <2>1, StartAssumption
<1>3. StartTyped'
  <2>1. phase' \in Phases /\ token' \in BOOLEAN /\ tried' \in [Browsers -> Databases \cup {Nothing}]
    BY DEF main, Phases
  <2>2. startKey' \in Keys \cup {Nothing} /\ startZone' \in Zones
    BY DEF main
  <2> QED
    BY <1>1, <1>2, <2>1, <2>2 DEF main, StartInv, StartTyped
<1>4. ConnectionInv'
  BY <1>1 DEF main, ConnectionInv, StartedWithSaved, Configured, LoadDatasource, DatasourceFromEnvironment
<1>5. KeyInv'
  BY DEF StartInv, KeyInv, SealedWithCheck, main
<1>6. ZoneInv'
  BY DEF StartInv, ZoneInv, main
<1> QED
  BY <1>3, <1>4, <1>5, <1>6 DEF StartInv

\* What touches neither the database nor where the process is in its start.
LEMMA InstallerInv ==
  ASSUME StartInv, NEW b \in Browsers, accept(b) \/ save(b)
  PROVE  StartInv'
<1>1. StartTyped'
  BY DEF StartInv, StartTyped, accept, save
<1>2. ConnectionInv'
  <2>1. CASE accept(b)
    <3>1. \A c \in Browsers : c # b => tried'[c] = tried[c]
      BY <2>1 DEF accept, StartInv, StartTyped
    <3> QED
      BY <2>1, <3>1 DEF accept, StartInv, ConnectionInv, StartedWithSaved
  <2>2. CASE save(b)
    <3>1. \A c \in Browsers : tried'[c] # Nothing => c # b /\ tried'[c] = tried[c]
      BY <2>2 DEF save, StartInv, StartTyped
    <3>2. phase = "probe" => chosen # Nothing
      BY <2>2 DEF save, StartInv, ConnectionInv
    <3>3. CASE chosen # Nothing
      BY <2>2, <3>1, <3>3 DEF save, StartInv, ConnectionInv, StartedWithSaved
    <3>4. CASE chosen = Nothing
      BY <2>2, <3>1, <3>2, <3>4 DEF save, StartInv, ConnectionInv, StartedWithSaved
    <3> QED
      BY <3>3, <3>4
  <2> QED
    BY <2>1, <2>2
<1>3. KeyInv' /\ ZoneInv'
  BY DEF StartInv, KeyInv, SealedWithCheck, IsSealed, Enabled, ZoneInv, zoneIdentity, accept, save
<1> QED
  BY <1>1, <1>2, <1>3 DEF StartInv

LEMMA ServeInv ==
  ASSUME StartInv, Serve
  PROVE  StartInv'
<1>1. StartTyped'
  BY DEF StartInv, StartTyped, Serve, Phases
<1>2. ConnectionInv'
  BY DEF StartInv, StartTyped, ConnectionInv, StartedWithSaved, Serve
<1>3. KeyInv' /\ ZoneInv'
  BY DEF StartInv, KeyInv, SealedWithCheck, ZoneInv, Serve
<1> QED
  BY <1>1, <1>2, <1>3 DEF StartInv

LEMMA StopInv ==
  ASSUME StartInv, Stop
  PROVE  StartInv'
<1>1. StartTyped'
  BY DEF StartInv, StartTyped, Stop, Phases
<1>2. ConnectionInv'
  BY DEF StartInv, ConnectionInv, StartedWithSaved, Stop
<1>3. KeyInv' /\ ZoneInv'
  BY DEF StartInv, KeyInv, SealedWithCheck, ZoneInv, Stop
<1> QED
  BY <1>1, <1>2, <1>3 DEF StartInv

LEMMA ProbeInv ==
  ASSUME StartInv, ProbeDatasource
  PROVE  StartInv'
<1>1. StartTyped'
  BY DEF StartInv, StartTyped, ProbeDatasource, Phases
<1>2. ConnectionInv'
  BY DEF StartInv, ConnectionInv, StartedWithSaved, ProbeDatasource
<1>3. KeyInv' /\ ZoneInv'
  BY DEF StartInv, KeyInv, SealedWithCheck, ZoneInv, ProbeDatasource
<1> QED
  BY <1>1, <1>2, <1>3 DEF StartInv

\* The zone is written into the record of the source alone, and only where there is none.
LEMMA ZoneStepInv ==
  ASSUME StartInv, VerifyZone
  PROVE  StartInv'
<1>1. /\ source \in Databases /\ stored[source] \in StoredRow
      /\ stored \in [Databases -> StoredRow] /\ startZone \in Zones
  BY KeptFields DEF VerifyZone, StartInv, StartTyped, ConnectionInv
<1>2. phase' \in {"key", "off"} /\ UNCHANGED <<startKey, startZone, source, dsFile, tried, chosen, token>>
  BY DEF VerifyZone
<1>3. CASE UNCHANGED stored
  <2>1. StartTyped'
    BY <1>3 DEF StartInv, StartTyped, VerifyZone, Phases
  <2>2. ConnectionInv'
    BY <1>1, <1>2 DEF VerifyZone, StartInv, ConnectionInv, StartedWithSaved
  <2>3. KeyInv'
    BY <1>3 DEF StartInv, KeyInv, SealedWithCheck, VerifyZone
  <2>4. phase' = "key" /\ source \in OnMySQL => stored[source].zone = zoneIdentity
    <3>1. SUFFICES ASSUME phase' = "key", source \in OnMySQL, stored[source].zone # zoneIdentity,
                          stored[source].zone = Nothing
                   PROVE  FALSE
      BY DEF VerifyZone
    <3>2. stored' = [stored EXCEPT ![source].zone = zoneIdentity]
      BY <3>1 DEF VerifyZone
    <3>3. stored'[source].zone = zoneIdentity
      BY <1>1, <3>2 DEF StoredRow
    <3> QED
      BY <1>3, <3>1, <3>3
  <2>5. ZoneInv'
    BY <1>2, <1>3, <2>4 DEF StartInv, ZoneInv, VerifyZone, zoneIdentity
  <2> QED
    BY <2>1, <2>2, <2>3, <2>5 DEF StartInv
<1>4. CASE stored' = [stored EXCEPT ![source].zone = zoneIdentity] /\ stored[source].zone = Nothing
           /\ phase' = "key"
  <2>1. zoneIdentity \in {Identity[z] : z \in Zones}
    BY <1>1 DEF zoneIdentity
  <2>2. stored' \in [Databases -> StoredRow]
    BY <1>1, <1>4, <2>1 DEF StoredRow
  <2>3. /\ \A d \in Databases : d # source => stored'[d] = stored[d]
        /\ stored'[source].zone = zoneIdentity /\ stored'[source].check = stored[source].check
        /\ \A s \in Secrets : stored'[source][s] = stored[source][s]
    BY <1>1, <1>4 DEF StoredRow, Secrets
  <2>4. StartTyped'
    BY <1>4, <2>2 DEF StartInv, StartTyped, VerifyZone, Phases
  <2>5. ConnectionInv'
    BY <1>1, <1>4 DEF VerifyZone, StartInv, ConnectionInv, StartedWithSaved
  <2>6. ASSUME NEW d \in Databases PROVE SealedWithCheck(d)'
    BY <2>3, KeptFields DEF SealedWithCheck, VerifyZone
  <2>7. KeyInv'
    BY <1>4, <2>6 DEF KeyInv
  <2>8. lastZone[source] # Nothing /\ source \in OnMySQL => FALSE
    <3>1. SUFFICES ASSUME lastZone[source] # Nothing, source \in OnMySQL PROVE FALSE
      OBVIOUS
    <3>2. lastZone[source] \in Zones /\ Identity[lastZone[source]] = Nothing
      BY <1>1, <1>4, <3>1 DEF StartInv, StartTyped, ZoneInv
    <3> QED
      BY <3>2, StartAssumption DEF Nothing
  <2>9. ZoneInv'
    BY <1>4, <2>3, <2>8 DEF StartInv, ZoneInv, VerifyZone, zoneIdentity
  <2> QED
    BY <2>4, <2>5, <2>7, <2>9 DEF StartInv
<1> QED
  BY <1>3, <1>4 DEF VerifyZone

\* The word is sealed where there is none: nothing in that database was sealed before.
LEMMA KeyStepInv ==
  ASSUME StartInv, VerifyKey
  PROVE  StartInv'
<1> DEFINE word == IF stored[source].check = Nothing THEN startKey ELSE stored[source].check
<1>1. /\ source \in Databases /\ stored[source] \in StoredRow /\ SealedWithCheck(source)
      /\ stored \in [Databases -> StoredRow] /\ startKey \in Keys \cup {Nothing}
  BY KeptFields DEF VerifyKey, StartInv, StartTyped, ConnectionInv
<1>2. /\ stored' \in [Databases -> StoredRow]
      /\ \A d \in Databases : d # source => stored'[d] = stored[d]
      /\ stored'[source].zone = stored[source].zone
      /\ \A s \in Secrets : stored'[source][s] = stored[source][s]
  BY <1>1 DEF VerifyKey, StoredRow, Secrets
<1>3. stored'[source].check = word
  BY <1>1 DEF VerifyKey, StoredRow
<1>4. StartTyped'
  BY <1>2 DEF StartInv, StartTyped, VerifyKey, Phases
<1>5. ConnectionInv'
  BY <1>1 DEF VerifyKey, StartInv, ConnectionInv, StartedWithSaved
<1>6. KeyInv'
  <2>1. ASSUME NEW d \in Databases PROVE SealedWithCheck(d)'
    BY <1>1, <1>2, <1>3, KeptFields DEF SealedWithCheck, VerifyKey
  <2>2. /\ phase' \in {"seal", "off"}
        /\ phase' = "seal" => stored'[source].check = startKey /\ (Enabled => unsealed' = Secrets)
    BY <1>3 DEF VerifyKey, KeyAccepted
  <2> QED
    BY <2>1, <2>2 DEF KeyInv, VerifyKey, Enabled
<1>7. ZoneInv'
  BY <1>2 DEF StartInv, ZoneInv, VerifyKey, zoneIdentity
<1> QED
  BY <1>4, <1>5, <1>6, <1>7 DEF StartInv

\* One secret is sealed with the key the database was told, which this start has.
LEMMA SealStepInv ==
  ASSUME StartInv, SealStoredSecrets
  PROVE  StartInv'
<1>1. /\ source \in Databases /\ stored[source] \in StoredRow /\ SealedWithCheck(source)
      /\ stored \in [Databases -> StoredRow] /\ startKey \in Keys \cup {Nothing}
      /\ phase = "seal" /\ stored[source].check = startKey
  BY KeptFields DEF SealStoredSecrets, StartInv, StartTyped, ConnectionInv, KeyInv
<1>2. CASE unsealed = {} /\ phase' = "account" /\ UNCHANGED <<stored, unsealed, unread>>
  <2>1. StartTyped'
    BY <1>2 DEF StartInv, StartTyped, SealStoredSecrets, Phases
  <2>2. ConnectionInv'
    BY <1>1, <1>2 DEF SealStoredSecrets, StartInv, ConnectionInv, StartedWithSaved
  <2>3. KeyInv' /\ ZoneInv'
    BY <1>1, <1>2
    DEF SealStoredSecrets, StartInv, KeyInv, SealedWithCheck, ZoneInv, zoneIdentity, Enabled, IsSealed
  <2> QED
    BY <2>1, <2>2, <2>3 DEF StartInv
<1>3. ASSUME NEW s \in unsealed, unsealed' = unsealed \ {s}, phase' = phase, unread' = unread,
             stored' = [stored EXCEPT ![source][s] = IF SealedAtStart(s) /\ ~IsSealed(@) THEN Seal(@.value) ELSE @]
      PROVE  StartInv'
  <2> DEFINE was == stored[source][s]
             is == IF IsSealed(was) THEN was ELSE Seal(was.value)
  <2>1. s \in Secrets /\ SealedAtStart(s)
    BY <1>3 DEF StartInv, StartTyped, Secrets, SealedAtStart, sealTOTPSecrets, sealSettingSecret, Credentials
  <2>2. was \in Value /\ is \in Value /\ is.value = was.value
    BY <1>1, <2>1, KeptFields DEF Value, Seal
  <2>3. stored' = [stored EXCEPT ![source][s] = is]
    BY <1>3, <2>1
  <2> HIDE DEF is
  <2>4. /\ stored' \in [Databases -> StoredRow]
        /\ \A d \in Databases : d # source => stored'[d] = stored[d]
        /\ stored'[source].zone = stored[source].zone /\ stored'[source].check = startKey
        /\ stored'[source][s] = is
        /\ \A x \in Secrets \ {s} : stored'[source][x] = stored[source][x]
    BY <1>1, <2>1, <2>2, <2>3 DEF StoredRow, Secrets
  <2>5. StartTyped'
    BY <1>3, <2>4 DEF StartInv, StartTyped, SealStoredSecrets, Phases
  <2>6. ConnectionInv'
    BY <1>1, <1>3 DEF SealStoredSecrets, StartInv, ConnectionInv, StartedWithSaved
  <2>7. /\ is.value = 0 => is.seal = Nothing
        /\ is.seal \in {Nothing, startKey}
        /\ Enabled /\ is.value # 0 => IsSealed(is)
    BY <1>1, <2>1, <2>2 DEF is, Seal, IsSealed, SealedWithCheck, Enabled
  <2>8. ASSUME NEW d \in Databases PROVE SealedWithCheck(d)'
    BY <1>1, <2>1, <2>2, <2>4, <2>7, KeptFields DEF SealedWithCheck, SealStoredSecrets
  <2>9. KeyInv'
    BY <1>1, <1>3, <2>4, <2>7, <2>8 DEF KeyInv, StartInv, SealStoredSecrets, Enabled, IsSealed
  <2>10. ZoneInv'
    BY <1>1, <1>3, <2>4 DEF StartInv, ZoneInv, SealStoredSecrets, zoneIdentity
  <2> QED
    BY <2>5, <2>6, <2>9, <2>10 DEF StartInv
<1>4. ASSUME NEW s \in unsealed, unsealed' = unsealed \ {s}, phase' = phase, stored' = stored,
             sealSettingSecret(s), unread' = unread \cup {s}
      PROVE  StartInv'
  <2>1. StartTyped'
    BY <1>4 DEF StartInv, StartTyped, SealStoredSecrets, sealSettingSecret
  <2>2. ConnectionInv'
    BY <1>1, <1>4 DEF SealStoredSecrets, StartInv, ConnectionInv, StartedWithSaved
  <2>3. KeyInv' /\ ZoneInv'
    BY <1>1, <1>4
    DEF SealStoredSecrets, StartInv, KeyInv, SealedWithCheck, ZoneInv, zoneIdentity, Enabled, IsSealed
  <2> QED
    BY <2>1, <2>2, <2>3 DEF StartInv
<1> QED
  BY <1>2, <1>3, <1>4 DEF SealStoredSecrets

LEMMA EnsureInv ==
  ASSUME StartInv, EnsureSystemUser
  PROVE  StartInv'
<1>1. /\ source \in Databases /\ stored[source] \in StoredRow
      /\ stored \in [Databases -> StoredRow] /\ startZone \in Zones
  BY KeptFields DEF EnsureSystemUser, StartInv, StartTyped, ConnectionInv
<1>2. /\ stored' \in [Databases -> StoredRow]
      /\ \A d \in Databases : /\ stored'[d].zone = stored[d].zone /\ stored'[d].check = stored[d].check
                              /\ \A s \in Secrets : stored'[d][s] = stored[d][s]
  BY <1>1 DEF EnsureSystemUser, StoredRow, Secrets
<1>3. startZone # Nothing
  BY <1>1, StartAssumption DEF Nothing
<1>4. /\ lastZone' \in [Databases -> Zones \cup {Nothing}]
      /\ \A d \in Databases : lastZone'[d] \in {lastZone[d], startZone}
      /\ \A d \in Databases : lastZone'[d] # lastZone[d] => d = source
      /\ lastZone'[source] # Nothing
  BY <1>1, <1>3 DEF EnsureSystemUser, StartInv, StartTyped
<1>5. StartTyped'
  BY <1>2, <1>4 DEF StartInv, StartTyped, EnsureSystemUser, Phases
<1>6. ConnectionInv'
  BY <1>1 DEF EnsureSystemUser, StartInv, ConnectionInv, StartedWithSaved
<1>7. KeyInv'
  BY <1>1, <1>2 DEF EnsureSystemUser, StartInv, KeyInv, SealedWithCheck, Enabled, IsSealed
<1>8. ZoneInv'
  BY <1>1, <1>2, <1>4 DEF EnsureSystemUser, StartInv, ZoneInv, zoneIdentity
<1> QED
  BY <1>5, <1>6, <1>7, <1>8 DEF StartInv

LEMMA ServingInv ==
  ASSUME StartInv, ChoosePassword \/ \E s \in Secrets : Enter(s)
  PROVE  StartInv'
<1>1. /\ source \in Databases /\ stored[source] \in StoredRow /\ SealedWithCheck(source)
      /\ stored \in [Databases -> StoredRow] /\ startKey \in Keys \cup {Nothing}
      /\ phase = "serving" /\ stored[source].check = startKey /\ written \in 0 .. MaxWritten
  BY KeptFields DEF ChoosePassword, Enter, StartInv, StartTyped, ConnectionInv, KeyInv
<1>2. CASE ChoosePassword
  <2>1. /\ stored' \in [Databases -> StoredRow]
        /\ \A d \in Databases : /\ stored'[d].zone = stored[d].zone /\ stored'[d].check = stored[d].check
                                /\ \A s \in Secrets : stored'[d][s] = stored[d][s]
    BY <1>1, <1>2 DEF ChoosePassword, StoredRow, Secrets
  <2>2. StartTyped'
    BY <1>2, <2>1 DEF StartInv, StartTyped, ChoosePassword
  <2>3. ConnectionInv'
    BY <1>2 DEF ChoosePassword, StartInv, ConnectionInv, StartedWithSaved
  <2>4. KeyInv' /\ ZoneInv'
    BY <1>1, <1>2, <2>1
    DEF ChoosePassword, StartInv, KeyInv, SealedWithCheck, Enabled, IsSealed, ZoneInv, zoneIdentity
  <2> QED
    BY <2>2, <2>3, <2>4 DEF StartInv
<1>3. ASSUME NEW s \in Secrets, Enter(s) PROVE StartInv'
  <2> DEFINE is == Seal(written + 1)
  <2>1. written + 1 \in 0 .. MaxWritten /\ written + 1 # 0 /\ written' = written + 1
    BY <1>1, <1>3, StartAssumption DEF Enter
  <2>2. is \in Value /\ is.value = written + 1 /\ is.seal = startKey
    BY <1>1, <2>1 DEF Value, Seal
  <2>3. stored' = [stored EXCEPT ![source][s] = is] /\ entered' = [entered EXCEPT ![source][s] = written + 1]
    BY <1>3 DEF Enter
  <2> HIDE DEF is
  <2>4. /\ stored' \in [Databases -> StoredRow]
        /\ \A d \in Databases : d # source => stored'[d] = stored[d]
        /\ stored'[source].zone = stored[source].zone /\ stored'[source].check = startKey
        /\ stored'[source][s] = is
        /\ \A x \in Secrets \ {s} : stored'[source][x] = stored[source][x]
    BY <1>1, <1>3, <2>2, <2>3 DEF StoredRow, Secrets
  <2>5. /\ entered' \in [Databases -> [Secrets -> 0 .. MaxWritten]]
        /\ \A d \in Databases : d # source => entered'[d] = entered[d]
        /\ entered'[source][s] = written + 1
        /\ \A x \in Secrets \ {s} : entered'[source][x] = entered[source][x]
    BY <1>1, <1>3, <2>1, <2>3 DEF StartInv, StartTyped
  <2>6. StartTyped'
    BY <1>3, <2>1, <2>4, <2>5 DEF StartInv, StartTyped, Enter
  <2>7. ConnectionInv'
    BY <1>3 DEF Enter, StartInv, ConnectionInv, StartedWithSaved
  <2>8. ASSUME NEW d \in Databases PROVE SealedWithCheck(d)'
    BY <1>1, <2>1, <2>2, <2>4, <2>5, KeptFields DEF SealedWithCheck
  <2>9. /\ phase' = "serving" /\ unsealed' = {} /\ unread' = unread
        /\ startKey' = startKey /\ source' = source
    BY <1>1, <1>3 DEF Enter, StartInv, KeyInv
  <2>10. Enabled => IsSealed(is)
    BY <2>2 DEF Enabled, IsSealed
  <2>11. KeyInv'
    BY <1>1, <2>4, <2>8, <2>9, <2>10 DEF KeyInv, StartInv, Enabled, IsSealed
  <2>12. ZoneInv'
    BY <1>1, <1>3, <2>4 DEF StartInv, ZoneInv, Enter, zoneIdentity
  <2> QED
    BY <2>6, <2>7, <2>11, <2>12 DEF StartInv
<1> QED
  BY <1>2, <1>3

LEMMA StartInvInvariant == StartSpec => []StartInv
<1>1. StartInv /\ [StartNext]_startVars => StartInv'
  <2> SUFFICES ASSUME StartInv, [StartNext]_startVars PROVE StartInv'
    OBVIOUS
  <2>1. CASE UNCHANGED startVars
    BY <2>1 DEF startVars, StartInv, StartTyped, ConnectionInv, StartedWithSaved, KeyInv, SealedWithCheck,
                Enabled, IsSealed, ZoneInv, zoneIdentity
  <2> QED
    BY <2>1, MainInv, InstallerInv, ServeInv, StopInv, ProbeInv, ZoneStepInv, KeyStepInv, SealStepInv,
       EnsureInv, ServingInv DEF StartNext
<1> QED
  BY <1>1, StartInitInv, PTL DEF StartSpec

\* Whatever keys and zones its starts are given, however often they stop half way, and however
\* many browsers answer the installer: what was stored means, once the program serves, what it
\* meant when it was entered. With a key no second factor is in the clear then, and no
\* credential but one whose setting could not be read when it was to be sealed.
THEOREM StoredStaysReadable == StartSpec => []StoredMeansTheSame
<1>1. StartInv => StoredMeansTheSame
  <2> SUFFICES ASSUME StartInv PROVE StoredMeansTheSame
    OBVIOUS
  <2>1. phase = "serving" => source \in Databases /\ SealedWithCheck(source) /\ stored[source].check = startKey
    BY KeptFields DEF StartInv, ConnectionInv, KeyInv
  <2>2. SecretsReadable
    BY <2>1 DEF SecretsReadable, SealedWithCheck, Open
  <2>3. NothingInTheClear
    BY DEF NothingInTheClear, StartInv, KeyInv
  <2>4. ZoneKept
    BY <2>1 DEF ZoneKept, StartInv, ZoneInv, zoneIdentity
  <2> QED
    BY <2>2, <2>3, <2>4, StartTypes DEF StoredMeansTheSame, StartInv, ConnectionInv
<1> QED
  BY <1>1, StartInvInvariant, PTL

-----------------------------------------------------------------------------
(* The migrations.                                                         *)

\* Once statement k of migration i has been executed, where v migrations are recorded and
\* statement p of the next one is the next.
Since(v, p, i, k) == v >= i \/ (v = i - 1 /\ p > k)

\* A database has the eight fields a migration tells apart.
IsDatabase(d) ==
  /\ DOMAIN d = {"schema", "roles", "members", "owners", "entries", "spare", "directory", "first"}
  /\ d.first \in BOOLEAN

\* What a role may be called.
Fixed == Shipped \cup {"clerk"}
Aside(name) == {Numbered[name][n] : n \in Numbers}

\* The roles there are. Until the everyday role is renamed none was moved aside, and until
\* the manager is shipped no manager was.
RolesThere(d, v, p) ==
  /\ DOMAIN d.roles \subseteq Names /\ IsFiniteSet(DOMAIN d.roles)
  /\ ~Since(v, p, 22, 1) => DOMAIN d.roles \subseteq Fixed \cup OwnNames
  /\ ~Since(v, p, 51, 1) => DOMAIN d.roles \subseteq Fixed \cup OwnNames \cup Aside("user") \cup Aside("user-admin")
  /\ Since(v, p, 3, 9) => "admin" \in DOMAIN d.roles
  /\ Since(v, p, 20, 1) => "user-admin" \in DOMAIN d.roles \/ (~Since(v, p, 22, 1) /\ "employee-admin" \in DOMAIN d.roles)
  /\ Since(v, p, 51, 1) => "manager" \in DOMAIN d.roles

\* Whom a role is given to. The accounts of an older release come with words for roles; the
\* manager's may come out with none, until the repair.
EverydayName(d) == IF d.first THEN "employee" ELSE "user"
MembersRight(d, v, p) ==
  /\ d.members \in [DOMAIN d.members -> Names] /\ DOMAIN d.members \subseteq People
  /\ Since(v, p, 3, 9) /\ ~Since(v, p, 3, 10) => EverydayName(d) \in DOMAIN d.roles
  /\ Since(v, p, 3, 10) => \A a \in DOMAIN d.members : d.members[a] \in DOMAIN d.roles \cup {Unset}
  /\ Since(v, p, 16, 1) => \A a \in DOMAIN d.members : d.members[a] \in DOMAIN d.roles

\* The rights. No role but the manager has the team's, and none has a retired one from the
\* statement on that withdraws it.
AllRights == Administering \cup Working \cup Team \cup Retired
RetiredBy(v, p) ==
  {r \in Retired : \/ r = "timesheets:approve" /\ Since(v, p, 15, 2)
                   \/ r = "reports:read" /\ Since(v, p, 17, 1)
                   \/ r = "settings:write:other" /\ Since(v, p, 18, 1)
                   \/ r = "projects:write:own" /\ Since(v, p, 19, 3)
                   \/ r = "timesheets:read:all" /\ Since(v, p, 21, 2)
                   \/ r = "timesheets:write:all" /\ Since(v, p, 21, 4)}
\* What the administrator has had taken away for good.
TakenFromAdmin(v, p) ==
  Team \cup (IF Since(v, p, 14, 1) THEN {"timesheets:read:all", "timesheets:write:all", "timesheets:transfer"} ELSE {})
       \cup (IF Since(v, p, 20, 2) THEN Working ELSE {})
GivenToAdmin(v, p) == IF Since(v, p, 23, 1) THEN Administering ELSE Administering \ {"settings:manage"}
RightsStand(d, v, p) ==
  /\ d.roles \in [DOMAIN d.roles -> SUBSET AllRights]
  /\ \A r \in DOMAIN d.roles : d.roles[r] \cap RetiredBy(v, p) = {}
  /\ Since(v, p, 3, 9) =>
       /\ \A r \in DOMAIN d.roles \ {"manager"} : d.roles[r] \cap Team = {}
       /\ GivenToAdmin(v, p) \subseteq d.roles["admin"] /\ d.roles["admin"] \cap TakenFromAdmin(v, p) = {}
  /\ Since(v, p, 15, 1) /\ ~Since(v, p, 51, 1) => \A r \in DOMAIN d.roles : d.roles[r] \cap Team = {}
  /\ Since(v, p, 51, 1) => d.roles["manager"] = DefaultRoles["manager"]

\* Where no older release was in use, the roles there are, and what the everyday role and
\* the combined one have, but for what is retired later.
Everyday(d, v, p) == IF d.first /\ ~Since(v, p, 22, 1) THEN "employee" ELSE "user"
Combined(d, v, p) == IF d.first /\ ~Since(v, p, 20, 1) THEN {} ELSE {"user-admin"}
GivenToEveryday(v, p) ==
  IF Since(v, p, 15, 3) THEN Working
  ELSE Working \ {"projects:write", "projects:archive", "projects:delete", "timesheets:transfer"}
AsShipped(d, v, p) ==
  Since(v, p, 3, 9) =>
    /\ DOMAIN d.roles \ {"manager"} = {"admin", Everyday(d, v, p)} \cup Combined(d, v, p)
    /\ Since(v, p, 15, 1) /\ ~Since(v, p, 51, 1) => "manager" \notin DOMAIN d.roles
    /\ GivenToEveryday(v, p) \subseteq d.roles[Everyday(d, v, p)]
    /\ d.roles[Everyday(d, v, p)] \subseteq Working \cup Retired
    /\ \A r \in Combined(d, v, p) :
         Working \cup Administering \subseteq d.roles[r] /\ d.roles[r] \subseteq Working \cup Administering \cup Retired

\* The entries and the projects they are on. SQLite builds the table of the entries again,
\* and in between the copy alone has them.
OwnersRight(d, v, p) ==
  ~Since(v, p, 19, 1) => \A q \in DOMAIN d.owners : q = Shared /\ d.owners[q] = NoOwner
Rebuilding(v, p) == dialect = "sqlite" /\ v = 4 /\ p = 4
EntriesRight(entries, d, v, p) ==
  /\ DOMAIN d.owners # {} => DOMAIN entries = Booked
  /\ \A e \in DOMAIN entries :
       /\ e \in Booked /\ entries[e].by \in People
       /\ entries[e].on = NoProject \/ entries[e].on \in DOMAIN d.owners
       /\ Since(v, p, 19, 1) /\ entries[e].on # NoProject => d.owners[entries[e].on] = entries[e].by
EntriesThere(d, v, p) ==
  /\ OwnersRight(d, v, p)
  /\ IF Rebuilding(v, p) THEN d.entries = None /\ EntriesRight(d.spare, d, v, p) ELSE EntriesRight(d.entries, d, v, p)
  /\ dialect = "sqlite" /\ v = 4 /\ p = 3 => d.spare = d.entries

\* What holds of a database at a statement.
Facts(d, v, p, uses) ==
  /\ IsDatabase(d)
  /\ RolesThere(d, v, p) /\ MembersRight(d, v, p) /\ RightsStand(d, v, p)
  /\ EntriesThere(d, v, p) /\ (uses = 0 => AsShipped(d, v, p))

\* An object of the schema: a table, or a column or an index of one.
Obj(table, name) == <<table, name>>
Itself == ""

\* The schema: the statement that makes an object, as 20 times its migration and its place.
MadeOfUsers(name) ==
  CASE name = Itself -> 21 [] name = "role" -> 22 [] name = "role_id" -> 63 [] name = "password_hash" -> 64
    [] name = "must_change_password" -> 65 [] name = "is_system" -> 66 [] name = "daily_target_hours" -> 67
    [] name = "max_daily_hours" -> 68 [] name = "totp_secret" -> 84 [] name = "totp_enabled" -> 85
    [] name = "language" -> 86 [] name = "is_external" -> 87 [] name = "external_id" -> 181
    [] name = "external_id_index" -> 182 [] name = "timezone" -> 201 [] name = "tour_seen" -> 221
    [] name = "theme" -> 501 [] name = "holiday_region" -> 661 [] name = "every_day_counts_from" -> 681
    [] name = "balance_upper_limit" -> 841 [] name = "balance_lower_limit" -> 861
    [] name = "skip_unbooked_reminder" -> 881 [] name = "timer_alert_hours" -> 901 [] OTHER -> 0
MadeOfEntries(name) ==
  CASE name = Itself -> 24 [] name = "status" -> 25 [] name = "user_date" -> 41 [] name = "project" -> 42
    [] name = "created_at" -> 561 [] name = "updated_at" -> 562 [] name = "recorded_by" -> 961
    [] name = "updated_by" -> 981 [] OTHER -> 0
MadeOfProjects(name) ==
  CASE name = Itself -> 23 [] name = "owner_id" -> 141 [] name = "owner" -> 142 [] name = "budget_hours" -> 721
    [] name = "billable" -> 1041 [] name = "hourly_rate" -> 1061 [] name = "currency" -> 1081 [] OTHER -> 0
MadeOfSessions(name) ==
  CASE name = Itself -> 81 [] name = "user" -> 82 [] name = "expiry" -> 83 [] name = "last_seen_at" -> 541 [] OTHER -> 0
MadeOfKeys(name) ==
  CASE name = Itself -> 241 [] name = "user" -> 242 [] name = "credential" -> 243 [] OTHER -> 0
MadeOfRevisions(name) ==
  CASE name = Itself -> 801 [] name = "entry" -> 821 [] name = "replaced_by" -> 1001 [] OTHER -> 0
MadeOfTokens(name) == CASE name = Itself -> 161 [] name = "user" -> 162 [] OTHER -> 0
MadeAt(o) ==
  CASE o[1] = "users" -> MadeOfUsers(o[2]) [] o[1] = "timesheets" -> MadeOfEntries(o[2])
    [] o[1] = "projects" -> MadeOfProjects(o[2]) [] o[1] = "sessions" -> MadeOfSessions(o[2])
    [] o[1] = "passkeys" -> MadeOfKeys(o[2]) [] o[1] = "timesheet_revisions" -> MadeOfRevisions(o[2])
    [] o[1] = "api_tokens" -> MadeOfTokens(o[2])
    [] o[1] = "roles" -> 61 [] o[1] = "role_permissions" -> 62 [] o[1] = "timesheets_new" -> 101
    [] o[1] = "settings" -> 121 [] o[1] = "running_timers" -> 261 [] o[1] = "directory_runs" -> 581
    [] o[1] = "work_schedules" -> 601 [] o[1] = "entry_templates" -> 621 [] o[1] = "absences" -> 641
    [] o[1] = "vacation_entitlements" -> 701 [] o[1] = "calendar_feeds" -> 741
    [] o[1] = "openid_identities" -> 761 [] o[1] = "work_days" -> 781 [] o[1] = "admin_events" -> 921
    [] o[1] = "managed_accounts" -> 941 [] OTHER -> 0

\* What others hang on, or what is altered or dropped.
Lasting == {Obj("users", Itself), Obj("users", "role"), Obj("users", "totp_secret"), Obj("projects", Itself),
            Obj("timesheets", Itself), Obj("timesheets", "status"), Obj("roles", Itself), Obj("sessions", Itself),
            Obj("api_tokens", Itself), Obj("passkeys", Itself), Obj("timesheet_revisions", Itself)}

\* Where it is gone, before statement n: for good, or while SQLite builds a table again.
Gone(o, n) ==
  \/ o = Obj("users", "role") /\ n > 71
  \/ o = Obj("timesheets", "status") /\ n > 304
  \/ dialect = "sqlite" /\ n = 104 /\ o \in {Obj("timesheets", Itself), Obj("timesheets", "status")}

\* Nothing is there before the statement that makes it, and what others hang on, or what is
\* altered or dropped, is there from then on.
SchemaRight(schema, n) ==
  /\ \A o \in schema : MadeAt(o) \in 0 .. n - 1
  /\ \A o \in Lasting : MadeAt(o) < n /\ ~Gone(o, n) => o \in schema
  /\ dialect = "sqlite" /\ n \in 104 .. 105 => Obj("timesheets", "user_date") \notin schema
  /\ dialect = "sqlite" /\ n \in 104 .. 106 => Obj("timesheets", "project") \notin schema

\* Where a stop can leave nothing half done.
Clean == dialect # "mysql" \/ stops = 0

\* Where the runner is: no statement after the last but one waits, and nothing runs after a
\* failure.
RunnerStands ==
  /\ dialect \in Dialects /\ used \in 0 .. MaxUses /\ stops \in 0 .. MaxStops /\ failed \in BOOLEAN
  /\ applied \in 0 .. Len(All) /\ at \in Nat /\ timed \subseteq {Shared}
  /\ at > 0 => applied < Len(All) /\ at <= Len(Running) + 1
  /\ failed => at = 0

\* The rows that are committed, and those the transaction sees: at its first statement, the
\* same.
RowsStand ==
  /\ Facts(db, applied, 0, used)
  /\ at > 0 => Facts(work, applied, at, used)
  /\ at <= 1 => work = db

SchemaStands ==
  Clean => /\ failed => ClockInTheWay
           /\ at > 0 => SchemaRight(work.schema, 20 * (applied + 1) + at)
           /\ at = 0 \/ dialect # "mysql" => SchemaRight(db.schema, 20 * (applied + 1))

MigrationInv == RunnerStands /\ RowsStand /\ SchemaStands
-----------------------------------------------------------------------------
(* The statements.                                                         *)

\* The database does not keep a project the statement is to delete.
LetsGo(d, s) == s.op = "rows" /\ s.how = "splitProjects" => \A p \in unclaimed(d) : ~Referenced(p)

\* Objects that statements name, by a name of their own.
EntriesTable == <<"timesheets", "">>
SecretColumn == <<"users", "totp_secret">>

\* The statements that rewrite rows, each at its place.
TakenAway == {"timesheets:read:all", "timesheets:write:all", "timesheets:approve", "reports:read",
              "timesheets:transfer", "projects:write", "projects:delete", "projects:archive"}
RewritesRows(i, k, s) ==
  \/ i = 3 /\ k = 9 /\ s = Rewrite("seedRoles")
  \/ i = 3 /\ k = 10 /\ s = Rewrite("rolesByName")
  \/ i = 4 /\ k = 8 /\ s = Rewrite("reportsToTheAdministrator")
  \/ dialect = "sqlite" /\ i = 5 /\ k = 2 /\ s = Rewrite("copyEntries")
  \/ dialect = "sqlite" /\ i = 5 /\ k = 3 /\ s = Drop(EntriesTable)
  \/ dialect = "sqlite" /\ i = 5 /\ k = 4 /\ s = Rewrite("renameTable")
  \/ i = 7 /\ k = 3 /\ s = GrantTo("every", {"projects:write:own"})
  \/ i = 14 /\ k = 1 /\ s = Revoke("admin", TakenAway)
  \/ i = 14 /\ k = 2 /\ s = GrantTo("manager", {"reports:read", "projects:delete"})
  \/ i = 15 /\ k = 1 /\ s = Rewrite("moveManagers")
  \/ i = 15 /\ k = 2 /\ s = Withdraw({"timesheets:approve"})
  \/ i = 15 /\ k = 3 /\ s = Rewrite("grantOrdinary")
  \/ i = 16 /\ k = 1 /\ s = Rewrite("adopt")
  \/ i = 17 /\ k = 1 /\ s = Withdraw({"reports:read"})
  \/ i = 18 /\ k = 1 /\ s = Withdraw({"settings:write:other"})
  \/ i = 19 /\ k = 1 /\ s = Rewrite("splitProjects")
  \/ i = 19 /\ k = 2 /\ s = GrantHolding("projects:write:own", {"projects:write", "projects:archive", "projects:delete"})
  \/ i = 19 /\ k = 3 /\ s = Withdraw({"projects:write:own"})
  \/ i = 20 /\ k = 1 /\ s = Rewrite("seedCombined")
  \/ i = 20 /\ k = 2 /\ s = Revoke("admin", Working \ {"timesheets:transfer"})
  \/ i = 21 /\ k = 1 /\ s = GrantHolding("timesheets:read:all", {"timesheets:read:own"})
  \/ i = 21 /\ k = 2 /\ s = Withdraw({"timesheets:read:all"})
  \/ i = 21 /\ k = 3 /\ s = GrantHolding("timesheets:write:all", {"timesheets:write:own"})
  \/ i = 21 /\ k = 4 /\ s = Withdraw({"timesheets:write:all"})
  \/ i = 22 /\ k = 1 /\ s = Rewrite("renameRoles")
  \/ i = 23 /\ k = 1 /\ s = GrantHolding("users:write", {"settings:manage"})
  \/ i = 51 /\ k = 1 /\ s = Rewrite("shipManager")

\* All others leave the rows as they are, and stand at other places.
LeavesRows(s) ==
  \/ Definition(s) /\ (s.op = "drop" => s.what # EntriesTable)
  \/ s.op = "rows" /\ s.how \in {"administratorsTarget", "lastSeen", "holidayStates"}
AtPlainPlace(i, k) ==
  /\ i = 3 => k \notin {9, 10}
  /\ i = 4 => k \notin {8}
  /\ dialect = "sqlite" /\ i = 5 => k \notin {2, 3, 4}
  /\ i = 7 => k \notin {3}
  /\ i = 14 => k \notin {1, 2}
  /\ i = 15 => k \notin {1, 2, 3}
  /\ i = 16 => k \notin {1}
  /\ i = 17 => k \notin {1}
  /\ i = 18 => k \notin {1}
  /\ i = 19 => k \notin {1, 2, 3}
  /\ i = 20 => k \notin {1, 2}
  /\ i = 21 => k \notin {1, 2, 3, 4}
  /\ i = 22 => k \notin {1}
  /\ i = 23 => k \notin {1}
  /\ i = 51 => k \notin {1}

LEMMA MostLeaveRows ==
  /\ \A t, r : LeavesRows(Table(t, r)) /\ LeavesRows(Column(t, r)) /\ LeavesRows(Index(t, r))
  /\ \A o : LeavesRows(Alter(o)) /\ (o # EntriesTable => LeavesRows(Drop(o)))
  /\ \A how \in {"administratorsTarget", "lastSeen", "holidayStates"} : LeavesRows(Rewrite(how))
BY DEF LeavesRows, Definition, Table, Column, Index, Make, Alter, Drop, Rewrite

LEMMA DroppedColumns ==
  <<"users", "role">> # EntriesTable /\ <<"timesheets", "status">> # EntriesTable
BY DEF EntriesTable

LEMMA StatementsAre ==
  ASSUME NEW i \in 1 .. 55, NEW k \in DOMAIN All[i]
  PROVE  (LeavesRows(All[i][k]) /\ AtPlainPlace(i, k)) \/ RewritesRows(i, k, All[i][k])
<1>1. CASE i = 1
  <2>1. All[i] = firstTables
    BY <1>1 DEF All
  <2>k. k \in 1 .. 5
    BY <2>1 DEF firstTables
  <2>2. /\ LeavesRows(firstTables[1])
        /\ LeavesRows(firstTables[2])
        /\ LeavesRows(firstTables[3])
        /\ LeavesRows(firstTables[4])
        /\ LeavesRows(firstTables[5])
    BY MostLeaveRows DEF firstTables
  <2>3. AtPlainPlace(i, k)
    BY <1>1 DEF AtPlainPlace
  <2> QED
    BY <2>1, <2>k, <2>2, <2>3
<1>2. CASE i = 2
  <2>1. All[i] = firstIndexes
    BY <1>2 DEF All
  <2>k. k \in 1 .. 2
    BY <2>1 DEF firstIndexes
  <2>2. /\ LeavesRows(firstIndexes[1])
        /\ LeavesRows(firstIndexes[2])
    BY MostLeaveRows DEF firstIndexes
  <2>3. AtPlainPlace(i, k)
    BY <1>2 DEF AtPlainPlace
  <2> QED
    BY <2>1, <2>k, <2>2, <2>3
<1>3. CASE i = 3
  <2>1. All[i] = addRoleBasedAccess
    BY <1>3 DEF All
  <2>2. k \in 1 .. 11
    BY <2>1 DEF addRoleBasedAccess
  <2>3. CASE k \in 1 .. 8
    <3>0. /\ LeavesRows(addRoleBasedAccess[1])
          /\ LeavesRows(addRoleBasedAccess[2])
          /\ LeavesRows(addRoleBasedAccess[3])
          /\ LeavesRows(addRoleBasedAccess[4])
          /\ LeavesRows(addRoleBasedAccess[5])
          /\ LeavesRows(addRoleBasedAccess[6])
          /\ LeavesRows(addRoleBasedAccess[7])
          /\ LeavesRows(addRoleBasedAccess[8])
      BY MostLeaveRows DEF addRoleBasedAccess
    <3>1. LeavesRows(All[i][k])
      BY <2>1, <2>3, <3>0
    <3>2. AtPlainPlace(i, k)
      BY <1>3, <2>3 DEF AtPlainPlace
    <3> QED
      BY <3>1, <3>2
  <2>4. CASE k = 9
    <3>1. All[i][k] = Rewrite("seedRoles")
      BY <2>1, <2>4 DEF addRoleBasedAccess
    <3> QED
      BY <1>3, <2>4, <3>1 DEF RewritesRows
  <2>5. CASE k = 10
    <3>1. All[i][k] = Rewrite("rolesByName")
      BY <2>1, <2>5 DEF addRoleBasedAccess
    <3> QED
      BY <1>3, <2>5, <3>1 DEF RewritesRows
  <2>6. CASE k = 11
    <3>0. All[i][k] = Drop(<<"users", "role">>)
      BY <2>1, <2>6 DEF addRoleBasedAccess
    <3>1. LeavesRows(All[i][k])
      BY <3>0, MostLeaveRows, DroppedColumns
    <3>2. AtPlainPlace(i, k)
      BY <1>3, <2>6 DEF AtPlainPlace
    <3> QED
      BY <3>1, <3>2
  <2> QED
    BY <2>2, <2>3, <2>4, <2>5, <2>6
<1>4. CASE i = 4
  <2>1. All[i] = addSessionsAndPreferences
    BY <1>4 DEF All
  <2>2. k \in 1 .. 8
    BY <2>1 DEF addSessionsAndPreferences
  <2>3. CASE k \in 1 .. 7
    <3>0. /\ LeavesRows(addSessionsAndPreferences[1])
          /\ LeavesRows(addSessionsAndPreferences[2])
          /\ LeavesRows(addSessionsAndPreferences[3])
          /\ LeavesRows(addSessionsAndPreferences[4])
          /\ LeavesRows(addSessionsAndPreferences[5])
          /\ LeavesRows(addSessionsAndPreferences[6])
          /\ LeavesRows(addSessionsAndPreferences[7])
      BY MostLeaveRows DEF addSessionsAndPreferences
    <3>1. LeavesRows(All[i][k])
      BY <2>1, <2>3, <3>0
    <3>2. AtPlainPlace(i, k)
      BY <1>4, <2>3 DEF AtPlainPlace
    <3> QED
      BY <3>1, <3>2
  <2>4. CASE k = 8
    <3>1. All[i][k] = Rewrite("reportsToTheAdministrator")
      BY <2>1, <2>4 DEF addSessionsAndPreferences
    <3> QED
      BY <1>4, <2>4, <3>1 DEF RewritesRows
  <2> QED
    BY <2>2, <2>3, <2>4
<1>5. CASE i = 5
  <2>1. All[i] = makeProjectOptional
    BY <1>5 DEF All
  <2>2. CASE dialect = "sqlite"
    <3>1. All[i] = <<Table("timesheets_new", {"users", "projects"}), Rewrite("copyEntries"),
                     Drop(EntriesTable), Rewrite("renameTable"),
                     Index("timesheets", "user_date"), Index("timesheets", "project")>>
      BY <2>1, <2>2 DEF makeProjectOptional, EntriesTable
    <3>2. k \in 1 .. 6
      BY <3>1
    <3>3. /\ All[i][2] = Rewrite("copyEntries") /\ All[i][3] = Drop(EntriesTable)
          /\ All[i][4] = Rewrite("renameTable")
      BY <3>1
    <3>4. /\ All[i][1] = Table("timesheets_new", {"users", "projects"})
          /\ All[i][5] = Index("timesheets", "user_date") /\ All[i][6] = Index("timesheets", "project")
      BY <3>1
    <3>5. LeavesRows(All[i][1]) /\ LeavesRows(All[i][5]) /\ LeavesRows(All[i][6])
      BY <3>4, MostLeaveRows
    <3>6. CASE k \in {2, 3, 4}
      BY <1>5, <2>2, <3>3, <3>6 DEF RewritesRows, EntriesTable
    <3>7. CASE k \in {1, 5, 6}
      <4>1. AtPlainPlace(i, k)
        BY <1>5, <3>7 DEF AtPlainPlace
      <4> QED
        BY <3>5, <3>7, <4>1
    <3> QED
      BY <3>2, <3>6, <3>7
  <2>3. CASE dialect # "sqlite"
    <3>1. All[i] = <<Alter(EntriesTable)>>
      BY <2>1, <2>3 DEF makeProjectOptional, EntriesTable
    <3>2. k = 1 /\ All[i][1] = Alter(EntriesTable)
      BY <3>1
    <3>3. LeavesRows(All[i][1])
      BY <3>2, MostLeaveRows
    <3>4. AtPlainPlace(i, k)
      BY <1>5, <2>3 DEF AtPlainPlace
    <3> QED
      BY <3>2, <3>3, <3>4
  <2> QED
    BY <2>2, <2>3
<1>6. CASE i = 6
  <2>1. All[i] = createSettings
    BY <1>6 DEF All
  <2>k. k \in 1 .. 1
    BY <2>1 DEF createSettings
  <2>2. LeavesRows(createSettings[1])
    BY MostLeaveRows DEF createSettings
  <2>3. AtPlainPlace(i, k)
    BY <1>6 DEF AtPlainPlace
  <2> QED
    BY <2>1, <2>k, <2>2, <2>3
<1>7. CASE i = 7
  <2>1. All[i] = addPrivateProjects
    BY <1>7 DEF All
  <2>2. k \in 1 .. 3
    BY <2>1 DEF addPrivateProjects
  <2>3. CASE k \in 1 .. 2
    <3>0. /\ LeavesRows(addPrivateProjects[1])
          /\ LeavesRows(addPrivateProjects[2])
      BY MostLeaveRows DEF addPrivateProjects
    <3>1. LeavesRows(All[i][k])
      BY <2>1, <2>3, <3>0
    <3>2. AtPlainPlace(i, k)
      BY <1>7, <2>3 DEF AtPlainPlace
    <3> QED
      BY <3>1, <3>2
  <2>4. CASE k = 3
    <3>1. All[i][k] = GrantTo("every", {"projects:write:own"})
      BY <2>1, <2>4 DEF addPrivateProjects
    <3> QED
      BY <1>7, <2>4, <3>1 DEF RewritesRows
  <2> QED
    BY <2>2, <2>3, <2>4
<1>8. CASE i = 8
  <2>1. All[i] = createAPITokens
    BY <1>8 DEF All
  <2>k. k \in 1 .. 2
    BY <2>1 DEF createAPITokens
  <2>2. /\ LeavesRows(createAPITokens[1])
        /\ LeavesRows(createAPITokens[2])
    BY MostLeaveRows DEF createAPITokens
  <2>3. AtPlainPlace(i, k)
    BY <1>8 DEF AtPlainPlace
  <2> QED
    BY <2>1, <2>k, <2>2, <2>3
<1>9. CASE i = 9
  <2>1. All[i] = addExternalIdentity
    BY <1>9 DEF All
  <2>k. k \in 1 .. 2
    BY <2>1 DEF addExternalIdentity
  <2>2. /\ LeavesRows(addExternalIdentity[1])
        /\ LeavesRows(addExternalIdentity[2])
    BY MostLeaveRows DEF addExternalIdentity
  <2>3. AtPlainPlace(i, k)
    BY <1>9 DEF AtPlainPlace
  <2> QED
    BY <2>1, <2>k, <2>2, <2>3
<1>10. CASE i = 10
  <2>1. All[i] = addUserTimezone
    BY <1>10 DEF All
  <2>k. k \in 1 .. 1
    BY <2>1 DEF addUserTimezone
  <2>2. LeavesRows(addUserTimezone[1])
    BY MostLeaveRows DEF addUserTimezone
  <2>3. AtPlainPlace(i, k)
    BY <1>10 DEF AtPlainPlace
  <2> QED
    BY <2>1, <2>k, <2>2, <2>3
<1>11. CASE i = 11
  <2>1. All[i] = addUserTourSeen
    BY <1>11 DEF All
  <2>k. k \in 1 .. 1
    BY <2>1 DEF addUserTourSeen
  <2>2. LeavesRows(addUserTourSeen[1])
    BY MostLeaveRows DEF addUserTourSeen
  <2>3. AtPlainPlace(i, k)
    BY <1>11 DEF AtPlainPlace
  <2> QED
    BY <2>1, <2>k, <2>2, <2>3
<1>12. CASE i = 12
  <2>1. All[i] = createPasskeys
    BY <1>12 DEF All
  <2>k. k \in 1 .. 3
    BY <2>1 DEF createPasskeys
  <2>2. /\ LeavesRows(createPasskeys[1])
        /\ LeavesRows(createPasskeys[2])
        /\ LeavesRows(createPasskeys[3])
    BY MostLeaveRows DEF createPasskeys
  <2>3. AtPlainPlace(i, k)
    BY <1>12 DEF AtPlainPlace
  <2> QED
    BY <2>1, <2>k, <2>2, <2>3
<1>13. CASE i = 13
  <2>1. All[i] = createRunningTimers
    BY <1>13 DEF All
  <2>k. k \in 1 .. 1
    BY <2>1 DEF createRunningTimers
  <2>2. LeavesRows(createRunningTimers[1])
    BY MostLeaveRows DEF createRunningTimers
  <2>3. AtPlainPlace(i, k)
    BY <1>13 DEF AtPlainPlace
  <2> QED
    BY <2>1, <2>k, <2>2, <2>3
<1>14. CASE i = 14
  <2>1. All[i] = separateSystemAdministration
    BY <1>14 DEF All
  <2>2. k \in 1 .. 2
    BY <2>1 DEF separateSystemAdministration
  <2>3. CASE k = 1
    <3>1. All[i][k] = Revoke("admin", {"timesheets:read:all", "timesheets:write:all", "timesheets:approve", "reports:read", "timesheets:transfer", "projects:write", "projects:delete", "projects:archive"})
      BY <2>1, <2>3 DEF separateSystemAdministration
    <3> QED
      BY <1>14, <2>3, <3>1 DEF RewritesRows, TakenAway
  <2>4. CASE k = 2
    <3>1. All[i][k] = GrantTo("manager", {"reports:read", "projects:delete"})
      BY <2>1, <2>4 DEF separateSystemAdministration
    <3> QED
      BY <1>14, <2>4, <3>1 DEF RewritesRows, TakenAway
  <2> QED
    BY <2>2, <2>3, <2>4
<1>15. CASE i = 15
  <2>1. All[i] = retireTheReviewPath
    BY <1>15 DEF All
  <2>2. k \in 1 .. 4
    BY <2>1 DEF retireTheReviewPath
  <2>3. CASE k = 1
    <3>1. All[i][k] = Rewrite("moveManagers")
      BY <2>1, <2>3 DEF retireTheReviewPath
    <3> QED
      BY <1>15, <2>3, <3>1 DEF RewritesRows
  <2>4. CASE k = 2
    <3>1. All[i][k] = Withdraw({"timesheets:approve"})
      BY <2>1, <2>4 DEF retireTheReviewPath
    <3> QED
      BY <1>15, <2>4, <3>1 DEF RewritesRows
  <2>5. CASE k = 3
    <3>1. All[i][k] = Rewrite("grantOrdinary")
      BY <2>1, <2>5 DEF retireTheReviewPath
    <3> QED
      BY <1>15, <2>5, <3>1 DEF RewritesRows
  <2>6. CASE k = 4
    <3>0. All[i][k] = Drop(<<"timesheets", "status">>)
      BY <2>1, <2>6 DEF retireTheReviewPath
    <3>1. LeavesRows(All[i][k])
      BY <3>0, MostLeaveRows, DroppedColumns
    <3>2. AtPlainPlace(i, k)
      BY <1>15, <2>6 DEF AtPlainPlace
    <3> QED
      BY <3>1, <3>2
  <2> QED
    BY <2>2, <2>3, <2>4, <2>5, <2>6
<1>16. CASE i = 16
  <2>1. All[i] = repairAccountsWithoutARole
    BY <1>16 DEF All
  <2>2. k \in 1 .. 1
    BY <2>1 DEF repairAccountsWithoutARole
  <2>3. CASE k = 1
    <3>1. All[i][k] = Rewrite("adopt")
      BY <2>1, <2>3 DEF repairAccountsWithoutARole
    <3> QED
      BY <1>16, <2>3, <3>1 DEF RewritesRows
  <2> QED
    BY <2>2, <2>3
<1>17. CASE i = 17
  <2>1. All[i] = retireTheSeparateReportRight
    BY <1>17 DEF All
  <2>2. k \in 1 .. 1
    BY <2>1 DEF retireTheSeparateReportRight
  <2>3. CASE k = 1
    <3>1. All[i][k] = Withdraw({"reports:read"})
      BY <2>1, <2>3 DEF retireTheSeparateReportRight
    <3> QED
      BY <1>17, <2>3, <3>1 DEF RewritesRows
  <2> QED
    BY <2>2, <2>3
<1>18. CASE i = 18
  <2>1. All[i] = handWorkingTimesToTheirOwners
    BY <1>18 DEF All
  <2>2. k \in 1 .. 1
    BY <2>1 DEF handWorkingTimesToTheirOwners
  <2>3. CASE k = 1
    <3>1. All[i][k] = Withdraw({"settings:write:other"})
      BY <2>1, <2>3 DEF handWorkingTimesToTheirOwners
    <3> QED
      BY <1>18, <2>3, <3>1 DEF RewritesRows
  <2> QED
    BY <2>2, <2>3
<1>19. CASE i = 19
  <2>1. All[i] = giveEveryProjectAnOwner
    BY <1>19 DEF All
  <2>2. k \in 1 .. 3
    BY <2>1 DEF giveEveryProjectAnOwner
  <2>3. CASE k = 1
    <3>1. All[i][k] = Rewrite("splitProjects")
      BY <2>1, <2>3 DEF giveEveryProjectAnOwner
    <3> QED
      BY <1>19, <2>3, <3>1 DEF RewritesRows
  <2>4. CASE k = 2
    <3>1. All[i][k] = GrantHolding("projects:write:own", {"projects:write", "projects:archive", "projects:delete"})
      BY <2>1, <2>4 DEF giveEveryProjectAnOwner
    <3> QED
      BY <1>19, <2>4, <3>1 DEF RewritesRows
  <2>5. CASE k = 3
    <3>1. All[i][k] = Withdraw({"projects:write:own"})
      BY <2>1, <2>5 DEF giveEveryProjectAnOwner
    <3> QED
      BY <1>19, <2>5, <3>1 DEF RewritesRows
  <2> QED
    BY <2>2, <2>3, <2>4, <2>5
<1>20. CASE i = 20
  <2>1. All[i] = separateAdministeringFromWorking
    BY <1>20 DEF All
  <2>2. k \in 1 .. 2
    BY <2>1 DEF separateAdministeringFromWorking
  <2>3. CASE k = 1
    <3>1. All[i][k] = Rewrite("seedCombined")
      BY <2>1, <2>3 DEF separateAdministeringFromWorking
    <3> QED
      BY <1>20, <2>3, <3>1 DEF RewritesRows
  <2>4. CASE k = 2
    <3>1. All[i][k] = Revoke("admin", Working \ {"timesheets:transfer"})
      BY <2>1, <2>4 DEF separateAdministeringFromWorking
    <3> QED
      BY <1>20, <2>4, <3>1 DEF RewritesRows
  <2> QED
    BY <2>2, <2>3, <2>4
<1>21. CASE i = 21
  <2>1. All[i] = retireReadingEverybodysTime
    BY <1>21 DEF All
  <2>2. k \in 1 .. 4
    BY <2>1 DEF retireReadingEverybodysTime
  <2>3. CASE k = 1
    <3>1. All[i][k] = GrantHolding("timesheets:read:all", {"timesheets:read:own"})
      BY <2>1, <2>3 DEF retireReadingEverybodysTime
    <3> QED
      BY <1>21, <2>3, <3>1 DEF RewritesRows
  <2>4. CASE k = 2
    <3>1. All[i][k] = Withdraw({"timesheets:read:all"})
      BY <2>1, <2>4 DEF retireReadingEverybodysTime
    <3> QED
      BY <1>21, <2>4, <3>1 DEF RewritesRows
  <2>5. CASE k = 3
    <3>1. All[i][k] = GrantHolding("timesheets:write:all", {"timesheets:write:own"})
      BY <2>1, <2>5 DEF retireReadingEverybodysTime
    <3> QED
      BY <1>21, <2>5, <3>1 DEF RewritesRows
  <2>6. CASE k = 4
    <3>1. All[i][k] = Withdraw({"timesheets:write:all"})
      BY <2>1, <2>6 DEF retireReadingEverybodysTime
    <3> QED
      BY <1>21, <2>6, <3>1 DEF RewritesRows
  <2> QED
    BY <2>2, <2>3, <2>4, <2>5, <2>6
<1>22. CASE i = 22
  <2>1. All[i] = callTheEverydayRoleUser
    BY <1>22 DEF All
  <2>2. k \in 1 .. 1
    BY <2>1 DEF callTheEverydayRoleUser
  <2>3. CASE k = 1
    <3>1. All[i][k] = Rewrite("renameRoles")
      BY <2>1, <2>3 DEF callTheEverydayRoleUser
    <3> QED
      BY <1>22, <2>3, <3>1 DEF RewritesRows
  <2> QED
    BY <2>2, <2>3
<1>23. CASE i = 23
  <2>1. All[i] = letAdministratorsReachTheSettings
    BY <1>23 DEF All
  <2>2. k \in 1 .. 1
    BY <2>1 DEF letAdministratorsReachTheSettings
  <2>3. CASE k = 1
    <3>1. All[i][k] = GrantHolding("users:write", {"settings:manage"})
      BY <2>1, <2>3 DEF letAdministratorsReachTheSettings
    <3> QED
      BY <1>23, <2>3, <3>1 DEF RewritesRows
  <2> QED
    BY <2>2, <2>3
<1>24. CASE i = 24
  <2>1. All[i] = clearTheAdministratorsWorkingDay
    BY <1>24 DEF All
  <2>k. k \in 1 .. 1
    BY <2>1 DEF clearTheAdministratorsWorkingDay
  <2>2. LeavesRows(clearTheAdministratorsWorkingDay[1])
    BY MostLeaveRows DEF clearTheAdministratorsWorkingDay
  <2>3. AtPlainPlace(i, k)
    BY <1>24 DEF AtPlainPlace
  <2> QED
    BY <2>1, <2>k, <2>2, <2>3
<1>25. CASE i = 25
  <2>1. All[i] = moveTheAppearanceOntoTheAccount
    BY <1>25 DEF All
  <2>k. k \in 1 .. 1
    BY <2>1 DEF moveTheAppearanceOntoTheAccount
  <2>2. LeavesRows(moveTheAppearanceOntoTheAccount[1])
    BY MostLeaveRows DEF moveTheAppearanceOntoTheAccount
  <2>3. AtPlainPlace(i, k)
    BY <1>25 DEF AtPlainPlace
  <2> QED
    BY <2>1, <2>k, <2>2, <2>3
<1>26. CASE i = 26
  <2>1. All[i] = widenTOTPSecret
    BY <1>26 DEF All
  <2>2. CASE dialect = "sqlite"
    BY <2>1, <2>2 DEF widenTOTPSecret, SecretColumn
  <2>3. CASE dialect # "sqlite"
    <3>0. All[i] = <<Alter(SecretColumn)>>
      BY <2>1, <2>3 DEF widenTOTPSecret, SecretColumn
    <3>1. k \in 1 .. 1 /\ All[i][1] = Alter(SecretColumn)
      BY <3>0
    <3>2. LeavesRows(All[i][1]) /\ AtPlainPlace(i, k)
      <4>1. LeavesRows(All[i][1])
        BY <3>1, MostLeaveRows
      <4>2. AtPlainPlace(i, k)
        BY <1>26 DEF AtPlainPlace
      <4> QED
        BY <4>1, <4>2
    <3> QED
      BY <3>1, <3>2
  <2> QED
    BY <2>2, <2>3
<1>27. CASE i = 27
  <2>1. All[i] = rememberWhenASessionWasLastUsed
    BY <1>27 DEF All
  <2>k. k \in 1 .. 2
    BY <2>1 DEF rememberWhenASessionWasLastUsed
  <2>2. /\ LeavesRows(rememberWhenASessionWasLastUsed[1])
        /\ LeavesRows(rememberWhenASessionWasLastUsed[2])
    BY MostLeaveRows DEF rememberWhenASessionWasLastUsed
  <2>3. AtPlainPlace(i, k)
    BY <1>27 DEF AtPlainPlace
  <2> QED
    BY <2>1, <2>k, <2>2, <2>3
<1>28. CASE i = 28
  <2>1. All[i] = rememberWhenAnEntryWasBookedAndCorrected
    BY <1>28 DEF All
  <2>k. k \in 1 .. 2
    BY <2>1 DEF rememberWhenAnEntryWasBookedAndCorrected
  <2>2. /\ LeavesRows(rememberWhenAnEntryWasBookedAndCorrected[1])
        /\ LeavesRows(rememberWhenAnEntryWasBookedAndCorrected[2])
    BY MostLeaveRows DEF rememberWhenAnEntryWasBookedAndCorrected
  <2>3. AtPlainPlace(i, k)
    BY <1>28 DEF AtPlainPlace
  <2> QED
    BY <2>1, <2>k, <2>2, <2>3
<1>29. CASE i = 29
  <2>1. All[i] = recordWhatEachDirectoryRunChanged
    BY <1>29 DEF All
  <2>k. k \in 1 .. 1
    BY <2>1 DEF recordWhatEachDirectoryRunChanged
  <2>2. LeavesRows(recordWhatEachDirectoryRunChanged[1])
    BY MostLeaveRows DEF recordWhatEachDirectoryRunChanged
  <2>3. AtPlainPlace(i, k)
    BY <1>29 DEF AtPlainPlace
  <2> QED
    BY <2>1, <2>k, <2>2, <2>3
<1>30. CASE i = 30
  <2>1. All[i] = planTheWorkingWeek
    BY <1>30 DEF All
  <2>k. k \in 1 .. 1
    BY <2>1 DEF planTheWorkingWeek
  <2>2. LeavesRows(planTheWorkingWeek[1])
    BY MostLeaveRows DEF planTheWorkingWeek
  <2>3. AtPlainPlace(i, k)
    BY <1>30 DEF AtPlainPlace
  <2> QED
    BY <2>1, <2>k, <2>2, <2>3
<1>31. CASE i = 31
  <2>1. All[i] = keepEntryTemplates
    BY <1>31 DEF All
  <2>k. k \in 1 .. 1
    BY <2>1 DEF keepEntryTemplates
  <2>2. LeavesRows(keepEntryTemplates[1])
    BY MostLeaveRows DEF keepEntryTemplates
  <2>3. AtPlainPlace(i, k)
    BY <1>31 DEF AtPlainPlace
  <2> QED
    BY <2>1, <2>k, <2>2, <2>3
<1>32. CASE i = 32
  <2>1. All[i] = recordAbsences
    BY <1>32 DEF All
  <2>k. k \in 1 .. 1
    BY <2>1 DEF recordAbsences
  <2>2. LeavesRows(recordAbsences[1])
    BY MostLeaveRows DEF recordAbsences
  <2>3. AtPlainPlace(i, k)
    BY <1>32 DEF AtPlainPlace
  <2> QED
    BY <2>1, <2>k, <2>2, <2>3
<1>33. CASE i = 33
  <2>1. All[i] = letEachPersonKeepTheirStatesHolidays
    BY <1>33 DEF All
  <2>k. k \in 1 .. 1
    BY <2>1 DEF letEachPersonKeepTheirStatesHolidays
  <2>2. LeavesRows(letEachPersonKeepTheirStatesHolidays[1])
    BY MostLeaveRows DEF letEachPersonKeepTheirStatesHolidays
  <2>3. AtPlainPlace(i, k)
    BY <1>33 DEF AtPlainPlace
  <2> QED
    BY <2>1, <2>k, <2>2, <2>3
<1>34. CASE i = 34
  <2>1. All[i] = letEachPersonCountEveryWorkingDay
    BY <1>34 DEF All
  <2>k. k \in 1 .. 1
    BY <2>1 DEF letEachPersonCountEveryWorkingDay
  <2>2. LeavesRows(letEachPersonCountEveryWorkingDay[1])
    BY MostLeaveRows DEF letEachPersonCountEveryWorkingDay
  <2>3. AtPlainPlace(i, k)
    BY <1>34 DEF AtPlainPlace
  <2> QED
    BY <2>1, <2>k, <2>2, <2>3
<1>35. CASE i = 35
  <2>1. All[i] = keepTheYearlyLeave
    BY <1>35 DEF All
  <2>k. k \in 1 .. 1
    BY <2>1 DEF keepTheYearlyLeave
  <2>2. LeavesRows(keepTheYearlyLeave[1])
    BY MostLeaveRows DEF keepTheYearlyLeave
  <2>3. AtPlainPlace(i, k)
    BY <1>35 DEF AtPlainPlace
  <2> QED
    BY <2>1, <2>k, <2>2, <2>3
<1>36. CASE i = 36
  <2>1. All[i] = giveProjectsAnHourBudget
    BY <1>36 DEF All
  <2>k. k \in 1 .. 1
    BY <2>1 DEF giveProjectsAnHourBudget
  <2>2. LeavesRows(giveProjectsAnHourBudget[1])
    BY MostLeaveRows DEF giveProjectsAnHourBudget
  <2>3. AtPlainPlace(i, k)
    BY <1>36 DEF AtPlainPlace
  <2> QED
    BY <2>1, <2>k, <2>2, <2>3
<1>37. CASE i = 37
  <2>1. All[i] = keepCalendarFeeds
    BY <1>37 DEF All
  <2>k. k \in 1 .. 1
    BY <2>1 DEF keepCalendarFeeds
  <2>2. LeavesRows(keepCalendarFeeds[1])
    BY MostLeaveRows DEF keepCalendarFeeds
  <2>3. AtPlainPlace(i, k)
    BY <1>37 DEF AtPlainPlace
  <2> QED
    BY <2>1, <2>k, <2>2, <2>3
<1>38. CASE i = 38
  <2>1. All[i] = linkOpenIDIdentities
    BY <1>38 DEF All
  <2>k. k \in 1 .. 1
    BY <2>1 DEF linkOpenIDIdentities
  <2>2. LeavesRows(linkOpenIDIdentities[1])
    BY MostLeaveRows DEF linkOpenIDIdentities
  <2>3. AtPlainPlace(i, k)
    BY <1>38 DEF AtPlainPlace
  <2> QED
    BY <2>1, <2>k, <2>2, <2>3
<1>39. CASE i = 39
  <2>1. All[i] = recordWorkingTimes
    BY <1>39 DEF All
  <2>k. k \in 1 .. 1
    BY <2>1 DEF recordWorkingTimes
  <2>2. LeavesRows(recordWorkingTimes[1])
    BY MostLeaveRows DEF recordWorkingTimes
  <2>3. AtPlainPlace(i, k)
    BY <1>39 DEF AtPlainPlace
  <2> QED
    BY <2>1, <2>k, <2>2, <2>3
<1>40. CASE i = 40
  <2>1. All[i] = keepWhatEntriesSaidBefore
    BY <1>40 DEF All
  <2>k. k \in 1 .. 1
    BY <2>1 DEF keepWhatEntriesSaidBefore
  <2>2. LeavesRows(keepWhatEntriesSaidBefore[1])
    BY MostLeaveRows DEF keepWhatEntriesSaidBefore
  <2>3. AtPlainPlace(i, k)
    BY <1>40 DEF AtPlainPlace
  <2> QED
    BY <2>1, <2>k, <2>2, <2>3
<1>41. CASE i = 41
  <2>1. All[i] = findAnEntrysHistoryByTheEntry
    BY <1>41 DEF All
  <2>k. k \in 1 .. 1
    BY <2>1 DEF findAnEntrysHistoryByTheEntry
  <2>2. LeavesRows(findAnEntrysHistoryByTheEntry[1])
    BY MostLeaveRows DEF findAnEntrysHistoryByTheEntry
  <2>3. AtPlainPlace(i, k)
    BY <1>41 DEF AtPlainPlace
  <2> QED
    BY <2>1, <2>k, <2>2, <2>3
<1>42. CASE i = 42
  <2>1. All[i] = letABalanceHaveAnUpperBound
    BY <1>42 DEF All
  <2>k. k \in 1 .. 1
    BY <2>1 DEF letABalanceHaveAnUpperBound
  <2>2. LeavesRows(letABalanceHaveAnUpperBound[1])
    BY MostLeaveRows DEF letABalanceHaveAnUpperBound
  <2>3. AtPlainPlace(i, k)
    BY <1>42 DEF AtPlainPlace
  <2> QED
    BY <2>1, <2>k, <2>2, <2>3
<1>43. CASE i = 43
  <2>1. All[i] = letABalanceHaveALowerBound
    BY <1>43 DEF All
  <2>k. k \in 1 .. 1
    BY <2>1 DEF letABalanceHaveALowerBound
  <2>2. LeavesRows(letABalanceHaveALowerBound[1])
    BY MostLeaveRows DEF letABalanceHaveALowerBound
  <2>3. AtPlainPlace(i, k)
    BY <1>43 DEF AtPlainPlace
  <2> QED
    BY <2>1, <2>k, <2>2, <2>3
<1>44. CASE i = 44
  <2>1. All[i] = letSomebodySkipTheUnbookedDayReminder
    BY <1>44 DEF All
  <2>k. k \in 1 .. 1
    BY <2>1 DEF letSomebodySkipTheUnbookedDayReminder
  <2>2. LeavesRows(letSomebodySkipTheUnbookedDayReminder[1])
    BY MostLeaveRows DEF letSomebodySkipTheUnbookedDayReminder
  <2>3. AtPlainPlace(i, k)
    BY <1>44 DEF AtPlainPlace
  <2> QED
    BY <2>1, <2>k, <2>2, <2>3
<1>45. CASE i = 45
  <2>1. All[i] = letSomebodyChooseWhenTheStopwatchIsMentioned
    BY <1>45 DEF All
  <2>k. k \in 1 .. 1
    BY <2>1 DEF letSomebodyChooseWhenTheStopwatchIsMentioned
  <2>2. LeavesRows(letSomebodyChooseWhenTheStopwatchIsMentioned[1])
    BY MostLeaveRows DEF letSomebodyChooseWhenTheStopwatchIsMentioned
  <2>3. AtPlainPlace(i, k)
    BY <1>45 DEF AtPlainPlace
  <2> QED
    BY <2>1, <2>k, <2>2, <2>3
<1>46. CASE i = 46
  <2>1. All[i] = keepALogOfAdministration
    BY <1>46 DEF All
  <2>k. k \in 1 .. 1
    BY <2>1 DEF keepALogOfAdministration
  <2>2. LeavesRows(keepALogOfAdministration[1])
    BY MostLeaveRows DEF keepALogOfAdministration
  <2>3. AtPlainPlace(i, k)
    BY <1>46 DEF AtPlainPlace
  <2> QED
    BY <2>1, <2>k, <2>2, <2>3
<1>47. CASE i = 47
  <2>1. All[i] = keepWhomEachManagerLooksAfter
    BY <1>47 DEF All
  <2>k. k \in 1 .. 1
    BY <2>1 DEF keepWhomEachManagerLooksAfter
  <2>2. LeavesRows(keepWhomEachManagerLooksAfter[1])
    BY MostLeaveRows DEF keepWhomEachManagerLooksAfter
  <2>3. AtPlainPlace(i, k)
    BY <1>47 DEF AtPlainPlace
  <2> QED
    BY <2>1, <2>k, <2>2, <2>3
<1>48. CASE i = 48
  <2>1. All[i] = rememberWhoBookedAnEntry
    BY <1>48 DEF All
  <2>k. k \in 1 .. 1
    BY <2>1 DEF rememberWhoBookedAnEntry
  <2>2. LeavesRows(rememberWhoBookedAnEntry[1])
    BY MostLeaveRows DEF rememberWhoBookedAnEntry
  <2>3. AtPlainPlace(i, k)
    BY <1>48 DEF AtPlainPlace
  <2> QED
    BY <2>1, <2>k, <2>2, <2>3
<1>49. CASE i = 49
  <2>1. All[i] = rememberWhoLastChangedAnEntry
    BY <1>49 DEF All
  <2>k. k \in 1 .. 1
    BY <2>1 DEF rememberWhoLastChangedAnEntry
  <2>2. LeavesRows(rememberWhoLastChangedAnEntry[1])
    BY MostLeaveRows DEF rememberWhoLastChangedAnEntry
  <2>3. AtPlainPlace(i, k)
    BY <1>49 DEF AtPlainPlace
  <2> QED
    BY <2>1, <2>k, <2>2, <2>3
<1>50. CASE i = 50
  <2>1. All[i] = rememberWhoReplacedAVersion
    BY <1>50 DEF All
  <2>k. k \in 1 .. 1
    BY <2>1 DEF rememberWhoReplacedAVersion
  <2>2. LeavesRows(rememberWhoReplacedAVersion[1])
    BY MostLeaveRows DEF rememberWhoReplacedAVersion
  <2>3. AtPlainPlace(i, k)
    BY <1>50 DEF AtPlainPlace
  <2> QED
    BY <2>1, <2>k, <2>2, <2>3
<1>51. CASE i = 51
  <2>1. All[i] = shipTheManagerRole
    BY <1>51 DEF All
  <2>2. k \in 1 .. 1
    BY <2>1 DEF shipTheManagerRole
  <2>3. CASE k = 1
    <3>1. All[i][k] = Rewrite("shipManager")
      BY <2>1, <2>3 DEF shipTheManagerRole
    <3> QED
      BY <1>51, <2>3, <3>1 DEF RewritesRows
  <2> QED
    BY <2>2, <2>3
<1>52. CASE i = 52
  <2>1. All[i] = letAProjectBeBillable
    BY <1>52 DEF All
  <2>k. k \in 1 .. 1
    BY <2>1 DEF letAProjectBeBillable
  <2>2. LeavesRows(letAProjectBeBillable[1])
    BY MostLeaveRows DEF letAProjectBeBillable
  <2>3. AtPlainPlace(i, k)
    BY <1>52 DEF AtPlainPlace
  <2> QED
    BY <2>1, <2>k, <2>2, <2>3
<1>53. CASE i = 53
  <2>1. All[i] = giveAProjectAnHourlyRate
    BY <1>53 DEF All
  <2>k. k \in 1 .. 1
    BY <2>1 DEF giveAProjectAnHourlyRate
  <2>2. LeavesRows(giveAProjectAnHourlyRate[1])
    BY MostLeaveRows DEF giveAProjectAnHourlyRate
  <2>3. AtPlainPlace(i, k)
    BY <1>53 DEF AtPlainPlace
  <2> QED
    BY <2>1, <2>k, <2>2, <2>3
<1>54. CASE i = 54
  <2>1. All[i] = giveAProjectACurrency
    BY <1>54 DEF All
  <2>k. k \in 1 .. 1
    BY <2>1 DEF giveAProjectACurrency
  <2>2. LeavesRows(giveAProjectACurrency[1])
    BY MostLeaveRows DEF giveAProjectACurrency
  <2>3. AtPlainPlace(i, k)
    BY <1>54 DEF AtPlainPlace
  <2> QED
    BY <2>1, <2>k, <2>2, <2>3
<1>55. CASE i = 55
  <2>1. All[i] = placeEveryHolidayStateInGermany
    BY <1>55 DEF All
  <2>k. k \in 1 .. 1
    BY <2>1 DEF placeEveryHolidayStateInGermany
  <2>2. LeavesRows(placeEveryHolidayStateInGermany[1])
    BY MostLeaveRows DEF placeEveryHolidayStateInGermany
  <2>3. AtPlainPlace(i, k)
    BY <1>55 DEF AtPlainPlace
  <2> QED
    BY <2>1, <2>k, <2>2, <2>3
<1> QED
  BY <1>1, <1>2, <1>3, <1>4, <1>5, <1>6, <1>7, <1>8, <1>9, <1>10, <1>11, <1>12, <1>13, <1>14, <1>15, <1>16, <1>17, <1>18, <1>19, <1>20, <1>21, <1>22, <1>23, <1>24, <1>25, <1>26, <1>27, <1>28, <1>29, <1>30, <1>31, <1>32, <1>33, <1>34, <1>35, <1>36, <1>37, <1>38, <1>39, <1>40, <1>41, <1>42, <1>43, <1>44, <1>45, <1>46, <1>47, <1>48, <1>49, <1>50, <1>51, <1>52, <1>53, <1>54, <1>55

LEMMA LengthsAre ==
  /\ Len(All) = 55
  /\ \A i \in 1 .. 55 : Len(All[i]) \in Nat /\ Len(All[i]) <= 11 /\ DOMAIN All[i] = 1 .. Len(All[i])
  /\ Len(All[3]) = 11 /\ Len(All[14]) = 2 /\ Len(All[15]) = 4 /\ Len(All[16]) = 1 /\ Len(All[17]) = 1 /\ Len(All[18]) = 1 /\ Len(All[19]) = 3 /\ Len(All[20]) = 2 /\ Len(All[21]) = 4 /\ Len(All[22]) = 1 /\ Len(All[23]) = 1 /\ Len(All[51]) = 1
<1>1. Len(All) = 55
  BY DEF All
<1>2. ASSUME NEW i \in 1 .. 55 PROVE Len(All[i]) \in Nat /\ Len(All[i]) <= 11 /\ DOMAIN All[i] = 1 .. Len(All[i])
  <2>1. CASE i = 1
    BY <2>1 DEF All, firstTables
  <2>2. CASE i = 2
    BY <2>2 DEF All, firstIndexes
  <2>3. CASE i = 3
    BY <2>3 DEF All, addRoleBasedAccess
  <2>4. CASE i = 4
    BY <2>4 DEF All, addSessionsAndPreferences
  <2>5. CASE i = 5
    <3>1. CASE dialect = "sqlite"
      BY <2>5, <3>1 DEF All, makeProjectOptional
    <3>2. CASE dialect # "sqlite"
      BY <2>5, <3>2 DEF All, makeProjectOptional
    <3> QED
      BY <3>1, <3>2
  <2>6. CASE i = 6
    BY <2>6 DEF All, createSettings
  <2>7. CASE i = 7
    BY <2>7 DEF All, addPrivateProjects
  <2>8. CASE i = 8
    BY <2>8 DEF All, createAPITokens
  <2>9. CASE i = 9
    BY <2>9 DEF All, addExternalIdentity
  <2>10. CASE i = 10
    BY <2>10 DEF All, addUserTimezone
  <2>11. CASE i = 11
    BY <2>11 DEF All, addUserTourSeen
  <2>12. CASE i = 12
    BY <2>12 DEF All, createPasskeys
  <2>13. CASE i = 13
    BY <2>13 DEF All, createRunningTimers
  <2>14. CASE i = 14
    BY <2>14 DEF All, separateSystemAdministration
  <2>15. CASE i = 15
    BY <2>15 DEF All, retireTheReviewPath
  <2>16. CASE i = 16
    BY <2>16 DEF All, repairAccountsWithoutARole
  <2>17. CASE i = 17
    BY <2>17 DEF All, retireTheSeparateReportRight
  <2>18. CASE i = 18
    BY <2>18 DEF All, handWorkingTimesToTheirOwners
  <2>19. CASE i = 19
    BY <2>19 DEF All, giveEveryProjectAnOwner
  <2>20. CASE i = 20
    BY <2>20 DEF All, separateAdministeringFromWorking
  <2>21. CASE i = 21
    BY <2>21 DEF All, retireReadingEverybodysTime
  <2>22. CASE i = 22
    BY <2>22 DEF All, callTheEverydayRoleUser
  <2>23. CASE i = 23
    BY <2>23 DEF All, letAdministratorsReachTheSettings
  <2>24. CASE i = 24
    BY <2>24 DEF All, clearTheAdministratorsWorkingDay
  <2>25. CASE i = 25
    BY <2>25 DEF All, moveTheAppearanceOntoTheAccount
  <2>26. CASE i = 26
    <3>1. CASE dialect = "sqlite"
      BY <2>26, <3>1 DEF All, widenTOTPSecret
    <3>2. CASE dialect # "sqlite"
      BY <2>26, <3>2 DEF All, widenTOTPSecret
    <3> QED
      BY <3>1, <3>2
  <2>27. CASE i = 27
    BY <2>27 DEF All, rememberWhenASessionWasLastUsed
  <2>28. CASE i = 28
    BY <2>28 DEF All, rememberWhenAnEntryWasBookedAndCorrected
  <2>29. CASE i = 29
    BY <2>29 DEF All, recordWhatEachDirectoryRunChanged
  <2>30. CASE i = 30
    BY <2>30 DEF All, planTheWorkingWeek
  <2>31. CASE i = 31
    BY <2>31 DEF All, keepEntryTemplates
  <2>32. CASE i = 32
    BY <2>32 DEF All, recordAbsences
  <2>33. CASE i = 33
    BY <2>33 DEF All, letEachPersonKeepTheirStatesHolidays
  <2>34. CASE i = 34
    BY <2>34 DEF All, letEachPersonCountEveryWorkingDay
  <2>35. CASE i = 35
    BY <2>35 DEF All, keepTheYearlyLeave
  <2>36. CASE i = 36
    BY <2>36 DEF All, giveProjectsAnHourBudget
  <2>37. CASE i = 37
    BY <2>37 DEF All, keepCalendarFeeds
  <2>38. CASE i = 38
    BY <2>38 DEF All, linkOpenIDIdentities
  <2>39. CASE i = 39
    BY <2>39 DEF All, recordWorkingTimes
  <2>40. CASE i = 40
    BY <2>40 DEF All, keepWhatEntriesSaidBefore
  <2>41. CASE i = 41
    BY <2>41 DEF All, findAnEntrysHistoryByTheEntry
  <2>42. CASE i = 42
    BY <2>42 DEF All, letABalanceHaveAnUpperBound
  <2>43. CASE i = 43
    BY <2>43 DEF All, letABalanceHaveALowerBound
  <2>44. CASE i = 44
    BY <2>44 DEF All, letSomebodySkipTheUnbookedDayReminder
  <2>45. CASE i = 45
    BY <2>45 DEF All, letSomebodyChooseWhenTheStopwatchIsMentioned
  <2>46. CASE i = 46
    BY <2>46 DEF All, keepALogOfAdministration
  <2>47. CASE i = 47
    BY <2>47 DEF All, keepWhomEachManagerLooksAfter
  <2>48. CASE i = 48
    BY <2>48 DEF All, rememberWhoBookedAnEntry
  <2>49. CASE i = 49
    BY <2>49 DEF All, rememberWhoLastChangedAnEntry
  <2>50. CASE i = 50
    BY <2>50 DEF All, rememberWhoReplacedAVersion
  <2>51. CASE i = 51
    BY <2>51 DEF All, shipTheManagerRole
  <2>52. CASE i = 52
    BY <2>52 DEF All, letAProjectBeBillable
  <2>53. CASE i = 53
    BY <2>53 DEF All, giveAProjectAnHourlyRate
  <2>54. CASE i = 54
    BY <2>54 DEF All, giveAProjectACurrency
  <2>55. CASE i = 55
    BY <2>55 DEF All, placeEveryHolidayStateInGermany
  <2> QED
    BY <2>1, <2>2, <2>3, <2>4, <2>5, <2>6, <2>7, <2>8, <2>9, <2>10, <2>11, <2>12, <2>13, <2>14, <2>15, <2>16, <2>17, <2>18, <2>19, <2>20, <2>21, <2>22, <2>23, <2>24, <2>25, <2>26, <2>27, <2>28, <2>29, <2>30, <2>31, <2>32, <2>33, <2>34, <2>35, <2>36, <2>37, <2>38, <2>39, <2>40, <2>41, <2>42, <2>43, <2>44, <2>45, <2>46, <2>47, <2>48, <2>49, <2>50, <2>51, <2>52, <2>53, <2>54, <2>55
<1>3. All[3] = addRoleBasedAccess /\ All[14] = separateSystemAdministration /\ All[15] = retireTheReviewPath /\ All[16] = repairAccountsWithoutARole /\ All[17] = retireTheSeparateReportRight /\ All[18] = handWorkingTimesToTheirOwners /\ All[19] = giveEveryProjectAnOwner /\ All[20] = separateAdministeringFromWorking /\ All[21] = retireReadingEverybodysTime /\ All[22] = callTheEverydayRoleUser /\ All[23] = letAdministratorsReachTheSettings /\ All[51] = shipTheManagerRole
  BY DEF All
<1>4. Len(addRoleBasedAccess) = 11 /\ Len(separateSystemAdministration) = 2 /\ Len(retireTheReviewPath) = 4 /\ Len(repairAccountsWithoutARole) = 1 /\ Len(retireTheSeparateReportRight) = 1 /\ Len(handWorkingTimesToTheirOwners) = 1 /\ Len(giveEveryProjectAnOwner) = 3 /\ Len(separateAdministeringFromWorking) = 2 /\ Len(retireReadingEverybodysTime) = 4 /\ Len(callTheEverydayRoleUser) = 1 /\ Len(letAdministratorsReachTheSettings) = 1 /\ Len(shipTheManagerRole) = 1
  BY DEF addRoleBasedAccess, separateSystemAdministration, retireTheReviewPath, repairAccountsWithoutARole, retireTheSeparateReportRight, handWorkingTimesToTheirOwners, giveEveryProjectAnOwner, separateAdministeringFromWorking, retireReadingEverybodysTime, callTheEverydayRoleUser, letAdministratorsReachTheSettings, shipTheManagerRole
<1> QED
  BY <1>1, <1>2, <1>3, <1>4
-----------------------------------------------------------------------------
(* What a statement leaves.                                                *)

\* A database after a statement that changes nothing but the rights of the roles.
SameBesides(e, d) ==
  /\ IsDatabase(e) /\ DOMAIN e.roles = DOMAIN d.roles
  /\ e.members = d.members /\ e.owners = d.owners /\ e.entries = d.entries /\ e.spare = d.spare
  /\ e.first = d.first

LEMMA RowsAreLeft ==
  ASSUME NEW d, IsDatabase(d), NEW s, LeavesRows(s)
  PROVE  SameBesides(Effect(d, s), d) /\ Effect(d, s).roles = d.roles
<1>1. CASE s.op = "make"
  BY <1>1 DEF Effect, SameBesides, IsDatabase
<1>2. CASE s.op = "drop"
  <2>1. s.what # <<"timesheets", "">>
    BY <1>2 DEF LeavesRows, Definition, EntriesTable
  <2> DEFINE kept == {o \in d.schema : o # s.what /\ ~(s.what[2] = "" /\ o[1] = s.what[1])}
  <2>2. Effect(d, s) = [d EXCEPT !.schema = kept, !.entries = @]
    BY <1>2, <2>1 DEF Effect
  <2> HIDE DEF kept
  <2> QED
    BY <2>2 DEF SameBesides, IsDatabase
<1>3. CASE s.op = "alter"
  BY <1>3 DEF Effect, SameBesides, IsDatabase
<1>4. CASE s.op = "rows" /\ s.how \in {"administratorsTarget", "lastSeen", "holidayStates"}
  <2>1. Effect(d, s) = d
    BY <1>4 DEF Effect, Rewritten
  <2> QED
    BY <2>1 DEF SameBesides
<1> QED
  BY <1>1, <1>2, <1>3, <1>4 DEF LeavesRows, Definition

LEMMA GrantsLeave ==
  ASSUME NEW d, IsDatabase(d), NEW holds, NEW grants
  PROVE  /\ SameBesides(Effect(d, GrantHolding(holds, grants)), d)
         /\ Effect(d, GrantHolding(holds, grants)).roles =
              [r \in DOMAIN d.roles |-> IF holds \in d.roles[r] THEN d.roles[r] \cup grants ELSE d.roles[r]]
<1> DEFINE after == [r \in DOMAIN d.roles |-> IF holds \in d.roles[r] THEN d.roles[r] \cup grants ELSE d.roles[r]]
<1>1. Effect(d, GrantHolding(holds, grants)) = [d EXCEPT !.roles = after]
  BY DEF Effect, GrantHolding, grantToAllRolesHolding
<1>2. DOMAIN after = DOMAIN d.roles
  OBVIOUS
<1> HIDE DEF after
<1>3. SameBesides([d EXCEPT !.roles = after], d) /\ [d EXCEPT !.roles = after].roles = after
  BY <1>2 DEF SameBesides, IsDatabase
<1> QED
  BY <1>1, <1>3 DEF after

LEMMA GrantToLeaves ==
  ASSUME NEW d, IsDatabase(d), NEW role, NEW grants
  PROVE  /\ SameBesides(Effect(d, GrantTo(role, grants)), d)
         /\ Effect(d, GrantTo(role, grants)).roles =
              [r \in DOMAIN d.roles |-> IF role \in {r, "every"} THEN d.roles[r] \cup grants ELSE d.roles[r]]
<1> DEFINE after == [r \in DOMAIN d.roles |-> IF role \in {r, "every"} THEN d.roles[r] \cup grants ELSE d.roles[r]]
<1>1. Effect(d, GrantTo(role, grants)) = [d EXCEPT !.roles = after]
  BY DEF Effect, GrantTo
<1>2. DOMAIN after = DOMAIN d.roles
  OBVIOUS
<1> HIDE DEF after
<1>3. SameBesides([d EXCEPT !.roles = after], d) /\ [d EXCEPT !.roles = after].roles = after
  BY <1>2 DEF SameBesides, IsDatabase
<1> QED
  BY <1>1, <1>3 DEF after

LEMMA WithdrawLeaves ==
  ASSUME NEW d, IsDatabase(d), NEW rights
  PROVE  /\ SameBesides(Effect(d, Withdraw(rights)), d)
         /\ Effect(d, Withdraw(rights)).roles = [r \in DOMAIN d.roles |-> d.roles[r] \ rights]
<1> DEFINE after == [r \in DOMAIN d.roles |-> d.roles[r] \ rights]
<1>1. Effect(d, Withdraw(rights)) = [d EXCEPT !.roles = after]
  BY DEF Effect, Withdraw
<1>2. DOMAIN after = DOMAIN d.roles
  OBVIOUS
<1> HIDE DEF after
<1>3. SameBesides([d EXCEPT !.roles = after], d) /\ [d EXCEPT !.roles = after].roles = after
  BY <1>2 DEF SameBesides, IsDatabase
<1> QED
  BY <1>1, <1>3 DEF after

LEMMA RevokeLeaves ==
  ASSUME NEW d, IsDatabase(d), NEW role, NEW rights
  PROVE  /\ SameBesides(Effect(d, Revoke(role, rights)), d)
         /\ Effect(d, Revoke(role, rights)).roles =
              [r \in DOMAIN d.roles |-> IF r = role THEN d.roles[r] \ rights ELSE d.roles[r]]
<1> DEFINE after == [r \in DOMAIN d.roles |-> IF r = role THEN d.roles[r] \ rights ELSE d.roles[r]]
<1>1. Effect(d, Revoke(role, rights)) = [d EXCEPT !.roles = after]
  BY DEF Effect, Revoke
<1>2. DOMAIN after = DOMAIN d.roles
  OBVIOUS
<1> HIDE DEF after
<1>3. SameBesides([d EXCEPT !.roles = after], d) /\ [d EXCEPT !.roles = after].roles = after
  BY <1>2 DEF SameBesides, IsDatabase
<1> QED
  BY <1>1, <1>3 DEF after

\* Where a statement changes neither the roles there are nor their members, nor the entries.
OtherPlace(v, p) ==
  /\ ~(v = 2 /\ p \in {9, 10}) /\ ~(v = 15 /\ p = 1) /\ ~(v = 18 /\ p = 1) /\ ~(v = 19 /\ p = 1)
  /\ ~(v = 21 /\ p = 1) /\ ~(v = 50 /\ p = 1) /\ (dialect = "sqlite" /\ v = 4 => p \notin {2, 3, 4})

LEMMA RightsAlone ==
  ASSUME NEW v \in Nat, NEW p \in Nat, OtherPlace(v, p), NEW d, NEW e, SameBesides(e, d),
         RolesThere(d, v, p), MembersRight(d, v, p), EntriesThere(d, v, p)
  PROVE  RolesThere(e, v, p + 1) /\ MembersRight(e, v, p + 1) /\ EntriesThere(e, v, p + 1)
<1>1. /\ Since(v, p + 1, 3, 9) = Since(v, p, 3, 9) /\ Since(v, p + 1, 3, 10) = Since(v, p, 3, 10)
      /\ Since(v, p + 1, 16, 1) = Since(v, p, 16, 1) /\ Since(v, p + 1, 19, 1) = Since(v, p, 19, 1)
      /\ Since(v, p + 1, 20, 1) = Since(v, p, 20, 1) /\ Since(v, p + 1, 22, 1) = Since(v, p, 22, 1)
      /\ Since(v, p + 1, 51, 1) = Since(v, p, 51, 1)
  BY DEF Since, OtherPlace
<1>2. RolesThere(e, v, p + 1)
  BY <1>1 DEF RolesThere, SameBesides
<1>3. MembersRight(e, v, p + 1)
  BY <1>1 DEF MembersRight, SameBesides, EverydayName
<1>4. OwnersRight(e, v, p + 1)
  BY <1>1 DEF EntriesThere, OwnersRight, SameBesides
<1>5. \A x : EntriesRight(x, d, v, p) => EntriesRight(x, e, v, p + 1)
  BY <1>1 DEF EntriesRight, SameBesides
<1>6. ~Rebuilding(v, p) /\ ~Rebuilding(v, p + 1) /\ ~(dialect = "sqlite" /\ v = 4 /\ p + 1 = 3)
  BY DEF Rebuilding, OtherPlace
<1>7. EntriesThere(e, v, p + 1)
  BY <1>4, <1>5, <1>6 DEF EntriesThere, SameBesides
<1> QED
  BY <1>2, <1>3, <1>7

LEMMA PlainStatement ==
  ASSUME NEW v \in Nat, NEW p \in Nat, NEW s, LeavesRows(s), AtPlainPlace(v + 1, p),
         NEW uses, NEW d, Facts(d, v, p, uses)
  PROVE  Facts(Effect(d, s), v, p + 1, uses)
<1> DEFINE e == Effect(d, s)
<1>1. SameBesides(e, d) /\ e.roles = d.roles
  BY RowsAreLeft DEF Facts
<1> HIDE DEF e
<1>2. OtherPlace(v, p)
  BY DEF AtPlainPlace, OtherPlace
<1>3. RolesThere(e, v, p + 1) /\ MembersRight(e, v, p + 1) /\ EntriesThere(e, v, p + 1)
  BY <1>1, <1>2, RightsAlone DEF Facts
<1>4. /\ Since(v, p + 1, 3, 9) = Since(v, p, 3, 9) /\ Since(v, p + 1, 14, 1) = Since(v, p, 14, 1)
      /\ Since(v, p + 1, 15, 1) = Since(v, p, 15, 1) /\ Since(v, p + 1, 15, 2) = Since(v, p, 15, 2)
      /\ Since(v, p + 1, 15, 3) = Since(v, p, 15, 3) /\ Since(v, p + 1, 17, 1) = Since(v, p, 17, 1)
      /\ Since(v, p + 1, 18, 1) = Since(v, p, 18, 1) /\ Since(v, p + 1, 19, 3) = Since(v, p, 19, 3)
      /\ Since(v, p + 1, 20, 1) = Since(v, p, 20, 1) /\ Since(v, p + 1, 20, 2) = Since(v, p, 20, 2)
      /\ Since(v, p + 1, 21, 2) = Since(v, p, 21, 2) /\ Since(v, p + 1, 21, 4) = Since(v, p, 21, 4)
      /\ Since(v, p + 1, 22, 1) = Since(v, p, 22, 1) /\ Since(v, p + 1, 23, 1) = Since(v, p, 23, 1)
      /\ Since(v, p + 1, 51, 1) = Since(v, p, 51, 1)
  BY DEF Since, AtPlainPlace
<1>5. /\ RetiredBy(v, p + 1) = RetiredBy(v, p) /\ TakenFromAdmin(v, p + 1) = TakenFromAdmin(v, p)
      /\ GivenToAdmin(v, p + 1) = GivenToAdmin(v, p) /\ GivenToEveryday(v, p + 1) = GivenToEveryday(v, p)
      /\ Everyday(e, v, p + 1) = Everyday(d, v, p) /\ Combined(e, v, p + 1) = Combined(d, v, p)
  BY <1>1, <1>4 DEF RetiredBy, TakenFromAdmin, GivenToAdmin, GivenToEveryday, Everyday, Combined, SameBesides
<1>6. RightsStand(e, v, p + 1)
  BY <1>1, <1>4, <1>5 DEF RightsStand, Facts
<1>7. uses = 0 => AsShipped(e, v, p + 1)
  BY <1>1, <1>4, <1>5 DEF AsShipped, Facts
<1> QED
  BY <1>1, <1>3, <1>6, <1>7 DEF Facts, SameBesides, e

\* Rights that are given and taken, role by role, where they keep what holds of the rights,
\* and where nobody's everyday role falls short of what it ships with.
Moved(e, d, more, less) ==
  /\ e.roles = [r \in DOMAIN d.roles |-> e.roles[r]]
  /\ \A r \in DOMAIN d.roles : e.roles[r] = (d.roles[r] \cup more[r]) \ less[r]
MovesWithin(d, v, p, q, more, less) ==
  /\ \A r \in DOMAIN d.roles :
       /\ more[r] \subseteq AllRights /\ more[r] \cap Team = {}
       /\ more[r] \cap RetiredBy(v, q) = {}
       /\ RetiredBy(v, q) \subseteq RetiredBy(v, p) \cup less[r]
  /\ more["admin"] \cap TakenFromAdmin(v, q) = {}
  /\ TakenFromAdmin(v, q) \subseteq TakenFromAdmin(v, p) \cup less["admin"]
  /\ less["admin"] \cap GivenToAdmin(v, q) = {}
  /\ GivenToAdmin(v, q) \subseteq GivenToAdmin(v, p) \cup more["admin"]
MovesAsShipped(d, v, p, q, more, less) ==
  /\ more[Everyday(d, v, p)] \subseteq Working \cup Retired
  /\ GivenToEveryday(v, q) \subseteq GivenToEveryday(v, p) \cup more[Everyday(d, v, p)]
  /\ less[Everyday(d, v, p)] \cap Working = {}
  /\ \A r \in Combined(d, v, p) :
       /\ more[r] \subseteq Working \cup Administering \cup Retired
       /\ less[r] \cap (Working \cup Administering) = {}

LEMMA RightsMove ==
  ASSUME NEW v \in 3 .. 49, NEW p \in Nat, NEW q \in Nat, q = p + 1, NEW d, NEW e, SameBesides(e, d),
         NEW more, NEW less,
         Moved(e, d, more, less),
         RolesThere(d, v, p), RightsStand(d, v, p),
         Since(v, q, 15, 1) = Since(v, p, 15, 1), Since(v, q, 51, 1) = Since(v, p, 51, 1),
         MovesWithin(d, v, p, q, more, less)
  PROVE  RightsStand(e, v, q)
<1>1. Since(v, p, 3, 9) /\ Since(v, q, 3, 9) /\ ~Since(v, p, 51, 1) /\ ~Since(v, q, 51, 1)
  BY DEF Since
<1>2. "admin" \in DOMAIN d.roles /\ DOMAIN e.roles = DOMAIN d.roles
  BY <1>1 DEF RolesThere, SameBesides
<1>3. \A r \in DOMAIN d.roles : e.roles[r] = (d.roles[r] \cup more[r]) \ less[r]
  BY DEF Moved
<1>4. e.roles \in [DOMAIN e.roles -> SUBSET AllRights]
  <2>1. \A r \in DOMAIN d.roles : e.roles[r] \in SUBSET AllRights
    BY <1>3 DEF RightsStand, MovesWithin
  <2> QED
    BY <1>2, <2>1 DEF Moved
<1>5. \A r \in DOMAIN e.roles : e.roles[r] \cap RetiredBy(v, q) = {}
  BY <1>2, <1>3 DEF RightsStand, MovesWithin
<1>6. \A r \in DOMAIN e.roles \ {"manager"} : e.roles[r] \cap Team = {}
  BY <1>1, <1>2, <1>3 DEF RightsStand, MovesWithin
<1>7. Since(v, q, 15, 1) => \A r \in DOMAIN e.roles : e.roles[r] \cap Team = {}
  BY <1>1, <1>2, <1>3 DEF RightsStand, MovesWithin
<1>8. GivenToAdmin(v, q) \subseteq e.roles["admin"] /\ e.roles["admin"] \cap TakenFromAdmin(v, q) = {}
  BY <1>1, <1>2, <1>3 DEF RightsStand, MovesWithin
<1> QED
  BY <1>1, <1>4, <1>5, <1>6, <1>7, <1>8 DEF RightsStand

LEMMA ShippedRightsMove ==
  ASSUME NEW v \in 3 .. 49, NEW p \in Nat, NEW q \in Nat, q = p + 1, NEW d, NEW e, SameBesides(e, d),
         NEW more, NEW less,
         Moved(e, d, more, less),
         AsShipped(d, v, p),
         Since(v, q, 15, 1) = Since(v, p, 15, 1), Since(v, q, 20, 1) = Since(v, p, 20, 1),
         Since(v, q, 22, 1) = Since(v, p, 22, 1),
         MovesAsShipped(d, v, p, q, more, less)
  PROVE  AsShipped(e, v, q)
<1>1. /\ Since(v, p, 3, 9) /\ Since(v, q, 3, 9)
      /\ Since(v, q, 51, 1) = Since(v, p, 51, 1)
  BY DEF Since
<1>2. Everyday(e, v, q) = Everyday(d, v, p) /\ Combined(e, v, q) = Combined(d, v, p)
  BY DEF Everyday, Combined, SameBesides
<1>3. \A r \in DOMAIN d.roles : e.roles[r] = (d.roles[r] \cup more[r]) \ less[r]
  BY DEF Moved
<1>4. DOMAIN e.roles = DOMAIN d.roles
  BY DEF SameBesides
<1>5. Everyday(d, v, p) \in DOMAIN d.roles /\ Combined(d, v, p) \subseteq DOMAIN d.roles
  BY <1>1 DEF AsShipped
<1>6. GivenToEveryday(v, q) \subseteq Working
  BY DEF GivenToEveryday
<1>7. /\ GivenToEveryday(v, q) \subseteq e.roles[Everyday(d, v, p)]
      /\ e.roles[Everyday(d, v, p)] \subseteq Working \cup Retired
  BY <1>1, <1>3, <1>5, <1>6 DEF AsShipped, MovesAsShipped
<1>8. ASSUME NEW r \in Combined(d, v, p)
      PROVE  Working \cup Administering \subseteq e.roles[r] /\ e.roles[r] \subseteq Working \cup Administering \cup Retired
  BY <1>1, <1>3, <1>5, <1>8 DEF AsShipped, MovesAsShipped
<1> QED
  BY <1>1, <1>2, <1>4, <1>7, <1>8 DEF AsShipped

\* A statement that gives every role some rights and takes some.
LEMMA RightsStatement ==
  ASSUME NEW v \in 3 .. 49, NEW p \in Nat, NEW q \in Nat, q = p + 1, OtherPlace(v, p),
         ~(v = 14 /\ p = 1), ~(v = 19 /\ p = 1), ~(v = 21 /\ p = 1),
         NEW uses, NEW d, Facts(d, v, p, uses), NEW e, SameBesides(e, d),
         NEW more, NEW less,
         Moved(e, d, more, less),
         MovesWithin(d, v, p, q, more, less), uses = 0 => MovesAsShipped(d, v, p, q, more, less)
  PROVE  Facts(e, v, q, uses)
<1>1. /\ Since(v, q, 15, 1) = Since(v, p, 15, 1) /\ Since(v, q, 51, 1) = Since(v, p, 51, 1)
      /\ Since(v, q, 20, 1) = Since(v, p, 20, 1) /\ Since(v, q, 22, 1) = Since(v, p, 22, 1)
  BY DEF Since
<1>2. RolesThere(e, v, q) /\ MembersRight(e, v, q) /\ EntriesThere(e, v, q)
  BY RightsAlone DEF Facts
<1>3. RightsStand(e, v, q)
  BY <1>1, RightsMove DEF Facts
<1>4. ASSUME uses = 0 PROVE AsShipped(e, v, q)
  BY <1>1, <1>4, ShippedRightsMove DEF Facts
<1> QED
  BY <1>2, <1>3, <1>4 DEF Facts, SameBesides

\* What the everyday role is given when managers are no more.
EverydayGains == {"projects:write", "projects:archive", "projects:delete", "timesheets:transfer"}

LEMMA EverydayKnown == EverydayGains \subseteq Working /\ EverydayGains \cap Retired = {} /\ EverydayGains \cap Team = {}
BY DEF EverydayGains, Working, Retired, Team

LEMMA FirstOfTwo ==
  ASSUME NEW d, NEW x, NEW y
  PROVE  firstRoleThatExists(d, <<x, y>>) =
           IF x \in DOMAIN d.roles THEN x ELSE IF y \in DOMAIN d.roles THEN y ELSE Unset
<1> DEFINE names == <<x, y>>
           there == {i \in DOMAIN names : names[i] \in DOMAIN d.roles}
<1>1. firstRoleThatExists(d, names) = IF there = {} THEN Unset ELSE names[Min(there)]
  BY DEF firstRoleThatExists
<1>2. names[1] = x /\ names[2] = y /\ DOMAIN names = {1, 2}
  OBVIOUS
<1>3. CASE x \in DOMAIN d.roles
  <2>1. 1 \in there /\ there \subseteq {1, 2}
    BY <1>2, <1>3
  <2> HIDE DEF there
  <2>2. Min(there) = 1
    <3>1. \A x1 \in there : 1 <= x1
      BY <2>1
    <3>2. \A m : m \in there /\ (\A x1 \in there : m <= x1) => m = 1
      BY <2>1
    <3> QED
      BY <2>1, <3>1, <3>2 DEF Min
  <2> QED
    BY <1>1, <1>2, <1>3, <2>1, <2>2
<1>4. CASE x \notin DOMAIN d.roles /\ y \in DOMAIN d.roles
  <2>1. there = {2}
    BY <1>2, <1>4
  <2> HIDE DEF there
  <2>2. Min(there) = 2
    <3>1. \A m : m \in there /\ (\A x1 \in there : m <= x1) <=> m = 2
      BY <2>1
    <3> QED
      BY <3>1 DEF Min
  <2> QED
    BY <1>1, <1>2, <1>4, <2>1, <2>2
<1>5. CASE x \notin DOMAIN d.roles /\ y \notin DOMAIN d.roles
  <2>1. there = {}
    BY <1>2, <1>5
  <2> QED
    BY <1>1, <1>5, <2>1
<1> QED
  BY <1>3, <1>4, <1>5

LEMMA OrdinaryRole ==
  ASSUME NEW d
  PROVE  theOrdinaryRoleName(d) = IF "employee" \in DOMAIN d.roles THEN "employee"
                                  ELSE IF "user" \in DOMAIN d.roles THEN "user" ELSE Unset
BY FirstOfTwo DEF theOrdinaryRoleName

LEMMA OrdinaryIsEveryday ==
  ASSUME NEW v \in 3 .. 20, NEW p \in Nat, NEW d, IsDatabase(d), AsShipped(d, v, p)
  PROVE  theOrdinaryRoleName(d) = Everyday(d, v, p)
<1>1. Since(v, p, 3, 9) /\ ~Since(v, p, 22, 1)
  BY DEF Since
<1>2. DOMAIN d.roles \ {"manager"} = {"admin", Everyday(d, v, p)} \cup Combined(d, v, p)
  BY <1>1 DEF AsShipped
<1>3. Combined(d, v, p) \subseteq {"user-admin"}
  BY DEF Combined
<1>4. Everyday(d, v, p) = IF d.first THEN "employee" ELSE "user"
  BY <1>1 DEF Everyday
<1>5. CASE d.first
  BY <1>2, <1>4, <1>5, OrdinaryRole
<1>6. CASE ~d.first
  <2>1. "employee" \notin DOMAIN d.roles /\ "user" \in DOMAIN d.roles
    BY <1>2, <1>3, <1>4, <1>6
  <2> QED
    BY <1>4, <1>6, <2>1, OrdinaryRole
<1> QED
  BY <1>5, <1>6

\* The four kinds of rights, and which is which.
LEMMA RightsApart ==
  /\ Administering \cap Working = {} /\ Administering \cap Team = {} /\ Administering \cap Retired = {}
  /\ Working \cap Team = {} /\ Working \cap Retired = {} /\ Team \cap Retired = {}
BY DEF Administering, Working, Team, Retired

LEMMA RightsKnown ==
  /\ {"users:write", "settings:manage"} \subseteq Administering
  /\ {"projects:write", "projects:archive", "projects:delete", "timesheets:transfer", "timesheets:read:own",
      "timesheets:write:own"} \subseteq Working
  /\ {"timesheets:approve", "reports:read", "settings:write:other", "projects:write:own",
      "timesheets:read:all", "timesheets:write:all"} = Retired
BY DEF Administering, Working, Retired

LEMMA RolesKnown ==
  ASSUME NEW v \in 3 .. 49, NEW p \in Nat, NEW uses, NEW d, Facts(d, v, p, uses)
  PROVE  /\ "admin" \in DOMAIN d.roles
         /\ uses = 0 => /\ Everyday(d, v, p) \in DOMAIN d.roles
                        /\ Everyday(d, v, p) \notin {"admin", "manager", "user-admin"}
                        /\ Combined(d, v, p) \subseteq DOMAIN d.roles \cap {"user-admin"}
<1>1. Since(v, p, 3, 9)
  BY DEF Since
<1>2. "admin" \in DOMAIN d.roles
  BY <1>1 DEF Facts, RolesThere
<1>3. ASSUME uses = 0 PROVE Everyday(d, v, p) \in DOMAIN d.roles /\ Combined(d, v, p) \subseteq DOMAIN d.roles
  BY <1>1, <1>3 DEF Facts, AsShipped
<1> QED
  BY <1>2, <1>3 DEF Everyday, Combined

\* Migration 4: reports are the administrator's.
LEMMA ReportsGoToTheAdministrator ==
  ASSUME NEW uses, NEW d, Facts(d, 3, 8, uses)
  PROVE  Facts(Effect(d, Rewrite("reportsToTheAdministrator")), 3, 9, uses)
<1> DEFINE e == Effect(d, Rewrite("reportsToTheAdministrator"))
           more == [r \in DOMAIN d.roles |-> {}]
           less == [r \in DOMAIN d.roles |-> IF r = "admin" THEN {} ELSE {"reports:read"}]
<1>k. /\ "admin" \in DOMAIN d.roles
      /\ uses = 0 => /\ Everyday(d, 3, 8) \in DOMAIN d.roles
                     /\ Everyday(d, 3, 8) \notin {"admin", "manager", "user-admin"}
                     /\ Combined(d, 3, 8) \subseteq DOMAIN d.roles \cap {"user-admin"}
  <2>1. 3 \in 3 .. 49 /\ 8 \in Nat
    OBVIOUS
  <2> HIDE DEF e, more, less
  <2> QED
    BY <2>1, RolesKnown
<1>1. SameBesides(e, d) /\ Moved(e, d, more, less)
  <2> DEFINE after == [name \in DOMAIN d.roles |-> IF name = "admin" THEN d.roles[name] ELSE d.roles[name] \ {"reports:read"}]
  <2>1. e = [d EXCEPT !.roles = after]
    BY DEF Effect, Rewrite, Rewritten
  <2>2. \A r \in DOMAIN d.roles : after[r] = (d.roles[r] \cup more[r]) \ less[r]
    OBVIOUS
  <2>5. after = [r \in DOMAIN d.roles |-> after[r]]
    OBVIOUS
  <2>3. DOMAIN after = DOMAIN d.roles
    OBVIOUS
  <2> HIDE DEF after, more, less, e
  <2>4. SameBesides(e, d) /\ e.roles = after
    BY <2>1, <2>3 DEF SameBesides, IsDatabase, Facts
  <2> QED
    BY <2>2, <2>4, <2>5 DEF Moved
<1> HIDE DEF e
<1>2. MovesWithin(d, 3, 8, 9, more, less)
  <2>1. ASSUME NEW r \in DOMAIN d.roles
        PROVE  more[r] \subseteq AllRights /\ more[r] \cap Team = {}
    BY RightsApart, RightsKnown DEF AllRights
  <2>2. ASSUME NEW r \in DOMAIN d.roles PROVE more[r] \cap RetiredBy(3, 9) = {}
    BY RightsApart, RightsKnown DEF RetiredBy, Since
  <2>3. ASSUME NEW r \in DOMAIN d.roles PROVE RetiredBy(3, 9) \subseteq RetiredBy(3, 8) \cup less[r]
    BY DEF RetiredBy, Since
  <2>4. /\ more["admin"] \cap TakenFromAdmin(3, 9) = {}
        /\ TakenFromAdmin(3, 9) \subseteq TakenFromAdmin(3, 8) \cup less["admin"]
    BY <1>k, RightsApart, RightsKnown DEF TakenFromAdmin, Since, TakenAway
  <2>5. /\ less["admin"] \cap GivenToAdmin(3, 9) = {}
        /\ GivenToAdmin(3, 9) \subseteq GivenToAdmin(3, 8) \cup more["admin"]
    BY <1>k, RightsApart, RightsKnown DEF GivenToAdmin, Since, TakenAway
  <2> HIDE DEF more, less
  <2> QED
    BY <2>1, <2>2, <2>3, <2>4, <2>5 DEF MovesWithin
<1>3. ASSUME uses = 0 PROVE MovesAsShipped(d, 3, 8, 9, more, less)
  <2>1. more[Everyday(d, 3, 8)] \subseteq Working \cup Retired
    BY <1>k, <1>3, RightsKnown
  <2>2. GivenToEveryday(3, 9) \subseteq GivenToEveryday(3, 8) \cup more[Everyday(d, 3, 8)]
    BY <1>k, <1>3 DEF GivenToEveryday, Since
  <2>3. less[Everyday(d, 3, 8)] \cap Working = {}
    BY <1>k, <1>3, RightsApart, RightsKnown
  <2>4. ASSUME NEW r \in Combined(d, 3, 8)
        PROVE  /\ more[r] \subseteq Working \cup Administering \cup Retired
               /\ less[r] \cap (Working \cup Administering) = {}
    BY <1>k, <1>3, RightsApart, RightsKnown
  <2> HIDE DEF more, less
  <2> QED
    BY <2>1, <2>2, <2>3, <2>4 DEF MovesAsShipped
<1> HIDE DEF more, less
<1>4. OtherPlace(3, 8)
  BY DEF OtherPlace
<1> QED
  BY <1>1, <1>2, <1>3, <1>4, RightsStatement DEF e

\* Migration 7: every role may keep projects of its own.
LEMMA EveryRoleKeepsItsProjects ==
  ASSUME NEW uses, NEW d, Facts(d, 6, 3, uses)
  PROVE  Facts(Effect(d, GrantTo("every", {"projects:write:own"})), 6, 4, uses)
<1> DEFINE e == Effect(d, GrantTo("every", {"projects:write:own"}))
           more == [r \in DOMAIN d.roles |-> {"projects:write:own"}]
           less == [r \in DOMAIN d.roles |-> {}]
<1>k. /\ "admin" \in DOMAIN d.roles
      /\ uses = 0 => /\ Everyday(d, 6, 3) \in DOMAIN d.roles
                     /\ Everyday(d, 6, 3) \notin {"admin", "manager", "user-admin"}
                     /\ Combined(d, 6, 3) \subseteq DOMAIN d.roles \cap {"user-admin"}
  <2>1. 6 \in 3 .. 49 /\ 3 \in Nat
    OBVIOUS
  <2> HIDE DEF e, more, less
  <2> QED
    BY <2>1, RolesKnown
<1>1. SameBesides(e, d) /\ Moved(e, d, more, less)
  <2>1. SameBesides(e, d)
    BY GrantToLeaves DEF Facts
  <2>2. e.roles = [r \in DOMAIN d.roles |-> IF "every" \in {r, "every"} THEN d.roles[r] \cup {"projects:write:own"} ELSE d.roles[r]]
    BY GrantToLeaves DEF Facts
  <2> HIDE DEF e
  <2>3. e.roles = [r \in DOMAIN d.roles |-> e.roles[r]]
    BY <2>2
  <2>4. \A r \in DOMAIN d.roles : e.roles[r] = (d.roles[r] \cup more[r]) \ less[r]
    BY <2>2
  <2> QED
    BY <2>1, <2>3, <2>4 DEF Moved
<1> HIDE DEF e
<1>2. MovesWithin(d, 6, 3, 4, more, less)
  <2>1. ASSUME NEW r \in DOMAIN d.roles
        PROVE  more[r] \subseteq AllRights /\ more[r] \cap Team = {}
    BY RightsApart, RightsKnown DEF AllRights
  <2>2. ASSUME NEW r \in DOMAIN d.roles PROVE more[r] \cap RetiredBy(6, 4) = {}
    BY RightsApart, RightsKnown DEF RetiredBy, Since
  <2>3. ASSUME NEW r \in DOMAIN d.roles PROVE RetiredBy(6, 4) \subseteq RetiredBy(6, 3) \cup less[r]
    BY DEF RetiredBy, Since
  <2>4. /\ more["admin"] \cap TakenFromAdmin(6, 4) = {}
        /\ TakenFromAdmin(6, 4) \subseteq TakenFromAdmin(6, 3) \cup less["admin"]
    BY <1>k, RightsApart, RightsKnown DEF TakenFromAdmin, Since, TakenAway
  <2>5. /\ less["admin"] \cap GivenToAdmin(6, 4) = {}
        /\ GivenToAdmin(6, 4) \subseteq GivenToAdmin(6, 3) \cup more["admin"]
    BY <1>k, RightsApart, RightsKnown DEF GivenToAdmin, Since, TakenAway
  <2> HIDE DEF more, less
  <2> QED
    BY <2>1, <2>2, <2>3, <2>4, <2>5 DEF MovesWithin
<1>3. ASSUME uses = 0 PROVE MovesAsShipped(d, 6, 3, 4, more, less)
  <2>1. more[Everyday(d, 6, 3)] \subseteq Working \cup Retired
    BY <1>k, <1>3, RightsKnown
  <2>2. GivenToEveryday(6, 4) \subseteq GivenToEveryday(6, 3) \cup more[Everyday(d, 6, 3)]
    BY <1>k, <1>3 DEF GivenToEveryday, Since
  <2>3. less[Everyday(d, 6, 3)] \cap Working = {}
    BY <1>k, <1>3, RightsApart, RightsKnown
  <2>4. ASSUME NEW r \in Combined(d, 6, 3)
        PROVE  /\ more[r] \subseteq Working \cup Administering \cup Retired
               /\ less[r] \cap (Working \cup Administering) = {}
    BY <1>k, <1>3, RightsApart, RightsKnown
  <2> HIDE DEF more, less
  <2> QED
    BY <2>1, <2>2, <2>3, <2>4 DEF MovesAsShipped
<1> HIDE DEF more, less
<1>4. OtherPlace(6, 3)
  BY DEF OtherPlace
<1> QED
  BY <1>1, <1>2, <1>3, <1>4, RightsStatement DEF e

\* Migration 14: what an administrator may do is separated from work.
LEMMA AdministratorGivesUpWork ==
  ASSUME NEW uses, NEW d, Facts(d, 13, 1, uses)
  PROVE  Facts(Effect(d, Revoke("admin", TakenAway)), 13, 2, uses)
<1> DEFINE e == Effect(d, Revoke("admin", TakenAway))
           more == [r \in DOMAIN d.roles |-> {}]
           less == [r \in DOMAIN d.roles |-> IF r = "admin" THEN TakenAway ELSE {}]
<1>k. /\ "admin" \in DOMAIN d.roles
      /\ uses = 0 => /\ Everyday(d, 13, 1) \in DOMAIN d.roles
                     /\ Everyday(d, 13, 1) \notin {"admin", "manager", "user-admin"}
                     /\ Combined(d, 13, 1) \subseteq DOMAIN d.roles \cap {"user-admin"}
  <2>1. 13 \in 3 .. 49 /\ 1 \in Nat
    OBVIOUS
  <2> HIDE DEF e, more, less
  <2> QED
    BY <2>1, RolesKnown
<1>1. SameBesides(e, d) /\ Moved(e, d, more, less)
  <2>1. SameBesides(e, d)
    BY RevokeLeaves DEF Facts
  <2>2. e.roles = [r \in DOMAIN d.roles |-> IF r = "admin" THEN d.roles[r] \ TakenAway ELSE d.roles[r]]
    BY RevokeLeaves DEF Facts
  <2> HIDE DEF e
  <2>3. e.roles = [r \in DOMAIN d.roles |-> e.roles[r]]
    BY <2>2
  <2>4. \A r \in DOMAIN d.roles : e.roles[r] = (d.roles[r] \cup more[r]) \ less[r]
    BY <2>2
  <2> QED
    BY <2>1, <2>3, <2>4 DEF Moved
<1> HIDE DEF e
<1>2. MovesWithin(d, 13, 1, 2, more, less)
  <2>1. ASSUME NEW r \in DOMAIN d.roles
        PROVE  more[r] \subseteq AllRights /\ more[r] \cap Team = {}
    BY RightsApart, RightsKnown DEF AllRights
  <2>2. ASSUME NEW r \in DOMAIN d.roles PROVE more[r] \cap RetiredBy(13, 2) = {}
    BY RightsApart, RightsKnown DEF RetiredBy, Since
  <2>3. ASSUME NEW r \in DOMAIN d.roles PROVE RetiredBy(13, 2) \subseteq RetiredBy(13, 1) \cup less[r]
    BY DEF RetiredBy, Since
  <2>4. /\ more["admin"] \cap TakenFromAdmin(13, 2) = {}
        /\ TakenFromAdmin(13, 2) \subseteq TakenFromAdmin(13, 1) \cup less["admin"]
    BY <1>k, RightsApart, RightsKnown DEF TakenFromAdmin, Since, TakenAway
  <2>5. /\ less["admin"] \cap GivenToAdmin(13, 2) = {}
        /\ GivenToAdmin(13, 2) \subseteq GivenToAdmin(13, 1) \cup more["admin"]
    BY <1>k, RightsApart, RightsKnown DEF GivenToAdmin, Since, TakenAway
  <2> HIDE DEF more, less
  <2> QED
    BY <2>1, <2>2, <2>3, <2>4, <2>5 DEF MovesWithin
<1>3. ASSUME uses = 0 PROVE MovesAsShipped(d, 13, 1, 2, more, less)
  <2>1. more[Everyday(d, 13, 1)] \subseteq Working \cup Retired
    BY <1>k, <1>3, RightsKnown
  <2>2. GivenToEveryday(13, 2) \subseteq GivenToEveryday(13, 1) \cup more[Everyday(d, 13, 1)]
    BY <1>k, <1>3 DEF GivenToEveryday, Since
  <2>3. less[Everyday(d, 13, 1)] \cap Working = {}
    BY <1>k, <1>3, RightsApart, RightsKnown
  <2>4. ASSUME NEW r \in Combined(d, 13, 1)
        PROVE  /\ more[r] \subseteq Working \cup Administering \cup Retired
               /\ less[r] \cap (Working \cup Administering) = {}
    BY <1>k, <1>3, RightsApart, RightsKnown
  <2> HIDE DEF more, less
  <2> QED
    BY <2>1, <2>2, <2>3, <2>4 DEF MovesAsShipped
<1> HIDE DEF more, less
<1>4. OtherPlace(13, 1)
  BY DEF OtherPlace
<1> QED
  BY <1>1, <1>2, <1>3, <1>4, RightsStatement DEF e

\* Migration 14: and the manager of then has the reports.
LEMMA ManagerHasReports ==
  ASSUME NEW uses, NEW d, Facts(d, 13, 2, uses)
  PROVE  Facts(Effect(d, GrantTo("manager", {"reports:read", "projects:delete"})), 13, 3, uses)
<1> DEFINE e == Effect(d, GrantTo("manager", {"reports:read", "projects:delete"}))
           more == [r \in DOMAIN d.roles |-> IF r = "manager" THEN {"reports:read", "projects:delete"} ELSE {}]
           less == [r \in DOMAIN d.roles |-> {}]
<1>k. /\ "admin" \in DOMAIN d.roles
      /\ uses = 0 => /\ Everyday(d, 13, 2) \in DOMAIN d.roles
                     /\ Everyday(d, 13, 2) \notin {"admin", "manager", "user-admin"}
                     /\ Combined(d, 13, 2) \subseteq DOMAIN d.roles \cap {"user-admin"}
  <2>1. 13 \in 3 .. 49 /\ 2 \in Nat
    OBVIOUS
  <2> HIDE DEF e, more, less
  <2> QED
    BY <2>1, RolesKnown
<1>1. SameBesides(e, d) /\ Moved(e, d, more, less)
  <2>1. SameBesides(e, d)
    BY GrantToLeaves DEF Facts
  <2>2. e.roles = [r \in DOMAIN d.roles |-> IF "manager" \in {r, "every"} THEN d.roles[r] \cup {"reports:read", "projects:delete"} ELSE d.roles[r]]
    BY GrantToLeaves DEF Facts
  <2> HIDE DEF e
  <2>3. e.roles = [r \in DOMAIN d.roles |-> e.roles[r]]
    BY <2>2
  <2>4. \A r \in DOMAIN d.roles : e.roles[r] = (d.roles[r] \cup more[r]) \ less[r]
    BY <2>2
  <2> QED
    BY <2>1, <2>3, <2>4 DEF Moved
<1> HIDE DEF e
<1>2. MovesWithin(d, 13, 2, 3, more, less)
  <2>1. ASSUME NEW r \in DOMAIN d.roles
        PROVE  more[r] \subseteq AllRights /\ more[r] \cap Team = {}
    BY RightsApart, RightsKnown DEF AllRights
  <2>2. ASSUME NEW r \in DOMAIN d.roles PROVE more[r] \cap RetiredBy(13, 3) = {}
    BY RightsApart, RightsKnown DEF RetiredBy, Since
  <2>3. ASSUME NEW r \in DOMAIN d.roles PROVE RetiredBy(13, 3) \subseteq RetiredBy(13, 2) \cup less[r]
    BY DEF RetiredBy, Since
  <2>4. /\ more["admin"] \cap TakenFromAdmin(13, 3) = {}
        /\ TakenFromAdmin(13, 3) \subseteq TakenFromAdmin(13, 2) \cup less["admin"]
    BY <1>k, RightsApart, RightsKnown DEF TakenFromAdmin, Since, TakenAway
  <2>5. /\ less["admin"] \cap GivenToAdmin(13, 3) = {}
        /\ GivenToAdmin(13, 3) \subseteq GivenToAdmin(13, 2) \cup more["admin"]
    BY <1>k, RightsApart, RightsKnown DEF GivenToAdmin, Since, TakenAway
  <2> HIDE DEF more, less
  <2> QED
    BY <2>1, <2>2, <2>3, <2>4, <2>5 DEF MovesWithin
<1>3. ASSUME uses = 0 PROVE MovesAsShipped(d, 13, 2, 3, more, less)
  <2>1. more[Everyday(d, 13, 2)] \subseteq Working \cup Retired
    BY <1>k, <1>3, RightsKnown
  <2>2. GivenToEveryday(13, 3) \subseteq GivenToEveryday(13, 2) \cup more[Everyday(d, 13, 2)]
    BY <1>k, <1>3 DEF GivenToEveryday, Since
  <2>3. less[Everyday(d, 13, 2)] \cap Working = {}
    BY <1>k, <1>3, RightsApart, RightsKnown
  <2>4. ASSUME NEW r \in Combined(d, 13, 2)
        PROVE  /\ more[r] \subseteq Working \cup Administering \cup Retired
               /\ less[r] \cap (Working \cup Administering) = {}
    BY <1>k, <1>3, RightsApart, RightsKnown
  <2> HIDE DEF more, less
  <2> QED
    BY <2>1, <2>2, <2>3, <2>4 DEF MovesAsShipped
<1> HIDE DEF more, less
<1>4. OtherPlace(13, 2)
  BY DEF OtherPlace
<1> QED
  BY <1>1, <1>2, <1>3, <1>4, RightsStatement DEF e

\* Migration 15: the review of entries is retired.
LEMMA NobodyApproves ==
  ASSUME NEW uses, NEW d, Facts(d, 14, 2, uses)
  PROVE  Facts(Effect(d, Withdraw({"timesheets:approve"})), 14, 3, uses)
<1> DEFINE e == Effect(d, Withdraw({"timesheets:approve"}))
           more == [r \in DOMAIN d.roles |-> {}]
           less == [r \in DOMAIN d.roles |-> {"timesheets:approve"}]
<1>k. /\ "admin" \in DOMAIN d.roles
      /\ uses = 0 => /\ Everyday(d, 14, 2) \in DOMAIN d.roles
                     /\ Everyday(d, 14, 2) \notin {"admin", "manager", "user-admin"}
                     /\ Combined(d, 14, 2) \subseteq DOMAIN d.roles \cap {"user-admin"}
  <2>1. 14 \in 3 .. 49 /\ 2 \in Nat
    OBVIOUS
  <2> HIDE DEF e, more, less
  <2> QED
    BY <2>1, RolesKnown
<1>1. SameBesides(e, d) /\ Moved(e, d, more, less)
  <2>1. SameBesides(e, d)
    BY WithdrawLeaves DEF Facts
  <2>2. e.roles = [r \in DOMAIN d.roles |-> d.roles[r] \ {"timesheets:approve"}]
    BY WithdrawLeaves DEF Facts
  <2> HIDE DEF e
  <2>3. e.roles = [r \in DOMAIN d.roles |-> e.roles[r]]
    BY <2>2
  <2>4. \A r \in DOMAIN d.roles : e.roles[r] = (d.roles[r] \cup more[r]) \ less[r]
    BY <2>2
  <2> QED
    BY <2>1, <2>3, <2>4 DEF Moved
<1> HIDE DEF e
<1>2. MovesWithin(d, 14, 2, 3, more, less)
  <2>1. ASSUME NEW r \in DOMAIN d.roles
        PROVE  more[r] \subseteq AllRights /\ more[r] \cap Team = {}
    BY RightsApart, RightsKnown DEF AllRights
  <2>2. ASSUME NEW r \in DOMAIN d.roles PROVE more[r] \cap RetiredBy(14, 3) = {}
    BY RightsApart, RightsKnown DEF RetiredBy, Since
  <2>3. ASSUME NEW r \in DOMAIN d.roles PROVE RetiredBy(14, 3) \subseteq RetiredBy(14, 2) \cup less[r]
    BY DEF RetiredBy, Since
  <2>4. /\ more["admin"] \cap TakenFromAdmin(14, 3) = {}
        /\ TakenFromAdmin(14, 3) \subseteq TakenFromAdmin(14, 2) \cup less["admin"]
    BY <1>k, RightsApart, RightsKnown DEF TakenFromAdmin, Since, TakenAway
  <2>5. /\ less["admin"] \cap GivenToAdmin(14, 3) = {}
        /\ GivenToAdmin(14, 3) \subseteq GivenToAdmin(14, 2) \cup more["admin"]
    BY <1>k, RightsApart, RightsKnown DEF GivenToAdmin, Since, TakenAway
  <2> HIDE DEF more, less
  <2> QED
    BY <2>1, <2>2, <2>3, <2>4, <2>5 DEF MovesWithin
<1>3. ASSUME uses = 0 PROVE MovesAsShipped(d, 14, 2, 3, more, less)
  <2>1. more[Everyday(d, 14, 2)] \subseteq Working \cup Retired
    BY <1>k, <1>3, RightsKnown
  <2>2. GivenToEveryday(14, 3) \subseteq GivenToEveryday(14, 2) \cup more[Everyday(d, 14, 2)]
    BY <1>k, <1>3 DEF GivenToEveryday, Since
  <2>3. less[Everyday(d, 14, 2)] \cap Working = {}
    BY <1>k, <1>3, RightsApart, RightsKnown
  <2>4. ASSUME NEW r \in Combined(d, 14, 2)
        PROVE  /\ more[r] \subseteq Working \cup Administering \cup Retired
               /\ less[r] \cap (Working \cup Administering) = {}
    BY <1>k, <1>3, RightsApart, RightsKnown
  <2> HIDE DEF more, less
  <2> QED
    BY <2>1, <2>2, <2>3, <2>4 DEF MovesAsShipped
<1> HIDE DEF more, less
<1>4. OtherPlace(14, 2)
  BY DEF OtherPlace
<1> QED
  BY <1>1, <1>2, <1>3, <1>4, RightsStatement DEF e

\* Migration 15: the everyday role takes over what managers did.
LEMMA OrdinaryRoleWorks ==
  ASSUME NEW uses, NEW d, Facts(d, 14, 3, uses)
  PROVE  Facts(Effect(d, Rewrite("grantOrdinary")), 14, 4, uses)
<1> DEFINE e == Effect(d, Rewrite("grantOrdinary"))
           more == [r \in DOMAIN d.roles |-> IF r = theOrdinaryRoleName(d) /\ r # Unset THEN EverydayGains ELSE {}]
           less == [r \in DOMAIN d.roles |-> {}]
<1>k. /\ "admin" \in DOMAIN d.roles
      /\ uses = 0 => /\ Everyday(d, 14, 3) \in DOMAIN d.roles
                     /\ Everyday(d, 14, 3) \notin {"admin", "manager", "user-admin"}
                     /\ Combined(d, 14, 3) \subseteq DOMAIN d.roles \cap {"user-admin"}
  <2>1. 14 \in 3 .. 49 /\ 3 \in Nat
    OBVIOUS
  <2> HIDE DEF e, more, less
  <2> QED
    BY <2>1, RolesKnown
<1>o. theOrdinaryRoleName(d) \in {"employee", "user", Unset} /\ (theOrdinaryRoleName(d) # Unset => theOrdinaryRoleName(d) \in DOMAIN d.roles)
  BY OrdinaryRole
<1>n. uses = 0 => theOrdinaryRoleName(d) = Everyday(d, 14, 3)
  BY OrdinaryIsEveryday DEF Facts
<1>1. SameBesides(e, d) /\ Moved(e, d, more, less)
  <2>1. CASE theOrdinaryRoleName(d) = Unset
    <3>1. e = d
      BY <2>1 DEF Effect, Rewrite, Rewritten
    <3>2. \A r \in DOMAIN d.roles : more[r] = {} /\ less[r] = {}
      BY <2>1
    <3>3. d.roles \in [DOMAIN d.roles -> SUBSET AllRights]
      BY DEF Facts, RightsStand
    <3> HIDE DEF e, more, less
    <3>4. Moved(e, d, more, less)
      BY <3>1, <3>2, <3>3 DEF Moved
    <3> QED
      BY <3>1, <3>4 DEF SameBesides, Facts
  <2>2. CASE theOrdinaryRoleName(d) # Unset
    <3> DEFINE x == theOrdinaryRoleName(d)
    <3>1. e = [d EXCEPT !.roles[x] = @ \cup EverydayGains]
      BY <2>2 DEF Effect, Rewrite, Rewritten, EverydayGains
    <3> DEFINE after == [d.roles EXCEPT ![x] = @ \cup EverydayGains]
    <3>2. e = [d EXCEPT !.roles = after]
      BY <3>1
    <3>3. d.roles \in [DOMAIN d.roles -> SUBSET AllRights]
      BY DEF Facts, RightsStand
    <3>6. \A r \in DOMAIN d.roles : after[r] = (d.roles[r] \cup more[r]) \ less[r]
      BY <2>2, <3>3
    <3>7. after = [r \in DOMAIN d.roles |-> after[r]]
      BY <3>3
    <3>4. DOMAIN after = DOMAIN d.roles
      OBVIOUS
    <3> HIDE DEF after, more, less, e
    <3>5. SameBesides(e, d) /\ e.roles = after
      BY <3>2, <3>4 DEF SameBesides, IsDatabase, Facts
    <3> QED
      BY <3>5, <3>6, <3>7 DEF Moved
  <2> QED
    BY <2>1, <2>2
<1> HIDE DEF e
<1>2. MovesWithin(d, 14, 3, 4, more, less)
  <2>1. ASSUME NEW r \in DOMAIN d.roles
        PROVE  more[r] \subseteq AllRights /\ more[r] \cap Team = {}
    BY RightsApart, RightsKnown, EverydayKnown DEF AllRights
  <2>2. ASSUME NEW r \in DOMAIN d.roles PROVE more[r] \cap RetiredBy(14, 4) = {}
    BY RightsApart, RightsKnown, EverydayKnown DEF RetiredBy, Since
  <2>3. ASSUME NEW r \in DOMAIN d.roles PROVE RetiredBy(14, 4) \subseteq RetiredBy(14, 3) \cup less[r]
    BY DEF RetiredBy, Since
  <2>4. /\ more["admin"] \cap TakenFromAdmin(14, 4) = {}
        /\ TakenFromAdmin(14, 4) \subseteq TakenFromAdmin(14, 3) \cup less["admin"]
    BY <1>k, RightsApart, RightsKnown, <1>o DEF TakenFromAdmin, Since, TakenAway
  <2>5. /\ less["admin"] \cap GivenToAdmin(14, 4) = {}
        /\ GivenToAdmin(14, 4) \subseteq GivenToAdmin(14, 3) \cup more["admin"]
    BY <1>k, RightsApart, RightsKnown, <1>o DEF GivenToAdmin, Since, TakenAway
  <2> HIDE DEF more, less
  <2> QED
    BY <2>1, <2>2, <2>3, <2>4, <2>5 DEF MovesWithin
<1>3. ASSUME uses = 0 PROVE MovesAsShipped(d, 14, 3, 4, more, less)
  <2>1. more[Everyday(d, 14, 3)] \subseteq Working \cup Retired
    BY <1>k, <1>3, RightsKnown, EverydayKnown
  <2>2. GivenToEveryday(14, 4) \subseteq GivenToEveryday(14, 3) \cup more[Everyday(d, 14, 3)]
    <3>1. Everyday(d, 14, 3) # Unset
      BY DEF Everyday, Unset
    <3>2. more[Everyday(d, 14, 3)] = EverydayGains
      BY <1>k, <1>3, <1>n, <3>1
    <3>3. GivenToEveryday(14, 4) \subseteq GivenToEveryday(14, 3) \cup EverydayGains
      BY DEF GivenToEveryday, EverydayGains
    <3> QED
      BY <3>2, <3>3
  <2>3. less[Everyday(d, 14, 3)] \cap Working = {}
    BY <1>k, <1>3, RightsApart, RightsKnown
  <2>4. ASSUME NEW r \in Combined(d, 14, 3)
        PROVE  /\ more[r] \subseteq Working \cup Administering \cup Retired
               /\ less[r] \cap (Working \cup Administering) = {}
    BY <1>k, <1>3, RightsApart, RightsKnown, EverydayKnown
  <2> HIDE DEF more, less
  <2> QED
    BY <2>1, <2>2, <2>3, <2>4 DEF MovesAsShipped
<1> HIDE DEF more, less
<1>4. OtherPlace(14, 3)
  BY DEF OtherPlace
<1> QED
  BY <1>1, <1>2, <1>3, <1>4, RightsStatement DEF e

\* Migration 17: the right to reports of its own is retired.
LEMMA NobodyReads ==
  ASSUME NEW uses, NEW d, Facts(d, 16, 1, uses)
  PROVE  Facts(Effect(d, Withdraw({"reports:read"})), 16, 2, uses)
<1> DEFINE e == Effect(d, Withdraw({"reports:read"}))
           more == [r \in DOMAIN d.roles |-> {}]
           less == [r \in DOMAIN d.roles |-> {"reports:read"}]
<1>k. /\ "admin" \in DOMAIN d.roles
      /\ uses = 0 => /\ Everyday(d, 16, 1) \in DOMAIN d.roles
                     /\ Everyday(d, 16, 1) \notin {"admin", "manager", "user-admin"}
                     /\ Combined(d, 16, 1) \subseteq DOMAIN d.roles \cap {"user-admin"}
  <2>1. 16 \in 3 .. 49 /\ 1 \in Nat
    OBVIOUS
  <2> HIDE DEF e, more, less
  <2> QED
    BY <2>1, RolesKnown
<1>1. SameBesides(e, d) /\ Moved(e, d, more, less)
  <2>1. SameBesides(e, d)
    BY WithdrawLeaves DEF Facts
  <2>2. e.roles = [r \in DOMAIN d.roles |-> d.roles[r] \ {"reports:read"}]
    BY WithdrawLeaves DEF Facts
  <2> HIDE DEF e
  <2>3. e.roles = [r \in DOMAIN d.roles |-> e.roles[r]]
    BY <2>2
  <2>4. \A r \in DOMAIN d.roles : e.roles[r] = (d.roles[r] \cup more[r]) \ less[r]
    BY <2>2
  <2> QED
    BY <2>1, <2>3, <2>4 DEF Moved
<1> HIDE DEF e
<1>2. MovesWithin(d, 16, 1, 2, more, less)
  <2>1. ASSUME NEW r \in DOMAIN d.roles
        PROVE  more[r] \subseteq AllRights /\ more[r] \cap Team = {}
    BY RightsApart, RightsKnown DEF AllRights
  <2>2. ASSUME NEW r \in DOMAIN d.roles PROVE more[r] \cap RetiredBy(16, 2) = {}
    BY RightsApart, RightsKnown DEF RetiredBy, Since
  <2>3. ASSUME NEW r \in DOMAIN d.roles PROVE RetiredBy(16, 2) \subseteq RetiredBy(16, 1) \cup less[r]
    BY DEF RetiredBy, Since
  <2>4. /\ more["admin"] \cap TakenFromAdmin(16, 2) = {}
        /\ TakenFromAdmin(16, 2) \subseteq TakenFromAdmin(16, 1) \cup less["admin"]
    BY <1>k, RightsApart, RightsKnown DEF TakenFromAdmin, Since, TakenAway
  <2>5. /\ less["admin"] \cap GivenToAdmin(16, 2) = {}
        /\ GivenToAdmin(16, 2) \subseteq GivenToAdmin(16, 1) \cup more["admin"]
    BY <1>k, RightsApart, RightsKnown DEF GivenToAdmin, Since, TakenAway
  <2> HIDE DEF more, less
  <2> QED
    BY <2>1, <2>2, <2>3, <2>4, <2>5 DEF MovesWithin
<1>3. ASSUME uses = 0 PROVE MovesAsShipped(d, 16, 1, 2, more, less)
  <2>1. more[Everyday(d, 16, 1)] \subseteq Working \cup Retired
    BY <1>k, <1>3, RightsKnown
  <2>2. GivenToEveryday(16, 2) \subseteq GivenToEveryday(16, 1) \cup more[Everyday(d, 16, 1)]
    BY <1>k, <1>3 DEF GivenToEveryday, Since
  <2>3. less[Everyday(d, 16, 1)] \cap Working = {}
    BY <1>k, <1>3, RightsApart, RightsKnown
  <2>4. ASSUME NEW r \in Combined(d, 16, 1)
        PROVE  /\ more[r] \subseteq Working \cup Administering \cup Retired
               /\ less[r] \cap (Working \cup Administering) = {}
    BY <1>k, <1>3, RightsApart, RightsKnown
  <2> HIDE DEF more, less
  <2> QED
    BY <2>1, <2>2, <2>3, <2>4 DEF MovesAsShipped
<1> HIDE DEF more, less
<1>4. OtherPlace(16, 1)
  BY DEF OtherPlace
<1> QED
  BY <1>1, <1>2, <1>3, <1>4, RightsStatement DEF e

\* Migration 18: working times are their owners' own.
LEMMA NobodySetsForOthers ==
  ASSUME NEW uses, NEW d, Facts(d, 17, 1, uses)
  PROVE  Facts(Effect(d, Withdraw({"settings:write:other"})), 17, 2, uses)
<1> DEFINE e == Effect(d, Withdraw({"settings:write:other"}))
           more == [r \in DOMAIN d.roles |-> {}]
           less == [r \in DOMAIN d.roles |-> {"settings:write:other"}]
<1>k. /\ "admin" \in DOMAIN d.roles
      /\ uses = 0 => /\ Everyday(d, 17, 1) \in DOMAIN d.roles
                     /\ Everyday(d, 17, 1) \notin {"admin", "manager", "user-admin"}
                     /\ Combined(d, 17, 1) \subseteq DOMAIN d.roles \cap {"user-admin"}
  <2>1. 17 \in 3 .. 49 /\ 1 \in Nat
    OBVIOUS
  <2> HIDE DEF e, more, less
  <2> QED
    BY <2>1, RolesKnown
<1>1. SameBesides(e, d) /\ Moved(e, d, more, less)
  <2>1. SameBesides(e, d)
    BY WithdrawLeaves DEF Facts
  <2>2. e.roles = [r \in DOMAIN d.roles |-> d.roles[r] \ {"settings:write:other"}]
    BY WithdrawLeaves DEF Facts
  <2> HIDE DEF e
  <2>3. e.roles = [r \in DOMAIN d.roles |-> e.roles[r]]
    BY <2>2
  <2>4. \A r \in DOMAIN d.roles : e.roles[r] = (d.roles[r] \cup more[r]) \ less[r]
    BY <2>2
  <2> QED
    BY <2>1, <2>3, <2>4 DEF Moved
<1> HIDE DEF e
<1>2. MovesWithin(d, 17, 1, 2, more, less)
  <2>1. ASSUME NEW r \in DOMAIN d.roles
        PROVE  more[r] \subseteq AllRights /\ more[r] \cap Team = {}
    BY RightsApart, RightsKnown DEF AllRights
  <2>2. ASSUME NEW r \in DOMAIN d.roles PROVE more[r] \cap RetiredBy(17, 2) = {}
    BY RightsApart, RightsKnown DEF RetiredBy, Since
  <2>3. ASSUME NEW r \in DOMAIN d.roles PROVE RetiredBy(17, 2) \subseteq RetiredBy(17, 1) \cup less[r]
    BY DEF RetiredBy, Since
  <2>4. /\ more["admin"] \cap TakenFromAdmin(17, 2) = {}
        /\ TakenFromAdmin(17, 2) \subseteq TakenFromAdmin(17, 1) \cup less["admin"]
    BY <1>k, RightsApart, RightsKnown DEF TakenFromAdmin, Since, TakenAway
  <2>5. /\ less["admin"] \cap GivenToAdmin(17, 2) = {}
        /\ GivenToAdmin(17, 2) \subseteq GivenToAdmin(17, 1) \cup more["admin"]
    BY <1>k, RightsApart, RightsKnown DEF GivenToAdmin, Since, TakenAway
  <2> HIDE DEF more, less
  <2> QED
    BY <2>1, <2>2, <2>3, <2>4, <2>5 DEF MovesWithin
<1>3. ASSUME uses = 0 PROVE MovesAsShipped(d, 17, 1, 2, more, less)
  <2>1. more[Everyday(d, 17, 1)] \subseteq Working \cup Retired
    BY <1>k, <1>3, RightsKnown
  <2>2. GivenToEveryday(17, 2) \subseteq GivenToEveryday(17, 1) \cup more[Everyday(d, 17, 1)]
    BY <1>k, <1>3 DEF GivenToEveryday, Since
  <2>3. less[Everyday(d, 17, 1)] \cap Working = {}
    BY <1>k, <1>3, RightsApart, RightsKnown
  <2>4. ASSUME NEW r \in Combined(d, 17, 1)
        PROVE  /\ more[r] \subseteq Working \cup Administering \cup Retired
               /\ less[r] \cap (Working \cup Administering) = {}
    BY <1>k, <1>3, RightsApart, RightsKnown
  <2> HIDE DEF more, less
  <2> QED
    BY <2>1, <2>2, <2>3, <2>4 DEF MovesAsShipped
<1> HIDE DEF more, less
<1>4. OtherPlace(17, 1)
  BY DEF OtherPlace
<1> QED
  BY <1>1, <1>2, <1>3, <1>4, RightsStatement DEF e

\* Migration 19: whoever kept projects of their own keeps projects.
LEMMA ProjectRightsFollow ==
  ASSUME NEW uses, NEW d, Facts(d, 18, 2, uses)
  PROVE  Facts(Effect(d, GrantHolding("projects:write:own", {"projects:write", "projects:archive", "projects:delete"})), 18, 3, uses)
<1> DEFINE e == Effect(d, GrantHolding("projects:write:own", {"projects:write", "projects:archive", "projects:delete"}))
           more == [r \in DOMAIN d.roles |-> IF "projects:write:own" \in d.roles[r] THEN {"projects:write", "projects:archive", "projects:delete"} ELSE {}]
           less == [r \in DOMAIN d.roles |-> {}]
<1>k. /\ "admin" \in DOMAIN d.roles
      /\ uses = 0 => /\ Everyday(d, 18, 2) \in DOMAIN d.roles
                     /\ Everyday(d, 18, 2) \notin {"admin", "manager", "user-admin"}
                     /\ Combined(d, 18, 2) \subseteq DOMAIN d.roles \cap {"user-admin"}
  <2>1. 18 \in 3 .. 49 /\ 2 \in Nat
    OBVIOUS
  <2> HIDE DEF e, more, less
  <2> QED
    BY <2>1, RolesKnown
<1>1. SameBesides(e, d) /\ Moved(e, d, more, less)
  <2>1. SameBesides(e, d)
    BY GrantsLeave DEF Facts
  <2>2. e.roles = [r \in DOMAIN d.roles |-> IF "projects:write:own" \in d.roles[r] THEN d.roles[r] \cup {"projects:write", "projects:archive", "projects:delete"} ELSE d.roles[r]]
    BY GrantsLeave DEF Facts
  <2> HIDE DEF e
  <2>3. e.roles = [r \in DOMAIN d.roles |-> e.roles[r]]
    BY <2>2
  <2>4. \A r \in DOMAIN d.roles : e.roles[r] = (d.roles[r] \cup more[r]) \ less[r]
    BY <2>2
  <2> QED
    BY <2>1, <2>3, <2>4 DEF Moved
<1> HIDE DEF e
<1>2. MovesWithin(d, 18, 2, 3, more, less)
  <2>1. ASSUME NEW r \in DOMAIN d.roles
        PROVE  more[r] \subseteq AllRights /\ more[r] \cap Team = {}
    BY RightsApart, RightsKnown DEF AllRights
  <2>2. ASSUME NEW r \in DOMAIN d.roles PROVE more[r] \cap RetiredBy(18, 3) = {}
    BY RightsApart, RightsKnown DEF RetiredBy, Since
  <2>3. ASSUME NEW r \in DOMAIN d.roles PROVE RetiredBy(18, 3) \subseteq RetiredBy(18, 2) \cup less[r]
    BY DEF RetiredBy, Since
  <2>4. /\ more["admin"] \cap TakenFromAdmin(18, 3) = {}
        /\ TakenFromAdmin(18, 3) \subseteq TakenFromAdmin(18, 2) \cup less["admin"]
    BY <1>k, RightsApart, RightsKnown DEF TakenFromAdmin, Since, TakenAway
  <2>5. /\ less["admin"] \cap GivenToAdmin(18, 3) = {}
        /\ GivenToAdmin(18, 3) \subseteq GivenToAdmin(18, 2) \cup more["admin"]
    BY <1>k, RightsApart, RightsKnown DEF GivenToAdmin, Since, TakenAway
  <2> HIDE DEF more, less
  <2> QED
    BY <2>1, <2>2, <2>3, <2>4, <2>5 DEF MovesWithin
<1>3. ASSUME uses = 0 PROVE MovesAsShipped(d, 18, 2, 3, more, less)
  <2>1. more[Everyday(d, 18, 2)] \subseteq Working \cup Retired
    BY <1>k, <1>3, RightsKnown
  <2>2. GivenToEveryday(18, 3) \subseteq GivenToEveryday(18, 2) \cup more[Everyday(d, 18, 2)]
    BY <1>k, <1>3 DEF GivenToEveryday, Since
  <2>3. less[Everyday(d, 18, 2)] \cap Working = {}
    BY <1>k, <1>3, RightsApart, RightsKnown
  <2>4. ASSUME NEW r \in Combined(d, 18, 2)
        PROVE  /\ more[r] \subseteq Working \cup Administering \cup Retired
               /\ less[r] \cap (Working \cup Administering) = {}
    BY <1>k, <1>3, RightsApart, RightsKnown
  <2> HIDE DEF more, less
  <2> QED
    BY <2>1, <2>2, <2>3, <2>4 DEF MovesAsShipped
<1> HIDE DEF more, less
<1>4. OtherPlace(18, 2)
  BY DEF OtherPlace
<1> QED
  BY <1>1, <1>2, <1>3, <1>4, RightsStatement DEF e

\* Migration 19: and the right to one's own is retired.
LEMMA OwnProjectsAreProjects ==
  ASSUME NEW uses, NEW d, Facts(d, 18, 3, uses)
  PROVE  Facts(Effect(d, Withdraw({"projects:write:own"})), 18, 4, uses)
<1> DEFINE e == Effect(d, Withdraw({"projects:write:own"}))
           more == [r \in DOMAIN d.roles |-> {}]
           less == [r \in DOMAIN d.roles |-> {"projects:write:own"}]
<1>k. /\ "admin" \in DOMAIN d.roles
      /\ uses = 0 => /\ Everyday(d, 18, 3) \in DOMAIN d.roles
                     /\ Everyday(d, 18, 3) \notin {"admin", "manager", "user-admin"}
                     /\ Combined(d, 18, 3) \subseteq DOMAIN d.roles \cap {"user-admin"}
  <2>1. 18 \in 3 .. 49 /\ 3 \in Nat
    OBVIOUS
  <2> HIDE DEF e, more, less
  <2> QED
    BY <2>1, RolesKnown
<1>1. SameBesides(e, d) /\ Moved(e, d, more, less)
  <2>1. SameBesides(e, d)
    BY WithdrawLeaves DEF Facts
  <2>2. e.roles = [r \in DOMAIN d.roles |-> d.roles[r] \ {"projects:write:own"}]
    BY WithdrawLeaves DEF Facts
  <2> HIDE DEF e
  <2>3. e.roles = [r \in DOMAIN d.roles |-> e.roles[r]]
    BY <2>2
  <2>4. \A r \in DOMAIN d.roles : e.roles[r] = (d.roles[r] \cup more[r]) \ less[r]
    BY <2>2
  <2> QED
    BY <2>1, <2>3, <2>4 DEF Moved
<1> HIDE DEF e
<1>2. MovesWithin(d, 18, 3, 4, more, less)
  <2>1. ASSUME NEW r \in DOMAIN d.roles
        PROVE  more[r] \subseteq AllRights /\ more[r] \cap Team = {}
    BY RightsApart, RightsKnown DEF AllRights
  <2>2. ASSUME NEW r \in DOMAIN d.roles PROVE more[r] \cap RetiredBy(18, 4) = {}
    BY RightsApart, RightsKnown DEF RetiredBy, Since
  <2>3. ASSUME NEW r \in DOMAIN d.roles PROVE RetiredBy(18, 4) \subseteq RetiredBy(18, 3) \cup less[r]
    BY DEF RetiredBy, Since
  <2>4. /\ more["admin"] \cap TakenFromAdmin(18, 4) = {}
        /\ TakenFromAdmin(18, 4) \subseteq TakenFromAdmin(18, 3) \cup less["admin"]
    BY <1>k, RightsApart, RightsKnown DEF TakenFromAdmin, Since, TakenAway
  <2>5. /\ less["admin"] \cap GivenToAdmin(18, 4) = {}
        /\ GivenToAdmin(18, 4) \subseteq GivenToAdmin(18, 3) \cup more["admin"]
    BY <1>k, RightsApart, RightsKnown DEF GivenToAdmin, Since, TakenAway
  <2> HIDE DEF more, less
  <2> QED
    BY <2>1, <2>2, <2>3, <2>4, <2>5 DEF MovesWithin
<1>3. ASSUME uses = 0 PROVE MovesAsShipped(d, 18, 3, 4, more, less)
  <2>1. more[Everyday(d, 18, 3)] \subseteq Working \cup Retired
    BY <1>k, <1>3, RightsKnown
  <2>2. GivenToEveryday(18, 4) \subseteq GivenToEveryday(18, 3) \cup more[Everyday(d, 18, 3)]
    BY <1>k, <1>3 DEF GivenToEveryday, Since
  <2>3. less[Everyday(d, 18, 3)] \cap Working = {}
    BY <1>k, <1>3, RightsApart, RightsKnown
  <2>4. ASSUME NEW r \in Combined(d, 18, 3)
        PROVE  /\ more[r] \subseteq Working \cup Administering \cup Retired
               /\ less[r] \cap (Working \cup Administering) = {}
    BY <1>k, <1>3, RightsApart, RightsKnown
  <2> HIDE DEF more, less
  <2> QED
    BY <2>1, <2>2, <2>3, <2>4 DEF MovesAsShipped
<1> HIDE DEF more, less
<1>4. OtherPlace(18, 3)
  BY DEF OtherPlace
<1> QED
  BY <1>1, <1>2, <1>3, <1>4, RightsStatement DEF e

\* Migration 20: the administrator is left with administering.
LEMMA AdministratorOnlyAdministers ==
  ASSUME NEW uses, NEW d, Facts(d, 19, 2, uses)
  PROVE  Facts(Effect(d, Revoke("admin", Working \ {"timesheets:transfer"})), 19, 3, uses)
<1> DEFINE e == Effect(d, Revoke("admin", Working \ {"timesheets:transfer"}))
           more == [r \in DOMAIN d.roles |-> {}]
           less == [r \in DOMAIN d.roles |-> IF r = "admin" THEN Working \ {"timesheets:transfer"} ELSE {}]
<1>k. /\ "admin" \in DOMAIN d.roles
      /\ uses = 0 => /\ Everyday(d, 19, 2) \in DOMAIN d.roles
                     /\ Everyday(d, 19, 2) \notin {"admin", "manager", "user-admin"}
                     /\ Combined(d, 19, 2) \subseteq DOMAIN d.roles \cap {"user-admin"}
  <2>1. 19 \in 3 .. 49 /\ 2 \in Nat
    OBVIOUS
  <2> HIDE DEF e, more, less
  <2> QED
    BY <2>1, RolesKnown
<1>1. SameBesides(e, d) /\ Moved(e, d, more, less)
  <2>1. SameBesides(e, d)
    BY RevokeLeaves DEF Facts
  <2>2. e.roles = [r \in DOMAIN d.roles |-> IF r = "admin" THEN d.roles[r] \ (Working \ {"timesheets:transfer"}) ELSE d.roles[r]]
    BY RevokeLeaves DEF Facts
  <2> HIDE DEF e
  <2>3. e.roles = [r \in DOMAIN d.roles |-> e.roles[r]]
    BY <2>2
  <2>4. \A r \in DOMAIN d.roles : e.roles[r] = (d.roles[r] \cup more[r]) \ less[r]
    BY <2>2
  <2> QED
    BY <2>1, <2>3, <2>4 DEF Moved
<1> HIDE DEF e
<1>2. MovesWithin(d, 19, 2, 3, more, less)
  <2>1. ASSUME NEW r \in DOMAIN d.roles
        PROVE  more[r] \subseteq AllRights /\ more[r] \cap Team = {}
    BY RightsApart, RightsKnown DEF AllRights
  <2>2. ASSUME NEW r \in DOMAIN d.roles PROVE more[r] \cap RetiredBy(19, 3) = {}
    BY RightsApart, RightsKnown DEF RetiredBy, Since
  <2>3. ASSUME NEW r \in DOMAIN d.roles PROVE RetiredBy(19, 3) \subseteq RetiredBy(19, 2) \cup less[r]
    BY DEF RetiredBy, Since
  <2>4. /\ more["admin"] \cap TakenFromAdmin(19, 3) = {}
        /\ TakenFromAdmin(19, 3) \subseteq TakenFromAdmin(19, 2) \cup less["admin"]
    BY <1>k, RightsApart, RightsKnown DEF TakenFromAdmin, Since, TakenAway
  <2>5. /\ less["admin"] \cap GivenToAdmin(19, 3) = {}
        /\ GivenToAdmin(19, 3) \subseteq GivenToAdmin(19, 2) \cup more["admin"]
    BY <1>k, RightsApart, RightsKnown DEF GivenToAdmin, Since, TakenAway
  <2> HIDE DEF more, less
  <2> QED
    BY <2>1, <2>2, <2>3, <2>4, <2>5 DEF MovesWithin
<1>3. ASSUME uses = 0 PROVE MovesAsShipped(d, 19, 2, 3, more, less)
  <2>1. more[Everyday(d, 19, 2)] \subseteq Working \cup Retired
    BY <1>k, <1>3, RightsKnown
  <2>2. GivenToEveryday(19, 3) \subseteq GivenToEveryday(19, 2) \cup more[Everyday(d, 19, 2)]
    BY <1>k, <1>3 DEF GivenToEveryday, Since
  <2>3. less[Everyday(d, 19, 2)] \cap Working = {}
    BY <1>k, <1>3, RightsApart, RightsKnown
  <2>4. ASSUME NEW r \in Combined(d, 19, 2)
        PROVE  /\ more[r] \subseteq Working \cup Administering \cup Retired
               /\ less[r] \cap (Working \cup Administering) = {}
    BY <1>k, <1>3, RightsApart, RightsKnown
  <2> HIDE DEF more, less
  <2> QED
    BY <2>1, <2>2, <2>3, <2>4 DEF MovesAsShipped
<1> HIDE DEF more, less
<1>4. OtherPlace(19, 2)
  BY DEF OtherPlace
<1> QED
  BY <1>1, <1>2, <1>3, <1>4, RightsStatement DEF e

\* Migration 21: whoever read everybody's time reads their own.
LEMMA ReadersReadTheirOwn ==
  ASSUME NEW uses, NEW d, Facts(d, 20, 1, uses)
  PROVE  Facts(Effect(d, GrantHolding("timesheets:read:all", {"timesheets:read:own"})), 20, 2, uses)
<1> DEFINE e == Effect(d, GrantHolding("timesheets:read:all", {"timesheets:read:own"}))
           more == [r \in DOMAIN d.roles |-> IF "timesheets:read:all" \in d.roles[r] THEN {"timesheets:read:own"} ELSE {}]
           less == [r \in DOMAIN d.roles |-> {}]
<1>k. /\ "admin" \in DOMAIN d.roles
      /\ uses = 0 => /\ Everyday(d, 20, 1) \in DOMAIN d.roles
                     /\ Everyday(d, 20, 1) \notin {"admin", "manager", "user-admin"}
                     /\ Combined(d, 20, 1) \subseteq DOMAIN d.roles \cap {"user-admin"}
  <2>1. 20 \in 3 .. 49 /\ 1 \in Nat
    OBVIOUS
  <2> HIDE DEF e, more, less
  <2> QED
    BY <2>1, RolesKnown
<1>1. SameBesides(e, d) /\ Moved(e, d, more, less)
  <2>1. SameBesides(e, d)
    BY GrantsLeave DEF Facts
  <2>2. e.roles = [r \in DOMAIN d.roles |-> IF "timesheets:read:all" \in d.roles[r] THEN d.roles[r] \cup {"timesheets:read:own"} ELSE d.roles[r]]
    BY GrantsLeave DEF Facts
  <2> HIDE DEF e
  <2>3. e.roles = [r \in DOMAIN d.roles |-> e.roles[r]]
    BY <2>2
  <2>4. \A r \in DOMAIN d.roles : e.roles[r] = (d.roles[r] \cup more[r]) \ less[r]
    BY <2>2
  <2> QED
    BY <2>1, <2>3, <2>4 DEF Moved
<1>t. "timesheets:read:all" \notin d.roles["admin"]
  BY <1>k DEF Facts, RightsStand, TakenFromAdmin, Since
<1> HIDE DEF e
<1>2. MovesWithin(d, 20, 1, 2, more, less)
  <2>1. ASSUME NEW r \in DOMAIN d.roles
        PROVE  more[r] \subseteq AllRights /\ more[r] \cap Team = {}
    BY RightsApart, RightsKnown DEF AllRights
  <2>2. ASSUME NEW r \in DOMAIN d.roles PROVE more[r] \cap RetiredBy(20, 2) = {}
    BY RightsApart, RightsKnown DEF RetiredBy, Since
  <2>3. ASSUME NEW r \in DOMAIN d.roles PROVE RetiredBy(20, 2) \subseteq RetiredBy(20, 1) \cup less[r]
    BY DEF RetiredBy, Since
  <2>4. /\ more["admin"] \cap TakenFromAdmin(20, 2) = {}
        /\ TakenFromAdmin(20, 2) \subseteq TakenFromAdmin(20, 1) \cup less["admin"]
    BY <1>k, RightsApart, RightsKnown, <1>t DEF TakenFromAdmin, Since, TakenAway
  <2>5. /\ less["admin"] \cap GivenToAdmin(20, 2) = {}
        /\ GivenToAdmin(20, 2) \subseteq GivenToAdmin(20, 1) \cup more["admin"]
    BY <1>k, RightsApart, RightsKnown, <1>t DEF GivenToAdmin, Since, TakenAway
  <2> HIDE DEF more, less
  <2> QED
    BY <2>1, <2>2, <2>3, <2>4, <2>5 DEF MovesWithin
<1>3. ASSUME uses = 0 PROVE MovesAsShipped(d, 20, 1, 2, more, less)
  <2>1. more[Everyday(d, 20, 1)] \subseteq Working \cup Retired
    BY <1>k, <1>3, RightsKnown
  <2>2. GivenToEveryday(20, 2) \subseteq GivenToEveryday(20, 1) \cup more[Everyday(d, 20, 1)]
    BY <1>k, <1>3 DEF GivenToEveryday, Since
  <2>3. less[Everyday(d, 20, 1)] \cap Working = {}
    BY <1>k, <1>3, RightsApart, RightsKnown
  <2>4. ASSUME NEW r \in Combined(d, 20, 1)
        PROVE  /\ more[r] \subseteq Working \cup Administering \cup Retired
               /\ less[r] \cap (Working \cup Administering) = {}
    BY <1>k, <1>3, RightsApart, RightsKnown
  <2> HIDE DEF more, less
  <2> QED
    BY <2>1, <2>2, <2>3, <2>4 DEF MovesAsShipped
<1> HIDE DEF more, less
<1>4. OtherPlace(20, 1)
  BY DEF OtherPlace
<1> QED
  BY <1>1, <1>2, <1>3, <1>4, RightsStatement DEF e

\* Migration 21: and nobody everybody's.
LEMMA NobodyReadsEverybodys ==
  ASSUME NEW uses, NEW d, Facts(d, 20, 2, uses)
  PROVE  Facts(Effect(d, Withdraw({"timesheets:read:all"})), 20, 3, uses)
<1> DEFINE e == Effect(d, Withdraw({"timesheets:read:all"}))
           more == [r \in DOMAIN d.roles |-> {}]
           less == [r \in DOMAIN d.roles |-> {"timesheets:read:all"}]
<1>k. /\ "admin" \in DOMAIN d.roles
      /\ uses = 0 => /\ Everyday(d, 20, 2) \in DOMAIN d.roles
                     /\ Everyday(d, 20, 2) \notin {"admin", "manager", "user-admin"}
                     /\ Combined(d, 20, 2) \subseteq DOMAIN d.roles \cap {"user-admin"}
  <2>1. 20 \in 3 .. 49 /\ 2 \in Nat
    OBVIOUS
  <2> HIDE DEF e, more, less
  <2> QED
    BY <2>1, RolesKnown
<1>1. SameBesides(e, d) /\ Moved(e, d, more, less)
  <2>1. SameBesides(e, d)
    BY WithdrawLeaves DEF Facts
  <2>2. e.roles = [r \in DOMAIN d.roles |-> d.roles[r] \ {"timesheets:read:all"}]
    BY WithdrawLeaves DEF Facts
  <2> HIDE DEF e
  <2>3. e.roles = [r \in DOMAIN d.roles |-> e.roles[r]]
    BY <2>2
  <2>4. \A r \in DOMAIN d.roles : e.roles[r] = (d.roles[r] \cup more[r]) \ less[r]
    BY <2>2
  <2> QED
    BY <2>1, <2>3, <2>4 DEF Moved
<1> HIDE DEF e
<1>2. MovesWithin(d, 20, 2, 3, more, less)
  <2>1. ASSUME NEW r \in DOMAIN d.roles
        PROVE  more[r] \subseteq AllRights /\ more[r] \cap Team = {}
    BY RightsApart, RightsKnown DEF AllRights
  <2>2. ASSUME NEW r \in DOMAIN d.roles PROVE more[r] \cap RetiredBy(20, 3) = {}
    BY RightsApart, RightsKnown DEF RetiredBy, Since
  <2>3. ASSUME NEW r \in DOMAIN d.roles PROVE RetiredBy(20, 3) \subseteq RetiredBy(20, 2) \cup less[r]
    BY DEF RetiredBy, Since
  <2>4. /\ more["admin"] \cap TakenFromAdmin(20, 3) = {}
        /\ TakenFromAdmin(20, 3) \subseteq TakenFromAdmin(20, 2) \cup less["admin"]
    BY <1>k, RightsApart, RightsKnown DEF TakenFromAdmin, Since, TakenAway
  <2>5. /\ less["admin"] \cap GivenToAdmin(20, 3) = {}
        /\ GivenToAdmin(20, 3) \subseteq GivenToAdmin(20, 2) \cup more["admin"]
    BY <1>k, RightsApart, RightsKnown DEF GivenToAdmin, Since, TakenAway
  <2> HIDE DEF more, less
  <2> QED
    BY <2>1, <2>2, <2>3, <2>4, <2>5 DEF MovesWithin
<1>3. ASSUME uses = 0 PROVE MovesAsShipped(d, 20, 2, 3, more, less)
  <2>1. more[Everyday(d, 20, 2)] \subseteq Working \cup Retired
    BY <1>k, <1>3, RightsKnown
  <2>2. GivenToEveryday(20, 3) \subseteq GivenToEveryday(20, 2) \cup more[Everyday(d, 20, 2)]
    BY <1>k, <1>3 DEF GivenToEveryday, Since
  <2>3. less[Everyday(d, 20, 2)] \cap Working = {}
    BY <1>k, <1>3, RightsApart, RightsKnown
  <2>4. ASSUME NEW r \in Combined(d, 20, 2)
        PROVE  /\ more[r] \subseteq Working \cup Administering \cup Retired
               /\ less[r] \cap (Working \cup Administering) = {}
    BY <1>k, <1>3, RightsApart, RightsKnown
  <2> HIDE DEF more, less
  <2> QED
    BY <2>1, <2>2, <2>3, <2>4 DEF MovesAsShipped
<1> HIDE DEF more, less
<1>4. OtherPlace(20, 2)
  BY DEF OtherPlace
<1> QED
  BY <1>1, <1>2, <1>3, <1>4, RightsStatement DEF e

\* Migration 21: whoever wrote everybody's time writes their own.
LEMMA WritersWriteTheirOwn ==
  ASSUME NEW uses, NEW d, Facts(d, 20, 3, uses)
  PROVE  Facts(Effect(d, GrantHolding("timesheets:write:all", {"timesheets:write:own"})), 20, 4, uses)
<1> DEFINE e == Effect(d, GrantHolding("timesheets:write:all", {"timesheets:write:own"}))
           more == [r \in DOMAIN d.roles |-> IF "timesheets:write:all" \in d.roles[r] THEN {"timesheets:write:own"} ELSE {}]
           less == [r \in DOMAIN d.roles |-> {}]
<1>k. /\ "admin" \in DOMAIN d.roles
      /\ uses = 0 => /\ Everyday(d, 20, 3) \in DOMAIN d.roles
                     /\ Everyday(d, 20, 3) \notin {"admin", "manager", "user-admin"}
                     /\ Combined(d, 20, 3) \subseteq DOMAIN d.roles \cap {"user-admin"}
  <2>1. 20 \in 3 .. 49 /\ 3 \in Nat
    OBVIOUS
  <2> HIDE DEF e, more, less
  <2> QED
    BY <2>1, RolesKnown
<1>1. SameBesides(e, d) /\ Moved(e, d, more, less)
  <2>1. SameBesides(e, d)
    BY GrantsLeave DEF Facts
  <2>2. e.roles = [r \in DOMAIN d.roles |-> IF "timesheets:write:all" \in d.roles[r] THEN d.roles[r] \cup {"timesheets:write:own"} ELSE d.roles[r]]
    BY GrantsLeave DEF Facts
  <2> HIDE DEF e
  <2>3. e.roles = [r \in DOMAIN d.roles |-> e.roles[r]]
    BY <2>2
  <2>4. \A r \in DOMAIN d.roles : e.roles[r] = (d.roles[r] \cup more[r]) \ less[r]
    BY <2>2
  <2> QED
    BY <2>1, <2>3, <2>4 DEF Moved
<1>t. "timesheets:write:all" \notin d.roles["admin"]
  BY <1>k DEF Facts, RightsStand, TakenFromAdmin, Since
<1> HIDE DEF e
<1>2. MovesWithin(d, 20, 3, 4, more, less)
  <2>1. ASSUME NEW r \in DOMAIN d.roles
        PROVE  more[r] \subseteq AllRights /\ more[r] \cap Team = {}
    BY RightsApart, RightsKnown DEF AllRights
  <2>2. ASSUME NEW r \in DOMAIN d.roles PROVE more[r] \cap RetiredBy(20, 4) = {}
    BY RightsApart, RightsKnown DEF RetiredBy, Since
  <2>3. ASSUME NEW r \in DOMAIN d.roles PROVE RetiredBy(20, 4) \subseteq RetiredBy(20, 3) \cup less[r]
    BY DEF RetiredBy, Since
  <2>4. /\ more["admin"] \cap TakenFromAdmin(20, 4) = {}
        /\ TakenFromAdmin(20, 4) \subseteq TakenFromAdmin(20, 3) \cup less["admin"]
    BY <1>k, RightsApart, RightsKnown, <1>t DEF TakenFromAdmin, Since, TakenAway
  <2>5. /\ less["admin"] \cap GivenToAdmin(20, 4) = {}
        /\ GivenToAdmin(20, 4) \subseteq GivenToAdmin(20, 3) \cup more["admin"]
    BY <1>k, RightsApart, RightsKnown, <1>t DEF GivenToAdmin, Since, TakenAway
  <2> HIDE DEF more, less
  <2> QED
    BY <2>1, <2>2, <2>3, <2>4, <2>5 DEF MovesWithin
<1>3. ASSUME uses = 0 PROVE MovesAsShipped(d, 20, 3, 4, more, less)
  <2>1. more[Everyday(d, 20, 3)] \subseteq Working \cup Retired
    BY <1>k, <1>3, RightsKnown
  <2>2. GivenToEveryday(20, 4) \subseteq GivenToEveryday(20, 3) \cup more[Everyday(d, 20, 3)]
    BY <1>k, <1>3 DEF GivenToEveryday, Since
  <2>3. less[Everyday(d, 20, 3)] \cap Working = {}
    BY <1>k, <1>3, RightsApart, RightsKnown
  <2>4. ASSUME NEW r \in Combined(d, 20, 3)
        PROVE  /\ more[r] \subseteq Working \cup Administering \cup Retired
               /\ less[r] \cap (Working \cup Administering) = {}
    BY <1>k, <1>3, RightsApart, RightsKnown
  <2> HIDE DEF more, less
  <2> QED
    BY <2>1, <2>2, <2>3, <2>4 DEF MovesAsShipped
<1> HIDE DEF more, less
<1>4. OtherPlace(20, 3)
  BY DEF OtherPlace
<1> QED
  BY <1>1, <1>2, <1>3, <1>4, RightsStatement DEF e

\* Migration 21: and nobody everybody's.
LEMMA NobodyWritesEverybodys ==
  ASSUME NEW uses, NEW d, Facts(d, 20, 4, uses)
  PROVE  Facts(Effect(d, Withdraw({"timesheets:write:all"})), 20, 5, uses)
<1> DEFINE e == Effect(d, Withdraw({"timesheets:write:all"}))
           more == [r \in DOMAIN d.roles |-> {}]
           less == [r \in DOMAIN d.roles |-> {"timesheets:write:all"}]
<1>k. /\ "admin" \in DOMAIN d.roles
      /\ uses = 0 => /\ Everyday(d, 20, 4) \in DOMAIN d.roles
                     /\ Everyday(d, 20, 4) \notin {"admin", "manager", "user-admin"}
                     /\ Combined(d, 20, 4) \subseteq DOMAIN d.roles \cap {"user-admin"}
  <2>1. 20 \in 3 .. 49 /\ 4 \in Nat
    OBVIOUS
  <2> HIDE DEF e, more, less
  <2> QED
    BY <2>1, RolesKnown
<1>1. SameBesides(e, d) /\ Moved(e, d, more, less)
  <2>1. SameBesides(e, d)
    BY WithdrawLeaves DEF Facts
  <2>2. e.roles = [r \in DOMAIN d.roles |-> d.roles[r] \ {"timesheets:write:all"}]
    BY WithdrawLeaves DEF Facts
  <2> HIDE DEF e
  <2>3. e.roles = [r \in DOMAIN d.roles |-> e.roles[r]]
    BY <2>2
  <2>4. \A r \in DOMAIN d.roles : e.roles[r] = (d.roles[r] \cup more[r]) \ less[r]
    BY <2>2
  <2> QED
    BY <2>1, <2>3, <2>4 DEF Moved
<1> HIDE DEF e
<1>2. MovesWithin(d, 20, 4, 5, more, less)
  <2>1. ASSUME NEW r \in DOMAIN d.roles
        PROVE  more[r] \subseteq AllRights /\ more[r] \cap Team = {}
    BY RightsApart, RightsKnown DEF AllRights
  <2>2. ASSUME NEW r \in DOMAIN d.roles PROVE more[r] \cap RetiredBy(20, 5) = {}
    BY RightsApart, RightsKnown DEF RetiredBy, Since
  <2>3. ASSUME NEW r \in DOMAIN d.roles PROVE RetiredBy(20, 5) \subseteq RetiredBy(20, 4) \cup less[r]
    BY DEF RetiredBy, Since
  <2>4. /\ more["admin"] \cap TakenFromAdmin(20, 5) = {}
        /\ TakenFromAdmin(20, 5) \subseteq TakenFromAdmin(20, 4) \cup less["admin"]
    BY <1>k, RightsApart, RightsKnown DEF TakenFromAdmin, Since, TakenAway
  <2>5. /\ less["admin"] \cap GivenToAdmin(20, 5) = {}
        /\ GivenToAdmin(20, 5) \subseteq GivenToAdmin(20, 4) \cup more["admin"]
    BY <1>k, RightsApart, RightsKnown DEF GivenToAdmin, Since, TakenAway
  <2> HIDE DEF more, less
  <2> QED
    BY <2>1, <2>2, <2>3, <2>4, <2>5 DEF MovesWithin
<1>3. ASSUME uses = 0 PROVE MovesAsShipped(d, 20, 4, 5, more, less)
  <2>1. more[Everyday(d, 20, 4)] \subseteq Working \cup Retired
    BY <1>k, <1>3, RightsKnown
  <2>2. GivenToEveryday(20, 5) \subseteq GivenToEveryday(20, 4) \cup more[Everyday(d, 20, 4)]
    BY <1>k, <1>3 DEF GivenToEveryday, Since
  <2>3. less[Everyday(d, 20, 4)] \cap Working = {}
    BY <1>k, <1>3, RightsApart, RightsKnown
  <2>4. ASSUME NEW r \in Combined(d, 20, 4)
        PROVE  /\ more[r] \subseteq Working \cup Administering \cup Retired
               /\ less[r] \cap (Working \cup Administering) = {}
    BY <1>k, <1>3, RightsApart, RightsKnown
  <2> HIDE DEF more, less
  <2> QED
    BY <2>1, <2>2, <2>3, <2>4 DEF MovesAsShipped
<1> HIDE DEF more, less
<1>4. OtherPlace(20, 4)
  BY DEF OtherPlace
<1> QED
  BY <1>1, <1>2, <1>3, <1>4, RightsStatement DEF e

\* Migration 23: whoever keeps accounts reaches the settings.
LEMMA AdministratorsReachTheSettings ==
  ASSUME NEW uses, NEW d, Facts(d, 22, 1, uses)
  PROVE  Facts(Effect(d, GrantHolding("users:write", {"settings:manage"})), 22, 2, uses)
<1> DEFINE e == Effect(d, GrantHolding("users:write", {"settings:manage"}))
           more == [r \in DOMAIN d.roles |-> IF "users:write" \in d.roles[r] THEN {"settings:manage"} ELSE {}]
           less == [r \in DOMAIN d.roles |-> {}]
<1>k. /\ "admin" \in DOMAIN d.roles
      /\ uses = 0 => /\ Everyday(d, 22, 1) \in DOMAIN d.roles
                     /\ Everyday(d, 22, 1) \notin {"admin", "manager", "user-admin"}
                     /\ Combined(d, 22, 1) \subseteq DOMAIN d.roles \cap {"user-admin"}
  <2>1. 22 \in 3 .. 49 /\ 1 \in Nat
    OBVIOUS
  <2> HIDE DEF e, more, less
  <2> QED
    BY <2>1, RolesKnown
<1>1. SameBesides(e, d) /\ Moved(e, d, more, less)
  <2>1. SameBesides(e, d)
    BY GrantsLeave DEF Facts
  <2>2. e.roles = [r \in DOMAIN d.roles |-> IF "users:write" \in d.roles[r] THEN d.roles[r] \cup {"settings:manage"} ELSE d.roles[r]]
    BY GrantsLeave DEF Facts
  <2> HIDE DEF e
  <2>3. e.roles = [r \in DOMAIN d.roles |-> e.roles[r]]
    BY <2>2
  <2>4. \A r \in DOMAIN d.roles : e.roles[r] = (d.roles[r] \cup more[r]) \ less[r]
    BY <2>2
  <2> QED
    BY <2>1, <2>3, <2>4 DEF Moved
<1>t. "users:write" \in d.roles["admin"]
  <2>1. "users:write" \in GivenToAdmin(22, 1)
    BY RightsKnown DEF GivenToAdmin
  <2> QED
    BY <2>1 DEF Facts, RightsStand, Since
<1>u. uses = 0 => "users:write" \notin d.roles[Everyday(d, 22, 1)]
  BY RightsApart, RightsKnown DEF Facts, AsShipped, Since
<1> HIDE DEF e
<1>2. MovesWithin(d, 22, 1, 2, more, less)
  <2>1. ASSUME NEW r \in DOMAIN d.roles
        PROVE  more[r] \subseteq AllRights /\ more[r] \cap Team = {}
    BY RightsApart, RightsKnown DEF AllRights
  <2>2. ASSUME NEW r \in DOMAIN d.roles PROVE more[r] \cap RetiredBy(22, 2) = {}
    BY RightsApart, RightsKnown DEF RetiredBy, Since
  <2>3. ASSUME NEW r \in DOMAIN d.roles PROVE RetiredBy(22, 2) \subseteq RetiredBy(22, 1) \cup less[r]
    BY DEF RetiredBy, Since
  <2>4. /\ more["admin"] \cap TakenFromAdmin(22, 2) = {}
        /\ TakenFromAdmin(22, 2) \subseteq TakenFromAdmin(22, 1) \cup less["admin"]
    BY <1>k, RightsApart, RightsKnown, <1>t DEF TakenFromAdmin, Since, TakenAway
  <2>5. /\ less["admin"] \cap GivenToAdmin(22, 2) = {}
        /\ GivenToAdmin(22, 2) \subseteq GivenToAdmin(22, 1) \cup more["admin"]
    BY <1>k, RightsApart, RightsKnown, <1>t DEF GivenToAdmin, Since, TakenAway
  <2> HIDE DEF more, less
  <2> QED
    BY <2>1, <2>2, <2>3, <2>4, <2>5 DEF MovesWithin
<1>3. ASSUME uses = 0 PROVE MovesAsShipped(d, 22, 1, 2, more, less)
  <2>1. more[Everyday(d, 22, 1)] \subseteq Working \cup Retired
    BY <1>k, <1>3, RightsKnown, <1>u
  <2>2. GivenToEveryday(22, 2) \subseteq GivenToEveryday(22, 1) \cup more[Everyday(d, 22, 1)]
    BY <1>k, <1>3 DEF GivenToEveryday, Since
  <2>3. less[Everyday(d, 22, 1)] \cap Working = {}
    BY <1>k, <1>3, RightsApart, RightsKnown
  <2>4. ASSUME NEW r \in Combined(d, 22, 1)
        PROVE  /\ more[r] \subseteq Working \cup Administering \cup Retired
               /\ less[r] \cap (Working \cup Administering) = {}
    BY <1>k, <1>3, RightsApart, RightsKnown
  <2> HIDE DEF more, less
  <2> QED
    BY <2>1, <2>2, <2>3, <2>4 DEF MovesAsShipped
<1> HIDE DEF more, less
<1>4. OtherPlace(22, 1)
  BY DEF OtherPlace
<1> QED
  BY <1>1, <1>2, <1>3, <1>4, RightsStatement DEF e
-----------------------------------------------------------------------------
(* Statements that change roles, members or entries.                       *)

\* The entries and the projects, where a statement leaves them alone.
LEMMA EntriesStay ==
  ASSUME NEW v \in Nat, NEW p \in Nat, NEW q \in Nat, q = p + 1, NEW d, NEW e,
         e.owners = d.owners, e.entries = d.entries, e.spare = d.spare,
         ~(v = 18 /\ p = 1), dialect = "sqlite" /\ v = 4 => p \notin {2, 3, 4},
         EntriesThere(d, v, p)
  PROVE  EntriesThere(e, v, q)
<1>1. Since(v, q, 19, 1) = Since(v, p, 19, 1)
  BY DEF Since
<1>2. OwnersRight(e, v, q)
  BY <1>1 DEF EntriesThere, OwnersRight
<1>3. \A x : EntriesRight(x, d, v, p) => EntriesRight(x, e, v, q)
  BY <1>1 DEF EntriesRight
<1>4. ~Rebuilding(v, p) /\ ~Rebuilding(v, q) /\ ~(dialect = "sqlite" /\ v = 4 /\ q = 3)
  BY DEF Rebuilding
<1> QED
  BY <1>2, <1>3, <1>4 DEF EntriesThere

\* The roles and their rights, where a statement leaves them alone.
RightsPlace(v, p) ==
  /\ ~(v = 2 /\ p = 9) /\ ~(v = 13 /\ p = 1) /\ ~(v = 14 /\ p \in {1, 2, 3}) /\ ~(v = 16 /\ p = 1)
  /\ ~(v = 17 /\ p = 1) /\ ~(v = 18 /\ p = 3) /\ ~(v = 19 /\ p \in {1, 2}) /\ ~(v = 20 /\ p \in {2, 4})
  /\ ~(v = 21 /\ p = 1) /\ ~(v = 22 /\ p = 1) /\ ~(v = 50 /\ p = 1)

LEMMA SinceStays ==
  ASSUME NEW v \in Nat, NEW p \in Nat, NEW q \in Nat, q = p + 1, RightsPlace(v, p)
  PROVE  /\ Since(v, q, 3, 9) = Since(v, p, 3, 9) /\ Since(v, q, 14, 1) = Since(v, p, 14, 1)
         /\ Since(v, q, 15, 1) = Since(v, p, 15, 1) /\ Since(v, q, 15, 2) = Since(v, p, 15, 2)
         /\ Since(v, q, 15, 3) = Since(v, p, 15, 3) /\ Since(v, q, 17, 1) = Since(v, p, 17, 1)
         /\ Since(v, q, 18, 1) = Since(v, p, 18, 1) /\ Since(v, q, 19, 3) = Since(v, p, 19, 3)
         /\ Since(v, q, 20, 1) = Since(v, p, 20, 1) /\ Since(v, q, 20, 2) = Since(v, p, 20, 2)
         /\ Since(v, q, 21, 2) = Since(v, p, 21, 2) /\ Since(v, q, 21, 4) = Since(v, p, 21, 4)
         /\ Since(v, q, 22, 1) = Since(v, p, 22, 1) /\ Since(v, q, 23, 1) = Since(v, p, 23, 1)
         /\ Since(v, q, 51, 1) = Since(v, p, 51, 1)
BY DEF Since, RightsPlace

LEMMA RightsStay ==
  ASSUME NEW v \in Nat, NEW p \in Nat, NEW q \in Nat, q = p + 1, RightsPlace(v, p), NEW d, NEW e,
         e.roles = d.roles, e.first = d.first
  PROVE  /\ RolesThere(d, v, p) => RolesThere(e, v, q)
         /\ RightsStand(d, v, p) => RightsStand(e, v, q)
         /\ AsShipped(d, v, p) => AsShipped(e, v, q)
<1>1. /\ RetiredBy(v, q) = RetiredBy(v, p) /\ TakenFromAdmin(v, q) = TakenFromAdmin(v, p)
      /\ GivenToAdmin(v, q) = GivenToAdmin(v, p) /\ GivenToEveryday(v, q) = GivenToEveryday(v, p)
      /\ Everyday(e, v, q) = Everyday(d, v, p) /\ Combined(e, v, q) = Combined(d, v, p)
  BY SinceStays DEF RetiredBy, TakenFromAdmin, GivenToAdmin, GivenToEveryday, Everyday, Combined
<1>2. RolesThere(d, v, p) => RolesThere(e, v, q)
  BY SinceStays DEF RolesThere
<1>3. RightsStand(d, v, p) => RightsStand(e, v, q)
  BY <1>1, SinceStays DEF RightsStand
<1>4. AsShipped(d, v, p) => AsShipped(e, v, q)
  BY <1>1, SinceStays DEF AsShipped
<1> QED
  BY <1>2, <1>3, <1>4

LEMMA ThreeOrFour ==
  \A a, b, c, x : IsFiniteSet({a, b, c}) /\ IsFiniteSet({a, b, c, x})
<1> SUFFICES ASSUME NEW a, NEW b, NEW c, NEW x PROVE IsFiniteSet({a, b, c}) /\ IsFiniteSet({a, b, c, x})
  OBVIOUS
<1>1. IsFiniteSet({a})
  BY FS_Singleton
<1>2. IsFiniteSet({a} \cup {b})
  BY <1>1, FS_AddElement
<1>3. IsFiniteSet(({a} \cup {b}) \cup {c})
  BY <1>2, FS_AddElement
<1>4. IsFiniteSet((({a} \cup {b}) \cup {c}) \cup {x})
  BY <1>3, FS_AddElement
<1>5. ({a} \cup {b}) \cup {c} = {a, b, c} /\ (({a} \cup {b}) \cup {c}) \cup {x} = {a, b, c, x}
  OBVIOUS
<1> QED
  BY <1>3, <1>4, <1>5

\* Migration 3: the roles are made, the first release's or today's.
LEMMA RolesAreSeeded ==
  ASSUME NEW uses, NEW d, Facts(d, 2, 9, uses)
  PROVE  Facts(Effect(d, Rewrite("seedRoles")), 2, 10, uses)
<1> DEFINE e == Effect(d, Rewrite("seedRoles"))
           seeded == IF d.first THEN FirstRoles ELSE DefaultRoles
<1>1. e = [d EXCEPT !.roles = seeded]
  BY DEF Effect, Rewrite, Rewritten
<1> HIDE DEF e, seeded
<1>2. /\ IsDatabase(e) /\ e.roles = seeded /\ e.members = d.members /\ e.owners = d.owners
      /\ e.entries = d.entries /\ e.spare = d.spare /\ e.first = d.first
  BY <1>1 DEF IsDatabase, Facts
<1>3. EntriesThere(e, 2, 10)
  BY <1>2, EntriesStay DEF Facts
<1>4. DOMAIN seeded = IF d.first THEN {"admin", "employee", "manager"} ELSE {"admin", "user", "user-admin", "manager"}
  BY DEF seeded, FirstRoles, DefaultRoles
<1>5. /\ seeded["admin"] = IF d.first THEN (Administering \ {"settings:manage"}) \cup Working \cup Retired ELSE Administering
      /\ d.first => /\ seeded["employee"] \subseteq Working \cup Retired
                    /\ Working \ EverydayGains \subseteq seeded["employee"]
                    /\ seeded["manager"] \subseteq Working \cup Retired
      /\ ~d.first => /\ seeded["user"] = Working /\ seeded["user-admin"] = Working \cup Administering
                     /\ seeded["manager"] = Working \cup Team
  BY DEF seeded, FirstRoles, DefaultRoles, Working, Retired, EverydayGains
<1>6. seeded \in [DOMAIN seeded -> SUBSET AllRights]
  <2>1. seeded = [r \in DOMAIN seeded |-> seeded[r]]
    BY DEF seeded, FirstRoles, DefaultRoles
  <2>2. \A r \in DOMAIN seeded : seeded[r] \in SUBSET AllRights
    BY <1>4, <1>5 DEF AllRights
  <2> QED
    BY <2>1, <2>2
<1>7. RolesThere(e, 2, 10)
  <2>1. DOMAIN seeded \subseteq Names /\ DOMAIN seeded \subseteq Fixed /\ "admin" \in DOMAIN seeded
    BY <1>4 DEF Fixed, Shipped, Names
  <2>2. IsFiniteSet(DOMAIN seeded)
    <3>1. IsFiniteSet({"admin", "employee", "manager"}) /\ IsFiniteSet({"admin", "user", "user-admin", "manager"})
      BY ThreeOrFour
    <3> QED
      BY <1>4, <3>1
  <2>3. ~Since(2, 10, 20, 1) /\ ~Since(2, 10, 51, 1)
    BY DEF Since
  <2> QED
    BY <1>2, <2>1, <2>2, <2>3 DEF RolesThere
<1>8. MembersRight(e, 2, 10)
  BY <1>2, <1>4 DEF MembersRight, Facts, Since, EverydayName
<1>9. RightsStand(e, 2, 10)
  <2>1. RetiredBy(2, 10) = {} /\ TakenFromAdmin(2, 10) = Team /\ GivenToAdmin(2, 10) = Administering \ {"settings:manage"}
    BY DEF RetiredBy, TakenFromAdmin, GivenToAdmin, Since
  <2>2. ~Since(2, 10, 15, 1) /\ ~Since(2, 10, 51, 1)
    BY DEF Since
  <2>3. \A r \in DOMAIN seeded \ {"manager"} : seeded[r] \cap Team = {}
    BY <1>4, <1>5, RightsApart
  <2>4. Administering \ {"settings:manage"} \subseteq seeded["admin"] /\ seeded["admin"] \cap Team = {}
    BY <1>5, RightsApart
  <2> QED
    BY <1>2, <1>6, <2>1, <2>2, <2>3, <2>4 DEF RightsStand
<1>10. AsShipped(e, 2, 10)
  <2>1. /\ Everyday(e, 2, 10) = IF d.first THEN "employee" ELSE "user"
        /\ Combined(e, 2, 10) = IF d.first THEN {} ELSE {"user-admin"}
        /\ GivenToEveryday(2, 10) = Working \ EverydayGains
    BY <1>2 DEF Everyday, Combined, GivenToEveryday, Since, EverydayGains
  <2>2. ~Since(2, 10, 15, 1)
    BY DEF Since
  <2>3. CASE d.first
    BY <1>2, <1>4, <1>5, <2>1, <2>2, <2>3 DEF AsShipped
  <2>4. CASE ~d.first
    BY <1>2, <1>4, <1>5, <2>1, <2>2, <2>4 DEF AsShipped
  <2> QED
    BY <2>3, <2>4
<1> QED
  BY <1>2, <1>3, <1>7, <1>8, <1>9, <1>10 DEF Facts, e

\* Migration 3: and every account is given one.
LEMMA MembersHaveRoles ==
  ASSUME NEW uses, NEW d, Facts(d, 2, 10, uses)
  PROVE  Facts(Effect(d, Rewrite("rolesByName")), 2, 11, uses)
<1> DEFINE e == Effect(d, Rewrite("rolesByName"))
           given == [a \in DOMAIN d.members |->
                      IF d.members[a] \in DOMAIN d.roles THEN d.members[a] ELSE IF d.first THEN "employee" ELSE "user"]
<1>1. e = [d EXCEPT !.members = given]
  BY DEF Effect, Rewrite, Rewritten
<1>0. MembersRight(d, 2, 10) /\ EverydayName(d) \in DOMAIN d.roles
  BY DEF Facts, MembersRight, Since
<1>4. /\ given \in [DOMAIN given -> Names] /\ DOMAIN given \subseteq People
      /\ \A a \in DOMAIN given : given[a] \in DOMAIN d.roles
  <2>1. d.members \in [DOMAIN d.members -> Names] /\ DOMAIN d.members \subseteq People
    BY <1>0 DEF MembersRight
  <2>2. \A a \in DOMAIN given : given[a] \in DOMAIN d.roles
    BY <1>0 DEF EverydayName
  <2>3. \A a \in DOMAIN given : given[a] \in Names
    BY <2>1 DEF Names, Shipped
  <2> HIDE DEF given
  <2>4. given = [a \in DOMAIN given |-> given[a]] /\ DOMAIN given = DOMAIN d.members
    BY DEF given
  <2> QED
    BY <2>1, <2>2, <2>3, <2>4
<1> HIDE DEF e, given
<1>2. /\ IsDatabase(e) /\ e.roles = d.roles /\ e.members = given /\ e.owners = d.owners
      /\ e.entries = d.entries /\ e.spare = d.spare /\ e.first = d.first
  BY <1>1 DEF IsDatabase, Facts
<1>3. EntriesThere(e, 2, 11)
  BY <1>2, EntriesStay DEF Facts
<1>5. RightsPlace(2, 10)
  BY DEF RightsPlace
<1>6. RolesThere(e, 2, 11) /\ RightsStand(e, 2, 11) /\ (uses = 0 => AsShipped(e, 2, 11))
  BY <1>2, <1>5, RightsStay DEF Facts
<1>7. MembersRight(e, 2, 11)
  BY <1>2, <1>4 DEF MembersRight, Since
<1> QED
  BY <1>2, <1>3, <1>6, <1>7 DEF Facts, e

\* Migration 15: no role is a manager's any more, and its members have the everyday role.
LEMMA ManagersMove ==
  ASSUME NEW uses, NEW d, Facts(d, 14, 1, uses)
  PROVE  Facts(Effect(d, Rewrite("moveManagers")), 14, 2, uses)
<1> DEFINE e == Effect(d, Rewrite("moveManagers"))
           left == [r \in DOMAIN d.roles \ {"manager"} |-> d.roles[r]]
           moved == [a \in DOMAIN d.members |-> IF d.members[a] = "manager" THEN theOrdinaryRoleName(d) ELSE d.members[a]]
<1>1. e = [d EXCEPT !.members = moved, !.roles = left]
  BY DEF Effect, Rewrite, Rewritten, Without
<1>0. RolesThere(d, 14, 1) /\ MembersRight(d, 14, 1) /\ RightsStand(d, 14, 1) /\ EntriesThere(d, 14, 1) /\ IsDatabase(d)
  BY DEF Facts
<1>9. "admin" \in DOMAIN d.roles
  BY <1>0 DEF RolesThere, Since
<1>4. /\ moved \in [DOMAIN moved -> Names] /\ DOMAIN moved \subseteq People
      /\ \A a \in DOMAIN moved : moved[a] \in DOMAIN left \cup {Unset}
  <2>1. /\ d.members \in [DOMAIN d.members -> Names] /\ DOMAIN d.members \subseteq People
        /\ \A a \in DOMAIN d.members : d.members[a] \in DOMAIN d.roles \cup {Unset}
    BY <1>0 DEF MembersRight, Since
  <2>2. theOrdinaryRoleName(d) \in (DOMAIN d.roles \ {"manager"}) \cup {Unset} /\ theOrdinaryRoleName(d) \in Names
    BY OrdinaryRole DEF Names, Shipped
  <2>3. \A a \in DOMAIN moved : moved[a] \in DOMAIN left \cup {Unset} /\ moved[a] \in Names
    BY <2>1, <2>2
  <2>4. moved = [a \in DOMAIN moved |-> moved[a]] /\ DOMAIN moved = DOMAIN d.members
    OBVIOUS
  <2> HIDE DEF moved
  <2> QED
    BY <2>1, <2>3, <2>4
<1>5. /\ DOMAIN left = DOMAIN d.roles \ {"manager"} /\ \A r \in DOMAIN left : left[r] = d.roles[r]
      /\ left = [r \in DOMAIN left |-> left[r]]
  OBVIOUS
<1> HIDE DEF e, moved, left
<1>2. /\ IsDatabase(e) /\ e.roles = left /\ e.members = moved /\ e.owners = d.owners
      /\ e.entries = d.entries /\ e.spare = d.spare /\ e.first = d.first
  BY <1>0, <1>1 DEF IsDatabase
<1>3. EntriesThere(e, 14, 2)
  BY <1>0, <1>2, EntriesStay
<1>6. RolesThere(e, 14, 2)
  <2>1. IsFiniteSet(DOMAIN left)
    BY <1>0, <1>5, FS_Subset DEF RolesThere
  <2> QED
    BY <1>0, <1>2, <1>5, <1>9, <2>1 DEF RolesThere, Since
<1>7. MembersRight(e, 14, 2)
  BY <1>2, <1>4 DEF MembersRight, Since
<1>8. /\ RetiredBy(14, 2) = RetiredBy(14, 1) /\ TakenFromAdmin(14, 2) = TakenFromAdmin(14, 1)
      /\ GivenToAdmin(14, 2) = GivenToAdmin(14, 1) /\ GivenToEveryday(14, 2) = GivenToEveryday(14, 1)
      /\ Everyday(e, 14, 2) = Everyday(d, 14, 1) /\ Combined(e, 14, 2) = Combined(d, 14, 1)
      /\ Since(14, 1, 3, 9) /\ Since(14, 2, 3, 9) /\ ~Since(14, 2, 51, 1) /\ Since(14, 2, 15, 1)
  BY <1>2 DEF RetiredBy, TakenFromAdmin, GivenToAdmin, GivenToEveryday, Everyday, Combined, Since
<1>10. RightsStand(e, 14, 2)
  <2>1. \A r \in DOMAIN left : left[r] \in SUBSET AllRights /\ left[r] \cap RetiredBy(14, 1) = {} /\ left[r] \cap Team = {}
    BY <1>0, <1>5, <1>8 DEF RightsStand
  <2>2. left \in [DOMAIN left -> SUBSET AllRights]
    BY <1>5, <2>1
  <2>3. GivenToAdmin(14, 1) \subseteq left["admin"] /\ left["admin"] \cap TakenFromAdmin(14, 1) = {}
    BY <1>0, <1>5, <1>8, <1>9 DEF RightsStand
  <2> QED
    BY <1>2, <1>8, <2>1, <2>2, <2>3 DEF RightsStand
<1>11. ASSUME uses = 0 PROVE AsShipped(e, 14, 2)
  <2>1. AsShipped(d, 14, 1)
    BY <1>11 DEF Facts
  <2>2. Everyday(d, 14, 1) # "manager" /\ Combined(d, 14, 1) \subseteq {"user-admin"}
    BY DEF Everyday, Combined
  <2>3. /\ DOMAIN d.roles \ {"manager"} = {"admin", Everyday(d, 14, 1)} \cup Combined(d, 14, 1)
        /\ GivenToEveryday(14, 1) \subseteq d.roles[Everyday(d, 14, 1)]
        /\ d.roles[Everyday(d, 14, 1)] \subseteq Working \cup Retired
        /\ \A r \in Combined(d, 14, 1) :
             Working \cup Administering \subseteq d.roles[r] /\ d.roles[r] \subseteq Working \cup Administering \cup Retired
    BY <1>8, <2>1 DEF AsShipped
  <2>4. left[Everyday(d, 14, 1)] = d.roles[Everyday(d, 14, 1)] /\ \A r \in Combined(d, 14, 1) : left[r] = d.roles[r]
    BY <1>5, <2>2, <2>3
  <2>5. DOMAIN left \ {"manager"} = {"admin", Everyday(d, 14, 1)} \cup Combined(d, 14, 1) /\ "manager" \notin DOMAIN left
    BY <1>5, <2>3
  <2> QED
    BY <1>2, <1>8, <2>3, <2>4, <2>5 DEF AsShipped
<1> QED
  BY <1>2, <1>3, <1>6, <1>7, <1>10, <1>11 DEF Facts, e

\* Where what holds of the rights stays as it is.
RulesStay(v, p, q) ==
  /\ RetiredBy(v, q) = RetiredBy(v, p) /\ TakenFromAdmin(v, q) = TakenFromAdmin(v, p)
  /\ GivenToAdmin(v, q) = GivenToAdmin(v, p) /\ GivenToEveryday(v, q) = GivenToEveryday(v, p)
  /\ Since(v, q, 15, 1) = Since(v, p, 15, 1)

\* A role that is added, with rights that every role may have.
AddsRole(e, d, name, rights) ==
  /\ e.roles = With(d.roles, name, rights) /\ name # "admin" /\ "admin" \in DOMAIN d.roles
  /\ rights \subseteq AllRights /\ rights \cap (Team \cup Retired) = {}

\* A role that is seeded, with rights that are neither a team's nor retired.
LEMMA SeededRights ==
  ASSUME NEW v \in 14 .. 49, NEW p \in Nat, NEW q \in Nat, q = p + 1, NEW d, NEW e, NEW name, NEW rights,
         AddsRole(e, d, name, rights), RightsStand(d, v, p), RulesStay(v, p, q)
  PROVE  /\ RightsStand(e, v, q) /\ DOMAIN e.roles = DOMAIN d.roles \cup {name} /\ e.roles[name] = rights
         /\ \A r \in DOMAIN d.roles \ {name} : e.roles[r] = d.roles[r]
<1>1. /\ DOMAIN e.roles = DOMAIN d.roles \cup {name} /\ e.roles[name] = rights
      /\ \A r \in DOMAIN d.roles \ {name} : e.roles[r] = d.roles[r]
      /\ e.roles = [r \in DOMAIN e.roles |-> e.roles[r]]
  BY DEF With, AddsRole
<1>2. Since(v, p, 3, 9) /\ Since(v, q, 3, 9) /\ ~Since(v, p, 51, 1) /\ ~Since(v, q, 51, 1)
  BY DEF Since
<1>3. RetiredBy(v, p) \subseteq Retired
  BY DEF RetiredBy
<1>4. \A r \in DOMAIN e.roles : e.roles[r] \in SUBSET AllRights /\ e.roles[r] \cap RetiredBy(v, p) = {}
  BY <1>1, <1>3 DEF RightsStand, AddsRole
<1>5. e.roles \in [DOMAIN e.roles -> SUBSET AllRights]
  BY <1>1, <1>4
<1>6. \A r \in DOMAIN e.roles \ {"manager"} : e.roles[r] \cap Team = {}
  BY <1>1, <1>2 DEF RightsStand, AddsRole
<1>7. Since(v, p, 15, 1) => \A r \in DOMAIN e.roles : e.roles[r] \cap Team = {}
  BY <1>1, <1>2 DEF RightsStand, AddsRole
<1>8. GivenToAdmin(v, p) \subseteq e.roles["admin"] /\ e.roles["admin"] \cap TakenFromAdmin(v, p) = {}
  BY <1>1, <1>2 DEF RightsStand, AddsRole
<1>9. RightsStand(e, v, q)
  BY <1>2, <1>4, <1>5, <1>6, <1>7, <1>8 DEF RightsStand, AddsRole, RulesStay
<1> QED
  BY <1>1, <1>9

LEMMA ShippedRights ==
  /\ DefaultRoles["user"] = Working /\ DefaultRoles["user-admin"] = Working \cup Administering
  /\ DefaultRoles["manager"] = Working \cup Team /\ DefaultRoles["admin"] = Administering
  /\ DOMAIN DefaultRoles = {"admin", "user", "user-admin", "manager"}
BY DEF DefaultRoles

\* Migration 16: whoever was left without a role gets the everyday one.
LEMMA AccountsAreAdopted ==
  ASSUME NEW uses, NEW d, Facts(d, 15, 1, uses)
  PROVE  Facts(Effect(d, Rewrite("adopt")), 15, 2, uses)
<1> DEFINE e == Effect(d, Rewrite("adopt"))
           name == IF theOrdinaryRoleName(d) = Unset THEN "user" ELSE theOrdinaryRoleName(d)
           roles == IF theOrdinaryRoleName(d) = Unset THEN With(d.roles, "user", Working) ELSE d.roles
           given == [a \in DOMAIN d.members |-> IF d.members[a] = Unset THEN name ELSE d.members[a]]
<1>0. RolesThere(d, 15, 1) /\ MembersRight(d, 15, 1) /\ RightsStand(d, 15, 1) /\ EntriesThere(d, 15, 1) /\ IsDatabase(d)
  BY DEF Facts
<1>1. e = [d EXCEPT !.roles = roles, !.members = given]
  <2>1. CASE theOrdinaryRoleName(d) = Unset
    <3> DEFINE seeded == [d EXCEPT !.roles = With(@, "user", DefaultRoles["user"])]
    <3>1. e = [seeded EXCEPT !.members = [a \in DOMAIN @ |-> IF @[a] = Unset THEN "user" ELSE @[a]]]
      BY <2>1 DEF Effect, Rewrite, Rewritten, seedRole
    <3>2. roles = With(d.roles, "user", DefaultRoles["user"])
      BY <2>1, ShippedRights
    <3>3. given = [a \in DOMAIN d.members |-> IF d.members[a] = Unset THEN "user" ELSE d.members[a]]
      BY <2>1
    <3> HIDE DEF roles, given, e
    <3>4. seeded = [d EXCEPT !.roles = roles]
      BY <3>2
    <3>5. seeded.members = d.members
      BY <1>0, <3>4 DEF IsDatabase
    <3>6. e = [seeded EXCEPT !.members = given]
      BY <1>0, <3>1, <3>3, <3>4, <3>5 DEF IsDatabase
    <3> HIDE DEF seeded
    <3> QED
      BY <3>4, <3>6
  <2>2. CASE theOrdinaryRoleName(d) # Unset
    <3>1. e = [d EXCEPT !.members = given]
      BY <2>2 DEF Effect, Rewrite, Rewritten
    <3>2. roles = d.roles
      BY <2>2
    <3> HIDE DEF roles, given, e
    <3> QED
      BY <1>0, <3>1, <3>2 DEF IsDatabase
  <2> QED
    BY <2>1, <2>2
<1>2. name \in DOMAIN roles /\ DOMAIN d.roles \subseteq DOMAIN roles /\ name \in Names
      /\ DOMAIN roles \subseteq DOMAIN d.roles \cup {"user"}
  BY OrdinaryRole DEF With, Names, Shipped
<1>3. /\ given \in [DOMAIN given -> Names] /\ DOMAIN given \subseteq People
      /\ \A a \in DOMAIN given : given[a] \in DOMAIN roles
  <2>1. /\ d.members \in [DOMAIN d.members -> Names] /\ DOMAIN d.members \subseteq People
        /\ \A a \in DOMAIN d.members : d.members[a] \in DOMAIN d.roles \cup {Unset}
    BY <1>0 DEF MembersRight, Since
  <2> HIDE DEF roles, name
  <2>3. \A a \in DOMAIN given : given[a] \in DOMAIN roles /\ given[a] \in Names
    BY <1>2, <2>1
  <2>4. given = [a \in DOMAIN given |-> given[a]] /\ DOMAIN given = DOMAIN d.members
    OBVIOUS
  <2> HIDE DEF given
  <2> QED
    BY <2>1, <2>3, <2>4
<1>4. RightsPlace(15, 1)
  BY DEF RightsPlace
<1>5. theOrdinaryRoleName(d) = Unset => uses # 0
  <2>1. uses = 0 => theOrdinaryRoleName(d) = Everyday(d, 15, 1)
    BY OrdinaryIsEveryday DEF Facts
  <2>2. Everyday(d, 15, 1) # Unset
    BY DEF Everyday, Unset
  <2> QED
    BY <2>1, <2>2
<1>6. theOrdinaryRoleName(d) # Unset => roles = d.roles
  OBVIOUS
<1>7. theOrdinaryRoleName(d) = Unset => roles = With(d.roles, "user", Working)
  OBVIOUS
<1> HIDE DEF e, given, roles, name
<1>8. /\ IsDatabase(e) /\ e.roles = roles /\ e.members = given /\ e.owners = d.owners
      /\ e.entries = d.entries /\ e.spare = d.spare /\ e.first = d.first
  BY <1>0, <1>1 DEF IsDatabase
<1>9. EntriesThere(e, 15, 2)
  BY <1>0, <1>8, EntriesStay
<1>10. MembersRight(e, 15, 2)
  BY <1>3, <1>8 DEF MembersRight, Since
<1>11. RolesThere(e, 15, 2)
  <2>1. IsFiniteSet(DOMAIN d.roles \cup {"user"})
    BY <1>0, FS_AddElement DEF RolesThere
  <2>2. IsFiniteSet(DOMAIN roles)
    BY <1>2, <2>1, FS_Subset
  <2>3. "user" \in Names /\ "user" \in Fixed
    BY DEF Names, Fixed, Shipped
  <2> QED
    BY <1>0, <1>2, <1>8, <2>2, <2>3 DEF RolesThere, Since
<1>12. RightsStand(e, 15, 2) /\ (uses = 0 => AsShipped(e, 15, 2))
  <2>1. CASE theOrdinaryRoleName(d) # Unset
    BY <1>0, <1>4, <1>6, <1>8, <2>1, RightsStay DEF Facts
  <2>2. CASE theOrdinaryRoleName(d) = Unset
    <3>1. RulesStay(15, 1, 2)
      BY DEF RulesStay, RetiredBy, TakenFromAdmin, GivenToAdmin, GivenToEveryday, Since
    <3>2. "admin" \in DOMAIN d.roles
      BY <1>0 DEF RolesThere, Since
    <3>3. Working \subseteq AllRights /\ Working \cap (Team \cup Retired) = {}
      BY RightsApart DEF AllRights
    <3>5. e.roles = With(d.roles, "user", Working) /\ RightsStand(d, 15, 1)
      BY <1>0, <1>7, <1>8, <2>2
    <3>6. AddsRole(e, d, "user", Working)
      BY <3>2, <3>3, <3>5 DEF AddsRole
    <3>4. RightsStand(e, 15, 2)
      BY <3>1, <3>5, <3>6, SeededRights
    <3> QED
      BY <1>5, <2>2, <3>4
  <2> QED
    BY <2>1, <2>2
<1> QED
  BY <1>8, <1>9, <1>10, <1>11, <1>12 DEF Facts, e

LEMMA CombinedRole ==
  ASSUME NEW d
  PROVE  theCombinedRoleName(d) = IF "employee-admin" \in DOMAIN d.roles THEN "employee-admin"
                                  ELSE IF "user-admin" \in DOMAIN d.roles THEN "user-admin" ELSE Unset
BY FirstOfTwo DEF theCombinedRoleName

\* Migration 20: who administers and works has a role for both.
LEMMA CombinedIsSeeded ==
  ASSUME NEW uses, NEW d, Facts(d, 19, 1, uses)
  PROVE  Facts(Effect(d, Rewrite("seedCombined")), 19, 2, uses)
<1> DEFINE e == Effect(d, Rewrite("seedCombined"))
           roles == IF theCombinedRoleName(d) = Unset THEN With(d.roles, "user-admin", Working \cup Administering) ELSE d.roles
<1>0. RolesThere(d, 19, 1) /\ MembersRight(d, 19, 1) /\ RightsStand(d, 19, 1) /\ EntriesThere(d, 19, 1) /\ IsDatabase(d)
  BY DEF Facts
<1>6. theCombinedRoleName(d) # Unset => roles = d.roles
  OBVIOUS
<1>7. theCombinedRoleName(d) = Unset => roles = With(d.roles, "user-admin", Working \cup Administering)
  OBVIOUS
<1>2. /\ DOMAIN d.roles \subseteq DOMAIN roles /\ DOMAIN roles \subseteq DOMAIN d.roles \cup {"user-admin"}
      /\ "user-admin" \in DOMAIN roles \/ "employee-admin" \in DOMAIN roles
  BY <1>6, <1>7, CombinedRole DEF With
<1>3. theCombinedRoleName(d) = Unset => e = [d EXCEPT !.roles = roles]
  BY ShippedRights DEF Effect, Rewrite, Rewritten, seedRole
<1>4. theCombinedRoleName(d) # Unset => e = d
  BY DEF Effect, Rewrite, Rewritten
<1> HIDE DEF e, roles
<1>8. /\ IsDatabase(e) /\ e.roles = roles /\ e.members = d.members /\ e.owners = d.owners
      /\ e.entries = d.entries /\ e.spare = d.spare /\ e.first = d.first
  BY <1>0, <1>3, <1>4, <1>6 DEF IsDatabase
<1>9. EntriesThere(e, 19, 2)
  BY <1>0, <1>8, EntriesStay
<1>10. MembersRight(e, 19, 2)
  BY <1>0, <1>2, <1>8 DEF MembersRight, Since
<1>11. RolesThere(e, 19, 2)
  <2>1. IsFiniteSet(DOMAIN d.roles \cup {"user-admin"})
    BY <1>0, FS_AddElement DEF RolesThere
  <2>2. IsFiniteSet(DOMAIN roles)
    BY <1>2, <2>1, FS_Subset
  <2>3. "user-admin" \in Names /\ "user-admin" \in Fixed
    BY DEF Names, Fixed, Shipped
  <2> QED
    BY <1>0, <1>2, <1>8, <2>2, <2>3 DEF RolesThere, Since
<1>12. /\ RetiredBy(19, 2) = RetiredBy(19, 1) /\ TakenFromAdmin(19, 2) = TakenFromAdmin(19, 1)
       /\ GivenToAdmin(19, 2) = GivenToAdmin(19, 1) /\ GivenToEveryday(19, 2) = GivenToEveryday(19, 1)
       /\ Since(19, 2, 15, 1) /\ Since(19, 1, 15, 1) /\ Since(19, 2, 3, 9) /\ Since(19, 1, 3, 9)
       /\ ~Since(19, 2, 51, 1) /\ ~Since(19, 1, 51, 1)
  BY DEF RetiredBy, TakenFromAdmin, GivenToAdmin, GivenToEveryday, Since
<1>13. /\ "admin" \in DOMAIN d.roles /\ Working \cup Administering \subseteq AllRights
       /\ (Working \cup Administering) \cap (Team \cup Retired) = {}
  BY <1>0, <1>12, RightsApart DEF RolesThere, AllRights
<1>14. /\ Everyday(e, 19, 2) = Everyday(d, 19, 1) /\ Everyday(d, 19, 1) = IF d.first THEN "employee" ELSE "user"
       /\ Combined(d, 19, 1) = (IF d.first THEN {} ELSE {"user-admin"}) /\ Combined(e, 19, 2) = {"user-admin"}
  BY <1>8 DEF Everyday, Combined, Since
<1>15. ASSUME uses = 0
       PROVE  /\ DOMAIN d.roles \ {"manager"} = {"admin", Everyday(d, 19, 1)} \cup Combined(d, 19, 1)
              /\ "manager" \notin DOMAIN d.roles
              /\ GivenToEveryday(19, 1) \subseteq d.roles[Everyday(d, 19, 1)]
              /\ d.roles[Everyday(d, 19, 1)] \subseteq Working \cup Retired
              /\ \A r \in Combined(d, 19, 1) :
                   Working \cup Administering \subseteq d.roles[r] /\ d.roles[r] \subseteq Working \cup Administering \cup Retired
  BY <1>12, <1>15 DEF AsShipped, Facts
<1>16. CASE theCombinedRoleName(d) # Unset
  <2>1. RightsStand(e, 19, 2)
    BY <1>0, <1>6, <1>8, <1>12, <1>16 DEF RightsStand
  <2>2. ASSUME uses = 0 PROVE AsShipped(e, 19, 2)
    <3>1. "user-admin" \in DOMAIN d.roles \/ "employee-admin" \in DOMAIN d.roles
      BY <1>16, CombinedRole
    <3>2. Combined(d, 19, 1) = {"user-admin"}
      BY <1>14, <1>15, <2>2, <3>1
    <3> QED
      BY <1>6, <1>8, <1>12, <1>14, <1>15, <1>16, <2>2, <3>2 DEF AsShipped
  <2> QED
    BY <1>8, <1>9, <1>10, <1>11, <2>1, <2>2 DEF Facts, e
<1>17. CASE theCombinedRoleName(d) = Unset
  <2>1. e.roles = With(d.roles, "user-admin", Working \cup Administering) /\ RightsStand(d, 19, 1)
    BY <1>0, <1>7, <1>8, <1>17
  <2>2. /\ RightsStand(e, 19, 2) /\ DOMAIN e.roles = DOMAIN d.roles \cup {"user-admin"}
        /\ e.roles["user-admin"] = Working \cup Administering
        /\ \A r \in DOMAIN d.roles \ {"user-admin"} : e.roles[r] = d.roles[r]
    <3>1. RulesStay(19, 1, 2)
      BY <1>12 DEF RulesStay
    <3> DEFINE both == Working \cup Administering
    <3>2. AddsRole(e, d, "user-admin", both)
      BY <1>13, <2>1 DEF AddsRole
    <3>3. both = Working \cup Administering
      OBVIOUS
    <3> HIDE DEF both
    <3>4. RightsStand(e, 19, 2)
      BY <2>1, <3>1, <3>2, SeededRights
    <3> QED
      BY <2>1, <3>3, <3>4 DEF With
  <2>3. ASSUME uses = 0 PROVE AsShipped(e, 19, 2)
    <3>0. "user-admin" # Unset /\ "employee-admin" # Unset
      BY DEF Unset
    <3>1. "user-admin" \notin DOMAIN d.roles
      BY <1>17, <3>0, CombinedRole
    <3>2. d.first /\ Combined(d, 19, 1) = {}
      BY <1>14, <1>15, <2>3, <3>1
    <3>3. Everyday(d, 19, 1) = "employee" /\ "employee" \in DOMAIN d.roles
      BY <1>14, <1>15, <2>3, <3>2
    <3> QED
      BY <1>12, <1>14, <1>15, <2>2, <2>3, <3>2, <3>3 DEF AsShipped
  <2> QED
    BY <1>8, <1>9, <1>10, <1>11, <2>2, <2>3 DEF Facts, e
<1> QED
  BY <1>16, <1>17

\* Migration 5, where SQLite builds the table of the entries again: they are copied, the
\* table is dropped, and the copy takes its place.
LEMMA EntriesAreCopied ==
  ASSUME dialect = "sqlite", NEW uses, NEW d, Facts(d, 4, 2, uses)
  PROVE  Facts(Effect(d, Rewrite("copyEntries")), 4, 3, uses)
<1> DEFINE e == Effect(d, Rewrite("copyEntries"))
<1>1. e = [d EXCEPT !.spare = d.entries]
  BY DEF Effect, Rewrite, Rewritten
<1> HIDE DEF e
<1>2. /\ IsDatabase(e) /\ e.roles = d.roles /\ e.members = d.members /\ e.owners = d.owners
      /\ e.entries = d.entries /\ e.spare = d.entries /\ e.first = d.first
  BY <1>1 DEF IsDatabase, Facts
<1>3. RightsPlace(4, 2)
  BY DEF RightsPlace
<1>4. RolesThere(e, 4, 3) /\ RightsStand(e, 4, 3) /\ (uses = 0 => AsShipped(e, 4, 3))
  BY <1>2, <1>3, RightsStay DEF Facts
<1>5. MembersRight(e, 4, 3)
  BY <1>2 DEF MembersRight, Since, Facts
<1>6. EntriesThere(e, 4, 3)
  BY <1>2 DEF EntriesThere, OwnersRight, EntriesRight, Since, Rebuilding, Facts
<1> QED
  BY <1>2, <1>4, <1>5, <1>6 DEF Facts, e

LEMMA TableIsDropped ==
  ASSUME dialect = "sqlite", NEW uses, NEW d, Facts(d, 4, 3, uses), NEW s, s.op = "drop", s.what = EntriesTable
  PROVE  Facts(Effect(d, s), 4, 4, uses)
<1> DEFINE e == Effect(d, s)
           kept == {o \in d.schema : o # s.what /\ ~(s.what[2] = "" /\ o[1] = s.what[1])}
<1>8. s.what = <<"timesheets", "">>
  BY Zenon DEF EntriesTable
<1>9. e = [d EXCEPT !.schema = kept, !.entries = IF s.what = <<"timesheets", "">> THEN None ELSE @]
  BY DEF Effect, None
<1>1. e = [d EXCEPT !.schema = kept, !.entries = None]
  <2> HIDE DEF e, kept
  <2> QED
    BY <1>8, <1>9, Zenon
<1> HIDE DEF e, kept
<1>2. /\ IsDatabase(e) /\ e.roles = d.roles /\ e.members = d.members /\ e.owners = d.owners
      /\ e.entries = None /\ e.spare = d.spare /\ e.first = d.first
  BY <1>1 DEF IsDatabase, Facts
<1>3. RightsPlace(4, 3)
  BY DEF RightsPlace
<1>4. RolesThere(e, 4, 4) /\ RightsStand(e, 4, 4) /\ (uses = 0 => AsShipped(e, 4, 4))
  BY <1>2, <1>3, RightsStay DEF Facts
<1>5. MembersRight(e, 4, 4)
  BY <1>2 DEF MembersRight, Since, Facts
<1>6. d.spare = d.entries /\ EntriesRight(d.entries, d, 4, 3) /\ OwnersRight(d, 4, 3)
  BY DEF EntriesThere, Rebuilding, Facts
<1>7. EntriesThere(e, 4, 4)
  BY <1>2, <1>6 DEF EntriesThere, OwnersRight, EntriesRight, Since, Rebuilding
<1> QED
  BY <1>2, <1>4, <1>5, <1>7 DEF Facts, e

LEMMA CopyIsTheTable ==
  ASSUME dialect = "sqlite", NEW uses, NEW d, Facts(d, 4, 4, uses)
  PROVE  Facts(Effect(d, Rewrite("renameTable")), 4, 5, uses)
<1> DEFINE e == Effect(d, Rewrite("renameTable"))
           kept == (d.schema \ {<<"timesheets_new", "">>}) \cup {<<"timesheets", "">>, <<"timesheets", "status">>}
<1>1. e = [d EXCEPT !.entries = d.spare, !.spare = None, !.schema = kept]
  BY DEF Effect, Rewrite, Rewritten, None
<1> HIDE DEF e, kept
<1>2. /\ IsDatabase(e) /\ e.roles = d.roles /\ e.members = d.members /\ e.owners = d.owners
      /\ e.entries = d.spare /\ e.spare = None /\ e.first = d.first
  BY <1>1 DEF IsDatabase, Facts
<1>3. RightsPlace(4, 4)
  BY DEF RightsPlace
<1>4. RolesThere(e, 4, 5) /\ RightsStand(e, 4, 5) /\ (uses = 0 => AsShipped(e, 4, 5))
  BY <1>2, <1>3, RightsStay DEF Facts
<1>5. MembersRight(e, 4, 5)
  BY <1>2 DEF MembersRight, Since, Facts
<1>6. EntriesRight(d.spare, d, 4, 4) /\ OwnersRight(d, 4, 4)
  BY DEF EntriesThere, Rebuilding, Facts
<1>7. EntriesThere(e, 4, 5)
  BY <1>2, <1>6 DEF EntriesThere, OwnersRight, EntriesRight, Since, Rebuilding
<1> QED
  BY <1>2, <1>4, <1>5, <1>7 DEF Facts, e

\* A set of numbers has a least one.
LEMMA Least == ASSUME NEW T \in SUBSET Nat, T # {} PROVE \E x \in T : \A y \in T : x <= y
<1> DEFINE Before == OpToRel(<, Nat)
<1>1. IsWellFoundedOn(Before, Nat)
  BY NatLessThanWellFounded, Zenon
<1>2. \A y, x \in Nat : y < x => <<y, x>> \in Before
  BY DEF OpToRel
<1> HIDE DEF Before
<1>3. PICK x \in T : \A y \in T : ~ (<<y, x>> \in Before)
  BY <1>1, WFMin
<1>4. ASSUME NEW y \in T PROVE x <= y
  <2>1. x \in Nat /\ y \in Nat /\ ~(<<y, x>> \in Before)
    BY <1>3
  <2>2. ~(y < x)
    BY <1>2, <2>1
  <2> QED
    BY <2>1, <2>2
<1> QED
  BY <1>4

LEMMA MinIsThere == ASSUME NEW T \in SUBSET Nat, T # {} PROVE Min(T) \in T
BY Least DEF Min

\* The shared projects, given to those who booked on them one after the other.
OneOf(S) == CHOOSE x \in S : TRUE
SplitsUp(d, S, it) ==
  it = [s \in SUBSET S |-> IF s = {} THEN d ELSE splitProjectPerBooker(it[s \ {OneOf(s)}], OneOf(s))]

LEMMA ProjectsSplitUp ==
  ASSUME NEW d
  PROVE  Rewritten(d, "splitProjects") = (CHOOSE it : SplitsUp(d, sharedProjectIDs(d), it))[sharedProjectIDs(d)]
<1>1. Rewritten(d, "splitProjects") =
        FoldSet(LAMBDA project, rest : splitProjectPerBooker(rest, project), d, sharedProjectIDs(d))
  BY DEF Rewritten
<1> QED
  BY <1>1 DEF FoldSet, MapThenFoldSet, SplitsUp, OneOf

LEMMA NoProjectIsSplit ==
  ASSUME NEW d, sharedProjectIDs(d) = {} PROVE Rewritten(d, "splitProjects") = d
<1> DEFINE it == CHOOSE f : SplitsUp(d, {}, f)
           alone == [s \in SUBSET {} |-> d]
<1>1. SplitsUp(d, {}, alone)
  BY DEF SplitsUp
<1>2. SplitsUp(d, {}, it)
  BY <1>1
<1>3. Rewritten(d, "splitProjects") = it[{}]
  BY ProjectsSplitUp
<1> HIDE DEF it, alone
<1> QED
  BY <1>2, <1>3 DEF SplitsUp

LEMMA OneProjectIsSplit ==
  ASSUME NEW d, NEW project, sharedProjectIDs(d) = {project}
  PROVE  Rewritten(d, "splitProjects") = splitProjectPerBooker(d, project)
<1> DEFINE it == CHOOSE f : SplitsUp(d, {project}, f)
           both == [s \in SUBSET {project} |-> IF s = {} THEN d ELSE splitProjectPerBooker(d, project)]
<1>1. /\ SUBSET {project} = {{}, {project}} /\ OneOf({project}) = project /\ {project} \ {project} = {}
      /\ {project} # {}
  BY DEF OneOf
<1>2. SplitsUp(d, {project}, both)
  <2>1. both[{}] = d
    BY <1>1
  <2>2. ASSUME NEW s \in SUBSET {project}, s # {}
        PROVE  both[s] = splitProjectPerBooker(both[s \ {OneOf(s)}], OneOf(s))
    <3>1. s = {project} /\ OneOf(s) = project /\ s \ {OneOf(s)} = {}
      BY <1>1, <2>2
    <3> QED
      BY <1>1, <2>1, <3>1
  <2> QED
    BY <2>1, <2>2 DEF SplitsUp
<1>3. SplitsUp(d, {project}, it)
  BY <1>2
<1>4. Rewritten(d, "splitProjects") = it[{project}]
  BY ProjectsSplitUp
<1> HIDE DEF it, both
<1>5. it[{}] = d
  BY <1>1, <1>3 DEF SplitsUp
<1>6. it[{project}] = splitProjectPerBooker(it[{project} \ {OneOf({project})}], OneOf({project}))
  BY <1>1, <1>3 DEF SplitsUp
<1> QED
  BY <1>1, <1>4, <1>5, <1>6

\* A copy of the shared project is its booker's, and no other project's.
LEMMA CopiesApart ==
  /\ NoProject # Shared
  /\ \A b \in People : /\ copyProjectTo(Shared, b) \notin {Shared, NoProject} /\ copyProjectTo(Shared, b)[2] = b
<1>1. NoProject # Shared
  BY DEF NoProject, Shared
<1>2. ASSUME NEW b \in People
      PROVE  copyProjectTo(Shared, b) \notin {Shared, NoProject} /\ copyProjectTo(Shared, b)[2] = b
  <2>1. b \in Nat /\ b # 0
    BY MigrationAssumption DEF MigrationAssumption, NoOwner
  <2> QED
    BY <2>1 DEF copyProjectTo, Shared, NoProject, NoOwner
<1> QED
  BY <1>1, <1>2

\* Migration 19: every project goes to those who booked on it, a copy to each but the first.
LEMMA ProjectsHaveOwners ==
  ASSUME NEW uses, NEW d, Facts(d, 18, 1, uses)
  PROVE  Facts(Effect(d, Rewrite("splitProjects")), 18, 2, uses)
<1> DEFINE e == Effect(d, Rewrite("splitProjects"))
<1>0. /\ RolesThere(d, 18, 1) /\ MembersRight(d, 18, 1) /\ RightsStand(d, 18, 1) /\ IsDatabase(d)
      /\ OwnersRight(d, 18, 1) /\ EntriesRight(d.entries, d, 18, 1)
  BY DEF Facts, EntriesThere, Rebuilding
<1>1. e = Rewritten(d, "splitProjects")
  BY DEF Effect, Rewrite
<1>2. \A q \in DOMAIN d.owners : q = Shared /\ d.owners[q] = NoOwner
  BY <1>0 DEF OwnersRight, Since
<1>3. \A f \in DOMAIN d.entries :
        f \in Booked /\ d.entries[f].by \in People /\ (d.entries[f].on = NoProject \/ d.entries[f].on \in DOMAIN d.owners)
  BY <1>0 DEF EntriesRight
<1> HIDE DEF e
<1>4. /\ IsDatabase(e) /\ e.roles = d.roles /\ e.members = d.members /\ e.first = d.first
      /\ EntriesRight(e.entries, e, 18, 2)
  <2>1. CASE DOMAIN d.owners = {}
    <3>1. sharedProjectIDs(d) = {}
      BY <2>1 DEF sharedProjectIDs
    <3>2. e = d
      BY <1>1, <3>1, NoProjectIsSplit
    <3> QED
      BY <1>0, <1>3, <2>1, <3>2 DEF EntriesRight
  <2>2. CASE DOMAIN d.owners # {}
    <3>1. DOMAIN d.owners = {Shared} /\ d.owners[Shared] = NoOwner
      BY <1>2, <2>2
    <3>2. sharedProjectIDs(d) = {Shared}
      BY <3>1 DEF sharedProjectIDs
    <3>3. e = splitProjectPerBooker(d, Shared)
      BY <1>1, <3>2, OneProjectIsSplit
    <3> DEFINE bookers == bookersOf(d, Shared)
               first == Min(bookers)
               owners == [p \in DOMAIN d.owners \cup {copyProjectTo(Shared, b) : b \in bookers \ {first}} |->
                           IF p = Shared THEN first ELSE IF p \in DOMAIN d.owners THEN d.owners[p] ELSE p[2]]
               entries == [f \in DOMAIN d.entries |->
                            IF d.entries[f].on = Shared /\ d.entries[f].by # first
                            THEN [by |-> d.entries[f].by, on |-> copyProjectTo(Shared, d.entries[f].by)] ELSE d.entries[f]]
    <3>4. /\ bookers \subseteq People
          /\ \A f \in DOMAIN d.entries : d.entries[f].on = Shared => d.entries[f].by \in bookers
      BY <1>3 DEF bookersOf
    <3>5. CASE bookers = {}
      <4>1. e = [d EXCEPT !.owners = Without(@, Shared)]
        BY <3>3, <3>5 DEF splitProjectPerBooker
      <4>2. DOMAIN Without(d.owners, Shared) = {}
        BY <3>1 DEF Without
      <4>3. \A f \in DOMAIN d.entries : d.entries[f].on = NoProject
        BY <1>3, <3>1, <3>4, <3>5
      <4>4. IsDatabase(e) /\ e.roles = d.roles /\ e.members = d.members /\ e.first = d.first
            /\ e.entries = d.entries /\ DOMAIN e.owners = {}
        BY <1>0, <4>1, <4>2 DEF IsDatabase
      <4> QED
        BY <1>3, <4>3, <4>4 DEF EntriesRight
    <3>6. CASE bookers # {}
      <4>1. e = [d EXCEPT !.owners = owners, !.entries = entries]
        BY <3>3, <3>6 DEF splitProjectPerBooker
      <4>2. first \in bookers /\ first \in People
        <5>1. bookers \in SUBSET Nat
          BY <3>4, MigrationAssumption DEF MigrationAssumption
        <5> HIDE DEF bookers
        <5> QED
          BY <3>4, <3>6, <5>1, MinIsThere
      <4>3. DOMAIN entries = DOMAIN d.entries /\ DOMAIN owners = {Shared} \cup {copyProjectTo(Shared, b) : b \in bookers \ {first}}
        BY <3>1
      <4>4. owners[Shared] = first
        BY <4>3
      <4>5. \A b \in bookers \ {first} : copyProjectTo(Shared, b) \in DOMAIN owners /\ owners[copyProjectTo(Shared, b)] = b
        BY <3>1, <3>4, <4>3, CopiesApart
      <4>6. DOMAIN d.entries = Booked
        BY <1>0, <2>2 DEF EntriesRight
      <4>7. ASSUME NEW f \in DOMAIN entries
            PROVE  /\ f \in Booked /\ entries[f].by \in People
                   /\ entries[f].on = NoProject \/ entries[f].on \in DOMAIN owners
                   /\ entries[f].on # NoProject => owners[entries[f].on] = entries[f].by
        <5>1. CASE d.entries[f].on = Shared /\ d.entries[f].by # first
          <6>1. entries[f] = [by |-> d.entries[f].by, on |-> copyProjectTo(Shared, d.entries[f].by)]
            BY <4>7, <5>1
          <6>2. d.entries[f].by \in bookers \ {first}
            BY <3>4, <4>3, <4>7, <5>1
          <6> HIDE DEF entries, owners, bookers, first
          <6> QED
            BY <1>3, <4>3, <4>5, <4>7, <6>1, <6>2
        <5>2. CASE d.entries[f].on = Shared /\ d.entries[f].by = first
          <6>1. entries[f] = d.entries[f]
            BY <4>7, <5>2
          <6> HIDE DEF entries, owners, bookers, first
          <6> QED
            BY <1>3, <4>3, <4>4, <4>7, <5>2, <6>1
        <5>3. CASE d.entries[f].on # Shared
          <6>1. entries[f] = d.entries[f]
            BY <4>7, <5>3
          <6> HIDE DEF entries, owners, bookers, first
          <6> QED
            BY <1>3, <3>1, <4>3, <4>7, <5>3, <6>1
        <5> HIDE DEF entries, owners, bookers, first
        <5> QED
          BY <5>1, <5>2, <5>3
      <4> HIDE DEF entries, owners, bookers, first
      <4>8. IsDatabase(e) /\ e.roles = d.roles /\ e.members = d.members /\ e.first = d.first
            /\ e.entries = entries /\ e.owners = owners
        BY <1>0, <4>1 DEF IsDatabase
      <4> QED
        BY <4>3, <4>6, <4>7, <4>8 DEF EntriesRight
    <3> QED
      BY <3>5, <3>6
  <2> QED
    BY <2>1, <2>2
<1>5. EntriesThere(e, 18, 2)
  BY <1>4 DEF EntriesThere, Rebuilding, OwnersRight, Since
<1>6. RightsPlace(18, 1)
  BY DEF RightsPlace
<1>7. RolesThere(e, 18, 2) /\ RightsStand(e, 18, 2) /\ (uses = 0 => AsShipped(e, 18, 2))
  BY <1>0, <1>4, <1>6, RightsStay DEF Facts
<1>8. MembersRight(e, 18, 2)
  BY <1>0, <1>4 DEF MembersRight, Since
<1> QED
  BY <1>4, <1>5, <1>7, <1>8 DEF Facts, e

\* A database after every role took a name of its own, and its members with it.
RenamesBy(e, d, f) ==
  /\ IsDatabase(e) /\ e.owners = d.owners /\ e.entries = d.entries /\ e.spare = d.spare /\ e.first = d.first
  /\ DOMAIN e.roles = {f[r] : r \in DOMAIN d.roles}
  /\ \A r, t \in DOMAIN d.roles : f[r] = f[t] => r = t
  /\ \A r \in DOMAIN d.roles : e.roles[f[r]] = d.roles[r]
  /\ e.roles = [r \in DOMAIN e.roles |-> e.roles[r]]
  /\ e.members = [a \in DOMAIN d.members |-> IF d.members[a] \in DOMAIN d.roles THEN f[d.members[a]] ELSE d.members[a]]

\* One role takes a name that is free.
Takes(d, from, to) == [r \in DOMAIN d.roles |-> IF r = from THEN to ELSE r]

LEMMA NameIsTaken ==
  ASSUME NEW d, IsDatabase(d), NEW from, NEW to, from \in DOMAIN d.roles, to \notin DOMAIN d.roles
  PROVE  RenamesBy(setRoleName(d, from, to), d, Takes(d, from, to))
<1> DEFINE e == setRoleName(d, from, to)
           f == Takes(d, from, to)
           roles == With(Without(d.roles, from), to, d.roles[from])
           members == [a \in DOMAIN d.members |-> IF d.members[a] = from THEN to ELSE d.members[a]]
<1>1. e = [d EXCEPT !.roles = roles, !.members = members]
  BY DEF setRoleName
<1>2. /\ DOMAIN roles = (DOMAIN d.roles \ {from}) \cup {to} /\ roles[to] = d.roles[from]
      /\ \A r \in DOMAIN d.roles \ {from} : roles[r] = d.roles[r]
      /\ roles = [r \in DOMAIN roles |-> roles[r]]
  BY DEF With, Without
<1>3. DOMAIN f = DOMAIN d.roles /\ f[from] = to /\ \A r \in DOMAIN d.roles \ {from} : f[r] = r
  BY DEF Takes
<1>4. members = [a \in DOMAIN d.members |-> IF d.members[a] \in DOMAIN d.roles THEN f[d.members[a]] ELSE d.members[a]]
  BY DEF Takes
<1> HIDE DEF e, f, roles, members
<1>5. IsDatabase(e) /\ e.owners = d.owners /\ e.entries = d.entries /\ e.spare = d.spare /\ e.first = d.first
      /\ e.roles = roles /\ e.members = members
  BY <1>1 DEF IsDatabase
<1>6. DOMAIN roles = {f[r] : r \in DOMAIN d.roles}
  BY <1>2, <1>3
<1>7. \A r, t \in DOMAIN d.roles : f[r] = f[t] => r = t
  BY <1>3
<1>8. \A r \in DOMAIN d.roles : roles[f[r]] = d.roles[r]
  BY <1>2, <1>3
<1> QED
  BY <1>2, <1>4, <1>5, <1>6, <1>7, <1>8 DEF RenamesBy, e, f

LEMMA RenamedTwice ==
  ASSUME NEW d, NEW e, NEW g, NEW f, NEW h, RenamesBy(e, d, f), RenamesBy(g, e, h),
         \A a \in DOMAIN d.members : d.members[a] \in DOMAIN d.roles
  PROVE  RenamesBy(g, d, [r \in DOMAIN d.roles |-> h[f[r]]])
<1> DEFINE k == [r \in DOMAIN d.roles |-> h[f[r]]]
<1>1. /\ IsDatabase(g) /\ g.owners = d.owners /\ g.entries = d.entries /\ g.spare = d.spare /\ g.first = d.first
      /\ g.roles = [r \in DOMAIN g.roles |-> g.roles[r]]
  BY DEF RenamesBy
<1>2. \A r \in DOMAIN d.roles : f[r] \in DOMAIN e.roles
  BY DEF RenamesBy
<1>3. DOMAIN g.roles = {k[r] : r \in DOMAIN d.roles}
  <2>1. DOMAIN g.roles = {h[x] : x \in DOMAIN e.roles} /\ DOMAIN e.roles = {f[r] : r \in DOMAIN d.roles}
    BY DEF RenamesBy
  <2>2. \A x \in DOMAIN g.roles : \E r \in DOMAIN d.roles : x = k[r]
    BY <2>1
  <2>3. \A r \in DOMAIN d.roles : k[r] \in DOMAIN g.roles
    BY <1>2, <2>1
  <2> HIDE DEF k
  <2> QED
    BY <2>2, <2>3
<1>4. \A r, t \in DOMAIN d.roles : k[r] = k[t] => r = t
  BY <1>2 DEF RenamesBy
<1>5. \A r \in DOMAIN d.roles : g.roles[k[r]] = d.roles[r]
  BY <1>2 DEF RenamesBy
<1>6. g.members = [a \in DOMAIN d.members |-> IF d.members[a] \in DOMAIN d.roles THEN k[d.members[a]] ELSE d.members[a]]
  <2>1. /\ DOMAIN e.members = DOMAIN d.members
        /\ \A a \in DOMAIN d.members : e.members[a] = f[d.members[a]]
    BY DEF RenamesBy
  <2>2. \A a \in DOMAIN d.members : e.members[a] \in DOMAIN e.roles
    BY <1>2, <2>1
  <2>3. g.members = [a \in DOMAIN e.members |-> IF e.members[a] \in DOMAIN e.roles THEN h[e.members[a]] ELSE e.members[a]]
    BY DEF RenamesBy
  <2>4. g.members = [a \in DOMAIN d.members |-> h[e.members[a]]]
    BY <2>1, <2>2, <2>3
  <2> QED
    BY <2>1, <2>4
<1> HIDE DEF k
<1>7. RenamesBy(g, d, k)
  BY <1>1, <1>3, <1>4, <1>5, <1>6 DEF RenamesBy
<1> QED
  BY <1>7 DEF k

\* A number is free after the name of a role that is in the way.
LEMMA FreeName ==
  ASSUME NEW d, NEW name \in InTheWay,
         DOMAIN d.roles \subseteq Fixed \cup OwnNames \cup UNION {Aside(other) : other \in InTheWay \ {name}}
  PROVE  aFreeRoleName(d, name) \in Aside(name) \ DOMAIN d.roles
<1> DEFINE free == {n \in Numbers : Numbered[name][n] \notin DOMAIN d.roles}
<1>1. PICK n \in Numbers : Numbered[name][n] \notin OwnNames \cup {"clerk"}
  BY MigrationAssumption DEF MigrationAssumption
<1>2. Numbered[name][n] \notin Shipped
  BY MigrationAssumption DEF MigrationAssumption
<1>3. \A other \in InTheWay \ {name} : Numbered[name][n] \notin Aside(other)
  BY MigrationAssumption DEF MigrationAssumption, Aside
<1>4. n \in free
  BY <1>1, <1>2, <1>3 DEF Fixed
<1>5. free \in SUBSET Nat /\ free # {}
  BY <1>4 DEF Numbers
<1>6. Min(free) \in free
  <2> HIDE DEF free
  <2> QED
    BY <1>5, MinIsThere
<1> QED
  BY <1>6 DEF aFreeRoleName, Aside

\* A role that is renamed, with one of its new name moved aside.
Renaming(d, from, to, aside) ==
  [r \in DOMAIN d.roles |-> IF from \notin DOMAIN d.roles THEN r
                            ELSE IF r = from THEN to ELSE IF r = to THEN aside ELSE r]

LEMMA RoleIsRenamed ==
  ASSUME NEW d, IsDatabase(d), d.roles = [r \in DOMAIN d.roles |-> d.roles[r]],
         d.members = [a \in DOMAIN d.members |-> d.members[a]],
         \A a \in DOMAIN d.members : d.members[a] \in DOMAIN d.roles,
         NEW from, NEW to, from # to, aFreeRoleName(d, to) \notin DOMAIN d.roles \cup {to}
  PROVE  RenamesBy(renameRole(d, from, to), d, Renaming(d, from, to, aFreeRoleName(d, to)))
<1> DEFINE aside == aFreeRoleName(d, to)
           f == Renaming(d, from, to, aside)
<1>1. CASE from \notin DOMAIN d.roles
  <2>1. renameRole(d, from, to) = d
    BY <1>1 DEF renameRole
  <2>2. f = [r \in DOMAIN d.roles |-> r]
    BY <1>1 DEF Renaming
  <2> HIDE DEF f
  <2>3. /\ DOMAIN d.roles = {f[r] : r \in DOMAIN d.roles}
        /\ d.members = [a \in DOMAIN d.members |-> IF d.members[a] \in DOMAIN d.roles THEN f[d.members[a]] ELSE d.members[a]]
    BY <2>2
  <2>4. RenamesBy(d, d, f)
    BY <2>2, <2>3 DEF RenamesBy
  <2> QED
    BY <2>1, <2>4 DEF f
<1>2. CASE from \in DOMAIN d.roles /\ to \notin DOMAIN d.roles
  <2>1. renameRole(d, from, to) = setRoleName(d, from, to)
    BY <1>2 DEF renameRole
  <2>2. f = Takes(d, from, to)
    BY <1>2 DEF Renaming, Takes
  <2> HIDE DEF f
  <2>3. RenamesBy(setRoleName(d, from, to), d, f)
    BY <1>2, <2>2, NameIsTaken
  <2> QED
    BY <2>1, <2>3 DEF f
<1>3. CASE from \in DOMAIN d.roles /\ to \in DOMAIN d.roles
  <2> DEFINE e == setRoleName(d, to, aside)
             moved == Takes(d, to, aside)
  <2>1. renameRole(d, from, to) = setRoleName(e, from, to)
    BY <1>3 DEF renameRole
  <2>2. RenamesBy(e, d, moved)
    BY <1>3, NameIsTaken
  <2>3. moved = [r \in DOMAIN d.roles |-> IF r = to THEN aside ELSE r]
    BY DEF Takes
  <2> HIDE DEF e, moved
  <2>4. DOMAIN e.roles = {moved[r] : r \in DOMAIN d.roles} /\ IsDatabase(e)
    BY <2>2 DEF RenamesBy
  <2>5. from \in DOMAIN e.roles /\ to \notin DOMAIN e.roles /\ aside \in DOMAIN e.roles /\ aside # from
    BY <1>3, <2>3, <2>4
  <2>6. RenamesBy(setRoleName(e, from, to), e, Takes(e, from, to))
    BY <2>4, <2>5, NameIsTaken
  <2>7. RenamesBy(setRoleName(e, from, to), d, [r \in DOMAIN d.roles |-> Takes(e, from, to)[moved[r]]])
    BY <2>2, <2>6, RenamedTwice
  <2>8. f = [r \in DOMAIN d.roles |-> Takes(e, from, to)[moved[r]]]
    <3>1. f = [r \in DOMAIN d.roles |-> IF r = from THEN to ELSE IF r = to THEN aside ELSE r]
      BY <1>3 DEF Renaming
    <3>2. \A r \in DOMAIN d.roles : moved[r] \in DOMAIN e.roles
      BY <2>4
    <3>3. \A r \in DOMAIN d.roles :
            Takes(e, from, to)[moved[r]] = IF r = from THEN to ELSE IF r = to THEN aside ELSE r
      BY <1>3, <2>3, <2>5, <3>2 DEF Takes
    <3> HIDE DEF f
    <3> QED
      BY <3>1, <3>3
  <2> HIDE DEF f
  <2> QED
    BY <2>1, <2>7, <2>8 DEF f
<1> QED
  BY <1>1, <1>2, <1>3

\* As many roles are there after as before.
LEMMA AsManyRoles ==
  ASSUME NEW d, NEW e, NEW f, RenamesBy(e, d, f), f = [r \in DOMAIN d.roles |-> f[r]], IsFiniteSet(DOMAIN d.roles)
  PROVE  IsFiniteSet(DOMAIN e.roles) /\ Cardinality(DOMAIN e.roles) = Cardinality(DOMAIN d.roles)
<1> DEFINE S == DOMAIN d.roles
           T == DOMAIN e.roles
<1>1. T = {f[r] : r \in S} /\ \A r, t \in S : f[r] = f[t] => r = t
  BY DEF RenamesBy
<1>2. f \in Bijection(S, T)
  <2>1. f \in [S -> T]
    BY <1>1
  <2>2. \A t \in T : \E r \in S : f[r] = t
    BY <1>1
  <2> HIDE DEF S, T
  <2>3. f \in Injection(S, T)
    BY <1>1, <2>1 DEF Injection, IsInjective
  <2>4. f \in Surjection(S, T)
    BY <2>1, <2>2 DEF Surjection
  <2> QED
    BY <2>3, <2>4 DEF Bijection
<1> QED
  BY <1>2, FS_Bijection DEF ExistsBijection

\* Migration 22: what is renamed and moved aside.
TwoRenames(d) ==
  LET first == Renaming(d, "employee", "user", aFreeRoleName(d, "user"))
      e == renameRole(d, "employee", "user")
      second == Renaming(e, "employee-admin", "user-admin", aFreeRoleName(e, "user-admin"))
  IN  [r \in DOMAIN d.roles |-> second[first[r]]]
RolesRenamed(d) == renameRole(renameRole(d, "employee", "user"), "employee-admin", "user-admin")

LEMMA AsideApart ==
  /\ "user" \in InTheWay /\ "user-admin" \in InTheWay /\ "manager" \in InTheWay
  /\ \A x \in InTheWay : Aside(x) \cap Shipped = {} /\ Aside(x) \subseteq Names
  /\ \A x, y \in InTheWay : x # y => Aside(x) \cap Aside(y) = {}
<1>1. "user" \in InTheWay /\ "user-admin" \in InTheWay /\ "manager" \in InTheWay
  BY DEF InTheWay
<1>2. \A x \in InTheWay : Aside(x) \cap Shipped = {} /\ Aside(x) \subseteq Names
  BY MigrationAssumption DEF MigrationAssumption, Aside, Names
<1>3. \A x, y \in InTheWay : x # y => Aside(x) \cap Aside(y) = {}
  BY MigrationAssumption DEF MigrationAssumption, Aside
<1> QED
  BY <1>1, <1>2, <1>3

LEMMA BothAreRenamed ==
  ASSUME NEW d, IsDatabase(d), d.roles = [r \in DOMAIN d.roles |-> d.roles[r]],
         d.members = [a \in DOMAIN d.members |-> d.members[a]],
         \A a \in DOMAIN d.members : d.members[a] \in DOMAIN d.roles,
         DOMAIN d.roles \subseteq Fixed \cup OwnNames
  PROVE  /\ RenamesBy(RolesRenamed(d), d, TwoRenames(d))
         /\ \A r \in DOMAIN d.roles :
              /\ TwoRenames(d)[r] \in {r, "user", "user-admin"} \cup Aside("user") \cup Aside("user-admin")
              /\ r \notin {"employee", "employee-admin", "user", "user-admin"} => TwoRenames(d)[r] = r
         /\ "employee" \in DOMAIN d.roles => TwoRenames(d)["employee"] = "user"
         /\ "employee-admin" \in DOMAIN d.roles => TwoRenames(d)["employee-admin"] = "user-admin"
         /\ "employee" \notin DOMAIN d.roles /\ "user" \in DOMAIN d.roles => TwoRenames(d)["user"] = "user"
         /\ "employee-admin" \notin DOMAIN d.roles /\ "user-admin" \in DOMAIN d.roles => TwoRenames(d)["user-admin"] = "user-admin"
<1> DEFINE aside1 == aFreeRoleName(d, "user")
           f == Renaming(d, "employee", "user", aside1)
           e == renameRole(d, "employee", "user")
           aside2 == aFreeRoleName(e, "user-admin")
           h == Renaming(e, "employee-admin", "user-admin", aside2)
           g == RolesRenamed(d)
           both == TwoRenames(d)
<1>0. /\ g = renameRole(e, "employee-admin", "user-admin") /\ both = [r \in DOMAIN d.roles |-> h[f[r]]]
  BY DEF RolesRenamed, TwoRenames
<1>1. aside1 \in Aside("user") \ DOMAIN d.roles /\ aside1 \notin Shipped /\ aside1 # "user"
  <2>1. aside1 \in Aside("user") \ DOMAIN d.roles
    BY AsideApart, FreeName
  <2> QED
    BY <2>1, AsideApart DEF Shipped
<1>2. RenamesBy(e, d, f)
  BY <1>1, RoleIsRenamed
<1>3. /\ DOMAIN f = DOMAIN d.roles
      /\ \A r \in DOMAIN d.roles : f[r] = IF "employee" \notin DOMAIN d.roles THEN r
                                          ELSE IF r = "employee" THEN "user" ELSE IF r = "user" THEN aside1 ELSE r
  BY DEF Renaming
<1> HIDE DEF f, e, aside1
<1>4. /\ IsDatabase(e) /\ e.roles = [r \in DOMAIN e.roles |-> e.roles[r]]
      /\ e.members = [a \in DOMAIN e.members |-> e.members[a]]
      /\ \A a \in DOMAIN e.members : e.members[a] \in DOMAIN e.roles
      /\ DOMAIN e.roles = {f[r] : r \in DOMAIN d.roles}
  <2>1. /\ IsDatabase(e) /\ e.roles = [r \in DOMAIN e.roles |-> e.roles[r]]
        /\ DOMAIN e.roles = {f[r] : r \in DOMAIN d.roles}
        /\ e.members = [a \in DOMAIN d.members |-> IF d.members[a] \in DOMAIN d.roles THEN f[d.members[a]] ELSE d.members[a]]
    BY <1>2 DEF RenamesBy
  <2>2. e.members = [a \in DOMAIN e.members |-> e.members[a]]
    BY <2>1
  <2>3. \A a \in DOMAIN e.members : e.members[a] \in DOMAIN e.roles
    BY <2>1
  <2> QED
    BY <2>1, <2>2, <2>3
<1>5. DOMAIN e.roles \subseteq Fixed \cup OwnNames \cup Aside("user")
  <2>1. "user" \in Fixed
    BY DEF Fixed, Shipped
  <2> QED
    BY <1>1, <1>3, <1>4, <2>1
<1>6. aside2 \in Aside("user-admin") \ DOMAIN e.roles /\ aside2 \notin Shipped /\ aside2 # "user-admin"
  <2>1. DOMAIN e.roles \subseteq Fixed \cup OwnNames \cup UNION {Aside(other) : other \in InTheWay \ {"user-admin"}}
    BY <1>5, AsideApart
  <2>2. aside2 \in Aside("user-admin") \ DOMAIN e.roles
    BY <2>1, AsideApart, FreeName
  <2> QED
    BY <2>2, AsideApart DEF Shipped
<1>7. RenamesBy(g, e, h)
  BY <1>0, <1>4, <1>6, RoleIsRenamed
<1>8. \A r \in DOMAIN e.roles : h[r] = IF "employee-admin" \notin DOMAIN e.roles THEN r
                                       ELSE IF r = "employee-admin" THEN "user-admin" ELSE IF r = "user-admin" THEN aside2 ELSE r
  BY DEF Renaming
<1> HIDE DEF h, aside2, g, both
<1>9. RenamesBy(g, d, both)
  BY <1>0, <1>2, <1>7, RenamedTwice
<1>10. \A r \in DOMAIN d.roles : f[r] \in DOMAIN e.roles /\ both[r] = h[f[r]]
  BY <1>0, <1>4
<1>11. "employee-admin" \in DOMAIN e.roles <=> "employee-admin" \in DOMAIN d.roles
  BY <1>1, <1>3, <1>4 DEF Shipped
<1>12. ASSUME NEW r \in DOMAIN d.roles
       PROVE  /\ both[r] \in {r, "user", "user-admin"} \cup Aside("user") \cup Aside("user-admin")
              /\ r \notin {"employee", "employee-admin", "user", "user-admin"} => both[r] = r
  <2>1. /\ f[r] \in {r, "user"} \cup Aside("user")
        /\ r \notin {"employee", "user"} => f[r] = r
    BY <1>1, <1>3
  <2>2. /\ h[f[r]] \in {f[r], "user-admin"} \cup Aside("user-admin")
        /\ f[r] \notin {"employee-admin", "user-admin"} => h[f[r]] = f[r]
    BY <1>6, <1>8, <1>10
  <2> QED
    BY <1>10, <2>1, <2>2
<1>13. ASSUME "employee" \in DOMAIN d.roles PROVE both["employee"] = "user"
  BY <1>3, <1>8, <1>10, <1>13
<1>14. ASSUME "employee-admin" \in DOMAIN d.roles PROVE both["employee-admin"] = "user-admin"
  BY <1>3, <1>8, <1>10, <1>11, <1>14
<1>15. ASSUME "employee" \notin DOMAIN d.roles, "user" \in DOMAIN d.roles PROVE both["user"] = "user"
  BY <1>3, <1>8, <1>10, <1>15
<1>16. ASSUME "employee-admin" \notin DOMAIN d.roles, "user-admin" \in DOMAIN d.roles PROVE both["user-admin"] = "user-admin"
  BY <1>3, <1>8, <1>10, <1>11, <1>16
<1> QED
  BY <1>9, <1>12, <1>13, <1>14, <1>15, <1>16 DEF g, both

\* What the second renaming leaves, and that as many roles are there after as before.
LEMMA RolesAreRenamed ==
  ASSUME NEW uses, NEW d, Facts(d, 21, 1, uses)
  PROVE  /\ Facts(Effect(d, Rewrite("renameRoles")), 21, 2, uses)
         /\ Cardinality(DOMAIN Rewritten(d, "renameRoles").roles) = Cardinality(DOMAIN d.roles)
<1> DEFINE e == Effect(d, Rewrite("renameRoles"))
           g == RolesRenamed(d)
           f == TwoRenames(d)
           x == CASE g.directory = "employee" -> "user" [] g.directory = "employee-admin" -> "user-admin" [] OTHER -> g.directory
<1>0. RolesThere(d, 21, 1) /\ MembersRight(d, 21, 1) /\ RightsStand(d, 21, 1) /\ EntriesThere(d, 21, 1) /\ IsDatabase(d)
  BY DEF Facts
<1>1. e = [g EXCEPT !.directory = x] /\ Rewritten(d, "renameRoles") = e
  BY DEF Effect, Rewrite, Rewritten, RolesRenamed, pointTheDirectoryAtTheRenamedRole
<1>2. /\ DOMAIN d.roles \subseteq Fixed \cup OwnNames /\ "admin" \in DOMAIN d.roles /\ IsFiniteSet(DOMAIN d.roles)
      /\ "user-admin" \in DOMAIN d.roles \/ "employee-admin" \in DOMAIN d.roles
      /\ DOMAIN d.roles \subseteq Names
  BY <1>0 DEF RolesThere, Since
<1>3. /\ d.roles = [r \in DOMAIN d.roles |-> d.roles[r]] /\ d.members = [a \in DOMAIN d.members |-> d.members[a]]
      /\ DOMAIN d.members \subseteq People
      /\ \A a \in DOMAIN d.members : d.members[a] \in DOMAIN d.roles
  BY <1>0 DEF RightsStand, MembersRight, Since
<1>4. /\ RenamesBy(g, d, f)
      /\ \A r \in DOMAIN d.roles :
           /\ f[r] \in {r, "user", "user-admin"} \cup Aside("user") \cup Aside("user-admin")
           /\ r \notin {"employee", "employee-admin", "user", "user-admin"} => f[r] = r
      /\ "employee" \in DOMAIN d.roles => f["employee"] = "user"
      /\ "employee-admin" \in DOMAIN d.roles => f["employee-admin"] = "user-admin"
      /\ "employee" \notin DOMAIN d.roles /\ "user" \in DOMAIN d.roles => f["user"] = "user"
      /\ "employee-admin" \notin DOMAIN d.roles /\ "user-admin" \in DOMAIN d.roles => f["user-admin"] = "user-admin"
  BY <1>0, <1>2, <1>3, BothAreRenamed
<1>5. f = [r \in DOMAIN d.roles |-> f[r]]
  BY DEF TwoRenames
<1> HIDE DEF e, g, f, x
<1>6. /\ IsDatabase(g) /\ g.owners = d.owners /\ g.entries = d.entries /\ g.spare = d.spare /\ g.first = d.first
      /\ DOMAIN g.roles = {f[r] : r \in DOMAIN d.roles}
      /\ \A r \in DOMAIN d.roles : g.roles[f[r]] = d.roles[r]
      /\ g.roles = [r \in DOMAIN g.roles |-> g.roles[r]]
      /\ g.members = [a \in DOMAIN d.members |-> IF d.members[a] \in DOMAIN d.roles THEN f[d.members[a]] ELSE d.members[a]]
  BY <1>4 DEF RenamesBy
<1>7. IsDatabase(e) /\ e.owners = d.owners /\ e.entries = d.entries /\ e.spare = d.spare /\ e.first = d.first
      /\ e.roles = g.roles /\ e.members = g.members
  BY <1>1, <1>6 DEF IsDatabase
<1>8. IsFiniteSet(DOMAIN g.roles) /\ Cardinality(DOMAIN g.roles) = Cardinality(DOMAIN d.roles)
  BY <1>2, <1>4, <1>5, AsManyRoles
<1>9. f["admin"] = "admin" /\ "admin" \in DOMAIN g.roles /\ g.roles["admin"] = d.roles["admin"]
  BY <1>2, <1>4, <1>6
<1>10. DOMAIN g.roles \subseteq Names
       /\ DOMAIN g.roles \subseteq Fixed \cup OwnNames \cup Aside("user") \cup Aside("user-admin")
  <2>1. {"user", "user-admin"} \subseteq Names \cap Fixed
    BY DEF Names, Fixed, Shipped
  <2>2. Aside("user") \subseteq Names /\ Aside("user-admin") \subseteq Names
    BY AsideApart
  <2> QED
    BY <1>2, <1>4, <1>6, <2>1, <2>2
<1>11. "user-admin" \in DOMAIN g.roles
  BY <1>2, <1>4, <1>6
<1>12. RolesThere(e, 21, 2)
  BY <1>7, <1>8, <1>9, <1>10, <1>11 DEF RolesThere, Since
<1>13. MembersRight(e, 21, 2)
  <2>1. \A a \in DOMAIN d.members : g.members[a] \in DOMAIN g.roles
    BY <1>3, <1>6
  <2>2. \A a \in DOMAIN d.members : g.members[a] \in Names
    BY <1>10, <2>1
  <2>3. g.members = [a \in DOMAIN g.members |-> g.members[a]] /\ DOMAIN g.members = DOMAIN d.members
    BY <1>6
  <2>4. g.members \in [DOMAIN g.members -> Names]
    BY <2>2, <2>3
  <2> QED
    BY <1>3, <1>7, <2>1, <2>3, <2>4 DEF MembersRight, Since
<1>14. EntriesThere(e, 21, 2)
  <2>1. 21 \in Nat /\ 1 \in Nat /\ 2 \in Nat /\ 2 = 1 + 1 /\ ~(21 = 18 /\ 1 = 1) /\ 21 # 4
    OBVIOUS
  <2> HIDE DEF e
  <2> QED
    BY <1>0, <1>7, <2>1, EntriesStay
<1>15. /\ RetiredBy(21, 2) = RetiredBy(21, 1) /\ TakenFromAdmin(21, 2) = TakenFromAdmin(21, 1)
       /\ GivenToAdmin(21, 2) = GivenToAdmin(21, 1) /\ GivenToEveryday(21, 2) = GivenToEveryday(21, 1)
       /\ Since(21, 1, 3, 9) /\ Since(21, 2, 3, 9) /\ ~Since(21, 2, 51, 1) /\ ~Since(21, 1, 51, 1)
       /\ Since(21, 1, 15, 1) /\ Since(21, 2, 15, 1)
  BY DEF RetiredBy, TakenFromAdmin, GivenToAdmin, GivenToEveryday, Since
<1>16. RightsStand(e, 21, 2)
  <2>1. \A r \in DOMAIN d.roles : d.roles[r] \in SUBSET AllRights /\ d.roles[r] \cap RetiredBy(21, 1) = {} /\ d.roles[r] \cap Team = {}
    BY <1>0, <1>15 DEF RightsStand
  <2>2. \A r \in DOMAIN g.roles : g.roles[r] \in SUBSET AllRights /\ g.roles[r] \cap RetiredBy(21, 1) = {} /\ g.roles[r] \cap Team = {}
    BY <1>6, <2>1
  <2>3. g.roles \in [DOMAIN g.roles -> SUBSET AllRights]
    BY <1>6, <2>2
  <2>4. GivenToAdmin(21, 1) \subseteq g.roles["admin"] /\ g.roles["admin"] \cap TakenFromAdmin(21, 1) = {}
    BY <1>0, <1>2, <1>9, <1>15 DEF RightsStand
  <2> QED
    BY <1>7, <1>15, <2>2, <2>3, <2>4 DEF RightsStand
<1>17. ASSUME uses = 0 PROVE AsShipped(e, 21, 2)
  <2>1. AsShipped(d, 21, 1)
    BY <1>17 DEF Facts
  <2>2. /\ Everyday(e, 21, 2) = "user" /\ Combined(e, 21, 2) = {"user-admin"}
        /\ Everyday(d, 21, 1) = (IF d.first THEN "employee" ELSE "user") /\ Combined(d, 21, 1) = {"user-admin"}
    BY DEF Everyday, Combined, Since
  <2>3. /\ DOMAIN d.roles = {"admin", Everyday(d, 21, 1), "user-admin"}
        /\ GivenToEveryday(21, 1) \subseteq d.roles[Everyday(d, 21, 1)]
        /\ d.roles[Everyday(d, 21, 1)] \subseteq Working \cup Retired
        /\ Working \cup Administering \subseteq d.roles["user-admin"]
        /\ d.roles["user-admin"] \subseteq Working \cup Administering \cup Retired
    BY <1>15, <2>1, <2>2 DEF AsShipped
  <2>4. f[Everyday(d, 21, 1)] = "user" /\ f["user-admin"] = "user-admin"
    BY <1>4, <2>2, <2>3
  <2>5. /\ DOMAIN g.roles = {"admin", "user", "user-admin"}
        /\ g.roles["user"] = d.roles[Everyday(d, 21, 1)] /\ g.roles["user-admin"] = d.roles["user-admin"]
    BY <1>6, <1>9, <2>3, <2>4
  <2> QED
    BY <1>7, <1>15, <2>2, <2>3, <2>5 DEF AsShipped
<1> QED
  BY <1>1, <1>7, <1>8, <1>12, <1>13, <1>14, <1>16, <1>17 DEF Facts, e

\* Migration 51: the manager's role is shipped, and one of that name moved aside.
LEMMA ManagerIsShipped ==
  ASSUME NEW uses, NEW d, Facts(d, 50, 1, uses)
  PROVE  Facts(Effect(d, Rewrite("shipManager")), 50, 2, uses)
<1> DEFINE e == Effect(d, Rewrite("shipManager"))
           aside == aFreeRoleName(d, "manager")
           g == IF "manager" \in DOMAIN d.roles THEN setRoleName(d, "manager", aside) ELSE d
           f == [r \in DOMAIN d.roles |-> IF r = "manager" THEN aside ELSE r]
           rights == Working \cup Team
<1>0. RolesThere(d, 50, 1) /\ MembersRight(d, 50, 1) /\ RightsStand(d, 50, 1) /\ EntriesThere(d, 50, 1) /\ IsDatabase(d)
  BY DEF Facts
<1>2. /\ DOMAIN d.roles \subseteq Fixed \cup OwnNames \cup Aside("user") \cup Aside("user-admin")
      /\ "admin" \in DOMAIN d.roles /\ "user-admin" \in DOMAIN d.roles
      /\ IsFiniteSet(DOMAIN d.roles) /\ DOMAIN d.roles \subseteq Names
  BY <1>0 DEF RolesThere, Since
<1>3. /\ d.roles = [r \in DOMAIN d.roles |-> d.roles[r]] /\ d.members = [a \in DOMAIN d.members |-> d.members[a]]
      /\ DOMAIN d.members \subseteq People
      /\ \A a \in DOMAIN d.members : d.members[a] \in DOMAIN d.roles
  BY <1>0 DEF RightsStand, MembersRight, Since
<1>4. \A r \in DOMAIN d.roles : d.roles[r] \in SUBSET AllRights /\ d.roles[r] \cap RetiredBy(50, 1) = {} /\ d.roles[r] \cap Team = {}
  BY <1>0 DEF RightsStand, Since
<1>5. e = [g EXCEPT !.roles = With(g.roles, "manager", rights)]
  <2>1. CASE "manager" \notin DOMAIN d.roles
    <3>1. e = seedRole(d, "manager") /\ g = d
      BY <2>1 DEF Effect, Rewrite, Rewritten
    <3> HIDE DEF e, g
    <3> QED
      BY <3>1, ShippedRights DEF seedRole
  <2>2. CASE "manager" \in DOMAIN d.roles
    <3>1. "timesheets:read:team" \notin d.roles["manager"]
      BY <1>4, <2>2 DEF Team
    <3>2. e = seedRole(g, "manager")
      BY <2>2, <3>1 DEF Effect, Rewrite, Rewritten
    <3> HIDE DEF e, g
    <3> QED
      BY <3>2, ShippedRights DEF seedRole
  <2> QED
    BY <2>1, <2>2
<1>6. aside \in Aside("manager") \ DOMAIN d.roles /\ aside \notin Shipped /\ aside \in Names
  <2>1. DOMAIN d.roles \subseteq Fixed \cup OwnNames \cup UNION {Aside(other) : other \in InTheWay \ {"manager"}}
    BY <1>2, AsideApart
  <2>2. aside \in Aside("manager") \ DOMAIN d.roles
    BY <2>1, AsideApart, FreeName
  <2> QED
    BY <2>2, AsideApart
<1>7. RenamesBy(g, d, f)
  <2>1. CASE "manager" \notin DOMAIN d.roles
    <3>1. g = d /\ f = [r \in DOMAIN d.roles |-> r]
      BY <2>1
    <3> HIDE DEF g, f
    <3>2. /\ DOMAIN d.roles = {f[r] : r \in DOMAIN d.roles}
          /\ d.members = [a \in DOMAIN d.members |-> IF d.members[a] \in DOMAIN d.roles THEN f[d.members[a]] ELSE d.members[a]]
      BY <1>3, <3>1
    <3>3. RenamesBy(d, d, f)
      BY <1>0, <1>3, <3>1, <3>2 DEF RenamesBy
    <3> QED
      BY <3>1, <3>3
  <2>2. CASE "manager" \in DOMAIN d.roles
    <3>1. RenamesBy(setRoleName(d, "manager", aside), d, Takes(d, "manager", aside))
      BY <1>0, <1>6, <2>2, NameIsTaken
    <3>2. f = Takes(d, "manager", aside) /\ g = setRoleName(d, "manager", aside)
      BY <2>2 DEF Takes
    <3> HIDE DEF f, g
    <3> QED
      BY <3>1, <3>2
  <2> QED
    BY <2>1, <2>2
<1>8. \A r \in DOMAIN d.roles : f[r] = IF r = "manager" THEN aside ELSE r
  OBVIOUS
<1>16. f = [r \in DOMAIN d.roles |-> f[r]]
  OBVIOUS
<1>17. rights = Working \cup Team
  OBVIOUS
<1> HIDE DEF e, g, f, aside, rights
<1>9. /\ IsDatabase(g) /\ g.owners = d.owners /\ g.entries = d.entries /\ g.spare = d.spare /\ g.first = d.first
      /\ DOMAIN g.roles = {f[r] : r \in DOMAIN d.roles}
      /\ \A r \in DOMAIN d.roles : g.roles[f[r]] = d.roles[r]
      /\ g.members = [a \in DOMAIN d.members |-> IF d.members[a] \in DOMAIN d.roles THEN f[d.members[a]] ELSE d.members[a]]
  BY <1>7 DEF RenamesBy
<1>10. IsFiniteSet(DOMAIN g.roles)
  BY <1>2, <1>7, <1>16, AsManyRoles
<1>11. /\ IsDatabase(e) /\ e.owners = d.owners /\ e.entries = d.entries /\ e.spare = d.spare /\ e.first = d.first
       /\ e.members = g.members /\ e.roles = With(g.roles, "manager", rights)
  BY <1>5, <1>9 DEF IsDatabase
<1>12. /\ DOMAIN e.roles = DOMAIN g.roles \cup {"manager"} /\ e.roles["manager"] = rights
       /\ \A r \in DOMAIN g.roles \ {"manager"} : e.roles[r] = g.roles[r]
       /\ e.roles = [r \in DOMAIN e.roles |-> e.roles[r]]
  BY <1>11 DEF With
<1>13. "manager" \notin DOMAIN g.roles
  BY <1>6, <1>8, <1>9 DEF Shipped
<1>14. \A r \in DOMAIN d.roles \ {"manager"} : r \in DOMAIN g.roles /\ e.roles[r] = d.roles[r]
  BY <1>8, <1>9, <1>12, <1>13
<1>15. RolesThere(e, 50, 2)
  <2>1. DOMAIN e.roles \subseteq Names
    <3>1. "manager" \in Names
      BY DEF Names, Shipped
    <3> QED
      BY <1>2, <1>6, <1>8, <1>9, <1>12, <3>1
  <2>2. IsFiniteSet(DOMAIN e.roles)
    BY <1>10, <1>12, FS_AddElement
  <2>3. {"admin", "user-admin", "manager"} \subseteq DOMAIN e.roles
    BY <1>2, <1>12, <1>14
  <2> QED
    BY <2>1, <2>2, <2>3 DEF RolesThere, Since
<1>18. MembersRight(e, 50, 2)
  <2>1. \A a \in DOMAIN d.members : g.members[a] \in DOMAIN g.roles
    BY <1>3, <1>9
  <2>2. DOMAIN g.roles \subseteq Names
    BY <1>2, <1>6, <1>8, <1>9
  <2>3. g.members = [a \in DOMAIN g.members |-> g.members[a]] /\ DOMAIN g.members = DOMAIN d.members
    BY <1>9
  <2>4. g.members \in [DOMAIN g.members -> Names]
    BY <2>1, <2>2, <2>3
  <2> QED
    BY <1>3, <1>11, <1>12, <2>1, <2>3, <2>4 DEF MembersRight, Since
<1>19. EntriesThere(e, 50, 2)
  <2>1. 50 \in Nat /\ 1 \in Nat /\ 2 \in Nat /\ 2 = 1 + 1 /\ ~(50 = 18 /\ 1 = 1) /\ 50 # 4
    OBVIOUS
  <2> HIDE DEF e
  <2> QED
    BY <1>0, <1>11, <2>1, EntriesStay
<1>20. /\ RetiredBy(50, 2) = RetiredBy(50, 1) /\ TakenFromAdmin(50, 2) = TakenFromAdmin(50, 1)
       /\ GivenToAdmin(50, 2) = GivenToAdmin(50, 1) /\ GivenToEveryday(50, 2) = GivenToEveryday(50, 1)
       /\ Since(50, 1, 3, 9) /\ Since(50, 2, 3, 9) /\ Since(50, 2, 51, 1) /\ ~Since(50, 1, 51, 1)
       /\ Since(50, 1, 15, 1) /\ Since(50, 2, 15, 1)
       /\ RetiredBy(50, 1) \subseteq Retired
  BY DEF RetiredBy, TakenFromAdmin, GivenToAdmin, GivenToEveryday, Since
<1>21. RightsStand(e, 50, 2)
  <2>1. rights \subseteq AllRights /\ rights \cap Retired = {}
    BY <1>17, RightsApart DEF AllRights
  <2>2. \A r \in DOMAIN g.roles : g.roles[r] \in SUBSET AllRights /\ g.roles[r] \cap RetiredBy(50, 1) = {} /\ g.roles[r] \cap Team = {}
    BY <1>4, <1>9
  <2>3. \A r \in DOMAIN e.roles : e.roles[r] \in SUBSET AllRights /\ e.roles[r] \cap RetiredBy(50, 1) = {}
    BY <1>12, <1>20, <2>1, <2>2
  <2>4. e.roles \in [DOMAIN e.roles -> SUBSET AllRights]
    BY <1>12, <2>3
  <2>5. \A r \in DOMAIN e.roles \ {"manager"} : e.roles[r] \cap Team = {}
    BY <1>12, <2>2
  <2>6. GivenToAdmin(50, 1) \subseteq e.roles["admin"] /\ e.roles["admin"] \cap TakenFromAdmin(50, 1) = {}
    BY <1>0, <1>2, <1>14, <1>20 DEF RightsStand
  <2>7. e.roles["manager"] = DefaultRoles["manager"]
    BY <1>12, <1>17, ShippedRights
  <2> QED
    BY <1>20, <2>3, <2>4, <2>5, <2>6, <2>7 DEF RightsStand
<1>22. ASSUME uses = 0 PROVE AsShipped(e, 50, 2)
  <2>1. AsShipped(d, 50, 1)
    BY <1>22 DEF Facts
  <2>2. /\ Everyday(e, 50, 2) = "user" /\ Combined(e, 50, 2) = {"user-admin"}
        /\ Everyday(d, 50, 1) = "user" /\ Combined(d, 50, 1) = {"user-admin"}
    BY DEF Everyday, Combined, Since
  <2>3. /\ DOMAIN d.roles = {"admin", "user", "user-admin"}
        /\ GivenToEveryday(50, 1) \subseteq d.roles["user"]
        /\ d.roles["user"] \subseteq Working \cup Retired
        /\ Working \cup Administering \subseteq d.roles["user-admin"]
        /\ d.roles["user-admin"] \subseteq Working \cup Administering \cup Retired
    BY <1>20, <2>1, <2>2 DEF AsShipped
  <2>4. DOMAIN g.roles = {"admin", "user", "user-admin"}
    BY <1>8, <1>9, <2>3
  <2>5. e.roles["user"] = d.roles["user"] /\ e.roles["user-admin"] = d.roles["user-admin"]
        /\ DOMAIN e.roles \ {"manager"} = {"admin", "user", "user-admin"}
    BY <1>12, <1>14, <2>3, <2>4
  <2> QED
    BY <1>20, <2>2, <2>3, <2>5 DEF AsShipped
<1> QED
  BY <1>11, <1>15, <1>18, <1>19, <1>21, <1>22 DEF Facts, e
-----------------------------------------------------------------------------
(* From one statement, and one migration, to the next.                     *)

LEMMA StatementKeepsFacts ==
  ASSUME NEW v \in 0 .. 54, NEW p \in DOMAIN All[v + 1], NEW uses, NEW d, Facts(d, v, p, uses)
  PROVE  Facts(Effect(d, All[v + 1][p]), v, p + 1, uses)
<1> DEFINE s == All[v + 1][p]
<1>a. v \in Nat /\ v + 1 \in 1 .. 55
  OBVIOUS
<1>b. p \in 1 .. Len(All[v + 1]) /\ Len(All[v + 1]) \in Nat
  BY <1>a, LengthsAre
<1>0. v \in Nat /\ p \in Nat /\ v + 1 \in 1 .. 55
  BY <1>a, <1>b
<1>1. (LeavesRows(s) /\ AtPlainPlace(v + 1, p)) \/ RewritesRows(v + 1, p, s)
  BY <1>0, StatementsAre
<1> HIDE DEF s
<1>2. CASE LeavesRows(s) /\ AtPlainPlace(v + 1, p)
  BY <1>0, <1>2, PlainStatement DEF s
<1>3. CASE RewritesRows(v + 1, p, s)
  <2>1. ASSUME v + 1 = 3, p = 9, s = Rewrite("seedRoles") PROVE Facts(Effect(d, s), v, p + 1, uses)
    <3>1. v = 2 /\ p + 1 = 10
      BY <1>0, <2>1
    <3>2. Facts(d, 2, 9, uses)
      BY <2>1, <3>1
    <3>3. Facts(Effect(d, Rewrite("seedRoles")), 2, 10, uses)
      BY <3>2, RolesAreSeeded
    <3> QED
      BY <2>1, <3>1, <3>3
  <2>2. ASSUME v + 1 = 3, p = 10, s = Rewrite("rolesByName") PROVE Facts(Effect(d, s), v, p + 1, uses)
    <3>1. v = 2 /\ p + 1 = 11
      BY <1>0, <2>2
    <3>2. Facts(d, 2, 10, uses)
      BY <2>2, <3>1
    <3>3. Facts(Effect(d, Rewrite("rolesByName")), 2, 11, uses)
      BY <3>2, MembersHaveRoles
    <3> QED
      BY <2>2, <3>1, <3>3
  <2>3. ASSUME v + 1 = 4, p = 8, s = Rewrite("reportsToTheAdministrator") PROVE Facts(Effect(d, s), v, p + 1, uses)
    <3>1. v = 3 /\ p + 1 = 9
      BY <1>0, <2>3
    <3>2. Facts(d, 3, 8, uses)
      BY <2>3, <3>1
    <3>3. Facts(Effect(d, Rewrite("reportsToTheAdministrator")), 3, 9, uses)
      BY <3>2, ReportsGoToTheAdministrator
    <3> QED
      BY <2>3, <3>1, <3>3
  <2>4. ASSUME dialect = "sqlite", v + 1 = 5, p = 2, s = Rewrite("copyEntries") PROVE Facts(Effect(d, s), v, p + 1, uses)
    <3>1. v = 4 /\ p + 1 = 3
      BY <1>0, <2>4
    <3>2. Facts(d, 4, 2, uses)
      BY <2>4, <3>1
    <3>3. Facts(Effect(d, Rewrite("copyEntries")), 4, 3, uses)
      BY <2>4, <3>2, EntriesAreCopied
    <3> QED
      BY <2>4, <3>1, <3>3
  <2>5. ASSUME dialect = "sqlite", v + 1 = 5, p = 3, s = Drop(EntriesTable) PROVE Facts(Effect(d, s), v, p + 1, uses)
    <3>1. v = 4 /\ p + 1 = 4
      BY <1>0, <2>5
    <3>2. Facts(d, 4, 3, uses)
      BY <2>5, <3>1
    <3>4. s.op = "drop" /\ s.what = EntriesTable
      BY <2>5 DEF Drop
    <3>3. Facts(Effect(d, s), 4, 4, uses)
      BY <2>5, <3>2, <3>4, TableIsDropped
    <3> QED
      BY <2>5, <3>1, <3>3
  <2>6. ASSUME dialect = "sqlite", v + 1 = 5, p = 4, s = Rewrite("renameTable") PROVE Facts(Effect(d, s), v, p + 1, uses)
    <3>1. v = 4 /\ p + 1 = 5
      BY <1>0, <2>6
    <3>2. Facts(d, 4, 4, uses)
      BY <2>6, <3>1
    <3>3. Facts(Effect(d, Rewrite("renameTable")), 4, 5, uses)
      BY <2>6, <3>2, CopyIsTheTable
    <3> QED
      BY <2>6, <3>1, <3>3
  <2>7. ASSUME v + 1 = 7, p = 3, s = GrantTo("every", {"projects:write:own"}) PROVE Facts(Effect(d, s), v, p + 1, uses)
    <3>1. v = 6 /\ p + 1 = 4
      BY <1>0, <2>7
    <3>2. Facts(d, 6, 3, uses)
      BY <2>7, <3>1
    <3>3. Facts(Effect(d, GrantTo("every", {"projects:write:own"})), 6, 4, uses)
      BY <3>2, EveryRoleKeepsItsProjects
    <3> QED
      BY <2>7, <3>1, <3>3
  <2>8. ASSUME v + 1 = 14, p = 1, s = Revoke("admin", TakenAway) PROVE Facts(Effect(d, s), v, p + 1, uses)
    <3>1. v = 13 /\ p + 1 = 2
      BY <1>0, <2>8
    <3>2. Facts(d, 13, 1, uses)
      BY <2>8, <3>1
    <3>3. Facts(Effect(d, Revoke("admin", TakenAway)), 13, 2, uses)
      BY <3>2, AdministratorGivesUpWork
    <3> QED
      BY <2>8, <3>1, <3>3
  <2>9. ASSUME v + 1 = 14, p = 2, s = GrantTo("manager", {"reports:read", "projects:delete"}) PROVE Facts(Effect(d, s), v, p + 1, uses)
    <3>1. v = 13 /\ p + 1 = 3
      BY <1>0, <2>9
    <3>2. Facts(d, 13, 2, uses)
      BY <2>9, <3>1
    <3>3. Facts(Effect(d, GrantTo("manager", {"reports:read", "projects:delete"})), 13, 3, uses)
      BY <3>2, ManagerHasReports
    <3> QED
      BY <2>9, <3>1, <3>3
  <2>10. ASSUME v + 1 = 15, p = 1, s = Rewrite("moveManagers") PROVE Facts(Effect(d, s), v, p + 1, uses)
    <3>1. v = 14 /\ p + 1 = 2
      BY <1>0, <2>10
    <3>2. Facts(d, 14, 1, uses)
      BY <2>10, <3>1
    <3>3. Facts(Effect(d, Rewrite("moveManagers")), 14, 2, uses)
      BY <3>2, ManagersMove
    <3> QED
      BY <2>10, <3>1, <3>3
  <2>11. ASSUME v + 1 = 15, p = 2, s = Withdraw({"timesheets:approve"}) PROVE Facts(Effect(d, s), v, p + 1, uses)
    <3>1. v = 14 /\ p + 1 = 3
      BY <1>0, <2>11
    <3>2. Facts(d, 14, 2, uses)
      BY <2>11, <3>1
    <3>3. Facts(Effect(d, Withdraw({"timesheets:approve"})), 14, 3, uses)
      BY <3>2, NobodyApproves
    <3> QED
      BY <2>11, <3>1, <3>3
  <2>12. ASSUME v + 1 = 15, p = 3, s = Rewrite("grantOrdinary") PROVE Facts(Effect(d, s), v, p + 1, uses)
    <3>1. v = 14 /\ p + 1 = 4
      BY <1>0, <2>12
    <3>2. Facts(d, 14, 3, uses)
      BY <2>12, <3>1
    <3>3. Facts(Effect(d, Rewrite("grantOrdinary")), 14, 4, uses)
      BY <3>2, OrdinaryRoleWorks
    <3> QED
      BY <2>12, <3>1, <3>3
  <2>13. ASSUME v + 1 = 16, p = 1, s = Rewrite("adopt") PROVE Facts(Effect(d, s), v, p + 1, uses)
    <3>1. v = 15 /\ p + 1 = 2
      BY <1>0, <2>13
    <3>2. Facts(d, 15, 1, uses)
      BY <2>13, <3>1
    <3>3. Facts(Effect(d, Rewrite("adopt")), 15, 2, uses)
      BY <3>2, AccountsAreAdopted
    <3> QED
      BY <2>13, <3>1, <3>3
  <2>14. ASSUME v + 1 = 17, p = 1, s = Withdraw({"reports:read"}) PROVE Facts(Effect(d, s), v, p + 1, uses)
    <3>1. v = 16 /\ p + 1 = 2
      BY <1>0, <2>14
    <3>2. Facts(d, 16, 1, uses)
      BY <2>14, <3>1
    <3>3. Facts(Effect(d, Withdraw({"reports:read"})), 16, 2, uses)
      BY <3>2, NobodyReads
    <3> QED
      BY <2>14, <3>1, <3>3
  <2>15. ASSUME v + 1 = 18, p = 1, s = Withdraw({"settings:write:other"}) PROVE Facts(Effect(d, s), v, p + 1, uses)
    <3>1. v = 17 /\ p + 1 = 2
      BY <1>0, <2>15
    <3>2. Facts(d, 17, 1, uses)
      BY <2>15, <3>1
    <3>3. Facts(Effect(d, Withdraw({"settings:write:other"})), 17, 2, uses)
      BY <3>2, NobodySetsForOthers
    <3> QED
      BY <2>15, <3>1, <3>3
  <2>16. ASSUME v + 1 = 19, p = 1, s = Rewrite("splitProjects") PROVE Facts(Effect(d, s), v, p + 1, uses)
    <3>1. v = 18 /\ p + 1 = 2
      BY <1>0, <2>16
    <3>2. Facts(d, 18, 1, uses)
      BY <2>16, <3>1
    <3>3. Facts(Effect(d, Rewrite("splitProjects")), 18, 2, uses)
      BY <3>2, ProjectsHaveOwners
    <3> QED
      BY <2>16, <3>1, <3>3
  <2>17. ASSUME v + 1 = 19, p = 2, s = GrantHolding("projects:write:own", {"projects:write", "projects:archive", "projects:delete"}) PROVE Facts(Effect(d, s), v, p + 1, uses)
    <3>1. v = 18 /\ p + 1 = 3
      BY <1>0, <2>17
    <3>2. Facts(d, 18, 2, uses)
      BY <2>17, <3>1
    <3>3. Facts(Effect(d, GrantHolding("projects:write:own", {"projects:write", "projects:archive", "projects:delete"})), 18, 3, uses)
      BY <3>2, ProjectRightsFollow
    <3> QED
      BY <2>17, <3>1, <3>3
  <2>18. ASSUME v + 1 = 19, p = 3, s = Withdraw({"projects:write:own"}) PROVE Facts(Effect(d, s), v, p + 1, uses)
    <3>1. v = 18 /\ p + 1 = 4
      BY <1>0, <2>18
    <3>2. Facts(d, 18, 3, uses)
      BY <2>18, <3>1
    <3>3. Facts(Effect(d, Withdraw({"projects:write:own"})), 18, 4, uses)
      BY <3>2, OwnProjectsAreProjects
    <3> QED
      BY <2>18, <3>1, <3>3
  <2>19. ASSUME v + 1 = 20, p = 1, s = Rewrite("seedCombined") PROVE Facts(Effect(d, s), v, p + 1, uses)
    <3>1. v = 19 /\ p + 1 = 2
      BY <1>0, <2>19
    <3>2. Facts(d, 19, 1, uses)
      BY <2>19, <3>1
    <3>3. Facts(Effect(d, Rewrite("seedCombined")), 19, 2, uses)
      BY <3>2, CombinedIsSeeded
    <3> QED
      BY <2>19, <3>1, <3>3
  <2>20. ASSUME v + 1 = 20, p = 2, s = Revoke("admin", Working \ {"timesheets:transfer"}) PROVE Facts(Effect(d, s), v, p + 1, uses)
    <3>1. v = 19 /\ p + 1 = 3
      BY <1>0, <2>20
    <3>2. Facts(d, 19, 2, uses)
      BY <2>20, <3>1
    <3>3. Facts(Effect(d, Revoke("admin", Working \ {"timesheets:transfer"})), 19, 3, uses)
      BY <3>2, AdministratorOnlyAdministers
    <3> QED
      BY <2>20, <3>1, <3>3
  <2>21. ASSUME v + 1 = 21, p = 1, s = GrantHolding("timesheets:read:all", {"timesheets:read:own"}) PROVE Facts(Effect(d, s), v, p + 1, uses)
    <3>1. v = 20 /\ p + 1 = 2
      BY <1>0, <2>21
    <3>2. Facts(d, 20, 1, uses)
      BY <2>21, <3>1
    <3>3. Facts(Effect(d, GrantHolding("timesheets:read:all", {"timesheets:read:own"})), 20, 2, uses)
      BY <3>2, ReadersReadTheirOwn
    <3> QED
      BY <2>21, <3>1, <3>3
  <2>22. ASSUME v + 1 = 21, p = 2, s = Withdraw({"timesheets:read:all"}) PROVE Facts(Effect(d, s), v, p + 1, uses)
    <3>1. v = 20 /\ p + 1 = 3
      BY <1>0, <2>22
    <3>2. Facts(d, 20, 2, uses)
      BY <2>22, <3>1
    <3>3. Facts(Effect(d, Withdraw({"timesheets:read:all"})), 20, 3, uses)
      BY <3>2, NobodyReadsEverybodys
    <3> QED
      BY <2>22, <3>1, <3>3
  <2>23. ASSUME v + 1 = 21, p = 3, s = GrantHolding("timesheets:write:all", {"timesheets:write:own"}) PROVE Facts(Effect(d, s), v, p + 1, uses)
    <3>1. v = 20 /\ p + 1 = 4
      BY <1>0, <2>23
    <3>2. Facts(d, 20, 3, uses)
      BY <2>23, <3>1
    <3>3. Facts(Effect(d, GrantHolding("timesheets:write:all", {"timesheets:write:own"})), 20, 4, uses)
      BY <3>2, WritersWriteTheirOwn
    <3> QED
      BY <2>23, <3>1, <3>3
  <2>24. ASSUME v + 1 = 21, p = 4, s = Withdraw({"timesheets:write:all"}) PROVE Facts(Effect(d, s), v, p + 1, uses)
    <3>1. v = 20 /\ p + 1 = 5
      BY <1>0, <2>24
    <3>2. Facts(d, 20, 4, uses)
      BY <2>24, <3>1
    <3>3. Facts(Effect(d, Withdraw({"timesheets:write:all"})), 20, 5, uses)
      BY <3>2, NobodyWritesEverybodys
    <3> QED
      BY <2>24, <3>1, <3>3
  <2>25. ASSUME v + 1 = 22, p = 1, s = Rewrite("renameRoles") PROVE Facts(Effect(d, s), v, p + 1, uses)
    <3>1. v = 21 /\ p + 1 = 2
      BY <1>0, <2>25
    <3>2. Facts(d, 21, 1, uses)
      BY <2>25, <3>1
    <3>3. Facts(Effect(d, Rewrite("renameRoles")), 21, 2, uses)
      BY <3>2, RolesAreRenamed
    <3> QED
      BY <2>25, <3>1, <3>3
  <2>26. ASSUME v + 1 = 23, p = 1, s = GrantHolding("users:write", {"settings:manage"}) PROVE Facts(Effect(d, s), v, p + 1, uses)
    <3>1. v = 22 /\ p + 1 = 2
      BY <1>0, <2>26
    <3>2. Facts(d, 22, 1, uses)
      BY <2>26, <3>1
    <3>3. Facts(Effect(d, GrantHolding("users:write", {"settings:manage"})), 22, 2, uses)
      BY <3>2, AdministratorsReachTheSettings
    <3> QED
      BY <2>26, <3>1, <3>3
  <2>27. ASSUME v + 1 = 51, p = 1, s = Rewrite("shipManager") PROVE Facts(Effect(d, s), v, p + 1, uses)
    <3>1. v = 50 /\ p + 1 = 2
      BY <1>0, <2>27
    <3>2. Facts(d, 50, 1, uses)
      BY <2>27, <3>1
    <3>3. Facts(Effect(d, Rewrite("shipManager")), 50, 2, uses)
      BY <3>2, ManagerIsShipped
    <3> QED
      BY <2>27, <3>1, <3>3
  <2> QED
    BY <1>3, <2>1, <2>2, <2>3, <2>4, <2>5, <2>6, <2>7, <2>8, <2>9, <2>10, <2>11, <2>12, <2>13, <2>14, <2>15, <2>16, <2>17, <2>18, <2>19, <2>20, <2>21, <2>22, <2>23, <2>24, <2>25, <2>26, <2>27 DEF RewritesRows, s
<1> QED
  BY <1>1, <1>2, <1>3

\* Nothing that is told of a database changes as the next migration begins.
LEMMA BeginKeepsFacts ==
  ASSUME NEW v \in Nat, NEW uses, NEW d, Facts(d, v, 0, uses)
  PROVE  Facts(d, v, 1, uses)
<1>1. \A i, k \in Nat \ {0} : Since(v, 1, i, k) = Since(v, 0, i, k)
  BY DEF Since
<1>2. RolesThere(d, v, 1)
  BY <1>1 DEF RolesThere, Facts
<1>3. MembersRight(d, v, 1)
  BY <1>1 DEF MembersRight, Facts
<1>4. /\ RetiredBy(v, 1) = RetiredBy(v, 0) /\ TakenFromAdmin(v, 1) = TakenFromAdmin(v, 0)
      /\ GivenToAdmin(v, 1) = GivenToAdmin(v, 0) /\ GivenToEveryday(v, 1) = GivenToEveryday(v, 0)
      /\ Everyday(d, v, 1) = Everyday(d, v, 0) /\ Combined(d, v, 1) = Combined(d, v, 0)
  BY <1>1 DEF RetiredBy, TakenFromAdmin, GivenToAdmin, GivenToEveryday, Everyday, Combined
<1>5. RightsStand(d, v, 1)
  BY <1>1, <1>4 DEF RightsStand, Facts
<1>6. uses = 0 => AsShipped(d, v, 1)
  BY <1>1, <1>4 DEF AsShipped, Facts
<1>7. EntriesThere(d, v, 1)
  BY <1>1 DEF EntriesThere, OwnersRight, EntriesRight, Rebuilding, Facts
<1> QED
  BY <1>2, <1>3, <1>5, <1>6, <1>7 DEF Facts

LEMMA MoreLengths ==
  /\ Len(All[1]) = 5 /\ Len(All[4]) = 8 /\ Len(All[8]) = 2 /\ Len(All[12]) = 3
  /\ Len(All[26]) = (IF dialect = "sqlite" THEN 0 ELSE 1) /\ Len(All[40]) = 1
  /\ Len(All[5]) = (IF dialect = "sqlite" THEN 6 ELSE 1)
<1>1. /\ All[1] = firstTables /\ All[4] = addSessionsAndPreferences /\ All[8] = createAPITokens
      /\ All[12] = createPasskeys /\ All[40] = keepWhatEntriesSaidBefore /\ All[5] = makeProjectOptional
      /\ All[26] = widenTOTPSecret
  BY DEF All
<1>2. /\ Len(firstTables) = 5 /\ Len(addSessionsAndPreferences) = 8 /\ Len(createAPITokens) = 2
      /\ Len(createPasskeys) = 3 /\ Len(keepWhatEntriesSaidBefore) = 1
  BY DEF firstTables, addSessionsAndPreferences, createAPITokens, createPasskeys, keepWhatEntriesSaidBefore
<1>3. Len(makeProjectOptional) = (IF dialect = "sqlite" THEN 6 ELSE 1)
  <2>1. CASE dialect = "sqlite"
    BY <2>1 DEF makeProjectOptional
  <2>2. CASE dialect # "sqlite"
    BY <2>2 DEF makeProjectOptional
  <2> QED
    BY <2>1, <2>2
<1>4. Len(widenTOTPSecret) = (IF dialect = "sqlite" THEN 0 ELSE 1)
  <2>1. CASE dialect = "sqlite"
    BY <2>1 DEF widenTOTPSecret
  <2>2. CASE dialect # "sqlite"
    BY <2>2 DEF widenTOTPSecret
  <2> QED
    BY <2>1, <2>2
<1> QED
  BY <1>1, <1>2, <1>3, <1>4

\* Two places between which no statement is that a fact waits for.
NothingInBetween(v, p, w, q) ==
  /\ Since(v, p, 3, 9) = Since(w, q, 3, 9)
  /\ Since(v, p, 3, 10) = Since(w, q, 3, 10)
  /\ Since(v, p, 14, 1) = Since(w, q, 14, 1)
  /\ Since(v, p, 15, 1) = Since(w, q, 15, 1)
  /\ Since(v, p, 15, 2) = Since(w, q, 15, 2)
  /\ Since(v, p, 15, 3) = Since(w, q, 15, 3)
  /\ Since(v, p, 16, 1) = Since(w, q, 16, 1)
  /\ Since(v, p, 17, 1) = Since(w, q, 17, 1)
  /\ Since(v, p, 18, 1) = Since(w, q, 18, 1)
  /\ Since(v, p, 19, 1) = Since(w, q, 19, 1)
  /\ Since(v, p, 19, 3) = Since(w, q, 19, 3)
  /\ Since(v, p, 20, 1) = Since(w, q, 20, 1)
  /\ Since(v, p, 20, 2) = Since(w, q, 20, 2)
  /\ Since(v, p, 21, 2) = Since(w, q, 21, 2)
  /\ Since(v, p, 21, 4) = Since(w, q, 21, 4)
  /\ Since(v, p, 22, 1) = Since(w, q, 22, 1)
  /\ Since(v, p, 23, 1) = Since(w, q, 23, 1)
  /\ Since(v, p, 51, 1) = Since(w, q, 51, 1)

\* All that a migration's statements were to do is done when the last of them is.
LEMMA AllIsDone ==
  ASSUME NEW v \in 0 .. 54, NEW p \in Nat, p > Len(All[v + 1])
  PROVE  NothingInBetween(v, p, v + 1, 0)
<1>1. ASSUME NEW i \in 1 .. 55, NEW k \in Nat, k <= Len(All[i])
      PROVE  Since(v, p, i, k) = Since(v + 1, 0, i, k)
  <2>1. Len(All[i]) \in Nat
    BY LengthsAre
  <2>2. v = i - 1 => v + 1 = i
    OBVIOUS
  <2>3. v = i - 1 => p > k
    <3>1. SUFFICES ASSUME v = i - 1 PROVE p > k
      OBVIOUS
    <3>2. p > Len(All[i])
      BY <2>2, <3>1
    <3> QED
      BY <1>1, <2>1, <3>2
  <2>4. v + 1 >= i <=> (v >= i \/ v = i - 1)
    OBVIOUS
  <2>5. ~(v + 1 = i - 1 /\ 0 > k)
    OBVIOUS
  <2> QED
    BY <2>3, <2>4, <2>5 DEF Since
<1>2. /\ 9 <= Len(All[3]) /\ 10 <= Len(All[3]) /\ 1 <= Len(All[14]) /\ 1 <= Len(All[15]) /\ 2 <= Len(All[15])
      /\ 3 <= Len(All[15]) /\ 1 <= Len(All[16]) /\ 1 <= Len(All[17]) /\ 1 <= Len(All[18]) /\ 1 <= Len(All[19])
      /\ 3 <= Len(All[19]) /\ 1 <= Len(All[20]) /\ 2 <= Len(All[20]) /\ 2 <= Len(All[21]) /\ 4 <= Len(All[21])
      /\ 1 <= Len(All[22]) /\ 1 <= Len(All[23]) /\ 1 <= Len(All[51])
  BY LengthsAre
<1>3. Since(v, p, 3, 9) = Since(v + 1, 0, 3, 9)
  BY <1>1, <1>2, 3 \in 1 .. 55, 9 \in Nat
<1>4. Since(v, p, 3, 10) = Since(v + 1, 0, 3, 10)
  BY <1>1, <1>2, 3 \in 1 .. 55, 10 \in Nat
<1>5. Since(v, p, 14, 1) = Since(v + 1, 0, 14, 1)
  BY <1>1, <1>2, 14 \in 1 .. 55, 1 \in Nat
<1>6. Since(v, p, 15, 1) = Since(v + 1, 0, 15, 1)
  BY <1>1, <1>2, 15 \in 1 .. 55, 1 \in Nat
<1>7. Since(v, p, 15, 2) = Since(v + 1, 0, 15, 2)
  BY <1>1, <1>2, 15 \in 1 .. 55, 2 \in Nat
<1>8. Since(v, p, 15, 3) = Since(v + 1, 0, 15, 3)
  BY <1>1, <1>2, 15 \in 1 .. 55, 3 \in Nat
<1>9. Since(v, p, 16, 1) = Since(v + 1, 0, 16, 1)
  BY <1>1, <1>2, 16 \in 1 .. 55, 1 \in Nat
<1>10. Since(v, p, 17, 1) = Since(v + 1, 0, 17, 1)
  BY <1>1, <1>2, 17 \in 1 .. 55, 1 \in Nat
<1>11. Since(v, p, 18, 1) = Since(v + 1, 0, 18, 1)
  BY <1>1, <1>2, 18 \in 1 .. 55, 1 \in Nat
<1>12. Since(v, p, 19, 1) = Since(v + 1, 0, 19, 1)
  BY <1>1, <1>2, 19 \in 1 .. 55, 1 \in Nat
<1>13. Since(v, p, 19, 3) = Since(v + 1, 0, 19, 3)
  BY <1>1, <1>2, 19 \in 1 .. 55, 3 \in Nat
<1>14. Since(v, p, 20, 1) = Since(v + 1, 0, 20, 1)
  BY <1>1, <1>2, 20 \in 1 .. 55, 1 \in Nat
<1>15. Since(v, p, 20, 2) = Since(v + 1, 0, 20, 2)
  BY <1>1, <1>2, 20 \in 1 .. 55, 2 \in Nat
<1>16. Since(v, p, 21, 2) = Since(v + 1, 0, 21, 2)
  BY <1>1, <1>2, 21 \in 1 .. 55, 2 \in Nat
<1>17. Since(v, p, 21, 4) = Since(v + 1, 0, 21, 4)
  BY <1>1, <1>2, 21 \in 1 .. 55, 4 \in Nat
<1>18. Since(v, p, 22, 1) = Since(v + 1, 0, 22, 1)
  BY <1>1, <1>2, 22 \in 1 .. 55, 1 \in Nat
<1>19. Since(v, p, 23, 1) = Since(v + 1, 0, 23, 1)
  BY <1>1, <1>2, 23 \in 1 .. 55, 1 \in Nat
<1>20. Since(v, p, 51, 1) = Since(v + 1, 0, 51, 1)
  BY <1>1, <1>2, 51 \in 1 .. 55, 1 \in Nat
<1> QED
  BY <1>3, <1>4, <1>5, <1>6, <1>7, <1>8, <1>9, <1>10, <1>11, <1>12, <1>13, <1>14, <1>15, <1>16, <1>17, <1>18, <1>19, <1>20 DEF NothingInBetween

LEMMA CommitKeepsFacts ==
  ASSUME NEW v \in 0 .. 54, NEW p \in Nat, p > Len(All[v + 1]), NEW uses, NEW d, Facts(d, v, p, uses)
  PROVE  Facts(d, v + 1, 0, uses)
<1>0. NothingInBetween(v, p, v + 1, 0)
  BY AllIsDone
<1>1. RolesThere(d, v + 1, 0)
  BY <1>0 DEF RolesThere, Facts, NothingInBetween
<1>2. MembersRight(d, v + 1, 0)
  BY <1>0 DEF MembersRight, Facts, NothingInBetween
<1>3. RetiredBy(v, p) = RetiredBy(v + 1, 0)
  BY <1>0 DEF RetiredBy, NothingInBetween
<1>4. TakenFromAdmin(v, p) = TakenFromAdmin(v + 1, 0) /\ GivenToAdmin(v, p) = GivenToAdmin(v + 1, 0)
  BY <1>0 DEF TakenFromAdmin, GivenToAdmin, NothingInBetween
<1>5. /\ GivenToEveryday(v, p) = GivenToEveryday(v + 1, 0) /\ Everyday(d, v, p) = Everyday(d, v + 1, 0)
      /\ Combined(d, v, p) = Combined(d, v + 1, 0)
  BY <1>0 DEF GivenToEveryday, Everyday, Combined, NothingInBetween
<1>6. RightsStand(d, v + 1, 0)
  BY <1>0, <1>3, <1>4 DEF RightsStand, Facts, NothingInBetween
<1>7. uses = 0 => AsShipped(d, v + 1, 0)
  BY <1>0, <1>5 DEF AsShipped, Facts, NothingInBetween
<1>8. ~Rebuilding(v, p) /\ ~Rebuilding(v + 1, 0) /\ ~(dialect = "sqlite" /\ v + 1 = 4 /\ 0 = 3)
  BY MoreLengths DEF Rebuilding
<1>9. EntriesThere(d, v + 1, 0)
  BY <1>0, <1>8 DEF EntriesThere, OwnersRight, EntriesRight, Facts, NothingInBetween
<1> QED
  BY <1>1, <1>2, <1>6, <1>7, <1>9 DEF Facts

\* What MySQL has committed of a migration that was stopped is right for its beginning, but
\* for four migrations that define nothing and so are not committed in parts.
LEMMA NothingIsDefined ==
  \A i \in {19, 20, 22, 51} : \A k \in DOMAIN All[i] : ~Definition(All[i][k])
<1>0. \A i \in 1 .. 55 : DOMAIN All[i] = 1 .. Len(All[i])
  BY LengthsAre
<1>1. DOMAIN All[19] = 1 .. 3 /\ DOMAIN All[20] = 1 .. 2 /\ DOMAIN All[22] = 1 .. 1 /\ DOMAIN All[51] = 1 .. 1
  <2>1. Len(All[19]) = 3 /\ Len(All[20]) = 2 /\ Len(All[22]) = 1 /\ Len(All[51]) = 1
    BY LengthsAre
  <2>2. 19 \in 1 .. 55 /\ 20 \in 1 .. 55 /\ 22 \in 1 .. 55 /\ 51 \in 1 .. 55
    OBVIOUS
  <2> QED
    BY <1>0, <2>1, <2>2
<1>2. /\ All[19] = giveEveryProjectAnOwner /\ All[20] = separateAdministeringFromWorking
      /\ All[22] = callTheEverydayRoleUser /\ All[51] = shipTheManagerRole
  BY DEF All
<1>3. /\ \A how : ~Definition(Rewrite(how)) /\ ~Definition(Withdraw(how))
      /\ \A a, b : ~Definition(GrantHolding(a, b)) /\ ~Definition(Revoke(a, b))
  BY DEF Definition, Rewrite, GrantHolding, Withdraw, Revoke
<1>4. \A k \in 1 .. 3 : ~Definition(giveEveryProjectAnOwner[k])
  BY <1>3 DEF giveEveryProjectAnOwner
<1>5. \A k \in 1 .. 2 : ~Definition(separateAdministeringFromWorking[k])
  BY <1>3 DEF separateAdministeringFromWorking
<1>6. ~Definition(callTheEverydayRoleUser[1]) /\ ~Definition(shipTheManagerRole[1])
  BY <1>3 DEF callTheEverydayRoleUser, shipTheManagerRole
<1> QED
  BY <1>1, <1>2, <1>4, <1>5, <1>6

LEMMA FactsAreKept ==
  ASSUME NEW v \in 0 .. 54, v \notin {18, 19, 21, 50}, dialect # "sqlite", NEW p \in Nat,
         NEW uses, NEW d, Facts(d, v, p, uses)
  PROVE  Facts(d, v, 0, uses)
<1>1. \A i \in 1 .. 55, k \in Nat : Since(v, 0, i, k) => Since(v, p, i, k)
  BY DEF Since
<1>2. \A i \in {19, 20, 22, 51}, k \in Nat : Since(v, 0, i, k) = Since(v, p, i, k)
  BY DEF Since
<1>3. Since(v, 0, 3, 9) = Since(v, 0, 3, 10) /\ (Since(v, 0, 15, 1) => Since(v, p, 15, 1))
  BY DEF Since
<1>4. RolesThere(d, v, 0)
  BY <1>1, <1>2 DEF RolesThere, Facts
<1>5. MembersRight(d, v, 0)
  BY <1>1, <1>2, <1>3 DEF MembersRight, Facts
<1>6. RetiredBy(v, 0) \subseteq RetiredBy(v, p)
  BY <1>1 DEF RetiredBy
<1>7. TakenFromAdmin(v, 0) \subseteq TakenFromAdmin(v, p) /\ GivenToAdmin(v, 0) \subseteq GivenToAdmin(v, p)
  BY <1>1 DEF TakenFromAdmin, GivenToAdmin
<1>8. /\ GivenToEveryday(v, 0) \subseteq GivenToEveryday(v, p) /\ Everyday(d, v, 0) = Everyday(d, v, p)
      /\ Combined(d, v, 0) = Combined(d, v, p)
  BY <1>1, <1>2 DEF GivenToEveryday, Everyday, Combined
<1>9. RightsStand(d, v, 0)
  <2>1. Since(v, 0, 3, 9) => Since(v, p, 3, 9)
    BY <1>1
  <2>2. \A r \in DOMAIN d.roles : d.roles[r] \cap RetiredBy(v, 0) = {}
    BY <1>6 DEF RightsStand, Facts
  <2>3. Since(v, 0, 3, 9) =>
         /\ \A r \in DOMAIN d.roles \ {"manager"} : d.roles[r] \cap Team = {}
         /\ GivenToAdmin(v, 0) \subseteq d.roles["admin"] /\ d.roles["admin"] \cap TakenFromAdmin(v, 0) = {}
    BY <2>1, <1>7 DEF RightsStand, Facts
  <2> QED
    BY <2>2, <2>3, <1>2, <1>3 DEF RightsStand, Facts
<1>10. uses = 0 => AsShipped(d, v, 0)
  <2>1. Since(v, 0, 3, 9) => Since(v, p, 3, 9)
    BY <1>1
  <2> QED
    BY <2>1, <1>2, <1>3, <1>8 DEF AsShipped, Facts
<1>11. EntriesThere(d, v, 0)
  BY <1>2 DEF EntriesThere, OwnersRight, EntriesRight, Rebuilding, Facts
<1> QED
  BY <1>4, <1>5, <1>9, <1>10, <1>11 DEF Facts

\* What an older release did between two migrations.
LEMMA SomebodyWasHired ==
  ASSUME NEW v \in Nat, NEW uses, NEW d, Facts(d, v, 0, uses), NEW more \in Nat \ {0},
         NEW roles \in [People -> IF v < 3 THEN {"admin", "employee", "manager", "trainee"} ELSE DOMAIN d.roles]
  PROVE  Facts([d EXCEPT !.members = roles], v, 0, more)
<1> DEFINE e == [d EXCEPT !.members = roles]
<1>1. /\ IsDatabase(e) /\ e.owners = d.owners /\ e.entries = d.entries /\ e.spare = d.spare /\ e.first = d.first
      /\ e.roles = d.roles /\ e.members = roles
  BY DEF Facts, IsDatabase
<1> HIDE DEF e
<1>2. RolesThere(e, v, 0)
  BY <1>1 DEF RolesThere, Facts
<1>3. \A a \in People : roles[a] \in Names
  <2>1. {"admin", "employee", "manager", "trainee"} \subseteq Names
    BY DEF Names, Shipped
  <2>2. DOMAIN d.roles \subseteq Names
    BY DEF Facts, RolesThere
  <2> QED
    BY <2>1, <2>2
<1>4. DOMAIN roles = People /\ roles \in [People -> Names]
  BY <1>3
<1>5. v >= 3 => \A a \in People : roles[a] \in DOMAIN d.roles
  OBVIOUS
<1>6. MembersRight(e, v, 0)
  BY <1>1, <1>4, <1>5 DEF MembersRight, Since
<1>7. RightsStand(e, v, 0)
  BY <1>1 DEF RightsStand, Facts
<1>8. EntriesThere(e, v, 0)
  BY <1>1 DEF EntriesThere, OwnersRight, EntriesRight, Facts
<1> QED
  BY <1>1, <1>2, <1>6, <1>7, <1>8 DEF Facts, e

LEMMA ARoleWasNamed ==
  ASSUME NEW v \in Nat, v >= 3, NEW uses, NEW d, Facts(d, v, 0, uses), NEW more \in Nat \ {0},
         NEW name \in OwnNames \ DOMAIN d.roles
  PROVE  Facts([d EXCEPT !.roles = With(d.roles, name, {"users:read"})], v, 0, more)
<1> DEFINE roles == With(d.roles, name, {"users:read"})
           e == [d EXCEPT !.roles = roles]
<1>1. /\ IsDatabase(e) /\ e.owners = d.owners /\ e.entries = d.entries /\ e.spare = d.spare /\ e.first = d.first
      /\ e.members = d.members /\ e.roles = roles
  BY DEF Facts, IsDatabase
<1>2. /\ DOMAIN roles = DOMAIN d.roles \cup {name} /\ roles[name] = {"users:read"}
      /\ \A r \in DOMAIN d.roles : roles[r] = d.roles[r] /\ r # name
      /\ roles = [r \in DOMAIN roles |-> roles[r]]
  BY DEF With
<1> HIDE DEF e, roles
<1>3. RolesThere(e, v, 0)
  <2>1. name \in Names
    BY DEF Names
  <2>2. IsFiniteSet(DOMAIN roles)
    BY <1>2, FS_AddElement DEF Facts, RolesThere
  <2> QED
    BY <1>1, <1>2, <2>1, <2>2 DEF RolesThere, Facts
<1>4. MembersRight(e, v, 0)
  BY <1>1, <1>2 DEF MembersRight, Since, Facts
<1>5. RightsStand(e, v, 0)
  <2>1. /\ {"users:read"} \subseteq AllRights /\ {"users:read"} \cap Team = {}
        /\ {"users:read"} \cap RetiredBy(v, 0) = {}
    BY DEF AllRights, Administering, Team, Retired, RetiredBy
  <2>2. \A r \in DOMAIN roles : roles[r] \in SUBSET AllRights /\ roles[r] \cap RetiredBy(v, 0) = {}
    BY <1>2, <2>1 DEF RightsStand, Facts
  <2>3. roles \in [DOMAIN roles -> SUBSET AllRights]
    BY <1>2, <2>2
  <2>4. Since(v, 0, 3, 9) /\ "admin" \in DOMAIN d.roles
    BY DEF Since, RolesThere, Facts
  <2>5. \A r \in DOMAIN roles \ {"manager"} : roles[r] \cap Team = {}
    BY <1>2, <2>1, <2>4 DEF RightsStand, Facts
  <2>6. GivenToAdmin(v, 0) \subseteq roles["admin"] /\ roles["admin"] \cap TakenFromAdmin(v, 0) = {}
    BY <1>2, <2>4 DEF RightsStand, Facts
  <2>7. Since(v, 0, 15, 1) /\ ~Since(v, 0, 51, 1) => \A r \in DOMAIN roles : roles[r] \cap Team = {}
    BY <1>2, <2>1 DEF RightsStand, Facts
  <2>8. Since(v, 0, 51, 1) => roles["manager"] = DefaultRoles["manager"]
    BY <1>2 DEF RightsStand, Facts, RolesThere
  <2> QED
    BY <1>1, <2>2, <2>3, <2>5, <2>6, <2>7, <2>8 DEF RightsStand
<1>6. EntriesThere(e, v, 0)
  BY <1>1 DEF EntriesThere, OwnersRight, EntriesRight, Facts
<1> QED
  BY <1>1, <1>3, <1>4, <1>5, <1>6 DEF Facts, e, roles

LEMMA TheEverydayRoleWasRenamed ==
  ASSUME NEW v \in Nat, v >= 3, NEW uses, NEW d, Facts(d, v, 0, uses), NEW more \in Nat \ {0},
         "employee" \in DOMAIN d.roles, "clerk" \notin DOMAIN d.roles
  PROVE  Facts(setRoleName(d, "employee", "clerk"), v, 0, more)
<1> DEFINE e == setRoleName(d, "employee", "clerk")
           f == Takes(d, "employee", "clerk")
<1>0. RolesThere(d, v, 0) /\ MembersRight(d, v, 0) /\ RightsStand(d, v, 0) /\ EntriesThere(d, v, 0) /\ IsDatabase(d)
  BY DEF Facts
<1>1. RenamesBy(e, d, f)
  BY <1>0, NameIsTaken
<1>2. /\ f = [r \in DOMAIN d.roles |-> f[r]] /\ f["employee"] = "clerk"
      /\ \A r \in DOMAIN d.roles \ {"employee"} : f[r] = r
  BY DEF Takes
<1> HIDE DEF e, f
<1>3. /\ IsDatabase(e) /\ e.owners = d.owners /\ e.entries = d.entries /\ e.spare = d.spare /\ e.first = d.first
      /\ DOMAIN e.roles = {f[r] : r \in DOMAIN d.roles}
      /\ \A r \in DOMAIN d.roles : e.roles[f[r]] = d.roles[r]
      /\ e.roles = [r \in DOMAIN e.roles |-> e.roles[r]]
      /\ e.members = [a \in DOMAIN d.members |-> IF d.members[a] \in DOMAIN d.roles THEN f[d.members[a]] ELSE d.members[a]]
  BY <1>1 DEF RenamesBy
<1>4. IsFiniteSet(DOMAIN e.roles)
  BY <1>0, <1>1, <1>2, AsManyRoles DEF RolesThere
<1>5. DOMAIN e.roles = (DOMAIN d.roles \ {"employee"}) \cup {"clerk"}
  <2>1. \A r \in DOMAIN d.roles : f[r] = IF r = "employee" THEN "clerk" ELSE r
    BY <1>2
  <2>2. DOMAIN e.roles \subseteq (DOMAIN d.roles \ {"employee"}) \cup {"clerk"}
    BY <1>3, <2>1
  <2>3. \A r \in DOMAIN d.roles \ {"employee"} : r \in DOMAIN e.roles
    BY <1>3, <2>1
  <2>4. "clerk" \in DOMAIN e.roles
    BY <1>3, <2>1
  <2> QED
    BY <2>2, <2>3, <2>4
<1>6. e.roles["clerk"] = d.roles["employee"] /\ \A r \in DOMAIN d.roles \ {"employee"} : e.roles[r] = d.roles[r]
  BY <1>2, <1>3
<1>7. RolesThere(e, v, 0)
  <2>1. "clerk" \in Names /\ "clerk" \in Fixed
    BY DEF Names, Fixed
  <2> QED
    BY <1>0, <1>4, <1>5, <2>1 DEF RolesThere
<1>8. MembersRight(e, v, 0)
  <2>1. DOMAIN e.members = DOMAIN d.members /\ DOMAIN d.members \subseteq People
    BY <1>0, <1>3 DEF MembersRight
  <2>2. \A a \in DOMAIN d.members : d.members[a] \in DOMAIN d.roles => e.members[a] \in DOMAIN e.roles
    BY <1>3
  <2>3. \A a \in DOMAIN d.members : d.members[a] \notin DOMAIN d.roles => e.members[a] = d.members[a]
    BY <1>3
  <2>4. DOMAIN e.roles \subseteq Names
    BY <1>7 DEF RolesThere
  <2>5. \A a \in DOMAIN d.members : e.members[a] \in Names
    BY <1>0, <2>2, <2>3, <2>4 DEF MembersRight
  <2>6. e.members = [a \in DOMAIN e.members |-> e.members[a]]
    BY <1>3, <2>1
  <2>7. e.members \in [DOMAIN e.members -> Names]
    BY <2>1, <2>5, <2>6
  <2>8. Since(v, 0, 3, 9) /\ Since(v, 0, 3, 10)
    BY DEF Since
  <2>9. \A a \in DOMAIN d.members : d.members[a] \in DOMAIN d.roles \cup {Unset}
    BY <1>0, <2>8 DEF MembersRight
  <2>10. \A a \in DOMAIN e.members : e.members[a] \in DOMAIN e.roles \cup {Unset}
    BY <2>1, <2>2, <2>3, <2>9
  <2>11. Since(v, 0, 16, 1) => \A a \in DOMAIN e.members : e.members[a] \in DOMAIN e.roles
    BY <1>0, <2>1, <2>2 DEF MembersRight
  <2> QED
    BY <2>1, <2>7, <2>8, <2>10, <2>11 DEF MembersRight
<1>9. RightsStand(e, v, 0)
  <2>1. \A r \in DOMAIN e.roles : e.roles[r] \in SUBSET AllRights /\ e.roles[r] \cap RetiredBy(v, 0) = {}
    BY <1>0, <1>5, <1>6 DEF RightsStand
  <2>2. e.roles \in [DOMAIN e.roles -> SUBSET AllRights]
    BY <1>3, <2>1
  <2>3. Since(v, 0, 3, 9) /\ "admin" \in DOMAIN d.roles
    BY <1>0 DEF Since, RolesThere
  <2>4. \A r \in DOMAIN e.roles \ {"manager"} : e.roles[r] \cap Team = {}
    BY <1>0, <1>5, <1>6, <2>3 DEF RightsStand
  <2>5. GivenToAdmin(v, 0) \subseteq e.roles["admin"] /\ e.roles["admin"] \cap TakenFromAdmin(v, 0) = {}
    BY <1>0, <1>6, <2>3 DEF RightsStand
  <2>6. Since(v, 0, 15, 1) /\ ~Since(v, 0, 51, 1) => \A r \in DOMAIN e.roles : e.roles[r] \cap Team = {}
    BY <1>0, <1>5, <1>6 DEF RightsStand
  <2>7. Since(v, 0, 51, 1) => e.roles["manager"] = DefaultRoles["manager"]
    BY <1>0, <1>6 DEF RightsStand, RolesThere
  <2> QED
    BY <2>1, <2>2, <2>4, <2>5, <2>6, <2>7 DEF RightsStand
<1>10. EntriesThere(e, v, 0)
  BY <1>0, <1>3 DEF EntriesThere, OwnersRight, EntriesRight
<1> QED
  BY <1>3, <1>7, <1>8, <1>9, <1>10 DEF Facts, e

\* What was booked, as BookedEntries has it.
BooksThem(e, d, v, by, on) ==
  e = [d EXCEPT !.entries = [x \in Booked |-> [by |-> by[x], on |-> on[x]]], !.owners = With(d.owners, Shared, NoOwner)]

LEMMA EntriesWereBooked ==
  ASSUME NEW v \in Nat, v < 19, NEW uses, NEW d, Facts(d, v, 0, uses), NEW more \in Nat \ {0},
         NEW by \in [Booked -> People], NEW on \in [Booked -> {Shared, NoProject}], NEW e, BooksThem(e, d, v, by, on)
  PROVE  Facts(e, v, 0, more)
<1> DEFINE owners == With(d.owners, Shared, NoOwner)
           entries == [x \in Booked |-> [by |-> by[x], on |-> on[x]]]
<1>0. RolesThere(d, v, 0) /\ MembersRight(d, v, 0) /\ RightsStand(d, v, 0) /\ EntriesThere(d, v, 0) /\ IsDatabase(d)
  BY DEF Facts
<1>1. e = [d EXCEPT !.entries = entries, !.owners = owners]
  BY DEF BooksThem
<1>2. /\ DOMAIN owners = DOMAIN d.owners \cup {Shared} /\ owners[Shared] = NoOwner
      /\ \A q \in DOMAIN d.owners : owners[q] = IF q = Shared THEN NoOwner ELSE d.owners[q]
  BY DEF With
<1>3. DOMAIN entries = Booked /\ \A x \in Booked : entries[x].by \in People /\ entries[x].on \in {Shared, NoProject}
  OBVIOUS
<1> HIDE DEF owners, entries
<1>4. /\ IsDatabase(e) /\ e.roles = d.roles /\ e.members = d.members /\ e.first = d.first
      /\ e.owners = owners /\ e.entries = entries
  BY <1>0, <1>1 DEF IsDatabase
<1>5. RolesThere(e, v, 0) /\ MembersRight(e, v, 0) /\ RightsStand(e, v, 0)
  BY <1>0, <1>4 DEF RolesThere, MembersRight, RightsStand, EverydayName
<1>6. ~Since(v, 0, 19, 1) /\ ~Rebuilding(v, 0)
  BY DEF Since, Rebuilding
<1>7. OwnersRight(e, v, 0)
  <2>1. \A q \in DOMAIN d.owners : q = Shared
    BY <1>0, <1>6 DEF EntriesThere, OwnersRight
  <2> QED
    BY <1>2, <1>4, <2>1 DEF OwnersRight
<1>8. EntriesRight(e.entries, e, v, 0)
  BY <1>2, <1>3, <1>4, <1>6 DEF EntriesRight
<1>9. EntriesThere(e, v, 0)
  BY <1>6, <1>7, <1>8 DEF EntriesThere
<1> QED
  BY <1>4, <1>5, <1>9 DEF Facts
-----------------------------------------------------------------------------
(* The schema.                                                             *)

\* What there is to hang on before statement n, and what is made there and nowhere else.
Base(table, n) ==
  LET o == Obj(table, Itself)
  IN  o \in Lasting /\ MadeAt(o) < n /\ ~Gone(o, n)
MadeThere(table, name, n) ==
  LET o == Obj(table, name)
  IN  MadeAt(o) = n /\ \A l \in Lasting : MadeAt(l) = n => l = o

\* The places where something is dropped, made again, or renamed.
Special == {71, 103, 104, 105, 106, 304, 441, 521}

\* What a statement is to the schema at its place.
MakesNext(s, n) ==
  /\ s.op = "make" /\ MadeAt(s.what) = n /\ n \notin Special
  /\ \A o \in s.needs : o \in Lasting /\ MadeAt(o) < n /\ ~Gone(o, n)
  /\ \A l \in Lasting : MadeAt(l) = n => l = s.what
LeavesSchema(s) ==
  /\ s.op \in {"rows", "grant", "grantTo", "withdraw", "revoke"}
  /\ s.op = "rows" => s.how \notin {"renameTable", "renameRoles"}
NothingLasting(n) == \A l \in Lasting : MadeAt(l) # n
Suits(s, n) ==
  \/ MakesNext(s, n)
  \/ LeavesSchema(s) /\ NothingLasting(n) /\ n \notin Special
  \/ n = 71 /\ s = Drop(Obj("users", "role"))
  \/ n = 304 /\ s = Drop(Obj("timesheets", "status"))
  \/ n = 441 /\ s = Rewrite("renameRoles")
  \/ dialect # "sqlite" /\ n = 101 /\ s = Alter(Obj("timesheets", Itself))
  \/ dialect # "sqlite" /\ n = 521 /\ s = Alter(Obj("users", "totp_secret"))
  \/ dialect = "sqlite" /\ n = 103 /\ s = Drop(Obj("timesheets", Itself))
  \/ dialect = "sqlite" /\ n = 104 /\ s = Rewrite("renameTable")
  \/ dialect = "sqlite" /\ n = 105 /\ s = Index("timesheets", "user_date")
  \/ dialect = "sqlite" /\ n = 106 /\ s = Index("timesheets", "project")

LEMMA LastingRanks ==
  \A l \in Lasting :
    /\ MadeAt(l) \in {21, 22, 23, 24, 25, 61, 81, 84, 161, 241, 801}
    /\ MadeAt(l) = 21 => l = Obj("users", Itself)
    /\ MadeAt(l) = 22 => l = Obj("users", "role")
    /\ MadeAt(l) = 23 => l = Obj("projects", Itself)
    /\ MadeAt(l) = 24 => l = Obj("timesheets", Itself)
    /\ MadeAt(l) = 25 => l = Obj("timesheets", "status")
    /\ MadeAt(l) = 61 => l = Obj("roles", Itself)
    /\ MadeAt(l) = 81 => l = Obj("sessions", Itself)
    /\ MadeAt(l) = 84 => l = Obj("users", "totp_secret")
    /\ MadeAt(l) = 161 => l = Obj("api_tokens", Itself)
    /\ MadeAt(l) = 241 => l = Obj("passkeys", Itself)
    /\ MadeAt(l) = 801 => l = Obj("timesheet_revisions", Itself)
<1>1. MadeAt(Obj("users", Itself)) = 21 /\ MadeAt(Obj("users", "role")) = 22 /\ MadeAt(Obj("users", "totp_secret")) = 84
  BY DEF Itself, Obj, MadeAt, MadeOfUsers
<1>2. MadeAt(Obj("projects", Itself)) = 23
  BY DEF Itself, Obj, MadeAt, MadeOfProjects
<1>3. MadeAt(Obj("timesheets", Itself)) = 24 /\ MadeAt(Obj("timesheets", "status")) = 25
  BY DEF Itself, Obj, MadeAt, MadeOfEntries
<1>4. MadeAt(Obj("roles", Itself)) = 61
  BY DEF Itself, Obj, MadeAt
<1>5. MadeAt(Obj("sessions", Itself)) = 81
  BY DEF Itself, Obj, MadeAt, MadeOfSessions
<1>6. MadeAt(Obj("api_tokens", Itself)) = 161
  BY DEF Itself, Obj, MadeAt, MadeOfTokens
<1>7. MadeAt(Obj("passkeys", Itself)) = 241
  BY DEF Itself, Obj, MadeAt, MadeOfKeys
<1>8. MadeAt(Obj("timesheet_revisions", Itself)) = 801
  BY DEF Itself, Obj, MadeAt, MadeOfRevisions
<1> QED
  BY <1>1, <1>2, <1>3, <1>4, <1>5, <1>6, <1>7, <1>8 DEF Lasting

LEMMA NothingElseLasts ==
  ASSUME NEW n \in Nat, n \notin {21, 22, 23, 24, 25, 61, 81, 84, 161, 241, 801} PROVE NothingLasting(n)
BY LastingRanks DEF NothingLasting

LEMMA Bases ==
  ASSUME NEW n \in Nat
  PROVE  /\ n > 21 => Base("users", n)
         /\ n > 23 => Base("projects", n)
         /\ n > 24 /\ n # 104 => Base("timesheets", n)
         /\ n > 61 => Base("roles", n)
         /\ n > 81 => Base("sessions", n)
         /\ n > 161 => Base("api_tokens", n)
         /\ n > 241 => Base("passkeys", n)
         /\ n > 801 => Base("timesheet_revisions", n)
<1>1. ASSUME n > 21 PROVE Base("users", n)
  <2>1. MadeAt(Obj("users", Itself)) = 21
    BY DEF Itself, Obj, MadeAt, MadeOfUsers
  <2>3. Obj("users", Itself) \in Lasting
    BY DEF Lasting
  <2>2. ~Gone(Obj("users", Itself), n)
    BY <1>1 DEF Gone, Obj, Itself
  <2> QED
    BY <1>1, <2>1, <2>2, <2>3 DEF Base
<1>2. ASSUME n > 23 PROVE Base("projects", n)
  <2>1. MadeAt(Obj("projects", Itself)) = 23
    BY DEF Itself, Obj, MadeAt, MadeOfProjects
  <2>3. Obj("projects", Itself) \in Lasting
    BY DEF Lasting
  <2>2. ~Gone(Obj("projects", Itself), n)
    BY <1>2 DEF Gone, Obj, Itself
  <2> QED
    BY <1>2, <2>1, <2>2, <2>3 DEF Base
<1>3. ASSUME n > 24, n # 104 PROVE Base("timesheets", n)
  <2>1. MadeAt(Obj("timesheets", Itself)) = 24
    BY DEF Itself, Obj, MadeAt, MadeOfEntries
  <2>3. Obj("timesheets", Itself) \in Lasting
    BY DEF Lasting
  <2>2. ~Gone(Obj("timesheets", Itself), n)
    BY <1>3 DEF Gone, Obj, Itself
  <2> QED
    BY <1>3, <2>1, <2>2, <2>3 DEF Base
<1>4. ASSUME n > 61 PROVE Base("roles", n)
  <2>1. MadeAt(Obj("roles", Itself)) = 61
    BY DEF Itself, Obj, MadeAt
  <2>3. Obj("roles", Itself) \in Lasting
    BY DEF Lasting
  <2>2. ~Gone(Obj("roles", Itself), n)
    BY <1>4 DEF Gone, Obj, Itself
  <2> QED
    BY <1>4, <2>1, <2>2, <2>3 DEF Base
<1>5. ASSUME n > 81 PROVE Base("sessions", n)
  <2>1. MadeAt(Obj("sessions", Itself)) = 81
    BY DEF Itself, Obj, MadeAt, MadeOfSessions
  <2>3. Obj("sessions", Itself) \in Lasting
    BY DEF Lasting
  <2>2. ~Gone(Obj("sessions", Itself), n)
    BY <1>5 DEF Gone, Obj, Itself
  <2> QED
    BY <1>5, <2>1, <2>2, <2>3 DEF Base
<1>6. ASSUME n > 161 PROVE Base("api_tokens", n)
  <2>1. MadeAt(Obj("api_tokens", Itself)) = 161
    BY DEF Itself, Obj, MadeAt, MadeOfTokens
  <2>3. Obj("api_tokens", Itself) \in Lasting
    BY DEF Lasting
  <2>2. ~Gone(Obj("api_tokens", Itself), n)
    BY <1>6 DEF Gone, Obj, Itself
  <2> QED
    BY <1>6, <2>1, <2>2, <2>3 DEF Base
<1>7. ASSUME n > 241 PROVE Base("passkeys", n)
  <2>1. MadeAt(Obj("passkeys", Itself)) = 241
    BY DEF Itself, Obj, MadeAt, MadeOfKeys
  <2>3. Obj("passkeys", Itself) \in Lasting
    BY DEF Lasting
  <2>2. ~Gone(Obj("passkeys", Itself), n)
    BY <1>7 DEF Gone, Obj, Itself
  <2> QED
    BY <1>7, <2>1, <2>2, <2>3 DEF Base
<1>8. ASSUME n > 801 PROVE Base("timesheet_revisions", n)
  <2>1. MadeAt(Obj("timesheet_revisions", Itself)) = 801
    BY DEF Itself, Obj, MadeAt, MadeOfRevisions
  <2>3. Obj("timesheet_revisions", Itself) \in Lasting
    BY DEF Lasting
  <2>2. ~Gone(Obj("timesheet_revisions", Itself), n)
    BY <1>8 DEF Gone, Obj, Itself
  <2> QED
    BY <1>8, <2>1, <2>2, <2>3 DEF Base
<1> QED
  BY <1>1, <1>2, <1>3, <1>4, <1>5, <1>6, <1>7, <1>8

\* What leaves the schema suits any such place.
SuitsRows(n) ==
  /\ \A how : how \notin {"renameTable", "renameRoles"} => Suits(Rewrite(how), n)
  /\ \A a, b : Suits(GrantHolding(a, b), n) /\ Suits(GrantTo(a, b), n) /\ Suits(Revoke(a, b), n)
  /\ \A a : Suits(Withdraw(a), n)

LEMMA StatementsSuit ==
  ASSUME NEW n \in Nat \ Special
  PROVE  /\ \A t, r : MadeThere(t, Itself, n) /\ (\A x \in r : Base(x, n)) => Suits(Table(t, r), n)
         /\ \A t, c : MadeThere(t, c, n) /\ Base(t, n) => Suits(Column(t, c), n) /\ Suits(Index(t, c), n)
         /\ NothingLasting(n) => SuitsRows(n)
<1>b. /\ \A t, r : Table(t, r) = Make(Obj(t, Itself), {Obj(x, Itself) : x \in r})
      /\ \A t, c : Column(t, c) = Make(Obj(t, c), {Obj(t, Itself)}) /\ Index(t, c) = Make(Obj(t, c), {Obj(t, Itself)})
  BY DEF Table, Column, Index, Obj, Itself
<1>c. \A o, needs : Make(o, needs).op = "make" /\ Make(o, needs).what = o /\ Make(o, needs).needs = needs
  BY DEF Make
<1>a. /\ \A t, r : Table(t, r).op = "make" /\ Table(t, r).what = Obj(t, Itself) /\ Table(t, r).needs = {Obj(x, Itself) : x \in r}
      /\ \A t, c : Column(t, c).op = "make" /\ Column(t, c).what = Obj(t, c) /\ Column(t, c).needs = {Obj(t, Itself)}
      /\ \A t, c : Index(t, c) = Column(t, c)
  BY <1>b, <1>c
<1>1. ASSUME NEW t, NEW r, MadeThere(t, Itself, n), \A x \in r : Base(x, n) PROVE MakesNext(Table(t, r), n)
  BY <1>1, <1>a DEF MakesNext, MadeThere, Base
<1>2. ASSUME NEW t, NEW c, MadeThere(t, c, n), Base(t, n) PROVE MakesNext(Column(t, c), n) /\ MakesNext(Index(t, c), n)
  BY <1>2, <1>a DEF MakesNext, MadeThere, Base
<1>3. /\ \A how : how \notin {"renameTable", "renameRoles"} => LeavesSchema(Rewrite(how))
      /\ \A a, b : LeavesSchema(GrantHolding(a, b)) /\ LeavesSchema(GrantTo(a, b)) /\ LeavesSchema(Revoke(a, b))
      /\ \A a : LeavesSchema(Withdraw(a))
  BY DEF LeavesSchema, Rewrite, GrantHolding, GrantTo, Revoke, Withdraw
<1> QED
  BY <1>1, <1>2, <1>3 DEF Suits, SuitsRows

LEMMA TableSuits ==
  ASSUME NEW n \in Nat \ Special, NEW t, NEW r, MadeThere(t, Itself, n), \A x \in r : Base(x, n) PROVE Suits(Table(t, r), n)
BY StatementsSuit

LEMMA ColumnSuits ==
  ASSUME NEW n \in Nat \ Special, NEW t, NEW c, MadeThere(t, c, n), Base(t, n)
  PROVE  Suits(Column(t, c), n) /\ Suits(Index(t, c), n)
BY StatementsSuit

LEMMA RowsSuit == ASSUME NEW n \in Nat \ Special, NothingLasting(n) PROVE SuitsRows(n)
BY StatementsSuit

LEMMA FreshObjects ==
  /\ MadeThere("users", Itself, 21)
  /\ MadeThere("users", "role", 22)
  /\ MadeThere("projects", Itself, 23)
  /\ MadeThere("timesheets", Itself, 24)
  /\ MadeThere("timesheets", "status", 25)
  /\ MadeThere("timesheets", "user_date", 41)
  /\ MadeThere("timesheets", "project", 42)
  /\ MadeThere("roles", Itself, 61)
  /\ MadeThere("role_permissions", Itself, 62)
  /\ MadeThere("users", "role_id", 63)
  /\ MadeThere("users", "password_hash", 64)
  /\ MadeThere("users", "must_change_password", 65)
  /\ MadeThere("users", "is_system", 66)
  /\ MadeThere("users", "daily_target_hours", 67)
  /\ MadeThere("users", "max_daily_hours", 68)
  /\ MadeThere("sessions", Itself, 81)
  /\ MadeThere("sessions", "user", 82)
  /\ MadeThere("sessions", "expiry", 83)
  /\ MadeThere("users", "totp_secret", 84)
  /\ MadeThere("users", "totp_enabled", 85)
  /\ MadeThere("users", "language", 86)
  /\ MadeThere("users", "is_external", 87)
  /\ MadeThere("timesheets_new", Itself, 101)
  /\ MadeThere("settings", Itself, 121)
  /\ MadeThere("projects", "owner_id", 141)
  /\ MadeThere("projects", "owner", 142)
  /\ MadeThere("api_tokens", Itself, 161)
  /\ MadeThere("api_tokens", "user", 162)
  /\ MadeThere("users", "external_id", 181)
  /\ MadeThere("users", "external_id_index", 182)
  /\ MadeThere("users", "timezone", 201)
  /\ MadeThere("users", "tour_seen", 221)
  /\ MadeThere("passkeys", Itself, 241)
  /\ MadeThere("passkeys", "user", 242)
  /\ MadeThere("passkeys", "credential", 243)
  /\ MadeThere("running_timers", Itself, 261)
  /\ MadeThere("users", "theme", 501)
  /\ MadeThere("sessions", "last_seen_at", 541)
  /\ MadeThere("timesheets", "created_at", 561)
  /\ MadeThere("timesheets", "updated_at", 562)
  /\ MadeThere("directory_runs", Itself, 581)
  /\ MadeThere("work_schedules", Itself, 601)
  /\ MadeThere("entry_templates", Itself, 621)
  /\ MadeThere("absences", Itself, 641)
  /\ MadeThere("users", "holiday_region", 661)
  /\ MadeThere("users", "every_day_counts_from", 681)
  /\ MadeThere("vacation_entitlements", Itself, 701)
  /\ MadeThere("projects", "budget_hours", 721)
  /\ MadeThere("calendar_feeds", Itself, 741)
  /\ MadeThere("openid_identities", Itself, 761)
  /\ MadeThere("work_days", Itself, 781)
  /\ MadeThere("timesheet_revisions", Itself, 801)
  /\ MadeThere("timesheet_revisions", "entry", 821)
  /\ MadeThere("users", "balance_upper_limit", 841)
  /\ MadeThere("users", "balance_lower_limit", 861)
  /\ MadeThere("users", "skip_unbooked_reminder", 881)
  /\ MadeThere("users", "timer_alert_hours", 901)
  /\ MadeThere("admin_events", Itself, 921)
  /\ MadeThere("managed_accounts", Itself, 941)
  /\ MadeThere("timesheets", "recorded_by", 961)
  /\ MadeThere("timesheets", "updated_by", 981)
  /\ MadeThere("timesheet_revisions", "replaced_by", 1001)
  /\ MadeThere("projects", "billable", 1041)
  /\ MadeThere("projects", "hourly_rate", 1061)
  /\ MadeThere("projects", "currency", 1081)
<1>1. MadeThere("users", Itself, 21)
  <2>1. MadeAt(Obj("users", Itself)) = 21
    BY DEF Itself, Obj, MadeAt, MadeOfUsers
  <2> QED
    BY <2>1, LastingRanks DEF MadeThere
<1>2. MadeThere("users", "role", 22)
  <2>1. MadeAt(Obj("users", "role")) = 22
    BY DEF Itself, Obj, MadeAt, MadeOfUsers
  <2> QED
    BY <2>1, LastingRanks DEF MadeThere
<1>3. MadeThere("projects", Itself, 23)
  <2>1. MadeAt(Obj("projects", Itself)) = 23
    BY DEF Itself, Obj, MadeAt, MadeOfProjects
  <2> QED
    BY <2>1, LastingRanks DEF MadeThere
<1>4. MadeThere("timesheets", Itself, 24)
  <2>1. MadeAt(Obj("timesheets", Itself)) = 24
    BY DEF Itself, Obj, MadeAt, MadeOfEntries
  <2> QED
    BY <2>1, LastingRanks DEF MadeThere
<1>5. MadeThere("timesheets", "status", 25)
  <2>1. MadeAt(Obj("timesheets", "status")) = 25
    BY DEF Itself, Obj, MadeAt, MadeOfEntries
  <2> QED
    BY <2>1, LastingRanks DEF MadeThere
<1>6. MadeThere("timesheets", "user_date", 41)
  <2>1. MadeAt(Obj("timesheets", "user_date")) = 41
    BY DEF Itself, Obj, MadeAt, MadeOfEntries
  <2> QED
    BY <2>1, LastingRanks DEF MadeThere
<1>7. MadeThere("timesheets", "project", 42)
  <2>1. MadeAt(Obj("timesheets", "project")) = 42
    BY DEF Itself, Obj, MadeAt, MadeOfEntries
  <2> QED
    BY <2>1, LastingRanks DEF MadeThere
<1>8. MadeThere("roles", Itself, 61)
  <2>1. MadeAt(Obj("roles", Itself)) = 61
    BY DEF Itself, Obj, MadeAt
  <2> QED
    BY <2>1, LastingRanks DEF MadeThere
<1>9. MadeThere("role_permissions", Itself, 62)
  <2>1. MadeAt(Obj("role_permissions", Itself)) = 62
    BY DEF Itself, Obj, MadeAt
  <2> QED
    BY <2>1, LastingRanks DEF MadeThere
<1>10. MadeThere("users", "role_id", 63)
  <2>1. MadeAt(Obj("users", "role_id")) = 63
    BY DEF Itself, Obj, MadeAt, MadeOfUsers
  <2> QED
    BY <2>1, LastingRanks DEF MadeThere
<1>11. MadeThere("users", "password_hash", 64)
  <2>1. MadeAt(Obj("users", "password_hash")) = 64
    BY DEF Itself, Obj, MadeAt, MadeOfUsers
  <2> QED
    BY <2>1, LastingRanks DEF MadeThere
<1>12. MadeThere("users", "must_change_password", 65)
  <2>1. MadeAt(Obj("users", "must_change_password")) = 65
    BY DEF Itself, Obj, MadeAt, MadeOfUsers
  <2> QED
    BY <2>1, LastingRanks DEF MadeThere
<1>13. MadeThere("users", "is_system", 66)
  <2>1. MadeAt(Obj("users", "is_system")) = 66
    BY DEF Itself, Obj, MadeAt, MadeOfUsers
  <2> QED
    BY <2>1, LastingRanks DEF MadeThere
<1>14. MadeThere("users", "daily_target_hours", 67)
  <2>1. MadeAt(Obj("users", "daily_target_hours")) = 67
    BY DEF Itself, Obj, MadeAt, MadeOfUsers
  <2> QED
    BY <2>1, LastingRanks DEF MadeThere
<1>15. MadeThere("users", "max_daily_hours", 68)
  <2>1. MadeAt(Obj("users", "max_daily_hours")) = 68
    BY DEF Itself, Obj, MadeAt, MadeOfUsers
  <2> QED
    BY <2>1, LastingRanks DEF MadeThere
<1>16. MadeThere("sessions", Itself, 81)
  <2>1. MadeAt(Obj("sessions", Itself)) = 81
    BY DEF Itself, Obj, MadeAt, MadeOfSessions
  <2> QED
    BY <2>1, LastingRanks DEF MadeThere
<1>17. MadeThere("sessions", "user", 82)
  <2>1. MadeAt(Obj("sessions", "user")) = 82
    BY DEF Itself, Obj, MadeAt, MadeOfSessions
  <2> QED
    BY <2>1, LastingRanks DEF MadeThere
<1>18. MadeThere("sessions", "expiry", 83)
  <2>1. MadeAt(Obj("sessions", "expiry")) = 83
    BY DEF Itself, Obj, MadeAt, MadeOfSessions
  <2> QED
    BY <2>1, LastingRanks DEF MadeThere
<1>19. MadeThere("users", "totp_secret", 84)
  <2>1. MadeAt(Obj("users", "totp_secret")) = 84
    BY DEF Itself, Obj, MadeAt, MadeOfUsers
  <2> QED
    BY <2>1, LastingRanks DEF MadeThere
<1>20. MadeThere("users", "totp_enabled", 85)
  <2>1. MadeAt(Obj("users", "totp_enabled")) = 85
    BY DEF Itself, Obj, MadeAt, MadeOfUsers
  <2> QED
    BY <2>1, LastingRanks DEF MadeThere
<1>21. MadeThere("users", "language", 86)
  <2>1. MadeAt(Obj("users", "language")) = 86
    BY DEF Itself, Obj, MadeAt, MadeOfUsers
  <2> QED
    BY <2>1, LastingRanks DEF MadeThere
<1>22. MadeThere("users", "is_external", 87)
  <2>1. MadeAt(Obj("users", "is_external")) = 87
    BY DEF Itself, Obj, MadeAt, MadeOfUsers
  <2> QED
    BY <2>1, LastingRanks DEF MadeThere
<1>23. MadeThere("timesheets_new", Itself, 101)
  <2>1. MadeAt(Obj("timesheets_new", Itself)) = 101
    BY DEF Itself, Obj, MadeAt
  <2> QED
    BY <2>1, LastingRanks DEF MadeThere
<1>24. MadeThere("settings", Itself, 121)
  <2>1. MadeAt(Obj("settings", Itself)) = 121
    BY DEF Itself, Obj, MadeAt
  <2> QED
    BY <2>1, LastingRanks DEF MadeThere
<1>25. MadeThere("projects", "owner_id", 141)
  <2>1. MadeAt(Obj("projects", "owner_id")) = 141
    BY DEF Itself, Obj, MadeAt, MadeOfProjects
  <2> QED
    BY <2>1, LastingRanks DEF MadeThere
<1>26. MadeThere("projects", "owner", 142)
  <2>1. MadeAt(Obj("projects", "owner")) = 142
    BY DEF Itself, Obj, MadeAt, MadeOfProjects
  <2> QED
    BY <2>1, LastingRanks DEF MadeThere
<1>27. MadeThere("api_tokens", Itself, 161)
  <2>1. MadeAt(Obj("api_tokens", Itself)) = 161
    BY DEF Itself, Obj, MadeAt, MadeOfTokens
  <2> QED
    BY <2>1, LastingRanks DEF MadeThere
<1>28. MadeThere("api_tokens", "user", 162)
  <2>1. MadeAt(Obj("api_tokens", "user")) = 162
    BY DEF Itself, Obj, MadeAt, MadeOfTokens
  <2> QED
    BY <2>1, LastingRanks DEF MadeThere
<1>29. MadeThere("users", "external_id", 181)
  <2>1. MadeAt(Obj("users", "external_id")) = 181
    BY DEF Itself, Obj, MadeAt, MadeOfUsers
  <2> QED
    BY <2>1, LastingRanks DEF MadeThere
<1>30. MadeThere("users", "external_id_index", 182)
  <2>1. MadeAt(Obj("users", "external_id_index")) = 182
    BY DEF Itself, Obj, MadeAt, MadeOfUsers
  <2> QED
    BY <2>1, LastingRanks DEF MadeThere
<1>31. MadeThere("users", "timezone", 201)
  <2>1. MadeAt(Obj("users", "timezone")) = 201
    BY DEF Itself, Obj, MadeAt, MadeOfUsers
  <2> QED
    BY <2>1, LastingRanks DEF MadeThere
<1>32. MadeThere("users", "tour_seen", 221)
  <2>1. MadeAt(Obj("users", "tour_seen")) = 221
    BY DEF Itself, Obj, MadeAt, MadeOfUsers
  <2> QED
    BY <2>1, LastingRanks DEF MadeThere
<1>33. MadeThere("passkeys", Itself, 241)
  <2>1. MadeAt(Obj("passkeys", Itself)) = 241
    BY DEF Itself, Obj, MadeAt, MadeOfKeys
  <2> QED
    BY <2>1, LastingRanks DEF MadeThere
<1>34. MadeThere("passkeys", "user", 242)
  <2>1. MadeAt(Obj("passkeys", "user")) = 242
    BY DEF Itself, Obj, MadeAt, MadeOfKeys
  <2> QED
    BY <2>1, LastingRanks DEF MadeThere
<1>35. MadeThere("passkeys", "credential", 243)
  <2>1. MadeAt(Obj("passkeys", "credential")) = 243
    BY DEF Itself, Obj, MadeAt, MadeOfKeys
  <2> QED
    BY <2>1, LastingRanks DEF MadeThere
<1>36. MadeThere("running_timers", Itself, 261)
  <2>1. MadeAt(Obj("running_timers", Itself)) = 261
    BY DEF Itself, Obj, MadeAt
  <2> QED
    BY <2>1, LastingRanks DEF MadeThere
<1>37. MadeThere("users", "theme", 501)
  <2>1. MadeAt(Obj("users", "theme")) = 501
    BY DEF Itself, Obj, MadeAt, MadeOfUsers
  <2> QED
    BY <2>1, LastingRanks DEF MadeThere
<1>38. MadeThere("sessions", "last_seen_at", 541)
  <2>1. MadeAt(Obj("sessions", "last_seen_at")) = 541
    BY DEF Itself, Obj, MadeAt, MadeOfSessions
  <2> QED
    BY <2>1, LastingRanks DEF MadeThere
<1>39. MadeThere("timesheets", "created_at", 561)
  <2>1. MadeAt(Obj("timesheets", "created_at")) = 561
    BY DEF Itself, Obj, MadeAt, MadeOfEntries
  <2> QED
    BY <2>1, LastingRanks DEF MadeThere
<1>40. MadeThere("timesheets", "updated_at", 562)
  <2>1. MadeAt(Obj("timesheets", "updated_at")) = 562
    BY DEF Itself, Obj, MadeAt, MadeOfEntries
  <2> QED
    BY <2>1, LastingRanks DEF MadeThere
<1>41. MadeThere("directory_runs", Itself, 581)
  <2>1. MadeAt(Obj("directory_runs", Itself)) = 581
    BY DEF Itself, Obj, MadeAt
  <2> QED
    BY <2>1, LastingRanks DEF MadeThere
<1>42. MadeThere("work_schedules", Itself, 601)
  <2>1. MadeAt(Obj("work_schedules", Itself)) = 601
    BY DEF Itself, Obj, MadeAt
  <2> QED
    BY <2>1, LastingRanks DEF MadeThere
<1>43. MadeThere("entry_templates", Itself, 621)
  <2>1. MadeAt(Obj("entry_templates", Itself)) = 621
    BY DEF Itself, Obj, MadeAt
  <2> QED
    BY <2>1, LastingRanks DEF MadeThere
<1>44. MadeThere("absences", Itself, 641)
  <2>1. MadeAt(Obj("absences", Itself)) = 641
    BY DEF Itself, Obj, MadeAt
  <2> QED
    BY <2>1, LastingRanks DEF MadeThere
<1>45. MadeThere("users", "holiday_region", 661)
  <2>1. MadeAt(Obj("users", "holiday_region")) = 661
    BY DEF Itself, Obj, MadeAt, MadeOfUsers
  <2> QED
    BY <2>1, LastingRanks DEF MadeThere
<1>46. MadeThere("users", "every_day_counts_from", 681)
  <2>1. MadeAt(Obj("users", "every_day_counts_from")) = 681
    BY DEF Itself, Obj, MadeAt, MadeOfUsers
  <2> QED
    BY <2>1, LastingRanks DEF MadeThere
<1>47. MadeThere("vacation_entitlements", Itself, 701)
  <2>1. MadeAt(Obj("vacation_entitlements", Itself)) = 701
    BY DEF Itself, Obj, MadeAt
  <2> QED
    BY <2>1, LastingRanks DEF MadeThere
<1>48. MadeThere("projects", "budget_hours", 721)
  <2>1. MadeAt(Obj("projects", "budget_hours")) = 721
    BY DEF Itself, Obj, MadeAt, MadeOfProjects
  <2> QED
    BY <2>1, LastingRanks DEF MadeThere
<1>49. MadeThere("calendar_feeds", Itself, 741)
  <2>1. MadeAt(Obj("calendar_feeds", Itself)) = 741
    BY DEF Itself, Obj, MadeAt
  <2> QED
    BY <2>1, LastingRanks DEF MadeThere
<1>50. MadeThere("openid_identities", Itself, 761)
  <2>1. MadeAt(Obj("openid_identities", Itself)) = 761
    BY DEF Itself, Obj, MadeAt
  <2> QED
    BY <2>1, LastingRanks DEF MadeThere
<1>51. MadeThere("work_days", Itself, 781)
  <2>1. MadeAt(Obj("work_days", Itself)) = 781
    BY DEF Itself, Obj, MadeAt
  <2> QED
    BY <2>1, LastingRanks DEF MadeThere
<1>52. MadeThere("timesheet_revisions", Itself, 801)
  <2>1. MadeAt(Obj("timesheet_revisions", Itself)) = 801
    BY DEF Itself, Obj, MadeAt, MadeOfRevisions
  <2> QED
    BY <2>1, LastingRanks DEF MadeThere
<1>53. MadeThere("timesheet_revisions", "entry", 821)
  <2>1. MadeAt(Obj("timesheet_revisions", "entry")) = 821
    BY DEF Itself, Obj, MadeAt, MadeOfRevisions
  <2> QED
    BY <2>1, LastingRanks DEF MadeThere
<1>54. MadeThere("users", "balance_upper_limit", 841)
  <2>1. MadeAt(Obj("users", "balance_upper_limit")) = 841
    BY DEF Itself, Obj, MadeAt, MadeOfUsers
  <2> QED
    BY <2>1, LastingRanks DEF MadeThere
<1>55. MadeThere("users", "balance_lower_limit", 861)
  <2>1. MadeAt(Obj("users", "balance_lower_limit")) = 861
    BY DEF Itself, Obj, MadeAt, MadeOfUsers
  <2> QED
    BY <2>1, LastingRanks DEF MadeThere
<1>56. MadeThere("users", "skip_unbooked_reminder", 881)
  <2>1. MadeAt(Obj("users", "skip_unbooked_reminder")) = 881
    BY DEF Itself, Obj, MadeAt, MadeOfUsers
  <2> QED
    BY <2>1, LastingRanks DEF MadeThere
<1>57. MadeThere("users", "timer_alert_hours", 901)
  <2>1. MadeAt(Obj("users", "timer_alert_hours")) = 901
    BY DEF Itself, Obj, MadeAt, MadeOfUsers
  <2> QED
    BY <2>1, LastingRanks DEF MadeThere
<1>58. MadeThere("admin_events", Itself, 921)
  <2>1. MadeAt(Obj("admin_events", Itself)) = 921
    BY DEF Itself, Obj, MadeAt
  <2> QED
    BY <2>1, LastingRanks DEF MadeThere
<1>59. MadeThere("managed_accounts", Itself, 941)
  <2>1. MadeAt(Obj("managed_accounts", Itself)) = 941
    BY DEF Itself, Obj, MadeAt
  <2> QED
    BY <2>1, LastingRanks DEF MadeThere
<1>60. MadeThere("timesheets", "recorded_by", 961)
  <2>1. MadeAt(Obj("timesheets", "recorded_by")) = 961
    BY DEF Itself, Obj, MadeAt, MadeOfEntries
  <2> QED
    BY <2>1, LastingRanks DEF MadeThere
<1>61. MadeThere("timesheets", "updated_by", 981)
  <2>1. MadeAt(Obj("timesheets", "updated_by")) = 981
    BY DEF Itself, Obj, MadeAt, MadeOfEntries
  <2> QED
    BY <2>1, LastingRanks DEF MadeThere
<1>62. MadeThere("timesheet_revisions", "replaced_by", 1001)
  <2>1. MadeAt(Obj("timesheet_revisions", "replaced_by")) = 1001
    BY DEF Itself, Obj, MadeAt, MadeOfRevisions
  <2> QED
    BY <2>1, LastingRanks DEF MadeThere
<1>63. MadeThere("projects", "billable", 1041)
  <2>1. MadeAt(Obj("projects", "billable")) = 1041
    BY DEF Itself, Obj, MadeAt, MadeOfProjects
  <2> QED
    BY <2>1, LastingRanks DEF MadeThere
<1>64. MadeThere("projects", "hourly_rate", 1061)
  <2>1. MadeAt(Obj("projects", "hourly_rate")) = 1061
    BY DEF Itself, Obj, MadeAt, MadeOfProjects
  <2> QED
    BY <2>1, LastingRanks DEF MadeThere
<1>65. MadeThere("projects", "currency", 1081)
  <2>1. MadeAt(Obj("projects", "currency")) = 1081
    BY DEF Itself, Obj, MadeAt, MadeOfProjects
  <2> QED
    BY <2>1, LastingRanks DEF MadeThere
<1> QED
  BY <1>1, <1>2, <1>3, <1>4, <1>5, <1>6, <1>7, <1>8, <1>9, <1>10, <1>11, <1>12, <1>13, <1>14, <1>15, <1>16, <1>17, <1>18, <1>19, <1>20, <1>21, <1>22, <1>23, <1>24, <1>25, <1>26, <1>27, <1>28, <1>29, <1>30, <1>31, <1>32, <1>33, <1>34, <1>35, <1>36, <1>37, <1>38, <1>39, <1>40, <1>41, <1>42, <1>43, <1>44, <1>45, <1>46, <1>47, <1>48, <1>49, <1>50, <1>51, <1>52, <1>53, <1>54, <1>55, <1>56, <1>57, <1>58, <1>59, <1>60, <1>61, <1>62, <1>63, <1>64, <1>65

LEMMA MigrationsSuit ==
  ASSUME NEW i \in 1 .. 55, NEW k \in DOMAIN All[i]
  PROVE  Suits(All[i][k], 20 * i + k)
<1>1. CASE i = 1
  <2>1. All[i] = firstTables
    BY <1>1 DEF All
  <2>2. k \in 1 .. 5
    BY <2>1 DEF firstTables
  <2>3. Suits(firstTables[1], 21)
    <3>1. MadeThere("users", Itself, 21)
      BY FreshObjects
    <3>2. 21 \in Nat \ Special
      BY DEF Special
    <3> QED
      BY <3>1, <3>2, TableSuits DEF firstTables
  <2>4. Suits(firstTables[2], 22)
    <3>1. MadeThere("users", "role", 22)
      BY FreshObjects
    <3>2. 22 \in Nat \ Special /\ Base("users", 22)
      BY Bases DEF Special
    <3> QED
      BY <3>1, <3>2, ColumnSuits DEF firstTables
  <2>5. Suits(firstTables[3], 23)
    <3>1. MadeThere("projects", Itself, 23)
      BY FreshObjects
    <3>2. 23 \in Nat \ Special
      BY DEF Special
    <3> QED
      BY <3>1, <3>2, TableSuits DEF firstTables
  <2>6. Suits(firstTables[4], 24)
    <3>1. MadeThere("timesheets", Itself, 24)
      BY FreshObjects
    <3>2. 24 \in Nat \ Special /\ Base("users", 24) /\ Base("projects", 24)
      BY Bases DEF Special
    <3> QED
      BY <3>1, <3>2, TableSuits DEF firstTables
  <2>7. Suits(firstTables[5], 25)
    <3>1. MadeThere("timesheets", "status", 25)
      BY FreshObjects
    <3>2. 25 \in Nat \ Special /\ Base("timesheets", 25)
      BY Bases DEF Special
    <3> QED
      BY <3>1, <3>2, ColumnSuits DEF firstTables
  <2> QED
    BY <1>1, <2>1, <2>2, <2>3, <2>4, <2>5, <2>6, <2>7
<1>2. CASE i = 2
  <2>1. All[i] = firstIndexes
    BY <1>2 DEF All
  <2>2. k \in 1 .. 2
    BY <2>1 DEF firstIndexes
  <2>3. Suits(firstIndexes[1], 41)
    <3>1. MadeThere("timesheets", "user_date", 41)
      BY FreshObjects
    <3>2. 41 \in Nat \ Special /\ Base("timesheets", 41)
      BY Bases DEF Special
    <3> QED
      BY <3>1, <3>2, ColumnSuits DEF firstIndexes
  <2>4. Suits(firstIndexes[2], 42)
    <3>1. MadeThere("timesheets", "project", 42)
      BY FreshObjects
    <3>2. 42 \in Nat \ Special /\ Base("timesheets", 42)
      BY Bases DEF Special
    <3> QED
      BY <3>1, <3>2, ColumnSuits DEF firstIndexes
  <2> QED
    BY <1>2, <2>1, <2>2, <2>3, <2>4
<1>3. CASE i = 3
  <2>1. All[i] = addRoleBasedAccess
    BY <1>3 DEF All
  <2>2. k \in 1 .. 11
    BY <2>1 DEF addRoleBasedAccess
  <2>3. Suits(addRoleBasedAccess[1], 61)
    <3>1. MadeThere("roles", Itself, 61)
      BY FreshObjects
    <3>2. 61 \in Nat \ Special
      BY DEF Special
    <3> QED
      BY <3>1, <3>2, TableSuits DEF addRoleBasedAccess
  <2>4. Suits(addRoleBasedAccess[2], 62)
    <3>1. MadeThere("role_permissions", Itself, 62)
      BY FreshObjects
    <3>2. 62 \in Nat \ Special /\ Base("roles", 62)
      BY Bases DEF Special
    <3> QED
      BY <3>1, <3>2, TableSuits DEF addRoleBasedAccess
  <2>5. Suits(addRoleBasedAccess[3], 63)
    <3>1. MadeThere("users", "role_id", 63)
      BY FreshObjects
    <3>2. 63 \in Nat \ Special /\ Base("users", 63)
      BY Bases DEF Special
    <3> QED
      BY <3>1, <3>2, ColumnSuits DEF addRoleBasedAccess
  <2>6. Suits(addRoleBasedAccess[4], 64)
    <3>1. MadeThere("users", "password_hash", 64)
      BY FreshObjects
    <3>2. 64 \in Nat \ Special /\ Base("users", 64)
      BY Bases DEF Special
    <3> QED
      BY <3>1, <3>2, ColumnSuits DEF addRoleBasedAccess
  <2>7. Suits(addRoleBasedAccess[5], 65)
    <3>1. MadeThere("users", "must_change_password", 65)
      BY FreshObjects
    <3>2. 65 \in Nat \ Special /\ Base("users", 65)
      BY Bases DEF Special
    <3> QED
      BY <3>1, <3>2, ColumnSuits DEF addRoleBasedAccess
  <2>8. Suits(addRoleBasedAccess[6], 66)
    <3>1. MadeThere("users", "is_system", 66)
      BY FreshObjects
    <3>2. 66 \in Nat \ Special /\ Base("users", 66)
      BY Bases DEF Special
    <3> QED
      BY <3>1, <3>2, ColumnSuits DEF addRoleBasedAccess
  <2>9. Suits(addRoleBasedAccess[7], 67)
    <3>1. MadeThere("users", "daily_target_hours", 67)
      BY FreshObjects
    <3>2. 67 \in Nat \ Special /\ Base("users", 67)
      BY Bases DEF Special
    <3> QED
      BY <3>1, <3>2, ColumnSuits DEF addRoleBasedAccess
  <2>10. Suits(addRoleBasedAccess[8], 68)
    <3>1. MadeThere("users", "max_daily_hours", 68)
      BY FreshObjects
    <3>2. 68 \in Nat \ Special /\ Base("users", 68)
      BY Bases DEF Special
    <3> QED
      BY <3>1, <3>2, ColumnSuits DEF addRoleBasedAccess
  <2>11. Suits(addRoleBasedAccess[9], 69)
    <3>1. 69 \in Nat \ Special /\ NothingLasting(69)
      BY NothingElseLasts DEF Special
    <3> QED
      BY <3>1, RowsSuit DEF SuitsRows, addRoleBasedAccess
  <2>12. Suits(addRoleBasedAccess[10], 70)
    <3>1. 70 \in Nat \ Special /\ NothingLasting(70)
      BY NothingElseLasts DEF Special
    <3> QED
      BY <3>1, RowsSuit DEF SuitsRows, addRoleBasedAccess
  <2>13. Suits(addRoleBasedAccess[11], 71)
    BY DEF Suits, addRoleBasedAccess, Obj
  <2> QED
    BY <1>3, <2>1, <2>2, <2>3, <2>4, <2>5, <2>6, <2>7, <2>8, <2>9, <2>10, <2>11, <2>12, <2>13
<1>4. CASE i = 4
  <2>1. All[i] = addSessionsAndPreferences
    BY <1>4 DEF All
  <2>2. k \in 1 .. 8
    BY <2>1 DEF addSessionsAndPreferences
  <2>3. Suits(addSessionsAndPreferences[1], 81)
    <3>1. MadeThere("sessions", Itself, 81)
      BY FreshObjects
    <3>2. 81 \in Nat \ Special /\ Base("users", 81)
      BY Bases DEF Special
    <3> QED
      BY <3>1, <3>2, TableSuits DEF addSessionsAndPreferences
  <2>4. Suits(addSessionsAndPreferences[2], 82)
    <3>1. MadeThere("sessions", "user", 82)
      BY FreshObjects
    <3>2. 82 \in Nat \ Special /\ Base("sessions", 82)
      BY Bases DEF Special
    <3> QED
      BY <3>1, <3>2, ColumnSuits DEF addSessionsAndPreferences
  <2>5. Suits(addSessionsAndPreferences[3], 83)
    <3>1. MadeThere("sessions", "expiry", 83)
      BY FreshObjects
    <3>2. 83 \in Nat \ Special /\ Base("sessions", 83)
      BY Bases DEF Special
    <3> QED
      BY <3>1, <3>2, ColumnSuits DEF addSessionsAndPreferences
  <2>6. Suits(addSessionsAndPreferences[4], 84)
    <3>1. MadeThere("users", "totp_secret", 84)
      BY FreshObjects
    <3>2. 84 \in Nat \ Special /\ Base("users", 84)
      BY Bases DEF Special
    <3> QED
      BY <3>1, <3>2, ColumnSuits DEF addSessionsAndPreferences
  <2>7. Suits(addSessionsAndPreferences[5], 85)
    <3>1. MadeThere("users", "totp_enabled", 85)
      BY FreshObjects
    <3>2. 85 \in Nat \ Special /\ Base("users", 85)
      BY Bases DEF Special
    <3> QED
      BY <3>1, <3>2, ColumnSuits DEF addSessionsAndPreferences
  <2>8. Suits(addSessionsAndPreferences[6], 86)
    <3>1. MadeThere("users", "language", 86)
      BY FreshObjects
    <3>2. 86 \in Nat \ Special /\ Base("users", 86)
      BY Bases DEF Special
    <3> QED
      BY <3>1, <3>2, ColumnSuits DEF addSessionsAndPreferences
  <2>9. Suits(addSessionsAndPreferences[7], 87)
    <3>1. MadeThere("users", "is_external", 87)
      BY FreshObjects
    <3>2. 87 \in Nat \ Special /\ Base("users", 87)
      BY Bases DEF Special
    <3> QED
      BY <3>1, <3>2, ColumnSuits DEF addSessionsAndPreferences
  <2>10. Suits(addSessionsAndPreferences[8], 88)
    <3>1. 88 \in Nat \ Special /\ NothingLasting(88)
      BY NothingElseLasts DEF Special
    <3> QED
      BY <3>1, RowsSuit DEF SuitsRows, addSessionsAndPreferences
  <2> QED
    BY <1>4, <2>1, <2>2, <2>3, <2>4, <2>5, <2>6, <2>7, <2>8, <2>9, <2>10
<1>5. CASE i = 5
  <2>0. All[i] = makeProjectOptional
    BY <1>5 DEF All
  <2>1. CASE dialect = "sqlite"
    <3>0. makeProjectOptional = <<Table("timesheets_new", {"users", "projects"}), Rewrite("copyEntries"), Drop(Obj("timesheets", Itself)), Rewrite("renameTable"), Index("timesheets", "user_date"), Index("timesheets", "project")>>
      BY <2>1 DEF makeProjectOptional, Obj, Itself
    <3>1. All[i] = <<Table("timesheets_new", {"users", "projects"}), Rewrite("copyEntries"), Drop(Obj("timesheets", Itself)), Rewrite("renameTable"), Index("timesheets", "user_date"), Index("timesheets", "project")>>
      BY <2>0, <3>0
    <3>2. k \in 1 .. 6
      BY <3>1
    <3>3. Suits(Table("timesheets_new", {"users", "projects"}), 101)
      <4>1. MadeThere("timesheets_new", Itself, 101)
        BY FreshObjects
      <4>2. 101 \in Nat \ Special /\ Base("users", 101) /\ Base("projects", 101)
        BY Bases DEF Special
      <4> QED
        BY <4>1, <4>2, TableSuits
    <3>4. Suits(Rewrite("copyEntries"), 102)
      <4>1. 102 \in Nat \ Special /\ NothingLasting(102)
        BY NothingElseLasts DEF Special
      <4> QED
        BY <4>1, RowsSuit DEF SuitsRows
    <3>5. Suits(Drop(Obj("timesheets", Itself)), 103)
      BY <2>1 DEF Suits
    <3>6. Suits(Rewrite("renameTable"), 104)
      BY <2>1 DEF Suits
    <3>7. Suits(Index("timesheets", "user_date"), 105)
      BY <2>1 DEF Suits
    <3>8. Suits(Index("timesheets", "project"), 106)
      BY <2>1 DEF Suits
    <3> QED
      BY <1>5, <3>1, <3>2, <3>3, <3>4, <3>5, <3>6, <3>7, <3>8
  <2>2. CASE dialect # "sqlite"
    <3>a. makeProjectOptional = IF dialect # "sqlite" THEN <<Alter(Obj("timesheets", Itself))>> ELSE <<Table("timesheets_new", {"users", "projects"}), Rewrite("copyEntries"), Drop(Obj("timesheets", Itself)), Rewrite("renameTable"), Index("timesheets", "user_date"), Index("timesheets", "project")>>
      BY DEF makeProjectOptional, Obj, Itself
    <3>0. makeProjectOptional = <<Alter(Obj("timesheets", Itself))>>
      BY <2>2, <3>a
    <3>1. All[i] = <<Alter(Obj("timesheets", Itself))>>
      BY <2>0, <3>0
    <3>2. Suits(Alter(Obj("timesheets", Itself)), 101)
      BY <2>2 DEF Suits
    <3> QED
      BY <1>5, <3>1, <3>2
  <2> QED
    BY <2>1, <2>2
<1>6. CASE i = 6
  <2>1. All[i] = createSettings
    BY <1>6 DEF All
  <2>2. k \in 1 .. 1
    BY <2>1 DEF createSettings
  <2>3. Suits(createSettings[1], 121)
    <3>1. MadeThere("settings", Itself, 121)
      BY FreshObjects
    <3>2. 121 \in Nat \ Special
      BY DEF Special
    <3> QED
      BY <3>1, <3>2, TableSuits DEF createSettings
  <2> QED
    BY <1>6, <2>1, <2>2, <2>3
<1>7. CASE i = 7
  <2>1. All[i] = addPrivateProjects
    BY <1>7 DEF All
  <2>2. k \in 1 .. 3
    BY <2>1 DEF addPrivateProjects
  <2>3. Suits(addPrivateProjects[1], 141)
    <3>1. MadeThere("projects", "owner_id", 141)
      BY FreshObjects
    <3>2. 141 \in Nat \ Special /\ Base("projects", 141)
      BY Bases DEF Special
    <3> QED
      BY <3>1, <3>2, ColumnSuits DEF addPrivateProjects
  <2>4. Suits(addPrivateProjects[2], 142)
    <3>1. MadeThere("projects", "owner", 142)
      BY FreshObjects
    <3>2. 142 \in Nat \ Special /\ Base("projects", 142)
      BY Bases DEF Special
    <3> QED
      BY <3>1, <3>2, ColumnSuits DEF addPrivateProjects
  <2>5. Suits(addPrivateProjects[3], 143)
    <3>1. 143 \in Nat \ Special /\ NothingLasting(143)
      BY NothingElseLasts DEF Special
    <3> QED
      BY <3>1, RowsSuit DEF SuitsRows, addPrivateProjects
  <2> QED
    BY <1>7, <2>1, <2>2, <2>3, <2>4, <2>5
<1>8. CASE i = 8
  <2>1. All[i] = createAPITokens
    BY <1>8 DEF All
  <2>2. k \in 1 .. 2
    BY <2>1 DEF createAPITokens
  <2>3. Suits(createAPITokens[1], 161)
    <3>1. MadeThere("api_tokens", Itself, 161)
      BY FreshObjects
    <3>2. 161 \in Nat \ Special /\ Base("users", 161)
      BY Bases DEF Special
    <3> QED
      BY <3>1, <3>2, TableSuits DEF createAPITokens
  <2>4. Suits(createAPITokens[2], 162)
    <3>1. MadeThere("api_tokens", "user", 162)
      BY FreshObjects
    <3>2. 162 \in Nat \ Special /\ Base("api_tokens", 162)
      BY Bases DEF Special
    <3> QED
      BY <3>1, <3>2, ColumnSuits DEF createAPITokens
  <2> QED
    BY <1>8, <2>1, <2>2, <2>3, <2>4
<1>9. CASE i = 9
  <2>1. All[i] = addExternalIdentity
    BY <1>9 DEF All
  <2>2. k \in 1 .. 2
    BY <2>1 DEF addExternalIdentity
  <2>3. Suits(addExternalIdentity[1], 181)
    <3>1. MadeThere("users", "external_id", 181)
      BY FreshObjects
    <3>2. 181 \in Nat \ Special /\ Base("users", 181)
      BY Bases DEF Special
    <3> QED
      BY <3>1, <3>2, ColumnSuits DEF addExternalIdentity
  <2>4. Suits(addExternalIdentity[2], 182)
    <3>1. MadeThere("users", "external_id_index", 182)
      BY FreshObjects
    <3>2. 182 \in Nat \ Special /\ Base("users", 182)
      BY Bases DEF Special
    <3> QED
      BY <3>1, <3>2, ColumnSuits DEF addExternalIdentity
  <2> QED
    BY <1>9, <2>1, <2>2, <2>3, <2>4
<1>10. CASE i = 10
  <2>1. All[i] = addUserTimezone
    BY <1>10 DEF All
  <2>2. k \in 1 .. 1
    BY <2>1 DEF addUserTimezone
  <2>3. Suits(addUserTimezone[1], 201)
    <3>1. MadeThere("users", "timezone", 201)
      BY FreshObjects
    <3>2. 201 \in Nat \ Special /\ Base("users", 201)
      BY Bases DEF Special
    <3> QED
      BY <3>1, <3>2, ColumnSuits DEF addUserTimezone
  <2> QED
    BY <1>10, <2>1, <2>2, <2>3
<1>11. CASE i = 11
  <2>1. All[i] = addUserTourSeen
    BY <1>11 DEF All
  <2>2. k \in 1 .. 1
    BY <2>1 DEF addUserTourSeen
  <2>3. Suits(addUserTourSeen[1], 221)
    <3>1. MadeThere("users", "tour_seen", 221)
      BY FreshObjects
    <3>2. 221 \in Nat \ Special /\ Base("users", 221)
      BY Bases DEF Special
    <3> QED
      BY <3>1, <3>2, ColumnSuits DEF addUserTourSeen
  <2> QED
    BY <1>11, <2>1, <2>2, <2>3
<1>12. CASE i = 12
  <2>1. All[i] = createPasskeys
    BY <1>12 DEF All
  <2>2. k \in 1 .. 3
    BY <2>1 DEF createPasskeys
  <2>3. Suits(createPasskeys[1], 241)
    <3>1. MadeThere("passkeys", Itself, 241)
      BY FreshObjects
    <3>2. 241 \in Nat \ Special /\ Base("users", 241)
      BY Bases DEF Special
    <3> QED
      BY <3>1, <3>2, TableSuits DEF createPasskeys
  <2>4. Suits(createPasskeys[2], 242)
    <3>1. MadeThere("passkeys", "user", 242)
      BY FreshObjects
    <3>2. 242 \in Nat \ Special /\ Base("passkeys", 242)
      BY Bases DEF Special
    <3> QED
      BY <3>1, <3>2, ColumnSuits DEF createPasskeys
  <2>5. Suits(createPasskeys[3], 243)
    <3>1. MadeThere("passkeys", "credential", 243)
      BY FreshObjects
    <3>2. 243 \in Nat \ Special /\ Base("passkeys", 243)
      BY Bases DEF Special
    <3> QED
      BY <3>1, <3>2, ColumnSuits DEF createPasskeys
  <2> QED
    BY <1>12, <2>1, <2>2, <2>3, <2>4, <2>5
<1>13. CASE i = 13
  <2>1. All[i] = createRunningTimers
    BY <1>13 DEF All
  <2>2. k \in 1 .. 1
    BY <2>1 DEF createRunningTimers
  <2>3. Suits(createRunningTimers[1], 261)
    <3>1. MadeThere("running_timers", Itself, 261)
      BY FreshObjects
    <3>2. 261 \in Nat \ Special /\ Base("users", 261) /\ Base("projects", 261)
      BY Bases DEF Special
    <3> QED
      BY <3>1, <3>2, TableSuits DEF createRunningTimers
  <2> QED
    BY <1>13, <2>1, <2>2, <2>3
<1>14. CASE i = 14
  <2>1. All[i] = separateSystemAdministration
    BY <1>14 DEF All
  <2>2. k \in 1 .. 2
    BY <2>1 DEF separateSystemAdministration
  <2>3. Suits(separateSystemAdministration[1], 281)
    <3>1. 281 \in Nat \ Special /\ NothingLasting(281)
      BY NothingElseLasts DEF Special
    <3> QED
      BY <3>1, RowsSuit DEF SuitsRows, separateSystemAdministration
  <2>4. Suits(separateSystemAdministration[2], 282)
    <3>1. 282 \in Nat \ Special /\ NothingLasting(282)
      BY NothingElseLasts DEF Special
    <3> QED
      BY <3>1, RowsSuit DEF SuitsRows, separateSystemAdministration
  <2> QED
    BY <1>14, <2>1, <2>2, <2>3, <2>4
<1>15. CASE i = 15
  <2>1. All[i] = retireTheReviewPath
    BY <1>15 DEF All
  <2>2. k \in 1 .. 4
    BY <2>1 DEF retireTheReviewPath
  <2>3. Suits(retireTheReviewPath[1], 301)
    <3>1. 301 \in Nat \ Special /\ NothingLasting(301)
      BY NothingElseLasts DEF Special
    <3> QED
      BY <3>1, RowsSuit DEF SuitsRows, retireTheReviewPath
  <2>4. Suits(retireTheReviewPath[2], 302)
    <3>1. 302 \in Nat \ Special /\ NothingLasting(302)
      BY NothingElseLasts DEF Special
    <3> QED
      BY <3>1, RowsSuit DEF SuitsRows, retireTheReviewPath
  <2>5. Suits(retireTheReviewPath[3], 303)
    <3>1. 303 \in Nat \ Special /\ NothingLasting(303)
      BY NothingElseLasts DEF Special
    <3> QED
      BY <3>1, RowsSuit DEF SuitsRows, retireTheReviewPath
  <2>6. Suits(retireTheReviewPath[4], 304)
    BY DEF Suits, retireTheReviewPath, Obj
  <2> QED
    BY <1>15, <2>1, <2>2, <2>3, <2>4, <2>5, <2>6
<1>16. CASE i = 16
  <2>1. All[i] = repairAccountsWithoutARole
    BY <1>16 DEF All
  <2>2. k \in 1 .. 1
    BY <2>1 DEF repairAccountsWithoutARole
  <2>3. Suits(repairAccountsWithoutARole[1], 321)
    <3>1. 321 \in Nat \ Special /\ NothingLasting(321)
      BY NothingElseLasts DEF Special
    <3> QED
      BY <3>1, RowsSuit DEF SuitsRows, repairAccountsWithoutARole
  <2> QED
    BY <1>16, <2>1, <2>2, <2>3
<1>17. CASE i = 17
  <2>1. All[i] = retireTheSeparateReportRight
    BY <1>17 DEF All
  <2>2. k \in 1 .. 1
    BY <2>1 DEF retireTheSeparateReportRight
  <2>3. Suits(retireTheSeparateReportRight[1], 341)
    <3>1. 341 \in Nat \ Special /\ NothingLasting(341)
      BY NothingElseLasts DEF Special
    <3> QED
      BY <3>1, RowsSuit DEF SuitsRows, retireTheSeparateReportRight
  <2> QED
    BY <1>17, <2>1, <2>2, <2>3
<1>18. CASE i = 18
  <2>1. All[i] = handWorkingTimesToTheirOwners
    BY <1>18 DEF All
  <2>2. k \in 1 .. 1
    BY <2>1 DEF handWorkingTimesToTheirOwners
  <2>3. Suits(handWorkingTimesToTheirOwners[1], 361)
    <3>1. 361 \in Nat \ Special /\ NothingLasting(361)
      BY NothingElseLasts DEF Special
    <3> QED
      BY <3>1, RowsSuit DEF SuitsRows, handWorkingTimesToTheirOwners
  <2> QED
    BY <1>18, <2>1, <2>2, <2>3
<1>19. CASE i = 19
  <2>1. All[i] = giveEveryProjectAnOwner
    BY <1>19 DEF All
  <2>2. k \in 1 .. 3
    BY <2>1 DEF giveEveryProjectAnOwner
  <2>3. Suits(giveEveryProjectAnOwner[1], 381)
    <3>1. 381 \in Nat \ Special /\ NothingLasting(381)
      BY NothingElseLasts DEF Special
    <3> QED
      BY <3>1, RowsSuit DEF SuitsRows, giveEveryProjectAnOwner
  <2>4. Suits(giveEveryProjectAnOwner[2], 382)
    <3>1. 382 \in Nat \ Special /\ NothingLasting(382)
      BY NothingElseLasts DEF Special
    <3> QED
      BY <3>1, RowsSuit DEF SuitsRows, giveEveryProjectAnOwner
  <2>5. Suits(giveEveryProjectAnOwner[3], 383)
    <3>1. 383 \in Nat \ Special /\ NothingLasting(383)
      BY NothingElseLasts DEF Special
    <3> QED
      BY <3>1, RowsSuit DEF SuitsRows, giveEveryProjectAnOwner
  <2> QED
    BY <1>19, <2>1, <2>2, <2>3, <2>4, <2>5
<1>20. CASE i = 20
  <2>1. All[i] = separateAdministeringFromWorking
    BY <1>20 DEF All
  <2>2. k \in 1 .. 2
    BY <2>1 DEF separateAdministeringFromWorking
  <2>3. Suits(separateAdministeringFromWorking[1], 401)
    <3>1. 401 \in Nat \ Special /\ NothingLasting(401)
      BY NothingElseLasts DEF Special
    <3> QED
      BY <3>1, RowsSuit DEF SuitsRows, separateAdministeringFromWorking
  <2>4. Suits(separateAdministeringFromWorking[2], 402)
    <3>1. 402 \in Nat \ Special /\ NothingLasting(402)
      BY NothingElseLasts DEF Special
    <3> QED
      BY <3>1, RowsSuit DEF SuitsRows, separateAdministeringFromWorking
  <2> QED
    BY <1>20, <2>1, <2>2, <2>3, <2>4
<1>21. CASE i = 21
  <2>1. All[i] = retireReadingEverybodysTime
    BY <1>21 DEF All
  <2>2. k \in 1 .. 4
    BY <2>1 DEF retireReadingEverybodysTime
  <2>3. Suits(retireReadingEverybodysTime[1], 421)
    <3>1. 421 \in Nat \ Special /\ NothingLasting(421)
      BY NothingElseLasts DEF Special
    <3> QED
      BY <3>1, RowsSuit DEF SuitsRows, retireReadingEverybodysTime
  <2>4. Suits(retireReadingEverybodysTime[2], 422)
    <3>1. 422 \in Nat \ Special /\ NothingLasting(422)
      BY NothingElseLasts DEF Special
    <3> QED
      BY <3>1, RowsSuit DEF SuitsRows, retireReadingEverybodysTime
  <2>5. Suits(retireReadingEverybodysTime[3], 423)
    <3>1. 423 \in Nat \ Special /\ NothingLasting(423)
      BY NothingElseLasts DEF Special
    <3> QED
      BY <3>1, RowsSuit DEF SuitsRows, retireReadingEverybodysTime
  <2>6. Suits(retireReadingEverybodysTime[4], 424)
    <3>1. 424 \in Nat \ Special /\ NothingLasting(424)
      BY NothingElseLasts DEF Special
    <3> QED
      BY <3>1, RowsSuit DEF SuitsRows, retireReadingEverybodysTime
  <2> QED
    BY <1>21, <2>1, <2>2, <2>3, <2>4, <2>5, <2>6
<1>22. CASE i = 22
  <2>1. All[i] = callTheEverydayRoleUser
    BY <1>22 DEF All
  <2>2. k \in 1 .. 1
    BY <2>1 DEF callTheEverydayRoleUser
  <2>3. Suits(callTheEverydayRoleUser[1], 441)
    BY DEF Suits, callTheEverydayRoleUser
  <2> QED
    BY <1>22, <2>1, <2>2, <2>3
<1>23. CASE i = 23
  <2>1. All[i] = letAdministratorsReachTheSettings
    BY <1>23 DEF All
  <2>2. k \in 1 .. 1
    BY <2>1 DEF letAdministratorsReachTheSettings
  <2>3. Suits(letAdministratorsReachTheSettings[1], 461)
    <3>1. 461 \in Nat \ Special /\ NothingLasting(461)
      BY NothingElseLasts DEF Special
    <3> QED
      BY <3>1, RowsSuit DEF SuitsRows, letAdministratorsReachTheSettings
  <2> QED
    BY <1>23, <2>1, <2>2, <2>3
<1>24. CASE i = 24
  <2>1. All[i] = clearTheAdministratorsWorkingDay
    BY <1>24 DEF All
  <2>2. k \in 1 .. 1
    BY <2>1 DEF clearTheAdministratorsWorkingDay
  <2>3. Suits(clearTheAdministratorsWorkingDay[1], 481)
    <3>1. 481 \in Nat \ Special /\ NothingLasting(481)
      BY NothingElseLasts DEF Special
    <3> QED
      BY <3>1, RowsSuit DEF SuitsRows, clearTheAdministratorsWorkingDay
  <2> QED
    BY <1>24, <2>1, <2>2, <2>3
<1>25. CASE i = 25
  <2>1. All[i] = moveTheAppearanceOntoTheAccount
    BY <1>25 DEF All
  <2>2. k \in 1 .. 1
    BY <2>1 DEF moveTheAppearanceOntoTheAccount
  <2>3. Suits(moveTheAppearanceOntoTheAccount[1], 501)
    <3>1. MadeThere("users", "theme", 501)
      BY FreshObjects
    <3>2. 501 \in Nat \ Special /\ Base("users", 501)
      BY Bases DEF Special
    <3> QED
      BY <3>1, <3>2, ColumnSuits DEF moveTheAppearanceOntoTheAccount
  <2> QED
    BY <1>25, <2>1, <2>2, <2>3
<1>26. CASE i = 26
  <2>0. All[i] = widenTOTPSecret
    BY <1>26 DEF All
  <2>1. CASE dialect = "sqlite"
    BY <1>26, <2>1 DEF All, widenTOTPSecret
  <2>2. CASE dialect # "sqlite"
    <3>0. widenTOTPSecret = <<Alter(<<"users", "totp_secret">>)>>
      BY <2>2 DEF widenTOTPSecret, Obj, Itself
    <3>1. All[i] = <<Alter(<<"users", "totp_secret">>)>>
      BY <2>0, <3>0
    <3>2. Suits(Alter(<<"users", "totp_secret">>), 521)
      BY <2>2 DEF Suits, Obj
    <3> QED
      BY <1>26, <3>1, <3>2
  <2> QED
    BY <2>1, <2>2
<1>27. CASE i = 27
  <2>1. All[i] = rememberWhenASessionWasLastUsed
    BY <1>27 DEF All
  <2>2. k \in 1 .. 2
    BY <2>1 DEF rememberWhenASessionWasLastUsed
  <2>3. Suits(rememberWhenASessionWasLastUsed[1], 541)
    <3>1. MadeThere("sessions", "last_seen_at", 541)
      BY FreshObjects
    <3>2. 541 \in Nat \ Special /\ Base("sessions", 541)
      BY Bases DEF Special
    <3> QED
      BY <3>1, <3>2, ColumnSuits DEF rememberWhenASessionWasLastUsed
  <2>4. Suits(rememberWhenASessionWasLastUsed[2], 542)
    <3>1. 542 \in Nat \ Special /\ NothingLasting(542)
      BY NothingElseLasts DEF Special
    <3> QED
      BY <3>1, RowsSuit DEF SuitsRows, rememberWhenASessionWasLastUsed
  <2> QED
    BY <1>27, <2>1, <2>2, <2>3, <2>4
<1>28. CASE i = 28
  <2>1. All[i] = rememberWhenAnEntryWasBookedAndCorrected
    BY <1>28 DEF All
  <2>2. k \in 1 .. 2
    BY <2>1 DEF rememberWhenAnEntryWasBookedAndCorrected
  <2>3. Suits(rememberWhenAnEntryWasBookedAndCorrected[1], 561)
    <3>1. MadeThere("timesheets", "created_at", 561)
      BY FreshObjects
    <3>2. 561 \in Nat \ Special /\ Base("timesheets", 561)
      BY Bases DEF Special
    <3> QED
      BY <3>1, <3>2, ColumnSuits DEF rememberWhenAnEntryWasBookedAndCorrected
  <2>4. Suits(rememberWhenAnEntryWasBookedAndCorrected[2], 562)
    <3>1. MadeThere("timesheets", "updated_at", 562)
      BY FreshObjects
    <3>2. 562 \in Nat \ Special /\ Base("timesheets", 562)
      BY Bases DEF Special
    <3> QED
      BY <3>1, <3>2, ColumnSuits DEF rememberWhenAnEntryWasBookedAndCorrected
  <2> QED
    BY <1>28, <2>1, <2>2, <2>3, <2>4
<1>29. CASE i = 29
  <2>1. All[i] = recordWhatEachDirectoryRunChanged
    BY <1>29 DEF All
  <2>2. k \in 1 .. 1
    BY <2>1 DEF recordWhatEachDirectoryRunChanged
  <2>3. Suits(recordWhatEachDirectoryRunChanged[1], 581)
    <3>1. MadeThere("directory_runs", Itself, 581)
      BY FreshObjects
    <3>2. 581 \in Nat \ Special
      BY DEF Special
    <3> QED
      BY <3>1, <3>2, TableSuits DEF recordWhatEachDirectoryRunChanged
  <2> QED
    BY <1>29, <2>1, <2>2, <2>3
<1>30. CASE i = 30
  <2>1. All[i] = planTheWorkingWeek
    BY <1>30 DEF All
  <2>2. k \in 1 .. 1
    BY <2>1 DEF planTheWorkingWeek
  <2>3. Suits(planTheWorkingWeek[1], 601)
    <3>1. MadeThere("work_schedules", Itself, 601)
      BY FreshObjects
    <3>2. 601 \in Nat \ Special /\ Base("users", 601)
      BY Bases DEF Special
    <3> QED
      BY <3>1, <3>2, TableSuits DEF planTheWorkingWeek
  <2> QED
    BY <1>30, <2>1, <2>2, <2>3
<1>31. CASE i = 31
  <2>1. All[i] = keepEntryTemplates
    BY <1>31 DEF All
  <2>2. k \in 1 .. 1
    BY <2>1 DEF keepEntryTemplates
  <2>3. Suits(keepEntryTemplates[1], 621)
    <3>1. MadeThere("entry_templates", Itself, 621)
      BY FreshObjects
    <3>2. 621 \in Nat \ Special /\ Base("users", 621)
      BY Bases DEF Special
    <3> QED
      BY <3>1, <3>2, TableSuits DEF keepEntryTemplates
  <2> QED
    BY <1>31, <2>1, <2>2, <2>3
<1>32. CASE i = 32
  <2>1. All[i] = recordAbsences
    BY <1>32 DEF All
  <2>2. k \in 1 .. 1
    BY <2>1 DEF recordAbsences
  <2>3. Suits(recordAbsences[1], 641)
    <3>1. MadeThere("absences", Itself, 641)
      BY FreshObjects
    <3>2. 641 \in Nat \ Special /\ Base("users", 641)
      BY Bases DEF Special
    <3> QED
      BY <3>1, <3>2, TableSuits DEF recordAbsences
  <2> QED
    BY <1>32, <2>1, <2>2, <2>3
<1>33. CASE i = 33
  <2>1. All[i] = letEachPersonKeepTheirStatesHolidays
    BY <1>33 DEF All
  <2>2. k \in 1 .. 1
    BY <2>1 DEF letEachPersonKeepTheirStatesHolidays
  <2>3. Suits(letEachPersonKeepTheirStatesHolidays[1], 661)
    <3>1. MadeThere("users", "holiday_region", 661)
      BY FreshObjects
    <3>2. 661 \in Nat \ Special /\ Base("users", 661)
      BY Bases DEF Special
    <3> QED
      BY <3>1, <3>2, ColumnSuits DEF letEachPersonKeepTheirStatesHolidays
  <2> QED
    BY <1>33, <2>1, <2>2, <2>3
<1>34. CASE i = 34
  <2>1. All[i] = letEachPersonCountEveryWorkingDay
    BY <1>34 DEF All
  <2>2. k \in 1 .. 1
    BY <2>1 DEF letEachPersonCountEveryWorkingDay
  <2>3. Suits(letEachPersonCountEveryWorkingDay[1], 681)
    <3>1. MadeThere("users", "every_day_counts_from", 681)
      BY FreshObjects
    <3>2. 681 \in Nat \ Special /\ Base("users", 681)
      BY Bases DEF Special
    <3> QED
      BY <3>1, <3>2, ColumnSuits DEF letEachPersonCountEveryWorkingDay
  <2> QED
    BY <1>34, <2>1, <2>2, <2>3
<1>35. CASE i = 35
  <2>1. All[i] = keepTheYearlyLeave
    BY <1>35 DEF All
  <2>2. k \in 1 .. 1
    BY <2>1 DEF keepTheYearlyLeave
  <2>3. Suits(keepTheYearlyLeave[1], 701)
    <3>1. MadeThere("vacation_entitlements", Itself, 701)
      BY FreshObjects
    <3>2. 701 \in Nat \ Special /\ Base("users", 701)
      BY Bases DEF Special
    <3> QED
      BY <3>1, <3>2, TableSuits DEF keepTheYearlyLeave
  <2> QED
    BY <1>35, <2>1, <2>2, <2>3
<1>36. CASE i = 36
  <2>1. All[i] = giveProjectsAnHourBudget
    BY <1>36 DEF All
  <2>2. k \in 1 .. 1
    BY <2>1 DEF giveProjectsAnHourBudget
  <2>3. Suits(giveProjectsAnHourBudget[1], 721)
    <3>1. MadeThere("projects", "budget_hours", 721)
      BY FreshObjects
    <3>2. 721 \in Nat \ Special /\ Base("projects", 721)
      BY Bases DEF Special
    <3> QED
      BY <3>1, <3>2, ColumnSuits DEF giveProjectsAnHourBudget
  <2> QED
    BY <1>36, <2>1, <2>2, <2>3
<1>37. CASE i = 37
  <2>1. All[i] = keepCalendarFeeds
    BY <1>37 DEF All
  <2>2. k \in 1 .. 1
    BY <2>1 DEF keepCalendarFeeds
  <2>3. Suits(keepCalendarFeeds[1], 741)
    <3>1. MadeThere("calendar_feeds", Itself, 741)
      BY FreshObjects
    <3>2. 741 \in Nat \ Special /\ Base("users", 741)
      BY Bases DEF Special
    <3> QED
      BY <3>1, <3>2, TableSuits DEF keepCalendarFeeds
  <2> QED
    BY <1>37, <2>1, <2>2, <2>3
<1>38. CASE i = 38
  <2>1. All[i] = linkOpenIDIdentities
    BY <1>38 DEF All
  <2>2. k \in 1 .. 1
    BY <2>1 DEF linkOpenIDIdentities
  <2>3. Suits(linkOpenIDIdentities[1], 761)
    <3>1. MadeThere("openid_identities", Itself, 761)
      BY FreshObjects
    <3>2. 761 \in Nat \ Special /\ Base("users", 761)
      BY Bases DEF Special
    <3> QED
      BY <3>1, <3>2, TableSuits DEF linkOpenIDIdentities
  <2> QED
    BY <1>38, <2>1, <2>2, <2>3
<1>39. CASE i = 39
  <2>1. All[i] = recordWorkingTimes
    BY <1>39 DEF All
  <2>2. k \in 1 .. 1
    BY <2>1 DEF recordWorkingTimes
  <2>3. Suits(recordWorkingTimes[1], 781)
    <3>1. MadeThere("work_days", Itself, 781)
      BY FreshObjects
    <3>2. 781 \in Nat \ Special /\ Base("users", 781)
      BY Bases DEF Special
    <3> QED
      BY <3>1, <3>2, TableSuits DEF recordWorkingTimes
  <2> QED
    BY <1>39, <2>1, <2>2, <2>3
<1>40. CASE i = 40
  <2>1. All[i] = keepWhatEntriesSaidBefore
    BY <1>40 DEF All
  <2>2. k \in 1 .. 1
    BY <2>1 DEF keepWhatEntriesSaidBefore
  <2>3. Suits(keepWhatEntriesSaidBefore[1], 801)
    <3>1. MadeThere("timesheet_revisions", Itself, 801)
      BY FreshObjects
    <3>2. 801 \in Nat \ Special /\ Base("timesheets", 801) /\ Base("users", 801)
      BY Bases DEF Special
    <3> QED
      BY <3>1, <3>2, TableSuits DEF keepWhatEntriesSaidBefore
  <2> QED
    BY <1>40, <2>1, <2>2, <2>3
<1>41. CASE i = 41
  <2>1. All[i] = findAnEntrysHistoryByTheEntry
    BY <1>41 DEF All
  <2>2. k \in 1 .. 1
    BY <2>1 DEF findAnEntrysHistoryByTheEntry
  <2>3. Suits(findAnEntrysHistoryByTheEntry[1], 821)
    <3>1. MadeThere("timesheet_revisions", "entry", 821)
      BY FreshObjects
    <3>2. 821 \in Nat \ Special /\ Base("timesheet_revisions", 821)
      BY Bases DEF Special
    <3> QED
      BY <3>1, <3>2, ColumnSuits DEF findAnEntrysHistoryByTheEntry
  <2> QED
    BY <1>41, <2>1, <2>2, <2>3
<1>42. CASE i = 42
  <2>1. All[i] = letABalanceHaveAnUpperBound
    BY <1>42 DEF All
  <2>2. k \in 1 .. 1
    BY <2>1 DEF letABalanceHaveAnUpperBound
  <2>3. Suits(letABalanceHaveAnUpperBound[1], 841)
    <3>1. MadeThere("users", "balance_upper_limit", 841)
      BY FreshObjects
    <3>2. 841 \in Nat \ Special /\ Base("users", 841)
      BY Bases DEF Special
    <3> QED
      BY <3>1, <3>2, ColumnSuits DEF letABalanceHaveAnUpperBound
  <2> QED
    BY <1>42, <2>1, <2>2, <2>3
<1>43. CASE i = 43
  <2>1. All[i] = letABalanceHaveALowerBound
    BY <1>43 DEF All
  <2>2. k \in 1 .. 1
    BY <2>1 DEF letABalanceHaveALowerBound
  <2>3. Suits(letABalanceHaveALowerBound[1], 861)
    <3>1. MadeThere("users", "balance_lower_limit", 861)
      BY FreshObjects
    <3>2. 861 \in Nat \ Special /\ Base("users", 861)
      BY Bases DEF Special
    <3> QED
      BY <3>1, <3>2, ColumnSuits DEF letABalanceHaveALowerBound
  <2> QED
    BY <1>43, <2>1, <2>2, <2>3
<1>44. CASE i = 44
  <2>1. All[i] = letSomebodySkipTheUnbookedDayReminder
    BY <1>44 DEF All
  <2>2. k \in 1 .. 1
    BY <2>1 DEF letSomebodySkipTheUnbookedDayReminder
  <2>3. Suits(letSomebodySkipTheUnbookedDayReminder[1], 881)
    <3>1. MadeThere("users", "skip_unbooked_reminder", 881)
      BY FreshObjects
    <3>2. 881 \in Nat \ Special /\ Base("users", 881)
      BY Bases DEF Special
    <3> QED
      BY <3>1, <3>2, ColumnSuits DEF letSomebodySkipTheUnbookedDayReminder
  <2> QED
    BY <1>44, <2>1, <2>2, <2>3
<1>45. CASE i = 45
  <2>1. All[i] = letSomebodyChooseWhenTheStopwatchIsMentioned
    BY <1>45 DEF All
  <2>2. k \in 1 .. 1
    BY <2>1 DEF letSomebodyChooseWhenTheStopwatchIsMentioned
  <2>3. Suits(letSomebodyChooseWhenTheStopwatchIsMentioned[1], 901)
    <3>1. MadeThere("users", "timer_alert_hours", 901)
      BY FreshObjects
    <3>2. 901 \in Nat \ Special /\ Base("users", 901)
      BY Bases DEF Special
    <3> QED
      BY <3>1, <3>2, ColumnSuits DEF letSomebodyChooseWhenTheStopwatchIsMentioned
  <2> QED
    BY <1>45, <2>1, <2>2, <2>3
<1>46. CASE i = 46
  <2>1. All[i] = keepALogOfAdministration
    BY <1>46 DEF All
  <2>2. k \in 1 .. 1
    BY <2>1 DEF keepALogOfAdministration
  <2>3. Suits(keepALogOfAdministration[1], 921)
    <3>1. MadeThere("admin_events", Itself, 921)
      BY FreshObjects
    <3>2. 921 \in Nat \ Special
      BY DEF Special
    <3> QED
      BY <3>1, <3>2, TableSuits DEF keepALogOfAdministration
  <2> QED
    BY <1>46, <2>1, <2>2, <2>3
<1>47. CASE i = 47
  <2>1. All[i] = keepWhomEachManagerLooksAfter
    BY <1>47 DEF All
  <2>2. k \in 1 .. 1
    BY <2>1 DEF keepWhomEachManagerLooksAfter
  <2>3. Suits(keepWhomEachManagerLooksAfter[1], 941)
    <3>1. MadeThere("managed_accounts", Itself, 941)
      BY FreshObjects
    <3>2. 941 \in Nat \ Special /\ Base("users", 941)
      BY Bases DEF Special
    <3> QED
      BY <3>1, <3>2, TableSuits DEF keepWhomEachManagerLooksAfter
  <2> QED
    BY <1>47, <2>1, <2>2, <2>3
<1>48. CASE i = 48
  <2>1. All[i] = rememberWhoBookedAnEntry
    BY <1>48 DEF All
  <2>2. k \in 1 .. 1
    BY <2>1 DEF rememberWhoBookedAnEntry
  <2>3. Suits(rememberWhoBookedAnEntry[1], 961)
    <3>1. MadeThere("timesheets", "recorded_by", 961)
      BY FreshObjects
    <3>2. 961 \in Nat \ Special /\ Base("timesheets", 961)
      BY Bases DEF Special
    <3> QED
      BY <3>1, <3>2, ColumnSuits DEF rememberWhoBookedAnEntry
  <2> QED
    BY <1>48, <2>1, <2>2, <2>3
<1>49. CASE i = 49
  <2>1. All[i] = rememberWhoLastChangedAnEntry
    BY <1>49 DEF All
  <2>2. k \in 1 .. 1
    BY <2>1 DEF rememberWhoLastChangedAnEntry
  <2>3. Suits(rememberWhoLastChangedAnEntry[1], 981)
    <3>1. MadeThere("timesheets", "updated_by", 981)
      BY FreshObjects
    <3>2. 981 \in Nat \ Special /\ Base("timesheets", 981)
      BY Bases DEF Special
    <3> QED
      BY <3>1, <3>2, ColumnSuits DEF rememberWhoLastChangedAnEntry
  <2> QED
    BY <1>49, <2>1, <2>2, <2>3
<1>50. CASE i = 50
  <2>1. All[i] = rememberWhoReplacedAVersion
    BY <1>50 DEF All
  <2>2. k \in 1 .. 1
    BY <2>1 DEF rememberWhoReplacedAVersion
  <2>3. Suits(rememberWhoReplacedAVersion[1], 1001)
    <3>1. MadeThere("timesheet_revisions", "replaced_by", 1001)
      BY FreshObjects
    <3>2. 1001 \in Nat \ Special /\ Base("timesheet_revisions", 1001)
      BY Bases DEF Special
    <3> QED
      BY <3>1, <3>2, ColumnSuits DEF rememberWhoReplacedAVersion
  <2> QED
    BY <1>50, <2>1, <2>2, <2>3
<1>51. CASE i = 51
  <2>1. All[i] = shipTheManagerRole
    BY <1>51 DEF All
  <2>2. k \in 1 .. 1
    BY <2>1 DEF shipTheManagerRole
  <2>3. Suits(shipTheManagerRole[1], 1021)
    <3>1. 1021 \in Nat \ Special /\ NothingLasting(1021)
      BY NothingElseLasts DEF Special
    <3> QED
      BY <3>1, RowsSuit DEF SuitsRows, shipTheManagerRole
  <2> QED
    BY <1>51, <2>1, <2>2, <2>3
<1>52. CASE i = 52
  <2>1. All[i] = letAProjectBeBillable
    BY <1>52 DEF All
  <2>2. k \in 1 .. 1
    BY <2>1 DEF letAProjectBeBillable
  <2>3. Suits(letAProjectBeBillable[1], 1041)
    <3>1. MadeThere("projects", "billable", 1041)
      BY FreshObjects
    <3>2. 1041 \in Nat \ Special /\ Base("projects", 1041)
      BY Bases DEF Special
    <3> QED
      BY <3>1, <3>2, ColumnSuits DEF letAProjectBeBillable
  <2> QED
    BY <1>52, <2>1, <2>2, <2>3
<1>53. CASE i = 53
  <2>1. All[i] = giveAProjectAnHourlyRate
    BY <1>53 DEF All
  <2>2. k \in 1 .. 1
    BY <2>1 DEF giveAProjectAnHourlyRate
  <2>3. Suits(giveAProjectAnHourlyRate[1], 1061)
    <3>1. MadeThere("projects", "hourly_rate", 1061)
      BY FreshObjects
    <3>2. 1061 \in Nat \ Special /\ Base("projects", 1061)
      BY Bases DEF Special
    <3> QED
      BY <3>1, <3>2, ColumnSuits DEF giveAProjectAnHourlyRate
  <2> QED
    BY <1>53, <2>1, <2>2, <2>3
<1>54. CASE i = 54
  <2>1. All[i] = giveAProjectACurrency
    BY <1>54 DEF All
  <2>2. k \in 1 .. 1
    BY <2>1 DEF giveAProjectACurrency
  <2>3. Suits(giveAProjectACurrency[1], 1081)
    <3>1. MadeThere("projects", "currency", 1081)
      BY FreshObjects
    <3>2. 1081 \in Nat \ Special /\ Base("projects", 1081)
      BY Bases DEF Special
    <3> QED
      BY <3>1, <3>2, ColumnSuits DEF giveAProjectACurrency
  <2> QED
    BY <1>54, <2>1, <2>2, <2>3
<1>55. CASE i = 55
  <2>1. All[i] = placeEveryHolidayStateInGermany
    BY <1>55 DEF All
  <2>2. k \in 1 .. 1
    BY <2>1 DEF placeEveryHolidayStateInGermany
  <2>3. Suits(placeEveryHolidayStateInGermany[1], 1101)
    <3>1. 1101 \in Nat \ Special /\ NothingLasting(1101)
      BY NothingElseLasts DEF Special
    <3> QED
      BY <3>1, RowsSuit DEF SuitsRows, placeEveryHolidayStateInGermany
  <2> QED
    BY <1>55, <2>1, <2>2, <2>3
<1> QED
  BY <1>1, <1>2, <1>3, <1>4, <1>5, <1>6, <1>7, <1>8, <1>9, <1>10, <1>11, <1>12, <1>13, <1>14, <1>15, <1>16, <1>17, <1>18, <1>19, <1>20, <1>21, <1>22, <1>23, <1>24, <1>25, <1>26, <1>27, <1>28, <1>29, <1>30, <1>31, <1>32, <1>33, <1>34, <1>35, <1>36, <1>37, <1>38, <1>39, <1>40, <1>41, <1>42, <1>43, <1>44, <1>45, <1>46, <1>47, <1>48, <1>49, <1>50, <1>51, <1>52, <1>53, <1>54, <1>55

\* What a rewriting of rows leaves of the schema: all of it, but where SQLite gives the copy
\* of the entries' table its name.
SameSchema(e, d) == IsDatabase(e) /\ e.schema = d.schema

LEMMA RolesLeaveSchema ==
  ASSUME NEW d, IsDatabase(d)
  PROVE  /\ \A role : SameSchema(seedRole(d, role), d)
         /\ \A from, to : SameSchema(setRoleName(d, from, to), d)
<1>1. ASSUME NEW role PROVE SameSchema(seedRole(d, role), d)
  BY DEF seedRole, SameSchema, IsDatabase
<1>2. ASSUME NEW from, NEW to PROVE SameSchema(setRoleName(d, from, to), d)
  <2>1. CASE from \notin DOMAIN d.roles
    BY <2>1 DEF setRoleName, SameSchema
  <2>2. CASE from \in DOMAIN d.roles
    <3> DEFINE roles == With(Without(d.roles, from), to, d.roles[from])
               members == [a \in DOMAIN d.members |-> IF d.members[a] = from THEN to ELSE d.members[a]]
    <3>1. setRoleName(d, from, to) = [d EXCEPT !.roles = roles, !.members = members]
      BY <2>2 DEF setRoleName
    <3> HIDE DEF roles, members
    <3> QED
      BY <3>1 DEF SameSchema, IsDatabase
  <2> QED
    BY <2>1, <2>2
<1> QED
  BY <1>1, <1>2

LEMMA RenamingLeavesSchema ==
  ASSUME NEW d, IsDatabase(d), NEW from, NEW to
  PROVE  SameSchema(renameRole(d, from, to), d)
<1>1. CASE from \notin DOMAIN d.roles
  BY <1>1 DEF renameRole, SameSchema
<1>2. CASE from \in DOMAIN d.roles /\ to \notin DOMAIN d.roles
  BY <1>2, RolesLeaveSchema DEF renameRole
<1>3. CASE from \in DOMAIN d.roles /\ to \in DOMAIN d.roles
  <2> DEFINE e == setRoleName(d, to, aFreeRoleName(d, to))
  <2>1. renameRole(d, from, to) = setRoleName(e, from, to)
    BY <1>3 DEF renameRole
  <2>2. SameSchema(e, d)
    BY RolesLeaveSchema
  <2> HIDE DEF e
  <2>3. SameSchema(setRoleName(e, from, to), e)
    BY <2>2, RolesLeaveSchema DEF SameSchema
  <2> QED
    BY <2>1, <2>2, <2>3 DEF SameSchema
<1> QED
  BY <1>1, <1>2, <1>3

LEMMA SplittingLeavesSchema ==
  ASSUME NEW d, IsDatabase(d), sharedProjectIDs(d) \subseteq {Shared}
  PROVE  Rewritten(d, "splitProjects").schema = d.schema
<1>1. CASE sharedProjectIDs(d) = {}
  BY <1>1, NoProjectIsSplit
<1>2. CASE sharedProjectIDs(d) = {Shared}
  <2>1. Rewritten(d, "splitProjects") = splitProjectPerBooker(d, Shared)
    BY <1>2, OneProjectIsSplit
  <2>2. ASSUME NEW owners, NEW entries
        PROVE  /\ [d EXCEPT !.owners = owners, !.entries = entries].schema = d.schema
               /\ [d EXCEPT !.owners = owners].schema = d.schema
    BY DEF IsDatabase
  <2>3. splitProjectPerBooker(d, Shared).schema = d.schema
    BY <2>2 DEF splitProjectPerBooker
  <2> QED
    BY <2>1, <2>3
<1> QED
  BY <1>1, <1>2

LEMMA RewritingLeavesSchema ==
  ASSUME NEW d, IsDatabase(d), NEW how, how # "renameTable",
         how = "splitProjects" => sharedProjectIDs(d) \subseteq {Shared}
  PROVE  Rewritten(d, how).schema = d.schema
<1>1. ASSUME NEW roles, NEW members
      PROVE  /\ [d EXCEPT !.roles = roles].schema = d.schema /\ [d EXCEPT !.members = members].schema = d.schema
             /\ [d EXCEPT !.members = members, !.roles = roles].schema = d.schema
             /\ [d EXCEPT !.spare = members].schema = d.schema
  BY DEF IsDatabase
<1>2. CASE how = "seedRoles"
  BY <1>1, <1>2 DEF Rewritten
<1>3. CASE how = "rolesByName"
  BY <1>1, <1>3 DEF Rewritten
<1>4. CASE how = "reportsToTheAdministrator"
  BY <1>1, <1>4 DEF Rewritten
<1>5. CASE how = "moveManagers"
  BY <1>1, <1>5 DEF Rewritten
<1>6. CASE how = "grantOrdinary"
  BY <1>1, <1>6 DEF Rewritten
<1>7. CASE how = "adopt"
  <2> DEFINE seeded == IF theOrdinaryRoleName(d) = Unset THEN seedRole(d, "user") ELSE d
             members == [a \in DOMAIN seeded.members |->
                          IF seeded.members[a] = Unset
                          THEN (IF theOrdinaryRoleName(d) = Unset THEN "user" ELSE theOrdinaryRoleName(d))
                          ELSE seeded.members[a]]
  <2>1. Rewritten(d, how) = [seeded EXCEPT !.members = members]
    BY <1>7 DEF Rewritten
  <2>2. SameSchema(seeded, d)
    BY RolesLeaveSchema DEF SameSchema
  <2> HIDE DEF seeded, members
  <2> QED
    BY <2>1, <2>2 DEF SameSchema, IsDatabase
<1>8. CASE how = "seedCombined"
  BY <1>8, RolesLeaveSchema DEF Rewritten, SameSchema
<1>9. CASE how = "splitProjects"
  BY <1>9, SplittingLeavesSchema
<1>10. CASE how = "renameRoles"
  <2> DEFINE e == renameRole(d, "employee", "user")
             g == renameRole(e, "employee-admin", "user-admin")
             x == CASE g.directory = "employee" -> "user" [] g.directory = "employee-admin" -> "user-admin" [] OTHER -> g.directory
  <2>1. Rewritten(d, how) = [g EXCEPT !.directory = x]
    BY <1>10 DEF Rewritten, pointTheDirectoryAtTheRenamedRole
  <2>2. SameSchema(e, d)
    BY RenamingLeavesSchema
  <2>4. e = renameRole(d, "employee", "user")
    OBVIOUS
  <2> HIDE DEF e
  <2>3. SameSchema(g, e)
    BY <2>2, RenamingLeavesSchema DEF SameSchema
  <2> HIDE DEF g, x
  <2> QED
    BY <2>1, <2>2, <2>3 DEF SameSchema, IsDatabase
<1>11. CASE how = "shipManager"
  <2> DEFINE e == setRoleName(d, "manager", aFreeRoleName(d, "manager"))
  <2>1. SameSchema(e, d)
    BY RolesLeaveSchema
  <2>2. Rewritten(d, how) \in {seedRole(d, "manager"), d, seedRole(e, "manager")}
    BY <1>11 DEF Rewritten
  <2> HIDE DEF e
  <2>3. SameSchema(seedRole(e, "manager"), e) /\ SameSchema(seedRole(d, "manager"), d)
    BY <2>1, RolesLeaveSchema DEF SameSchema
  <2> QED
    BY <2>1, <2>2, <2>3 DEF SameSchema
<1>12. CASE how = "copyEntries"
  BY <1>1, <1>12 DEF Rewritten
<1>13. CASE how \notin {"seedRoles", "rolesByName", "reportsToTheAdministrator", "moveManagers", "grantOrdinary", "adopt",
                        "seedCombined", "splitProjects", "renameRoles", "shipManager", "copyEntries", "renameTable"}
  <2>1. /\ how # "seedRoles" /\ how # "rolesByName" /\ how # "reportsToTheAdministrator" /\ how # "moveManagers"
        /\ how # "grantOrdinary" /\ how # "adopt" /\ how # "seedCombined" /\ how # "splitProjects"
        /\ how # "renameRoles" /\ how # "shipManager" /\ how # "copyEntries" /\ how # "renameTable"
    BY <1>13
  <2>2. Rewritten(d, how) = d
    BY <2>1, Zenon DEF Rewritten
  <2> QED
    BY <2>2
<1> QED
  BY <1>2, <1>3, <1>4, <1>5, <1>6, <1>7, <1>8, <1>9, <1>10, <1>11, <1>12, <1>13

LEMMA OthersLeaveSchema ==
  ASSUME NEW d, IsDatabase(d), NEW s, s.op \in {"rows", "grant", "grantTo", "withdraw", "revoke", "alter"},
         s.op = "rows" => s.how # "renameTable" /\ (s.how = "splitProjects" => sharedProjectIDs(d) \subseteq {Shared})
  PROVE  Effect(d, s).schema = d.schema
<1>1. ASSUME NEW roles PROVE [d EXCEPT !.roles = roles].schema = d.schema
  BY DEF IsDatabase
<1>2. CASE s.op = "rows"
  <2>1. Effect(d, s) = Rewritten(d, s.how)
    BY <1>2 DEF Effect
  <2> QED
    BY <1>2, <2>1, RewritingLeavesSchema
<1>3. CASE s.op = "grant"
  BY <1>1, <1>3 DEF Effect
<1>4. CASE s.op = "grantTo"
  BY <1>1, <1>4 DEF Effect
<1>5. CASE s.op = "withdraw"
  BY <1>1, <1>5 DEF Effect
<1>6. CASE s.op = "revoke"
  BY <1>1, <1>6 DEF Effect
<1>7. CASE s.op = "alter"
  BY <1>7 DEF Effect
<1> QED
  BY <1>2, <1>3, <1>4, <1>5, <1>6, <1>7

\* What is left when an object is dropped, and with a table what is its.
LeftOf(schema, what) == {o \in schema : o # what /\ ~(what[2] = Itself /\ o[1] = what[1])}

LEMMA DroppingLeaves ==
  ASSUME NEW d, IsDatabase(d), NEW what
  PROVE  /\ Effect(d, Drop(what)).schema = LeftOf(d.schema, what)
         /\ Drop(what).op = "drop" /\ Drop(what).what = what
<1> DEFINE s == Drop(what)
           entries == IF s.what = <<"timesheets", "">> THEN [e \in {} |-> 0] ELSE d.entries
<1>1. s.op = "drop" /\ s.what = what
  BY DEF Drop
<1> HIDE DEF s
<1>2. {o \in d.schema : o # s.what /\ ~(s.what[2] = "" /\ o[1] = s.what[1])} = LeftOf(d.schema, s.what)
  BY Zenon DEF LeftOf, Itself
<1>3. Effect(d, s) = [d EXCEPT !.schema = {o \in d.schema : o # s.what /\ ~(s.what[2] = "" /\ o[1] = s.what[1])},
                                !.entries = entries]
  BY <1>1, Zenon DEF Effect
<1>4. Effect(d, s) = [d EXCEPT !.schema = LeftOf(d.schema, s.what), !.entries = entries]
  <2> HIDE DEF entries
  <2> QED
    BY <1>2, <1>3, Zenon
<1> HIDE DEF entries
<1>5. Effect(d, s).schema = LeftOf(d.schema, s.what)
  BY <1>4 DEF IsDatabase
<1> QED
  BY <1>1, <1>5 DEF s

LEMMA ObjectsApart ==
  /\ \A t, c : Obj(t, c)[1] = t /\ Obj(t, c)[2] = c
  /\ \A t, c, u, e : Obj(t, c) = Obj(u, e) => t = u /\ c = e
  /\ Itself # "role" /\ Itself # "status" /\ Itself # "user_date" /\ Itself # "project" /\ Itself # "totp_secret"
<1>1. \A t, c : Obj(t, c)[1] = t /\ Obj(t, c)[2] = c
  BY DEF Obj
<1>2. Itself # "role" /\ Itself # "status" /\ Itself # "user_date" /\ Itself # "project" /\ Itself # "totp_secret"
  BY DEF Itself
<1> QED
  BY <1>1, <1>2

LEMMA EntriesObjects ==
  /\ MadeAt(Obj("timesheets", Itself)) = 24 /\ MadeAt(Obj("timesheets", "status")) = 25
  /\ MadeAt(Obj("timesheets", "user_date")) = 41 /\ MadeAt(Obj("timesheets", "project")) = 42
  /\ MadeAt(Obj("users", "role")) = 22 /\ MadeAt(Obj("users", "totp_secret")) = 84
  /\ MadeAt(Obj("timesheets_new", Itself)) = 101
BY DEF Itself, Obj, MadeAt, MadeOfEntries, MadeOfUsers

LEMMA EntriesLast ==
  /\ Obj("timesheets", Itself) \in Lasting /\ Obj("timesheets", "status") \in Lasting
  /\ Obj("users", "role") \in Lasting /\ Obj("users", "totp_secret") \in Lasting
BY DEF Lasting

\* What is gone stays gone, but where SQLite has built the table again.
LEMMA GoneStays ==
  ASSUME NEW l, NEW n \in Nat, NEW m \in Nat, n <= m, dialect = "sqlite" => n # 104, Gone(l, n) PROVE Gone(l, m)
BY DEF Gone

\* A place that makes none of the lasting objects, and leaves the schema.
LEMMA SchemaIsLeft ==
  ASSUME NEW n \in Nat, NEW m \in Nat, n <= m, NEW schema, SchemaRight(schema, n),
         \A l \in Lasting : ~(n <= MadeAt(l) /\ MadeAt(l) < m),
         dialect = "sqlite" => n # 104 /\ m \notin 104 .. 106
  PROVE  SchemaRight(schema, m)
<1>1. \A o \in schema : MadeAt(o) \in 0 .. m - 1
  BY DEF SchemaRight
<1>2. ASSUME NEW l \in Lasting, MadeAt(l) < m, ~Gone(l, m) PROVE l \in schema
  <2>1. MadeAt(l) \in Nat
    BY LastingRanks
  <2>2. MadeAt(l) < n
    BY <1>2, <2>1
  <2>3. ~Gone(l, n)
    BY <1>2, GoneStays
  <2> QED
    BY <2>2, <2>3 DEF SchemaRight
<1> QED
  BY <1>1, <1>2 DEF SchemaRight

\* A statement that makes the next object is accepted, and leaves it there.
LEMMA NextIsMade ==
  ASSUME NEW n \in Nat, NEW d, IsDatabase(d), SchemaRight(d.schema, n), NEW s, MakesNext(s, n)
  PROVE  Accepted(d, s) /\ SchemaRight(Effect(d, s).schema, n + 1)
<1>1. s.op = "make" /\ MadeAt(s.what) = n /\ n \notin Special
  BY DEF MakesNext
<1>2. s.what \notin d.schema
  BY <1>1 DEF SchemaRight
<1>3. s.needs \subseteq d.schema
  BY DEF MakesNext, SchemaRight
<1>4. Accepted(d, s)
  BY <1>1, <1>2, <1>3 DEF Accepted
<1>5. Effect(d, s).schema = d.schema \cup {s.what}
  BY <1>1 DEF Effect, IsDatabase
<1>6. \A o \in d.schema \cup {s.what} : MadeAt(o) \in 0 .. n
  BY <1>1 DEF SchemaRight
<1>7. ASSUME NEW l \in Lasting, MadeAt(l) < n + 1, ~Gone(l, n + 1) PROVE l \in d.schema \cup {s.what}
  <2>1. MadeAt(l) \in Nat
    BY LastingRanks
  <2>2. ~Gone(l, n)
    BY <1>1, <1>7, GoneStays DEF Special
  <2>3. CASE MadeAt(l) < n
    BY <2>2, <2>3 DEF SchemaRight
  <2>4. CASE MadeAt(l) = n
    BY <2>4 DEF MakesNext
  <2> QED
    BY <1>7, <2>1, <2>3, <2>4
<1>8. n + 1 \notin 104 .. 106
  BY <1>1 DEF Special
<1> QED
  BY <1>4, <1>5, <1>6, <1>7, <1>8 DEF SchemaRight

\* SQLite builds the table of the entries again, and its indexes.
LEMMA TableIsBuiltAgain ==
  ASSUME dialect = "sqlite", NEW d, IsDatabase(d)
  PROVE  /\ SchemaRight(d.schema, 103) =>
              /\ Accepted(d, Drop(Obj("timesheets", Itself)))
              /\ SchemaRight(Effect(d, Drop(Obj("timesheets", Itself))).schema, 104)
         /\ SchemaRight(d.schema, 104) =>
              SchemaRight(Effect(d, Rewrite("renameTable")).schema, 105)
         /\ SchemaRight(d.schema, 105) =>
              /\ Accepted(d, Index("timesheets", "user_date"))
              /\ SchemaRight(Effect(d, Index("timesheets", "user_date")).schema, 106)
         /\ SchemaRight(d.schema, 106) =>
              /\ Accepted(d, Index("timesheets", "project"))
              /\ SchemaRight(Effect(d, Index("timesheets", "project")).schema, 107)
<1> DEFINE table == Obj("timesheets", Itself)
<1>1. ASSUME SchemaRight(d.schema, 103)
      PROVE  Accepted(d, Drop(table)) /\ SchemaRight(Effect(d, Drop(table)).schema, 104)
  <2>1. table \in d.schema
    <3>1. ~Gone(table, 103)
      BY ObjectsApart DEF Gone
    <3> QED
      BY <1>1, <3>1, EntriesObjects, EntriesLast DEF SchemaRight
  <2>2. Effect(d, Drop(table)).schema = LeftOf(d.schema, table) /\ Drop(table).op = "drop" /\ Drop(table).what = table
    BY DroppingLeaves
  <2>3. Accepted(d, Drop(table))
    BY <2>1, <2>2 DEF Accepted
  <2>4. LeftOf(d.schema, table) = {o \in d.schema : o[1] # "timesheets"}
    <3>1. table[1] = "timesheets" /\ table[2] = Itself
      BY ObjectsApart
    <3> HIDE DEF table
    <3> QED
      BY <3>1 DEF LeftOf
  <2>5. \A o \in LeftOf(d.schema, table) : MadeAt(o) \in 0 .. 103
    BY <1>1, <2>4 DEF SchemaRight
  <2>6. ASSUME NEW l \in Lasting, MadeAt(l) < 104, ~Gone(l, 104) PROVE l \in LeftOf(d.schema, table)
    <3>1. l # table /\ l # Obj("timesheets", "status")
      BY <2>6 DEF Gone
    <3>2. l[1] # "timesheets"
      BY <2>6, <3>1, ObjectsApart, LastingRanks
    <3>3. ~Gone(l, 103)
      BY <2>6, GoneStays
    <3>4. MadeAt(l) < 103
      BY <2>6, LastingRanks
    <3> QED
      BY <1>1, <2>4, <3>2, <3>3, <3>4 DEF SchemaRight
  <2>7. Obj("timesheets", "user_date") \notin LeftOf(d.schema, table) /\ Obj("timesheets", "project") \notin LeftOf(d.schema, table)
    BY <2>4, ObjectsApart
  <2> QED
    BY <2>2, <2>3, <2>5, <2>6, <2>7 DEF SchemaRight
<1>2. ASSUME SchemaRight(d.schema, 104)
      PROVE  SchemaRight(Effect(d, Rewrite("renameTable")).schema, 105)
  <2> DEFINE kept == (d.schema \ {Obj("timesheets_new", Itself)}) \cup {table, Obj("timesheets", "status")}
  <2>1. Effect(d, Rewrite("renameTable")).schema = kept
    <3>1. kept = (d.schema \ {<<"timesheets_new", "">>}) \cup {<<"timesheets", "">>, <<"timesheets", "status">>}
      BY Zenon DEF Obj, Itself
    <3>2. Effect(d, Rewrite("renameTable")) =
            [d EXCEPT !.entries = d.spare, !.spare = None,
                      !.schema = (d.schema \ {<<"timesheets_new", "">>}) \cup {<<"timesheets", "">>, <<"timesheets", "status">>}]
      BY DEF Effect, Rewrite, Rewritten, None
    <3>3. Effect(d, Rewrite("renameTable")) = [d EXCEPT !.entries = d.spare, !.spare = None, !.schema = kept]
      <4> HIDE DEF kept
      <4> QED
        BY <3>1, <3>2, Zenon
    <3> HIDE DEF kept
    <3> QED
      BY <3>3 DEF IsDatabase
  <2>2. \A o \in kept : MadeAt(o) \in 0 .. 104
    BY <1>2, EntriesObjects DEF SchemaRight
  <2>3. ASSUME NEW l \in Lasting, MadeAt(l) < 105, ~Gone(l, 105) PROVE l \in kept
    <3>1. CASE l \in {table, Obj("timesheets", "status")}
      BY <3>1
    <3>2. CASE l \notin {table, Obj("timesheets", "status")}
      <4>1. ~Gone(l, 104)
        BY <2>3, <3>2 DEF Gone
      <4>2. MadeAt(l) < 104 /\ MadeAt(l) # 101
        BY <2>3, LastingRanks
      <4>3. l # Obj("timesheets_new", Itself)
        BY <4>2, EntriesObjects
      <4> QED
        BY <1>2, <4>1, <4>2, <4>3 DEF SchemaRight
    <3> QED
      BY <3>1, <3>2
  <2>4. Obj("timesheets", "user_date") \notin kept /\ Obj("timesheets", "project") \notin kept
    BY <1>2, EntriesObjects DEF SchemaRight
  <2> HIDE DEF kept
  <2> QED
    BY <2>1, <2>2, <2>3, <2>4 DEF SchemaRight
<1>3. ASSUME NEW name \in {"user_date", "project"}
      PROVE  /\ Index("timesheets", name).op = "make" /\ Index("timesheets", name).what = Obj("timesheets", name)
             /\ Index("timesheets", name).needs = {table}
  <2>1. Index("timesheets", name) = Make(Obj("timesheets", name), {Obj("timesheets", Itself)})
    BY DEF Index, Obj, Itself
  <2>2. \A o, needs : Make(o, needs).op = "make" /\ Make(o, needs).what = o /\ Make(o, needs).needs = needs
    BY DEF Make
  <2> QED
    BY <2>1, <2>2
<1>4. ASSUME NEW n \in {105, 106}, SchemaRight(d.schema, n), NEW s, NEW o, s.op = "make", s.what = o, s.needs = {table},
             o \notin d.schema, MadeAt(o) \in 0 .. n
      PROVE  /\ Accepted(d, s) /\ Effect(d, s).schema = d.schema \cup {o}
             /\ \A x \in d.schema \cup {o} : MadeAt(x) \in 0 .. n
             /\ \A l \in Lasting : MadeAt(l) < n + 1 /\ ~Gone(l, n + 1) => l \in d.schema \cup {o}
  <2>1. table \in d.schema
    <3>1. ~Gone(table, n)
      BY ObjectsApart DEF Gone
    <3> QED
      BY <1>4, <3>1, EntriesObjects, EntriesLast DEF SchemaRight
  <2> HIDE DEF table
  <2>2. Accepted(d, s)
    BY <1>4, <2>1 DEF Accepted
  <2>3. Effect(d, s).schema = d.schema \cup {o}
    BY <1>4 DEF Effect, IsDatabase
  <2>4. \A x \in d.schema \cup {o} : MadeAt(x) \in 0 .. n
    BY <1>4 DEF SchemaRight
  <2>5. ASSUME NEW l \in Lasting, MadeAt(l) < n + 1, ~Gone(l, n + 1) PROVE l \in d.schema
    <3>1. ~Gone(l, n)
      BY <2>5, GoneStays
    <3>2. MadeAt(l) < n
      BY <2>5, LastingRanks
    <3> QED
      BY <1>4, <3>1, <3>2 DEF SchemaRight
  <2> QED
    BY <2>2, <2>3, <2>4, <2>5
<1>5. ASSUME SchemaRight(d.schema, 105)
      PROVE  /\ Accepted(d, Index("timesheets", "user_date"))
             /\ SchemaRight(Effect(d, Index("timesheets", "user_date")).schema, 106)
  <2> DEFINE s == Index("timesheets", "user_date")
             o == Obj("timesheets", "user_date")
  <2>1. s.op = "make" /\ s.what = o /\ s.needs = {table}
    BY <1>3
  <2>2. o \notin d.schema /\ MadeAt(o) \in 0 .. 105 /\ Obj("timesheets", "project") \notin d.schema
        /\ Obj("timesheets", "project") # o
    BY <1>5, EntriesObjects DEF SchemaRight
  <2> HIDE DEF s, o
  <2>3. /\ Accepted(d, s) /\ Effect(d, s).schema = d.schema \cup {o}
        /\ \A x \in d.schema \cup {o} : MadeAt(x) \in 0 .. 105
        /\ \A l \in Lasting : MadeAt(l) < 106 /\ ~Gone(l, 106) => l \in d.schema \cup {o}
    BY <1>4, <1>5, <2>1, <2>2
  <2>4. SchemaRight(d.schema \cup {o}, 106)
    BY <2>2, <2>3 DEF SchemaRight
  <2> QED
    BY <2>3, <2>4 DEF s
<1>6. ASSUME SchemaRight(d.schema, 106)
      PROVE  /\ Accepted(d, Index("timesheets", "project"))
             /\ SchemaRight(Effect(d, Index("timesheets", "project")).schema, 107)
  <2> DEFINE s == Index("timesheets", "project")
             o == Obj("timesheets", "project")
  <2>1. s.op = "make" /\ s.what = o /\ s.needs = {table}
    BY <1>3
  <2>2. o \notin d.schema /\ MadeAt(o) \in 0 .. 106
    BY <1>6, EntriesObjects DEF SchemaRight
  <2> HIDE DEF s, o
  <2>3. /\ Accepted(d, s) /\ Effect(d, s).schema = d.schema \cup {o}
        /\ \A x \in d.schema \cup {o} : MadeAt(x) \in 0 .. 106
        /\ \A l \in Lasting : MadeAt(l) < 107 /\ ~Gone(l, 107) => l \in d.schema \cup {o}
    BY <1>4, <1>6, <2>1, <2>2
  <2>4. SchemaRight(d.schema \cup {o}, 107)
    BY <2>3 DEF SchemaRight
  <2> QED
    BY <2>3, <2>4 DEF s
<1> QED
  BY <1>1, <1>2, <1>5, <1>6

\* Every statement is accepted at its place, but for a project that is to be deleted and is
\* kept, and leaves the schema right for the next.
LEMMA StatementKeepsSchema ==
  ASSUME NEW n \in Nat, NEW d, IsDatabase(d), SchemaRight(d.schema, n), NEW s, Suits(s, n), LetsGo(d, s),
         s = Rewrite("renameRoles") => Cardinality(DOMAIN Rewritten(d, "renameRoles").roles) = Cardinality(DOMAIN d.roles),
         s.op = "rows" /\ s.how = "splitProjects" => sharedProjectIDs(d) \subseteq {Shared}
  PROVE  Accepted(d, s) /\ SchemaRight(Effect(d, s).schema, n + 1)
<1>1. CASE MakesNext(s, n)
  BY <1>1, NextIsMade
<1>2. CASE LeavesSchema(s) /\ NothingLasting(n) /\ n \notin Special
  <2>1. s.op = "rows" => s.how # "renameTable" /\ s.how # "renameRoles"
    BY <1>2 DEF LeavesSchema
  <2>2. Accepted(d, s)
    BY <1>2, <2>1 DEF Accepted, LeavesSchema, LetsGo
  <2>3. Effect(d, s).schema = d.schema
    BY <1>2, <2>1, OthersLeaveSchema DEF LeavesSchema
  <2>4. SchemaRight(d.schema, n + 1)
    BY <1>2, SchemaIsLeft, LastingRanks DEF NothingLasting, Special
  <2> QED
    BY <2>2, <2>3, <2>4
<1>3. ASSUME n = 71, s = Drop(Obj("users", "role")) PROVE Accepted(d, s) /\ SchemaRight(Effect(d, s).schema, n + 1)
  <2> DEFINE o == Obj("users", "role")
  <2>1. /\ Effect(d, s).schema = LeftOf(d.schema, o) /\ s.op = "drop" /\ s.what = o
    BY <1>3, DroppingLeaves
  <2>2. LeftOf(d.schema, o) = d.schema \ {o}
    BY ObjectsApart DEF LeftOf
  <2>3. o \in d.schema
    <3>1. ~Gone(o, 71)
      BY ObjectsApart DEF Gone
    <3> QED
      BY <1>3, <3>1, EntriesObjects, EntriesLast DEF SchemaRight
  <2>4. \A x \in d.schema \ {o} : MadeAt(x) \in 0 .. n
    BY DEF SchemaRight
  <2>5. ASSUME NEW l \in Lasting, MadeAt(l) < n + 1, ~Gone(l, n + 1) PROVE l \in d.schema \ {o}
    <3>1. l # o
      BY <1>3, <2>5 DEF Gone
    <3>2. ~Gone(l, n)
      BY <1>3, <2>5, GoneStays
    <3>3. MadeAt(l) < n
      BY <1>3, <2>5, LastingRanks
    <3> QED
      BY <3>1, <3>2, <3>3 DEF SchemaRight
  <2> HIDE DEF o
  <2>6. Accepted(d, s)
    BY <2>1, <2>3 DEF Accepted
  <2> QED
    BY <1>3, <2>1, <2>2, <2>4, <2>5, <2>6 DEF SchemaRight
<1>4. ASSUME n = 304, s = Drop(Obj("timesheets", "status")) PROVE Accepted(d, s) /\ SchemaRight(Effect(d, s).schema, n + 1)
  <2> DEFINE o == Obj("timesheets", "status")
  <2>1. /\ Effect(d, s).schema = LeftOf(d.schema, o) /\ s.op = "drop" /\ s.what = o
    BY <1>4, DroppingLeaves
  <2>2. LeftOf(d.schema, o) = d.schema \ {o}
    BY ObjectsApart DEF LeftOf
  <2>3. o \in d.schema
    <3>1. ~Gone(o, 304)
      BY ObjectsApart DEF Gone
    <3> QED
      BY <1>4, <3>1, EntriesObjects, EntriesLast DEF SchemaRight
  <2>4. \A x \in d.schema \ {o} : MadeAt(x) \in 0 .. n
    BY DEF SchemaRight
  <2>5. ASSUME NEW l \in Lasting, MadeAt(l) < n + 1, ~Gone(l, n + 1) PROVE l \in d.schema \ {o}
    <3>1. l # o
      BY <1>4, <2>5 DEF Gone
    <3>2. ~Gone(l, n)
      BY <1>4, <2>5, GoneStays
    <3>3. MadeAt(l) < n
      BY <1>4, <2>5, LastingRanks
    <3> QED
      BY <3>1, <3>2, <3>3 DEF SchemaRight
  <2> HIDE DEF o
  <2>6. Accepted(d, s)
    BY <2>1, <2>3 DEF Accepted
  <2> QED
    BY <1>4, <2>1, <2>2, <2>4, <2>5, <2>6 DEF SchemaRight
<1>5. ASSUME n = 441, s = Rewrite("renameRoles") PROVE Accepted(d, s) /\ SchemaRight(Effect(d, s).schema, n + 1)
  <2>1. s.op = "rows" /\ s.how = "renameRoles"
    BY <1>5 DEF Rewrite
  <2>2. Accepted(d, s)
    BY <1>5, <2>1 DEF Accepted
  <2>3. Effect(d, s).schema = d.schema
    BY <2>1, OthersLeaveSchema
  <2>4. SchemaRight(d.schema, n + 1)
    BY <1>5, SchemaIsLeft, LastingRanks
  <2> QED
    BY <2>2, <2>3, <2>4
<1>6. ASSUME NEW o, o \in Lasting, s = Alter(o), dialect # "sqlite", MadeAt(o) < n, ~Gone(o, n),
             \A l \in Lasting : MadeAt(l) # n
      PROVE  Accepted(d, s) /\ SchemaRight(Effect(d, s).schema, n + 1)
  <2>1. s.op = "alter" /\ s.what = o
    BY <1>6 DEF Alter
  <2>2. o \in d.schema
    BY <1>6 DEF SchemaRight
  <2>3. Accepted(d, s)
    BY <2>1, <2>2 DEF Accepted
  <2>4. Effect(d, s).schema = d.schema
    BY <2>1, OthersLeaveSchema
  <2>5. SchemaRight(d.schema, n + 1)
    BY <1>6, SchemaIsLeft, LastingRanks
  <2> QED
    BY <2>3, <2>4, <2>5
<1>7. ASSUME dialect # "sqlite", n = 101, s = Alter(Obj("timesheets", Itself))
      PROVE  Accepted(d, s) /\ SchemaRight(Effect(d, s).schema, n + 1)
  <2>1. ~Gone(Obj("timesheets", Itself), n)
    BY <1>7, ObjectsApart DEF Gone
  <2>2. \A l \in Lasting : MadeAt(l) # n
    BY <1>7, LastingRanks
  <2> QED
    BY <1>6, <1>7, <2>1, <2>2, EntriesObjects, EntriesLast
<1>8. ASSUME dialect # "sqlite", n = 521, s = Alter(Obj("users", "totp_secret"))
      PROVE  Accepted(d, s) /\ SchemaRight(Effect(d, s).schema, n + 1)
  <2>1. ~Gone(Obj("users", "totp_secret"), n)
    BY <1>8, ObjectsApart DEF Gone
  <2>2. \A l \in Lasting : MadeAt(l) # n
    BY <1>8, LastingRanks
  <2> QED
    BY <1>6, <1>8, <2>1, <2>2, EntriesObjects, EntriesLast
<1>9. ASSUME dialect = "sqlite", n = 103, s = Drop(Obj("timesheets", Itself))
      PROVE  Accepted(d, s) /\ SchemaRight(Effect(d, s).schema, n + 1)
  BY <1>9, TableIsBuiltAgain
<1>10. ASSUME dialect = "sqlite", n = 104, s = Rewrite("renameTable")
       PROVE  Accepted(d, s) /\ SchemaRight(Effect(d, s).schema, n + 1)
  <2>1. Accepted(d, s)
    BY <1>10 DEF Accepted, Rewrite
  <2> QED
    BY <1>10, <2>1, TableIsBuiltAgain
<1>11. ASSUME dialect = "sqlite", n = 105, s = Index("timesheets", "user_date")
       PROVE  Accepted(d, s) /\ SchemaRight(Effect(d, s).schema, n + 1)
  BY <1>11, TableIsBuiltAgain
<1>12. ASSUME dialect = "sqlite", n = 106, s = Index("timesheets", "project")
       PROVE  Accepted(d, s) /\ SchemaRight(Effect(d, s).schema, n + 1)
  BY <1>12, TableIsBuiltAgain
<1> QED
  BY <1>1, <1>2, <1>3, <1>4, <1>5, <1>7, <1>8, <1>9, <1>10, <1>11, <1>12 DEF Suits

LEMMA BeginKeepsSchema ==
  ASSUME NEW v \in Nat, NEW schema, SchemaRight(schema, 20 * (v + 1)) PROVE SchemaRight(schema, 20 * (v + 1) + 1)
<1> DEFINE n == 20 * (v + 1)
<1>1. n \in Nat /\ n # 104 /\ n + 1 \notin 104 .. 106
  OBVIOUS
<1>2. \A l \in Lasting : MadeAt(l) # n
  <2>1. n \notin {21, 22, 23, 24, 25, 61, 81, 84, 161, 241, 801}
    OBVIOUS
  <2> HIDE DEF n
  <2> QED
    BY <2>1, LastingRanks
<1>3. SchemaRight(schema, n)
  OBVIOUS
<1> HIDE DEF n
<1>4. SchemaRight(schema, n + 1)
  BY <1>1, <1>2, <1>3, SchemaIsLeft, LastingRanks
<1> QED
  BY <1>4 DEF n

LEMMA CommitKeepsSchema ==
  ASSUME NEW v \in 0 .. 54, NEW p \in Nat, p > Len(All[v + 1]), p <= 12, NEW schema, SchemaRight(schema, 20 * (v + 1) + p)
  PROVE  SchemaRight(schema, 20 * (v + 2))
<1> DEFINE n == 20 * (v + 1) + p
           m == 20 * (v + 2)
<1>1. n \in Nat /\ m \in Nat /\ n <= m /\ m \notin 104 .. 106
  OBVIOUS
<1>2. dialect = "sqlite" => n # 104
  <2>1. n = 104 => v = 4 /\ p = 4
    OBVIOUS
  <2>2. ASSUME dialect = "sqlite", v = 4 PROVE p > 6
    <3>1. v + 1 = 5
      BY <2>2
    <3>2. p > Len(All[5])
      BY <3>1
    <3> QED
      BY <2>2, <3>2, MoreLengths
  <2> QED
    BY <2>1, <2>2
<1>3. ASSUME NEW l \in Lasting, n <= MadeAt(l), MadeAt(l) < m PROVE FALSE
  <2>1. /\ v = 0 => p > 5
        /\ v = 2 => p > 11
        /\ v = 3 => p > 8
        /\ v = 7 => p > 2
        /\ v = 11 => p > 3
        /\ v = 39 => p > 1
    <3> DEFINE long == Len(All[v + 1])
    <3>1. /\ v = 0 => v + 1 = 1
          /\ v = 2 => v + 1 = 3
          /\ v = 3 => v + 1 = 4
          /\ v = 7 => v + 1 = 8
          /\ v = 11 => v + 1 = 12
          /\ v = 39 => v + 1 = 40
      OBVIOUS
    <3>2. /\ v = 0 => long = 5
          /\ v = 2 => long = 11
          /\ v = 3 => long = 8
          /\ v = 7 => long = 2
          /\ v = 11 => long = 3
          /\ v = 39 => long = 1
      BY <3>1, MoreLengths, LengthsAre
    <3>3. p > long
      OBVIOUS
    <3> HIDE DEF long
    <3> QED
      BY <3>2, <3>3
  <2>2. MadeAt(l) \in {21, 22, 23, 24, 25, 61, 81, 84, 161, 241, 801}
    BY LastingRanks
  <2>3. ~(n <= 21 /\ 21 < m) /\ ~(n <= 22 /\ 22 < m) /\ ~(n <= 23 /\ 23 < m) /\ ~(n <= 24 /\ 24 < m) /\ ~(n <= 25 /\ 25 < m)
    BY <2>1
  <2>4. ~(n <= 61 /\ 61 < m) /\ ~(n <= 81 /\ 81 < m) /\ ~(n <= 84 /\ 84 < m) /\ ~(n <= 161 /\ 161 < m)
    BY <2>1
  <2>5. ~(n <= 241 /\ 241 < m) /\ ~(n <= 801 /\ 801 < m)
    BY <2>1
  <2> HIDE DEF n, m
  <2> QED
    BY <1>3, <2>2, <2>3, <2>4, <2>5
<1>4. SchemaRight(schema, n)
  OBVIOUS
<1> HIDE DEF n, m
<1>5. SchemaRight(schema, m)
  BY <1>1, <1>2, <1>3, <1>4, SchemaIsLeft
<1> QED
  BY <1>5 DEF m
-----------------------------------------------------------------------------
(* The inductive invariant.                                                *)

LEMMA Lengths ==
  /\ Len(All) = 55
  /\ \A i \in 1 .. 55 : Len(All[i]) \in Nat /\ Len(All[i]) <= 11 /\ DOMAIN All[i] = 1 .. Len(All[i])
BY LengthsAre

\* A statement that is next is accepted, and leaves the schema right for the one after it.
LEMMA NextIsAccepted ==
  ASSUME NEW v \in 0 .. 54, NEW p \in DOMAIN All[v + 1], NEW uses, NEW d, Facts(d, v, p, uses),
         SchemaRight(d.schema, 20 * (v + 1) + p), LetsGo(d, All[v + 1][p])
  PROVE  /\ Accepted(d, All[v + 1][p])
         /\ SchemaRight(Effect(d, All[v + 1][p]).schema, 20 * (v + 1) + (p + 1))
<1> DEFINE s == All[v + 1][p]
           n == 20 * (v + 1) + p
<1>1. v + 1 \in 1 .. 55 /\ v \in Nat
  OBVIOUS
<1>2. p \in 1 .. 11
  <2>1. p \in 1 .. Len(All[v + 1]) /\ Len(All[v + 1]) \in Nat /\ Len(All[v + 1]) <= 11
    BY <1>1, Lengths
  <2>2. \A l \in Nat : l <= 11 => 1 .. l \subseteq 1 .. 11
    OBVIOUS
  <2> HIDE DEF s, n
  <2> QED
    BY <2>1, <2>2
<1>3. n \in Nat /\ n + 1 = 20 * (v + 1) + (p + 1)
  BY <1>2
<1>4. Suits(s, n)
  BY <1>1, MigrationsSuit
<1>5. LeavesRows(s) \/ RewritesRows(v + 1, p, s)
  BY <1>1, StatementsAre
<1>6. IsDatabase(d)
  BY DEF Facts
<1>7. SchemaRight(d.schema, n) /\ LetsGo(d, s)
  OBVIOUS
<1> HIDE DEF s
<1>8. ASSUME s = Rewrite("renameRoles")
      PROVE  Cardinality(DOMAIN Rewritten(d, "renameRoles").roles) = Cardinality(DOMAIN d.roles)
  <2>1. s.op = "rows" /\ s.how = "renameRoles"
    BY <1>8 DEF Rewrite
  <2>2. v + 1 = 22 /\ p = 1
    BY <1>5, <2>1 DEF LeavesRows, Definition, RewritesRows, Rewrite, Drop, GrantTo, Revoke, Withdraw, GrantHolding
  <2>3. v = 21 /\ p = 1
    BY <2>2, <1>1
  <2>4. Facts(d, 21, 1, uses)
    BY <2>3
  <2> QED
    BY <2>4, RolesAreRenamed
<1>9. ASSUME s.op = "rows", s.how = "splitProjects" PROVE sharedProjectIDs(d) \subseteq {Shared}
  <2>1. v + 1 = 19 /\ p = 1
    BY <1>5, <1>9 DEF LeavesRows, Definition, RewritesRows, Rewrite, Drop, GrantTo, Revoke, Withdraw, GrantHolding
  <2>2. v = 18 /\ p = 1
    BY <2>1, <1>1
  <2>3. ~Since(v, p, 19, 1)
    BY <2>2 DEF Since
  <2>4. OwnersRight(d, v, p)
    BY DEF Facts, EntriesThere
  <2> QED
    BY <2>3, <2>4 DEF OwnersRight, sharedProjectIDs
<1> HIDE DEF n
<1>10. Accepted(d, s) /\ SchemaRight(Effect(d, s).schema, n + 1)
  BY <1>3, <1>4, <1>6, <1>7, <1>8, <1>9, StatementKeepsSchema
<1> QED
  BY <1>3, <1>10 DEF s

\* The projects are split by the first statement of the nineteenth migration.
LEMMA SplitIsFirst ==
  ASSUME NEW v \in 0 .. 54, NEW p \in DOMAIN All[v + 1], All[v + 1][p].op = "rows", All[v + 1][p].how = "splitProjects"
  PROVE  v = 18 /\ p = 1
<1> DEFINE s == All[v + 1][p]
<1>1. v + 1 \in 1 .. 55 /\ v \in Nat
  OBVIOUS
<1>2. LeavesRows(s) \/ RewritesRows(v + 1, p, s)
  BY <1>1, StatementsAre
<1>3. s.op = "rows" /\ s.how = "splitProjects"
  OBVIOUS
<1> HIDE DEF s
<1>4. v + 1 = 19 /\ p = 1
  BY <1>2, <1>3 DEF LeavesRows, Definition, RewritesRows, Rewrite, Drop, GrantTo, Revoke, Withdraw, GrantHolding
<1> QED
  BY <1>1, <1>4

LEMMA InitIsRight == MigrationInit => MigrationInv
<1> SUFFICES ASSUME MigrationInit PROVE MigrationInv
  OBVIOUS
<1>1. RunnerStands
  <2>1. dialect \in Dialects /\ applied = 0 /\ at = 0 /\ failed = FALSE /\ used = 0 /\ stops = 0
        /\ timed = {}
    BY DEF MigrationInit
  <2>2. MaxUses \in Nat /\ MaxStops \in Nat
    BY MigrationAssumption DEF MigrationAssumption
  <2>3. Len(All) = 55
    BY Lengths
  <2>4. used \in 0 .. MaxUses /\ stops \in 0 .. MaxStops
    BY <2>1, <2>2
  <2>5. applied \in 0 .. Len(All) /\ at \in Nat /\ ~(at > 0)
    BY <2>1, <2>3
  <2>6. failed \in BOOLEAN
    BY <2>1
  <2> QED
    BY <2>1, <2>4, <2>5, <2>6, Zenon DEF RunnerStands
<1>2. IsDatabase(db) /\ db.schema = {} /\ db.roles = None /\ db.members = None /\ db.owners = None /\ db.entries = None
  BY DEF MigrationInit, IsDatabase
<1>3. applied = 0 /\ at = 0 /\ used = 0 /\ work = db /\ failed = FALSE
  BY DEF MigrationInit
<1>4. DOMAIN None = {}
  BY DEF None
<1>5. \A i \in 1 .. 55 : \A k \in Nat : ~Since(0, 0, i, k)
  BY DEF Since
<1>6. RolesThere(db, 0, 0)
  <2>1. DOMAIN db.roles = {}
    BY <1>2, <1>4
  <2>2. IsFiniteSet(DOMAIN db.roles)
    BY <2>1, FS_EmptySet
  <2>3. ~Since(0, 0, 3, 9) /\ ~Since(0, 0, 20, 1) /\ ~Since(0, 0, 51, 1)
    BY <1>5
  <2> QED
    BY <2>1, <2>2, <2>3 DEF RolesThere
<1>7. MembersRight(db, 0, 0)
  <2>1. db.members \in [DOMAIN db.members -> Names] /\ DOMAIN db.members = {}
    BY <1>2, <1>4 DEF None
  <2>2. ~Since(0, 0, 3, 9) /\ ~Since(0, 0, 3, 10) /\ ~Since(0, 0, 16, 1)
    BY <1>5
  <2> QED
    BY <2>1, <2>2 DEF MembersRight
<1>8. RightsStand(db, 0, 0)
  <2>1. db.roles \in [DOMAIN db.roles -> SUBSET AllRights]
    BY <1>2, <1>4 DEF None
  <2>2. ~Since(0, 0, 3, 9) /\ ~Since(0, 0, 15, 1) /\ ~Since(0, 0, 51, 1)
    BY <1>5
  <2>3. DOMAIN db.roles = {}
    BY <1>2, <1>4
  <2> QED
    BY <2>1, <2>2, <2>3 DEF RightsStand
<1>9. EntriesThere(db, 0, 0)
  BY <1>2, <1>4, <1>5 DEF EntriesThere, OwnersRight, Rebuilding, EntriesRight
<1>10. AsShipped(db, 0, 0)
  BY <1>5 DEF AsShipped
<1>11. RowsStand
  BY <1>2, <1>3, <1>6, <1>7, <1>8, <1>9, <1>10 DEF RowsStand, Facts
<1>12. SchemaRight({}, 20)
  BY LastingRanks DEF SchemaRight
<1>13. SchemaStands
  BY <1>2, <1>3, <1>12 DEF SchemaStands
<1> QED
  BY <1>1, <1>11, <1>13 DEF MigrationInv

\* What holds of the next state's database, in the state's own words.
LEMMA SameDialect ==
  ASSUME dialect' = dialect
  PROVE  /\ All' = All
         /\ Facts(db', applied', 0, used') => Facts(db, applied, 0, used)'
         /\ Facts(work', applied', at', used') => Facts(work, applied, at, used)'
         /\ SchemaRight(db'.schema, 20 * (applied' + 1)) => SchemaRight(db.schema, 20 * (applied + 1))'
         /\ SchemaRight(work'.schema, 20 * (applied' + 1) + at') => SchemaRight(work.schema, 20 * (applied + 1) + at)'
<1>1. All' = All
  BY DEF All, makeProjectOptional, widenTOTPSecret
<1>2. Facts(db', applied', 0, used') => Facts(db, applied, 0, used)'
  BY DEF Facts, EntriesThere, Rebuilding
<1>3. Facts(work', applied', at', used') => Facts(work, applied, at, used)'
  BY DEF Facts, EntriesThere, Rebuilding
<1>4. SchemaRight(db'.schema, 20 * (applied' + 1)) => SchemaRight(db.schema, 20 * (applied + 1))'
  BY DEF SchemaRight, Gone
<1>5. SchemaRight(work'.schema, 20 * (applied' + 1) + at') => SchemaRight(work.schema, 20 * (applied + 1) + at)'
  BY DEF SchemaRight, Gone
<1> QED
  BY <1>1, <1>2, <1>3, <1>4, <1>5

LEMMA BeginKeepsInv == ASSUME MigrationInv, Begin PROVE MigrationInv'
<1>1. /\ at = 0 /\ ~failed /\ applied < Len(All) /\ at' = 1 /\ work' = db
      /\ dialect' = dialect /\ db' = db /\ applied' = applied /\ failed' = failed /\ used' = used /\ stops' = stops /\ timed' = timed
  BY DEF Begin
<1>2. applied \in 0 .. 54 /\ applied + 1 \in 1 .. 55 /\ applied \in Nat
  <2>1. applied \in 0 .. 55 /\ applied < 55
    BY <1>1, Lengths DEF MigrationInv, RunnerStands
  <2> QED
    BY <2>1
<1>3. All' = All
  BY <1>1, SameDialect
<1>4. Len(Running) \in Nat /\ Running' = Running
  BY <1>1, <1>2, <1>3, Lengths DEF Running
<1>5. RunnerStands'
  BY <1>1, <1>3, <1>4 DEF MigrationInv, RunnerStands
<1>6. Facts(db', applied', 0, used') /\ Facts(work', applied', at', used')
  BY <1>1, <1>2, BeginKeepsFacts DEF MigrationInv, RowsStand
<1>7. RowsStand'
  BY <1>1, <1>6, SameDialect DEF RowsStand
<1>8. Clean' = Clean
  BY <1>1 DEF Clean
<1>9. ASSUME Clean PROVE /\ ~failed
                        /\ SchemaRight(work'.schema, 20 * (applied' + 1) + at')
                        /\ SchemaRight(db'.schema, 20 * (applied' + 1))
  BY <1>1, <1>2, <1>9, BeginKeepsSchema DEF MigrationInv, SchemaStands
<1>10. SchemaStands'
  BY <1>1, <1>8, <1>9, SameDialect DEF SchemaStands
<1> QED
  BY <1>5, <1>7, <1>10 DEF MigrationInv

LEMMA ExecKeepsInv == ASSUME MigrationInv, execAll PROVE MigrationInv'
<1> DEFINE s == Running[at]
<1>1. /\ at > 0 /\ at \in DOMAIN Running
      /\ dialect' = dialect /\ applied' = applied /\ used' = used /\ stops' = stops /\ timed' = timed
  BY DEF execAll
<1>2. \/ /\ Accepted(work, s) /\ work' = Effect(work, s) /\ at' = at + 1 /\ failed' = failed
         /\ \/ db' = db
            \/ dialect = "mysql" /\ (\E i \in 1 .. at : Definition(Running[i])) /\ db' = work'
      \/ ~Accepted(work, s) /\ failed' = TRUE /\ at' = 0 /\ work' = db /\ db' = db
  BY DEF execAll
<1>3. applied \in 0 .. 54 /\ applied + 1 \in 1 .. 55 /\ applied \in Nat
  <2>1. applied \in 0 .. 55 /\ applied < 55
    BY <1>1, Lengths DEF MigrationInv, RunnerStands
  <2> QED
    BY <2>1
<1>4. All' = All /\ Running' = Running /\ Clean' = Clean
  <2>1. All' = All
    BY <1>1, SameDialect
  <2> QED
    BY <1>1, <2>1 DEF Running, Clean
<1>5. Len(Running) \in Nat /\ at \in 1 .. Len(Running) /\ at \in Nat /\ s = All[applied + 1][at]
      /\ at \in DOMAIN All[applied + 1] /\ DOMAIN All[applied + 1] = 1 .. Len(Running)
  <2>1. Len(All[applied + 1]) \in Nat /\ DOMAIN All[applied + 1] = 1 .. Len(All[applied + 1])
    BY <1>3, Lengths
  <2>2. Running = All[applied + 1]
    BY DEF Running
  <2>3. at \in 1 .. Len(Running)
    BY <1>1, <2>1, <2>2
  <2> QED
    BY <1>1, <2>1, <2>2, <2>3
<1>6. Facts(work, applied, at, used) /\ Facts(db, applied, 0, used) /\ ~failed
  BY <1>1 DEF MigrationInv, RowsStand, RunnerStands
<1>7. Facts(Effect(work, s), applied, at + 1, used)
  BY <1>3, <1>5, <1>6, StatementKeepsFacts
<1>8. ASSUME Clean, LetsGo(work, s)
      PROVE  /\ Accepted(work, s) /\ SchemaRight(Effect(work, s).schema, 20 * (applied + 1) + (at + 1))
  <2>1. SchemaRight(work.schema, 20 * (applied + 1) + at)
    BY <1>1, <1>8 DEF MigrationInv, SchemaStands
  <2> QED
    BY <1>3, <1>5, <1>6, <1>8, <2>1, NextIsAccepted
<1>12. ASSUME s.op = "rows", s.how = "splitProjects" PROVE applied = 18 /\ at = 1 /\ work = db
  <2>1. applied = 18 /\ at = 1
    BY <1>3, <1>5, <1>12, SplitIsFirst
  <2> QED
    BY <2>1 DEF MigrationInv, RowsStand
<1> HIDE DEF s
<1>13. Accepted(work, s) => LetsGo(work, s)
  BY DEF Accepted, LetsGo
<1>9. RunnerStands'
  <2>0. (at' = at + 1 /\ failed' = failed) \/ (at' = 0 /\ failed' = TRUE)
    BY <1>2, Zenon
  <2>3. applied < Len(All)
    BY <1>1 DEF MigrationInv, RunnerStands
  <2>1. at' \in Nat /\ (at' > 0 => applied < Len(All) /\ at' <= Len(Running) + 1)
    BY <1>5, <2>0, <2>3
  <2>2. failed' \in BOOLEAN /\ (failed' => at' = 0)
    <3>1. failed = FALSE
      BY <1>6 DEF MigrationInv, RunnerStands
    <3> QED
      BY <2>0, <3>1
  <2> QED
    BY <1>1, <1>4, <2>1, <2>2 DEF MigrationInv, RunnerStands
<1>10. CASE ~Accepted(work, s) /\ failed' = TRUE /\ at' = 0 /\ work' = db /\ db' = db
  <2>1. Facts(db', applied', 0, used')
    BY <1>1, <1>6, <1>10
  <2>2. RowsStand'
    BY <1>1, <1>10, <2>1, SameDialect DEF RowsStand
  <2>4. ASSUME Clean PROVE ClockInTheWay' /\ SchemaRight(db'.schema, 20 * (applied' + 1))
    <3>1. s.op = "rows" /\ s.how = "splitProjects" /\ \E p \in unclaimed(work) : Referenced(p)
      BY <1>8, <1>10, <2>4 DEF LetsGo
    <3>2. applied = 18 /\ work = db /\ dialect = "postgres"
      BY <1>12, <3>1 DEF Referenced
    <3>3. ClockInTheWay'
      BY <1>1, <1>10, <3>1, <3>2 DEF ClockInTheWay, Referenced, unclaimed, sharedProjectIDs, bookersOf
    <3>4. SchemaRight(db.schema, 20 * (applied + 1))
      BY <2>4, <3>2 DEF MigrationInv, SchemaStands
    <3> QED
      BY <1>1, <1>10, <3>3, <3>4
  <2>3. SchemaStands'
    BY <1>1, <1>4, <1>10, <2>4, SameDialect DEF SchemaStands
  <2> QED
    BY <1>9, <2>2, <2>3 DEF MigrationInv
<1>11. CASE Accepted(work, s) /\ work' = Effect(work, s) /\ at' = at + 1 /\ failed' = failed
            /\ (db' = db \/ (dialect = "mysql" /\ (\E i \in 1 .. at : Definition(Running[i])) /\ db' = work'))
  <2>1. at' > 0 /\ at' # 0 /\ ~(at' <= 1)
    BY <1>5, <1>11
  <2>2. Facts(work', applied', at', used')
    BY <1>1, <1>7, <1>11
  <2>3. Facts(db', applied', 0, used')
    <3>1. CASE db' = db
      BY <1>1, <1>6, <3>1
    <3>2. CASE dialect = "mysql" /\ (\E i \in 1 .. at : Definition(Running[i])) /\ db' = work'
      <4>1. PICK i \in 1 .. at : Definition(Running[i])
        BY <3>2
      <4>2. i \in DOMAIN All[applied + 1]
        BY <1>5
      <4>3. applied + 1 \notin {19, 20, 22, 51}
        BY <4>1, <4>2, NothingIsDefined DEF Running
      <4>4. applied \notin {18, 19, 21, 50}
        BY <1>3, <4>3
      <4>5. dialect # "sqlite" /\ at + 1 \in Nat
        BY <1>5, <3>2
      <4>6. Facts(Effect(work, s), applied, 0, used)
        BY <1>3, <1>7, <4>4, <4>5, FactsAreKept
      <4> QED
        BY <1>1, <1>11, <3>2, <4>6
    <3> QED
      BY <1>11, <3>1, <3>2
  <2>4. RowsStand'
    BY <1>1, <2>1, <2>2, <2>3, SameDialect DEF RowsStand
  <2>5. ASSUME Clean PROVE SchemaRight(work'.schema, 20 * (applied' + 1) + at')
    BY <1>1, <1>8, <1>11, <1>13, <2>5
  <2>6. ASSUME Clean, dialect # "mysql" PROVE SchemaRight(db'.schema, 20 * (applied' + 1))
    <3>1. db' = db
      BY <1>11, <2>6
    <3>2. SchemaRight(db.schema, 20 * (applied + 1))
      BY <2>6 DEF MigrationInv, SchemaStands
    <3> QED
      BY <1>1, <3>1, <3>2
  <2>7. SchemaStands'
    BY <1>1, <1>4, <1>6, <1>11, <2>1, <2>5, <2>6, SameDialect DEF SchemaStands
  <2> QED
    BY <1>9, <2>4, <2>7 DEF MigrationInv
<1> QED
  BY <1>2, <1>10, <1>11, Zenon

LEMMA CommitKeepsInv == ASSUME MigrationInv, CommitMigration PROVE MigrationInv'
<1>1. /\ at > 0 /\ at > Len(Running) /\ db' = work /\ applied' = applied + 1 /\ at' = 0
      /\ dialect' = dialect /\ work' = work /\ failed' = failed /\ used' = used /\ stops' = stops /\ timed' = timed
  BY DEF CommitMigration
<1>2. applied \in 0 .. 54 /\ applied + 1 \in 1 .. 55 /\ applied \in Nat
  <2>1. applied \in 0 .. 55 /\ applied < 55
    BY <1>1, Lengths DEF MigrationInv, RunnerStands
  <2> QED
    BY <2>1
<1>3. Len(All[applied + 1]) \in Nat /\ Len(All[applied + 1]) <= 11
  BY <1>2, Lengths
<1>4. at \in Nat /\ at <= 12 /\ at > Len(All[applied + 1])
  <2>1. at \in Nat /\ at <= Len(All[applied + 1]) + 1 /\ at > Len(All[applied + 1])
    BY <1>1 DEF MigrationInv, RunnerStands, Running
  <2> QED
    BY <1>3, <2>1
<1>5. All' = All /\ Clean' = Clean
  BY <1>1, SameDialect DEF Clean
<1>6. RunnerStands'
  <2>1. applied' \in 0 .. 55
    BY <1>1, <1>2
  <2>2. applied' \in 0 .. Len(All) /\ at' \in Nat /\ ~(at' > 0)
    BY <1>1, <2>1, Lengths
  <2> QED
    BY <1>1, <1>5, <2>2 DEF MigrationInv, RunnerStands
<1>7. Facts(db', applied', 0, used')
  <2>1. Facts(work, applied, at, used)
    BY <1>1 DEF MigrationInv, RowsStand
  <2> QED
    BY <1>1, <1>2, <1>4, <2>1, CommitKeepsFacts
<1>8. RowsStand'
  BY <1>1, <1>7, SameDialect DEF RowsStand
<1>9. ASSUME Clean PROVE ~failed /\ SchemaRight(db'.schema, 20 * (applied' + 1))
  <2>1. SchemaRight(work.schema, 20 * (applied + 1) + at) /\ ~failed
    BY <1>1, <1>9 DEF MigrationInv, RunnerStands, SchemaStands
  <2>2. SchemaRight(work.schema, 20 * (applied + 2))
    BY <1>2, <1>4, <2>1, CommitKeepsSchema
  <2>3. applied' + 1 = applied + 2
    BY <1>1, <1>2
  <2> QED
    BY <1>1, <2>1, <2>2, <2>3
<1>10. SchemaStands'
  BY <1>1, <1>5, <1>9, SameDialect DEF SchemaStands
<1> QED
  BY <1>6, <1>8, <1>10 DEF MigrationInv

LEMMA StopKeepsInv == ASSUME MigrationInv, StopMigrating PROVE MigrationInv'
<1>1. /\ at > 0 /\ stops < MaxStops /\ stops' = stops + 1 /\ at' = 0 /\ work' = db
      /\ dialect' = dialect /\ db' = db /\ applied' = applied /\ failed' = failed /\ used' = used /\ timed' = timed
  BY DEF StopMigrating
<1>2. All' = All
  BY <1>1, SameDialect
<1>3. stops \in Nat /\ stops' \in 0 .. MaxStops /\ stops' # 0
  <2>1. MaxStops \in Nat /\ stops \in 0 .. MaxStops
    BY MigrationAssumption DEF MigrationAssumption, MigrationInv, RunnerStands
  <2> QED
    BY <1>1, <2>1
<1>4. RunnerStands'
  <2>1. at' \in Nat /\ ~(at' > 0)
    BY <1>1
  <2> QED
    BY <1>1, <1>2, <1>3, <2>1 DEF MigrationInv, RunnerStands
<1>5. Facts(db', applied', 0, used')
  BY <1>1 DEF MigrationInv, RowsStand
<1>6. RowsStand'
  BY <1>1, <1>5, SameDialect DEF RowsStand
<1>7. ASSUME Clean' PROVE ~failed /\ SchemaRight(db'.schema, 20 * (applied' + 1))
  <2>1. dialect # "mysql"
    BY <1>1, <1>3, <1>7 DEF Clean
  <2> QED
    BY <1>1, <2>1 DEF MigrationInv, RunnerStands, SchemaStands, Clean
<1>8. SchemaStands'
  BY <1>1, <1>7, SameDialect DEF SchemaStands
<1> QED
  BY <1>4, <1>6, <1>8 DEF MigrationInv

\* An older release leaves what it finds right, and the schema as it was.
LEMMA UseKeepsInv ==
  ASSUME MigrationInv, NEW then, NEW clocks, OlderRelease(then, clocks), clocks \subseteq {Shared},
         then.schema = db.schema,
         \A more \in Nat \ {0} : Facts(then, applied, 0, more)
  PROVE  MigrationInv'
<1>1. /\ at = 0 /\ ~failed /\ used < MaxUses /\ used' = used + 1 /\ db' = then /\ work' = then
      /\ dialect' = dialect /\ applied' = applied /\ at' = at /\ failed' = failed /\ stops' = stops /\ timed' = clocks
  BY DEF OlderRelease
<1>2. All' = All /\ Clean' = Clean
  BY <1>1, SameDialect DEF Clean
<1>3. used' \in 0 .. MaxUses /\ used' \in Nat \ {0}
  <2>1. MaxUses \in Nat /\ used \in 0 .. MaxUses
    BY MigrationAssumption DEF MigrationAssumption, MigrationInv, RunnerStands
  <2> QED
    BY <1>1, <2>1
<1>4. RunnerStands'
  <2>1. at' \in Nat /\ ~(at' > 0)
    BY <1>1
  <2> QED
    BY <1>1, <1>2, <1>3, <2>1 DEF MigrationInv, RunnerStands
<1>5. Facts(db', applied', 0, used')
  BY <1>1, <1>3
<1>6. RowsStand'
  BY <1>1, <1>5, SameDialect DEF RowsStand
<1>7. ASSUME Clean PROVE ~failed /\ SchemaRight(db'.schema, 20 * (applied' + 1))
  BY <1>1, <1>7 DEF MigrationInv, SchemaStands
<1>8. SchemaStands'
  BY <1>1, <1>2, <1>7, SameDialect DEF SchemaStands
<1> QED
  BY <1>4, <1>6, <1>8 DEF MigrationInv

LEMMA OldReleasesKeepInv ==
  ASSUME MigrationInv, Hired \/ NamedARole \/ RenamedTheEverydayRole \/ BookedEntries \/ KeptAClockRunning
  PROVE  MigrationInv'
<1>0. timed \subseteq {Shared}
  BY DEF MigrationInv, RunnerStands
<1>1. applied \in Nat /\ Facts(db, applied, 0, used) /\ IsDatabase(db)
  <2>1. applied \in 0 .. 55
    BY Lengths DEF MigrationInv, RunnerStands
  <2> QED
    BY <2>1 DEF MigrationInv, RowsStand, Facts
<1>2. CASE Hired
  <2>1. PICK roles \in [People -> IF applied < 3 THEN {"admin", "employee", "manager", "trainee"} ELSE DOMAIN db.roles] :
          OlderRelease([db EXCEPT !.members = roles], timed)
    BY <1>2 DEF Hired
  <2>2. [db EXCEPT !.members = roles].schema = db.schema
    BY <1>1 DEF IsDatabase
  <2>3. \A more \in Nat \ {0} : Facts([db EXCEPT !.members = roles], applied, 0, more)
    BY <1>1, SomebodyWasHired
  <2> QED
    BY <2>1, <2>2, <2>3, UseKeepsInv, <1>0
<1>3. CASE NamedARole
  <2>1. PICK name \in OwnNames \ DOMAIN db.roles : OlderRelease([db EXCEPT !.roles = With(db.roles, name, {"users:read"})], timed)
    BY <1>3 DEF NamedARole
  <2>2. [db EXCEPT !.roles = With(db.roles, name, {"users:read"})].schema = db.schema
    BY <1>1 DEF IsDatabase
  <2>3. \A more \in Nat \ {0} : Facts([db EXCEPT !.roles = With(db.roles, name, {"users:read"})], applied, 0, more)
    BY <1>1, <1>3, ARoleWasNamed DEF NamedARole
  <2> QED
    BY <2>1, <2>2, <2>3, UseKeepsInv, <1>0
<1>4. CASE RenamedTheEverydayRole
  <2>1. OlderRelease(setRoleName(db, "employee", "clerk"), timed)
    BY <1>4 DEF RenamedTheEverydayRole
  <2>2. setRoleName(db, "employee", "clerk").schema = db.schema
    BY <1>1, RolesLeaveSchema DEF SameSchema
  <2>3. \A more \in Nat \ {0} : Facts(setRoleName(db, "employee", "clerk"), applied, 0, more)
    BY <1>1, <1>4, TheEverydayRoleWasRenamed DEF RenamedTheEverydayRole
  <2> QED
    BY <2>1, <2>2, <2>3, UseKeepsInv, <1>0
<1>5. CASE BookedEntries
  <2>1. PICK by \in [Booked -> People], on \in [Booked -> {Shared} \cup (IF applied < 5 THEN {} ELSE {NoProject})] :
          OlderRelease([db EXCEPT !.entries = [e \in Booked |-> [by |-> by[e], on |-> on[e]]],
                                  !.owners = With(db.owners, Shared, NoOwner)], timed)
    BY <1>5, Zenon DEF BookedEntries
  <2> DEFINE then == [db EXCEPT !.entries = [e \in Booked |-> [by |-> by[e], on |-> on[e]]],
                                !.owners = With(db.owners, Shared, NoOwner)]
  <2>2. BooksThem(then, db, applied, by, on) /\ then.schema = db.schema
    BY <1>1 DEF BooksThem, IsDatabase
  <2>3. on \in [Booked -> {Shared, NoProject}]
    <3>1. {Shared} \cup (IF applied < 5 THEN {} ELSE {NoProject}) \subseteq {Shared, NoProject}
      OBVIOUS
    <3> QED
      BY <3>1
  <2>4. OlderRelease(then, timed)
    BY <2>1
  <2>5. applied < 19
    BY <1>5, Zenon DEF BookedEntries
  <2> HIDE DEF then
  <2>6. \A more \in Nat \ {0} : Facts(then, applied, 0, more)
    BY <1>1, <2>2, <2>3, <2>5, EntriesWereBooked
  <2> QED
    BY <2>2, <2>4, <2>6, UseKeepsInv, <1>0
<1>6. CASE KeptAClockRunning
  <2>1. OlderRelease(db, {Shared})
    BY <1>6 DEF KeptAClockRunning
  <2>2. \A more \in Nat \ {0} : Facts(db, applied, 0, more)
    BY <1>1 DEF Facts
  <2> QED
    BY <2>1, <2>2, UseKeepsInv
<1> QED
  BY <1>2, <1>3, <1>4, <1>5, <1>6

LEMMA NextKeepsInv == ASSUME MigrationInv, [MigrationNext]_migrationVars PROVE MigrationInv'
<1>1. CASE UNCHANGED migrationVars
  <2>1. /\ dialect' = dialect /\ db' = db /\ work' = work /\ applied' = applied /\ at' = at
        /\ failed' = failed /\ used' = used /\ stops' = stops /\ timed' = timed
    BY <1>1 DEF migrationVars
  <2>2. All' = All /\ Running' = Running /\ Clean' = Clean
    BY <2>1, SameDialect DEF Running, Clean
  <2>3. RunnerStands'
    BY <2>1, <2>2 DEF MigrationInv, RunnerStands
  <2>4. RowsStand'
    BY <2>1, SameDialect DEF MigrationInv, RowsStand
  <2>5. SchemaStands'
    BY <2>1, <2>2, SameDialect
    DEF MigrationInv, SchemaStands, ClockInTheWay, Referenced, unclaimed, sharedProjectIDs, bookersOf
  <2> QED
    BY <2>3, <2>4, <2>5 DEF MigrationInv
<1> QED
  BY <1>1, BeginKeepsInv, ExecKeepsInv, CommitKeepsInv, StopKeepsInv, OldReleasesKeepInv DEF MigrationNext
-----------------------------------------------------------------------------
(* What an upgrade leaves.                                                 *)

LEMMA TypesHold ==
  ASSUME NEW v \in Nat, NEW p \in Nat, NEW uses, NEW d, Facts(d, v, p, uses)
  PROVE  /\ d.members \in [DOMAIN d.members -> Names] /\ DOMAIN d.members \subseteq People
         /\ DOMAIN d.roles \subseteq Names
         /\ \A name \in DOMAIN d.roles : d.roles[name] \subseteq Administering \cup Working \cup Team \cup Retired
         /\ \A e \in DOMAIN d.entries : e \in Booked /\ d.entries[e].by \in People
<1>1. d.members \in [DOMAIN d.members -> Names] /\ DOMAIN d.members \subseteq People
  BY DEF Facts, MembersRight
<1>2. DOMAIN d.roles \subseteq Names
  BY DEF Facts, RolesThere
<1>3. \A name \in DOMAIN d.roles : d.roles[name] \subseteq Administering \cup Working \cup Team \cup Retired
  BY DEF Facts, RightsStand, AllRights
<1>4. \A e \in DOMAIN d.entries : e \in Booked /\ d.entries[e].by \in People
  <2>1. CASE Rebuilding(v, p)
    BY <2>1 DEF Facts, EntriesThere, None
  <2>2. CASE ~Rebuilding(v, p)
    BY <2>2 DEF Facts, EntriesThere, EntriesRight
  <2> QED
    BY <2>1, <2>2
<1> QED
  BY <1>1, <1>2, <1>3, <1>4

\* At today's version every rule about rights is in force.
LEMMA AtTheEnd ==
  /\ \A i \in 1 .. 55, k \in Nat : Since(55, 0, i, k)
  /\ RetiredBy(55, 0) = Retired /\ Working \cup Team \subseteq TakenFromAdmin(55, 0)
  /\ GivenToAdmin(55, 0) = Administering /\ GivenToEveryday(55, 0) = Working
  /\ \A d : Everyday(d, 55, 0) = "user" /\ Combined(d, 55, 0) = {"user-admin"}
<1>1. \A i \in 1 .. 55, k \in Nat : Since(55, 0, i, k)
  BY DEF Since
<1>2. RetiredBy(55, 0) = Retired
  BY <1>1 DEF RetiredBy, Retired
<1>3. Working \cup Team \subseteq TakenFromAdmin(55, 0)
  BY <1>1 DEF TakenFromAdmin
<1>4. GivenToAdmin(55, 0) = Administering /\ GivenToEveryday(55, 0) = Working
  BY <1>1 DEF GivenToAdmin, GivenToEveryday
<1>5. \A d : Everyday(d, 55, 0) = "user" /\ Combined(d, 55, 0) = {"user-admin"}
  BY <1>1 DEF Everyday, Combined
<1> QED
  BY <1>1, <1>2, <1>3, <1>4, <1>5

LEMMA RolesThatShip ==
  ASSUME NEW uses, NEW d, Facts(d, 55, 0, uses)
  PROVE  /\ {"admin", "user-admin", "manager"} \subseteq DOMAIN d.roles
         /\ d.roles["admin"] = DefaultRoles["admin"] /\ d.roles["manager"] = DefaultRoles["manager"]
         /\ \A name \in DOMAIN d.roles : d.roles[name] \cap Retired = {}
         /\ uses = 0 => d.roles = DefaultRoles
<1>1. RolesThere(d, 55, 0) /\ RightsStand(d, 55, 0)
  BY DEF Facts
<1>2. Since(55, 0, 3, 9) /\ Since(55, 0, 20, 1) /\ Since(55, 0, 22, 1) /\ Since(55, 0, 51, 1) /\ Since(55, 0, 15, 1)
  BY AtTheEnd
<1>3. {"admin", "user-admin", "manager"} \subseteq DOMAIN d.roles
  BY <1>1, <1>2 DEF RolesThere
<1>4. \A r \in DOMAIN d.roles : d.roles[r] \cap Retired = {} /\ d.roles[r] \subseteq AllRights
  BY <1>1, AtTheEnd DEF RightsStand
<1>5. d.roles["admin"] = DefaultRoles["admin"]
  <2>1. Administering \subseteq d.roles["admin"] /\ d.roles["admin"] \cap TakenFromAdmin(55, 0) = {}
    BY <1>1, <1>2, AtTheEnd DEF RightsStand
  <2>2. d.roles["admin"] \cap (Working \cup Team) = {}
    BY <2>1, AtTheEnd
  <2>3. d.roles["admin"] \subseteq AllRights /\ d.roles["admin"] \cap Retired = {}
    BY <1>3, <1>4
  <2>4. d.roles["admin"] = Administering
    BY <2>1, <2>2, <2>3 DEF AllRights
  <2> QED
    BY <2>4, ShippedRights
<1>6. d.roles["manager"] = DefaultRoles["manager"]
  BY <1>1, <1>2 DEF RightsStand
<1>7. ASSUME uses = 0 PROVE d.roles = DefaultRoles
  <2>0. AsShipped(d, 55, 0)
    BY <1>7 DEF Facts
  <2>1. DOMAIN d.roles \ {"manager"} = {"admin", "user", "user-admin"}
    BY <1>2, <2>0, AtTheEnd DEF AsShipped
  <2>2. DOMAIN d.roles = DOMAIN DefaultRoles
    BY <1>3, <2>1, ShippedRights
  <2>3. d.roles["user"] = Working
    <3>1. Working \subseteq d.roles["user"] /\ d.roles["user"] \subseteq Working \cup Retired
      BY <1>2, <2>0, AtTheEnd DEF AsShipped
    <3>2. d.roles["user"] \cap Retired = {}
      BY <1>4, <2>2, ShippedRights
    <3> QED
      BY <3>1, <3>2
  <2>4. d.roles["user-admin"] = Working \cup Administering
    <3>1. /\ Working \cup Administering \subseteq d.roles["user-admin"]
          /\ d.roles["user-admin"] \subseteq Working \cup Administering \cup Retired
      BY <1>2, <2>0, AtTheEnd DEF AsShipped
    <3>2. d.roles["user-admin"] \cap Retired = {}
      BY <1>4, <2>2, ShippedRights
    <3> QED
      BY <3>1, <3>2
  <2>5. \A r \in DOMAIN DefaultRoles : d.roles[r] = DefaultRoles[r]
    BY <1>5, <1>6, <2>3, <2>4, ShippedRights
  <2>6. d.roles = [r \in DOMAIN d.roles |-> d.roles[r]]
    BY <1>1 DEF RightsStand
  <2>7. DefaultRoles = [r \in DOMAIN DefaultRoles |-> DefaultRoles[r]]
    BY DEF DefaultRoles
  <2> QED
    BY <2>2, <2>5, <2>6, <2>7
<1> QED
  BY <1>3, <1>4, <1>5, <1>6, <1>7

LEMMA InvKeepsEverybody == ASSUME MigrationInv PROVE UpgradeKeepsEverybody
<1>1. applied \in 0 .. 55 /\ applied \in Nat /\ at \in Nat
  <2>1. applied \in 0 .. 55 /\ at \in Nat
    BY Lengths DEF MigrationInv, RunnerStands
  <2> QED
    BY <2>1
<1>2. Facts(db, applied, 0, used)
  BY DEF MigrationInv, RowsStand
<1>3. Facts(work, applied, at, used)
  <2>1. CASE at = 0
    BY <1>2, <2>1 DEF MigrationInv, RowsStand
  <2>2. CASE at > 0
    BY <2>2 DEF MigrationInv, RowsStand
  <2> QED
    BY <1>1, <2>1, <2>2
<1>4. at \in 0 .. 20
  <2>1. CASE at = 0
    BY <2>1
  <2>2. CASE at > 0
    <3>1. applied < 55 /\ at <= Len(All[applied + 1]) + 1
      BY <2>2, Lengths DEF MigrationInv, RunnerStands, Running
    <3>2. applied + 1 \in 1 .. 55
      BY <1>1, <3>1
    <3>3. Len(All[applied + 1]) \in Nat /\ Len(All[applied + 1]) <= 11
      BY <3>2, Lengths
    <3> QED
      BY <1>1, <3>1, <3>3
  <2> QED
    BY <1>1, <2>1, <2>2
<1>5. MigrationTypeOK
  BY <1>1, <1>2, <1>3, <1>4, TypesHold DEF MigrationTypeOK, MigrationInv, RunnerStands
<1>6. EndsShipped
  <2>1. ASSUME applied = Len(All) PROVE Facts(db, 55, 0, used)
    BY <1>2, <2>1, Lengths
  <2> QED
    BY <2>1, RolesThatShip, Zenon DEF EndsShipped
<1>7. NobodyWithoutRole
  <2> SUFFICES ASSUME applied = Len(All) PROVE \A a \in DOMAIN db.members : db.members[a] \in DOMAIN db.roles
    BY DEF NobodyWithoutRole
  <2>1. applied = 55
    BY Lengths
  <2>2. MembersRight(db, 55, 0)
    BY <1>2, <2>1 DEF Facts
  <2>3. Since(55, 0, 16, 1)
    BY AtTheEnd
  <2> QED
    BY <2>2, <2>3 DEF MembersRight
<1>8. OwnEntries
  <2>1. EntriesRight(db.entries, db, applied, 0)
    BY <1>2 DEF Facts, EntriesThere, Rebuilding
  <2>2. applied >= 19 => Since(applied, 0, 19, 1)
    BY <1>1 DEF Since
  <2>3. DOMAIN db.owners # {} => DOMAIN db.entries = Booked
    BY <2>1 DEF EntriesRight
  <2>4. ASSUME applied >= 19, NEW e \in DOMAIN db.entries
        PROVE  \/ db.entries[e].on = NoProject
               \/ db.entries[e].on \in DOMAIN db.owners /\ db.owners[db.entries[e].on] = db.entries[e].by
    BY <2>1, <2>2, <2>4 DEF EntriesRight
  <2> QED
    BY <2>3, <2>4 DEF OwnEntries
<1>9. NothingFails
  BY DEF NothingFails, MigrationInv, SchemaStands, Clean, RunnerStands
<1> QED
  BY <1>5, <1>6, <1>7, <1>8, <1>9 DEF UpgradeKeepsEverybody

(***************************************************************************)
(* However a database came to today's version, through whatever older      *)
(* releases, role names and stops, migration.go's runner leaves the roles  *)
(* that ship with their rights, everybody a role that exists and every     *)
(* booked entry on a project of its own account's or on none. It is        *)
(* refused a statement in two cases: on MySQL after a stop, and on         *)
(* PostgreSQL where a clock runs on a shared project nobody booked on.     *)
(***************************************************************************)
THEOREM UpgradesKeepEverybody == MigrationSpec => []UpgradeKeepsEverybody
<1>1. MigrationInit => MigrationInv
  BY InitIsRight
<1>2. MigrationInv /\ [MigrationNext]_migrationVars => MigrationInv'
  BY NextKeepsInv
<1>3. MigrationInv => UpgradeKeepsEverybody
  BY InvKeepsEverybody
<1> QED
  BY <1>1, <1>2, <1>3, PTL DEF MigrationSpec
=============================================================================
