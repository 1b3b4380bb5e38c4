----------------------------- MODULE NextStart -----------------------------
(***************************************************************************)
(* The settings a process takes up only when it starts: the metrics and    *)
(* tracing an administrator stored over the configuration file's, the      *)
(* directory's schedule, and the database connection; which of them the    *)
(* restart screen says are pending, and the restart itself.                *)
(***************************************************************************)
EXTENDS Naturals, FiniteSets

CONSTANTS
  Collectors,    \* addresses traces can be sent to
  Levels,        \* log levels
  Schedules,     \* schedules of the directory's run
  Servers,       \* accounts on database servers, each with a password of its own
  MaxSaves,      \* how often something is saved or edited
  MaxRestarts

\* An address and an account are neither empty nor the absence of one.
ASSUME NextNamesAssumption == "" \notin Collectors /\ "unset" \notin Collectors \cup Servers

ASSUME NextBoundsAssumption == MaxSaves \in Nat /\ MaxRestarts \in Nat

VARIABLES
  confFile,      \* telemetry and schedule in the configuration file
  fromFile,      \* what this process read there
  telemetry,     \* what an administrator stored
  schedule,      \* the stored schedule of the directory's run
  savedDs, envDs, \* the connection in the datasource file and in the environment
  handedOn,      \* telemetry values in the environment the next process is given
  run,           \* what this process runs with
  level,         \* the log level in force, which is changed without a restart
  live, asked,   \* whether it runs, and whether a restart is on its way
  restarts, saves

nextVars == <<confFile, fromFile, telemetry, schedule, savedDs, envDs, handedOn, run, level, live, asked, restarts, saves>>

Nil == "unset"
Off == ""
Addresses == Collectors \cup {""}
FromFile == [metrics : BOOLEAN, exporter : {Off, "otlp"}, url : Addresses, level : Levels, schedule : Schedules \cup {""}]
Telemetry == [metricsOff : BOOLEAN, exporter : {Nil, Off, "otlp"}, url : Addresses \cup {Nil}, level : Levels \cup {Nil, ""}]
Connections == [server : Servers, password : Servers \cup {""}]
NoTelemetry == [metricsOff |-> FALSE, exporter |-> Nil, url |-> Nil, level |-> Nil]
NoConnection == [server |-> Nil, password |-> ""]

NextTypeOK ==
  /\ {confFile, fromFile} \subseteq FromFile
  /\ telemetry \in Telemetry /\ schedule \in Schedules \cup {""}
  /\ {savedDs, envDs, run.connection} \subseteq Connections \cup {NoConnection}
  /\ handedOn \in Telemetry
  /\ run.metrics \in BOOLEAN /\ run.exporter \in {Off, "otlp"} /\ run.url \in Addresses
  /\ run.schedule \in Schedules \cup {""} /\ level \in Levels
  /\ {live, asked} \subseteq BOOLEAN
  /\ restarts \in 0 .. MaxRestarts /\ saves \in 0 .. MaxSaves

-----------------------------------------------------------------------------
\* Spaces and cases apart: with tracing administered off, its address means nothing.
Normalise(t) == IF t.exporter = Off THEN [t EXCEPT !.url = Nil] ELSE t

\* Tracing that is administered needs an address to go to.
InvalidTelemetryFields(t) == IF t.exporter \notin {Nil, Off} /\ t.url \in {Nil, ""} THEN {"tracerUrl"} ELSE {}

stringOr(stored, file) == IF stored = Nil THEN file ELSE stored

\* The configuration file under the environment the process was given.
TelemetryFromConfig ==
  [confFile EXCEPT !.metrics = @ /\ ~handedOn.metricsOff,
                   !.exporter = stringOr(handedOn.exporter, @), !.url = stringOr(handedOn.url, @)]

\* What the environment says when the stored values have been put over the file's.
ApplyTelemetry(file, t) ==
  [metrics |-> file.metrics /\ ~t.metricsOff,
   exporter |-> IF t.exporter # Nil THEN t.exporter ELSE file.exporter,
   url |-> IF t.url \notin {Nil, ""} THEN t.url ELSE IF t.exporter = Off THEN "" ELSE file.url]

EffectiveLogLevel(file, t) == IF t.level \in {Nil, ""} THEN file.level ELSE t.level

NextSchedule(file) == IF schedule = "" THEN file.schedule ELSE schedule

\* The datasource file where there is one; a process that has none goes on as it started.
nextConnection == IF savedDs # NoConnection THEN savedDs ELSE run.connection

\* A slip: the address traces go to is not compared.
telemetryPendingBarAddress ==
  {s \in {"metrics", "traceExporter", "tracerUrl"} :
     \/ s = "metrics" /\ (~telemetry.metricsOff /\ fromFile.metrics) # run.metrics
     \/ s = "traceExporter" /\ stringOr(telemetry.exporter, fromFile.exporter) # run.exporter}

telemetryPending ==
  LET exporter == stringOr(telemetry.exporter, fromFile.exporter)
  IN  {s \in {"metrics", "traceExporter", "tracerUrl"} :
         \/ s = "metrics" /\ (~telemetry.metricsOff /\ fromFile.metrics) # run.metrics
         \/ s = "traceExporter" /\ exporter # run.exporter
         \/ /\ s = "tracerUrl" /\ ~(exporter = Off /\ run.exporter = Off)
            /\ stringOr(telemetry.url, fromFile.url) # run.url}

schedulePending ==
  IF NextSchedule(fromFile) # run.schedule THEN {"directorySchedule"} ELSE {}

databasePending ==
  IF savedDs = NoConnection THEN {}
  ELSE (IF savedDs.server # run.connection.server THEN {"database"} ELSE {})
       \cup (IF savedDs.password # run.connection.password THEN {"databasePassword"} ELSE {})

pending == telemetryPending \cup schedulePending \cup databasePending

-----------------------------------------------------------------------------
\* What a start runs with, given the telemetry it managed to read.
StartedWith(file, t, connection) ==
  [metrics |-> ApplyTelemetry(file, t).metrics, exporter |-> ApplyTelemetry(file, t).exporter,
   url |-> ApplyTelemetry(file, t).url, connection |-> connection,
   schedule |-> NextSchedule(file)]

NextStartInit ==
  /\ confFile \in {f \in FromFile : f.schedule = "" /\ f.url # "" /\ f.level = CHOOSE l \in Levels : TRUE}
  /\ fromFile = confFile
  /\ telemetry = NoTelemetry /\ schedule = ""
  /\ envDs \in {c \in Connections : c.password = c.server}
  /\ savedDs = NoConnection
  /\ handedOn = NoTelemetry
  /\ run = StartedWith(confFile, NoTelemetry, envDs)
  /\ level = confFile.level
  /\ live = TRUE /\ asked = FALSE /\ restarts = 0 /\ saves = 0

Saved ==
  /\ live /\ saves < MaxSaves
  /\ saves' = saves + 1

\* The level in force follows the stored one at once, and without one the file's.
applyLogLevel(t) == IF t.level \in {Nil, ""} THEN fromFile.level ELSE t.level

\* Metrics and tracing are stored; only the log level changes in the process.
SaveTelemetry ==
  /\ Saved
  /\ \E t \in Telemetry :
       /\ InvalidTelemetryFields(Normalise(t)) = {}
       /\ telemetry' = Normalise(t)
       /\ level' = applyLogLevel(Normalise(t))
  /\ UNCHANGED <<confFile, fromFile, schedule, savedDs, envDs, handedOn, run, live, asked, restarts>>

\* The directory's schedule is stored with its configuration.
SaveSchedule ==
  /\ Saved
  /\ schedule' \in (Schedules \cup {""}) \ {schedule}
  /\ UNCHANGED <<confFile, fromFile, telemetry, savedDs, envDs, handedOn, run, level, live, asked, restarts>>

\* Dialect, host, port and user are the same.
sameAccount(c, from) == c.server = from.server

\* A password left out is the one in force only for the account it was given for.
keptPassword(c, from) == IF sameAccount(c, from) THEN from.password ELSE ""

\* A connection is stored for the next start, written beside the file and renamed over it.
SaveDatasource ==
  /\ Saved
  /\ \E server \in Servers, typed \in BOOLEAN :
       LET c == [server |-> server, password |-> IF typed THEN server ELSE ""]
       IN  savedDs' = [c EXCEPT !.password = IF @ = "" THEN keptPassword(c, nextConnection) ELSE @]
  /\ UNCHANGED <<confFile, fromFile, telemetry, schedule, envDs, handedOn, run, level, live, asked, restarts>>

\* The operator edits the configuration file under the running process.
EditFile ==
  /\ Saved
  /\ \E m \in BOOLEAN, u \in Collectors : confFile' = [confFile EXCEPT !.metrics = m, !.url = u]
  /\ UNCHANGED <<fromFile, telemetry, schedule, savedDs, envDs, handedOn, run, level, live, asked, restarts>>

\* A restart is asked for: refused where the next connection does not answer, else half a
\* second away.
Restart ==
  /\ live /\ ~asked /\ restarts < MaxRestarts
  /\ \E answers \in BOOLEAN : asked' = answers
  /\ UNCHANGED <<confFile, fromFile, telemetry, schedule, savedDs, envDs, handedOn, run, level, live, restarts, saves>>

\* A slip: the new process is given what this one had put into its environment.
environmentOfNow == [telemetry EXCEPT !.url = IF run.url = "" THEN Nil ELSE run.url, !.exporter = run.exporter,
                                      !.metricsOff = ~run.metrics, !.level = Nil]
\* The environment the process itself was started with.
startEnvironment == handedOn

\* The process is replaced, or ends and is started by what watches over it.
Now ==
  /\ live /\ asked
  /\ live' = FALSE /\ asked' = FALSE /\ restarts' = restarts + 1
  /\ handedOn' = startEnvironment
  /\ UNCHANGED <<confFile, fromFile, telemetry, schedule, savedDs, envDs, run, level, saves>>

\* A start: it reads the file under its environment, and the stored telemetry over both. A
\* database that does not answer in time leaves the file's values.
StartAgain ==
  /\ ~live
  /\ LET file == TelemetryFromConfig
         connection == IF savedDs # NoConnection THEN savedDs ELSE envDs
     IN  \E StoredTelemetry \in {telemetry, NoTelemetry} :
           /\ run' = StartedWith(file, StoredTelemetry, connection)
           /\ level' = EffectiveLogLevel(file, StoredTelemetry)
           /\ fromFile' = file
  /\ live' = TRUE
  /\ UNCHANGED <<confFile, telemetry, schedule, savedDs, envDs, handedOn, asked, restarts, saves>>

NextStartNext ==
  \/ SaveTelemetry \/ SaveSchedule \/ SaveDatasource \/ EditFile \/ Restart \/ Now \/ StartAgain

NextStartSpec == NextStartInit /\ [][NextStartNext]_nextVars

-----------------------------------------------------------------------------
Traced(r) == IF r.exporter = Off THEN [r EXCEPT !.url = ""] ELSE r
ColdStart == StartedWith(confFile, telemetry, IF savedDs # NoConnection THEN savedDs ELSE envDs)

(***************************************************************************)
(* When the screen lists nothing as pending, a restart changes nothing: it *)
(* would run with the metrics, tracing, schedule and connection this       *)
(* process runs with. (An edit of the configuration file is beyond it.)    *)
(***************************************************************************)
SilenceIsSafe ==
  live /\ pending = {} /\ confFile = fromFile => Traced(ColdStart) = Traced(run)

(***************************************************************************)
(* The log level in force is always the one a start would come up with,    *)
(* though it is changed in the running process and never by a restart.     *)
(***************************************************************************)
LevelInForce ==
  live /\ level # EffectiveLogLevel(fromFile, telemetry) => level = fromFile.level /\ restarts > 0

(***************************************************************************)
(* A restart comes up as a start from a cold machine would: nothing of     *)
(* what the last process put into its own environment reaches it.          *)
(***************************************************************************)
StartsAsCold ==
  [][~live /\ live' => \/ run' = ColdStart
                       \/ run' = StartedWith(confFile, NoTelemetry, ColdStart.connection)]_nextVars

(***************************************************************************)
(* A password is only ever sent to the account it was typed for, however   *)
(* the connection was edited with the password left blank.                 *)
(***************************************************************************)
PasswordStays ==
  \A c \in {savedDs, run.connection} : c.password \in {"", c.server}

(***************************************************************************)
(* A restart holds no surprise: what it would change is listed as pending, *)
(* the log level stays, and no password goes to another account.           *)
(***************************************************************************)
RestartHoldsNoSurprise == NextTypeOK /\ SilenceIsSafe /\ LevelInForce /\ PasswordStays
=============================================================================
