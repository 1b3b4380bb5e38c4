--------------------------- MODULE MCInstallation ---------------------------
(***************************************************************************)
(* An installation from one start to the next, for TLC: the migrations, a  *)
(* start, what the next start will use, the binary's and the image's       *)
(* update, the notices, the log, and a session with its timeouts. They     *)
(* share no variable, so a behaviour follows one of them while the others  *)
(* stand still.                                                            *)
(***************************************************************************)
EXTENDS Migrations, Startup, NextStart, SelfUpdate, ImageUpdate, Notices, LogSink, SessionClock, TLC

CONSTANTS c1, c2

VARIABLE part

\* Berlin and Paris keep the same offsets all year, Lisbon does not.
OffsetsOf == [z \in {"Berlin", "Paris", "Lisbon"} |-> IF z = "Lisbon" THEN "0/1" ELSE "1/2"]

\* What the migrations call a role they move aside.
NumberedNames == [name \in InTheWay |-> [n \in Numbers |-> name \o "-" \o ToString(n)]]

\* Long runs of lines with restarts, every kind of line with a change of the level, and
\* pages that take two lines.
L(kinds, count, page, asks, anew, changed) ==
  [kinds |-> kinds, lines |-> count, page |-> page, polls |-> asks, restarts |-> anew, levels |-> changed]
cModes ==
  {L({"info", "error"}, 4, 1, 3, 1, 0), L({"long", "env", "quiet", "plain", "debug"}, 3, 1, 1, 0, 1),
   L({"info", "error"}, 3, 2, 1, 0, 0)}

\* Two requests, a timeout that is changed, and statements that fail.
C(callers, changed, fails) == [callers |-> callers, saves |-> changed, fails |-> fails]
cClockModes == {C({c1, c2}, 0, FALSE), C({c1}, 1, FALSE), C({c1}, 1, TRUE)}

\* The parts that are not followed start in one state.
Init ==
  /\ part \in {"migrations", "start", "next", "binary", "image", "notices", "log", "session"}
  /\ MigrationInit /\ StartInit /\ NextStartInit /\ UpdateInit /\ ImageInit /\ NoticeInit
  /\ SinkInit /\ ClockInit
  /\ part # "migrations" => dialect = "sqlite" /\ db.first
  /\ part # "start" => startZone = "Berlin"
  /\ part # "next" => confFile.metrics /\ confFile.exporter = Off /\ confFile.url = "c1" /\ envDs.server = "a"
  /\ part # "log" => mode.page = 2
  /\ part # "session" => clockMode.fails /\ setting.idle = 0

startsVars == <<migrationVars, startVars, nextVars>>
updatesVars == <<updateVars, imageVars, noticeVars>>
runsVars == <<sinkVars, clockVars>>
allVars == <<part, startsVars, updatesVars, runsVars>>

Next ==
  /\ UNCHANGED part
  /\ \/ /\ UNCHANGED <<updatesVars, runsVars>>
        /\ \/ part = "migrations" /\ MigrationNext /\ UNCHANGED <<startVars, nextVars>>
           \/ part = "start" /\ StartNext /\ UNCHANGED <<migrationVars, nextVars>>
           \/ part = "next" /\ NextStartNext /\ UNCHANGED <<migrationVars, startVars>>
     \/ /\ UNCHANGED <<startsVars, runsVars>>
        /\ \/ part = "binary" /\ UpdateNext /\ UNCHANGED <<imageVars, noticeVars>>
           \/ part = "image" /\ ImageNext /\ UNCHANGED <<updateVars, noticeVars>>
           \/ part = "notices" /\ NoticeNext /\ UNCHANGED <<updateVars, imageVars>>
     \/ /\ UNCHANGED <<startsVars, updatesVars>>
        /\ \/ part = "log" /\ SinkNext /\ UNCHANGED clockVars
           \/ part = "session" /\ ClockNext /\ UNCHANGED sinkVars
Spec == Init /\ [][Next]_allVars

=============================================================================
