---------------------------- MODULE MCEventually ----------------------------
(***************************************************************************)
(* What must happen in the end, for TLC: the notice of an image update,    *)
(* the maintenance switch, the log's pipes, a session and the terminal's   *)
(* screen, each under the fairness its goroutines, timers and time limits  *)
(* give it. They share no variable, so a behaviour follows one of them and *)
(* leaves the others where they start.                                     *)
(***************************************************************************)
EXTENDS ImageUpdate, Notices, LogSink, SessionClock, Terminal

CONSTANTS c1

VARIABLE part

allVars == <<imageVars, noticeVars, sinkVars, clockVars, terminalVars, part>>

\* Every kind of line the two goroutines treat differently, and a new process.
cModes ==
  {[kinds |-> {"info", "long", "env"}, lines |-> 3, page |-> 1, polls |-> 0, restarts |-> 1, levels |-> 0]}
\* A timeout that is changed, while statements may fail.
cClockModes == {[callers |-> {c1}, saves |-> 1, fails |-> TRUE]}
\* A change, here or in the browser, and a call that is lost.
cBudgets == {[changes |-> 1, failures |-> 1, commands |-> 0]}

Init ==
  /\ part \in {"image", "gate", "log", "session", "terminal"}
  /\ ImageInit /\ NoticeInit /\ SinkInit /\ ClockInit /\ TerminalInit
  /\ part # "session" => setting.idle = 0
  /\ part # "terminal" => loads[CHOOSE l \in Loads : TRUE] = Unstarted

\* A step of one part, which leaves the others alone.
OfTheImage(step) ==
  part = "image" /\ step /\ UNCHANGED <<noticeVars, sinkVars, clockVars, terminalVars, part>>
OfTheGate(step) ==
  part = "gate" /\ step /\ UNCHANGED <<imageVars, sinkVars, clockVars, terminalVars, part>>
OfTheLog(step) ==
  part = "log" /\ step /\ UNCHANGED <<imageVars, noticeVars, clockVars, terminalVars, part>>
OfTheSession(step) ==
  part = "session" /\ step /\ UNCHANGED <<imageVars, noticeVars, sinkVars, terminalVars, part>>
OfTheTerminal(step) ==
  part = "terminal" /\ step /\ UNCHANGED <<imageVars, noticeVars, sinkVars, clockVars, part>>

Next ==
  \/ OfTheImage(ImageNext)
  \/ OfTheGate(GateNext)
  \/ OfTheLog(SinkNext)
  \/ OfTheSession(ClockNext)
  \/ OfTheTerminal(TerminalNext)

\* The fairness of each part, while a behaviour follows it: what runs by itself, runs.
Spec ==
  /\ Init /\ [][Next]_allVars
  /\ WF_allVars(OfTheImage(Application))
  /\ WF_allVars(OfTheImage(Updater))
  /\ WF_allVars(OfTheImage(UpdaterStarts))
  /\ WF_allVars(OfTheGate(Tick))
  /\ \A r \in Readers : WF_allVars(OfTheGate(ReadSwitch(r) \/ ReadFails(r) \/ Fill(r)))
  /\ \A p \in Pipes : WF_allVars(OfTheLog(Drains(p)))
  /\ WF_allVars(OfTheSession(ClockTick))
  /\ WF_allVars(OfTheSession(Prune))
  /\ WF_allVars(OfTheSession(InvalidateLimits))
  /\ \A c \in Callers : WF_allVars(OfTheSession(Waiting(c) /\ RequestStep(c)))
  /\ WF_allVars(OfTheTerminal(tick))
  /\ \A l \in Loads : WF_allVars(OfTheTerminal(Reads(l)))
  /\ \A c \in Changes : WF_allVars(OfTheTerminal(carriedOut(c) \/ done(c)))

\* The notice of a press that found nothing of an earlier request under way comes down,
\* whichever of the updater, the application and the wait for an answer fails, and whatever
\* is pressed after it (askForTheImage, awaitTheImage).
NoticeComesDown == part = "image" /\ notice # "none" /\ fresh ~> notice = "none"

\* Every session ends: once it has expired, the sweep removes it (DeleteExpired), however
\* much it is used.
SessionEnds == part = "session" /\ row.there ~> ~row.there

\* Whatever order the reads come back in and whichever of them fail, the screen ends up
\* showing the stopwatch, the day and the language the installation holds (read, tick).
ScreenCatchesUp == part = "terminal" => <>[]Shows
=============================================================================
